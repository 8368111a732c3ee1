---- MODULE ToolCalls ----
(* The tool shell_remote (relay/mcp.rs): a command is sent to the agent, which *)
(* runs it in a task of its own, and the call waits for the answer, or for the *)
(* command's time-out and five seconds more.                                   *)
EXTENDS AgentDownlink

CONSTANT Calls

VARIABLES
    call,     \* process_mcp_request, one task a call
    command   \* the agent's task that runs the command, and its connection

tool == <<call, command>>

ToolInit ==
    /\ call = [c \in Calls |-> "none"]
    /\ command = [c \in Calls |-> [at |-> "none", gen |-> 0]]

(* The call is registered before the agent is looked up.                       *)
CallRegisters(c) ==
    /\ call[c] = "none"
    /\ call' = [call EXCEPT ![c] = "registered"]
    /\ pending' = pending \union {c}
    /\ UNCHANGED <<command, link, results, faults>>

(* Whether the message found room is not looked at; without an agent the call  *)
(* is taken back.                                                              *)
CallSends(c) ==
    /\ call[c] = "registered"
    /\ Deliver("exec", c)
    /\ call' = [call EXCEPT ![c] = IF online THEN "waiting" ELSE "no_agent"]
    /\ pending' = IF online THEN pending ELSE pending \ {c}
    /\ UNCHANGED <<command, butInter, results, faults>>

CallAnswered(c) ==
    /\ Arrives(c, TRUE)
    /\ call' = [call EXCEPT ![c] = IF c \in pending THEN "ok" ELSE @]
    /\ UNCHANGED <<command, link, faults>>

CallTimesOut(c) ==
    /\ call[c] = "waiting"
    /\ call' = [call EXCEPT ![c] = "timeout"]
    /\ pending' = pending \ {c}
    /\ UNCHANGED <<command, link, results, faults>>

(* mcp:exec: a task is spawned and the main loop goes on.                      *)
TakesExec(c) ==
    /\ TakesInter("exec", c)
    /\ command' = [command EXCEPT ![c] = [at |-> "running", gen |-> gen]]
    /\ UNCHANGED <<call, butInter, answers, faults>>

(* The command ends or is stopped by its own time-out.  The result takes the   *)
(* uplink of the connection the command came by.                               *)
CommandEnds(c) ==
    /\ command[c].at = "running"
    /\ command' = [command EXCEPT ![c].at = "over"]
    /\ results' = IF Alive(command[c].gen) THEN results \union {<<c, TRUE>>} ELSE results
    /\ UNCHANGED <<call, link, pending, faults>>

CallAnswerLost(c) == Loses(c) /\ UNCHANGED <<tool, link>>

ToolNext ==
    \E c \in Calls :
        \/ CallRegisters(c) \/ CallSends(c) \/ CallAnswered(c) \/ CallTimesOut(c)
        \/ TakesExec(c) \/ CommandEnds(c) \/ CallAnswerLost(c)
====
