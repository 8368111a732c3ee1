---- MODULE ExecSessions ----
(* Long-running commands (agent/exec_sessions.rs, agent/mod.rs:2493-2530).     *)
(* For each there is a child process, a task that reads its two outputs, a     *)
(* task that writes its input, and the entry in the table of sessions.  The    *)
(* main loop starts, feeds and closes sessions, and stays in each of these     *)
(* until it is done.                                                           *)
EXTENDS AgentDownlink, FiniteSets

CONSTANTS Execs,           \* long-running commands
          MaxSessions,     \* max_sessions
          StdinCap,        \* capacity of a session's input queue
          MaxInputs        \* bound: inputs sent to a session

ASSUME ExecAssumption ==
    MaxSessions \in Nat \ {0} /\ StdinCap \in Nat \ {0} /\ MaxInputs \in Nat

VARIABLES
    client,   \* what the client has asked for, and the last status it was told
    entry,    \* the sessions: table, status, cancel permit, input queue
    watcher,  \* the tasks that read and then wait for the child
    writer,   \* the tasks that write the child's input
    proc      \* the children: alive, outputs open, outputs with something unread

exec == <<client, entry, watcher, writer, proc>>

Outputs == {"out", "err"}

ExecInit ==
    /\ client = [e \in Execs |-> [asked |-> "none", inputs |-> 0, told |-> "none"]]
    /\ entry = [e \in Execs |-> [listed |-> FALSE, status |-> "none", permit |-> FALSE,
                                 queue |-> 0, sender |-> FALSE]]
    /\ watcher = [e \in Execs |-> [at |-> "none", eof |-> {}]]
    /\ writer = [e \in Execs |-> "none"]
    /\ proc = [e \in Execs |-> [alive |-> FALSE, open |-> {}, unread |-> {}]]

----------------------------------------------------------------------------
(* A client's messages (browser_send_handler).                                 *)

ClientStarts(e) ==
    /\ client[e].asked = "none"
    /\ client' = [client EXCEPT ![e].asked = "started"]
    /\ Deliver("exec_start", e)
    /\ UNCHANGED <<entry, watcher, writer, proc, butInter, answers, faults>>

ClientWrites(e) ==
    /\ client[e].asked = "started" /\ client[e].inputs < MaxInputs
    /\ client' = [client EXCEPT ![e].inputs = @ + 1]
    /\ Deliver("exec_input", e)
    /\ UNCHANGED <<entry, watcher, writer, proc, butInter, answers, faults>>

ClientCloses(e) ==
    /\ client[e].asked = "started"
    /\ client' = [client EXCEPT ![e].asked = "closed"]
    /\ Deliver("exec_close", e)
    /\ UNCHANGED <<entry, watcher, writer, proc, butInter, answers, faults>>

----------------------------------------------------------------------------
(* The main loop.                                                              *)

Running == {e \in Execs : entry[e].listed /\ entry[e].status = "running"}

(* spawn: refused when max_sessions run; else the sessions that ended leave    *)
(* the table and the child and its tasks are started.                          *)
TakesStart(e) ==
    /\ TakesInter("exec_start", e)
    /\ IF Cardinality(Running) >= MaxSessions
       THEN UNCHANGED <<client, entry, watcher, writer, proc>>
       ELSE /\ entry' = [f \in Execs |->
                            IF f = e THEN [listed |-> TRUE, status |-> "running", permit |-> FALSE,
                                           queue |-> 0, sender |-> TRUE]
                            ELSE IF entry[f].status = "running" THEN entry[f]
                            ELSE [entry[f] EXCEPT !.listed = FALSE, !.sender = FALSE]]
            /\ watcher' = [watcher EXCEPT ![e].at = "reading"]
            /\ writer' = [writer EXCEPT ![e] = "receiving"]
            /\ proc' = [proc EXCEPT ![e].alive = TRUE, ![e].open = Outputs]
            /\ client' = [client EXCEPT ![e].told = "running"]
    /\ UNCHANGED <<butInter, answers, faults>>

(* write_stdin: the status is looked at once; then the loop waits for room in  *)
(* the session's queue.                                                        *)
TakesInput(e) ==
    /\ TakesInter("exec_input", e)
    /\ loop' = IF e \in Running THEN [op |-> "input", exec |-> e] ELSE Idle
    /\ UNCHANGED <<exec, bulk, gen, online, answers, faults>>

InputQueued(e) ==
    /\ loop = [op |-> "input", exec |-> e]
    /\ IF writer[e] = "over" THEN UNCHANGED entry
       ELSE /\ entry[e].queue < StdinCap
            /\ entry' = [entry EXCEPT ![e].queue = @ + 1]
    /\ loop' = Idle
    /\ UNCHANGED <<client, watcher, writer, proc, bulk, inter, gen, online, answers, faults>>

(* close: the session leaves the table and its input is closed.                *)
Closes(e) ==
    /\ entry' = [entry EXCEPT ![e].listed = FALSE, ![e].sender = FALSE]
    /\ loop' = [op |-> "settle", exec |-> e]

TakesClose(e) ==
    /\ TakesInter("exec_close", e)
    /\ IF entry[e].listed THEN Closes(e) ELSE UNCHANGED <<entry, loop>>
    /\ UNCHANGED <<client, watcher, writer, proc, bulk, gen, online, answers, faults>>

Told(e, status) == client' = [client EXCEPT ![e].told = status]

(* It ended within half a second, or is cancelled.                             *)
CloseSettles(e) ==
    /\ loop = [op |-> "settle", exec |-> e]
    /\ IF entry[e].status # "running"
       THEN loop' = Idle /\ Told(e, entry[e].status) /\ UNCHANGED entry
       ELSE /\ loop' = [op |-> "cancel", exec |-> e]
            /\ entry' = [entry EXCEPT ![e].permit = TRUE]
            /\ UNCHANGED client
    /\ UNCHANGED <<watcher, writer, proc, bulk, inter, gen, online, answers, faults>>

(* A second later what is still running is called killed.                      *)
CloseEnds(e) ==
    /\ loop = [op |-> "cancel", exec |-> e]
    /\ loop' = Idle
    /\ IF entry[e].status # "running"
       THEN Told(e, entry[e].status) /\ UNCHANGED entry
       ELSE Told(e, "killed") /\ entry' = [entry EXCEPT ![e].status = "killed"]
    /\ UNCHANGED <<watcher, writer, proc, bulk, inter, gen, online, answers, faults>>

(* shutdown_all at the end of run_session closes what is left, one by one.     *)
ShutdownCloses(e) ==
    /\ ~online /\ loop = Idle /\ entry[e].listed
    /\ Closes(e)
    /\ UNCHANGED <<client, watcher, writer, proc, bulk, inter, gen, online, answers, faults>>

----------------------------------------------------------------------------
(* The reading task.                                                           *)

ReadsOutput(e) ==
    /\ watcher[e].at = "reading"
    /\ \E p \in proc[e].unread : proc' = [proc EXCEPT ![e].unread = @ \ {p}]
    /\ UNCHANGED <<client, entry, watcher, writer, link, answers, faults>>

(* Mutant: the end of either output ends the reading.                          *)
ReadsEof_Either(e) ==
    /\ watcher[e].at = "reading"
    /\ \E p \in Outputs \ (proc[e].open \union proc[e].unread \union watcher[e].eof) :
          watcher' = [watcher EXCEPT ![e].eof = @ \union {p}, ![e].at = "waiting"]
    /\ UNCHANGED <<client, entry, writer, proc, link, answers, faults>>

(* The end of one output leaves the other to be read; after both the task only *)
(* waits for the child.                                                        *)
ReadsEof(e) ==
    /\ watcher[e].at = "reading"
    /\ \E p \in Outputs \ (proc[e].open \union proc[e].unread \union watcher[e].eof) :
          watcher' = [watcher EXCEPT ![e].eof = @ \union {p},
                        ![e].at = IF watcher[e].eof \union {p} = Outputs THEN "waiting" ELSE @]
    /\ UNCHANGED <<client, entry, writer, proc, link, answers, faults>>

(* The child is killed; what it wrote last is left unread.                     *)
Stops(e, status) ==
    /\ watcher[e].at = "reading"
    /\ watcher' = [watcher EXCEPT ![e] = [at |-> "waiting", eof |-> {}]]
    /\ entry' = [entry EXCEPT ![e].permit = IF status = "timeout" THEN @ ELSE FALSE,
                              ![e].status = status]
    /\ proc' = [proc EXCEPT ![e] = [alive |-> FALSE, open |-> {}, unread |-> {}]]
    /\ UNCHANGED <<client, writer, link, answers, faults>>

ReaderCancelled(e) == entry[e].permit /\ Stops(e, "killed")

(* Five minutes without output or input.                                       *)
IdleTimeout(e) == proc[e].unread = {} /\ Stops(e, "timeout")

ReaderEnds(e) ==
    /\ watcher[e].at = "waiting" /\ ~proc[e].alive
    /\ watcher' = [watcher EXCEPT ![e] = [at |-> "over", eof |-> {}]]
    /\ entry' = [entry EXCEPT ![e].status = IF @ = "running" THEN "exited" ELSE @]
    /\ UNCHANGED <<client, writer, proc, link, answers, faults>>

----------------------------------------------------------------------------
(* The writing task: it takes a cancel permit like the reading one, but only   *)
(* between two inputs.                                                         *)

WriterReceives(e) ==
    /\ writer[e] = "receiving"
    /\ \/ entry[e].queue > 0
          /\ writer' = [writer EXCEPT ![e] = "writing"]
          /\ entry' = [entry EXCEPT ![e].queue = @ - 1]
       \/ entry[e].queue = 0 /\ ~entry[e].sender
          /\ writer' = [writer EXCEPT ![e] = "over"]
          /\ UNCHANGED entry
       \/ entry[e].permit
          /\ writer' = [writer EXCEPT ![e] = "over"]
          /\ entry' = [entry EXCEPT ![e].permit = FALSE]
    /\ UNCHANGED <<client, watcher, proc, link, answers, faults>>

(* A write that finds the pipe closed fails at once; one that finds it full    *)
(* waits for the child to read.                                                *)
WriteFailsClosed(e) ==
    /\ writer[e] = "writing" /\ ~proc[e].alive
    /\ writer' = [writer EXCEPT ![e] = "receiving"]
    /\ UNCHANGED <<client, entry, watcher, proc, link, answers, faults>>

ChildReads(e) ==
    /\ writer[e] = "writing" /\ proc[e].alive
    /\ writer' = [writer EXCEPT ![e] = "receiving"]
    /\ UNCHANGED <<client, entry, watcher, proc, link, answers, faults>>

----------------------------------------------------------------------------
(* The child: it writes to its outputs, closes them, ends.                     *)

ChildWrites(e) ==
    /\ proc[e].alive
    /\ \E p \in proc[e].open : proc' = [proc EXCEPT ![e].unread = @ \union {p}]
    /\ UNCHANGED <<client, entry, watcher, writer, link, answers, faults>>

ChildCloses(e) ==
    /\ proc[e].alive
    /\ \E p \in proc[e].open : proc' = [proc EXCEPT ![e].open = @ \ {p}]
    /\ UNCHANGED <<client, entry, watcher, writer, link, answers, faults>>

ChildEnds(e) ==
    /\ proc[e].alive
    /\ proc' = [proc EXCEPT ![e].alive = FALSE, ![e].open = {}]
    /\ UNCHANGED <<client, entry, watcher, writer, link, answers, faults>>

MainLoop(e) ==
    TakesStart(e) \/ TakesInput(e) \/ InputQueued(e) \/ TakesClose(e) \/ CloseSettles(e)
    \/ CloseEnds(e) \/ ShutdownCloses(e)
Watcher(e) == ReadsOutput(e) \/ ReadsEof(e) \/ ReaderCancelled(e) \/ ReaderEnds(e)
Writer(e) == WriterReceives(e) \/ WriteFailsClosed(e)

ExecNext ==
    \E e \in Execs :
        \/ ClientStarts(e) \/ ClientWrites(e) \/ ClientCloses(e)
        \/ MainLoop(e) \/ Watcher(e) \/ Writer(e)
        \/ IdleTimeout(e)
        \/ ChildReads(e) \/ ChildWrites(e) \/ ChildCloses(e) \/ ChildEnds(e)
====
