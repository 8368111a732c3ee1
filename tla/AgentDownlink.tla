---- MODULE AgentDownlink ----
(* The two channels from the relay to an agent (relay/ws.rs:2243-2296): file   *)
(* messages wait for room on the bulk one (relay/file_transfer.rs:36-48), the  *)
(* rest takes the interactive one.  Each connection of the agent has its own   *)
(* pair; a handler that keeps a channel goes on sending to it after its        *)
(* connection ended, and that is lost without a word, as is what a channel     *)
(* still held.  The agent's main loop takes one message at a time and finishes *)
(* what it asks for before the next (agent/mod.rs:2057-2260).                  *)
EXTENDS Naturals, Sequences

CONSTANTS BulkCap,         \* BULK_CHANNEL_CAPACITY
          InterCap,        \* SSE_CHANNEL_CAPACITY
          MaxDrops,        \* bound: disconnections of the agent
          MaxFaults        \* bound: lost posts and answers of the agent, failed writes

ASSUME DownlinkAssumption ==
    BulkCap \in Nat \ {0} /\ InterCap \in Nat \ {0} /\ MaxDrops \in Nat /\ MaxFaults \in Nat

VARIABLES
    bulk,     \* file messages to the agent, in order
    inter,    \* the other messages to the agent, in order
    gen,      \* the connection of the agent, counted
    online,   \* it is up
    loop,     \* what the main loop is in the middle of
    results,  \* answers of the agent under way to the relay
    pending,  \* pending_mcp: requests that await an answer of the agent
    faults    \* lost posts and answers and failed writes so far

link == <<bulk, inter, gen, online, loop>>
butBulk == <<inter, gen, online, loop>>
butInter == <<bulk, gen, online, loop>>
answers == <<results, pending>>

Idle == [op |-> "idle"]
Alive(c) == online /\ c = gen

(* deliver_bulk waits for room and ignores a closed channel.                   *)
Room(c) == Alive(c) => Len(bulk) < BulkCap
Tell(c, kind, id, index) ==
    bulk' = IF Alive(c) THEN Append(bulk, [kind |-> kind, id |-> id, index |-> index])
                        ELSE bulk

(* deliver does not wait: a message that finds no room is dropped.             *)
Deliver(kind, id) ==
    inter' = IF online /\ Len(inter) < InterCap
             THEN Append(inter, [kind |-> kind, id |-> id, index |-> 0]) ELSE inter

(* The agent's main loop takes the next message.                               *)
IsNext(q, kind, id) ==
    loop = Idle /\ q # <<>> /\ Head(q).kind = kind /\ Head(q).id = id
Takes(kind, id) == IsNext(bulk, kind, id) /\ bulk' = Tail(bulk)
TakesInter(kind, id) == IsNext(inter, kind, id) /\ inter' = Tail(inter)

(* A frame of the agent takes the request it answers out of the table; it may  *)
(* be lost on its way.                                                         *)
Arrives(id, ok) ==
    /\ <<id, ok>> \in results
    /\ results' = results \ {<<id, ok>>}
    /\ pending' = pending \ {id}
Loses(id) ==
    /\ faults < MaxFaults /\ faults' = faults + 1
    /\ \E ok \in BOOLEAN : <<id, ok>> \in results /\ results' = results \ {<<id, ok>>}
    /\ UNCHANGED pending

LinkInit ==
    /\ bulk = <<>> /\ inter = <<>> /\ gen = 0 /\ online = TRUE /\ loop = Idle
    /\ results = {} /\ pending = {} /\ faults = 0
Drops ==
    /\ online /\ gen < MaxDrops
    /\ online' = FALSE /\ bulk' = <<>> /\ inter' = <<>>
    /\ UNCHANGED <<gen, loop>>
Returns ==
    /\ ~online /\ loop = Idle
    /\ online' = TRUE /\ gen' = gen + 1
    /\ UNCHANGED <<bulk, inter, loop>>
====
