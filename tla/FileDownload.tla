---- MODULE FileDownload ----
(* GET /agent/mcp/get (relay/file_transfer.rs, relay/ws.rs, agent/mod.rs).     *)
(* Three parties: the agent's reading task, which posts one chunk at a time;   *)
(* the relay's routing of each post, which puts events in the download's sink; *)
(* and the GET handler, which empties the sink into the response.              *)
(* A file is counted in chunks: it holds the numbers 0 .. FileLen - 1.         *)
EXTENDS AgentDownlink, SequencesExt

CONSTANTS Gets,            \* downloads
          Ranges,          \* ranges asked for: [from, to], or Whole
          FileLen,         \* chunks of the file
          SinkCap,         \* capacity of a download's sink
          AgentIgnoresRange, \* TRUE: an agent older than the range fields
          Whole

ASSUME DownloadAssumption ==
    /\ FileLen \in Nat \ {0} /\ SinkCap \in Nat \ {0}
    /\ AgentIgnoresRange \in BOOLEAN
    /\ \A r \in Ranges \ {Whole} : r \in [from : Nat, to : Nat] /\ r.from <= r.to

VARIABLES
    get,      \* the GET handlers
    sink,     \* download_streams, and the two ends of each sink
    reader,   \* the agent's reading tasks
    shrunk    \* the file was cut while it was being read

down == <<get, sink, reader, shrunk>>

DownloadInit ==
    /\ get = [g \in Gets |-> [at |-> "none", range |-> Whole, gen |-> 0,
                              body |-> <<>>, budget |-> 0, outcome |-> "none"]]
    /\ sink = [g \in Gets |-> [live |-> FALSE, open |-> FALSE, q |-> <<>>]]
    /\ reader = [g \in Gets |-> [at |-> "none", idx |-> 0, evs |-> <<>>, last |-> FALSE,
                                 stop |-> FALSE, cancelled |-> FALSE, listed |-> FALSE]]
    /\ shrunk = FALSE

----------------------------------------------------------------------------
(* The GET handler.                                                            *)

From(r) == IF r = Whole THEN 0 ELSE r.from
(* The length of a clamped range; without a range nothing is cut off.          *)
Budget(r) ==
    IF r = Whole THEN FileLen + 1
    ELSE (IF r.to < FileLen THEN r.to + 1 ELSE FileLen) - r.from

(* The sink is registered before the agent is asked; without an agent the      *)
(* request is refused.                                                         *)
GetAsks(g) ==
    /\ get[g].at = "none"
    /\ \/ /\ ~online
          /\ get' = [get EXCEPT ![g].at = "refused"]
          /\ UNCHANGED <<sink, bulk>>
       \/ /\ online /\ Room(gen)
          /\ \E r \in Ranges :
                get' = [get EXCEPT ![g].at = "waiting", ![g].range = r, ![g].gen = gen]
          /\ sink' = [sink EXCEPT ![g] = [live |-> TRUE, open |-> TRUE, q |-> <<>>]]
          /\ Tell(gen, "read", g, 0)
    /\ UNCHANGED <<reader, shrunk, butBulk, answers, faults>>

(* Nothing more can come: no sender is left, neither the map's nor the one a   *)
(* routing task cloned.                                                        *)
Drained(g) ==
    sink[g].q = <<>> /\ ~sink[g].live /\ reader[g].at \notin {"sending", "stalled"}

(* The handler gives up: the sink leaves the map, then the agent is told, and  *)
(* the channel may make it wait in between.                                    *)
GivesUp(g, outcome) ==
    /\ get' = [get EXCEPT ![g].at = "stopping", ![g].outcome = outcome]
    /\ sink' = [sink EXCEPT ![g].live = FALSE]

(* What the budget leaves of a chunk goes into the response.                   *)
Serves(g, data, budget) ==
    LET kept == IF Len(data) <= budget THEN data ELSE SubSeq(data, 1, budget)
    IN  /\ get' = [get EXCEPT ![g].at = "streaming", ![g].body = @ \o kept,
                              ![g].budget = budget - Len(kept)]
        /\ sink' = [sink EXCEPT ![g].q = Tail(@)]

(* The first event decides between an error, 416 and a body; none is a 504.    *)
GetFirst(g) ==
    /\ get[g].at = "waiting"
    /\ \/ Drained(g) /\ GivesUp(g, "timeout")
       \/ /\ sink[g].q # <<>>
          /\ LET ev == Head(sink[g].q)  r == get[g].range
             IN  IF ev.kind = "error" THEN GivesUp(g, "error")
                 ELSE IF From(r) >= FileLen THEN GivesUp(g, "unsatisfiable")
                 ELSE Serves(g, ev.data, Budget(r))
    /\ UNCHANGED <<reader, shrunk, link, answers, faults>>

(* The response task's loop.  A chunk past the budget ends it: the agent is    *)
(* told first, and the sink leaves the map after that.                         *)
GetNext(g) ==
    /\ get[g].at = "streaming"
    /\ \/ Drained(g) /\ GivesUp(g, "failed")
       \/ /\ sink[g].q # <<>>
          /\ LET ev == Head(sink[g].q)
             IN  CASE ev.kind = "error" -> GivesUp(g, "failed")
                   [] ev.kind = "end" ->
                         /\ get' = [get EXCEPT ![g].at = "complete"]
                         /\ sink' = [sink EXCEPT ![g] = [live |-> FALSE, open |-> FALSE, q |-> <<>>]]
                   [] ev.kind = "chunk" /\ get[g].budget = 0 ->
                         /\ get' = [get EXCEPT ![g].at = "stopping", ![g].outcome = "complete"]
                         /\ UNCHANGED sink
                   [] OTHER -> Serves(g, ev.data, get[g].budget)
    /\ UNCHANGED <<reader, shrunk, link, answers, faults>>

(* send_cancel goes to the channel the request was sent on.                    *)
GetTellsAgent(g) ==
    /\ get[g].at = "stopping"
    /\ Room(get[g].gen) /\ Tell(get[g].gen, "cancel", g, 0)
    /\ get' = [get EXCEPT ![g].at = get[g].outcome]
    /\ sink' = [sink EXCEPT ![g] = [live |-> FALSE, open |-> FALSE, q |-> <<>>]]
    /\ UNCHANGED <<reader, shrunk, butBulk, answers, faults>>

(* The client goes away.  While the first event is awaited that drops the      *)
(* handler, and with it only the receiving end; the response task finds out    *)
(* when it next has bytes to send.                                             *)
GetClientLeaves(g) ==
    /\ \/ /\ get[g].at = "waiting"
          /\ get' = [get EXCEPT ![g].at = "gone"]
          /\ sink' = [sink EXCEPT ![g].open = FALSE, ![g].q = <<>>]
       \/ /\ get[g].at = "streaming" /\ get[g].budget > 0
          /\ sink[g].q # <<>> /\ Head(sink[g].q).data # <<>>
          /\ GivesUp(g, "failed")
    /\ UNCHANGED <<reader, shrunk, link, answers, faults>>

(* Mutant: the sweep takes only sinks whose task has ended.                    *)
ReapSink_Started(g) ==
    /\ sink[g].live /\ reader[g].at = "over"
    /\ sink' = [sink EXCEPT ![g].live = FALSE]
    /\ UNCHANGED <<get, reader, shrunk, link, answers, faults>>

(* The relay's sweep: five minutes without a chunk, so no reader is at work.   *)
ReapSink(g) ==
    /\ sink[g].live /\ reader[g].at \in {"none", "over"}
    /\ sink' = [sink EXCEPT ![g].live = FALSE]
    /\ UNCHANGED <<get, reader, shrunk, link, answers, faults>>

----------------------------------------------------------------------------
(* The agent's reading task, and the routing of its posts.                     *)

Offset(g) == IF AgentIgnoresRange THEN 0 ELSE From(get[g].range)
ToRead(g) ==
    LET rest == IF Offset(g) < FileLen THEN FileLen - Offset(g) ELSE 0
        r    == get[g].range
    IN  IF AgentIgnoresRange \/ r = Whole \/ r.to - r.from + 1 > rest
        THEN rest ELSE r.to - r.from + 1
IsLast(g) == reader[g].idx + 1 >= ToRead(g)

(* fs:read: the task is spawned and its cancel flag listed.                    *)
AgentTakesRead(g) ==
    /\ Takes("read", g)
    /\ reader' = [reader EXCEPT ![g].at = "reading", ![g].listed = TRUE]
    /\ UNCHANGED <<get, sink, shrunk, butBulk, answers, faults>>

(* fs:read_cancel: a task that is not listed any more is left alone.           *)
AgentTakesCancel(g) ==
    /\ Takes("cancel", g)
    /\ reader' = [reader EXCEPT ![g].listed = FALSE,
                                ![g].cancelled = IF reader[g].listed THEN TRUE ELSE @]
    /\ UNCHANGED <<get, sink, shrunk, butBulk, answers, faults>>

Ended(r) == [r EXCEPT !.at = "over", !.listed = FALSE, !.evs = <<>>, !.last = FALSE, !.stop = FALSE]

Posts(g, evs, last, stop) ==
    reader' = [reader EXCEPT ![g].at = "posting", ![g].evs = evs, ![g].last = last, ![g].stop = stop]

(* One pass of the loop: the cancel flag, the read, the post.  A file that was *)
(* cut yields nothing more and ends the task, an unreadable one yields an      *)
(* error.  The relay will make events of the post: the chunk, and the end if   *)
(* it is the last by number.                                                   *)
ReaderPosts(g) ==
    /\ reader[g].at = "reading"
    /\ LET data  == IF shrunk \/ ToRead(g) = 0 THEN <<>> ELSE <<Offset(g) + reader[g].idx>>
           chunk == [kind |-> "chunk", data |-> data]
           end   == [kind |-> "end", data |-> <<>>]
           error == [kind |-> "error", data |-> <<>>]
       IN  \/ reader[g].cancelled /\ reader' = [reader EXCEPT ![g] = Ended(@)]
           \/ /\ ~reader[g].cancelled
              /\ \/ IsLast(g) /\ Posts(g, <<chunk, end>>, TRUE, TRUE)
                 \/ ~IsLast(g) /\ data # <<>> /\ Posts(g, <<chunk>>, FALSE, FALSE)
                 \/ ~IsLast(g) /\ data = <<>> /\ Posts(g, <<chunk>>, FALSE, TRUE)
                 \/ Posts(g, <<error>>, TRUE, TRUE)
    /\ UNCHANGED <<get, sink, shrunk, link, answers, faults>>

(* The post was answered: the next chunk, or the end of the task.              *)
Acked(r) == IF r.stop THEN Ended(r) ELSE [r EXCEPT !.at = "reading", !.idx = @ + 1, !.evs = <<>>]

(* route_agent_message clones the sink's sender under the lock and sends       *)
(* outside it; a chunk nobody waits for is acknowledged all the same.          *)
RouteFinds(g) ==
    /\ reader[g].at = "posting"
    /\ reader' = [reader EXCEPT ![g] = IF sink[g].live THEN [@ EXCEPT !.at = "sending"] ELSE Acked(@)]
    /\ UNCHANGED <<get, sink, shrunk, link, answers, faults>>

RouteSends(g) ==
    /\ reader[g].at = "sending" /\ reader[g].evs # <<>>
    /\ sink[g].open /\ Len(sink[g].q) < SinkCap
    /\ sink' = [sink EXCEPT ![g].q = Append(@, Head(reader[g].evs))]
    /\ reader' = [reader EXCEPT ![g].evs = Tail(@)]
    /\ UNCHANGED <<get, shrunk, link, answers, faults>>

(* All events are in; after the last one the sink leaves the map.              *)
RouteDone(g) ==
    /\ reader[g].at = "sending" /\ reader[g].evs = <<>>
    /\ sink' = IF reader[g].last THEN [sink EXCEPT ![g].live = FALSE] ELSE sink
    /\ reader' = [reader EXCEPT ![g] = Acked(@)]
    /\ UNCHANGED <<get, shrunk, link, answers, faults>>

(* Five seconds without room, or nobody receives: the sink leaves the map, and *)
(* the agent is told on its present channel.                                   *)
RouteStalls(g) ==
    /\ reader[g].at = "sending" /\ reader[g].evs # <<>>
    /\ ~sink[g].open \/ Len(sink[g].q) = SinkCap
    /\ sink' = [sink EXCEPT ![g].live = FALSE]
    /\ reader' = [reader EXCEPT ![g].at = "stalled"]
    /\ UNCHANGED <<get, shrunk, link, answers, faults>>

RouteCancels(g) ==
    /\ reader[g].at = "stalled"
    /\ Room(gen) /\ Tell(gen, "cancel", g, 0)
    /\ reader' = [reader EXCEPT ![g] = Acked(@)]
    /\ UNCHANGED <<get, sink, shrunk, butBulk, answers, faults>>

(* Mutant: a chunk whose post failed is sent again.                            *)
PostFails_SentAgain(g) ==
    /\ faults < MaxFaults
    /\ reader[g].at \in {"posting", "sending", "stalled"}
    /\ faults' = faults + 1
    /\ reader' = [reader EXCEPT ![g].at = "reading", ![g].evs = <<>>]
    /\ UNCHANGED <<get, sink, shrunk, link, answers>>

(* The post fails for the agent, before the relay saw it or at any point of    *)
(* its routing, which ends with it.  The chunk is not sent again: the task     *)
(* ends without a frame of its own.                                            *)
PostFails(g) ==
    /\ faults < MaxFaults
    /\ reader[g].at \in {"posting", "sending", "stalled"}
    /\ faults' = faults + 1
    /\ reader' = [reader EXCEPT ![g] = Ended(@)]
    /\ UNCHANGED <<get, sink, shrunk, link, answers>>

FileShrinks ==
    /\ ~shrunk /\ \E g \in Gets : reader[g].at = "reading"
    /\ shrunk' = TRUE
    /\ UNCHANGED <<get, sink, reader, link, answers, faults>>

(* The end of the agent's connection takes the list of cancel flags with it;   *)
(* the tasks go on.                                                            *)
ReadersUnlisted == reader' = [g \in Gets |-> [reader[g] EXCEPT !.listed = FALSE]]

DownloadNext ==
    \/ \E g \in Gets :
          \/ GetAsks(g) \/ GetFirst(g) \/ GetNext(g) \/ GetTellsAgent(g) \/ GetClientLeaves(g)
          \/ ReapSink(g)
          \/ AgentTakesRead(g) \/ AgentTakesCancel(g) \/ ReaderPosts(g)
          \/ RouteFinds(g) \/ RouteSends(g) \/ RouteDone(g) \/ RouteStalls(g) \/ RouteCancels(g)
          \/ PostFails(g)
    \/ FileShrinks
====
