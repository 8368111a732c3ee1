------------------------------ MODULE TcpTunnel ------------------------------
(***************************************************************************)
(* Byte pipes from the relay to targets the agent can reach.  The relay     *)
(* opens a tunnel over the agent's downlink (a bounded channel), the agent  *)
(* dials the target, and bytes go both ways under a window of unconfirmed   *)
(* bytes in each direction.  Both sides limit how many there are; each end  *)
(* of a tunnel has to learn, by a message or by the loss of the session,    *)
(* that the other is done with it.                                          *)
(*                                                                          *)
(* One session.  Its agent may lose the downlink and come back; a relay's   *)
(* identifier of a tunnel is random and never used twice.  What is read and *)
(* written is abstracted to its length.  RelayPlane has the downlinks       *)
(* themselves.                                                              *)
(***************************************************************************)
EXTENDS Naturals, FiniteSets, SequencesExt

CONSTANTS Conns,        \* identifiers of tunnels
          RelayMax,     \* MAX_TUNNELS_PER_SESSION
          AgentMax,     \* MAX_CONNS
          Window,       \* WINDOW_BYTES, the same on both sides
          Chunks,       \* how many bytes one read or write brings, at most
          RelayQueue,   \* the relay's WRITE_QUEUE, and the one its writer holds
          AgentQueue,   \* the agent's WRITE_QUEUE
          MaxQueuedMsgs,\* MAX_QUEUED_MSGS
          BulkCap,      \* BULK_CHANNEL_CAPACITY
          UplinkCap,    \* UPLINK_QUEUE
          BatchMsgs,    \* UPLINK_BATCH_MSGS
          Scenes,       \* bounds that go together: the tunnels there are, data
                        \* messages of each in each direction, sessions of the agent
                        \* one after the other, POSTs that fail, detached messages
                        \* that time out
          None

ASSUME TunnelAssumption ==
    /\ {RelayMax, AgentMax, Window, RelayQueue, AgentQueue, MaxQueuedMsgs,
        BulkCap, UplinkCap, BatchMsgs} \subseteq Nat \ {0}
    /\ Chunks \subseteq 1 .. Window
    /\ \A s \in Scenes :
          /\ s.conns \subseteq Conns
          /\ {s.msgs, s.sessions, s.failures, s.lost} \subseteq Nat

\* An answer is never mistaken for none.
ASSUME NoneAssumption == None \notin {"opened", "error", "closed", "failed"}

VARIABLES
    tunnel,   \* relay, Conns -> the TunnelStream and its Entry
    counted,  \* relay, by_session[sid]
    owed,     \* relay: removals that have not been taken off the count yet
    sweep,    \* relay, who is at or before close_session, and the keys it has
              \* left, or None
    channel,  \* relay, agent_bulk: the session it belongs to, 0 if there is none
    streams,  \* relay: sessions whose downlink has not been dropped
    bulk,     \* the downlink's channel and what is on the wire
    late,     \* messages of send_nonblocking that wait for room in it
    lost,     \* history: those that have waited too long
    conn,     \* agent, Conns -> its record, if any, and the task behind it
    closed,   \* agent, the tombstones
    uplink,   \* agent, the queue of the uplink task
    post,     \* the batch it is posting, what the relay has not routed of it
    posting,
    agent,    \* the last session; up: it still runs; linked: its downlink is
              \* intact; untold, history: tunnels a removal closed under it
    failures, \* POSTs that have failed
    blamed,   \* history: what the relay has found the agent to break the protocol by
    scene     \* the bounds of this behaviour

relayVars == <<tunnel, counted, owed, sweep, channel, streams>>
agentVars == <<conn, closed, uplink>>
downlink == <<bulk, late>>
batch == <<post, posting>>
history == <<lost, failures, blamed, scene>>
vars == <<relayVars, downlink, agentVars, batch, agent, history>>

-----------------------------------------------------------------------------
(* Messages and records                                                    *)

Msg(t, c, s, n) == [type |-> t, conn |-> c, seq |-> s, bytes |-> n]
Ctrl(t, c) == Msg(t, c, 0, 0)

NoTunnel == [pc |-> "new", session |-> 0, listed |-> FALSE, answer |-> None,
             over |-> None, finished |-> FALSE, readEof |-> FALSE,
             writeClosed |-> FALSE, unacked |-> 0, out |-> <<>>, writeSeq |-> 0,
             in |-> <<>>, readSeq |-> 0, pending |-> 0]

GoneTunnel == [NoTunnel EXCEPT !.pc = "gone"]

\* Shared::terminal
Terminal(c) == tunnel[c].over # None

NoConn == [pc |-> "none", in |-> <<>>, inSeq |-> 0, writing |-> 0,
           readDone |-> FALSE, writeDone |-> FALSE, unacked |-> 0, outSeq |-> 0]

\* Inner::conns; a permit is held by each
Records == {c \in Conns : conn[c].pc \in {"connecting", "running", "closing", "failing", "reported"}}

\* The record is removed and its task aborted; outSeq is history.
Dropped(c, how) ==
    [NoConn EXCEPT !.pc = how, !.outSeq = conn[c].outSeq]

Listed == {c \in Conns : tunnel[c].listed}

Least(m, n) == IF m < n THEN m ELSE n
Minus(m, n) == IF m < n THEN 0 ELSE m - n

\* Mutant: what is read or written may be more than what is left of the window.
Fits_WholeChunk(size, unacked) == size

\* How much of a chunk goes into the window
Fits(size, unacked) == Least(size, Window - unacked)

\* Mutant: messages are counted, not bytes.
Confirmed_Messages(unacked, m) == Minus(unacked, 1)

\* tcp:ack, on either side
Confirmed(unacked, m) == Minus(unacked, m.bytes)

-----------------------------------------------------------------------------
(* The downlink.  A message for a session whose downlink is lost goes       *)
(* nowhere; that its channel first fills up is left out.                    *)

Reaches(c) ==
    agent.up /\ agent.linked /\ agent.session = tunnel[c].session

BulkRoom == Len(bulk) < BulkCap

\* deliver_bulk: waits for room
Deliver(c, m) ==
    IF Reaches(c) THEN BulkRoom /\ bulk' = Append(bulk, m) ELSE UNCHANGED bulk

\* send_nonblocking: leaves the waiting to a task of its own
SendNonblocking(c, m) ==
    IF Reaches(c) /\ ~BulkRoom
    THEN late' = Append(late, m) /\ UNCHANGED bulk
    ELSE Deliver(c, m) /\ UNCHANGED late

LateSend ==
    \E i \in 1 .. Len(late) :
        /\ BulkRoom
        /\ bulk' = Append(bulk, late[i])
        /\ late' = RemoveAt(late, i)
        /\ UNCHANGED <<relayVars, agentVars, batch, agent, history>>

\* DOWNLINK_TIMEOUT
LateTimesOut ==
    \E i \in 1 .. Len(late) :
        /\ ~BulkRoom /\ Len(lost) < scene.lost
        /\ lost' = Append(lost, late[i])
        /\ late' = RemoveAt(late, i)
        /\ UNCHANGED <<relayVars, bulk, agentVars, batch, agent, failures, blamed, scene>>

-----------------------------------------------------------------------------
(* The relay's table                                                       *)

\* fail_entry of a record already taken out of conns
Failed(c) == [tunnel[c] EXCEPT !.listed = FALSE, !.over = "failed", !.out = <<>>,
                               !.in = <<>>, !.pending = 0]

\* TunnelStore::remove is two critical sections, and this is the second.
Uncount ==
    /\ owed > 0
    /\ owed' = owed - 1
    /\ counted' = Minus(counted, 1)
    /\ UNCHANGED <<tunnel, sweep, channel, streams, downlink, agentVars, batch, agent, history>>

\* The first, for the tunnel of which t is what is left.
TakeOut(c, t) ==
    /\ tunnel' = [tunnel EXCEPT ![c] = t]
    /\ owed' = IF tunnel[c].listed THEN owed + 1 ELSE owed
    /\ UNCHANGED <<counted, sweep, channel, streams>>

\* close_session: collects the keys, ...
SweepBy(who) == [by |-> who, begun |-> TRUE, left |-> Listed]

\* ... removes one after the other, ...
SweepRemoves(c) ==
    /\ sweep # None
    /\ c \in sweep.left
    /\ sweep' = [sweep EXCEPT !.left = @ \ {c}]
    /\ tunnel' = [tunnel EXCEPT ![c] = IF tunnel[c].listed THEN Failed(c) ELSE @]
    /\ agent' = [agent EXCEPT !.untold = IF tunnel[c].listed /\ channel # 0 THEN @ \cup {c} ELSE @]
    /\ UNCHANGED <<counted, owed, channel, streams, downlink, agentVars, batch, history>>

\* ... and forgets the count.
SweepEnds ==
    /\ sweep # None
    /\ sweep.begun /\ sweep.left = {}
    /\ sweep' = None
    /\ counted' = 0
    /\ UNCHANGED <<tunnel, owed, channel, streams, downlink, agentVars, batch, agent, history>>

\* AgentEventsCleanup holds the lock of agent_broadcast while it sweeps; a
\* removal has let go of it before.
Locked == sweep # None /\ sweep.by = "cleanup"

-----------------------------------------------------------------------------
(* Opening a tunnel                                                        *)

relayElse == <<agentVars, batch, agent, history>>

SetTunnel(c, t) ==
    /\ tunnel' = [tunnel EXCEPT ![c] = t]
    /\ UNCHANGED <<counted, owed, sweep, channel, streams>>

\* bulk_of
OpenLooks(c) ==
    /\ tunnel[c].pc = "new" /\ c \in scene.conns
    /\ channel # 0 /\ ~Locked
    /\ SetTunnel(c, [NoTunnel EXCEPT !.pc = "counting", !.session = channel])
    /\ UNCHANGED <<downlink, relayElse>>

OpenCounts(c) ==
    /\ tunnel[c].pc = "counting"
    /\ IF counted >= RelayMax
       THEN tunnel' = [tunnel EXCEPT ![c] = GoneTunnel] /\ UNCHANGED counted
       ELSE /\ tunnel' = [tunnel EXCEPT ![c].pc = "inserting"]
            /\ counted' = counted + 1
    /\ UNCHANGED <<owed, sweep, channel, streams, downlink, relayElse>>

OpenInserts(c) ==
    /\ tunnel[c].pc = "inserting"
    /\ SetTunnel(c, [tunnel[c] EXCEPT !.pc = "opening", !.listed = TRUE])
    /\ UNCHANGED <<downlink, relayElse>>

OpenSends(c) ==
    /\ tunnel[c].pc = "opening"
    /\ Deliver(c, Ctrl("open", c))
    /\ SetTunnel(c, [tunnel[c] EXCEPT !.pc = "waiting"])
    /\ UNCHANGED <<late, relayElse>>

OpenSendTimesOut(c) ==
    /\ tunnel[c].pc = "opening"
    /\ ~BulkRoom
    /\ TakeOut(c, GoneTunnel)
    /\ UNCHANGED <<downlink, relayElse>>

OpenSucceeds(c) ==
    /\ tunnel[c].pc = "waiting"
    /\ tunnel[c].answer = "opened"
    /\ SetTunnel(c, [tunnel[c] EXCEPT !.pc = "open"])
    /\ UNCHANGED <<downlink, relayElse>>

OpenTimesOut(c) ==
    /\ tunnel[c].pc = "waiting"
    /\ tunnel[c].answer = None /\ tunnel[c].listed
    /\ SendNonblocking(c, Ctrl("close", c))
    /\ TakeOut(c, GoneTunnel)
    /\ UNCHANGED relayElse

\* Drop for TunnelStream
Drop(c) ==
    /\ IF Terminal(c) \/ tunnel[c].finished
       THEN UNCHANGED <<bulk, late>>
       ELSE SendNonblocking(c, Ctrl("close", c))
    /\ TakeOut(c, GoneTunnel)
    /\ UNCHANGED relayElse

\* The agent has refused, or the record is gone and the oneshot with it.
OpenFails(c) ==
    /\ tunnel[c].pc = "waiting"
    /\ tunnel[c].answer = "error" \/ (tunnel[c].answer = None /\ ~tunnel[c].listed)
    /\ Drop(c)

\* The caller lets go of the stream, or of the call that opens it.
UserDrops(c) == tunnel[c].pc \in {"opening", "waiting", "open"} /\ Drop(c)

-----------------------------------------------------------------------------
(* Reading and writing                                                     *)

\* poll_write
UserWrites(c) ==
    /\ tunnel[c].pc = "open" /\ tunnel[c].writeSeq < scene.msgs
    /\ ~Terminal(c) /\ ~tunnel[c].writeClosed
    /\ tunnel[c].unacked < Window
    /\ Len(tunnel[c].out) < RelayQueue
    /\ \E size \in Chunks :
           LET n == Fits(size, tunnel[c].unacked)
           IN SetTunnel(c, [tunnel[c] EXCEPT
                  !.out = Append(@, Msg("data", c, tunnel[c].writeSeq, n)),
                  !.writeSeq = @ + 1, !.unacked = @ + n])
    /\ UNCHANGED <<downlink, relayElse>>

\* poll_shutdown; if the queue is full the message waits for it in a task
UserShutsDown(c) ==
    /\ tunnel[c].pc = "open"
    /\ ~Terminal(c) /\ ~tunnel[c].writeClosed
    /\ SetTunnel(c, [tunnel[c] EXCEPT !.writeClosed = TRUE,
                                      !.out = Append(@, Ctrl("eof", c))])
    /\ UNCHANGED <<downlink, relayElse>>

\* writer_loop
WriterSends(c) ==
    /\ tunnel[c].out # <<>>
    /\ Deliver(c, Head(tunnel[c].out))
    /\ SetTunnel(c, [tunnel[c] EXCEPT !.out = Tail(@)])
    /\ UNCHANGED <<late, relayElse>>

\* poll_read finds an error
UserReadsError(c) ==
    /\ tunnel[c].pc = "open" /\ tunnel[c].over = "failed" /\ ~tunnel[c].finished
    /\ SetTunnel(c, [tunnel[c] EXCEPT !.finished = TRUE])
    /\ UNCHANGED <<downlink, relayElse>>

\* Mutant: the end of what the target sends ends the tunnel.
AtEof_Finished(t) == [t EXCEPT !.readEof = TRUE, !.finished = TRUE]

\* tcp:eof is not the end of the tunnel.
AtEof(t) == [t EXCEPT !.readEof = TRUE]

\* poll_read takes the next event off the queue
UserReads(c) ==
    /\ tunnel[c].pc = "open" /\ tunnel[c].over # "failed"
    /\ ~tunnel[c].readEof /\ tunnel[c].pending = 0
    /\ tunnel[c].in # <<>>
    /\ LET m == Head(tunnel[c].in)
           t == [tunnel[c] EXCEPT !.in = Tail(@)]
       IN SetTunnel(c, CASE m.type = "data"   -> [t EXCEPT !.pending = m.bytes]
                         [] m.type = "eof"    -> AtEof(t)
                         [] m.type = "closed" -> [AtEof(t) EXCEPT !.finished = TRUE])
    /\ UNCHANGED <<downlink, relayElse>>

\* poll_read has handed out the last byte of a message
UserConsumes(c) ==
    /\ tunnel[c].pc = "open" /\ tunnel[c].over # "failed"
    /\ tunnel[c].pending > 0
    /\ SendNonblocking(c, Msg("ack", c, 0, tunnel[c].pending))
    /\ SetTunnel(c, [tunnel[c] EXCEPT !.pending = 0])
    /\ UNCHANGED relayElse

-----------------------------------------------------------------------------
(* Routing what the agent sends                                            *)

Sum(numbers) ==
    LET sum[i \in 0 .. Len(numbers)] == IF i = 0 THEN 0 ELSE sum[i - 1] + numbers[i]
    IN sum[Len(numbers)]

\* The bytes of the messages of one type in a queue
Bytes(queue, t, c) ==
    Sum([i \in 1 .. Len(queue) |->
            IF queue[i].type = t /\ queue[i].conn = c THEN queue[i].bytes ELSE 0])

Count(queue, t) ==
    Sum([i \in 1 .. Len(queue) |-> IF queue[i].type = t THEN 1 ELSE 0])

Charges(t, m) ==
    {charge \in {"seq", "bytes", "messages"} :
        CASE charge = "seq"      -> m.seq # t.readSeq
          [] charge = "bytes"    -> Bytes(t.in, "data", m.conn) + m.bytes > Window
          [] charge = "messages" -> Count(t.in, "data") >= MaxQueuedMsgs}

Violates(t, m) == Charges(t, m) # {}

\* Mutant: the end overtakes what has not been read.
Queued_EndFirst(t, m) ==
    [t EXCEPT !.in = IF m.type = "data" THEN Append(@, m) ELSE <<m>> \o @]

Queued(t, m) == [t EXCEPT !.in = Append(@, m)]

\* What a message of the agent changes in the tunnel it is for
Routed(t, m) ==
    CASE m.type = "opened" -> [t EXCEPT !.answer = IF @ = None THEN "opened" ELSE @]
      [] m.type = "data"   -> [Queued(t, m) EXCEPT !.readSeq = @ + 1]
      [] m.type = "ack"    -> [t EXCEPT !.unacked = Confirmed(@, m)]
      [] m.type = "eof"    -> Queued(t, m)
      [] m.type = "closed" -> [Queued(t, m) EXCEPT !.over = IF @ = None THEN "closed" ELSE @]
      [] m.type = "error"  -> [t EXCEPT !.over = "failed", !.in = <<>>, !.pending = 0,
                                        !.answer = IF @ = None THEN "error" ELSE @]

\* route_agent_message
Route ==
    /\ post # <<>>
    /\ post' = Tail(post)
    /\ LET m == Head(post)
           c == m.conn
       IN \/ /\ ~tunnel[c].listed
             /\ UNCHANGED <<relayVars, downlink, blamed>>
          \/ /\ tunnel[c].listed
             /\ ~(m.type = "data" /\ Violates(tunnel[c], m))
             /\ SetTunnel(c, Routed(tunnel[c], m))
             /\ UNCHANGED <<downlink, blamed>>
          \/ /\ tunnel[c].listed
             /\ m.type = "data" /\ Violates(tunnel[c], m)
             /\ TakeOut(c, Failed(c))
             /\ SendNonblocking(c, Ctrl("close", c))
             /\ blamed' = blamed \cup Charges(tunnel[c], m)
    /\ UNCHANGED <<agentVars, posting, agent, lost, failures, scene>>

-----------------------------------------------------------------------------
(* The agent: what its main loop does with a message                       *)

SetConn(c, r) == conn' = [conn EXCEPT ![c] = r]

agentElse == <<relayVars, late, batch, agent, history>>

\* Out::encode and send_detached; the queue may be full, then a task waits
Emit(m) == uplink' = IF m.conn \in closed THEN uplink ELSE Append(uplink, m)

\* Emitted by a connection's own tasks, which wait for room
UplinkRoom == Len(uplink) < UplinkCap

\* The write half, or the task before it, still has the receiver.
Receiving(c) == conn[c].pc \in {"connecting", "running"} /\ ~conn[c].writeDone

QueueRoom(c) == Len(conn[c].in) < AgentQueue

\* fail: only if the record was still there is there something to say
Fail(c) ==
    /\ SetConn(c, Dropped(c, "gone"))
    /\ Emit(Ctrl("error", c))

HandleOpen(c) ==
    /\ IF Cardinality(Records) < AgentMax
       THEN /\ SetConn(c, [NoConn EXCEPT !.pc = "connecting"])
            /\ closed' = closed \ {c}
            /\ UNCHANGED uplink
       ELSE Emit(Ctrl("error", c)) /\ UNCHANGED <<conn, closed>>

HandleData(c, m) ==
    /\ UNCHANGED closed
    /\ \/ /\ c \notin Records \/ ~Receiving(c)
          /\ UNCHANGED <<conn, uplink>>
       \/ /\ c \in Records /\ Receiving(c) /\ QueueRoom(c)
          /\ SetConn(c, [conn[c] EXCEPT !.in = Append(@, m)])
          /\ UNCHANGED uplink
       \/ /\ c \in Records /\ Receiving(c) /\ ~QueueRoom(c)
          /\ Fail(c)

HandleAck(c, m) ==
    /\ SetConn(c, IF c \in Records THEN [conn[c] EXCEPT !.unacked = Confirmed(@, m)]
                                   ELSE conn[c])
    /\ UNCHANGED <<closed, uplink>>

\* If the queue does not take it the connection is dropped without a word.
HandleEof(c, m) ==
    /\ SetConn(c, CASE c \notin Records -> conn[c]
                    [] c \in Records /\ Receiving(c) /\ QueueRoom(c)
                       -> [conn[c] EXCEPT !.in = Append(@, m)]
                    [] OTHER -> Dropped(c, "gone"))
    /\ UNCHANGED <<closed, uplink>>

HandleClose(c) ==
    /\ SetConn(c, IF c \in Records THEN Dropped(c, "closed") ELSE conn[c])
    /\ closed' = closed \cup {c}
    /\ UNCHANGED uplink

AgentReceives ==
    /\ agent.up /\ agent.linked
    /\ bulk # <<>>
    /\ bulk' = Tail(bulk)
    /\ LET m == Head(bulk)
           c == m.conn
       IN \/ m.type = "open" /\ HandleOpen(c)
          \/ m.type = "data" /\ HandleData(c, m)
          \/ m.type = "ack" /\ HandleAck(c, m)
          \/ m.type = "eof" /\ HandleEof(c, m)
          \/ m.type = "close" /\ HandleClose(c)
    /\ UNCHANGED agentElse

-----------------------------------------------------------------------------
(* The agent: the task of a connection and the two halves                  *)

connElse == <<agentElse, bulk, closed>>

Sends(c, m, r) == UplinkRoom /\ Emit(m) /\ SetConn(c, r) /\ UNCHANGED connElse
Silent(c, r) == SetConn(c, r) /\ UNCHANGED <<connElse, uplink>>

Connects(c) ==
    /\ conn[c].pc = "connecting"
    /\ Sends(c, Ctrl("opened", c), [conn[c] EXCEPT !.pc = "running"])

ConnectFails(c) ==
    /\ conn[c].pc = "connecting"
    /\ Silent(c, [conn[c] EXCEPT !.pc = "failing"])

CanRead(c) == conn[c].pc = "running" /\ ~conn[c].readDone /\ conn[c].unacked < Window

\* read_half gets bytes from the target, ...
TargetSends(c) ==
    /\ CanRead(c) /\ conn[c].outSeq < scene.msgs
    /\ \E size \in Chunks :
           LET n == Fits(size, conn[c].unacked)
           IN Sends(c, Msg("data", c, conn[c].outSeq, n),
                    [conn[c] EXCEPT !.outSeq = @ + 1, !.unacked = @ + n])

\* ... or its end
TargetEnds(c) ==
    /\ CanRead(c)
    /\ Sends(c, Ctrl("eof", c), [conn[c] EXCEPT !.readDone = TRUE])

\* write_half takes the next command
WriteTakes(c) ==
    /\ conn[c].pc = "running" /\ ~conn[c].writeDone /\ conn[c].writing = 0
    /\ conn[c].in # <<>>
    /\ LET m == Head(conn[c].in)
           r == [conn[c] EXCEPT !.in = Tail(@)]
       IN Silent(c, CASE m.type = "eof" -> [r EXCEPT !.writeDone = TRUE, !.in = <<>>]
                      [] m.type = "data" /\ m.seq = r.inSeq
                             -> [r EXCEPT !.writing = m.bytes, !.inSeq = @ + 1]
                      [] OTHER -> [r EXCEPT !.pc = "failing"])

\* the target has taken what write_half has written
TargetTakes(c) ==
    /\ conn[c].pc = "running" /\ conn[c].writing > 0
    /\ Sends(c, Msg("ack", c, 0, conn[c].writing), [conn[c] EXCEPT !.writing = 0])

\* Either half meets an error and cancels the other.
HalfFails(c) ==
    /\ conn[c].pc = "running"
    /\ CanRead(c) \/ conn[c].writing > 0 \/ conn[c].in # <<>>
    /\ Silent(c, [conn[c] EXCEPT !.pc = "failing"])

BothDone(c) ==
    /\ conn[c].pc = "running" /\ conn[c].readDone /\ conn[c].writeDone
    /\ Silent(c, [conn[c] EXCEPT !.pc = "closing"])

\* run_conn sends the last message first ...
TaskReports(c) ==
    /\ conn[c].pc \in {"closing", "failing"}
    /\ Sends(c, Ctrl(IF conn[c].pc = "closing" THEN "closed" ELSE "error", c),
             [conn[c] EXCEPT !.pc = "reported"])

\* ... and removes the record then.
TaskEnds(c) ==
    /\ conn[c].pc = "reported"
    /\ Silent(c, Dropped(c, "gone"))

-----------------------------------------------------------------------------
(* The agent: the uplink task                                              *)

\* The messages of a queue that are at certain places, in their order
Taken(queue, places) ==
    LET upto[i \in 0 .. Len(queue)] ==
            IF i = 0 THEN <<>>
            ELSE IF i \in places THEN Append(upto[i - 1], queue[i]) ELSE upto[i - 1]
    IN upto[Len(queue)]

\* drop_closed_conns
Open(queue) == Taken(queue, {i \in 1 .. Len(queue) : queue[i].conn \notin closed})

\* drain_batch
UplinkTakes ==
    /\ agent.up /\ ~posting
    /\ uplink # <<>>
    /\ LET n == Least(Len(uplink), BatchMsgs)
       IN /\ post' = Open(SubSeq(uplink, 1, n))
          /\ uplink' = SubSeq(uplink, n + 1, Len(uplink))
    /\ posting' = (post' # <<>>)
    /\ UNCHANGED <<relayVars, downlink, conn, closed, agent, history>>

PostSucceeds ==
    /\ posting /\ post = <<>>
    /\ posting' = FALSE
    /\ UNCHANGED <<relayVars, downlink, agentVars, post, agent, history>>

\* abort_in_flight: the relay may have routed any part of the batch.  Only a
\* connection that still has its record gets a tombstone; what is queued of one
\* whose task has ended is posted after the gap, its end included.
Aborted == [c \in Conns |-> IF c \in Records THEN Dropped(c, "gone") ELSE conn[c]]
Tombstones == closed \cup Records

PostFails ==
    /\ posting /\ failures < scene.failures
    /\ failures' = failures + 1
    /\ post' = <<>> /\ posting' = FALSE
    /\ conn' = Aborted
    /\ closed' = Tombstones
    /\ UNCHANGED <<relayVars, downlink, uplink, agent, lost, blamed, scene>>

-----------------------------------------------------------------------------
(* Sessions                                                                *)

LoseDownlink ==
    /\ agent.up /\ agent.linked
    /\ agent' = [agent EXCEPT !.linked = FALSE]
    /\ bulk' = <<>> /\ late' = <<>>
    /\ UNCHANGED <<relayVars, agentVars, batch, history>>

\* The downlink is lost, or the heartbeat fails since the session is; run_session
\* returns, TcpTunnel::shutdown
SessionEnds ==
    /\ agent.up
    /\ ~agent.linked \/ channel # agent.session
    /\ agent' = [agent EXCEPT !.up = FALSE, !.linked = FALSE]
    /\ conn' = [c \in Conns |-> IF c \in Records THEN Dropped(c, "down") ELSE conn[c]]
    /\ closed' = {} /\ uplink' = <<>> /\ post' = <<>> /\ posting' = FALSE
    /\ bulk' = <<>> /\ late' = <<>>
    /\ UNCHANGED <<relayVars, history>>

\* agent_events_handler installs the channels of a new downlink.
SessionBegins ==
    /\ ~agent.up /\ agent.session < scene.sessions /\ ~Locked
    /\ agent' = [agent EXCEPT !.session = @ + 1, !.up = TRUE, !.linked = TRUE]
    /\ channel' = agent'.session
    /\ streams' = streams \cup {agent'.session}
    /\ UNCHANGED <<tunnel, counted, owed, sweep, downlink, agentVars, batch, history>>

\* The relay notices that a downlink is gone, AgentEventsCleanup: the channel
\* is cleared, and the tunnels closed, if it is still that one's.  Two sweeps
\* come one after the other.
StreamDropped(s) ==
    /\ s \in streams
    /\ s # agent.session \/ ~agent.linked
    /\ streams' = streams \ {s}
    /\ IF channel = s
       THEN sweep = None /\ channel' = 0 /\ sweep' = SweepBy("cleanup")
       ELSE UNCHANGED <<channel, sweep>>
    /\ UNCHANGED <<tunnel, counted, owed, downlink, agentVars, batch, agent, history>>

\* A kick or the reaper removes the channels of the session, ...
SessionRemoved ==
    /\ channel # 0 /\ sweep = None
    /\ channel' = 0
    /\ sweep' = [by |-> "removal", begun |-> FALSE, left |-> {}]
    /\ UNCHANGED <<tunnel, counted, owed, streams, downlink, agentVars, batch, agent, history>>

\* ... and later, by remove_session_state, whatever tunnels there are then.
RemovalSweeps ==
    /\ sweep # None
    /\ ~sweep.begun
    /\ sweep' = SweepBy("removal")
    /\ UNCHANGED <<tunnel, counted, owed, channel, streams, downlink, agentVars, batch, agent, history>>

-----------------------------------------------------------------------------
Init ==
    /\ tunnel = [c \in Conns |-> NoTunnel]
    /\ counted = 0 /\ owed = 0 /\ sweep = None
    /\ channel = 1 /\ streams = {1}
    /\ bulk = <<>> /\ late = <<>>
    /\ conn = [c \in Conns |-> NoConn]
    /\ closed = {} /\ uplink = <<>>
    /\ post = <<>> /\ posting = FALSE
    /\ agent = [session |-> 1, up |-> TRUE, linked |-> TRUE, untold |-> {}]
    /\ lost = <<>> /\ failures = 0 /\ blamed = {} /\ scene \in Scenes

RelayStep(c) ==
    \/ OpenCounts(c) \/ OpenInserts(c) \/ OpenSends(c)
    \/ OpenSucceeds(c) \/ OpenFails(c) \/ OpenTimesOut(c)
    \/ WriterSends(c) \/ SweepRemoves(c)

User(c) ==
    \/ OpenLooks(c) \/ OpenSendTimesOut(c)
    \/ UserWrites(c) \/ UserShutsDown(c) \/ UserReads(c) \/ UserConsumes(c)
    \/ UserReadsError(c) \/ UserDrops(c)

AgentStep(c) ==
    \/ ConnectFails(c) \/ WriteTakes(c) \/ BothDone(c) \/ TaskReports(c) \/ TaskEnds(c)

Target(c) ==
    Connects(c) \/ TargetSends(c) \/ TargetEnds(c) \/ TargetTakes(c) \/ HalfFails(c)

\* What the tasks of both sides, their timeouts and the notice that a session
\* is lost do by themselves
Tasks ==
    \/ \E c \in Conns : RelayStep(c) \/ AgentStep(c)
    \/ LateSend \/ Uncount \/ RemovalSweeps \/ SweepEnds \/ Route
    \/ AgentReceives \/ UplinkTakes \/ PostSucceeds \/ SessionEnds

Next ==
    \/ Tasks
    \/ \E c \in Conns : User(c) \/ Target(c)
    \/ LateTimesOut \/ PostFails \/ LoseDownlink
    \/ SessionBegins \/ SessionRemoved \/ \E s \in streams : StreamDropped(s)

Spec == Init /\ [][Next]_vars

-----------------------------------------------------------------------------
(* Properties                                                              *)

\* Both ends are there and their messages reach each other.
Joined(c) ==
    /\ tunnel[c].listed /\ tunnel[c].over = None
    /\ conn[c].pc = "running" /\ c \notin closed
    /\ Reaches(c)

\* Every variable keeps to its type, and every table and queue to its bound.
TypeOK ==
    /\ \A c \in Conns :
        /\ tunnel[c].pc \in {"new", "counting", "inserting", "opening", "waiting", "open", "gone"}
        /\ tunnel[c].over \in {None, "closed", "failed"}
        /\ tunnel[c].answer \in {None, "opened", "error"}
        /\ tunnel[c].listed => tunnel[c].pc \in {"opening", "waiting", "open"}
        /\ tunnel[c].unacked <= Window
        /\ Len(tunnel[c].out) <= RelayQueue + 1
        /\ Count(tunnel[c].in, "data") <= MaxQueuedMsgs
        /\ Bytes(tunnel[c].in, "data", c) <= Window
        /\ conn[c].pc \in {"none", "connecting", "running", "closing", "failing",
                           "reported", "gone", "closed", "down"}
        /\ conn[c].unacked <= Window
        /\ Len(conn[c].in) <= AgentQueue
    /\ counted \in 0 .. RelayMax
    /\ Cardinality(Records) <= AgentMax
    /\ Len(bulk) <= BulkCap
    /\ channel \in 0 .. agent.session
    /\ blamed \subseteq {"seq", "bytes", "messages"}

\* The bytes a side counts as unconfirmed are those that are on their way to
\* the other or have not been confirmed yet, no more (or the tunnel would come
\* to a halt) and no fewer (or the other side would be flooded): poll_write,
\* the writer, the agent's write half and tcp:ack; read_half, the route,
\* poll_read and tcp:ack.  A tcp:ack that could not be delivered in time is
\* never made up for.
WindowsBalanced ==
    \A c \in Conns : Joined(c) =>
        /\ tunnel[c].unacked =
              Bytes(tunnel[c].out, "data", c) + Bytes(bulk, "data", c)
              + Bytes(conn[c].in, "data", c) + conn[c].writing
              + Bytes(uplink, "ack", c) + Bytes(post, "ack", c)
        /\ conn[c].unacked =
              Bytes(uplink, "data", c) + Bytes(post, "data", c)
              + Bytes(tunnel[c].in, "data", c) + tunnel[c].pending
              + Bytes(bulk, "ack", c) + Bytes(late, "ack", c) + Bytes(lost, "ack", c)

\* As long as no POST has failed the relay never finds that the agent sends out
\* of order or beyond its window: within a tunnel nothing the agent sends is
\* lost, overtaken or beyond the bytes the relay has room for, though batches
\* are cut anywhere, tunnels end while their messages wait and tombstones filter
\* what is sent.  What an agent that keeps to the window can be blamed for is the
\* number of its messages, which MAX_QUEUED_MSGS limits and the window does not.
AgentNotBlamed == failures = 0 => blamed \subseteq {"messages"}

\* No slot is forgotten: while the agent holds the record of a tunnel that the
\* relay is done with, also one whose target had closed its side before, either
\* its task is about to end, or a tcp:close is on its way or could not be sent in
\* time, or the agent is about to lose its session and all records with it (Drop,
\* the open's time-out, route_agent_message, shutdown).  Only a kick that is
\* overtaken by the agent's return closes tunnels the agent is never told of.
SlotsReturned ==
    \A c \in Records : tunnel[c].pc = "gone" =>
        \/ conn[c].pc \in {"closing", "failing", "reported"}
        \/ Ctrl("close", c) \in ToSet(bulk) \cup ToSet(late) \cup ToSet(lost)
        \/ ~agent.linked \/ channel # agent.session \/ c \in agent.untold

\* A user who reads the end of a stream has been given all that the target
\* sent before (poll_read: a part of a response must not pass for a complete
\* one), as long as no POST has failed.
WholeStreams ==
    failures = 0 =>
        \A c \in Conns : tunnel[c].readEof =>
            tunnel[c].readSeq = conn[c].outSeq /\ Count(tunnel[c].in, "data") = 0
==============================================================================
