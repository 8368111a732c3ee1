---------------------------- MODULE DesktopVideo ----------------------------
(***************************************************************************)
(* The desktop picture of one session, from the capture loop of the agent  *)
(* to the browsers that watch it: the start, stop and restart commands of  *)
(* DesktopManager, the pipeline that posts an init segment, key frames and *)
(* deltas, the uplink task that drops what is too old and sends the rest   *)
(* by WebSocket or by HTTP, the relay's DesktopStream with its cached init *)
(* and its viewers, and the viewers' own requests.                         *)
(*                                                                         *)
(* An encoder is a number: an init segment and the frames that need it     *)
(* carry the same one.  A frame says nothing else but whether it is a key. *)
(***************************************************************************)
EXTENDS Naturals, Sequences, FiniteSets, SequencesExt

CONSTANTS Viewers,      \* browsers that want to see the desktop
          MaxPending,   \* MAX_PENDING_FRAMES of the uplink
          ChanCap,      \* capacity of a viewer's channel
          MaxDrops,     \* MAX_CONSECUTIVE_DROPS
          Scenes        \* what may happen: records [kinds, backlog, left]

FaultKinds == {"start", "stop", "restart", "rebuild", "slow", "ws", "capture",
               "throttle", "revoke", "reconnect", "late"}

ASSUME DesktopAssumption ==
  /\ IsFiniteSet(Viewers)
  /\ {MaxPending, ChanCap, MaxDrops} \subseteq Nat \ {0}
  /\ Scenes \subseteq [kinds : SUBSET FaultKinds, backlog : Nat \ {0}, left : Nat]

None == 0
Loops == {1, 2}         \* a pipeline, and the one that outlived its stop
Socket == {"ws", "http"}          \* the transports of an uplink task
Paths == Socket \cup {"old"}      \* ... and the task of the session before
Streams == 1 .. Cardinality(Viewers) + 1

VARIABLES
  scene,    \* the scene, with what is left of its events
  running,  \* DesktopManager.running, which every pipeline of it reads
  cmd,      \* what the main loop executes: a stop, alone, before a start or at
            \* the end of its session
  link,     \* the agent's registered connection: up, lost, cleaned up by the relay
  want,     \* desktop_want_running
  task,     \* DesktopManager.task: the pipeline a stop waits for
  loops,    \* [pc, enc, inited] of each pipeline; inited: mp4_cfg is set
  encs,     \* encoders made so far
  queue,    \* post_tx/post_rx, unbounded
  paths,    \* what is on its way by each transport
  stream,   \* desktop_streams[sid]
  caches,   \* init of each stream
  known,    \* desktop_states[sid]
  posted,   \* per transport, the init that is cached and not broadcast yet
  view,     \* the viewers: request, entry in the fan-out, channel, decoder
  lost,     \* history: an init was dropped on its way to somebody
  broken    \* history: the encoders of which the uplink lost a frame and has sent
            \* no key since

agentVars == <<running, cmd, link, want, task, loops, encs>>
relayVars == <<stream, caches, known, posted>>
past == <<lost, broken>>
vars == <<scene, agentVars, queue, paths, relayVars, view, past>>

\* History of a delta: a frame since its key was lost by the uplink (cut), or by
\* the relay on its way to this viewer (torn).
Message == [type : {"started", "stopped", "init", "key", "delta"}, enc : Nat, cut : BOOLEAN]
Frame == [type : {"init", "key", "delta"}, enc : Nat, cut : BOOLEAN, torn : BOOLEAN]
Away == [pc |-> "away", ds |-> None, in |-> FALSE, key_ok |-> FALSE, drops |-> 0,
         chan |-> <<>>, sees |-> None, missed |-> TRUE]

Init ==
  /\ scene \in Scenes
  /\ running = FALSE /\ cmd = "idle" /\ link = "up" /\ want = FALSE /\ task = None /\ encs = 0
  /\ loops = [l \in Loops |-> [pc |-> "none", enc |-> None, inited |-> FALSE]]
  /\ queue = <<>> /\ paths = [p \in Paths |-> <<>>]
  /\ stream = None /\ caches = [s \in Streams |-> None] /\ known = FALSE
  /\ posted = [p \in Paths |-> [ds |-> None, enc |-> None]]
  /\ view = [v \in Viewers |-> Away]
  /\ lost = FALSE /\ broken = {}

Happens(kind) ==
  /\ kind \in scene.kinds /\ scene.left > 0
  /\ scene' = [scene EXCEPT !.left = @ - 1]
Msg(type, enc) == [type |-> type, enc |-> enc, cut |-> FALSE]
Video == {"init", "key", "delta"}
Control == {"started", "stopped"}
Post(ms) == queue' = queue \o ms

-----------------------------------------------------------------------------
(* The uplink task: what a round sends of the queue.                       *)
\* The messages of some types, in their order
Sifted(s, types) ==
  LET upto[i \in 0 .. Len(s)] ==
        IF i = 0 THEN <<>>
        ELSE IF s[i].type \in types THEN Append(upto[i - 1], s[i]) ELSE upto[i - 1]
  IN upto[Len(s)]

Newest(s, n) == IF Len(s) <= n THEN s ELSE SubSeq(s, Len(s) - n + 1, Len(s))

\* What of the backlog the drain takes out, and what it leaves.
Overdue(s) == SubSeq(s, 1, Len(s) - Len(Newest(s, MaxPending)))
Batch_DropsControl(n) == SubSeq(queue, 1, n)
Batch(n) == SubSeq(queue, 1, n)
            \o Sifted(Overdue(SubSeq(queue, n + 1, Len(queue))), Control)

\* Control messages first, then the newest MaxPending frames.
Outgoing(n) == Sifted(Batch(n), Control)
               \o Newest(Sifted(Batch(n), Video), MaxPending)

Inits(s) == {i \in DOMAIN s : s[i].type = "init"}
InitDropped(n, out) ==
  Cardinality(Inits(queue))
    > Cardinality(Inits(out))
      + Cardinality(Inits(Newest(SubSeq(queue, n + 1, Len(queue)), MaxPending)))

\* What a round loses: the oldest frames of its batch, then those the drain takes.
Pictures == {"key", "delta"}
Encoders(s) == {s[i].enc : i \in {j \in DOMAIN s : s[j].type \in Pictures}}
Missing(n) == broken \cup Encoders(Overdue(Sifted(Batch(n), Video)))
Drained(n) == Encoders(Overdue(SubSeq(queue, n + 1, Len(queue))))
\* Encoders of which a frame may still go out after the round
AtWork(n) == {loops[l].enc : l \in Loops} \cup Encoders(SubSeq(queue, n + 1, Len(queue)))

\* A key ends what was missing of its encoder.
KeyWithin(s, n, e) == \E i \in DOMAIN s : i < n /\ s[i].type = "key" /\ s[i].enc = e
Unkeyed(s, gone) == {e \in gone : ~KeyWithin(s, Len(s) + 1, e)}
CutAt(s, i, gone) ==
  s[i].type = "delta" /\ s[i].enc \in gone /\ ~KeyWithin(s, i, s[i].enc)
WithCuts(s, gone) ==
  [i \in DOMAIN s |-> IF CutAt(s, i, gone) THEN [s[i] EXCEPT !.cut = TRUE] ELSE s[i]]
Idle == \A p \in Socket : paths[p] = <<>>

-----------------------------------------------------------------------------
(* The commands: the main loop runs one to its end.                        *)
FreeLoop == CHOOSE l \in Loops : loops[l].pc = "none"

Start ==
  IF running THEN UNCHANGED <<running, task, loops>>
  ELSE /\ \E l \in Loops : loops[l].pc = "none"
       /\ running' = TRUE
       /\ task' = FreeLoop
       /\ loops' = [loops EXCEPT ![FreeLoop].pc = "opening"]

StartCmd ==
  /\ cmd = "idle" /\ Happens("start")
  /\ Start
  /\ UNCHANGED <<cmd, link, want, encs, queue, paths, relayVars, view, past>>

StopCmd ==
  /\ cmd = "idle" /\ Happens("stop")
  /\ running' = FALSE /\ cmd' = "stopping"
  /\ UNCHANGED <<link, want, task, loops, encs, queue, paths, relayVars, view, past>>

\* desktop:codec, desktop:quality, desktop:gray, desktop:select-display
RestartCmd ==
  /\ cmd = "idle" /\ running /\ Happens("restart")
  /\ running' = FALSE /\ cmd' = "restarting"
  /\ UNCHANGED <<link, want, task, loops, encs, queue, paths, relayVars, view, past>>

Stopping == cmd \in {"stopping", "restarting", "leaving"}
Ended(l) == l # None => loops[l].pc = "none"

\* stop() posts stopped; a restart goes on with start().
Stopped ==
  /\ Post(<<Msg("stopped", None)>>)
  /\ cmd' = IF cmd = "leaving" THEN "left" ELSE "idle"
  /\ IF cmd = "restarting" THEN Start
     ELSE task' = None /\ UNCHANGED <<running, loops>>
  /\ UNCHANGED <<link, want, encs, paths, relayVars, view, past>>

\* stop() has waited for the pipeline ...
StopDone == Stopping /\ Ended(task) /\ Stopped /\ UNCHANGED scene

\* ... or its two seconds are over and the pipeline is still at work.
StopTimeout == Stopping /\ ~Ended(task) /\ Happens("slow") /\ Stopped

\* The end of run_session: the desktop is stopped and remembered ...
SessionEnds ==
  /\ cmd = "idle" /\ link = "up" /\ Happens("reconnect")
  /\ link' = "lost" /\ want' = running /\ running' = FALSE
  /\ cmd' = IF running THEN "leaving" ELSE "left"
  /\ UNCHANGED <<task, loops, encs, queue, paths, relayVars, view, past>>

\* ... and restored by the next.  What the old uplink task has not sent yet it
\* goes on sending: before the new session, or late.
Reconnect ==
  /\ cmd = "left"
  /\ "late" \notin scene.kinds => (queue = <<>> /\ Idle)
  /\ paths' = [p \in Paths |-> IF p = "old" THEN paths["old"] \o paths["ws"]
                  \o paths["http"] \o WithCuts(Outgoing(Len(queue)), Missing(Len(queue)))
                  ELSE <<>>]
  /\ broken' = Unkeyed(Outgoing(Len(queue)), Missing(Len(queue)))
  /\ queue' = <<>> /\ cmd' = "idle" /\ link' = "up"
  /\ IF want THEN Start ELSE UNCHANGED <<running, task, loops>>
  /\ UNCHANGED <<scene, want, encs, relayVars, view, lost>>

-----------------------------------------------------------------------------
(* The pipeline.                                                           *)
Room == Len(queue) < scene.backlog      \* the bound of the unbounded channel

Open(l) ==
  /\ loops[l].pc = "opening" /\ Room
  /\ encs' = encs + 1
  /\ loops' = [loops EXCEPT ![l] = [pc |-> "capturing", enc |-> encs', inited |-> FALSE]]
  /\ Post(<<Msg("started", encs')>>)
  /\ UNCHANGED <<scene, running, cmd, link, want, task, paths, relayVars, view, past>>

\* No display, no encoder: started with an error, and running stays TRUE.
OpenFails(l) ==
  /\ loops[l].pc = "opening" /\ Room /\ Happens("capture")
  /\ loops' = [loops EXCEPT ![l].pc = "none"]
  /\ Post(<<Msg("started", None)>>)
  /\ UNCHANGED <<running, cmd, link, want, task, encs, paths, relayVars, view, past>>

Capturing(l) == loops[l].pc = "capturing" /\ running /\ Room

\* The first key of an encoder is preceded by its init segment.
KeyFrame(l) ==
  /\ Capturing(l)
  /\ Post((IF loops[l].inited THEN <<>> ELSE <<Msg("init", loops[l].enc)>>)
           \o <<Msg("key", loops[l].enc)>>)
  /\ loops' = [loops EXCEPT ![l].inited = TRUE]
  /\ UNCHANGED <<scene, running, cmd, link, want, task, encs, paths, relayVars, view, past>>

Delta(l) ==
  /\ Capturing(l) /\ loops[l].inited
  /\ Post(<<Msg("delta", loops[l].enc)>>)
  /\ UNCHANGED <<scene, agentVars, paths, relayVars, view, past>>

\* Another resolution or a lower codec: a new encoder, mp4_cfg = None.
Rebuild_KeepConfig(l) ==
  /\ Capturing(l) /\ loops[l].inited /\ Happens("rebuild")
  /\ encs' = encs + 1
  /\ loops' = [loops EXCEPT ![l].enc = encs']
  /\ UNCHANGED <<running, cmd, link, want, task, queue, paths, relayVars, view, past>>
Rebuild(l) ==
  /\ Capturing(l) /\ loops[l].inited /\ Happens("rebuild")
  /\ encs' = encs + 1
  /\ loops' = [loops EXCEPT ![l].enc = encs', ![l].inited = FALSE]
  /\ UNCHANGED <<running, cmd, link, want, task, queue, paths, relayVars, view, past>>

\* The loop sees running = FALSE.
Exit(l) ==
  /\ loops[l].pc = "capturing" /\ ~running
  /\ loops' = [loops EXCEPT ![l].pc = "none"]
  /\ Post(<<Msg("stopped", None)>>)
  /\ UNCHANGED <<scene, running, cmd, link, want, task, encs, paths, relayVars, view, past>>

\* The capture fails for good: the loop ends by itself.
CaptureFails(l) ==
  /\ Capturing(l) /\ Happens("capture")
  /\ loops' = [loops EXCEPT ![l].pc = "none"]
  /\ Post(<<Msg("stopped", None)>>)
  /\ UNCHANGED <<running, cmd, link, want, task, encs, paths, relayVars, view, past>>

-----------------------------------------------------------------------------
(* The uplink task: its rounds.                                            *)
\* One round: a batch, the drain, the order of sending.  out is what goes out,
\* gone are the encoders of what does not, here or on the way.
TakeBatch(n, out, gone) ==
  /\ queue' = Newest(SubSeq(queue, n + 1, Len(queue)), MaxPending)
  /\ lost' = (lost \/ InitDropped(n, out))
  /\ broken' = (gone \cup Drained(n)) \cap AtWork(n)
  /\ UNCHANGED <<agentVars, relayVars, view>>

Send ==
  /\ Idle /\ UNCHANGED scene
  /\ \E n \in 1 .. Len(queue) :
       LET out == Outgoing(n)
           missing == Missing(n)
       IN /\ TakeBatch(n, out, Unkeyed(out, missing))
          /\ paths' = [paths EXCEPT !["ws"] = WithCuts(out, missing)]

\* The socket breaks within the batch: the whole batch goes by HTTP, which may
\* fail as well; then all but its first k messages are lost.
SendBreaks ==
  /\ Idle /\ queue # <<>> /\ Happens("ws")
  /\ \E n \in 1 .. Len(queue) : \E k \in 0 .. Len(Outgoing(n)), arrives \in BOOLEAN :
       LET out == Outgoing(n)
           sent == WithCuts(out, Missing(n))
           there == IF arrives THEN out ELSE SubSeq(out, 1, k)
           rest == IF arrives THEN <<>> ELSE SubSeq(out, k + 1, Len(out))
       IN /\ TakeBatch(n, out, Unkeyed(there, Missing(n)) \cup Encoders(rest))
          /\ paths' = [paths EXCEPT !["ws"] = SubSeq(sent, 1, k),
                                    !["http"] = IF arrives THEN sent ELSE <<>>]

-----------------------------------------------------------------------------
(* The relay: desktop_streams, desktop_states and the fan-out.             *)
FreshStream == CHOOSE s \in Streams : s # stream /\ \A v \in Viewers : view[v].ds # s
\* entry(sid).or_insert_with(DesktopStream::with_limiter)
Current == IF stream = None THEN FreshStream ELSE stream
EmptyIfNew == IF stream = None THEN [caches EXCEPT ![Current] = None] ELSE caches

Audience(s) == {v \in Viewers : view[v].in /\ view[v].ds = s}
Full(v) == Len(view[v].chan) >= ChanCap

\* One more frame that could not be queued: at MaxDrops the viewer is out.
Dropped_KeepsKey(v) ==
  [view[v] EXCEPT !.missed = TRUE, !.drops = @ + 1, !.in = view[v].drops + 1 < MaxDrops]
Dropped(v) ==
  [view[v] EXCEPT !.key_ok = FALSE, !.missed = TRUE, !.drops = @ + 1,
                  !.in = view[v].drops + 1 < MaxDrops]
Skipped(v) == [view[v] EXCEPT !.missed = TRUE]

Pushed(v, m, starved) ==
  IF ~view[v].key_ok /\ m.type = "delta"
  THEN IF Full(v) THEN Dropped(v) ELSE Skipped(v)
  ELSE IF v \in starved THEN [Skipped(v) EXCEPT !.key_ok = FALSE]
  ELSE IF Full(v) THEN Dropped(v)
  ELSE [view[v] EXCEPT
          !.chan = Append(@, [type |-> m.type, enc |-> m.enc, cut |-> m.cut,
                              torn |-> m.type = "delta" /\ view[v].missed]),
          !.key_ok = TRUE, !.drops = 0, !.missed = m.type = "delta" /\ @]

\* push_frag; starved are the viewers the downstream limiter has no tokens for.
PushFrag(s, m, starved) ==
  view' = [v \in Viewers |-> IF v \in Audience(s) THEN Pushed(v, m, starved) ELSE view[v]]

Routing(p) == paths[p] # <<>> /\ posted[p].ds = None
Routed(p) == paths' = [paths EXCEPT ![p] = Tail(@)]

RouteStarted(p) ==
  /\ Routing(p) /\ Head(paths[p]).type = "started" /\ Routed(p)
  /\ stream' = Current /\ caches' = EmptyIfNew /\ known' = TRUE
  /\ UNCHANGED <<scene, agentVars, queue, posted, view, past>>

RouteStopped(p) ==
  /\ Routing(p) /\ Head(paths[p]).type = "stopped" /\ Routed(p)
  /\ stream' = None /\ known' = FALSE
  /\ UNCHANGED <<scene, agentVars, queue, caches, posted, view, past>>

\* set_init: the cache, and the broadcast below under another lock.
RouteInit_FirstOnly(p) ==
  /\ Routing(p) /\ Head(paths[p]).type = "init" /\ Routed(p)
  /\ stream' = Current
  /\ caches' = IF EmptyIfNew[Current] # None THEN EmptyIfNew
               ELSE [EmptyIfNew EXCEPT ![Current] = Head(paths[p]).enc]
  /\ posted' = [posted EXCEPT ![p] = [ds |-> Current, enc |-> Head(paths[p]).enc]]
  /\ UNCHANGED <<scene, agentVars, queue, known, view, past>>
RouteInit(p) ==
  /\ Routing(p) /\ Head(paths[p]).type = "init" /\ Routed(p)
  /\ stream' = Current
  /\ caches' = [EmptyIfNew EXCEPT ![Current] = Head(paths[p]).enc]
  /\ posted' = [posted EXCEPT ![p] = [ds |-> Current, enc |-> Head(paths[p]).enc]]
  /\ UNCHANGED <<scene, agentVars, queue, known, view, past>>

Whole(type, enc) == [type |-> type, enc |-> enc, cut |-> FALSE, torn |-> FALSE]

\* broadcast_to_viewers: a full channel loses the init; key_ok stays.
BroadcastInit(p) ==
  /\ posted[p].ds # None
  /\ view' = [v \in Viewers |->
       IF v \notin Audience(posted[p].ds) THEN view[v]
       ELSE IF Full(v) THEN [view[v] EXCEPT !.drops = @ + 1,
                                            !.in = view[v].drops + 1 < MaxDrops]
       ELSE [view[v] EXCEPT !.drops = 0,
               !.chan = Append(@, Whole("init", posted[p].enc))]]
  /\ lost' = (lost \/ \E v \in Audience(posted[p].ds) : Full(v))
  /\ posted' = [posted EXCEPT ![p] = [ds |-> None, enc |-> None]]
  /\ UNCHANGED <<scene, agentVars, queue, paths, stream, caches, known, broken>>

RouteFrame(p) ==
  /\ Routing(p) /\ Head(paths[p]).type \in {"key", "delta"} /\ Routed(p)
  /\ stream' = Current /\ caches' = EmptyIfNew
  /\ PushFrag(Current, Head(paths[p]), {})
  /\ UNCHANGED <<scene, agentVars, queue, known, posted, past>>

\* No tokens upstream: the frame is dropped and every viewer waits for a key.
\* No tokens downstream: the viewers it is out for do.
RouteThrottled(p) ==
  /\ Routing(p) /\ Head(paths[p]).type \in {"key", "delta"} /\ Routed(p)
  /\ Happens("throttle")
  /\ stream' = Current /\ caches' = EmptyIfNew
  /\ \/ view' = [v \in Viewers |->
                   IF v \in Audience(Current) THEN [Skipped(v) EXCEPT !.key_ok = FALSE]
                   ELSE view[v]]
     \/ \E starved \in SUBSET Audience(Current) \ {{}} :
          PushFrag(Current, Head(paths[p]), starved)
  /\ UNCHANGED <<agentVars, queue, known, posted, past>>

\* end_desktop_streams, after a credential of the session changed.
Revoke ==
  /\ stream # None /\ Happens("revoke")
  /\ stream' = None /\ known' = FALSE
  /\ UNCHANGED <<agentVars, queue, paths, caches, posted, view, past>>

\* AgentEventsCleanup, if no newer connection took the session over.
CleanUp ==
  /\ link = "lost"
  /\ link' = "cleaned" /\ stream' = None /\ known' = FALSE
  /\ UNCHANGED <<scene, running, cmd, want, task, loops, encs, queue, paths, caches,
                 posted, view, past>>

-----------------------------------------------------------------------------
(* A viewer: GET /agent/desktop/stream or /agent/desktop/ws, and the page's *)
(* retries.                                                                *)
SetView(v, r) ==
  /\ view' = [view EXCEPT ![v] = r]
  /\ UNCHANGED <<scene, agentVars, queue, paths, relayVars, past>>

\* add_viewer: the entry first, then (another lock) the cached init.
Join(v) ==
  /\ view[v].pc = "away" /\ stream # None
  /\ SetView(v, [Away EXCEPT !.pc = "joined", !.ds = stream, !.in = TRUE])

ReadInit(v) ==
  /\ view[v].pc = "joined"
  /\ SetView(v, [view[v] EXCEPT !.sees = caches[view[v].ds],
       !.pc = IF caches[view[v].ds] = None THEN "waiting" ELSE "watching"])

\* wait_first_init
InitArrives(v) ==
  /\ view[v].pc = "waiting" /\ caches[view[v].ds] # None
  /\ SetView(v, [view[v] EXCEPT !.pc = "watching", !.sees = caches[view[v].ds]])

InitTimeout(v) ==
  /\ view[v].pc = "waiting" /\ caches[view[v].ds] = None
  /\ SetView(v, Away)

Next1(v) == Head(view[v].chan)
Matches(v) == Next1(v).enc = view[v].sees
Decodes(v) == Next1(v).type = "init" \/ (Matches(v) /\ ~Next1(v).torn /\ ~Next1(v).cut)

\* A frame or an init leaves the channel.  A frame the decoder cannot use makes
\* the page start the stream again, unless it decodes to corrupted blocks: the
\* page counts the frames it did not get (seqn) and asks for nothing.
Show(v) ==
  /\ view[v].pc = "watching" /\ view[v].chan # <<>> /\ Decodes(v)
  /\ SetView(v, [view[v] EXCEPT !.chan = Tail(@),
                   !.sees = IF Next1(v).type = "init" THEN Next1(v).enc ELSE @])
Garbles(v) ==
  /\ view[v].pc = "watching" /\ view[v].chan # <<>> /\ Matches(v) /\ ~Decodes(v)
  /\ SetView(v, [view[v] EXCEPT !.chan = Tail(@)])
BadFrame(v) ==
  /\ view[v].pc = "watching" /\ view[v].chan # <<>> /\ ~Decodes(v)
  /\ SetView(v, Away)

\* next_frame_or_idle: the fan-out dropped the viewer, or twelve seconds went
\* by without a frame, which a pipeline at work never lets happen.
StreamEnds(v) ==
  /\ view[v].pc = "watching" /\ view[v].chan = <<>>
  /\ ~view[v].in \/ view[v].ds # stream \/ \A l \in Loops : loops[l].pc # "capturing"
  /\ SetView(v, Away)

-----------------------------------------------------------------------------
Commands == StartCmd \/ StopCmd \/ RestartCmd \/ SessionEnds
Command == StopDone \/ Reconnect
Pipeline(l) == Open(l) \/ Exit(l)
Mishap(l) == OpenFails(l) \/ Rebuild(l) \/ CaptureFails(l)
Route(p) == \/ RouteStarted(p) \/ RouteStopped(p) \/ RouteInit(p)
            \/ BroadcastInit(p) \/ RouteFrame(p)
Viewer(v) == \/ Join(v) \/ ReadInit(v) \/ InitArrives(v) \/ InitTimeout(v)
             \/ Show(v) \/ Garbles(v) \/ BadFrame(v) \/ StreamEnds(v)

Next ==
  \/ Commands \/ Command \/ StopTimeout
  \/ \E l \in Loops : Pipeline(l) \/ KeyFrame(l) \/ Delta(l) \/ Mishap(l)
  \/ Send \/ SendBreaks
  \/ \E p \in Paths : Route(p) \/ RouteThrottled(p)
  \/ Revoke \/ CleanUp
  \/ \E v \in Viewers : Viewer(v)

Spec == Init /\ [][Next]_vars

\* The steps of the program; not the commands, not what goes wrong.  A key
\* frame is forced by the clock, so deltas cannot keep it away for ever.
Fairness ==
  /\ WF_vars(Command)
  /\ \A l \in Loops : WF_vars(Pipeline(l)) /\ SF_vars(KeyFrame(l))
  /\ WF_vars(Send)
  /\ \A p \in Paths : WF_vars(Route(p))
  /\ \A v \in Viewers : WF_vars(Viewer(v))

FairSpec == Spec /\ Fairness

-----------------------------------------------------------------------------
(* Properties.                                                             *)

\* What reaches the relay it does not tear: a delta is never queued for a viewer
\* that was not sent every frame of it since its last key.  A full channel, the
\* limiters, joining in the middle all close the gate until the next key frame
\* (desktop.rs, push_frag and invalidate_keys).  What the agent's uplink lost
\* before is another matter: UplinkTearsNothing.
ChainUnbroken ==
  \A v \in Viewers : \A i \in DOMAIN view[v].chan : ~view[v].chan[i].torn

\* Whatever the interleaving of a joining viewer, a new encoder and the two
\* steps of set_init, no viewer is sent frames of an encoder newer than the
\* last init it was sent before them, unless the drain or a full channel
\* dropped an init, a stop gave up waiting (two pipelines then share the
\* stream) or old messages came late, by a batch sent twice or by the uplink
\* of an earlier session (desktop.rs, add_viewer, set_init).
InitNotStale ==
  (~lost /\ scene.kinds \cap {"slow", "ws", "late"} = {}) => \A v \in Viewers : view[v].pc = "watching" =>
    \A i \in DOMAIN view[v].chan : view[v].chan[i].type # "init" =>
      \/ view[v].chan[i].enc <= view[v].sees
      \/ \E j \in 1 .. i - 1 : /\ view[v].chan[j].type = "init"
                              /\ view[v].chan[j].enc = view[v].chan[i].enc

\* When all that was posted has been routed and no pipeline is opening or has
\* yet to see that it was stopped, the snapshot a browser gets on
\* (re)connecting says running exactly if a pipeline is capturing, backlog or
\* not: the drain drops frames, never started or stopped.
SnapshotIsTrue ==
  (/\ scene.kinds \cap {"ws", "capture", "revoke", "late"} = {}
   /\ Idle /\ queue = <<>>
   /\ \A l \in Loops : loops[l].pc = "none" \/ (running /\ loops[l].pc = "capturing"))
    => known = (\E l \in Loops : loops[l].pc = "capturing")

\* Without a backlog, a desktop that goes on capturing is seen by every viewer
\* that wants it, again and again, whatever restarts, new encoders, throttled
\* frames and slow reading there were.
Captures == running /\ \E l \in Loops : loops[l].pc = "capturing"
Seen(v) == Show(v) /\ Next1(v).type # "init"
Calm == /\ scene.kinds \subseteq {"start", "stop", "restart", "rebuild", "throttle",
                             "reconnect"}
        /\ scene.backlog < MaxPending
PictureComesBack ==
  \A v \in Viewers : (Calm /\ <>[]Captures) => []<><<Seen(v)>>_vars

\* What desktop.rs says of a frame that is lost (push_frag, invalidate_keys: later
\* deltas are held back until the next key frame), for the frames the agent's
\* uplink loses: no viewer is sent a delta that rests on one of them.
UplinkTearsNothing ==
  \A v \in Viewers : \A i \in DOMAIN view[v].chan : ~view[v].chan[i].cut

\* What ws.rs promises of end_desktop_streams: the viewers come back with
\* their new credential and see the stream that the next frame creates.
PictureReturns ==
  \A v \in Viewers : <>[]Captures => []<><<Seen(v)>>_vars
=============================================================================
