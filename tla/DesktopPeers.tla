---------------------------- MODULE DesktopPeers ----------------------------
(* How a browser gets the picture: from the agent over the LAN, peer to    *)
(* peer, or through the relay.  Each view tries them in that order (its     *)
(* timers, probes and fallbacks: web/desktop.js); the agent holds one peer  *)
(* session, which the newest offer takes from the one before, and tells     *)
(* every browser what it answers (agent/p2p.rs).                            *)
(* The picture itself, and the relay's share of it, are DesktopVideo's.     *)
EXTENDS Naturals, Sequences, FiniteSets

CONSTANTS Views,        \* browsers
          MaxOffers,    \* bound: offers that somebody still knows of
          Peerings      \* who watches and what may happen: records as below

PeerFaults == {"restart", "reconnect", "cut", "refuse", "webrtc", "skip", "socket",
               "error", "cooldown", "overlap"}

\* told: the views know an address of the agent; lan: those that reach it;
\* direct: those that UDP reaches; closes: pc.close() fires the close event of
\* the channel, which some browsers do.
ASSUME PeersAssumption ==
  /\ MaxOffers \in Nat \ {0}
  /\ Peerings \subseteq [watch : SUBSET Views, lan : SUBSET Views, told : BOOLEAN,
                         direct : SUBSET Views, closes : BOOLEAN,
                         kinds : SUBSET PeerFaults, left : Nat]

Offers == 1 .. MaxOffers
Nobody == 0

VARIABLES
  peering,   \* the scene, with what is left of its events
  offers,    \* desktop:p2p-offer on its way to the agent
  inbox,     \* per view: what the relay broadcast to it
  slot,      \* P2pState.inner: the session, by its offer
  driver,    \* run_driver of each session
  path,      \* per session: the connection of the two peers
  mirror,    \* video_tx, by its session
  open,      \* sessions whose queue is not closed: a drain task waits for it
  overrun,   \* history: a driver installed its queue after it had been aborted
  page       \* DesktopView of each browser; failed: its status line tells of an
             \* error after which it does not try again

agent == <<slot, driver, path, mirror, open, overrun>>
peerVars == <<peering, offers, inbox, agent, page>>

Blank == [connected |-> FALSE, transport |-> "relay", pc |-> "none", offer |-> Nobody,
          remote |-> Nobody, ghost |-> FALSE, fallback |-> FALSE, rejected |-> FALSE,
          ws |-> "none", fetch |-> "none", stray |-> "none", calibrating |-> 0,
          retries |-> 0, failed |-> FALSE, held |-> {}, loose |-> {}, tangled |-> FALSE]

Signal(type, n) == [type |-> type, n |-> n]

Sent(box, m) == [v \in Views |-> IF v \in peering.watch THEN Append(box[v], m) ELSE <<>>]
Broadcast(m) == inbox' = Sent(inbox, m)

PeerInit ==
  /\ peering \in Peerings
  /\ offers = <<>> /\ inbox = Sent([v \in Views |-> <<>>], Signal("started", Nobody))
  /\ slot = Nobody /\ mirror = Nobody /\ open = {} /\ overrun = FALSE
  /\ driver = [n \in Offers |-> "over"] /\ path = [n \in Offers |-> "none"]
  /\ page = [v \in Views |-> Blank]

Befalls(kind) ==
  /\ kind \in peering.kinds /\ peering.left > 0
  /\ peering' = [peering EXCEPT !.left = @ - 1]

-----------------------------------------------------------------------------
(* The view: what its methods do to it.                                    *)

\* A timer's handle is overwritten when the timer is set again, and nobody can
\* clear the older one.
Sets(r, t) == [r EXCEPT !.held = @ \cup {t}, !.loose = @ \cup (r.held \cap {t})]
Clears(r, t) == [r EXCEPT !.held = @ \ {t}]

\* pc.close(); the handler of the channel's close event stays.
ClosesPc(r) == [r EXCEPT !.pc = "none", !.offer = Nobody, !.remote = Nobody,
                         !.ghost = @ \/ (r.pc # "none" /\ peering.closes)]

\* The time-out of a socket that is closed before it opened goes on running.
DropsWs(r) ==
  [r EXCEPT !.ws = "none", !.loose = @ \cup IF r.ws = "opening" THEN {"session"} ELSE {}]

Disconnect_KeepsFallback(r) ==
  [Clears(Clears(DropsWs(ClosesPc(r)), "wait"), "offer") EXCEPT
     !.ghost = r.ghost,
     !.fetch = "none", !.connected = FALSE, !.transport = "relay"]
Disconnect(r) ==
  [Clears(Clears(DropsWs(ClosesPc(r)), "wait"), "offer") EXCEPT
     !.ghost = r.ghost,            \* here the handler is removed
     !.fetch = "none", !.connected = FALSE, !.transport = "relay", !.fallback = FALSE]
Connect(r) == [Disconnect(r) EXCEPT !.calibrating = @ + 1, !.failed = FALSE,
                                    !.tangled = @ \/ r.calibrating > 0]
Reconnects(r) == [Disconnect(r) EXCEPT !.retries = @ + 1]

StartWs(r) == IF r.ws = "none" THEN [r EXCEPT !.ws = "opening"] ELSE r

\* The controller of a fetch under way is overwritten.
Fetches(r, how) ==
  [r EXCEPT !.stray = IF r.fetch = "none" THEN @ ELSE r.fetch, !.fetch = how]
OnWsFailed(r) == Fetches([r EXCEPT !.ws = "none"], "asked")

Rejected(r) == [r EXCEPT !.rejected = TRUE]

StartP2p(r) == IF r.rejected THEN StartWs(r) ELSE Sets(r, "wait")
StartLan(r) ==
  IF r.rejected THEN StartWs(r)
  ELSE IF peering.told THEN Fetches(r, "probing") ELSE StartP2p(r)

OnP2pFailed_LeavesPc(r) ==
  LET s == Rejected(Clears(r, "offer")) IN
  IF r.transport = "p2p" \/ r.fallback THEN s
  ELSE StartWs([s EXCEPT !.fallback = TRUE, !.transport = "relay"])
OnP2pFailed(r) ==
  LET s == ClosesPc(Rejected(Clears(r, "offer"))) IN
  IF r.transport = "p2p" \/ r.fallback THEN s
  ELSE StartWs([s EXCEPT !.fallback = TRUE, !.transport = "relay"])

OnP2pLost(r) ==
  LET s == [Rejected(ClosesPc(Clears(r, "offer"))) EXCEPT !.transport = "relay"] IN
  IF r.pc = "none" /\ ~r.connected THEN r
  ELSE IF r.connected /\ r.transport = "p2p" THEN Reconnects(s)
  ELSE StartWs([s EXCEPT !.fallback = TRUE])

Becomes(v, r) == page' = [page EXCEPT ![v] = r]
\* The close event of a channel is the page's next.
Only(v, r) == ~page[v].ghost /\ Becomes(v, r) /\ UNCHANGED <<offers, inbox, agent>>
Does(v, r) == Only(v, r) /\ UNCHANGED peering

-----------------------------------------------------------------------------
(* The view: its events.                                                   *)
Told(v, type) == inbox[v] # <<>> /\ Head(inbox[v]).type = type
Heard(v, r) ==
  /\ ~page[v].ghost
  /\ inbox' = [inbox EXCEPT ![v] = Tail(@)]
  /\ Becomes(v, r)
  /\ UNCHANGED <<peering, offers, agent>>

\* desktop:started: connect(true), which forgets that it was rejected.
HearsStarted(v) ==
  /\ Told(v, "started") /\ page[v].calibrating < 2
  /\ Heard(v, Connect([page[v] EXCEPT !.rejected = FALSE]))

\* desktop:p2p-answer: fits a peer that waits for its answer, whoever asked.
HearsAnswer(v) ==
  /\ Told(v, "answer")
  /\ LET r == page[v] IN
     Heard(v, IF r.pc = "none" THEN r
              ELSE IF r.pc = "offered" /\ r.remote = Nobody
                   THEN [r EXCEPT !.remote = Head(inbox[v]).n]
              ELSE OnP2pFailed(r))

\* desktop:p2p-state: failed
HearsFailed(v) ==
  /\ Told(v, "failed")
  /\ LET r == page[v] IN
     Heard(v, IF r.connected /\ r.transport = "p2p" THEN OnP2pLost(r)
              ELSE IF r.transport # "p2p" /\ r.pc # "none" /\ ~r.connected
                   THEN OnP2pFailed(r)
              ELSE r)

\* The clock is calibrated; nothing that happened meanwhile stops this.
Calibrated(v) ==
  /\ page[v].calibrating > 0
  /\ Does(v, StartLan([page[v] EXCEPT !.calibrating = @ - 1]))

Bodies == {"fetch", "stray"}
Feeding(r, f, how) ==
  [r EXCEPT ![f] = "feeding", !.connected = TRUE, !.transport = how, !.failed = FALSE]

ProbeAnswers(v, f) ==
  /\ page[v][f] = "probing"
  /\ Does(v, IF v \in peering.lan THEN Feeding(page[v], f, "lan")
             ELSE StartP2p([page[v] EXCEPT ![f] = "none"]))
FetchAnswers(v, f) ==
  /\ page[v][f] = "asked"
  /\ Does(v, Feeding(page[v], f, "relay"))

\* The stream ends: another connect().
StreamOver(v, f) ==
  /\ page[v][f] = "feeding" /\ page[v].retries = 0 /\ Befalls("socket")
  /\ LET r == [page[v] EXCEPT ![f] = "none"] IN
     Only(v, IF r.connected THEN Reconnects(r) ELSE [r EXCEPT !.failed = TRUE])
\* 404, there is no stream yet: the same, a little later.
NoStreamYet(v, f) ==
  /\ page[v][f] = "asked" /\ page[v].retries = 0 /\ Befalls("socket")
  /\ Only(v, [page[v] EXCEPT ![f] = "none", !.retries = @ + 1])
\* Another status disconnects the view; a request without an answer and a read
\* that fails leave it as it is.  It does not try again.
Gone(r, f) == [r EXCEPT ![f] = "none", !.failed = TRUE]
Refused(v, f) ==
  /\ page[v][f] = "asked" /\ Befalls("error")
  /\ Only(v, Disconnect(Gone(page[v], f)))
BodyFails(v, f) ==
  /\ page[v][f] \in {"asked", "feeding"} /\ Befalls("error")
  /\ Only(v, Gone(page[v], f))
Retry(v) ==
  /\ page[v].retries > 0 /\ page[v].calibrating < 2
  /\ Does(v, Connect([page[v] EXCEPT !.retries = @ - 1]))

\* A timer goes off; one that was overwritten takes the handle of the other.
GoesOff(v, t) == t \in page[v].held \cup page[v].loose
Fired(r, t) ==
  [r EXCEPT !.held = @ \ {t}, !.tangled = @ \/ t \in r.loose,
            !.loose = IF t \in r.loose \cap r.held THEN @ ELSE @ \ {t}]

\* The three seconds in which the user can choose the relay are over.
WindowOver(v) ==
  /\ GoesOff(v, "wait")
  /\ LET r == Fired(page[v], "wait") IN
     Does(v, IF r.rejected \/ r.connected THEN StartWs(r)
             ELSE Sets([r EXCEPT !.pc = "new", !.offer = Nobody, !.remote = Nobody], "offer"))

Known(n) == \/ \E v \in Views : n \in {page[v].offer, page[v].remote}
                              \/ \E i \in DOMAIN inbox[v] : inbox[v][i].n = n
            \/ \E i \in DOMAIN offers : offers[i] = n
            \/ n \in open \cup {slot, mirror}
            \/ driver[n] # "over"
\* createOffer, setLocalDescription and the offer
SendsOffer(v) ==
  /\ page[v].pc = "new" /\ ~page[v].ghost
  /\ \E n \in {k \in Offers : ~Known(k) /\ \A j \in 1 .. k - 1 : Known(j)} :
       /\ Becomes(v, [page[v] EXCEPT !.pc = "offered", !.offer = n])
       /\ offers' = Append(offers, n)
       /\ path' = [path EXCEPT ![n] = "none"]
  /\ UNCHANGED <<peering, inbox, slot, driver, mirror, open, overrun>>
OfferFails(v) ==
  /\ page[v].pc = "new" /\ Befalls("webrtc")
  /\ Only(v, OnP2pFailed(page[v]))

\* Five seconds without a connection.
OfferTimesOut(v) ==
  /\ GoesOff(v, "offer")
  /\ Does(v, IF page[v].transport = "p2p" THEN Fired(page[v], "offer")
             ELSE OnP2pFailed(Fired(page[v], "offer")))

Runs(n) == driver[n] \in {"connecting", "found", "live"}
Fits(v) == page[v].pc = "offered" /\ page[v].remote = page[v].offer
CanMeet(v) == Fits(v) /\ v \in peering.direct /\ Runs(page[v].offer)
              /\ path[page[v].offer] # "cut"

\* onconnectionstatechange
PcConnected(v) ==
  /\ Fits(v) /\ path[page[v].offer] = "up" /\ page[v].transport # "p2p"
  /\ Does(v, Clears([page[v] EXCEPT !.transport = "p2p", !.connected = TRUE,
                                    !.failed = FALSE], "offer"))
PcFails(v) ==
  /\ page[v].pc = "offered" /\ page[v].remote # Nobody /\ ~CanMeet(v)
  /\ Does(v, OnP2pLost(page[v]))
\* onclose of a channel whose connection the view has closed itself: the page's
\* next event.
ChannelCloses(v) ==
  /\ page[v].ghost
  /\ Becomes(v, OnP2pLost([page[v] EXCEPT !.ghost = FALSE]))
  /\ UNCHANGED <<peering, offers, inbox, agent>>

WsOpens(v) ==
  /\ page[v].ws = "opening"
  /\ Does(v, [page[v] EXCEPT !.ws = "open", !.connected = TRUE, !.failed = FALSE])
\* It does not open: an error, or four seconds without an answer.
WsErrors(v) ==
  /\ page[v].ws = "opening" /\ Befalls("socket")
  /\ Only(v, OnWsFailed(DropsWs(page[v])))
WsTimesOut(v) ==
  /\ page[v].ws = "opening" /\ Befalls("socket")
  /\ Only(v, OnWsFailed(page[v]))
WsCloses(v) ==
  /\ page[v].ws = "open" /\ page[v].retries = 0 /\ Befalls("socket")
  /\ LET r == [page[v] EXCEPT !.ws = "none"] IN
     Only(v, IF r.connected THEN Reconnects(r) ELSE r)
\* The four seconds of a socket that is gone: the present one is closed.
LateSessionTimeout(v) ==
  /\ "session" \in page[v].loose /\ page[v].stray = "none"
  /\ Does(v, OnWsFailed(Fired(page[v], "session")))

\* The button of the connection dialogue; a calibration, a probe or a fetch on
\* its way goes on beside the socket.
SkipP2P(v) ==
  /\ ~page[v].connected /\ page[v] # Blank /\ Befalls("skip")
  /\ Only(v, [StartWs(ClosesPc(Clears(Clears(Rejected(page[v]), "wait"), "offer")))
              EXCEPT !.tangled = @ \/ page[v].calibrating > 0 \/ page[v].fetch # "none"])

\* P2P_REJECT_COOLDOWN_MS
CooldownOver(v) ==
  /\ page[v].rejected /\ Befalls("cooldown")
  /\ Only(v, [page[v] EXCEPT !.rejected = FALSE])

-----------------------------------------------------------------------------
(* The agent's session.                                                    *)

\* The driver is cancelled at its next await; the queue is closed here.
Aborted == IF slot = Nobody THEN driver
           ELSE [driver EXCEPT ![slot] = IF @ = "found" THEN "doomed" ELSE "over"]
CloseMirror_Forgets == mirror' = Nobody /\ UNCHANGED open
CloseMirror == mirror' = Nobody /\ open' = open \ {mirror}
Settled == slot # Nobody /\ driver[slot] = "found" => "overlap" \in peering.kinds

HandleOffer ==
  /\ offers # <<>> /\ Settled
  /\ offers' = Tail(offers)
  /\ slot' = Head(offers)
  /\ driver' = [Aborted EXCEPT ![Head(offers)] = "connecting"]
  /\ CloseMirror
  /\ Broadcast(Signal("answer", Head(offers)))
  /\ UNCHANGED <<peering, path, overrun, page>>
\* No socket, or the offer does not parse: the old session is gone already.
RefuseOffer ==
  /\ offers # <<>> /\ Settled /\ Befalls("refuse")
  /\ offers' = Tail(offers)
  /\ slot' = Nobody /\ driver' = Aborted
  /\ CloseMirror
  /\ Broadcast(Signal("failed", Nobody))
  /\ UNCHANGED <<path, overrun, page>>

\* ICE, DTLS and the channel are through; a driver between two awaits is faster.
Meet(n) ==
  /\ driver[n] = "connecting" /\ path[n] = "none"
  /\ \A k \in Offers : driver[k] \notin {"doomed", "closing"}
  /\ \E v \in Views : page[v].offer = n /\ CanMeet(v)
  /\ path' = [path EXCEPT ![n] = "up"]
  /\ UNCHANGED <<peering, offers, inbox, slot, driver, mirror, open, overrun, page>>
Cut(n) ==
  /\ path[n] = "up" /\ Befalls("cut")
  /\ path' = [path EXCEPT ![n] = "cut"]
  /\ UNCHANGED <<offers, inbox, slot, driver, mirror, open, overrun, page>>

DriverBecomes(n, s) == driver' = [driver EXCEPT ![n] = s]

\* The driver sees that it is connected, and a little later installs its queue.
DriverFinds(n) ==
  /\ driver[n] = "connecting" /\ path[n] = "up"
  /\ DriverBecomes(n, "found")
  /\ UNCHANGED <<peering, offers, inbox, slot, path, mirror, open, overrun, page>>
DriverInstalls(n) ==
  /\ driver[n] \in {"found", "doomed"}
  /\ mirror' = n /\ open' = open \cup {n}
  /\ overrun' = (overrun \/ driver[n] = "doomed")
  /\ DriverBecomes(n, IF driver[n] = "found" THEN "live" ELSE "over")
  /\ UNCHANGED <<peering, offers, inbox, slot, path, page>>

Deserted(n) == path[n] = "cut" \/ ~\E v \in Views : page[v].offer = n
\* The peer is gone, or does not come within the handshake time-out.
DriverFails(n) ==
  /\ \/ driver[n] = "connecting" /\ path[n] # "up"
     \/ driver[n] \in {"connecting", "live"} /\ Deserted(n)
  /\ Broadcast(Signal("failed", Nobody)) /\ DriverBecomes(n, "leaving")
  /\ UNCHANGED <<peering, offers, slot, path, mirror, open, overrun, page>>
\* Thirty seconds in which nothing could be written.
Watchdog(n) ==
  /\ driver[n] = "live" /\ (Deserted(n) \/ n \notin open)
  /\ Broadcast(Signal("failed", Nobody)) /\ DriverBecomes(n, "leaving") /\ CloseMirror
  /\ UNCHANGED <<peering, offers, slot, path, overrun, page>>
\* The slot is given back under its lock, the queue closed after it.
DriverLeaves(n) ==
  /\ driver[n] = "leaving"
  /\ DriverBecomes(n, IF slot = n THEN "closing" ELSE "over")
  /\ slot' = IF slot = n THEN Nobody ELSE slot
  /\ UNCHANGED <<peering, offers, inbox, path, mirror, open, overrun, page>>
DriverCloses(n) ==
  /\ driver[n] = "closing"
  /\ DriverBecomes(n, "over") /\ CloseMirror
  /\ UNCHANGED <<peering, offers, inbox, slot, path, overrun, page>>

\* A desktop restart is announced to all.
Restart ==
  /\ Befalls("restart") /\ Broadcast(Signal("started", Nobody))
  /\ UNCHANGED <<offers, agent, page>>
\* The end of run_session and the next: shutdown, and the desktop is restored.
SessionRestart ==
  /\ Settled /\ Befalls("reconnect") /\ Broadcast(Signal("started", Nobody))
  /\ slot' = Nobody /\ driver' = Aborted /\ offers' = <<>>
  /\ CloseMirror
  /\ UNCHANGED <<path, overrun, page>>

-----------------------------------------------------------------------------
ViewRuns(v) ==
  \/ HearsStarted(v) \/ HearsAnswer(v) \/ HearsFailed(v) \/ Calibrated(v) \/ Retry(v)
  \/ \E f \in Bodies : ProbeAnswers(v, f) \/ FetchAnswers(v, f)
  \/ WindowOver(v) \/ SendsOffer(v) \/ OfferTimesOut(v)
  \/ PcConnected(v) \/ PcFails(v) \/ ChannelCloses(v)
  \/ WsOpens(v) \/ LateSessionTimeout(v)
DriverRuns(n) ==
  \/ Meet(n) \/ DriverFinds(n) \/ DriverInstalls(n) \/ DriverFails(n) \/ Watchdog(n)
  \/ DriverLeaves(n) \/ DriverCloses(n)
PeerProgress ==
  /\ peering.watch # {}
  /\ \/ \E v \in Views : ViewRuns(v)
     \/ \E n \in Offers : DriverRuns(n)
     \/ HandleOffer
Misfortune ==
  \/ \E v \in Views : \/ \E f \in Bodies : \/ StreamOver(v, f) \/ NoStreamYet(v, f)
                                          \/ Refused(v, f) \/ BodyFails(v, f)
                      \/ OfferFails(v) \/ WsErrors(v) \/ WsTimesOut(v) \/ WsCloses(v)
                      \/ SkipP2P(v) \/ CooldownOver(v)
  \/ \E n \in Offers : Cut(n)
  \/ RefuseOffer \/ Restart \/ SessionRestart

PeerNext == PeerProgress \/ Misfortune

\* Timers go off, tasks run, messages arrive.  Of these steps none can be taken
\* for ever while the views do not take the session from each other.
PeerFairness == WF_peerVars(PeerProgress)
PeerSpec == PeerInit /\ [][PeerNext]_peerVars /\ PeerFairness

-----------------------------------------------------------------------------
(* Properties.                                                             *)
PeerFeeds(v) == Fits(v) /\ path[page[v].offer] = "up" /\ mirror = page[v].offer
                /\ mirror \in open
Feeds(v) ==
  (IF page[v].ws = "open" THEN {"ws"} ELSE {})
  \cup {f \in Bodies : page[v][f] = "feeding"}
  \cup (IF PeerFeeds(v) THEN {"peer"} ELSE {})

\* Whoever takes the one session from whom, and whatever fails on the way,
\* every view comes to rest with a picture or with an error on its status line:
\* the views do not go on taking the session from each other, and none waits in
\* the dark for something that does not come (desktop.js).
PeersSettle ==
  <>[](peering.closes => \A v \in peering.watch : Feeds(v) # {} \/ page[v].failed)

\* A view is never fed twice.
OneFeed == \A v \in Views : ~page[v].tangled => Cardinality(Feeds(v)) <= 1

\* A queue that some task waits for can be reached by the next close.
QueuesReachable == ~overrun => open \subseteq {mirror}
=============================================================================
