--------------------------- MODULE MCDesktopVideo ---------------------------
(* DesktopVideo and DesktopPeers for model checking: the scenes.  A behaviour *)
(* is about the picture's way through the relay, or about the browsers' choice *)
(* of a way; the other component has a scene in which nothing happens.         *)
EXTENDS DesktopVideo, DesktopPeers

CONSTANTS w1, w2

\* No backlog: the queue never exceeds MaxPending.
CalmScene == [kinds |-> {"start", "stop", "restart", "rebuild", "throttle",
                         "reconnect"},
              backlog |-> 1, left |-> 2]
EncoderScene == [kinds |-> {"start", "restart", "rebuild"}, backlog |-> 1, left |-> 3]
\* A backlog and a new encoder; a stop that takes too long; a broken socket; a
\* capture that fails; a credential change.
LateScene == [kinds |-> {"start", "stop", "rebuild"}, backlog |-> 3, left |-> 2]
SlowScene == [kinds |-> {"start", "restart", "slow"}, backlog |-> 1, left |-> 3]
BreakScene == [kinds |-> {"start", "stop", "ws"}, backlog |-> 1, left |-> 2]
FailScene == [kinds |-> {"start", "stop", "capture"}, backlog |-> 1, left |-> 3]
RevokeScene == [kinds |-> {"start", "revoke"}, backlog |-> 1, left |-> 2]
\* The old uplink task is still sending when the new session is at work: in no
\* run: the picture may not come back then, and of the safety properties only
\* ChainUnbroken speaks of it.
LateLinkScene == [kinds |-> {"start", "reconnect", "late"}, backlog |-> 1, left |-> 2]
AllScenes == {CalmScene, EncoderScene, LateScene, SlowScene, BreakScene, FailScene,
              RevokeScene}
Still == [kinds |-> {}, backlog |-> 1, left |-> 0]
RevokeOnly == {RevokeScene}
BacklogOnly == {LateScene}
NoScenes == {Still}

\* Nobody watches over the other ways.
Unwatched == [watch |-> {}, lan |-> {}, told |-> FALSE, direct |-> {}, closes |-> TRUE,
              kinds |-> {}, left |-> 0]
\* One view: the desktop restarts, whatever fails.
OneView == [watch |-> {w1}, lan |-> {}, told |-> FALSE, direct |-> {w1}, closes |-> TRUE,
            kinds |-> PeerFaults \ {"overlap", "error"}, left |-> 2]
\* No socket, and then a fetch that fails for good.
ErrorView == [OneView EXCEPT !.kinds = {"socket", "error"}]
\* The same with an address of the agent, which the view reaches or not.
LanView == {[OneView EXCEPT !.told = TRUE, !.lan = l, !.left = 1,
                            !.kinds = {"restart", "socket", "error", "cut", "skip"}] : l \in SUBSET {w1}}
\* Two views and one session: the peer is lost, a view tries again after its
\* cooldown; or the offer of one meets the driver of the other between two steps.
TwoViews == {[OneView EXCEPT !.watch = {w1, w2}, !.direct = {w1, w2}, !.left = 1,
                             !.kinds = k] : k \in {{"cut", "cooldown"}, {"overlap"}}}
AllPeerings == {Unwatched, OneView, ErrorView} \cup TwoViews \cup LanView
NoPeerings == {Unwatched}

DesktopScenes == AllScenes \cup NoScenes
DesktopInit == Init /\ PeerInit /\ (scene = Still <=> peering # Unwatched)
DesktopNext == \/ scene # Still /\ Next /\ UNCHANGED peerVars
               \/ scene = Still /\ PeerNext /\ UNCHANGED vars
DesktopSpec == DesktopInit /\ [][DesktopNext]_<<vars, peerVars>> /\ Fairness /\ PeerFairness
=============================================================================
