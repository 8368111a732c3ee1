---------------------------- MODULE MCRelayPlane ----------------------------
(***************************************************************************)
(* An instance of RelayPlane: agents with a --session-id, one with a --key *)
(***************************************************************************)
EXTENDS RelayPlane

CONSTANTS a1, s1, k1

\* Every agent asks for s1; a1 has a key, a second agent has none.
AllWantS1 == [a \in Agent |-> s1]

FirstHasKey == [a \in Agent |-> IF a = a1 THEN k1 ELSE None]

\* Browsers and credential changes; idle sessions behind a password.
TwoScenes == {[idle |-> FALSE, browsers |-> TRUE, password |-> TRUE],
              [idle |-> TRUE, browsers |-> FALSE, password |-> TRUE]}
BrowsersOnly == {[idle |-> FALSE, browsers |-> TRUE, password |-> TRUE]}
=============================================================================
