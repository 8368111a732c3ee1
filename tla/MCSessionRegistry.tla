------------------------- MODULE MCSessionRegistry -------------------------
(***************************************************************************)
(* Two sessions, a key and two minted tokens, two concurrent calls.        *)
(***************************************************************************)
EXTENDS SessionRegistry, TLC

Symmetry == Permutations(Sid) \cup Permutations(Worker)
            \cup Permutations(Token \ Key)
=============================================================================
