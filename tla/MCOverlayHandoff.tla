--------------------------- MODULE MCOverlayHandoff ---------------------------
(* Instances of OverlayHandoff.                                            *)
EXTENDS OverlayHandoff

TwoVersions == {1, 2}
=============================================================================
