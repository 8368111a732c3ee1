-------------------------- MODULE MCUpgradeStatus --------------------------
(* Two requests of either kind for one device.                             *)
EXTENDS UpgradeStatus
=============================================================================
