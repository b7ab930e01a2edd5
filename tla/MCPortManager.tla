--------------------------- MODULE MCPortManager ---------------------------
(* Small instances of PortManager.tla, all their constants in the cfgs.    *)
EXTENDS PortManager
=============================================================================
