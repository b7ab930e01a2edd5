---------------------------- MODULE MCBatRecord ----------------------------
(* BatRecord for TLC: two pages of two records, two kinds of exception. *)
EXTENDS BatRecord
TwoKinds == <<"ov1", "temp_chg">>
============================================================================
