------------------------------- MODULE MCLinks -------------------------------
(***************************************************************************)
(* Links on a small instance: two-bit bytes, records of a page or two,     *)
(* and one request with losses beside two without.                         *)
(***************************************************************************)
EXTENDS Links

MCSoc == 1 .. 2
MCPackets == {<<1, 0>>, <<1, 255>>, <<2, 85>>, <<40, 163, 15>>}
MCDeltas == {-113, -105, 0, 105, 113}
MCNoise == {-1, 1}
MCWants == {{"challenge"}, {"certificate", "wrongSlot"}}
MCLosses == [q \in UNION MCWants |-> IF q = "challenge" THEN 1 ELSE 0]
MCScenes == {{"log"}, {"eng", "erase", "failures"}, {"time", "prod", "failures"}}
MCBytes == {<<0, 1>>, <<1, 0>>}
=============================================================================
