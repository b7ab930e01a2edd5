------------------------------- MODULE MCPower -------------------------------
(***************************************************************************)
(* Power on a small instance: short runs of readings, few voltages.        *)
(***************************************************************************)
EXTENDS Power

MCLimits == {<<0, 2>>, <<20, 5>>, <<40, 9>>, <<50, 30>>}
Watched == {"tdie_otp", "tdie_utp", "isns_ocp", "vbus_ovp", "vbus_uvp", "vbus_dpl",
            "vpwr_ovp", "pout_opp"}
MCOver == [c \in Watched |-> 1]
MCReco == [c \in Watched |-> IF c = "isns_ocp" THEN 0 ELSE 1]
=============================================================================
