------------------------------- MODULE Charger -------------------------------
(***************************************************************************)
(* The charging current (power/buckboost.c, hal/nu6805.c), in units of     *)
(* 100 mA.  A current asked for is reached in steps; a change of mode, or  *)
(* the setup of the chip by a protection, comes at any point of the ramp.  *)
(***************************************************************************)
EXTENDS Naturals

CONSTANT Limits      \* the currents the port manager asks for, <<ibat, ibus>>

VARIABLES
  woke_mode,                    \* the mode the software believes in
  ibat_limit, ibus_limit,       \* the limits the software believes in
  ibus_value, ibus_start,       \* the ramp: where it is, and that it runs
  chip                          \* the registers: mode and the two limits
vars == <<woke_mode, ibat_limit, ibus_limit, ibus_value, ibus_start, chip>>

Modes == {"SHUTDOWM", "CHAGER", "DISCHG"}
CHG_IBUS_MIN == 5
CHG_IBAT_MIN == 1
AtLeast(a, b) == IF a < b THEN b ELSE a
Asked == {l[1] : l \in Limits} \cup {l[2] : l \in Limits}

TypeOK ==
  /\ woke_mode \in Modes /\ {ibat_limit, ibus_limit} \subseteq Asked \cup {0, 3}
  /\ ibus_value \in 0 .. 100 /\ ibus_start \in BOOLEAN
  /\ chip.mode \in Modes /\ chip.ibus >= CHG_IBUS_MIN /\ chip.ibat >= CHG_IBAT_MIN

\* hal_nu6805_buckboost_init: a shut chip that would charge with 1 A.
Reset == [mode |-> "SHUTDOWM", ibat |-> 5, ibus |-> 10]
charge_ibus_limit(c, l) == [c EXCEPT !.ibus = AtLeast(l, CHG_IBUS_MIN)]
charge_ibat_limit(c, l) == [c EXCEPT !.ibat = AtLeast(l, CHG_IBAT_MIN)]

Init ==
  /\ woke_mode = "SHUTDOWM" /\ ibat_limit = 0 /\ ibus_limit = 0
  /\ ibus_value = 0 /\ ibus_start = FALSE /\ chip = Reset

\* A protection, or the communication mode, sets the chip up anew.
hal_nu6805_buckboost_init ==
  /\ chip' = Reset
  /\ UNCHANGED <<woke_mode, ibat_limit, ibus_limit, ibus_value, ibus_start>>

buckboost_set_charge_current(ibat, ibus) ==
  /\ ibus_limit' = ibus /\ ibat_limit' = ibat
  /\ chip' = charge_ibat_limit(charge_ibus_limit(chip, 3), ibat)
  /\ ibus_value' = 3 /\ ibus_start' = TRUE
  /\ UNCHANGED woke_mode

buckboost_set_work_mode(mode) ==
  /\ woke_mode' = mode
  /\ IF mode = "CHAGER"
     THEN /\ ibat_limit' = 3 /\ ibus_limit' = 3
          /\ chip' = [charge_ibus_limit(charge_ibat_limit(chip, 3), 3) EXCEPT !.mode = mode]
     ELSE chip' = [chip EXCEPT !.mode = mode] /\ UNCHANGED <<ibat_limit, ibus_limit>>
  /\ ibus_start' = FALSE /\ ibus_value' = 2

Ramp ==
  /\ ibus_start
  /\ IF ibus_value < ibus_limit
     THEN /\ ibus_value' = ibus_value + 1 /\ chip' = charge_ibus_limit(chip, ibus_value + 1)
          /\ UNCHANGED ibus_start
     ELSE ibus_start' = FALSE /\ UNCHANGED <<ibus_value, chip>>
  /\ UNCHANGED <<woke_mode, ibat_limit, ibus_limit>>

Next ==
  \/ hal_nu6805_buckboost_init \/ Ramp
  \/ \E l \in Limits : buckboost_set_charge_current(l[1], l[2])
  \/ \E mode \in Modes : buckboost_set_work_mode(mode)
Spec == Init /\ [][Next]_vars
-----------------------------------------------------------------------------
\* While the chip charges it draws no more than was asked for, or than its own
\* least current; with no ramp under way it draws that, and the battery gets the
\* current asked for.
Limited ==
  chip.mode = "CHAGER" =>
    /\ chip.ibus <= AtLeast(ibus_limit, CHG_IBUS_MIN)
    /\ ~ibus_start => chip.ibus = AtLeast(ibus_limit, CHG_IBUS_MIN)
    /\ chip.ibat = AtLeast(ibat_limit, CHG_IBAT_MIN)
=============================================================================
