------------------------------- MODULE Battery -------------------------------
(***************************************************************************)
(* The level of the battery that is shown (power/bat.c), every 100 ms.     *)
(* The energy is counted in and out; the level shown follows it one step   *)
(* at a time, up while charging and down while discharging, along a line   *)
(* from where the mode changed last to full or to the level the cells will *)
(* be empty at.  A battery below its empty voltage is shown as empty.      *)
(* The converter never reports a full battery in this build, so that the   *)
(* branch of a full battery and its calibration are dead, and the level by *)
(* open-circuit voltage is only used once, at the start.                   *)
(***************************************************************************)
EXTENDS Integers

CONSTANTS Top,               \* 100: the level of a full battery
          Unit,              \* energy in one level
          Byte,              \* 2^8, the range of temp_bat_ui
          Slow, Above,       \* 300 ticks for a step down above 85
          Fast, Up,          \* 10 ticks for one below, 100 ticks for a step up
          EmptyTicks,        \* 10
          Ends               \* the levels the cells may be empty at, by the load

VARIABLES
  sbat, vlow,                          \* charging or discharging; below the empty voltage
  bat_energy_current, bat_level_ui,
  level_ui_cnt, empty_cnt, empty_flg,
  chng, disg                           \* where charging, discharging began: the levels by
                                       \* energy and shown, and the energy
vars == <<sbat, vlow, bat_energy_current, bat_level_ui, level_ui_cnt, empty_cnt, empty_flg, chng, disg>>

Total == Top * Unit
\* Bound: the count of energy runs past both ends in the code.
Energies == -Unit .. Total + Unit
Most == Slow

TypeOK ==
  /\ sbat \in {"CHNG", "DISG"} /\ vlow \in BOOLEAN
  /\ bat_energy_current \in Energies /\ bat_level_ui \in 0 .. Top
  /\ level_ui_cnt \in 0 .. Most /\ empty_cnt \in 0 .. EmptyTicks - 1 /\ empty_flg \in BOOLEAN
  /\ chng \in [ey : 0 .. Top, ui : 0 .. Top]
  /\ disg \in [ey : 0 .. Top, ui : 0 .. Top, energy : Energies]

\* Division as in C.
Div(a, b) == IF (a < 0) = (b < 0) THEN (IF a < 0 THEN -a ELSE a) \div (IF b < 0 THEN -b ELSE b)
             ELSE -((IF a < 0 THEN -a ELSE a) \div (IF b < 0 THEN -b ELSE b))
Least(a, b) == IF a < b THEN a ELSE b

\* battery_task_handle, first call: the level by voltage, and nothing discharged.
Init ==
  /\ sbat \in {"CHNG", "DISG"} /\ vlow = FALSE
  /\ bat_level_ui \in 0 .. Top /\ bat_energy_current = bat_level_ui * Unit
  /\ level_ui_cnt = 0 /\ empty_cnt = 0 /\ empty_flg = FALSE
  /\ chng = [ey |-> bat_level_ui, ui |-> bat_level_ui]
  /\ disg = [ey |-> bat_level_ui, ui |-> bat_level_ui, energy |-> 0]

Soe(e) == IF e > Total THEN Top ELSE IF e < 0 THEN 0 ELSE (Top * e) \div Total

-----------------------------------------------------------------------------
(* The level aimed at.                                                     *)

AimChng(soe) ==
  IF soe >= Top \/ chng.ey = Top THEN Top
  ELSE Least(Top, (chng.ui + Div((Top - chng.ui) * (soe - chng.ey), Top - chng.ey)) % Byte)
\* Below the level of empty cells the quotient is negative, and a byte of it is
\* a level above all others.
AimDisg(soe, end, e) ==
  IF bat_level_ui = Top
  THEN IF disg.energy > e /\ disg.energy - e > Div(disg.energy, 120) THEN Top - 1 ELSE Top
  ELSE IF disg.ey = end THEN 0 ELSE Div(disg.ui * (soe - end), disg.ey - end) % Byte

\* One step, after as many ticks as the direction takes; ticks in which the aim
\* lies on the other side count as well.
Moved(aim, mode) ==
  LET n == Least(level_ui_cnt + 1, Most)
      up == aim > bat_level_ui /\ mode = "CHNG"
      down == aim < bat_level_ui /\ mode = "DISG"
      ticks == IF up THEN Up ELSE IF bat_level_ui > Above THEN Slow ELSE Fast
  IN IF aim = bat_level_ui THEN level_ui_cnt' = 0 /\ UNCHANGED bat_level_ui
     ELSE IF (up \/ down) /\ n >= ticks
     THEN level_ui_cnt' = 0 /\ bat_level_ui' = bat_level_ui + (IF up THEN 1 ELSE -1)
     ELSE level_ui_cnt' = n /\ UNCHANGED bat_level_ui

-----------------------------------------------------------------------------
Counted(d) == bat_energy_current + d \in Energies /\ bat_energy_current' = bat_energy_current + d

\* Ticks with a current that is not zero; the others do nothing.
TickChng(d) ==
  /\ sbat = "CHNG" /\ Counted(d)
  /\ LET soe == Soe(bat_energy_current')
     IN /\ Moved(AimChng(soe), "CHNG")
        /\ disg' = [ey |-> soe, ui |-> bat_level_ui, energy |-> bat_energy_current']
  /\ empty_cnt' = 0 /\ empty_flg' = FALSE
  /\ UNCHANGED <<sbat, vlow, chng>>
TickDisg(d, end) ==
  /\ sbat = "DISG" /\ Counted(d)
  /\ empty_cnt' = IF vlow THEN (empty_cnt + 1) % EmptyTicks ELSE 0
  /\ empty_flg' = (empty_flg \/ (vlow /\ empty_cnt + 1 = EmptyTicks))
  /\ LET soe == Soe(bat_energy_current')
     IN /\ Moved(IF empty_flg' THEN 0 ELSE AimDisg(soe, end, bat_energy_current'), "DISG")
        /\ chng' = [ey |-> soe, ui |-> bat_level_ui]
  /\ UNCHANGED <<sbat, vlow, disg>>

\* The mode of the converter, and the voltage of the cells.
Mode ==
  /\ sbat' \in {"CHNG", "DISG"} \ {sbat}
  /\ UNCHANGED <<vlow, bat_energy_current, bat_level_ui, level_ui_cnt, empty_cnt, empty_flg, chng, disg>>
Voltage ==
  /\ vlow' = ~vlow
  /\ UNCHANGED <<sbat, bat_energy_current, bat_level_ui, level_ui_cnt, empty_cnt, empty_flg, chng, disg>>

Tick == \E d \in -1 .. 1 : TickChng(d) \/ \E end \in Ends : TickDisg(d, end)
Next == Tick \/ Mode \/ Voltage
Spec == Init /\ [][Next]_vars /\ WF_vars(Tick)
-----------------------------------------------------------------------------
\* Whatever the count of energy says, which nothing corrects, a battery that
\* discharges below its empty voltage comes to be shown as empty ...
EmptyShown == []<>(sbat = "DISG" /\ vlow => bat_level_ui = 0)
\* ... and one that charges and has all its energy comes to be shown as full.
FullShown == []<>(sbat = "CHNG" /\ bat_energy_current >= Total => bat_level_ui = Top)
=============================================================================
