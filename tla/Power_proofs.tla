---------------------------- MODULE Power_proofs ----------------------------
(***************************************************************************)
(* Proofs about Power, for all values of its constants within the bounds   *)
(* it assumes of them.  Each component has an inductive invariant of its   *)
(* own; as the components share nothing, a step of one leaves the others'  *)
(* as they are.                                                            *)
(***************************************************************************)
EXTENDS Power, TLAPS

-----------------------------------------------------------------------------
(* What holds of each component in every state.                            *)

\* A look that finds the device starts both counts anew, and the history with them.
SleepInv == S!TypeOK /\ missed = rd0_cnt /\ light0_cnt <= rd0_cnt

\* The event whose handler sets what the device asked for last; the rest of the
\* events that touch the bus is of another device, or comes before it.
Due == IF last = "afc" THEN D!AFC_SCP_OUT ELSE IF stat = D!Cont THEN D!QC_PLUSE ELSE D!QC_FIXED
Halfway == half # D!None => D!AFC_SCP_OUT \in snap /\ \A e \in snap : D!AFC_SCP_OUT <= e
Speakers ==
  /\ D!QC_FIXED \in table \cup snap => peer \in {"none", "qc device"}
  /\ D!QC_PLUSE \in table \cup snap => peer \in {"none", "qc device"}
  /\ D!AFC_SCP_OUT \in table \cup snap => peer \in {"none", "afc device"}
  /\ last = "qc" => peer = "qc device" /\ ~pd /\ stat # D!None
  /\ last = "afc" => peer = "afc device"
Pending ==
  last # "none" =>
    \/ Due \in table
    \/ Due \in snap /\ D!ENTER_DCP \notin table /\ (last = "afc" => half \in {D!None, scp[1]})
    \/ /\ bus = IF last = "qc" THEN <<qc_volt, "qc">> ELSE scp
       /\ D!ENTER_DCP \notin table \cup snap /\ (last = "afc" => D!AFC_SCP_OUT \notin snap)
FastInv == D!TypeOK /\ Halfway /\ Speakers /\ Pending

\* The stages of an order of voltage.
Stages == {"REGULATOR_WAITDONE", "REGULATOR_DELAYDONE"}
RegulatorInv ==
  /\ R!TypeOK
  \* A pass takes all there is, and nothing is posted while it is worked off.
  /\ batch = {} \/ posted = {}
  \* One stage is under way at a time; a new order, or the end of the last delay,
  \* finds the timer off.
  /\ ~(Stages \subseteq posted \cup batch)
  /\ "SET_DISCHG_VBUS_VOLT" \in posted \cup batch => timer = "off"
  /\ Stages \cap posted # {} => timer = "off"
  /\ regulator_state => timer = "off" /\ (posted \cup batch) \subseteq {"DUMMYLOADOVER"}
  \* From the programming on, the voltage is there.
  /\ (regulator_state \/ timer = "REGULATOR_DELAYDONE" \/ "REGULATOR_DELAYDONE" \in posted \cup batch)
       => late \/ out.volt = asked

Chips == [mode : C!Modes, ibat : Nat, ibus : Nat]
\* While the chip charges, the ramp is where it says, and at most at its end.
ChargerInv ==
  /\ C!TypeOK /\ chip \in Chips
  /\ C!Limited
  /\ chip.mode = "CHAGER" /\ ibus_start =>
       chip.ibus = C!AtLeast(ibus_value, C!CHG_IBUS_MIN) /\ ibus_value <= C!AtLeast(ibus_limit, 3)

\* No counter is ahead of the readings it stands for.
FaultsInv ==
  /\ F!TypeOK /\ ocps \in 0 .. OcpLock /\ lows \in 0 .. LowCount /\ highs \in 0 .. SoftCount
  /\ nu6805_ocp_cnt <= ocps /\ cnt <= lows /\ adc_protect_cnt <= highs
  /\ adc_protect_flag => highs = SoftCount

BatteryInv == B!TypeOK

\* The same of the coil's protections, and of the doubt about the cells: a verdict
\* the key has taken back leaves its counts, until a normal reading clears them.
ProtTypes ==
  /\ P!TypeOK
  /\ {over_cnt, reco_cnt, bad, good} \subseteq [P!Checks -> Nat]
  /\ high \in 0 .. Consec /\ wild \in 0 .. Suspect + 1 /\ forgiven \in BOOLEAN
Runs == \A c \in P!Checks : /\ flag[c] => reco_cnt[c] <= good[c] /\ reco_cnt[c] <= Reco[c]
                            /\ ~flag[c] => over_cnt[c] <= bad[c] /\ over_cnt[c] <= Over[c]
Doubts ==
  ~bat_ov_forbid_flag /\ ~forgiven =>
    /\ consec_cnt <= high /\ consec_cnt < Consec
    /\ delay_done => wild >= Suspect
    /\ delay_left > 0 => wild + delay_left > Suspect
ProtInv == ProtTypes /\ P!NeverUnderFault /\ Runs /\ Doubts

LedInv == L!TypeOK

\* The least time from an event to the n-th click after it.
Quick(n) == 2 * ClickMin * (n - 1)
\* An event that waits for the UI task was left so lately that the next one cannot
\* come yet, whether by the end of a series, a fifth click or a long press.
Waits ==
  key_flag # "none" =>
    /\ 0 < ui
    /\ key_cnt < Long => key_cnt < ui + Gap
    /\ key_click_cnt > 0 => /\ Gap < ui + key_delay_ms
                            /\ Quick(key_click_cnt) + (IF down THEN ClickMin + key_cnt ELSE rest) < ui
KeyTypes == /\ rest \in 0 .. ClickMin /\ key_cnt \in 0 .. Restart /\ key_delay_ms \in 0 .. Gap
            /\ key_click_cnt \in 0 .. 4 /\ ui \in 0 .. Period
KeySorts == down \in BOOLEAN /\ serving \in BOOLEAN /\ key_flag \in K!Flags
KeyTimes == /\ IF down THEN rest = 0 ELSE key_cnt = 0
            /\ key_delay_ms = 0 <=> key_click_cnt = 0
            /\ key_delay_ms > 0 => key_cnt + key_delay_ms < Gap
KeyInv == KeyTypes /\ KeySorts /\ KeyTimes /\ K!Counted /\ Waits

Inv == /\ SleepInv /\ FastInv /\ RegulatorInv /\ ChargerInv /\ FaultsInv /\ BatteryInv
       /\ ProtInv /\ LedInv /\ KeyInv
-----------------------------------------------------------------------------
(* Sleep.                                                                  *)

LEMMA SleepConsts == Misses \in Nat /\ Misses > 0
BY SleepBounds

LEMMA SleepStarts == Init => SleepInv
<1> SUFFICES ASSUME S!Init PROVE SleepInv
  BY DEF Init
<1>1. {awake, light, dead, sleep_comm, tcpc, tmr} \subseteq BOOLEAN
  BY DEF S!Init
<1>2. rd0_cnt = 0 /\ light0_cnt = 0 /\ missed = 0
  BY DEF S!Init
<1>3. 0 \in 0 .. Misses
  BY SleepConsts
<1> QED
  BY <1>1, <1>2, <1>3 DEF SleepInv, S!Init, S!TypeOK, S!Partners, S!Shown

LEMMA SleepSteps == SleepInv /\ S!Next => SleepInv'
<1> SUFFICES ASSUME SleepInv, S!Next PROVE SleepInv'
  OBVIOUS
<1> USE DEF S!Next, S!IdleToSleep, S!key_long_click_process, S!Lighting, S!LightOn, S!LightOff, S!Battery,
            S!key_triple_click_process, S!Plug, S!TimerWake, S!tc_check_wake, S!LitCheck, S!FreeCheck,
            S!ProtocolWake, S!KeyWake, S!FalseWake, S!ColdStart, S!SLP_vNormalToSleep, S!SleepPeripherals,
            S!SleepCc, S!SleepTimer, S!SLP_vSleepToSleep, S!Running, S!kept
<1>1. {awake', light', dead', sleep_comm', tcpc', tmr'} \subseteq BOOLEAN
  <2>0. awake \in BOOLEAN /\ light \in BOOLEAN /\ dead \in BOOLEAN /\ sleep_comm \in BOOLEAN /\ tcpc \in BOOLEAN
        /\ tmr \in BOOLEAN
    BY DEF SleepInv, S!TypeOK
  <2>1. awake' \in BOOLEAN
    BY <2>0
  <2>2. light' \in BOOLEAN
    BY <2>0
  <2>3. dead' \in BOOLEAN
    BY <2>0
  <2>4. sleep_comm' \in BOOLEAN
    BY <2>0
  <2>5. tcpc' \in BOOLEAN
    BY <2>0
  <2>6. tmr' \in BOOLEAN
    BY <2>0
  <2> QED
    BY <2>1, <2>2, <2>3, <2>4, <2>5, <2>6
<1>2. partner' \in S!Partners
  BY DEF SleepInv, S!TypeOK
<1>3. why' \in {"timer", "cc", "key", "reset"} /\ sleep_cc' \in S!Shown
  BY DEF SleepInv, S!TypeOK, S!Shown
<1>4. /\ rd0_cnt' \in 0 .. Misses /\ light0_cnt' \in 0 .. Misses /\ missed' \in 0 .. Misses
      /\ missed' = rd0_cnt' /\ light0_cnt' <= rd0_cnt'
  BY SleepConsts DEF SleepInv, S!TypeOK, S!Counted, S!SomeRd, S!SrcConnected
<1> QED
  BY <1>1, <1>2, <1>3, <1>4 DEF SleepInv, S!TypeOK

LEMMA SleepRests == SleepInv /\ UNCHANGED sleep => SleepInv'
BY DEF SleepInv, sleep, S!TypeOK

\* Only the look at the lines ends a sleep by the timer: a lit port has missed its
\* device the last Misses times, a free one shows something.
LEMMA WakeHasReason ==
  SleepInv /\ S!Next /\ ~awake /\ awake' /\ why' = "timer" =>
    IF light THEN missed + 1 >= Misses ELSE partner # "none"
<1> SUFFICES ASSUME SleepInv, S!Next, ~awake, awake', why' = "timer"
             PROVE  IF light THEN missed + 1 >= Misses ELSE partner # "none"
  OBVIOUS
<1>1. S!TimerWake
  BY DEF S!Next, S!IdleToSleep, S!key_long_click_process, S!Lighting, S!Battery, S!key_triple_click_process,
         S!Plug, S!ProtocolWake, S!KeyWake, S!FalseWake, S!ColdStart, S!Running, S!kept,
         S!SLP_vSleepToSleep, S!LightOn, S!LightOff
<1>2. ASSUME light PROVE missed + 1 >= Misses
  <2>1. \/ S!Counted(light0_cnt, S!SomeRd) >= Misses
        \/ S!Counted(rd0_cnt, S!SrcConnected) >= Misses
    BY <1>1, <1>2 DEF S!TimerWake, S!tc_check_wake, S!LitCheck, S!FreeCheck, S!SLP_vSleepToSleep
  <2> QED
    BY <2>1, SleepConsts DEF SleepInv, S!TypeOK, S!Counted
<1>3. ASSUME ~light PROVE partner # "none"
  BY <1>1, <1>3 DEF S!TimerWake, S!tc_check_wake, S!LitCheck, S!FreeCheck, S!SLP_vSleepToSleep
<1> QED
  BY <1>2, <1>3
-----------------------------------------------------------------------------
(* The converter's voltage.                                                *)

LEMMA RegulatorStarts == Init => RegulatorInv
<1> SUFFICES ASSUME R!Init PROVE RegulatorInv
  BY DEF Init
<1>1. asked \in Volts /\ ir_drop \in Drops
  BY RegulatorBounds DEF R!Init
<1>2. out \in [volt : Volts, drop : Drops]
  BY RegulatorBounds DEF R!Init, R!Five
<1>3. {disg_timer, dischg} \subseteq BOOLEAN /\ {regulator_state, late} \subseteq BOOLEAN
  BY DEF R!Init
<1>4. posted \subseteq R!Events /\ batch \subseteq R!Events /\ timer = "off" /\ cnt_delay \in 0 .. 5
  BY DEF R!Init, R!Events, R!Bits
<1> QED
  BY <1>1, <1>2, <1>3, <1>4 DEF RegulatorInv, R!Init, R!TypeOK, Stages

\* The names of the events, and that each is served before those of higher bits.
LEMMA EventNames ==
  R!Events = {"SET_DISCHG_VBUS_VOLT", "REGULATOR_WAITDONE", "REGULATOR_DELAYDONE", "DUMMYLOADOVER"}
BY DEF R!Events, R!Bits
LEMMA InOrder ==
  ASSUME NEW e, NEW b, R!Bits[e] <= R!Bits[b], b = "SET_DISCHG_VBUS_VOLT",
         e \in {"REGULATOR_WAITDONE", "REGULATOR_DELAYDONE", "DUMMYLOADOVER"}
  PROVE  FALSE
BY DEF R!Bits
LEMMA LowestFirst ==
  ASSUME NEW e \in {"REGULATOR_WAITDONE", "REGULATOR_DELAYDONE", "DUMMYLOADOVER"}, R!Served(e)
  PROVE  "SET_DISCHG_VBUS_VOLT" \notin batch
BY InOrder DEF R!Served

LEMMA RegulatorKeepsTypes == R!TypeOK /\ R!Next => R!TypeOK'
<1> SUFFICES ASSUME R!TypeOK, R!Next PROVE R!TypeOK'
  OBVIOUS
<1> USE DEF R!Next, R!Request, R!hal_nu6805_buckboost_init, R!buckboost_set_bus_iv, R!Expire, R!ExpireDisg,
            R!Step, R!Pass, R!SetDischgVbusVolt, R!WaitDone, R!DelayDone, R!DummyLoadOver, R!Served,
            R!buckboost_ir_drop_handle, R!irDrop, R!chip
<1>1. posted' \subseteq R!Events /\ batch' \subseteq R!Events
  BY EventNames DEF R!TypeOK
<1>2. timer' \in {"off", "REGULATOR_WAITDONE", "REGULATOR_DELAYDONE"}
  BY DEF R!TypeOK
<1>3. disg_timer' \in BOOLEAN /\ dischg' \in BOOLEAN
  BY DEF R!TypeOK
<1>4. regulator_state' \in BOOLEAN
  BY DEF R!TypeOK
<1>8. late' \in BOOLEAN
  <2>1. ASSUME NEW v, R!buckboost_set_bus_iv(v) PROVE late' \in BOOLEAN
    BY <2>1
  <2>2. late \in BOOLEAN
    BY DEF R!TypeOK
  <2> QED
    BY <2>1, <2>2
<1>5. asked' \in Volts /\ ir_drop' \in Drops
  BY RegulatorBounds DEF R!TypeOK
<1>6. cnt_delay' \in 0 .. 5
  BY DEF R!TypeOK
<1>7. out' \in [volt : Volts, drop : Drops]
  BY RegulatorBounds DEF R!TypeOK, R!Five
<1> QED
  BY <1>1, <1>2, <1>3, <1>4, <1>5, <1>6, <1>7, <1>8 DEF R!TypeOK

LEMMA RegulatorSteps == RegulatorInv /\ R!Next => RegulatorInv'
<1> SUFFICES ASSUME RegulatorInv, R!Next PROVE RegulatorInv'
  OBVIOUS
<1>0. R!TypeOK /\ R!TypeOK'
  BY RegulatorKeepsTypes DEF RegulatorInv
<1> USE <1>0 DEF RegulatorInv, Stages
<1>1. ASSUME NEW v \in Volts, R!buckboost_set_bus_iv(v), UNCHANGED out PROVE RegulatorInv'
  BY <1>1 DEF R!buckboost_set_bus_iv, R!irDrop
<1>2. CASE R!Expire
  BY <1>2 DEF R!Expire, R!irDrop, R!chip, R!TypeOK
<1>3. CASE R!ExpireDisg
  BY <1>3 DEF R!ExpireDisg, R!irDrop, R!chip
<1>4. CASE R!Pass
  BY <1>4 DEF R!Pass, R!irDrop, R!chip
<1>5. CASE R!SetDischgVbusVolt
  BY <1>5 DEF R!SetDischgVbusVolt, R!Served, R!irDrop, R!chip
<1>6. CASE R!WaitDone
  BY <1>6, LowestFirst DEF R!WaitDone, R!Served, R!irDrop
<1>7. CASE R!DelayDone
  BY <1>7, LowestFirst, EventNames DEF R!DelayDone, R!Served, R!irDrop, R!chip, R!TypeOK
<1>8. CASE R!DummyLoadOver
  BY <1>8 DEF R!DummyLoadOver, R!Served, R!irDrop
<1>9. CASE R!buckboost_ir_drop_handle
  BY <1>9 DEF R!buckboost_ir_drop_handle
<1>10. CASE R!hal_nu6805_buckboost_init
  BY <1>10 DEF R!hal_nu6805_buckboost_init, R!buckboost_set_bus_iv, R!irDrop, R!Five
<1> HIDE DEF RegulatorInv
<1>11. CASE R!Request
  BY <1>1, <1>11 DEF R!Request
<1> QED
  BY <1>2, <1>3, <1>4, <1>5, <1>6, <1>7, <1>8, <1>9, <1>10, <1>11 DEF R!Next, R!Step

LEMMA RegulatorRests == RegulatorInv /\ UNCHANGED regulator => RegulatorInv'
BY DEF RegulatorInv, regulator, R!TypeOK, Stages

LEMMA RegulatorDelivers == RegulatorInv => R!Delivered
BY DEF RegulatorInv, R!Delivered
-----------------------------------------------------------------------------
(* The charging current.                                                   *)

LEMMA Currents ==
  ASSUME NEW l \in ChargeLimits
  PROVE  l[1] \in 0 .. 100 /\ l[2] \in 0 .. 100 /\ {l[1], l[2]} \subseteq C!Asked
BY ChargerBounds DEF C!Asked
LEMMA AskedInRange == C!Asked \subseteq 0 .. 100
BY Currents DEF C!Asked

LEMMA ModeSet ==
  ASSUME NEW c \in Chips, NEW m \in C!Modes, NEW d, d = [c EXCEPT !.mode = m]
  PROVE  d \in Chips /\ d.mode = m /\ d.ibus = c.ibus /\ d.ibat = c.ibat
BY DEF Chips

LEMMA ChargerStarts == Init => ChargerInv
<1> SUFFICES ASSUME C!Init PROVE ChargerInv
  BY DEF Init
<1>1. /\ chip \in Chips
      /\ chip.mode = "SHUTDOWM" /\ chip.ibat = 5 /\ chip.ibus = 10
  BY DEF C!Init, C!Reset, C!Modes, Chips
<1>2. {ibat_limit, ibus_limit} \subseteq C!Asked \cup {0, 3} /\ charger_mode \in C!Modes
  BY DEF C!Init, C!Modes
<1>3. ibus_value \in 0 .. 100
  BY DEF C!Init
<1>4. ibus_start \in BOOLEAN /\ ~ibus_start
  BY DEF C!Init
<1> QED
  BY <1>1, <1>2, <1>3, <1>4 DEF ChargerInv, C!TypeOK, C!Limited, C!Modes, C!CHG_IBUS_MIN, C!CHG_IBAT_MIN

LEMMA ChargerSteps == ChargerInv /\ C!Next => ChargerInv'
<1> SUFFICES ASSUME ChargerInv, C!Next PROVE ChargerInv'
  OBVIOUS
<1>9. /\ ibat_limit \in C!Asked \cup {0, 3} /\ ibus_limit \in C!Asked \cup {0, 3}
      /\ ibus_value \in 0 .. 100 /\ charger_mode \in C!Modes
  BY DEF ChargerInv, C!TypeOK
<1>0. ibat_limit \in 0 .. 100 /\ ibus_limit \in 0 .. 100
  BY <1>9, AskedInRange
<1>7. ibus_start \in BOOLEAN
  BY DEF ChargerInv, C!TypeOK
<1>8. chip \in Chips /\ 5 <= chip.ibus /\ 1 <= chip.ibat
  BY DEF ChargerInv, C!TypeOK, C!CHG_IBUS_MIN, C!CHG_IBAT_MIN
<1> DEFINE Types == /\ ibat_limit \in C!Asked \cup {0, 3} /\ ibus_limit \in C!Asked \cup {0, 3}
                    /\ ibus_value \in 0 .. 100 /\ charger_mode \in C!Modes
                    /\ chip \in Chips /\ 5 <= chip.ibus /\ 1 <= chip.ibat
           Ramps == chip.mode = "CHAGER" /\ ibus_start =>
                      chip.ibus = C!AtLeast(ibus_value, 5) /\ ibus_value <= C!AtLeast(ibus_limit, 3)
<1>1. SUFFICES Types' /\ ibus_start' \in BOOLEAN /\ C!Limited' /\ Ramps'
  BY DEF ChargerInv, C!TypeOK, C!CHG_IBUS_MIN, C!CHG_IBAT_MIN, Chips
<1>2. ibus_start' \in BOOLEAN
  BY <1>7 DEF C!Next, C!hal_nu6805_buckboost_init, C!Ramp, C!buckboost_set_charge_current,
              C!buckboost_set_work_mode
<1> USE <1>0, <1>8, <1>9 DEF ChargerInv, C!Limited, C!AtLeast, C!CHG_IBUS_MIN, C!CHG_IBAT_MIN
<1>3. CASE C!hal_nu6805_buckboost_init
  <2>1. Types' /\ chip'.mode = "SHUTDOWM"
    BY <1>3 DEF C!hal_nu6805_buckboost_init, C!Reset, C!Modes, Chips
  <2> QED
    BY <2>1, <1>2
<1>4. ASSUME NEW l \in ChargeLimits, C!buckboost_set_charge_current(l[1], l[2])
      PROVE  Types' /\ C!Limited' /\ Ramps'
  <2> DEFINE ibat == C!AtLeast(l[1], 1)
  <2>1. chip' = [chip EXCEPT !.ibus = 5, !.ibat = ibat]
    BY <1>4 DEF C!buckboost_set_charge_current, C!charge_ibat_limit, C!charge_ibus_limit
  <2>2. /\ ibus_limit' = l[2] /\ ibat_limit' = l[1] /\ ibus_value' = 3 /\ ibus_start'
        /\ charger_mode' = charger_mode
    BY <1>4 DEF C!buckboost_set_charge_current
  <2>3. l[1] \in 0 .. 100 /\ l[2] \in 0 .. 100 /\ l[1] \in C!Asked /\ l[2] \in C!Asked
    BY Currents
  <2>6. ibat \in Nat /\ 1 <= ibat
    BY <2>3
  <2>4. chip' \in Chips /\ chip'.ibus = 5 /\ chip'.ibat = ibat
    <3> HIDE DEF ibat
    <3> QED
      BY <2>1, <2>6 DEF Chips
  <2>5. Types'
    BY <2>2, <2>3, <2>4, <2>6
  <2> QED
    BY <2>2, <2>3, <2>4, <2>5
<1>5. ASSUME NEW m \in C!Modes, C!buckboost_set_work_mode(m)
      PROVE  Types' /\ C!Limited' /\ Ramps'
  <2>1. ~ibus_start' /\ ibus_value' = 2 /\ charger_mode' = m
    BY <1>5 DEF C!buckboost_set_work_mode
  <2>2. CASE m = "CHAGER"
    <3> DEFINE c == [chip EXCEPT !.ibat = C!AtLeast(3, 1)]
               d == [c EXCEPT !.ibus = C!AtLeast(3, 5)]
    <3>1. chip' = [d EXCEPT !.mode = m] /\ ibat_limit' = 3 /\ ibus_limit' = 3
      BY <1>5, <2>2 DEF C!buckboost_set_work_mode, C!charge_ibat_limit, C!charge_ibus_limit
    <3>2. C!AtLeast(3, 1) = 3 /\ C!AtLeast(3, 5) = 5
      OBVIOUS
    <3>3. d \in Chips /\ d.ibus = 5 /\ d.ibat = 3
      BY <3>2 DEF Chips
    <3>4. chip' \in Chips /\ chip'.ibus = 5 /\ chip'.ibat = 3
      <4> HIDE DEF d
      <4> QED
        BY <3>1, <3>3, ModeSet
    <3>5. Types'
      BY <2>1, <3>1, <3>4
    <3> QED
      BY <2>1, <3>1, <3>4, <3>5
  <2>3. CASE m # "CHAGER"
    <3>1. chip' = [chip EXCEPT !.mode = m] /\ ibat_limit' = ibat_limit /\ ibus_limit' = ibus_limit
      BY <1>5, <2>3 DEF C!buckboost_set_work_mode
    <3>2. chip' \in Chips /\ chip'.mode = m /\ chip'.ibus = chip.ibus /\ chip'.ibat = chip.ibat
      BY <3>1, ModeSet
    <3>3. Types'
      BY <2>1, <3>1, <3>2
    <3> QED
      BY <2>1, <2>3, <3>2, <3>3
  <2> QED
    BY <2>2, <2>3
<1>6. CASE C!Ramp
  <2>1. ibus_start /\ charger_mode' = charger_mode /\ ibat_limit' = ibat_limit /\ ibus_limit' = ibus_limit
    BY <1>6 DEF C!Ramp
  <2>2. CASE ibus_value < ibus_limit
    <3> DEFINE n == C!AtLeast(ibus_value + 1, 5)
    <3>1. chip' = [chip EXCEPT !.ibus = n]
      BY <1>6, <2>2 DEF C!Ramp, C!charge_ibus_limit
    <3>2. ibus_value' = ibus_value + 1 /\ ibus_start'
      BY <1>6, <2>1, <2>2 DEF C!Ramp
    <3>3. n \in Nat /\ 5 <= n
      OBVIOUS
    <3>4. /\ chip' \in Chips /\ chip'.mode = chip.mode
          /\ chip'.ibus = n /\ chip'.ibat = chip.ibat
      <4> HIDE DEF n
      <4> QED
        BY <3>1, <3>3 DEF Chips
    <3>5. Types'
      BY <2>1, <2>2, <3>2, <3>3, <3>4
    <3>6. Ramps'
      BY <2>1, <2>2, <3>2, <3>4
    <3> QED
      BY <2>1, <2>2, <3>2, <3>4, <3>5, <3>6, <1>2
  <2>3. CASE ~(ibus_value < ibus_limit)
    <3>1. chip' = chip /\ ibus_value' = ibus_value /\ ~ibus_start'
      BY <1>6, <2>3 DEF C!Ramp
    <3>2. Types'
      BY <2>1, <3>1
    <3>3. C!Limited'
      BY <2>1, <2>3, <3>1
    <3> QED
      BY <1>2, <3>1, <3>2, <3>3
  <2> QED
    BY <2>2, <2>3
<1> QED
  BY <1>2, <1>3, <1>4, <1>5, <1>6 DEF C!Next

LEMMA ChargerRests == ChargerInv /\ UNCHANGED charger => ChargerInv'
BY DEF ChargerInv, charger, C!TypeOK, C!Limited
-----------------------------------------------------------------------------
(* The key.                                                                *)

LEMMA KeyConsts ==
  /\ ClickMin \in Nat /\ ClickMax \in Nat /\ Gap \in Nat /\ Long \in Nat /\ Restart \in Nat /\ Period \in Nat
  /\ 0 < ClickMin /\ 0 < Period /\ 2 <= Gap /\ Period <= Gap /\ Period < 8 * ClickMin + 2
  /\ Gap + Period <= Long /\ Long < Restart
BY KeyBounds

\* A flag stands for its number of clicks, and each number up to five has its flag.
LEMMA FlagsCount ==
  /\ K!Clicks["none"] = 0 /\ K!Clicks["long"] = 0
  /\ \A f \in K!Flags : K!Clicks[f] \in 0 .. 5
  /\ \A n \in 1 .. 5 : K!FlagOf(n) \in K!Flags \ {"none"} /\ K!Clicks[K!FlagOf(n)] = n
<1>1. /\ K!Clicks["none"] = 0 /\ K!Clicks["long"] = 0 /\ K!Clicks["1"] = 1 /\ K!Clicks["2"] = 2
      /\ K!Clicks["3"] = 3 /\ K!Clicks["4"] = 4 /\ K!Clicks["5"] = 5
  BY DEF K!Clicks, K!Flags
<1>2. \A f \in K!Flags : K!Clicks[f] \in 0 .. 5
  BY <1>1 DEF K!Flags
<1>3. ASSUME NEW n \in 1 .. 5 PROVE K!FlagOf(n) \in K!Flags \ {"none"} /\ K!Clicks[K!FlagOf(n)] = n
  <2>1. \E f \in K!Flags : K!Clicks[f] = n
    BY <1>1 DEF K!Flags
  <2>2. K!FlagOf(n) \in K!Flags /\ K!Clicks[K!FlagOf(n)] = n
    BY <2>1 DEF K!FlagOf
  <2> QED
    BY <1>1, <2>2
<1> QED
  BY <1>1, <1>2, <1>3

LEMMA QuickTimes ==
  /\ Quick(1) = 0 /\ Quick(2) = 2 * ClickMin /\ Quick(3) = 4 * ClickMin /\ Quick(4) = 6 * ClickMin
  /\ \A n \in 1 .. 4 : Quick(n) \in Nat
BY KeyConsts DEF Quick

LEMMA KeyStarts == Init => KeyInv
<1> SUFFICES ASSUME K!Init PROVE KeyInv
  BY DEF Init
<1>1. /\ rest \in 0 .. ClickMin /\ key_cnt \in 0 .. Restart /\ key_delay_ms \in 0 .. Gap
      /\ key_click_cnt \in 0 .. 4 /\ ui \in 0 .. Period /\ key_cnt = 0 /\ key_delay_ms = 0 /\ key_click_cnt = 0
  BY KeyConsts DEF K!Init
<1>2. down \in BOOLEAN /\ ~down /\ serving \in BOOLEAN /\ key_flag \in K!Flags /\ key_flag = "none"
  BY DEF K!Init, K!Flags
<1>3. K!Counted
  BY <1>1, <1>2, FlagsCount DEF K!Counted, K!Init
<1> QED
  BY <1>1, <1>2, <1>3 DEF KeyInv, KeyTypes, KeySorts, KeyTimes, Waits

\* While an event waits no other is left, and no click is thrown away.
LEMMA NoneWaits ==
  ASSUME KeyTypes, KeyTimes, Waits, ui < Period,
         \/ key_delay_ms = 1 /\ key_click_cnt > 0
         \/ key_cnt + 1 = Long
         \/ key_click_cnt = 4 /\ down /\ key_cnt >= ClickMin
  PROVE  key_flag = "none"
BY KeyConsts, QuickTimes DEF KeyTypes, KeyTimes, Waits

LEMMA HeldKeeps == KeyInv /\ ui < Period /\ K!Held /\ ui' = ui + 1 /\ UNCHANGED serving => KeyInv'
<1> SUFFICES ASSUME KeyInv, ui < Period, K!Held, ui' = ui + 1, UNCHANGED serving PROVE KeyInv'
  OBVIOUS
<1>0. KeyTypes /\ KeySorts /\ KeyTimes /\ K!Counted /\ Waits
  BY DEF KeyInv
<1>1. /\ down' /\ rest' = 0 /\ (~down => rest = ClickMin) /\ key_cnt' = key_cnt + 1 /\ key_cnt + 1 < Restart
      /\ open' = open
  BY <1>0, KeyConsts DEF K!Held, K!Hand, KeyTypes
<1>2. down' \in BOOLEAN /\ serving' \in BOOLEAN
  BY <1>0 DEF K!Held, K!Hand, KeySorts
<1>3. CASE key_cnt' = Long
  <2>1. key_delay_ms = 0 /\ key_click_cnt = 0
    BY <1>0, <1>1, <1>3, KeyConsts DEF KeyTypes, KeyTimes
  <2>2. key_flag = "none"
    BY <1>0, <1>1, <1>3, NoneWaits
  <2>3. key_flag' = "long" /\ key_click_cnt' = 0 /\ key_delay_ms' = 0
    BY <1>3, <2>1 DEF K!Held
  <2>4. K!Counted'
    BY <1>0, <1>1, <2>1, <2>2, <2>3, FlagsCount DEF K!Counted
  <2>5. KeySorts'
    BY <1>2, <2>3 DEF KeySorts, K!Flags
  <2>6. KeyTypes' /\ KeyTimes' /\ Waits'
    BY <1>0, <1>1, <1>3, <2>3, KeyConsts DEF KeyTypes, KeyTimes, Waits
  <2> QED
    BY <2>4, <2>5, <2>6 DEF KeyInv
<1>4. CASE key_cnt' # Long /\ key_delay_ms = 1 /\ key_click_cnt > 0
  <2>1. key_flag = "none" /\ key_click_cnt \in 1 .. 5
    BY <1>0, <1>4, NoneWaits DEF KeyTypes
  <2>2. key_flag' = K!FlagOf(key_click_cnt) /\ key_click_cnt' = 0 /\ key_delay_ms' = 0
    BY <1>4 DEF K!Held
  <2>3. key_flag' \in K!Flags /\ K!Clicks[key_flag'] = key_click_cnt
    BY <2>1, <2>2, FlagsCount
  <2>4. K!Counted'
    BY <1>0, <1>1, <2>1, <2>2, <2>3, FlagsCount DEF K!Counted
  <2>5. KeySorts'
    BY <1>2, <2>3 DEF KeySorts
  <2>6. KeyTypes' /\ KeyTimes' /\ Waits'
    BY <1>0, <1>1, <1>4, <2>2, KeyConsts DEF KeyTypes, KeyTimes, Waits
  <2> QED
    BY <2>4, <2>5, <2>6 DEF KeyInv
<1>5. CASE key_cnt' # Long /\ ~(key_delay_ms = 1 /\ key_click_cnt > 0)
  <2>1. /\ key_delay_ms' = (IF key_delay_ms > 0 THEN key_delay_ms - 1 ELSE 0)
        /\ key_flag' = key_flag /\ key_click_cnt' = key_click_cnt
    BY <1>5 DEF K!Held
  <2>2. K!Counted'
    BY <1>0, <1>1, <2>1 DEF K!Counted
  <2>3. KeySorts'
    BY <1>0, <1>2, <2>1 DEF KeySorts
  <2>4. KeyTypes' /\ KeyTimes'
    BY <1>0, <1>1, <1>5, <2>1, KeyConsts DEF KeyTypes, KeyTimes
  <2>5. ASSUME key_flag' # "none", key_click_cnt' > 0
        PROVE  /\ Gap < ui' + key_delay_ms'
               /\ Quick(key_click_cnt') + (ClickMin + key_cnt') < ui'
    <3>1. Quick(key_click_cnt) \in Nat
      BY <1>0, <2>1, <2>5, QuickTimes DEF KeyTypes
    <3> QED
      BY <1>0, <1>1, <1>5, <2>1, <2>5, <3>1, KeyConsts DEF KeyTypes, KeyTimes, Waits
  <2>6. Waits'
    BY <1>0, <1>1, <2>1, <2>5, KeyConsts DEF Waits, KeyTypes
  <2> QED
    BY <2>2, <2>3, <2>4, <2>6 DEF KeyInv
<1> QED
  BY <1>3, <1>4, <1>5

LEMMA ReleasedKeeps == KeyInv /\ ui < Period /\ K!Released /\ ui' = ui + 1 /\ UNCHANGED serving => KeyInv'
<1> SUFFICES ASSUME KeyInv, ui < Period, K!Released, ui' = ui + 1, UNCHANGED serving PROVE KeyInv'
  OBVIOUS
<1>0. KeyTypes /\ KeySorts /\ KeyTimes /\ K!Counted /\ Waits
  BY DEF KeyInv
<1>1. ~down' /\ key_cnt' = 0 /\ rest' = (IF rest < ClickMin THEN rest + 1 ELSE rest)
  BY DEF K!Released, K!Hand
<1>2. down' \in BOOLEAN /\ serving' \in BOOLEAN
  BY <1>0 DEF K!Released, K!Hand, KeySorts
<1>3. rest' \in 0 .. ClickMin /\ rest' <= rest + 1 /\ (down => rest' = 1)
  BY <1>0, <1>1, KeyConsts DEF KeyTypes, KeyTimes
<1>4. CASE key_cnt \in ClickMin .. ClickMax
  <2>1. down
    BY <1>0, <1>4, KeyConsts DEF KeyTypes, KeyTimes
  <2>2. CASE key_click_cnt = 4
    <3>1. key_flag = "none"
      BY <1>0, <1>4, <2>1, <2>2, NoneWaits, KeyConsts DEF KeyTypes
    <3>2. key_flag' = K!FlagOf(5) /\ key_click_cnt' = 0 /\ key_delay_ms' = 0 /\ open' = open + 5 - key_click_cnt
      BY <1>4, <2>2 DEF K!Released
    <3>3. key_flag' \in K!Flags /\ K!Clicks[key_flag'] = 5
      BY <3>2, FlagsCount
    <3>4. K!Counted'
      BY <1>0, <2>2, <3>1, <3>2, <3>3, FlagsCount DEF K!Counted
    <3>5. KeySorts'
      BY <1>2, <3>3 DEF KeySorts
    <3>6. KeyTypes' /\ KeyTimes' /\ Waits'
      BY <1>0, <1>1, <1>3, <3>2, KeyConsts DEF KeyTypes, KeyTimes, Waits
    <3> QED
      BY <3>4, <3>5, <3>6 DEF KeyInv
  <2>3. CASE key_click_cnt \in 0 .. 3
    <3>1. key_click_cnt + 1 # 5 /\ Gap # 1 /\ Gap # 0
      BY <2>3, KeyConsts
    <3>2. /\ key_flag' = key_flag /\ key_click_cnt' = key_click_cnt + 1 /\ key_delay_ms' = Gap - 1
          /\ open' = open + (key_click_cnt + 1) - key_click_cnt
      BY <1>4, <3>1 DEF K!Released
    <3>3. key_flag' \in K!Flags /\ K!Clicks[key_flag] \in 0 .. 5
      BY <1>0, <3>2, FlagsCount DEF KeySorts
    <3>4. K!Counted'
      BY <1>0, <2>3, <3>2, <3>3 DEF K!Counted
    <3>5. KeySorts'
      BY <1>2, <3>3 DEF KeySorts
    <3>6. KeyTypes' /\ KeyTimes'
      BY <1>0, <1>1, <1>3, <2>3, <3>2, KeyConsts DEF KeyTypes, KeyTimes
    <3>7. ASSUME key_flag' # "none"
          PROVE  0 < ui /\ Quick(key_click_cnt + 1) < ui
      <4>1. CASE key_click_cnt = 0
        BY <1>0, <3>2, <3>7, <4>1, QuickTimes DEF Waits, KeyTypes
      <4>2. CASE key_click_cnt > 0
        <5>1. Quick(key_click_cnt) + (ClickMin + key_cnt) < ui /\ ClickMin <= key_cnt
          BY <1>0, <1>4, <2>1, <3>2, <3>7, <4>2 DEF Waits, KeyTypes
        <5>2. Quick(key_click_cnt + 1) = Quick(key_click_cnt) + 2 * ClickMin
          BY <2>3, <4>2, QuickTimes, KeyConsts
        <5> QED
          BY <1>0, <2>3, <3>7, <3>2, <4>2, <5>1, <5>2, QuickTimes, KeyConsts DEF KeyTypes, Waits
      <4> QED
        BY <2>3, <4>1, <4>2
    <3>8. Quick(key_click_cnt + 1) \in Nat
      BY <2>3, QuickTimes
    <3>9. Waits'
      BY <1>0, <1>1, <1>3, <2>1, <2>3, <3>2, <3>7, <3>8, KeyConsts DEF Waits, KeyTypes
    <3> QED
      BY <3>4, <3>5, <3>6, <3>9 DEF KeyInv
  <2> QED
    BY <1>0, <2>2, <2>3 DEF KeyTypes
<1>5. CASE key_cnt \notin ClickMin .. ClickMax /\ key_delay_ms = 1 /\ key_click_cnt > 0
  <2>1. key_flag = "none" /\ key_click_cnt \in 1 .. 5 /\ key_click_cnt # 5
    BY <1>0, <1>5, NoneWaits DEF KeyTypes
  <2>2. /\ key_flag' = K!FlagOf(key_click_cnt) /\ key_click_cnt' = 0 /\ key_delay_ms' = 0
        /\ open' = open + key_click_cnt - key_click_cnt
    BY <1>5, <2>1 DEF K!Released
  <2>3. key_flag' \in K!Flags /\ K!Clicks[key_flag'] = key_click_cnt
    BY <2>1, <2>2, FlagsCount
  <2>4. K!Counted'
    BY <1>0, <2>1, <2>2, <2>3, FlagsCount DEF K!Counted
  <2>5. KeySorts'
    BY <1>2, <2>3 DEF KeySorts
  <2>6. KeyTypes' /\ KeyTimes' /\ Waits'
    BY <1>0, <1>1, <1>3, <2>2, KeyConsts DEF KeyTypes, KeyTimes, Waits
  <2> QED
    BY <2>4, <2>5, <2>6 DEF KeyInv
<1>6. CASE key_cnt \notin ClickMin .. ClickMax /\ ~(key_delay_ms = 1 /\ key_click_cnt > 0)
  <2>1. key_click_cnt # 5
    BY <1>0 DEF KeyTypes
  <2>2. /\ key_flag' = key_flag /\ key_click_cnt' = key_click_cnt
        /\ key_delay_ms' = (IF key_delay_ms = 0 THEN 0 ELSE key_delay_ms - 1)
        /\ open' = open + key_click_cnt - key_click_cnt
    BY <1>6, <2>1 DEF K!Released
  <2>3. key_flag' \in K!Flags /\ K!Clicks[key_flag] \in 0 .. 5
    BY <1>0, <2>2, FlagsCount DEF KeySorts
  <2>4. K!Counted'
    BY <1>0, <2>2, <2>3 DEF K!Counted, KeyTypes
  <2>5. KeySorts'
    BY <1>2, <2>3 DEF KeySorts
  <2>6. KeyTypes' /\ KeyTimes'
    BY <1>0, <1>1, <1>3, <1>6, <2>2, KeyConsts DEF KeyTypes, KeyTimes
  <2>7. ASSUME key_click_cnt > 0 PROVE Quick(key_click_cnt) \in Nat
    BY <1>0, <2>7, QuickTimes DEF KeyTypes
  <2>8. Waits'
    BY <1>0, <1>1, <1>3, <1>6, <2>2, <2>7, KeyConsts DEF Waits, KeyTypes, KeyTimes
  <2> QED
    BY <2>4, <2>5, <2>6, <2>8 DEF KeyInv
<1> QED
  BY <1>4, <1>5, <1>6

LEMMA KeySteps == KeyInv /\ K!Next => KeyInv'
<1> SUFFICES ASSUME KeyInv, K!Next PROVE KeyInv'
  OBVIOUS
<1>0. KeyTypes /\ KeySorts /\ KeyTimes /\ K!Counted /\ Waits
  BY DEF KeyInv
<1>1. CASE K!key_handle_10ms
  BY <1>1, HeldKeeps, ReleasedKeeps DEF K!key_handle_10ms
<1>2. CASE ui < Period /\ K!HeldOn
  <2>1. /\ down' /\ rest' = 0 /\ key_cnt' = 0 /\ key_delay_ms' = 0 /\ key_click_cnt' = 0 /\ open' = 0
        /\ ui' = 0 /\ key_flag' = "none"
    BY <1>2 DEF K!HeldOn, K!Hand
  <2>2. down' \in BOOLEAN /\ serving' \in BOOLEAN /\ key_flag' \in K!Flags
    BY <1>2 DEF K!HeldOn, K!Hand, K!Flags
  <2>3. KeyTypes' /\ KeyTimes' /\ Waits'
    BY <2>1, KeyConsts DEF KeyTypes, KeyTimes, Waits
  <2> QED
    BY <2>1, <2>2, <2>3, FlagsCount DEF KeyInv, KeySorts, K!Counted
<1>3. CASE K!Serve \/ K!Clear
  <2>1. /\ key_flag' = "none" /\ open' = open - K!Clicks[key_flag] /\ ui' \in {0, ui}
        /\ UNCHANGED <<down, rest, key_cnt, key_delay_ms, key_click_cnt>>
    BY <1>3 DEF K!Serve, K!Clear
  <2>2. serving' \in BOOLEAN /\ key_flag' \in K!Flags
    BY <1>3 DEF K!Serve, K!Clear, K!Flags
  <2>3. KeyTypes' /\ KeyTimes' /\ Waits'
    BY <1>0, <2>1, KeyConsts DEF KeyTypes, KeyTimes, Waits
  <2>4. K!Clicks[key_flag] \in 0 .. 5
    BY <1>0, FlagsCount DEF KeySorts
  <2>5. K!Counted'
    BY <1>0, <2>1, <2>4, FlagsCount DEF K!Counted, KeyTypes
  <2> QED
    BY <1>0, <2>1, <2>2, <2>3, <2>5 DEF KeyInv, KeySorts
<1>4. CASE K!Idle
  BY <1>0, <1>4, KeyConsts DEF KeyInv, K!Idle, KeySorts, KeyTypes, KeyTimes, Waits, K!Counted
<1> QED
  BY <1>1, <1>2, <1>3, <1>4 DEF K!Next

LEMMA KeyRests == KeyInv /\ UNCHANGED key => KeyInv'
BY DEF KeyInv, key, KeyTypes, KeySorts, KeyTimes, K!Counted, Waits

LEMMA KeyTyped == KeyInv => K!TypeOK
BY DEF KeyInv, KeyTypes, KeySorts, K!TypeOK
-----------------------------------------------------------------------------
(* The converter's faults.                                                 *)

LEMMA FaultsConsts ==
  /\ OcpLock \in Nat /\ LowCount \in Nat /\ SoftCount \in Nat
  /\ 0 < OcpLock /\ 0 < LowCount /\ 0 < SoftCount
BY FaultsBounds

\* The invariant's counters.
FaultsCounts ==
  /\ adc_protect_cnt \in 0 .. SoftCount - 1 /\ nu6805_ocp_cnt \in 0 .. OcpLock /\ cnt \in 0 .. LowCount - 1
  /\ ocps \in 0 .. OcpLock /\ lows \in 0 .. LowCount /\ highs \in 0 .. SoftCount
  /\ nu6805_ocp_cnt <= ocps /\ cnt <= lows /\ adc_protect_cnt <= highs
  /\ adc_protect_flag => highs = SoftCount

LEMMA FaultsStarts == Init => FaultsInv
<1> SUFFICES ASSUME F!Init PROVE FaultsInv
  BY DEF Init
<1>1. {adc_protect_flag, buckboost_protection_flag, usb_comm_activated} \subseteq BOOLEAN
  BY DEF F!Init
<1>2. port_state \in [F!Ports -> {"NONE", "SINK", "SOURCE"}] /\ port_cc \in [F!Ports -> BOOLEAN]
      /\ faults_mode \in {"CHAGER", "DISCHG"}
  BY DEF F!Init
<1>3. FaultsCounts
  BY FaultsConsts DEF FaultsCounts, F!Init
<1> QED
  BY <1>1, <1>2, <1>3 DEF FaultsInv, FaultsCounts, F!TypeOK

LEMMA FaultsSteps == FaultsInv /\ F!Next => FaultsInv'
<1> SUFFICES ASSUME FaultsInv, F!Next PROVE FaultsInv'
  OBVIOUS
<1>0. FaultsCounts /\ F!TypeOK
  BY DEF FaultsInv, FaultsCounts, F!TypeOK
<1>1. CASE \E p \in F!Ports : F!Detach(p) \/ \E role \in {"SINK", "SOURCE"} : F!Attach(p, role)
  <2>1. port_state' \in [F!Ports -> {"NONE", "SINK", "SOURCE"}] /\ faults_mode' \in {"CHAGER", "DISCHG"}
        /\ port_cc' = port_cc
    BY <1>0, <1>1 DEF F!Detach, F!Attach, F!TypeOK
  <2>2. UNCHANGED <<F!soft, F!rounds, buckboost_protection_flag, usb_comm_activated>>
    BY <1>1 DEF F!Detach, F!Attach
  <2> QED
    BY <1>0, <2>1, <2>2 DEF FaultsInv, FaultsCounts, F!TypeOK, F!soft, F!rounds
<1>2. CASE F!CommLock \/ F!CommUnlock \/ F!buckboost_fault_restore
  <2>1. port_state' \in [F!Ports -> {"NONE", "SINK", "SOURCE"}] /\ faults_mode' \in {"CHAGER", "DISCHG"}
        /\ port_cc' \in [F!Ports -> BOOLEAN]
    BY <1>0, <1>2 DEF F!CommLock, F!CommUnlock, F!buckboost_fault_restore, F!TypeOK
  <2>2. UNCHANGED <<F!soft, F!rounds>>
    BY <1>2 DEF F!CommLock, F!CommUnlock, F!buckboost_fault_restore
  <2>3. {buckboost_protection_flag', usb_comm_activated'} \subseteq BOOLEAN
    BY <1>0, <1>2 DEF F!CommLock, F!CommUnlock, F!buckboost_fault_restore, F!TypeOK
  <2> QED
    BY <1>0, <2>1, <2>2, <2>3 DEF FaultsInv, FaultsCounts, F!TypeOK, F!soft, F!rounds
<1>3. ASSUME NEW h \in BOOLEAN, F!Sample(h) PROVE FaultsInv'
  <2>1. adc_protect_flag' \in BOOLEAN
    BY <1>0, <1>3 DEF F!Sample, F!TypeOK
  <2>2. FaultsCounts'
    BY <1>0, <1>3, FaultsConsts DEF F!Sample, FaultsCounts, F!rounds, F!AtMost
  <2>3. UNCHANGED <<F!ports, buckboost_protection_flag, usb_comm_activated>>
    BY <1>3 DEF F!Sample
  <2> QED
    BY <1>0, <2>1, <2>2, <2>3 DEF FaultsInv, FaultsCounts, F!TypeOK, F!ports
<1>4. ASSUME NEW r, F!buckboost_protection_handle(r) PROVE FaultsInv'
  <2>1. /\ port_cc' \in [F!Ports -> BOOLEAN] /\ faults_mode' \in {"CHAGER", "DISCHG"}
        /\ buckboost_protection_flag' \in BOOLEAN
    <3> DEFINE s == F!Status(r)
    <3>1. F!Lock(s) \/ F!Unlock(s) \/ F!Stays(s)
      BY <1>4 DEF F!buckboost_protection_handle
    <3> HIDE DEF s
    <3>2. CASE F!Lock(s)
      <4>1. \A p \in F!Ports : (port_cc[p] /\ port_state[p] # "NONE") \in BOOLEAN
        OBVIOUS
      <4> QED
        BY <1>0, <3>2, <4>1 DEF F!Lock, F!TypeOK
    <3>3. CASE F!Unlock(s)
      BY <3>3 DEF F!Unlock
    <3>4. CASE F!Stays(s)
      BY <1>0, <3>4 DEF F!Stays, F!TypeOK
    <3> QED
      BY <3>1, <3>2, <3>3, <3>4
  <2>2. FaultsCounts'
    <3>1. F!OcpCount(r) = IF "ocp" \in r THEN F!AtMost(nu6805_ocp_cnt + 1, OcpLock) ELSE 0
      BY DEF F!OcpCount
    <3>2. /\ cnt' = IF "low" \in r /\ cnt + 1 < LowCount THEN cnt + 1 ELSE 0
          /\ lows' = IF "low" \in r THEN F!AtMost(lows + 1, LowCount) ELSE 0
          /\ nu6805_ocp_cnt' \in {0, F!OcpCount(r)}
          /\ ocps' = IF "ocp" \in r THEN F!AtMost(ocps + 1, OcpLock) ELSE 0
          /\ adc_protect_flag' = FALSE
          /\ UNCHANGED <<adc_protect_cnt, highs>>
      BY <1>4 DEF F!buckboost_protection_handle
    <3> QED
      BY <1>0, <3>1, <3>2, FaultsConsts DEF FaultsCounts, F!AtMost
  <2>3. UNCHANGED <<port_state, usb_comm_activated>> /\ adc_protect_flag' = FALSE
    BY <1>4 DEF F!buckboost_protection_handle
  <2> QED
    BY <1>0, <2>1, <2>2, <2>3 DEF FaultsInv, FaultsCounts, F!TypeOK
<1> QED
  BY <1>1, <1>2, <1>3, <1>4 DEF F!Next, F!Round

LEMMA FaultsRests == FaultsInv /\ UNCHANGED faults => FaultsInv'
BY DEF FaultsInv, faults, F!TypeOK

\* What a round locks for has been there long enough.
LEMMA LockHasReason ==
  FaultsInv /\ F!Next /\ ~buckboost_protection_flag /\ buckboost_protection_flag' =>
    seen' = "once" \/ ocps' = OcpLock \/ lows' = LowCount \/ highs = SoftCount
<1> SUFFICES ASSUME FaultsInv, F!Next, ~buckboost_protection_flag, buckboost_protection_flag'
             PROVE  seen' = "once" \/ ocps' = OcpLock \/ lows' = LowCount \/ highs = SoftCount
  OBVIOUS
<1>1. PICK r : F!buckboost_protection_handle(r)
  BY DEF F!Next, F!Detach, F!Attach, F!CommLock, F!CommUnlock, F!buckboost_fault_restore, F!Sample, F!Round
<1>2. F!Status(r) \cap F!Locking # {}
  BY <1>1 DEF F!buckboost_protection_handle, F!Lock, F!Unlock, F!Stays
<1>3. PICK f \in F!Status(r) : f \in {"ocp", "trip", "vbat_uvp", "soft"}
  BY <1>2 DEF F!Locking
<1>4. /\ lows' = IF "low" \in r THEN F!AtMost(lows + 1, LowCount) ELSE 0
      /\ ocps' = IF "ocp" \in r THEN F!AtMost(ocps + 1, OcpLock) ELSE 0
      /\ F!AtOnce(r) => seen' = "once"
  BY <1>1 DEF F!buckboost_protection_handle
<1>5. \/ F!AtOnce(r)
      \/ "ocp" \in r /\ F!OcpCount(r) = OcpLock
      \/ F!LowStands(r)
      \/ adc_protect_flag
  BY <1>3 DEF F!Status, F!AtOnce
<1>6. CASE "ocp" \in r /\ F!OcpCount(r) = OcpLock
  BY <1>4, <1>6, FaultsConsts DEF F!OcpCount, F!AtMost, FaultsInv, F!TypeOK
<1>7. CASE F!LowStands(r)
  BY <1>4, <1>7, FaultsConsts DEF F!LowStands, F!AtMost, FaultsInv, F!TypeOK
<1> QED
  BY <1>4, <1>5, <1>6, <1>7 DEF FaultsInv
-----------------------------------------------------------------------------
(* The protections of the coil and of the cells.                           *)

LEMMA ProtConsts ==
  /\ Live \subseteq P!Checks /\ Suspect \in Nat /\ Consec \in Nat /\ 0 < Consec
  /\ Over \in [P!Checks -> Nat] /\ Reco \in [P!Checks -> Nat]
BY ProtBounds

\* The invariant's part about one check, and the one about the cells.
CheckInv(c) ==
  /\ over_cnt[c] \in 0 .. Over[c] + 1 /\ reco_cnt[c] \in 0 .. Reco[c] + 1
  /\ flag[c] => reco_cnt[c] <= good[c] /\ reco_cnt[c] <= Reco[c]
  /\ ~flag[c] => over_cnt[c] <= bad[c] /\ over_cnt[c] <= Over[c]
Tables ==
  /\ flag \in [P!Checks -> BOOLEAN]
  /\ over_cnt \in [P!Checks -> Nat] /\ reco_cnt \in [P!Checks -> Nat]
  /\ bad \in [P!Checks -> Nat] /\ good \in [P!Checks -> Nat]
CellTypes ==
  /\ consec_cnt \in 0 .. Consec + 1 /\ delay_left \in 0 .. Suspect
  /\ high \in 0 .. Consec /\ wild \in 0 .. Suspect + 1
CellSorts ==
  /\ bat_ov_forbid_flag \in BOOLEAN /\ delay_done \in BOOLEAN /\ forgiven \in BOOLEAN
  /\ prot_mode \in {"shutdown", "work"}
ChecksInv == Tables /\ coil \in BOOLEAN /\ P!NeverUnderFault /\ \A c \in P!Checks : CheckInv(c)
CellsInv == CellTypes /\ CellSorts /\ Doubts

LEMMA ProtIs == ProtInv => ChecksInv /\ CellsInv
BY DEF ProtInv, ProtTypes, P!TypeOK, Runs, ChecksInv, CellsInv, Tables, CheckInv, CellTypes, CellSorts
LEMMA ProtFrom == ChecksInv' /\ CellsInv' => ProtInv'
BY DEF ProtInv, ProtTypes, P!TypeOK, Runs, ChecksInv, CellsInv, Tables, CheckInv, CellTypes, CellSorts

LEMMA ProtStarts == Init => ProtInv
<1> SUFFICES ASSUME P!Init PROVE ProtInv
  BY DEF Init
<1>1. Tables
  BY DEF P!Init, Tables
<1>2. \A c \in P!Checks : CheckInv(c)
  BY ProtConsts DEF P!Init, CheckInv
<1>3. coil \in BOOLEAN /\ P!NeverUnderFault
  BY DEF P!Init, P!NeverUnderFault
<1>4. CellTypes
  BY ProtConsts DEF P!Init, CellTypes
<1>5. CellSorts
  BY DEF P!Init, CellSorts
<1>6. Doubts
  BY ProtConsts DEF P!Init, Doubts
<1> QED
  BY <1>1, <1>2, <1>3, <1>4, <1>5, <1>6
     DEF ProtInv, ProtTypes, P!TypeOK, Runs, Tables, CheckInv, CellTypes, CellSorts

\* What one reading makes of a check, and of its history beside it.
LEMMA OneReading ==
  ASSUME ChecksInv, NEW c \in P!Checks, NEW r
  PROVE  LET d == P!Check(c, r)
             b == IF r # "bad" THEN 0 ELSE P!Least(bad[c], Over[c]) + 1
             g == IF r # "good" THEN 0 ELSE P!Least(good[c], Reco[c]) + 1
         IN /\ d.flag \in BOOLEAN
            /\ d.over \in 0 .. Over[c] + 1 /\ d.reco \in 0 .. Reco[c] + 1 /\ b \in Nat /\ g \in Nat
            /\ d.flag => d.reco <= g /\ d.reco <= Reco[c]
            /\ ~d.flag => d.over <= b /\ d.over <= Over[c]
            /\ ~flag[c] /\ d.flag => b = Over[c] + 1
            /\ flag[c] /\ ~d.flag => g = Reco[c] + 1
<1> DEFINE d == P!Check(c, r)
           b == IF r # "bad" THEN 0 ELSE P!Least(bad[c], Over[c]) + 1
           g == IF r # "good" THEN 0 ELSE P!Least(good[c], Reco[c]) + 1
<1>0. /\ over_cnt[c] \in Nat /\ reco_cnt[c] \in Nat /\ bad[c] \in Nat /\ good[c] \in Nat
      /\ Over[c] \in Nat /\ Reco[c] \in Nat
  BY ProtConsts DEF ChecksInv, Tables
<1>1. CheckInv(c)
  BY DEF ChecksInv
<1>2. b \in Nat /\ g \in Nat
  BY <1>0 DEF P!Least
<1>3. CASE flag[c]
  <2> DEFINE n == IF r = "good" THEN reco_cnt[c] + 1 ELSE 0
  <2>1. d = [flag |-> n <= Reco[c], over |-> IF n > Reco[c] THEN 0 ELSE over_cnt[c], reco |-> n]
    BY <1>3 DEF P!Check
  <2>2. /\ d.flag = (n <= Reco[c]) /\ d.over = (IF n > Reco[c] THEN 0 ELSE over_cnt[c]) /\ d.reco = n
    BY <2>1
  <2> HIDE DEF d
  <2>3. /\ d.over \in 0 .. Over[c] + 1 /\ d.reco \in 0 .. Reco[c] + 1
        /\ n <= Reco[c] => d.reco <= g /\ d.reco <= Reco[c]
        /\ ~(n <= Reco[c]) => d.over <= b /\ d.over <= Over[c]
        /\ ~(n <= Reco[c]) => g = Reco[c] + 1
    BY <1>0, <1>1, <1>3, <2>2 DEF CheckInv, P!Least
  <2>4. d.flag \in BOOLEAN
    BY <2>2
  <2> USE DEF d
  <2> QED
    BY <1>2, <1>3, <2>2, <2>3, <2>4
<1>4. CASE ~flag[c]
  <2> DEFINE n == IF r = "bad" THEN over_cnt[c] + 1 ELSE 0
  <2>1. d = [flag |-> n > Over[c], over |-> n, reco |-> IF n > Over[c] THEN 0 ELSE reco_cnt[c]]
    BY <1>4 DEF P!Check
  <2>2. /\ d.flag = (n > Over[c]) /\ d.over = n /\ d.reco = (IF n > Over[c] THEN 0 ELSE reco_cnt[c])
    BY <2>1
  <2> HIDE DEF d
  <2>3. /\ d.over \in 0 .. Over[c] + 1 /\ d.reco \in 0 .. Reco[c] + 1
        /\ n > Over[c] => d.reco <= g /\ d.reco <= Reco[c]
        /\ ~(n > Over[c]) => d.over <= b /\ d.over <= Over[c]
        /\ n > Over[c] => b = Over[c] + 1
    BY <1>0, <1>1, <1>4, <2>2 DEF CheckInv, P!Least
  <2>4. d.flag \in BOOLEAN
    BY <2>2
  <2> USE DEF d
  <2> QED
    BY <1>2, <1>4, <2>2, <2>3, <2>4
<1> QED
  BY <1>3, <1>4

\* A poll that makes some of the checks.
Trips == \A c \in P!Checks : /\ ~flag[c] /\ flag'[c] => bad'[c] = Over[c] + 1
                             /\ flag[c] /\ ~flag'[c] => good'[c] = Reco[c] + 1
LEMMA PollKeeps ==
  ASSUME ChecksInv, NEW reads, NEW done, DOMAIN done \subseteq P!Checks,
         \A c \in DOMAIN done : done[c] = P!Check(c, reads[c]), P!Poll(done, reads)
  PROVE  ChecksInv' /\ Trips
<1>0. /\ flag' = [c \in P!Checks |-> IF c \in DOMAIN done THEN done[c].flag ELSE flag[c]]
      /\ over_cnt' = [c \in P!Checks |-> IF c \in DOMAIN done THEN done[c].over ELSE over_cnt[c]]
      /\ reco_cnt' = [c \in P!Checks |-> IF c \in DOMAIN done THEN done[c].reco ELSE reco_cnt[c]]
      /\ bad' = [c \in P!Checks |-> IF c \notin DOMAIN done THEN bad[c]
                                    ELSE IF reads[c] # "bad" THEN 0 ELSE P!Least(bad[c], Over[c]) + 1]
      /\ good' = [c \in P!Checks |-> IF c \notin DOMAIN done THEN good[c]
                                     ELSE IF reads[c] # "good" THEN 0 ELSE P!Least(good[c], Reco[c]) + 1]
      /\ coil' = (coil /\ ~\E c \in DOMAIN done \cap P!Stops : done[c].flag)
  BY DEF P!Poll
<1>1. ASSUME NEW c \in P!Checks
      PROVE  /\ flag'[c] \in BOOLEAN
             /\ over_cnt'[c] \in Nat /\ reco_cnt'[c] \in Nat /\ bad'[c] \in Nat /\ good'[c] \in Nat
             /\ CheckInv(c)'
             /\ ~flag[c] /\ flag'[c] => bad'[c] = Over[c] + 1
             /\ flag[c] /\ ~flag'[c] => good'[c] = Reco[c] + 1
  <2>0. Over[c] \in Nat /\ Reco[c] \in Nat
    BY ProtConsts
  <2>1. CASE c \in DOMAIN done
    <3>1. done[c] = P!Check(c, reads[c])
      BY <2>1
    <3>2. /\ flag'[c] = P!Check(c, reads[c]).flag /\ over_cnt'[c] = P!Check(c, reads[c]).over
          /\ reco_cnt'[c] = P!Check(c, reads[c]).reco
          /\ bad'[c] = (IF reads[c] # "bad" THEN 0 ELSE P!Least(bad[c], Over[c]) + 1)
          /\ good'[c] = (IF reads[c] # "good" THEN 0 ELSE P!Least(good[c], Reco[c]) + 1)
      BY <1>0, <2>1, <3>1
    <3>3. flag'[c] \in BOOLEAN
      BY <3>2, OneReading
    <3>4. /\ over_cnt'[c] \in 0 .. Over[c] + 1 /\ reco_cnt'[c] \in 0 .. Reco[c] + 1
          /\ bad'[c] \in Nat /\ good'[c] \in Nat
      BY <3>2, OneReading
    <3>5. /\ flag'[c] => reco_cnt'[c] <= good'[c] /\ reco_cnt'[c] <= Reco[c]
          /\ ~flag'[c] => over_cnt'[c] <= bad'[c] /\ over_cnt'[c] <= Over[c]
          /\ ~flag[c] /\ flag'[c] => bad'[c] = Over[c] + 1
          /\ flag[c] /\ ~flag'[c] => good'[c] = Reco[c] + 1
      BY <3>2, OneReading
    <3>6. over_cnt'[c] \in Nat /\ reco_cnt'[c] \in Nat
      BY <2>0, <3>4
    <3> QED
      BY <3>3, <3>4, <3>5, <3>6 DEF CheckInv
  <2>2. CASE c \notin DOMAIN done
    <3>1. /\ flag'[c] = flag[c] /\ over_cnt'[c] = over_cnt[c] /\ reco_cnt'[c] = reco_cnt[c]
          /\ bad'[c] = bad[c] /\ good'[c] = good[c]
      BY <1>0, <2>2
    <3>2. flag[c] \in BOOLEAN
      BY DEF ChecksInv, Tables
    <3>3. over_cnt[c] \in Nat /\ reco_cnt[c] \in Nat /\ bad[c] \in Nat /\ good[c] \in Nat /\ CheckInv(c)
      BY DEF ChecksInv, Tables
    <3> QED
      BY <3>1, <3>2, <3>3 DEF CheckInv
  <2> QED
    BY <2>1, <2>2
<1>2. Tables'
  BY <1>0, <1>1 DEF Tables
<1>3. coil' \in BOOLEAN
  BY <1>0
<1>4. P!NeverUnderFault'
  BY <1>0 DEF ChecksInv, P!NeverUnderFault, P!Stops
<1> QED
  BY <1>1, <1>2, <1>3, <1>4 DEF ChecksInv, Trips

LEMMA ChecksRest ==
  ASSUME ChecksInv, UNCHANGED <<flag, over_cnt, reco_cnt, bad, good>>,
         coil' \in BOOLEAN /\ P!NeverUnderFault'
  PROVE  ChecksInv' /\ Trips
<1>1. \A c \in P!Checks : CheckInv(c)'
  BY DEF ChecksInv, CheckInv
<1>2. Tables'
  BY DEF ChecksInv, Tables
<1> QED
  BY <1>1, <1>2 DEF ChecksInv, Trips

LEMMA ChecksSteps == ProtInv /\ P!Next => ChecksInv' /\ Trips
<1> SUFFICES ASSUME ProtInv, P!Next PROVE ChecksInv' /\ Trips
  OBVIOUS
<1>0. ChecksInv
  BY ProtIs
<1>1. CASE P!apl_evt_010ms
  <2> DEFINE Made == {"isns_ocp", "vpwr_ovp", "vbus_ovp", "vbus_uvp", "vbus_dpl", "pout_opp"}
  <2>1. PICK reads, done :
          /\ done = [c \in Made |->
                 CASE c = "isns_ocp" -> P!fml_isns_ocp_check(reads[c])
                   [] c = "vpwr_ovp" -> P!fml_vpwr_ovp_check(reads[c])
                   [] c = "vbus_ovp" -> P!fml_vbus_ovp_check(reads[c])
                   [] c = "vbus_uvp" -> P!fml_vbus_uvp_check(reads[c])
                   [] c = "vbus_dpl" -> P!fml_vbus_dpl_check(reads[c])
                   [] c = "pout_opp" -> P!fml_pout_opp_check(reads[c])]
          /\ P!Poll(done, reads)
    BY <1>1 DEF P!apl_evt_010ms
  <2>2. DOMAIN done = Made /\ Made \subseteq P!Checks
    BY <2>1 DEF P!Checks
  <2>3. \A c \in Made : done[c] = P!Check(c, reads[c])
    BY <2>1 DEF P!fml_isns_ocp_check, P!fml_vpwr_ovp_check, P!fml_vbus_ovp_check, P!fml_vbus_uvp_check,
                P!fml_vbus_dpl_check, P!fml_pout_opp_check
  <2> HIDE DEF Made
  <2> QED
    BY <1>0, <2>1, <2>2, <2>3, PollKeeps
<1>2. CASE P!apl_evt_100ms
  <2> DEFINE Made == {"tdie_otp", "tdie_utp"}
             reads == [c \in P!Checks |-> "good"]
             done == [c \in Made |-> IF c = "tdie_otp" THEN P!fml_tdie_otp_check("good")
                                     ELSE P!fml_tdie_utp_check("good")]
  <2>1. P!Poll(done, reads)
    BY <1>2 DEF P!apl_evt_100ms
  <2>2. DOMAIN done = Made /\ Made \subseteq P!Checks
    BY DEF P!Checks
  <2>3. \A c \in Made : done[c] = P!Check(c, reads[c])
    BY DEF P!fml_tdie_otp_check, P!fml_tdie_utp_check, P!Checks
  <2> HIDE DEF Made, reads, done
  <2> QED
    BY <1>0, <2>1, <2>2, <2>3, PollKeeps
<1>3. CASE P!Ping
  <2>1. coil' \in BOOLEAN /\ P!NeverUnderFault'
    BY <1>3 DEF P!Ping, P!NeverUnderFault, P!Stops
  <2> QED
    BY <1>0, <1>3, <2>1, ChecksRest DEF P!Ping
<1>4. CASE P!PortWorks \/ P!key_quad_click_process
  <2>1. coil' \in BOOLEAN /\ P!NeverUnderFault'
    BY <1>0, <1>4 DEF P!PortWorks, P!key_quad_click_process, P!NeverUnderFault, ChecksInv
  <2> QED
    BY <1>0, <1>4, <2>1, ChecksRest DEF P!PortWorks, P!key_quad_click_process
<1> QED
  BY <1>1, <1>2, <1>3, <1>4 DEF P!Next

\* One look at the cells.
LEMMA LookKeeps ==
  ASSUME CellsInv, NEW cell \in P!Cells, P!fml_bat_ov_forbid_check(cell)
  PROVE  /\ CellsInv'
         /\ ~bat_ov_forbid_flag /\ bat_ov_forbid_flag' /\ ~forgiven =>
              high' = Consec /\ (wild' > 0 => wild' > Suspect)
<1>0. CellTypes /\ CellSorts /\ Doubts
  BY DEF CellsInv
<1>1. /\ high' = IF cell = "normal" THEN 0 ELSE P!Least(high, Consec - 1) + 1
      /\ wild' = IF cell # "incredible" THEN 0 ELSE P!Least(wild, Suspect) + 1
      /\ forgiven' = (forgiven /\ (bat_ov_forbid_flag \/ cell # "normal"))
  BY DEF P!fml_bat_ov_forbid_check, P!Seen
<1>2. high' \in 0 .. Consec /\ wild' \in 0 .. Suspect + 1
  BY <1>0, <1>1, ProtConsts DEF CellTypes, P!Least
<1>3. forgiven' \in BOOLEAN
  BY <1>1
<1>4. CASE bat_ov_forbid_flag
  <2>1. prot_mode' = "shutdown" /\ UNCHANGED <<bat_ov_forbid_flag, consec_cnt, delay_left, delay_done>>
    BY <1>4 DEF P!fml_bat_ov_forbid_check
  <2>2. CellTypes'
    BY <1>0, <1>2, <2>1 DEF CellTypes
  <2>3. CellSorts'
    BY <1>0, <1>3, <2>1 DEF CellSorts
  <2> QED
    BY <1>4, <2>1, <2>2, <2>3 DEF CellsInv, Doubts
<1>5. CASE ~bat_ov_forbid_flag
  <2>1. /\ delay_done' = (cell = "incredible" /\ (delay_done \/ delay_left = 1))
        /\ delay_left' = IF cell # "incredible" THEN 0
                         ELSE IF delay_done THEN delay_left
                         ELSE IF delay_left = 0 THEN Suspect ELSE delay_left - 1
    BY <1>5 DEF P!fml_bat_ov_forbid_check, P!Suspicion
  <2>2. delay_left' \in 0 .. Suspect
    BY <1>0, <2>1, ProtConsts DEF CellTypes
  <2>3. delay_done' \in BOOLEAN
    BY <2>1
  <2>7. ~forgiven' => cell = "normal" \/ ~forgiven
    BY <1>1
  <2>8. ~forgiven => /\ consec_cnt <= high /\ consec_cnt < Consec
                     /\ delay_done => wild >= Suspect
                     /\ delay_left > 0 => wild + delay_left > Suspect
    BY <1>0, <1>5 DEF Doubts
  <2>9. /\ delay_done' => cell = "incredible" /\ (delay_done \/ delay_left = 1)
        /\ delay_left' > 0 => cell = "incredible"
    <3>1. delay_done' => cell = "incredible" /\ (delay_done \/ delay_left = 1)
      BY <2>1
    <3>2. cell # "incredible" => ~(delay_left' > 0)
      BY <2>1
    <3> QED
      BY <3>1, <3>2
  <2>10. ASSUME ~forgiven, delay_done' PROVE wild' >= Suspect
    <3>1. wild + 1 >= Suspect
      BY <1>0, <2>8, <2>9, <2>10, ProtConsts DEF CellTypes
    <3> QED
      BY <1>0, <1>1, <2>9, <2>10, <3>1, ProtConsts DEF CellTypes, P!Least
  <2>11. ASSUME ~forgiven, delay_left' > 0 PROVE wild' + delay_left' > Suspect
    <3>1. cell = "incredible" /\ wild' = P!Least(wild, Suspect) + 1
      BY <1>1, <2>9, <2>11
    <3>2. CASE delay_done
      BY <1>0, <2>1, <2>2, <2>8, <2>11, <3>1, <3>2, ProtConsts DEF CellTypes, P!Least
    <3>3. CASE ~delay_done
      BY <1>0, <2>1, <2>2, <2>8, <2>11, <3>1, <3>3, ProtConsts DEF CellTypes, P!Least
    <3> QED
      BY <3>2, <3>3
  <2>4. ~forgiven' => /\ delay_done' => wild' >= Suspect
                      /\ delay_left' > 0 => wild' + delay_left' > Suspect
    BY <2>7, <2>9, <2>10, <2>11
  <2>5. CASE P!Doubted(cell)
    <3>1. cell = "incredible" /\ UNCHANGED <<bat_ov_forbid_flag, consec_cnt, prot_mode>>
      BY <1>5, <2>5 DEF P!fml_bat_ov_forbid_check, P!Doubted
    <3>2. CellTypes'
      BY <1>0, <1>2, <2>2, <3>1 DEF CellTypes
    <3>3. CellSorts'
      BY <1>0, <1>3, <2>3, <3>1 DEF CellSorts
    <3>4. ~bat_ov_forbid_flag' /\ ~forgiven' => consec_cnt' <= high' /\ consec_cnt' < Consec
      <4>1. ~forgiven => consec_cnt <= P!Least(high, Consec - 1) + 1 /\ consec_cnt < Consec
        BY <1>0, <2>8, ProtConsts DEF CellTypes, P!Least
      <4> QED
        BY <1>1, <2>7, <3>1, <4>1
    <3> QED
      BY <1>5, <2>4, <3>1, <3>2, <3>3, <3>4 DEF CellsInv, Doubts
  <2>6. CASE ~P!Doubted(cell)
    <3> DEFINE n == IF cell = "normal" THEN 0 ELSE P!Least(consec_cnt, Consec) + 1
    <3>1. /\ consec_cnt' = n /\ bat_ov_forbid_flag' = (n >= Consec)
          /\ prot_mode' = IF n >= Consec THEN "shutdown" ELSE prot_mode
      BY <1>5, <2>6 DEF P!fml_bat_ov_forbid_check, P!Verdict
    <3>2. n \in 0 .. Consec + 1
      BY <1>0, ProtConsts DEF CellTypes, P!Least
    <3>3. CellTypes'
      BY <1>2, <2>2, <3>1, <3>2 DEF CellTypes
    <3>4. CellSorts'
      <4>1. bat_ov_forbid_flag' \in BOOLEAN
        BY <3>1
      <4>2. prot_mode' \in {"shutdown", "work"}
        BY <1>0, <3>1 DEF CellSorts
      <4> QED
        BY <1>3, <2>3, <4>1, <4>2 DEF CellSorts
    <3>5. ~(n >= Consec) /\ ~forgiven' => n <= high' /\ n < Consec
      <4>1. cell = "normal" => n <= high'
        BY <1>1
      <4>2. ~forgiven => n <= high'
        BY <1>0, <1>1, <2>8, <3>2, ProtConsts DEF CellTypes, P!Least
      <4> QED
        BY <2>7, <3>2, <4>1, <4>2, ProtConsts
    <3>6. n >= Consec /\ ~forgiven => high' = Consec
      BY <1>0, <1>1, <1>5, <3>2, ProtConsts DEF CellTypes, Doubts, P!Least
    <3>7. n >= Consec /\ ~forgiven /\ wild' > 0 => wild' > Suspect
      BY <1>0, <1>1, <1>5, <2>6, ProtConsts DEF CellTypes, Doubts, P!Least, P!Doubted
    <3> HIDE DEF n
    <3> QED
      BY <2>4, <3>1, <3>3, <3>4, <3>5, <3>6, <3>7 DEF CellsInv, Doubts
  <2> QED
    BY <2>5, <2>6
<1> QED
  BY <1>4, <1>5

Earned == ~bat_ov_forbid_flag /\ bat_ov_forbid_flag' /\ ~forgiven =>
            high' = Consec /\ (wild' > 0 => wild' > Suspect)
LEMMA CellsSteps == ProtInv /\ P!Next => CellsInv' /\ Earned
<1> SUFFICES ASSUME ProtInv, P!Next PROVE CellsInv' /\ Earned
  OBVIOUS
<1>0. CellsInv
  BY ProtIs
<1>1. CASE UNCHANGED P!battery
  BY <1>0, <1>1 DEF P!battery, CellsInv, CellTypes, CellSorts, Doubts, Earned
<1>2. ASSUME NEW cell \in P!Cells, P!fml_bat_ov_forbid_check(cell) PROVE CellsInv' /\ Earned
  BY <1>0, <1>2, LookKeeps DEF Earned
<1>3. CASE P!PortWorks
  BY <1>0, <1>3 DEF P!PortWorks, CellsInv, CellTypes, CellSorts, Doubts, Earned
<1>4. CASE P!key_quad_click_process
  <2>1. CellTypes' /\ Doubts' /\ Earned
    BY <1>0, <1>4 DEF P!key_quad_click_process, CellsInv, CellTypes, Doubts, Earned
  <2>2. CellSorts'
    BY <1>0, <1>4 DEF P!key_quad_click_process, CellsInv, CellSorts
  <2> QED
    BY <2>1, <2>2 DEF CellsInv
<1> QED
  BY <1>1, <1>2, <1>3, <1>4 DEF P!Next, P!apl_evt_010ms, P!apl_evt_100ms, P!Ping

LEMMA ProtSteps == ProtInv /\ P!Next => ProtInv'
BY ChecksSteps, CellsSteps, ProtFrom

LEMMA ProtRests == ProtInv /\ UNCHANGED protection => ProtInv'
BY DEF ProtInv, protection, ProtTypes, P!TypeOK, Runs, Doubts, P!NeverUnderFault
-----------------------------------------------------------------------------
(* Fast charging.                                                          *)

LEMMA FastConsts == TopVolt \in Nat /\ NineVolt \in Nat /\ 0 < NineVolt /\ NineVolt <= TopVolt
BY FastBounds

\* The bits, as numbers; the lowest one of a word comes first.
LEMMA Bits ==
  /\ D!SRC_ATTACHED = 0 /\ D!SRC_UNATTCHED = 1 /\ D!ENTER_DCP = 2 /\ D!QC_FIXED = 4 /\ D!QC_PLUSE = 9
  /\ D!SNK_ATTACHED = 14 /\ D!BC12DONE = 16 /\ D!HVDCP_START = 17 /\ D!HVDCP_DONE = 18 /\ D!QC_START = 19
  /\ D!QC_DONE = 20 /\ D!AFC_SCP_OUT = 21 /\ D!HVDCP_FAIL = 22 /\ D!QC12V_DONE = 23
  /\ D!Events = {0, 1, 2, 4, 9, 14, 16, 17, 18, 19, 20, 21, 22, 23}
  /\ D!TimedEvents = {17, 19, 20, 23} /\ D!NoEvent = -1 /\ D!Cont = -1 /\ D!None = -2
BY DEF D!SRC_ATTACHED, D!SRC_UNATTCHED, D!ENTER_DCP, D!QC_FIXED, D!QC_PLUSE, D!SNK_ATTACHED, D!BC12DONE,
       D!HVDCP_START, D!HVDCP_DONE, D!QC_START, D!QC_DONE, D!AFC_SCP_OUT, D!HVDCP_FAIL, D!QC12V_DONE,
       D!Events, D!TimedEvents, D!NoEvent, D!Cont, D!None

LEMMA SetterBits ==
  /\ D!ENTER_DCP # D!QC_FIXED /\ D!ENTER_DCP # D!QC_PLUSE /\ D!ENTER_DCP # D!AFC_SCP_OUT
  /\ D!QC_FIXED # D!QC_PLUSE /\ D!QC_FIXED # D!AFC_SCP_OUT /\ D!QC_PLUSE # D!AFC_SCP_OUT
  /\ {D!SRC_ATTACHED, D!SRC_UNATTCHED, D!SNK_ATTACHED, D!BC12DONE, D!HVDCP_DONE, D!HVDCP_FAIL}
       \cap {D!ENTER_DCP, D!QC_FIXED, D!QC_PLUSE, D!AFC_SCP_OUT} = {}
  /\ D!TimedEvents \cap {D!ENTER_DCP, D!QC_FIXED, D!QC_PLUSE, D!AFC_SCP_OUT} = {}
  /\ D!Cont # D!None
BY Bits

LEMMA LowestBit ==
  ASSUME snap \subseteq D!Events, snap # {}
  PROVE  D!Event \in snap /\ \A e \in snap : D!Event <= e
<1>1. \E e \in snap : \A f \in snap : e <= f
  <2> DEFINE Low == {0, 1, 2, 4, 9, 14, 16}
  <2>1. CASE snap \cap Low # {}
    BY <2>1, Bits
  <2>2. CASE snap \cap Low = {}
    <3>1. CASE snap \cap {17, 18, 19} # {}
      BY <2>2, <3>1, Bits
    <3>2. CASE snap \cap {17, 18, 19} = {}
      <4>1. snap \subseteq {20, 21, 22, 23}
        BY <2>2, <3>2, Bits
      <4>2. CASE 20 \in snap
        BY <4>1, <4>2
      <4>3. CASE 20 \notin snap /\ 21 \in snap
        BY <4>1, <4>3
      <4>4. CASE 20 \notin snap /\ 21 \notin snap
        <5>1. snap \subseteq {22, 23}
          BY <4>1, <4>4
        <5>2. CASE 22 \in snap
          BY <5>1, <5>2
        <5>3. CASE 22 \notin snap
          <6>1. \A f \in snap : f = 23
            BY <5>1, <5>3
          <6> QED
            BY <6>1
        <5> QED
          BY <5>2, <5>3
      <4> QED
        BY <4>2, <4>3, <4>4
    <3> QED
      BY <3>1, <3>2
  <2> QED
    BY <2>1, <2>2
<1> QED
  BY <1>1 DEF D!Event

LEMMA Serving ==
  ASSUME D!TypeOK, NEW e, D!Done(e)
  PROVE  e \in snap /\ half = D!None /\ snap' = snap \ {e} /\ \A f \in snap : e <= f
<1>1. snap # {} /\ half = D!None /\ D!Event = e /\ snap' = snap \ {e}
  BY DEF D!Done, D!Running
<1>2. snap \subseteq D!Events
  BY DEF D!TypeOK
<1> QED
  BY <1>1, <1>2, LowestBit

LEMMA FastStarts == Init => FastInv
<1> SUFFICES ASSUME D!Init PROVE FastInv
  BY DEF Init
<1>1. {pd, prot, is_enter_dpdm_prot} \subseteq BOOLEAN
  BY DEF D!Init
<1>2. sink \in [bc : {"off", "bc12", "hvdcp"}, type : {"none", "sdp", "dcp", "hvdcp", "qc9", "qc12"},
                line : {0, NineVolt, TopVolt}, timer : D!TimedEvents \cup {D!NoEvent}, only : BOOLEAN]
  BY DEF D!Init, D!Idle
<1>3. /\ stat \in D!Levels \cup {D!Cont, D!None} /\ qc_volt \in D!Levels
      /\ half \in D!Levels \cup {D!None} /\ 0 \in D!Levels
  BY FastConsts DEF D!Init, D!Levels
<1>4. scp \in D!Levels \X D!Limits /\ bus \in D!Levels \X D!Limits
  BY <1>3 DEF D!Init, D!Limits
<1> QED
  BY <1>1, <1>2, <1>3, <1>4 DEF FastInv, Halfway, Speakers, Pending, D!Init, D!TypeOK

LEMMA FastLevels == {0, NineVolt, TopVolt} \subseteq D!Levels
BY FastConsts DEF D!Levels
LEMMA PulseInRange == ASSUME qc_volt \in D!Levels, NEW d \in {-1, 1} PROVE D!Pulsed(d) \in D!Levels
BY FastConsts DEF D!Pulsed, D!Levels

LEMMA FastKeepsTypes == D!TypeOK /\ D!Next => D!TypeOK'
<1> SUFFICES ASSUME D!TypeOK, D!Next PROVE D!TypeOK'
  OBVIOUS
<1> USE DEF D!Next, D!Task, D!Take, D!Dispatch, D!SrcAttached, D!SrcUnattched, D!EnterDcp, D!QcFixed, D!QcPluse,
            D!AfcOut, D!AfcSet, D!SnkAttached, D!Bc12Done, D!HvdcpStart, D!HvdcpDone, D!HvdcpFail, D!QcStart,
            D!Qc12vDone, D!QcDone, D!Found, D!Sinks, D!Done, D!Interrupt, D!QcFixedInt, D!QcPulseInt,
            D!QcContinuousInt, D!DcpInt, D!AfcInt, D!ScpInt, D!Decoded, D!Bc12Int, D!HvdcpInt, D!SinkTimer,
            D!Port, D!SourceAttached, D!ChargerAttached, D!SourceGone, D!ChargerGone, D!Contract,
            D!usb_dpdm_select, D!Post, D!srcvars
<1>1. table' \subseteq D!Events
  BY Bits DEF D!TypeOK
<1>2. snap' \subseteq D!Events
  BY DEF D!TypeOK
<1>3. peer' \in {"none"} \cup D!SourcePeers \cup D!Chargers
  BY DEF D!TypeOK
<1>4. pd' \in BOOLEAN
  BY DEF D!TypeOK
<1>5. prot' \in BOOLEAN
  BY DEF D!TypeOK
<1>6. is_enter_dpdm_prot' \in BOOLEAN
  BY DEF D!TypeOK
<1>7. stat' \in D!Levels \cup {D!Cont, D!None}
  BY FastLevels DEF D!TypeOK
<1>8. qc_volt' \in D!Levels
  <2>1. ASSUME NEW d \in {-1, 1} PROVE D!Pulsed(d) \in D!Levels
    BY PulseInRange DEF D!TypeOK
  <2>2. \A s \in D!Levels \cup {D!Cont, D!None} : s \notin {D!Cont, D!None} => s \in D!Levels
    OBVIOUS
  <2> QED
    BY <2>1, <2>2 DEF D!TypeOK
<1>9. scp' \in D!Levels \X D!Limits
  <2>1. scp[1] \in D!Levels /\ scp \in D!Levels \X D!Limits
    BY DEF D!TypeOK
  <2>2. ASSUME NEW v \in {0, NineVolt, TopVolt} PROVE D!AfcAsked(v) \in D!Levels \X D!Limits
    BY FastLevels, <2>1 DEF D!AfcAsked, D!Limits
  <2>3. ASSUME NEW v \in {0, NineVolt}, NEW fcp PROVE D!ScpAsked(v, fcp) \in D!Levels \X D!Limits
    BY FastLevels DEF D!ScpAsked, D!Limits
  <2> QED
    BY <2>1, <2>2, <2>3
<1>10. half' \in D!Levels \cup {D!None}
  BY DEF D!TypeOK
<1>11. bus' \in D!Levels \X D!Limits
  <2>1. \A v \in D!Levels, l \in D!Limits : <<v, l>> \in D!Levels \X D!Limits
    OBVIOUS
  <2>2. scp[2] \in D!Limits /\ "qc" \in D!Limits
    BY DEF D!TypeOK, D!Limits
  <2>3. bus \in D!Levels \X D!Limits /\ qc_volt \in D!Levels
    BY DEF D!TypeOK
  <2>4. \/ bus' = bus
        \/ \E v \in D!Levels, l \in D!Limits : bus' = <<v, l>>
    <3>1. CASE D!QcFixed
      BY <1>8, <2>2, <3>1 DEF D!SetQc
    <3>2. CASE D!QcPluse
      BY <2>2, <2>3, <3>2 DEF D!SetQc
    <3>3. CASE D!AfcSet
      BY <2>2, <3>3 DEF D!TypeOK
    <3>4. CASE D!EnterDcp
      BY <2>2, FastLevels, <3>4
    <3>5. CASE D!SourceGone \/ D!Contract
      BY <2>2, FastLevels, <3>5
    <3>6. CASE ~(D!QcFixed \/ D!QcPluse \/ D!AfcSet \/ D!EnterDcp \/ D!SourceGone \/ D!Contract)
      BY <3>6
    <3> QED
      BY <3>1, <3>2, <3>3, <3>4, <3>5, <3>6
  <2> QED
    BY <2>1, <2>3, <2>4
<1>12. last' \in {"none", "qc", "afc"}
  BY DEF D!TypeOK, D!Asked
<1>13. sink' \in [bc : {"off", "bc12", "hvdcp"}, type : {"none", "sdp", "dcp", "hvdcp", "qc9", "qc12"},
                  line : {0, NineVolt, TopVolt}, timer : D!TimedEvents \cup {D!NoEvent}, only : BOOLEAN]
  BY DEF D!TypeOK, D!TimedEvents
<1> QED
  BY <1>1, <1>2, <1>3, <1>4, <1>5, <1>6, <1>7, <1>8, <1>9, <1>10, <1>11, <1>12, <1>13 DEF D!TypeOK

\* The events that touch the bus; the other steps are nothing to what it shows.
Setters == {D!ENTER_DCP, D!QC_FIXED, D!QC_PLUSE, D!AFC_SCP_OUT}
LEMMA QuietStep ==
  ASSUME FastInv, D!TypeOK', UNCHANGED <<peer, stat, qc_volt, scp, half, bus, last>>, pd' => pd,
         \A e \in Setters : e \in table' <=> e \in table,
         \A e \in Setters : e \in snap' <=> e \in snap,
         snap' \subseteq snap
  PROVE  FastInv'
BY Bits DEF FastInv, Halfway, Speakers, Pending, Setters, Due

LEMMA FastSteps == FastInv /\ D!Next => FastInv'
<1> SUFFICES ASSUME FastInv, D!Next PROVE FastInv'
  OBVIOUS
<1>0. D!TypeOK /\ D!TypeOK' /\ Halfway /\ Speakers /\ Pending
  BY FastKeepsTypes DEF FastInv
<1>1. CASE D!Take
  <2>5. Halfway'
    BY <1>0, <1>1, SetterBits DEF D!Take, D!srcvars, Halfway
  <2>6. Speakers'
    BY <1>0, <1>1, SetterBits DEF D!Take, D!srcvars, Speakers
  <2>7. Pending'
    <3>1. half = D!None /\ snap = {} /\ snap' = table /\ table' = {}
          /\ UNCHANGED <<last, stat, bus, qc_volt, scp, half>>
      BY <1>0, <1>1 DEF D!Take, D!srcvars, Halfway
    <3>2. Due' = Due /\ Due # D!ENTER_DCP /\ (last = "afc" => Due = D!AFC_SCP_OUT)
      BY <3>1, SetterBits DEF Due
    <3>3. CASE Due \in table
      BY <3>1, <3>2, <3>3 DEF Pending
    <3>4. CASE Due \notin table
      BY <1>0, <3>1, <3>2, <3>4 DEF Pending
    <3> QED
      BY <3>3, <3>4
  <2> QED
    BY <1>0, <2>5, <2>6, <2>7 DEF FastInv
<1>2. ASSUME NEW e \in D!Events \ Setters, D!Done(e), UNCHANGED <<peer, stat, qc_volt, scp, half, bus, last>>,
             pd' => pd, table' = table
      PROVE  FastInv'
  <2>1. snap' = snap \ {e}
    BY <1>2 DEF D!Done
  <2> QED
    BY <1>0, <1>2, <2>1, QuietStep
<1>3. ASSUME NEW e \in D!Events \ Setters, table' = table \cup {e}, snap' = snap, pd' = pd,
             UNCHANGED <<peer, stat, qc_volt, scp, half, bus, last>>
      PROVE  FastInv'
  BY <1>0, <1>3, QuietStep
<1>4. CASE D!EnterDcp
  <2>1. D!ENTER_DCP \in snap /\ half = D!None /\ snap' = snap \ {D!ENTER_DCP}
    BY <1>0, <1>4, Serving DEF D!EnterDcp
  <2>5. Halfway'
    BY <1>0, <1>4, <2>1, SetterBits DEF D!EnterDcp, Halfway
  <2>6. Speakers'
    BY <1>0, <1>4, <2>1, SetterBits DEF D!EnterDcp, Speakers
  <2>7. Pending'
    BY <1>0, <1>4, <2>1, SetterBits DEF D!EnterDcp, Pending, Due
  <2> QED
    BY <1>0, <2>5, <2>6, <2>7 DEF FastInv
<1>5. CASE D!QcFixed
  <2>1. D!QC_FIXED \in snap /\ half = D!None /\ snap' = snap \ {D!QC_FIXED} /\ D!ENTER_DCP \notin snap
    BY <1>0, <1>5, Serving, Bits DEF D!QcFixed
  <2>5. Halfway'
    BY <1>0, <1>5, <2>1, SetterBits DEF D!QcFixed, D!SetQc, Halfway
  <2>6. Speakers'
    BY <1>0, <1>5, <2>1, SetterBits DEF D!QcFixed, D!SetQc, Speakers
  <2>7. Pending'
    <3>1. last # "afc" /\ (last = "qc" => ~pd /\ stat # D!None)
      BY <1>0, <2>1 DEF Speakers
    <3>2. CASE last = "qc" /\ stat = D!Cont
      <4>1. bus' = <<qc_volt', "qc">> /\ UNCHANGED <<table, last, stat, half, scp>>
        BY <1>5, <3>1, <3>2 DEF D!QcFixed, D!SetQc
      <4>2. Due = D!QC_PLUSE /\ Due' = D!QC_PLUSE
        BY <3>2, <4>1 DEF Due
      <4> QED
        BY <1>0, <2>1, <3>2, <4>1, <4>2, SetterBits DEF Pending
    <3>3. CASE last = "qc" /\ stat # D!Cont
      <4>1. bus' = <<qc_volt', "qc">> /\ UNCHANGED <<table, last, stat, half, scp>>
        BY <1>5, <3>1, <3>3 DEF D!QcFixed, D!SetQc
      <4>2. Due = D!QC_FIXED /\ Due' = D!QC_FIXED
        BY <3>3, <4>1 DEF Due
      <4> QED
        BY <1>0, <2>1, <3>3, <4>1, <4>2, SetterBits DEF Pending
    <3>4. CASE last = "none"
      BY <1>5, <3>4 DEF D!QcFixed, Pending
    <3> QED
      BY <1>0, <3>1, <3>2, <3>3, <3>4 DEF D!TypeOK
  <2> QED
    BY <1>0, <2>5, <2>6, <2>7 DEF FastInv
<1>6. CASE D!QcPluse
  <2>1. D!QC_PLUSE \in snap /\ half = D!None /\ snap' = snap \ {D!QC_PLUSE} /\ D!ENTER_DCP \notin snap
    BY <1>0, <1>6, Serving, Bits DEF D!QcPluse
  <2>5. Halfway'
    BY <1>0, <1>6, <2>1, SetterBits DEF D!QcPluse, D!SetQc, Halfway
  <2>6. Speakers'
    BY <1>0, <1>6, <2>1, SetterBits DEF D!QcPluse, D!SetQc, Speakers
  <2>7. Pending'
    <3>1. last # "afc" /\ (last = "qc" => ~pd /\ stat # D!None)
      BY <1>0, <2>1 DEF Speakers
    <3>2. CASE last = "qc" /\ stat = D!Cont
      <4>1. bus' = <<qc_volt, "qc">> /\ UNCHANGED <<table, last, stat, half, scp, qc_volt>>
        BY <1>6, <3>1, <3>2 DEF D!QcPluse, D!SetQc
      <4>2. Due = D!QC_PLUSE /\ Due' = D!QC_PLUSE
        BY <3>2, <4>1 DEF Due
      <4> QED
        BY <1>0, <2>1, <3>2, <4>1, <4>2, SetterBits DEF Pending
    <3>3. CASE last = "qc" /\ stat # D!Cont
      <4>1. bus' = bus /\ UNCHANGED <<table, last, stat, half, scp, qc_volt>>
        BY <1>6, <3>3 DEF D!QcPluse
      <4>2. Due = D!QC_FIXED /\ Due' = D!QC_FIXED
        BY <3>3, <4>1 DEF Due
      <4> QED
        BY <1>0, <2>1, <3>3, <4>1, <4>2, SetterBits DEF Pending
    <3>4. CASE last = "none"
      BY <1>6, <3>4 DEF D!QcPluse, Pending
    <3> QED
      BY <1>0, <3>1, <3>2, <3>3, <3>4 DEF D!TypeOK
  <2> QED
    BY <1>0, <2>5, <2>6, <2>7 DEF FastInv
<1>7. CASE D!AfcOut
  <2>1. D!AFC_SCP_OUT \in snap /\ \A e \in snap : D!AFC_SCP_OUT <= e
    <3>1. snap # {} /\ D!Event = D!AFC_SCP_OUT /\ snap \subseteq D!Events
      BY <1>0, <1>7 DEF D!AfcOut, D!Running, D!TypeOK
    <3> QED
      BY <3>1, LowestBit
  <2>5. Halfway'
    BY <1>0, <1>7, <2>1, SetterBits DEF D!AfcOut, Halfway
  <2>6. Speakers'
    BY <1>0, <1>7, <2>1, SetterBits DEF D!AfcOut, Speakers
  <2>7. Pending'
    BY <1>0, <1>7, <2>1, SetterBits DEF D!AfcOut, Pending, Due
  <2> QED
    BY <1>0, <2>5, <2>6, <2>7 DEF FastInv
<1>8. CASE D!AfcSet
  <2>1. D!AFC_SCP_OUT \in snap /\ D!ENTER_DCP \notin snap
    BY <1>8, Bits DEF D!AfcSet, FastInv, Halfway
  <2>2. scp = <<scp[1], scp[2]>>
    BY <1>0 DEF D!TypeOK
  <2>5. Halfway'
    BY <1>0, <1>8, <2>1, <2>2, SetterBits DEF D!AfcSet, Halfway
  <2>6. Speakers'
    BY <1>0, <1>8, <2>1, <2>2, SetterBits DEF D!AfcSet, Speakers
  <2>7. Pending'
    <3>1. /\ half # D!None /\ half' = D!None /\ snap' = snap \ {D!AFC_SCP_OUT} /\ bus' = <<half, scp[2]>>
          /\ UNCHANGED <<table, last, stat, scp, qc_volt>>
      BY <1>8 DEF D!AfcSet
    <3>2. last # "qc"
      BY <1>0, <2>1 DEF Speakers
    <3>3. CASE last = "afc"
      <4>1. Due = D!AFC_SCP_OUT /\ Due' = D!AFC_SCP_OUT
        BY <3>1, <3>3 DEF Due
      <4> QED
        BY <1>0, <2>1, <2>2, <3>1, <3>3, <4>1 DEF Pending
    <3> QED
      BY <1>0, <3>1, <3>2, <3>3 DEF Pending, D!TypeOK
  <2> QED
    BY <1>0, <2>5, <2>6, <2>7 DEF FastInv
<1>9. CASE D!SrcAttached \/ D!SrcUnattched \/ D!SnkAttached
  BY <1>2, <1>9, Bits DEF D!SrcAttached, D!SrcUnattched, D!SnkAttached, Setters
<1>10. CASE D!Bc12Done \/ D!HvdcpStart \/ D!HvdcpDone \/ D!HvdcpFail \/ D!QcStart
  BY <1>2, <1>10, Bits DEF D!Bc12Done, D!HvdcpStart, D!HvdcpDone, D!HvdcpFail, D!QcStart, D!Sinks, D!srcvars,
                           Setters
<1>11. CASE D!Qc12vDone \/ D!QcDone
  <2>1. \E e \in D!Events \ Setters : D!Done(e)
    BY <1>11, Bits DEF D!Qc12vDone, D!QcDone, D!Found, Setters
  <2>2. UNCHANGED <<peer, stat, qc_volt, scp, half, bus, last>> /\ table' = table
    BY <1>11 DEF D!Qc12vDone, D!QcDone, D!Found, D!srcvars
  <2>3. pd' => pd
    BY <1>11 DEF D!Qc12vDone, D!QcDone, D!Found
  <2> QED
    BY <1>2, <2>1, <2>2, <2>3
<1>12. CASE D!Bc12Int \/ D!HvdcpInt \/ D!SinkTimer
  <2>1. \E e \in D!Events \ Setters :
          /\ table' = table \cup {e} /\ snap' = snap /\ pd' = pd
          /\ UNCHANGED <<peer, stat, qc_volt, scp, half, bus, last>>
    BY <1>0, <1>12, Bits DEF D!Bc12Int, D!HvdcpInt, D!SinkTimer, D!Post, D!srcvars, D!TypeOK, Setters
  <2> QED
    BY <1>3, <2>1
<1>13. ASSUME NEW v \in {0, NineVolt, TopVolt}, D!QcFixedInt(v) PROVE FastInv'
  <2>1. v # D!Cont /\ v # D!None
    BY <1>13, FastConsts, Bits
  <2>5. Halfway'
    BY <1>0, <1>13, <2>1, SetterBits DEF D!QcFixedInt, D!Heard, D!Post, D!Asked, Halfway
  <2>6. Speakers'
    BY <1>0, <1>13, <2>1, SetterBits DEF D!QcFixedInt, D!Heard, D!Post, D!Asked, Speakers
  <2>7. Pending'
    BY <1>0, <1>13, <2>1, SetterBits DEF D!QcFixedInt, D!Heard, D!Post, D!Asked, Pending, Due
  <2> QED
    BY <1>0, <2>5, <2>6, <2>7 DEF FastInv
<1>14. ASSUME NEW d, D!QcPulseInt(d) PROVE FastInv'
  <2>5. Halfway'
    BY <1>0, <1>14, SetterBits DEF D!QcPulseInt, D!Heard, D!Post, D!Asked, Halfway
  <2>6. Speakers'
    BY <1>0, <1>14, SetterBits DEF D!QcPulseInt, D!Heard, D!Post, D!Asked, Speakers
  <2>7. Pending'
    BY <1>0, <1>14, SetterBits DEF D!QcPulseInt, D!Heard, D!Post, D!Asked, Pending, Due
  <2> QED
    BY <1>0, <2>5, <2>6, <2>7 DEF FastInv
<1>15. CASE D!QcContinuousInt \/ D!DcpInt
  <2>5. Halfway'
    BY <1>0, <1>15, SetterBits DEF D!QcContinuousInt, D!DcpInt, D!Heard, D!Post, Halfway
  <2>6. Speakers'
    BY <1>0, <1>15, SetterBits DEF D!QcContinuousInt, D!DcpInt, D!Heard, D!Post, Speakers
  <2>7. Pending'
    BY <1>0, <1>15, SetterBits DEF D!QcContinuousInt, D!DcpInt, D!Heard, D!Post, Pending, Due
  <2> QED
    BY <1>0, <2>5, <2>6, <2>7 DEF FastInv
<1>16. ASSUME NEW new, D!Decoded(new) PROVE FastInv'
  <2>5. Halfway'
    BY <1>0, <1>16, SetterBits DEF D!Decoded, D!Heard, D!Post, Halfway
  <2>6. Speakers'
    BY <1>0, <1>16, SetterBits DEF D!Decoded, D!Heard, D!Post, Speakers
  <2>7. Pending'
    BY <1>0, <1>16, SetterBits DEF D!Decoded, D!Heard, D!Post, Pending, Due
  <2> QED
    BY <1>0, <2>5, <2>6, <2>7 DEF FastInv
<1>17. ASSUME NEW p, D!SourceAttached(p) \/ D!ChargerAttached(p) PROVE FastInv'
  <2>5. Halfway'
    BY <1>0, <1>17, SetterBits DEF D!SourceAttached, D!ChargerAttached, D!Free, D!Post, Halfway
  <2>6. Speakers'
    BY <1>0, <1>17, SetterBits DEF D!SourceAttached, D!ChargerAttached, D!Free, D!Post, Speakers
  <2>7. Pending'
    BY <1>0, <1>17, SetterBits DEF D!SourceAttached, D!ChargerAttached, D!Free, D!Post, Pending, Due
  <2> QED
    BY <1>0, <2>5, <2>6, <2>7 DEF FastInv
<1>18. CASE D!SourceGone \/ D!ChargerGone \/ D!Contract
  <2>1. last' = "none" /\ snap' = snap /\ half' = half
    <3>1. peer \in D!Chargers => last = "none"
      BY <1>0 DEF D!Chargers, D!TypeOK, Speakers
    <3> QED
      BY <1>18, <3>1 DEF D!SourceGone, D!ChargerGone, D!Contract
  <2>2. /\ D!QC_FIXED \in table' => D!QC_FIXED \in table
        /\ D!QC_PLUSE \in table' => D!QC_PLUSE \in table
        /\ D!AFC_SCP_OUT \in table' => D!AFC_SCP_OUT \in table
    BY <1>18, SetterBits DEF D!SourceGone, D!ChargerGone, D!Contract, D!Post
  <2>3. peer' \in {"none", peer}
    BY <1>18 DEF D!SourceGone, D!ChargerGone, D!Contract
  <2>5. Halfway' /\ Speakers' /\ Pending'
    BY <1>0, <2>1, <2>2, <2>3 DEF Halfway, Speakers, Pending
  <2> QED
    BY <1>0, <2>5 DEF FastInv
<1> HIDE DEF FastInv
<1>19. CASE D!AfcInt \/ D!ScpInt
  BY <1>16, <1>19 DEF D!AfcInt, D!ScpInt
<1> QED
  BY <1>1, <1>4, <1>5, <1>6, <1>7, <1>8, <1>9, <1>10, <1>11, <1>12, <1>13, <1>14, <1>15, <1>17, <1>18, <1>19
     DEF D!Next, D!Task, D!Dispatch, D!Interrupt, D!Port

LEMMA FastRests == FastInv /\ UNCHANGED fast => FastInv'
<1> SUFFICES ASSUME FastInv, UNCHANGED fast PROVE FastInv'
  OBVIOUS
<1>2. D!TypeOK'
  <2>1. (prot' \in BOOLEAN <=> prot \in BOOLEAN) /\ (pd' \in BOOLEAN <=> pd \in BOOLEAN)
        /\ (is_enter_dpdm_prot' \in BOOLEAN <=> is_enter_dpdm_prot \in BOOLEAN)
    BY DEF fast
  <2> QED
    BY <2>1 DEF FastInv, fast, D!TypeOK
<1>3. Halfway' /\ Speakers' /\ Pending'
  BY DEF FastInv, fast, Halfway, Speakers, Pending, Due
<1> QED
  BY <1>2, <1>3 DEF FastInv

LEMMA FastFollows == FastInv => D!BusFollows
BY DEF FastInv, Pending, D!BusFollows, Due
-----------------------------------------------------------------------------
(* The level of the battery.                                               *)

LEMMA BatteryConsts ==
  /\ Full \in Nat /\ 0 < Full /\ Unit \in Nat /\ 0 < Unit /\ EmptyTicks \in Nat /\ 0 < EmptyTicks
  /\ Slow \in Nat /\ Above \in Nat /\ Fast \in Nat /\ Up \in Nat
  /\ Byte \in Nat /\ 0 < Byte /\ Ends \subseteq 0 .. Full
BY BatteryBounds

\* Division and remainder by what is not zero.
LEMMA Quotients ==
  ASSUME NEW a \in Int, NEW b \in Nat, 0 < b
  PROVE  a \div b \in Int /\ a % b \in Nat
OBVIOUS
LEMMA QuotientAtMost ==
  ASSUME NEW a \in Nat, NEW b \in Nat, 0 < b, NEW k \in Nat, a <= k * b
  PROVE  a \div b \in 0 .. k
<1>1. a \div b \in Int /\ a \div b >= 0
  OBVIOUS
<1>2. a \div b <= k
  OBVIOUS
<1> QED
  BY <1>1, <1>2
LEMMA DivInt ==
  ASSUME NEW a \in Int, NEW b \in Int, b # 0
  PROVE  B!Div(a, b) \in Int
<1> DEFINE x == IF a < 0 THEN -a ELSE a
           y == IF b < 0 THEN -b ELSE b
<1>1. x \in Int /\ y \in Nat /\ 0 < y
  OBVIOUS
<1>2. x \div y \in Int
  <2> HIDE DEF x, y
  <2> QED
    BY <1>1, Quotients
<1>3. B!Div(a, b) \in {x \div y, -(x \div y)}
  BY DEF B!Div
<1> HIDE DEF x, y
<1> QED
  BY <1>2, <1>3

LEMMA TotalIs == B!Total \in Nat /\ 0 < B!Total /\ B!Energies \subseteq Int
BY BatteryConsts DEF B!Total, B!Energies
LEMMA SoeInRange == ASSUME NEW e \in Int PROVE B!Soe(e) \in 0 .. Full
<1>1. CASE e > B!Total \/ e < 0
  BY <1>1, BatteryConsts, TotalIs DEF B!Soe
<1>2. CASE 0 <= e /\ e <= B!Total
  <2>1. Full * e \in Nat /\ Full * e <= Full * B!Total
    BY <1>2, BatteryConsts, TotalIs
  <2>2. (Full * e) \div B!Total \in 0 .. Full
    BY <2>1, BatteryConsts, TotalIs, QuotientAtMost
  <2> QED
    BY <1>2, <2>2, TotalIs DEF B!Soe
<1> QED
  BY <1>1, <1>2, TotalIs

\* Charging aims at most at a full battery, discharging at no less than an empty one.
LEMMA AimChngAtMost ==
  ASSUME B!TypeOK, NEW soe \in 0 .. Full
  PROVE  B!AimChng(soe) \in Int /\ B!AimChng(soe) <= Full
<1>1. chng.ey \in 0 .. Full /\ chng.ui \in 0 .. Full
  BY DEF B!TypeOK
<1>2. CASE soe >= Full \/ chng.ey = Full
  BY <1>2, BatteryConsts DEF B!AimChng
<1>3. CASE ~(soe >= Full \/ chng.ey = Full)
  <2> DEFINE q == B!Div((Full - chng.ui) * (soe - chng.ey), Full - chng.ey)
  <2>1. (Full - chng.ui) * (soe - chng.ey) \in Int /\ Full - chng.ey \in Int /\ Full - chng.ey # 0
    <3>1. Full - chng.ui \in Int /\ soe - chng.ey \in Int /\ Full - chng.ey \in Int
      BY <1>1, BatteryConsts
    <3>2. Full - chng.ey # 0
      BY <1>1, <1>3, BatteryConsts
    <3> QED
      BY <3>1, <3>2
  <2>2. q \in Int
    BY <2>1, DivInt
  <2>3. B!AimChng(soe) = B!Least(Full, (chng.ui + q) % Byte)
    BY <1>3 DEF B!AimChng
  <2> HIDE DEF q
  <2>4. chng.ui + q \in Int
    BY <1>1, <2>2
  <2>5. (chng.ui + q) % Byte \in Nat
    BY <2>4, BatteryConsts, Quotients
  <2> QED
    BY <2>3, <2>5, BatteryConsts DEF B!Least
<1> QED
  BY <1>2, <1>3
LEMMA AimDisgAtLeast ==
  ASSUME B!TypeOK, NEW soe \in 0 .. Full, NEW end \in Ends, NEW e
  PROVE  B!AimDisg(soe, end, e) \in Nat
<1>1. CASE bat_level_ui = Full
  BY <1>1, BatteryConsts DEF B!AimDisg
<1>2. CASE bat_level_ui # Full /\ disg.ey = end
  BY <1>2 DEF B!AimDisg
<1>3. CASE bat_level_ui # Full /\ disg.ey # end
  <2> DEFINE q == B!Div(disg.ui * (soe - end), disg.ey - end)
  <2>1. disg.ui * (soe - end) \in Int /\ disg.ey - end \in Int /\ disg.ey - end # 0
    BY <1>3, BatteryConsts DEF B!TypeOK
  <2>2. q \in Int
    BY <2>1, DivInt
  <2>3. B!AimDisg(soe, end, e) = q % Byte
    BY <1>3 DEF B!AimDisg
  <2> HIDE DEF q
  <2> QED
    BY <2>2, <2>3, BatteryConsts, Quotients
<1> QED
  BY <1>1, <1>2, <1>3

LEMMA MovedKeeps ==
  ASSUME B!TypeOK, NEW aim \in Int, NEW m, B!Moved(aim, m),
         m = "CHNG" => aim <= Full, m = "DISG" => 0 <= aim
  PROVE  bat_level_ui' \in 0 .. Full /\ level_ui_cnt' \in 0 .. Slow
<1> DEFINE n == B!Least(level_ui_cnt + 1, Slow)
<1>1. n \in 0 .. Slow /\ bat_level_ui \in 0 .. Full /\ level_ui_cnt \in 0 .. Slow
  BY BatteryConsts DEF B!TypeOK, B!Least, B!Most
<1>2. level_ui_cnt' \in {0, n}
  BY DEF B!Moved, B!Most
<1>3. \/ bat_level_ui' = bat_level_ui
      \/ aim > bat_level_ui /\ m = "CHNG" /\ bat_level_ui' = bat_level_ui + 1
      \/ aim < bat_level_ui /\ m = "DISG" /\ bat_level_ui' = bat_level_ui + -1
  BY DEF B!Moved
<1>4. level_ui_cnt' \in 0 .. Slow
  <2> HIDE DEF n
  <2> QED
    BY <1>1, <1>2, BatteryConsts
<1>5. bat_level_ui' \in 0 .. Full
  BY <1>1, <1>3, BatteryConsts
<1> QED
  BY <1>4, <1>5

LEMMA BatteryStarts == Init => BatteryInv
<1> SUFFICES ASSUME B!Init PROVE BatteryInv
  BY DEF Init
<1>1. /\ bat_level_ui \in 0 .. Full /\ bat_energy_current = bat_level_ui * Unit
      /\ level_ui_cnt \in 0 .. Slow /\ empty_cnt \in 0 .. EmptyTicks - 1
  BY BatteryConsts DEF B!Init
<1>2. bat_energy_current \in B!Energies /\ 0 \in B!Energies
  <2>1. bat_level_ui * Unit \in Nat /\ bat_level_ui * Unit <= Full * Unit
    BY <1>1, BatteryConsts
  <2> QED
    BY <1>1, <2>1, BatteryConsts DEF B!Energies, B!Total
<1>3. chng \in [ey : 0 .. Full, ui : 0 .. Full]
      /\ disg \in [ey : 0 .. Full, ui : 0 .. Full, energy : B!Energies]
  BY <1>1, <1>2 DEF B!Init
<1>4. sbat \in {"CHNG", "DISG"} /\ vlow \in BOOLEAN /\ empty_flg \in BOOLEAN
  BY DEF B!Init
<1> QED
  BY <1>1, <1>2, <1>3, <1>4 DEF BatteryInv, B!TypeOK, B!Most

LEMMA BatterySteps == BatteryInv /\ B!Next => BatteryInv'
<1> SUFFICES ASSUME BatteryInv, B!Next PROVE BatteryInv'
  OBVIOUS
<1>0. B!TypeOK
  BY DEF BatteryInv
<1>1. ASSUME NEW d \in -1 .. 1, B!TickChng(d) PROVE BatteryInv'
  <2>1. bat_energy_current' \in B!Energies /\ bat_energy_current' \in Int
    BY <1>1, TotalIs DEF B!TickChng, B!Counted
  <2> DEFINE soe == B!Soe(bat_energy_current')
  <2>2. soe \in 0 .. Full
    BY <2>1, SoeInRange
  <2>3. B!Moved(B!AimChng(soe), "CHNG")
    BY <1>1 DEF B!TickChng
  <2>4. bat_level_ui' \in 0 .. Full /\ level_ui_cnt' \in 0 .. Slow
    <3> DEFINE aim == B!AimChng(soe)
    <3>2. "CHNG" # "DISG"
      OBVIOUS
    <3>1. aim \in Int /\ aim <= Full /\ B!Moved(aim, "CHNG")
      BY <1>0, <2>2, <2>3, AimChngAtMost
    <3> HIDE DEF aim
    <3> QED
      BY <1>0, <3>1, <3>2, MovedKeeps
  <2>5. disg' \in [ey : 0 .. Full, ui : 0 .. Full, energy : B!Energies]
    BY <1>0, <1>1, <2>1, <2>2 DEF B!TickChng, B!TypeOK
  <2>6. empty_cnt' \in 0 .. EmptyTicks - 1
    BY <1>1, BatteryConsts DEF B!TickChng
  <2>7. empty_flg' \in BOOLEAN /\ vlow' \in BOOLEAN
    BY <1>0, <1>1 DEF B!TickChng, B!TypeOK
  <2>8. sbat' \in {"CHNG", "DISG"} /\ chng' \in [ey : 0 .. Full, ui : 0 .. Full]
    BY <1>0, <1>1 DEF B!TickChng, B!TypeOK
  <2> QED
    BY <2>1, <2>4, <2>5, <2>6, <2>7, <2>8 DEF BatteryInv, B!TypeOK, B!Most
<1>2. ASSUME NEW d \in -1 .. 1, NEW end \in Ends, B!TickDisg(d, end) PROVE BatteryInv'
  <2>1. bat_energy_current' \in B!Energies /\ bat_energy_current' \in Int
    BY <1>2, TotalIs DEF B!TickDisg, B!Counted
  <2> DEFINE soe == B!Soe(bat_energy_current')
             aim == IF empty_flg' THEN 0 ELSE B!AimDisg(soe, end, bat_energy_current')
  <2>2. soe \in 0 .. Full
    BY <2>1, SoeInRange
  <2>3. B!Moved(aim, "DISG")
    BY <1>2 DEF B!TickDisg
  <2>4. aim \in Nat
    <3>1. B!AimDisg(soe, end, bat_energy_current') \in Nat
      <4> HIDE DEF soe
      <4> QED
        BY <1>0, <2>2, AimDisgAtLeast
    <3> QED
      BY <3>1
  <2>5. bat_level_ui' \in 0 .. Full /\ level_ui_cnt' \in 0 .. Slow
    <3> HIDE DEF aim
    <3> QED
      BY <1>0, <2>3, <2>4, MovedKeeps
  <2>6. chng' \in [ey : 0 .. Full, ui : 0 .. Full]
    BY <1>0, <1>2, <2>2 DEF B!TickDisg, B!TypeOK
  <2>7. empty_cnt' \in 0 .. EmptyTicks - 1
    <3>1. empty_cnt' \in {0, (empty_cnt + 1) % EmptyTicks}
      BY <1>2 DEF B!TickDisg
    <3>2. empty_cnt + 1 \in Nat
      BY <1>0, BatteryConsts DEF B!TypeOK
    <3>3. (empty_cnt + 1) % EmptyTicks \in Nat /\ (empty_cnt + 1) % EmptyTicks < EmptyTicks
      BY <3>2, BatteryConsts
    <3> QED
      BY <3>1, <3>3, BatteryConsts
  <2>8. empty_flg' \in BOOLEAN /\ vlow' \in BOOLEAN
    <3>1. empty_flg' = (empty_flg \/ (vlow /\ empty_cnt + 1 = EmptyTicks))
      BY <1>2 DEF B!TickDisg
    <3>2. vlow' = vlow /\ vlow \in BOOLEAN
      BY <1>0, <1>2 DEF B!TickDisg, B!TypeOK
    <3> QED
      BY <3>1, <3>2
  <2>9. sbat' \in {"CHNG", "DISG"} /\ disg' \in [ey : 0 .. Full, ui : 0 .. Full, energy : B!Energies]
    BY <1>0, <1>2 DEF B!TickDisg, B!TypeOK
  <2> QED
    BY <2>1, <2>5, <2>6, <2>7, <2>8, <2>9 DEF BatteryInv, B!TypeOK, B!Most
<1>3. CASE B!Mode \/ B!Voltage
  <2>1. sbat' \in {"CHNG", "DISG"}
    BY <1>0, <1>3 DEF B!Mode, B!Voltage, B!TypeOK
  <2>2. vlow' \in BOOLEAN /\ empty_flg' \in BOOLEAN
    BY <1>0, <1>3 DEF B!Mode, B!Voltage, B!TypeOK
  <2>3. UNCHANGED <<bat_energy_current, bat_level_ui, level_ui_cnt, empty_cnt, chng, disg>>
    BY <1>3 DEF B!Mode, B!Voltage
  <2> QED
    BY <1>0, <2>1, <2>2, <2>3 DEF BatteryInv, B!TypeOK
<1> QED
  BY <1>1, <1>2, <1>3 DEF B!Next, B!Tick

LEMMA BatteryRests == BatteryInv /\ UNCHANGED battery => BatteryInv'
BY DEF BatteryInv, battery, B!TypeOK
-----------------------------------------------------------------------------
(* The lights.                                                             *)

LEMMA LedConsts ==
  /\ Beats \in Nat /\ 0 < Beats /\ Cycles \in Nat /\ Zero \in Nat /\ Steps \in Nat /\ 0 < Steps
  /\ FlashCal \in Nat /\ FlashIn \in 0 .. FlashCal /\ FlashOut \in 0 .. FlashCal
BY LedBounds

\* The numbers of the invariant, and the rest of it.
LedNumbers ==
  /\ beat \in 0 .. Beats - 1 /\ cycle_count \in 0 .. Cycles + 1 /\ zero_soc_cnt \in 0 .. Zero
  /\ comm_feedback_cnt \in 0 .. FlashCal /\ charge_led_run \in 0 .. Steps /\ button_led_run \in 0 .. Steps
LedModes ==
  /\ mode \in {"off", "charge", "discharge"} /\ soc \in {"empty", "low", "some"}
  /\ shown \in {"forbid", "mini", "fault", "charge", "button", "level", "comm", "feedback"}
LedFlags == {plugged, forbid, fault, mini, led_comm} \subseteq BOOLEAN
LEMMA LedIs == LedInv => LedNumbers /\ LedModes /\ LedFlags
BY DEF LedInv, L!TypeOK, LedNumbers, LedModes, LedFlags
LEMMA LedFrom == LedNumbers' /\ LedModes' /\ LedFlags' => LedInv'
BY DEF LedInv, L!TypeOK, LedNumbers, LedModes, LedFlags

LEMMA LedStarts == Init => LedInv
<1> SUFFICES ASSUME L!Init PROVE LedInv
  BY DEF Init
<1>1. LedNumbers
  BY LedConsts DEF L!Init, LedNumbers
<1>2. LedModes
  BY DEF L!Init, LedModes
<1>3. LedFlags
  BY DEF L!Init, LedFlags
<1> QED
  BY <1>1, <1>2, <1>3 DEF LedInv, L!TypeOK, LedNumbers, LedModes, LedFlags

\* What a press leaves.
Presses == [mini : BOOLEAN, comm : BOOLEAN, flashes : 0 .. FlashCal, forbid : BOOLEAN, run : 0 .. Steps]
LEMMA PressLeaves == ASSUME LedInv, NEW k, NEW p \in L!Pressed(k) PROVE p \in Presses
<1>1. L!Now \in Presses
  <2>1. mini \in BOOLEAN /\ led_comm \in BOOLEAN /\ forbid \in BOOLEAN
    BY LedIs DEF LedFlags
  <2>2. comm_feedback_cnt \in 0 .. FlashCal /\ button_led_run \in 0 .. Steps
    BY LedIs DEF LedNumbers
  <2> QED
    BY <2>1, <2>2 DEF L!Now, Presses
<1> DEFINE now == L!Now
<1>2. now \in Presses
  BY <1>1
<1>3. L!Single = [[now EXCEPT !.mini = FALSE] EXCEPT !.run = IF plugged \/ now.run > 0 THEN now.run ELSE 1]
  BY DEF L!Single, L!Now
<1>4. L!Double \in {now, [now EXCEPT !.mini = ~now.mini]}
  BY DEF L!Double
<1>5. L!Triple \subseteq {[[now EXCEPT !.comm = FALSE] EXCEPT !.flashes = FlashOut], now,
                          [[now EXCEPT !.comm = TRUE] EXCEPT !.flashes = FlashIn]}
  BY DEF L!Triple
<1>6. L!Quad \subseteq {now, [now EXCEPT !.forbid = FALSE]} /\ L!Quint = [now EXCEPT !.flashes = FlashCal]
  BY DEF L!Quad, L!Quint
<1> HIDE DEF now
<1>7. p \in {L!Single, L!Double, L!Quint, now} \cup L!Triple \cup L!Quad
  BY DEF L!Pressed, now
<1>8. now.mini \in BOOLEAN /\ now.run \in 0 .. Steps /\ 1 \in 0 .. Steps /\ FlashCal \in 0 .. FlashCal
  BY <1>2, LedConsts DEF Presses
<1>9. L!Single \in Presses
  <2>1. [now EXCEPT !.mini = FALSE] \in Presses
    BY <1>2 DEF Presses
  <2>2. (IF plugged \/ now.run > 0 THEN now.run ELSE 1) \in 0 .. Steps
    BY <1>8
  <2> QED
    BY <1>3, <2>1, <2>2 DEF Presses
<1>10. L!Double \in Presses
  BY <1>2, <1>4, <1>8 DEF Presses
<1>11. \A x \in Presses, n \in 0 .. FlashCal : [x EXCEPT !.flashes = n] \in Presses
  BY DEF Presses
<1>12. \A c \in BOOLEAN : [now EXCEPT !.comm = c] \in Presses /\ [now EXCEPT !.forbid = c] \in Presses
  BY <1>2 DEF Presses
<1>13. L!Triple \subseteq Presses
  BY <1>2, <1>5, <1>11, <1>12, LedConsts
<1>14. L!Quad \subseteq Presses /\ L!Quint \in Presses
  BY <1>2, <1>6, <1>8, <1>11, <1>12
<1> QED
  BY <1>2, <1>7, <1>9, <1>10, <1>13, <1>14

LEMMA UpdateKeeps ==
  ASSUME LedInv, NEW p \in Presses, L!update(p)
  PROVE  LedInv'
<1>0. LedNumbers /\ LedModes /\ LedFlags
  BY LedIs
<1>1. p.run \in 0 .. Steps /\ p.flashes \in 0 .. FlashCal
  BY DEF Presses
<1>2. p.mini \in BOOLEAN /\ p.comm \in BOOLEAN /\ p.forbid \in BOOLEAN
  BY DEF Presses
<1>3. /\ led_comm' = p.comm /\ forbid' = p.forbid /\ UNCHANGED <<soc, plugged, fault>>
      /\ comm_feedback_cnt' = IF p.flashes > 0 THEN p.flashes - 1 ELSE 0
  BY DEF L!update
<1>4. comm_feedback_cnt' \in 0 .. FlashCal
  BY <1>1, <1>3, LedConsts
<1>5. CASE p.flashes > 0 \/ p.comm
  <2>1. /\ shown' \in {"feedback", "comm"} /\ mini' = p.mini /\ button_led_run' = p.run
        /\ UNCHANGED <<mode, zero_soc_cnt, beat, cycle_count, charge_led_run>>
    BY <1>5 DEF L!update
  <2>2. LedNumbers'
    BY <1>0, <1>1, <1>4, <2>1 DEF LedNumbers
  <2>3. LedModes'
    BY <1>0, <1>3, <2>1 DEF LedModes
  <2>4. LedFlags'
    BY <1>0, <1>2, <1>3, <2>1 DEF LedFlags
  <2> QED
    BY <2>2, <2>3, <2>4, LedFrom
<1>6. CASE ~(p.flashes > 0 \/ p.comm)
  <2>1. L!Empty /\ L!update_led(p)
    BY <1>6 DEF L!update
  <2>2. zero_soc_cnt' \in 0 .. Zero
    BY <1>0, <2>1, LedConsts DEF L!Empty, LedNumbers
  <2>3. mode' \in {"off", "charge", "discharge"}
    BY <1>0, <2>1 DEF L!Empty, LedModes
  <2>4. shown' \in {"forbid", "mini", "fault", "charge", "button", "level"}
    BY <2>1 DEF L!update_led, L!Display
  <2>5. beat \in 0 .. Beats - 1 /\ cycle_count \in 0 .. Cycles + 1 /\ charge_led_run \in 0 .. Steps
    BY <1>0 DEF LedNumbers
  <2> DEFINE Lit == /\ beat' \in 0 .. Beats - 1 /\ cycle_count' \in 0 .. Cycles + 1
                    /\ charge_led_run' \in 0 .. Steps /\ button_led_run' \in 0 .. Steps
  <2>6. ASSUME shown' = "mini" PROVE Lit /\ mini' \in BOOLEAN
    <3>1. L!Mini(p)
      BY <2>1, <2>6 DEF L!update_led
    <3>2. (beat + 1) % Beats \in 0 .. Beats - 1
      BY <2>5, LedConsts
    <3>3. mini' \in BOOLEAN
      BY <3>1 DEF L!Mini
    <3>4. Lit
      BY <1>1, <2>5, <3>1, <3>2, LedConsts DEF L!Mini
    <3> QED
      BY <3>3, <3>4
  <2>7. ASSUME shown' = "charge" PROVE Lit /\ mini' \in BOOLEAN
    <3>1. L!Charging(p) /\ mini' = mini
      BY <2>1, <2>7 DEF L!update_led
    <3>2. (charge_led_run + 1) % (Steps + 1) \in 0 .. Steps
      <4>1. charge_led_run + 1 \in Nat /\ Steps + 1 \in Nat /\ 0 < Steps + 1
        BY <2>5, LedConsts
      <4>2. \A a, b \in Nat : 0 < b => a % b \in Nat /\ a % b < b
        OBVIOUS
      <4> QED
        BY <4>1, <4>2, LedConsts
    <3>3. mini' \in BOOLEAN
      BY <1>0, <3>1 DEF LedFlags
    <3>4. Lit
      BY <2>5, <3>1, <3>2, LedConsts DEF L!Charging
    <3> QED
      BY <3>3, <3>4
  <2>8. ASSUME shown' = "button" PROVE Lit /\ mini' \in BOOLEAN
    <3>1. L!Button(p) /\ mini' = p.mini
      BY <2>1, <2>8 DEF L!update_led
    <3>2. (p.run + 1) % (Steps + 1) \in 0 .. Steps
      <4>1. p.run + 1 \in Nat /\ Steps + 1 \in Nat /\ 0 < Steps + 1
        BY <1>1, LedConsts
      <4>2. \A a, b \in Nat : 0 < b => a % b \in Nat /\ a % b < b
        OBVIOUS
      <4> QED
        BY <4>1, <4>2, LedConsts
    <3>3. button_led_run' \in {0, p.run, (p.run + 1) % (Steps + 1)} /\ UNCHANGED L!Lights
      BY <3>1 DEF L!Button
    <3>4. Lit
      BY <1>1, <2>5, <3>2, <3>3, LedConsts DEF L!Lights
    <3> QED
      BY <1>2, <3>1, <3>4
  <2>9. ASSUME shown' = "level" PROVE Lit /\ mini' \in BOOLEAN
    <3>1. L!Level(p) /\ mini' = p.mini
      BY <2>1, <2>9 DEF L!update_led
    <3>2. Lit
      BY <1>1, <2>5, <3>1, LedConsts DEF L!Level
    <3> QED
      BY <1>2, <3>1, <3>2
  <2>10. ASSUME shown' \in {"forbid", "fault"} PROVE Lit /\ mini' \in BOOLEAN
    <3>1. mini' = p.mini /\ button_led_run' = p.run /\ UNCHANGED L!Lights
      BY <2>1, <2>10 DEF L!update_led
    <3>2. Lit
      BY <1>1, <2>5, <3>1 DEF L!Lights
    <3> QED
      BY <1>2, <3>1, <3>2
  <2>11. Lit /\ mini' \in BOOLEAN
    BY <2>4, <2>6, <2>7, <2>8, <2>9, <2>10
  <2>12. LedNumbers'
    BY <1>4, <2>2, <2>11 DEF LedNumbers
  <2>13. LedModes'
    BY <1>0, <1>3, <2>3, <2>4 DEF LedModes
  <2>14. LedFlags'
    BY <1>0, <1>2, <1>3, <2>11 DEF LedFlags
  <2> QED
    BY <2>12, <2>13, <2>14, LedFrom
<1> QED
  BY <1>5, <1>6

LEMMA LedSteps == LedInv /\ L!Next => LedInv'
<1> SUFFICES ASSUME LedInv, L!Next PROVE LedInv'
  OBVIOUS
<1>0. LedNumbers /\ LedModes /\ LedFlags
  BY LedIs
<1>1. CASE L!Update
  BY <1>1, PressLeaves, UpdateKeeps DEF L!Update, L!ui_update
<1>2. ASSUME NEW m \in {"off", "charge", "discharge"}, L!Work(m, m = "charge") PROVE LedInv'
  <2>1. mode' = m /\ plugged' \in BOOLEAN /\ UNCHANGED <<soc, forbid, fault>> /\ UNCHANGED L!Others
    BY <1>2 DEF L!Work
  <2>2. charge_led_run' \in {1, charge_led_run}
    BY <1>2 DEF L!Work
  <2>3. LedNumbers'
    BY <1>0, <2>1, <2>2, LedConsts DEF LedNumbers, L!Others
  <2>4. LedModes'
    BY <1>0, <2>1 DEF LedModes, L!Others
  <2>5. LedFlags'
    BY <1>0, <2>1 DEF LedFlags, L!Others
  <2> QED
    BY <2>3, <2>4, <2>5, LedFrom
<1>3. ASSUME NEW s \in {"empty", "low", "some"}, L!Drain(s) PROVE LedInv'
  <2>1. soc' = s /\ UNCHANGED <<mode, plugged, forbid, fault, charge_led_run>> /\ UNCHANGED L!Others
    BY <1>3 DEF L!Drain
  <2>2. LedNumbers' /\ LedModes' /\ LedFlags'
    BY <1>0, <2>1 DEF LedNumbers, LedModes, LedFlags, L!Others
  <2> QED
    BY <2>2, LedFrom
<1>4. ASSUME NEW f \in BOOLEAN, NEW t \in BOOLEAN, L!Trip(f, t) PROVE LedInv'
  <2>1. forbid' = f /\ fault' = t /\ UNCHANGED <<mode, soc, plugged, charge_led_run>> /\ UNCHANGED L!Others
    BY <1>4 DEF L!Trip
  <2>2. LedNumbers' /\ LedModes'
    BY <1>0, <2>1 DEF LedNumbers, LedModes, L!Others
  <2>3. LedFlags'
    BY <1>0, <2>1 DEF LedFlags, L!Others
  <2> QED
    BY <2>2, <2>3, LedFrom
<1> QED
  BY <1>1, <1>2, <1>3, <1>4 DEF L!Next

LEMMA LedRests == LedInv /\ UNCHANGED led => LedInv'
BY LedIs, LedFrom DEF LedInv, led, L!TypeOK, LedNumbers, LedModes, LedFlags
-----------------------------------------------------------------------------
(* Together.                                                               *)

\* A step of the whole is, for each component, a step of its own or none.
LEMMA StepParts ==
  [Next]_vars =>
    /\ S!Next \/ UNCHANGED sleep
    /\ D!Next \/ UNCHANGED fast
    /\ R!Next \/ UNCHANGED regulator
    /\ C!Next \/ UNCHANGED charger
    /\ F!Next \/ UNCHANGED faults
    /\ B!Next \/ UNCHANGED battery
    /\ P!Next \/ UNCHANGED protection
    /\ L!Next \/ UNCHANGED led
    /\ K!Next \/ UNCHANGED key
<1> USE DEF OnlySleep, OnlyFast, OnlyRegulator, OnlyCharger, OnlyFaults, OnlyBattery, OnlyProtection, OnlyLed,
            OnlyKey
<1>1. Sleep => S!Next /\ UNCHANGED <<fast, regulator, charger, faults, battery, protection, led, key>>
  BY DEF Sleep
<1>2. FastCharge => D!Next /\ UNCHANGED <<sleep, regulator, charger, faults, battery, protection, led, key>>
  BY DEF FastCharge
<1>3. Regulator => R!Next /\ UNCHANGED <<sleep, fast, charger, faults, battery, protection, led, key>>
  BY DEF Regulator
<1>4. Charger => C!Next /\ UNCHANGED <<sleep, fast, regulator, faults, battery, protection, led, key>>
  BY DEF Charger
<1>5. Faults => F!Next /\ UNCHANGED <<sleep, fast, regulator, charger, battery, protection, led, key>>
  BY DEF Faults
<1>6. Battery => B!Next /\ UNCHANGED <<sleep, fast, regulator, charger, faults, protection, led, key>>
  BY DEF Battery
<1>7. Protection => P!Next /\ UNCHANGED <<sleep, fast, regulator, charger, faults, battery, led, key>>
  BY DEF Protection
<1>8. Lights => L!Next /\ UNCHANGED <<sleep, fast, regulator, charger, faults, battery, protection, key>>
  BY DEF Lights
<1>9. Button => K!Next /\ UNCHANGED <<sleep, fast, regulator, charger, faults, battery, protection, led>>
  BY DEF Button
<1>10. UNCHANGED vars =>
         UNCHANGED <<sleep, fast, regulator, charger, faults, battery, protection, led, key>>
  BY DEF vars
<1> QED
  BY <1>1, <1>2, <1>3, <1>4, <1>5, <1>6, <1>7, <1>8, <1>9, <1>10 DEF Next

\* Every component's invariant, in every state.
THEOREM Inductive == Spec => []Inv
<1>1. Init => Inv
  BY SleepStarts, FastStarts, RegulatorStarts, ChargerStarts, FaultsStarts, BatteryStarts, ProtStarts,
     LedStarts, KeyStarts DEF Inv
<1>2. Inv /\ [Next]_vars => Inv'
  <2> SUFFICES ASSUME Inv, [Next]_vars PROVE Inv'
    OBVIOUS
  <2>1. SleepInv' /\ FastInv' /\ RegulatorInv'
    BY StepParts, SleepSteps, SleepRests, FastSteps, FastRests, RegulatorSteps, RegulatorRests DEF Inv
  <2>2. ChargerInv' /\ FaultsInv' /\ BatteryInv'
    BY StepParts, ChargerSteps, ChargerRests, FaultsSteps, FaultsRests, BatterySteps, BatteryRests DEF Inv
  <2>3. ProtInv' /\ LedInv' /\ KeyInv'
    BY StepParts, ProtSteps, ProtRests, LedSteps, LedRests, KeySteps, KeyRests DEF Inv
  <2> QED
    BY <2>1, <2>2, <2>3 DEF Inv
<1> QED
  BY <1>1, <1>2, PTL DEF Spec

\* Every component keeps to its types: no counter leaves its range, no ramp and no
\* level of the battery runs past its end (sleep.c, dpdm.c, buckboost.c, bat.c,
\* prot.c, led.c).
THEOREM TypesKept == Spec => []Typed
<1>1. Inv => Typed
  BY KeyTyped DEF Inv, Typed, SleepInv, FastInv, RegulatorInv, ChargerInv, FaultsInv, BatteryInv, ProtInv,
                  ProtTypes, LedInv
<1> QED
  BY <1>1, Inductive, PTL

\* A voltage reported as reached is the one asked for last, and the charging current
\* is within the limits asked for (buckboost.c).
THEOREM RegulatedAlways == Spec => []Regulated
<1>1. Inv => Regulated
  BY RegulatorDelivers DEF Inv, Regulated, ChargerInv
<1> QED
  BY <1>1, Inductive, PTL

\* However interrupts fall between the reads of the fast charging task, the bus
\* comes to what the device asked for last (dpdm.c, usb_qc.c, afc_scp.c).
THEOREM BusFollowsAlways == Spec => []BusFollows
<1>1. Inv => BusFollows
  BY FastFollows DEF Inv, BusFollows
<1> QED
  BY <1>1, Inductive, PTL

\* The coil is off under every protection that stops it (prot.c), and no click of the
\* key is lost or told twice (led.c).
THEOREM KeptAlways == Spec => []Kept
<1>1. Inv => Kept
  BY DEF Inv, Kept, ProtInv, KeyInv
<1> QED
  BY <1>1, Inductive, PTL

\* The timer wakes the pack only for something, and no protection acts on less than
\* a whole run of readings (sleep.c, buckboost.c, prot.c).
THEOREM ActsForAReasonAlways == Spec => ActsForAReason
<1>1. Inv /\ [Next]_vars =>
        [~awake /\ awake' /\ why' = "timer" => IF light THEN missed + 1 >= Misses ELSE partner # "none"]_(S!vars)
  BY StepParts, WakeHasReason DEF Inv, sleep
<1>2. Inv /\ [Next]_vars =>
        [~buckboost_protection_flag /\ buckboost_protection_flag' =>
           seen' = "once" \/ ocps' = OcpLock \/ lows' = LowCount \/ highs = SoftCount]_(F!vars)
  BY StepParts, LockHasReason DEF Inv, faults
<1>3. Inv /\ [Next]_vars =>
        [\A c \in P!Checks : /\ ~flag[c] /\ flag'[c] => bad'[c] = Over[c] + 1
                             /\ flag[c] /\ ~flag'[c] => good'[c] = Reco[c] + 1]_(P!vars)
  BY StepParts, ChecksSteps DEF Inv, protection, Trips
<1>4. Inv /\ [Next]_vars =>
        [~bat_ov_forbid_flag /\ bat_ov_forbid_flag' /\ ~forgiven =>
           high' = Consec /\ (wild' > 0 => wild' > Suspect)]_(P!vars)
  BY StepParts, CellsSteps DEF Inv, protection, Earned
<1> QED
  BY <1>1, <1>2, <1>3, <1>4, Inductive, PTL
     DEF Spec, ActsForAReason, S!TimerWakesForAReason, F!LocksForAReason, P!Debounced, P!Believed
=============================================================================
