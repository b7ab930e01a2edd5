------------------------------- MODULE Power -------------------------------
(***************************************************************************)
(* The small components of the power side together: sleep, fast charging,  *)
(* the converter (its voltage, its charging current, its faults), the      *)
(* battery's level, the wireless protection, lights and key.  As modelled  *)
(* they share nothing, so in each behaviour one of them ("which") moves    *)
(* and the others rest where they begin.                                   *)
(***************************************************************************)
EXTENDS Integers, FiniteSets

CONSTANTS
  Misses,                                            \* of Sleep
  TopVolt, NineVolt,                                 \* of FastCharge
  Volts, Drops,                                      \* of Regulator
  ChargeLimits,                                      \* of Charger
  OcpLock, LowCount, SoftCount,                      \* of Faults
  Full, Unit, Byte, Slow, Above, Fast, Up, EmptyTicks, Ends,   \* of Battery
  Live, Suspect, Consec, Over, Reco,                 \* of Prot
  Beats, Cycles, Zero, Steps, FlashIn, FlashOut, FlashCal,     \* of Led
  ClickMin, ClickMax, Gap, Long, Restart, Period     \* of Key

VARIABLES
  which,
  awake, partner, light, dead, sleep_comm, sleep_cc, tcpc, tmr, rd0_cnt, light0_cnt, why, missed,
  table, snap, peer, pd, prot, is_enter_dpdm_prot, stat, qc_volt, scp, half, bus, last, sink,
  posted, batch, timer, disg_timer, asked, regulator_state, ir_drop, cnt_delay, out, dischg, late,
  charger_mode, ibat_limit, ibus_limit, ibus_value, ibus_start, chip,
  port_state, port_cc, faults_mode, adc_protect_cnt, adc_protect_flag, nu6805_ocp_cnt, cnt,
  buckboost_protection_flag, usb_comm_activated, ocps, lows, highs, seen, turn,
  sbat, vlow, bat_energy_current, bat_level_ui, level_ui_cnt, empty_cnt, empty_flg, chng, disg,
  flag, over_cnt, reco_cnt, coil, bat_ov_forbid_flag, consec_cnt, delay_left, delay_done,
  prot_mode, bad, good, high, wild, forgiven,
  mode, soc, plugged, forbid, fault, mini, beat, cycle_count, zero_soc_cnt, led_comm,
  comm_feedback_cnt, charge_led_run, button_led_run, shown,
  down, rest, key_cnt, key_delay_ms, key_click_cnt, key_flag, ui, serving, open

S == INSTANCE Sleep WITH comm <- sleep_comm, cc <- sleep_cc
D == INSTANCE FastCharge WITH Top <- TopVolt, Nine <- NineVolt, feeds <- (which = "device")
R == INSTANCE Regulator WITH disg <- disg_timer
C == INSTANCE Charger WITH Limits <- ChargeLimits, woke_mode <- charger_mode
F == INSTANCE Faults WITH woke_mode <- faults_mode, cc <- port_cc
B == INSTANCE Battery WITH Top <- Full
P == INSTANCE Prot WITH woke_mode <- prot_mode
L == INSTANCE Led WITH comm <- led_comm
K == INSTANCE Key

\* What the code's values have in common, by component.
ASSUME SleepBounds == Misses \in Nat \ {0}
ASSUME FastBounds == TopVolt \in Nat /\ NineVolt \in 1 .. TopVolt
ASSUME RegulatorBounds == "5V" \in Volts /\ 0 \in Drops
ASSUME ChargerBounds == ChargeLimits \subseteq (0 .. 100) \X (0 .. 100)
ASSUME FaultsBounds == {OcpLock, LowCount, SoftCount} \subseteq Nat \ {0}
ASSUME BatteryBounds == /\ {Full, Unit, EmptyTicks} \subseteq Nat \ {0} /\ {Slow, Above, Fast, Up} \subseteq Nat
                        /\ Byte \in Nat /\ Full < Byte /\ Ends \subseteq 0 .. Full
ASSUME ProtBounds == /\ Live \subseteq P!Checks /\ Suspect \in Nat /\ Consec \in Nat \ {0}
                     /\ {Over, Reco} \subseteq [P!Checks -> Nat]
ASSUME LedBounds == /\ {Beats, Cycles, Zero, Steps, FlashCal} \subseteq Nat \ {0}
                    /\ {FlashIn, FlashOut} \subseteq 0 .. FlashCal
\* As tight as it is in the code: five quick clicks, of 3 ticks and as many between
\* them, take one tick more than the 25 between two looks of the UI task.
ASSUME KeyBounds == /\ {ClickMin, ClickMax, Gap, Long, Restart, Period} \subseteq Nat \ {0}
                    /\ 2 <= Gap /\ Period <= Gap /\ Period < 8 * ClickMin + 2
                    /\ Gap + Period <= Long /\ Long < Restart

sleep == <<awake, partner, light, dead, sleep_comm, sleep_cc, tcpc, tmr, rd0_cnt, light0_cnt, why, missed>>
fast == <<table, snap, peer, pd, prot, is_enter_dpdm_prot, stat, qc_volt, scp, half, bus, last, sink>>
regulator == <<posted, batch, timer, disg_timer, asked, regulator_state, ir_drop, cnt_delay, out, dischg, late>>
charger == <<charger_mode, ibat_limit, ibus_limit, ibus_value, ibus_start, chip>>
faults == <<port_state, port_cc, faults_mode, adc_protect_cnt, adc_protect_flag, nu6805_ocp_cnt, cnt,
            buckboost_protection_flag, usb_comm_activated, ocps, lows, highs, seen, turn>>
battery == <<sbat, vlow, bat_energy_current, bat_level_ui, level_ui_cnt, empty_cnt, empty_flg, chng, disg>>
protection == <<flag, over_cnt, reco_cnt, coil, bat_ov_forbid_flag, consec_cnt, delay_left, delay_done,
                prot_mode, bad, good, high, wild, forgiven>>
led == <<mode, soc, plugged, forbid, fault, mini, beat, cycle_count, zero_soc_cnt, led_comm,
         comm_feedback_cnt, charge_led_run, button_led_run, shown>>
key == <<down, rest, key_cnt, key_delay_ms, key_click_cnt, key_flag, ui, serving, open>>
vars == <<which, sleep, fast, regulator, charger, faults, battery, protection, led, key>>

-----------------------------------------------------------------------------
Init ==
  /\ which \in {"sleep", "device", "charger on the port", "regulator", "charger", "faults",
                "battery", "protection", "led", "key"}
  /\ S!Init /\ D!Init /\ R!Init /\ C!Init /\ F!Init /\ B!Init /\ P!Init /\ L!Init /\ K!Init
  /\ which # "battery" => sbat = "DISG" /\ bat_level_ui = 0

OnlySleep == UNCHANGED <<which, fast, regulator, charger, faults, battery, protection, led, key>>
OnlyFast == UNCHANGED <<which, sleep, regulator, charger, faults, battery, protection, led, key>>
OnlyRegulator == UNCHANGED <<which, sleep, fast, charger, faults, battery, protection, led, key>>
OnlyCharger == UNCHANGED <<which, sleep, fast, regulator, faults, battery, protection, led, key>>
OnlyFaults == UNCHANGED <<which, sleep, fast, regulator, charger, battery, protection, led, key>>
OnlyBattery == UNCHANGED <<which, sleep, fast, regulator, charger, faults, protection, led, key>>
OnlyProtection == UNCHANGED <<which, sleep, fast, regulator, charger, faults, battery, led, key>>
OnlyLed == UNCHANGED <<which, sleep, fast, regulator, charger, faults, battery, protection, key>>
OnlyKey == UNCHANGED <<which, sleep, fast, regulator, charger, faults, battery, protection, led>>

Sleep == which = "sleep" /\ S!Next /\ OnlySleep
FastCharge == which \in {"device", "charger on the port"} /\ OnlyFast /\ D!Next
Regulator == which = "regulator" /\ R!Next /\ OnlyRegulator
Charger == which = "charger" /\ C!Next /\ OnlyCharger
Faults == which = "faults" /\ F!Next /\ OnlyFaults
Battery == which = "battery" /\ B!Next /\ OnlyBattery
Protection == which = "protection" /\ P!Next /\ OnlyProtection
Lights == which = "led" /\ L!Next /\ OnlyLed
Button == which = "key" /\ K!Next /\ OnlyKey

Next == Sleep \/ FastCharge \/ Regulator \/ Charger \/ Faults \/ Battery \/ Protection
        \/ Lights \/ Button

\* The variables of the component that moves: all others are as they were.
moving == CASE which = "sleep" -> sleep [] which \in {"device", "charger on the port"} -> fast
            [] which = "regulator" -> regulator   [] which = "charger" -> charger
            [] which = "faults" -> faults         [] which = "battery" -> battery
            [] which = "protection" -> protection [] which = "led" -> led
            [] which = "key" -> key

\* The fairness of each component, while it is the one that moves: a clause is of
\* several components, of which at most one can take a step of it.  Next keeps the
\* others' variables as they are.
Moves(w, A) == which = w /\ A /\ which' = w
Charges(A) == Moves("device", A) \/ Moves("charger on the port", A)
Fairness ==
  /\ WF_moving(\/ Moves("sleep", S!TimerWake) \/ Charges(D!Task)
               \/ Moves("regulator", R!Expire) \/ Moves("faults", F!Round)
               \/ Moves("battery", B!Tick)     \/ Moves("led", L!Update))
  /\ WF_moving(Moves("sleep", S!ProtocolWake) \/ Charges(D!Bc12Int) \/ Moves("regulator", R!ExpireDisg))
  /\ WF_moving(Charges(D!HvdcpInt) \/ Moves("regulator", R!Step))
  /\ WF_moving(Charges(D!SinkTimer))
Spec == Init /\ [][Next]_vars /\ Fairness

-----------------------------------------------------------------------------
\* Every component keeps to its types.
Typed ==
  /\ S!TypeOK /\ D!TypeOK /\ R!TypeOK /\ C!TypeOK /\ F!TypeOK /\ B!TypeOK /\ P!TypeOK
  /\ L!TypeOK /\ K!TypeOK

\* A sleeping pack wakes for what is plugged in (Sleep).
WakesRight == S!PluggedInWakes
\* The bus follows the device that is charged (FastCharge) ...
BusFollows == D!BusFollows
\* ... and a QC charger is found (FastCharge).
QcFound == D!QcFound
\* What the converter reports as done, and what it draws, is what was asked for
\* (Regulator, Charger).
Regulated == R!Delivered /\ C!Limited
\* A voltage asked for is reached; a lock of the protection ends (Regulator, Faults).
Settles == ([]<>(which # "regulator") \/ R!Settles) /\ F!Unlocks
\* The timer wakes the pack for something; the converter's and the coil's
\* protections act on whole runs of readings (Sleep, Faults, Prot).
ActsForAReason ==
  S!TimerWakesForAReason /\ F!LocksForAReason /\ P!Debounced /\ P!Believed
\* No coil under a protection that holds, no click lost or told twice (Prot, Key).
Kept == P!NeverUnderFault /\ K!Counted
\* Empty and full come to be shown (Battery), and the lights keep no pack awake or
\* on for ever (Led).
Shown == B!EmptyShown /\ B!FullShown /\ L!MiniEnds /\ L!EmptyOff
=============================================================================
