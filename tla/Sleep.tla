------------------------------- MODULE Sleep -------------------------------
(***************************************************************************)
(* Sleep and wake (app/sleep.c), with the warm and cold halves of          *)
(* gd_data_init (fml/g_data.c).  The pack sleeps with its RAM kept; the    *)
(* 800 ms timer, the CC block, a GPIO edge or a reset ends the sleep and   *)
(* main() begins again with RST_vCheck, which either sleeps on or lets the *)
(* firmware start.  Port A only: CONFIG_TYPECB_SUPPORT is 0.               *)
(* bat_dead_flag_with_snk0 is never set in this build, so its branches are *)
(* left out.  Misses is the 10 of rd0_cnt and light0_cnt.                  *)
(***************************************************************************)
EXTENDS Naturals
CONSTANT Misses

VARIABLES
  awake,      \* the firmware runs
  partner,    \* what is plugged into port A
  light,      \* tc0_lighting_mode: a device that draws next to nothing is fed
  dead,       \* bat_dead_flag
  comm,       \* usb_comm_activated
  cc,         \* what port A shows on its CC lines while asleep
  tcpc,       \* the CC block may wake the core (not TCPC_WKUP_DIS)
  tmr,        \* the timer may wake the core (WKUP_EN)
  rd0_cnt, light0_cnt,  \* checks in a row that missed the device
  why,        \* history: what ended the last sleep
  missed      \* history: looks in a row, in this sleep, with no device there
vars == <<awake, partner, light, dead, comm, cc, tcpc, tmr, rd0_cnt, light0_cnt, why, missed>>
kept == <<awake, cc, tcpc, tmr, rd0_cnt, light0_cnt, why, missed>>

\* "sink" is a device (Rd), "debug" shows Rd on both lines, "charger" shows Rp.
Partners == {"none", "sink", "debug", "charger"}
Shown == {"off", "rp", "rd", "drp"}

TypeOK == /\ {awake, light, dead, comm, tcpc, tmr} \subseteq BOOLEAN
          /\ partner \in Partners /\ why \in {"timer", "cc", "key", "reset"} /\ cc \in Shown
          /\ rd0_cnt \in 0..Misses /\ light0_cnt \in 0..Misses /\ missed \in 0..Misses

\* tc_src_is_connected: exactly one line shows Rd.
SrcConnected == partner = "sink"
\* The direct reading of the lighting branch: some line shows Rd.
SomeRd == partner \in {"sink", "debug"}

Init == /\ awake = TRUE /\ partner = "none" /\ light = FALSE /\ dead = FALSE /\ comm = FALSE
        /\ cc = "off" /\ tcpc = FALSE /\ tmr = FALSE
        /\ rd0_cnt = 0 /\ light0_cnt = 0 /\ why = "reset" /\ missed = 0

\* Registers and counters that mean nothing while the firmware runs.
Running(by) ==
           /\ awake' = TRUE /\ why' = by /\ cc' = "off" /\ tcpc' = FALSE /\ tmr' = FALSE
           /\ rd0_cnt' = 0 /\ light0_cnt' = 0 /\ missed' = 0

(***************************************************************************)
(* While the firmware runs                                                 *)
(***************************************************************************)
SleepCcAlwaysRp(lit) == cc' = "rp" /\ tcpc' = ~lit

\* The CC lines asleep: a lit device keeps its Rp and takes the wake of the
\* CC block away; otherwise the block toggles by itself and may wake the core.
SleepCc(lit) == cc' = (IF lit THEN "rp" ELSE "drp") /\ tcpc' = ~lit
\* A dead battery sleeps without its timer and without the watchdog.
SleepTimer == tmr' = ~dead

\* Every peripheral is switched off and the key and the touch pad may wake.
SleepPeripherals == awake' = FALSE

SLP_vNormalToSleep(lit) ==
  IF comm THEN UNCHANGED kept
  ELSE /\ SleepPeripherals /\ SleepCc(lit) /\ SleepTimer
       /\ rd0_cnt' = 0 /\ light0_cnt' = 0 /\ missed' = 0 /\ UNCHANGED why

\* wpc_idle_phase_process: fifty passes with a dead battery, or three hundred
\* idle ones on the battery alone.  A charger takes the dead flag away.
IdleToSleep ==
  /\ awake /\ ~comm /\ partner # "charger"
  /\ SLP_vNormalToSleep(light) /\ UNCHANGED <<partner, light, dead, comm>>

\* A press of three seconds: a port that feeds a device keeps doing so.
key_long_click_process ==
  /\ awake
  /\ light' = (light \/ partner = "sink")
  /\ SLP_vNormalToSleep(light') /\ UNCHANGED <<partner, dead, comm>>

\* tcpm: the device has drawn next to nothing for long enough; typec and the
\* key take the mode away again.
LightOn == awake /\ partner = "sink" /\ ~light /\ light' = TRUE
LightOff == awake /\ light /\ light' = FALSE
Lighting == (LightOn \/ LightOff)
            /\ UNCHANGED <<partner, dead, comm, kept>>

\* buckboost: ten readings under 6 V while nothing charges, or a charger.
Battery == /\ awake
           /\ IF dead THEN dead' = FALSE ELSE partner # "charger" /\ dead' = TRUE
           /\ UNCHANGED <<partner, light, comm, kept>>

key_triple_click_process ==
  /\ awake /\ comm' = ~comm
  /\ UNCHANGED <<partner, light, dead, kept>>

Plug == /\ \E p \in Partners \ {partner} : partner' = p
        /\ UNCHANGED <<light, dead, comm, kept>>

(***************************************************************************)
(* While it sleeps: RST_vCheck, by what ended the sleep                    *)
(***************************************************************************)
Counted(cnt, seen) == IF seen THEN 0 ELSE cnt + 1

SLP_vSleepToSleep == SleepTimer /\ UNCHANGED <<awake, why>>

\* tc_check_wake for a lit port: step 0 counts, and the port is free at ten.
LitCheck ==
  LET lights == Counted(light0_cnt, SomeRd)
      rds == Counted(rd0_cnt, SrcConnected)
  IN /\ light
     /\ IF lights >= Misses \/ rds >= Misses
        THEN light' = FALSE /\ Running("timer")
        ELSE /\ light0_cnt' = lights /\ rd0_cnt' = rds
             /\ missed' = Counted(missed, SrcConnected)
             /\ SLP_vSleepToSleep /\ UNCHANGED <<light, cc, tcpc>>
\* tc_check_wake for a free port: Rd finds a charger, Rp finds a device, and
\* the lines are left at Rd, where the CC block no longer toggles.
FreeCheck ==
  /\ ~light
  /\ IF partner # "none" THEN Running("timer")
     ELSE cc' = "rd" /\ SLP_vSleepToSleep /\ UNCHANGED <<tcpc, rd0_cnt, light0_cnt, missed>>
  /\ UNCHANGED light
tc_check_wake == LitCheck \/ FreeCheck

TimerWake == /\ ~awake /\ tmr /\ tc_check_wake /\ UNCHANGED <<partner, dead, comm>>
ProtocolWake == /\ ~awake /\ tcpc /\ cc = "drp" /\ partner # "none"
                /\ Running("cc") /\ UNCHANGED <<partner, light, dead, comm>>
\* A GPIO edge with the key or the touch pad held down.
KeyWake == /\ ~awake /\ light' = FALSE /\ Running("key") /\ UNCHANGED <<partner, dead, comm>>
\* A GPIO edge with neither: PWR_CTRL is cleared, which lets the CC block wake
\* the core again, and the sleep goes on.
FalseWake == /\ ~awake /\ tcpc' = TRUE /\ SLP_vSleepToSleep
             /\ UNCHANGED <<partner, light, dead, comm, cc, rd0_cnt, light0_cnt, why, missed>>
\* A reset (watchdog, brown-out, twelve seconds on the key): power_on_magic is
\* cleared and gd_data_init starts cold.
ColdStart == /\ light' = FALSE /\ dead' = FALSE /\ comm' = FALSE /\ Running("reset") /\ UNCHANGED partner

Next == \/ IdleToSleep \/ key_long_click_process \/ Lighting \/ Battery \/ key_triple_click_process
        \/ Plug \/ TimerWake \/ ProtocolWake \/ KeyWake \/ FalseWake \/ ColdStart
Spec == Init /\ [][Next]_vars /\ WF_vars(TimerWake) /\ WF_vars(ProtocolWake)

(***************************************************************************)
(* Properties                                                              *)
(***************************************************************************)
\* Whatever is plugged into a sleeping pack and stays wakes it: by the CC block
\* where that may, by the timer's own look at the lines where it may not.  The
\* exception is a lit port of a dead battery, which sleeps with neither.
PluggedInWakes ==
  /\ []<>(awake \/ partner # "charger") \/ []<>(light /\ dead)
  /\ []<>(awake \/ partner # "sink") \/ []<>light

\* The timer ends a sleep only for something: a lit port after that many looks
\* in a row that missed its device, so that one who stays is fed on, a free port
\* for whatever has been plugged in.
TimerWakesForAReason ==
  [][~awake /\ awake' /\ why' = "timer" =>
       IF light THEN missed + 1 >= Misses ELSE partner # "none"]_vars
=============================================================================
