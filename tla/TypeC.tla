------------------------------- MODULE TypeC -------------------------------
(***************************************************************************)
(* The connection state machine of the Type-C port, lib/typec.c: one       *)
(* callback of the state in each pass of the main loop (usb_tc_run), on    *)
(* what hal_tcpc_get_cc reads from the pin.  Built as the repository is    *)
(* configured: dual role, Try.SRC and no Try.SNK, the NU6805, whose VBUS   *)
(* always counts as present, removed and discharged; without power role    *)
(* swaps ErrorRecovery is never entered.                                   *)
(*                                                                         *)
(* The time in a state is how many of the state's limits it has passed.    *)
(* The partner decides what the pin reads: Rp where the port shows Rd, Rd  *)
(* or Ra where it shows Rp.  The plug is not turned round unnoticed.       *)
(***************************************************************************)
EXTENDS Integers

CONSTANTS
    RdPasses, RpPasses, \* 35 and 45, the passes of a half of the toggle
    Detections,         \* 10, the readings in a row that end the toggle
    GiveUpPasses,       \* 1000, the passes a port in hand may toggle
    Tries               \* 3, the times Try.SRC is entered before a sink is accepted

ASSUME TypeCAssumption ==
    /\ RdPasses \in Nat \ {0, 1} /\ RpPasses \in Nat \ {0, 1}
    /\ Detections \in Nat \ {0} /\ GiveUpPasses \in Nat /\ Tries \in Nat \ {0}

VARIABLES
    state, sub,     \* usb_tc_state, usb_tc_substate
    cc, seen,       \* what the port shows on CC; tc->cc1, cc2: what was read last
    age,            \* tc_sys_ticks - tc_timer_cnt: how many limits of the state it has passed
    tries,          \* try_src_cnt
    half, n, det,   \* toggle_rp_or_rd; its toggle_rd_cnt or _rp_cnt; delay_cnt
    wait,           \* tc0_delay, the passes a port in hand has toggled
    delay,          \* typec_delay_ms: "none", "short", "forever"
    light, comm,    \* gd->tc0_lighting_mode, usb_comm_activated
    told,           \* what the last step posted to the port manager, "order" its own
    partner, vbus,  \* who is plugged in; adc_vbus: up to 4 V, up to 5.5 V, above
    hand,           \* the manager has the port in hand
    fixed           \* nobody but the machine acts any more

toggle == <<half, n, det, wait>>
env == <<comm, partner, vbus, hand, fixed>>
Machine == <<state, sub, cc, seen, age, tries, toggle>>
vars == <<Machine, delay, light, told, env>>

State == {"Disable", "SNK_Unattached", "SNK_AttachWait", "SNK_Attached", "SRC_Unattached",
    "SRC_AttachWait", "SRC_Attached", "DEBUG_Attached", "ACCESSORY_Attached", "DRP_TOGGLE",
    "Try_SRC", "TryWAIT_SNK"}
Reading == {"open", "rp", "rd", "rdrd", "ra"}

TypeOK ==
    /\ state \in State /\ sub \in {"enter", "exit"}
    /\ cc \in {"open", "rd", "rp"} /\ seen \in Reading
    /\ age \in 0 .. 2 /\ tries \in 0 .. Tries
    /\ half \in {"rd", "rp"} /\ n \in 0 .. RdPasses+RpPasses /\ det \in 0 .. Detections
    /\ wait \in 0 .. GiveUpPasses
    /\ delay \in {"none", "short", "forever"}
    /\ told \in {"none", "TRY", "SUCCESS", "END", "order"}
    /\ partner \in {"none", "source", "sink", "debug", "accessory"}
    /\ vbus \in {"low", "5V", "high"}
    /\ {light, comm, hand, fixed} \subseteq BOOLEAN

Init ==
    /\ state = "SNK_Unattached" /\ sub = "enter"
    /\ cc = "open" /\ seen = "open" /\ age = 0 /\ tries = 0
    /\ half = "rd" /\ n = 0 /\ det = 0 /\ wait = 0 /\ delay = "none"
    /\ light = FALSE /\ comm = FALSE /\ told = "none"
    /\ partner = "none" /\ vbus = "low" /\ hand = FALSE /\ fixed = FALSE
-----------------------------------------------------------------------------
(* What the pin reads, and what the tests of it say *)

Cc ==
    CASE cc = "rd" /\ partner = "source" -> "rp"
      [] cc = "rp" /\ partner = "sink" -> "rd"
      [] cc = "rp" /\ partner = "debug" -> "rdrd"
      [] cc = "rp" /\ partner = "accessory" -> "ra"
      [] OTHER -> "open"

\* tc_snk_is_connected, tc_src_is_connected, tc_acc_is_connected
SnkConnected == Cc # "open"
SrcConnected == Cc = "rd"
AccConnected == Cc = "ra"

\* tc_snk_is_disconnected and tc_src_is_disconnected look at the last reading.
SnkGone(reading) == reading = "open"
SrcGone(reading) == reading \notin {"rd", "rdrd"}
-----------------------------------------------------------------------------
(* usb_tc_run: one callback a pass *)

At(s, x) == state = s /\ sub = x
Go(s) == state' = s /\ sub' = "enter"
Stay == UNCHANGED <<state, sub>>
Entered(s) == state = s /\ state' = s /\ sub' = "exit"
Tell(what) == told' = what
Show(end) == cc' = end

\* What was read is kept where a later pass compares with it.
Read == seen' = IF state' \in {"SNK_AttachWait", "SRC_AttachWait", "Try_SRC", "TryWAIT_SNK"}
                THEN Cc ELSE "open"

\* TC_Disable_Entry
DisableEnter ==
    /\ At("Disable", "enter") /\ Entered("Disable") /\ Tell("none")
    /\ Show("open") /\ light' = FALSE
    /\ UNCHANGED <<seen, age, tries, toggle, delay, env>>

\* TC_Disable_Exit
DisableExit ==
    /\ At("Disable", "exit") /\ Tell("none")
    /\ \/ delay \in {"short", "forever"} /\ Stay /\ UNCHANGED delay
       \/ delay # "forever" /\ Go("DRP_TOGGLE") /\ delay' = "none"
    /\ UNCHANGED <<cc, seen, age, tries, toggle, light, env>>

\* TC_SNK_Unattached_Entry: a port in its lighting mode goes back to the toggle.
SnkUnattachedEnter ==
    /\ At("SNK_Unattached", "enter") /\ Tell("none")
    /\ IF light THEN Go("DRP_TOGGLE") /\ UNCHANGED <<cc, age>>
       ELSE Entered("SNK_Unattached") /\ Show("rd") /\ age' = 0
    /\ UNCHANGED <<seen, tries, toggle, delay, light, env>>

\* TC_SNK_Unattached_Exit: in the communication mode it waits on for a source.
SnkUnattachedExit ==
    /\ At("SNK_Unattached", "exit")
    /\ \/ SnkConnected /\ Go("SNK_AttachWait") /\ Tell("TRY") /\ UNCHANGED age
       \/ ~SnkConnected /\ comm /\ Stay /\ age' = 0 /\ Tell("none")
       \/ ~SnkConnected /\ ~comm /\ age >= 1 /\ Go("DRP_TOGGLE") /\ age' = 0 /\ Tell("none")
       \/ ~SnkConnected /\ ~comm /\ age = 0 /\ Stay /\ UNCHANGED age /\ Tell("none")
    /\ Read /\ UNCHANGED <<cc, tries, toggle, delay, light, env>>

\* The entries that only show what they have to and take the time
Shown == [SNK_AttachWait |-> cc, SRC_Unattached |-> "rp", SRC_AttachWait |-> cc,
          Try_SRC |-> "rp", TryWAIT_SNK |-> "rd"]
WaitEnter ==
    \E s \in DOMAIN Shown :
        /\ At(s, "enter") /\ Entered(s) /\ Tell("none")
        /\ Show(Shown[s]) /\ age' = 0
        /\ UNCHANGED <<seen, tries, toggle, delay, light, env>>

\* try_src_cnt: how often a sink has tried to be the source
TriedOut == tries >= Tries \/ comm

TrySource == Go("Try_SRC") /\ tries' = tries + 1

\* TC_SNK_AttachWait_Exit: Try.SRC is gone through Tries times before a sink is.
SnkAttachWaitExit ==
    /\ At("SNK_AttachWait", "exit") /\ Tell("none")
    /\ CASE Cc # seen -> Go("SNK_AttachWait") /\ UNCHANGED tries
         [] Cc = seen /\ age >= 1 /\ SnkGone(seen) ->
                Go(IF comm THEN "SNK_Unattached" ELSE "SRC_Unattached") /\ UNCHANGED tries
         [] Cc = seen /\ ~(age >= 1 /\ SnkGone(seen)) /\ age = 2 /\ vbus # "high" ->
                IF TriedOut THEN Go("SNK_Attached") /\ UNCHANGED tries ELSE TrySource
         [] OTHER -> Stay /\ UNCHANGED tries
    /\ Read /\ UNCHANGED <<cc, age, toggle, delay, light, env>>

\* TC_SNK_Attached_Entry, TC_SRC_Attached_Entry
AttachedEnter ==
    \E s \in {"SNK_Attached", "SRC_Attached"} :
        /\ At(s, "enter") /\ Entered(s) /\ Tell("SUCCESS")
        /\ age' = 0 /\ tries' = IF s = "SNK_Attached" THEN 0 ELSE tries
        /\ UNCHANGED <<cc, seen, toggle, delay, light, env>>

\* TC_SNK_Attached_Exit: the communication mode does without VBUS.
SnkAttachedExit ==
    /\ At("SNK_Attached", "exit")
    /\ IF SnkGone(Cc) \/ (vbus = "low" /\ ~comm)
       THEN /\ UNCHANGED age
            /\ IF age >= 1 THEN Go("SNK_Unattached") /\ Show("rd") /\ Tell("END")
               ELSE Stay /\ UNCHANGED cc /\ Tell("none")
       ELSE age' = 0 /\ Stay /\ UNCHANGED cc /\ Tell("none")
    /\ Read /\ UNCHANGED <<tries, toggle, delay, light, env>>

\* TC_SRC_Unattached_Exit
SrcUnattachedExit ==
    /\ At("SRC_Unattached", "exit")
    /\ IF SrcConnected \/ AccConnected
       THEN Go("SRC_AttachWait") /\ Tell("TRY") /\ UNCHANGED age
       ELSE IF age >= 1 THEN Go("DRP_TOGGLE") /\ Tell("none") /\ age' = 0
       ELSE Stay /\ Tell("none") /\ UNCHANGED age
    /\ Read /\ UNCHANGED <<cc, tries, toggle, delay, light, env>>

\* TC_SRC_AttachWait_Exit
SrcAttachWaitExit ==
    /\ At("SRC_AttachWait", "exit") /\ Tell("none")
    /\ CASE Cc # seen -> Go("SRC_AttachWait")
         [] Cc = seen /\ age >= 1 /\ SrcGone(seen) /\ ~AccConnected -> Go("SNK_Unattached")
         [] Cc = seen /\ age = 2 /\ Cc = "rdrd" -> Go("DEBUG_Attached")
         [] Cc = seen /\ age = 2 /\ AccConnected -> Go("ACCESSORY_Attached")
         [] Cc = seen /\ age = 2 /\ SrcConnected /\ vbus # "high" -> Go("SRC_Attached")
         [] OTHER -> Stay
    /\ Read /\ UNCHANGED <<cc, age, tries, toggle, delay, light, env>>

\* TC_SRC_Attached_Exit: the port of a partner that takes nothing goes to its
\* lighting mode; a partner that is gone is noticed sooner above 5.5 V.
Dropped == SrcGone(Cc) /\ age >= (IF vbus = "high" THEN 1 ELSE 2)

\* Mutation: the lighting mode is entered unnoticed.
EndedByPartner == Tell(IF Dropped THEN "END" ELSE "none")

Ended == Tell(IF Dropped \/ light THEN "END" ELSE "none")

SrcAttachedExit ==
    /\ At("SRC_Attached", "exit")
    /\ \E contract \in BOOLEAN : tries' = IF contract THEN 0 ELSE tries
    /\ age' = IF SrcGone(Cc) THEN age ELSE 0
    /\ CASE Dropped -> Go(IF tries' >= Tries THEN "TryWAIT_SNK" ELSE "SRC_Unattached")
         [] ~Dropped /\ light -> Go("DRP_TOGGLE")
         [] OTHER -> Stay
    /\ Show(IF Dropped THEN "rd" ELSE cc)
    /\ Ended
    /\ Read /\ UNCHANGED <<toggle, delay, light, env>>

\* TC_DEBUG_Attached and TC_ACCESSORY_Attached, whose entries take no time: the
\* time of the wait before them goes on.
Special == [DEBUG_Attached |-> "rdrd", ACCESSORY_Attached |-> "ra"]
SpecialEnter ==
    \E s \in DOMAIN Special :
        /\ At(s, "enter") /\ Entered(s) /\ Tell("none")
        /\ UNCHANGED <<cc, seen, age, tries, toggle, delay, light, env>>
SpecialExit ==
    \E s \in DOMAIN Special :
        /\ At(s, "exit") /\ Tell("none")
        /\ IF Cc = Special[s] THEN Stay /\ age' = 0
           ELSE /\ IF age >= 1 THEN Go("SNK_Unattached") ELSE Stay
                /\ UNCHANGED age
        /\ Read /\ UNCHANGED <<cc, tries, toggle, delay, light, env>>

\* TC_DRP_TOGGLE_Entry: in the lighting mode the port waits here until the
\* partner has long been gone.
ToggleEnter ==
    /\ At("DRP_TOGGLE", "enter") /\ Tell("none")
    /\ IF light
       THEN /\ Stay /\ Read /\ UNCHANGED <<cc, toggle>>
            /\ light' \in (IF Cc # "rd" /\ Cc # "rdrd" THEN BOOLEAN ELSE {TRUE})
       ELSE /\ Entered("DRP_TOGGLE") /\ Show("open") /\ UNCHANGED <<seen, det, light>>
            /\ half' = "rd" /\ n' = 0 /\ wait' = 0
    /\ UNCHANGED <<age, tries, delay, env>>

\* Mutation: the toggle looks for sources only.
ToggleReadRdOnly ==
    LET limit == IF half = "rd" THEN RdPasses ELSE RpPasses IN
    \/ n = 0 /\ Show(half) /\ n' = 1 /\ UNCHANGED <<half, det, state, sub>>
    \/ /\ n \in 1 .. limit-1 /\ Cc = "rp"
       /\ UNCHANGED <<cc, half, n>>
       /\ IF det + 1 >= Detections THEN det' = 0 /\ Go("SNK_Unattached")
          ELSE det' = det + 1 /\ Stay
    \/ /\ n \in 1 .. limit-1 /\ Cc # "rp"
       /\ n' = n + 1 /\ det' = 0 /\ UNCHANGED <<cc, half, state, sub>>
    \/ n >= limit /\ half' = "rd" /\ n' = 0 /\ UNCHANGED <<cc, det, state, sub>>

\* The counts of the toggle are cleared where it is left, the code does it where it
\* is entered.  A half of the toggle: it shows its end, looks for a partner, which holds the
\* half while it is there, and turns to the other.
Found == IF half = "rd" THEN SnkConnected ELSE SrcConnected \/ AccConnected
ToggleRead ==
    LET limit == IF half = "rd" THEN RdPasses ELSE RpPasses IN
    \/ n = 0 /\ Show(half) /\ n' = 1 /\ UNCHANGED <<half, det, state, sub>>
    \/ /\ n \in 1 .. limit-1 /\ Found /\ UNCHANGED cc
       /\ IF det + 1 >= Detections
          THEN /\ Go(IF half = "rd" THEN "SNK_Unattached" ELSE "SRC_Unattached")
               /\ det' = 0 /\ half' = "rd" /\ n' = 0
          ELSE det' = det + 1 /\ Stay /\ UNCHANGED <<half, n>>
    \/ /\ n \in 1 .. limit-1 /\ ~Found
       /\ n' = n + 1 /\ det' = 0 /\ UNCHANGED <<cc, half, state, sub>>
    \/ /\ n >= limit /\ half' = IF half = "rd" THEN "rp" ELSE "rd"
       /\ n' = 0 /\ UNCHANGED <<cc, det, state, sub>>

\* Mutation: the limit is one more than the counter reaches.
OverWaitedNever == hand /\ wait > GiveUpPasses

OverWaited == hand /\ wait + 1 > GiveUpPasses

\* TC_DRP_TOGGLE_Exit: a port that stays in hand without a partner is given up.
ToggleExit ==
    /\ At("DRP_TOGGLE", "exit") /\ ToggleRead
    /\ Tell(IF OverWaited THEN "END" ELSE "none")
    /\ wait' = IF state' # "DRP_TOGGLE" \/ told' = "END" THEN 0
               ELSE IF hand /\ wait < GiveUpPasses THEN wait + 1 ELSE wait
    /\ UNCHANGED <<seen, age, tries, delay, light, env>>

\* TC_Try_SRC_Exit: once tried often enough, it waits for the source.
TrySrcExit ==
    /\ At("Try_SRC", "exit") /\ Tell("none")
    /\ CASE Cc # seen -> Go("Try_SRC")
         [] Cc = seen /\ SrcConnected /\ age >= 1 -> Go("SRC_Attached")
         [] Cc = seen /\ SrcGone(seen) /\ age = 2 ->
                Go(IF tries >= Tries THEN "TryWAIT_SNK" ELSE "SRC_Unattached")
         [] OTHER -> Stay
    /\ Read /\ UNCHANGED <<cc, age, tries, toggle, delay, light, env>>

\* TC_TryWAIT_SNK_Exit
TryWaitSnkExit ==
    /\ At("TryWAIT_SNK", "exit") /\ Tell("none")
    /\ CASE Cc # seen -> Go("TryWAIT_SNK")
         [] Cc = seen /\ age >= 1 -> Go(IF SnkGone(seen) THEN "SNK_Unattached" ELSE "SNK_Attached")
         [] OTHER -> Stay
    /\ Read /\ UNCHANGED <<cc, age, tries, toggle, delay, light, env>>

usb_tc_run ==
    \/ DisableEnter \/ DisableExit \/ SnkUnattachedEnter \/ SnkUnattachedExit \/ WaitEnter
    \/ SnkAttachWaitExit \/ AttachedEnter \/ SnkAttachedExit \/ SrcUnattachedExit
    \/ SrcAttachWaitExit \/ SrcAttachedExit \/ SpecialEnter \/ SpecialExit
    \/ ToggleEnter \/ ToggleExit \/ TrySrcExit \/ TryWaitSnkExit
-----------------------------------------------------------------------------
(* Time, the partner and the other tasks *)

Pass ==
    /\ age < 2 /\ age' = age + 1 /\ Tell("none")
    /\ UNCHANGED <<state, sub, cc, seen, tries, toggle, delay, light, env>>

World == ~fixed /\ UNCHANGED fixed

Plug ==
    /\ World /\ Tell("none") /\ partner' \in {"none", "source", "sink", "debug", "accessory"}
    /\ vbus' \in {"low", "5V", "high"}
    /\ UNCHANGED <<Machine, delay, light, comm, hand>>

\* pdlib_disable_typec and pdlib_delayms_restart_typec; pdlib_restart_typec
Manage ==
    /\ World /\ Tell("order") /\ sub' = "enter"
    /\ \/ state' = "Disable" /\ delay' \in {"short", "forever"}
       \/ state' = "DRP_TOGGLE" /\ delay' = "none"
    /\ hand' \in BOOLEAN
    /\ seen' = "open" /\ half' = "rd" /\ n' = 0 /\ wait' = 0
    /\ UNCHANGED <<cc, age, tries, det, light, comm, partner, vbus>>

\* TCPM_EVT_USBA_SCAN, the keys, the port manager
Ask ==
    /\ World /\ Tell("none")
    /\ \/ light' = ~light /\ UNCHANGED <<comm, hand>>
       \/ comm' = ~comm /\ UNCHANGED <<light, hand>>
       \/ hand' = ~hand /\ UNCHANGED <<light, comm>>
    /\ UNCHANGED <<Machine, delay, partner, vbus>>

Settled ==
    /\ ~fixed /\ fixed' = TRUE /\ Tell("none")
    /\ UNCHANGED <<Machine, delay, light, comm, partner, vbus, hand>>

Next == usb_tc_run \/ Pass \/ Plug \/ Manage \/ Ask \/ Settled

\* The main loop runs the machine and time passes; a delay and the lighting mode
\* of a partner that has gone come to an end.
Fairness ==
    /\ WF_vars(usb_tc_run) /\ WF_vars(Pass)
    /\ WF_vars(DisableExit /\ delay' = "none")
    /\ WF_vars(ToggleEnter /\ light' = FALSE)

Spec == Init /\ [][Next]_vars /\ Fairness
-----------------------------------------------------------------------------
(* Properties *)

\* What the port manager makes of a state: attached from the pass that tells it.
View ==
    CASE state = "Disable" -> IF delay = "forever" THEN "Disable" ELSE "Restart"
      [] state = "SNK_Unattached" -> "SnkUnattached"
      [] state = "SRC_Unattached" -> "SrcUnattached"
      [] state = "DRP_TOGGLE" -> "Toggle"
      [] state = "SNK_Attached" /\ sub = "exit" -> "Snk"
      [] state = "SRC_Attached" /\ sub = "exit" -> "Src"
      [] OTHER -> "Wait"

Seen == INSTANCE TypecPort WITH tc <- View

\* Whatever the partner does, the machine takes only the steps, and posts only the
\* events, in the order the model of the port manager relies on.
Implements == Seen!Spec

Works == fixed /\ ~light /\ ~(state = "Disable" /\ delay = "forever")

\* A charger that stays plugged in is attached as a source of power, although each
\* attempt first makes it the sink: Try.SRC is not tried for ever.
SourceFound == (Works /\ partner = "source" /\ vbus = "5V") ~> state = "SNK_Attached"

\* A device that stays plugged in is supplied, also when it comes while the port
\* waits for a charger.
SinkFound == (Works /\ partner = "sink" /\ vbus = "5V" /\ ~comm) ~> state = "SRC_Attached"

\* Whoever stays plugged in is found, charger or device.
StayersFound == SourceFound /\ SinkFound

\* A port in hand whose partner has gone is given up: the manager is told, from
\* whatever state, unless the communication mode holds the port.
GivenUp == (Works /\ partner = "none" /\ hand /\ ~comm) ~> told = "END"
=============================================================================
