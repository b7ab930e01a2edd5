-------------------------------- MODULE Led --------------------------------
(***************************************************************************)
(* The user interface (app/led.c): ui_update runs every 250 ms, acts on    *)
(* the key's event, decides what the LEDs show, and on the way ends the    *)
(* mini-current mode after two hours and switches off a pack that feeds    *)
(* with nothing left.  What each LED shows is abstracted to which of the   *)
(* displays has them.  usb_comm_lock, buckboost_fault_restore and the long *)
(* press, which puts the pack to sleep, act in other modules.              *)
(***************************************************************************)
EXTENDS Naturals
CONSTANTS Beats,    \* updates in a cycle of the mini-current lights (8)
          Cycles,   \* cycles of the mini-current mode (3600)
          Zero,     \* updates with nothing left (250)
          FlashIn, FlashOut, FlashCal,  \* comm_feedback_cnt of the clicks (6, 2, 10)
          Steps     \* updates of the charging lights (5 of 3), and of a low pack's answer (18)

VARIABLES
  mode, soc,        \* g_buckboost.woke_mode; real_soc_show is 0, up to 5, or more
  plugged,          \* port 0 is a sink
  forbid,           \* bat_ov_forbid_flag or bat_uv_forbid_flag
  fault,            \* led_fault or led_fault1
  mini,             \* g_port.is_mini_current_mode
  beat, cycle_count, zero_soc_cnt,
  comm, comm_feedback_cnt,
  charge_led_run,   \* 0 or one more than charge_index
  button_led_run,   \* 0 or one more than button_cnt
  shown             \* which display has the LEDs
vars == <<mode, soc, plugged, forbid, fault, mini, beat, cycle_count, zero_soc_cnt, comm,
          comm_feedback_cnt, charge_led_run, button_led_run, shown>>

Keys == {"none", "single", "double", "triple", "quad", "quint"}
TypeOK ==
  /\ mode \in {"off", "charge", "discharge"} /\ soc \in {"empty", "low", "some"}
  /\ {plugged, forbid, fault, mini, comm} \subseteq BOOLEAN
  /\ beat \in 0..(Beats - 1) /\ cycle_count \in 0..(Cycles + 1) /\ zero_soc_cnt \in 0..Zero
  /\ comm_feedback_cnt \in 0..FlashCal /\ charge_led_run \in 0..Steps /\ button_led_run \in 0..Steps
  /\ shown \in {"forbid", "mini", "fault", "charge", "button", "level", "comm", "feedback"}

Init == /\ mode = "off" /\ soc = "some" /\ plugged = FALSE /\ forbid = FALSE /\ fault = FALSE
        /\ mini = FALSE /\ beat = 0 /\ cycle_count = 0 /\ zero_soc_cnt = 0 /\ comm = FALSE
        /\ comm_feedback_cnt = 0 /\ charge_led_run = 0 /\ button_led_run = 0 /\ shown = "level"

(***************************************************************************)
(* The key                                                                 *)
(***************************************************************************)
\* What a press changes, as a record: the rest of ui_update goes on from it.
Now == [mini |-> mini, comm |-> comm, flashes |-> comm_feedback_cnt, forbid |-> forbid, run |-> button_led_run]
Single == [Now EXCEPT !.mini = FALSE, !.run = IF plugged \/ @ > 0 THEN @ ELSE 1]
Double == IF mode = "discharge" /\ ~plugged THEN [Now EXCEPT !.mini = ~@] ELSE Now
\* In communication the triple click leaves it; else it enters, unless a
\* protection is on.
Triple == IF comm THEN {[Now EXCEPT !.comm = FALSE, !.flashes = FlashOut]}
          ELSE {Now, [Now EXCEPT !.comm = TRUE, !.flashes = FlashIn]}
\* forbid_bypass_flag is toggled; when it is set the forbids go.
Quad == {Now, [Now EXCEPT !.forbid = FALSE]}
Quint == [Now EXCEPT !.flashes = FlashCal]
Pressed(key) == CASE key = "single" -> {Single} [] key = "double" -> {Double} [] key = "triple" -> Triple
                  [] key = "quad" -> Quad [] key = "quint" -> {Quint} [] OTHER -> {Now}

(***************************************************************************)
(* What the LEDs show                                                      *)
(***************************************************************************)
Lights == <<beat, cycle_count, charge_led_run>>
MiniAtCycles(p) ==
  LET wrap == beat = Beats - 1
      cycles == IF wrap /\ cycle_count <= Cycles THEN cycle_count + 1 ELSE cycle_count
  IN /\ beat' = (beat + 1) % Beats /\ cycle_count' = cycles
     /\ mini' = ~(wrap /\ cycles = Cycles)
     /\ button_led_run' = p.run /\ UNCHANGED charge_led_run
Mini(p) ==
  LET wrap == beat = Beats - 1
      cycles == IF wrap /\ cycle_count <= Cycles THEN cycle_count + 1 ELSE cycle_count
  IN /\ beat' = (beat + 1) % Beats /\ cycle_count' = cycles
     /\ mini' = ~(wrap /\ cycles >= Cycles)
     /\ button_led_run' = p.run /\ UNCHANGED charge_led_run
Charging(p) == /\ button_led_run' = 0 /\ charge_led_run' = (charge_led_run + 1) % (Steps + 1)
               /\ UNCHANGED <<beat, cycle_count>>
\* The answer to a click: the level until something is plugged in or five
\* seconds have passed, or a low pack's flashes.
Button(p) == /\ IF soc = "some" THEN button_led_run' \in (IF plugged THEN {0} ELSE {0, p.run})
                ELSE button_led_run' = (p.run + 1) % (Steps + 1)
             /\ UNCHANGED Lights
\* Only here does the mini-current mode's count start again.
Level(p) == beat' = 0 /\ cycle_count' = 0 /\ button_led_run' = p.run /\ UNCHANGED charge_led_run

Display(p) ==
  IF p.forbid THEN "forbid" ELSE IF p.mini THEN "mini" ELSE IF fault THEN "fault"
  ELSE IF charge_led_run > 0 /\ mode' = "charge" THEN "charge"
  ELSE IF p.run > 0 THEN "button" ELSE "level"
update_led(p) ==
  /\ shown' = Display(p)
  /\ CASE shown' = "mini" -> Mini(p)
       [] shown' = "charge" -> Charging(p) /\ UNCHANGED mini
       [] shown' = "button" -> Button(p) /\ mini' = p.mini
       [] shown' = "level" -> Level(p) /\ mini' = p.mini
       [] OTHER -> mini' = p.mini /\ button_led_run' = p.run /\ UNCHANGED Lights

\* A pack that feeds with nothing left is switched off in the end.
Empty ==
  LET empty == mode = "discharge" /\ soc = "empty"
  IN /\ zero_soc_cnt' = IF soc # "empty" \/ mode = "charge" THEN 0
                        ELSE IF empty /\ zero_soc_cnt < Zero THEN zero_soc_cnt + 1 ELSE zero_soc_cnt
     /\ mode' = IF empty /\ zero_soc_cnt = Zero THEN "off" ELSE mode

\* Feedback and communication keep the LEDs and end the update early.
update(p) ==
  /\ comm' = p.comm /\ forbid' = p.forbid
  /\ comm_feedback_cnt' = IF p.flashes > 0 THEN p.flashes - 1 ELSE 0
  /\ IF p.flashes > 0 \/ p.comm
     THEN /\ shown' = (IF p.flashes > 0 THEN "feedback" ELSE "comm")
          /\ mini' = p.mini /\ button_led_run' = p.run
          /\ UNCHANGED <<mode, zero_soc_cnt, beat, cycle_count, charge_led_run>>
     ELSE Empty /\ update_led(p)
  /\ UNCHANGED <<soc, plugged, fault>>
ui_update(key) == \E p \in Pressed(key) : update(p)

(***************************************************************************)
(* The rest of the pack                                                    *)
(***************************************************************************)
Others == <<mini, beat, cycle_count, zero_soc_cnt, comm, comm_feedback_cnt, button_led_run, shown>>
\* set_work_mode, and a charger or a device at the port (charge_led_run is set
\* with the charger).
Work(m, p) == /\ mode' = m /\ plugged' = p
              /\ charge_led_run' = IF m = "charge" /\ charge_led_run = 0 THEN 1 ELSE charge_led_run
              /\ UNCHANGED <<soc, forbid, fault, Others>>
Drain(s) == soc' = s /\ UNCHANGED <<mode, plugged, forbid, fault, charge_led_run, Others>>
Trip(f, t) == forbid' = f /\ fault' = t /\ UNCHANGED <<mode, soc, plugged, charge_led_run, Others>>

Update == \E key \in Keys : ui_update(key)
Next == \/ Update
        \/ \E m \in {"off", "charge", "discharge"} : Work(m, m = "charge")
        \/ \E s \in {"empty", "low", "some"} : Drain(s)
        \/ \E f, t \in BOOLEAN : (forbid => f) /\ Trip(f, t)
Spec == Init /\ [][Next]_vars /\ WF_vars(Update)

(***************************************************************************)
(* Properties                                                              *)
(***************************************************************************)
\* An update in which a click has an effect.
Clicked == vars' # vars /\ \E key \in Keys : \E p \in Pressed(key) \ {Now} : update(p)

\* The mini-current mode, which keeps the pack awake, ends by itself, however
\* often it was left and entered again and whatever displays came between, unless
\* a forbid or the communication has the LEDs or the key is pressed without end:
\* cycle_count is only set back when the level is shown, so that it may start
\* past its limit.
MiniEnds == []<>~mini \/ []<>forbid \/ []<>comm \/ []<><<Clicked>>_vars

\* A pack that feeds with nothing left is switched off, whatever the LEDs show.
EmptyOff == \/ []<>(mode # "discharge" \/ soc # "empty" \/ comm)
            \/ []<><<Clicked>>_vars
=============================================================================
