-------------------------------- MODULE Key --------------------------------
(***************************************************************************)
(* The key (app/led.c).  The tick interrupt calls key_handle_10ms every    *)
(* ten milliseconds: it counts presses and, when the key has rested or was *)
(* held long enough, leaves one event in key_flag.  The UI task looks at   *)
(* key_flag every 250 ms, acts on it and clears it, and the interrupt may  *)
(* come between the two.  A time is a number of calls of key_handle_10ms.  *)
(***************************************************************************)
EXTENDS Naturals

CONSTANTS ClickMin, ClickMax,   \* 3, 50: how long a click is
          Gap,                  \* 50: the rest that ends a series of clicks
          Long, Restart,        \* 300, 1200: a long press, and a reset
          Period                \* 25: from one look of the UI task to the next

VARIABLES
  down, rest,      \* the key is pressed; how long it was not, up to ClickMin
  key_cnt, key_delay_ms, key_click_cnt,
  key_flag,        \* the event left: "none", "long", or the number of clicks
  ui,              \* time since the UI task last looked
  serving,         \* the UI task acts on an event it has not cleared yet
  open             \* history: clicks made of which nobody was told
vars == <<down, rest, key_cnt, key_delay_ms, key_click_cnt, key_flag, ui, serving, open>>

Flags == {"none", "1", "2", "3", "4", "5", "long"}
Clicks == [f \in Flags |-> CASE f = "1" -> 1 [] f = "2" -> 2 [] f = "3" -> 3
                             [] f = "4" -> 4 [] f = "5" -> 5 [] OTHER -> 0]
FlagOf(n) == CHOOSE f \in Flags : Clicks[f] = n

TypeOK == /\ down \in BOOLEAN /\ rest \in 0..ClickMin /\ key_cnt \in 0..Restart
          /\ key_delay_ms \in 0..Gap /\ key_click_cnt \in 0..4
          /\ key_flag \in Flags /\ serving \in BOOLEAN /\ ui \in 0..Period

Init == /\ down = FALSE /\ rest = ClickMin /\ key_cnt = 0 /\ key_delay_ms = 0 /\ key_click_cnt = 0
        /\ key_flag = "none" /\ ui = 0 /\ serving = FALSE /\ open = 0

\* A hand presses the key at any time, and rests as long as a click before.
Hand(pressed) == /\ down' = pressed /\ (pressed /\ ~down => rest = ClickMin)
                 /\ rest' = IF pressed THEN 0 ELSE IF rest < ClickMin THEN rest + 1 ELSE rest

Held ==
  /\ Hand(TRUE) /\ key_cnt < Restart - 1 /\ key_cnt' = key_cnt + 1
  /\ IF key_cnt' = Long THEN key_flag' = "long" /\ key_click_cnt' = 0 /\ UNCHANGED key_delay_ms
     ELSE IF key_delay_ms = 1 /\ key_click_cnt > 0
     THEN key_flag' = FlagOf(key_click_cnt) /\ key_click_cnt' = 0 /\ key_delay_ms' = 0
     ELSE /\ key_delay_ms' = IF key_delay_ms > 0 THEN key_delay_ms - 1 ELSE 0
          /\ UNCHANGED <<key_flag, key_click_cnt>>
  /\ UNCHANGED open

\* key_cnt reaches Restart: the chip resets, and the RAM with it.
HeldOn ==
  /\ Hand(TRUE) /\ key_cnt = Restart - 1
  /\ key_cnt' = 0 /\ key_delay_ms' = 0 /\ key_click_cnt' = 0 /\ key_flag' = "none" /\ open' = 0
  /\ ui' = 0 /\ serving' = FALSE

ReleasedNoReset ==
  LET click == key_cnt \in ClickMin..ClickMax
      n == IF click /\ key_click_cnt < 5 THEN key_click_cnt + 1 ELSE key_click_cnt
      delay == IF click THEN Gap ELSE key_delay_ms
      told == (click /\ n = 5) \/ (delay = 1 /\ n > 0)
  IN /\ Hand(FALSE) /\ key_cnt' = 0 /\ open' = open + n - key_click_cnt
     /\ key_click_cnt' = IF told /\ n < 5 THEN 0 ELSE n
     /\ key_flag' = IF told THEN FlagOf(n) ELSE key_flag
     /\ key_delay_ms' = IF n = 5 \/ delay = 0 THEN 0 ELSE delay - 1
Released ==
  LET click == key_cnt \in ClickMin..ClickMax
      n == IF click THEN key_click_cnt + 1 ELSE key_click_cnt
      delay == IF click THEN Gap ELSE key_delay_ms
      told == n = 5 \/ (delay = 1 /\ n > 0)
  IN /\ Hand(FALSE) /\ key_cnt' = 0 /\ open' = open + n - key_click_cnt
     /\ key_click_cnt' = IF told THEN 0 ELSE n
     /\ key_flag' = IF told THEN FlagOf(n) ELSE key_flag
     /\ key_delay_ms' = IF n = 5 \/ delay = 0 THEN 0 ELSE delay - 1
\* key_handle_10ms.  The UI task is never later than Period.
key_handle_10ms == /\ ui < Period /\ (Held \/ Released)
                   /\ ui' = ui + 1 /\ UNCHANGED serving

\* ui_update: the handler of the event, then key_flag = 0, which wipes out what
\* the interrupt left in between.  (Nobody reads the old value till then.)
Serve == /\ ~serving /\ key_flag # "none"
         /\ serving' = TRUE /\ key_flag' = "none" /\ open' = open - Clicks[key_flag] /\ ui' = 0
         /\ UNCHANGED <<down, rest, key_cnt, key_delay_ms, key_click_cnt>>
Clear == /\ serving /\ serving' = FALSE /\ key_flag' = "none" /\ open' = open - Clicks[key_flag]
         /\ UNCHANGED <<down, rest, key_cnt, key_delay_ms, key_click_cnt, ui>>
Idle == ~serving /\ key_flag = "none" /\ ui' = 0
        /\ UNCHANGED <<down, rest, key_cnt, key_delay_ms, key_click_cnt, key_flag, serving, open>>

Next == key_handle_10ms \/ (ui < Period /\ HeldOn) \/ Serve \/ Clear \/ Idle
Spec == Init /\ [][Next]_vars

\* Every click is in the series that is being counted or in the event that
\* waits for the UI task: none is counted twice or overwritten by the event of a
\* later series or of a long press, as long as the UI task comes in time and is
\* not interrupted by the next event while it acts on the last.
Counted == open = key_click_cnt + Clicks[key_flag]
=============================================================================
