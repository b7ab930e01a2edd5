----------------------------- MODULE UsbBridge -----------------------------
(***************************************************************************)
(* The bridge to the USB companion chip WB7720 (app/usb_bridge.c).  Every  *)
(* 47 ms one slot of a round is served: telemetry, then the push of one    *)
(* exception record, then a look at the commands the host has left in the  *)
(* chip's registers, then, every so many rounds, a refresh of the product  *)
(* data.  The host writes the registers between any two slots.  A read     *)
(* over I2C may fail, and no caller looks whether it did.                  *)
(***************************************************************************)
EXTENDS Naturals, Sequences

CONSTANTS Pages,      \* LOG_PAGE_COUNT
          PageSize,   \* MAX_RECORDS_PER_PAGE
          Telemetry,  \* slots before the push: 12
          Rounds,     \* rounds between two refreshes: 42
          Scenes,     \* bound: what else acts in one behaviour: "log", the commands of
                      \* the host ("eng", "prod", "erase", "time"), and reads that fail
          Failures    \* bound: how many fail

VARIABLES
  scene,     \* who acts
  cnt,       \* the slot
  force,     \* force_usb_mode: the user asked for USB and a host is on the wire
  enable,    \* is_usb_enable: the chip has been woken
  cursor,    \* exc_cursor_page, exc_cursor_idx
  log,       \* the pages of the log: for each record, whether it can be pushed
  offered,   \* history: the record last pushed
  refresh,   \* prodinfo_refresh_cnt
  mcu,       \* engineering mode, virtual values, cycle count and its copy in
             \* flash, clock, product data in flash
  wb,        \* the chip's registers
  host,      \* how far the host is with writing product data
  failures
vars == <<cnt, force, enable, cursor, log, offered, refresh, mcu, wb, host, failures, scene>>

Push == Telemetry
Check == Telemetry + 1
Refresh == Telemetry + 2
Page == 0 .. Pages - 1
First == [page |-> 0, idx |-> 0]
Keep == 3              \* a cycle count of 0xFFFF: leave it as it is
Old == <<"old", "old">>
Junk == <<"junk", "junk">>
Field == {"old", "new", "junk"}
Reads == {"mode", "time", "cmd", "prod", "virt", "cycle", "date", "info"}

TypeOK ==
  /\ scene \in Scenes /\ cnt \in 0 .. Refresh /\ {force, enable} \subseteq BOOLEAN
  /\ cursor \in [page : Page, idx : 0 .. PageSize]
  /\ \A p \in Page : Len(log[p]) <= PageSize
  /\ refresh \in 0 .. Rounds - 1 /\ host \in 0 .. 2 /\ failures \in 0 .. Failures
  /\ mcu \in [eng : BOOLEAN, virt : {"none", "host"}, cycle : 0 .. 2, saved : 0 .. 2,
              rtc : {"own", "host", "junk"}, product : [1 .. 2 -> Field]]
  /\ wb.cmd \in {"none", "erase", "refresh"} /\ wb.cycle \in 0 .. Keep

Init ==
  /\ scene \in Scenes /\ cnt = 0 /\ force = FALSE /\ enable = FALSE /\ cursor = First /\ offered = First
  /\ log = [p \in Page |-> <<>>] /\ refresh = 0 /\ host = 0 /\ failures = 0
  /\ mcu = [eng |-> FALSE, virt |-> "none", cycle |-> 1, saved |-> 1, rtc |-> "own", product |-> Old]
  /\ wb = [mode |-> FALSE, cmd |-> "none", virt |-> "none", cycle |-> 0, time |-> FALSE,
           prod |-> FALSE, product |-> Old]

-----------------------------------------------------------------------------
(* What a slot does to s, a record of mcu, wb, log and cursor; bad is the   *)
(* read that fails, junk what an uninitialised buffer makes of the clock.   *)

\* usb_bridge_sleep: the chip loses the count kept for the host.
Asleep(s) == [s EXCEPT !.mcu.eng = FALSE, !.mcu.virt = IF s.mcu.eng THEN "none" ELSE @, !.wb.cycle = 0]
Virtual(s, bad) == IF bad = "virt" THEN s ELSE [s EXCEPT !.mcu.virt = s.wb.virt]
usb_bridge_apply_eng_datetime(s, bad, junk) ==
  IF bad # "date" THEN [s EXCEPT !.mcu.rtc = "host"]
  ELSE IF junk THEN [s EXCEPT !.mcu.rtc = "junk"] ELSE s

\* A mode that cannot be read is 0: the host's request to leave.
usb_bridge_check_eng_mode(s, bad) ==
  LET asked == s.wb.mode /\ bad # "mode"
  IN IF asked /\ ~s.mcu.eng THEN Virtual([s EXCEPT !.mcu.eng = TRUE], bad)
     ELSE IF s.mcu.eng /\ ~asked
     THEN [s EXCEPT !.mcu.eng = FALSE, !.mcu.virt = "none", !.mcu.saved = s.mcu.cycle]
     ELSE s

usb_bridge_check_time_sync(s, bad, junk) ==
  IF s.wb.time /\ bad # "time"
  THEN [usb_bridge_apply_eng_datetime(s, bad, junk) EXCEPT !.wb.time = FALSE]
  ELSE s

\* A count that cannot be read is 0.
Counted(s, bad) ==
  LET n == IF bad = "cycle" THEN 0 ELSE s.wb.cycle
  IN IF n \in {Keep, s.mcu.cycle} THEN s ELSE [s EXCEPT !.mcu.cycle = n, !.mcu.saved = n]
usb_bridge_check_eng_cmd(s, bad, junk) ==
  IF ~s.mcu.eng \/ bad = "cmd" \/ s.wb.cmd = "none" THEN s
  ELSE IF s.wb.cmd = "erase"
       THEN [s EXCEPT !.log = [p \in Page |-> <<>>], !.cursor = First, !.wb.cmd = "none"]
  ELSE [Counted(usb_bridge_apply_eng_datetime(Virtual(s, bad), bad, junk), bad)
          EXCEPT !.wb.cmd = "none"]

usb_bridge_reset_product_info(s) == [s EXCEPT !.wb.product = s.mcu.product]
usb_bridge_check_prod_mode(s, bad) ==
  IF ~s.wb.prod \/ bad = "prod" THEN s
  ELSE [usb_bridge_reset_product_info(
          [s EXCEPT !.mcu.product = IF bad = "info" THEN Junk ELSE s.wb.product]) EXCEPT !.wb.prod = FALSE]

Commands(s, bad, junk) ==
  usb_bridge_check_prod_mode(
    usb_bridge_check_eng_cmd(
      usb_bridge_check_time_sync(usb_bridge_check_eng_mode(s, bad), bad, junk), bad, junk), bad)

-----------------------------------------------------------------------------
(* The push of the exception log.                                          *)

After(p) == (p + 1) % Pages
Filled(p) == log[p] # <<>>
\* The next page after p that holds a record, p itself the last to be tried.
NextFilled(p) ==
  LET far == {k \in 1 .. Pages : Filled((p + k) % Pages)}
  IN (p + CHOOSE k \in far : \A l \in far : k <= l) % Pages

\* Where the push starts, for records may have gone since the last one.
Start ==
  LET idx == IF cursor.idx >= Len(log[cursor.page]) THEN 0 ELSE cursor.idx
  IN IF Filled(cursor.page) THEN [cursor EXCEPT !.idx = idx]
     ELSE [page |-> NextFilled(cursor.page), idx |-> 0]
Past(c) == c.idx + 1 >= Len(log[c.page])
Pushed(c) == IF Past(c) THEN [page |-> NextFilled(c.page), idx |-> 0] ELSE [c EXCEPT !.idx = @ + 1]
\* A record that cannot be read is passed over, not its page.
SkippedPage(c) == [page |-> After(c.page), idx |-> 0]
Skipped(c) == IF Past(c) THEN [page |-> After(c.page), idx |-> 0] ELSE [c EXCEPT !.idx = @ + 1]

PushRecord ==
  /\ UNCHANGED <<mcu, log>>
  /\ IF \A p \in Page : ~Filled(p) THEN UNCHANGED <<cursor, offered>>
     ELSE IF log[Start.page][Start.idx + 1]
     THEN offered' = Start /\ cursor' = Pushed(Start)
     ELSE cursor' = Skipped(Start) /\ UNCHANGED offered

-----------------------------------------------------------------------------
(* usb_bridge_periodic_update                                              *)

Bad == {"-"} \cup (IF "failures" \in scene /\ failures < Failures THEN Reads ELSE {})
S == [mcu |-> mcu, wb |-> wb, log |-> log, cursor |-> cursor]
Becomes(s) == mcu' = s.mcu /\ wb' = s.wb /\ log' = s.log /\ cursor' = s.cursor

CheckCommands ==
  /\ cnt = Check /\ cnt' = Refresh
  /\ \E bad \in Bad, junk \in BOOLEAN :
       LET done == Commands(S, bad, junk)
       IN /\ Becomes(IF ~force /\ enable THEN Asleep(done) ELSE done)
          /\ failures' = failures + (IF bad = "-" THEN 0 ELSE 1)
  /\ enable' = (enable /\ force)
  /\ UNCHANGED <<force, offered, refresh, host>>

\* A flag that cannot be read is not set.
RefreshProduct ==
  /\ cnt = Refresh /\ cnt' = 0 /\ refresh' = (refresh + 1) % Rounds
  /\ \E bad \in Bad \cap {"-", "prod"} :
       /\ IF refresh' = 0 /\ (~wb.prod \/ bad = "prod")
          THEN wb' = [wb EXCEPT !.product = mcu.product] ELSE UNCHANGED wb
       /\ failures' = failures + (IF refresh' = 0 /\ bad = "prod" THEN 1 ELSE 0)
  /\ UNCHANGED <<force, enable, cursor, log, offered, mcu, host>>

\* Without USB the chip is put to sleep and nothing is written to it.
Quiet ==
  /\ cnt < Check /\ ~force /\ cnt' = cnt + 1 /\ enable' = FALSE
  /\ Becomes(IF enable THEN Asleep(S) ELSE S)
  /\ UNCHANGED <<force, offered, refresh, host, failures>>

\* Woken, the chip gets the product data and the cycle count first.
Woken == IF enable THEN wb ELSE [wb EXCEPT !.product = mcu.product, !.cycle = mcu.cycle]
Telemeter ==
  /\ cnt < Push /\ force /\ cnt' = cnt + 1 /\ enable' = TRUE /\ wb' = Woken
  /\ UNCHANGED <<force, cursor, log, offered, refresh, mcu, host, failures>>
PushSlot ==
  /\ cnt = Push /\ force /\ cnt' = Check /\ enable' = TRUE /\ wb' = Woken /\ PushRecord
  /\ UNCHANGED <<force, refresh, host, failures>>

usb_bridge_periodic_update ==
  CheckCommands \/ RefreshProduct \/ Quiet \/ Telemeter \/ PushSlot

-----------------------------------------------------------------------------
(* The user, the log and the host.                                         *)

Others == <<cnt, enable, cursor, offered, refresh, mcu, failures>>
\* ubsd_wb7720_report_update: three clicks and a host, or neither.
Force == force' = ~force /\ UNCHANGED <<Others, log, wb, host>>

\* A record is added, and a full log recycles its next page.
Log ==
  /\ "log" \in scene
  /\ \E p \in Page, ok \in BOOLEAN :
       \/ Len(log[p]) < PageSize /\ log' = [log EXCEPT ![p] = Append(@, ok)]
       \/ Len(log[p]) = PageSize /\ log' = [log EXCEPT ![p] = <<ok>>]
  /\ UNCHANGED <<Others, force, wb, host>>

Write(w) == wb' = w /\ UNCHANGED <<Others, force, log>>
HostEngineers ==
  /\ "eng" \in scene /\ UNCHANGED host
  /\ \/ \E on \in BOOLEAN : Write([wb EXCEPT !.mode = on])
     \/ wb.mode /\ wb.cmd = "none" /\ \E n \in {2, Keep} :
          Write([wb EXCEPT !.cmd = "refresh", !.virt = "host", !.cycle = n])
HostErases == "erase" \in scene /\ wb.mode /\ wb.cmd = "none" /\ UNCHANGED host /\ Write([wb EXCEPT !.cmd = "erase"])
HostSetsTime == "time" \in scene /\ UNCHANGED host /\ Write([wb EXCEPT !.time = TRUE])
\* The fields one after the other, then the flag: the chip takes them as a whole.
HostProduces ==
  /\ "prod" \in scene /\ ~wb.prod
  /\ \/ host < 2 /\ host' = host + 1 /\ Write([wb EXCEPT !.product[host + 1] = "new"])
     \/ host = 2 /\ host' = 0 /\ Write([wb EXCEPT !.prod = TRUE])

Next ==
  /\ \/ usb_bridge_periodic_update \/ Force \/ Log
     \/ HostEngineers \/ HostErases \/ HostSetsTime \/ HostProduces
  /\ UNCHANGED scene
Spec == Init /\ [][Next]_vars /\ WF_vars(usb_bridge_periodic_update /\ UNCHANGED scene)
-----------------------------------------------------------------------------
\* The host's virtual values stand for the measured ones in engineering mode only,
\* whichever reads fail and however the mode is left.
VirtualOnlyInEng == mcu.virt # "none" => mcu.eng

Readable(p, i) == p \in DOMAIN log /\ i \in DOMAIN log[p] /\ log[p][i]
\* Every record that can be read is pushed again and again to a host that stays,
\* once the log does not change any more (cursor of the push).
EveryRecord ==
  \A p \in Page : \A i \in 1 .. PageSize :
    <>[](force /\ Readable(p, i))
      => []<>(offered = [page |-> p, idx |-> i - 1]) \/ []<><<log' # log>>_log

=============================================================================
