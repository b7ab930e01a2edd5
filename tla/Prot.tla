-------------------------------- MODULE Prot -------------------------------
(***************************************************************************)
(* The protections of the wireless transmitter (app/prot.c) as the         *)
(* application task polls them (app/app.c): every 10 ms the coil current,  *)
(* the bridge voltage and their product, every 100 ms the temperatures     *)
(* and, unless the key is held, the cells of the battery.  A protection    *)
(* trips after a run of bad readings and recovers after a run of readings  *)
(* beyond its hysteresis.  The die temperature is not measured, the coil's *)
(* thermistor always reads 25 degrees and vbus is the constant 9000, so    *)
(* the other five checks only ever see a good reading.                     *)
(***************************************************************************)
EXTENDS Naturals, FiniteSets

CONSTANTS
  Live,              \* the checks whose readings vary
  Over, Reco,        \* readings it takes to trip and to recover, less one
  Suspect,           \* 50: polls an incredible voltage is waited for
  Consec             \* OVER_VOLTAGE_FORBID_CONSEC_COUNT: 10

Checks == {"tdie_otp", "tdie_utp", "isns_ocp", "vbus_ovp", "vbus_uvp",
           "vbus_dpl", "vpwr_ovp", "pout_opp"}
Readings == {"bad", "between", "good"}
Cells == {"normal", "high", "incredible"}  \* below 4800, up to 5200, above

VARIABLES
  flag, over_cnt, reco_cnt,   \* of every check
  coil,                       \* the coil is driven
  bat_ov_forbid_flag, consec_cnt, delay_left, delay_done,
  woke_mode,                  \* of the converter: "shutdown" or "work"
  bad, good, high, wild,      \* history: bad (good) readings in a row; and polls of
                              \* the cells above the limit, above 5200 mV, in a row
  forgiven                    \* history: the flag was cleared, and no cell below
                              \* the limit was looked at since
vars == <<flag, over_cnt, reco_cnt, coil, bat_ov_forbid_flag, consec_cnt, delay_left,
          delay_done, woke_mode, bad, good, high, wild, forgiven>>
battery == <<bat_ov_forbid_flag, consec_cnt, delay_left, delay_done, woke_mode, high, wild, forgiven>>

\* vbus_dpl only marks a bit of the control error; the others stop the transmitter.
Stops == Checks \ {"vbus_dpl"}
Least(a, b) == IF a < b THEN a ELSE b

TypeOK == /\ flag \in [Checks -> BOOLEAN] /\ coil \in BOOLEAN
          /\ \A c \in Checks : over_cnt[c] \in 0..Over[c] + 1 /\ reco_cnt[c] \in 0..Reco[c] + 1
          /\ bat_ov_forbid_flag \in BOOLEAN /\ delay_done \in BOOLEAN
          /\ consec_cnt \in 0..Consec + 1 /\ delay_left \in 0..Suspect
          /\ woke_mode \in {"shutdown", "work"}

Init == /\ flag = [c \in Checks |-> FALSE] /\ coil = FALSE
        /\ over_cnt = [c \in Checks |-> 0] /\ reco_cnt = [c \in Checks |-> 0]
        /\ bat_ov_forbid_flag = FALSE /\ consec_cnt = 0 /\ delay_left = 0 /\ delay_done = FALSE
        /\ woke_mode = "work" /\ high = 0 /\ wild = 0 /\ forgiven = FALSE
        /\ bad = [c \in Checks |-> 0] /\ good = [c \in Checks |-> 0]

\* One reading of one check: what its flag and its counters become.
CheckKeepsOver(c, r) ==
  IF flag[c]
  THEN LET n == IF r = "good" THEN reco_cnt[c] + 1 ELSE 0
       IN [flag |-> n <= Reco[c], over |-> over_cnt[c], reco |-> n]
  ELSE LET n == IF r = "bad" THEN Least(over_cnt[c], Over[c]) + 1 ELSE 0
       IN [flag |-> n > Over[c], over |-> n, reco |-> IF n > Over[c] THEN 0 ELSE reco_cnt[c]]
Check(c, r) ==
  IF flag[c]
  THEN LET n == IF r = "good" THEN reco_cnt[c] + 1 ELSE 0
       IN [flag |-> n <= Reco[c], over |-> IF n > Reco[c] THEN 0 ELSE over_cnt[c], reco |-> n]
  ELSE LET n == IF r = "bad" THEN over_cnt[c] + 1 ELSE 0
       IN [flag |-> n > Over[c], over |-> n, reco |-> IF n > Over[c] THEN 0 ELSE reco_cnt[c]]

fml_tdie_otp_check(r) == Check("tdie_otp", r)
fml_tdie_utp_check(r) == Check("tdie_utp", r)
fml_isns_ocp_check(r) == Check("isns_ocp", r)
fml_vbus_ovp_check(r) == Check("vbus_ovp", r)
fml_vbus_uvp_check(r) == Check("vbus_uvp", r)
fml_vbus_dpl_check(r) == Check("vbus_dpl", r)
fml_vpwr_ovp_check(r) == Check("vpwr_ovp", r)
fml_pout_opp_check(r) == Check("pout_opp", r)

\* A poll makes the checks of done; any flag of theirs stops the transmitter.
Poll(done, reads) ==
  /\ flag' = [c \in Checks |-> IF c \in DOMAIN done THEN done[c].flag ELSE flag[c]]
  /\ over_cnt' = [c \in Checks |-> IF c \in DOMAIN done THEN done[c].over ELSE over_cnt[c]]
  /\ reco_cnt' = [c \in Checks |-> IF c \in DOMAIN done THEN done[c].reco ELSE reco_cnt[c]]
  /\ coil' = (coil /\ ~\E c \in DOMAIN done \cap Stops : done[c].flag)
  /\ bad' = [c \in Checks |-> IF c \notin DOMAIN done THEN bad[c]
                              ELSE IF reads[c] # "bad" THEN 0 ELSE Least(bad[c], Over[c]) + 1]
  /\ good' = [c \in Checks |-> IF c \notin DOMAIN done THEN good[c]
                               ELSE IF reads[c] # "good" THEN 0 ELSE Least(good[c], Reco[c]) + 1]

\* APL_EVT_010ms_POLL
apl_evt_010ms ==
  \E live \in [Live -> Readings] :
    LET reads == [c \in Checks |-> IF c \in Live THEN live[c] ELSE "good"]
    IN /\ Poll([c \in {"isns_ocp", "vpwr_ovp", "vbus_ovp", "vbus_uvp", "vbus_dpl", "pout_opp"} |->
                 CASE c = "isns_ocp" -> fml_isns_ocp_check(reads[c])
                   [] c = "vpwr_ovp" -> fml_vpwr_ovp_check(reads[c])
                   [] c = "vbus_ovp" -> fml_vbus_ovp_check(reads[c])
                   [] c = "vbus_uvp" -> fml_vbus_uvp_check(reads[c])
                   [] c = "vbus_dpl" -> fml_vbus_dpl_check(reads[c])
                   [] c = "pout_opp" -> fml_pout_opp_check(reads[c])], reads)
       /\ UNCHANGED battery

\* A voltage above 5200 mV is believed only when it has lasted Suspect polls.
Doubted(cell) == cell = "incredible" /\ ~delay_done /\ delay_left # 1
\* The two static variables of the delay, and the verdict.
Suspicion(cell) ==
  /\ delay_done' = (cell = "incredible" /\ (delay_done \/ delay_left = 1))
  /\ delay_left' = IF cell # "incredible" THEN 0
                   ELSE IF delay_done THEN delay_left
                   ELSE IF delay_left = 0 THEN Suspect ELSE delay_left - 1
Verdict(cell) ==
  LET n == IF cell = "normal" THEN 0 ELSE Least(consec_cnt, Consec) + 1
  IN /\ consec_cnt' = n /\ bat_ov_forbid_flag' = (n >= Consec)
     /\ woke_mode' = IF n >= Consec THEN "shutdown" ELSE woke_mode

Seen(cell) ==
  /\ high' = IF cell = "normal" THEN 0 ELSE Least(high, Consec - 1) + 1
  /\ wild' = IF cell # "incredible" THEN 0 ELSE Least(wild, Suspect) + 1
  /\ forgiven' = (forgiven /\ (bat_ov_forbid_flag \/ cell # "normal"))

fml_bat_ov_forbid_check(cell) ==
  /\ Seen(cell)
  /\ IF bat_ov_forbid_flag
     THEN woke_mode' = "shutdown" /\ UNCHANGED <<bat_ov_forbid_flag, consec_cnt, delay_left, delay_done>>
     ELSE /\ Suspicion(cell)
          /\ IF Doubted(cell) THEN UNCHANGED <<bat_ov_forbid_flag, consec_cnt, woke_mode>>
             ELSE Verdict(cell)

\* APL_EVT_100ms_POLL.  While the key is held the cells are not looked at.
apl_evt_100ms ==
  /\ Poll([c \in {"tdie_otp", "tdie_utp"} |-> IF c = "tdie_otp" THEN fml_tdie_otp_check("good")
                                              ELSE fml_tdie_utp_check("good")],
          [c \in Checks |-> "good"])
  /\ \/ UNCHANGED battery
     \/ \E cell \in Cells : fml_bat_ov_forbid_check(cell)

\* The idle phase pings only when no flag is set (fml/wpc_idle.c).
Ping == ~coil /\ ~bat_ov_forbid_flag /\ ~(\E c \in Checks : flag[c]) /\ coil' = TRUE
        /\ UNCHANGED <<flag, over_cnt, reco_cnt, bad, good>> /\ UNCHANGED battery
\* The port manager sets the converter's mode whatever the flag says.
PortWorks == woke_mode = "shutdown" /\ woke_mode' = "work"
             /\ UNCHANGED <<flag, over_cnt, reco_cnt, coil, bad, good, bat_ov_forbid_flag, consec_cnt,
                            delay_left, delay_done, high, wild, forgiven>>
\* Four clicks of the key clear the flag, and not the count that set it.
key_quad_click_process ==
  bat_ov_forbid_flag /\ bat_ov_forbid_flag' = FALSE /\ forgiven' = TRUE
  /\ UNCHANGED <<flag, over_cnt, reco_cnt, coil, bad, good, consec_cnt, delay_left, delay_done,
                 woke_mode, high, wild>>

Next == apl_evt_010ms \/ apl_evt_100ms \/ Ping \/ PortWorks \/ key_quad_click_process
Spec == Init /\ [][Next]_vars

-----------------------------------------------------------------------------
\* A protection trips only on a full run of bad readings, counted anew after
\* every recovery, and recovers only on a full run beyond its hysteresis.
Debounced == [][\A c \in Checks :
                  /\ ~flag[c] /\ flag'[c] => bad'[c] = Over[c] + 1
                  /\ flag[c] /\ ~flag'[c] => good'[c] = Reco[c] + 1]_vars
\* The coil is off as long as a protection that stops it holds.
NeverUnderFault == coil => \A c \in Stops : ~flag[c]
\* The battery is forbidden only after Consec polls in a row above the limit, and
\* on a voltage the cells cannot have only after the whole delay, unless the key
\* has just taken back an earlier verdict.
Believed == [][~bat_ov_forbid_flag /\ bat_ov_forbid_flag' /\ ~forgiven =>
                 high' = Consec /\ (wild' > 0 => wild' > Suspect)]_vars
=============================================================================
