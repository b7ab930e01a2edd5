------------------------------- MODULE Demod -------------------------------
(***************************************************************************)
(* What the second demodulator listens to.  The analog front end (nu103x)  *)
(* gives its output to the pad of ECAP2; the digital demodulator feeds     *)
(* ECAP2 and ECAP4 inside the chip.  The ping chooses a path, the end of   *)
(* configuration or negotiation goes back to the analog one, and in power  *)
(* transfer fml_ask_dmo2_xfer_cfg (lib/ask.c) tries the next of four       *)
(* configurations whenever no packet was heard for 350 ms.  Three statics  *)
(* outlive the session.  Gains, band filters and the first demodulator,    *)
(* whose path never changes, are left out.                                 *)
(***************************************************************************)
EXTENDS Naturals

VARIABLES
  phase,    \* the power signal: "off", "ping" (until transfer) or "xfer"
  fast,     \* the operating frequency is 360 kHz
  ecap2,    \* what ECAP2 captures: nothing, the pad, the digital path, or Q
  ecap4,    \* ECAP4 captures the digital path
  out,      \* nu103x_sts_curr.DMO2_OUT_MODE
  last,     \* last_dig_ddm_enable
  cfg_cnt,  \* cfg_cnt of fml_ask_dmo2_xfer_cfg
  src,      \* curr_dmo2_cfg.src, once this session has chosen one
  plain     \* history: a receiver that is no MPP one went into transfer at 360 kHz
vars == <<phase, fast, ecap2, ecap4, out, last, cfg_cnt, src, plain>>

DDM_XFER_CFG_SIZE == 4
Sources == {"vcap", "phase", "digital"}
Loads == {"low", "mid", "high"}

TypeOK == /\ phase \in {"off", "ping", "xfer"} /\ {fast, ecap4, last, plain} \subseteq BOOLEAN
          /\ ecap2 \in {"closed", "pad", "ddm", "qdt"} /\ out \in {"ddm", "qdt", "cap"}
          /\ cfg_cnt \in 0..(DDM_XFER_CFG_SIZE - 1) /\ src \in Sources \cup {"none"}

\* The tables, by the transmitted power (up to 2.5 W, up to 6 W, above).
cfg_normal_xfer == [low  |-> <<"vcap", "phase", "vcap", "phase">>,
                    mid  |-> <<"phase", "vcap", "phase", "vcap">>,
                    high |-> <<"vcap", "vcap", "vcap", "phase">>]
cfg_360_cpm_xfer == [low  |-> <<"vcap", "digital", "phase", "digital">>,
                     mid  |-> <<"phase", "digital", "vcap", "digital">>,
                     high |-> <<"vcap", "digital", "vcap", "digital">>]

Digital == ecap2' = "ddm" /\ ecap4' = TRUE /\ out' = "cap"
Analog == ecap2' = "pad" /\ ecap4' = FALSE /\ out' = "ddm"

Init == /\ phase = "off" /\ fast = FALSE /\ ecap2 = "closed" /\ ecap4 = FALSE /\ out = "ddm"
        /\ last = FALSE /\ cfg_cnt = 0 /\ src = "none" /\ plain = FALSE

\* The pings: fml_ask_enable opens ECAP1 and ECAP2 on their pads; at 360 kHz
\* the digital path is then taken, past last_dig_ddm_enable.
Ping128 ==
  /\ phase = "off" /\ phase' = "ping" /\ fast' = FALSE /\ ecap2' = "pad" /\ out' = "ddm"
  /\ UNCHANGED <<ecap4, last, cfg_cnt, src, plain>>
Ping360 ==
  /\ phase = "off" /\ phase' = "ping" /\ fast' = TRUE /\ Digital
  /\ UNCHANGED <<last, cfg_cnt, src, plain>>

\* SRQ/end, and a restricted receiver's configuration: back to the analog path.
BackToAnalog == IF fast /\ out = "cap" THEN Analog ELSE UNCHANGED <<ecap2, ecap4, out>>
Contract ==
  /\ phase = "ping" /\ phase' = "xfer" /\ BackToAnalog
  /\ UNCHANGED <<fast, last, cfg_cnt, src, plain>>
\* The configuration of any other receiver has no such step.
Baseline ==
  /\ phase = "ping" /\ phase' = "xfer" /\ plain' = fast
  /\ UNCHANGED <<fast, ecap2, ecap4, out, last, cfg_cnt, src>>

\* The switch does nothing if its own last call asked for the same.
dig_ddm_enable(on) ==
  IF last = on THEN UNCHANGED <<ecap2, ecap4, out, last>>
  ELSE last' = on /\ IF on THEN Digital ELSE Analog
dmo2_cfg(source) ==
  /\ src' = source
  /\ IF source = "digital" THEN dig_ddm_enable(TRUE)
     ELSE IF last THEN dig_ddm_enable(FALSE)
     ELSE out' = "ddm" /\ UNCHANGED <<ecap2, ecap4, last>>
\* 350 ms, or 650 ms, without a packet on this channel.
dmo2_xfer_cfg(load) ==
  /\ phase = "xfer"
  /\ cfg_cnt' = (cfg_cnt + 1) % DDM_XFER_CFG_SIZE
  /\ dmo2_cfg((IF fast THEN cfg_360_cpm_xfer ELSE cfg_normal_xfer)[load][cfg_cnt' + 1])
  /\ UNCHANGED <<phase, fast, plain>>

\* wpc_stop_power: fml_ask_disable and fml_nu103x_por_rst.
Stop ==
  /\ phase # "off" /\ phase' = "off" /\ ecap2' = "closed" /\ ecap4' = FALSE /\ out' = "ddm"
  /\ src' = "none" /\ plain' = FALSE /\ UNCHANGED <<fast, last, cfg_cnt>>
\* A measurement of Q borrows the capture unit.
Qdt == phase = "off" /\ ecap2' = "qdt" /\ out' = "qdt" /\ UNCHANGED <<phase, fast, ecap4, last, cfg_cnt, src, plain>>

Next == \/ Ping128 \/ Ping360 \/ Contract \/ Baseline \/ Stop \/ Qdt
        \/ \E load \in Loads : dmo2_xfer_cfg(load)
Spec == Init /\ [][Next]_vars

\* In power transfer the capture units and the front end are set for the source
\* that was chosen last, and for the analog one until a choice was made: the
\* ping and the stop go past the static that fml_ask_dig_ddm_enable trusts, and
\* it stays true only because the tables never have two digital entries in a row
\* and the negotiation closed the path.  (A receiver that goes into transfer
\* at 360 kHz without being an MPP one keeps the digital path: plain.)
Agrees ==
  (phase = "xfer" /\ ~plain) =>
     IF src = "digital" THEN ecap2 = "ddm" /\ ecap4 /\ out = "cap"
     ELSE ecap2 = "pad" /\ ~ecap4 /\ out = "ddm"
=============================================================================
