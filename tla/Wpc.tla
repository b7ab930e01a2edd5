-------------------------------- MODULE Wpc ---------------------------------
(***************************************************************************)
(* The wireless transmitter task: app/_wpc.c and the phase handlers of     *)
(* app/wpc_ping.c, wpc_cnfg.c, wpc_nego.c, wpc_xfer.c and wpc_idle.c, as   *)
(* the scheduler runs it.  Events of the task collect in `posted`; the     *)
(* scheduler copies the word to `batch` and calls the handler once per bit,*)
(* lowest first, so an event may be handled after the one that made it     *)
(* stale.  Timers expire, other tasks run and packets are decoded between  *)
(* batches; the FSK interrupt and the duty ramp of TMR3 come at any time.  *)
(*                                                                         *)
(* Time is abstract: an armed timer may expire at any moment, within what  *)
(* PassesAreShort says.  A received packet is a kind of Packet, chosen when*)
(* it is handled (gd->wpc_pkt holds the last one decoded).  Built with     *)
(* ENABLE_EPP_FUNC 0 and without _CLOAK_TX_INIT.                           *)
(***************************************************************************)
EXTENDS Integers, FiniteSets

CONSTANTS
    OptMod,         \* 2^8, the range of rx_infos.opt_cnt
    CfgCount,       \* the optional packet counts of a configuration packet
    Rx,             \* the packets a receiver sends, among Packet
    MaxPosted       \* bound: interrupts and timers post while fewer are pending

Phase == {"IDLE", "PING", "CNFG", "NEGO", "XFER", "CLOAK"}

\* WPC_EVT_*, in the order of their bits.  "WND" stands for 1ST_WND .. 4TH_WND.
Order == <<"DIG_PING", "PIN_NO_PKT", "HDR_START", "HDR_RECVD", "PKT_RECVD",
           "PING_1st_PKT_TO", "STOP_POWER", "CNFG_NEXT_1ST_TO", "CNFG_NEXT_PKT_TO",
           "CEP_TO", "RPP_TO", "PCH_TO", "WND", "PFOD", "NEGO_NEXT_PKT_TO",
           "FSK_RESP_DONE", "SE_IC_TBS_AUTH", "CLOAK_PING", "STOP_AFTER_FSK", "RENEGO_TO">>
Evt == {Order[i] : i \in 1 .. 20}

Timer == {"NEXT", "CEP", "RPP", "NEGO", "PING"}

\* Packets by what the handlers do with them.  IDX: identification with the
\* extension bit.  XIDM/XIDR: extended identification of an MPP receiver,
\* unrestricted or restricted.  PCHX: a delay out of range.  CLOAKX: a cloak
\* reason above 6.  REPORTX: a report with another receiver's id.  SRQF0:
\* the request for 360 kHz.  BAD: a header the phase's list of illegal ones has.
Packet == {"EPT", "SIG", "ID", "IDX", "XID", "XIDM", "XIDR", "PCH", "PCHX", "CFG",
           "CE", "RP8", "XCE", "SRQ00", "SRQF0", "NEGO", "GET", "CLOAK", "CLOAKX",
           "REPORT", "REPORTX", "SADT", "OTHER", "BAD"}

ASSUME WpcAssumption ==
    /\ OptMod \in Nat /\ 4 < OptMod /\ CfgCount \subseteq Nat
    /\ \A n \in CfgCount : n + 4 < OptMod
    /\ Rx \subseteq Packet
    /\ MaxPosted \in Nat

VARIABLES
    phase,                                  \* gd->ptx_protocol_phase
    pwm, ramp, freq,                        \* EPWM1 enabled; tim3_evnt & 1; kHz
    ask,                                    \* "on", "off", or "tail": off, with samples left
    fsk,                                    \* a transmission under way
    pingType,                               \* tx_infos.dig_ping_type
    profile, restricted, ext, opt_cnt,      \* rx_infos; ext is in its device_id
    renego, endNego,                        \* gd->renego_flag, ptx_end_nego_event
    cloak, cloakDone,                       \* flg_mode_cloak, fsk_done_event & 4
    tm,                                     \* the event each timer posts, or "off"
    posted, batch,                          \* the event word and its copy
    \* History variables, for the properties only:
    known,                                  \* the identification packets accepted since SIG
    astray                                  \* what went wrong since the last ping: see its uses

air   == <<pwm, ramp, freq, ask>>
rx    == <<profile, restricted, ext, opt_cnt>>
flags == <<renego, endNego, cloak, cloakDone>>
queue == <<posted, batch>>
ghost == <<known, astray>>
vars  == <<phase, air, fsk, pingType, rx, flags, tm, queue, ghost>>

TypeOK ==
    /\ phase \in Phase
    /\ pwm \in BOOLEAN /\ ramp \in BOOLEAN /\ freq \in {128, 360}
    /\ ask \in {"on", "tail", "off"} /\ fsk \in BOOLEAN
    /\ pingType \in {128, 360}
    /\ profile \in {"BPP", "MPP"} /\ restricted \in BOOLEAN /\ ext \in BOOLEAN
    /\ opt_cnt \in 0 .. OptMod-1
    /\ renego \in BOOLEAN /\ endNego \in BOOLEAN
    /\ cloak \in BOOLEAN /\ cloakDone \in BOOLEAN
    /\ tm \in [Timer -> Evt \cup {"off"}]
    /\ posted \subseteq Evt /\ batch \subseteq Evt
    /\ known \subseteq {"ID", "XID"} /\ astray \subseteq {"late", "relit", "left", "reason", "lost"}

\* wpc_task_init, on the zeroed globals
Init ==
    /\ phase = "IDLE"
    /\ pwm = FALSE /\ ramp = FALSE /\ freq = 128
    /\ ask = "off" /\ fsk = FALSE
    /\ pingType = 128
    /\ profile = "BPP" /\ restricted = FALSE /\ ext = FALSE /\ opt_cnt = 0
    /\ renego = FALSE /\ endNego = FALSE /\ cloak = FALSE /\ cloakDone = FALSE
    /\ tm = [t \in Timer |-> IF t = "PING" THEN "DIG_PING" ELSE "off"]
    /\ posted = {} /\ batch = {}
    /\ known = {} /\ astray = {}

-----------------------------------------------------------------------------
(* Events: from the timers, the decoder, the interrupts and other tasks.   *)

Post(e) == posted' = posted \cup {e}

\* Interrupts, timers and other tasks post while fewer than MaxPosted are pending.
Room == Cardinality(posted) < MaxPosted

\* The next ping comes 100 ms after a stop, or 90 ms in cloak: the 10 ms to the
\* end of a cloak session are over, the session's last packets, interrupts and
\* timeouts have been handled and the windows that may follow them (32 ms) closed.
PassesAreShort ==
    /\ "STOP_AFTER_FSK" \notin posted \cup {tm["NEXT"]}
    /\ ask # "on" =>
         /\ ask = "off" /\ tm["NEXT"] # "WND"
         /\ posted \subseteq {"STOP_POWER", "RENEGO_TO", "SE_IC_TBS_AUTH"}

\* osal_timer_update: WPC_PING_TIMER is periodic, the others are one-shot.
Expire(t) ==
    /\ batch = {} /\ Room /\ tm[t] # "off"
    /\ t = "PING" => PassesAreShort
    /\ Post(tm[t])
    /\ tm' = [tm EXCEPT ![t] = IF t = "PING" THEN @ ELSE "off"]
    /\ UNCHANGED <<phase, air, fsk, pingType, rx, flags, batch, ghost>>

\* The decoder, in the task FML_TASK, over captured edges: some are left when
\* fml_ask_disable stops the capture.
Decode ==
    /\ batch = {} /\ Room /\ ask # "off"
    /\ \E e \in {"HDR_START", "HDR_RECVD", "PKT_RECVD"} : Post(e)
    /\ ask' \in IF ask = "on" THEN {"on"} ELSE {"tail", "off"}
    /\ UNCHANGED <<phase, pwm, ramp, freq, fsk, pingType, rx, flags, tm, batch, ghost>>

\* fml_fsk_int_callback
FskDone ==
    /\ fsk /\ Room
    /\ fsk' = FALSE
    /\ Post("FSK_RESP_DONE")
    /\ UNCHANGED <<phase, air, pingType, rx, flags, tm, batch, ghost>>

\* wpc_stop_to_idle from protection, foreign object detection, the port manager
OtherStop ==
    /\ batch = {} /\ Room
    /\ Post("STOP_POWER")
    /\ UNCHANGED <<phase, air, fsk, pingType, rx, flags, tm, batch, ghost>>

\* TMR3_IRQHandler, duty ramp: the last step clears the bit.
RampStep ==
    /\ ramp
    /\ ramp' \in BOOLEAN
    /\ pwm' = TRUE
    /\ astray' = IF pwm THEN astray ELSE astray \cup {"relit"}
    /\ UNCHANGED <<phase, freq, ask, fsk, pingType, rx, flags, tm, queue, known>>

\* osal_event_handle takes the event word; the handler then runs for each bit.
Take ==
    /\ batch = {} /\ posted # {}
    /\ batch' = posted /\ posted' = {}
    /\ UNCHANGED <<phase, air, fsk, pingType, rx, flags, tm, ghost>>

Bit(e) == CHOOSE i \in 1 .. 20 : Order[i] = e

Handling(e) ==
    /\ e \in batch
    /\ \A f \in batch : Bit(e) <= Bit(f)
    /\ batch' = batch \ {e}

-----------------------------------------------------------------------------
(* What handlers do.                                                       *)

Set(t, e)  == [tm EXCEPT ![t] = e]          \* osal_start_timerEx
Clear(S)   == [t \in Timer |-> IF t \in S THEN "off" ELSE tm[t]]
Unsupervised(f) == f
Supervise(f) == [f EXCEPT !.CEP = "CEP_TO", !.RPP = "RPP_TO"]

Stop == Post("STOP_POWER")                  \* wpc_stop_to_idle

\* What a stop does to the ping timer
PingForgotten(f) == f
PingAgain(f) == [f EXCEPT !.PING = IF cloak THEN @ ELSE "DIG_PING"]

\* fml_fsk_data_send: returns at once unless the PWM runs.
Send == fsk' = (fsk \/ pwm)

\* wpc_stop_power
StopPower ==
    /\ Handling("STOP_POWER")
    /\ UNCHANGED <<ramp, freq, rx, flags, posted, ghost>>
    /\ \/ phase = "IDLE" /\ UNCHANGED <<phase, pwm, ask, fsk, pingType, tm>>
       \/ /\ phase # "IDLE"
          /\ pingType' = IF pwm /\ freq = 360 /\ ~cloak THEN 128 ELSE pingType
          /\ pwm' = FALSE /\ fsk' = FALSE
          /\ ask' \in IF ask = "on" THEN {"tail", "off"} ELSE {ask}
          /\ phase' = IF cloak THEN "CLOAK" ELSE "IDLE"
          /\ tm' = PingAgain(Clear({"NEXT", "CEP", "RPP"}))

\* wpc_idle_phase_process.  It locks on the state of charge and on the battery's
\* temperature, which stops the session; gives way to ports, protection and
\* foreign objects; or pings.
DigPing ==
    /\ Handling("DIG_PING")
    /\ UNCHANGED <<rx, endNego, cloak, cloakDone, fsk>>
    /\ \/ /\ Stop \/ UNCHANGED posted
          /\ UNCHANGED <<phase, air, pingType, renego, tm, ghost>>
       \/ /\ phase = "IDLE"
          /\ phase' = "PING"
          /\ freq' = pingType /\ pingType' = 128
          /\ pwm' = TRUE /\ ask' = "on"
          /\ ramp' = (ramp \/ freq' = 128)
          /\ renego' = (renego /\ freq' # 128)
          /\ tm' = [tm EXCEPT !.NEXT = "PIN_NO_PKT", !.PING = "off"]
          /\ astray' = {}
          /\ UNCHANGED <<posted, known>>

\* wpc_idle_cloak_phase_process: pings, finds the receiver gone, probes it with
\* 2 ms of power, or only counts.
CloakDigPing ==
    /\ phase' = "CLOAK"
    /\ pwm' = TRUE /\ freq' = 360 /\ ask' = "on"
    /\ tm' = [tm EXCEPT !.NEXT = "PIN_NO_PKT", !.PING = "off"]
    /\ astray' = {}
    /\ UNCHANGED <<ramp, fsk, cloak>>

CloakGone ==
    /\ phase' = "IDLE" /\ cloak' = FALSE
    /\ tm' = [tm EXCEPT !.NEXT = "off", !.PING = "DIG_PING"]
    /\ astray' = IF pwm THEN astray \cup {"left"} ELSE astray
    /\ UNCHANGED <<air, fsk>>

CloakProbe ==
    /\ pwm' = FALSE /\ freq' = 360 /\ fsk' = FALSE
    /\ UNCHANGED <<phase, ramp, ask, cloak, tm, astray>>

CloakPing ==
    /\ Handling("CLOAK_PING")
    /\ \/ cloak /\ (CloakDigPing \/ CloakGone \/ CloakProbe)
       \/ UNCHANGED <<phase, air, fsk, cloak, tm, astray>>
    /\ UNCHANGED <<pingType, rx, renego, endNego, cloakDone, posted, known>>

\* No answer to a ping, or none to its first bytes
PingTimeout(e) ==
    /\ Handling(e)
    /\ cloak' = FALSE
    /\ Stop
    /\ UNCHANGED <<phase, air, fsk, pingType, rx, renego, endNego, cloakDone, tm, ghost>>

\* The timeouts that only stop the session
Timeout(e) ==
    /\ Handling(e)
    /\ Stop
    /\ UNCHANGED <<phase, air, fsk, pingType, rx, flags, tm, ghost>>

\* Handlers that at most start a timer
Continue(e, timers) ==
    /\ Handling(e)
    /\ tm' \in timers
    /\ UNCHANGED <<phase, air, fsk, pingType, rx, flags, posted, ghost>>

PchTo == Continue("PCH_TO", {Set("NEXT", "WND")})

Wnd == Continue("WND", {tm, Set("NEXT", "WND")})        \* the last of four starts none

AuthDone == Continue("SE_IC_TBS_AUTH", {tm})

HdrStart ==
    Continue("HDR_START", {IF phase = "CNFG" THEN Set("NEXT", "CNFG_NEXT_PKT_TO") ELSE tm})

\* wpc_pkt_hdr_handler, for any header
HdrRecvd ==
    Continue("HDR_RECVD",
             CASE phase \in {"PING", "CNFG"} -> {Set("NEXT", "PING_1st_PKT_TO")}
               [] phase \in {"NEGO", "XFER"} -> {tm, Set("CEP", "CEP_TO"), Set("RPP", "RPP_TO")}
               [] phase = "CLOAK" -> {tm, Set("NEXT", "PIN_NO_PKT")}
               [] OTHER -> {tm})

\* pfod_common finds a foreign object, or does not.
Pfod ==
    /\ Handling("PFOD")
    /\ Stop \/ UNCHANGED posted
    /\ UNCHANGED <<phase, air, fsk, pingType, rx, flags, tm, ghost>>

\* WPC_EVT_FSK_RESP_DONE: a cloak acknowledged, power goes off in 10 ms.
FskRespDone ==
    /\ Handling("FSK_RESP_DONE")
    /\ cloakDone' = FALSE
    /\ tm' = IF cloakDone
                THEN [tm EXCEPT !.NEXT = "STOP_AFTER_FSK", !.PING = "CLOAK_PING"]
                ELSE tm
    /\ astray' = IF cloakDone /\ phase = "IDLE" THEN astray \cup {"lost"} ELSE astray
    /\ UNCHANGED <<phase, air, fsk, pingType, rx, renego, endNego, cloak, posted, known>>

-----------------------------------------------------------------------------
(* Received packets, by phase.                                             *)

Quiet == UNCHANGED <<fsk, posted>>

\* wpc_ept_pkt_process
Ept ==
    /\ cloak' = FALSE
    /\ Stop /\ UNCHANGED fsk
    /\ UNCHANGED <<phase, pwm, pingType, rx, renego, endNego, cloakDone, tm, ghost>>

\* wpc_ping_phase_process.  The strength packet opens a session: what is known of
\* the last receiver is forgotten.
Forget == profile' = "BPP" /\ opt_cnt' = 0 /\ restricted' = FALSE

PingPhase(p) ==
    /\ UNCHANGED <<pwm, pingType, ext, renego, cloak, cloakDone, fsk, astray>>
    /\ IF p = "SIG"
         THEN /\ phase' = "CNFG"
              /\ tm' = Set("NEXT", "CNFG_NEXT_1ST_TO")
              /\ Forget /\ known' = {}
              /\ UNCHANGED posted
         ELSE Stop /\ UNCHANGED <<phase, tm, opt_cnt, profile, restricted, known>>

\* wpc_cnfg_phase_process, but for the configuration packet.  Optional packets
\* count; identification comes first, then its extension.
CnfgIllegal == {"SIG", "CE", "RP8", "SRQ00", "SRQF0", "NEGO", "SADT", "BAD"}

InSequenceUnextended(p) ==
    CASE p \in {"ID", "IDX"}           -> opt_cnt = 0
      [] p \in {"XID", "XIDM", "XIDR"} -> opt_cnt = 1 /\ ext
      [] OTHER -> opt_cnt # 0

InSequence(p) ==
    CASE p \in {"ID", "IDX"}           -> opt_cnt = 0
      [] p \in {"XID", "XIDM", "XIDR"} -> opt_cnt = 1 /\ ext
      [] OTHER -> opt_cnt # 0 /\ ~(opt_cnt = 1 /\ ext)

CnfgOther(p) ==
    /\ UNCHANGED <<phase, renego, cloak, cloakDone, fsk, astray>>
    /\ IF p \notin CnfgIllegal /\ p # "PCHX" /\ InSequence(p)
         THEN /\ opt_cnt' = (opt_cnt + 1) % OptMod
              /\ ext' = IF p \in {"ID", "IDX"} THEN p = "IDX" ELSE ext
              /\ known' = known \cup (CASE p \in {"ID", "IDX"} -> {"ID"}
                                        [] p \in {"XID", "XIDM", "XIDR"} -> {"XID"}
                                        [] OTHER -> {})
              \* a 30 W supply heeds the extension; an IDX may restart the 128 kHz PWM
              /\ \E strong \in BOOLEAN :
                   /\ profile' = IF strong /\ p \in {"XIDM", "XIDR"} THEN "MPP" ELSE profile
                   /\ restricted' = IF strong /\ p \in {"XIDM", "XIDR"} THEN p = "XIDR" ELSE restricted
                   /\ pwm' \in IF p = "IDX" /\ freq = 128 THEN {pwm, TRUE} ELSE {pwm}
                   /\ IF strong /\ p \in {"XID", "XIDM", "XIDR"} /\ restricted' /\ freq = 128
                        THEN Stop /\ pingType' = 360 /\ UNCHANGED tm
                        ELSE tm' = Set("NEXT", "CNFG_NEXT_1ST_TO") /\ UNCHANGED <<posted, pingType>>
         ELSE Stop /\ UNCHANGED <<pwm, pingType, rx, tm, known>>

\* The configuration packet: its count is that of the optional packets since
\* identification and extension.  On to negotiation, or to power transfer.
OptLeft == (opt_cnt - (IF ext THEN 2 ELSE 1)) % OptMod      \* uint8_t

Negotiates == profile = "MPP" /\ ~restricted

CnfgCfg ==
    LET left == OptLeft
    IN  /\ UNCHANGED <<pwm, pingType, profile, restricted, ext, renego, cloak, ghost>>
        /\ \/ /\ Stop
              /\ opt_cnt' = left
              /\ UNCHANGED <<phase, cloakDone, tm, fsk>>
           \/ /\ left \in CfgCount
              /\ Negotiates
              /\ phase' = "NEGO" /\ opt_cnt' = 0
              /\ cloakDone' = FALSE /\ Send
              /\ tm' = Set("NEXT", "NEGO_NEXT_PKT_TO")
              /\ UNCHANGED posted
           \/ /\ left \in CfgCount
              /\ phase' = "XFER" /\ opt_cnt' = left
              /\ IF restricted THEN Send /\ cloakDone' = FALSE ELSE UNCHANGED <<fsk, cloakDone>>
              /\ tm' = Supervise(Set("NEXT", "off"))
              /\ UNCHANGED posted

\* wpc_mpp_nego_phase_process; a BPP receiver gets no answer.  late: the phase
\* was set by wpc_ptx_end_nego_check, which takes the receiver for MPP.
NegoIllegal == {"SIG", "ID", "IDX", "XID", "XIDM", "XIDR", "PCH", "PCHX", "CFG",
                "CE", "XCE", "NEGO", "REPORT", "REPORTX", "BAD"}

EndOfNegoUnwatched ==
    /\ phase' = "XFER"
    /\ renego' = FALSE /\ endNego' = TRUE /\ restricted' = FALSE
    /\ tm' = Clear({"NEXT", "NEGO"})
    /\ Send
    /\ UNCHANGED <<posted, pingType>>

\* mpp_srq_pkt_process, SRQ_END_00: the contract is as the receiver counts its
\* changes, or this is a renegotiation.
EndOfNego ==
    /\ phase' = "XFER"
    /\ renego' = FALSE /\ endNego' = TRUE /\ restricted' = FALSE
    /\ tm' = Supervise(Clear({"NEXT", "NEGO"}))
    /\ Send
    /\ UNCHANGED <<posted, pingType>>

NegoPhase(p, late) ==
    /\ UNCHANGED <<pwm, ext, opt_cnt, cloak, cloakDone, known>>
    /\ astray' = IF late /\ phase # "XFER" THEN astray \cup {"late"} ELSE astray
    /\ profile' = IF late THEN "MPP" ELSE profile
    /\ IF profile' = "BPP"
         THEN endNego' = FALSE /\ Quiet /\ UNCHANGED <<phase, pingType, renego, restricted, tm>>
         ELSE CASE p \in NegoIllegal ->
                   /\ Stop /\ tm' = Clear({"NEXT"})
                   /\ endNego' = FALSE
                   /\ UNCHANGED <<phase, fsk, pingType, renego, restricted>>
              [] OTHER ->
                   \/ p = "SRQ00" /\ EndOfNego
                   \/ /\ p = "SRQ00" => ~renego
                      /\ phase' = "NEGO"
                      /\ tm' = Set("NEXT", "NEGO_NEXT_PKT_TO")
                      /\ pingType' \in IF p = "SRQF0" THEN {pingType, 360} ELSE {pingType}
                      /\ Send
                      /\ endNego' = FALSE
                      /\ UNCHANGED <<posted, renego, restricted>>

\* wpc_bpp_xfer_phase_protocol_process
BppIllegal == {"SIG", "ID", "IDX", "XID", "XIDM", "XIDR", "PCH", "PCHX", "CFG",
               "SRQ00", "SRQF0", "NEGO", "SADT", "BAD"}

XferBpp(p) ==
    /\ UNCHANGED <<phase, pwm, pingType, rx, renego, cloak, cloakDone, ghost>>
    /\ CASE p = "CE" ->
              /\ tm' = [tm EXCEPT !.CEP = "CEP_TO", !.NEXT = "PCH_TO"]
              /\ Send \/ UNCHANGED fsk              \* Samsung's acknowledgement
              /\ UNCHANGED posted
         [] p = "RP8" -> tm' = [tm EXCEPT !.RPP = "RPP_TO", !.NEXT = "PFOD"] /\ Quiet
         [] p \in BppIllegal -> Stop /\ UNCHANGED <<tm, fsk>>
         [] OTHER ->                                \* GET's header may ask for a calibration
              /\ (p = "GET" /\ Stop) \/ UNCHANGED posted
              /\ UNCHANGED <<tm, fsk>>

\* wpc_mpp_xfer_phase_protocol_process
MppIllegal == {"SIG", "ID", "IDX", "XID", "XIDM", "XIDR", "PCH", "PCHX", "CFG", "BAD"}

XferMpp(p) ==
    /\ UNCHANGED <<pwm, pingType, rx, ghost>>
    /\ renego' = (renego \/ p = "NEGO")
    /\ cloak' = (cloak \/ p = "CLOAK") /\ cloakDone' = (cloakDone \/ p = "CLOAK")
    /\ phase' = IF p = "NEGO" THEN "NEGO" ELSE phase
    /\ IF p \in MppIllegal \/ (p \in {"CE", "RP8"} /\ ~restricted)
         THEN Stop ELSE UNCHANGED posted
    /\ CASE p = "CE" /\ restricted ->
              /\ tm' = [tm EXCEPT !.CEP = "CEP_TO", !.NEXT = "PCH_TO"]
              /\ Send \/ UNCHANGED fsk
         [] p = "RP8" /\ restricted ->
              tm' = [tm EXCEPT !.RPP = "RPP_TO", !.NEXT = "PFOD"] /\ UNCHANGED fsk
         [] p = "XCE" -> tm' = [tm EXCEPT !.CEP = "CEP_TO", !.NEXT = "PCH_TO"] /\ Send
         [] p = "NEGO" ->
              /\ tm' = [tm EXCEPT !.CEP = "off", !.NEGO = "RENEGO_TO", !.NEXT = "NEGO_NEXT_PKT_TO"]
              /\ Send
         [] p = "CLOAK" -> Send /\ UNCHANGED tm
         [] p \in {"REPORT", "REPORTX"} ->          \* a refusal lowers the power
              /\ tm' \in {Set("RPP", "RPP_TO"), [tm EXCEPT !.RPP = "RPP_TO", !.NEXT = "PCH_TO"]}
              /\ Send \/ UNCHANGED fsk
         [] p = "SADT" ->                           \* WPC_AUTH_TIMER is WPC_NEGO_TIMER
              tm' \in {tm, Set("NEGO", "SE_IC_TBS_AUTH")} /\ (Send \/ UNCHANGED fsk)
         [] p \in {"GET", "OTHER"} -> (Send \/ UNCHANGED fsk) /\ UNCHANGED tm
         [] OTHER -> UNCHANGED <<tm, fsk>>

\* wpc_mpp_cloak_phase_protocol_process; a BPP receiver gets no answer.
CloakPhase(p) ==
    LET quiet == [tm EXCEPT !.PING = "off"]
    IN  /\ UNCHANGED <<pwm, pingType, rx, renego, known>>
        /\ cloakDone' = (cloakDone \/ (profile = "MPP" /\ p = "CLOAK"))
        /\ astray' = IF profile = "MPP" /\ p = "CLOAKX" THEN astray \cup {"reason"} ELSE astray
        /\ IF profile = "BPP" THEN Quiet /\ UNCHANGED <<phase, cloak, tm>> ELSE
             CASE p = "CLOAK" ->
                    /\ cloak' = TRUE /\ Send
                    /\ tm' = [quiet EXCEPT !.NEXT = "off"]
                    /\ UNCHANGED <<phase, posted>>
               [] p = "CLOAKX" ->
                    /\ tm' = [quiet EXCEPT !.NEXT = "off"]
                    /\ Quiet /\ UNCHANGED <<phase, cloak>>
               [] p = "REPORT" ->
                    /\ tm' = [quiet EXCEPT !.NEXT = "PIN_NO_PKT"]
                    /\ Send
                    /\ UNCHANGED <<phase, cloak, posted>>
               [] p = "GET" ->
                    /\ phase' = "XFER" /\ cloak' = FALSE
                    /\ tm' = Supervise([quiet EXCEPT !.NEXT = "off"])
                    /\ Send
                    /\ UNCHANGED posted
               [] OTHER ->
                    /\ cloak' = FALSE /\ Stop
                    /\ tm' = IF p = "REPORTX" THEN [quiet EXCEPT !.NEXT = "PIN_NO_PKT"] ELSE quiet
                    /\ UNCHANGED <<phase, fsk>>

\* wpc_ptx_end_nego_check: the first packet after a negotiation says again that
\* it ends, in whatever phase.
SrqEndsNego(p) == p = "SRQ00"
LateNego(p) == endNego /\ p = "SRQ00"

\* wpc_protocol_sm, but for the phases' handlers
Packets(p) ==
    IF p = "EPT" THEN Ept
    ELSE IF phase = "NEGO" \/ LateNego(p) THEN NegoPhase(p, LateNego(p))
    ELSE /\ endNego' = FALSE
         /\ CASE phase = "PING" -> PingPhase(p)
              [] phase = "CNFG" -> (IF p = "CFG" THEN CnfgCfg ELSE CnfgOther(p))
              [] phase = "XFER" -> (IF profile = "BPP" THEN XferBpp(p) ELSE XferMpp(p))
              [] phase = "CLOAK" -> CloakPhase(p)
              [] OTHER -> /\ Quiet
                          /\ UNCHANGED <<phase, pwm, pingType, rx, renego, cloak, cloakDone, tm, ghost>>

PktRecvd ==
    /\ Handling("PKT_RECVD")
    /\ UNCHANGED <<ramp, freq, ask>>
    /\ \E p \in Rx : Packets(p)

-----------------------------------------------------------------------------
Timeouts == {"CNFG_NEXT_1ST_TO", "CNFG_NEXT_PKT_TO", "CEP_TO", "RPP_TO",
             "NEGO_NEXT_PKT_TO", "STOP_AFTER_FSK", "RENEGO_TO"}

Handle ==
    \/ DigPing
    \/ CloakPing
    \/ StopPower
    \/ \E e \in {"PIN_NO_PKT", "PING_1st_PKT_TO"} : PingTimeout(e)
    \/ \E e \in Timeouts : Timeout(e)
    \/ PchTo \/ Wnd \/ Pfod \/ AuthDone
    \/ HdrStart \/ HdrRecvd \/ PktRecvd
    \/ FskRespDone

Environment ==
    \/ \E t \in Timer : Expire(t)
    \/ Decode \/ FskDone \/ OtherStop \/ RampStep

Next == Take \/ Handle \/ Environment

Spec == Init /\ [][Next]_vars

\* The loop of osal_start_system goes round: batches are taken and handled, and
\* each pass of osal_timer_update looks at every timer.
FairSpec ==
    /\ Spec
    /\ WF_vars(Take) /\ WF_vars(Handle)
    /\ \A t \in {"NEXT", "CEP", "RPP"} : SF_vars(Expire(t))

-----------------------------------------------------------------------------
(* Properties.                                                             *)

Pending == posted \cup batch
Armed == {tm[t] : t \in Timer}
Ending == {"PIN_NO_PKT", "PING_1st_PKT_TO", "STOP_POWER"} \cup Timeouts

\* While a session has power, something is armed or pending that ends it if the
\* receiver falls silent, or the end of an acknowledgement is about to arm it: no
\* order of packets, late timeouts and shared timers leaves the coil driven and
\* unsupervised.  Apart from this: the duty ramp restarting a stopped PWM, a cloak
\* ping handled in a powered phase, a cloak packet with an unknown reason.
Attended ==
    pwm /\ phase # "IDLE" /\ astray \cap {"relit", "left", "reason"} = {} =>
        \/ (Armed \cup Pending) \cap Ending # {}
        \/ cloakDone /\ (fsk \/ "FSK_RESP_DONE" \in Pending)

\* Whenever the transmitter is idle its ping timer is armed to ping again, whatever
\* ended the session, but for an acknowledgement of cloak that completes after it.
IdlePings == phase = "IDLE" => (tm["PING"] = "DIG_PING" \/ "lost" \in astray)

\* wpc_stop_power does nothing in IDLE, so every way into IDLE must have stopped
\* the PWM: the coil is off in IDLE, but for the duty ramp's restart and a cloak
\* that ends while power is on.
PowerOff == phase = "IDLE" /\ pwm => astray \cap {"relit", "left"} # {}

\* Only a receiver identified as MPP in this session negotiates or cloaks: no flag
\* of one receiver's session survives into the configuration of the next one.
MppOnly ==
    /\ (phase \in {"NEGO", "CLOAK"} \/ cloak \/ endNego) => profile = "MPP"
    /\ cloak => phase \in {"NEGO", "XFER", "CLOAK"}

\* However a session ends, the idle transmitter is silent and pings again.
IdleIsIdle == IdlePings /\ PowerOff

\* A restricted receiver is sent away to be pinged again at 360 kHz: power transfer
\* to it runs at 360 kHz, or a stop is pending.
RestrictedAt360 ==
    phase = "XFER" /\ restricted => (freq = 360 \/ "STOP_POWER" \in Pending)

\* The 8-bit count of optional packets, which is also the place in the identification
\* sequence, wraps in both directions; still no receiver gets to negotiation or to
\* power transfer without its identification, and its extension when announced.
Identified ==
    phase \in {"NEGO", "XFER"} => "ID" \in known /\ (ext => "XID" \in known)

\* Who gets power has been identified, and gets it at the frequency its restriction asks for.
Admitted == Identified /\ RestrictedAt360

\* The steps from phase to phase that a session may take.
Session ==
    {<<"IDLE", "PING">>, <<"PING", "CNFG">>, <<"CNFG", "NEGO">>, <<"CNFG", "XFER">>,
     <<"NEGO", "XFER">>, <<"XFER", "NEGO">>, <<"NEGO", "CLOAK">>, <<"XFER", "CLOAK">>,
     <<"CLOAK", "XFER">>}

PhaseStep ==
    \/ phase' \in {phase, "IDLE"}
    \/ <<phase, phase'>> \in Session
    \/ endNego /\ "late" \in astray'

\* The phases follow one another as the session prescribes, however late an event is
\* handled.  The end of a negotiation repeated as the first packet after it jumps
\* to NEGO and XFER from any phase.
PhaseOrder == [][PhaseStep]_vars

\* The phases are taken in order, and those of MPP with an MPP receiver.
SessionOrder == PhaseOrder /\ []MppOnly

\* A receiver that falls silent for good loses power, time and again: the timeouts
\* end the session, and no chain of the timers' own events keeps it alive.  Cloak
\* pings are power, and are repeated.
Silence == <>[][~Decode]_vars => []<>(~pwm \/ phase \in {"IDLE", "CLOAK"})
=============================================================================
