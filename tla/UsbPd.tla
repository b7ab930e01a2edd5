-------------------------------- MODULE UsbPd --------------------------------
(***************************************************************************)
(* The USB Power Delivery policy engine and protocol layer, lib/usb_pd.c   *)
(* on lib/pd_tc.c, as the main loop and the interrupt of the PHY run them. *)
(* A pass of pdlib_run serves one event (usb_pdevt_run), runs the          *)
(* callbacks of the state until it settles (usb_pd_run), and leaves the    *)
(* rest of the main loop to the Type-C machine and the other tasks.  The   *)
(* interrupt stores packets, notes hard resets and ends transmissions, and *)
(* sets the state itself; it may come between any two of these steps.      *)
(*                                                                         *)
(* Built as the repository is configured: dual role, CONFIG_USBPD_ACCEPT_  *)
(* PRSWAP 0 and the NU6805, so no state of a power role swap can be        *)
(* entered and VBUS always counts as present.  Time is abstract: a timer   *)
(* may have expired in any pass but the one that starts it.  A message is  *)
(* its kind, by what the handlers do with it; its id decides only whether  *)
(* it is taken for a repetition of the one before and dropped, and either  *)
(* may be.  The revision decides only whether a vendor message is refused  *)
(* or ignored, how a refusal is called, and the number of retries: a       *)
(* transmission fails here when they are spent.                            *)
(***************************************************************************)
EXTENDS Integers, FiniteSets

CONSTANTS
    Scenes,         \* how Type-C attaches the partner, the messages it sends, what the
                    \* others ask of the policy engine
    HardResets,     \* N_HARDRESET_COUNTER
    CapsCount,      \* N_CAPS_COUNT
    Loops,          \* 100 and 200, the passes pe_timer_cnt counts
    MaxRx           \* bound: packets stored before one is handled

Message ==
    {"ReqFixed", "ReqPps", "ReqBad", "SourceCap", "BistCarrier", "BistTest", "EprRequest",
     "Unsupported", "Ignored", "Accept", "Reject", "PsRdy", "GetSourceCap", "GetSinkCap",
     "SoftReset", "NotSupp", "GetRevision", "GetSinkCapExt", "GetPpsStatus", "Unchunked",
     "GetBattCap", "GetBattStatus"}

\* What may happen in a scene: an interrupt in the middle of a pass, packets that
\* come faster than they are handled, a hard reset of the partner, its silence,
\* and the requests of the other tasks
Asked == {"mid", "burst", "hardreset", "silence", "disable", "voltage", "softreset", "swap"}

ASSUME UsbPdAssumption ==
    /\ Scenes \subseteq [as : SUBSET {"snk", "src"}, rx : SUBSET Message, asks : SUBSET Asked]
    /\ HardResets \in Nat /\ CapsCount \in Nat
    /\ Loops \in Nat \ {0} /\ MaxRx \in Nat \ {0}

SnkState == {"SNK_Startup", "SNK_Discovery", "SNK_Wait_for_Capabilities",
    "SNK_Evaluate_Capability", "SNK_Select_Capability", "SNK_Transition_Sink", "SNK_Ready",
    "SNK_Hard_Reset", "SNK_Transition_to_default", "SNK_Send_Soft_Reset", "SNK_Soft_Reset",
    "SNK_Send_Not_Supported", "SNK_Give_Sink_Cap", "SNK_Give_Sink_Cap_Ext"}
SrcState == {"SRC_Startup", "SRC_Discovery", "SRC_Send_Capabilities",
    "SRC_Negotiate_Capability", "SRC_Transition_Supply", "SRC_Ready", "SRC_Disabled",
    "SRC_Capability_Response", "SRC_Hard_Reset", "SRC_Hard_Reset_Received",
    "SRC_Transition_to_default", "SRC_Give_Source_Cap", "SRC_Wait_New_Capabilities",
    "SRC_Send_Soft_Reset", "SRC_Soft_Reset", "SRC_Send_Not_Supported", "SRC_Give_PPS_Status"}
State == SnkState \cup SrcState \cup {"RSC_Disable", "DRS_Send_Swap", "Give_Revision",
    "Chunk_Received", "BIST_Carrier_Mode", "BIST_Test_Mode", "Give_Battery_Status"}

Timer == {"SenderResponse", "SinkWaitCap", "PSTransition", "SinkPPSPeriodic",
    "SourceCapability", "SourcePPSComm", "PSHardReset", "SourceHardResetRecover",
    "ChunkingNotSupported", "BISTContMode"}

\* TRANSMITE_TYPE_*
Sent == {"HARDRESET", "BISTCARRY", "REQUEST", "ACCEPT", "SOFTRESET", "NOTSUPPORT", "SOURCECAPS",
    "PSREADY", "REJECT", "REVISION", "GIVESNKCAP", "GIVESNKCAP_EXT", "GIVEPPS_STA"}

\* USB_PD_EVT_*, by the order usb_pdevt_run tests them in
Rank == [SNK_ATTACHED |-> 1, SNK_UNATTACH |-> 2, SRC_ATTACHED |-> 3, SRC_UNATTACH |-> 4,
    RX_HARDRESET |-> 5, PS_TRANST |-> 6, RX_SOP_PACKET |-> 7, SNK_SET_VOLTAGE |-> 8,
    SOURCE_SOFTRESET |-> 9]
Event == DOMAIN Rank

VARIABLES
    at,             \* where the pass is: "event", "check", "run", "rest"
    pd,             \* usb_pd_state, usb_pd_substate, g_usb_pd_s, need_rechager
    tm,             \* usb_pd_timers: "off", "new" in this pass, "on" (it may have expired)
    ev,             \* usb_pd_event
    rx,             \* g_pd_packet, g_pd_packet_1, g_pd_packet_cnt, packet_need_copy
    phy, listen,    \* PD_PHY_EN and the interrupts; what RXD_CTRL lets in
    air,            \* the transmission under way: "none", "sop", "other"
    gate, reg,      \* the port's gate; the converter's output, as the policy engine orders it
    tc, role, host, \* Type-C attached as; g_tcpc.pwr_role; data_role = TYPEC_HOST
    quiet, scene    \* the partner has gone silent; which of the Scenes it is

link == <<phy, listen, air>>
port == <<tc, role, host, scene>>
vars == <<at, pd, tm, ev, rx, link, gate, reg, port, quiet>>

Volt == {"5V", "old", "new"}        \* 5 V, of an earlier contract, as last agreed

TypeOK ==
    /\ at \in {"event", "check", "run", "rest"}
    /\ pd \in [state : State, sub : {"enter", "exit"}, busy : BOOLEAN, cb : Sent,
               hr : 0 .. HardResets+1, caps : 0 .. CapsCount+1,
               pps : BOOLEAN, bist : BOOLEAN, loops : 0 .. Loops, contract : BOOLEAN,
               need : BOOLEAN]
    /\ tm \in [Timer -> {"off", "new", "on"}]
    /\ ev \subseteq Event
    /\ rx \in [pkt : Message, pkt1 : Message, n : 0 .. MaxRx, copy : BOOLEAN]
    /\ phy \in BOOLEAN /\ listen \subseteq {"SOP", "HARD_RESET"}
    /\ air \in {"none", "sop", "other"}
    /\ gate \in BOOLEAN
    /\ reg \in [want : Volt, bus : Volt, pend : {"none", "wait", "delay"}, ready : BOOLEAN]
    /\ tc \in {"none", "snk", "src"} /\ role \in {"snk", "src"} /\ host \in BOOLEAN
    /\ quiet \in BOOLEAN /\ scene \in Scenes
-----------------------------------------------------------------------------
(* The state, the timers, the protocol layer *)

\* usb_pd_set_state
Go(p, s) == [p EXCEPT !.state = s, !.sub = "enter"]
In(p) == [p EXCEPT !.sub = "exit"]

\* What the sink's state is called, or the source's.
Own(snk, src) == IF role = "snk" THEN snk ELSE src
Ready == Own("SNK_Ready", "SRC_Ready")
SendSoftReset == Own("SNK_Send_Soft_Reset", "SRC_Send_Soft_Reset")
SendNotSupported == Own("SNK_Send_Not_Supported", "SRC_Send_Not_Supported")
HardReset == Own("SNK_Hard_Reset", "SRC_Hard_Reset")

NoTimer == [t \in Timer |-> "off"]
Start(t) == [tm EXCEPT ![t] = "new"]
Stop(t) == [tm EXCEPT ![t] = "off"]

\* usb_pd_reset_prl, with tm' = NoTimer
ResetPrl(p) ==
    [p EXCEPT !.busy = FALSE, !.pps = FALSE, !.caps = 0, !.bist = FALSE]

\* hal_tcpc_pkt_transmit of a message: the callback is that of pe_tran_cb_type.
Send(p, type) == [p EXCEPT !.busy = TRUE, !.cb = type]
OnAir(kind) == IF phy THEN kind ELSE "none"

\* One more; every value of the byte past its limit is limit + 1 here.
Past(n, limit) == IF n > limit THEN n ELSE n + 1

\* buckboost_set_bus_iv
SetBus(v) == [reg EXCEPT !.want = v, !.pend = "wait", !.ready = FALSE]

Init ==
    /\ at = "event" /\ ev = {} /\ tm = NoTimer
    /\ pd = [state |-> "RSC_Disable", sub |-> "enter", busy |-> FALSE, cb |-> "HARDRESET",
             hr |-> 0, caps |-> 0, pps |-> FALSE, bist |-> FALSE, loops |-> 0,
             contract |-> FALSE, need |-> FALSE]
    /\ rx = [pkt |-> "Ignored", pkt1 |-> "Ignored", n |-> 0, copy |-> FALSE]
    /\ phy = FALSE /\ listen = {} /\ air = "none"
    /\ gate = FALSE /\ reg = [want |-> "5V", bus |-> "5V", pend |-> "none", ready |-> TRUE]
    /\ tc = "none" /\ role = "snk" /\ host = FALSE
    /\ quiet = FALSE /\ scene \in Scenes
-----------------------------------------------------------------------------
(* usb_pd_run: one callback of the state, until a callback leaves it alone *)

\* Mutation: the state machine runs on while a message is being sent.
CheckNothing ==
    /\ at = "check" /\ at' = "run"
    /\ UNCHANGED <<pd, tm, ev, rx, link, gate, reg, port, quiet>>

\* A transmission in progress keeps the state machine waiting.
CheckBusy ==
    /\ at = "check"
    /\ at' = IF pd.busy THEN "rest" ELSE "run"
    /\ UNCHANGED <<pd, tm, ev, rx, link, gate, reg, port, quiet>>

Callback(s, sub) == at = "run" /\ pd.state = s /\ pd.sub = sub
Loop == at' = IF pd'.state = pd.state /\ pd'.sub = pd.sub THEN "rest" ELSE "run"
Elsewhere == UNCHANGED <<ev, rx, quiet>>
SameLink == UNCHANGED <<link, gate, reg, port>>

\* States left as soon as they are entered.
Through ==
    [SNK_Startup |-> "SNK_Discovery", SNK_Evaluate_Capability |-> "SNK_Select_Capability",
     SNK_Hard_Reset |-> "SNK_Transition_to_default",
     SNK_Soft_Reset |-> "SNK_Wait_for_Capabilities", SRC_Startup |-> "SRC_Discovery",
     SRC_Soft_Reset |-> "SRC_Send_Capabilities", Give_Battery_Status |-> Ready]

PassThrough ==
    \E s \in DOMAIN Through :
        /\ Callback(s, "exit") /\ Elsewhere /\ SameLink
        /\ pd' = Go(pd, Through[s])
        /\ UNCHANGED tm
        /\ Loop

\* Mutation: the hard resets of a sink are not counted.
SnkTimeoutEndless ==
    [SNK_Wait_for_Capabilities |-> <<"SinkWaitCap", "SNK_Hard_Reset">>,
     SNK_Select_Capability |-> <<"SenderResponse", "SNK_Hard_Reset">>,
     SNK_Transition_Sink |-> <<"PSTransition", "SNK_Hard_Reset">>,
     SNK_Send_Soft_Reset |-> <<"SenderResponse", "SNK_Hard_Reset">>]

\* States that wait for a timer: which, and what follows when it has expired.
SnkTimeout ==
    [SNK_Wait_for_Capabilities |->
        <<"SinkWaitCap", IF pd.hr <= HardResets THEN "SNK_Hard_Reset" ELSE "RSC_Disable">>,
     SNK_Select_Capability |-> <<"SenderResponse", "SNK_Hard_Reset">>,
     SNK_Transition_Sink |-> <<"PSTransition", "SNK_Hard_Reset">>,
     SNK_Send_Soft_Reset |-> <<"SenderResponse", "SNK_Hard_Reset">>]
SrcTimeout ==
    [SRC_Discovery |->
        <<"SourceCapability", IF pd.caps > CapsCount THEN "SRC_Disabled" ELSE "SRC_Send_Capabilities">>,
     SRC_Send_Capabilities |-> <<"SenderResponse", "SRC_Hard_Reset">>,
     SRC_Hard_Reset |-> <<"PSHardReset", "SRC_Transition_to_default">>,
     SRC_Give_Source_Cap |-> <<"SenderResponse", "SRC_Hard_Reset">>,
     SRC_Send_Soft_Reset |-> <<"SenderResponse", "SRC_Hard_Reset">>,
     DRS_Send_Swap |-> <<"SenderResponse", Ready>>]
OtherTimeout ==
    [Chunk_Received |-> <<"ChunkingNotSupported", SendNotSupported>>,
     BIST_Carrier_Mode |-> <<"BISTContMode", Ready>>]

Expire(table, stops) ==
    \E s \in DOMAIN table :
        LET timer == table[s][1] IN
        /\ Callback(s, "exit") /\ tm[timer] = "on" /\ Elsewhere /\ SameLink
        /\ pd' = Go(pd, table[s][2]) /\ tm' = IF stops THEN Stop(timer) ELSE tm
        /\ Loop
Expired == Expire(SnkTimeout, FALSE) \/ Expire(SrcTimeout, FALSE) \/ Expire(OtherTimeout, TRUE)

\* States that start a timer and wait.
Waiting ==
    [SNK_Wait_for_Capabilities |-> "SinkWaitCap", SRC_Discovery |-> "SourceCapability",
     Chunk_Received |-> "ChunkingNotSupported"]

BeginWait ==
    \E s \in DOMAIN Waiting :
        /\ Callback(s, "enter") /\ Elsewhere /\ SameLink
        /\ pd' = In(pd) /\ tm' = Start(Waiting[s])
        /\ Loop

\* States that send their message and stay where they are until it is sent.
Sender ==
    [SNK_Select_Capability |-> "REQUEST", SRC_Transition_Supply |-> "ACCEPT",
     SRC_Capability_Response |-> "REJECT", SRC_Give_Source_Cap |-> "SOURCECAPS"]

SendAndStay ==
    \E s \in DOMAIN Sender :
        /\ Callback(s, "enter") /\ Elsewhere
        /\ pd' = Send(pd, Sender[s]) /\ air' = OnAir("sop")
        /\ UNCHANGED <<tm, phy, listen, gate, reg, port>>
        /\ Loop

SendCapabilities ==
    /\ Callback("SRC_Send_Capabilities", "enter") /\ Elsewhere
    /\ pd' = [Send(pd, "SOURCECAPS") EXCEPT !.caps = Past(@, CapsCount)] /\ air' = OnAir("sop")
    /\ UNCHANGED <<tm, phy, listen, gate, reg, port>>
    /\ Loop

\* The soft resets, sent and received, which reset the protocol layer first.
SoftResets ==
    [SNK_Send_Soft_Reset |-> "SOFTRESET", SRC_Send_Soft_Reset |-> "SOFTRESET",
     SNK_Soft_Reset |-> "ACCEPT", SRC_Soft_Reset |-> "ACCEPT"]

EnterSoftReset ==
    \E s \in DOMAIN SoftResets :
        /\ Callback(s, "enter") /\ Elsewhere
        /\ pd' = Send(ResetPrl(pd), SoftResets[s]) /\ tm' = NoTimer /\ air' = OnAir("sop")
        /\ UNCHANGED <<phy, listen, gate, reg, port>>
        /\ Loop

\* States that answer a question, then wait for the callback of the transmission.
Answers ==
    [SNK_Send_Not_Supported |-> {"NOTSUPPORT", "REJECT"},
     SNK_Give_Sink_Cap |-> {"GIVESNKCAP"}, SNK_Give_Sink_Cap_Ext |-> {"GIVESNKCAP_EXT"},
     SRC_Send_Not_Supported |-> {"NOTSUPPORT", "REJECT"}, SRC_Give_PPS_Status |-> {"GIVEPPS_STA"},
     Give_Revision |-> {"REVISION"}]

SendAnswer ==
    \E s \in DOMAIN Answers :
        /\ Callback(s, "enter") /\ Elsewhere
        /\ \E type \in Answers[s] : pd' = In(Send(pd, type))
        /\ air' = OnAir("sop")
        /\ UNCHANGED <<tm, phy, listen, gate, reg, port>>
        /\ Loop

\* PE_Give_Battery_Status_Entry: pe_tran_cb_type stays that of the last message.
GiveBatteryStatus ==
    /\ Callback("Give_Battery_Status", "enter") /\ Elsewhere
    /\ pd' = In(Send(pd, pd.cb)) /\ air' = OnAir("sop")
    /\ UNCHANGED <<tm, phy, listen, gate, reg, port>>
    /\ Loop

\* States whose callback does nothing: they wait for an event, a transmission or
\* a timer that still counts.
Idle ==
    /\ at = "run" /\ Elsewhere /\ SameLink
    /\ \/ pd.state \in DOMAIN SnkTimeout \cup DOMAIN SrcTimeout \cup DOMAIN OtherTimeout \cup
                {"SRC_Transition_to_default"} /\ pd.sub = "exit"
       \/ pd.state \in DOMAIN Answers \cup {"RSC_Disable", "SRC_Disabled", "SRC_Capability_Response"}
          /\ pd.sub = "exit"
       \/ pd.state \in {"SRC_Wait_New_Capabilities", "BIST_Test_Mode"}
    /\ UNCHANGED <<pd, tm>>
    /\ Loop

\* PE_SNK_RSC_Disable_Entry
Disabled ==
    /\ Callback("RSC_Disable", "enter") /\ Elsewhere
    /\ pd' = In(ResetPrl([pd EXCEPT !.contract = FALSE])) /\ tm' = NoTimer
    /\ phy' = FALSE /\ listen' = {} /\ air' = "none"
    /\ UNCHANGED <<gate, reg, port>>
    /\ Loop

(* The sink's own callbacks *)

SnkStartup ==
    /\ Callback("SNK_Startup", "enter") /\ Elsewhere
    /\ pd' = In(ResetPrl([pd EXCEPT !.contract = FALSE])) /\ tm' = NoTimer
    /\ phy' = TRUE /\ listen' = {} /\ air' = "none" /\ role' = "snk"
    /\ UNCHANGED <<gate, reg, tc, host, scene>>
    /\ Loop

SnkDiscovery ==
    /\ at = "run" /\ pd.state = "SNK_Discovery" /\ Elsewhere
    /\ IF pd.sub = "enter"
       THEN pd' = In(pd) /\ UNCHANGED listen
       ELSE pd' = Go(pd, "SNK_Wait_for_Capabilities") /\ listen' = {"SOP", "HARD_RESET"}
    /\ UNCHANGED <<tm, phy, air, gate, reg, port>>
    /\ Loop

\* An offer over a contract makes SNK_Ready have the charging set up again.
SnkEvaluate ==
    /\ Callback("SNK_Evaluate_Capability", "enter") /\ Elsewhere /\ SameLink
    /\ pd' = In([pd EXCEPT !.hr = 0, !.need = @ \/ pd.contract])
    /\ tm' = Stop("SinkWaitCap")
    /\ Loop

SnkTransition ==
    /\ Callback("SNK_Transition_Sink", "enter") /\ Elsewhere /\ SameLink
    /\ pd' = In(pd)
    /\ tm' = [tm EXCEPT !["SenderResponse"] = "off", !["PSTransition"] = "new"]
    /\ Loop

SnkReady ==
    /\ Callback("SNK_Ready", "enter") /\ Elsewhere /\ SameLink
    /\ pd' = In([pd EXCEPT !.contract = TRUE, !.need = FALSE])
    /\ tm' = [NoTimer EXCEPT !["SinkPPSPeriodic"] = IF pd.pps THEN "new" ELSE "off"]
    /\ Loop

SnkReadyExit ==
    /\ Callback("SNK_Ready", "exit") /\ Elsewhere /\ SameLink
    /\ \/ UNCHANGED pd
       \/ pd.pps /\ tm["SinkPPSPeriodic"] = "on" /\ pd' = Go(pd, "SNK_Select_Capability")
    /\ UNCHANGED tm
    /\ Loop

SnkHardReset ==
    /\ Callback("SNK_Hard_Reset", "enter") /\ Elsewhere
    /\ pd' = In([pd EXCEPT !.hr = Past(@, HardResets), !.cb = "HARDRESET"])
    /\ air' = OnAir("other")
    /\ UNCHANGED <<tm, phy, listen, gate, reg, port>>
    /\ Loop

SnkTransitionToDefault ==
    /\ Callback("SNK_Transition_to_default", "enter") /\ Elsewhere
    /\ pd' = In([ResetPrl(pd) EXCEPT !.loops = 0]) /\ tm' = NoTimer
    /\ host' = FALSE /\ phy' = TRUE /\ air' = "none"
    /\ UNCHANGED <<listen, gate, reg, tc, role, scene>>
    /\ Loop

SnkRecovered ==
    /\ Callback("SNK_Transition_to_default", "exit") /\ Elsewhere /\ SameLink
    /\ pd' = IF pd.loops + 1 < Loops THEN [pd EXCEPT !.loops = @ + 1]
             ELSE Go([pd EXCEPT !.loops = Loops, !.need = TRUE], "SNK_Startup")
    /\ UNCHANGED tm
    /\ Loop
-----------------------------------------------------------------------------
(* The source's own callbacks, and those of either *)

SrcStartup ==
    /\ Callback("SRC_Startup", "enter") /\ Elsewhere
    /\ pd' = In(ResetPrl([pd EXCEPT !.contract = FALSE])) /\ tm' = NoTimer
    /\ phy' = TRUE /\ listen' = {"SOP", "HARD_RESET"} /\ air' = "none" /\ role' = "src"
    /\ UNCHANGED <<gate, reg, tc, host, scene>>
    /\ Loop

\* usb_pd_check_request reads g_pd_packet, which the interrupt may have
\* written again since: anything but a request is read as some request.
Request == IF rx.pkt \in {"ReqFixed", "ReqPps", "ReqBad"} THEN {rx.pkt}
           ELSE {"ReqFixed", "ReqPps", "ReqBad"}

SrcNegotiate ==
    /\ at = "run" /\ pd.state = "SRC_Negotiate_Capability" /\ Elsewhere
    /\ UNCHANGED <<tm, link, gate, port>>
    /\ \/ pd.sub = "enter" /\ pd' = In(pd) /\ UNCHANGED reg
       \/ /\ pd.sub = "exit"
          /\ \E r \in Request \ {"ReqBad"} :
                pd' = Go([pd EXCEPT !.pps = r = "ReqPps"], "SRC_Transition_Supply")
          /\ reg' = [reg EXCEPT !.want = IF @ = "new" THEN "old" ELSE @,
                                !.bus = IF @ = "new" THEN "old" ELSE @]
       \/ /\ pd.sub = "exit" /\ "ReqBad" \in Request
          /\ pd' = Go(pd, "SRC_Capability_Response") /\ UNCHANGED reg
    /\ Loop

SrcSupplyReady ==
    /\ Callback("SRC_Transition_Supply", "exit") /\ Elsewhere
    /\ IF reg.ready THEN pd' = Send(pd, "PSREADY") /\ air' = OnAir("sop")
       ELSE UNCHANGED <<pd, air>>
    /\ UNCHANGED <<tm, phy, listen, gate, reg, port>>
    /\ Loop

SrcReady ==
    /\ Callback("SRC_Ready", "enter") /\ Elsewhere /\ SameLink
    /\ pd' = In([pd EXCEPT !.contract = TRUE, !.loops = 0])
    /\ tm' = [NoTimer EXCEPT !["SourcePPSComm"] = "new"]
    /\ Loop

\* gd->force_usb_mode, set elsewhere, asks for the role of a USB device.
SrcReadyExit ==
    /\ Callback("SRC_Ready", "exit") /\ Elsewhere /\ SameLink
    /\ \E p \in {pd} \cup (IF pd.pps /\ tm["SourcePPSComm"] = "on" THEN {Go(pd, "SRC_Hard_Reset")} ELSE {}) :
          LET n == IF pd.loops < Loops THEN pd.loops + 1 ELSE Loops IN
          \/ pd' = p
          \/ pd' = [(IF n = Loops /\ host /\ "swap" \in scene.asks THEN Go(p, "DRS_Send_Swap") ELSE p) EXCEPT !.loops = n]
    /\ UNCHANGED tm
    /\ Loop

DataRoleSwap ==
    /\ Callback("DRS_Send_Swap", "enter") /\ Elsewhere
    /\ pd' = In(Send(pd, "PSREADY")) /\ air' = OnAir("sop") /\ tm' = Start("SenderResponse")
    /\ UNCHANGED <<phy, listen, gate, reg, port>>
    /\ Loop

SrcDisabled ==
    /\ Callback("SRC_Disabled", "enter") /\ Elsewhere
    /\ pd' = In(ResetPrl(pd)) /\ tm' = NoTimer /\ listen' = listen \ {"SOP"}
    /\ UNCHANGED <<phy, air, gate, reg, port>>
    /\ Loop

\* PE_SRC_Hard_Reset_Entry, PE_SRC_Hard_Reset_Received_Entry
SrcHardReset ==
    /\ at = "run" /\ pd.sub = "enter" /\ Elsewhere
    /\ \/ /\ pd.state = "SRC_Hard_Reset"
          /\ pd' = In([pd EXCEPT !.cb = "HARDRESET"]) /\ air' = OnAir("other")
       \/ /\ pd.state = "SRC_Hard_Reset_Received"
          /\ pd' = In(Go(pd, "SRC_Hard_Reset")) /\ UNCHANGED air
    /\ tm' = Start("PSHardReset")
    /\ UNCHANGED <<phy, listen, gate, reg, port>>
    /\ Loop

\* Mutation: the recovery leaves the output at the voltage of the contract.
SrcTransitionKeepsVoltage ==
    /\ Callback("SRC_Transition_to_default", "enter") /\ Elsewhere
    /\ gate' = FALSE
    /\ phy' = FALSE /\ listen' = {} /\ air' = "none"
    /\ role' = "src" /\ host' = TRUE
    /\ pd' = In(pd) /\ tm' = Start("SourceHardResetRecover")
    /\ UNCHANGED <<tc, reg, scene>>
    /\ Loop

SrcTransitionToDefault ==
    /\ Callback("SRC_Transition_to_default", "enter") /\ Elsewhere
    /\ gate' = FALSE /\ reg' = SetBus("5V")
    /\ phy' = FALSE /\ listen' = {} /\ air' = "none"
    /\ role' = "src" /\ host' = TRUE
    /\ pd' = In(pd) /\ tm' = Start("SourceHardResetRecover")
    /\ UNCHANGED <<tc, scene>>
    /\ Loop

SrcRecovered ==
    /\ Callback("SRC_Transition_to_default", "exit") /\ Elsewhere
    /\ tm["SourceHardResetRecover"] = "on"
    /\ gate' = TRUE /\ phy' = TRUE /\ listen' = {"SOP", "HARD_RESET"} /\ air' = "none"
    /\ tm' = Stop("SourceHardResetRecover") /\ pd' = Go(pd, "SRC_Startup")
    /\ UNCHANGED <<reg, port>>
    /\ Loop

BistCarrier ==
    /\ Callback("BIST_Carrier_Mode", "enter") /\ Elsewhere
    /\ pd' = In([pd EXCEPT !.cb = "BISTCARRY"]) /\ air' = OnAir("other")
    /\ tm' = Start("BISTContMode")
    /\ UNCHANGED <<phy, listen, gate, reg, port>>
    /\ Loop

usb_pd_run ==
    \/ CheckBusy \/ PassThrough \/ Expired \/ BeginWait \/ SendAndStay \/ SendCapabilities
    \/ EnterSoftReset \/ SendAnswer \/ GiveBatteryStatus \/ Idle \/ Disabled
    \/ SnkStartup \/ SnkDiscovery \/ SnkEvaluate \/ SnkTransition \/ SnkReady \/ SnkReadyExit
    \/ SnkHardReset \/ SnkTransitionToDefault \/ SnkRecovered
    \/ SrcStartup \/ SrcNegotiate \/ SrcSupplyReady \/ SrcReady \/ SrcReadyExit \/ DataRoleSwap
    \/ SrcDisabled \/ SrcHardReset \/ SrcTransitionToDefault \/ SrcRecovered \/ BistCarrier
-----------------------------------------------------------------------------
(* What a message does: usb_pd_sop_data_msg_handle, _ctrl_, _ext_ *)

InReady(p) == p.state \in {"SNK_Ready", "SRC_Ready"}

\* The answers that depend on the state they find; elsewhere, a soft reset.
Expected(p) ==
    [ReqFixed |-> p.state \in {"SRC_Send_Capabilities", "SRC_Ready", "SRC_Give_Source_Cap"},
     Accept |-> p.state \in {"SNK_Select_Capability", "SNK_Send_Soft_Reset",
                             "DRS_Send_Swap", "SRC_Send_Soft_Reset"},
     Reject |-> p.state = "SNK_Select_Capability",
     PsRdy |-> role = "snk",
     GetSourceCap |-> InReady(p), GetRevision |-> InReady(p),
     GetSinkCap |-> InReady(p) \/ p.state = "SNK_Transition_Sink"]

Accepted(p) ==
    CASE p.state = "SNK_Select_Capability" -> Go(p, "SNK_Transition_Sink")
      [] p.state = "SNK_Send_Soft_Reset" -> Go(p, "SNK_Wait_for_Capabilities")
      [] p.state = "DRS_Send_Swap" -> Go(p, Ready)
      [] p.state = "SRC_Send_Soft_Reset" -> Go(p, "SRC_Send_Capabilities")

DataReaction(p, m) ==
    CASE m = "SourceCap" -> IF role = "snk" THEN Go(p, "SNK_Evaluate_Capability") ELSE p
      [] m \in {"ReqFixed", "ReqPps", "ReqBad"} ->
            Go(p, IF Expected(p).ReqFixed THEN "SRC_Negotiate_Capability" ELSE SendSoftReset)
      [] m = "BistCarrier" -> Go(p, "BIST_Carrier_Mode")
      [] m = "BistTest" -> Go([p EXCEPT !.bist = TRUE], "BIST_Test_Mode")
      [] m = "EprRequest" -> Go(p, HardReset)
      [] m = "Unsupported" -> Go(p, SendNotSupported)
      [] m = "Ignored" -> p

CtrlReaction(p, m) ==
    IF m \in DOMAIN Expected(p) /\ ~Expected(p)[m] THEN Go(p, SendSoftReset)
    ELSE CASE m = "Accept" -> Accepted(p)
           [] m = "Reject" -> Go(p, "SNK_Ready")
           [] m = "PsRdy" -> Go(p, "SNK_Ready")
           [] m = "GetSourceCap" -> Go(p, "SRC_Give_Source_Cap")
           [] m = "GetSinkCap" -> Go(p, IF InReady(p) THEN "SNK_Give_Sink_Cap" ELSE "SNK_Hard_Reset")
           [] m = "SoftReset" -> Go(p, Own("SNK_Soft_Reset", "SRC_Soft_Reset"))
           [] m = "NotSupp" -> Go(p, Ready)
           [] m = "GetRevision" -> Go(p, "Give_Revision")
           [] m = "GetSinkCapExt" -> Go(p, "SNK_Give_Sink_Cap_Ext")
           [] m = "GetPpsStatus" -> IF role = "src" THEN Go(p, "SRC_Give_PPS_Status") ELSE p

\* The status of the battery is sent from here, with the callback of the last message.
ExtReaction(p, m) ==
    CASE m = "Unchunked" -> Go(p, "Chunk_Received")
      [] m = "GetBattCap" -> Go(p, "Give_Battery_Status")
      [] m = "GetBattStatus" -> Send(p, p.cb)

Ext == {"Unchunked", "GetBattCap", "GetBattStatus"}
Data == {"SourceCap", "ReqFixed", "ReqPps", "ReqBad", "BistCarrier", "BistTest", "EprRequest",
         "Unsupported", "Ignored"}

\* usb_pd_sop_msg_handle: only when attached; a message with the id of the one
\* before, which any but a soft reset may have, is dropped.
Handled(p, m, repeated) ==
    CASE tc = "none" \/ (repeated /\ m # "SoftReset") -> p
      [] OTHER -> IF m \in Ext THEN ExtReaction(p, m)
                  ELSE IF m \in Data THEN DataReaction(p, m) ELSE CtrlReaction(p, m)
-----------------------------------------------------------------------------
(* usb_pdevt_run: one event of a pass *)

First(e) == at = "event" /\ e \in ev /\ \A f \in ev : Rank[f] >= Rank[e]
Served == at' = "check" /\ UNCHANGED quiet

TypecEvent ==
    \E e \in {"SNK_ATTACHED", "SNK_UNATTACH", "SRC_ATTACHED", "SRC_UNATTACH"} :
        /\ First(e) /\ Served
        /\ pd' = [Go(pd, CASE e = "SNK_ATTACHED" -> "SNK_Startup"
                           [] e = "SRC_ATTACHED" -> "SRC_Startup"
                           [] OTHER -> "RSC_Disable") EXCEPT !.busy = FALSE, !.need = FALSE]
        /\ ev' = {}
        /\ UNCHANGED <<tm, rx, link, gate, reg, port>>

RxHardResetEvent ==
    /\ First("RX_HARDRESET") /\ Served
    /\ pd' = [Go(pd, Own("SNK_Transition_to_default", "SRC_Hard_Reset_Received"))
                EXCEPT !.busy = FALSE]
    /\ ev' = ev \ {"RX_HARDRESET"}
    /\ UNCHANGED <<tm, rx, link, gate, reg, port>>

PsTransitionEvent ==
    /\ First("PS_TRANST") /\ Served
    /\ reg' = SetBus("new")
    /\ ev' = ev \ {"PS_TRANST"}
    /\ UNCHANGED <<pd, tm, rx, link, gate, port>>

\* The packet served, and how many the interrupt has counted with it.
Taken ==
    IF rx.copy THEN [pkt |-> rx.pkt1, n |-> 0] ELSE [pkt |-> rx.pkt, n |-> rx.n]

PacketDropped ==
    /\ First("RX_SOP_PACKET") /\ Served
    /\ pd.bist \/ pd.busy
    /\ rx' = [rx EXCEPT !.pkt = Taken.pkt, !.n = 0, !.copy = FALSE]
    /\ ev' = ev \ {"RX_SOP_PACKET"}
    /\ UNCHANGED <<pd, tm, link, gate, reg, port>>

PacketHandled ==
    /\ First("RX_SOP_PACKET") /\ Served
    /\ ~pd.bist /\ ~pd.busy
    /\ LET left == IF Taken.n > 0 THEN Taken.n - 1 ELSE 0 IN
       /\ rx' = [rx EXCEPT !.pkt = Taken.pkt, !.n = left, !.copy = left > 0]
       /\ ev' = IF left > 0 THEN ev ELSE ev \ {"RX_SOP_PACKET"}
    /\ \E repeated \in BOOLEAN : pd' = Handled(pd, Taken.pkt, repeated)
    /\ host' = IF pd.state = "DRS_Send_Swap" /\ Taken.pkt = "Accept" /\ pd'.state = Ready
               THEN ~host ELSE host
    /\ air' = IF pd'.busy THEN OnAir("sop") ELSE air
    /\ UNCHANGED <<tm, phy, listen, gate, reg, tc, role, scene>>

\* A new voltage waits for SNK_Ready, a soft reset for SRC_Ready; the first
\* waits in front of the second.
RequestEvent ==
    \E e \in {"SNK_SET_VOLTAGE", "SOURCE_SOFTRESET"} :
        /\ First(e) /\ Served
        /\ IF pd.state = IF e = "SNK_SET_VOLTAGE" THEN "SNK_Ready" ELSE "SRC_Ready"
           THEN /\ pd' = Go(pd, IF e = "SNK_SET_VOLTAGE" THEN "SNK_Select_Capability"
                                ELSE "SRC_Send_Soft_Reset")
                /\ ev' = ev \ {e}
           ELSE UNCHANGED <<pd, ev>>
        /\ UNCHANGED <<tm, rx, link, gate, reg, port>>

NoEvent == at = "event" /\ ev = {} /\ Served /\ UNCHANGED <<pd, tm, ev, rx, link, gate, reg, port>>

usb_pdevt_run == TypecEvent \/ RxHardResetEvent \/ PsTransitionEvent \/ PacketDropped
    \/ PacketHandled \/ RequestEvent \/ NoEvent
-----------------------------------------------------------------------------
(* USBPD_IRQHandler *)

Interrupt == ("mid" \in scene.asks \/ at = "rest") /\ phy /\ UNCHANGED <<at, phy, listen, gate, port, quiet>>

\* A message of the partner, new or repeated
Receive ==
    /\ Interrupt /\ ~quiet /\ tc # "none" /\ "SOP" \in listen
    /\ rx.n < (IF "burst" \in scene.asks THEN MaxRx ELSE 1)
    /\ \E m \in scene.rx : rx' = [rx EXCEPT !.n = @ + 1, !.pkt = IF rx.n = 0 THEN m ELSE @,
                                       !.pkt1 = IF rx.n = 0 THEN @ ELSE m]
    /\ ev' = ev \cup {"RX_SOP_PACKET"}
    /\ UNCHANGED <<pd, tm, air, reg>>

ReceiveHardReset ==
    /\ Interrupt /\ ~quiet /\ tc # "none" /\ "HARD_RESET" \in listen /\ "hardreset" \in scene.asks
    /\ rx' = [rx EXCEPT !.n = 0]
    /\ ev' = ev \cup {"RX_HARDRESET"}
    /\ UNCHANGED <<pd, tm, air, reg>>

\* transmit_success_cb[pe_tran_cb_type]
SentState(p) ==
    CASE p.cb = "REQUEST" -> In(Go(p, "SNK_Select_Capability"))
      [] p.cb = "ACCEPT" ->
            IF p.state \in {"SNK_Soft_Reset", "SRC_Transition_Supply", "SRC_Soft_Reset"}
            THEN In(p) ELSE p
      [] p.cb = "SOFTRESET" -> In(Go(p, SendSoftReset))
      [] p.cb = "SOURCECAPS" ->
            LET q == [p EXCEPT !.hr = 0, !.caps = 0] IN
            IF p.state # "SRC_Give_Source_Cap" THEN In(Go(q, "SRC_Send_Capabilities"))
            ELSE IF role = "src" THEN In(q) ELSE Go(q, "SNK_Ready")
      [] p.cb = "PSREADY" -> IF p.state = "SRC_Transition_Supply" THEN Go(p, "SRC_Ready") ELSE p
      [] p.cb = "REJECT" /\ p.state = "SRC_Capability_Response" ->
            Go(p, IF p.contract THEN "SRC_Hard_Reset" ELSE "SRC_Wait_New_Capabilities")
      [] p.cb \in {"HARDRESET", "BISTCARRY"} -> p
      [] p.cb = "GIVEPPS_STA" -> Go(p, "SRC_Ready")
      [] OTHER -> Go(p, Ready)

\* The messages whose answer is waited for SenderResponseTimer.
TimedCb == {"REQUEST", "SOFTRESET", "SOURCECAPS"}

SupplyAccepted == pd.cb = "ACCEPT" /\ pd.state = "SRC_Transition_Supply"

\* Mutation: an accepted request leaves the regulator ready.
TxSuccessStaysReady ==
    /\ Interrupt /\ ~quiet /\ air = "sop"
    /\ pd' = [SentState(pd) EXCEPT !.busy = FALSE]
    /\ tm' = IF pd.cb \in TimedCb THEN Start("SenderResponse") ELSE tm
    /\ ev' = IF SupplyAccepted THEN ev \cup {"PS_TRANST"} ELSE ev
    /\ air' = "none"
    /\ UNCHANGED <<rx, reg>>

TxSuccess ==
    /\ Interrupt /\ ~quiet /\ air = "sop"
    /\ pd' = [SentState(pd) EXCEPT !.busy = FALSE]
    /\ tm' = IF pd.cb \in TimedCb THEN Start("SenderResponse") ELSE tm
    /\ ev' = IF SupplyAccepted THEN ev \cup {"PS_TRANST"} ELSE ev
    /\ reg' = IF SupplyAccepted THEN [reg EXCEPT !.ready = FALSE] ELSE reg
    /\ air' = "none"
    /\ UNCHANGED rx

\* transmit_fail_cb with no retry left; transmit_discard_cb, for a message that
\* has come meanwhile.
Failed(p, discarded) ==
    CASE p.state = "SNK_Send_Soft_Reset" -> Go(p, "SNK_Hard_Reset")
      [] p.state = "SRC_Send_Soft_Reset" -> Go(p, "SRC_Hard_Reset")
      [] p.state = "SRC_Send_Capabilities" /\ ~p.contract /\ ~discarded -> Go(p, "SRC_Discovery")
      [] OTHER -> Go(p, SendSoftReset)

TxFail ==
    /\ Interrupt /\ air = "sop"
    /\ \E discarded \in (IF quiet THEN {FALSE} ELSE BOOLEAN) :
          pd' = [Failed(pd, discarded) EXCEPT !.busy = FALSE]
    /\ air' = "none"
    /\ UNCHANGED <<tm, ev, rx, reg>>

\* The end of a hard reset or a BIST carrier, whatever it is called.
OtherSent ==
    /\ Interrupt /\ air = "other"
    /\ pd' = [pd EXCEPT !.busy = FALSE] /\ air' = "none"
    /\ UNCHANGED <<tm, ev, rx, reg>>

usb_pd_interrupt == Receive \/ ReceiveHardReset \/ TxSuccess \/ TxFail \/ OtherSent
-----------------------------------------------------------------------------
(* Between two passes: the Type-C machine and the other tasks *)

Between == at = "rest" /\ UNCHANGED rx
Asks(what) == Between /\ ~quiet /\ what \in scene.asks

\* A timer started in a pass does not expire in it; packets that nothing will
\* read again are forgotten.
NextPass ==
    /\ at = "rest" /\ at' = "event"
    /\ tm' = [t \in Timer |-> IF tm[t] = "new" THEN "on" ELSE tm[t]]
    /\ rx' = IF rx.n = 0 /\ "RX_SOP_PACKET" \notin ev
             THEN [rx EXCEPT !.pkt = "Ignored", !.pkt1 = "Ignored"] ELSE rx
    /\ UNCHANGED <<pd, ev, link, gate, reg, port, quiet>>

\* The Type-C machine attaches, many passes after it has detached, and the port
\* manager tells the policy engine.
Attach(r) ==
    /\ Between /\ ~quiet /\ tc = "none" /\ r \in scene.as /\ ev \cap {"SNK_UNATTACH", "SRC_UNATTACH"} = {}
    /\ tc' = r /\ role' = r /\ host' = (r = "src")
    /\ IF r = "src"
       THEN ev' = ev \cup {"SRC_ATTACHED"} /\ gate' = TRUE
       ELSE ev' = (IF pd.contract THEN ev ELSE ev \cup {"SNK_ATTACHED"}) /\ UNCHANGED gate
    /\ UNCHANGED <<at, pd, tm, link, reg, quiet, scene>>

\* With the last port the converter goes back to 5 V.

Detach ==
    /\ Between /\ ~quiet /\ tc # "none"
    /\ tc' = "none" /\ gate' = FALSE
    /\ reg' = [want |-> "5V", bus |-> "5V", pend |-> "none", ready |-> TRUE]
    /\ ev' = ev \cup {IF tc = "snk" THEN "SNK_UNATTACH" ELSE "SRC_UNATTACH"}
    /\ UNCHANGED <<at, pd, tm, link, role, host, quiet, scene>>

\* pdlib_disable_usbpd, by the port manager and the fast charging protocols
Disable ==
    /\ Asks("disable") /\ pd' = Go(pd, "RSC_Disable")
    /\ UNCHANGED <<at, tm, ev, link, gate, reg, port, quiet>>

\* usb_pd_requsrt_voltage
AskVoltage ==
    /\ Asks("voltage") /\ pd.contract /\ tc = "snk"
    /\ \E pps \in BOOLEAN : pd' = [pd EXCEPT !.pps = pps]
    /\ ev' = ev \cup {"SNK_SET_VOLTAGE"}
    /\ UNCHANGED <<at, tm, link, gate, reg, port, quiet>>

\* pdlib_run, when the source has to offer less, or more again
AskSoftReset ==
    /\ Asks("softreset") /\ tc = "src" /\ ev' = ev \cup {"SOURCE_SOFTRESET"}
    /\ UNCHANGED <<at, pd, tm, link, gate, reg, port, quiet>>

\* The buck-boost task: BUCKBOOST_EVT_REGULATOR_WAITDONE, _DELAYDONE
Regulate ==
    /\ Between /\ reg.pend # "none"
    /\ reg' = IF reg.pend = "wait" THEN [reg EXCEPT !.bus = reg.want, !.pend = "delay"]
              ELSE [reg EXCEPT !.ready = TRUE, !.pend = "none"]
    /\ UNCHANGED <<at, pd, tm, ev, link, gate, port, quiet>>

\* The partner falls silent for good and stays attached; nobody else asks anything.
Silence ==
    /\ Asks("silence") /\ quiet' = TRUE
    /\ UNCHANGED <<at, pd, tm, ev, link, gate, reg, port>>

others == NextPass \/ (\E r \in {"snk", "src"} : Attach(r))
    \/ Detach \/ Disable \/ AskVoltage \/ AskSoftReset \/ Regulate \/ Silence

Next == usb_pdevt_run \/ usb_pd_run \/ usb_pd_interrupt \/ others

\* The main loop goes on; timers, transmissions and the converter come to an end.
Fairness ==
    /\ WF_vars(usb_pdevt_run) /\ WF_vars(usb_pd_run) /\ WF_vars(NextPass)
    /\ SF_vars(Expired) /\ SF_vars(SrcRecovered) /\ SF_vars(TxFail) /\ SF_vars(OtherSent) /\ SF_vars(Regulate)

Spec == Init /\ [][Next]_vars /\ Fairness
-----------------------------------------------------------------------------
(* Properties *)

\* Where the policy engine may stay, the partner having nothing to say.
Resting == {"RSC_Disable", "SRC_Disabled", "SNK_Ready", "SRC_Ready",
            "SRC_Wait_New_Capabilities", "BIST_Test_Mode"}
Timed(s, table) == s \in DOMAIN table /\ tm[table[s][1]] # "off"

\* No event, message, transmission or interrupt, in whatever order they come,
\* leaves the policy engine where nothing moves it: between two passes it is
\* transmitting, or rests, or the timer of the answer it waits for counts (or the
\* converter's), or its next callback leads on.
NeverStranded ==
    at = "rest" /\ ~pd.busy /\ pd.sub = "exit" =>
        \/ pd.state \in Resting \cup DOMAIN Through \cup
                {"SNK_Discovery", "SNK_Transition_to_default", "SRC_Negotiate_Capability"}
        \/ Timed(pd.state, SnkTimeout) \/ Timed(pd.state, SrcTimeout)
        \/ Timed(pd.state, OtherTimeout)
        \/ pd.state = "SRC_Transition_to_default" /\ tm["SourceHardResetRecover"] # "off"
        \/ pd.state = "SRC_Transition_Supply" /\
                (reg.ready \/ reg.pend # "none" \/ "PS_TRANST" \in ev)

\* The state machine waits for its transmission only while the PHY really has
\* one to end, whichever of them resets the PHY meanwhile.
BusyOnAir == pd.busy /\ phy => air = "sop"

\* The policy engine has no dead end: in every state something is to come, and
\* what it waits for on the air will end.
NoDeadEnd == NeverStranded /\ BusyOnAir

\* After its hard reset a source opens the gate again with 5 V ordered, not with
\* the voltage of the contract the hard reset has ended, whatever was pending.
GateReopensAt5V == [][~gate /\ gate' => reg'.want = "5V"]_vars

\* PS_RDY is not sent before the converter has gone to the voltage just agreed,
\* although it was ready at the one before until the Accept was sent.
PsRdyMeansDelivered ==
    [][pd'.cb = "PSREADY" /\ pd'.busy /\ ~pd.busy /\ pd'.state = "SRC_Transition_Supply"
         => reg.bus = "new"]_vars

\* A partner that falls silent is given up: after the retries, the soft reset
\* and the hard resets the policy engine rests, unless it transmits with the PHY
\* off.
SilentPartnerGivenUp ==
    [](quiet => <>[](pd.state \in Resting \/ (pd.busy /\ ~phy)))
=============================================================================
