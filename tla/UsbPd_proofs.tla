---------------------------- MODULE UsbPd_proofs ----------------------------
(***************************************************************************)
(* Proofs about UsbPd for all partners, requests and limits.               *)
(***************************************************************************)
EXTENDS UsbPd, TLAPS

Pd == [state : State, sub : {"enter", "exit"}, busy : BOOLEAN, cb : Sent,
       hr : 0 .. HardResets+1, caps : 0 .. CapsCount+1,
       pps : BOOLEAN, bist : BOOLEAN, loops : 0 .. Loops, contract : BOOLEAN,
       need : BOOLEAN]
Tm == [Timer -> {"off", "new", "on"}]
Rx == [pkt : Message, pkt1 : Message, n : 0 .. MaxRx, copy : BOOLEAN]
Reg == [want : Volt, bus : Volt, pend : {"none", "wait", "delay"}, ready : BOOLEAN]

\* The types part by part, for the steps that write one of them.
LEMMA TypesAre ==
    TypeOK <=> /\ at \in {"event", "check", "run", "rest"} /\ pd \in Pd /\ tm \in Tm
               /\ ev \subseteq Event /\ rx \in Rx
               /\ phy \in BOOLEAN /\ listen \subseteq {"SOP", "HARD_RESET"}
               /\ air \in {"none", "sop", "other"} /\ gate \in BOOLEAN /\ reg \in Reg
               /\ tc \in {"none", "snk", "src"} /\ role \in {"snk", "src"} /\ host \in BOOLEAN
               /\ quiet \in BOOLEAN /\ scene \in Scenes
  BY DEF TypeOK, Pd, Tm, Rx, Reg

LEMMA TypesAfter ==
    ASSUME at' \in {"event", "check", "run", "rest"}, pd' \in Pd, tm' \in Tm,
           ev' \subseteq Event, rx' \in Rx,
           phy' \in BOOLEAN, listen' \subseteq {"SOP", "HARD_RESET"},
           air' \in {"none", "sop", "other"}, gate' \in BOOLEAN, reg' \in Reg,
           tc' \in {"none", "snk", "src"}, role' \in {"snk", "src"}, host' \in BOOLEAN,
           quiet' \in BOOLEAN, scene' \in Scenes
    PROVE  TypeOK'
  BY DEF TypeOK, Pd, Tm, Rx, Reg

-----------------------------------------------------------------------------
(* The inductive invariant *)

\* A timer of the state counts: what SnkTimeout, SrcTimeout and OtherTimeout say.
Counting ==
    \/ pd.state = "SNK_Wait_for_Capabilities" /\ tm["SinkWaitCap"] # "off"
    \/ pd.state \in {"SNK_Select_Capability", "SNK_Send_Soft_Reset", "SRC_Send_Capabilities",
                     "SRC_Give_Source_Cap", "SRC_Send_Soft_Reset", "DRS_Send_Swap"}
            /\ tm["SenderResponse"] # "off"
    \/ pd.state = "SNK_Transition_Sink" /\ tm["PSTransition"] # "off"
    \/ pd.state = "SRC_Discovery" /\ tm["SourceCapability"] # "off"
    \/ pd.state = "SRC_Hard_Reset" /\ tm["PSHardReset"] # "off"
    \/ pd.state = "Chunk_Received" /\ tm["ChunkingNotSupported"] # "off"
    \/ pd.state = "BIST_Carrier_Mode" /\ tm["BISTContMode"] # "off"
    \/ pd.state = "SRC_Transition_to_default" /\ tm["SourceHardResetRecover"] # "off"

\* Where the next callback leads on.
Leading == {"SNK_Startup", "SNK_Evaluate_Capability", "SNK_Hard_Reset", "SNK_Soft_Reset",
            "SRC_Startup", "SRC_Soft_Reset", "Give_Battery_Status", "SNK_Discovery",
            "SNK_Transition_to_default", "SRC_Negotiate_Capability"}

\* The states that answer a question, and what they send.
Answering == {"SNK_Send_Not_Supported", "SNK_Give_Sink_Cap", "SNK_Give_Sink_Cap_Ext",
              "SRC_Send_Not_Supported", "SRC_Give_PPS_Status", "Give_Revision"}
AnswerSent == {"NOTSUPPORT", "REJECT", "GIVESNKCAP", "GIVESNKCAP_EXT", "GIVEPPS_STA", "REVISION"}

\* What a state that has been entered waits for, also in the middle of a pass: not
\* the end of whatever is being sent, but of its own answer, whose end leads on.
Moving ==
    \/ pd.sub = "enter"
    \/ pd.state \in Resting \cup Leading
    \/ Counting
    \/ pd.state = "SRC_Transition_Supply"
            /\ (reg.ready \/ reg.pend # "none" \/ "PS_TRANST" \in ev)
    \/ pd.state \in Answering /\ pd.busy /\ pd.cb \in AnswerSent

\* The callbacks that run on after one has begun to send: none of them touches the PHY.
BusyRuns ==
    at = "run" /\ pd.busy =>
        \/ pd.state \in Answering \cup {"Give_Battery_Status"} /\ pd.sub = "exit"
        \/ pd.state = "SNK_Ready" /\ (pd.sub = "exit" => tm["SinkPPSPeriodic"] # "on")
        \/ pd.state = "SRC_Ready" /\ (pd.sub = "exit" => tm["SourcePPSComm"] # "on")
        \/ pd.state = "DRS_Send_Swap"

AirOfPhy == air # "none" => phy

\* The recovery of a source, and the hard reset about to lead to it, has no change of the
\* voltage before it: PS_TRANST is served in the pass the timer of the hard reset needs.
Recovering ==
    /\ pd.state = "SRC_Transition_to_default" =>
            "PS_TRANST" \notin ev /\ (pd.sub = "exit" => reg.want = "5V")
    /\ pd.state = "SRC_Hard_Reset" /\ pd.sub = "exit" /\ at # "event" /\ tm["PSHardReset"] = "on"
            => "PS_TRANST" \notin ev

\* The events that start the policy engine anew, served before PS_TRANST.
Typec == {"SNK_ATTACHED", "SNK_UNATTACH", "SRC_ATTACHED", "SRC_UNATTACH"}

\* Without a partner the converter stays at 5 V: what is left of the last partner
\* is about to be forgotten.
Alone ==
    tc = "none" =>
        /\ reg.want = "5V"
        /\ ev \cap Typec = {} =>
               /\ pd.state \notin {"SRC_Negotiate_Capability", "SRC_Transition_Supply"}
               /\ "PS_TRANST" \notin ev

\* A source that has accepted a request: the change is still to be ordered, or ordered.
Supplying ==
    pd.state = "SRC_Transition_Supply" =>
        /\ pd.sub = "enter" /\ ~pd.busy => at = "run"
        /\ ((pd.sub = "enter") <=> pd.busy) => pd.cb = "ACCEPT"
        /\ pd.sub = "exit" => pd.cb \in {"ACCEPT", "PSREADY"}
        /\ pd.sub = "exit" =>
              \/ ev \cap Typec # {} /\ at \in {"rest", "event"}
              \/ "PS_TRANST" \in ev /\ (at \in {"check", "run"} => ~reg.ready)
              \/ reg.want = "new" /\ (reg.bus = "new" \/ (reg.pend = "wait" /\ ~reg.ready))

IInv == TypeOK /\ Moving /\ BusyOnAir /\ BusyRuns /\ AirOfPhy /\ Recovering /\ Alone /\ Supplying

-----------------------------------------------------------------------------
(* The operators on the policy engine's record *)

\* Limits of the counters
LEMMA Counts ==
    /\ 0 \in 0 .. HardResets+1 /\ 0 \in 0 .. CapsCount+1 /\ 0 \in 0 .. Loops /\ Loops \in 0 .. Loops
    /\ \A i \in 0 .. HardResets+1 : Past(i, HardResets) \in 0 .. HardResets+1
    /\ \A i \in 0 .. CapsCount+1 : Past(i, CapsCount) \in 0 .. CapsCount+1
    /\ \A i \in 0 .. Loops : i < Loops => i+1 \in 0 .. Loops
    /\ 0 \in 0 .. MaxRx
    /\ \A i \in 0 .. MaxRx : (i > 0 => i-1 \in 0 .. MaxRx) /\ (i < MaxRx => i+1 \in 0 .. MaxRx)
  BY UsbPdAssumption DEF Past

LEMMA GoIs ==
    ASSUME NEW p \in Pd, NEW s \in State
    PROVE  /\ Go(p, s) \in Pd /\ Go(p, s).state = s /\ Go(p, s).sub = "enter"
           /\ Go(p, s).busy = p.busy /\ Go(p, s).cb = p.cb
  BY DEF Go, Pd

LEMMA InIs ==
    ASSUME NEW p \in Pd
    PROVE  /\ In(p) \in Pd /\ In(p).state = p.state /\ In(p).sub = "exit"
           /\ In(p).busy = p.busy /\ In(p).cb = p.cb
  BY DEF In, Pd

LEMMA SendIs ==
    ASSUME NEW p \in Pd, NEW type \in Sent
    PROVE  /\ Send(p, type) \in Pd /\ Send(p, type).state = p.state
           /\ Send(p, type).sub = p.sub /\ Send(p, type).busy /\ Send(p, type).cb = type
  BY DEF Send, Pd

LEMMA ResetPrlIs ==
    ASSUME NEW p \in Pd
    PROVE  /\ ResetPrl(p) \in Pd /\ ResetPrl(p).state = p.state
           /\ ResetPrl(p).sub = p.sub /\ ~ResetPrl(p).busy /\ ResetPrl(p).cb = p.cb
  BY Counts DEF ResetPrl, Pd

LEMMA StatesAre ==
    /\ State = {"SNK_Startup", "SNK_Discovery", "SNK_Wait_for_Capabilities",
        "SNK_Evaluate_Capability", "SNK_Select_Capability", "SNK_Transition_Sink", "SNK_Ready",
        "SNK_Hard_Reset", "SNK_Transition_to_default", "SNK_Send_Soft_Reset", "SNK_Soft_Reset",
        "SNK_Send_Not_Supported", "SNK_Give_Sink_Cap", "SNK_Give_Sink_Cap_Ext",
        "SRC_Startup", "SRC_Discovery", "SRC_Send_Capabilities",
        "SRC_Negotiate_Capability", "SRC_Transition_Supply", "SRC_Ready", "SRC_Disabled",
        "SRC_Capability_Response", "SRC_Hard_Reset", "SRC_Hard_Reset_Received",
        "SRC_Transition_to_default", "SRC_Give_Source_Cap", "SRC_Wait_New_Capabilities",
        "SRC_Send_Soft_Reset", "SRC_Soft_Reset", "SRC_Send_Not_Supported", "SRC_Give_PPS_Status",
        "RSC_Disable", "DRS_Send_Swap", "Give_Revision",
        "Chunk_Received", "BIST_Carrier_Mode", "BIST_Test_Mode", "Give_Battery_Status"}
    /\ {Ready, SendSoftReset, SendNotSupported, HardReset} \subseteq State
    /\ Ready \in {"SNK_Ready", "SRC_Ready"}
    /\ SendSoftReset \in {"SNK_Send_Soft_Reset", "SRC_Send_Soft_Reset"}
    /\ SendNotSupported \in {"SNK_Send_Not_Supported", "SRC_Send_Not_Supported"}
    /\ HardReset \in {"SNK_Hard_Reset", "SRC_Hard_Reset"}
  BY DEF State, SnkState, SrcState, Ready, SendSoftReset, SendNotSupported, HardReset, Own

\* What the states that wait for a timer do.
LEMMA ExpiredIs ==
    Expired => /\ at = "run" /\ pd.sub = "exit" /\ Elsewhere /\ SameLink /\ Loop
               /\ tm' = tm \/ \E t \in Timer : tm' = Stop(t)
               /\ \E s \in State, t \in State :
                     /\ pd.state = s /\ pd' = Go(pd, t) /\ t # "SRC_Negotiate_Capability"
                     /\ t # "SRC_Transition_Supply"
                     /\ s \notin {"SNK_Ready", "SRC_Ready", "Give_Battery_Status"} \cup Answering
                     /\ s = "DRS_Send_Swap" => t \in {"SNK_Ready", "SRC_Ready"}
                     /\ t = "SRC_Transition_to_default" => s = "SRC_Hard_Reset" /\ tm["PSHardReset"] = "on"
<1> SUFFICES ASSUME Expired
             PROVE  /\ at = "run" /\ pd.sub = "exit" /\ Elsewhere /\ SameLink /\ Loop
                    /\ tm' = tm \/ \E t \in Timer : tm' = Stop(t)
                    /\ \E s \in State, t \in State :
                         /\ pd.state = s /\ pd' = Go(pd, t) /\ t # "SRC_Negotiate_Capability"
                         /\ t # "SRC_Transition_Supply"
                         /\ s \notin {"SNK_Ready", "SRC_Ready", "Give_Battery_Status"} \cup Answering
                         /\ s = "DRS_Send_Swap" => t \in {"SNK_Ready", "SRC_Ready"}
                         /\ t = "SRC_Transition_to_default" => s = "SRC_Hard_Reset" /\ tm["PSHardReset"] = "on"
  OBVIOUS
<1>1. CASE Expire(SnkTimeout, FALSE)
  <2>1. PICK s \in {"SNK_Wait_for_Capabilities", "SNK_Select_Capability", "SNK_Transition_Sink",
                  "SNK_Send_Soft_Reset"} :
           /\ Callback(s, "exit") /\ tm[SnkTimeout[s][1]] = "on" /\ Elsewhere /\ SameLink /\ Loop
           /\ pd' = Go(pd, SnkTimeout[s][2]) /\ tm' = tm
    BY <1>1 DEF Expire, SnkTimeout
  <2>2. SnkTimeout[s][2] \in {"SNK_Hard_Reset", "RSC_Disable"}
    BY <2>1, StatesAre DEF SnkTimeout
  <2> QED
    BY ONLY <2>1, <2>2, StatesAre DEF Callback, Answering
<1>2. CASE Expire(SrcTimeout, FALSE)
  <2>1. PICK s \in {"SRC_Discovery", "SRC_Send_Capabilities", "SRC_Hard_Reset", "SRC_Give_Source_Cap",
                  "SRC_Send_Soft_Reset", "DRS_Send_Swap"} :
           /\ Callback(s, "exit") /\ tm[SrcTimeout[s][1]] = "on" /\ Elsewhere /\ SameLink /\ Loop
           /\ pd' = Go(pd, SrcTimeout[s][2]) /\ tm' = tm
    BY <1>2 DEF Expire, SrcTimeout
  <2>2. SrcTimeout[s][2] \in {"SRC_Disabled", "SRC_Send_Capabilities", "SRC_Hard_Reset", "SRC_Transition_to_default",
                            "SNK_Ready", "SRC_Ready"}
    BY <2>1, StatesAre DEF SrcTimeout
  <2>3. s = "DRS_Send_Swap" => SrcTimeout[s][2] \in {"SNK_Ready", "SRC_Ready"}
    BY StatesAre DEF SrcTimeout
  <2>4. SrcTimeout[s][2] = "SRC_Transition_to_default" => s = "SRC_Hard_Reset" /\ SrcTimeout[s][1] = "PSHardReset"
    BY <2>1, StatesAre DEF SrcTimeout
  <2> QED
    BY ONLY <2>1, <2>2, <2>3, <2>4, StatesAre DEF Callback, Answering
<1>3. CASE Expire(OtherTimeout, TRUE)
  <2>1. PICK s \in {"Chunk_Received", "BIST_Carrier_Mode"} :
           /\ Callback(s, "exit") /\ tm[OtherTimeout[s][1]] = "on" /\ Elsewhere /\ SameLink /\ Loop
           /\ pd' = Go(pd, OtherTimeout[s][2]) /\ tm' = Stop(OtherTimeout[s][1])
    BY <1>3 DEF Expire, OtherTimeout
  <2>2. OtherTimeout[s][2] \in {"SNK_Send_Not_Supported", "SRC_Send_Not_Supported", "SNK_Ready", "SRC_Ready"}
    BY <2>1, StatesAre DEF OtherTimeout
  <2>3. OtherTimeout[s][1] \in Timer
    BY <2>1 DEF OtherTimeout, Timer
  <2> QED
    BY ONLY <2>1, <2>2, <2>3, StatesAre DEF Callback, Answering
<1> QED
  BY <1>1, <1>2, <1>3 DEF Expired

-----------------------------------------------------------------------------
(* Types *)

LEMMA InitTypes == Init => TypeOK
<1> SUFFICES ASSUME Init PROVE TypeOK
  OBVIOUS
<1>1. pd \in Pd
  BY Counts, StatesAre DEF Init, Pd, Sent
<1>2. tm \in Tm /\ rx \in Rx /\ reg \in Reg
  BY Counts DEF Init, Tm, NoTimer, Rx, Message, Reg, Volt
<1> QED
  BY <1>1, <1>2, TypesAre DEF Init

LEMMA TimersType ==
    ASSUME tm \in Tm
    PROVE  NoTimer \in Tm /\ \A t \in Timer : Start(t) \in Tm /\ Stop(t) \in Tm
  BY DEF Tm, NoTimer, Start, Stop

LEMMA AirType == OnAir("sop") \in {"none", "sop", "other"} /\ OnAir("other") \in {"none", "sop", "other"}
  BY DEF OnAir

\* A callback types its own parts; the rest is left alone.
LEMMA CallbackTypes ==
    ASSUME TypeOK, at \in {"run", "check"}, Elsewhere, at' \in {"run", "rest"},
           pd' \in Pd, tm' \in Tm
    PROVE  ev' \subseteq Event /\ rx' \in Rx /\ quiet' \in BOOLEAN /\ pd' \in Pd /\ tm' \in Tm
           /\ at' \in {"event", "check", "run", "rest"}
  BY TypesAre DEF Elsewhere

LEMMA LoopType == Loop => at' \in {"run", "rest"}
  BY DEF Loop

LEMMA SameLinkTypes ==
    TypeOK /\ SameLink
        => /\ phy' \in BOOLEAN /\ listen' \subseteq {"SOP", "HARD_RESET"}
           /\ air' \in {"none", "sop", "other"} /\ gate' \in BOOLEAN /\ reg' \in Reg
           /\ tc' \in {"none", "snk", "src"} /\ role' \in {"snk", "src"} /\ host' \in BOOLEAN
           /\ scene' \in Scenes
  BY TypesAre DEF SameLink, link, port

LEMMA SendTypes ==
    TypeOK /\ UNCHANGED <<phy, listen, gate, reg, port>> /\ (air' = OnAir("sop") \/ air' = OnAir("other") \/ air' = air)
        => /\ phy' \in BOOLEAN /\ listen' \subseteq {"SOP", "HARD_RESET"}
           /\ air' \in {"none", "sop", "other"} /\ gate' \in BOOLEAN /\ reg' \in Reg
           /\ tc' \in {"none", "snk", "src"} /\ role' \in {"snk", "src"} /\ host' \in BOOLEAN
           /\ scene' \in Scenes
  BY TypesAre, AirType DEF port

LEMMA RunTypes == TypeOK /\ usb_pd_run => TypeOK'
<1> SUFFICES ASSUME TypeOK, usb_pd_run PROVE TypeOK'
  OBVIOUS
<1>a. pd \in Pd /\ tm \in Tm
  BY TypesAre, TypesAfter
<1>1. CASE CheckBusy
  BY <1>1, TypesAre, TypesAfter DEF CheckBusy, link, port
<1>2. CASE PassThrough
  BY <1>2, <1>a, CallbackTypes, LoopType, SameLinkTypes, TypesAre, TypesAfter, GoIs, StatesAre DEF PassThrough, Callback, Through
<1>3. CASE Expired
  BY <1>3, <1>a, ExpiredIs, CallbackTypes, LoopType, SameLinkTypes, TypesAre, TypesAfter, GoIs, TimersType
<1>4. CASE BeginWait
  BY <1>4, <1>a, CallbackTypes, LoopType, SameLinkTypes, TypesAre, TypesAfter, InIs, TimersType DEF BeginWait, Callback, Waiting, Timer
<1>5. CASE SendAndStay
  BY <1>5, <1>a, CallbackTypes, LoopType, SendTypes, TypesAre, TypesAfter, SendIs DEF SendAndStay, Callback, Sender, Sent
<1>6. CASE SendCapabilities
  <2>1. [Send(pd, "SOURCECAPS") EXCEPT !.caps = Past(@, CapsCount)] \in Pd
    BY <1>a, SendIs, Counts DEF Pd, Sent
  <2> QED
    BY <1>6, <2>1, <1>a, CallbackTypes, LoopType, SendTypes, TypesAre, TypesAfter DEF SendCapabilities, Callback
<1>7. CASE EnterSoftReset
  BY <1>7, <1>a, CallbackTypes, LoopType, SendTypes, TypesAre, TypesAfter, SendIs, ResetPrlIs, TimersType DEF EnterSoftReset, Callback, SoftResets, Sent
<1>8. CASE SendAnswer
  BY <1>8, <1>a, CallbackTypes, LoopType, SendTypes, TypesAre, TypesAfter, SendIs, InIs DEF SendAnswer, Callback, Answers, Sent
<1>9. CASE GiveBatteryStatus
  <2>1. pd.cb \in Sent
    BY <1>a DEF Pd
  <2> QED
    BY <1>9, <2>1, <1>a, CallbackTypes, LoopType, SendTypes, TypesAre, TypesAfter, SendIs, InIs DEF GiveBatteryStatus, Callback
<1>10. CASE Idle
  BY <1>10, <1>a, CallbackTypes, LoopType, SameLinkTypes, TypesAre, TypesAfter DEF Idle
<1>11. CASE Disabled
  <2>1. [pd EXCEPT !.contract = FALSE] \in Pd
    BY <1>a DEF Pd
  <2> QED
    BY <1>11, <2>1, <1>a, CallbackTypes, LoopType, TypesAre, TypesAfter, ResetPrlIs, InIs, TimersType DEF Disabled, Callback, port
<1>12. CASE SnkStartup
  <2>1. [pd EXCEPT !.contract = FALSE] \in Pd
    BY <1>a DEF Pd
  <2> QED
    BY <1>12, <2>1, <1>a, CallbackTypes, LoopType, TypesAre, TypesAfter, ResetPrlIs, InIs, TimersType DEF SnkStartup, Callback
<1>13. CASE SnkDiscovery
  BY <1>13, <1>a, CallbackTypes, LoopType, TypesAre, TypesAfter, GoIs, InIs, StatesAre DEF SnkDiscovery, port
<1>14. CASE SnkEvaluate
  <2>1. [pd EXCEPT !.hr = 0, !.need = @ \/ pd.contract] \in Pd
    BY <1>a, Counts DEF Pd
  <2> QED
    BY <1>14, <2>1, <1>a, CallbackTypes, LoopType, SameLinkTypes, TypesAre, TypesAfter, InIs, TimersType DEF SnkEvaluate, Callback, Timer
<1>15. CASE SnkTransition
  <2>1. tm' \in Tm
    BY <1>15, <1>a DEF SnkTransition, Tm
  <2> QED
    BY <1>15, <2>1, <1>a, CallbackTypes, LoopType, SameLinkTypes, TypesAre, TypesAfter, InIs DEF SnkTransition, Callback
<1>16. CASE SnkReady
  <2>1. [pd EXCEPT !.contract = TRUE, !.need = FALSE] \in Pd
    BY <1>a DEF Pd
  <2>2. tm' \in Tm
    BY <1>16, TimersType, <1>a DEF SnkReady, Tm
  <2> QED
    BY <1>16, <2>1, <2>2, <1>a, CallbackTypes, LoopType, SameLinkTypes, TypesAre, TypesAfter, InIs DEF SnkReady, Callback
<1>17. CASE SnkReadyExit
  BY <1>17, <1>a, CallbackTypes, LoopType, SameLinkTypes, TypesAre, TypesAfter, GoIs, StatesAre DEF SnkReadyExit, Callback
<1>18. CASE SnkHardReset
  <2>1. [pd EXCEPT !.hr = Past(@, HardResets), !.cb = "HARDRESET"] \in Pd
    BY <1>a, Counts DEF Pd, Sent
  <2> QED
    BY <1>18, <2>1, <1>a, CallbackTypes, LoopType, SendTypes, TypesAre, TypesAfter, InIs DEF SnkHardReset, Callback
<1>19. CASE SnkTransitionToDefault
  <2>1. [ResetPrl(pd) EXCEPT !.loops = 0] \in Pd
    BY <1>a, ResetPrlIs, Counts DEF Pd
  <2> QED
    BY <1>19, <2>1, <1>a, CallbackTypes, LoopType, TypesAre, TypesAfter, InIs, TimersType DEF SnkTransitionToDefault, Callback
<1>20. CASE SnkRecovered
  <2>1. [pd EXCEPT !.loops = Loops, !.need = TRUE] \in Pd
    BY <1>a, Counts DEF Pd
  <2>2. pd.loops + 1 < Loops => [pd EXCEPT !.loops = @ + 1] \in Pd
    BY <1>a, Counts, UsbPdAssumption DEF Pd
  <2> QED
    BY <1>20, <2>1, <2>2, <1>a, CallbackTypes, LoopType, SameLinkTypes, TypesAre, TypesAfter, GoIs, StatesAre DEF SnkRecovered, Callback
<1>21. CASE SrcStartup
  <2>1. [pd EXCEPT !.contract = FALSE] \in Pd
    BY <1>a DEF Pd
  <2> QED
    BY <1>21, <2>1, <1>a, CallbackTypes, LoopType, TypesAre, TypesAfter, ResetPrlIs, InIs, TimersType DEF SrcStartup, Callback
<1>22. CASE SrcNegotiate
  <2>2. reg' \in Reg
    BY <1>22, TypesAre, TypesAfter DEF SrcNegotiate, Reg, Volt
  <2>4. pd' \in Pd
    <3>1. CASE \E r \in Request \ {"ReqBad"} :
                 pd' = Go([pd EXCEPT !.pps = r = "ReqPps"], "SRC_Transition_Supply")
      <4>1. PICK r \in Request : pd' = Go([pd EXCEPT !.pps = r = "ReqPps"], "SRC_Transition_Supply")
        BY <3>1
      <4>2. [pd EXCEPT !.pps = r = "ReqPps"] \in Pd
        BY <1>a DEF Pd
      <4> QED
        BY <4>1, <4>2, GoIs, StatesAre
    <3>2. CASE pd' = In(pd) \/ pd' = Go(pd, "SRC_Capability_Response")
      BY <3>2, <1>a, GoIs, InIs, StatesAre
    <3> QED
      BY <1>22, <3>1, <3>2 DEF SrcNegotiate
  <2> QED
    BY <1>22, <2>2, <2>4, <1>a, CallbackTypes, LoopType, TypesAre, TypesAfter DEF SrcNegotiate, link, port
<1>23. CASE SrcSupplyReady
  BY <1>23, <1>a, CallbackTypes, LoopType, SendTypes, TypesAre, TypesAfter, SendIs DEF SrcSupplyReady, Callback, Sent
<1>24. CASE SrcReady
  <2>1. [pd EXCEPT !.contract = TRUE, !.loops = 0] \in Pd
    BY <1>a, Counts DEF Pd
  <2>2. tm' \in Tm
    BY <1>24, TimersType, <1>a DEF SrcReady, Tm
  <2> QED
    BY <1>24, <2>1, <2>2, <1>a, CallbackTypes, LoopType, SameLinkTypes, TypesAre, TypesAfter, InIs DEF SrcReady, Callback
<1>25. CASE SrcReadyExit
  <2>1. (IF pd.loops < Loops THEN pd.loops + 1 ELSE Loops) \in 0 .. Loops
    BY <1>a, Counts, UsbPdAssumption DEF Pd
  <2>2. \A p \in Pd, n \in 0 .. Loops : [p EXCEPT !.loops = n] \in Pd
    BY DEF Pd
  <2>3. pd' \in Pd
    BY <1>25, <2>1, <2>2, <1>a, GoIs, StatesAre DEF SrcReadyExit
  <2> QED
    BY <1>25, <2>3, <1>a, CallbackTypes, LoopType, SameLinkTypes, TypesAre, TypesAfter DEF SrcReadyExit, Callback
<1>26. CASE DataRoleSwap
  BY <1>26, <1>a, CallbackTypes, LoopType, SendTypes, TypesAre, TypesAfter, SendIs, InIs, TimersType DEF DataRoleSwap, Callback, Sent, Timer
<1>27. CASE SrcDisabled
  BY <1>27, <1>a, CallbackTypes, LoopType, TypesAre, TypesAfter, ResetPrlIs, InIs, TimersType DEF SrcDisabled, Callback, port
<1>28. CASE SrcHardReset
  <2>1. [pd EXCEPT !.cb = "HARDRESET"] \in Pd
    BY <1>a DEF Pd, Sent
  <2> QED
    BY <1>28, <2>1, <1>a, CallbackTypes, LoopType, SendTypes, TypesAre, TypesAfter, InIs, GoIs, StatesAre, TimersType DEF SrcHardReset, Timer
<1>29. CASE SrcTransitionToDefault
  <2>1. SetBus("5V") \in Reg
    BY TypesAre, TypesAfter DEF SetBus, Reg, Volt
  <2> QED
    BY <1>29, <2>1, <1>a, CallbackTypes, LoopType, TypesAre, TypesAfter, InIs, TimersType DEF SrcTransitionToDefault, Callback, Timer
<1>30. CASE SrcRecovered
  BY <1>30, <1>a, CallbackTypes, LoopType, TypesAre, TypesAfter, GoIs, StatesAre, TimersType DEF SrcRecovered, Callback, Timer, port
<1>31. CASE BistCarrier
  <2>1. [pd EXCEPT !.cb = "BISTCARRY"] \in Pd
    BY <1>a DEF Pd, Sent
  <2> QED
    BY <1>31, <2>1, <1>a, CallbackTypes, LoopType, SendTypes, TypesAre, TypesAfter, InIs, TimersType DEF BistCarrier, Callback, Timer
<1> QED
  BY <1>1, <1>2, <1>3, <1>4, <1>5, <1>6, <1>7, <1>8, <1>9, <1>10, <1>11, <1>12, <1>13, <1>14, <1>15,
     <1>16, <1>17, <1>18, <1>19, <1>20, <1>21, <1>22, <1>23, <1>24, <1>25, <1>26, <1>27, <1>28, <1>29,
     <1>30, <1>31 DEF usb_pd_run

-----------------------------------------------------------------------------
(* What a message does *)

\* Any answer but the status of the battery starts another state, never one of
\* those a source's voltage changes in.
Answer(p, q) ==
    /\ q \in Pd /\ q.sub = "enter" /\ q.busy = p.busy /\ q.cb = p.cb
    /\ q.state \notin {"SRC_Transition_Supply", "SRC_Transition_to_default"}

LEMMA GoAnswers ==
    ASSUME NEW p \in Pd, NEW s \in State \ {"SRC_Transition_Supply", "SRC_Transition_to_default"}
    PROVE  Answer(p, Go(p, s))
  BY GoIs DEF Answer

LEMMA DataAnswers ==
    ASSUME NEW p \in Pd, NEW m \in Data
    PROVE  DataReaction(p, m) = p \/ Answer(p, DataReaction(p, m))
<1>1. CASE m = "SourceCap"
  BY <1>1, GoAnswers, StatesAre DEF DataReaction
<1>2. CASE m \in {"ReqFixed", "ReqPps", "ReqBad"}
  <2>1. \E s \in {"SRC_Negotiate_Capability", SendSoftReset} : DataReaction(p, m) = Go(p, s)
    BY <1>2 DEF DataReaction
  <2> QED
    BY <2>1, GoAnswers, StatesAre
<1>3. CASE m = "BistCarrier"
  BY <1>3, GoAnswers, StatesAre DEF DataReaction
<1>4. CASE m = "BistTest"
  <2>1. [p EXCEPT !.bist = TRUE] \in Pd
    BY DEF Pd
  <2>2. [p EXCEPT !.bist = TRUE].busy = p.busy /\ [p EXCEPT !.bist = TRUE].cb = p.cb
    BY DEF Pd
  <2> QED
    BY <1>4, <2>1, <2>2, GoAnswers, StatesAre DEF DataReaction, Answer
<1>5. CASE m = "EprRequest"
  BY <1>5, GoAnswers, StatesAre DEF DataReaction
<1>6. CASE m = "Unsupported"
  BY <1>6, GoAnswers, StatesAre DEF DataReaction
<1>7. CASE m = "Ignored"
  BY <1>7 DEF DataReaction
<1> QED
  BY <1>1, <1>2, <1>3, <1>4, <1>5, <1>6, <1>7 DEF Data

LEMMA CtrlAnswers ==
    ASSUME NEW p \in Pd, NEW m \in Message \ (Data \cup Ext)
    PROVE  CtrlReaction(p, m) = p \/ Answer(p, CtrlReaction(p, m))
<1> DEFINE Plain == State \ {"SRC_Transition_Supply", "SRC_Transition_to_default"}
<1>1. CASE m \in DOMAIN Expected(p) /\ ~Expected(p)[m]
  <2>1. CtrlReaction(p, m) = Go(p, SendSoftReset)
    BY <1>1 DEF CtrlReaction
  <2> QED
    BY <2>1, GoAnswers, StatesAre
<1>2. CASE ~(m \in DOMAIN Expected(p) /\ ~Expected(p)[m])
  <2>1. CASE m = "Accept"
    <3>1. Expected(p)["Accept"]
      BY <1>2, <2>1 DEF Expected
    <3>2. p.state \in {"SNK_Select_Capability", "SNK_Send_Soft_Reset",
                             "DRS_Send_Swap", "SRC_Send_Soft_Reset"}
      BY <3>1 DEF Expected
    <3>3. CtrlReaction(p, m) = Accepted(p)
      BY <1>2, <2>1 DEF CtrlReaction
    <3>4. \E s \in {"SNK_Transition_Sink", "SNK_Wait_for_Capabilities", Ready, "SRC_Send_Capabilities"} :
             Accepted(p) = Go(p, s)
      BY <3>2 DEF Accepted
    <3> QED
      BY <3>3, <3>4, GoAnswers, StatesAre
  <2>2. CASE m # "Accept"
    <3>1. \/ \E s \in {"SNK_Ready", "SRC_Give_Source_Cap", "SNK_Give_Sink_Cap", "SNK_Hard_Reset",
                      "SNK_Soft_Reset", "SRC_Soft_Reset", Ready, "Give_Revision",
                      "SNK_Give_Sink_Cap_Ext", "SRC_Give_PPS_Status"} : CtrlReaction(p, m) = Go(p, s)
          \/ CtrlReaction(p, m) = p
      BY <1>2, <2>2 DEF CtrlReaction, Message, Data, Ext, Own
    <3> QED
      BY <3>1, GoAnswers, StatesAre
  <2> QED
    BY <2>1, <2>2
<1> QED
  BY <1>1, <1>2

\* The status of the battery is sent from whatever state it finds.
LEMMA ExtAnswers ==
    ASSUME NEW p \in Pd, NEW m \in Ext
    PROVE  ExtReaction(p, m) = Send(p, p.cb) \/ Answer(p, ExtReaction(p, m))
  BY GoAnswers, StatesAre DEF ExtReaction, Ext

\* A message is dropped, answered in a state of its own, or answered on the spot.
LEMMA HandledIs ==
    ASSUME NEW p \in Pd, NEW m \in Message, NEW repeated \in BOOLEAN
    PROVE  \/ Handled(p, m, repeated) = p
           \/ tc # "none" /\ Answer(p, Handled(p, m, repeated))
           \/ tc # "none" /\ Handled(p, m, repeated) = Send(p, p.cb)
<1>1. CASE tc = "none" \/ (repeated /\ m # "SoftReset")
  BY <1>1 DEF Handled
<1>2. CASE ~(tc = "none" \/ (repeated /\ m # "SoftReset"))
  <2>1. Handled(p, m, repeated) =
            IF m \in Ext THEN ExtReaction(p, m)
            ELSE IF m \in Data THEN DataReaction(p, m) ELSE CtrlReaction(p, m)
    BY <1>2 DEF Handled
  <2> QED
    BY <1>2, <2>1, ExtAnswers, DataAnswers, CtrlAnswers
<1> QED
  BY <1>1, <1>2

LEMMA HandledType ==
    ASSUME NEW p \in Pd, NEW m \in Message, NEW repeated \in BOOLEAN
    PROVE  Handled(p, m, repeated) \in Pd
<1>1. p.cb \in Sent
  BY DEF Pd
<1> QED
  BY <1>1, HandledIs, SendIs DEF Answer

-----------------------------------------------------------------------------
(* Types, continued: events, interrupts, the others *)

LEMMA BusyOff ==
    ASSUME NEW p \in Pd
    PROVE  LET q == [p EXCEPT !.busy = FALSE] IN
           q \in Pd /\ q.state = p.state /\ q.sub = p.sub /\ ~q.busy /\ q.cb = p.cb
  BY DEF Pd

LEMMA FreedType ==
    ASSUME NEW p \in Pd
    PROVE  [p EXCEPT !.busy = FALSE, !.need = FALSE] \in Pd
  BY DEF Pd

LEMMA EventTypes == TypeOK /\ usb_pdevt_run => TypeOK'
<1> SUFFICES ASSUME TypeOK, usb_pdevt_run PROVE TypeOK'
  OBVIOUS
<1>a. pd \in Pd /\ tm \in Tm /\ rx \in Rx /\ reg \in Reg /\ ev \subseteq Event
  BY TypesAre
<1> USE DEF Served, link, port
<1>1. CASE TypecEvent
  <2>1. PICK s \in {"SNK_Startup", "SRC_Startup", "RSC_Disable"} :
           pd' = [Go(pd, s) EXCEPT !.busy = FALSE, !.need = FALSE]
    BY <1>1 DEF TypecEvent
  <2>2. pd' \in Pd
    <3>1. s \in State
      BY StatesAre
    <3>2. Go(pd, s) \in Pd
      BY <3>1, <1>a, GoIs
    <3> QED
      BY <2>1, <3>2, FreedType
  <2> QED
    BY <1>1, <2>2, TypesAre, TypesAfter DEF TypecEvent
<1>2. CASE RxHardResetEvent
  <2>1. pd' \in Pd
    BY <1>2, <1>a, GoIs, StatesAre, BusyOff DEF RxHardResetEvent, Own
  <2> QED
    BY <1>2, <2>1, TypesAre, TypesAfter DEF RxHardResetEvent
<1>3. CASE PsTransitionEvent
  <2>1. SetBus("new") \in Reg
    BY <1>a DEF SetBus, Reg, Volt
  <2> QED
    BY <1>3, <2>1, TypesAre, TypesAfter DEF PsTransitionEvent
<1>4. Taken.pkt \in Message /\ Taken.n \in 0 .. MaxRx
  BY <1>a, Counts DEF Taken, Rx
<1>5. CASE PacketDropped
  <2>1. rx' \in Rx
    BY <1>5, <1>4, <1>a, Counts DEF PacketDropped, Rx
  <2> QED
    BY <1>5, <2>1, TypesAre, TypesAfter DEF PacketDropped
<1>6. CASE PacketHandled
  <2>1. pd' \in Pd
    BY <1>6, <1>4, <1>a, HandledType DEF PacketHandled
  <2>2. (IF Taken.n > 0 THEN Taken.n - 1 ELSE 0) \in 0 .. MaxRx
    BY <1>4, Counts, UsbPdAssumption
  <2>3. rx' \in Rx
    <3> DEFINE left == IF Taken.n > 0 THEN Taken.n - 1 ELSE 0
    <3>1. rx' = [rx EXCEPT !.pkt = Taken.pkt, !.n = left, !.copy = left > 0]
      BY <1>6 DEF PacketHandled
    <3>2. left \in 0 .. MaxRx /\ (left > 0) \in BOOLEAN
      BY <2>2
    <3> HIDE DEF left
    <3> QED
      BY <3>1, <3>2, <1>4, <1>a DEF Rx
  <2>4. ev' \subseteq Event
    BY <1>6, <1>a DEF PacketHandled
  <2>5. host' \in BOOLEAN
    BY <1>6, TypesAre DEF PacketHandled
  <2>6. air' \in {"none", "sop", "other"}
    BY <1>6, TypesAre, AirType DEF PacketHandled
  <2> QED
    BY <1>6, <2>1, <2>3, <2>4, <2>5, <2>6, TypesAre, TypesAfter DEF PacketHandled
<1>7. CASE RequestEvent
  <2>1. pd' \in Pd /\ ev' \subseteq Event
    BY <1>7, <1>a, GoIs, StatesAre DEF RequestEvent
  <2> QED
    BY <1>7, <2>1, TypesAre, TypesAfter DEF RequestEvent
<1>8. CASE NoEvent
  BY <1>8, TypesAre, TypesAfter DEF NoEvent
<1> QED
  BY <1>1, <1>2, <1>3, <1>5, <1>6, <1>7, <1>8 DEF usb_pdevt_run

\* What a message that has gone out leaves: the states of SentState.
LEMMA SentStateIs ==
    ASSUME NEW p \in Pd
    PROVE  LET q == SentState(p) IN
           /\ q \in Pd /\ q.cb = p.cb
           /\ \/ q.state = p.state /\ q.sub = p.sub /\ p.cb \in {"ACCEPT", "PSREADY", "HARDRESET", "BISTCARRY"}
              \/ /\ q.state = p.state /\ q.sub = "exit" /\ p.cb = "ACCEPT"
                 /\ p.state \in {"SNK_Soft_Reset", "SRC_Transition_Supply", "SRC_Soft_Reset"}
              \/ /\ q.sub = "exit" /\ p.cb \in TimedCb
                 /\ q.state \in {"SNK_Select_Capability", "SNK_Send_Soft_Reset", "SRC_Send_Soft_Reset",
                                "SRC_Send_Capabilities", "SRC_Give_Source_Cap"}
              \/ /\ q.sub = "enter"
                 /\ q.state \in {"SNK_Ready", "SRC_Ready", "SRC_Hard_Reset", "SRC_Wait_New_Capabilities"}
           /\ p.cb = "PSREADY" /\ p.state = "SRC_Transition_Supply" => q.sub = "enter" /\ q.state = "SRC_Ready"
           /\ p.cb = "ACCEPT" /\ p.state = "SRC_Transition_Supply" => q.sub = "exit"
<1>0. p.cb \in Sent /\ p.state \in State
  BY DEF Pd
<1> USE DEF TimedCb
<1>1. CASE p.cb = "REQUEST"
  BY <1>1, GoIs, InIs, StatesAre DEF SentState
<1>2. CASE p.cb = "ACCEPT"
  BY <1>2, GoIs, InIs, StatesAre DEF SentState
<1>3. CASE p.cb = "SOFTRESET"
  BY <1>3, GoIs, InIs, StatesAre DEF SentState
<1>4. CASE p.cb = "SOURCECAPS"
  <2> DEFINE q == [p EXCEPT !.hr = 0, !.caps = 0]
  <2>1. q \in Pd /\ q.state = p.state /\ q.cb = p.cb
    BY Counts DEF Pd
  <2>2. SentState(p) = IF p.state # "SRC_Give_Source_Cap" THEN In(Go(q, "SRC_Send_Capabilities"))
                       ELSE IF role = "src" THEN In(q) ELSE Go(q, "SNK_Ready")
    BY <1>4 DEF SentState
  <2> HIDE DEF q
  <2>3. CASE p.state # "SRC_Give_Source_Cap"
    BY <1>4, <2>1, <2>2, <2>3, GoIs, InIs, StatesAre
  <2>4. CASE p.state = "SRC_Give_Source_Cap" /\ role = "src"
    BY <1>4, <2>1, <2>2, <2>4, InIs
  <2>5. CASE p.state = "SRC_Give_Source_Cap" /\ role # "src"
    BY <1>4, <2>1, <2>2, <2>5, GoIs, StatesAre
  <2> QED
    BY <2>3, <2>4, <2>5
<1>5. CASE p.cb = "PSREADY"
  BY <1>5, GoIs, StatesAre DEF SentState
<1>6. CASE p.cb \in {"HARDRESET", "BISTCARRY"}
  BY <1>6 DEF SentState
<1>7. CASE p.cb \in {"GIVEPPS_STA", "REJECT", "NOTSUPPORT", "REVISION", "GIVESNKCAP", "GIVESNKCAP_EXT"}
  BY <1>7, GoIs, StatesAre DEF SentState
<1> QED
  BY <1>0, <1>1, <1>2, <1>3, <1>4, <1>5, <1>6, <1>7 DEF Sent

LEMMA FailedIs ==
    ASSUME NEW p \in Pd, NEW discarded \in BOOLEAN
    PROVE  Answer(p, Failed(p, discarded)) /\ Failed(p, discarded).state # "SRC_Negotiate_Capability"
  BY GoAnswers, GoIs, StatesAre DEF Failed

LEMMA InterruptTypes == TypeOK /\ usb_pd_interrupt => TypeOK'
<1> SUFFICES ASSUME TypeOK, usb_pd_interrupt PROVE TypeOK'
  OBVIOUS
<1>a. pd \in Pd /\ tm \in Tm /\ rx \in Rx /\ reg \in Reg /\ ev \subseteq Event
  BY TypesAre
<1> USE DEF Interrupt, port
<1>1. CASE Receive
  <2>0. rx.n < MaxRx \/ rx.n < 1
    BY <1>1 DEF Receive
  <2>1. rx.n + 1 \in 0 .. MaxRx
    BY <1>a, <2>0, UsbPdAssumption DEF Rx
  <2>2. scene.rx \subseteq Message
    BY TypesAre, UsbPdAssumption
  <2>3. PICK m \in scene.rx : rx' = [rx EXCEPT !.n = @ + 1, !.pkt = IF rx.n = 0 THEN m ELSE @,
                                       !.pkt1 = IF rx.n = 0 THEN @ ELSE m]
    BY <1>1 DEF Receive
  <2>4. rx' \in Rx
    BY <2>1, <2>2, <2>3, <1>a DEF Rx
  <2>5. ev' \subseteq Event
    BY <1>1, <1>a DEF Receive, Event, Rank
  <2> QED
    BY <1>1, <2>4, <2>5, TypesAre, TypesAfter DEF Receive
<1>2. CASE ReceiveHardReset
  <2>1. rx' \in Rx
    BY <1>2, <1>a, Counts DEF ReceiveHardReset, Rx
  <2>2. ev' \subseteq Event
    BY <1>2, <1>a DEF ReceiveHardReset, Event, Rank
  <2> QED
    BY <1>2, <2>1, <2>2, TypesAre, TypesAfter DEF ReceiveHardReset
<1>3. CASE TxSuccess
  <2>1. pd' \in Pd
    BY <1>3, <1>a, SentStateIs, BusyOff DEF TxSuccess
  <2>2. ev' \subseteq Event
    BY <1>3, <1>a DEF TxSuccess, Event, Rank
  <2>3. tm' \in Tm
    BY <1>3, <1>a, TimersType DEF TxSuccess, Timer
  <2>4. reg' \in Reg
    BY <1>3, <1>a DEF TxSuccess, Reg
  <2> QED
    BY <1>3, <2>1, <2>2, <2>3, <2>4, TypesAre, TypesAfter DEF TxSuccess
<1>4. CASE TxFail
  <2>1. pd' \in Pd
    BY ZenonT(40), <1>4, <1>a, FailedIs, BusyOff DEF TxFail, Answer
  <2> QED
    BY <1>4, <2>1, TypesAre, TypesAfter DEF TxFail
<1>5. CASE OtherSent
  BY <1>5, <1>a, BusyOff, TypesAre, TypesAfter DEF OtherSent
<1> QED
  BY <1>1, <1>2, <1>3, <1>4, <1>5 DEF usb_pd_interrupt

LEMMA OtherTypes == TypeOK /\ others => TypeOK'
<1> SUFFICES ASSUME TypeOK, others PROVE TypeOK'
  OBVIOUS
<1>a. pd \in Pd /\ tm \in Tm /\ rx \in Rx /\ reg \in Reg /\ ev \subseteq Event
  BY TypesAre
<1> USE DEF Between, Asks, port, link
<1>1. CASE NextPass
  <2>1. tm' \in Tm
    BY <1>1, <1>a DEF NextPass, Tm
  <2>2. rx' \in Rx
    BY <1>1, <1>a DEF NextPass, Rx, Message
  <2> QED
    BY <1>1, <2>1, <2>2, TypesAre, TypesAfter DEF NextPass
<1>2. ASSUME NEW r \in {"snk", "src"}, Attach(r) PROVE TypeOK'
  <2>1. ev' \subseteq Event
    BY <1>2, <1>a DEF Attach, Event, Rank
  <2> QED
    BY <1>2, <2>1, TypesAre, TypesAfter DEF Attach
<1>3. CASE Detach
  <2>1. ev' \subseteq Event /\ reg' \in Reg
    BY <1>3, <1>a DEF Detach, Event, Rank, Reg, Volt
  <2> QED
    BY <1>3, <2>1, TypesAre, TypesAfter DEF Detach
<1>4. CASE Disable
  BY <1>4, <1>a, GoIs, StatesAre, TypesAre, TypesAfter DEF Disable
<1>5. CASE AskVoltage
  <2>1. ev' \subseteq Event
    BY <1>5, <1>a DEF AskVoltage, Event, Rank
  <2>2. pd' \in Pd
    BY <1>5, <1>a DEF AskVoltage, Pd
  <2> QED
    BY <1>5, <2>1, <2>2, TypesAre, TypesAfter DEF AskVoltage
<1>6. CASE AskSoftReset
  <2>1. ev' \subseteq Event
    BY <1>6, <1>a DEF AskSoftReset, Event, Rank
  <2> QED
    BY <1>6, <2>1, TypesAre, TypesAfter DEF AskSoftReset
<1>7. CASE Regulate
  <2>1. reg' \in Reg
    BY <1>7, <1>a DEF Regulate, Reg
  <2> QED
    BY <1>7, <2>1, TypesAre, TypesAfter DEF Regulate
<1>8. CASE Silence
  BY <1>8, TypesAre, TypesAfter DEF Silence
<1> QED
  BY <1>1, <1>2, <1>3, <1>4, <1>5, <1>6, <1>7, <1>8 DEF others

LEMMA NextTypes == TypeOK /\ [Next]_vars => TypeOK'
<1>1. TypeOK /\ UNCHANGED vars => TypeOK'
  BY TypesAre, TypesAfter DEF vars, link, port
<1> QED
  BY <1>1, RunTypes, EventTypes, InterruptTypes, OtherTypes DEF Next

-----------------------------------------------------------------------------
(* The invariant: callbacks of the state *)

LEMMA TimerIs ==
    ASSUME tm \in Tm, NEW t \in Timer
    PROVE  /\ \A u \in Timer : Start(t)[u] = IF u = t THEN "new" ELSE tm[u]
           /\ \A u \in Timer : Stop(t)[u] = IF u = t THEN "off" ELSE tm[u]
           /\ \A u \in Timer : NoTimer[u] = "off"
  BY DEF Start, Stop, NoTimer, Tm

LEMMA TimersAre ==
    {"SenderResponse", "SinkWaitCap", "PSTransition", "SinkPPSPeriodic",
    "SourceCapability", "SourcePPSComm", "PSHardReset", "SourceHardResetRecover",
    "ChunkingNotSupported", "BISTContMode"} \subseteq Timer
  BY DEF Timer

\* What the callbacks that write the record in more than one way leave of it.
Calm == at = "run" /\ Elsewhere /\ SameLink /\ Loop
Leads(state, sub) == pd'.state = state /\ pd'.sub = sub /\ pd'.busy = pd.busy /\ pd'.cb = pd.cb

LEMMA PassThroughIs ==
    TypeOK /\ PassThrough
        => /\ Calm /\ UNCHANGED tm /\ pd.state \in Leading /\ pd.sub = "exit"
           /\ \E s \in {"SNK_Discovery", "SNK_Select_Capability", "SNK_Transition_to_default",
                        "SNK_Wait_for_Capabilities", "SRC_Discovery", "SRC_Send_Capabilities",
                        "SNK_Ready", "SRC_Ready"} : Leads(s, "enter")
           /\ pd.state = "Give_Battery_Status" => pd'.state \in {"SNK_Ready", "SRC_Ready"}
<1> SUFFICES ASSUME TypeOK, PassThrough
             PROVE  /\ Calm /\ UNCHANGED tm /\ pd.state \in Leading /\ pd.sub = "exit"
                    /\ \E s \in {"SNK_Discovery", "SNK_Select_Capability", "SNK_Transition_to_default",
                        "SNK_Wait_for_Capabilities", "SRC_Discovery", "SRC_Send_Capabilities",
                        "SNK_Ready", "SRC_Ready"} : Leads(s, "enter")
                    /\ pd.state = "Give_Battery_Status" => pd'.state \in {"SNK_Ready", "SRC_Ready"}
  OBVIOUS
<1>1. PICK s \in {"SNK_Startup", "SNK_Evaluate_Capability", "SNK_Hard_Reset", "SNK_Soft_Reset",
                  "SRC_Startup", "SRC_Soft_Reset", "Give_Battery_Status"} :
         Callback(s, "exit") /\ pd' = Go(pd, Through[s])
  BY DEF PassThrough, Through
<1>2. Through[s] \in {"SNK_Discovery", "SNK_Select_Capability", "SNK_Transition_to_default",
                        "SNK_Wait_for_Capabilities", "SRC_Discovery", "SRC_Send_Capabilities",
                        "SNK_Ready", "SRC_Ready"}
      /\ (s = "Give_Battery_Status" => Through[s] \in {"SNK_Ready", "SRC_Ready"})
  BY StatesAre DEF Through
<1>3. pd \in Pd /\ Through[s] \in State
  BY <1>2, TypesAre, StatesAre
<1>4. Leads(Through[s], "enter")
  BY <1>1, <1>3, GoIs DEF Leads
<1> QED
  BY <1>1, <1>2, <1>4 DEF PassThrough, Calm, Callback, Leading, Leads

LEMMA ExpiredLeads ==
    TypeOK /\ Expired
        => /\ Calm /\ pd.sub = "exit"
           /\ \E s \in State \ {"SRC_Negotiate_Capability", "SRC_Transition_Supply"} :
                 /\ Leads(s, "enter")
                 /\ pd.state \notin {"SNK_Ready", "SRC_Ready", "Give_Battery_Status"} \cup Answering
                 /\ pd.state = "DRS_Send_Swap" => s \in {"SNK_Ready", "SRC_Ready"}
                 /\ s = "SRC_Transition_to_default" => pd.state = "SRC_Hard_Reset" /\ tm["PSHardReset"] = "on"
  BY TypesAre, ExpiredIs, GoIs DEF Calm, Leads

\* The states that reset the protocol layer as they are entered
LEMMA ResetIs ==
    TypeOK /\ (Disabled \/ SnkStartup \/ SrcStartup)
        => /\ at = "run" /\ Elsewhere /\ Loop
           /\ pd'.state = pd.state /\ pd'.sub = "exit" /\ ~pd'.busy
           /\ pd.state \in {"RSC_Disable", "SNK_Startup", "SRC_Startup"}
           /\ air' = "none" /\ UNCHANGED <<reg, tc>>
<1> SUFFICES ASSUME TypeOK, Disabled \/ SnkStartup \/ SrcStartup
             PROVE  /\ at = "run" /\ Elsewhere /\ Loop
                    /\ pd'.state = pd.state /\ pd'.sub = "exit" /\ ~pd'.busy
                    /\ pd.state \in {"RSC_Disable", "SNK_Startup", "SRC_Startup"}
                    /\ air' = "none" /\ UNCHANGED <<reg, tc>>
  OBVIOUS
<1>1. pd' = In(ResetPrl([pd EXCEPT !.contract = FALSE]))
  BY DEF Disabled, SnkStartup, SrcStartup
<1>2. [pd EXCEPT !.contract = FALSE] \in Pd /\ [pd EXCEPT !.contract = FALSE].state = pd.state
  BY TypesAre DEF Pd
<1>3. pd'.state = pd.state /\ pd'.sub = "exit" /\ ~pd'.busy
  BY <1>1, <1>2, InIs, ResetPrlIs
<1> QED
  BY <1>3 DEF Disabled, SnkStartup, SrcStartup, Callback, port

LEMMA SnkDiscoveryIs ==
    TypeOK /\ SnkDiscovery
        => /\ at = "run" /\ Elsewhere /\ Loop /\ UNCHANGED <<tm, phy, air, gate, reg, port>>
           /\ pd.state = "SNK_Discovery"
           /\ Leads("SNK_Discovery", "exit") \/ Leads("SNK_Wait_for_Capabilities", "enter")
  BY TypesAre, GoIs, InIs, StatesAre DEF SnkDiscovery, Leads

LEMMA SnkReadyExitIs ==
    TypeOK /\ SnkReadyExit
        => /\ Calm /\ UNCHANGED tm /\ pd.state = "SNK_Ready" /\ pd.sub = "exit"
           /\ \/ Leads("SNK_Ready", "exit")
              \/ tm["SinkPPSPeriodic"] = "on" /\ Leads("SNK_Select_Capability", "enter")
  BY TypesAre, GoIs, StatesAre DEF SnkReadyExit, Leads, Calm, Callback

LEMMA SnkRecoveredIs ==
    TypeOK /\ SnkRecovered
        => /\ Calm /\ UNCHANGED tm /\ pd.state = "SNK_Transition_to_default"
           /\ Leads("SNK_Transition_to_default", "exit") \/ Leads("SNK_Startup", "enter")
<1> SUFFICES ASSUME TypeOK, SnkRecovered
             PROVE  Leads("SNK_Transition_to_default", "exit") \/ Leads("SNK_Startup", "enter")
  BY DEF SnkRecovered, Calm, Callback
<1>1. pd \in Pd /\ pd.state = "SNK_Transition_to_default" /\ pd.sub = "exit"
  BY TypesAre DEF SnkRecovered, Callback
<1>2. CASE pd' = [pd EXCEPT !.loops = @ + 1]
  BY <1>1, <1>2 DEF Leads, Pd
<1>3. CASE pd' = Go([pd EXCEPT !.loops = Loops, !.need = TRUE], "SNK_Startup")
  <2> DEFINE q == [pd EXCEPT !.loops = Loops, !.need = TRUE]
  <2>1. q \in Pd /\ q.busy = pd.busy /\ q.cb = pd.cb
    BY <1>1, Counts DEF Pd
  <2>2. pd' = Go(q, "SNK_Startup")
    BY <1>3
  <2> HIDE DEF q
  <2>3. Leads("SNK_Startup", "enter")
    BY <2>1, <2>2, GoIs, StatesAre DEF Leads
  <2> QED
    BY <2>3
<1> QED
  BY <1>2, <1>3 DEF SnkRecovered

LEMMA SrcNegotiateIs ==
    TypeOK /\ SrcNegotiate
        => /\ at = "run" /\ Elsewhere /\ Loop /\ UNCHANGED <<tm, link, gate, port>>
           /\ pd.state = "SRC_Negotiate_Capability"
           /\ Leads("SRC_Negotiate_Capability", "exit") \/ Leads("SRC_Transition_Supply", "enter")
                \/ Leads("SRC_Capability_Response", "enter")
           /\ reg.want = "5V" => reg'.want = "5V"
<1> SUFFICES ASSUME TypeOK, SrcNegotiate
             PROVE  /\ Leads("SRC_Negotiate_Capability", "exit") \/ Leads("SRC_Transition_Supply", "enter")
                           \/ Leads("SRC_Capability_Response", "enter")
                    /\ reg.want = "5V" => reg'.want = "5V"
  BY DEF SrcNegotiate
<1>1. pd \in Pd /\ reg \in Reg /\ pd.state = "SRC_Negotiate_Capability"
  BY TypesAre DEF SrcNegotiate
<1>2. reg.want = "5V" => reg'.want = "5V"
  BY <1>1 DEF SrcNegotiate, Reg
<1>3. CASE \E r \in Request \ {"ReqBad"} :
                 pd' = Go([pd EXCEPT !.pps = r = "ReqPps"], "SRC_Transition_Supply")
  <2>1. PICK r \in Request : pd' = Go([pd EXCEPT !.pps = r = "ReqPps"], "SRC_Transition_Supply")
    BY <1>3
  <2> DEFINE q == [pd EXCEPT !.pps = r = "ReqPps"]
  <2>2. q \in Pd /\ q.busy = pd.busy /\ q.cb = pd.cb
    BY <1>1 DEF Pd
  <2>3. pd' = Go(q, "SRC_Transition_Supply")
    BY <2>1
  <2> HIDE DEF q
  <2>4. Leads("SRC_Transition_Supply", "enter")
    BY <2>2, <2>3, GoIs, StatesAre DEF Leads
  <2> QED
    BY <2>4, <1>2
<1>4. CASE pd' = In(pd)
  BY <1>1, <1>2, <1>4, InIs DEF Leads
<1>5. CASE pd' = Go(pd, "SRC_Capability_Response")
  BY <1>1, <1>2, <1>5, GoIs, StatesAre DEF Leads
<1> QED
  BY <1>3, <1>4, <1>5 DEF SrcNegotiate

LEMMA SrcReadyExitIs ==
    TypeOK /\ SrcReadyExit
        => /\ Calm /\ UNCHANGED tm /\ pd.state = "SRC_Ready" /\ pd.sub = "exit"
           /\ \/ Leads("SRC_Ready", "exit") \/ Leads("DRS_Send_Swap", "enter")
              \/ tm["SourcePPSComm"] = "on" /\ Leads("SRC_Hard_Reset", "enter")
<1> SUFFICES ASSUME TypeOK, SrcReadyExit
             PROVE  \/ Leads("SRC_Ready", "exit") \/ Leads("DRS_Send_Swap", "enter")
                    \/ tm["SourcePPSComm"] = "on" /\ Leads("SRC_Hard_Reset", "enter")
  BY DEF SrcReadyExit, Calm, Callback
<1>1. pd \in Pd /\ pd.state = "SRC_Ready" /\ pd.sub = "exit"
  BY TypesAre DEF SrcReadyExit, Callback
<1>2. PICK p \in {pd} \cup (IF pd.pps /\ tm["SourcePPSComm"] = "on" THEN {Go(pd, "SRC_Hard_Reset")} ELSE {}),
             n \in Int :
          pd' = p \/ pd' = [p EXCEPT !.loops = n] \/ pd' = [Go(p, "DRS_Send_Swap") EXCEPT !.loops = n]
  <2>1. (IF pd.loops < Loops THEN pd.loops + 1 ELSE Loops) \in Int
    BY <1>1, UsbPdAssumption DEF Pd
  <2> QED
    BY <2>1 DEF SrcReadyExit
<1>3. p \in Pd /\ p.busy = pd.busy /\ p.cb = pd.cb
      /\ \/ p.state = "SRC_Ready" /\ p.sub = "exit"
         \/ p.state = "SRC_Hard_Reset" /\ p.sub = "enter" /\ tm["SourcePPSComm"] = "on"
  BY <1>1, <1>2, GoIs, StatesAre
<1>4. \A q \in Pd : LET r == [q EXCEPT !.loops = n] IN
         r.state = q.state /\ r.sub = q.sub /\ r.busy = q.busy /\ r.cb = q.cb
  BY DEF Pd
<1>5. CASE pd' = p
  BY <1>3, <1>5 DEF Leads
<1>6. CASE pd' = [p EXCEPT !.loops = n]
  BY <1>3, <1>4, <1>6 DEF Leads
<1>7. CASE pd' = [Go(p, "DRS_Send_Swap") EXCEPT !.loops = n]
  <2>1. Go(p, "DRS_Send_Swap") \in Pd
    BY <1>3, GoIs, StatesAre
  <2> QED
    BY <1>3, <1>4, <1>7, <2>1, GoIs, StatesAre DEF Leads
<1> QED
  BY <1>2, <1>5, <1>6, <1>7

LEMMA SrcHardResetIs ==
    TypeOK /\ SrcHardReset
        => /\ at = "run" /\ Elsewhere /\ Loop /\ UNCHANGED <<phy, listen, gate, reg, port>>
           /\ pd.state \in {"SRC_Hard_Reset", "SRC_Hard_Reset_Received"} /\ pd.sub = "enter"
           /\ pd'.state = "SRC_Hard_Reset" /\ pd'.sub = "exit" /\ pd'.busy = pd.busy
           /\ tm'["PSHardReset"] = "new" /\ (air' = OnAir("other") \/ air' = air)
<1> SUFFICES ASSUME TypeOK, SrcHardReset
             PROVE  /\ pd'.state = "SRC_Hard_Reset" /\ pd'.sub = "exit" /\ pd'.busy = pd.busy
                    /\ tm'["PSHardReset"] = "new"
  BY DEF SrcHardReset
<1>1. pd \in Pd /\ tm \in Tm
  BY TypesAre
<1>2. tm'["PSHardReset"] = "new"
  BY <1>1, TimerIs, TimersAre DEF SrcHardReset
<1>3. CASE pd.state = "SRC_Hard_Reset" /\ pd' = In([pd EXCEPT !.cb = "HARDRESET"])
  <2>1. LET q == [pd EXCEPT !.cb = "HARDRESET"] IN
        q \in Pd /\ q.state = pd.state /\ q.busy = pd.busy
    BY <1>1 DEF Pd, Sent
  <2> QED
    BY <1>2, <1>3, <2>1, InIs
<1>4. CASE pd' = In(Go(pd, "SRC_Hard_Reset"))
  BY <1>1, <1>2, <1>4, InIs, GoIs, StatesAre
<1> QED
  BY <1>3, <1>4 DEF SrcHardReset

LEMMA SrcRecoveredIs ==
    TypeOK /\ SrcRecovered
        => /\ at = "run" /\ Elsewhere /\ Loop /\ UNCHANGED <<reg, port>>
           /\ pd.state = "SRC_Transition_to_default" /\ pd.sub = "exit"
           /\ air' = "none" /\ Leads("SRC_Startup", "enter")
  BY TypesAre, GoIs, StatesAre DEF SrcRecovered, Callback, Leads

\* A callback that leads on to another state, without a word to the converter.
LEMMA LeadsOn ==
    ASSUME IInv, TypeOK', at = "run", Elsewhere, Loop, UNCHANGED <<reg, tc>>,
           NEW s \in State, Leads(s, "enter"),
           s \notin {"SRC_Negotiate_Capability", "SRC_Transition_Supply"},
           s = "SRC_Transition_to_default" => "PS_TRANST" \notin ev,
           pd.busy => s \in {"SNK_Ready", "SRC_Ready", "DRS_Send_Swap"},
           (UNCHANGED <<phy, air>>) \/ (air' = "none" /\ ~pd.busy)
    PROVE  IInv'
<1>1. Moving'
  BY DEF Moving, Leads
<1>2. BusyOnAir' /\ AirOfPhy'
  BY DEF IInv, BusyOnAir, AirOfPhy, Leads
<1>3. BusyRuns'
  BY DEF BusyRuns, Leads
<1>4. Recovering'
  BY DEF Recovering, Leads, Elsewhere
<1>5. Alone'
  BY DEF IInv, Alone, Leads, Elsewhere
<1>6. Supplying'
  BY DEF Supplying, Leads
<1> QED
  BY <1>1, <1>2, <1>3, <1>4, <1>5, <1>6 DEF IInv

\* A callback that stays, or waits for the next one.
LEMMA StaysOn ==
    ASSUME IInv, TypeOK', at = "run", Elsewhere, Loop, UNCHANGED <<tm, reg, tc, phy, air>>,
           Leads(pd.state, "exit"), pd.state \in Resting \cup Leading,
           pd.sub = "exit" \/ ~pd.busy
    PROVE  IInv'
<1>1. Moving'
  BY DEF Moving, Leads
<1>2. BusyOnAir' /\ AirOfPhy'
  BY DEF IInv, BusyOnAir, AirOfPhy, Leads
<1>3. BusyRuns'
  BY DEF BusyRuns, Leads, Loop
<1>4. Recovering'
  BY DEF Recovering, Leads, Elsewhere, Resting, Leading
<1>5. Alone'
  BY DEF IInv, Alone, Leads, Elsewhere
<1>6. Supplying'
  BY DEF Supplying, Leads, Resting, Leading
<1> QED
  BY <1>1, <1>2, <1>3, <1>4, <1>5, <1>6 DEF IInv

\* The callbacks that lead on or stay
LEMMA LeadingInv ==
    ASSUME IInv, TypeOK',
           PassThrough \/ Expired \/ SnkDiscovery \/ SnkReadyExit \/ SnkRecovered
             \/ SrcReadyExit \/ SrcRecovered
    PROVE  IInv'
<1>1. pd \in Pd /\ (at = "run" /\ pd.busy =>
        \/ pd.state \in Answering \cup {"Give_Battery_Status"} /\ pd.sub = "exit"
        \/ pd.state = "SNK_Ready" /\ (pd.sub = "exit" => tm["SinkPPSPeriodic"] # "on")
        \/ pd.state = "SRC_Ready" /\ (pd.sub = "exit" => tm["SourcePPSComm"] # "on")
        \/ pd.state = "DRS_Send_Swap")
  BY TypesAre DEF IInv, BusyRuns
<1> USE DEF Calm, SameLink, link, port
<1>2. CASE PassThrough
  <2>1. PICK s \in State : Leads(s, "enter") /\ s \notin {"SRC_Negotiate_Capability", "SRC_Transition_Supply",
                                                       "SRC_Transition_to_default"}
    BY <1>2, PassThroughIs, StatesAre DEF IInv
  <2>2. pd.busy => s \in {"SNK_Ready", "SRC_Ready"}
    BY <1>1, <1>2, <2>1, PassThroughIs DEF IInv, Leading, Answering, Leads
  <2> QED
    BY <1>2, <2>1, <2>2, PassThroughIs, LeadsOn DEF IInv
<1>3. CASE Expired
  <2>1. PICK s \in State \ {"SRC_Negotiate_Capability", "SRC_Transition_Supply"} :
                 /\ Leads(s, "enter")
                 /\ pd.state \notin {"SNK_Ready", "SRC_Ready", "Give_Battery_Status"} \cup Answering
                 /\ pd.state = "DRS_Send_Swap" => s \in {"SNK_Ready", "SRC_Ready"}
                 /\ s = "SRC_Transition_to_default" => pd.state = "SRC_Hard_Reset" /\ tm["PSHardReset"] = "on"
    BY <1>3, ExpiredLeads DEF IInv
  <2>2. at = "run" /\ pd.sub = "exit" /\ Elsewhere /\ Loop /\ UNCHANGED <<reg, tc, phy, air>>
    BY <1>3, ExpiredLeads DEF IInv
  <2>3. s = "SRC_Transition_to_default" => "PS_TRANST" \notin ev
    BY <2>1, <2>2 DEF IInv, Recovering
  <2>4. pd.busy => s \in {"SNK_Ready", "SRC_Ready", "DRS_Send_Swap"}
    BY ONLY <1>1, <2>1, <2>2
  <2> QED
    BY <2>1, <2>2, <2>3, <2>4, LeadsOn
<1>4. CASE SnkDiscovery
  <2>1. ~pd.busy
    BY <1>1, <1>4, SnkDiscoveryIs DEF IInv, Answering
  <2> QED
    BY <1>4, <2>1, SnkDiscoveryIs, LeadsOn, StaysOn, StatesAre DEF IInv, Leading
<1>5. CASE SnkReadyExit
  BY <1>1, <1>5, SnkReadyExitIs, LeadsOn, StaysOn, StatesAre DEF IInv, Resting, Answering
<1>6. CASE SnkRecovered
  <2>1. ~pd.busy
    BY <1>1, <1>6, SnkRecoveredIs DEF IInv, Answering
  <2> QED
    BY <1>6, <2>1, SnkRecoveredIs, LeadsOn, StaysOn, StatesAre DEF IInv, Leading
<1>7. CASE SrcReadyExit
  BY <1>1, <1>7, SrcReadyExitIs, LeadsOn, StaysOn, StatesAre DEF IInv, Resting, Answering
<1>8. CASE SrcRecovered
  <2>1. ~pd.busy
    BY <1>1, <1>8, SrcRecoveredIs DEF IInv, Answering
  <2> QED
    BY <1>8, <2>1, SrcRecoveredIs, LeadsOn, StatesAre DEF IInv
<1> QED
  BY <1>2, <1>3, <1>4, <1>5, <1>6, <1>7, <1>8

LEMMA SrcNegotiateInv ==
    ASSUME IInv, TypeOK', SrcNegotiate
    PROVE  IInv'
<1>1. at = "run" /\ Elsewhere /\ Loop /\ UNCHANGED <<tm, phy, air, tc>>
      /\ pd.state = "SRC_Negotiate_Capability" /\ (reg.want = "5V" => reg'.want = "5V")
  BY SrcNegotiateIs DEF IInv, link, port
<1>2. ~pd.busy
  BY <1>1 DEF IInv, BusyRuns, Answering
<1>3. PICK s \in {"SRC_Negotiate_Capability", "SRC_Transition_Supply", "SRC_Capability_Response"},
           x \in {"enter", "exit"} :
         Leads(s, x) /\ (x = "exit" => s = "SRC_Negotiate_Capability")
  BY SrcNegotiateIs DEF IInv
<1>4. Moving'
  BY <1>3 DEF Moving, Leads, Leading
<1>5. BusyOnAir' /\ AirOfPhy' /\ BusyRuns'
  BY <1>1, <1>2, <1>3 DEF IInv, BusyOnAir, AirOfPhy, BusyRuns, Leads
<1>6. Recovering'
  BY <1>3 DEF Recovering, Leads
<1>7. Alone'
  BY <1>1, <1>3 DEF IInv, Alone, Leads, Elsewhere
<1>8. Supplying'
  BY SMTT(30), <1>1, <1>2, <1>3 DEF Supplying, Leads, Loop
<1> QED
  BY <1>4, <1>5, <1>6, <1>7, <1>8 DEF IInv

\* Nothing but the callback's own state and timers changes.
LEMMA RunInv == IInv /\ usb_pd_run => IInv'
<1> SUFFICES ASSUME IInv, usb_pd_run PROVE IInv'
  OBVIOUS
<1>a. pd \in Pd /\ tm \in Tm /\ reg \in Reg /\ TypeOK'
  BY TypesAre, RunTypes DEF IInv
<1>b. pd.state \in State /\ pd.sub \in {"enter", "exit"} /\ pd.cb \in Sent /\ pd.busy \in BOOLEAN
  BY <1>a DEF Pd
<1> USE DEF IInv, Moving, BusyOnAir, BusyRuns, AirOfPhy, Recovering, Alone, Supplying, Counting,
            Callback, Loop, Elsewhere, SameLink, link, port, Typec, OnAir
<1> USE <1>a, <1>b, TimersAre
<1>1. CASE CheckBusy
  BY <1>1 DEF CheckBusy
<1>2. CASE PassThrough
  BY ONLY IInv, TypeOK', <1>2, LeadingInv
<1>3. CASE Expired
  BY ONLY IInv, TypeOK', <1>3, LeadingInv
<1>4. CASE BeginWait
  BY <1>4, InIs, TimerIs DEF BeginWait, Waiting
<1>5. CASE SendAndStay
  BY <1>5, SendIs DEF SendAndStay, Sender, Sent
<1>6. CASE SendCapabilities
  <2>1. LET q == [Send(pd, "SOURCECAPS") EXCEPT !.caps = Past(@, CapsCount)] IN
        q.state = pd.state /\ q.sub = pd.sub /\ q.busy /\ q.cb = "SOURCECAPS"
    BY SendIs DEF Pd, Sent
  <2> QED
    BY <1>6, <2>1 DEF SendCapabilities
<1>7. CASE EnterSoftReset
  BY <1>7, SendIs, ResetPrlIs, TimerIs DEF EnterSoftReset, SoftResets, Sent
<1>8. CASE SendAnswer
  <2>1. PICK s \in Answering, type \in AnswerSent :
           pd.state = s /\ pd.sub = "enter" /\ pd' = In(Send(pd, type))
    BY <1>8 DEF SendAnswer, Answers, Answering, AnswerSent
  <2>2. pd'.state = pd.state /\ pd'.sub = "exit" /\ pd'.busy /\ pd'.cb \in AnswerSent
    BY <2>1, SendIs, InIs DEF AnswerSent, Sent
  <2> QED
    BY <1>8, <2>1, <2>2 DEF SendAnswer, Answering
<1>9. CASE GiveBatteryStatus
  BY <1>9, SendIs, InIs DEF GiveBatteryStatus, Leading
<1>10. CASE Idle
  BY <1>10 DEF Idle
<1>11. CASE Disabled
  BY <1>11, ResetIs DEF Leading, Resting
<1>12. CASE SnkStartup
  BY <1>12, ResetIs DEF Leading, Resting
<1>13. CASE SnkDiscovery
  BY ONLY IInv, TypeOK', <1>13, LeadingInv
<1>14. CASE SnkEvaluate
  <2>1. LET q == [pd EXCEPT !.hr = 0, !.need = @ \/ pd.contract] IN
        q \in Pd /\ q.state = pd.state /\ q.sub = pd.sub /\ q.busy = pd.busy /\ q.cb = pd.cb
    BY Counts DEF Pd
  <2> QED
    BY <1>14, <2>1, InIs, TimerIs DEF SnkEvaluate, Leading
<1>15. CASE SnkTransition
  <2>1. tm'["PSTransition"] = "new"
    BY <1>15 DEF SnkTransition, Tm
  <2> QED
    BY <1>15, <2>1, InIs DEF SnkTransition
<1>16. CASE SnkReady
  <2>1. LET q == [pd EXCEPT !.contract = TRUE, !.need = FALSE] IN
        q \in Pd /\ q.state = pd.state /\ q.sub = pd.sub /\ q.busy = pd.busy /\ q.cb = pd.cb
    BY DEF Pd
  <2>2. tm'["SinkPPSPeriodic"] # "on"
    BY <1>16 DEF SnkReady, NoTimer
  <2> QED
    BY <1>16, <2>1, <2>2, InIs DEF SnkReady, Resting
<1>17. CASE SnkReadyExit
  BY ONLY IInv, TypeOK', <1>17, LeadingInv
<1>18. CASE SnkHardReset
  <2>1. LET q == [pd EXCEPT !.hr = Past(@, HardResets), !.cb = "HARDRESET"] IN
        q \in Pd /\ q.state = pd.state /\ q.sub = pd.sub /\ q.busy = pd.busy
    BY Counts DEF Pd, Sent
  <2> QED
    BY <1>18, <2>1, InIs DEF SnkHardReset, Leading
<1>19. CASE SnkTransitionToDefault
  <2>1. LET q == [ResetPrl(pd) EXCEPT !.loops = 0] IN
        q \in Pd /\ q.state = pd.state /\ q.sub = pd.sub /\ ~q.busy
    BY ResetPrlIs, Counts DEF Pd
  <2> QED
    BY <1>19, <2>1, InIs DEF SnkTransitionToDefault, Leading
<1>20. CASE SnkRecovered
  BY ONLY IInv, TypeOK', <1>20, LeadingInv
<1>21. CASE SrcStartup
  BY <1>21, ResetIs DEF Leading, Resting
<1>22. CASE SrcNegotiate
  BY ONLY IInv, TypeOK', <1>22, SrcNegotiateInv
<1>23. CASE SrcSupplyReady
  BY <1>23, SendIs DEF SrcSupplyReady, Sent
<1>24. CASE SrcReady
  <2>1. LET q == [pd EXCEPT !.contract = TRUE, !.loops = 0] IN
        q \in Pd /\ q.state = pd.state /\ q.sub = pd.sub /\ q.busy = pd.busy /\ q.cb = pd.cb
    BY Counts DEF Pd
  <2>2. tm'["SourcePPSComm"] # "on"
    BY <1>24 DEF SrcReady, NoTimer
  <2> QED
    BY <1>24, <2>1, <2>2, InIs DEF SrcReady, Resting
<1>25. CASE SrcReadyExit
  BY ONLY IInv, TypeOK', <1>25, LeadingInv
<1>26. CASE DataRoleSwap
  BY <1>26, SendIs, InIs, TimerIs DEF DataRoleSwap, Sent
<1>27. CASE SrcDisabled
  BY <1>27, ResetPrlIs, InIs DEF SrcDisabled, Resting
<1>28. CASE SrcHardReset
  BY <1>28, SrcHardResetIs
<1>29. CASE SrcTransitionToDefault
  <2>1. reg'.want = "5V"
    BY <1>29 DEF SrcTransitionToDefault, SetBus, Reg
  <2>2. tm'["SourceHardResetRecover"] = "new"
    BY <1>29, TimerIs DEF SrcTransitionToDefault
  <2> QED
    BY <1>29, <2>1, <2>2, InIs DEF SrcTransitionToDefault
<1>30. CASE SrcRecovered
  BY ONLY IInv, TypeOK', <1>30, LeadingInv
<1>31. CASE BistCarrier
  <2>1. LET q == [pd EXCEPT !.cb = "BISTCARRY"] IN
        q \in Pd /\ q.state = pd.state /\ q.busy = pd.busy
    BY DEF Pd, Sent
  <2> QED
    BY ZenonT(40), <1>31, <2>1, InIs, TimerIs DEF BistCarrier
<1> QED
  BY <1>1, <1>2, <1>3, <1>4, <1>5, <1>6, <1>7, <1>8, <1>9, <1>10, <1>11, <1>12, <1>13, <1>14, <1>15,
     <1>16, <1>17, <1>18, <1>19, <1>20, <1>21, <1>22, <1>23, <1>24, <1>25, <1>26, <1>27, <1>28, <1>29,
     <1>30, <1>31 DEF usb_pd_run

-----------------------------------------------------------------------------
(* The invariant: events, interrupts, the others *)

LEMMA InitInv == Init => IInv
<1> SUFFICES ASSUME Init PROVE IInv
  OBVIOUS
<1>1. TypeOK
  BY InitTypes
<1>2. pd.state = "RSC_Disable" /\ pd.sub = "enter" /\ ~pd.busy /\ ev = {} /\ reg.want = "5V"
      /\ air = "none"
  BY DEF Init
<1>3. Moving /\ BusyOnAir /\ BusyRuns /\ AirOfPhy
  BY <1>2 DEF Moving, BusyOnAir, BusyRuns, AirOfPhy
<1>4. Recovering /\ Alone /\ Supplying
  BY <1>2 DEF Recovering, Alone, Supplying
<1> QED
  BY <1>1, <1>3, <1>4 DEF IInv

\* The order of the events: which are served before a packet or a request.
LEMMA FirstIs ==
    ASSUME NEW e \in Event, First(e), ev \subseteq Event
    PROVE  /\ e \notin Typec => ev \cap Typec = {}
           /\ e \in {"RX_SOP_PACKET", "SNK_SET_VOLTAGE", "SOURCE_SOFTRESET"} => "PS_TRANST" \notin ev
  BY DEF First, Event, Rank, Typec

\* An event, an interrupt or another task that starts another state, none of those
\* a source changes its voltage in.
LEMMA StartsInv ==
    ASSUME IInv, TypeOK', UNCHANGED <<phy, tc>>,
           pd'.sub = "enter", pd'.busy => pd.busy,
           pd'.state \notin {"SRC_Negotiate_Capability", "SRC_Transition_Supply",
                             "SRC_Transition_to_default"}
             \/ (pd'.state = "SRC_Negotiate_Capability" /\ tc # "none"),
           reg' = reg, at' # "run" \/ ~pd'.busy,
           air' = air \/ (air' = "none" /\ ~pd'.busy),
           "PS_TRANST" \in ev' => "PS_TRANST" \in ev, ev' \cap Typec = {} => ev \cap Typec = {} \/ ev' = {}
    PROVE  IInv'
<1>1. Moving'
  BY DEF Moving
<1>2. BusyOnAir' /\ AirOfPhy'
  BY DEF IInv, BusyOnAir, AirOfPhy
<1>3. BusyRuns'
  BY DEF BusyRuns
<1>4. Recovering'
  BY DEF Recovering
<1>5. Alone'
  BY DEF IInv, Alone
<1>6. Supplying'
  BY DEF Supplying
<1> QED
  BY <1>1, <1>2, <1>3, <1>4, <1>5, <1>6 DEF IInv

\* An event that leaves the state as it is: nothing of a Typec event or PS_TRANST waits.
LEMMA ServedStaysInv ==
    ASSUME IInv, TypeOK', at = "event", at' = "check", UNCHANGED <<phy, tc, tm, reg>>,
           pd'.state = pd.state, pd'.sub = pd.sub, pd'.cb = pd.cb,
           (pd'.busy = pd.busy /\ air' = air) \/ (~pd.busy /\ pd'.busy /\ air' = OnAir("sop")),
           ev' \subseteq ev, ev \cap Typec = {}, "PS_TRANST" \notin ev
    PROVE  IInv'
<1>1. Moving'
  BY DEF IInv, Moving, Counting
<1>2. BusyOnAir' /\ AirOfPhy'
  BY DEF IInv, BusyOnAir, AirOfPhy, OnAir
<1>3. BusyRuns'
  BY DEF BusyRuns
<1>4. Recovering'
  BY DEF IInv, Recovering
<1>5. Alone'
  BY DEF IInv, Alone
<1>6. Supplying'
  <2>1. pd \in Pd
    BY TypesAre DEF IInv
  <2>2. pd.sub \in {"enter", "exit"} /\ pd.busy \in BOOLEAN /\ pd'.busy \in BOOLEAN
    BY <2>1, TypesAre DEF Pd, TypeOK
  <2> QED
    BY <2>2 DEF IInv, Supplying
<1> QED
  BY <1>1, <1>2, <1>3, <1>4, <1>5, <1>6 DEF IInv

LEMMA ServedSameInv ==
    ASSUME IInv, TypeOK', at = "event", at' = "check", UNCHANGED <<pd, phy, tc, tm, reg, air>>,
           ev' \subseteq ev, ev \cap Typec = {}, "PS_TRANST" \notin ev
    PROVE  IInv'
<1>1. pd'.state = pd.state /\ pd'.sub = pd.sub /\ pd'.cb = pd.cb /\ pd'.busy = pd.busy /\ air' = air
  OBVIOUS
<1> QED
  BY <1>1, ServedStaysInv

LEMMA EventInv == IInv /\ usb_pdevt_run => IInv'
<1> SUFFICES ASSUME IInv, usb_pdevt_run PROVE IInv'
  OBVIOUS
<1>a. TypeOK /\ TypeOK' /\ pd \in Pd /\ ev \subseteq Event /\ rx \in Rx
  BY EventTypes, TypesAre DEF IInv
<1>b. at' = "check"
  BY DEF usb_pdevt_run, TypecEvent, RxHardResetEvent, PsTransitionEvent, PacketDropped,
         PacketHandled, RequestEvent, NoEvent, Served
<1>1. CASE TypecEvent
  <2>1. PICK s \in {"SNK_Startup", "SRC_Startup", "RSC_Disable"} :
           pd' = [Go(pd, s) EXCEPT !.busy = FALSE, !.need = FALSE]
    BY <1>1 DEF TypecEvent
  <2>2. pd'.state = s /\ pd'.sub = "enter" /\ ~pd'.busy
    BY <2>1, <1>a, GoIs, StatesAre DEF Pd
  <2>3. UNCHANGED <<phy, tc, air, reg>> /\ ev' = {}
    BY <1>1 DEF TypecEvent, link, port
  <2> QED
    BY <1>a, <2>2, <2>3, StartsInv
<1>2. CASE RxHardResetEvent
  <2>1. PICK s \in {"SNK_Transition_to_default", "SRC_Hard_Reset_Received"} :
           pd' = [Go(pd, s) EXCEPT !.busy = FALSE]
    BY <1>2 DEF RxHardResetEvent, Own
  <2>2. pd'.state = s /\ pd'.sub = "enter" /\ ~pd'.busy
    BY <2>1, <1>a, GoIs, BusyOff, StatesAre
  <2>3. UNCHANGED <<phy, tc, air, reg>> /\ ev' = ev \ {"RX_HARDRESET"}
    BY <1>2 DEF RxHardResetEvent, link, port
  <2> QED
    BY <1>a, <2>2, <2>3, StartsInv DEF Typec
<1>3. CASE PsTransitionEvent
  <2>1. UNCHANGED <<pd, tm, phy, air, tc>> /\ ev' = ev \ {"PS_TRANST"} /\ reg' = SetBus("new")
        /\ at = "event" /\ "PS_TRANST" \in ev
    BY <1>3 DEF PsTransitionEvent, First, link, port
  <2>2. ev \cap Typec = {}
    BY <1>3, <1>a, FirstIs DEF PsTransitionEvent, Event, Rank, Typec
  <2>3. reg'.want = "new" /\ reg'.pend = "wait" /\ ~reg'.ready
    BY <2>1, TypesAre DEF IInv, SetBus, Reg
  <2>4. tc # "none" /\ pd.state # "SRC_Transition_to_default"
    BY <2>1, <2>2 DEF IInv, Alone, Recovering
  <2>5. Moving'
    BY <2>1, <2>3 DEF IInv, Moving, Counting
  <2>6. BusyOnAir' /\ AirOfPhy' /\ BusyRuns'
    BY <2>1, <1>b DEF IInv, BusyOnAir, AirOfPhy, BusyRuns
  <2>7. Recovering' /\ Alone'
    BY <2>1, <2>4 DEF Recovering, Alone
  <2>8. Supplying'
    BY <2>1, <2>3 DEF IInv, Supplying
  <2> QED
    BY <1>a, <2>5, <2>6, <2>7, <2>8 DEF IInv
<1>4. CASE PacketDropped
  <2>1. First("RX_SOP_PACKET") /\ UNCHANGED <<pd, tm, phy, air, tc, reg>> /\ ev' \subseteq ev
    BY <1>4 DEF PacketDropped, link, port
  <2>2. ev \cap Typec = {} /\ "PS_TRANST" \notin ev /\ at = "event"
    BY <1>a, <2>1, FirstIs DEF First, Event, Rank, Typec
  <2> QED
    BY <1>a, <1>b, <2>1, <2>2, ServedSameInv
<1>5. CASE PacketHandled
  <2>1. First("RX_SOP_PACKET") /\ UNCHANGED <<tm, phy, tc, reg>> /\ ev' \subseteq ev /\ ~pd.busy
        /\ air' = IF pd'.busy THEN OnAir("sop") ELSE air
    BY <1>5 DEF PacketHandled
  <2>2. ev \cap Typec = {} /\ "PS_TRANST" \notin ev /\ at = "event"
    BY <1>a, <2>1, FirstIs DEF First, Event, Rank, Typec
  <2>3. PICK repeated \in BOOLEAN : pd' = Handled(pd, Taken.pkt, repeated)
    BY <1>5 DEF PacketHandled
  <2>4. Taken.pkt \in Message
    BY <1>a DEF Taken, Rx
  <2>5. CASE pd' = pd
    BY <1>a, <1>b, <2>1, <2>2, <2>5, ServedSameInv
  <2>6. CASE tc # "none" /\ Answer(pd, pd')
    BY <1>a, <1>b, <2>1, <2>2, <2>6, StartsInv DEF Answer
  <2>7. CASE tc # "none" /\ pd' = Send(pd, pd.cb)
    <3>1. pd.cb \in Sent
      BY <1>a DEF Pd
    <3> QED
      BY <1>a, <1>b, <2>1, <2>2, <2>7, <3>1, SendIs, ServedStaysInv
  <2> QED
    BY <1>a, <2>3, <2>4, <2>5, <2>6, <2>7, HandledIs
<1>6. CASE RequestEvent
  <2>1. PICK e \in {"SNK_SET_VOLTAGE", "SOURCE_SOFTRESET"} :
           First(e) /\ UNCHANGED <<tm, phy, air, tc, reg>> /\ ev' \subseteq ev
    BY <1>6 DEF RequestEvent, link, port
  <2>2. ev \cap Typec = {} /\ "PS_TRANST" \notin ev /\ at = "event"
    BY <1>a, <2>1, FirstIs DEF First, Event, Rank, Typec
  <2>3. pd' = pd \/ \E s \in {"SNK_Select_Capability", "SRC_Send_Soft_Reset"} : pd' = Go(pd, s)
    BY <1>6 DEF RequestEvent
  <2>4. CASE pd' = pd
    BY <1>a, <1>b, <2>1, <2>2, <2>4, ServedSameInv
  <2>5. ASSUME NEW s \in {"SNK_Select_Capability", "SRC_Send_Soft_Reset"}, pd' = Go(pd, s)
        PROVE  IInv'
    <3>1. pd'.state = s /\ pd'.sub = "enter" /\ pd'.busy = pd.busy
      BY <1>a, <2>5, GoIs, StatesAre
    <3> QED
      BY <1>a, <1>b, <2>1, <2>2, <3>1, StartsInv
  <2> QED
    BY <2>3, <2>4, <2>5
<1>7. CASE NoEvent
  BY <1>7, <1>a, <1>b, ServedSameInv DEF NoEvent, link, port
<1> QED
  BY <1>1, <1>2, <1>3, <1>4, <1>5, <1>6, <1>7 DEF usb_pdevt_run


LEMMA InterruptInv == IInv /\ usb_pd_interrupt => IInv'
<1> SUFFICES ASSUME IInv, usb_pd_interrupt PROVE IInv'
  OBVIOUS
<1>a. TypeOK /\ TypeOK' /\ pd \in Pd /\ tm \in Tm /\ reg \in Reg /\ phy
  BY InterruptTypes, TypesAre DEF IInv, usb_pd_interrupt, Interrupt, Receive, ReceiveHardReset, TxSuccess, TxFail, OtherSent
<1>b. UNCHANGED <<at, phy, tc>>
  BY DEF usb_pd_interrupt, Interrupt, Receive, ReceiveHardReset, TxSuccess, TxFail, OtherSent, port
<1>1. CASE Receive \/ ReceiveHardReset
  <2>1. UNCHANGED <<pd, tm, air, reg>>
        /\ (ev' = ev \cup {"RX_SOP_PACKET"} \/ ev' = ev \cup {"RX_HARDRESET"})
    BY <1>1 DEF Receive, ReceiveHardReset
  <2>2. ev' \cap Typec = ev \cap Typec /\ ("PS_TRANST" \in ev' <=> "PS_TRANST" \in ev)
    BY <2>1 DEF Typec
  <2>3. Moving' /\ BusyOnAir' /\ BusyRuns' /\ AirOfPhy'
    BY <1>b, <2>1, <2>2 DEF IInv, Moving, Counting, BusyOnAir, BusyRuns, AirOfPhy
  <2>4. Recovering' /\ Alone' /\ Supplying'
    BY <1>b, <2>1, <2>2 DEF IInv, Recovering, Alone, Supplying
  <2> QED
    BY <1>a, <2>3, <2>4 DEF IInv
<1>2. CASE TxSuccess
  <2> DEFINE q == SentState(pd)
  <2>1. pd' = [q EXCEPT !.busy = FALSE] /\ air' = "none"
        /\ tm' = (IF pd.cb \in TimedCb THEN Start("SenderResponse") ELSE tm)
        /\ ev' = (IF SupplyAccepted THEN ev \cup {"PS_TRANST"} ELSE ev)
        /\ reg' = (IF SupplyAccepted THEN [reg EXCEPT !.ready = FALSE] ELSE reg)
    BY <1>2 DEF TxSuccess
  <2>2. /\ q \in Pd /\ q.cb = pd.cb
        /\ \/ q.state = pd.state /\ q.sub = pd.sub /\ pd.cb \in {"ACCEPT", "PSREADY", "HARDRESET", "BISTCARRY"}
           \/ /\ q.state = pd.state /\ q.sub = "exit" /\ pd.cb = "ACCEPT"
              /\ pd.state \in {"SNK_Soft_Reset", "SRC_Transition_Supply", "SRC_Soft_Reset"}
           \/ /\ q.sub = "exit" /\ pd.cb \in TimedCb
              /\ q.state \in {"SNK_Select_Capability", "SNK_Send_Soft_Reset", "SRC_Send_Soft_Reset",
                             "SRC_Send_Capabilities", "SRC_Give_Source_Cap"}
           \/ /\ q.sub = "enter"
              /\ q.state \in {"SNK_Ready", "SRC_Ready", "SRC_Hard_Reset", "SRC_Wait_New_Capabilities"}
        /\ pd.cb = "PSREADY" /\ pd.state = "SRC_Transition_Supply" => q.sub = "enter" /\ q.state = "SRC_Ready"
        /\ pd.cb = "ACCEPT" /\ pd.state = "SRC_Transition_Supply" => q.sub = "exit"
    BY <1>a, SentStateIs
  <2> HIDE DEF q
  <2>3. pd'.state = q.state /\ pd'.sub = q.sub /\ ~pd'.busy /\ pd'.cb = pd.cb
    BY <2>1, <2>2, BusyOff
  <2>4. BusyOnAir' /\ AirOfPhy' /\ BusyRuns'
    BY <2>1, <2>3 DEF BusyOnAir, AirOfPhy, BusyRuns
  <2>5. ev' \cap Typec = ev \cap Typec /\ reg'.want = reg.want /\ reg'.bus = reg.bus /\ reg'.pend = reg.pend
        /\ (SupplyAccepted => "PS_TRANST" \in ev' /\ ~reg'.ready)
        /\ (~SupplyAccepted => ev' = ev /\ reg' = reg)
    BY <1>a, <2>1 DEF Typec, Reg
  <2>6. /\ pd.cb \in TimedCb => tm'["SenderResponse"] = "new"
        /\ pd.cb \notin TimedCb => tm' = tm
    BY <1>a, <2>1, TimerIs, TimersAre
  <2>7. Moving'
    <3>1. CASE q.state = pd.state /\ q.sub = pd.sub /\ pd.cb \in {"ACCEPT", "PSREADY", "HARDRESET", "BISTCARRY"}
      BY ONLY IInv, <2>3, <2>5, <2>6, <3>1 DEF IInv, Moving, Counting, AnswerSent, TimedCb
    <3>2. CASE /\ q.state = pd.state /\ q.sub = "exit" /\ pd.cb = "ACCEPT"
               /\ pd.state \in {"SNK_Soft_Reset", "SRC_Transition_Supply", "SRC_Soft_Reset"}
      BY ONLY <2>3, <2>5, <3>2 DEF Moving, Leading, SupplyAccepted
    <3>3. CASE /\ q.sub = "exit" /\ pd.cb \in TimedCb
               /\ q.state \in {"SNK_Select_Capability", "SNK_Send_Soft_Reset", "SRC_Send_Soft_Reset",
                             "SRC_Send_Capabilities", "SRC_Give_Source_Cap"}
      BY ONLY <2>3, <2>6, <3>3 DEF Moving, Counting
    <3>4. CASE q.sub = "enter"
      BY ONLY <2>3, <3>4 DEF Moving
    <3> QED
      BY <2>2, <3>1, <3>2, <3>3, <3>4
  <2>8. Recovering'
    BY ONLY IInv, <1>b, <2>2, <2>3, <2>5, <2>6 DEF IInv, Recovering, SupplyAccepted, TimedCb
  <2>9. Alone'
    BY ONLY IInv, <1>b, <2>2, <2>3, <2>5 DEF IInv, Alone, SupplyAccepted
  <2>10. Supplying'
    <3>1. SUFFICES ASSUME pd'.state = "SRC_Transition_Supply" PROVE Supplying'
      BY DEF Supplying
    <3>2. pd.state = "SRC_Transition_Supply" /\ pd.cb # "PSREADY"
          /\ (q.sub = pd.sub \/ pd.cb = "ACCEPT") /\ (pd.cb = "ACCEPT" => q.sub = "exit")
      BY ONLY <2>2, <2>3, <3>1
    <3>3. pd.sub \in {"enter", "exit"} /\ pd.busy \in BOOLEAN /\ q.sub \in {"enter", "exit"}
      BY <1>a, <2>2 DEF Pd
    <3>4. CASE pd.cb = "ACCEPT"
      BY ONLY <1>b, <2>3, <2>5, <3>2, <3>4 DEF Supplying, SupplyAccepted
    <3>5. CASE pd.cb # "ACCEPT"
      BY ONLY IInv, <1>b, <2>3, <2>5, <3>2, <3>3, <3>5 DEF IInv, Supplying, SupplyAccepted
    <3> QED
      BY <3>4, <3>5
  <2> QED
    BY <1>a, <2>4, <2>7, <2>8, <2>9, <2>10 DEF IInv
<1>3. CASE TxFail
  <2>1. PICK discarded \in BOOLEAN : pd' = [Failed(pd, discarded) EXCEPT !.busy = FALSE]
    BY <1>3 DEF TxFail
  <2>2. Failed(pd, discarded) \in Pd /\ Failed(pd, discarded).sub = "enter"
        /\ Failed(pd, discarded).state \notin {"SRC_Negotiate_Capability", "SRC_Transition_Supply",
                                              "SRC_Transition_to_default"}
    BY <1>a, FailedIs DEF Answer
  <2>3. pd'.sub = "enter" /\ ~pd'.busy
        /\ pd'.state \notin {"SRC_Negotiate_Capability", "SRC_Transition_Supply",
                                              "SRC_Transition_to_default"}
    BY <2>1, <2>2, BusyOff
  <2>4. air' = "none" /\ UNCHANGED <<ev, reg>>
    BY <1>3 DEF TxFail
  <2> QED
    BY <1>a, <1>b, <2>3, <2>4, StartsInv
<1>4. CASE OtherSent
  <2>1. ~pd.busy /\ air' = "none" /\ UNCHANGED <<tm, ev, reg>>
    BY <1>4, <1>a DEF OtherSent, IInv, BusyOnAir
  <2>2. pd'.state = pd.state /\ pd'.sub = pd.sub /\ ~pd'.busy /\ pd'.cb = pd.cb
    BY <1>4, <1>a, BusyOff DEF OtherSent
  <2>3. Moving' /\ BusyOnAir' /\ BusyRuns' /\ AirOfPhy'
    BY <1>b, <2>1, <2>2 DEF IInv, Moving, Counting, BusyOnAir, BusyRuns, AirOfPhy
  <2>4. Recovering' /\ Alone'
    BY <1>b, <2>1, <2>2 DEF IInv, Recovering, Alone
  <2>5. Supplying'
    BY <1>b, <2>1, <2>2 DEF IInv, Supplying
  <2> QED
    BY <1>a, <2>3, <2>4, <2>5 DEF IInv
<1> QED
  BY <1>1, <1>2, <1>3, <1>4 DEF usb_pd_interrupt

LEMMA OtherInv == IInv /\ others => IInv'
<1> SUFFICES ASSUME IInv, others PROVE IInv'
  OBVIOUS
<1>a. TypeOK /\ TypeOK' /\ pd \in Pd /\ tm \in Tm /\ reg \in Reg /\ at = "rest"
  BY OtherTypes, TypesAre DEF IInv, others, NextPass, Attach, Detach, Disable, AskVoltage, AskSoftReset,
       Regulate, Silence, Asks, Between
<1>1. CASE NextPass
  <2>1. UNCHANGED <<pd, ev, phy, air, reg, tc>> /\ at' = "event"
        /\ \A t \in Timer : (tm'[t] # "off" <=> tm[t] # "off")
    BY <1>1, <1>a DEF NextPass, Tm, link, port
  <2>2. Moving'
    BY <2>1, TimersAre DEF IInv, Moving, Counting
  <2>3. BusyOnAir' /\ BusyRuns' /\ AirOfPhy'
    BY <2>1 DEF IInv, BusyOnAir, BusyRuns, AirOfPhy
  <2>4. Recovering' /\ Alone'
    BY <2>1 DEF IInv, Recovering, Alone
  <2>5. Supplying'
    BY <1>a, <2>1 DEF IInv, Supplying
  <2> QED
    BY <1>a, <2>2, <2>3, <2>4, <2>5 DEF IInv
<1>2. CASE (\E r \in {"snk", "src"} : Attach(r)) \/ AskVoltage \/ AskSoftReset \/ Silence
  <2>1. /\ UNCHANGED <<at, tm, phy, air, reg>>
        /\ pd'.state = pd.state /\ pd'.sub = pd.sub /\ pd'.busy = pd.busy /\ pd'.cb = pd.cb
    BY <1>2, <1>a DEF Attach, AskVoltage, AskSoftReset, Silence, Asks, Between, link, Pd
  <2>2. ev \subseteq ev' /\ ("PS_TRANST" \in ev' => "PS_TRANST" \in ev)
    BY <1>2 DEF Attach, AskVoltage, AskSoftReset, Silence
  <2>3. tc' # "none" \/ (tc' = tc /\ ev' \cap Typec = ev \cap Typec)
    BY <1>2 DEF Attach, AskVoltage, AskSoftReset, Silence, Asks, port, Typec
  <2>4. Moving' /\ BusyOnAir' /\ BusyRuns' /\ AirOfPhy'
    BY <2>1, <2>2 DEF IInv, Moving, Counting, BusyOnAir, BusyRuns, AirOfPhy
  <2>5. Recovering'
    BY <2>1, <2>2 DEF IInv, Recovering
  <2>6. Alone'
    BY <2>1, <2>2, <2>3 DEF IInv, Alone
  <2>7. Supplying'
    BY <1>a, <2>1, <2>2 DEF IInv, Supplying
  <2> QED
    BY <1>a, <2>4, <2>5, <2>6, <2>7 DEF IInv
<1>3. CASE Detach
  <2>1. UNCHANGED <<at, pd, tm, phy, air>> /\ ev' \cap Typec # {}
        /\ ("PS_TRANST" \in ev' => "PS_TRANST" \in ev)
        /\ reg' = [want |-> "5V", bus |-> "5V", pend |-> "none", ready |-> TRUE]
    BY <1>3 DEF Detach, link, Typec
  <2>2. Moving' /\ BusyOnAir' /\ BusyRuns' /\ AirOfPhy'
    BY <2>1 DEF IInv, Moving, Counting, BusyOnAir, BusyRuns, AirOfPhy
  <2>3. Recovering' /\ Alone'
    BY <2>1 DEF IInv, Recovering, Alone
  <2>4. Supplying'
    BY <1>a, <2>1 DEF IInv, Supplying
  <2> QED
    BY <1>a, <2>2, <2>3, <2>4 DEF IInv
<1>4. CASE Disable
  <2>1. UNCHANGED <<at, ev, phy, air, reg, tc>>
        /\ pd'.state = "RSC_Disable" /\ pd'.sub = "enter" /\ pd'.busy = pd.busy
    BY <1>4, <1>a, GoIs, StatesAre DEF Disable, Asks, Between, link, port
  <2> QED
    BY <1>a, <2>1, StartsInv
<1>5. CASE Regulate
  <2>1. UNCHANGED <<at, pd, tm, ev, phy, air, tc>> /\ reg.pend # "none" /\ reg'.want = reg.want
        /\ (reg'.ready \/ reg'.pend # "none")
        /\ (IF reg.pend = "wait" THEN reg'.bus = reg.want ELSE reg'.bus = reg.bus)
    BY <1>5, <1>a DEF Regulate, Reg, link, port, Between
  <2>2. Moving' /\ BusyOnAir' /\ BusyRuns' /\ AirOfPhy'
    BY <2>1 DEF IInv, Moving, Counting, BusyOnAir, BusyRuns, AirOfPhy
  <2>3. Recovering' /\ Alone'
    BY <2>1 DEF IInv, Recovering, Alone
  <2>4. Supplying'
    BY <1>a, <2>1 DEF IInv, Supplying
  <2> QED
    BY <1>a, <2>2, <2>3, <2>4 DEF IInv
<1> QED
  BY <1>1, <1>2, <1>3, <1>4, <1>5 DEF others

LEMMA NextInv == IInv /\ [Next]_vars => IInv'
<1>1. ASSUME IInv, UNCHANGED vars PROVE IInv'
  <2>1. TypeOK' /\ UNCHANGED <<at, pd, tm, ev, phy, air, reg, tc>>
    BY <1>1, NextTypes DEF IInv, vars, link, port
  <2>2. Moving' /\ BusyOnAir' /\ BusyRuns' /\ AirOfPhy'
    BY <1>1, <2>1 DEF IInv, Moving, Counting, BusyOnAir, BusyRuns, AirOfPhy
  <2>3. Recovering' /\ Alone' /\ Supplying'
    BY <1>1, <2>1 DEF IInv, Recovering, Alone, Supplying
  <2> QED
    BY <2>1, <2>2, <2>3 DEF IInv
<1> QED
  BY <1>1, RunInv, EventInv, InterruptInv, OtherInv DEF Next

-----------------------------------------------------------------------------
(* What the invariant says of the runs *)

\* Every variable keeps its type: no counter of the policy engine passes its limit,
\* no handler leads to a state the machine does not have.
THEOREM TypeCorrect == Spec => []TypeOK
  BY InitTypes, NextTypes, PTL DEF Spec

THEOREM Invariance == Spec => []IInv
  BY InitInv, NextInv, PTL DEF Spec

LEMMA CountingIs ==
    Counting => \/ Timed(pd.state, SnkTimeout) \/ Timed(pd.state, SrcTimeout)
                \/ Timed(pd.state, OtherTimeout)
                \/ pd.state = "SRC_Transition_to_default" /\ tm["SourceHardResetRecover"] # "off"
<1>1. CASE \/ pd.state = "SNK_Wait_for_Capabilities" /\ tm["SinkWaitCap"] # "off"
           \/ pd.state \in {"SNK_Select_Capability", "SNK_Send_Soft_Reset"} /\ tm["SenderResponse"] # "off"
           \/ pd.state = "SNK_Transition_Sink" /\ tm["PSTransition"] # "off"
  BY <1>1 DEF Timed, SnkTimeout
<1>2. CASE \/ pd.state = "SRC_Discovery" /\ tm["SourceCapability"] # "off"
           \/ pd.state \in {"SRC_Send_Capabilities", "SRC_Give_Source_Cap", "SRC_Send_Soft_Reset",
                            "DRS_Send_Swap"} /\ tm["SenderResponse"] # "off"
           \/ pd.state = "SRC_Hard_Reset" /\ tm["PSHardReset"] # "off"
  BY <1>2 DEF Timed, SrcTimeout
<1>3. CASE \/ pd.state = "Chunk_Received" /\ tm["ChunkingNotSupported"] # "off"
           \/ pd.state = "BIST_Carrier_Mode" /\ tm["BISTContMode"] # "off"
  BY <1>3 DEF Timed, OtherTimeout
<1> QED
  BY <1>1, <1>2, <1>3 DEF Counting

LEMMA MovesOn == IInv => NoDeadEnd
<1> SUFFICES ASSUME IInv PROVE NoDeadEnd
  OBVIOUS
<1>1. BusyOnAir
  BY DEF IInv
<1>2. NeverStranded
  <2> SUFFICES ASSUME at = "rest", ~pd.busy, pd.sub = "exit" PROVE NeverStranded
    BY DEF NeverStranded
  <2>1. CASE pd.state \in Resting \cup Leading
    <3>1. Leading \subseteq DOMAIN Through \cup
                {"SNK_Discovery", "SNK_Transition_to_default", "SRC_Negotiate_Capability"}
      BY DEF Leading, Through
    <3> QED
      BY <2>1, <3>1 DEF NeverStranded
  <2>2. CASE Counting
    BY <2>2, CountingIs DEF NeverStranded
  <2>3. CASE pd.state = "SRC_Transition_Supply"
                /\ (reg.ready \/ reg.pend # "none" \/ "PS_TRANST" \in ev)
    BY <2>3 DEF NeverStranded
  <2> QED
    BY <2>1, <2>2, <2>3 DEF IInv, Moving
<1> QED
  BY <1>1, <1>2 DEF NoDeadEnd

\* No event, message, transmission or interrupt strands the policy engine of
\* usb_pd.c, nor does it wait for a transmission the PHY does not have.
THEOREM NoStranding == Spec => []NoDeadEnd
  BY Invariance, MovesOn, PTL

\* Who opens the gate: the recovery of a hard reset and the Type-C machine.
LEMMA GateOpens ==
    [Next]_vars /\ ~gate /\ gate' => SrcRecovered \/ \E r \in {"snk", "src"} : Attach(r)
<1> SUFFICES ASSUME [Next]_vars, ~gate, gate', ~SrcRecovered, \A r \in {"snk", "src"} : ~Attach(r)
             PROVE  FALSE
  OBVIOUS
<1>1. CASE usb_pd_run
  BY <1>1 DEF usb_pd_run, CheckBusy, PassThrough, Expired, Expire, BeginWait, SendAndStay,
       SendCapabilities, EnterSoftReset, SendAnswer, GiveBatteryStatus, Idle, Disabled, SnkStartup,
       SnkDiscovery, SnkEvaluate, SnkTransition, SnkReady, SnkReadyExit, SnkHardReset,
       SnkTransitionToDefault, SnkRecovered, SrcStartup, SrcNegotiate, SrcSupplyReady, SrcReady,
       SrcReadyExit, DataRoleSwap, SrcDisabled, SrcHardReset, SrcTransitionToDefault, BistCarrier,
       SameLink
<1>2. CASE usb_pdevt_run
  BY <1>2 DEF usb_pdevt_run, TypecEvent, RxHardResetEvent, PsTransitionEvent, PacketDropped,
       PacketHandled, RequestEvent, NoEvent
<1>3. CASE usb_pd_interrupt
  BY <1>3 DEF usb_pd_interrupt, Receive, ReceiveHardReset, TxSuccess, TxFail, OtherSent, Interrupt
<1>4. CASE others
  BY <1>4 DEF others, NextPass, Detach, Disable, AskVoltage, AskSoftReset, Regulate, Silence
<1>5. CASE UNCHANGED vars
  BY <1>5 DEF vars
<1> QED
  BY <1>1, <1>2, <1>3, <1>4, <1>5 DEF Next

LEMMA ReopensAt5V == IInv /\ [Next]_vars /\ ~gate /\ gate' => reg'.want = "5V"
<1> SUFFICES ASSUME IInv, [Next]_vars, ~gate, gate' PROVE reg'.want = "5V"
  OBVIOUS
<1>1. CASE SrcRecovered
  BY <1>1 DEF SrcRecovered, Callback, IInv, Recovering
<1>2. CASE \E r \in {"snk", "src"} : Attach(r)
  BY <1>2 DEF Attach, IInv, Alone
<1> QED
  BY <1>1, <1>2, GateOpens

\* The gate PE_SRC_Transition_to_default_Exit opens again, like the one of a new
\* partner, has 5 V behind it: no change of voltage was left to come.
THEOREM GateSafe == Spec => GateReopensAt5V
<1>1. IInv /\ [Next]_vars => [~gate /\ gate' => reg'.want = "5V"]_vars
  BY ReopensAt5V
<1> QED
  BY <1>1, Invariance, PTL DEF Spec, GateReopensAt5V

\* A callback that begins to send PS_RDY in SRC_Transition_Supply is its own.
LEMMA RunSends ==
    TypeOK /\ usb_pd_run
        => \/ pd'.busy => pd.busy
           \/ pd'.state # "SRC_Transition_Supply"
           \/ pd'.cb # "PSREADY"
           \/ SrcSupplyReady /\ reg.ready
<1> SUFFICES ASSUME TypeOK, usb_pd_run, pd'.busy, ~pd.busy, pd'.state = "SRC_Transition_Supply",
                    pd'.cb = "PSREADY"
             PROVE  SrcSupplyReady /\ reg.ready
  OBVIOUS
<1>a. pd \in Pd
  BY TypesAre
<1>1. CASE SrcSupplyReady
  BY <1>1 DEF SrcSupplyReady
<1>2. ~SendAndStay
  BY <1>a, SendIs DEF SendAndStay, Sender, Sent, Callback
<1>3. ~SendCapabilities
  <2>1. [Send(pd, "SOURCECAPS") EXCEPT !.caps = Past(@, CapsCount)].state = pd.state
    BY <1>a, SendIs DEF Sent, Pd
  <2> QED
    BY <2>1 DEF SendCapabilities, Callback
<1>4. ~EnterSoftReset
  BY <1>a, SendIs, ResetPrlIs DEF EnterSoftReset, SoftResets, Sent, Callback
<1>5. ~SendAnswer
  BY <1>a, SendIs, InIs DEF SendAnswer, Answers, Sent, Callback
<1>6. ~GiveBatteryStatus
  <2>1. pd.cb \in Sent
    BY <1>a DEF Pd
  <2> QED
    BY <1>a, <2>1, SendIs, InIs DEF GiveBatteryStatus, Callback
<1>7. ~DataRoleSwap
  BY <1>a, SendIs, InIs DEF DataRoleSwap, Sent, Callback
<1>8. ~(CheckBusy \/ Idle)
  BY DEF CheckBusy, Idle
<1>9. ~(PassThrough \/ Expired)
  BY PassThroughIs, ExpiredLeads DEF Leads
<1>10. ~(Disabled \/ SnkStartup \/ SrcStartup)
  BY ResetIs
<1>11. ~(BeginWait \/ SnkTransition \/ SrcTransitionToDefault)
  BY <1>a, InIs DEF BeginWait, SnkTransition, SrcTransitionToDefault
<1>12. ~(SnkDiscovery \/ SnkReadyExit \/ SnkRecovered \/ SrcNegotiate \/ SrcReadyExit \/ SrcHardReset \/ SrcRecovered)
  BY SnkDiscoveryIs, SnkReadyExitIs, SnkRecoveredIs, SrcNegotiateIs, SrcReadyExitIs, SrcHardResetIs,
     SrcRecoveredIs DEF Leads
<1>13. ~(SrcDisabled \/ SnkTransitionToDefault)
  <2>1. ResetPrl(pd) \in Pd /\ ~ResetPrl(pd).busy
    BY <1>a, ResetPrlIs
  <2>2. LET q == [ResetPrl(pd) EXCEPT !.loops = 0] IN q \in Pd /\ ~q.busy
    BY <2>1, Counts DEF Pd
  <2> QED
    BY <2>1, <2>2, InIs DEF SrcDisabled, SnkTransitionToDefault
<1>14. ~SnkEvaluate
  <2>1. LET q == [pd EXCEPT !.hr = 0, !.need = @ \/ pd.contract] IN q \in Pd /\ q.busy = pd.busy
    BY <1>a, Counts DEF Pd
  <2> QED
    BY <2>1, InIs DEF SnkEvaluate
<1>15. ~SnkReady
  <2>1. LET q == [pd EXCEPT !.contract = TRUE, !.need = FALSE] IN q \in Pd /\ q.busy = pd.busy
    BY <1>a DEF Pd
  <2> QED
    BY <2>1, InIs DEF SnkReady
<1>16. ~SnkHardReset
  <2>1. LET q == [pd EXCEPT !.hr = Past(@, HardResets), !.cb = "HARDRESET"] IN q \in Pd /\ q.busy = pd.busy
    BY <1>a, Counts DEF Pd, Sent
  <2> QED
    BY <2>1, InIs DEF SnkHardReset
<1>17. ~SrcReady
  <2>1. LET q == [pd EXCEPT !.contract = TRUE, !.loops = 0] IN q \in Pd /\ q.busy = pd.busy
    BY <1>a, Counts DEF Pd
  <2> QED
    BY <2>1, InIs DEF SrcReady
<1>18. ~BistCarrier
  <2>1. LET q == [pd EXCEPT !.cb = "BISTCARRY"] IN q \in Pd /\ q.busy = pd.busy
    BY <1>a DEF Pd, Sent
  <2> QED
    BY <2>1, InIs DEF BistCarrier
<1> QED
  BY <1>1, <1>2, <1>3, <1>4, <1>5, <1>6, <1>7, <1>8, <1>9, <1>10, <1>11, <1>12, <1>13, <1>14, <1>15,
     <1>16, <1>17, <1>18 DEF usb_pd_run

\* Outside the callbacks only the answer to a question about the battery is sent.
LEMMA EventSends ==
    TypeOK /\ usb_pdevt_run
        => \/ pd'.busy => pd.busy
           \/ pd'.state # "SRC_Transition_Supply"
           \/ /\ pd'.state = pd.state /\ pd'.cb = pd.cb /\ ~pd.busy /\ at = "event"
<1> SUFFICES ASSUME TypeOK, usb_pdevt_run, pd'.busy, ~pd.busy, pd'.state = "SRC_Transition_Supply"
             PROVE  pd'.state = pd.state /\ pd'.cb = pd.cb /\ at = "event"
  OBVIOUS
<1>a. pd \in Pd /\ rx \in Rx
  BY TypesAre
<1>1. ~TypecEvent
  <2> SUFFICES ASSUME TypecEvent PROVE FALSE
    OBVIOUS
  <2>1. PICK s \in {"SNK_Startup", "SRC_Startup", "RSC_Disable"} :
           pd' = [Go(pd, s) EXCEPT !.busy = FALSE, !.need = FALSE]
    BY DEF TypecEvent
  <2> QED
    BY <2>1, <1>a, GoIs, StatesAre DEF Pd
<1>2. ~RxHardResetEvent
  <2> SUFFICES ASSUME RxHardResetEvent PROVE FALSE
    OBVIOUS
  <2>1. PICK s \in {"SNK_Transition_to_default", "SRC_Hard_Reset_Received"} :
           pd' = [Go(pd, s) EXCEPT !.busy = FALSE]
    BY DEF RxHardResetEvent, Own
  <2>2. Go(pd, s) \in Pd
    BY <1>a, GoIs, StatesAre
  <2> QED
    BY <2>1, <2>2, BusyOff
<1>3. ~(PsTransitionEvent \/ PacketDropped \/ NoEvent)
  BY DEF PsTransitionEvent, PacketDropped, NoEvent
<1>4. ~RequestEvent
  BY <1>a, GoIs, StatesAre DEF RequestEvent
<1>5. CASE PacketHandled
  <2>1. PICK repeated \in BOOLEAN : pd' = Handled(pd, Taken.pkt, repeated)
    BY <1>5 DEF PacketHandled
  <2>2. Taken.pkt \in Message /\ pd.cb \in Sent
    BY <1>a DEF Taken, Rx, Pd
  <2>3. pd' = Send(pd, pd.cb)
    BY <1>a, <2>1, <2>2, HandledIs DEF Answer
  <2> QED
    BY <1>a, <1>5, <2>2, <2>3, SendIs DEF PacketHandled, First
<1> QED
  BY <1>1, <1>2, <1>3, <1>4, <1>5 DEF usb_pdevt_run

LEMMA OthersSend ==
    TypeOK /\ (usb_pd_interrupt \/ others \/ UNCHANGED vars) /\ pd'.busy => pd.busy
<1> SUFFICES ASSUME TypeOK, usb_pd_interrupt \/ others \/ UNCHANGED vars, pd'.busy PROVE pd.busy
  OBVIOUS
<1>a. pd \in Pd
  BY TypesAre
<1>1. CASE usb_pd_interrupt
  <2>1. ~TxSuccess
    BY <1>a, SentStateIs, BusyOff DEF TxSuccess
  <2>2. ~TxFail
    <3> SUFFICES ASSUME TxFail PROVE FALSE
      OBVIOUS
    <3>1. PICK discarded \in BOOLEAN : pd' = [Failed(pd, discarded) EXCEPT !.busy = FALSE]
      BY DEF TxFail
    <3>2. Failed(pd, discarded) \in Pd
      BY <1>a, FailedIs DEF Answer
    <3> QED
      BY <3>1, <3>2, BusyOff
  <2>3. ~OtherSent
    BY <1>a, BusyOff DEF OtherSent
  <2> QED
    BY <1>1, <2>1, <2>2, <2>3 DEF usb_pd_interrupt, Receive, ReceiveHardReset
<1>2. CASE others
  BY <1>2, <1>a, GoIs, StatesAre DEF others, NextPass, Attach, Detach, Disable, AskVoltage, AskSoftReset,
       Regulate, Silence, Pd
<1>3. CASE UNCHANGED vars
  BY <1>3 DEF vars
<1> QED
  BY <1>1, <1>2, <1>3

LEMMA PsRdyDelivered ==
    IInv /\ [Next]_vars /\ pd'.cb = "PSREADY" /\ pd'.busy /\ ~pd.busy
        /\ pd'.state = "SRC_Transition_Supply" => reg.bus = "new"
<1> SUFFICES ASSUME IInv, [Next]_vars, pd'.cb = "PSREADY", pd'.busy, ~pd.busy,
                    pd'.state = "SRC_Transition_Supply"
             PROVE  reg.bus = "new"
  OBVIOUS
<1>a. TypeOK /\ pd \in Pd /\ pd.sub \in {"enter", "exit"}
  BY TypesAre DEF IInv, Pd
<1>1. CASE usb_pd_run
  <2>1. SrcSupplyReady /\ reg.ready
    BY <1>a, <1>1, RunSends
  <2> QED
    BY <2>1 DEF SrcSupplyReady, Callback, IInv, Supplying
<1>2. ~usb_pdevt_run
  <2> SUFFICES ASSUME usb_pdevt_run PROVE FALSE
    OBVIOUS
  <2>1. pd.state = "SRC_Transition_Supply" /\ pd.cb = "PSREADY" /\ at = "event"
    BY <1>a, EventSends
  <2> QED
    BY <1>a, <2>1 DEF IInv, Supplying
<1> QED
  BY <1>a, <1>1, <1>2, OthersSend DEF Next

\* PE_SRC_Transition_Supply_Exit sends PS_RDY only when the converter has gone to
\* the voltage of the request just accepted, ready as it was before.
THEOREM PsRdyTrue == Spec => PsRdyMeansDelivered
<1>1. IInv /\ [Next]_vars => [pd'.cb = "PSREADY" /\ pd'.busy /\ ~pd.busy
                               /\ pd'.state = "SRC_Transition_Supply" => reg.bus = "new"]_vars
  BY PsRdyDelivered
<1> QED
  BY <1>1, Invariance, PTL DEF Spec, PsRdyMeansDelivered
=============================================================================
