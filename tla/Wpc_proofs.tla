----------------------------- MODULE Wpc_proofs ------------------------------
(***************************************************************************)
(* Proofs about Wpc for every packet count width, every set of packets and *)
(* every bound on the posts.                                               *)
(***************************************************************************)
EXTENDS Wpc, TLAPS

\* The handlers and events that leave the session's state alone: they post, and
\* they arm timers.
Bystander ==
    \/ \E e \in Timeouts : Timeout(e)
    \/ PchTo \/ Wnd \/ Pfod \/ AuthDone \/ HdrStart \/ HdrRecvd
    \/ \E t \in Timer : Expire(t)
    \/ Decode \/ FskDone \/ OtherStop

\* Next, as the proofs split it
LEMMA Cases ==
    Next <=>
       \/ Take \/ RampStep \/ Bystander
       \/ DigPing \/ CloakPing \/ StopPower \/ FskRespDone
       \/ \E e \in {"PIN_NO_PKT", "PING_1st_PKT_TO"} : PingTimeout(e)
       \/ PktRecvd
  BY Zenon DEF Next, Handle, Environment, Bystander

LEMMA EvtMembers ==
    /\ "DIG_PING" \in Evt /\ "PIN_NO_PKT" \in Evt /\ "HDR_START" \in Evt /\ "HDR_RECVD" \in Evt
    /\ "PKT_RECVD" \in Evt /\ "PING_1st_PKT_TO" \in Evt /\ "STOP_POWER" \in Evt
    /\ "CNFG_NEXT_1ST_TO" \in Evt /\ "CNFG_NEXT_PKT_TO" \in Evt /\ "CEP_TO" \in Evt
    /\ "RPP_TO" \in Evt /\ "PCH_TO" \in Evt /\ "WND" \in Evt /\ "PFOD" \in Evt
    /\ "NEGO_NEXT_PKT_TO" \in Evt /\ "FSK_RESP_DONE" \in Evt /\ "SE_IC_TBS_AUTH" \in Evt
    /\ "CLOAK_PING" \in Evt /\ "STOP_AFTER_FSK" \in Evt /\ "RENEGO_TO" \in Evt
  BY DEF Evt, Order

\* A packet that reaches its phase's handler, and the handlers' preconditions
LEMMA PacketCases ==
    ASSUME NEW p, Packets(p)
    PROVE  \/ Ept
           \/ NegoPhase(p, LateNego(p)) /\ (phase = "NEGO" \/ LateNego(p))
           \/ endNego' = FALSE /\ phase = "PING" /\ PingPhase(p)
           \/ endNego' = FALSE /\ phase = "CNFG" /\ CnfgCfg
           \/ endNego' = FALSE /\ phase = "CNFG" /\ CnfgOther(p)
           \/ endNego' = FALSE /\ phase = "XFER" /\ profile = "BPP" /\ XferBpp(p)
           \/ endNego' = FALSE /\ phase = "XFER" /\ profile # "BPP" /\ XferMpp(p)
           \/ endNego' = FALSE /\ phase = "CLOAK" /\ CloakPhase(p)
           \/ /\ endNego' = FALSE
              /\ Quiet
              /\ UNCHANGED <<phase, pwm, pingType, rx, renego, cloak, cloakDone, tm, ghost>>
  BY DEF Packets

\* What an optional packet leaves of the receiver's data
LEMMA CnfgOtherData ==
    ASSUME NEW p, CnfgOther(p)
    PROVE  /\ UNCHANGED <<phase, cloak, astray>>
           /\ opt_cnt' = opt_cnt \/ opt_cnt' = (opt_cnt + 1) % OptMod
           /\ pingType' = pingType \/ pingType' = 360
           /\ profile' = profile \/ profile' = "MPP"
           /\ known' = known \/ known' = known \cup {"ID"} \/ known' = known \cup {"XID"}
<1>1. UNCHANGED <<phase, cloak, astray>>
  BY DEF CnfgOther
<1>2. CASE p \notin CnfgIllegal /\ p # "PCHX" /\ InSequence(p)
  <2>1. opt_cnt' = (opt_cnt + 1) % OptMod
    BY <1>2 DEF CnfgOther
  <2>2. (pingType' = pingType \/ pingType' = 360) /\ (profile' = profile \/ profile' = "MPP")
    BY <1>2 DEF CnfgOther
  <2>3. known' = known \/ known' = known \cup {"ID"} \/ known' = known \cup {"XID"}
    BY <1>2 DEF CnfgOther
  <2> QED
    BY <1>1, <2>1, <2>2, <2>3
<1>3. CASE ~(p \notin CnfgIllegal /\ p # "PCHX" /\ InSequence(p))
  BY <1>1, <1>3 DEF CnfgOther, rx
<1> QED
  BY <1>2, <1>3

-----------------------------------------------------------------------------
\* Type correctness, part by part.

TypeFlags ==
    /\ pwm \in BOOLEAN /\ ramp \in BOOLEAN /\ fsk \in BOOLEAN
    /\ restricted \in BOOLEAN /\ ext \in BOOLEAN
    /\ renego \in BOOLEAN /\ endNego \in BOOLEAN
    /\ cloak \in BOOLEAN /\ cloakDone \in BOOLEAN

TypeData ==
    /\ phase \in Phase /\ freq \in {128, 360} /\ ask \in {"on", "tail", "off"}
    /\ pingType \in {128, 360} /\ profile \in {"BPP", "MPP"} /\ opt_cnt \in 0 .. OptMod-1
    /\ known \subseteq {"ID", "XID"} /\ astray \subseteq {"late", "relit", "left", "reason", "lost"}

TypeTimer == tm \in [Timer -> Evt \cup {"off"}]
TypeQueue == posted \subseteq Evt /\ batch \subseteq Evt

LEMMA TypeParts == TypeOK <=> TypeFlags /\ TypeData /\ TypeTimer /\ TypeQueue
  BY Zenon DEF TypeOK, TypeFlags, TypeData, TypeTimer, TypeQueue

LEMMA FlagsBystander == TypeFlags /\ Bystander => TypeFlags'
<1> USE DEF TypeFlags, air, rx, flags
<1>1. ASSUME TypeFlags, NEW e, Timeout(e) PROVE TypeFlags'
  BY <1>1 DEF Timeout
<1>2. ASSUME TypeFlags, NEW e, NEW timers, Continue(e, timers) PROVE TypeFlags'
  BY <1>2 DEF Continue
<1>3. ASSUME TypeFlags, NEW t, Expire(t) PROVE TypeFlags'
  BY <1>3 DEF Expire
<1>4. TypeFlags /\ (Pfod \/ Decode \/ OtherStop) => TypeFlags'
  BY DEF Pfod, Decode, OtherStop
<1>5. TypeFlags /\ FskDone => TypeFlags'
  BY DEF FskDone
<1> QED
  BY <1>1, <1>2, <1>3, <1>4, <1>5 DEF Bystander, PchTo, Wnd, AuthDone, HdrStart, HdrRecvd

LEMMA DataBystander == TypeData /\ Bystander => TypeData'
<1> USE DEF TypeData, air, rx, ghost
<1>1. ASSUME TypeData, NEW e, Timeout(e) PROVE TypeData'
  BY <1>1 DEF Timeout
<1>2. ASSUME TypeData, NEW e, NEW timers, Continue(e, timers) PROVE TypeData'
  BY <1>2 DEF Continue
<1>3. ASSUME TypeData, NEW t, Expire(t) PROVE TypeData'
  BY <1>3 DEF Expire
<1>4. ASSUME TypeData, Pfod PROVE TypeData'
  BY <1>4 DEF Pfod
<1>6. ASSUME TypeData, OtherStop PROVE TypeData'
  BY <1>6 DEF OtherStop
<1>7. ASSUME TypeData, FskDone PROVE TypeData'
  BY <1>7 DEF FskDone
<1>5. ASSUME TypeData, Decode PROVE TypeData'
  BY <1>5 DEF Decode
<1> QED
  BY <1>1, <1>2, <1>3, <1>4, <1>5, <1>6, <1>7 DEF Bystander, PchTo, Wnd, AuthDone, HdrStart, HdrRecvd

LEMMA TimerBystander == TypeTimer /\ Bystander => TypeTimer'
<1> SUFFICES ASSUME TypeTimer, Bystander PROVE TypeTimer'
  OBVIOUS
<1>1. ASSUME NEW e, NEW timers, Continue(e, timers) PROVE tm' \in timers
  BY <1>1 DEF Continue
<1>2. CASE PchTo \/ Wnd \/ AuthDone \/ HdrStart
  <2>1. tm' \in {tm, Set("NEXT", "WND"), Set("NEXT", "CNFG_NEXT_PKT_TO")}
    BY <1>1, <1>2 DEF PchTo, Wnd, AuthDone, HdrStart
  <2> QED
    BY <2>1, EvtMembers DEF Set, TypeTimer
<1>3. CASE HdrRecvd
  <2>1. tm' \in {tm, Set("NEXT", "PING_1st_PKT_TO"), Set("CEP", "CEP_TO"),
                 Set("RPP", "RPP_TO"), Set("NEXT", "PIN_NO_PKT")}
    BY <1>3 DEF HdrRecvd, Continue
  <2> QED
    BY <2>1, EvtMembers DEF Set, TypeTimer
<1>4. ASSUME NEW t, Expire(t) PROVE TypeTimer'
  BY <1>4 DEF Expire, TypeTimer
<1>5. ASSUME \/ \E e \in Timeouts : Timeout(e)
             \/ Pfod \/ Decode \/ FskDone \/ OtherStop
      PROVE  TypeTimer'
  BY <1>5 DEF Timeout, Pfod, Decode, FskDone, OtherStop, TypeTimer
<1> QED
  BY <1>2, <1>3, <1>4, <1>5 DEF Bystander

LEMMA FlagsPacket == ASSUME TypeFlags, PktRecvd PROVE TypeFlags'
<1> USE DEF TypeFlags, air, rx, flags, ghost
<1>0. PICK p \in Rx : Packets(p)
  BY DEF PktRecvd
<1>f. ramp' = ramp
  BY DEF PktRecvd
<1>1. CASE Ept
  BY <1>f, <1>1 DEF Ept
<1>2. CASE NegoPhase(p, LateNego(p))
  BY <1>f, <1>2 DEF NegoPhase, EndOfNego, Quiet, Send
<1>3. CASE endNego' = FALSE /\ PingPhase(p)
  BY <1>f, <1>3 DEF PingPhase, Forget
<1>4. CASE endNego' = FALSE /\ CnfgCfg
  BY <1>f, <1>4 DEF CnfgCfg, Send
<1>5. CASE endNego' = FALSE /\ CnfgOther(p)
  BY <1>f, <1>5 DEF CnfgOther
<1>6. CASE endNego' = FALSE /\ XferBpp(p)
  BY <1>f, <1>6 DEF XferBpp, Quiet, Send
<1>7. CASE endNego' = FALSE /\ XferMpp(p)
  BY <1>f, <1>7 DEF XferMpp, Send
<1>8. CASE endNego' = FALSE /\ CloakPhase(p)
  BY <1>f, <1>8 DEF CloakPhase, Quiet, Send
<1>9. CASE /\ endNego' = FALSE
           /\ Quiet
           /\ UNCHANGED <<phase, pwm, pingType, rx, renego, cloak, cloakDone, tm, ghost>>
  BY <1>f, <1>9 DEF Quiet
<1> QED
  BY <1>0, <1>1, <1>2, <1>3, <1>4, <1>5, <1>6, <1>7, <1>8, <1>9, PacketCases

LEMMA DataPacket == ASSUME TypeData, PktRecvd PROVE TypeData'
<1> USE DEF TypeData, air, rx, ghost
<1>0. PICK p \in Rx : Packets(p)
  BY DEF PktRecvd
<1>f. UNCHANGED <<freq, ask>>
  BY DEF PktRecvd
<1>p. /\ "IDLE" \in Phase /\ "CNFG" \in Phase /\ "NEGO" \in Phase /\ "XFER" \in Phase
      /\ "CLOAK" \in Phase /\ 0 \in 0 .. OptMod-1
  BY WpcAssumption DEF Phase
<1>1. CASE Ept
  BY <1>f, <1>1 DEF Ept
<1>2. CASE NegoPhase(p, LateNego(p))
  BY <1>f, <1>p, <1>2 DEF NegoPhase, EndOfNego, Quiet
<1>3. CASE PingPhase(p)
  BY ZenonT(40), <1>f, <1>p, <1>3 DEF PingPhase, Forget
<1>4. CASE CnfgCfg
  <2>1. OptLeft \in 0 .. OptMod-1
    BY WpcAssumption DEF OptLeft
  <2> QED
    BY <1>f, <1>p, <1>4, <2>1 DEF CnfgCfg
<1>5. CASE CnfgOther(p)
  <2>1. (opt_cnt + 1) % OptMod \in 0 .. OptMod-1
    BY WpcAssumption
  <2> QED
    <3>1. known' \subseteq {"ID", "XID"}
      <4> HIDE DEF air, rx, ghost, TypeData
      <4>1. known' = known \/ known' = known \cup {"ID"} \/ known' = known \cup {"XID"}
        BY <1>5, CnfgOtherData
      <4>2. known \subseteq {"ID", "XID"}
        BY DEF TypeData
      <4> QED
        BY <4>1, <4>2
    <3>2. /\ UNCHANGED <<phase, astray>> /\ opt_cnt' \in 0 .. OptMod-1
          /\ pingType' \in {128, 360} /\ profile' \in {"BPP", "MPP"}
      BY <1>5, <2>1, CnfgOtherData
    <3> QED
      BY <1>f, <3>1, <3>2
<1>6. CASE XferBpp(p)
  BY <1>f, <1>6 DEF XferBpp
<1>7. CASE XferMpp(p)
  BY <1>f, <1>p, <1>7 DEF XferMpp
<1>8. CASE CloakPhase(p)
  BY <1>f, <1>p, <1>8 DEF CloakPhase, Quiet
<1>9. CASE UNCHANGED <<phase, pwm, pingType, rx, renego, cloak, cloakDone, tm, ghost>>
  BY <1>f, <1>9
<1> QED
  BY <1>0, <1>1, <1>2, <1>3, <1>4, <1>5, <1>6, <1>7, <1>8, <1>9, PacketCases

LEMMA TimerPacket == ASSUME TypeTimer, PktRecvd PROVE TypeTimer'
<1>0. PICK p \in Rx : Packets(p)
  BY DEF PktRecvd
<1>1. Ept => TypeTimer'
  BY DEF Ept, TypeTimer
<1>2. CASE NegoPhase(p, LateNego(p))
  <2>1. \/ tm' = tm \/ tm' = Set("NEXT", "NEGO_NEXT_PKT_TO") \/ tm' = Clear({"NEXT"})
        \/ tm' = Supervise(Clear({"NEXT", "NEGO"}))
    BY <1>2 DEF NegoPhase, EndOfNego, Quiet
  <2>2. ASSUME NEW S PROVE Clear(S) \in [Timer -> Evt \cup {"off"}]
    BY DEF Clear, TypeTimer
  <2>3. ASSUME NEW f \in [Timer -> Evt \cup {"off"}]
        PROVE  Supervise(f) \in [Timer -> Evt \cup {"off"}]
    BY EvtMembers DEF Supervise
  <2>4. Set("NEXT", "NEGO_NEXT_PKT_TO") \in [Timer -> Evt \cup {"off"}]
    BY EvtMembers DEF Set, TypeTimer
  <2> QED
    BY <2>1, <2>2, <2>3, <2>4 DEF TypeTimer
<1>3. PingPhase(p) => TypeTimer'
  BY EvtMembers DEF PingPhase, Set, TypeTimer
<1>4. CnfgCfg => TypeTimer'
  BY EvtMembers DEF CnfgCfg, Set, Supervise, TypeTimer
<1>5. CASE CnfgOther(p)
  <2>1. tm' = tm \/ tm' = Set("NEXT", "CNFG_NEXT_1ST_TO")
    BY <1>5 DEF CnfgOther
  <2> QED
    BY <2>1, EvtMembers DEF Set, TypeTimer
<1>6. XferBpp(p) => TypeTimer'
  BY EvtMembers DEF XferBpp, TypeTimer
<1>7. XferMpp(p) => TypeTimer'
  BY EvtMembers DEF XferMpp, Set, TypeTimer
<1>8. CloakPhase(p) => TypeTimer'
  BY EvtMembers DEF CloakPhase, Supervise, Quiet, TypeTimer
<1> QED
  BY <1>0, <1>1, <1>2, <1>3, <1>4, <1>5, <1>6, <1>7, <1>8, PacketCases DEF TypeTimer

\* Handlers only ever post a stop.
LEMMA StopOnly ==
    ASSUME \/ PktRecvd \/ DigPing \/ CloakPing \/ StopPower \/ FskRespDone \/ Pfod
           \/ \E e : PingTimeout(e) \/ Timeout(e) \/ \E S : Continue(e, S)
    PROVE  (posted' = posted \/ Stop) /\ \E e : Handling(e)
<1>1. ASSUME PktRecvd PROVE posted' = posted \/ Stop
  <2>0. PICK p \in Rx : Packets(p)
    BY <1>1 DEF PktRecvd
  <2>1. Ept \/ NegoPhase(p, LateNego(p)) => posted' = posted \/ Stop
    BY DEF Ept, NegoPhase, EndOfNego, Quiet
  <2>2. PingPhase(p) \/ CnfgCfg \/ CnfgOther(p) => posted' = posted \/ Stop
    BY DEF PingPhase, CnfgCfg, CnfgOther
  <2>3. XferBpp(p) \/ XferMpp(p) \/ CloakPhase(p) \/ Quiet => posted' = posted \/ Stop
    BY DEF XferBpp, XferMpp, CloakPhase, Quiet
  <2> QED
    BY <2>0, <2>1, <2>2, <2>3, PacketCases
<1>2. ASSUME NEW e PROVE PingTimeout(e) \/ Timeout(e) => (posted' = posted \/ Stop) /\ Handling(e)
  BY DEF PingTimeout, Timeout
<1>3. ASSUME NEW e, NEW S PROVE Continue(e, S) => posted' = posted /\ Handling(e)
  BY DEF Continue
<1>4. DigPing \/ CloakPing \/ StopPower \/ FskRespDone \/ Pfod
        => (posted' = posted \/ Stop) /\ \E e : Handling(e)
  BY DEF DigPing, CloakPing, StopPower, FskRespDone, Pfod
<1>5. PktRecvd => Handling("PKT_RECVD")
  BY DEF PktRecvd
<1> QED
  BY <1>1, <1>2, <1>3, <1>4, <1>5

LEMMA QueueStep == TypeTimer /\ TypeQueue /\ [Next]_vars => TypeQueue'
<1> SUFFICES ASSUME TypeTimer, TypeQueue, [Next]_vars PROVE TypeQueue'
  OBVIOUS
<1>1. ASSUME posted' = posted \/ Stop, \E e : Handling(e) PROVE TypeQueue'
  BY <1>1, EvtMembers DEF TypeQueue, Stop, Post, Handling
<1>2. CASE Take
  BY <1>2 DEF Take, TypeQueue
<1>3. CASE RampStep \/ UNCHANGED vars
  BY <1>3 DEF RampStep, vars, queue, TypeQueue
<1>4. ASSUME NEW t \in Timer, Expire(t) PROVE TypeQueue'
  BY <1>4 DEF Expire, Post, TypeTimer, TypeQueue
<1>5. CASE Decode \/ FskDone \/ OtherStop
  BY <1>5, EvtMembers DEF Decode, FskDone, OtherStop, Post, TypeQueue
<1> QED
  BY <1>1, <1>2, <1>3, <1>4, <1>5, StopOnly, Cases
     DEF Bystander, PchTo, Wnd, AuthDone, HdrStart, HdrRecvd

LEMMA FlagsStep == TypeFlags /\ [Next]_vars => TypeFlags'
<1> SUFFICES ASSUME TypeFlags, [Next]_vars PROVE TypeFlags'
  OBVIOUS
<1> USE DEF TypeFlags, air, rx, flags
<1>1. CASE Take
  BY <1>1 DEF Take
<1>2. CASE RampStep
  BY <1>2 DEF RampStep
<1>3. CASE DigPing
  BY <1>3 DEF DigPing
<1>4. CASE CloakPing
  BY <1>4 DEF CloakPing, CloakDigPing, CloakGone, CloakProbe
<1>5. CASE StopPower
  BY <1>5 DEF StopPower
<1>6. CASE FskRespDone
  BY <1>6 DEF FskRespDone
<1>7. ASSUME NEW e, PingTimeout(e) PROVE TypeFlags'
  BY <1>7 DEF PingTimeout
<1>8. CASE UNCHANGED vars
  BY <1>8 DEF vars
<1> QED
  BY <1>1, <1>2, <1>3, <1>4, <1>5, <1>6, <1>7, <1>8, FlagsBystander, FlagsPacket, Cases

LEMMA DataStep == TypeData /\ [Next]_vars => TypeData'
<1> SUFFICES ASSUME TypeData, [Next]_vars PROVE TypeData'
  OBVIOUS
<1> USE DEF TypeData, air, rx, ghost
<1>p. "IDLE" \in Phase /\ "PING" \in Phase /\ "CLOAK" \in Phase
  BY DEF Phase
<1>1. CASE Take
  BY <1>1 DEF Take
<1>2. CASE RampStep
  BY <1>2 DEF RampStep
<1>3. CASE DigPing
  BY <1>3, <1>p DEF DigPing
<1>4. CASE CloakPing
  BY <1>4, <1>p DEF CloakPing, CloakDigPing, CloakGone, CloakProbe
<1>5. CASE StopPower
  BY <1>5, <1>p DEF StopPower
<1>6. CASE FskRespDone
  BY <1>6 DEF FskRespDone
<1>7. ASSUME NEW e, PingTimeout(e) PROVE TypeData'
  BY <1>7 DEF PingTimeout
<1>8. CASE UNCHANGED vars
  BY <1>8 DEF vars
<1> QED
  BY <1>1, <1>2, <1>3, <1>4, <1>5, <1>6, <1>7, <1>8, DataBystander, DataPacket, Cases

LEMMA TimerStep == TypeTimer /\ [Next]_vars => TypeTimer'
<1> SUFFICES ASSUME TypeTimer, [Next]_vars PROVE TypeTimer'
  OBVIOUS
<1>1. CASE Take \/ RampStep \/ UNCHANGED vars
  BY <1>1 DEF Take, RampStep, vars, TypeTimer
<1>2. CASE DigPing
  <2>1. tm' \in {tm, [tm EXCEPT !.NEXT = "PIN_NO_PKT", !.PING = "off"]}
    BY <1>2 DEF DigPing
  <2> QED
    BY <2>1, EvtMembers DEF TypeTimer
<1>3. CASE CloakPing
  <2>1. tm' \in {tm, [tm EXCEPT !.NEXT = "PIN_NO_PKT", !.PING = "off"],
                 [tm EXCEPT !.NEXT = "off", !.PING = "DIG_PING"]}
    BY <1>3 DEF CloakPing, CloakDigPing, CloakGone, CloakProbe
  <2> QED
    BY <2>1, EvtMembers DEF TypeTimer
<1>4. CASE StopPower
  <2>1. tm' = tm \/ tm' = PingAgain(Clear({"NEXT", "CEP", "RPP"}))
    BY <1>4 DEF StopPower
  <2> QED
    BY <2>1, EvtMembers DEF PingAgain, Clear, TypeTimer
<1>5. CASE FskRespDone
  BY <1>5, EvtMembers DEF FskRespDone, TypeTimer
<1>6. ASSUME NEW e, PingTimeout(e) PROVE TypeTimer'
  BY <1>6 DEF PingTimeout, TypeTimer
<1> QED
  BY <1>1, <1>2, <1>3, <1>4, <1>5, <1>6, TimerBystander, TimerPacket, Cases

LEMMA TypeStep == TypeOK /\ [Next]_vars => TypeOK'
<1>1. TypeOK' <=> TypeFlags' /\ TypeData' /\ TypeTimer' /\ TypeQueue'
  BY ZenonT(40) DEF TypeOK, TypeFlags, TypeData, TypeTimer, TypeQueue
<1> QED
  BY <1>1, TypeParts, FlagsStep, DataStep, TimerStep, QueueStep

LEMMA TypeInit == Init => TypeOK
<1>1. Init => TypeFlags
  BY DEF Init, TypeFlags
<1>2. Init => TypeData
  BY WpcAssumption DEF Init, TypeData, Phase
<1>3. Init => TypeTimer /\ TypeQueue
  BY EvtMembers DEF Init, TypeTimer, TypeQueue
<1> QED
  BY <1>1, <1>2, <1>3, TypeParts

\* TypeOK, for every width of the packet count and every set of packets
THEOREM TypeCorrect == Spec => []TypeOK
  BY TypeInit, TypeStep, PTL DEF Spec

-----------------------------------------------------------------------------
\* What a bystander leaves alone
SessionFrame ==
    UNCHANGED <<phase, pwm, freq, profile, restricted, ext, opt_cnt, endNego, cloak,
                cloakDone, known, astray>>

QueueFrame ==
    /\ posted \subseteq posted' /\ batch' \subseteq batch
    /\ "STOP_POWER" \in batch => "STOP_POWER" \in batch'

LEMMA HandlingFrame ==
    ASSUME NEW e, e # "STOP_POWER", Handling(e), posted' = posted \/ Stop PROVE QueueFrame
  BY DEF QueueFrame, Handling, Stop, Post

LEMMA BystanderSession == Bystander => SessionFrame
<1> USE DEF SessionFrame, air, rx, flags, ghost
<1>1. ASSUME NEW e, Timeout(e) PROVE SessionFrame
  BY <1>1 DEF Timeout
<1>2. ASSUME NEW e, NEW timers, Continue(e, timers) PROVE SessionFrame
  BY <1>2 DEF Continue
<1>3. Pfod => SessionFrame
  BY DEF Pfod
<1>4. (\E t \in Timer : Expire(t)) => SessionFrame
  BY DEF Expire
<1>5. Decode \/ FskDone \/ OtherStop => SessionFrame
  BY DEF Decode, FskDone, OtherStop
<1> QED
  BY <1>1, <1>2, <1>3, <1>4, <1>5 DEF Bystander, PchTo, Wnd, AuthDone, HdrStart, HdrRecvd

LEMMA BystanderQueue == Bystander => QueueFrame
<1>1. ASSUME NEW e \in Timeouts, Timeout(e) PROVE QueueFrame
  BY <1>1, HandlingFrame DEF Timeout, Timeouts
<1>2. ASSUME NEW e, e # "STOP_POWER", NEW timers, Continue(e, timers) PROVE QueueFrame
  BY <1>2, HandlingFrame DEF Continue
<1>3. Pfod => QueueFrame
  BY HandlingFrame DEF Pfod
<1>4. (\E t \in Timer : Expire(t)) => QueueFrame
  BY DEF Expire, Post, QueueFrame
<1>5. Decode \/ FskDone \/ OtherStop => QueueFrame
  BY DEF Decode, FskDone, OtherStop, Post, QueueFrame
<1> QED
  BY <1>1, <1>2, <1>3, <1>4, <1>5 DEF Bystander, PchTo, Wnd, AuthDone, HdrStart, HdrRecvd

\* Only MPP receivers negotiate or cloak.  MppOnly is inductive: whatever forgets the
\* profile or opens a session finds neither flag set.
LEMMA MppPacket == ASSUME MppOnly, TypeOK, PktRecvd PROVE MppOnly'
<1> USE DEF MppOnly, rx, flags
<1>0. PICK p \in Rx : Packets(p)
  BY DEF PktRecvd
<1>1. CASE Ept
  BY <1>1 DEF Ept
<1>2. CASE NegoPhase(p, LateNego(p)) /\ (phase = "NEGO" \/ LateNego(p))
  <2>1. profile = "MPP" /\ profile' = "MPP"
    BY <1>2 DEF NegoPhase, LateNego
  <2>2. cloak' = cloak /\ phase' \in {phase, "NEGO", "XFER"}
    BY <1>2, <2>1 DEF NegoPhase, EndOfNego
  <2> QED
    BY <2>1, <2>2
<1>3. CASE endNego' = FALSE /\ phase = "PING" /\ PingPhase(p)
  BY <1>3 DEF PingPhase
<1>4. CASE endNego' = FALSE /\ phase = "CNFG" /\ CnfgCfg
  BY <1>4 DEF CnfgCfg, Negotiates
<1>5. CASE endNego' = FALSE /\ phase = "CNFG" /\ CnfgOther(p)
  BY <1>5, CnfgOtherData
<1>6. CASE endNego' = FALSE /\ phase = "XFER" /\ profile = "BPP" /\ XferBpp(p)
  BY <1>6 DEF XferBpp
<1>7. CASE endNego' = FALSE /\ phase = "XFER" /\ profile # "BPP" /\ XferMpp(p)
  <2>1. profile = "MPP"
    BY <1>7 DEF TypeOK
  <2> QED
    BY <1>7, <2>1 DEF XferMpp
<1>8. CASE endNego' = FALSE /\ phase = "CLOAK" /\ CloakPhase(p)
  BY <1>8 DEF CloakPhase
<1>9. CASE /\ endNego' = FALSE
           /\ UNCHANGED <<phase, pwm, pingType, rx, renego, cloak, cloakDone, tm, ghost>>
  BY <1>9
<1> QED
  BY <1>0, <1>1, <1>2, <1>3, <1>4, <1>5, <1>6, <1>7, <1>8, <1>9, PacketCases

LEMMA MppStep == MppOnly /\ TypeOK /\ [Next]_vars => MppOnly'
<1> SUFFICES ASSUME MppOnly, TypeOK, [Next]_vars PROVE MppOnly'
  OBVIOUS
<1> USE DEF MppOnly, rx, flags
<1>1. CASE Take \/ RampStep \/ UNCHANGED vars
  BY <1>1 DEF Take, RampStep, vars
<1>2. CASE Bystander
  BY <1>2, BystanderSession DEF SessionFrame
<1>3. CASE DigPing
  BY <1>3 DEF DigPing
<1>4. CASE CloakPing
  BY <1>4 DEF CloakPing, CloakDigPing, CloakGone, CloakProbe
<1>5. CASE StopPower
  BY <1>5 DEF StopPower
<1>6. CASE FskRespDone
  BY <1>6 DEF FskRespDone
<1>7. ASSUME NEW e, PingTimeout(e) PROVE MppOnly'
  BY <1>7 DEF PingTimeout
<1>8. CASE PktRecvd
  BY <1>8, MppPacket
<1> QED
  BY <1>1, <1>2, <1>3, <1>4, <1>5, <1>6, <1>7, <1>8, Cases

\* Only a receiver identified as MPP in this session ever negotiates or cloaks.
THEOREM OnlyMpp == Spec => []MppOnly
<1>1. Init => MppOnly
  BY DEF Init, MppOnly
<1> QED
  BY <1>1, MppStep, TypeCorrect, PTL DEF Spec

-----------------------------------------------------------------------------
\* The order of the phases follows from MppOnly: cloak is entered only by a receiver
\* that negotiated, so from NEGO, XFER or CLOAK.
LEMMA OrderPacket == ASSUME MppOnly, TypeOK, PktRecvd PROVE PhaseStep
<1> USE DEF PhaseStep, Session
<1>0. PICK p \in Rx : Packets(p)
  BY DEF PktRecvd
<1>1. CASE Ept
  BY <1>1 DEF Ept
<1>2. CASE NegoPhase(p, LateNego(p)) /\ (phase = "NEGO" \/ LateNego(p))
  <2>1. phase' \in {phase, "NEGO", "XFER"}
    BY <1>2 DEF NegoPhase, EndOfNego
  <2>2. LateNego(p) /\ phase # "XFER" => endNego /\ "late" \in astray'
    BY <1>2 DEF NegoPhase, LateNego
  <2> QED
    BY <1>2, <2>1, <2>2
<1>3. CASE endNego' = FALSE /\ phase = "PING" /\ PingPhase(p)
  BY <1>3 DEF PingPhase
<1>4. CASE endNego' = FALSE /\ phase = "CNFG" /\ CnfgCfg
  BY <1>4 DEF CnfgCfg
<1>5. CASE endNego' = FALSE /\ phase = "CNFG" /\ CnfgOther(p)
  BY <1>5, CnfgOtherData
<1>6. CASE endNego' = FALSE /\ phase = "XFER" /\ profile = "BPP" /\ XferBpp(p)
  BY <1>6 DEF XferBpp
<1>7. CASE endNego' = FALSE /\ phase = "XFER" /\ profile # "BPP" /\ XferMpp(p)
  BY <1>7 DEF XferMpp
<1>8. CASE endNego' = FALSE /\ phase = "CLOAK" /\ CloakPhase(p)
  BY <1>8 DEF CloakPhase
<1>9. CASE UNCHANGED <<phase, pwm, pingType, rx, renego, cloak, cloakDone, tm, ghost>>
  BY <1>9
<1> QED
  BY <1>0, <1>1, <1>2, <1>3, <1>4, <1>5, <1>6, <1>7, <1>8, <1>9, PacketCases

LEMMA OrderStep == MppOnly /\ TypeOK /\ [Next]_vars => [PhaseStep]_vars
<1> SUFFICES ASSUME MppOnly, TypeOK, Next PROVE PhaseStep
  OBVIOUS
<1> USE DEF PhaseStep, Session
<1>1. CASE Take \/ RampStep
  BY <1>1 DEF Take, RampStep
<1>2. CASE Bystander
  BY <1>2, BystanderSession DEF SessionFrame
<1>3. CASE DigPing
  BY <1>3 DEF DigPing
<1>4. CASE CloakPing
  BY <1>4 DEF CloakPing, CloakDigPing, CloakGone, CloakProbe, MppOnly
<1>5. CASE StopPower
  BY <1>5 DEF StopPower, MppOnly
<1>6. CASE FskRespDone
  BY <1>6 DEF FskRespDone
<1>7. ASSUME NEW e, PingTimeout(e) PROVE PhaseStep
  BY <1>7 DEF PingTimeout
<1>8. CASE PktRecvd
  BY <1>8, OrderPacket
<1> QED
  BY <1>1, <1>2, <1>3, <1>4, <1>5, <1>6, <1>7, <1>8, Cases

\* A session's phases come in the order PhaseStep gives, at every step.
THEOREM OrderOfPhases == Spec => PhaseOrder
BY OrderStep, OnlyMpp, TypeCorrect, PTL DEF Spec, PhaseOrder

-----------------------------------------------------------------------------
\* The coil is off in IDLE: inductive, as every way into IDLE goes through a stop.
LEMMA OffStep == PowerOff /\ MppOnly /\ TypeOK /\ [Next]_vars => PowerOff'
<1> SUFFICES ASSUME PowerOff, MppOnly, TypeOK, [Next]_vars PROVE PowerOff'
  OBVIOUS
<1> USE DEF PowerOff, air, ghost
<1>1. CASE Take \/ UNCHANGED vars
  BY <1>1 DEF Take, vars
<1>2. CASE RampStep
  BY <1>2 DEF RampStep, TypeOK
<1>3. CASE Bystander
  BY <1>3, BystanderSession DEF SessionFrame
<1>4. CASE DigPing
  BY <1>4 DEF DigPing
<1>5. CASE CloakPing
  BY <1>5 DEF CloakPing, CloakDigPing, CloakGone, CloakProbe, MppOnly
<1>6. CASE StopPower
  BY <1>6 DEF StopPower
<1>7. CASE FskRespDone
  BY <1>7 DEF FskRespDone
<1>8. ASSUME NEW e, PingTimeout(e) PROVE PowerOff'
  BY <1>8 DEF PingTimeout
<1>9. CASE PktRecvd
  <2>0. PICK p \in Rx : Packets(p)
    BY <1>9 DEF PktRecvd
  <2>1. CASE Ept
    BY <2>1 DEF Ept
  <2>2. CASE NegoPhase(p, LateNego(p))
    <3>1. phase' = "IDLE" => phase = "IDLE"
      BY <2>2 DEF NegoPhase, EndOfNego
    <3>2. pwm' = pwm /\ astray \subseteq astray'
      BY <2>2 DEF NegoPhase
    <3> QED
      BY <3>1, <3>2
  <2>3. CASE PingPhase(p) /\ phase = "PING"
    BY <2>3 DEF PingPhase
  <2>4. CASE CnfgCfg /\ phase = "CNFG"
    BY <2>4 DEF CnfgCfg
  <2>5. CASE CnfgOther(p) /\ phase = "CNFG"
    BY <2>5, CnfgOtherData
  <2>6. CASE XferBpp(p)
    BY <2>6 DEF XferBpp
  <2>7. CASE XferMpp(p) /\ phase = "XFER"
    BY <2>7 DEF XferMpp
  <2>8. CASE CloakPhase(p) /\ phase = "CLOAK"
    BY <2>8 DEF CloakPhase
  <2>9. CASE UNCHANGED <<phase, pwm, pingType, rx, renego, cloak, cloakDone, tm, ghost>>
    BY <2>9
  <2> QED
    BY <2>0, <2>1, <2>2, <2>3, <2>4, <2>5, <2>6, <2>7, <2>8, <2>9, PacketCases
<1> QED
  BY <1>1, <1>2, <1>3, <1>4, <1>5, <1>6, <1>7, <1>8, <1>9, Cases

\* The coil is off in IDLE, but for the strays that PowerOff names.
THEOREM OffInIdle == Spec => []PowerOff
<1>1. Init => PowerOff
  BY DEF Init, PowerOff
<1> QED
  BY <1>1, OffStep, OnlyMpp, TypeCorrect, PTL DEF Spec

-----------------------------------------------------------------------------
\* Who may change the ping timer: neither a bystander nor a late end of negotiation.
LEMMA BystanderPing == TypeTimer /\ Bystander => tm'["PING"] = tm["PING"]
<1> SUFFICES ASSUME TypeTimer, Bystander PROVE tm'["PING"] = tm["PING"]
  OBVIOUS
<1> USE DEF TypeTimer, Timer
<1>1. ASSUME NEW e, NEW timers, Continue(e, timers) PROVE tm' \in timers
  BY <1>1 DEF Continue
<1>2. CASE PchTo \/ Wnd \/ AuthDone \/ HdrStart
  <2>1. tm' \in {tm, Set("NEXT", "WND"), Set("NEXT", "CNFG_NEXT_PKT_TO")}
    BY <1>1, <1>2 DEF PchTo, Wnd, AuthDone, HdrStart
  <2> QED
    BY <2>1 DEF Set
<1>3. CASE HdrRecvd
  <2>1. tm' \in {tm, Set("NEXT", "PING_1st_PKT_TO"), Set("CEP", "CEP_TO"),
                 Set("RPP", "RPP_TO"), Set("NEXT", "PIN_NO_PKT")}
    BY <1>3 DEF HdrRecvd, Continue
  <2> QED
    BY <2>1 DEF Set
<1>4. ASSUME NEW t \in Timer, Expire(t) PROVE tm'["PING"] = tm["PING"]
  BY <1>4 DEF Expire
<1>5. ASSUME \/ \E e \in Timeouts : Timeout(e)
             \/ Pfod \/ Decode \/ FskDone \/ OtherStop
      PROVE  tm' = tm
  BY <1>5 DEF Timeout, Pfod, Decode, FskDone, OtherStop
<1> QED
  BY <1>2, <1>3, <1>4, <1>5 DEF Bystander

LEMMA IdlePacket ==
    ASSUME TypeTimer, IdlePings, PktRecvd PROVE IdlePings'
<1> USE DEF IdlePings, ghost
<1>0. PICK p \in Rx : Packets(p)
  BY DEF PktRecvd
<1>1. CASE Ept
  BY <1>1 DEF Ept
<1>2. CASE NegoPhase(p, LateNego(p))
  <2>1. phase' = "IDLE" => phase = "IDLE"
    BY <1>2 DEF NegoPhase, EndOfNego
  <2>2. phase' = "IDLE" => tm' \in {tm, Clear({"NEXT"})}
    BY <1>2 DEF NegoPhase, EndOfNego
  <2>3. Clear({"NEXT"})["PING"] = tm["PING"]
    BY DEF Clear, TypeTimer, Timer
  <2>4. astray \subseteq astray'
    BY <1>2 DEF NegoPhase
  <2> QED
    BY <2>1, <2>2, <2>3, <2>4
<1>3. PingPhase(p) /\ phase = "PING" => phase' # "IDLE"
  BY DEF PingPhase
<1>4. CnfgCfg /\ phase = "CNFG" => phase' # "IDLE"
  BY DEF CnfgCfg
<1>5. CnfgOther(p) /\ phase = "CNFG" => phase' # "IDLE"
  BY CnfgOtherData
<1>6. XferBpp(p) /\ phase = "XFER" => phase' # "IDLE"
  BY DEF XferBpp
<1>7. XferMpp(p) /\ phase = "XFER" => phase' # "IDLE"
  BY DEF XferMpp
<1>8. CloakPhase(p) /\ phase = "CLOAK" => phase' # "IDLE"
  BY DEF CloakPhase
<1>9. CASE UNCHANGED <<phase, pwm, pingType, rx, renego, cloak, cloakDone, tm, ghost>>
  BY <1>9
<1> QED
  BY <1>0, <1>1, <1>2, <1>3, <1>4, <1>5, <1>6, <1>7, <1>8, <1>9, PacketCases

LEMMA IdlePingsStep == IdlePings /\ MppOnly /\ TypeOK /\ [Next]_vars => IdlePings'
<1> SUFFICES ASSUME IdlePings, MppOnly, TypeOK, TypeTimer, [Next]_vars PROVE IdlePings'
  BY TypeParts
<1> USE DEF IdlePings, ghost
<1>1. CASE Take \/ UNCHANGED vars
  BY <1>1 DEF Take, vars
<1>2. CASE RampStep
  BY <1>2 DEF RampStep
<1>3. CASE Bystander
  BY <1>3, BystanderSession, BystanderPing DEF SessionFrame
<1>4. CASE DigPing
  BY <1>4 DEF DigPing
<1>5. CASE CloakPing
  <2>1. tm' = [tm EXCEPT !.NEXT = "off", !.PING = "DIG_PING"] => tm'["PING"] = "DIG_PING"
    BY DEF TypeTimer, Timer
  <2> QED
    BY <1>5, <2>1 DEF CloakPing, CloakDigPing, CloakGone, CloakProbe, MppOnly
<1>6. CASE StopPower
  <2>1. ~cloak => PingAgain(Clear({"NEXT", "CEP", "RPP"}))["PING"] = "DIG_PING"
    BY DEF PingAgain, Clear, Timer
  <2> QED
    BY <1>6, <2>1 DEF StopPower
<1>7. CASE FskRespDone
  BY <1>7 DEF FskRespDone
<1>8. ASSUME NEW e, PingTimeout(e) PROVE IdlePings'
  BY <1>8 DEF PingTimeout
<1>9. CASE PktRecvd
  BY <1>9, IdlePacket
<1> QED
  BY <1>1, <1>2, <1>3, <1>4, <1>5, <1>6, <1>7, <1>8, <1>9, Cases

\* However a session ends, the idle transmitter's ping timer is armed to ping again,
\* unless an acknowledgement of cloak has completed in IDLE.
THEOREM PingsInIdle == Spec => []IdlePings
<1>1. Init => IdlePings
  BY DEF Init, IdlePings, Timer
<1> QED
  BY <1>1, IdlePingsStep, OnlyMpp, TypeCorrect, PTL DEF Spec

-----------------------------------------------------------------------------
\* The count of optional packets, which wraps at both ends.
LEMMA CountUp ==
    ASSUME NEW x \in 0 .. OptMod-1
    PROVE  (x + 1) % OptMod = IF x = OptMod-1 THEN 0 ELSE x + 1
  BY WpcAssumption

LEMMA CountDown ==
    ASSUME NEW x \in 0 .. OptMod-1, NEW k \in {1, 2}
    PROVE  (x - k) % OptMod = IF k <= x THEN x - k ELSE x - k + OptMod
  BY WpcAssumption

\* What Identified needs.  In CNFG either the count is in step with the packets
\* accepted, or a configuration packet came too early: the count has wrapped below
\* zero, where it fits no configuration packet, and it can be counted up to zero again
\* at most once before the pending stop is handled, as that one packet is the only one
\* handled before the stop.
Complete == "ID" \in known /\ (ext => "XID" \in known)

InStep == (opt_cnt # 0 => "ID" \in known) /\ (ext /\ 2 <= opt_cnt => "XID" \in known)

Wrapped == opt_cnt = OptMod-1 \/ opt_cnt = OptMod-2

Doomed ==
    \/ Wrapped /\ "STOP_POWER" \in posted /\ "PKT_RECVD" \notin batch
    \/ Wrapped /\ "STOP_POWER" \in batch
    \/ "STOP_POWER" \in batch /\ "PKT_RECVD" \notin batch

CompleteLater == phase \in {"NEGO", "XFER", "CLOAK"} \/ endNego => Complete
CountedInCnfg == phase = "CNFG" => InStep \/ Doomed
IdentInv == CompleteLater /\ CountedInCnfg

\* Nothing but the stop itself takes a stop away.
LEMMA DoomedFrame ==
    ASSUME Doomed, QueueFrame, opt_cnt' = opt_cnt PROVE Doomed'
  BY DEF Doomed, QueueFrame, Wrapped

LEMMA PacketQueue ==
    ASSUME PktRecvd, posted' = posted \/ Stop
    PROVE  /\ "PKT_RECVD" \in batch /\ "PKT_RECVD" \notin batch'
           /\ "STOP_POWER" \in batch => "STOP_POWER" \in batch'
  BY DEF PktRecvd, Handling

LEMMA CnfgCfgCounts ==
    ASSUME TypeData, TypeFlags, CountedInCnfg, phase = "CNFG", PktRecvd, CnfgCfg
    PROVE  /\ phase' = "CNFG" => InStep' \/ Doomed'
           /\ phase' \in {"NEGO", "XFER"} => Complete'
           /\ phase' \in {"CNFG", "NEGO", "XFER"}
<1> DEFINE k == IF ext THEN 2 ELSE 1
<1>0. opt_cnt \in 0 .. OptMod-1 /\ ext \in BOOLEAN
  BY DEF TypeData, TypeFlags
<1>1. OptLeft = IF k <= opt_cnt THEN opt_cnt - k ELSE opt_cnt - k + OptMod
  BY <1>0, CountDown DEF OptLeft
<1>2. UNCHANGED <<ext, known>>
  BY DEF CnfgCfg, ghost
<1>3. InStep \/ (Wrapped /\ "STOP_POWER" \in batch)
  <2>1. "PKT_RECVD" \in batch
    BY DEF PktRecvd, Handling
  <2> QED
    BY <2>1 DEF CountedInCnfg, Doomed
<1>4. CASE Stop /\ phase' = phase /\ opt_cnt' = OptLeft
  <2>1. CASE InStep /\ k <= opt_cnt
    BY <1>0, <1>1, <1>2, <1>4, <2>1 DEF InStep
  <2>2. CASE InStep /\ opt_cnt < k
    <3>1. Wrapped'
      BY <1>0, <1>1, <1>4, <2>2, WpcAssumption DEF Wrapped
    <3>2. "STOP_POWER" \in posted' /\ "PKT_RECVD" \notin batch'
      BY <1>4 DEF Stop, Post, PktRecvd, Handling
    <3> QED
      BY <1>4, <3>1, <3>2 DEF Doomed
  <2>3. CASE "STOP_POWER" \in batch
    BY <1>4, <2>3, PacketQueue DEF Doomed
  <2>4. k <= opt_cnt \/ opt_cnt < k
    BY <1>0
  <2> QED
    BY <1>3, <2>1, <2>2, <2>3, <2>4
<1>5. CASE OptLeft \in CfgCount /\ phase' \in {"NEGO", "XFER"}
  <2>1. OptLeft + 4 < OptMod
    BY <1>5, WpcAssumption
  <2>2. k <= opt_cnt /\ ~Wrapped
    BY <1>0, <1>1, <2>1, WpcAssumption DEF Wrapped
  <2>3. Complete
    BY <1>0, <1>3, <2>2 DEF InStep, Complete
  <2> QED
    BY <1>2, <1>5, <2>3 DEF Complete
<1> QED
  <2>1. \/ Stop /\ phase' = phase /\ opt_cnt' = OptLeft
        \/ OptLeft \in CfgCount /\ phase' \in {"NEGO", "XFER"}
    BY DEF CnfgCfg
  <2> QED
    BY <1>4, <1>5, <2>1

LEMMA CnfgOtherCounts ==
    ASSUME NEW p, TypeData, TypeFlags, CountedInCnfg, phase = "CNFG", PktRecvd, CnfgOther(p)
    PROVE  phase' = "CNFG" /\ (InStep' \/ Doomed')
<1>0. opt_cnt \in 0 .. OptMod-1 /\ ext \in BOOLEAN
  BY DEF TypeData, TypeFlags
<1>1. phase' = "CNFG"
  BY CnfgOtherData
<1>2. CASE InStep
  <2>1. CASE p \notin CnfgIllegal /\ p # "PCHX" /\ InSequence(p)
    <3>1. opt_cnt' = IF opt_cnt = OptMod-1 THEN 0 ELSE opt_cnt + 1
      BY <1>0, <2>1, CountUp DEF CnfgOther
    <3>2. CASE p \in {"ID", "IDX"}
      <4>1. opt_cnt' = 1
        BY <2>1, <3>1, <3>2, WpcAssumption DEF InSequence
      <4>2. "ID" \in known'
        BY <2>1, <3>2 DEF CnfgOther
      <4> QED
        BY <1>1, <4>1, <4>2 DEF InStep
    <3>3. CASE p \in {"XID", "XIDM", "XIDR"}
      <4>1. opt_cnt = 1
        BY <2>1, <3>3 DEF InSequence
      <4>2. known' = known \cup {"XID"}
        BY <2>1, <3>3 DEF CnfgOther
      <4> QED
        BY <1>1, <1>2, <4>1, <4>2 DEF InStep
    <3>4. CASE p \notin {"ID", "IDX", "XID", "XIDM", "XIDR"}
      <4>1. opt_cnt # 0 /\ ~(opt_cnt = 1 /\ ext)
        BY <2>1, <3>4 DEF InSequence
      <4>2. ext' = ext
        BY <2>1, <3>4 DEF CnfgOther
      <4>3. known' = known
        BY <2>1, <3>4 DEF CnfgOther
      <4> QED
        BY <1>0, <1>1, <1>2, <3>1, <4>1, <4>2, <4>3 DEF InStep
    <3> QED
      BY <3>2, <3>3, <3>4
  <2>2. CASE ~(p \notin CnfgIllegal /\ p # "PCHX" /\ InSequence(p))
    BY <1>1, <1>2, <2>2 DEF CnfgOther, rx, InStep
  <2> QED
    BY <2>1, <2>2
<1>3. CASE "STOP_POWER" \in batch
  BY <1>1, <1>3 DEF Doomed, PktRecvd, Handling
<1> QED
  BY <1>2, <1>3 DEF CountedInCnfg, Doomed, PktRecvd, Handling

LEMMA CnfgPacket ==
    ASSUME TypeData, TypeFlags, IdentInv, phase = "CNFG", PktRecvd
    PROVE  IdentInv'
<1>0. PICK p \in Rx : Packets(p)
  BY DEF PktRecvd
<1>1. CASE Ept
  <2>1. UNCHANGED <<phase, opt_cnt, ext, endNego, known>>
    BY <1>1 DEF Ept, rx, ghost
  <2>2. posted' = posted \/ Stop
    BY <1>1 DEF Ept
  <2>3. CASE InStep
    BY <2>1, <2>3 DEF IdentInv, CompleteLater, CountedInCnfg, InStep, Complete
  <2>4. CASE Doomed
    <3>1. Doomed'
      BY <2>2, <2>4, PacketQueue DEF Doomed
    <3> QED
      BY <2>1, <3>1 DEF IdentInv, CompleteLater, CountedInCnfg, Complete
  <2> QED
    BY <2>3, <2>4 DEF IdentInv, CountedInCnfg
<1>2. CASE NegoPhase(p, LateNego(p)) /\ LateNego(p)
  <2>1. Complete
    BY <1>2 DEF LateNego, IdentInv, CompleteLater
  <2>2. UNCHANGED <<ext, known, opt_cnt>>
    BY <1>2 DEF NegoPhase
  <2>3. "ID" \in known' /\ (ext' => "XID" \in known')
    BY <2>1, <2>2 DEF Complete
  <2> QED
    BY <2>3 DEF IdentInv, CompleteLater, CountedInCnfg, Complete, InStep
<1>3. CASE endNego' = FALSE /\ CnfgCfg
  BY <1>3, CnfgCfgCounts DEF IdentInv, CompleteLater, CountedInCnfg
<1>4. CASE endNego' = FALSE /\ CnfgOther(p)
  BY <1>4, CnfgOtherCounts DEF IdentInv, CompleteLater, CountedInCnfg
<1> QED
  <2>1. \/ Ept
        \/ NegoPhase(p, LateNego(p)) /\ LateNego(p)
        \/ endNego' = FALSE /\ CnfgCfg
        \/ endNego' = FALSE /\ CnfgOther(p)
    BY <1>0 DEF Packets
  <2> QED
    BY <1>1, <1>2, <1>3, <1>4, <2>1

\* In the other phases nothing is learnt, but for what the strength packet forgets.
LEMMA OtherPacket ==
    ASSUME IdentInv, phase # "CNFG", PktRecvd PROVE IdentInv'
<1>0. PICK p \in Rx : Packets(p)
  BY DEF PktRecvd
<1> USE DEF IdentInv, CompleteLater, CountedInCnfg, Complete, rx, ghost
<1>1. CASE Ept
  BY <1>1 DEF Ept
<1>2. CASE NegoPhase(p, LateNego(p)) /\ (phase = "NEGO" \/ LateNego(p))
  <2>1. Complete
    BY <1>2 DEF LateNego
  <2>2. UNCHANGED <<ext, known>>
    BY <1>2 DEF NegoPhase
  <2>3. phase' # "CNFG"
    BY <1>2 DEF NegoPhase, EndOfNego
  <2> QED
    BY <2>1, <2>2, <2>3
<1>3. CASE endNego' = FALSE /\ phase = "PING" /\ PingPhase(p)
  BY <1>3 DEF PingPhase, Forget, InStep
<1>6. CASE endNego' = FALSE /\ phase = "XFER" /\ XferBpp(p)
  BY <1>6 DEF XferBpp
<1>7. CASE endNego' = FALSE /\ phase = "XFER" /\ XferMpp(p)
  BY <1>7 DEF XferMpp
<1>8. CASE endNego' = FALSE /\ phase = "CLOAK" /\ CloakPhase(p)
  BY <1>8 DEF CloakPhase
<1>9. CASE /\ endNego' = FALSE
           /\ UNCHANGED <<phase, pwm, pingType, rx, renego, cloak, cloakDone, tm, ghost>>
  BY <1>9
<1> QED
  BY <1>0, <1>1, <1>2, <1>3, <1>6, <1>7, <1>8, <1>9, PacketCases

LEMMA IdentFrame ==
    ASSUME IdentInv, QueueFrame, UNCHANGED <<phase, opt_cnt, ext, endNego, known>>
    PROVE  IdentInv'
<1>1. Doomed => Doomed'
  BY DoomedFrame
<1>2. InStep => InStep'
  BY DEF InStep
<1> QED
  BY <1>1, <1>2 DEF IdentInv, CompleteLater, CountedInCnfg, Complete

LEMMA IdentStep == IdentInv /\ MppOnly /\ TypeOK /\ [Next]_vars => IdentInv'
<1> SUFFICES ASSUME IdentInv, MppOnly, TypeOK, TypeData, TypeFlags, [Next]_vars PROVE IdentInv'
  BY TypeParts
<1> USE DEF rx, flags, ghost
<1>1. CASE Take
  <2>1. UNCHANGED <<phase, opt_cnt, ext, endNego, known>>
    BY <1>1 DEF Take
  <2>2. Doomed => Doomed'
    BY <1>1, <2>1 DEF Take, Doomed, Wrapped
  <2>3. InStep => InStep'
    BY <2>1 DEF InStep
  <2> QED
    BY <2>1, <2>2, <2>3 DEF IdentInv, CompleteLater, CountedInCnfg, Complete
<1>2. CASE RampStep \/ UNCHANGED vars
  <2>1. UNCHANGED <<phase, opt_cnt, ext, endNego, known>>
    BY <1>2 DEF RampStep, vars
  <2>2. QueueFrame
    BY <1>2 DEF RampStep, vars, queue, QueueFrame
  <2> QED
    BY <2>1, <2>2, IdentFrame
<1>3. CASE Bystander
  BY <1>3, BystanderSession, BystanderQueue, IdentFrame DEF SessionFrame
<1>4. CASE DigPing
  <2>1. CASE phase' = phase
    <3>1. UNCHANGED <<phase, opt_cnt, ext, endNego, known>>
      BY <1>4, <2>1 DEF DigPing
    <3>2. QueueFrame
      BY <1>4, HandlingFrame DEF DigPing
    <3> QED
      BY <3>1, <3>2, IdentFrame
  <2>2. CASE phase' # phase
    BY <1>4, <2>2 DEF DigPing, IdentInv, CompleteLater, CountedInCnfg, Complete
  <2> QED
    BY <2>1, <2>2
<1>5. CASE CloakPing
  <2>1. UNCHANGED <<opt_cnt, ext, endNego, known>>
    BY <1>5 DEF CloakPing
  <2>2. QueueFrame
    BY <1>5, HandlingFrame DEF CloakPing
  <2>3. \/ phase' = phase
        \/ phase' \in {"CLOAK", "IDLE"} /\ cloak
    BY <1>5 DEF CloakPing, CloakDigPing, CloakGone, CloakProbe
  <2>4. CASE phase' = phase
    BY <2>1, <2>2, <2>4, IdentFrame
  <2>5. CASE phase' \in {"CLOAK", "IDLE"} /\ cloak
    BY <2>1, <2>5 DEF IdentInv, CompleteLater, CountedInCnfg, Complete, MppOnly
  <2> QED
    BY <2>3, <2>4, <2>5
<1>6. CASE StopPower
  <2>1. UNCHANGED <<opt_cnt, ext, endNego, known>>
    BY <1>6 DEF StopPower
  <2>2. \/ phase = "IDLE" /\ phase' = phase
        \/ phase' = "IDLE"
        \/ phase' = "CLOAK" /\ cloak
    BY <1>6 DEF StopPower
  <2> QED
    BY <2>1, <2>2 DEF IdentInv, CompleteLater, CountedInCnfg, Complete, MppOnly
<1>7. CASE FskRespDone
  <2>1. UNCHANGED <<phase, opt_cnt, ext, endNego, known>>
    BY <1>7 DEF FskRespDone
  <2>2. QueueFrame
    BY <1>7, HandlingFrame DEF FskRespDone
  <2> QED
    BY <2>1, <2>2, IdentFrame
<1>8. ASSUME NEW e \in {"PIN_NO_PKT", "PING_1st_PKT_TO"}, PingTimeout(e) PROVE IdentInv'
  <2>1. UNCHANGED <<phase, opt_cnt, ext, endNego, known>>
    BY <1>8 DEF PingTimeout
  <2>2. QueueFrame
    BY <1>8, HandlingFrame DEF PingTimeout
  <2> QED
    BY <2>1, <2>2, IdentFrame
<1>9. CASE PktRecvd
  BY <1>9, CnfgPacket, OtherPacket
<1> QED
  BY <1>1, <1>2, <1>3, <1>4, <1>5, <1>6, <1>7, <1>8, <1>9, Cases

\* No receiver reaches negotiation or power transfer unidentified, or without the
\* extension it announced, whatever the width of the count that wraps.
THEOREM IdentifiedFirst == Spec => []Identified
<1>1. Init => IdentInv
  BY DEF Init, IdentInv, CompleteLater, CountedInCnfg
<1>2. IdentInv => Identified
  BY DEF IdentInv, CompleteLater, Complete, Identified
<1> QED
  BY <1>1, <1>2, IdentStep, OnlyMpp, TypeCorrect, PTL DEF Spec

-----------------------------------------------------------------------------
\* What RestrictedAt360 needs: the stop that sends a restricted receiver away from
\* 128 kHz is handled before a second packet, so the one packet before it can take the
\* receiver to power transfer but no further.
SentAway ==
    restricted /\ freq = 128 =>
        /\ phase \notin {"NEGO", "CLOAK"}
        /\ phase = "CNFG" => \/ "STOP_POWER" \in batch
                             \/ "STOP_POWER" \in posted /\ "PKT_RECVD" \notin batch
        /\ phase = "XFER" => "STOP_POWER" \in batch /\ "PKT_RECVD" \notin batch /\ ~cloak

RestrictedInv == SentAway /\ (endNego => ~restricted)

LEMMA RestrictedFrame ==
    ASSUME RestrictedInv, QueueFrame, UNCHANGED <<phase, freq, restricted, endNego, cloak>>
    PROVE  RestrictedInv'
  BY DEF RestrictedInv, SentAway, QueueFrame

LEMMA RestrictedPacket ==
    ASSUME TypeData, MppOnly, RestrictedInv, PktRecvd PROVE RestrictedInv'
<1>0. PICK p \in Rx : Packets(p)
  BY DEF PktRecvd
<1>q. /\ freq' = freq
      /\ "PKT_RECVD" \in batch /\ "PKT_RECVD" \notin batch'
      /\ "STOP_POWER" \in batch => "STOP_POWER" \in batch'
  BY DEF PktRecvd, Handling
<1>f. freq \in {128, 360}
  BY DEF TypeData
<1> USE DEF RestrictedInv, SentAway, rx
<1>1. CASE Ept
  BY <1>q, <1>1 DEF Ept
<1>2. CASE NegoPhase(p, LateNego(p)) /\ (phase = "NEGO" \/ LateNego(p))
  <2>1. restricted' = restricted \/ restricted' = FALSE
    BY <1>2 DEF NegoPhase, EndOfNego
  <2>2. endNego' => restricted' = FALSE
    BY <1>2 DEF NegoPhase, EndOfNego
  <2>3. restricted => phase = "NEGO"
    BY <1>2 DEF LateNego
  <2> QED
    BY <1>q, <1>f, <2>1, <2>2, <2>3
<1>3. CASE endNego' = FALSE /\ PingPhase(p) /\ phase = "PING"
  BY <1>3 DEF PingPhase, Forget
<1>4. CASE endNego' = FALSE /\ CnfgCfg /\ phase = "CNFG"
  <2>1. restricted' = restricted /\ cloak' = cloak
    BY <1>4 DEF CnfgCfg
  <2>2. CASE Stop /\ phase' = "CNFG"
    BY <1>q, <1>4, <2>1, <2>2 DEF Stop, Post
  <2>3. CASE phase' = "NEGO" /\ ~restricted
    BY <1>4, <2>1, <2>3
  <2>4. CASE phase' = "XFER"
    BY <1>q, <1>4, <2>1, <2>4 DEF MppOnly
  <2> QED
    BY <1>4, <2>2, <2>3, <2>4 DEF CnfgCfg, Negotiates
<1>5. CASE endNego' = FALSE /\ CnfgOther(p) /\ phase = "CNFG"
  <2>1. phase' = "CNFG"
    BY <1>5, CnfgOtherData
  <2>2. restricted' /\ freq = 128 => Stop \/ (restricted /\ posted' = posted)
    BY <1>5 DEF CnfgOther
  <2> QED
    BY <1>q, <1>5, <2>1, <2>2 DEF Stop, Post
<1>6. CASE endNego' = FALSE /\ XferBpp(p) /\ phase = "XFER"
  BY <1>q, <1>6 DEF XferBpp
<1>7. CASE endNego' = FALSE /\ XferMpp(p) /\ phase = "XFER"
  BY <1>q, <1>f, <1>7 DEF XferMpp
<1>8. CASE endNego' = FALSE /\ CloakPhase(p) /\ phase = "CLOAK"
  BY <1>q, <1>f, <1>8 DEF CloakPhase
<1>9. CASE /\ endNego' = FALSE /\ Quiet
           /\ UNCHANGED <<phase, pwm, pingType, rx, renego, cloak, cloakDone, tm, ghost>>
  BY <1>q, <1>9 DEF Quiet
<1> HIDE DEF RestrictedInv, SentAway, rx
<1> QED
  BY <1>0, <1>1, <1>2, <1>3, <1>4, <1>5, <1>6, <1>7, <1>8, <1>9, PacketCases

LEMMA RestrictedStep == RestrictedInv /\ MppOnly /\ TypeOK /\ [Next]_vars => RestrictedInv'
<1> SUFFICES ASSUME RestrictedInv, MppOnly, TypeOK, TypeData, [Next]_vars PROVE RestrictedInv'
  BY TypeParts
<1> USE DEF air, rx, flags
<1>1. CASE Take
  BY <1>1 DEF Take, RestrictedInv, SentAway
<1>2. CASE RampStep \/ UNCHANGED vars
  <2>1. UNCHANGED <<phase, freq, restricted, endNego, cloak>>
    BY <1>2 DEF RampStep, vars
  <2>2. QueueFrame
    BY <1>2 DEF RampStep, vars, queue, QueueFrame
  <2> QED
    BY <2>1, <2>2, RestrictedFrame
<1>3. CASE Bystander
  BY <1>3, BystanderSession, BystanderQueue, RestrictedFrame DEF SessionFrame
<1>4. CASE DigPing
  <2>1. CASE phase' = phase
    <3>1. UNCHANGED <<phase, freq, restricted, endNego, cloak>>
      BY <1>4, <2>1 DEF DigPing
    <3>2. QueueFrame
      BY <1>4, HandlingFrame DEF DigPing
    <3> QED
      BY <3>1, <3>2, RestrictedFrame
  <2>2. CASE phase' # phase
    BY <1>4, <2>2 DEF DigPing, RestrictedInv, SentAway
  <2> QED
    BY <2>1, <2>2
<1>5. CASE CloakPing
  <2>1. UNCHANGED <<restricted, endNego>>
    BY <1>5 DEF CloakPing
  <2>2. QueueFrame
    BY <1>5, HandlingFrame DEF CloakPing
  <2>3. \/ UNCHANGED <<phase, freq, cloak>>
        \/ freq' = 360
        \/ phase' = "IDLE"
    BY <1>5 DEF CloakPing, CloakDigPing, CloakGone, CloakProbe
  <2>4. CASE UNCHANGED <<phase, freq, cloak>>
    BY <2>1, <2>2, <2>4, RestrictedFrame
  <2>5. CASE freq' = 360 \/ phase' = "IDLE"
    BY <2>1, <2>5 DEF RestrictedInv, SentAway
  <2> QED
    BY <2>3, <2>4, <2>5
<1>6. CASE StopPower
  <2>1. UNCHANGED <<freq, restricted, endNego>>
    BY <1>6 DEF StopPower
  <2>2. phase' = "IDLE" \/ (phase' = "CLOAK" /\ cloak)
    BY <1>6 DEF StopPower
  <2> QED
    BY <2>1, <2>2 DEF RestrictedInv, SentAway, MppOnly
<1>7. CASE FskRespDone
  <2>1. UNCHANGED <<phase, freq, restricted, endNego, cloak>>
    BY <1>7 DEF FskRespDone
  <2>2. QueueFrame
    BY <1>7, HandlingFrame DEF FskRespDone
  <2> QED
    BY <2>1, <2>2, RestrictedFrame
<1>8. ASSUME NEW e \in {"PIN_NO_PKT", "PING_1st_PKT_TO"}, PingTimeout(e) PROVE RestrictedInv'
  <2>1. UNCHANGED <<phase, freq, restricted, endNego>> /\ cloak' = FALSE
    BY <1>8 DEF PingTimeout
  <2>2. QueueFrame
    BY <1>8, HandlingFrame DEF PingTimeout
  <2> QED
    BY <2>1, <2>2 DEF RestrictedInv, SentAway, QueueFrame
<1>9. CASE PktRecvd
  BY <1>9, RestrictedPacket
<1> QED
  BY <1>1, <1>2, <1>3, <1>4, <1>5, <1>6, <1>7, <1>8, <1>9, Cases

\* Power transfer to a restricted receiver runs at 360 kHz, or a stop is pending.
THEOREM RestrictedGetsFrequency == Spec => []RestrictedAt360
<1>1. Init => RestrictedInv
  BY DEF Init, RestrictedInv, SentAway
<1>2. TypeOK /\ RestrictedInv => RestrictedAt360
  BY TypeParts DEF RestrictedInv, SentAway, RestrictedAt360, TypeData, Pending
<1> QED
  BY <1>1, <1>2, RestrictedStep, OnlyMpp, TypeCorrect, PTL DEF Spec

\* Who gets power has been identified, and gets it at 360 kHz if it is restricted.
THEOREM Admission == Spec => []Admitted
BY IdentifiedFirst, RestrictedGetsFrequency, PTL DEF Admitted

\* The idle transmitter is silent and pings again, but for the strays named.
THEOREM IdleSilentAndPinging == Spec => []IdleIsIdle
BY OffInIdle, PingsInIdle, PTL DEF IdleIsIdle

\* The phases are taken in order, and those of MPP with an MPP receiver only.
THEOREM SessionsInOrder == Spec => SessionOrder
BY OrderOfPhases, OnlyMpp, PTL DEF SessionOrder

-----------------------------------------------------------------------------
\* Attended.  What supervises a driven coil is of two kinds.  In power transfer, and in
\* a renegotiation, it is a timer that only a stop or the next such timer takes away.
\* In the other phases it is the one timer that the phases share, or the end of an
\* acknowledgement: these can be taken away by a late end of the silence before a power
\* measurement, PCH_TO, or by a window, WND; there must be none about.
Clean == astray \cap {"relit", "left", "reason"} = {}

NoneLate == {"PCH_TO", "WND"} \cap (posted \cup batch \cup {tm["NEXT"]}) = {}

Sure ==
    \/ Pending \cap Ending # {}
    \/ tm["CEP"] = "CEP_TO"
    \/ phase = "NEGO" /\ tm["NEGO"] = "RENEGO_TO"

Watched ==
    /\ phase # "XFER" /\ NoneLate
    /\ \/ tm["NEXT"] \in Ending
       \/ cloakDone /\ (fsk \/ "FSK_RESP_DONE" \in Pending)

Guarded == pwm /\ phase # "IDLE" /\ Clean => Sure \/ Watched

\* None is about when a ping begins: a timer expires between batches only, a ping is the
\* first of its batch, and a stop forgets the timer.
Kinds ==
    /\ tm["CEP"] \in {"off", "CEP_TO"} /\ tm["RPP"] \in {"off", "RPP_TO"}
    /\ tm["NEGO"] \in {"off", "RENEGO_TO", "SE_IC_TBS_AUTH"}
    /\ tm["PING"] \in {"off", "DIG_PING", "CLOAK_PING"}
    /\ tm["NEXT"] # "DIG_PING"

OnlyStops == batch # {} => posted \subseteq {"STOP_POWER", "FSK_RESP_DONE"}

AtRest ==
    phase = "IDLE" =>
        /\ tm["NEXT"] # "PCH_TO"
        /\ ask = "on" \/ "DIG_PING" \in Pending => NoneLate

Driven == phase \in {"PING", "CNFG"} => pwm

\* The bits that the order of a batch is about
LEMMA Bits ==
    /\ Bit("DIG_PING") = 1 /\ Bit("PCH_TO") = 12 /\ Bit("WND") = 13 /\ Bit("CLOAK_PING") = 18
    /\ \A e \in Evt : Bit(e) \in 1 .. 20 /\ Order[Bit(e)] = e
<1>1. \A e \in Evt : Bit(e) \in 1 .. 20 /\ Order[Bit(e)] = e
  <2> SUFFICES ASSUME NEW e \in Evt PROVE Bit(e) \in 1 .. 20 /\ Order[Bit(e)] = e
    OBVIOUS
  <2>1. \E i \in 1 .. 20 : Order[i] = e
    BY Zenon DEF Evt
  <2> QED
    BY <2>1, Zenon DEF Bit
<1>2. \A i \in 1 .. 20 : /\ Order[i] = "DIG_PING" => i = 1
                         /\ Order[i] = "PCH_TO" => i = 12
                         /\ Order[i] = "WND" => i = 13
                         /\ Order[i] = "CLOAK_PING" => i = 18
  BY SMTT(30) DEF Order
<1> QED
  BY <1>1, <1>2, EvtMembers

LEMMA PingFirst ==
    ASSUME TypeQueue, NEW e, Handling(e), "DIG_PING" \in batch
    PROVE  e = "DIG_PING"
<1>1. e \in Evt /\ Bit(e) <= 1
  BY Bits DEF Handling, TypeQueue
<1>2. Bit(e) = 1
  BY <1>1, Bits
<1> QED
  BY <1>1, <1>2, Bits, EvtMembers

LEMMA CloakLate ==
    ASSUME Handling("CLOAK_PING")
    PROVE  "PCH_TO" \notin batch /\ "WND" \notin batch
  BY Bits DEF Handling

\* A step is one of the scheduler, of the environment, or handles an event.
Handled == (posted' = posted \/ Stop) /\ \E e : Handling(e)

LEMMA Sorts ==
    ASSUME [Next]_vars
    PROVE  \/ Take \/ RampStep \/ UNCHANGED vars
           \/ (\E t \in Timer : Expire(t)) \/ Decode \/ FskDone \/ OtherStop
           \/ Handled
  BY StopOnly, Cases DEF Bystander, PchTo, Wnd, AuthDone, HdrStart, HdrRecvd, Handled

LEMMA OnlyStopsStep == OnlyStops /\ [Next]_vars => OnlyStops'
<1> SUFFICES ASSUME OnlyStops, [Next]_vars PROVE OnlyStops'
  OBVIOUS
<1> USE DEF OnlyStops
<1>1. CASE Take
  BY <1>1 DEF Take
<1>2. CASE RampStep \/ UNCHANGED vars
  BY <1>2 DEF RampStep, vars, queue
<1>3. CASE (\E t \in Timer : Expire(t)) \/ Decode \/ OtherStop
  BY <1>3 DEF Expire, Decode, OtherStop
<1>4. CASE FskDone
  BY <1>4 DEF FskDone, Post
<1>5. CASE Handled
  BY <1>5 DEF Handled, Handling, Stop, Post
<1> QED
  BY <1>1, <1>2, <1>3, <1>4, <1>5, Sorts

\* The parts of a timer record that handlers change
LEMMA SetIs ==
    ASSUME TypeTimer, NEW t \in Timer, NEW e
    PROVE  Set(t, e)[t] = e /\ \A u \in Timer \ {t} : Set(t, e)[u] = tm[u]
  BY DEF Set, TypeTimer

LEMMA ClearIs ==
    ASSUME NEW S
    PROVE  \A t \in Timer : Clear(S)[t] = IF t \in S THEN "off" ELSE tm[t]
  BY DEF Clear

LEMMA KindsPacket == ASSUME TypeTimer, Kinds, PktRecvd PROVE Kinds'
<1>0. PICK p \in Rx : Packets(p)
  BY DEF PktRecvd
<1> USE DEF Kinds, TypeTimer, Timer
<1>1. Ept => Kinds'
  BY DEF Ept
<1>2. CASE NegoPhase(p, LateNego(p))
  <2>1. \/ tm' = tm \/ tm' = Set("NEXT", "NEGO_NEXT_PKT_TO") \/ tm' = Clear({"NEXT"})
        \/ tm' = Supervise(Clear({"NEXT", "NEGO"}))
    BY <1>2 DEF NegoPhase, EndOfNego, Quiet
  <2> QED
    BY <2>1 DEF Set, Clear, Supervise
<1>3. PingPhase(p) => Kinds'
  BY DEF PingPhase, Set
<1>4. CnfgCfg => Kinds'
  BY DEF CnfgCfg, Set, Supervise
<1>5. CASE CnfgOther(p)
  <2>1. tm' = tm \/ tm' = Set("NEXT", "CNFG_NEXT_1ST_TO")
    BY <1>5 DEF CnfgOther
  <2> QED
    BY <2>1 DEF Set
<1>6. XferBpp(p) => Kinds'
  BY DEF XferBpp
<1>7. XferMpp(p) => Kinds'
  BY ZenonT(40) DEF XferMpp, Set
<1>8. CloakPhase(p) => Kinds'
  BY DEF CloakPhase, Supervise, Quiet
<1> QED
  BY <1>0, <1>1, <1>2, <1>3, <1>4, <1>5, <1>6, <1>7, <1>8, PacketCases

\* What a bystander's handler arms
LEMMA ContinueTimers ==
    /\ PchTo \/ Wnd => tm' = tm \/ tm' = Set("NEXT", "WND")
    /\ AuthDone => tm' = tm
    /\ HdrStart => IF phase = "CNFG" THEN tm' = Set("NEXT", "CNFG_NEXT_PKT_TO") ELSE tm' = tm
    /\ HdrRecvd =>
         \/ tm' = tm
         \/ phase \in {"PING", "CNFG"} /\ tm' = Set("NEXT", "PING_1st_PKT_TO")
         \/ phase \in {"NEGO", "XFER"} /\ tm' \in {Set("CEP", "CEP_TO"), Set("RPP", "RPP_TO")}
         \/ phase = "CLOAK" /\ tm' = Set("NEXT", "PIN_NO_PKT")
<1>1. (PchTo \/ Wnd => tm' = tm \/ tm' = Set("NEXT", "WND")) /\ (AuthDone => tm' = tm)
  BY DEF PchTo, Wnd, AuthDone, Continue
<1>2. HdrStart => IF phase = "CNFG" THEN tm' = Set("NEXT", "CNFG_NEXT_PKT_TO") ELSE tm' = tm
  BY DEF HdrStart, Continue
<1>3. ASSUME HdrRecvd
      PROVE  \/ tm' = tm
             \/ phase \in {"PING", "CNFG"} /\ tm' = Set("NEXT", "PING_1st_PKT_TO")
             \/ phase \in {"NEGO", "XFER"} /\ tm' \in {Set("CEP", "CEP_TO"), Set("RPP", "RPP_TO")}
             \/ phase = "CLOAK" /\ tm' = Set("NEXT", "PIN_NO_PKT")
  <2>1. CASE phase \in {"PING", "CNFG"}
    BY <1>3, <2>1 DEF HdrRecvd, Continue
  <2>2. CASE phase = "NEGO" \/ phase = "XFER"
    BY <1>3, <2>2 DEF HdrRecvd, Continue
  <2>3. CASE phase = "CLOAK"
    BY <1>3, <2>3 DEF HdrRecvd, Continue
  <2>4. CASE phase \notin {"PING", "CNFG", "NEGO", "XFER", "CLOAK"}
    BY <1>3, <2>4 DEF HdrRecvd, Continue
  <2> QED
    BY <2>1, <2>2, <2>3, <2>4
<1> QED
  BY <1>1, <1>2, <1>3

LEMMA KindsStep == Kinds /\ TypeTimer /\ [Next]_vars => Kinds'
<1> SUFFICES ASSUME Kinds, TypeTimer, [Next]_vars PROVE Kinds'
  OBVIOUS
<1> USE DEF Kinds, TypeTimer, Timer
<1>1. CASE Take \/ RampStep \/ UNCHANGED vars \/ Decode \/ FskDone \/ OtherStop \/ Pfod
  BY <1>1 DEF Take, RampStep, vars, Decode, FskDone, OtherStop, Pfod
<1>2. CASE DigPing
  <2>1. tm' \in {tm, [tm EXCEPT !.NEXT = "PIN_NO_PKT", !.PING = "off"]}
    BY <1>2 DEF DigPing
  <2> QED
    BY <2>1
<1>3. CASE CloakPing
  <2>1. tm' \in {tm, [tm EXCEPT !.NEXT = "PIN_NO_PKT", !.PING = "off"],
                 [tm EXCEPT !.NEXT = "off", !.PING = "DIG_PING"]}
    BY <1>3 DEF CloakPing, CloakDigPing, CloakGone, CloakProbe
  <2> QED
    BY <2>1
<1>4. CASE StopPower
  <2>1. tm' = tm \/ tm' = PingAgain(Clear({"NEXT", "CEP", "RPP"}))
    BY <1>4 DEF StopPower
  <2> QED
    BY <2>1 DEF PingAgain, Clear
<1>5. CASE FskRespDone
  BY <1>5 DEF FskRespDone
<1>6. ASSUME NEW e, PingTimeout(e) \/ Timeout(e) PROVE Kinds'
  BY <1>6 DEF PingTimeout, Timeout
<1>7. CASE PchTo \/ Wnd \/ AuthDone \/ HdrStart \/ HdrRecvd
  <2>1. tm' \in {tm, Set("NEXT", "WND"), Set("NEXT", "CNFG_NEXT_PKT_TO"),
                 Set("NEXT", "PING_1st_PKT_TO"), Set("CEP", "CEP_TO"),
                 Set("RPP", "RPP_TO"), Set("NEXT", "PIN_NO_PKT")}
    BY <1>7, ContinueTimers
  <2> QED
    BY <2>1 DEF Set
<1>8. ASSUME NEW t \in Timer, Expire(t) PROVE Kinds'
  BY <1>8 DEF Expire
<1> QED
  BY <1>1, <1>2, <1>3, <1>4, <1>5, <1>6, <1>7, <1>8, KindsPacket, Cases DEF Bystander

LEMMA DrivenStep == Driven /\ MppOnly /\ TypeOK /\ [Next]_vars => Driven'
<1> SUFFICES ASSUME Driven, MppOnly, TypeOK, [Next]_vars PROVE Driven'
  OBVIOUS
<1> USE DEF Driven, air, ghost
<1>1. CASE Take \/ UNCHANGED vars
  BY <1>1 DEF Take, vars
<1>2. CASE RampStep
  BY <1>2 DEF RampStep
<1>3. CASE Bystander
  BY <1>3, BystanderSession DEF SessionFrame
<1>4. CASE DigPing
  BY <1>4 DEF DigPing
<1>5. CASE CloakPing
  BY <1>5 DEF CloakPing, CloakDigPing, CloakGone, CloakProbe, MppOnly
<1>6. CASE StopPower
  BY <1>6 DEF StopPower
<1>7. CASE FskRespDone
  BY <1>7 DEF FskRespDone
<1>8. ASSUME NEW e, PingTimeout(e) PROVE Driven'
  BY <1>8 DEF PingTimeout
<1>9. CASE PktRecvd
  <2>0. PICK p \in Rx : Packets(p)
    BY <1>9 DEF PktRecvd
  <2>1. CASE Ept
    BY <2>1 DEF Ept
  <2>2. CASE NegoPhase(p, LateNego(p))
    <3>1. phase' \in {phase, "NEGO", "XFER"} /\ pwm' = pwm
      BY <2>2 DEF NegoPhase, EndOfNego
    <3> QED
      BY <3>1
  <2>3. CASE PingPhase(p) /\ phase = "PING"
    BY <2>3 DEF PingPhase
  <2>4. CASE CnfgCfg /\ phase = "CNFG"
    BY <2>4 DEF CnfgCfg
  <2>5. CASE CnfgOther(p) /\ phase = "CNFG"
    <3>1. pwm' \in {pwm, TRUE}
      BY <2>5 DEF CnfgOther
    <3> QED
      BY <2>5, <3>1
  <2>6. CASE XferBpp(p)
    BY <2>6 DEF XferBpp
  <2>7. CASE XferMpp(p) /\ phase = "XFER"
    BY <2>7 DEF XferMpp
  <2>8. CASE CloakPhase(p) /\ phase = "CLOAK"
    BY <2>8 DEF CloakPhase
  <2>9. CASE UNCHANGED <<phase, pwm, pingType, rx, renego, cloak, cloakDone, tm, ghost>>
    BY <2>9
  <2> QED
    BY <2>0, <2>1, <2>2, <2>3, <2>4, <2>5, <2>6, <2>7, <2>8, <2>9, PacketCases
<1> QED
  BY <1>1, <1>2, <1>3, <1>4, <1>5, <1>6, <1>7, <1>8, <1>9, Cases

\* In IDLE a packet arms no timer.
LEMMA IdleTimers ==
    ASSUME PktRecvd, phase' = "IDLE"
    PROVE  phase = "IDLE" /\ tm' \in {tm, Clear({"NEXT"})}
<1>0. PICK p \in Rx : Packets(p)
  BY DEF PktRecvd
<1>1. CASE Ept
  BY <1>1 DEF Ept
<1>2. CASE NegoPhase(p, LateNego(p))
  <2>1. phase' = "IDLE" => phase = "IDLE"
    BY <1>2 DEF NegoPhase, EndOfNego
  <2>2. phase' = "IDLE" => tm' \in {tm, Clear({"NEXT"})}
    BY <1>2 DEF NegoPhase, EndOfNego
  <2> QED
    BY <2>1, <2>2
<1>3. PingPhase(p) /\ phase = "PING" => phase' # "IDLE"
  BY DEF PingPhase
<1>4. CnfgCfg /\ phase = "CNFG" => phase' # "IDLE"
  BY DEF CnfgCfg
<1>5. CnfgOther(p) /\ phase = "CNFG" => phase' # "IDLE"
  BY CnfgOtherData
<1>6. XferBpp(p) /\ phase = "XFER" => phase' # "IDLE"
  BY DEF XferBpp
<1>7. XferMpp(p) /\ phase = "XFER" => phase' # "IDLE"
  BY DEF XferMpp
<1>8. CloakPhase(p) /\ phase = "CLOAK" => phase' # "IDLE"
  BY DEF CloakPhase
<1>9. CASE UNCHANGED <<phase, pwm, pingType, rx, renego, cloak, cloakDone, tm, ghost>>
  BY <1>9
<1> QED
  BY <1>0, <1>1, <1>2, <1>3, <1>4, <1>5, <1>6, <1>7, <1>8, <1>9, PacketCases

\* Handling an event takes it from the batch and posts at most a stop.
LEMMA HandledQueue ==
    ASSUME posted' = posted \/ Stop, NEW e, Handling(e)
    PROVE  /\ batch # {} /\ e \in batch /\ batch' = batch \ {e}
           /\ posted \subseteq posted' /\ posted' \subseteq posted \cup {"STOP_POWER"}
  BY DEF Stop, Post, Handling

\* A handler in IDLE that arms no PCH_TO or WND leaves the transmitter at rest.
LEMMA RestKept ==
    ASSUME AtRest, phase = "IDLE", posted' = posted \/ Stop, NEW e, Handling(e),
           ask' = ask, tm'["NEXT"] = tm["NEXT"] \/ tm'["NEXT"] \notin {"PCH_TO", "WND"}
    PROVE  AtRest'
<1>1. /\ batch' = batch \ {e} /\ posted \subseteq posted'
      /\ posted' \subseteq posted \cup {"STOP_POWER"}
  BY HandledQueue
<1>2. "DIG_PING" \in Pending' => "DIG_PING" \in Pending
  BY <1>1 DEF Pending
<1>3. NoneLate => NoneLate'
  BY <1>1 DEF NoneLate
<1>4. phase = "IDLE" => (tm["NEXT"] # "PCH_TO" /\ (ask = "on" \/ "DIG_PING" \in Pending => NoneLate))
  BY DEF AtRest
<1> QED
  BY <1>2, <1>3, <1>4 DEF AtRest

LEMMA RestStep ==
    AtRest /\ Kinds /\ OnlyStops /\ MppOnly /\ TypeOK /\ [Next]_vars => AtRest'
<1> SUFFICES ASSUME AtRest, Kinds, OnlyStops, MppOnly, TypeOK, TypeTimer, TypeQueue, [Next]_vars
             PROVE  AtRest'
  BY TypeParts
<1>1. CASE Take
  <2>1. UNCHANGED <<phase, tm, ask>> /\ posted' \cup batch' = posted \cup batch
    BY <1>1 DEF Take, air
  <2> QED
    BY <2>1 DEF AtRest, NoneLate, Pending
<1>2. CASE RampStep \/ UNCHANGED vars
  BY <1>2 DEF RampStep, vars, air, queue, AtRest, NoneLate, Pending
<1>3. ASSUME NEW t \in Timer, Expire(t) PROVE AtRest'
  <2>1. /\ UNCHANGED <<phase, ask, batch>> /\ posted' = posted \cup {tm[t]}
        /\ tm' = [tm EXCEPT ![t] = IF t = "PING" THEN @ ELSE "off"] /\ batch = {}
    BY <1>3 DEF Expire, Post, air
  <2> SUFFICES ASSUME phase = "IDLE" PROVE AtRest'
    BY <2>1 DEF AtRest
  <2>2. tm["NEXT"] # "PCH_TO" /\ (ask = "on" \/ "DIG_PING" \in Pending => NoneLate)
    BY DEF AtRest
  <2>3. tm'["NEXT"] \in {tm["NEXT"], "off"}
    BY <2>1 DEF TypeTimer, Timer
  <2>4. NoneLate => NoneLate'
    <3>1. t # "NEXT" => tm[t] \notin {"PCH_TO", "WND"}
      BY DEF Kinds, Timer
    <3> QED
      BY <2>1, <2>3, <3>1 DEF NoneLate
  <2>5. t = "PING" => NoneLate
    <3>1. t = "PING" => ask = "on" \/ (tm["NEXT"] # "WND" /\ posted \subseteq {"STOP_POWER", "RENEGO_TO", "SE_IC_TBS_AUTH"})
      BY <1>3 DEF Expire, PassesAreShort
    <3> QED
      BY <2>1, <2>2, <3>1 DEF NoneLate
  <2>6. t # "PING" => tm[t] # "DIG_PING"
    BY DEF Kinds, Timer
  <2> QED
    BY <2>1, <2>2, <2>3, <2>4, <2>5, <2>6 DEF AtRest, Pending
<1>4. CASE Decode \/ FskDone \/ OtherStop
  <2>1. /\ UNCHANGED <<phase, tm, batch>> /\ (ask' = "on" => ask = "on")
        /\ \E e \in {"HDR_START", "HDR_RECVD", "PKT_RECVD", "FSK_RESP_DONE", "STOP_POWER"} :
              posted' = posted \cup {e}
    BY <1>4 DEF Decode, FskDone, OtherStop, Post, air
  <2> QED
    BY <2>1 DEF AtRest, NoneLate, Pending
<1>5. ASSUME NEW e, Timeout(e) \/ PingTimeout(e) PROVE AtRest'
  <2>1. (posted' = posted \/ Stop) /\ UNCHANGED <<phase, ask, tm>> /\ Handling(e)
    BY <1>5 DEF Timeout, PingTimeout, air
  <2> QED
    BY <2>1, RestKept DEF AtRest
<1>6. CASE Pfod \/ FskRespDone
  <2>1. (posted' = posted \/ Stop) /\ UNCHANGED <<phase, ask>> /\ \E e : Handling(e)
    BY <1>6 DEF Pfod, FskRespDone, air
  <2>2. tm'["NEXT"] = tm["NEXT"] \/ tm'["NEXT"] \notin {"PCH_TO", "WND"}
    BY <1>6 DEF Pfod, FskRespDone, TypeTimer, Timer
  <2> QED
    BY <2>1, <2>2, RestKept DEF AtRest
<1>7. CASE AuthDone \/ HdrStart \/ HdrRecvd
  <2>1. phase = "IDLE" => tm' = tm
    BY <1>7, ContinueTimers
  <2>2. posted' = posted /\ UNCHANGED <<phase, ask>> /\ \E e : Handling(e)
    BY <1>7 DEF AuthDone, HdrStart, HdrRecvd, Continue, air
  <2> QED
    BY <2>1, <2>2, RestKept DEF AtRest
<1>13. CASE PchTo \/ Wnd
  <2>1. /\ UNCHANGED <<phase, ask, posted>> /\ batch' \subseteq batch
        /\ "PCH_TO" \in batch \/ "WND" \in batch
    BY <1>13 DEF PchTo, Wnd, Continue, Handling, air
  <2>2. ~NoneLate
    BY <2>1 DEF NoneLate
  <2>3. phase = "IDLE" => tm["NEXT"] # "PCH_TO" /\ ask # "on" /\ "DIG_PING" \notin Pending
    BY <2>2 DEF AtRest
  <2>4. phase = "IDLE" => tm'["NEXT"] # "PCH_TO"
    BY <1>13, <2>3, ContinueTimers, SetIs DEF Timer
  <2> QED
    BY <2>1, <2>3, <2>4 DEF AtRest, Pending
<1>8. CASE DigPing
  <2>1. CASE phase' = phase /\ tm' = tm /\ ask' = ask
    <3>1. Handling("DIG_PING") /\ (posted' = posted \/ Stop)
      BY <1>8 DEF DigPing
    <3> QED
      BY <2>1, <3>1, RestKept DEF AtRest
  <2>2. CASE phase' = "PING"
    BY <2>2 DEF AtRest
  <2> QED
    BY <1>8, <2>1, <2>2 DEF DigPing, air
<1>9. CASE CloakPing
  <2>1. Handling("CLOAK_PING") /\ posted' = posted
    BY <1>9 DEF CloakPing
  <2>2. CASE UNCHANGED <<phase, air, tm>>
    BY <2>1, <2>2, RestKept DEF AtRest, air
  <2>3. CASE cloak /\ CloakGone
    <3>1. tm'["NEXT"] = "off"
      BY <2>3 DEF CloakGone, TypeTimer, Timer
    <3>2. /\ posted' \subseteq {"STOP_POWER", "FSK_RESP_DONE"}
          /\ batch' \subseteq batch /\ "PCH_TO" \notin batch /\ "WND" \notin batch
      BY <2>1, CloakLate DEF OnlyStops, Handling
    <3> QED
      BY <3>1, <3>2 DEF AtRest, NoneLate
  <2>4. CASE cloak /\ (CloakDigPing \/ CloakProbe)
    BY <2>4 DEF CloakDigPing, CloakProbe, MppOnly, AtRest
  <2> QED
    BY <1>9, <2>2, <2>3, <2>4 DEF CloakPing
<1>10. CASE StopPower
  <2>1. Handling("STOP_POWER") /\ posted' = posted
    BY <1>10 DEF StopPower
  <2>2. CASE phase = "IDLE"
    <3>1. UNCHANGED <<phase, ask, tm>>
      BY <1>10, <2>2 DEF StopPower
    <3> QED
      BY <2>1, <2>2, <3>1, RestKept
  <2>3. CASE phase # "IDLE"
    <3>1. ask' # "on" /\ tm' = PingAgain(Clear({"NEXT", "CEP", "RPP"}))
      BY <1>10, <2>3 DEF StopPower
    <3>2. tm'["NEXT"] = "off"
      BY <3>1 DEF PingAgain, Clear, Timer
    <3>3. "DIG_PING" \notin batch
      BY <2>1, PingFirst
    <3>4. "DIG_PING" \notin Pending'
      BY <2>1, <3>3 DEF Pending, OnlyStops, Handling
    <3> QED
      BY <3>1, <3>2, <3>4 DEF AtRest
  <2> QED
    BY <2>2, <2>3
<1>11. ASSUME PktRecvd, phase' = "IDLE" PROVE AtRest'
  <2>1. phase = "IDLE" /\ tm' \in {tm, Clear({"NEXT"})}
    BY <1>11, IdleTimers
  <2>2. (posted' = posted \/ Stop) /\ ask' = ask /\ Handling("PKT_RECVD")
    BY <1>11, StopOnly DEF PktRecvd
  <2>3. tm'["NEXT"] = tm["NEXT"] \/ tm'["NEXT"] \notin {"PCH_TO", "WND"}
    BY <2>1 DEF Clear, Timer
  <2> QED
    BY <2>1, <2>2, <2>3, RestKept
<1>12. CASE PktRecvd /\ phase' # "IDLE"
  BY <1>12 DEF AtRest
<1>14. CASE Bystander
  BY <1>3, <1>4, <1>5, <1>6, <1>7, <1>13, <1>14 DEF Bystander
<1> QED
  BY <1>1, <1>2, <1>5, <1>6, <1>8, <1>9, <1>10, <1>11, <1>12, <1>14, Cases

-----------------------------------------------------------------------------
\* Guarded, step by step.  A stop posted is Sure, and what is Sure stays so while the
\* coil is driven, as every handler of an Ending event posts a stop.
LEMMA StopIsSure == Stop => Sure'
  BY DEF Stop, Post, Sure, Pending, Ending

LEMMA HandledKeeps ==
    ASSUME posted' = posted \/ Stop, NEW e, Handling(e), e \notin Ending
    PROVE  /\ Pending \cap Ending # {} => Pending' \cap Ending # {}
           /\ NoneLate /\ tm'["NEXT"] \notin {"PCH_TO", "WND"} => NoneLate'
           /\ e # "FSK_RESP_DONE" /\ "FSK_RESP_DONE" \in Pending => "FSK_RESP_DONE" \in Pending'
<1>1. /\ batch' = batch \ {e} /\ posted \subseteq posted'
      /\ posted' \subseteq posted \cup {"STOP_POWER"}
  BY HandledQueue
<1> QED
  BY <1>1 DEF Pending, NoneLate

\* A handler that leaves the phase, the flags and the timers alone
LEMMA GuardKept ==
    ASSUME Guarded, posted' = posted \/ Stop, NEW e, Handling(e),
           e \notin Ending \cup {"FSK_RESP_DONE"},
           UNCHANGED <<phase, pwm, fsk, cloakDone, tm, astray>>
    PROVE  Guarded'
<1>1. /\ Pending \cap Ending # {} => Pending' \cap Ending # {}
      /\ NoneLate /\ tm'["NEXT"] \notin {"PCH_TO", "WND"} => NoneLate'
      /\ "FSK_RESP_DONE" \in Pending => "FSK_RESP_DONE" \in Pending'
  BY HandledKeeps
<1>2. NoneLate => NoneLate'
  BY <1>1 DEF NoneLate
<1>3. Sure => Sure'
  BY <1>1 DEF Sure
<1>4. Watched => Watched'
  BY <1>1, <1>2 DEF Watched
<1> QED
  BY <1>3, <1>4 DEF Guarded, Clean

LEMMA GuardPacket ==
    ASSUME Guarded, Driven, PowerOff, TypeOK, PktRecvd PROVE Guarded'
<1>0. PICK p \in Rx : Packets(p)
  BY DEF PktRecvd
<1>t. tm \in [Timer -> Evt \cup {"off"}]
  BY DEF TypeOK
<1>q. /\ Pending \cap Ending # {} => Pending' \cap Ending # {}
      /\ NoneLate /\ tm'["NEXT"] \notin {"PCH_TO", "WND"} => NoneLate'
      /\ "FSK_RESP_DONE" \in Pending => "FSK_RESP_DONE" \in Pending'
  <2>1. Handling("PKT_RECVD") /\ (posted' = posted \/ Stop)
    BY StopOnly DEF PktRecvd
  <2>2. "PKT_RECVD" \notin Ending
    BY DEF Ending, Timeouts
  <2> QED
    BY <2>1, <2>2, HandledKeeps
\* The four ways to be guarded after the packet
<1>s. Stop \/ tm'["CEP"] = "CEP_TO" => Guarded'
  BY StopIsSure DEF Guarded, Sure
<1>k. ASSUME Sure, tm'["CEP"] \in {tm["CEP"], "CEP_TO"},
             phase = "NEGO" => phase' = "NEGO" /\ tm'["NEGO"] = tm["NEGO"]
      PROVE  Guarded'
  BY <1>k, <1>q DEF Guarded, Sure
<1>w. ASSUME Watched, phase' # "XFER", tm'["NEXT"] \in Ending PROVE Guarded'
  <2>1. tm'["NEXT"] \notin {"PCH_TO", "WND"}
    BY <1>w DEF Ending, Timeouts
  <2> QED
    BY <1>w, <1>q, <2>1 DEF Guarded, Watched
<1>u. ASSUME Sure \/ Watched, UNCHANGED <<phase, fsk, cloakDone, tm>> PROVE Guarded'
  <2>1. NoneLate => NoneLate'
    BY <1>u, <1>q DEF NoneLate
  <2> QED
    BY <1>u, <1>q, <2>1 DEF Guarded, Sure, Watched
<1>n. ASSUME Sure \/ Watched, phase' # "XFER", phase = "NEGO" => phase' = "NEGO",
             NEW e \in Ending, tm' = Set("NEXT", e)
      PROVE  Guarded'
  <2>1. tm'["NEXT"] = e /\ tm'["CEP"] = tm["CEP"] /\ tm'["NEGO"] = tm["NEGO"]
    BY <1>n, <1>t DEF Set, Timer
  <2> QED
    BY <1>n, <1>k, <1>w, <2>1
<1>e. /\ {"CNFG_NEXT_1ST_TO", "NEGO_NEXT_PKT_TO", "PIN_NO_PKT"} \subseteq Ending
      /\ "CEP" \in Timer /\ "NEXT" \in Timer /\ "NEGO" \in Timer
  BY DEF Ending, Timeouts, Timer
<1>1. CASE Ept
  BY <1>1, <1>s DEF Ept
<1>2. CASE NegoPhase(p, LateNego(p)) /\ (phase = "NEGO" \/ LateNego(p))
  <2> SUFFICES ASSUME pwm', phase' # "IDLE", Clean' PROVE Guarded'
    BY DEF Guarded
  <2>1. pwm' = pwm /\ astray \subseteq astray' /\ cloakDone' = cloakDone
    BY <1>2 DEF NegoPhase
  <2>2. CASE phase = "IDLE"
    BY <2>1, <2>2 DEF PowerOff, Clean
  <2>3. CASE phase # "IDLE"
    <3>1. Sure \/ Watched
      BY <2>1, <2>3 DEF Guarded, Clean
    <3>2. CASE UNCHANGED <<phase, fsk, tm>>
      BY <2>1, <3>1, <3>2, <1>u
    <3>3. CASE EndOfNego
      <4>1. tm' = Supervise(Clear({"NEXT", "NEGO"}))
        BY <3>3 DEF EndOfNego
      <4>2. tm'["CEP"] = "CEP_TO"
        BY <4>1 DEF Supervise, Clear, Timer
      <4> QED
        BY <4>2, <1>s
    <3>4. CASE phase' = "NEGO" /\ tm' = Set("NEXT", "NEGO_NEXT_PKT_TO")
      BY <3>1, <3>4, <1>n, <1>e
    <3> QED
      BY <1>2, <3>2, <3>3, <3>4, <1>s DEF NegoPhase, Quiet
  <2> QED
    BY <2>2, <2>3
<1> SUFFICES ASSUME pwm', phase' # "IDLE", Clean',
                    ~(NegoPhase(p, LateNego(p)) /\ (phase = "NEGO" \/ LateNego(p)))
             PROVE  Guarded'
  BY <1>2 DEF Guarded
<1>3. CASE phase = "PING" /\ PingPhase(p)
  <2>1. Sure \/ Watched
    BY <1>3 DEF PingPhase, Guarded, Clean
  <2>2. Stop \/ (phase' = "CNFG" /\ tm' = Set("NEXT", "CNFG_NEXT_1ST_TO"))
    BY <1>3 DEF PingPhase
  <2> QED
    BY <1>3, <2>1, <2>2, <1>s, <1>n, <1>e
<1>4. CASE phase = "CNFG" /\ CnfgCfg
  <2>1. Sure \/ Watched
    BY <1>4 DEF CnfgCfg, Guarded, Clean, ghost
  <2>2. \/ Stop
        \/ phase' = "NEGO" /\ tm' = Set("NEXT", "NEGO_NEXT_PKT_TO")
        \/ tm' = Supervise(Set("NEXT", "off"))
    BY <1>4 DEF CnfgCfg
  <2>3. Supervise(Set("NEXT", "off"))["CEP"] = "CEP_TO"
    BY <1>t, <1>e DEF Supervise, Set
  <2> QED
    BY <1>4, <2>1, <2>2, <2>3, <1>s, <1>n, <1>e
<1>5. CASE phase = "CNFG" /\ CnfgOther(p)
  <2>1. phase' = "CNFG" /\ UNCHANGED astray
    BY <1>5, CnfgOtherData
  <2>2. Sure \/ Watched
    BY <1>5, <2>1 DEF Driven, Guarded, Clean
  <2>3. Stop \/ tm' = Set("NEXT", "CNFG_NEXT_1ST_TO")
    BY <1>5 DEF CnfgOther
  <2> QED
    BY <1>5, <2>1, <2>2, <2>3, <1>s, <1>n, <1>e
<1>6. CASE phase = "XFER" /\ XferBpp(p)
  <2>1. Sure
    BY <1>6 DEF XferBpp, Guarded, Watched, Clean, ghost
  <2>2. phase' = phase /\ tm'["CEP"] \in {tm["CEP"], "CEP_TO"}
    BY <1>6, <1>t, <1>e DEF XferBpp
  <2> QED
    BY <1>6, <2>1, <2>2, <1>k
<1>7. CASE phase = "XFER" /\ XferMpp(p)
  <2>1. Sure
    BY <1>7 DEF XferMpp, Guarded, Watched, Clean, ghost
  <2>2. CASE p = "NEGO"
    <3>1. phase' = "NEGO" /\ tm'["NEGO"] = "RENEGO_TO"
      BY <1>7, <1>t, <1>e, <2>2 DEF XferMpp
    <3> QED
      BY <3>1 DEF Guarded, Sure
  <2>3. CASE p # "NEGO"
    <3>1. tm'["CEP"] \in {tm["CEP"], "CEP_TO"}
      BY <1>7, <1>t, <1>e, <2>3 DEF XferMpp, Set, Timer
    <3> QED
      BY <1>7, <2>1, <3>1, <1>k
  <2> QED
    BY <2>2, <2>3
<1>8. CASE phase = "CLOAK" /\ CloakPhase(p)
  <2>1. pwm' = pwm /\ astray \subseteq astray'
    BY <1>8 DEF CloakPhase
  <2>2. Sure \/ Watched
    BY <1>8, <2>1 DEF Guarded, Clean
  <2> DEFINE quiet == [tm EXCEPT !.PING = "off"]
  <2>3. CASE profile = "BPP"
    <3>1. cloakDone \in BOOLEAN
      BY DEF TypeOK
    <3>2. UNCHANGED <<phase, fsk, cloakDone, tm>>
      BY <1>8, <2>3, <3>1 DEF CloakPhase, Quiet
    <3> QED
      BY <2>2, <3>2, <1>u
  <2>4. CASE profile # "BPP" /\ p = "CLOAK"
    <3>1. /\ profile = "MPP" /\ phase' = phase /\ cloakDone' /\ fsk'
          /\ tm' = [quiet EXCEPT !.NEXT = "off"]
      BY <1>8, <2>1, <2>4 DEF CloakPhase, TypeOK, Send
    <3>2. tm'["NEXT"] = "off" /\ tm'["CEP"] = tm["CEP"]
      BY <3>1, <1>t, <1>e
    <3>3. CASE Sure
      BY <1>8, <3>1, <3>2, <3>3, <1>k
    <3>4. CASE Watched
      BY <1>8, <3>1, <3>2, <3>4, <1>q DEF Guarded, Watched
    <3> QED
      BY <2>2, <3>3, <3>4
  <2>5. CASE profile # "BPP" /\ p = "CLOAKX"
    <3>1. "reason" \in astray'
      BY <1>8, <2>5 DEF CloakPhase, TypeOK
    <3> QED
      BY <3>1 DEF Clean
  <2>6. CASE profile # "BPP" /\ p = "REPORT"
    <3>1. phase' = phase /\ tm' = [quiet EXCEPT !.NEXT = "PIN_NO_PKT"]
      BY <1>8, <2>6 DEF CloakPhase
    <3>2. tm'["NEXT"] = "PIN_NO_PKT" /\ tm'["CEP"] = tm["CEP"]
      BY <3>1, <1>t, <1>e
    <3> QED
      BY <1>8, <2>2, <3>1, <3>2, <1>k, <1>w, <1>e
  <2>7. CASE profile # "BPP" /\ p = "GET"
    <3>1. tm' = Supervise([quiet EXCEPT !.NEXT = "off"])
      BY <1>8, <2>7 DEF CloakPhase
    <3>2. tm'["CEP"] = "CEP_TO"
      BY <3>1, <1>t, <1>e DEF Supervise
    <3> QED
      BY <3>2, <1>s
  <2>8. CASE profile # "BPP" /\ p \notin {"CLOAK", "CLOAKX", "REPORT", "GET"}
    BY <1>8, <2>8, <1>s DEF CloakPhase
  <2> QED
    BY <2>3, <2>4, <2>5, <2>6, <2>7, <2>8
<1>9. CASE Quiet /\ UNCHANGED <<phase, pwm, pingType, rx, renego, cloak, cloakDone, tm, ghost>>
  <2>1. Sure \/ Watched
    BY <1>9 DEF Guarded, Clean, ghost
  <2> QED
    BY <1>9, <2>1, <1>u DEF Quiet
<1> QED
  BY <1>0, <1>1, <1>3, <1>4, <1>5, <1>6, <1>7, <1>8, <1>9, PacketCases

\* The bystanders' handlers and the environment
LEMMA GuardBystander ==
    ASSUME Guarded, Kinds, TypeOK, Bystander PROVE Guarded'
<1>t. tm \in [Timer -> Evt \cup {"off"}]
  BY DEF TypeOK
<1>a. UNCHANGED <<phase, pwm, cloakDone, astray>>
  BY BystanderSession DEF SessionFrame
<1> SUFFICES ASSUME pwm, phase # "IDLE", Clean, Sure \/ Watched PROVE Sure' \/ Watched'
  BY <1>a DEF Guarded, Clean
<1>1. ASSUME NEW e \in Timeouts, Timeout(e) PROVE Sure'
  BY <1>1, StopIsSure DEF Timeout
<1>2. CASE Pfod \/ AuthDone
  <2>1. PICK e \in {"PFOD", "SE_IC_TBS_AUTH"} :
          Handling(e) /\ (posted' = posted \/ Stop) /\ UNCHANGED <<fsk, tm>>
    BY <1>2 DEF Pfod, AuthDone, Continue
  <2>2. e \notin Ending \cup {"FSK_RESP_DONE"}
    BY DEF Ending, Timeouts
  <2>3. Guarded'
    BY <1>a, <2>1, <2>2, GuardKept
  <2> QED
    BY <1>a, <2>3 DEF Guarded, Clean
<1>3. CASE PchTo \/ Wnd
  <2>1. PICK e \in {"PCH_TO", "WND"} : Handling(e) /\ posted' = posted
    BY <1>3 DEF PchTo, Wnd, Continue
  <2>2. ~NoneLate /\ e \notin Ending
    BY <2>1 DEF NoneLate, Handling, Ending, Timeouts
  <2>3. Sure
    BY <2>2 DEF Watched
  <2>4. Pending \cap Ending # {} => Pending' \cap Ending # {}
    BY <2>1, <2>2, HandledKeeps
  <2>5. tm'["CEP"] = tm["CEP"] /\ tm'["NEGO"] = tm["NEGO"]
    BY <1>3, <1>t, ContinueTimers DEF Set, Timer
  <2> QED
    BY <1>a, <2>3, <2>4, <2>5 DEF Sure
<1>4. CASE HdrStart \/ HdrRecvd
  <2>1. PICK e \in {"HDR_START", "HDR_RECVD"} : Handling(e) /\ posted' = posted /\ fsk' = fsk
    BY <1>4 DEF HdrStart, HdrRecvd, Continue
  <2>2. e \notin Ending \cup {"FSK_RESP_DONE"}
    BY DEF Ending, Timeouts
  <2>3. /\ Pending \cap Ending # {} => Pending' \cap Ending # {}
        /\ NoneLate /\ tm'["NEXT"] \notin {"PCH_TO", "WND"} => NoneLate'
        /\ "FSK_RESP_DONE" \in Pending => "FSK_RESP_DONE" \in Pending'
    BY <2>1, <2>2, HandledKeeps
  <2>4. /\ tm'["CEP"] \in {tm["CEP"], "CEP_TO"} /\ tm'["NEGO"] = tm["NEGO"]
        /\ tm'["NEXT"] \in {tm["NEXT"], "CNFG_NEXT_PKT_TO", "PING_1st_PKT_TO", "PIN_NO_PKT"}
    BY <1>4, <1>t, ContinueTimers DEF Set, Timer
  <2>5. {"CNFG_NEXT_PKT_TO", "PING_1st_PKT_TO", "PIN_NO_PKT"} \subseteq Ending
    BY DEF Ending, Timeouts
  <2>6. Sure => Sure'
    BY <1>a, <2>3, <2>4 DEF Sure
  <2>7. Watched => Watched'
    <3>1. NoneLate => NoneLate'
      BY <2>3, <2>4 DEF NoneLate
    <3> QED
      BY <1>a, <2>1, <2>3, <2>4, <2>5, <3>1 DEF Watched
  <2> QED
    BY <2>6, <2>7
<1>5. ASSUME NEW t \in Timer, Expire(t) PROVE Sure' \/ Watched'
  <2>1. /\ posted' = posted \cup {tm[t]} /\ batch' = batch /\ fsk' = fsk
        /\ tm' = [tm EXCEPT ![t] = IF t = "PING" THEN @ ELSE "off"]
    BY <1>5 DEF Expire, Post
  <2>2. CASE Pending \cap Ending # {} \/ tm[t] \in Ending
    BY <2>1, <2>2 DEF Sure, Pending
  <2>3. CASE tm[t] \notin Ending
    <3>1. /\ tm["CEP"] = "CEP_TO" => t # "CEP" /\ tm'["CEP"] = "CEP_TO"
          /\ tm["NEGO"] = "RENEGO_TO" => t # "NEGO" /\ tm'["NEGO"] = "RENEGO_TO"
          /\ tm["NEXT"] \in Ending => t # "NEXT" /\ tm'["NEXT"] = tm["NEXT"]
      BY <2>1, <2>3, <1>t DEF Ending, Timeouts, Timer
    <3>2. NoneLate => NoneLate'
      <4>1. t # "NEXT" => tm[t] \notin {"PCH_TO", "WND"}
        BY DEF Kinds, Timer
      <4>2. tm'["NEXT"] \in {tm["NEXT"], "off"}
        BY <2>1, <1>t DEF Timer
      <4> QED
        BY <2>1, <4>1, <4>2 DEF NoneLate
    <3> QED
      BY <1>a, <2>1, <2>2, <3>1, <3>2 DEF Sure, Watched, Pending
  <2> QED
    BY <2>2, <2>3
<1>6. CASE Decode \/ FskDone \/ OtherStop
  <2>1. PICK e \in {"HDR_START", "HDR_RECVD", "PKT_RECVD", "FSK_RESP_DONE", "STOP_POWER"} :
          posted' = posted \cup {e} /\ UNCHANGED <<batch, tm>>
    BY <1>6 DEF Decode, FskDone, OtherStop, Post
  <2>2. fsk' = fsk \/ "FSK_RESP_DONE" \in posted'
    BY <1>6 DEF Decode, FskDone, OtherStop, Post
  <2>3. NoneLate => NoneLate'
    BY <2>1 DEF NoneLate
  <2> QED
    BY <1>a, <2>1, <2>2, <2>3 DEF Sure, Watched, Pending
<1> QED
  BY <1>1, <1>2, <1>3, <1>4, <1>5, <1>6 DEF Bystander

LEMMA GuardStep ==
    /\ Guarded /\ AtRest /\ Driven /\ Kinds /\ OnlyStops
    /\ PowerOff /\ MppOnly /\ TypeOK /\ [Next]_vars
    => Guarded'
<1> SUFFICES ASSUME Guarded, AtRest, Driven, Kinds, OnlyStops, PowerOff, MppOnly, TypeOK, [Next]_vars
             PROVE  Guarded'
  OBVIOUS
<1>t. tm \in [Timer -> Evt \cup {"off"}]
  BY DEF TypeOK
<1>e. "PIN_NO_PKT" \in Ending /\ "STOP_AFTER_FSK" \in Ending
  BY DEF Ending, Timeouts
<1>1. CASE Take
  <2>1. UNCHANGED <<phase, pwm, fsk, cloakDone, tm, astray>> /\ posted' \cup batch' = posted \cup batch
    BY <1>1 DEF Take, air, flags, ghost
  <2> QED
    BY <2>1 DEF Guarded, Clean, Sure, Watched, NoneLate, Pending
<1>2. CASE RampStep
  <2>1. /\ UNCHANGED <<phase, fsk, cloakDone, tm, posted, batch>>
        /\ astray \subseteq astray' /\ (pwm \/ "relit" \in astray')
    BY <1>2 DEF RampStep, flags, queue
  <2> QED
    BY <2>1 DEF Guarded, Clean, Sure, Watched, NoneLate, Pending
<1>3. CASE UNCHANGED vars
  BY <1>3 DEF vars, air, flags, queue, ghost, Guarded, Clean, Sure, Watched, NoneLate, Pending
<1>4. CASE DigPing
  <2>1. Handling("DIG_PING") /\ (posted' = posted \/ Stop)
    BY <1>4 DEF DigPing
  <2>2. "DIG_PING" \notin Ending \cup {"FSK_RESP_DONE"}
    BY DEF Ending, Timeouts
  <2>3. CASE UNCHANGED <<phase, pwm, fsk, cloakDone, tm, astray>>
    BY <2>1, <2>2, <2>3, GuardKept
  <2>4. CASE phase = "IDLE" /\ phase' = "PING" /\ tm' = [tm EXCEPT !.NEXT = "PIN_NO_PKT", !.PING = "off"]
    <3>1. NoneLate
      BY <2>1, <2>4 DEF AtRest, Pending, Handling
    <3>2. tm'["NEXT"] = "PIN_NO_PKT"
      BY <2>4, <1>t DEF Timer
    <3>3. NoneLate'
      BY <2>1, <2>2, <3>1, <3>2, HandledKeeps
    <3> QED
      BY <2>4, <3>2, <3>3, <1>e DEF Guarded, Watched
  <2> QED
    BY <1>4, <2>3, <2>4 DEF DigPing, air, ghost
<1>5. CASE CloakPing
  <2>1. Handling("CLOAK_PING") /\ posted' = posted /\ cloakDone' = cloakDone
    BY <1>5 DEF CloakPing
  <2>2. "CLOAK_PING" \notin Ending \cup {"FSK_RESP_DONE"}
    BY DEF Ending, Timeouts
  <2>3. CASE UNCHANGED <<phase, air, fsk, cloak, tm, astray>>
    BY <2>1, <2>2, <2>3, GuardKept DEF air
  <2>4. CASE CloakDigPing
    <3>1. phase' = "CLOAK" /\ tm'["NEXT"] = "PIN_NO_PKT"
      BY <2>4, <1>t DEF CloakDigPing, Timer
    <3>2. /\ posted' \subseteq {"STOP_POWER", "FSK_RESP_DONE"}
          /\ batch' \subseteq batch /\ "PCH_TO" \notin batch /\ "WND" \notin batch
      BY <2>1, CloakLate DEF OnlyStops, Handling
    <3>3. NoneLate'
      BY <3>1, <3>2 DEF NoneLate
    <3> QED
      BY <3>1, <3>3, <1>e DEF Guarded, Watched
  <2>5. CloakGone \/ CloakProbe => Guarded'
    BY DEF CloakGone, CloakProbe, Guarded
  <2> QED
    BY <1>5, <2>3, <2>4, <2>5 DEF CloakPing
<1>6. CASE StopPower
  BY <1>6 DEF StopPower, Guarded
<1>7. CASE FskRespDone
  <2>1. /\ Handling("FSK_RESP_DONE") /\ posted' = posted
        /\ UNCHANGED <<phase, pwm, fsk>> /\ astray \subseteq astray'
    BY <1>7 DEF FskRespDone, air
  <2>2. "FSK_RESP_DONE" \notin Ending
    BY DEF Ending, Timeouts
  <2>3. /\ tm'["CEP"] = tm["CEP"] /\ tm'["NEGO"] = tm["NEGO"]
        /\ tm'["NEXT"] = IF cloakDone THEN "STOP_AFTER_FSK" ELSE tm["NEXT"]
    BY <1>7, <1>t DEF FskRespDone, Timer
  <2>4. /\ Pending \cap Ending # {} => Pending' \cap Ending # {}
        /\ NoneLate /\ tm'["NEXT"] \notin {"PCH_TO", "WND"} => NoneLate'
    BY <2>1, <2>2, HandledKeeps
  <2>5. NoneLate => NoneLate'
    BY <2>3, <2>4 DEF NoneLate
  <2>6. Sure => Sure'
    BY <2>1, <2>3, <2>4 DEF Sure
  <2>7. Watched => Watched'
    BY <2>1, <2>3, <2>5, <1>e DEF Watched
  <2> QED
    BY <2>1, <2>6, <2>7 DEF Guarded, Clean
<1>8. ASSUME NEW e \in {"PIN_NO_PKT", "PING_1st_PKT_TO"}, PingTimeout(e) PROVE Guarded'
  BY <1>8, StopIsSure DEF PingTimeout, Guarded
<1>9. CASE PktRecvd
  BY <1>9, GuardPacket
<1>10. CASE Bystander
  BY <1>10, GuardBystander
<1> QED
  BY <1>1, <1>2, <1>3, <1>4, <1>5, <1>6, <1>7, <1>8, <1>9, <1>10, Cases

\* While a session has power, something armed or pending ends it if the receiver falls
\* silent, whatever the receivers send and however many events are pending.
THEOREM AlwaysAttended == Spec => []Attended
<1>1. Init => Guarded /\ AtRest /\ Driven /\ Kinds /\ OnlyStops
  BY DEF Init, Guarded, AtRest, NoneLate, Driven, Kinds, OnlyStops, Pending, Timer
<1>2. Guarded => Attended
  <2>1. ASSUME Sure \/ Watched
        PROVE  \/ (Armed \cup Pending) \cap Ending # {}
               \/ cloakDone /\ (fsk \/ "FSK_RESP_DONE" \in Pending)
    <3>1. {"CEP_TO", "RENEGO_TO"} \subseteq Ending
      BY DEF Ending, Timeouts
    <3> QED
      BY <2>1, <3>1 DEF Sure, Watched, Armed, Timer
  <2> QED
    BY <2>1 DEF Guarded, Attended, Clean
<1>3. TypeOK => TypeTimer
  BY TypeParts
<1> QED
  BY <1>1, <1>2, <1>3, GuardStep, RestStep, DrivenStep, KindsStep, OnlyStopsStep,
     OffInIdle, OnlyMpp, TypeCorrect, PTL DEF Spec

=============================================================================
