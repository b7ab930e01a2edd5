------------------------- MODULE PortManager_proofs -------------------------
(***************************************************************************)
(* Proofs about PortManager for all lengths of its timeouts. Whoever takes *)
(* part: the types, and that no step of one port is in the queue while     *)
(* another port is in hand. With nobody who writes the ports' states       *)
(* behind the manager: partners stay known, and chains of steps end.       *)
(***************************************************************************)
EXTENDS PortManager, TLAPS

\* The steps that act on the port in hand as if it were their own.
Steps == {"START0", "CLOSED0", "START3", "CLOSED3"}
Queued == (posted \cup batch) \cap Steps

\* One of them at a time: CLOSED3 may change the port in hand, and must find no other.
OneStep == \A e, f \in Queued : e = f

\* Only the scan posts them, and it is the last event of a batch: when it runs, the batch
\* has been emptied of them and nothing has posted new ones.
PostedByScan == batch # {} => posted \cap Steps = {}

\* The timer posts other events only.
TimerPostsNone == due \notin Steps

IInv == TypeOK /\ StepsOfPortInHand /\ OneStep /\ PostedByScan /\ TimerPostsNone

-----------------------------------------------------------------------------
\* The scan has the highest bit: its event is handled last.
LEMMA ScanIsLast == ASSUME NEW b \in SUBSET Events, "SCAN" \in b,
                           \A f \in b : Bit["SCAN"] <= Bit[f]
                    PROVE  b = {"SCAN"}
  BY DEF Events, Bit

LEMMA EventsAre ==
    Events = {"START0", "SUCCESS0", "CLOSED0", "SETVOLT0", "SETCHARGE0", "DONE0",
              "SETCHARGE1", "START3", "SUCCESS3", "CLOSED3", "DONE3", "SCAN"}
  BY DEF Events, Bit

\* What the scan posts for a request is the first step of the request's own port.
LEMMA ServedIsOwn == ASSUME NEW r \in Requests
                     PROVE  /\ Served[r] \in Events /\ PortOf[r] \in {0, 3}
                            /\ Served[r] \in {"START0", "CLOSED0"} => PortOf[r] = 0
                            /\ Served[r] \in {"START3", "CLOSED3"} => PortOf[r] = 3
  BY EventsAre DEF Requests, Served, PortOf

LEMMA InitInv == Init => IInv
<1> SUFFICES ASSUME Init PROVE IInv
  OBVIOUS
<1>1. TypeOK
  <2>1. port \in [{0, 3} -> {"NONE", "SOURCE", "SINK"}]
    BY DEF Init
  <2>2. stuck \in 0 .. Stuck /\ left \in (0 .. Long) \cup (0 .. Short) /\ silent \in 0 .. Lapse
    BY PortManagerAssumption DEF Init
  <2> QED
    BY <2>1, <2>2 DEF Init, TypeOK, TypeC
<1>2. StepsOfPortInHand /\ OneStep /\ PostedByScan /\ TimerPostsNone
  BY DEF Init, StepsOfPortInHand, OneStep, PostedByScan, TimerPostsNone, Queued, Steps
<1> QED
  BY <1>1, <1>2 DEF IInv

-----------------------------------------------------------------------------
(* Types.                                                                  *)

\* What every handler of an event does to the queue and leaves of the other parts.
LEMMA HandlingTypes ==
    ASSUME NEW e, TypeOK, Handling(e)
    PROVE  /\ batch' \subseteq Events /\ scanned' \in BOOLEAN
           /\ comm' \in BOOLEAN /\ protected' \in BOOLEAN /\ recharge' \in BOOLEAN
<1>1. batch' \subseteq Events /\ comm' \in BOOLEAN /\ protected' \in BOOLEAN /\ recharge' \in BOOLEAN
  BY DEF TypeOK, Handling, others
<1>2. scanned' \in BOOLEAN
  BY Zenon DEF TypeOK, Handling
<1> QED
  BY <1>1, <1>2

LEMMA ArmTypes ==
    ASSUME NEW e \in Events, NEW time \in {Long, Short}, Arm(e, time)
    PROVE  due' \in Events \cup {"none"} /\ left' \in (0 .. Long) \cup (0 .. Short)
  BY PortManagerAssumption DEF Arm

LEMMA DisarmTypes ==
    ASSUME Disarm
    PROVE  due' \in Events \cup {"none"} /\ left' \in (0 .. Long) \cup (0 .. Short)
  BY PortManagerAssumption DEF Disarm

LEMMA ManagerTypes == TypeOK /\ Manager => TypeOK'
<1> SUFFICES ASSUME TypeOK, Manager PROVE TypeOK'
  OBVIOUS
<1> DEFINE Handled == /\ batch' \subseteq Events /\ scanned' \in BOOLEAN
                      /\ comm' \in BOOLEAN /\ protected' \in BOOLEAN /\ recharge' \in BOOLEAN
           Timed   == due' \in Events \cup {"none"} /\ left' \in (0 .. Long) \cup (0 .. Short)
<1>a. Handled
  BY HandlingTypes DEF Manager, Start0, Success0, SetVolt, SetCharge, EnumDone, Closed0, Start3,
     Success3, Closed3, ScanLocked, ScanBusy, ScanNothing, ScanNext
<1>b. "SETVOLT0" \in Events /\ "DONE0" \in Events /\ "SETCHARGE0" \in Events /\ "SETCHARGE1" \in Events
      /\ "SUCCESS3" \in Events /\ "DONE3" \in Events
  BY EventsAre
<1>c. (UNCHANGED timer => Timed) /\ gate \in BOOLEAN
  BY DEF TypeOK, timer
<1>1. CASE Start0
  BY <1>1, <1>a DEF TypeOK, hand, queue, timer, typec, qis, Start0, StopWpc, Keep
<1>2. CASE Success0
  <2>1. Timed
    BY <1>2, <1>b, <1>c, ArmTypes DEF Success0
  <2>2. pend' \subseteq Requests /\ posted' \subseteq Events /\ gate' \in BOOLEAN
    BY ZenonT(40), <1>2, <1>b DEF TypeOK, Success0
  <2>3. port' \in [{0, 3} -> {"NONE", "SOURCE", "SINK"}] /\ mode' \in {"DISCHG", "SHUTDOWN", "CHARGER"}
    BY <1>2 DEF TypeOK, Success0
  <2> QED
    BY <1>2, <1>a, <2>1, <2>2, <2>3 DEF TypeOK, hand, typec, qis, Success0
<1>3. CASE SetVolt
  <2>1. Timed
    BY <1>3, <1>b, ArmTypes DEF SetVolt
  <2> QED
    BY <1>3, <1>a, <2>1 DEF TypeOK, hand, typec, qis, SetVolt, Keep
<1>4. CASE SetCharge
  <2>1. Timed
    BY <1>4, <1>b, <1>c, ArmTypes DEF SetCharge
  <2> QED
    BY <1>4, <1>a, <2>1 DEF TypeOK, hand, typec, qis, SetCharge, Keep
<1>5. CASE EnumDone
  <2>1. gate' \in BOOLEAN
    BY <1>5, Zenon DEF EnumDone, Opened, TypeOK
  <2>2. tc' \in TypeC /\ pend' \subseteq Requests
    BY <1>5 DEF EnumDone, Woken, TypeOK, TypeC, Requests
  <2>3. off' \in BOOLEAN /\ powered' \in BOOLEAN /\ UNCHANGED <<qi, silent>>
    BY <1>5 DEF EnumDone, StopWpc, TypeOK, qis
  <2> QED
    BY <1>5, <1>a, <2>1, <2>2, <2>3 DEF TypeOK, timer, EnumDone, Idle
<1>6. CASE Closed0
  <2>1. gate' \in BOOLEAN
    BY <1>6, Zenon DEF Closed0, TypeOK
  <2>2. Timed
    BY <1>6, DisarmTypes DEF Closed0
  <2>3. tc' \in TypeC /\ mode' \in {"DISCHG", "SHUTDOWN", "CHARGER"}
    BY <1>6 DEF Closed0, TypeOK, TypeC
  <2>4. port' \in [{0, 3} -> {"NONE", "SOURCE", "SINK"}]
    BY <1>6 DEF Closed0, Freed, TypeOK
  <2> QED
    BY <1>6, <1>a, <2>1, <2>2, <2>3, <2>4 DEF TypeOK, Closed0, StopWpc, Idle, Keep
<1>7. CASE Start3
  <2>1. gate' \in BOOLEAN /\ tcOn' \in BOOLEAN
    BY <1>7, Zenon DEF Start3, Silenced, TypeOK
  <2>2. Timed
    BY <1>7, <1>b, ArmTypes DEF Start3
  <2>3. tc' \in TypeC
    BY <1>7 DEF Start3, Silenced, TypeOK, TypeC
  <2> QED
    BY <1>7, <1>a, <2>1, <2>2, <2>3 DEF TypeOK, hand, qis, Start3, Keep
<1>8. CASE Success3
  <2>1. Timed
    BY <1>8, <1>b, ArmTypes DEF Success3
  <2> QED
    BY <1>8, <1>a, <2>1 DEF TypeOK, hand, typec, qis, Success3, Keep
<1>9. CASE Closed3
  <2>1. gate' \in BOOLEAN
    BY <1>9, Zenon DEF Closed3, TypeOK
  <2>2. tc' \in TypeC /\ mode' \in {"DISCHG", "SHUTDOWN", "CHARGER"}
    BY <1>9 DEF Closed3, Woken, TypeOK, TypeC
  <2>3. port' \in [{0, 3} -> {"NONE", "SOURCE", "SINK"}]
    BY <1>9 DEF Closed3, Freed, TypeOK
  <2>4. posted' \subseteq Events /\ inhand' \in {0, 3}
    BY <1>9, <1>b DEF Closed3, TypeOK
  <2> QED
    BY <1>9, <1>a, <1>c, <2>1, <2>2, <2>3, <2>4 DEF TypeOK, Closed3, StopWpc, Idle
<1>10. CASE ScanLocked
  BY <1>10, <1>a DEF TypeOK, hand, timer, typec, qis, ScanLocked, Keep
<1>11. CASE ScanBusy
  <2>1. gate' \in BOOLEAN /\ handling' \in BOOLEAN
    BY <1>11, Zenon DEF ScanBusy, TypeOK
  <2>2. tc' \in TypeC /\ pend' \subseteq Requests /\ stuck' \in 0 .. Stuck
    BY <1>11, PortManagerAssumption DEF ScanBusy, TypeOK, TypeC
  <2>3. port' \in [{0, 3} -> {"NONE", "SOURCE", "SINK"}]
    BY <1>11 DEF ScanBusy, Recharged, TypeOK
  <2> QED
    BY <1>11, <1>a, <1>c, <2>1, <2>2, <2>3 DEF TypeOK, qis, ScanBusy
<1>12. CASE ScanNothing
  <2>1. port' \in [{0, 3} -> {"NONE", "SOURCE", "SINK"}] /\ stuck' \in 0 .. Stuck
    BY <1>12, PortManagerAssumption DEF ScanNothing, Recharged, TypeOK
  <2> QED
    BY <1>12, <1>a, <1>c, <2>1 DEF TypeOK, typec, qis, ScanNothing, Keep
<1>13. CASE \E r \in Requests : ScanNext(r)
  <2>1. PICK r \in Requests : ScanNext(r)
    BY <1>13
  <2>2. port' \in [{0, 3} -> {"NONE", "SOURCE", "SINK"}] /\ stuck' \in 0 .. Stuck
    BY <2>1, PortManagerAssumption DEF ScanNext, Recharged, TypeOK
  <2>3. inhand' \in {0, 3} /\ pend' \subseteq Requests /\ posted' \subseteq Events
    BY <2>1, ServedIsOwn DEF ScanNext, TypeOK
  <2>4. handling' \in BOOLEAN
    BY <2>1, Zenon DEF ScanNext
  <2> QED
    BY <2>1, <1>a, <1>c, <2>2, <2>3, <2>4 DEF TypeOK, typec, qis, ScanNext
<1> QED
  BY <1>1, <1>2, <1>3, <1>4, <1>5, <1>6, <1>7, <1>8, <1>9, <1>10, <1>11, <1>12, <1>13 DEF Manager

\* The steps of the Type-C machine: what each may change besides the state of the machine.
LEMMA TypeCTypes ==
    ASSUME TypeOK, NEW from, NEW to \in SUBSET TypeC, Step(from, to),
           pend' \subseteq Requests, posted' \subseteq Events, gate' \in BOOLEAN
    PROVE  TypeOK'
<1>1. tc' \in TypeC /\ scanned' \in BOOLEAN
  BY DEF Step
<1> QED
  BY <1>1 DEF TypeOK, Step, hand, timer, others, qis

\* The writers behind the manager's back leave the manager's own variables alone.
LEMMA BehindTypes ==
    ASSUME TypeOK, NEW who, Behind(who)
    PROVE  /\ inhand' \in {0, 3} /\ handling' \in BOOLEAN /\ stuck' \in 0 .. Stuck
           /\ batch' \subseteq Events /\ scanned' \in BOOLEAN
           /\ due' \in Events \cup {"none"} /\ left' \in (0 .. Long) \cup (0 .. Short)
  BY DEF TypeOK, Behind, hand, timer

LEMMA TypeStep == TypeOK /\ [Next]_vars => TypeOK'
<1> SUFFICES ASSUME TypeOK, [Next]_vars PROVE TypeOK'
  OBVIOUS
<1>r. Requests = {"END0", "END3", "TRY0", "TRY3", "RESET"}
  BY DEF Requests
<1>s. "SCAN" \in Events /\ "SUCCESS0" \in Events
  BY EventsAre
<1>1. CASE Take
  BY <1>1, <1>s DEF TypeOK, Take, hand, timer, typec, qis, others
<1>2. CASE Manager
  BY <1>2, ManagerTypes
<1>3. CASE Tick
  <2>1. left' \in (0 .. Long) \cup (0 .. Short)
    BY <1>3, PortManagerAssumption DEF TypeOK, Tick
  <2>2. stuck' \in 0 .. Stuck /\ silent' \in 0 .. Lapse
    BY <1>3, PortManagerAssumption DEF TypeOK, Tick, Quiet, ScanHasWork
  <2> QED
    BY <1>3, <2>1, <2>2 DEF TypeOK, Tick, queue, typec, others
<1>4. CASE TimerFires
  <2>1. posted' \subseteq Events
    BY <1>4 DEF TypeOK, TimerFires
  <2>2. due' \in Events \cup {"none"} /\ left' \in (0 .. Long) \cup (0 .. Short)
    BY <1>4, DisarmTypes DEF TimerFires
  <2> QED
    BY <1>4, <2>1, <2>2 DEF TypeOK, TimerFires, hand, typec, qis, others
<1>5. CASE TcSettle \/ TcGiveUp \/ TcFind \/ TcMiss \/ TcLose \/ TcAttach \/ TcDetach
  <2>1. pend' \subseteq Requests /\ posted' \subseteq Events /\ gate' \in BOOLEAN
    BY <1>5, <1>r, <1>s DEF TypeOK, TcSettle, TcGiveUp, TcFind, TcMiss, TcLose, TcAttach, TcDetach, Keep
  <2>2. \E from : \E to \in SUBSET TypeC : Step(from, to)
    <3>1. /\ {"Toggle"} \in SUBSET TypeC /\ Unattached \in SUBSET TypeC /\ {"Wait"} \in SUBSET TypeC
          /\ {"Snk", "Src"} \in SUBSET TypeC /\ {"SnkUnattached"} \in SUBSET TypeC
          /\ {"SrcUnattached", "Wait", "Toggle"} \in SUBSET TypeC
      BY DEF TypeC, Unattached
    <3>2. CASE TcSettle
      BY <3>1, <3>2 DEF TcSettle
    <3>3. CASE TcGiveUp \/ TcFind \/ TcMiss \/ TcLose \/ TcAttach
      BY <3>1, <3>3 DEF TcGiveUp, TcFind, TcMiss, TcLose, TcAttach
    <3>4. CASE TcDetach
      BY <3>1, <3>4 DEF TcDetach
    <3> QED
      BY <1>5, <3>2, <3>3, <3>4
  <2> QED
    BY <2>1, <2>2, TypeCTypes
<1>6. CASE Answer
  BY <1>6, <1>r DEF TypeOK, Answer, hand, timer, typec, others
<1>7. CASE EndSession
  <2>1. powered' \in BOOLEAN /\ UNCHANGED <<port, hand, queue, timer, typec, mode, gate, off, qi, silent, others>>
    BY <1>7 DEF EndSession
  <2> QED
    BY <2>1 DEF TypeOK, hand, queue, timer, typec, others
<1>8. CASE ReceiverGone
  <2>1. qi' \in BOOLEAN /\ pend' \subseteq Requests
    BY <1>8, <1>r DEF TypeOK, ReceiverGone
  <2>2. silent' \in 0 .. Lapse
    BY <1>8, PortManagerAssumption DEF ReceiverGone
  <2> QED
    BY <1>8, <2>1, <2>2 DEF TypeOK, ReceiverGone, hand, timer, typec, others
<1>9. CASE Protect
  <2>1. port' \in [{0, 3} -> {"NONE", "SOURCE", "SINK"}] /\ tc' \in TypeC
    BY <1>9 DEF TypeOK, Protect, TypeC
  <2> QED
    BY <1>9, <2>1, BehindTypes DEF TypeOK, Protect, Keep
<1>10. CASE Unprotect \/ Click \/ CommUnlock
  <2>1. tc' \in TypeC /\ comm' \in BOOLEAN /\ Restore /\ \E who : Behind(who)
    BY <1>10 DEF TypeOK, Unprotect, Click, CommUnlock, Restore, TypeC
  <2> QED
    BY <2>1, BehindTypes DEF TypeOK, Restore, StopWpc, Keep
<1>11. CASE CommLock
  <2>1. port' \in [{0, 3} -> {"NONE", "SOURCE", "SINK"}] /\ tc' \in TypeC
    BY <1>11 DEF TypeOK, CommLock, TypeC
  <2> QED
    BY <1>11, <2>1, BehindTypes DEF TypeOK, CommLock, StopWpc, Keep
<1>12. CASE Renew
  BY <1>12, <1>r, BehindTypes DEF TypeOK, Renew, typec, qis, others
<1>13. CASE Recharge
  <2>1. recharge' \in BOOLEAN
    BY <1>13, Zenon DEF Recharge
  <2> QED
    BY <1>13, <2>1, BehindTypes DEF TypeOK, Recharge, Keep, typec, qis
<1>14. CASE UNCHANGED vars
  BY <1>14 DEF TypeOK, vars, hand, queue, timer, typec, qis, others
<1> QED
  BY <1>1, <1>2, <1>3, <1>4, <1>5, <1>6, <1>7, <1>8, <1>9, <1>10, <1>11, <1>12, <1>13, <1>14 DEF Next

-----------------------------------------------------------------------------
(* The steps and the port in hand.                                         *)

\* What a step does to the queue that adds no step of the four, takes none back from a batch
\* and leaves the port in hand alone keeps the invariant.
LEMMA NoStepPosted ==
    ASSUME IInv, Queued' \subseteq Queued, inhand' = inhand,
           batch' # {} => posted' \cap Steps = {}
    PROVE  StepsOfPortInHand' /\ OneStep' /\ PostedByScan'
<1>1. \A e \in posted' \cup batch' : e \in Steps => e \in posted \cup batch
  BY DEF Queued
<1>2. StepsOfPortInHand'
  BY <1>1 DEF IInv, StepsOfPortInHand, Steps
<1>3. OneStep'
  BY DEF IInv, OneStep
<1> QED
  BY <1>2, <1>3 DEF PostedByScan

\* CLOSED3 may change the port in hand: it was the only one of the four.
LEMMA Closed3Steps == IInv /\ Closed3 => StepsOfPortInHand' /\ OneStep' /\ PostedByScan'
<1> SUFFICES ASSUME IInv, Closed3 PROVE StepsOfPortInHand' /\ OneStep' /\ PostedByScan'
  OBVIOUS
<1>1. "CLOSED3" \in batch /\ batch' = batch \ {"CLOSED3"}
  BY DEF Closed3, Handling
<1>2. posted' \subseteq posted \cup {"SETVOLT0"}
  BY DEF Closed3
<1>3. posted \cap Steps = {}
  BY <1>1 DEF IInv, PostedByScan
<1>4. batch' \cap Steps = {}
  BY <1>1 DEF IInv, OneStep, Queued, Steps
<1>5. (posted' \cup batch') \cap Steps = {}
  BY <1>2, <1>3, <1>4 DEF Steps
<1> QED
  BY <1>5 DEF StepsOfPortInHand, OneStep, PostedByScan, Queued, Steps

\* The scan takes a port in hand: it finds none of the four anywhere and posts one at most.
LEMMA ScanSteps ==
    ASSUME IInv, NEW r \in Requests, ScanNext(r)
    PROVE  StepsOfPortInHand' /\ OneStep' /\ PostedByScan'
<1>1. batch = {"SCAN"} /\ batch' = {}
  <2>1. batch \in SUBSET Events /\ "SCAN" \in batch /\ batch' = batch \ {"SCAN"}
    BY DEF IInv, TypeOK, ScanNext, Handling
  <2>2. \A f \in batch : Bit["SCAN"] <= Bit[f]
    BY DEF ScanNext, Handling
  <2> QED
    BY <2>1, <2>2, ScanIsLast
<1>2. posted \cap Steps = {}
  BY <1>1 DEF IInv, PostedByScan
<1>3. CASE posted' = posted
  <2>1. (posted' \cup batch') \cap Steps = {}
    BY <1>1, <1>2, <1>3
  <2> QED
    BY <2>1 DEF StepsOfPortInHand, OneStep, PostedByScan, Queued, Steps
<1>4. CASE posted' = posted \cup {Served[r]} /\ inhand' = PortOf[r]
  <2>1. \A e \in posted' \cup batch' : e \in Steps => e = Served[r]
    BY <1>1, <1>2, <1>4
  <2>2. StepsOfPortInHand'
    BY <2>1, <1>4, ServedIsOwn DEF StepsOfPortInHand, Steps
  <2>3. OneStep' /\ PostedByScan'
    BY <2>1, <1>1 DEF OneStep, PostedByScan, Queued
  <2> QED
    BY <2>2, <2>3
<1> QED
  BY <1>3, <1>4 DEF ScanNext

LEMMA ManagerSteps == IInv /\ Manager => StepsOfPortInHand' /\ OneStep' /\ PostedByScan'
<1> SUFFICES ASSUME IInv, Manager PROVE StepsOfPortInHand' /\ OneStep' /\ PostedByScan'
  OBVIOUS
<1>1. CASE Closed3
  BY <1>1, Closed3Steps
<1>2. CASE \E r \in Requests : ScanNext(r)
  BY <1>2, ScanSteps
<1>3. CASE \/ Start0 \/ Success0 \/ SetVolt \/ SetCharge \/ EnumDone \/ Closed0
           \/ Start3 \/ Success3 \/ ScanLocked \/ ScanBusy \/ ScanNothing
  <2>1. batch' \subseteq batch /\ batch # {} /\ posted' \subseteq posted \cup {"DONE0"} /\ inhand' = inhand
    BY <1>3 DEF Start0, Success0, SetVolt, SetCharge, EnumDone, Closed0, Start3, Success3,
       ScanLocked, ScanBusy, ScanNothing, Handling, Keep, Idle, hand
  <2>2. Queued' \subseteq Queued /\ posted' \cap Steps = {}
    BY <2>1 DEF IInv, PostedByScan, Queued, Steps
  <2> QED
    BY <2>1, <2>2, NoStepPosted
<1> QED
  BY <1>1, <1>2, <1>3 DEF Manager

LEMMA StepsStep == IInv /\ [Next]_vars => StepsOfPortInHand' /\ OneStep' /\ PostedByScan'
<1> SUFFICES ASSUME IInv, [Next]_vars PROVE StepsOfPortInHand' /\ OneStep' /\ PostedByScan'
  OBVIOUS
<1>1. CASE Manager
  BY <1>1, ManagerSteps
<1>2. CASE Take
  <2>1. Queued' \subseteq Queued /\ inhand' = inhand /\ posted' = {}
    BY <1>2 DEF Take, Queued, Steps, hand
  <2> QED
    BY <2>1, NoStepPosted
<1>3. CASE TimerFires \/ TcAttach
  <2>1. batch' = {} /\ batch = {} /\ inhand' = inhand
    BY <1>3 DEF TimerFires, TcAttach, Step, hand
  <2>2. posted' \subseteq posted \cup {due, "SUCCESS0"}
    BY <1>3 DEF TimerFires, TcAttach
  <2>3. Queued' \subseteq Queued
    BY <2>1, <2>2 DEF IInv, TimerPostsNone, Queued, Steps
  <2> QED
    BY <2>1, <2>3, NoStepPosted
<1>4. CASE \/ Tick \/ TcSettle \/ TcGiveUp \/ TcFind \/ TcMiss \/ TcLose \/ TcDetach
           \/ Answer \/ EndSession \/ ReceiverGone
           \/ Protect \/ Unprotect \/ Click \/ CommLock \/ CommUnlock \/ Renew \/ Recharge
           \/ UNCHANGED vars
  <2>1. batch' = batch /\ posted' = posted /\ inhand' = inhand
    BY <1>4 DEF Tick, TcSettle, TcGiveUp, TcFind, TcMiss, TcLose, TcDetach, Step, Answer, EndSession,
       ReceiverGone, Protect, Unprotect, Click, CommLock, CommUnlock, Renew, Recharge, Behind, Restore,
       Keep, hand, queue, vars
  <2>2. Queued' \subseteq Queued
    BY <2>1 DEF Queued
  <2> QED
    BY <2>1, <2>2, NoStepPosted DEF IInv, PostedByScan
<1> QED
  BY <1>1, <1>2, <1>3, <1>4 DEF Next

\* Every start of the timer names an event that is none of the four.
LEMMA TimerStep == IInv /\ [Next]_vars => TimerPostsNone'
<1> SUFFICES ASSUME IInv, [Next]_vars PROVE TimerPostsNone'
  OBVIOUS
<1>1. due' \in {due, "none", "SETVOLT0", "SETCHARGE0", "SETCHARGE1", "DONE0", "SUCCESS3", "DONE3"}
  <2>1. CASE Manager
    BY <2>1 DEF Manager, Start0, Success0, SetVolt, SetCharge, EnumDone, Closed0, Start3, Success3,
       Closed3, ScanLocked, ScanBusy, ScanNothing, ScanNext, Arm, Disarm, timer
  <2>2. CASE \/ Take \/ Tick \/ TimerFires \/ TcSettle \/ TcGiveUp \/ TcFind \/ TcMiss \/ TcLose
             \/ TcAttach \/ TcDetach \/ Answer \/ EndSession \/ ReceiverGone
    BY <2>2 DEF Take, Tick, TimerFires, TcSettle, TcGiveUp, TcFind, TcMiss, TcLose, TcAttach,
       TcDetach, Step, Answer, EndSession, ReceiverGone, Disarm, timer
  <2>3. CASE \/ Protect \/ Unprotect \/ Click \/ CommLock \/ CommUnlock \/ Renew \/ Recharge
             \/ UNCHANGED vars
    BY <2>3 DEF Protect, Unprotect, Click, CommLock, CommUnlock, Renew, Recharge, Behind, timer, vars
  <2> QED
    BY <2>1, <2>2, <2>3 DEF Next
<1> QED
  BY <1>1 DEF IInv, TimerPostsNone, Steps

-----------------------------------------------------------------------------
LEMMA Invariance == Spec => []IInv
<1>1. Init => IInv
  BY InitInv
<1>2. IInv /\ [Next]_vars => IInv'
  BY TypeStep, StepsStep, TimerStep DEF IInv
<1> QED
  BY <1>1, <1>2, PTL DEF Spec

\* The variables keep their types, the timers and the watchdog within their limits.
THEOREM TypeCorrect == Spec => []TypeOK
<1>1. IInv => TypeOK
  BY DEF IInv
<1> QED
  BY <1>1, Invariance, PTL

\* No step of one port is in the queue while another port is in hand, whatever the scan, the
\* watchdog, the timer and the handlers that act behind the manager do, and in which order.
THEOREM OwnStepsOnly == Spec => []StepsOfPortInHand
<1>1. IInv => StepsOfPortInHand
  BY DEF IInv
<1> QED
  BY <1>1, Invariance, PTL
-----------------------------------------------------------------------------
(* The manager and the Type-C machine, when nobody acts behind their back: *)
(* a protection, the communication mode or a recharge may each cut a chain *)
(* of steps for good.                                                      *)

Alone == Actors \subseteq {"receiver", "reset"}
Undisturbed == ~comm /\ ~protected /\ ~recharge

Queue == posted \cup batch
Coming == {due} \cup Queue

\* What the timer may be armed with.
Timed == due \in {"none", "SETVOLT0", "SETCHARGE0", "SETCHARGE1", "DONE0", "SUCCESS3", "DONE3"}

\* Between two passes the handlers themselves post two events only; the charge that CLOSED3
\* hands to port 0 is posted when little else is left of the batch.
PostedInBatch ==
    batch # {} =>
        /\ posted \subseteq {"DONE0", "SETVOLT0"}
        /\ "SETVOLT0" \in posted => batch \subseteq {"DONE3", "SCAN"}

\* A connection is handled before the machine takes another step.
Told == "SUCCESS0" \in Queue => Attached /\ ~scanned

\* The partner of a connected port is there, or its end is on its way.
Known == port[0] # "NONE" => Attached \/ "END0" \in pend \/ "CLOSED0" \in Queue

OffWhenEmpty == (tc = "Disable" => port[0] = "NONE") /\ (~tcOn => tc = "Disable")

\* The partner left in the machine's last step: the next scan will see it.
Leaving == "END0" \in pend /\ ~scanned

Tended == "START3" \in Queue => port[0] = "NONE" \/ Attached \/ Leaving

\* Port 3 in hand, its first step taken and its last not: nothing of port 0 that arms the
\* timer can come in between, and the next step of port 3 is on its way.
Wireless == inhand = 3 /\ (handling \/ tc = "Disable") /\ "START3" \notin Queue /\ "CLOSED3" \notin Queue
Started ==
    Wireless =>
        /\ Queue \cap {"SUCCESS0", "SETVOLT0", "SETCHARGE0", "SETCHARGE1"} = {}
        /\ due \in {"SUCCESS3", "DONE3", "none"}
        /\ due # "none" \/ Queue \cap {"SUCCESS3", "DONE3"} # {}
        /\ tc = "Disable" \/ (port[0] # "NONE" /\ (Attached \/ Leaving))

\* A machine that is off while port 0 is in hand will be turned on again.
Waking ==
    tc = "Disable" /\ inhand = 0 =>
        Coming \cap {"CLOSED0", "SETVOLT0", "SETCHARGE0", "SETCHARGE1", "DONE0", "SUCCESS3", "DONE3"} # {}

\* A source that delivers no current will: at the end of the chain, unless it ends before.
Delivering ==
    port[0] = "SOURCE" /\ ~gate =>
        \/ "END0" \in pend \/ "CLOSED0" \in Queue
        \/ Coming \cap {"SUCCESS3", "DONE3", "DONE0", "SETVOLT0"} # {}

CInv ==
    /\ Undisturbed /\ Timed /\ PostedInBatch /\ Told /\ Known /\ OffWhenEmpty /\ Tended
    /\ Started /\ Waking /\ Delivering

LEMMA InitChains == Init => CInv
  BY DEF Init, CInv, Undisturbed, Timed, PostedInBatch, Told, Known, OffWhenEmpty, Tended, Started,
     Wireless, Waking, Delivering, Queue, Attached

\* What a handler may rely on: its event is the first of the batch, so that a connection has
\* been handled before it, and the scan finds nothing else.
LEMMA HandledFirst ==
    ASSUME IInv, CInv, NEW e \in Events, Handling(e)
    PROVE  /\ e \in batch /\ batch' = batch \ {e} /\ batch # {}
           /\ e # "SCAN" => scanned' = scanned
           /\ \A f \in batch : Bit[e] <= Bit[f]
           /\ posted \subseteq {"DONE0", "SETVOLT0"}
           /\ e \notin {"DONE3", "SCAN"} => "SETVOLT0" \notin posted
           /\ e \notin {"START0", "SUCCESS0"} => "SUCCESS0" \notin Queue
           /\ e = "SCAN" => batch = {"SCAN"}
           /\ Undisturbed /\ Undisturbed'
<1>1. e \in batch /\ batch' = batch \ {e} /\ \A f \in batch : Bit[e] <= Bit[f]
  BY DEF Handling
<1>6. e # "SCAN" => scanned' = scanned
  <2>1. e # "SCAN" => scanned' = (scanned \/ FALSE)
    BY Zenon DEF Handling
  <2> QED
    BY <2>1, Zenon DEF IInv, TypeOK
<1>2. posted \subseteq {"DONE0", "SETVOLT0"} /\ (e \notin {"DONE3", "SCAN"} => "SETVOLT0" \notin posted)
  BY <1>1 DEF CInv, PostedInBatch
<1>3. e \notin {"START0", "SUCCESS0"} => "SUCCESS0" \notin Queue
  <2>1. e \notin {"START0", "SUCCESS0"} => Bit[e] > Bit["SUCCESS0"]
    BY EventsAre DEF Bit
  <2>2. Bit[e] \in Int /\ Bit["SUCCESS0"] \in Int
    BY EventsAre DEF Bit
  <2> QED
    BY <1>1, <1>2, <2>1, <2>2 DEF Queue
<1>4. e = "SCAN" => batch = {"SCAN"}
  BY <1>1, ScanIsLast DEF IInv, TypeOK
<1>5. Undisturbed /\ Undisturbed'
  BY DEF CInv, Undisturbed, Handling, others
<1> QED
  BY <1>1, <1>2, <1>3, <1>4, <1>5, <1>6

\* What stays true of the queue when a handler takes its own event and posts DONE0 at most.
LEMMA QueueStays ==
    ASSUME IInv, CInv, NEW e \in Events, Handling(e), posted' \subseteq posted \cup {"DONE0"},
           "SUCCESS0" \notin batch'
    PROVE  PostedInBatch' /\ Told'
<1>1. batch' \subseteq batch /\ posted \subseteq {"DONE0", "SETVOLT0"} /\ batch # {}
  BY HandledFirst
<1>2. PostedInBatch'
  BY <1>1 DEF CInv, PostedInBatch
<1>3. Told'
  BY <1>1 DEF Told, Queue
<1> QED
  BY <1>2, <1>3

-----------------------------------------------------------------------------
(* The handlers of the manager keep the chains.                            *)

LEMMA Start0Chains == IInv /\ CInv /\ Start0 => CInv'
<1> SUFFICES ASSUME IInv, CInv, Start0 PROVE CInv'
  OBVIOUS
<1>0. "START0" \in Events /\ Handling("START0")
  BY EventsAre DEF Start0
<1>a. batch' = batch \ {"START0"} /\ batch # {} /\ Undisturbed' /\ scanned' = scanned
  BY <1>0, HandledFirst
<1>b. UNCHANGED <<port, inhand, handling, pend, posted, due, tc, tcOn, gate>>
  BY DEF Start0, Keep, hand, timer, typec
<1>2. Timed' /\ PostedInBatch'
  BY <1>a, <1>b DEF CInv, Timed, PostedInBatch
<1>3. Told' /\ Known' /\ OffWhenEmpty' /\ Tended'
  BY <1>a, <1>b DEF CInv, Told, Known, OffWhenEmpty, Tended, Leaving, Queue, Attached
<1>4. Started' /\ Waking' /\ Delivering'
  BY <1>a, <1>b DEF CInv, Started, Wireless, Waking, Delivering, Leaving, Coming, Queue, Attached
<1> QED
  BY <1>a, <1>b, <1>2, <1>3, <1>4 DEF CInv

\* A connection is handled while its partner is there: port 0 becomes what the machine found.
LEMMA Success0Chains == IInv /\ CInv /\ Success0 => CInv'
<1> SUFFICES ASSUME IInv, CInv, Success0 PROVE CInv'
  OBVIOUS
<1>0. "SUCCESS0" \in Events /\ Handling("SUCCESS0")
  BY EventsAre DEF Success0
<1>a. /\ "SUCCESS0" \in batch /\ batch' = batch \ {"SUCCESS0"} /\ ~comm /\ Undisturbed'
      /\ posted \subseteq {"DONE0", "SETVOLT0"} /\ scanned' = scanned
  BY <1>0, HandledFirst DEF Undisturbed
<1>b. UNCHANGED <<inhand, handling, tc, tcOn>>
  BY DEF Success0, hand, typec
<1>2. posted' \subseteq posted \cup {"DONE0"} /\ pend' = pend \ {"END0"}
  BY DEF Success0
<1>3. Attached /\ Attached'
  BY <1>a, <1>b DEF CInv, Told, Queue, Attached
<1>4. Timed' /\ PostedInBatch' /\ Told'
  <2>1. Timed'
    BY <1>a, <1>b DEF CInv, Timed, Success0, Arm, timer
  <2> QED
    BY <2>1, <1>0, <1>a, <1>b, <1>2, QueueStays
<1>5. Known' /\ OffWhenEmpty' /\ Tended'
  BY <1>a, <1>b, <1>3 DEF CInv, Known, OffWhenEmpty, Tended, Attached
<1>6. Started' /\ Waking'
  <2>1. ~Wireless'
    BY <1>a, <1>b, <1>2 DEF CInv, Started, Wireless, Queue
  <2> QED
    BY <2>1, <1>3 DEF Started, Waking, Attached
<1>7. Delivering'
  <2>1. CASE tc = "Snk"
    BY <1>a, <1>b, <2>1 DEF Success0, Delivering, IInv, TypeOK
  <2>2. CASE tc # "Snk" /\ mode = "CHARGER"
    BY <1>a, <1>b, <2>2 DEF Success0, Delivering, Coming, Queue
  <2>3. CASE tc # "Snk" /\ mode # "CHARGER"
    BY <1>a, <1>b, <2>3 DEF Success0, Delivering
  <2> QED
    BY <2>1, <2>2, <2>3
<1> QED
  BY <1>a, <1>b, <1>4, <1>5, <1>6, <1>7 DEF CInv

LEMMA SetVoltChains == IInv /\ CInv /\ SetVolt => CInv'
<1> SUFFICES ASSUME IInv, CInv, SetVolt PROVE CInv'
  OBVIOUS
<1>0. "SETVOLT0" \in Events /\ Handling("SETVOLT0")
  BY EventsAre DEF SetVolt
<1>a. /\ "SETVOLT0" \in batch /\ batch' = batch \ {"SETVOLT0"} /\ "SUCCESS0" \notin Queue
      /\ Undisturbed' /\ scanned' = scanned
  BY <1>0, HandledFirst
<1>b. UNCHANGED <<port, inhand, handling, pend, posted, tc, tcOn>> /\ gate'
  BY DEF SetVolt, Keep, hand, typec
<1>2. Timed' /\ due' = IF inhand = 0 THEN "SETCHARGE0" ELSE "SETCHARGE1"
  BY DEF SetVolt, Arm, Timed
<1>3. PostedInBatch' /\ Told'
  BY <1>0, <1>a, <1>b, QueueStays DEF Queue
<1>4. Known' /\ OffWhenEmpty' /\ Tended'
  BY <1>a, <1>b DEF CInv, Known, OffWhenEmpty, Tended, Leaving, Queue, Attached
<1>5. Started' /\ Waking' /\ Delivering'
  <2>1. ~Wireless'
    BY <1>a, <1>b DEF CInv, Started, Wireless, Queue
  <2>2. Waking'
    BY <1>a, <1>b, <1>2 DEF Waking, Coming
  <2> QED
    BY <2>1, <2>2, <1>a, <1>b DEF Started, Delivering
<1> QED
  BY <1>a, <1>b, <1>2, <1>3, <1>4, <1>5 DEF CInv

LEMMA SetChargeChains == IInv /\ CInv /\ SetCharge => CInv'
<1> SUFFICES ASSUME IInv, CInv, SetCharge PROVE CInv'
  OBVIOUS
<1> PICK e \in {"SETCHARGE0", "SETCHARGE1"} : Handling(e)
  BY DEF SetCharge
<1>0. e \in Events
  BY EventsAre
<1>a. /\ e \in batch /\ batch' = batch \ {e} /\ "SUCCESS0" \notin Queue /\ Undisturbed'
      /\ scanned' = scanned
  BY <1>0, HandledFirst
<1>b. UNCHANGED <<port, inhand, handling, pend, posted, tc, tcOn, gate>>
  BY DEF SetCharge, Keep, hand, typec
<1>2. due' = IF inhand = 0 THEN "DONE0" ELSE due
  BY DEF SetCharge, Arm, timer
<1>3. Timed' /\ PostedInBatch' /\ Told'
  <2>1. Timed'
    BY <1>2 DEF CInv, Timed
  <2> QED
    BY <2>1, <1>0, <1>a, <1>b, QueueStays DEF Queue
<1>4. Known' /\ OffWhenEmpty' /\ Tended'
  BY <1>a, <1>b DEF CInv, Known, OffWhenEmpty, Tended, Leaving, Queue, Attached
<1>5. Started' /\ Waking'
  <2>1. ~Wireless'
    BY <1>a, <1>b DEF CInv, Started, Wireless, Queue
  <2>2. Waking'
    BY <1>a, <1>b, <1>2 DEF Waking, Coming
  <2> QED
    BY <2>1, <2>2 DEF Started
<1>6. Delivering'
  <2>1. CASE inhand = 0
    BY <2>1, <1>a, <1>b, <1>2 DEF Delivering, Coming
  <2>2. CASE inhand # 0
    BY <2>2, <1>a, <1>b, <1>2 DEF CInv, Delivering, Coming, Queue
  <2> QED
    BY <2>1, <2>2
<1> QED
  BY <1>a, <1>b, <1>3, <1>4, <1>5, <1>6 DEF CInv

\* The end of a chain turns the machine of a free port on, and the current of a source.
LEMMA EnumDoneChains == IInv /\ CInv /\ EnumDone => CInv'
<1> SUFFICES ASSUME IInv, CInv, EnumDone PROVE CInv'
  OBVIOUS
<1> PICK e \in {"DONE0", "DONE3"} : Handling(e)
  BY DEF EnumDone
<1>0. e \in Events
  BY EventsAre
<1>a. batch' = batch \ {e} /\ "SUCCESS0" \notin Queue /\ Undisturbed' /\ scanned' = scanned
  BY <1>0, HandledFirst
<1>b. /\ UNCHANGED <<port, inhand, posted, due>> /\ ~handling' /\ tcOn'
      /\ pend \subseteq pend' /\ gate' = Opened /\ tc' = Woken(port)
  BY DEF EnumDone, Idle, timer
<1>2. Timed' /\ PostedInBatch' /\ Told'
  <2>1. Timed'
    BY <1>a, <1>b DEF CInv, Timed
  <2> QED
    BY <2>1, <1>0, <1>a, <1>b, QueueStays DEF Queue
<1>3. tc' # "Disable" /\ (port[0] # "NONE" => tc' = tc)
  BY <1>a, <1>b DEF CInv, OffWhenEmpty, Woken, Empty
<1>4. Known' /\ OffWhenEmpty' /\ Tended'
  BY <1>a, <1>b, <1>3 DEF CInv, Known, OffWhenEmpty, Tended, Leaving, Queue, Attached
<1>5. Started' /\ Waking'
  BY <1>a, <1>b, <1>3 DEF Started, Wireless, Waking
<1>6. Delivering'
  BY <1>a, <1>b DEF Delivering, Opened
<1> QED
  BY <1>a, <1>b, <1>2, <1>4, <1>5, <1>6 DEF CInv

\* The end of port 0, which is in hand: it is NONE, and its machine on.
LEMMA Closed0Chains == IInv /\ CInv /\ Closed0 => CInv'
<1> SUFFICES ASSUME IInv, CInv, Closed0 PROVE CInv'
  OBVIOUS
<1>0. "CLOSED0" \in Events /\ Handling("CLOSED0")
  BY EventsAre DEF Closed0
<1>a. /\ "CLOSED0" \in batch /\ batch' = batch \ {"CLOSED0"} /\ "SUCCESS0" \notin Queue /\ Undisturbed'
  BY <1>0, HandledFirst
<1>b. UNCHANGED <<inhand, posted>> /\ tcOn' /\ due' = "none"
  BY DEF Closed0, Keep, Disarm
<1>2. inhand = 0
  BY <1>a, <1>b DEF IInv, StepsOfPortInHand
<1>3. port'[0] = "NONE"
  BY <1>2 DEF Closed0, Freed, IInv, TypeOK
<1>4. Timed' /\ PostedInBatch' /\ Told'
  BY <1>0, <1>a, <1>b, QueueStays DEF Timed, Queue
<1>5. Known' /\ OffWhenEmpty' /\ Tended' /\ Started' /\ Delivering'
  BY <1>a, <1>b, <1>2, <1>3 DEF Known, OffWhenEmpty, Tended, Started, Wireless, Delivering
<1>6. Waking'
  <2>1. tc' # "Disable"
    BY <1>3 DEF Closed0, Empty
  <2> QED
    BY <2>1 DEF Waking
<1> QED
  BY <1>a, <1>b, <1>4, <1>5, <1>6 DEF CInv

\* The first step of the wireless port: port 0 is free and its machine goes off, or its
\* partner is there or has just left.
LEMMA Start3Chains == IInv /\ CInv /\ Start3 => CInv'
<1> SUFFICES ASSUME IInv, CInv, Start3 PROVE CInv'
  OBVIOUS
<1>0. "START3" \in Events /\ Handling("START3")
  BY EventsAre DEF Start3
<1>a. /\ "START3" \in batch /\ batch' = batch \ {"START3"} /\ "SUCCESS0" \notin Queue /\ Undisturbed'
      /\ posted \subseteq {"DONE0"} /\ \A f \in batch : Bit["START3"] <= Bit[f]
      /\ scanned' = scanned
  BY <1>0, HandledFirst
<1>b. UNCHANGED <<port, inhand, handling, posted, pend>> /\ due' = "SUCCESS3"
  BY DEF Start3, Keep, Arm, hand
<1>2. inhand = 3
  BY <1>a, <1>b DEF IInv, StepsOfPortInHand
<1>3. tc' = (IF port[0] = "NONE" THEN "Disable" ELSE tc) /\ tcOn' = (tcOn /\ port[0] # "NONE")
  BY DEF Start3, Silenced, Empty
<1>4. Timed' /\ PostedInBatch' /\ Told'
  BY <1>0, <1>a, <1>b, QueueStays DEF Timed, Queue
<1>5. Known'
  BY <1>a, <1>b, <1>3 DEF CInv, Known, Queue, Attached
<1>6. OffWhenEmpty' /\ Tended'
  BY <1>a, <1>b, <1>3, Zenon DEF CInv, OffWhenEmpty, Tended, Leaving, Queue, Attached
<1>7. Waking' /\ Delivering'
  BY <1>a, <1>b, <1>2 DEF Waking, Delivering, Coming
<1>8. Started'
  <2>1. (posted \cup batch) \cap {"SUCCESS0", "SETVOLT0", "SETCHARGE0", "SETCHARGE1"} = {}
    BY <1>a, <1>b DEF Bit
  <2>2. tc' = "Disable" \/ (port'[0] # "NONE" /\ (Attached' \/ Leaving'))
    BY <1>a, <1>b, <1>3 DEF CInv, Tended, Queue, Attached, Leaving
  <2> QED
    BY <1>a, <1>b, <2>1, <2>2 DEF Started, Queue
<1> QED
  BY <1>a, <1>b, <1>4, <1>5, <1>6, <1>7, <1>8 DEF CInv

LEMMA Success3Chains == IInv /\ CInv /\ Success3 => CInv'
<1> SUFFICES ASSUME IInv, CInv, Success3 PROVE CInv'
  OBVIOUS
<1>0. "SUCCESS3" \in Events /\ Handling("SUCCESS3")
  BY EventsAre DEF Success3
<1>a. batch' = batch \ {"SUCCESS3"} /\ "SUCCESS0" \notin Queue /\ Undisturbed' /\ scanned' = scanned
  BY <1>0, HandledFirst
<1>b. /\ UNCHANGED <<inhand, handling, posted, pend, tc, tcOn, gate>> /\ due' = "DONE3"
      /\ port'[0] = port[0]
  BY DEF Success3, Keep, Arm, hand, typec, IInv, TypeOK
<1>2. Timed' /\ PostedInBatch' /\ Told'
  BY <1>0, <1>a, <1>b, QueueStays DEF Timed, Queue
<1>3. Known' /\ OffWhenEmpty' /\ Tended'
  BY <1>a, <1>b DEF CInv, Known, OffWhenEmpty, Tended, Leaving, Queue, Attached
<1>4. Waking' /\ Delivering'
  BY <1>a, <1>b DEF Waking, Delivering, Coming
<1>5. Started'
  BY <1>a, <1>b DEF CInv, Started, Wireless, Leaving, Queue, Attached
<1> QED
  BY <1>a, <1>b, <1>2, <1>3, <1>4, <1>5 DEF CInv

\* The end of port 3 turns the machine of a free port on; a source is cycled through NONE
\* unless the bank is a charger, and that leaves the gate alone.
LEMMA Closed3Chains == IInv /\ CInv /\ Closed3 => CInv'
<1> SUFFICES ASSUME IInv, CInv, Closed3 PROVE CInv'
  OBVIOUS
<1> DEFINE cycled == mode # "CHARGER" /\ Freed[0] = "SOURCE"
<1>0. "CLOSED3" \in Events /\ Handling("CLOSED3")
  BY EventsAre DEF Closed3
<1>a. /\ "CLOSED3" \in batch /\ batch' = batch \ {"CLOSED3"} /\ "SUCCESS0" \notin Queue /\ Undisturbed'
      /\ posted \subseteq {"DONE0", "SETVOLT0"} /\ \A f \in batch : Bit["CLOSED3"] <= Bit[f]
      /\ scanned' = scanned
  BY <1>0, HandledFirst
<1>b. /\ UNCHANGED <<pend, due>> /\ tcOn' /\ ~handling' /\ tc' = Woken(port')
      /\ posted \subseteq posted' /\ posted' \subseteq posted \cup {"SETVOLT0"}
  BY DEF Closed3, Idle, timer
<1>2. inhand = 3
  BY <1>a, <1>b DEF IInv, StepsOfPortInHand
<1>3. port'[0] = IF cycled THEN "NONE" ELSE port[0]
  BY <1>2 DEF Closed3, Freed, IInv, TypeOK
<1>4. tc' # "Disable" /\ (port'[0] # "NONE" => tc' = tc)
  BY <1>a, <1>b, <1>3 DEF CInv, OffWhenEmpty, Woken, Empty
<1>5. PostedInBatch' /\ Told'
  <2>1. batch' \subseteq {"DONE3", "SCAN"}
    BY <1>a, <1>b, EventsAre DEF IInv, TypeOK, Bit
  <2>2. "SUCCESS0" \notin Queue'
    BY <1>a, <1>b DEF Queue
  <2> QED
    BY <1>a, <1>b, <2>1, <2>2 DEF PostedInBatch, Told
<1>6. Timed' /\ OffWhenEmpty' /\ Started' /\ Waking'
  BY <1>a, <1>b, <1>4 DEF CInv, Timed, OffWhenEmpty, Started, Wireless, Waking
<1>7. Known' /\ Tended'
  BY <1>a, <1>b, <1>3, <1>4 DEF CInv, Known, Tended, Leaving, Queue, Attached
<1>8. Delivering'
  <2> SUFFICES ASSUME port'[0] = "SOURCE", ~gate' PROVE Delivering'
    BY DEF Delivering
  <2>1. ~cycled /\ port[0] = "SOURCE"
    BY <1>3
  <2>2. ~gate
    <3>1. inhand # 0
      BY <1>2
    <3>2. gate' = (gate /\ inhand # 0 /\ ~cycled)
      BY Zenon DEF Closed3
    <3> QED
      BY <2>1, <3>1, <3>2, Zenon
  <2> QED
    BY <1>a, <1>b, <2>1, <2>2 DEF CInv, Delivering, Coming, Queue
<1> QED
  BY <1>a, <1>b, <1>5, <1>6, <1>7, <1>8 DEF CInv

\* The scan finds no port's step in the batch, none of them posted and no connection pending.
LEMMA ScanFinds ==
    ASSUME IInv, CInv, Handling("SCAN")
    PROVE  /\ batch = {"SCAN"} /\ batch' = {} /\ Undisturbed' /\ posted \subseteq {"DONE0", "SETVOLT0"}
           /\ ~comm /\ ~recharge /\ Queue = posted \cup {"SCAN"} /\ PostedInBatch'
<1>1. /\ batch = {"SCAN"} /\ batch' = batch \ {"SCAN"} /\ Undisturbed /\ Undisturbed'
      /\ posted \subseteq {"DONE0", "SETVOLT0"}
  BY EventsAre, HandledFirst
<1> QED
  BY <1>1 DEF Undisturbed, Queue, PostedInBatch

\* A port is in hand.  The partner of port 0 has left while port 3 is: port 0 is NONE and its
\* machine off, until port 3 is done.
LEMMA ScanBusyChains == IInv /\ CInv /\ ScanBusy => CInv'
<1> SUFFICES ASSUME IInv, CInv, ScanBusy PROVE CInv'
  OBVIOUS
<1>1. /\ batch = {"SCAN"} /\ batch' = {} /\ Undisturbed' /\ posted \subseteq {"DONE0", "SETVOLT0"}
      /\ ~recharge /\ Queue = posted \cup {"SCAN"} /\ Queue' = posted' /\ PostedInBatch'
  BY ScanFinds DEF ScanBusy, Queue
<1>2. UNCHANGED <<inhand, posted, due, tcOn>> /\ handling
  BY DEF ScanBusy, timer
<1>3. Timed' /\ Told'
  BY <1>1, <1>2 DEF CInv, Timed, Told
<1>4. CASE Away
  <2>1. inhand = 3
    BY <1>4 DEF Away, IInv, TypeOK
  <2>2. port'[0] = "NONE" /\ tc' = "Disable"
    BY <1>4 DEF ScanBusy, IInv, TypeOK
  <2>3. Known' /\ OffWhenEmpty' /\ Tended' /\ Waking' /\ Delivering'
    BY <1>2, <2>1, <2>2 DEF Known, OffWhenEmpty, Tended, Waking, Delivering
  <2>4. Started'
    BY <1>1, <1>2, <2>1, <2>2 DEF CInv, Started, Wireless
  <2> QED
    BY <1>1, <1>3, <2>3, <2>4 DEF CInv
<1>5. CASE ~Away
  <2>1. UNCHANGED <<port, tc, pend>>
    BY <1>1, <1>5 DEF ScanBusy, Recharged
  <2>2. gate' = gate
    <3>1. gate' = (gate /\ ~Away)
      BY Zenon DEF ScanBusy
    <3> QED
      BY <3>1, <1>5, Zenon DEF IInv, TypeOK
  <2>3. Known' /\ OffWhenEmpty' /\ Waking' /\ Delivering'
    BY <1>1, <1>2, <2>1, <2>2 DEF CInv, Known, OffWhenEmpty, Waking, Delivering, Coming, Attached
  <2>4. Tended'
    BY <1>1, <1>2 DEF Tended
  <2>5. Started'
    BY <1>1, <1>2, <1>5, <2>1 DEF CInv, Started, Wireless, Leaving, Attached, Away
  <2> QED
    BY <1>1, <1>3, <2>3, <2>4, <2>5 DEF CInv
<1> QED
  BY <1>4, <1>5

LEMMA ScanNothingChains == IInv /\ CInv /\ ScanNothing => CInv'
<1> SUFFICES ASSUME IInv, CInv, ScanNothing PROVE CInv'
  OBVIOUS
<1>1. /\ batch = {"SCAN"} /\ batch' = {} /\ Undisturbed' /\ posted \subseteq {"DONE0", "SETVOLT0"}
      /\ ~recharge /\ Queue = posted \cup {"SCAN"} /\ Queue' = posted' /\ PostedInBatch'
  BY ScanFinds DEF ScanNothing, Queue
<1>2. UNCHANGED <<port, inhand, handling, pend, posted, due, tc, tcOn, gate>> /\ pend = {}
  BY <1>1 DEF ScanNothing, Recharged, Keep, timer, typec
<1>3. Timed' /\ Told' /\ Tended'
  BY <1>1, <1>2 DEF CInv, Timed, Told, Tended
<1>4. Known' /\ OffWhenEmpty' /\ Waking' /\ Delivering'
  BY <1>1, <1>2 DEF CInv, Known, OffWhenEmpty, Waking, Delivering, Coming, Attached
<1>5. Started'
  BY <1>1, <1>2 DEF CInv, Started, Wireless, Leaving, Attached
<1> QED
  BY <1>1, <1>3, <1>4, <1>5 DEF CInv

\* The next request.  An end of port 0 goes first: when port 3 is taken in hand, port 0 is free
\* or its partner is there.
LEMMA ScanNextChains ==
    ASSUME IInv, CInv, NEW r \in Requests, ScanNext(r)
    PROVE  CInv'
<1> DEFINE taken == r # "TRY0" \/ port[0] = "NONE"
           told  == taken /\ (r # "RESET" \/ mode = "CHARGER")
<1>1. /\ batch = {"SCAN"} /\ batch' = {} /\ Undisturbed' /\ posted \subseteq {"DONE0", "SETVOLT0"}
      /\ ~recharge /\ Queue = posted \cup {"SCAN"} /\ Queue' = posted' /\ PostedInBatch'
  BY ScanFinds DEF ScanNext, Queue
<1>2. /\ UNCHANGED <<port, due, tc, tcOn, gate>> /\ pend' = pend \ {r} /\ handling' = taken
      /\ inhand' = (IF taken THEN PortOf[r] ELSE inhand)
      /\ posted' = IF told THEN posted \cup {Served[r]} ELSE posted
  <2>1. Recharged = port
    BY <1>1 DEF Recharged
  <2> QED
    BY <1>1, <2>1 DEF ScanNext, timer, typec
<1>3. r = "END0" => "CLOSED0" \in Queue'
  BY <1>1, <1>2 DEF Served
<1>4. posted' \subseteq posted \cup {"CLOSED0", "CLOSED3", "START0", "START3", "SETVOLT0"}
  BY <1>2 DEF Served, Requests
<1>5. Timed' /\ Told'
  BY <1>1, <1>2, <1>4 DEF CInv, Timed, Told
<1>6. Known' /\ OffWhenEmpty'
  BY <1>1, <1>2, <1>3 DEF CInv, Known, OffWhenEmpty, Attached
<1>7. Tended'
  <2> SUFFICES ASSUME "START3" \in Queue' PROVE port[0] = "NONE" \/ Attached
    BY <1>2 DEF Tended, Attached
  <2>1. r = "TRY3"
    BY <1>1, <1>2 DEF Served, Requests
  <2>2. "END0" \notin pend
    BY <2>1 DEF ScanNext, Rank, Requests
  <2> QED
    BY <1>1, <2>2 DEF CInv, Known
<1>8. Started'
  <2>1. tc = "Disable" => taken
    BY DEF CInv, OffWhenEmpty
  <2>2. Wireless' => taken
    BY <1>2, <2>1 DEF Wireless
  <2>3. taken /\ inhand' = 3 => "START3" \in Queue' \/ "CLOSED3" \in Queue'
    BY <1>1, <1>2 DEF Served, PortOf, Requests
  <2> QED
    BY <2>2, <2>3 DEF Started, Wireless
<1>9. Waking'
  <2>1. tc = "Disable" /\ inhand = 3 => Coming \cap {"SUCCESS3", "DONE3"} # {}
    BY <1>1 DEF CInv, Started, Wireless, Coming
  <2>2. tc = "Disable" =>
           Coming \cap {"CLOSED0", "SETVOLT0", "SETCHARGE0", "SETCHARGE1", "DONE0", "SUCCESS3", "DONE3"} # {}
    BY <2>1 DEF CInv, Waking, IInv, TypeOK
  <2> QED
    BY <1>1, <1>2, <2>2 DEF Waking, Coming
<1>10. Delivering'
  BY <1>1, <1>2, <1>3 DEF CInv, Delivering, Coming
<1> QED
  BY <1>1, <1>5, <1>6, <1>7, <1>8, <1>9, <1>10 DEF CInv

LEMMA ManagerChains == IInv /\ CInv /\ Manager => CInv'
<1>1. IInv /\ CInv /\ ScanLocked => FALSE
  BY ScanFinds DEF ScanLocked
<1> QED
  BY <1>1, Start0Chains, Success0Chains, SetVoltChains, SetChargeChains, EnumDoneChains, Closed0Chains,
     Start3Chains, Success3Chains, Closed3Chains, ScanBusyChains, ScanNothingChains, ScanNextChains
     DEF Manager

-----------------------------------------------------------------------------
(* The steps of the others keep the chains.                                *)

\* Steps that touch neither the machine, the port and its gate nor the timer, and bring no
\* event but the scan's.
LEMMA BystandersChains ==
    ASSUME CInv, UNCHANGED <<port, inhand, handling, scanned, due, tc, tcOn, gate, others>>,
           "END0" \in pend' <=> "END0" \in pend, Queue' \in {Queue, Queue \cup {"SCAN"}}, PostedInBatch'
    PROVE  CInv'
<1>1. Undisturbed' /\ Timed'
  BY DEF CInv, Undisturbed, Timed, others
<1>2. Told' /\ Known' /\ OffWhenEmpty' /\ Tended'
  BY DEF CInv, Told, Known, OffWhenEmpty, Tended, Leaving, Attached
<1>3. Started'
  BY DEF CInv, Started, Wireless, Leaving, Attached
<1>4. Waking' /\ Delivering'
  BY DEF CInv, Waking, Delivering, Coming
<1> QED
  BY <1>1, <1>2, <1>3, <1>4 DEF CInv

\* The timer's event moves to the queue, which is empty of a batch.
LEMMA TimerFiresChains == CInv /\ TimerFires => CInv'
<1> SUFFICES ASSUME CInv, TimerFires PROVE CInv'
  OBVIOUS
<1>1. /\ UNCHANGED <<port, inhand, handling, scanned, tc, tcOn, gate, others, pend>>
      /\ due \in {"SETVOLT0", "SETCHARGE0", "SETCHARGE1", "DONE0", "SUCCESS3", "DONE3"} /\ due' = "none"
      /\ Queue' = Queue \cup {due} /\ batch' = {}
  BY DEF CInv, Timed, TimerFires, Disarm, Queue, hand, typec
<1>2. Undisturbed' /\ Timed' /\ PostedInBatch'
  BY <1>1 DEF CInv, Undisturbed, Timed, PostedInBatch, others
<1>3. Told' /\ Known' /\ OffWhenEmpty' /\ Tended'
  BY <1>1 DEF CInv, Told, Known, OffWhenEmpty, Tended, Leaving, Attached
<1>4. Started'
  BY <1>1 DEF CInv, Started, Wireless, Leaving, Attached
<1>5. Waking' /\ Delivering'
  BY <1>1 DEF CInv, Waking, Delivering, Coming
<1> QED
  BY <1>2, <1>3, <1>4, <1>5 DEF CInv

\* What every step of the machine may rely on: nothing is left of the last one, and no batch
\* is being handled; and what none of them does.
LEMMA StepFinds ==
    ASSUME CInv, NEW from \in SUBSET (TypeC \ {"Disable"}), NEW to \in SUBSET (TypeC \ {"Disable"}),
           Step(from, to)
    PROVE  /\ batch = {} /\ scanned /\ ~scanned' /\ "SUCCESS0" \notin Queue
           /\ UNCHANGED <<port, inhand, handling, batch, due, tcOn>> /\ tcOn
           /\ tc # "Disable" /\ tc' # "Disable" /\ tc \in from /\ tc' \in to
           /\ Undisturbed' /\ Timed' /\ PostedInBatch' /\ OffWhenEmpty' /\ Waking'
<1>1. /\ batch = {} /\ scanned /\ ~scanned' /\ UNCHANGED <<port, inhand, handling, batch, due, tcOn>>
      /\ tcOn /\ tc \in from /\ tc' \in to /\ UNCHANGED others
  BY DEF Step, hand, timer
<1>2. "SUCCESS0" \notin Queue
  BY <1>1 DEF CInv, Told
<1>3. Undisturbed' /\ Timed' /\ PostedInBatch'
  BY <1>1 DEF CInv, Undisturbed, Timed, PostedInBatch, others
<1>4. OffWhenEmpty' /\ Waking'
  BY <1>1 DEF OffWhenEmpty, Waking
<1> QED
  BY <1>1, <1>2, <1>3, <1>4

\* The machine looks for a partner: none was there, and none is.
LEMMA SearchChains ==
    CInv /\ (TcSettle \/ TcGiveUp \/ TcFind \/ TcMiss \/ TcLose) => CInv'
<1> SUFFICES ASSUME CInv, TcSettle \/ TcGiveUp \/ TcFind \/ TcMiss \/ TcLose PROVE CInv'
  OBVIOUS
<1> DEFINE Searching == TypeC \ {"Disable", "Snk", "Src"}
<1>1. PICK from \in SUBSET Searching, to \in SUBSET Searching : Step(from, to)
  <2>1. {"Restart"} \subseteq Searching /\ {"Toggle"} \subseteq Searching /\ Unattached \subseteq Searching
        /\ {"Wait"} \subseteq Searching /\ {"SrcUnattached"} \subseteq Searching
    BY DEF TypeC, Unattached
  <2>2. CASE TcSettle
    BY <2>1, <2>2 DEF TcSettle
  <2>3. CASE TcMiss
    <3>1. (IF comm THEN {"SrcUnattached"} ELSE Unattached) \subseteq Searching
      BY <2>1
    <3> QED
      BY <2>1, <2>3, <3>1 DEF TcMiss
  <2>4. CASE TcGiveUp \/ TcFind \/ TcLose
    BY <2>1, <2>4 DEF TcGiveUp, TcFind, TcLose
  <2> QED
    BY <2>2, <2>3, <2>4
<1>2. posted' = posted /\ pend \subseteq pend' /\ gate' = gate
  BY DEF TcSettle, TcGiveUp, TcFind, TcMiss, TcLose, Keep
<1>3. /\ batch = {} /\ scanned /\ "SUCCESS0" \notin Queue
      /\ UNCHANGED <<port, inhand, handling, batch, due>>
      /\ tc # "Disable" /\ tc' # "Disable" /\ tc \in from /\ tc' \in to
      /\ Undisturbed' /\ Timed' /\ PostedInBatch' /\ OffWhenEmpty' /\ Waking'
  BY <1>1, StepFinds
<1>4. Queue' = Queue /\ Coming' = Coming /\ ~Attached /\ ~Attached' /\ ~Leaving
  BY <1>1, <1>2, <1>3 DEF Queue, Coming, Attached, Leaving
<1>5. Told' /\ Known' /\ Tended' /\ Delivering'
  BY <1>2, <1>3, <1>4 DEF CInv, Told, Known, Tended, Delivering
<1>6. Started'
  <2>1. ~Wireless
    BY <1>3, <1>4 DEF CInv, Started
  <2> QED
    BY <2>1, <1>3, <1>4 DEF Started, Wireless
<1> QED
  BY <1>3, <1>5, <1>6 DEF CInv

\* It finds one: the wireless port is not in the middle of its steps.
LEMMA AttachChains == CInv /\ TcAttach => CInv'
<1> SUFFICES ASSUME CInv, TcAttach PROVE CInv'
  OBVIOUS
<1>1. Step({"Wait"}, {"Snk", "Src"}) /\ posted' = posted \cup {"SUCCESS0"} /\ UNCHANGED <<pend, gate>>
  BY DEF TcAttach
<1>2. /\ batch = {} /\ scanned /\ ~scanned'
      /\ UNCHANGED <<port, inhand, handling, batch, due>>
      /\ tc # "Disable" /\ tc' # "Disable" /\ tc = "Wait" /\ tc' \in {"Snk", "Src"}
      /\ Undisturbed' /\ Timed' /\ PostedInBatch' /\ OffWhenEmpty' /\ Waking'
  <2>1. {"Wait"} \in SUBSET (TypeC \ {"Disable"}) /\ {"Snk", "Src"} \in SUBSET (TypeC \ {"Disable"})
    BY DEF TypeC
  <2> QED
    BY <1>1, <2>1, StepFinds
<1>3. Queue' = Queue \cup {"SUCCESS0"} /\ Attached' /\ ~Attached /\ ~Leaving
  BY <1>1, <1>2 DEF Queue, Attached, Leaving
<1>4. Told' /\ Known' /\ Tended' /\ Delivering'
  BY <1>1, <1>2, <1>3 DEF CInv, Told, Known, Tended, Delivering, Coming
<1>5. Started'
  <2>1. ~Wireless
    BY <1>2, <1>3 DEF CInv, Started
  <2> QED
    BY <2>1, <1>2, <1>3 DEF Started, Wireless
<1> QED
  BY <1>2, <1>4, <1>5 DEF CInv

\* Its partner goes: the end is on its way, and the next scan sees it.
LEMMA DetachChains == CInv /\ TcDetach => CInv'
<1> SUFFICES ASSUME CInv, TcDetach PROVE CInv'
  OBVIOUS
<1> DEFINE Running == TypeC \ {"Disable"}
<1>1. PICK from \in SUBSET Running, to \in SUBSET Running : Step(from, to)
  <2>1. {"Snk"} \in SUBSET Running /\ {"SnkUnattached"} \in SUBSET Running /\ {"Src"} \in SUBSET Running
        /\ {"SrcUnattached", "Wait", "Toggle"} \in SUBSET Running
    BY DEF TypeC
  <2> QED
    BY <2>1 DEF TcDetach
<1>2. posted' = posted /\ "END0" \in pend'
  BY DEF TcDetach
<1>3. /\ batch = {} /\ ~scanned' /\ "SUCCESS0" \notin Queue
      /\ UNCHANGED <<port, inhand, handling, batch, due>> /\ tc # "Disable" /\ tc' # "Disable"
      /\ Undisturbed' /\ Timed' /\ PostedInBatch' /\ OffWhenEmpty' /\ Waking'
  BY <1>1, StepFinds
<1>4. Queue' = Queue /\ Leaving'
  BY <1>2, <1>3 DEF Queue, Leaving
<1>5. Told' /\ Known' /\ Tended' /\ Delivering'
  BY <1>2, <1>3, <1>4 DEF Told, Known, Tended, Delivering
<1>6. Started'
  BY <1>3, <1>4 DEF CInv, Started, Wireless
<1> QED
  BY <1>3, <1>5, <1>6 DEF CInv

LEMMA ChainsStep == ASSUME Alone PROVE IInv /\ CInv /\ [Next]_vars => CInv'
<1> SUFFICES ASSUME IInv, CInv, [Next]_vars PROVE CInv'
  OBVIOUS
<1>1. CASE Manager
  BY <1>1, ManagerChains
<1>2. CASE TcSettle \/ TcGiveUp \/ TcFind \/ TcMiss \/ TcLose \/ TcAttach \/ TcDetach
  BY <1>2, SearchChains, AttachChains, DetachChains
<1>3. CASE TimerFires
  BY <1>3, TimerFiresChains
<1>4. CASE Protect \/ Unprotect \/ Click \/ CommLock \/ CommUnlock \/ Recharge
  BY <1>4 DEF Alone, Protect, Unprotect, Click, CommLock, CommUnlock, Recharge, Behind
<1>5. CASE Take
  <2>1. UNCHANGED <<port, inhand, handling, scanned, due, tc, tcOn, gate, others, pend>>
    BY <1>5 DEF Take, hand, timer, typec
  <2>2. Queue' \in {Queue, Queue \cup {"SCAN"}} /\ PostedInBatch'
    BY <1>5 DEF Take, Queue, PostedInBatch
  <2> QED
    BY <2>1, <2>2, BystandersChains
<1>6. CASE Tick \/ Answer \/ EndSession \/ ReceiverGone \/ Renew \/ UNCHANGED vars
  <2>1. UNCHANGED <<port, inhand, handling, scanned, due, tc, tcOn, gate, others, posted, batch>>
    BY <1>6 DEF Tick, Answer, EndSession, ReceiverGone, Renew, Behind, vars, hand, queue, timer, typec
  <2>2. "END0" \in pend' <=> "END0" \in pend
    BY <1>6 DEF Tick, Answer, EndSession, ReceiverGone, Renew, vars, queue
  <2>3. Queue' = Queue /\ PostedInBatch'
    BY <2>1 DEF CInv, Queue, PostedInBatch
  <2> QED
    BY <2>1, <2>2, <2>3, BystandersChains
<1> QED
  BY <1>1, <1>2, <1>3, <1>4, <1>5, <1>6 DEF Next

LEMMA ChainsInvariance == ASSUME Alone PROVE Spec => [](IInv /\ CInv)
<1>1. Init => IInv /\ CInv
  BY InitInv, InitChains
<1>2. IInv /\ CInv /\ [Next]_vars => (IInv /\ CInv)'
  <2>1. IInv /\ [Next]_vars => IInv'
    BY TypeStep, StepsStep, TimerStep DEF IInv
  <2> QED
    BY <2>1, ChainsStep
<1> QED
  BY <1>1, <1>2, PTL DEF Spec

\* With nobody behind their back, the manager and the machine agree once all is still, in
\* whatever order partners came and went: the machine listens, and a port that is connected
\* has its partner.
THEOREM PartnersStayKnown == ASSUME Alone PROVE Spec => []PartnersKnown
<1>1. IInv /\ CInv => PartnersKnown
  <2> SUFFICES ASSUME IInv, CInv, Still PROVE tcOn /\ tc # "Disable" /\ (port[0] # "NONE" => Attached)
    BY DEF PartnersKnown, PortListens, ConnectedIsAttached
  <2>1. Queue = {} /\ Coming = {"none"} /\ pend = {} /\ inhand \in {0, 3}
    BY DEF Still, Quiet, Queue, Coming, IInv, TypeOK
  <2>2. tc # "Disable"
    BY <2>1 DEF CInv, Started, Wireless, Waking, Still
  <2> QED
    BY <2>1, <2>2 DEF CInv, Known, OffWhenEmpty
<1> QED
  BY <1>1, ChainsInvariance, PTL

\* With nobody behind their back, every chain of steps goes on to its end: the wireless port
\* in hand has its next step coming, and a source gets its current back.
THEOREM ChainsAlwaysEnd == ASSUME Alone PROVE Spec => []ChainsEnd
<1>1. IInv /\ CInv => ChainsEnd
  <2> SUFFICES ASSUME IInv, CInv PROVE WirelessGoesOn /\ SourceDelivers
    BY DEF ChainsEnd
  <2>1. WirelessGoesOn
    BY DEF CInv, Started, Wireless, WirelessGoesOn, Queue
  <2>2. SourceDelivers
    <3> SUFFICES ASSUME Still, port[0] = "SOURCE", ~gate PROVE FALSE
      BY DEF SourceDelivers
    <3>1. Queue = {} /\ Coming = {"none"} /\ pend = {}
      BY DEF Still, Quiet, Queue, Coming
    <3> QED
      BY <3>1 DEF CInv, Delivering
  <2> QED
    BY <2>1, <2>2
<1> QED
  BY <1>1, ChainsInvariance, PTL
=============================================================================
