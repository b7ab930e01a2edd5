----------------------------- MODULE Osal_proofs -----------------------------
(***************************************************************************)
(* Proofs about Osal for every number of tasks, timers and bits, every     *)
(* counter width and every watchdog period that OsalAssumption and         *)
(* TimeoutFits allow.                                                      *)
(***************************************************************************)
EXTENDS Osal, WellFoundedInduction, TLAPS

Updating == pc \in {"update", "fire"}

\* The copy of the word is exact while interrupts are masked.
CopyExact == pc = "clear" => snap = event[id]

\* In a load-store window only interrupts have touched the word since the
\* load; what they added is recorded in raced.
WindowOK ==
    pc \in {"fire", "store"} =>
        /\ \A b \in event[rmw.task] \ rmw.word : <<rmw.task, b>> \in raced
        /\ rmw.word \subseteq event[rmw.task] \cup rmw.bits
        /\ rmw.bits \subseteq rmw.word
        /\ rmw.bits # {}

OnlyIsrPostsRace == raced \subseteq IsrEvent

\* How far the ticks can run ahead of the timers: the watchdog is fed just
\* before they are credited, so two of its periods at most.
GapBound ==
    /\ pc \in {"read", "reread"} => Gap <= wdt + WdtTicks
    /\ pc \notin {"read", "reread"} => Gap <= wdt
    /\ pc = "reread" => elapsed <= Gap /\ id = 0

\* The link between a timer's counter and real time, by phase of the update.
Pending(i) == Updating /\ id <= i
CountOK ==
    \A i \in Timer : timer[i].running =>
        /\ timer[i].events # {}
        /\ IF Pending(i)
           THEN timer[i].remain - elapsed - Gap = left[i] + skipped[i]
           ELSE timer[i].remain - Gap = left[i] + skipped[i]
        /\ Updating /\ ~Pending(i) => timer[i].remain > 0

FireOK == pc = "fire" => Expired(id)

IInv ==
    /\ TypeOK
    /\ CopyExact
    /\ WindowOK
    /\ OnlyIsrPostsRace
    /\ NoPostLost
    /\ GapBound
    /\ CountOK
    /\ FireOK

-----------------------------------------------------------------------------
\* uint16_t arithmetic does what it should within the range.

LEMMA PeriodType == Period \subseteq Int
<1>1. Ticks \subseteq Int
  BY OsalAssumption DEF Ticks
<1> QED
  BY <1>1, OsalAssumption

LEMMA SubType == ASSUME NEW a \in Ticks, NEW b \in Ticks
                 PROVE  Sub(a, b) \in Ticks
  BY OsalAssumption DEF Sub, Ticks

LEMMA SubSelf == ASSUME NEW a \in Ticks PROVE Sub(a, a) = 0
  BY OsalAssumption DEF Sub, Ticks

LEMMA IncSub == ASSUME NEW a \in Ticks, NEW b \in Ticks, Sub(a, b) + 1 < TickMod
                PROVE  Inc(a) \in Ticks /\ Sub(Inc(a), b) = Sub(a, b) + 1
  BY OsalAssumption DEF Inc, Sub, Ticks

LEMMA AddExact == ASSUME NEW a \in Ticks, NEW b \in Ticks, a + b < TickMod
                  PROVE  Add(a, b) = a + b /\ Add(a, b) \in Ticks
  BY OsalAssumption DEF Add, Ticks

LEMMA GapType == TypeOK => Gap \in Ticks
  BY SubType DEF TypeOK, Gap
-----------------------------------------------------------------------------
LEMMA InitInv == Init => IInv
<1> SUFFICES ASSUME Init PROVE IInv
  OBVIOUS
<1> USE OsalAssumption
<1>1. Stopped \in [running : BOOLEAN, remain : Ticks, period : Period \cup {0},
                   task : Task, events : SUBSET Bit]
  BY DEF Stopped, Ticks, Task
<1>2. 0 \in Ticks /\ 0 \in Task /\ Gap = 0
  BY SubSelf DEF Init, Ticks, Task, Gap
<1>3. TypeOK
  BY <1>1, <1>2 DEF Init, TypeOK
<1>4. \A i \in Timer : ~timer[i].running
  BY DEF Init, Stopped
<1>5. CopyExact /\ WindowOK /\ OnlyIsrPostsRace /\ NoPostLost /\ FireOK
  BY DEF Init, CopyExact, WindowOK, OnlyIsrPostsRace, NoPostLost, FireOK
<1>6. GapBound /\ CountOK
  BY <1>2, <1>4 DEF Init, GapBound, CountOK
<1> QED
  BY <1>3, <1>5, <1>6 DEF IInv

-----------------------------------------------------------------------------
LEMMA TypeStep == TypeOK /\ GapBound /\ CountOK /\ FireOK /\ [Next]_vars => TypeOK'
<1> SUFFICES ASSUME TypeOK, GapBound, CountOK, FireOK, [Next]_vars PROVE TypeOK'
  OBVIOUS
<1> USE OsalAssumption, TimeoutFits
<1>0. Gap \in Ticks
  BY GapType
<1>1. CASE Feed
  BY <1>1 DEF Feed, TypeOK, ghostvars
<1>2. CASE ReadInterval
  BY <1>0, <1>2 DEF ReadInterval, TypeOK, ghostvars
<1>3. CASE RereadTicks
  <2>1. Gap - elapsed \in Nat
    BY <1>0, <1>3 DEF RereadTicks, TypeOK, GapBound, Ticks
  <2>2. skipped' \in [Timer -> Nat]
    BY <2>1, <1>3 DEF RereadTicks, TypeOK
  <2> QED
    BY <2>2, <1>3 DEF RereadTicks, TypeOK
<1>4. CASE CountDown
  <2>1. id \in Timer
    BY <1>4 DEF CountDown, TypeOK, Timer
  <2>2. timer[id].running => timer[id].remain - elapsed \in Ticks
    BY <1>4, <2>1 DEF CountDown, TypeOK, Expired, Ticks
  <2>3. timer' \in [Timer -> [running : BOOLEAN, remain : Ticks, period : Period \cup {0},
                             task : Task, events : SUBSET Bit]]
    <3>1. /\ timer \in [Timer -> [running : BOOLEAN, remain : Ticks, period : Period \cup {0},
                                   task : Task, events : SUBSET Bit]]
          /\ timer' = [timer EXCEPT ![id].remain =
                         IF timer[id].running THEN @ - elapsed ELSE @]
      BY <1>4 DEF CountDown, TypeOK
    <3> QED
      BY ONLY <2>1, <2>2, <3>1
  <2> QED
    BY <2>3, <1>4 DEF CountDown, TypeOK, ghostvars
<1>5. CASE Expire
  <2>1. id \in Timer
    BY <1>5 DEF Expire, TypeOK, Timer
  <2>2. rmw' \in [task : Task, bits : SUBSET Bit, word : SUBSET Bit]
    BY <2>1, <1>5 DEF Expire, Load, TypeOK
  <2> QED
    BY <2>1, <2>2, <1>5 DEF Expire, TypeOK, ghostvars, Timer
<1>6. CASE Fire
  <2>1. id \in Timer
    BY <1>6 DEF Fire, TypeOK, Timer
  <2>2. event' \in [Task -> SUBSET Bit] /\ owed' \subseteq Event /\ raced' \subseteq owed'
    BY <1>6 DEF Fire, Store, TypeOK, Event
  <2>3. timer \in [Timer -> [running : BOOLEAN, remain : Ticks, period : Period \cup {0},
                            task : Task, events : SUBSET Bit]]
    BY DEF TypeOK
  <2>4. timer' \in [Timer -> [running : BOOLEAN, remain : Ticks, period : Period \cup {0},
                             task : Task, events : SUBSET Bit]]
    <3>1. timer[id].period # 0 => timer[id].period \in Ticks
      BY ONLY <2>1, <2>3, OsalAssumption
    <3>2. Off(timer[id]) \in [running : BOOLEAN, remain : Ticks, period : Period \cup {0},
                             task : Task, events : SUBSET Bit]
      BY <2>1, <2>3 DEF Off
    <3>3. timer' = IF timer[id].period # 0
                     THEN [timer EXCEPT ![id].remain = timer[id].period]
                     ELSE [timer EXCEPT ![id] = Off(timer[id])]
      BY <1>6 DEF Fire
    <3> QED
      BY ONLY <2>1, <2>3, <3>1, <3>2, <3>3
  <2>5. left' \in [Timer -> Int]
    <3>1. timer[id].period # 0 => timer[id].period - Gap \in Int
      <4>1. timer[id].period \in Period \cup {0}
        BY ONLY <2>1, <2>3
      <4>2. timer[id].period \in Int
        BY ONLY <4>1, PeriodType
      <4>3. Gap \in Int
        BY ONLY <1>0, OsalAssumption DEF Ticks
      <4> QED
        BY ONLY <4>2, <4>3
    <3>2. \/ timer[id].period # 0 /\ left' = [left EXCEPT ![id] = timer[id].period - Gap]
          \/ left' = [left EXCEPT ![id] = 0]
      BY <1>6 DEF Fire
    <3>3. left \in [Timer -> Int]
      BY DEF TypeOK
    <3> QED
      BY ONLY <3>1, <3>2, <3>3
  <2>6. skipped' \in [Timer -> Nat]
    BY <1>6 DEF Fire, TypeOK
  <2> QED
    BY SMTT(30), <2>1, <2>2, <2>4, <2>5, <2>6, <1>6 DEF Fire, TypeOK, Timer
<1>7. CASE UpdateDone
  BY <1>7 DEF UpdateDone, TypeOK, ghostvars
<1>8. CASE ScanNext
  BY <1>8 DEF ScanNext, TypeOK, ghostvars
<1>9. CASE ScanFound
  BY <1>9 DEF ScanFound, TypeOK, ghostvars
<1>10. CASE Take
  BY <1>10 DEF Take, TypeOK, ghostvars, Task
<1>11. CASE Clear
  BY <1>11 DEF Clear, TypeOK, ghostvars
<1>12. CASE Dispatch
  BY <1>12 DEF Dispatch, TypeOK
<1>13. CASE TaskDone
  BY <1>13 DEF TaskDone, TypeOK, ghostvars
<1>14. CASE PassDone
  BY <1>14 DEF PassDone, TypeOK, ghostvars
<1>15. ASSUME NEW p \in MainPost, HandlerPost(p) PROVE TypeOK'
  <2>1. p[1] \in Task /\ p[2] \in Bit
    BY DEF Event
  <2>2. rmw' \in [task : Task, bits : SUBSET Bit, word : SUBSET Bit]
    BY <2>1, <1>15 DEF HandlerPost, Load, TypeOK
  <2> QED
    BY <2>2, <1>15 DEF HandlerPost, TypeOK, ghostvars
<1>16. CASE HandlerStore
  BY <1>16 DEF HandlerStore, Store, TypeOK, Event
<1>17. ASSUME NEW i \in Timer, NEW t \in Timeout, NEW d \in Period, NEW p \in TimerEvent,
              osal_start_timerEx(i, t, d, p)
       PROVE  TypeOK'
  <2>1. p[1] \in Task /\ p[2] \in Bit
    BY DEF Event
  <2>2. t \in Ticks /\ Add(t, Credit) \in Ticks
    <3>1. Gap <= wdt
      BY <1>17 DEF osal_start_timerEx, GapBound
    <3>2. t + Gap < TickMod
      BY <1>0, <3>1 DEF TypeOK, Ticks
    <3> QED
      BY <1>0, <3>2, AddExact DEF Credit
  <2>3. /\ timer' \in [Timer -> [running : BOOLEAN, remain : Ticks, period : Period \cup {0},
                                task : Task, events : SUBSET Bit]]
        /\ left' \in [Timer -> Int] /\ skipped' \in [Timer -> Nat]
    BY <2>1, <2>2, <1>17 DEF osal_start_timerEx, TypeOK, Ticks
  <2> QED
    BY <2>3, <1>17 DEF osal_start_timerEx, TypeOK, loopvars
<1>18. ASSUME NEW i \in Timer, osal_stop_timerEx(i) PROVE TypeOK'
  <2>1. /\ timer' \in [Timer -> [running : BOOLEAN, remain : Ticks, period : Period \cup {0},
                                task : Task, events : SUBSET Bit]]
        /\ left' \in [Timer -> Int] /\ skipped' \in [Timer -> Nat]
    <3>1. Off(timer[i]) \in [running : BOOLEAN, remain : Ticks, period : Period \cup {0},
                            task : Task, events : SUBSET Bit]
      BY ZenonT(40) DEF Off, TypeOK
    <3> QED
      BY <3>1, <1>18 DEF osal_stop_timerEx, TypeOK
  <2> QED
    BY <2>1, <1>18 DEF osal_stop_timerEx, TypeOK, loopvars
<1>19. CASE Return
  BY <1>19 DEF Return, TypeOK, ghostvars
<1>20. CASE Tick
  <2>1. Gap + 1 < TickMod
    BY <1>0, <1>20 DEF Tick, GapBound, TypeOK, Ticks
  <2>2. sys_ticks' \in Ticks
    BY <2>1, <1>20, IncSub DEF Tick, TypeOK, Gap
  <2>3. left' \in [Timer -> Int]
    BY <1>20 DEF Tick, TypeOK
  <2> QED
    BY <2>2, <2>3, <1>20 DEF Tick, TypeOK, loopvars
<1>21. ASSUME NEW p \in IsrEvent, IsrPost(p) PROVE TypeOK'
  <2>1. p \in Event /\ p[1] \in Task /\ p[2] \in Bit
    BY DEF Event
  <2>2. event' \in [Task -> SUBSET Bit]
    BY <2>1, <1>21 DEF IsrPost, TypeOK
  <2> QED
    BY <2>1, <2>2, <1>21 DEF IsrPost, TypeOK, loopvars
<1>22. CASE WatchdogReset
  <2>1. Stopped \in [running : BOOLEAN, remain : Ticks, period : Period \cup {0},
                     task : Task, events : SUBSET Bit]
    BY DEF Stopped, Ticks, Task
  <2>2. 0 \in Ticks /\ 0 \in Task /\ 0 \in 0 .. WdtTicks
    BY DEF Ticks, Task
  <2> QED
    BY <2>1, <2>2, <1>22 DEF WatchdogReset, TypeOK
<1>23. CASE UNCHANGED vars
  BY <1>23 DEF vars, loopvars, ghostvars, TypeOK
<1> QED
  BY <1>1, <1>2, <1>3, <1>4, <1>5, <1>6, <1>7, <1>8, <1>9, <1>10, <1>11, <1>12, <1>13,
     <1>14, <1>15, <1>16, <1>17, <1>18, <1>19, <1>20, <1>21, <1>22, <1>23
     DEF Next, LoopStep, HandlerStep, Interrupt

-----------------------------------------------------------------------------
\* Interrupts cannot come between the copy of an event word and its clearing.
LEMMA CopyStep == TypeOK /\ CopyExact /\ [Next]_vars => CopyExact'
<1> SUFFICES ASSUME TypeOK, CopyExact, [Next]_vars, (pc = "clear")' PROVE (snap = event[id])'
  BY DEF CopyExact
<1>1. CASE Take
  BY <1>1 DEF Take
<1>2. CASE UNCHANGED vars
  BY <1>2 DEF vars, loopvars, CopyExact
<1> QED
  BY <1>1, <1>2
     DEF Next, LoopStep, HandlerStep, Interrupt, Feed, ReadInterval, RereadTicks, CountDown,
         Expire, Fire, UpdateDone, ScanNext, ScanFound, Clear, Dispatch, TaskDone, PassDone,
         HandlerPost, HandlerStore, osal_start_timerEx, osal_stop_timerEx, Return, Tick,
         IsrPost, WatchdogReset, Masked, loopvars

LEMMA FireStep == TypeOK /\ FireOK /\ [Next]_vars => FireOK'
<1> SUFFICES ASSUME TypeOK, FireOK, [Next]_vars, (pc = "fire")' PROVE Expired(id)'
  BY DEF FireOK
<1>1. CASE Expire
  BY <1>1 DEF Expire, Expired
<1>2. CASE Tick
  BY <1>2 DEF Tick, FireOK, Expired, loopvars
<1>3. ASSUME NEW p \in IsrEvent, IsrPost(p) PROVE Expired(id)'
  BY <1>3 DEF IsrPost, FireOK, Expired, loopvars
<1>4. CASE UNCHANGED vars
  BY <1>4 DEF vars, loopvars, FireOK, Expired
<1> QED
  BY <1>1, <1>2, <1>3, <1>4
     DEF Next, LoopStep, HandlerStep, Interrupt, Feed, ReadInterval, RereadTicks, CountDown,
         Fire, UpdateDone, ScanNext, ScanFound, Take, Clear, Dispatch, TaskDone, PassDone,
         HandlerPost, HandlerStore, osal_start_timerEx, osal_stop_timerEx, Return,
         WatchdogReset, loopvars

\* What a load-store window can cost, and to whom.
LEMMA WindowStep ==
    TypeOK /\ CountOK /\ WindowOK /\ OnlyIsrPostsRace /\ [Next]_vars
        => WindowOK' /\ OnlyIsrPostsRace'
<1> SUFFICES ASSUME TypeOK, CountOK, WindowOK, OnlyIsrPostsRace, [Next]_vars
             PROVE  WindowOK' /\ OnlyIsrPostsRace'
  OBVIOUS
<1> USE OsalAssumption
<1>1. CASE Expire
  <2>1. id \in Timer
    BY <1>1 DEF Expire, TypeOK, Timer
  <2>2. timer[id].events # {}
    BY <2>1, <1>1 DEF Expire, Expired, CountOK
  <2> QED
    BY <2>1, <2>2, <1>1 DEF Expire, Load, WindowOK, OnlyIsrPostsRace, ghostvars, TypeOK
<1>2. ASSUME NEW p \in MainPost, HandlerPost(p) PROVE WindowOK' /\ OnlyIsrPostsRace'
  BY <1>2 DEF HandlerPost, Load, WindowOK, OnlyIsrPostsRace, ghostvars, TypeOK
<1>3. CASE Fire
  BY <1>3 DEF Fire, Store, WindowOK, OnlyIsrPostsRace
<1>4. CASE HandlerStore
  BY <1>4 DEF HandlerStore, Store, WindowOK, OnlyIsrPostsRace
<1>5. CASE Dispatch
  BY <1>5 DEF Dispatch, WindowOK, OnlyIsrPostsRace
<1>6. CASE Tick
  BY <1>6 DEF Tick, WindowOK, OnlyIsrPostsRace, loopvars
<1>7. ASSUME NEW p \in IsrEvent, IsrPost(p) PROVE WindowOK' /\ OnlyIsrPostsRace'
  <2>1. OnlyIsrPostsRace'
    BY <1>7 DEF IsrPost, OnlyIsrPostsRace
  <2>2. p[1] \in Task /\ p = <<p[1], p[2]>>
    BY DEF Event
  <2>3. WindowOK'
    <3> SUFFICES ASSUME pc \in {"fire", "store"}
                 PROVE  /\ \A b \in event'[rmw.task] \ rmw.word : <<rmw.task, b>> \in raced'
                        /\ rmw.word \subseteq event'[rmw.task] \cup rmw.bits
      BY <1>7 DEF IsrPost, WindowOK, loopvars
    <3>1. raced \subseteq raced'
      BY <1>7 DEF IsrPost
    <3>2. CASE p[1] = rmw.task
      <4>1. event'[rmw.task] = event[rmw.task] \cup {p[2]}
        BY <2>2, <3>2, <1>7 DEF IsrPost, TypeOK
      <4>2. p[2] \notin rmw.word => <<rmw.task, p[2]>> \in raced'
        BY <2>2, <3>2, <1>7 DEF IsrPost, InWindow
      <4> QED
        BY <3>1, <4>1, <4>2 DEF WindowOK
    <3>3. CASE p[1] # rmw.task
      BY <3>1, <3>3, <1>7 DEF IsrPost, TypeOK, WindowOK
    <3> QED
      BY <3>2, <3>3
  <2> QED
    BY <2>1, <2>3
<1>8. CASE WatchdogReset
  BY <1>8 DEF WatchdogReset, WindowOK, OnlyIsrPostsRace
<1>9. CASE UNCHANGED vars
  BY <1>9 DEF vars, loopvars, ghostvars, WindowOK, OnlyIsrPostsRace
<1>10. CASE \/ Feed \/ ReadInterval \/ RereadTicks \/ CountDown \/ UpdateDone \/ ScanNext
            \/ ScanFound \/ Take \/ Clear \/ TaskDone \/ PassDone \/ Return
            \/ \E i \in Timer, t \in Timeout, d \in Period, p \in TimerEvent :
                    osal_start_timerEx(i, t, d, p)
            \/ \E i \in Timer : osal_stop_timerEx(i)
  <2>1. pc' \notin {"fire", "store"} /\ raced' = raced
    BY <1>10 DEF Feed, ReadInterval, RereadTicks, CountDown, UpdateDone, ScanNext, ScanFound,
                 Take, Clear, TaskDone, PassDone, Return, osal_start_timerEx,
                 osal_stop_timerEx, ghostvars, loopvars
  <2> QED
    BY <2>1 DEF WindowOK, OnlyIsrPostsRace
<1> QED
  BY <1>1, <1>2, <1>3, <1>4, <1>5, <1>6, <1>7, <1>8, <1>9, <1>10
     DEF Next, LoopStep, HandlerStep, Interrupt

-----------------------------------------------------------------------------
\* No post leaves the tables but by delivery, by the race or by a reset.
LEMMA PostStep ==
    TypeOK /\ CopyExact /\ WindowOK /\ NoPostLost /\ [Next]_vars => NoPostLost'
<1> SUFFICES ASSUME TypeOK, CopyExact, WindowOK, NoPostLost, [Next]_vars,
                    NEW q \in owed', q \notin raced'
             PROVE  (q \in InTable \cup InSnapshot)'
  BY DEF NoPostLost
<1> USE OsalAssumption
\* Steps that touch neither the event words nor the copy nor the debts.
<1>1. CASE /\ UNCHANGED <<event, owed, raced>>
           /\ InSnapshot' = InSnapshot
  BY <1>1 DEF NoPostLost, InTable
<1>2. CASE \/ Feed \/ ReadInterval \/ RereadTicks \/ CountDown \/ Expire \/ UpdateDone
           \/ ScanNext \/ ScanFound \/ Take \/ TaskDone \/ PassDone
  <2>1. UNCHANGED <<event, owed, raced>>
    BY <1>2 DEF Feed, ReadInterval, RereadTicks, CountDown, Expire, UpdateDone, ScanNext,
                ScanFound, Take, TaskDone, PassDone, ghostvars
  <2>2. InSnapshot = {} /\ InSnapshot' = {}
    BY <1>2 DEF Feed, ReadInterval, RereadTicks, CountDown, Expire, UpdateDone, ScanNext,
                ScanFound, Take, TaskDone, PassDone, InSnapshot, Undelivered
  <2> QED
    BY <1>1, <2>1, <2>2
<1>3. CASE \/ \E p \in MainPost : HandlerPost(p)
           \/ \E i \in Timer, t \in Timeout, d \in Period, p \in TimerEvent :
                   osal_start_timerEx(i, t, d, p)
           \/ \E i \in Timer : osal_stop_timerEx(i)
           \/ Return
           \/ Tick
           \/ UNCHANGED vars
  <2>1. UNCHANGED <<event, owed, raced>>
    BY <1>3 DEF HandlerPost, osal_start_timerEx, osal_stop_timerEx, Return, Tick, vars,
                ghostvars, loopvars
  <2>2. InSnapshot' = InSnapshot
    <3>1. ASSUME NEW p \in MainPost, HandlerPost(p) PROVE InSnapshot' = InSnapshot
      BY <3>1 DEF HandlerPost, InSnapshot, Undelivered
    <3>2. CASE Return
      BY <3>2 DEF Return, InSnapshot, Undelivered
    <3>3. CASE UNCHANGED loopvars
      BY <3>3 DEF loopvars, InSnapshot, Undelivered
    <3> QED
      BY <1>3, <3>1, <3>2, <3>3 DEF osal_start_timerEx, osal_stop_timerEx, Tick, vars
  <2> QED
    BY <1>1, <2>1, <2>2
\* The store: what it overwrites was raced.
<1>4. CASE Fire \/ HandlerStore
  <2>1. Store /\ pc \in {"fire", "store"}
    BY <1>4 DEF Fire, HandlerStore
  <2>2. InSnapshot' = InSnapshot
    BY <1>4 DEF Fire, HandlerStore, InSnapshot, Undelivered
  <2>3. rmw.task \in Task /\ event'[rmw.task] = rmw.word
    BY <2>1 DEF Store, TypeOK
  <2>4. q \in Event /\ q = <<q[1], q[2]>>
    BY <2>1 DEF Store, TypeOK, Event
  <2>5. CASE q[1] = rmw.task
    <3>1. CASE q[2] \in rmw.word
      BY <2>3, <2>4, <2>5, <3>1 DEF InTable
    <3>2. CASE q[2] \notin rmw.word
      <4>1. q \in owed /\ q \notin raced
        BY <2>1, <2>4, <2>5, <3>2 DEF Store, WindowOK
      <4>2. q \notin InTable
        BY <2>1, <2>4, <2>5, <3>2, <4>1 DEF InTable, WindowOK
      <4> QED
        BY <2>2, <4>1, <4>2 DEF NoPostLost
    <3> QED
      BY <3>1, <3>2
  <2>6. CASE q[1] # rmw.task
    <3>1. q \in owed /\ q \notin raced
      BY <2>1, <2>4, <2>6 DEF Store
    <3>2. q \in InTable => q \in InTable'
      BY <2>1, <2>4, <2>6 DEF Store, InTable, TypeOK, Event
    <3> QED
      BY <2>2, <3>1, <3>2 DEF NoPostLost
  <2> QED
    BY <2>5, <2>6
\* The word moves to the copy.
<1>5. CASE Clear
  <2>1. q \in InTable
    BY <1>5 DEF Clear, NoPostLost, InSnapshot, ghostvars
  <2>2. CASE q[1] = id
    BY <1>5, <2>1, <2>2 DEF Clear, CopyExact, InTable, InSnapshot, Undelivered
  <2>3. CASE q[1] # id
    BY <1>5, <2>1, <2>3 DEF Clear, InTable, TypeOK, Event
  <2> QED
    BY <2>2, <2>3
<1>6. CASE Dispatch
  <2>1. q \in InTable \cup InSnapshot /\ q # <<id, Lowest(snap)>> /\ q \in Event
    BY <1>6 DEF Dispatch, NoPostLost, TypeOK
  <2>2. q = <<q[1], q[2]>>
    BY <2>1 DEF Event
  <2>3. q \in InSnapshot => q \in InSnapshot'
    BY <1>6, <2>1, <2>2 DEF Dispatch, InSnapshot, Undelivered
  <2>4. q \in InTable => q \in InTable'
    BY <1>6 DEF Dispatch, InTable
  <2> QED
    BY <2>1, <2>3, <2>4
<1>7. ASSUME NEW p \in IsrEvent, IsrPost(p) PROVE (q \in InTable \cup InSnapshot)'
  <2>1. p \in Event /\ p = <<p[1], p[2]>> /\ p[1] \in Task
    BY DEF Event
  <2>2. event'[p[1]] = event[p[1]] \cup {p[2]}
    BY <1>7, <2>1 DEF IsrPost, TypeOK
  <2>3. InSnapshot' = InSnapshot
    BY <1>7 DEF IsrPost, InSnapshot, Undelivered, loopvars
  <2>4. CASE q = p
    BY <2>1, <2>2, <2>4 DEF InTable
  <2>5. CASE q # p
    <3>1. q \in owed /\ q \notin raced
      BY <1>7, <2>5 DEF IsrPost
    <3>2. q \in InTable => q \in InTable'
      BY <1>7, <2>1, <2>2 DEF IsrPost, InTable, TypeOK, Event
    <3> QED
      BY <2>3, <3>1, <3>2 DEF NoPostLost
  <2> QED
    BY <2>4, <2>5
<1>8. CASE WatchdogReset
  BY <1>8 DEF WatchdogReset
<1> QED
  BY <1>2, <1>3, <1>4, <1>5, <1>6, <1>7, <1>8 DEF Next, LoopStep, HandlerStep, Interrupt

-----------------------------------------------------------------------------
\* Ticks run ahead of the timers by two watchdog periods at most.
LEMMA GapStep == TypeOK /\ GapBound /\ [Next]_vars => GapBound'
<1> SUFFICES ASSUME TypeOK, GapBound, [Next]_vars PROVE GapBound'
  OBVIOUS
<1> USE OsalAssumption, TimeoutFits
<1>0. Gap \in Ticks /\ wdt \in Nat /\ wdt <= WdtTicks /\ WdtTicks \in Nat /\ elapsed \in Nat
  BY GapType DEF TypeOK, Ticks
<1>1. CASE Feed
  <2>1. Gap' = Gap
    BY <1>1 DEF Feed, Gap
  <2> QED
    BY <1>0, <1>1, <2>1 DEF Feed, GapBound, Ticks
<1>2. CASE ReadInterval
  <2>1. Gap' = Gap
    BY <1>2 DEF ReadInterval, Gap
  <2> QED
    BY <1>0, <1>2, <2>1 DEF ReadInterval, GapBound, Ticks
<1>3. CASE RereadTicks
  <2>1. Gap' = 0
    BY <1>3, SubSelf DEF RereadTicks, Gap, TypeOK
  <2> QED
    BY <1>0, <1>3, <2>1 DEF RereadTicks, GapBound
<1>4. CASE Tick
  <2>1. Gap + 1 < TickMod
    BY <1>0, <1>4 DEF Tick, GapBound, TypeOK, Ticks
  <2>2. Gap' = Gap + 1
    BY <2>1, <1>4, IncSub DEF Tick, TypeOK, Gap
  <2> QED
    BY <1>0, <1>4, <2>2 DEF Tick, GapBound, TypeOK, loopvars, Ticks
<1>5. CASE WatchdogReset
  <2>1. 0 \in Ticks
    BY DEF Ticks
  <2>2. Gap' = 0
    BY <1>5, <2>1, SubSelf DEF WatchdogReset, Gap
  <2> QED
    BY <1>0, <1>5, <2>2 DEF WatchdogReset, GapBound
<1>6. CASE /\ UNCHANGED <<sys_ticks, old_ticks, wdt>>
           /\ pc \notin {"read", "reread"} /\ pc' \notin {"read", "reread"}
  BY <1>6 DEF GapBound, Gap
<1>7. CASE UNCHANGED vars
  BY <1>7 DEF vars, loopvars, GapBound, Gap
<1>8. CASE \E p \in IsrEvent : IsrPost(p)
  BY <1>8 DEF IsrPost, loopvars, GapBound, Gap
<1> QED
  BY <1>1, <1>2, <1>3, <1>4, <1>5, <1>6, <1>7, <1>8
     DEF Next, LoopStep, HandlerStep, Interrupt, CountDown,
         Expire, Fire, UpdateDone, ScanNext, ScanFound, Take, Clear, Dispatch, TaskDone, PassDone,
         HandlerPost, HandlerStore, osal_start_timerEx, osal_stop_timerEx, Return, loopvars

-----------------------------------------------------------------------------
\* remain and the ticks not yet credited measure the real time left.
LEMMA CountStep ==
    TypeOK /\ GapBound /\ CountOK /\ FireOK /\ TypeOK' /\ [Next]_vars => CountOK'
<1> SUFFICES ASSUME TypeOK, GapBound, CountOK, FireOK, TypeOK', [Next]_vars,
                    NEW j \in Timer, timer'[j].running
             PROVE  /\ timer'[j].events # {}
                    /\ IF Pending(j)'
                       THEN timer'[j].remain - elapsed' - Gap' = left'[j] + skipped'[j]
                       ELSE timer'[j].remain - Gap' = left'[j] + skipped'[j]
                    /\ Updating' /\ ~Pending(j)' => timer'[j].remain > 0
  BY DEF CountOK
<1> USE OsalAssumption, TimeoutFits
<1>0. /\ Gap \in Nat /\ Gap < TickMod /\ Gap' \in Nat /\ TickMod \in Nat
      /\ timer[j].remain \in Nat /\ timer'[j].remain \in Nat
      /\ elapsed \in Nat /\ elapsed' \in Nat
      /\ left[j] \in Int /\ left'[j] \in Int /\ skipped[j] \in Nat /\ skipped'[j] \in Nat
      /\ id \in Nat /\ id' \in Nat /\ j \in Nat /\ j < NTimer
  <2>1. Gap \in Ticks /\ Gap' \in Ticks
    BY GapType, SubType DEF Gap, TypeOK
  <2>2. timer[j].remain \in Ticks /\ timer'[j].remain \in Ticks
    BY DEF TypeOK
  <2>3. left[j] \in Int /\ left'[j] \in Int /\ skipped[j] \in Nat /\ skipped'[j] \in Nat
    BY DEF TypeOK
  <2>4. elapsed \in Ticks /\ elapsed' \in Ticks /\ id \in Nat /\ id' \in Nat
    BY DEF TypeOK
  <2> QED
    BY <2>1, <2>2, <2>3, <2>4 DEF Ticks, Timer
\* Steps outside the update that leave the timers and the clock alone.
<1>1. CASE /\ UNCHANGED <<timer, sys_ticks, old_ticks, left, skipped>>
           /\ ~Updating /\ ~Updating'
  BY <1>1 DEF CountOK, Gap, Pending
<1>2. CASE \/ Feed \/ ScanNext \/ ScanFound \/ Take \/ Clear \/ Dispatch \/ TaskDone
           \/ PassDone \/ HandlerStore \/ Return \/ \E p \in MainPost : HandlerPost(p)
  BY <1>1, <1>2 DEF Feed, ScanNext, ScanFound, Take, Clear, Dispatch, TaskDone, PassDone,
     HandlerStore, Return, HandlerPost, Updating, ghostvars
<1>3. CASE ReadInterval
  BY <1>1, <1>3 DEF ReadInterval, Updating, ghostvars
<1>4. CASE RereadTicks
  <2>1. Gap' = 0
    BY <1>4, SubSelf DEF RereadTicks, Gap, TypeOK
  <2>2. ~Updating
    BY <1>4 DEF RereadTicks, Updating
  <2>3. timer[j].running /\ timer'[j] = timer[j]
    BY <1>4 DEF RereadTicks
  <2>4. timer[j].events # {} /\ timer[j].remain - Gap = left[j] + skipped[j]
    BY <2>2, <2>3 DEF CountOK, Pending
  <2>5. /\ skipped'[j] = skipped[j] + (Gap - elapsed) /\ left' = left
        /\ elapsed' = elapsed /\ id' = id
    BY <1>4, <2>3 DEF RereadTicks
  <2>6. timer'[j].remain - elapsed' - Gap' = left'[j] + skipped'[j]
    BY <1>0, <2>1, <2>3, <2>4, <2>5
  <2>7. Updating'
    BY <1>4 DEF RereadTicks, Updating
  <2>8. id = 0
    BY <1>4 DEF RereadTicks, GapBound
  <2> QED
    BY <1>0, <2>3, <2>4, <2>5, <2>6, <2>7, <2>8 DEF Pending
<1>5. CASE CountDown
  <2>1. Gap' = Gap /\ UNCHANGED <<elapsed, left, skipped>> /\ Updating /\ Updating' /\ id' = id + 1
    BY <1>5 DEF CountDown, Gap, ghostvars, Updating
  <2>2. CASE j = id
    <3>1. timer[j].running /\ timer'[j].remain = timer[j].remain - elapsed
          /\ timer[j].remain > elapsed /\ timer'[j].events = timer[j].events
      BY <1>5, <2>2 DEF CountDown, Expired, TypeOK
    <3> QED
      BY <1>0, <2>1, <2>2, <3>1 DEF CountOK, Pending
  <2>3. CASE j # id
    <3>1. timer'[j] = timer[j]
      BY <1>5, <2>3 DEF CountDown, TypeOK
    <3> QED
      BY <1>0, <2>1, <2>3, <3>1 DEF CountOK, Pending
  <2> QED
    BY <2>2, <2>3
<1>6. CASE Expire
  <2>1. Gap' = Gap /\ UNCHANGED <<timer, elapsed, left, skipped, id>> /\ Updating /\ Updating'
    BY <1>6 DEF Expire, Gap, ghostvars, Updating
  <2> QED
    BY <2>1 DEF CountOK, Pending
<1>7. CASE Fire
  <2>1. Gap' = Gap /\ elapsed' = elapsed /\ Updating /\ Updating' /\ id' = id + 1
    BY <1>7 DEF Fire, Gap, Updating
  <2>2. CASE j = id
    <3>1. timer[id].period # 0
      <4>1. SUFFICES ASSUME timer[id].period = 0 PROVE FALSE
        OBVIOUS
      <4>2. timer'[j] = Off(timer[j])
        BY <1>7, <2>2, <4>1 DEF Fire, TypeOK
      <4>3. Off(timer[j]).running = FALSE
        BY DEF Off, TypeOK
      <4> QED
        BY <4>2, <4>3
    <3>2. /\ timer'[j].remain = timer[j].period /\ timer'[j].events = timer[j].events
          /\ left'[j] = timer[j].period - Gap /\ skipped'[j] = 0
      BY <1>7, <2>2, <3>1 DEF Fire, TypeOK
    <3>3. timer[j].running
      BY <1>7, <2>2 DEF Fire, FireOK, Expired
    <3>4. timer[j].period \in Nat \ {0}
      <4>1. timer[j].period \in Period \cup {0}
        BY DEF TypeOK
      <4>2. timer[j].period \in Ticks
        BY <2>2, <3>1, <4>1
      <4> QED
        BY <2>2, <3>1, <4>2 DEF Ticks
    <3> QED
      BY <1>0, <2>1, <2>2, <3>2, <3>3, <3>4 DEF CountOK, Pending
  <2>3. CASE j # id
    <3>1. timer'[j] = timer[j] /\ left'[j] = left[j] /\ skipped'[j] = skipped[j]
      <4>1. CASE timer[id].period # 0
        BY <1>7, <2>3, <4>1 DEF Fire, TypeOK
      <4>2. CASE timer[id].period = 0
        BY <1>7, <2>3, <4>2 DEF Fire, TypeOK
      <4> QED
        BY <4>1, <4>2
    <3> QED
      BY <1>0, <2>1, <2>3, <3>1 DEF CountOK, Pending
  <2> QED
    BY <2>2, <2>3
<1>8. CASE UpdateDone
  <2>1. Gap' = Gap /\ UNCHANGED <<timer, elapsed, left, skipped>> /\ Updating /\ ~Updating'
    BY <1>8 DEF UpdateDone, Gap, ghostvars, Updating
  <2>2. ~Pending(j)
    BY <1>0, <1>8 DEF UpdateDone, Pending
  <2> QED
    BY <2>1, <2>2 DEF CountOK, Pending
<1>9. ASSUME NEW i \in Timer, NEW t \in Timeout, NEW d \in Period, NEW p \in TimerEvent,
             osal_start_timerEx(i, t, d, p)
      PROVE  /\ timer'[j].events # {}
             /\ ~Updating'
             /\ timer'[j].remain - Gap' = left'[j] + skipped'[j]
  <2>1. Gap' = Gap /\ ~Updating /\ ~Updating'
    BY <1>9 DEF osal_start_timerEx, Gap, loopvars, Updating
  <2>2. CASE j = i
    <3>1. t \in Ticks
      OBVIOUS
    <3>2. Gap <= wdt
      BY <1>9 DEF osal_start_timerEx, GapBound
    <3>3. t + Gap < TickMod
      BY <1>0, <3>1, <3>2 DEF TypeOK, Ticks
    <3>4. Add(t, Credit) = t + Gap
      BY <1>0, <3>1, <3>3, AddExact DEF Credit, Ticks
    <3>5. /\ timer'[j].remain = t + Gap /\ timer'[j].events = {p[2]}
          /\ left'[j] = t /\ skipped'[j] = 0
      BY <1>9, <2>2, <3>4 DEF osal_start_timerEx, TypeOK
    <3> QED
      BY <1>0, <2>1, <3>1, <3>5 DEF Ticks
  <2>3. CASE j # i
    <3>1. timer'[j] = timer[j] /\ left'[j] = left[j] /\ skipped'[j] = skipped[j]
      BY <1>9, <2>3 DEF osal_start_timerEx, TypeOK
    <3> QED
      BY <2>1, <3>1 DEF CountOK, Pending
  <2> QED
    BY <2>2, <2>3
<1>10. ASSUME NEW i \in Timer, osal_stop_timerEx(i)
       PROVE  /\ timer'[j].events # {}
              /\ ~Updating'
              /\ timer'[j].remain - Gap' = left'[j] + skipped'[j]
  <2>1. Gap' = Gap /\ ~Updating /\ ~Updating'
    BY <1>10 DEF osal_stop_timerEx, Gap, loopvars, Updating
  <2>2. j # i
    BY <1>10 DEF osal_stop_timerEx, Off, TypeOK
  <2>3. timer'[j] = timer[j] /\ left'[j] = left[j] /\ skipped'[j] = skipped[j]
    BY <1>10, <2>2 DEF osal_stop_timerEx, TypeOK
  <2> QED
    BY <2>1, <2>3 DEF CountOK, Pending
<1>11. CASE Tick
  <2>1. Gap + 1 < TickMod
    BY <1>0, <1>11 DEF Tick, GapBound, TypeOK
  <2>2. Gap' = Gap + 1
    BY <2>1, <1>11, IncSub DEF Tick, TypeOK, Gap
  <2>3. timer' = timer /\ left'[j] = left[j] - 1 /\ skipped' = skipped
        /\ elapsed' = elapsed /\ id' = id /\ pc' = pc
    BY <1>11 DEF Tick, TypeOK, loopvars
  <2>4. Pending(j)' = Pending(j) /\ Updating' = Updating
    BY <2>3 DEF Pending, Updating
  <2> QED
    BY <1>0, <2>2, <2>3, <2>4 DEF CountOK
<1>12. CASE \E p \in IsrEvent : IsrPost(p)
  <2>1. UNCHANGED <<timer, sys_ticks, old_ticks, pc, id, elapsed, left, skipped>>
    BY <1>12 DEF IsrPost, loopvars
  <2> QED
    BY <2>1 DEF CountOK, Gap, Pending, Updating
<1>13. CASE WatchdogReset
  BY <1>13 DEF WatchdogReset, Stopped
<1>14. CASE UNCHANGED vars
  <2>1. UNCHANGED <<timer, sys_ticks, old_ticks, pc, id, elapsed, left, skipped>>
    BY <1>14 DEF vars, loopvars, ghostvars
  <2> QED
    BY <2>1 DEF CountOK, Gap, Pending, Updating
<1> QED
  BY <1>2, <1>3, <1>4, <1>5, <1>6, <1>7, <1>8, <1>9, <1>10, <1>11, <1>12, <1>13, <1>14
     DEF Next, LoopStep, HandlerStep, Interrupt, Pending

-----------------------------------------------------------------------------
\* The strengthening of the invariants that every step preserves.
THEOREM Inductive == Spec => []IInv
<1>1. Init => IInv
  BY InitInv
<1>2. IInv /\ [Next]_vars => IInv'
  BY TypeStep, CopyStep, FireStep, WindowStep, PostStep, GapStep, CountStep DEF IInv
<1> QED
  BY <1>1, <1>2, PTL DEF Spec

\* The tables, the counters and the loop's locals keep their types: in
\* particular no countdown wraps below zero or above uint16_t.
THEOREM TypeCorrect == Spec => []TypeOK
  BY Inductive, PTL DEF IInv

\* osal_event_handle loses no event: only the window of osal_set_event can.
THEOREM PostsKept == Spec => []NoPostLost
  BY Inductive, PTL DEF IInv

\* No timer posts before its timeout has really passed.
THEOREM TimersNotEarly == Spec => []NeverEarly
<1>1. IInv => NeverEarly
  <2> SUFFICES ASSUME IInv, pc = "fire" PROVE left[id] <= 0
    BY DEF NeverEarly
  <2>1. id \in Timer /\ timer[id].running /\ ~(timer[id].remain > elapsed)
    BY OsalAssumption DEF IInv, TypeOK, FireOK, Expired, Timer
  <2>2. timer[id].remain - elapsed - Gap = left[id] + skipped[id]
    BY <2>1 DEF IInv, CountOK, Pending, Updating, TypeOK
  <2>3. Gap \in Nat /\ timer[id].remain \in Nat /\ elapsed \in Nat
        /\ left[id] \in Int /\ skipped[id] \in Nat
    BY <2>1, GapType DEF IInv, TypeOK, Ticks
  <2> QED
    BY <2>1, <2>2, <2>3
<1> QED
  BY <1>1, Inductive, PTL

\* No timer survives an update that saw it due.
THEOREM TimersNotLate == Spec => []NeverLate
<1>1. IInv => NeverLate
  <2> SUFFICES ASSUME IInv, pc = "update", id = NTimer, NEW i \in Timer, timer[i].running
               PROVE  left[i] + skipped[i] + Gap > 0
    BY DEF NeverLate
  <2>1. ~Pending(i) /\ Updating
    BY OsalAssumption DEF Pending, Updating, Timer
  <2>2. timer[i].remain - Gap = left[i] + skipped[i] /\ timer[i].remain > 0
    BY <2>1 DEF IInv, CountOK
  <2>3. Gap \in Nat /\ timer[i].remain \in Nat /\ left[i] \in Int /\ skipped[i] \in Nat
    BY GapType DEF IInv, TypeOK, Ticks
  <2> QED
    BY <2>2, <2>3
<1> QED
  BY <1>1, Inductive, PTL

\* No timer is early, and none is passed over.
THEOREM TimersOnTime == Spec => []OnTime
BY TimersNotEarly, TimersNotLate, PTL DEF OnTime

-----------------------------------------------------------------------------
\* bit_map[] finds a bit that is set.
LEMMA LowestIn == ASSUME NEW S, S \subseteq Bit, S # {} PROVE Lowest(S) \in S
<1> DEFINE R == OpToRel(<, Nat)
<1>1. S \subseteq Nat
  BY OsalAssumption DEF Bit
<1>2. PICK x \in S : \A y \in S : ~(<<y, x>> \in R)
  BY <1>1, NatLessThanWellFounded, WFMin
<1>3. \A y \in S : x <= y
  <2>1. ASSUME NEW y \in S, ~(x <= y) PROVE <<y, x>> \in R
    <3>1. x \in Nat /\ y \in Nat /\ y < x
      BY <1>1, <2>1
    <3> QED
      BY <3>1 DEF OpToRel
  <2> QED
    BY <1>2, <2>1
<1> QED
  BY <1>2, <1>3 DEF Lowest

LEMMA InitRefines == Init => Mailbox!EInit
  BY DEF Init, Mailbox!EInit, InTable, InSnapshot, Event

\* Each step of the scheduler is a step of the mailbox or leaves it alone.
LEMMA StepRefines == IInv /\ [Next]_vars => [Mailbox!ENext]_(Mailbox!evars)
<1> DEFINE pend == InTable \cup InSnapshot
           run == IF pc \in {"call", "store"} THEN {<<id, Lowest(snap)>>} ELSE {}
<1> SUFFICES ASSUME IInv, [Next]_vars
             PROVE  Mailbox!ENext \/ (pend' = pend /\ run' = run)
  BY DEF Mailbox!evars
<1> USE OsalAssumption DEF IInv
<1>1. CASE \/ Feed \/ ReadInterval \/ RereadTicks \/ CountDown \/ Expire \/ UpdateDone
           \/ ScanNext \/ ScanFound \/ Take \/ TaskDone \/ PassDone
  <2>1. event' = event
    BY <1>1 DEF Feed, ReadInterval, RereadTicks, CountDown, Expire, UpdateDone, ScanNext,
                ScanFound, Take, TaskDone, PassDone
  <2>2. InSnapshot = {} /\ InSnapshot' = {}
    BY <1>1 DEF Feed, ReadInterval, RereadTicks, CountDown, Expire, UpdateDone, ScanNext,
                ScanFound, Take, TaskDone, PassDone, InSnapshot, Undelivered
  <2>3. run = {} /\ run' = {}
    BY <1>1 DEF Feed, ReadInterval, RereadTicks, CountDown, Expire, UpdateDone, ScanNext,
                ScanFound, Take, TaskDone, PassDone
  <2> QED
    BY <2>1, <2>2, <2>3 DEF InTable
<1>2. CASE \/ \E p \in MainPost : HandlerPost(p)
           \/ \E i \in Timer, t \in Timeout, d \in Period, p \in TimerEvent :
                   osal_start_timerEx(i, t, d, p)
           \/ \E i \in Timer : osal_stop_timerEx(i)
           \/ Tick
           \/ UNCHANGED vars
  <2>1. event' = event /\ id' = id /\ snap' = snap
    BY <1>2 DEF HandlerPost, osal_start_timerEx, osal_stop_timerEx, Tick, vars, loopvars
  <2>2. pc' = pc \/ (pc = "call" /\ pc' = "store")
    BY <1>2 DEF HandlerPost, osal_start_timerEx, osal_stop_timerEx, Tick, vars, loopvars
  <2> QED
    BY <2>1, <2>2 DEF InTable, InSnapshot, Undelivered
<1>3. CASE Fire \/ HandlerStore
  <2> DEFINE new == {rmw.task} \X rmw.bits
             lost == ({rmw.task} \X (event[rmw.task] \ rmw.word)) \ InSnapshot
  <2>1. Store /\ pc \in {"fire", "store"}
    BY <1>3 DEF Fire, HandlerStore
  <2>2. InSnapshot' = InSnapshot /\ run' = run
    BY <1>3 DEF Fire, HandlerStore, InSnapshot, Undelivered
  <2>3. new \subseteq Event /\ new # {}
    <3>1. rmw.task \in Task /\ rmw.bits \subseteq Bit
      BY DEF TypeOK
    <3>2. PICK b \in rmw.bits : TRUE
      BY <2>1 DEF WindowOK
    <3>3. <<rmw.task, b>> \in new
      BY <3>2
    <3> QED
      BY <3>1, <3>3 DEF Event
  <2>4. lost \subseteq IsrEvent
    BY <2>1 DEF WindowOK, OnlyIsrPostsRace
  <2>5. pend' = (pend \ lost) \cup new
    <3>1. \A q \in Event : q[1] # rmw.task => (q \in InTable' <=> q \in InTable)
      BY <2>1 DEF Store, InTable, TypeOK
    <3>2. \A q \in Event : q[1] = rmw.task => (q \in InTable' <=> q[2] \in rmw.word)
      BY <2>1 DEF Store, InTable, TypeOK
    <3>3. rmw.word \subseteq event[rmw.task] \cup rmw.bits /\ rmw.bits \subseteq rmw.word
      BY <2>1 DEF WindowOK
    <3>4. InSnapshot \subseteq Event /\ InTable \subseteq Event /\ InTable' \subseteq Event
      BY DEF InSnapshot, InTable
    <3>5. \A q \in Event : q \in pend' <=> q \in (pend \ lost) \cup new
      <4> TAKE q \in Event
      <4>1. q = <<q[1], q[2]>>
        BY DEF Event
      <4>2. CASE q[1] = rmw.task
        BY <2>2, <3>2, <3>3, <4>1, <4>2 DEF InTable
      <4>3. CASE q[1] # rmw.task
        BY <2>2, <3>1, <4>1, <4>3
      <4> QED
        BY <4>2, <4>3
    <3> QED
      BY <2>2, <2>3, <3>4, <3>5
  <2>6. Mailbox!Post(new, lost)
    BY <2>2, <2>3, <2>4, <2>5 DEF Mailbox!Post
  <2> QED
    BY <2>3, <2>4, <2>6 DEF Mailbox!ENext
<1>4. CASE Clear
  <2>1. run = {} /\ run' = {} /\ InSnapshot = {}
    BY <1>4 DEF Clear, InSnapshot
  <2>2. \A q \in Event : q \in pend' <=> q \in pend
    <3> TAKE q \in Event
    <3>1. CASE q[1] = id
      BY <1>4, <2>1, <3>1 DEF Clear, CopyExact, InTable, InSnapshot, Undelivered, TypeOK, Event
    <3>2. CASE q[1] # id
      BY <1>4, <2>1, <3>2 DEF Clear, InTable, InSnapshot, TypeOK, Event
    <3> QED
      BY <3>1, <3>2
  <2>3. pend \subseteq Event /\ pend' \subseteq Event
    BY DEF InSnapshot, InTable
  <2> QED
    BY <2>1, <2>2, <2>3
<1>5. CASE Dispatch
  <2> DEFINE p == <<id, Lowest(snap)>>
  <2>1. Lowest(snap) \in snap /\ Lowest(snap) \in Bit /\ id \in Task
    <3>1. snap \subseteq Bit /\ snap # {} /\ id \in Nat /\ id < NTask
      BY <1>5 DEF Dispatch, TypeOK
    <3>2. Lowest(snap) \in snap
      BY <3>1, LowestIn
    <3> QED
      BY <3>1, <3>2 DEF Task
  <2>2. p \in Event /\ p \in InSnapshot
    BY <1>5, <2>1 DEF Dispatch, Event, InSnapshot, Undelivered
  <2>3. run = {} /\ run' = {p}
    BY <1>5 DEF Dispatch
  <2>4. InSnapshot' = InSnapshot \ {p} /\ InTable' = InTable
    BY <1>5, <2>1 DEF Dispatch, InSnapshot, Undelivered, InTable, Event
  <2>5. pend' \in {pend, pend \ {p}}
    BY <2>2, <2>4
  <2>6. Mailbox!Deliver(p)
    BY <2>2, <2>3, <2>5 DEF Mailbox!Deliver
  <2> QED
    BY <2>2, <2>6 DEF Mailbox!ENext
<1>6. CASE Return
  <2>1. run # {} /\ run' = {} /\ pend' = pend
    BY <1>6 DEF Return, InTable, InSnapshot, Undelivered
  <2> QED
    BY <2>1 DEF Mailbox!ENext, Mailbox!Return
<1>7. ASSUME NEW p \in IsrEvent, IsrPost(p) PROVE Mailbox!ENext
  <2>1. p \in Event /\ p = <<p[1], p[2]>> /\ p[1] \in Task
    BY DEF Event
  <2>2. InSnapshot' = InSnapshot /\ run' = run
    BY <1>7 DEF IsrPost, InSnapshot, Undelivered, loopvars
  <2>3. InTable' = InTable \cup {p}
    BY <1>7, <2>1 DEF IsrPost, InTable, TypeOK, Event
  <2>4. Mailbox!IsrPost(p)
    BY <2>2, <2>3 DEF Mailbox!IsrPost
  <2> QED
    BY <2>4 DEF Mailbox!ENext
<1>8. CASE WatchdogReset
  <2>1. pend' = {} /\ run' = {}
    BY <1>8 DEF WatchdogReset, InTable, InSnapshot, Event
  <2> QED
    BY <2>1 DEF Mailbox!ENext, Mailbox!Reset
<1> QED
  BY <1>1, <1>2, <1>3, <1>4, <1>5, <1>6, <1>7, <1>8 DEF Next, LoopStep, HandlerStep, Interrupt

\* The scheduler, its tick counter and its tables implement the mailbox.
THEOREM Refinement == Spec => ImplementsMailbox
<1>1. Init => Mailbox!EInit
  BY InitRefines
<1>2. IInv /\ [Next]_vars => [Mailbox!ENext]_(Mailbox!evars)
  BY StepRefines
<1> QED
  BY <1>1, <1>2, Inductive, PTL DEF Spec, Mailbox!ESpec, ImplementsMailbox
=============================================================================
