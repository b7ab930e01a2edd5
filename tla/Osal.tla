-------------------------------- MODULE Osal --------------------------------
(***************************************************************************)
(* The cooperative scheduler of osal/osal.c: the event word of every task, *)
(* the software timer table and the endless loop of osal_start_system,     *)
(* against the interrupts that run between any two of its steps: the 1 ms  *)
(* tick (TMR1), the handlers that post events (FSK, ECAP, USB) and the     *)
(* soft watchdog (TMR2).                                                   *)
(*                                                                         *)
(* The grain is what an interrupt can see: osal_set_event is a load and a  *)
(* store, osal_tick_cnt_get reads the tick counter twice, the copy of an   *)
(* event word is taken and cleared with interrupts masked.  uint16_t is    *)
(* 0 .. TickMod-1 and wraps.  An event word is the set of its bits.        *)
(***************************************************************************)
EXTENDS Integers, FiniteSets

CONSTANTS
    NTask,          \* MAX_TASK
    NTimer,         \* MAX_TIMER
    NBit,           \* bits of an event word that are used
    TickMod,        \* 2^16, the range of sys_ticks
    WdtTicks,       \* ticks without a feed before TMR2 resets the chip (850)
    Timeout,        \* the timeouts handlers start timers with
    Period,         \* the periods handlers start timers with; 0 is one-shot
    Registered,     \* the tasks that have called osal_task_handler_reg
    IsrEvent,       \* the <<task, bit>> posted from interrupt handlers
    MainPost,       \* the <<task, bit>> posted from event handlers
    TimerEvent      \* the <<task, bit>> that timers are started with

Task  == 0 .. NTask-1
Timer == 0 .. NTimer-1
Bit   == 0 .. NBit-1
Event == Task \X Bit
Ticks == 0 .. TickMod-1

ASSUME OsalAssumption ==
    /\ NTask \in Nat \ {0} /\ NTimer \in Nat \ {0} /\ NBit \in Nat \ {0}
    /\ TickMod \in Nat \ {0} /\ WdtTicks \in Nat \ {0}
    /\ Period \subseteq Ticks /\ Timeout \subseteq Ticks
    /\ Registered \subseteq Task
    /\ IsrEvent \subseteq Event
    /\ MainPost \subseteq Event
    /\ TimerEvent \subseteq Event

\* remain does not overflow: no timeout comes within two watchdog periods of
\* the counter's range (the longest in the code is 20 000 of 65 536).
ASSUME TimeoutFits ==
    /\ 2 * WdtTicks < TickMod
    /\ \A t \in Timeout \cup Period : t + 2 * WdtTicks < TickMod

VARIABLES
    event,          \* osal_tasks_tbl[].event
    timer,          \* osal_timer_tbl[]
    sys_ticks, old_ticks,
    wdt,            \* ticks since TMR2 was reloaded
    pc,             \* where the main loop is
    id,             \* its loop index, over timers or over tasks
    elapsed,        \* elapsed_ticks of osal_timer_update
    snap,           \* the local copy of an event word in osal_event_handle
    rmw,            \* osal_set_event's target and the word it will store
    \* History variables, for the properties only:
    owed,           \* posted, and not delivered since
    raced,          \* of these, posted by an interrupt inside a load-store window
    left,           \* real ticks until each timer's expiry is due
    skipped         \* ticks each timer has not seen because old_ticks was reread

loopvars  == <<pc, id, elapsed, snap, rmw>>
ghostvars == <<owed, raced, left, skipped>>
vars == <<event, timer, sys_ticks, old_ticks, wdt, loopvars, ghostvars>>

-----------------------------------------------------------------------------
\* uint16_t arithmetic

Inc(t)    == IF t + 1 = TickMod THEN 0 ELSE t + 1
Sub(a, b) == IF a >= b THEN a - b ELSE a - b + TickMod
Add(a, b) == IF a + b < TickMod THEN a + b ELSE a + b - TickMod

Gap == Sub(sys_ticks, old_ticks)     \* ticks not yet credited to the timers

\* What osal_start_timerEx adds to the timeout: the next update will take it
\* off again.
NoCredit == 0
Credit == Gap

Stopped == [running |-> FALSE, remain |-> 0, period |-> 0, task |-> 0, events |-> {}]

Off(t) == [t EXCEPT !.running = FALSE, !.events = {}]

Lowest(S) == CHOOSE b \in S : \A c \in S : b <= c      \* bit_map[]

\* The main loop has interrupts masked between VIC_vModuleDisable and Enable.
NeverMasked == FALSE
Masked == pc \in {"take", "clear"}

InWindow(t) == pc \in {"fire", "store"} /\ rmw.task = t

\* Delivered but for the call itself: the bit stays in the copy until return.
Undelivered == IF pc \in {"call", "store"} THEN snap \ {Lowest(snap)} ELSE snap
InTable    == {p \in Event : p[2] \in event[p[1]]}
InSnapshot == {p \in Event : /\ pc \in {"dispatch", "call", "store"}
                             /\ p[1] = id
                             /\ p[2] \in Undelivered}

Init ==
    /\ event = [t \in Task |-> {}]
    /\ timer = [i \in Timer |-> Stopped]
    /\ sys_ticks = 0 /\ old_ticks = 0
    /\ wdt = 0
    /\ pc = "feed" /\ id = 0 /\ elapsed = 0 /\ snap = {}
    /\ rmw = [task |-> 0, bits |-> {}, word |-> {}]
    /\ owed = {} /\ raced = {}
    /\ left = [i \in Timer |-> 0] /\ skipped = [i \in Timer |-> 0]

-----------------------------------------------------------------------------
\* osal_set_event: the load, then the store.

Load(t, bits) == rmw' = [task |-> t, bits |-> bits, word |-> event[t] \cup bits]

Store ==
    /\ event' = [event EXCEPT ![rmw.task] = rmw.word]
    /\ owed' = owed \cup ({rmw.task} \X rmw.bits)
    /\ raced' = raced \ ({rmw.task} \X rmw.bits)

-----------------------------------------------------------------------------
\* osal_start_system and osal_timer_update

Feed ==
    /\ pc = "feed"
    /\ wdt' = 0
    /\ pc' = "read"
    /\ UNCHANGED <<event, timer, sys_ticks, old_ticks, id, elapsed, snap, rmw, ghostvars>>

ReadInterval ==
    /\ pc = "read"
    /\ elapsed' = Gap
    /\ id' = 0
    /\ pc' = IF Gap > 0 THEN "reread" ELSE "scan"
    /\ UNCHANGED <<event, timer, sys_ticks, old_ticks, wdt, snap, rmw, ghostvars>>

\* A tick that came between the two reads is never credited.
RereadTicks ==
    /\ pc = "reread"
    /\ old_ticks' = sys_ticks
    /\ skipped' = [i \in Timer |-> IF timer[i].running THEN skipped[i] + (Gap - elapsed)
                                                          ELSE skipped[i]]
    /\ pc' = "update"
    /\ UNCHANGED <<event, timer, sys_ticks, wdt, id, elapsed, snap, rmw, owed, raced, left>>

Expired(i) == timer[i].running /\ ~(timer[i].remain > elapsed)

CountDown ==
    /\ pc = "update" /\ id < NTimer
    /\ ~Expired(id)
    /\ timer' = [timer EXCEPT ![id].remain = IF timer[id].running THEN @ - elapsed ELSE @]
    /\ id' = id + 1
    /\ UNCHANGED <<event, sys_ticks, old_ticks, wdt, pc, elapsed, snap, rmw, ghostvars>>

Expire ==
    /\ pc = "update" /\ id < NTimer
    /\ Expired(id)
    /\ Load(timer[id].task, timer[id].events)
    /\ pc' = "fire"
    /\ UNCHANGED <<event, timer, sys_ticks, old_ticks, wdt, id, elapsed, snap, ghostvars>>

\* The post is stored, then the timer is reloaded or stopped.
Fire ==
    /\ pc = "fire"
    /\ Store
    /\ IF timer[id].period # 0
       THEN /\ timer' = [timer EXCEPT ![id].remain = timer[id].period]
            /\ left' = [left EXCEPT ![id] = timer[id].period - Gap]
            /\ skipped' = [skipped EXCEPT ![id] = 0]
       ELSE /\ timer' = [timer EXCEPT ![id] = Off(timer[id])]
            /\ left' = [left EXCEPT ![id] = 0]
            /\ skipped' = [skipped EXCEPT ![id] = 0]
    /\ id' = id + 1
    /\ pc' = "update"
    /\ UNCHANGED <<sys_ticks, old_ticks, wdt, elapsed, snap, rmw>>

UpdateDone ==
    /\ pc = "update" /\ id = NTimer
    /\ id' = 0
    /\ pc' = "scan"
    /\ UNCHANGED <<event, timer, sys_ticks, old_ticks, wdt, elapsed, snap, rmw, ghostvars>>

-----------------------------------------------------------------------------
\* osal_event_handle

ScanNext ==
    /\ pc = "scan" /\ id < NTask
    /\ event[id] = {} \/ id \notin Registered
    /\ id' = id + 1
    /\ UNCHANGED <<event, timer, sys_ticks, old_ticks, wdt, pc, elapsed, snap, rmw, ghostvars>>

ScanFound ==
    /\ pc = "scan" /\ id < NTask
    /\ event[id] # {} /\ id \in Registered
    /\ pc' = "take"
    /\ UNCHANGED <<event, timer, sys_ticks, old_ticks, wdt, id, elapsed, snap, rmw, ghostvars>>

Take ==
    /\ pc = "take"
    /\ snap' = event[id]
    /\ pc' = "clear"
    /\ UNCHANGED <<event, timer, sys_ticks, old_ticks, wdt, id, elapsed, rmw, ghostvars>>

Clear ==
    /\ pc = "clear"
    /\ event' = [event EXCEPT ![id] = {}]
    /\ pc' = "dispatch"
    /\ UNCHANGED <<timer, sys_ticks, old_ticks, wdt, id, elapsed, snap, rmw, ghostvars>>

Dispatch ==
    /\ pc = "dispatch" /\ snap # {}
    /\ pc' = "call"
    /\ owed' = owed \ {<<id, Lowest(snap)>>}
    /\ raced' = raced \ {<<id, Lowest(snap)>>}
    /\ UNCHANGED <<event, timer, sys_ticks, old_ticks, wdt, id, elapsed, snap, rmw, left, skipped>>

\* Two ways to get the end of a task's turn wrong: work it until its word
\* stays empty, or go back to the first task.
TaskDoneDrain ==
    /\ pc = "dispatch" /\ snap = {}
    /\ id' = IF event[id] = {} THEN id + 1 ELSE id
    /\ pc' = "scan"
    /\ UNCHANGED <<event, timer, sys_ticks, old_ticks, wdt, elapsed, snap, rmw, ghostvars>>

TaskDone ==
    /\ pc = "dispatch" /\ snap = {}
    /\ id' = id + 1
    /\ pc' = "scan"
    /\ UNCHANGED <<event, timer, sys_ticks, old_ticks, wdt, elapsed, snap, rmw, ghostvars>>

PassDone ==
    /\ pc = "scan" /\ id = NTask
    /\ pc' = "feed"
    /\ UNCHANGED <<event, timer, sys_ticks, old_ticks, wdt, id, elapsed, snap, rmw, ghostvars>>

-----------------------------------------------------------------------------
\* What an event handler does to the scheduler before it returns

HandlerPost(p) ==
    /\ pc = "call"
    /\ Load(p[1], {p[2]})
    /\ pc' = "store"
    /\ UNCHANGED <<event, timer, sys_ticks, old_ticks, wdt, id, elapsed, snap, ghostvars>>

HandlerStore ==
    /\ pc = "store"
    /\ Store
    /\ pc' = "call"
    /\ UNCHANGED <<timer, sys_ticks, old_ticks, wdt, id, elapsed, snap, rmw, left, skipped>>

osal_start_timerEx(i, timeout, period, p) ==
    /\ pc = "call"
    /\ timer' = [timer EXCEPT ![i] =
                    [running |-> TRUE, remain |-> Add(timeout, Credit), period |-> period,
                     task |-> p[1], events |-> {p[2]}]]
    /\ left' = [left EXCEPT ![i] = timeout]
    /\ skipped' = [skipped EXCEPT ![i] = 0]
    /\ UNCHANGED <<event, sys_ticks, old_ticks, wdt, loopvars, owed, raced>>

osal_stop_timerEx(i) ==
    /\ pc = "call"
    /\ timer' = [timer EXCEPT ![i] = Off(timer[i])]
    /\ left' = [left EXCEPT ![i] = 0]
    /\ skipped' = [skipped EXCEPT ![i] = 0]
    /\ UNCHANGED <<event, sys_ticks, old_ticks, wdt, loopvars, owed, raced>>

ReturnKeepsBit ==
    /\ pc = "call"
    /\ snap' = snap
    /\ pc' = "dispatch"
    /\ UNCHANGED <<event, timer, sys_ticks, old_ticks, wdt, id, elapsed, rmw, ghostvars>>

Return ==
    /\ pc = "call"
    /\ snap' = snap \ {Lowest(snap)}
    /\ pc' = "dispatch"
    /\ UNCHANGED <<event, timer, sys_ticks, old_ticks, wdt, id, elapsed, rmw, ghostvars>>

-----------------------------------------------------------------------------
\* Interrupts

\* TMR1_IRQHandler, 1 ms
Tick ==
    /\ ~Masked
    /\ wdt < WdtTicks
    /\ sys_ticks' = Inc(sys_ticks)
    /\ wdt' = wdt + 1
    /\ left' = [i \in Timer |-> IF timer[i].running THEN left[i] - 1 ELSE left[i]]
    /\ UNCHANGED <<event, timer, old_ticks, loopvars, owed, raced, skipped>>

\* osal_set_event in an interrupt handler; the main loop cannot interleave.
\* The post is at risk when the main loop already holds a copy of the word
\* that lacks the bit.
IsrPost(p) ==
    /\ ~Masked
    /\ event' = [event EXCEPT ![p[1]] = @ \cup {p[2]}]
    /\ owed' = owed \cup {p}
    /\ raced' = IF InWindow(p[1]) /\ p[2] \notin rmw.word THEN raced \cup {p} ELSE raced
    /\ UNCHANGED <<timer, sys_ticks, old_ticks, wdt, loopvars, left, skipped>>

\* TMR2_IRQHandler: the main loop has not fed it for WdtTicks.
WatchdogReset ==
    /\ ~Masked
    /\ wdt = WdtTicks
    /\ event' = [t \in Task |-> {}]
    /\ timer' = [i \in Timer |-> Stopped]
    /\ sys_ticks' = 0 /\ old_ticks' = 0 /\ wdt' = 0
    /\ pc' = "feed" /\ id' = 0 /\ elapsed' = 0 /\ snap' = {}
    /\ rmw' = [task |-> 0, bits |-> {}, word |-> {}]
    /\ owed' = {} /\ raced' = {}
    /\ left' = [i \in Timer |-> 0] /\ skipped' = [i \in Timer |-> 0]

-----------------------------------------------------------------------------
HandlerStep ==
    \/ \E p \in MainPost : HandlerPost(p)
    \/ HandlerStore
    \/ \E i \in Timer, t \in Timeout, d \in Period, p \in TimerEvent : osal_start_timerEx(i, t, d, p)
    \/ \E i \in Timer : osal_stop_timerEx(i)

LoopStep ==
    \/ Feed \/ ReadInterval \/ RereadTicks
    \/ CountDown \/ Expire \/ Fire \/ UpdateDone
    \/ ScanNext \/ ScanFound \/ Take \/ Clear \/ Dispatch \/ TaskDone \/ PassDone

Interrupt ==
    \/ Tick
    \/ \E p \in IsrEvent : IsrPost(p)
    \/ WatchdogReset

Next == LoopStep \/ HandlerStep \/ Return \/ Interrupt

Spec == Init /\ [][Next]_vars

\* The loop is straight-line code between interrupts, so a step that is ready
\* is taken.  A handler returns: however often it posts and starts timers, it
\* is not prevented from returning for ever (no handler waits on an event).
Fairness == WF_vars(LoopStep) /\ WF_vars(HandlerStore) /\ SF_vars(Return)

FairSpec == Spec /\ Fairness

-----------------------------------------------------------------------------
\* Properties

\* Types of the tables, the counters and the locals of the main loop.
TypeOK ==
    /\ event \in [Task -> SUBSET Bit]
    /\ timer \in [Timer -> [running : BOOLEAN, remain : Ticks, period : Period \cup {0},
                            task : Task, events : SUBSET Bit]]
    /\ sys_ticks \in Ticks /\ old_ticks \in Ticks
    /\ wdt \in 0 .. WdtTicks
    /\ pc \in {"feed", "read", "reread", "update", "fire", "scan", "take", "clear",
               "dispatch", "call", "store"}
    /\ id \in Nat
    /\ pc \in {"reread", "update"} => id <= NTimer
    /\ pc = "fire" => id < NTimer
    /\ pc = "scan" => id <= NTask
    /\ pc \in {"take", "clear", "dispatch", "call", "store"} => id < NTask
    /\ elapsed \in Ticks
    /\ snap \subseteq Bit
    /\ rmw \in [task : Task, bits : SUBSET Bit, word : SUBSET Bit]
    /\ owed \subseteq Event /\ raced \subseteq owed
    /\ left \in [Timer -> Int] /\ skipped \in [Timer -> Nat]

\* Every post not yet delivered is in its task's event word, in the copy that
\* osal_event_handle works through, or was made by an interrupt inside the
\* load-store window of osal_set_event: masking interrupts around the copy
\* is enough, and the unmasked window of osal_set_event is the only leak.
NoPostLost == owed \ raced \subseteq InTable \cup InSnapshot

\* A timer posts its event no earlier than the timeout it was started with,
\* whatever the ticks that had passed unseen when it was started and wherever
\* sys_ticks wraps: osal_start_timerEx adds the ticks not yet credited.
NeverEarly == pc = "fire" => left[id] <= 0

\* When osal_timer_update has been through the table, no timer still runs
\* that was due when it read the ticks, but for the ticks lost between its
\* two reads of sys_ticks.
NeverLate ==
    pc = "update" /\ id = NTimer =>
        \A i \in Timer : timer[i].running => left[i] + skipped[i] + Gap > 0

\* A timer fires on time: neither before its timeout, nor passes of
\* osal_timer_update after it.
OnTime == NeverEarly /\ NeverLate

\* The main loop comes back to feeding the watchdog whatever the handlers
\* post, to themselves or to others, and however often interrupts post.
PassesEnd == []<>(pc = "feed")

\* An event that stands in the word of a task with a handler is delivered,
\* lost to the race of osal_set_event, or gone in a reset.
Delivered ==
    \A p \in Event : p[1] \in Registered =>
        (p \in owed \ raced) ~> (p \notin owed \/ p \in raced)

\* No pattern of posts starves the watchdog or an event.
Served == PassesEnd /\ Delivered

\* The mailbox: posted and not delivered, and the handler that runs.
Mailbox == INSTANCE OsalEvents WITH
    Event <- Event,
    IsrEvent <- IsrEvent,
    pending <- InTable \cup InSnapshot,
    running <- IF pc \in {"call", "store"} THEN {<<id, Lowest(snap)>>} ELSE {}

\* The scheduler implements the mailbox: it delivers only what was posted, one
\* handler at a time, and loses only interrupt posts to the task whose word the
\* main loop is posting to.
ImplementsMailbox == Mailbox!ESpec
=============================================================================
