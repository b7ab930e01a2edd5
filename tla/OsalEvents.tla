----------------------------- MODULE OsalEvents -----------------------------
(***************************************************************************)
(* What osal/osal.c promises its users, without the tables, the scan and   *)
(* the tick counter: a mailbox of events that coalesce, and one handler    *)
(* running at a time.  An event is a pair <<task, bit>>.                   *)
(*                                                                         *)
(* The promise is not "no event is ever lost": osal_set_event is a plain   *)
(* read-modify-write, so a post made by the main loop may wipe out posts   *)
(* that interrupt handlers make to the SAME task in the meantime.  Nothing *)
(* else may vanish, and nothing may be delivered that was not posted.      *)
(***************************************************************************)
CONSTANTS
    Event,          \* the pairs <<task, bit>>
    IsrEvent        \* those of them that interrupt handlers post

VARIABLES
    pending,        \* posted and not yet delivered
    running         \* {} or {the event whose handler runs}

evars == <<pending, running>>

EInit == pending = {} /\ running = {}

\* Posts of the main loop, which may cost interrupt posts to the same task.
Post(new, lost) ==
    /\ new \subseteq Event
    /\ lost \subseteq IsrEvent
    /\ \A p \in new, q \in lost : p[1] = q[1]
    /\ pending' = (pending \ lost) \cup new
    /\ UNCHANGED running

IsrPost(p) ==
    /\ p \in IsrEvent
    /\ pending' = pending \cup {p}
    /\ UNCHANGED running

\* The handler starts.  The event stays pending when it was posted again
\* after the scheduler took its copy.
Deliver(p) ==
    /\ running = {}
    /\ p \in pending
    /\ running' = {p}
    /\ pending' \in {pending, pending \ {p}}

Return ==
    /\ running # {}
    /\ running' = {}
    /\ UNCHANGED pending

\* The watchdog resets the chip.
Reset == pending' = {} /\ running' = {}

ENext ==
    \/ \E new \in SUBSET Event, lost \in SUBSET IsrEvent : new # {} /\ Post(new, lost)
    \/ \E p \in IsrEvent : IsrPost(p)
    \/ \E p \in Event : Deliver(p)
    \/ Return
    \/ Reset

ESpec == EInit /\ [][ENext]_evars
=============================================================================
