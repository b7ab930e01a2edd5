------------------------------ MODULE Regulator ------------------------------
(***************************************************************************)
(* The converter's output voltage (power/buckboost.c, hal/nu6805.c).  A    *)
(* request only notes the voltage; the task waits, programs the chip and   *)
(* waits again before it reports the voltage as done, which the ports and  *)
(* USB PD poll.  Timers expire at the head of a pass of the scheduler,     *)
(* tasks 0..4 run, then this task handles the events it had by then,       *)
(* lowest bit first, then the later tasks run.  Time is abstract: an armed *)
(* timer may expire at the head of any pass.                               *)
(***************************************************************************)
EXTENDS Naturals, FiniteSets

CONSTANTS Volts,     \* the voltages asked for, "5V" one of them
          Drops      \* the corrections for the cable that are computed, 0 one of them

VARIABLES
  posted, batch,              \* events of the task: posted, and being handled
  timer, disg,                \* REGULATOR_TIMER: off, or what it ends; DISG_TIMER runs
  asked, regulator_state,     \* the voltage requested, and "done"
  ir_drop, cnt_delay,         \* the correction, and readings that differ from it
  out, dischg,                \* in the chip: the voltage programmed, VBUS discharge
  late                        \* history: asked while the end of the last delay was posted
vars == <<posted, batch, timer, disg, asked, regulator_state, ir_drop, cnt_delay, out, dischg, late>>
irDrop == <<ir_drop, cnt_delay>>
chip == <<out, dischg>>

Bits == [SET_DISCHG_VBUS_VOLT |-> 1, REGULATOR_WAITDONE |-> 8,
         REGULATOR_DELAYDONE |-> 9, DUMMYLOADOVER |-> 27]
Events == DOMAIN Bits
Five == [volt |-> "5V", drop |-> 0]

TypeOK ==
  /\ posted \subseteq Events /\ batch \subseteq Events
  /\ timer \in {"off", "REGULATOR_WAITDONE", "REGULATOR_DELAYDONE"} /\ {disg, dischg} \subseteq BOOLEAN
  /\ asked \in Volts /\ {regulator_state, late} \subseteq BOOLEAN
  /\ ir_drop \in Drops /\ cnt_delay \in 0 .. 5 /\ out \in [volt : Volts, drop : Drops]

\* buckboost_task_init leaves the structure zero and the chip at its 5 V, and
\* port_manager_task_init asks for 5 V, which is another voltage than none.
Init ==
  /\ posted = {"SET_DISCHG_VBUS_VOLT"} /\ batch = {} /\ timer = "off" /\ disg = TRUE
  /\ asked = "5V" /\ regulator_state = FALSE /\ ir_drop = 0 /\ cnt_delay = 0
  /\ out = Five /\ dischg = TRUE /\ late = FALSE

-----------------------------------------------------------------------------
(* A request, by a port, by USB PD or by a protection.                     *)

buckboost_set_bus_ivRuns(v) ==
  /\ batch = {}
  /\ IF v # asked THEN disg' = TRUE /\ dischg' = TRUE ELSE UNCHANGED <<disg, dischg>>
  /\ asked' = v /\ regulator_state' = FALSE
  /\ posted' = posted \cup {"SET_DISCHG_VBUS_VOLT"}
  /\ late' = ("REGULATOR_DELAYDONE" \in posted)
  /\ UNCHANGED <<batch, timer, irDrop>>
buckboost_set_bus_iv(v) ==
  /\ batch = {}
  /\ IF v # asked THEN disg' = TRUE /\ dischg' = TRUE ELSE UNCHANGED <<disg, dischg>>
  /\ timer' = "off" /\ asked' = v /\ regulator_state' = FALSE
  /\ posted' = posted \cup {"SET_DISCHG_VBUS_VOLT"}
  /\ late' = ("REGULATOR_DELAYDONE" \in posted)
  /\ UNCHANGED <<batch, irDrop>>

Request == \E v \in Volts : buckboost_set_bus_iv(v) /\ UNCHANGED out
\* A protection locks, or the lock is lifted: the chip is set up anew as well.
hal_nu6805_buckboost_init == buckboost_set_bus_iv("5V") /\ out' = Five

-----------------------------------------------------------------------------
(* The passes of the scheduler.                                            *)

Expire ==
  /\ batch = {} /\ timer # "off"
  /\ posted' = posted \cup {timer} /\ timer' = "off"
  /\ UNCHANGED <<batch, disg, asked, regulator_state, irDrop, chip, late>>
ExpireDisg ==
  /\ batch = {} /\ disg
  /\ posted' = posted \cup {"DUMMYLOADOVER"} /\ disg' = FALSE
  /\ UNCHANGED <<batch, timer, asked, regulator_state, irDrop, chip, late>>
Pass ==
  /\ batch = {} /\ posted # {}
  /\ batch' = posted /\ posted' = {}
  /\ UNCHANGED <<timer, disg, asked, regulator_state, irDrop, chip, late>>

Served(e) ==
  /\ e \in batch /\ \A f \in batch : Bits[e] <= Bits[f]
  /\ batch' = batch \ {e}
  /\ UNCHANGED <<posted, disg, asked, late>>

SetDischgVbusVolt ==
  /\ Served("SET_DISCHG_VBUS_VOLT")
  /\ regulator_state' = FALSE /\ timer' = "REGULATOR_WAITDONE"
  /\ UNCHANGED <<irDrop, chip>>
WaitDone ==
  /\ Served("REGULATOR_WAITDONE")
  /\ out' = [volt |-> asked, drop |-> ir_drop] /\ timer' = "REGULATOR_DELAYDONE"
  /\ UNCHANGED <<regulator_state, irDrop, dischg>>
DelayDone ==
  /\ Served("REGULATOR_DELAYDONE")
  /\ regulator_state' = TRUE /\ timer' = "off"
  /\ UNCHANGED <<irDrop, chip>>
DummyLoadOverKeeps ==
  /\ Served("DUMMYLOADOVER")
  /\ dischg' = dischg
  /\ UNCHANGED <<timer, regulator_state, irDrop, out>>
DummyLoadOver ==
  /\ Served("DUMMYLOADOVER")
  /\ dischg' = FALSE
  /\ UNCHANGED <<timer, regulator_state, irDrop, out>>

\* Every 40 ms round, last of the events: a correction read five times is
\* programmed at once, with whatever voltage is asked for by then; away from a
\* plain source it is forgotten, and the chip keeps it until the next request.
buckboost_ir_drop_handle ==
  /\ batch = {}
  /\ \/ \E d \in Drops \ {ir_drop} :
          IF cnt_delay >= 4
          THEN cnt_delay' = 5 /\ ir_drop' = d /\ out' = [volt |-> asked, drop |-> d]
          ELSE cnt_delay' = cnt_delay + 1 /\ UNCHANGED <<ir_drop, out>>
     \/ cnt_delay' = 0 /\ ir_drop' \in {ir_drop, 0} /\ UNCHANGED out
  /\ UNCHANGED <<posted, batch, timer, disg, asked, regulator_state, dischg, late>>

Step == Pass \/ SetDischgVbusVolt \/ WaitDone \/ DelayDone \/ DummyLoadOver
Next == Request \/ hal_nu6805_buckboost_init \/ Expire \/ ExpireDisg \/ Step \/ buckboost_ir_drop_handle
Fairness == WF_vars(Expire) /\ WF_vars(ExpireDisg) /\ WF_vars(Step)
Spec == Init /\ [][Next]_vars /\ Fairness
-----------------------------------------------------------------------------
\* Whoever polls buckboost_regulator_done and finds it true finds the voltage
\* asked for programmed and nothing of an earlier request under way.  The one
\* exception is a request that came while the end of the last delay was posted:
\* that end is then taken for its own, and its voltage is never programmed.
Delivered ==
  regulator_state =>
    /\ timer = "off" /\ (posted \cup batch) \subseteq {"DUMMYLOADOVER"}
    /\ ~late => out.volt = asked

\* Unless requests keep coming, a voltage asked for is reported as done and VBUS
\* is no longer discharged, however the two timers and the requests interleave.
Settles ==
  \/ []<>(regulator_state /\ ~dischg)
  \/ []<><<Request \/ hal_nu6805_buckboost_init>>_vars
=============================================================================
