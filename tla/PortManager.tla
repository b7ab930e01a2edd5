---------------------------- MODULE PortManager ----------------------------
(***************************************************************************)
(* Who has the converter: the port manager, which takes one port in hand   *)
(* at a time, the Type-C port 0 and the wireless port 3, and the parts it  *)
(* is told by and fights with.  (This build has no USB-A and no second     *)
(* Type-C: ports 1 and 2 stay NONE and incharge_port stays 0.)             *)
(*                                                                         *)
(* One action is one event of the manager's task, one step of the Type-C   *)
(* machine (lib/typec.c, its states by what the manager is told), of the   *)
(* receiver's presence (fml/tcpm.c), or one of the handlers that write the *)
(* manager's state behind its back (power/buckboost.c, fml/ntc.c).  Tasks  *)
(* do not interrupt each other, so all but the manager act between its     *)
(* batches.  A tick is a long time to the 1 ms scan: nothing that is due   *)
(* waits for one.  The policy engine's own use of the gate and its swaps   *)
(* are left out.                                                           *)
(***************************************************************************)
EXTENDS Integers

CONSTANTS
    Long, Short,    \* 2000 ms, and 100 to 500 ms: the manager's timeouts, in ticks
    Stuck,          \* 5000 ms: how long a port may be in hand
    Lapse,          \* 30 scans of 136 ms: how long a receiver may be silent
    Actors          \* who takes part, besides the manager and the Type-C port

ASSUME PortManagerAssumption ==
    /\ Long \in Nat \ {0} /\ Short \in Nat \ {0} /\ Stuck \in Nat \ {0} /\ Lapse \in Nat \ {0}
    /\ Actors \subseteq {"receiver", "protect", "comm", "reset", "recharge"}

VARIABLES
    port,                   \* g_port.port_state of 0 and 3
    inhand, handling,       \* g_port.inhandle_port; g_port.state is INHANDLING
    stuck,                  \* inhandling_stuck_cnt
    pend,                   \* g_port.port_event: TRYn and ENDn for n_TRY_CONNECT and n_UNCONNECT
    posted, batch,          \* the event word of the task, the copy being handled
    scanned,                \* a scan since the Type-C machine's last step: both come every 1 ms
    due, left,              \* PORT_CONNECT_TIMER: what it will post ("none" if stopped), and when
    tc, tcOn,               \* the Type-C machine of port 0; lib_para.typec_a_support
    mode, gate,             \* g_buckboost.woke_mode; the gate of port 0 is closed to current or open
    off,                    \* wpc_mode is DISABLE
    powered, qi, silent,    \* the session is past PING; qi_state; qi_cnt, in ticks
    comm, protected,        \* gd->usb_comm_activated, buckboost_protection_flag
    recharge                \* gd->recharge_flag

hand   == <<inhand, handling, stuck>>
queue  == <<pend, posted, batch, scanned>>
timer  == <<due, left>>
typec  == <<tc, tcOn>>
qis    == <<powered, qi, silent>>
others == <<comm, protected, recharge>>
vars   == <<port, hand, queue, timer, typec, mode, gate, off, qis, others>>

\* The events of the task, in the order of their bits
ScanAmongPorts ==
    [START0 |-> 0, SUCCESS0 |-> 1, CLOSED0 |-> 2, SETVOLT0 |-> 3, SETCHARGE0 |-> 4, DONE0 |-> 5,
     SETCHARGE1 |-> 10, START3 |-> 18, SUCCESS3 |-> 19, CLOSED3 |-> 20, DONE3 |-> 23, SCAN |-> 14]
Bit == [START0 |-> 0, SUCCESS0 |-> 1, CLOSED0 |-> 2, SETVOLT0 |-> 3, SETCHARGE0 |-> 4, DONE0 |-> 5,
        SETCHARGE1 |-> 10, START3 |-> 18, SUCCESS3 |-> 19, CLOSED3 |-> 20, DONE3 |-> 23, SCAN |-> 31]
Events == DOMAIN Bit

\* port_event, in the order in which the idle scan takes them, and what it posts for each
Requests == {"END0", "END3", "TRY0", "TRY3", "RESET"}
Rank == [END0 |-> 1, END3 |-> 2, TRY0 |-> 3, TRY3 |-> 4, RESET |-> 5]
Served == [END0 |-> "CLOSED0", END3 |-> "CLOSED3", TRY0 |-> "START0", TRY3 |-> "START3",
           RESET |-> "SETVOLT0"]
PortOf == [END0 |-> 0, END3 |-> 3, TRY0 |-> 0, TRY3 |-> 3, RESET |-> 0]

\* "Restart" is TC_Disable with a delay, "Wait" any state between Unattached and attached
TypeC == {"Disable", "Restart", "Toggle", "SnkUnattached", "SrcUnattached", "Wait", "Snk", "Src"}

TypeOK ==
    /\ port \in [{0, 3} -> {"NONE", "SOURCE", "SINK"}]
    /\ inhand \in {0, 3} /\ handling \in BOOLEAN /\ stuck \in 0 .. Stuck
    /\ pend \subseteq Requests /\ posted \subseteq Events /\ batch \subseteq Events /\ scanned \in BOOLEAN
    /\ due \in Events \cup {"none"} /\ left \in (0 .. Long) \cup (0 .. Short)
    /\ tc \in TypeC /\ tcOn \in BOOLEAN
    /\ mode \in {"DISCHG", "SHUTDOWN", "CHARGER"} /\ gate \in BOOLEAN /\ off \in BOOLEAN
    /\ powered \in BOOLEAN /\ qi \in BOOLEAN /\ silent \in 0 .. Lapse
    /\ comm \in BOOLEAN /\ protected \in BOOLEAN /\ recharge \in BOOLEAN

Init ==
    /\ port = [p \in {0, 3} |-> "NONE"] /\ inhand = 0 /\ handling = FALSE /\ stuck = 0
    /\ pend = {} /\ posted = {} /\ batch = {} /\ scanned = TRUE
    /\ due = "none" /\ left = 0
    /\ tc = "SnkUnattached" /\ tcOn = TRUE
    /\ mode = "DISCHG" /\ gate = FALSE /\ off = FALSE
    /\ powered = FALSE /\ qi = FALSE /\ silent = 0
    /\ comm = FALSE /\ protected = FALSE /\ recharge = FALSE

-----------------------------------------------------------------------------
(* The manager's task.                                                     *)

Take ==
    /\ batch = {}
    /\ batch' \in {posted, posted \cup {"SCAN"}} /\ batch' # {}
    /\ posted' = {}
    /\ UNCHANGED <<port, hand, pend, scanned, timer, typec, mode, gate, off, qis, others>>

Handling(e) ==
    /\ e \in batch /\ \A f \in batch : Bit[e] <= Bit[f]
    /\ batch' = batch \ {e}
    /\ scanned' = (scanned \/ e = "SCAN")
    /\ UNCHANGED others

Keep == UNCHANGED <<pend, posted>>
Arm(e, time) == due' = e /\ left' = time
Disarm == due' = "none" /\ left' = 0
StopWpc == powered' = FALSE /\ UNCHANGED <<qi, silent>>
Idle == handling' = FALSE /\ UNCHANGED stuck
Empty(ports) == ports[0] = "NONE"

\* What the ends and the connections of the ports make of them, of the gate and of the machine
FreedUncharged == IF mode = "CHARGER" THEN port ELSE [port EXCEPT ![inhand] = "NONE"]
Freed == [port EXCEPT ![inhand] = "NONE"]

OpenedForPort0 == gate \/ (port[0] = "SOURCE" /\ inhand = 0)
Opened == gate \/ port[0] = "SOURCE"

Woken(ports) == IF Empty(ports) THEN "Restart" ELSE tc

Silenced ==
    /\ tc' = IF Empty(port) THEN "Disable" ELSE tc
    /\ tcOn' = (tcOn /\ ~Empty(port))

\* port_enum_port0_connect_start
Start0 ==
    /\ Handling("START0")
    /\ StopWpc /\ off' = TRUE
    /\ Keep /\ UNCHANGED <<port, hand, timer, typec, mode, gate>>

\* port_enum_port0_connect_success, with the line before its call
Success0 ==
    /\ Handling("SUCCESS0")
    /\ pend' = pend \ {"END0"}
    /\ \/ comm /\ UNCHANGED <<port, posted, timer, mode, gate>>
       \/ /\ ~comm /\ tc = "Snk"
          /\ port' = [port EXCEPT ![0] = "SINK"]
          /\ mode' = "SHUTDOWN" /\ Arm("SETVOLT0", Long) /\ UNCHANGED <<gate, posted>>
       \/ /\ ~comm /\ tc # "Snk"
          /\ port' = [port EXCEPT ![0] = IF tc = "Src" THEN "SOURCE" ELSE @]
          /\ IF mode = "CHARGER"
             THEN posted' = posted \cup {"DONE0"} /\ UNCHANGED <<timer, mode, gate>>
             ELSE mode' = "DISCHG" /\ gate' = TRUE /\ Arm("DONE0", Short) /\ UNCHANGED posted
    /\ UNCHANGED <<hand, typec, off, qis>>

\* port_enum_port_snk_setvolt
SetVolt ==
    /\ Handling("SETVOLT0")
    /\ gate' = TRUE
    /\ Arm(IF inhand = 0 THEN "SETCHARGE0" ELSE "SETCHARGE1", Short)
    /\ Keep /\ UNCHANGED <<port, hand, typec, mode, off, qis>>

\* port_enum_port_snk_setcharge
SetCharge ==
    /\ Handling("SETCHARGE0") \/ Handling("SETCHARGE1")
    /\ mode' = "CHARGER"
    /\ IF inhand = 0 THEN Arm("DONE0", Short) ELSE UNCHANGED timer
    /\ Keep /\ UNCHANGED <<port, hand, typec, gate, off, qis>>

\* port_enum_port_enum_done
EnumDone ==
    /\ Handling("DONE0") \/ Handling("DONE3")
    /\ gate' = Opened
    /\ tc' = Woken(port)
    /\ tcOn' = TRUE
    /\ IF inhand = 3 THEN UNCHANGED <<off, qis>> ELSE StopWpc /\ off' = FALSE
    /\ pend' = IF mode = "CHARGER" /\ inhand = 3 THEN pend \cup {"RESET"} ELSE pend
    /\ Idle /\ UNCHANGED <<port, inhand, posted, timer, mode>>

\* port_enum_port0_connect_closed
Closed0 ==
    /\ Handling("CLOSED0")
    /\ Disarm
    /\ port' = Freed
    /\ gate' = (gate /\ inhand # 0)
    /\ tc' = IF Empty(port') /\ tc \in {"Disable", "Restart"} THEN "Restart" ELSE tc
    /\ tcOn' = TRUE
    /\ mode' = IF Empty(port') THEN "DISCHG" ELSE mode
    /\ StopWpc /\ off' = FALSE
    /\ Idle /\ Keep /\ UNCHANGED inhand

\* port_enum_port3_connect_start
Start3 ==
    /\ Handling("START3")
    /\ Silenced
    /\ gate' = (gate /\ port[0] # "SOURCE")
    /\ Arm("SUCCESS3", Short)
    /\ Keep /\ UNCHANGED <<port, hand, mode, off, qis>>

\* port_enum_port3_connect_success
Success3 ==
    /\ Handling("SUCCESS3")
    /\ port' = [port EXCEPT ![3] = "SOURCE"]
    /\ Arm("DONE3", Short)
    /\ Keep /\ UNCHANGED <<hand, typec, mode, gate, off, qis>>

\* port_enum_port3_connect_closed
Closed3 ==
    LET cycled == mode # "CHARGER" /\ Freed[0] = "SOURCE"
    IN  /\ Handling("CLOSED3")
        /\ port' = IF cycled THEN [Freed EXCEPT ![0] = "NONE"] ELSE Freed
        /\ gate' = (gate /\ inhand # 0 /\ ~cycled)
        /\ tc' = Woken(port')
        /\ tcOn' = TRUE
        /\ mode' = IF Empty(Freed) THEN "DISCHG" ELSE mode
        /\ IF mode' = "CHARGER" /\ Freed[0] # "SOURCE"
           THEN posted' = posted \cup {"SETVOLT0"} /\ inhand' = 0
           ELSE UNCHANGED <<posted, inhand>>
        /\ StopWpc /\ off' = FALSE
        /\ Idle /\ UNCHANGED <<pend, timer>>

-----------------------------------------------------------------------------
(* port_enum_scan_handle.                                                  *)

ScanLocked ==
    /\ Handling("SCAN") /\ comm
    /\ Keep /\ UNCHANGED <<port, hand, timer, typec, mode, gate, off, qis>>

Recharged == IF recharge THEN [port EXCEPT ![0] = "SOURCE"] ELSE port
Away == "END0" \in pend /\ inhand # 0

Unforced == FALSE
Forced == stuck >= Stuck

\* A port is in hand: the watchdog, and the end of port 0 while port 3 is in hand
ScanBusy ==
    /\ Handling("SCAN") /\ ~comm /\ handling
    /\ handling' = ~Forced /\ stuck' = IF Forced THEN 0 ELSE stuck
    /\ port' = IF Away THEN [port EXCEPT ![0] = "NONE"] ELSE Recharged
    /\ gate' = (gate /\ ~Away)
    /\ tc' = IF Away THEN "Disable" ELSE tc
    /\ pend' = IF Away THEN pend \ {"END0"} ELSE pend
    /\ UNCHANGED <<inhand, posted, timer, tcOn, mode, off, qis>>

ScanNothing ==
    /\ Handling("SCAN") /\ ~comm /\ ~handling /\ pend = {}
    /\ port' = Recharged /\ stuck' = 0
    /\ Keep /\ UNCHANGED <<inhand, handling, timer, typec, mode, gate, off, qis>>

\* The first request is taken.  A connection of a port that is not NONE is dropped; a new
\* charge is taken in hand whatever the mode, but only posted to a charger.
ScanNext(r) ==
    LET taken == r # "TRY0" \/ (Recharged[0] = "NONE" /\ ~recharge)
        told  == taken /\ (r # "RESET" \/ mode = "CHARGER")
    IN  /\ Handling("SCAN") /\ ~comm /\ ~handling
        /\ r \in pend /\ \A q \in pend : Rank[r] <= Rank[q]
        /\ pend' = pend \ {r}
        /\ handling' = taken /\ inhand' = (IF taken THEN PortOf[r] ELSE inhand) /\ stuck' = 0
        /\ posted' = IF told THEN posted \cup {Served[r]} ELSE posted
        /\ port' = Recharged
        /\ UNCHANGED <<timer, typec, mode, gate, off, qis>>

-----------------------------------------------------------------------------
(* Time.  No tick passes while the scan, the timer or the task has work.   *)

ScanHasWork ==
    /\ ~comm
    /\ IF handling THEN stuck >= Stuck \/ Away ELSE pend # {}

Quiet == posted = {} /\ batch = {} /\ ~ScanHasWork

Tick ==
    /\ Quiet /\ (due = "none" \/ left > 0) /\ silent < Lapse
    /\ left' = IF due = "none" THEN 0 ELSE left - 1
    /\ stuck' = IF handling /\ ~comm THEN stuck + 1 ELSE stuck
    /\ silent' = IF qi /\ ~powered THEN silent + 1 ELSE 0
    /\ UNCHANGED <<port, inhand, handling, queue, due, typec, mode, gate, off, powered, qi, others>>

TimerFires ==
    /\ batch = {} /\ due # "none" /\ left = 0
    /\ posted' = posted \cup {due} /\ Disarm
    /\ UNCHANGED <<port, hand, pend, batch, scanned, typec, mode, gate, off, qis, others>>

-----------------------------------------------------------------------------
(* The Type-C machine of port 0: usb_tc_run, one step of it a millisecond. *)

Step(from, to) ==
    /\ batch = {} /\ scanned /\ tcOn
    /\ tc \in from /\ tc' \in to
    /\ scanned' = FALSE
    /\ UNCHANGED <<port, hand, batch, timer, tcOn, mode, off, qis, others>>

Unattached == {"SnkUnattached", "SrcUnattached"}

\* TC_Disable_Exit, and TC_DRP_TOGGLE_Exit with what it finds
TcSettle ==
    /\ Step({"Restart"}, {"Toggle"}) \/ Step({"Toggle"}, Unattached)
    /\ Keep /\ UNCHANGED gate

\* TC_DRP_TOGGLE_Exit: no partner for a second though the port is in hand
TcGiveUp ==
    /\ handling /\ inhand = 0
    /\ Step({"Toggle"}, {"Toggle"})
    /\ pend' = pend \cup {"END0"} /\ UNCHANGED <<posted, gate>>

\* TC_SNK_Unattached_Exit and TC_SRC_Unattached_Exit
TcFind ==
    /\ Step(Unattached, {"Wait"})
    /\ pend' = pend \cup {"TRY0"} /\ UNCHANGED <<posted, gate>>

TcMiss ==
    /\ Step(IF comm THEN {"SrcUnattached"} ELSE Unattached, {"Toggle"})
    /\ Keep /\ UNCHANGED gate

\* The waits that find the partner gone, and those that end in an attached state
TcLose == Step({"Wait"}, Unattached) /\ Keep /\ UNCHANGED gate

TcAttach ==
    /\ Step({"Wait"}, {"Snk", "Src"})
    /\ posted' = posted \cup {"SUCCESS0"} /\ UNCHANGED <<pend, gate>>

\* TC_SNK_Attached_Exit and TC_SRC_Attached_Exit; a source may go straight on to TryWAIT_SNK,
\* or to the toggle when the port has gone to its lighting mode
TcDetach ==
    /\ Step({"Snk"}, {"SnkUnattached"}) \/ Step({"Src"}, {"SrcUnattached", "Wait", "Toggle"})
    /\ gate' = FALSE
    /\ pend' = pend \cup {"END0"} /\ UNCHANGED posted

-----------------------------------------------------------------------------
(* The receiver: fml/tcpm.c, told by the ping phase.                       *)

\* wpc_ping's first packet and TCPM_EVT_QI_WORK; a click lets it ping beside a live port
Answer ==
    /\ "receiver" \in Actors
    /\ batch = {} /\ ~powered /\ ~off /\ ~comm
    /\ powered' = TRUE /\ qi' = TRUE
    /\ pend' = IF qi THEN pend ELSE pend \cup {"TRY3"}
    /\ UNCHANGED <<port, hand, posted, batch, scanned, timer, typec, mode, gate, off, silent, others>>

EndSession ==
    /\ batch = {} /\ powered /\ powered' = FALSE
    /\ UNCHANGED <<port, hand, queue, timer, typec, mode, gate, off, qi, silent, others>>

\* TCPM_EVT_USBA_SCAN: thirty times in a row no power though a receiver is known
ReceiverGone ==
    /\ batch = {} /\ silent >= Lapse
    /\ silent' = 0
    /\ IF qi /\ ~powered THEN qi' = FALSE /\ pend' = pend \cup {"END3"} ELSE UNCHANGED <<qi, pend>>
    /\ UNCHANGED <<port, hand, posted, batch, scanned, timer, typec, mode, gate, off, powered, others>>

-----------------------------------------------------------------------------
(* The other writers.                                                      *)

Behind(who) == who \in Actors /\ batch = {} /\ UNCHANGED <<hand, batch, scanned, timer>>

\* buckboost_protection_handle trips: on a fault of the bus, or on NTC_PCT alone
Protect ==
    /\ Behind("protect") /\ ~comm
    /\ \/ UNCHANGED port /\ tc' = IF Empty(port) THEN "Disable" ELSE tc
       \/ port' = [p \in {0, 3} |-> "NONE"] /\ tc' = "Disable"
    /\ gate' = FALSE /\ powered' = FALSE /\ qi' = FALSE /\ off' = TRUE /\ protected' = TRUE
    /\ Keep /\ UNCHANGED <<tcOn, mode, silent, comm, recharge>>

\* Wireless and the converter as buckboost_protection_handle, buckboost_fault_restore and
\* usb_comm_unlock leave them
Restore ==
    /\ protected' = FALSE /\ tc' = "Toggle" /\ mode' = "DISCHG" /\ off' = FALSE /\ StopWpc
    /\ Keep /\ UNCHANGED <<port, tcOn, gate, recharge>>

Unprotect == Behind("protect") /\ ~comm /\ protected /\ Empty(port) /\ Restore /\ UNCHANGED comm
Click     == Behind("protect") /\ protected /\ Restore /\ UNCHANGED comm

\* key_triple_click_process
CommLock ==
    /\ Behind("comm") /\ ~protected /\ ~comm /\ comm' = TRUE
    /\ port' = [p \in {0, 3} |-> "NONE"] /\ gate' = FALSE /\ tc' = "SnkUnattached"
    /\ mode' = "SHUTDOWN" /\ off' = TRUE /\ StopWpc
    /\ Keep /\ UNCHANGED <<tcOn, protected, recharge>>

CommUnlock == Behind("comm") /\ ~protected /\ comm /\ comm' = FALSE /\ Restore

\* The NTC, the dead battery, the key and the policy engine ask for a new charge current.
Renew ==
    /\ Behind("reset") /\ pend' = pend \cup {"RESET"}
    /\ UNCHANGED <<port, posted, typec, mode, gate, off, qis, others>>

\* buckboost_ntc_handle: the connector is hot, or has cooled down
Recharge ==
    /\ Behind("recharge") /\ mode = "DISCHG" /\ recharge' = ~recharge
    /\ Keep /\ UNCHANGED <<port, typec, mode, gate, off, qis, comm, protected>>

-----------------------------------------------------------------------------
Manager ==
    \/ Start0 \/ Success0 \/ SetVolt \/ SetCharge \/ EnumDone \/ Closed0
    \/ Start3 \/ Success3 \/ Closed3
    \/ ScanLocked \/ ScanBusy \/ ScanNothing \/ \E r \in Requests : ScanNext(r)

Next ==
    \/ Take \/ Manager
    \/ Tick \/ TimerFires
    \/ TcSettle \/ TcGiveUp \/ TcFind \/ TcMiss \/ TcLose \/ TcAttach \/ TcDetach
    \/ Answer \/ EndSession \/ ReceiverGone
    \/ Protect \/ Unprotect \/ Click \/ CommLock \/ CommUnlock \/ Renew \/ Recharge

Spec == Init /\ [][Next]_vars

\* Every pass of the scheduler runs each task that has work, the scan's timer restarts itself,
\* and time goes on, whatever of it is due next: none of it waits for good on the others.
Time == Tick \/ TimerFires \/ ReceiverGone
Fairness ==
    /\ WF_vars(Take /\ "SCAN" \in batch') /\ WF_vars(Manager)
    /\ SF_vars(Time)

FairSpec == Spec /\ Fairness

-----------------------------------------------------------------------------
(* Correctness.                                                            *)

\* Nothing is to be handled and nothing is on its way.
Still == Quiet /\ ~handling /\ due = "none" /\ pend = {}
Attached == tc \in {"Snk", "Src"}

\* A wireless connection turns the Type-C machine of a port that is NONE off, and the steps that
\* turn it on again may be cut short by an end of port 0, by the watchdog or by a chain of
\* another port's timer.  Once all is still the machine runs: a partner will be noticed.
PortListens == Still /\ ~protected /\ ~comm => tcOn /\ tc # "Disable"

\* The steps of all the ports share one timer, so that any step may cancel another's.  While
\* the wireless port is in hand, its own next step is always on the timer or in the queue.
WirelessGoesOn ==
    handling /\ inhand = 3 =>
        \/ due \in {"SUCCESS3", "DONE3"}
        \/ {"START3", "SUCCESS3", "CLOSED3", "DONE3"} \cap (posted \cup batch) # {}

\* CLOSEDn clears whatever port is in hand when it runs, not port n.  No step of one port is
\* still in the queue after the scan, the watchdog or CLOSED3 has taken another one in hand:
\* only because the scan is the last event of a batch.
StepsOfPortInHand ==
    \A e \in posted \cup batch :
        /\ e \in {"START0", "CLOSED0"} => inhand = 0
        /\ e \in {"START3", "CLOSED3"} => inhand = 3

\* START3 takes the current of a source away, and only the end of the chain it starts, which
\* port 0 may interrupt, gives it back.  Once all is still a source delivers.
SourceDelivers == Still /\ port[0] = "SOURCE" => gate

\* The manager learns of the partner by events it may drop, reorder or clear (a success clears
\* a pending end).  Once all is still, a port it has as connected has its partner.
ConnectedIsAttached == Still /\ port[0] # "NONE" => Attached

\* Once all is still the manager's view of port 0 is that of its Type-C machine: the
\* machine runs, and a port that is connected has its partner.
PartnersKnown == PortListens /\ ConnectedIsAttached

\* Every chain of steps that shares the one timer reaches its end: wireless power goes
\* on to be enumerated, and a source gets its current back.
ChainsEnd == WirelessGoesOn /\ SourceDelivers

\* A port in hand is let go of again, whatever became of its partner, its timer or the
\* requests made meanwhile; the communication mode alone may suspend that.
LetGo == []<>(~handling \/ comm)

\* A port does not stay connected when its partner has gone: the end gets through to the
\* manager though a port may be in hand and its steps on their way.
EndGetsThrough == []<>(port[0] = "NONE" \/ Attached \/ comm)
=============================================================================
