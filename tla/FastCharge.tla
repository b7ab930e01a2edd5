----------------------------- MODULE FastCharge -----------------------------
(***************************************************************************)
(* D+/D- fast charging (fml/dpdm.c, fml/usb_qc.c, lib/afc_scp.c).  Fed: the *)
(* interrupts of the D+/D- block decode what a device asks for (QC, AFC,    *)
(* FCP and SCP) into shared variables and post events; the task's handler   *)
(* sets the bus from those variables, event by event in the order of their  *)
(* bits.  Charged: BC1.2, then the HVDCP handshake, then QC at 12 V and 9 V *)
(* with one timer.  UFCS is compiled out.                                   *)
(* Voltages are levels: 0 is 5 V, Top is 12 V; a QC 3 pulse is one level.   *)
(***************************************************************************)
EXTENDS Integers
CONSTANTS Top, Nine   \* levels

\* The events, by their bits in dpdm.h; the four QC_FIXED requests and the two
\* pulses are one each.
SRC_ATTACHED == 0    SRC_UNATTCHED == 1   ENTER_DCP == 2      QC_FIXED == 4
QC_PLUSE == 9        SNK_ATTACHED == 14   BC12DONE == 16      HVDCP_START == 17
HVDCP_DONE == 18     QC_START == 19       QC_DONE == 20       AFC_SCP_OUT == 21
HVDCP_FAIL == 22     QC12V_DONE == 23
Events == {SRC_ATTACHED, SRC_UNATTCHED, ENTER_DCP, QC_FIXED, QC_PLUSE, SNK_ATTACHED, BC12DONE,
           HVDCP_START, HVDCP_DONE, QC_START, QC_DONE, AFC_SCP_OUT, HVDCP_FAIL, QC12V_DONE}
TimedEvents == {HVDCP_START, QC_START, QC12V_DONE, QC_DONE}
NoEvent == -1

VARIABLES
  table, snap,     \* the task's event word, and the copy the dispatcher works off
  peer,            \* what is on the port and what it speaks
  pd,              \* a PD contract at more than 5 V
  prot,            \* EN_SRC_PROTOCOL: the source side of the block listens
  is_enter_dpdm_prot,
  stat,            \* QC_SRC_STAT: a level, or Cont for continuous mode
  qc_volt, scp,    \* what the interrupts have decoded; scp is <<scp_vout, scp_iout>>
  half,            \* scp_vout as the handler has read it, before it reads scp_iout
  bus,             \* what the task has set the bus to: <<level, limit>>
  last,            \* history: the protocol of the session's last request
  sink,            \* the charged side: see Idle
  feeds            \* bound: only devices come to the port, or only chargers
vars == <<table, snap, peer, pd, prot, is_enter_dpdm_prot, stat, qc_volt, scp, half, bus, last, sink, feeds>>
srcvars == <<prot, is_enter_dpdm_prot, stat, qc_volt, scp, half, bus, last>>

Levels == 0..Top
Cont == -1
None == -2
Limits == {"24W", "3A3", "qc"}
SourcePeers == {"qc device", "afc device"}
Chargers == {"sdp", "dcp", "qc9", "qc12", "pd"}    \* "pd" speaks PD and QC
\* bc is what the block does (detecting BC1.2, the HVDCP handshake), type is
\* bc12_type, line what QC asks the charger for, timer DPDM_SINK_TIMER, only
\* snk_5v_only (another port is fed meanwhile).
Idle == [bc |-> "off", type |-> "none", line |-> 0, timer |-> NoEvent, only |-> FALSE]

TypeOK ==
  /\ table \subseteq Events /\ snap \subseteq Events
  /\ peer \in {"none"} \cup SourcePeers \cup Chargers
  /\ {pd, prot, is_enter_dpdm_prot} \subseteq BOOLEAN
  /\ stat \in Levels \cup {Cont, None} /\ qc_volt \in Levels
  /\ scp \in Levels \X Limits /\ half \in Levels \cup {None} /\ bus \in Levels \X Limits
  /\ last \in {"none", "qc", "afc"}
  /\ sink \in [bc : {"off", "bc12", "hvdcp"}, type : {"none", "sdp", "dcp", "hvdcp", "qc9", "qc12"},
               line : {0, Nine, Top}, timer : TimedEvents \cup {NoEvent}, only : BOOLEAN]

Init == /\ table = {} /\ snap = {} /\ peer = "none" /\ pd = FALSE /\ prot = FALSE
        /\ is_enter_dpdm_prot = FALSE /\ stat = None /\ qc_volt = 0 /\ scp = <<0, "24W">>
        /\ half = None /\ bus = <<0, "qc">> /\ last = "none" /\ sink = Idle
        /\ feeds \in BOOLEAN

Post(e) == table' = table \cup {e}
Running == snap # {} /\ half = None
Event == CHOOSE e \in snap : \A f \in snap : e <= f

(***************************************************************************)
(* The port                                                                *)
(***************************************************************************)
\* usb_dpdm_select: both sides of the block off, the type forgotten.
usb_dpdm_select == prot' = FALSE /\ sink' = [sink EXCEPT !.bc = "off", !.type = "none"]

\* A connection is told after a debounce that outlasts a pass of the main loop:
\* of an earlier one only what the timer posts can still be in the event word.
Free == peer = "none" /\ (table \cup snap) \subseteq TimedEvents

SourceAttached(p) ==
  /\ Free /\ feeds /\ p \in SourcePeers
  /\ peer' = p /\ usb_dpdm_select /\ Post(SRC_ATTACHED)
  /\ stat' = None /\ last' = "none"
  /\ UNCHANGED <<snap, pd, is_enter_dpdm_prot, qc_volt, scp, half, bus>>
SourceGone ==
  /\ peer \in SourcePeers
  /\ peer' = "none" /\ pd' = FALSE /\ usb_dpdm_select /\ Post(SRC_UNATTCHED)
  /\ stat' = None /\ last' = "none" /\ bus' = <<0, "qc">>
  /\ UNCHANGED <<snap, is_enter_dpdm_prot, qc_volt, scp, half>>
ChargerAttached(p) ==
  /\ Free /\ ~feeds /\ p \in Chargers
  /\ peer' = p /\ prot' = FALSE /\ Post(SNK_ATTACHED)
  /\ \E only \in BOOLEAN : sink' = [sink EXCEPT !.bc = "off", !.type = "none", !.only = only]
  /\ UNCHANGED <<snap, pd, is_enter_dpdm_prot, stat, qc_volt, scp, half, bus, last>>
\* The manager takes QC back to 5 V where it had been raised.
ChargerGone ==
  /\ peer \in Chargers
  /\ peer' = "none" /\ pd' = FALSE /\ prot' = FALSE
  /\ sink' = [sink EXCEPT !.bc = "off", !.type = "none",
                          !.line = IF sink.type \in {"qc9", "qc12"} THEN 0 ELSE @]
  /\ UNCHANGED <<table, snap, is_enter_dpdm_prot, stat, qc_volt, scp, half, bus, last>>

\* USB PD closes or leaves a contract, which sets the bus for itself.
Contract ==
  /\ peer \in SourcePeers \cup {"pd"} /\ sink.type \notin {"qc9", "qc12"} /\ pd' = ~pd /\ last' = "none"
  /\ IF peer \in SourcePeers THEN bus' = <<0, "qc">> ELSE UNCHANGED bus
  /\ UNCHANGED <<table, snap, peer, prot, is_enter_dpdm_prot, stat, qc_volt, scp, half, sink>>

(***************************************************************************)
(* Interrupts of the source side                                           *)
(***************************************************************************)
Heard(p) == prot /\ peer = p
Asked == last' = IF pd THEN "none" ELSE "qc"
\* QC_SRC_IRQHandler.  A fixed voltage stays in the block's own status register.
QcFixedInt(v) ==
  /\ Heard("qc device") /\ stat' = v /\ Post(QC_FIXED) /\ Asked
  /\ UNCHANGED <<snap, peer, pd, prot, is_enter_dpdm_prot, qc_volt, scp, half, bus, sink>>
QcContinuousInt ==
  /\ Heard("qc device") /\ stat # Cont /\ stat' = Cont /\ last' = "none"
  /\ UNCHANGED <<table, snap, peer, pd, prot, is_enter_dpdm_prot, qc_volt, scp, half, bus, sink>>
PulsedOn(d) == qc_volt + d
Pulsed(d) == IF qc_volt + d > Top THEN Top ELSE IF qc_volt + d < 0 THEN 0 ELSE qc_volt + d
QcPulseInt(d) ==
  /\ Heard("qc device") /\ stat = Cont
  /\ qc_volt' = Pulsed(d) /\ Post(QC_PLUSE) /\ Asked
  /\ UNCHANGED <<snap, peer, pd, prot, is_enter_dpdm_prot, stat, scp, half, bus, sink>>
\* DCP_HVDCP_IRQHandler: the device has begun the handshake again.
DcpInt ==
  /\ prot /\ peer \in SourcePeers /\ Post(ENTER_DCP)
  /\ stat' = None /\ last' = "none"
  /\ UNCHANGED <<snap, peer, pd, prot, is_enter_dpdm_prot, qc_volt, scp, half, bus, sink>>

\* What dpdm_src_afc_handle leaves of a request.  12 V is not offered, and
\* changes the limit alone.
AfcAsked(v) == CASE v = 0    -> <<0, "3A3">>
                 [] v = Nine -> <<Nine, "24W">>
                 [] OTHER    -> <<scp[1], "3A3">>
\* What a write to the FCP output registers or the SCP set point leaves.
ScpAsked(v, fcp) == <<v, IF fcp /\ v = 0 THEN "3A3" ELSE "24W">>
\* FCP and SCP drop PD; the reset of the D+/D- interface by SCP does not.
Decoded(new) ==
  /\ Heard("afc device") /\ scp' = new /\ Post(AFC_SCP_OUT) /\ last' = "afc"
  /\ UNCHANGED <<snap, peer, prot, is_enter_dpdm_prot, stat, qc_volt, half, bus, sink>>
AfcInt == \E v \in {0, Nine, Top} : Decoded(AfcAsked(v)) /\ UNCHANGED pd
ScpInt == \E v \in {0, Nine}, fcp, dropped \in BOOLEAN :
  /\ Decoded(ScpAsked(v, fcp))
  /\ v # 0 \/ fcp => dropped
  /\ pd' = (pd /\ ~dropped)

(***************************************************************************)
(* Interrupts and the timer of the charged side                            *)
(***************************************************************************)
Bc12Int ==
  /\ sink.bc = "bc12" /\ peer \in Chargers
  /\ sink' = [sink EXCEPT !.bc = "off"] /\ Post(BC12DONE)
  /\ UNCHANGED <<snap, peer, pd, srcvars>>
HvdcpInt ==
  /\ sink.bc = "hvdcp" /\ peer \in Chargers
  /\ sink' = [sink EXCEPT !.bc = "off"]
  /\ Post(IF peer \in {"qc9", "qc12", "pd"} THEN HVDCP_DONE ELSE HVDCP_FAIL)
  /\ UNCHANGED <<snap, peer, pd, srcvars>>
SinkTimer ==
  /\ sink.timer # NoEvent
  /\ Post(sink.timer) /\ sink' = [sink EXCEPT !.timer = NoEvent]
  /\ UNCHANGED <<snap, peer, pd, srcvars>>

(***************************************************************************)
(* The task                                                                *)
(***************************************************************************)
Take == /\ snap = {} /\ table # {} /\ snap' = table /\ table' = {}
        /\ UNCHANGED <<peer, pd, srcvars, sink>>

Done(e) == Running /\ Event = e /\ snap' = snap \ {e}

SrcAttached == /\ Done(SRC_ATTACHED) /\ prot' = TRUE /\ is_enter_dpdm_prot' = FALSE
               /\ UNCHANGED <<table, peer, pd, stat, qc_volt, scp, half, bus, last, sink>>
SrcUnattched == /\ Done(SRC_UNATTCHED) /\ prot' = FALSE /\ is_enter_dpdm_prot' = FALSE
                /\ UNCHANGED <<table, peer, pd, stat, qc_volt, scp, half, bus, last, sink>>
EnterDcp == /\ Done(ENTER_DCP)
            /\ bus' = IF is_enter_dpdm_prot THEN <<0, "qc">> ELSE bus
            /\ UNCHANGED <<table, peer, pd, prot, is_enter_dpdm_prot, stat, qc_volt, scp, half, last, sink>>

\* Both QC handlers leave without a word while a PD contract holds the bus.
SetQc(v) == bus' = IF pd THEN bus ELSE <<v, "qc">>
QcFixedStale ==
  LET asked == IF pd \/ stat \in {Cont, None} THEN qc_volt ELSE stat
  IN /\ Done(QC_FIXED) /\ is_enter_dpdm_prot' = TRUE
     /\ qc_volt' = asked /\ SetQc(qc_volt)
     /\ UNCHANGED <<table, peer, pd, prot, stat, scp, half, last, sink>>
QcFixed ==
  LET asked == IF pd \/ stat \in {Cont, None} THEN qc_volt ELSE stat
  IN /\ Done(QC_FIXED) /\ is_enter_dpdm_prot' = TRUE
     /\ qc_volt' = asked /\ SetQc(asked)
     /\ UNCHANGED <<table, peer, pd, prot, stat, scp, half, last, sink>>
QcPluse ==
  /\ Done(QC_PLUSE) /\ is_enter_dpdm_prot' = TRUE
  /\ IF stat = Cont THEN SetQc(qc_volt) ELSE UNCHANGED bus
  /\ UNCHANGED <<table, peer, pd, prot, stat, qc_volt, scp, half, last, sink>>

\* The two arguments are read one after the other, with interrupts open.
AfcOut ==
  /\ Running /\ Event = AFC_SCP_OUT
  /\ is_enter_dpdm_prot' = TRUE /\ half' = scp[1]
  /\ UNCHANGED <<table, snap, peer, pd, prot, stat, qc_volt, scp, bus, last, sink>>
AfcSet ==
  /\ half # None /\ snap' = snap \ {AFC_SCP_OUT}
  /\ bus' = <<half, scp[2]>> /\ half' = None
  /\ UNCHANGED <<table, peer, pd, prot, is_enter_dpdm_prot, stat, qc_volt, scp, last, sink>>

Sinks(e, new) == Done(e) /\ sink' = new /\ UNCHANGED <<table, peer, pd, srcvars>>
SnkAttached == /\ Done(SNK_ATTACHED) /\ prot' = FALSE
               /\ sink' = [sink EXCEPT !.bc = "bc12", !.type = "none", !.timer = NoEvent]
               /\ UNCHANGED <<table, peer, pd, is_enter_dpdm_prot, stat, qc_volt, scp, half, bus, last>>
Bc12DoneStale ==
  LET type == IF peer \in {"dcp", "qc9", "qc12", "pd"} THEN "dcp" ELSE "sdp"
  IN Sinks(BC12DONE, [sink EXCEPT !.type = type,
                                  !.timer = IF sink.type = "dcp" THEN HVDCP_START ELSE @])
Bc12Done ==
  LET type == IF peer \in {"dcp", "qc9", "qc12", "pd"} THEN "dcp" ELSE "sdp"
  IN Sinks(BC12DONE, [sink EXCEPT !.type = type,
                                  !.timer = IF type = "dcp" THEN HVDCP_START ELSE @])
HvdcpStart == Sinks(HVDCP_START, [sink EXCEPT !.timer = NoEvent, !.bc = "hvdcp", !.line = 0])
\* Without PD, QC is tried; with it the type is all that is kept.
HvdcpDone == Sinks(HVDCP_DONE, IF pd \/ sink.only THEN [sink EXCEPT !.type = "hvdcp"]
                                                  ELSE [sink EXCEPT !.timer = QC_START])
HvdcpFail == Sinks(HVDCP_FAIL, sink)
QcStart == Sinks(QC_START, [sink EXCEPT !.type = "hvdcp", !.line = Top, !.timer = QC12V_DONE])
\* A charger that has no 12 V stays where it was.
AdcVbus == IF peer \in {"qc12", "pd"} \/ (peer = "qc9" /\ sink.line = Nine) THEN sink.line ELSE 0
\* A voltage that came up names the type and turns USB PD off.
Found(e, v, type, otherwise) ==
  /\ Done(e) /\ pd' = (pd /\ AdcVbus < v)
  /\ sink' = IF AdcVbus >= v THEN [sink EXCEPT !.type = type, !.line = 0] ELSE otherwise
  /\ UNCHANGED <<table, peer, srcvars>>
Qc12vDone == Found(QC12V_DONE, Top, "qc12", [sink EXCEPT !.line = Nine, !.timer = QC_DONE])
QcDone == Found(QC_DONE, Nine, "qc9", [sink EXCEPT !.line = 0])

Dispatch == \/ SrcAttached \/ SrcUnattched \/ EnterDcp \/ QcFixed \/ QcPluse \/ AfcOut \/ AfcSet
            \/ SnkAttached \/ Bc12Done \/ HvdcpStart \/ HvdcpDone \/ HvdcpFail \/ QcStart
            \/ Qc12vDone \/ QcDone
Task == Take \/ Dispatch
Interrupt == \/ \E v \in {0, Nine, Top} : QcFixedInt(v)
             \/ \E d \in {-1, 1} : QcPulseInt(d)
             \/ QcContinuousInt \/ DcpInt \/ AfcInt \/ ScpInt
Port == \/ \E p \in SourcePeers : SourceAttached(p)
        \/ \E p \in Chargers : ChargerAttached(p)
        \/ SourceGone \/ ChargerGone \/ Contract
Next == (Task \/ Interrupt \/ Bc12Int \/ HvdcpInt \/ SinkTimer \/ Port) /\ UNCHANGED feeds
Fair == /\ WF_vars(Task) /\ WF_vars(Bc12Int) /\ WF_vars(HvdcpInt) /\ WF_vars(SinkTimer)
Spec == Init /\ [][Next]_vars /\ Fair

(***************************************************************************)
(* Properties                                                              *)
(***************************************************************************)
\* However interrupts fall between the task's reads, the bus comes to what the
\* device asked for last once the events are worked off.
BusFollows ==
  table = {} /\ snap = {} /\ last # "none" => bus = IF last = "qc" THEN <<qc_volt, "qc">> ELSE scp

\* A QC charger that stays and speaks no PD is found and charged from above 5 V,
\* whatever an earlier session left in the event word and the timer.  (At its
\* highest voltage it need not be: DPDM_SINK_TIMER is not stopped at the detach,
\* and a step of the old session's ladder may stand for one of the new.)
QcFound == \A c \in {"qc9", "qc12"} :
  []<>(peer = c => sink.only \/ sink.type \in {"qc9", "qc12"})
=============================================================================
