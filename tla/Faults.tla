------------------------------- MODULE Faults --------------------------------
(***************************************************************************)
(* The protection of the converter (power/buckboost.c): what is read in a  *)
(* round of its task becomes a fault status; the status locks both ports   *)
(* or, when it is empty, lets them go.  Four of the causes are debounced,  *)
(* each by a counter of its own, and the communication mode suspends it    *)
(* all.  The ports come and go meanwhile, and the port manager sets the    *)
(* converter's mode by them.                                               *)
(***************************************************************************)
EXTENDS Naturals, FiniteSets

CONSTANTS OcpLock,     \* NU6805_OCP_LOCK_COUNT: 4
          LowCount,    \* 10: rounds with a battery below 6 V
          SoftCount    \* 50: samples with VBUS above 115 % of the voltage set

Ports == {0, 1}
\* Bits of the chip, latched until read; then what the software compares itself.
\* "trip" stands for a short circuit, an overvoltage of VBUS and the locks of the
\* thermistors, which are served alike.
ChipBits == {"ocp", "trip", "vbat_uvp", "vbat_ovp"}
Compared == {"low", "over", "starved"}
Readings == {r \in SUBSET (ChipBits \cup Compared) : Cardinality(r) <= 2}

VARIABLES
  port_state, cc,              \* of each port; the CC block of a disabled port is off
  woke_mode,
  adc_protect_cnt, adc_protect_flag, nu6805_ocp_cnt, cnt,
  buckboost_protection_flag, usb_comm_activated,
  ocps, lows, highs,           \* history: over-currents, low batteries in a row, in the
                               \* rounds served; samples too high in a row, up to the last
  seen,                        \* history: what the last round served read: "calm", a
                               \* "fault", or one that locks at "once";
  turn                         \* and its parity, so that no round is a stuttering step
vars == <<port_state, cc, woke_mode, adc_protect_cnt, adc_protect_flag, nu6805_ocp_cnt, cnt,
          buckboost_protection_flag, usb_comm_activated, ocps, lows, highs, seen, turn>>
ports == <<port_state, cc, woke_mode>>
soft == <<adc_protect_cnt, adc_protect_flag, highs>>
rounds == <<nu6805_ocp_cnt, cnt, ocps, lows, seen, turn>>

AtMost(a, b) == IF a < b THEN a ELSE b

TypeOK ==
  /\ port_state \in [Ports -> {"NONE", "SINK", "SOURCE"}] /\ cc \in [Ports -> BOOLEAN]
  /\ woke_mode \in {"CHAGER", "DISCHG"}
  /\ adc_protect_cnt \in 0 .. SoftCount - 1 /\ adc_protect_flag \in BOOLEAN
  /\ nu6805_ocp_cnt \in 0 .. OcpLock /\ cnt \in 0 .. LowCount - 1
  /\ {buckboost_protection_flag, usb_comm_activated} \subseteq BOOLEAN

Init ==
  /\ port_state = [p \in Ports |-> "NONE"] /\ cc = [p \in Ports |-> TRUE] /\ woke_mode = "DISCHG"
  /\ adc_protect_cnt = 0 /\ adc_protect_flag = FALSE /\ nu6805_ocp_cnt = 0 /\ cnt = 0
  /\ buckboost_protection_flag = FALSE /\ usb_comm_activated = FALSE
  /\ ocps = 0 /\ lows = 0 /\ highs = 0 /\ seen = "calm" /\ turn = 0

-----------------------------------------------------------------------------
(* The ports, by the port manager.                                         *)

Attach(p, role) ==
  /\ ~usb_comm_activated /\ cc[p] /\ port_state[p] = "NONE"
  /\ role = "SINK" => \A q \in Ports : port_state[q] # "SINK"
  /\ port_state' = [port_state EXCEPT ![p] = role]
  /\ woke_mode' = IF role = "SINK" THEN "CHAGER" ELSE woke_mode
  /\ UNCHANGED <<cc, soft, rounds, buckboost_protection_flag, usb_comm_activated>>
Detach(p) ==
  /\ port_state[p] # "NONE"
  /\ port_state' = [port_state EXCEPT ![p] = "NONE"]
  /\ woke_mode' = IF \A q \in Ports : port_state'[q] = "NONE" THEN "DISCHG" ELSE woke_mode
  /\ UNCHANGED <<cc, soft, rounds, buckboost_protection_flag, usb_comm_activated>>

\* usb_comm_lock takes the ports away and leaves the mode; usb_comm_unlock.
CommLock ==
  /\ ~usb_comm_activated /\ usb_comm_activated' = TRUE
  /\ port_state' = [p \in Ports |-> "NONE"]
  /\ UNCHANGED <<cc, woke_mode, soft, rounds, buckboost_protection_flag>>
CommUnlock ==
  /\ usb_comm_activated /\ usb_comm_activated' = FALSE
  /\ buckboost_protection_flag' = FALSE /\ cc' = [p \in Ports |-> TRUE] /\ woke_mode' = "DISCHG"
  /\ UNCHANGED <<port_state, soft, rounds>>
\* A click of the key.
buckboost_fault_restore ==
  /\ buckboost_protection_flag /\ ~usb_comm_activated
  /\ buckboost_protection_flag' = FALSE /\ cc' = [p \in Ports |-> TRUE] /\ woke_mode' = "DISCHG"
  /\ UNCHANGED <<port_state, usb_comm_activated, soft, rounds>>

-----------------------------------------------------------------------------
\* Every 20 ms.
Sample(high) ==
  /\ IF /\ high /\ woke_mode = "DISCHG" /\ \E p \in Ports : port_state[p] = "SOURCE"
     THEN IF adc_protect_cnt + 1 = SoftCount
          THEN adc_protect_cnt' = 0 /\ adc_protect_flag' = TRUE
          ELSE adc_protect_cnt' = adc_protect_cnt + 1 /\ UNCHANGED adc_protect_flag
     ELSE adc_protect_cnt' = 0 /\ adc_protect_flag' = FALSE
  /\ highs' = IF high THEN AtMost(highs + 1, SoftCount) ELSE 0
  /\ UNCHANGED <<ports, rounds, buckboost_protection_flag, usb_comm_activated>>

\* The status of a round, its debounces applied: what the chip and the compared
\* readings say, less an over-current that is not old enough.
Charging == woke_mode = "CHAGER"
LowStands(r) == "low" \in r /\ cnt + 1 = LowCount /\ port_state[0] # "SINK"
OcpCount(r) == IF "ocp" \in r THEN AtMost(nu6805_ocp_cnt + 1, OcpLock) ELSE 0
Status(r) ==
  (r \cap ({"trip", "vbat_ovp"}
           \cup (IF OcpCount(r) = OcpLock THEN {"ocp"} ELSE {})
           \cup (IF port_state[0] = "SINK" THEN {} ELSE {"vbat_uvp"})))
  \cup (IF "over" \in r /\ Charging THEN {"trip"} ELSE {})
  \cup (IF "starved" \in r /\ Charging THEN {"vbus_uvp"} ELSE {})
  \cup (IF LowStands(r) THEN {"vbat_uvp"} ELSE {})
  \cup (IF adc_protect_flag THEN {"soft"} ELSE {})
Locking == {"ocp", "trip", "vbat_uvp", "soft"}

\* What may be wrong while no port is in use; what needs no second reading.
Fault == ChipBits \cup {"low"}
AtOnce(r) ==
  \/ "trip" \in r
  \/ "vbat_uvp" \in r /\ port_state[0] # "SINK"
  \/ "over" \in r /\ Charging

\* The ports without a partner are switched off, and the gates of all; the mode
\* and the states of the ports stay.
Lock(s) ==
  /\ s \cap Locking # {}
  /\ buckboost_protection_flag' = TRUE
  /\ cc' = [p \in Ports |-> cc[p] /\ port_state[p] # "NONE"]
  /\ UNCHANGED woke_mode
Unlock(s) ==
  /\ s = {} /\ buckboost_protection_flag /\ \A p \in Ports : port_state[p] = "NONE"
  /\ buckboost_protection_flag' = FALSE /\ cc' = [p \in Ports |-> TRUE] /\ woke_mode' = "DISCHG"
Stays(s) ==
  /\ s \cap Locking = {}
  /\ s # {} \/ ~buckboost_protection_flag \/ \E p \in Ports : port_state[p] # "NONE"
  /\ UNCHANGED <<buckboost_protection_flag, cc, woke_mode>>

buckboost_protection_handle(r) ==
  /\ ~usb_comm_activated
  /\ turn' = 1 - turn
  /\ cnt' = IF "low" \in r /\ cnt + 1 < LowCount THEN cnt + 1 ELSE 0
  /\ lows' = IF "low" \in r THEN AtMost(lows + 1, LowCount) ELSE 0
  /\ nu6805_ocp_cnt' = IF Status(r) = {} \/ Status(r) \cap Locking # {} THEN 0 ELSE OcpCount(r)
  /\ ocps' = IF "ocp" \in r THEN AtMost(ocps + 1, OcpLock) ELSE 0
  /\ seen' = IF AtOnce(r) THEN "once" ELSE IF r \cap Fault # {} THEN "fault" ELSE "calm"
  /\ Lock(Status(r)) \/ Unlock(Status(r)) \/ Stays(Status(r))
  /\ adc_protect_flag' = FALSE
  /\ UNCHANGED <<port_state, adc_protect_cnt, highs, usb_comm_activated>>

Round == \E r \in Readings : buckboost_protection_handle(r)
Next ==
  \/ \E p \in Ports : Detach(p) \/ \E role \in {"SINK", "SOURCE"} : Attach(p, role)
  \/ CommLock \/ CommUnlock \/ buckboost_fault_restore
  \/ \E high \in BOOLEAN : Sample(high)
  \/ Round
Spec == Init /\ [][Next]_vars /\ WF_vars(Round)
-----------------------------------------------------------------------------
\* A lock has a cause that holds then: a reading that needs no second one, or a
\* debounced one whose whole run of readings lies just behind, whatever ports,
\* modes and the communication mode did in between.
LocksForAReason ==
  [][~buckboost_protection_flag /\ buckboost_protection_flag' =>
       seen' = "once" \/ ocps' = OcpLock \/ lows' = LowCount \/ highs = SoftCount]_vars

\* With both ports empty and nothing wrong with chip, battery and temperatures a
\* lock ends by itself, whatever the converter was doing when it came.
Unlocks ==
  \/ []<>~buckboost_protection_flag
  \/ []<>(usb_comm_activated \/ \E p \in Ports : port_state[p] # "NONE")
  \/ []<>(seen # "calm")

=============================================================================
