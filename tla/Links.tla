-------------------------------- MODULE Links --------------------------------
(***************************************************************************)
(* What is asked before a ping, and the small components through which the *)
(* pack speaks with others, together: the ping gate (this module extends   *)
(* it), the packets of the receiver and the path they come on, the data    *)
(* streams and the authentication chip behind them, the I2C master, the    *)
(* USB bridge, with a host that listens, commands or produces, and         *)
(* the port manager in an instance small enough for its liveness.  As      *)
(* modelled they share nothing, so in each behaviour one of them ("which") *)
(* moves and the others rest where they begin.                             *)
(***************************************************************************)
EXTENDS PingGate, Sequences

CONSTANTS
  Packets, Preambles, Deltas, Noise,                     \* of AskDecoder
  Wants, Losses,                                         \* of DataStream
  Pages, PageSize, Telemetry, Rounds, Scenes, Failures,  \* of UsbBridge
  Bits, Bytes, MaxLen,                                   \* of I2c
  RETRY_COUNT, Chunk, Digest, Header, Manu, Prod,        \* of SecureElement
  LongWait, ShortWait, Stuck, Lapse, Actors              \* of PortManager

\* What the code's values have in common, by component.
ASSUME StreamBounds ==
  /\ Wants \subseteq SUBSET {"digests", "noSlots", "certificate", "challenge", "wrongSlot"}
  /\ Losses \in [UNION Wants -> Nat]
ASSUME BridgeBounds ==
  /\ {Pages, PageSize, Rounds} \subseteq Nat \ {0} /\ {Telemetry, Failures} \subseteq Nat
  /\ Scenes \subseteq SUBSET {"log", "eng", "prod", "erase", "time", "failures"}
ASSUME I2cBounds == Bits \in Nat \ {0} /\ Bytes \subseteq [1 .. Bits -> 0 .. 1] /\ MaxLen \in Nat
ASSUME ElementBounds == {RETRY_COUNT, Chunk, Digest, Header, Manu, Prod} \subseteq Nat
ASSUME PortBounds == /\ {LongWait, ShortWait, Stuck, Lapse} \subseteq Nat \ {0}
                     /\ Actors \subseteq {"receiver", "protect", "comm", "reset", "recharge"}

VARIABLES
  which,
  tx, decode, locked, heard,
  phase, fast, ecap2, ecap4, dmo2_out, last, cfg_cnt, src, plain,
  wants, in_status, in_parity, recv_buf, have_recv, recv_crc, auth_request_type,
  out_status, out_parity, have_send, last_send, need_send, send_crc, send_cpy,
  need_atn_cnt, need_atn_evt, auth_timer, array_chall, renego, ask, fsk, prx, passed, faults,
  scene, cnt, force, enable, cursor, log, offered, refresh, mcu, wb, host, failures,
  transfer, step, round, pin, rst, out, dout, scl, got, device,
  chip, cmd, code, reads, buf, i, ret, sw,
  g_MaxprotocolVersion, g_SlotPopulatedMask, g_CertificateLen, g_ManuCALen, astray,
  ports, inhand, handling, stuck, pend, posted, batch, scanned, due, left, tc, tcOn, mode, gate0,
  wpcOff, charging, qi, silent, usb_comm, fault, recharge

A == INSTANCE AskDecoder WITH got <- heard
D == INSTANCE Demod WITH out <- dmo2_out
X == INSTANCE DataStream WITH Requests <- Wants, Faults <- Losses
U == INSTANCE UsbBridge
I == INSTANCE I2c
E == INSTANCE SecureElement
P == INSTANCE PortManager WITH
       Long <- LongWait, Short <- ShortWait, port <- ports, gate <- gate0, off <- wpcOff,
       powered <- charging, comm <- usb_comm, protected <- fault

askDecoder == <<tx, decode, locked, heard>>
demod == <<phase, fast, ecap2, ecap4, dmo2_out, last, cfg_cnt, src, plain>>
stream == <<wants, in_status, in_parity, recv_buf, have_recv, recv_crc, auth_request_type,
            out_status, out_parity, have_send, last_send, need_send, send_crc, send_cpy,
            need_atn_cnt, need_atn_evt, auth_timer, array_chall, renego, ask, fsk, prx, passed, faults>>
bridge == <<scene, cnt, force, enable, cursor, log, offered, refresh, mcu, wb, host, failures>>
i2c == <<transfer, step, round, pin, rst, out, dout, scl, got, device>>
element == <<chip, cmd, code, reads, buf, i, ret, sw,
             g_MaxprotocolVersion, g_SlotPopulatedMask, g_CertificateLen, g_ManuCALen, astray>>
portManager == <<ports, inhand, handling, stuck, pend, posted, batch, scanned, due, left, tc, tcOn,
                 mode, gate0, wpcOff, charging, qi, silent, usb_comm, fault, recharge>>
links == <<which, vars, askDecoder, demod, stream, bridge, i2c, element, portManager>>

-----------------------------------------------------------------------------
Some(S) == CHOOSE x \in S : TRUE
\* A component that rests is in one state; which one does not matter.
LinksInit ==
  /\ which \in {"gate", "ask", "demod", "stream", "bridge", "i2c", "element", "ports"}
  /\ Init /\ A!Init /\ D!Init /\ X!Init /\ U!Init /\ I!Init /\ E!Init /\ P!Init
  /\ which # "gate" => soc = Some(Soc)
  /\ which # "stream" => wants = Some(Wants) /\ prx.q = Some(wants)
  /\ which # "bridge" => scene = Some(Scenes)
  /\ which # "i2c" => transfer = Some(I!Transfers)
  /\ which # "element" => chip = [version |-> 1, slot0 |-> TRUE]

OnlyGate == UNCHANGED <<which, askDecoder, demod, stream, bridge, i2c, element, portManager>>
OnlyAsk == UNCHANGED <<which, vars, demod, stream, bridge, i2c, element, portManager>>
OnlyDemod == UNCHANGED <<which, vars, askDecoder, stream, bridge, i2c, element, portManager>>
OnlyStream == UNCHANGED <<which, vars, askDecoder, demod, bridge, i2c, element, portManager>>
OnlyBridge == UNCHANGED <<which, vars, askDecoder, demod, stream, i2c, element, portManager>>
OnlyI2c == UNCHANGED <<which, vars, askDecoder, demod, stream, bridge, element, portManager>>
OnlyElement == UNCHANGED <<which, vars, askDecoder, demod, stream, bridge, i2c, portManager>>
OnlyPorts == UNCHANGED <<which, vars, askDecoder, demod, stream, bridge, i2c, element>>

GateStep == which = "gate" /\ Next /\ OnlyGate
AskStep == which = "ask" /\ A!Next /\ OnlyAsk
DemodStep == which = "demod" /\ D!Next /\ OnlyDemod
StreamStep == which = "stream" /\ X!Next /\ OnlyStream
BridgeStep == which = "bridge" /\ U!Next /\ OnlyBridge
I2cStep == which = "i2c" /\ I!Next /\ OnlyI2c
ElementStep == which = "element" /\ E!Next /\ OnlyElement
PortsStep == which = "ports" /\ P!Next /\ OnlyPorts

LinksNext == GateStep \/ AskStep \/ DemodStep \/ StreamStep \/ BridgeStep \/ I2cStep \/ ElementStep \/ PortsStep

\* The variables of the component that moves: all others are as they were.
moving == CASE which = "gate" -> vars     [] which = "ask" -> askDecoder
            [] which = "demod" -> demod   [] which = "stream" -> stream
            [] which = "bridge" -> bridge [] which = "i2c" -> i2c
            [] which = "element" -> element [] which = "ports" -> portManager

\* The fairness of each component, while it is the one that moves: a clause is of
\* several components, of which at most one can take a step of it.
Fairness ==
  /\ WF_moving(\/ which = "stream" /\ X!Step /\ UNCHANGED wants /\ OnlyStream
               \/ which = "bridge" /\ U!usb_bridge_periodic_update /\ UNCHANGED scene /\ OnlyBridge
               \/ which = "element" /\ E!Step /\ OnlyElement
               \/ which = "ports" /\ P!Manager /\ OnlyPorts)
  /\ WF_moving(\/ which = "element" /\ (\E o \in E!Outcomes : E!transmit_apdu(o)) /\ OnlyElement
               \/ which = "ports" /\ P!Take /\ "SCAN" \in batch' /\ OnlyPorts)
  /\ SF_moving(\/ which = "element" /\ E!transmit_apdu("9000") /\ OnlyElement
               \/ which = "ports" /\ P!Time /\ OnlyPorts)
LinksSpec == LinksInit /\ [][LinksNext]_links /\ Fairness

-----------------------------------------------------------------------------
\* A packet of the receiver is told as it was sent, and nothing else (AskDecoder).
Heard == A!TypeOK /\ A!Received /\ A!NothingElse
\* Everything is of its type ...
Typed == /\ which = "gate" => TypeOK
         /\ which = "demod" => D!TypeOK
         /\ which = "stream" => X!TypeOK
         /\ which = "bridge" => U!TypeOK
         /\ which = "i2c" => I!TypeOK
         /\ which = "element" => E!TypeOK
         /\ which = "ports" => P!TypeOK
\* ... and what has crossed a wire is what was sent: a packet comes once, whatever
\* its intervals (AskDecoder), on the path its capture unit is set for (Demod); a
\* response in its stream (DataStream); a transfer to a chip (I2c).  And the
\* host's values are used while it may set them only (UsbBridge).
Whole == Typed /\ A!Once /\ D!Agrees /\ X!Intact /\ I!Transferred /\ U!VirtualOnlyInEng
\* What the authentication chip's commands return is what the chip holds
\* (SecureElement).
Signed == E!Intact
\* A request of the receiver is answered (DataStream), and a command to the
\* authentication chip returns (SecureElement).
Answers == X!Answered /\ E!Returns
\* Every record comes to be pushed to a host that stays (UsbBridge).
Offered == []<>(which # "bridge") \/ U!EveryRecord
\* A port does not stay connected when its partner has gone (PortManager).
EndGetsThrough == P!EndGetsThrough
=============================================================================
