-------------------------------- MODULE I2c --------------------------------
(***************************************************************************)
(* The I2C master that drives two pins by hand (hal/i2cm.c), with the      *)
(* frames the authentication chips are spoken to in (fml/fm1210.c,         *)
(* fml/t91206.c).  A transfer says starts and bytes, reads bytes, and ends *)
(* with a stop.  Each of these steps has rounds, of a bit or of what comes *)
(* before and after the bits, and a round is a row of pin operations.      *)
(* Both lines are open drains.  The device at the other end sees nothing   *)
(* but the lines: it may refuse any byte, and what it sends is its own     *)
(* choice, bit by bit.                                                     *)
(***************************************************************************)
EXTENDS Naturals, Sequences

CONSTANTS Bits,       \* in a byte: 8
          Bytes,      \* the bytes that are written, each a sequence of Bits
          MaxLen      \* bound: the longest data

VARIABLES
  transfer,           \* what is said, and the responses to what is read
  step, round, pin,   \* the next pin operation
  rst,                \* a byte was refused
  out, dout, scl,     \* the master's pins: whether it drives SDA, and to what
  got,                \* the bits read
  device              \* the automaton of the other end; heard and sent are history
vars == <<transfer, step, round, pin, rst, out, dout, scl, got, device>>

Bit == 0 .. 1
_I2C_RESP_ACK == 0
_I2C_RESP_NAK == 1
Address(rw) == [i \in 1 .. Bits |-> IF i = Bits THEN rw ELSE 0]
Send(byte) == [does |-> "send", byte |-> byte]
Start == [does |-> "start", byte |-> <<>>]
Read(resp) == [does |-> "read", resp |-> resp]
Stop == [does |-> "stop"]
W == Send(Address(0))
R == Send(Address(1))

Sends(n) == {[i \in 1 .. n |-> Send(b[i])] : b \in [1 .. n -> Bytes]}
Transfer(says, reads) == [says |-> says, reads |-> reads]
Write(bytes) == Transfer(<<Start, W>> \o bytes, <<>>)
\* The last byte is refused, so that the device leaves the line to the stop.
Reads(n) == [i \in 1 .. n |-> _I2C_RESP_ACK]
ReadsNak(n) == [i \in 1 .. n |-> IF i = n THEN _I2C_RESP_NAK ELSE _I2C_RESP_ACK]
ReadFrom(reg, n) == Transfer(<<Start, W>> \o reg \o <<Start, R>>, ReadsNak(n))

hal_i2cm_read_one_byte == {ReadFrom(reg, 1) : reg \in Sends(1)}
hal_i2cm_wirte_one_byte == {Write(b) : b \in Sends(2)}
hal_i2cm_read_multi_bytes == {ReadFrom(reg, n) : reg \in Sends(1), n \in 1 .. MaxLen}
hal_i2cm_write_multi_bytes == UNION {{Write(b) : b \in Sends(1 + n)} : n \in 1 .. MaxLen}
hal_i2cm_read_one_byte_16bit == {ReadFrom(reg, 1) : reg \in Sends(2)}
hal_i2cm_write_one_byte_16bit == {Write(b) : b \in Sends(3)}
hal_i2cm_read_multi_byte_16bit == {ReadFrom(reg, n) : reg \in Sends(2), n \in 1 .. MaxLen}
hal_i2cm_write_multi_byte_16bit == UNION {{Write(b) : b \in Sends(2 + n)} : n \in 1 .. MaxLen}
\* Length, data and checksum.
fm1210_i2c_send_frame == {Write(b) : b \in Sends(3)}
fm1210_i2c_recv_frame == {Transfer(<<Start, R>>, ReadsNak(n + 2)) : n \in 1 .. MaxLen}
I2C_Write == {Write(b) : b \in Sends(2)}
\* Tag and length, data and checksum: no byte is refused, but the chip's frame
\* is at its end and the chip lets the line go.
I2C_Read == {Transfer(<<Start, R>>, Reads(n + 1)) : n \in 1 .. MaxLen}

Transfers ==
  hal_i2cm_read_one_byte \cup hal_i2cm_wirte_one_byte \cup hal_i2cm_read_multi_bytes
  \cup hal_i2cm_write_multi_bytes \cup hal_i2cm_read_one_byte_16bit \cup hal_i2cm_write_one_byte_16bit
  \cup hal_i2cm_read_multi_byte_16bit \cup hal_i2cm_write_multi_byte_16bit
  \cup fm1210_i2c_send_frame \cup fm1210_i2c_recv_frame \cup I2C_Write \cup I2C_Read

-----------------------------------------------------------------------------
(* The pin operations of a step, by its rounds: 1 to Bits are the bits', 0 *)
(* comes before them and Last after them.                                  *)

Last == Bits + 1
Pin(name, value) == [pin |-> name, value |-> value]
Sda(v) == Pin("sda", v)
Scl(v) == Pin("scl", v)
Output == Pin("out", 1)
Input == Pin("out", 0)
SampleAck == Pin("ack", 0)
SampleBit == Pin("bit", 0)
Check == Pin("check", 0)

hal_i2cm_start == <<Output, Sda(1), Scl(1), Sda(0), Scl(0)>>
hal_i2cm_stop == <<Output, Sda(0), Scl(1), Sda(1)>>
hal_i2cm_byte_send(byte, i) ==
  IF i < Last THEN <<Sda(byte[i]), Scl(1), Scl(0)>>
  ELSE <<Input, Scl(1), SampleAck, Scl(0), Output, Check>>
hal_i2cm_byte_read(resp, i) ==
  IF i = 0 THEN <<Input>>
  ELSE IF i < Last THEN <<Scl(0), Scl(1), SampleBit>>
  ELSE <<Scl(0), Output, Sda(resp), Scl(1), Scl(0)>>

Said == Len(transfer.says)
Stops == Said + Len(transfer.reads) + 1    \* the step that is the stop
Does(k) == CASE k <= Said -> transfer.says[k]
             [] Said < k /\ k < Stops -> Read(transfer.reads[k - Said])
             [] OTHER -> Stop
Row(s, i) == CASE s.does = "start" -> hal_i2cm_start
               [] s.does = "send" -> hal_i2cm_byte_send(s.byte, i)
               [] s.does = "read" -> hal_i2cm_byte_read(s.resp, i)
               [] s.does = "stop" -> hal_i2cm_stop
First(s) == CASE s.does = "send" -> 1 [] s.does = "read" -> 0 [] OTHER -> Last

Running == step <= Stops
Pins == Row(Does(step), round)
Op == Pins[pin]
GoTo(k) == step' = k /\ round' = First(Does(k)) /\ pin' = 1
Goes == IF pin < Len(Pins) THEN pin' = pin + 1 /\ UNCHANGED <<step, round>>
        ELSE IF round < Last THEN round' = round + 1 /\ pin' = 1 /\ UNCHANGED step
        ELSE GoTo(step + 1)

-----------------------------------------------------------------------------
(* The device.                                                             *)

Idle(d) == [d EXCEPT !.is = "idle", !.low = FALSE, !.byte = <<>>]
Started(d) == [Idle(d) EXCEPT !.is = "hears", !.first = TRUE, !.heard = Append(@, "start")]
Stopped(d) == [Idle(d) EXCEPT !.heard = Append(@, "stop")]
Drives(d, b) == [d EXCEPT !.is = "speaks", !.low = (b = 0), !.sent = Append(@, b), !.bits = @ + 1]
\* The registers are endless, a frame of T91206 is not.
HasMore(d) == transfer \in I2C_Read => Len(d.sent) < Bits * Len(transfer.reads)
Speaks(d) == IF HasMore(d) THEN {Drives(d, b) : b \in Bit} ELSE {[d EXCEPT !.is = "speaks", !.low = FALSE]}

Rises(d, sda) ==
  CASE d.is = "hears" -> [d EXCEPT !.byte = Append(@, sda)]
    [] d.is = "asks" -> IF sda = 0 THEN [d EXCEPT !.is = "asked"] ELSE Idle(d)
    [] OTHER -> d
Falls(d) ==
  CASE d.is = "hears" /\ Len(d.byte) = Bits ->
         LET h == [d EXCEPT !.heard = Append(@, d.byte)]
         IN {[h EXCEPT !.is = "acks", !.low = TRUE], Idle(h)}
    [] d.is = "acks" ->
         LET r == [d EXCEPT !.low = FALSE, !.byte = <<>>, !.first = FALSE, !.bits = 0]
         IN IF d.first /\ d.byte[Bits] = 1 THEN Speaks(r) ELSE {[r EXCEPT !.is = "hears"]}
    [] d.is = "speaks" /\ d.bits < Bits -> Speaks(d)
    [] d.is = "speaks" /\ d.bits = Bits -> {[d EXCEPT !.is = "asks", !.low = FALSE]}
    [] d.is = "asked" -> Speaks([d EXCEPT !.bits = 0])
    [] OTHER -> {d}

Line(o, v, d) == IF (o = 1 /\ v = 0) \/ d.low THEN 0 ELSE 1
\* What the device makes of lines that change from <<sda, scl>> to <<a, c>>.
Sees(d, sda, c0, a, c) ==
  CASE c0 = 0 /\ c = 1 -> {Rises(d, a)}
    [] c0 = 1 /\ c = 0 -> Falls(d)
    [] c0 = 1 /\ c = 1 /\ sda = 1 /\ a = 0 -> {Started(d)}
    [] c0 = 1 /\ c = 1 /\ sda = 0 /\ a = 1 -> {Stopped(d)}
    [] OTHER -> {d}

-----------------------------------------------------------------------------
Ready == [is |-> "idle", low |-> FALSE, byte |-> <<>>, first |-> FALSE, bits |-> 0,
          heard |-> <<>>, sent |-> <<>>]
InitIn(transfers) ==
  /\ transfer \in transfers /\ step = 1 /\ round = Last /\ pin = 1 /\ rst = 0
  /\ out = 1 /\ dout = 1 /\ scl = 1 /\ got = <<>> /\ device = Ready
Init == InitIn(Transfers)

Sda0 == Line(out, dout, device)
Drive ==
  /\ Running /\ Op.pin \in {"sda", "scl", "out"} /\ Goes
  /\ out' = IF Op.pin = "out" THEN Op.value ELSE out
  /\ dout' = IF Op.pin = "sda" THEN Op.value ELSE dout
  /\ scl' = IF Op.pin = "scl" THEN Op.value ELSE scl
  /\ device' \in Sees(device, Sda0, scl, Line(out', dout', device), scl')
  /\ UNCHANGED <<transfer, rst, got>>

Sampled ==
  /\ Running /\ Goes
  /\ \/ Op.pin = "ack" /\ rst' = Sda0 /\ UNCHANGED got
     \/ Op.pin = "bit" /\ got' = Append(got, Sda0) /\ UNCHANGED rst
  /\ UNCHANGED <<transfer, out, dout, scl, device>>

\* do { ... break; } while (0); hal_i2cm_stop()
Checked ==
  /\ Running /\ Op.pin = "check" /\ IF rst = 0 THEN Goes ELSE GoTo(Stops)
  /\ UNCHANGED <<transfer, rst, out, dout, scl, got, device>>

\* The next transfer: the lines and the device are as the last one left them.
Again ==
  /\ ~Running /\ transfer' \in Transfers /\ step' = 1 /\ round' = Last /\ pin' = 1
  /\ rst' = 0 /\ got' = <<>> /\ device' = [device EXCEPT !.heard = <<>>, !.sent = <<>>]
  /\ UNCHANGED <<out, dout, scl>>

Next == Drive \/ Sampled \/ Checked \/ Again
Spec == Init /\ [][Next]_vars
-----------------------------------------------------------------------------
TypeOK ==
  /\ step \in 1 .. Stops + 1 /\ round \in 0 .. Last /\ pin \in 1 .. 6
  /\ {rst, out, dout, scl} \subseteq Bit
  /\ device.is \in {"idle", "hears", "acks", "speaks", "asks", "asked"} /\ Len(device.byte) <= Bits

\* What a device hears of the first k steps of a transfer, and at its end.
Word(s) == IF s.does = "start" THEN "start" ELSE s.byte
Words(k) == [i \in 1 .. k |-> Word(transfer.says[i])]
Heard(k) == Append(Words(k), "stop")

\* At the end of a transfer the device has let the lines go and has heard what
\* was meant, all of it if the transfer reports success, and otherwise up to the
\* byte it refused and the stop; what was read is what it sent.
Transferred ==
  ~Running =>
    /\ device.is = "idle" /\ Sda0 = 1 /\ scl = 1
    /\ rst = 0 => device.heard = Heard(Said) /\ got = device.sent
    /\ rst # 0 => \E k \in 1 .. Said : device.heard = Heard(k)
=============================================================================
