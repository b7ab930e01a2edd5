----------------------------- MODULE AskDecoder -----------------------------
(***************************************************************************)
(* The ASK packet decoder (lib/ask.c, hal/ecap.c).  The capture unit tells *)
(* the time between two edges of the demodulated signal; bits, bytes and   *)
(* packets are taken from it by two decoders whose thresholds differ.  The *)
(* receiver sends a one as two half bits of 250 us and a zero as one edge  *)
(* after 500 us; the demodulator makes every second interval longer by     *)
(* delta and the others shorter (a duty cycle that is off), and a          *)
(* transmission may break off anywhere.  Times are in us.  At 360 kHz the  *)
(* decoder also refuses headers from 0xBB on: here the coil runs at 128.   *)
(***************************************************************************)
EXTENDS Integers, Sequences, SequencesExt, FiniteSetsExt
CONSTANTS Packets,    \* header and message bytes of what may be sent
          Preambles,  \* how many ones may precede it
          Deltas,     \* how far the duty cycle may be off
          Noise       \* how far each interval may be off besides

VARIABLES tx,         \* the transmission: what is sent, and the next interval
          decode,     \* ask_dm[].decode[]: the decoders of the channel
          locked,     \* pkt_ticks is less than 20 ms ago
          got         \* the packets told to the wireless task since tx began
vars == <<tx, decode, locked, got>>

PRMBL_CNT_MIN == 8
PRMBL_CNT_MAX == 30
\* 1125 counts are one millisecond; an interval of 2 ms is an overflow.
Long == 2000
\* bit_zero_max and _min, start_bit_min, bit_one_max and _min, by decoder.
Thresholds ==
  << [zmax |-> 880, zmin |-> 390, start |-> 370, omax |-> 300, omin |-> 135],
     [zmax |-> 880, zmin |-> 388, start |-> 375, omax |-> 300, omin |-> 150] >>

Bit(v, i) == (v \div 2^i) % 2
Xor(v, w) == FoldFunction(+, 0, [i \in 0..7 |-> 2^i * ((Bit(v, i) + Bit(w, i)) % 2)])
Parity(v) == (1 + FoldFunction(+, 0, [i \in 0..7 |-> Bit(v, i)])) % 2

(***************************************************************************)
(* What the receiver sends                                                 *)
(***************************************************************************)
Frame(v) == <<0>> \o [i \in 1..8 |-> Bit(v, i - 1)] \o <<Parity(v), 1>>
Checksum(p) == FoldSeq(Xor, 0, p)
Symbols(p, n) == [i \in 1..n |-> 1] \o FlattenSeq([i \in 1..Len(p) |-> Frame(p[i])]) \o Frame(Checksum(p))
Intervals(bits) == FlattenSeq([i \in 1..Len(bits) |-> IF bits[i] = 1 THEN <<250, 250>> ELSE <<500>>])
Wave == [p \in Packets, n \in Preambles |-> Intervals(Symbols(p, n))]

(***************************************************************************)
(* Bits to bytes to packets                                                *)
(***************************************************************************)
\* ask_decode_init.  A fuzzy of 0 is fuzzy_flg 0; told is the packet that the
\* last bit has completed.
Fresh == [prm |-> 0, phase |-> "prm", byte |-> "str", index |-> 0, value |-> 0, parity |-> 0,
          half |-> FALSE, fuzzy |-> 0, msg |-> <<>>, error |-> FALSE, told |-> <<>>]

pkt_len_get(hdr) == 2 + CASE hdr <= 31  -> 1
                          [] hdr \in 32..127  -> hdr \div 16
                          [] hdr \in 128..223 -> hdr \div 8 - 8
                          [] OTHER            -> hdr \div 4 - 36

\* A good packet starts the decoder afresh at once; of a bad one the error does.
pkt_decode(d) ==
  LET msg == Append(d.msg, d.value)
  IN CASE d.phase = "hdr" -> [d EXCEPT !.phase = "msg", !.msg = <<d.value>>]
       [] d.phase = "msg" -> [d EXCEPT !.msg = msg,
                                       !.phase = IF Len(msg) = pkt_len_get(msg[1]) - 1 THEN "chs" ELSE @]
       [] d.phase = "chs" -> IF Checksum(d.msg) = d.value THEN [Fresh EXCEPT !.told = d.msg]
                                                          ELSE [d EXCEPT !.error = TRUE]
       [] OTHER -> d

\* A zero after enough ones is the start bit of the header.
Preamble(d, b) ==
  IF b = 1 THEN [d EXCEPT !.prm = @ + 1, !.error = @ \/ d.prm + 1 > PRMBL_CNT_MAX]
  ELSE IF d.prm < PRMBL_CNT_MIN THEN [d EXCEPT !.error = TRUE]
  ELSE [d EXCEPT !.phase = "hdr", !.byte = "str"]

Byte(d, b) ==
  CASE d.byte = "str" /\ b = 0 ->
         [d EXCEPT !.byte = "dat", !.index = 0, !.value = 0, !.parity = 1]
    [] d.byte = "dat" ->
         [d EXCEPT !.value = @ + b * 2^d.index, !.parity = (@ + b) % 2, !.index = @ + 1,
                   !.byte = IF d.index = 7 THEN "pty" ELSE @]
    [] d.byte = "pty" /\ b = d.parity -> [d EXCEPT !.byte = "stp"]
    [] d.byte = "stp" /\ b = 1 -> pkt_decode([d EXCEPT !.byte = "str"])
    [] OTHER -> [d EXCEPT !.error = TRUE]

byt_decode(d, b) ==
  IF d.phase # "prm" THEN Byte(d, b)
  ELSE LET p == Preamble(d, b) IN IF p.phase = "prm" THEN p ELSE Byte(p, b)

(***************************************************************************)
(* Intervals to bits                                                       *)
(***************************************************************************)
Clear(d) == [d EXCEPT !.half = FALSE, !.fuzzy = 0]
Says(d, bits) == FoldLeft(byt_decode, Clear(d), bits)

\* A whole bit.  Up to three intervals of unsure width precede it.
Zero(d) ==
  IF d.phase # "prm" /\ d.half THEN [d EXCEPT !.error = TRUE]
  ELSE Says(d, IF d.phase = "prm" THEN <<0>>
               ELSE CASE d.fuzzy = 0 -> <<0>>  [] d.fuzzy = 1 -> <<0, 0>>
                      [] d.fuzzy = 2 -> <<1, 0>>  [] OTHER -> <<0, 1, 0>>)
\* A half bit: the second half of a one, or the first.
Half(d) ==
  IF d.half THEN Says(d, <<1>>)
  ELSE CASE d.fuzzy = 0 -> [d EXCEPT !.half = TRUE]
         [] d.fuzzy = 1 -> Says(d, <<1>>)
         [] d.fuzzy = 2 -> Says(d, <<0, 1>>)
         [] OTHER -> Says(d, <<1, 1>>)
\* An interval of unsure width: a long half or a short zero.
Fuzzy(d, start) ==
  LET outside == d.byte = "str" \/ d.phase = "prm"
  IN CASE outside /\ start -> Says(d, <<0>>)
       [] ~(outside /\ start) /\ d.half -> Says(d, <<1>>)
       [] ~(outside /\ start) /\ ~d.half /\ d.fuzzy = 0 -> [d EXCEPT !.fuzzy = 1]
       [] outside /\ ~start /\ ~d.half /\ d.fuzzy > 0 -> Says(d, <<1>>)
       [] OTHER -> IF d.fuzzy = 3 THEN [byt_decode(d, 1) EXCEPT !.fuzzy = 2]
                   ELSE [d EXCEPT !.fuzzy = @ + 1]
\* The stop bit that ends a packet takes intervals of any width: its last edge
\* may never come, and the overflow stands for it.
LastStop(d) == IF d.half \/ d.fuzzy > 0 THEN Says(d, <<1>>) ELSE [d EXCEPT !.half = TRUE]

bit_decode(d, t, w) ==
  CASE d.phase = "chs" /\ d.byte = "stp" -> LastStop(d)
    [] ~(d.phase = "chs" /\ d.byte = "stp") /\ w > t.zmax -> [d EXCEPT !.error = TRUE]
    [] ~(d.phase = "chs" /\ d.byte = "stp") /\ w \in t.zmin..t.zmax -> Zero(d)
    [] ~(d.phase = "chs" /\ d.byte = "stp") /\ w \in t.omax..(t.zmin - 1) -> Fuzzy(d, w > t.start)
    [] ~(d.phase = "chs" /\ d.byte = "stp") /\ w \in t.omin..(t.omax - 1) -> Half(d)
    [] OTHER -> [d EXCEPT !.error = TRUE]

\* tim_decode: every decoder takes the interval, and one in error starts again.
Decoded(w) == [k \in 1..2 |-> LET d == bit_decode([decode[k] EXCEPT !.told = <<>>], Thresholds[k], w)
                              IN IF d.error THEN Fresh ELSE d]
\* Of the packets the decoders complete, one in 20 ms goes to the task.
ToldEach(packets) == packets
Told(packets) == IF locked \/ packets = <<>> THEN <<>> ELSE <<packets[1]>>
Interval(w) ==
  LET new == Decoded(w)
      told == Told(SelectSeq(<<new[1].told, new[2].told>>, LAMBDA m : m # <<>>))
  IN /\ decode' = [k \in 1..2 |-> [new[k] EXCEPT !.told = <<>>]]
     /\ got' = got \o told /\ locked' = (locked \/ told # <<>>)

(***************************************************************************)
(* The behaviour                                                           *)
(***************************************************************************)
\* Between transmissions the line is still for more than 20 ms: gap counts the
\* overflows that are yet to come.
Silent == [sends |-> FALSE, packet |-> <<>>, ones |-> 0, next |-> 0, delta |-> 0, gap |-> 0]

Init == /\ tx = Silent /\ decode = [k \in 1..2 |-> Fresh] /\ locked = FALSE /\ got = <<>>

Send(p, n, d) ==
  /\ ~tx.sends /\ tx.gap = 0
  /\ tx' = [Silent EXCEPT !.sends = TRUE, !.packet = p, !.ones = n, !.next = 1, !.delta = d]
  /\ got' = <<>> /\ locked' = FALSE /\ UNCHANGED decode
Edge ==
  /\ tx.sends /\ tx.next <= Len(Wave[tx.packet, tx.ones])
  /\ \E e \in Noise :
       Interval(Wave[tx.packet, tx.ones][tx.next] + (IF tx.next % 2 = 1 THEN tx.delta ELSE -tx.delta) + e)
  /\ tx' = [tx EXCEPT !.next = @ + 1]
\* The end, or the loss of the signal on the way.
Stop == tx.sends /\ tx' = [tx EXCEPT !.sends = FALSE, !.gap = 2] /\ UNCHANGED <<decode, locked, got>>
Overflow == ~tx.sends /\ tx.gap > 0 /\ Interval(Long) /\ tx' = [tx EXCEPT !.gap = @ - 1]

Next == \/ \E p \in Packets, n \in Preambles, d \in Deltas : Send(p, n, d)
        \/ Edge \/ Stop \/ Overflow
Spec == Init /\ [][Next]_vars

(***************************************************************************)
(* Properties                                                              *)
(***************************************************************************)
TypeOK == /\ tx.packet \in Packets \cup {<<>>} /\ tx.gap \in 0..2 /\ locked \in BOOLEAN
          /\ \A k \in 1..2 : decode[k].phase \in {"prm", "hdr", "msg", "chs"} /\ ~decode[k].error

\* Whatever came before it, a packet that is sent to its end is told to the
\* wireless task once the line is still, as it was sent and once, although two
\* decoders hear it, its duty cycle is off and its last edge may be missing.
\* (Without its last edge a packet is lost if its zeros are of unsure width: the
\* parity bit is then still open when the overflow comes.)
Complete == LET length == Len(Wave[tx.packet, tx.ones])
            IN tx.next > length \/ (tx.next = length /\ tx.delta \in -105..105)
Received == (~tx.sends /\ tx.gap = 0 /\ tx.packet # <<>> /\ Complete) => got = <<tx.packet>>

\* However the intervals come out, no transmission is told to the task twice.
Once == Len(got) <= 1

\* What is told is what is being sent, never a part of it or something else.
NothingElse == got \in {<<>>, <<tx.packet>>}
=============================================================================
