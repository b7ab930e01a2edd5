---------------------------- MODULE SecureElement ----------------------------
(***************************************************************************)
(* The authentication chip T91206 (fml/t91206.c): what the program reads   *)
(* at boot (app/main.c) and the signatures it asks for when a receiver     *)
(* challenges it (app/_wpc.c).  A command is a row of reads, of what the   *)
(* caches do not hold; a read is a row of APDUs, one for a chunk; an APDU  *)
(* is tried four times, and a read that fails is begun again without end.  *)
(* The bus or the chip may fail any try.  Bytes are positions in the       *)
(* chip's memory; slot 0 is the only one asked for.                        *)
(***************************************************************************)
EXTENDS Naturals, Sequences

CONSTANTS RETRY_COUNT,           \* 3
          Chunk,                 \* APDU_BODY_MAX_SIZE: 255
          Digest,                \* LEN_OF_DIGESTS: 32
          Header, Manu, Prod     \* the chain: 2 + LEN_OF_N_RH, and its two certificates

VARIABLES
  chip,                          \* the version and the slots it answers with
  cmd, code,                     \* the command under way, and what the last one returned
  reads, buf,                    \* the read under way, and what it has got so far
  i, ret, sw,                    \* transmit_apdu: its tries, its result and its status word
  g_MaxprotocolVersion, g_SlotPopulatedMask, g_CertificateLen, g_ManuCALen,
  astray                         \* history: a status word that nobody wrote was taken for
                                 \* the chip's; nothing is said of what comes after
vars == <<chip, cmd, code, reads, buf, i, ret, sw, g_MaxprotocolVersion, g_SlotPopulatedMask,
          g_CertificateLen, g_ManuCALen, astray>>
caches == <<g_MaxprotocolVersion, g_SlotPopulatedMask, g_CertificateLen, g_ManuCALen>>
apdu == <<i, ret, sw>>

Commands == {"read_cert_hash", "read_se_cert", "get_qi_id", "get_tbs_auth"}
Codes == {"SUCCEED", "FAILED", "UNSUPPORTED_PROTOCOL", "UNINITIALIZED_SE", "INVALID_REQUEST"}
None == [what |-> "none", off |-> 0, len |-> 0]
Chain == Header + Manu + Prod
Least(a, b) == IF a < b THEN a ELSE b
Memory(what, off, len) == [k \in 1 .. len |-> <<what, off + k - 1>>]

TypeOK ==
  /\ chip \in [version : 0 .. 1, slot0 : BOOLEAN]
  /\ cmd \in Commands \cup {"none"} /\ code \in Codes
  /\ reads # None => Len(buf) <= reads.len
  /\ i \in 0 .. RETRY_COUNT
  /\ ret \in {"SUCCEED", "FAILED"} /\ sw \in {"unset", "0000"}
  /\ g_MaxprotocolVersion \in 0 .. 1 /\ g_SlotPopulatedMask \in 0 .. 1
  /\ g_CertificateLen \in {0, Chain} /\ g_ManuCALen \in {0, Manu} /\ astray \in BOOLEAN

Init ==
  /\ chip \in [version : 0 .. 1, slot0 : BOOLEAN]
  /\ cmd = "none" /\ code = "FAILED" /\ reads = None /\ buf = <<>>
  /\ i = 0 /\ ret = "SUCCEED" /\ sw = "unset" /\ astray = FALSE
  /\ g_MaxprotocolVersion = 0 /\ g_SlotPopulatedMask = 0 /\ g_CertificateLen = 0 /\ g_ManuCALen = 0

Call(c) ==
  /\ cmd = "none" /\ ~astray /\ cmd' = c /\ buf' = <<>>
  /\ UNCHANGED <<chip, code, reads, apdu, caches, astray>>
Return(c) ==
  /\ cmd' = "none" /\ code' = c
  /\ UNCHANGED <<chip, reads, buf, apdu, caches, astray>>

-----------------------------------------------------------------------------
(* The commands: the next read, of what the caches do not hold.            *)

Ask(what, off, len) ==
  /\ reads' = [what |-> what, off |-> off, len |-> len] /\ buf' = <<>>
  /\ i' = 0 /\ ret' = "SUCCEED" /\ sw' = "unset"
  /\ UNCHANGED <<chip, cmd, code, caches, astray>>
Due == cmd # "none" /\ reads = None /\ buf = <<>> /\ ~astray
MaskKnown == g_MaxprotocolVersion # 0 /\ g_SlotPopulatedMask # 0

TMC_GetPopulatedMask ==
  /\ Due /\ cmd \in {"read_cert_hash", "get_qi_id"} /\ ~MaskKnown
  /\ Ask("mask", 0, 1)
TMC_ReadDigests == Due /\ cmd = "read_cert_hash" /\ MaskKnown /\ Ask("digest", 0, Digest)

\* The lengths first, then the whole chain or, from offset 0x600 on, the product
\* unit's certificate, of which one chunk holds the Qi ID.
Certificates == Due /\ (cmd = "read_se_cert" \/ (cmd = "get_qi_id" /\ MaskKnown))
Offset == IF cmd = "get_qi_id" THEN Header + g_ManuCALen ELSE 0
Length == IF cmd = "get_qi_id" THEN Chunk ELSE g_CertificateLen - Offset
TMC_ReadCertification ==
  /\ Certificates
  /\ \/ g_CertificateLen = 0 /\ Ask("certlen", 0, 2)
     \/ g_CertificateLen # 0 /\ g_ManuCALen = 0 /\ Ask("manulen", Header, 1)
     \/ /\ g_CertificateLen # 0 /\ g_ManuCALen # 0
        /\ IF Offset + Length > g_CertificateLen
           THEN Return("INVALID_REQUEST")
           ELSE Ask("cert", Offset, Length)
tmc_ecc_signature == Due /\ cmd = "get_tbs_auth" /\ Ask("signature", 0, 1)

\* A read is complete: it is a cache's, or the command's own and then the last.
Got == reads # None /\ Len(buf) = reads.len
ManuCALen == IF reads.what = "manulen" THEN Manu ELSE g_ManuCALen
Cached ==
  /\ Got /\ reads.what \in {"mask", "certlen", "manulen"} /\ reads' = None /\ buf' = <<>>
  /\ g_CertificateLen' = IF reads.what = "certlen" THEN Chain ELSE g_CertificateLen
  /\ g_ManuCALen' = ManuCALen
  /\ IF reads.what # "mask"
     THEN UNCHANGED <<g_MaxprotocolVersion, g_SlotPopulatedMask, cmd, code>>
     ELSE IF chip.version # 1
     THEN /\ cmd' = "none" /\ code' = "UNSUPPORTED_PROTOCOL"
          /\ UNCHANGED <<g_MaxprotocolVersion, g_SlotPopulatedMask>>
     ELSE /\ g_MaxprotocolVersion' = 1
          /\ IF chip.slot0 THEN g_SlotPopulatedMask' = 1 /\ UNCHANGED <<cmd, code>>
             ELSE cmd' = "none" /\ code' = "UNINITIALIZED_SE" /\ UNCHANGED g_SlotPopulatedMask
  /\ UNCHANGED <<chip, apdu, astray>>
Returned ==
  /\ Got /\ reads.what \in {"digest", "cert", "signature"}
  /\ reads' = None /\ cmd' = "none" /\ code' = "SUCCEED"
  /\ UNCHANGED <<chip, buf, apdu, caches, astray>>

-----------------------------------------------------------------------------
(* The APDUs.                                                              *)

\* An APDU is over; a read that failed is begun again, a signature is not.
Fail ==
  /\ i' = 0 /\ ret' = "SUCCEED" /\ sw' = "unset"
  /\ IF reads.what = "signature" THEN reads' = None /\ cmd' = "none" /\ code' = "FAILED"
     ELSE UNCHANGED <<reads, cmd, code>>
  /\ UNCHANGED <<buf, astray>>
Good ==
  /\ i' = 0 /\ ret' = "SUCCEED" /\ sw' = "unset"
  /\ buf' = buf \o Memory(reads.what, reads.off + Len(buf), Least(Chunk, reads.len - Len(buf)))
  /\ UNCHANGED <<reads, cmd, code, astray>>
\* The last try is over without an answer to take.  A frame with another tag or
\* length leaves "succeed" behind: the status word is then that of an earlier
\* try, which was 0000, or was never written.
Wild == astray' = TRUE /\ reads' = None /\ cmd' = "none" /\ UNCHANGED <<buf, code, i, ret, sw>>
GiveUp(r, s) == Fail \/ (r = "SUCCEED" /\ s = "unset" /\ Wild)
NextTry(r, s) ==
  IF i < RETRY_COUNT
  THEN i' = i + 1 /\ ret' = r /\ sw' = s /\ UNCHANGED <<reads, buf, cmd, code, astray>>
  ELSE GiveUp(r, s)

transmit_apduTrusts(outcome) ==
  /\ reads # None /\ ~Got
  /\ CASE outcome \in {"refused", "short"} -> NextTry("FAILED", sw)
       [] outcome = "frame" -> NextTry("SUCCEED", sw)
       [] outcome = "0000" -> NextTry("FAILED", "0000")
       [] outcome = "error" -> Fail
       [] outcome = "9000" -> Good
       [] outcome = "crc" -> buf' = Append(buf, <<"crc", 0>>) /\ UNCHANGED <<reads, cmd, code, astray, apdu>>
  /\ UNCHANGED <<chip, caches>>
transmit_apdu(outcome) ==
  /\ reads # None /\ ~Got
  /\ CASE outcome \in {"refused", "short", "crc"} -> NextTry("FAILED", sw)
       [] outcome = "frame" -> NextTry("SUCCEED", sw)
       [] outcome = "0000" -> NextTry("FAILED", "0000")
       [] outcome = "error" -> Fail
       [] outcome = "9000" -> Good
  /\ UNCHANGED <<chip, caches>>

Outcomes == {"refused", "frame", "short", "crc", "0000", "error", "9000"}
Step == TMC_GetPopulatedMask \/ TMC_ReadDigests \/ TMC_ReadCertification \/ tmc_ecc_signature
        \/ Cached \/ Returned
\* The program is started anew.
PowerUp ==
  /\ astray /\ astray' = FALSE /\ UNCHANGED <<chip, cmd, reads>>
  /\ code' = "FAILED" /\ buf' = <<>> /\ i' = 0 /\ ret' = "SUCCEED" /\ sw' = "unset"
  /\ g_MaxprotocolVersion' = 0 /\ g_SlotPopulatedMask' = 0 /\ g_CertificateLen' = 0 /\ g_ManuCALen' = 0

Next == PowerUp \/ Step \/ (\E c \in Commands : Call(c)) \/ \E o \in Outcomes : transmit_apdu(o)
\* The chip may fail, but not for ever; the program goes on.
Fairness == /\ WF_vars(Step) /\ WF_vars(\E o \in Outcomes : transmit_apdu(o))
            /\ SF_vars(transmit_apdu("9000"))
Spec == Init /\ [][Next]_vars /\ Fairness
-----------------------------------------------------------------------------
\* What a command that succeeds leaves in its buffer is what the chip holds
\* there, whole and in order, however many tries and chunks it took and whatever
\* the earlier commands cached.
Intact ==
  [][cmd # "none" /\ cmd' = "none" /\ code' = "SUCCEED" /\ ~astray' =>
       buf' = CASE cmd = "read_cert_hash" -> Memory("digest", 0, Digest)
                [] cmd = "read_se_cert" -> Memory("cert", 0, Chain)
                [] cmd = "get_qi_id" -> Memory("cert", Header + Manu, Chunk)
                [] cmd = "get_tbs_auth" -> <<<<"signature", 0>>>>]_vars

\* A command returns, whatever the chip answers with, once it answers at times.
Returns == []<>(cmd = "none")
=============================================================================
