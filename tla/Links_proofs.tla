---------------------------- MODULE Links_proofs ----------------------------
(***************************************************************************)
(* Proofs about Links, for all values of its constants within the bounds   *)
(* it assumes of them.  Each component has an inductive invariant of its   *)
(* own; as the components share nothing, a step of one leaves the others'  *)
(* as they are.                                                            *)
(***************************************************************************)
EXTENDS Links, WellFoundedInduction, TLAPS

-----------------------------------------------------------------------------
(* The ping gate (PingGate), on its own.                                   *)

\* Type correctness, the flags and the rest apart
TypeFlags ==
    /\ extreme \in BOOLEAN
    /\ clicked \in BOOLEAN /\ comm \in BOOLEAN /\ protected \in BOOLEAN
    /\ disable \in BOOLEAN /\ off \in BOOLEAN
    /\ socLock \in BOOLEAN /\ tempLock \in BOOLEAN
    /\ powered \in BOOLEAN /\ stopping \in BOOLEAN /\ overdue \in BOOLEAN
    /\ leaked \in BOOLEAN

TypeData ==
    /\ soc \in Soc
    /\ port \in {"NONE", "SINK", "SOURCE"} /\ connect \in {"NO", "SUCCESS", "DONE"}
    /\ work_delay \in 0 .. Delay

LEMMA TypeParts == TypeOK <=> TypeFlags /\ TypeData
  BY Zenon DEF TypeOK, TypeFlags, TypeData

LEMMA FlagsStep == TypeFlags /\ [Next]_vars => TypeFlags'
<1> SUFFICES ASSUME TypeFlags, [Next]_vars PROVE TypeFlags'
  OBVIOUS
<1> USE DEF TypeFlags, inputs, manager, gate, locks, power
<1>1. ASSUME NEW ready \in BOOLEAN, Ping(ready) PROVE TypeFlags'
  BY <1>1 DEF Ping, Sets
<1>2. CASE StopPower \/ EndSession
  BY ZenonT(60), <1>2 DEF StopPower, EndSession
<1>3. CASE ConnectStart \/ EnumDone \/ ConnectClosed
  BY ZenonT(60), <1>3 DEF ConnectStart, EnumDone, ConnectClosed, SetMode, StopWpc, KeepFlag
<1>4. CASE ConnectSuccess \/ Scan
  BY <1>4 DEF ConnectSuccess, Scan
<1>5. CASE Protect \/ Unprotect
  BY <1>5 DEF Protect, Unprotect, SetMode, StopWpc, KeepFlag
<1>6. CASE Click
  BY <1>6 DEF Click, StopWpc
<1>7. CASE TripleClick
  BY <1>7 DEF TripleClick, SetMode, StopWpc, KeepFlag
<1>8. CASE Unclick \/ Measure
  <2>1. Unclick => TypeFlags'
    BY DEF Unclick
  <2>2. Measure => TypeFlags'
    BY DEF Measure
  <2> QED
    BY <1>8, <2>1, <2>2
<1>9. CASE UNCHANGED vars
  BY <1>9 DEF vars
<1> QED
  BY <1>1, <1>2, <1>3, <1>4, <1>5, <1>6, <1>7, <1>8, <1>9 DEF Next

LEMMA DataStep == TypeData /\ [Next]_vars => TypeData'
<1> SUFFICES ASSUME TypeData, [Next]_vars PROVE TypeData'
  OBVIOUS
<1> USE DEF TypeData, inputs, manager, gate, locks, power
<1>d. Delay \in 0 .. Delay
  BY PingGateAssumption
<1>1. ASSUME NEW ready \in BOOLEAN, Ping(ready) PROVE TypeData'
  <2> DEFINE delay == IF \/ ~socLock /\ soc <= 1
                         \/ port = "SOURCE" /\ ~tempLock /\ extreme
                        THEN Delay ELSE work_delay
  <2>1. work_delay' \in Counted(delay) \cup {delay}
    BY <1>1 DEF Ping
  <2>2. delay \in 0 .. Delay
    BY <1>d
  <2>3. work_delay' \in 0 .. Delay
    BY <2>1, <2>2, PingGateAssumption DEF Counted
  <2> QED
    BY <1>1, <2>3 DEF Ping
<1>2. CASE StopPower \/ EndSession
  BY <1>d, <1>2 DEF StopPower, EndSession
<1>3. CASE ConnectStart \/ EnumDone \/ ConnectClosed
  BY <1>d, <1>3 DEF ConnectStart, EnumDone, ConnectClosed, SetMode, StopWpc, KeepFlag
<1>4. CASE ConnectSuccess \/ Scan
  BY <1>d, <1>4 DEF ConnectSuccess, Scan
<1>5. CASE Protect \/ Unprotect
  BY <1>d, <1>5 DEF Protect, Unprotect, SetMode, StopWpc, KeepFlag
<1>6. CASE Click
  BY <1>d, <1>6 DEF Click, StopWpc
<1>7. CASE TripleClick
  BY <1>d, <1>7 DEF TripleClick, SetMode, StopWpc, KeepFlag
<1>8. CASE Unclick \/ Measure
  BY <1>d, <1>8 DEF Unclick, Measure
<1>9. CASE UNCHANGED vars
  BY <1>d, <1>9 DEF vars
<1> QED
  BY <1>1, <1>2, <1>3, <1>4, <1>5, <1>6, <1>7, <1>8, <1>9 DEF Next

LEMMA TypeStep == TypeOK /\ [Next]_vars => TypeOK'
<1>1. TypeOK' <=> TypeFlags' /\ TypeData'
  BY Zenon DEF TypeOK, TypeFlags, TypeData
<1> QED
  BY <1>1, TypeParts, FlagsStep, DataStep

LEMMA GateStarts == Init => TypeOK
<1>1. Init => TypeFlags
  BY DEF Init, TypeFlags
<1>2. Init => TypeData
  BY PingGateAssumption DEF Init, TypeData
<1> QED
  BY <1>1, <1>2, TypeParts

\* The flags, the mode, the delay and the locks stay what they are, whoever stops, locks
\* or lets go.
THEOREM TypeCorrect == Spec => []TypeOK
BY GateStarts, TypeStep, PTL DEF Spec

-----------------------------------------------------------------------------
\* A stop that the next ping's event may overtake finds the transmitter in a session,
\* which that event leaves alone, or else has set the delay.
Delayed == stopping /\ ~overdue /\ ~powered => 0 < work_delay

LEMMA DelayedPing ==
    ASSUME TypeOK, Delayed, NEW ready, Ping(ready)
    PROVE  Delayed' /\ (~powered /\ powered' => ~stopping /\ ~stopping')
<1>1. overdue' = stopping'
  BY DEF Ping
<1>2. ASSUME ~powered, powered' PROVE ~stopping /\ ~stopping'
  <2>1. /\ ~(~socLock /\ soc <= 1) /\ ~(port = "SOURCE" /\ ~tempLock /\ extreme)
        /\ work_delay = 0
    BY <1>2, PingGateAssumption DEF Ping, TypeOK
  <2>2. ~stopping
    BY <1>2, <2>1 DEF Delayed, Ping
  <2> QED
    BY <2>1, <2>2 DEF Ping
<1> QED
  BY <1>1, <1>2 DEF Delayed

LEMMA DelayedStep ==
    TypeOK /\ Delayed /\ [Next]_vars =>
        Delayed' /\ [~powered /\ powered' => ~stopping /\ ~stopping']_vars
<1> SUFFICES ASSUME TypeOK, Delayed, [Next]_vars
             PROVE  Delayed' /\ (~powered /\ powered' => ~stopping /\ ~stopping')
  OBVIOUS
<1> USE DEF Delayed, inputs, manager, gate, locks, power
<1>1. ASSUME NEW ready \in BOOLEAN, Ping(ready)
      PROVE  Delayed' /\ (~powered /\ powered' => ~stopping /\ ~stopping')
  BY <1>1, DelayedPing
<1>2. CASE StopPower \/ EndSession
  BY <1>2 DEF StopPower, EndSession
<1>3. CASE ConnectStart \/ EnumDone \/ ConnectClosed
  BY <1>3, PingGateAssumption DEF ConnectStart, EnumDone, ConnectClosed, SetMode, StopWpc
<1>4. CASE ConnectSuccess \/ Scan
  BY <1>4 DEF ConnectSuccess, Scan
<1>5. CASE Protect \/ Unprotect
  BY <1>5, PingGateAssumption DEF Protect, Unprotect, SetMode, StopWpc
<1>6. CASE Click
  BY <1>6, PingGateAssumption DEF Click, StopWpc
<1>7. CASE TripleClick
  BY <1>7, PingGateAssumption DEF TripleClick, SetMode, StopWpc
<1>8. CASE Unclick \/ Measure
  BY <1>8 DEF Unclick, Measure
<1>9. CASE UNCHANGED vars
  BY <1>9 DEF vars
<1> QED
  BY <1>1, <1>2, <1>3, <1>4, <1>5, <1>6, <1>7, <1>8, <1>9 DEF Next

\* No ping starts while a stop is pending, nor does its event post one, however short
\* the delay after a stop, as long as there is one.
THEOREM DelayKeepsPingsAway == Spec => NoPingUnderStop
<1>1. Init => Delayed
  BY DEF Init, Delayed
<1> QED
  BY <1>1, DelayedStep, TypeCorrect, PTL DEF Spec, NoPingUnderStop

-----------------------------------------------------------------------------
\* A held SOC lock keeps the shared flag set, or another writer has cleared it.
Held == socLock /\ ~disable => leaked

LEMMA HeldStep ==
    Held /\ [Next]_vars => Held' /\ [~powered /\ powered' /\ socLock' => leaked']_vars
<1> SUFFICES ASSUME Held, [Next]_vars
             PROVE  Held' /\ (~powered /\ powered' /\ socLock' => leaked')
  OBVIOUS
<1> USE DEF Held, inputs, manager, gate, locks, power
<1>1. ASSUME NEW ready \in BOOLEAN, Ping(ready)
      PROVE  Held' /\ (~powered /\ powered' /\ socLock' => leaked')
  <2>1. Held'
    BY <1>1 DEF Ping, Sets
  <2>2. ~powered /\ powered' => ~disable'
    BY <1>1 DEF Ping, Enabled
  <2> QED
    BY <2>1, <2>2
<1>2. CASE StopPower \/ EndSession
  BY <1>2 DEF StopPower, EndSession
<1>3. CASE ConnectStart \/ EnumDone \/ ConnectClosed
  BY <1>3 DEF ConnectStart, EnumDone, ConnectClosed, SetMode, KeepFlag
<1>4. CASE ConnectSuccess \/ Scan
  BY <1>4 DEF ConnectSuccess, Scan
<1>5. CASE Protect \/ Unprotect
  BY <1>5 DEF Protect, Unprotect, SetMode, KeepFlag
<1>6. CASE Click
  BY <1>6 DEF Click
<1>7. CASE TripleClick
  BY <1>7 DEF TripleClick, SetMode, KeepFlag
<1>8. CASE Unclick \/ Measure
  BY <1>8 DEF Unclick, Measure
<1>9. CASE UNCHANGED vars
  BY <1>9 DEF vars
<1> QED
  BY <1>1, <1>2, <1>3, <1>4, <1>5, <1>6, <1>7, <1>8, <1>9 DEF Next

\* A ping starts under a held SOC lock only when the temperature lock's release or the
\* key has cleared their flag, for any states of charge and any delay.
THEOREM OnlyLeaksPassSocLock == Spec => SocLockLeaks
<1>1. Init => Held
  BY DEF Init, Held
<1> QED
  BY <1>1, HeldStep, PTL DEF Spec, SocLockLeaks

-----------------------------------------------------------------------------
(* The second demodulator (Demod).                                         *)

OnDigital == ecap2 = "ddm" /\ ecap4 = TRUE /\ dmo2_out = "cap"
OnAnalog == ecap2 = "pad" /\ ecap4 = FALSE /\ dmo2_out = "ddm"
\* What fml_ask_dig_ddm_enable trusts is true of the source; and the table of
\* 360 kHz, which alone has digital entries, has them at odd places only.
DemodTypes ==
  /\ phase \in {"off", "ping", "xfer"} /\ fast \in BOOLEAN /\ ecap4 \in BOOLEAN /\ last \in BOOLEAN
  /\ plain \in BOOLEAN /\ ecap2 \in {"closed", "pad", "ddm", "qdt"} /\ dmo2_out \in {"ddm", "qdt", "cap"}
  /\ cfg_cnt \in 0 .. 3 /\ src \in {"vcap", "phase", "digital", "none"}
DemodInv ==
  /\ DemodTypes
  /\ last => cfg_cnt \in {1, 3}
  /\ phase = "off" => src = "none" /\ ecap4 = FALSE
  /\ phase # "xfer" => plain = FALSE
  /\ phase = "ping" => src = "none" /\ IF fast THEN OnDigital ELSE OnAnalog
  /\ phase = "xfer" /\ ~plain => IF src = "digital" THEN last /\ OnDigital ELSE OnAnalog

LEMMA Tables ==
  ASSUME NEW load \in D!Loads, NEW k \in 0 .. 3
  PROVE  /\ D!cfg_normal_xfer[load][k + 1] \in D!Sources \ {"digital"}
         /\ D!cfg_360_cpm_xfer[load][k + 1] \in D!Sources
         /\ D!cfg_360_cpm_xfer[load][k + 1] = "digital" <=> k \in {1, 3}
<1>1. k = 0 \/ k = 1 \/ k = 2 \/ k = 3
  OBVIOUS
<1>2. CASE load = "low"
  BY <1>1, <1>2 DEF D!cfg_normal_xfer, D!cfg_360_cpm_xfer, D!Sources
<1>3. CASE load = "mid"
  BY <1>1, <1>3 DEF D!cfg_normal_xfer, D!cfg_360_cpm_xfer, D!Sources
<1>4. CASE load = "high"
  BY <1>1, <1>4 DEF D!cfg_normal_xfer, D!cfg_360_cpm_xfer, D!Sources
<1> QED
  BY <1>2, <1>3, <1>4 DEF D!Loads

LEMMA DemodStarts == D!Init => DemodInv
<1> SUFFICES ASSUME D!Init PROVE DemodInv
  OBVIOUS
<1>1. DemodTypes
  <2>1. /\ phase = "off" /\ fast = FALSE /\ ecap2 = "closed" /\ ecap4 = FALSE /\ dmo2_out = "ddm"
        /\ last = FALSE /\ cfg_cnt = 0 /\ src = "none" /\ plain = FALSE
    BY DEF D!Init
  <2>2. cfg_cnt \in 0 .. 3
    BY <2>1
  <2> QED
    BY <2>1, <2>2 DEF DemodTypes
<1>2. phase = "off" /\ src = "none" /\ ecap4 = FALSE /\ plain = FALSE /\ ~last
  BY DEF D!Init
<1> QED
  BY <1>1, <1>2 DEF DemodInv

LEMMA DemodRests == DemodInv /\ UNCHANGED demod => DemodInv'
BY DEF demod, DemodInv, DemodTypes, D!DDM_XFER_CFG_SIZE, D!Sources, OnDigital, OnAnalog

LEMMA Configures ==
  ASSUME DemodInv, NEW load \in D!Loads, D!dmo2_xfer_cfg(load)
  PROVE  DemodInv'
<1> DEFINE source == (IF fast THEN D!cfg_360_cpm_xfer ELSE D!cfg_normal_xfer)[load][cfg_cnt' + 1]
<1>1. phase = "xfer" /\ cfg_cnt' = (cfg_cnt + 1) % 4 /\ UNCHANGED <<phase, fast, plain>> /\ D!dmo2_cfg(source)
  BY DEF D!dmo2_xfer_cfg, D!DDM_XFER_CFG_SIZE
<1>2. /\ cfg_cnt \in 0 .. 3 /\ fast \in BOOLEAN /\ last \in BOOLEAN /\ plain \in BOOLEAN /\ ecap4 \in BOOLEAN
      /\ ecap2 \in {"closed", "pad", "ddm", "qdt"} /\ dmo2_out \in {"ddm", "qdt", "cap"}
  BY DEF DemodInv, DemodTypes, D!DDM_XFER_CFG_SIZE
<1>3. cfg_cnt' \in 0 .. 3 /\ (cfg_cnt \in {1, 3} => cfg_cnt' \notin {1, 3})
  <2>1. cfg_cnt = 0 \/ cfg_cnt = 1 \/ cfg_cnt = 2 \/ cfg_cnt = 3
    BY <1>2
  <2> QED
    BY <2>1, <1>1
<1>4. source \in D!Sources /\ (source = "digital" => cfg_cnt' \in {1, 3} /\ ~last)
  <2>1. CASE fast
    BY <2>1, <1>3, Tables DEF DemodInv
  <2>2. CASE ~fast
    BY <2>2, <1>3, Tables
  <2> QED
    BY <2>1, <2>2
<1> HIDE DEF source
<1>5. src' = source
  BY <1>1 DEF D!dmo2_cfg
<1>6. CASE source = "digital"
  <2>1. last' = TRUE /\ ecap2' = "ddm" /\ ecap4' = TRUE /\ dmo2_out' = "cap"
    BY <1>1, <1>4, <1>6, <1>2 DEF D!dmo2_cfg, D!dig_ddm_enable, D!Digital
  <2> QED
    BY <2>1, <1>1, <1>2, <1>3, <1>4, <1>5, <1>6 DEF DemodInv, DemodTypes, D!DDM_XFER_CFG_SIZE, OnDigital, D!Sources
<1>7. CASE source # "digital" /\ last
  <2>1. last' = FALSE /\ ecap2' = "pad" /\ ecap4' = FALSE /\ dmo2_out' = "ddm"
    BY <1>1, <1>7, <1>2 DEF D!dmo2_cfg, D!dig_ddm_enable, D!Analog
  <2> QED
    BY <2>1, <1>1, <1>2, <1>3, <1>4, <1>5, <1>7 DEF DemodInv, DemodTypes, D!DDM_XFER_CFG_SIZE, OnAnalog, OnDigital, D!Sources
<1>8. CASE source # "digital" /\ ~last
  <2>1. dmo2_out' = "ddm" /\ UNCHANGED <<ecap2, ecap4, last>>
    BY <1>1, <1>8, <1>2 DEF D!dmo2_cfg
  <2> QED
    BY <2>1, <1>1, <1>2, <1>3, <1>4, <1>5, <1>8 DEF DemodInv, DemodTypes, D!DDM_XFER_CFG_SIZE, OnAnalog, OnDigital, D!Sources
<1> QED
  BY <1>6, <1>7, <1>8

LEMMA DemodSteps == DemodInv /\ D!Next => DemodInv'
<1> SUFFICES ASSUME DemodInv, D!Next PROVE DemodInv'
  OBVIOUS
<1> USE DEF DemodInv, DemodTypes, D!DDM_XFER_CFG_SIZE, OnDigital, OnAnalog, D!Sources
<1>1. CASE D!Ping128
  BY <1>1 DEF D!Ping128
<1>2. CASE D!Ping360
  BY <1>2 DEF D!Ping360, D!Digital
<1>3. CASE D!Contract
  BY <1>3 DEF D!Contract, D!BackToAnalog, D!Analog
<1>4. CASE D!Baseline
  BY <1>4 DEF D!Baseline
<1>5. CASE D!Stop
  BY <1>5 DEF D!Stop
<1>6. CASE D!Qdt
  BY <1>6 DEF D!Qdt
<1> QED
  BY <1>1, <1>2, <1>3, <1>4, <1>5, <1>6, Configures DEF D!Next

LEMMA DemodAgrees == DemodInv => D!TypeOK /\ D!Agrees
BY DEF DemodInv, D!Agrees, OnDigital, OnAnalog, DemodTypes, D!TypeOK, D!DDM_XFER_CFG_SIZE, D!Sources

-----------------------------------------------------------------------------
(* The authentication chip (SecureElement).                                *)

ChipKinds == {"mask", "digest", "certlen", "manulen", "cert", "signature"}
Stuff == ChipKinds \X Nat
Read(what, at, len) == reads = [what |-> what, off |-> at, len |-> len]
\* The read under way is one of its command's ...
OfCommand ==
  \/ reads = E!None
  \/ Read("mask", 0, 1) /\ cmd \in {"read_cert_hash", "get_qi_id"}
  \/ Read("digest", 0, Digest) /\ cmd = "read_cert_hash"
  \/ Read("certlen", 0, 2) /\ cmd \in {"read_se_cert", "get_qi_id"}
  \/ Read("manulen", Header, 1) /\ cmd \in {"read_se_cert", "get_qi_id"}
  \/ Read("cert", 0, E!Chain) /\ cmd = "read_se_cert"
  \/ Read("cert", Header + Manu, Chunk) /\ cmd = "get_qi_id"
  \/ Read("signature", 0, 1) /\ cmd = "get_tbs_auth"
\* ... and the buffer holds what the chip does, as far as it goes.
Filled == reads # E!None => Len(buf) <= reads.len /\ buf = E!Memory(reads.what, reads.off, Len(buf))
ElementTypes ==
  /\ chip \in [version : 0 .. 1, slot0 : BOOLEAN]
  /\ cmd \in E!Commands \cup {"none"} /\ code \in E!Codes
  /\ i \in 0 .. RETRY_COUNT /\ ret \in {"SUCCEED", "FAILED"} /\ sw \in {"unset", "0000"}
  /\ g_MaxprotocolVersion \in 0 .. 1 /\ g_SlotPopulatedMask \in 0 .. 1
  /\ g_CertificateLen \in {0, E!Chain} /\ g_ManuCALen \in {0, Manu} /\ astray \in BOOLEAN
ElementInv ==
  /\ ElementTypes /\ OfCommand /\ Filled
  /\ buf \in Seq(Stuff)
  /\ cmd = "none" => reads = E!None
  /\ astray => cmd = "none"

LEMMA Joins == ASSUME NEW S, NEW s \in Seq(S), NEW t \in Seq(S) PROVE s \o t \in Seq(S) /\ Len(s \o t) = Len(s) + Len(t)
OBVIOUS

LEMMA MemoryIs ==
  ASSUME NEW what \in ChipKinds, NEW at \in Nat, NEW n \in Nat, NEW m \in Nat
  PROVE  /\ E!Memory(what, at, n) \in Seq(Stuff) /\ Len(E!Memory(what, at, n)) = n
         /\ E!Memory(what, at, n) \o E!Memory(what, at + n, m) = E!Memory(what, at, n + m)
<1> DEFINE M(o, l) == [k \in 1 .. l |-> <<what, o + k - 1>>]
<1>1. \A o \in Nat, l \in Nat : M(o, l) \in Seq(Stuff) /\ Len(M(o, l)) = l
  BY DEF Stuff
<1>2. M(at, n) \o M(at + n, m) = M(at, n + m)
  <2>1. M(at, n) \in Seq(Stuff) /\ M(at + n, m) \in Seq(Stuff) /\ M(at, n + m) \in Seq(Stuff)
        /\ Len(M(at, n)) = n /\ Len(M(at + n, m)) = m /\ Len(M(at, n + m)) = n + m
    <3>1. at + n \in Nat /\ n + m \in Nat
      OBVIOUS
    <3> QED
      BY <1>1, <3>1
  <2>2. \A k \in 1 .. n + m : (M(at, n) \o M(at + n, m))[k] = M(at, n + m)[k]
    <3> SUFFICES ASSUME NEW k \in 1 .. n + m PROVE (M(at, n) \o M(at + n, m))[k] = M(at, n + m)[k]
      OBVIOUS
    <3>1. CASE k <= n
      BY <3>1, <2>1
    <3>2. CASE k > n
      <4>1. (M(at, n) \o M(at + n, m))[k] = M(at + n, m)[k - n]
        BY <3>2, <2>1
      <4>2. k - n \in 1 .. m /\ at + n + (k - n) - 1 = at + k - 1
        BY <3>2
      <4> QED
        BY <4>1, <4>2
    <3> QED
      BY <3>1, <3>2
  <2>3. M(at, n) \o M(at + n, m) \in Seq(Stuff) /\ Len(M(at, n) \o M(at + n, m)) = n + m
    <3> HIDE DEF M
    <3> QED
      BY <2>1, Joins
  <2> DEFINE c == M(at, n) \o M(at + n, m)
             f == M(at, n + m)
  <2>4. c \in Seq(Stuff) /\ f \in Seq(Stuff) /\ Len(c) = Len(f) /\ \A k \in 1 .. Len(c) : c[k] = f[k]
    BY <2>1, <2>2, <2>3
  <2> HIDE DEF c, f
  <2>5. c = f
    BY <2>4
  <2> QED
    BY <2>5 DEF c, f
<1> QED
  BY <1>1, <1>2 DEF E!Memory

LEMMA NothingRead == <<>> \in Seq(Stuff)
OBVIOUS

LEMMA ElementStarts == E!Init => ElementInv
<1> SUFFICES ASSUME E!Init PROVE ElementInv
  OBVIOUS
<1>1. RETRY_COUNT \in Nat
  BY ElementBounds
<1>2. ElementTypes
  <2>1. code \in E!Codes /\ cmd = "none" /\ astray \in BOOLEAN /\ chip \in [version : 0 .. 1, slot0 : BOOLEAN]
    BY DEF E!Init, E!Codes
  <2>2. i \in 0 .. RETRY_COUNT
    BY <1>1 DEF E!Init
  <2>3. g_CertificateLen \in {0, E!Chain} /\ g_ManuCALen \in {0, Manu}
    BY DEF E!Init
  <2>4. g_MaxprotocolVersion \in 0 .. 1 /\ g_SlotPopulatedMask \in 0 .. 1 /\ ret \in {"SUCCEED", "FAILED"} /\ sw \in {"unset", "0000"}
    BY DEF E!Init
  <2> QED
    BY <2>1, <2>2, <2>3, <2>4 DEF ElementTypes
<1>3. buf \in Seq(Stuff) /\ reads = E!None /\ ~astray
  BY NothingRead DEF E!Init
<1> QED
  BY <1>2, <1>3 DEF ElementInv, OfCommand, Filled, Stuff

LEMMA ElementRests == ElementInv /\ UNCHANGED element => ElementInv'
BY DEF element, ElementInv, ElementTypes, OfCommand, Filled, Read

\* Asking for a read.
LEMMA Asking ==
  ASSUME ElementInv, NEW what, NEW at, NEW len, E!Ask(what, at, len), len \in Nat, OfCommand', cmd # "none"
  PROVE  ElementInv'
<1>1. /\ reads' = [what |-> what, off |-> at, len |-> len] /\ buf' = <<>>
      /\ i' = 0 /\ ret' = "SUCCEED" /\ sw' = "unset" /\ UNCHANGED <<chip, cmd, code, E!caches, astray>>
  BY DEF E!Ask
<1>2. Filled'
  <2>1. Len(<<>>) = 0 /\ E!Memory(what, at, 0) = <<>>
    BY DEF E!Memory
  <2> QED
    BY <1>1, <2>1 DEF Filled
<1>3. ElementTypes'
  BY <1>1, ElementBounds DEF ElementInv, ElementTypes, E!caches
<1> QED
  BY <1>1, <1>2, <1>3 DEF ElementInv

\* A command comes to its end, or a read does.
LEMMA Ends ==
  ASSUME ElementInv, ElementTypes', reads' = E!None, buf' = buf \/ buf' = <<>>, astray' => cmd' = "none"
  PROVE  ElementInv'
<1>1. buf' \in Seq(Stuff)
  BY NothingRead DEF ElementInv, Stuff
<1> QED
  BY <1>1 DEF ElementInv, OfCommand, Filled, Stuff

LEMMA ReadTypes ==
  ASSUME ElementInv, reads # E!None
  PROVE  /\ reads.what \in ChipKinds /\ reads.off \in Nat /\ reads.len \in Nat
         /\ cmd # "none"
<1>1. Header \in Nat /\ Manu \in Nat /\ Chunk \in Nat /\ Digest \in Nat /\ E!Chain \in Nat
  BY ElementBounds DEF E!Chain
<1> QED
  BY <1>1 DEF ElementInv, OfCommand, Read, ChipKinds

LEMMA ElementSteps == ElementInv /\ E!Next => ElementInv'
<1> SUFFICES ASSUME ElementInv, E!Next PROVE ElementInv'
  OBVIOUS
<1>0. ElementTypes /\ Header \in Nat /\ Manu \in Nat /\ Chunk \in Nat /\ Digest \in Nat /\ E!Chain \in Nat /\ RETRY_COUNT \in Nat
  BY ElementBounds DEF ElementInv, E!Chain
<1>1. CASE E!PowerUp
  <2>1. ElementTypes' /\ reads = E!None /\ ~astray'
    <3>1. ElementTypes'
      <4>1. code' \in E!Codes /\ cmd' = cmd /\ astray' \in BOOLEAN /\ chip' = chip
        BY <1>1 DEF E!PowerUp, E!Codes
      <4>2. i' \in 0 .. RETRY_COUNT
        BY <1>0, <1>1 DEF E!PowerUp
      <4>3. g_CertificateLen' \in {0, E!Chain} /\ g_ManuCALen' \in {0, Manu}
        BY <1>1 DEF E!PowerUp
      <4>4. g_MaxprotocolVersion' \in 0 .. 1 /\ g_SlotPopulatedMask' \in 0 .. 1 /\ ret' \in {"SUCCEED", "FAILED"} /\ sw' \in {"unset", "0000"}
        BY <1>1 DEF E!PowerUp
      <4>5. E!Codes' = E!Codes /\ E!Commands' = E!Commands /\ E!Chain' = E!Chain
        OBVIOUS
      <4> QED
        BY <4>1, <4>2, <4>3, <4>4, <4>5, <1>0 DEF ElementTypes
    <3> QED
      BY <3>1, <1>1 DEF E!PowerUp, ElementInv
  <2>2. buf' = <<>> /\ UNCHANGED <<cmd, reads>>
    BY <1>1 DEF E!PowerUp
  <2> QED
    BY <2>1, <2>2, Ends
<1>2. CASE E!TMC_GetPopulatedMask
  <2>1. E!Ask("mask", 0, 1) /\ cmd \in {"read_cert_hash", "get_qi_id"}
    BY <1>2 DEF E!TMC_GetPopulatedMask
  <2>2. OfCommand'
    BY <2>1 DEF E!Ask, OfCommand, Read
  <2> QED
    BY <2>1, <2>2, Asking
<1>3. CASE E!TMC_ReadDigests
  <2>1. E!Ask("digest", 0, Digest) /\ cmd = "read_cert_hash"
    BY <1>3 DEF E!TMC_ReadDigests
  <2>2. OfCommand'
    BY <2>1 DEF E!Ask, OfCommand, Read
  <2> QED
    BY <2>1, <2>2, <1>0, Asking
<1>4. CASE E!TMC_ReadCertification
  <2>1. cmd \in {"read_se_cert", "get_qi_id"} /\ reads = E!None /\ ~astray
    BY <1>4 DEF E!TMC_ReadCertification, E!Certificates, E!Due
  <2>2. CASE E!Ask("certlen", 0, 2)
    <3>1. OfCommand'
      BY <2>1, <2>2 DEF E!Ask, OfCommand, Read
    <3> QED
      BY <3>1, <2>1, <2>2, Asking
  <2>3. CASE E!Ask("manulen", Header, 1)
    <3>1. OfCommand'
      BY <2>1, <2>3 DEF E!Ask, OfCommand, Read
    <3> QED
      BY <3>1, <2>1, <2>3, <1>0, Asking
  <2>4. CASE E!Return("INVALID_REQUEST")
    <3>1. ElementTypes' /\ reads' = E!None /\ buf' = buf /\ cmd' = "none"
      BY <2>1, <2>4, <1>0 DEF E!Return, ElementTypes, E!apdu, E!caches, E!Codes
    <3> QED
      BY <3>1, Ends
  <2>5. CASE E!Ask("cert", E!Offset, E!Length) /\ g_CertificateLen # 0 /\ g_ManuCALen # 0
    <3>1. g_CertificateLen = E!Chain /\ g_ManuCALen = Manu
      BY <2>5, <1>0 DEF ElementTypes
    <3>2. CASE cmd = "read_se_cert"
      <4>1. E!Offset = 0 /\ E!Length = E!Chain
        BY <3>1, <3>2, <1>0 DEF E!Offset, E!Length
      <4>2. OfCommand'
        BY <4>1, <2>5, <3>2 DEF E!Ask, OfCommand, Read, E!Chain
      <4> QED
        BY <4>1, <4>2, <2>5, <3>2, <1>0, Asking
    <3>3. CASE cmd = "get_qi_id"
      <4>1. E!Offset = Header + Manu /\ E!Length = Chunk
        BY <3>1, <3>3, <1>0 DEF E!Offset, E!Length
      <4>2. OfCommand'
        BY <4>1, <2>5, <3>3 DEF E!Ask, OfCommand, Read
      <4> QED
        BY <4>1, <4>2, <2>5, <3>3, <1>0, Asking
    <3> QED
      BY <3>2, <3>3, <2>1
  <2> QED
    BY <2>2, <2>3, <2>4, <2>5, <1>4 DEF E!TMC_ReadCertification
<1>5. CASE E!tmc_ecc_signature
  <2>1. E!Ask("signature", 0, 1) /\ cmd = "get_tbs_auth"
    BY <1>5 DEF E!tmc_ecc_signature
  <2>2. OfCommand'
    BY <2>1 DEF E!Ask, OfCommand, Read
  <2> QED
    BY <2>1, <2>2, Asking
<1>6. CASE E!Cached
  <2>1. reads' = E!None /\ buf' = <<>> /\ UNCHANGED <<chip, i, ret, sw, astray>> /\ cmd # "none"
    BY <1>6, ReadTypes DEF E!Cached, E!Got, E!apdu
  <2>2. g_CertificateLen' \in {0, E!Chain} /\ g_ManuCALen' \in {0, Manu}
    BY <1>6, <1>0 DEF E!Cached, E!ManuCALen, ElementTypes
  <2>3. /\ g_MaxprotocolVersion' \in 0 .. 1 /\ g_SlotPopulatedMask' \in 0 .. 1
        /\ cmd' \in {cmd, "none"} /\ code' \in E!Codes
    BY <1>6, <1>0 DEF E!Cached, ElementTypes, E!Codes
  <2>4. ElementTypes'
    BY <2>1, <2>2, <2>3, <1>0 DEF ElementTypes, E!Chain, E!Codes, E!Commands
  <2>5. ~astray'
    BY <2>1 DEF ElementInv
  <2> QED
    BY <2>1, <2>4, <2>5, Ends
<1>7. CASE E!Returned
  <2>1. reads' = E!None /\ cmd' = "none" /\ buf' = buf /\ ElementTypes'
    BY <1>7, <1>0 DEF E!Returned, E!apdu, E!caches, ElementTypes, E!Codes
  <2> QED
    BY <2>1, Ends
<1>8. ASSUME NEW c \in E!Commands, E!Call(c) PROVE ElementInv'
  <2>1. cmd' = c /\ buf' = <<>> /\ reads = E!None /\ UNCHANGED <<reads, astray>> /\ ~astray
    BY <1>8 DEF E!Call, ElementInv
  <2>2. ElementTypes'
    BY <1>8, <1>0 DEF E!Call, ElementTypes, E!apdu, E!caches
  <2> QED
    BY <2>1, <2>2, Ends
<1>9. ASSUME NEW o \in E!Outcomes, E!transmit_apdu(o) PROVE ElementInv'
  <2>1. reads # E!None /\ ~E!Got /\ UNCHANGED <<chip, E!caches>>
    BY <1>9 DEF E!transmit_apdu
  <2>2. /\ reads.what \in ChipKinds
        /\ reads.off \in Nat /\ reads.len \in Nat /\ cmd # "none"
    BY <2>1, ReadTypes
  <2>3. ASSUME E!Fail PROVE ElementInv'
    <3>1. ElementTypes' /\ buf' = buf /\ astray' = astray /\ ~astray
      BY <2>1, <2>2, <2>3, <1>0 DEF E!Fail, ElementTypes, E!caches, E!Codes, ElementInv
    <3>2. CASE reads.what = "signature"
      <4>1. reads' = E!None
        BY <3>2, <2>3 DEF E!Fail
      <4> QED
        BY <4>1, <3>1, Ends
    <3>3. CASE reads.what # "signature"
      <4>1. UNCHANGED <<reads, cmd, buf, astray>>
        BY <3>3, <3>1, <2>3 DEF E!Fail
      <4> QED
        BY <4>1, <3>1 DEF ElementInv, OfCommand, Read, Filled
    <3> QED
      BY <3>2, <3>3
  <2>4. ASSUME NEW r \in {"SUCCEED", "FAILED"}, NEW s \in {"unset", "0000"}, E!NextTry(r, s) PROVE ElementInv'
    <3>1. CASE i < RETRY_COUNT
      <4>1. i' = i + 1 /\ ret' = r /\ sw' = s /\ UNCHANGED <<reads, buf, cmd, code, astray>>
        BY <3>1, <2>4 DEF E!NextTry
      <4>2. ElementTypes'
        BY <4>1, <3>1, <2>1, <1>0 DEF ElementTypes, E!caches
      <4> QED
        BY <4>1, <4>2 DEF ElementInv, OfCommand, Read, Filled
    <3>2. CASE E!Wild
      <4>1. astray' = TRUE /\ reads' = E!None /\ cmd' = "none" /\ UNCHANGED <<buf, code, i, ret, sw>>
        BY <3>2 DEF E!Wild
      <4>2. ElementTypes'
        BY <4>1, <2>1, <1>0 DEF ElementTypes, E!caches
      <4> QED
        BY <4>1, <4>2, Ends
    <3> QED
      BY <3>1, <3>2, <2>3, <2>4 DEF E!NextTry, E!GiveUp
  <2>5. ASSUME E!Good PROVE ElementInv'
    <3>1. PICK a \in Nat, b \in Nat, w \in ChipKinds, p \in Nat :
            /\ a = Len(buf) /\ b = E!Least(Chunk, reads.len - a) /\ w = reads.what /\ p = reads.off
      <4>1. Len(buf) \in Nat /\ Len(buf) <= reads.len
        BY <2>1 DEF ElementInv, Filled
      <4>2. E!Least(Chunk, reads.len - Len(buf)) \in Nat
        BY <4>1, <2>2, <1>0 DEF E!Least
      <4> QED
        BY <4>1, <4>2, <2>2
    <3>2. a + b <= reads.len /\ a + b \in Nat /\ buf = E!Memory(w, p, a)
      BY <2>1, <3>1, <2>2, <1>0 DEF ElementInv, Filled, E!Least
    <3>3. buf' = E!Memory(w, p, a) \o E!Memory(w, p + a, b)
      BY <3>1, <3>2, <2>5 DEF E!Good
    <3>4. buf' = E!Memory(w, p, a + b)
      <4>1. w \in ChipKinds /\ p \in Nat /\ a \in Nat /\ b \in Nat
        BY <3>1
      <4>2. E!Memory(w, p, a) \in Seq(Stuff)
        BY <4>1, MemoryIs
      <4>3. E!Memory(w, p, a) \o E!Memory(w, p + a, b) = E!Memory(w, p, a + b)
        BY <4>1, MemoryIs, ZenonT(30)
      <4> QED
        BY <4>3, <3>3
    <3>5. buf' \in Seq(Stuff) /\ Len(buf') = a + b
      <4>1. w \in ChipKinds /\ p \in Nat
        BY <3>1
      <4>2. PICK l \in Nat : l = a + b
        BY <3>2
      <4>3. E!Memory(w, p, l) \in Seq(Stuff) /\ Len(E!Memory(w, p, l)) = l
        BY <4>1, MemoryIs
      <4> QED
        BY <3>4, <4>2, <4>3
    <3>6. i' = 0 /\ ret' = "SUCCEED" /\ sw' = "unset" /\ UNCHANGED <<reads, cmd, code, astray>>
      BY <2>5 DEF E!Good
    <3>7. ElementTypes'
      BY <3>6, <2>1, <1>0 DEF ElementTypes, E!caches
    <3>8. OfCommand'
      BY <3>6 DEF ElementInv, OfCommand, Read
    <3>9. Filled'
      BY <3>1, <3>2, <3>4, <3>5, <3>6 DEF Filled
    <3> QED
      BY <3>5, <3>6, <3>7, <3>8, <3>9 DEF ElementInv, Stuff
  <2>6. sw \in {"unset", "0000"}
    BY <1>0 DEF ElementTypes
  <2> QED
    BY <2>3, <2>4, <2>5, <2>6, <1>9 DEF E!transmit_apdu, E!Outcomes
<1> QED
  BY <1>1, <1>2, <1>3, <1>4, <1>5, <1>6, <1>7, <1>8, <1>9 DEF E!Next, E!Step

LEMMA ElementTyped == ElementInv => E!TypeOK
BY DEF ElementInv, ElementTypes, Filled, E!TypeOK

\* A command succeeds by its own read, the last one, which is then complete.
LEMMA ElementIntact ==
  ASSUME ElementInv, E!Next, cmd # "none", cmd' = "none", code' = "SUCCEED", ~astray'
  PROVE  buf' = CASE cmd = "read_cert_hash" -> E!Memory("digest", 0, Digest)
                  [] cmd = "read_se_cert" -> E!Memory("cert", 0, E!Chain)
                  [] cmd = "get_qi_id" -> E!Memory("cert", Header + Manu, Chunk)
                  [] cmd = "get_tbs_auth" -> <<<<"signature", 0>>>>
<1>1. ~astray
  BY DEF ElementInv
<1>2. E!Returned
  <2>1. ~E!PowerUp /\ ~\E c \in E!Commands : E!Call(c)
    BY <1>1 DEF E!PowerUp, E!Call
  <2>2. ~E!TMC_GetPopulatedMask /\ ~E!TMC_ReadDigests /\ ~E!TMC_ReadCertification /\ ~E!tmc_ecc_signature
    BY DEF E!TMC_GetPopulatedMask, E!TMC_ReadDigests, E!TMC_ReadCertification, E!tmc_ecc_signature, E!Ask, E!Return
  <2>3. ~E!Cached
    BY DEF E!Cached
  <2>4. ~\E o \in E!Outcomes : E!transmit_apdu(o)
    <3>1. ~E!Fail /\ ~E!Good /\ ~E!Wild
      BY DEF E!Fail, E!Good, E!Wild
    <3>2. \A r, s : ~E!NextTry(r, s)
      BY <3>1 DEF E!NextTry, E!GiveUp
    <3> QED
      BY <3>1, <3>2 DEF E!transmit_apdu, E!Outcomes
  <2> QED
    BY <2>1, <2>2, <2>3, <2>4 DEF E!Next, E!Step
<1>3. reads # E!None /\ Len(buf) = reads.len /\ reads.what \in {"digest", "cert", "signature"} /\ buf' = buf
  BY <1>2 DEF E!Returned, E!Got
<1>4. buf = E!Memory(reads.what, reads.off, reads.len) /\ OfCommand
  BY <1>3 DEF ElementInv, Filled
<1>5. E!Memory("signature", 0, 1) = <<<<"signature", 0>>>>
  BY DEF E!Memory
<1> QED
  BY <1>3, <1>4, <1>5 DEF OfCommand, Read

-----------------------------------------------------------------------------
(* The USB bridge (UsbBridge).                                             *)

Products == [1 .. 2 -> U!Field]
Mcus == [eng : BOOLEAN, virt : {"none", "host"}, cycle : 0 .. 2, saved : 0 .. 2,
         rtc : {"own", "host", "junk"}, product : Products]
Chips == [mode : BOOLEAN, cmd : {"none", "erase", "refresh"}, virt : {"none", "host"}, cycle : 0 .. 3,
          time : BOOLEAN, prod : BOOLEAN, product : Products]
PageLogs == {l \in Seq(BOOLEAN) : Len(l) <= PageSize}
Logs == [U!Page -> PageLogs]
Cursors == [page : U!Page, idx : 0 .. PageSize]
\* What a slot works on: virtual values are there in engineering mode only.
States == {s \in [mcu : Mcus, wb : Chips, log : Logs, cursor : Cursors] : s.mcu.virt # "none" => s.mcu.eng}
BridgeInv ==
  /\ scene \in Scenes /\ cnt \in 0 .. U!Refresh /\ force \in BOOLEAN /\ enable \in BOOLEAN
  /\ mcu \in Mcus /\ wb \in Chips /\ log \in Logs /\ cursor \in Cursors
  /\ mcu.virt # "none" => mcu.eng
  /\ refresh \in 0 .. Rounds - 1 /\ host \in 0 .. 2 /\ failures \in 0 .. Failures

LEMMA Bounds == /\ Pages \in Nat /\ Pages > 0 /\ PageSize \in Nat /\ PageSize > 0 /\ Rounds \in Nat /\ Rounds > 0
                /\ Telemetry \in Nat /\ Failures \in Nat
                /\ U!Push = Telemetry /\ U!Check = Telemetry + 1 /\ U!Refresh = Telemetry + 2
BY BridgeBounds DEF U!Push, U!Check, U!Refresh

\* Changes of a slot's state, one part at a time.
LEMMA McuSet ==
  ASSUME NEW s \in States, NEW m \in Mcus, m.virt # "none" => m.eng
  PROVE  [s EXCEPT !.mcu = m] \in States
BY DEF States

LEMMA WbSet ==
  ASSUME NEW s \in States, NEW w \in Chips
  PROVE  [s EXCEPT !.wb = w] \in States
BY DEF States

LEMMA Parts ==
  ASSUME NEW s \in States
  PROVE  s.mcu \in Mcus /\ s.wb \in Chips /\ s.log \in Logs /\ s.cursor \in Cursors /\ (s.mcu.virt # "none" => s.mcu.eng)
BY DEF States

LEMMA AsleepIs == ASSUME NEW s \in States PROVE U!Asleep(s) \in States
<1> DEFINE m == [s.mcu EXCEPT !.eng = FALSE, !.virt = IF s.mcu.eng THEN "none" ELSE @]
           w == [s.wb EXCEPT !.cycle = 0]
<1>1. m \in Mcus /\ (m.virt # "none" => m.eng)
  BY Parts DEF Mcus
<1>2. w \in Chips
  BY Parts DEF Chips
<1>3. U!Asleep(s) = [[s EXCEPT !.mcu = m] EXCEPT !.wb = w]
  BY DEF U!Asleep, States, Mcus
<1> HIDE DEF m, w
<1>4. [s EXCEPT !.mcu = m] \in States
  BY <1>1, McuSet
<1>5. [[s EXCEPT !.mcu = m] EXCEPT !.wb = w] \in States
  BY <1>2, <1>4, WbSet
<1> QED
  BY <1>3, <1>5

LEMMA VirtualIs == ASSUME NEW s \in States, s.mcu.eng, NEW bad PROVE U!Virtual(s, bad) \in States /\ U!Virtual(s, bad).mcu.eng
<1> DEFINE m == [s.mcu EXCEPT !.virt = s.wb.virt]
<1>1. m \in Mcus /\ m.eng
  BY Parts DEF Mcus, Chips
<1>2. bad # "virt" => U!Virtual(s, bad) = [s EXCEPT !.mcu = m]
  BY DEF U!Virtual
<1> HIDE DEF m
<1>3. [s EXCEPT !.mcu = m] \in States /\ [s EXCEPT !.mcu = m].mcu = m
  BY <1>1, McuSet DEF States
<1> QED
  BY <1>1, <1>2, <1>3 DEF U!Virtual

LEMMA DateIs ==
  ASSUME NEW s \in States, NEW bad, NEW junk \in BOOLEAN
  PROVE  U!usb_bridge_apply_eng_datetime(s, bad, junk) \in States
<1> DEFINE m(t) == [s.mcu EXCEPT !.rtc = t]
<1>1. \A t \in {"host", "junk"} : m(t) \in Mcus /\ (m(t).virt # "none" => m(t).eng)
  BY Parts DEF Mcus
<1>2. U!usb_bridge_apply_eng_datetime(s, bad, junk) \in {s, [s EXCEPT !.mcu = m("host")], [s EXCEPT !.mcu = m("junk")]}
  BY DEF U!usb_bridge_apply_eng_datetime
<1> HIDE DEF m
<1> QED
  BY <1>1, <1>2, McuSet

LEMMA ModeIs == ASSUME NEW s \in States, NEW bad PROVE U!usb_bridge_check_eng_mode(s, bad) \in States
<1> DEFINE asked == s.wb.mode /\ bad # "mode"
           on == [s.mcu EXCEPT !.eng = TRUE]
           un == [s.mcu EXCEPT !.eng = FALSE, !.virt = "none", !.saved = s.mcu.cycle]
<1>1. on \in Mcus /\ on.eng /\ un \in Mcus /\ un.virt = "none"
  BY Parts DEF Mcus
<1> HIDE DEF on, un
<1>2. [s EXCEPT !.mcu = on] \in States /\ [s EXCEPT !.mcu = on].mcu = on /\ [s EXCEPT !.mcu = un] \in States
  BY <1>1, McuSet DEF States
<1>3. U!Virtual([s EXCEPT !.mcu = on], bad) \in States
  BY <1>1, <1>2, VirtualIs
<1>4. U!usb_bridge_check_eng_mode(s, bad) =
        IF asked /\ ~s.mcu.eng THEN U!Virtual([s EXCEPT !.mcu = on], bad)
        ELSE IF s.mcu.eng /\ ~asked THEN [s EXCEPT !.mcu = un] ELSE s
  BY DEF U!usb_bridge_check_eng_mode, on, un, States
<1> QED
  BY <1>2, <1>3, <1>4

LEMMA TimeIs ==
  ASSUME NEW s \in States, NEW bad, NEW junk \in BOOLEAN
  PROVE  U!usb_bridge_check_time_sync(s, bad, junk) \in States
<1> DEFINE d == U!usb_bridge_apply_eng_datetime(s, bad, junk)
           w == [d.wb EXCEPT !.time = FALSE]
<1>1. d \in States
  BY DateIs
<1>2. U!usb_bridge_check_time_sync(s, bad, junk) \in {s, [d EXCEPT !.wb = w]}
  BY DEF U!usb_bridge_check_time_sync
<1> HIDE DEF d
<1>3. w \in Chips
  BY <1>1, Parts DEF Chips
<1> HIDE DEF w
<1> QED
  BY <1>1, <1>2, <1>3, WbSet

LEMMA CountedIs == ASSUME NEW s \in States, NEW bad PROVE U!Counted(s, bad) \in States
<1> DEFINE n == IF bad = "cycle" THEN 0 ELSE s.wb.cycle
           m == [s.mcu EXCEPT !.cycle = n, !.saved = n]
<1>1. n \in 0 .. 3 /\ (n \notin {U!Keep, s.mcu.cycle} => n \in 0 .. 2)
  BY Parts DEF Chips, U!Keep
<1>2. U!Counted(s, bad) = IF n \in {U!Keep, s.mcu.cycle} THEN s ELSE [s EXCEPT !.mcu = m]
  BY DEF U!Counted, States
<1> HIDE DEF n
<1>3. n \notin {U!Keep, s.mcu.cycle} => m \in Mcus /\ (m.virt # "none" => m.eng)
  BY <1>1, Parts DEF Mcus
<1> HIDE DEF m
<1> QED
  BY <1>2, <1>3, McuSet

LEMMA EmptyLog == [p \in U!Page |-> <<>>] \in Logs /\ U!First \in Cursors
<1>1. <<>> \in Seq(BOOLEAN) /\ Len(<<>>) = 0
  OBVIOUS
<1>2. <<>> \in PageLogs
  BY <1>1, Bounds DEF PageLogs
<1>3. 0 \in U!Page /\ 0 \in 0 .. PageSize
  BY Bounds DEF U!Page
<1> QED
  BY <1>2, <1>3 DEF Logs, U!First, Cursors

LEMMA CommandIs ==
  ASSUME NEW s \in States, NEW bad, NEW junk \in BOOLEAN
  PROVE  U!usb_bridge_check_eng_cmd(s, bad, junk) \in States
<1> DEFINE e == [s EXCEPT !.log = [p \in U!Page |-> <<>>], !.cursor = U!First]
           we == [e.wb EXCEPT !.cmd = "none"]
<1>1. e \in States
  BY EmptyLog DEF States
<1>2. CASE s.mcu.eng
  <2> DEFINE d == U!usb_bridge_apply_eng_datetime(U!Virtual(s, bad), bad, junk)
             c == U!Counted(d, bad)
             wc == [c.wb EXCEPT !.cmd = "none"]
  <2>1. U!Virtual(s, bad) \in States
    BY <1>2, VirtualIs
  <2>2. d \in States
    BY <2>1, DateIs
  <2>3. c \in States
    <3> HIDE DEF d
    <3> QED
      BY <2>2, CountedIs
  <2>4. U!usb_bridge_check_eng_cmd(s, bad, junk) \in {s, [e EXCEPT !.wb = we], [c EXCEPT !.wb = wc]}
    <3>1. [s EXCEPT !.log = [p \in U!Page |-> <<>>], !.cursor = U!First, !.wb.cmd = "none"] = [e EXCEPT !.wb = we]
      BY DEF States
    <3> QED
      BY <3>1 DEF U!usb_bridge_check_eng_cmd
  <2> HIDE DEF c, e
  <2>5. we \in Chips /\ wc \in Chips
    BY <1>1, <2>3, Parts DEF Chips
  <2> HIDE DEF wc, we
  <2> QED
    BY <1>1, <2>3, <2>4, <2>5, WbSet
<1>3. CASE ~s.mcu.eng
  BY <1>3 DEF U!usb_bridge_check_eng_cmd
<1> QED
  BY <1>2, <1>3

LEMMA ProdIs == ASSUME NEW s \in States, NEW bad PROVE U!usb_bridge_check_prod_mode(s, bad) \in States
<1> DEFINE p == IF bad = "info" THEN U!Junk ELSE s.wb.product
           m == [s.mcu EXCEPT !.product = p]
           w == [s.wb EXCEPT !.product = p, !.prod = FALSE]
<1>0. U!Junk \in Products
  BY DEF U!Junk, Products, U!Field
<1>1. p \in Products
  BY <1>0, Parts DEF Chips
<1>2. U!usb_bridge_check_prod_mode(s, bad) \in {s, [[s EXCEPT !.mcu = m] EXCEPT !.wb = w]}
  BY DEF U!usb_bridge_check_prod_mode, U!usb_bridge_reset_product_info, States, Mcus, Chips
<1> HIDE DEF p
<1>3. m \in Mcus /\ (m.virt # "none" => m.eng) /\ w \in Chips
  BY <1>1, Parts DEF Mcus, Chips
<1> HIDE DEF m, w
<1>4. [s EXCEPT !.mcu = m] \in States
  BY <1>3, McuSet
<1>5. [[s EXCEPT !.mcu = m] EXCEPT !.wb = w] \in States
  BY <1>3, <1>4, WbSet
<1> QED
  BY <1>2, <1>5

LEMMA CommandsAre ==
  ASSUME NEW s \in States, NEW bad, NEW junk \in BOOLEAN
  PROVE  U!Commands(s, bad, junk) \in States
BY ModeIs, TimeIs, CommandIs, ProdIs DEF U!Commands
-----------------------------------------------------------------------------
LEMMA FirstOfSome == ASSUME NEW S, S \subseteq Nat, S # {} PROVE (CHOOSE k \in S : \A l \in S : k <= l) \in S
<1> DEFINE R == OpToRel(<, Nat)
<1>2. PICK x \in S : \A y \in S : ~(<<y, x>> \in R)
  BY NatLessThanWellFounded, WFMin
<1>3. \A y \in S : x <= y
  <2>1. ASSUME NEW y \in S, ~(x <= y) PROVE <<y, x>> \in R
    <3>1. x \in Nat /\ y \in Nat /\ y < x
      BY <2>1
    <3> QED
      BY <3>1 DEF OpToRel
  <2> QED
    BY <1>2, <2>1
<1> QED
  BY <1>2, <1>3

LEMMA Mods == ASSUME NEW k \in Nat PROVE k % Pages \in U!Page
BY Bounds DEF U!Page

\* The next page that holds a record, if one does.
LEMMA NextIs ==
  ASSUME NEW p \in U!Page, NEW q \in U!Page, U!Filled(q)
  PROVE  U!NextFilled(p) \in U!Page
<1> DEFINE far == {k \in 1 .. Pages : U!Filled((p + k) % Pages)}
           k0 == CHOOSE k \in far : \A l \in far : k <= l
<1>1. \E k \in 1 .. Pages : (p + k) % Pages = q
  <2>1. p \in Nat /\ q \in Nat /\ p < Pages /\ q < Pages /\ Pages \in Nat
    BY Bounds DEF U!Page
  <2>2. CASE p < q
    <3>1. q - p \in 1 .. Pages /\ (p + (q - p)) % Pages = q
      BY <2>1, <2>2
    <3> QED
      BY <3>1
  <2>3. CASE q <= p
    <3>1. q + Pages - p \in 1 .. Pages /\ (p + (q + Pages - p)) = q + Pages
      BY <2>1, <2>3
    <3>2. (q + Pages) % Pages = q
      BY <2>1
    <3> QED
      BY <3>1, <3>2
  <2> QED
    BY <2>1, <2>2, <2>3
<1>2. far # {} /\ far \subseteq Nat
  BY <1>1
<1>3. k0 \in far
  <2> HIDE DEF far
  <2> QED
    BY <1>2, FirstOfSome
<1>4. p + k0 \in Nat
  BY <1>3, Bounds DEF U!Page
<1> HIDE DEF k0
<1>5. (p + k0) % Pages \in U!Page
  BY <1>4, Mods
<1> QED
  BY <1>5 DEF U!NextFilled, k0

LEMMA LogPage == ASSUME log \in Logs, NEW p \in U!Page PROVE Len(log[p]) \in Nat /\ Len(log[p]) <= PageSize /\ log[p] \in Seq(BOOLEAN)
BY DEF Logs, PageLogs

LEMMA PushIs ==
  ASSUME BridgeInv, U!PushRecord
  PROVE  cursor' \in Cursors /\ mcu' = mcu /\ log' = log
<1>0. log \in Logs /\ cursor.page \in U!Page /\ cursor.idx \in 0 .. PageSize /\ PageSize \in Nat /\ PageSize > 0
      /\ cursor \in Cursors
  BY Bounds DEF BridgeInv, Cursors
<1>1. CASE \A p \in U!Page : ~U!Filled(p)
  BY <1>0, <1>1 DEF U!PushRecord
<1>2. CASE ~\A p \in U!Page : ~U!Filled(p)
  <2>1. PICK q \in U!Page : U!Filled(q)
    BY <1>2
  <2>2. U!Start \in Cursors
    <3>1. U!NextFilled(cursor.page) \in U!Page
      BY <2>1, <1>0, NextIs
    <3> QED
      BY <3>1, <1>0 DEF U!Start, Cursors
  <2>3. ASSUME NEW c \in Cursors, ~U!Past(c) PROVE [c EXCEPT !.idx = @ + 1] \in Cursors
    <3>1. Len(log[c.page]) \in Nat /\ Len(log[c.page]) <= PageSize /\ c.idx \in Nat
      BY <1>0, LogPage DEF Cursors
    <3>2. c.idx + 1 \in 0 .. PageSize
      BY <3>1, <2>3, <1>0 DEF U!Past
    <3> QED
      BY <3>2 DEF Cursors
  <2>4. ASSUME NEW c \in Cursors PROVE U!Pushed(c) \in Cursors /\ U!Skipped(c) \in Cursors
    <3>1. U!NextFilled(c.page) \in U!Page
      BY <2>1, NextIs DEF Cursors
    <3>2. U!After(c.page) \in U!Page
      <4>1. c.page + 1 \in Nat
        BY DEF Cursors, U!Page
      <4> QED
        BY <4>1, Mods DEF U!After
    <3>3. 0 \in 0 .. PageSize
      BY <1>0
    <3> QED
      BY <2>3, <3>1, <3>2, <3>3 DEF U!Pushed, U!Skipped, Cursors
  <2> QED
    BY <1>2, <2>2, <2>4 DEF U!PushRecord
<1> QED
  BY <1>1, <1>2 DEF U!PushRecord

LEMMA SIs == BridgeInv => U!S \in States
BY DEF BridgeInv, U!S, States

\* A state that a slot's work becomes.
LEMMA BecomesIs ==
  ASSUME BridgeInv, NEW s \in States, U!Becomes(s), cnt' \in 0 .. U!Refresh, force' \in BOOLEAN, enable' \in BOOLEAN,
         refresh' \in 0 .. Rounds - 1, host' \in 0 .. 2, failures' \in 0 .. Failures, scene' = scene
  PROVE  BridgeInv'
BY Parts DEF BridgeInv, U!Becomes, Mcus, Chips, Logs, PageLogs, Cursors, Products, U!Field, U!Page, U!Refresh

LEMMA WokenIs == BridgeInv => U!Woken \in Chips
<1> SUFFICES ASSUME BridgeInv PROVE U!Woken \in Chips
  OBVIOUS
<1>1. mcu.cycle \in 0 .. 3 /\ mcu.product \in Products /\ wb \in Chips
  BY DEF BridgeInv, Mcus
<1> QED
  BY <1>1 DEF U!Woken, Chips

LEMMA BridgeStarts == U!Init => BridgeInv
<1> SUFFICES ASSUME U!Init PROVE BridgeInv
  OBVIOUS
<1>1. U!Old \in Products
  BY DEF U!Old, Products, U!Field
<1>2. mcu \in Mcus /\ mcu.virt = "none" /\ wb \in Chips
  BY <1>1 DEF U!Init, Mcus, Chips
<1>3. log \in Logs /\ cursor \in Cursors
  BY EmptyLog DEF U!Init
<1>4. 0 \in 0 .. U!Refresh /\ 0 \in 0 .. Rounds - 1 /\ 0 \in 0 .. 2 /\ 0 \in 0 .. Failures
  BY Bounds
<1> QED
  BY <1>2, <1>3, <1>4 DEF U!Init, BridgeInv

LEMMA BridgeRests == BridgeInv /\ UNCHANGED bridge => BridgeInv'
BY DEF bridge, BridgeInv, Mcus, Chips, Logs, PageLogs, Cursors, Products, U!Field, U!Page, U!Refresh

\* What of the state is of its own type, whatever else changes.
LEMMA BridgeKept ==
  ASSUME BridgeInv, mcu' = mcu, cnt' \in 0 .. U!Refresh, force' \in BOOLEAN, enable' \in BOOLEAN, wb' \in Chips,
         log' \in Logs, cursor' \in Cursors,
         refresh' \in 0 .. Rounds - 1, host' \in 0 .. 2, failures' \in 0 .. Failures, scene' = scene
  PROVE  BridgeInv'
BY DEF BridgeInv, Mcus, Chips, Logs, PageLogs, Cursors, Products, U!Field, U!Page, U!Refresh

LEMMA BridgeSteps == BridgeInv /\ U!Next => BridgeInv'
<1> SUFFICES ASSUME BridgeInv, U!Next PROVE BridgeInv'
  OBVIOUS
<1>0. /\ scene \in Scenes /\ cnt \in 0 .. U!Refresh /\ force \in BOOLEAN /\ enable \in BOOLEAN
      /\ mcu \in Mcus /\ wb \in Chips /\ log \in Logs /\ cursor \in Cursors
      /\ refresh \in 0 .. Rounds - 1 /\ host \in 0 .. 2 /\ failures \in 0 .. Failures /\ scene' = scene
  BY DEF BridgeInv, U!Next
<1>1. CASE U!CheckCommands
  <2>1. PICK bad \in U!Bad, junk \in BOOLEAN :
          /\ U!Becomes(IF ~force /\ enable THEN U!Asleep(U!Commands(U!S, bad, junk)) ELSE U!Commands(U!S, bad, junk))
          /\ failures' = failures + (IF bad = "-" THEN 0 ELSE 1)
    BY <1>1 DEF U!CheckCommands
  <2>2. U!Commands(U!S, bad, junk) \in States
    BY <2>1, SIs, CommandsAre
  <2>3. (IF ~force /\ enable THEN U!Asleep(U!Commands(U!S, bad, junk)) ELSE U!Commands(U!S, bad, junk)) \in States
    BY <2>2, AsleepIs
  <2>4. failures' \in 0 .. Failures
    BY <1>0, <2>1, Bounds DEF U!Bad
  <2>5. cnt' \in 0 .. U!Refresh /\ force' \in BOOLEAN /\ enable' \in BOOLEAN /\ refresh' = refresh /\ host' = host
    BY <1>0, <1>1, Bounds DEF U!CheckCommands
  <2> QED
    BY <1>0, <2>1, <2>3, <2>4, <2>5, BecomesIs
<1>2. CASE U!RefreshProduct
  <2>1. PICK bad \in U!Bad \cap {"-", "prod"} :
          /\ IF refresh' = 0 /\ (~wb.prod \/ bad = "prod")
             THEN wb' = [wb EXCEPT !.product = mcu.product] ELSE UNCHANGED wb
          /\ failures' = failures + (IF refresh' = 0 /\ bad = "prod" THEN 1 ELSE 0)
    BY <1>2 DEF U!RefreshProduct
  <2>2. wb' \in Chips
    BY <1>0, <2>1 DEF Chips, Mcus
  <2>3. failures' \in 0 .. Failures
    BY <1>0, <2>1, Bounds DEF U!Bad
  <2>4. cnt' = 0 /\ refresh' = (refresh + 1) % Rounds /\ UNCHANGED <<force, enable, cursor, log, mcu, host>>
    BY <1>2 DEF U!RefreshProduct
  <2>5. 0 \in 0 .. U!Refresh /\ (refresh + 1) % Rounds \in 0 .. Rounds - 1
    BY <1>0, Bounds
  <2> QED
    BY <1>0, <2>2, <2>3, <2>4, <2>5, BridgeKept
<1>3. CASE U!Quiet
  <2>1. U!Becomes(IF enable THEN U!Asleep(U!S) ELSE U!S) /\ cnt' = cnt + 1 /\ enable' = FALSE
        /\ UNCHANGED <<force, refresh, host, failures>> /\ cnt < U!Check
    BY <1>3 DEF U!Quiet
  <2>2. (IF enable THEN U!Asleep(U!S) ELSE U!S) \in States
    BY SIs, AsleepIs
  <2>3. cnt' \in 0 .. U!Refresh
    BY <1>0, <2>1, Bounds
  <2> QED
    BY <1>0, <2>1, <2>2, <2>3, BecomesIs
<1>4. CASE U!Telemeter
  <2>1. cnt' = cnt + 1 /\ enable' = TRUE /\ wb' = U!Woken /\ cnt < U!Push
        /\ UNCHANGED <<force, cursor, log, refresh, mcu, host, failures>>
    BY <1>4 DEF U!Telemeter
  <2>2. cnt' \in 0 .. U!Refresh
    BY <1>0, <2>1, Bounds
  <2> QED
    BY <1>0, <2>1, <2>2, WokenIs, BridgeKept
<1>5. CASE U!PushSlot
  <2>1. cnt' = U!Check /\ enable' = TRUE /\ wb' = U!Woken /\ U!PushRecord /\ UNCHANGED <<force, refresh, host, failures>>
    BY <1>5 DEF U!PushSlot
  <2>2. cursor' \in Cursors /\ mcu' = mcu /\ log' = log
    BY <2>1, PushIs
  <2>3. cnt' \in 0 .. U!Refresh
    BY <2>1, Bounds
  <2> QED
    BY <1>0, <2>1, <2>2, <2>3, WokenIs, BridgeKept
<1>6. CASE U!Force
  <2>1. force' = ~force /\ UNCHANGED <<cnt, enable, cursor, refresh, mcu, failures, log, wb, host>>
    BY <1>6 DEF U!Force, U!Others
  <2> QED
    BY <1>0, <2>1, BridgeKept
<1>7. CASE U!Log
  <2>1. PICK p \in U!Page, ok \in BOOLEAN :
          \/ Len(log[p]) < PageSize /\ log' = [log EXCEPT ![p] = Append(@, ok)]
          \/ Len(log[p]) = PageSize /\ log' = [log EXCEPT ![p] = <<ok>>]
    BY <1>7 DEF U!Log
  <2>2. UNCHANGED <<cnt, enable, cursor, refresh, mcu, failures, force, wb, host>>
    BY <1>7 DEF U!Log, U!Others
  <2>3. Len(log[p]) < PageSize => Append(log[p], ok) \in PageLogs
    <3>1. log[p] \in Seq(BOOLEAN) /\ Len(log[p]) \in Nat /\ PageSize \in Nat
      BY <1>0, LogPage, Bounds
    <3>2. Append(log[p], ok) \in Seq(BOOLEAN) /\ Len(Append(log[p], ok)) = Len(log[p]) + 1
      BY <3>1
    <3> QED
      BY <3>1, <3>2 DEF PageLogs
  <2>4. <<ok>> \in PageLogs
    <3>1. <<ok>> \in Seq(BOOLEAN) /\ Len(<<ok>>) = 1
      OBVIOUS
    <3> QED
      BY <3>1, Bounds DEF PageLogs
  <2>5. log' \in Logs
    <3>1. \E l \in PageLogs : log' = [log EXCEPT ![p] = l]
      BY <2>1, <2>3, <2>4
    <3> QED
      BY <1>0, <3>1 DEF Logs
  <2> QED
    BY <1>0, <2>2, <2>5, BridgeKept
<1>8. CASE U!HostEngineers \/ U!HostErases \/ U!HostSetsTime \/ U!HostProduces
  <2>1. UNCHANGED <<cnt, enable, cursor, refresh, mcu, failures, force, log>>
    BY <1>8 DEF U!HostEngineers, U!HostErases, U!HostSetsTime, U!HostProduces, U!Write, U!Others
  <2>2. host' \in 0 .. 2
    BY <1>0, <1>8 DEF U!HostEngineers, U!HostErases, U!HostSetsTime, U!HostProduces
  <2>3. wb' \in Chips
    <3>1. CASE U!HostEngineers
      <4>1. CASE \E on \in BOOLEAN : wb' = [wb EXCEPT !.mode = on]
        BY <1>0, <4>1 DEF Chips
      <4>2. CASE \E n \in {2, 3} : wb' = [wb EXCEPT !.cmd = "refresh", !.virt = "host", !.cycle = n]
        <5>1. 2 \in 0 .. 3 /\ 3 \in 0 .. 3
          OBVIOUS
        <5> QED
          BY <1>0, <4>2, <5>1 DEF Chips
      <4> QED
        BY <3>1, <4>1, <4>2 DEF U!HostEngineers, U!Write, U!Keep
    <3>2. CASE U!HostErases \/ U!HostSetsTime
      BY <1>0, <3>2 DEF U!HostErases, U!HostSetsTime, U!Write, Chips
    <3>3. CASE U!HostProduces
      <4>1. \/ wb' = [wb EXCEPT !.prod = TRUE]
            \/ host + 1 \in 1 .. 2 /\ wb' = [wb EXCEPT !.product = [wb.product EXCEPT ![host + 1] = "new"]]
        BY <1>0, <3>3 DEF U!HostProduces, U!Write
      <4>2. host + 1 \in 1 .. 2 => [wb.product EXCEPT ![host + 1] = "new"] \in Products
        BY <1>0 DEF Chips, Products, U!Field
      <4> QED
        BY <1>0, <4>1, <4>2 DEF Chips
    <3> QED
      BY <1>8, <3>1, <3>2, <3>3
  <2> QED
    BY <1>0, <2>1, <2>2, <2>3, BridgeKept
<1> QED
  BY <1>1, <1>2, <1>3, <1>4, <1>5, <1>6, <1>7, <1>8 DEF U!Next, U!usb_bridge_periodic_update

LEMMA BridgeTyped == BridgeInv => U!TypeOK /\ U!VirtualOnlyInEng
<1> SUFFICES ASSUME BridgeInv PROVE U!TypeOK /\ U!VirtualOnlyInEng
  OBVIOUS
<1>1. \A p \in U!Page : Len(log[p]) <= PageSize
  BY LogPage DEF BridgeInv
<1>2. wb.cmd \in {"none", "erase", "refresh"} /\ wb.cycle \in 0 .. U!Keep
  BY DEF BridgeInv, Chips, U!Keep
<1>3. cursor \in [page : U!Page, idx : 0 .. PageSize]
  BY DEF BridgeInv, Cursors
<1>4. mcu \in [eng : BOOLEAN, virt : {"none", "host"}, cycle : 0 .. 2, saved : 0 .. 2,
               rtc : {"own", "host", "junk"}, product : [1 .. 2 -> U!Field]]
  BY DEF BridgeInv, Mcus, Products
<1> QED
  BY <1>1, <1>2, <1>3, <1>4 DEF BridgeInv, U!TypeOK, U!VirtualOnlyInEng

-----------------------------------------------------------------------------
(* The data streams (DataStream).                                          *)

RequestKinds == {"digests", "noSlots", "certificate", "challenge", "wrongSlot"}
Values == {"DIGESTS", "digest", "CERTIFICATE", "cert1", "cert2", "CHALLENGE_AUTH", "error"} \cup 0 .. 1
Receivers == [does : X!Does, q : RequestKinds, nonce : 0 .. 1, sent : 0 .. 2, got : Seq(Values), parity : 0 .. 1,
              reply : {"ack", "unexpected", "crc"}, done : BOOLEAN]
StreamTypes ==
  /\ wants \in Wants /\ prx \in Receivers /\ prx.q \in wants
  /\ in_status \in {"standby", "opening", "sending", "closing"} /\ in_parity \in 0 .. 1 /\ have_recv \in 0 .. 2
  /\ out_status \in {"standby", "opening", "sending", "closing"} /\ out_parity \in 0 .. 1
  /\ have_send \in 0 .. 3 /\ need_send \in 0 .. 3 /\ last_send \in 0 .. 1
  /\ need_atn_cnt \in BOOLEAN /\ need_atn_evt \in BOOLEAN /\ auth_timer \in BOOLEAN /\ passed \in BOOLEAN
  /\ renego \in {"no", "once", "hot"}

Asked == X!Pieces(prx.q, prx.nonce)
FullResponse == X!Response(prx.q, prx.nonce)
After == {"waits", "polls", "replies", "unanswered"}     \* the request was acknowledged
\* The transmitter has the first n pieces of the request.
Took(n) ==
  /\ have_recv = n
  /\ \/ n = 0 /\ recv_crc = <<>> /\ in_parity = 0 /\ auth_request_type = "-" /\ in_status \in {"opening", "standby"}
     \/ n = 1 /\ recv_crc = <<prx.q>> /\ in_parity = 1 /\ auth_request_type = prx.q /\ in_status \in {"sending", "standby"}
     \/ /\ n = 2 /\ recv_crc = <<prx.q, prx.nonce>> /\ in_parity = 0 /\ auth_request_type = prx.q
        /\ in_status \in {"sending", "standby"} /\ recv_buf[2] = prx.nonce
\* It knows what is asked, and has what the chip is to sign, or the signature.
Knows ==
  /\ IF prx.q \in X!Answers THEN auth_request_type = prx.q ELSE auth_request_type \notin X!Answers
  /\ prx.q = "challenge" => recv_buf[2] = prx.nonce /\ (auth_timer \/ array_chall = prx.nonce)
IsData(packet) == \E p \in 0 .. 1, x \in Values : packet = X!Data("data", p, x)
\* How far the response is.
Answered ==
  /\ out_status = "opening" =>
       need_send = Len(FullResponse) /\ have_send = 0 /\ last_send = 0 /\ send_cpy = X!Packet("open", need_send)
  /\ out_status = "sending" =>
       /\ need_send = Len(FullResponse) /\ last_send = 1 /\ have_send < need_send /\ IsData(send_cpy)
       /\ send_crc \in Seq(Values) /\ Len(send_crc) = have_send + 1
       /\ \A k \in 1 .. have_send + 1 : send_crc[k] = FullResponse[k]
  /\ out_status = "closing" => send_cpy = X!Packet("close", FullResponse)
Receiver ==
  /\ prx.does = "sends" => prx.sent < Len(Asked) /\ (Took(prx.sent) \/ Took(prx.sent + 1))
  /\ prx.does = "closes" => Took(Len(Asked))
  /\ prx.does \in After => Knows /\ Answered
  /\ prx.does # "rests" /\ prx.done => prx.got = FullResponse
\* What is in the air fits where the receiver is.
Aired ==
  \/ ask = X!None
  \/ /\ fsk = X!None
     /\ \/ ask = X!Word("open") /\ prx.does = "opens"
        \/ prx.does = "sends" /\ ask = X!Data("data", prx.sent % 2, Asked[prx.sent + 1])
        \/ ask = X!Packet("close", Asked) /\ prx.does = "closes"
        \/ ask = X!Word("poll") /\ prx.does \in {"polls", "unanswered"}
        \/ ask = X!Packet("sdsr", prx.reply) /\ prx.does \in {"replies", "unanswered"}
IsAnswer(packet) ==
  \/ packet \in {X!Word("null"), X!Word("ecap"), X!Packet("close", FullResponse)} \/ IsData(packet)
  \/ \E n \in 0 .. 3 : packet = X!Packet("open", n)
Hearing ==
  \/ fsk = X!None \/ fsk = X!Silent
  \/ fsk = X!Packet("sdsr", "ack") /\ prx.does = "opens" /\ Took(0)
  \/ fsk = X!Packet("sdsr", "ack") /\ prx.does = "closes" /\ Knows /\ out_status = "standby"
  \/ fsk = X!Word("ack") /\ prx.does = "sends" /\ Took(prx.sent + 1)
  \/ fsk = X!Word("nd") /\ prx.does = "sends"
  \/ prx.does \in {"polls", "replies", "unanswered"} /\ IsAnswer(fsk)
StreamInv == StreamTypes /\ Receiver /\ Aired /\ Hearing

LEMMA Same == ASSUME prx'.q = prx.q, prx'.nonce = prx.nonce PROVE Asked' = Asked /\ FullResponse' = FullResponse
  BY DEF Asked, FullResponse
LEMMA SameTook ==
  ASSUME UNCHANGED <<in_status, in_parity, have_recv, recv_crc, auth_request_type, recv_buf>>,
         prx'.q = prx.q, prx'.nonce = prx.nonce, NEW n, Took(n)
  PROVE Took(n)'
  BY DEF Took
LEMMA SameAnswered ==
  ASSUME UNCHANGED <<out_status, have_send, last_send, need_send, send_crc, send_cpy>>,
         prx'.q = prx.q, prx'.nonce = prx.nonce, Answered
  PROVE Answered'
  <1>1. FullResponse' = FullResponse BY Same
  <1> QED BY <1>1 DEF Answered
LEMMA SameReceiver ==
  ASSUME UNCHANGED <<in_status, in_parity, have_recv, recv_crc, auth_request_type, recv_buf,
                     out_status, have_send, last_send, need_send, send_crc, send_cpy, auth_timer, array_chall, prx>>,
         Receiver
  PROVE Receiver'
  <1>1. Asked' = Asked /\ FullResponse' = FullResponse BY Same
  <1>2. \A n : Took(n) => Took(n)' BY SameTook
  <1>3. Answered => Answered' BY SameAnswered
  <1>4. Knows => Knows' BY DEF Knows
  <1> QED BY <1>1, <1>2, <1>3, <1>4 DEF Receiver
LEMMA SameHeard ==
  ASSUME UNCHANGED <<in_status, in_parity, have_recv, recv_crc, auth_request_type, recv_buf,
                     out_status, auth_timer, array_chall, prx, fsk>>,
         Hearing
  PROVE Hearing'
  <1>1. Asked' = Asked /\ FullResponse' = FullResponse BY Same
  <1>2. \A n : Took(n) => Took(n)' BY SameTook
  <1>4. Knows => Knows' BY DEF Knows
  <1>5. IsAnswer(fsk) => IsAnswer(fsk)' BY <1>1 DEF IsAnswer
  <1> QED BY <1>1, <1>2, <1>4, <1>5 DEF Hearing
LEMMA SameAired ==
  ASSUME UNCHANGED <<ask, fsk, prx>>, Aired
  PROVE Aired'
  BY Same DEF Aired

LEMMA Signs ==
  ASSUME StreamInv, X!Sign, UNCHANGED wants
  PROVE StreamInv'
<1> USE DEF StreamInv
<1>1. StreamTypes' BY DEF StreamTypes, X!Sign, X!incoming, X!outgoing
<1>2. Knows => Knows' BY DEF Knows, X!Sign, X!incoming
<1>3. Asked' = Asked /\ FullResponse' = FullResponse BY Same DEF X!Sign
<1>4. \A n : Took(n) => Took(n)' BY SameTook DEF X!Sign, X!incoming
<1>5. Answered => Answered' BY SameAnswered DEF X!Sign, X!outgoing
<1>6. Receiver' BY <1>2, <1>3, <1>4, <1>5 DEF Receiver, X!Sign
<1>7. Aired' BY SameAired DEF X!Sign
<1>8. Hearing'
  <2>1. IsAnswer(fsk) => IsAnswer(fsk)' BY <1>3 DEF IsAnswer, X!Sign
  <2> QED BY <1>2, <1>3, <1>4, <2>1 DEF Hearing, X!Sign, X!outgoing
<1> QED BY <1>1, <1>6, <1>7, <1>8

LEMMA Speaks ==
  ASSUME StreamInv, X!Speak, UNCHANGED wants
  PROVE StreamInv'
<1> USE DEF StreamInv
<1>0. UNCHANGED <<in_status, in_parity, have_recv, recv_crc, auth_request_type, recv_buf, out_parity, fsk, passed,
                     out_status, have_send, last_send, need_send, send_crc, send_cpy, auth_timer, array_chall, prx,
                     need_atn_cnt, need_atn_evt, renego>>
  BY DEF X!Speak, X!incoming, X!outgoing, X!attention
<1>1. StreamTypes' BY <1>0 DEF StreamTypes
<1>2. Receiver' BY <1>0, SameReceiver
<1>3. Hearing' BY <1>0, SameHeard
<1>4. Aired' BY <1>0, Same DEF Aired, X!Speak, X!Idle, Asked
<1> QED BY <1>1, <1>2, <1>3, <1>4

LEMMA Loses ==
  ASSUME StreamInv, X!Lose, UNCHANGED wants
  PROVE StreamInv'
<1> USE DEF StreamInv
<1>0. UNCHANGED <<in_status, in_parity, have_recv, recv_crc, auth_request_type, recv_buf, out_parity, passed,
                     out_status, have_send, last_send, need_send, send_crc, send_cpy, auth_timer, array_chall, prx,
                     need_atn_cnt, need_atn_evt, renego>>
  BY DEF X!Lose, X!incoming, X!outgoing, X!attention
<1>1. StreamTypes' BY <1>0 DEF StreamTypes
<1>2. Receiver' BY <1>0, SameReceiver
<1>3. Hearing' BY DEF X!Lose, Hearing
<1>4. ask' = X!None BY DEF X!Lose, Aired
<1>5. Aired' BY <1>4 DEF Aired
<1> QED BY <1>1, <1>2, <1>3, <1>5

LEMMA Quiet == ASSUME ask' = X!None, fsk' = X!None PROVE Aired' /\ Hearing'
  BY DEF Aired, Hearing
\* The transmitter and the request are as they were: what each step of the
\* receiver needs to show is what it now does.
Unmoved == UNCHANGED <<wants, in_status, in_parity, recv_buf, have_recv, recv_crc, auth_request_type, out_status, out_parity,
                       have_send, last_send, need_send, send_crc, send_cpy, need_atn_evt, auth_timer, array_chall>>
LEMMA Moves ==
  ASSUME StreamInv, Unmoved, prx' \in Receivers, prx'.q = prx.q, prx'.nonce = prx.nonce,
         need_atn_cnt' \in BOOLEAN, passed' \in BOOLEAN, renego' \in {"no", "once", "hot"},
         ask' = X!None, fsk' = X!None,
         prx'.does = "sends" => prx'.sent < Len(Asked) /\ (Took(prx'.sent) \/ Took(prx'.sent + 1)),
         prx'.does = "closes" => Took(Len(Asked)),
         prx'.does \in After => Knows /\ Answered,
         prx'.does # "rests" /\ prx'.done => prx'.got = FullResponse
  PROVE StreamInv'
<1>1. StreamTypes' BY DEF StreamInv, StreamTypes, Unmoved
<1>2. Asked' = Asked /\ FullResponse' = FullResponse BY Same
<1>3. \A n : Took(n) => Took(n)' BY SameTook DEF Unmoved
<1>4. Answered => Answered' BY SameAnswered DEF Unmoved
<1>5. Knows => Knows' BY DEF Knows, Unmoved
<1>6. Receiver' BY <1>2, <1>3, <1>4, <1>5 DEF Receiver
<1> QED BY <1>1, <1>6, Quiet DEF StreamInv

LEMMA Turns ==
  ASSUME NEW r \in Receivers, NEW d \in X!Does
  PROVE [r EXCEPT !.does = d] \in Receivers /\ [r EXCEPT !.does = d].does = d /\ [r EXCEPT !.does = d].q = r.q
  BY DEF Receivers
LEMMA Misses ==
  ASSUME StreamInv, X!Miss, UNCHANGED wants
  PROVE StreamInv'
<1>1. ask = X!None BY DEF StreamInv, Aired, X!Miss, X!None, X!Silent
<1>2. Unmoved /\ ask' = ask /\ fsk' = X!None /\ UNCHANGED <<need_atn_cnt, passed, renego>>
  BY DEF Unmoved, X!Miss, X!incoming, X!outgoing, X!attention
<1>3. prx \in Receivers /\ need_atn_cnt \in BOOLEAN /\ passed \in BOOLEAN /\ renego \in {"no", "once", "hot"}
  BY DEF StreamInv, StreamTypes
<1>4. prx' = [prx EXCEPT !.does = prx'.does]
      /\ (prx'.does = prx.does \/ (prx.does \in After /\ prx'.does \in After \cup {"rests"}))
  BY <1>3 DEF X!Miss, Receivers, After
<1>5. prx'.does \in X!Does BY <1>3, <1>4 DEF Receivers, X!Does, After
<1>6. prx' \in Receivers /\ prx'.q = prx.q /\ prx'.nonce = prx.nonce /\ prx'.sent = prx.sent /\ prx'.done = prx.done
      /\ prx'.got = prx.got
  BY <1>3, <1>4, <1>5 DEF Receivers
<1>7. prx'.does = "sends" => prx'.sent < Len(Asked) /\ (Took(prx'.sent) \/ Took(prx'.sent + 1))
  BY <1>4, <1>6 DEF StreamInv, Receiver, After
<1>8. prx'.does = "closes" => Took(Len(Asked)) BY <1>4 DEF StreamInv, Receiver, After
<1>9. prx'.does \in After => Knows /\ Answered BY <1>4 DEF StreamInv, Receiver, After
<1>10. prx'.does # "rests" /\ prx'.done => prx'.got = FullResponse BY <1>4, <1>6 DEF StreamInv, Receiver, After
<1> QED BY <1>1, <1>2, <1>3, <1>6, <1>7, <1>8, <1>9, <1>10, Moves

LEMMA Asks ==
  ASSUME StreamInv, X!Ask, UNCHANGED wants
  PROVE StreamInv'
<1> USE DEF StreamInv
<1>1. ask' = X!None /\ fsk' = X!None BY DEF X!Ask, X!Idle
<1>2. wants \subseteq RequestKinds BY StreamBounds DEF StreamTypes, RequestKinds
<1>3. PICK q \in wants : prx' = [prx EXCEPT !.does = "opens", !.q = q, !.nonce = 1 - @, !.sent = 0, !.done = FALSE]
  BY DEF X!Ask
<1>4. prx' \in Receivers /\ prx'.does = "opens" /\ ~prx'.done /\ prx'.q \in wants
  <2>1. prx \in Receivers BY DEF StreamTypes
  <2>2. 1 - prx.nonce \in 0 .. 1 BY <2>1 DEF Receivers
  <2>3. q \in RequestKinds BY <1>2
  <2>4. PICK d \in X!Does : d = "opens" BY DEF X!Does
  <2>5. PICK n \in 0 .. 1 : n = 1 - prx.nonce BY <2>2
  <2>6. prx' = [prx EXCEPT !.does = d, !.q = q, !.nonce = n, !.sent = 0, !.done = FALSE] BY <1>3, <2>4, <2>5
  <2>7. prx' = [does |-> d, q |-> q, nonce |-> n, sent |-> 0, got |-> prx.got, parity |-> prx.parity,
                reply |-> prx.reply, done |-> FALSE]
    BY <2>1, <2>6 DEF Receivers
  <2>8. prx.got \in Seq(Values) /\ prx.parity \in 0 .. 1 /\ prx.reply \in {"ack", "unexpected", "crc"}
    BY <2>1 DEF Receivers
  <2>9. FALSE \in BOOLEAN /\ 0 \in 0 .. 2 OBVIOUS
  <2>10. prx' \in Receivers BY <2>3, <2>4, <2>5, <2>7, <2>8, <2>9 DEF Receivers
  <2>11. prx'.does = d /\ prx'.q = q BY <2>7
  <2>12. prx'.done = FALSE BY <2>7
  <2> QED BY <2>4, <2>10, <2>11, <2>12
<1>5. Unmoved /\ UNCHANGED <<need_atn_cnt, renego>> /\ passed' = FALSE
  BY DEF Unmoved, X!Ask, X!incoming, X!outgoing, X!attention
<1>6. StreamTypes' BY <1>4, <1>5 DEF StreamTypes, Unmoved
<1>7. Receiver' BY <1>4 DEF Receiver, After
<1> QED BY <1>1, <1>6, <1>7, Quiet

LEMMA Pauses ==
  ASSUME StreamInv, X!Attend \/ X!GiveUp \/ X!Renego, UNCHANGED wants
  PROVE StreamInv'
<1>1. ask' = X!None /\ fsk' = X!None BY DEF X!Attend, X!GiveUp, X!Renego, X!Idle
<1>2. Unmoved /\ UNCHANGED <<need_atn_cnt, passed>> /\ renego' \in {"no", "once", "hot"}
  BY DEF Unmoved, X!Attend, X!GiveUp, X!Renego, X!incoming, X!outgoing, X!attention, StreamInv, StreamTypes
<1>3. prx \in Receivers /\ need_atn_cnt \in BOOLEAN /\ passed \in BOOLEAN BY DEF StreamInv, StreamTypes
<1>4. PICK d \in {"polls", "rests"} : prx' = [prx EXCEPT !.does = d]
  BY DEF X!Attend, X!GiveUp, X!Renego
<1>5. prx' \in Receivers /\ prx'.q = prx.q /\ prx'.nonce = prx.nonce /\ prx'.sent = prx.sent /\ prx'.done = prx.done
      /\ prx'.got = prx.got /\ prx'.does \in {"polls", "rests"}
  BY <1>3, <1>4 DEF Receivers, X!Does
<1>6. prx.does = "waits" BY DEF X!Attend, X!GiveUp, X!Renego
<1>7. Knows /\ Answered /\ (prx.done => prx.got = FullResponse) BY <1>6 DEF StreamInv, Receiver, After
<1>8. prx'.does # "sends" /\ prx'.does # "closes" BY <1>5
<1> QED BY <1>1, <1>2, <1>3, <1>5, <1>7, <1>8, Moves

LEMMA Cools ==
  ASSUME StreamInv, X!Cool, UNCHANGED wants
  PROVE StreamInv'
<1>1. Unmoved /\ UNCHANGED <<need_atn_cnt, passed, ask, fsk, prx>> /\ renego' = "once"
  BY DEF Unmoved, X!Cool, X!incoming, X!outgoing, X!attention
<1>2. StreamTypes' BY <1>1 DEF StreamInv, StreamTypes, Unmoved
<1>3. Receiver' BY <1>1, SameReceiver DEF Unmoved, StreamInv
<1>4. Aired' /\ Hearing' BY <1>1, Quiet DEF X!Cool, X!Idle
<1> QED BY <1>2, <1>3, <1>4 DEF StreamInv

LEMMA Cloaks ==
  ASSUME StreamInv, X!Cloak, UNCHANGED wants
  PROVE StreamInv'
<1> USE DEF StreamInv
<1>1. ask' = X!None /\ fsk' = X!None BY DEF X!Cloak, X!Idle
<1>2. UNCHANGED <<wants, in_parity, recv_buf, have_recv, recv_crc, auth_request_type, out_parity, have_send,
                  last_send, need_send, send_crc, send_cpy, need_atn_evt, auth_timer, array_chall, renego, passed>>
      /\ in_status' = "standby" /\ out_status' = "standby" /\ need_atn_cnt' = TRUE
  BY DEF X!Cloak
<1>3. prx' = [prx EXCEPT !.does = prx'.does]
      /\ prx'.does = IF prx.does \in {"opens", "sends", "closes"} THEN prx.does ELSE "waits"
  BY DEF X!Cloak, StreamTypes, Receivers
<1>4. prx' \in Receivers /\ prx'.q = prx.q /\ prx'.nonce = prx.nonce /\ prx'.sent = prx.sent /\ prx'.done = prx.done
      /\ prx'.got = prx.got
  <2>1. prx'.does \in X!Does BY <1>3 DEF StreamTypes, Receivers, X!Does
  <2> QED BY <1>3, <2>1 DEF StreamTypes, Receivers
<1>5. StreamTypes' BY <1>2, <1>4 DEF StreamTypes
<1>6. Asked' = Asked /\ FullResponse' = FullResponse BY <1>4, Same
<1>7. \A n : Took(n) => Took(n)' BY <1>2, <1>4 DEF Took
<1>8. Answered' BY <1>2 DEF Answered
<1>9. prx.does # "rests" BY DEF X!Cloak
<1>10. prx.does \in {"opens", "sends", "closes"} \/ prx.does \in After
  BY <1>9 DEF StreamTypes, Receivers, X!Does, After
<1>11. Knows => Knows' BY <1>2, <1>4 DEF Knows
<1>12. Receiver' BY <1>3, <1>4, <1>6, <1>7, <1>8, <1>9, <1>10, <1>11 DEF Receiver, After
<1> QED BY <1>1, <1>5, <1>12, Quiet

LEMMA Restarts ==
  ASSUME StreamInv, X!Restart, UNCHANGED wants
  PROVE StreamInv'
<1>1. ask' = X!None /\ fsk' = X!None BY DEF X!Restart, X!Idle
<1>2. prx \in Receivers BY DEF StreamInv, StreamTypes
<1>3. prx' \in Receivers /\ prx'.q = prx.q /\ prx'.does = "rests"
  <2>1. PICK d \in X!Does : d = "rests" BY DEF X!Does
  <2>2. prx' = [prx EXCEPT !.does = d] BY <2>1 DEF X!Restart
  <2>3. prx' \in Receivers BY <1>2, <2>1, <2>2, Turns
  <2>4. prx'.does = d BY <1>2, <2>1, <2>2, Turns
  <2>5. prx'.q = prx.q BY <1>2, <2>1, <2>2, Turns
  <2> QED BY <2>1, <2>3, <2>4, <2>5
<1>4. UNCHANGED <<in_parity, have_recv, out_parity, have_send, last_send, need_send, auth_timer, renego, passed>>
      /\ in_status' = "standby" /\ out_status' = "standby" /\ need_atn_cnt' = FALSE /\ need_atn_evt' = FALSE
  BY DEF X!Restart
<1>6. StreamTypes' BY <1>3, <1>4 DEF StreamInv, StreamTypes
<1>5. Receiver' BY <1>3 DEF Receiver, After
<1> QED BY <1>1, <1>5, <1>6, Quiet DEF StreamInv

LEMMA Nothing == ASSUME NEW S PROVE <<>> \in Seq(S)
  OBVIOUS
LEMMA Adds ==
  ASSUME NEW S, NEW s \in Seq(S), NEW x \in S
  PROVE Append(s, x) \in Seq(S) /\ Len(Append(s, x)) = Len(s) + 1
        /\ \A k \in 1 .. Len(s) + 1 : Append(s, x)[k] = IF k = Len(s) + 1 THEN x ELSE s[k]
  OBVIOUS
LEMMA Equals ==
  ASSUME NEW S, NEW s \in Seq(S), NEW t \in Seq(S), Len(s) = Len(t), \A h \in 1 .. Len(s) : s[h] = t[h]
  PROVE s = t
  OBVIOUS
LEMMA Singles == ASSUME NEW S, NEW a \in S PROVE <<a>> \in Seq(S)
  OBVIOUS
LEMMA Couples == ASSUME NEW S, NEW a \in S, NEW b \in S PROVE <<a, b>> \in Seq(S)
  OBVIOUS
LEMMA Pairs == ASSUME NEW S, NEW a \in S, NEW b \in S PROVE Append(<<a>>, b) = <<a, b>>
<1> DEFINE s == <<a>>
           t == Append(s, b)
           u == <<a, b>>
<1>1. s \in Seq(S) BY Singles
<1>2. Len(s) = 1 /\ s[1] = a OBVIOUS
<1>3. u \in Seq(S) BY Couples
<1>4. Len(u) = 2 /\ u[1] = a /\ u[2] = b OBVIOUS
<1> HIDE DEF s, u
<1>5. t \in Seq(S) /\ Len(t) = 2
  <2>1. t \in Seq(S) BY <1>1, Adds
  <2>2. Len(t) = Len(s) + 1 BY <1>1, Adds
  <2> QED BY <1>2, <2>1, <2>2
<1>6. t[1] = a /\ t[2] = b
  <2>1. \A k \in 1 .. Len(s) + 1 : t[k] = IF k = Len(s) + 1 THEN b ELSE s[k] BY <1>1, Adds
  <2> HIDE DEF t
  <2>2. 1 \in 1 .. Len(s) + 1 /\ 2 \in 1 .. Len(s) + 1 BY <1>2
  <2>3. t[1] = a BY <1>2, <2>1, <2>2
  <2>4. t[2] = b BY <1>2, <2>1, <2>2
  <2> QED BY <2>3, <2>4
<1> HIDE DEF t
<1>7. \A h \in 1 .. Len(t) : t[h] = u[h]
  <2>1. \A h \in 1 .. Len(t) : h = 1 \/ h = 2 BY <1>5
  <2> QED BY <1>4, <1>6, <2>1
<1>8. t = u BY <1>3, <1>4, <1>5, <1>7, Equals
<1> QED BY <1>8 DEF s, t, u
LEMMA Requested ==
  ASSUME prx \in Receivers
  PROVE /\ Asked = <<prx.q>> \/ Asked = <<prx.q, prx.nonce>>
        /\ Len(Asked) \in 1 .. 2 /\ FullResponse \in Seq(Values) /\ Len(FullResponse) \in 1 .. 3
<1>1. Asked = <<prx.q>> \/ Asked = <<prx.q, prx.nonce>> BY DEF Asked, X!Pieces
<1>2. Len(Asked) \in 1 .. 2 BY <1>1
<1>3. prx.q \in RequestKinds /\ prx.nonce \in 0 .. 1 BY DEF Receivers
<1>4. prx.nonce \in Values BY <1>3 DEF Values
<1>5. CASE prx.q = "digests"
  <2>1. FullResponse = <<"DIGESTS", "digest">> BY <1>5 DEF FullResponse, X!Response
  <2> QED BY <1>1, <1>2, <2>1 DEF Values
<1>6. CASE prx.q = "noSlots"
  <2>1. FullResponse = <<"DIGESTS">> BY <1>6 DEF FullResponse, X!Response
  <2> QED BY <1>1, <1>2, <2>1 DEF Values
<1>7. CASE prx.q = "certificate"
  <2>1. FullResponse = <<"CERTIFICATE", "cert1", "cert2">> BY <1>7 DEF FullResponse, X!Response
  <2> QED BY <1>1, <1>2, <2>1 DEF Values
<1>8. CASE prx.q = "challenge"
  <2>1. FullResponse = <<"CHALLENGE_AUTH", prx.nonce>> BY <1>8 DEF FullResponse, X!Response
  <2>2. "CHALLENGE_AUTH" \in Values BY DEF Values
  <2> QED BY <1>1, <1>2, <1>4, <2>1, <2>2
<1>9. CASE prx.q = "wrongSlot"
  <2>1. FullResponse = <<"error">> BY <1>9 DEF FullResponse, X!Response
  <2> QED BY <1>1, <1>2, <2>1 DEF Values
<1> QED BY <1>3, <1>5, <1>6, <1>7, <1>8, <1>9 DEF RequestKinds

LEMMA Shapes ==
  ASSUME StreamInv, NEW d \in X!Does, NEW s \in 0 .. 2, NEW g \in Seq(Values), NEW p \in 0 .. 1,
         NEW r \in {"ack", "unexpected", "crc"}, NEW b \in BOOLEAN,
         prx' = [does |-> d, q |-> prx.q, nonce |-> prx.nonce, sent |-> s, got |-> g, parity |-> p, reply |-> r, done |-> b]
  PROVE prx' \in Receivers /\ prx'.does = d /\ prx'.sent = s /\ prx'.got = g /\ (prx'.done <=> b)
        /\ prx'.q = prx.q /\ prx'.nonce = prx.nonce
<1>2. prx.q \in RequestKinds /\ prx.nonce \in 0 .. 1 BY DEF StreamInv, StreamTypes, Receivers
<1>3. prx' \in Receivers BY <1>2 DEF Receivers
<1>4. prx'.does = d /\ prx'.sent = s /\ prx'.got = g /\ prx'.q = prx.q /\ prx'.nonce = prx.nonce OBVIOUS
<1>5. prx'.done <=> b OBVIOUS
<1> QED BY <1>3, <1>4, <1>5

LEMMA HearsOn ==
  ASSUME StreamInv, X!Hear, UNCHANGED wants
  PROVE StreamInv'
<1>1. fsk # X!None /\ fsk # X!Silent /\ fsk' = X!None /\ prx' = X!Hears BY DEF X!Hear
<1>2. ask = X!None BY <1>1 DEF StreamInv, Aired
<1>3. Unmoved /\ ask' = X!None /\ UNCHANGED <<need_atn_cnt, passed, renego>>
  BY <1>2 DEF Unmoved, X!Hear, X!incoming, X!outgoing, X!attention
<1>4. prx \in Receivers /\ need_atn_cnt \in BOOLEAN /\ passed \in BOOLEAN /\ renego \in {"no", "once", "hot"}
  BY DEF StreamInv, StreamTypes
<1>5. prx.q \in RequestKinds /\ prx.nonce \in 0 .. 1 /\ prx.sent \in 0 .. 2 /\ prx.got \in Seq(Values) /\ prx.parity \in 0 .. 1
      /\ prx.reply \in {"ack", "unexpected", "crc"} /\ prx.done \in BOOLEAN
  BY <1>4 DEF Receivers
<1> DEFINE Was(d, s, g, p, r, b) ==
             [does |-> d, q |-> prx.q, nonce |-> prx.nonce, sent |-> s, got |-> g, parity |-> p, reply |-> r, done |-> b]
<1>6. PICK len \in 1 .. 2 : len = Len(Asked) BY <1>4, Requested
<1>7. CASE fsk = X!Packet("sdsr", "ack") /\ prx.does = "opens" /\ Took(0)
  <2>1. prx' = Was("sends", 0, prx.got, prx.parity, prx.reply, prx.done)
    BY <1>1, <1>4, <1>7 DEF X!Hears, X!Packet, Receivers
  <2>2. prx' \in Receivers /\ prx'.does = "sends" /\ prx'.sent = 0 /\ prx'.got = prx.got /\ prx'.done = prx.done
        /\ prx'.q = prx.q /\ prx'.nonce = prx.nonce
    <3>1. PICK d \in X!Does : d = "sends" BY DEF X!Does
    <3>2. PICK s \in 0 .. 2 : s = 0 BY <1>5
    <3>3. prx' = Was(d, s, prx.got, prx.parity, prx.reply, prx.done) BY <2>1, <3>1, <3>2
    <3> QED BY <1>5, <3>1, <3>2, <3>3, Shapes
  <2>3. prx'.does = "sends" => prx'.sent < Len(Asked) /\ (Took(prx'.sent) \/ Took(prx'.sent + 1))
    <3>1. Took(prx'.sent) BY <1>7, <2>2
    <3>3. 0 < len OBVIOUS
    <3>2. prx'.sent < Len(Asked) BY <1>6, <2>2, <3>3
    <3> QED BY <3>1, <3>2
  <2>4. prx'.does # "closes" /\ prx'.does \notin After BY <2>2 DEF After
  <2>5. prx'.done => prx'.got = FullResponse BY <1>7, <2>2 DEF StreamInv, Receiver
  <2> QED BY <1>1, <1>3, <1>4, <2>2, <2>3, <2>4, <2>5, Moves
<1>8. CASE fsk = X!Packet("sdsr", "ack") /\ prx.does = "closes" /\ Knows /\ out_status = "standby"
  <2>1. prx' = Was("waits", 0, prx.got, prx.parity, prx.reply, prx.done)
    BY <1>1, <1>4, <1>8 DEF X!Hears, X!Packet, Receivers
  <2>2. prx' \in Receivers /\ prx'.does = "waits" /\ prx'.got = prx.got /\ prx'.done = prx.done
        /\ prx'.q = prx.q /\ prx'.nonce = prx.nonce
    <3>1. PICK d \in X!Does : d = "waits" BY DEF X!Does
    <3>2. PICK s \in 0 .. 2 : s = 0 BY <1>5
    <3>3. prx' = Was(d, s, prx.got, prx.parity, prx.reply, prx.done) BY <2>1, <3>1, <3>2
    <3> QED BY <1>5, <3>1, <3>2, <3>3, Shapes
  <2>3. Knows /\ Answered BY <1>8 DEF Answered
  <2>4. prx'.does # "closes" /\ prx'.does # "sends" BY <2>2
  <2>5. prx'.done => prx'.got = FullResponse BY <1>8, <2>2 DEF StreamInv, Receiver
  <2> QED BY <1>1, <1>3, <1>4, <2>2, <2>3, <2>4, <2>5, Moves
<1>9. CASE fsk = X!Word("ack") /\ prx.does = "sends" /\ Took(prx.sent + 1)
  <2>0. prx.sent < Len(Asked) BY <1>9 DEF StreamInv, Receiver
  <2>1. prx.sent + 1 \in 0 .. 2
    <3>1. prx.sent < len BY <1>6, <2>0
    <3> QED BY <1>5, <3>1
  <2>2. PICK d \in X!Does : d = IF prx.sent + 1 = Len(Asked) THEN "closes" ELSE "sends" BY DEF X!Does
  <2>3. prx' = Was(d, prx.sent + 1, prx.got, prx.parity, prx.reply, prx.done)
    BY <1>1, <1>4, <1>9, <2>2 DEF X!Hears, X!Word, Receivers, Asked
  <2>4. prx' \in Receivers /\ prx'.does = d /\ prx'.sent = prx.sent + 1 /\ prx'.got = prx.got /\ prx'.done = prx.done
        /\ prx'.q = prx.q /\ prx'.nonce = prx.nonce
    BY <1>5, <2>1, <2>2, <2>3, Shapes
  <2>5. prx'.does = "sends" => prx'.sent < Len(Asked) /\ (Took(prx'.sent) \/ Took(prx'.sent + 1))
    <3>1. prx.sent < len BY <1>6, <2>0
    <3>2. prx.sent + 1 = len \/ prx.sent + 1 < len BY <1>5, <3>1
    <3>3. Took(prx'.sent) BY <1>9, <2>4
    <3> QED BY <1>6, <2>2, <2>4, <3>2, <3>3
  <2>6. prx'.does = "closes" => Took(Len(Asked)) BY <1>9, <2>2, <2>4
  <2>7. prx'.does \notin After BY <2>2, <2>4 DEF After
  <2>8. prx'.done => prx'.got = FullResponse BY <1>9, <2>4 DEF StreamInv, Receiver
  <2> QED BY <1>1, <1>3, <1>4, <2>4, <2>5, <2>6, <2>7, <2>8, Moves
<1>10. CASE fsk = X!Word("nd") /\ prx.does = "sends"
  <2>1. prx' = Was("opens", prx.sent, prx.got, prx.parity, prx.reply, prx.done)
    BY <1>1, <1>4, <1>10 DEF X!Hears, X!Word, Receivers
  <2>2. prx' \in Receivers /\ prx'.does = "opens" /\ prx'.got = prx.got /\ prx'.done = prx.done
        /\ prx'.q = prx.q /\ prx'.nonce = prx.nonce
    <3>1. PICK d \in X!Does : d = "opens" BY DEF X!Does
    <3>2. PICK s \in 0 .. 2 : s = prx.sent BY <1>5
    <3>3. prx' = Was(d, s, prx.got, prx.parity, prx.reply, prx.done) BY <2>1, <3>1, <3>2
    <3> QED BY <1>5, <3>1, <3>2, <3>3, Shapes
  <2>4. prx'.does # "closes" /\ prx'.does # "sends" /\ prx'.does \notin After BY <2>2 DEF After
  <2>5. prx'.done => prx'.got = FullResponse BY <1>10, <2>2 DEF StreamInv, Receiver
  <2> QED BY <1>1, <1>3, <1>4, <2>2, <2>4, <2>5, Moves
<1>11. CASE prx.does \in {"polls", "replies", "unanswered"} /\ IsAnswer(fsk)
  <2>1. prx.does \in After /\ prx.does # "rests" BY <1>11 DEF After
  <2>2. Knows /\ Answered /\ (prx.done => prx.got = FullResponse) BY <2>1 DEF StreamInv, Receiver
  <2>3. ASSUME NEW d \in {"rests", "waits", "replies"}, NEW g \in Seq(Values), NEW p \in 0 .. 1,
               NEW r \in {"ack", "unexpected", "crc"}, NEW b \in BOOLEAN,
               prx' = Was(d, prx.sent, g, p, r, b), b => g = FullResponse
        PROVE StreamInv'
    <3>2. d \in X!Does /\ d \notin {"sends", "closes"} BY DEF X!Does
    <3>3. prx' \in Receivers /\ prx'.does = d /\ prx'.got = g /\ (prx'.done <=> b)
          /\ prx'.q = prx.q /\ prx'.nonce = prx.nonce
      BY <1>5, <2>3, <3>2, Shapes
    <3>4. prx'.does # "closes" /\ prx'.does # "sends" BY <3>2, <3>3
    <3>5. prx'.done => prx'.got = FullResponse BY <2>3, <3>3
    <3> QED BY <1>1, <1>3, <1>4, <2>2, <3>3, <3>4, <3>5, Moves
  <2>9. PICK d \in {"rests", "waits", "replies"}, ack \in {"ack", "unexpected", "crc"}, no \in {"ack", "unexpected", "crc"},
             crc \in {"ack", "unexpected", "crc"}, t \in BOOLEAN, f \in BOOLEAN :
          d = "replies" /\ ack = "ack" /\ no = "unexpected" /\ crc = "crc" /\ t = TRUE /\ f = FALSE
    OBVIOUS
  <2>4. CASE fsk = X!Word("null")
    <3>1. PICK e \in {"rests", "waits", "replies"} : e = IF prx.done THEN "rests" ELSE "waits" OBVIOUS
    <3>2. prx' = Was(e, prx.sent, prx.got, prx.parity, prx.reply, prx.done)
      BY <1>1, <1>4, <2>4, <3>1 DEF X!Hears, X!Word, Receivers
    <3> QED BY <1>5, <2>2, <2>3, <3>1, <3>2
  <2>5. CASE fsk = X!Word("ecap")
    <3>1. PICK e \in {"rests", "waits", "replies"} : e = "waits" OBVIOUS
    <3>2. prx' = Was(e, prx.sent, prx.got, prx.parity, prx.reply, prx.done)
      BY <1>1, <1>4, <2>5, <3>1 DEF X!Hears, X!Word, Receivers
    <3> QED BY <1>5, <2>2, <2>3, <3>2
  <2>6. CASE fsk = X!Packet("close", FullResponse)
    <3>1. CASE FullResponse = prx.got
      <4>1. prx' = Was(d, prx.sent, prx.got, prx.parity, ack, t)
        BY <1>1, <1>4, <2>6, <2>9, <3>1 DEF X!Hears, X!Packet, X!Replies, Receivers
      <4> QED BY <1>5, <2>3, <2>9, <3>1, <4>1
    <3>2. CASE FullResponse # prx.got
      <4>1. prx' = Was(d, prx.sent, prx.got, prx.parity, crc, f)
        BY <1>1, <1>4, <2>6, <2>9, <3>2 DEF X!Hears, X!Packet, X!Replies, Receivers
      <4> QED BY <1>5, <2>3, <2>9, <4>1
    <3> QED BY <3>1, <3>2
  <2>7. CASE IsData(fsk)
    <3>1. PICK q \in 0 .. 1, x \in Values : fsk = X!Data("data", q, x) BY <2>7 DEF IsData
    <3>2. CASE q # prx.parity
      <4>1. prx' = Was(d, prx.sent, prx.got, prx.parity, no, f)
        BY <1>1, <1>4, <2>9, <3>1, <3>2 DEF X!Hears, X!Data, X!Replies, Receivers
      <4> QED BY <1>5, <2>3, <2>9, <4>1
    <3>3. CASE q = prx.parity
      <4>2. PICK g \in Seq(Values) : g = Append(prx.got, x) BY <1>5, <3>1, Adds
      <4>3. PICK p \in 0 .. 1 : p = 1 - prx.parity BY <1>5
      <4>1. prx' = Was(d, prx.sent, g, p, ack, f)
        BY <1>1, <1>4, <2>9, <3>1, <3>3, <4>2, <4>3 DEF X!Hears, X!Data, X!Replies, Receivers
      <4> QED BY <2>3, <2>9, <4>1, <4>2, <4>3
    <3> QED BY <3>2, <3>3
  <2>8. CASE \E n \in 0 .. 3 : fsk = X!Packet("open", n)
    <3>1. PICK g \in Seq(Values) : g = <<>> BY Nothing
    <3>2. PICK p \in 0 .. 1 : p = 0 OBVIOUS
    <3>3. PICK n \in 0 .. 3 : fsk = X!Packet("open", n) BY <2>8
    <3>4. fsk.type = "open" BY <3>3 DEF X!Packet
    <3>5. prx' = [X!Replies("ack") EXCEPT !.got = <<>>, !.parity = 0] BY <1>1, <3>4 DEF X!Hears
    <3>6. prx' = Was(d, prx.sent, g, p, ack, f)
      BY <1>4, <2>9, <3>1, <3>2, <3>5 DEF X!Replies, Receivers
    <3> QED BY <2>3, <2>9, <3>1, <3>2, <3>6
  <2> QED BY <1>11, <2>4, <2>5, <2>6, <2>7, <2>8 DEF IsAnswer
<1> QED BY <1>1, <1>7, <1>8, <1>9, <1>10, <1>11 DEF StreamInv, Hearing

-----------------------------------------------------------------------------
\* What the transmitter knows is what the receiver asked for: its response is whole.
LEMMA Contents ==
  ASSUME StreamInv, Knows, ~auth_timer
  PROVE X!Content = FullResponse /\ Len(X!Response(X!Verdict, 0)) = Len(FullResponse)
<1>1. prx.q \in RequestKinds BY DEF StreamInv, StreamTypes, Receivers
<1>2. CASE prx.q \in {"digests", "noSlots", "certificate"}
  <2>1. auth_request_type = prx.q /\ auth_request_type \in X!Answers BY <1>2 DEF Knows, X!Answers
  <2>2. X!Content = X!Response(prx.q, array_chall) /\ X!Verdict = prx.q BY <2>1 DEF X!Content, X!Verdict
  <2>3. X!Response(prx.q, array_chall) = X!Response(prx.q, prx.nonce) BY <1>2 DEF X!Response
  <2>4. X!Response(prx.q, 0) = X!Response(prx.q, prx.nonce) BY <1>2 DEF X!Response
  <2> QED BY <2>2, <2>3, <2>4 DEF FullResponse
<1>3. CASE prx.q = "challenge"
  <2>1. auth_request_type = prx.q /\ auth_request_type \in X!Answers /\ array_chall = prx.nonce
    BY <1>3 DEF Knows, X!Answers
  <2>2. X!Content = FullResponse /\ X!Verdict = prx.q BY <2>1 DEF X!Content, X!Verdict, FullResponse
  <2>3. X!Response(prx.q, 0) = <<"CHALLENGE_AUTH", 0>> /\ FullResponse = <<"CHALLENGE_AUTH", prx.nonce>>
    BY <1>3 DEF X!Response, FullResponse
  <2> QED BY <2>2, <2>3
<1>4. CASE prx.q = "wrongSlot"
  <2>1. auth_request_type \notin X!Answers BY <1>4 DEF Knows, X!Answers
  <2>2. X!Content = <<"error">> /\ X!Verdict = "error" BY <2>1 DEF X!Content, X!Verdict
  <2>3. X!Response("error", 0) = <<"error">> /\ FullResponse = <<"error">> BY <1>4 DEF X!Response, FullResponse
  <2> QED BY <2>2, <2>3
<1> QED BY <1>1, <1>2, <1>3, <1>4 DEF RequestKinds

LEMMA HandlesOpen ==
  ASSUME StreamInv, X!Handle, UNCHANGED wants, ask = X!Word("open"), prx.does = "opens"
  PROVE StreamInv'
<1>1. ask.type = "open" BY DEF X!Word
<1>2. X!sadc_open /\ UNCHANGED prx /\ ask' = X!None /\ passed' \in BOOLEAN BY <1>1 DEF X!Handle
<1>3. StreamTypes' BY <1>2 DEF StreamInv, StreamTypes, X!sadc_open, X!outgoing, X!attention
<1>4. FullResponse' = FullResponse BY <1>2, Same
<1>5. Receiver' BY <1>2, <1>4 DEF StreamInv, Receiver, After
<1>6. Aired' BY <1>2 DEF Aired
<1>7. Took(0)' BY <1>2 DEF Took, X!sadc_open
<1>8. Hearing' BY <1>2, <1>7 DEF Hearing, X!sadc_open
<1> QED BY <1>3, <1>5, <1>6, <1>8 DEF StreamInv

LEMMA HandlesData ==
  ASSUME StreamInv, X!Handle, UNCHANGED wants, prx.does = "sends",
         ask = X!Data("data", prx.sent % 2, Asked[prx.sent + 1])
  PROVE StreamInv'
<1>1. ask.type = "data" /\ ask.parity = prx.sent % 2 /\ ask.data = Asked[prx.sent + 1] BY DEF X!Data
<1>2. X!ds_mpp_prx_sadt_pkt_process(prx.sent % 2, Asked[prx.sent + 1]) /\ UNCHANGED prx /\ ask' = X!None /\ passed' \in BOOLEAN
  BY <1>1 DEF X!Handle
<1>3. UNCHANGED <<out_status, out_parity, have_send, last_send, need_send, send_crc, send_cpy,
                  need_atn_cnt, need_atn_evt, auth_timer, array_chall, renego>>
  BY <1>2 DEF X!ds_mpp_prx_sadt_pkt_process, X!outgoing, X!attention
<1>4. prx \in Receivers BY DEF StreamInv, StreamTypes
<1>5. PICK len \in 1 .. 2 : len = Len(Asked) BY <1>4, Requested
<1>6. prx.sent < len /\ (Took(prx.sent) \/ Took(prx.sent + 1)) /\ (prx.done => prx.got = FullResponse)
  BY <1>5 DEF StreamInv, Receiver
<1>7. prx.sent = 0 \/ prx.sent = 1 BY <1>4, <1>6 DEF Receivers
<1>8. Asked' = Asked /\ FullResponse' = FullResponse BY <1>2, Same
<1>9. Aired' BY <1>2 DEF Aired
<1>10. CASE in_status = "standby"
  <2>1. UNCHANGED <<in_status, in_parity, recv_buf, have_recv, recv_crc, auth_request_type>> /\ fsk' = X!Word("nd")
    BY <1>2, <1>10 DEF X!ds_mpp_prx_sadt_pkt_process, X!incoming
  <2>2. StreamTypes' BY <1>2, <1>3, <2>1 DEF StreamInv, StreamTypes
  <2>3. Receiver' BY <1>2, <1>3, <2>1, SameReceiver DEF StreamInv
  <2>4. Hearing' BY <1>2, <2>1 DEF Hearing
  <2> QED BY <1>9, <2>2, <2>3, <2>4 DEF StreamInv
<1>11. CASE in_status # "standby"
  <2>1. fsk' = X!Word("ack") /\ in_status' = "sending"
        /\ auth_request_type' = (IF in_status = "opening" THEN Asked[prx.sent + 1] ELSE auth_request_type)
        /\ (IF prx.sent % 2 = in_parity THEN X!Taken(prx.sent % 2, Asked[prx.sent + 1])
            ELSE UNCHANGED <<recv_crc, in_parity, recv_buf, have_recv>>)
    BY <1>2, <1>11 DEF X!ds_mpp_prx_sadt_pkt_process
  <2>2. Took(prx.sent + 1)' /\ in_parity' \in 0 .. 1 /\ have_recv' \in 0 .. 2
    <3>1. CASE prx.sent = 0 /\ Took(0)
      <4>1. in_status = "opening" /\ in_parity = 0 /\ have_recv = 0 /\ recv_crc = <<>> BY <1>11, <3>1 DEF Took
      <4>2. Asked[prx.sent + 1] = prx.q BY <3>1 DEF Asked, X!Pieces
      <4>3. X!Taken(0, prx.q) /\ auth_request_type' = prx.q BY <2>1, <3>1, <4>1, <4>2
      <4>4. recv_crc' = <<prx.q>> /\ in_parity' = 1 /\ have_recv' = 1 BY <4>1, <4>3 DEF X!Taken
      <4> QED BY <1>2, <2>1, <3>1, <4>3, <4>4 DEF Took
    <3>2. CASE prx.sent = 1 /\ Took(1)
      <4>1. in_status = "sending" /\ in_parity = 1 /\ have_recv = 1 /\ recv_crc = <<prx.q>> /\ auth_request_type = prx.q
        BY <1>11, <3>2 DEF Took
      <4>2. Asked[prx.sent + 1] = prx.nonce
        <5>1. len = 2 BY <1>6, <3>2
        <5> QED BY <1>5, <3>2, <5>1 DEF Asked, X!Pieces
      <4>3. X!Taken(1, prx.nonce) /\ auth_request_type' = prx.q BY <2>1, <3>2, <4>1, <4>2
      <4>4. recv_crc' = Append(<<prx.q>>, prx.nonce) /\ in_parity' = 0 /\ have_recv' = 2
        BY <4>1, <4>3 DEF X!Taken
      <4>5. Append(<<prx.q>>, prx.nonce) = <<prx.q, prx.nonce>>
        <5>1. PICK S : S = {prx.q, prx.nonce} OBVIOUS
        <5>2. prx.q \in S /\ prx.nonce \in S BY <5>1
        <5> QED BY <5>2, Pairs
      <4>6. recv_buf' = [h \in 1 .. 2 |-> IF h = 2 THEN prx.nonce ELSE recv_buf[h]] BY <4>1, <4>3 DEF X!Taken
      <4>7. recv_buf'[2] = prx.nonce BY <4>6
      <4> QED BY <1>2, <2>1, <3>2, <4>3, <4>4, <4>5, <4>7 DEF Took
    <3>3. CASE Took(prx.sent + 1)
      <4>1. in_status = "sending" /\ in_parity # prx.sent % 2 BY <1>7, <1>11, <3>3 DEF Took
      <4>2. UNCHANGED <<in_status, in_parity, recv_buf, have_recv, recv_crc, auth_request_type>> BY <2>1, <4>1
      <4>3. Took(prx.sent + 1)' BY <1>2, <3>3, <4>2 DEF Took
      <4> QED BY <4>2, <4>3 DEF StreamInv, StreamTypes
    <3> QED BY <1>6, <1>7, <3>1, <3>2, <3>3
  <2>3. StreamTypes' BY <1>2, <1>3, <2>1, <2>2 DEF StreamInv, StreamTypes
  <2>4. Receiver' BY <1>2, <1>5, <1>6, <1>8, <2>2 DEF Receiver, After
  <2>5. Hearing' BY <1>2, <2>1, <2>2 DEF Hearing
  <2> QED BY <1>9, <2>3, <2>4, <2>5 DEF StreamInv
<1> QED BY <1>10, <1>11

LEMMA HandlesClose ==
  ASSUME StreamInv, X!Handle, UNCHANGED wants, ask = X!Packet("close", Asked), prx.does = "closes"
  PROVE StreamInv'
<1>1. ask.type = "close" /\ ask.data = Asked BY DEF X!Packet
<1>2. X!sadc_close(Asked) /\ UNCHANGED prx /\ ask' = X!None /\ passed' \in BOOLEAN BY <1>1 DEF X!Handle
<1>4. prx \in Receivers BY DEF StreamInv, StreamTypes
<1>5. PICK len \in 1 .. 2 : len = Len(Asked) BY <1>4, Requested
<1>6. Took(len) /\ (prx.done => prx.got = FullResponse) BY <1>5 DEF StreamInv, Receiver
<1>7. recv_crc = Asked
  <2>1. Asked = <<prx.q>> \/ Asked = <<prx.q, prx.nonce>> BY <1>4, Requested
  <2> QED BY <1>5, <1>6, <2>1 DEF Took
<1>8. in_status' = "standby" /\ fsk' = X!Packet("sdsr", "ack") /\ out_status' = "standby"
      /\ auth_timer' = (auth_timer \/ auth_request_type = "challenge") /\ need_atn_cnt' \in BOOLEAN /\ need_atn_evt' \in BOOLEAN
  BY <1>2, <1>7 DEF X!sadc_close
<1>9. UNCHANGED <<in_parity, recv_buf, have_recv, recv_crc, auth_request_type, out_parity, have_send,
                    last_send, need_send, send_crc, send_cpy, array_chall, renego>>
  BY <1>2 DEF X!sadc_close
<1>10. Asked' = Asked /\ FullResponse' = FullResponse BY <1>2, Same
<1>11. Took(len)' BY <1>2, <1>6, <1>8, <1>9 DEF Took
<1>12. auth_request_type = prx.q
  <2>1. len = 1 \/ len = 2 OBVIOUS
  <2>2. Took(1) => auth_request_type = prx.q BY DEF Took
  <2>3. Took(2) => auth_request_type = prx.q BY DEF Took
  <2> QED BY <1>6, <2>1, <2>2, <2>3
<1>13. Knows'
  <2>1. prx.q = "challenge" => len = 2 BY <1>5 DEF Asked, X!Pieces
  <2>2. prx.q = "challenge" => recv_buf[2] = prx.nonce BY <1>6, <2>1 DEF Took
  <2> QED BY <1>2, <1>8, <1>9, <1>12, <2>2 DEF Knows
<1>14. StreamTypes' BY <1>2, <1>8, <1>9 DEF StreamInv, StreamTypes
<1>15. Receiver' BY <1>2, <1>5, <1>6, <1>10, <1>11 DEF Receiver, After
<1>16. Hearing' BY <1>2, <1>8, <1>13 DEF Hearing
<1>17. Aired' BY <1>2 DEF Aired
<1> QED BY <1>14, <1>15, <1>16, <1>17 DEF StreamInv

\* A word of the receiver's leaves the stream it did not send as it is.
LEMMA Replied ==
  ASSUME StreamInv, UNCHANGED wants, prx.does \in {"polls", "replies", "unanswered"}, ~auth_timer,
         UNCHANGED <<in_status, in_parity, recv_buf, have_recv, recv_crc, auth_timer, prx>>, ask' = X!None,
         passed' \in BOOLEAN, need_atn_cnt' \in BOOLEAN, need_atn_evt' \in BOOLEAN, renego' \in {"no", "once", "hot"},
         out_status' \in {"standby", "opening", "sending", "closing"}, out_parity' \in 0 .. 1,
         have_send' \in 0 .. 3, need_send' \in 0 .. 3, last_send' \in 0 .. 1,
         prx.q \in X!Answers => auth_request_type' = auth_request_type /\ array_chall' = array_chall,
         prx.q \notin X!Answers => auth_request_type' \notin X!Answers,
         Answered', fsk' = X!Silent \/ IsAnswer(fsk')
  PROVE StreamInv'
<1>1. prx.does \in After /\ prx.does # "rests" BY DEF After
<1>2. Knows /\ (prx.done => prx.got = FullResponse) BY <1>1 DEF StreamInv, Receiver
<1>3. FullResponse' = FullResponse BY Same
<1>4. Knows' BY <1>2 DEF Knows, X!Answers
<1>5. StreamTypes' BY DEF StreamInv, StreamTypes
<1>6. Receiver' BY <1>2, <1>3, <1>4 DEF Receiver
<1>7. Aired' BY DEF Aired
<1>8. IsAnswer(fsk') => IsAnswer(fsk)' BY <1>3 DEF IsAnswer
<1>9. Hearing' BY <1>8 DEF Hearing
<1> QED BY <1>5, <1>6, <1>7, <1>9 DEF StreamInv

LEMMA Resends ==
  ASSUME StreamInv, Answered, out_status \in {"opening", "sending", "closing"}
  PROVE IsAnswer(send_cpy)
<1>1. CASE out_status = "opening" BY <1>1 DEF StreamInv, StreamTypes, Answered, IsAnswer
<1>2. CASE out_status = "sending" BY <1>2 DEF Answered, IsAnswer
<1>3. CASE out_status = "closing" BY <1>3 DEF Answered, IsAnswer
<1> QED BY <1>1, <1>2, <1>3

LEMMA HandlesPoll ==
  ASSUME StreamInv, X!Handle, UNCHANGED wants, ask = X!Word("poll"), prx.does \in {"polls", "unanswered"}
  PROVE StreamInv'
<1>1. ask.type = "poll" BY DEF X!Word
<1>2. X!mpp_dsr_poll_handler /\ UNCHANGED prx /\ ask' = X!None /\ passed' \in BOOLEAN /\ ~auth_timer BY <1>1 DEF X!Handle
<1>3. prx.does \in {"polls", "replies", "unanswered"} /\ prx.does \in After BY DEF After
<1>4. Knows /\ Answered BY <1>3 DEF StreamInv, Receiver
<1>5. UNCHANGED <<in_status, in_parity, recv_buf, have_recv, recv_crc, auth_timer, need_atn_evt>> /\ need_atn_cnt' = FALSE
  BY <1>2 DEF X!mpp_dsr_poll_handler, X!incoming
<1>6. out_parity \in 0 .. 1 /\ have_send \in 0 .. 3 /\ need_send \in 0 .. 3 /\ last_send \in 0 .. 1
      /\ need_atn_evt \in BOOLEAN /\ renego \in {"no", "once", "hot"}
      /\ out_status \in {"standby", "opening", "sending", "closing"} /\ prx \in Receivers
  BY DEF StreamInv, StreamTypes
<1>7. renego' \in {"no", "once", "hot"} BY <1>2, <1>6 DEF X!mpp_dsr_poll_handler
<1>8. prx.q \notin X!Answers => auth_request_type \notin X!Answers BY <1>4 DEF Knows
<1>9. ASSUME NEW packet, X!Says(packet), UNCHANGED out_status, packet = X!Silent \/ IsAnswer(packet)
      PROVE StreamInv'
  <2>1. UNCHANGED <<out_parity, have_send, last_send, need_send, send_crc, send_cpy, auth_request_type, array_chall>>
        /\ fsk' = packet
    BY <1>9 DEF X!Says
  <2>2. Answered' BY <1>2, <1>4, <1>9, <2>1, SameAnswered
  <2> QED BY <1>2, <1>3, <1>5, <1>6, <1>7, <1>8, <1>9, <2>1, <2>2, Replied
<1>10. CASE X!Says(X!Word("ecap")) /\ UNCHANGED out_status
  <2>1. IsAnswer(X!Word("ecap")) BY DEF IsAnswer
  <2> QED BY <1>9, <1>10, <2>1
<1>11. CASE X!Says(X!Silent) /\ UNCHANGED out_status
  BY <1>9, <1>11
<1>12. CASE out_status \notin {"standby", "opening"} /\ X!ds_resend_ptx_fsk_data
  <2>1. X!Says(send_cpy) /\ UNCHANGED out_status BY <1>12 DEF X!ds_resend_ptx_fsk_data
  <2>2. IsAnswer(send_cpy) BY <1>4, <1>6, <1>12, Resends
  <2> QED BY <1>9, <2>1, <2>2
<1>13. CASE out_status' = "opening" /\ X!ds_mpp_ptx_sadc_open
  <2>1. need_send' = Len(FullResponse) BY <1>2, <1>4, <1>13, Contents DEF X!ds_mpp_ptx_sadc_open
  <2>2. Len(FullResponse) \in 1 .. 3 BY <1>6, Requested
  <2>3. have_send' = 0 /\ last_send' = 0 /\ out_parity' = 1 /\ send_cpy' = X!Packet("open", need_send')
        /\ fsk' = X!Packet("open", need_send') /\ auth_request_type' = X!Verdict
        /\ array_chall' = (IF X!Verdict = "error" THEN "error" ELSE array_chall)
    BY <1>13 DEF X!ds_mpp_ptx_sadc_open
  <2>4. FullResponse' = FullResponse BY <1>2, Same
  <2>5. Answered' BY <1>13, <2>1, <2>3, <2>4 DEF Answered
  <2>6. need_send' \in 0 .. 3 BY <2>1, <2>2
  <2>7. IsAnswer(fsk') BY <2>3, <2>6 DEF IsAnswer
  <2>8. ASSUME prx.q \in X!Answers PROVE auth_request_type' = auth_request_type /\ array_chall' = array_chall
    <3>1. X!Verdict = auth_request_type /\ X!Verdict # "error" BY <1>4, <2>8 DEF Knows, X!Verdict, X!Answers
    <3> QED BY <2>3, <3>1
  <2>9. ASSUME prx.q \notin X!Answers PROVE auth_request_type' \notin X!Answers
    BY <1>8, <2>3, <2>9 DEF X!Verdict, X!Answers
  <2>10. out_status' \in {"standby", "opening", "sending", "closing"} BY <1>13
  <2>11. out_parity' \in 0 .. 1 /\ have_send' \in 0 .. 3 /\ last_send' \in 0 .. 1 BY <2>3
  <2>12. need_atn_cnt' \in BOOLEAN BY <1>5
  <2>13. need_atn_evt' \in BOOLEAN BY <1>5, <1>6
  <2> QED BY <1>2, <1>3, <1>5, <1>7, <2>5, <2>6, <2>7, <2>8, <2>9, <2>10, <2>11, <2>12, <2>13, Replied
<1> QED BY <1>2, <1>10, <1>11, <1>12, <1>13 DEF X!mpp_dsr_poll_handler

LEMMA HandlesReply ==
  ASSUME StreamInv, X!Handle, UNCHANGED wants, ask = X!Packet("sdsr", prx.reply), prx.does \in {"replies", "unanswered"}
  PROVE StreamInv'
<1>1. ask.type = "sdsr" /\ ask.data = prx.reply BY DEF X!Packet
<1>2. X!ds_mpp_prx_sdsr_pkt_handler(prx.reply) /\ UNCHANGED prx /\ ask' = X!None /\ passed' \in BOOLEAN /\ ~auth_timer
  BY <1>1 DEF X!Handle
<1>3. prx.does \in {"polls", "replies", "unanswered"} /\ prx.does \in After BY DEF After
<1>4. Knows /\ Answered BY <1>3 DEF StreamInv, Receiver
<1>5. UNCHANGED <<in_status, in_parity, recv_buf, have_recv, recv_crc, auth_timer, renego>>
  BY <1>2 DEF X!ds_mpp_prx_sdsr_pkt_handler, X!incoming
<1>6. out_parity \in 0 .. 1 /\ have_send \in 0 .. 3 /\ need_send \in 0 .. 3 /\ last_send \in 0 .. 1
      /\ need_atn_evt \in BOOLEAN /\ need_atn_cnt \in BOOLEAN /\ renego \in {"no", "once", "hot"}
      /\ out_status \in {"standby", "opening", "sending", "closing"} /\ prx \in Receivers
  BY DEF StreamInv, StreamTypes
<1>7. need_atn_cnt' \in BOOLEAN BY <1>2, <1>6 DEF X!ds_mpp_prx_sdsr_pkt_handler
<1>8. need_atn_evt' \in BOOLEAN BY <1>2, <1>6 DEF X!ds_mpp_prx_sdsr_pkt_handler
<1>9. prx.q \notin X!Answers => auth_request_type \notin X!Answers BY <1>4 DEF Knows
<1>10. FullResponse' = FullResponse BY <1>2, Same
<1>11. Len(FullResponse) \in 1 .. 3 /\ FullResponse \in Seq(Values) BY <1>6, Requested
<1>12. X!Content = FullResponse BY <1>2, <1>4, Contents
<1>13. ASSUME NEW packet, X!Says(packet), out_status' = out_status \/ out_status' = "standby",
              packet = X!Silent \/ IsAnswer(packet)
       PROVE StreamInv'
  <2>1. UNCHANGED <<out_parity, have_send, last_send, need_send, send_crc, send_cpy, auth_request_type, array_chall>>
        /\ fsk' = packet
    BY <1>13 DEF X!Says
  <2>2. Answered' BY <1>4, <1>10, <1>13, <2>1 DEF Answered
  <2>3. out_status' \in {"standby", "opening", "sending", "closing"} BY <1>6, <1>13
  <2> QED BY <1>2, <1>3, <1>5, <1>6, <1>7, <1>8, <1>9, <1>13, <2>1, <2>2, <2>3, Replied
<1>14. ASSUME NEW have \in 0 .. 2, have < Len(FullResponse), need_send = Len(FullResponse), X!ds_mpp_ptx_sadt_xfer(have),
              out_status' = "sending",
              have > 0 => send_crc \in Seq(Values) /\ Len(send_crc) = have /\ \A k \in 1 .. have : send_crc[k] = FullResponse[k]
       PROVE StreamInv'
  <2>1. PICK piece \in Values : piece = X!Content[have + 1]
    <3>1. have + 1 \in 1 .. Len(FullResponse) BY <1>11, <1>14
    <3>2. PICK w \in Seq(Values) : w = FullResponse BY <1>11
    <3>3. w[have + 1] \in Values BY <3>1, <3>2
    <3> QED BY <1>12, <3>2, <3>3
  <2>2. out_parity' = 1 - out_parity /\ have_send' = have /\ last_send' = 1
        /\ fsk' = X!Data("data", out_parity', piece) /\ send_cpy' = fsk'
        /\ send_crc' = Append(IF have = 0 THEN <<>> ELSE send_crc, piece)
        /\ UNCHANGED <<need_send, auth_request_type, array_chall>>
    BY <1>14, <2>1 DEF X!ds_mpp_ptx_sadt_xfer
  <2>3. PICK sent \in Seq(Values) : sent = (IF have = 0 THEN <<>> ELSE send_crc)
    <3>1. (IF have = 0 THEN <<>> ELSE send_crc) \in Seq(Values)
      <4>1. <<>> \in Seq(Values) BY Nothing
      <4>2. have = 0 \/ have > 0 OBVIOUS
      <4> QED BY <1>14, <4>1, <4>2
    <3> QED BY <3>1
  <2>4. Len(sent) = have /\ \A k \in 1 .. have : sent[k] = FullResponse[k] BY <1>14, <2>3
  <2>5. send_crc' = Append(sent, piece) BY <2>2, <2>3
  <2>6. send_crc' \in Seq(Values) /\ Len(send_crc') = have + 1 BY <2>4, <2>5, Adds
  <2>7. \A k \in 1 .. have + 1 : send_crc'[k] = FullResponse[k]
    <3>1. \A k \in 1 .. Len(sent) + 1 : Append(sent, piece)[k] = IF k = Len(sent) + 1 THEN piece ELSE sent[k] BY Adds
    <3>2. piece = FullResponse[have + 1] BY <1>12, <2>1
    <3>3. ASSUME NEW k \in 1 .. have + 1 PROVE send_crc'[k] = FullResponse[k]
      <4>1. send_crc'[k] = IF k = have + 1 THEN piece ELSE sent[k] BY <2>4, <2>5, <3>1
      <4>2. CASE k = have + 1 BY <3>2, <4>1, <4>2
      <4>3. CASE k # have + 1
        <5>1. k \in 1 .. have BY <4>3
        <5> QED BY <2>4, <4>1, <4>3, <5>1
      <4> QED BY <4>2, <4>3
    <3> QED BY <3>3
  <2>8. out_parity' \in 0 .. 1 BY <1>6, <2>2
  <2>9. IsData(send_cpy') BY <2>2, <2>8 DEF IsData
  <2>10. have_send' = have /\ need_send' = need_send BY <2>2
  <2>11. Answered'
    <3>1. IsData(send_cpy)' BY <2>9 DEF IsData
    <3> QED BY <1>10, <1>14, <2>2, <2>6, <2>7, <3>1 DEF Answered
  <2>12. IsAnswer(fsk') BY <2>2, <2>9 DEF IsAnswer
  <2>13. have_send' \in 0 .. 3 /\ need_send' \in 0 .. 3 /\ last_send' \in 0 .. 1 BY <1>6, <2>2
  <2>14. out_status' \in {"standby", "opening", "sending", "closing"} BY <1>14
  <2> QED BY <1>2, <1>3, <1>5, <1>6, <1>7, <1>8, <1>9, <2>2, <2>8, <2>11, <2>12, <2>13, <2>14, Replied
<1>15. CASE out_status = "opening" /\ out_status' = "sending" /\ X!ds_mpp_ptx_sadt_xfer(0)
  <2>1. need_send = Len(FullResponse) BY <1>4, <1>15 DEF Answered
  <2> QED BY <1>11, <1>14, <1>15, <2>1
<1>16. CASE out_status = "sending" /\ have_send + last_send >= need_send /\ out_status' = "closing" /\ X!ds_mpp_ptx_sadc_close
  <2>1. need_send = Len(FullResponse) /\ last_send = 1 /\ have_send < need_send /\ send_crc \in Seq(Values)
        /\ Len(send_crc) = have_send + 1 /\ \A k \in 1 .. have_send + 1 : send_crc[k] = FullResponse[k]
    BY <1>4, <1>16 DEF Answered
  <2>2. have_send + 1 = need_send BY <1>6, <1>16, <2>1
  <2>3. Len(send_crc) = Len(FullResponse) /\ \A k \in 1 .. Len(send_crc) : send_crc[k] = FullResponse[k] BY <2>1, <2>2
  <2>4. send_crc = FullResponse BY <1>11, <2>1, <2>3, Equals
  <2>5. have_send' = need_send /\ fsk' = X!Packet("close", FullResponse) /\ send_cpy' = fsk'
        /\ UNCHANGED <<out_parity, last_send, need_send, send_crc, auth_request_type, array_chall>>
    BY <1>16, <2>1, <2>2, <2>4 DEF X!ds_mpp_ptx_sadc_close
  <2>6. Answered' BY <1>10, <1>16, <2>5 DEF Answered
  <2>7. IsAnswer(fsk') BY <2>5 DEF IsAnswer
  <2>8. have_send' \in 0 .. 3 /\ need_send' \in 0 .. 3 /\ last_send' \in 0 .. 1 /\ out_parity' \in 0 .. 1 BY <1>6, <2>5
  <2>9. out_status' \in {"standby", "opening", "sending", "closing"} BY <1>16
  <2> QED BY <1>2, <1>3, <1>5, <1>6, <1>7, <1>8, <1>9, <2>5, <2>6, <2>7, <2>8, <2>9, Replied
<1>17. CASE out_status = "sending" /\ ~(have_send + last_send >= need_send) /\ UNCHANGED out_status
            /\ X!ds_mpp_ptx_sadt_xfer(have_send + last_send)
  <2>1. need_send = Len(FullResponse) /\ last_send = 1 /\ have_send < need_send /\ send_crc \in Seq(Values)
        /\ Len(send_crc) = have_send + 1 /\ \A k \in 1 .. have_send + 1 : send_crc[k] = FullResponse[k]
    BY <1>4, <1>17 DEF Answered
  <2>2. PICK have \in 0 .. 2 : have = have_send + 1
    <3>1. ~(have_send + 1 >= need_send) BY <1>17, <2>1
    <3>2. have_send + 1 \in 0 .. 2 BY <1>6, <3>1
    <3> QED BY <3>2
  <2>3. have < Len(FullResponse) BY <1>6, <1>17, <2>1, <2>2
  <2>4. X!ds_mpp_ptx_sadt_xfer(have) BY <1>17, <2>1, <2>2
  <2> QED BY <1>14, <1>17, <2>1, <2>2, <2>3, <2>4
<1>18. CASE out_status = "closing" /\ out_status' = "standby" /\ X!Says(X!Word("null"))
  <2>1. IsAnswer(X!Word("null")) BY DEF IsAnswer
  <2> QED BY <1>13, <1>18, <2>1
<1>19. CASE out_status = "closing" /\ out_status' = "standby" /\ X!Says(X!Silent)
  BY <1>13, <1>19
<1>20. CASE out_status \in {"opening", "sending", "closing"} /\ X!ds_resend_ptx_fsk_data
  <2>1. X!Says(send_cpy) /\ UNCHANGED out_status BY <1>20 DEF X!ds_resend_ptx_fsk_data
  <2>2. IsAnswer(send_cpy) BY <1>4, <1>20, Resends
  <2> QED BY <1>13, <2>1, <2>2
<1>21. CASE out_status = "standby" /\ X!Says(X!Word("null")) /\ UNCHANGED out_status
  <2>1. IsAnswer(X!Word("null")) BY DEF IsAnswer
  <2> QED BY <1>13, <1>21, <2>1
<1> QED BY <1>2, <1>15, <1>16, <1>17, <1>18, <1>19, <1>20, <1>21 DEF X!ds_mpp_prx_sdsr_pkt_handler

LEMMA StreamSteps == StreamInv /\ X!Next => StreamInv'
<1> SUFFICES ASSUME StreamInv, X!Next PROVE StreamInv'
  OBVIOUS
<1>0. UNCHANGED wants BY DEF X!Next
<1>1. CASE X!Handle
  <2>1. ask # X!None BY <1>1 DEF X!Handle
  <2> QED BY <1>0, <1>1, <2>1, HandlesOpen, HandlesData, HandlesClose, HandlesPoll, HandlesReply DEF StreamInv, Aired
<1>2. CASE X!Sign BY <1>0, <1>2, Signs
<1>3. CASE X!Speak BY <1>0, <1>3, Speaks
<1>4. CASE X!Hear BY <1>0, <1>4, HearsOn
<1>5. CASE X!Miss BY <1>0, <1>5, Misses
<1>6. CASE X!Lose BY <1>0, <1>6, Loses
<1>7. CASE X!Ask BY <1>0, <1>7, Asks
<1>8. CASE X!Attend \/ X!GiveUp \/ X!Renego BY <1>0, <1>8, Pauses
<1>9. CASE X!Cool BY <1>0, <1>9, Cools
<1>10. CASE X!Cloak BY <1>0, <1>10, Cloaks
<1>11. CASE X!Restart BY <1>0, <1>11, Restarts
<1> QED BY <1>1, <1>2, <1>3, <1>4, <1>5, <1>6, <1>7, <1>8, <1>9, <1>10, <1>11 DEF X!Next, X!Step

LEMMA StreamStarts == X!Init => StreamInv
<1> SUFFICES ASSUME X!Init PROVE StreamInv
  OBVIOUS
<1>1. wants \in Wants /\ wants \subseteq RequestKinds BY StreamBounds DEF X!Init, RequestKinds
<1>2. PICK q \in wants : prx = [does |-> "rests", q |-> q, nonce |-> 0, sent |-> 0, got |-> <<>>,
                                 parity |-> 0, reply |-> "ack", done |-> FALSE]
  BY DEF X!Init
<1>3. PICK d \in X!Does, g \in Seq(Values), b \in BOOLEAN : d = "rests" /\ g = <<>> /\ b = FALSE
  <2>1. <<>> \in Seq(Values) BY Nothing
  <2>2. "rests" \in X!Does BY DEF X!Does
  <2> QED BY <2>1, <2>2
<1>4. q \in RequestKinds BY <1>1
<1>5. prx = [does |-> d, q |-> q, nonce |-> 0, sent |-> 0, got |-> g, parity |-> 0, reply |-> "ack", done |-> b]
  BY <1>2, <1>3
<1>6. prx \in Receivers BY <1>3, <1>4, <1>5 DEF Receivers
<1>7. prx.q = q /\ prx.does = "rests" BY <1>2
<1>8. StreamTypes
  <2>1. in_status \in {"standby", "opening", "sending", "closing"} /\ in_parity \in 0 .. 1 /\ have_recv \in 0 .. 2
        /\ out_status \in {"standby", "opening", "sending", "closing"} /\ out_parity \in 0 .. 1
        /\ have_send \in 0 .. 3 /\ need_send \in 0 .. 3 /\ last_send \in 0 .. 1 /\ renego \in {"no", "once", "hot"}
    BY DEF X!Init
  <2>2. need_atn_cnt \in BOOLEAN /\ need_atn_evt \in BOOLEAN /\ auth_timer \in BOOLEAN /\ passed \in BOOLEAN
    BY DEF X!Init
  <2> QED BY <1>1, <1>6, <1>7, <2>1, <2>2 DEF StreamTypes
<1>9. Receiver BY <1>7 DEF Receiver, After
<1>10. Aired /\ Hearing BY DEF X!Init, Aired, Hearing
<1> QED BY <1>8, <1>9, <1>10 DEF StreamInv

LEMMA StreamRests == StreamInv /\ UNCHANGED stream => StreamInv'
<1> SUFFICES ASSUME StreamInv, UNCHANGED stream PROVE StreamInv'
  OBVIOUS
<1>1. StreamTypes' BY DEF stream, StreamInv, StreamTypes
<1>2. Receiver' BY SameReceiver DEF stream, StreamInv
<1>3. Aired' BY SameAired DEF stream, StreamInv
<1>4. Hearing' BY SameHeard DEF stream, StreamInv
<1> QED BY <1>1, <1>2, <1>3, <1>4 DEF StreamInv

LEMMA StreamTyped == StreamInv => X!TypeOK /\ X!Intact
<1> SUFFICES ASSUME StreamInv PROVE X!TypeOK /\ X!Intact
  OBVIOUS
<1>1. StreamTypes BY DEF StreamInv
<1>2. prx.parity \in 0 .. 1 /\ prx.nonce \in 0 .. 1 /\ prx.done \in BOOLEAN /\ prx.does \in X!Does
      /\ prx.reply \in {"ack", "unexpected", "crc"}
  BY <1>1 DEF StreamTypes, Receivers
<1>3. X!TypeOK BY <1>1, <1>2 DEF StreamTypes, X!TypeOK
<1>4. X!Intact BY DEF StreamInv, Receiver, X!Intact, FullResponse
<1> QED BY <1>3, <1>4

-----------------------------------------------------------------------------
(* The I2C master (I2c).                                                   *)

\* What the transfers have in common: a start is followed by the address, which
\* calls for the reads exactly if it is the last that is said; all reads but the
\* last are acknowledged, and that one where the device has more to send.
Sayings == [does : {"start"}, byte : {<<>>}] \cup [does : {"send"}, byte : [1 .. Bits -> I!Bit]]
Speech(says, resps) ==
  LET n == Len(says)
  IN /\ says \in Seq(Sayings) /\ n > 1 /\ says[1].does = "start" /\ says[n].does = "send"
     /\ \A k \in 1 .. n - 1 :
          says[k].does = "start" =>
            /\ says[k + 1].does = "send"
            /\ says[k + 1].byte[Bits] = IF k + 1 = n /\ resps # <<>> THEN 1 ELSE 0
     /\ resps # <<>> => says[n - 1].does = "start"
Responses(t) ==
  LET n == Len(t.reads)
  IN /\ t.reads \in Seq(I!Bit)
     /\ \A j \in 1 .. n : t.reads[j] = IF j = n /\ t \notin I!I2C_Read THEN 1 ELSE 0
Shape(t) == Speech(t.says, t.reads) /\ Responses(t)

LEMMA Addresses == ASSUME NEW rw \in I!Bit PROVE I!Send(I!Address(rw)) \in Sayings /\ I!Send(I!Address(rw)).byte[Bits] = rw
                                                  /\ I!Send(I!Address(rw)).does = "send"
BY I2cBounds DEF I!Send, I!Address, I!Bit, Sayings

LEMMA SendsSaid ==
  ASSUME NEW n \in Nat, NEW reg \in I!Sends(n)
  PROVE  reg \in Seq(Sayings) /\ Len(reg) = n /\ \A u \in 1 .. n : reg[u].does = "send"
<1>1. PICK b \in [1 .. n -> Bytes] : reg = [u \in 1 .. n |-> I!Send(b[u])]
  BY DEF I!Sends
<1>2. \A u \in 1 .. n : I!Send(b[u]) \in Sayings /\ I!Send(b[u]).does = "send"
  BY I2cBounds DEF I!Send, Sayings, I!Bit
<1> QED
  BY <1>1, <1>2

LEMMA Starts == I!Start \in Sayings /\ I!Start.does = "start"
BY DEF I!Start, Sayings

LEMMA WriteShape ==
  ASSUME NEW n \in Nat \ {0}, NEW bytes \in I!Sends(n)
  PROVE  Speech(I!Write(bytes).says, I!Write(bytes).reads) /\ I!Write(bytes).reads = <<>>
<1> DEFINE s == <<I!Start, I!W>> \o bytes
<1>1. I!Write(bytes).says = s /\ I!Write(bytes).reads = <<>>
  BY DEF I!Write, I!Transfer
<1>2. I!W \in Sayings /\ I!W.does = "send" /\ I!W.byte[Bits] = 0
  BY Addresses DEF I!W, I!Bit
<1>3. bytes \in Seq(Sayings) /\ Len(bytes) = n /\ \A u \in 1 .. n : bytes[u].does = "send"
  BY SendsSaid
<1>4. /\ s \in Seq(Sayings) /\ Len(s) = n + 2 /\ s[1] = I!Start /\ s[2] = I!W
      /\ \A u \in 3 .. n + 2 : s[u] = bytes[u - 2]
  BY <1>2, <1>3, Starts
<1>5. \A u \in 2 .. n + 2 : s[u].does = "send"
  <2> SUFFICES ASSUME NEW u \in 2 .. n + 2 PROVE s[u].does = "send"
    OBVIOUS
  <2>1. CASE u = 2
    BY <2>1, <1>4, <1>2
  <2>2. CASE u # 2
    BY <2>2, <1>4, <1>3
  <2> QED
    BY <2>1, <2>2
<1> QED
  BY <1>1, <1>2, <1>4, <1>5, Starts DEF Speech

LEMMA NaksNaked ==
  ASSUME NEW n \in Nat \ {0}
  PROVE  /\ I!ReadsNak(n) \in Seq(I!Bit) /\ Len(I!ReadsNak(n)) = n
         /\ \A j \in 1 .. n : I!ReadsNak(n)[j] = IF j = n THEN 1 ELSE 0
BY DEF I!ReadsNak, I!_I2C_RESP_ACK, I!_I2C_RESP_NAK, I!Bit

LEMMA NotFramed == ASSUME NEW t, t.reads # <<>>, t.reads[Len(t.reads)] = 1 PROVE t \notin I!I2C_Read
<1> SUFFICES ASSUME NEW n \in 1 .. MaxLen, t = I!Transfer(<<I!Start, I!R>>, I!Reads(n + 1)) PROVE FALSE
  BY DEF I!I2C_Read
<1>1. n + 1 \in Nat \ {0} /\ t.reads = [u \in 1 .. n + 1 |-> 0]
  BY I2cBounds DEF I!Transfer, I!Reads, I!_I2C_RESP_ACK
<1>2. Len(t.reads) = n + 1
  BY <1>1
<1> QED
  BY <1>1, <1>2

LEMMA NakShape ==
  ASSUME NEW says, NEW n \in Nat \ {0}
  PROVE  Responses(I!Transfer(says, I!ReadsNak(n))) /\ I!Transfer(says, I!ReadsNak(n)).reads # <<>>
<1> DEFINE t == I!Transfer(says, I!ReadsNak(n))
<1>1. t.reads = I!ReadsNak(n)
  BY DEF I!Transfer
<1>2. t.reads # <<>> /\ t.reads[Len(t.reads)] = 1
  BY <1>1, NaksNaked
<1>3. t \notin I!I2C_Read
  BY <1>2, NotFramed
<1> QED
  BY <1>1, <1>2, <1>3, NaksNaked DEF Responses

LEMMA ReadFromShape ==
  ASSUME NEW m \in Nat \ {0}, NEW reg \in I!Sends(m), NEW n \in Nat \ {0}
  PROVE  Shape(I!ReadFrom(reg, n))
<1> DEFINE s == <<I!Start, I!W>> \o reg \o <<I!Start, I!R>>
           t == I!Transfer(s, I!ReadsNak(n))
<1>1. I!ReadFrom(reg, n) = t /\ t.says = s /\ t.reads # <<>> /\ Responses(t)
  BY NakShape DEF I!ReadFrom, I!Transfer
<1>2. I!W \in Sayings /\ I!W.does = "send" /\ I!W.byte[Bits] = 0
  BY Addresses DEF I!W, I!Bit
<1>2a. I!R \in Sayings /\ I!R.does = "send" /\ I!R.byte[Bits] = 1
  BY Addresses DEF I!R, I!Bit
<1>3. reg \in Seq(Sayings) /\ Len(reg) = m /\ \A u \in 1 .. m : reg[u].does = "send"
  BY SendsSaid
<1>4a. <<I!Start, I!W>> \in Seq(Sayings) /\ <<I!Start, I!R>> \in Seq(Sayings)
  BY <1>2, <1>2a, Starts
<1>4. /\ s \in Seq(Sayings) /\ Len(s) = m + 4 /\ s[1] = I!Start /\ s[2] = I!W
      /\ \A u \in 3 .. m + 2 : s[u] = reg[u - 2]
      /\ s[m + 3] = I!Start /\ s[m + 4] = I!R
  BY <1>2, <1>2a, <1>3, <1>4a, Starts
<1>5. \A u \in 2 .. m + 2 : s[u].does = "send"
  <2> SUFFICES ASSUME NEW u \in 2 .. m + 2 PROVE s[u].does = "send"
    OBVIOUS
  <2>1. CASE u = 2
    BY <2>1, <1>4, <1>2
  <2>2. CASE u # 2
    BY <2>2, <1>4, <1>3
  <2> QED
    BY <2>1, <2>2
<1>6. \A k \in 1 .. m + 3 :
        s[k].does = "start" => /\ s[k + 1].does = "send"
                               /\ s[k + 1].byte[Bits] = IF k + 1 = m + 4 THEN 1 ELSE 0
  <2> SUFFICES ASSUME NEW k \in 1 .. m + 3, s[k].does = "start"
               PROVE s[k + 1].does = "send" /\ s[k + 1].byte[Bits] = IF k + 1 = m + 4 THEN 1 ELSE 0
    OBVIOUS
  <2>1. k \in 2 .. m + 2 \/ k = 1 \/ k = m + 3
    OBVIOUS
  <2>2. ~(k \in 2 .. m + 2)
    BY <1>5, "send" # "start"
  <2> QED
    BY <2>1, <2>2, <1>4, <1>2, <1>2a
<1>7. Speech(s, t.reads)
  BY <1>1, <1>4, <1>6, <1>2a, Starts DEF Speech
<1> QED
  BY <1>1, <1>7 DEF Shape

LEMMA ReadShape ==
  ASSUME NEW t, t.says = <<I!Start, I!R>>, t.reads # <<>>
  PROVE  Speech(t.says, t.reads)
<1>1. I!R \in Sayings /\ I!R.does = "send" /\ I!R.byte[Bits] = 1
  BY Addresses DEF I!R, I!Bit
<1> QED
  BY <1>1, Starts DEF Speech

LEMMA TransferShapes == ASSUME NEW t \in I!Transfers PROVE Shape(t)
<1>1. ASSUME NEW n \in Nat \ {0}, NEW bytes \in I!Sends(n), t = I!Write(bytes) PROVE Shape(t)
  <2>1. Speech(t.says, t.reads) /\ t.reads = <<>>
    BY <1>1, WriteShape
  <2> QED
    BY <2>1 DEF Shape, Responses
<1>2. CASE t \in I!I2C_Read
  <2>1. PICK n \in 1 .. MaxLen : t = I!Transfer(<<I!Start, I!R>>, I!Reads(n + 1))
    BY <1>2 DEF I!I2C_Read
  <2>2. n + 1 \in Nat \ {0} /\ t.says = <<I!Start, I!R>> /\ t.reads = [u \in 1 .. n + 1 |-> 0]
    BY <2>1, I2cBounds DEF I!Transfer, I!Reads, I!_I2C_RESP_ACK
  <2>3. t.reads \in Seq(I!Bit) /\ Len(t.reads) = n + 1 /\ t.reads # <<>>
    BY <2>2 DEF I!Bit
  <2>4. \A j \in 1 .. n + 1 : t.reads[j] = 0
    BY <2>2
  <2> QED
    BY <2>2, <2>3, <2>4, <1>2, ReadShape DEF Shape, Responses
<1>3. CASE t \in I!fm1210_i2c_recv_frame
  <2>1. PICK n \in 1 .. MaxLen : t = I!Transfer(<<I!Start, I!R>>, I!ReadsNak(n + 2))
    BY <1>3 DEF I!fm1210_i2c_recv_frame
  <2>2. n + 2 \in Nat \ {0} /\ t.says = <<I!Start, I!R>>
    BY <2>1, I2cBounds DEF I!Transfer
  <2>3. Responses(t) /\ t.reads # <<>>
    BY <2>1, <2>2, NakShape
  <2> QED
    BY <2>2, <2>3, ReadShape DEF Shape
<1>4. CASE t \in I!hal_i2cm_read_one_byte \cup I!hal_i2cm_read_one_byte_16bit
  BY <1>4, ReadFromShape DEF I!hal_i2cm_read_one_byte, I!hal_i2cm_read_one_byte_16bit
<1>5. CASE t \in I!hal_i2cm_read_multi_bytes \cup I!hal_i2cm_read_multi_byte_16bit
  <2>1. PICK m \in 1 .. 2 : \E reg \in I!Sends(m), n \in 1 .. MaxLen : t = I!ReadFrom(reg, n)
    BY <1>5 DEF I!hal_i2cm_read_multi_bytes, I!hal_i2cm_read_multi_byte_16bit
  <2>2. m \in Nat \ {0} /\ 1 .. MaxLen \subseteq Nat \ {0}
    BY I2cBounds
  <2> QED
    BY <2>1, <2>2, ReadFromShape
<1>6. CASE t \in I!hal_i2cm_wirte_one_byte \cup I!I2C_Write
  BY <1>6, <1>1 DEF I!hal_i2cm_wirte_one_byte, I!I2C_Write
<1>7. CASE t \in I!hal_i2cm_write_one_byte_16bit \cup I!fm1210_i2c_send_frame
  BY <1>7, <1>1 DEF I!hal_i2cm_write_one_byte_16bit, I!fm1210_i2c_send_frame
<1>8. CASE t \in I!hal_i2cm_write_multi_bytes \cup I!hal_i2cm_write_multi_byte_16bit
  <2>1. PICK m \in 1 .. 2, n \in 1 .. MaxLen : \E b \in I!Sends(m + n) : t = I!Write(b)
    BY <1>8 DEF I!hal_i2cm_write_multi_bytes, I!hal_i2cm_write_multi_byte_16bit
  <2>2. m + n \in Nat \ {0}
    BY I2cBounds
  <2> QED
    BY <2>1, <2>2, <1>1
<1> QED
  BY <1>2, <1>3, <1>4, <1>5, <1>6, <1>7, <1>8 DEF I!Transfers
-----------------------------------------------------------------------------
Word == {"start", "stop"} \cup Seq(I!Bit)
Devices == [is : {"idle", "hears", "acks", "speaks", "asks", "asked"}, low : BOOLEAN, byte : Seq(I!Bit),
            first : BOOLEAN, bits : Nat, heard : Seq(Word), sent : Seq(I!Bit)]
I2cTypes ==
  /\ transfer \in I!Transfers /\ device \in Devices /\ got \in Seq(I!Bit)
  /\ step \in 1 .. I!Stops + 1 /\ round \in 0 .. I!Last /\ pin \in 1 .. 6
  /\ rst \in I!Bit /\ out \in I!Bit /\ dout \in I!Bit /\ scl \in I!Bit

\* Where the device is, by where the master is.
Hears == device.is = "hears" /\ ~device.low
Hung == device.is = "idle" /\ ~device.low
Sound(k) == device.heard = I!Words(k)
Still == device.sent = <<>> /\ got = <<>>
Addressed == device.first <=> transfer.says[step - 1].does = "start"
\* The device has n bits of the byte.
Has(n) == /\ Len(device.byte) = n
          /\ \A j \in 1 .. n : device.byte[j] = transfer.says[step].byte[j]
\* The device holds out the bit number n of its byte, which was not read yet; or it was.
Holds(n) == /\ device.is = "speaks" /\ device.bits = n
            /\ Len(device.sent) = Bits * (step - I!Said - 1) + n /\ device.sent = Append(got, IF device.low THEN 0 ELSE 1)
Taken(n) == /\ device.is = "speaks" /\ device.bits = n /\ n > 0
            /\ Len(device.sent) = Bits * (step - I!Said - 1) + n /\ device.sent = got
\* What the byte's acknowledgement leads to.
Reading == transfer.reads # <<>> /\ step = I!Said
Replies == IF Reading
           THEN /\ device.is = "speaks" /\ device.bits = 1 /\ Len(device.sent) = 1
                /\ device.sent = Append(got, IF device.low THEN 0 ELSE 1)
           ELSE Hears /\ device.byte = <<>> /\ ~device.first /\ Still

AtStart ==
  /\ round = I!Last /\ pin \in 1 .. 5 /\ rst = 0 /\ out = 1 /\ Still
  /\ pin < 4 => /\ Sound(step - 1)
                /\ IF step = 1 THEN Hung /\ scl = 1 /\ dout = 1 ELSE Hears /\ device.byte = <<>> /\ scl = 0
  /\ pin = 3 => dout = 1
  /\ pin = 4 => Sound(step - 1) /\ (Hears \/ Hung) /\ scl = 1 /\ dout = 1
  /\ pin = 5 => Sound(step) /\ Hears /\ device.byte = <<>> /\ device.first /\ scl = 1 /\ dout = 0
AtBit ==
  /\ round \in 1 .. Bits /\ pin \in 1 .. 3 /\ rst = 0 /\ out = 1 /\ Still
  /\ Sound(step - 1) /\ Hears /\ Addressed
  /\ pin > 1 => dout = transfer.says[step].byte[round]
  /\ IF pin = 3 THEN scl = 1 /\ Has(round) ELSE scl = 0 /\ Has(round - 1)
AtAck ==
  /\ round = I!Last /\ pin \in 1 .. 6 /\ Sound(step)
  /\ pin < 5 => /\ Still /\ out = (IF pin = 1 THEN 1 ELSE 0) /\ scl = (IF pin < 3 THEN 0 ELSE 1)
                /\ pin < 4 => rst = 0
                /\ \/ device.is = "acks" /\ device.low /\ device.byte = transfer.says[step].byte /\ rst = 0
                      /\ Addressed
                   \/ Hung /\ (pin = 4 => rst = 1)
  /\ pin > 4 => /\ scl = 0 /\ out = (IF pin = 5 THEN 0 ELSE 1)
                /\ IF rst = 0 THEN Replies ELSE Hung /\ Still
AtRead ==
  /\ rst = 0 /\ Sound(I!Said)
  /\ round = 0 => pin = 1 /\ scl = 0 /\ out = 1 /\ Holds(1)
  /\ round \in 1 .. Bits =>
       /\ pin \in 1 .. 3 /\ out = 0
       /\ pin = 1 => IF round = 1 THEN scl = 0 /\ Holds(1) ELSE scl = 1 /\ Taken(round - 1)
       /\ pin > 1 => scl = (IF pin = 2 THEN 0 ELSE 1) /\ Holds(round)
  /\ round = I!Last =>
       /\ pin \in 1 .. 5 /\ out = (IF pin < 3 THEN 0 ELSE 1)
       /\ pin = 1 => scl = 1 /\ Taken(Bits)
       /\ pin > 1 => /\ ~device.low /\ device.sent = got /\ Len(device.sent) = Bits * (step - I!Said)
                     /\ scl = (IF pin = 5 THEN 1 ELSE 0)
                     /\ pin < 5 => device.is = "asks"
                     /\ pin = 4 => dout = transfer.reads[step - I!Said]
                     /\ pin = 5 => device.is = IF transfer.reads[step - I!Said] = 0 THEN "asked" ELSE "idle"
Spoken == /\ device.sent = got /\ out = 1 /\ ~device.low
          /\ device.is \in {"hears", "idle", "speaks"}
AtStop ==
  /\ round = I!Last /\ pin \in 1 .. 4 /\ Spoken
  /\ scl = (IF pin = 4 THEN 1 ELSE 0) /\ (pin > 2 => dout = 0)
  /\ pin < 4 /\ device.is = "hears" => device.byte = <<>>
  /\ rst = 0 => Sound(I!Said)
  /\ rst = 1 => \E k \in 1 .. I!Said : Sound(k)
AtEnd ==
  /\ round = I!Last /\ pin = 1 /\ Hung /\ out = 1 /\ dout = 1 /\ scl = 1 /\ device.sent = got
  /\ rst = 0 => device.heard = I!Heard(I!Said)
  /\ rst = 1 => \E k \in 1 .. I!Said : device.heard = I!Heard(k)
I2cInv ==
  /\ I2cTypes
  /\ step > I!Stops => AtEnd
  /\ step = I!Stops => AtStop
  /\ step \in I!Said + 1 .. I!Stops - 1 => AtRead
  /\ step \in 1 .. I!Said =>
       IF transfer.says[step].does = "start" THEN AtStart
       ELSE step > 1 /\ IF round = I!Last THEN AtAck ELSE AtBit
-----------------------------------------------------------------------------
(* The device.                                                             *)

LEMMA NoBytes == <<>> \in Seq(I!Bit) /\ <<>> \in Seq(Word)
OBVIOUS

LEMMA IdleIs ==
  ASSUME NEW d \in Devices
  PROVE  LET e == I!Idle(d) IN /\ e \in Devices /\ e.is = "idle" /\ e.low = FALSE /\ e.byte = <<>>
                               /\ e.heard = d.heard /\ e.sent = d.sent
BY NoBytes DEF I!Idle, Devices

LEMMA StartedIs ==
  ASSUME NEW d \in Devices
  PROVE  LET e == I!Started(d) IN /\ e \in Devices /\ e.is = "hears" /\ e.low = FALSE /\ e.byte = <<>> /\ e.first
                                  /\ e.heard = Append(d.heard, "start") /\ e.sent = d.sent
<1>1. Append(d.heard, "start") \in Seq(Word)
  BY DEF Devices, Word
<1> QED
  BY <1>1, NoBytes DEF I!Started, I!Idle, Devices

LEMMA StoppedIs ==
  ASSUME NEW d \in Devices
  PROVE  LET e == I!Stopped(d) IN /\ e \in Devices /\ e.is = "idle" /\ e.low = FALSE
                                  /\ e.heard = Append(d.heard, "stop") /\ e.sent = d.sent
<1>1. Append(d.heard, "stop") \in Seq(Word)
  BY DEF Devices, Word
<1> QED
  BY <1>1, NoBytes DEF I!Stopped, I!Idle, Devices

LEMMA SpeaksIs ==
  ASSUME NEW d \in Devices, NEW e \in I!Speaks(d)
  PROVE  /\ e \in Devices /\ e.is = "speaks" /\ e.heard = d.heard
         /\ I!HasMore(d) => e.bits = d.bits + 1 /\ e.sent = Append(d.sent, IF e.low THEN 0 ELSE 1)
         /\ ~I!HasMore(d) => ~e.low /\ e.sent = d.sent
<1>1. CASE I!HasMore(d)
  <2>1. PICK b \in I!Bit : e = I!Drives(d, b)
    BY <1>1 DEF I!Speaks
  <2>2. Append(d.sent, b) \in Seq(I!Bit)
    BY DEF Devices
  <2>3. e = [d EXCEPT !.is = "speaks", !.low = (b = 0), !.sent = Append(d.sent, b), !.bits = d.bits + 1]
    BY <2>1 DEF I!Drives
  <2>4. d.bits + 1 \in Nat /\ (b = 0) \in BOOLEAN
    BY DEF Devices
  <2>5. e.is = "speaks" /\ e.low = (b = 0) /\ e.sent = Append(d.sent, b) /\ e.bits = d.bits + 1 /\ e.heard = d.heard
    BY <2>3 DEF Devices
  <2>6. e \in Devices
    BY <2>3, <2>2, <2>4 DEF Devices
  <2>7. b = IF e.low THEN 0 ELSE 1
    <3>1. CASE b = 0
      BY <3>1, <2>5, Zenon
    <3>2. CASE b = 1
      <4>1. b # 0
        BY <3>2
      <4>2. ~e.low
        BY <4>1, <2>5, Zenon
      <4> QED
        BY <4>2, <3>2
    <3> QED
      BY <3>1, <3>2 DEF I!Bit
  <2> QED
    BY <1>1, <2>5, <2>6, <2>7
<1>2. CASE ~I!HasMore(d)
  BY <1>2 DEF I!Speaks, Devices
<1> QED
  BY <1>1, <1>2

LEMMA RisesAsking ==
  ASSUME NEW d \in Devices, d.is = "asks", ~d.low, NEW a \in I!Bit, NEW e, e = I!Rises(d, a)
  PROVE  /\ e \in Devices /\ ~e.low /\ e.heard = d.heard /\ e.sent = d.sent
         /\ e.is = IF a = 0 THEN "asked" ELSE "idle"
BY IdleIs DEF I!Rises, I!Bit, Devices

LEMMA RisesIdle == ASSUME NEW d, d.is = "idle", NEW a, NEW e, e = I!Rises(d, a) PROVE e = d
BY DEF I!Rises

LEMMA RisesHearing ==
  ASSUME NEW d \in Devices, NEW a \in I!Bit, d.is = "hears", ~d.low, NEW e, e = I!Rises(d, a)
  PROVE  /\ e \in Devices /\ e.is = "hears" /\ ~e.low /\ e.byte = Append(d.byte, a)
         /\ e.heard = d.heard /\ e.sent = d.sent /\ e.first = d.first
<1>1. e = [d EXCEPT !.byte = Append(d.byte, a)]
  BY DEF I!Rises
<1>2. Append(d.byte, a) \in Seq(I!Bit)
  BY DEF Devices
<1> QED
  BY <1>1, <1>2 DEF Devices

\* A whole byte: taken, or refused.
LEMMA FallsHeard ==
  ASSUME NEW d \in Devices, d.is = "hears", Len(d.byte) = Bits, NEW e \in I!Falls(d)
  PROVE  /\ e \in Devices /\ e.heard = Append(d.heard, d.byte) /\ e.sent = d.sent
         /\ \/ e.is = "acks" /\ e.low /\ e.byte = d.byte /\ e.first = d.first
            \/ e.is = "idle" /\ ~e.low
<1> DEFINE h == [d EXCEPT !.heard = Append(@, d.byte)]
<1>1. Append(d.heard, d.byte) \in Seq(Word)
  BY DEF Devices, Word
<1>2. h \in Devices /\ h.heard = Append(d.heard, d.byte) /\ h.sent = d.sent /\ h.byte = d.byte /\ h.first = d.first
  BY <1>1 DEF Devices
<1>3. I!Falls(d) = {[h EXCEPT !.is = "acks", !.low = TRUE], I!Idle(h)}
  BY DEF I!Falls
<1> HIDE DEF h
<1>4. CASE e = I!Idle(h)
  BY <1>4, <1>2, IdleIs
<1>5. CASE e = [h EXCEPT !.is = "acks", !.low = TRUE]
  BY <1>5, <1>2 DEF Devices
<1> QED
  BY <1>3, <1>4, <1>5

\* The end of an acknowledgement: the device reads on, or speaks.
LEMMA FallsAcked ==
  ASSUME NEW d \in Devices, d.is = "acks", NEW e \in I!Falls(d)
  PROVE  /\ e \in Devices /\ e.heard = d.heard
         /\ IF d.first /\ d.byte[Bits] = 1
            THEN \E r \in Devices : r.bits = 0 /\ r.sent = d.sent /\ r.heard = d.heard /\ e \in I!Speaks(r)
            ELSE e.is = "hears" /\ ~e.low /\ e.byte = <<>> /\ ~e.first /\ e.sent = d.sent
<1> DEFINE r == [d EXCEPT !.low = FALSE, !.byte = <<>>, !.first = FALSE, !.bits = 0]
<1>1. r \in Devices /\ r.heard = d.heard /\ r.sent = d.sent /\ r.byte = <<>> /\ ~r.first /\ ~r.low /\ r.bits = 0
  BY NoBytes DEF Devices
<1>2. I!Falls(d) = IF d.first /\ d.byte[Bits] = 1 THEN I!Speaks(r) ELSE {[r EXCEPT !.is = "hears"]}
  BY DEF I!Falls
<1> HIDE DEF r
<1>3. CASE d.first /\ d.byte[Bits] = 1
  <2>1. e \in I!Speaks(r)
    BY <1>2, <1>3
  <2>2. e \in Devices /\ e.heard = d.heard
    BY <2>1, <1>1, SpeaksIs
  <2> QED
    BY <1>1, <1>3, <2>1, <2>2
<1>4. CASE ~(d.first /\ d.byte[Bits] = 1)
  <2>1. e = [r EXCEPT !.is = "hears"]
    BY <1>2, <1>4
  <2> QED
    BY <1>1, <1>4, <2>1 DEF Devices
<1> QED
  BY <1>3, <1>4

LEMMA FallsSpoken ==
  ASSUME NEW d \in Devices, d.is = "speaks", d.bits <= Bits, NEW e \in I!Falls(d)
  PROVE  /\ d.bits < Bits => e \in I!Speaks(d)
         /\ d.bits = Bits => /\ e \in Devices /\ e.is = "asks" /\ ~e.low /\ e.heard = d.heard /\ e.sent = d.sent
<1>1. CASE d.bits < Bits
  BY <1>1, I2cBounds DEF I!Falls, Devices
<1>2. CASE d.bits = Bits
  <2>1. e = [d EXCEPT !.is = "asks", !.low = FALSE] /\ ~(d.bits < Bits)
    BY <1>2, I2cBounds DEF I!Falls
  <2> QED
    BY <1>2, <2>1 DEF Devices
<1> QED
  BY <1>1, <1>2

LEMMA FallsAsked ==
  ASSUME NEW d \in Devices, d.is = "asked", NEW e \in I!Falls(d)
  PROVE  \E r \in Devices : r.bits = 0 /\ r.sent = d.sent /\ r.heard = d.heard /\ e \in I!Speaks(r)
<1>1. [d EXCEPT !.bits = 0] \in Devices
  BY DEF Devices
<1> QED
  BY <1>1 DEF I!Falls, Devices

LEMMA FallsElse ==
  ASSUME NEW d \in Devices, \/ d.is \in {"idle", "asks"}
                            \/ d.is = "hears" /\ Len(d.byte) # Bits
  PROVE  I!Falls(d) = {d}
BY DEF I!Falls

LEMMA HasMoreSame == ASSUME NEW d, NEW e, d.sent = e.sent PROVE I!HasMore(d) = I!HasMore(e)
BY DEF I!HasMore

-----------------------------------------------------------------------------
(* A step of the master.                                                   *)

LEMMA OpSda ==
  ASSUME I!Next, I!Running, NEW v, I!Op = I!Sda(v)
  PROVE  /\ I!Goes /\ out' = out /\ dout' = v /\ scl' = scl /\ UNCHANGED <<transfer, rst, got>>
         /\ device' \in I!Sees(device, I!Sda0, scl, I!Line(out, v, device), scl)
BY DEF I!Next, I!Drive, I!Sampled, I!Checked, I!Again, I!Sda, I!Pin

LEMMA OpScl ==
  ASSUME I!Next, I!Running, NEW v, I!Op = I!Scl(v)
  PROVE  /\ I!Goes /\ out' = out /\ dout' = dout /\ scl' = v /\ UNCHANGED <<transfer, rst, got>>
         /\ device' \in I!Sees(device, I!Sda0, scl, I!Sda0, v)
BY DEF I!Next, I!Drive, I!Sampled, I!Checked, I!Again, I!Scl, I!Pin, I!Sda0

LEMMA OpOut ==
  ASSUME I!Next, I!Running, NEW v, I!Op = I!Pin("out", v)
  PROVE  /\ I!Goes /\ out' = v /\ dout' = dout /\ scl' = scl /\ UNCHANGED <<transfer, rst, got>>
         /\ device' \in I!Sees(device, I!Sda0, scl, I!Line(v, dout, device), scl)
BY DEF I!Next, I!Drive, I!Sampled, I!Checked, I!Again, I!Pin

LEMMA OpAck ==
  ASSUME I!Next, I!Running, I!Op = I!SampleAck
  PROVE  I!Goes /\ rst' = I!Sda0 /\ UNCHANGED <<transfer, out, dout, scl, device, got>>
BY DEF I!Next, I!Drive, I!Sampled, I!Checked, I!Again, I!Pin, I!SampleAck

LEMMA OpBit ==
  ASSUME I!Next, I!Running, I!Op = I!SampleBit
  PROVE  I!Goes /\ got' = Append(got, I!Sda0) /\ UNCHANGED <<transfer, out, dout, scl, device, rst>>
BY DEF I!Next, I!Drive, I!Sampled, I!Checked, I!Again, I!Pin, I!SampleBit

LEMMA OpCheck ==
  ASSUME I!Next, I!Running, I!Op = I!Check
  PROVE  /\ IF rst = 0 THEN I!Goes ELSE I!GoTo(I!Stops)
         /\ UNCHANGED <<transfer, rst, out, dout, scl, device, got>>
BY DEF I!Next, I!Drive, I!Sampled, I!Checked, I!Again, I!Pin, I!Check

\* No edge of the clock, and no start or stop.
LEMMA SeesNothing ==
  ASSUME NEW d, NEW sda \in I!Bit, NEW a \in I!Bit, NEW c \in I!Bit, c = 0 \/ a = sda, NEW e \in I!Sees(d, sda, c, a, c)
  PROVE  e = d
BY DEF I!Sees, I!Bit
LEMMA SeesRise == ASSUME NEW d, NEW sda, NEW a, NEW e \in I!Sees(d, sda, 0, a, 1) PROVE e = I!Rises(d, a)
BY DEF I!Sees
LEMMA SeesFall == ASSUME NEW d, NEW sda, NEW a, NEW e \in I!Sees(d, sda, 1, a, 0) PROVE e \in I!Falls(d)
BY DEF I!Sees
LEMMA SeesStart == ASSUME NEW d, NEW e \in I!Sees(d, 1, 1, 0, 1) PROVE e = I!Started(d)
BY DEF I!Sees
LEMMA SeesStop == ASSUME NEW d, NEW e \in I!Sees(d, 0, 1, 1, 1) PROVE e = I!Stopped(d)
BY DEF I!Sees
LEMMA LineBit == \A o, v, d : I!Line(o, v, d) \in I!Bit
BY DEF I!Line, I!Bit
-----------------------------------------------------------------------------
(* The steps of a transfer, and their rows.                                *)

LEMMA Lengths ==
  ASSUME I2cTypes
  PROVE  /\ Shape(transfer) /\ I!Said \in Nat /\ I!Said > 1 /\ Len(transfer.reads) \in Nat
         /\ I!Stops = I!Said + Len(transfer.reads) + 1 /\ I!Stops \in Nat /\ I!Last = Bits + 1 /\ Bits \in Nat /\ Bits > 0
         /\ (I!Running <=> step <= I!Stops)
<1>1. Shape(transfer)
  BY TransferShapes DEF I2cTypes
<1>2. Len(transfer.says) \in Nat /\ Len(transfer.says) > 1
  BY <1>1 DEF Shape, Speech
<1>3. Len(transfer.reads) \in Nat
  BY <1>1 DEF Shape, Responses
<1>4. I!Running <=> step <= I!Stops
  BY DEF I!Running
<1>5. I!Said \in Nat /\ I!Said > 1
  BY <1>2 DEF I!Said
<1>6. I!Stops = I!Said + Len(transfer.reads) + 1 /\ I!Stops \in Nat
  BY <1>3, <1>5 DEF I!Stops
<1>7. I!Last = Bits + 1 /\ Bits \in Nat /\ Bits > 0
  BY I2cBounds DEF I!Last
<1> QED
  BY <1>1, <1>3, <1>4, <1>5, <1>6, <1>7

LEMMA DoesSay ==
  ASSUME I2cTypes, NEW k \in 1 .. I!Said
  PROVE  /\ I!Does(k) = transfer.says[k] /\ transfer.says[k] \in Sayings
         /\ transfer.says[k].does = "start" \/ (transfer.says[k].does = "send" /\ transfer.says[k].byte \in [1 .. Bits -> I!Bit])
<1>1. transfer.says[k] \in Sayings
  BY Lengths DEF I!Said, Shape, Speech
<1>2. k <= I!Said
  BY Lengths
<1> QED
  BY <1>1, <1>2, Lengths DEF I!Does, Sayings

LEMMA DoesRead ==
  ASSUME I2cTypes, NEW k \in I!Said + 1 .. I!Stops - 1
  PROVE  /\ I!Does(k).does = "read" /\ I!Does(k).resp = transfer.reads[k - I!Said]
         /\ k - I!Said \in 1 .. Len(transfer.reads) /\ transfer.reads[k - I!Said] \in I!Bit
<1>1. k - I!Said \in 1 .. Len(transfer.reads)
  BY Lengths
<1> QED
  BY <1>1, Lengths DEF I!Does, I!Read, Shape, Responses

LEMMA DoesStop ==
  ASSUME I2cTypes, NEW k \in Nat, k >= I!Stops
  PROVE  I!Does(k).does = "stop"
BY Lengths DEF I!Does, I!Stop

LEMMA StartRow ==
  ASSUME I!Does(step).does = "start"
  PROVE  /\ Len(I!Pins) = 5
         /\ pin = 1 => I!Op = I!Pin("out", 1)
         /\ pin = 2 => I!Op = I!Sda(1)
         /\ pin = 3 => I!Op = I!Scl(1)
         /\ pin = 4 => I!Op = I!Sda(0)
         /\ pin = 5 => I!Op = I!Scl(0)
BY DEF I!Op, I!Pins, I!Row, I!hal_i2cm_start, I!Output

LEMMA StopRow ==
  ASSUME I!Does(step).does = "stop"
  PROVE  /\ Len(I!Pins) = 4
         /\ pin = 1 => I!Op = I!Pin("out", 1)
         /\ pin = 2 => I!Op = I!Sda(0)
         /\ pin = 3 => I!Op = I!Scl(1)
         /\ pin = 4 => I!Op = I!Sda(1)
BY DEF I!Op, I!Pins, I!Row, I!hal_i2cm_stop, I!Output

LEMMA BitRow ==
  ASSUME I!Does(step).does = "send", round < I!Last
  PROVE  /\ Len(I!Pins) = 3
         /\ pin = 1 => I!Op = I!Sda(I!Does(step).byte[round])
         /\ pin = 2 => I!Op = I!Scl(1)
         /\ pin = 3 => I!Op = I!Scl(0)
BY DEF I!Op, I!Pins, I!Row, I!hal_i2cm_byte_send

LEMMA AckRow ==
  ASSUME I!Does(step).does = "send", ~(round < I!Last)
  PROVE  /\ Len(I!Pins) = 6
         /\ pin = 1 => I!Op = I!Pin("out", 0)
         /\ pin = 2 => I!Op = I!Scl(1)
         /\ pin = 3 => I!Op = I!SampleAck
         /\ pin = 4 => I!Op = I!Scl(0)
         /\ pin = 5 => I!Op = I!Pin("out", 1)
         /\ pin = 6 => I!Op = I!Check
BY DEF I!Op, I!Pins, I!Row, I!hal_i2cm_byte_send, I!Output, I!Input

LEMMA ReadRow ==
  ASSUME I!Does(step).does = "read", I2cTypes
  PROVE  /\ round = 0 => Len(I!Pins) = 1 /\ (pin = 1 => I!Op = I!Pin("out", 0))
         /\ round \in 1 .. Bits => /\ Len(I!Pins) = 3
                                   /\ pin = 1 => I!Op = I!Scl(0)
                                   /\ pin = 2 => I!Op = I!Scl(1)
                                   /\ pin = 3 => I!Op = I!SampleBit
         /\ round = I!Last => /\ Len(I!Pins) = 5
                              /\ pin = 1 => I!Op = I!Scl(0)
                              /\ pin = 2 => I!Op = I!Pin("out", 1)
                              /\ pin = 3 => I!Op = I!Sda(I!Does(step).resp)
                              /\ pin = 4 => I!Op = I!Scl(1)
                              /\ pin = 5 => I!Op = I!Scl(0)
BY Lengths DEF I!Op, I!Pins, I!Row, I!hal_i2cm_byte_read, I!Output, I!Input

LEMMA Goings ==
  ASSUME I!Goes
  PROVE  /\ pin < Len(I!Pins) => pin' = pin + 1 /\ step' = step /\ round' = round
         /\ ~(pin < Len(I!Pins)) /\ round < I!Last => pin' = 1 /\ step' = step /\ round' = round + 1
         /\ ~(pin < Len(I!Pins)) /\ ~(round < I!Last) => pin' = 1 /\ step' = step + 1 /\ round' = I!First(I!Does(step + 1))
BY DEF I!Goes, I!GoTo

\* A transfer stays what it is.
LEMMA Stays ==
  ASSUME transfer' = transfer
  PROVE  /\ I!Said' = I!Said /\ I!Stops' = I!Stops /\ (Shape(transfer))' = Shape(transfer)
         /\ \A k : (I!Words(k))' = I!Words(k) /\ (I!Heard(k))' = I!Heard(k)
BY DEF I!Said, I!Stops, I!Words, I!Heard, Shape, Speech, Responses

LEMMA WordsNext ==
  ASSUME I2cTypes, NEW k \in 1 .. I!Said
  PROVE  I!Words(k) = Append(I!Words(k - 1), I!Word(transfer.says[k]))
<1> DEFINE w(n) == [u \in 1 .. n |-> I!Word(transfer.says[u])]
<1>1. \A u \in 1 .. k : I!Word(transfer.says[u]) \in Word
  <2> SUFFICES ASSUME NEW u \in 1 .. k PROVE I!Word(transfer.says[u]) \in Word
    OBVIOUS
  <2>1. u \in 1 .. I!Said
    BY Lengths
  <2>2. transfer.says[u].does = "send" => transfer.says[u].byte \in Seq(I!Bit)
    BY <2>1, DoesSay, I2cBounds
  <2> QED
    BY <2>1, <2>2, DoesSay DEF I!Word, Word
<1>2. k \in Nat /\ k - 1 \in Nat /\ k = (k - 1) + 1
  BY Lengths
<1>3. w(k) \in Seq(Word) /\ w(k - 1) \in Seq(Word) /\ Len(w(k)) = k /\ Len(w(k - 1)) = k - 1
  BY <1>1, <1>2
<1>4. w(k) = Append(w(k - 1), I!Word(transfer.says[k]))
  BY <1>2, <1>3
<1> QED
  BY <1>4 DEF I!Words

LEMMA WordsNone == I!Words(0) = <<>>
BY DEF I!Words
-----------------------------------------------------------------------------
(* What the master's steps preserve.                                       *)

LEMMA TypesKept ==
  ASSUME I2cTypes, transfer' = transfer, device' \in Devices, got' \in Seq(I!Bit), step' \in 1 .. I!Stops + 1,
         round' \in 0 .. I!Last, pin' \in 1 .. 6, rst' \in I!Bit, out' \in I!Bit, dout' \in I!Bit, scl' \in I!Bit
  PROVE  I2cTypes'
<1>1. I!Stops' = I!Stops /\ I!Last' = I!Last /\ I!Transfers' = I!Transfers /\ Devices' = Devices /\ I!Bit' = I!Bit
  BY Stays DEF I!Last, Devices, Word
<1> QED
  BY <1>1 DEF I2cTypes

LEMMA SdaHeld ==
  ASSUME I2cTypes, out = 1, ~device.low
  PROVE  I!Sda0 = dout /\ I!Line(1, 0, device) = 0 /\ I!Line(1, 1, device) = 1
BY DEF I!Sda0, I!Line, I2cTypes, I!Bit

LEMMA StartSteps ==
  ASSUME I2cInv, I!Next, step \in 1 .. I!Said, transfer.says[step].does = "start"
  PROVE  I2cInv'
<1>0. I2cTypes /\ AtStart
  BY DEF I2cInv
<1>1. I!Running /\ I!Does(step).does = "start" /\ step + 1 \in 1 .. I!Stops + 1 /\ step \in 1 .. I!Stops + 1
      /\ step \in Nat /\ step \in 1 .. I!Stops
  BY <1>0, Lengths, DoesSay
<1>2. pin \in 1 .. 5 /\ round = I!Last /\ round \in 0 .. I!Last /\ 1 \in I!Bit /\ 0 \in I!Bit /\ I!Sda0 \in I!Bit
      /\ device \in Devices /\ scl \in I!Bit /\ rst \in I!Bit /\ got \in Seq(I!Bit) /\ out \in I!Bit /\ dout \in I!Bit
      /\ ~(round < I!Last)
  BY <1>0, <1>1, LineBit, Lengths DEF I2cTypes, AtStart, I!Bit, I!Sda0
\* To stay in the step, at the next pin
<1>3. ASSUME transfer' = transfer, step' = step, I2cTypes', AtStart' PROVE I2cInv'
  <2>1. I!Said' = I!Said /\ I!Stops' = I!Stops /\ step' \in 1 .. I!Said' /\ transfer'.says[step'].does = "start"
    BY <1>3, Stays
  <2>2. ~(step' > I!Stops') /\ step' # I!Stops' /\ ~(step' \in I!Said' + 1 .. I!Stops' - 1)
    <3>1. step' \in 1 .. I!Said /\ I!Said \in Nat /\ I!Stops \in Nat /\ I!Said < I!Stops
      BY <2>1, <1>0, Lengths
    <3> QED
      BY <2>1, <3>1
  <2> QED
    BY <1>3, <2>1, <2>2 DEF I2cInv
<1>l. Len(I!Pins) = 5
  BY <1>1, StartRow
<1>4. CASE pin = 1
  <2>1. I!Op = I!Pin("out", 1)
    BY <1>4, <1>1, StartRow
  <2>2. /\ I!Goes /\ out' = 1 /\ dout' = dout /\ scl' = scl /\ UNCHANGED <<transfer, rst, got>>
        /\ device' \in I!Sees(device, I!Sda0, scl, I!Line(1, dout, device), scl)
    BY <2>1, <1>1, OpOut
  <2>3. device' = device
    BY <2>2, <1>0, <1>2, SeesNothing DEF I!Sda0, AtStart
  <2>4. pin' = 2 /\ step' = step /\ round' = round
    BY <1>l, <2>2, <1>4, Goings
  <2>5. I2cTypes'
    BY <2>2, <2>3, <2>4, <1>0, <1>1, <1>2, TypesKept
  <2>6. AtStart'
    BY <2>2, <2>3, <2>4, <1>0, <1>4, Stays DEF AtStart, Still, Sound, Hung, Hears, I!Last
  <2> QED
    BY <2>2, <2>4, <2>5, <2>6, <1>3
<1>5. CASE pin = 2
  <2>1. I!Op = I!Sda(1)
    BY <1>5, <1>1, StartRow
  <2>2. /\ I!Goes /\ out' = out /\ dout' = 1 /\ scl' = scl /\ UNCHANGED <<transfer, rst, got>>
        /\ device' \in I!Sees(device, I!Sda0, scl, I!Line(out, 1, device), scl)
    BY <2>1, <1>1, OpSda
  <2>3. device' = device
    <3>1. scl = 0 \/ I!Line(out, 1, device) = I!Sda0
      BY <1>0, <1>5 DEF I!Sda0, AtStart
    <3>2. I!Line(out, 1, device) \in I!Bit
      BY LineBit
    <3> QED
      BY <3>1, <3>2, <2>2, <1>2, SeesNothing
  <2>4. pin' = 3 /\ step' = step /\ round' = round
    BY <1>l, <2>2, <1>5, Goings
  <2>5. I2cTypes'
    BY <2>2, <2>3, <2>4, <1>0, <1>1, <1>2, TypesKept
  <2>6. AtStart'
    BY <2>2, <2>3, <2>4, <1>0, <1>5, Stays DEF AtStart, Still, Sound, Hung, Hears, I!Last
  <2> QED
    BY <2>2, <2>4, <2>5, <2>6, <1>3
<1>6. CASE pin = 3
  <2>1. I!Op = I!Scl(1)
    BY <1>6, <1>1, StartRow
  <2>2. /\ I!Goes /\ out' = out /\ dout' = dout /\ scl' = 1 /\ UNCHANGED <<transfer, rst, got>>
        /\ device' \in I!Sees(device, I!Sda0, scl, I!Sda0, 1)
    BY <2>1, <1>1, OpScl
  <2>3. /\ device' \in Devices /\ device'.heard = device.heard /\ device'.sent = device.sent
        /\ device'.is \in {"idle", "hears"} /\ ~device'.low
    <3>1. CASE scl = 1
      BY <3>1, <2>2, <1>0, <1>2, <1>6, SeesNothing DEF AtStart, Hung, Hears
    <3>2. CASE scl = 0
      <4>1. device' = I!Rises(device, I!Sda0)
        BY <3>2, <2>2, SeesRise
      <4>2. ~device.low /\ device.is \in {"idle", "hears"}
        BY <3>2, <1>0, <1>6 DEF AtStart, Hung, Hears
      <4>3. CASE device.is = "hears"
        <5>1. device \in Devices /\ I!Sda0 \in I!Bit
          BY <1>2
        <5>2. /\ device' \in Devices /\ device'.is = "hears" /\ ~device'.low
              /\ device'.heard = device.heard /\ device'.sent = device.sent
          BY <4>1, <4>2, <4>3, <5>1, RisesHearing
        <5> QED
          BY <5>2
      <4>4. CASE device.is = "idle"
        <5>1. device' = device
          BY <4>1, <4>4, RisesIdle
        <5> QED
          BY <4>2, <5>1, <1>2
      <4> QED
        BY <4>2, <4>3, <4>4
    <3> QED
      BY <3>1, <3>2, <1>2 DEF I!Bit
  <2>4. pin' = 4 /\ step' = step /\ round' = round
    BY <1>l, <2>2, <1>6, Goings
  <2>5. I2cTypes'
    BY <2>2, <2>3, <2>4, <1>0, <1>1, <1>2, TypesKept
  <2>6. AtStart'
    BY <2>2, <2>3, <2>4, <1>0, <1>6, Stays DEF AtStart, Still, Sound, Hung, Hears, I!Last
  <2> QED
    BY <2>2, <2>4, <2>5, <2>6, <1>3
<1>7. CASE pin = 4
  <2>1. I!Op = I!Sda(0)
    BY <1>7, <1>1, StartRow
  <2>2. /\ I!Goes /\ out' = out /\ dout' = 0 /\ scl' = scl /\ UNCHANGED <<transfer, rst, got>>
        /\ device' \in I!Sees(device, I!Sda0, scl, I!Line(out, 0, device), scl)
    BY <2>1, <1>1, OpSda
  <2>3. device' = I!Started(device)
    BY <2>2, <1>0, <1>7, SdaHeld, SeesStart DEF AtStart, Hung, Hears
  <2>4. pin' = 5 /\ step' = step /\ round' = round
    BY <1>l, <2>2, <1>7, Goings
  <2>5. I2cTypes'
    <3>1. device' \in Devices
      BY <2>3, <1>2, StartedIs
    <3> QED
      BY <3>1, <2>2, <2>4, <1>0, <1>1, <1>2, TypesKept
  <2>6. device'.heard = I!Words(step)
    <3>1. I!Words(step) = Append(I!Words(step - 1), "start")
      BY <1>0, WordsNext DEF I!Word
    <3> QED
      BY <3>1, <2>3, <1>0, <1>2, <1>7, StartedIs DEF AtStart, Sound
  <2>7. AtStart'
    <3>1. device'.is = "hears" /\ ~device'.low /\ device'.byte = <<>> /\ device'.first /\ device'.sent = device.sent
      BY <2>3, <1>2, StartedIs
    <3> QED
      BY <3>1, <2>2, <2>4, <2>6, <1>0, <1>7, Stays DEF AtStart, Still, Sound, Hears, I!Last
  <2> QED
    BY <2>2, <2>4, <2>5, <2>7, <1>3
<1>8. CASE pin = 5
  <2>1. I!Op = I!Scl(0)
    BY <1>8, <1>1, StartRow
  <2>2. /\ I!Goes /\ out' = out /\ dout' = dout /\ scl' = 0 /\ UNCHANGED <<transfer, rst, got>>
        /\ device' \in I!Sees(device, I!Sda0, scl, I!Sda0, 0)
    BY <2>1, <1>1, OpScl
  <2>3. device' = device
    <3>1. device' \in I!Falls(device)
      BY <2>2, <1>0, <1>8, SeesFall DEF AtStart
    <3>2. device.is = "hears" /\ Len(device.byte) # Bits
      BY <1>0, <1>8, Lengths DEF AtStart, Hears
    <3> QED
      BY <3>1, <3>2, <1>2, FallsElse
  <2>4. step + 1 \in 1 .. I!Said /\ transfer.says[step + 1].does = "send"
    BY <1>0, Lengths DEF Shape, Speech, I!Said
  <2>5. pin' = 1 /\ step' = step + 1 /\ round' = 1
    BY <1>l, <2>2, <2>4, <1>0, <1>2, <1>8, Goings, DoesSay DEF I!First
  <2>6. I2cTypes'
    BY <2>2, <2>3, <2>5, <1>0, <1>1, <1>2, Lengths, TypesKept
  <2>7. AtBit'
    BY <2>2, <2>3, <2>5, <1>0, <1>1, <1>8, Stays, Lengths DEF AtStart, AtBit, Still, Sound, Hears, Has, Addressed
  <2>8. I!Said' = I!Said /\ I!Stops' = I!Stops /\ transfer'.says[step'].does # "start" /\ round' # I!Last' /\ step' > 1
    BY <2>2, <2>4, <2>5, <1>0, <1>1, Lengths, Stays DEF I!Last
  <2>9. step' \in 1 .. I!Said' /\ ~(step' > I!Stops') /\ step' # I!Stops' /\ ~(step' \in I!Said' + 1 .. I!Stops' - 1)
    BY <2>8, <2>4, <2>5, <1>0, Lengths
  <2> QED
    BY <2>6, <2>7, <2>8, <2>9 DEF I2cInv
<1> QED
  BY <1>2, <1>4, <1>5, <1>6, <1>7, <1>8

LEMMA StaySaid ==
  ASSUME I2cTypes, step \in 1 .. I!Said, transfer' = transfer, step' = step, I2cTypes',
         \/ transfer.says[step].does = "start" /\ AtStart'
         \/ /\ transfer.says[step].does = "send" /\ step > 1
            /\ IF round' = I!Last THEN AtAck' ELSE AtBit'
  PROVE  I2cInv'
<1>1. I!Said' = I!Said /\ I!Stops' = I!Stops /\ step' \in 1 .. I!Said' /\ transfer'.says[step'].does = transfer.says[step].does
  BY Stays
<1>2. ~(step' > I!Stops') /\ step' # I!Stops' /\ ~(step' \in I!Said' + 1 .. I!Stops' - 1) /\ I!Last' = I!Last
  BY <1>1, Lengths DEF I!Last
<1>3. CASE transfer.says[step].does = "start" /\ AtStart'
  BY <1>1, <1>2, <1>3 DEF I2cInv
<1>4. CASE /\ transfer.says[step].does = "send" /\ step > 1
           /\ IF round' = I!Last THEN AtAck' ELSE AtBit'
  <2>1. step' > 1 /\ transfer'.says[step'].does # "start"
    BY <1>1, <1>4
  <2> QED
    BY <1>1, <1>2, <1>4, <2>1 DEF I2cInv
<1> QED
  BY <1>3, <1>4

LEMMA BitSteps ==
  ASSUME I2cInv, I!Next, step \in 1 .. I!Said, transfer.says[step].does = "send", round # I!Last
  PROVE  I2cInv'
<1> DEFINE B == transfer.says[step].byte
<1>0. I2cTypes /\ AtBit /\ step > 1
  BY DEF I2cInv
<1>1. I!Running /\ I!Does(step).does = "send" /\ I!Does(step).byte = B /\ B \in [1 .. Bits -> I!Bit]
  BY <1>0, Lengths, DoesSay
<1>2. /\ pin \in 1 .. 3 /\ round \in 1 .. Bits /\ round < I!Last /\ round \in 0 .. I!Last /\ round + 1 \in 0 .. I!Last
      /\ step \in 1 .. I!Stops + 1 /\ Bits \in Nat
  BY <1>0, Lengths DEF AtBit
<1>3. /\ 1 \in I!Bit /\ 0 \in I!Bit /\ I!Sda0 \in I!Bit /\ B[round] \in I!Bit
      /\ device \in Devices /\ scl \in I!Bit /\ rst \in I!Bit /\ got \in Seq(I!Bit) /\ out \in I!Bit /\ dout \in I!Bit
  BY <1>0, <1>1, <1>2, LineBit DEF I2cTypes, I!Bit, I!Sda0
<1>l. Len(I!Pins) = 3
  BY <1>1, <1>2, BitRow
<1>4. CASE pin = 1
  <2>1. I!Op = I!Sda(B[round])
    BY <1>4, <1>1, <1>2, BitRow
  <2>2. /\ I!Goes /\ out' = out /\ dout' = B[round] /\ scl' = scl /\ UNCHANGED <<transfer, rst, got>>
        /\ device' \in I!Sees(device, I!Sda0, scl, I!Line(out, B[round], device), scl)
    BY <2>1, <1>1, OpSda
  <2>3. device' = device
    <3>1. I!Line(out, B[round], device) \in I!Bit /\ scl = 0
      BY <1>0, <1>4, LineBit DEF AtBit
    <3> QED
      BY <3>1, <2>2, <1>3, SeesNothing
  <2>4. pin' = 2 /\ step' = step /\ round' = round
    BY <1>l, <2>2, <1>4, Goings
  <2>5. I2cTypes'
    BY <2>2, <2>3, <2>4, <1>0, <1>2, <1>3, TypesKept
  <2>6. AtBit'
    BY <2>2, <2>3, <2>4, <1>0, <1>2, <1>4, Stays DEF AtBit, Still, Sound, Hears, Has, Addressed
  <2> QED
    BY <2>2, <2>4, <2>5, <2>6, <1>0, StaySaid
<1>5. CASE pin = 2
  <2>1. I!Op = I!Scl(1)
    BY <1>5, <1>1, <1>2, BitRow
  <2>2. /\ I!Goes /\ out' = out /\ dout' = dout /\ scl' = 1 /\ UNCHANGED <<transfer, rst, got>>
        /\ device' \in I!Sees(device, I!Sda0, scl, I!Sda0, 1)
    BY <2>1, <1>1, OpScl
  <2>3. I!Sda0 = B[round] /\ scl = 0 /\ device.is = "hears" /\ ~device.low
    <3>1. out = 1 /\ ~device.low /\ dout = B[round] /\ scl = 0 /\ device.is = "hears"
      BY <1>0, <1>5 DEF AtBit, Hears
    <3> QED
      BY <3>1, <1>0, SdaHeld
  <2>4. device' = I!Rises(device, B[round])
    BY <2>2, <2>3, SeesRise
  <2>5. /\ device' \in Devices /\ device'.is = "hears" /\ ~device'.low /\ device'.byte = Append(device.byte, B[round])
        /\ device'.heard = device.heard /\ device'.sent = device.sent /\ device'.first = device.first
    <3>1. device \in Devices /\ B[round] \in I!Bit
      BY <1>3
    <3> HIDE DEF B
    <3> QED
      BY <2>3, <2>4, <3>1, RisesHearing
  <2>6. pin' = 3 /\ step' = step /\ round' = round
    BY <1>l, <2>2, <1>5, Goings
  <2>7. I2cTypes'
    BY <2>2, <2>5, <2>6, <1>0, <1>2, <1>3, TypesKept
  <2>8. Has(round)'
    <3>1. Len(device.byte) = round - 1 /\ \A j \in 1 .. round - 1 : device.byte[j] = B[j]
      BY <1>0, <1>5 DEF AtBit, Has
    <3>2. device.byte \in Seq(I!Bit)
      BY <1>3 DEF Devices
    <3>3. Len(device'.byte) = round /\ \A j \in 1 .. round : device'.byte[j] = B[j]
      BY <3>1, <3>2, <2>5, <1>2
    <3> QED
      BY <3>3, <2>2, <2>6 DEF Has
  <2>9. AtBit'
    BY <2>2, <2>5, <2>6, <2>8, <1>0, <1>2, <1>5, Stays DEF AtBit, Still, Sound, Hears, Addressed
  <2> QED
    BY <2>2, <2>6, <2>7, <2>9, <1>0, <1>2, StaySaid
<1>6. CASE pin = 3
  <2>1. I!Op = I!Scl(0)
    BY <1>6, <1>1, <1>2, BitRow
  <2>2. /\ I!Goes /\ out' = out /\ dout' = dout /\ scl' = 0 /\ UNCHANGED <<transfer, rst, got>>
        /\ device' \in I!Sees(device, I!Sda0, scl, I!Sda0, 0)
    BY <2>1, <1>1, OpScl
  <2>3. device' \in I!Falls(device) /\ device.is = "hears" /\ Len(device.byte) = round
    BY <2>2, <1>0, <1>6, SeesFall DEF AtBit, Hears, Has
  <2>4. pin' = 1 /\ step' = step /\ round' = round + 1
    BY <1>l, <1>2, <2>2, <1>6, Goings
  <2>5. CASE round < Bits
    <3>1. device' = device
      BY <2>3, <2>5, <1>2, <1>3, FallsElse
    <3>2. I2cTypes'
      BY <2>2, <2>4, <3>1, <1>0, <1>2, <1>3, TypesKept
    <3>3. round' \in 1 .. Bits /\ round' # I!Last
      BY <2>4, <2>5, <1>2, <1>0, Lengths
    <3>4. AtBit'
      BY <2>2, <2>4, <3>1, <3>3, <1>0, <1>2, <1>6, Stays DEF AtBit, Still, Sound, Hears, Has, Addressed
    <3> QED
      BY <2>2, <2>4, <3>2, <3>3, <3>4, <1>0, <1>2, StaySaid
  <2>6. CASE round = Bits
    <3>1. device.byte = B
      <4>1. device.byte \in Seq(I!Bit) /\ Len(device.byte) = Bits /\ \A j \in 1 .. Bits : device.byte[j] = B[j]
        BY <1>0, <1>3, <1>6, <2>6 DEF AtBit, Has, Devices
      <4>2. device.byte \in [1 .. Bits -> I!Bit]
        BY <4>1, <1>2
      <4> QED
        BY <4>1, <4>2, <1>1
    <3>2. /\ device' \in Devices /\ device'.heard = Append(device.heard, B) /\ device'.sent = device.sent
          /\ \/ device'.is = "acks" /\ device'.low /\ device'.byte = B /\ device'.first = device.first
             \/ device'.is = "idle" /\ ~device'.low
      BY <2>3, <2>6, <3>1, <1>3, FallsHeard
    <3>3. I2cTypes'
      BY <2>2, <2>4, <3>2, <1>0, <1>2, <1>3, TypesKept
    <3>4. device'.heard = I!Words(step)
      <4>1. I!Words(step) = Append(I!Words(step - 1), B)
        BY <1>0, WordsNext DEF I!Word
      <4> QED
        BY <4>1, <3>2, <1>0, <1>6 DEF AtBit, Sound
    <3>5. round' = I!Last /\ I!Last' = I!Last
      BY <2>4, <2>6, <1>0, Lengths DEF I!Last
    <3>6. Sound(step)' /\ Still'
      BY <3>4, <3>2, <2>2, <2>4, <1>0, Stays DEF Sound, Still, AtBit
    <3>7. AtAck'
      BY <2>2, <2>4, <3>2, <3>5, <3>6, <1>0, <1>6 DEF AtBit, AtAck, Hung, Addressed
    <3> QED
      BY <2>2, <2>4, <3>3, <3>5, <3>7, <1>0, StaySaid
  <2> QED
    BY <2>5, <2>6, <1>2
<1> QED
  BY <1>2, <1>4, <1>5, <1>6

LEMMA ToSaid ==
  ASSUME I2cTypes, transfer' = transfer, NEW k \in 1 .. I!Said, step' = k, I2cTypes',
         \/ transfer.says[k].does = "start" /\ AtStart'
         \/ transfer.says[k].does = "send" /\ k > 1 /\ round' # I!Last /\ AtBit'
  PROVE  I2cInv'
<1>1. I!Said' = I!Said /\ I!Stops' = I!Stops /\ step' \in 1 .. I!Said' /\ transfer'.says[step'].does = transfer.says[k].does
  BY Stays
<1>2. ~(step' > I!Stops') /\ step' # I!Stops' /\ ~(step' \in I!Said' + 1 .. I!Stops' - 1) /\ I!Last' = I!Last
  BY <1>1, Lengths DEF I!Last
<1>3. CASE transfer.says[k].does = "start" /\ AtStart'
  BY <1>1, <1>2, <1>3 DEF I2cInv
<1>4. CASE transfer.says[k].does = "send" /\ k > 1 /\ round' # I!Last /\ AtBit'
  BY <1>1, <1>2, <1>4 DEF I2cInv
<1> QED
  BY <1>3, <1>4

LEMMA ToRead ==
  ASSUME I2cTypes, transfer' = transfer, NEW k \in I!Said + 1 .. I!Stops - 1, step' = k, I2cTypes', AtRead'
  PROVE  I2cInv'
<1>1. I!Said' = I!Said /\ I!Stops' = I!Stops
  BY Stays
<1>2. ~(step' > I!Stops') /\ step' # I!Stops' /\ ~(step' \in 1 .. I!Said')
  BY <1>1, Lengths
<1> QED
  BY <1>1, <1>2 DEF I2cInv

LEMMA ToStop ==
  ASSUME I2cTypes, transfer' = transfer, step' = I!Stops, I2cTypes', AtStop'
  PROVE  I2cInv'
<1>1. I!Said' = I!Said /\ I!Stops' = I!Stops
  BY Stays
<1>2. ~(step' > I!Stops') /\ ~(step' \in 1 .. I!Said') /\ ~(step' \in I!Said' + 1 .. I!Stops' - 1)
  BY <1>1, Lengths
<1> QED
  BY <1>1, <1>2 DEF I2cInv

\* The step after one that has gone well.
LEMMA FirstRounds ==
  ASSUME I2cTypes, NEW k \in 1 .. I!Stops + 1
  PROVE  /\ k \in 1 .. I!Said => I!First(I!Does(k)) = IF transfer.says[k].does = "start" THEN I!Last ELSE 1
         /\ k \in I!Said + 1 .. I!Stops - 1 => I!First(I!Does(k)) = 0
         /\ k >= I!Stops => I!First(I!Does(k)) = I!Last
         /\ I!First(I!Does(k)) \in 0 .. I!Last
<1>1. CASE k \in 1 .. I!Said
  <2>1. ~(k \in I!Said + 1 .. I!Stops - 1) /\ ~(k >= I!Stops) /\ I!Last \in 0 .. I!Last /\ 1 \in 0 .. I!Last
    BY <1>1, Lengths
  <2> QED
    BY <1>1, <2>1, DoesSay DEF I!First
<1>2. CASE k \in I!Said + 1 .. I!Stops - 1
  <2>1. ~(k \in 1 .. I!Said) /\ ~(k >= I!Stops) /\ 0 \in 0 .. I!Last
    BY <1>2, Lengths
  <2> QED
    BY <1>2, <2>1, DoesRead DEF I!First
<1>3. CASE k >= I!Stops
  <2>1. ~(k \in I!Said + 1 .. I!Stops - 1) /\ ~(k \in 1 .. I!Said) /\ I!Last \in 0 .. I!Last /\ k \in Nat
    BY <1>3, Lengths
  <2> QED
    BY <1>3, <2>1, DoesStop DEF I!First
<1> QED
  BY <1>1, <1>2, <1>3, Lengths

\* The address that calls for the reads is the last that is said.
LEMMA CallsForReads ==
  ASSUME I2cTypes, step \in 2 .. I!Said, transfer.says[step].does = "send"
  PROVE  Reading <=> /\ transfer.says[step - 1].does = "start"
                     /\ transfer.says[step].byte[Bits] = 1
<1>1. Speech(transfer.says, transfer.reads) /\ I!Said = Len(transfer.says)
  BY Lengths DEF Shape, I!Said
<1>2. CASE transfer.says[step - 1].does = "start"
  <2>1. step - 1 \in 1 .. Len(transfer.says) - 1 /\ (step - 1) + 1 = step
    BY <1>1, Lengths
  <2>2. transfer.says[step].byte[Bits] = IF step = I!Said /\ transfer.reads # <<>> THEN 1 ELSE 0
    BY <1>1, <1>2, <2>1 DEF Speech
  <2> QED
    BY <1>2, <2>2 DEF Reading
<1>3. CASE transfer.says[step - 1].does # "start"
  BY <1>1, <1>3 DEF Reading, Speech
<1> QED
  BY <1>2, <1>3

LEMMA BitProducts == \A p, q \in Nat : p * q \in Nat
BY Z3

LEMMA More == \A m \in Nat, n \in Nat, u \in Nat : m < n /\ u < Bits => Bits * m + u < Bits * n /\ Bits * m + Bits = Bits * (m + 1)
<1> SUFFICES ASSUME NEW m \in Nat, NEW n \in Nat, NEW u \in Nat, m < n, u < Bits
             PROVE  Bits * m + u < Bits * n /\ Bits * m + Bits = Bits * (m + 1)
  OBVIOUS
<1>1. PICK d \in Nat : n = m + 1 + d
  <2>1. n - m - 1 \in Nat /\ n = m + 1 + (n - m - 1)
    OBVIOUS
  <2> QED
    BY <2>1
<1>2. Bits \in Nat
  BY I2cBounds
<1>3. Bits * n = Bits * m + Bits + Bits * d /\ Bits * d \in Nat /\ Bits * m \in Nat /\ Bits * (m + 1) = Bits * m + Bits
  BY <1>1, <1>2, Z3
<1> QED
  BY <1>2, <1>3

LEMMA AckSteps ==
  ASSUME I2cInv, I!Next, step \in 1 .. I!Said, transfer.says[step].does = "send", round = I!Last
  PROVE  I2cInv'
<1> DEFINE B == transfer.says[step].byte
<1>0. I2cTypes /\ AtAck /\ step > 1 /\ step \in Nat
  BY DEF I2cInv, I2cTypes
<1>1. I!Running /\ I!Does(step).does = "send"
  BY <1>0, Lengths, DoesSay
<1>2. /\ pin \in 1 .. 6 /\ ~(round < I!Last) /\ round \in 0 .. I!Last
      /\ step \in 1 .. I!Stops + 1 /\ Bits \in Nat /\ I!Last \in Nat
  BY <1>0, Lengths DEF AtAck
<1>3. /\ 1 \in I!Bit /\ 0 \in I!Bit /\ I!Sda0 \in I!Bit
      /\ device \in Devices /\ scl \in I!Bit /\ rst \in I!Bit /\ got \in Seq(I!Bit) /\ out \in I!Bit /\ dout \in I!Bit
  BY <1>0, <1>2, LineBit DEF I2cTypes, I!Bit, I!Sda0
<1>l. Len(I!Pins) = 6
  BY <1>1, <1>2, AckRow
<1>m. I!Last' = I!Last
  BY DEF I!Last
<1>4. CASE pin = 1
  <2>1. I!Op = I!Pin("out", 0)
    BY <1>4, <1>1, <1>2, AckRow
  <2>2. /\ I!Goes /\ out' = 0 /\ dout' = dout /\ scl' = scl /\ UNCHANGED <<transfer, rst, got>>
        /\ device' \in I!Sees(device, I!Sda0, scl, I!Line(0, dout, device), scl)
    BY <2>1, <1>1, OpOut
  <2>3. device' = device
    <3>1. I!Line(0, dout, device) \in I!Bit /\ scl = 0
      BY <1>0, <1>4, LineBit DEF AtAck
    <3> QED
      BY <3>1, <2>2, <1>3, SeesNothing
  <2>4. pin' = 2 /\ step' = step /\ round' = round
    BY <1>l, <2>2, <1>4, Goings
  <2>5. I2cTypes'
    BY <2>2, <2>3, <2>4, <1>0, <1>2, <1>3, TypesKept
  <2>6. AtAck'
    BY <2>2, <2>3, <2>4, <1>0, <1>m, <1>4, Stays DEF AtAck, Still, Sound, Hung, Addressed
  <2> QED
    BY <2>2, <2>4, <2>5, <2>6, <1>0, <1>m, StaySaid
<1>5. CASE pin = 2
  <2>1. I!Op = I!Scl(1)
    BY <1>5, <1>1, <1>2, AckRow
  <2>2. /\ I!Goes /\ out' = out /\ dout' = dout /\ scl' = 1 /\ UNCHANGED <<transfer, rst, got>>
        /\ device' \in I!Sees(device, I!Sda0, scl, I!Sda0, 1)
    BY <2>1, <1>1, OpScl
  <2>3. device' = device
    <3>1. scl = 0 /\ device.is \in {"acks", "idle"}
      BY <1>0, <1>5 DEF AtAck, Hung
    <3>2. device' = I!Rises(device, I!Sda0)
      BY <3>1, <2>2, SeesRise
    <3> QED
      BY <3>1, <3>2 DEF I!Rises
  <2>4. pin' = 3 /\ step' = step /\ round' = round
    BY <1>l, <2>2, <1>5, Goings
  <2>5. I2cTypes'
    BY <2>2, <2>3, <2>4, <1>0, <1>2, <1>3, TypesKept
  <2>6. AtAck'
    BY <2>2, <2>3, <2>4, <1>0, <1>m, <1>5, Stays DEF AtAck, Still, Sound, Hung, Addressed
  <2> QED
    BY <2>2, <2>4, <2>5, <2>6, <1>0, <1>m, StaySaid
<1>6. CASE pin = 3
  <2>1. I!Op = I!SampleAck
    BY <1>6, <1>1, <1>2, AckRow
  <2>2. I!Goes /\ rst' = I!Sda0 /\ UNCHANGED <<transfer, out, dout, scl, device, got>>
    BY <2>1, <1>1, OpAck
  <2>3. rst' = IF device.low THEN 0 ELSE 1
    BY <2>2, <1>0, <1>6 DEF I!Sda0, I!Line, AtAck
  <2>4. pin' = 4 /\ step' = step /\ round' = round
    BY <1>l, <2>2, <1>6, Goings
  <2>5. I2cTypes'
    BY <2>2, <2>4, <1>0, <1>2, <1>3, TypesKept
  <2>6. AtAck'
    BY <2>2, <2>3, <2>4, <1>0, <1>m, <1>6, Stays DEF AtAck, Still, Sound, Hung, Addressed
  <2> QED
    BY <2>2, <2>4, <2>5, <2>6, <1>0, <1>m, StaySaid
<1>7. CASE pin = 4
  <2>1. I!Op = I!Scl(0)
    BY <1>7, <1>1, <1>2, AckRow
  <2>2. /\ I!Goes /\ out' = out /\ dout' = dout /\ scl' = 0 /\ UNCHANGED <<transfer, rst, got>>
        /\ device' \in I!Sees(device, I!Sda0, scl, I!Sda0, 0)
    BY <2>1, <1>1, OpScl
  <2>3. device' \in I!Falls(device) /\ Sound(step) /\ Still /\ out = 0
    BY <2>2, <1>0, <1>7, SeesFall DEF AtAck
  <2>4. pin' = 5 /\ step' = step /\ round' = round
    BY <1>l, <2>2, <1>7, Goings
  <2>5. device' \in Devices /\ device'.heard = device.heard /\ IF rst = 0 THEN Replies' ELSE Hung' /\ device'.sent = <<>>
    <3>1. CASE device.is = "acks" /\ device.byte = B /\ rst = 0 /\ Addressed
      <4>1. Reading <=> device.first /\ device.byte[Bits] = 1
        BY <3>1, <1>0, CallsForReads DEF Addressed
      <4>2. Reading' = Reading
        BY <2>2, <2>4, Stays DEF Reading
      <4>3. CASE Reading
        <5>1. PICK r \in Devices : r.bits = 0 /\ r.sent = <<>> /\ r.heard = device.heard /\ device' \in I!Speaks(r)
          BY <4>1, <4>3, <2>3, <3>1, <1>3, FallsAcked DEF Still
        <5>2. I!HasMore(r)
          <6>1. Len(transfer.reads) \in Nat /\ Len(transfer.reads) > 0
            BY <4>3, <1>0, Lengths DEF Reading, Shape, Responses
          <6>2. Bits * 0 + 0 < Bits * Len(transfer.reads)
            BY <6>1, <1>0, Lengths, More
          <6>3. Len(r.sent) < Bits * Len(transfer.reads)
            BY <6>2, <5>1, <1>2
          <6> QED
            BY <6>3 DEF I!HasMore
        <5>3. /\ device' \in Devices /\ device'.is = "speaks" /\ device'.heard = device.heard
              /\ device'.bits = 1 /\ device'.sent = Append(<<>>, IF device'.low THEN 0 ELSE 1)
          BY <5>1, <5>2, SpeaksIs
        <5>4. got' = <<>> /\ Len(device'.sent) = 1
          BY <5>3, <2>2, <2>3 DEF Still
        <5> QED
          BY <5>3, <5>4, <4>2, <4>3, <3>1 DEF Replies
      <4>4. CASE ~Reading
        <5>1. /\ device' \in Devices /\ device'.heard = device.heard
              /\ device'.is = "hears" /\ ~device'.low /\ device'.byte = <<>> /\ ~device'.first /\ device'.sent = device.sent
          BY <4>1, <4>4, <2>3, <3>1, <1>3, FallsAcked
        <5> QED
          BY <5>1, <4>2, <4>4, <3>1, <2>2, <2>3 DEF Replies, Hears, Still
      <4> QED
        BY <4>3, <4>4
    <3>2. CASE Hung /\ rst = 1
      <4>1. device' = device
        BY <3>2, <2>3, <1>3, FallsElse DEF Hung
      <4> QED
        BY <4>1, <3>2, <2>3, <1>3 DEF Hung, Still
    <3> QED
      BY <3>1, <3>2, <1>0, <1>7 DEF AtAck
  <2>6. I2cTypes'
    BY <2>2, <2>4, <2>5, <1>0, <1>2, <1>3, TypesKept
  <2>7. AtAck'
    BY <2>2, <2>3, <2>4, <2>5, <1>m, <1>7, Stays DEF AtAck, Still, Sound
  <2> QED
    BY <2>2, <2>4, <2>6, <2>7, <1>0, <1>m, StaySaid
<1>8. CASE pin = 5
  <2>1. I!Op = I!Pin("out", 1)
    BY <1>8, <1>1, <1>2, AckRow
  <2>2. /\ I!Goes /\ out' = 1 /\ dout' = dout /\ scl' = scl /\ UNCHANGED <<transfer, rst, got>>
        /\ device' \in I!Sees(device, I!Sda0, scl, I!Line(1, dout, device), scl)
    BY <2>1, <1>1, OpOut
  <2>3. device' = device
    <3>1. I!Line(1, dout, device) \in I!Bit /\ scl = 0
      BY <1>0, <1>8, LineBit DEF AtAck
    <3> QED
      BY <3>1, <2>2, <1>3, SeesNothing
  <2>4. pin' = 6 /\ step' = step /\ round' = round
    BY <1>l, <2>2, <1>8, Goings
  <2>5. I2cTypes'
    BY <2>2, <2>3, <2>4, <1>0, <1>2, <1>3, TypesKept
  <2>6. AtAck'
    BY <2>2, <2>3, <2>4, <1>0, <1>m, <1>8, Stays DEF AtAck, Still, Sound, Hung, Hears, Replies, Reading
  <2> QED
    BY <2>2, <2>4, <2>5, <2>6, <1>0, <1>m, StaySaid
<1>9. CASE pin = 6
  <2>1. I!Op = I!Check
    BY <1>9, <1>1, <1>2, AckRow
  <2>2. /\ IF rst = 0 THEN I!Goes ELSE I!GoTo(I!Stops)
        /\ UNCHANGED <<transfer, rst, out, dout, scl, device, got>>
    BY <2>1, <1>1, OpCheck
  <2>3. scl = 0 /\ out = 1 /\ Sound(step)
    BY <1>0, <1>9 DEF AtAck
  <2>4. CASE rst # 0
    <3>1. step' = I!Stops /\ round' = I!Last /\ pin' = 1
      <4>1. I!Stops \in 1 .. I!Stops + 1 /\ I!Stops >= I!Stops
        BY <1>0, Lengths
      <4>2. I!First(I!Does(I!Stops)) = I!Last
        BY <4>1, <1>0, FirstRounds
      <4> QED
        BY <4>2, <2>2, <2>4 DEF I!GoTo
    <3>2. I2cTypes'
      BY <2>2, <3>1, <1>0, <1>2, <1>3, Lengths, TypesKept
    <3>3. AtStop'
      BY <2>2, <2>3, <2>4, <3>1, <1>0, <1>9, <1>m, Stays DEF AtAck, AtStop, Spoken, Hung, Still, Sound
    <3> QED
      BY <2>2, <3>1, <3>2, <3>3, <1>0, ToStop
  <2>5. CASE rst = 0
    <3>1. pin' = 1 /\ step' = step + 1 /\ round' = I!First(I!Does(step + 1)) /\ Replies
      BY <2>2, <2>5, <1>l, <1>0, <1>2, <1>9, Goings DEF AtAck
    <3>2. step + 1 \in 1 .. I!Stops + 1 /\ I!Last \in 0 .. I!Last
      BY <1>0, Lengths
    <3>3. I2cTypes'
      BY <2>2, <3>1, <3>2, <1>0, <1>2, <1>3, FirstRounds, TypesKept
    <3>4. CASE step < I!Said
      <4>1. step + 1 \in 1 .. I!Said /\ ~Reading
        BY <3>4, <1>0, Lengths DEF Reading
      <4>2. CASE transfer.says[step + 1].does = "start"
        <5>1. round' = I!Last
          BY <4>1, <4>2, <3>1, <3>2, <1>0, FirstRounds
        <5>2. AtStart'
          BY <4>1, <5>1, <3>1, <2>2, <2>3, <2>5, <1>0, <1>m, Stays DEF AtStart, Replies, Hears, Still, Sound
        <5> QED
          BY <4>1, <4>2, <5>2, <3>1, <3>3, <2>2, <1>0, ToSaid
      <4>3. CASE transfer.says[step + 1].does # "start"
        <5>1. round' = 1 /\ transfer.says[step + 1].does = "send" /\ step + 1 > 1
          BY <4>1, <4>3, <3>1, <3>2, <1>0, FirstRounds, DoesSay
        <5>2. round' # I!Last /\ 1 \in 1 .. Bits /\ (step + 1) - 1 = step
          BY <5>1, <1>0, Lengths
        <5>3. AtBit'
          BY <4>1, <5>1, <5>2, <3>1, <2>2, <2>3, <2>5, <1>0, Stays
             DEF AtBit, Replies, Hears, Still, Sound, Addressed, Has
        <5> QED
          BY <4>1, <5>1, <5>2, <5>3, <3>1, <3>3, <2>2, <1>0, ToSaid
      <4> QED
        BY <4>2, <4>3
    <3>5. CASE step = I!Said /\ transfer.reads # <<>>
      <4>1. step + 1 \in I!Said + 1 .. I!Stops - 1 /\ Reading
        BY <3>5, <1>0, Lengths DEF Reading, Shape, Responses
      <4>2. round' = 0
        BY <4>1, <3>1, <3>2, <1>0, FirstRounds
      <4>3. Bits * ((step + 1) - I!Said - 1) = 0
        BY <3>5, <1>0, Lengths
      <4>4. Holds(1)'
        BY <4>1, <4>3, <3>1, <2>2, Stays DEF Replies, Holds
      <4>5. AtRead'
        BY <4>2, <4>4, <3>1, <3>5, <2>2, <2>3, <2>5, <1>0, <1>m, Lengths, Stays DEF AtRead, Sound
      <4> QED
        BY <4>1, <4>5, <3>1, <3>3, <2>2, <1>0, ToRead
    <3>6. CASE step = I!Said /\ transfer.reads = <<>>
      <4>1. step + 1 = I!Stops /\ ~Reading
        BY <3>6, <1>0, Lengths DEF Reading
      <4>2. round' = I!Last
        BY <4>1, <3>1, <3>2, <1>0, Lengths, FirstRounds
      <4>3. AtStop'
        BY <4>1, <4>2, <3>1, <3>6, <2>2, <2>3, <2>5, <1>m, Stays DEF AtStop, Spoken, Replies, Hears, Still, Sound
      <4> QED
        BY <4>1, <4>3, <3>1, <3>3, <2>2, <1>0, ToStop
    <3> QED
      BY <3>4, <3>5, <3>6, <1>0, Lengths
  <2> QED
    BY <2>4, <2>5
<1> QED
  BY <1>2, <1>4, <1>5, <1>6, <1>7, <1>8, <1>9

LEMMA StayRead ==
  ASSUME I2cTypes, step \in I!Said + 1 .. I!Stops - 1, transfer' = transfer, step' = step, I2cTypes', AtRead'
  PROVE  I2cInv'
BY ToRead

LEMMA ReadSteps ==
  ASSUME I2cInv, I!Next, step \in I!Said + 1 .. I!Stops - 1
  PROVE  I2cInv'
<1> DEFINE j == step - I!Said
           resp == transfer.reads[j]
<1>0. I2cTypes /\ AtRead /\ step \in Nat /\ rst = 0 /\ Sound(I!Said)
  BY Lengths DEF I2cInv, I2cTypes, AtRead
<1>1. I!Running /\ I!Does(step).does = "read" /\ I!Does(step).resp = resp /\ resp \in I!Bit /\ j \in 1 .. Len(transfer.reads)
  BY <1>0, Lengths, DoesRead
<1>2. /\ round \in 0 .. I!Last /\ Bits \in Nat /\ Bits > 0 /\ I!Last = Bits + 1
      /\ step \in 1 .. I!Stops + 1 /\ step + 1 \in 1 .. I!Stops + 1
  BY <1>0, Lengths, SMTT(20) DEF I2cTypes
<1>3. /\ 1 \in I!Bit /\ 0 \in I!Bit /\ I!Sda0 \in I!Bit
      /\ device \in Devices /\ scl \in I!Bit /\ rst \in I!Bit /\ got \in Seq(I!Bit) /\ out \in I!Bit /\ dout \in I!Bit
  BY <1>0, LineBit DEF I2cTypes, I!Bit, I!Sda0
<1>m. I!Last' = I!Last
  BY DEF I!Last
<1>4. CASE round = 0
  <2>1. I!Op = I!Pin("out", 0) /\ pin = 1 /\ scl = 0 /\ Holds(1)
    BY <1>0, <1>4, <1>1, ReadRow DEF AtRead
  <2>l. Len(I!Pins) = 1
    BY <1>0, <1>1, <1>4, ReadRow
  <2>2. /\ I!Goes /\ out' = 0 /\ dout' = dout /\ scl' = scl /\ UNCHANGED <<transfer, rst, got>>
        /\ device' \in I!Sees(device, I!Sda0, scl, I!Line(0, dout, device), scl)
    BY <2>1, <1>1, OpOut
  <2>3. device' = device
    <3>1. I!Line(0, dout, device) \in I!Bit
      BY LineBit
    <3> QED
      BY <3>1, <2>1, <2>2, <1>3, SeesNothing
  <2>4. pin' = 1 /\ step' = step /\ round' = 1
    BY <2>l, <2>1, <2>2, <1>2, <1>4, Goings
  <2>5. I2cTypes'
    BY <2>2, <2>3, <2>4, <1>0, <1>2, <1>3, TypesKept
  <2>6. AtRead'
    BY <2>1, <2>2, <2>3, <2>4, <1>0, <1>2, <1>m, Stays DEF AtRead, Sound, Holds
  <2> QED
    BY <2>2, <2>4, <2>5, <2>6, <1>0, StayRead
<1>5. CASE round \in 1 .. Bits
  <2>p. pin \in 1 .. 3 /\ out = 0 /\ round # 0 /\ round < I!Last
    BY <1>0, <1>2, <1>5 DEF AtRead
  <2>l. Len(I!Pins) = 3
    BY <1>0, <1>1, <1>5, ReadRow
  <2>1. CASE pin = 1
    <3>1. I!Op = I!Scl(0)
      BY <1>0, <1>1, <1>5, <2>1, ReadRow
    <3>2. /\ I!Goes /\ out' = out /\ dout' = dout /\ scl' = 0 /\ UNCHANGED <<transfer, rst, got>>
          /\ device' \in I!Sees(device, I!Sda0, scl, I!Sda0, 0)
      BY <3>1, <1>1, OpScl
    <3>3. pin' = 2 /\ step' = step /\ round' = round
      BY <2>l, <3>2, <2>1, Goings
    <3>4. device' \in Devices /\ device'.heard = device.heard /\ Holds(round)'
      <4>1. CASE round = 1
        <5>1. scl = 0 /\ Holds(1)
          BY <1>0, <1>5, <2>1, <4>1 DEF AtRead
        <5>2. device' = device
          BY <5>1, <3>2, <1>3, SeesNothing
        <5> QED
          BY <5>1, <5>2, <4>1, <3>2, <3>3, <1>3, Stays DEF Holds
      <4>2. CASE round # 1
        <5>1. scl = 1 /\ Taken(round - 1)
          BY <1>0, <1>5, <2>1, <4>2 DEF AtRead
        <5>2. device.bits = round - 1 /\ round - 1 < Bits /\ device.is = "speaks" /\ device.sent = got
              /\ Len(device.sent) = Bits * (j - 1) + (round - 1)
          BY <5>1, <1>5, <1>2 DEF Taken
        <5>3. device' \in I!Speaks(device)
          BY <5>1, <5>2, <3>2, <1>2, <1>3, SeesFall, FallsSpoken
        <5>4. I!HasMore(device)
          <6>1. j - 1 \in Nat /\ Len(transfer.reads) \in Nat /\ j - 1 < Len(transfer.reads) /\ round - 1 \in Nat
            BY <1>0, <1>1, <1>5, <1>2, Lengths, SMTT(20)
          <6>2. Bits * (j - 1) + (round - 1) < Bits * Len(transfer.reads)
            BY <6>1, <5>2, More
          <6> QED
            BY <6>2, <5>2 DEF I!HasMore
        <5>5. /\ device' \in Devices /\ device'.is = "speaks" /\ device'.heard = device.heard /\ device'.bits = round
              /\ device'.sent = Append(device.sent, IF device'.low THEN 0 ELSE 1)
          BY <5>2, <5>3, <5>4, <1>3, <1>5, <1>2, SpeaksIs
        <5>6. Len(device'.sent) = Bits * (j - 1) + round
          <6>1. Len(device'.sent) = Len(device.sent) + 1
            BY <5>5, <1>3 DEF Devices
          <6>0. j - 1 \in Nat
            BY <1>0, <1>1, Lengths
          <6>2. Bits * (j - 1) \in Nat
            BY <6>0, <1>2, BitProducts
          <6> QED
            BY <6>1, <6>2, <5>2, <1>5, <1>2
        <5> QED
          BY <5>2, <5>5, <5>6, <3>2, <3>3, Stays DEF Holds
      <4> QED
        BY <4>1, <4>2
    <3>5. I2cTypes'
      BY <3>2, <3>3, <3>4, <1>0, <1>2, <1>3, TypesKept
    <3>6. AtRead'
      BY <3>2, <3>3, <3>4, <1>0, <1>2, <1>5, <1>m, <2>p, Stays DEF AtRead, Sound
    <3> QED
      BY <3>2, <3>3, <3>5, <3>6, <1>0, StayRead
  <2>2. CASE pin = 2
    <3>1. I!Op = I!Scl(1) /\ scl = 0 /\ Holds(round)
      BY <1>0, <1>1, <1>5, <2>2, ReadRow DEF AtRead
    <3>2. /\ I!Goes /\ out' = out /\ dout' = dout /\ scl' = 1 /\ UNCHANGED <<transfer, rst, got>>
          /\ device' \in I!Sees(device, I!Sda0, scl, I!Sda0, 1)
      BY <3>1, <1>1, OpScl
    <3>3. pin' = 3 /\ step' = step /\ round' = round
      BY <2>l, <3>2, <2>2, Goings
    <3>4. device' = device
      <4>1. device' = I!Rises(device, I!Sda0)
        BY <3>1, <3>2, SeesRise
      <4> QED
        BY <4>1, <3>1 DEF I!Rises, Holds
    <3>5. I2cTypes'
      BY <3>2, <3>3, <3>4, <1>0, <1>2, <1>3, TypesKept
    <3>6. AtRead'
      BY <3>1, <3>2, <3>3, <3>4, <1>0, <1>2, <1>5, <1>m, <2>p, Stays DEF AtRead, Sound, Holds
    <3> QED
      BY <3>2, <3>3, <3>5, <3>6, <1>0, StayRead
  <2>3. CASE pin = 3
    <3>1. I!Op = I!SampleBit /\ scl = 1 /\ Holds(round)
      BY <1>0, <1>1, <1>5, <2>3, ReadRow DEF AtRead
    <3>2. I!Goes /\ got' = Append(got, I!Sda0) /\ UNCHANGED <<transfer, out, dout, scl, device, rst>>
      BY <3>1, <1>1, OpBit
    <3>3. pin' = 1 /\ step' = step /\ round' = round + 1
      BY <2>l, <2>p, <3>2, <2>3, Goings
    <3>4. I!Sda0 = IF device.low THEN 0 ELSE 1
      BY <2>p DEF I!Sda0, I!Line
    <3>5. device.sent = got' /\ got' \in Seq(I!Bit)
      BY <3>1, <3>2, <3>4, <1>3 DEF Holds
    <3>6. I2cTypes'
      BY <3>2, <3>3, <3>5, <1>0, <1>2, <1>3, <2>p, <1>5, TypesKept
    <3>7. /\ device'.is = "speaks" /\ device'.bits = round /\ round > 0 /\ device'.sent = got'
          /\ Len(device'.sent) = Bits * (step' - I!Said' - 1) + round
      BY <3>1, <3>2, <3>3, <3>5, <1>5, Stays DEF Holds
    <3>8. ASSUME round = Bits PROVE AtRead'
      <4>1. round' = I!Last' /\ Taken(Bits)' /\ round' # 0 /\ ~(round' \in 1 .. Bits)
        BY <3>3, <3>7, <3>8, <1>2, <1>m DEF Taken
      <4> QED
        BY <4>1, <3>1, <3>2, <3>3, <1>0, <2>p, Stays DEF AtRead, Sound, Taken
    <3>9. ASSUME round # Bits PROVE AtRead'
      <4>1. round' # I!Last' /\ Taken(round - 1)' /\ round' # 0 /\ round' \in 1 .. Bits /\ round' # 1
        BY <3>3, <3>7, <3>9, <1>2, <1>5, <1>m DEF Taken
      <4> QED
        BY <4>1, <3>1, <3>2, <3>3, <1>0, <2>p, Stays DEF AtRead, Sound, Taken
    <3>10. AtRead'
      BY <1>5, <3>8, <3>9
    <3> QED
      BY <3>2, <3>3, <3>6, <3>10, <1>0, StayRead
  <2> QED
    BY <2>p, <2>1, <2>2, <2>3
<1>6. CASE round = I!Last
  <2>p. pin \in 1 .. 5 /\ ~(round < I!Last) /\ round # 0 /\ ~(round \in 1 .. Bits) /\ round \in 0 .. I!Last
    BY <1>0, <1>2, <1>6 DEF AtRead
  <2>l. Len(I!Pins) = 5
    BY <1>0, <1>1, <1>6, ReadRow
  <2>n. Bits * (j - 1) + Bits = Bits * j
    BY <1>1, <1>2, More, Z3
  <2>1. CASE pin = 1
    <3>1. I!Op = I!Scl(0) /\ scl = 1 /\ Taken(Bits) /\ out = 0
      BY <1>0, <1>1, <1>6, <2>1, ReadRow DEF AtRead
    <3>2. /\ I!Goes /\ out' = out /\ dout' = dout /\ scl' = 0 /\ UNCHANGED <<transfer, rst, got>>
          /\ device' \in I!Sees(device, I!Sda0, scl, I!Sda0, 0)
      BY <3>1, <1>1, OpScl
    <3>3. pin' = 2 /\ step' = step /\ round' = round
      BY <2>l, <3>2, <2>1, Goings
    <3>4. /\ device' \in Devices /\ device'.is = "asks" /\ ~device'.low /\ device'.heard = device.heard /\ device'.sent = got
          /\ Len(device'.sent) = Bits * j
      <4>1. device' \in I!Falls(device)
        BY <3>1, <3>2, SeesFall
      <4> QED
        BY <4>1, <3>1, <2>n, <1>2, <1>3, FallsSpoken DEF Taken
    <3>5. I2cTypes'
      BY <3>2, <3>3, <3>4, <1>0, <1>2, <1>3, <2>p, TypesKept
    <3>6. AtRead'
      BY <3>1, <3>2, <3>3, <3>4, <1>0, <1>2, <1>6, <1>m, <2>p, Stays DEF AtRead, Sound
    <3> QED
      BY <3>2, <3>3, <3>5, <3>6, <1>0, StayRead
  <2>a. pin > 1 => ~device.low /\ device.sent = got /\ Len(device.sent) = Bits * j
    BY <1>0, <1>6 DEF AtRead
  <2>2. CASE pin = 2
    <3>1. I!Op = I!Pin("out", 1) /\ scl = 0 /\ device.is = "asks"
      BY <1>0, <1>1, <1>6, <2>2, ReadRow DEF AtRead
    <3>2. /\ I!Goes /\ out' = 1 /\ dout' = dout /\ scl' = scl /\ UNCHANGED <<transfer, rst, got>>
          /\ device' \in I!Sees(device, I!Sda0, scl, I!Line(1, dout, device), scl)
      BY <3>1, <1>1, OpOut
    <3>3. device' = device
      <4>1. I!Line(1, dout, device) \in I!Bit
        BY LineBit
      <4> QED
        BY <4>1, <3>1, <3>2, <1>3, SeesNothing
    <3>4. pin' = 3 /\ step' = step /\ round' = round
      BY <2>l, <3>2, <2>2, Goings
    <3>5. I2cTypes'
      BY <3>2, <3>3, <3>4, <1>0, <1>2, <1>3, <2>p, TypesKept
    <3>6. AtRead'
      BY <3>1, <3>2, <3>3, <3>4, <2>2, <2>a, <1>0, <1>2, <1>6, <1>m, <2>p, Stays DEF AtRead, Sound
    <3> QED
      BY <3>2, <3>4, <3>5, <3>6, <1>0, StayRead
  <2>3. CASE pin = 3
    <3>1. I!Op = I!Sda(resp) /\ scl = 0 /\ device.is = "asks" /\ out = 1
      BY <1>0, <1>1, <1>6, <2>3, ReadRow DEF AtRead
    <3>2. /\ I!Goes /\ out' = out /\ dout' = resp /\ scl' = scl /\ UNCHANGED <<transfer, rst, got>>
          /\ device' \in I!Sees(device, I!Sda0, scl, I!Line(out, resp, device), scl)
      BY <3>1, <1>1, OpSda
    <3>3. device' = device
      <4>1. I!Line(out, resp, device) \in I!Bit
        BY LineBit
      <4> QED
        BY <4>1, <3>1, <3>2, <1>3, SeesNothing
    <3>4. pin' = 4 /\ step' = step /\ round' = round
      BY <2>l, <3>2, <2>3, Goings
    <3>5. I2cTypes'
      BY <3>2, <3>3, <3>4, <1>0, <1>1, <1>2, <1>3, <2>p, TypesKept
    <3>6. AtRead'
      BY <3>1, <3>2, <3>3, <3>4, <2>3, <2>a, <1>0, <1>2, <1>6, <1>m, <2>p, Stays DEF AtRead, Sound
    <3> QED
      BY <3>2, <3>4, <3>5, <3>6, <1>0, StayRead
  <2>4. CASE pin = 4
    <3>1. I!Op = I!Scl(1) /\ scl = 0 /\ device.is = "asks" /\ out = 1 /\ dout = resp
      BY <1>0, <1>1, <1>6, <2>4, ReadRow DEF AtRead
    <3>2. /\ I!Goes /\ out' = out /\ dout' = dout /\ scl' = 1 /\ UNCHANGED <<transfer, rst, got>>
          /\ device' \in I!Sees(device, I!Sda0, scl, I!Sda0, 1)
      BY <3>1, <1>1, OpScl
    <3>3. pin' = 5 /\ step' = step /\ round' = round
      BY <2>l, <3>2, <2>4, Goings
    <3>4. /\ device' \in Devices /\ ~device'.low /\ device'.heard = device.heard /\ device'.sent = device.sent
          /\ device'.is = IF resp = 0 THEN "asked" ELSE "idle"
      <4>1. I!Sda0 = resp
        BY <3>1, <2>4, <2>a, <1>0, SdaHeld
      <4>2. device' = I!Rises(device, resp)
        BY <4>1, <3>1, <3>2, SeesRise
      <4>3. ~device.low
        BY <2>4, <2>a
      <4>4. resp \in I!Bit
        BY <1>1
      <4> HIDE DEF resp
      <4> QED
        BY <4>2, <4>3, <4>4, <3>1, <1>3, RisesAsking
    <3>5. I2cTypes'
      BY <3>2, <3>3, <3>4, <1>0, <1>1, <1>2, <1>3, <2>p, TypesKept
    <3>6. AtRead'
      BY <3>1, <3>2, <3>3, <3>4, <2>4, <2>a, <1>0, <1>2, <1>6, <1>m, <2>p, Stays DEF AtRead, Sound
    <3> QED
      BY <3>2, <3>3, <3>5, <3>6, <1>0, StayRead
  <2>5. CASE pin = 5
    <3>1. I!Op = I!Scl(0) /\ scl = 1 /\ out = 1 /\ device.is = IF resp = 0 THEN "asked" ELSE "idle"
      BY <1>0, <1>1, <1>6, <2>5, ReadRow DEF AtRead
    <3>2. /\ I!Goes /\ out' = out /\ dout' = dout /\ scl' = 0 /\ UNCHANGED <<transfer, rst, got>>
          /\ device' \in I!Sees(device, I!Sda0, scl, I!Sda0, 0)
      BY <3>1, <1>1, OpScl
    <3>3. pin' = 1 /\ step' = step + 1 /\ round' = I!First(I!Does(step + 1))
      BY <2>l, <3>2, <2>5, <2>p, Goings
    <3>4. device' \in I!Falls(device) /\ device.sent = got /\ Len(device.sent) = Bits * j /\ ~device.low
      BY <3>1, <3>2, <2>5, <2>a, SeesFall
    <3>5. resp = IF j = Len(transfer.reads) /\ transfer \notin I!I2C_Read THEN 1 ELSE 0
      BY <1>0, <1>1, Lengths DEF Shape, Responses
    <3>6. CASE j < Len(transfer.reads)
      <4>1. device.is = "asked"
        BY <3>1, <3>5, <3>6, <1>1
      <4>2. PICK r \in Devices : r.bits = 0 /\ r.sent = got /\ r.heard = device.heard /\ device' \in I!Speaks(r)
        BY <4>1, <3>4, <1>3, FallsAsked
      <4>3. I!HasMore(r)
        <5>1. j \in Nat /\ Len(transfer.reads) \in Nat
          BY <1>0, <1>1, Lengths
        <5>2. Bits * j + 0 < Bits * Len(transfer.reads)
          BY <5>1, <3>6, <1>2, More
        <5>3. Bits * j \in Nat /\ Len(r.sent) = Bits * j
          BY <5>1, <4>2, <3>4, <1>2
        <5> QED
          BY <5>2, <5>3 DEF I!HasMore
      <4>4. /\ device' \in Devices /\ device'.is = "speaks" /\ device'.heard = device.heard /\ device'.bits = 1
            /\ device'.sent = Append(got, IF device'.low THEN 0 ELSE 1)
        BY <4>2, <4>3, SpeaksIs
      <4>5. Len(device'.sent) = Bits * j + 1
        BY <4>4, <3>4, <1>3
      <4>6. step + 1 \in I!Said + 1 .. I!Stops - 1 /\ (step + 1) - I!Said - 1 = j
        BY <3>6, <1>0, <1>1, Lengths, SMTT(20)
      <4>7. round' = 0
        BY <4>6, <3>3, <1>0, <1>2, FirstRounds
      <4>8. I2cTypes'
        BY <4>4, <4>7, <3>2, <3>3, <1>0, <1>2, <1>3, <2>p, TypesKept
      <4>9. Holds(1)'
        BY <4>4, <4>5, <4>6, <3>2, <3>3, Stays DEF Holds
      <4>10. AtRead'
        BY <4>4, <4>7, <4>9, <3>1, <3>2, <3>3, <1>0, <1>2, <1>m, Stays DEF AtRead, Sound
      <4> QED
        BY <4>6, <4>8, <4>10, <3>2, <3>3, <1>0, ToRead
    <3>7. CASE j = Len(transfer.reads)
      <4>1. step + 1 = I!Stops
        BY <3>7, <1>0, Lengths
      <4>2. round' = I!Last
        BY <4>1, <3>3, <1>0, <1>2, FirstRounds
      <4>3. /\ device' \in Devices /\ device'.heard = device.heard /\ device'.sent = got /\ ~device'.low
            /\ device'.is \in {"idle", "speaks"}
        <5>1. CASE resp = 1
          <6>1. device.is = "idle"
            BY <5>1, <3>1
          <6>2. device' = device
            BY <6>1, <3>4, <1>3, FallsElse
          <6> QED
            BY <6>1, <6>2, <3>4, <1>3
        <5>2. CASE resp = 0
          <6>1. device.is = "asked" /\ transfer \in I!I2C_Read
            BY <5>2, <3>1, <3>5, <3>7
          <6>2. PICK r \in Devices : r.bits = 0 /\ r.sent = got /\ r.heard = device.heard /\ device' \in I!Speaks(r)
            BY <6>1, <3>4, <1>3, FallsAsked
          <6>3. Bits * j \in Nat /\ Len(r.sent) = Bits * Len(transfer.reads)
            BY <6>2, <3>4, <3>7, <1>0, <1>1, <1>2, Lengths
          <6>4. ~I!HasMore(r)
            BY <6>1, <6>3, <3>7 DEF I!HasMore
          <6> QED
            BY <6>2, <6>4, SpeaksIs
        <5> QED
          BY <5>1, <5>2, <1>1 DEF I!Bit
      <4>4. I2cTypes'
        BY <4>3, <4>2, <3>2, <3>3, <1>0, <1>2, <1>3, <2>p, <1>6, TypesKept
      <4>5. AtStop'
        BY <4>1, <4>2, <4>3, <3>1, <3>2, <3>3, <1>0, <1>m, Stays DEF AtStop, Spoken, Sound
      <4> QED
        BY <4>1, <4>4, <4>5, <3>2, <3>3, <1>0, ToStop
    <3> QED
      BY <3>6, <3>7, <1>0, <1>1, Lengths
  <2> QED
    BY <2>p, <2>1, <2>2, <2>3, <2>4, <2>5
<1> QED
  BY <1>2, <1>4, <1>5, <1>6

LEMMA StopSteps ==
  ASSUME I2cInv, I!Next, step = I!Stops
  PROVE  I2cInv'
<1>0. I2cTypes /\ AtStop /\ Spoken
  BY Lengths DEF I2cInv, AtStop
<1>1. I!Running /\ I!Does(step).does = "stop" /\ step \in Nat /\ step \in 1 .. I!Stops + 1 /\ step + 1 \in 1 .. I!Stops + 1
  BY <1>0, Lengths, DoesStop
<1>2. pin \in 1 .. 4 /\ round = I!Last /\ round \in 0 .. I!Last /\ ~(round < I!Last) /\ out = 1 /\ ~device.low
  BY <1>0, Lengths DEF AtStop, Spoken
<1>3. /\ 1 \in I!Bit /\ 0 \in I!Bit /\ I!Sda0 \in I!Bit
      /\ device \in Devices /\ scl \in I!Bit /\ rst \in I!Bit /\ got \in Seq(I!Bit) /\ out \in I!Bit /\ dout \in I!Bit
  BY <1>0, LineBit DEF I2cTypes, I!Bit, I!Sda0
<1>l. Len(I!Pins) = 4
  BY <1>1, StopRow
<1>m. I!Last' = I!Last
  BY DEF I!Last
<1>4. CASE pin = 1
  <2>1. I!Op = I!Pin("out", 1) /\ scl = 0
    BY <1>0, <1>1, <1>4, StopRow DEF AtStop
  <2>2. /\ I!Goes /\ out' = 1 /\ dout' = dout /\ scl' = scl /\ UNCHANGED <<transfer, rst, got>>
        /\ device' \in I!Sees(device, I!Sda0, scl, I!Line(1, dout, device), scl)
    BY <2>1, <1>1, OpOut
  <2>3. device' = device
    <3>1. I!Line(1, dout, device) \in I!Bit
      BY LineBit
    <3> QED
      BY <3>1, <2>1, <2>2, <1>3, SeesNothing
  <2>4. pin' = 2 /\ step' = step /\ round' = round
    BY <1>l, <2>2, <1>4, Goings
  <2>5. I2cTypes'
    BY <2>2, <2>3, <2>4, <1>0, <1>1, <1>2, <1>3, TypesKept
  <2>6. AtStop'
    BY <2>1, <2>2, <2>3, <2>4, <1>0, <1>2, <1>4, <1>m, Stays DEF AtStop, Spoken, Sound
  <2> QED
    BY <2>2, <2>4, <2>5, <2>6, <1>0, ToStop
<1>5. CASE pin = 2
  <2>1. I!Op = I!Sda(0) /\ scl = 0
    BY <1>0, <1>1, <1>5, StopRow DEF AtStop
  <2>2. /\ I!Goes /\ out' = out /\ dout' = 0 /\ scl' = scl /\ UNCHANGED <<transfer, rst, got>>
        /\ device' \in I!Sees(device, I!Sda0, scl, I!Line(out, 0, device), scl)
    BY <2>1, <1>1, OpSda
  <2>3. device' = device
    <3>1. I!Line(out, 0, device) \in I!Bit
      BY LineBit
    <3> QED
      BY <3>1, <2>1, <2>2, <1>3, SeesNothing
  <2>4. pin' = 3 /\ step' = step /\ round' = round
    BY <1>l, <2>2, <1>5, Goings
  <2>5. I2cTypes'
    BY <2>2, <2>3, <2>4, <1>0, <1>1, <1>2, <1>3, TypesKept
  <2>6. AtStop'
    BY <2>1, <2>2, <2>3, <2>4, <1>0, <1>2, <1>5, <1>m, Stays DEF AtStop, Spoken, Sound
  <2> QED
    BY <2>2, <2>4, <2>5, <2>6, <1>0, ToStop
<1>6. CASE pin = 3
  <2>1. I!Op = I!Scl(1) /\ scl = 0 /\ dout = 0
    BY <1>0, <1>1, <1>6, StopRow DEF AtStop
  <2>2. /\ I!Goes /\ out' = out /\ dout' = dout /\ scl' = 1 /\ UNCHANGED <<transfer, rst, got>>
        /\ device' \in I!Sees(device, I!Sda0, scl, I!Sda0, 1)
    BY <2>1, <1>1, OpScl
  <2>3. /\ device' \in Devices /\ device'.heard = device.heard /\ device'.sent = device.sent /\ ~device'.low
        /\ device'.is = device.is
    <3>1. device' = I!Rises(device, I!Sda0)
      BY <2>1, <2>2, SeesRise
    <3>2. CASE device.is = "hears"
      <4>1. device \in Devices /\ I!Sda0 \in I!Bit /\ ~device.low
        BY <1>2, <1>3
      <4>2. /\ device' \in Devices /\ device'.is = "hears" /\ ~device'.low
            /\ device'.heard = device.heard /\ device'.sent = device.sent
        BY <4>1, <3>1, <3>2, RisesHearing
      <4> QED
        BY <4>2, <3>2
    <3>3. CASE device.is # "hears"
      <4>1. device' = device
        BY <3>1, <3>3, <1>0 DEF Spoken, I!Rises
      <4> QED
        BY <4>1, <1>2, <1>3
    <3> QED
      BY <3>2, <3>3
  <2>4. pin' = 4 /\ step' = step /\ round' = round
    BY <1>l, <2>2, <1>6, Goings
  <2>5. I2cTypes'
    BY <2>2, <2>3, <2>4, <1>0, <1>1, <1>2, <1>3, TypesKept
  <2>6. AtStop'
    BY <2>1, <2>2, <2>3, <2>4, <1>0, <1>2, <1>6, <1>m, Stays DEF AtStop, Spoken, Sound
  <2> QED
    BY <2>2, <2>4, <2>5, <2>6, <1>0, ToStop
<1>7. CASE pin = 4
  <2>1. I!Op = I!Sda(1) /\ scl = 1 /\ dout = 0
    BY <1>0, <1>1, <1>7, StopRow DEF AtStop
  <2>2. /\ I!Goes /\ out' = out /\ dout' = 1 /\ scl' = scl /\ UNCHANGED <<transfer, rst, got>>
        /\ device' \in I!Sees(device, I!Sda0, scl, I!Line(out, 1, device), scl)
    BY <2>1, <1>1, OpSda
  <2>3. device' = I!Stopped(device)
    <3>1. I!Sda0 = 0 /\ I!Line(out, 1, device) = 1
      BY <2>1, <1>0, <1>2, SdaHeld
    <3> QED
      BY <3>1, <2>1, <2>2, SeesStop
  <2>4. /\ device' \in Devices /\ device'.is = "idle" /\ ~device'.low /\ device'.sent = device.sent
        /\ device'.heard = Append(device.heard, "stop")
    BY <2>3, <1>3, StoppedIs
  <2>5. pin' = 1 /\ step' = step + 1 /\ round' = I!Last
    <3>1. I!First(I!Does(step + 1)) = I!Last
      BY <1>0, <1>1, Lengths, FirstRounds
    <3> QED
      BY <3>1, <1>l, <1>2, <2>2, <1>7, Goings
  <2>6. I2cTypes'
    BY <2>2, <2>4, <2>5, <1>0, <1>1, <1>2, <1>3, TypesKept
  <2>7. AtEnd'
    <3>1. rst = 0 => device'.heard = I!Heard(I!Said)
      BY <2>4, <1>0 DEF AtStop, Sound, I!Heard
    <3>2. rst = 1 => \E k \in 1 .. I!Said : device'.heard = I!Heard(k)
      BY <2>4, <1>0 DEF AtStop, Sound, I!Heard
    <3> QED
      BY <3>1, <3>2, <2>1, <2>2, <2>4, <2>5, <1>0, <1>2, <1>m, Stays DEF AtEnd, Spoken, Hung
  <2>8. I!Said' = I!Said /\ I!Stops' = I!Stops
    BY <2>2, Stays
  <2>9. step' # I!Stops' /\ ~(step' \in 1 .. I!Said') /\ ~(step' \in I!Said' + 1 .. I!Stops' - 1)
    BY <2>5, <2>8, <1>0, Lengths
  <2> QED
    BY <2>6, <2>7, <2>9 DEF I2cInv
<1> QED
  BY <1>2, <1>4, <1>5, <1>6, <1>7

\* A transfer begins with the lines and the device at rest.
LEMMA Begins ==
  ASSUME transfer \in I!Transfers, step = 1, round = I!Last, pin = 1, rst = 0, got = <<>>,
         device \in Devices, Hung, device.heard = <<>>, device.sent = <<>>, out = 1, dout = 1, scl = 1
  PROVE  I2cInv
<1>1. 1 \in 1 .. I!Stops + 1 /\ I!Last \in 0 .. I!Last /\ 1 \in 1 .. I!Said /\ transfer.says[1].does = "start"
      /\ 1 # I!Stops /\ ~(1 > I!Stops) /\ ~(1 \in I!Said + 1 .. I!Stops - 1)
  <2>1. Shape(transfer)
    BY TransferShapes
  <2>2. I!Said \in Nat /\ I!Said > 1 /\ Len(transfer.reads) \in Nat
    BY <2>1 DEF Shape, Speech, Responses, I!Said
  <2>3. I!Stops = I!Said + Len(transfer.reads) + 1 /\ I!Last = Bits + 1 /\ Bits \in Nat
    BY I2cBounds DEF I!Stops, I!Last
  <2>4. transfer.says[1].does = "start"
    BY <2>1 DEF Shape, Speech
  <2> QED
    BY <2>2, <2>3, <2>4
<1>2. I2cTypes
  BY <1>1, NoBytes DEF I2cTypes, I!Bit
<1>3. AtStart
  BY WordsNone DEF AtStart, Still, Sound, Hung
<1> QED
  BY <1>1, <1>2, <1>3 DEF I2cInv

LEMMA I2cStarts == I!Init => I2cInv
<1> SUFFICES ASSUME I!Init PROVE I2cInv
  OBVIOUS
<1>1. I!Ready \in Devices /\ I!Ready.is = "idle" /\ ~I!Ready.low /\ I!Ready.heard = <<>> /\ I!Ready.sent = <<>>
  BY NoBytes DEF I!Ready, Devices
<1> QED
  BY <1>1, Begins DEF I!Init, I!InitIn, Hung

\* No transfer is running: the next one begins.
LEMMA AgainSteps ==
  ASSUME I2cInv, I!Next, step > I!Stops
  PROVE  I2cInv'
<1>1. I2cTypes /\ AtEnd /\ ~I!Running
  <2>1. I2cTypes /\ AtEnd
    BY DEF I2cInv
  <2>2. step \in Nat /\ I!Stops \in Nat
    BY <2>1, Lengths DEF I2cTypes
  <2> QED
    BY <2>1, <2>2 DEF I!Running
<1>2. /\ transfer' \in I!Transfers /\ step' = 1 /\ round' = I!Last /\ pin' = 1 /\ rst' = 0 /\ got' = <<>>
      /\ device' = [device EXCEPT !.heard = <<>>, !.sent = <<>>] /\ UNCHANGED <<out, dout, scl>>
  BY <1>1 DEF I!Next, I!Drive, I!Sampled, I!Checked, I!Again
<1>3. device \in Devices /\ device.is = "idle" /\ ~device.low /\ out = 1 /\ dout = 1 /\ scl = 1
  BY <1>1 DEF I2cTypes, AtEnd, Hung
<1>4. /\ device' \in Devices /\ device'.is = "idle" /\ ~device'.low /\ device'.heard = <<>> /\ device'.sent = <<>>
  BY <1>2, <1>3, NoBytes DEF Devices
<1>5. Devices' = Devices /\ I!Transfers' = I!Transfers /\ I!Last' = I!Last /\ I!Bit' = I!Bit
  BY DEF Devices, I!Last
<1>6. Shape(transfer)'
  BY <1>2, TransferShapes DEF Shape, Speech, Responses
<1>7. I!Said' \in Nat /\ I!Said' > 1 /\ Len(transfer'.reads) \in Nat /\ transfer'.says[1].does = "start"
      /\ I!Stops' = I!Said' + Len(transfer'.reads) + 1 /\ I!Last' = Bits + 1 /\ Bits \in Nat
  BY <1>6, I2cBounds DEF Shape, Speech, Responses, I!Said, I!Stops, I!Last
<1>8. step' \in 1 .. I!Stops' + 1 /\ round' \in 0 .. I!Last' /\ step' \in 1 .. I!Said'
      /\ step' # I!Stops' /\ ~(step' > I!Stops') /\ ~(step' \in I!Said' + 1 .. I!Stops' - 1)
  BY <1>2, <1>5, <1>7
<1>9. I2cTypes'
  BY <1>2, <1>3, <1>4, <1>5, <1>8, NoBytes DEF I2cTypes, I!Bit
<1>10. I!Words(0)' = <<>>
  BY DEF I!Words
<1>11. AtStart'
  BY <1>2, <1>3, <1>4, <1>5, <1>10 DEF AtStart, Still, Sound, Hung
<1> QED
  BY <1>2, <1>7, <1>8, <1>9, <1>11 DEF I2cInv

LEMMA I2cSteps == I2cInv /\ I!Next => I2cInv'
<1> SUFFICES ASSUME I2cInv, I!Next PROVE I2cInv'
  OBVIOUS
<1>1. I2cTypes
  BY DEF I2cInv
<1>2. \/ step \in 1 .. I!Said \/ step \in I!Said + 1 .. I!Stops - 1 \/ step = I!Stops \/ step > I!Stops
  <2>1. step \in Nat /\ step > 0
    BY <1>1, Lengths DEF I2cTypes
  <2> QED
    BY <1>1, <2>1, Lengths
<1>3. CASE step \in 1 .. I!Said /\ transfer.says[step].does = "start"
  BY <1>3, StartSteps
<1>4. CASE step \in 1 .. I!Said /\ transfer.says[step].does # "start" /\ round # I!Last
  BY <1>1, <1>4, DoesSay, BitSteps
<1>5. CASE step \in 1 .. I!Said /\ transfer.says[step].does # "start" /\ round = I!Last
  BY <1>1, <1>5, DoesSay, AckSteps
<1>6. CASE step \in I!Said + 1 .. I!Stops - 1
  BY <1>6, ReadSteps
<1>7. CASE step = I!Stops
  BY <1>7, StopSteps
<1>8. CASE step > I!Stops
  BY <1>8, AgainSteps
<1> QED
  BY <1>2, <1>3, <1>4, <1>5, <1>6, <1>7, <1>8

LEMMA I2cRests == I2cInv /\ UNCHANGED i2c => I2cInv'
<1> SUFFICES ASSUME I2cInv, UNCHANGED i2c PROVE I2cInv'
  OBVIOUS
<1>1. /\ transfer' = transfer /\ step' = step /\ round' = round /\ pin' = pin /\ rst' = rst /\ out' = out
      /\ dout' = dout /\ scl' = scl /\ got' = got /\ device' = device
  BY DEF i2c
<1>2. I!Said' = I!Said /\ I!Stops' = I!Stops /\ \A k : (I!Words(k))' = I!Words(k) /\ (I!Heard(k))' = I!Heard(k)
  BY <1>1, Stays
<1>3. Devices' = Devices /\ I!Transfers' = I!Transfers /\ I!Last' = I!Last /\ I!Bit' = I!Bit
  BY DEF Devices, I!Last
<1>4. I2cTypes' = I2cTypes
  BY <1>1, <1>2, <1>3 DEF I2cTypes
<1>5. AtEnd' = AtEnd /\ AtStop' = AtStop
  BY <1>1, <1>2, <1>3 DEF AtEnd, AtStop, Hung, Spoken, Sound
<1>6. AtRead' = AtRead
  BY <1>1, <1>2, <1>3 DEF AtRead, Holds, Taken, Sound
<1>7. AtStart' = AtStart /\ AtBit' = AtBit
  BY <1>1, <1>2, <1>3 DEF AtStart, AtBit, Still, Sound, Hears, Hung, Has, Addressed
<1>8. AtAck' = AtAck
  BY <1>1, <1>2, <1>3 DEF AtAck, Still, Sound, Hears, Hung, Addressed, Replies, Reading
<1> QED
  BY <1>1, <1>2, <1>3, <1>4, <1>5, <1>6, <1>7, <1>8 DEF I2cInv

LEMMA I2cTransferred == I2cInv => I!Transferred
<1> SUFFICES ASSUME I2cInv, ~I!Running
             PROVE  /\ device.is = "idle" /\ I!Sda0 = 1 /\ scl = 1
                    /\ rst = 0 => device.heard = I!Heard(I!Said) /\ got = device.sent
                    /\ rst # 0 => \E k \in 1 .. I!Said : device.heard = I!Heard(k)
  BY DEF I!Transferred
<1>1. I2cTypes /\ rst \in 0 .. 1
  BY DEF I2cInv, I2cTypes, I!Bit
<1>2. step > I!Stops
  BY <1>1, Lengths DEF I2cTypes
<1>3. AtEnd
  BY <1>2 DEF I2cInv
<1> QED
  BY <1>1, <1>3, SdaHeld DEF AtEnd, Hung

\* The device never holds more than a byte.
Fits(d) == Len(d.byte) <= Bits
LEMMA SeesShort ==
  ASSUME NEW d \in Devices, NEW sda \in I!Bit, NEW c0 \in I!Bit, NEW a \in I!Bit, NEW c \in I!Bit, NEW e \in I!Sees(d, sda, c0, a, c),
         Fits(d), c0 = 0 /\ c = 1 /\ d.is = "hears" => Len(d.byte) < Bits
  PROVE  Fits(e)
<1>1. Bits \in Nat /\ Len(<<>>) = 0 /\ Len(d.byte) \in Nat
  BY I2cBounds DEF Devices
<1>2. \A f : f.byte = d.byte \/ f.byte = <<>> => Fits(f)
  BY <1>1 DEF Fits
<1>3. ASSUME NEW f \in Devices, NEW g \in I!Speaks(f) PROVE g.byte = f.byte
  BY DEF I!Speaks, I!Drives, Devices
<1>4. CASE c0 = 0 /\ c = 1
  <2>1. e = I!Rises(d, a)
    BY <1>4, SeesRise
  <2>2. CASE d.is = "hears"
    <3>1. e.byte = Append(d.byte, a)
      BY <2>1, <2>2 DEF I!Rises, Devices
    <3>2. Len(e.byte) = Len(d.byte) + 1
      BY <3>1 DEF Devices
    <3> QED
      BY <3>2, <1>1, <1>4, <2>2 DEF Fits
  <2>3. CASE d.is # "hears"
    BY <2>1, <2>3, <1>2 DEF I!Rises, I!Idle, Devices
  <2> QED
    BY <2>2, <2>3
<1>5. CASE c0 = 1 /\ c = 0
  <2>1. e \in I!Falls(d)
    BY <1>5, SeesFall
  <2>2. CASE d.is = "hears"
    BY <2>1, <2>2, <1>2 DEF I!Falls, I!Idle, Devices
  <2>3. CASE d.is = "acks"
    <3> DEFINE r == [d EXCEPT !.low = FALSE, !.byte = <<>>, !.first = FALSE, !.bits = 0]
    <3>1. r \in Devices /\ r.byte = <<>>
      BY NoBytes DEF Devices
    <3>2. e \in I!Speaks(r) \/ e = [r EXCEPT !.is = "hears"]
      BY <2>1, <2>3 DEF I!Falls
    <3> HIDE DEF r
    <3>3. e.byte = <<>>
      BY <3>1, <3>2, <1>3 DEF Devices
    <3> QED
      BY <3>3, <1>2
  <2>4. CASE d.is = "speaks"
    <3>1. e \in I!Speaks(d) \/ e = d \/ e = [d EXCEPT !.is = "asks", !.low = FALSE]
      BY <2>1, <2>4 DEF I!Falls
    <3>2. e.byte = d.byte
      BY <3>1, <1>3 DEF Devices
    <3> QED
      BY <3>2, <1>2
  <2>5. CASE d.is = "asked"
    <3> DEFINE r == [d EXCEPT !.bits = 0]
    <3>1. r \in Devices /\ r.byte = d.byte
      BY DEF Devices
    <3>2. e \in I!Speaks(r)
      BY <2>1, <2>5 DEF I!Falls
    <3> HIDE DEF r
    <3>3. e.byte = d.byte
      BY <3>1, <3>2, <1>3
    <3> QED
      BY <3>3, <1>2
  <2>6. CASE d.is \notin {"hears", "acks", "speaks", "asked"}
    BY <2>1, <2>6, <1>2 DEF I!Falls
  <2> QED
    BY <2>1, <2>2, <2>3, <2>4, <2>5, <2>6
<1>6. CASE ~(c0 = 0 /\ c = 1) /\ ~(c0 = 1 /\ c = 0)
  BY <1>6, <1>2 DEF I!Sees, I!Started, I!Stopped, I!Idle, Devices
<1> QED
  BY <1>4, <1>5, <1>6

LEMMA PinsDiffer ==
  /\ \A v : I!Sda(v).pin = "sda" /\ I!Pin("out", v).pin = "out"
  /\ I!Scl(0).value = 0 /\ I!SampleAck.pin = "ack" /\ I!SampleBit.pin = "bit" /\ I!Check.pin = "check"
BY DEF I!Sda, I!Scl, I!Pin, I!SampleAck, I!SampleBit, I!Check

\* The clock rises under a device that hears only after the bits of a byte.
LEMMA RisesEarly ==
  ASSUME I2cInv, I!Running, I!Op.pin = "scl", I!Op.value = 1, device.is = "hears"
  PROVE  Len(device.byte) < Bits
<1>0. I2cTypes /\ Bits \in Nat /\ Bits > 0 /\ Len(<<>>) = 0 /\ step \in 1 .. I!Stops
  BY Lengths DEF I2cInv, I2cTypes
<1>1. CASE step \in 1 .. I!Said /\ transfer.says[step].does = "start"
  <2>1. AtStart /\ I!Does(step).does = "start"
    BY <1>0, <1>1, DoesSay DEF I2cInv
  <2>2. pin = 3
    BY <2>1, StartRow, PinsDiffer DEF AtStart
  <2>3. device.byte = <<>>
    BY <2>1, <2>2 DEF AtStart, Hung
  <2> QED
    BY <2>3, <1>0
<1>2. CASE step \in 1 .. I!Said /\ transfer.says[step].does # "start" /\ round # I!Last
  <2>1. AtBit /\ I!Does(step).does = "send"
    BY <1>0, <1>2, DoesSay DEF I2cInv
  <2>a. round \in 1 .. Bits /\ round < I!Last
    BY <2>1, <1>0, Lengths DEF AtBit
  <2>b. pin # 3
    BY <2>1, <2>a, BitRow, PinsDiffer
  <2>2. Len(device.byte) = round - 1
    BY <2>1, <2>b DEF AtBit, Has
  <2> QED
    BY <2>2, <2>a, <1>0
<1>3. CASE step \in 1 .. I!Said /\ transfer.says[step].does # "start" /\ round = I!Last
  <2>1. AtAck /\ I!Does(step).does = "send"
    BY <1>0, <1>3, DoesSay DEF I2cInv
  <2>2. pin = 2
    BY <2>1, <1>3, <1>0, Lengths, AckRow, PinsDiffer DEF AtAck
  <2> QED
    BY <2>1, <2>2 DEF AtAck, Hung
<1>4. CASE step \in I!Said + 1 .. I!Stops - 1
  <2>1. AtRead /\ I!Does(step).does = "read" /\ round \in 0 .. I!Last
    BY <1>0, <1>4, DoesRead DEF I2cInv, I2cTypes
  <2>2. device.is \in {"speaks", "asks"}
    BY <2>1, <1>0, Lengths DEF AtRead, Holds, Taken
  <2> QED
    BY <2>2
<1>5. CASE step = I!Stops
  <2>1. AtStop /\ I!Does(step).does = "stop"
    BY <1>0, <1>5, Lengths, DoesStop DEF I2cInv
  <2>2. pin = 3
    BY <2>1, StopRow, PinsDiffer DEF AtStop
  <2>3. device.byte = <<>>
    BY <2>1, <2>2 DEF AtStop, Spoken
  <2> QED
    BY <2>3, <1>0
<1> QED
  BY <1>0, <1>1, <1>2, <1>3, <1>4, <1>5, Lengths

LEMMA ShortStays ==
  ASSUME I2cInv, I!Next, Fits(device)
  PROVE  Fits(device')
<1>0. /\ I2cTypes /\ device \in Devices /\ I!Sda0 \in I!Bit /\ scl \in I!Bit
  BY LineBit DEF I2cInv, I2cTypes, I!Sda0
<1>1. CASE I!Drive
  <2> DEFINE a == I!Line(out', dout', device)
  <2>1. device' \in I!Sees(device, I!Sda0, scl, a, scl') /\ a \in I!Bit /\ I!Running
    BY <1>1, LineBit DEF I!Drive
  <2>2. scl' \in I!Bit
    <3>1. I2cInv'
      BY I2cSteps
    <3> QED
      BY <3>1 DEF I2cInv, I2cTypes, I!Bit
  <2>4. scl = 0 /\ scl' = 1 => I!Op.pin = "scl" /\ I!Op.value = 1
    BY <1>1 DEF I!Drive
  <2>5. scl = 0 /\ scl' = 1 /\ device.is = "hears" => Len(device.byte) < Bits
    BY <2>4, <2>1, RisesEarly
  <2> HIDE DEF a
  <2> QED
    BY <2>1, <2>2, <2>5, <1>0, SeesShort
<1>2. CASE I!Sampled \/ I!Checked
  BY <1>2 DEF I!Sampled, I!Checked
<1>3. CASE I!Again
  <2>1. device'.byte = device.byte
    BY <1>3, <1>0 DEF I!Again, Devices
  <2> QED
    BY <2>1 DEF Fits
<1> QED
  BY <1>1, <1>2, <1>3 DEF I!Next

LEMMA I2cTyped == I2cInv /\ Fits(device) => I!TypeOK
BY DEF I2cInv, I2cTypes, Fits, I!TypeOK, Devices, I!Bit

LEMMA ShortStarts == I!Init => Fits(device)
<1>1. Len(<<>>) = 0 /\ 0 <= Bits
  BY I2cBounds
<1> QED
  BY <1>1 DEF I!Init, I!InitIn, I!Ready, Fits

LEMMA ShortRests == Fits(device) /\ UNCHANGED i2c => Fits(device')
BY DEF i2c, Fits

-----------------------------------------------------------------------------
(* The packets of the receiver (AskDecoder).                               *)

\* The lock is what keeps the second decoder's packet from the task.
AskInv == heard = <<>> \/ (locked = TRUE /\ \E m : heard = <<m>>)

LEMMA AskStarts == A!Init => AskInv
BY DEF A!Init, AskInv

LEMMA AskRests == AskInv /\ UNCHANGED askDecoder => AskInv'
BY DEF AskInv, askDecoder

LEMMA ToldOnce ==
  ASSUME AskInv, NEW w, A!Interval(w) PROVE AskInv'
<1>1. PICK packets : /\ heard' = heard \o A!Told(packets)
                     /\ locked' = (locked \/ A!Told(packets) # <<>>)
  BY DEF A!Interval
<1>2. CASE A!Told(packets) = <<>>
  <2>1. heard \o <<>> = heard
    <3>1. CASE heard = <<>>
      BY <3>1
    <3>2. ASSUME NEW m, heard = <<m>> PROVE heard \o <<>> = heard
      <4>1. <<m>> \in Seq({m})
        OBVIOUS
      <4> QED
        BY <4>1, <3>2
    <3> QED
      BY <3>1, <3>2 DEF AskInv
  <2> QED
    BY <1>1, <1>2, <2>1 DEF AskInv
<1>3. CASE A!Told(packets) # <<>>
  <2>1. ~locked /\ A!Told(packets) = <<packets[1]>>
    BY <1>3 DEF A!Told
  <2>2. heard = <<>>
    BY <2>1 DEF AskInv
  <2>3. \A m : <<>> \o <<m>> = <<m>>
    <3> SUFFICES ASSUME NEW m PROVE <<>> \o <<m>> = <<m>>
      OBVIOUS
    <3>1. <<m>> \in Seq({m}) /\ <<>> \in Seq({m})
      OBVIOUS
    <3> QED
      BY <3>1
  <2> QED
    BY <1>1, <1>3, <2>1, <2>2, <2>3 DEF AskInv
<1> QED
  BY <1>2, <1>3

LEMMA AskSteps == AskInv /\ A!Next => AskInv'
<1> SUFFICES ASSUME AskInv, A!Next PROVE AskInv'
  OBVIOUS
<1>1. ASSUME NEW p, NEW n, NEW d, A!Send(p, n, d) PROVE AskInv'
  BY <1>1 DEF A!Send, AskInv
<1>2. CASE A!Edge
  BY <1>2, ToldOnce DEF A!Edge
<1>3. CASE A!Stop
  BY <1>3 DEF A!Stop, AskInv
<1>4. CASE A!Overflow
  BY <1>4, ToldOnce DEF A!Overflow
<1> QED
  BY <1>1, <1>2, <1>3, <1>4 DEF A!Next

LEMMA AskOnce == AskInv => A!Once
<1>1. CASE heard = <<>>
  BY <1>1 DEF A!Once
<1>2. ASSUME NEW m, heard = <<m>> PROVE A!Once
  BY <1>2 DEF A!Once
<1> QED
  BY <1>1, <1>2 DEF AskInv

-----------------------------------------------------------------------------
(* The port manager (PortManager): its proofs hold of this instance.       *)

Ports == INSTANCE PortManager_proofs WITH
           Long <- LongWait, Short <- ShortWait, port <- ports, gate <- gate0, off <- wpcOff,
           powered <- charging, comm <- usb_comm, protected <- fault

LEMMA PortAssumption == Ports!PortManagerAssumption
BY PortBounds DEF Ports!PortManagerAssumption

LEMMA SamePorts == (P!Init <=> Ports!Init) /\ (P!TypeOK <=> Ports!TypeOK) /\ (P!Next <=> Ports!Next)
<1>1. P!Init <=> Ports!Init
  BY DEF P!Init, Ports!Init
<1>2. P!TypeOK <=> Ports!TypeOK
  BY SMTT(20) DEF P!Bit, Ports!Bit, P!Events, Ports!Events, P!Requests, Ports!Requests, P!TypeC, Ports!TypeC,
         P!TypeOK, Ports!TypeOK
<1>3. P!Next <=> Ports!Next
  BY DEF P!Answer, Ports!Answer, P!Arm, Ports!Arm, P!Away, Ports!Away, P!Behind, Ports!Behind,
         P!Bit, Ports!Bit, P!Click, Ports!Click, P!Closed0, Ports!Closed0, P!Closed3, Ports!Closed3,
         P!CommLock, Ports!CommLock, P!CommUnlock, Ports!CommUnlock, P!Disarm, Ports!Disarm,
         P!Empty, Ports!Empty, P!EndSession, Ports!EndSession, P!EnumDone, Ports!EnumDone,
         P!Forced, Ports!Forced, P!Freed, Ports!Freed, P!Handling, Ports!Handling, P!Idle, Ports!Idle,
         P!Keep, Ports!Keep, P!Manager, Ports!Manager, P!Next, Ports!Next, P!Opened, Ports!Opened,
         P!PortOf, Ports!PortOf, P!Protect, Ports!Protect, P!Quiet, Ports!Quiet, P!Rank, Ports!Rank,
         P!ReceiverGone, Ports!ReceiverGone, P!Recharge, Ports!Recharge, P!Recharged, Ports!Recharged,
         P!Renew, Ports!Renew, P!Requests, Ports!Requests, P!Restore, Ports!Restore,
         P!ScanBusy, Ports!ScanBusy, P!ScanHasWork, Ports!ScanHasWork, P!ScanLocked, Ports!ScanLocked,
         P!ScanNext, Ports!ScanNext, P!ScanNothing, Ports!ScanNothing, P!Served, Ports!Served,
         P!SetCharge, Ports!SetCharge, P!SetVolt, Ports!SetVolt, P!Silenced, Ports!Silenced,
         P!Start0, Ports!Start0, P!Start3, Ports!Start3, P!Step, Ports!Step, P!StopWpc, Ports!StopWpc,
         P!Success0, Ports!Success0, P!Success3, Ports!Success3, P!Take, Ports!Take,
         P!TcAttach, Ports!TcAttach, P!TcDetach, Ports!TcDetach, P!TcFind, Ports!TcFind,
         P!TcGiveUp, Ports!TcGiveUp, P!TcLose, Ports!TcLose, P!TcMiss, Ports!TcMiss,
         P!TcSettle, Ports!TcSettle, P!Tick, Ports!Tick, P!TimerFires, Ports!TimerFires,
         P!Unattached, Ports!Unattached, P!Unprotect, Ports!Unprotect, P!Woken, Ports!Woken,
         P!hand, Ports!hand, P!others, Ports!others, P!qis, Ports!qis, P!queue, Ports!queue,
         P!timer, Ports!timer, P!typec, Ports!typec
<1> QED
  BY <1>1, <1>2, <1>3
LEMMA PortStarts == P!Init => P!TypeOK
BY SamePorts, PortAssumption, Ports!InitInv DEF Ports!InitInv, Ports!IInv

LEMMA PortSteps == P!TypeOK /\ P!Next => P!TypeOK'
<1>1. P!TypeOK' <=> Ports!TypeOK'
  BY DEF P!TypeOK, Ports!TypeOK, P!TypeC, Ports!TypeC, P!Events, Ports!Events, P!Bit, Ports!Bit, P!Requests, Ports!Requests
<1> QED
  BY <1>1, SamePorts, PortAssumption, Ports!TypeStep DEF Ports!TypeStep

LEMMA PortRests == P!TypeOK /\ UNCHANGED portManager => P!TypeOK'
BY DEF P!TypeOK, portManager, P!TypeC, P!Events, P!Bit, P!Requests

-----------------------------------------------------------------------------
(* All together.                                                           *)

Kinds == {"gate", "ask", "demod", "stream", "bridge", "i2c", "element", "ports"}
LinksInv == /\ which \in Kinds /\ TypeOK /\ AskInv /\ DemodInv /\ StreamInv /\ BridgeInv
            /\ I2cInv /\ Fits(device) /\ ElementInv /\ P!TypeOK

LEMMA StepParts ==
  [LinksNext]_links =>
    /\ which' = which
    /\ [Next]_vars
    /\ A!Next \/ UNCHANGED askDecoder
    /\ D!Next \/ UNCHANGED demod
    /\ X!Next \/ UNCHANGED stream
    /\ U!Next \/ UNCHANGED bridge
    /\ I!Next \/ UNCHANGED i2c
    /\ E!Next \/ UNCHANGED element
    /\ P!Next \/ UNCHANGED portManager
<1> USE DEF OnlyGate, OnlyAsk, OnlyDemod, OnlyStream, OnlyBridge, OnlyI2c, OnlyElement, OnlyPorts
<1>1. GateStep => Next /\ UNCHANGED <<which, askDecoder, demod, stream, bridge, i2c, element, portManager>>
  BY DEF GateStep
<1>2. AskStep => A!Next /\ UNCHANGED <<which, vars, demod, stream, bridge, i2c, element, portManager>>
  BY DEF AskStep
<1>3. DemodStep => D!Next /\ UNCHANGED <<which, vars, askDecoder, stream, bridge, i2c, element, portManager>>
  BY DEF DemodStep
<1>4. StreamStep => X!Next /\ UNCHANGED <<which, vars, askDecoder, demod, bridge, i2c, element, portManager>>
  BY DEF StreamStep
<1>5. BridgeStep => U!Next /\ UNCHANGED <<which, vars, askDecoder, demod, stream, i2c, element, portManager>>
  BY DEF BridgeStep
<1>6. I2cStep => I!Next /\ UNCHANGED <<which, vars, askDecoder, demod, stream, bridge, element, portManager>>
  BY DEF I2cStep
<1>7. ElementStep => E!Next /\ UNCHANGED <<which, vars, askDecoder, demod, stream, bridge, i2c, portManager>>
  BY DEF ElementStep
<1>8. PortsStep => P!Next /\ UNCHANGED <<which, vars, askDecoder, demod, stream, bridge, i2c, element>>
  BY DEF PortsStep
<1>9. UNCHANGED links =>
        UNCHANGED <<which, vars, askDecoder, demod, stream, bridge, i2c, element, portManager>>
  BY DEF links
<1> QED
  BY <1>1, <1>2, <1>3, <1>4, <1>5, <1>6, <1>7, <1>8, <1>9 DEF LinksNext

\* Every component's invariant, in every state.
THEOREM Inductive == LinksSpec => []LinksInv
<1>1. LinksInit => LinksInv
  <2> SUFFICES ASSUME LinksInit PROVE LinksInv
    OBVIOUS
  <2>1. which \in Kinds /\ TypeOK /\ AskInv /\ DemodInv /\ StreamInv
    BY GateStarts, AskStarts, DemodStarts, StreamStarts DEF LinksInit, Kinds
  <2>2. BridgeInv /\ I2cInv /\ Fits(device) /\ ElementInv /\ P!TypeOK
    BY BridgeStarts, I2cStarts, ShortStarts, ElementStarts, PortStarts DEF LinksInit
  <2> QED
    BY <2>1, <2>2 DEF LinksInv
<1>2. LinksInv /\ [LinksNext]_links => LinksInv'
  <2> SUFFICES ASSUME LinksInv, [LinksNext]_links PROVE LinksInv'
    OBVIOUS
  <2>1. which' \in Kinds /\ TypeOK'
    BY StepParts, TypeStep DEF LinksInv
  <2>2. AskInv' /\ DemodInv' /\ StreamInv'
    BY StepParts, AskSteps, AskRests, DemodSteps, DemodRests, StreamSteps, StreamRests DEF LinksInv
  <2>3. BridgeInv' /\ ElementInv' /\ P!TypeOK'
    BY StepParts, BridgeSteps, BridgeRests, ElementSteps, ElementRests, PortSteps, PortRests DEF LinksInv
  <2>4. I2cInv' /\ Fits(device)'
    BY StepParts, I2cSteps, I2cRests, ShortStays, ShortRests DEF LinksInv
  <2> QED
    BY <2>1, <2>2, <2>3, <2>4 DEF LinksInv
<1> QED
  BY <1>1, <1>2, PTL DEF LinksSpec

\* What crosses a wire is what was sent, for every length of a byte and of the data,
\* every request and whatever is lost, every pattern of a duty cycle that is off: a
\* transfer to a chip comes to its end with the lines let go and what was said heard
\* (i2cm.c); a response is whole and has its own nonce's signature
\* (wpc_5_xfer_4_dstrm.c); a packet is told once (ask.c) on the path that is set
\* (nu103x.c); virtual values are there in engineering mode only (usb_bridge.c).
\* And every component keeps to its types.
THEOREM WholeAlways == LinksSpec => []Whole
<1>1. LinksInv => Whole
  <2> SUFFICES ASSUME LinksInv PROVE Whole
    OBVIOUS
  <2>1. D!TypeOK /\ D!Agrees /\ X!TypeOK /\ X!Intact /\ U!TypeOK /\ U!VirtualOnlyInEng
    BY DemodAgrees, StreamTyped, BridgeTyped DEF LinksInv
  <2>2. I!TypeOK /\ I!Transferred /\ E!TypeOK /\ TypeOK /\ P!TypeOK /\ A!Once
    BY I2cTyped, I2cTransferred, ElementTyped, AskOnce DEF LinksInv
  <2> QED
    BY <2>1, <2>2 DEF Whole, Typed
<1> QED
  BY <1>1, Inductive, PTL

\* A command to the authentication chip that reports success has returned what the
\* chip holds, however many tries the bus took (t91206.c).
THEOREM SignedAlways == LinksSpec => Signed
<1>1. LinksInv /\ [LinksNext]_links => [cmd # "none" /\ cmd' = "none" /\ code' = "SUCCEED" /\ ~astray' =>
         buf' = CASE cmd = "read_cert_hash" -> E!Memory("digest", 0, Digest)
                  [] cmd = "read_se_cert" -> E!Memory("cert", 0, E!Chain)
                  [] cmd = "get_qi_id" -> E!Memory("cert", Header + Manu, Chunk)
                  [] cmd = "get_tbs_auth" -> <<<<"signature", 0>>>>]_(E!vars)
  BY StepParts, ElementIntact DEF LinksInv, element
<1> QED
  BY <1>1, Inductive, PTL DEF LinksSpec, Signed, E!Intact

\* Beside the other components the ping gate behaves as it does alone: its theorems
\* hold here (wpc_idle.c).
THEOREM GateRuns == LinksSpec => Spec
<1>1. LinksInit => Init
  BY DEF LinksInit
<1>2. [LinksNext]_links => [Next]_vars
  BY StepParts
<1> QED
  BY <1>1, <1>2, PTL DEF LinksSpec, Spec
=============================================================================
