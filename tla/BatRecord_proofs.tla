--------------------------- MODULE BatRecord_proofs ---------------------------
(***************************************************************************)
(* Proofs about BatRecord for all numbers of pages and records, widths of  *)
(* the page sequence and the ids, logs in service and resets: what was     *)
(* saved stays readable and grows by its ids, and an exception is neither  *)
(* lost before it is saved nor counted before it is.  For the two pages    *)
(* there are, what is recycled is the oldest.                              *)
(***************************************************************************)
EXTENDS BatRecord, FiniteSetTheorems, WellFoundedInduction, TLAPS

LEMMA Constants ==
    /\ PageCount \in Nat /\ PageCount >= 1 /\ PageSize \in Nat /\ PageSize >= 1
    /\ PageSeqMod \in Nat /\ PageSeqMod >= 2 /\ IdMod \in Nat /\ IdMod >= 2
    /\ Window \in Nat /\ Window >= 1 /\ NoWindow = Window + 1
    /\ MaxIssue \in Nat /\ MaxIssue + 1 < IdMod /\ MaxResets \in Nat
    /\ 0 \in Page /\ \A p \in Page : p \in Nat /\ p < PageCount
  BY PageCountAssumption, PageSizeAssumption, PageSeqModAssumption, IdModAssumption,
     WindowAssumption, BoundsAssumption DEF Page, NoWindow

LEMMA LeastExists ==
    ASSUME NEW T, T \subseteq Nat, T # {}
    PROVE  \E m \in T : \A k \in T : m <= k
<1> DEFINE Below(k) == 0 .. k - 1
           S == {Below(k) : k \in T}
<1>1. S \subseteq FiniteSubsetsOf(Nat) /\ S # {}
  <2>1. \A k \in T : Below(k) \subseteq Nat /\ IsFiniteSet(Below(k))
    BY FS_Interval
  <2> QED
    BY <2>1 DEF FiniteSubsetsOf
<1>2. PICK b \in S : \A c \in S : ~ (<<c, b>> \in StrictSubsetOrdering(Nat))
  <2> HIDE DEF S
  <2> QED
    BY <1>1, WFMin, FS_StrictSubsetOrderingWellFounded
<1>3. PICK m \in T : b = Below(m)
  BY <1>2
<1>4. ASSUME NEW k \in T, k < m PROVE FALSE
  <2>1. Below(k) \subseteq Below(m) /\ Below(k) # Below(m) /\ Below(m) \subseteq Nat
    <3>1. k \in Below(m) /\ k \notin Below(k)
      BY <1>4
    <3> QED
      BY <1>4, <3>1
  <2>2. <<Below(k), b>> \in StrictSubsetOrdering(Nat)
    BY <2>1, <1>3 DEF StrictSubsetOrdering
  <2> QED
    BY <1>2, <2>2
<1>5. \A k \in T : m <= k
  BY <1>4
<1> QED
  BY <1>5

\* A set of numbers without a gap from 0: induction where the induction theorems
\* cannot be applied.
LEMMA UpTo ==
    ASSUME NEW N \in Nat, NEW T, 0 \in T, \A i \in 0 .. N - 1 : i \in T => i + 1 \in T
    PROVE  0 .. N \subseteq T
<1> DEFINE Gap == (0 .. N) \ T
<1> SUFFICES ASSUME Gap # {} PROVE FALSE
  OBVIOUS
<1>1. PICK m \in Gap : \A k \in Gap : m <= k
  <2>1. Gap \subseteq Nat
    OBVIOUS
  <2> HIDE DEF Gap
  <2> QED
    BY <2>1, LeastExists
<1>2. m # 0 /\ m - 1 \in 0 .. N - 1
  BY <1>1
<1>3. m - 1 \in T
  BY <1>1, <1>2
<1> QED
  BY <1>1, <1>2, <1>3

\* The loops over the pages
LEMMA NewestFound ==
    ASSUME NEW f \in [Page -> PageImage]
    PROVE  \/ NewestPage(f) = PageCount /\ \A p \in Page : ~Valid(f[p])
           \/ NewestPage(f) \in Page /\ Valid(f[NewestPage(f)])
<1> DEFINE Loop(best, k) == best[0] = PageCount /\ \A p \in 0 .. k - 1 : best[p + 1] = Better(f, best[p], p)
           Looped == {k \in 0 .. PageCount : \E best \in [0 .. k -> 0 .. PageCount] : Loop(best, k)}
<1> USE Constants DEF Page
<1>1. PageCount \in Looped
  <2>1. 0 \in Looped
    <3> DEFINE b == [i \in 0 .. 0 |-> PageCount]
    <3>1. b \in [0 .. 0 -> 0 .. PageCount] /\ Loop(b, 0)
      OBVIOUS
    <3>2. 0 \in 0 .. PageCount
      OBVIOUS
    <3> HIDE DEF b, Loop
    <3> QED
      BY <3>1, <3>2
  <2>2. ASSUME NEW k \in 0 .. PageCount - 1, k \in Looped PROVE k + 1 \in Looped
    <3>1. PICK best \in [0 .. k -> 0 .. PageCount] : Loop(best, k)
      BY <2>2
    <3> DEFINE b == [i \in 0 .. k + 1 |-> IF i = k + 1 THEN Better(f, best[k], k) ELSE best[i]]
    <3>2. Better(f, best[k], k) \in 0 .. PageCount
      BY <3>1 DEF Better
    <3>3. b \in [0 .. k + 1 -> 0 .. PageCount]
      BY <3>1, <3>2
    <3>4. b[0] = PageCount
      BY <3>1
    <3>5. \A p \in 0 .. k : b[p + 1] = Better(f, b[p], p)
      <4>1. \A p \in 0 .. k : b[p] = best[p]
        OBVIOUS
      <4>2. \A p \in 0 .. k - 1 : b[p + 1] = best[p + 1]
        OBVIOUS
      <4> HIDE DEF b
      <4>3. \A p \in 0 .. k - 1 : b[p + 1] = Better(f, b[p], p)
        BY <3>1, <4>1, <4>2
      <4>4. b[k + 1] = Better(f, b[k], k)
        BY <4>1 DEF b
      <4> QED
        BY <4>3, <4>4
    <3>6. Loop(b, k + 1) /\ k + 1 \in 0 .. PageCount
      <4> HIDE DEF b
      <4> QED
        BY <3>4, <3>5
    <3> QED
      BY <3>3, <3>6
  <2>3. 0 .. PageCount \subseteq Looped
    <3> HIDE DEF Looped
    <3> QED
      BY <2>1, <2>2, UpTo
  <2>4. PageCount \in 0 .. PageCount
    OBVIOUS
  <2> HIDE DEF Looped
  <2> QED
    BY <2>3, <2>4
<1> DEFINE best == Newest(f)
<1>2. best \in [0 .. PageCount -> 0 .. PageCount] /\ Loop(best, PageCount)
  <2>1. \E b \in [0 .. PageCount -> 0 .. PageCount] : b[0] = PageCount /\ \A p \in Page : b[p + 1] = Better(f, b[p], p)
    BY <1>1
  <2> QED
    BY <2>1 DEF Newest
<1> HIDE DEF best
<1> DEFINE Sound == {k \in 0 .. PageCount : \/ best[k] = PageCount /\ \A p \in 0 .. k - 1 : ~Valid(f[p])
                                            \/ best[k] \in Page /\ Valid(f[best[k]])}
<1>3. 0 \in Sound
  BY <1>2
<1>4. ASSUME NEW k \in 0 .. PageCount - 1, k \in Sound PROVE k + 1 \in Sound
  <2>1. best[k + 1] = Better(f, best[k], k) /\ k + 1 \in 0 .. PageCount
    BY <1>2
  <2> QED
    BY <2>1, <1>4 DEF Better
<1>5. PageCount \in Sound
  <2> HIDE DEF Sound
  <2>1. 0 .. PageCount \subseteq Sound
    BY <1>3, <1>4, UpTo
  <2> QED
    BY <2>1
<1> QED
  BY <1>5 DEF best, NewestPage

LEMMA MaxIdIs ==
    ASSUME NEW N \in Nat, NEW S, S \subseteq 0 .. N
    PROVE  MaxId(S) \in S \cup {0} /\ \A y \in S : y <= MaxId(S)
<1> DEFINE Room == {N - x : x \in S \cup {0}}
<1>1. Room \subseteq Nat /\ Room # {}
  OBVIOUS
<1>2. PICK m \in Room : \A k \in Room : m <= k
  <2> HIDE DEF Room
  <2> QED
    BY <1>1, LeastExists
<1>3. PICK x \in S \cup {0} : m = N - x
  BY <1>2
<1>4. \A y \in S \cup {0} : y <= x
  <2> TAKE y \in S \cup {0}
  <2>1. N - y \in Room
    OBVIOUS
  <2>2. N - x <= N - y
    BY <2>1, <1>2, <1>3
  <2>3. x \in 0 .. N /\ y \in 0 .. N
    OBVIOUS
  <2> QED
    BY <2>2, <2>3
<1>5. MaxId(S) \in S \cup {0} /\ \A y \in S : y <= MaxId(S)
  <2>1. \E z \in S \cup {0} : \A y \in S : y <= z
    BY <1>4
  <2> QED
    BY <2>1 DEF MaxId
<1> QED
  BY <1>5
-----------------------------------------------------------------------------
(* The inductive invariant *)

Index == 1 .. PageSize

\* Of a page image: the records lie in the slots its count covers, unless its
\* count is broken, and then there are none.
Filled(p) == \A i \in Index : p.recs[i].n # 0 => p.magic = "V7" /\ i <= p.count /\ p.count <= PageSize

\* What the pages look like once what is to be rewritten has been.
After(p) == IF p \in DOMAIN todo THEN todo[p] ELSE flash[p]
Written(p) == IF p.magic = "V7" THEN p.count ELSE 0

\* Pages are well-formed, the images to be written moreover complete, and no number
\* of a record has not been issued.
Images ==
    /\ \A p \in Page : Filled(flash[p])
    /\ \A p \in DOMAIN todo : Filled(todo[p]) /\ Valid(todo[p])
    /\ \A p \in Page, i \in Index : flash[p].recs[i].n <= issued
    /\ \A p \in DOMAIN todo, i \in Index : todo[p].recs[i].n <= issued
    /\ \A n \in kept : n <= issued
    /\ \A p \in Page : flash[p].magic = "V5" => flash[p].count <= issued

\* RAM has been restored from flash, or need not be.
Ready == pc \in {"boot", "run"} \/ (pc = "flush" /\ back = "run") \/ mem.magic \/ pend # {}

\* A page with a broken count is repaired before anything is written.
Mended == Ready => \A p \in Page : Broken(flash[p]) => p \in DOMAIN todo

\* The write pointer stands behind the records of the active page.
Synced ==
    Ready => /\ \A i \in Index : i > mem.wptr => After(mem.active).recs[i].n \notin kept
             /\ mem.wptr <= Written(After(mem.active))

\* While no page could be read, RAM points to the log's start or to a page written since.
Unread == mem.magic \/ mem.wptr = 0 \/ Valid(After(mem.active))

\* A rewrite keeps what its page had, and is either of a page with nothing to keep, or
\* the one that saves the next record.
Carried ==
    \A p \in DOMAIN todo :
        /\ \A i \in Index : flash[p].recs[i].n \in kept \/ todo[p].recs[i].n \in kept =>
                              todo[p].recs[i] = flash[p].recs[i]
        /\ Saves(todo[p]) \/ \A i \in Index : flash[p].recs[i].n \notin kept

Saving ==
    \A p \in DOMAIN todo : Saves(todo[p]) =>
        /\ DOMAIN todo = {p} /\ p = mem.active /\ issued \notin kept /\ pend # {}
        /\ \A i \in Index : todo[p].recs[i].n = issued => i = mem.wptr
        /\ \A q \in Page, i \in Index : flash[q].recs[i].n < issued

\* What is under way in which state.
Resting == /\ pc \in {"off", "sleep", "run"} => Still
           /\ pc # "flush" => pend = {}
           /\ pc = "off" => mem = Cleared

\* The exceptions owed are in the cache, and while they are written among those to come.
Owing ==
    /\ owed \subseteq cache.trig
    /\ pc = "flush" => owed \subseteq pend
    /\ cache.age = NoWindow => owed = {}

\* The slots in use, which broken pages have none of, are no more than the records issued.
Used(f) == {s \in Page \X Index : /\ f[s[1]].magic = "V7" /\ f[s[1]].count <= PageSize
                                  /\ s[2] <= f[s[1]].count}
Counted ==
    /\ Cardinality(Used(flash)) <= issued
    /\ \A p \in DOMAIN todo :
        todo[p].count = 0 \/ /\ Cardinality(Used([flash EXCEPT ![p] = todo[p]])) <= issued
                             /\ \A q \in DOMAIN todo \ {p} : p < q /\ todo[q].count = 0
    /\ forbid => issued >= MaxTotal

\* As long as no scan met an unwritten slot: ids are no larger than numbers, the next one is
\* larger than those of what is kept.
Sane(r) == IF r.n = 0 THEN r.id \in {0, IdMod - 1} ELSE r.id <= r.n
IdReady == pc \in {"boot", "run"} \/ (pc = "flush" /\ back = "run") \/ pend # {}
KeptBelow(id) == \A p \in Page, i \in Index : flash[p].recs[i].n \in kept => flash[p].recs[i].id < id
Ids ==
    ~garbled =>
        /\ \A p \in Page, i \in Index : Sane(flash[p].recs[i])
        /\ \A p \in DOMAIN todo, i \in Index : Sane(todo[p].recs[i])
        /\ mem.nextId <= issued + 1
        /\ IdReady => mem.nextId # 0
        /\ mem.nextId # 0 => KeptBelow(mem.nextId)
        /\ \A p \in DOMAIN todo : Saves(todo[p]) =>
              todo[p].recs[mem.wptr].id = mem.nextId - 1 /\ KeptBelow(mem.nextId - 1)

\* The log as it is written and restored, which the other parts rest on.
LogInv == /\ TypeOK /\ Images /\ Mended /\ Synced /\ Unread /\ Carried /\ Saving /\ Resting
          /\ RecordsKept
-----------------------------------------------------------------------------
(* Page images *)

LEMMA SlotTypes ==
    /\ Blank \in [n : 0 .. MaxIssue, id : 0 .. IdMod - 1]
    /\ Old \in [n : 0 .. MaxIssue, id : 0 .. IdMod - 1]
  BY Constants DEF Blank, Old

LEMMA BlankPages ==
    /\ Empty \in PageImage /\ Erased \in PageImage
    /\ Filled(Empty) /\ Filled(Erased) /\ Valid(Empty) /\ ~Broken(Empty)
    /\ \A i \in Index : Empty.recs[i] = Old /\ Erased.recs[i] = Blank
    /\ Empty.count = 0 /\ Empty.magic = "V7" /\ Erased.magic = "erased"
  BY SlotTypes, Constants DEF Empty, Erased, PageImage, Slots, Count, Filled, Valid, Broken, Index,
     NoRecs, ZeroRecs, Blank, Old

LEMMA ImageParts ==
    ASSUME NEW p \in PageImage
    PROVE  /\ p.magic \in {"erased", "V5", "V7"} /\ p.count \in 0 .. PageSize + 1
           /\ p.seq \in 0 .. PageSeqMod - 1 /\ p.sum \in BOOLEAN /\ p.recs \in Slots
           /\ \A i \in Index : p.recs[i].n \in 0 .. MaxIssue /\ p.recs[i].id \in 0 .. IdMod - 1
  BY DEF PageImage, Slots, Count, Index

\* A broken page has no records.
LEMMA BrokenIsBlank ==
    ASSUME NEW p \in PageImage, Filled(p), ~Valid([p EXCEPT !.sum = TRUE])
    PROVE  \A i \in Index : p.recs[i].n = 0
  BY ImageParts, Constants DEF Filled, Valid, PageImage

LEMMA RepairedIs ==
    ASSUME NEW f \in [Page -> PageImage]
    PROVE  /\ [p \in Page |-> Repaired(f[p])] \in [Page -> PageImage]
           /\ \A p \in Page : Valid(f[p]) => ~Broken(f[p]) /\ Repaired(f[p]) = f[p]
           /\ \A p \in Page : Broken(f[p]) => Repaired(f[p]) = Empty
           /\ \A p \in Page : ~Broken(f[p]) => Repaired(f[p]) = f[p]
  BY BlankPages, ImageParts, Constants DEF Repaired, Valid, Broken

\* What a reset leaves of a page has slots of the old page, of the new one, or blank ones.
LEMMA TornIs ==
    ASSUME NEW old \in PageImage, NEW img \in PageImage, Filled(old), Filled(img), Valid(img),
           NEW left \in Torn(old, img)
    PROVE  /\ left \in PageImage /\ Filled(left)
           /\ \A i \in Index : left.recs[i] \in {old.recs[i], img.recs[i], Blank}
           /\ left.magic = "V5" => left = old
           /\ \/ left = old
              \/ ~Valid([left EXCEPT !.sum = TRUE])
              \/ left.magic = "V7" /\ left.count = img.count
<1>1. CASE left \in {old, Erased, img}
  BY <1>1, BlankPages DEF Valid
<1>2. CASE left = [Erased EXCEPT !.magic = img.magic]
  <2>1. /\ left.recs = Erased.recs /\ left.magic = "V7" /\ left.count = PageSize + 1
        /\ left \in PageImage /\ left.sum = FALSE
    BY <1>2, BlankPages DEF Erased, Valid, PageImage
  <2>2. ~(left.count <= PageSize)
    BY <2>1, Constants
  <2>3. Filled(left)
    BY <2>1, BlankPages DEF Filled, Blank
  <2> QED
    BY <2>1, <2>2, <2>3, BlankPages DEF Valid
<1>3. ASSUME NEW k \in 0 .. PageSize,
             left = [img EXCEPT !.sum = FALSE,
                                !.recs = [i \in 1 .. PageSize |-> IF i <= k THEN img.recs[i] ELSE Blank]]
      PROVE  /\ left \in PageImage /\ Filled(left)
             /\ \A i \in Index : left.recs[i] \in {img.recs[i], Blank}
             /\ left.magic = "V7" /\ left.count = img.count
  <2>1. /\ left.magic = "V7" /\ left.count = img.count /\ left.seq = img.seq /\ left.sum = FALSE
        /\ left.recs = [i \in 1 .. PageSize |-> IF i <= k THEN img.recs[i] ELSE Blank]
    BY <1>3 DEF PageImage, Valid
  <2>2. left.recs \in Slots
    <3>1. \A i \in 1 .. PageSize : img.recs[i] \in [n : 0 .. MaxIssue, id : 0 .. IdMod - 1]
      BY DEF PageImage, Slots
    <3> QED
      BY <2>1, <3>1, SlotTypes DEF Slots
  <2>3. left \in PageImage
    BY <1>3, <2>2 DEF PageImage
  <2>4. \A i \in Index : left.recs[i] \in {img.recs[i], Blank}
    BY <2>1 DEF Index
  <2>5. Filled(left)
    BY <2>1, <2>4 DEF Filled, Blank, Valid
  <2> QED
    BY <2>1, <2>3, <2>4, <2>5
<1> QED
  BY <1>1, <1>2, <1>3 DEF Torn

-----------------------------------------------------------------------------
(* What is restored of the log *)

Mem == [magic : BOOLEAN, active : Page, wptr : 0 .. PageSize, seq : 0 .. PageSeqMod - 1,
        nextId : 0 .. IdMod - 1]

LEMMA ClearedIs == Cleared \in Mem /\ Cleared.magic = FALSE /\ Cleared.active = 0 /\ Cleared.wptr = 0
                   /\ Cleared.nextId = 0
  BY Constants DEF Cleared, Mem

LEMMA FreshIs ==
    LET fresh == [Cleared EXCEPT !.magic = TRUE, !.nextId = 1]
    IN  fresh \in Mem /\ fresh.active = 0 /\ fresh.wptr = 0 /\ fresh.magic = TRUE /\ fresh.nextId = 1
<1>1. ASSUME NEW m \in Mem
      PROVE  LET n == [m EXCEPT !.magic = TRUE, !.nextId = 1]
             IN  n \in Mem /\ n.active = m.active /\ n.wptr = m.wptr /\ n.magic = TRUE /\ n.nextId = 1
  <2> DEFINE n == [m EXCEPT !.magic = TRUE, !.nextId = 1]
  <2>1. 1 \in 0 .. IdMod - 1
    BY Constants
  <2>2. n \in Mem /\ n.active = m.active /\ n.wptr = m.wptr /\ n.magic = TRUE /\ n.nextId = 1
    BY <2>1 DEF Mem
  <2> QED
    BY <2>2
<1> QED
  BY <1>1, ClearedIs

LEMMA LoadedIs ==
    ASSUME NEW f \in [Page -> PageImage], NEW m \in Mem
    PROVE  /\ Loaded(m, f) \in Mem /\ Loaded(m, f).nextId = m.nextId
           /\ \/ Loaded(m, f) = m /\ \A p \in Page : ~Valid(f[p])
              \/ /\ Valid(f[Loaded(m, f).active]) /\ Loaded(m, f).magic = TRUE
                 /\ Loaded(m, f).wptr = f[Loaded(m, f).active].count
<1> DEFINE best == NewestPage(f)
<1> HIDE DEF best
<1>1. \/ best = PageCount /\ \A p \in Page : ~Valid(f[p])
      \/ best \in Page /\ Valid(f[best])
  BY NewestFound DEF best
<1>2. CASE best = PageCount /\ \A p \in Page : ~Valid(f[p])
  BY <1>2 DEF best, Loaded
<1>3. CASE best \in Page /\ Valid(f[best])
  <2>1. best # PageCount
    BY <1>3, Constants
  <2>2. f[best] \in PageImage /\ f[best].count \in 0 .. PageSize /\ f[best].seq \in 0 .. PageSeqMod - 1
    BY <1>3, ImageParts, Constants DEF Valid
  <2>3. Loaded(m, f) = [m EXCEPT !.magic = TRUE, !.active = best,
                                 !.wptr = f[best].count, !.seq = f[best].seq]
    BY <2>1 DEF Loaded, best
  <2>4. /\ Loaded(m, f).active = best /\ Loaded(m, f).magic = TRUE /\ Loaded(m, f).wptr = f[best].count
        /\ Loaded(m, f).nextId = m.nextId
    BY <2>3 DEF Mem
  <2>5. Loaded(m, f) \in Mem
    BY <2>2, <2>3, <1>3 DEF Mem
  <2> QED
    BY <2>4, <2>5, <1>3
<1> QED
  BY <1>1, <1>2, <1>3

LEMMA ScannedIdsAre ==
    ASSUME NEW f \in [Page -> PageImage]
    PROVE  /\ ScannedIds(f) \subseteq 0 .. IdMod - 1
           /\ \A p \in Page, i \in Index : f[p].magic = "V7" /\ i <= f[p].count => f[p].recs[i].id \in ScannedIds(f)
<1>1. \A p \in Page : PageRecords(f[p]) \in 0 .. PageSize
  BY ImageParts, Constants DEF PageRecords, Least
<1>2. \A p \in Page, i \in Index : f[p].recs[i].id \in 0 .. IdMod - 1
  BY ImageParts
<1>3. ASSUME NEW p \in Page, NEW i \in Index, f[p].magic = "V7", i <= f[p].count
      PROVE  i \in 1 .. PageRecords(f[p])
  BY <1>3, ImageParts, Constants DEF PageRecords, Least, Index
<1> QED
  BY <1>1, <1>2, <1>3, Constants DEF ScannedIds, Index

LEMMA RestoredIdIs ==
    ASSUME NEW f \in [Page -> PageImage]
    PROVE  RestoredId(f) \in 0 .. IdMod - 1
<1>1. MaxId(ScannedIds(f)) \in 0 .. IdMod - 1
  BY ScannedIdsAre, MaxIdIs, Constants
<1> QED
  BY <1>1, Constants DEF RestoredId

-----------------------------------------------------------------------------
(* Types *)

\* The images of the pages still to be rewritten.
Todo(t) == DOMAIN t \subseteq Page /\ t \in [DOMAIN t -> PageImage]

LEMMA TypesAre ==
    TypeOK <=> /\ flash \in [Page -> PageImage] /\ mem \in Mem
               /\ cache \in [trig : SUBSET Kind, age : 0 .. NoWindow]
               /\ pc \in {"off", "sleep", "boot", "run", "flush"} /\ back \in {"run", "sleep"}
               /\ Todo(todo) /\ pend \subseteq Kind
               /\ forbid \in BOOLEAN
               /\ issued \in 0 .. MaxIssue /\ resets \in 0 .. MaxResets
               /\ kept \subseteq 1 .. MaxIssue
               /\ owed \subseteq Kind /\ garbled \in BOOLEAN
  BY DEF TypeOK, Mem, Todo

LEMMA TypesAfter ==
    ASSUME flash' \in [Page -> PageImage], mem' \in Mem,
           cache' \in [trig : SUBSET Kind, age : 0 .. NoWindow],
           pc' \in {"off", "sleep", "boot", "run", "flush"}, back' \in {"run", "sleep"},
           Todo(todo'), pend' \subseteq Kind, forbid' \in BOOLEAN,
           issued' \in 0 .. MaxIssue, resets' \in 0 .. MaxResets, kept' \subseteq 1 .. MaxIssue,
           owed' \subseteq Kind, garbled' \in BOOLEAN
    PROVE  TypeOK'
  BY DEF TypeOK, Mem, Todo

LEMMA JobTypes ==
    /\ Todo(NoJobs) /\ Todo(AllEmpty) /\ DOMAIN NoJobs = {} /\ DOMAIN AllEmpty = Page
    /\ \A f : Todo(RepairJobs(f)) /\ DOMAIN RepairJobs(f) = {p \in Page : Broken(f[p])}
              /\ \A p \in DOMAIN RepairJobs(f) : RepairJobs(f)[p] = Empty
    /\ \A p \in Page : AllEmpty[p] = Empty
  BY BlankPages DEF Todo, NoJobs, AllEmpty, RepairJobs

LEMMA CacheTypes ==
    ASSUME NEW c \in [trig : SUBSET Kind, age : 0 .. NoWindow]
    PROVE  /\ KeepsWindow(c) \in [trig : SUBSET Kind, age : 0 .. NoWindow]
           /\ Opened(c) \in [trig : SUBSET Kind, age : 0 .. NoWindow]
           /\ Restarted(c) \in [trig : SUBSET Kind, age : 0 .. NoWindow]
           /\ \A K \in SUBSET Kind : Seen(c, K) \in [trig : SUBSET Kind, age : 0 .. NoWindow]
           /\ [trig |-> {}, age |-> NoWindow] \in [trig : SUBSET Kind, age : 0 .. NoWindow]
<1> USE Constants
<1>1. KeepsWindow(c) \in [trig : SUBSET Kind, age : 0 .. NoWindow]
  BY DEF KeepsWindow
<1>2. Opened(c) \in [trig : SUBSET Kind, age : 0 .. NoWindow]
  BY DEF Opened
<1>3. Restarted(c) \in [trig : SUBSET Kind, age : 0 .. NoWindow]
  BY DEF Restarted
<1>4. \A K \in SUBSET Kind : Seen(c, K) \in [trig : SUBSET Kind, age : 0 .. NoWindow]
  BY DEF Seen
<1> QED
  BY <1>1, <1>2, <1>3, <1>4

LEMMA MigratedIs ==
    ASSUME NEW p \in PageImage
    PROVE  /\ Migrated(p) \in PageImage /\ Filled(Migrated(p)) /\ Valid(Migrated(p))
           /\ Migrated(p).count \in 0 .. PageSize /\ Migrated(p).count <= p.count
           /\ \A i \in Index : Migrated(p).recs[i] = Old
           /\ Migrated(p).magic = "V7"
<1>1. Least(p.count, PageSize) \in 0 .. PageSize /\ Least(p.count, PageSize) <= p.count
  BY ImageParts, Constants DEF Least
<1>2. Migrated(p) = [Empty EXCEPT !.count = Least(p.count, PageSize)]
  BY DEF Migrated
<1>3. /\ Migrated(p).recs = Empty.recs /\ Migrated(p).count = Least(p.count, PageSize)
      /\ Migrated(p).magic = "V7" /\ Migrated(p).sum = TRUE
  BY <1>2 DEF Empty
<1>4. Migrated(p) \in PageImage
  BY <1>1, <1>2, BlankPages, Constants DEF PageImage, Count
<1>5. \A i \in Index : Migrated(p).recs[i] = Old
  BY <1>3, BlankPages
<1> QED
  BY <1>1, <1>3, <1>4, <1>5 DEF Filled, Valid, Old

\* The image of a page with one more record.
LEMMA ImageIs ==
    ASSUME NEW p \in PageImage, NEW m \in Mem, m.wptr < PageSize, Filled(p), ~Broken(p),
           NEW r \in [n : 1 .. MaxIssue, id : 0 .. IdMod - 1]
    PROVE  /\ Image(p, m, r) \in PageImage /\ Filled(Image(p, m, r)) /\ Valid(Image(p, m, r))
           /\ m.wptr + 1 \in Index /\ Image(p, m, r).recs[m.wptr + 1] = r
           /\ \A i \in Index : i # m.wptr + 1 =>
                 Image(p, m, r).recs[i] = IF p.magic = "V7" THEN p.recs[i] ELSE Old
           /\ Image(p, m, r).count = IF m.wptr >= Written(p) THEN m.wptr + 1 ELSE Written(p)
           /\ Image(p, m, r).magic = "V7"
<1> DEFINE b == IF p.magic = "V7" THEN p ELSE Empty
<1>1. /\ b \in PageImage /\ b.magic = "V7" /\ b.count = Written(p) /\ Filled(b) /\ b.count \in 0 .. PageSize
      /\ \A i \in Index : b.recs[i] = IF p.magic = "V7" THEN p.recs[i] ELSE Old
  BY BlankPages, ImageParts, Constants DEF Written, Broken
<1> HIDE DEF b
<1>2. Image(p, m, r) = [b EXCEPT !.magic = "V7", !.seq = m.seq, !.sum = TRUE,
                                 !.count = IF m.wptr >= @ THEN m.wptr + 1 ELSE @,
                                 !.recs[m.wptr + 1] = r]
  BY DEF Image, b
<1>3. m.wptr \in 0 .. PageSize - 1 /\ m.seq \in 0 .. PageSeqMod - 1 /\ m.wptr + 1 \in 1 .. PageSize
  BY Constants DEF Mem
<1>4. /\ Image(p, m, r).recs = [b.recs EXCEPT ![m.wptr + 1] = r]
      /\ Image(p, m, r).count = IF m.wptr >= b.count THEN m.wptr + 1 ELSE b.count
      /\ Image(p, m, r).magic = "V7" /\ Image(p, m, r).sum = TRUE /\ Image(p, m, r).seq = m.seq
  BY <1>1, <1>2 DEF PageImage
<1>5. b.recs \in Slots /\ r \in [n : 0 .. MaxIssue, id : 0 .. IdMod - 1]
  BY <1>1 DEF PageImage
<1>6. [b.recs EXCEPT ![m.wptr + 1] = r] \in Slots
  BY <1>5 DEF Slots
<1>7. Image(p, m, r).count \in 1 .. PageSize /\ m.wptr + 1 <= Image(p, m, r).count
      /\ b.count <= Image(p, m, r).count
  BY <1>1, <1>3, <1>4, Constants
<1>8. Image(p, m, r) \in PageImage
  <2>1. b = [magic |-> "V7", count |-> b.count, seq |-> b.seq, recs |-> b.recs, sum |-> b.sum]
    BY <1>1 DEF PageImage
  <2>2. Image(p, m, r) = [magic |-> "V7", count |-> Image(p, m, r).count, seq |-> m.seq,
                          recs |-> [b.recs EXCEPT ![m.wptr + 1] = r], sum |-> TRUE]
    BY <1>2, <1>4, <2>1
  <2>3. Image(p, m, r).count \in Count
    BY <1>7, Constants DEF Count
  <2>4. \A c \in Count, s \in 0 .. PageSeqMod - 1, rs \in Slots :
           [magic |-> "V7", count |-> c, seq |-> s, recs |-> rs, sum |-> TRUE] \in PageImage
    BY DEF PageImage
  <2>5. [magic |-> "V7", count |-> Image(p, m, r).count, seq |-> m.seq,
         recs |-> [b.recs EXCEPT ![m.wptr + 1] = r], sum |-> TRUE] \in PageImage
    BY <1>3, <1>6, <2>3, <2>4
  <2> QED
    BY <2>2, <2>5, Zenon
<1>9. /\ Image(p, m, r).recs[m.wptr + 1] = r
      /\ \A i \in Index : i # m.wptr + 1 => Image(p, m, r).recs[i] = b.recs[i]
  BY <1>3, <1>4, <1>5 DEF Slots, Index
<1>10. Filled(Image(p, m, r))
  <2> SUFFICES ASSUME NEW i \in Index, Image(p, m, r).recs[i].n # 0 PROVE i <= Image(p, m, r).count
    BY <1>4, <1>7, Constants DEF Filled
  <2>1. CASE i = m.wptr + 1
    BY <2>1, <1>7
  <2>2. CASE i # m.wptr + 1
    <3>1. i <= b.count
      BY <2>2, <1>1, <1>9 DEF Filled
    <3> QED
      BY <3>1, <1>1, <1>7 DEF Index
  <2> QED
    BY <2>1, <2>2
<1>11. Valid(Image(p, m, r))
  BY <1>4, <1>7, Constants DEF Valid
<1> QED
  BY <1>1, <1>3, <1>4, <1>8, <1>9, <1>10, <1>11 DEF Index

-----------------------------------------------------------------------------
(* The log: what is saved stays *)

LEMMA PageProduct ==
    ASSUME NEW c \in Nat, NEW s \in Nat, NEW p \in 0 .. c - 1
    PROVE  p * s \in Nat /\ c * s \in Nat /\ p * s + s <= c * s
<1>1. (c - p - 1) * s >= 0 /\ p * s \in Nat /\ c * s \in Nat
  OBVIOUS
<1>2. (c - p - 1) * s = c * s - p * s - s
  OBVIOUS
<1> QED
  BY <1>1, <1>2

\* A kept record is one that can be read, so it has a number.
LEMMA KeptIs ==
    ASSUME LogInv
    PROVE  0 \notin kept
  BY SMTT(30) DEF LogInv, TypeOK

\* The log a chip comes with
LEMMA ComesWith ==
    ASSUME Init
    PROVE  /\ flash \in [Page -> PageImage] /\ issued \in 0 .. MaxIssue
           /\ \A p \in Page : Filled(flash[p])
           /\ \A p \in Page, i \in Index :
                /\ flash[p].recs[i].n <= issued
                /\ \/ flash[p].recs[i].n = 0 /\ flash[p].recs[i].id \in {0, IdMod - 1}
                   \/ flash[p].recs[i].id = flash[p].recs[i].n
           /\ \A p \in Page : flash[p].magic = "V5" => flash[p].count <= issued
           /\ (\A p \in Page : flash[p].magic # "V7") \/ issued = MaxTotal
<1> DEFINE OldLog(c) == [p \in Page |-> IF p = 0 THEN [Empty EXCEPT !.magic = "V5", !.count = c]
                                         ELSE Erased]
           recs(p) == [i \in 1 .. PageSize |-> [n |-> p * PageSize + i, id |-> p * PageSize + i]]
           WornLog(s) == [p \in Page |-> [Empty EXCEPT !.count = PageSize,
                                                       !.seq = (s + p) % PageSeqMod,
                                                       !.recs = recs(p)]]
<1>1. \/ flash = [p \in Page |-> Erased] /\ issued = 0
      \/ \E c \in OldLogs : issued = c /\ flash = OldLog(c)
      \/ \E s \in Worn : issued = MaxTotal /\ flash = WornLog(s)
  BY DEF Init
<1>2. CASE flash = [p \in Page |-> Erased] /\ issued = 0
  BY <1>2, BlankPages, Constants DEF Blank
<1>3. CASE \E c \in OldLogs : issued = c /\ flash = OldLog(c)
  <2>1. PICK c \in OldLogs : issued = c /\ flash = OldLog(c)
    BY <1>3
  <2> DEFINE old == [Empty EXCEPT !.magic = "V5", !.count = c]
  <2>2. c \in 0 .. MaxIssue /\ c \in 0 .. PageSize + 1
    BY BoundsAssumption
  <2>3. old \in PageImage /\ old.magic = "V5" /\ old.count = c /\ old.recs = Empty.recs
    BY <2>2, BlankPages DEF PageImage, Count
  <2>4. flash = [p \in Page |-> IF p = 0 THEN old ELSE Erased]
    BY <2>1
  <2> HIDE DEF old, OldLog
  <2>5. \A p \in Page, i \in Index : flash[p].recs[i] \in {Old, Blank}
    BY <2>3, <2>4, BlankPages
  <2>6. \A p \in Page, i \in Index : flash[p].recs[i].n = 0 /\ flash[p].recs[i].id \in {0, IdMod - 1}
    BY <2>5 DEF Old, Blank
  <2>7. \A p \in Page : Filled(flash[p])
    BY <2>6 DEF Filled
  <2>8. flash \in [Page -> PageImage] /\ \A p \in Page : flash[p].magic \in {"V5", "erased"}
    BY <2>3, <2>4, BlankPages
  <2>9. \A p \in Page : flash[p].magic = "V5" => flash[p].count = c
    BY <2>3, <2>4, BlankPages
  <2> QED
    BY <2>1, <2>2, <2>6, <2>7, <2>8, <2>9
<1>4. CASE \E s \in Worn : issued = MaxTotal /\ flash = WornLog(s)
  <2>1. PICK s \in Worn : issued = MaxTotal /\ flash = WornLog(s)
    BY <1>4
  <2>2. PageCount * PageSize <= MaxIssue
    BY BoundsAssumption
  <2>3. PageCount * PageSize \in Nat
    <3>1. PageCount - 1 \in 0 .. PageCount - 1
      BY Constants
    <3> QED
      BY <3>1, PageProduct, Constants
  <2>4. issued = PageCount * PageSize /\ issued \in 0 .. MaxIssue
    <3> HIDE DEF WornLog
    <3> QED
      BY <2>1, <2>2, <2>3, Constants DEF MaxTotal
  <2> DEFINE seq(p) == (s + p) % PageSeqMod
  <2>5. \A p \in Page, i \in 1 .. PageSize : p * PageSize + i \in 0 .. issued
    <3> TAKE p \in Page, i \in 1 .. PageSize
    <3>1. p * PageSize \in Nat /\ p * PageSize + PageSize <= PageCount * PageSize
      BY PageProduct, Constants DEF Page
    <3> QED
      BY <2>4, <3>1, Constants
  <2>6. \A p \in Page : recs(p) \in Slots
    <3>1. \A p \in Page, i \in 1 .. PageSize : p * PageSize + i \in 0 .. MaxIssue /\ p * PageSize + i \in 0 .. IdMod - 1
      BY <2>4, <2>5, Constants
    <3> QED
      BY <3>1 DEF Slots
  <2>7. \A p \in Page : seq(p) \in 0 .. PageSeqMod - 1
    BY BoundsAssumption, Constants
  <2>8. \A p \in Page, i \in Index : /\ recs(p)[i].id = recs(p)[i].n
                                     /\ recs(p)[i].n <= issued
    BY <2>4, <2>5 DEF Index
  <2>9. flash = [p \in Page |-> [Empty EXCEPT !.count = PageSize, !.seq = seq(p), !.recs = recs(p)]]
    BY <2>1
  <2> HIDE DEF recs, seq, WornLog
  <2>10. \A p \in Page : flash[p] = [magic |-> "V7", count |-> PageSize, seq |-> seq(p),
                                     recs |-> recs(p), sum |-> TRUE]
    BY <2>9 DEF Empty
  <2>11. PageSize \in Count
    BY Constants DEF Count
  <2>12. \A p \in Page : flash[p] \in PageImage
    <3>1. \A c \in Count, q \in 0 .. PageSeqMod - 1, rs \in Slots :
             [magic |-> "V7", count |-> c, seq |-> q, recs |-> rs, sum |-> TRUE] \in PageImage
      BY DEF PageImage
    <3> QED
      BY <2>6, <2>7, <2>10, <2>11, <3>1
  <2>13. flash \in [Page -> PageImage]
    BY <2>9, <2>12
  <2>14. \A p \in Page : flash[p].recs = recs(p) /\ flash[p].magic = "V7" /\ flash[p].count = PageSize
    <3> TAKE p \in Page
    <3> DEFINE img == [magic |-> "V7", count |-> PageSize, seq |-> seq(p), recs |-> recs(p), sum |-> TRUE]
    <3>1. img.recs = recs(p) /\ img.magic = "V7" /\ img.count = PageSize
      OBVIOUS
    <3> HIDE DEF img
    <3>2. flash[p] = img
      BY <2>10 DEF img
    <3> QED
      BY <3>1, <3>2
  <2>15. \A p \in Page : Filled(flash[p])
    BY <2>14, Constants DEF Filled, Index
  <2> QED
    BY SMTT(30), <2>1, <2>4, <2>8, <2>13, <2>14, <2>15
<1> QED
  BY <1>1, <1>2, <1>3, <1>4

LEMMA LogStart ==
    ASSUME Init
    PROVE  LogInv
<1>0. /\ kept = Readable(flash) /\ mem = Cleared /\ cache = [trig |-> {}, age |-> NoWindow]
      /\ pc = "off" /\ todo = NoJobs /\ pend = {} /\ back = "run" /\ forbid = FALSE
      /\ resets = 0 /\ owed = {} /\ garbled = FALSE
  BY Zenon DEF Init
<1>2. DOMAIN todo = {}
  BY <1>0, JobTypes
<1>3. \A p \in Page, i \in 1 .. PageSize : flash[p].recs[i].n \in 0 .. issued /\ issued \in 0 .. MaxIssue
  <2>1. \A p \in Page, i \in Index : flash[p].recs[i].n \in 0 .. MaxIssue
    BY ComesWith, ImageParts
  <2> QED
    BY <2>1, ComesWith DEF Index
<1>4. kept \subseteq 1 .. MaxIssue /\ \A n \in kept : n <= issued
  BY <1>0, <1>3, Constants DEF Readable
<1>5. TypeOK
  <2>1. cache \in [trig : SUBSET Kind, age : 0 .. NoWindow]
    BY <1>0, Constants
  <2>2. mem \in Mem /\ Todo(todo)
    BY <1>0, ClearedIs, JobTypes
  <2> QED
    <3>1. flash \in [Page -> PageImage] /\ issued \in 0 .. MaxIssue
      BY ComesWith
    <3>2. forbid \in BOOLEAN /\ garbled \in BOOLEAN
      BY <1>0, Zenon
    <3>3. pend \subseteq Kind /\ owed \subseteq Kind /\ resets \in 0 .. MaxResets
          /\ back \in {"run", "sleep"} /\ pc \in {"off", "sleep", "boot", "run", "flush"}
      BY <1>0, Constants
    <3> QED
      BY <1>4, <2>1, <2>2, <3>1, <3>2, <3>3 DEF TypeOK, Mem, Todo
<1>6. Images
  BY <1>2, <1>4, ComesWith DEF Images
<1>7. RecordsKept
  BY <1>0 DEF RecordsKept
<1>8. ~Ready
  BY <1>0, ClearedIs DEF Ready
<1> QED
  BY <1>0, <1>2, <1>5, <1>6, <1>7, <1>8, ClearedIs
     DEF LogInv, Mended, Synced, Unread, Carried, Saving, Resting, Still

\* A step that leaves the log alone
LEMMA LogUntouched ==
    ASSUME LogInv, TypeOK', Resting', Still, Ready' => Ready, UNCHANGED <<flash, mem, todo, kept, issued>>
    PROVE  LogInv'
<1>1. DOMAIN todo = {} /\ DOMAIN todo' = {}
  BY DEF Still
<1>2. Images' /\ RecordsKept'
  BY <1>1 DEF LogInv, Images, RecordsKept
<1>3. Mended' /\ Synced' /\ Unread'
  BY <1>1 DEF LogInv, Mended, Synced, Unread, After
<1>4. Carried' /\ Saving'
  BY <1>1 DEF Carried, Saving
<1> QED
  BY <1>2, <1>3, <1>4 DEF LogInv

\* The steps of the window, which leave the log alone
LEMMA LogQuiet ==
    ASSUME LogInv,
           \/ Booted \/ WakeAsleep \/ Tick \/ window_done \/ key_clear
           \/ \E K \in Readings, eng \in BOOLEAN : periodic_check(K, eng)
    PROVE  LogInv'
<1> DEFINE Caches == [trig : SUBSET Kind, age : 0 .. NoWindow]
<1>0. TypeOK /\ Resting /\ cache \in Caches
  BY TypesAre DEF LogInv
<1> HIDE DEF Caches
<1>1. CASE Booted
  <2>1. TypeOK'
    BY <1>0, <1>1 DEF Booted, TypeOK, history
  <2> QED
    BY <1>0, <1>1, <2>1, LogUntouched DEF Booted, Resting, Ready, Still, history
<1>2. CASE WakeAsleep
  <2>1. TypeOK'
    BY <1>0, <1>2 DEF WakeAsleep, TypeOK, history
  <2>2. mem.magic = FALSE /\ pend = {} /\ Still
    BY <1>0, <1>2, ClearedIs DEF WakeAsleep, Resting
  <2> QED
    BY <1>0, <1>2, <2>1, <2>2, LogUntouched DEF WakeAsleep, Resting, Ready, Still, history
<1>3. CASE Tick
  <2>1. cache' \in Caches
    BY <1>0, <1>3, Constants DEF Tick, Caches
  <2>2. TypeOK'
    BY <1>0, <1>3, <2>1 DEF Tick, TypeOK, history, Caches
  <2> QED
    BY <1>0, <1>3, <2>2, LogUntouched DEF Tick, Resting, Ready, Still, history
<1>4. CASE window_done
  <2>1. cache' \in Caches
    BY <1>0, <1>4, CacheTypes DEF window_done, Caches
  <2>2. TypeOK'
    BY <1>0, <1>4, <2>1 DEF window_done, TypeOK, history, Caches
  <2> QED
    BY <1>0, <1>4, <2>2, LogUntouched DEF window_done, Resting, Ready, Still, history, TypeOK
<1>5. CASE key_clear
  <2>1. TypeOK'
    BY <1>0, <1>5 DEF key_clear, TypeOK, history
  <2> QED
    BY <1>0, <1>5, <2>1, LogUntouched DEF key_clear, Resting, Ready, Still, history
<1>6. ASSUME NEW K \in Readings, NEW eng \in BOOLEAN, periodic_check(K, eng)
      PROVE  LogInv'
  <2> DEFINE c == Seen(Opened(cache), K)
             flush == (eng /\ c.trig # {}) \/ c.age = Window
  <2>1. /\ pc = "run" /\ Still /\ cache' = c /\ owed' = owed \cup K
        /\ pend' = (IF flush THEN c.trig ELSE {}) /\ pc' = (IF flush THEN "flush" ELSE "run")
        /\ back' = "run" /\ UNCHANGED <<flash, mem, todo, forbid, issued, resets, kept, garbled>>
    BY <1>6 DEF periodic_check
  <2>2. K \in SUBSET Kind
    BY DEF Readings
  <2>3. c \in Caches
    BY <1>0, <2>2, CacheTypes DEF Caches
  <2> HIDE DEF c, flush
  <2>4. c.trig \subseteq Kind
    BY <2>3 DEF Caches
  <2>5. TypeOK'
    BY <1>0, <2>1, <2>2, <2>3, <2>4 DEF TypeOK, Caches
  <2> QED
    BY <1>0, <2>1, <2>5, LogUntouched DEF Resting, Ready, Still
<1> QED
  BY <1>1, <1>2, <1>3, <1>4, <1>5, <1>6

\* The log as a load leaves it
Fixed(f) == [p \in Page |-> Repaired(f[p])]

LEMMA LoadedLog ==
    ASSUME LogInv, NEW m \in Mem, m.wptr = 0 \/ Valid(Fixed(flash)[m.active])
    PROVE  LET t == RepairJobs(flash)
               f == Fixed(flash)
               l == Loaded(m, f)
           IN  /\ f \in [Page -> PageImage] /\ l \in Mem /\ l.nextId = m.nextId
               /\ \A p \in Page : f[p] = IF p \in DOMAIN t THEN t[p] ELSE flash[p]
               /\ \A i \in Index : i > l.wptr => f[l.active].recs[i].n \notin kept
               /\ l.wptr <= Written(f[l.active])
               /\ l.magic \/ l.wptr = 0 \/ Valid(f[l.active])
               /\ \A p \in DOMAIN t : \A i \in Index : flash[p].recs[i].n = 0
<1> DEFINE t == RepairJobs(flash)
           f == Fixed(flash)
           l == Loaded(m, f)
<1>1. TypeOK /\ Images /\ RecordsKept /\ 0 \notin kept /\ flash \in [Page -> PageImage]
  BY KeptIs DEF LogInv, TypeOK
<1>2. /\ f \in [Page -> PageImage]
      /\ \A p \in Page : Valid(flash[p]) => f[p] = flash[p]
      /\ \A p \in Page : Broken(flash[p]) => f[p] = Empty
      /\ \A p \in Page : ~Broken(flash[p]) => f[p] = flash[p]
  BY <1>1, RepairedIs DEF Fixed
<1>3. DOMAIN t = {p \in Page : Broken(flash[p])} /\ \A p \in DOMAIN t : t[p] = Empty
  BY JobTypes
<1>4. \A p \in Page : f[p] = IF p \in DOMAIN t THEN t[p] ELSE flash[p]
  BY <1>2, <1>3
<1>5. /\ l \in Mem /\ l.nextId = m.nextId
      /\ \/ l = m /\ \A p \in Page : ~Valid(f[p])
         \/ Valid(f[l.active]) /\ l.magic = TRUE /\ l.wptr = f[l.active].count
  BY <1>2, LoadedIs
<1>6. \A p \in Page : Filled(f[p])
  BY <1>1, <1>2, BlankPages DEF Images
<1>7. \A p \in Page, i \in Index : f[p].recs[i].n \in Nat /\ f[p].count \in Nat
  BY <1>2, ImageParts, Constants
<1>8. l.active \in Page /\ l.wptr \in Nat
  BY <1>5, Constants DEF Mem
<1>9. \A p \in DOMAIN t : \A i \in Index : flash[p].recs[i].n = 0
  <2> SUFFICES ASSUME NEW p \in Page, Broken(flash[p]) PROVE \A i \in Index : flash[p].recs[i].n = 0
    BY <1>3
  <2>1. flash[p].count \in Nat /\ ~(flash[p].count <= PageSize) /\ Filled(flash[p])
    BY <1>1, ImageParts, Constants DEF Broken, Images
  <2> QED
    BY <2>1 DEF Filled
<1> HIDE DEF t, f, l
<1>10. CASE l = m /\ \A p \in Page : ~Valid(f[p])
  <2>1. \A p \in Page : ~Valid(flash[p])
    BY <1>2, <1>10
  <2>2. kept = {}
    BY <1>1, <2>1 DEF RecordsKept, Readable
  <2>3. l.wptr = 0
    <3>1. m.active \in Page
      BY DEF Mem
    <3> QED
      BY <1>10, <3>1 DEF f
  <2>4. 0 <= Written(f[l.active])
    BY <1>7, <1>8, Constants DEF Written, Index
  <2> QED
    BY <1>2, <1>4, <1>5, <1>9, <2>2, <2>3, <2>4 DEF t, f, l
<1>11. CASE Valid(f[l.active]) /\ l.magic = TRUE /\ l.wptr = f[l.active].count
  <2>1. Written(f[l.active]) = l.wptr
    BY <1>11 DEF Written, Valid
  <2>2. \A i \in Index : i > l.wptr => f[l.active].recs[i].n = 0
    BY <1>6, <1>7, <1>8, <1>11 DEF Filled, Index
  <2> QED
    BY <1>1, <1>2, <1>4, <1>5, <1>8, <1>9, <1>11, <2>1, <2>2 DEF t, f, l
<1> QED
  BY <1>5, <1>10, <1>11

\* A step that sets out to write blank images over pages with nothing to keep
LEMMA LogBlanked ==
    ASSUME LogInv, TypeOK', Resting', UNCHANGED <<flash, issued>>, kept' \subseteq kept,
           \A p \in DOMAIN todo' :
               /\ Filled(todo'[p]) /\ Valid(todo'[p])
               /\ \A i \in Index : todo'[p].recs[i].n = 0 /\ flash[p].recs[i].n \notin kept',
           Mended', Synced', Unread'
    PROVE  LogInv'
<1>1. 0 \notin kept' /\ issued \in Nat
  BY KeptIs, Constants DEF LogInv, TypeOK
<1>2. \A p \in DOMAIN todo' : \A i \in Index : 0 <= issued
  BY <1>1, Constants
<1>3. Images'
  BY <1>2 DEF LogInv, Images
<1>4. Carried'
  BY <1>1 DEF Carried
<1>5. Saving'
  BY DEF Saving, Saves, OnPage, Index
<1>6. RecordsKept'
  BY DEF LogInv, RecordsKept
<1> QED
  BY <1>3, <1>4, <1>5, <1>6 DEF LogInv

LEMMA LogBoots ==
    ASSUME LogInv, battery_record_init
    PROVE  LogInv'
<1> DEFINE fixed == Fixed(flash)
           hasNew == \E p \in Page : flash[p].magic = "V7"
           fresh == [Cleared EXCEPT !.magic = TRUE, !.nextId = 1]
<1>0. /\ TypeOK /\ Images /\ Resting /\ 0 \notin kept /\ flash \in [Page -> PageImage]
  BY KeptIs DEF LogInv, TypeOK
<1>1. /\ pc \in {"off", "sleep"} /\ Still /\ pc' = "boot" /\ cache' = KeepsWindow(cache)
      /\ UNCHANGED <<flash, pend, back, forbid, issued, resets, kept, owed>>
      /\ \/ /\ hasNew
            /\ mem' = [Loaded(Cleared, fixed) EXCEPT !.nextId = RestoredId(fixed)]
            /\ todo' = RepairJobs(flash)
            /\ garbled' = (garbled \/ Garbles(fixed))
         \/ /\ ~hasNew /\ flash[0].magic = "V5"
            /\ mem' = [fresh EXCEPT !.wptr = Least(flash[0].count, PageSize)]
            /\ todo' = [AllEmpty EXCEPT ![0] = Migrated(flash[0])]
            /\ UNCHANGED garbled
         \/ /\ ~hasNew /\ flash[0].magic # "V5"
            /\ mem' = fresh
            /\ todo' = AllEmpty
            /\ UNCHANGED garbled
  BY DEF battery_record_init, Fixed
<1>2. pend = {} /\ Resting'
  BY <1>0, <1>1 DEF Resting
<1>3. fresh \in Mem /\ fresh.active = 0 /\ fresh.wptr = 0 /\ fresh.magic = TRUE
  BY FreshIs
<1>4. ASSUME mem' \in Mem, Todo(todo'), garbled' \in BOOLEAN PROVE TypeOK'
  <2>1. cache' \in [trig : SUBSET Kind, age : 0 .. NoWindow]
    BY <1>0, <1>1, CacheTypes DEF TypeOK
  <2> QED
    BY <1>0, <1>1, <1>4, <2>1, TypesAre, TypesAfter
<1>5. \A p \in Page : flash[p].magic # "V7" => \A i \in Index : flash[p].recs[i].n = 0
  BY <1>0 DEF Images, Filled
<1> HIDE DEF fixed, fresh
<1>6. CASE /\ hasNew
           /\ mem' = [Loaded(Cleared, fixed) EXCEPT !.nextId = RestoredId(fixed)]
           /\ todo' = RepairJobs(flash)
           /\ garbled' = (garbled \/ Garbles(fixed))
  <2> DEFINE l == Loaded(Cleared, fixed)
  <2>1. /\ fixed \in [Page -> PageImage] /\ l \in Mem
        /\ \A p \in Page : fixed[p] = IF p \in DOMAIN todo' THEN todo'[p] ELSE flash[p]
        /\ \A i \in Index : i > l.wptr => fixed[l.active].recs[i].n \notin kept
        /\ l.wptr <= Written(fixed[l.active])
        /\ l.magic \/ l.wptr = 0 \/ Valid(fixed[l.active])
        /\ \A p \in DOMAIN todo' : \A i \in Index : flash[p].recs[i].n = 0
    BY <1>6, LoadedLog, ClearedIs DEF fixed
  <2> HIDE DEF l
  <2>2. mem' = [l EXCEPT !.nextId = RestoredId(fixed)] /\ RestoredId(fixed) \in 0 .. IdMod - 1
    BY <1>6, <2>1, RestoredIdIs DEF l
  <2>3. mem' \in Mem /\ mem'.active = l.active /\ mem'.wptr = l.wptr /\ mem'.magic = l.magic
    BY <2>1, <2>2 DEF Mem
  <2>4. Todo(todo') /\ garbled' \in BOOLEAN
    <3>1. garbled \in BOOLEAN
      BY <1>0 DEF TypeOK
    <3>2. (garbled \/ Garbles(fixed)) \in BOOLEAN
      BY Zenon DEF Garbles
    <3> QED
      BY <1>6, <3>2, JobTypes
  <2>5. TypeOK'
    BY <1>4, <2>3, <2>4
  <2>6. l.active \in Page
    BY <2>1 DEF Mem
  <2>7. Synced' /\ Unread'
    BY <1>1, <2>1, <2>3, <2>6 DEF Synced, Unread, After
  <2>8. DOMAIN todo' = {p \in Page : Broken(flash[p])} /\ \A p \in DOMAIN todo' : todo'[p] = Empty
    BY <1>6, JobTypes
  <2>9. Mended'
    BY <1>1, <2>8 DEF Mended
  <2> QED
    BY <1>0, <1>1, <1>2, <2>1, <2>5, <2>7, <2>8, <2>9, LogBlanked, BlankPages DEF Old
<1>7. CASE /\ ~hasNew /\ flash[0].magic = "V5"
           /\ mem' = [fresh EXCEPT !.wptr = Least(flash[0].count, PageSize)]
           /\ todo' = [AllEmpty EXCEPT ![0] = Migrated(flash[0])]
           /\ UNCHANGED garbled
  <2> DEFINE img == Migrated(flash[0])
  <2>1. /\ img \in PageImage /\ Filled(img) /\ Valid(img) /\ img.count \in 0 .. PageSize
        /\ \A i \in Index : img.recs[i].n = 0
        /\ img.magic = "V7" /\ img.count = Least(flash[0].count, PageSize)
    <3>1. flash[0] \in PageImage
      BY <1>0, Constants
    <3>2. img.count = Least(flash[0].count, PageSize)
      BY DEF Migrated, Empty
    <3> QED
      BY <3>1, <3>2, MigratedIs DEF Old
  <2> HIDE DEF img
  <2>2. /\ DOMAIN todo' = Page /\ todo'[0] = img /\ \A p \in Page : p # 0 => todo'[p] = Empty
        /\ Todo(todo')
    <3>1. todo' = [AllEmpty EXCEPT ![0] = img]
      BY <1>7 DEF img
    <3> QED
      BY <2>1, <3>1, JobTypes, BlankPages, Constants DEF Todo
  <2>3. mem' \in Mem /\ mem'.active = 0 /\ mem'.wptr = img.count /\ mem'.magic = TRUE
    BY <1>3, <1>7, <2>1 DEF Mem
  <2>4. TypeOK'
    BY <1>0, <1>4, <1>7, <2>2, <2>3 DEF TypeOK
  <2>5. \A p \in DOMAIN todo' : /\ Filled(todo'[p]) /\ Valid(todo'[p])
                                /\ \A i \in Index : todo'[p].recs[i].n = 0
    BY <2>1, <2>2, BlankPages DEF Old
  <2>6. Mended' /\ Synced' /\ Unread'
    BY <1>0, <1>1, <2>1, <2>2, <2>3, Constants DEF Mended, Synced, Unread, After, Written
  <2> QED
    BY <1>0, <1>1, <1>2, <1>5, <1>7, <2>2, <2>4, <2>5, <2>6, LogBlanked
<1>8. CASE /\ ~hasNew /\ flash[0].magic # "V5"
           /\ mem' = fresh
           /\ todo' = AllEmpty
           /\ UNCHANGED garbled
  <2>1. DOMAIN todo' = Page /\ Todo(todo') /\ \A p \in Page : todo'[p] = Empty
    BY <1>8, JobTypes
  <2>2. TypeOK'
    BY <1>0, <1>3, <1>4, <1>8, <2>1 DEF TypeOK
  <2>3. Mended' /\ Synced' /\ Unread'
    BY <1>0, <1>1, <1>3, <1>8, <2>1, BlankPages, Constants DEF Mended, Synced, Unread, After, Written, Old
  <2>4. \A p \in DOMAIN todo' : /\ Filled(todo'[p]) /\ Valid(todo'[p])
                                /\ \A i \in Index : todo'[p].recs[i].n = 0
    BY <2>1, BlankPages DEF Old
  <2> QED
    BY <1>0, <1>1, <1>2, <1>5, <1>8, <2>1, <2>2, <2>3, <2>4, LogBlanked
<1> QED
  BY <1>1, <1>6, <1>7, <1>8

LEMMA LogWakes ==
    ASSUME LogInv, NEW K \in Readings, sleep_check(K)
    PROVE  LogInv'
<1> DEFINE c == Seen(Opened(cache), K)
           fixed == Fixed(flash)
           load == c.age = Window /\ c.trig # {} /\ ~mem.magic
           scan == c.age = Window /\ c.trig # {} /\ mem.nextId = 0
           seen == IF load THEN fixed ELSE flash
           m == IF load THEN Loaded(mem, fixed) ELSE mem
<1>0. /\ TypeOK /\ Images /\ Resting /\ Unread /\ 0 \notin kept /\ flash \in [Page -> PageImage] /\ mem \in Mem
      /\ cache \in [trig : SUBSET Kind, age : 0 .. NoWindow] /\ K \in SUBSET Kind
  BY KeptIs, TypesAre DEF LogInv, Readings
<1>1. /\ pc = "sleep" /\ Still
      /\ cache' = c /\ owed' = owed \cup K
      /\ mem' = IF scan THEN [m EXCEPT !.nextId = RestoredId(seen)] ELSE m
      /\ garbled' = (garbled \/ (scan /\ Garbles(seen)))
      /\ todo' = IF load THEN RepairJobs(flash) ELSE NoJobs
      /\ pend' = IF c.age = Window THEN c.trig ELSE {}
      /\ pc' = IF c.age = Window THEN "flush" ELSE "sleep"
      /\ back' = "sleep"
      /\ UNCHANGED <<flash, forbid, issued, resets, kept>>
  BY DEF sleep_check, Fixed
<1>2. c \in [trig : SUBSET Kind, age : 0 .. NoWindow]
  BY <1>0, CacheTypes
<1>3. garbled' \in BOOLEAN
  BY <1>1, Zenon
<1> HIDE DEF c, fixed
<1>4. c.trig \subseteq Kind
  BY <1>2
<1>5. ASSUME mem' \in Mem, Todo(todo') PROVE TypeOK'
  <2>1. /\ flash' \in [Page -> PageImage] /\ pc' \in {"off", "sleep", "boot", "run", "flush"}
        /\ back' \in {"run", "sleep"} /\ pend' \subseteq Kind /\ forbid' \in BOOLEAN
        /\ issued' \in 0 .. MaxIssue /\ resets' \in 0 .. MaxResets /\ kept' \subseteq 1 .. MaxIssue
        /\ owed' \subseteq Kind /\ cache' \in [trig : SUBSET Kind, age : 0 .. NoWindow]
    <3> HIDE DEF load, scan, seen, m
    <3> QED
      BY <1>0, <1>1, <1>2, <1>4 DEF TypeOK
  <2> QED
    BY <1>3, <1>5, <2>1, TypesAfter
<1>6. CASE load
  <2> DEFINE l == Loaded(mem, fixed)
  <2>1. mem.wptr = 0 \/ Valid(fixed[mem.active])
    <3>1. mem.wptr = 0 \/ Valid(flash[mem.active])
      BY <1>0, <1>1, <1>6 DEF Unread, After, Still
    <3>2. mem.active \in Page
      BY <1>0 DEF Mem
    <3> QED
      BY <1>0, <3>1, <3>2, RepairedIs DEF fixed, Fixed
  <2>2. /\ fixed \in [Page -> PageImage] /\ l \in Mem
        /\ \A p \in Page : fixed[p] = IF p \in DOMAIN todo' THEN todo'[p] ELSE flash[p]
        /\ \A i \in Index : i > l.wptr => fixed[l.active].recs[i].n \notin kept
        /\ l.wptr <= Written(fixed[l.active])
        /\ l.magic \/ l.wptr = 0 \/ Valid(fixed[l.active])
        /\ \A p \in DOMAIN todo' : \A i \in Index : flash[p].recs[i].n = 0
    BY <1>0, <1>1, <1>6, <2>1, LoadedLog DEF fixed
  <2>3. m = l /\ seen = fixed
    BY <1>6
  <2> HIDE DEF l, m, seen
  <2>4. mem' = (IF scan THEN [l EXCEPT !.nextId = RestoredId(fixed)] ELSE l) /\ RestoredId(fixed) \in 0 .. IdMod - 1
    BY <1>1, <2>2, <2>3, RestoredIdIs
  <2>5. mem' \in Mem /\ mem'.active = l.active /\ mem'.wptr = l.wptr /\ mem'.magic = l.magic
    <3> HIDE DEF scan
    <3> QED
      BY <2>2, <2>4 DEF Mem
  <2>6. /\ DOMAIN todo' = {p \in Page : Broken(flash[p])} /\ \A p \in DOMAIN todo' : todo'[p] = Empty
        /\ Todo(todo')
    BY <1>1, <1>6, JobTypes
  <2>7. TypeOK' /\ l.active \in Page
    BY <1>5, <2>2, <2>5, <2>6 DEF Mem
  <2>8. Synced' /\ Unread' /\ Mended'
    BY <1>1, <2>2, <2>5, <2>6, <2>7 DEF Synced, Unread, Mended, After
  <2>9. pc' = "flush" /\ Resting'
    BY <1>1, <1>6 DEF Resting
  <2>10. \A p \in DOMAIN todo' : /\ Filled(todo'[p]) /\ Valid(todo'[p])
                                 /\ \A i \in Index : todo'[p].recs[i].n = 0 /\ flash[p].recs[i].n \notin kept
    BY <1>0, <2>2, <2>6, BlankPages DEF Old
  <2> HIDE DEF load
  <2> QED
    BY <1>1, <2>7, <2>8, <2>9, <2>10, LogBlanked
<1>7. CASE ~load
  <2>1. m = mem /\ seen = flash /\ todo' = NoJobs
    BY <1>1, <1>7
  <2>2. /\ mem' \in Mem /\ mem'.active = mem.active /\ mem'.wptr = mem.wptr /\ mem'.magic = mem.magic
    <3>1. RestoredId(flash) \in 0 .. IdMod - 1
      BY <1>0, RestoredIdIs
    <3> HIDE DEF scan, m, seen, load
    <3> QED
      BY <1>0, <1>1, <2>1, <3>1 DEF Mem
  <2>3. DOMAIN todo' = {} /\ Todo(todo') /\ DOMAIN todo = {}
    BY <1>1, <2>1, JobTypes DEF Still
  <2>4. TypeOK'
    BY <1>5, <2>2, <2>3
  <2>5. Ready' => Ready
    BY <1>1, <1>7, <2>2 DEF Ready
  <2>6. Resting'
    BY <1>1, <2>3 DEF Resting, Still
  <2> HIDE DEF load, scan, m, seen
  <2>7. Images' /\ RecordsKept' /\ Carried' /\ Saving'
    BY <1>0, <1>1, <2>3 DEF Images, RecordsKept, Carried, Saving, LogInv
  <2>8. Mended' /\ Synced' /\ Unread'
    BY <1>0, <1>1, <2>2, <2>3, <2>5 DEF Mended, Synced, Unread, After, LogInv
  <2> QED
    BY <2>4, <2>6, <2>7, <2>8 DEF LogInv
<1> QED
  BY <1>6, <1>7

LEMMA LogErased ==
    ASSUME LogInv, erase_all
    PROVE  LogInv'
<1> DEFINE fresh == [Cleared EXCEPT !.magic = TRUE, !.nextId = 1]
<1>1. /\ pc = "run" /\ Still /\ todo' = AllEmpty /\ mem' = fresh
      /\ cache' = [trig |-> {}, age |-> NoWindow] /\ kept' = {} /\ owed' = {} /\ pc' = "boot"
      /\ UNCHANGED <<flash, pend, back, forbid, issued, resets, garbled>>
  BY DEF erase_all
<1>2. fresh \in Mem /\ fresh.active = 0 /\ fresh.wptr = 0 /\ fresh.magic = TRUE
  BY FreshIs
<1> HIDE DEF fresh
<1>3. DOMAIN todo' = Page /\ Todo(todo') /\ \A p \in Page : todo'[p] = Empty
  BY <1>1, JobTypes
<1>4. TypeOK /\ Resting /\ pend = {}
  BY <1>1 DEF LogInv, Resting
<1>5. TypeOK'
  <2>1. cache' \in [trig : SUBSET Kind, age : 0 .. NoWindow]
    BY <1>1, Constants
  <2> QED
    BY <1>1, <1>2, <1>3, <1>4, <2>1, TypesAre, TypesAfter
<1>6. Mended' /\ Synced' /\ Unread' /\ Resting'
  BY <1>1, <1>2, <1>3, <1>4, BlankPages, Constants
     DEF Mended, Synced, Unread, After, Written, Old, Resting
<1>7. \A p \in DOMAIN todo' : /\ Filled(todo'[p]) /\ Valid(todo'[p])
                              /\ \A i \in Index : todo'[p].recs[i].n = 0
  BY <1>3, BlankPages DEF Old
<1> QED
  BY <1>1, <1>5, <1>6, <1>7, LogBlanked

LEMMA LogWrites ==
    ASSUME LogInv, write_exception_record
    PROVE  /\ LogInv'
           /\ Target(mem) \in Mem /\ Target(mem).nextId = mem.nextId
           /\ mem'.nextId = (mem.nextId + 1) % IdMod /\ Saves(todo[mem.active])'
           /\ LET a == mem'.active
              IN  /\ DOMAIN todo' = {a} /\ a \in Page
                  /\ mem'.wptr \in Index /\ todo'[a].recs[mem'.wptr] = [n |-> issued + 1, id |-> mem.nextId]
                  /\ \A i \in Index : i # mem'.wptr => todo'[a].recs[i] \in {flash[a].recs[i], Old}
                  /\ \A i \in Index : i <= todo'[a].count =>
                        i = mem'.wptr \/ (flash[a].magic = "V7" /\ flash[a].count <= PageSize /\ i <= flash[a].count)
<1> DEFINE m == Target(mem)
           a == m.active
           was == IF Recycles(mem) THEN Erased ELSE flash[a]
           r == [n |-> issued + 1, id |-> m.nextId]
           img == Image(was, m, r)
<1>0. /\ TypeOK /\ Images /\ Mended /\ Synced /\ Resting /\ RecordsKept /\ 0 \notin kept
      /\ flash \in [Page -> PageImage] /\ mem \in Mem /\ issued \in 0 .. MaxIssue
  BY KeptIs, TypesAre DEF LogInv
<1>1. /\ pc = "flush" /\ Still /\ pend # {} /\ issued < MaxIssue
      /\ todo' = [p \in {a} |-> img]
      /\ mem' = [m EXCEPT !.wptr = @ + 1, !.nextId = (@ + 1) % IdMod]
      /\ issued' = issued + 1
      /\ kept' = IF Recycles(mem) THEN kept \ OnPage(flash[a]) ELSE kept
      /\ UNCHANGED <<flash, cache, pc, pend, back, forbid, resets, owed, garbled>>
  BY DEF write_exception_record
<1>2. m \in Mem /\ m.wptr < PageSize /\ a \in Page /\ m.nextId = mem.nextId
      /\ (~Recycles(mem) => m = mem) /\ (Recycles(mem) => m.wptr = 0)
  <2>1. CASE Recycles(mem)
    <3>1. (mem.active + 1) % PageCount \in Page /\ (mem.seq + 1) % PageSeqMod \in 0 .. PageSeqMod - 1
      <4>1. \A x \in Nat, n \in Nat \ {0} : (x + 1) % n \in 0 .. n - 1
        OBVIOUS
      <4>2. mem.active \in Nat /\ mem.seq \in Nat
        BY <1>0, Constants DEF Mem, Page
      <4>3. (mem.active + 1) % PageCount \in 0 .. PageCount - 1 /\ (mem.seq + 1) % PageSeqMod \in 0 .. PageSeqMod - 1
        BY <4>1, <4>2, PageCountAssumption, PageSeqModAssumption
      <4> QED
        BY <4>3 DEF Page
    <3>2. m = [mem EXCEPT !.active = (@ + 1) % PageCount, !.seq = (@ + 1) % PageSeqMod, !.wptr = 0]
      BY <2>1 DEF Target, Recycles, Switched
    <3> HIDE DEF m
    <3>3. m \in Mem /\ m.active = (mem.active + 1) % PageCount /\ m.wptr = 0 /\ m.nextId = mem.nextId
      <4> DEFINE b == (mem.active + 1) % PageCount
                 q == (mem.seq + 1) % PageSeqMod
      <4>1. b \in Page /\ q \in 0 .. PageSeqMod - 1 /\ 0 \in 0 .. PageSize
        BY <3>1, Constants
      <4>2. m = [mem EXCEPT !.active = b, !.seq = q, !.wptr = 0]
        BY <3>2, <1>0 DEF Mem
      <4> HIDE DEF b, q
      <4>3. m \in Mem /\ m.active = b /\ m.wptr = 0 /\ m.nextId = mem.nextId
        BY <1>0, <4>1, <4>2 DEF Mem
      <4> QED
        BY <4>3 DEF b
    <3> QED
      BY <2>1, <3>1, <3>3, Constants
  <2>2. CASE ~Recycles(mem)
    BY <1>0, <2>2, Constants DEF Target, Recycles, Mem
  <2> QED
    BY <2>1, <2>2
<1> HIDE DEF m
<1>3. DOMAIN todo = {} /\ Ready
  BY <1>1 DEF Still, Ready
<1>4. \A p \in Page : ~Broken(flash[p])
  BY <1>0, <1>3 DEF Mended
<1>5. was \in PageImage /\ Filled(was) /\ ~Broken(was) /\ (Recycles(mem) => was.magic # "V7")
  BY <1>0, <1>2, <1>4, BlankPages DEF Images, Broken
<1>6. r \in [n : 1 .. MaxIssue, id : 0 .. IdMod - 1]
  BY <1>0, <1>1, <1>2, Constants DEF Mem
<1>7. /\ img \in PageImage /\ Filled(img) /\ Valid(img)
      /\ m.wptr + 1 \in Index /\ img.recs[m.wptr + 1] = r
      /\ \A i \in Index : i # m.wptr + 1 => img.recs[i] = IF was.magic = "V7" THEN was.recs[i] ELSE Old
      /\ img.count = IF m.wptr >= Written(was) THEN m.wptr + 1 ELSE Written(was)
      /\ img.magic = "V7"
  BY <1>2, <1>5, <1>6, ImageIs
<1>8. r.n = issued + 1 /\ r.id = mem.nextId
  BY <1>2
<1> HIDE DEF r, img
<1>9. DOMAIN todo' = {a} /\ todo'[a] = img /\ Todo(todo')
  BY <1>1, <1>2, <1>7 DEF Todo
<1>10. /\ mem' \in Mem /\ mem'.active = a /\ mem'.wptr = m.wptr + 1
       /\ mem'.nextId = (mem.nextId + 1) % IdMod
  <2>1. (m.nextId + 1) % IdMod \in 0 .. IdMod - 1 /\ m.wptr + 1 \in 0 .. PageSize
    BY <1>2, Constants DEF Mem
  <2> QED
    BY <1>1, <1>2, <2>1 DEF Mem
<1>11. kept' \subseteq kept /\ kept' \subseteq 1 .. MaxIssue /\ 0 \notin kept'
  BY <1>0, <1>1 DEF TypeOK
<1>12. TypeOK'
  <2>1. issued' \in 0 .. MaxIssue
    BY <1>0, <1>1, Constants
  <2> QED
    BY <1>0, <1>1, <1>9, <1>10, <1>11, <2>1, TypesAre, TypesAfter
<1>13. \A p \in Page, i \in Index : flash[p].recs[i].n \in Nat /\ flash[p].recs[i].n < issued'
  BY <1>0, <1>1, ImageParts, Constants DEF Images
<1>14. \A i \in Index : i # m.wptr + 1 => img.recs[i] \in {flash[a].recs[i], Old}
  BY <1>5, <1>7
<1>15. \A i \in Index : i # m.wptr + 1 => img.recs[i].n < issued' /\ img.recs[i].n # issued'
  BY <1>0, <1>1, <1>2, <1>13, <1>14, Constants DEF Old
<1>16. issued' \in Nat /\ img.recs[m.wptr + 1].n = issued' /\ issued' # 0 /\ issued' \notin kept'
  BY <1>0, <1>1, <1>7, <1>8, <1>11, Constants DEF Images
<1>17. Images'
  <2>1. \A i \in Index : img.recs[i].n <= issued'
    BY <1>15, <1>16, <1>7, ImageParts, Constants
  <2>2. \A p \in Page : flash[p].magic = "V5" => flash[p].count <= issued'
    BY <1>0, <1>1, ImageParts, Constants DEF Images
  <2>3. \A n \in kept' : n <= issued'
    BY <1>0, <1>1, <1>11, Constants DEF Images
  <2>4. \A p \in Page, i \in Index : flash[p].recs[i].n <= issued'
    BY <1>13, <1>16
  <2> QED
    BY <1>0, <1>1, <1>7, <1>9, <2>1, <2>2, <2>3, <2>4 DEF Images
<1>18. Mended'
  BY <1>1, <1>4 DEF Mended
<1>19. \A i \in Index : flash[a].recs[i].n \in kept' =>
          i # m.wptr + 1 /\ img.recs[i] = flash[a].recs[i] /\ i <= m.wptr
  <2> SUFFICES ASSUME NEW i \in Index, flash[a].recs[i].n \in kept'
               PROVE  i # m.wptr + 1 /\ img.recs[i] = flash[a].recs[i] /\ i <= m.wptr
    OBVIOUS
  <2>1. ~Recycles(mem)
    BY <1>1, <1>11 DEF OnPage, Index
  <2>2. m = mem /\ was = flash[a]
    BY <1>2, <2>1
  <2>3. ~(i > m.wptr)
    BY <1>0, <1>3, <1>11, <2>2 DEF Synced, After
  <2>4. flash[a].magic = "V7"
    BY <1>0, <1>2, <1>11 DEF Images, Filled
  <2>5. m.wptr \in Nat /\ i \in Nat
    BY <1>2, Constants DEF Mem, Index
  <2> QED
    BY <1>7, <2>2, <2>3, <2>4, <2>5
<1>20. Carried'
  <2>1. \A i \in Index : img.recs[i].n \in kept' => img.recs[i] = flash[a].recs[i]
    BY <1>11, <1>14, <1>16 DEF Old
  <2>2. issued' \in OnPage(img)
    BY <1>7, <1>16 DEF OnPage, Index
  <2> QED
    BY <1>1, <1>9, <1>19, <2>1, <2>2 DEF Carried, Saves
<1>21. Saving'
  BY <1>1, <1>9, <1>10, <1>13, <1>15, <1>16 DEF Saving, Saves
<1>22. Resting' /\ RecordsKept'
  BY <1>0, <1>1, <1>11 DEF Resting, RecordsKept
<1>23. mem'.wptr <= Written(img) /\ \A i \in Index : i > mem'.wptr => img.recs[i].n \notin kept'
  <2>1. m.wptr \in Nat /\ Written(was) \in Nat
    BY <1>2, <1>5, ImageParts, Constants DEF Mem, Written
  <2>2. mem'.wptr <= Written(img)
    BY <1>7, <1>10, <2>1 DEF Written
  <2>3. \A i \in Index : i > mem'.wptr => i # m.wptr + 1 /\ ~(i <= m.wptr)
    BY <1>10, <2>1, Constants DEF Index
  <2> QED
    BY <1>11, <1>14, <1>19, <2>2, <2>3 DEF Old
<1>24. Synced' /\ Unread'
  BY <1>7, <1>9, <1>10, <1>23 DEF Synced, Unread, After
<1>25. \A i \in Index : i <= img.count =>
          i = m.wptr + 1 \/ (flash[a].magic = "V7" /\ flash[a].count <= PageSize /\ i <= flash[a].count)
  <2> SUFFICES ASSUME NEW i \in Index, i <= img.count, i # m.wptr + 1
               PROVE  flash[a].magic = "V7" /\ flash[a].count <= PageSize /\ i <= flash[a].count
    OBVIOUS
  <2>1. m.wptr \in Nat /\ Written(was) \in Nat /\ i \in Nat /\ i >= 1
    BY <1>2, <1>5, ImageParts, Constants DEF Mem, Written, Index
  <2>2. m.wptr <= Written(was)
    <3>1. CASE Recycles(mem)
      BY <1>2, <2>1, <3>1
    <3>2. CASE ~Recycles(mem)
      BY <1>0, <1>2, <1>3, <3>2 DEF Synced, After
    <3> QED
      BY <3>1, <3>2
  <2>3. i <= Written(was)
    BY <1>7, <2>1, <2>2
  <2>4. was.magic = "V7" /\ was = flash[a]
    BY <1>5, <2>1, <2>3 DEF Written
  <2>5. flash[a].count \in Nat /\ ~Broken(flash[a])
    BY <1>2, <1>4, <1>0, ImageParts, Constants
  <2> QED
    BY <2>1, <2>3, <2>4, <2>5, Constants DEF Written, Broken
<1>26. Saves(todo[mem.active])'
  BY <1>1, <1>7, <1>9, <1>10, <1>16 DEF Saves, OnPage, Index
<1>27. LogInv'
  BY <1>12, <1>17, <1>18, <1>20, <1>21, <1>22, <1>24 DEF LogInv
<1>28. m.wptr + 1 \in Index /\ img.recs[m.wptr + 1] = [n |-> issued + 1, id |-> mem.nextId]
  BY <1>2, <1>7 DEF r
<1>29. /\ DOMAIN todo' = {a} /\ a \in Page /\ a = mem'.active
       /\ mem'.wptr \in Index /\ todo'[a].recs[mem'.wptr] = [n |-> issued + 1, id |-> mem.nextId]
       /\ \A i \in Index : i # mem'.wptr => todo'[a].recs[i] \in {flash[a].recs[i], Old}
       /\ \A i \in Index : i <= todo'[a].count =>
             i = mem'.wptr \/ (flash[a].magic = "V7" /\ flash[a].count <= PageSize /\ i <= flash[a].count)
  BY <1>2, <1>9, <1>10, <1>14, <1>25, <1>28
<1> QED
  BY <1>2, <1>10, <1>26, <1>27, <1>29 DEF m

LEMMA LogPrograms ==
    ASSUME LogInv, NEW p \in Page, Program(p)
    PROVE  LogInv'
<1> DEFINE img == todo[p]
<1>0. /\ TypeOK /\ Images /\ Mended /\ Synced /\ Unread /\ Carried /\ Saving /\ Resting /\ RecordsKept
      /\ 0 \notin kept /\ flash \in [Page -> PageImage] /\ mem \in Mem /\ issued \in 0 .. MaxIssue
      /\ Todo(todo)
  BY KeptIs, TypesAre DEF LogInv
<1>1. /\ p \in DOMAIN todo /\ flash' = [flash EXCEPT ![p] = img]
      /\ todo' = [q \in DOMAIN todo \ {p} |-> todo[q]]
      /\ UNCHANGED <<mem, cache, pc, back, issued, resets, garbled>>
  BY DEF Program, Rewriting
<1>2. img \in PageImage /\ Filled(img) /\ Valid(img)
  BY <1>0, <1>1 DEF Todo, Images
<1>3. flash'[p] = img /\ (\A q \in Page : q # p => flash'[q] = flash[q]) /\ flash' \in [Page -> PageImage]
  BY <1>0, <1>1, <1>2
<1>4. DOMAIN todo' = DOMAIN todo \ {p} /\ (\A q \in DOMAIN todo' : todo'[q] = todo[q]) /\ Todo(todo')
  BY <1>0, <1>1 DEF Todo
<1>5. mem.active \in Page /\ After(mem.active)' = After(mem.active)
  BY <1>0, <1>1, <1>3, <1>4 DEF After, Mem
<1> HIDE DEF img
<1>6. \/ /\ Saves(img)
         /\ kept' = kept \cup {issued}
         /\ owed' = owed \ Foremost(pend) /\ pend' = pend \ Foremost(pend)
         /\ forbid' = (forbid \/ FlashTotal(flash') >= MaxTotal)
      \/ ~Saves(img) /\ UNCHANGED <<kept, owed, pend, forbid>>
  BY DEF Program, img
<1>7. /\ pend' \subseteq pend /\ owed' \subseteq owed /\ forbid' \in BOOLEAN
      /\ kept' \subseteq kept \cup {issued} /\ kept \subseteq kept' /\ (Saves(img) => pc = "flush")
  <2>1. forbid \in BOOLEAN
    BY <1>0 DEF TypeOK
  <2>2. (forbid \/ FlashTotal(flash') >= MaxTotal) \in BOOLEAN
    BY Zenon
  <2> QED
    BY <1>6, <2>1, <2>2 DEF Saves
<1>8. TypeOK'
  <2>1. kept' \subseteq 1 .. MaxIssue
    <3>1. CASE Saves(img)
      <4>1. issued # 0
        BY <3>1 DEF Saves, OnPage
      <4> QED
        BY <1>0, <1>7, <4>1, Constants DEF TypeOK
    <3>2. CASE ~Saves(img)
      BY <1>0, <1>6, <3>2 DEF TypeOK
    <3> QED
      BY <3>1, <3>2
  <2> QED
    BY <1>0, <1>1, <1>3, <1>4, <1>7, <2>1, TypesAre, TypesAfter
<1>9. Images'
  <2>1. /\ \A q \in Page : Filled(flash'[q])
        /\ \A q \in DOMAIN todo' : Filled(todo'[q]) /\ Valid(todo'[q])
    BY <1>0, <1>2, <1>3, <1>4 DEF Images
  <2>2. /\ \A q \in Page, i \in Index : flash'[q].recs[i].n <= issued
        /\ \A q \in DOMAIN todo', i \in Index : todo'[q].recs[i].n <= issued
    BY <1>0, <1>1, <1>3, <1>4 DEF Images, img
  <2>3. \A n \in kept' : n <= issued
    BY <1>0, <1>7, Constants DEF Images
  <2>4. \A q \in Page : flash'[q].magic = "V5" => flash'[q].count <= issued
    BY <1>0, <1>2, <1>3 DEF Images, Valid
  <2> QED
    BY <1>1, <2>1, <2>2, <2>3, <2>4 DEF Images
<1>10. Resting' /\ (pend' # {} => pend # {}) /\ (Saves(img) => pend # {} /\ DOMAIN todo = {p} /\ p = mem.active)
  <2>1. Saves(img) => pend # {} /\ DOMAIN todo = {p} /\ p = mem.active
    BY <1>0, <1>1 DEF Saving, img
  <2> QED
    BY <1>0, <1>1, <1>7, <2>1 DEF Resting, Still
<1>11. Ready' => Ready
  BY <1>1, <1>10 DEF Ready
<1>12. Mended'
  BY <1>0, <1>2, <1>3, <1>4, <1>11, ImageParts, Constants DEF Mended, Broken, Valid
<1>13. CASE Saves(img)
  <2>1. DOMAIN todo = {p} /\ p = mem.active /\ pend # {} /\ Ready /\ kept' = kept \cup {issued} /\ DOMAIN todo' = {}
    BY <1>4, <1>6, <1>10, <1>13 DEF Ready
  <2>2. \A i \in Index : img.recs[i].n = issued => i = mem.wptr
    BY <1>0, <1>1, <1>13 DEF Saving, img
  <2>3. After(mem.active) = img
    BY <2>1 DEF After, img
  <2>4. \A i \in Index : i > mem.wptr => img.recs[i].n \notin kept'
    <3>1. \A i \in Index : i > mem.wptr => i # mem.wptr
      BY <1>0, Constants DEF Mem, Index
    <3> QED
      BY <1>0, <2>1, <2>2, <2>3, <3>1 DEF Synced
  <2>5. Synced' /\ Unread'
    BY <1>0, <1>1, <1>5, <2>1, <2>3, <2>4 DEF Synced, Unread
  <2>6. Carried' /\ Saving'
    BY <2>1 DEF Carried, Saving
  <2>7. RecordsKept'
    <3> SUFFICES ASSUME NEW n \in kept' PROVE n \in Readable(flash')
      BY DEF RecordsKept
    <3>1. CASE n = issued
      <4>1. PICK i \in 1 .. PageSize : img.recs[i].n = issued /\ issued # 0
        BY <1>13 DEF Saves, OnPage
      <4> QED
        BY <1>2, <1>3, <3>1, <4>1 DEF Readable
    <3>2. CASE n # issued
      <4>1. n \in kept /\ n # 0
        BY <1>0, <2>1, <3>2
      <4>2. PICK q \in Page, i \in 1 .. PageSize : Valid(flash[q]) /\ flash[q].recs[i].n = n
        BY <1>0, <4>1 DEF RecordsKept, Readable
      <4>3. Valid(flash'[q]) /\ flash'[q].recs[i].n = n
        BY <1>0, <1>1, <1>2, <1>3, <4>1, <4>2 DEF Carried, Index, img
      <4> QED
        BY <4>1, <4>3 DEF Readable
    <3> QED
      BY <3>1, <3>2
  <2> QED
    BY <1>8, <1>9, <1>10, <1>12, <2>5, <2>6, <2>7 DEF LogInv
<1>14. CASE ~Saves(img)
  <2>1. kept' = kept /\ pend' = pend /\ UNCHANGED <<pc, mem, issued>>
    BY <1>1, <1>6, <1>14
  <2>2. \A i \in Index : flash[p].recs[i].n \notin kept
    BY <1>0, <1>1, <1>14 DEF Carried, img
  <2>3. Synced' /\ Unread'
    BY <1>0, <1>5, <1>11, <2>1 DEF Synced, Unread
  <2>4. \A q \in DOMAIN todo' : Saves(todo[q])' = Saves(todo[q])
    BY <1>4, <2>1 DEF Saves
  <2>5. Carried'
    BY <1>0, <1>3, <1>4, <2>1, <2>4 DEF Carried, Todo, Saves
  <2>6. Saving'
    <3>1. ASSUME NEW q \in DOMAIN todo' PROVE ~(pc' = "flush" /\ issued' \in OnPage(todo'[q]))
      <4>1. q \in DOMAIN todo /\ q # p /\ todo'[q] = todo[q]
        BY <1>4
      <4>2. Saves(todo[q]) => DOMAIN todo = {q}
        BY <1>0, <4>1 DEF Saving
      <4> QED
        BY <1>1, <2>1, <4>1, <4>2 DEF Saves
    <3> QED
      BY <3>1 DEF Saving, Saves
  <2>7. RecordsKept'
    <3> SUFFICES ASSUME NEW n \in kept PROVE n \in Readable(flash')
      BY <2>1 DEF RecordsKept
    <3>1. PICK q \in Page, i \in 1 .. PageSize : Valid(flash[q]) /\ flash[q].recs[i].n = n
      BY <1>0 DEF RecordsKept, Readable
    <3>2. q # p
      BY <2>2, <3>1 DEF Index
    <3> QED
      BY <1>0, <1>3, <3>1, <3>2 DEF Readable
  <2> QED
    BY <1>8, <1>9, <1>10, <1>12, <2>3, <2>5, <2>6, <2>7 DEF LogInv
<1> QED
  BY <1>13, <1>14

LEMMA LogInterrupted ==
    ASSUME LogInv, NEW warm \in BOOLEAN, Reset(warm)
    PROVE  LogInv'
<1>0. /\ TypeOK /\ Images /\ Carried /\ RecordsKept
      /\ 0 \notin kept /\ flash \in [Page -> PageImage] /\ issued \in 0 .. MaxIssue
      /\ Todo(todo)
  BY KeptIs, TypesAre DEF LogInv
<1>1. /\ Interrupted /\ resets < MaxResets /\ resets' = resets + 1
      /\ mem' = Cleared /\ todo' = NoJobs /\ pend' = {} /\ pc' = "off" /\ back' = "run"
      /\ UNCHANGED <<issued, garbled>>
  BY DEF Reset
<1>2. \/ UNCHANGED <<cache, forbid, owed>>
      \/ cache' = [trig |-> {}, age |-> NoWindow] /\ forbid' = FALSE /\ owed' = {}
  BY DEF Reset
<1>3. DOMAIN todo' = {} /\ Todo(todo')
  BY <1>1, JobTypes
<1> DEFINE Whole == /\ flash' \in [Page -> PageImage] /\ kept' \subseteq kept
                    /\ \A q \in Page : Filled(flash'[q])
                    /\ \A q \in Page, i \in Index : flash'[q].recs[i].n <= issued
                    /\ \A q \in Page : flash'[q].magic = "V5" => flash'[q].count <= issued
                    /\ kept' \subseteq Readable(flash')
<1>4. Whole
  <2>1. CASE Still /\ UNCHANGED <<flash, kept>>
    BY <1>0, <2>1 DEF Images, RecordsKept
  <2>2. ASSUME NEW p \in Page, Rewriting(p), NEW left \in Torn(flash[p], todo[p]),
               flash' = [flash EXCEPT ![p] = left],
               kept' = IF Saves(todo[p]) THEN kept \ (OnPage(flash[p]) \ Readable(flash')) ELSE kept
        PROVE  Whole
    <3>1. p \in DOMAIN todo
      BY <2>2 DEF Rewriting
    <3>2. /\ left \in PageImage /\ Filled(left)
          /\ \A i \in Index : left.recs[i] \in {flash[p].recs[i], todo[p].recs[i], Blank}
          /\ left.magic = "V5" => left = flash[p]
      <4>1. /\ flash[p] \in PageImage /\ Filled(flash[p])
            /\ todo[p] \in PageImage /\ Filled(todo[p]) /\ Valid(todo[p])
        BY <1>0, <3>1 DEF Images, Todo
      <4> QED
        BY ZenonT(40), <2>2, <4>1, TornIs
    <3>3. flash'[p] = left /\ (\A q \in Page : q # p => flash'[q] = flash[q]) /\ flash' \in [Page -> PageImage]
      BY <1>0, <2>2, <3>2
    <3>4. kept' \subseteq kept
      BY <2>2
    <3>5. \A q \in Page, i \in Index : flash'[q].recs[i].n <= issued
      <4>1. 0 <= issued
        BY <1>0, Constants
      <4> QED
        BY <1>0, <3>1, <3>2, <3>3, <4>1 DEF Images, Blank
    <3>6. \A q \in Page : Filled(flash'[q]) /\ (flash'[q].magic = "V5" => flash'[q].count <= issued)
      BY <1>0, <3>2, <3>3 DEF Images
    <3>7. ASSUME NEW n \in kept' PROVE n \in Readable(flash')
      <4>1. n \in kept /\ n # 0
        BY <1>0, <3>4
      <4>2. PICK q \in Page, i \in 1 .. PageSize : Valid(flash[q]) /\ flash[q].recs[i].n = n
        BY <1>0, <4>1 DEF RecordsKept, Readable
      <4>3. CASE q # p
        BY <1>0, <3>3, <4>1, <4>2, <4>3 DEF Readable
      <4>4. CASE q = p
        <5>1. n \in OnPage(flash[p])
          BY <4>1, <4>2, <4>4 DEF OnPage
        <5>2. Saves(todo[p])
          BY <1>0, <3>1, <4>1, <4>2, <4>4 DEF Carried, Index
        <5> QED
          BY <2>2, <5>1, <5>2
      <4> QED
        BY <4>3, <4>4
    <3> QED
      BY <3>3, <3>4, <3>5, <3>6, <3>7
  <2> QED
    BY <1>1, <2>1, <2>2 DEF Interrupted
<1>5. TypeOK'
  <2>1. resets' \in 0 .. MaxResets /\ kept' \subseteq 1 .. MaxIssue /\ garbled' \in BOOLEAN /\ issued' \in 0 .. MaxIssue
    BY <1>0, <1>1, <1>4, Constants DEF TypeOK
  <2>2. cache' \in [trig : SUBSET Kind, age : 0 .. NoWindow] /\ owed' \subseteq Kind
    BY <1>0, <1>2, Constants DEF TypeOK
  <2>3. forbid' \in BOOLEAN
    BY <1>0, <1>2, Zenon DEF TypeOK
  <2>4. pend' \subseteq Kind /\ pc' \in {"off", "sleep", "boot", "run", "flush"} /\ back' \in {"run", "sleep"}
        /\ mem' \in Mem
    BY <1>1, ClearedIs
  <2> QED
    BY <1>3, <1>4, <2>1, <2>2, <2>3, <2>4, TypesAfter
<1>6. Images' /\ RecordsKept'
  BY <1>0, <1>1, <1>3, <1>4 DEF Images, RecordsKept
<1>7. ~Ready'
  BY <1>1, ClearedIs DEF Ready
<1> QED
  BY <1>1, <1>3, <1>5, <1>6, <1>7, ClearedIs
     DEF LogInv, Mended, Synced, Unread, Carried, Saving, Resting, Still

LEMMA LogStep ==
    ASSUME LogInv, [Next]_vars
    PROVE  LogInv'
<1>1. CASE UNCHANGED vars
  <2>1. UNCHANGED <<flash, mem, cache, pc, todo, pend, back, forbid, issued, resets, kept, owed, garbled>>
    BY <1>1 DEF vars
  <2>2. TypeOK' /\ Images' /\ RecordsKept' /\ Resting'
    BY <2>1 DEF LogInv, TypeOK, Images, RecordsKept, Resting, Still
  <2>3. Mended' /\ Synced' /\ Unread'
    BY <2>1 DEF LogInv, Mended, Synced, Unread, Ready, After
  <2>4. Carried' /\ Saving'
    BY <2>1 DEF LogInv, Carried, Saving, Saves
  <2> QED
    BY <2>2, <2>3, <2>4 DEF LogInv
<1>2. CASE Next
  <2>1. \/ battery_record_init \/ write_exception_record \/ erase_all
        \/ \E K \in Readings : sleep_check(K)
        \/ \E p \in Page : Program(p)
        \/ \E warm \in BOOLEAN : Reset(warm)
        \/ Booted \/ WakeAsleep \/ Tick \/ window_done \/ key_clear
        \/ \E K \in Readings, eng \in BOOLEAN : periodic_check(K, eng)
    BY <1>2 DEF Next
  <2> QED
    BY <2>1, LogBoots, LogWrites, LogErased, LogWakes, LogPrograms, LogInterrupted, LogQuiet
<1> QED
  BY <1>1, <1>2

\* The log as it is written and restored keeps its shape: RAM that has been restored
\* points behind the records of its page, and a page is rewritten only with what it had.
THEOREM LogHolds == Spec => []LogInv
<1> QED
  BY LogStart, LogStep, PTL DEF Spec

\* Pages, RAM and cache keep their layout: the write pointer and the active page that
\* load_storage_from_flash and switch_active_page leave never point past the log.
THEOREM TypeCorrect == Spec => []TypeOK
<1>1. LogInv => TypeOK
  BY DEF LogInv
<1> QED
  BY <1>1, LogHolds, PTL

-----------------------------------------------------------------------------
(* The exceptions: what is owed is in the cache *)

LEMMA OwingStep ==
    ASSUME LogInv, Owing, [Next]_vars
    PROVE  Owing'
<1>0. /\ cache \in [trig : SUBSET Kind, age : 0 .. NoWindow] /\ pend \subseteq Kind /\ Resting /\ Saving
  BY DEF LogInv, TypeOK
<1>c. ASSUME NEW K
      PROVE  LET c == Seen(Opened(cache), K)
             IN  owed \cup K \subseteq c.trig /\ c.age # NoWindow
  BY <1>0, <1>c, Constants DEF Seen, Opened, Owing
<1>1. CASE UNCHANGED vars
  BY <1>1 DEF vars, Owing
<1>2. CASE battery_record_init
  <2>1. cache' = KeepsWindow(cache) /\ pc' = "boot" /\ owed' = owed
    BY <1>2 DEF battery_record_init
  <2> QED
    BY <1>0, <2>1 DEF KeepsWindow, Owing
<1>3. CASE Booted \/ WakeAsleep \/ key_clear
  BY <1>3 DEF Booted, WakeAsleep, key_clear, history, Owing
<1>4. CASE Tick
  BY <1>0, <1>4, Constants DEF Tick, history, Owing
<1>5. CASE \E K \in Readings, eng \in BOOLEAN : periodic_check(K, eng)
  <2>1. PICK K \in Readings, eng \in BOOLEAN : periodic_check(K, eng)
    BY <1>5
  <2> DEFINE c == Seen(Opened(cache), K)
  <2>2. owed \cup K \subseteq c.trig /\ c.age # NoWindow
    BY <1>c
  <2>3. cache' = c /\ owed' = owed \cup K /\ (pc' = "flush" => pend' = c.trig)
    BY <2>1 DEF periodic_check
  <2> QED
    BY <2>2, <2>3 DEF Owing
<1>6. CASE \E K \in Readings : sleep_check(K)
  <2>1. PICK K \in Readings : sleep_check(K)
    BY <1>6
  <2> DEFINE c == Seen(Opened(cache), K)
  <2>2. owed \cup K \subseteq c.trig /\ c.age # NoWindow
    BY <1>c
  <2>3. cache' = c /\ owed' = owed \cup K /\ (pc' = "flush" => pend' = c.trig)
    BY <2>1 DEF sleep_check
  <2> QED
    BY <2>2, <2>3 DEF Owing
<1>7. CASE write_exception_record
  BY <1>7 DEF write_exception_record, Owing
<1>8. CASE \E p \in Page : Program(p)
  <2>1. UNCHANGED <<cache, pc>> /\ \/ UNCHANGED <<owed, pend>>
                                   \/ owed' = owed \ Foremost(pend) /\ pend' = pend \ Foremost(pend)
    BY <1>8 DEF Program
  <2> QED
    BY <2>1 DEF Owing
<1>9. CASE window_done
  <2>1. owed = {}
    BY <1>9 DEF window_done, Owing
  <2> QED
    BY <1>9, <2>1 DEF window_done, history, Owing
<1>10. CASE erase_all
  BY <1>10 DEF erase_all, Owing
<1>11. CASE \E warm \in BOOLEAN : Reset(warm)
  <2>1. pc' = "off" /\ \/ UNCHANGED <<cache, owed>>
                       \/ owed' = {}
    BY <1>11 DEF Reset
  <2> QED
    BY <2>1 DEF Owing
<1> QED
  BY <1>1, <1>2, <1>3, <1>4, <1>5, <1>6, <1>7, <1>8, <1>9, <1>10, <1>11 DEF Next

-----------------------------------------------------------------------------
(* The count: the slots in use are no more than the records written *)

LEMMA UsedIs ==
    ASSUME NEW f
    PROVE  /\ Used(f) \subseteq Page \X Index
           /\ IsFiniteSet(Page \X Index) /\ IsFiniteSet(Used(f)) /\ Cardinality(Used(f)) \in Nat
           /\ Cardinality(Page \X Index) = MaxTotal
<1>1. IsFiniteSet(Page) /\ Cardinality(Page) = PageCount /\ IsFiniteSet(Index) /\ Cardinality(Index) = PageSize
  BY FS_Interval, Constants DEF Page, Index
<1>2. IsFiniteSet(Page \X Index) /\ Cardinality(Page \X Index) = PageCount * PageSize
  BY <1>1, FS_Product
<1>3. Used(f) \subseteq Page \X Index
  BY DEF Used
<1>4. IsFiniteSet(Used(f))
  BY <1>2, <1>3, FS_Subset
<1> QED
  BY <1>2, <1>3, <1>4, FS_CardinalityType DEF MaxTotal

LEMMA NoneUsed ==
    ASSUME NEW f, \A p \in Page : f[p].magic # "V7"
    PROVE  Cardinality(Used(f)) = 0
<1>1. Used(f) = {}
  BY DEF Used
<1> QED
  BY <1>1, FS_EmptySet

\* Fewer slots in use
LEMMA FewerUsed ==
    ASSUME NEW f, NEW g,
           \A p \in Page : \/ g[p].magic # "V7" \/ ~(g[p].count <= PageSize) \/ g[p].count = 0
                           \/ g[p].magic = f[p].magic /\ g[p].count = f[p].count
    PROVE  Cardinality(Used(g)) <= Cardinality(Used(f))
<1>1. Used(g) \subseteq Used(f)
  BY Constants DEF Used, Index
<1> QED
  BY <1>1, UsedIs, FS_Subset

\* The places of the first n records of page 0
LEMMA RowOfPlaces ==
    ASSUME NEW n \in Nat
    PROVE  IsFiniteSet({0} \X (1 .. n)) /\ Cardinality({0} \X (1 .. n)) = n
<1>1. IsFiniteSet(1 .. n) /\ Cardinality(1 .. n) = n
  <2>1. IsFiniteSet(1 .. n) /\ Cardinality(1 .. n) = IF 1 > n THEN 0 ELSE n - 1 + 1
    BY FS_Interval
  <2> QED
    BY <2>1
<1>2. IsFiniteSet({0}) /\ Cardinality({0}) = 1
  BY FS_Singleton, Zenon
<1>3. /\ IsFiniteSet({0} \X (1 .. n))
      /\ Cardinality({0} \X (1 .. n)) = Cardinality({0}) * Cardinality(1 .. n)
  BY <1>1, <1>2, FS_Product, Zenon
<1> QED
  BY <1>1, <1>2, <1>3

LEMMA CountedStart ==
    ASSUME Init
    PROVE  Counted
<1>1. todo = NoJobs /\ forbid = FALSE
  BY Zenon DEF Init
<1>2. Cardinality(Used(flash)) <= issued
  <2>1. CASE \A p \in Page : flash[p].magic # "V7"
    BY <2>1, NoneUsed, ComesWith, Constants
  <2>2. CASE issued = MaxTotal
    BY <2>2, UsedIs, FS_Subset
  <2> QED
    BY <2>1, <2>2, ComesWith
<1> QED
  BY <1>1, <1>2, JobTypes DEF Counted

LEMMA CountedStep ==
    ASSUME LogInv, Counted, [Next]_vars
    PROVE  Counted'
<1>0. /\ TypeOK /\ Images /\ Mended /\ Resting /\ Saving /\ flash \in [Page -> PageImage] /\ issued \in Nat
      /\ Todo(todo)
  BY TypesAre, Constants DEF LogInv
<1>1. ASSUME UNCHANGED <<flash, issued>>, forbid' => forbid,
             \A p \in DOMAIN todo' : todo'[p].count = 0 \/ (p \in DOMAIN todo /\ todo' = todo)
      PROVE  Counted'
  BY <1>1 DEF Counted
<1>2. CASE UNCHANGED vars \/ Booted \/ WakeAsleep \/ Tick \/ window_done \/ key_clear
           \/ \E K \in Readings, eng \in BOOLEAN : periodic_check(K, eng)
  <2>1. UNCHANGED <<flash, issued, todo>> /\ (forbid' => forbid)
    BY <1>2 DEF vars, Booted, WakeAsleep, Tick, window_done, key_clear, periodic_check, history
  <2> QED
    BY <1>1, <2>1
<1>3. CASE erase_all \/ \E K \in Readings : sleep_check(K)
  <2>1. /\ UNCHANGED <<flash, issued, forbid>>
        /\ todo' = AllEmpty \/ todo' = RepairJobs(flash) \/ todo' = NoJobs
    BY <1>3 DEF erase_all, sleep_check
  <2>2. \A p \in DOMAIN todo' : todo'[p] = Empty
    BY <2>1, JobTypes
  <2> QED
    BY <1>1, <2>1, <2>2, BlankPages
<1>4. CASE battery_record_init
  <2>1. UNCHANGED <<flash, issued, forbid>>
    BY <1>4 DEF battery_record_init
  <2>2. CASE todo' = AllEmpty \/ todo' = RepairJobs(flash)
    <3>1. \A p \in DOMAIN todo' : todo'[p] = Empty
      BY <2>2, JobTypes
    <3> QED
      BY <1>1, <2>1, <3>1, BlankPages
  <2>3. CASE /\ \A p \in Page : flash[p].magic # "V7"
             /\ flash[0].magic = "V5" /\ todo' = [AllEmpty EXCEPT ![0] = Migrated(flash[0])]
    <3> DEFINE img == Migrated(flash[0])
               f == [flash EXCEPT ![0] = img]
    <3>1. /\ img \in PageImage /\ img.count \in 0 .. PageSize /\ img.count <= flash[0].count
          /\ flash[0].count <= issued /\ 0 \in Page /\ flash[0].count \in Nat
      <4>1. flash[0] \in PageImage /\ 0 \in Page
        BY <1>0, Constants
      <4> QED
        BY <1>0, <2>3, <4>1, MigratedIs, ImageParts, Constants DEF Images
    <3> HIDE DEF img
    <3>2. DOMAIN todo' = Page /\ todo'[0] = img /\ \A p \in Page : p # 0 => todo'[p] = Empty
      BY <2>3, <3>1, JobTypes DEF img
    <3>3. f[0] = img /\ \A p \in Page : p # 0 => f[p].magic # "V7"
      BY <1>0, <2>3, <3>1
    <3> HIDE DEF f
    <3>4. Used(f) \subseteq {0} \X (1 .. img.count)
      BY <3>1, <3>3, Constants DEF Used, Index
    <3>5. /\ IsFiniteSet({0} \X (1 .. img.count))
          /\ Cardinality({0} \X (1 .. img.count)) = img.count
      BY <3>1, RowOfPlaces, Constants
    <3>6. Cardinality(Used(f)) <= img.count
      BY <3>4, <3>5, FS_Subset
    <3>7. Cardinality(Used(f)) <= issued
      BY <1>0, <3>1, <3>6, UsedIs, Constants
    <3>8. \A q \in Page \ {0} : 0 < q /\ todo'[q].count = 0
      BY <3>2, BlankPages, Constants DEF Page
    <3> QED
      BY <2>1, <3>2, <3>7, <3>8 DEF Counted, f
  <2> QED
    BY <1>4, <2>2, <2>3 DEF battery_record_init
<1>5. CASE write_exception_record
  <2> DEFINE a == mem'.active
             f == [flash EXCEPT ![a] = todo'[a]]
             s == <<a, mem'.wptr>>
  <2>1. UNCHANGED <<flash, forbid>> /\ issued' = issued + 1
    BY <1>5 DEF write_exception_record
  <2>2. /\ DOMAIN todo' = {a} /\ a \in Page
        /\ mem'.wptr \in Index
        /\ \A i \in Index : i <= todo'[a].count =>
              i = mem'.wptr \/ (flash[a].magic = "V7" /\ flash[a].count <= PageSize /\ i <= flash[a].count)
    BY <1>5, LogWrites
  <2> HIDE DEF a
  <2>3. f[a] = todo'[a] /\ \A p \in Page : p # a => f[p] = flash[p]
    BY <1>0, <2>2
  <2> HIDE DEF f
  <2>4. Used(f) \subseteq Used(flash) \cup {s}
    BY <2>2, <2>3 DEF Used
  <2>5. Cardinality(Used(flash) \cup {s}) <= Cardinality(Used(flash)) + 1 /\ IsFiniteSet(Used(flash) \cup {s})
    <3> HIDE DEF s
    <3>1. IsFiniteSet(Used(flash)) /\ Cardinality(Used(flash)) \in Nat
      BY UsedIs
    <3> QED
      BY <3>1, FS_AddElement
  <2>6. Cardinality(Used(f)) <= Cardinality(Used(flash) \cup {s})
    BY <2>4, <2>5, FS_Subset
  <2>7. Cardinality(Used(f)) <= issued' /\ Cardinality(Used(flash)) <= issued'
    <3>1. /\ Cardinality(Used(flash)) \in Nat /\ Cardinality(Used(f)) \in Nat
          /\ Cardinality(Used(flash) \cup {s}) \in Nat
      BY <2>5, UsedIs, FS_CardinalityType
    <3> QED
      BY <1>0, <2>1, <2>5, <2>6, <3>1 DEF Counted
  <2>8. forbid' => issued' >= MaxTotal
    <3>1. MaxTotal \in Nat
      <4>1. Cardinality(Page \X Index) \in Nat
        BY UsedIs, FS_CardinalityType
      <4> QED
        BY <4>1, UsedIs
    <3> QED
      BY <1>0, <2>1, <3>1 DEF Counted
  <2> QED
    BY <2>1, <2>2, <2>7, <2>8 DEF Counted, f
<1>6. CASE \E p \in Page : Program(p)
  <2>1. PICK p \in Page : Program(p)
    BY <1>6
  <2> DEFINE img == todo[p]
  <2>2. /\ p \in DOMAIN todo /\ (\A q \in DOMAIN todo : p <= q) /\ flash' = [flash EXCEPT ![p] = img]
        /\ todo' = [q \in DOMAIN todo \ {p} |-> todo[q]]
        /\ UNCHANGED <<mem, cache, pc, back, issued, resets, garbled>>
        /\ \/ Saves(img) /\ forbid' = (forbid \/ FlashTotal(flash') >= MaxTotal)
           \/ UNCHANGED forbid
    BY <2>1 DEF Program, Rewriting
  <2>3. flash'[p] = img /\ (\A q \in Page : q # p => flash'[q] = flash[q]) /\ flash' \in [Page -> PageImage]
    BY <1>0, <2>2 DEF Todo
  <2>4. Cardinality(Used(flash')) <= issued
    <3>1. CASE img.count = 0
      <4>1. Cardinality(Used(flash')) <= Cardinality(Used(flash))
        BY <2>3, <3>1, FewerUsed
      <4> QED
        BY <1>0, <4>1, UsedIs DEF Counted
    <3>2. CASE img.count # 0
      BY <2>2, <3>2 DEF Counted
    <3> QED
      BY <3>1, <3>2
  <2>5. \A q \in DOMAIN todo' : todo'[q].count = 0
    <3> SUFFICES ASSUME NEW q \in DOMAIN todo \ {p}, todo[q].count # 0 PROVE FALSE
      BY <2>2
    <3>1. q < p /\ p <= q
      BY <2>2 DEF Counted
    <3>2. q \in Nat /\ p \in Nat
      BY <1>0, Constants DEF Todo
    <3> QED
      BY <3>1, <3>2
  <2>6. forbid' => issued >= MaxTotal
    <3>1. CASE forbid
      BY <3>1 DEF Counted
    <3>2. CASE Saves(img) /\ FlashTotal(flash') >= MaxTotal
      <4>1. DOMAIN todo = {p} /\ Ready
        BY <1>0, <2>2, <3>2 DEF Saving, Ready
      <4>2. Valid(img)
        BY <1>0, <2>2 DEF Images
      <4>3. \A q \in Page : ~Broken(flash'[q])
        BY <1>0, <2>3, <4>1, <4>2, ImageParts, Constants DEF Mended, Broken, Valid
      <4>4. \A q \in Page : flash'[q].count \in Nat
        BY <2>3, ImageParts, Constants
      <4>5. {s \in Page \X (1 .. PageSize) : s[2] <= PageRecords(flash'[s[1]])} = Used(flash')
        <5>1. ASSUME NEW q \in Page, NEW i \in 1 .. PageSize
              PROVE  i <= PageRecords(flash'[q]) <=> /\ flash'[q].magic = "V7" /\ flash'[q].count <= PageSize
                                                     /\ i <= flash'[q].count
          BY <4>3, <4>4, Constants DEF PageRecords, Least, Broken
        <5> QED
          BY <5>1 DEF Used, Index
      <4>6. FlashTotal(flash') = Cardinality(Used(flash'))
        BY <4>5 DEF FlashTotal
      <4>7. MaxTotal \in Nat
        <5>1. Cardinality(Page \X Index) \in Nat
          BY UsedIs, FS_CardinalityType
        <5> QED
          BY <5>1, UsedIs
      <4> QED
        BY <1>0, <2>4, <3>2, <4>6, <4>7, UsedIs
    <3> QED
      BY <2>2, <3>1, <3>2
  <2> QED
    BY <2>2, <2>4, <2>5, <2>6 DEF Counted
<1>7. CASE \E warm \in BOOLEAN : Reset(warm)
  <2>1. /\ Interrupted /\ UNCHANGED issued /\ todo' = NoJobs /\ (forbid' => forbid)
    BY <1>7 DEF Reset
  <2>2. Cardinality(Used(flash')) <= issued
    <3>1. CASE UNCHANGED flash
      BY <3>1 DEF Counted
    <3>2. ASSUME NEW p \in Page, p \in DOMAIN todo, NEW left \in Torn(flash[p], todo[p]),
                 flash' = [flash EXCEPT ![p] = left]
          PROVE  Cardinality(Used(flash')) <= issued
      <4>1. /\ flash[p] \in PageImage /\ Filled(flash[p])
            /\ todo[p] \in PageImage /\ Filled(todo[p]) /\ Valid(todo[p])
        BY <1>0, <3>2 DEF Images, Todo
      <4>2. /\ left \in PageImage
            /\ \/ left = flash[p]
               \/ ~Valid([left EXCEPT !.sum = TRUE])
               \/ left.magic = "V7" /\ left.count = todo[p].count
        BY <3>2, <4>1, TornIs
      <4>3. flash'[p] = left /\ \A q \in Page : q # p => flash'[q] = flash[q]
        BY <1>0, <3>2
      <4>4. CASE \/ left = flash[p]
                 \/ ~Valid([left EXCEPT !.sum = TRUE])
                 \/ left.magic = "V7" /\ left.count = todo[p].count /\ todo[p].count = 0
        <5>1. ~Valid([left EXCEPT !.sum = TRUE]) => left.magic # "V7" \/ ~(left.count <= PageSize)
          BY <4>2 DEF Valid, PageImage
        <5>2. Cardinality(Used(flash')) <= Cardinality(Used(flash))
          BY <4>3, <4>4, <5>1, FewerUsed
        <5> QED
          BY <1>0, <5>2, UsedIs DEF Counted
      <4>5. CASE left.magic = "V7" /\ left.count = todo[p].count /\ todo[p].count # 0
        <5> DEFINE f == [flash EXCEPT ![p] = todo[p]]
        <5>1. f[p] = todo[p] /\ (\A q \in Page : q # p => f[q] = flash[q]) /\ todo[p].magic = "V7"
          BY <1>0, <4>1 DEF Valid
        <5>2. Cardinality(Used(f)) <= issued
          BY <3>2, <4>5 DEF Counted
        <5> HIDE DEF f
        <5>3. Cardinality(Used(flash')) <= Cardinality(Used(f))
          BY <4>3, <4>5, <5>1, FewerUsed
        <5> QED
          BY <1>0, <5>2, <5>3, UsedIs
      <4> QED
        BY <4>2, <4>4, <4>5
    <3> QED
      BY <2>1, <3>1, <3>2 DEF Interrupted, Rewriting
  <2> QED
    BY <2>1, <2>2, JobTypes DEF Counted
<1> QED
  BY <1>2, <1>3, <1>4, <1>5, <1>6, <1>7 DEF Next

\* An exception that was seen is neither lost before a record of it is saved, by a warm reset
\* in the middle of process_window_end, nor counted before it is: the permanent forbid comes
\* only when the log's slots have all been written.
THEOREM EventsCounted == Spec => []EventsCount
<1> DEFINE Inv == LogInv /\ Owing /\ Counted
<1>1. Init => Inv
  <2> SUFFICES ASSUME Init PROVE Inv
    OBVIOUS
  <2>1. owed = {} /\ pc = "off"
    BY Zenon DEF Init
  <2>2. Owing
    BY <2>1 DEF Owing
  <2> QED
    BY <2>2, LogStart, CountedStart
<1>2. Inv /\ [Next]_vars => Inv'
  BY LogStep, OwingStep, CountedStep
<1>3. Inv => EventsCount
  BY DEF Owing, Counted, EventsCount, EventsKept, ForbidEarned
<1> QED
  BY <1>1, <1>2, <1>3, PTL DEF Spec

-----------------------------------------------------------------------------
(* The ids grow with the records *)

LEMMA SaneRecs ==
    Sane(Old) /\ Sane(Blank) /\ \A i \in Index : Sane(Empty.recs[i])
  BY BlankPages DEF Sane, Old, Blank

\* What a scan restores, unless it meets an unwritten slot
LEMMA RestoredGrows ==
    ASSUME LogInv, NEW f \in [Page -> PageImage], ~Garbles(f),
           \A p \in Page, i \in Index : Sane(flash[p].recs[i]),
           \A p \in Page : f[p] = flash[p] \/ (f[p] = Empty /\ \A i \in Index : flash[p].recs[i].n = 0)
    PROVE  RestoredId(f) # 0 /\ RestoredId(f) <= issued + 1 /\ KeptBelow(RestoredId(f))
<1> DEFINE S == ScannedIds(f)
           top == MaxId(S)
<1>0. Images /\ 0 \notin kept /\ issued \in 0 .. MaxIssue
  BY KeptIs DEF LogInv, TypeOK
<1>1. \A p \in Page, i \in Index : /\ Sane(f[p].recs[i])
                                   /\ f[p].recs[i].n \in Nat /\ f[p].recs[i].id \in Nat
                                   /\ f[p].recs[i].n <= issued
  <2>1. \A p \in Page, i \in Index : f[p].recs[i].n \in Nat /\ f[p].recs[i].id \in Nat
    BY ImageParts, Constants
  <2>2. \A p \in Page, i \in Index : Sane(f[p].recs[i])
    BY SaneRecs
  <2>3. 0 <= issued
    BY <1>0, Constants
  <2>4. \A p \in Page, i \in Index : f[p].recs[i].n <= issued
    BY <1>0, <2>3, BlankPages DEF Images, Old
  <2> QED
    BY <2>1, <2>2, <2>4
<1>2. S \subseteq 0 .. issued
  <2> SUFFICES ASSUME NEW p \in Page, NEW i \in 1 .. PageRecords(f[p]), f[p].recs[i].id \in S
               PROVE  f[p].recs[i].id \in 0 .. issued
    BY DEF ScannedIds
  <2>1. i \in Index
    BY ImageParts, Constants DEF PageRecords, Least, Index
  <2>2. f[p].recs[i].id # IdMod - 1
    BY DEF Garbles
  <2> QED
    BY <1>0, <1>1, <2>1, <2>2, Constants DEF Sane
<1>3. top \in 0 .. issued /\ \A y \in S : y <= top
  <2>1. issued \in Nat
    BY <1>0, Constants
  <2>2. top \in S \cup {0} /\ \A y \in S : y <= top
    <3> HIDE DEF S
    <3> QED
      BY <1>2, <2>1, MaxIdIs
  <2> QED
    BY <1>2, <2>1, <2>2
<1> HIDE DEF top
<1>4. RestoredId(f) = top + 1
  <2>1. top + 1 \in 0 .. IdMod - 1 /\ top \in Nat
    BY <1>0, <1>3, Constants
  <2>2. (top + 1) % IdMod = top + 1
    BY <2>1, Constants
  <2> QED
    BY <2>1, <2>2 DEF RestoredId, top
<1>5. ASSUME NEW p \in Page, NEW i \in Index, flash[p].recs[i].n \in kept
      PROVE  flash[p].recs[i].id < top + 1
  <2>1. flash[p].recs[i].n # 0 /\ f[p] = flash[p]
    BY <1>0, <1>5
  <2>2. f[p].magic = "V7" /\ i <= f[p].count
    BY <1>0, <2>1 DEF Images, Filled
  <2>3. f[p].recs[i].id \in S
    BY <2>2, ScannedIdsAre
  <2> QED
    BY <1>0, <1>1, <1>3, <2>1, <2>3, Constants
<1> QED
  BY <1>0, <1>3, <1>4, <1>5, Constants DEF KeptBelow

\* What is kept after a step was kept before, as it was
LEMMA KeptAsWas ==
    ASSUME IdsGrow, garbled => garbled',
           \A p \in Page, i \in Index : flash'[p].recs[i].n \in kept' =>
               flash'[p].recs[i] = flash[p].recs[i] /\ flash[p].recs[i].n \in kept
    PROVE  IdsGrow' /\ \A id : KeptBelow(id) => KeptBelow(id)'
<1>1. \A id : KeptBelow(id) => KeptBelow(id)'
  BY DEF KeptBelow
<1>2. IdsGrow'
  BY DEF IdsGrow, Index
<1> QED
  BY <1>1, <1>2

LEMMA IdsStart ==
    ASSUME Init
    PROVE  Ids /\ IdsGrow
<1>0. mem = Cleared /\ todo = NoJobs /\ pc = "off" /\ pend = {}
  BY Zenon DEF Init
<1>1. mem.nextId = 0 /\ DOMAIN todo = {} /\ ~IdReady
  BY <1>0, ClearedIs, JobTypes DEF IdReady
<1>2. issued \in Nat /\ 0 \notin kept
  <2>1. LogInv
    BY LogStart
  <2> QED
    BY <2>1, KeptIs, Constants DEF LogInv, TypeOK
<1>3. \A p \in Page, i \in Index : /\ Sane(flash[p].recs[i])
                                   /\ flash[p].recs[i].n # 0 => flash[p].recs[i].id = flash[p].recs[i].n
                                   /\ flash[p].recs[i].n \in Nat
  <2>1. \A p \in Page, i \in Index : flash[p].recs[i].n \in Nat
    BY ComesWith, ImageParts, Constants
  <2> QED
    BY <2>1, ComesWith DEF Sane
<1>4. Ids
  BY <1>1, <1>2, <1>3 DEF Ids
<1>5. IdsGrow
  BY <1>2, <1>3 DEF IdsGrow, Index
<1> QED
  BY <1>4, <1>5

\* A step that leaves pages and records alone and writes no record
LEMMA IdsAlone ==
    ASSUME Ids, IdsGrow, UNCHANGED <<flash, issued>>, kept' \subseteq kept, garbled => garbled',
           \A p \in DOMAIN todo' : todo'[p] = Empty \/ \A i \in Index : todo'[p].recs[i] = Old,
           ~garbled' => /\ mem'.nextId <= issued + 1
                        /\ IdReady' => mem'.nextId # 0
                        /\ mem'.nextId # 0 => KeptBelow(mem'.nextId)
    PROVE  Ids' /\ IdsGrow'
<1>1. IdsGrow' /\ \A id : KeptBelow(id) => KeptBelow(id)'
  BY KeptAsWas
<1>2. \A p \in DOMAIN todo', i \in Index : todo'[p].recs[i] = Old
  BY BlankPages
<1>3. \A p \in DOMAIN todo' : OnPage(todo'[p]) = {}
  BY <1>2 DEF OnPage, Index, Old
<1>4. ASSUME ~garbled' PROVE mem'.nextId # 0 => KeptBelow(mem.nextId)'
  <2> DEFINE id == mem'.nextId
  <2>1. id # 0 => KeptBelow(id)
    BY <1>4
  <2> QED
    BY <2>1 DEF KeptBelow
<1>5. ASSUME ~garbled'
      PROVE  /\ \A p \in Page, i \in Index : Sane(flash'[p].recs[i])
             /\ \A p \in DOMAIN todo', i \in Index : Sane(todo'[p].recs[i])
  BY <1>2, <1>5, SaneRecs DEF Ids
<1> QED
  BY <1>1, <1>3, <1>4, <1>5 DEF Ids, Saves

LEMMA IdsStep ==
    ASSUME LogInv, Ids, IdsGrow, [Next]_vars
    PROVE  Ids' /\ IdsGrow'
<1>0. /\ TypeOK /\ Images /\ Saving /\ Carried /\ Resting /\ 0 \notin kept
      /\ flash \in [Page -> PageImage] /\ issued \in 0 .. MaxIssue /\ Todo(todo) /\ mem \in Mem
      /\ mem.nextId \in Nat /\ issued \in Nat
  <2>1. TypeOK /\ Images /\ Saving /\ Carried /\ Resting /\ 0 \notin kept
    BY KeptIs DEF LogInv
  <2> QED
    BY <2>1, TypesAre, Constants DEF Mem
<1>1. CASE UNCHANGED vars
  <2>1. UNCHANGED <<flash, mem, pc, todo, pend, back, issued, kept, garbled>>
    BY <1>1 DEF vars
  <2> QED
    BY <2>1 DEF Ids, IdsGrow, IdReady, KeptBelow, Saves
<1>2. CASE \/ Booted \/ WakeAsleep \/ Tick \/ window_done \/ key_clear
           \/ \E K \in Readings, eng \in BOOLEAN : periodic_check(K, eng)
  <2>1. UNCHANGED <<flash, issued, todo, mem, kept, garbled>> /\ DOMAIN todo = {}
    BY <1>0, <1>2 DEF Booted, WakeAsleep, Tick, window_done, key_clear, periodic_check, history, Resting, Still
  <2>2. IdReady' => IdReady
    <3>1. CASE Booted \/ Tick \/ key_clear \/ WakeAsleep
      BY <3>1 DEF Booted, WakeAsleep, Tick, key_clear, IdReady
    <3>2. CASE window_done
      BY <1>0, <3>2 DEF window_done, IdReady, TypeOK
    <3>3. CASE \E K \in Readings, eng \in BOOLEAN : periodic_check(K, eng)
      BY <3>3 DEF periodic_check, IdReady
    <3> QED
      BY <1>2, <3>1, <3>2, <3>3
  <2> QED
    BY <2>1, <2>2, IdsAlone DEF Ids
<1>3. CASE erase_all
  <2>1. /\ UNCHANGED <<flash, issued, garbled>> /\ kept' = {} /\ mem'.nextId = 1
        /\ \A p \in DOMAIN todo' : todo'[p] = Empty
    BY <1>3, FreshIs, JobTypes DEF erase_all
  <2>2. Ids'
    <3>1. \A p \in DOMAIN todo' : OnPage(todo'[p]) = {}
      BY <2>1, BlankPages DEF OnPage, Index, Old
    <3> QED
      BY <1>0, <2>1, <3>1, SaneRecs DEF Ids, KeptBelow, Saves
  <2> QED
    BY <2>1, <2>2 DEF IdsGrow
<1>4. CASE battery_record_init
  <2> DEFINE fixed == Fixed(flash)
             hasNew == \E p \in Page : flash[p].magic = "V7"
  <2>1. UNCHANGED <<flash, issued, kept>> /\ (garbled => garbled')
    <3>1. UNCHANGED <<flash, issued, kept>>
      BY <1>4 DEF battery_record_init
    <3>2. garbled' = garbled \/ garbled' = (garbled \/ Garbles([p \in Page |-> Repaired(flash[p])]))
      BY <1>4, Zenon DEF battery_record_init
    <3>3. garbled => garbled'
      BY <3>2
    <3> QED
      BY <3>1, <3>3
  <2>2. CASE /\ hasNew
             /\ mem' = [Loaded(Cleared, fixed) EXCEPT !.nextId = RestoredId(fixed)]
             /\ todo' = RepairJobs(flash)
             /\ garbled' = (garbled \/ Garbles(fixed))
    <3>1. /\ fixed \in [Page -> PageImage] /\ Loaded(Cleared, fixed) \in Mem
          /\ \A p \in Page : fixed[p] = IF p \in DOMAIN todo' THEN todo'[p] ELSE flash[p]
          /\ \A p \in DOMAIN todo' : \A i \in Index : flash[p].recs[i].n = 0
      BY <2>2, LoadedLog, ClearedIs
    <3>2. mem'.nextId = RestoredId(fixed)
      BY <2>2, <3>1 DEF Mem
    <3>3. \A p \in DOMAIN todo' : todo'[p] = Empty
      BY <2>2, JobTypes
    <3> HIDE DEF fixed
    <3>4. ASSUME ~garbled'
          PROVE  RestoredId(fixed) # 0 /\ RestoredId(fixed) <= issued + 1 /\ KeptBelow(RestoredId(fixed))
      <4>1. ~garbled /\ ~Garbles(fixed)
        BY <2>2, <3>4
      <4>2. \A p \in Page, i \in Index : Sane(flash[p].recs[i])
        BY <4>1 DEF Ids
      <4> QED
        BY <3>1, <3>3, <4>1, <4>2, RestoredGrows
    <3> QED
      BY <2>1, <3>2, <3>3, <3>4, IdsAlone
  <2>3. CASE /\ ~hasNew /\ mem'.nextId = 1
             /\ \A p \in DOMAIN todo', i \in Index : todo'[p].recs[i] = Old
    <3>1. KeptBelow(1)
      BY <1>0, <2>3 DEF KeptBelow, Images, Filled
    <3> QED
      BY <1>0, <2>1, <2>3, <3>1, IdsAlone
  <2>4. CASE /\ ~hasNew /\ flash[0].magic = "V5"
             /\ mem' = [[Cleared EXCEPT !.magic = TRUE, !.nextId = 1] EXCEPT !.wptr = Least(flash[0].count, PageSize)]
             /\ todo' = [AllEmpty EXCEPT ![0] = Migrated(flash[0])]
    <3> DEFINE fresh == [Cleared EXCEPT !.magic = TRUE, !.nextId = 1]
    <3>1. fresh \in Mem /\ fresh.nextId = 1
      BY FreshIs
    <3> HIDE DEF fresh
    <3>2. mem'.nextId = 1
      BY <2>4, <3>1 DEF Mem, fresh
    <3>3. \A p \in DOMAIN todo', i \in Index : todo'[p].recs[i] = Old
      <4>1. 0 \in Page /\ flash[0] \in PageImage
        BY <1>0, Constants
      <4>2. \A i \in Index : Migrated(flash[0]).recs[i] = Old
        BY <4>1, MigratedIs
      <4>3. \A p \in DOMAIN todo' : todo'[p] = Empty \/ todo'[p] = Migrated(flash[0])
        BY <2>4, JobTypes
      <4> QED
        BY <4>2, <4>3, BlankPages
    <3> QED
      BY <2>3, <2>4, <3>2, <3>3
  <2>5. CASE /\ ~hasNew /\ mem' = [Cleared EXCEPT !.magic = TRUE, !.nextId = 1] /\ todo' = AllEmpty
    <3>1. mem'.nextId = 1 /\ \A p \in DOMAIN todo', i \in Index : todo'[p].recs[i] = Old
      BY <2>5, FreshIs, JobTypes, BlankPages
    <3> QED
      BY <2>3, <2>5, <3>1
  <2>6. \/ /\ hasNew
           /\ mem' = [Loaded(Cleared, fixed) EXCEPT !.nextId = RestoredId(fixed)]
           /\ todo' = RepairJobs(flash)
           /\ garbled' = (garbled \/ Garbles(fixed))
        \/ /\ ~hasNew /\ flash[0].magic = "V5"
           /\ mem' = [[Cleared EXCEPT !.magic = TRUE, !.nextId = 1] EXCEPT !.wptr = Least(flash[0].count, PageSize)]
           /\ todo' = [AllEmpty EXCEPT ![0] = Migrated(flash[0])]
        \/ ~hasNew /\ mem' = [Cleared EXCEPT !.magic = TRUE, !.nextId = 1] /\ todo' = AllEmpty
    BY <1>4 DEF battery_record_init, Fixed
  <2> QED
    BY <2>2, <2>4, <2>5, <2>6
<1>5. CASE \E K \in Readings : sleep_check(K)
  <2>1. PICK K \in Readings : sleep_check(K)
    BY <1>5
  <2> DEFINE c == Seen(Opened(cache), K)
             fixed == Fixed(flash)
             load == c.age = Window /\ c.trig # {} /\ ~mem.magic
             scan == c.age = Window /\ c.trig # {} /\ mem.nextId = 0
             seen == IF load THEN fixed ELSE flash
             m == IF load THEN Loaded(mem, fixed) ELSE mem
  <2>2. /\ pc = "sleep"
        /\ mem' = IF scan THEN [m EXCEPT !.nextId = RestoredId(seen)] ELSE m
        /\ garbled' = (garbled \/ (scan /\ Garbles(seen)))
        /\ todo' = IF load THEN RepairJobs(flash) ELSE NoJobs
        /\ pend' = IF c.age = Window THEN c.trig ELSE {}
        /\ back' = "sleep"
        /\ pc' = IF c.age = Window THEN "flush" ELSE "sleep"
        /\ UNCHANGED <<flash, issued, kept>>
    BY <2>1 DEF sleep_check, Fixed
  <2> HIDE DEF c, fixed
  <2>3. /\ fixed \in [Page -> PageImage]
        /\ \A p \in Page : fixed[p] = flash[p] \/ (fixed[p] = Empty /\ \A i \in Index : flash[p].recs[i].n = 0)
    <3>1. \A p \in Page : Broken(flash[p]) => \A i \in Index : flash[p].recs[i].n = 0
      <4> SUFFICES ASSUME NEW p \in Page, Broken(flash[p]) PROVE \A i \in Index : flash[p].recs[i].n = 0
        OBVIOUS
      <4>1. flash[p].count \in Nat /\ ~(flash[p].count <= PageSize) /\ Filled(flash[p])
        BY <1>0, ImageParts, Constants DEF Broken, Images
      <4> QED
        BY <4>1 DEF Filled
    <3> QED
      BY <1>0, <3>1, RepairedIs DEF fixed, Fixed
  <2>4. m \in Mem /\ m.nextId = mem.nextId
    BY <1>0, <2>3, LoadedIs
  <2>5. \A p \in DOMAIN todo' : todo'[p] = Empty
    BY <2>2, JobTypes
  <2>6. seen \in [Page -> PageImage]
        /\ \A p \in Page : seen[p] = flash[p] \/ (seen[p] = Empty /\ \A i \in Index : flash[p].recs[i].n = 0)
    BY <1>0, <2>3
  <2> HIDE DEF load, seen, m
  <2>7. mem'.nextId = IF scan THEN RestoredId(seen) ELSE mem.nextId
    <3> HIDE DEF scan
    <3> QED
      BY <2>2, <2>4 DEF Mem
  <2>8. IdReady' => scan \/ mem.nextId # 0
    BY <2>2 DEF IdReady
  <2> HIDE DEF scan
  <2>9. ASSUME ~garbled'
        PROVE  /\ mem'.nextId <= issued + 1
               /\ IdReady' => mem'.nextId # 0
               /\ mem'.nextId # 0 => KeptBelow(mem'.nextId)
    <3>1. ~garbled /\ (scan => ~Garbles(seen))
      BY <2>2, <2>9
    <3>2. CASE scan
      <4>1. \A p \in Page, i \in Index : Sane(flash[p].recs[i])
        BY <3>1 DEF Ids
      <4>2. RestoredId(seen) # 0 /\ RestoredId(seen) <= issued + 1 /\ KeptBelow(RestoredId(seen))
        BY <2>6, <3>1, <3>2, <4>1, RestoredGrows
      <4> QED
        BY <2>7, <3>2, <4>2
    <3>3. CASE ~scan
      BY <2>7, <2>8, <3>1, <3>3 DEF Ids
    <3> QED
      BY <3>2, <3>3
  <2>10. garbled => garbled'
    BY <2>2
  <2> QED
    BY <2>2, <2>5, <2>9, <2>10, IdsAlone
<1>6. CASE write_exception_record
  <2> DEFINE a == mem'.active
  <2>1. /\ UNCHANGED <<flash, pc, pend, back, garbled>> /\ issued' = issued + 1 /\ kept' \subseteq kept
        /\ pend # {} /\ issued < MaxIssue
    BY <1>6 DEF write_exception_record
  <2>2. /\ mem'.nextId = (mem.nextId + 1) % IdMod
        /\ DOMAIN todo' = {a} /\ a \in Page /\ mem'.wptr \in Index
        /\ todo'[a].recs[mem'.wptr] = [n |-> issued + 1, id |-> mem.nextId]
        /\ \A i \in Index : i # mem'.wptr => todo'[a].recs[i] \in {flash[a].recs[i], Old}
    BY <1>6, LogWrites
  <2> HIDE DEF a
  <2>3. IdsGrow' /\ \A id : KeptBelow(id) => KeptBelow(id)'
    BY <2>1, KeptAsWas
  <2>4. SUFFICES ASSUME ~garbled PROVE Ids'
    BY <2>1, <2>3 DEF Ids
  <2>5. /\ \A p \in Page, i \in Index : Sane(flash[p].recs[i])
        /\ mem.nextId <= issued + 1 /\ mem.nextId # 0 /\ KeptBelow(mem.nextId)
    BY <2>1, <2>4 DEF Ids, IdReady
  <2>6. mem'.nextId = mem.nextId + 1
    <3>1. mem.nextId + 1 \in 0 .. IdMod - 1
      BY <1>0, <2>1, <2>5, Constants
    <3> QED
      BY <2>2, <3>1, Constants
  <2>7. mem'.nextId <= issued' + 1 /\ mem'.nextId # 0 /\ mem'.nextId - 1 = mem.nextId
    BY <1>0, <2>1, <2>5, <2>6
  <2>8. KeptBelow(mem.nextId - 1)' /\ KeptBelow(mem.nextId)'
    <3>1. \A p \in Page, i \in Index : flash[p].recs[i].n \in kept' => /\ flash[p].recs[i].id < mem.nextId
                                                                       /\ flash[p].recs[i].id \in Nat
      BY <1>0, <2>1, <2>5, ImageParts, Constants DEF KeptBelow
    <3>2. \A p \in Page, i \in Index : flash[p].recs[i].n \in kept' =>
             flash[p].recs[i].id < mem'.nextId - 1 /\ flash[p].recs[i].id < mem'.nextId
      BY <1>0, <2>6, <2>7, <3>1
    <3> QED
      BY <2>1, <3>2 DEF KeptBelow
  <2>9. \A i \in Index : Sane(todo'[a].recs[i])
    <3>1. Sane([n |-> issued + 1, id |-> mem.nextId])
      BY <1>0, <2>5 DEF Sane
    <3> QED
      BY <2>2, <2>5, <3>1, SaneRecs
  <2>10. todo'[a].recs[mem'.wptr].id = mem'.nextId - 1
    BY <2>2, <2>7
  <2> QED
    BY <2>1, <2>2, <2>5, <2>7, <2>8, <2>9, <2>10 DEF Ids, a
<1>7. CASE \E p \in Page : Program(p)
  <2>1. PICK p \in Page : Program(p)
    BY <1>7
  <2> DEFINE img == todo[p]
  <2>2. /\ p \in DOMAIN todo /\ flash' = [flash EXCEPT ![p] = img]
        /\ todo' = [q \in DOMAIN todo \ {p} |-> todo[q]]
        /\ UNCHANGED <<mem, pc, back, issued, garbled>>
        /\ \/ Saves(img) /\ kept' = kept \cup {issued} /\ pend' = pend \ Foremost(pend)
           \/ ~Saves(img) /\ UNCHANGED <<kept, pend>>
    BY <2>1 DEF Program, Rewriting
  <2>3. flash'[p] = img /\ (\A q \in Page : q # p => flash'[q] = flash[q])
    BY <1>0, <2>2
  <2>4. \A i \in Index : img.recs[i].n \in kept => img.recs[i] = flash[p].recs[i]
    BY <1>0, <2>2 DEF Carried
  <2>5. IdReady' => IdReady
    BY <2>2 DEF IdReady
  <2>6. ASSUME ~garbled
        PROVE  /\ \A q \in Page, i \in Index : Sane(flash'[q].recs[i])
               /\ \A q \in DOMAIN todo', i \in Index : Sane(todo'[q].recs[i])
    <3>1. \A i \in Index : Sane(img.recs[i])
      BY <2>2, <2>6 DEF Ids
    <3> QED
      BY <2>2, <2>3, <2>6, <3>1 DEF Ids
  <2>7. CASE Saves(img)
    <3>1. /\ kept' = kept \cup {issued} /\ DOMAIN todo' = {} /\ issued \notin kept
          /\ \A i \in Index : img.recs[i].n = issued => i = mem.wptr
          /\ \A q \in Page, i \in Index : flash[q].recs[i].n < issued
      BY <1>0, <2>2, <2>7 DEF Saving
    <3>2. \A q \in Page, i \in Index : flash'[q].recs[i].n \in kept' =>
             \/ flash'[q].recs[i] = flash[q].recs[i] /\ flash[q].recs[i].n \in kept
             \/ flash'[q].recs[i].n = issued /\ flash'[q].recs[i] = img.recs[mem.wptr]
      <4> TAKE q \in Page, i \in Index
      <4>1. CASE q = p
        BY <2>3, <2>4, <3>1, <4>1
      <4>2. CASE q # p
        <5>1. flash[q].recs[i].n < issued /\ flash[q].recs[i].n \in Nat
          BY <1>0, <3>1, ImageParts, Constants
        <5>2. flash[q].recs[i].n # issued
          BY <1>0, <5>1
        <5> QED
          BY <2>3, <3>1, <4>2, <5>2
      <4> QED
        BY <4>1, <4>2
    <3>3. SUFFICES ASSUME ~garbled PROVE Ids' /\ IdsGrow'
      BY <2>2 DEF Ids, IdsGrow
    <3>4. img.recs[mem.wptr].id = mem.nextId - 1 /\ KeptBelow(mem.nextId - 1)
      BY <2>2, <2>7, <3>3 DEF Ids
    <3>5. mem.nextId <= issued + 1 /\ (IdReady => mem.nextId # 0)
      BY <3>3 DEF Ids
    <3>6. \A q \in Page, i \in Index : flash[q].recs[i].id \in Nat /\ flash[q].recs[i].n \in Nat
      BY <1>0, ImageParts, Constants
    <3>7. KeptBelow(mem.nextId)'
      <4>1. \A q \in Page, i \in Index : flash'[q].recs[i].n \in kept' => flash'[q].recs[i].id < mem.nextId
        BY <1>0, <3>2, <3>4, <3>6 DEF KeptBelow
      <4> QED
        BY <2>2, <4>1 DEF KeptBelow
    <3>8. Ids'
      BY <2>2, <2>5, <2>6, <3>1, <3>3, <3>5, <3>7 DEF Ids
    <3>9. IdsGrow'
      <4> SUFFICES ASSUME NEW q1 \in Page, NEW q2 \in Page, NEW i \in Index, NEW j \in Index,
                          flash'[q1].recs[i].n \in kept', flash'[q2].recs[j].n \in kept',
                          flash'[q1].recs[i].n < flash'[q2].recs[j].n
                   PROVE  flash'[q1].recs[i].id < flash'[q2].recs[j].id
        BY DEF IdsGrow, Index
      <4>1. CASE flash'[q2].recs[j] = flash[q2].recs[j] /\ flash[q2].recs[j].n \in kept
        <5>1. ~(issued < flash[q2].recs[j].n)
          BY <1>0, <3>1, <3>6
        <5>2. flash'[q1].recs[i] = flash[q1].recs[i] /\ flash[q1].recs[i].n \in kept
          BY <3>2, <4>1, <5>1
        <5> QED
          BY <3>3, <4>1, <5>2 DEF IdsGrow, Index
      <4>2. CASE flash'[q2].recs[j].n = issued /\ flash'[q2].recs[j] = img.recs[mem.wptr]
        <5>1. flash'[q1].recs[i].n # issued
          BY <1>0, <4>2
        <5>2. flash'[q1].recs[i] = flash[q1].recs[i] /\ flash[q1].recs[i].n \in kept
          BY <3>2, <5>1
        <5> QED
          BY <3>4, <4>2, <5>2 DEF KeptBelow
      <4> QED
        BY <3>2, <4>1, <4>2
    <3> QED
      BY <3>8, <3>9
  <2>8. CASE ~Saves(img)
    <3>1. kept' = kept /\ pend' = pend
      BY <2>2, <2>8
    <3>2. IdsGrow' /\ \A id : KeptBelow(id) => KeptBelow(id)'
      <4>1. \A q \in Page, i \in Index : flash'[q].recs[i].n \in kept =>
               flash'[q].recs[i] = flash[q].recs[i] /\ flash[q].recs[i].n \in kept
        BY <2>3, <2>4
      <4> QED
        BY <2>2, <3>1, <4>1, KeptAsWas
    <3>3. \A q \in DOMAIN todo' : ~(pc' = "flush" /\ issued' \in OnPage(todo'[q]))
      <4> SUFFICES ASSUME NEW q \in DOMAIN todo, q # p PROVE ~Saves(todo[q])
        BY <2>2 DEF Saves
      <4> QED
        BY <1>0, <2>2 DEF Saving
    <3>4. SUFFICES ASSUME ~garbled PROVE Ids'
      BY <2>2, <3>2 DEF Ids
    <3>5. mem'.nextId # 0 => KeptBelow(mem.nextId)'
      <4>1. mem.nextId # 0 => KeptBelow(mem.nextId)
        BY <3>4 DEF Ids
      <4> QED
        BY <2>2, <3>2, <4>1 DEF KeptBelow
    <3> QED
      BY <2>2, <2>5, <2>6, <3>3, <3>4, <3>5 DEF Ids, Saves
  <2> QED
    BY <2>7, <2>8
<1>8. CASE \E warm \in BOOLEAN : Reset(warm)
  <2>1. /\ Interrupted /\ mem' = Cleared /\ todo' = NoJobs /\ pend' = {} /\ pc' = "off"
        /\ UNCHANGED <<issued, garbled>>
    BY <1>8 DEF Reset
  <2> DEFINE AsWas == /\ \A q \in Page, i \in Index : flash'[q].recs[i].n \in kept' =>
                           flash'[q].recs[i] = flash[q].recs[i] /\ flash[q].recs[i].n \in kept
                      /\ ~garbled => \A q \in Page, i \in Index : Sane(flash'[q].recs[i])
  <2>2. AsWas
    <3>1. CASE UNCHANGED <<flash, kept>>
      BY <3>1 DEF Ids
    <3>2. ASSUME NEW p \in Page, Rewriting(p), NEW left \in Torn(flash[p], todo[p]),
                 flash' = [flash EXCEPT ![p] = left], kept' \subseteq kept
          PROVE  AsWas
      <4>1. /\ flash[p] \in PageImage /\ Filled(flash[p]) /\ p \in DOMAIN todo
            /\ todo[p] \in PageImage /\ Filled(todo[p]) /\ Valid(todo[p])
        BY <1>0, <3>2 DEF Images, Todo, Rewriting
      <4>2. \A i \in Index : left.recs[i] \in {flash[p].recs[i], todo[p].recs[i], Blank}
        BY <3>2, <4>1, TornIs
      <4>3. flash'[p] = left /\ \A q \in Page : q # p => flash'[q] = flash[q]
        BY <1>0, <3>2
      <4>4. \A i \in Index : left.recs[i].n \in kept' => left.recs[i] = flash[p].recs[i] /\ flash[p].recs[i].n \in kept
        BY <1>0, <3>2, <4>1, <4>2 DEF Carried, Blank
      <4>5. ~garbled => \A i \in Index : Sane(left.recs[i])
        BY <4>1, <4>2, SaneRecs DEF Ids
      <4> QED
        BY <3>2, <4>3, <4>4, <4>5 DEF Ids
    <3> QED
      BY <2>1, <3>1, <3>2 DEF Interrupted
  <2>3. IdsGrow'
    BY <2>1, <2>2, KeptAsWas
  <2>4. DOMAIN todo' = {} /\ mem'.nextId = 0 /\ ~IdReady'
    BY <2>1, JobTypes, ClearedIs DEF IdReady
  <2>5. Ids'
    BY <1>0, <2>1, <2>2, <2>4 DEF Ids
  <2> QED
    BY <2>3, <2>5
<1> QED
  BY <1>1, <1>2, <1>3, <1>4, <1>5, <1>6, <1>7, <1>8 DEF Next

\* A record that was saved stays readable with its page's checksum until its page is
\* recycled, the log is erased, or a reset falls into the rewrite of that very page: no
\* repair, migration or recovery by battery_record_init or battery_record_sleep_check
\* writes over another.  And the ids grow with the records over every reset, repair and
\* recycling, as long as no scan took an unwritten slot's id for a record's.
THEOREM RecordsSurvive == Spec => []LogGrows
<1> DEFINE Inv == LogInv /\ Ids /\ IdsGrow
<1>1. Init => Inv
  BY LogStart, IdsStart
<1>2. Inv /\ [Next]_vars => Inv'
  BY LogStep, IdsStep
<1>3. Inv => LogGrows
  BY DEF LogInv, LogGrows
<1> QED
  BY <1>1, <1>2, <1>3, PTL DEF Spec

-----------------------------------------------------------------------------
(* The oldest goes first, in a log of two pages                            *)

\* FLASH_PAGE_LOG1 and FLASH_PAGE_LOG2, with a sequence in a byte.
TwoPages == PageCount = 2 /\ PageSeqMod > 2

\* Of two pages: which is the newer, unless their sequences are more than half the
\* range apart.
Both(f) == \A p \in Page : Valid(f[p])
Near(f) == \A p, q \in Page : f[p].seq - f[q].seq <= PageSeqMod \div 2
Front(f) == IF f[1].seq > f[0].seq THEN 1 ELSE 0

\* A record of K is on one page only, and those of the newer page were saved later.
Apart(f, K) ==
    \A p, q \in Page, i, j \in Index :
        p # q /\ f[p].recs[i].n \in K => f[p].recs[i].n # f[q].recs[j].n
Older(f, K) ==
    Both(f) /\ Near(f) =>
        \A p \in Page \ {Front(f)}, i, j \in Index :
            f[p].recs[i].n \in K /\ f[Front(f)].recs[j].n \in K =>
                f[p].recs[i].n < f[Front(f)].recs[j].n
Sorted(f, K) == Apart(f, K) /\ Older(f, K)

\* RAM points to the newer page, or to the log's start while no page can be read.
StartOf(m) == m.active = 0 /\ m.seq = 0 /\ m.wptr = 0
PlacedIn(f, m) ==
    \/ Valid(f[m.active]) /\ f[m.active].seq = m.seq /\ (Both(f) /\ Near(f) => m.active = Front(f))
    \/ StartOf(m) /\ \A p \in Page : ~Valid(f[p])

\* The log once what is to be rewritten has been.
Final == [p \in Page |-> After(p)]
OrderInv ==
    /\ Sorted(flash, kept)
    /\ \A p \in DOMAIN todo : Saves(todo[p]) => Sorted(Final, kept \cup {issued})
    /\ Ready => PlacedIn(Final, mem)
    /\ mem.magic \/ StartOf(mem) \/ Valid(After(mem.active))

LEMMA TwoPagesAre ==
    ASSUME TwoPages
    PROVE  /\ Page = {0, 1} /\ PageSeqMod \in Nat /\ PageSeqMod \div 2 \in Nat
           /\ 1 <= PageSeqMod \div 2 /\ PageSeqMod \div 2 < PageSeqMod - 1
<1>1. PageSeqMod \in Nat /\ PageSeqMod > 2
  BY Constants DEF TwoPages
<1>2. \A n \in Nat : n > 2 => n \div 2 \in Nat /\ 1 <= n \div 2 /\ n \div 2 < n - 1
  OBVIOUS
<1>3. Page = {0, 1}
  BY DEF TwoPages, Page
<1> QED
  BY <1>1, <1>2, <1>3

LEMMA NewestOfTwo ==
    ASSUME TwoPages, NEW f \in [Page -> PageImage], Both(f), Near(f)
    PROVE  NewestPage(f) = Front(f)
<1> DEFINE Loop(best) == best[0] = PageCount /\ \A p \in Page : best[p + 1] = Better(f, best[p], p)
           one == Better(f, 2, 0)
           b == [i \in 0 .. 2 |-> IF i = 0 THEN 2 ELSE IF i = 1 THEN one ELSE Better(f, one, 1)]
<1>1. PageCount = 2 /\ Page = {0, 1}
  BY TwoPagesAre DEF TwoPages
<1>2. one = 0
  BY <1>1 DEF Better, Both
<1>3. Better(f, 0, 1) = Front(f)
  <2>1. f[0].seq \in Nat /\ f[1].seq \in Nat
    BY <1>1, ImageParts, Constants
  <2>2. Newer(f[1].seq, f[0].seq) <=> f[1].seq > f[0].seq
    BY <1>1, <2>1, TwoPagesAre DEF Near, Newer
  <2> QED
    BY <1>1, <2>2 DEF Better, Front, Both
<1>4. b \in [0 .. 2 -> 0 .. 2] /\ Loop(b)
  <2>1. Front(f) \in 0 .. 2
    BY DEF Front
  <2> HIDE DEF one
  <2>2. b \in [0 .. 2 -> 0 .. 2]
    BY <1>2, <1>3, <2>1
  <2>3. b[0] = 2 /\ b[1] = one /\ b[2] = Better(f, one, 1)
    OBVIOUS
  <2> HIDE DEF b
  <2>4. b[0 + 1] = Better(f, b[0], 0) /\ b[1 + 1] = Better(f, b[1], 1)
    BY <2>3 DEF one
  <2> QED
    BY <1>1, <2>2, <2>3, <2>4
<1> HIDE DEF b, one
<1> DEFINE best == Newest(f)
<1>5. best \in [0 .. 2 -> 0 .. 2] /\ Loop(best)
  <2>1. \E x \in [0 .. PageCount -> 0 .. PageCount] : x[0] = PageCount /\ \A p \in Page : x[p + 1] = Better(f, x[p], p)
    BY <1>1, <1>4
  <2> QED
    BY <1>1, <2>1 DEF Newest
<1> HIDE DEF best
<1>6. best[0] = 2 /\ best[0 + 1] = Better(f, best[0], 0) /\ best[1 + 1] = Better(f, best[1], 1)
  BY <1>1, <1>5
<1>7. best[2] = Front(f)
  BY <1>2, <1>3, <1>6 DEF one
<1> QED
  BY <1>1, <1>7 DEF best, NewestPage

\* A load points RAM to the newer page.
LEMMA LoadPlaces ==
    ASSUME TwoPages, NEW f \in [Page -> PageImage], NEW m \in Mem,
           StartOf(m) \/ Valid(f[m.active])
    PROVE  PlacedIn(f, Loaded(m, f)) /\ (Loaded(m, f).magic \/ StartOf(Loaded(m, f)))
<1> DEFINE best == NewestPage(f)
<1>0. \/ best = PageCount /\ \A p \in Page : ~Valid(f[p])
      \/ best \in Page /\ Valid(f[best])
  BY NewestFound
<1>1. Both(f) /\ Near(f) => best = Front(f)
  BY NewestOfTwo
<1> HIDE DEF best
<1>2. CASE best = PageCount /\ \A p \in Page : ~Valid(f[p])
  <2>1. m.active \in Page
    BY DEF Mem
  <2> QED
    BY <1>2, <2>1 DEF best, Loaded, PlacedIn
<1>3. CASE best \in Page /\ Valid(f[best])
  <2>1. best # PageCount
    BY <1>3, Constants
  <2>2. Loaded(m, f) = [m EXCEPT !.magic = TRUE, !.active = best,
                                 !.wptr = f[best].count, !.seq = f[best].seq]
    BY <2>1 DEF Loaded, best
  <2>3. Loaded(m, f).active = best /\ Loaded(m, f).magic = TRUE /\ Loaded(m, f).seq = f[best].seq
    BY <2>2 DEF Mem
  <2> QED
    BY <1>1, <1>3, <2>3 DEF PlacedIn
<1> QED
  BY <1>0, <1>2, <1>3

\* The sequence of the next page.
LEMMA SeqUp ==
    ASSUME NEW x \in 0 .. PageSeqMod - 1
    PROVE  x % PageSeqMod = x /\ (x + 1) % PageSeqMod = IF x = PageSeqMod - 1 THEN 0 ELSE x + 1
  BY PageSeqModAssumption

\* Fewer records, or none on one of the pages
LEMMA SortedLess ==
    ASSUME NEW f, NEW K, NEW L, Sorted(f, K), L \subseteq K
    PROVE  Sorted(f, L)
  BY DEF Sorted, Apart, Older

LEMMA SortedOne ==
    ASSUME TwoPages, NEW f, NEW K, NEW p \in Page, \A i \in Index : f[p].recs[i].n \notin K
    PROVE  Sorted(f, K)
<1>1. Page = {0, 1}
  BY TwoPagesAre
<1>2. Front(f) \in Page
  BY <1>1 DEF Front
<1> QED
  BY <1>1, <1>2 DEF Sorted, Apart, Older

LEMMA FinalStill ==
    ASSUME LogInv, Still
    PROVE  Final = flash /\ \A p \in Page : After(p) = flash[p]
  BY DEF LogInv, TypeOK, Final, After, Still

LEMMA OrderQuiet ==
    ASSUME LogInv, OrderInv, Still, Ready' => Ready, UNCHANGED <<flash, mem, todo, issued>>, kept' \subseteq kept
    PROVE  OrderInv'
<1>1. DOMAIN todo = {} /\ DOMAIN todo' = {}
  BY DEF Still
<1>2. Final' = Final /\ After(mem.active)' = After(mem.active)
  BY DEF Final, After
<1>3. Sorted(flash, kept)'
  BY SortedLess DEF OrderInv
<1>4. PlacedIn(Final, mem)' <=> PlacedIn(Final, mem)
  BY <1>2
<1> QED
  BY <1>1, <1>2, <1>3, <1>4 DEF OrderInv

LEMMA QuietIs ==
    ASSUME LogInv,
           \/ Booted \/ WakeAsleep \/ Tick \/ window_done \/ key_clear
           \/ \E K \in Readings, eng \in BOOLEAN : periodic_check(K, eng)
    PROVE  Still /\ (Ready' => Ready) /\ UNCHANGED <<flash, mem, todo, issued, kept>>
<1>0. Resting
  BY DEF LogInv
<1>1. CASE Booted
  BY <1>1 DEF Booted, Ready, history
<1>2. CASE WakeAsleep
  BY <1>0, <1>2, ClearedIs DEF WakeAsleep, Resting, Ready, history
<1>3. CASE Tick
  BY <1>0, <1>3 DEF Tick, Resting, Ready, history
<1>4. CASE window_done
  BY <1>0, <1>4 DEF window_done, Ready, history, LogInv, TypeOK
<1>5. CASE key_clear
  BY <1>0, <1>5 DEF key_clear, Resting, Ready, history
<1>6. ASSUME NEW K \in Readings, NEW eng \in BOOLEAN, periodic_check(K, eng)
      PROVE  Still /\ Ready /\ UNCHANGED <<flash, mem, todo, issued, kept>>
  BY <1>6 DEF periodic_check, Ready
<1> QED
  BY <1>1, <1>2, <1>3, <1>4, <1>5, <1>6

LEMMA OrderStart ==
    ASSUME TwoPages, Init
    PROVE  OrderInv
<1> DEFINE recs(p) == [i \in 1 .. PageSize |-> [n |-> p * PageSize + i, id |-> p * PageSize + i]]
           page(s, p) == [Empty EXCEPT !.count = PageSize, !.seq = (s + p) % PageSeqMod, !.recs = recs(p)]
<1>0. Page = {0, 1} /\ PageSeqMod \in Nat /\ PageSeqMod > 2 /\ PageSize \in Nat
  BY TwoPagesAre, Constants DEF TwoPages
<1>1. /\ DOMAIN todo = {} /\ mem = Cleared /\ pc = "off" /\ pend = {}
      /\ \/ \A p \in Page : flash[p].magic # "V7"
         \/ \E s \in Worn : flash = [p \in Page |-> page(s, p)]
  <2>1. /\ todo = NoJobs /\ mem = Cleared /\ pc = "off" /\ pend = {}
        /\ \/ flash = [p \in Page |-> Erased]
           \/ \E c \in OldLogs :
                flash = [p \in Page |-> IF p = 0 THEN [Empty EXCEPT !.magic = "V5", !.count = c] ELSE Erased]
           \/ \E s \in Worn : flash = [p \in Page |-> page(s, p)]
    BY DEF Init
  <2>2. CASE flash = [p \in Page |-> Erased]
    BY <2>1, <2>2, JobTypes DEF Erased
  <2>3. ASSUME NEW c \in OldLogs,
               flash = [p \in Page |-> IF p = 0 THEN [Empty EXCEPT !.magic = "V5", !.count = c] ELSE Erased]
        PROVE  \A p \in Page : flash[p].magic # "V7"
    BY <2>3 DEF Erased, Empty
  <2> HIDE DEF page
  <2> QED
    BY <2>1, <2>2, <2>3, JobTypes
<1>2. StartOf(mem) /\ ~Ready
  BY <1>1, ClearedIs DEF StartOf, Cleared, Ready
<1>3. Sorted(flash, kept)
  <2>1. kept = Readable(flash)
    BY Zenon DEF Init
  <2>2. CASE \A p \in Page : flash[p].magic # "V7"
    <3>1. kept = {}
      BY <2>1, <2>2 DEF Readable, Valid
    <3> QED
      BY <3>1 DEF Sorted, Apart, Older
  <2>3. ASSUME NEW s \in Worn, flash = [p \in Page |-> page(s, p)] PROVE Sorted(flash, kept)
    <3>1. s \in 0 .. PageSeqMod - 1
      BY BoundsAssumption
    <3>2. \A p \in Page : flash[p].seq = (s + p) % PageSeqMod /\ flash[p].recs = recs(p)
      BY <2>3 DEF Empty
    <3>3. flash[0].seq = s /\ flash[1].seq = IF s = PageSeqMod - 1 THEN 0 ELSE s + 1
      <4>1. flash[0].seq = (s + 0) % PageSeqMod /\ flash[1].seq = (s + 1) % PageSeqMod /\ s + 0 = s
        BY <1>0, <3>1, <3>2
      <4> QED
        BY <3>1, <4>1, SeqUp
    <3>4. \A i \in Index : flash[0].recs[i].n = i /\ flash[1].recs[i].n = PageSize + i
      BY <1>0, <3>2 DEF Index
    <3> HIDE DEF page, recs
    <3>5. Near(flash) => Front(flash) = 1
      BY <1>0, <3>1, <3>3, TwoPagesAre DEF Near, Front
    <3>6. \A i, j \in Index : flash[0].recs[i].n < flash[1].recs[j].n
      BY <1>0, <3>4 DEF Index
    <3>7. Apart(flash, kept)
      BY <1>0, <3>4, <3>6 DEF Apart, Index
    <3>8. Older(flash, kept)
      BY <1>0, <3>5, <3>6 DEF Older
    <3> QED
      BY <3>7, <3>8 DEF Sorted
  <2> HIDE DEF page
  <2> QED
    BY <1>1, <2>2, <2>3
<1> QED
  BY <1>1, <1>2, <1>3 DEF OrderInv

\* The load, the migration and the new log of a boot
LEMMA OrderBoots ==
    ASSUME TwoPages, LogInv, OrderInv, battery_record_init
    PROVE  OrderInv'
<1> DEFINE fixed == Fixed(flash)
           hasNew == \E p \in Page : flash[p].magic = "V7"
           fresh == [Cleared EXCEPT !.magic = TRUE, !.nextId = 1]
<1>0. TypeOK /\ LogInv' /\ flash \in [Page -> PageImage] /\ Page = {0, 1}
  BY LogBoots, TwoPagesAre DEF LogInv, TypeOK
<1>1. /\ UNCHANGED <<flash, issued, kept>> /\ pc' = "boot"
      /\ \/ /\ hasNew
            /\ mem' = [Loaded(Cleared, fixed) EXCEPT !.nextId = RestoredId(fixed)]
            /\ todo' = RepairJobs(flash)
         \/ /\ ~hasNew
            /\ mem' = [fresh EXCEPT !.wptr = Least(flash[0].count, PageSize)]
            /\ todo' = [AllEmpty EXCEPT ![0] = Migrated(flash[0])]
         \/ /\ ~hasNew
            /\ mem' = fresh
            /\ todo' = AllEmpty
  BY DEF battery_record_init, Fixed
<1>2. Sorted(flash, kept)' /\ \A p \in DOMAIN todo' : ~Saves(todo[p])'
  BY <1>1 DEF OrderInv, Saves
<1>3. fresh.active = 0 /\ fresh.seq = 0 /\ fresh.magic = TRUE /\ fresh \in Mem
  BY FreshIs DEF Cleared
<1> HIDE DEF fixed, fresh
<1>4. CASE /\ hasNew
           /\ mem' = [Loaded(Cleared, fixed) EXCEPT !.nextId = RestoredId(fixed)]
           /\ todo' = RepairJobs(flash)
  <2> DEFINE l == Loaded(Cleared, fixed)
  <2>1. /\ fixed \in [Page -> PageImage] /\ l \in Mem
        /\ \A p \in Page : fixed[p] = IF p \in DOMAIN todo' THEN todo'[p] ELSE flash[p]
    BY <1>4, LoadedLog, ClearedIs, <1>0 DEF fixed
  <2>2. PlacedIn(fixed, l) /\ (l.magic \/ StartOf(l))
    BY <2>1, LoadPlaces, ClearedIs DEF StartOf, Cleared
  <2> HIDE DEF l
  <2>3. mem'.active = l.active /\ mem'.wptr = l.wptr /\ mem'.magic = l.magic /\ mem'.seq = l.seq
    BY <1>4, <2>1 DEF Mem, l
  <2>4. Final' = fixed
    BY <1>1, <2>1 DEF Final, After
  <2> QED
    BY <1>2, <2>2, <2>3, <2>4 DEF OrderInv, PlacedIn, StartOf
<1>5. ASSUME mem'.active = 0, mem'.seq = 0, mem'.magic = TRUE, DOMAIN todo' = Page,
             \A p \in Page : Valid(todo'[p]) /\ todo'[p].seq = 0
      PROVE  OrderInv'
  <2>1. \A p \in Page : Final'[p] = todo'[p]
    BY <1>5 DEF Final, After
  <2>2. PlacedIn(Final', mem')
    BY <1>0, <1>5, <2>1 DEF PlacedIn, Front
  <2> QED
    BY <1>2, <1>5, <2>2 DEF OrderInv
<1>6. Empty.seq = 0 /\ Valid(Empty) /\ Valid(Migrated(flash[0])) /\ Migrated(flash[0]).seq = 0
  <2>1. flash[0] \in PageImage
    BY <1>0
  <2> QED
    BY <2>1, BlankPages, MigratedIs DEF Empty, Migrated
<1>7. CASE /\ mem' = [fresh EXCEPT !.wptr = Least(flash[0].count, PageSize)]
           /\ todo' = [AllEmpty EXCEPT ![0] = Migrated(flash[0])]
  <2>1. mem'.active = 0 /\ mem'.seq = 0 /\ mem'.magic = TRUE
    BY <1>3, <1>7 DEF Mem
  <2>2. DOMAIN todo' = Page /\ \A p \in Page : todo'[p] = IF p = 0 THEN Migrated(flash[0]) ELSE Empty
    BY <1>7, JobTypes
  <2> QED
    BY <1>5, <1>6, <2>1, <2>2
<1>8. CASE mem' = fresh /\ todo' = AllEmpty
  BY <1>3, <1>5, <1>6, <1>8, JobTypes
<1> QED
  BY <1>1, <1>4, <1>7, <1>8

LEMMA OrderErased ==
    ASSUME TwoPages, LogInv, OrderInv, erase_all
    PROVE  OrderInv'
<1>1. /\ UNCHANGED flash /\ pc' = "boot" /\ kept' = {} /\ todo' = AllEmpty
      /\ mem' = [Cleared EXCEPT !.magic = TRUE, !.nextId = 1]
  BY DEF erase_all
<1>2. mem'.active = 0 /\ mem'.seq = 0 /\ mem'.magic = TRUE
  BY <1>1 DEF Cleared
<1>3. \A p \in Page : Final'[p] = Empty
  BY <1>1, JobTypes DEF Final, After
<1>4. PlacedIn(Final', mem')
  <2>1. Empty.seq = 0 /\ Valid(Empty)
    BY BlankPages DEF Empty
  <2> QED
    BY <1>2, <1>3, <2>1, TwoPagesAre DEF PlacedIn, Front
<1> QED
  BY <1>1, <1>2, <1>4 DEF OrderInv, Sorted, Apart, Older, Saves

LEMMA OrderWakes ==
    ASSUME TwoPages, LogInv, OrderInv, NEW K \in Readings, sleep_check(K)
    PROVE  OrderInv'
<1> DEFINE fixed == Fixed(flash)
           c == Seen(Opened(cache), K)
           load == c.age = Window /\ c.trig # {} /\ ~mem.magic
           m == IF load THEN Loaded(mem, fixed) ELSE mem
           seen == IF load THEN fixed ELSE flash
           scan == c.age = Window /\ c.trig # {} /\ mem.nextId = 0
<1>0. TypeOK /\ flash \in [Page -> PageImage] /\ mem \in Mem /\ Still /\ pc = "sleep" /\ pend = {}
  BY TypesAre DEF LogInv, sleep_check, Resting
<1>1. /\ mem' = (IF scan THEN [m EXCEPT !.nextId = RestoredId(seen)] ELSE m)
      /\ todo' = (IF load THEN RepairJobs(flash) ELSE NoJobs)
      /\ pend' = (IF c.age = Window THEN c.trig ELSE {})
      /\ pc' = (IF c.age = Window THEN "flush" ELSE "sleep") /\ back' = "sleep"
      /\ UNCHANGED <<flash, issued, kept>>
  BY DEF sleep_check, Fixed
<1>2. Final = flash /\ \A p \in Page : After(p) = flash[p]
  BY <1>0, FinalStill
<1> HIDE DEF scan, c
<1>3. CASE load
  <2>1. mem.active \in Page
    BY <1>0 DEF Mem
  <2>2. fixed \in [Page -> PageImage] /\ \A p \in Page : Valid(flash[p]) => fixed[p] = flash[p]
    BY <1>0, RepairedIs DEF Fixed
  <2>3. StartOf(mem) \/ Valid(fixed[mem.active])
    BY <1>2, <1>3, <2>1, <2>2 DEF OrderInv
  <2>4. PlacedIn(fixed, m) /\ (m.magic \/ StartOf(m))
    BY <1>0, <1>3, <2>2, <2>3, LoadPlaces
  <2>5. m \in Mem
    BY <1>0, <1>3, <2>2, LoadedIs
  <2> HIDE DEF m
  <2>6. mem'.active = m.active /\ mem'.wptr = m.wptr /\ mem'.magic = m.magic /\ mem'.seq = m.seq
    BY <1>1, <2>5 DEF Mem
  <2>7. \A p \in Page : fixed[p] = IF p \in DOMAIN todo' THEN todo'[p] ELSE flash[p]
    <3>1. /\ DOMAIN todo' = {p \in Page : Broken(flash[p])}
          /\ \A p \in DOMAIN todo' : todo'[p] = Empty
      BY <1>1, <1>3, JobTypes
    <3> QED
      BY <1>0, <3>1, RepairedIs DEF Fixed
  <2> HIDE DEF fixed
  <2>8. Final' = fixed
    BY <1>1, <2>2, <2>7 DEF Final, After
  <2>9. \A p \in DOMAIN todo' : ~Saves(todo[p])'
    BY <1>1, <1>3, JobTypes, BlankPages DEF Saves, OnPage, Old, Index
  <2> QED
    BY <1>1, <2>4, <2>6, <2>8, <2>9 DEF OrderInv, PlacedIn, StartOf
<1>4. CASE ~load
  <2>1. mem'.active = mem.active /\ mem'.wptr = mem.wptr /\ mem'.magic = mem.magic /\ mem'.seq = mem.seq
    BY <1>0, <1>1, <1>4 DEF Mem
  <2>2. DOMAIN todo' = {} /\ DOMAIN todo = {}
    BY <1>0, <1>1, <1>4, JobTypes DEF Still
  <2>3. Final' = Final /\ \A p \in Page : After(p)' = After(p)
    BY <1>1, <2>2 DEF Final, After
  <2>4. Ready' => Ready
    BY <1>0, <1>1, <1>4, <2>1 DEF Ready
  <2>5. mem.active \in Page
    BY <1>0 DEF Mem
  <2>6. PlacedIn(Final, mem) => PlacedIn(Final', mem')
    BY <2>1, <2>3 DEF PlacedIn, StartOf
  <2>7. StartOf(mem) => StartOf(mem')
    BY <2>1 DEF StartOf
  <2>8. After(mem.active)' = After(mem.active)
    BY <2>1, <2>3, <2>5 DEF After
  <2> QED
    BY <1>1, <2>1, <2>2, <2>4, <2>6, <2>7, <2>8 DEF OrderInv
<1> QED
  BY <1>3, <1>4

\* Where the next record goes: behind those of the active page, or to the other page,
\* whose sequence is one up.
LEMMA WritesWhere ==
    ASSUME TwoPages, LogInv, write_exception_record
    PROVE  LET a == mem'.active
           IN  /\ Still /\ Ready /\ flash \in [Page -> PageImage] /\ flash' = flash /\ issued' = issued + 1
               /\ a \in Page /\ DOMAIN todo' = {a} /\ mem.active \in Page
               /\ mem.seq \in 0 .. PageSeqMod - 1
               /\ todo'[a] \in PageImage /\ Valid(todo'[a]) /\ todo'[a].seq = mem'.seq
               /\ mem'.magic = mem.magic
               /\ IF Recycles(mem)
                  THEN /\ a # mem.active /\ kept' = kept \ OnPage(flash[a]) /\ mem.wptr # 0
                       /\ mem'.seq = IF mem.seq = PageSeqMod - 1 THEN 0 ELSE mem.seq + 1
                  ELSE a = mem.active /\ mem'.seq = mem.seq /\ kept' = kept
<1> DEFINE m == Target(mem)
           a == mem'.active
           was == IF Recycles(mem) THEN Erased ELSE flash[m.active]
           r == [n |-> issued + 1, id |-> m.nextId]
<1>0. /\ flash \in [Page -> PageImage] /\ mem \in Mem /\ LogInv' /\ m \in Mem /\ Page = {0, 1}
      /\ a \in Page /\ DOMAIN todo' = {a}
  BY LogWrites, TwoPagesAre DEF LogInv, TypeOK, Mem
<1>1. /\ Still /\ pend # {} /\ issued' = issued + 1 /\ UNCHANGED flash
      /\ todo' = [p \in {m.active} |-> Image(was, m, r)]
      /\ mem' = [m EXCEPT !.wptr = @ + 1, !.nextId = (@ + 1) % IdMod]
      /\ kept' = IF Recycles(mem) THEN kept \ OnPage(flash[m.active]) ELSE kept
  BY DEF write_exception_record
<1>2. mem.active \in Page /\ mem.seq \in 0 .. PageSeqMod - 1 /\ mem.wptr \in Nat
  BY <1>0, Constants DEF Mem
<1>3. IF Recycles(mem)
      THEN m.active = (mem.active + 1) % PageCount /\ m.seq = (mem.seq + 1) % PageSeqMod /\ mem.wptr # 0
           /\ m.magic = mem.magic
      ELSE m = mem
  <2>1. CASE Recycles(mem)
    <3>1. m = [mem EXCEPT !.active = (@ + 1) % PageCount, !.seq = (@ + 1) % PageSeqMod, !.wptr = 0]
      BY <2>1 DEF Target, Recycles, Switched
    <3> HIDE DEF m
    <3>2. m.active = (mem.active + 1) % PageCount /\ m.seq = (mem.seq + 1) % PageSeqMod /\ m.magic = mem.magic
      BY <1>0, <3>1 DEF Mem
    <3> QED
      BY <1>2, <2>1, <3>2, Constants DEF Recycles
  <2>2. CASE ~Recycles(mem)
    BY <2>2 DEF Target, Recycles
  <2> QED
    BY <2>1, <2>2
<1>4. (0 + 1) % 2 = 1 /\ (1 + 1) % 2 = 0
  OBVIOUS
<1>5. Recycles(mem) => m.active # mem.active
  BY <1>0, <1>2, <1>3, <1>4 DEF TwoPages
<1>6. Recycles(mem) => m.seq = IF mem.seq = PageSeqMod - 1 THEN 0 ELSE mem.seq + 1
  BY <1>2, <1>3, SeqUp
<1>7. was \in PageImage
  BY <1>0, BlankPages DEF Mem
<1> HIDE DEF m, was, r
<1>8. mem'.active = m.active /\ mem'.seq = m.seq /\ mem'.magic = m.magic
  BY <1>0, <1>1 DEF Mem
<1>9. todo'[a] = Image(was, m, r)
  BY <1>1, <1>8
<1>10. Image(was, m, r).seq = m.seq
  <2> DEFINE base == IF was.magic = "V7" THEN was ELSE Empty
  <2>1. base \in PageImage
    BY <1>7, BlankPages
  <2>2. Image(was, m, r) = [base EXCEPT !.magic = "V7", !.seq = m.seq, !.sum = TRUE,
                                        !.count = IF m.wptr >= @ THEN m.wptr + 1 ELSE @,
                                        !.recs[m.wptr + 1] = r]
    BY DEF Image
  <2> HIDE DEF base
  <2> QED
    BY <2>1, <2>2 DEF PageImage
<1>11. todo'[a] \in PageImage /\ Valid(todo'[a])
  BY <1>0 DEF LogInv, TypeOK, Images
<1> QED
  BY <1>0, <1>1, <1>2, <1>3, <1>5, <1>6, <1>8, <1>9, <1>10, <1>11 DEF Ready

LEMMA OrderWrites ==
    ASSUME TwoPages, LogInv, OrderInv, write_exception_record
    PROVE  OrderInv'
<1> DEFINE a == mem'.active
           g == Final'
           K == kept' \cup {issued'}
<1>0. /\ Still /\ flash \in [Page -> PageImage] /\ flash' = flash /\ issued' = issued + 1
      /\ a \in Page /\ DOMAIN todo' = {a} /\ mem.active \in Page
      /\ mem.seq \in 0 .. PageSeqMod - 1
      /\ todo'[a] \in PageImage /\ Valid(todo'[a]) /\ todo'[a].seq = mem'.seq
      /\ mem'.magic = mem.magic
      /\ IF Recycles(mem)
         THEN /\ a # mem.active /\ kept' = kept \ OnPage(flash[a]) /\ mem.wptr # 0
              /\ mem'.seq = IF mem.seq = PageSeqMod - 1 THEN 0 ELSE mem.seq + 1
         ELSE a = mem.active /\ mem'.seq = mem.seq /\ kept' = kept
      /\ Page = {0, 1} /\ issued \in Nat
  BY WritesWhere, TwoPagesAre, Constants DEF LogInv, TypeOK
<1>1. /\ \A i \in Index : todo'[a].recs[i].n = issued' \/ todo'[a].recs[i] \in {flash[a].recs[i], Old}
      /\ 0 \notin kept
  BY <1>0, LogWrites, KeptIs
<1>2. PlacedIn(flash, mem)
  BY <1>0, WritesWhere, FinalStill DEF OrderInv
<1>3. kept' \subseteq kept /\ Sorted(flash, kept) /\ Sorted(flash, kept')
  <2>1. kept' \subseteq kept
    BY <1>0
  <2> QED
    BY <2>1, SortedLess DEF OrderInv
<1>4. g[a] = todo'[a] /\ \A p \in Page : p # a => g[p] = flash[p]
  BY <1>0 DEF Final, After
<1>5. \A p \in Page, i \in Index : flash[p].recs[i].n \in Nat /\ flash[p].recs[i].n <= issued
  BY <1>0, ImageParts, Constants DEF LogInv, Images
<1> HIDE DEF a, g
<1>6. Apart(g, K)
  <2> SUFFICES ASSUME NEW p \in Page, NEW q \in Page, NEW i \in Index, NEW j \in Index,
                      p # q, g[p].recs[i].n \in K, g[p].recs[i].n = g[q].recs[j].n
               PROVE  FALSE
    BY DEF Apart
  <2>1. \A x \in Index : g[a].recs[x].n \in K => g[a].recs[x].n = issued' \/ g[a].recs[x].n = flash[a].recs[x].n
    BY <1>0, <1>1, <1>3, <1>4 DEF Old
  <2>2. p = a \/ q = a
    BY <1>0
  <2>3. \A o \in Page \ {a} : \A x \in Index : g[o].recs[x].n # issued' /\ g[o].recs[x].n = flash[o].recs[x].n
    BY <1>0, <1>4, <1>5
  <2>4. g[p].recs[i].n = flash[p].recs[i].n /\ g[q].recs[j].n = flash[q].recs[j].n /\ g[p].recs[i].n # issued'
    BY <2>1, <2>2, <2>3
  <2>5. flash[p].recs[i].n \in kept'
    BY <2>4
  <2> QED
    BY <1>3, <2>4, <2>5 DEF Sorted, Apart
<1>7. CASE Recycles(mem)
  <2>0. Valid(flash[mem.active]) /\ flash[mem.active].seq = mem.seq
    BY <1>2, <1>0, <1>7 DEF PlacedIn, StartOf
  <2>1. \A i \in Index : g[a].recs[i].n \in K => g[a].recs[i].n = issued'
    <3> SUFFICES ASSUME NEW i \in Index, g[a].recs[i].n \in kept', g[a].recs[i].n # issued' PROVE FALSE
      OBVIOUS
    <3>1. g[a].recs[i].n # 0 /\ g[a].recs[i].n = flash[a].recs[i].n
      BY <1>1, <1>3, <1>4 DEF Old
    <3> QED
      BY <1>0, <1>7, <3>1 DEF OnPage, Index
  <2>2. g[mem.active] = flash[mem.active] /\ g[a].seq = mem'.seq
    BY <1>0, <1>4, <1>7
  <2>3. Near(g) => mem.seq # PageSeqMod - 1
    <3> SUFFICES ASSUME Near(g), mem.seq = PageSeqMod - 1 PROVE FALSE
      OBVIOUS
    <3>1. g[mem.active].seq = PageSeqMod - 1 /\ g[a].seq = 0
      BY <1>0, <1>7, <2>0, <2>2
    <3>2. g[mem.active].seq - g[a].seq <= PageSeqMod \div 2
      BY <1>0 DEF Near
    <3> QED
      BY <3>1, <3>2, TwoPagesAre
  <2>4. Near(g) => a = Front(g)
    <3> SUFFICES ASSUME Near(g) PROVE a = Front(g)
      OBVIOUS
    <3>1. g[a].seq = g[mem.active].seq + 1 /\ g[mem.active].seq \in Nat
      BY <1>0, <1>7, <2>0, <2>2, <2>3, TwoPagesAre
    <3> QED
      BY <1>0, <1>7, <3>1 DEF Front
  <2>5. Older(g, K)
    <3> SUFFICES ASSUME a = Front(g), NEW p \in Page \ {a}, NEW i \in Index, NEW j \in Index,
                        g[p].recs[i].n \in K, g[a].recs[j].n \in K
                 PROVE  g[p].recs[i].n < g[a].recs[j].n
      BY <2>4 DEF Older
    <3>1. g[p].recs[i].n <= issued /\ g[p].recs[i].n \in Nat /\ g[a].recs[j].n = issued + 1
      BY <1>0, <1>4, <1>5, <2>1
    <3> QED
      BY <1>0, <3>1
  <2>6. PlacedIn(g, mem')
    BY <1>0, <1>4, <2>4 DEF PlacedIn, a
  <2> QED
    BY <1>0, <1>3, <1>4, <1>6, <2>5, <2>6 DEF OrderInv, Sorted, a, g, After
<1>8. CASE ~Recycles(mem)
  <2>1. a = mem.active /\ mem'.seq = mem.seq /\ kept' = kept
    BY <1>0, <1>8
  <2>2. CASE Valid(flash[a]) /\ flash[a].seq = mem.seq /\ (Both(flash) /\ Near(flash) => a = Front(flash))
    <3>1. \A p \in Page : g[p].seq = flash[p].seq /\ (Valid(g[p]) <=> Valid(flash[p]))
      BY <1>0, <1>4, <2>1, <2>2
    <3>2. (Both(g) <=> Both(flash)) /\ (Near(g) <=> Near(flash)) /\ Front(g) = Front(flash)
      BY <1>0, <3>1 DEF Both, Near, Front
    <3>3. Older(g, K)
      <4> SUFFICES ASSUME Both(g), Near(g), NEW p \in Page \ {a}, NEW i \in Index, NEW j \in Index,
                          a = Front(flash), g[p].recs[i].n \in K, g[a].recs[j].n \in K
                   PROVE  g[p].recs[i].n < g[a].recs[j].n
        BY <2>2, <3>2 DEF Older
      <4>1. g[p].recs[i].n <= issued /\ g[p].recs[i].n \in Nat /\ g[p].recs[i].n = flash[p].recs[i].n
            /\ g[p].recs[i].n \in kept
        BY <1>0, <1>4, <1>5, <2>1
      <4>2. CASE g[a].recs[j].n = issued'
        BY <1>0, <4>1, <4>2
      <4>3. CASE g[a].recs[j].n # issued'
        <5>1. g[a].recs[j].n \in kept /\ g[a].recs[j].n = flash[a].recs[j].n
          BY <1>1, <1>4, <2>1, <4>3 DEF Old
        <5> QED
          BY <1>3, <3>2, <4>1, <5>1 DEF Sorted, Older
      <4> QED
        BY <4>2, <4>3
    <3>4. PlacedIn(g, mem')
      BY <1>0, <1>4, <2>1, <2>2, <3>2 DEF PlacedIn, a
    <3> QED
      BY <1>0, <1>3, <1>4, <1>6, <3>3, <3>4 DEF OrderInv, Sorted, a, g, After
  <2>3. CASE \A p \in Page : ~Valid(flash[p])
    <3>1. ~Both(g)
      BY <1>0, <1>4, <2>3 DEF Both
    <3>2. PlacedIn(g, mem')
      BY <1>0, <1>4, <3>1 DEF PlacedIn, a
    <3> QED
      BY <1>0, <1>3, <1>4, <1>6, <3>1, <3>2 DEF OrderInv, Sorted, Older, a, g, After
  <2> QED
    BY <1>2, <2>1, <2>2, <2>3 DEF PlacedIn
<1> QED
  BY <1>7, <1>8

\* A page comes to hold its image
LEMMA OrderRewritten ==
    ASSUME TwoPages, LogInv, OrderInv, NEW p \in DOMAIN todo
    PROVE  LET f == [flash EXCEPT ![p] = todo[p]]
           IN  /\ Sorted(f, IF Saves(todo[p]) THEN kept \cup {issued} ELSE kept)
               /\ Saves(todo[p]) => f = Final
<1> DEFINE f == [flash EXCEPT ![p] = todo[p]]
<1>1. flash \in [Page -> PageImage] /\ p \in Page /\ Carried /\ Saving
  BY TypesAre DEF LogInv, Todo
<1>2. CASE Saves(todo[p])
  <2>1. DOMAIN todo = {p}
    BY <1>1, <1>2 DEF Saving
  <2>2. f = Final
    BY <1>1, <2>1 DEF Final, After
  <2> QED
    BY <1>2, <2>2 DEF OrderInv
<1>3. CASE ~Saves(todo[p])
  <2>1. \A i \in Index : f[p].recs[i].n \notin kept
    BY <1>1, <1>3 DEF Carried
  <2> HIDE DEF f
  <2>2. Sorted(f, kept)
    BY <1>1, <2>1, SortedOne
  <2> QED
    BY <1>3, <2>2 DEF f
<1> QED
  BY <1>2, <1>3

LEMMA OrderPrograms ==
    ASSUME TwoPages, LogInv, OrderInv, NEW p \in Page, Program(p)
    PROVE  OrderInv'
<1>0. TypeOK /\ Saving /\ flash \in [Page -> PageImage] /\ mem \in Mem /\ Todo(todo)
  BY TypesAre DEF LogInv
<1>1. /\ p \in DOMAIN todo /\ flash' = [flash EXCEPT ![p] = todo[p]]
      /\ todo' = [q \in DOMAIN todo \ {p} |-> todo[q]]
      /\ IF Saves(todo[p]) THEN kept' = kept \cup {issued} /\ pend' = pend \ Foremost(pend)
         ELSE kept' = kept /\ pend' = pend
      /\ UNCHANGED <<mem, pc, back, issued>>
  BY DEF Program, Rewriting
<1>2. Sorted(flash, kept)'
  BY <1>1, OrderRewritten
<1>3. \A q \in Page : After(q)' = After(q)
  BY <1>0, <1>1 DEF After
<1>4. Final' = Final /\ mem.active \in Page
  BY <1>0, <1>3 DEF Final, Mem
<1>5. Ready' => Ready
  BY <1>1 DEF Ready
<1>6. \A q \in DOMAIN todo' : ~Saves(todo[q])'
  <2> SUFFICES ASSUME NEW q \in DOMAIN todo', Saves(todo[q])' PROVE FALSE
    OBVIOUS
  <2>1. q \in DOMAIN todo /\ q # p /\ todo'[q] = todo[q]
    BY <1>1
  <2>2. Saves(todo[q])
    BY <1>1, <2>1 DEF Saves
  <2> QED
    BY <1>0, <1>1, <2>1, <2>2 DEF Saving
<1>7. PlacedIn(Final, mem)' <=> PlacedIn(Final, mem)
  BY <1>1, <1>4
<1>8. After(mem.active)' = After(mem.active) /\ StartOf(mem)' = StartOf(mem) /\ mem'.magic = mem.magic
  BY <1>1, <1>3, <1>4 DEF After
<1> QED
  BY <1>2, <1>5, <1>6, <1>7, <1>8 DEF OrderInv

LEMMA OrderInterrupted ==
    ASSUME TwoPages, LogInv, OrderInv, NEW warm \in BOOLEAN, Reset(warm)
    PROVE  OrderInv'
<1>0. /\ TypeOK /\ Images /\ Carried /\ flash \in [Page -> PageImage] /\ Todo(todo) /\ 0 \notin kept
  BY TypesAre, KeptIs DEF LogInv
<1>1. Interrupted /\ mem' = Cleared /\ todo' = NoJobs /\ pend' = {} /\ pc' = "off"
  BY DEF Reset
<1>2. DOMAIN todo' = {} /\ StartOf(mem') /\ ~Ready'
  BY <1>1, JobTypes, ClearedIs DEF StartOf, Cleared, Ready
<1>3. Sorted(flash', kept')
  <2>1. CASE UNCHANGED <<flash, kept>>
    BY <2>1 DEF OrderInv
  <2>2. ASSUME NEW p \in Page, Rewriting(p), NEW left \in Torn(flash[p], todo[p]),
               flash' = [flash EXCEPT ![p] = left],
               kept' = IF Saves(todo[p]) THEN kept \ (OnPage(flash[p]) \ Readable(flash')) ELSE kept
        PROVE  Sorted(flash', kept')
    <3> DEFINE f == [flash EXCEPT ![p] = todo[p]]
    <3>1. p \in DOMAIN todo /\ kept' \subseteq kept /\ todo[p] \in PageImage
      BY <1>0, <2>2 DEF Rewriting, Todo
    <3>2. f[p] = todo[p] /\ flash'[p] = left /\ \A q \in Page : q # p => flash'[q] = flash[q] /\ f[q] = flash[q]
      BY <1>0, <2>2
    <3>3. Sorted(flash, kept') /\ Sorted(f, kept')
      <4>1. Sorted(f, kept) \/ Sorted(f, kept \cup {issued})
        BY <3>1, OrderRewritten
      <4>2. kept' \subseteq kept \cup {issued}
        BY <3>1
      <4> HIDE DEF f
      <4> QED
        BY <3>1, <4>1, <4>2, SortedLess DEF OrderInv
    <3>4. CASE left = flash[p]
      <4>1. flash' = flash
        BY <1>0, <2>2, <3>4
      <4> QED
        BY <3>3, <4>1
    <3>5. CASE left = todo[p]
      BY <2>2, <3>3, <3>5
    <3>6. CASE left # flash[p] /\ left # todo[p]
      <4>1. ~Valid(left)
        <5>1. CASE left = Erased
          BY <5>1, BlankPages DEF Valid
        <5>2. CASE left = [Erased EXCEPT !.magic = todo[p].magic]
          BY <5>2 DEF Erased, Valid
        <5>3. ASSUME NEW k \in 0 .. PageSize,
                     left = [todo[p] EXCEPT !.sum = FALSE,
                               !.recs = [i \in 1 .. PageSize |-> IF i <= k THEN todo[p].recs[i] ELSE Blank]]
              PROVE  left.sum = FALSE
          BY <3>1, <5>3 DEF PageImage
        <5> QED
          BY <2>2, <3>6, <5>1, <5>2, <5>3 DEF Torn, Valid
      <4>2. ~Both(flash')
        BY <3>2, <4>1 DEF Both
      <4>3. \A i \in Index : left.recs[i] \in {flash[p].recs[i], todo[p].recs[i], Blank}
        <5>1. Filled(flash[p]) /\ Filled(todo[p]) /\ Valid(todo[p]) /\ flash[p] \in PageImage
          BY <1>0, <3>1 DEF Images
        <5> QED
          BY <2>2, <3>1, <5>1, TornIs
      <4> HIDE DEF f
      <4>4. Apart(flash', kept')
        <5> SUFFICES ASSUME NEW q \in Page, NEW r \in Page, NEW i \in Index, NEW j \in Index,
                            q # r, flash'[q].recs[i].n \in kept', flash'[q].recs[i].n = flash'[r].recs[j].n
                     PROVE  FALSE
          BY DEF Apart
        <5>1. \E h \in {flash, f} : h[q].recs[i].n = flash'[q].recs[i].n /\ h[r].recs[j].n = flash'[r].recs[j].n
          <6>1. flash'[q].recs[i].n # 0 /\ flash'[r].recs[j].n # 0
            BY <1>0, <3>1
          <6>2. CASE q = p
            BY <3>2, <4>3, <6>1, <6>2 DEF Blank
          <6>3. CASE r = p
            BY <3>2, <4>3, <6>1, <6>3 DEF Blank
          <6>4. CASE q # p /\ r # p
            BY <3>2, <6>4
          <6> QED
            BY <6>2, <6>3, <6>4
        <5> QED
          BY <3>3, <5>1 DEF Sorted, Apart
      <4> QED
        BY <4>2, <4>4 DEF Sorted, Older
    <3> QED
      BY <3>4, <3>5, <3>6
  <2> QED
    BY <1>1, <2>1, <2>2 DEF Interrupted
<1> QED
  BY <1>2, <1>3 DEF OrderInv

LEMMA OrderStep ==
    ASSUME TwoPages, LogInv, OrderInv, [Next]_vars
    PROVE  OrderInv'
<1>1. CASE UNCHANGED vars
  <2>1. UNCHANGED <<flash, mem, todo, kept, issued, pc, back, pend>>
    BY <1>1 DEF vars
  <2>2. Final' = Final /\ After(mem.active)' = After(mem.active)
    BY <2>1 DEF Final, After
  <2>3. Ready' = Ready /\ \A p \in DOMAIN todo : Saves(todo[p])' = Saves(todo[p])
    BY <2>1 DEF Ready, Saves
  <2>4. PlacedIn(Final, mem)' = PlacedIn(Final, mem)
    BY <2>1, <2>2
  <2> QED
    BY <2>1, <2>2, <2>3, <2>4 DEF OrderInv
<1>2. CASE Next
  <2>1. CASE \/ Booted \/ WakeAsleep \/ Tick \/ window_done \/ key_clear
             \/ \E K \in Readings, eng \in BOOLEAN : periodic_check(K, eng)
    BY <2>1, QuietIs, OrderQuiet
  <2>2. \/ battery_record_init \/ write_exception_record \/ erase_all
        \/ \E K \in Readings : sleep_check(K)
        \/ \E p \in Page : Program(p)
        \/ \E warm \in BOOLEAN : Reset(warm)
        \/ Booted \/ WakeAsleep \/ Tick \/ window_done \/ key_clear
        \/ \E K \in Readings, eng \in BOOLEAN : periodic_check(K, eng)
    BY <1>2 DEF Next
  <2> QED
    BY <2>1, <2>2, OrderBoots, OrderWrites, OrderErased, OrderWakes, OrderPrograms, OrderInterrupted
<1> QED
  BY <1>1, <1>2

\* What goes first when switch_active_page recycles a page is the oldest: with two pages and
\* a sequence of more than two values, as in the code, and while the sequences of the pages are
\* no more than half their range apart, whatever resets, repairs and wraps came before.  And a
\* record appended to a page takes the place of none.
THEOREM OldestFirst ==
    ASSUME TwoPages
    PROVE  Spec => []RecyclesOldest
<1> DEFINE Inv == LogInv /\ OrderInv
<1>1. Init => Inv
  BY LogStart, OrderStart
<1>2. Inv /\ [Next]_vars => Inv'
  BY LogStep, OrderStep
<1>3. Inv => RecyclesOldest
  <2> SUFFICES ASSUME LogInv, OrderInv, pc = "run", Still, kept # {}, Unwrapped
               PROVE  IF Recycles(mem)
                      THEN \A n \in kept \cap OnPage(flash[Target(mem).active]) :
                             \A o \in kept \ OnPage(flash[Target(mem).active]) : n < o
                      ELSE flash[mem.active].recs[mem.wptr + 1].n \notin kept
    BY DEF RecyclesOldest
  <2>0. /\ flash \in [Page -> PageImage] /\ mem \in Mem /\ kept \subseteq Readable(flash)
        /\ Page = {0, 1} /\ mem.active \in Page /\ mem.wptr \in 0 .. PageSize
    BY TypesAre, TwoPagesAre DEF LogInv, RecordsKept, Mem
  <2>1. Final = flash /\ \A p \in Page : After(p) = flash[p]
    BY FinalStill
  <2>2. PlacedIn(flash, mem) /\ Sorted(flash, kept)
    BY <2>1 DEF OrderInv, Ready
  <2>3. \A n \in kept : \E p \in Page, i \in Index : Valid(flash[p]) /\ flash[p].recs[i].n = n
    BY <2>0 DEF Readable, Index
  <2>4. Valid(flash[mem.active]) /\ (Both(flash) /\ Near(flash) => mem.active = Front(flash))
    BY <2>2, <2>3 DEF PlacedIn
  <2>5. CASE Recycles(mem)
    <3>1. Target(mem).active \in Page /\ Target(mem).active # mem.active
      <4>1. Target(mem).active = (mem.active + 1) % 2
        BY <2>0, <2>5 DEF Target, Recycles, Switched, Mem, TwoPages
      <4>2. (0 + 1) % 2 = 1 /\ (1 + 1) % 2 = 0
        OBVIOUS
      <4> QED
        BY <2>0, <4>1, <4>2
    <3> DEFINE b == Target(mem).active
    <3> HIDE DEF b
    <3>2. ASSUME NEW n \in kept \cap OnPage(flash[b]), NEW o \in kept \ OnPage(flash[b]) PROVE n < o
      <4>1. PICK i \in Index : flash[b].recs[i].n = n
        BY DEF OnPage, Index
      <4>2. PICK p \in Page, j \in Index : flash[p].recs[j].n = o
        BY <2>3
      <4>3. p = mem.active
        <5>1. o # 0
          BY KeptIs
        <5>2. p # b
          BY <4>2, <5>1 DEF OnPage, Index
        <5> QED
          BY <2>0, <3>1, <5>2 DEF b
      <4>4. Valid(flash[b])
        <5>1. PICK q \in Page, k \in Index : Valid(flash[q]) /\ flash[q].recs[k].n = n
          BY <2>3
        <5>2. q = b
          BY <2>2, <3>1, <4>1, <5>1 DEF Sorted, Apart, b
        <5> QED
          BY <5>1, <5>2
      <4>5. Both(flash) /\ Near(flash)
        BY <2>0, <2>4, <3>1, <4>4 DEF Both, Near, Unwrapped, b
      <4> QED
        BY <2>2, <2>4, <3>1, <4>1, <4>2, <4>3, <4>5 DEF Sorted, Older, b
    <3> QED
      BY <2>5, <3>2 DEF b
  <2>6. CASE ~Recycles(mem)
    <3>1. mem.wptr + 1 \in Index /\ mem.wptr + 1 > mem.wptr
      BY <2>0, <2>6, Constants DEF Recycles, Index
    <3> QED
      BY <2>0, <2>1, <2>6, <3>1 DEF LogInv, Synced, Ready
  <2> QED
    BY <2>5, <2>6
<1> QED
  BY <1>1, <1>2, <1>3, PTL DEF Spec

=============================================================================
