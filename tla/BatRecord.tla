----------------------------- MODULE BatRecord -----------------------------
(* The exception log of the battery (app/bat_record.c), in the flash pages *)
(* LOG1, LOG2.  A record is appended by reading its page into RAM,          *)
(* erasing the page and programming it again word by word; a reset may fall *)
(* anywhere in between.  The window of exceptions lives in RAM that a warm  *)
(* reset keeps and a power loss does not.  One thread runs all of this, so  *)
(* a rewrite is one step and a reset during it picks what flash keeps.      *)
EXTENDS Integers, Sequences, FiniteSets

CONSTANTS PageCount,  \* LOG_PAGE_COUNT
          PageSize,   \* MAX_RECORDS_PER_PAGE
          PageSeqMod,     \* values of the 8-bit page sequence
          IdMod,      \* values of the 32-bit record_id
          Kinds,      \* the exception triggers of the cache, in the order they are flushed
          Window,     \* EXCEPTION_WINDOW_SECONDS, in clock steps
          OldLogs,    \* sizes of old-format logs the chip may come with
          Worn,       \* page sequences of logs in service the chip may come with
          MaxIssue,   \* bound: records written
          MaxResets   \* bound: resets

ASSUME PageCountAssumption == PageCount \in Nat \ {0}
ASSUME PageSizeAssumption == PageSize \in Nat \ {0}
ASSUME PageSeqModAssumption == PageSeqMod \in Nat \ {0, 1}
ASSUME IdModAssumption == IdMod \in Nat \ {0, 1}
ASSUME WindowAssumption == Window \in Nat \ {0}
\* The ids are 32 bits wide, more than any chip can write records.
ASSUME BoundsAssumption ==
    /\ MaxIssue \in Nat /\ MaxIssue + 1 < IdMod /\ MaxResets \in Nat
    /\ OldLogs \subseteq (0 .. MaxIssue) \cap (0 .. PageSize + 1)
    /\ Worn \subseteq 0 .. PageSeqMod - 1
    /\ Worn # {} => PageCount * PageSize <= MaxIssue

Page == 0 .. PageCount - 1
Kind == {Kinds[i] : i \in DOMAIN Kinds}
Count == 0 .. PageSize + 1          \* PageSize + 1: the count byte of erased flash
NoWindow == Window + 1              \* window_start_seconds is 0 or 0xFFFFFFFF

VARIABLES flash,    \* the log pages
          mem,      \* g_record_storage and g_next_record_id
          cache,    \* g_exception_cache: kinds triggered, age of the window
          pc,       \* "off", "sleep" (before battery_record_init), "boot", "run", "flush"
          todo,     \* pages the running call has still to rewrite, the lowest first
          pend,     \* process_window_end: kinds still to be written, in their order
          back,     \* where the flush returns to
          forbid,   \* bat_ov_forbid_flag
          issued,   \* history: records handed to save_record_to_flash
          resets,   \* bound
          kept,     \* history: records saved and neither recycled, erased nor torn
          owed,     \* history: kinds seen since their last saved record
          garbled   \* history: a scan took the id of an unwritten slot for a record's

vars == <<flash, mem, cache, pc, todo, pend, back, forbid,
          issued, resets, kept, owed, garbled>>
history == <<issued, kept, owed, garbled>>
Still == DOMAIN todo = {}    \* no page is being rewritten
----------------------------------------------------------------------------
(* Flash pages.  A slot holds a record <<serial, id>>; serial 0 stands for a *)
(* record of the old format, and a slot the writer did not reach is blank.   *)
Blank == [n |-> 0, id |-> IdMod - 1]
Old == [n |-> 0, id |-> 0]
Slots == [1 .. PageSize -> [n : 0 .. MaxIssue, id : 0 .. IdMod - 1]]
PageImage == [magic : {"erased", "V5", "V7"}, count : Count, seq : 0 .. PageSeqMod - 1,
              recs : Slots, sum : BOOLEAN]

NoRecs == [i \in 1 .. PageSize |-> Blank]
ZeroRecs == [i \in 1 .. PageSize |-> Old]
Erased == [magic |-> "erased", count |-> PageSize + 1, seq |-> PageSeqMod - 1,
           recs |-> NoRecs, sum |-> FALSE]
Empty == [magic |-> "V7", count |-> 0, seq |-> 0, recs |-> ZeroRecs, sum |-> TRUE]

\* What a reset may leave of a page that is being erased and programmed: the
\* magic comes first, then the header with the count, the records, the checksum.
Torn(old, img) ==
    {old, Erased, img, [Erased EXCEPT !.magic = img.magic]}
      \cup {[img EXCEPT !.sum = FALSE,
                        !.recs = [i \in 1 .. PageSize |-> IF i <= k THEN img.recs[i] ELSE Blank]]
            : k \in 0 .. PageSize}

Valid(p) == p.magic = "V7" /\ p.sum /\ p.count <= PageSize
Broken(p) == p.magic = "V7" /\ p.count > PageSize
Repaired(p) == IF Broken(p) THEN Empty ELSE p

Least(a, b) == IF a < b THEN a ELSE b
\* Forms a bug could take stand before the definition they replace.
\* battery_record_get_page_count looks at the magic only.
PageRecords(p) == IF p.magic = "V7" THEN Least(p.count, PageSize) ELSE 0
FlashTotal(f) == Cardinality({s \in Page \X (1 .. PageSize) : s[2] <= PageRecords(f[s[1]])})
MaxTotal == PageCount * PageSize

\* The records a reader gets that also passes the checksum.
Readable(f) == {f[p].recs[i].n : p \in {q \in Page : Valid(f[q])}, i \in 1 .. PageSize} \ {0}
OnPage(p) == {p.recs[i].n : i \in 1 .. PageSize} \ {0}
----------------------------------------------------------------------------
(* load_storage_from_flash: pages with a broken count are rewritten empty,  *)
(* the newest valid page by its wrapping sequence becomes the active one.   *)
Newer(a, b) == a > b \/ b - a > PageSeqMod \div 2
Better(f, best, p) == IF Valid(f[p]) /\ (best = PageCount \/ Newer(f[p].seq, f[best].seq))
                      THEN p ELSE best
\* The newest of the first so many pages, or PageCount when none of them is valid.
Newest(f) == CHOOSE best \in [0 .. PageCount -> 0 .. PageCount] :
                 best[0] = PageCount /\ \A p \in Page : best[p + 1] = Better(f, best[p], p)
NewestPage(f) == Newest(f)[PageCount]

Cleared == [magic |-> FALSE, active |-> 0, wptr |-> 0, seq |-> 0, nextId |-> 0]
Loaded(m, f) ==
    LET best == NewestPage(f)
    IN  IF best = PageCount THEN m
        ELSE [m EXCEPT !.magic = TRUE, !.active = best,
                       !.wptr = f[best].count, !.seq = f[best].seq]

\* The scan for the highest record_id believes every page with the magic.
ScannedIds(f) == UNION {{f[p].recs[i].id : i \in 1 .. PageRecords(f[p])} : p \in Page}
MaxId(S) == CHOOSE x \in S \cup {0} : \A y \in S : y <= x
RestoredIdLast(f) == IF MaxId(ScannedIds(f)) > 0 THEN MaxId(ScannedIds(f)) ELSE 1
RestoredId(f) == IF MaxId(ScannedIds(f)) > 0 THEN (MaxId(ScannedIds(f)) + 1) % IdMod ELSE 1
Garbles(f) == IdMod - 1 \in ScannedIds(f)

NoJobs == [p \in {} |-> Empty]
RepairJobs(f) == [p \in {q \in Page : Broken(f[q])} |-> Empty]
AllEmpty == [p \in Page |-> Empty]
----------------------------------------------------------------------------
Init ==
    /\ \/ flash = [p \in Page |-> Erased] /\ issued = 0
       \/ \E c \in OldLogs :
             /\ issued = c
             /\ flash = [p \in Page |-> IF p = 0 THEN [Empty EXCEPT !.magic = "V5", !.count = c]
                                        ELSE Erased]
       \/ \E s \in Worn :             \* every page full, the last one the newest
             /\ issued = MaxTotal
             /\ flash = [p \in Page |->
                          [Empty EXCEPT !.count = PageSize,
                                        !.seq = (s + p) % PageSeqMod,
                                        !.recs = [i \in 1 .. PageSize |->
                                                    [n |-> p * PageSize + i, id |-> p * PageSize + i]]]]
    /\ kept = Readable(flash)
    /\ mem = Cleared
    /\ cache = [trig |-> {}, age |-> NoWindow]
    /\ pc = "off" /\ todo = NoJobs /\ pend = {} /\ back = "run"
    /\ forbid = FALSE
    /\ resets = 0 /\ owed = {} /\ garbled = FALSE

----------------------------------------------------------------------------
(* Boot *)
Migrated(p) == [Empty EXCEPT !.count = Least(p.count, PageSize)]
ForgetsWindow(c) == [trig |-> {}, age |-> NoWindow]
KeepsWindow(c) == IF c.age = NoWindow THEN [trig |-> {}, age |-> NoWindow] ELSE c

battery_record_init ==
    LET fixed == [p \in Page |-> Repaired(flash[p])]
        hasNew == \E p \in Page : flash[p].magic = "V7"
        fresh == [Cleared EXCEPT !.magic = TRUE, !.nextId = 1]
    IN  /\ pc \in {"off", "sleep"} /\ Still
        /\ \/ /\ hasNew                                       \* load
              /\ mem' = [Loaded(Cleared, fixed) EXCEPT !.nextId = RestoredId(fixed)]
              /\ todo' = RepairJobs(flash)
              /\ garbled' = (garbled \/ Garbles(fixed))
           \/ /\ ~hasNew /\ flash[0].magic = "V5"             \* migrate_old_format
              /\ mem' = [fresh EXCEPT !.wptr = Least(flash[0].count, PageSize)]
              /\ todo' = [AllEmpty EXCEPT ![0] = Migrated(flash[0])]
              /\ UNCHANGED garbled
           \/ /\ ~hasNew /\ flash[0].magic # "V5"             \* fresh
              /\ mem' = fresh
              /\ todo' = AllEmpty
              /\ UNCHANGED garbled
        /\ cache' = KeepsWindow(cache)
        /\ pc' = "boot"
        /\ UNCHANGED <<flash, pend, back, forbid, issued, resets, kept, owed>>

Booted ==
    /\ pc = "boot" /\ Still
    /\ pc' = "run"
    /\ UNCHANGED <<flash, mem, cache, todo, pend, back, forbid, resets, history>>

\* A wake from sleep runs the check before battery_record_init, with cleared RAM.
WakeAsleep ==
    /\ pc = "off"
    /\ pc' = "sleep"
    /\ UNCHANGED <<flash, mem, cache, todo, pend, back, forbid, resets, history>>
----------------------------------------------------------------------------
(* Detection and the window *)
Tick ==
    /\ pc \in {"run", "sleep"} /\ cache.age < Window
    /\ cache' = [cache EXCEPT !.age = @ + 1]
    /\ UNCHANGED <<flash, mem, pc, todo, pend, back, forbid, resets, history>>

Opened(c) == IF c.age = NoWindow THEN [trig |-> {}, age |-> 0] ELSE c
Seen(c, K) == [c EXCEPT !.trig = @ \cup K]
\* The kind of K that comes first.
Foremost(K) == {Kinds[i] : i \in {j \in DOMAIN Kinds : /\ Kinds[j] \in K
                                                       /\ \A h \in 1 .. j - 1 : Kinds[h] \notin K}}

\* What one check may find abnormal: the temperature counts for one direction only.
Readings == {K \in SUBSET Kind : ~({"temp_chg", "temp_dchg"} \subseteq K)}

\* battery_record_periodic_check: K is abnormal now; eng is an injected reading.
periodic_check(K, eng) ==
    LET c == Seen(Opened(cache), K)
        flush == (eng /\ c.trig # {}) \/ c.age = Window
    IN  /\ pc = "run" /\ Still
        /\ cache' = c /\ owed' = owed \cup K
        /\ pend' = IF flush THEN c.trig ELSE {}
        /\ pc' = IF flush THEN "flush" ELSE "run"
        /\ back' = "run"
        /\ UNCHANGED <<flash, mem, todo, forbid, issued, resets, kept, garbled>>

\* battery_record_sleep_check: RAM is restored from flash before the first record.
sleep_check(K) ==
    LET c == Seen(Opened(cache), K)
        fixed == [p \in Page |-> Repaired(flash[p])]
        load == c.age = Window /\ c.trig # {} /\ ~mem.magic
        scan == c.age = Window /\ c.trig # {} /\ mem.nextId = 0
        seen == IF load THEN fixed ELSE flash
        m == IF load THEN Loaded(mem, fixed) ELSE mem
    IN  /\ pc = "sleep" /\ Still
        /\ cache' = c /\ owed' = owed \cup K
        /\ mem' = IF scan THEN [m EXCEPT !.nextId = RestoredId(seen)] ELSE m
        /\ garbled' = (garbled \/ (scan /\ Garbles(seen)))
        /\ todo' = IF load THEN RepairJobs(flash) ELSE NoJobs
        /\ pend' = IF c.age = Window THEN c.trig ELSE {}
        /\ pc' = IF c.age = Window THEN "flush" ELSE "sleep"
        /\ back' = "sleep"
        /\ UNCHANGED <<flash, forbid, issued, resets, kept>>
----------------------------------------------------------------------------
(* Writing *)
\* switch_active_page, when the active page is full
SwitchedSameSeq(m) == [m EXCEPT !.active = (@ + 1) % PageCount, !.wptr = 0]
Switched(m) == [m EXCEPT !.active = (@ + 1) % PageCount, !.seq = (@ + 1) % PageSeqMod, !.wptr = 0]
Target(m) == IF m.wptr >= PageSize THEN Switched(m) ELSE m
Recycles(m) == m.wptr >= PageSize

ImageFresh(p, m, r) ==
    [Empty EXCEPT !.seq = m.seq, !.count = m.wptr + 1, !.recs[m.wptr + 1] = r]
\* save_record_to_flash: the image of the page with the record in its slot
Image(p, m, r) ==
    LET base == IF p.magic = "V7" THEN p ELSE Empty
    IN  [base EXCEPT !.magic = "V7", !.seq = m.seq, !.sum = TRUE,
                     !.count = IF m.wptr >= @ THEN m.wptr + 1 ELSE @,
                     !.recs[m.wptr + 1] = r]

\* write_exception_record up to the rewrite of the page
write_exception_record ==
    LET m == Target(mem)
        was == IF Recycles(mem) THEN Erased ELSE flash[m.active]
        r == [n |-> issued + 1, id |-> m.nextId]
    IN  /\ pc = "flush" /\ Still /\ pend # {} /\ issued < MaxIssue
        /\ todo' = [p \in {m.active} |-> Image(was, m, r)]
        /\ mem' = [m EXCEPT !.wptr = @ + 1, !.nextId = (@ + 1) % IdMod]
        /\ issued' = issued + 1
        /\ kept' = IF Recycles(mem) THEN kept \ OnPage(flash[m.active]) ELSE kept
        /\ UNCHANGED <<flash, cache, pc, pend, back, forbid, resets, owed, garbled>>

Saves(img) == pc = "flush" /\ issued \in OnPage(img)
Rewriting(p) == p \in DOMAIN todo /\ \A q \in DOMAIN todo : p <= q
\* The rewrite of one page completes; after a record the log may be full.
Program(p) ==
    LET f == [flash EXCEPT ![p] = todo[p]]
    IN  /\ Rewriting(p)
        /\ flash' = f /\ todo' = [q \in DOMAIN todo \ {p} |-> todo[q]]
        /\ IF Saves(todo[p])
           THEN /\ kept' = kept \cup {issued}
                /\ owed' = owed \ Foremost(pend) /\ pend' = pend \ Foremost(pend)
                /\ forbid' = (forbid \/ FlashTotal(f) >= MaxTotal)
           ELSE UNCHANGED <<kept, owed, pend, forbid>>
        /\ UNCHANGED <<mem, cache, pc, back, issued, resets, garbled>>

\* process_window_end clears the triggers last; an expired window starts again.
Restarted(c) == [trig |-> {}, age |-> IF c.age = Window THEN 0 ELSE c.age]
window_done ==
    /\ pc = "flush" /\ Still /\ pend = {}
    /\ cache' = Restarted(cache)
    /\ pc' = back
    /\ UNCHANGED <<flash, mem, todo, pend, back, forbid, resets, history>>

\* battery_record_erase_all, from usb_bridge_check_eng_cmd
erase_all ==
    /\ pc = "run" /\ Still
    /\ todo' = AllEmpty
    /\ mem' = [Cleared EXCEPT !.magic = TRUE, !.nextId = 1]
    /\ cache' = [trig |-> {}, age |-> NoWindow]
    /\ kept' = {} /\ owed' = {}
    /\ pc' = "boot"
    /\ UNCHANGED <<flash, pend, back, forbid, issued, resets, garbled>>
----------------------------------------------------------------------------
\* key_quad_click_process clears the forbid flag
key_clear ==
    /\ forbid /\ pc = "run"
    /\ forbid' = FALSE
    /\ UNCHANGED <<flash, mem, cache, pc, todo, pend, back, resets, history>>
----------------------------------------------------------------------------
(* A reset at any moment.  A warm one (watchdog, wake) keeps the window and  *)
(* the flag; a loss of power keeps neither: the boot clears the flag.        *)
Interrupted ==
    \/ Still /\ UNCHANGED <<flash, kept>>
    \/ \E p \in Page : /\ Rewriting(p)
                       /\ \E left \in Torn(flash[p], todo[p]) : flash' = [flash EXCEPT ![p] = left]
                       /\ kept' = IF Saves(todo[p]) THEN kept \ (OnPage(flash[p]) \ Readable(flash'))
                                  ELSE kept
Reset(warm) ==
    /\ resets < MaxResets /\ pc # "off"
    /\ resets' = resets + 1
    /\ Interrupted
    /\ IF warm THEN UNCHANGED <<cache, forbid, owed>>
       ELSE cache' = [trig |-> {}, age |-> NoWindow] /\ forbid' = FALSE /\ owed' = {}
    /\ mem' = Cleared /\ todo' = NoJobs /\ pend' = {}
    /\ pc' = "off" /\ back' = "run"
    /\ UNCHANGED <<issued, garbled>>

Next ==
    \/ battery_record_init
    \/ Booted
    \/ WakeAsleep
    \/ Tick
    \/ \E K \in Readings, eng \in BOOLEAN : periodic_check(K, eng)
    \/ \E K \in Readings : sleep_check(K)
    \/ write_exception_record
    \/ \E p \in Page : Program(p)
    \/ window_done
    \/ erase_all
    \/ key_clear
    \/ \E warm \in BOOLEAN : Reset(warm)

Spec == Init /\ [][Next]_vars

----------------------------------------------------------------------------
(* Pages, RAM and cache keep their layout: RAM never points past the page. *)
TypeOK ==
    /\ flash \in [Page -> PageImage]
    /\ mem \in [magic : BOOLEAN, active : Page, wptr : 0 .. PageSize, seq : 0 .. PageSeqMod - 1,
                nextId : 0 .. IdMod - 1]
    /\ cache \in [trig : SUBSET Kind, age : 0 .. NoWindow]
    /\ pc \in {"off", "sleep", "boot", "run", "flush"} /\ back \in {"run", "sleep"}
    /\ DOMAIN todo \subseteq Page /\ todo \in [DOMAIN todo -> PageImage] /\ pend \subseteq Kind
    /\ forbid \in BOOLEAN
    /\ issued \in 0 .. MaxIssue /\ resets \in 0 .. MaxResets
    /\ kept \subseteq 1 .. MaxIssue
    /\ owed \subseteq Kind /\ garbled \in BOOLEAN

(* A record that was saved stays readable with its page's checksum until its *)
(* page is recycled, the log is erased, or a reset falls into the rewrite of *)
(* that very page: recovery never writes over or repairs away another one.   *)
RecordsKept == kept \subseteq Readable(flash)

(* What the log recycles is its oldest part: after recovery, repair and the   *)
(* wrap of the sequence, the slot the next record goes to holds no record, or *)
(* its page holds only records older than every other one.  (Pages across the *)
(* wrap itself are taken in the wrong order: the code gets diff < -128 wrong.) *)
Unwrapped == \A p, q \in Page : Valid(flash[p]) /\ Valid(flash[q]) =>
                                   flash[p].seq - flash[q].seq <= PageSeqMod \div 2
RecyclesOldest ==
    pc = "run" /\ Still /\ kept # {} /\ Unwrapped =>
      IF Recycles(mem)
      THEN \A n \in kept \cap OnPage(flash[Target(mem).active]) :
             \A o \in kept \ OnPage(flash[Target(mem).active]) : n < o
      ELSE flash[mem.active].recs[mem.wptr + 1].n \notin kept

(* An exception that was seen is in the window's cache until a record of it  *)
(* is saved: a warm reset in the middle of the flush loses none.             *)
EventsKept == owed \subseteq cache.trig

(* The permanent forbid is set by the log only when as many records were     *)
(* written as it holds.                                                      *)
ForbidEarned == forbid => issued >= MaxTotal

(* Record ids grow with the records, as long as no scan met an unwritten slot. *)
IdsGrow ==
    ~garbled => \A p, q \in Page : \A i, j \in 1 .. PageSize :
        LET a == flash[p].recs[i]
            b == flash[q].recs[j]
        IN  a.n \in kept /\ b.n \in kept /\ a.n < b.n => a.id < b.id

(* What the log has saved survives every reset, repair and recovery, and its *)
(* ids grow with it.                                                         *)
LogGrows == RecordsKept /\ IdsGrow

(* An exception is neither lost before it is saved nor counted before it is.   *)
EventsCount == EventsKept /\ ForbidEarned
============================================================================
