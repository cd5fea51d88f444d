----------------------------- MODULE StoreBuffer -----------------------------
(***************************************************************************)
(* The store buffer (store-buffer.{h,cc}): the old-space slots that may    *)
(* hold a pointer to new space.  The write barrier appends slots to a      *)
(* small new buffer; Compact moves them, less the duplicates two lossy     *)
(* hash sets recognize, to the old buffer.  When that is too full, the     *)
(* entries of whole pages are dropped and the pages flagged                *)
(* scan-on-scavenge.  A collection visits every slot it is told of, by     *)
(* entry or by page, and rebuilds the buffer from the pointers to new      *)
(* space that survive.                                                     *)
(*                                                                         *)
(* The JavaScript thread does all of this, so an action is one call from   *)
(* the mutator or one slot or page that a collection visits.               *)
(***************************************************************************)
EXTENDS Integers, SequencesExt

CONSTANTS
    Slot,            \* pointer fields in old space, by address
    Page, PageOf,    \* MemoryChunks, and the chunk of each slot
    Freeable,        \* the chunks a collection may find empty
    None,
    Bucket, Hash1, Hash2,  \* the filtering hash sets and their functions
    BufferSize,      \* kStoreBufferLength: entries in the new buffer
    InitialLimit, Doublings, \* the old buffer's size at first, and its growth
    CheckedSpace,    \* what CheckForFullBuffer asks for
    PromotedSpace,   \* what the rebuilder asks for outside the pages
    Share,           \* the share of the free entries one page may take
    Samples          \* EnsureSpace's table: a step and a threshold

Doubled[k \in 0 .. Doublings] == IF k = 0 THEN InitialLimit ELSE 2 * Doubled[k - 1]
Limits == {Doubled[k] : k \in 0 .. Doublings}
OldSize == Doubled[Doublings]

ASSUME SlotAssumption ==
    /\ Slot \subseteq Nat
    /\ PageOf \in [Slot -> Page]
    /\ Freeable \subseteq Page
    /\ Hash1 \in [Slot -> Bucket] /\ Hash2 \in [Slot -> Bucket]
    /\ None \notin Slot \cup Page
ASSUME SizeAssumption ==
    /\ BufferSize \in Nat \ {0} /\ InitialLimit \in Nat \ {0}
    /\ Doublings \in Nat /\ Share \in Nat \ {0}
    /\ BufferSize <= OldSize \div 2
    /\ CheckedSpace \in Nat \ {0} /\ PromotedSpace \in Nat \ {0}
    /\ Samples \in Seq([step : Nat \ {0}, threshold : Nat])
    /\ \E i \in DOMAIN Samples : Samples[i] = [step |-> 1, threshold |-> 0]

VARIABLES
    slot,        \* what a slot holds: "none" when no object is there
    new,         \* the new buffer
    sb,          \* the old buffer with its limit, flags and hash sets
    freed,       \* chunks given back to the system
    collector,   \* "scavenger", "compactor", or "none"
    pc,          \* where the JavaScript thread is
    todo,        \* entries that the iteration has not come to
    toScan,      \* pages that it has not come to
    page, start, \* current_page_, start_of_current_page_
    rest,        \* slots of the page that hold pointers to be updated
    promotions   \* slots of promoted objects in the promotion queue

gcVars == <<todo, toScan, page, start, rest, promotions>>
vars == <<slot, new, sb, freed, collector, pc, gcVars>>

Contents == {"none", "old", "new", "from"}
NoEntries == [b \in Bucket |-> None]
SlotsOn(p) == {s \in Slot : PageOf[s] = p}

-----------------------------------------------------------------------------
(* Operations on the old buffer. *)

(* The entries that are not on some pages, in their order. *)
EntriesOff(pages, q) ==
    LET entries[k \in 0 .. Len(q)] ==
            IF k = 0 THEN <<>>
            ELSE IF PageOf[q[k]] \in pages THEN entries[k - 1] ELSE Append(entries[k - 1], q[k])
    IN  entries[Len(q)]

(* Mutant: the hash sets survive, and vouch for entries that are gone. *)
BugFilter(b, pages) == [b EXCEPT !.old = EntriesOff(pages, @)]

Filter(b, pages) ==
    [b EXCEPT !.old = EntriesOff(pages, @),
              !.set1 = NoEntries, !.set2 = NoEntries]

FilterScanned(b) == IF b.scan = {} THEN b ELSE Filter(b, b.scan)

Sampled(b, p, step) ==
    {i \in DOMAIN b.old : (i - 1) % step = 0 /\ PageOf[b.old[i]] = p}

ExemptPopularPages(sample, b) ==
    LET popular == {p \in Page : Cardinality(Sampled(b, p, sample.step)) > sample.threshold}
    IN  [(IF popular = {} THEN b ELSE FilterScanned([b EXCEPT !.scan = @ \cup popular]))
            EXCEPT !.filtered = TRUE]

HalfFree(b) == b.limit - Len(b.old) > Len(b.old)

(* Pages are exempted, with the table read from its end, until the buffer    *)
(* is less than half full.                                                 *)
Exempt(sample, b) == IF HalfFree(b) THEN b ELSE ExemptPopularPages(sample, b)
ExemptAll(b) == FoldRight(Exempt, Samples, b)

(* Mutant: the buffer is used up to its last entry. *)
BugEnsureSpace(b, needed) == b

(* The limit doubles while that helps; then entries are filtered out. *)
EnsureSpace(b, needed) ==
    LET Enough(limit) == limit - Len(b.old) >= needed
        limits == {l \in Limits : l >= b.limit /\ (Enough(l) \/ l = OldSize)}
        grown == [b EXCEPT !.limit = Min(limits)]
    IN  IF Enough(grown.limit) \/ grown.filtered
        THEN grown
        ELSE ExemptAll(FilterScanned([grown EXCEPT !.filtered = TRUE]))

(* One entry of Compact's loop: the sets forget an old entry on a clash. *)
Move(b, s) ==
    LET in1 == b.set1[Hash1[s]]
        in2 == b.set2[Hash2[s]]
    IN  IF s \in {in1, in2} THEN b
        ELSE [b EXCEPT
                !.set1[Hash1[s]] = IF in1 = None \/ in2 # None THEN s ELSE @,
                !.set2[Hash2[s]] = IF in1 = None THEN @
                                   ELSE IF in2 = None THEN s ELSE None,
                !.old = Append(@, s),
                !.filtered = FALSE]

MoveAll(b, entries) == FoldLeft(Move, b, entries)

Compact(b, entries) ==
    IF entries = <<>> THEN b
    ELSE EnsureSpace(MoveAll(EnsureSpace(b, Len(entries)), entries), CheckedSpace)

ClearHashSets(b) == [b EXCEPT !.set1 = NoEntries, !.set2 = NoEntries]

(* Mark: the entry that fills the new buffer compacts it. *)
Mark(s) ==
    LET entries == Append(new, s)
    IN  IF Len(entries) = BufferSize
        THEN new' = <<>> /\ sb' = Compact(sb, entries)
        ELSE new' = entries /\ UNCHANGED sb

-----------------------------------------------------------------------------
(* The mutator. *)

Init ==
    /\ slot \in [Slot -> {"none", "old"}]
    /\ new = <<>>
    /\ sb = [old |-> <<>>, limit |-> InitialLimit, filtered |-> FALSE,
             set1 |-> NoEntries, set2 |-> NoEntries, scan |-> {}]
    /\ freed = {}
    /\ collector = "none"
    /\ pc = "mutator"
    /\ todo = <<>> /\ toScan = {}
    /\ page = None /\ start = 0 /\ rest = {}
    /\ promotions = {}

(* Generated code stores a pointer: RecordWriteStub records one to new      *)
(* space, unless the page will be scanned anyway.                          *)
Store(s) ==
    /\ pc = "mutator"
    /\ slot[s] # "none"
    /\ \E value \in {"old", "new"} :
           /\ slot' = [slot EXCEPT ![s] = value]
           /\ IF value = "new" /\ PageOf[s] \notin sb.scan
              THEN Mark(s)
              ELSE UNCHANGED <<new, sb>>
    /\ UNCHANGED <<freed, collector, pc, gcVars>>

(* Heap::RecordWrite, the runtime's barrier, looks at neither. *)
RecordWrite(s) ==
    /\ pc = "mutator"
    /\ slot[s] # "none"
    /\ \E value \in {"old", "new"} : slot' = [slot EXCEPT ![s] = value]
    /\ Mark(s)
    /\ UNCHANGED <<freed, collector, pc, gcVars>>

(* Mutant: entries for the chunk remain in the new buffer. *)
BugForget(p) ==
    /\ new' = new
    /\ sb' = [Filter(sb, {p}) EXCEPT !.scan = @ \ {p}]

Forget(p) ==
    /\ new' = <<>>
    /\ sb' = [Filter(Compact(sb, new), {p}) EXCEPT !.scan = @ \ {p}]

(* FreeQueuedChunks, from the sweeper: all objects on the chunk are dead. *)
FreeQueuedChunk(p) ==
    /\ pc \in {"mutator", "evacuating"}
    /\ p \in Freeable \ freed
    /\ Forget(p)
    /\ freed' = freed \cup {p}
    /\ slot' = [s \in Slot |-> IF PageOf[s] = p THEN "none" ELSE slot[s]]
    /\ UNCHANGED <<collector, pc, gcVars>>

(* MemoryChunk::Initialize: a chunk at that address again, and objects. *)
AllocateChunk(p) ==
    /\ pc = "mutator"
    /\ p \in freed
    /\ freed' = freed \ {p}
    /\ slot' = [s \in Slot |-> IF PageOf[s] = p THEN "old" ELSE slot[s]]
    /\ UNCHANGED <<new, sb, collector, pc, gcVars>>

-----------------------------------------------------------------------------
(* A collection. *)

(* GarbageCollectionPrologue; what was in new space is in from-space now. *)
BeginCollection ==
    /\ pc = "mutator"
    /\ \/ collector' = "scavenger" /\ pc' = "roots"
       \/ collector' = "compactor" /\ pc' = "evacuating"
    /\ slot' = [s \in Slot |-> IF slot[s] = "new" THEN "from" ELSE slot[s]]
    /\ sb' = ClearHashSets(sb)
    /\ UNCHANGED <<new, freed, gcVars>>

Room == {s \in Slot : slot[s] = "none" /\ PageOf[s] \notin freed}

(* MigrateObject: the compactor moves an object to old space.  A pointer to *)
(* new space it takes along is in a new slot.                              *)
Evacuate(s) ==
    /\ pc = "evacuating"
    /\ s \in Room
    /\ slot' = [slot EXCEPT ![s] = "from"]
    /\ Mark(s)
    /\ UNCHANGED <<freed, collector, pc, gcVars>>

(* An object reached from a root or from to-space is promoted, and takes a  *)
(* pointer to from-space along.                                            *)
Promote(s) ==
    /\ pc = "roots" \/ (pc = "promoted" /\ collector = "scavenger" /\ promotions = {})
    /\ s \in Room
    /\ slot' = [slot EXCEPT ![s] = "from"]
    /\ promotions' = promotions \cup {s}
    /\ UNCHANGED <<new, sb, freed, collector, pc, todo, toScan, page, start, rest>>

(* Mutant: entries on flagged pages are visited beside the pages. *)
BugPrepared(b) == ClearHashSets(Compact(b, new))

Prepared(b) == ClearHashSets(FilterScanned(Compact(b, new)))

(* PrepareForIteration; then the old buffer is read and rebuilt. *)
PrepareForIteration ==
    /\ pc \in {"roots", "evacuating"}
    /\ todo' = Prepared(sb).old
    /\ sb' = [Prepared(sb) EXCEPT !.old = <<>>]
    /\ new' = <<>>
    /\ toScan' = Page \ freed
    /\ pc' = "entries"
    /\ UNCHANGED <<slot, freed, collector, page, start, rest, promotions>>

(* The slot callbacks.  ScavengeObject copies the object or promotes it,    *)
(* with or without a pointer to from-space; it may have done so already.   *)
(* UpdatePointer takes the new address, or zaps a pointer to a dead object. *)
Update(s, queue) ==
    \/ /\ slot' \in {[slot EXCEPT ![s] = "new"], [slot EXCEPT ![s] = "old"]}
       /\ promotions' = queue
    \/ /\ collector = "scavenger"
       /\ \E t \in Room :
              /\ slot' = [slot EXCEPT ![s] = "old", ![t] = "from"]
              /\ promotions' = queue \cup {t}

WipePage(b) == [b EXCEPT !.scan = @ \cup {page}, !.old = SubSeq(@, 1, start)]

(* EnterDirectlyIntoStoreBuffer, and kStoreBufferFullEvent. *)
Enter(b, s) ==
    LET c == [b EXCEPT !.old = Append(@, s), !.filtered = FALSE]
    IN  IF Len(c.old) < c.limit THEN c
        ELSE IF page = None THEN EnsureSpace(c, PromotedSpace)
        ELSE WipePage(c)

(* A surviving pointer to new space goes back into the buffer. *)
Reentered(s) == IF slot'[s] = "new" THEN Enter(sb, s) ELSE sb

VisitEntry ==
    /\ pc = "entries"
    /\ todo # <<>>
    /\ IF slot[Head(todo)] = "from"
       THEN Update(Head(todo), promotions) /\ sb' = Reentered(Head(todo))
       ELSE UNCHANGED <<slot, sb, promotions>>
    /\ todo' = Tail(todo)
    /\ UNCHANGED <<new, freed, collector, pc, toScan, page, start, rest>>

(* kStoreBufferScanningPageEvent, of the page before: the page is flagged   *)
(* again when it overflowed or took too large a share.                     *)
FinishPage(b) ==
    IF page # None /\ (\/ page \in b.scan
                       \/ Len(b.old) - start >= (b.limit - Len(b.old)) \div Share)
    THEN WipePage(b)
    ELSE b

ScanPage(p) ==
    /\ pc = "entries" /\ todo = <<>> /\ rest = {}
    /\ p \in toScan \cap sb.scan
    /\ sb' = [FinishPage(sb) EXCEPT !.scan = @ \ {p}]
    /\ start' = Len(FinishPage(sb).old)
    /\ page' = p
    /\ toScan' = toScan \ {p}
    /\ rest' = {s \in SlotsOn(p) : slot[s] \in {"from", "new"}}
    /\ UNCHANGED <<slot, new, freed, collector, pc, todo, promotions>>

(* FindPointersToNewSpaceInRegion.  An object promoted to the page further  *)
(* on may or may not be visited.                                           *)
VisitSlot(s) ==
    /\ rest # {} /\ s = Min(rest)
    /\ Update(s, promotions)
    /\ sb' = Reentered(s)
    /\ LET later == {t \in promotions' \ promotions : PageOf[t] = page /\ t > s}
       IN  rest' \in {rest \ {s}, (rest \cup later) \ {s}}
    /\ UNCHANGED <<new, freed, collector, pc, todo, toScan, page, start>>

(* The end of the iteration, and of its StoreBufferRebuildScope. *)
EndIteration ==
    /\ pc = "entries" /\ todo = <<>> /\ rest = {}
    /\ toScan \cap sb.scan = {}
    /\ sb' = EnsureSpace(FinishPage(sb), CheckedSpace)
    /\ page' = None /\ start' = 0 /\ toScan' = {}
    /\ pc' = "promoted"
    /\ UNCHANGED <<slot, new, freed, collector, todo, rest, promotions>>

(* DoScavenge takes a slot of a promoted object; scanning may have met it.  *)
(* The scope ends with the queue.                                          *)
VisitPromoted(s) ==
    /\ pc = "promoted"
    /\ s \in promotions
    /\ IF slot[s] = "from"
       THEN Update(s, promotions \ {s})
       ELSE promotions' = promotions \ {s} /\ UNCHANGED slot
    /\ LET b == IF slot[s] = "from" THEN Reentered(s) ELSE sb
       IN  sb' = IF promotions' = {} THEN EnsureSpace(b, CheckedSpace) ELSE b
    /\ UNCHANGED <<new, freed, collector, pc, todo, toScan, page, start, rest>>

EndCollection ==
    /\ pc = "promoted"
    /\ promotions = {}
    /\ collector' = "none"
    /\ pc' = "mutator"
    /\ UNCHANGED <<slot, new, sb, freed, gcVars>>

Next ==
    \/ \E s \in Slot : Store(s) \/ RecordWrite(s) \/ Evacuate(s) \/ Promote(s)
                       \/ VisitSlot(s) \/ VisitPromoted(s)
    \/ \E p \in Page : FreeQueuedChunk(p) \/ AllocateChunk(p) \/ ScanPage(p)
    \/ BeginCollection \/ PrepareForIteration \/ VisitEntry
    \/ EndIteration \/ EndCollection

Spec == Init /\ [][Next]_vars

-----------------------------------------------------------------------------
(* Neither buffer is ever filled beyond its limit: entries are written      *)
(* without a check, Compact and the rebuilder having made the space.       *)
TypeOK ==
    /\ slot \in [Slot -> Contents]
    /\ new \in Seq(Slot) /\ Len(new) < BufferSize
    /\ sb.old \in Seq(Slot) /\ Len(sb.old) <= sb.limit
    /\ sb.limit \in Limits /\ sb.filtered \in BOOLEAN
    /\ sb.set1 \in [Bucket -> Slot \cup {None}]
    /\ sb.set2 \in [Bucket -> Slot \cup {None}]
    /\ sb.scan \subseteq Page \ freed
    /\ freed \subseteq Freeable
    /\ collector \in {"none", "scavenger", "compactor"}
    /\ pc \in {"mutator", "roots", "evacuating", "entries", "promoted"}
    /\ todo \in Seq(Slot)
    /\ toScan \subseteq Page
    /\ page \in Page \cup {None} /\ start \in Nat
    /\ rest \subseteq Slot /\ promotions \subseteq Slot

Entries == Range(sb.old) \cup Range(new)

(* While JavaScript runs, every old-space slot with a pointer to new space  *)
(* is in a buffer or on a page that will be scanned, and no slot was left   *)
(* behind with a pointer into from-space.                                  *)
SlotsRemembered ==
    pc = "mutator" =>
        \A s \in Slot :
            /\ slot[s] # "from"
            /\ slot[s] = "new" => s \in Entries \/ PageOf[s] \in sb.scan

(* What the hash sets hold is in the old buffer (the comment on hash_set_1_)*)
(* and no entry of the old buffer is on a chunk given back to the system,   *)
(* which the next collection would read.                                   *)
NoStaleEntries ==
    /\ \A b \in Bucket : {sb.set1[b], sb.set2[b]} \subseteq Range(sb.old) \cup {None}
    /\ \A s \in Entries \cup Range(todo) : PageOf[s] \notin freed

(* A slot that a page scan has still to visit points into from-space: no    *)
(* object is scavenged twice (the assertion in ScavengeObject).            *)
ScannedOnce == \A s \in rest : slot[s] = "from"
=============================================================================
