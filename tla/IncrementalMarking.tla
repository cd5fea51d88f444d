-------------------------- MODULE IncrementalMarking --------------------------
(***************************************************************************)
(* The incremental marker (incremental-marking.{h,cc}) with its marking    *)
(* deque (mark-compact.h), as the mutator, the scavenger and the final     *)
(* mark-compact collection meet it.  Marking goes on in steps between      *)
(* which JavaScript allocates, writes and drops references; a write        *)
(* barrier keeps black objects from pointing to white ones.  A large array *)
(* is scanned in chunks behind a progress bar.  When the deque is full,    *)
(* objects just stay grey for the final collection to find.                *)
(*                                                                         *)
(* Compaction slots, weak references and the caches that are marked        *)
(* without being queued are left out; sweeping is part of the collection.  *)
(***************************************************************************)
EXTENDS Integers, SequencesExt

CONSTANTS
    Obj,             \* heap objects
    Large,           \* fixed arrays in large object space, never empty
    Cell,            \* JSGlobalPropertyCells, written without a barrier
    Size,            \* the number of pointer fields of an object
    None,            \* a field that holds no heap object
    Filler,          \* a one-word filler, where an array used to start
    Chunk,           \* kProgressBarScanningChunk, in fields
    Capacity         \* entries of the marking deque

ASSUME ObjectAssumption ==
    /\ Large \subseteq Obj /\ Cell \subseteq Obj /\ Large \cap Cell = {}
    /\ Size \in [Obj -> Nat]
    /\ {None, Filler} \cap Obj = {} /\ None # Filler
    /\ IsFiniteSet(Obj) /\ \A o \in Large : Size[o] > 0
ASSUME DequeAssumption == Chunk \in Nat \ {0} /\ Capacity \in Nat \ {0}

VARIABLES
    alive,       \* objects that have been allocated and not been freed
    young,       \* those in new space
    roots,       \* those that a handle or the stack refers to
    field,       \* the fields of each object
    state,       \* state_: "stopped", "sweeping", "marking", "complete"
    m,           \* colors, marking deque with its flag, progress bars
    gc           \* the collection: "none", "hurry", "mark"

heapVars == <<alive, young, roots, field>>
vars == <<heapVars, state, m, gc>>

NoFields(o) == [i \in 1 .. Size[o] |-> None]
Clean == [color |-> [o \in Obj |-> "white"], deque |-> <<>>,
          overflowed |-> FALSE, bar |-> [o \in Obj |-> 0]]

Init ==
    /\ alive = {} /\ young = {} /\ roots = {}
    /\ field = [o \in Obj |-> NoFields(o)]
    /\ state = "stopped"
    /\ m = Clean
    /\ gc = "none"

IsMarking == state \in {"marking", "complete"}
Restarted == IF state = "complete" THEN "marking" ELSE state

-----------------------------------------------------------------------------
(* The marking deque. *)

(* Mutant: the deque is written without looking whether it is full. *)
BugIsFull(n) == FALSE
IsFull(n) == Len(n.deque) = Capacity

PushGrey(n, o) ==
    IF IsFull(n) THEN [n EXCEPT !.overflowed = TRUE]
    ELSE [n EXCEPT !.deque = Append(@, o)]
UnshiftGrey(n, o) ==
    IF IsFull(n) THEN [n EXCEPT !.overflowed = TRUE]
    ELSE [n EXCEPT !.deque = <<o>> \o @]

WhiteToGreyAndPush(n, o) == PushGrey([n EXCEPT !.color[o] = "grey"], o)
BlackToGreyAndUnshift(n, o) == UnshiftGrey([n EXCEPT !.color[o] = "grey"], o)

(* MarkObject, for what a field or a root holds. *)
MarkObject(n, value) ==
    IF value # None /\ n.color[value] = "white" THEN WhiteToGreyAndPush(n, value) ELSE n

MarkObjects(n, values) == FoldLeft(MarkObject, n, values)
Scan(n, o, from, to) == MarkObjects(n, SubSeq(field[o], from, to))

(* VisitFixedArrayIncremental: chunks, until the array can be queued again  *)
(* behind everything else or has been scanned to its end.                  *)
VisitLarge(n, o) ==
    LET ends == {Min({Size[o], n.bar[o] + k * Chunk}) : k \in 1 .. Size[o]}
        Upto(end) == Scan(n, o, n.bar[o] + 1, end)
        end == Min({e \in ends : e = Size[o] \/ ~IsFull(Upto(e))})
        scanned == [Upto(end) EXCEPT !.bar[o] = end]
    IN  IF end < Size[o] THEN UnshiftGrey(scanned, o) ELSE scanned

VisitObject(n, o) ==
    [(IF o \in Large THEN VisitLarge(n, o) ELSE Scan(n, o, 1, Size[o]))
        EXCEPT !.color[o] = "black"]

(* One object of ProcessMarkingDeque. *)
Popped(n) ==
    LET rest == [n EXCEPT !.deque = Front(@)]
    IN  IF Last(n.deque) = Filler THEN rest ELSE VisitObject(rest, Last(n.deque))

-----------------------------------------------------------------------------
(* The mutator. *)

(* A new object is white: its space is swept, or new. *)
Allocate(o) ==
    /\ gc = "none"
    /\ o \notin alive
    /\ alive' = alive \cup {o}
    /\ young' = IF o \in Large \cup Cell THEN young ELSE young \cup {o}
    /\ roots' = roots \cup {o}
    /\ UNCHANGED <<field, state, m, gc>>

(* A handle is dropped, or made from a field. *)
ChangeRoots ==
    /\ gc = "none"
    /\ \/ \E o \in roots : roots' = roots \ {o}
       \/ \E o \in roots : \E i \in 1 .. Size[o] :
              field[o][i] # None /\ roots' = roots \cup {field[o][i]}
    /\ UNCHANGED <<alive, young, field, state, m, gc>>

(* Mutant: a slot that the bar has just passed counts as not yet scanned. *)
BugIsLeftOfProgressBar(o, i) == i < m.bar[o]
IsLeftOfProgressBar(o, i) == i <= m.bar[o]

(* A store with its barrier, BaseRecordWrite: a white value stored in a     *)
(* black object is marked, or the object is scanned once more.             *)
Write(o, i, value) ==
    /\ gc = "none"
    /\ o \in roots /\ value \in roots \cup {None}
    /\ field' = [field EXCEPT ![o][i] = value]
    /\ IF /\ o \notin Cell /\ IsMarking
          /\ value # None /\ m.color[o] = "black"
          /\ o \in Large => IsLeftOfProgressBar(o, i)
       THEN IF m.color[value] # "white" THEN UNCHANGED <<m, state>>
            ELSE /\ m' = IF o \in Large THEN WhiteToGreyAndPush(m, value)
                         ELSE BlackToGreyAndUnshift(m, o)
                 /\ state' = Restarted
       ELSE UNCHANGED <<m, state>>
    /\ UNCHANGED <<alive, young, roots, gc>>

(* MoveElements, CopyElements: many fields change, then RecordWrites has    *)
(* the object scanned again from its beginning.                            *)
MoveElements(o, from, shift) ==
    /\ gc = "none"
    /\ o \in roots \ Cell /\ from \in roots
    /\ field' = [field EXCEPT ![o] = [i \in DOMAIN @ |->
                     IF i + shift \in DOMAIN field[from] THEN field[from][i + shift] ELSE @[i]]]
    /\ IF IsMarking /\ m.color[o] = "black"
       THEN /\ m' = BlackToGreyAndUnshift([m EXCEPT !.bar[o] = 0], o)
            /\ state' = Restarted
       ELSE UNCHANGED <<m, state>>
    /\ UNCHANGED <<alive, young, roots, gc>>

(* Mutant: the array is taken to be queued, as it was before. *)
BugTransferMark(n, o) == n

(* Marking::TransferMark: a grey array is queued at its new start. *)
TransferMark(n, o) == IF n.color[o] = "grey" THEN PushGrey(n, o) ELSE n

(* LeftTrimFixedArray leaves a filler where the array began. *)
LeftTrim(o) ==
    /\ gc = "none"
    /\ o \in roots \ (Large \cup Cell)
    /\ LET moved == [m EXCEPT !.deque = [i \in DOMAIN @ |-> IF @[i] = o THEN Filler ELSE @[i]]]
       IN  m' = TransferMark(moved, o)
    /\ state' = IF m.color[o] = "grey" THEN Restarted ELSE state
    /\ UNCHANGED <<heapVars, gc>>

-----------------------------------------------------------------------------
(* The marker. *)

(* Start waits for the sweeper when it has not finished. *)
Start ==
    /\ gc = "none" /\ state = "stopped"
    /\ state' = "sweeping"
    /\ UNCHANGED <<heapVars, m, gc>>

StartMarking ==
    /\ gc = "none" /\ state \in {"stopped", "sweeping"}
    /\ state' = "marking"
    /\ m' = MarkObjects(Clean, SetToSeq(roots))
    /\ UNCHANGED <<heapVars, gc>>

(* Step, one object of it: the budget may end with any object. *)
Step ==
    /\ gc = "none" /\ state = "marking"
    /\ m' = IF m.deque = <<>> THEN m ELSE Popped(m)
    /\ state' = IF m'.deque = <<>> THEN "complete" ELSE "marking"
    /\ UNCHANGED <<heapVars, gc>>

-----------------------------------------------------------------------------
(* Collections. *)

FieldsOf(S) == UNION {Range(field[o]) : o \in S}

(* The objects that a search finds from those in a set, inside another. *)
Found(from, inside) ==
    LET found[k \in 0 .. Cardinality(Obj)] ==
            IF k = 0 THEN from \cap inside
            ELSE found[k - 1] \cup (FieldsOf(found[k - 1]) \cap inside)
    IN  found[Cardinality(Obj)]

Reachable == Found(roots, alive)

(* Free what is not kept. *)
Keep(kept) ==
    /\ alive' = kept
    /\ roots' = roots \cap kept
    /\ field' = [o \in Obj |-> IF o \in kept THEN field[o] ELSE NoFields(o)]

(* The entries of a deque that are in a set, in their order. *)
Entries(q, S) ==
    LET entries[k \in 0 .. Len(q)] ==
            IF k = 0 THEN <<>>
            ELSE IF q[k] \in S THEN Append(entries[k - 1], q[k]) ELSE entries[k - 1]
    IN  entries[Len(q)]

(* Scavenge: old objects keep what they refer to; survivors take their      *)
(* color along (TransferColor); UpdateMarkingDequeAfterScavenge drops      *)
(* entries of the dead, and fillers.                                       *)
Scavenge ==
    /\ gc = "none"
    /\ LET kept == Found(roots \cup FieldsOf(alive \ young), young)
       IN  /\ young' \in SUBSET kept
           /\ Keep((alive \ young) \cup kept)
           /\ m' = [m EXCEPT
                     !.color = [o \in Obj |-> IF o \in young \ kept THEN "white" ELSE @[o]],
                     !.deque = Entries(@, (alive \ young) \cup kept)]
    /\ UNCHANGED <<state, gc>>

(* MarkCompactCollector::Prepare: what the marker has done is used, or      *)
(* aborted with its mark bits cleared.                                     *)
BeginMarkCompact ==
    /\ gc = "none"
    /\ \/ IsMarking /\ gc' = "hurry" /\ UNCHANGED <<state, m>>
       \/ gc' = "mark" /\ state' = "stopped" /\ m' = Clean
    /\ UNCHANGED heapVars

(* Finalize: Hurry empties the deque, unless marking is complete. *)
Hurry ==
    /\ gc = "hurry"
    /\ IF state = "marking" /\ m.deque # <<>>
       THEN m' = Popped(m) /\ UNCHANGED <<state, gc>>
       ELSE state' = "stopped" /\ gc' = "mark" /\ UNCHANGED m
    /\ UNCHANGED heapVars

(* Mutant: the overflow of the incremental deque is not handed on. *)
BugUnscanned == {c \in Cell : m.color[c] # "white"}

(* Marked objects that MarkLiveObjects scans: the cells, for want of a      *)
(* barrier, and after an overflow the grey ones.                           *)
Unscanned ==
    {c \in Cell : m.color[c] # "white"} \cup
    {o \in Obj : m.overflowed /\ m.color[o] = "grey"}

Marked == {o \in Obj : m.color[o] # "white"}
Survivors == Marked \cup Found(roots \cup FieldsOf(Unscanned), alive \ Marked)

Sweep ==
    /\ gc = "mark"
    /\ Keep(Survivors)
    /\ young' \in {{}, young \cap Survivors}
    /\ m' = Clean
    /\ gc' = "none"
    /\ UNCHANGED state

Next ==
    \/ \E o \in Obj :
           \/ Allocate(o) \/ LeftTrim(o)
           \/ \E i \in 1 .. Size[o], value \in Obj \cup {None} : Write(o, i, value)
           \/ \E from \in Obj, shift \in {0, 1} : MoveElements(o, from, shift)
    \/ ChangeRoots \/ Start \/ StartMarking \/ Step \/ Scavenge
    \/ BeginMarkCompact \/ Hurry \/ Sweep

Spec == Init /\ [][Next]_vars

-----------------------------------------------------------------------------
(* The deque never holds more than its memory does. *)
TypeOK ==
    /\ alive \subseteq Obj /\ young \subseteq alive /\ roots \subseteq alive
    /\ \A o \in Obj : field[o] \in [1 .. Size[o] -> alive \cup {None}]
    /\ state \in {"stopped", "sweeping", "marking", "complete"}
    /\ m.color \in [Obj -> {"white", "grey", "black"}]
    /\ m.deque \in Seq(Obj \cup {Filler}) /\ Len(m.deque) <= Capacity
    /\ m.overflowed \in BOOLEAN
    /\ \A o \in Obj : m.bar[o] \in 0 .. Size[o]
    /\ gc \in {"none", "hurry", "mark"}

(* No field that has been scanned in a black object holds a white object,   *)
(* whatever JavaScript, the scavenger and array operations did since.      *)
TriColor ==
    \A o \in Obj \ Cell : m.color[o] = "black" =>
        \A i \in 1 .. Size[o] :
            /\ o \in Large => i <= m.bar[o]
            /\ field[o][i] # None
            => m.color[field[o][i]] # "white"

(* Nothing that has still to be scanned is forgotten: a grey object is in   *)
(* the deque, unless an overflow is on record; a large array that is black  *)
(* and not scanned to its end is there even then; and marking is complete   *)
(* only with an empty deque, which Finalize relies on.                     *)
GreyIsQueued ==
    IsMarking =>
        /\ \A o \in Obj : m.color[o] = "grey" => o \in Range(m.deque) \/ m.overflowed
        /\ \A o \in Large : m.color[o] = "black" /\ m.bar[o] < Size[o] => o \in Range(m.deque)
        /\ state = "complete" => m.deque = <<>>

(* The final collection frees no object that JavaScript can still reach. *)
ReachableSurvives == gc = "mark" => Reachable \subseteq Survivors
=============================================================================
