----------------------- MODULE IncrementalMarkingProofs -----------------------
(***************************************************************************)
(* Proofs about IncrementalMarking.  The invariant says of the marking m   *)
(* that it is sound: only allocated objects are marked or queued, a bar    *)
(* that has moved belongs to a black array, what black objects show is     *)
(* marked, and what is grey is queued or the overflow recorded.  It holds  *)
(* in every phase, so that one lemma per operation on a marking serves     *)
(* every action that uses the operation.                                   *)
(*                                                                         *)
(* Folds and recursive functions are unfolded here by the least number at  *)
(* which a claim would fail; SMT then sees one step of them at a time.     *)
(***************************************************************************)
EXTENDS IncrementalMarking, FiniteSetTheorems, SequenceTheorems, WellFoundedInduction, TLAPS

Color == {"white", "grey", "black"}
Value == Obj \cup {None}
Entry == Obj \cup {Filler}

(* Colors, a deque that fits its memory, and progress bars. *)
Marking ==
    [color : [Obj -> Color], deque : {q \in Seq(Entry) : Len(q) <= Capacity},
     overflowed : BOOLEAN, bar : [Obj -> Nat]]

(* What marking the values of V turns n into. *)
Marks(n, r, V) ==
    /\ r \in Marking
    /\ r.bar = n.bar
    /\ \A o \in Obj :
          r.color[o] = IF n.color[o] = "white" /\ o \in V THEN "grey" ELSE n.color[o]
    /\ Range(n.deque) \subseteq Range(r.deque)
    /\ Range(r.deque) \subseteq Range(n.deque) \cup (V \cap Obj)
    /\ n.overflowed => r.overflowed
    /\ \A o \in V \cap Obj : n.color[o] = "white" => o \in Range(r.deque) \/ r.overflowed

(* TriColor, of a marking n and the fields f. *)
Tri(n, f) ==
    \A o \in Obj \ Cell : n.color[o] = "black" =>
        \A i \in 1 .. Size[o] :
            (o \in Large => i <= n.bar[o]) /\ f[o][i] # None => n.color[f[o][i]] # "white"

(* What is grey is queued or the overflow recorded; so is a large array      *)
(* that has not been scanned to its end.                                   *)
Queued(n) ==
    /\ \A o \in Obj : n.color[o] = "grey" => o \in Range(n.deque) \/ n.overflowed
    /\ \A o \in Large : n.color[o] = "black" /\ n.bar[o] < Size[o] => o \in Range(n.deque)

(* Only allocated objects are marked or queued, and only what is black has   *)
(* been scanned.                                                           *)
Placed(n, A) ==
    /\ \A o \in Obj : n.color[o] # "white" => o \in A
    /\ Range(n.deque) \subseteq A \cup {Filler}
    /\ \A o \in Obj : n.bar[o] <= Size[o]
    /\ \A o \in Large : n.bar[o] > 0 => n.color[o] = "black"

Sound(n, A, f) == n \in Marking /\ Placed(n, A) /\ Tri(n, f) /\ Queued(n)

(* The heap: fields hold allocated objects, large arrays are never young. *)
HeapOK ==
    /\ alive \subseteq Obj /\ young \subseteq alive \ Large /\ roots \subseteq alive
    /\ field = [o \in Obj |-> field[o]]
    /\ \A o \in Obj : field[o] \in [1 .. Size[o] -> alive \cup {None}]

(* The marker is clean while it is not marking, and what it leaves to the    *)
(* final collection has an empty deque.                                    *)
PhaseOK ==
    /\ state \in {"stopped", "sweeping", "marking", "complete"}
    /\ gc \in {"none", "hurry", "mark"}
    /\ gc = "hurry" => IsMarking
    /\ gc = "mark" => state = "stopped"
    /\ ~IsMarking /\ gc # "mark" => m = Clean
    /\ state = "complete" \/ gc = "mark" => m.deque = <<>>

IInv == HeapOK /\ Sound(m, alive, field) /\ PhaseOK

-----------------------------------------------------------------------------
(* Sequences. *)

(* Induction over the naturals, by the least counterexample. *)
LEMMA LeastNatural ==
    ASSUME NEW S \in SUBSET Nat, S # {}
    PROVE  \E n \in S : \A k \in S : n <= k
  <1>1. PICK n \in S : \A k \in S : ~ (<<k, n>> \in OpToRel(<, Nat))
    BY WFMin, NatLessThanWellFounded
  <1>2. \A k \in S : ~ (k < n)
    BY <1>1 DEF OpToRel
  <1>. QED BY <1>2

(* The elements of a sequence. *)
LEMMA RangeIs ==
    ASSUME NEW S, NEW q \in Seq(S)
    PROVE  /\ Range(q) \subseteq S
           /\ Range(q) = {q[i] : i \in 1 .. Len(q)}
  BY DEF Range

(* One element more at the end. *)
LEMMA RangeAppend ==
    ASSUME NEW S, NEW q \in Seq(S), NEW x \in S
    PROVE  /\ Append(q, x) \in Seq(S)
           /\ Len(Append(q, x)) = Len(q) + 1
           /\ Range(Append(q, x)) = Range(q) \cup {x}
  <1>1. Append(q, x) \in Seq(S) /\ Len(Append(q, x)) = Len(q) + 1
    OBVIOUS
  <1>2. \A i \in 1 .. Len(q) : Append(q, x)[i] = q[i]
    OBVIOUS
  <1>3. Append(q, x)[Len(q) + 1] = x
    OBVIOUS
  <1>4. Range(Append(q, x)) = {Append(q, x)[i] : i \in 1 .. Len(q) + 1}
    BY <1>1, RangeIs
  <1>5. 1 .. Len(q) + 1 = (1 .. Len(q)) \cup {Len(q) + 1}
    OBVIOUS
  <1>6. Range(q) = {q[i] : i \in 1 .. Len(q)}
    BY RangeIs
  <1>. QED BY <1>1, <1>2, <1>3, <1>4, <1>5, <1>6

(* One element more at the beginning. *)
LEMMA RangePrepend ==
    ASSUME NEW S, NEW q \in Seq(S), NEW x \in S
    PROVE  /\ <<x>> \o q \in Seq(S)
           /\ Len(<<x>> \o q) = Len(q) + 1
           /\ Range(<<x>> \o q) = Range(q) \cup {x}
  <1>. DEFINE r == <<x>> \o q
  <1>1. r \in Seq(S) /\ Len(r) = Len(q) + 1
    OBVIOUS
  <1>2. \A i \in 1 .. Len(q) : r[i + 1] = q[i]
    OBVIOUS
  <1>3. r[1] = x
    OBVIOUS
  <1>4. Range(r) = {r[i] : i \in 1 .. Len(q) + 1} /\ Range(q) = {q[i] : i \in 1 .. Len(q)}
    BY <1>1, RangeIs
  <1>. HIDE DEF r
  <1>5. ASSUME NEW i \in 1 .. Len(q) + 1 PROVE r[i] \in Range(q) \cup {x}
    <2>1. CASE i = 1
      BY <1>3, <2>1
    <2>2. CASE i # 1
      <3>1. i - 1 \in 1 .. Len(q) /\ (i - 1) + 1 = i
        BY <2>2
      <3>2. r[i] = q[i - 1]
        BY <1>2, <3>1
      <3>. QED BY <1>4, <3>1, <3>2
    <2>. QED BY <2>1, <2>2
  <1>6. ASSUME NEW i \in 1 .. Len(q) PROVE q[i] \in Range(r)
    <2>1. i + 1 \in 1 .. Len(q) + 1
      OBVIOUS
    <2>. QED BY <1>2, <1>4, <2>1
  <1>7. x \in Range(r)
    BY <1>3, <1>4
  <1>8. Range(r) = Range(q) \cup {x}
    BY <1>4, <1>5, <1>6, <1>7
  <1>. QED BY <1>1, <1>8 DEF r

(* The last element taken off. *)
LEMMA RangeFront ==
    ASSUME NEW S, NEW q \in Seq(S), q # <<>>
    PROVE  /\ Front(q) \in Seq(S) /\ Last(q) \in S
           /\ Len(Front(q)) <= Len(q)
           /\ Range(q) = Range(Front(q)) \cup {Last(q)}
  <1>. DEFINE n == Len(q) - 1
              r == SubSeq(q, 1, n)
  <1>1. n \in Nat /\ Len(q) = n + 1
    OBVIOUS
  <1>2. r \in Seq(S)
    OBVIOUS
  <1>3. Len(r) = n
    BY <1>1
  <1>4. \A i \in 1 .. n : r[i] = q[i]
    BY <1>1
  <1>5. Front(q) = r /\ Last(q) = q[n + 1]
    BY <1>1 DEF Front, Last
  <1>7. q[n + 1] \in S
    BY <1>1
  <1>. HIDE DEF n, r
  <1>6. Range(q) = {q[i] : i \in 1 .. n + 1} /\ Range(r) = {r[i] : i \in 1 .. n}
    BY <1>1, <1>2, <1>3, RangeIs
  <1>8. 1 .. n + 1 = (1 .. n) \cup {n + 1}
    BY <1>1
  <1>9. Range(q) = Range(r) \cup {q[n + 1]}
    BY <1>4, <1>6, <1>8
  <1>. QED BY <1>1, <1>2, <1>3, <1>5, <1>7, <1>9

-----------------------------------------------------------------------------
(* Marking. *)

(* An object made grey and pushed: it is queued, or the overflow recorded. *)
LEMMA PushMarks ==
    ASSUME NEW n \in Marking, NEW o \in Obj, n.color[o] = "white"
    PROVE  Marks(n, WhiteToGreyAndPush(n, o), {o})
  <1>. DEFINE g == [n EXCEPT !.color[o] = "grey"]
              r == WhiteToGreyAndPush(n, o)
  <1>1. /\ g.color = [n.color EXCEPT ![o] = "grey"] /\ g.deque = n.deque
        /\ g.overflowed = n.overflowed /\ g.bar = n.bar
        /\ g \in Marking
    BY DEF Marking, Color
  <1>2. /\ n.deque \in Seq(Entry) /\ Len(n.deque) <= Capacity /\ Len(n.deque) \in Nat
        /\ o \in Entry
    BY DEF Marking, Entry
  <1>3. r = IF Len(g.deque) = Capacity THEN [g EXCEPT !.overflowed = TRUE]
            ELSE [g EXCEPT !.deque = Append(@, o)]
    BY DEF WhiteToGreyAndPush, PushGrey, IsFull
  <1>. HIDE DEF g, r
  <1>4. CASE Len(g.deque) = Capacity
    <2>1. /\ r \in Marking /\ r.color = g.color /\ r.deque = g.deque
          /\ r.overflowed = TRUE /\ r.bar = g.bar
      BY <1>1, <1>3, <1>4 DEF Marking
    <2>. QED BY <1>1, <2>1 DEF Marks, Marking, r
  <1>5. CASE Len(g.deque) # Capacity
    <2>1. /\ Append(n.deque, o) \in Seq(Entry)
          /\ Len(Append(n.deque, o)) = Len(n.deque) + 1
          /\ Range(Append(n.deque, o)) = Range(n.deque) \cup {o}
      BY <1>2, RangeAppend
    <2>2. Len(n.deque) + 1 <= Capacity
      BY <1>1, <1>2, <1>5, DequeAssumption
    <2>3. /\ r.color = g.color /\ r.deque = Append(n.deque, o)
          /\ r.overflowed = g.overflowed /\ r.bar = g.bar
          /\ r \in Marking
      BY <1>1, <1>3, <1>5, <2>1, <2>2 DEF Marking
    <2>. QED BY <1>1, <2>1, <2>3 DEF Marks, Marking, r
  <1>. QED BY <1>4, <1>5

(* MarkObject marks its value, and nothing if there is none. *)
LEMMA MarkObjectMarks ==
    ASSUME NEW n \in Marking, NEW v \in Value
    PROVE  Marks(n, MarkObject(n, v), {v})
  <1>1. CASE v # None /\ n.color[v] = "white"
    <2>1. v \in Obj /\ MarkObject(n, v) = WhiteToGreyAndPush(n, v)
      BY <1>1 DEF Value, MarkObject
    <2>. QED BY <1>1, <2>1, PushMarks
  <1>2. CASE ~ (v # None /\ n.color[v] = "white")
    <2>1. MarkObject(n, v) = n
      BY <1>2 DEF MarkObject
    <2>2. v \in Obj => n.color[v] # "white"
      BY <1>2, ObjectAssumption
    <2>. QED BY <2>1, <2>2 DEF Marks, Marking
  <1>. QED BY <1>1, <1>2

(* Nothing is marked for no values; what is marked twice adds up. *)
LEMMA MarksNothing == \A n \in Marking : Marks(n, n, {})
  BY DEF Marks, Marking

(* Marking the values of V, then those of W. *)
LEMMA MarksTransitive ==
    ASSUME NEW n \in Marking, NEW r, NEW s, NEW V, NEW W, Marks(n, r, V), Marks(r, s, W)
    PROVE  Marks(n, s, V \cup W)
  <1>1. s \in Marking /\ s.bar = n.bar /\ (n.overflowed => s.overflowed)
    BY DEF Marks
  <1>2. \A o \in Obj :
          s.color[o] = IF n.color[o] = "white" /\ o \in V \cup W THEN "grey" ELSE n.color[o]
    BY DEF Marks
  <1>3. /\ Range(n.deque) \subseteq Range(s.deque)
        /\ Range(s.deque) \subseteq Range(n.deque) \cup ((V \cup W) \cap Obj)
    BY DEF Marks
  <1>4. ASSUME NEW o \in (V \cup W) \cap Obj, n.color[o] = "white"
        PROVE  o \in Range(s.deque) \/ s.overflowed
    <2>1. CASE o \in V
      BY <1>4, <2>1 DEF Marks
    <2>2. CASE o \notin V
      <3>1. r.color[o] = "white" /\ o \in W \cap Obj
        BY <1>4, <2>2 DEF Marks
      <3>. QED BY <3>1 DEF Marks
    <2>. QED BY <2>1, <2>2
  <1>. QED BY <1>1, <1>2, <1>3, <1>4 DEF Marks

(* The largest number of an initial segment of the naturals. *)
LEMMA MaxOfSegment == \A k \in Nat \ {0} : Max(1 .. k) = k
  <1>. SUFFICES ASSUME NEW k \in Nat \ {0} PROVE Max(1 .. k) = k
    OBVIOUS
  <1>1. k \in 1 .. k /\ \A y \in 1 .. k : k >= y
    OBVIOUS
  <1>2. \A x \in 1 .. k : (\A y \in 1 .. k : x >= y) => x = k
    OBVIOUS
  <1>. QED BY <1>1, <1>2 DEF Max

(* The largest element of a set that has k + 1 as its largest. *)
LEMMA MaxIsLast ==
    ASSUME NEW k \in Nat, NEW s \in SUBSET (1 .. k + 1), k + 1 \in s
    PROVE  Max(s) = k + 1
  <1>1. \A y \in s : k + 1 >= y
    OBVIOUS
  <1>2. \A x \in s : (\A y \in s : x >= y) => x = k + 1
    <2>. TAKE x \in s
    <2>1. x \in 1 .. k + 1
      OBVIOUS
    <2>. QED BY <2>1
  <1>. QED BY <1>1, <1>2 DEF Max

(* FoldLeft of MarkObject is a function of the prefixes of the sequence: it  *)
(* is built for the subsets of ever longer segments of its indices.        *)
LEMMA FoldOfPrefixes ==
    ASSUME NEW n, NEW q \in Seq(Value)
    PROVE  \E g : /\ MarkObjects(n, q) = g[1 .. Len(q)]
                  /\ g[1 .. 0] = n
                  /\ \A k \in 0 .. Len(q) - 1 :
                        g[1 .. k + 1] = MarkObject(g[1 .. k], q[k + 1])
  <1>. DEFINE N == Len(q)
              IsFold(g, S) ==
                  g = [s \in SUBSET S |->
                          IF s = {} THEN n
                          ELSE MarkObject(g[s \ {Max(s)}], q[Max(s)])]
              fold == CHOOSE g : IsFold(g, DOMAIN q)
  <1>1. N \in Nat /\ DOMAIN q = 1 .. N
    OBVIOUS
  <1>2. \A k \in Nat : \E g : IsFold(g, 1 .. k)
    <2>. DEFINE Bad == {k \in Nat : ~ \E g : IsFold(g, 1 .. k)}
    <2>1. SUFFICES ASSUME Bad # {} PROVE FALSE
      OBVIOUS
    <2>2. PICK l \in Bad : \A k \in Bad : l <= k
      BY <2>1, LeastNatural
    <2>3. CASE l = 0
      <3>. DEFINE g == [s \in SUBSET (1 .. 0) |-> n]
      <3>1. \A s \in SUBSET (1 .. 0) : s = {}
        OBVIOUS
      <3>2. IsFold(g, 1 .. 0)
        BY <3>1
      <3>. QED BY <2>3, <3>2
    <2>4. CASE l # 0
      <3>. DEFINE k == l - 1
      <3>0. l \in Nat
        OBVIOUS
      <3>1. k \in Nat /\ k \notin Bad /\ l = k + 1
        <4>1. k \in Nat /\ ~(l <= k) /\ l = k + 1
          BY <2>4, <3>0
        <4>. QED BY <2>2, <4>1
      <3>2. PICK g : IsFold(g, 1 .. k)
        BY <3>1
      <3>. HIDE DEF k
      <3>. DEFINE h == [s \in SUBSET (1 .. l) |->
                           IF l \in s THEN MarkObject(g[s \ {l}], q[l]) ELSE g[s]]
      <3>3. ASSUME NEW s \in SUBSET (1 .. l)
            PROVE  h[s] = IF s = {} THEN n
                          ELSE MarkObject(h[s \ {Max(s)}], q[Max(s)])
        <4>1. CASE l \in s
          <5>1. Max(s) = l
            BY <3>1, <4>1, MaxIsLast
          <5>2. s \ {l} \in SUBSET (1 .. l) /\ l \notin s \ {l}
            OBVIOUS
          <5>3. h[s \ {l}] = g[s \ {l}]
            BY <5>2
          <5>. QED BY <4>1, <5>1, <5>3
        <4>2. CASE l \notin s
          <5>1. s \in SUBSET (1 .. k)
            <6>1. \A x \in 1 .. l : x # l => x \in 1 .. k
              BY <3>1
            <6>. QED BY <4>2, <6>1
          <5>2. g[s] = IF s = {} THEN n ELSE MarkObject(g[s \ {Max(s)}], q[Max(s)])
            BY <3>2, <5>1
          <5>3. s \ {Max(s)} \in SUBSET (1 .. l) /\ l \notin s \ {Max(s)}
            BY <4>2
          <5>4. h[s \ {Max(s)}] = g[s \ {Max(s)}] /\ h[s] = g[s]
            BY <4>2, <5>3
          <5>. QED BY <5>2, <5>4
        <4>. QED BY <4>1, <4>2
      <3>4. IsFold(h, 1 .. l)
        BY <3>3
      <3>. QED BY <2>2, <3>4
    <2>. QED BY <2>3, <2>4
  <1>3. IsFold(fold, 1 .. N)
    BY <1>1, <1>2
  <1>4. MarkObjects(n, q) = fold[1 .. N]
    <2>. DEFINE iter == CHOOSE iter :
                            iter = [s \in SUBSET DOMAIN q |->
                                IF s = {} THEN n
                                ELSE MarkObject(iter[s \ {Max(s)}], q[Max(s)])]
    <2>1. MarkObjects(n, q) = iter[DOMAIN q]
      BY DEF MarkObjects, FoldLeft, MapThenFoldSet
    <2>2. iter = fold
      OBVIOUS
    <2>. QED BY <1>1, <2>1, <2>2
  <1>. HIDE DEF fold
  <1>5. fold[1 .. 0] = n
    <2>1. 1 .. 0 = {} /\ {} \in SUBSET (1 .. N)
      OBVIOUS
    <2>. QED BY <1>3, <2>1
  <1>6. ASSUME NEW k \in 0 .. N - 1
        PROVE  fold[1 .. k + 1] = MarkObject(fold[1 .. k], q[k + 1])
    <2>1. k \in Nat /\ k + 1 \in 1 .. k + 1 /\ k + 1 <= N
      BY <1>1
    <2>. HIDE DEF N
    <2>3. 1 .. k + 1 \in SUBSET (1 .. N) /\ (1 .. k + 1) \ {k + 1} = 1 .. k
      BY <1>1, <2>1
    <2>2. Max(1 .. k + 1) = k + 1
      BY <2>1, MaxIsLast
    <2>. QED BY <1>3, <2>1, <2>2, <2>3
  <1>. QED BY <1>4, <1>5, <1>6

(* A fold of MarkObject marks the elements of its sequence. *)
LEMMA FoldMarks ==
    ASSUME NEW n \in Marking, NEW q \in Seq(Value)
    PROVE  Marks(n, MarkObjects(n, q), Range(q))
  <1>1. PICK g : /\ MarkObjects(n, q) = g[1 .. Len(q)]
                 /\ g[1 .. 0] = n
                 /\ \A k \in 0 .. Len(q) - 1 :
                       g[1 .. k + 1] = MarkObject(g[1 .. k], q[k + 1])
    BY FoldOfPrefixes
  <1>. DEFINE Good(k) == Marks(n, g[1 .. k], {q[i] : i \in 1 .. k})
              Bad == {k \in 0 .. Len(q) : ~Good(k)}
  <1>2. Bad = {}
    <2>1. SUFFICES ASSUME Bad # {} PROVE FALSE
      OBVIOUS
    <2>2. PICK l \in Bad : \A k \in Bad : l <= k
      <3>1. Bad \in SUBSET Nat
        OBVIOUS
      <3>. HIDE DEF Bad
      <3>. QED BY <2>1, <3>1, LeastNatural
    <2>3. CASE l = 0
      <3>1. {q[i] : i \in 1 .. 0} = {}
        OBVIOUS
      <3>2. Good(0)
        BY <1>1, <3>1, MarksNothing
      <3>. QED BY <2>2, <2>3, <3>2
    <2>4. CASE l # 0
      <3>. DEFINE k == l - 1
      <3>1. k \in 0 .. Len(q) - 1 /\ l = k + 1 /\ k \notin Bad
        <4>1. l \in 0 .. Len(q) /\ Len(q) \in Nat
          OBVIOUS
        <4>2. k \in 0 .. Len(q) - 1 /\ l = k + 1 /\ ~(l <= k)
          BY <2>4, <4>1
        <4>. QED BY <2>2, <4>2
      <3>. HIDE DEF k
      <3>2. Good(k)
        BY <3>1
      <3>3. q[l] \in Value /\ g[1 .. k] \in Marking
        <4>1. l \in 1 .. Len(q)
          BY <3>1
        <4>. QED BY <3>2, <4>1 DEF Marks
      <3>4. Marks(g[1 .. k], g[1 .. l], {q[l]})
        BY <1>1, <3>1, <3>3, MarkObjectMarks
      <3>5. {q[i] : i \in 1 .. k} \cup {q[l]} = {q[i] : i \in 1 .. l}
        <4>1. 1 .. l = (1 .. k) \cup {l}
          BY <3>1
        <4>. QED BY <4>1
      <3>6. Marks(n, g[1 .. l], {q[i] : i \in 1 .. k} \cup {q[l]})
        BY <3>2, <3>4, MarksTransitive
      <3>7. Good(l)
        BY <3>5, <3>6
      <3>. QED BY <2>2, <3>7
    <2>. QED BY <2>3, <2>4
  <1>3. Good(Len(q))
    <2>1. Len(q) \in 0 .. Len(q)
      OBVIOUS
    <2>. QED BY <1>2, <2>1
  <1>4. Range(q) = {q[i] : i \in 1 .. Len(q)}
    BY RangeIs
  <1>. QED BY <1>1, <1>3, <1>4

(* Scan marks what a part of the fields holds. *)
LEMMA ScanMarks ==
    ASSUME NEW n \in Marking, NEW o \in Obj, field[o] \in [1 .. Size[o] -> Value],
           NEW from \in Nat \ {0}, NEW to \in 0 .. Size[o]
    PROVE  Marks(n, Scan(n, o, from, to), {field[o][i] : i \in from .. to})
  <1>. DEFINE q == SubSeq(field[o], from, to)
  <1>1. Size[o] \in Nat
    BY ObjectAssumption
  <1>2. field[o] \in Seq(Value) /\ Len(field[o]) = Size[o]
    BY <1>1
  <1>3. q \in Seq(Value) /\ Range(q) = {field[o][i] : i \in from .. to}
    <2>1. CASE from <= to
      <3>1. from \in 1 .. Len(field[o]) + 1 /\ to \in from - 1 .. Len(field[o])
        BY <1>1, <1>2, <2>1
      <3>2. q \in Seq(Value) /\ Len(q) = (to - from) + 1
        BY <1>2, <3>1, SubSeqProperties
      <3>3. \A i \in 1 .. (to - from) + 1 : q[i] = field[o][(from + i) - 1]
        BY <1>2, <3>1, SubSeqProperties
      <3>. HIDE DEF q
      <3>4. Range(q) = {q[i] : i \in 1 .. (to - from) + 1}
        BY <3>2, RangeIs
      <3>5. ASSUME NEW i \in from .. to PROVE field[o][i] \in Range(q)
        <4>1. (i - from) + 1 \in 1 .. (to - from) + 1 /\ (from + ((i - from) + 1)) - 1 = i
          BY <2>1
        <4>2. q[(i - from) + 1] = field[o][i]
          BY <3>3, <4>1
        <4>. QED BY <3>4, <4>1, <4>2
      <3>6. ASSUME NEW i \in 1 .. (to - from) + 1
            PROVE  q[i] \in {field[o][j] : j \in from .. to}
        <4>1. (from + i) - 1 \in from .. to
          BY <2>1
        <4>. QED BY <3>3, <4>1
      <3>. QED BY <3>2, <3>4, <3>5, <3>6
    <2>2. CASE ~(from <= to)
      <3>1. q = <<>> /\ from .. to = {}
        BY <1>1, <1>2, <2>2
      <3>. QED BY <3>1 DEF Range
    <2>. QED BY <2>1, <2>2
  <1>. HIDE DEF q
  <1>4. Marks(n, MarkObjects(n, q), Range(q))
    BY <1>3, FoldMarks
  <1>. QED BY <1>3, <1>4 DEF Scan, q

-----------------------------------------------------------------------------
(* Scanning an object. *)

(* An object put back at the front of a deque that has room for it. *)
LEMMA UnshiftQueues ==
    ASSUME NEW n \in Marking, NEW o \in Obj, ~IsFull(n)
    PROVE  LET r == UnshiftGrey(n, o)
           IN  /\ r \in Marking /\ r.color = n.color /\ r.bar = n.bar
               /\ r.overflowed = n.overflowed
               /\ Range(r.deque) = Range(n.deque) \cup {o}
  <1>. DEFINE r == UnshiftGrey(n, o)
  <1>1. n.deque \in Seq(Entry) /\ Len(n.deque) <= Capacity /\ o \in Entry
    BY DEF Marking, Entry
  <1>2. r = [n EXCEPT !.deque = <<o>> \o @]
    BY DEF UnshiftGrey
  <1>3. /\ <<o>> \o n.deque \in Seq(Entry)
        /\ Len(<<o>> \o n.deque) = Len(n.deque) + 1
        /\ Range(<<o>> \o n.deque) = Range(n.deque) \cup {o}
    BY <1>1, RangePrepend
  <1>4. Len(n.deque) + 1 <= Capacity
    BY <1>1, DequeAssumption DEF IsFull
  <1>. HIDE DEF r
  <1>5. /\ r.color = n.color /\ r.bar = n.bar /\ r.overflowed = n.overflowed
        /\ r.deque = <<o>> \o n.deque
        /\ r \in Marking
    BY <1>2, <1>3, <1>4 DEF Marking
  <1>. QED BY <1>3, <1>5 DEF r

(* A black object made grey and put back, or the overflow recorded. *)
LEMMA UnshiftGreyMarks ==
    ASSUME NEW n \in Marking, NEW o \in Obj
    PROVE  LET r == BlackToGreyAndUnshift(n, o)
           IN  /\ r \in Marking /\ r.bar = n.bar
               /\ r.color = [n.color EXCEPT ![o] = "grey"]
               /\ Range(n.deque) \subseteq Range(r.deque)
               /\ Range(r.deque) \subseteq Range(n.deque) \cup {o}
               /\ n.overflowed => r.overflowed
               /\ o \in Range(r.deque) \/ r.overflowed
  <1>. DEFINE g == [n EXCEPT !.color[o] = "grey"]
              r == UnshiftGrey(g, o)
  <1>1. /\ g \in Marking /\ g.bar = n.bar /\ g.deque = n.deque /\ g.overflowed = n.overflowed
        /\ g.color = [n.color EXCEPT ![o] = "grey"]
    BY DEF Marking, Color
  <1>2. BlackToGreyAndUnshift(n, o) = r
    BY DEF BlackToGreyAndUnshift
  <1>. HIDE DEF g
  <1>3. CASE IsFull(g)
    <2>1. r = [g EXCEPT !.overflowed = TRUE]
      BY <1>3 DEF UnshiftGrey
    <2>. HIDE DEF r
    <2>2. /\ r \in Marking /\ r.bar = g.bar /\ r.deque = g.deque /\ r.overflowed
          /\ r.color = g.color
      BY <1>1, <2>1 DEF Marking
    <2>. QED BY <1>1, <1>2, <2>2 DEF r
  <1>4. CASE ~IsFull(g)
    <2>1. /\ r \in Marking /\ r.color = g.color /\ r.bar = g.bar
          /\ r.overflowed = g.overflowed
          /\ Range(r.deque) = Range(g.deque) \cup {o}
      BY <1>1, <1>4, UnshiftQueues
    <2>. QED BY <1>1, <1>2, <2>1
  <1>. QED BY <1>3, <1>4

(* The least element of a set of naturals. *)
LEMMA MinOfNaturals ==
    ASSUME NEW S \in SUBSET Nat, S # {}
    PROVE  Min(S) \in S /\ \A y \in S : Min(S) <= y
  <1>1. \E x \in S : \A y \in S : x <= y
    BY LeastNatural
  <1>. QED BY <1>1 DEF Min

(* VisitFixedArrayIncremental scans from the progress bar to an end: that   *)
(* of the array, or one where the deque has room for the array, which is   *)
(* then put back.                                                          *)
LEMMA VisitLargeMarks ==
    ASSUME NEW n \in Marking, NEW o \in Large, field[o] \in [1 .. Size[o] -> Value],
           n.bar[o] <= Size[o]
    PROVE  \E end \in n.bar[o] .. Size[o] : \E r, s :
               /\ Marks(n, r, {field[o][i] : i \in n.bar[o] + 1 .. end})
               /\ s = [r EXCEPT !.bar[o] = end]
               /\ \/ end = Size[o] /\ VisitLarge(n, o) = s
                  \/ end < Size[o] /\ ~IsFull(s) /\ VisitLarge(n, o) = UnshiftGrey(s, o)
  <1>. DEFINE ends == {Min({Size[o], n.bar[o] + k * Chunk}) : k \in 1 .. Size[o]}
              Upto(e) == Scan(n, o, n.bar[o] + 1, e)
              good == {e \in ends : e = Size[o] \/ ~IsFull(Upto(e))}
              end == Min(good)
              s == [Upto(end) EXCEPT !.bar[o] = end]
  <1>1. /\ o \in Obj /\ Size[o] \in Nat \ {0} /\ n.bar[o] \in 0 .. Size[o]
        /\ Chunk \in Nat \ {0}
    BY ObjectAssumption, DequeAssumption DEF Marking
  <1>2. ASSUME NEW k \in 1 .. Size[o]
        PROVE  /\ Min({Size[o], n.bar[o] + k * Chunk}) \in n.bar[o] .. Size[o]
               /\ n.bar[o] + k * Chunk >= Size[o] => Min({Size[o], n.bar[o] + k * Chunk}) = Size[o]
    <2>. DEFINE p == n.bar[o] + k * Chunk
                mn == Min({Size[o], p})
    <2>1. k * Chunk \in Nat
      <3>1. k \in Nat /\ Chunk \in Nat
        BY <1>1
      <3>. QED BY <3>1
    <2>2. p \in Nat /\ n.bar[o] <= p
      BY <1>1, <2>1
    <2>. HIDE DEF p
    <2>3. mn \in {Size[o], p} /\ \A y \in {Size[o], p} : mn <= y
      <3>1. {Size[o], p} \in SUBSET Nat /\ {Size[o], p} # {}
        BY <1>1, <2>2
      <3>. QED BY <3>1, MinOfNaturals
    <2>. HIDE DEF mn
    <2>4. mn \in n.bar[o] .. Size[o] /\ (p >= Size[o] => mn = Size[o])
      BY <1>1, <2>2, <2>3
    <2>. QED BY <2>4 DEF mn, p
  <1>3. ends \in SUBSET (n.bar[o] .. Size[o])
    BY <1>2
  <1>4. Size[o] \in ends
    <2>1. Size[o] \in 1 .. Size[o]
      BY <1>1
    <2>2. n.bar[o] + Size[o] * Chunk >= Size[o]
      <3>1. ASSUME NEW a \in Nat \ {0}, NEW b \in Nat \ {0} PROVE a * b \in Nat /\ a * b >= a
        <4>1. b = (b - 1) + 1 /\ b - 1 \in Nat
          OBVIOUS
        <4>2. a * ((b - 1) + 1) = a * (b - 1) + a
          BY <4>1
        <4>3. a * (b - 1) \in Nat
          BY <4>1
        <4>. QED BY <4>1, <4>2, <4>3
      <3>2. Size[o] * Chunk \in Nat /\ Size[o] * Chunk >= Size[o]
        BY <1>1, <3>1
      <3>. QED BY <1>1, <3>2
    <2>3. Min({Size[o], n.bar[o] + Size[o] * Chunk}) = Size[o]
      BY <1>2, <2>1, <2>2
    <2>. QED BY <2>1, <2>3
  <1>. HIDE DEF ends
  <1>5. end \in good
    <2>1. good \in SUBSET Nat
      <3>1. good \subseteq ends
        OBVIOUS
      <3>. HIDE DEF good
      <3>2. n.bar[o] .. Size[o] \subseteq Nat
        BY <1>1
      <3>. QED BY <1>3, <3>1, <3>2
    <2>2. Size[o] \in good
      BY <1>4
    <2>. HIDE DEF good
    <2>. QED BY <2>1, <2>2, MinOfNaturals
  <1>6. end \in n.bar[o] .. Size[o] /\ (end = Size[o] \/ ~IsFull(Upto(end)))
    BY <1>3, <1>5
  <1>7. VisitLarge(n, o) = IF end < Size[o] THEN UnshiftGrey(s, o) ELSE s
    BY DEF VisitLarge, ends
  <1>. HIDE DEF end
  <1>8. Marks(n, Upto(end), {field[o][i] : i \in n.bar[o] + 1 .. end})
    <2>1. n.bar[o] + 1 \in Nat \ {0} /\ end \in 0 .. Size[o]
      BY <1>1, <1>6
    <2>. QED BY <1>1, <2>1, ScanMarks
  <1>9. IsFull(s) <=> IsFull(Upto(end))
    <2>1. Upto(end) \in Marking
      BY <1>8 DEF Marks
    <2>. HIDE DEF Upto
    <2>2. s.deque = Upto(end).deque
      BY <2>1 DEF Marking
    <2>. QED BY <2>2 DEF IsFull
  <1>10. CASE end = Size[o]
    <2>1. VisitLarge(n, o) = s
      BY <1>1, <1>7, <1>10
    <2>. QED BY <1>6, <1>8, <1>10, <2>1
  <1>11. CASE end # Size[o]
    <2>1. end < Size[o] /\ ~IsFull(s) /\ VisitLarge(n, o) = UnshiftGrey(s, o)
      BY <1>1, <1>6, <1>7, <1>9, <1>11
    <2>. QED BY <1>6, <1>8, <2>1
  <1>. QED BY <1>10, <1>11

(* The fields of an object are values. *)
LEMMA FieldsAreValues ==
    ASSUME HeapOK, NEW o \in Obj
    PROVE  /\ Size[o] \in Nat
           /\ field[o] \in [1 .. Size[o] -> Value]
           /\ \A i \in 1 .. Size[o] : field[o][i] \in alive \cup {None}
  <1>1. alive \cup {None} \subseteq Value
    BY DEF HeapOK, Value
  <1>. QED BY <1>1, ObjectAssumption DEF HeapOK

(* What a visit does: it marks the fields from one index to another, moves   *)
(* the progress bar and makes the object black.                            *)
Visited(n, o, r, t, from, end) ==
    /\ from \in Nat \ {0} /\ end \in 0 .. Size[o]
    /\ o \in Large => from = n.bar[o] + 1
    /\ o \notin Large => from = 1 /\ end = Size[o]
    /\ Marks(n, t, {field[o][i] : i \in from .. end})
    /\ r \in Marking
    /\ r.color = [t.color EXCEPT ![o] = "black"]
    /\ r.overflowed = t.overflowed
    /\ r.bar = IF o \in Large THEN [t.bar EXCEPT ![o] = end] ELSE t.bar
    /\ Range(t.deque) \subseteq Range(r.deque)
    /\ Range(r.deque) \subseteq Range(t.deque) \cup {o}
    /\ end < Size[o] => o \in Range(r.deque)

(* VisitObject visits. *)
LEMMA VisitObjectVisits ==
    ASSUME HeapOK, NEW n \in Marking, NEW o \in Obj, n.bar[o] <= Size[o]
    PROVE  \E t, from, end : Visited(n, o, VisitObject(n, o), t, from, end)
  <1>. DEFINE r == VisitObject(n, o)
  <1>1. Size[o] \in Nat /\ field[o] \in [1 .. Size[o] -> Value]
    BY FieldsAreValues
  <1>2. CASE o \in Large
    <2>a. PICK end \in n.bar[o] .. Size[o] : \E t, s :
               /\ Marks(n, t, {field[o][i] : i \in n.bar[o] + 1 .. end})
               /\ s = [t EXCEPT !.bar[o] = end]
               /\ \/ end = Size[o] /\ VisitLarge(n, o) = s
                  \/ end < Size[o] /\ ~IsFull(s) /\ VisitLarge(n, o) = UnshiftGrey(s, o)
      BY <1>1, <1>2, VisitLargeMarks
    <2>1. PICK t, s :
               /\ Marks(n, t, {field[o][i] : i \in n.bar[o] + 1 .. end})
               /\ s = [t EXCEPT !.bar[o] = end]
               /\ \/ end = Size[o] /\ VisitLarge(n, o) = s
                  \/ end < Size[o] /\ ~IsFull(s) /\ VisitLarge(n, o) = UnshiftGrey(s, o)
      BY <2>a
    <2>2. n.bar[o] \in Nat /\ end \in 0 .. Size[o] /\ end \in Nat /\ t \in Marking
      BY <1>1, <2>1 DEF Marking, Marks
    <2>3. /\ s \in Marking /\ s.color = t.color /\ s.deque = t.deque
          /\ s.overflowed = t.overflowed /\ s.bar = [t.bar EXCEPT ![o] = end]
      BY <2>1, <2>2 DEF Marking
    <2>. DEFINE w == VisitLarge(n, o)
    <2>4. /\ w \in Marking /\ w.color = t.color /\ w.overflowed = t.overflowed
          /\ w.bar = [t.bar EXCEPT ![o] = end]
          /\ Range(t.deque) \subseteq Range(w.deque)
          /\ Range(w.deque) \subseteq Range(t.deque) \cup {o}
          /\ end < Size[o] => o \in Range(w.deque)
      <3>1. CASE end = Size[o] /\ w = s
        BY <1>1, <2>3, <3>1
      <3>2. CASE end < Size[o] /\ ~IsFull(s) /\ w = UnshiftGrey(s, o)
        BY <2>3, <3>2, UnshiftQueues
      <3>. QED BY <2>1, <3>1, <3>2
    <2>. HIDE DEF w
    <2>5. r = [w EXCEPT !.color[o] = "black"]
      BY <1>2 DEF VisitObject, w
    <2>. HIDE DEF r
    <2>6. /\ r \in Marking /\ r.color = [t.color EXCEPT ![o] = "black"]
          /\ r.deque = w.deque /\ r.overflowed = w.overflowed /\ r.bar = w.bar
      BY <2>4, <2>5 DEF Marking, Color
    <2>7. Visited(n, o, r, t, n.bar[o] + 1, end)
      BY <1>2, <2>1, <2>2, <2>4, <2>6 DEF Visited
    <2>. QED BY <2>7 DEF r
  <1>3. CASE o \notin Large
    <2>. DEFINE t == Scan(n, o, 1, Size[o])
    <2>1. Marks(n, t, {field[o][i] : i \in 1 .. Size[o]})
      <3>1. 1 \in Nat \ {0} /\ Size[o] \in 0 .. Size[o]
        BY <1>1
      <3>. QED BY <1>1, <3>1, ScanMarks
    <2>2. r = [t EXCEPT !.color[o] = "black"]
      BY <1>3 DEF VisitObject
    <2>. HIDE DEF r, t
    <2>3. t \in Marking
      BY <2>1 DEF Marks
    <2>4. /\ r \in Marking /\ r.color = [t.color EXCEPT ![o] = "black"]
          /\ r.deque = t.deque /\ r.overflowed = t.overflowed /\ r.bar = t.bar
      BY <2>2, <2>3 DEF Marking, Color
    <2>5. 1 \in Nat \ {0} /\ Size[o] \in 0 .. Size[o] /\ ~(Size[o] < Size[o])
      BY <1>1
    <2>6. Visited(n, o, r, t, 1, Size[o])
      BY <1>3, <2>1, <2>4, <2>5 DEF Visited
    <2>. QED BY <2>6 DEF r
  <1>. QED BY <1>2, <1>3

(* One object of the deque processed keeps the marking sound. *)
LEMMA PoppedIsSound ==
    ASSUME HeapOK, NEW n, Sound(n, alive, field), n.deque # <<>>
    PROVE  Sound(Popped(n), alive, field)
  <1>. DEFINE rest == [n EXCEPT !.deque = Front(@)]
              o == Last(n.deque)
              r == VisitObject(rest, o)
  <1>1. n \in Marking /\ Placed(n, alive) /\ Tri(n, field) /\ Queued(n)
    BY DEF Sound
  <1>2. /\ Front(n.deque) \in Seq(Entry) /\ o \in Entry
        /\ Len(Front(n.deque)) <= Capacity
        /\ Range(n.deque) = Range(Front(n.deque)) \cup {o}
    <2>1. n.deque \in Seq(Entry) /\ Len(n.deque) <= Capacity
      BY <1>1 DEF Marking
    <2>2. /\ Front(n.deque) \in Seq(Entry) /\ Last(n.deque) \in Entry
          /\ Len(Front(n.deque)) <= Len(n.deque)
          /\ Range(n.deque) = Range(Front(n.deque)) \cup {Last(n.deque)}
      BY <2>1, RangeFront
    <2>3. Len(Front(n.deque)) <= Capacity
      BY <2>1, <2>2, DequeAssumption
    <2>. QED BY <2>2, <2>3
  <1>3. /\ rest \in Marking /\ rest.color = n.color /\ rest.bar = n.bar
        /\ rest.overflowed = n.overflowed /\ rest.deque = Front(n.deque)
    BY <1>1, <1>2 DEF Marking
  <1>4. Popped(n) = IF o = Filler THEN rest ELSE r
    BY DEF Popped
  <1>. HIDE DEF rest, o
  <1>5. CASE o = Filler
    <2>1. o \notin Obj /\ Popped(n) = rest
      BY <1>4, <1>5, ObjectAssumption
    <2>2. Placed(rest, alive) /\ Tri(rest, field)
      BY <1>1, <1>2, <1>3 DEF Placed, Tri
    <2>3. Queued(rest)
      BY <1>1, <1>2, <1>3, <2>1, ObjectAssumption DEF Queued
    <2>. QED BY <1>3, <2>1, <2>2, <2>3 DEF Sound
  <1>6. CASE o # Filler
    <2>1. o \in Obj /\ o \in alive /\ Popped(n) = r
      BY <1>1, <1>2, <1>4, <1>6 DEF Entry, Placed
    <2>2. Size[o] \in Nat /\ \A i \in 1 .. Size[o] : field[o][i] \in alive \cup {None}
      BY <2>1, FieldsAreValues
    <2>3. rest.bar[o] <= Size[o] /\ rest.bar[o] \in Nat
      BY <1>1, <1>3, <2>1 DEF Placed, Marking
    <2>4. PICK t, from, end : Visited(rest, o, r, t, from, end)
      BY <1>3, <2>1, <2>3, VisitObjectVisits
    <2>. HIDE DEF r
    <2>. DEFINE V == {field[o][i] : i \in from .. end}
    <2>5. V \cap Obj \subseteq alive
      <3>1. \A i \in from .. end : i \in 1 .. Size[o]
        BY <2>2, <2>4 DEF Visited
      <3>. QED BY <2>2, <3>1, ObjectAssumption
    <2>6. Marks(rest, t, V) /\ t \in Marking /\ r \in Marking
      BY <2>4 DEF Visited, Marks
    <2>7. \A x \in Obj : /\ r.color[x] = IF x = o THEN "black" ELSE t.color[x]
                         /\ x # o => r.bar[x] = n.bar[x]
                         /\ n.color[x] # "white" => r.color[x] # "white"
      BY <1>3, <2>1, <2>4, <2>6 DEF Visited, Marks, Marking
    <2>8. Placed(r, alive)
      <3>1. \A x \in Obj : r.color[x] # "white" => x \in alive
        BY <1>1, <1>3, <2>1, <2>5, <2>6, <2>7 DEF Placed, Marks
      <3>2. Range(r.deque) \subseteq alive \cup {Filler}
        BY <1>1, <1>2, <1>3, <2>1, <2>4, <2>5, <2>6 DEF Visited, Placed, Marks
      <3>3. \A x \in Obj : r.bar[x] <= Size[x]
        <4>1. r.bar[o] <= Size[o]
          BY <2>1, <2>2, <2>3, <2>4, <2>6 DEF Visited, Marks, Marking
        <4>. QED BY <1>1, <2>7, <4>1 DEF Placed
      <3>4. ASSUME NEW x \in Large, r.bar[x] > 0 PROVE r.color[x] = "black"
        <4>1. x \in Obj
          BY ObjectAssumption
        <4>2. CASE x # o
          <5>1. n.color[x] = "black"
            BY <1>1, <2>7, <3>4, <4>1, <4>2 DEF Placed
          <5>. QED BY <1>3, <2>6, <2>7, <4>1, <4>2, <5>1 DEF Marks
        <4>. QED BY <2>7, <4>1, <4>2
      <3>. QED BY <3>1, <3>2, <3>3, <3>4 DEF Placed
    <2>9. Tri(r, field)
      <3>. SUFFICES ASSUME NEW x \in Obj \ Cell, r.color[x] = "black", NEW i \in 1 .. Size[x],
                           x \in Large => i <= r.bar[x], field[x][i] # None
                    PROVE  r.color[field[x][i]] # "white"
        BY DEF Tri
      <3>. DEFINE v == field[x][i]
      <3>1. v \in Obj /\ Size[x] \in Nat
        BY FieldsAreValues DEF HeapOK
      <3>2. CASE x # o
        <4>1. n.color[x] = "black" /\ (x \in Large => i <= n.bar[x])
          BY <1>3, <2>6, <2>7, <3>2 DEF Marks
        <4>2. n.color[v] # "white"
          BY <1>1, <4>1 DEF Tri
        <4>. QED BY <2>7, <3>1, <4>2
      <3>3. CASE x = o
        <4>1. CASE i \in from .. end
          <5>1. v \in V
            BY <3>3, <4>1
          <5>2. t.color[v] # "white"
            BY <2>6, <3>1, <5>1 DEF Marks
          <5>. QED BY <2>7, <3>1, <5>2
        <4>2. CASE i \notin from .. end
          <5>1. o \in Large /\ i <= n.bar[o]
            <6>1. o \in Large => i <= end
              BY <2>1, <2>4, <2>6, <3>3 DEF Visited, Marking
            <6>2. o \notin Large => i \in from .. end
              BY <3>3, <2>4 DEF Visited
            <6>. QED BY <1>3, <2>2, <2>3, <2>4, <4>2, <6>1, <6>2 DEF Visited
          <5>2. n.color[o] = "black"
            <6>1. n.bar[o] > 0
              BY <1>3, <2>3, <5>1
            <6>. QED BY <1>1, <5>1, <6>1 DEF Placed
          <5>3. n.color[v] # "white"
            BY <1>1, <3>3, <5>1, <5>2 DEF Tri
          <5>. QED BY <2>7, <3>1, <5>3
        <4>. QED BY <4>1, <4>2
      <3>. QED BY <3>2, <3>3
    <2>10. Queued(r)
      <3>1. ASSUME NEW x \in Obj, r.color[x] = "grey"
            PROVE  x \in Range(r.deque) \/ r.overflowed
        <4>1. x # o /\ t.color[x] = "grey"
          BY <2>7, <3>1
        <4>2. CASE n.color[x] = "white"
          <5>1. x \in V \cap Obj
            BY <1>3, <2>6, <4>1, <4>2 DEF Marks
          <5>2. x \in Range(t.deque) \/ t.overflowed
            BY <1>3, <2>6, <4>2, <5>1 DEF Marks
          <5>. QED BY <2>4, <5>2 DEF Visited
        <4>3. CASE n.color[x] # "white"
          <5>1. n.color[x] = "grey"
            BY <1>3, <2>6, <4>1, <4>3 DEF Marks
          <5>2. x \in Range(rest.deque) \/ rest.overflowed
            BY <1>1, <1>2, <1>3, <4>1, <5>1 DEF Queued
          <5>. QED BY <2>4, <2>6, <5>2 DEF Visited, Marks
        <4>. QED BY <4>2, <4>3
      <3>2. ASSUME NEW x \in Large, r.color[x] = "black", r.bar[x] < Size[x]
            PROVE  x \in Range(r.deque)
        <4>1. x \in Obj
          BY ObjectAssumption
        <4>2. CASE x = o
          <5>1. end < Size[o]
            BY <2>1, <2>4, <2>6, <3>2, <4>2 DEF Visited, Marking
          <5>. QED BY <2>4, <4>2, <5>1 DEF Visited
        <4>3. CASE x # o
          <5>1. n.color[x] = "black" /\ n.bar[x] < Size[x]
            BY <1>3, <2>6, <2>7, <3>2, <4>1, <4>3 DEF Marks
          <5>2. x \in Range(rest.deque)
            BY <1>1, <1>2, <1>3, <4>3, <5>1 DEF Queued
          <5>. QED BY <2>4, <2>6, <5>2 DEF Visited, Marks
        <4>. QED BY <4>2, <4>3
      <3>. QED BY <3>1, <3>2 DEF Queued
    <2>. QED BY <2>1, <2>6, <2>8, <2>9, <2>10 DEF Sound
  <1>. QED BY <1>5, <1>6

-----------------------------------------------------------------------------
(* Searching the heap. *)

(* One element more in a finite set. *)
LEMMA OneMore ==
    ASSUME NEW A, NEW x, IsFiniteSet(A), x \notin A
    PROVE  Cardinality(A \cup {x}) = Cardinality(A) + 1
  BY FS_AddElement

(* Found as a function of the steps taken. *)
LEMMA FoundSteps ==
    ASSUME NEW from, NEW inside
    PROVE  \E g : /\ Found(from, inside) = g[Cardinality(Obj)]
                  /\ g[0] = from \cap inside
                  /\ \A k \in 1 .. Cardinality(Obj) :
                        g[k] = g[k - 1] \cup (FieldsOf(g[k - 1]) \cap inside)
  <1>. DEFINE C == Cardinality(Obj)
              IsFound(g, l) ==
                  g = [k \in 0 .. l |->
                          IF k = 0 THEN from \cap inside
                          ELSE g[k - 1] \cup (FieldsOf(g[k - 1]) \cap inside)]
              found == CHOOSE g : IsFound(g, C)
  <1>1. C \in Nat
    BY ObjectAssumption, FS_CardinalityType
  <1>2. \A l \in Nat : \E g : IsFound(g, l)
    <2>. DEFINE Bad == {l \in Nat : ~ \E g : IsFound(g, l)}
    <2>1. SUFFICES ASSUME Bad # {} PROVE FALSE
      OBVIOUS
    <2>2. PICK l \in Bad : \A k \in Bad : l <= k
      BY <2>1, LeastNatural
    <2>3. CASE l = 0
      <3>. DEFINE g == [k \in 0 .. 0 |-> from \cap inside]
      <3>1. IsFound(g, 0)
        OBVIOUS
      <3>. QED BY <2>3, <3>1
    <2>4. CASE l # 0
      <3>0. l \in Nat
        OBVIOUS
      <3>1. l - 1 \in Nat /\ l - 1 \notin Bad
        <4>1. l - 1 \in Nat /\ ~(l <= l - 1)
          BY <2>4, <3>0
        <4>. QED BY <2>2, <4>1
      <3>2. PICK g : IsFound(g, l - 1)
        BY <3>1
      <3>. DEFINE h == [k \in 0 .. l |->
                           IF k = l THEN g[l - 1] \cup (FieldsOf(g[l - 1]) \cap inside)
                           ELSE g[k]]
      <3>3. ASSUME NEW k \in 0 .. l
            PROVE  h[k] = IF k = 0 THEN from \cap inside
                          ELSE h[k - 1] \cup (FieldsOf(h[k - 1]) \cap inside)
        <4>1. CASE k = l
          <5>1. h[k - 1] = g[l - 1]
            BY <2>4, <4>1
          <5>. QED BY <2>4, <4>1, <5>1
        <4>2. CASE k # l
          <5>1. k \in 0 .. (l - 1) /\ h[k] = g[k]
            BY <4>2
          <5>2. g[k] = IF k = 0 THEN from \cap inside
                       ELSE g[k - 1] \cup (FieldsOf(g[k - 1]) \cap inside)
            BY <3>2, <5>1
          <5>3. k # 0 => h[k - 1] = g[k - 1]
            BY <5>1
          <5>. QED BY <5>1, <5>2, <5>3
        <4>. QED BY <4>1, <4>2
      <3>4. IsFound(h, l)
        BY <3>3
      <3>. QED BY <2>2, <3>4
    <2>. QED BY <2>3, <2>4
  <1>3. IsFound(found, C)
    BY <1>1, <1>2
  <1>4. Found(from, inside) = found[C]
    BY DEF Found
  <1>. HIDE DEF found
  <1>5. /\ found[0] = from \cap inside
        /\ \A k \in 1 .. C : found[k] = found[k - 1] \cup (FieldsOf(found[k - 1]) \cap inside)
    <2>1. 0 \in 0 .. C /\ \A k \in 1 .. C : k \in 0 .. C /\ k # 0
      BY <1>1
    <2>. HIDE DEF C
    <2>. QED BY <1>3, <2>1
  <1>. QED BY <1>4, <1>5

(* A search takes in the fields of what it finds, and nothing without need:  *)
(* each step finds more until nothing is left, so as many steps as there   *)
(* are objects are enough.                                                 *)
LEMMA FoundIsClosure ==
    ASSUME NEW from, NEW inside \in SUBSET Obj
    PROVE  /\ from \cap inside \subseteq Found(from, inside)
           /\ Found(from, inside) \subseteq inside
           /\ FieldsOf(Found(from, inside)) \cap inside \subseteq Found(from, inside)
           /\ \A X : from \cap inside \subseteq X /\ FieldsOf(X) \cap inside \subseteq X
                     => Found(from, inside) \subseteq X
  <1>. DEFINE C == Cardinality(Obj)
  <1>1. C \in Nat /\ IsFiniteSet(Obj)
    BY ObjectAssumption, FS_CardinalityType
  <1>2. PICK g : /\ Found(from, inside) = g[C]
                 /\ g[0] = from \cap inside
                 /\ \A k \in 1 .. C : g[k] = g[k - 1] \cup (FieldsOf(g[k - 1]) \cap inside)
    BY FoundSteps
  <1>. DEFINE Closed(A) == FieldsOf(A) \cap inside \subseteq A
              Good(k) == /\ g[k] \subseteq inside /\ from \cap inside \subseteq g[k]
                         /\ Closed(g[k]) \/ Cardinality(g[k]) >= k
  <1>3. \A k \in 0 .. C : Good(k)
    <2>. DEFINE Bad == {k \in 0 .. C : ~Good(k)}
    <2>1. SUFFICES ASSUME Bad # {} PROVE FALSE
      OBVIOUS
    <2>2. PICK k \in Bad : \A l \in Bad : k <= l
      <3>1. Bad \in SUBSET Nat
        BY <1>1
      <3>. HIDE DEF Bad
      <3>. QED BY <2>1, <3>1, LeastNatural
    <2>3. CASE k = 0
      <3>1. Cardinality(g[0]) \in Nat
        <4>1. IsFiniteSet(g[0])
          BY <1>1, <1>2, FS_Subset
        <4>. QED BY <4>1, FS_CardinalityType
      <3>2. Good(0)
        BY <1>2, <3>1
      <3>. QED BY <2>2, <2>3, <3>2
    <2>4. CASE k # 0
      <3>1. k - 1 \in 0 .. C /\ Good(k - 1) /\ k \in 1 .. C
        BY <1>1, <2>2, <2>4
      <3>2. g[k] = g[k - 1] \cup (FieldsOf(g[k - 1]) \cap inside)
        BY <1>2, <3>1
      <3>3. g[k] \subseteq inside /\ from \cap inside \subseteq g[k]
        BY <3>1, <3>2
      <3>4. CASE Closed(g[k - 1])
        <4>1. g[k] = g[k - 1]
          BY <3>2, <3>4
        <4>2. Good(k)
          BY <3>3, <3>4, <4>1
        <4>. QED BY <2>2, <4>2
      <3>5. CASE ~Closed(g[k - 1])
        <4>1. PICK x \in FieldsOf(g[k - 1]) \cap inside : x \notin g[k - 1]
          BY <3>5
        <4>2. IsFiniteSet(g[k - 1]) /\ IsFiniteSet(g[k])
          BY <1>1, <3>1, <3>3, FS_Subset
        <4>3. Cardinality(g[k - 1] \cup {x}) = Cardinality(g[k - 1]) + 1
          BY <4>1, <4>2, OneMore
        <4>4. g[k - 1] \cup {x} \subseteq g[k]
          BY <3>2, <4>1
        <4>5. Cardinality(g[k - 1] \cup {x}) <= Cardinality(g[k])
          BY <4>2, <4>4, FS_Subset
        <4>6. Cardinality(g[k]) >= k
          <5>1. Cardinality(g[k - 1]) >= k - 1
            BY <3>1, <3>5
          <5>2. Cardinality(g[k - 1]) \in Nat /\ Cardinality(g[k]) \in Nat /\ k \in Nat
            BY <1>1, <3>1, <4>2, FS_CardinalityType
          <5>. QED BY <4>3, <4>5, <5>1, <5>2
        <4>7. Good(k)
          BY <3>3, <4>6
        <4>. QED BY <2>2, <4>7
      <3>. QED BY <3>4, <3>5
    <2>. QED BY <2>3, <2>4
  <1>4. Good(C)
    BY <1>1, <1>3
  <1>5. Closed(g[C])
    <2>1. CASE Cardinality(g[C]) >= C
      <3>1. g[C] \in SUBSET Obj
        BY <1>4
      <3>2. Cardinality(g[C]) <= C /\ IsFiniteSet(g[C])
        BY <1>1, <3>1, FS_Subset
      <3>3. Cardinality(g[C]) = C
        BY <1>1, <2>1, <3>2, FS_CardinalityType
      <3>4. g[C] = Obj
        BY <1>1, <3>1, <3>3, FS_Subset
      <3>. QED BY <3>4
    <2>. QED BY <1>4, <2>1
  <1>6. ASSUME NEW X, from \cap inside \subseteq X, FieldsOf(X) \cap inside \subseteq X
        PROVE  g[C] \subseteq X
    <2>. DEFINE Bad == {k \in 0 .. C : ~(g[k] \subseteq X)}
    <2>1. Bad = {}
      <3>1. SUFFICES ASSUME Bad # {} PROVE FALSE
        OBVIOUS
      <3>2. PICK k \in Bad : \A l \in Bad : k <= l
        <4>1. Bad \in SUBSET Nat
          BY <1>1
        <4>. HIDE DEF Bad
        <4>. QED BY <3>1, <4>1, LeastNatural
      <3>3. k # 0
        BY <1>2, <1>6, <3>2
      <3>4. k - 1 \in 0 .. C /\ g[k - 1] \subseteq X /\ k \in 1 .. C
        BY <1>1, <3>2, <3>3
      <3>5. FieldsOf(g[k - 1]) \subseteq FieldsOf(X)
        BY <3>4 DEF FieldsOf
      <3>6. g[k] \subseteq X
        BY <1>2, <1>6, <3>4, <3>5
      <3>. QED BY <3>2, <3>6
    <2>. QED BY <1>1, <2>1
  <1>. QED BY <1>2, <1>4, <1>5, <1>6

(* The fields of an object, as elements of FieldsOf. *)
LEMMA FieldsOfContains ==
    ASSUME HeapOK, NEW S, NEW o \in S, o \in Obj, NEW i \in 1 .. Size[o]
    PROVE  field[o][i] \in FieldsOf(S)
  BY FieldsAreValues DEF FieldsOf, Range

(* FieldsOf holds nothing but fields. *)
LEMMA FieldsOfOnly ==
    ASSUME HeapOK, NEW S \in SUBSET Obj, NEW v \in FieldsOf(S)
    PROVE  \E o \in S : \E i \in 1 .. Size[o] : v = field[o][i]
  <1>1. PICK o \in S : v \in Range(field[o])
    BY DEF FieldsOf
  <1>2. DOMAIN field[o] = 1 .. Size[o]
    BY FieldsAreValues
  <1>. QED BY <1>1, <1>2 DEF Range

-----------------------------------------------------------------------------
(* Filtering and enumerating. *)

(* Entries, as a function of the prefixes of the sequence. *)
LEMMA EntriesSteps ==
    ASSUME NEW q, NEW X, Len(q) \in Nat
    PROVE  \E g : /\ Entries(q, X) = g[Len(q)]
                  /\ g[0] = <<>>
                  /\ \A k \in 1 .. Len(q) :
                        g[k] = IF q[k] \in X THEN Append(g[k - 1], q[k]) ELSE g[k - 1]
  <1>. DEFINE N == Len(q)
              IsEntries(g, l) ==
                  g = [k \in 0 .. l |->
                          IF k = 0 THEN <<>>
                          ELSE IF q[k] \in X THEN Append(g[k - 1], q[k]) ELSE g[k - 1]]
              entries == CHOOSE g : IsEntries(g, N)
  <1>2. \A l \in Nat : \E g : IsEntries(g, l)
    <2>. DEFINE Bad == {l \in Nat : ~ \E g : IsEntries(g, l)}
    <2>1. SUFFICES ASSUME Bad # {} PROVE FALSE
      OBVIOUS
    <2>2. PICK l \in Bad : \A k \in Bad : l <= k
      BY <2>1, LeastNatural
    <2>3. CASE l = 0
      <3>. DEFINE g == [k \in 0 .. 0 |-> <<>>]
      <3>1. IsEntries(g, 0)
        OBVIOUS
      <3>. QED BY <2>3, <3>1
    <2>4. CASE l # 0
      <3>0. l \in Nat
        OBVIOUS
      <3>1. l - 1 \in Nat /\ l - 1 \notin Bad
        <4>1. l - 1 \in Nat /\ ~(l <= l - 1)
          BY <2>4, <3>0
        <4>. QED BY <2>2, <4>1
      <3>2. PICK g : IsEntries(g, l - 1)
        BY <3>1
      <3>. DEFINE h == [k \in 0 .. l |->
                           IF k = l THEN IF q[l] \in X THEN Append(g[l - 1], q[l]) ELSE g[l - 1]
                           ELSE g[k]]
      <3>3. ASSUME NEW k \in 0 .. l
            PROVE  h[k] = IF k = 0 THEN <<>>
                          ELSE IF q[k] \in X THEN Append(h[k - 1], q[k]) ELSE h[k - 1]
        <4>1. CASE k = l
          <5>1. h[k - 1] = g[l - 1]
            BY <2>4, <4>1
          <5>. QED BY <2>4, <4>1, <5>1
        <4>2. CASE k # l
          <5>1. k \in 0 .. (l - 1) /\ h[k] = g[k]
            BY <4>2
          <5>2. g[k] = IF k = 0 THEN <<>>
                       ELSE IF q[k] \in X THEN Append(g[k - 1], q[k]) ELSE g[k - 1]
            BY <3>2, <5>1
          <5>3. k # 0 => h[k - 1] = g[k - 1]
            BY <5>1
          <5>. QED BY <5>1, <5>2, <5>3
        <4>. QED BY <4>1, <4>2
      <3>4. IsEntries(h, l)
        BY <3>3
      <3>. QED BY <2>2, <3>4
    <2>. QED BY <2>3, <2>4
  <1>3. IsEntries(entries, N)
    BY <1>2
  <1>4. Entries(q, X) = entries[N]
    BY DEF Entries
  <1>. HIDE DEF entries
  <1>5. /\ entries[0] = <<>>
        /\ \A k \in 1 .. N :
              entries[k] = IF q[k] \in X THEN Append(entries[k - 1], q[k]) ELSE entries[k - 1]
    <2>1. 0 \in 0 .. N /\ \A k \in 1 .. N : k \in 0 .. N /\ k # 0
      OBVIOUS
    <2>. HIDE DEF N
    <2>. QED BY <1>3, <2>1
  <1>. QED BY <1>4, <1>5

(* The entries that are in a set, and no more of them than there were. *)
LEMMA EntriesAre ==
    ASSUME NEW S, NEW q \in Seq(S), NEW X
    PROVE  /\ Entries(q, X) \in Seq(S)
           /\ Len(Entries(q, X)) <= Len(q)
           /\ Range(Entries(q, X)) = Range(q) \cap X
  <1>1. PICK g : /\ Entries(q, X) = g[Len(q)]
                 /\ g[0] = <<>>
                 /\ \A k \in 1 .. Len(q) :
                       g[k] = IF q[k] \in X THEN Append(g[k - 1], q[k]) ELSE g[k - 1]
    <2>1. Len(q) \in Nat
      OBVIOUS
    <2>. QED BY <2>1, EntriesSteps
  <1>. DEFINE Good(k) == /\ g[k] \in Seq(S) /\ Len(g[k]) <= k
                         /\ Range(g[k]) = {q[i] : i \in 1 .. k} \cap X
              Bad == {k \in 0 .. Len(q) : ~Good(k)}
  <1>2. Bad = {}
    <2>1. SUFFICES ASSUME Bad # {} PROVE FALSE
      OBVIOUS
    <2>2. PICK l \in Bad : \A k \in Bad : l <= k
      <3>1. Bad \in SUBSET Nat
        OBVIOUS
      <3>. HIDE DEF Bad
      <3>. QED BY <2>1, <3>1, LeastNatural
    <2>3. CASE l = 0
      <3>1. {q[i] : i \in 1 .. 0} = {} /\ Range(<<>>) = {}
        BY DEF Range
      <3>2. Good(0)
        BY <1>1, <3>1
      <3>. QED BY <2>2, <2>3, <3>2
    <2>4. CASE l # 0
      <3>. DEFINE k == l - 1
      <3>1. k \in Nat /\ l \in 1 .. Len(q) /\ l = k + 1 /\ k \notin Bad /\ k \in 0 .. Len(q)
        <4>1. l \in 0 .. Len(q) /\ Len(q) \in Nat
          OBVIOUS
        <4>2. k \in Nat /\ l \in 1 .. Len(q) /\ l = k + 1 /\ ~(l <= k) /\ k \in 0 .. Len(q)
          BY <2>4, <4>1
        <4>. QED BY <2>2, <4>2
      <3>2. Good(k) /\ q[l] \in S
        BY <3>1
      <3>3. g[l] = IF q[l] \in X THEN Append(g[k], q[l]) ELSE g[k]
        BY <1>1, <3>1
      <3>. HIDE DEF k
      <3>4. {q[i] : i \in 1 .. l} = {q[i] : i \in 1 .. k} \cup {q[l]}
        <4>1. 1 .. l = (1 .. k) \cup {l}
          BY <3>1
        <4>. QED BY <4>1
      <3>5. CASE q[l] \in X
        <4>1. g[l] \in Seq(S) /\ Len(g[l]) = Len(g[k]) + 1 /\ Range(g[l]) = Range(g[k]) \cup {q[l]}
          BY <3>2, <3>3, <3>5, RangeAppend
        <4>2. Len(g[l]) <= l
          BY <3>1, <3>2, <4>1
        <4>3. Good(l)
          BY <3>2, <3>4, <3>5, <4>1, <4>2
        <4>. QED BY <2>2, <4>3
      <3>6. CASE q[l] \notin X
        <4>1. Len(g[l]) <= l
          BY <3>1, <3>2, <3>3, <3>6
        <4>2. Good(l)
          BY <3>2, <3>3, <3>4, <3>6, <4>1
        <4>. QED BY <2>2, <4>2
      <3>. QED BY <3>5, <3>6
    <2>. QED BY <2>3, <2>4
  <1>3. Good(Len(q))
    <2>1. Len(q) \in 0 .. Len(q)
      OBVIOUS
    <2>. QED BY <1>2, <2>1
  <1>4. Range(q) = {q[i] : i \in 1 .. Len(q)}
    BY RangeIs
  <1>. QED BY <1>1, <1>3, <1>4

(* SetToSeq lists a finite set. *)
LEMMA SetToSeqLists ==
    ASSUME NEW S, IsFiniteSet(S)
    PROVE  SetToSeq(S) \in Seq(S) /\ Range(SetToSeq(S)) \subseteq S
  <1>1. Cardinality(S) \in Nat
    BY FS_CardinalityType
  <1>2. \E f \in [1 .. Cardinality(S) -> S] : IsInjective(f)
    <2>1. ExistsBijection(1 .. Cardinality(S), S)
      BY <1>1, FS_CardinalityType
    <2>2. PICK f \in Bijection(1 .. Cardinality(S), S) : TRUE
      BY <2>1 DEF ExistsBijection
    <2>. QED BY <2>2 DEF Bijection, Injection, IsInjective
  <1>3. SetToSeq(S) \in [1 .. Cardinality(S) -> S]
    BY <1>2 DEF SetToSeq
  <1>. QED BY <1>1, <1>3 DEF Range

-----------------------------------------------------------------------------
(* Sound markings. *)

(* With nothing marked nothing can be wrong. *)
LEMMA CleanIsSound ==
    ASSUME NEW A, NEW f
    PROVE  Sound(Clean, A, f)
  <1>1. /\ Clean.color = [o \in Obj |-> "white"] /\ Clean.deque = <<>>
        /\ Clean.overflowed = FALSE /\ Clean.bar = [o \in Obj |-> 0]
    BY DEF Clean
  <1>2. Clean \in Marking
    <2>1. <<>> \in Seq(Entry) /\ Len(<<>>) <= Capacity
      BY DequeAssumption
    <2>. QED BY <2>1 DEF Clean, Marking, Color
  <1>3. Range(Clean.deque) = {}
    BY <1>1 DEF Range
  <1>4. Placed(Clean, A) /\ Tri(Clean, f) /\ Queued(Clean)
    BY <1>1, <1>3, ObjectAssumption DEF Placed, Tri, Queued
  <1>. QED BY <1>2, <1>4 DEF Sound

(* Marking allocated objects keeps a marking sound, and mends it where a     *)
(* scanned field of a black object holds one of them.                      *)
LEMMA MarksSound ==
    ASSUME NEW n \in Marking, NEW r, NEW V, NEW A, NEW f, Marks(n, r, V), V \cap Obj \subseteq A,
           Placed(n, A), Queued(n),
           \A o \in Obj \ Cell : n.color[o] = "black" =>
               \A i \in 1 .. Size[o] :
                   (o \in Large => i <= n.bar[o]) /\ f[o][i] # None =>
                       f[o][i] \in Obj /\ (n.color[f[o][i]] # "white" \/ f[o][i] \in V)
    PROVE  Sound(r, A, f)
  <1>1. r \in Marking /\ r.bar = n.bar
    BY DEF Marks
  <1>2. \A o \in Obj : /\ n.color[o] # "white" => r.color[o] = n.color[o]
                       /\ n.color[o] = "white" /\ o \in V => r.color[o] = "grey"
                       /\ n.color[o] = "white" /\ o \notin V => r.color[o] = "white"
    BY DEF Marks
  <1>3. Placed(r, A)
    <2>1. \A o \in Obj : r.color[o] # "white" => o \in A
      BY <1>2 DEF Placed
    <2>2. Range(r.deque) \subseteq A \cup {Filler}
      BY DEF Placed, Marks
    <2>3. \A o \in Large : r.bar[o] > 0 => r.color[o] = "black"
      BY <1>1, <1>2, ObjectAssumption DEF Placed
    <2>. QED BY <1>1, <2>1, <2>2, <2>3 DEF Placed
  <1>4. Tri(r, f)
    <2>. SUFFICES ASSUME NEW o \in Obj \ Cell, r.color[o] = "black", NEW i \in 1 .. Size[o],
                         o \in Large => i <= r.bar[o], f[o][i] # None
                  PROVE  r.color[f[o][i]] # "white"
      BY DEF Tri
    <2>1. n.color[o] = "black"
      BY <1>2
    <2>2. f[o][i] \in Obj /\ (n.color[f[o][i]] # "white" \/ f[o][i] \in V)
      BY <1>1, <2>1
    <2>. QED BY <1>2, <2>2
  <1>5. Queued(r)
    <2>1. ASSUME NEW o \in Obj, r.color[o] = "grey" PROVE o \in Range(r.deque) \/ r.overflowed
      <3>1. CASE n.color[o] = "white"
        <4>1. o \in V \cap Obj
          BY <1>2, <2>1, <3>1
        <4>. QED BY <3>1, <4>1 DEF Marks
      <3>2. CASE n.color[o] # "white"
        <4>1. n.color[o] = "grey"
          BY <1>2, <2>1, <3>2
        <4>2. o \in Range(n.deque) \/ n.overflowed
          BY <4>1 DEF Queued
        <4>. QED BY <4>2 DEF Marks
      <3>. QED BY <3>1, <3>2
    <2>2. ASSUME NEW o \in Large, r.color[o] = "black", r.bar[o] < Size[o]
          PROVE  o \in Range(r.deque)
      <3>1. n.color[o] = "black" /\ n.bar[o] < Size[o]
        BY <1>1, <1>2, <2>2, ObjectAssumption
      <3>2. o \in Range(n.deque)
        BY <3>1 DEF Queued
      <3>. QED BY <3>2 DEF Marks
    <2>. QED BY <2>1, <2>2 DEF Queued
  <1>. QED BY <1>1, <1>3, <1>4, <1>5 DEF Sound

(* An object that is to be scanned again may change all its fields. *)
LEMMA RescanSound ==
    ASSUME NEW n \in Marking, NEW A, NEW f, NEW g, NEW o \in Obj, o \in A,
           Placed(n, A), Tri(n, f), o \in Large => n.bar[o] = 0,
           \A x \in Obj : x # o => g[x] = f[x],
           \A x \in Obj : x # o /\ n.color[x] = "grey" => x \in Range(n.deque) \/ n.overflowed,
           \A x \in Large : x # o /\ n.color[x] = "black" /\ n.bar[x] < Size[x]
               => x \in Range(n.deque)
    PROVE  Sound(BlackToGreyAndUnshift(n, o), A, g)
  <1>. DEFINE r == BlackToGreyAndUnshift(n, o)
  <1>1. /\ r \in Marking /\ r.bar = n.bar
        /\ r.color = [n.color EXCEPT ![o] = "grey"]
        /\ Range(n.deque) \subseteq Range(r.deque)
        /\ Range(r.deque) \subseteq Range(n.deque) \cup {o}
        /\ n.overflowed => r.overflowed
        /\ o \in Range(r.deque) \/ r.overflowed
    BY UnshiftGreyMarks
  <1>. HIDE DEF r
  <1>2. \A x \in Obj : r.color[x] = IF x = o THEN "grey" ELSE n.color[x]
    BY <1>1 DEF Marking
  <1>3. Placed(r, A)
    <2>1. \A x \in Large : r.bar[x] > 0 => r.color[x] = "black"
      BY <1>1, <1>2, ObjectAssumption DEF Placed
    <2>. QED BY <1>1, <1>2, <2>1 DEF Placed
  <1>4. Tri(r, g)
    <2>. SUFFICES ASSUME NEW x \in Obj \ Cell, r.color[x] = "black", NEW i \in 1 .. Size[x],
                         x \in Large => i <= r.bar[x], g[x][i] # None
                  PROVE  r.color[g[x][i]] # "white"
      BY DEF Tri
    <2>1. x # o /\ n.color[x] = "black" /\ g[x] = f[x]
      BY <1>2
    <2>2. n.color[f[x][i]] # "white"
      BY <1>1, <2>1 DEF Tri
    <2>3. r.color[f[x][i]] = n.color[f[x][i]] \/ f[x][i] = o
      BY <1>1 DEF Marking
    <2>. QED BY <1>2, <2>1, <2>2, <2>3
  <1>5. Queued(r)
    BY <1>1, <1>2 DEF Queued
  <1>. QED BY <1>1, <1>3, <1>4, <1>5 DEF Sound, r

(* A grey object pushed: it is queued or the overflow recorded. *)
LEMMA PushQueues ==
    ASSUME NEW n \in Marking, NEW o \in Obj
    PROVE  LET r == PushGrey(n, o)
           IN  /\ r \in Marking /\ r.bar = n.bar /\ r.color = n.color
               /\ Range(n.deque) \subseteq Range(r.deque)
               /\ Range(r.deque) \subseteq Range(n.deque) \cup {o}
               /\ n.overflowed => r.overflowed
               /\ o \in Range(r.deque) \/ r.overflowed
  <1>. DEFINE r == PushGrey(n, o)
  <1>1. n.deque \in Seq(Entry) /\ Len(n.deque) <= Capacity /\ o \in Entry
    BY DEF Marking, Entry
  <1>2. CASE IsFull(n)
    <2>1. r = [n EXCEPT !.overflowed = TRUE]
      BY <1>2 DEF PushGrey
    <2>. HIDE DEF r
    <2>2. /\ r \in Marking /\ r.bar = n.bar /\ r.deque = n.deque /\ r.overflowed
          /\ r.color = n.color
      BY <2>1 DEF Marking
    <2>. QED BY <2>2 DEF r
  <1>3. CASE ~IsFull(n)
    <2>1. r = [n EXCEPT !.deque = Append(@, o)]
      BY <1>3 DEF PushGrey
    <2>2. /\ Append(n.deque, o) \in Seq(Entry)
          /\ Len(Append(n.deque, o)) = Len(n.deque) + 1
          /\ Range(Append(n.deque, o)) = Range(n.deque) \cup {o}
      BY <1>1, RangeAppend
    <2>3. Len(n.deque) + 1 <= Capacity
      BY <1>1, <1>3, DequeAssumption DEF IsFull
    <2>. HIDE DEF r
    <2>4. /\ r.color = n.color /\ r.bar = n.bar /\ r.overflowed = n.overflowed
          /\ r.deque = Append(n.deque, o) /\ r \in Marking
      BY <2>1, <2>2, <2>3 DEF Marking
    <2>. QED BY <2>2, <2>4 DEF r
  <1>. QED BY <1>2, <1>3

(* What the final collection keeps is closed: it keeps every root, and what  *)
(* the fields of the kept objects hold.                                    *)
LEMMA SurvivorsAreClosed ==
    ASSUME IInv, gc = "mark"
    PROVE  /\ Survivors \subseteq alive /\ roots \subseteq Survivors
           /\ \A o \in Survivors : \A i \in 1 .. Size[o] : field[o][i] \in Survivors \cup {None}
  <1>. DEFINE from == roots \cup FieldsOf(Unscanned)
              inside == alive \ Marked
              F == Found(from, inside)
  <1>1. HeapOK /\ m \in Marking /\ Placed(m, alive) /\ Tri(m, field) /\ Queued(m)
        /\ m.deque = <<>> /\ Range(m.deque) = {}
    BY DEF IInv, Sound, PhaseOK, Range
  <1>2. Marked \subseteq alive /\ alive \subseteq Obj /\ roots \subseteq alive
    BY <1>1 DEF Marked, Placed, HeapOK
  <1>3. inside \in SUBSET Obj
    BY <1>2
  <1>4. /\ from \cap inside \subseteq F /\ F \subseteq inside
        /\ FieldsOf(F) \cap inside \subseteq F
    BY <1>3, FoundIsClosure
  <1>5. Survivors = Marked \cup F
    BY DEF Survivors
  <1>. HIDE DEF F
  <1>6. ASSUME NEW o \in Survivors, NEW i \in 1 .. Size[o], field[o][i] # None
        PROVE  field[o][i] \in Survivors
    <2>. DEFINE v == field[o][i]
    <2>1. o \in Obj /\ v \in alive
      BY <1>1, <1>2, <1>4, <1>5, <1>6, FieldsAreValues
    <2>2. CASE v \in Marked
      BY <1>5, <2>2
    <2>3. CASE v \notin Marked /\ o \in F
      <3>1. v \in FieldsOf(F)
        BY <1>1, <2>1, <2>3, FieldsOfContains
      <3>. QED BY <1>4, <1>5, <2>1, <2>3, <3>1
    <2>4. CASE v \notin Marked /\ o \in Marked
      <3>1. o \in Unscanned
        <4>1. CASE o \in Cell
          BY <2>4, <4>1 DEF Unscanned, Marked
        <4>2. CASE o \notin Cell /\ m.color[o] = "grey"
          BY <1>1, <2>1, <4>2 DEF Unscanned, Queued
        <4>3. CASE o \notin Cell /\ m.color[o] # "grey"
          <5>1. m.color[o] = "black"
            BY <1>1, <2>1, <2>4, <4>3 DEF Marked, Marking, Color
          <5>2. o \in Large => i <= m.bar[o]
            <6>1. o \in Large => m.bar[o] = Size[o]
              BY <1>1, <2>1, <5>1, ObjectAssumption DEF Queued, Placed, Marking
            <6>. QED BY <6>1, <2>1, ObjectAssumption
          <5>3. m.color[v] # "white"
            BY <1>1, <1>6, <2>1, <4>3, <5>1, <5>2 DEF Tri
          <5>. QED BY <1>2, <2>1, <2>4, <5>3 DEF Marked
        <4>. QED BY <4>1, <4>2, <4>3
      <3>2. v \in FieldsOf(Unscanned)
        BY <1>1, <2>1, <3>1, FieldsOfContains
      <3>. QED BY <1>4, <1>5, <2>1, <2>4, <3>2
    <2>. QED BY <1>5, <2>2, <2>3, <2>4
  <1>7. Survivors \subseteq alive /\ roots \subseteq Survivors
    BY <1>2, <1>4, <1>5
  <1>. QED BY <1>6, <1>7

-----------------------------------------------------------------------------
(* The steps of the mutator. *)

(* What an invariant state offers to every step. *)
LEMMA FromIInv ==
    ASSUME IInv
    PROVE  /\ HeapOK /\ PhaseOK /\ Sound(m, alive, field)
           /\ m \in Marking /\ Placed(m, alive) /\ Tri(m, field) /\ Queued(m)
           /\ m.color \in [Obj -> Color] /\ m.bar \in [Obj -> Nat]
           /\ \A o \in Obj : m.color[o] # "white" => IsMarking \/ gc = "mark"
  <1>1. /\ HeapOK /\ PhaseOK /\ Sound(m, alive, field)
        /\ m \in Marking /\ Placed(m, alive) /\ Tri(m, field) /\ Queued(m)
    BY DEF IInv, Sound
  <1>2. m.color \in [Obj -> Color] /\ m.bar \in [Obj -> Nat]
    BY <1>1 DEF Marking
  <1>3. \A o \in Obj : m.color[o] # "white" => IsMarking \/ gc = "mark"
    BY <1>1 DEF PhaseOK, Clean
  <1>. QED BY <1>1, <1>2, <1>3

(* Allocation: the new object is white and holds nothing allocated later. *)
LEMMA AllocateStep ==
    ASSUME IInv, NEW o \in Obj, Allocate(o)
    PROVE  IInv'
  <1>1. /\ HeapOK /\ PhaseOK /\ m \in Marking /\ Placed(m, alive) /\ Tri(m, field) /\ Queued(m)
    BY FromIInv
  <1>2. HeapOK'
    <2>1. \A x \in Obj : field'[x] \in [1 .. Size[x] -> alive' \cup {None}]
      BY <1>1 DEF Allocate, HeapOK
    <2>. QED BY <1>1, <2>1 DEF Allocate, HeapOK
  <1>3. Sound(m', alive', field')
    BY <1>1 DEF Allocate, Sound, Placed
  <1>4. PhaseOK'
    BY <1>1 DEF Allocate, PhaseOK, IsMarking
  <1>. QED BY <1>2, <1>3, <1>4 DEF IInv

(* Handles come and go among the allocated objects. *)
LEMMA ChangeRootsStep ==
    ASSUME IInv, ChangeRoots
    PROVE  IInv'
  <1>1. /\ HeapOK /\ PhaseOK /\ Sound(m, alive, field)
    BY FromIInv
  <1>2. roots' \subseteq alive
    <2>1. CASE \E o \in roots : roots' = roots \ {o}
      BY <1>1, <2>1 DEF HeapOK
    <2>2. CASE \E o \in roots : \E i \in 1 .. Size[o] :
                  field[o][i] # None /\ roots' = roots \cup {field[o][i]}
      BY <1>1, <2>2 DEF HeapOK
    <2>. QED BY <2>1, <2>2 DEF ChangeRoots
  <1>3. HeapOK' /\ Sound(m', alive', field') /\ PhaseOK'
    BY <1>1, <1>2 DEF ChangeRoots, HeapOK, PhaseOK, IsMarking
  <1>. QED BY <1>3 DEF IInv

(* A store keeps the heap closed. *)
LEMMA WriteKeepsHeap ==
    ASSUME IInv, NEW o \in Obj, NEW i \in 1 .. Size[o], NEW value \in Obj \cup {None},
           Write(o, i, value)
    PROVE  /\ HeapOK' /\ o \in alive /\ value \in alive \cup {None}
           /\ \A x \in Obj : x # o => field'[x] = field[x]
           /\ \A j \in 1 .. Size[o] : field'[o][j] = IF j = i THEN value ELSE field[o][j]
           /\ alive' = alive /\ gc = "none" /\ gc' = gc
  <1>1. HeapOK
    BY FromIInv
  <1>2. /\ field' = [field EXCEPT ![o][i] = value]
        /\ o \in roots /\ value \in roots \cup {None}
        /\ alive' = alive /\ young' = young /\ roots' = roots /\ gc = "none" /\ gc' = gc
    BY DEF Write
  <1>3. o \in alive /\ value \in alive \cup {None}
    BY <1>1, <1>2 DEF HeapOK
  <1>4. \A x \in Obj : field[x] \in [1 .. Size[x] -> alive \cup {None}]
    BY <1>1 DEF HeapOK
  <1>5. field = [x \in Obj |-> field[x]]
    BY <1>1 DEF HeapOK
  <1>6. field' = [x \in Obj |-> IF x = o THEN [field[o] EXCEPT ![i] = value] ELSE field[x]]
    BY <1>2, <1>5
  <1>7. \A x \in Obj : field'[x] \in [1 .. Size[x] -> alive \cup {None}]
    BY <1>3, <1>4, <1>6
  <1>8. field' = [x \in Obj |-> field'[x]]
    BY <1>6
  <1>9. /\ \A x \in Obj : x # o => field'[x] = field[x]
        /\ \A j \in 1 .. Size[o] : field'[o][j] = IF j = i THEN value ELSE field[o][j]
    BY <1>4, <1>6
  <1>10. HeapOK'
    BY <1>1, <1>2, <1>7, <1>8 DEF HeapOK
  <1>. QED BY <1>2, <1>3, <1>9, <1>10

(* The write barrier. *)
LEMMA WriteStep ==
    ASSUME IInv, NEW o \in Obj, NEW i \in 1 .. Size[o], NEW value \in Obj \cup {None},
           Write(o, i, value)
    PROVE  IInv'
  <1>1. /\ HeapOK /\ PhaseOK /\ m \in Marking /\ Placed(m, alive) /\ Tri(m, field) /\ Queued(m)
        /\ m.color \in [Obj -> Color] /\ m.bar \in [Obj -> Nat]
        /\ \A x \in Obj : m.color[x] # "white" => IsMarking \/ gc = "mark"
    BY FromIInv
  <1>2. /\ HeapOK' /\ o \in alive /\ value \in alive \cup {None}
        /\ \A x \in Obj : x # o => field'[x] = field[x]
        /\ \A j \in 1 .. Size[o] : field'[o][j] = IF j = i THEN value ELSE field[o][j]
        /\ alive' = alive /\ gc = "none" /\ gc' = gc
    BY WriteKeepsHeap
  <1>. DEFINE Recorded == /\ o \notin Cell /\ IsMarking
                          /\ value # None /\ m.color[o] = "black"
                          /\ o \in Large => IsLeftOfProgressBar(o, i)
  <1>3. CASE m' = m /\ state' = state /\ (Recorded => m.color[value] # "white")
    <2>1. Tri(m, field')
      <3>. SUFFICES ASSUME NEW x \in Obj \ Cell, m.color[x] = "black", NEW j \in 1 .. Size[x],
                           x \in Large => j <= m.bar[x], field'[x][j] # None
                    PROVE  m.color[field'[x][j]] # "white"
        BY DEF Tri
      <3>1. CASE x = o /\ j = i
        <4>1. field'[x][j] = value
          BY <1>2, <3>1
        <4>2. Recorded
          BY <1>1, <1>2, <3>1, <4>1 DEF IsLeftOfProgressBar
        <4>. QED BY <1>3, <4>1, <4>2
      <3>2. CASE ~(x = o /\ j = i)
        <4>1. field'[x][j] = field[x][j]
          BY <1>2, <3>2
        <4>. QED BY <1>1, <4>1 DEF Tri
      <3>. QED BY <3>1, <3>2
    <2>2. Sound(m', alive', field')
      BY <1>1, <1>2, <1>3, <2>1 DEF Sound
    <2>3. PhaseOK'
      BY <1>1, <1>2, <1>3 DEF PhaseOK, IsMarking
    <2>. QED BY <1>2, <2>2, <2>3 DEF IInv
  <1>4. CASE /\ Recorded /\ m.color[value] = "white"
             /\ m' = IF o \in Large THEN WhiteToGreyAndPush(m, value)
                     ELSE BlackToGreyAndUnshift(m, o)
             /\ state' = Restarted
    <2>1. value \in Obj /\ value \in alive
      BY <1>2, <1>4
    <2>2. Sound(m', alive', field')
      <3>1. CASE o \in Large
        <4>1. m' = WhiteToGreyAndPush(m, value)
          BY <1>4, <3>1
        <4>2. Marks(m, m', {value})
          BY <1>1, <1>4, <2>1, <4>1, PushMarks
        <4>3. ASSUME NEW x \in Obj \ Cell, m.color[x] = "black", NEW j \in 1 .. Size[x],
                     x \in Large => j <= m.bar[x], field'[x][j] # None
              PROVE  field'[x][j] \in Obj /\ (m.color[field'[x][j]] # "white" \/ field'[x][j] \in {value})
          <5>1. CASE x = o /\ j = i
            BY <1>2, <2>1, <5>1
          <5>2. CASE ~(x = o /\ j = i)
            <6>1. field'[x][j] = field[x][j]
              BY <1>2, <5>2
            <6>2. field[x][j] \in Obj
              BY <1>1, <4>3, <6>1, FieldsAreValues DEF HeapOK
            <6>. QED BY <1>1, <4>3, <6>1, <6>2 DEF Tri
          <5>. QED BY <5>1, <5>2
        <4>4. {value} \cap Obj \subseteq alive
          BY <2>1
        <4>. QED BY <1>1, <1>2, <4>2, <4>3, <4>4, MarksSound
      <3>2. CASE o \notin Large
        <4>1. m' = BlackToGreyAndUnshift(m, o)
          BY <1>4, <3>2
        <4>2. /\ \A x \in Obj : x # o /\ m.color[x] = "grey" => x \in Range(m.deque) \/ m.overflowed
              /\ \A x \in Large : x # o /\ m.color[x] = "black" /\ m.bar[x] < Size[x]
                     => x \in Range(m.deque)
          BY <1>1 DEF Queued
        <4>. QED BY <1>1, <1>2, <3>2, <4>1, <4>2, RescanSound
      <3>. QED BY <3>1, <3>2
    <2>3. PhaseOK'
      BY <1>1, <1>2, <1>4 DEF PhaseOK, IsMarking, Restarted
    <2>. QED BY <1>2, <2>2, <2>3 DEF IInv
  <1>5. \/ m' = m /\ state' = state /\ (Recorded => m.color[value] # "white")
        \/ /\ Recorded /\ m.color[value] = "white"
           /\ m' = IF o \in Large THEN WhiteToGreyAndPush(m, value)
                   ELSE BlackToGreyAndUnshift(m, o)
           /\ state' = Restarted
    BY DEF Write
  <1>. QED BY <1>3, <1>4, <1>5

(* Moving elements: the object is scanned again from its beginning. *)
LEMMA MoveElementsStep ==
    ASSUME IInv, NEW o \in Obj, NEW from \in Obj, NEW shift \in {0, 1},
           MoveElements(o, from, shift)
    PROVE  IInv'
  <1>1. /\ HeapOK /\ PhaseOK /\ m \in Marking /\ Placed(m, alive) /\ Tri(m, field) /\ Queued(m)
        /\ m.color \in [Obj -> Color] /\ m.bar \in [Obj -> Nat]
        /\ \A x \in Obj : m.color[x] # "white" => IsMarking \/ gc = "mark"
    BY FromIInv
  <1>2. /\ gc = "none" /\ gc' = gc /\ o \in roots /\ o \notin Cell
        /\ alive' = alive /\ young' = young /\ roots' = roots
    BY DEF MoveElements
  <1>3. o \in alive
    BY <1>1, <1>2 DEF HeapOK
  <1>. DEFINE moved == [i \in DOMAIN field[o] |->
                           IF i + shift \in DOMAIN field[from] THEN field[from][i + shift]
                           ELSE field[o][i]]
  <1>4. /\ \A x \in Obj : field[x] \in [1 .. Size[x] -> alive \cup {None}]
        /\ field = [x \in Obj |-> field[x]]
    BY <1>1 DEF HeapOK
  <1>5. field' = [x \in Obj |-> IF x = o THEN moved ELSE field[x]]
    <2>1. field' = [field EXCEPT ![o] = moved]
      BY DEF MoveElements
    <2>. HIDE DEF moved
    <2>. QED BY <1>4, <2>1
  <1>6. moved \in [1 .. Size[o] -> alive \cup {None}]
    <2>1. DOMAIN field[o] = 1 .. Size[o] /\ DOMAIN field[from] = 1 .. Size[from]
      BY <1>4
    <2>2. ASSUME NEW i \in 1 .. Size[o] PROVE moved[i] \in alive \cup {None}
      <3>1. CASE i + shift \in DOMAIN field[from]
        BY <1>4, <2>1, <3>1
      <3>2. CASE i + shift \notin DOMAIN field[from]
        BY <1>4, <2>1, <3>2
      <3>. QED BY <3>1, <3>2
    <2>. QED BY <2>1, <2>2
  <1>. HIDE DEF moved
  <1>7. /\ HeapOK' /\ \A x \in Obj : x # o => field'[x] = field[x]
    <2>1. \A x \in Obj : field'[x] \in [1 .. Size[x] -> alive \cup {None}]
      BY <1>4, <1>5, <1>6
    <2>2. field' = [x \in Obj |-> field'[x]]
      BY <1>5
    <2>3. \A x \in Obj : x # o => field'[x] = field[x]
      BY <1>5
    <2>. QED BY <1>1, <1>2, <2>1, <2>2, <2>3 DEF HeapOK
  <1>8. CASE IsMarking /\ m.color[o] = "black"
    <2>. DEFINE n == [m EXCEPT !.bar[o] = 0]
    <2>1. m' = BlackToGreyAndUnshift(n, o) /\ state' = Restarted
      BY <1>8 DEF MoveElements
    <2>2. /\ n \in Marking /\ n.color = m.color /\ n.deque = m.deque
          /\ n.overflowed = m.overflowed /\ n.bar = [m.bar EXCEPT ![o] = 0]
      BY <1>1 DEF Marking
    <2>. HIDE DEF n
    <2>3. \A x \in Obj : n.bar[x] = IF x = o THEN 0 ELSE m.bar[x]
      BY <1>1, <2>2
    <2>4. Placed(n, alive)
      BY <1>1, <2>2, <2>3, ObjectAssumption DEF Placed
    <2>5. Tri(n, field)
      <3>. SUFFICES ASSUME NEW x \in Obj \ Cell, n.color[x] = "black", NEW i \in 1 .. Size[x],
                           x \in Large => i <= n.bar[x], field[x][i] # None
                    PROVE  n.color[field[x][i]] # "white"
        BY DEF Tri
      <3>1. x \in Large => i <= m.bar[x]
        <4>1. x = o /\ x \in Large => FALSE
          BY <2>3
        <4>. QED BY <2>3, <4>1
      <3>. QED BY <1>1, <2>2, <3>1 DEF Tri
    <2>6. /\ \A x \in Obj : x # o /\ n.color[x] = "grey" => x \in Range(n.deque) \/ n.overflowed
          /\ \A x \in Large : x # o /\ n.color[x] = "black" /\ n.bar[x] < Size[x]
                 => x \in Range(n.deque)
      BY <1>1, <2>2, <2>3, ObjectAssumption DEF Queued
    <2>7. Sound(m', alive', field')
      BY <1>2, <1>3, <1>7, <2>1, <2>2, <2>3, <2>4, <2>5, <2>6, RescanSound
    <2>8. PhaseOK'
      BY <1>1, <1>2, <1>8, <2>1 DEF PhaseOK, IsMarking, Restarted
    <2>. QED BY <1>7, <2>7, <2>8 DEF IInv
  <1>9. CASE ~(IsMarking /\ m.color[o] = "black")
    <2>1. m' = m /\ state' = state
      BY <1>9 DEF MoveElements
    <2>2. m.color[o] # "black"
      BY <1>1, <1>2, <1>9
    <2>3. Tri(m, field')
      BY <1>1, <1>7, <2>2 DEF Tri
    <2>4. Sound(m', alive', field')
      BY <1>1, <1>2, <2>1, <2>3 DEF Sound
    <2>5. PhaseOK'
      BY <1>1, <1>2, <2>1 DEF PhaseOK, IsMarking
    <2>. QED BY <1>7, <2>4, <2>5 DEF IInv
  <1>. QED BY <1>8, <1>9

(* Left-trimming: the entry becomes a filler, and a grey array is queued at  *)
(* its new start.                                                          *)
LEMMA LeftTrimStep ==
    ASSUME IInv, NEW o \in Obj, LeftTrim(o)
    PROVE  IInv'
  <1>1. /\ HeapOK /\ PhaseOK /\ m \in Marking /\ Placed(m, alive) /\ Tri(m, field) /\ Queued(m)
        /\ \A x \in Obj : m.color[x] # "white" => IsMarking \/ gc = "mark"
    BY FromIInv
  <1>2. /\ gc = "none" /\ gc' = gc /\ o \in roots /\ o \notin Large
        /\ alive' = alive /\ young' = young /\ roots' = roots /\ field' = field
    BY DEF LeftTrim, heapVars
  <1>3. o \in alive
    BY <1>1, <1>2 DEF HeapOK
  <1>. DEFINE q == [i \in DOMAIN m.deque |-> IF m.deque[i] = o THEN Filler ELSE m.deque[i]]
              moved == [m EXCEPT !.deque = q]
  <1>4. /\ q \in Seq(Entry) /\ Len(q) <= Capacity
        /\ Range(q) \subseteq (Range(m.deque) \ {o}) \cup {Filler}
        /\ Range(m.deque) \ {o} \subseteq Range(q)
        /\ m.deque = <<>> => q = m.deque
    <2>. DEFINE d == m.deque
    <2>1. d \in Seq(Entry) /\ Len(d) <= Capacity /\ Len(d) \in Nat /\ DOMAIN d = 1 .. Len(d)
      BY <1>1 DEF Marking
    <2>. HIDE DEF d
    <2>2. \A i \in 1 .. Len(d) : d[i] \in Entry
      BY <2>1
    <2>3. q = [i \in 1 .. Len(d) |-> IF d[i] = o THEN Filler ELSE d[i]]
      BY <2>1 DEF d
    <2>. HIDE DEF q
    <2>4. Filler \in Entry
      BY DEF Entry
    <2>5. q \in Seq(Entry) /\ Len(q) = Len(d)
      BY <2>1, <2>2, <2>3, <2>4
    <2>6. Range(q) = {q[i] : i \in 1 .. Len(d)} /\ Range(d) = {d[i] : i \in 1 .. Len(d)}
      BY <2>1, <2>5, RangeIs
    <2>7. \A i \in 1 .. Len(d) : q[i] = IF d[i] = o THEN Filler ELSE d[i]
      BY <2>3
    <2>8. d = <<>> => q = d
      BY <2>1, <2>3
    <2>9. o # Filler
      BY ObjectAssumption
    <2>10. Range(q) \subseteq (Range(d) \ {o}) \cup {Filler} /\ Range(d) \ {o} \subseteq Range(q)
      BY <2>6, <2>7, <2>9
    <2>. QED BY <2>1, <2>5, <2>8, <2>10 DEF d
  <1>5. m' = TransferMark(moved, o)
    BY DEF LeftTrim
  <1>. HIDE DEF q
  <1>6. /\ moved \in Marking /\ moved.color = m.color /\ moved.deque = q
        /\ moved.overflowed = m.overflowed /\ moved.bar = m.bar
    BY <1>1, <1>4 DEF Marking
  <1>7. m.deque = <<>> => moved = m
    BY <1>1, <1>4 DEF Marking
  <1>. HIDE DEF moved
  <1>8. Range(m.deque) \subseteq alive \cup {Filler}
    BY <1>1 DEF Placed
  <1>9. CASE m.color[o] = "grey"
    <2>1. m' = PushGrey(moved, o) /\ state' = Restarted
      BY <1>5, <1>6, <1>9 DEF TransferMark, LeftTrim
    <2>2. /\ m' \in Marking /\ m'.bar = m.bar /\ m'.color = m.color
          /\ Range(m.deque) \ {o} \subseteq Range(m'.deque)
          /\ Range(m'.deque) \subseteq alive \cup {Filler}
          /\ m.overflowed => m'.overflowed
          /\ o \in Range(m'.deque) \/ m'.overflowed
      BY <1>3, <1>4, <1>6, <1>8, <2>1, PushQueues
    <2>3. Placed(m', alive) /\ Tri(m', field)
      BY <1>1, <2>2 DEF Placed, Tri
    <2>4. Queued(m')
      BY <1>1, <1>2, <2>2 DEF Queued
    <2>5. Sound(m', alive', field')
      BY <1>2, <2>2, <2>3, <2>4 DEF Sound
    <2>6. PhaseOK'
      BY <1>1, <1>2, <1>9, <2>1 DEF PhaseOK, IsMarking, Restarted
    <2>. QED BY <1>1, <1>2, <2>5, <2>6 DEF IInv, HeapOK
  <1>10. CASE m.color[o] # "grey"
    <2>1. m' = moved /\ state' = state
      BY <1>5, <1>6, <1>10 DEF TransferMark, LeftTrim
    <2>2. Placed(moved, alive) /\ Tri(moved, field)
      BY <1>1, <1>4, <1>6, <1>8 DEF Placed, Tri
    <2>3. Queued(moved)
      BY <1>1, <1>2, <1>4, <1>6, <1>10 DEF Queued
    <2>4. Sound(m', alive', field')
      BY <1>2, <1>6, <2>1, <2>2, <2>3 DEF Sound
    <2>5. PhaseOK'
      <3>1. m = Clean => m' = Clean
        BY <1>7, <2>1 DEF Clean
      <3>2. m.deque = <<>> => m'.deque = <<>>
        BY <1>7, <2>1
      <3>. QED BY <1>1, <1>2, <2>1, <3>1, <3>2 DEF PhaseOK, IsMarking
    <2>. QED BY <1>1, <1>2, <2>4, <2>5 DEF IInv, HeapOK
  <1>. QED BY <1>9, <1>10

-----------------------------------------------------------------------------
(* The steps of the marker and of the collections. *)

(* Waiting for the sweeper. *)
LEMMA StartStep ==
    ASSUME IInv, Start
    PROVE  IInv'
  <1>1. HeapOK /\ PhaseOK /\ Sound(m, alive, field)
    BY FromIInv
  <1>2. HeapOK' /\ Sound(m', alive', field')
    BY <1>1 DEF Start, heapVars, HeapOK
  <1>3. PhaseOK'
    BY <1>1 DEF Start, PhaseOK, IsMarking
  <1>. QED BY <1>2, <1>3 DEF IInv

(* Marking starts with the roots. *)
LEMMA StartMarkingStep ==
    ASSUME IInv, StartMarking
    PROVE  IInv'
  <1>1. HeapOK /\ PhaseOK
    BY FromIInv
  <1>2. /\ m' = MarkObjects(Clean, SetToSeq(roots)) /\ state' = "marking"
        /\ gc = "none" /\ gc' = gc
        /\ alive' = alive /\ young' = young /\ roots' = roots /\ field' = field
    BY DEF StartMarking, heapVars
  <1>. DEFINE q == SetToSeq(roots)
  <1>3. q \in Seq(roots) /\ Range(q) \subseteq roots
    <2>1. IsFiniteSet(roots)
      BY <1>1, ObjectAssumption, FS_Subset DEF HeapOK
    <2>. QED BY <2>1, SetToSeqLists
  <1>4. q \in Seq(Value) /\ Range(q) \cap Obj \subseteq alive
    <2>1. roots \subseteq Value /\ roots \subseteq alive
      BY <1>1 DEF HeapOK, Value
    <2>. HIDE DEF q
    <2>. QED BY <1>3, <2>1
  <1>. HIDE DEF q
  <1>5. Clean \in Marking /\ Placed(Clean, alive) /\ Queued(Clean)
    BY CleanIsSound DEF Sound
  <1>6. Marks(Clean, m', Range(q))
    BY <1>2, <1>4, <1>5, FoldMarks DEF q
  <1>7. \A o \in Obj : Clean.color[o] # "black"
    BY DEF Clean
  <1>8. Sound(m', alive, field)
    BY <1>4, <1>5, <1>6, <1>7, MarksSound
  <1>9. HeapOK' /\ PhaseOK'
    BY <1>1, <1>2 DEF HeapOK, PhaseOK, IsMarking
  <1>. QED BY <1>2, <1>8, <1>9 DEF IInv

(* One object of an incremental step. *)
LEMMA StepStep ==
    ASSUME IInv, Step
    PROVE  IInv'
  <1>1. HeapOK /\ PhaseOK /\ Sound(m, alive, field)
    BY FromIInv
  <1>2. /\ gc = "none" /\ gc' = gc /\ state = "marking"
        /\ m' = IF m.deque = <<>> THEN m ELSE Popped(m)
        /\ state' = IF m'.deque = <<>> THEN "complete" ELSE "marking"
        /\ alive' = alive /\ young' = young /\ roots' = roots /\ field' = field
    BY DEF Step, heapVars
  <1>3. Sound(m', alive, field)
    BY <1>1, <1>2, PoppedIsSound
  <1>4. HeapOK' /\ PhaseOK'
    BY <1>1, <1>2 DEF HeapOK, PhaseOK, IsMarking
  <1>. QED BY <1>2, <1>3, <1>4 DEF IInv

(* What the final collection takes over. *)
LEMMA BeginMarkCompactStep ==
    ASSUME IInv, BeginMarkCompact
    PROVE  IInv'
  <1>1. HeapOK /\ PhaseOK /\ Sound(m, alive, field)
    BY FromIInv
  <1>2. /\ gc = "none"
        /\ alive' = alive /\ young' = young /\ roots' = roots /\ field' = field
    BY DEF BeginMarkCompact, heapVars
  <1>3. HeapOK'
    BY <1>1, <1>2 DEF HeapOK
  <1>4. CASE IsMarking /\ gc' = "hurry" /\ UNCHANGED <<state, m>>
    <2>1. PhaseOK' /\ Sound(m', alive', field')
      BY <1>1, <1>2, <1>4 DEF PhaseOK, IsMarking
    <2>. QED BY <1>3, <2>1 DEF IInv
  <1>5. CASE gc' = "mark" /\ state' = "stopped" /\ m' = Clean
    <2>1. Sound(m', alive', field')
      BY <1>5, CleanIsSound
    <2>2. m'.deque = <<>>
      BY <1>5 DEF Clean
    <2>3. PhaseOK'
      BY <1>5, <2>2 DEF PhaseOK, IsMarking
    <2>. QED BY <1>3, <2>1, <2>3 DEF IInv
  <1>. QED BY <1>4, <1>5 DEF BeginMarkCompact

(* The deque emptied by the final collection. *)
LEMMA HurryStep ==
    ASSUME IInv, Hurry
    PROVE  IInv'
  <1>1. HeapOK /\ PhaseOK /\ Sound(m, alive, field)
    BY FromIInv
  <1>2. /\ gc = "hurry"
        /\ alive' = alive /\ young' = young /\ roots' = roots /\ field' = field
    BY DEF Hurry, heapVars
  <1>3. HeapOK'
    BY <1>1, <1>2 DEF HeapOK
  <1>4. CASE state = "marking" /\ m.deque # <<>>
    <2>1. m' = Popped(m) /\ state' = state /\ gc' = gc
      BY <1>4 DEF Hurry
    <2>2. Sound(m', alive', field')
      BY <1>1, <1>2, <1>4, <2>1, PoppedIsSound
    <2>3. PhaseOK'
      BY <1>1, <1>2, <1>4, <2>1 DEF PhaseOK, IsMarking
    <2>. QED BY <1>3, <2>2, <2>3 DEF IInv
  <1>5. CASE ~(state = "marking" /\ m.deque # <<>>)
    <2>1. state' = "stopped" /\ gc' = "mark" /\ m' = m
      BY <1>5 DEF Hurry
    <2>2. m.deque = <<>>
      BY <1>1, <1>2, <1>5 DEF PhaseOK, IsMarking
    <2>3. PhaseOK'
      BY <2>1, <2>2 DEF PhaseOK, IsMarking
    <2>. QED BY <1>1, <1>2, <1>3, <2>1, <2>3 DEF IInv
  <1>. QED BY <1>4, <1>5

(* A collection that keeps a closed part of the heap leaves a closed heap. *)
LEMMA KeepIsClosed ==
    ASSUME HeapOK, NEW kept, kept \subseteq alive, Keep(kept),
           \A o \in kept : \A i \in 1 .. Size[o] : field[o][i] \in kept \cup {None},
           young' \subseteq kept \ Large
    PROVE  /\ HeapOK'
           /\ \A o \in Obj : \A i \in 1 .. Size[o] :
                 field'[o][i] # None => o \in kept /\ field'[o][i] = field[o][i]
  <1>1. /\ alive' = kept /\ roots' = roots \cap kept
        /\ field' = [o \in Obj |-> IF o \in kept THEN field[o] ELSE NoFields(o)]
    BY DEF Keep
  <1>2. ASSUME NEW o \in Obj
        PROVE  /\ field'[o] \in [1 .. Size[o] -> kept \cup {None}]
               /\ \A i \in 1 .. Size[o] :
                     field'[o][i] # None => o \in kept /\ field'[o][i] = field[o][i]
    <2>1. CASE o \in kept
      <3>1. field[o] \in [1 .. Size[o] -> alive \cup {None}] /\ field'[o] = field[o]
        BY <1>1, <2>1 DEF HeapOK
      <3>2. \A i \in 1 .. Size[o] : field[o][i] \in kept \cup {None}
        BY <2>1
      <3>. QED BY <2>1, <3>1, <3>2
    <2>2. CASE o \notin kept
      <3>1. field'[o] = [i \in 1 .. Size[o] |-> None]
        BY <1>1, <2>2 DEF NoFields
      <3>. QED BY <3>1
    <2>. QED BY <2>1, <2>2
  <1>3. field' = [o \in Obj |-> field'[o]]
    BY <1>1
  <1>4. alive' \subseteq Obj /\ young' \subseteq alive' \ Large /\ roots' \subseteq alive'
    BY <1>1 DEF HeapOK
  <1>5. HeapOK'
    BY <1>1, <1>2, <1>3, <1>4 DEF HeapOK
  <1>. QED BY <1>2, <1>5

(* The scavenger: old objects and what is found from them stay. *)
LEMMA ScavengeStep ==
    ASSUME IInv, Scavenge
    PROVE  IInv'
  <1>1. HeapOK /\ PhaseOK /\ m \in Marking /\ Placed(m, alive) /\ Tri(m, field) /\ Queued(m)
    BY FromIInv
  <1>. DEFINE from == roots \cup FieldsOf(alive \ young)
              found == Found(from, young)
              kept == (alive \ young) \cup found
  <1>2. young \in SUBSET Obj /\ young \subseteq alive \ Large /\ alive \subseteq Obj
    BY <1>1 DEF HeapOK
  <1>3. /\ from \cap young \subseteq found /\ found \subseteq young
        /\ FieldsOf(found) \cap young \subseteq found
    <2>. HIDE DEF from
    <2>. QED BY <1>2, FoundIsClosure
  <1>4. /\ young' \in SUBSET found /\ Keep(kept)
        /\ m' = [m EXCEPT
                     !.color = [o \in Obj |-> IF o \in young \ found THEN "white" ELSE @[o]],
                     !.deque = Entries(@, kept)]
        /\ state' = state /\ gc' = gc /\ gc = "none"
    BY DEF Scavenge
  <1>5. alive' = kept
    BY <1>4 DEF Keep
  <1>. HIDE DEF found
  <1>6. ASSUME NEW o \in kept, NEW i \in 1 .. Size[o]
        PROVE  field[o][i] \in kept \cup {None}
    <2>. DEFINE v == field[o][i]
    <2>1. o \in Obj /\ v \in alive \cup {None}
      BY <1>1, <1>2, <1>3, FieldsAreValues
    <2>2. CASE v \in young
      <3>1. CASE o \in found
        <4>1. v \in FieldsOf(found)
          BY <1>1, <2>1, <3>1, FieldsOfContains
        <4>. QED BY <1>3, <2>2, <4>1
      <3>2. CASE o \in alive \ young
        <4>1. v \in FieldsOf(alive \ young)
          BY <1>1, <2>1, <3>2, FieldsOfContains
        <4>. QED BY <1>3, <2>2, <4>1
      <3>. QED BY <3>1, <3>2
    <2>3. CASE v \notin young
      BY <2>1, <2>3
    <2>. QED BY <2>2, <2>3
  <1>7. kept \subseteq alive /\ young' \subseteq kept \ Large
    BY <1>2, <1>3, <1>4
  <1>. HIDE DEF kept
  <1>8. /\ HeapOK'
        /\ \A o \in Obj : \A i \in 1 .. Size[o] :
              field'[o][i] # None => o \in kept /\ field'[o][i] = field[o][i]
    BY <1>1, <1>4, <1>6, <1>7, KeepIsClosed
  <1>9. m.deque \in Seq(Entry) /\ Len(m.deque) <= Capacity
    BY <1>1 DEF Marking
  <1>10. /\ Entries(m.deque, kept) \in Seq(Entry)
         /\ Len(Entries(m.deque, kept)) <= Len(m.deque)
         /\ Range(Entries(m.deque, kept)) = Range(m.deque) \cap kept
    BY <1>9, EntriesAre
  <1>11. Len(Entries(m.deque, kept)) <= Capacity
    BY <1>9, <1>10, DequeAssumption
  <1>12. /\ m'.color = [o \in Obj |-> IF o \in young \ found THEN "white" ELSE m.color[o]]
         /\ m'.deque = Entries(m.deque, kept) /\ m'.overflowed = m.overflowed
         /\ m'.bar = m.bar
         /\ m' \in Marking
    BY <1>1, <1>4, <1>10, <1>11 DEF Marking, Color
  <1>13. \A o \in Obj : /\ o \in kept => m'.color[o] = m.color[o]
                        /\ m'.color[o] # "white" => m'.color[o] = m.color[o] /\ o \in kept
    <2>1. \A o \in kept : o \notin young \ found
      BY DEF kept
    <2>2. \A o \in alive : o \in kept \/ o \in young \ found
      BY DEF kept
    <2>. QED BY <1>1, <1>12, <2>1, <2>2 DEF Placed
  <1>14. Placed(m', kept)
    <2>1. Range(m'.deque) \subseteq kept \cup {Filler}
      BY <1>10, <1>12
    <2>2. \A o \in Large : m'.bar[o] > 0 => m'.color[o] = "black"
      BY <1>1, <1>2, <1>12, ObjectAssumption DEF Placed
    <2>. QED BY <1>1, <1>12, <1>13, <2>1, <2>2 DEF Placed
  <1>15. Tri(m', field')
    <2>. SUFFICES ASSUME NEW o \in Obj \ Cell, m'.color[o] = "black", NEW i \in 1 .. Size[o],
                         o \in Large => i <= m'.bar[o], field'[o][i] # None
                  PROVE  m'.color[field'[o][i]] # "white"
      BY DEF Tri
    <2>1. o \in kept /\ m.color[o] = "black" /\ field'[o][i] = field[o][i]
      BY <1>8, <1>13
    <2>2. m.color[field[o][i]] # "white"
      BY <1>1, <1>12, <2>1 DEF Tri
    <2>3. field[o][i] \in kept /\ field[o][i] \in Obj
      BY <1>2, <1>6, <1>7, <2>1
    <2>. QED BY <1>13, <2>1, <2>2, <2>3
  <1>16. Queued(m')
    BY <1>1, <1>10, <1>12, <1>13, ObjectAssumption DEF Queued
  <1>17. PhaseOK'
    <2>1. m.deque = <<>> => m'.deque = <<>>
      BY <1>9, <1>10, <1>12
    <2>2. m = Clean => m' = Clean
      <3>. SUFFICES ASSUME m = Clean PROVE m' = Clean
        OBVIOUS
      <3>1. m'.deque = <<>> /\ m'.overflowed = FALSE /\ m'.bar = [o \in Obj |-> 0]
        BY <1>12, <2>1 DEF Clean
      <3>2. m'.color = [o \in Obj |-> "white"]
        BY <1>12 DEF Clean
      <3>. QED BY <1>12, <3>1, <3>2 DEF Marking, Clean
    <2>. QED BY <1>1, <1>4, <2>1, <2>2 DEF PhaseOK, IsMarking
  <1>. QED BY <1>5, <1>8, <1>12, <1>14, <1>15, <1>16, <1>17 DEF IInv, Sound

(* The final collection frees what it has not kept. *)
LEMMA SweepStep ==
    ASSUME IInv, Sweep
    PROVE  IInv'
  <1>1. HeapOK /\ PhaseOK
    BY FromIInv
  <1>2. /\ gc = "mark" /\ Keep(Survivors) /\ young' \in {{}, young \cap Survivors}
        /\ m' = Clean /\ gc' = "none" /\ state' = state
    BY DEF Sweep
  <1>3. /\ Survivors \subseteq alive
        /\ \A o \in Survivors : \A i \in 1 .. Size[o] : field[o][i] \in Survivors \cup {None}
    BY <1>2, SurvivorsAreClosed
  <1>4. young' \subseteq Survivors \ Large
    BY <1>1, <1>2 DEF HeapOK
  <1>5. HeapOK'
    BY <1>1, <1>2, <1>3, <1>4, KeepIsClosed
  <1>6. Sound(m', alive', field')
    BY <1>2, CleanIsSound
  <1>7. PhaseOK'
    BY <1>1, <1>2 DEF PhaseOK, IsMarking, Clean
  <1>. QED BY <1>5, <1>6, <1>7 DEF IInv

-----------------------------------------------------------------------------
(* The theorems. *)

(* The invariant holds at first and is kept by every step. *)
THEOREM Invariance == Spec => []IInv
  <1>1. Init => IInv
    <2>. SUFFICES ASSUME Init PROVE IInv
      OBVIOUS
    <2>1. Sound(m, alive, field)
      BY CleanIsSound DEF Init
    <2>2. \A o \in Obj : field[o] = [i \in 1 .. Size[o] |-> None]
      BY DEF Init, NoFields
    <2>3. HeapOK
      BY <2>2 DEF Init, HeapOK
    <2>4. PhaseOK
      BY DEF Init, PhaseOK, IsMarking
    <2>. QED BY <2>1, <2>3, <2>4 DEF IInv
  <1>2. IInv /\ [Next]_vars => IInv'
    <2>. SUFFICES ASSUME IInv, [Next]_vars PROVE IInv'
      OBVIOUS
    <2>1. ASSUME NEW o \in Obj, Allocate(o) PROVE IInv'
      BY <2>1, AllocateStep
    <2>2. ASSUME NEW o \in Obj, LeftTrim(o) PROVE IInv'
      BY <2>2, LeftTrimStep
    <2>3. ASSUME NEW o \in Obj, NEW i \in 1 .. Size[o], NEW value \in Obj \cup {None},
                 Write(o, i, value)
          PROVE  IInv'
      BY <2>3, WriteStep
    <2>4. ASSUME NEW o \in Obj, NEW from \in Obj, NEW shift \in {0, 1},
                 MoveElements(o, from, shift)
          PROVE  IInv'
      BY <2>4, MoveElementsStep
    <2>5. CASE ChangeRoots
      BY <2>5, ChangeRootsStep
    <2>6. CASE Start
      BY <2>6, StartStep
    <2>7. CASE StartMarking
      BY <2>7, StartMarkingStep
    <2>8. CASE Step
      BY <2>8, StepStep
    <2>9. CASE Scavenge
      BY <2>9, ScavengeStep
    <2>10. CASE BeginMarkCompact
      BY <2>10, BeginMarkCompactStep
    <2>11. CASE Hurry
      BY <2>11, HurryStep
    <2>12. CASE Sweep
      BY <2>12, SweepStep
    <2>13. CASE UNCHANGED vars
      BY <2>13 DEF vars, heapVars, IInv, HeapOK, PhaseOK, IsMarking
    <2>. QED BY <2>1, <2>2, <2>3, <2>4, <2>5, <2>6, <2>7, <2>8, <2>9, <2>10, <2>11, <2>12,
                <2>13 DEF Next
  <1>. QED BY <1>1, <1>2, PTL DEF Spec

(* The deque never holds more than its memory does, progress bars stay       *)
(* within their arrays, and every field holds an allocated object or none. *)
THEOREM Types == Spec => []TypeOK
  <1>1. IInv => TypeOK
    <2>. SUFFICES ASSUME IInv PROVE TypeOK
      OBVIOUS
    <2>1. HeapOK /\ PhaseOK /\ m \in Marking /\ Placed(m, alive)
      BY FromIInv
    <2>2. \A o \in Obj : m.bar[o] \in 0 .. Size[o]
      BY <2>1, ObjectAssumption DEF Marking, Placed
    <2>. QED BY <2>1, <2>2 DEF TypeOK, HeapOK, PhaseOK, Marking, Color, Entry
  <1>. QED BY <1>1, Invariance, PTL

(* No field that has been scanned in a black object holds a white object. *)
THEOREM TriColorInvariant == Spec => []TriColor
  <1>1. IInv => TriColor
    BY FromIInv DEF TriColor, Tri
  <1>. QED BY <1>1, Invariance, PTL

(* Nothing that has still to be scanned is forgotten, and marking is         *)
(* complete only with an empty deque.                                      *)
THEOREM GreyObjectsAreQueued == Spec => []GreyIsQueued
  <1>1. IInv => GreyIsQueued
    BY FromIInv DEF GreyIsQueued, Queued, PhaseOK
  <1>. QED BY <1>1, Invariance, PTL

(* The final collection frees no object that JavaScript can still reach. *)
THEOREM ReachableObjectsSurvive == Spec => []ReachableSurvives
  <1>1. IInv => ReachableSurvives
    <2>. SUFFICES ASSUME IInv, gc = "mark" PROVE Reachable \subseteq Survivors
      BY DEF ReachableSurvives
    <2>1. HeapOK
      BY FromIInv
    <2>2. /\ Survivors \subseteq alive /\ roots \subseteq Survivors
          /\ \A o \in Survivors : \A i \in 1 .. Size[o] : field[o][i] \in Survivors \cup {None}
      BY SurvivorsAreClosed
    <2>3. alive \in SUBSET Obj /\ Survivors \in SUBSET Obj
      BY <2>1, <2>2 DEF HeapOK
    <2>4. FieldsOf(Survivors) \cap alive \subseteq Survivors
      <3>. SUFFICES ASSUME NEW v \in FieldsOf(Survivors), v \in alive PROVE v \in Survivors
        OBVIOUS
      <3>1. PICK o \in Survivors : \E i \in 1 .. Size[o] : v = field[o][i]
        BY <2>1, <2>3, FieldsOfOnly
      <3>2. v # None
        BY <2>3, ObjectAssumption
      <3>. QED BY <2>2, <3>1, <3>2
    <2>5. roots \cap alive \subseteq Survivors
      BY <2>2
    <2>. QED BY <2>3, <2>4, <2>5, FoundIsClosure DEF Reachable
  <1>. QED BY <1>1, Invariance, PTL
=============================================================================
