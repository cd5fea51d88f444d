-------------------------- MODULE StoreBufferProofs --------------------------
(***************************************************************************)
(* Proofs about StoreBuffer.  Every operation on the old buffer either     *)
(* narrows it - entries go, but only those on pages that are flagged - or  *)
(* moves entries in.  Entries, hash sets and flags are followed through    *)
(* each operation once; the invariant then says for every phase of a       *)
(* collection where a slot that must not be forgotten is noted.            *)
(***************************************************************************)
EXTENDS StoreBuffer, FiniteSetTheorems, SequenceTheorems, WellFoundedInduction, TLAPS

BufferType ==
    [old : Seq(Slot), limit : Limits, filtered : BOOLEAN,
     set1 : [Bucket -> Slot \cup {None}], set2 : [Bucket -> Slot \cup {None}],
     scan : SUBSET Page]

(* What the hash sets hold is in the old buffer; they may be empty. *)
SetsOK(b) == \A x \in Bucket : {b.set1[x], b.set2[x]} \subseteq Range(b.old) \cup {None}
Cleared(b) == b.set1 = NoEntries /\ b.set2 = NoEntries

(* The slots of S are noted, by entry or by page. *)
Noted(b, S) == \A s \in S : s \in Range(b.old) \/ PageOf[s] \in b.scan

(* Entries may go when their pages are flagged. *)
Narrows(b, r) ==
    /\ r \in BufferType
    /\ r.limit >= b.limit
    /\ Len(r.old) <= Len(b.old)
    /\ Range(r.old) \subseteq Range(b.old)
    /\ b.scan \subseteq r.scan
    /\ r.scan \subseteq b.scan \cup {PageOf[s] : s \in Range(b.old)}
    /\ Noted(r, Range(b.old))
    /\ SetsOK(b) => SetsOK(r)
    /\ Cleared(b) => Cleared(r)

(* A buffer with room for one entry at least; when it has been filtered,     *)
(* half of it is free.                                                     *)
Good(b) ==
    /\ b \in BufferType
    /\ Len(b.old) < b.limit
    /\ b.filtered => HalfFree(b)
    /\ SetsOK(b)

-----------------------------------------------------------------------------
(* Sequences and numbers. *)

(* Induction over the naturals, by the least counterexample. *)
LEMMA LeastNatural ==
    ASSUME NEW S \in SUBSET Nat, S # {}
    PROVE  \E n \in S : \A k \in S : n <= k
  <1>1. PICK n \in S : \A k \in S : ~ (<<k, n>> \in OpToRel(<, Nat))
    BY WFMin, NatLessThanWellFounded
  <1>2. \A k \in S : ~ (k < n)
    BY <1>1 DEF OpToRel
  <1>. QED BY <1>2

(* The elements of a sequence. *)
LEMMA RangeIs ==
    ASSUME NEW S, NEW q \in Seq(S)
    PROVE  /\ Range(q) \subseteq S
           /\ Range(q) = {q[i] : i \in 1 .. Len(q)}
  BY DEF Range

(* One element more at the end. *)
LEMMA RangeAppend ==
    ASSUME NEW S, NEW q \in Seq(S), NEW x \in S
    PROVE  /\ Append(q, x) \in Seq(S)
           /\ Len(Append(q, x)) = Len(q) + 1
           /\ Range(Append(q, x)) = Range(q) \cup {x}
  <1>1. Append(q, x) \in Seq(S) /\ Len(Append(q, x)) = Len(q) + 1
    OBVIOUS
  <1>2. \A i \in 1 .. Len(q) : Append(q, x)[i] = q[i]
    OBVIOUS
  <1>3. Append(q, x)[Len(q) + 1] = x
    OBVIOUS
  <1>4. Range(Append(q, x)) = {Append(q, x)[i] : i \in 1 .. Len(q) + 1}
    BY <1>1, RangeIs
  <1>5. 1 .. Len(q) + 1 = (1 .. Len(q)) \cup {Len(q) + 1}
    OBVIOUS
  <1>6. Range(q) = {q[i] : i \in 1 .. Len(q)}
    BY RangeIs
  <1>. QED BY <1>1, <1>2, <1>3, <1>4, <1>5, <1>6

(* The least element of a set of naturals. *)
LEMMA MinOfNaturals ==
    ASSUME NEW S \in SUBSET Nat, S # {}
    PROVE  Min(S) \in S /\ \A y \in S : Min(S) <= y
  <1>1. \E x \in S : \A y \in S : x <= y
    BY LeastNatural
  <1>. QED BY <1>1 DEF Min

(* The largest element of a set that has k + 1 as its largest. *)
LEMMA MaxIsLast ==
    ASSUME NEW k \in Nat, NEW s \in SUBSET (1 .. k + 1), k + 1 \in s
    PROVE  Max(s) = k + 1
  <1>1. \A y \in s : k + 1 >= y
    OBVIOUS
  <1>2. \A x \in s : (\A y \in s : x >= y) => x = k + 1
    <2>. TAKE x \in s
    <2>1. x \in 1 .. k + 1
      OBVIOUS
    <2>. QED BY <2>1
  <1>. QED BY <1>1, <1>2 DEF Max

(* The smallest element of a set that has k as its smallest. *)
LEMMA MinIsFirst ==
    ASSUME NEW k \in Nat, NEW N \in Nat, NEW s \in SUBSET (k .. N), k \in s
    PROVE  Min(s) = k
  <1>1. \A y \in s : k <= y
    OBVIOUS
  <1>2. \A x \in s : (\A y \in s : x <= y) => x = k
    <2>. TAKE x \in s
    <2>1. x \in k .. N
      OBVIOUS
    <2>. QED BY <2>1
  <1>. QED BY <1>1, <1>2 DEF Min

(* Doubled, step by step. *)
LEMMA DoubledIs ==
    /\ Doubled[0] = InitialLimit
    /\ \A k \in 1 .. Doublings : Doubled[k] = 2 * Doubled[k - 1]
  <1>. DEFINE IsDoubled(g, l) ==
                  g = [k \in 0 .. l |-> IF k = 0 THEN InitialLimit ELSE 2 * g[k - 1]]
              D == Doublings
  <1>1. D \in Nat /\ InitialLimit \in Nat \ {0}
    BY SizeAssumption
  <1>2. \A l \in Nat : \E g : IsDoubled(g, l)
    <2>. DEFINE Bad == {l \in Nat : ~ \E g : IsDoubled(g, l)}
    <2>1. SUFFICES ASSUME Bad # {} PROVE FALSE
      OBVIOUS
    <2>2. PICK l \in Bad : \A k \in Bad : l <= k
      BY <2>1, LeastNatural
    <2>3. CASE l = 0
      <3>. DEFINE g == [k \in 0 .. 0 |-> InitialLimit]
      <3>1. IsDoubled(g, 0)
        OBVIOUS
      <3>. QED BY <2>3, <3>1
    <2>4. CASE l # 0
      <3>0. l \in Nat
        OBVIOUS
      <3>1. l - 1 \in Nat /\ l - 1 \notin Bad
        <4>1. l - 1 \in Nat /\ ~(l <= l - 1)
          BY <2>4, <3>0
        <4>. QED BY <2>2, <4>1
      <3>2. PICK g : IsDoubled(g, l - 1)
        BY <3>1
      <3>. DEFINE h == [k \in 0 .. l |-> IF k = l THEN 2 * g[l - 1] ELSE g[k]]
      <3>3. ASSUME NEW k \in 0 .. l
            PROVE  h[k] = IF k = 0 THEN InitialLimit ELSE 2 * h[k - 1]
        <4>1. CASE k = l
          <5>1. h[k - 1] = g[l - 1]
            BY <2>4, <4>1
          <5>. QED BY <2>4, <4>1, <5>1
        <4>2. CASE k # l
          <5>1. k \in 0 .. (l - 1) /\ h[k] = g[k]
            BY <4>2
          <5>2. g[k] = IF k = 0 THEN InitialLimit ELSE 2 * g[k - 1]
            BY <3>2, <5>1
          <5>3. k # 0 => h[k - 1] = g[k - 1]
            BY <5>1
          <5>. QED BY <5>1, <5>2, <5>3
        <4>. QED BY <4>1, <4>2
      <3>4. IsDoubled(h, l)
        BY <3>3
      <3>. QED BY <2>2, <3>4
    <2>. QED BY <2>3, <2>4
  <1>3. IsDoubled(Doubled, D)
    BY <1>1, <1>2 DEF Doubled
  <1>4. /\ Doubled[0] = InitialLimit
        /\ \A k \in 1 .. D : Doubled[k] = 2 * Doubled[k - 1]
    <2>1. 0 \in 0 .. D /\ \A k \in 1 .. D : k \in 0 .. D /\ k # 0
      BY <1>1
    <2>. HIDE DEF D
    <2>. QED BY <1>3, <2>1
  <1>. QED BY <1>4

(* The sizes the old buffer may have. *)
LEMMA LimitsAre ==
    /\ Limits \subseteq Nat \ {0}
    /\ OldSize \in Limits
    /\ \A l \in Limits : l <= OldSize
  <1>. DEFINE D == Doublings
  <1>1. D \in Nat /\ InitialLimit \in Nat \ {0}
    BY SizeAssumption
  <1>2. /\ Doubled[0] = InitialLimit
        /\ \A k \in 1 .. D : Doubled[k] = 2 * Doubled[k - 1]
    BY DoubledIs
  <1>. DEFINE Rising(k) == /\ Doubled[k] \in Nat \ {0}
                           /\ \A j \in 0 .. k : Doubled[j] <= Doubled[k]
              Bad == {k \in 0 .. D : ~Rising(k)}
  <1>3. Bad = {}
    <2>1. SUFFICES ASSUME Bad # {} PROVE FALSE
      OBVIOUS
    <2>2. PICK l \in Bad : \A k \in Bad : l <= k
      <3>1. Bad \in SUBSET Nat
        BY <1>1
      <3>. HIDE DEF Bad
      <3>. QED BY <2>1, <3>1, LeastNatural
    <2>3. CASE l = 0
      <3>1. Rising(0)
        BY <1>1, <1>2
      <3>. QED BY <2>2, <2>3, <3>1
    <2>4. CASE l # 0
      <3>1. l \in 1 .. D /\ l - 1 \in 0 .. D /\ ~(l <= l - 1)
        BY <1>1, <2>4
      <3>2. Rising(l - 1) /\ Doubled[l] = 2 * Doubled[l - 1]
        BY <1>2, <2>2, <3>1
      <3>3. Doubled[l] \in Nat \ {0} /\ Doubled[l - 1] <= Doubled[l]
        BY <3>2
      <3>4. ASSUME NEW j \in 0 .. l PROVE Doubled[j] <= Doubled[l]
        <4>1. CASE j = l
          BY <3>3, <4>1
        <4>2. CASE j # l
          <5>1. j \in 0 .. l - 1 /\ j \in 0 .. D
            BY <1>1, <4>2
          <5>2. Doubled[j] <= Doubled[l - 1]
            BY <3>2, <5>1
          <5>3. Doubled[j] \in Nat
            <6>1. j \notin Bad
              BY <2>2, <5>1
            <6>. QED BY <5>1, <6>1
          <5>. QED BY <3>2, <3>3, <5>2, <5>3
        <4>. QED BY <4>1, <4>2
      <3>5. Rising(l)
        BY <3>3, <3>4
      <3>. QED BY <2>2, <3>5
    <2>. QED BY <2>3, <2>4
  <1>4. Rising(D)
    <2>1. D \in 0 .. D
      BY <1>1
    <2>. QED BY <1>3, <2>1
  <1>5. \A k \in 0 .. D : Doubled[k] \in Nat \ {0}
    BY <1>3
  <1>. QED BY <1>1, <1>4, <1>5 DEF Limits, OldSize

-----------------------------------------------------------------------------
(* Narrowing the old buffer. *)

(* EntriesOff as a function of the prefixes of the sequence. *)
LEMMA EntriesSteps ==
    ASSUME NEW q, NEW X, Len(q) \in Nat
    PROVE  \E g : /\ EntriesOff(X, q) = g[Len(q)]
                  /\ g[0] = <<>>
                  /\ \A k \in 1 .. Len(q) :
                        g[k] = IF PageOf[q[k]] \in X THEN g[k - 1] ELSE Append(g[k - 1], q[k])
  <1>. DEFINE N == Len(q)
              IsEntries(g, l) ==
                  g = [k \in 0 .. l |->
                          IF k = 0 THEN <<>>
                          ELSE IF PageOf[q[k]] \in X THEN g[k - 1] ELSE Append(g[k - 1], q[k])]
              entries == CHOOSE g : IsEntries(g, N)
  <1>2. \A l \in Nat : \E g : IsEntries(g, l)
    <2>. DEFINE Bad == {l \in Nat : ~ \E g : IsEntries(g, l)}
    <2>1. SUFFICES ASSUME Bad # {} PROVE FALSE
      OBVIOUS
    <2>2. PICK l \in Bad : \A k \in Bad : l <= k
      BY <2>1, LeastNatural
    <2>3. CASE l = 0
      <3>. DEFINE g == [k \in 0 .. 0 |-> <<>>]
      <3>1. IsEntries(g, 0)
        OBVIOUS
      <3>. QED BY <2>3, <3>1
    <2>4. CASE l # 0
      <3>0. l \in Nat
        OBVIOUS
      <3>1. l - 1 \in Nat /\ l - 1 \notin Bad
        <4>1. l - 1 \in Nat /\ ~(l <= l - 1)
          BY <2>4, <3>0
        <4>. QED BY <2>2, <4>1
      <3>2. PICK g : IsEntries(g, l - 1)
        BY <3>1
      <3>. DEFINE h == [k \in 0 .. l |->
                           IF k = l THEN IF PageOf[q[l]] \in X THEN g[l - 1]
                                         ELSE Append(g[l - 1], q[l])
                           ELSE g[k]]
      <3>3. ASSUME NEW k \in 0 .. l
            PROVE  h[k] = IF k = 0 THEN <<>>
                          ELSE IF PageOf[q[k]] \in X THEN h[k - 1] ELSE Append(h[k - 1], q[k])
        <4>1. CASE k = l
          <5>1. h[k - 1] = g[l - 1]
            BY <2>4, <4>1
          <5>. QED BY <2>4, <4>1, <5>1
        <4>2. CASE k # l
          <5>1. k \in 0 .. (l - 1) /\ h[k] = g[k]
            BY <4>2
          <5>2. g[k] = IF k = 0 THEN <<>>
                       ELSE IF PageOf[q[k]] \in X THEN g[k - 1] ELSE Append(g[k - 1], q[k])
            BY <3>2, <5>1
          <5>3. k # 0 => h[k - 1] = g[k - 1]
            BY <5>1
          <5>. QED BY <5>1, <5>2, <5>3
        <4>. QED BY <4>1, <4>2
      <3>4. IsEntries(h, l)
        BY <3>3
      <3>. QED BY <2>2, <3>4
    <2>. QED BY <2>3, <2>4
  <1>3. IsEntries(entries, N)
    BY <1>2
  <1>4. EntriesOff(X, q) = entries[N]
    BY DEF EntriesOff
  <1>. HIDE DEF entries
  <1>5. /\ entries[0] = <<>>
        /\ \A k \in 1 .. N :
              entries[k] = IF PageOf[q[k]] \in X THEN entries[k - 1]
                           ELSE Append(entries[k - 1], q[k])
    <2>1. 0 \in 0 .. N /\ \A k \in 1 .. N : k \in 0 .. N /\ k # 0
      OBVIOUS
    <2>. HIDE DEF N
    <2>. QED BY <1>3, <2>1
  <1>. QED BY <1>4, <1>5

(* The entries on other pages, and no more of them than there were. *)
LEMMA EntriesOffAre ==
    ASSUME NEW q \in Seq(Slot), NEW X
    PROVE  /\ EntriesOff(X, q) \in Seq(Slot)
           /\ Len(EntriesOff(X, q)) <= Len(q)
           /\ Range(EntriesOff(X, q)) = {s \in Range(q) : PageOf[s] \notin X}
  <1>1. PICK g : /\ EntriesOff(X, q) = g[Len(q)]
                 /\ g[0] = <<>>
                 /\ \A k \in 1 .. Len(q) :
                       g[k] = IF PageOf[q[k]] \in X THEN g[k - 1] ELSE Append(g[k - 1], q[k])
    <2>1. Len(q) \in Nat
      OBVIOUS
    <2>. QED BY <2>1, EntriesSteps
  <1>. DEFINE Kept(k) == /\ g[k] \in Seq(Slot) /\ Len(g[k]) <= k
                         /\ Range(g[k]) = {s \in {q[i] : i \in 1 .. k} : PageOf[s] \notin X}
              Bad == {k \in 0 .. Len(q) : ~Kept(k)}
  <1>2. Bad = {}
    <2>1. SUFFICES ASSUME Bad # {} PROVE FALSE
      OBVIOUS
    <2>2. PICK l \in Bad : \A k \in Bad : l <= k
      <3>1. Bad \in SUBSET Nat
        OBVIOUS
      <3>. HIDE DEF Bad
      <3>. QED BY <2>1, <3>1, LeastNatural
    <2>3. CASE l = 0
      <3>1. {q[i] : i \in 1 .. 0} = {} /\ Range(<<>>) = {}
        BY DEF Range
      <3>2. Kept(0)
        BY <1>1, <3>1
      <3>. QED BY <2>2, <2>3, <3>2
    <2>4. CASE l # 0
      <3>. DEFINE k == l - 1
      <3>1. k \in Nat /\ l \in 1 .. Len(q) /\ l = k + 1 /\ k \notin Bad /\ k \in 0 .. Len(q)
        <4>1. l \in 0 .. Len(q) /\ Len(q) \in Nat
          OBVIOUS
        <4>2. k \in Nat /\ l \in 1 .. Len(q) /\ l = k + 1 /\ ~(l <= k) /\ k \in 0 .. Len(q)
          BY <2>4, <4>1
        <4>. QED BY <2>2, <4>2
      <3>2. Kept(k) /\ q[l] \in Slot
        BY <3>1
      <3>3. g[l] = IF PageOf[q[l]] \in X THEN g[k] ELSE Append(g[k], q[l])
        BY <1>1, <3>1
      <3>. HIDE DEF k
      <3>4. {q[i] : i \in 1 .. l} = {q[i] : i \in 1 .. k} \cup {q[l]}
        <4>1. 1 .. l = (1 .. k) \cup {l}
          BY <3>1
        <4>. QED BY <4>1
      <3>5. CASE PageOf[q[l]] \notin X
        <4>1. g[l] \in Seq(Slot) /\ Len(g[l]) = Len(g[k]) + 1 /\ Range(g[l]) = Range(g[k]) \cup {q[l]}
          BY <3>2, <3>3, <3>5, RangeAppend
        <4>2. Len(g[l]) <= l
          BY <3>1, <3>2, <4>1
        <4>3. Kept(l)
          BY <3>2, <3>4, <3>5, <4>1, <4>2
        <4>. QED BY <2>2, <4>3
      <3>6. CASE PageOf[q[l]] \in X
        <4>1. Len(g[l]) <= l
          BY <3>1, <3>2, <3>3, <3>6
        <4>2. Kept(l)
          BY <3>2, <3>3, <3>4, <3>6, <4>1
        <4>. QED BY <2>2, <4>2
      <3>. QED BY <3>5, <3>6
    <2>. QED BY <2>3, <2>4
  <1>3. Kept(Len(q))
    <2>1. Len(q) \in 0 .. Len(q)
      OBVIOUS
    <2>. QED BY <1>2, <2>1
  <1>4. Range(q) = {q[i] : i \in 1 .. Len(q)}
    BY RangeIs
  <1>. QED BY <1>1, <1>3, <1>4

(* What a buffer of the type offers. *)
LEMMA FromBuffer ==
    ASSUME NEW b \in BufferType
    PROVE  /\ b.old \in Seq(Slot) /\ Len(b.old) \in Nat /\ Range(b.old) \subseteq Slot
           /\ b.limit \in Limits /\ b.limit \in Nat \ {0} /\ b.limit <= OldSize
           /\ b.scan \subseteq Page /\ b.filtered \in BOOLEAN
           /\ {PageOf[s] : s \in Range(b.old)} \subseteq Page
  <1>1. /\ b.old \in Seq(Slot) /\ b.limit \in Limits /\ b.scan \subseteq Page
        /\ b.filtered \in BOOLEAN
    BY DEF BufferType
  <1>2. Range(b.old) \subseteq Slot
    BY <1>1, RangeIs
  <1>. QED BY <1>1, <1>2, LimitsAre, SlotAssumption

(* Narrowing twice narrows. *)
LEMMA NarrowsTransitive ==
    ASSUME NEW b \in BufferType, NEW c, NEW r, Narrows(b, c), Narrows(c, r)
    PROVE  Narrows(b, r)
  <1>1. b \in BufferType /\ c \in BufferType /\ r \in BufferType
    BY DEF Narrows
  <1>2. /\ b.limit \in Nat /\ c.limit \in Nat /\ r.limit \in Nat
        /\ Len(b.old) \in Nat /\ Len(c.old) \in Nat /\ Len(r.old) \in Nat
    BY <1>1, FromBuffer
  <1>3. r.limit >= b.limit /\ Len(r.old) <= Len(b.old)
    BY <1>2 DEF Narrows
  <1>4. /\ Range(r.old) \subseteq Range(b.old) /\ b.scan \subseteq r.scan
        /\ r.scan \subseteq b.scan \cup {PageOf[s] : s \in Range(b.old)}
        /\ Noted(r, Range(b.old))
    BY DEF Narrows, Noted
  <1>. QED BY <1>1, <1>3, <1>4 DEF Narrows

(* A buffer without entries on some pages; the hash sets start anew. *)
LEMMA FilterIs ==
    ASSUME NEW b \in BufferType, NEW pages
    PROVE  LET r == Filter(b, pages)
           IN  /\ r \in BufferType /\ r.limit = b.limit /\ r.filtered = b.filtered
               /\ r.scan = b.scan /\ Cleared(r) /\ SetsOK(r)
               /\ Len(r.old) <= Len(b.old)
               /\ Range(r.old) = {s \in Range(b.old) : PageOf[s] \notin pages}
  <1>. DEFINE r == Filter(b, pages)
  <1>1. b.old \in Seq(Slot)
    BY FromBuffer
  <1>2. /\ EntriesOff(pages, b.old) \in Seq(Slot)
        /\ Len(EntriesOff(pages, b.old)) <= Len(b.old)
        /\ Range(EntriesOff(pages, b.old)) = {s \in Range(b.old) : PageOf[s] \notin pages}
    BY <1>1, EntriesOffAre
  <1>3. /\ r \in BufferType /\ r.limit = b.limit /\ r.filtered = b.filtered
        /\ r.scan = b.scan /\ Cleared(r) /\ r.old = EntriesOff(pages, b.old)
    BY <1>2 DEF Filter, BufferType, Cleared, NoEntries
  <1>4. SetsOK(r)
    BY <1>3 DEF Cleared, SetsOK, NoEntries
  <1>. QED BY <1>2, <1>3, <1>4

(* Filtering out what is on flagged pages. *)
LEMMA FilterScannedIs ==
    ASSUME NEW b \in BufferType
    PROVE  LET r == FilterScanned(b)
           IN  /\ Narrows(b, r) /\ r.limit = b.limit /\ r.filtered = b.filtered
               /\ r.scan = b.scan
               /\ \A s \in Range(r.old) : PageOf[s] \notin b.scan
  <1>. DEFINE r == FilterScanned(b)
  <1>0. b.limit \in Nat /\ Len(b.old) \in Nat
    BY FromBuffer
  <1>1. CASE b.scan = {}
    <2>1. r = b
      BY <1>1 DEF FilterScanned
    <2>. QED BY <1>0, <1>1, <2>1 DEF Narrows, Noted
  <1>2. CASE b.scan # {}
    <2>1. r = Filter(b, b.scan)
      BY <1>2 DEF FilterScanned
    <2>. HIDE DEF r
    <2>2. /\ r \in BufferType /\ r.limit = b.limit /\ r.filtered = b.filtered
          /\ r.scan = b.scan /\ Cleared(r) /\ SetsOK(r)
          /\ Len(r.old) <= Len(b.old)
          /\ Range(r.old) = {s \in Range(b.old) : PageOf[s] \notin b.scan}
      BY <2>1, FilterIs
    <2>3. Narrows(b, r)
      BY <1>0, <2>2 DEF Narrows, Noted
    <2>. QED BY <2>2, <2>3 DEF r
  <1>. QED BY <1>1, <1>2
-----------------------------------------------------------------------------
(* Exempting popular pages. *)

(* One round of exemptions narrows the buffer; with a sample of all the      *)
(* entries and no threshold it leaves none.                                *)
LEMMA PopularPagesNarrow ==
    ASSUME NEW b \in BufferType, NEW sample \in [step : Nat \ {0}, threshold : Nat]
    PROVE  LET r == ExemptPopularPages(sample, b)
           IN  /\ Narrows(b, r) /\ r.limit = b.limit /\ r.filtered
               /\ sample = [step |-> 1, threshold |-> 0] => HalfFree(r)
  <1>. DEFINE popular == {p \in Page : Cardinality(Sampled(b, p, sample.step)) > sample.threshold}
              pages == {PageOf[s] : s \in Range(b.old)}
              c == [b EXCEPT !.scan = @ \cup popular]
              f == IF popular = {} THEN b ELSE FilterScanned(c)
              r == ExemptPopularPages(sample, b)
  <1>1. /\ b.old \in Seq(Slot) /\ Len(b.old) \in Nat /\ Range(b.old) \subseteq Slot
        /\ b.limit \in Nat \ {0} /\ b.scan \subseteq Page /\ pages \subseteq Page
    BY FromBuffer
  <1>2. popular \subseteq pages
    <2>. SUFFICES ASSUME NEW p \in popular PROVE p \in pages
      OBVIOUS
    <2>1. Cardinality(Sampled(b, p, sample.step)) > 0
      <3>1. Sampled(b, p, sample.step) \in SUBSET (1 .. Len(b.old))
        BY <1>1 DEF Sampled
      <3>2. IsFiniteSet(Sampled(b, p, sample.step))
        <4>1. IsFiniteSet(1 .. Len(b.old))
          <5>1. 1 \in Int /\ Len(b.old) \in Int
            BY <1>1
          <5>. QED BY <5>1, FS_Interval
        <4>. QED BY <3>1, <4>1, FS_Subset
      <3>3. Cardinality(Sampled(b, p, sample.step)) \in Nat
        BY <3>2, FS_CardinalityType
      <3>4. sample.threshold \in Nat
        OBVIOUS
      <3>. QED BY <3>3, <3>4
    <2>2. Sampled(b, p, sample.step) # {}
      BY <2>1, FS_EmptySet
    <2>. QED BY <1>1, <2>2 DEF Sampled, Range
  <1>3. sample = [step |-> 1, threshold |-> 0] => popular = pages
    <2>. SUFFICES ASSUME sample = [step |-> 1, threshold |-> 0], NEW s \in Range(b.old)
                  PROVE  PageOf[s] \in popular
      BY <1>2
    <2>1. PICK i \in 1 .. Len(b.old) : b.old[i] = s
      BY <1>1, RangeIs
    <2>2. i \in Sampled(b, PageOf[s], 1)
      <3>1. (i - 1) % 1 = 0
        BY <1>1, <2>1
      <3>. QED BY <1>1, <2>1, <3>1 DEF Sampled
    <2>3. Cardinality(Sampled(b, PageOf[s], 1)) > 0
      <3>1. Sampled(b, PageOf[s], 1) \in SUBSET (1 .. Len(b.old))
        BY <1>1 DEF Sampled
      <3>2. IsFiniteSet(Sampled(b, PageOf[s], 1))
        <4>1. IsFiniteSet(1 .. Len(b.old))
          <5>1. 1 \in Int /\ Len(b.old) \in Int
            BY <1>1
          <5>. QED BY <5>1, FS_Interval
        <4>. QED BY <3>1, <4>1, FS_Subset
      <3>3. Cardinality(Sampled(b, PageOf[s], 1)) \in Nat
        BY <3>2, FS_CardinalityType
      <3>4. Cardinality(Sampled(b, PageOf[s], 1)) # 0
        BY <2>2, <3>2, FS_EmptySet
      <3>. QED BY <3>3, <3>4
    <2>4. PageOf[s] \in Page
      BY <1>1
    <2>. QED BY <2>3, <2>4
  <1>4. r = [f EXCEPT !.filtered = TRUE]
    BY DEF ExemptPopularPages
  <1>. HIDE DEF popular
  <1>5. c \in BufferType /\ Narrows(b, c) /\ c.limit = b.limit /\ c.scan = b.scan \cup popular
    <2>1. /\ c \in BufferType /\ c.limit = b.limit /\ c.scan = b.scan \cup popular
          /\ c.old = b.old /\ c.set1 = b.set1 /\ c.set2 = b.set2
      BY <1>1, <1>2 DEF BufferType
    <2>. HIDE DEF c
    <2>. QED BY <1>1, <1>2, <2>1 DEF Narrows, Noted, SetsOK, Cleared
  <1>6. /\ f \in BufferType /\ Narrows(b, f) /\ f.limit = b.limit
        /\ popular = pages => Range(f.old) = {}
    <2>1. CASE popular = {}
      <3>1. f = b
        BY <2>1
      <3>2. Narrows(b, b)
        BY <1>1 DEF Narrows, Noted
      <3>. QED BY <2>1, <3>1, <3>2
    <2>2. CASE popular # {}
      <3>1. f = FilterScanned(c)
        BY <2>2
      <3>. HIDE DEF f, c
      <3>2. /\ Narrows(c, f) /\ f.limit = c.limit
            /\ \A s \in Range(f.old) : PageOf[s] \notin c.scan
        BY <1>5, <3>1, FilterScannedIs
      <3>3. Narrows(b, f)
        BY <1>5, <3>2, NarrowsTransitive
      <3>4. popular = pages => Range(f.old) = {}
        BY <1>5, <3>2, <3>3 DEF Narrows
      <3>. QED BY <1>5, <3>2, <3>3, <3>4 DEF Narrows
    <2>. QED BY <2>1, <2>2
  <1>. HIDE DEF f, r
  <1>7. /\ r \in BufferType /\ r.limit = f.limit /\ r.filtered /\ r.old = f.old
        /\ r.scan = f.scan /\ r.set1 = f.set1 /\ r.set2 = f.set2
    BY <1>4, <1>6 DEF BufferType
  <1>8. Narrows(b, r)
    BY <1>6, <1>7 DEF Narrows, Noted, SetsOK, Cleared
  <1>9. Range(f.old) = {} => HalfFree(r)
    <2>1. f.old \in Seq(Slot)
      BY <1>6, FromBuffer
    <2>2. Range(f.old) = {} => Len(f.old) = 0
      <3>1. Len(f.old) # 0 => 1 \in 1 .. Len(f.old)
        BY <2>1
      <3>2. \A i \in 1 .. Len(f.old) : f.old[i] \in Range(f.old)
        BY <2>1, RangeIs
      <3>. QED BY <3>1, <3>2
    <2>. QED BY <1>1, <1>6, <1>7, <2>2 DEF HalfFree
  <1>. QED BY <1>3, <1>6, <1>7, <1>8, <1>9 DEF r, pages

(* A step of the loop over the samples. *)
LEMMA ExemptIs ==
    ASSUME NEW b \in BufferType, b.filtered,
           NEW sample \in [step : Nat \ {0}, threshold : Nat]
    PROVE  LET r == Exempt(sample, b)
           IN  /\ Narrows(b, r) /\ r.limit = b.limit /\ r.filtered
               /\ HalfFree(b) => HalfFree(r)
               /\ sample = [step |-> 1, threshold |-> 0] => HalfFree(r)
  <1>1. CASE HalfFree(b)
    <2>1. Exempt(sample, b) = b
      BY <1>1 DEF Exempt
    <2>2. b.limit \in Nat /\ Len(b.old) \in Nat
      BY FromBuffer
    <2>. QED BY <1>1, <2>1, <2>2 DEF Narrows, Noted
  <1>2. CASE ~HalfFree(b)
    <2>1. Exempt(sample, b) = ExemptPopularPages(sample, b)
      BY <1>2 DEF Exempt
    <2>. QED BY <1>2, <2>1, PopularPagesNarrow
  <1>. QED BY <1>1, <1>2

(* The fold of Exempt as a function of the ends of the table. *)
LEMMA FoldOfSuffixes ==
    ASSUME NEW b
    PROVE  \E g : /\ ExemptAll(b) = g[1 .. Len(Samples)]
                  /\ g[{}] = b
                  /\ \A k \in 1 .. Len(Samples) :
                        g[k .. Len(Samples)] = Exempt(Samples[k], g[k + 1 .. Len(Samples)])
  <1>. DEFINE N == Len(Samples)
              IsFold(g, S) ==
                  g = [s \in SUBSET S |->
                          IF s = {} THEN b
                          ELSE Exempt(Samples[Min(s)], g[s \ {Min(s)}])]
              fold == CHOOSE g : IsFold(g, DOMAIN Samples)
  <1>1. N \in Nat /\ DOMAIN Samples = 1 .. N
    BY SizeAssumption
  <1>. HIDE DEF N
  <1>2. \A l \in 0 .. N : \E g : IsFold(g, N - l + 1 .. N)
    <2>. DEFINE Bad == {l \in 0 .. N : ~ \E g : IsFold(g, N - l + 1 .. N)}
    <2>1. SUFFICES ASSUME Bad # {} PROVE FALSE
      OBVIOUS
    <2>2. PICK l \in Bad : \A k \in Bad : l <= k
      <3>1. Bad \in SUBSET Nat
        BY <1>1
      <3>. HIDE DEF Bad
      <3>. QED BY <2>1, <3>1, LeastNatural
    <2>3. CASE l = 0
      <3>. DEFINE g == [s \in SUBSET {} |-> b]
      <3>1. N - l + 1 .. N = {}
        BY <1>1, <2>3
      <3>2. IsFold(g, {})
        OBVIOUS
      <3>. QED BY <2>2, <3>1, <3>2
    <2>4. CASE l # 0
      <3>. DEFINE k == N - l + 1
      <3>1. /\ k \in 1 .. N /\ l - 1 \in 0 .. N /\ ~(l <= l - 1)
            /\ N - (l - 1) + 1 = k + 1
        BY <1>1, <2>4
      <3>2. PICK g : IsFold(g, k + 1 .. N)
        <4>1. l - 1 \notin Bad
          BY <2>2, <3>1
        <4>. QED BY <3>1, <4>1
      <3>3. ~ \E h : IsFold(h, k .. N)
        OBVIOUS
      <3>. HIDE DEF k
      <3>. DEFINE h == [s \in SUBSET (k .. N) |->
                           IF k \in s THEN Exempt(Samples[k], g[s \ {k}]) ELSE g[s]]
      <3>4. ASSUME NEW s \in SUBSET (k .. N)
            PROVE  h[s] = IF s = {} THEN b
                          ELSE Exempt(Samples[Min(s)], h[s \ {Min(s)}])
        <4>1. CASE k \in s
          <5>1. Min(s) = k
            <6>1. k \in Nat
              BY <1>1, <3>1
            <6>. QED BY <1>1, <4>1, <6>1, MinIsFirst
          <5>2. s \ {k} \in SUBSET (k .. N) /\ k \notin s \ {k}
            OBVIOUS
          <5>3. h[s \ {k}] = g[s \ {k}]
            BY <5>2
          <5>. QED BY <4>1, <5>1, <5>3
        <4>2. CASE k \notin s
          <5>1. s \in SUBSET (k + 1 .. N)
            <6>1. \A x \in k .. N : x # k => x \in k + 1 .. N
              BY <1>1, <3>1
            <6>. QED BY <4>2, <6>1
          <5>2. g[s] = IF s = {} THEN b ELSE Exempt(Samples[Min(s)], g[s \ {Min(s)}])
            BY <3>2, <5>1
          <5>3. s \ {Min(s)} \in SUBSET (k .. N) /\ k \notin s \ {Min(s)}
            BY <4>2
          <5>4. h[s \ {Min(s)}] = g[s \ {Min(s)}] /\ h[s] = g[s]
            BY <4>2, <5>3
          <5>. QED BY <5>2, <5>4
        <4>. QED BY <4>1, <4>2
      <3>5. IsFold(h, k .. N)
        BY <3>4
      <3>. QED BY <3>3, <3>5
    <2>. QED BY <2>3, <2>4
  <1>3. IsFold(fold, 1 .. N)
    <2>1. N \in 0 .. N /\ N - N + 1 = 1
      BY <1>1
    <2>2. \E g : IsFold(g, 1 .. N)
      BY <1>2, <2>1
    <2>. QED BY <1>1, <2>2
  <1>4. ExemptAll(b) = fold[1 .. N]
    <2>. DEFINE iter == CHOOSE iter :
                            iter = [s \in SUBSET DOMAIN Samples |->
                                IF s = {} THEN b
                                ELSE Exempt(Samples[Min(s)], iter[s \ {Min(s)}])]
    <2>1. ExemptAll(b) = iter[DOMAIN Samples]
      BY DEF ExemptAll, FoldRight, MapThenFoldSet
    <2>2. iter = fold
      OBVIOUS
    <2>. QED BY <1>1, <2>1, <2>2
  <1>. HIDE DEF fold
  <1>5. fold[{}] = b
    BY <1>3
  <1>6. ASSUME NEW k \in 1 .. N
        PROVE  fold[k .. N] = Exempt(Samples[k], fold[k + 1 .. N])
    <2>1. k .. N \in SUBSET (1 .. N) /\ k \in k .. N /\ (k .. N) \ {k} = k + 1 .. N
      BY <1>1
    <2>2. Min(k .. N) = k
      BY <1>1, <2>1, MinIsFirst
    <2>. QED BY <1>3, <2>1, <2>2
  <1>. QED BY <1>4, <1>5, <1>6 DEF N

(* All rounds together: half of the buffer is free. *)
LEMMA ExemptAllIs ==
    ASSUME NEW b \in BufferType, b.filtered
    PROVE  LET r == ExemptAll(b)
           IN  Narrows(b, r) /\ r.limit = b.limit /\ r.filtered /\ HalfFree(r)
  <1>. DEFINE N == Len(Samples)
  <1>1. PICK g : /\ ExemptAll(b) = g[1 .. N]
                 /\ g[{}] = b
                 /\ \A k \in 1 .. N : g[k .. N] = Exempt(Samples[k], g[k + 1 .. N])
    BY FoldOfSuffixes
  <1>2. /\ N \in Nat
        /\ \A k \in 1 .. N : Samples[k] \in [step : Nat \ {0}, threshold : Nat]
    <2>1. Samples \in Seq([step : Nat \ {0}, threshold : Nat])
      BY SizeAssumption
    <2>2. \A T : \A q \in Seq(T) : Len(q) \in Nat /\ \A k \in 1 .. Len(q) : q[k] \in T
      OBVIOUS
    <2>. QED BY <2>1, <2>2, Zenon
  <1>3. PICK last \in 1 .. N : Samples[last] = [step |-> 1, threshold |-> 0]
    <2>1. DOMAIN Samples = 1 .. N
      BY SizeAssumption
    <2>. HIDE DEF N
    <2>. QED BY <2>1, SizeAssumption
  <1>. HIDE DEF N
  <1>. DEFINE c(k) == g[k .. N]
              Fine(k) == /\ Narrows(b, c(k)) /\ c(k).limit = b.limit /\ c(k).filtered
                         /\ k <= last => HalfFree(c(k))
              Bad == {l \in 0 .. N : ~Fine(N - l + 1)}
  <1>4. Bad = {}
    <2>1. SUFFICES ASSUME Bad # {} PROVE FALSE
      OBVIOUS
    <2>2. PICK l \in Bad : \A k \in Bad : l <= k
      <3>1. Bad \in SUBSET Nat
        BY <1>2
      <3>. HIDE DEF Bad
      <3>. QED BY <2>1, <3>1, LeastNatural
    <2>3. CASE l = 0
      <3>1. N - l + 1 .. N = {} /\ ~(N - l + 1 <= last)
        BY <1>2, <1>3, <2>3
      <3>2. Narrows(b, b)
        <4>1. b.limit \in Nat /\ Len(b.old) \in Nat
          BY FromBuffer
        <4>. QED BY <4>1 DEF Narrows, Noted
      <3>. QED BY <1>1, <2>2, <3>1, <3>2
    <2>4. CASE l # 0
      <3>. DEFINE k == N - l + 1
      <3>1. /\ k \in 1 .. N /\ l - 1 \in 0 .. N /\ ~(l <= l - 1)
            /\ N - (l - 1) + 1 = k + 1
        BY <1>2, <2>4
      <3>2. Fine(k + 1)
        <4>1. l - 1 \notin Bad
          BY <2>2, <3>1
        <4>. QED BY <3>1, <4>1
      <3>3. ~Fine(k)
        OBVIOUS
      <3>. HIDE DEF k
      <3>4. c(k) = Exempt(Samples[k], c(k + 1))
        BY <1>1, <3>1
      <3>5. Narrows(b, c(k + 1)) /\ c(k + 1).limit = b.limit /\ c(k + 1).filtered
        BY <3>2
      <3>6. k <= last => k + 1 <= last \/ k = last
        BY <1>2, <1>3, <3>1
      <3>7. k + 1 <= last => HalfFree(c(k + 1))
        BY <3>2
      <3>. HIDE DEF c
      <3>8. /\ Narrows(c(k + 1), c(k)) /\ c(k).limit = c(k + 1).limit /\ c(k).filtered
            /\ HalfFree(c(k + 1)) => HalfFree(c(k))
            /\ Samples[k] = [step |-> 1, threshold |-> 0] => HalfFree(c(k))
        <4>1. c(k + 1) \in BufferType
          BY <3>5 DEF Narrows
        <4>. QED BY <1>2, <3>1, <3>4, <3>5, <4>1, ExemptIs
      <3>9. Narrows(b, c(k))
        BY <3>5, <3>8, NarrowsTransitive
      <3>. QED BY <1>3, <3>3, <3>5, <3>6, <3>7, <3>8, <3>9
    <2>. QED BY <2>3, <2>4
  <1>5. Fine(1)
    <2>1. N \in 0 .. N /\ N - N + 1 = 1
      BY <1>2
    <2>. QED BY <1>4, <2>1
  <1>6. 1 <= last
    BY <1>3
  <1>. QED BY <1>1, <1>5, <1>6

(* EnsureSpace narrows the buffer and leaves room for an entry; and for as   *)
(* many as the new buffer has.                                             *)
LEMMA EnsureSpaceIs ==
    ASSUME NEW b \in BufferType, b.filtered => HalfFree(b), NEW needed \in Nat \ {0}
    PROVE  LET r == EnsureSpace(b, needed)
           IN  /\ Narrows(b, r)
               /\ r.filtered => HalfFree(r)
               /\ Len(r.old) < r.limit
               /\ needed <= BufferSize => Len(r.old) + needed <= r.limit
  <1>. DEFINE Enough(limit) == limit - Len(b.old) >= needed
              limits == {l \in Limits : l >= b.limit /\ (Enough(l) \/ l = OldSize)}
              grown == [b EXCEPT !.limit = Min(limits)]
              marked == [grown EXCEPT !.filtered = TRUE]
              r == EnsureSpace(b, needed)
  <1>1. /\ b.old \in Seq(Slot) /\ Len(b.old) \in Nat /\ b.limit \in Nat
        /\ b.limit <= OldSize /\ b.filtered \in BOOLEAN
        /\ OldSize \in Nat
    BY FromBuffer, LimitsAre
  <1>2. /\ Min(limits) \in Limits /\ Min(limits) >= b.limit /\ Min(limits) \in Nat
        /\ Enough(Min(limits)) \/ Min(limits) = OldSize
    <2>1. limits \in SUBSET Nat /\ OldSize \in limits
      BY <1>1, LimitsAre
    <2>2. Min(limits) \in limits
      <3>. HIDE DEF limits
      <3>. QED BY <2>1, MinOfNaturals
    <2>. QED BY <2>1, <2>2
  <1>3. r = IF Enough(grown.limit) \/ grown.filtered
            THEN grown ELSE ExemptAll(FilterScanned(marked))
    BY DEF EnsureSpace
  <1>. HIDE DEF limits, r
  <1>4. /\ grown \in BufferType /\ grown.limit = Min(limits) /\ grown.old = b.old
        /\ grown.filtered = b.filtered /\ grown.scan = b.scan
        /\ grown.set1 = b.set1 /\ grown.set2 = b.set2
    BY <1>2 DEF BufferType
  <1>5. /\ marked \in BufferType /\ marked.limit = Min(limits) /\ marked.old = b.old
        /\ marked.filtered /\ marked.scan = b.scan
        /\ marked.set1 = b.set1 /\ marked.set2 = b.set2
    BY <1>2 DEF BufferType
  <1>. HIDE DEF grown, marked
  <1>6. Narrows(b, grown) /\ Narrows(b, marked)
    BY <1>1, <1>2, <1>4, <1>5 DEF Narrows, Noted, SetsOK, Cleared
  <1>7. grown.filtered => HalfFree(grown)
    BY <1>1, <1>2, <1>4 DEF HalfFree
  <1>8. /\ BufferSize \in Nat /\ BufferSize <= OldSize \div 2
    BY SizeAssumption
  <1>9. 2 * BufferSize <= OldSize
    BY <1>1, <1>8
  <1>10. CASE Enough(grown.limit)
    <2>1. r = grown
      BY <1>3, <1>10
    <2>. QED BY <1>1, <1>2, <1>4, <1>6, <1>7, <1>10, <2>1 DEF r
  <1>11. CASE ~Enough(grown.limit) /\ grown.filtered
    <2>1. r = grown
      BY <1>3, <1>11
    <2>2. grown.limit = OldSize
      BY <1>2, <1>4, <1>11
    <2>3. OldSize - Len(b.old) > Len(b.old)
      BY <1>4, <1>7, <1>11, <2>2 DEF HalfFree
    <2>4. Len(b.old) < OldSize /\ (needed <= BufferSize => Len(b.old) + needed <= OldSize)
      BY <1>1, <1>8, <1>9, <2>3
    <2>. QED BY <1>4, <1>6, <1>7, <2>1, <2>2, <2>4 DEF r
  <1>12. CASE ~Enough(grown.limit) /\ ~grown.filtered
    <2>. DEFINE f == FilterScanned(marked)
    <2>1. Narrows(marked, f) /\ f.limit = marked.limit /\ f.filtered = marked.filtered
      BY <1>5, FilterScannedIs
    <2>. HIDE DEF f
    <2>2. f \in BufferType /\ f.filtered
      BY <1>5, <2>1 DEF Narrows
    <2>3. r = ExemptAll(f)
      BY <1>3, <1>12 DEF f
    <2>4. Narrows(f, r) /\ r.limit = f.limit /\ r.filtered /\ HalfFree(r)
      BY <2>2, <2>3, ExemptAllIs
    <2>5. Narrows(b, r)
      <3>1. Narrows(b, f)
        BY <1>6, <2>1, NarrowsTransitive
      <3>. QED BY <2>4, <3>1, NarrowsTransitive
    <2>6. r.limit = OldSize
      BY <1>2, <1>4, <1>5, <1>12, <2>1, <2>4
    <2>7. Len(r.old) \in Nat
      BY <2>4, FromBuffer DEF Narrows
    <2>8. OldSize - Len(r.old) > Len(r.old)
      BY <2>4, <2>6 DEF HalfFree
    <2>9. Len(r.old) < OldSize /\ (needed <= BufferSize => Len(r.old) + needed <= OldSize)
      BY <1>1, <1>8, <1>9, <2>7, <2>8
    <2>. QED BY <2>4, <2>5, <2>6, <2>9 DEF r
  <1>. QED BY <1>10, <1>11, <1>12

-----------------------------------------------------------------------------
(* Moving entries in. *)

(* At most k more entries, those of S among them. *)
MovedIn(b, S, k, r) ==
    /\ r \in BufferType /\ r.limit = b.limit /\ r.scan = b.scan
    /\ Len(r.old) <= Len(b.old) + k
    /\ Range(r.old) = Range(b.old) \cup S
    /\ SetsOK(r)
    /\ r.filtered => b.filtered /\ Len(r.old) = Len(b.old)

(* An entry the sets vouch for is in the buffer; another is added. *)
LEMMA MoveIs ==
    ASSUME NEW b \in BufferType, SetsOK(b), NEW s \in Slot
    PROVE  MovedIn(b, {s}, 1, Move(b, s))
  <1>. DEFINE h1 == Hash1[s]
              h2 == Hash2[s]
              in1 == b.set1[h1]
              in2 == b.set2[h2]
              v1 == IF in1 = None \/ in2 # None THEN s ELSE in1
              v2 == IF in1 = None THEN in2 ELSE IF in2 = None THEN s ELSE None
              r == [b EXCEPT !.set1[h1] = v1, !.set2[h2] = v2,
                             !.old = Append(@, s), !.filtered = FALSE]
  <1>1. /\ h1 \in Bucket /\ h2 \in Bucket /\ s # None
    BY SlotAssumption
  <1>2. /\ b.old \in Seq(Slot) /\ Len(b.old) \in Nat
        /\ b.set1 \in [Bucket -> Slot \cup {None}] /\ b.set2 \in [Bucket -> Slot \cup {None}]
    BY FromBuffer DEF BufferType
  <1>3. in1 \in Range(b.old) \cup {None} /\ in2 \in Range(b.old) \cup {None}
    BY <1>1 DEF SetsOK
  <1>4. CASE s \in {in1, in2}
    <2>1. Move(b, s) = b
      BY <1>4 DEF Move
    <2>2. s \in Range(b.old)
      BY <1>1, <1>3, <1>4
    <2>. QED BY <1>2, <2>1, <2>2 DEF MovedIn
  <1>5. CASE s \notin {in1, in2}
    <2>1. Move(b, s) = r
      BY <1>5 DEF Move
    <2>2. v1 \in Slot \cup {None} /\ v2 \in Slot \cup {None}
      BY <1>1, <1>2
    <2>3. v1 \in Range(b.old) \cup {s, None} /\ v2 \in Range(b.old) \cup {s, None}
      BY <1>3
    <2>4. /\ Append(b.old, s) \in Seq(Slot) /\ Len(Append(b.old, s)) = Len(b.old) + 1
          /\ Range(Append(b.old, s)) = Range(b.old) \cup {s}
      BY <1>2, RangeAppend
    <2>. HIDE DEF v1, v2
    <2>5. /\ r.old = Append(b.old, s) /\ r.limit = b.limit /\ r.scan = b.scan /\ ~r.filtered
          /\ r.set1 = [b.set1 EXCEPT ![h1] = v1] /\ r.set2 = [b.set2 EXCEPT ![h2] = v2]
      BY DEF BufferType
    <2>6. r \in BufferType
      BY <2>2, <2>4 DEF BufferType
    <2>. HIDE DEF r, h1, h2
    <2>7. SetsOK(r)
      BY <1>1, <1>2, <2>3, <2>4, <2>5 DEF SetsOK
    <2>. QED BY <1>2, <2>1, <2>4, <2>5, <2>6, <2>7 DEF MovedIn
  <1>. QED BY <1>4, <1>5

(* The fold of Move as a function of the prefixes of the entries. *)
LEMMA FoldOfPrefixes ==
    ASSUME NEW b, NEW q \in Seq(Slot)
    PROVE  \E g : /\ MoveAll(b, q) = g[1 .. Len(q)]
                  /\ g[1 .. 0] = b
                  /\ \A k \in 0 .. Len(q) - 1 :
                        g[1 .. k + 1] = Move(g[1 .. k], q[k + 1])
  <1>. DEFINE N == Len(q)
              IsFold(g, S) ==
                  g = [s \in SUBSET S |->
                          IF s = {} THEN b
                          ELSE Move(g[s \ {Max(s)}], q[Max(s)])]
              fold == CHOOSE g : IsFold(g, DOMAIN q)
  <1>1. N \in Nat /\ DOMAIN q = 1 .. N
    OBVIOUS
  <1>2. \A k \in Nat : \E g : IsFold(g, 1 .. k)
    <2>. DEFINE Bad == {k \in Nat : ~ \E g : IsFold(g, 1 .. k)}
    <2>1. SUFFICES ASSUME Bad # {} PROVE FALSE
      OBVIOUS
    <2>2. PICK l \in Bad : \A k \in Bad : l <= k
      BY <2>1, LeastNatural
    <2>3. CASE l = 0
      <3>. DEFINE g == [s \in SUBSET (1 .. 0) |-> b]
      <3>1. \A s \in SUBSET (1 .. 0) : s = {}
        OBVIOUS
      <3>2. IsFold(g, 1 .. 0)
        BY <3>1
      <3>. QED BY <2>3, <3>2
    <2>4. CASE l # 0
      <3>. DEFINE k == l - 1
      <3>0. l \in Nat
        OBVIOUS
      <3>1. k \in Nat /\ k \notin Bad /\ l = k + 1
        <4>1. k \in Nat /\ ~(l <= k) /\ l = k + 1
          BY <2>4, <3>0
        <4>. QED BY <2>2, <4>1
      <3>2. PICK g : IsFold(g, 1 .. k)
        BY <3>1
      <3>. HIDE DEF k
      <3>. DEFINE h == [s \in SUBSET (1 .. l) |->
                           IF l \in s THEN Move(g[s \ {l}], q[l]) ELSE g[s]]
      <3>3. ASSUME NEW s \in SUBSET (1 .. l)
            PROVE  h[s] = IF s = {} THEN b
                          ELSE Move(h[s \ {Max(s)}], q[Max(s)])
        <4>1. CASE l \in s
          <5>1. Max(s) = l
            BY <3>1, <4>1, MaxIsLast
          <5>2. s \ {l} \in SUBSET (1 .. l) /\ l \notin s \ {l}
            OBVIOUS
          <5>3. h[s \ {l}] = g[s \ {l}]
            BY <5>2
          <5>. QED BY <4>1, <5>1, <5>3
        <4>2. CASE l \notin s
          <5>1. s \in SUBSET (1 .. k)
            <6>1. \A x \in 1 .. l : x # l => x \in 1 .. k
              BY <3>1
            <6>. QED BY <4>2, <6>1
          <5>2. g[s] = IF s = {} THEN b ELSE Move(g[s \ {Max(s)}], q[Max(s)])
            BY <3>2, <5>1
          <5>3. s \ {Max(s)} \in SUBSET (1 .. l) /\ l \notin s \ {Max(s)}
            BY <4>2
          <5>4. h[s \ {Max(s)}] = g[s \ {Max(s)}] /\ h[s] = g[s]
            BY <4>2, <5>3
          <5>. QED BY <5>2, <5>4
        <4>. QED BY <4>1, <4>2
      <3>4. IsFold(h, 1 .. l)
        BY <3>3
      <3>. QED BY <2>2, <3>4
    <2>. QED BY <2>3, <2>4
  <1>3. IsFold(fold, 1 .. N)
    BY <1>1, <1>2
  <1>4. MoveAll(b, q) = fold[1 .. N]
    <2>. DEFINE iter == CHOOSE iter :
                            iter = [s \in SUBSET DOMAIN q |->
                                IF s = {} THEN b
                                ELSE Move(iter[s \ {Max(s)}], q[Max(s)])]
    <2>1. MoveAll(b, q) = iter[DOMAIN q]
      BY DEF MoveAll, FoldLeft, MapThenFoldSet
    <2>2. iter = fold
      OBVIOUS
    <2>. QED BY <1>1, <2>1, <2>2
  <1>. HIDE DEF fold
  <1>5. fold[1 .. 0] = b
    <2>1. 1 .. 0 = {} /\ {} \in SUBSET (1 .. N)
      OBVIOUS
    <2>. QED BY <1>3, <2>1
  <1>6. ASSUME NEW k \in 0 .. N - 1
        PROVE  fold[1 .. k + 1] = Move(fold[1 .. k], q[k + 1])
    <2>1. k \in Nat /\ k + 1 \in 1 .. k + 1 /\ k + 1 <= N
      BY <1>1
    <2>. HIDE DEF N
    <2>3. 1 .. k + 1 \in SUBSET (1 .. N) /\ (1 .. k + 1) \ {k + 1} = 1 .. k
      BY <1>1, <2>1
    <2>2. Max(1 .. k + 1) = k + 1
      BY <2>1, MaxIsLast
    <2>. QED BY <1>3, <2>1, <2>2, <2>3
  <1>. QED BY <1>4, <1>5, <1>6

(* Entry after entry. *)
LEMMA MoveAllIs ==
    ASSUME NEW b \in BufferType, SetsOK(b), NEW q \in Seq(Slot)
    PROVE  MovedIn(b, Range(q), Len(q), MoveAll(b, q))
  <1>1. PICK g : /\ MoveAll(b, q) = g[1 .. Len(q)]
                 /\ g[1 .. 0] = b
                 /\ \A k \in 0 .. Len(q) - 1 :
                       g[1 .. k + 1] = Move(g[1 .. k], q[k + 1])
    BY FoldOfPrefixes
  <1>. DEFINE c(k) == g[1 .. k]
              Fine(k) == MovedIn(b, {q[i] : i \in 1 .. k}, k, c(k))
              Bad == {k \in 0 .. Len(q) : ~Fine(k)}
  <1>2. Bad = {}
    <2>1. SUFFICES ASSUME Bad # {} PROVE FALSE
      OBVIOUS
    <2>2. PICK l \in Bad : \A k \in Bad : l <= k
      <3>1. Bad \in SUBSET Nat
        OBVIOUS
      <3>. HIDE DEF Bad
      <3>. QED BY <2>1, <3>1, LeastNatural
    <2>3. CASE l = 0
      <3>1. {q[i] : i \in 1 .. 0} = {}
        OBVIOUS
      <3>2. Len(b.old) \in Nat
        BY FromBuffer
      <3>3. MovedIn(b, {}, 0, b)
        BY <3>2 DEF MovedIn
      <3>. QED BY <1>1, <2>2, <2>3, <3>1, <3>3
    <2>4. CASE l # 0
      <3>. DEFINE k == l - 1
      <3>1. k \in 0 .. Len(q) - 1 /\ l = k + 1 /\ k \notin Bad /\ k \in 0 .. Len(q)
        <4>1. l \in 0 .. Len(q) /\ Len(q) \in Nat
          OBVIOUS
        <4>2. k \in 0 .. Len(q) - 1 /\ l = k + 1 /\ ~(l <= k) /\ k \in 0 .. Len(q)
          BY <2>4, <4>1
        <4>. QED BY <2>2, <4>2
      <3>. HIDE DEF k
      <3>2. Fine(k)
        BY <3>1
      <3>3. q[l] \in Slot
        <4>1. l \in 1 .. Len(q)
          BY <3>1
        <4>. QED BY <4>1
      <3>4. c(l) = Move(c(k), q[l])
        BY <1>1, <3>1
      <3>5. {q[i] : i \in 1 .. k} \cup {q[l]} = {q[i] : i \in 1 .. l}
        <4>1. 1 .. l = (1 .. k) \cup {l}
          BY <3>1
        <4>. QED BY <4>1
      <3>6. c(k) \in BufferType /\ SetsOK(c(k))
        BY <3>2 DEF MovedIn
      <3>. HIDE DEF c
      <3>7. MovedIn(c(k), {q[l]}, 1, c(l))
        BY <3>3, <3>4, <3>6, MoveIs
      <3>8. Len(c(l).old) \in Nat /\ Len(c(k).old) \in Nat /\ Len(b.old) \in Nat
        BY <3>6, <3>7, FromBuffer DEF MovedIn
      <3>9. MovedIn(b, {q[i] : i \in 1 .. k} \cup {q[l]}, l, c(l))
        <4>1. /\ c(l) \in BufferType /\ c(l).limit = b.limit /\ c(l).scan = b.scan
              /\ SetsOK(c(l))
          BY <3>2, <3>7 DEF MovedIn
        <4>2. Len(c(l).old) <= Len(b.old) + l
          BY <3>1, <3>2, <3>7, <3>8 DEF MovedIn
        <4>3. Range(c(l).old) = Range(b.old) \cup ({q[i] : i \in 1 .. k} \cup {q[l]})
          <5>. DEFINE Q == {q[i] : i \in 1 .. k}
          <5>1. MovedIn(b, Q, k, c(k))
            BY <3>2
          <5>. HIDE DEF Q
          <5>2. Range(c(l).old) = Range(b.old) \cup (Q \cup {q[l]})
            BY <3>7, <5>1 DEF MovedIn
          <5>. QED BY <5>2 DEF Q
        <4>4. c(l).filtered => b.filtered /\ Len(c(l).old) = Len(b.old)
          BY <3>2, <3>7 DEF MovedIn
        <4>. QED BY <4>1, <4>2, <4>3, <4>4 DEF MovedIn
      <3>. QED BY <2>2, <3>5, <3>9
    <2>. QED BY <2>3, <2>4
  <1>3. Fine(Len(q))
    <2>1. Len(q) \in 0 .. Len(q)
      OBVIOUS
    <2>. QED BY <1>2, <2>1
  <1>4. Range(q) = {q[i] : i \in 1 .. Len(q)}
    BY RangeIs
  <1>. QED BY <1>1, <1>3, <1>4

(* A buffer that has taken entries in. *)
Absorbs(b, S, r) ==
    /\ Good(r)
    /\ Range(r.old) \subseteq Range(b.old) \cup S
    /\ b.scan \subseteq r.scan
    /\ r.scan \subseteq b.scan \cup {PageOf[s] : s \in Range(b.old) \cup S}
    /\ Noted(r, Range(b.old) \cup S)

(* Compact makes room, moves the entries in and makes room again. *)
LEMMA CompactAbsorbs ==
    ASSUME NEW b, Good(b), NEW q \in Seq(Slot), Len(q) <= BufferSize
    PROVE  Absorbs(b, Range(q), Compact(b, q))
  <1>1. CASE q = <<>>
    <2>1. Compact(b, q) = b
      BY <1>1 DEF Compact
    <2>2. Range(q) = {}
      BY <1>1 DEF Range
    <2>. QED BY <2>1, <2>2 DEF Absorbs, Noted
  <1>2. CASE q # <<>>
    <2>. DEFINE c == EnsureSpace(b, Len(q))
                d == MoveAll(c, q)
                r == EnsureSpace(d, CheckedSpace)
    <2>1. Compact(b, q) = r
      BY <1>2 DEF Compact
    <2>2. b \in BufferType /\ SetsOK(b) /\ (b.filtered => HalfFree(b))
      BY DEF Good
    <2>3. Len(q) \in Nat \ {0} /\ CheckedSpace \in Nat \ {0}
      BY <1>2, SizeAssumption
    <2>. HIDE DEF r, d, c
    <2>4. /\ Narrows(b, c) /\ (c.filtered => HalfFree(c))
          /\ Len(c.old) + Len(q) <= c.limit
      BY <2>2, <2>3, EnsureSpaceIs DEF c
    <2>5. c \in BufferType /\ SetsOK(c)
      BY <2>2, <2>4 DEF Narrows
    <2>6. MovedIn(c, Range(q), Len(q), d)
      BY <2>5, MoveAllIs DEF d
    <2>7. d \in BufferType /\ SetsOK(d) /\ (d.filtered => HalfFree(d))
      BY <2>4, <2>6 DEF MovedIn, HalfFree
    <2>8. /\ Narrows(d, r) /\ (r.filtered => HalfFree(r)) /\ Len(r.old) < r.limit
      BY <2>3, <2>7, EnsureSpaceIs DEF r
    <2>9. Good(r)
      BY <2>7, <2>8 DEF Good, Narrows
    <2>10. /\ Range(d.old) = Range(c.old) \cup Range(q) /\ d.scan = c.scan
      BY <2>6 DEF MovedIn
    <2>11. /\ Range(c.old) \subseteq Range(b.old) /\ b.scan \subseteq c.scan
           /\ c.scan \subseteq b.scan \cup {PageOf[s] : s \in Range(b.old)}
           /\ Noted(c, Range(b.old))
      BY <2>4 DEF Narrows
    <2>12. /\ Range(r.old) \subseteq Range(d.old) /\ d.scan \subseteq r.scan
           /\ r.scan \subseteq d.scan \cup {PageOf[s] : s \in Range(d.old)}
           /\ Noted(r, Range(d.old))
      BY <2>8 DEF Narrows
    <2>13. Noted(r, Range(b.old) \cup Range(q))
      BY <2>10, <2>11, <2>12 DEF Noted
    <2>. QED BY <2>1, <2>9, <2>10, <2>11, <2>12, <2>13 DEF Absorbs
  <1>. QED BY <1>1, <1>2

-----------------------------------------------------------------------------
(* The calls that take entries in, or drop those of a chunk. *)

Buffers == Good(sb) /\ new \in Seq(Slot) /\ Len(new) < BufferSize
(* Entries and flags, each for a slot of S or there before. *)
WithinEntries(S) ==
    /\ Entries' \subseteq Entries \cup S
    /\ sb'.scan \subseteq sb.scan \cup {PageOf[s] : s \in Entries \cup S}
(* The slots of S, and all that were remembered, are remembered. *)
Remembers(S) ==
    /\ sb.scan \subseteq sb'.scan
    /\ \A s \in Entries \cup S : s \in Entries' \/ PageOf[s] \in sb'.scan

(* An empty sequence of slots. *)
LEMMA EmptyEntries ==
    <<>> \in Seq(Slot) /\ Len(<<>>) = 0 /\ Range(<<>>) = {}
  BY DEF Range

(* The buffers with one slot more. *)
LEMMA MarkIs ==
    ASSUME Buffers, NEW s \in Slot, Mark(s)
    PROVE  Buffers' /\ WithinEntries({s}) /\ Remembers({s})
  <1>. DEFINE entries == Append(new, s)
  <1>1. /\ entries \in Seq(Slot) /\ Len(entries) = Len(new) + 1
        /\ Range(entries) = Range(new) \cup {s}
    BY RangeAppend DEF Buffers
  <1>2. BufferSize \in Nat /\ BufferSize # 0 /\ Len(new) \in Nat /\ Len(new) < BufferSize
    BY SizeAssumption DEF Buffers
  <1>3. CASE Len(entries) = BufferSize
    <2>1. new' = <<>> /\ sb' = Compact(sb, entries)
      BY <1>3 DEF Mark
    <2>. HIDE DEF entries
    <2>2. Absorbs(sb, Range(entries), sb')
      <3>1. Good(sb) /\ Len(entries) <= BufferSize
        BY <1>2, <1>3 DEF Buffers
      <3>2. Absorbs(sb, Range(entries), Compact(sb, entries))
        BY <1>1, <3>1, CompactAbsorbs
      <3>. QED BY <2>1, <3>2
    <2>3. Buffers' /\ Entries' = Range(sb'.old)
      BY <1>2, <2>1, <2>2, EmptyEntries DEF Buffers, Absorbs, Entries
    <2>. QED BY <1>1, <2>2, <2>3 DEF Absorbs, Noted, WithinEntries, Remembers, Entries
  <1>4. CASE Len(entries) # BufferSize
    <2>1. new' = entries /\ sb' = sb
      BY <1>4 DEF Mark
    <2>. HIDE DEF entries
    <2>2. Entries' = Entries \cup {s}
      BY <1>1, <2>1 DEF Entries
    <2>3. Buffers'
      BY <1>1, <1>2, <1>4, <2>1 DEF Buffers
    <2>. QED BY <2>1, <2>2, <2>3 DEF WithinEntries, Remembers
  <1>. QED BY <1>3, <1>4

(* The buffers without the entries of a chunk. *)
LEMMA ForgetIs ==
    ASSUME Buffers, NEW p, Forget(p)
    PROVE  /\ Buffers' /\ WithinEntries({})
           /\ p \notin sb'.scan
           /\ \A t \in Entries' : PageOf[t] # p
           /\ \A t \in Slot : (t \in Entries \/ PageOf[t] \in sb.scan) =>
                  t \in Entries' \/ PageOf[t] \in sb'.scan \/ PageOf[t] = p
  <1>. DEFINE c == Compact(sb, new)
              f == Filter(c, {p})
  <1>1. new' = <<>> /\ sb' = [f EXCEPT !.scan = @ \ {p}]
    BY DEF Forget
  <1>2. BufferSize \in Nat /\ BufferSize # 0
    BY SizeAssumption
  <1>. HIDE DEF c, f
  <1>3. Absorbs(sb, Range(new), c)
    BY <1>2, CompactAbsorbs DEF Buffers, c
  <1>4. c \in BufferType /\ (c.filtered => HalfFree(c)) /\ Len(c.old) < c.limit
    BY <1>3 DEF Absorbs, Good
  <1>5. /\ f \in BufferType /\ f.limit = c.limit /\ f.filtered = c.filtered
        /\ f.scan = c.scan /\ Cleared(f) /\ SetsOK(f)
        /\ Len(f.old) <= Len(c.old)
        /\ Range(f.old) = {s \in Range(c.old) : PageOf[s] \notin {p}}
    BY <1>4, FilterIs DEF f
  <1>6. /\ sb' \in BufferType /\ sb'.limit = f.limit /\ sb'.filtered = f.filtered
        /\ sb'.scan = f.scan \ {p} /\ sb'.old = f.old
        /\ sb'.set1 = f.set1 /\ sb'.set2 = f.set2
    BY <1>1, <1>5 DEF BufferType
  <1>7. /\ Len(f.old) \in Nat /\ Len(c.old) \in Nat /\ c.limit \in Nat
    BY <1>4, <1>5, FromBuffer
  <1>8. Good(sb')
    <2>1. SetsOK(sb')
      BY <1>5, <1>6 DEF SetsOK
    <2>2. Len(sb'.old) < sb'.limit /\ (sb'.filtered => HalfFree(sb'))
      BY <1>4, <1>5, <1>6, <1>7 DEF HalfFree
    <2>. QED BY <1>6, <2>1, <2>2 DEF Good
  <1>9. Buffers'
    BY <1>1, <1>2, <1>8, EmptyEntries DEF Buffers
  <1>10. Entries' = {s \in Range(c.old) : PageOf[s] # p}
    BY <1>1, <1>5, <1>6, EmptyEntries DEF Entries
  <1>. QED BY <1>3, <1>5, <1>6, <1>9, <1>10 DEF Absorbs, Noted, WithinEntries, Entries

(* The old buffer as the iteration finds it: nothing is in the new buffer,  *)
(* or on a flagged page, and the hash sets are empty.                      *)
LEMMA PreparedIs ==
    ASSUME Buffers
    PROVE  LET r == Prepared(sb)
           IN  /\ Absorbs(sb, Range(new), r) /\ Cleared(r)
               /\ \A s \in Range(r.old) : PageOf[s] \notin r.scan
  <1>. DEFINE c == Compact(sb, new)
              f == FilterScanned(c)
              r == Prepared(sb)
  <1>1. r = [f EXCEPT !.set1 = NoEntries, !.set2 = NoEntries]
    BY DEF Prepared, ClearHashSets
  <1>2. BufferSize \in Nat /\ BufferSize # 0
    BY SizeAssumption
  <1>. HIDE DEF c, f, r
  <1>3. Absorbs(sb, Range(new), c)
    BY <1>2, CompactAbsorbs DEF Buffers, c
  <1>4. /\ c \in BufferType /\ (c.filtered => HalfFree(c)) /\ Len(c.old) < c.limit
        /\ SetsOK(c)
    BY <1>3 DEF Absorbs, Good
  <1>5. /\ Narrows(c, f) /\ f.limit = c.limit /\ f.filtered = c.filtered
        /\ f.scan = c.scan
        /\ \A s \in Range(f.old) : PageOf[s] \notin c.scan
    BY <1>4, FilterScannedIs DEF f
  <1>6. f \in BufferType
    BY <1>5 DEF Narrows
  <1>7. /\ r \in BufferType /\ r.limit = f.limit /\ r.filtered = f.filtered
        /\ r.scan = f.scan /\ r.old = f.old /\ Cleared(r)
    BY <1>1, <1>6 DEF BufferType, Cleared, NoEntries
  <1>8. /\ Len(f.old) \in Nat /\ Len(c.old) \in Nat /\ c.limit \in Nat
    BY <1>4, <1>6, FromBuffer
  <1>9. Good(r)
    <2>1. SetsOK(r)
      BY <1>7 DEF SetsOK, Cleared, NoEntries
    <2>2. Len(f.old) <= Len(c.old)
      BY <1>5 DEF Narrows
    <2>3. Len(r.old) < r.limit /\ (r.filtered => HalfFree(r))
      BY <1>4, <1>5, <1>7, <1>8, <2>2 DEF HalfFree
    <2>. QED BY <1>7, <2>1, <2>3 DEF Good
  <1>10. Absorbs(sb, Range(new), r)
    <2>1. /\ Range(r.old) \subseteq Range(c.old) /\ r.scan = c.scan
          /\ Noted(r, Range(c.old))
      BY <1>5, <1>7 DEF Narrows, Noted
    <2>. QED BY <1>3, <1>9, <2>1 DEF Absorbs, Noted
  <1>11. \A s \in Range(r.old) : PageOf[s] \notin r.scan
    BY <1>5, <1>7
  <1>. QED BY <1>7, <1>10, <1>11 DEF r

-----------------------------------------------------------------------------
(* Rebuilding the buffer. *)

(* What has been entered for the page being scanned. *)
OwnEntries(b) ==
    /\ start < b.limit /\ start <= Len(b.old)
    /\ \A i \in start + 1 .. Len(b.old) : PageOf[b.old[i]] = page

(* The entries of the page are taken back and the page flagged. *)
LEMMA WipePageIs ==
    ASSUME NEW b \in BufferType, Cleared(b), page \in Page, start \in Nat, OwnEntries(b)
    PROVE  LET r == WipePage(b)
           IN  /\ r \in BufferType /\ Cleared(r) /\ SetsOK(r)
               /\ r.limit = b.limit /\ r.filtered = b.filtered
               /\ r.scan = b.scan \cup {page}
               /\ Len(r.old) = start
               /\ Range(r.old) \subseteq Range(b.old)
               /\ Noted(r, Range(b.old))
               /\ OwnEntries(r)
  <1>. DEFINE q == SubSeq(b.old, 1, start)
              r == WipePage(b)
  <1>1. b.old \in Seq(Slot) /\ Len(b.old) \in Nat /\ b.scan \subseteq Page
    BY FromBuffer
  <1>2. r = [b EXCEPT !.scan = @ \cup {page}, !.old = q]
    BY DEF WipePage
  <1>3. /\ q \in Seq(Slot) /\ Len(q) = start
        /\ \A i \in 1 .. start : q[i] = b.old[i]
    BY <1>1 DEF OwnEntries
  <1>. HIDE DEF q, r
  <1>4. /\ r \in BufferType /\ r.limit = b.limit /\ r.filtered = b.filtered
        /\ r.scan = b.scan \cup {page} /\ r.old = q
        /\ r.set1 = b.set1 /\ r.set2 = b.set2
    BY <1>1, <1>2, <1>3 DEF BufferType
  <1>5. Cleared(r) /\ SetsOK(r)
    BY <1>4 DEF Cleared, SetsOK, NoEntries
  <1>6. /\ Range(q) = {q[i] : i \in 1 .. start}
        /\ Range(b.old) = {b.old[i] : i \in 1 .. Len(b.old)}
    BY <1>1, <1>3, RangeIs
  <1>7. Range(q) \subseteq Range(b.old)
    <2>1. \A i \in 1 .. start : i \in 1 .. Len(b.old)
      BY <1>1 DEF OwnEntries
    <2>. QED BY <1>3, <1>6, <2>1
  <1>8. Noted(r, Range(b.old))
    <2>. SUFFICES ASSUME NEW i \in 1 .. Len(b.old)
                  PROVE  b.old[i] \in Range(r.old) \/ PageOf[b.old[i]] \in r.scan
      BY <1>6 DEF Noted
    <2>1. CASE i <= start
      <3>1. i \in 1 .. start
        BY <1>1, <2>1
      <3>. QED BY <1>3, <1>4, <1>6, <3>1
    <2>2. CASE ~(i <= start)
      <3>1. i \in start + 1 .. Len(b.old)
        BY <1>1, <2>2
      <3>. QED BY <1>4, <3>1 DEF OwnEntries
    <2>. QED BY <2>1, <2>2
  <1>9. OwnEntries(r)
    <2>1. start + 1 .. Len(r.old) = {}
      BY <1>3, <1>4
    <2>2. start < r.limit /\ start <= Len(r.old)
      BY <1>3, <1>4 DEF OwnEntries
    <2>. QED BY <2>1, <2>2 DEF OwnEntries
  <1>. QED BY <1>3, <1>4, <1>5, <1>7, <1>8, <1>9 DEF r

(* A slot entered: there is room for it, or pages are exempted, or the page *)
(* that is being scanned overflows and is flagged.                         *)
LEMMA EnterIs ==
    ASSUME NEW b, Good(b), Cleared(b), NEW s \in Slot,
           page \in Page \cup {None}, start \in Nat,
           page # None => OwnEntries(b) /\ PageOf[s] = page
    PROVE  LET r == Enter(b, s)
           IN  /\ Absorbs(b, {s}, r) /\ Cleared(r)
               /\ page # None => OwnEntries(r) /\ r.scan \subseteq b.scan \cup {page}
               /\ Len(b.old) + 1 < b.limit =>
                     /\ r.limit = b.limit /\ r.scan = b.scan
                     /\ Len(r.old) = Len(b.old) + 1
  <1>. DEFINE c == [b EXCEPT !.old = Append(@, s), !.filtered = FALSE]
              r == Enter(b, s)
  <1>1. /\ b \in BufferType /\ b.old \in Seq(Slot) /\ Len(b.old) \in Nat /\ b.limit \in Nat
        /\ Len(b.old) < b.limit /\ SetsOK(b)
    BY FromBuffer DEF Good
  <1>2. /\ Append(b.old, s) \in Seq(Slot) /\ Len(Append(b.old, s)) = Len(b.old) + 1
        /\ Range(Append(b.old, s)) = Range(b.old) \cup {s}
    BY <1>1, RangeAppend
  <1>3. /\ c \in BufferType /\ c.limit = b.limit /\ ~c.filtered /\ c.scan = b.scan
        /\ c.old = Append(b.old, s) /\ c.set1 = b.set1 /\ c.set2 = b.set2
    BY <1>1, <1>2 DEF BufferType
  <1>4. r = IF Len(c.old) < c.limit THEN c
            ELSE IF page = None THEN EnsureSpace(c, PromotedSpace) ELSE WipePage(c)
    BY DEF Enter
  <1>. HIDE DEF c, r
  <1>5. Cleared(c) /\ SetsOK(c)
    BY <1>3 DEF Cleared, SetsOK, NoEntries
  <1>6. page # None => OwnEntries(c)
    <2>. SUFFICES ASSUME page # None PROVE OwnEntries(c)
      OBVIOUS
    <2>1. OwnEntries(b) /\ PageOf[s] = page
      OBVIOUS
    <2>2. start < c.limit /\ start <= Len(c.old)
      BY <1>1, <1>2, <1>3, <2>1 DEF OwnEntries
    <2>3. ASSUME NEW i \in start + 1 .. Len(c.old) PROVE PageOf[c.old[i]] = page
      <3>1. i \in 1 .. Len(b.old) + 1
        BY <1>1, <1>2, <1>3
      <3>2. CASE i = Len(b.old) + 1
        <4>1. c.old[i] = s
          BY <1>1, <1>3, <3>2
        <4>. QED BY <2>1, <4>1
      <3>3. CASE i # Len(b.old) + 1
        <4>1. i \in start + 1 .. Len(b.old) /\ i \in 1 .. Len(b.old)
          BY <1>1, <3>1, <3>3
        <4>2. c.old[i] = b.old[i]
          BY <1>1, <1>3, <4>1
        <4>. QED BY <2>1, <4>1, <4>2 DEF OwnEntries
      <3>. QED BY <3>2, <3>3
    <2>. QED BY <2>2, <2>3 DEF OwnEntries
  <1>7. Range(c.old) = Range(b.old) \cup {s}
    BY <1>2, <1>3
  <1>8. CASE Len(c.old) < c.limit
    <2>1. r = c
      BY <1>4, <1>8
    <2>2. Good(c)
      BY <1>3, <1>5, <1>8 DEF Good
    <2>3. Absorbs(b, {s}, c)
      BY <1>3, <1>7, <2>2 DEF Absorbs, Noted
    <2>. QED BY <1>2, <1>3, <1>5, <1>6, <2>1, <2>3 DEF r
  <1>9. CASE ~(Len(c.old) < c.limit)
    <2>0. ~(Len(b.old) + 1 < b.limit)
      BY <1>2, <1>3, <1>9
    <2>1. CASE page = None
      <3>1. r = EnsureSpace(c, PromotedSpace)
        BY <1>4, <1>9, <2>1
      <3>2. PromotedSpace \in Nat \ {0}
        BY SizeAssumption
      <3>3. Narrows(c, r) /\ (r.filtered => HalfFree(r)) /\ Len(r.old) < r.limit
        BY <1>3, <3>1, <3>2, EnsureSpaceIs
      <3>4. Good(r) /\ Cleared(r)
        BY <1>5, <3>3 DEF Good, Narrows
      <3>5. Absorbs(b, {s}, r)
        BY <1>3, <1>7, <3>3, <3>4 DEF Absorbs, Narrows
      <3>. QED BY <2>0, <2>1, <3>4, <3>5 DEF r
    <2>2. CASE page # None
      <3>1. r = WipePage(c)
        BY <1>4, <1>9, <2>2
      <3>2. page \in Page
        BY <2>2
      <3>3. /\ r \in BufferType /\ Cleared(r) /\ SetsOK(r)
            /\ r.limit = c.limit /\ r.filtered = c.filtered
            /\ r.scan = c.scan \cup {page}
            /\ Len(r.old) = start
            /\ Range(r.old) \subseteq Range(c.old)
            /\ Noted(r, Range(c.old))
            /\ OwnEntries(r)
        BY <1>3, <1>5, <1>6, <2>2, <3>1, <3>2, WipePageIs
      <3>4. Good(r)
        BY <1>3, <3>3 DEF Good, OwnEntries
      <3>5. page \in {PageOf[t] : t \in Range(b.old) \cup {s}}
        BY <2>2
      <3>6. Absorbs(b, {s}, r)
        BY <1>3, <1>7, <3>3, <3>4, <3>5 DEF Absorbs
      <3>. QED BY <1>3, <2>0, <3>3, <3>6 DEF r
    <2>. QED BY <2>1, <2>2
  <1>. QED BY <1>8, <1>9

(* The end of a page: its entries stay, or the page is flagged again. *)
LEMMA FinishPageIs ==
    ASSUME NEW b, Good(b), Cleared(b), page \in Page \cup {None}, start \in Nat,
           page # None => OwnEntries(b)
    PROVE  LET r == FinishPage(b)
           IN  /\ Good(r) /\ Cleared(r) /\ r.limit = b.limit
               /\ Range(r.old) \subseteq Range(b.old)
               /\ b.scan \subseteq r.scan
               /\ r.scan \subseteq b.scan \cup ({page} \ {None})
               /\ Noted(r, Range(b.old))
  <1>. DEFINE r == FinishPage(b)
  <1>1. CASE r = b
    BY <1>1 DEF Noted
  <1>2. CASE r = WipePage(b) /\ page # None
    <2>. HIDE DEF r
    <2>1. b \in BufferType /\ page \in Page
      BY <1>2 DEF Good
    <2>2. /\ r \in BufferType /\ Cleared(r) /\ SetsOK(r)
          /\ r.limit = b.limit /\ r.filtered = b.filtered
          /\ r.scan = b.scan \cup {page}
          /\ Len(r.old) = start
          /\ Range(r.old) \subseteq Range(b.old)
          /\ Noted(r, Range(b.old))
      BY <1>2, <2>1, WipePageIs
    <2>3. Len(b.old) \in Nat /\ b.limit \in Nat
      BY <2>1, FromBuffer
    <2>4. Good(r)
      BY <1>2, <2>2, <2>3 DEF Good, OwnEntries, HalfFree
    <2>. QED BY <1>2, <2>2, <2>4 DEF r
  <1>. QED BY <1>1, <1>2 DEF FinishPage

-----------------------------------------------------------------------------
(* The inductive invariant. *)

Typed ==
    /\ slot \in [Slot -> Contents]
    /\ Buffers
    /\ freed \subseteq Freeable
    /\ collector \in {"none", "scavenger", "compactor"}
    /\ pc \in {"mutator", "roots", "evacuating", "entries", "promoted"}
    /\ todo \in Seq(Slot) /\ toScan \subseteq Page
    /\ page \in Page \cup {None} /\ start \in Nat
    /\ rest \subseteq Slot /\ promotions \subseteq Slot

(* Nothing is on a freed chunk, and nothing noted for one. *)
FreedIsForgotten ==
    /\ sb.scan \cap freed = {}
    /\ \A s \in Slot : PageOf[s] \in freed => slot[s] = "none"
    /\ \A s \in Entries \cup Range(todo) : PageOf[s] \notin freed

Idle == page = None /\ start = 0 /\ rest = {} /\ toScan = {} /\ todo = <<>>

(* JavaScript runs. *)
Mutating ==
    \A s \in Slot : /\ slot[s] # "from"
                    /\ slot[s] = "new" => s \in Entries \/ PageOf[s] \in sb.scan

(* Before the iteration, a pointer into from-space is noted or promoted. *)
Reaching ==
    \A s \in Slot :
        /\ slot[s] # "new"
        /\ slot[s] = "from" => s \in Entries \cup promotions \/ PageOf[s] \in sb.scan

(* The page being scanned is flagged again by its own entries only. *)
Scanning ==
    /\ page # None => todo = <<>> /\ page \notin freed \cup toScan /\ OwnEntries(sb)
    /\ \A s \in rest : page # None /\ PageOf[s] = page /\ slot[s] = "from"

(* The rebuilt buffer has room for all that is still to be read.  An entry   *)
(* and a flagged page never lead to the same slot; what has been visited   *)
(* is noted anew, what has not is still to come.                           *)
Iterating ==
    /\ new = <<>> /\ Cleared(sb)
    /\ Scanning
    /\ Len(sb.old) + Len(todo) < sb.limit
    /\ toScan \cap freed = {}
    /\ \A s \in Range(todo) : PageOf[s] \notin sb.scan
    /\ \A s \in Range(sb.old) : PageOf[s] \notin sb.scan \cap toScan
    /\ \A s \in Slot :
           /\ slot[s] = "new" => s \in Range(sb.old) \/ PageOf[s] \in sb.scan \ toScan
           /\ slot[s] = "from" => \/ s \in promotions \cup rest \cup Range(todo)
                                  \/ PageOf[s] \in sb.scan \cap toScan

(* After it, the promotion queue knows the rest. *)
Queueing ==
    /\ new = <<>> /\ Cleared(sb)
    /\ \A s \in Slot :
           /\ slot[s] = "from" => s \in promotions
           /\ slot[s] = "new" => s \in Range(sb.old) \/ PageOf[s] \in sb.scan

IInv ==
    /\ Typed /\ FreedIsForgotten
    /\ pc # "entries" => Idle
    /\ pc = "mutator" => Mutating
    /\ pc \in {"roots", "evacuating"} => Reaching
    /\ pc = "entries" => Iterating
    /\ pc = "promoted" => Queueing

(* The invariant holds at first. *)
LEMMA InitIInv == Init => IInv
  <1>. SUFFICES ASSUME Init PROVE IInv
    OBVIOUS
  <1>1. /\ sb.old = <<>> /\ sb.limit = InitialLimit /\ ~sb.filtered /\ sb.scan = {}
        /\ sb.set1 = NoEntries /\ sb.set2 = NoEntries
        /\ new = <<>> /\ todo = <<>>
    BY DEF Init
  <1>2. InitialLimit \in Limits /\ InitialLimit \in Nat \ {0} /\ BufferSize \in Nat \ {0}
    <2>1. Doubled[0] = InitialLimit
      BY DoubledIs
    <2>2. 0 \in 0 .. Doublings
      BY SizeAssumption
    <2>. QED BY <2>1, <2>2, SizeAssumption DEF Limits
  <1>3. sb \in BufferType
    BY <1>2, EmptyEntries DEF Init, BufferType, NoEntries
  <1>4. Good(sb)
    BY <1>1, <1>2, <1>3, EmptyEntries DEF Good, SetsOK, NoEntries
  <1>5. Buffers /\ Entries = {} /\ Range(todo) = {}
    BY <1>1, <1>2, <1>4, EmptyEntries DEF Buffers, Entries
  <1>6. Typed
    BY <1>5, EmptyEntries DEF Init, Typed, Contents
  <1>7. FreedIsForgotten
    BY <1>1, <1>5 DEF Init, FreedIsForgotten
  <1>8. Idle /\ Mutating
    BY DEF Init, Idle, Mutating
  <1>. QED BY <1>6, <1>7, <1>8 DEF Init, IInv

(* The mutator's barriers note a slot whose contents they change. *)
LEMMA NotedStep ==
    ASSUME IInv, pc = "mutator", NEW s \in Slot, slot[s] # "none",
           NEW value \in {"old", "new"}, slot' = [slot EXCEPT ![s] = value],
           \/ Mark(s)
           \/ UNCHANGED <<new, sb>> /\ (value = "new" => PageOf[s] \in sb.scan),
           UNCHANGED <<freed, collector, pc, gcVars>>
    PROVE  IInv'
  <1>1. /\ Typed /\ FreedIsForgotten /\ Idle /\ Mutating /\ Buffers
    BY DEF IInv, Typed
  <1>2. /\ Buffers' /\ WithinEntries({s})
        /\ sb.scan \subseteq sb'.scan
        /\ \A t \in Entries : t \in Entries' \/ PageOf[t] \in sb'.scan
        /\ value = "new" => s \in Entries' \/ PageOf[s] \in sb'.scan
    <2>1. CASE Mark(s)
      BY <1>1, <2>1, MarkIs DEF Remembers
    <2>2. CASE UNCHANGED <<new, sb>> /\ (value = "new" => PageOf[s] \in sb.scan)
      <3>1. Buffers' /\ Entries' = Entries /\ sb' = sb
        BY <1>1, <2>2 DEF Buffers, Good, HalfFree, SetsOK, Entries
      <3>. QED BY <2>2, <3>1 DEF WithinEntries
    <2>. QED BY <2>1, <2>2
  <1>3. Typed'
    BY <1>1, <1>2 DEF Typed, Contents, gcVars
  <1>4. PageOf[s] \notin freed
    BY <1>1 DEF FreedIsForgotten
  <1>5. FreedIsForgotten'
    BY <1>1, <1>2, <1>4 DEF FreedIsForgotten, WithinEntries, Typed, gcVars
  <1>6. Idle' /\ Mutating'
    BY <1>1, <1>2 DEF Idle, Mutating, Typed, gcVars
  <1>. QED BY <1>3, <1>5, <1>6 DEF IInv

(* Steps of the mutator. *)
LEMMA StoreStep ==
    ASSUME IInv, NEW s \in Slot, Store(s) \/ RecordWrite(s)
    PROVE  IInv'
  <1>1. CASE Store(s)
    <2>1. PICK value \in {"old", "new"} :
             /\ slot' = [slot EXCEPT ![s] = value]
             /\ IF value = "new" /\ PageOf[s] \notin sb.scan
                THEN Mark(s) ELSE UNCHANGED <<new, sb>>
      BY <1>1 DEF Store
    <2>2. /\ pc = "mutator" /\ slot[s] # "none"
          /\ UNCHANGED <<freed, collector, pc, gcVars>>
      BY <1>1 DEF Store
    <2>. QED BY <2>1, <2>2, NotedStep
  <1>2. CASE RecordWrite(s)
    <2>1. PICK value \in {"old", "new"} : slot' = [slot EXCEPT ![s] = value]
      BY <1>2 DEF RecordWrite
    <2>2. /\ pc = "mutator" /\ slot[s] # "none" /\ Mark(s)
          /\ UNCHANGED <<freed, collector, pc, gcVars>>
      BY <1>2 DEF RecordWrite
    <2>. QED BY <2>1, <2>2, NotedStep
  <1>. QED BY <1>1, <1>2

(* A chunk is given back: its slots and entries go with it. *)
LEMMA FreeStep ==
    ASSUME IInv, NEW p \in Page, FreeQueuedChunk(p)
    PROVE  IInv'
  <1>1. /\ Typed /\ FreedIsForgotten /\ Idle /\ Buffers
        /\ pc \in {"mutator", "evacuating"}
        /\ pc = "mutator" => Mutating
        /\ pc = "evacuating" => Reaching
    BY DEF IInv, Typed, FreeQueuedChunk
  <1>2. /\ Forget(p) /\ p \in Freeable /\ freed' = freed \cup {p}
        /\ slot' = [s \in Slot |-> IF PageOf[s] = p THEN "none" ELSE slot[s]]
        /\ UNCHANGED <<collector, pc, gcVars>>
    BY DEF FreeQueuedChunk
  <1>3. /\ Buffers' /\ WithinEntries({})
        /\ p \notin sb'.scan
        /\ \A t \in Entries' : PageOf[t] # p
        /\ \A t \in Slot : (t \in Entries \/ PageOf[t] \in sb.scan) =>
               t \in Entries' \/ PageOf[t] \in sb'.scan \/ PageOf[t] = p
    BY <1>1, <1>2, ForgetIs
  <1>4. Typed'
    BY <1>1, <1>2, <1>3 DEF Typed, Contents, gcVars
  <1>5. FreedIsForgotten'
    <2>1. todo' = <<>> /\ Range(todo') = {}
      BY <1>1, <1>2, EmptyEntries DEF Idle, gcVars
    <2>. QED BY <1>1, <1>2, <1>3, <2>1 DEF FreedIsForgotten, WithinEntries
  <1>6. Idle' /\ pc' = pc
    BY <1>1, <1>2 DEF Idle, gcVars
  <1>7. CASE pc = "mutator"
    <2>1. Mutating'
      BY <1>1, <1>2, <1>3, <1>7 DEF Mutating
    <2>. QED BY <1>4, <1>5, <1>6, <1>7, <2>1 DEF IInv
  <1>8. CASE pc = "evacuating"
    <2>1. Reaching'
      BY <1>1, <1>2, <1>3, <1>8 DEF Reaching, gcVars
    <2>. QED BY <1>4, <1>5, <1>6, <1>8, <2>1 DEF IInv
  <1>. QED BY <1>1, <1>7, <1>8

(* A chunk is taken again at that address. *)
LEMMA AllocateStep ==
    ASSUME IInv, NEW p \in Page, AllocateChunk(p)
    PROVE  IInv'
  <1>1. /\ Typed /\ FreedIsForgotten /\ Idle /\ Buffers /\ Mutating
    BY DEF IInv, Typed, AllocateChunk
  <1>2. /\ pc = "mutator" /\ freed' = freed \ {p}
        /\ slot' = [s \in Slot |-> IF PageOf[s] = p THEN "old" ELSE slot[s]]
        /\ UNCHANGED <<new, sb, collector, pc, gcVars>>
    BY DEF AllocateChunk
  <1>3. Buffers' /\ Entries' = Entries /\ sb' = sb
    BY <1>1, <1>2 DEF Buffers, Good, HalfFree, SetsOK, Entries
  <1>4. Typed'
    BY <1>1, <1>2, <1>3 DEF Typed, Contents, gcVars
  <1>5. FreedIsForgotten'
    BY <1>1, <1>2, <1>3 DEF FreedIsForgotten, gcVars
  <1>6. Idle' /\ Mutating'
    BY <1>1, <1>2, <1>3 DEF Idle, Mutating, gcVars
  <1>. QED BY <1>2, <1>4, <1>5, <1>6 DEF IInv

(* New space becomes from-space. *)
LEMMA BeginStep ==
    ASSUME IInv, BeginCollection
    PROVE  IInv'
  <1>1. /\ Typed /\ FreedIsForgotten /\ Idle /\ Buffers /\ Mutating
    BY DEF IInv, Typed, BeginCollection
  <1>2. /\ collector' \in {"scavenger", "compactor"} /\ pc' \in {"roots", "evacuating"}
        /\ slot' = [s \in Slot |-> IF slot[s] = "new" THEN "from" ELSE slot[s]]
        /\ sb' = [sb EXCEPT !.set1 = NoEntries, !.set2 = NoEntries]
        /\ UNCHANGED <<new, freed, gcVars>>
    BY DEF BeginCollection, ClearHashSets
  <1>3. /\ sb' \in BufferType /\ sb'.old = sb.old /\ sb'.limit = sb.limit
        /\ sb'.filtered = sb.filtered /\ sb'.scan = sb.scan
        /\ sb'.set1 = NoEntries /\ sb'.set2 = NoEntries
    BY <1>1, <1>2 DEF Buffers, Good, BufferType, NoEntries
  <1>4. Buffers' /\ Entries' = Entries
    <2>1. SetsOK(sb')
      BY <1>3 DEF SetsOK, NoEntries
    <2>2. Good(sb')
      BY <1>1, <1>3, <2>1 DEF Buffers, Good, HalfFree
    <2>. QED BY <1>1, <1>2, <1>3, <2>2 DEF Buffers, Entries
  <1>5. Typed'
    BY <1>1, <1>2, <1>4 DEF Typed, Contents, gcVars
  <1>6. FreedIsForgotten'
    BY <1>1, <1>2, <1>3, <1>4 DEF FreedIsForgotten, Typed, gcVars
  <1>7. Idle'
    BY <1>1, <1>2 DEF Idle, gcVars
  <1>8. Reaching'
    BY <1>1, <1>2, <1>3, <1>4 DEF Reaching, Mutating, Typed, gcVars
  <1>. QED BY <1>2, <1>5, <1>6, <1>7, <1>8 DEF IInv

(* The compactor moves an object to a slot that is noted at once. *)
LEMMA EvacuateStep ==
    ASSUME IInv, NEW s \in Slot, Evacuate(s)
    PROVE  IInv'
  <1>1. /\ Typed /\ FreedIsForgotten /\ Idle /\ Buffers /\ Reaching /\ pc = "evacuating"
    BY DEF IInv, Typed, Evacuate
  <1>2. /\ s \in Room /\ slot' = [slot EXCEPT ![s] = "from"] /\ Mark(s)
        /\ UNCHANGED <<freed, collector, pc, gcVars>>
    BY DEF Evacuate
  <1>3. Buffers' /\ WithinEntries({s}) /\ Remembers({s})
    BY <1>1, <1>2, MarkIs
  <1>4. Typed'
    BY <1>1, <1>2, <1>3 DEF Typed, Contents, gcVars
  <1>5. FreedIsForgotten'
    BY <1>1, <1>2, <1>3 DEF FreedIsForgotten, WithinEntries, Room, Typed, gcVars
  <1>6. Idle' /\ Reaching'
    BY <1>1, <1>2, <1>3 DEF Idle, Reaching, Remembers, Typed, gcVars
  <1>. QED BY <1>1, <1>2, <1>4, <1>5, <1>6 DEF IInv

(* An object is promoted, and the queue knows its slot. *)
LEMMA PromoteStep ==
    ASSUME IInv, NEW s \in Slot, Promote(s)
    PROVE  IInv'
  <1>1. /\ Typed /\ FreedIsForgotten /\ Idle /\ Buffers /\ pc \in {"roots", "promoted"}
        /\ pc = "roots" => Reaching
        /\ pc = "promoted" => Queueing
    BY DEF IInv, Typed, Promote
  <1>2. /\ s \in Room /\ slot' = [slot EXCEPT ![s] = "from"]
        /\ promotions' = promotions \cup {s}
        /\ UNCHANGED <<new, sb, freed, collector, pc, todo, toScan, page, start, rest>>
    BY DEF Promote
  <1>3. Buffers' /\ Entries' = Entries /\ sb' = sb
    BY <1>1, <1>2 DEF Buffers, Good, HalfFree, SetsOK, Entries
  <1>4. Typed'
    BY <1>1, <1>2, <1>3 DEF Typed, Contents
  <1>5. FreedIsForgotten' /\ Idle'
    BY <1>1, <1>2, <1>3 DEF FreedIsForgotten, Idle, Room, Typed
  <1>6. CASE pc = "roots"
    <2>1. Reaching'
      BY <1>1, <1>2, <1>3, <1>6 DEF Reaching, Typed
    <2>. QED BY <1>2, <1>4, <1>5, <1>6, <2>1 DEF IInv
  <1>7. CASE pc = "promoted"
    <2>1. Queueing'
      BY <1>1, <1>2, <1>3, <1>7 DEF Queueing, Cleared, Typed
    <2>. QED BY <1>2, <1>4, <1>5, <1>7, <2>1 DEF IInv
  <1>. QED BY <1>1, <1>6, <1>7

(* The iteration takes the entries and starts an empty buffer. *)
LEMMA PrepareStep ==
    ASSUME IInv, PrepareForIteration
    PROVE  IInv'
  <1>. DEFINE r == Prepared(sb)
  <1>1. /\ Typed /\ FreedIsForgotten /\ Idle /\ Buffers /\ Reaching
    BY DEF IInv, Typed, PrepareForIteration
  <1>2. /\ todo' = r.old /\ sb' = [r EXCEPT !.old = <<>>] /\ new' = <<>>
        /\ toScan' = Page \ freed /\ pc' = "entries"
        /\ UNCHANGED <<slot, freed, collector, page, start, rest, promotions>>
    BY DEF PrepareForIteration
  <1>. HIDE DEF r
  <1>3. /\ Absorbs(sb, Range(new), r) /\ Cleared(r)
        /\ \A s \in Range(r.old) : PageOf[s] \notin r.scan
    BY <1>1, PreparedIs DEF r
  <1>4. /\ r \in BufferType /\ r.limit \in Nat \ {0} /\ Len(r.old) < r.limit
        /\ r.old \in Seq(Slot) /\ Len(r.old) \in Nat
    BY <1>3, FromBuffer DEF Absorbs, Good
  <1>5. /\ sb' \in BufferType /\ sb'.old = <<>> /\ sb'.limit = r.limit
        /\ sb'.scan = r.scan /\ sb'.set1 = r.set1 /\ sb'.set2 = r.set2
    BY <1>2, <1>4, EmptyEntries DEF BufferType
  <1>6. Cleared(sb') /\ SetsOK(sb')
    BY <1>3, <1>5 DEF Cleared, SetsOK, NoEntries
  <1>7. Good(sb')
    BY <1>4, <1>5, <1>6, EmptyEntries DEF Good, HalfFree
  <1>8. Buffers' /\ Entries' = {}
    BY <1>2, <1>5, <1>7, EmptyEntries, SizeAssumption DEF Buffers, Entries
  <1>9. Typed'
    BY <1>1, <1>2, <1>4, <1>8 DEF Typed
  <1>10. /\ Range(r.old) \subseteq Entries
         /\ r.scan \subseteq sb.scan \cup {PageOf[s] : s \in Entries}
         /\ sb.scan \subseteq r.scan
         /\ \A s \in Entries : s \in Range(r.old) \/ PageOf[s] \in r.scan
    BY <1>3 DEF Absorbs, Noted, Entries
  <1>11. r.scan \cap freed = {} /\ r.scan \subseteq Page
    BY <1>1, <1>4, <1>10, FromBuffer DEF FreedIsForgotten
  <1>12. FreedIsForgotten'
    BY <1>1, <1>2, <1>5, <1>8, <1>10, <1>11 DEF FreedIsForgotten
  <1>13. Iterating'
    <2>1. Scanning'
      BY <1>1, <1>2 DEF Scanning, Idle
    <2>2. Len(sb'.old) + Len(todo') < sb'.limit
      BY <1>2, <1>4, <1>5, EmptyEntries
    <2>3. \A s \in Slot : slot[s] = "from" =>
             s \in promotions \cup Range(r.old) \/ PageOf[s] \in r.scan
      BY <1>1, <1>10 DEF Reaching
    <2>4. r.scan \subseteq toScan'
      BY <1>2, <1>11
    <2>5. \A s \in Slot : slot[s] # "new"
      BY <1>1 DEF Reaching
    <2>6. Range(sb'.old) = {} /\ toScan' \cap freed = {}
      BY <1>2, <1>5, EmptyEntries
    <2>. QED BY <1>2, <1>3, <1>5, <1>6, <2>1, <2>2, <2>3, <2>4, <2>5, <2>6 DEF Iterating
  <1>. QED BY <1>2, <1>9, <1>12, <1>13 DEF IInv

(* A slot that pointed into from-space is updated; an object may have been  *)
(* promoted to where there was none.                                       *)
LEMMA UpdateIs ==
    ASSUME Typed, NEW s \in Slot, slot[s] = "from", NEW queue \in SUBSET Slot, Update(s, queue)
    PROVE  \E T \in SUBSET Room :
              /\ s \notin T
              /\ promotions' = queue \cup T
              /\ slot' \in [Slot -> Contents]
              /\ slot'[s] \in {"new", "old"}
              /\ \A t \in T : slot'[t] = "from"
              /\ \A t \in Slot \ T : t # s => slot'[t] = slot[t]
  <1>1. slot \in [Slot -> Contents] /\ s \notin Room
    BY DEF Typed, Room
  <1>2. CASE /\ slot' \in {[slot EXCEPT ![s] = "new"], [slot EXCEPT ![s] = "old"]}
             /\ promotions' = queue
    <2>. WITNESS {} \in SUBSET Room
    <2>. QED BY <1>1, <1>2 DEF Contents
  <1>3. CASE \E t \in Room : /\ slot' = [slot EXCEPT ![s] = "old", ![t] = "from"]
                             /\ promotions' = queue \cup {t}
    <2>1. PICK t \in Room : /\ slot' = [slot EXCEPT ![s] = "old", ![t] = "from"]
                            /\ promotions' = queue \cup {t}
      BY <1>3
    <2>. WITNESS {t} \in SUBSET Room
    <2>2. t \in Slot /\ t # s
      BY <1>1 DEF Room
    <2>. QED BY <1>1, <2>1, <2>2 DEF Contents
  <1>. QED BY <1>2, <1>3 DEF Update

(* The first element and the others. *)
LEMMA HeadAndTail ==
    ASSUME NEW S, NEW q \in Seq(S), q # <<>>
    PROVE  /\ Head(q) \in S /\ Tail(q) \in Seq(S) /\ Len(Tail(q)) = Len(q) - 1
           /\ Range(q) = {Head(q)} \cup Range(Tail(q))
  <1>1. Head(q) \in S /\ Tail(q) \in Seq(S) /\ Len(Tail(q)) = Len(q) - 1 /\ Len(q) \in Nat
    OBVIOUS
  <1>2. Head(q) = q[1] /\ \A i \in 1 .. Len(q) - 1 : Tail(q)[i] = q[i + 1]
    OBVIOUS
  <1>3. /\ Range(q) = {q[i] : i \in 1 .. Len(q)}
        /\ Range(Tail(q)) = {Tail(q)[i] : i \in 1 .. Len(q) - 1}
    BY <1>1, RangeIs
  <1>4. 1 \in 1 .. Len(q)
    OBVIOUS
  <1>5. \A i \in 1 .. Len(q) : i = 1 \/ (i - 1 \in 1 .. Len(q) - 1 /\ (i - 1) + 1 = i)
    BY <1>1
  <1>6. \A i \in 1 .. Len(q) - 1 : i + 1 \in 1 .. Len(q)
    BY <1>1
  <1>7. Range(q) \subseteq {Head(q)} \cup Range(Tail(q))
    <2>. SUFFICES ASSUME NEW i \in 1 .. Len(q), i # 1 PROVE q[i] \in Range(Tail(q))
      BY <1>2, <1>3
    <2>1. i - 1 \in 1 .. Len(q) - 1 /\ (i - 1) + 1 = i
      BY <1>5
    <2>2. Tail(q)[i - 1] = q[i]
      BY <1>2, <2>1
    <2>. QED BY <1>3, <2>1, <2>2
  <1>8. {Head(q)} \cup Range(Tail(q)) \subseteq Range(q)
    BY <1>2, <1>3, <1>4, <1>6
  <1>. QED BY <1>1, <1>7, <1>8

(* The buffer after a visit: the slot is entered if it must be. *)
LEMMA ReenteredIs ==
    ASSUME Good(sb), Cleared(sb), NEW s \in Slot,
           page \in Page \cup {None}, start \in Nat,
           page # None => OwnEntries(sb) /\ PageOf[s] = page
    PROVE  LET r == Reentered(s)
           IN  /\ Good(r) /\ Cleared(r)
               /\ Range(r.old) \subseteq Range(sb.old) \cup {s}
               /\ sb.scan \subseteq r.scan
               /\ r.scan \subseteq sb.scan \cup {PageOf[t] : t \in Range(sb.old) \cup {s}}
               /\ Noted(r, Range(sb.old))
               /\ slot'[s] = "new" => Noted(r, {s})
               /\ page # None => OwnEntries(r) /\ r.scan \subseteq sb.scan \cup {page}
               /\ Len(sb.old) + 1 < sb.limit =>
                     /\ r.limit = sb.limit /\ r.scan = sb.scan
                     /\ Len(r.old) <= Len(sb.old) + 1
  <1>. DEFINE r == Reentered(s)
  <1>1. CASE slot'[s] = "new"
    <2>1. r = Enter(sb, s)
      BY <1>1 DEF Reentered
    <2>2. Len(sb.old) \in Nat
      BY FromBuffer DEF Good
    <2>. HIDE DEF r
    <2>3. /\ Absorbs(sb, {s}, r) /\ Cleared(r)
          /\ page # None => OwnEntries(r) /\ r.scan \subseteq sb.scan \cup {page}
          /\ Len(sb.old) + 1 < sb.limit =>
                /\ r.limit = sb.limit /\ r.scan = sb.scan
                /\ Len(r.old) = Len(sb.old) + 1
      BY <2>1, EnterIs
    <2>. QED BY <1>1, <2>2, <2>3 DEF Absorbs, Noted, r
  <1>2. CASE slot'[s] # "new"
    <2>1. r = sb
      BY <1>2 DEF Reentered
    <2>2. Len(sb.old) \in Nat
      BY FromBuffer DEF Good
    <2>. QED BY <1>2, <2>1, <2>2 DEF Noted
  <1>. QED BY <1>1, <1>2

(* An entry is visited: it is noted again, or no longer has to be. *)
LEMMA VisitEntryStep ==
    ASSUME IInv, VisitEntry
    PROVE  IInv'
  <1>. DEFINE s == Head(todo)
  <1>1. /\ Typed /\ FreedIsForgotten /\ Buffers /\ Iterating /\ Scanning
        /\ pc = "entries" /\ todo # <<>>
    BY DEF IInv, Typed, VisitEntry, Iterating
  <1>2. /\ todo' = Tail(todo)
        /\ UNCHANGED <<new, freed, collector, pc, toScan, page, start, rest>>
    BY DEF VisitEntry
  <1>3. /\ s \in Slot /\ todo' \in Seq(Slot) /\ Len(todo') = Len(todo) - 1
        /\ Range(todo) = {s} \cup Range(todo') /\ Len(todo) \in Nat
    BY <1>1, <1>2, HeadAndTail DEF Typed
  <1>4. page = None /\ rest = {} /\ PageOf[s] \notin freed \cup sb.scan /\ new = <<>>
    BY <1>1, <1>3 DEF Scanning, Iterating, FreedIsForgotten
  <1>5. /\ Good(sb) /\ Cleared(sb) /\ start \in Nat /\ Len(sb.old) \in Nat /\ sb.limit \in Nat
        /\ Len(sb.old) + Len(todo) < sb.limit
    BY <1>1, FromBuffer DEF Buffers, Good, Iterating, Typed
  <1>6. Len(sb.old) + 1 < sb.limit
    <2>1. Len(todo) >= 1
      BY <1>1, <1>3 DEF Typed
    <2>. QED BY <1>3, <1>5, <2>1
  <1>7. CASE slot[s] # "from"
    <2>1. UNCHANGED <<slot, sb, promotions>>
      BY <1>7 DEF VisitEntry
    <2>2. Buffers' /\ Entries' = Entries
      BY <1>1, <1>2, <2>1 DEF Buffers, Good, HalfFree, SetsOK, Entries
    <2>3. Typed' /\ FreedIsForgotten'
      BY <1>1, <1>2, <1>3, <2>1, <2>2 DEF Typed, FreedIsForgotten
    <2>4. Scanning'
      BY <1>2, <1>4 DEF Scanning
    <2>5. Len(sb.old) + Len(todo') < sb.limit
      BY <1>3, <1>5
    <2>6. Iterating'
      BY <1>1, <1>2, <1>3, <1>4, <1>7, <2>1, <2>4, <2>5 DEF Iterating, Cleared
    <2>. QED BY <1>1, <1>2, <2>3, <2>6 DEF IInv
  <1>8. CASE slot[s] = "from"
    <2>1. Update(s, promotions) /\ sb' = Reentered(s)
      BY <1>8 DEF VisitEntry
    <2>2. PICK T \in SUBSET Room :
              /\ s \notin T
              /\ promotions' = promotions \cup T
              /\ slot' \in [Slot -> Contents]
              /\ slot'[s] \in {"new", "old"}
              /\ \A t \in T : slot'[t] = "from"
              /\ \A t \in Slot \ T : t # s => slot'[t] = slot[t]
      BY <1>1, <1>3, <1>8, <2>1, UpdateIs DEF Typed
    <2>3. /\ Good(sb') /\ Cleared(sb')
          /\ Range(sb'.old) \subseteq Range(sb.old) \cup {s}
          /\ Noted(sb', Range(sb.old))
          /\ slot'[s] = "new" => Noted(sb', {s})
          /\ sb'.limit = sb.limit /\ sb'.scan = sb.scan
          /\ Len(sb'.old) <= Len(sb.old) + 1
      BY <1>3, <1>4, <1>5, <1>6, <2>1, ReenteredIs
    <2>. HIDE DEF s
    <2>4. Len(sb'.old) \in Nat
      BY <2>3, FromBuffer DEF Good
    <2>5. Buffers'
      BY <1>1, <1>2, <2>3 DEF Buffers
    <2>6. T \subseteq Slot /\ \A t \in T : PageOf[t] \notin freed
      BY DEF Room
    <2>7. Typed'
      BY <1>1, <1>2, <1>3, <2>2, <2>5, <2>6 DEF Typed
    <2>8. Entries' \subseteq Entries \cup {s}
      BY <1>2, <2>3 DEF Entries
    <2>9. FreedIsForgotten'
      BY <1>1, <1>2, <1>3, <1>4, <2>2, <2>3, <2>6, <2>8 DEF FreedIsForgotten
    <2>10. Scanning'
      BY <1>2, <1>4 DEF Scanning
    <2>11. Len(sb'.old) + Len(todo') < sb'.limit
      BY <1>3, <1>5, <2>3, <2>4
    <2>12. \A t \in Slot : slot'[t] = "new" =>
              t \in Range(sb'.old) \/ PageOf[t] \in sb'.scan \ toScan
      BY <1>1, <1>4, <2>2, <2>3 DEF Iterating, Noted
    <2>13. \A t \in Slot : slot'[t] = "from" =>
              \/ t \in promotions' \cup rest \cup Range(todo')
              \/ PageOf[t] \in sb'.scan \cap toScan
      BY <1>1, <1>3, <2>2, <2>3 DEF Iterating
    <2>14. \A t \in Range(sb'.old) : PageOf[t] \notin sb'.scan \cap toScan
      BY <1>1, <1>4, <2>3 DEF Iterating
    <2>15. \A t \in Range(todo') : PageOf[t] \notin sb'.scan
      BY <1>1, <1>3, <2>3 DEF Iterating
    <2>16. toScan \cap freed = {}
      BY <1>1 DEF Iterating
    <2>17. Iterating'
      BY <1>2, <1>4, <2>3, <2>10, <2>11, <2>12, <2>13, <2>14, <2>15, <2>16 DEF Iterating
    <2>. QED BY <1>1, <1>2, <2>7, <2>9, <2>17 DEF IInv
  <1>. QED BY <1>7, <1>8

(* A page is scanned: what it has is still to be visited. *)
LEMMA ScanPageStep ==
    ASSUME IInv, NEW p \in Page, ScanPage(p)
    PROVE  IInv'
  <1>. DEFINE b == FinishPage(sb)
  <1>1. /\ Typed /\ FreedIsForgotten /\ Buffers /\ Iterating /\ Scanning
        /\ pc = "entries" /\ todo = <<>> /\ rest = {}
    BY DEF IInv, Typed, ScanPage, Iterating
  <1>2. /\ p \in toScan \cap sb.scan
        /\ sb' = [b EXCEPT !.scan = @ \ {p}]
        /\ start' = Len(b.old) /\ page' = p /\ toScan' = toScan \ {p}
        /\ rest' = {s \in SlotsOn(p) : slot[s] \in {"from", "new"}}
        /\ UNCHANGED <<slot, new, freed, collector, pc, todo, promotions>>
    BY DEF ScanPage
  <1>3. Good(sb) /\ Cleared(sb) /\ page \in Page \cup {None} /\ start \in Nat
    BY <1>1 DEF Buffers, Iterating, Typed
  <1>4. page # None => OwnEntries(sb) /\ page \notin freed \cup toScan
    BY <1>1 DEF Scanning
  <1>5. /\ Good(b) /\ Cleared(b) /\ b.limit = sb.limit
        /\ Range(b.old) \subseteq Range(sb.old)
        /\ sb.scan \subseteq b.scan
        /\ b.scan \subseteq sb.scan \cup ({page} \ {None})
        /\ Noted(b, Range(sb.old))
    BY <1>3, <1>4, FinishPageIs
  <1>. HIDE DEF b
  <1>6. /\ b \in BufferType /\ Len(b.old) \in Nat /\ Len(b.old) < b.limit
        /\ b.scan \subseteq Page
    BY <1>5, FromBuffer DEF Good
  <1>7. /\ sb' \in BufferType /\ sb'.old = b.old /\ sb'.limit = b.limit
        /\ sb'.filtered = b.filtered /\ sb'.scan = b.scan \ {p}
        /\ sb'.set1 = b.set1 /\ sb'.set2 = b.set2
    BY <1>2, <1>6 DEF BufferType
  <1>8. Good(sb') /\ Cleared(sb')
    BY <1>5, <1>7 DEF Good, HalfFree, SetsOK, Cleared, NoEntries
  <1>9. Buffers' /\ Entries' \subseteq Entries
    BY <1>1, <1>2, <1>5, <1>7, <1>8 DEF Buffers, Entries
  <1>10. Typed'
    BY <1>1, <1>2, <1>6, <1>9 DEF Typed, SlotsOn
  <1>11. b.scan \cap freed = {}
    BY <1>1, <1>4, <1>5 DEF FreedIsForgotten
  <1>12. FreedIsForgotten'
    BY <1>1, <1>2, <1>7, <1>9, <1>11 DEF FreedIsForgotten
  <1>13. \A s \in Slot : PageOf[s] = p => slot[s] # "new"
    BY <1>1, <1>2 DEF Iterating
  <1>14. Scanning'
    <2>1. start' + 1 .. Len(sb'.old) = {}
      BY <1>2, <1>6, <1>7
    <2>2. start' < sb'.limit /\ start' <= Len(sb'.old)
      BY <1>2, <1>6, <1>7
    <2>3. OwnEntries(sb)'
      BY <2>1, <2>2 DEF OwnEntries
    <2>4. p \notin freed /\ p # None
      BY <1>1, <1>2, SlotAssumption DEF Iterating
    <2>5. \A s \in rest' : PageOf[s] = p /\ slot[s] = "from"
      BY <1>2, <1>13 DEF SlotsOn
    <2>. QED BY <1>1, <1>2, <2>3, <2>4, <2>5 DEF Scanning
  <1>15. Iterating'
    <2>1. Len(sb'.old) + Len(todo') < sb'.limit
      BY <1>1, <1>2, <1>6, <1>7, EmptyEntries
    <2>2. Range(todo') = {} /\ Range(todo) = {}
      BY <1>1, <1>2, EmptyEntries
    <2>3. \A s \in Range(sb'.old) : PageOf[s] \notin sb'.scan \cap toScan'
      BY <1>1, <1>2, <1>4, <1>5, <1>7 DEF Iterating
    <2>4. \A s \in Slot : slot[s] = "new" =>
              s \in Range(sb'.old) \/ PageOf[s] \in sb'.scan \ toScan'
      <3>. SUFFICES ASSUME NEW s \in Slot, slot[s] = "new", s \notin Range(sb'.old)
                    PROVE  PageOf[s] \in sb'.scan \ toScan'
        OBVIOUS
      <3>1. PageOf[s] # p
        BY <1>13
      <3>2. CASE PageOf[s] \in sb.scan \ toScan
        BY <1>2, <1>5, <1>7, <3>1, <3>2
      <3>3. CASE s \in Range(sb.old)
        <4>1. PageOf[s] \in b.scan
          BY <1>5, <1>7, <3>3 DEF Noted
        <4>2. PageOf[s] \notin toScan
          BY <1>1, <1>4, <1>5, <3>3, <4>1 DEF Iterating
        <4>. QED BY <1>2, <1>7, <3>1, <4>1, <4>2
      <3>. QED BY <1>1, <3>2, <3>3 DEF Iterating
    <2>5. \A s \in Slot : slot[s] = "from" =>
              \/ s \in promotions \cup rest'
              \/ PageOf[s] \in sb'.scan \cap toScan'
      <3>. SUFFICES ASSUME NEW s \in Slot, slot[s] = "from", s \notin promotions,
                           PageOf[s] # p
                    PROVE  PageOf[s] \in sb'.scan \cap toScan'
        BY <1>2 DEF SlotsOn
      <3>1. PageOf[s] \in sb.scan \cap toScan
        BY <1>1, <2>2 DEF Iterating
      <3>. QED BY <1>2, <1>5, <1>7, <3>1
    <2>6. toScan' \cap freed = {} /\ new = <<>>
      BY <1>1, <1>2 DEF Iterating
    <2>. QED BY <1>2, <1>8, <1>14, <2>1, <2>2, <2>3, <2>4, <2>5, <2>6 DEF Iterating
  <1>. QED BY <1>1, <1>2, <1>10, <1>12, <1>15 DEF IInv

(* A slot of the page is visited; slots of objects that were promoted to    *)
(* the page may be visited later.                                          *)
LEMMA VisitSlotStep ==
    ASSUME IInv, NEW s \in Slot, VisitSlot(s)
    PROVE  IInv'
  <1>1. /\ Typed /\ FreedIsForgotten /\ Buffers
        /\ pc = "entries" /\ Iterating /\ Scanning
    BY DEF IInv, Typed, VisitSlot, Idle, Iterating
  <1>2. s \in rest
    <2>1. rest \in SUBSET Nat /\ rest # {} /\ s = Min(rest)
      BY <1>1, SlotAssumption DEF VisitSlot, Typed
    <2>. QED BY <2>1, MinOfNaturals
  <1>3. /\ slot[s] = "from" /\ page # None /\ PageOf[s] = page
        /\ todo = <<>> /\ page \notin freed \cup toScan /\ OwnEntries(sb)
    BY <1>1, <1>2 DEF Scanning
  <1>4. /\ Update(s, promotions) /\ sb' = Reentered(s)
        /\ rest' \subseteq (rest \ {s}) \cup {t \in promotions' \ promotions : PageOf[t] = page}
        /\ rest \ {s} \subseteq rest'
        /\ UNCHANGED <<new, freed, collector, pc, todo, toScan, page, start>>
    <2>1. rest' \in {rest \ {s},
                     (rest \cup {t \in promotions' \ promotions : PageOf[t] = page /\ t > s}) \ {s}}
      BY DEF VisitSlot
    <2>. QED BY <2>1 DEF VisitSlot
  <1>5. Good(sb) /\ Cleared(sb) /\ page \in Page /\ start \in Nat /\ new = <<>>
    BY <1>1, <1>3 DEF Buffers, Iterating, Typed
  <1>6. PICK T \in SUBSET Room :
            /\ s \notin T
            /\ promotions' = promotions \cup T
            /\ slot' \in [Slot -> Contents]
            /\ slot'[s] \in {"new", "old"}
            /\ \A t \in T : slot'[t] = "from"
            /\ \A t \in Slot \ T : t # s => slot'[t] = slot[t]
    BY <1>1, <1>3, <1>4, UpdateIs DEF Typed
  <1>7. /\ Good(sb') /\ Cleared(sb')
        /\ Range(sb'.old) \subseteq Range(sb.old) \cup {s}
        /\ sb.scan \subseteq sb'.scan
        /\ Noted(sb', Range(sb.old))
        /\ slot'[s] = "new" => Noted(sb', {s})
        /\ OwnEntries(sb') /\ sb'.scan \subseteq sb.scan \cup {page}
    BY <1>3, <1>4, <1>5, ReenteredIs
  <1>8. T \subseteq Slot /\ \A t \in T : PageOf[t] \notin freed /\ slot[t] = "none"
    BY DEF Room
  <1>9. rest' \subseteq (rest \ {s}) \cup {t \in T : PageOf[t] = page}
    BY <1>4, <1>6
  <1>10. Buffers' /\ Entries' \subseteq Entries \cup {s}
    BY <1>1, <1>4, <1>7 DEF Buffers, Entries
  <1>11. Typed'
    BY <1>1, <1>4, <1>6, <1>8, <1>9, <1>10 DEF Typed
  <1>12. FreedIsForgotten'
    BY <1>1, <1>3, <1>4, <1>6, <1>7, <1>8, <1>10 DEF FreedIsForgotten
  <1>13. Scanning'
    <2>1. OwnEntries(sb)'
      BY <1>4, <1>7 DEF OwnEntries
    <2>2. ASSUME NEW t \in rest' PROVE PageOf[t] = page /\ slot'[t] = "from"
      <3>1. CASE t \in T /\ PageOf[t] = page
        BY <1>6, <3>1
      <3>2. CASE t \in rest \ {s}
        <4>1. slot[t] = "from" /\ PageOf[t] = page /\ t \in Slot
          BY <1>1, <3>2 DEF Scanning, Typed
        <4>2. t \notin T
          BY <1>8, <4>1
        <4>. QED BY <1>6, <3>2, <4>1, <4>2
      <3>. QED BY <1>9, <3>1, <3>2
    <2>. QED BY <1>3, <1>4, <2>1, <2>2 DEF Scanning
  <1>14. Iterating'
    <2>1. Len(sb'.old) + Len(todo') < sb'.limit
      <3>1. Len(sb'.old) \in Nat /\ Len(sb'.old) < sb'.limit
        BY <1>7, FromBuffer DEF Good
      <3>. QED BY <1>3, <1>4, <3>1, EmptyEntries
    <2>2. Range(todo') = {} /\ Range(todo) = {}
      BY <1>3, <1>4, EmptyEntries
    <2>3. \A t \in Range(sb'.old) : PageOf[t] \notin sb'.scan \cap toScan
      BY <1>1, <1>3, <1>7 DEF Iterating
    <2>4. \A t \in Slot : slot'[t] = "new" =>
              t \in Range(sb'.old) \/ PageOf[t] \in sb'.scan \ toScan
      <3>. SUFFICES ASSUME NEW t \in Slot, slot'[t] = "new", t \notin Range(sb'.old)
                    PROVE  PageOf[t] \in sb'.scan \ toScan
        OBVIOUS
      <3>1. CASE t = s
        BY <1>3, <1>7, <3>1 DEF Noted
      <3>2. CASE t # s
        <4>1. slot[t] = "new"
          BY <1>6, <3>2
        <4>2. CASE PageOf[t] \in sb.scan \ toScan
          BY <1>7, <4>2
        <4>3. CASE t \in Range(sb.old)
          <5>1. PageOf[t] \in sb'.scan
            BY <1>7, <4>3 DEF Noted
          <5>2. PageOf[t] \notin toScan
            BY <1>1, <1>3, <1>7, <4>3, <5>1 DEF Iterating
          <5>. QED BY <5>1, <5>2
        <4>. QED BY <1>1, <4>1, <4>2, <4>3 DEF Iterating
      <3>. QED BY <3>1, <3>2
    <2>5. \A t \in Slot : slot'[t] = "from" =>
              \/ t \in promotions' \cup rest'
              \/ PageOf[t] \in sb'.scan \cap toScan
      <3>. SUFFICES ASSUME NEW t \in Slot, slot'[t] = "from", t \notin promotions',
                           t \notin rest'
                    PROVE  PageOf[t] \in sb'.scan \cap toScan
        OBVIOUS
      <3>1. t # s /\ t \notin T /\ slot[t] = "from" /\ t \notin promotions /\ t \notin rest
        BY <1>4, <1>6
      <3>2. PageOf[t] \in sb.scan \cap toScan
        BY <1>1, <2>2, <3>1 DEF Iterating
      <3>. QED BY <1>7, <3>2
    <2>6. toScan \cap freed = {}
      BY <1>1 DEF Iterating
    <2>. QED BY <1>4, <1>5, <1>7, <1>13, <2>1, <2>2, <2>3, <2>4, <2>5, <2>6 DEF Iterating
  <1>. QED BY <1>1, <1>4, <1>11, <1>12, <1>14 DEF IInv

(* The iteration ends when no page is left that is flagged and not scanned. *)
LEMMA EndIterationStep ==
    ASSUME IInv, EndIteration
    PROVE  IInv'
  <1>. DEFINE b == FinishPage(sb)
  <1>1. /\ Typed /\ FreedIsForgotten /\ Buffers /\ Iterating /\ Scanning
        /\ pc = "entries" /\ todo = <<>> /\ rest = {} /\ toScan \cap sb.scan = {}
    BY DEF IInv, Typed, EndIteration, Iterating
  <1>2. /\ sb' = EnsureSpace(b, CheckedSpace)
        /\ page' = None /\ start' = 0 /\ toScan' = {} /\ pc' = "promoted"
        /\ UNCHANGED <<slot, new, freed, collector, todo, rest, promotions>>
    BY DEF EndIteration
  <1>3. Good(sb) /\ Cleared(sb) /\ page \in Page \cup {None} /\ start \in Nat
    BY <1>1 DEF Buffers, Iterating, Typed
  <1>4. page # None => OwnEntries(sb) /\ page \notin freed \cup toScan
    BY <1>1 DEF Scanning
  <1>5. /\ Good(b) /\ Cleared(b)
        /\ Range(b.old) \subseteq Range(sb.old)
        /\ sb.scan \subseteq b.scan
        /\ b.scan \subseteq sb.scan \cup ({page} \ {None})
        /\ Noted(b, Range(sb.old))
    BY <1>3, <1>4, FinishPageIs
  <1>. HIDE DEF b
  <1>6. /\ b \in BufferType /\ (b.filtered => HalfFree(b)) /\ CheckedSpace \in Nat \ {0}
    BY <1>5, SizeAssumption DEF Good
  <1>7. Narrows(b, sb') /\ (sb'.filtered => HalfFree(sb')) /\ Len(sb'.old) < sb'.limit
    BY <1>2, <1>6, EnsureSpaceIs
  <1>8. /\ Good(sb') /\ Cleared(sb')
        /\ Range(sb'.old) \subseteq Range(b.old) /\ b.scan \subseteq sb'.scan
        /\ sb'.scan \subseteq b.scan \cup {PageOf[s] : s \in Range(b.old)}
        /\ Noted(sb', Range(b.old))
    BY <1>5, <1>7 DEF Good, Narrows
  <1>9. Buffers' /\ Entries' \subseteq Entries
    BY <1>1, <1>2, <1>5, <1>8 DEF Buffers, Entries
  <1>10. Typed'
    BY <1>1, <1>2, <1>9 DEF Typed
  <1>11. sb'.scan \cap freed = {}
    <2>1. \A s \in Range(b.old) : PageOf[s] \notin freed
      BY <1>1, <1>5 DEF FreedIsForgotten, Entries
    <2>. QED BY <1>1, <1>4, <1>5, <1>8, <2>1 DEF FreedIsForgotten
  <1>12. FreedIsForgotten' /\ Idle'
    BY <1>1, <1>2, <1>9, <1>11 DEF FreedIsForgotten, Idle
  <1>13. Queueing'
    <2>1. Range(todo) = {}
      BY <1>1, EmptyEntries
    <2>2. \A s \in Slot : slot[s] = "from" => s \in promotions
      BY <1>1, <2>1 DEF Iterating
    <2>3. \A s \in Slot : slot[s] = "new" => s \in Range(sb'.old) \/ PageOf[s] \in sb'.scan
      BY <1>1, <1>5, <1>8 DEF Iterating, Noted
    <2>4. new = <<>>
      BY <1>1 DEF Iterating
    <2>. QED BY <1>2, <1>8, <2>2, <2>3, <2>4 DEF Queueing
  <1>. QED BY <1>2, <1>10, <1>12, <1>13 DEF IInv

(* A slot of a promoted object is visited, if scanning has not been there. *)
LEMMA VisitPromotedStep ==
    ASSUME IInv, NEW s \in Slot, VisitPromoted(s)
    PROVE  IInv'
  <1>. DEFINE b == IF slot[s] = "from" THEN Reentered(s) ELSE sb
  <1>1. /\ Typed /\ FreedIsForgotten /\ Buffers /\ Queueing /\ Idle
        /\ pc = "promoted" /\ s \in promotions
    BY DEF IInv, Typed, VisitPromoted
  <1>2. /\ sb' = IF promotions' = {} THEN EnsureSpace(b, CheckedSpace) ELSE b
        /\ UNCHANGED <<new, freed, collector, pc, todo, toScan, page, start, rest>>
    BY DEF VisitPromoted
  <1>3. Good(sb) /\ Cleared(sb) /\ page = None /\ start \in Nat /\ new = <<>> /\ todo = <<>>
    BY <1>1 DEF Buffers, Queueing, Idle, Typed
  <1>4. /\ Good(b) /\ Cleared(b)
        /\ Range(b.old) \subseteq Range(sb.old) \cup {s}
        /\ sb.scan \subseteq b.scan
        /\ b.scan \subseteq sb.scan \cup {PageOf[t] : t \in Range(sb.old) \cup {s}}
        /\ Noted(b, Range(sb.old))
        /\ slot[s] = "from" /\ slot'[s] = "new" => Noted(b, {s})
        /\ slot[s] # "from" => b = sb
    <2>1. CASE slot[s] = "from"
      <3>1. b = Reentered(s)
        BY <2>1
      <3>. HIDE DEF b
      <3>. QED BY <1>3, <2>1, <3>1, ReenteredIs
    <2>2. CASE slot[s] # "from"
      <3>1. b = sb
        BY <2>2
      <3>. HIDE DEF b
      <3>. QED BY <1>3, <2>2, <3>1 DEF Noted
    <2>. QED BY <2>1, <2>2
  <1>. HIDE DEF b
  <1>5. /\ Good(sb') /\ Cleared(sb')
        /\ Range(sb'.old) \subseteq Range(b.old) /\ b.scan \subseteq sb'.scan
        /\ sb'.scan \subseteq b.scan \cup {PageOf[t] : t \in Range(b.old)}
        /\ Noted(sb', Range(b.old))
    <2>1. CASE promotions' = {}
      <3>1. /\ b \in BufferType /\ (b.filtered => HalfFree(b)) /\ CheckedSpace \in Nat \ {0}
        BY <1>4, SizeAssumption DEF Good
      <3>2. Narrows(b, sb') /\ (sb'.filtered => HalfFree(sb')) /\ Len(sb'.old) < sb'.limit
        BY <1>2, <2>1, <3>1, EnsureSpaceIs
      <3>. QED BY <1>4, <3>2 DEF Good, Narrows
    <2>2. CASE promotions' # {}
      BY <1>2, <1>4, <2>2 DEF Noted
    <2>. QED BY <2>1, <2>2
  <1>6. PICK T \in SUBSET Room :
            /\ promotions' = (promotions \ {s}) \cup T
            /\ slot' \in [Slot -> Contents]
            /\ slot'[s] # "from"
            /\ \A t \in T : slot'[t] = "from"
            /\ \A t \in Slot \ T : t # s => slot'[t] = slot[t]
            /\ slot[s] # "from" => slot' = slot
    <2>1. CASE slot[s] = "from"
      <3>1. Update(s, promotions \ {s}) /\ promotions \ {s} \in SUBSET Slot
        BY <1>1, <2>1 DEF VisitPromoted, Typed
      <3>2. \E T \in SUBSET Room :
              /\ s \notin T
              /\ promotions' = (promotions \ {s}) \cup T
              /\ slot' \in [Slot -> Contents]
              /\ slot'[s] \in {"new", "old"}
              /\ \A t \in T : slot'[t] = "from"
              /\ \A t \in Slot \ T : t # s => slot'[t] = slot[t]
        BY <1>1, <2>1, <3>1, UpdateIs
      <3>. QED BY <2>1, <3>2
    <2>2. CASE slot[s] # "from"
      <3>1. promotions' = promotions \ {s} /\ slot' = slot
        BY <2>2 DEF VisitPromoted
      <3>. WITNESS {} \in SUBSET Room
      <3>. QED BY <1>1, <2>2, <3>1 DEF Typed
    <2>. QED BY <2>1, <2>2
  <1>7. T \subseteq Slot /\ \A t \in T : PageOf[t] \notin freed /\ slot[t] = "none"
    BY DEF Room
  <1>8. Buffers'
    BY <1>1, <1>2, <1>5 DEF Buffers
  <1>9. Typed'
    BY <1>1, <1>2, <1>6, <1>7, <1>8 DEF Typed
  <1>10. Entries' \subseteq Range(b.old) /\ \A t \in Range(b.old) : PageOf[t] \notin freed
    <2>1. slot[s] = "from" => PageOf[s] \notin freed
      BY <1>1 DEF FreedIsForgotten
    <2>2. Range(b.old) \subseteq Entries \cup (IF slot[s] = "from" THEN {s} ELSE {})
      BY <1>4 DEF Entries
    <2>3. Entries' \subseteq Range(b.old)
      BY <1>2, <1>3, <1>5, EmptyEntries DEF Entries
    <2>. QED BY <1>1, <2>1, <2>2, <2>3 DEF FreedIsForgotten
  <1>11. b.scan \cap freed = {}
    <2>1. slot[s] = "from" => PageOf[s] \notin freed
      BY <1>1 DEF FreedIsForgotten
    <2>2. \A t \in Range(sb.old) : PageOf[t] \notin freed
      BY <1>1 DEF FreedIsForgotten, Entries
    <2>. QED BY <1>1, <1>4, <2>1, <2>2 DEF FreedIsForgotten
  <1>12. sb'.scan \cap freed = {}
    BY <1>5, <1>10, <1>11
  <1>13. \A t \in Slot : PageOf[t] \in freed => slot'[t] = "none"
    <2>. SUFFICES ASSUME NEW t \in Slot, PageOf[t] \in freed PROVE slot'[t] = "none"
      OBVIOUS
    <2>1. slot[t] = "none" /\ t \notin T
      BY <1>1, <1>7 DEF FreedIsForgotten
    <2>. QED BY <1>6, <2>1
  <1>14. FreedIsForgotten' /\ Idle'
    <2>1. Range(todo') = {}
      BY <1>2, <1>3, EmptyEntries
    <2>. QED BY <1>1, <1>2, <1>10, <1>12, <1>13, <2>1 DEF FreedIsForgotten, Idle
  <1>15. Queueing'
    <2>1. \A t \in Slot : slot'[t] = "from" => t \in promotions'
      BY <1>1, <1>6 DEF Queueing
    <2>2. \A t \in Slot : slot'[t] = "new" => Noted(b, {t})
      <3>. SUFFICES ASSUME NEW t \in Slot, slot'[t] = "new" PROVE Noted(b, {t})
        OBVIOUS
      <3>1. CASE t = s /\ slot[s] = "from"
        BY <1>4, <3>1
      <3>2. CASE ~(t = s /\ slot[s] = "from")
        <4>1. slot[t] = "new"
          BY <1>6, <3>2
        <4>. QED BY <1>1, <1>4, <4>1 DEF Queueing, Noted
      <3>. QED BY <3>1, <3>2
    <2>3. \A t \in Slot : slot'[t] = "new" => t \in Range(sb'.old) \/ PageOf[t] \in sb'.scan
      BY <1>5, <2>2 DEF Noted
    <2>. QED BY <1>2, <1>3, <1>5, <2>1, <2>3 DEF Queueing
  <1>. QED BY <1>1, <1>2, <1>9, <1>14, <1>15 DEF IInv

(* JavaScript goes on. *)
LEMMA EndCollectionStep ==
    ASSUME IInv, EndCollection
    PROVE  IInv'
  <1>1. /\ Typed /\ FreedIsForgotten /\ Buffers /\ Queueing /\ Idle /\ promotions = {}
    BY DEF IInv, Typed, EndCollection
  <1>2. /\ collector' = "none" /\ pc' = "mutator"
        /\ UNCHANGED <<slot, new, sb, freed, gcVars>>
    BY DEF EndCollection
  <1>3. Buffers' /\ Entries' = Entries /\ sb' = sb
    BY <1>1, <1>2 DEF Buffers, Good, HalfFree, SetsOK, Entries
  <1>4. Typed' /\ FreedIsForgotten' /\ Idle'
    BY <1>1, <1>2, <1>3 DEF Typed, FreedIsForgotten, Idle, gcVars
  <1>5. Mutating'
    BY <1>1, <1>2, <1>3 DEF Queueing, Mutating, Entries
  <1>. QED BY <1>2, <1>4, <1>5 DEF IInv

(* Every step keeps the invariant. *)
LEMMA NextIInv == IInv /\ [Next]_vars => IInv'
  <1>. SUFFICES ASSUME IInv, [Next]_vars PROVE IInv'
    OBVIOUS
  <1>1. CASE UNCHANGED vars
    <2>1. UNCHANGED <<slot, new, sb, freed, collector, pc, todo, toScan, page, start, rest,
                      promotions>>
      BY <1>1 DEF vars, gcVars
    <2>2. Typed' /\ FreedIsForgotten'
      BY <2>1 DEF IInv, Typed, FreedIsForgotten, Buffers, Good, HalfFree, SetsOK, Entries
    <2>3. (pc # "entries" => Idle)' /\ (pc = "mutator" => Mutating)'
      BY <2>1 DEF IInv, Idle, Mutating, Entries
    <2>4. (pc \in {"roots", "evacuating"} => Reaching)' /\ (pc = "promoted" => Queueing)'
      BY <2>1 DEF IInv, Reaching, Queueing, Entries, Cleared
    <2>5. (pc = "entries" => Iterating)'
      BY <2>1 DEF IInv, Iterating, Scanning, OwnEntries, Cleared
    <2>. QED BY <2>2, <2>3, <2>4, <2>5 DEF IInv
  <1>2. ASSUME NEW s \in Slot, Store(s) \/ RecordWrite(s) \/ Evacuate(s) \/ Promote(s)
                                \/ VisitSlot(s) \/ VisitPromoted(s)
        PROVE  IInv'
    BY <1>2, StoreStep, EvacuateStep, PromoteStep, VisitSlotStep, VisitPromotedStep
  <1>3. ASSUME NEW p \in Page, FreeQueuedChunk(p) \/ AllocateChunk(p) \/ ScanPage(p)
        PROVE  IInv'
    BY <1>3, FreeStep, AllocateStep, ScanPageStep
  <1>4. CASE BeginCollection \/ PrepareForIteration \/ VisitEntry
             \/ EndIteration \/ EndCollection
    BY <1>4, BeginStep, PrepareStep, VisitEntryStep, EndIterationStep, EndCollectionStep
  <1>. QED BY <1>1, <1>2, <1>3, <1>4 DEF Next

(* The invariant holds throughout. *)
THEOREM Invariance == Spec => []IInv
  BY InitIInv, NextIInv, PTL DEF Spec

-----------------------------------------------------------------------------
(* What follows from it. *)

(* Types; and neither buffer is filled beyond its limit, though entries are  *)
(* written without a check (store-buffer-inl.h).                           *)
THEOREM Types == Spec => []TypeOK
  <1>1. IInv => TypeOK
    <2>. SUFFICES ASSUME IInv PROVE TypeOK
      OBVIOUS
    <2>1. Typed /\ FreedIsForgotten /\ Good(sb) /\ sb \in BufferType
      BY DEF IInv, Typed, Buffers, Good
    <2>2. Len(sb.old) <= sb.limit
      BY <2>1, FromBuffer DEF Good
    <2>. QED BY <2>1, <2>2 DEF TypeOK, Typed, Buffers, BufferType, FreedIsForgotten
  <1>. QED BY <1>1, Invariance, PTL

(* While JavaScript runs, every old-space slot that holds a pointer to new  *)
(* space is remembered, by an entry or by its page: Compact, the filtering  *)
(* by pages, and the rebuilding during a collection forget none; and no     *)
(* slot was left with a pointer into from-space.                           *)
THEOREM SlotsAreRemembered == Spec => []SlotsRemembered
  <1>1. IInv => SlotsRemembered
    BY DEF IInv, Mutating, SlotsRemembered
  <1>. QED BY <1>1, Invariance, PTL

(* The hash sets vouch only for entries that are in the old buffer, and no  *)
(* entry, in a buffer or being read, is on a chunk that was given back.    *)
THEOREM NoEntryIsStale == Spec => []NoStaleEntries
  <1>1. IInv => NoStaleEntries
    BY DEF IInv, Typed, Buffers, Good, SetsOK, FreedIsForgotten, NoStaleEntries
  <1>. QED BY <1>1, Invariance, PTL

(* A page scan only comes to slots that still point into from-space: no     *)
(* slot is visited both by its entry and by its page, or twice by its page, *)
(* so no object is scavenged twice.                                        *)
THEOREM NoSlotIsScannedTwice == Spec => []ScannedOnce
  <1>1. IInv => ScannedOnce
    BY DEF IInv, Idle, Iterating, Scanning, ScannedOnce
  <1>. QED BY <1>1, Invariance, PTL
=============================================================================
