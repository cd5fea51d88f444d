-------------------------- MODULE ThreadManagerProofs --------------------------
(***************************************************************************)
(* The safety properties of ThreadManager, for any number of threads and   *)
(* ThreadStates and any nesting of Lockers and Unlockers.  The inductive    *)
(* invariant says what each ThreadState is used for by its id alone, and    *)
(* separately that the two lists link exactly the states used so.           *)
(***************************************************************************)
EXTENDS ThreadManager, FiniteSetTheorems, SequenceTheorems, WellFoundedInduction, TLAPS

FreeStates == {s \in allocated : id[s] = None}
InUse == {s \in allocated : id[s] # None /\ s # lazyState}
Node == ThreadState \cup Anchor

(* The links l make a circular list of the states S with the anchor a: next  *)
(* and previous undo each other, and whoever follows next from the anchor   *)
(* comes to every state.                                                   *)
ListOK(l, a, S) ==
    /\ \A s \in S \cup {a} :
           /\ l.next[s] \in S \cup {a} /\ l.previous[s] \in S \cup {a}
           /\ l.previous[l.next[s]] = s /\ l.next[l.previous[s]] = s
    /\ \A X \in SUBSET (S \cup {a}) :
           a \in X /\ (\A s \in X : l.next[s] \in X) => X = S \cup {a}

ListsOK ==
    /\ ListOK(links, free_anchor, FreeStates)
    /\ ListOK(links, in_use_anchor, InUse)
    /\ \A s \in ThreadState \ allocated : links.next[s] = s /\ links.previous[s] = s

(* A ThreadState that bears a thread's id and the state its thread_state_    *)
(* points to are one.                                                      *)
IdOK ==
    /\ \A s \in ThreadState : id[s] # None => s \in allocated /\ threadState[id[s]] = s
    /\ \A t \in Thread : threadState[t] # None => id[threadState[t]] = t

LazyOK == lazilyArchived # None =>
    mutexOwner = None /\ threadState[lazilyArchived] = lazyState

RequestOK == \A s \in ThreadState : terminateOnRestore[s] => s \in InUse

DataOK ==
    /\ live.data = {mutexOwner, lazilyArchived} \ {None}
    /\ \A s \in ThreadState : saved[s].data = IF s \in InUse THEN {id[s]} ELSE {}

BoundOK == Cardinality(allocated) <= Cardinality(Thread)

(* Each Unlocker stands on a Locker; a Locker has the lock exactly when it   *)
(* stands on an Unlocker or is the outermost scope.                        *)
StackOK(q) == \A i \in 1 .. Len(q) :
    /\ q[i].kind = "unlocker" => i > 1 /\ q[i - 1].kind = "locker"
    /\ q[i].kind = "locker" /\ ~q[i].has_lock => i > 1 /\ q[i - 1].kind = "locker"
    /\ q[i].kind = "locker" /\ q[i].has_lock =>
           /\ q[i].top_level <=> i = 1
           /\ i > 1 => q[i - 1].kind = "unlocker"

ThreadOK(t) ==
    /\ StackOK(scopes[t])
    /\ pc[t] = "clearing" => scopes[t] = <<>>
    /\ pc[t] = "yield" => Holding(t, "locker")
    /\ pc[t] \in {"preempted", "joining"} => mutexOwner = t
    /\ mutexOwner = t <=>
           pc[t] = "clearing" \/ (Holding(t, "locker") /\ pc[t] # "yield")
    /\ threadState[t] # None <=> scopes[t] # <<>> /\ mutexOwner # t

ThreadsType ==
    /\ scopes \in [Thread -> Seq(Scope)]
    /\ pc \in [Thread -> {"run", "clearing", "yield", "preempted", "joining"}]
    /\ switcher \in {"none", "running", "stopping", "exited"}

StatesType ==
    /\ mutexOwner \in Thread \cup {None}
    /\ lazilyArchived \in Thread \cup {None}
    /\ lazyState \in ThreadState \cup {None}
    /\ lazilyArchived = None <=> lazyState = None
    /\ threadState \in [Thread -> ThreadState \cup {None}]
    /\ allocated \subseteq ThreadState
    /\ links \in [next : Link, previous : Link]
    /\ id \in [ThreadState -> Thread \cup {None}]
    /\ terminateOnRestore \in [ThreadState -> BOOLEAN]
    /\ saved \in [ThreadState -> Area]
    /\ live \in Area

ThreadsOK == ThreadsType /\ \A t \in Thread : ThreadOK(t)
StatesOK ==
    StatesType /\ IdOK /\ LazyOK /\ ListsOK /\ RequestOK /\ DataOK /\ BoundOK

Inv == ThreadsOK /\ StatesOK

-----------------------------------------------------------------------------
(* Lists. *)

LinksType == [next : [Node -> Node], previous : [Node -> Node]]

LEMMA UnlinkType ==
    ASSUME NEW l \in LinksType, NEW s \in ThreadState
    PROVE  Unlink(l, s) \in LinksType
  BY DEF Unlink, LinksType, Node

LEMMA LinkIntoType ==
    ASSUME NEW l \in LinksType, NEW s \in ThreadState, NEW a \in Anchor
    PROVE  LinkInto(l, s, a) \in LinksType
  BY DEF LinkInto, LinksType, Node

(* Taking a state out of a list. *)
LEMMA UnlinkMember ==
    ASSUME NEW l \in LinksType, NEW a \in Anchor, NEW S \in SUBSET ThreadState,
           NEW s \in S, ListOK(l, a, S)
    PROVE  ListOK(Unlink(l, s), a, S \ {s})
  <1>. DEFINE k == Unlink(l, s)
              p == l.previous[s]
              n == l.next[s]
              T == S \cup {a}
  <1>0. a \notin ThreadState /\ S \subseteq ThreadState /\ T \subseteq Node /\ s # a
    BY DistinctAssumption DEF Node
  <1>1. /\ p \in T /\ n \in T /\ l.next[p] = s /\ l.previous[n] = s
        /\ \A x \in T : l.next[x] = s <=> x = p
        /\ \A x \in T : l.previous[x] = s <=> x = n
    BY <1>0 DEF ListOK
  <1>2. /\ \A x \in T \ {p} : k.next[x] = l.next[x]
        /\ k.next[p] = n
        /\ \A x \in T \ {n} : k.previous[x] = l.previous[x]
        /\ k.previous[n] = p
    BY <1>0, <1>1 DEF Unlink, LinksType
  <1>3. p # s /\ n # s
    \* else s alone would be closed, and the anchor's part of the list as well
    <2>1. ASSUME n = s \/ p = s PROVE FALSE
      <3>1. n = s /\ p = s
        BY <1>1, <2>1
      <3>2. \A x \in T \ {s} : l.next[x] \in T \ {s}
        BY <1>1, <3>1 DEF ListOK
      <3>3. T \ {s} = T
        BY <1>0, <3>2 DEF ListOK
      <3>. QED BY <3>3
    <2>. QED BY <2>1
  <1>4. ASSUME NEW x \in T \ {s}
        PROVE  /\ k.next[x] \in T \ {s} /\ k.previous[x] \in T \ {s}
               /\ k.previous[k.next[x]] = x /\ k.next[k.previous[x]] = x
    <2>1. /\ l.next[x] \in T /\ l.previous[x] \in T
          /\ l.previous[l.next[x]] = x /\ l.next[l.previous[x]] = x
      BY DEF ListOK
    <2>. QED BY <1>1, <1>2, <1>3, <2>1
  <1>5. ASSUME NEW X \in SUBSET (T \ {s}), a \in X, \A x \in X : k.next[x] \in X
        PROVE  X = T \ {s}
    <2>1. CASE p \in X
      <3>1. n \in X
        BY <1>2, <1>5, <2>1
      <3>2. \A x \in X \cup {s} : l.next[x] \in X \cup {s}
        BY <1>1, <1>2, <1>5, <3>1
      <3>3. X \cup {s} \in SUBSET (S \cup {a}) /\ a \in X \cup {s}
        BY <1>5
      <3>4. X \cup {s} = T
        BY <3>2, <3>3 DEF ListOK
      <3>. QED BY <3>4, <1>5
    <2>2. CASE p \notin X
      <3>1. \A x \in X : l.next[x] \in X
        BY <1>2, <1>5, <2>2
      <3>2. X = T
        BY <1>5, <3>1 DEF ListOK
      <3>. QED BY <1>1, <2>2, <3>2
    <2>. QED BY <2>1, <2>2
  <1>6. (S \ {s}) \cup {a} = T \ {s}
    BY <1>0
  <1>. QED BY <1>4, <1>5, <1>6 DEF ListOK

(* A state that is in no list is linked to itself only. *)
LEMMA UnlinkNew ==
    ASSUME NEW l \in LinksType, NEW s \in ThreadState,
           l.next[s] = s, l.previous[s] = s
    PROVE  Unlink(l, s) = l
  BY DEF Unlink, LinksType, Node

(* Putting a state into a list. *)
LEMMA LinkIntoList ==
    ASSUME NEW l \in LinksType, NEW a \in Anchor, NEW S \in SUBSET ThreadState,
           NEW s \in ThreadState \ S, ListOK(l, a, S)
    PROVE  ListOK(LinkInto(l, s, a), a, S \cup {s})
  <1>. DEFINE k == LinkInto(l, s, a)
              n == l.next[a]
              T == S \cup {a}
  <1>0. a \notin ThreadState /\ S \subseteq ThreadState /\ T \subseteq Node /\ s # a
        /\ s \notin T /\ s \in Node
    BY DistinctAssumption DEF Node
  <1>1. n \in T /\ n # s /\ l.previous[n] = a /\ \A x \in T : l.next[x] = n <=> x = a
    BY <1>0 DEF ListOK
  <1>2. /\ \A x \in T \ {a} : k.next[x] = l.next[x]
        /\ k.next[a] = s /\ k.next[s] = n
        /\ \A x \in T \ {n} : k.previous[x] = l.previous[x]
        /\ k.previous[n] = s /\ k.previous[s] = a
    BY <1>0, <1>1 DEF LinkInto, LinksType
  <1>3. ASSUME NEW x \in T \cup {s}
        PROVE  /\ k.next[x] \in T \cup {s} /\ k.previous[x] \in T \cup {s}
               /\ k.previous[k.next[x]] = x /\ k.next[k.previous[x]] = x
    <2>1. CASE x = s
      BY <1>0, <1>1, <1>2, <2>1
    <2>2. CASE x \in T
      <3>1. /\ l.next[x] \in T /\ l.previous[x] \in T
            /\ l.previous[l.next[x]] = x /\ l.next[l.previous[x]] = x
        BY <2>2 DEF ListOK
      <3>. QED BY <1>0, <1>1, <1>2, <2>2, <3>1
    <2>. QED BY <2>1, <2>2
  <1>4. ASSUME NEW X \in SUBSET (T \cup {s}), a \in X, \A x \in X : k.next[x] \in X
        PROVE  X = T \cup {s}
    <2>1. s \in X /\ n \in X
      BY <1>2, <1>4
    <2>2. \A x \in T : l.next[x] \in T
      BY DEF ListOK
    <2>3. \A x \in X \ {s} : l.next[x] \in X \ {s}
      BY <1>0, <1>1, <1>2, <1>4, <2>1, <2>2
    <2>4. X \ {s} = T
      BY <1>0, <1>4, <2>3 DEF ListOK
    <2>. QED BY <2>1, <2>4
  <1>5. (S \cup {s}) \cup {a} = T \cup {s}
    OBVIOUS
  <1>. QED BY <1>3, <1>4, <1>5 DEF ListOK

(* Both leave a list alone that has no node in common with theirs. *)
LEMMA ListUntouched ==
    ASSUME NEW l \in LinksType, NEW k \in LinksType, NEW a \in Anchor,
           NEW S \in SUBSET ThreadState, ListOK(l, a, S),
           \A x \in S \cup {a} : k.next[x] = l.next[x] /\ k.previous[x] = l.previous[x]
    PROVE  ListOK(k, a, S)
  <1>. S \cup {a} \subseteq Node
    BY DEF Node
  <1>1. \A s \in S \cup {a} :
           /\ k.next[s] \in S \cup {a} /\ k.previous[s] \in S \cup {a}
           /\ k.previous[k.next[s]] = s /\ k.next[k.previous[s]] = s
    BY DEF ListOK
  <1>2. ASSUME NEW X \in SUBSET (S \cup {a}), a \in X, \A s \in X : k.next[s] \in X
        PROVE  X = S \cup {a}
    <2>1. \A s \in X : l.next[s] \in X
      BY <1>2
    <2>. QED BY <1>2, <2>1 DEF ListOK
  <1>. QED BY <1>1, <1>2 DEF ListOK

(* Induction over the naturals, by the least counterexample. *)
LEMMA LeastNatural ==
    ASSUME NEW S \in SUBSET Nat, S # {}
    PROVE  \E n \in S : \A k \in S : n <= k
  <1>1. PICK n \in S : \A k \in S : ~ (<<k, n>> \in OpToRel(<, Nat))
    BY WFMin, NatLessThanWellFounded
  <1>2. \A k \in S : ~ (k < n)
    BY <1>1 DEF OpToRel
  <1>. QED BY <1>2

LEMMA OneMore ==
    ASSUME NEW A, NEW x, IsFiniteSet(A), x \notin A
    PROVE  Cardinality(A \cup {x}) = Cardinality(A) + 1
  BY FS_AddElement

(* The walk from the anchor comes to exactly the members of the list.  The   *)
(* set of nodes met grows with each step until it is closed under next, so *)
(* after as many steps as there are ThreadStates it is.                     *)
LEMMA MembersOfList ==
    ASSUME links \in LinksType, NEW a \in Anchor, NEW S \in SUBSET ThreadState,
           ListOK(links, a, S)
    PROVE  Members(a) = S
  <1>. DEFINE C == Cardinality(ThreadState)
              T == S \cup {a}
              IsMet(g, m) ==
                  g = [n \in 0..m |->
                          IF n = 0 THEN {links.next[a]}
                          ELSE LET nearer == g[n - 1]
                               IN  nearer \cup {links.next[s] : s \in nearer \ {a}}]
              met == CHOOSE g : IsMet(g, C)
              Closed(A) == \A s \in A \ {a} : links.next[s] \in A
  <1>1. C \in Nat /\ a \notin S /\ S \subseteq ThreadState /\ IsFiniteSet(ThreadState)
    BY FiniteAssumption, FS_CardinalityType, DistinctAssumption
  <1>2. \A m \in Nat : \E g : IsMet(g, m)
    <2>. DEFINE Bad == {m \in Nat : ~ \E g : IsMet(g, m)}
    <2>1. SUFFICES ASSUME Bad # {} PROVE FALSE
      OBVIOUS
    <2>2. PICK m \in Bad : \A k \in Bad : m <= k
      BY <2>1, LeastNatural
    <2>3. CASE m = 0
      <3>. DEFINE g == [n \in 0..0 |-> {links.next[a]}]
      <3>1. IsMet(g, 0)
        OBVIOUS
      <3>. QED BY <2>3, <3>1
    <2>4. CASE m # 0
      <3>0. m \in Nat
        OBVIOUS
      <3>1. m - 1 \in Nat /\ m - 1 \notin Bad
        <4>1. m - 1 \in Nat /\ ~(m <= m - 1)
          BY <2>4, <3>0
        <4>. QED BY <2>2, <4>1
      <3>2. PICK g : IsMet(g, m - 1)
        BY <3>1
      <3>. DEFINE h == [n \in 0..m |->
                           IF n = m
                           THEN g[m - 1] \cup {links.next[s] : s \in g[m - 1] \ {a}}
                           ELSE g[n]]
      <3>3. ASSUME NEW n \in 0..m
            PROVE  h[n] = IF n = 0 THEN {links.next[a]}
                          ELSE h[n - 1] \cup {links.next[s] : s \in h[n - 1] \ {a}}
        <4>1. CASE n = m
          <5>1. h[n - 1] = g[m - 1]
            BY <2>4, <4>1
          <5>. QED BY <2>4, <4>1, <5>1
        <4>2. CASE n # m
          <5>1. n \in 0..(m - 1) /\ h[n] = g[n]
            BY <4>2
          <5>2. g[n] = IF n = 0 THEN {links.next[a]}
                       ELSE g[n - 1] \cup {links.next[s] : s \in g[n - 1] \ {a}}
            BY <3>2, <5>1
          <5>3. n # 0 => h[n - 1] = g[n - 1]
            BY <5>1
          <5>. QED BY <5>1, <5>2, <5>3
        <4>. QED BY <4>1, <4>2
      <3>4. IsMet(h, m)
        BY <3>3
      <3>. QED BY <2>2, <3>4
    <2>. QED BY <2>3, <2>4
  <1>3. IsMet(met, C)
    BY <1>1, <1>2
  <1>4. Members(a) = met[C] \ {a}
    BY DEF Members
  <1>. HIDE DEF met
  <1>5. /\ met[0] = {links.next[a]}
        /\ \A n \in 1..C : met[n] = met[n - 1] \cup {links.next[s] : s \in met[n - 1] \ {a}}
    BY <1>1, <1>3
  <1>6. T \subseteq Node /\ links.next[a] \in T /\ \A s \in T : links.next[s] \in T
    BY DEF ListOK, Node
  <1>. DEFINE Good(n) == /\ met[n] \subseteq T /\ links.next[a] \in met[n]
                         /\ Closed(met[n]) \/ Cardinality(met[n]) >= n + 1
  <1>7. IsFiniteSet(T) /\ Cardinality(T) <= C + 1 /\ Cardinality(T) \in Nat
    BY <1>1, FS_Subset, FS_AddElement, FS_CardinalityType
  <1>8. \A n \in 0..C : Good(n)
    <2>. DEFINE Bad == {n \in 0..C : ~Good(n)}
    <2>1. SUFFICES ASSUME Bad # {} PROVE FALSE
      OBVIOUS
    <2>2. PICK n \in Bad : \A k \in Bad : n <= k
      <3>1. Bad \in SUBSET Nat
        BY <1>1
      <3>. HIDE DEF Bad
      <3>. QED BY <2>1, <3>1, LeastNatural
    <2>3. CASE n = 0
      <3>1. Cardinality(met[0]) = 1
        BY <1>5, FS_Singleton
      <3>2. Cardinality(met[0]) >= 0 + 1
        BY <3>1
      <3>3. met[0] \subseteq T /\ links.next[a] \in met[0]
        BY <1>5, <1>6
      <3>4. Good(0)
        BY <3>2, <3>3
      <3>. QED BY <2>2, <2>3, <3>4
    <2>4. CASE n # 0
      <3>1. n - 1 \in 0..C /\ Good(n - 1) /\ n \in 1..C
        BY <1>1, <2>2, <2>4
      <3>2. met[n] = met[n - 1] \cup {links.next[s] : s \in met[n - 1] \ {a}}
        BY <1>5, <3>1
      <3>3. met[n] \subseteq T /\ links.next[a] \in met[n]
        BY <1>6, <3>1, <3>2
      <3>4. CASE Closed(met[n - 1])
        <4>1. met[n] = met[n - 1]
          BY <3>2, <3>4
        <4>. QED BY <2>2, <3>3, <3>4, <4>1
      <3>5. CASE ~Closed(met[n - 1])
        <4>1. PICK s \in met[n - 1] \ {a} : links.next[s] \notin met[n - 1]
          BY <3>5
        <4>2. IsFiniteSet(met[n - 1]) /\ IsFiniteSet(met[n])
          BY <1>7, <3>1, <3>3, FS_Subset
        <4>3. Cardinality(met[n - 1] \cup {links.next[s]}) = Cardinality(met[n - 1]) + 1
          BY <4>1, <4>2, OneMore
        <4>4. met[n - 1] \cup {links.next[s]} \subseteq met[n]
          BY <3>2, <4>1
        <4>5. Cardinality(met[n - 1] \cup {links.next[s]}) <= Cardinality(met[n])
          BY <4>2, <4>4, FS_Subset
        <4>6. Cardinality(met[n]) >= n + 1
          BY <3>1, <3>5, <4>2, <4>3, <4>5, FS_CardinalityType
        <4>. QED BY <2>2, <3>3, <4>6
      <3>. QED BY <3>4, <3>5
    <2>. QED BY <2>3, <2>4
  <1>9. Good(C)
    BY <1>1, <1>8
  <1>10. met[C] \cup {a} = T
    <2>1. CASE Closed(met[C])
      <3>1. met[C] \cup {a} \in SUBSET T /\ \A s \in met[C] \cup {a} : links.next[s] \in met[C] \cup {a}
        BY <1>9, <2>1
      <3>. QED BY <3>1 DEF ListOK
    <2>2. CASE Cardinality(met[C]) >= C + 1
      <3>1. Cardinality(met[C]) <= Cardinality(T) /\ Cardinality(met[C]) \in Nat
        BY <1>7, <1>9, FS_Subset, FS_CardinalityType
      <3>2. Cardinality(met[C]) = Cardinality(T)
        BY <1>1, <1>7, <2>2, <3>1
      <3>3. met[C] = T
        BY <1>7, <1>9, <3>2, FS_Subset
      <3>. QED BY <3>3
    <2>. QED BY <1>9, <2>1, <2>2
  <1>. QED BY <1>1, <1>4, <1>10

-----------------------------------------------------------------------------
(* Scopes. *)

LEMMA ScopeType ==
    /\ Unlocker \in Scope
    /\ \A h, l \in BOOLEAN : Locker(h, l) \in Scope
    /\ \A q \in Seq(Scope) : \A i \in 1 .. Len(q) : q[i].kind \in {"locker", "unlocker"}
  BY DEF Unlocker, Locker, Scope

LEMMA WithoutLast ==
    ASSUME NEW q \in Seq(Scope), NEW n \in Nat, Len(q) = n + 1
    PROVE  /\ SubSeq(q, 1, n) \in Seq(Scope)
           /\ Len(SubSeq(q, 1, n)) = n
           /\ \A i \in 1 .. n : SubSeq(q, 1, n)[i] = q[i]
  <1>1. SubSeq(q, 1, n) \in Seq(Scope)
    OBVIOUS
  <1>2. Len(SubSeq(q, 1, n)) = n
    OBVIOUS
  <1>3. ASSUME NEW i \in 1 .. n PROVE SubSeq(q, 1, n)[i] = q[i]
    OBVIOUS
  <1>. QED BY <1>1, <1>2, <1>3

LEMMA StackPop ==
    ASSUME NEW q \in Seq(Scope), q # <<>>, StackOK(q)
    PROVE  LET r == SubSeq(q, 1, Len(q) - 1)
           IN  /\ r \in Seq(Scope) /\ StackOK(r)
               /\ Len(r) = Len(q) - 1
               /\ r = <<>> <=> Len(q) = 1
               /\ Len(q) > 1 => r[Len(r)] = q[Len(q) - 1]
  <1>. DEFINE n == Len(q) - 1
              r == SubSeq(q, 1, n)
  <1>1. n \in Nat /\ Len(q) = n + 1
    OBVIOUS
  <1>. HIDE DEF n
  <1>2. r \in Seq(Scope) /\ Len(r) = n /\ \A i \in 1 .. n : r[i] = q[i]
    BY <1>1, WithoutLast
  <1>. HIDE DEF r
  <1>3. StackOK(r)
    BY <1>1, <1>2 DEF StackOK
  <1>4. r = <<>> <=> n = 0
    BY <1>2, EmptySeq
  <1>5. n > 0 => r[Len(r)] = q[n]
    BY <1>1, <1>2
  <1>. QED BY <1>1, <1>2, <1>3, <1>4, <1>5 DEF n, r

LEMMA StackPush ==
    ASSUME NEW q \in Seq(Scope), NEW e \in Scope, StackOK(q),
           e.kind = "unlocker" => q # <<>> /\ q[Len(q)].kind = "locker",
           e.kind = "locker" /\ ~e.has_lock => q # <<>> /\ q[Len(q)].kind = "locker",
           e.kind = "locker" /\ e.has_lock =>
               /\ e.top_level <=> q = <<>>
               /\ q # <<>> => q[Len(q)].kind = "unlocker"
    PROVE  LET r == Append(q, e)
           IN  /\ r \in Seq(Scope) /\ StackOK(r)
               /\ r # <<>> /\ r[Len(r)] = e
  <1>. DEFINE r == Append(q, e)
  <1>1. /\ Len(q) \in Nat /\ r \in Seq(Scope) /\ Len(r) = Len(q) + 1 /\ r[Len(r)] = e
        /\ \A i \in 1 .. Len(q) : r[i] = q[i]
        /\ q = <<>> <=> Len(q) = 0
    OBVIOUS
  <1>2. ASSUME NEW i \in 1 .. Len(r)
        PROVE  /\ r[i].kind = "unlocker" => i > 1 /\ r[i - 1].kind = "locker"
               /\ r[i].kind = "locker" /\ ~r[i].has_lock => i > 1 /\ r[i - 1].kind = "locker"
               /\ r[i].kind = "locker" /\ r[i].has_lock =>
                      /\ r[i].top_level <=> i = 1
                      /\ i > 1 => r[i - 1].kind = "unlocker"
    <2>1. CASE i = Len(r)
      <3>1. r[i] = e /\ (i = 1 <=> q = <<>>) /\ (i > 1 <=> q # <<>>)
        BY <1>1, <2>1
      <3>2. i > 1 => r[i - 1] = q[Len(q)]
        BY <1>1, <2>1
      <3>. QED BY <3>1, <3>2
    <2>2. CASE i # Len(r)
      <3>1. i \in 1 .. Len(q) /\ r[i] = q[i] /\ (i > 1 => r[i - 1] = q[i - 1])
        BY <1>1, <2>2
      <3>. QED BY <3>1 DEF StackOK
    <2>. QED BY <2>1, <2>2
  <1>3. StackOK(r)
    BY <1>2 DEF StackOK
  <1>. QED BY <1>1, <1>3

-----------------------------------------------------------------------------
(* What giving and taking the lock does to the ThreadStates. *)

(* Which states are in use once EagerlyArchived has been done. *)
Archived == {s \in allocated : id[s] # None}

LEMMA Partition ==
    ASSUME StatesOK
    PROVE  /\ FreeStates \in SUBSET ThreadState /\ InUse \in SUBSET ThreadState
           /\ FreeStates \cap Archived = {} /\ InUse = Archived \ {lazyState}
           /\ links \in LinksType /\ Archived \in SUBSET ThreadState
           /\ None \notin ThreadState /\ None \notin Thread
           /\ lazilyArchived # None =>
                  lazyState \in Archived /\ id[lazyState] = lazilyArchived
  <1>1. lazilyArchived # None => lazyState \in Archived /\ id[lazyState] = lazilyArchived
    BY DistinctAssumption DEF StatesOK, StatesType, LazyOK, IdOK, Archived
  <1>. QED BY <1>1, DistinctAssumption
       DEF StatesOK, StatesType, FreeStates, InUse, Archived, LinksType, Link, Node

(* A list with nothing after its anchor is empty. *)
LEMMA EmptyList ==
    ASSUME NEW l \in LinksType, NEW a \in Anchor, NEW S \in SUBSET ThreadState,
           ListOK(l, a, S), l.next[a] = a
    PROVE  S = {}
  <1>1. a \notin S
    BY DistinctAssumption
  <1>2. {a} \in SUBSET (S \cup {a}) /\ a \in {a} /\ \A s \in {a} : l.next[s] \in {a}
    OBVIOUS
  <1>3. {a} = S \cup {a}
    BY <1>2 DEF ListOK
  <1>. QED BY <1>1, <1>3

(* Allocating a state for a thread that is not archived: when none is free,  *)
(* every allocated one belongs to another thread.                          *)
LEMMA RoomToAllocate ==
    ASSUME StatesOK, NEW t \in Thread, threadState[t] = None, FreeStates = {}
    PROVE  Cardinality(allocated) < Cardinality(Thread)
  <1>. DEFINE f == [s \in allocated |-> id[s]]
  <1>1. /\ IsFiniteSet(Thread) /\ IsFiniteSet(allocated) /\ IsFiniteSet(Thread \ {t})
        /\ Cardinality(Thread \ {t}) = Cardinality(Thread) - 1
        /\ Cardinality(Thread) \in Nat /\ Cardinality(Thread \ {t}) \in Nat
        /\ Cardinality(allocated) \in Nat
    BY FiniteAssumption, FS_Subset, FS_RemoveElement, FS_CardinalityType
       DEF StatesOK, StatesType
  <1>2. \A s \in allocated : s \in ThreadState /\ id[s] \in Thread /\ threadState[id[s]] = s
    BY DEF FreeStates, StatesOK, StatesType, IdOK
  <1>3. \A s \in allocated : id[s] \in Thread \ {t}
    BY <1>2, DistinctAssumption
  <1>4. f \in [allocated -> Thread \ {t}]
    BY <1>3
  <1>5. \A s, r \in allocated : f[s] = f[r] => s = r
    BY <1>2
  <1>6. f \in Injection(allocated, Thread \ {t})
    BY <1>4, <1>5 DEF Injection, IsInjective
  <1>7. Cardinality(allocated) <= Cardinality(Thread \ {t})
    BY <1>1, <1>6, FS_Injection
  <1>. QED BY <1>1, <1>7

LEMMA ArchiveStates ==
    ASSUME StatesOK, NEW t \in Thread, mutexOwner = t, ArchiveThread(t),
           live' \in Area, live'.data = live.data
    PROVE  /\ StatesOK' /\ mutexOwner' = None
           /\ threadState'[t] # None
           /\ \A u \in Thread \ {t} : threadState'[u] = threadState[u]
  <1>0. PICK s \in ThreadState :
           /\ IsFreeThreadState(s)
           /\ lazilyArchived = None
           /\ ~IsArchived(t)
           /\ id[s] = None
           /\ allocated' = allocated \cup {s}
           /\ links' = Unlink(links, s)
           /\ threadState' = [threadState EXCEPT ![t] = s]
           /\ lazilyArchived' = t
           /\ lazyState' = s
           /\ id' = [id EXCEPT ![s] = t]
           /\ mutexOwner' = None
           /\ UNCHANGED <<terminateOnRestore, saved>>
    BY DEF ArchiveThread
  <1>. USE Partition
  <1>1. StatesType'
    <2>1. links' \in LinksType
      BY <1>0, UnlinkType
    <2>2. links' \in [next : Link, previous : Link]'
      BY <2>1 DEF LinksType, Link, Node
    <2>3. s # None /\ t # None
      BY DistinctAssumption
    <2>. QED BY <1>0, <2>2, <2>3 DEF StatesOK, StatesType
  <1>2. FreeStates' = FreeStates \ {s} /\ InUse' = InUse /\ InUse \cup FreeStates \subseteq allocated
    BY <1>0, DistinctAssumption DEF FreeStates, InUse, StatesOK, StatesType
  <1>3. IdOK'
    BY <1>0, DistinctAssumption DEF IdOK, IsArchived, StatesOK, StatesType
  <1>4. LazyOK'
    BY <1>0 DEF LazyOK, StatesOK, StatesType
  <1>5. RequestOK'
    BY <1>0, <1>2 DEF RequestOK, StatesOK
  <1>6. DataOK'
    <2>1. live'.data = {t}
      BY <1>0, DistinctAssumption DEF DataOK, StatesOK
    <2>2. \A x \in InUse : id'[x] = id[x]
      BY <1>0 DEF InUse, StatesOK, StatesType
    <2>. QED BY <1>0, <1>2, <2>1, <2>2, DistinctAssumption DEF DataOK, StatesOK
  <1>7. ListsOK' /\ BoundOK'
    <2>1. CASE links.next[free_anchor] # free_anchor
      <3>1. s = links.next[free_anchor] /\ s \in FreeStates
        BY <1>0, <2>1 DEF IsFreeThreadState, StatesOK, ListsOK, ListOK
      <3>2. ListOK(Unlink(links, s), free_anchor, FreeStates \ {s})
        BY <3>1, UnlinkMember DEF StatesOK, ListsOK, Anchor
      <3>3. /\ links.next[s] \in FreeStates \cup {free_anchor}
            /\ links.previous[s] \in FreeStates \cup {free_anchor}
        BY <3>1 DEF StatesOK, ListsOK, ListOK
      <3>4. \A x \in Node \ (FreeStates \cup {free_anchor}) :
               links'.next[x] = links.next[x] /\ links'.previous[x] = links.previous[x]
        BY <1>0, <3>3 DEF Unlink, LinksType
      <3>5. /\ (InUse \cup {in_use_anchor}) \cap (FreeStates \cup {free_anchor}) = {}
            /\ InUse \cup {in_use_anchor} \subseteq Node
            /\ ThreadState \ allocated' \subseteq Node \ (FreeStates \cup {free_anchor})
        BY <1>0, <1>2, DistinctAssumption DEF Node, Anchor, Archived
      <3>6. ListOK(links', in_use_anchor, InUse)
        <4>1. links' \in LinksType /\ in_use_anchor \in Anchor
          BY <1>0, UnlinkType DEF Anchor
        <4>2. \A x \in InUse \cup {in_use_anchor} :
                 links'.next[x] = links.next[x] /\ links'.previous[x] = links.previous[x]
          BY <3>4, <3>5
        <4>. QED BY <4>1, <4>2, ListUntouched DEF StatesOK, ListsOK
      <3>7. \A x \in ThreadState \ allocated' : links'.next[x] = x /\ links'.previous[x] = x
        BY <1>0, <3>4, <3>5 DEF StatesOK, ListsOK
      <3>8. allocated' = allocated
        BY <1>0, <1>2, <3>1
      <3>9. BoundOK'
        BY <3>8 DEF BoundOK, StatesOK
      <3>. QED BY <1>0, <1>2, <3>2, <3>6, <3>7, <3>9 DEF ListsOK
    <2>2. CASE links.next[free_anchor] = free_anchor
      <3>1. s \notin allocated
        <4>1. allocated # ThreadState /\ s = CHOOSE new \in ThreadState : new \notin allocated
          BY <1>0, <2>2 DEF IsFreeThreadState
        <4>2. \E new \in ThreadState : new \notin allocated
          BY <4>1 DEF StatesOK, StatesType
        <4>. QED BY <4>1, <4>2
      <3>2. FreeStates = {}
        BY <2>2, EmptyList DEF StatesOK, ListsOK, Anchor
      <3>3. links' = links
        BY <1>0, <3>1, UnlinkNew DEF StatesOK, ListsOK
      <3>4. ListsOK'
        BY <1>0, <1>2, <3>2, <3>3 DEF ListsOK, StatesOK
      <3>5. Cardinality(allocated) < Cardinality(Thread)
        BY <1>0, <3>2, RoomToAllocate DEF IsArchived
      <3>6. IsFiniteSet(allocated) /\ Cardinality(allocated) \in Nat /\ Cardinality(Thread) \in Nat
        BY FiniteAssumption, FS_Subset, FS_CardinalityType DEF StatesOK, StatesType
      <3>7. Cardinality(allocated') = Cardinality(allocated) + 1
        BY <1>0, <3>1, <3>6, OneMore
      <3>8. BoundOK'
        BY <3>5, <3>6, <3>7 DEF BoundOK
      <3>. QED BY <3>4, <3>8
    <2>. QED BY <2>1, <2>2
  <1>8. threadState'[t] # None /\ \A u \in Thread \ {t} : threadState'[u] = threadState[u]
    BY <1>0, DistinctAssumption DEF StatesOK, StatesType
  <1>. QED BY <1>0, <1>1, <1>3, <1>4, <1>5, <1>6, <1>7, <1>8 DEF StatesOK

(* What EagerlyArchived leaves, before a thread that takes the lock does     *)
(* anything with it: all threads' data are in the states in use.           *)
LEMMA EagerlyArchivedStates ==
    ASSUME StatesOK, mutexOwner = None
    PROVE  LET e == EagerlyArchived
           IN  /\ e.links \in LinksType
               /\ ListOK(e.links, free_anchor, FreeStates)
               /\ ListOK(e.links, in_use_anchor, Archived)
               /\ \A s \in ThreadState \ allocated :
                      e.links.next[s] = s /\ e.links.previous[s] = s
               /\ e.saved \in [ThreadState -> Area]
               /\ \A s \in ThreadState :
                      e.saved[s].data = IF s \in Archived THEN {id[s]} ELSE {}
               /\ e.live \in Area /\ e.live.data = {}
  <1>. DEFINE e == EagerlyArchived
  <1>. USE Partition
  <1>1. Blank \in Area /\ Blank.data = {}
    BY DEF Blank, Area
  <1>2. CASE lazilyArchived = None
    <2>1. e.links = links /\ e.saved = saved /\ e.live = live
      BY <1>2 DEF EagerlyArchived
    <2>2. InUse = Archived
      BY <1>2 DEF StatesOK, StatesType, InUse, Archived
    <2>3. live.data = {}
      BY <1>2 DEF StatesOK, DataOK
    <2>. QED BY <2>1, <2>2, <2>3 DEF StatesOK, StatesType, ListsOK, DataOK
  <1>3. CASE lazilyArchived # None
    <2>1. /\ e.links = LinkInto(links, lazyState, in_use_anchor)
          /\ e.saved = [saved EXCEPT ![lazyState] = live]
          /\ e.live = Blank
      BY <1>3 DEF EagerlyArchived
    <2>2. /\ lazyState \in ThreadState \ InUse /\ Archived = InUse \cup {lazyState}
          /\ lazyState \notin FreeStates /\ lazyState \in allocated
      BY <1>3 DEF StatesOK, StatesType, InUse, Archived
    <2>3. e.links \in LinksType /\ free_anchor \in Anchor /\ in_use_anchor \in Anchor
      BY <2>1, <2>2, LinkIntoType DEF Anchor
    <2>4. ListOK(e.links, in_use_anchor, Archived)
      BY <2>1, <2>2, <2>3, LinkIntoList DEF StatesOK, ListsOK
    <2>5. links.next[in_use_anchor] \in InUse \cup {in_use_anchor}
      BY DEF StatesOK, ListsOK, ListOK
    <2>6. \A x \in Node \ (Archived \cup {in_use_anchor}) :
             e.links.next[x] = links.next[x] /\ e.links.previous[x] = links.previous[x]
      BY <2>1, <2>2, <2>5 DEF LinkInto, LinksType
    <2>7. ListOK(e.links, free_anchor, FreeStates)
      <3>1. FreeStates \cup {free_anchor} \subseteq Node \ (Archived \cup {in_use_anchor})
        BY DistinctAssumption DEF Node, Anchor, Archived
      <3>. QED BY <2>3, <2>6, <3>1, ListUntouched DEF StatesOK, ListsOK
    <2>8. \A s \in ThreadState \ allocated :
             e.links.next[s] = s /\ e.links.previous[s] = s
      <3>1. ThreadState \ allocated \subseteq Node \ (Archived \cup {in_use_anchor})
        BY DistinctAssumption DEF Node, Anchor, Archived
      <3>. QED BY <2>6, <3>1 DEF StatesOK, ListsOK
    <2>9. live.data = {lazilyArchived}
      BY <1>3 DEF StatesOK, DataOK, LazyOK, StatesType
    <2>10. \A s \in ThreadState :
              e.saved[s].data = IF s \in Archived THEN {id[s]} ELSE {}
      BY <1>3, <2>1, <2>2, <2>9 DEF StatesOK, StatesType, DataOK
    <2>11. e.saved \in [ThreadState -> Area]
      <3>1. saved \in [ThreadState -> Area] /\ live \in Area
        BY DEF StatesOK, StatesType
      <3>2. [saved EXCEPT ![lazyState] = live] \in [ThreadState -> Area]
        BY <3>1
      <3>. QED BY <2>1, <3>2
    <2>. QED BY <1>1, <2>1, <2>3, <2>4, <2>7, <2>8, <2>10, <2>11
  <1>. QED BY <1>2, <1>3

LEMMA RestoreLazilyArchivedStates ==
    ASSUME StatesOK, NEW t \in Thread, mutexOwner = None, mutexOwner' = t,
           RestoreLazilyArchived(t)
    PROVE  StatesOK'
  <1>. USE Partition
  <1>. DEFINE s == lazyState
  <1>0. /\ lazilyArchived = t /\ threadState[t] = s
        /\ lazilyArchived' = None /\ lazyState' = None
        /\ threadState' = [threadState EXCEPT ![t] = None]
        /\ id' = [id EXCEPT ![s] = None]
        /\ links' = LinkInto(links, s, free_anchor)
        /\ UNCHANGED <<allocated, terminateOnRestore, saved, live>>
    BY DEF RestoreLazilyArchived
  <1>1. /\ s \in ThreadState /\ s \in Archived /\ id[s] = t /\ t # None
        /\ s \notin InUse /\ s \notin FreeStates
    BY <1>0 DEF StatesOK, StatesType, InUse, Archived
  <1>. HIDE DEF s
  <1>2. FreeStates' = FreeStates \cup {s} /\ InUse' = InUse
    BY <1>0, <1>1 DEF FreeStates, InUse, Archived, StatesOK, StatesType, s
  <1>3. StatesType'
    <2>1. links' \in LinksType
      BY <1>0, <1>1, LinkIntoType DEF Anchor
    <2>2. links' \in [next : Link, previous : Link]'
      BY <2>1 DEF LinksType, Link, Node
    <2>. QED BY <1>0, <1>1, <2>2 DEF StatesOK, StatesType
  <1>4. IdOK'
    <2>1. \A x \in ThreadState \ {s} : id[x] # None => id[x] # t
      BY <1>0, <1>1 DEF IdOK, StatesOK, StatesType
    <2>2. \A u \in Thread \ {t} : threadState[u] # None => threadState[u] # s
      BY <1>0, <1>1 DEF IdOK, StatesOK, StatesType
    <2>. QED BY <1>0, <1>1, <2>1, <2>2 DEF IdOK, StatesOK, StatesType
  <1>5. LazyOK'
    BY <1>0 DEF LazyOK
  <1>6. RequestOK'
    BY <1>0, <1>2 DEF RequestOK, StatesOK
  <1>7. DataOK'
    <2>1. live.data = {t}
      BY <1>0, <1>1 DEF DataOK, StatesOK
    <2>2. \A x \in InUse : id'[x] = id[x]
      BY <1>0, <1>1 DEF StatesOK, StatesType
    <2>. QED BY <1>0, <1>1, <1>2, <2>1, <2>2 DEF DataOK, StatesOK
  <1>8. ListsOK'
    <2>1. links' \in LinksType /\ free_anchor \in Anchor /\ in_use_anchor \in Anchor
      BY <1>0, <1>1, LinkIntoType DEF Anchor
    <2>2. ListOK(links', free_anchor, FreeStates \cup {s})
      BY <1>0, <1>1, <2>1, LinkIntoList DEF StatesOK, ListsOK
    <2>3. links.next[free_anchor] \in FreeStates \cup {free_anchor}
      BY DEF StatesOK, ListsOK, ListOK
    <2>4. \A x \in Node \ (FreeStates \cup {s, free_anchor}) :
             links'.next[x] = links.next[x] /\ links'.previous[x] = links.previous[x]
      BY <1>0, <1>1, <2>3 DEF LinkInto, LinksType
    <2>5. /\ InUse \cup {in_use_anchor} \subseteq Node \ (FreeStates \cup {s, free_anchor})
          /\ ThreadState \ allocated \subseteq Node \ (FreeStates \cup {s, free_anchor})
      BY <1>1, DistinctAssumption DEF Node, Anchor, Archived, FreeStates
    <2>6. ListOK(links', in_use_anchor, InUse)
      BY <2>1, <2>4, <2>5, ListUntouched DEF StatesOK, ListsOK
    <2>7. \A x \in ThreadState \ allocated : links'.next[x] = x /\ links'.previous[x] = x
      BY <2>4, <2>5 DEF StatesOK, ListsOK
    <2>. QED BY <1>0, <1>2, <2>2, <2>6, <2>7 DEF ListsOK
  <1>9. BoundOK'
    BY <1>0 DEF BoundOK, StatesOK
  <1>. QED BY <1>3, <1>4, <1>5, <1>6, <1>7, <1>8, <1>9 DEF StatesOK

LEMMA RestoreArchivedStates ==
    ASSUME StatesOK, NEW t \in Thread, mutexOwner = None, mutexOwner' = t,
           RestoreArchived(t)
    PROVE  StatesOK'
  <1>. DEFINE e == EagerlyArchived
              s == threadState[t]
              F == FreeStates \cup {s}
              U == Archived \ {s}
              k == Unlink(e.links, s)
  <1>. USE Partition
  <1>0. /\ s # None
        /\ live' = [e.saved[s] EXCEPT
                       !.flags = @ \cup IF terminateOnRestore[s] THEN {TERMINATE} ELSE {}]
        /\ threadState' = [threadState EXCEPT ![t] = None]
        /\ terminateOnRestore' = [terminateOnRestore EXCEPT ![s] = FALSE]
        /\ id' = [id EXCEPT ![s] = None]
        /\ links' = LinkInto(k, s, free_anchor)
        /\ saved' = [e.saved EXCEPT ![s] = Blank]
        /\ lazilyArchived' = None
        /\ lazyState' = None
        /\ UNCHANGED allocated
    BY DEF RestoreArchived, IsArchived
  <1>1. /\ e.links \in LinksType
        /\ ListOK(e.links, free_anchor, FreeStates)
        /\ ListOK(e.links, in_use_anchor, Archived)
        /\ \A x \in ThreadState \ allocated : e.links.next[x] = x /\ e.links.previous[x] = x
        /\ e.saved \in [ThreadState -> Area]
        /\ \A x \in ThreadState : e.saved[x].data = IF x \in Archived THEN {id[x]} ELSE {}
    BY EagerlyArchivedStates
  <1>2. s \in ThreadState /\ s \in Archived /\ id[s] = t /\ t # None /\ s \notin FreeStates
    BY <1>0 DEF StatesOK, StatesType, IdOK, Archived
  <1>3. free_anchor \in Anchor /\ in_use_anchor \in Anchor /\ k \in LinksType /\ links' \in LinksType
    BY <1>0, <1>1, <1>2, UnlinkType, LinkIntoType DEF Anchor
  <1>. HIDE DEF e, s, k
  <1>4. FreeStates' = F /\ InUse' = U
    BY <1>0, <1>2 DEF FreeStates, InUse, Archived, StatesOK, StatesType
  <1>5. StatesType'
    <2>1. links' \in [next : Link, previous : Link]'
      BY <1>3 DEF LinksType, Link, Node
    <2>2. saved' \in [ThreadState -> Area]
      <3>1. Blank \in Area
        BY DEF Blank, Area
      <3>. QED BY <1>0, <1>1, <3>1
    <2>3. live' \in Area
      <3>1. e.saved[s] \in Area
        BY <1>1, <1>2
      <3>. QED BY <1>0, <3>1 DEF Area, Interrupt
    <2>. QED BY <1>0, <1>2, <2>1, <2>2, <2>3 DEF StatesOK, StatesType
  <1>6. IdOK'
    <2>1. \A x \in ThreadState \ {s} : id[x] # None => id[x] # t
      BY <1>2 DEF IdOK, StatesOK, StatesType, s
    <2>2. \A u \in Thread \ {t} : threadState[u] # None => threadState[u] # s
      BY <1>2 DEF IdOK, StatesOK, StatesType
    <2>. QED BY <1>0, <1>2, <2>1, <2>2 DEF IdOK, StatesOK, StatesType
  <1>7. LazyOK'
    BY <1>0 DEF LazyOK
  <1>8. RequestOK'
    BY <1>0, <1>2, <1>4 DEF RequestOK, StatesOK, StatesType
  <1>9. DataOK'
    <2>1. live'.data = {t}
      <3>1. e.saved[s] \in Area /\ e.saved[s].data = {t}
        BY <1>1, <1>2
      <3>. QED BY <1>0, <3>1 DEF Area
    <2>2. \A x \in ThreadState : saved'[x].data = IF x \in U THEN {id'[x]} ELSE {}
      BY <1>0, <1>1, <1>2 DEF Blank, StatesOK, StatesType
    <2>. QED BY <1>0, <1>2, <1>4, <2>1, <2>2 DEF DataOK
  <1>10. ListsOK'
    <2>1. ListOK(k, in_use_anchor, U)
      BY <1>1, <1>2, <1>3, UnlinkMember DEF k
    <2>2. /\ e.links.next[s] \in Archived \cup {in_use_anchor}
          /\ e.links.previous[s] \in Archived \cup {in_use_anchor}
      BY <1>1, <1>2 DEF ListOK
    <2>3. \A x \in Node \ (Archived \cup {in_use_anchor}) :
             k.next[x] = e.links.next[x] /\ k.previous[x] = e.links.previous[x]
      BY <1>1, <2>2 DEF Unlink, LinksType, k
    <2>4. /\ FreeStates \cup {free_anchor} \subseteq Node \ (Archived \cup {in_use_anchor})
          /\ U \cup {in_use_anchor} \subseteq Node \ (F \cup {free_anchor})
          /\ ThreadState \ allocated \subseteq
                 (Node \ (Archived \cup {in_use_anchor})) \ (F \cup {free_anchor})
      BY <1>2, DistinctAssumption DEF Node, Anchor, Archived, FreeStates
    <2>5. ListOK(k, free_anchor, FreeStates)
      BY <1>1, <1>3, <2>3, <2>4, ListUntouched
    <2>6. ListOK(links', free_anchor, F)
      BY <1>0, <1>2, <1>3, <2>5, LinkIntoList
    <2>7. k.next[free_anchor] \in FreeStates \cup {free_anchor}
      BY <2>5 DEF ListOK
    <2>8. \A x \in Node \ (F \cup {free_anchor}) :
             links'.next[x] = k.next[x] /\ links'.previous[x] = k.previous[x]
      BY <1>0, <1>2, <1>3, <2>7 DEF LinkInto, LinksType
    <2>9. ListOK(links', in_use_anchor, U)
      BY <1>3, <2>1, <2>4, <2>8, ListUntouched
    <2>10. \A x \in ThreadState \ allocated : links'.next[x] = x /\ links'.previous[x] = x
      BY <1>1, <2>3, <2>4, <2>8
    <2>. QED BY <1>0, <1>4, <2>6, <2>9, <2>10 DEF ListsOK
  <1>11. BoundOK'
    BY <1>0 DEF BoundOK, StatesOK
  <1>. QED BY <1>5, <1>6, <1>7, <1>8, <1>9, <1>10, <1>11 DEF StatesOK

(* RestoreThread, both ways. *)
LEMMA RestoreStates ==
    ASSUME StatesOK, NEW t \in Thread, mutexOwner = None, mutexOwner' = t,
           RestoreThread(t)
    PROVE  /\ StatesOK'
           /\ threadState[t] # None /\ threadState'[t] = None
           /\ \A u \in Thread \ {t} : threadState'[u] = threadState[u]
  <1>1. StatesOK'
    BY RestoreLazilyArchivedStates, RestoreArchivedStates DEF RestoreThread
  <1>2. threadState[t] # None
    BY Partition DEF RestoreThread, RestoreLazilyArchived, RestoreArchived, IsArchived,
                     StatesOK, StatesType
  <1>3. threadState' = [threadState EXCEPT ![t] = None]
    BY DEF RestoreThread, RestoreLazilyArchived, RestoreArchived
  <1>. QED BY <1>1, <1>2, <1>3 DEF StatesOK, StatesType

LEMMA InitNewStates ==
    ASSUME StatesOK, NEW t \in Thread, mutexOwner = None, mutexOwner' = t,
           InitNewThread(t)
    PROVE  StatesOK' /\ threadState[t] = None /\ UNCHANGED threadState
  <1>. DEFINE e == EagerlyArchived
  <1>. USE Partition
  <1>0. /\ threadState[t] = None
        /\ live' = [data |-> e.live.data \cup {t}, flags |-> {}]
        /\ links' = e.links
        /\ saved' = e.saved
        /\ lazilyArchived' = None
        /\ lazyState' = None
        /\ UNCHANGED <<threadState, allocated, id, terminateOnRestore>>
    BY DEF InitNewThread, IsArchived
  <1>1. /\ e.links \in LinksType
        /\ ListOK(e.links, free_anchor, FreeStates)
        /\ ListOK(e.links, in_use_anchor, Archived)
        /\ \A x \in ThreadState \ allocated : e.links.next[x] = x /\ e.links.previous[x] = x
        /\ e.saved \in [ThreadState -> Area]
        /\ \A x \in ThreadState : e.saved[x].data = IF x \in Archived THEN {id[x]} ELSE {}
        /\ e.live.data = {}
    BY EagerlyArchivedStates
  <1>. HIDE DEF e
  <1>2. FreeStates' = FreeStates /\ InUse' = Archived
    BY <1>0 DEF FreeStates, InUse, Archived, StatesOK, StatesType
  <1>3. live'.data = {t} /\ live' \in Area
    BY <1>0, <1>1 DEF Area
  <1>4. StatesType'
    <2>1. links' \in [next : Link, previous : Link]'
      BY <1>0, <1>1 DEF LinksType, Link, Node
    <2>. QED BY <1>0, <1>1, <1>3, <2>1 DEF StatesOK, StatesType
  <1>5. IdOK' /\ LazyOK' /\ BoundOK'
    BY <1>0 DEF IdOK, LazyOK, BoundOK, StatesOK
  <1>6. RequestOK'
    BY <1>0, <1>2 DEF RequestOK, StatesOK
  <1>7. DataOK'
    BY <1>0, <1>1, <1>2, <1>3 DEF DataOK
  <1>8. ListsOK'
    BY <1>0, <1>1, <1>2 DEF ListsOK
  <1>. QED BY <1>0, <1>4, <1>5, <1>6, <1>7, <1>8 DEF StatesOK

(* The steps that leave the states' lists alone. *)
LEMMA FlagStates ==
    ASSUME StatesOK, UNCHANGED <<mutexOwner, stateVars, lazyVars>>,
           live' \in Area, live'.data = live.data
    PROVE  StatesOK'
  BY DEF StatesOK, StatesType, IdOK, LazyOK, ListsOK, ListOK, RequestOK, DataOK, BoundOK,
         FreeStates, InUse, Link, stateVars, lazyVars

LEMMA FreeResourcesStates ==
    ASSUME StatesOK, NEW t \in Thread, mutexOwner = t, FreeThreadResources
    PROVE  StatesOK' /\ mutexOwner' = None /\ UNCHANGED threadState
  <1>0. /\ live' = [live EXCEPT !.data = {}] /\ mutexOwner' = None
        /\ UNCHANGED <<allocated, links, id, terminateOnRestore, saved,
                       lazilyArchived, lazyState, threadState>>
    BY DEF FreeThreadResources, stateVars, lazyVars
  <1>1. lazilyArchived = None
    BY DistinctAssumption DEF StatesOK, LazyOK
  <1>2. live' \in Area /\ live'.data = {}
    BY <1>0 DEF StatesOK, StatesType, Area
  <1>3. StatesType' /\ DataOK' /\ LazyOK'
    BY <1>0, <1>1, <1>2 DEF StatesOK, StatesType, DataOK, LazyOK, InUse, Link
  <1>4. IdOK' /\ ListsOK' /\ RequestOK' /\ BoundOK'
    BY <1>0 DEF StatesOK, IdOK, ListsOK, ListOK, RequestOK, BoundOK, FreeStates, InUse
  <1>. QED BY <1>0, <1>3, <1>4 DEF StatesOK

LEMMA InUseMembers ==
    ASSUME StatesOK
    PROVE  Members(in_use_anchor) = InUse /\ Members(free_anchor) = FreeStates
  BY Partition, MembersOfList DEF StatesOK, ListsOK, Anchor

LEMMA TerminateStates ==
    ASSUME StatesOK, NEW t \in Thread, NEW target \in Thread, TerminateExecution(t, target)
    PROVE  StatesOK' /\ UNCHANGED <<mutexOwner, threadState>>
  <1>1. CASE target = t
    <2>1. /\ live' = [live EXCEPT !.flags = @ \cup {TERMINATE}]
          /\ UNCHANGED <<mutexOwner, stateVars, lazyVars>>
      BY <1>1 DEF TerminateExecution, stateVars, lazyVars
    <2>2. live' \in Area /\ live'.data = live.data
      BY <2>1 DEF StatesOK, StatesType, Area, Interrupt
    <2>. QED BY <2>1, <2>2, FlagStates DEF lazyVars
  <1>2. CASE target # t
    <2>1. /\ terminateOnRestore' =
                 [s \in ThreadState |->
                     \/ terminateOnRestore[s]
                     \/ s \in Members(in_use_anchor) /\ id[s] = target]
          /\ UNCHANGED <<mutexOwner, allocated, links, id, saved, lazilyArchived,
                         lazyState, threadState, live>>
      BY <1>2 DEF TerminateExecution, lazyVars
    <2>2. terminateOnRestore' \in [ThreadState -> BOOLEAN] /\ RequestOK'
      BY <2>1, InUseMembers DEF StatesOK, StatesType, RequestOK, InUse
    <2>3. StatesType'
      BY <2>1, <2>2 DEF StatesOK, StatesType, Link
    <2>4. IdOK' /\ LazyOK' /\ ListsOK' /\ DataOK' /\ BoundOK'
      BY <2>1 DEF StatesOK, IdOK, LazyOK, ListsOK, ListOK, DataOK, BoundOK, FreeStates, InUse
    <2>. QED BY <2>1, <2>2, <2>3, <2>4 DEF StatesOK
  <1>. QED BY <1>1, <1>2

-----------------------------------------------------------------------------
(* What the steps do to the stacks of scopes. *)

(* A step of t; the others keep their scopes and do not get the lock.       *)
LEMMA OneThread ==
    ASSUME ThreadsOK, NEW t \in Thread, ThreadsType', ThreadOK(t)',
           \A u \in Thread \ {t} :
               /\ scopes'[u] = scopes[u] /\ pc'[u] = pc[u]
               /\ threadState'[u] = threadState[u]
               /\ mutexOwner' = u <=> mutexOwner = u
    PROVE  ThreadsOK'
  <1>1. ASSUME NEW u \in Thread \ {t} PROVE ThreadOK(u)'
    BY DEF ThreadsOK, ThreadOK, Holding, Inner
  <1>. QED BY <1>1 DEF ThreadsOK

(* An interrupt or the switcher's doing. *)
LEMMA NoThread ==
    ASSUME ThreadsOK, UNCHANGED <<scopes, pc, mutexOwner, threadState>>,
           switcher' \in {"none", "running", "stopping", "exited"}
    PROVE  ThreadsOK'
  BY DEF ThreadsOK, ThreadsType, ThreadOK, Holding, Inner

LEMMA PushThread ==
    ASSUME ThreadsType, NEW t \in Thread, NEW e \in Scope, scopes' = Push(t, e)
    PROVE  /\ scopes[t] \in Seq(Scope) /\ scopes'[t] = Append(scopes[t], e)
           /\ \A u \in Thread \ {t} : scopes'[u] = scopes[u]
           /\ scopes' \in [Thread -> Seq(Scope)]
  <1>1. scopes[t] \in Seq(Scope) /\ Append(scopes[t], e) \in Seq(Scope)
    BY DEF ThreadsType
  <1>. QED BY <1>1 DEF ThreadsType, Push

LEMMA PopThread ==
    ASSUME ThreadsOK, NEW t \in Thread, scopes[t] # <<>>, scopes' = Pop(t)
    PROVE  /\ scopes' \in [Thread -> Seq(Scope)]
           /\ \A u \in Thread \ {t} : scopes'[u] = scopes[u]
           /\ StackOK(scopes'[t])
           /\ scopes'[t] = <<>> <=> Len(scopes[t]) = 1
           /\ Len(scopes[t]) > 1 =>
                  scopes'[t][Len(scopes'[t])] = scopes[t][Len(scopes[t]) - 1]
  <1>. DEFINE q == scopes[t]
              r == SubSeq(q, 1, Len(q) - 1)
  <1>1. q \in Seq(Scope) /\ q # <<>> /\ StackOK(q)
    BY DEF ThreadsOK, ThreadsType, ThreadOK
  <1>2. /\ r \in Seq(Scope) /\ StackOK(r)
        /\ r = <<>> <=> Len(q) = 1
        /\ Len(q) > 1 => r[Len(r)] = q[Len(q) - 1]
    BY <1>1, StackPop
  <1>3. scopes'[t] = r /\ \A u \in Thread \ {t} : scopes'[u] = scopes[u]
    BY DEF ThreadsOK, ThreadsType, Pop
  <1>4. scopes' \in [Thread -> Seq(Scope)]
    BY <1>2 DEF ThreadsOK, ThreadsType, Pop
  <1>. QED BY <1>2, <1>3, <1>4 DEF Inner

(* What the innermost scope of a thread says of the one around it. *)
LEMMA InnerScope ==
    ASSUME ThreadsOK, NEW t \in Thread, scopes[t] # <<>>
    PROVE  /\ Inner(t).kind \in {"locker", "unlocker"}
           /\ Len(scopes[t]) \in Nat /\ Len(scopes[t]) > 0
           /\ Inner(t).kind = "unlocker" =>
                  Len(scopes[t]) > 1 /\ scopes[t][Len(scopes[t]) - 1].kind = "locker"
           /\ Inner(t).kind = "locker" /\ ~Inner(t).has_lock =>
                  Len(scopes[t]) > 1 /\ scopes[t][Len(scopes[t]) - 1].kind = "locker"
           /\ Inner(t).kind = "locker" /\ Inner(t).has_lock =>
                  /\ Inner(t).top_level <=> Len(scopes[t]) = 1
                  /\ Len(scopes[t]) > 1 => scopes[t][Len(scopes[t]) - 1].kind = "unlocker"
  <1>1. scopes[t] \in Seq(Scope) /\ StackOK(scopes[t])
    BY DEF ThreadsOK, ThreadsType, ThreadOK
  <1>2. Len(scopes[t]) \in Nat /\ Len(scopes[t]) > 0
    BY <1>1
  <1>3. Len(scopes[t]) \in 1 .. Len(scopes[t])
    BY <1>2
  <1>4. Inner(t).kind \in {"locker", "unlocker"}
    BY <1>1, <1>3, ScopeType DEF Inner
  <1>. QED BY <1>1, <1>2, <1>3, <1>4 DEF StackOK, Inner

LEMMA MoreThanOne == \A n \in Nat : n > 1 <=> n > 0 /\ n # 1
  OBVIOUS

LEMMA LockerIsLocker ==
    /\ \A h, l \in BOOLEAN :
           /\ Locker(h, l).kind = "locker" /\ Locker(h, l).has_lock = h
           /\ Locker(h, l).top_level = l
    /\ Unlocker.kind = "unlocker"
  BY DEF Locker, Unlocker

LEMMA NestedLockerStep ==
    ASSUME Inv, NEW t \in Thread, NestedLocker(t)
    PROVE  Inv'
  <1>0. /\ pc[t] = "run" /\ mutexOwner = t /\ scopes' = Push(t, Locker(FALSE, TRUE))
        /\ UNCHANGED <<mutexOwner, stateVars, lazyVars, live, pc, switcher, threadState>>
    BY DEF NestedLocker, At, IsLockedByCurrentThread, lazyVars
  <1>1. StatesOK'
    BY <1>0, FlagStates DEF Inv, StatesOK, StatesType
  <1>2. Locker(FALSE, TRUE) \in Scope /\ Locker(FALSE, TRUE).kind = "locker"
        /\ Locker(FALSE, TRUE).has_lock = FALSE
    BY ScopeType, LockerIsLocker
  <1>. DEFINE e == Locker(FALSE, TRUE)
  <1>. HIDE DEF e
  <1>3. /\ scopes[t] \in Seq(Scope) /\ scopes'[t] = Append(scopes[t], e)
        /\ \A u \in Thread \ {t} : scopes'[u] = scopes[u]
        /\ scopes' \in [Thread -> Seq(Scope)]
    BY <1>0, <1>2, PushThread DEF Inv, ThreadsOK, e
  <1>4. Holding(t, "locker") /\ StackOK(scopes[t])
    BY <1>0 DEF Inv, ThreadsOK, ThreadOK
  <1>5. /\ StackOK(scopes'[t]) /\ scopes'[t] # <<>>
        /\ scopes'[t][Len(scopes'[t])] = e
    BY <1>2, <1>3, <1>4, StackPush DEF Holding, Inner, e
  <1>6. Holding(t, "locker")'
    BY <1>2, <1>5 DEF Holding, Inner, e
  <1>7. ThreadOK(t)'
    BY <1>0, <1>5, <1>6 DEF ThreadOK, Inv, ThreadsOK
  <1>8. ThreadsType'
    BY <1>0, <1>3 DEF ThreadsType, Inv, ThreadsOK
  <1>9. ThreadsOK'
    BY <1>0, <1>3, <1>7, <1>8, OneThread DEF Inv
  <1>. QED BY <1>1, <1>9 DEF Inv

LEMMA LockerInitializeStep ==
    ASSUME Inv, NEW t \in Thread, LockerInitialize(t)
    PROVE  Inv'
  <1>0. pc[t] = "run" /\ mutexOwner = None /\ mutexOwner' = t /\ UNCHANGED switcher /\ t # None
        /\ None \notin Thread
    BY DistinctAssumption DEF LockerInitialize, At
  <1>a. ThreadOK(t) /\ ThreadsType /\ ThreadsOK /\ StatesOK
    BY DEF Inv, ThreadsOK
  <1>1. CASE /\ RestoreThread(t) /\ scopes' = Push(t, Locker(TRUE, FALSE)) /\ UNCHANGED pc
    <2>. DEFINE e == Locker(TRUE, FALSE)
    <2>1. /\ StatesOK' /\ threadState[t] # None /\ threadState'[t] = None
          /\ \A u \in Thread \ {t} : threadState'[u] = threadState[u]
      BY <1>0, <1>1, <1>a, RestoreStates
    <2>2. scopes[t] # <<>> /\ Inner(t).kind = "unlocker"
      <3>1. scopes[t] # <<>> /\ ~Holding(t, "locker")
        BY <1>0, <1>a, <2>1 DEF ThreadOK
      <3>. QED BY <1>a, <3>1, InnerScope DEF Holding
    <2>3. e \in Scope /\ e.kind = "locker" /\ e.has_lock /\ ~e.top_level
      BY ScopeType, LockerIsLocker
    <2>. HIDE DEF e
    <2>4. /\ scopes[t] \in Seq(Scope) /\ scopes'[t] = Append(scopes[t], e)
          /\ \A u \in Thread \ {t} : scopes'[u] = scopes[u]
          /\ scopes' \in [Thread -> Seq(Scope)]
      BY <1>1, <1>a, <2>3, PushThread DEF e
    <2>5. /\ StackOK(scopes'[t]) /\ scopes'[t] # <<>>
          /\ scopes'[t][Len(scopes'[t])] = e
      BY <1>a, <2>2, <2>3, <2>4, StackPush DEF Inner, ThreadOK
    <2>6. Holding(t, "locker")'
      BY <2>3, <2>5 DEF Holding, Inner
    <2>7. ThreadOK(t)'
      BY <1>0, <1>1, <1>a, <2>1, <2>5, <2>6 DEF ThreadOK, ThreadsType
    <2>8. ThreadsType'
      BY <1>0, <1>1, <1>a, <2>4 DEF ThreadsType
    <2>9. ThreadsOK'
      BY <1>0, <1>1, <1>a, <2>1, <2>4, <2>7, <2>8, OneThread
    <2>. QED BY <2>1, <2>9 DEF Inv
  <1>2. CASE /\ InitNewThread(t) /\ Goto(t, "clearing") /\ UNCHANGED scopes
    <2>1. StatesOK' /\ threadState[t] = None /\ UNCHANGED threadState
      BY <1>0, <1>2, <1>a, InitNewStates
    <2>2. /\ pc'[t] = "clearing" /\ \A u \in Thread \ {t} : pc'[u] = pc[u]
          /\ ThreadsType'
      BY <1>0, <1>2, <1>a DEF Goto, ThreadsType
    <2>3. scopes[t] = <<>>
      BY <1>0, <1>a, <2>1 DEF ThreadOK
    <2>4. ThreadOK(t)'
      BY <1>0, <1>2, <1>a, <2>1, <2>2, <2>3 DEF ThreadOK
    <2>5. ThreadsOK'
      BY <1>0, <1>2, <1>a, <2>1, <2>2, <2>4, OneThread
    <2>. QED BY <2>1, <2>5 DEF Inv
  <1>. QED BY <1>1, <1>2 DEF LockerInitialize

LEMMA ClearThreadStep ==
    ASSUME Inv, NEW t \in Thread, ClearThread(t)
    PROVE  Inv'
  <1>. DEFINE e == Locker(TRUE, TRUE)
  <1>a. ThreadOK(t) /\ ThreadsType /\ ThreadsOK /\ StatesOK
    BY DEF Inv, ThreadsOK
  <1>0. /\ pc[t] = "clearing" /\ scopes' = Push(t, e) /\ pc' = [pc EXCEPT ![t] = "run"]
        /\ live' = [live EXCEPT !.flags = {}]
        /\ UNCHANGED <<mutexOwner, stateVars, lazyVars, switcher, threadState>>
    BY DEF ClearThread, At, Goto, lazyVars
  <1>1. StatesOK'
    <2>1. live' \in Area /\ live'.data = live.data
      BY <1>0, <1>a DEF StatesOK, StatesType, Area
    <2>. QED BY <1>0, <1>a, <2>1, FlagStates
  <1>2. e \in Scope /\ e.kind = "locker" /\ e.has_lock /\ e.top_level
    BY ScopeType, LockerIsLocker
  <1>. HIDE DEF e
  <1>3. /\ scopes[t] \in Seq(Scope) /\ scopes'[t] = Append(scopes[t], e)
        /\ \A u \in Thread \ {t} : scopes'[u] = scopes[u]
        /\ scopes' \in [Thread -> Seq(Scope)]
    BY <1>0, <1>2, <1>a, PushThread
  <1>4. scopes[t] = <<>> /\ mutexOwner = t /\ threadState[t] = None
    BY <1>0, <1>a DEF ThreadOK
  <1>5. /\ StackOK(scopes'[t]) /\ scopes'[t] # <<>>
        /\ scopes'[t][Len(scopes'[t])] = e
    BY <1>2, <1>3, <1>4, <1>a, StackPush DEF ThreadOK
  <1>6. Holding(t, "locker")'
    BY <1>2, <1>5 DEF Holding, Inner
  <1>7. /\ pc'[t] = "run" /\ \A u \in Thread \ {t} : pc'[u] = pc[u]
        /\ ThreadsType'
    BY <1>0, <1>3, <1>a DEF ThreadsType
  <1>8. ThreadOK(t)'
    BY <1>0, <1>4, <1>5, <1>6, <1>7 DEF ThreadOK
  <1>9. ThreadsOK'
    BY <1>0, <1>3, <1>7, <1>8, <1>a, OneThread
  <1>. QED BY <1>1, <1>9 DEF Inv

LEMMA DestroyLockerStep ==
    ASSUME Inv, NEW t \in Thread, DestroyLocker(t)
    PROVE  Inv'
  <1>a. ThreadOK(t) /\ ThreadsType /\ ThreadsOK /\ StatesOK
    BY DEF Inv, ThreadsOK
  <1>0. /\ pc[t] = "run" /\ Holding(t, "locker") /\ scopes' = Pop(t)
        /\ UNCHANGED <<pc, switcher>> /\ t # None
    BY DistinctAssumption DEF DestroyLocker, At
  <1>1. mutexOwner = t /\ threadState[t] = None /\ scopes[t] # <<>> /\ Inner(t).kind = "locker"
    BY <1>0, <1>a DEF ThreadOK, Holding
  <1>2. /\ scopes' \in [Thread -> Seq(Scope)]
        /\ \A u \in Thread \ {t} : scopes'[u] = scopes[u]
        /\ StackOK(scopes'[t])
        /\ scopes'[t] = <<>> <=> Len(scopes[t]) = 1
        /\ Len(scopes[t]) > 1 =>
                  scopes'[t][Len(scopes'[t])] = scopes[t][Len(scopes[t]) - 1]
    BY <1>0, <1>1, <1>a, PopThread
  <1>3. ThreadsType'
    BY <1>0, <1>2, <1>a DEF ThreadsType
  <1>4. /\ Len(scopes[t]) \in Nat /\ Len(scopes[t]) > 0
        /\ ~Inner(t).has_lock =>
               Len(scopes[t]) > 1 /\ scopes[t][Len(scopes[t]) - 1].kind = "locker"
        /\ Inner(t).has_lock =>
               /\ Inner(t).top_level <=> Len(scopes[t]) = 1
               /\ Len(scopes[t]) > 1 => scopes[t][Len(scopes[t]) - 1].kind = "unlocker"
    BY <1>1, <1>a, InnerScope
  <1>5. CASE ~Inner(t).has_lock /\ UNCHANGED <<mutexOwner, stateVars, lazyVars, live>>
    <2>1. StatesOK'
      BY <1>5, <1>a, FlagStates DEF StatesOK, StatesType
    <2>2. scopes'[t] # <<>> /\ Holding(t, "locker")'
      BY <1>2, <1>4, <1>5 DEF Holding, Inner
    <2>3. ThreadOK(t)'
      BY <1>0, <1>1, <1>2, <1>5, <2>2 DEF ThreadOK, lazyVars
    <2>4. ThreadsOK'
      BY <1>0, <1>2, <1>3, <1>5, <1>a, <2>3, OneThread DEF lazyVars
    <2>. QED BY <2>1, <2>4 DEF Inv
  <1>6. CASE Inner(t).has_lock /\ Inner(t).top_level /\ FreeThreadResources
    <2>1. StatesOK' /\ mutexOwner' = None /\ UNCHANGED threadState
      BY <1>1, <1>6, <1>a, FreeResourcesStates
    <2>2. scopes'[t] = <<>>
      BY <1>2, <1>4, <1>6
    <2>3. ThreadOK(t)'
      BY <1>0, <1>1, <1>2, <2>1, <2>2 DEF ThreadOK, Holding
    <2>4. \A u \in Thread : None # u
      BY DistinctAssumption
    <2>5. ThreadsOK'
      BY <1>0, <1>1, <1>2, <1>3, <1>a, <2>1, <2>3, <2>4, OneThread
    <2>. QED BY <2>1, <2>5 DEF Inv
  <1>7. CASE Inner(t).has_lock /\ ~Inner(t).top_level /\ ArchiveThread(t) /\ UNCHANGED live
    <2>1. /\ StatesOK' /\ mutexOwner' = None
          /\ threadState'[t] # None
          /\ \A u \in Thread \ {t} : threadState'[u] = threadState[u]
      BY <1>1, <1>7, <1>a, ArchiveStates DEF StatesOK, StatesType
    <2>0. Len(scopes[t]) > 1 /\ Len(scopes[t]) # 1
      BY <1>4, <1>7, MoreThanOne, Zenon
    <2>2. scopes'[t] # <<>> /\ ~Holding(t, "locker")'
      BY <1>2, <1>4, <1>7, <2>0, Zenon DEF Holding, Inner
    <2>3. ThreadOK(t)'
      BY <1>0, <1>2, <2>1, <2>2 DEF ThreadOK
    <2>4. \A u \in Thread : None # u
      BY DistinctAssumption
    <2>5. ThreadsOK'
      BY <1>0, <1>1, <1>2, <1>3, <1>a, <2>1, <2>3, <2>4, OneThread
    <2>. QED BY <2>1, <2>5 DEF Inv
  <1>. QED BY <1>5, <1>6, <1>7 DEF DestroyLocker

LEMMA UnlockerInitializeStep ==
    ASSUME Inv, NEW t \in Thread, UnlockerInitialize(t)
    PROVE  Inv'
  <1>a. ThreadOK(t) /\ ThreadsType /\ ThreadsOK /\ StatesOK
    BY DEF Inv, ThreadsOK
  <1>0. /\ pc[t] = "run" /\ mutexOwner = t /\ ArchiveThread(t) /\ scopes' = Push(t, Unlocker)
        /\ UNCHANGED <<live, pc, switcher>> /\ \A u \in Thread : None # u
    BY DistinctAssumption DEF UnlockerInitialize, At, IsLockedByCurrentThread
  <1>1. /\ StatesOK' /\ mutexOwner' = None
        /\ threadState'[t] # None
        /\ \A u \in Thread \ {t} : threadState'[u] = threadState[u]
    BY <1>0, <1>a, ArchiveStates DEF StatesOK, StatesType
  <1>2. /\ scopes[t] \in Seq(Scope) /\ scopes'[t] = Append(scopes[t], Unlocker)
        /\ \A u \in Thread \ {t} : scopes'[u] = scopes[u]
        /\ scopes' \in [Thread -> Seq(Scope)]
    BY <1>0, <1>a, ScopeType, PushThread
  <1>3. Holding(t, "locker") /\ StackOK(scopes[t])
    BY <1>0, <1>a DEF ThreadOK
  <1>4. /\ StackOK(scopes'[t]) /\ scopes'[t] # <<>>
        /\ scopes'[t][Len(scopes'[t])] = Unlocker
    BY <1>2, <1>3, ScopeType, LockerIsLocker, StackPush DEF Holding, Inner
  <1>5. ~Holding(t, "locker")'
    BY <1>4, LockerIsLocker DEF Holding, Inner
  <1>6. ThreadOK(t)'
    BY <1>0, <1>1, <1>4, <1>5 DEF ThreadOK
  <1>7. ThreadsType'
    BY <1>0, <1>2, <1>a DEF ThreadsType
  <1>8. ThreadsOK'
    BY <1>0, <1>1, <1>2, <1>6, <1>7, <1>a, OneThread
  <1>. QED BY <1>1, <1>8 DEF Inv

LEMMA DestroyUnlockerStep ==
    ASSUME Inv, NEW t \in Thread, DestroyUnlocker(t)
    PROVE  Inv'
  <1>a. ThreadOK(t) /\ ThreadsType /\ ThreadsOK /\ StatesOK
    BY DEF Inv, ThreadsOK
  <1>0. /\ pc[t] = "run" /\ Holding(t, "unlocker") /\ mutexOwner = None /\ mutexOwner' = t
        /\ RestoreThread(t) /\ scopes' = Pop(t)
        /\ UNCHANGED <<pc, switcher>> /\ \A u \in Thread : None # u
    BY DistinctAssumption DEF DestroyUnlocker, At
  <1>1. /\ StatesOK' /\ threadState'[t] = None
        /\ \A u \in Thread \ {t} : threadState'[u] = threadState[u]
    BY <1>0, <1>a, RestoreStates
  <1>2. scopes[t] # <<>> /\ Inner(t).kind = "unlocker"
    BY <1>0 DEF Holding
  <1>3. /\ scopes' \in [Thread -> Seq(Scope)]
        /\ \A u \in Thread \ {t} : scopes'[u] = scopes[u]
        /\ StackOK(scopes'[t])
        /\ scopes'[t] = <<>> <=> Len(scopes[t]) = 1
        /\ Len(scopes[t]) > 1 =>
                  scopes'[t][Len(scopes'[t])] = scopes[t][Len(scopes[t]) - 1]
    BY <1>0, <1>2, <1>a, PopThread
  <1>4. Len(scopes[t]) \in Nat /\ Len(scopes[t]) > 1
        /\ scopes[t][Len(scopes[t]) - 1].kind = "locker"
    BY <1>2, <1>a, InnerScope
  <1>5. scopes'[t] # <<>> /\ Holding(t, "locker")'
    <2>1. Len(scopes[t]) # 1
      BY <1>4, MoreThanOne, Zenon
    <2>. QED BY <1>3, <1>4, <2>1, Zenon DEF Holding, Inner
  <1>6. ThreadOK(t)'
    BY <1>0, <1>1, <1>3, <1>5 DEF ThreadOK
  <1>7. ThreadsType'
    BY <1>0, <1>3, <1>a DEF ThreadsType
  <1>8. ThreadsOK'
    BY <1>0, <1>1, <1>3, <1>6, <1>7, <1>a, OneThread
  <1>. QED BY <1>1, <1>8 DEF Inv

LEMMA HandleStackGuardInterruptStep ==
    ASSUME Inv, NEW t \in Thread, HandleStackGuardInterrupt(t)
    PROVE  Inv'
  <1>a. ThreadOK(t) /\ ThreadsType /\ ThreadsOK /\ StatesOK
    BY DEF Inv, ThreadsOK
  <1>0. /\ pc[t] = "run" /\ mutexOwner = t /\ UNCHANGED <<scopes, switcher>>
        /\ \A u \in Thread : None # u
    BY DistinctAssumption DEF HandleStackGuardInterrupt, At, IsLockedByCurrentThread
  <1>1. Holding(t, "locker") /\ scopes[t] # <<>> /\ threadState[t] = None
    BY <1>0, <1>a DEF ThreadOK, Holding
  <1>2. CASE /\ pc' = [pc EXCEPT ![t] = "preempted"]
             /\ UNCHANGED <<mutexOwner, stateVars, lazyVars, live>>
    <2>1. StatesOK'
      BY <1>2, <1>a, FlagStates DEF StatesOK, StatesType
    <2>2. ThreadsType' /\ pc'[t] = "preempted" /\ \A u \in Thread \ {t} : pc'[u] = pc[u]
      BY <1>0, <1>2, <1>a DEF ThreadsType
    <2>3. ThreadOK(t)'
      BY <1>0, <1>1, <1>2, <1>a, <2>2 DEF ThreadOK, Holding, Inner, lazyVars
    <2>4. ThreadsOK'
      BY <1>0, <1>2, <1>a, <2>2, <2>3, OneThread DEF lazyVars
    <2>. QED BY <2>1, <2>4 DEF Inv
  <1>3. CASE /\ ArchiveThread(t) /\ pc' = [pc EXCEPT ![t] = "yield"]
             /\ live' = [live EXCEPT !.flags = @ \ {PREEMPT}]
    <2>1. live' \in Area /\ live'.data = live.data
      BY <1>3, <1>a DEF StatesOK, StatesType, Area
    <2>2. /\ StatesOK' /\ mutexOwner' = None
          /\ threadState'[t] # None
          /\ \A u \in Thread \ {t} : threadState'[u] = threadState[u]
      BY <1>0, <1>3, <1>a, <2>1, ArchiveStates
    <2>3. ThreadsType' /\ pc'[t] = "yield" /\ \A u \in Thread \ {t} : pc'[u] = pc[u]
      BY <1>0, <1>3, <1>a DEF ThreadsType
    <2>4. ThreadOK(t)'
      BY <1>0, <1>1, <1>a, <2>2, <2>3 DEF ThreadOK, Holding, Inner
    <2>5. ThreadsOK'
      BY <1>0, <1>a, <2>2, <2>3, <2>4, OneThread
    <2>. QED BY <2>2, <2>5 DEF Inv
  <1>. QED BY <1>2, <1>3 DEF HandleStackGuardInterrupt, Goto

LEMMA ResumePreemptedStep ==
    ASSUME Inv, NEW t \in Thread, ResumePreempted(t)
    PROVE  Inv'
  <1>a. ThreadOK(t) /\ ThreadsType /\ ThreadsOK /\ StatesOK
    BY DEF Inv, ThreadsOK
  <1>0. /\ pc[t] = "yield" /\ mutexOwner = None /\ mutexOwner' = t /\ RestoreThread(t)
        /\ pc' = [pc EXCEPT ![t] = "preempted"]
        /\ UNCHANGED <<scopes, switcher>> /\ \A u \in Thread : None # u
    BY DistinctAssumption DEF ResumePreempted, At, Goto
  <1>1. /\ StatesOK' /\ threadState'[t] = None
        /\ \A u \in Thread \ {t} : threadState'[u] = threadState[u]
    BY <1>0, <1>a, RestoreStates
  <1>2. ThreadsType' /\ pc'[t] = "preempted" /\ \A u \in Thread \ {t} : pc'[u] = pc[u]
    BY <1>0, <1>a DEF ThreadsType
  <1>3. ThreadOK(t)'
    BY <1>0, <1>1, <1>2, <1>a DEF ThreadOK, Holding, Inner
  <1>4. ThreadsOK'
    BY <1>0, <1>1, <1>2, <1>3, <1>a, OneThread
  <1>. QED BY <1>1, <1>4 DEF Inv

(* HandleTermination, StopPreemption and JoinSwitcher keep the lock and only *)
(* move between "run", "preempted" and "joining".                          *)
LEMMA KeepsLockStep ==
    ASSUME Inv, NEW t \in Thread, NEW where \in {"run", "preempted", "joining"},
           mutexOwner = t, pc[t] # "clearing", pc' = [pc EXCEPT ![t] = where],
           UNCHANGED <<mutexOwner, stateVars, lazyVars, scopes>>,
           live' \in Area, live'.data = live.data,
           switcher' \in {"none", "running", "stopping", "exited"}
    PROVE  Inv'
  <1>a. ThreadOK(t) /\ ThreadsType /\ ThreadsOK /\ StatesOK
    BY DEF Inv, ThreadsOK
  <1>1. StatesOK'
    BY <1>a, FlagStates
  <1>2. ThreadsType' /\ pc'[t] = where /\ \A u \in Thread \ {t} : pc'[u] = pc[u]
    BY <1>a DEF ThreadsType
  <1>3. Holding(t, "locker")
    BY <1>a DEF ThreadOK
  <1>4. ThreadOK(t)'
    BY <1>2, <1>3, <1>a DEF ThreadOK, Holding, Inner, lazyVars
  <1>5. ThreadsOK'
    BY <1>2, <1>4, <1>a, OneThread DEF lazyVars
  <1>. QED BY <1>1, <1>5 DEF Inv

(* The switcher and requests to terminate. *)
LEMMA NoThreadStep ==
    ASSUME Inv, UNCHANGED <<mutexOwner, stateVars, lazyVars, scopes, pc>>,
           live' \in Area, live'.data = live.data,
           switcher' \in {"none", "running", "stopping", "exited"}
    PROVE  Inv'
  <1>1. StatesOK'
    BY FlagStates DEF Inv
  <1>2. ThreadsOK'
    BY NoThread DEF Inv, lazyVars
  <1>. QED BY <1>1, <1>2 DEF Inv

-----------------------------------------------------------------------------
(* The invariant. *)

LEMMA InitInv == Init => Inv
  <1>. SUFFICES ASSUME Init PROVE Inv
    OBVIOUS
  <1>1. StatesType
    BY DEF Init, StatesType, Link, Blank, Area
  <1>2. ThreadsType
    BY DEF Init, ThreadsType
  <1>3. ASSUME NEW t \in Thread PROVE ThreadOK(t)
    BY <1>2, DistinctAssumption DEF Init, ThreadOK, StackOK, Holding
  <1>4. FreeStates = {} /\ InUse = {}
    BY DEF Init, FreeStates, InUse
  <1>5. ASSUME NEW a \in Anchor PROVE ListOK(links, a, {})
    BY <1>5 DEF Init, ListOK
  <1>6. ListsOK
    BY <1>4, <1>5 DEF Init, ListsOK, Anchor
  <1>7. IdOK /\ LazyOK /\ RequestOK
    BY DEF Init, IdOK, LazyOK, RequestOK
  <1>8. DataOK
    BY <1>4 DEF Init, DataOK, Blank
  <1>9. BoundOK
    <2>1. Cardinality(allocated) = 0 /\ Cardinality(Thread) \in Nat
      BY FiniteAssumption, FS_EmptySet, FS_CardinalityType DEF Init
    <2>. QED BY <2>1 DEF BoundOK
  <1>. QED BY <1>1, <1>2, <1>3, <1>6, <1>7, <1>8, <1>9 DEF Inv, ThreadsOK, StatesOK

LEMMA NextInv == Inv /\ [Next]_vars => Inv'
  <1>. SUFFICES ASSUME Inv, [Next]_vars PROVE Inv'
    OBVIOUS
  <1>a. ThreadsType /\ StatesType /\ ThreadsOK /\ StatesOK /\ \A t \in Thread : ThreadOK(t)
    BY DEF Inv, ThreadsOK, StatesOK
  <1>b. /\ live \in Area
        /\ \A f \in SUBSET Interrupt :
               [live EXCEPT !.flags = f] \in Area /\ [live EXCEPT !.flags = f].data = live.data
    BY <1>a DEF StatesType, Area
  <1>c. PREEMPT \in Interrupt /\ TERMINATE \in Interrupt /\ live.flags \in SUBSET Interrupt
    BY <1>b DEF Interrupt, Area
  <1>1. ASSUME NEW t \in Thread, LockStep(t) PROVE Inv'
    BY <1>1, NestedLockerStep, LockerInitializeStep, ClearThreadStep, DestroyLockerStep,
       UnlockerInitializeStep, DestroyUnlockerStep DEF LockStep
  <1>2. ASSUME NEW t \in Thread, InterruptStep(t) PROVE Inv'
    <2>1. CASE HandleStackGuardInterrupt(t)
      BY <2>1, HandleStackGuardInterruptStep
    <2>2. CASE ResumePreempted(t)
      BY <2>2, ResumePreemptedStep
    <2>3. CASE HandleTermination(t)
      <3>1. live.flags \ {TERMINATE} \in SUBSET Interrupt
        BY <1>c
      <3>2. live' = [live EXCEPT !.flags = live.flags \ {TERMINATE}]
        BY <2>3 DEF HandleTermination
      <3>3. mutexOwner = t /\ pc[t] # "clearing"
        BY <1>a, <2>3 DEF ThreadOK, HandleTermination, At
      <3>. QED BY <1>a, <1>b, <2>3, <3>1, <3>2, <3>3, KeepsLockStep
           DEF HandleTermination, Goto, ThreadsType
    <2>4. CASE StartPreemption(t)
      BY <1>b, <2>4, NoThreadStep DEF StartPreemption
    <2>5. CASE StopPreemption(t)
      BY <1>a, <1>b, <2>5, KeepsLockStep
         DEF StopPreemption, At, Goto, IsLockedByCurrentThread, ThreadsType
    <2>6. CASE JoinSwitcher(t)
      <3>1. mutexOwner = t /\ pc[t] # "clearing"
        BY <1>a, <2>6 DEF ThreadOK, JoinSwitcher, At
      <3>. QED BY <1>b, <2>6, <3>1, KeepsLockStep DEF JoinSwitcher, Goto
    <2>7. ASSUME NEW target \in Thread, TerminateExecution(t, target) PROVE Inv'
      <3>1. StatesOK' /\ UNCHANGED <<mutexOwner, threadState>>
        BY <1>a, <2>7, TerminateStates
      <3>2. UNCHANGED <<scopes, pc, switcher>>
        BY <2>7 DEF TerminateExecution
      <3>3. ThreadsOK'
        BY <1>a, <3>1, <3>2, NoThread DEF ThreadsType
      <3>. QED BY <3>1, <3>3 DEF Inv
    <2>. QED BY <1>2, <2>1, <2>2, <2>3, <2>4, <2>5, <2>6, <2>7 DEF InterruptStep
  <1>3. CASE TerminateIsolate
    <2>1. live.flags \cup {TERMINATE} \in SUBSET Interrupt
      BY <1>c
    <2>2. live' = [live EXCEPT !.flags = live.flags \cup {TERMINATE}]
      BY <1>3 DEF TerminateIsolate
    <2>3. live' \in Area /\ live'.data = live.data
      BY <1>b, <2>1, <2>2
    <2>. QED BY <1>3, <1>a, <2>3, NoThreadStep DEF TerminateIsolate, ThreadsType
  <1>4. CASE SwitcherPreempt
    <2>1. live.flags \cup {PREEMPT} \in SUBSET Interrupt
      BY <1>c
    <2>2. live' = [live EXCEPT !.flags = live.flags \cup {PREEMPT}]
      BY <1>4 DEF SwitcherPreempt
    <2>3. live' \in Area /\ live'.data = live.data
      BY <1>b, <2>1, <2>2
    <2>. QED BY <1>4, <1>a, <2>3, NoThreadStep DEF SwitcherPreempt, ThreadsType
  <1>5. CASE SwitcherExit
    BY <1>5, <1>b, NoThreadStep DEF SwitcherExit
  <1>6. CASE UNCHANGED vars
    BY <1>6, <1>a, <1>b, NoThreadStep DEF vars, ThreadsType
  <1>. QED BY <1>1, <1>2, <1>3, <1>4, <1>5, <1>6 DEF Next

(* The invariant holds for any number of threads and ThreadStates and any     *)
(* nesting of Lockers and Unlockers.                                        *)
THEOREM Invariance == Spec => []Inv
  BY InitInv, NextInv, PTL DEF Spec

(* Every variable keeps its type.                                            *)
THEOREM TypeCorrect == Spec => []TypeOK
  <1>1. Inv => TypeOK
    BY DEF Inv, ThreadsOK, ThreadsType, StatesOK, StatesType, TypeOK
  <1>. QED BY <1>1, Invariance, PTL

(* The V8 lock is held by exactly the thread whose scopes say so, whatever    *)
(* order Lockers, Unlockers and preemptions come in.                        *)
THEOREM LockFollowsScopes == Spec => []LockMatchesScopes
  <1>1. Inv => LockMatchesScopes
    BY DEF Inv, ThreadsOK, ThreadOK, LockMatchesScopes
  <1>. QED BY <1>1, Invariance, PTL

(* The ASSERTs of ArchiveThread and RestoreThread cannot fail.               *)
THEOREM AssertionsAlwaysHold == Spec => []AssertionsHold
  <1>1. ASSUME Inv, NEW t \in Thread
        PROVE  /\ IsLockedByCurrentThread(t) /\ At(t, "run") =>
                      /\ lazilyArchived = None
                      /\ ~IsArchived(t)
                      /\ \A s \in ThreadState : IsFreeThreadState(s) => id[s] = None
               /\ lazilyArchived = t => threadState[t] = lazyState
    <2>a. StatesOK /\ ThreadOK(t) /\ t # None
      BY <1>1, DistinctAssumption DEF Inv, ThreadsOK
    <2>1. mutexOwner = t => lazilyArchived = None /\ ~IsArchived(t)
      BY <2>a DEF StatesOK, LazyOK, ThreadOK, IsArchived
    <2>2. ASSUME NEW s \in ThreadState, IsFreeThreadState(s) PROVE id[s] = None
      <3>1. CASE links.next[free_anchor] # free_anchor
        BY <2>2, <2>a, <3>1 DEF IsFreeThreadState, StatesOK, ListsOK, ListOK, FreeStates
      <3>2. CASE links.next[free_anchor] = free_anchor
        <4>1. allocated # ThreadState /\ s = CHOOSE new \in ThreadState : new \notin allocated
          BY <2>2, <3>2 DEF IsFreeThreadState
        <4>2. \E new \in ThreadState : new \notin allocated
          BY <2>a, <4>1 DEF StatesOK, StatesType
        <4>3. s \notin allocated
          BY <4>1, <4>2
        <4>. QED BY <2>a, <4>3 DEF StatesOK, IdOK
      <3>. QED BY <3>1, <3>2
    <2>3. lazilyArchived = t => threadState[t] = lazyState
      BY <2>a DEF StatesOK, LazyOK
    <2>. QED BY <2>1, <2>2, <2>3 DEF IsLockedByCurrentThread
  <1>2. Inv => AssertionsHold
    BY <1>1 DEF AssertionsHold
  <1>. QED BY <1>2, Invariance, PTL

(* No ThreadState is lost or used twice, the links of both lists agree, and   *)
(* there are never more states than threads.                               *)
THEOREM NoStateLost == Spec => []StatesInOnePlace
  <1>1. ASSUME Inv PROVE StatesInOnePlace
    <2>a. StatesOK
      BY <1>1 DEF Inv
    <2>. USE Partition
    <2>1. Members(in_use_anchor) = InUse /\ Members(free_anchor) = FreeStates
      BY <2>a, InUseMembers
    <2>2. WellLinked(free_anchor) /\ WellLinked(in_use_anchor)
      BY <2>1, <2>a DEF WellLinked, StatesOK, ListsOK, ListOK
    <2>3. Lazy \subseteq Archived /\ Lazy \cap InUse = {} /\ Archived = InUse \cup Lazy
      BY <2>a DEF Lazy, Archived, InUse, StatesOK, StatesType
    <2>4. allocated = FreeStates \cup Archived
      BY <2>a DEF FreeStates, Archived
    <2>5. \A s \in ThreadState \ Archived : id[s] = None /\ ~terminateOnRestore[s]
      BY <2>a DEF Archived, StatesOK, IdOK, RequestOK
    <2>6. Cardinality(allocated) <= Cardinality(Thread)
      BY <2>a DEF StatesOK, BoundOK
    <2>. QED BY <2>1, <2>2, <2>3, <2>4, <2>5, <2>6, <2>a DEF StatesInOnePlace
  <1>. QED BY <1>1, Invariance, PTL

(* The data of each thread are where RestoreThread and the collector look     *)
(* for them, and nowhere else.                                              *)
THEOREM DataInOnePlace == Spec => []AreaInOnePlace
  <1>1. ASSUME Inv, NEW t \in Thread
        PROVE  LET holders == {s \in Members(in_use_anchor) : t \in saved[s].data}
               IN  IF ~InsideV8(t)
                   THEN t \notin live.data /\ holders = {} /\ threadState[t] = None
                   ELSE IF mutexOwner = t
                   THEN live.data = {t} /\ holders = {} /\ threadState[t] = None
                   ELSE IF lazilyArchived = t
                   THEN live.data = {t} /\ holders = {} /\ threadState[t] = lazyState
                   ELSE /\ t \notin live.data
                        /\ holders = {threadState[t]}
                        /\ saved[threadState[t]].data = {t}
                        /\ id[threadState[t]] = t
    <2>a. StatesOK /\ ThreadOK(t) /\ t # None
      BY <1>1, DistinctAssumption DEF Inv, ThreadsOK
    <2>. DEFINE holders == {s \in Members(in_use_anchor) : t \in saved[s].data}
    <2>1. holders = {s \in InUse : id[s] = t}
      BY <2>a, InUseMembers, Partition DEF StatesOK, DataOK
    <2>2. holders = {threadState[t]} \ {None, lazyState}
      BY <2>1, <2>a, Partition DEF StatesOK, StatesType, IdOK, InUse
    <2>. HIDE DEF holders
    <2>3. CASE ~InsideV8(t)
      <3>1. scopes[t] = <<>> /\ pc[t] # "clearing" /\ mutexOwner # t /\ threadState[t] = None
        BY <2>3, <2>a DEF InsideV8, ThreadOK, Holding
      <3>2. lazilyArchived # t
        BY <2>a, <3>1 DEF StatesOK, StatesType, LazyOK
      <3>. QED BY <2>2, <2>3, <2>a, <3>1, <3>2 DEF StatesOK, DataOK, holders
    <2>4. CASE mutexOwner = t
      <3>1. lazilyArchived = None /\ threadState[t] = None
        BY <2>4, <2>a DEF StatesOK, LazyOK, ThreadOK
      <3>2. InsideV8(t)
        BY <2>4, <2>a DEF InsideV8, ThreadOK, Holding
      <3>3. live.data = {t}
        BY <2>4, <2>a, <3>1 DEF StatesOK, DataOK
      <3>. QED BY <2>2, <2>4, <3>1, <3>2, <3>3 DEF holders
    <2>5. CASE InsideV8(t) /\ mutexOwner # t
      <3>1. threadState[t] # None
        BY <2>5, <2>a DEF InsideV8, ThreadOK
      <3>2. CASE lazilyArchived = t
        <4>1. mutexOwner = None /\ threadState[t] = lazyState
          BY <2>a, <3>2 DEF StatesOK, LazyOK
        <4>2. live.data = {t}
          BY <2>a, <3>2, <4>1 DEF StatesOK, DataOK
        <4>. QED BY <2>2, <2>5, <3>2, <4>1, <4>2 DEF holders
      <3>3. CASE lazilyArchived # t
        <4>1. t \notin live.data
          BY <2>5, <2>a, <3>3 DEF StatesOK, DataOK
        <4>2. threadState[t] \in ThreadState /\ id[threadState[t]] = t
          BY <2>a, <3>1 DEF StatesOK, StatesType, IdOK
        <4>3. threadState[t] # lazyState
          BY <2>a, <3>1, <3>3, <4>2, Partition DEF StatesOK, StatesType
        <4>4. threadState[t] \in InUse
          BY <2>a, <4>2, <4>3 DEF InUse, StatesOK, IdOK
        <4>5. saved[threadState[t]].data = {t}
          BY <2>a, <4>2, <4>4 DEF StatesOK, DataOK
        <4>. QED BY <2>2, <2>5, <3>1, <3>3, <4>1, <4>2, <4>3, <4>5 DEF holders
      <3>. QED BY <3>2, <3>3
    <2>. QED BY <2>3, <2>4, <2>5
  <1>2. Inv => AreaInOnePlace
    BY <1>1 DEF AreaInOnePlace
  <1>. QED BY <1>2, Invariance, PTL

-----------------------------------------------------------------------------
(* ThreadManager implements PerThreadInterrupts. *)

Same(u) == RequestsOf(u)' = RequestsOf(u)

(* Where each thread's requests are. *)
LEMMA WhereRequestsAre ==
    ASSUME Inv, NEW t \in Thread, scopes[t] # <<>>
    PROVE  /\ mutexOwner = t \/ lazilyArchived = t =>
                  live.data = {t} /\ RequestsOf(t) = live.flags
           /\ mutexOwner # t /\ lazilyArchived # t =>
                  /\ t \notin live.data /\ RequestsOf(t) = SavedRequests(threadState[t])
                  /\ threadState[t] \in InUse /\ id[threadState[t]] = t
                  /\ threadState[t] # lazyState
           /\ lazilyArchived = t =>
                  /\ mutexOwner = None /\ threadState[t] = lazyState
                  /\ ~terminateOnRestore[lazyState] /\ lazyState \in ThreadState
  <1>a. StatesOK /\ ThreadOK(t) /\ t # None
    BY DistinctAssumption DEF Inv, ThreadsOK
  <1>1. mutexOwner = t \/ lazilyArchived = t => live.data = {t}
    BY <1>a DEF StatesOK, LazyOK, DataOK
  <1>2. ASSUME lazilyArchived = t
        PROVE  /\ mutexOwner = None /\ threadState[t] = lazyState
               /\ ~terminateOnRestore[lazyState] /\ lazyState \in ThreadState
    <2>1. mutexOwner = None /\ threadState[t] = lazyState /\ lazyState \in ThreadState
      BY <1>2, <1>a DEF StatesOK, LazyOK, StatesType
    <2>2. lazyState \notin InUse
      BY DEF InUse
    <2>. QED BY <1>a, <2>1, <2>2 DEF StatesOK, RequestOK
  <1>3. ASSUME mutexOwner # t, lazilyArchived # t
        PROVE  /\ t \notin live.data /\ RequestsOf(t) = SavedRequests(threadState[t])
               /\ threadState[t] \in InUse /\ id[threadState[t]] = t
               /\ threadState[t] # lazyState
    <2>1. t \notin live.data
      BY <1>3, <1>a DEF StatesOK, DataOK
    <2>2. threadState[t] # None
      BY <1>3, <1>a DEF ThreadOK
    <2>3. threadState[t] \in ThreadState /\ id[threadState[t]] = t
      BY <1>a, <2>2 DEF StatesOK, StatesType, IdOK
    <2>4. threadState[t] # lazyState
      BY <1>3, <1>a, <2>2, <2>3, Partition DEF StatesOK, StatesType
    <2>5. threadState[t] \in InUse
      BY <1>a, <2>3, <2>4 DEF InUse, StatesOK, IdOK
    <2>. QED BY <2>1, <2>3, <2>4, <2>5 DEF RequestsOf
  <1>. QED BY <1>1, <1>2, <1>3 DEF RequestsOf

(* Giving up the lock moves no requests. *)
LEMMA ArchiveKeepsRequests ==
    ASSUME Inv, Inv', NEW t \in Thread, mutexOwner = t, ArchiveThread(t),
           NEW u \in Thread, u # t, scopes'[u] = scopes[u]
    PROVE  Same(u)
  <1>1. CASE scopes[u] = <<>>
    BY <1>1 DEF Same, RequestsOf
  <1>2. CASE scopes[u] # <<>>
    <2>1. lazilyArchived = None /\ lazilyArchived' = t /\ mutexOwner' = None /\ u # None
          /\ UNCHANGED <<saved, terminateOnRestore>> /\ threadState'[u] = threadState[u]
      BY DistinctAssumption DEF ArchiveThread, Inv, StatesOK, StatesType
    <2>2. u \notin live.data /\ u \notin live'.data
      BY <2>1 DEF Inv, StatesOK, DataOK
    <2>. QED BY <1>2, <2>1, <2>2 DEF Same, RequestsOf, SavedRequests
  <1>. QED BY <1>1, <1>2

(* Taking it may move those of a thread that was lazily archived, and those  *)
(* of the thread that takes it: all are kept.                              *)
LEMMA RestoreKeepsRequests ==
    ASSUME Inv, Inv', NEW t \in Thread, mutexOwner = None, mutexOwner' = t,
           RestoreThread(t) \/ InitNewThread(t),
           NEW u \in Thread, scopes'[u] = scopes[u] \/ (u = t /\ scopes'[u] # <<>>),
           scopes[u] # <<>>
    PROVE  Same(u)
  <1>. DEFINE s == threadState[u]
  <1>a. StatesOK /\ StatesType /\ None \notin Thread
    BY DistinctAssumption DEF Inv, StatesOK
  <1>b. scopes'[u] # <<>>
    OBVIOUS
  <1>c. lazilyArchived' = None
    BY DEF RestoreThread, RestoreLazilyArchived, RestoreArchived, InitNewThread
  <1>d. live'.data = {t}
    BY <1>c, <1>a DEF Inv, StatesOK, DataOK
  <1>1. CASE RestoreLazilyArchived(t)
    <2>1. lazilyArchived = t /\ UNCHANGED <<live, saved, terminateOnRestore>>
          /\ \A v \in Thread \ {t} : threadState'[v] = threadState[v]
      BY <1>1, <1>a DEF RestoreLazilyArchived, StatesType
    <2>2. live.data = {t}
      BY <1>d, <2>1
    <2>. QED BY <1>b, <2>1, <2>2 DEF Same, RequestsOf, SavedRequests
  <1>2. CASE RestoreArchived(t) \/ InitNewThread(t)
    <2>1. /\ lazilyArchived # t
          /\ saved' = IF RestoreArchived(t)
                      THEN [EagerlyArchived.saved EXCEPT ![threadState[t]] = Blank]
                      ELSE EagerlyArchived.saved
      BY <1>2 DEF RestoreArchived, InitNewThread, IsArchived
    <2>2. \A r \in ThreadState \ {lazyState} : EagerlyArchived.saved[r] = saved[r]
      BY <1>a DEF EagerlyArchived, StatesType
    <2>3. CASE u = t
      <3>1. s \in InUse /\ s # lazyState /\ RequestsOf(t) = SavedRequests(s)
        BY <1>a, <2>1, <2>3, WhereRequestsAre
      <3>2. s \in ThreadState /\ s # None
        BY <1>a, <3>1, Partition DEF InUse
      <3>3. RestoreArchived(t)
        BY <1>2, <2>3, <3>2 DEF InitNewThread, IsArchived
      <3>4. live' = [EagerlyArchived.saved[s] EXCEPT
                        !.flags = @ \cup IF terminateOnRestore[s] THEN {TERMINATE} ELSE {}]
        BY <2>3, <3>3 DEF RestoreArchived
      <3>5. EagerlyArchived.saved[s] \in Area /\ EagerlyArchived.saved[s] = saved[s]
        BY <1>a, <2>2, <3>1, <3>2 DEF StatesType
      <3>6. live'.flags = SavedRequests(s)
        BY <3>4, <3>5 DEF Area, SavedRequests
      <3>. QED BY <1>b, <1>d, <2>3, <3>1, <3>6 DEF Same, RequestsOf
    <2>4. CASE u # t
      <3>1. u \notin live'.data /\ scopes'[u] # <<>> /\ threadState'[u] = s
        BY <1>2, <1>a, <1>b, <1>d, <2>4 DEF RestoreArchived, InitNewThread, StatesType
      <3>2. CASE lazilyArchived = u
        <4>1. /\ RequestsOf(u) = live.flags /\ s = lazyState
              /\ ~terminateOnRestore[lazyState] /\ lazyState \in ThreadState
          BY <3>2, WhereRequestsAre
        <4>2. threadState[t] # s
          BY <1>a, <2>4, <3>2, <4>1, Partition, WhereRequestsAre DEF StatesOK, IdOK, StatesType
        <4>3. EagerlyArchived.saved[s] = live
          BY <1>a, <3>2, <4>1 DEF EagerlyArchived, StatesType
        <4>4. saved'[s] = live
          BY <1>a, <2>1, <4>1, <4>2, <4>3 DEF EagerlyArchived, StatesType
        <4>5. terminateOnRestore'[s] = terminateOnRestore[s]
          BY <1>2, <1>a, <4>1, <4>2 DEF RestoreArchived, InitNewThread, StatesType
        <4>6. saved'[s].flags \cup (IF terminateOnRestore'[s] THEN {TERMINATE} ELSE {})
                 = live.flags
          BY <4>1, <4>4, <4>5
        <4>. QED BY <3>1, <4>1, <4>6 DEF Same, RequestsOf, SavedRequests
      <3>3. CASE lazilyArchived # u
        <4>1. /\ RequestsOf(u) = SavedRequests(s) /\ s \in InUse /\ id[s] = u /\ s # lazyState
          BY <1>a, <3>3, WhereRequestsAre
        <4>2. s \in ThreadState /\ threadState[t] # s
          BY <1>a, <2>4, <4>1, Partition DEF StatesOK, IdOK, StatesType, InUse
        <4>3. saved'[s] = saved[s]
          BY <1>a, <2>1, <2>2, <4>1, <4>2 DEF EagerlyArchived, StatesType
        <4>4. terminateOnRestore'[s] = terminateOnRestore[s]
          BY <1>2, <1>a, <4>2 DEF RestoreArchived, InitNewThread, StatesType
        <4>. QED BY <3>1, <4>1, <4>3, <4>4 DEF Same, RequestsOf, SavedRequests
      <3>. QED BY <3>2, <3>3
    <2>. QED BY <2>3, <2>4
  <1>. QED BY <1>1, <1>2 DEF RestoreThread

(* The steps of PerThreadInterrupts, in terms of Inside, Running and          *)
(* RequestsOf.                                                             *)
Others(t) == \A u \in Thread \ {t} : Same(u)

LEMMA AbstractSteps ==
    ASSUME NEW t \in Thread, Others(t)
    PROVE  /\ Running = None /\ t \notin Inside /\ Running' = t
                  /\ Inside' = Inside \cup {t} /\ RequestsOf(t)' = {} => Abstract!Next
           /\ Running = t /\ Running' = None /\ Inside' = Inside \ {t}
                  /\ RequestsOf(t)' = {} => Abstract!Next
           /\ Running = None /\ t \in Inside /\ Running' = t /\ Inside' = Inside
                  /\ Same(t) => Abstract!Next
           /\ Running = t /\ Running' = None /\ Inside' = Inside /\ Same(t) => Abstract!Next
           /\ Running = t /\ Running' = None /\ Inside' = Inside
                  /\ PREEMPT \in RequestsOf(t)
                  /\ RequestsOf(t)' = RequestsOf(t) \ {PREEMPT} => Abstract!Next
           /\ Running' = Running /\ Inside' = Inside /\ Same(t) => UNCHANGED Abstract!vars
  <1>. DEFINE p == [u \in Thread |-> RequestsOf(u)]
  <1>1. ASSUME NEW r, RequestsOf(t)' = r PROVE p' = [p EXCEPT ![t] = r]
    BY <1>1 DEF Others, Same
  <1>2. Same(t) => p' = p
    BY DEF Others, Same
  <1>3. p[t] = RequestsOf(t)
    OBVIOUS
  <1>. QED BY <1>1, <1>2, <1>3
       DEF Abstract!Next, Abstract!Enter, Abstract!Leave, Abstract!Resume, Abstract!Suspend,
           Abstract!Yield, Abstract!vars

LEMMA AbstractRequests ==
    ASSUME NEW t \in Thread, NEW i \in Interrupt, Others(t),
           Running' = Running, Inside' = Inside
    PROVE  /\ t \in Inside /\ RequestsOf(t)' = RequestsOf(t) \cup {i} => Abstract!Next
           /\ Running = t /\ i \in RequestsOf(t) /\ RequestsOf(t)' = RequestsOf(t) \ {i}
                  => Abstract!Next
  <1>. DEFINE p == [u \in Thread |-> RequestsOf(u)]
  <1>1. ASSUME NEW r, RequestsOf(t)' = r PROVE p' = [p EXCEPT ![t] = r]
    BY <1>1 DEF Others, Same
  <1>2. p[t] = RequestsOf(t)
    OBVIOUS
  <1>. QED BY <1>1, <1>2 DEF Abstract!Next, Abstract!Post, Abstract!Handle

LEMMA RunningIs ==
    ASSUME NEW t \in Thread
    PROVE  /\ mutexOwner = None => Running = None
           /\ mutexOwner = t /\ scopes[t] # <<>> => Running = t
           /\ mutexOwner = t /\ scopes[t] = <<>> => Running = None
  BY DistinctAssumption DEF Running

LEMMA NothingMoved ==
    ASSUME UNCHANGED <<mutexOwner, saved, terminateOnRestore, threadState, live>>,
           \A u \in Thread : scopes'[u] = <<>> <=> scopes[u] = <<>>,
           mutexOwner \in Thread \cup {None}
    PROVE  UNCHANGED Abstract!vars
  <1>1. Inside' = Inside /\ Running' = Running
    BY DEF Inside, Running
  <1>2. \A u \in Thread : Same(u)
    BY DEF Same, RequestsOf, SavedRequests
  <1>3. [u \in Thread |-> RequestsOf(u)]' = [u \in Thread |-> RequestsOf(u)]
    BY <1>2 DEF Same
  <1>. QED BY <1>1, <1>3 DEF Abstract!vars

LEMMA Resumes ==
    ASSUME Inv, Inv', NEW t \in Thread, mutexOwner = None, mutexOwner' = t, RestoreThread(t),
           scopes'[t] # <<>>, \A u \in Thread \ {t} : scopes'[u] = scopes[u]
    PROVE  Abstract!Next
  <1>1. scopes[t] # <<>>
    BY RestoreStates DEF Inv, ThreadsOK, ThreadOK
  <1>2. ASSUME NEW u \in Thread PROVE Same(u)
    <2>1. CASE scopes[u] # <<>>
      BY <1>1, <2>1, RestoreKeepsRequests
    <2>2. CASE scopes[u] = <<>>
      BY <1>1, <2>2 DEF Same, RequestsOf
    <2>. QED BY <2>1, <2>2
  <1>3. Inside' = Inside /\ t \in Inside
    BY <1>1 DEF Inside
  <1>4. Running = None /\ Running' = t
    BY RunningIs DEF Running
  <1>. QED BY <1>2, <1>3, <1>4, AbstractSteps DEF Others

LEMMA Suspends ==
    ASSUME Inv, Inv', NEW t \in Thread, mutexOwner = t, ArchiveThread(t),
           scopes[t] # <<>>, scopes'[t] # <<>>,
           \A u \in Thread \ {t} : scopes'[u] = scopes[u],
           \/ UNCHANGED live
           \/ /\ PREEMPT \in live.flags
              /\ live' = [live EXCEPT !.flags = @ \ {PREEMPT}]
    PROVE  Abstract!Next
  <1>1. mutexOwner' = None /\ lazilyArchived' = t
    BY DEF ArchiveThread
  <1>2. live.data = {t} /\ RequestsOf(t) = live.flags
    BY WhereRequestsAre
  <1>3. live'.data = {t} /\ RequestsOf(t)' = live'.flags
    BY <1>1, <1>2 DEF RequestsOf, Inv, StatesOK, StatesType, Area
  <1>4. Others(t)
    BY ArchiveKeepsRequests DEF Others
  <1>5. Inside' = Inside
    BY DEF Inside
  <1>6. Running = t /\ Running' = None
    BY <1>1, RunningIs DEF Running
  <1>7. live \in Area
    BY DEF Inv, StatesOK, StatesType
  <1>8. CASE UNCHANGED live
    BY <1>2, <1>3, <1>4, <1>5, <1>6, <1>8, AbstractSteps DEF Same
  <1>9. CASE PREEMPT \in live.flags /\ live' = [live EXCEPT !.flags = @ \ {PREEMPT}]
    <2>1. live'.flags = live.flags \ {PREEMPT}
      BY <1>7, <1>9 DEF Area
    <2>. QED BY <1>2, <1>3, <1>4, <1>5, <1>6, <1>9, <2>1, AbstractSteps
  <1>. QED BY <1>8, <1>9

(* A request made to whoever's data are live. *)
LEMMA PostsLive ==
    ASSUME Inv, NEW i \in Interrupt, live' = [live EXCEPT !.flags = @ \cup {i}],
           UNCHANGED <<mutexOwner, stateVars, lazyVars, scopes>>
    PROVE  [Abstract!Next]_Abstract!vars
  <1>1. live \in Area /\ live'.data = live.data /\ live'.flags = live.flags \cup {i}
    BY DEF Inv, StatesOK, StatesType, Area
  <1>2. UNCHANGED <<saved, terminateOnRestore, threadState>>
    BY DEF stateVars, lazyVars
  <1>3. Inside' = Inside /\ Running' = Running
    BY DEF Inside, Running
  <1>4. \A u \in Thread : u \notin live.data \/ scopes[u] = <<>> => Same(u)
    BY <1>1, <1>2 DEF Same, RequestsOf, SavedRequests
  <1>5. CASE \E t \in Thread : t \in live.data /\ scopes[t] # <<>>
    <2>1. PICK t \in Thread : t \in live.data /\ scopes[t] # <<>>
      BY <1>5
    <2>2. live.data = {t}
      BY <2>1, WhereRequestsAre
    <2>3. Others(t) /\ t \in Inside
      BY <1>4, <2>1, <2>2 DEF Others, Inside
    <2>4. RequestsOf(t)' = RequestsOf(t) \cup {i}
      BY <1>1, <2>1 DEF RequestsOf
    <2>. QED BY <1>3, <2>3, <2>4, AbstractRequests
  <1>6. CASE ~ \E t \in Thread : t \in live.data /\ scopes[t] # <<>>
    <2>1. \A u \in Thread : Same(u)
      BY <1>4, <1>6
    <2>2. [u \in Thread |-> RequestsOf(u)]' = [u \in Thread |-> RequestsOf(u)]
      BY <2>1 DEF Same
    <2>. QED BY <1>3, <2>2 DEF Abstract!vars
  <1>. QED BY <1>5, <1>6

LEMMA TerminatesStep ==
    ASSUME Inv, NEW t \in Thread, NEW target \in Thread, TerminateExecution(t, target)
    PROVE  [Abstract!Next]_Abstract!vars
  <1>a. StatesOK /\ TERMINATE \in Interrupt
    BY DEF Inv, Interrupt
  <1>0. mutexOwner = t /\ t # None
    BY DistinctAssumption DEF TerminateExecution, IsLockedByCurrentThread
  <1>1. CASE target = t
    BY <1>1, <1>a, PostsLive DEF TerminateExecution, stateVars, lazyVars
  <1>2. CASE target # t
    <2>1. /\ terminateOnRestore' =
                 [s \in ThreadState |-> terminateOnRestore[s] \/ (s \in InUse /\ id[s] = target)]
          /\ UNCHANGED <<mutexOwner, saved, threadState, live, scopes>>
      BY <1>2, <1>a, InUseMembers DEF TerminateExecution, lazyVars
    <2>2. Inside' = Inside /\ Running' = Running
      BY <2>1 DEF Inside, Running
    <2>3. lazilyArchived = None
      BY <1>0, <1>a DEF StatesOK, LazyOK
    <2>4. Others(target)
      <3>1. ASSUME NEW u \in Thread \ {target} PROVE Same(u)
        <4>1. CASE scopes[u] = <<>> \/ u \in live.data
          BY <2>1, <4>1 DEF Same, RequestsOf
        <4>2. CASE scopes[u] # <<>> /\ u \notin live.data
          <5>1. threadState[u] \in InUse /\ id[threadState[u]] = u
            BY <2>3, <4>2, WhereRequestsAre
          <5>2. terminateOnRestore'[threadState[u]] = terminateOnRestore[threadState[u]]
            BY <1>a, <2>1, <5>1, Partition DEF StatesOK, StatesType
          <5>. QED BY <2>1, <5>2 DEF Same, RequestsOf, SavedRequests
        <4>. QED BY <4>1, <4>2
      <3>. QED BY <3>1 DEF Others
    <2>5. CASE scopes[target] # <<>>
      <3>1. /\ target \notin live.data /\ RequestsOf(target) = SavedRequests(threadState[target])
            /\ threadState[target] \in InUse /\ id[threadState[target]] = target
        BY <1>0, <1>2, <2>3, <2>5, WhereRequestsAre
      <3>2. terminateOnRestore'[threadState[target]] = TRUE
        BY <1>a, <2>1, <3>1, Partition
      <3>3. RequestsOf(target)' = saved[threadState[target]].flags \cup {TERMINATE}
        BY <2>1, <2>5, <3>1, <3>2 DEF RequestsOf, SavedRequests
      <3>4. RequestsOf(target)' = RequestsOf(target) \cup {TERMINATE}
        BY <3>1, <3>3 DEF SavedRequests
      <3>5. target \in Inside
        BY <2>5 DEF Inside
      <3>. QED BY <1>a, <2>2, <2>4, <3>4, <3>5, AbstractRequests
    <2>6. CASE scopes[target] = <<>>
      <3>1. Same(target)
        BY <2>1, <2>6 DEF Same, RequestsOf
      <3>. QED BY <2>2, <2>4, <3>1, AbstractSteps
    <2>. QED BY <2>5, <2>6
  <1>. QED BY <1>1, <1>2

LEMMA PushNonempty ==
    ASSUME ThreadsType, NEW t \in Thread, NEW e \in Scope, scopes' = Push(t, e)
    PROVE  scopes'[t] # <<>> /\ \A u \in Thread \ {t} : scopes'[u] = scopes[u]
  <1>1. scopes[t] \in Seq(Scope) /\ scopes'[t] = Append(scopes[t], e)
        /\ \A u \in Thread \ {t} : scopes'[u] = scopes[u]
    BY PushThread
  <1>2. Append(scopes[t], e) # <<>>
    BY <1>1
  <1>. QED BY <1>1, <1>2

LEMMA LockStepRefines ==
    ASSUME Inv, Inv', NEW t \in Thread, LockStep(t)
    PROVE  [Abstract!Next]_Abstract!vars
  <1>a. /\ ThreadsType /\ StatesOK /\ ThreadsOK /\ ThreadOK(t) /\ None \notin Thread
        /\ mutexOwner \in Thread \cup {None} /\ \A e \in BOOLEAN : Locker(e, TRUE) \in Scope
        /\ Locker(TRUE, FALSE) \in Scope /\ Unlocker \in Scope
    BY ScopeType, DistinctAssumption DEF Inv, ThreadsOK, StatesOK, StatesType
  <1>1. CASE NestedLocker(t)
    <2>1. /\ UNCHANGED <<mutexOwner, saved, terminateOnRestore, threadState, live>>
          /\ scopes' = Push(t, Locker(FALSE, TRUE))
      BY <1>1 DEF NestedLocker, stateVars, lazyVars
    <2>2. scopes[t] # <<>>
      BY <1>1, <1>a DEF NestedLocker, At, IsLockedByCurrentThread, ThreadOK, Holding
    <2>3. scopes'[t] # <<>> /\ \A u \in Thread \ {t} : scopes'[u] = scopes[u]
      BY <1>a, <2>1, PushNonempty
    <2>4. \A u \in Thread : scopes'[u] = <<>> <=> scopes[u] = <<>>
      BY <2>2, <2>3
    <2>. QED BY <1>a, <2>1, <2>4, NothingMoved
  <1>2. CASE LockerInitialize(t)
    <2>0. mutexOwner = None /\ mutexOwner' = t
      BY <1>2 DEF LockerInitialize
    <2>1. CASE RestoreThread(t) /\ scopes' = Push(t, Locker(TRUE, FALSE))
      <3>1. scopes'[t] # <<>> /\ \A u \in Thread \ {t} : scopes'[u] = scopes[u]
        BY <1>a, <2>1, PushNonempty
      <3>. QED BY <2>0, <2>1, <3>1, Resumes
    <2>2. CASE InitNewThread(t) /\ UNCHANGED scopes
      <3>1. threadState[t] = None
        BY <2>2 DEF InitNewThread, IsArchived
      <3>2. scopes[t] = <<>>
        BY <1>a, <2>0, <3>1 DEF ThreadOK
      <3>3. ASSUME NEW u \in Thread PROVE Same(u)
        <4>1. CASE scopes[u] # <<>>
          BY <2>0, <2>2, <4>1, RestoreKeepsRequests
        <4>2. CASE scopes[u] = <<>>
          BY <2>2, <4>2 DEF Same, RequestsOf
        <4>. QED BY <4>1, <4>2
      <3>4. Inside' = Inside
        BY <2>2 DEF Inside
      <3>5. Running = None /\ Running' = None
        BY <2>0, <2>2, <3>2 DEF Running
      <3>. QED BY <3>3, <3>4, <3>5, AbstractSteps DEF Others
    <2>. QED BY <1>2, <2>1, <2>2 DEF LockerInitialize
  <1>3. CASE ClearThread(t)
    <2>1. /\ pc[t] = "clearing" /\ live' = [live EXCEPT !.flags = {}]
          /\ scopes' = Push(t, Locker(TRUE, TRUE))
          /\ UNCHANGED <<mutexOwner, saved, terminateOnRestore, lazilyArchived, threadState>>
      BY <1>3 DEF ClearThread, At, stateVars, lazyVars
    <2>2. scopes[t] = <<>> /\ mutexOwner = t /\ t # None
      BY <1>a, <2>1 DEF ThreadOK
    <2>3. scopes'[t] # <<>> /\ \A u \in Thread \ {t} : scopes'[u] = scopes[u]
      BY <1>a, <2>1, PushNonempty
    <2>4. live.data = {t} /\ live'.data = {t} /\ live'.flags = {}
      BY <1>a, <2>1, <2>2 DEF StatesOK, StatesType, DataOK, LazyOK, Area
    <2>5. Others(t)
      BY <2>1, <2>3, <2>4 DEF Others, Same, RequestsOf, SavedRequests
    <2>6. RequestsOf(t)' = {}
      BY <2>3, <2>4 DEF RequestsOf
    <2>7. t \notin Inside /\ Inside' = Inside \cup {t}
      BY <2>2, <2>3 DEF Inside
    <2>8. Running = None /\ Running' = t
      BY <2>1, <2>2, <2>3 DEF Running
    <2>. QED BY <2>5, <2>6, <2>7, <2>8, AbstractSteps
  <1>4. CASE DestroyLocker(t)
    <2>0. /\ pc[t] = "run" /\ Holding(t, "locker") /\ scopes' = Pop(t)
      BY <1>4 DEF DestroyLocker, At
    <2>1. mutexOwner = t /\ t # None /\ scopes[t] # <<>> /\ Inner(t).kind = "locker"
      BY <1>a, <2>0 DEF ThreadOK, Holding
    <2>2. /\ scopes'[t] = <<>> <=> Len(scopes[t]) = 1
          /\ \A u \in Thread \ {t} : scopes'[u] = scopes[u]
      BY <1>a, <2>0, <2>1, PopThread
    <2>3. /\ ~Inner(t).has_lock => Len(scopes[t]) # 1
          /\ Inner(t).has_lock => (Inner(t).top_level <=> Len(scopes[t]) = 1)
      BY <1>a, <2>1, InnerScope, MoreThanOne, Zenon
    <2>4. CASE ~Inner(t).has_lock /\ UNCHANGED <<mutexOwner, stateVars, lazyVars, live>>
      <3>1. \A u \in Thread : scopes'[u] = <<>> <=> scopes[u] = <<>>
        BY <2>1, <2>2, <2>3, <2>4
      <3>2. UNCHANGED <<mutexOwner, saved, terminateOnRestore, threadState, live>>
        BY <2>4 DEF stateVars, lazyVars
      <3>. QED BY <1>a, <3>1, <3>2, NothingMoved
    <2>5. CASE Inner(t).has_lock /\ Inner(t).top_level /\ FreeThreadResources
      <3>1. /\ live' = [live EXCEPT !.data = {}] /\ mutexOwner' = None
            /\ UNCHANGED <<saved, terminateOnRestore, threadState>>
        BY <2>5 DEF FreeThreadResources, stateVars, lazyVars
      <3>2. scopes'[t] = <<>>
        BY <2>2, <2>3, <2>5, Zenon
      <3>3. live.data = {t} /\ live'.data = {}
        BY <1>a, <2>1, <3>1 DEF StatesOK, StatesType, DataOK, LazyOK, Area
      <3>4. Others(t)
        BY <2>2, <3>1, <3>3 DEF Others, Same, RequestsOf, SavedRequests
      <3>5. RequestsOf(t)' = {}
        BY <3>2 DEF RequestsOf
      <3>6. Inside' = Inside \ {t}
        BY <2>2, <3>2 DEF Inside
      <3>7. Running = t /\ Running' = None
        BY <2>1, <3>1 DEF Running
      <3>. QED BY <3>4, <3>5, <3>6, <3>7, AbstractSteps
    <2>6. CASE Inner(t).has_lock /\ ~Inner(t).top_level /\ ArchiveThread(t) /\ UNCHANGED live
      <3>1. scopes'[t] # <<>>
        BY <2>2, <2>3, <2>6, Zenon
      <3>. QED BY <2>1, <2>2, <2>6, <3>1, Suspends
    <2>. QED BY <1>4, <2>4, <2>5, <2>6 DEF DestroyLocker
  <1>5. CASE UnlockerInitialize(t)
    <2>1. /\ pc[t] = "run" /\ mutexOwner = t /\ ArchiveThread(t)
          /\ scopes' = Push(t, Unlocker) /\ UNCHANGED live
      BY <1>5 DEF UnlockerInitialize, At, IsLockedByCurrentThread
    <2>2. scopes[t] # <<>>
      BY <1>a, <2>1 DEF ThreadOK, Holding
    <2>3. scopes'[t] # <<>> /\ \A u \in Thread \ {t} : scopes'[u] = scopes[u]
      BY <1>a, <2>1, PushNonempty
    <2>. QED BY <2>1, <2>2, <2>3, Suspends
  <1>6. CASE DestroyUnlocker(t)
    <2>1. /\ Holding(t, "unlocker") /\ mutexOwner = None /\ mutexOwner' = t
          /\ RestoreThread(t) /\ scopes' = Pop(t)
      BY <1>6 DEF DestroyUnlocker
    <2>2. scopes[t] # <<>> /\ Inner(t).kind = "unlocker"
      BY <2>1 DEF Holding
    <2>3. /\ scopes'[t] = <<>> <=> Len(scopes[t]) = 1
          /\ \A u \in Thread \ {t} : scopes'[u] = scopes[u]
      BY <1>a, <2>1, <2>2, PopThread
    <2>4. scopes'[t] # <<>>
      BY <1>a, <2>2, <2>3, InnerScope, MoreThanOne, Zenon
    <2>. QED BY <2>1, <2>3, <2>4, Resumes
  <1>. QED BY <1>1, <1>2, <1>3, <1>4, <1>5, <1>6 DEF LockStep

LEMMA InterruptStepRefines ==
    ASSUME Inv, Inv', NEW t \in Thread, InterruptStep(t)
    PROVE  [Abstract!Next]_Abstract!vars
  <1>a. /\ ThreadOK(t) /\ StatesOK /\ live \in Area /\ mutexOwner \in Thread \cup {None}
    BY DEF Inv, ThreadsOK, StatesOK, StatesType
  <1>1. CASE HandleStackGuardInterrupt(t)
    <2>1. pc[t] = "run" /\ mutexOwner = t /\ UNCHANGED scopes
      BY <1>1 DEF HandleStackGuardInterrupt, At, IsLockedByCurrentThread
    <2>2. scopes[t] # <<>>
      BY <1>a, <2>1 DEF ThreadOK, Holding
    <2>3. CASE UNCHANGED <<mutexOwner, stateVars, lazyVars, live>>
      BY <1>a, <2>1, <2>3, NothingMoved DEF stateVars, lazyVars
    <2>4. CASE /\ PREEMPT \in live.flags /\ ArchiveThread(t)
               /\ live' = [live EXCEPT !.flags = @ \ {PREEMPT}]
      BY <2>1, <2>2, <2>4, Suspends
    <2>. QED BY <1>1, <2>3, <2>4 DEF HandleStackGuardInterrupt
  <1>2. CASE ResumePreempted(t)
    <2>1. /\ pc[t] = "yield" /\ mutexOwner = None /\ mutexOwner' = t /\ RestoreThread(t)
          /\ UNCHANGED scopes
      BY <1>2 DEF ResumePreempted, At
    <2>2. scopes[t] # <<>>
      BY <1>a, <2>1 DEF ThreadOK, Holding
    <2>. QED BY <2>1, <2>2, Resumes
  <1>3. CASE HandleTermination(t)
    <2>1. /\ pc[t] = "preempted" /\ live' = [live EXCEPT !.flags = @ \ {TERMINATE}]
          /\ UNCHANGED <<mutexOwner, saved, terminateOnRestore, threadState, scopes>>
      BY <1>3 DEF HandleTermination, At, stateVars, lazyVars
    <2>2. mutexOwner = t /\ scopes[t] # <<>>
      BY <1>a, <2>1 DEF ThreadOK, Holding
    <2>3. live.data = {t} /\ RequestsOf(t) = live.flags
      BY <2>2, WhereRequestsAre
    <2>4. live'.data = {t} /\ live'.flags = live.flags \ {TERMINATE}
      BY <1>a, <2>1, <2>3 DEF Area
    <2>5. RequestsOf(t)' = RequestsOf(t) \ {TERMINATE}
      BY <2>1, <2>2, <2>3, <2>4 DEF RequestsOf
    <2>6. Others(t)
      BY <2>1, <2>3, <2>4 DEF Others, Same, RequestsOf, SavedRequests
    <2>7. Inside' = Inside /\ Running' = Running /\ Running = t
      BY <2>1, <2>2, RunningIs DEF Inside, Running
    <2>8. CASE TERMINATE \in live.flags
      BY <2>3, <2>5, <2>6, <2>7, <2>8, AbstractRequests DEF Interrupt
    <2>9. CASE TERMINATE \notin live.flags
      BY <2>3, <2>5, <2>6, <2>7, <2>9, AbstractSteps DEF Same
    <2>. QED BY <2>8, <2>9
  <1>4. CASE StartPreemption(t) \/ StopPreemption(t) \/ JoinSwitcher(t)
    BY <1>4, <1>a, NothingMoved
       DEF StartPreemption, StopPreemption, JoinSwitcher, stateVars, lazyVars
  <1>5. ASSUME NEW target \in Thread, TerminateExecution(t, target)
        PROVE  [Abstract!Next]_Abstract!vars
    BY <1>5, TerminatesStep
  <1>. QED BY <1>1, <1>2, <1>3, <1>4, <1>5 DEF InterruptStep

LEMMA StepRefines ==
    ASSUME Inv, Inv', [Next]_vars
    PROVE  [Abstract!Next]_Abstract!vars
  <1>a. mutexOwner \in Thread \cup {None} /\ PREEMPT \in Interrupt /\ TERMINATE \in Interrupt
    BY DEF Inv, StatesOK, StatesType, Interrupt
  <1>1. CASE TerminateIsolate
    BY <1>1, <1>a, PostsLive DEF TerminateIsolate
  <1>2. CASE SwitcherPreempt
    BY <1>2, <1>a, PostsLive DEF SwitcherPreempt
  <1>3. CASE SwitcherExit \/ UNCHANGED vars
    BY <1>3, <1>a, NothingMoved DEF SwitcherExit, vars, stateVars, lazyVars
  <1>. QED BY <1>1, <1>2, <1>3, LockStepRefines, InterruptStepRefines DEF Next

(* Archiving is invisible: each thread keeps its own interrupt requests while *)
(* others run, handles no one else's, and loses none.                      *)
THEOREM Refinement == Spec => ImplementsPerThreadInterrupts
  <1>1. Init => Abstract!Init
    BY DEF Init, Abstract!Init, Inside, Running, RequestsOf
  <1>2. Inv /\ Inv' /\ [Next]_vars => [Abstract!Next]_Abstract!vars
    BY StepRefines
  <1>. QED BY <1>1, <1>2, Invariance, PTL DEF Spec, ImplementsPerThreadInterrupts, Abstract!Spec

=============================================================================
