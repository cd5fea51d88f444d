------------------------- MODULE UnboundQueueProofs -------------------------
(***************************************************************************)
(* Memory safety of UnboundQueue for any heap and any records: the         *)
(* producer's trimming loop frees only nodes the consumer has left, and    *)
(* nothing that is allocated is forgotten.                                 *)
(***************************************************************************)
EXTENDS UnboundQueue, TLAPS

\* Where the threads are between two accesses.  "delete" is entered on a load
\* of divider_ that may be stale, but divider_ only ever moves away from
\* first_; the consumer's `nonempty' is as stale, but last_ only moves on.
Pending ==
  /\ ppc \in {"link", "publish"} =>
       next[fresh] = Null /\ \A i \in 1..Len(chain) : chain[i] # fresh
  /\ ppc = "delete" => dpos > 1
  /\ ppc \in {"none", "destroy"} => cpc = "idle"
  /\ ppc = "none" => chain = <<>>
  /\ ppc \in {"none", "destroy"} => dpos = Len(chain)
  /\ cpc # "idle" => dpos < Len(chain)
  /\ cpc \in {"value", "publish"} => ahead = chain[dpos + 1]

IInv == TypeOK /\ Linked /\ Pending /\ NoLeak

-----------------------------------------------------------------------------
\* A sequence with an index is not empty.
LEMMA NonEmpty ==
  ASSUME NEW s, 1 \in 1..Len(s)
  PROVE  s # <<>>
  <1>1. Len(<<>>) = 0 /\ 1 \notin 1..0
    OBVIOUS
  <1> QED
    BY <1>1

\* The cases the solver needs of the length of a sequence.
LEMMA Lengths ==
  ASSUME NEW S, NEW s \in Seq(S), s # <<>>
  PROVE  /\ ~(Len(s) >= 2) => Len(s) = 1
         /\ Len(s) >= 2 => Len(s) # 1 /\ 1 \in 1..(Len(s) - 1)
  <1>1. Len(s) \in Nat /\ Len(s) # 0
    OBVIOUS
  <1>2. \A n \in Nat : n # 0 /\ ~(n >= 2) => n = 1
    OBVIOUS
  <1>3. \A n \in Nat : n >= 2 => n # 1 /\ 1 \in 1..(n - 1)
    OBVIOUS
  <1> QED
    BY <1>1, <1>2, <1>3

\* What is left of a sequence without repetitions when its head is dropped.
LEMMA DropHead ==
  ASSUME NEW S, NEW s \in Seq(S), s # <<>>,
         \A i, j \in 1..Len(s) : i # j => s[i] # s[j]
  PROVE  /\ Tail(s) \in Seq(S)
         /\ Len(Tail(s)) = Len(s) - 1
         /\ \A i \in 1..(Len(s) - 1) : Tail(s)[i] = s[i + 1]
         /\ \A x : (\E i \in 1..Len(Tail(s)) : Tail(s)[i] = x)
                   <=> (\E i \in 1..Len(s) : s[i] = x) /\ x # s[1]
  <1>1. /\ Tail(s) \in Seq(S)
        /\ Len(Tail(s)) = Len(s) - 1
        /\ \A i \in 1..(Len(s) - 1) : Tail(s)[i] = s[i + 1]
    OBVIOUS
  <1>2. ASSUME NEW i \in 1..Len(s), i # 1
        PROVE  i - 1 \in 1..Len(Tail(s)) /\ Tail(s)[i - 1] = s[i]
    BY <1>1, <1>2
  <1>3. ASSUME NEW i \in 1..Len(Tail(s))
        PROVE  i + 1 \in 1..Len(s) /\ Tail(s)[i] = s[i + 1] /\ s[i + 1] # s[1]
    BY <1>1
  <1> QED
    BY <1>1, <1>2, <1>3

\* Before the constructor the heap and the list are empty.
LEMMA InitIInv == Init => IInv
  BY NullAssumption, RecordAssumption
  DEF Init, IInv, TypeOK, Cell, Linked, Distinct, Links, Ends, Pending, NoLeak

\* The owner's steps: the destructor runs when neither thread is inside.
LEMMA OwnerStep == IInv /\ Owner => IInv'
  <1> SUFFICES ASSUME IInv, Owner PROVE IInv'
    OBVIOUS
  <1> USE NullAssumption, RecordAssumption DEF IInv, Linked
  <1>1. ASSUME NEW n \in Node, Construct(n) PROVE IInv'
    <2> USE <1>1 DEF Construct, New, consumer
    <2>1. TypeOK'
      BY DEF TypeOK, Cell
    <2>2. Linked'
      BY DEF TypeOK, Distinct, Links, Ends
    <2>3. Pending'
      BY DEF TypeOK, Pending
    <2>4. NoLeak'
      BY DEF TypeOK, NoLeak, Pending
    <2> QED
      BY <2>1, <2>2, <2>3, <2>4
  <1>2. CASE StartDestroy
    <2> USE <1>2 DEF StartDestroy, consumer, heap
    <2>1. TypeOK'
      BY DEF TypeOK, Cell
    <2>2. Linked'
      BY DEF TypeOK, Distinct, Links, Ends
    <2>3. Pending'
      BY DEF TypeOK, Pending
    <2>4. NoLeak'
      BY DEF TypeOK, NoLeak
    <2> QED
      BY <2>1, <2>2, <2>3, <2>4
  <1>3. CASE Destroy
    <2> USE <1>3 DEF Destroy, consumer, heap, history
    <2>1. CASE first = Null
      <3>1. chain = <<>>
        BY <2>1 DEF TypeOK, Distinct, Links, Ends
      <3> QED
        BY <2>1, <3>1 DEF TypeOK, Cell, Distinct, Links, Ends, Pending, NoLeak
    <2>2. CASE first # Null
      <3>1. /\ chain # <<>> /\ first = chain[1] /\ first \in Node
            /\ Len(chain) \in Nat /\ Len(chain) >= 1
        BY <2>2 DEF TypeOK, Distinct, Links, Ends, Cell
      <3>2. /\ Tail(chain) \in Seq(Node)
            /\ Len(Tail(chain)) = Len(chain) - 1
            /\ \A i \in 1..(Len(chain) - 1) : Tail(chain)[i] = chain[i + 1]
            /\ \A x : (\E i \in 1..Len(Tail(chain)) : Tail(chain)[i] = x)
                      <=> (\E i \in 1..Len(chain) : chain[i] = x) /\ x # chain[1]
        BY <3>1, DropHead DEF TypeOK, Distinct, Links, Ends
      <3>3. TypeOK'
        BY <2>2, <3>1, <3>2 DEF TypeOK, Cell, Pending
      <3>7. Linked'
        <4>1. next[chain[1]] = IF Len(chain) = 1 THEN Null ELSE chain[2]
          <5>0. /\ ~(Len(chain) >= 2) => Len(chain) = 1
                /\ Len(chain) >= 2 => Len(chain) # 1 /\ 1 \in 1..(Len(chain) - 1)
            BY <3>1, Lengths DEF TypeOK
          <5>1. CASE ~(Len(chain) >= 2)
            BY <3>1, <5>0, <5>1 DEF Ends
          <5>2. CASE Len(chain) >= 2
            BY <5>0, <5>2 DEF Links
          <5> QED
            BY <5>1, <5>2
        <4>2. first' = IF chain' = <<>> THEN Null ELSE chain'[1]
          BY <2>2, <3>1, <3>2, <4>1
        <4>3. Distinct'
          BY <2>2, <3>1, <3>2 DEF Distinct
        <4>4. Links'
          BY <2>2, <3>1, <3>2 DEF Links
        <4>5. chain' # <<>> => next'[chain'[Len(chain')]] = Null
          BY <2>2, <3>1, <3>2 DEF Ends
        <4> QED
          BY <2>2, <4>2, <4>3, <4>4, <4>5 DEF Ends
      <3>5. Pending'
        BY <2>2, <3>1, <3>2 DEF TypeOK, Pending
      <3>6. NoLeak'
        <4>1. /\ alloc' = alloc \ {chain[1]} /\ chain' = Tail(chain)
              /\ ppc = "destroy" /\ ppc' = "destroy"
          BY <2>2, <3>1
        <4> QED
          BY <3>2, <4>1 DEF NoLeak
      <3> QED
        BY <3>3, <3>5, <3>6, <3>7
    <2> QED
      BY <2>1, <2>2
  <1> QED
    BY <1>1, <1>2, <1>3 DEF Owner

\* The producer's steps.
LEMMA ProducerStep == IInv /\ Producer => IInv'
  <1> SUFFICES ASSUME IInv, Producer PROVE IInv'
    OBVIOUS
  <1> USE NullAssumption, RecordAssumption DEF IInv, Linked
  <1>1. ASSUME NEW n \in Node, NEW r \in Record, EnqueueAllocate(n, r)
        PROVE IInv'
    <2> USE <1>1 DEF EnqueueAllocate, New, consumer, history
    <2>1. TypeOK'
      BY DEF TypeOK, Cell
    <2>2. Linked'
      BY DEF TypeOK, Distinct, Links, Ends, NoLeak
    <2>3. Pending'
      BY DEF TypeOK, Pending, NoLeak
    <2>4. NoLeak'
      BY DEF TypeOK, NoLeak
    <2> QED
      BY <2>1, <2>2, <2>3, <2>4
  <1>2. CASE EnqueueLink
    <2> USE <1>2 DEF EnqueueLink, consumer, history
    <2>1. TypeOK'
      BY DEF TypeOK, Cell
    <2>2. Linked'
      BY DEF TypeOK, Distinct, Links, Ends, Pending
    <2>3. Pending'
      BY DEF TypeOK, Pending, Distinct, Links, Ends
    <2>4. NoLeak'
      BY DEF TypeOK, NoLeak
    <2> QED
      BY <2>1, <2>2, <2>3, <2>4
  <1>3. CASE EnqueuePublish
    <2> USE <1>3 DEF EnqueuePublish, consumer, heap
    <2>1. TypeOK'
      BY DEF TypeOK, Cell
    <2>0. /\ Len(chain) \in Nat /\ Len(chain') = Len(chain) + 1
          /\ \A i \in 1..Len(chain) : chain'[i] = chain[i]
          /\ chain'[Len(chain')] = fresh
          /\ chain' # <<>> /\ chain # <<>>
      BY DEF TypeOK, Distinct, Links, Ends
    <2>2. Linked'
      <3>1. Distinct'
        BY <2>0 DEF Distinct, Pending
      <3>2. Links'
        BY <2>0 DEF Links, Ends
      <3>3. next'[chain'[Len(chain')]] = Null
        BY <2>0 DEF Pending
      <3> QED
        BY <2>0, <3>1, <3>2, <3>3 DEF Ends
    <2>3. Pending'
      BY <2>0 DEF TypeOK, Pending, Distinct, Links, Ends
    <2>4. NoLeak'
      BY <2>0 DEF TypeOK, NoLeak, Distinct, Links, Ends
    <2> QED
      BY <2>1, <2>2, <2>3, <2>4
  <1>4. CASE EnqueueTrim
    <2> USE <1>4 DEF EnqueueTrim, consumer, heap, history
    <2>1. TypeOK'
      BY DEF TypeOK, Cell
    <2>2. Linked'
      BY DEF TypeOK, Distinct, Links, Ends
    <2>3. Pending'
      BY DEF TypeOK, Pending, Distinct, Links, Ends
    <2>4. NoLeak'
      BY DEF TypeOK, NoLeak
    <2> QED
      BY <2>1, <2>2, <2>3, <2>4
  <1>5. CASE DeleteFirst
    <2> USE <1>5 DEF DeleteFirst, consumer
    <2>0. /\ dpos \in 2..Len(chain) /\ first = chain[1]
          /\ chain # <<>> /\ next[first] = chain[2] /\ chain[2] \in Node
      BY DEF TypeOK, Distinct, Links, Ends, Pending
    <2>5. /\ Tail(chain) \in Seq(Node)
          /\ Len(Tail(chain)) = Len(chain) - 1
          /\ \A i \in 1..(Len(chain) - 1) : Tail(chain)[i] = chain[i + 1]
          /\ \A x : (\E i \in 1..Len(Tail(chain)) : Tail(chain)[i] = x)
                    <=> (\E i \in 1..Len(chain) : chain[i] = x) /\ x # chain[1]
      BY <2>0, DropHead DEF TypeOK, Distinct, Links, Ends
    <2>1. TypeOK'
      BY <2>0, <2>5 DEF TypeOK, Cell
    <2>2. Linked'
      <3>1. Distinct'
        BY <2>0, <2>5 DEF Distinct
      <3>2. Links'
        BY <2>0, <2>5 DEF Links
      <3>3. next'[chain'[Len(chain')]] = Null
        BY <2>0, <2>5 DEF Ends
      <3> QED
        <4>1. /\ dpos - 1 \in 1..Len(chain') /\ chain'[dpos - 1] = chain[dpos]
              /\ chain'[1] = chain[2] /\ chain' # <<>>
              /\ chain'[Len(chain')] = chain[Len(chain)]
          <5>1. dpos \in 2..Len(chain) /\ 2 \in 2..Len(chain) /\ Len(chain) \in 2..Len(chain)
            BY <2>0
          <5>2. \A i \in 2..Len(chain) : i - 1 \in 1..Len(chain') /\ chain'[i - 1] = chain[i]
            BY <2>0, <2>5
          <5>3. Len(chain') = Len(chain) - 1 /\ chain' # <<>>
            <6>1. 1 \in 1..Len(chain')
              BY <5>1, <5>2
            <6>2. chain' # <<>>
              BY <2>5, <6>1, NonEmpty
            <6> QED
              BY <2>5, <6>2
          <5>4. chain'[1] = chain[2]
            BY <2>0, <2>5
          <5> QED
            BY <5>1, <5>2, <5>3, <5>4
        <4>2. /\ dpos' = dpos - 1 /\ first' = chain[2]
              /\ divider' = chain[dpos] /\ last' = chain[Len(chain)]
              /\ ppc' = "trim"
          BY <2>0 DEF Ends
        <4> QED
          BY <3>1, <3>2, <3>3, <4>1, <4>2 DEF Ends
    <2>3. Pending'
      BY <2>0, <2>5 DEF TypeOK, Pending
    <2>4. NoLeak'
      BY <2>0, <2>5 DEF TypeOK, NoLeak, Distinct, Links, Ends
    <2> QED
      BY <2>1, <2>2, <2>3, <2>4
  <1> QED
    BY <1>1, <1>2, <1>3, <1>4, <1>5 DEF Producer, EnqueueRest

\* The consumer's steps move only divider_.
LEMMA ConsumerStep == IInv /\ Consumer => IInv'
  <1> SUFFICES ASSUME IInv, Consumer PROVE IInv'
    OBVIOUS
  <1> USE NullAssumption, RecordAssumption DEF IInv, Linked
  <1>0. NoLeak'
    BY DEF Consumer, DequeueRest, CheckNotEmpty, Peek, DequeueNext, DequeueValue,
           DequeuePublish, NoLeak, heap, history, producer
  <1>1. TypeOK'
    BY DEF Consumer, DequeueRest, CheckNotEmpty, Peek, DequeueNext, DequeueValue,
           DequeuePublish, TypeOK, Cell, heap, history, producer, Distinct, Links, Ends, Pending
  <1>2. Linked'
    BY DEF Consumer, DequeueRest, CheckNotEmpty, Peek, DequeueNext, DequeueValue,
           DequeuePublish, TypeOK, Distinct, Links, Ends, Pending, heap, history, producer
  <1>3. Pending'
    BY DEF Consumer, DequeueRest, CheckNotEmpty, Peek, DequeueNext, DequeueValue,
           DequeuePublish, TypeOK, Distinct, Links, Ends, Pending, heap, history, producer, IsEmpty
  <1> QED
    BY <1>0, <1>1, <1>2, <1>3

\* What is not the queue's own step changes nothing.
LEMMA StutterStep == IInv /\ UNCHANGED vars => IInv'
  BY DEF vars, heap, producer, consumer, history, IInv, TypeOK, Cell, Linked, Distinct, Links, Ends,
         Pending, NoLeak

\* The list stays well formed under every interleaving of the two threads.
THEOREM Invariance == Spec => []IInv
  <1>1. IInv /\ [Next]_vars => IInv'
    BY OwnerStep, ProducerStep, ConsumerStep, StutterStep DEF Next
  <1> QED
    BY InitIInv, <1>1, PTL DEF Spec

\* The fields and local variables keep their types.
THEOREM TypeCorrect == Spec => []TypeOK
  BY Invariance, PTL DEF IInv

\* No thread ever follows a pointer to a freed node.
THEOREM NoUseAfterFreeThm == Spec => []NoUseAfterFree
  <1>1. IInv => NoUseAfterFree
    <2> SUFFICES ASSUME IInv PROVE NoUseAfterFree
      OBVIOUS
    <2> USE DEF IInv, Linked
    <2>1. \A i \in 1..Len(chain) : chain[i] \in alloc
      BY DEF TypeOK, NoLeak
    <2>2. Len(chain) \in Nat /\ (chain # <<>> => 1 \in 1..Len(chain))
      BY DEF TypeOK
    <2>3. ppc = "link" => last \in alloc
      BY <2>1, <2>2 DEF Ends
    <2>4. ppc \in {"delete", "destroy"} => first \in alloc \cup {Null}
      BY <2>1, <2>2 DEF Ends
    <2>5. ppc = "delete" => first # Null
      BY DEF TypeOK
    <2>6. cpc # "idle" => /\ dpos \in 1..Len(chain) /\ dpos + 1 \in 1..Len(chain)
                          /\ dpos \in 1..(Len(chain) - 1) /\ divider = chain[dpos]
      BY <2>2 DEF Pending, Ends, TypeOK
    <2>7. cpc = "nonempty" => divider \in alloc /\ next[divider] \in alloc
      BY <2>1, <2>6 DEF Links
    <2>8. cpc = "value" => ahead \in alloc
      BY <2>1, <2>6 DEF Pending
    <2> QED
      BY <2>3, <2>4, <2>5, <2>7, <2>8 DEF NoUseAfterFree
  <1> QED
    BY <1>1, Invariance, PTL

\* What is allocated is what the queue still holds.
THEOREM NoLeakThm == Spec => []NoLeak
  BY Invariance, PTL DEF IInv

-----------------------------------------------------------------------------
(* What the consumer has read, and the refinement of module Fifo.          *)

\* Every node after divider_ holds a record, and what the consumer has read
\* of the node after divider_ is still what is there.
Reading ==
  /\ \A i \in 1..Len(chain) : i > dpos => value[chain[i]] \in Record
  /\ ppc \in {"link", "publish"} => value[fresh] \in Record
  /\ cpc = "idle" => peeked = NoRecord
  /\ cpc # "idle" /\ peeked # NoRecord => peeked = value[chain[dpos + 1]]
  /\ cpc = "publish" => rec = value[chain[dpos + 1]]

\* The producer changes no node from divider_ on, except to link a new one
\* behind the last.
LEMMA ReadingStep == IInv /\ Reading /\ [Next]_vars => Reading'
  <1> SUFFICES ASSUME IInv, Reading, [Next]_vars PROVE Reading'
    OBVIOUS
  <1> USE DEF IInv, Linked
  <1>0. /\ chain \in Seq(Node) /\ Len(chain) \in Nat /\ dpos \in Nat
        /\ \A i \in 1..Len(chain) : chain[i] \in alloc /\ chain[i] \in Node
        /\ cpc # "idle" => dpos + 1 \in 1..Len(chain)
    BY DEF TypeOK, NoLeak, Pending
  <1>1. ASSUME NEW n \in Node, Construct(n) PROVE Reading'
    BY <1>0, <1>1 DEF Construct, New, consumer, Reading, Pending
  <1>2. CASE StartDestroy
    BY <1>0, <1>2 DEF StartDestroy, consumer, heap, Reading
  <1>3. CASE Destroy
    <2>1. cpc = "idle" /\ cpc' = "idle" /\ peeked' = peeked /\ ppc' \notin {"link", "publish"}
      BY <1>3 DEF Destroy, consumer, Pending
    <2>2. \A i \in 1..Len(chain') : ~(i > dpos')
      <3>1. dpos = Len(chain)
        BY <1>3 DEF Destroy, Pending
      <3>2. CASE first = Null
        BY <1>0, <1>3, <3>1, <3>2 DEF Destroy, history
      <3>3. CASE first # Null
        <4>1. chain # <<>>
          BY <3>3 DEF Ends
        <4>2. Len(Tail(chain)) = Len(chain) - 1
          BY <1>0, <4>1
        <4> QED
          BY <1>0, <1>3, <3>1, <3>3, <4>2 DEF Destroy
      <3> QED
        BY <3>2, <3>3
    <2> QED
      BY <2>1, <2>2 DEF Reading
  <1>4. ASSUME NEW n \in Node, NEW r \in Record, EnqueueAllocate(n, r) PROVE Reading'
    BY <1>0, <1>4 DEF EnqueueAllocate, New, consumer, history, Reading, TypeOK
  <1>5. CASE EnqueueLink
    BY <1>0, <1>5 DEF EnqueueLink, consumer, history, Reading
  <1>6. CASE EnqueuePublish
    <2>1. /\ Len(chain') = Len(chain) + 1
          /\ \A i \in 1..Len(chain) : chain'[i] = chain[i]
          /\ chain'[Len(chain')] = fresh
      BY <1>0, <1>6 DEF EnqueuePublish, TypeOK
    <2> QED
      BY <1>0, <1>6, <2>1 DEF EnqueuePublish, consumer, heap, Reading
  <1>7. CASE EnqueueTrim
    BY <1>0, <1>7 DEF EnqueueTrim, consumer, heap, history, Reading
  <1>8. CASE DeleteFirst
    <2>1. chain # <<>> /\ dpos > 1
      BY <1>8 DEF DeleteFirst, Pending, Ends, TypeOK
    <2>2. /\ Len(chain') = Len(chain) - 1
          /\ \A i \in 1..(Len(chain) - 1) : chain'[i] = chain[i + 1]
      BY <1>0, <1>8, <2>1 DEF DeleteFirst
    <2>3. chain'[dpos' + 1] = chain[dpos + 1] \/ cpc = "idle"
      BY <1>0, <1>8, <2>1, <2>2 DEF DeleteFirst
    <2> QED
      <3>1. ASSUME NEW i \in 1..Len(chain'), i > dpos'
            PROVE  value'[chain'[i]] \in Record
        <4>1. i + 1 \in 1..Len(chain) /\ i + 1 > dpos /\ chain'[i] = chain[i + 1]
          BY <1>0, <1>8, <2>2, <3>1 DEF DeleteFirst
        <4> QED
          BY <1>8, <4>1 DEF DeleteFirst, Reading
      <3> QED
        BY <1>8, <2>3, <3>1 DEF DeleteFirst, consumer, Reading
  <1>9. CASE CheckNotEmpty \/ Peek \/ DequeueNext \/ DequeueValue
    <2>1. cpc # "idle" => next[divider] = chain[dpos + 1]
      BY <1>0 DEF Pending, Ends, Links, TypeOK
    <2> QED
      BY <1>0, <1>9, <2>1 DEF CheckNotEmpty, Peek, DequeueNext, DequeueValue, heap, history,
         producer, Reading, Pending
  <1>10. CASE DequeuePublish
    BY <1>0, <1>10 DEF DequeuePublish, heap, producer, Reading
  <1>11. CASE UNCHANGED vars
    BY <1>11 DEF vars, heap, producer, consumer, history, Reading
  <1> QED
    BY <1>1, <1>2, <1>3, <1>4, <1>5, <1>6, <1>7, <1>8, <1>9, <1>10, <1>11
    DEF Next, Owner, Producer, EnqueueRest, Consumer, DequeueRest

\* The consumer's local variables agree with the list at all times.
THEOREM ReadingInvariance == Spec => []Reading
  <1>1. Init => Reading
    BY DEF Init, Reading
  <1> QED
    BY <1>1, Invariance, ReadingStep, PTL DEF Spec

\* Dequeue returns the record that Peek showed.
THEOREM PeekedIsDequeuedThm == Spec => []PeekedIsDequeued
  <1>1. IInv /\ Reading => PeekedIsDequeued
    BY DEF Reading, PeekedIsDequeued, IInv
  <1> QED
    BY <1>1, Invariance, ReadingInvariance, PTL

-----------------------------------------------------------------------------
\* The abstract queue, element by element.
QueuedIs ==
  /\ Len(chain) - dpos \in Nat
  /\ Queued \in Seq(Record)
  /\ Len(Queued) = Len(chain) - dpos
  /\ \A i \in 1..(Len(chain) - dpos) : Queued[i] = value[chain[dpos + i]]

\* The records after divider_, as a sequence.
LEMMA QueuedType == IInv /\ Reading => QueuedIs
  <1> SUFFICES ASSUME IInv, Reading PROVE QueuedIs
    OBVIOUS
  <1>1. Len(chain) \in Nat /\ dpos \in Nat /\ Len(chain) - dpos \in Nat
    BY DEF IInv, TypeOK, Linked, Ends, Pending
  <1>2. ASSUME NEW i \in 1..(Len(chain) - dpos)
        PROVE  value[chain[dpos + i]] \in Record
    <2>1. dpos + i \in 1..Len(chain) /\ dpos + i > dpos
      BY <1>1
    <2> QED
      BY <2>1 DEF Reading
  <1> QED
    BY <1>1, <1>2 DEF Queued, QueuedIs

\* The refinement mapping always yields a queue of records.
THEOREM QueuedInvariance == Spec => []QueuedIs
  BY QueuedType, Invariance, ReadingInvariance, PTL

\* Two sequences of the same length with the same elements are the same.
LEMMA SameSequence ==
  ASSUME NEW S, NEW s \in Seq(S), NEW t \in Seq(S), Len(s) = Len(t),
         \A i \in 1..Len(s) : s[i] = t[i]
  PROVE  s = t
  OBVIOUS

\* A step that moves neither the published records nor divider_ past one of
\* them leaves the abstract queue alone.
LEMMA QueuedStutter ==
  ASSUME QueuedIs, QueuedIs',
         Len(chain') - dpos' = Len(chain) - dpos,
         \A i \in 1..(Len(chain) - dpos) :
           value'[chain'[dpos' + i]] = value[chain[dpos + i]]
  PROVE  Queued' = Queued
  BY SameSequence DEF QueuedIs

\* With divider_ at the end of the list, the abstract queue is empty.
LEMMA EmptyQueue == QueuedIs /\ dpos = Len(chain) => Queued = <<>>
  BY DEF QueuedIs

-----------------------------------------------------------------------------
\* The initial states map to the empty queue.
LEMMA InitRefines == Init => Abstract!Init
  BY DEF Init, Abstract!Init, Queued

\* Each step maps to a Put, a Take, a Drop or a stutter.
LEMMA StepRefines ==
  IInv /\ Reading /\ QueuedIs /\ QueuedIs' /\ [Next]_vars
    => [Abstract!Next]_<<Queued, taken>>
  <1> SUFFICES ASSUME IInv, Reading, QueuedIs, QueuedIs', [Next]_vars
               PROVE  \/ Abstract!Next
                      \/ Queued' = Queued /\ taken' = taken
    OBVIOUS
  <1>0. /\ chain \in Seq(Node) /\ Len(chain) \in Nat /\ dpos \in Nat
        /\ Len(chain) - dpos \in Nat
        /\ \A i \in 1..Len(chain) : chain[i] \in alloc /\ chain[i] \in Node
    BY DEF IInv, TypeOK, NoLeak, QueuedIs
  <1>1. ASSUME NEW n \in Node, Construct(n) PROVE Queued' = Queued /\ taken' = taken
    <2>1. Len(chain') = 1 /\ dpos' = 1 /\ Len(chain) - dpos = 0
      BY <1>0, <1>1 DEF Construct, IInv, Pending
    <2> QED
      BY <1>1, <2>1, QueuedStutter DEF Construct
  <1>2. CASE StartDestroy
    <2>1. Len(chain') - dpos' = 0
      BY <1>0, <1>2 DEF StartDestroy
    <2>2. Queued' = <<>>
      BY <2>1 DEF QueuedIs
    <2> QED
      BY <1>2, <2>2 DEF StartDestroy, Abstract!Next, Abstract!Drop
  <1>3. CASE Destroy
    <2>1. Len(chain) - dpos = 0
      BY <1>0, <1>3 DEF Destroy, IInv, Pending
    <2>2. Len(chain') - dpos' = Len(chain) - dpos
      <3>1. CASE first = Null
        BY <1>3, <3>1 DEF Destroy, history
      <3>2. CASE first # Null
        <4>1. chain # <<>>
          BY <3>2 DEF IInv, Linked, Ends
        <4>2. Len(Tail(chain)) = Len(chain) - 1
          BY <1>0, <4>1
        <4> QED
          BY <1>0, <1>3, <3>2, <4>2 DEF Destroy
      <3> QED
        BY <3>1, <3>2
    <2> QED
      BY <1>3, <2>1, <2>2, QueuedStutter DEF Destroy
  <1>4. ASSUME NEW n \in Node, NEW r \in Record, EnqueueAllocate(n, r)
        PROVE  Queued' = Queued /\ taken' = taken
    <2>1. \A i \in 1..(Len(chain) - dpos) : dpos + i \in 1..Len(chain)
      BY <1>0
    <2>2. \A i \in 1..(Len(chain) - dpos) : value'[chain[dpos + i]] = value[chain[dpos + i]]
      BY <1>0, <1>4, <2>1 DEF EnqueueAllocate, New, IInv, TypeOK
    <2> QED
      BY <1>4, <2>2, QueuedStutter DEF EnqueueAllocate, history
  <1>5. CASE EnqueueLink \/ EnqueueTrim
    BY <1>5, QueuedStutter DEF EnqueueLink, EnqueueTrim, history, heap
  <1>6. CASE EnqueuePublish
    <2>1. /\ Len(chain') = Len(chain) + 1
          /\ \A i \in 1..Len(chain) : chain'[i] = chain[i]
          /\ chain'[Len(chain) + 1] = fresh
      BY <1>0, <1>6 DEF EnqueuePublish, IInv, TypeOK
    <2>2. value[fresh] \in Record /\ value' = value /\ dpos' = dpos /\ taken' = taken
      BY <1>6 DEF EnqueuePublish, Reading, heap
    <2>3. Len(Queued') = Len(Queued) + 1
      BY <1>0, <2>1, <2>2 DEF QueuedIs
    <2>4. ASSUME NEW i \in 1..Len(Queued) PROVE Queued'[i] = Queued[i]
      <3>1. i \in 1..(Len(chain) - dpos) /\ i \in 1..(Len(chain') - dpos')
            /\ dpos + i \in 1..Len(chain)
        BY <1>0, <2>1, <2>2, <2>4 DEF QueuedIs
      <3> QED
        BY <2>1, <2>2, <3>1 DEF QueuedIs
    <2>5. Queued'[Len(Queued) + 1] = value[fresh]
      <3>1. /\ Len(Queued) + 1 \in 1..(Len(chain') - dpos')
            /\ dpos' + (Len(Queued) + 1) = Len(chain) + 1
        BY <1>0, <2>1, <2>2 DEF QueuedIs
      <3> QED
        BY <2>1, <2>2, <3>1 DEF QueuedIs
    <2>6. Queued' = Append(Queued, value[fresh])
      BY <2>2, <2>3, <2>4, <2>5 DEF QueuedIs
    <2> QED
      BY <2>2, <2>6 DEF Abstract!Next, Abstract!Put
  <1>7. CASE DeleteFirst
    <2>1. chain # <<>> /\ dpos > 1
      BY <1>7 DEF DeleteFirst, IInv, Pending, Linked, Ends, TypeOK
    <2>2. /\ Len(chain') = Len(chain) - 1
          /\ \A i \in 1..(Len(chain) - 1) : chain'[i] = chain[i + 1]
          /\ dpos' = dpos - 1 /\ value' = value /\ taken' = taken
      BY <1>0, <1>7, <2>1 DEF DeleteFirst
    <2>3. ASSUME NEW i \in 1..(Len(chain) - dpos)
          PROVE  chain'[dpos' + i] = chain[dpos + i]
      <3>1. /\ dpos' + i \in 1..(Len(chain) - 1)
            /\ (dpos' + i) + 1 = dpos + i
        BY <1>0, <2>1, <2>2
      <3> QED
        BY <2>2, <3>1
    <2>4. Len(chain') - dpos' = Len(chain) - dpos
      BY <1>0, <2>2
    <2> QED
      BY <2>2, <2>3, <2>4, QueuedStutter
  <1>8. CASE CheckNotEmpty \/ Peek \/ DequeueNext \/ DequeueValue
    BY <1>8, QueuedStutter DEF CheckNotEmpty, Peek, DequeueNext, DequeueValue, heap, history
  <1>9. CASE DequeuePublish
    <2>1. /\ chain' = chain /\ dpos' = dpos + 1 /\ value' = value
          /\ taken' = value[chain[dpos + 1]]
          /\ dpos < Len(chain)
      BY <1>9 DEF DequeuePublish, Reading, IInv, Pending, heap
    <2>2. Len(Queued) \in Nat /\ Len(Queued) >= 1 /\ Len(Queued') = Len(Queued) - 1
      BY <1>0, <2>1 DEF QueuedIs
    <2>3. Queued # <<>>
      <3>1. 1 \in 1..Len(Queued)
        BY <2>2
      <3> QED
        BY <3>1, NonEmpty
    <2>4. taken' = Queued[1]
      <3>1. 1 \in 1..(Len(chain) - dpos)
        BY <1>0, <2>1
      <3> QED
        BY <2>1, <3>1 DEF QueuedIs
    <2>5. ASSUME NEW i \in 1..Len(Queued') PROVE Queued'[i] = Queued[i + 1]
      <3>1. /\ i \in 1..(Len(chain') - dpos') /\ i + 1 \in 1..(Len(chain) - dpos)
            /\ dpos' + i = dpos + (i + 1)
        BY <1>0, <2>1, <2>2, <2>5 DEF QueuedIs
      <3> QED
        BY <2>1, <3>1 DEF QueuedIs
    <2>6. /\ Tail(Queued) \in Seq(Record) /\ Len(Tail(Queued)) = Len(Queued) - 1
          /\ \A i \in 1..(Len(Queued) - 1) : Tail(Queued)[i] = Queued[i + 1]
      BY <2>3 DEF QueuedIs
    <2>7. Queued' = Tail(Queued)
      BY <2>2, <2>5, <2>6, SameSequence DEF QueuedIs
    <2>8. taken' = Head(Queued)
      BY <2>3, <2>4 DEF QueuedIs
    <2> QED
      BY <2>3, <2>7, <2>8 DEF Abstract!Next, Abstract!Take
  <1>10. CASE UNCHANGED vars
    BY <1>10, QueuedStutter DEF vars, heap, history
  <1> QED
    BY <1>1, <1>2, <1>3, <1>4, <1>5, <1>6, <1>7, <1>8, <1>9, <1>10
    DEF Next, Owner, Producer, EnqueueRest, Consumer, DequeueRest

\* UnboundQueue is a first-in first-out queue, whatever the interleaving of
\* its producer and its consumer and whatever cells the heap hands out.
THEOREM Refinement == Spec => ImplementsFifo
  <1>1. QueuedIs /\ QueuedIs' /\ IInv /\ Reading /\ [Next]_vars
          => [Abstract!Next]_<<Queued, taken>>
    BY StepRefines
  <1> QED
    BY <1>1, InitRefines, Invariance, ReadingInvariance, QueuedInvariance, PTL
    DEF Spec, ImplementsFifo, Abstract!Spec
=============================================================================
