---------------------------- MODULE UnboundQueue ----------------------------
(***************************************************************************)
(* The lock-free single-producer single-consumer queue of unbound-queue.h  *)
(* and unbound-queue-inl.h, one action per shared memory access that the   *)
(* other thread can observe.  Nodes are heap cells: `new' takes any cell   *)
(* that is not allocated, a cell freed earlier included, so a stale        *)
(* pointer is not recognisable by its address.  Accesses take effect in    *)
(* program order (the ReleaseStores of the code, on an ordered memory).    *)
(*                                                                         *)
(* `chain' and `dpos' are history variables: the cells from first_ to      *)
(* last_ in the order they were published, and the position of divider_.   *)
(***************************************************************************)
EXTENDS Naturals, Sequences

CONSTANTS Node,      \* heap cells
          Record,    \* the values that are queued
          NoRecord,  \* Record(): the value of the constructor's dummy node
          Null       \* the NULL pointer

ASSUME NullAssumption == Null \notin Node
ASSUME RecordAssumption == NoRecord \notin Record

VARIABLES alloc, value, next,       \* the heap: allocated cells and their fields
          first, divider, last,     \* the fields of the queue
          ppc, fresh,               \* the producer: its step, the node of `new Node(rec)'
          cpc, ahead, rec, peeked,  \* the consumer: its step, its local `next', *rec, *Peek()
          taken,                    \* what the last completed Dequeue returned
          chain, dpos               \* history

heap == <<alloc, value, next>>
producer == <<ppc, fresh>>
consumer == <<cpc, ahead, rec, peeked>>
history == <<chain, dpos>>
vars == <<heap, first, divider, last, producer, consumer, taken, history>>

Cell == Node \cup {Null}

TypeOK ==
  /\ alloc \in SUBSET Node
  /\ value \in [Node -> Record \cup {NoRecord}]
  /\ next \in [Node -> Cell]
  /\ first \in Cell /\ divider \in Cell /\ last \in Cell
  /\ ppc \notin {"none", "destroy"} => Null \notin {first, divider, last}
  /\ ppc \in {"none", "idle", "link", "publish", "trim", "delete", "destroy"}
  /\ fresh \in IF ppc \in {"link", "publish"} THEN Node ELSE {Null}
  /\ cpc \in {"idle", "nonempty", "value", "publish"}
  /\ ahead \in IF cpc \in {"value", "publish"} THEN Node ELSE {Null}
  /\ rec \in Record \cup {NoRecord}
  /\ peeked \in Record \cup {NoRecord}
  /\ taken \in Record \cup {NoRecord}
  /\ chain \in Seq(Node)
  /\ dpos \in Nat

Init ==
  /\ alloc = {}
  /\ value = [n \in Node |-> NoRecord] /\ next = [n \in Node |-> Null]
  /\ first = Null /\ divider = Null /\ last = Null
  /\ ppc = "none" /\ fresh = Null
  /\ cpc = "idle" /\ ahead = Null /\ rec = NoRecord /\ peeked = NoRecord
  /\ taken = NoRecord
  /\ chain = <<>> /\ dpos = 0

New(n, r) ==
  /\ n \notin alloc
  /\ alloc' = alloc \cup {n}
  /\ value' = [value EXCEPT ![n] = r]
  /\ next' = [next EXCEPT ![n] = Null]

-----------------------------------------------------------------------------
(* The owner: construction and destruction, with neither thread inside.    *)

\* A constructor that leaves divider_ uninitialised.
BugConstruct(n) ==
  /\ ppc = "none"
  /\ New(n, NoRecord)
  /\ first' = n /\ last' = n
  /\ ppc' = "idle"
  /\ chain' = <<n>> /\ dpos' = 1
  /\ UNCHANGED <<divider, fresh, consumer, taken>>

Construct(n) ==
  /\ ppc = "none"
  /\ New(n, NoRecord)
  /\ first' = n /\ divider' = n /\ last' = n
  /\ ppc' = "idle"
  /\ chain' = <<n>> /\ dpos' = 1
  /\ UNCHANGED <<fresh, consumer, taken>>

StartDestroy ==
  /\ ppc = "idle" /\ cpc = "idle"
  /\ ppc' = "destroy"
  /\ taken' = NoRecord
  /\ dpos' = Len(chain)  \* no record is left to take
  /\ UNCHANGED <<heap, first, divider, last, fresh, consumer, chain>>

\* while (first_ != NULL) DeleteFirst();
Destroy ==
  /\ ppc = "destroy"
  /\ IF first = Null
     THEN /\ ppc' = "none"
          /\ divider' = Null /\ last' = Null  \* the object is gone
          /\ UNCHANGED <<alloc, first, history>>
     ELSE /\ first' = next[first]
          /\ alloc' = alloc \ {first}
          /\ chain' = Tail(chain) /\ dpos' = dpos - 1
          /\ UNCHANGED <<ppc, divider, last>>
  /\ UNCHANGED <<value, next, fresh, consumer, taken>>

-----------------------------------------------------------------------------
(* The producer: Enqueue.                                                  *)

EnqueueAllocate(n, r) ==
  /\ ppc = "idle"
  /\ New(n, r)
  /\ fresh' = n
  /\ ppc' = "link"
  /\ UNCHANGED <<first, divider, last, consumer, taken, history>>

EnqueueLink ==
  /\ ppc = "link"
  /\ next' = [next EXCEPT ![last] = fresh]
  /\ ppc' = "publish"
  /\ UNCHANGED <<alloc, value, first, divider, last, fresh, consumer, taken, history>>

EnqueuePublish ==
  /\ ppc = "publish"
  /\ last' = fresh
  /\ ppc' = "trim"
  /\ fresh' = Null
  /\ chain' = Append(chain, fresh)
  /\ UNCHANGED <<heap, first, divider, consumer, taken, dpos>>

\* A trimming loop that runs up to last_ instead of divider_.
BugTrimToLast ==
  /\ ppc = "trim"
  /\ ppc' = IF first # last THEN "delete" ELSE "idle"
  /\ UNCHANGED <<heap, first, divider, last, fresh, consumer, taken, history>>

\* A trimming loop whose body is never entered: the producer spins.
BugTrimNever ==
  /\ ppc = "trim"
  /\ ppc' = IF first # divider THEN "trim" ELSE "idle"
  /\ UNCHANGED <<heap, first, divider, last, fresh, consumer, taken, history>>

\* The loop test: one load of divider_, which the consumer may be moving.
EnqueueTrim ==
  /\ ppc = "trim"
  /\ ppc' = IF first # divider THEN "delete" ELSE "idle"
  /\ UNCHANGED <<heap, first, divider, last, fresh, consumer, taken, history>>

\* DeleteFirst without its delete.
BugForgetFirst ==
  /\ ppc = "delete"
  /\ first' = next[first]
  /\ ppc' = "trim"
  /\ chain' = Tail(chain) /\ dpos' = dpos - 1
  /\ UNCHANGED <<heap, divider, last, fresh, consumer, taken>>

DeleteFirst ==
  /\ ppc = "delete"
  /\ first' = next[first]
  /\ alloc' = alloc \ {first}
  /\ ppc' = "trim"
  /\ chain' = Tail(chain) /\ dpos' = dpos - 1
  /\ UNCHANGED <<value, next, divider, last, fresh, consumer, taken>>

-----------------------------------------------------------------------------
(* The consumer: IsEmpty, then any number of Peeks, then Dequeue.          *)

IsEmpty == divider = last

CheckNotEmpty ==
  /\ ppc \notin {"none", "destroy"}
  /\ cpc = "idle"
  /\ ~IsEmpty
  /\ cpc' = "nonempty"
  /\ UNCHANGED <<heap, first, divider, last, producer, ahead, rec, peeked, taken, history>>

\* A Peek that looks at the node divider_ points to.
BugPeekDivider ==
  /\ cpc = "nonempty" /\ peeked = NoRecord
  /\ value[divider] # NoRecord
  /\ peeked' = value[divider]
  /\ UNCHANGED <<heap, first, divider, last, producer, cpc, ahead, rec, taken, history>>

Peek ==
  /\ cpc = "nonempty"
  /\ peeked' = value[next[divider]]
  /\ UNCHANGED <<heap, first, divider, last, producer, cpc, ahead, rec, taken, history>>

\* A Dequeue that takes the node divider_ points to, not the one after it.
BugDequeueDivider ==
  /\ cpc = "nonempty"
  /\ ahead' = divider
  /\ cpc' = "value"
  /\ UNCHANGED <<heap, first, divider, last, producer, rec, peeked, taken, history>>

DequeueNext ==
  /\ cpc = "nonempty"
  /\ ahead' = next[divider]
  /\ cpc' = "value"
  /\ UNCHANGED <<heap, first, divider, last, producer, rec, peeked, taken, history>>

DequeueValue ==
  /\ cpc = "value"
  /\ rec' = value[ahead]
  /\ cpc' = "publish"
  /\ UNCHANGED <<heap, first, divider, last, producer, ahead, peeked, taken, history>>

DequeuePublish ==
  /\ cpc = "publish"
  /\ divider' = ahead
  /\ taken' = rec
  /\ ahead' = Null /\ rec' = NoRecord /\ peeked' = NoRecord  \* locals die
  /\ cpc' = "idle"
  /\ dpos' = dpos + 1
  /\ UNCHANGED <<heap, first, last, producer, chain>>

-----------------------------------------------------------------------------
Owner == (\E n \in Node : Construct(n)) \/ StartDestroy \/ Destroy
EnqueueRest == EnqueueLink \/ EnqueuePublish \/ EnqueueTrim \/ DeleteFirst
Producer == (\E n \in Node, r \in Record : EnqueueAllocate(n, r)) \/ EnqueueRest
DequeueRest == DequeueNext \/ DequeueValue \/ DequeuePublish
Consumer == CheckNotEmpty \/ Peek \/ DequeueRest

Next == Owner \/ Producer \/ Consumer

\* A thread inside Enqueue, and the destructor, run on until they return.
Fairness == WF_vars(EnqueueRest) /\ WF_vars(Destroy)

Spec == Init /\ [][Next]_vars /\ Fairness

-----------------------------------------------------------------------------
(* Properties.                                                             *)

\* The shape of the list: from first_ the links run through consumed nodes
\* to divider_ and on to last_, and end there.
Distinct == \A i, j \in 1..Len(chain) : i # j => chain[i] # chain[j]

Links == \A i \in 1..(Len(chain) - 1) : next[chain[i]] = chain[i + 1]

Ends ==
  /\ first = IF chain = <<>> THEN Null ELSE chain[1]
  /\ chain # <<>> /\ ppc # "publish" => next[chain[Len(chain)]] = Null
  /\ ppc = "publish" => next[last] = fresh
  /\ ppc \notin {"none", "destroy"} =>
       /\ dpos \in 1..Len(chain)
       /\ divider = chain[dpos]
       /\ last = chain[Len(chain)]

Linked == Distinct /\ Links /\ Ends

\* Every pointer a thread is about to follow is a cell that is still
\* allocated: the producer's deletion of consumed nodes in Enqueue never
\* takes a node that the consumer's Dequeue or Peek is using.
NoUseAfterFree ==
  /\ ppc = "link" => last \in alloc
  /\ ppc \in {"delete", "destroy"} => first \in alloc \cup {Null}
  /\ ppc = "delete" => first # Null
  /\ cpc = "nonempty" => divider \in alloc /\ next[divider] \in alloc
  /\ cpc = "value" => ahead \in alloc

\* No node is lost: what is allocated is what first_ still reaches, plus the
\* node Enqueue has not published yet; after the destructor nothing is left.
NoLeak ==
  /\ \A n \in Node :
       n \in alloc <=> \/ \E i \in 1..Len(chain) : chain[i] = n
                       \/ ppc \in {"link", "publish"} /\ n = fresh
  /\ ppc = "none" => alloc = {}

\* Dequeue hands out the very record that Peek showed (the profiler decides
\* by Peek()->order and then dequeues), whatever the producer does between.
PeekedIsDequeued ==
  cpc = "publish" /\ peeked # NoRecord => rec = peeked

\* Enqueue and Dequeue implement the queue of module Fifo: nothing is lost,
\* duplicated or reordered, and Dequeue is never applied to an empty queue.
Queued == [i \in 1..(Len(chain) - dpos) |-> value[chain[dpos + i]]]
Abstract == INSTANCE Fifo WITH queue <- Queued
ImplementsFifo == Abstract!Spec

\* "producer never blocks": an Enqueue that started returns, although its
\* trimming loop chases a divider_ that the consumer keeps moving.
EnqueueReturns == (ppc = "link") ~> (ppc = "idle")
=============================================================================
