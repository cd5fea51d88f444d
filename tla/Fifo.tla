-------------------------------- MODULE Fifo --------------------------------
(***************************************************************************)
(* What V8's UnboundQueue promises its two users, without saying how: a    *)
(* sequence of records that one thread appends to and another takes from.  *)
(* `taken' is the record handed out by the last Dequeue that returned.     *)
(***************************************************************************)
EXTENDS Sequences

CONSTANTS Record, NoRecord

VARIABLES queue, taken

Init == queue = <<>> /\ taken = NoRecord

Put(r) == queue' = Append(queue, r) /\ UNCHANGED taken

Take == queue # <<>> /\ taken' = Head(queue) /\ queue' = Tail(queue)

\* The destructor drops whatever was not taken.
Drop == queue' = <<>> /\ taken' = NoRecord

Next == (\E r \in Record : Put(r)) \/ Take \/ Drop

Spec == Init /\ [][Next]_<<queue, taken>>
=============================================================================
