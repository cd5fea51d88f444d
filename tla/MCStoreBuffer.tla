--------------------------- MODULE MCStoreBuffer ---------------------------
(* A page with as many slots as the old buffer ever has entries, and one    *)
(* with a single slot that a collection may free.  All share a bucket.     *)
EXTENDS StoreBuffer

CONSTANTS p1, p2, b1, b2

Pages == [s \in Slot |-> IF s < 15 THEN p1 ELSE p2]
Low == [s \in Slot |-> b1]
Table == <<[step |-> 2, threshold |-> 1], [step |-> 1, threshold |-> 0]>>
============================================================================
