------------------------ MODULE MCIncrementalMarking ------------------------
(* A large array of two chunks, an object and a cell with one field each. *)
EXTENDS IncrementalMarking

CONSTANTS array, object, cell

Sizes == [o \in Obj |-> IF o \in Large THEN 2 ELSE 1]
=============================================================================
