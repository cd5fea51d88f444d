---------------------------- MODULE MCStackGuard ----------------------------
(* Stacks and limits for the threads: the addresses of a stack lie under,   *)
(* between and above the two limits of its thread.                         *)
EXTENDS StackGuard

CONSTANTS t1, t2

Stacks == [t \in Thread |-> IF t = t1 THEN {11, 15} ELSE {21}]
Defaults == [t \in Thread |-> IF t = t1 THEN 12 ELSE 22]
Deeper == [t \in Thread |-> IF t = t1 THEN {14} ELSE {}]
NoChoice == [t \in Thread |-> {}]
=============================================================================
