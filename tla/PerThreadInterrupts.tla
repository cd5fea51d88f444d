-------------------------- MODULE PerThreadInterrupts --------------------------
(***************************************************************************)
(* What the users of v8::Locker and v8::Unlocker may rely on: each thread  *)
(* that is inside V8 has interrupt requests of its own.  One thread runs   *)
(* at a time, it alone handles its requests, and a thread that waits for   *)
(* its turn keeps the requests it has until it runs again.                 *)
(***************************************************************************)
CONSTANTS Thread, Interrupt, Preempt, None

VARIABLES
    inside,    \* the threads that are inside an outermost Locker
    running,   \* the one of them that may use V8, or None
    pending    \* the requests each thread has not handled

vars == <<inside, running, pending>>

Init ==
    /\ inside = {}
    /\ running = None
    /\ pending = [t \in Thread |-> {}]

Enter(t) ==
    /\ running = None
    /\ t \notin inside
    /\ running' = t
    /\ inside' = inside \cup {t}
    /\ pending' = [pending EXCEPT ![t] = {}]

Leave(t) ==
    /\ running = t
    /\ running' = None
    /\ inside' = inside \ {t}
    /\ pending' = [pending EXCEPT ![t] = {}]

Resume(t) ==
    /\ running = None
    /\ t \in inside
    /\ running' = t
    /\ UNCHANGED <<inside, pending>>

Suspend(t) ==
    /\ running = t
    /\ running' = None
    /\ UNCHANGED <<inside, pending>>

(* A preempted thread takes the request off before it gives up its turn. *)
Yield(t) ==
    /\ running = t
    /\ Preempt \in pending[t]
    /\ running' = None
    /\ pending' = [pending EXCEPT ![t] = @ \ {Preempt}]
    /\ UNCHANGED inside

Post(t, i) ==
    /\ t \in inside
    /\ pending' = [pending EXCEPT ![t] = @ \cup {i}]
    /\ UNCHANGED <<inside, running>>

Handle(t, i) ==
    /\ running = t
    /\ i \in pending[t]
    /\ pending' = [pending EXCEPT ![t] = @ \ {i}]
    /\ UNCHANGED <<inside, running>>

Next ==
    \E t \in Thread :
        \/ Enter(t) \/ Leave(t) \/ Resume(t) \/ Suspend(t) \/ Yield(t)
        \/ \E i \in Interrupt : Post(t, i) \/ Handle(t, i)

Spec == Init /\ [][Next]_vars
=============================================================================
