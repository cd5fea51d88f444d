----------------------------- MODULE Termination -----------------------------
(***************************************************************************)
(* ThreadManager with a record of whom V8::TerminateExecution(thread_id)   *)
(* was called for.  A request that finds no state changes nothing, so only *)
(* a record can tell that it was made.                                     *)
(***************************************************************************)
EXTENDS ThreadManager

VARIABLE requested   \* threads with a request they have not answered

Asked == {target \in Thread : \E t \in Thread : TerminateExecution(t, target)}
Answered == {t \in Thread : At(t, "preempted") /\ At(t, "run")'}

HistoryInit == Init /\ requested = {}
HistoryNext ==
    /\ Next
    /\ requested' =
           {t \in (requested \ Answered) \cup Asked : InsideV8(t) /\ InsideV8(t)'}

historyVars == <<vars, requested>>
HistorySpec == HistoryInit /\ [][HistoryNext]_historyVars

(* V8::TerminateExecution(thread_id) reaches the thread wherever its data    *)
(* are, and the request is kept through any number of switches until the    *)
(* thread throws or leaves V8.  The walk over the in-use list does not see  *)
(* a lazily archived thread, and does not have to: the caller has the lock, *)
(* and taking it has archived that thread eagerly.                         *)
RequestsKept == \A t \in requested : TerminationPending(t)
=============================================================================
