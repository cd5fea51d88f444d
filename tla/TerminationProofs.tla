-------------------------- MODULE TerminationProofs --------------------------
(***************************************************************************)
(* Termination requests are kept, for any number of threads: what the      *)
(* record of requests says follows from the refinement of                  *)
(* PerThreadInterrupts, in which only Handle and Leave take requests away. *)
(***************************************************************************)
EXTENDS Termination, ThreadManagerProofs

(* A thread with an unanswered request is past its first Locker's            *)
(* constructor, where ClearThread could still drop the request.            *)
Kept == \A t \in requested :
    t \in Thread /\ scopes[t] # <<>> /\ TERMINATE \in RequestsOf(t)

LEMMA InsideIs ==
    ASSUME Inv, NEW t \in Thread
    PROVE  /\ InsideV8(t) /\ scopes[t] = <<>> =>
                  mutexOwner = t /\ pc[t] = "clearing"
           /\ scopes[t] # <<>> => InsideV8(t)
  BY DEF Inv, ThreadsOK, ThreadOK, Holding, InsideV8

(* No thread goes back to the start of its first Locker. *)
LEMMA StaysInside ==
    ASSUME Inv, Inv', Next, NEW u \in Thread, scopes[u] # <<>>, InsideV8(u)'
    PROVE  scopes'[u] # <<>>
  <1>1. pc[u] # "clearing" /\ pc \in [Thread -> {"run", "clearing", "yield", "preempted", "joining"}]
    BY DEF Inv, ThreadsOK, ThreadOK, ThreadsType
  <1>2. CASE pc'[u] # "clearing"
    BY <1>2 DEF InsideV8
  <1>3. CASE pc'[u] = "clearing"
    <2>1. ASSUME NEW t \in Thread, LockStep(t) PROVE UNCHANGED scopes
      <3>1. CASE LockerInitialize(t)
        <4>1. pc' # pc
          BY <1>1, <1>3
        <4>. QED BY <3>1, <4>1 DEF LockerInitialize
      <3>2. CASE ClearThread(t)
        BY <1>1, <1>3, <3>2 DEF ClearThread, Goto
      <3>3. CASE UNCHANGED pc
        BY <1>1, <1>3, <3>3
      <3>. QED BY <2>1, <3>1, <3>2, <3>3
           DEF LockStep, NestedLocker, DestroyLocker, UnlockerInitialize, DestroyUnlocker
    <2>2. ASSUME NEW t \in Thread, InterruptStep(t) PROVE UNCHANGED scopes
      BY <2>2 DEF InterruptStep, HandleStackGuardInterrupt, ResumePreempted, HandleTermination,
                  StartPreemption, StopPreemption, JoinSwitcher, TerminateExecution
    <2>. QED BY <2>1, <2>2 DEF Next, TerminateIsolate, SwitcherPreempt, SwitcherExit
  <1>. QED BY <1>2, <1>3

(* Where RequestsOf finds a termination request, the thread will too. *)
LEMMA KeptIsPending ==
    ASSUME Inv, NEW t \in Thread, scopes[t] # <<>>, TERMINATE \in RequestsOf(t)
    PROVE  TerminationPending(t)
  <1>a. StatesOK
    BY DEF Inv
  <1>1. CASE t \in live.data
    BY <1>1 DEF RequestsOf, TerminationPending
  <1>2. CASE t \notin live.data
    <2>1. mutexOwner # t /\ lazilyArchived # t
      BY <1>2, WhereRequestsAre
    <2>2. /\ RequestsOf(t) = SavedRequests(threadState[t])
          /\ threadState[t] \in InUse /\ id[threadState[t]] = t
      BY <2>1, WhereRequestsAre
    <2>3. threadState[t] \in Members(in_use_anchor)
      BY <1>a, <2>2, InUseMembers
    <2>4. \/ terminateOnRestore[threadState[t]]
          \/ TERMINATE \in saved[threadState[t]].flags
      BY <2>2 DEF SavedRequests
    <2>. QED BY <1>2, <2>2, <2>3, <2>4 DEF TerminationPending
  <1>. QED BY <1>1, <1>2

(* While a thread runs, only its own handler takes its request away. *)
LEMMA OnlyHandled ==
    ASSUME Inv, Inv', Next, NEW u \in Thread, mutexOwner = u, mutexOwner' = u,
           scopes[u] # <<>>, scopes'[u] # <<>>, TERMINATE \in RequestsOf(u),
           u \notin Answered
    PROVE  TERMINATE \in RequestsOf(u)'
  <1>a. /\ u # None /\ live \in Area /\ live.data = {u} /\ TERMINATE \in live.flags
        /\ live'.data = {u} /\ RequestsOf(u)' = live'.flags
        /\ PREEMPT # TERMINATE /\ pc[u] # "clearing" /\ pc \in [Thread -> {"run", "clearing", "yield", "preempted", "joining"}]
    <2>1. u # None /\ PREEMPT # TERMINATE /\ live \in Area
      BY DistinctAssumption DEF Inv, StatesOK, StatesType
    <2>2. live.data = {u} /\ TERMINATE \in live.flags
      BY WhereRequestsAre
    <2>3. live'.data = {u}
      BY <2>1 DEF Inv, StatesOK, LazyOK, DataOK
    <2>4. RequestsOf(u)' = live'.flags
      BY <2>3 DEF RequestsOf
    <2>5. pc[u] # "clearing" /\ pc \in [Thread -> {"run", "clearing", "yield", "preempted", "joining"}]
      BY DEF Inv, ThreadsOK, ThreadOK, ThreadsType
    <2>. QED BY <2>1, <2>2, <2>3, <2>4, <2>5
  <1>1. TERMINATE \in live'.flags \/ \E t \in Thread : HandleTermination(t)
    <2>1. ASSUME NEW t \in Thread, LockStep(t) PROVE UNCHANGED live
      <3>1. mutexOwner # None /\ mutexOwner' # None
        BY <1>a
      <3>2. ~ClearThread(t)
        <4>1. pc[t] = "clearing" => mutexOwner = t
          BY DEF Inv, ThreadsOK, ThreadOK
        <4>. QED BY <1>a, <4>1 DEF ClearThread, At
      <3>. QED BY <2>1, <3>1, <3>2
           DEF LockStep, NestedLocker, LockerInitialize, DestroyLocker, UnlockerInitialize,
               DestroyUnlocker, FreeThreadResources, ArchiveThread
    <2>2. ASSUME NEW t \in Thread, InterruptStep(t)
          PROVE  TERMINATE \in live'.flags \/ HandleTermination(t)
      <3>1. CASE HandleStackGuardInterrupt(t) \/ ResumePreempted(t)
        BY <1>a, <3>1 DEF HandleStackGuardInterrupt, ResumePreempted, ArchiveThread
      <3>2. CASE StartPreemption(t) \/ StopPreemption(t) \/ JoinSwitcher(t)
        BY <1>a, <3>2 DEF StartPreemption, StopPreemption, JoinSwitcher
      <3>3. ASSUME NEW target \in Thread, TerminateExecution(t, target)
            PROVE  TERMINATE \in live'.flags
        BY <1>a, <3>3 DEF TerminateExecution, Area
      <3>. QED BY <2>2, <3>1, <3>2, <3>3 DEF InterruptStep
    <2>3. CASE TerminateIsolate \/ SwitcherPreempt \/ SwitcherExit
      BY <1>a, <2>3 DEF TerminateIsolate, SwitcherPreempt, SwitcherExit, Area
    <2>. QED BY <1>a, <2>1, <2>2, <2>3 DEF Next
  <1>2. ASSUME NEW t \in Thread, HandleTermination(t) PROVE FALSE
    <2>1. mutexOwner = t
      BY <1>2 DEF Inv, ThreadsOK, ThreadOK, HandleTermination, At
    <2>2. pc[u] = "preempted" /\ pc'[u] = "run"
      BY <1>2, <1>a, <2>1 DEF HandleTermination, At, Goto
    <2>. QED BY <2>2 DEF At, Answered
  <1>. QED BY <1>a, <1>1, <1>2

(* In PerThreadInterrupts a thread that is not running, or goes on or stops   *)
(* running, keeps its requests but for PREEMPT.                            *)
LEMMA KeepsTermination ==
    ASSUME Inv, Inv', Next, NEW u \in Thread,
           scopes[u] # <<>>, scopes'[u] # <<>>, TERMINATE \in RequestsOf(u),
           u \notin Answered
    PROVE  TERMINATE \in RequestsOf(u)'
  <1>. DEFINE p == [t \in Thread |-> RequestsOf(t)]
  <1>1. [Abstract!Next]_Abstract!vars
    BY StepRefines
  <1>2. TERMINATE \in p[u] /\ u \in Inside /\ u \in Inside' /\ PREEMPT # TERMINATE
    BY DistinctAssumption DEF Inside
  <1>3. p'[u] = RequestsOf(u)'
    OBVIOUS
  <1>4. CASE UNCHANGED Abstract!vars
    BY <1>2, <1>3, <1>4 DEF Abstract!vars
  <1>5. CASE Abstract!Next
    <2>1. PICK t \in Thread :
             \/ Abstract!Enter(t) \/ Abstract!Leave(t) \/ Abstract!Resume(t)
             \/ Abstract!Suspend(t) \/ Abstract!Yield(t)
             \/ \E i \in Interrupt : Abstract!Post(t, i) \/ Abstract!Handle(t, i)
      BY <1>5 DEF Abstract!Next
    <2>2. CASE Abstract!Enter(t) \/ Abstract!Leave(t)
      <3>1. t # u /\ \E r : p' = [p EXCEPT ![t] = r]
        BY <1>2, <2>2 DEF Abstract!Enter, Abstract!Leave
      <3>. QED BY <1>2, <1>3, <3>1
    <2>3. CASE Abstract!Resume(t) \/ Abstract!Suspend(t)
      BY <1>2, <1>3, <2>3 DEF Abstract!Resume, Abstract!Suspend
    <2>4. CASE Abstract!Yield(t)
      <3>1. p' = [p EXCEPT ![t] = @ \ {PREEMPT}]
        BY <2>4 DEF Abstract!Yield
      <3>. QED BY <1>2, <1>3, <3>1
    <2>5. ASSUME NEW i \in Interrupt, Abstract!Post(t, i) PROVE TERMINATE \in p'[u]
      <3>1. p' = [p EXCEPT ![t] = @ \cup {i}]
        BY <2>5 DEF Abstract!Post
      <3>. QED BY <1>2, <3>1
    <2>6. ASSUME NEW i \in Interrupt, Abstract!Handle(t, i) PROVE TERMINATE \in p'[u]
      <3>1. p' = [p EXCEPT ![t] = @ \ {i}] /\ Running = t /\ Running' = t
        BY <2>6 DEF Abstract!Handle
      <3>2. CASE t # u
        BY <1>2, <3>1, <3>2
      <3>3. CASE t = u
        <4>1. mutexOwner = u /\ mutexOwner' = u
          BY <3>1, <3>3, DistinctAssumption DEF Running
        <4>. QED BY <1>3, <4>1, OnlyHandled
      <3>. QED BY <3>2, <3>3
    <2>. QED BY <1>3, <2>1, <2>2, <2>3, <2>4, <2>5, <2>6
  <1>. QED BY <1>1, <1>4, <1>5

(* A request just made is there. *)
LEMMA AskedIsKept ==
    ASSUME Inv, Inv', NEW t \in Thread, NEW target \in Thread, TerminateExecution(t, target),
           InsideV8(target)
    PROVE  scopes'[target] # <<>> /\ TERMINATE \in RequestsOf(target)'
  <1>a. StatesOK /\ t # None /\ live \in Area
    BY DistinctAssumption DEF Inv, StatesOK, StatesType
  <1>0. pc[t] = "run" /\ mutexOwner = t /\ mutexOwner' = t /\ UNCHANGED scopes
    BY DEF TerminateExecution, At, IsLockedByCurrentThread
  <1>1. scopes[target] # <<>> /\ scopes'[target] # <<>>
    BY <1>0, InsideIs
  <1>2. lazilyArchived = None /\ lazilyArchived' = None
    BY <1>a, <1>0 DEF StatesOK, LazyOK, TerminateExecution, lazyVars
  <1>3. CASE target = t
    <2>1. TERMINATE \in live'.flags
      BY <1>3, <1>a DEF TerminateExecution, Area
    <2>. QED BY <1>0, <1>1, <1>3, <2>1, WhereRequestsAre DEF RequestsOf, Inv, StatesOK, DataOK
  <1>4. CASE target # t
    <2>1. /\ target \notin live.data
          /\ threadState[target] \in InUse /\ id[threadState[target]] = target
      BY <1>0, <1>1, <1>2, <1>4, <1>a, WhereRequestsAre
    <2>2. /\ terminateOnRestore' =
                 [s \in ThreadState |-> terminateOnRestore[s] \/ (s \in InUse /\ id[s] = target)]
          /\ UNCHANGED <<threadState, live>>
      BY <1>4, <1>a, InUseMembers DEF TerminateExecution, lazyVars
    <2>3. terminateOnRestore'[threadState'[target]] = TRUE
      BY <1>a, <2>1, <2>2, Partition
    <2>. QED BY <1>1, <2>1, <2>2, <2>3 DEF RequestsOf, SavedRequests
  <1>. QED BY <1>1, <1>3, <1>4

(* V8::TerminateExecution(thread_id) reaches the thread wherever its data     *)
(* are, and the request is kept until the thread throws or leaves V8, for any *)
(* number of threads and switches.                                         *)
THEOREM RequestsAlwaysKept == HistorySpec => []RequestsKept
  <1>1. HistoryInit => Inv /\ Kept
    BY InitInv DEF HistoryInit, Kept
  <1>2. Inv /\ Kept /\ [HistoryNext]_historyVars => Inv' /\ Kept'
    <2>. SUFFICES ASSUME Inv, Kept, [HistoryNext]_historyVars PROVE Inv' /\ Kept'
      OBVIOUS
    <2>1. Inv'
      BY NextInv DEF HistoryNext, historyVars
    <2>2. CASE UNCHANGED historyVars
      BY <2>1, <2>2 DEF historyVars, vars, stateVars, lazyVars, Kept, RequestsOf, SavedRequests
    <2>3. CASE HistoryNext
      <3>1. ASSUME NEW u \in requested'
            PROVE  u \in Thread /\ scopes'[u] # <<>> /\ TERMINATE \in RequestsOf(u)'
        <4>1. /\ Next /\ InsideV8(u) /\ InsideV8(u)'
              /\ (u \in requested /\ u \notin Answered) \/ u \in Asked
          BY <2>3 DEF HistoryNext
        <4>2. CASE u \in Asked
          BY <2>1, <4>1, <4>2, AskedIsKept DEF Asked
        <4>3. CASE u \in requested /\ u \notin Answered
          <5>1. u \in Thread /\ scopes[u] # <<>> /\ TERMINATE \in RequestsOf(u)
            BY <4>3 DEF Kept
          <5>2. scopes'[u] # <<>>
            BY <2>1, <4>1, <5>1, StaysInside
          <5>. QED BY <2>1, <4>1, <4>3, <5>1, <5>2, KeepsTermination
        <4>. QED BY <4>1, <4>2, <4>3
      <3>. QED BY <2>1, <3>1 DEF Kept
    <2>. QED BY <2>2, <2>3
  <1>3. Inv /\ Kept => RequestsKept
    BY KeptIsPending DEF Kept, RequestsKept
  <1>. QED BY <1>1, <1>2, <1>3, PTL DEF HistorySpec
=============================================================================
