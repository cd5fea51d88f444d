------------------------------ MODULE StackGuard ------------------------------
(***************************************************************************)
(* The StackGuard of an isolate (execution.{h,cc}).  Generated code        *)
(* compares the stack pointer with one number, the stack limit.  A request *)
(* to interrupt JavaScript is a flag and a limit so high that every check  *)
(* fails; the runtime then tells by the limit whether the stack really is  *)
(* full.  Requests come from any thread under the ExecutionAccess lock;    *)
(* the limit also moves when a thread sets a limit of its own, opens or    *)
(* closes a PostponeInterruptsScope, or hands the isolate to another       *)
(* thread.                                                                 *)
(*                                                                         *)
(* One step is one ExecutionAccess section, or one access made without     *)
(* that lock: the nesting counter of PostponeInterruptsScope and the       *)
(* comparison in generated code.                                           *)
(***************************************************************************)
EXTENDS Integers, FiniteSets

CONSTANTS
    Thread,              \* threads that use the isolate through v8::Locker
    None,                \* no thread
    Flag,                \* the InterruptFlag values in use
    Cancelable,          \* those that other threads may take back
    TERMINATE, PREEMPT, GC_REQUEST, DEBUGBREAK, FULL_DEOPT,
    StackAddress,        \* the addresses a thread's stack pointer may have
    DefaultLimit,        \* the limit Initialize computes for a thread
    ChosenLimits,        \* the limits a thread may pass to SetStackLimit
    kIllegalLimit, kInterruptLimit,
    MaxNesting           \* bound: PostponeInterruptsScopes on the stack

Address == UNION {StackAddress[t] : t \in Thread}
OwnLimits(t) == {DefaultLimit[t]} \cup ChosenLimits[t]
RealLimit == UNION {OwnLimits(t) : t \in Thread}

ASSUME FlagAssumption ==
    /\ Flag \subseteq {TERMINATE, PREEMPT, GC_REQUEST, DEBUGBREAK, FULL_DEOPT}
    /\ Cancelable \subseteq Flag
    /\ None \notin Thread
ASSUME LimitAssumption ==
    /\ kIllegalLimit \in Nat /\ kInterruptLimit \in Nat
    /\ kIllegalLimit < kInterruptLimit
    /\ DefaultLimit \in [Thread -> Nat]
    /\ ChosenLimits \in [Thread -> SUBSET Nat]
    /\ StackAddress \in [Thread -> SUBSET Nat]
    /\ \A t \in Thread :
           /\ \A limit \in OwnLimits(t) : 0 < limit /\ limit < kIllegalLimit
           /\ \A a \in StackAddress[t] : a < kIllegalLimit
ASSUME NestingAssumption == MaxNesting \in Nat

VARIABLES
    holder,      \* the thread that has the V8 lock
    lazy,        \* the thread that gave it up and is not archived yet
    local,       \* thread_local_; climit_ always equals jslimit_
    roots,       \* the two stack limits in the heap's root array
    archived,    \* the ThreadLocal each archived thread left behind
    stored,      \* PerIsolateThreadData::stack_limit_, 0 when not set
    pc,          \* where each thread is
    sp           \* the stack pointer at the check that has just failed

threadVars == <<holder, lazy, archived, stored>>
vars == <<threadVars, local, roots, pc, sp>>

Blank == [limit |-> kIllegalLimit, real |-> kIllegalLimit, nesting |-> 0, flags |-> {}]
Fresh(t) == [Blank EXCEPT !.limit = DefaultLimit[t], !.real = DefaultLimit[t]]

(* Heap::SetStackLimits, of the guard's value g. *)
RootsOf(g) == [limit |-> g.limit, real |-> g.real]

Running(t) == holder = t /\ pc[t] = "run"
Goto(t, where) == pc' = [pc EXCEPT ![t] = where]

(* A thread has initialized the isolate and uses it no more. *)
Init ==
    /\ holder = None
    /\ lazy = None
    /\ \E t \in Thread : local = Fresh(t)
    /\ roots = RootsOf(local)
    /\ archived = [t \in Thread |-> Blank]
    /\ stored = [t \in Thread |-> 0]
    /\ pc = [t \in Thread |-> "outside"]
    /\ sp = None

-----------------------------------------------------------------------------
(* Requests. *)

(* set_interrupt_limits, reset_limits. *)
Interrupted(g) == IF g.nesting > 0 THEN g ELSE [g EXCEPT !.limit = kInterruptLimit]
Reset(g) == [g EXCEPT !.limit = g.real]

Request(f) ==
    LET g == Interrupted([local EXCEPT !.flags = @ \cup {f}])
    IN  /\ local' = g
        /\ roots' = IF local.nesting > 0 THEN roots ELSE RootsOf(g)

(* Continue: the request is taken off, and with the last one the limit. *)
Continued(f) ==
    LET g == [local EXCEPT !.flags = @ \ {f}]
    IN  IF g.nesting = 0 /\ g.flags = {} THEN Reset(g) ELSE g

Continue(f) ==
    /\ local' = Continued(f)
    /\ roots' = IF Continued(f).limit = local.limit THEN roots
                ELSE RootsOf(Continued(f))

(* TerminateExecution(isolate), Preempt and DebugBreak, in any thread, and  *)
(* RequestGC and FullDeopt, in the collector.                              *)
Post(f) ==
    /\ Request(f)
    /\ UNCHANGED <<threadVars, pc, sp>>

(* CancelTerminateExecution, CancelDebugBreak, in any thread. *)
Cancel(f) ==
    /\ f \in Cancelable
    /\ Continue(f)
    /\ UNCHANGED <<threadVars, pc, sp>>

-----------------------------------------------------------------------------
(* Limits and scopes of the running thread. *)

(* Mutant: a limit that shows a request is written over. *)
BugWithLimit(g, limit) == [g EXCEPT !.limit = limit, !.real = limit]

(* SetStackLimit leaves a special limit alone.  It does not write the roots. *)
WithLimit(g, limit) ==
    [g EXCEPT !.limit = IF @ = g.real THEN limit ELSE @, !.real = limit]

SetStackLimit(t) ==
    /\ Running(t)
    /\ \E limit \in ChosenLimits[t] : local' = WithLimit(local, limit)
    /\ UNCHANGED <<threadVars, roots, pc, sp>>

(* The constructor of PostponeInterruptsScope, in two steps. *)
OpenScope(t) ==
    /\ Running(t)
    /\ local.nesting < MaxNesting
    /\ local' = [local EXCEPT !.nesting = @ + 1]
    /\ Goto(t, "disabling")
    /\ UNCHANGED <<threadVars, roots, sp>>

DisableInterrupts(t) ==
    /\ pc[t] = "disabling"
    /\ local' = Reset(local)
    /\ roots' = RootsOf(Reset(local))
    /\ Goto(t, "run")
    /\ UNCHANGED <<threadVars, sp>>

(* Its destructor. *)
CloseScope(t) ==
    /\ Running(t)
    /\ local.nesting > 0
    /\ local' = [local EXCEPT !.nesting = @ - 1]
    /\ Goto(t, IF local.nesting = 1 THEN "enabling" ELSE "run")
    /\ UNCHANGED <<threadVars, roots, sp>>

(* Mutant: what was requested in the scope is forgotten. *)
BugEnableInterrupts(t) ==
    /\ pc[t] = "enabling"
    /\ Goto(t, "run")
    /\ UNCHANGED <<threadVars, local, roots, sp>>

EnableInterrupts(t) ==
    /\ pc[t] = "enabling"
    /\ local' = IF local.flags # {} THEN Interrupted(local) ELSE local
    /\ roots' = IF local.flags # {} THEN RootsOf(Interrupted(local)) ELSE roots
    /\ Goto(t, "run")
    /\ UNCHANGED <<threadVars, sp>>

-----------------------------------------------------------------------------
(* Stack checks and the handler. *)

(* A check in generated code: some of it reads the limit in the roots, some *)
(* the one in the guard.                                                   *)
CheckStack(t) ==
    /\ Running(t)
    /\ \E a \in StackAddress[t] :
           /\ a < roots.limit \/ a < local.limit
           /\ sp' = a
    /\ Goto(t, "trapped")
    /\ UNCHANGED <<threadVars, local, roots>>

FindsRequest(t) ==
    /\ roots.limit = kInterruptLimit /\ local.limit = kInterruptLimit
    /\ CheckStack(t)

(* Runtime_StackGuard: IsStackOverflow, and ShouldPostponeInterrupts.      *)
RuntimeStackGuard(t) ==
    /\ pc[t] = "trapped"
    /\ sp' = None
    /\ Goto(t, IF local.limit # kInterruptLimit \/ local.nesting > 0 THEN "run" ELSE "gc")
    /\ UNCHANGED <<threadVars, local, roots>>

(* Runtime_Interrupt, from the back edges and returns of unoptimized code. *)
RuntimeInterrupt(t) ==
    /\ Running(t)
    /\ local.nesting = 0
    /\ Goto(t, "gc")
    /\ UNCHANGED <<threadVars, local, roots, sp>>

(* A stage of HandleStackGuardInterrupt that takes off its own request; it  *)
(* may find that there is none.                                            *)
Stage(t, where, f, handled, next) ==
    /\ pc[t] = where
    /\ IF f \in local.flags
       THEN Continue(f) /\ Goto(t, handled)
       ELSE Goto(t, next) /\ UNCHANGED <<local, roots>>
    /\ UNCHANGED <<threadVars, sp>>

HandleGCRequest(t) == Stage(t, "gc", GC_REQUEST, "break", "break")

(* DebugBreakHelper leaves the request pending where it may not break.     *)
HandleDebugBreak(t) ==
    \/ Stage(t, "break", DEBUGBREAK, "preempt", "preempt")
    \/ /\ pc[t] = "break"
       /\ DEBUGBREAK \in local.flags
       /\ Goto(t, "preempt")
       /\ UNCHANGED <<threadVars, local, roots, sp>>

(* RuntimePreempt, up to the Unlocker that lets another thread run. *)
HandlePreempt(t) == Stage(t, "preempt", PREEMPT, "unlocking", "terminate")

(* The exception leaves the handler: the flags after it are not looked at. *)
HandleTermination(t) == Stage(t, "terminate", TERMINATE, "run", "deopt")

HandleFullDeopt(t) == Stage(t, "deopt", FULL_DEOPT, "run", "run")

Handle(t) ==
    \/ RuntimeStackGuard(t)
    \/ HandleGCRequest(t) \/ HandleDebugBreak(t) \/ HandlePreempt(t)
    \/ HandleTermination(t) \/ HandleFullDeopt(t)

-----------------------------------------------------------------------------
(* Changing threads.  ThreadManager says in full when this happens. *)

(* Initialize, and the limit that FreeThreadResources left. *)
Initialized(g, t) ==
    IF g.real = kIllegalLimit THEN Fresh(t) ELSE [g EXCEPT !.nesting = 0, !.flags = {}]
InitThread(g, t) ==
    IF stored[t] = 0 THEN Initialized(g, t) ELSE WithLimit(Initialized(g, t), stored[t])
InitThreadRoots(g, r, t) == IF g.real = kIllegalLimit THEN RootsOf(Fresh(t)) ELSE r

(* ArchiveStackGuard, of the thread that was lazily archived. *)
Left == IF lazy = None THEN local ELSE Blank
LeftRoots == IF lazy = None THEN roots ELSE RootsOf(local)
Archived == IF lazy = None THEN archived ELSE [archived EXCEPT ![lazy] = local]

(* A new thread: RestoreThread finds nothing to restore. *)
Enter(t) ==
    /\ holder = None /\ pc[t] = "outside"
    /\ holder' = t
    /\ lazy' = None
    /\ archived' = Archived
    /\ local' = InitThread(Left, t)
    /\ roots' = InitThreadRoots(Left, LeftRoots, t)
    /\ Goto(t, "starting")
    /\ UNCHANGED <<stored, sp>>

(* Mutant: the Locker only calls InitThread. *)
BugClearThread(t) ==
    /\ pc[t] = "starting"
    /\ local' = InitThread(local, t)
    /\ roots' = InitThreadRoots(local, roots, t)
    /\ Goto(t, "run")
    /\ UNCHANGED <<threadVars, sp>>

(* The Locker then calls ClearThread and InitThread. *)
ClearThread(t) ==
    /\ pc[t] = "starting"
    /\ local' = InitThread(Blank, t)
    /\ roots' = InitThreadRoots(Blank, RootsOf(Blank), t)
    /\ Goto(t, "run")
    /\ UNCHANGED <<threadVars, sp>>

(* Mutant: the destructor does not unlock. *)
BugLeave(t) ==
    /\ Running(t)
    /\ local.nesting = 0
    /\ stored' = [stored EXCEPT ![t] = local.real]
    /\ Goto(t, "outside")
    /\ UNCHANGED <<holder, lazy, archived, local, roots, sp>>

(* FreeThreadResources, when the outermost Locker goes. *)
Leave(t) ==
    /\ Running(t)
    /\ local.nesting = 0
    /\ holder' = None
    /\ stored' = [stored EXCEPT ![t] = local.real]
    /\ Goto(t, "outside")
    /\ UNCHANGED <<lazy, archived, local, roots, sp>>

(* An Unlocker, in JavaScript or in the handler of a preemption. *)
Unlock(t) ==
    /\ holder = t
    /\ pc[t] \in {"run", "unlocking"}
    /\ holder' = None
    /\ lazy' = t
    /\ Goto(t, IF pc[t] = "run" THEN "unlocked" ELSE "preempted")
    /\ UNCHANGED <<archived, stored, local, roots, sp>>

(* Mutant: the limits of the thread before stay in the roots. *)
BugRelock(t) ==
    /\ holder = None
    /\ pc[t] \in {"unlocked", "preempted"}
    /\ holder' = t
    /\ lazy' = None
    /\ IF lazy = t
       THEN UNCHANGED <<archived, local>>
       ELSE /\ local' = archived[t]
            /\ archived' = [Archived EXCEPT ![t] = Blank]
    /\ Goto(t, IF pc[t] = "unlocked" THEN "run" ELSE "terminate")
    /\ UNCHANGED <<stored, sp, roots>>

(* Its end: RestoreStackGuard, unless nobody else has run. *)
Relock(t) ==
    /\ holder = None
    /\ pc[t] \in {"unlocked", "preempted"}
    /\ holder' = t
    /\ lazy' = None
    /\ IF lazy = t
       THEN UNCHANGED <<archived, local, roots>>
       ELSE /\ local' = archived[t]
            /\ roots' = RootsOf(archived[t])
            /\ archived' = [Archived EXCEPT ![t] = Blank]
    /\ Goto(t, IF pc[t] = "unlocked" THEN "run" ELSE "terminate")
    /\ UNCHANGED <<stored, sp>>

-----------------------------------------------------------------------------
ScopeStep(t) ==
    \/ SetStackLimit(t)
    \/ OpenScope(t) \/ DisableInterrupts(t) \/ CloseScope(t) \/ EnableInterrupts(t)

ThreadStep(t) ==
    \/ ScopeStep(t)
    \/ CheckStack(t) \/ RuntimeInterrupt(t) \/ Handle(t)
    \/ Enter(t) \/ ClearThread(t) \/ Leave(t) \/ Unlock(t) \/ Relock(t)

Next ==
    \/ \E t \in Thread : ThreadStep(t)
    \/ \E f \in Flag : Post(f) \/ Cancel(f)

(* What a thread does once it has begun. *)
GoOn(t) ==
    \/ Handle(t) \/ ClearThread(t)
    \/ DisableInterrupts(t) \/ EnableInterrupts(t)
    \/ pc[t] = "unlocking" /\ Unlock(t)

(* JavaScript checks the stack at every function entry and back edge, the   *)
(* code in a PostponeInterruptsScope ends, and the handler does not stop.   *)
(* The scopes and checks of a loop alternate, hence strong fairness.        *)
Fairness ==
    \A t \in Thread :
        /\ SF_vars(FindsRequest(t))
        /\ \A n \in 1..MaxNesting : SF_vars(local.nesting = n /\ CloseScope(t))
        /\ WF_vars(GoOn(t))

Spec == Init /\ [][Next]_vars /\ Fairness

-----------------------------------------------------------------------------
(* Properties. *)

Limits == RealLimit \cup {kIllegalLimit, kInterruptLimit}
ThreadLocal ==
    [limit : Limits, real : RealLimit \cup {kIllegalLimit},
     nesting : 0..MaxNesting, flags : SUBSET Flag]
Place ==
    {"outside", "starting", "run", "disabling", "enabling", "trapped", "gc", "break",
     "preempt", "unlocking", "terminate", "deopt", "unlocked", "preempted"}
Idle == {"outside", "unlocked", "preempted"}

TypeOK ==
    /\ holder \in Thread \cup {None}
    /\ lazy \in Thread \cup {None}
    /\ local \in ThreadLocal
    /\ roots \in [limit : Limits, real : RealLimit \cup {kIllegalLimit}]
    /\ archived \in [Thread -> ThreadLocal]
    /\ stored \in [Thread -> RealLimit \cup {0}]
    /\ pc \in [Thread -> Place]
    /\ sp \in Address \cup {None}
    /\ \A t \in Thread : holder = t <=> pc[t] \notin Idle

(* A request that is not postponed stops the thread that runs: both limits   *)
(* that generated code may read show it, whatever limits the thread has set *)
(* and whoever posted the request when.  EnableInterrupts is about to.      *)
RequestsTrap ==
    \A t \in Thread :
        /\ holder = t /\ pc[t] # "enabling"
        /\ local.nesting = 0 /\ local.flags # {}
        => local.limit = kInterruptLimit /\ roots.limit = kInterruptLimit

(* The limit is high only for a request that may be handled: else every       *)
(* check of the thread would call the runtime and find nothing to take off, *)
(* or JavaScript would be interrupted inside a PostponeInterruptsScope.     *)
(* The roots and the guard agree on it.                                    *)
TrapsHaveRequests ==
    \A t \in Thread :
        /\ holder = t /\ pc[t] \notin {"starting", "disabling"}
        /\ local.limit = kInterruptLimit \/ roots.limit = kInterruptLimit
        => local.flags # {} /\ local.nesting = 0 /\ local.limit = roots.limit

(* The stack of a thread is measured with a limit of its own, also after    *)
(* others have run or have left limits behind.                             *)
OwnStackLimit ==
    \A t \in Thread :
        /\ holder = t /\ pc[t] # "starting"
        => /\ local.real \in OwnLimits(t)
           /\ local.limit \in OwnLimits(t) \cup {kInterruptLimit}
           /\ roots.limit \in OwnLimits(t) \cup {kInterruptLimit}

(* A termination request takes effect if the thread keeps the V8 lock, even *)
(* when it is made inside a PostponeInterruptsScope.                       *)
TerminationTakesEffect ==
    \A t \in Thread :
        (holder = t /\ TERMINATE \in local.flags)
        ~> (holder # t \/ TERMINATE \notin local.flags)

(* runtime.cc:8911: "First check if this is a real stack overflow": a thread *)
(* in Runtime_StackGuard that finds the limit intact is out of stack.       *)
OverflowIsReal ==
    \A t \in Thread :
        pc[t] = "trapped" /\ local.limit # kInterruptLimit => sp < local.real
=============================================================================
