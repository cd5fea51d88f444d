--------------------------- MODULE StackGuardProofs ---------------------------
(***************************************************************************)
(* The safety properties of StackGuard, for any threads, limits, requests  *)
(* and depth of PostponeInterruptsScopes.  They follow from one inductive  *)
(* invariant: what the guard holds for the thread that owns it (it has the *)
(* V8 lock, or gave it up and is not archived yet), and what an archived   *)
(* guard holds for the thread that will come back to it.                   *)
(***************************************************************************)
EXTENDS StackGuard, TLAPS

(* The limit that a guard shows when nobody is in the middle of changing it. *)
Shown(g) == IF g.nesting = 0 /\ g.flags # {} THEN kInterruptLimit ELSE g.real

OwnerOK(t) ==
    /\ local.real \in OwnLimits(t)
    /\ roots.limit \in OwnLimits(t) \cup {kInterruptLimit}
    /\ roots.limit = kInterruptLimit <=> local.limit = kInterruptLimit
    /\ local.limit \in {local.real, kInterruptLimit}
    /\ pc[t] = "disabling" => local.nesting > 0
    /\ pc[t] = "enabling" =>
           local.nesting = 0 /\ (local.limit = kInterruptLimit => local.flags # {})
    /\ pc[t] \notin {"disabling", "enabling"} => local.limit = Shown(local)

GuardOK == \A t \in Thread :
    (holder = t /\ pc[t] # "starting") \/ lazy = t => OwnerOK(t)

(* Between Enter and ClearThread the thread has no limit of its own yet. *)
StartingOK == \A t \in Thread :
    holder = t /\ pc[t] = "starting" =>
        /\ local.nesting = 0
        /\ local.flags # {} =>
               local.limit = kInterruptLimit /\ roots.limit = kInterruptLimit

ArchiveOK == \A t \in Thread :
    pc[t] \in {"unlocked", "preempted"} /\ lazy # t =>
        /\ archived[t].real \in OwnLimits(t)
        /\ archived[t].limit = Shown(archived[t])

LazyOK ==
    /\ holder # None => lazy = None
    /\ lazy # None => pc[lazy] \in {"unlocked", "preempted"}

StoredOK == \A t \in Thread : stored[t] \in OwnLimits(t) \cup {0}

Inv == TypeOK /\ GuardOK /\ StartingOK /\ ArchiveOK /\ LazyOK /\ StoredOK

-----------------------------------------------------------------------------
(* A thread's own limits lie below the special ones. *)
LEMMA OwnLimitsLow ==
    ASSUME NEW t \in Thread, NEW limit \in OwnLimits(t)
    PROVE  /\ limit \in RealLimit /\ limit \in Nat
           /\ 0 < limit /\ limit < kIllegalLimit
           /\ limit # kIllegalLimit /\ limit # kInterruptLimit
  <1>1. limit \in RealLimit
    BY DEF RealLimit
  <1>2. limit \in Nat
    BY LimitAssumption DEF OwnLimits
  <1>3. 0 < limit /\ limit < kIllegalLimit
    BY LimitAssumption
  <1>. QED BY <1>1, <1>2, <1>3, LimitAssumption

LEMMA DefaultIsOwn ==
    ASSUME NEW t \in Thread
    PROVE  DefaultLimit[t] \in OwnLimits(t)
  BY DEF OwnLimits

(* A guard that Clear and Initialize have set up. *)
LEMMA BlankOK ==
    /\ Blank \in ThreadLocal
    /\ Blank.real = kIllegalLimit /\ Blank.nesting = 0 /\ Blank.flags = {}
  BY NestingAssumption DEF Blank, ThreadLocal, Limits

LEMMA FreshOK ==
    ASSUME NEW t \in Thread
    PROVE  /\ Fresh(t) \in ThreadLocal
           /\ Fresh(t).real = DefaultLimit[t] /\ Fresh(t).limit = DefaultLimit[t]
           /\ Fresh(t).nesting = 0 /\ Fresh(t).flags = {}
  <1>1. DefaultLimit[t] \in RealLimit
    BY DefaultIsOwn, OwnLimitsLow
  <1>. QED BY <1>1, BlankOK DEF Fresh, ThreadLocal, Limits

(* InitThread leaves a guard of the right type, whatever was there.         *)
LEMMA InitThreadOK ==
    ASSUME NEW t \in Thread, NEW g \in ThreadLocal, StoredOK
    PROVE  InitThread(g, t) \in ThreadLocal
  <1>1. Initialized(g, t) \in ThreadLocal
    BY FreshOK, NestingAssumption DEF Initialized, ThreadLocal
  <1>2. stored[t] # 0 => stored[t] \in RealLimit
    BY OwnLimitsLow DEF StoredOK
  <1>. QED BY <1>1, <1>2 DEF InitThread, WithLimit, ThreadLocal, Limits

(* From a cleared guard it makes one that shows the thread's own limit.     *)
LEMMA InitThreadOwn ==
    ASSUME NEW t \in Thread, StoredOK
    PROVE  LET g == InitThread(Blank, t)
           IN  /\ g.real \in OwnLimits(t) /\ g.limit = g.real
               /\ g.nesting = 0 /\ g.flags = {}
  <1>1. Initialized(Blank, t) = Fresh(t)
    BY BlankOK DEF Initialized
  <1>2. stored[t] # 0 => stored[t] \in OwnLimits(t)
    BY DEF StoredOK
  <1>. QED BY <1>1, <1>2, FreshOK, DefaultIsOwn DEF InitThread, WithLimit, ThreadLocal

(* The type of the guard and the roots is kept by both ways to change flags. *)
LEMMA RequestType ==
    ASSUME TypeOK, NEW f \in Flag, Request(f) \/ Continue(f)
    PROVE  /\ local' \in ThreadLocal
           /\ roots' \in [limit : Limits, real : RealLimit \cup {kIllegalLimit}]
  <1>. USE DEF TypeOK, ThreadLocal, Limits, RootsOf
  <1>1. CASE Request(f)
    BY <1>1 DEF Request, Interrupted
  <1>2. CASE Continue(f)
    BY <1>2 DEF Continue, Continued, Reset
  <1>. QED BY <1>1, <1>2

(* A request posted or taken off leaves the owner's guard in order. *)
LEMMA RequestOwner ==
    ASSUME TypeOK, NEW t \in Thread, NEW f \in Flag, OwnerOK(t),
           Request(f) \/ Continue(f)
    PROVE  /\ pc'[t] = pc[t] => OwnerOK(t)'
           /\ pc[t] \notin {"disabling", "enabling"}
              /\ pc'[t] \notin {"disabling", "enabling"} => OwnerOK(t)'
  <1>1. local.real < kInterruptLimit /\ local.real # kInterruptLimit
    BY OwnLimitsLow, LimitAssumption DEF OwnerOK
  <1>2. local \in ThreadLocal
    BY DEF TypeOK
  <1>3. CASE Request(f)
    BY <1>1, <1>2, <1>3 DEF Request, Interrupted, OwnerOK, Shown, RootsOf, ThreadLocal
  <1>4. CASE Continue(f)
    BY <1>1, <1>2, <1>4
       DEF Continue, Continued, Reset, OwnerOK, Shown, RootsOf, ThreadLocal
  <1>. QED BY <1>3, <1>4

-----------------------------------------------------------------------------
(* The steps of the thread that has the V8 lock keep the invariant when      *)
(* they leave its own guard in order: everybody else's is out of reach.    *)
RootsType == [limit : Limits, real : RealLimit \cup {kIllegalLimit}]

LEMMA HolderStep ==
    ASSUME Inv, NEW t \in Thread, holder = t, UNCHANGED threadVars,
           NEW where \in Place \ (Idle \cup {"starting"}), Goto(t, where),
           local' \in ThreadLocal, roots' \in RootsType,
           sp' \in Address \cup {None}, OwnerOK(t)'
    PROVE  Inv'
  <1>. USE DEF Inv, threadVars, Goto
  <1>1. /\ pc[t] \notin Idle /\ pc' \in [Thread -> Place] /\ pc'[t] = where
        /\ \A u \in Thread : u # t => pc'[u] = pc[u]
    BY DEF TypeOK
  <1>2. t # None /\ lazy = None
    BY FlagAssumption DEF LazyOK
  <1>3. TypeOK'
    BY <1>1 DEF TypeOK, RootsType
  <1>4. GuardOK'
    BY <1>2, FlagAssumption DEF GuardOK
  <1>5. ArchiveOK'
    BY <1>1 DEF ArchiveOK, Shown, Idle
  <1>6. LazyOK'
    BY <1>2 DEF LazyOK
  <1>7. StoredOK'
    BY DEF StoredOK
  <1>8. StartingOK'
    BY <1>1, <1>2, FlagAssumption DEF StartingOK
  <1>. QED BY <1>3, <1>4, <1>5, <1>6, <1>7, <1>8

(* Where its guard stands before such a step. *)
LEMMA HolderOK ==
    ASSUME Inv, NEW t \in Thread, holder = t, pc[t] # "starting"
    PROVE  /\ OwnerOK(t) /\ local \in ThreadLocal /\ roots \in RootsType
           /\ local.real < kIllegalLimit /\ kIllegalLimit < kInterruptLimit
           /\ local.real \in RealLimit
           /\ kInterruptLimit \in Nat /\ kIllegalLimit \in Nat /\ local.real \in Nat
  <1>1. OwnerOK(t)
    BY DEF Inv, GuardOK
  <1>. QED BY <1>1, OwnLimitsLow, LimitAssumption
           DEF Inv, TypeOK, RootsType, OwnerOK

LEMMA RunningHolds ==
    ASSUME Inv, NEW t \in Thread, pc[t] \notin Idle
    PROVE  holder = t
  BY DEF Inv, TypeOK

LEMMA SetStackLimitInv ==
    ASSUME Inv, NEW t \in Thread, SetStackLimit(t)
    PROVE  Inv'
  <1>. USE DEF SetStackLimit, Running
  <1>1. PICK limit \in ChosenLimits[t] : local' = WithLimit(local, limit)
    OBVIOUS
  <1>2. limit \in OwnLimits(t) /\ limit \in RealLimit /\ limit # kInterruptLimit
    BY OwnLimitsLow DEF OwnLimits
  <1>3. Goto(t, "run")
    BY DEF Goto, Inv, TypeOK
  <1>4. local' \in ThreadLocal
    BY <1>1, <1>2, HolderOK DEF WithLimit, ThreadLocal, Limits
  <1>5. /\ local'.real = limit /\ local'.nesting = local.nesting
        /\ local'.flags = local.flags
        /\ local'.limit = IF local.limit = local.real THEN limit ELSE local.limit
    BY <1>1, HolderOK DEF WithLimit, ThreadLocal
  <1>6. local.real # kInterruptLimit
    BY HolderOK
  <1>7. OwnerOK(t)'
    BY <1>2, <1>5, <1>6, HolderOK DEF OwnerOK, Shown
  <1>. QED BY <1>3, <1>4, <1>7, HolderOK, HolderStep DEF Place, Idle, Inv, TypeOK

LEMMA OpenScopeInv ==
    ASSUME Inv, NEW t \in Thread, OpenScope(t)
    PROVE  Inv'
  <1>. USE DEF OpenScope, Running
  <1>1. local' \in ThreadLocal
    BY HolderOK, NestingAssumption DEF ThreadLocal
  <1>2. pc'[t] = "disabling"
    BY DEF Goto, Inv, TypeOK
  <1>3. OwnerOK(t)'
    BY <1>2, HolderOK DEF OwnerOK, ThreadLocal
  <1>. QED BY <1>1, <1>3, HolderOK, HolderStep DEF Place, Idle, Inv, TypeOK

LEMMA DisableInterruptsInv ==
    ASSUME Inv, NEW t \in Thread, DisableInterrupts(t)
    PROVE  Inv'
  <1>. USE DEF DisableInterrupts, Reset, RootsOf
  <1>1. holder = t
    BY RunningHolds DEF Idle
  <1>2. local' \in ThreadLocal /\ roots' \in RootsType
    BY <1>1, HolderOK DEF ThreadLocal, RootsType, Limits
  <1>3. pc'[t] = "run"
    BY DEF Goto, Inv, TypeOK
  <1>4. OwnerOK(t)'
    BY <1>1, <1>3, HolderOK DEF OwnerOK, Shown, ThreadLocal
  <1>. QED BY <1>1, <1>2, <1>4, HolderStep DEF Place, Idle, Inv, TypeOK

LEMMA CloseScopeInv ==
    ASSUME Inv, NEW t \in Thread, CloseScope(t)
    PROVE  Inv'
  <1>. USE DEF CloseScope, Running
  <1>1. local' \in ThreadLocal
    BY HolderOK, NestingAssumption DEF ThreadLocal
  <1>2. pc'[t] = IF local.nesting = 1 THEN "enabling" ELSE "run"
    BY DEF Goto, Inv, TypeOK
  <1>3. OwnerOK(t)'
    BY <1>2, HolderOK, NestingAssumption DEF OwnerOK, Shown, ThreadLocal
  <1>. QED BY <1>1, <1>3, HolderOK, HolderStep DEF Place, Idle, Inv, TypeOK

LEMMA EnableInterruptsInv ==
    ASSUME Inv, NEW t \in Thread, EnableInterrupts(t)
    PROVE  Inv'
  <1>. USE DEF EnableInterrupts, Interrupted, RootsOf
  <1>1. holder = t
    BY RunningHolds DEF Idle
  <1>2. local' \in ThreadLocal /\ roots' \in RootsType
    BY <1>1, HolderOK DEF ThreadLocal, RootsType, Limits
  <1>3. pc'[t] = "run"
    BY DEF Goto, Inv, TypeOK
  <1>4. OwnerOK(t)'
    BY <1>1, <1>3, HolderOK DEF OwnerOK, Shown, ThreadLocal
  <1>. QED BY <1>1, <1>2, <1>4, HolderStep DEF Place, Idle, Inv, TypeOK

(* The checks and RuntimeStackGuard only move the program counter. *)
LEMMA MoveInv ==
    ASSUME Inv, NEW t \in Thread, holder = t, UNCHANGED <<threadVars, local, roots>>,
           pc[t] \notin {"starting", "disabling", "enabling"},
           NEW where \in Place \ (Idle \cup {"starting", "disabling", "enabling"}),
           Goto(t, where), sp' \in Address \cup {None}
    PROVE  Inv'
  <1>1. pc'[t] = where
    BY DEF Goto, Inv, TypeOK
  <1>2. OwnerOK(t)'
    BY <1>1, HolderOK DEF OwnerOK, Shown
  <1>. QED BY <1>2, HolderOK, HolderStep

LEMMA ChecksInv ==
    ASSUME Inv, NEW t \in Thread,
           CheckStack(t) \/ RuntimeStackGuard(t) \/ RuntimeInterrupt(t)
    PROVE  Inv'
  <1>1. CASE CheckStack(t)
    BY <1>1, MoveInv DEF CheckStack, Running, Place, Idle, Address
  <1>2. CASE RuntimeStackGuard(t)
    BY <1>2, RunningHolds, MoveInv DEF RuntimeStackGuard, Place, Idle
  <1>3. CASE RuntimeInterrupt(t)
    BY <1>3, MoveInv DEF RuntimeInterrupt, Running, Place, Idle, Inv, TypeOK
  <1>. QED BY <1>1, <1>2, <1>3

(* A stage of the handler takes off its request, or goes on without one. *)
LEMMA StageInv ==
    ASSUME Inv, NEW t \in Thread,
           NEW from \in {"gc", "break", "preempt", "terminate", "deopt"}, NEW f,
           NEW handled \in {"run", "break", "preempt", "unlocking"},
           NEW next \in {"run", "break", "preempt", "terminate", "deopt"},
           Stage(t, from, f, handled, next)
    PROVE  Inv'
  <1>. USE DEF Stage
  <1>1. holder = t
    BY RunningHolds DEF Idle
  <1>2. CASE f \notin local.flags
    BY <1>1, <1>2, MoveInv DEF Place, Idle, Inv, TypeOK
  <1>3. CASE f \in local.flags
    <2>1. f \in Flag
      BY <1>3 DEF Inv, TypeOK, ThreadLocal
    <2>2. pc'[t] = handled
      BY <1>3 DEF Goto, Inv, TypeOK
    <2>3. OwnerOK(t)'
      BY <1>1, <1>3, <2>1, <2>2, HolderOK, RequestOwner DEF Inv
    <2>4. local' \in ThreadLocal /\ roots' \in RootsType
      BY <1>3, <2>1, RequestType DEF Inv, RootsType
    <2>. QED BY <1>1, <1>3, <2>3, <2>4, HolderStep DEF Place, Idle, Inv, TypeOK
  <1>. QED BY <1>2, <1>3

LEMMA HandleInv ==
    ASSUME Inv, NEW t \in Thread, Handle(t)
    PROVE  Inv'
  <1>1. CASE RuntimeStackGuard(t)
    BY <1>1, ChecksInv
  <1>2. CASE HandleGCRequest(t)
    BY <1>2, StageInv DEF HandleGCRequest
  <1>3. CASE HandleDebugBreak(t)
    <2>1. CASE Stage(t, "break", DEBUGBREAK, "preempt", "preempt")
      BY <2>1, StageInv
    <2>2. CASE pc[t] = "break" /\ Goto(t, "preempt")
               /\ UNCHANGED <<threadVars, local, roots, sp>>
      BY <2>2, RunningHolds, MoveInv DEF Place, Idle, Inv, TypeOK
    <2>. QED BY <1>3, <2>1, <2>2 DEF HandleDebugBreak
  <1>4. CASE HandlePreempt(t)
    BY <1>4, StageInv DEF HandlePreempt
  <1>5. CASE HandleTermination(t)
    BY <1>5, StageInv DEF HandleTermination
  <1>6. CASE HandleFullDeopt(t)
    BY <1>6, StageInv DEF HandleFullDeopt
  <1>. QED BY <1>1, <1>2, <1>3, <1>4, <1>5, <1>6 DEF Handle

(* A request from any thread reaches the guard of whoever owns it. *)
LEMMA RequestInv ==
    ASSUME Inv, NEW f \in Flag, Post(f) \/ Cancel(f)
    PROVE  Inv'
  <1>1. (Request(f) \/ Continue(f)) /\ UNCHANGED <<threadVars, pc, sp>>
    BY DEF Post, Cancel
  <1>. USE DEF Inv, threadVars
  <1>2. TypeOK'
    BY <1>1, RequestType DEF TypeOK, RootsType
  <1>3. GuardOK'
    BY <1>1, RequestOwner DEF GuardOK
  <1>4. ArchiveOK' /\ LazyOK' /\ StoredOK'
    BY <1>1 DEF ArchiveOK, LazyOK, StoredOK, Shown
  <1>5. StartingOK'
    <2>1. SUFFICES ASSUME NEW t \in Thread, holder = t, pc[t] = "starting"
          PROVE  /\ local'.nesting = 0
                 /\ local'.flags # {} =>
                        local'.limit = kInterruptLimit /\ roots'.limit = kInterruptLimit
      BY <1>1 DEF StartingOK
    <2>2. CASE Request(f)
      BY <2>1, <2>2 DEF Request, Interrupted, RootsOf, StartingOK, TypeOK, ThreadLocal
    <2>3. CASE Continue(f)
      BY <2>1, <2>3 DEF Continue, Continued, Reset, RootsOf, StartingOK, TypeOK, ThreadLocal
    <2>. QED BY <1>1, <2>2, <2>3
  <1>. QED BY <1>2, <1>3, <1>4, <1>5

-----------------------------------------------------------------------------
(* Changing threads. *)

(* What ArchiveStackGuard stores for the thread that was lazily archived. *)
LEMMA ArchivedOK ==
    ASSUME Inv, holder = None
    PROVE  /\ Archived \in [Thread -> ThreadLocal]
           /\ Left \in ThreadLocal /\ LeftRoots \in RootsType
           /\ \A t \in Thread : pc[t] \in {"unlocked", "preempted"} =>
                 /\ Archived[t].real \in OwnLimits(t)
                 /\ Archived[t].limit = Shown(Archived[t])
  <1>1. Archived \in [Thread -> ThreadLocal] /\ Left \in ThreadLocal
    BY BlankOK DEF Inv, TypeOK, Archived, Left
  <1>2. LeftRoots \in RootsType
    BY DEF Inv, TypeOK, LeftRoots, RootsOf, ThreadLocal, RootsType
  <1>3. ASSUME NEW t \in Thread, pc[t] \in {"unlocked", "preempted"}
        PROVE  Archived[t].real \in OwnLimits(t) /\ Archived[t].limit = Shown(Archived[t])
    <2>1. CASE lazy = t
      <3>1. OwnerOK(t)
        BY <2>1 DEF Inv, GuardOK
      <3>2. Archived[t] = local
        BY <2>1, FlagAssumption DEF Archived, Inv, TypeOK
      <3>. QED BY <1>3, <3>1, <3>2 DEF OwnerOK
    <2>2. CASE lazy # t
      <3>1. Archived[t] = archived[t]
        BY <2>2 DEF Archived, Inv, TypeOK
      <3>. QED BY <1>3, <2>2, <3>1 DEF Inv, ArchiveOK
    <2>. QED BY <2>1, <2>2
  <1>. QED BY <1>1, <1>2, <1>3

LEMMA EnterInv ==
    ASSUME Inv, NEW t \in Thread, Enter(t)
    PROVE  Inv'
  <1>. USE DEF Enter, Goto
  <1>1. /\ pc' \in [Thread -> Place] /\ pc'[t] = "starting" /\ pc[t] = "outside"
        /\ \A u \in Thread : u # t => pc'[u] = pc[u]
    BY DEF Inv, TypeOK, Place
  <1>2. t # None
    BY FlagAssumption
  <1>3. local' \in ThreadLocal
    BY ArchivedOK, InitThreadOK DEF Inv
  <1>4. roots' \in RootsType
    BY ArchivedOK, FreshOK DEF InitThreadRoots, RootsOf, RootsType, ThreadLocal
  <1>idle. \A u \in Thread : holder' = u <=> pc'[u] \notin Idle
    BY <1>1, FlagAssumption DEF Inv, TypeOK, Idle
  <1>5. TypeOK'
    BY <1>1, <1>2, <1>3, <1>4, <1>idle, ArchivedOK DEF Inv, TypeOK, RootsType
  <1>fresh. local'.nesting = 0 /\ local'.flags = {}
    <2>1. Initialized(Left, t) \in ThreadLocal
          /\ Initialized(Left, t).nesting = 0 /\ Initialized(Left, t).flags = {}
      BY ArchivedOK, FreshOK, NestingAssumption DEF Initialized, ThreadLocal
    <2>. QED BY <2>1 DEF InitThread, WithLimit, ThreadLocal
  <1>starting. StartingOK'
    BY <1>fresh DEF StartingOK
  <1>6. GuardOK'
    BY <1>1, FlagAssumption DEF GuardOK
  <1>7. ArchiveOK'
    BY <1>1, ArchivedOK DEF ArchiveOK, Shown
  <1>8. LazyOK' /\ StoredOK'
    BY DEF Inv, LazyOK, StoredOK
  <1>. QED BY <1>5, <1>6, <1>7, <1>8, <1>starting DEF Inv

LEMMA ClearThreadInv ==
    ASSUME Inv, NEW t \in Thread, ClearThread(t)
    PROVE  Inv'
  <1>. USE DEF ClearThread
  <1>1. holder = t
    BY RunningHolds DEF Idle
  <1>2. local' \in ThreadLocal
    BY BlankOK, InitThreadOK DEF Inv
  <1>3. roots' = RootsOf(Fresh(t))
    BY BlankOK DEF InitThreadRoots
  <1>4. roots' \in RootsType /\ roots'.limit = DefaultLimit[t]
    BY <1>3, FreshOK DEF RootsOf, RootsType, ThreadLocal
  <1>5. pc'[t] = "run"
    BY DEF Goto, Inv, TypeOK
  <1>6. OwnerOK(t)'
    BY <1>4, <1>5, InitThreadOwn, OwnLimitsLow, DefaultIsOwn DEF OwnerOK, Shown, Inv
  <1>. QED BY <1>1, <1>2, <1>4, <1>6, HolderStep DEF Place, Idle, Inv, TypeOK

LEMMA LeaveInv ==
    ASSUME Inv, NEW t \in Thread, Leave(t)
    PROVE  Inv'
  <1>. USE DEF Leave, Goto, Running
  <1>1. /\ pc' \in [Thread -> Place] /\ pc'[t] = "outside" /\ pc[t] = "run"
        /\ \A u \in Thread : u # t => pc'[u] = pc[u]
    BY DEF Inv, TypeOK, Place
  <1>2. t # None /\ lazy = None
    BY FlagAssumption DEF Inv, LazyOK
  <1>3. stored'[t] \in OwnLimits(t) /\ \A u \in Thread : u # t => stored'[u] = stored[u]
    BY HolderOK DEF OwnerOK, Inv, TypeOK
  <1>4. stored' \in [Thread -> RealLimit \cup {0}]
    BY HolderOK DEF Inv, TypeOK
  <1>5. TypeOK'
    BY <1>1, <1>2, <1>4, FlagAssumption DEF Inv, TypeOK, Idle
  <1>6. GuardOK' /\ LazyOK' /\ StartingOK'
    BY <1>2, FlagAssumption DEF GuardOK, LazyOK, StartingOK
  <1>7. ArchiveOK'
    BY <1>1 DEF Inv, ArchiveOK, Shown
  <1>8. StoredOK'
    BY <1>3 DEF Inv, StoredOK
  <1>. QED BY <1>5, <1>6, <1>7, <1>8 DEF Inv

LEMMA UnlockInv ==
    ASSUME Inv, NEW t \in Thread, Unlock(t)
    PROVE  Inv'
  <1>. USE DEF Unlock, Goto
  <1>1. /\ pc' \in [Thread -> Place] /\ pc'[t] \in {"unlocked", "preempted"}
        /\ pc[t] \in {"run", "unlocking"}
        /\ \A u \in Thread : u # t => pc'[u] = pc[u]
    BY DEF Inv, TypeOK, Place
  <1>2. t # None /\ lazy = None
    BY FlagAssumption DEF Inv, LazyOK
  <1>3. TypeOK'
    BY <1>1, <1>2, FlagAssumption DEF Inv, TypeOK, Idle
  <1>4. OwnerOK(t)'
    BY <1>1, HolderOK DEF OwnerOK, Shown
  <1>5. GuardOK' /\ LazyOK' /\ StartingOK'
    BY <1>1, <1>4, FlagAssumption DEF GuardOK, LazyOK, StartingOK
  <1>6. ArchiveOK'
    BY <1>1, <1>2, FlagAssumption DEF Inv, ArchiveOK, Shown
  <1>7. StoredOK'
    BY DEF Inv, StoredOK
  <1>. QED BY <1>3, <1>5, <1>6, <1>7 DEF Inv

LEMMA RelockInv ==
    ASSUME Inv, NEW t \in Thread, Relock(t)
    PROVE  Inv'
  <1>. USE DEF Relock, Goto
  <1>1. /\ pc' \in [Thread -> Place] /\ pc'[t] \in {"run", "terminate"}
        /\ pc[t] \in {"unlocked", "preempted"}
        /\ \A u \in Thread : u # t => pc'[u] = pc[u]
    BY DEF Inv, TypeOK, Place
  <1>2. t # None /\ holder' = t /\ lazy' = None
    BY FlagAssumption
  <1>3. OwnerOK(t)' /\ local' \in ThreadLocal /\ roots' \in RootsType
    <2>1. CASE lazy = t
      BY <1>1, <2>1 DEF Inv, GuardOK, OwnerOK, Shown, TypeOK, RootsType
    <2>2. CASE lazy # t
      <3>1. local' = archived[t] /\ roots' = RootsOf(archived[t])
        BY <2>2
      <3>2. archived[t] \in ThreadLocal /\ archived[t].real \in OwnLimits(t)
            /\ archived[t].limit = Shown(archived[t])
        BY <1>1, <2>2 DEF Inv, TypeOK, ArchiveOK
      <3>. QED BY <1>1, <3>1, <3>2
               DEF OwnerOK, Shown, RootsOf, ThreadLocal, RootsType
    <2>. QED BY <2>1, <2>2
  <1>4. /\ archived' \in [Thread -> ThreadLocal]
        /\ \A u \in Thread : u # t /\ pc[u] \in {"unlocked", "preempted"} =>
              archived'[u].real \in OwnLimits(u) /\ archived'[u].limit = Shown(archived'[u])
    <2>1. CASE lazy = t
      BY <2>1 DEF Inv, TypeOK, ArchiveOK
    <2>2. CASE lazy # t
      BY <2>2, ArchivedOK, BlankOK
    <2>. QED BY <2>1, <2>2
  <1>idle. \A u \in Thread : holder' = u <=> pc'[u] \notin Idle
    BY <1>1, <1>2, FlagAssumption DEF Inv, TypeOK, Idle
  <1>5. TypeOK'
    BY <1>1, <1>2, <1>3, <1>4, <1>idle DEF Inv, TypeOK, RootsType
  <1>6. GuardOK' /\ LazyOK' /\ StoredOK' /\ StartingOK'
    BY <1>1, <1>2, <1>3, FlagAssumption DEF Inv, GuardOK, LazyOK, StoredOK, StartingOK
  <1>7. ArchiveOK'
    BY <1>1, <1>4 DEF ArchiveOK, Shown
  <1>. QED BY <1>5, <1>6, <1>7 DEF Inv

-----------------------------------------------------------------------------
LEMMA InitInv == Init => Inv
  <1>. SUFFICES ASSUME Init PROVE Inv
    OBVIOUS
  <1>1. PICK t \in Thread : local = Fresh(t)
    BY DEF Init
  <1>2. local \in ThreadLocal /\ roots \in RootsType
    BY <1>1, FreshOK DEF Init, RootsOf, RootsType, ThreadLocal
  <1>3. TypeOK
    BY <1>2, BlankOK, FlagAssumption DEF Init, TypeOK, RootsType, Place, Idle
  <1>4. GuardOK /\ StartingOK /\ ArchiveOK /\ LazyOK /\ StoredOK
    BY FlagAssumption DEF Init, GuardOK, StartingOK, ArchiveOK, LazyOK, StoredOK
  <1>. QED BY <1>3, <1>4 DEF Inv

LEMMA NextInv == Inv /\ [Next]_vars => Inv'
  <1>. SUFFICES ASSUME Inv, [Next]_vars PROVE Inv'
    OBVIOUS
  <1>1. ASSUME NEW t \in Thread, ScopeStep(t)
        PROVE  Inv'
    BY <1>1, SetStackLimitInv, OpenScopeInv, DisableInterruptsInv, CloseScopeInv,
       EnableInterruptsInv DEF ScopeStep
  <1>2. ASSUME NEW t \in Thread, ThreadStep(t)
        PROVE  Inv'
    BY <1>1, <1>2, ChecksInv, HandleInv, EnterInv, ClearThreadInv, LeaveInv,
       UnlockInv, RelockInv DEF ThreadStep
  <1>3. CASE UNCHANGED vars
    BY <1>3 DEF vars, threadVars, Inv, TypeOK, GuardOK, OwnerOK, StartingOK,
                ArchiveOK, LazyOK, StoredOK, Shown
  <1>. QED BY <1>2, <1>3, RequestInv DEF Next

THEOREM Invariant == Spec => []Inv
  BY InitInv, NextInv, PTL DEF Spec

(* The guard, its roots and the archives hold limits, flags and depths of    *)
(* their kinds, and the threads inside are those that have the V8 lock.    *)
THEOREM TypeCorrect == Spec => []TypeOK
  BY Invariant, PTL DEF Inv

(* A request that is not postponed shows in both limits, with any number of *)
(* requests from any threads and whatever limits the threads set: no        *)
(* request is slept on because somebody wrote over the limit.              *)
THEOREM RequestsAlwaysTrap == Spec => []RequestsTrap
  <1>1. ASSUME Inv, NEW t \in Thread, holder = t, pc[t] # "enabling",
               local.nesting = 0, local.flags # {}
        PROVE  local.limit = kInterruptLimit /\ roots.limit = kInterruptLimit
    <2>1. CASE pc[t] = "starting"
      BY <1>1, <2>1 DEF Inv, StartingOK
    <2>2. CASE pc[t] # "starting"
      BY <1>1, <2>2, HolderOK DEF OwnerOK, Shown
    <2>. QED BY <2>1, <2>2
  <1>2. Inv => RequestsTrap
    BY <1>1 DEF RequestsTrap
  <1>. QED BY <1>2, Invariant, PTL

(* The limit is high only while there is a request to handle, and never in  *)
(* a PostponeInterruptsScope, nested to any depth.                         *)
THEOREM TrapsAlwaysHaveRequests == Spec => []TrapsHaveRequests
  <1>1. ASSUME Inv, NEW t \in Thread, holder = t, pc[t] \notin {"starting", "disabling"},
               local.limit = kInterruptLimit \/ roots.limit = kInterruptLimit
        PROVE  local.flags # {} /\ local.nesting = 0 /\ local.limit = roots.limit
    <2>1. OwnerOK(t) /\ local.real # kInterruptLimit
      BY <1>1, HolderOK
    <2>2. local.limit = kInterruptLimit /\ roots.limit = kInterruptLimit
      BY <1>1, <2>1 DEF OwnerOK
    <2>3. local.flags # {} /\ local.nesting = 0
      BY <1>1, <2>1, <2>2 DEF OwnerOK, Shown
    <2>. QED BY <2>2, <2>3
  <1>2. Inv => TrapsHaveRequests
    BY <1>1 DEF TrapsHaveRequests
  <1>. QED BY <1>2, Invariant, PTL

(* Every thread is measured with its own limit, through any exchange of the *)
(* V8 lock.                                                                *)
THEOREM OwnStackLimitAlways == Spec => []OwnStackLimit
  <1>1. Inv => OwnStackLimit
    BY HolderOK DEF OwnStackLimit, OwnerOK
  <1>. QED BY <1>1, Invariant, PTL
=============================================================================
