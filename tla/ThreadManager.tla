---------------------------- MODULE ThreadManager ----------------------------
(***************************************************************************)
(* Threads that share one isolate: v8::Locker, v8::Unlocker, the           *)
(* ThreadManager behind them, the ThreadState objects in which the data of *)
(* a thread that gave up the V8 lock is kept, and the ContextSwitcher      *)
(* thread that asks the running thread to give it up (v8threads.{h,cc}).   *)
(*                                                                         *)
(* A thread is archived lazily: giving up the lock only reserves a         *)
(* ThreadState.  The isolate's live data are copied into it when another   *)
(* thread takes the lock; if the same thread takes it again, nothing has   *)
(* to be copied.                                                           *)
(*                                                                         *)
(* Steps.  Everything here but the interrupt flags is only touched by the  *)
(* thread that holds mutex_, so taking the mutex and the code under it     *)
(* make one step with the ExecutionAccess section that follows, and the    *)
(* step ends where the flags can be changed by someone else.               *)
(***************************************************************************)
EXTENDS Integers, Sequences, FiniteSets

CONSTANTS
    Thread,          \* the threads that use the isolate
    ThreadState,     \* ThreadState objects that can be allocated
    MaxScopes,       \* bound: Lockers and Unlockers on all stacks
    free_anchor, in_use_anchor,   \* the anchors of the two lists
    PREEMPT, TERMINATE,           \* the interrupt flags modelled
    None             \* ThreadId::Invalid() and the null ThreadState*

Anchor == {free_anchor, in_use_anchor}
Interrupt == {PREEMPT, TERMINATE}

ASSUME DistinctAssumption ==
    /\ free_anchor # in_use_anchor
    /\ Anchor \cap ThreadState = {}
    /\ None \notin Thread \cup ThreadState
    /\ PREEMPT # TERMINATE
ASSUME FiniteAssumption == IsFiniteSet(Thread) /\ IsFiniteSet(ThreadState)
ASSUME MaxScopesAssumption == MaxScopes \in Nat

VARIABLES
    mutexOwner,          \* ThreadManager::mutex_ and mutex_owner_
    lazilyArchived,      \* lazily_archived_thread_
    lazyState,           \* lazily_archived_thread_state_
    threadState,         \* PerIsolateThreadData::thread_state_ of each thread
    allocated,           \* the ThreadStates allocated so far
    links,               \* next_ and previous_ of the states and the anchors
    id,                  \* ThreadState::id_
    terminateOnRestore,  \* ThreadState::terminate_on_restore_
    saved,               \* ThreadState::data_
    live,                \* the isolate's live per-thread data
    scopes,              \* the Lockers and Unlockers on each thread's stack
    pc,                  \* where each thread is between two steps
    switcher             \* the ContextSwitcher thread

stateVars == <<allocated, links, id, terminateOnRestore, saved>>
lazyVars == <<lazilyArchived, lazyState, threadState>>
vars == <<mutexOwner, stateVars, lazyVars, live, scopes, pc, switcher>>

(* Per-thread data: whose handle blocks, exceptions and regexp stack the   *)
(* area holds, and the StackGuard's interrupt_flags_.                      *)
Area == [data : SUBSET Thread, flags : SUBSET Interrupt]
Blank == [data |-> {}, flags |-> {}]

Scope ==
    [kind : {"unlocker"}]
    \cup [kind : {"locker"}, has_lock : BOOLEAN, top_level : BOOLEAN]

Locker(hasLock, topLevel) ==
    [kind |-> "locker", has_lock |-> hasLock, top_level |-> topLevel]
Unlocker == [kind |-> "unlocker"]

Push(t, scope) == [scopes EXCEPT ![t] = Append(@, scope)]
Pop(t) == [scopes EXCEPT ![t] = SubSeq(@, 1, Len(@) - 1)]
Inner(t) == scopes[t][Len(scopes[t])]
Holding(t, kind) == scopes[t] # <<>> /\ Inner(t).kind = kind

RoomForScope ==
    Cardinality(UNION {{t} \X DOMAIN scopes[t] : t \in Thread}) < MaxScopes

IsLockedByCurrentThread(t) == mutexOwner = t

-----------------------------------------------------------------------------
(* The lists: circular and doubly linked, with an anchor that is never      *)
(* removed.                                                                *)

Unlink(l, s) ==
    [next     |-> [l.next EXCEPT ![l.previous[s]] = l.next[s]],
     previous |-> [l.previous EXCEPT ![l.next[s]] = l.previous[s]]]

LinkInto(l, s, anchor) ==
    [next     |-> [l.next EXCEPT ![s] = l.next[anchor], ![anchor] = s],
     previous |-> [l.previous EXCEPT ![s] = anchor, ![l.next[anchor]] = s]]

(* The states met by following next_ from the anchor. *)
Members(anchor) ==
    LET met[n \in 0..Cardinality(ThreadState)] ==
            IF n = 0 THEN {links.next[anchor]}
            ELSE LET nearer == met[n - 1]
                 IN  nearer \cup {links.next[s] : s \in nearer \ {anchor}}
    IN  met[Cardinality(ThreadState)] \ {anchor}

Init ==
    /\ mutexOwner = None
    /\ lazilyArchived = None
    /\ lazyState = None
    /\ threadState = [t \in Thread |-> None]
    /\ allocated = {}
    /\ links = [next     |-> [s \in ThreadState \cup Anchor |-> s],
                previous |-> [s \in ThreadState \cup Anchor |-> s]]
    /\ id = [s \in ThreadState |-> None]
    /\ terminateOnRestore = [s \in ThreadState |-> FALSE]
    /\ saved = [s \in ThreadState |-> Blank]
    /\ live = Blank
    /\ scopes = [t \in Thread |-> <<>>]
    /\ pc = [t \in Thread |-> "run"]
    /\ switcher = "none"

-----------------------------------------------------------------------------
(* Giving up the lock. *)

(* The state GetFreeThreadState hands out: the first of the free list, a new *)
(* one only when the list is empty.  Nothing tells two new ones apart.      *)
IsFreeThreadState(s) ==
    IF links.next[free_anchor] # free_anchor
    THEN s = links.next[free_anchor]
    ELSE /\ allocated # ThreadState
         /\ s = CHOOSE new \in ThreadState : new \notin allocated

IsArchived(t) == threadState[t] # None

(* Reserves a ThreadState for thread t, whose data stay live, and unlocks. *)
(* The ASSERTs are guards: a debug build does not go on when one fails.    *)
ArchiveThread(t) ==
    \E s \in ThreadState :
        /\ IsFreeThreadState(s)
        /\ lazilyArchived = None
        /\ ~IsArchived(t)
        /\ id[s] = None
        /\ allocated' = allocated \cup {s}
        /\ links' = Unlink(links, s)
        /\ threadState' = [threadState EXCEPT ![t] = s]
        /\ lazilyArchived' = t
        /\ lazyState' = s
        /\ id' = [id EXCEPT ![s] = t]
        /\ mutexOwner' = None
        /\ UNCHANGED <<terminateOnRestore, saved>>

FreeThreadResources ==
    /\ live' = [live EXCEPT !.data = {}]
    /\ mutexOwner' = None
    /\ UNCHANGED <<stateVars, lazyVars>>

-----------------------------------------------------------------------------
(* Taking the lock. *)

(* Mutant: the state that was reserved is not put back in the free list. *)
BugForgetState(t) ==
    /\ lazilyArchived = t
    /\ threadState[t] = lazyState
    /\ lazilyArchived' = None
    /\ lazyState' = None
    /\ threadState' = [threadState EXCEPT ![t] = None]
    /\ id' = [id EXCEPT ![lazyState] = None]
    /\ UNCHANGED <<links, allocated, terminateOnRestore, saved, live>>

(* The same thread comes back before its data were moved. *)
RestoreLazilyArchived(t) ==
    /\ lazilyArchived = t
    /\ threadState[t] = lazyState
    /\ lazilyArchived' = None
    /\ lazyState' = None
    /\ threadState' = [threadState EXCEPT ![t] = None]
    /\ id' = [id EXCEPT ![lazyState] = None]
    /\ links' = LinkInto(links, lazyState, free_anchor)
    /\ UNCHANGED <<allocated, terminateOnRestore, saved, live>>

(* Mutant: the data are copied and stay in the live area as well. *)
BugArchiveKeepsLive ==
    IF lazilyArchived = None
    THEN [links |-> links, saved |-> saved, live |-> live]
    ELSE [links |-> LinkInto(links, lazyState, in_use_anchor),
          saved |-> [saved EXCEPT ![lazyState] = live],
          live  |-> live]

(* EagerlyArchiveThread, when another thread was only lazily archived: its  *)
(* data are moved to its state and the live area is left blank.             *)
EagerlyArchived ==
    IF lazilyArchived = None
    THEN [links |-> links, saved |-> saved, live |-> live]
    ELSE [links |-> LinkInto(links, lazyState, in_use_anchor),
          saved |-> [saved EXCEPT ![lazyState] = live],
          live  |-> Blank]

(* Mutant: thread_state_ still points to the state that was freed. *)
BugKeepThreadState(t) ==
    LET archived == EagerlyArchived
        state == threadState[t]
        request == IF terminateOnRestore[state] THEN {TERMINATE} ELSE {}
    IN  /\ lazilyArchived # t
        /\ IsArchived(t)
        /\ live' = [archived.saved[state] EXCEPT !.flags = @ \cup request]
        /\ terminateOnRestore' = [terminateOnRestore EXCEPT ![state] = FALSE]
        /\ id' = [id EXCEPT ![state] = None]
        /\ links' = LinkInto(Unlink(archived.links, state), state, free_anchor)
        /\ saved' = [archived.saved EXCEPT ![state] = Blank]
        /\ lazilyArchived' = None
        /\ lazyState' = None
        /\ UNCHANGED <<threadState, allocated>>

(* Mutant: terminate_on_restore is reset before it is looked at. *)
BugDropRequest(t) ==
    LET archived == EagerlyArchived
        state == threadState[t]
    IN  /\ lazilyArchived # t
        /\ IsArchived(t)
        /\ live' = archived.saved[state]
        /\ threadState' = [threadState EXCEPT ![t] = None]
        /\ terminateOnRestore' = [terminateOnRestore EXCEPT ![state] = FALSE]
        /\ id' = [id EXCEPT ![state] = None]
        /\ links' = LinkInto(Unlink(archived.links, state), state, free_anchor)
        /\ saved' = [archived.saved EXCEPT ![state] = Blank]
        /\ lazilyArchived' = None
        /\ lazyState' = None
        /\ UNCHANGED allocated

(* Another thread's state is copied back and freed.  The copy that remains  *)
(* in its buffer is written over before the state is used again: Blank.    *)
RestoreArchived(t) ==
    LET archived == EagerlyArchived
        state == threadState[t]
        request == IF terminateOnRestore[state] THEN {TERMINATE} ELSE {}
    IN  /\ lazilyArchived # t
        /\ IsArchived(t)
        /\ live' = [archived.saved[state] EXCEPT !.flags = @ \cup request]
        /\ threadState' = [threadState EXCEPT ![t] = None]
        /\ terminateOnRestore' = [terminateOnRestore EXCEPT ![state] = FALSE]
        /\ id' = [id EXCEPT ![state] = None]
        /\ links' = LinkInto(Unlink(archived.links, state), state, free_anchor)
        /\ saved' = [archived.saved EXCEPT ![state] = Blank]
        /\ lazilyArchived' = None
        /\ lazyState' = None
        /\ UNCHANGED allocated

(* RestoreThread returns true. *)
RestoreThread(t) == RestoreLazilyArchived(t) \/ RestoreArchived(t)

(* Mutant: the state of the thread archived in passing is not forgotten. *)
BugKeepLazyState(t) ==
    LET archived == EagerlyArchived
    IN  /\ lazilyArchived # t
        /\ ~IsArchived(t)
        /\ live' = [data |-> archived.live.data \cup {t}, flags |-> {}]
        /\ links' = archived.links
        /\ saved' = archived.saved
        /\ lazilyArchived' = None
        /\ UNCHANGED <<lazyState, threadState, allocated, id, terminateOnRestore>>

(* RestoreThread returns false: a new thread, whose flags InitThread clears. *)
InitNewThread(t) ==
    LET archived == EagerlyArchived
    IN  /\ lazilyArchived # t
        /\ ~IsArchived(t)
        /\ live' = [data |-> archived.live.data \cup {t}, flags |-> {}]
        /\ links' = archived.links
        /\ saved' = archived.saved
        /\ lazilyArchived' = None
        /\ lazyState' = None
        /\ UNCHANGED <<threadState, allocated, id, terminateOnRestore>>

-----------------------------------------------------------------------------
(* Locker and Unlocker, the scopes of a thread's stack. *)

At(t, where) == pc[t] = where
Goto(t, where) == pc' = [pc EXCEPT ![t] = where]

(* Mutant: a nested Locker believes that it took the lock. *)
BugNestedLocker(t) ==
    /\ At(t, "run")
    /\ IsLockedByCurrentThread(t)
    /\ RoomForScope
    /\ scopes' = Push(t, Locker(TRUE, TRUE))
    /\ UNCHANGED <<mutexOwner, stateVars, lazyVars, live, pc, switcher>>

(* A Locker of a thread that already has the lock does nothing. *)
NestedLocker(t) ==
    /\ At(t, "run")
    /\ IsLockedByCurrentThread(t)
    /\ RoomForScope
    /\ scopes' = Push(t, Locker(FALSE, TRUE))
    /\ UNCHANGED <<mutexOwner, stateVars, lazyVars, live, pc, switcher>>

(* Any other waits for the lock and restores the thread, if there is       *)
(* something to restore.                                                   *)
LockerInitialize(t) ==
    /\ At(t, "run")
    /\ mutexOwner = None
    /\ RoomForScope
    /\ mutexOwner' = t
    /\ \/ /\ RestoreThread(t)
          /\ scopes' = Push(t, Locker(TRUE, FALSE))
          /\ UNCHANGED pc
       \/ /\ InitNewThread(t)
          /\ Goto(t, "clearing")
          /\ UNCHANGED scopes
    /\ UNCHANGED switcher

(* The end of the Locker's constructor in a new thread: ClearThread and    *)
(* InitThread, under ExecutionAccess of their own.                         *)
ClearThread(t) ==
    /\ At(t, "clearing")
    /\ live' = [live EXCEPT !.flags = {}]
    /\ scopes' = Push(t, Locker(TRUE, TRUE))
    /\ Goto(t, "run")
    /\ UNCHANGED <<mutexOwner, stateVars, lazyVars, switcher>>

DestroyLocker(t) ==
    /\ At(t, "run")
    /\ Holding(t, "locker")
    /\ \/ /\ ~Inner(t).has_lock
          /\ scopes' = Pop(t)
          /\ UNCHANGED <<mutexOwner, stateVars, lazyVars, live, pc, switcher>>
       \/ /\ Inner(t).has_lock /\ Inner(t).top_level
          /\ FreeThreadResources
          /\ scopes' = Pop(t)
          /\ UNCHANGED <<pc, switcher>>
       \/ /\ Inner(t).has_lock /\ ~Inner(t).top_level
          /\ ArchiveThread(t)
          /\ scopes' = Pop(t)
          /\ UNCHANGED <<live, pc, switcher>>

UnlockerInitialize(t) ==
    /\ At(t, "run")
    /\ IsLockedByCurrentThread(t)
    /\ RoomForScope
    /\ ArchiveThread(t)
    /\ scopes' = Push(t, Unlocker)
    /\ UNCHANGED <<live, pc, switcher>>

DestroyUnlocker(t) ==
    /\ At(t, "run")
    /\ Holding(t, "unlocker")
    /\ mutexOwner = None
    /\ mutexOwner' = t
    /\ RestoreThread(t)
    /\ scopes' = Pop(t)
    /\ UNCHANGED <<pc, switcher>>

-----------------------------------------------------------------------------
(* Interrupts: preemption and termination. *)

(* A stack check of the running thread finds a request.  RuntimePreempt    *)
(* takes the flag off and lets other threads run inside an Unlocker.       *)
HandleStackGuardInterrupt(t) ==
    /\ At(t, "run")
    /\ IsLockedByCurrentThread(t)
    /\ live.flags # {}
    /\ \/ /\ PREEMPT \notin live.flags
          /\ Goto(t, "preempted")
          /\ UNCHANGED <<mutexOwner, stateVars, lazyVars, live>>
       \/ /\ PREEMPT \in live.flags
          /\ ArchiveThread(t)
          /\ live' = [live EXCEPT !.flags = @ \ {PREEMPT}]
          /\ Goto(t, "yield")
    /\ UNCHANGED <<scopes, switcher>>

(* The end of RuntimePreempt: the Unlocker's destructor. *)
ResumePreempted(t) ==
    /\ At(t, "yield")
    /\ mutexOwner = None
    /\ mutexOwner' = t
    /\ RestoreThread(t)
    /\ Goto(t, "preempted")
    /\ UNCHANGED <<scopes, switcher>>

(* The rest of HandleStackGuardInterrupt: the termination exception. *)
HandleTermination(t) ==
    /\ At(t, "preempted")
    /\ live' = [live EXCEPT !.flags = @ \ {TERMINATE}]
    /\ Goto(t, "run")
    /\ UNCHANGED <<mutexOwner, stateVars, lazyVars, scopes, switcher>>

(* Mutant: only the first state in use is compared with the id. *)
BugTerminateFirst(t, target) ==
    /\ At(t, "run")
    /\ IsLockedByCurrentThread(t)
    /\ \/ /\ target = t
          /\ live' = [live EXCEPT !.flags = @ \cup {TERMINATE}]
          /\ UNCHANGED terminateOnRestore
       \/ /\ target # t
          /\ terminateOnRestore' =
                 [s \in ThreadState |->
                     \/ terminateOnRestore[s]
                     \/ s = links.next[in_use_anchor] /\ id[s] = target]
          /\ UNCHANGED live
    /\ UNCHANGED <<mutexOwner, allocated, links, id, saved, lazyVars, scopes,
                   pc, switcher>>

(* V8::TerminateExecution(thread_id), called by t, which holds the lock.   *)
TerminateExecution(t, target) ==
    /\ At(t, "run")
    /\ IsLockedByCurrentThread(t)
    /\ \/ /\ target = t
          /\ live' = [live EXCEPT !.flags = @ \cup {TERMINATE}]
          /\ UNCHANGED terminateOnRestore
       \/ /\ target # t
          /\ terminateOnRestore' =
                 [s \in ThreadState |->
                     \/ terminateOnRestore[s]
                     \/ s \in Members(in_use_anchor) /\ id[s] = target]
          /\ UNCHANGED live
    /\ UNCHANGED <<mutexOwner, allocated, links, id, saved, lazyVars, scopes,
                   pc, switcher>>

(* V8::TerminateExecution(isolate), by any thread, without the lock.       *)
TerminateIsolate ==
    /\ live' = [live EXCEPT !.flags = @ \cup {TERMINATE}]
    /\ UNCHANGED <<mutexOwner, stateVars, lazyVars, scopes, pc, switcher>>

(* When the switcher already runs, only its interval changes. *)
StartPreemption(t) ==
    /\ At(t, "run")
    /\ IsLockedByCurrentThread(t)
    /\ switcher = "none"
    /\ switcher' = "running"
    /\ UNCHANGED <<mutexOwner, stateVars, lazyVars, live, scopes, pc>>

(* Mutant: the switcher is joined but not told to stop. *)
BugJoinRunning(t) ==
    /\ At(t, "run")
    /\ IsLockedByCurrentThread(t)
    /\ switcher # "none"
    /\ Goto(t, "joining")
    /\ UNCHANGED <<mutexOwner, stateVars, lazyVars, live, scopes, switcher>>

(* keep_going_ is cleared, then the thread joins the switcher, under the lock. *)
StopPreemption(t) ==
    /\ At(t, "run")
    /\ IsLockedByCurrentThread(t)
    /\ switcher # "none"
    /\ switcher' = IF switcher = "running" THEN "stopping" ELSE switcher
    /\ Goto(t, "joining")
    /\ UNCHANGED <<mutexOwner, stateVars, lazyVars, live, scopes>>

JoinSwitcher(t) ==
    /\ At(t, "joining")
    /\ switcher = "exited"
    /\ switcher' = "none"
    /\ Goto(t, "run")
    /\ UNCHANGED <<mutexOwner, stateVars, lazyVars, live, scopes>>

(* ContextSwitcher::Run, an iteration: after Sleep, Preempt. *)
SwitcherPreempt ==
    /\ switcher \in {"running", "stopping"}
    /\ live' = [live EXCEPT !.flags = @ \cup {PREEMPT}]
    /\ switcher' = IF switcher = "stopping" THEN "exited" ELSE switcher
    /\ UNCHANGED <<mutexOwner, stateVars, lazyVars, scopes, pc>>

(* keep_going_ is found false at the head of the loop. *)
SwitcherExit ==
    /\ switcher = "stopping"
    /\ switcher' = "exited"
    /\ UNCHANGED <<mutexOwner, stateVars, lazyVars, live, scopes, pc>>

LockStep(t) ==
    \/ NestedLocker(t) \/ LockerInitialize(t) \/ ClearThread(t)
    \/ DestroyLocker(t) \/ UnlockerInitialize(t) \/ DestroyUnlocker(t)

InterruptStep(t) ==
    \/ HandleStackGuardInterrupt(t)
    \/ ResumePreempted(t) \/ HandleTermination(t)
    \/ StartPreemption(t) \/ StopPreemption(t) \/ JoinSwitcher(t)
    \/ \E target \in Thread : TerminateExecution(t, target)

Next ==
    \/ \E t \in Thread : LockStep(t) \/ InterruptStep(t)
    \/ TerminateIsolate
    \/ SwitcherPreempt
    \/ SwitcherExit

Spec == Init /\ [][Next]_vars

(* The switcher is a thread of the operating system: its Sleep returns and *)
(* it goes on.  So does a thread whose join can return.  Nothing is assumed *)
(* of who gets the mutex.                                                  *)
FairSpec ==
    /\ Spec
    /\ WF_vars(SwitcherPreempt \/ SwitcherExit)
    /\ \A t \in Thread : WF_vars(JoinSwitcher(t))

-----------------------------------------------------------------------------
(* Properties. *)

Link == [ThreadState \cup Anchor -> ThreadState \cup Anchor]

(* The types, and that lazily_archived_thread_ and its state are set and    *)
(* reset together.                                                         *)
TypeOK ==
    /\ mutexOwner \in Thread \cup {None}
    /\ lazilyArchived \in Thread \cup {None}
    /\ lazyState \in ThreadState \cup {None}
    /\ lazilyArchived = None <=> lazyState = None
    /\ threadState \in [Thread -> ThreadState \cup {None}]
    /\ allocated \subseteq ThreadState
    /\ links \in [next : Link, previous : Link]
    /\ id \in [ThreadState -> Thread \cup {None}]
    /\ terminateOnRestore \in [ThreadState -> BOOLEAN]
    /\ saved \in [ThreadState -> Area]
    /\ live \in Area
    /\ scopes \in [Thread -> Seq(Scope)]
    /\ pc \in [Thread -> {"run", "clearing", "yield", "preempted", "joining"}]
    /\ switcher \in {"none", "running", "stopping", "exited"}

(* The ASSERTs of ArchiveThread and RestoreThread hold wherever a Locker, an *)
(* Unlocker or a preemption can call them: no thread is lazily archived and *)
(* the caller is not archived when it gives up the lock, the free list      *)
(* hands out a state without an id, and a lazily archived thread that comes *)
(* back points to the state that was reserved for it.                      *)
AssertionsHold ==
    \A t \in Thread :
        /\ IsLockedByCurrentThread(t) /\ At(t, "run") =>
               /\ lazilyArchived = None
               /\ ~IsArchived(t)
               /\ \A s \in ThreadState : IsFreeThreadState(s) => id[s] = None
        /\ lazilyArchived = t => threadState[t] = lazyState

(* The lock follows the scopes, however they are nested: a thread owns it    *)
(* exactly when its innermost scope is a Locker and no preemption has made   *)
(* it yield (include/v8.h: an Unlocker releases all levels and reinstates   *)
(* the same depth).                                                        *)
LockMatchesScopes ==
    \A t \in Thread :
        mutexOwner = t <=>
            pc[t] = "clearing" \/ (Holding(t, "locker") /\ pc[t] # "yield")

(* The next_ and previous_ links of a list agree all the way round. *)
WellLinked(anchor) ==
    \A s \in Members(anchor) \cup {anchor} :
        links.previous[links.next[s]] = s /\ links.next[links.previous[s]] = s

Lazy == {lazyState} \ {None}

(* Every ThreadState ever allocated is on the free list, on the in-use list, *)
(* or reserved for the lazily archived thread, and in one of these places    *)
(* only, and they are reused: there are no more than threads.  A free one   *)
(* carries no thread id and no termination request that its next user would *)
(* inherit.                                                                *)
StatesInOnePlace ==
    /\ Cardinality(allocated) <= Cardinality(Thread)
    /\ WellLinked(free_anchor) /\ WellLinked(in_use_anchor)
    /\ Members(free_anchor) \cap Members(in_use_anchor) = {}
    /\ Lazy \cap (Members(free_anchor) \cup Members(in_use_anchor)) = {}
    /\ allocated = Members(free_anchor) \cup Members(in_use_anchor) \cup Lazy
    /\ \A s \in ThreadState \ (Members(in_use_anchor) \cup Lazy) :
           id[s] = None /\ ~terminateOnRestore[s]

InsideV8(t) == scopes[t] # <<>> \/ pc[t] = "clearing"

(* The data of a thread inside V8 are in one place: in the live area when    *)
(* it has the lock or is lazily archived, else in the in-use state that      *)
(* bears its id and that its thread_state_ points to, where the collector's *)
(* ThreadManager::Iterate finds them.  A thread outside V8 left nothing.    *)
AreaInOnePlace ==
    \A t \in Thread :
        LET holders == {s \in Members(in_use_anchor) : t \in saved[s].data}
        IN  IF ~InsideV8(t)
            THEN t \notin live.data /\ holders = {} /\ threadState[t] = None
            ELSE IF mutexOwner = t
            THEN live.data = {t} /\ holders = {} /\ threadState[t] = None
            ELSE IF lazilyArchived = t
            THEN live.data = {t} /\ holders = {} /\ threadState[t] = lazyState
            ELSE /\ t \notin live.data
                 /\ holders = {threadState[t]}
                 /\ saved[threadState[t]].data = {t}
                 /\ id[threadState[t]] = t

(* The termination requests a thread finds when it next runs. *)
TerminationPending(t) ==
    IF t \in live.data
    THEN TERMINATE \in live.flags
    ELSE \E s \in Members(in_use_anchor) :
             id[s] = t /\ (terminateOnRestore[s] \/ TERMINATE \in saved[s].flags)

(* What ThreadManager shows its users.  A thread is inside from the end of   *)
(* its first Locker's constructor on: until then ClearThread may still drop  *)
(* requests.                                                               *)
Inside == {t \in Thread : scopes[t] # <<>>}
Running ==
    IF mutexOwner # None /\ scopes[mutexOwner] = <<>> THEN None ELSE mutexOwner

SavedRequests(s) ==
    saved[s].flags \cup (IF terminateOnRestore[s] THEN {TERMINATE} ELSE {})
RequestsOf(t) ==
    IF scopes[t] = <<>> THEN {}
    ELSE IF t \in live.data THEN live.flags
    ELSE SavedRequests(threadState[t])

Abstract == INSTANCE PerThreadInterrupts WITH
    Preempt <- PREEMPT,
    inside  <- Inside,
    running <- Running,
    pending <- [t \in Thread |-> RequestsOf(t)]

(* Archiving is invisible: each thread keeps its own interrupt requests      *)
(* while others run, handles no one else's, and loses none.                *)
ImplementsPerThreadInterrupts == Abstract!Spec

(* Locker::StopPreemption returns, though it joins the switcher with the     *)
(* V8 lock held: the switcher never needs that lock.                        *)
StopPreemptionReturns ==
    \A t \in Thread : At(t, "joining") ~> At(t, "run")
=============================================================================
