# A formal model of the engine's concurrency

The repository collects language engines around a planned "super EcmaScript"
compiler. Its own directories (`jsc`, `utils`, `shell-terminal`, `specs`) hold
plans and drafts; the code is three engines under `libs/`: V8 3.19 (C++),
Rhino (Java) and EcmaScript.NET (a C# port of Rhino). This project models V8,
`libs/google/v8/src`, and in it the parts that a test suite written in
JavaScript exercises least: what happens between threads, between a request and
its late answer, and between an operation and the one that undoes it.

All paths below are relative to `src/libs/google/v8/src/`.

## 1. The system and its parts

| Component | State it keeps | Operations | Talks to | What is hard | What makes it correct |
|---|---|---|---|---|---|
| Unbound queue (`unbound-queue*.h`) | a linked list with `first_`, `divider_`, `last_` | Enqueue, Dequeue, Peek, IsEmpty, destructor | used by the recompilation thread and the CPU profiler | lock-free; the producer frees nodes the consumer passed | FIFO; no node used after it is freed, none leaked; the producer never waits |
| Optimizing compiler thread (`optimizing-compiler-thread.*`) | two queues, `queue_length_`, two semaphores, `stop_thread_` | Run, CompileNext, QueueForOptimization, InstallOptimizedFunctions, Stop | the JavaScript thread | counters and queues updated separately on two threads; tear-down at any time | queue bounded; never dequeues from an empty queue; Stop returns and drains |
| Recompilation on the JavaScript thread (`compiler.cc`, `runtime.cc`, `runtime-profiler.cc`, `contexts.cc`, `deoptimizer.cc`, `debug.cc`, `objects.cc`) | each closure's code field, its function's code, flags and optimized code map; the list of optimized functions | lazy compilation, marking, queueing, installation, OSR, deoptimization, break points | the compiler thread, which writes the same code fields | answers arrive after the world has changed | each waiting closure has exactly one job; the list is exact; ASSERTs hold |
| Threads and locking (`v8threads.*`) | the V8 lock, the lazily archived thread, the pool of ThreadStates, scopes on each stack | Locker, Unlocker, archive, restore, terminate, preempt | the stack guard, the API, the collector (which walks archived threads) | nesting in any order; lazy archiving; requests made without the lock | each thread's data in one place; requests are kept; no state is lost |
| Stack guard (`execution.*`) | interrupt flags, real and current stack limits, postpone depth | request, handle, postpone, archive, restore | generated code, which only reads a limit | limits stand for flags, and change from other threads | a pending request trips the next check |
| Global handles (`global-handles.cc`) | nodes in states, blocks, new-space list | create, destroy, weaken, collect, callbacks | the collector, the embedder | callbacks that change the list being walked | no handle lost or called back twice |
| Incremental marking, write barrier (`incremental-marking.cc`) | colours, marking deque, state | start, step, record write, finalize | the mutator, the heap | the mutator runs between steps | no reachable white object at the end |
| Store buffer (`store-buffer.cc`) | buffers of slots, page flags | mark, compact, filter, iterate | the scavenger | overflow falls back to scanning pages | each old-to-new slot is found |
| Sweeper and marking threads (`sweeper-thread.cc`, `marking-thread.cc`) | semaphores, private free lists | start, wait, steal, stop | the collector | wait for all, stop while idle | each start is matched by one end |
| CPU profiler (`cpu-profiler.cc`, `circular-queue*`) | sampling buffer, event and tick queues | enqueue from a signal handler, merge | the sampler | a writer that interrupts anything | ticks are attributed in order |
| Debugger (`debug.cc`, `debug-agent.cc`) | break state, command queues | break, continue, message, detach | stack guard, agent thread | messages while not in a break | each request is answered |
| Once (`once.cc`), compilation cache, elements kinds | small state machines | | | races on first use; aging; a lattice | initialized once; bounded; monotone |
| Collectors, parser, code generators, ICs, natives, regular expressions, API, platform | | | | large sequential algorithms, or the operating system | |
| Rhino, EcmaScript.NET | | | | other engines | |

The hazards of this code, each at its line, are in `PROJECT.json`.

## 2. The modules

| Module | What it is |
|---|---|
| `Fifo` | abstract: a queue of records, `Put`, `Take`, `Drop` |
| `UnboundQueue` | the lock-free queue, one action per shared access |
| `UnboundQueueProofs` | its theorems |
| `MCUnboundQueue` | instance |
| `ParallelRecompilation` | the compiler thread and everything on the JavaScript thread that writes a closure's code; uses queues as sequences, which is what `UnboundQueue` is shown to be |
| `Deoptimization` | `ParallelRecompilation` with a history of the code objects that have been deoptimized |
| `ParallelRecompilationProofs` | their theorems on types, counters, the list of optimized functions and deoptimized code |
| `PendingMarksProofs` | its theorems on marks and jobs |
| `MCParallelRecompilation`, `MCDeoptimization` | instances of `ParallelRecompilation` and `Deoptimization` |
| `PerThreadInterrupts` | abstract: what users of Locker and Unlocker see of each other's interrupt requests |
| `ThreadManager` | Locker, Unlocker, lazy archiving, ThreadState lists, preemption and termination; shown to implement `PerThreadInterrupts` |
| `ThreadManagerProofs` | its theorems |
| `Termination` | `ThreadManager` with a record of the termination requests made |
| `TerminationProofs` | its theorem |
| `MCThreadManager`, `MCTermination` | instances |
| `StackGuard` | interrupt flags, stack limits, postponing scopes, the stack check and its handler; threads change as in `ThreadManager`, of which only what moves the guard is repeated |
| `StackGuardProofs` | its theorems |
| `MCStackGuard` | instance |
| `StoreBuffer` | the remembered set: both buffers, filtering, page flags, and a collection that rebuilds it |
| `StoreBufferProofs` | its theorems |
| `MCStoreBuffer` | instance |
| `IncrementalMarking` | the incremental marker, the write barrier and the collections that meet them |
| `IncrementalMarkingProofs` | its theorems |
| `MCIncrementalMarking` | instance |

Definitions named `Bug...` are deliberate mistakes, one for each checked
property, next to the definition they would replace: substituting one makes the
run that checks the property fail.

### UnboundQueue

The heap is a set of cells with the fields `value` and `next`; `new` takes any
cell that is not allocated, so a freed cell may come back while someone still
points to it. Enqueue is four steps and a loop (allocate, link, publish `last_`,
then test `divider_` and delete a node, again and again), Dequeue three (read
`next`, read the record, publish `divider_`), as each touches one location that the
other thread can observe. `chain` and `dpos` are history: the published cells in
order, and where `divider_` is. The environment keeps to what the queue's two users
do: one producer, one consumer, which dequeues only after IsEmpty returned false, and
destruction when neither is inside. Memory accesses take effect in program order;
the release stores of the code are there for that, and x86 gives it, but
weaker orders are not modelled.

### ParallelRecompilation

Two threads, `main` and `compiler`, with a program counter each. Every access to what both
share (the two queues, `queue_length_`, the semaphores, `stop_thread_`, a closure's code)
is a step of its own; what only the JavaScript thread touches is done with the step that
decides it. `CompileNext` is parameterised by the thread, because Stop runs it on the main
thread. A closure's code is the full code, one of the builtins that stand for a mark
(`ParallelRecompile`, `InRecompileQueue`, `InstallRecompiledCode`, `LazyCompile`), or one of a
few optimized code objects; several closures may share a function (`SharedOf`), which
is where the interesting cases are. Compilation is abstracted to its outcomes
(succeeded, bailed out, failed; optimization disabled or not), stack frames to a
choice of which closures are active.

The build is the debug build with `--enable-slow-asserts`: an ASSERT or CHECK that fails ends both
threads (`Abort`), so what the properties say about the marks and the list holds up to the first failure,
and a run that has `AssertionsHold` says that there is none. In `JSFunction::MarkForInstallingRecompiledCode` the
ASSERT (`CheckMarkable`) and the store (`MarkForInstalling`) are two steps, as the other thread may write the field
between them. Left out:
the marks that bootstrapping sets, code flushing, `--always-opt`, deoptimization of a whole
global object, and a second round of break points after all were removed (named BOUND).

What the debugger does is the group `Debug` of the next-state relation. `NoDebuggerSpec` is the same
specification without it: nobody sets a break point. The program is then one in which the list of
optimized functions and the marks can be exact, as the violations below show.

`Deoptimization` conjoins the set of code objects that were deoptimized and that a closure or the optimized code map still refers
to; an object that nothing refers to is taken off, as its name may stand for new code.

### ThreadManager

`mutexOwner` is the V8 lock; `scopes[t]` the Lockers and Unlockers on a thread's
stack with their `has_lock_` and `top_level_`; the ThreadStates are linked by
explicit `next` and `previous` fields into two circular lists, as in the code. The isolate's
per-thread data (`live`) and a state's buffer (`saved`) are reduced to whose data they
are and to the PREEMPT and TERMINATE flags. Taking the lock and RestoreThread are one
step: everything but the flags is only touched under the lock, and the flags are
changed under ExecutionAccess, which RestoreThread holds while it moves them. Where the code
lets go of ExecutionAccess the model has a step boundary: between RestoreThread and
ClearThread in a new thread's Locker, requests do arrive, and are erased. The ContextSwitcher
thread and `V8::TerminateExecution(isolate)` act at any time, without the lock.
`HandleStackGuardInterrupt` is modelled as far as preemption and termination go, outside the
debugger. The entry stack of the default isolate is left out.

`Termination` conjoins a record of whom `V8::TerminateExecution(thread_id)` was called for. A request that
finds no state changes nothing, so only a record can tell that it was made. A name is taken off the record when
its thread throws the termination or leaves V8.

### StackGuard

`local` is `thread_local_` (current and real limit, nesting of postponing scopes, flags); `roots` the
copies of both limits in the heap's root array, which some of the generated code compares with; `archived[t]` what
`ArchiveStackGuard` left for a thread, `stored[t]` the limit a thread leaves behind in its PerIsolateThreadData. A step
is one ExecutionAccess section, or one access made without that lock: the counter of PostponeInterruptsScope, and
the comparison in generated code. So a scope opens in two steps (`OpenScope`, `DisableInterrupts`) and closes in two
(`CloseScope`, `EnableInterrupts`), with requests arriving in between, and a check that fails (`CheckStack`)
is followed by `Runtime_StackGuard` looking at a limit that may have changed since. `HandleStackGuardInterrupt` is a
chain of stages, each of which takes off its own flag in a section of its own; preemption in the middle hands the guard to
another thread. `Enter`, `ClearThread`, `Leave`, `Unlock` and `Relock` are what `ThreadManager` says in full, reduced to what
they do to the guard.

Flags and limits are parameters. INTERRUPT is never handled in this version, and DEBUGCOMMAND goes the way of DEBUGBREAK;
neither has a stage of its own. On a simulator the limits in the guard and those for JavaScript differ; on
the hosts modelled they are one.

### StoreBuffer

`slot` says what each old-space slot holds: no object there, an old pointer, one to new space, or (during a
collection) one to from-space that has still to be updated. `new` is the buffer of the write barrier, `sb` the old buffer
with its limit, its scan-on-scavenge flags and the two lossy hash sets, `freed` the chunks given back to the
system. All of it runs on the JavaScript thread, so an action is a whole call from the mutator (`Store`,
`RecordWrite`, `FreeQueuedChunk`, `AllocateChunk`), with the compaction that the call may set off, or the visit of one slot
or one page in a collection: the hard part is the order in which a collection comes to entries, flagged pages and
promoted objects while it rebuilds the buffer in place. Both collections that iterate are there, the
scavenger (which may promote an object, and with it make a new slot) and the pointer update of the compactor.
Left out: the debug functions `Clean`, `SortUniq` and `Verify`, the `old_buffer_is_sorted_` flag they use, and the
slots buffers of evacuation candidates.

### IncrementalMarking

Objects have fields; `young` are those in new space, `roots` those that JavaScript holds. `m` is what marking writes: colours, the
marking deque with its overflow flag, and the progress bars of large arrays. JavaScript allocates,
drops and makes handles, stores (`Write`, with the barrier `BaseRecordWrite`), moves elements in bulk with one
barrier at the end (`MoveElements`) and trims arrays on the left (`LeftTrim`); a marking step (`Step`) takes one object
off the deque, and its budget may end after any one; scavenges move colours and drop dead entries from the deque; a
mark-compact collection finishes the marking (`Hurry`), or aborts it, and sweeps. Property cells are written without a
barrier, as in the code. Left out: recorded slots for compaction, weak references, caches that are marked without being queued, data-only objects,
barriers for code targets, the no-marking scope, and the speed of the steps. The abstract collector is the operator `Reachable`.

## 3. The runs

| Run | Configuration | What it shows |
|---|---|---|
| `queue` | 4 cells, 2 records | FIFO by refinement, no use after free, no leak, Dequeue returns what Peek showed, Enqueue returns. Four cells are the dummy, two records in flight and one being enqueued: a freed cell is reused while the consumer holds another. About 540,000 states. |
| `recompile` | 2 functions with a closure each, 5 optimized codes, limit 2, Stop with the delay flag, no debugger | the accounting of jobs and signals; each job finds its closure as it left it; no ASSERT fails; the list of optimized functions is exact; the install loop ends; Stop drains and returns; each queued closure is compiled. Two closures are enough to fill the queue and to have one in each queue; the delay flag makes Stop take its long path. |
| `recompile_shared` | 2 closures of one function, interchangeable, debugger, limit 1, with the history of deoptimized code | types; each mark has a job; the list of optimized functions lacks none; deoptimized code never reaches another closure through the optimized code map. About 850,000 states. Here ASSERTs do fail (see below), and the properties hold up to there. |
| `osr_assertion` | 2 closures of one function, limit 2, no debugger | **violated**: OSR optimizes a closure that is queued |
| `listed_twice` | the same as `osr_assertion` | **violated**: OSR optimizes a closure just before it is marked, and it is listed twice |
| `optimized_while_debugging` | 2 functions with a closure each, debugger, limit 2 | **violated**: a job in flight is installed after break points were set |
| `locking` | 3 threads, 4 ThreadStates, 4 scopes altogether, symmetric threads | each thread's data are in exactly one place, and the collector's walk finds it; states are reused, linked and accounted for; the lock follows the scopes; termination requests reach their thread and are kept. Three threads give two archived ones beside the running one, with a fourth state to show that it is never needed. |
| `thread_interrupts` | 2 threads, 3 ThreadStates, 6 scopes altogether | archiving is invisible (refinement of `PerThreadInterrupts`); StopPreemption returns. Six scopes give Locker, Unlocker, Locker on both stacks. |
| `stack_guard` | 2 threads, one of which may set a second limit; TERMINATE, PREEMPT and DEBUGBREAK; postponing scopes 1 deep | a request that may be handled shows in both limits, and the limits are high only for one; each thread is measured with its own limit; termination takes effect |
| `spurious_overflow` | the same threads, scopes 2 deep, only termination can be cancelled | **violated**: a stack overflow is thrown with stack left |
| `remembered_set` | 4 slots on a page, 1 on a chunk that may be freed; new buffer of 2, old buffer of 2 growing to 4 | no old-to-new pointer is forgotten, no entry outlives its chunk, neither buffer overruns, no slot is scavenged twice |
| `incremental_marking` | a large array of 2 chunks, an object and a cell of one field; deque of one entry | tri-colour invariant, grey objects are queued or the overflow is on record, the final collection frees nothing reachable. About 1,040,000 states. |

Bounds. `QueueLimit` is the code's own flag; `OptCode`, `Node` and `ThreadState` bound what can be
allocated, and an allocation with nothing left waits; `MaxScopes` bounds the scopes; break points
are set and removed once. `stack_guard` has three of the flags: GC_REQUEST and FULL_DEOPT go the way of the
others through stages of their own, which `StackGuardProofs` covers. One level of `MaxNesting`
gives both sides of a scope, and the only comparisons in the code are with zero. One thread sets a limit of
its own and the other never does: each meets the guard the other left. The sizes in `remembered_set` keep the proportions
that the code has where pointers take 4 bytes (the new buffer is half the old one at most, `CheckForFullBuffer` asks for
as many entries as the first has room for); with two entries in each, one hash bucket and a sample table of
two lines, every store may overflow, every hash clashes and each exemption happens. A deque of one entry in
`incremental_marking` overflows with the second grey object, three objects make a chain through each kind, and two chunks put the bar between
two fields.

### What the violations are

* *OSR and the queue.* `CompileNext` says "The function may have already been optimized by
  OSR. Simply continue." (`optimizing-compiler-thread.cc:83`), and then calls a function whose first
  line is `ASSERT(is_compiled() && !IsOptimized())` (`objects.cc:8928`). With one closure per function
  this cannot happen (run `recompile`: queueing unpatches the back edges and the profiler does not patch
  them for a queued function). With two closures of one function it does: a tick in
  a frame of the other closure patches the shared code's back edges, and the queued closure
  gets optimized code before it is marked.
* *The list of optimized functions.* The ASSERT does not keep this from happening even where it passes: the compiler
  thread evaluates it and stores the mark later. If OSR comes between, the closure stays on the context's list while
  its code field holds a mark, and installing its job adds it once more: `CHECK(element != function)`
  (`contexts.cc:262`), which only a debug build with slow asserts evaluates, fails; without it the list becomes circular. What survives, and is proved for any sharing, is that no optimized closure is missing from
  the list (`OptimizedListComplete`), up to the first such failure.
* *An overflow that is none.* `Runtime_StackGuard` has the comment "First check if this is a real stack
  overflow" (`runtime.cc:8911`): `IsStackOverflow` says yes when the limit is not the special value. The check that
  trapped saw the limit of a request; when another thread calls `CancelTerminateExecution` before the runtime looks,
  `Continue` has put the real limit back, and the thread throws a stack overflow with its stack nearly empty.
* *Break points and jobs in flight.* `Debug::PrepareForBreakPoints` deoptimizes everything as "debugging
  does not work with optimized code" (`debug.cc:2004`), but jobs in the two queues are
  not dropped, and `Compiler::InstallOptimizedCode` does not ask whether there are break points.

### Fairness

`UnboundQueue`: a thread inside Enqueue, and the destructor, keep running; nothing makes anyone
call. `ParallelRecompilation`: both threads are scheduled (weak fairness of `Run` and
of what the main thread does *once a runtime call has begun*); JavaScript need not call anything.
`ThreadManager`: the switcher thread and a thread whose join can return keep running; nothing is assumed about who
gets the mutex, so nothing is claimed about starvation.
`StackGuard`: a handler, a constructor or a destructor that has begun goes on (weak). JavaScript checks the stack at
each function entry and each back edge, and the code in a PostponeInterruptsScope ends; as a program may open and close scopes
and check in turn, each is enabled again and again but not all the time, hence strong fairness of `FindsRequest` and, for each
depth, of `CloseScope`. Termination is only claimed for a thread that keeps the V8 lock. `StoreBuffer` and
`IncrementalMarking` have no fairness and claim nothing that must happen.

## 4. What is proved

`UnboundQueueProofs`, for any sets of cells and records:

* `Invariance`: `IInv == TypeOK /\ Linked /\ Pending /\ NoLeak` is inductive. `NoUseAfterFree` is not
  inductive by itself: that the node about to be freed is not the one being read follows from where both are in
  the list (`Linked`), from the fact that a stale answer of the producer's loop test is on the
  safe side (`Pending`: `ppc = "delete" => dpos > 1`; `divider_` only moves away from `first_`),
  and likewise for the consumer's `IsEmpty`.
* `NoUseAfterFreeThm`, `NoLeakThm`, `PeekedIsDequeuedThm` (the last with `Reading`: what the consumer has read is still
  what is there), and `Refinement`: `Spec => ImplementsFifo`.

`ParallelRecompilationProofs`, for any closures, functions, codes, queue limit and flags:

* `Invariance`: `IInv == TypeFunctions /\ Flow /\ OptimizedListComplete`. `Flow` is the accounting. That CompileNext
  never finds an empty queue needs an equation between the number of jobs, the semaphore's value,
  signals that are still to come and jobs the compiler thread has already been woken for,
  with the extra signal of Stop; that equation in turn needs the exact queue length, because
  Stop's loop on the main thread goes by `queue_length_` alone.
* `TypeCorrect`, `QueueLengthCorrect`, `NeverDequeuesFromEmpty`, `OptimizedListCorrect`.
* `DeoptimizedStaysOut`, an action property of `Deoptimization`. Beside `IInv` it takes `NotInCodeMap`: deoptimized code is not in the
  optimized code map, and some closure still runs it. Every code a step writes is a mark, full code, new code, or from the
  map (`CodesStep`), whatever deoptimizes code also evicts it (`DeoptimizedIsEvicted`), and new code is none that is referred to.

`PendingMarksProofs`, about the same module. A step either moves one job by one place (`JobStep`) or leaves all jobs alone and gives
nobody a mark that waits for one (`StepKinds`), so that each invariant needs looking at few steps:

* `MarksHaveJobs` and `StopDrains`, of `Spec`: for any sharing and with the debugger. Invariants: `MarksOK`, and `Drained` (between Stop's
  installation and its loop test the output is empty, because the compiler thread has exited).
* `JobsHaveMarks`, `JobsKeepAssertions` and `ListExact`, of `NoDebuggerSpec`, if no two closures share a function
  (`OneClosurePerFunction`); the violations above show that neither condition can go. The invariant `PInv` adds what keeps the other
  writers away: a marked closure's back edges are patched only while the runtime call that queues it is in progress (`Unpatched`),
  so on-stack replacement never sees one; a closure is in one queue at most once (`Single`); only one thread is ever in CompileNext
  (`OneWorker`, from the accounting of Stop), so a job that is moved is not also still where it was.

`StackGuardProofs`, for any threads, limits, flags and nesting:

* `Invariant`: `Inv == TypeOK /\ GuardOK /\ StartingOK /\ ArchiveOK /\ LazyOK /\ StoredOK`. `RequestsTrap` only speaks
  of the thread with the lock. For it to survive an exchange of threads the invariant must say what an archived guard will
  show when it is restored (`ArchiveOK`), what a lazily archived thread's guard shows while requests still reach it in the live area
  (`GuardOK` for it as well), and that in the two steps of a scope's end the limit may be ahead of the flags only in one direction
  (`OwnerOK`).
* `TypeCorrect`, `RequestsAlwaysTrap`, `TrapsAlwaysHaveRequests`, `OwnStackLimitAlways`.

`ThreadManagerProofs`, for any finite sets of threads and ThreadStates and any nesting of scopes:

* `Invariance`: `Inv` says in one part (`StatesOK`) what each ThreadState is used for, by its id alone: free, in use for the thread whose
  `thread_state_` points to it, or reserved for the lazily archived thread; with whose data and requests (`IdOK`, `LazyOK`, `RequestOK`,
  `DataOK`) it holds. `ListsOK` says separately that the links join exactly the free states, and exactly those in use: `next_` and
  `previous_` undo each other, and every set that contains the anchor and is closed under `next_` is the whole list. This form survives
  Unlink and LinkInto by cases, without counting. `BoundOK` bounds the allocated states: a thread that allocates one found the free list empty, so the others each
  belong to another thread. `ThreadOK` describes one thread's stack: each Unlocker stands on a Locker, a Locker
  has the lock exactly when it is the outermost scope or stands on an Unlocker.
* `Members`, the walk along the links, is a recursive function of the number of steps. That it finds the whole list after as many steps as
  there are states is a least-counterexample argument (`MembersOfList`), on the well-founded order of the naturals:
  as long as the walk is not complete each step meets a new state.
* `TypeCorrect`, `LockFollowsScopes`, `AssertionsAlwaysHold`, `NoStateLost`, `DataInOnePlace`, and `Refinement`:
  `Spec => ImplementsPerThreadInterrupts`.

`IncrementalMarkingProofs`, for any finite set of objects, any sizes, chunks and deque of at least one entry:

* `Invariance`: `IInv == HeapOK /\ Sound(m, alive, field) /\ PhaseOK`. None of the three properties is inductive alone. `TriColor` breaks
  if the barrier meets a white host it takes for black, or if the bar of a dead array is left for the next one (`Placed`: only
  allocated objects are marked or queued, and a bar is above zero only in a black array); it says nothing of what is
  still to be scanned, which `Queued` adds, and which a step needs for the object it takes off. `HeapOK` says that no field points to what
  has been freed and that large arrays are never young, `PhaseOK` that marking starts from a clean marker and leaves an empty deque to the final collection.
* One lemma per operation on the marking (`WhiteToGreyAndPush`, `BlackToGreyAndUnshift`, the fold of `MarkObject`, `TransferMark`, ...) says what
  it does to colours, deque and bars, for every marking; the actions use these.
* `ReachableObjectsSurvive`: the survivors contain the roots and are closed under the fields of what is allocated: a black object by `Tri`, a large
  one because with an empty deque its bar is at the end, a grey one and a cell because they are `Unscanned`, the rest because
  `Found` has reached a fixed point after as many rounds as there are objects, which is shown by counting what each round adds.
* `Types`, `TriColorInvariant`, `GreyObjectsAreQueued` are parts of `IInv`.

`StoreBufferProofs`, for any slots, pages, hash functions and sizes:

* `Invariance`: `Typed`, `FreedIsForgotten` and one conjunct for each phase: `Mutating` (every pointer to new space is noted, by entry or by
  page), `Reaching` (the same of pointers to from-space, some of them in the promotion queue), `Iterating` and `Queueing`. `SlotsRemembered` speaks
  only of the time when JavaScript runs; `Iterating` is what carries it through a collection. In it each slot is on one side: what
  is to come by entry is on no flagged page, what has been entered anew is on no flagged page that is still to be scanned, and the page
  being scanned is flagged again only by entries of its own (`OwnEntries`, which is why cutting them off loses nothing that `start_of_current_page_`
  does not restore). `ScannedOnce` and `NoStaleEntries` follow from the same conjuncts.
* That the buffer is not overrun needs `Len(sb.old) + Len(todo) < sb.limit`: the buffer is rebuilt over the entries that have still to be read.
* `EnsureSpace` is the core. `Narrows` says what it may do to a buffer: drop entries, each of them on a page that is flagged from then on, and forget them in the
  hash sets. The line `{1, 0}` of the sample table makes the fold over the table end with half the buffer free, whatever is in the
  other lines.
* `Types`, `SlotsAreRemembered`, `NoEntryIsStale`, `NoSlotIsScannedTwice`.

Folds (over the entries of a buffer, the fields of an object, the sample table) and recursive functions are followed by a claim about the
first or last `k` elements: were it false for some `k`, there would be a least one, since `<` is well-founded on the naturals
(`LeastNatural`), and one step from the one before refutes it. This replaces the library's induction theorems, whose operator parameter the provers
cannot instantiate.

`TerminationProofs`: `RequestsAlwaysKept`. It uses the refinement: in `PerThreadInterrupts` only `Handle` and `Leave` take a
termination request away, and the first is what takes a name off the record.

Assumptions used: `NullAssumption`, `RecordAssumption` (NULL is no cell, the dummy's record
is none that is queued), `SharedOfAssumption`, `FlagAssumption`, `OptCodeAssumption`,
`NoneAssumption` (the kinds of code and "none" are distinct); of `StackGuard` `FlagAssumption` (which flags there are),
`LimitAssumption` (real limits and stack addresses lie below the special values) and `NestingAssumption`; of `ThreadManager`
`DistinctAssumption` (anchors, states, threads and flags are different things) and `FiniteAssumption`; of `IncrementalMarking`
`ObjectAssumption` (finitely many objects; a large array has a field, cells are not arrays, None and the filler are no objects) and `DequeAssumption`; of `StoreBuffer`
`SlotAssumption` and `SizeAssumption` (the new buffer is at most half of the old one at its largest; whoever asks for space asks for some; the sample table has the
line of step 1 and threshold 0, as in `EnsureSpace`).
Every one is evaluated by TLC in the runs.

Only model-checked: liveness (`EnqueueReturns`, `InstallLoopEnds`, `QueuedIsCompiled`, `StopReturns`, `StopPreemptionReturns`,
`TerminationTakesEffect`), as fairness and ENABLED are beyond the prover. Every safety property that a run checks is also a theorem.

## 5. Met on the way

Places where code and comments part, or a part of the code does nothing, without an effect that a run could
show violated:

* `StackGuard::SetStackLimit` (`execution.cc:369`) does not call `heap()->SetStackLimits()`, which keeps the copies in the
  roots "because it is faster than loading from the static" limits (`heap.h:512`). Generated code that compares with the roots keeps the old
  limit until the next request. `OwnStackLimit` accepts either, since both are limits of that thread.
* `StoreBuffer::EnsureSpace` reads its table of samples from the end, and so exempts every page with an entry
  first; by the comments it starts with pages that hold "more than 1 in 8 pointers" (`store-buffer.cc:178`) and does this "as a last resort" (line 193). Nothing is lost by it (`SlotsRemembered`), pages are
  only scanned more often.
* `StoreBuffer::CheckForFullBuffer` asks `EnsureSpace` for `kStoreBufferSize * 2` entries, a number of bytes. On a 64-bit host
  this is more than the buffer ever has room for.

## 6. The plan

Done: a theorem for every safety property that a run checks. What is left, in
this order; each module gets its instance, its mistakes and its README entry.

1. `GlobalHandles` with callbacks; `SamplingQueue` and the profiler's merge of ticks and code events;
   `SweeperThreads`; `CallOnce`.
2. The debugger's command queues; Rhino's Context entry protocol.

### Not modelled

The collectors as a whole, parser, code generators, inline caches, natives, regular expressions and the language
conversions are sequential transformations of large data structures, most of the source by size. What goes wrong
in them is a matter of single cases, which the JavaScript test suites reach; a model of a compiler pass would
restate it. The platform layer is taken as given (mutexes, semaphores, threads). Global handles, the profiler's
queues, the sweeper threads and `CallOnce` are protocols that a model could show and are on the plan; their
hazards are in `PROJECT.json` without a property. Rhino and EcmaScript.NET are other engines, and the directories of the
repository's own project hold no code.
