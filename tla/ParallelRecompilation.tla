------------------------ MODULE ParallelRecompilation ------------------------
(***************************************************************************)
(* Parallel recompilation (--parallel-recompilation): the JavaScript       *)
(* thread marks hot closures, queues them for the OptimizingCompilerThread *)
(* and installs what comes back, while that thread takes jobs, optimizes   *)
(* them and writes the closure's code field behind the JavaScript thread's *)
(* back.  Everything that writes a closure's code on the JavaScript thread *)
(* meets these writes: the runtime profiler, on-stack replacement,         *)
(* deoptimization, the debugger, and Stop when the isolate is torn down.   *)
(*                                                                         *)
(* The two queues are sequences: UnboundQueue implements module Fifo.      *)
(* Graphs, code generation and stack frames are abstracted: whether a      *)
(* compilation succeeds and which closures have a frame on the stack is    *)
(* left open wherever the code asks.  The build is the debug build with    *)
(* --enable-slow-asserts: an ASSERT or CHECK that fails stops it.          *)
(***************************************************************************)
EXTENDS Integers, Sequences, FiniteSets

CONSTANTS Closure,      \* JSFunctions
          Shared,       \* SharedFunctionInfos
          SharedOf,     \* the SharedFunctionInfo of each closure
          OptCode,      \* optimized code objects
          None,         \* no entry in the optimized code map, no job
          QueueLimit,   \* FLAG_parallel_recompilation_queue_length
          Delay         \* is FLAG_parallel_recompilation_delay non-zero?

ASSUME SharedOfAssumption == SharedOf \in [Closure -> Shared]
ASSUME FlagAssumption == QueueLimit \in Nat /\ Delay \in BOOLEAN
ASSUME OptCodeAssumption ==
  {"Full", "LazyCompile", "ParallelRecompile", "InRecompileQueue",
   "InstallRecompiledCode"} \cap OptCode = {}
ASSUME NoneAssumption ==
  None \notin OptCode \cup Closure \cup [closure : Closure, ok : BOOLEAN]

VARIABLES
  code,          \* JSFunction::code(): the full code, a builtin, or an optimized code
  sharedCode,    \* SharedFunctionInfo::code(): the full code or the LazyCompile builtin
  disabled,      \* SharedFunctionInfo::optimization_disabled()
  patched,       \* are the back edges of the full code patched for OSR?
  codeMap,       \* the optimized code map (of the one native context)
  optimized,     \* the members of the native context's OPTIMIZED_FUNCTIONS_LIST
  breakPoints,   \* Debug::has_break_points_: not yet, now, or no longer
  inputQueue, outputQueue, queueLength, inputSemaphore, stopSemaphore, stopThread,
  pc, job,       \* of each thread: where it is, the job CompileNext works on
  function,      \* the closure of the runtime call in progress
  caller         \* who called InstallOptimizedFunctions, while it runs

functions == <<code, sharedCode, disabled, patched, codeMap, optimized, breakPoints>>
queues == <<inputQueue, outputQueue, queueLength, inputSemaphore>>
stopping == <<stopSemaphore, stopThread>>
vars == <<functions, queues, stopping, pc, job, function, caller>>

Thread == {"main", "compiler"}
Mark == {"ParallelRecompile", "InRecompileQueue", "InstallRecompiledCode"}
Job == [closure : Closure, ok : BOOLEAN]

CompileNextSteps == {"dequeue", "decrement", "mark", "store", "enqueue"}
MainSteps == CompileNextSteps \cup
  {"js", "frames", "queue_length", "queue_mark", "queue_enqueue", "queue_signal",
   "install", "stop_signal", "stop_wait", "stop_drain", "stopped", "aborted"}
CompilerSteps == CompileNextSteps \cup {"wait", "woken", "exited", "aborted"}

TypeFunctions ==
  /\ code \in [Closure -> OptCode \cup Mark \cup {"Full", "LazyCompile"}]
  /\ sharedCode \in [Shared -> {"Full", "LazyCompile"}]
  /\ disabled \in [Shared -> BOOLEAN] /\ patched \in [Shared -> BOOLEAN]
  /\ codeMap \in [Shared -> OptCode \cup {None}]
  /\ optimized \in SUBSET Closure
  /\ breakPoints \in {"none", "set", "cleared"}

TypeQueues ==
  /\ inputQueue \in Seq(Job) /\ outputQueue \in Seq(Job)
  /\ queueLength \in Nat /\ inputSemaphore \in Nat /\ stopSemaphore \in {0, 1}
  /\ stopThread \in BOOLEAN

TypeThreads ==
  /\ pc \in [Thread -> MainSteps \cup CompilerSteps]
  /\ pc["main"] \in MainSteps /\ pc["compiler"] \in CompilerSteps
  /\ pc["main"] = "aborted" <=> pc["compiler"] = "aborted"
  /\ job \in [Thread -> Job \cup {None}]
  /\ \A t \in Thread : pc[t] \in {"decrement", "mark", "store", "enqueue"} => job[t] # None
  /\ function \in Closure \cup {None}
  /\ caller \in {"tick", "call", "stop", "none"}
  /\ pc["main"] \in {"queue_length", "queue_mark", "queue_enqueue", "queue_signal"} =>
       function # None
  /\ pc["main"] = "install" => caller # "none"
  /\ caller # "none" => pc["main"] \in {"install", "aborted"}
  /\ caller = "call" => function # None

TypeOK == TypeFunctions /\ TypeQueues /\ TypeThreads

Init ==
  /\ code = [f \in Closure |-> "Full"]
  /\ sharedCode = [s \in Shared |-> "Full"]
  /\ disabled = [s \in Shared |-> FALSE] /\ patched = [s \in Shared |-> FALSE]
  /\ codeMap = [s \in Shared |-> None]
  /\ optimized = {}
  /\ breakPoints = "none"
  /\ inputQueue = <<>> /\ outputQueue = <<>>
  /\ queueLength = 0 /\ inputSemaphore = 0 /\ stopSemaphore = 0
  /\ stopThread = FALSE
  /\ pc = [t \in Thread |-> IF t = "main" THEN "js" ELSE "wait"]
  /\ job = [t \in Thread |-> None]
  /\ function = None /\ caller = "none"

Goto(t, step) == pc' = [pc EXCEPT ![t] = step]

\* An ASSERT failed.
Abort ==
  /\ pc' = [t \in Thread |-> "aborted"]
  /\ UNCHANGED <<functions, queues, stopping, job, function, caller>>

IsOptimized(f) == code[f] \in OptCode

\* is_compiled() && !IsOptimized(), which the ASSERTs of JSFunction::Mark... ask for.
Markable(f) == code[f] # "LazyCompile" /\ ~IsOptimized(f)

\* On the context's list without being optimized.  AddOptimizedFunction's
\* CHECK(element != function) and the deoptimizer's ASSERT(IsOptimized())
\* fail for such a closure.
Stray(f) == f \in optimized /\ ~IsOptimized(f)

DebuggerHasBreakPoints == breakPoints = "set"

\* The code objects a compilation can return: one, which nothing refers to.
NewCode ==
  LET unused == OptCode \ ({code[f] : f \in Closure} \cup {codeMap[s] : s \in Shared})
  IN {c \in unused : c = CHOOSE d \in unused : TRUE}

\* set_code, keeping the context's list of optimized functions in step.
ReplaceCode(f, c) ==
  /\ code' = [code EXCEPT ![f] = c]
  /\ optimized' = CASE ~IsOptimized(f) /\ c \in OptCode -> optimized \cup {f}
                    [] IsOptimized(f) /\ c \notin OptCode -> optimized \ {f}
                    [] OTHER -> optimized

\* ReplaceCode with optimized code; AddOptimizedFunction's CHECK may fail.
InstallCode(f, c) ==
  \/ /\ ~Stray(f)
     /\ ReplaceCode(f, c)
     /\ UNCHANGED pc
  \/ /\ Stray(f)
     /\ pc' = [t \in Thread |-> "aborted"]
     /\ UNCHANGED <<code, optimized>>

\* Back to the code of the SharedFunctionInfo; optimization stays as it was
\* or is disabled for good (AbortOptimization).
InstallFullCode(f, disable) ==
  /\ ReplaceCode(f, sharedCode[SharedOf[f]])
  /\ disabled' = [disabled EXCEPT ![SharedOf[f]] = @ \/ disable]

RevertInterruptCode(s) == patched' = [patched EXCEPT ![s] = FALSE]

-----------------------------------------------------------------------------
(* OptimizingCompilerThread::CompileNext, on the compiler thread or, when  *)
(* Stop drains the queue, on the main thread.                              *)

Dequeue(t) ==
  /\ pc[t] = "dequeue"
  /\ inputQueue # <<>>
  /\ job' = [job EXCEPT ![t] = Head(inputQueue)]
  /\ inputQueue' = Tail(inputQueue)
  /\ Goto(t, "decrement")
  /\ UNCHANGED <<functions, outputQueue, queueLength, inputSemaphore, stopping, function, caller>>

\* Mutant: counts only the jobs whose optimization succeeds.
BugDecrement(t) ==
  /\ pc[t] = "decrement"
  /\ \E ok \in BOOLEAN : /\ job' = [job EXCEPT ![t].ok = ok]
                         /\ queueLength' = IF ok THEN queueLength - 1 ELSE queueLength
  /\ Goto(t, "mark")
  /\ UNCHANGED <<functions, inputQueue, outputQueue, inputSemaphore, stopping, function, caller>>

\* The atomic decrement, then OptimizeGraph, which succeeds or bails out.
Decrement(t) ==
  /\ pc[t] = "decrement"
  /\ queueLength' = queueLength - 1
  /\ \E ok \in BOOLEAN : job' = [job EXCEPT ![t].ok = ok]
  /\ Goto(t, "mark")
  /\ UNCHANGED <<functions, inputQueue, outputQueue, inputSemaphore, stopping, function, caller>>

\* set_code_no_write_barrier: a plain store.
StoreMark(f, t, mark, next) ==
  /\ code' = [code EXCEPT ![f] = mark]
  /\ Goto(t, next)
  /\ UNCHANGED <<sharedCode, disabled, patched, codeMap, optimized, breakPoints,
                 queues, stopping, job, function, caller>>

\* MarkForInstallingRecompiledCode: the ASSERT, and then the store, which
\* overwrites whatever the other thread has put there in between.
CheckMarkable(t) ==
  /\ pc[t] = "mark"
  /\ \/ ~Markable(job[t].closure) /\ Abort
     \/ /\ Markable(job[t].closure)
        /\ Goto(t, "store")
        /\ UNCHANGED <<functions, queues, stopping, job, function, caller>>

MarkForInstalling(t) ==
  pc[t] = "store" /\ StoreMark(job[t].closure, t, "InstallRecompiledCode", "enqueue")

EnqueueOutput(t) ==
  /\ pc[t] = "enqueue"
  /\ outputQueue' = Append(outputQueue, job[t])
  /\ job' = [job EXCEPT ![t] = None]
  /\ IF t = "main" THEN Goto(t, "install") /\ caller' = "stop"
                   ELSE Goto(t, "wait") /\ UNCHANGED caller
  /\ UNCHANGED <<functions, inputQueue, queueLength, inputSemaphore, stopping, function>>

\* Mutant: queues the job before it marks the closure.
BugCompileNext(t) ==
  \/ Dequeue(t) \/ Decrement(t)
  \/ /\ pc[t] = "mark"
     /\ outputQueue' = Append(outputQueue, job[t])
     /\ Goto(t, "enqueue")
     /\ UNCHANGED <<functions, inputQueue, queueLength, inputSemaphore, stopping, job, function, caller>>
  \/ /\ pc[t] = "enqueue"
     /\ code' = [code EXCEPT ![job[t].closure] = "InstallRecompiledCode"]
     /\ job' = [job EXCEPT ![t] = None]
     /\ Goto(t, IF t = "main" THEN "install" ELSE "wait")
     /\ UNCHANGED <<sharedCode, disabled, patched, codeMap, optimized, breakPoints, queues,
                    stopping, function, caller>>

CompileNext(t) ==
  Dequeue(t) \/ Decrement(t) \/ CheckMarkable(t) \/ MarkForInstalling(t) \/ EnqueueOutput(t)

(* OptimizingCompilerThread::Run.                                          *)

AwaitInput ==
  /\ pc["compiler"] = "wait" /\ inputSemaphore > 0
  /\ inputSemaphore' = inputSemaphore - 1
  /\ Goto("compiler", "woken")
  /\ UNCHANGED <<functions, inputQueue, outputQueue, queueLength, stopping, job, function, caller>>

\* Mutant: compiles on, whatever the stop flag says.
BugCheckStop ==
  /\ pc["compiler"] = "woken"
  /\ Goto("compiler", "dequeue")
  /\ UNCHANGED <<functions, queues, stopping, job, function, caller>>

CheckStop ==
  /\ pc["compiler"] = "woken"
  /\ IF stopThread
     THEN stopSemaphore' = stopSemaphore + 1 /\ Goto("compiler", "exited")
     ELSE UNCHANGED stopSemaphore /\ Goto("compiler", "dequeue")
  /\ UNCHANGED <<functions, queues, stopThread, job, function, caller>>

Run == AwaitInput \/ CheckStop \/ CompileNext("compiler")

-----------------------------------------------------------------------------
(* The JavaScript thread: calls of closures whose code is a builtin.       *)

AllowOptimization(f) ==
  sharedCode[SharedOf[f]] = "Full" /\ ~disabled[SharedOf[f]] /\ ~DebuggerHasBreakPoints

IsQueueAvailable == queueLength < QueueLimit

\* Runtime_ParallelRecompile and Compiler::RecompileParallel, up to the job
\* that is handed to QueueForOptimization.
ParallelRecompile(f) ==
  /\ pc["main"] = "js" /\ code[f] = "ParallelRecompile"
  /\ LET s == SharedOf[f] IN
     \/ /\ ~AllowOptimization(f)
        /\ ReplaceCode(f, sharedCode[s])
        /\ UNCHANGED <<disabled, patched, pc, function>>
     \/ /\ AllowOptimization(f) /\ IsQueueAvailable
        /\ codeMap[s] # None
        /\ InstallCode(f, codeMap[s])
        /\ UNCHANGED <<disabled, patched, function>>
     \/ /\ AllowOptimization(f) /\ IsQueueAvailable
        /\ codeMap[s] = None
        /\ \/ \* CreateGraph succeeded
              /\ Goto("main", "queue_length") /\ function' = f
              /\ UNCHANGED <<code, optimized, disabled, patched>>
           \/ \* it bailed out
              /\ \E disable \in BOOLEAN : InstallFullCode(f, disable)
              /\ RevertInterruptCode(s)
              /\ UNCHANGED <<pc, function>>
           \/ \* it failed with an exception, which is cleared
              /\ RevertInterruptCode(s)
              /\ UNCHANGED <<code, optimized, disabled, pc, function>>
  /\ UNCHANGED <<sharedCode, codeMap, breakPoints, queues, stopping, job, caller>>

\* OptimizingCompilerThread::QueueForOptimization, and the end of
\* RecompileParallel, which unpatches the back edges.
\* Mutant: the length is not incremented.
BugQueueLength ==
  /\ pc["main"] = "queue_length"
  /\ Goto("main", "queue_mark")
  /\ UNCHANGED <<functions, queues, stopping, job, function, caller>>

QueueLength ==
  /\ pc["main"] = "queue_length"
  /\ queueLength' = queueLength + 1
  /\ Goto("main", "queue_mark")
  /\ UNCHANGED <<functions, inputQueue, outputQueue, inputSemaphore, stopping, job, function, caller>>

\* The compiler thread cannot make the ASSERT false before the store.
MarkInRecompileQueue ==
  /\ pc["main"] = "queue_mark"
  /\ \/ ~Markable(function) /\ Abort
     \/ Markable(function) /\ StoreMark(function, "main", "InRecompileQueue", "queue_enqueue")

EnqueueInput ==
  /\ pc["main"] = "queue_enqueue"
  /\ inputQueue' = Append(inputQueue, [closure |-> function, ok |-> TRUE])
  /\ Goto("main", "queue_signal")
  /\ UNCHANGED <<functions, outputQueue, queueLength, inputSemaphore, stopping, job, function, caller>>

\* Mutant: the back edges stay patched.
BugSignalInput ==
  /\ pc["main"] = "queue_signal"
  /\ inputSemaphore' = inputSemaphore + 1
  /\ Goto("main", "js") /\ function' = None
  /\ UNCHANGED <<functions, inputQueue, outputQueue, queueLength, stopping, job, caller>>

\* Mutant: signals only when the queue was empty.
BugSignalIfFirst ==
  /\ pc["main"] = "queue_signal"
  /\ inputSemaphore' = inputSemaphore + (IF Len(inputQueue) = 1 THEN 1 ELSE 0)
  /\ RevertInterruptCode(SharedOf[function])
  /\ Goto("main", "js") /\ function' = None
  /\ UNCHANGED <<code, sharedCode, disabled, codeMap, optimized, breakPoints, inputQueue,
                 outputQueue, queueLength, stopping, job, caller>>

SignalInput ==
  /\ pc["main"] = "queue_signal"
  /\ inputSemaphore' = inputSemaphore + 1
  /\ RevertInterruptCode(SharedOf[function])
  /\ Goto("main", "js") /\ function' = None
  /\ UNCHANGED <<code, sharedCode, disabled, codeMap, optimized, breakPoints, inputQueue,
                 outputQueue, queueLength, stopping, job, caller>>

\* Runtime_InstallRecompiledCode: install whatever comes back until the
\* called closure is no longer marked.
InstallRecompiledCode(f) ==
  /\ pc["main"] = "js" /\ code[f] = "InstallRecompiledCode"
  /\ Goto("main", "install")
  /\ function' = f /\ caller' = "call"
  /\ UNCHANGED <<functions, queues, stopping, job>>

\* JSFunction::CompileLazy, after the debugger threw the code away.  The
\* InRecompileQueue builtin tail-calls the shared code and gets here too, which
\* Runtime_LazyCompile's ASSERT(!function->is_compiled()) excludes.
CompileLazy(f) ==
  /\ pc["main"] = "js"
  /\ \/ /\ code[f] = "LazyCompile"
        /\ sharedCode' = [sharedCode EXCEPT ![SharedOf[f]] = "Full"]
        /\ code' = [code EXCEPT ![f] = "Full"]
        /\ UNCHANGED <<disabled, patched, codeMap, optimized, breakPoints, queues, stopping,
                       pc, job, function, caller>>
     \/ /\ code[f] = "InRecompileQueue" /\ sharedCode[SharedOf[f]] = "LazyCompile"
        /\ Abort

-----------------------------------------------------------------------------
(* OptimizingCompilerThread::InstallOptimizedFunctions.                    *)

\* Compiler::InstallOptimizedCode for the job at the head of the output: new
\* code, or the full code where the compilation failed or optimization has
\* been disabled.  InstallFullCode has an ASSERT(shared->is_compiled()).
InstallOptimizedCode ==
  /\ pc["main"] = "install" /\ outputQueue # <<>>
  /\ LET f == Head(outputQueue).closure
         s == SharedOf[f]
     IN \/ /\ ~disabled[s] /\ Head(outputQueue).ok
           /\ outputQueue' = Tail(outputQueue)
           /\ \E c \in NewCode :
                /\ InstallCode(f, c)
                /\ codeMap' = [codeMap EXCEPT ![s] = IF @ = None THEN c ELSE @]
           /\ UNCHANGED disabled
        \/ /\ sharedCode[s] = "Full"
           /\ outputQueue' = Tail(outputQueue)
           /\ InstallFullCode(f, TRUE)
           /\ UNCHANGED <<codeMap, pc>>
        \/ /\ sharedCode[s] # "Full"
           /\ pc' = [t \in Thread |-> "aborted"]
           /\ UNCHANGED <<outputQueue, code, optimized, disabled, codeMap>>
  /\ UNCHANGED <<sharedCode, patched, breakPoints, inputQueue, queueLength, inputSemaphore,
                 stopping, job, function, caller>>

\* The output queue is empty: back to the caller.
InstallReturn ==
  /\ pc["main"] = "install" /\ outputQueue = <<>>
  /\ \/ caller = "tick" /\ Goto("main", "frames")
     \/ /\ caller = "call"
        /\ code[function] # "InstallRecompiledCode"  \* else do it again
        /\ Goto("main", "js")
     \/ caller = "stop" /\ Goto("main", "stop_drain")
  /\ function' = None /\ caller' = "none"
  /\ UNCHANGED <<functions, queues, stopping, job>>

-----------------------------------------------------------------------------
(* RuntimeProfiler::OptimizeNow.                                           *)

Tick ==
  /\ pc["main"] = "js"
  /\ Goto("main", "install") /\ caller' = "tick"
  /\ UNCHANGED <<functions, queues, stopping, job, function>>

\* One of the frames it looks at belongs to f; whether the frame runs
\* unoptimized code and how hot it is are open.
TickFrame(f) ==
  /\ pc["main"] = "frames"
  /\ LET s == SharedOf[f] IN
     /\ sharedCode[s] = "Full" /\ code[f] # "InRecompileQueue"
     /\ \/ \* AttemptOnStackReplacement
           /\ code[f] = "ParallelRecompile" \/ IsOptimized(f)
           /\ ~DebuggerHasBreakPoints /\ ~disabled[s]
           /\ patched' = [patched EXCEPT ![s] = TRUE]
           /\ UNCHANGED <<code, disabled>>
        \/ \* TryReenableOptimization
           /\ disabled[s]
           /\ disabled' = [disabled EXCEPT ![s] = FALSE]
           /\ UNCHANGED <<code, patched>>
        \/ \* Optimize: MarkForParallelRecompilation
           /\ code[f] = "Full" /\ ~disabled[s]
           /\ code' = [code EXCEPT ![f] = "ParallelRecompile"]
           /\ UNCHANGED <<disabled, patched>>
  /\ UNCHANGED <<sharedCode, codeMap, optimized, breakPoints, queues, stopping, pc, job,
                 function, caller>>

TickReturn ==
  /\ pc["main"] = "frames"
  /\ Goto("main", "js")
  /\ UNCHANGED <<functions, queues, stopping, job, function, caller>>

-----------------------------------------------------------------------------
(* Other writers of a closure's code on the main thread.                   *)

\* Runtime_CompileForOnStackReplacement: an unoptimized frame of f reached a
\* patched back edge.
OnStackReplacement(f) ==
  /\ pc["main"] = "js" /\ patched[SharedOf[f]]
  /\ RevertInterruptCode(SharedOf[f])
  /\ \/ \* not attempted, or the compilation failed with an exception
        UNCHANGED <<code, optimized, disabled, pc>>
     \/ /\ ~disabled[SharedOf[f]]
        /\ \/ (\E disable \in BOOLEAN : InstallFullCode(f, disable)) /\ UNCHANGED pc
           \/ /\ ~DebuggerHasBreakPoints
              /\ \E c \in NewCode : InstallCode(f, c)
              /\ UNCHANGED disabled
  /\ UNCHANGED <<sharedCode, codeMap, breakPoints, queues, stopping, job, function, caller>>

\* Mutant: evicts nothing.
BugEvict(c) == codeMap' = [s \in Shared |-> codeMap[s]]

EvictFromOptimizedCodeMap(c) ==
  codeMap' = [s \in Shared |-> IF codeMap[s] = c THEN None ELSE codeMap[s]]

\* Mutant: the closures stay on the list.
BugDeoptimize(fs) ==
  /\ code' = [f \in Closure |-> IF f \in fs THEN sharedCode[SharedOf[f]] ELSE code[f]]
  /\ UNCHANGED optimized

\* Mutant: only one of the closures gets other code.
BugDeoptimizeFirst(fs) ==
  /\ code' = [f \in Closure |-> IF f = CHOOSE g \in fs : TRUE THEN sharedCode[SharedOf[f]]
                                ELSE code[f]]
  /\ optimized' = optimized \ fs

\* Deoptimizer::DeoptimizeFunction and its like: the closures are taken off
\* the list of optimized functions and run the shared code again.
Deoptimize(fs) ==
  /\ code' = [f \in Closure |-> IF f \in fs THEN sharedCode[SharedOf[f]] ELSE code[f]]
  /\ optimized' = optimized \ fs

\* Runtime_NotifyDeoptimized, eager.  With other activations of the code on
\* the stack all closures that share it are deoptimized, else f alone.
NotifyDeoptimized(f) ==
  /\ pc["main"] = "js" /\ IsOptimized(f)
  /\ Deoptimize({f}) \/ Deoptimize({g \in optimized : code[g] = code[f]})
  /\ EvictFromOptimizedCodeMap(code[f])
  /\ UNCHANGED <<sharedCode, disabled, patched, breakPoints, queues, stopping, pc, job,
                 function, caller>>

\* Debug::PrepareForBreakPoints, first break point: deoptimize everything,
\* send idle functions back to lazy compilation, give the active ones full
\* code with debug break slots.
PrepareForBreakPoints(active) ==
  /\ pc["main"] = "js" /\ breakPoints = "none"
  /\ \A f \in Closure : ~Stray(f)
  /\ breakPoints' = "set"
  /\ LET full == {f \in Closure : f \in optimized \/ code[f] = "Full"}
         idle == {f \in full : SharedOf[f] \notin {SharedOf[g] : g \in active}}
         lazy == {SharedOf[f] : f \in idle}
     IN /\ \A f \in active : sharedCode[SharedOf[f]] = "Full"
        /\ sharedCode' = [s \in Shared |-> IF s \in lazy THEN "LazyCompile" ELSE sharedCode[s]]
        /\ code' = [f \in Closure |-> IF f \in idle THEN "LazyCompile"
                                      ELSE IF f \in active \cup full THEN "Full"
                                      ELSE code[f]]
        /\ patched' = [s \in Shared |->
             patched[s] /\ s \notin lazy \cup {SharedOf[f] : f \in active}]
  /\ codeMap' = [s \in Shared |->
       IF \E f \in optimized : code[f] = codeMap[s] THEN None ELSE codeMap[s]]
  /\ optimized' = {}
  /\ UNCHANGED <<disabled, queues, stopping, pc, job, function, caller>>

\* It stops in DeoptimizeAll if the list has a closure that is not optimized.
DeoptimizeAllFails ==
  /\ pc["main"] = "js" /\ breakPoints = "none"
  /\ \E f \in Closure : Stray(f)
  /\ Abort

\* Debug::RemoveDebugInfo, last break point.  (Break points are set and
\* cleared once: BOUND.)
RemoveDebugInfo ==
  /\ pc["main"] = "js" /\ DebuggerHasBreakPoints
  /\ breakPoints' = "cleared"
  /\ UNCHANGED <<code, sharedCode, disabled, patched, codeMap, optimized, queues, stopping,
                 pc, job, function, caller>>

-----------------------------------------------------------------------------
(* OptimizingCompilerThread::Stop, when the isolate is torn down.          *)

Stop ==
  /\ pc["main"] = "js"
  /\ stopThread' = TRUE
  /\ Goto("main", "stop_signal")
  /\ UNCHANGED <<functions, queues, stopSemaphore, job, function, caller>>

\* Mutant: the compiler thread is not woken.
BugStopSignal ==
  /\ pc["main"] = "stop_signal"
  /\ Goto("main", "stop_wait")
  /\ UNCHANGED <<functions, queues, stopping, job, function, caller>>

StopSignal ==
  /\ pc["main"] = "stop_signal"
  /\ inputSemaphore' = inputSemaphore + 1
  /\ Goto("main", "stop_wait")
  /\ UNCHANGED <<functions, inputQueue, outputQueue, queueLength, stopping, job, function, caller>>

StopWait ==
  /\ pc["main"] = "stop_wait" /\ stopSemaphore > 0
  /\ stopSemaphore' = stopSemaphore - 1
  /\ IF Delay THEN Goto("main", "install") /\ caller' = "stop"
              ELSE Goto("main", "stopped") /\ UNCHANGED caller
  /\ UNCHANGED <<functions, queues, stopThread, job, function>>

\* Mutant: what is still queued stays there.
BugStopDrain ==
  /\ pc["main"] = "stop_drain"
  /\ Goto("main", "stopped")
  /\ UNCHANGED <<functions, queues, stopping, job, function, caller>>

StopDrain ==
  /\ pc["main"] = "stop_drain"
  /\ Goto("main", IF queueLength > 0 THEN "dequeue" ELSE "stopped")
  /\ UNCHANGED <<functions, queues, stopping, job, function, caller>>

Terminated == pc["main"] \in {"stopped", "aborted"} /\ UNCHANGED vars

-----------------------------------------------------------------------------
\* What JavaScript and the embedder choose to do next.
Choose ==
  \/ \E f \in Closure : \/ ParallelRecompile(f) \/ InstallRecompiledCode(f)
                        \/ OnStackReplacement(f) \/ NotifyDeoptimized(f) \/ TickFrame(f)
  \/ Tick \/ Stop

\* What the debugger adds: break points, and code that they threw away.
Debug ==
  \/ \E active \in SUBSET Closure : PrepareForBreakPoints(active)
  \/ \E f \in Closure : CompileLazy(f)
  \/ DeoptimizeAllFails \/ RemoveDebugInfo

\* What the main thread does once a runtime call has begun.
Continue ==
  \/ QueueLength \/ MarkInRecompileQueue \/ EnqueueInput \/ SignalInput
  \/ InstallOptimizedCode \/ InstallReturn \/ TickReturn
  \/ StopSignal \/ StopWait \/ StopDrain \/ CompileNext("main")

Next == Choose \/ Debug \/ Continue \/ Run \/ Terminated

\* Both threads are scheduled; nothing makes JavaScript call anything.
Fairness == WF_vars(Run) /\ WF_vars(Continue)

Spec == Init /\ [][Next]_vars /\ Fairness

\* Nobody sets a break point.
NoDebuggerNext == Choose \/ Continue \/ Run \/ Terminated
NoDebuggerSpec == Init /\ [][NoDebuggerNext]_vars /\ Fairness

-----------------------------------------------------------------------------
(* What a job stands for.                                                  *)

Count(b) == IF b THEN 1 ELSE 0

Jobs(queue, f) == Cardinality({i \in DOMAIN queue : queue[i].closure = f})

\* Jobs of f that CompileNext has not marked yet, and jobs it has.
AwaitingMark(f) ==
  Count(pc["main"] = "queue_enqueue" /\ function = f) + Jobs(inputQueue, f)
    + Cardinality({t \in Thread : pc[t] \in {"decrement", "mark", "store"} /\ job[t].closure = f})

AwaitingInstall(f) ==
  Cardinality({t \in Thread : pc[t] = "enqueue" /\ job[t].closure = f}) + Jobs(outputQueue, f)

\* queue_length_ counts the jobs between QueueForOptimization's increment and
\* CompileNext's decrement, so IsQueueAvailable, which reads it without a
\* barrier, bounds the queue, and Stop's loop ends with an empty queue.
QueueLengthExact ==
  pc["main"] # "aborted" =>
    /\ queueLength = Len(inputQueue)
                       + Count(pc["main"] \in {"queue_mark", "queue_enqueue"})
                       + Count(pc["main"] = "decrement") + Count(pc["compiler"] = "decrement")
    /\ queueLength <= QueueLimit

\* CompileNext takes from the input queue without asking whether it is
\* empty: neither a wake-up nor Stop's loop ever finds it so.
NoDequeueFromEmpty ==
  \A t \in Thread : pc[t] = "dequeue" => inputQueue # <<>>

\* A closure that runs the InRecompileQueue or the InstallRecompiledCode
\* builtin has a job that will take it out of there.
MarkedMeansPending ==
  pc["main"] # "aborted" => \A f \in Closure :
    /\ code[f] = "InRecompileQueue" => AwaitingMark(f) > 0
    /\ code[f] = "InstallRecompiledCode" => AwaitingInstall(f) > 0

\* The other way round: a closure waits for at most one job, and while it
\* does nobody on the JavaScript thread has given it another code.
PendingMeansMarked ==
  \A f \in Closure :
    /\ AwaitingMark(f) + AwaitingInstall(f) <= 1
    /\ AwaitingMark(f) = 1 => code[f] = "InRecompileQueue"
    /\ AwaitingInstall(f) = 1 => code[f] = "InstallRecompiledCode"

\* ASSERT(is_compiled() && !IsOptimized()) in MarkForInstallingRecompiledCode
\* and MarkInRecompileQueue: the closure to be marked is not optimized.
MarksUnoptimized ==
  /\ \A t \in Thread : pc[t] = "mark" => Markable(job[t].closure)
  /\ pc["main"] = "queue_mark" => Markable(function)

\* CHECK(element != function) in Context::AddOptimizedFunction: a closure that
\* gets the optimized code of its job is not on the list already.
AddsUnlisted ==
  pc["main"] = "install" /\ outputQueue # <<>> =>
    LET f == Head(outputQueue).closure
    IN Head(outputQueue).ok /\ ~disabled[SharedOf[f]] => ~Stray(f)

\* No ASSERT fails: nobody optimizes a closure while it is in the queues.
AssertionsHold == pc["main"] # "aborted"

\* Deoptimization, which walks the context's list of optimized functions,
\* finds every optimized closure, whatever wrote the closures' code.
OptimizedListComplete == \A f \in Closure : IsOptimized(f) => f \in optimized

\* The list has exactly the optimized closures.
OptimizedListExact == OptimizedListComplete /\ \A f \in Closure : ~Stray(f)

\* "make sure to deoptimize all functions as debugging does not work with
\* optimized code" (Debug::PrepareForBreakPoints).
NoOptimizedCodeWhileDebugging ==
  DebuggerHasBreakPoints => \A f \in Closure : ~IsOptimized(f)

\* With a delay, Stop leaves neither a job nor a closure that waits for one.
DrainedOnStop ==
  pc["main"] = "stopped" /\ Delay =>
    /\ inputQueue = <<>> /\ outputQueue = <<>>
    /\ \A f \in Closure : code[f] \notin {"InRecompileQueue", "InstallRecompiledCode"}

\* Runtime_InstallRecompiledCode's loop ends: a closure that is marked but
\* not queued yet is queued soon.
InstallLoopEnds ==
  pc["main"] = "install" /\ caller = "call" ~> pc["main"] \in {"js", "aborted"}

\* A queued closure gets out of the queue unless the isolate is torn down.
QueuedIsCompiled ==
  \A f \in Closure : code[f] = "InRecompileQueue" ~>
    code[f] # "InRecompileQueue" \/ stopThread \/ ~AssertionsHold

\* Stop returns, whatever the compiler thread was doing.
StopReturns == stopThread ~> pc["main"] \in {"stopped", "aborted"}
=============================================================================
