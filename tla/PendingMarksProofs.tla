--------------------------- MODULE PendingMarksProofs ---------------------------
(***************************************************************************)
(* What the marks of closures have to do with the jobs in flight.          *)
(*                                                                         *)
(* A closure that carries a mark always has a job, whoever shares its      *)
(* function and with or without a debugger (MarksHaveJobs), and Stop       *)
(* leaves neither (StopDrains).  The converse, that a closure with a job   *)
(* carries the mark of its job (JobsHaveMarks), that the ASSERTs hold      *)
(* (JobsKeepAssertions) and that the list is exact (ListExact), need that  *)
(* no two closures share a function and that nobody sets a break point:    *)
(* the runs recompile_shared and the expected violations show why.         *)
(***************************************************************************)
EXTENDS ParallelRecompilationProofs, FiniteSetTheorems

WaitMarks == {"InRecompileQueue", "InstallRecompiledCode"}
CompileSteps == {"decrement", "mark", "store"}
WaitSteps == CompileSteps \cup {"queue_enqueue", "enqueue"}

\* Where a job of closure f may be.
Enqueuing(f) == pc["main"] = "queue_enqueue" /\ function = f
Queued(queue, f) == \E i \in DOMAIN queue : queue[i].closure = f
WorkedOn(f, steps) == \E t \in Thread : pc[t] \in steps /\ job[t].closure = f

MarkWait(f) == Enqueuing(f) \/ Queued(inputQueue, f) \/ WorkedOn(f, CompileSteps)
InstallWait(f) == WorkedOn(f, {"enqueue"}) \/ Queued(outputQueue, f)

Running == pc["main"] # "aborted"

MarksOK == Running => \A f \in Closure :
    /\ code[f] = "InRecompileQueue" => MarkWait(f)
    /\ code[f] = "InstallRecompiledCode" => InstallWait(f)

-----------------------------------------------------------------------------
\* Steps that do nothing to jobs and give nobody a mark that waits for one.
JobsKept ==
  \A f \in Closure :
    /\ Enqueuing(f)' <=> Enqueuing(f)
    /\ Queued(inputQueue, f)' <=> Queued(inputQueue, f)
    /\ WorkedOn(f, CompileSteps)' <=> WorkedOn(f, CompileSteps)
    /\ WorkedOn(f, {"enqueue"})' <=> WorkedOn(f, {"enqueue"})
    /\ Queued(outputQueue, f)' <=> Queued(outputQueue, f)

NoNewMark == \A f \in Closure : code'[f] \in WaitMarks => code'[f] = code[f]

\* The steps of a job, and all others.
JobStep ==
  \/ \E t \in Thread :
       \/ Dequeue(t) \/ Decrement(t) \/ MarkForInstalling(t) \/ EnqueueOutput(t)
       \/ CheckMarkable(t)
  \/ MarkInRecompileQueue \/ EnqueueInput \/ InstallOptimizedCode

\* No job is touched where nobody enters or leaves the steps of one.
LEMMA KeepJobs ==
  ASSUME UNCHANGED <<inputQueue, outputQueue, job>>,
         \A t \in Thread : pc'[t] # pc[t] => pc[t] \notin WaitSteps /\ pc'[t] \notin WaitSteps,
         pc["main"] = "queue_enqueue" => function' = function
  PROVE  JobsKept
<1>1. "main" \in Thread /\ \A t \in Thread : \A S \in SUBSET WaitSteps : pc'[t] \in S <=> pc[t] \in S
  BY DEF Thread
<1>2. CompileSteps \in SUBSET WaitSteps /\ {"enqueue"} \in SUBSET WaitSteps /\ {"queue_enqueue"} \in SUBSET WaitSteps
  BY DEF WaitSteps
<1>3. \A f \in Closure : Enqueuing(f)' <=> Enqueuing(f)
  BY <1>1, <1>2 DEF Enqueuing, WaitSteps
<1>4. \A f \in Closure : /\ WorkedOn(f, CompileSteps)' <=> WorkedOn(f, CompileSteps)
                         /\ WorkedOn(f, {"enqueue"})' <=> WorkedOn(f, {"enqueue"})
  BY <1>1, <1>2 DEF WorkedOn
<1>. QED
  BY <1>3, <1>4 DEF JobsKept, Queued

\* The same for a step of one thread.
LEMMA KeepJobsAt ==
  ASSUME TypeThreads, UNCHANGED <<inputQueue, outputQueue, job>>,
         NEW t \in Thread, NEW step, Goto(t, step),
         pc[t] \notin WaitSteps, step \notin WaitSteps,
         pc["main"] = "queue_enqueue" => function' = function
  PROVE  JobsKept
<1>1. \A u \in Thread : pc'[u] = IF u = t THEN step ELSE pc[u]
  BY DEF TypeThreads, Goto
<1>. QED
  BY <1>1, KeepJobs

\* What ReplaceCode gives a closure in place of its mark is no such mark.
LEMMA NoMark ==
  ASSUME TypeFunctions, NEW f \in Closure, NEW c \in OptCode \cup {"Full", "LazyCompile"},
         code' = [code EXCEPT ![f] = c]
  PROVE  NoNewMark
<1>1. c \notin WaitMarks
  BY OptCodeAssumption DEF WaitMarks
<1>. QED
  BY <1>1 DEF NoNewMark, TypeFunctions

\* The codes that closures get.
LEMMA GivenCodes ==
  ASSUME TypeFunctions, NEW f \in Closure
  PROVE  /\ sharedCode[SharedOf[f]] \in OptCode \cup {"Full", "LazyCompile"}
         /\ codeMap[SharedOf[f]] \in OptCode \cup {None}
         /\ NewCode \subseteq OptCode
  BY SharedOfAssumption DEF TypeFunctions, NewCode

\* An installation that does not abort.
LEMMA InstallNoMark ==
  ASSUME TypeFunctions, NEW f \in Closure, NEW c \in OptCode,
         InstallCode(f, c), pc'["main"] # "aborted"
  PROVE  UNCHANGED pc /\ code' = [code EXCEPT ![f] = c] /\ NoNewMark
<1>1. ReplaceCode(f, c) /\ UNCHANGED pc
  BY DEF InstallCode, Thread
<1>. QED
  BY <1>1, NoMark DEF ReplaceCode

\* What JavaScript does, short of a failing CHECK.
LEMMA ChooseQuiet ==
  ASSUME TypeFunctions, TypeThreads, Choose, pc'["main"] # "aborted" PROVE JobsKept /\ NoNewMark
<1>1. ASSUME NEW f \in Closure, ParallelRecompile(f) PROVE JobsKept /\ NoNewMark
  <2>1. NoNewMark
    <3>1. CASE UNCHANGED code
      BY <3>1 DEF NoNewMark
    <3>2. CASE ReplaceCode(f, sharedCode[SharedOf[f]])
      BY <3>2, GivenCodes, NoMark DEF ReplaceCode
    <3>3. CASE codeMap[SharedOf[f]] # None /\ InstallCode(f, codeMap[SharedOf[f]])
      <4>1. codeMap[SharedOf[f]] \in OptCode
        BY <3>3, GivenCodes
      <4>. QED BY <3>3, <4>1, InstallNoMark
    <3>. QED BY <1>1, <3>1, <3>2, <3>3 DEF ParallelRecompile, InstallFullCode
  <2>2. /\ UNCHANGED <<inputQueue, outputQueue, job>> /\ pc["main"] = "js"
        /\ UNCHANGED pc \/ Goto("main", "queue_length")
    BY <1>1 DEF ParallelRecompile, queues, InstallCode, Thread
  <2>3. JobsKept
    BY <2>2, KeepJobs, KeepJobsAt DEF Goto, WaitSteps, CompileSteps, Thread
  <2>. QED BY <2>1, <2>3
<1>2. ASSUME NEW f \in Closure, InstallRecompiledCode(f) PROVE JobsKept /\ NoNewMark
  <2>1. JobsKept
    BY <1>2, KeepJobsAt DEF InstallRecompiledCode, queues, WaitSteps, CompileSteps, Thread
  <2>. QED BY <1>2, <2>1 DEF InstallRecompiledCode, functions, NoNewMark
<1>3. ASSUME NEW f \in Closure, OnStackReplacement(f) PROVE JobsKept /\ NoNewMark
  <2>1. NoNewMark
    <3>1. CASE UNCHANGED code
      BY <3>1 DEF NoNewMark
    <3>2. CASE ReplaceCode(f, sharedCode[SharedOf[f]])
      BY <3>2, GivenCodes, NoMark DEF ReplaceCode
    <3>3. ASSUME NEW c \in NewCode, InstallCode(f, c) PROVE NoNewMark
      BY <3>3, GivenCodes, InstallNoMark
    <3>. QED BY <1>3, <3>1, <3>2, <3>3 DEF OnStackReplacement, InstallFullCode
  <2>2. UNCHANGED <<inputQueue, outputQueue, job, function, pc>>
    BY <1>3 DEF OnStackReplacement, queues, InstallCode, Thread
  <2>3. JobsKept
    BY <2>2, KeepJobs
  <2>. QED BY <2>1, <2>3
<1>4. ASSUME NEW f \in Closure, NotifyDeoptimized(f) PROVE JobsKept /\ NoNewMark
  <2>1. JobsKept
    BY <1>4, KeepJobs DEF NotifyDeoptimized, queues
  <2>2. PICK fs \in SUBSET Closure : Deoptimize(fs)
    BY <1>4 DEF NotifyDeoptimized, TypeFunctions
  <2>3. \A g \in Closure : code'[g] \in {code[g], sharedCode[SharedOf[g]]}
    BY <2>2 DEF Deoptimize
  <2>4. \A g \in Closure : sharedCode[SharedOf[g]] \notin WaitMarks
    BY GivenCodes, OptCodeAssumption DEF WaitMarks
  <2>. QED BY <2>1, <2>3, <2>4 DEF NoNewMark
<1>5. ASSUME NEW f \in Closure, TickFrame(f) PROVE JobsKept /\ NoNewMark
  <2>1. JobsKept
    BY <1>5, KeepJobs DEF TickFrame, queues
  <2>2. UNCHANGED code \/ code' = [code EXCEPT ![f] = "ParallelRecompile"]
    BY <1>5 DEF TickFrame
  <2>. QED BY <2>1, <2>2 DEF NoNewMark, TypeFunctions, WaitMarks
<1>6. CASE Tick \/ Stop
  <2>1. JobsKept
    BY <1>6, KeepJobsAt DEF Tick, Stop, queues, WaitSteps, CompileSteps, Thread
  <2>. QED BY <1>6, <2>1 DEF Tick, Stop, functions, NoNewMark
<1>. QED
  BY <1>1, <1>2, <1>3, <1>4, <1>5, <1>6 DEF Choose

\* What the debugger does.
LEMMA DebugQuiet ==
  ASSUME TypeFunctions, Debug, pc'["main"] # "aborted" PROVE JobsKept /\ NoNewMark
<1>1. ASSUME NEW active \in SUBSET Closure, PrepareForBreakPoints(active)
      PROVE  JobsKept /\ NoNewMark
  <2>1. JobsKept
    BY <1>1, KeepJobs DEF PrepareForBreakPoints, queues
  <2>2. \A f \in Closure : code'[f] \in {"LazyCompile", "Full", code[f]}
    BY <1>1 DEF PrepareForBreakPoints
  <2>. QED BY <2>1, <2>2 DEF NoNewMark, WaitMarks
<1>2. ASSUME NEW f \in Closure, CompileLazy(f) PROVE JobsKept /\ NoNewMark
  <2>1. ~Abort
    BY DEF Abort, Thread
  <2>2. JobsKept
    BY <1>2, <2>1, KeepJobs DEF CompileLazy, queues
  <2>. QED BY <1>2, <2>1, <2>2, NoMark DEF CompileLazy
<1>3. ~DeoptimizeAllFails
  BY DEF DeoptimizeAllFails, Abort, Thread
<1>4. CASE RemoveDebugInfo
  BY <1>4, KeepJobs DEF RemoveDebugInfo, queues, NoNewMark
<1>. QED
  BY <1>1, <1>2, <1>3, <1>4 DEF Debug

\* The rest of what the two threads do.
LEMMA ContinueQuiet ==
  ASSUME TypeFunctions, TypeThreads,
         \/ QueueLength \/ SignalInput \/ InstallReturn \/ TickReturn
         \/ StopSignal \/ StopWait \/ StopDrain \/ AwaitInput \/ CheckStop
  PROVE  JobsKept /\ NoNewMark
<1>1. UNCHANGED code
  BY DEF QueueLength, SignalInput, InstallReturn, TickReturn, StopSignal, StopWait, StopDrain,
         AwaitInput, CheckStop, functions
<1>2. CASE QueueLength \/ SignalInput \/ TickReturn \/ StopSignal
  BY <1>1, <1>2, KeepJobsAt DEF QueueLength, SignalInput, TickReturn, StopSignal, queues,
     WaitSteps, CompileSteps, Thread, NoNewMark
<1>3. CASE InstallReturn
  BY <1>1, <1>3, KeepJobsAt DEF InstallReturn, queues, WaitSteps, CompileSteps, Thread, NoNewMark
<1>4. CASE StopWait \/ StopDrain
  <2>1. /\ UNCHANGED <<inputQueue, outputQueue, job, function>> /\ pc["main"] \notin WaitSteps
        /\ \E step \in {"install", "stopped", "dequeue"} : Goto("main", step)
    BY <1>4 DEF StopWait, StopDrain, queues, WaitSteps, CompileSteps
  <2>. QED BY <1>1, <2>1, KeepJobsAt DEF WaitSteps, CompileSteps, Thread, NoNewMark
<1>5. CASE AwaitInput \/ CheckStop
  <2>1. /\ UNCHANGED <<inputQueue, outputQueue, job, function>> /\ pc["compiler"] \notin WaitSteps
        /\ \E step \in {"woken", "exited", "dequeue"} : Goto("compiler", step)
    BY <1>5 DEF AwaitInput, CheckStop, queues, WaitSteps, CompileSteps
  <2>. QED BY <1>1, <2>1, KeepJobsAt DEF WaitSteps, CompileSteps, Thread, NoNewMark
<1>. QED
  BY <1>2, <1>3, <1>4, <1>5

\* Every step that no failing ASSERT makes the last one.
LEMMA StepKinds ==
  ASSUME TypeFunctions, TypeThreads, [Next]_vars, pc'["main"] # "aborted"
  PROVE  (JobsKept /\ NoNewMark) \/ JobStep
<1>1. CASE Choose
  BY <1>1, ChooseQuiet
<1>2. CASE Debug
  BY <1>2, DebugQuiet
<1>3. ASSUME NEW t \in Thread, CompileNext(t) PROVE JobStep
  BY <1>3 DEF CompileNext, JobStep, CheckMarkable
<1>4. CASE Continue
  <2>1. "main" \in Thread
    BY DEF Thread
  <2>. QED BY <1>3, <1>4, <2>1, ContinueQuiet DEF Continue, JobStep
<1>5. CASE Run
  <2>1. "compiler" \in Thread
    BY DEF Thread
  <2>. QED BY <1>3, <1>5, <2>1, ContinueQuiet DEF Run
<1>6. CASE UNCHANGED vars
  BY <1>6, KeepJobs DEF vars, functions, queues, NoNewMark
<1>. QED
  BY <1>1, <1>2, <1>4, <1>5, <1>6 DEF Next, Terminated

-----------------------------------------------------------------------------
\* What the steps of a job do.

Once(queue) ==
  \A i, j \in DOMAIN queue : queue[i].closure = queue[j].closure => i = j

\* The job at the head is taken off a queue.
LEMMA TailQueued ==
  ASSUME NEW q \in Seq(Job), q # <<>>
  PROVE  /\ \A f \in Closure : Queued(q, f) <=> f = Head(q).closure \/ Queued(Tail(q), f)
         /\ Once(q) => Once(Tail(q)) /\ ~Queued(Tail(q), Head(q).closure)
<1>1. /\ Len(q) \in Nat /\ Len(q) > 0 /\ DOMAIN q = 1 .. Len(q) /\ Head(q) = q[1]
      /\ DOMAIN Tail(q) = 1 .. Len(q) - 1
      /\ \A i \in 1 .. Len(q) - 1 : Tail(q)[i] = q[i + 1]
  BY TakeHead
<1>2. \A f \in Closure : Queued(q, f) => f = q[1].closure \/ Queued(Tail(q), f)
  <2>. SUFFICES ASSUME NEW f \in Closure, NEW i \in 1 .. Len(q), q[i].closure = f, i # 1
                PROVE  Queued(Tail(q), f)
    BY <1>1 DEF Queued
  <2>1. i - 1 \in 1 .. Len(q) - 1 /\ (i - 1) + 1 = i
    BY <1>1
  <2>2. Tail(q)[i - 1] = q[(i - 1) + 1]
    BY <1>1, <2>1
  <2>. QED BY <1>1, <2>1, <2>2 DEF Queued
<1>3. \A f \in Closure : Queued(Tail(q), f) => Queued(q, f)
  <2>. SUFFICES ASSUME NEW f \in Closure, NEW i \in 1 .. Len(q) - 1, Tail(q)[i].closure = f
                PROVE  Queued(q, f)
    BY <1>1 DEF Queued
  <2>. QED BY <1>1 DEF Queued
<1>4. ASSUME Once(q) PROVE Once(Tail(q))
  <2>. SUFFICES ASSUME NEW i \in 1 .. Len(q) - 1, NEW j \in 1 .. Len(q) - 1,
                       Tail(q)[i].closure = Tail(q)[j].closure
                PROVE  i = j
    BY <1>1 DEF Once
  <2>1. i + 1 \in 1 .. Len(q) /\ j + 1 \in 1 .. Len(q) /\ q[i + 1].closure = q[j + 1].closure
    BY <1>1
  <2>2. i + 1 = j + 1
    BY <1>1, <1>4, <2>1 DEF Once
  <2>. QED BY <2>2
<1>5. ASSUME Once(q) PROVE ~Queued(Tail(q), Head(q).closure)
  <2>. SUFFICES ASSUME NEW i \in 1 .. Len(q) - 1, Tail(q)[i].closure = q[1].closure PROVE FALSE
    BY <1>1 DEF Queued
  <2>1. i + 1 \in 1 .. Len(q) /\ 1 \in 1 .. Len(q) /\ q[i + 1].closure = q[1].closure
    BY <1>1
  <2>2. i + 1 = 1
    BY <1>1, <1>5, <2>1 DEF Once
  <2>. QED BY <2>2
<1>6. 1 \in DOMAIN q
  BY <1>1
<1>7. \A f \in Closure : f = q[1].closure => Queued(q, f)
  BY <1>6 DEF Queued
<1>. QED
  BY <1>1, <1>2, <1>3, <1>4, <1>5, <1>7

\* A job is put at the end of a queue.
LEMMA AppendQueued ==
  ASSUME NEW q \in Seq(Job), NEW j \in Job
  PROVE  /\ \A f \in Closure : Queued(Append(q, j), f) <=> Queued(q, f) \/ f = j.closure
         /\ Once(q) /\ ~Queued(q, j.closure) => Once(Append(q, j))
<1>1. /\ Len(q) \in Nat /\ DOMAIN q = 1 .. Len(q)
      /\ DOMAIN Append(q, j) = 1 .. Len(q) + 1
      /\ \A i \in 1 .. Len(q) : Append(q, j)[i] = q[i]
      /\ Append(q, j)[Len(q) + 1] = j
  OBVIOUS
<1>2. \A i \in 1 .. Len(q) + 1 : i \in 1 .. Len(q) \/ i = Len(q) + 1
  BY <1>1
<1>3. \A i \in 1 .. Len(q) : i \in 1 .. Len(q) + 1
  BY <1>1
<1>4. Len(q) + 1 \in 1 .. Len(q) + 1
  BY <1>1
<1>5. \A f \in Closure : Queued(Append(q, j), f) <=> Queued(q, f) \/ f = j.closure
  BY <1>1, <1>2, <1>3, <1>4 DEF Queued
<1>6. ASSUME Once(q), ~Queued(q, j.closure) PROVE Once(Append(q, j))
  <2>1. \A i \in 1 .. Len(q) : q[i].closure # j.closure
    BY <1>1, <1>6 DEF Queued
  <2>. QED BY <1>1, <1>2, <1>6, <2>1 DEF Once
<1>. QED
  BY <1>5, <1>6

\* What the other thread works on.
Elsewhere(t, f, steps) == \E u \in Thread \ {t} : pc[u] \in steps /\ job[u].closure = f

\* A closure is worked on by this thread or by the other one.
LEMMA WorkSplit ==
  ASSUME NEW t \in Thread, NEW f, NEW steps
  PROVE  WorkedOn(f, steps) <=> (pc[t] \in steps /\ job[t].closure = f) \/ Elsewhere(t, f, steps)
  BY DEF WorkedOn, Elsewhere

\* The same in the next state, after a step of one of the two.
LEMMA WorkSplitNext ==
  ASSUME TypeThreads, NEW t \in Thread, NEW f, NEW steps, NEW step, Goto(t, step),
         \A u \in Thread \ {t} : job'[u] = job[u]
  PROVE  WorkedOn(f, steps)' <=>
           (step \in steps /\ job'[t].closure = f) \/ Elsewhere(t, f, steps)
<1>1. \A u \in Thread : pc'[u] = IF u = t THEN step ELSE pc[u]
  BY DEF TypeThreads, Goto
<1>. QED
  BY <1>1 DEF WorkedOn, Elsewhere

\* A thread that neither enters nor leaves the steps changes nothing there.
LEMMA WorkKept ==
  ASSUME TypeThreads, NEW t \in Thread, NEW steps, NEW step, Goto(t, step),
         pc[t] \notin steps, step \notin steps, UNCHANGED job
  PROVE  \A f \in Closure : WorkedOn(f, steps)' <=> WorkedOn(f, steps)
<1>1. \A u \in Thread : pc'[u] = IF u = t THEN step ELSE pc[u]
  BY DEF TypeThreads, Goto
<1>. QED
  BY <1>1 DEF WorkedOn

\* Dequeue moves the job at the head of the input to the thread.
LEMMA DequeueJobs ==
  ASSUME TypeQueues, TypeThreads, NEW t \in Thread, Dequeue(t)
  PROVE  LET h == Head(inputQueue).closure IN
         /\ h \in Closure /\ UNCHANGED functions
         /\ Once(inputQueue) => Once(inputQueue)' /\ \A f \in Closure : f = h => ~Queued(inputQueue, f)'
         /\ UNCHANGED outputQueue
         /\ \A f \in Closure :
              /\ Enqueuing(f)' <=> Enqueuing(f)
              /\ Queued(inputQueue, f) <=> f = h \/ Queued(inputQueue, f)'
              /\ WorkedOn(f, CompileSteps)' <=> WorkedOn(f, CompileSteps) \/ f = h
              /\ WorkedOn(f, {"enqueue"})' <=> WorkedOn(f, {"enqueue"})
              /\ Queued(outputQueue, f)' <=> Queued(outputQueue, f)
<1> DEFINE h == Head(inputQueue).closure
<1>1. /\ pc[t] = "dequeue" /\ Goto(t, "decrement") /\ inputQueue # <<>> /\ inputQueue' = Tail(inputQueue)
      /\ UNCHANGED <<functions, outputQueue, function>>
      /\ inputQueue \in Seq(Job) /\ Head(inputQueue) \in Job
      /\ job'[t] = Head(inputQueue) /\ \A u \in Thread \ {t} : job'[u] = job[u]
  BY TakeHead DEF Dequeue, TypeQueues, TypeThreads
<1>2. h \in Closure
  BY <1>1 DEF Job
<1>3. \A f \in Closure : Enqueuing(f)' <=> Enqueuing(f)
  BY <1>1 DEF Enqueuing, Goto, TypeThreads
<1>4. \A f \in Closure : WorkedOn(f, CompileSteps)' <=> WorkedOn(f, CompileSteps) \/ f = h
  BY <1>1, WorkSplit, WorkSplitNext DEF CompileSteps
<1>5. \A f \in Closure : WorkedOn(f, {"enqueue"})' <=> WorkedOn(f, {"enqueue"})
  BY <1>1, WorkSplit, WorkSplitNext
<1>6. /\ Once(inputQueue) => Once(inputQueue)' /\ \A f \in Closure : f = h => ~Queued(inputQueue, f)'
      /\ \A f \in Closure : Queued(inputQueue, f) <=> f = h \/ Queued(inputQueue, f)'
  <2>1. /\ Once(inputQueue)' <=> Once(Tail(inputQueue))
        /\ \A f \in Closure : Queued(inputQueue, f)' <=> Queued(Tail(inputQueue), f)
    BY <1>1 DEF Queued, Once
  <2>2. /\ \A f \in Closure : Queued(inputQueue, f) <=> f = h \/ Queued(Tail(inputQueue), f)
        /\ Once(inputQueue) => Once(Tail(inputQueue)) /\ ~Queued(Tail(inputQueue), h)
    BY <1>1, TailQueued
  <2> HIDE DEF h
  <2>. QED BY <1>2, <2>1, <2>2
<1>7. \A f \in Closure : Queued(outputQueue, f)' <=> Queued(outputQueue, f)
  BY <1>1 DEF Queued
<1>. QED
  BY <1>1, <1>2, <1>3, <1>4, <1>5, <1>6, <1>7

\* Decrement and a successful ASSERT leave the job where it is.
LEMMA CompileJobs ==
  ASSUME TypeThreads, NEW t \in Thread, Decrement(t) \/ CheckMarkable(t), pc'["main"] # "aborted"
  PROVE  JobsKept /\ UNCHANGED <<functions, inputQueue, outputQueue>>
<1>1. ~Abort
  BY DEF Abort, Thread
<1>2. PICK step \in CompileSteps : Goto(t, step)
  BY <1>1 DEF Decrement, CheckMarkable, CompileSteps
<1>3. /\ pc[t] \in CompileSteps
      /\ UNCHANGED <<functions, inputQueue, outputQueue, function>>
      /\ job'[t].closure = job[t].closure /\ \A u \in Thread \ {t} : job'[u] = job[u]
  <2>1. CASE Decrement(t)
    <3>1. job[t] \in Job
      BY <2>1 DEF Decrement, TypeThreads
    <3>2. PICK ok \in BOOLEAN : job' = [job EXCEPT ![t] = [job[t] EXCEPT !.ok = ok]]
      BY <2>1 DEF Decrement
    <3>3. [job[t] EXCEPT !.ok = ok].closure = job[t].closure
      BY <3>1 DEF Job
    <3>. QED BY <2>1, <3>2, <3>3 DEF Decrement, CompileSteps, TypeThreads
  <2>2. CASE CheckMarkable(t)
    BY <1>1, <2>2 DEF CheckMarkable, queues, CompileSteps
  <2>. QED BY <2>1, <2>2
<1>4. \A f \in Closure : Enqueuing(f)' <=> Enqueuing(f)
  BY <1>2, <1>3 DEF Enqueuing, Goto, TypeThreads, CompileSteps
<1>5. \A f \in Closure : WorkedOn(f, CompileSteps)' <=> WorkedOn(f, CompileSteps)
  BY <1>2, <1>3, WorkSplit, WorkSplitNext
<1>6. \A f \in Closure : WorkedOn(f, {"enqueue"})' <=> WorkedOn(f, {"enqueue"})
  BY <1>2, <1>3, WorkSplit, WorkSplitNext DEF CompileSteps
<1>. QED
  BY <1>3, <1>4, <1>5, <1>6 DEF JobsKept, Queued

\* The store moves its job from those to be marked to those to be installed.
LEMMA StoreJobs ==
  ASSUME TypeThreads, NEW t \in Thread, MarkForInstalling(t)
  PROVE  LET h == job[t].closure IN
         /\ h \in Closure /\ WorkedOn(h, CompileSteps)
         /\ code' = [code EXCEPT ![h] = "InstallRecompiledCode"]
         /\ UNCHANGED <<sharedCode, patched, optimized, breakPoints, inputQueue, outputQueue>>
         /\ \A f \in Closure :
              /\ Enqueuing(f)' <=> Enqueuing(f)
              /\ WorkedOn(f, CompileSteps) <=> WorkedOn(f, CompileSteps)' \/ f = h
              /\ WorkedOn(f, {"enqueue"})' <=> WorkedOn(f, {"enqueue"}) \/ f = h
<1> DEFINE h == job[t].closure
<1>1. /\ pc[t] = "store" /\ Goto(t, "enqueue") /\ job[t] \in Job
      /\ code' = [code EXCEPT ![h] = "InstallRecompiledCode"]
      /\ UNCHANGED <<sharedCode, patched, optimized, breakPoints, inputQueue, outputQueue, job, function>>
  BY DEF MarkForInstalling, StoreMark, queues, TypeThreads
<1>2. h \in Closure
  BY <1>1 DEF Job
<1>3. \A f \in Closure : Enqueuing(f)' <=> Enqueuing(f)
  BY <1>1 DEF Enqueuing, Goto, TypeThreads
<1>4. \A f \in Closure : WorkedOn(f, CompileSteps) <=> WorkedOn(f, CompileSteps)' \/ f = h
  BY <1>1, WorkSplit, WorkSplitNext DEF CompileSteps
<1>5. \A f \in Closure : WorkedOn(f, {"enqueue"})' <=> WorkedOn(f, {"enqueue"}) \/ f = h
  BY <1>1, WorkSplit, WorkSplitNext
<1>. QED
  BY <1>1, <1>2, <1>3, <1>4, <1>5

\* EnqueueOutput moves the thread's job to the end of the output.
LEMMA EnqueueOutputJobs ==
  ASSUME TypeQueues, TypeThreads, NEW t \in Thread, EnqueueOutput(t)
  PROVE  LET h == job[t].closure IN
         /\ h \in Closure /\ WorkedOn(h, {"enqueue"}) /\ UNCHANGED <<functions, inputQueue>>
         /\ Once(outputQueue) /\ ~Queued(outputQueue, h) => Once(outputQueue)'
         /\ \A f \in Closure :
              /\ Enqueuing(f)' <=> Enqueuing(f)
              /\ WorkedOn(f, CompileSteps)' <=> WorkedOn(f, CompileSteps)
              /\ WorkedOn(f, {"enqueue"}) <=> WorkedOn(f, {"enqueue"})' \/ f = h
              /\ Queued(outputQueue, f)' <=> Queued(outputQueue, f) \/ f = h
<1> DEFINE h == job[t].closure
<1>1. PICK step \in {"install", "wait"} : Goto(t, step)
  BY DEF EnqueueOutput
<1>2. /\ pc[t] = "enqueue" /\ job[t] \in Job /\ \A u \in Thread \ {t} : job'[u] = job[u]
      /\ outputQueue' = Append(outputQueue, job[t]) /\ outputQueue \in Seq(Job)
      /\ UNCHANGED <<functions, inputQueue, function>>
  BY DEF EnqueueOutput, TypeThreads, TypeQueues
<1>3. h \in Closure
  BY <1>2 DEF Job
<1>4. \A f \in Closure : Enqueuing(f)' <=> Enqueuing(f)
  BY <1>1, <1>2 DEF Enqueuing, Goto, TypeThreads
<1>5. \A f \in Closure : WorkedOn(f, CompileSteps)' <=> WorkedOn(f, CompileSteps)
  BY <1>1, <1>2, WorkSplit, WorkSplitNext DEF CompileSteps
<1>6. \A f \in Closure : WorkedOn(f, {"enqueue"}) <=> WorkedOn(f, {"enqueue"})' \/ f = h
  BY <1>1, <1>2, WorkSplit, WorkSplitNext
<1>7. /\ Once(outputQueue) /\ ~Queued(outputQueue, h) => Once(outputQueue)'
      /\ \A f \in Closure : Queued(outputQueue, f)' <=> Queued(outputQueue, f) \/ f = h
  BY <1>2, AppendQueued DEF Queued, Once
<1>. QED
  BY <1>2, <1>3, <1>4, <1>5, <1>6, <1>7

\* The mark that precedes the job into the input queue.
LEMMA MarkJobs ==
  ASSUME TypeThreads, MarkInRecompileQueue, pc'["main"] # "aborted"
  PROVE  /\ function \in Closure /\ function' = function
         /\ code' = [code EXCEPT ![function] = "InRecompileQueue"]
         /\ UNCHANGED <<sharedCode, patched, optimized, breakPoints, inputQueue, outputQueue>>
         /\ pc["main"] = "queue_mark" /\ pc'["main"] = "queue_enqueue"
         /\ \A f \in Closure :
              /\ Enqueuing(f)' <=> f = function
              /\ WorkedOn(f, CompileSteps)' <=> WorkedOn(f, CompileSteps)
              /\ WorkedOn(f, {"enqueue"})' <=> WorkedOn(f, {"enqueue"})
<1>1. ~Abort /\ "main" \in Thread
  BY DEF Abort, Thread
<1>2. /\ pc["main"] = "queue_mark" /\ Goto("main", "queue_enqueue") /\ function \in Closure
      /\ code' = [code EXCEPT ![function] = "InRecompileQueue"]
      /\ UNCHANGED <<sharedCode, patched, optimized, breakPoints, inputQueue, outputQueue, job, function>>
  BY <1>1 DEF MarkInRecompileQueue, StoreMark, queues, TypeThreads
<1>3. pc'["main"] = "queue_enqueue"
  BY <1>1, <1>2 DEF Goto, TypeThreads
<1>4. \A f \in Closure : Enqueuing(f)' <=> f = function
  BY <1>2, <1>3 DEF Enqueuing
<1>5. \A f \in Closure : /\ WorkedOn(f, CompileSteps)' <=> WorkedOn(f, CompileSteps)
                         /\ WorkedOn(f, {"enqueue"})' <=> WorkedOn(f, {"enqueue"})
  <2>1. {"queue_mark", "queue_enqueue"} \cap (CompileSteps \cup {"enqueue"}) = {}
    BY DEF CompileSteps
  <2>2. \A f \in Closure : WorkedOn(f, CompileSteps)' <=> WorkedOn(f, CompileSteps)
    BY <1>1, <1>2, <2>1, WorkKept
  <2>3. \A f \in Closure : WorkedOn(f, {"enqueue"})' <=> WorkedOn(f, {"enqueue"})
    BY <1>1, <1>2, <2>1, WorkKept
  <2>. QED BY <2>2, <2>3
<1>. QED
  BY <1>2, <1>3, <1>4, <1>5

\* EnqueueInput puts the job of the runtime call into the input queue.
LEMMA EnqueueInputJobs ==
  ASSUME TypeQueues, TypeThreads, EnqueueInput
  PROVE  /\ function \in Closure /\ function' = function /\ UNCHANGED <<functions, outputQueue>>
         /\ pc["main"] = "queue_enqueue" /\ pc'["main"] = "queue_signal"
         /\ Once(inputQueue) /\ ~Queued(inputQueue, function) => Once(inputQueue)'
         /\ \A f \in Closure :
              /\ (Enqueuing(f) <=> f = function) /\ ~Enqueuing(f)'
              /\ Queued(inputQueue, f)' <=> Queued(inputQueue, f) \/ f = function
              /\ WorkedOn(f, CompileSteps)' <=> WorkedOn(f, CompileSteps)
              /\ WorkedOn(f, {"enqueue"})' <=> WorkedOn(f, {"enqueue"})
<1> DEFINE new == [closure |-> function, ok |-> TRUE]
<1>1. /\ pc["main"] = "queue_enqueue" /\ Goto("main", "queue_signal") /\ function \in Closure
      /\ inputQueue' = Append(inputQueue, new) /\ inputQueue \in Seq(Job)
      /\ UNCHANGED <<functions, outputQueue, job, function>> /\ "main" \in Thread
  BY DEF EnqueueInput, TypeThreads, TypeQueues, Thread
<1>2. pc'["main"] = "queue_signal"
  BY <1>1 DEF Goto, TypeThreads
<1>3. new \in Job /\ new.closure = function
  BY <1>1 DEF Job
<1>4. \A f \in Closure : (Enqueuing(f) <=> f = function) /\ ~Enqueuing(f)'
  BY <1>1, <1>2 DEF Enqueuing
<1>5. \A f \in Closure : /\ WorkedOn(f, CompileSteps)' <=> WorkedOn(f, CompileSteps)
                         /\ WorkedOn(f, {"enqueue"})' <=> WorkedOn(f, {"enqueue"})
  <2>1. {"queue_enqueue", "queue_signal"} \cap (CompileSteps \cup {"enqueue"}) = {}
    BY DEF CompileSteps
  <2>2. \A f \in Closure : WorkedOn(f, CompileSteps)' <=> WorkedOn(f, CompileSteps)
    BY <1>1, <2>1, WorkKept
  <2>3. \A f \in Closure : WorkedOn(f, {"enqueue"})' <=> WorkedOn(f, {"enqueue"})
    BY <1>1, <2>1, WorkKept
  <2>. QED BY <2>2, <2>3
<1> HIDE DEF new
<1>6. /\ Once(inputQueue) /\ ~Queued(inputQueue, function) => Once(inputQueue)'
      /\ \A f \in Closure : Queued(inputQueue, f)' <=> Queued(inputQueue, f) \/ f = function
  <2>1. /\ Once(inputQueue)' <=> Once(Append(inputQueue, new))
        /\ \A f \in Closure : Queued(inputQueue, f)' <=> Queued(Append(inputQueue, new), f)
    BY <1>1 DEF Queued, Once
  <2>. QED BY <1>1, <1>3, <2>1, AppendQueued
<1>. QED
  BY <1>1, <1>2, <1>4, <1>5, <1>6

\* InstallOptimizedCode, when its CHECK and its ASSERT hold.
LEMMA InstallJobs ==
  ASSUME TypeFunctions, TypeQueues, TypeThreads, InstallOptimizedCode, pc'["main"] # "aborted"
  PROVE  LET h == Head(outputQueue).closure IN
         /\ h \in Closure /\ Queued(outputQueue, h)
         /\ UNCHANGED <<sharedCode, patched, breakPoints, inputQueue, pc, function>>
         /\ \E c \in OptCode \cup {"Full"} : ReplaceCode(h, c)
         /\ Once(outputQueue) => Once(outputQueue)' /\ \A f \in Closure : f = h => ~Queued(outputQueue, f)'
         /\ \A f \in Closure :
              /\ Enqueuing(f)' <=> Enqueuing(f)
              /\ WorkedOn(f, CompileSteps)' <=> WorkedOn(f, CompileSteps)
              /\ WorkedOn(f, {"enqueue"})' <=> WorkedOn(f, {"enqueue"})
              /\ Queued(outputQueue, f) <=> f = h \/ Queued(outputQueue, f)'
<1> DEFINE h == Head(outputQueue).closure
<1>1. outputQueue \in Seq(Job) /\ outputQueue # <<>> /\ Head(outputQueue) \in Job
  BY TakeHead DEF InstallOptimizedCode, TypeQueues
<1>2. h \in Closure
  BY <1>1 DEF Job
<1>3. /\ UNCHANGED <<sharedCode, patched, breakPoints, inputQueue, pc, function, job>>
      /\ outputQueue' = Tail(outputQueue)
      /\ \E c \in OptCode \cup {"Full"} : ReplaceCode(h, c)
  <2>1. NewCode \subseteq OptCode
    BY <1>2, GivenCodes
  <2>. QED BY <2>1 DEF InstallOptimizedCode, InstallCode, InstallFullCode, Thread
<1>4. /\ Once(outputQueue) => Once(outputQueue)' /\ \A f \in Closure : f = h => ~Queued(outputQueue, f)'
      /\ \A f \in Closure : Queued(outputQueue, f) <=> f = h \/ Queued(outputQueue, f)'
  <2>1. /\ Once(outputQueue)' <=> Once(Tail(outputQueue))
        /\ \A f \in Closure : Queued(outputQueue, f)' <=> Queued(Tail(outputQueue), f)
    BY <1>3 DEF Queued, Once
  <2>2. /\ \A f \in Closure : Queued(outputQueue, f) <=> f = h \/ Queued(Tail(outputQueue), f)
        /\ Once(outputQueue) => Once(Tail(outputQueue)) /\ ~Queued(Tail(outputQueue), h)
    BY <1>1, TailQueued
  <2> HIDE DEF h
  <2>. QED BY <1>2, <2>1, <2>2
<1>5. \A f \in Closure :
        /\ Enqueuing(f)' <=> Enqueuing(f)
        /\ WorkedOn(f, CompileSteps)' <=> WorkedOn(f, CompileSteps)
        /\ WorkedOn(f, {"enqueue"})' <=> WorkedOn(f, {"enqueue"})
  BY <1>3 DEF Enqueuing, WorkedOn
<1>. QED
  BY <1>2, <1>3, <1>4, <1>5

-----------------------------------------------------------------------------
\* A failed ASSERT is the end.
LEMMA StillRunning ==
  ASSUME TypeThreads, [Next]_vars, Running' PROVE Running
<1> SUFFICES ASSUME ~Running PROVE FALSE
  OBVIOUS
<1>1. pc["main"] = "aborted" /\ pc["compiler"] = "aborted"
  BY DEF Running, TypeThreads
<1>2. ~Choose /\ ~Debug
  BY <1>1 DEF Choose, Debug, ParallelRecompile, InstallRecompiledCode, OnStackReplacement,
     NotifyDeoptimized, TickFrame, Tick, Stop, PrepareForBreakPoints, CompileLazy,
     DeoptimizeAllFails, RemoveDebugInfo
<1>3. ~CompileNext("main") /\ ~CompileNext("compiler")
  BY <1>1 DEF CompileNext, Dequeue, Decrement, CheckMarkable, MarkForInstalling, EnqueueOutput
<1>4. ~Continue /\ ~Run
  BY <1>1, <1>3 DEF Continue, Run, QueueLength, MarkInRecompileQueue, EnqueueInput, SignalInput,
     InstallOptimizedCode, InstallReturn, TickReturn, StopSignal, StopWait, StopDrain, AwaitInput,
     CheckStop
<1>5. UNCHANGED vars
  BY <1>2, <1>4 DEF Next, Terminated
<1>. QED
  BY <1>1, <1>5 DEF vars, Running

\* Whatever keeps the jobs and gives no mark keeps what marks stand for.
LEMMA KeptMarks ==
  ASSUME MarksOK, Running, JobsKept, NoNewMark PROVE MarksOK'
<1>1. \A f \in Closure : MarkWait(f)' <=> MarkWait(f)
  BY DEF JobsKept, MarkWait
<1>2. \A f \in Closure : InstallWait(f)' <=> InstallWait(f)
  BY DEF JobsKept, InstallWait
<1>. QED
  BY <1>1, <1>2 DEF MarksOK, NoNewMark, WaitMarks

\* A closure that carries a mark has a job, and keeps it from step to step.
LEMMA NextMarks ==
  ASSUME TypeFunctions, TypeQueues, TypeThreads, MarksOK, [Next]_vars PROVE MarksOK'
<1> SUFFICES ASSUME Running' PROVE MarksOK'
  BY DEF MarksOK
<1>1. Running /\ pc'["main"] # "aborted"
  BY StillRunning DEF Running
<1>2. \A f \in Closure : /\ code[f] = "InRecompileQueue" => MarkWait(f)
                         /\ code[f] = "InstallRecompiledCode" => InstallWait(f)
  BY <1>1 DEF MarksOK
<1>3. SUFFICES ASSUME JobStep
               PROVE  \A f \in Closure : /\ code'[f] = "InRecompileQueue" => MarkWait(f)'
                                         /\ code'[f] = "InstallRecompiledCode" => InstallWait(f)'
  <2>1. CASE JobsKept /\ NoNewMark
    BY <1>1, <2>1, KeptMarks
  <2>2. CASE JobStep
    BY <1>3, <2>2 DEF MarksOK
  <2>. QED BY <1>1, <2>1, <2>2, StepKinds
<1>4. ASSUME NEW t \in Thread, Dequeue(t)
      PROVE  \A f \in Closure : /\ code'[f] = "InRecompileQueue" => MarkWait(f)'
                                /\ code'[f] = "InstallRecompiledCode" => InstallWait(f)'
  BY <1>2, <1>4, DequeueJobs DEF MarkWait, InstallWait, functions
<1>5. ASSUME NEW t \in Thread, Decrement(t) \/ CheckMarkable(t)
      PROVE  \A f \in Closure : /\ code'[f] = "InRecompileQueue" => MarkWait(f)'
                                /\ code'[f] = "InstallRecompiledCode" => InstallWait(f)'
  BY <1>1, <1>2, <1>5, CompileJobs DEF JobsKept, MarkWait, InstallWait, functions
<1>6. ASSUME NEW t \in Thread, MarkForInstalling(t)
      PROVE  \A f \in Closure : /\ code'[f] = "InRecompileQueue" => MarkWait(f)'
                                /\ code'[f] = "InstallRecompiledCode" => InstallWait(f)'
  <2>1. job[t].closure \in Closure /\ code' = [code EXCEPT ![job[t].closure] = "InstallRecompiledCode"]
    BY <1>6, StoreJobs
  <2>2. \A f \in Closure :
          /\ Enqueuing(f)' <=> Enqueuing(f)
          /\ Queued(inputQueue, f)' <=> Queued(inputQueue, f)
          /\ Queued(outputQueue, f)' <=> Queued(outputQueue, f)
          /\ WorkedOn(f, CompileSteps) <=> WorkedOn(f, CompileSteps)' \/ f = job[t].closure
          /\ WorkedOn(f, {"enqueue"})' <=> WorkedOn(f, {"enqueue"}) \/ f = job[t].closure
    BY <1>6, StoreJobs DEF Queued
  <2>3. \A f \in Closure : code'[f] = IF f = job[t].closure THEN "InstallRecompiledCode" ELSE code[f]
    BY <2>1 DEF TypeFunctions
  <2>. QED BY <1>2, <2>2, <2>3 DEF MarkWait, InstallWait
<1>7. ASSUME NEW t \in Thread, EnqueueOutput(t)
      PROVE  \A f \in Closure : /\ code'[f] = "InRecompileQueue" => MarkWait(f)'
                                /\ code'[f] = "InstallRecompiledCode" => InstallWait(f)'
  <2>1. /\ UNCHANGED code
        /\ \A f \in Closure :
             /\ Enqueuing(f)' <=> Enqueuing(f)
             /\ Queued(inputQueue, f)' <=> Queued(inputQueue, f)
             /\ WorkedOn(f, CompileSteps)' <=> WorkedOn(f, CompileSteps)
             /\ WorkedOn(f, {"enqueue"}) <=> WorkedOn(f, {"enqueue"})' \/ f = job[t].closure
             /\ Queued(outputQueue, f)' <=> Queued(outputQueue, f) \/ f = job[t].closure
    BY <1>7, EnqueueOutputJobs DEF functions, Queued
  <2>. QED BY <1>2, <2>1 DEF MarkWait, InstallWait
<1>8. CASE MarkInRecompileQueue
  <2>1. /\ function \in Closure /\ pc["main"] = "queue_mark"
        /\ code' = [code EXCEPT ![function] = "InRecompileQueue"]
        /\ \A f \in Closure :
             /\ Enqueuing(f)' <=> f = function
             /\ Queued(inputQueue, f)' <=> Queued(inputQueue, f)
             /\ Queued(outputQueue, f)' <=> Queued(outputQueue, f)
             /\ WorkedOn(f, CompileSteps)' <=> WorkedOn(f, CompileSteps)
             /\ WorkedOn(f, {"enqueue"})' <=> WorkedOn(f, {"enqueue"})
    BY <1>1, <1>8, MarkJobs DEF Queued
  <2>2. \A f \in Closure : /\ ~Enqueuing(f)
                           /\ code'[f] = IF f = function THEN "InRecompileQueue" ELSE code[f]
    BY <2>1 DEF TypeFunctions, Enqueuing
  <2>. QED BY <1>2, <2>1, <2>2 DEF MarkWait, InstallWait
<1>9. CASE EnqueueInput
  <2>1. /\ UNCHANGED code
        /\ \A f \in Closure :
             /\ (Enqueuing(f) <=> f = function)
             /\ Queued(inputQueue, f)' <=> Queued(inputQueue, f) \/ f = function
             /\ Queued(outputQueue, f)' <=> Queued(outputQueue, f)
             /\ WorkedOn(f, CompileSteps)' <=> WorkedOn(f, CompileSteps)
             /\ WorkedOn(f, {"enqueue"})' <=> WorkedOn(f, {"enqueue"})
    BY <1>9, EnqueueInputJobs DEF functions, Queued
  <2>. QED BY <1>2, <2>1 DEF MarkWait, InstallWait
<1>10. CASE InstallOptimizedCode
  <2>1. PICK c \in OptCode \cup {"Full"} : ReplaceCode(Head(outputQueue).closure, c)
    BY <1>1, <1>10, InstallJobs
  <2>2. /\ Head(outputQueue).closure \in Closure
        /\ \A f \in Closure :
             /\ Enqueuing(f)' <=> Enqueuing(f)
             /\ Queued(inputQueue, f)' <=> Queued(inputQueue, f)
             /\ WorkedOn(f, CompileSteps)' <=> WorkedOn(f, CompileSteps)
             /\ WorkedOn(f, {"enqueue"})' <=> WorkedOn(f, {"enqueue"})
             /\ Queued(outputQueue, f) <=> f = Head(outputQueue).closure \/ Queued(outputQueue, f)'
    BY <1>1, <1>10, InstallJobs DEF Queued
  <2>3. c \notin WaitMarks
    BY OptCodeAssumption DEF WaitMarks
  <2>4. \A f \in Closure : code'[f] = IF f = Head(outputQueue).closure THEN c ELSE code[f]
    BY <2>1, <2>2 DEF ReplaceCode, TypeFunctions
  <2>. QED BY <1>2, <2>2, <2>3, <2>4 DEF MarkWait, InstallWait, WaitMarks
<1>. QED
  BY <1>3, <1>4, <1>5, <1>6, <1>7, <1>8, <1>9, <1>10 DEF JobStep

-----------------------------------------------------------------------------
\* Counting jobs: none, at least one, or exactly one.

\* The size of a part of a finite set.
LEMMA PartCount ==
  ASSUME NEW S, IsFiniteSet(S), NEW T \in SUBSET S
  PROVE  Cardinality(T) \in Nat /\ (Cardinality(T) = 0 <=> T = {})
  BY FS_Subset, FS_CardinalityType, FS_EmptySet

\* The number of jobs of a closure in a queue.
LEMMA JobsCount ==
  ASSUME NEW q \in Seq(Job), NEW f
  PROVE  Jobs(q, f) \in Nat /\ (Jobs(q, f) = 0 <=> ~Queued(q, f))
<1> DEFINE is == {i \in DOMAIN q : q[i].closure = f}
<1>1. DOMAIN q = 1 .. Len(q) /\ Len(q) \in Nat
  OBVIOUS
<1>2. IsFiniteSet(DOMAIN q)
  BY <1>1, FS_Interval
<1>3. is \in SUBSET DOMAIN q
  OBVIOUS
<1>4. Cardinality(is) \in Nat /\ (Cardinality(is) = 0 <=> is = {})
  BY <1>2, <1>3, PartCount
<1>. QED
  BY <1>4 DEF Jobs, Queued

\* There are two threads.
LEMMA ThreadFinite == IsFiniteSet(Thread)
<1>1. IsFiniteSet({"main"} \cup {"compiler"})
  BY FS_Singleton, FS_AddElement
<1>. QED
  BY <1>1 DEF Thread

\* The number of threads that work on a closure.
LEMMA WorkCount ==
  ASSUME NEW f, NEW steps
  PROVE  LET n == Cardinality({t \in Thread : pc[t] \in steps /\ job[t].closure = f})
         IN n \in Nat /\ (n = 0 <=> ~WorkedOn(f, steps))
<1> DEFINE ts == {t \in Thread : pc[t] \in steps /\ job[t].closure = f}
<1>1. ts \in SUBSET Thread
  OBVIOUS
<1>2. Cardinality(ts) \in Nat /\ (Cardinality(ts) = 0 <=> ts = {})
  BY <1>1, ThreadFinite, PartCount
<1>. QED
  BY <1>2 DEF WorkedOn

\* The sums that the model checker counts.
LEMMA WaitCount ==
  ASSUME TypeQueues, NEW f
  PROVE  /\ AwaitingMark(f) \in Nat /\ (AwaitingMark(f) = 0 <=> ~MarkWait(f))
         /\ AwaitingInstall(f) \in Nat /\ (AwaitingInstall(f) = 0 <=> ~InstallWait(f))
<1> DEFINE a == Count(pc["main"] = "queue_enqueue" /\ function = f)
           b == Jobs(inputQueue, f)
           c == Cardinality({t \in Thread : pc[t] \in {"decrement", "mark", "store"} /\ job[t].closure = f})
           d == Cardinality({t \in Thread : pc[t] = "enqueue" /\ job[t].closure = f})
           e == Jobs(outputQueue, f)
<1>1. a \in Nat /\ (a = 0 <=> ~Enqueuing(f))
  BY DEF Count, Enqueuing
<1>2. b \in Nat /\ (b = 0 <=> ~Queued(inputQueue, f))
  BY JobsCount DEF TypeQueues
<1>3. c \in Nat /\ (c = 0 <=> ~WorkedOn(f, CompileSteps))
  BY WorkCount DEF CompileSteps
<1>4. d \in Nat /\ (d = 0 <=> ~WorkedOn(f, {"enqueue"}))
  <2>1. {t \in Thread : pc[t] = "enqueue" /\ job[t].closure = f}
          = {t \in Thread : pc[t] \in {"enqueue"} /\ job[t].closure = f}
    OBVIOUS
  <2>. QED BY <2>1, WorkCount
<1>5. e \in Nat /\ (e = 0 <=> ~Queued(outputQueue, f))
  BY JobsCount DEF TypeQueues
<1>6. AwaitingMark(f) = a + b + c /\ AwaitingInstall(f) = d + e
  BY DEF AwaitingMark, AwaitingInstall
<1> HIDE DEF a, b, c, d, e
<1>7. AwaitingMark(f) \in Nat /\ (AwaitingMark(f) = 0 <=> a = 0 /\ b = 0 /\ c = 0)
  BY <1>1, <1>2, <1>3, <1>6
<1>8. AwaitingInstall(f) \in Nat /\ (AwaitingInstall(f) = 0 <=> d = 0 /\ e = 0)
  BY <1>4, <1>5, <1>6
<1>. QED
  BY <1>1, <1>2, <1>3, <1>4, <1>5, <1>7, <1>8 DEF MarkWait, InstallWait

-----------------------------------------------------------------------------
\* What Stop leaves in the queues when it drains them.
Drained ==
  /\ pc["main"] = "stop_drain" => outputQueue = <<>>
  /\ pc["main"] = "stopped" /\ Delay => outputQueue = <<>> /\ queueLength = 0

\* A step keeps it: once the compiler thread has exited nobody fills a queue.
LEMMA NextDrained ==
  ASSUME IInv, Drained, [Next]_vars PROVE Drained'
<1>0. TypeQueues /\ TypeThreads
  BY DEF IInv, Flow
<1>1. CASE pc["main"] \in {"stop_drain", "stopped"}
  <2>1. pc["compiler"] = "exited"
    BY <1>1 DEF IInv, Flow, Accounting, Stopping, StopSteps
  <2>2. ~Run
    BY <2>1 DEF Run, AwaitInput, CheckStop, CompileNext, Dequeue, Decrement, CheckMarkable,
       MarkForInstalling, EnqueueOutput
  <2>3. ~Choose /\ ~Debug
    BY <1>1 DEF Choose, Debug, ParallelRecompile, InstallRecompiledCode, OnStackReplacement,
       NotifyDeoptimized, TickFrame, Tick, Stop, PrepareForBreakPoints, CompileLazy,
       DeoptimizeAllFails, RemoveDebugInfo
  <2>4. ~CompileNext("main")
    BY <1>1 DEF CompileNext, Dequeue, Decrement, CheckMarkable, MarkForInstalling, EnqueueOutput
  <2>5. Continue => StopDrain
    BY <1>1, <2>4 DEF Continue, QueueLength, MarkInRecompileQueue, EnqueueInput, SignalInput,
       InstallOptimizedCode, InstallReturn, TickReturn, StopSignal, StopWait
  <2>6. CASE StopDrain
    <3>1. /\ UNCHANGED <<outputQueue, queueLength>> /\ outputQueue = <<>>
          /\ pc'["main"] = IF queueLength > 0 THEN "dequeue" ELSE "stopped"
      BY <1>0, <2>6 DEF StopDrain, queues, Goto, TypeThreads, Drained, Thread
    <3>2. queueLength \in Nat
      BY <1>0 DEF TypeQueues
    <3>. QED BY <3>1, <3>2 DEF Drained
  <2>7. CASE UNCHANGED vars
    BY <2>7 DEF vars, queues, Drained
  <2>. QED BY <2>2, <2>3, <2>5, <2>6, <2>7 DEF Next, Terminated
<1>2. CASE pc["main"] \notin {"stop_drain", "stopped"}
  <2>1. SUFFICES ASSUME pc'["main"] \in {"stop_drain", "stopped"} PROVE Drained'
    BY DEF Drained
  <2>2. ~Choose /\ ~Debug
    BY <1>0, <1>2, <2>1 DEF Choose, Debug, ParallelRecompile, InstallRecompiledCode,
       OnStackReplacement, NotifyDeoptimized, TickFrame, Tick, Stop, PrepareForBreakPoints,
       CompileLazy, DeoptimizeAllFails, RemoveDebugInfo, InstallCode, Abort, Goto, TypeThreads, Thread
  <2>3. ASSUME NEW t \in Thread, CompileNext(t) PROVE FALSE
    BY <1>0, <1>2, <2>1, <2>3 DEF CompileNext, Dequeue, Decrement, CheckMarkable, MarkForInstalling,
       StoreMark, EnqueueOutput, Abort, Goto, TypeThreads, Thread
  <2>4. ~Run
    BY <1>0, <1>2, <2>1, <2>3 DEF Run, AwaitInput, CheckStop, Goto, TypeThreads, Thread
  <2>5. CASE Continue
    <3>1. InstallReturn \/ StopWait
      BY <1>0, <1>2, <2>1, <2>3, <2>5 DEF Continue, QueueLength, MarkInRecompileQueue, StoreMark,
         EnqueueInput, SignalInput, InstallOptimizedCode, InstallCode, InstallFullCode, TickReturn,
         StopSignal, StopDrain, Abort, Goto, TypeThreads, Thread
    <3>2. CASE InstallReturn
      BY <1>0, <3>2 DEF InstallReturn, queues, Goto, TypeThreads, Thread, Drained
    <3>3. CASE StopWait
      BY <1>0, <3>3 DEF StopWait, Goto, TypeThreads, Thread, Drained
    <3>. QED BY <3>1, <3>2, <3>3
  <2>. QED BY <1>2, <2>1, <2>2, <2>4, <2>5 DEF Next, Terminated, vars
<1>. QED
  BY <1>1, <1>2

-----------------------------------------------------------------------------
\* The three invariants together.
LEMMA MarksInvariance == Spec => [](IInv /\ MarksOK /\ Drained)
<1>1. Init => IInv /\ MarksOK /\ Drained
  BY InitIInv DEF Init, MarksOK, Drained, Thread
<1>2. IInv /\ MarksOK /\ Drained /\ [Next]_vars => (IInv /\ MarksOK /\ Drained)'
  BY NextIInv, NextMarks, NextDrained DEF IInv, Flow
<1>. QED
  BY <1>1, <1>2, PTL DEF Spec

\* A closure whose code is the InRecompileQueue or the InstallRecompiledCode
\* builtin has a job in the queues or in CompileNext, whatever shares its
\* function and whatever the debugger does.
THEOREM MarksHaveJobs == Spec => []MarkedMeansPending
<1>1. IInv /\ MarksOK => MarkedMeansPending
  <2>. SUFFICES ASSUME IInv, MarksOK, Running, NEW f \in Closure
                PROVE  /\ code[f] = "InRecompileQueue" => AwaitingMark(f) > 0
                       /\ code[f] = "InstallRecompiledCode" => AwaitingInstall(f) > 0
    BY DEF MarkedMeansPending, Running
  <2>1. /\ AwaitingMark(f) \in Nat /\ (AwaitingMark(f) = 0 <=> ~MarkWait(f))
        /\ AwaitingInstall(f) \in Nat /\ (AwaitingInstall(f) = 0 <=> ~InstallWait(f))
    BY WaitCount DEF IInv, Flow
  <2>2. (code[f] = "InRecompileQueue" => MarkWait(f)) /\ (code[f] = "InstallRecompiledCode" => InstallWait(f))
    BY DEF MarksOK
  <2>. QED BY <2>1, <2>2
<1>. QED
  BY <1>1, MarksInvariance, PTL

\* With --parallel-recompilation-delay, Stop returns with empty queues and
\* with no closure left in a builtin that waits for a job.
THEOREM StopDrains == Spec => []DrainedOnStop
<1>1. IInv /\ MarksOK /\ Drained => DrainedOnStop
  <2>. SUFFICES ASSUME IInv, MarksOK, Drained, pc["main"] = "stopped", Delay
                PROVE  /\ inputQueue = <<>> /\ outputQueue = <<>>
                       /\ \A f \in Closure : code[f] \notin {"InRecompileQueue", "InstallRecompiledCode"}
    BY DEF DrainedOnStop
  <2>1. outputQueue = <<>> /\ queueLength = 0 /\ pc["compiler"] = "exited"
    BY DEF Drained, IInv, Flow, Accounting, Stopping, StopSteps
  <2>2. inputQueue \in Seq(Job) /\ Len(inputQueue) \in Nat
    BY DEF IInv, Flow, TypeQueues
  <2>3. inputQueue = <<>>
    <3>1. PICK x, y, z \in {0, 1} : Parts(x, y, z)
      BY PartsExist
    <3>2. 0 = Len(inputQueue) + x + y + z
      BY <2>1, <3>1, LengthParts DEF IInv, Flow
    <3>3. Len(inputQueue) = 0
      BY <2>2, <3>2
    <3>. QED BY <2>2, <3>3
  <2>4. \A f \in Closure : ~MarkWait(f) /\ ~InstallWait(f)
    <3>1. DOMAIN inputQueue = {} /\ DOMAIN outputQueue = {}
      BY <2>1, <2>3
    <3>2. \A t \in Thread : pc[t] \notin CompileSteps \cup {"enqueue"}
      BY <2>1 DEF Thread, CompileSteps
    <3>. QED BY <3>1, <3>2 DEF MarkWait, InstallWait, Enqueuing, Queued, WorkedOn
  <2>. QED BY <2>1, <2>3, <2>4 DEF MarksOK, Running
<1>. QED
  BY <1>1, MarksInvariance, PTL

-----------------------------------------------------------------------------
(***************************************************************************)
(* One closure per function and no debugger: nobody but a job takes the    *)
(* mark off a closure.  On-stack replacement would, but it needs patched   *)
(* back edges, and the back edges of a marked closure are unpatched before *)
(* JavaScript runs again (Unpatched).                                      *)
(***************************************************************************)
OneClosurePerFunction == \A f, g \in Closure : SharedOf[f] = SharedOf[g] => f = g

QueueSteps == {"queue_length", "queue_mark", "queue_enqueue", "queue_signal"}

Matched == \A f \in Closure : /\ MarkWait(f) => code[f] = "InRecompileQueue"
                              /\ InstallWait(f) => code[f] = "InstallRecompiledCode"

\* No closure has two jobs.
Single ==
  /\ Once(inputQueue) /\ Once(outputQueue)
  /\ \A f \in Closure : /\ ~(Enqueuing(f) /\ Queued(inputQueue, f))
                        /\ ~(Enqueuing(f) /\ WorkedOn(f, CompileSteps))
                        /\ ~(Queued(inputQueue, f) /\ WorkedOn(f, CompileSteps))
                        /\ ~(WorkedOn(f, {"enqueue"}) /\ Queued(outputQueue, f))

Called == pc["main"] \in {"queue_length", "queue_mark"} => code[function] = "ParallelRecompile"

Unpatched ==
  \A f \in Closure : code[f] \in WaitMarks /\ patched[SharedOf[f]] =>
    pc["main"] \in {"queue_enqueue", "queue_signal"} /\ function = f

Plain == /\ \A s \in Shared : sharedCode[s] = "Full"
         /\ \A f \in Closure : ~Stray(f)

PInv == Running /\ Matched /\ Single /\ Called /\ Unpatched /\ Plain

-----------------------------------------------------------------------------
\* Only one thread is in CompileNext.
LEMMA OneWorker ==
  ASSUME IInv, Running, NEW t \in Thread, NEW u \in Thread,
         pc[t] \in CompileNextSteps, pc[u] \in CompileNextSteps
  PROVE  t = u
<1>1. pc["main"] \in CompileNextSteps => pc["compiler"] = "exited"
  BY DEF IInv, Flow, Accounting, Stopping, StopSteps, CompileNextSteps, Running
<1>. QED
  BY <1>1 DEF Thread, CompileNextSteps

\* No ASSERT and no CHECK fails in such a state.
LEMMA NoAbort ==
  ASSUME IInv, PInv, [NoDebuggerNext]_vars PROVE Running'
<1>0. TypeFunctions /\ TypeQueues /\ TypeThreads /\ pc["main"] # "aborted" /\ pc["compiler"] # "aborted"
  BY DEF IInv, Flow, PInv, Running, TypeThreads
<1>1. \A f \in Closure : ~Stray(f) /\ sharedCode[SharedOf[f]] = "Full"
  BY SharedOfAssumption DEF PInv, Plain
<1>2. ASSUME NEW f \in Closure, NEW c, InstallCode(f, c) PROVE UNCHANGED pc
  BY <1>1, <1>2 DEF InstallCode
<1>3. ASSUME Choose PROVE Running'
  <2>1. ASSUME NEW f \in Closure, ParallelRecompile(f) PROVE Running'
    <3>1. UNCHANGED pc \/ Goto("main", "queue_length")
      BY <1>2, <2>1 DEF ParallelRecompile
    <3>. QED BY <1>0, <3>1 DEF Goto, TypeThreads, Running, Thread
  <2>2. ASSUME NEW f \in Closure, OnStackReplacement(f) PROVE Running'
    <3>1. UNCHANGED pc
      BY <1>2, <2>2 DEF OnStackReplacement
    <3>. QED BY <1>0, <3>1 DEF Running
  <2>3. ASSUME NEW f \in Closure, InstallRecompiledCode(f) \/ NotifyDeoptimized(f) \/ TickFrame(f)
        PROVE  Running'
    BY <1>0, <2>3 DEF InstallRecompiledCode, NotifyDeoptimized, TickFrame, Goto, TypeThreads,
       Running, Thread
  <2>4. CASE Tick \/ Stop
    BY <1>0, <2>4 DEF Tick, Stop, Goto, TypeThreads, Running, Thread
  <2>. QED BY <1>3, <2>1, <2>2, <2>3, <2>4 DEF Choose
<1>4. ASSUME NEW t \in Thread, CompileNext(t) PROVE Running'
  <2>1. CASE CheckMarkable(t)
    <3>1. job[t].closure \in Closure /\ WorkedOn(job[t].closure, CompileSteps)
      BY <1>0, <2>1 DEF CheckMarkable, TypeThreads, Job, WorkedOn, CompileSteps
    <3>2. code[job[t].closure] = "InRecompileQueue"
      BY <3>1 DEF PInv, Matched, MarkWait
    <3>3. Markable(job[t].closure)
      BY <3>2, OptCodeAssumption DEF Markable, IsOptimized
    <3>. QED BY <1>0, <2>1, <3>3 DEF CheckMarkable, Goto, TypeThreads, Running, Thread
  <2>2. CASE Dequeue(t) \/ Decrement(t) \/ MarkForInstalling(t) \/ EnqueueOutput(t)
    BY <1>0, <2>2 DEF Dequeue, Decrement, MarkForInstalling, StoreMark, EnqueueOutput, Goto,
       TypeThreads, Running, Thread
  <2>. QED BY <1>4, <2>1, <2>2 DEF CompileNext
<1>5. ASSUME Continue PROVE Running'
  <2>1. CASE MarkInRecompileQueue
    <3>1. code[function] = "ParallelRecompile"
      BY <2>1 DEF MarkInRecompileQueue, PInv, Called
    <3>2. Markable(function)
      BY <3>1, OptCodeAssumption DEF Markable, IsOptimized
    <3>. QED BY <1>0, <2>1, <3>2 DEF MarkInRecompileQueue, StoreMark, Goto, TypeThreads, Running, Thread
  <2>2. CASE InstallOptimizedCode
    <3>1. Head(outputQueue).closure \in Closure
      BY <1>0, <2>2, TakeHead DEF InstallOptimizedCode, TypeQueues, Job
    <3>2. UNCHANGED pc
      BY <1>1, <1>2, <2>2, <3>1 DEF InstallOptimizedCode
    <3>. QED BY <1>0, <3>2 DEF Running
  <2>3. CASE QueueLength \/ EnqueueInput \/ SignalInput \/ InstallReturn \/ TickReturn \/ StopSignal
             \/ StopWait \/ StopDrain
    BY <1>0, <2>3 DEF QueueLength, EnqueueInput, SignalInput, InstallReturn, TickReturn, StopSignal,
       StopWait, StopDrain, Goto, TypeThreads, Running, Thread
  <2>4. CASE CompileNext("main")
    BY <1>4, <2>4 DEF Thread
  <2>. QED BY <1>5, <2>1, <2>2, <2>3, <2>4 DEF Continue
<1>6. ASSUME Run PROVE Running'
  <2>1. CASE AwaitInput \/ CheckStop
    BY <1>0, <2>1 DEF AwaitInput, CheckStop, Goto, TypeThreads, Running, Thread
  <2>. QED BY <1>4, <1>6, <2>1 DEF Run, Thread
<1>7. CASE UNCHANGED vars
  BY <1>0, <1>7 DEF vars, Running
<1>. QED
  BY <1>3, <1>5, <1>6, <1>7 DEF NoDebuggerNext, Terminated

\* The closure of the runtime call is on its way, or there is none.
MainKept ==
  \/ pc'["main"] = pc["main"] /\ function' = function
  \/ pc["main"] \notin QueueSteps /\ pc'["main"] \notin QueueSteps

\* What such a step keeps, if it gives no new mark.
LEMMA CalledKept ==
  ASSUME Called, Unpatched, TypeThreads, MainKept, UNCHANGED patched,
         \A f \in Closure : code'[f] \in WaitMarks => code[f] \in WaitMarks,
         pc["main"] \in QueueSteps =>
           \A f \in Closure : code[f] = "ParallelRecompile" => code'[f] = "ParallelRecompile"
  PROVE  Called' /\ Unpatched'
<1>1. Called'
  BY DEF Called, MainKept, QueueSteps, TypeThreads
<1>2. Unpatched'
  BY DEF Unpatched, MainKept, QueueSteps
<1>. QED
  BY <1>1, <1>2

\* CompileNext is such a step.
LEMMA CompileNextMain ==
  ASSUME TypeThreads, NEW t \in Thread, CompileNext(t), Running'
  PROVE  MainKept
<1>1. ~Abort
  BY DEF Abort, Thread, Running
<1>2. \E step \in CompileNextSteps \cup {"install", "wait"} : Goto(t, step)
  BY <1>1 DEF CompileNext, Dequeue, Decrement, CheckMarkable, MarkForInstalling, StoreMark,
     EnqueueOutput, CompileNextSteps
<1>3. pc[t] \in CompileNextSteps /\ function' = function
  BY <1>1 DEF CompileNext, Dequeue, Decrement, CheckMarkable, MarkForInstalling, StoreMark,
     EnqueueOutput, CompileNextSteps
<1>. QED
  BY <1>2, <1>3 DEF MainKept, Goto, TypeThreads, Thread, QueueSteps, CompileNextSteps

\* Steps that touch no job and no mark.
LEMMA KeptMatched ==
  ASSUME Matched, Single, JobsKept, UNCHANGED <<inputQueue, outputQueue>>,
         \A f \in Closure : code[f] \in WaitMarks => code'[f] = code[f]
  PROVE  Matched' /\ Single'
<1>1. Single'
  BY DEF Single, JobsKept, Once
<1>2. Matched'
  BY DEF Matched, JobsKept, MarkWait, InstallWait, WaitMarks
<1>. QED
  BY <1>1, <1>2

\* ReplaceCode keeps the list exact.
LEMMA ReplaceUnstray ==
  ASSUME TypeFunctions, NEW f \in Closure, NEW c, ReplaceCode(f, c),
         \A g \in Closure : ~Stray(g)
  PROVE  \A g \in Closure : ~Stray(g)'
<1>1. \A g \in Closure : code'[g] = IF g = f THEN c ELSE code[g]
  BY DEF ReplaceCode, TypeFunctions
<1>2. \A g \in Closure : g \in optimized => code[g] \in OptCode
  BY DEF Stray, IsOptimized
<1>3. \A g \in Closure : g \in optimized' => code'[g] \in OptCode
  BY <1>1, <1>2 DEF ReplaceCode, IsOptimized
<1>. QED
  BY <1>3 DEF Stray, IsOptimized

\* A store of a mark keeps it exact where the closure is not optimized.
LEMMA StoreUnstray ==
  ASSUME TypeFunctions, NEW f \in Closure, ~IsOptimized(f), NEW c,
         code' = [code EXCEPT ![f] = c], UNCHANGED optimized,
         \A g \in Closure : ~Stray(g)
  PROVE  \A g \in Closure : ~Stray(g)'
<1>1. \A g \in Closure : code'[g] = IF g = f THEN c ELSE code[g]
  BY DEF TypeFunctions
<1>2. f \notin optimized
  BY DEF Stray
<1>. QED
  BY <1>1, <1>2 DEF Stray, IsOptimized

\* What JavaScript does.
LEMMA ChoosePInv ==
  ASSUME OneClosurePerFunction, IInv, PInv, Choose, Running' PROVE PInv'
<1>0. /\ TypeFunctions /\ TypeQueues /\ TypeThreads /\ Matched /\ Single /\ Called /\ Unpatched
      /\ Plain /\ \A f \in Closure : SharedOf[f] \in Shared
  BY SharedOfAssumption DEF IInv, Flow, PInv
<1>1. JobsKept /\ NoNewMark
  BY <1>0, ChooseQuiet DEF Running
<1>2. /\ pc["main"] \in {"js", "frames"} /\ UNCHANGED <<inputQueue, outputQueue, sharedCode>>
  BY DEF Choose, ParallelRecompile, InstallRecompiledCode, OnStackReplacement, NotifyDeoptimized,
     TickFrame, Tick, Stop, queues, functions
<1>3. \A f \in Closure : ~(code[f] \in WaitMarks /\ patched[SharedOf[f]])
  BY <1>0, <1>2 DEF Unpatched
<1>4. SUFFICES /\ \A f \in Closure : code[f] \in WaitMarks => code'[f] = code[f]
               /\ Called' /\ Unpatched' /\ \A f \in Closure : ~Stray(f)'
  BY <1>0, <1>1, <1>2, KeptMatched DEF PInv, Plain
<1>5. \A f \in Closure : ~Stray(f)
  BY <1>0 DEF Plain
<1>7. ASSUME NEW f \in Closure, NEW c, ReplaceCode(f, c), code[f] \notin WaitMarks
      PROVE  /\ \A g \in Closure : code[g] \in WaitMarks => code'[g] = code[g]
             /\ \A g \in Closure : ~Stray(g)'
  <2>1. \A g \in Closure : ~Stray(g)'
    BY <1>0, <1>5, <1>7, ReplaceUnstray
  <2>2. \A g \in Closure : code[g] \in WaitMarks => code'[g] = code[g]
    BY <1>0, <1>7 DEF ReplaceCode, TypeFunctions
  <2>. QED BY <2>1, <2>2
<1>8. ASSUME NEW s, \/ UNCHANGED patched \/ RevertInterruptCode(s),
             pc'["main"] \notin {"queue_mark", "queue_length"}
      PROVE  Called' /\ Unpatched'
  <2>1. \A t \in Shared : patched'[t] => patched[t]
    BY <1>0, <1>8 DEF RevertInterruptCode, TypeFunctions
  <2>2. \A f \in Closure : ~(code'[f] \in WaitMarks /\ patched'[SharedOf[f]])
    BY <1>0, <1>1, <1>3, <2>1 DEF NoNewMark
  <2>. QED BY <1>8, <2>2 DEF Called, Unpatched
<1>9. ASSUME NEW f \in Closure, ParallelRecompile(f)
      PROVE  /\ \A g \in Closure : code[g] \in WaitMarks => code'[g] = code[g]
             /\ Called' /\ Unpatched' /\ \A g \in Closure : ~Stray(g)'
  <2>1. code[f] = "ParallelRecompile" /\ code[f] \notin WaitMarks
    BY <1>9 DEF ParallelRecompile, WaitMarks
  <2>2. \/ UNCHANGED <<code, optimized>> \/ \E c : ReplaceCode(f, c)
    <3>1. ASSUME NEW c, InstallCode(f, c) PROVE ReplaceCode(f, c)
      BY <1>5, <3>1 DEF InstallCode
    <3>. QED BY <1>9, <3>1 DEF ParallelRecompile, InstallFullCode
  <2>3. /\ \A g \in Closure : code[g] \in WaitMarks => code'[g] = code[g]
        /\ \A g \in Closure : ~Stray(g)'
    BY <1>5, <1>7, <2>1, <2>2 DEF Stray, IsOptimized
  <2>4. Called' /\ Unpatched'
    <3>1. CASE UNCHANGED <<code, patched>> /\ Goto("main", "queue_length") /\ function' = f
      BY <1>0, <1>3, <2>1, <3>1 DEF Called, Unpatched, Goto, TypeThreads
    <3>2. CASE UNCHANGED pc /\ (UNCHANGED patched \/ RevertInterruptCode(SharedOf[f]))
      BY <1>2, <1>8, <3>2
    <3>3. ASSUME NEW c, InstallCode(f, c) PROVE UNCHANGED pc
      BY <1>5, <3>3 DEF InstallCode
    <3>. QED BY <1>9, <3>1, <3>2, <3>3 DEF ParallelRecompile
  <2>. QED BY <2>3, <2>4
<1>10. ASSUME NEW f \in Closure, OnStackReplacement(f)
      PROVE  /\ \A g \in Closure : code[g] \in WaitMarks => code'[g] = code[g]
             /\ Called' /\ Unpatched' /\ \A g \in Closure : ~Stray(g)'
  <2>1. code[f] \notin WaitMarks
    BY <1>3, <1>10 DEF OnStackReplacement
  <2>2. ASSUME NEW c, InstallCode(f, c) PROVE ReplaceCode(f, c) /\ UNCHANGED pc
    BY <1>5, <2>2 DEF InstallCode
  <2>3. \/ UNCHANGED <<code, optimized>> \/ \E c : ReplaceCode(f, c)
    BY <1>10, <2>2 DEF OnStackReplacement, InstallFullCode
  <2>4. RevertInterruptCode(SharedOf[f]) /\ UNCHANGED pc
    BY <1>10, <2>2 DEF OnStackReplacement
  <2>5. /\ \A g \in Closure : code[g] \in WaitMarks => code'[g] = code[g]
        /\ \A g \in Closure : ~Stray(g)'
    BY <1>5, <1>7, <2>1, <2>3 DEF Stray, IsOptimized
  <2>. QED BY <1>2, <1>8, <2>4, <2>5
<1>11. ASSUME NEW f \in Closure, NotifyDeoptimized(f)
      PROVE  /\ \A g \in Closure : code[g] \in WaitMarks => code'[g] = code[g]
             /\ Called' /\ Unpatched' /\ \A g \in Closure : ~Stray(g)'
  <2>1. PICK fs \in SUBSET Closure : Deoptimize(fs) /\ \A g \in fs : IsOptimized(g)
    <3>1. CASE Deoptimize({f})
      BY <1>11, <3>1 DEF NotifyDeoptimized
    <3>2. CASE Deoptimize({g \in optimized : code[g] = code[f]})
      <4>1. {g \in optimized : code[g] = code[f]} \in SUBSET Closure
        BY <1>0 DEF TypeFunctions
      <4>. QED BY <1>11, <3>2, <4>1 DEF NotifyDeoptimized, IsOptimized
    <3>. QED BY <1>11, <3>1, <3>2 DEF NotifyDeoptimized
  <2>2. \A g \in Closure : code'[g] = IF g \in fs THEN sharedCode[SharedOf[g]] ELSE code[g]
    BY <2>1 DEF Deoptimize
  <2>3. \A g \in fs : code[g] \notin WaitMarks
    BY <2>1, OptCodeAssumption DEF IsOptimized, WaitMarks
  <2>4. \A g \in Closure : ~Stray(g)'
    BY <1>5, <2>1, <2>2 DEF Deoptimize, Stray, IsOptimized
  <2>5. UNCHANGED <<pc, patched>>
    BY <1>11 DEF NotifyDeoptimized
  <2>. QED BY <1>2, <1>8, <2>2, <2>3, <2>4, <2>5
<1>12. ASSUME NEW f \in Closure, TickFrame(f)
      PROVE  /\ \A g \in Closure : code[g] \in WaitMarks => code'[g] = code[g]
             /\ Called' /\ Unpatched' /\ \A g \in Closure : ~Stray(g)'
  <2>1. UNCHANGED <<pc, optimized>>
    BY <1>12 DEF TickFrame
  <2>2. CASE UNCHANGED code /\ patched' = [patched EXCEPT ![SharedOf[f]] = TRUE]
               /\ (code[f] = "ParallelRecompile" \/ IsOptimized(f))
    <3>1. code[f] \notin WaitMarks
      BY <2>2, OptCodeAssumption DEF IsOptimized, WaitMarks
    <3>2. \A g \in Closure : patched'[SharedOf[g]] => g = f \/ patched[SharedOf[g]]
      BY <1>0, <2>2 DEF OneClosurePerFunction, TypeFunctions
    <3>. QED BY <1>2, <1>3, <1>5, <2>1, <2>2, <3>1, <3>2 DEF Called, Unpatched, Stray, IsOptimized
  <2>3. CASE UNCHANGED <<code, patched>>
    BY <1>2, <1>5, <1>8, <2>1, <2>3 DEF Stray, IsOptimized
  <2>4. CASE UNCHANGED patched /\ code[f] = "Full" /\ code' = [code EXCEPT ![f] = "ParallelRecompile"]
    <3>1. ~IsOptimized(f) /\ code[f] \notin WaitMarks
      BY <2>4, OptCodeAssumption DEF IsOptimized, WaitMarks
    <3>2. \A g \in Closure : ~Stray(g)'
      BY <1>0, <1>5, <2>1, <2>4, <3>1, StoreUnstray
    <3>3. \A g \in Closure : code[g] \in WaitMarks => code'[g] = code[g]
      BY <1>0, <2>4, <3>1 DEF TypeFunctions
    <3>. QED BY <1>2, <1>8, <2>1, <2>4, <3>2, <3>3
  <2>. QED BY <1>12, <2>2, <2>3, <2>4 DEF TickFrame
<1>13. ASSUME \/ Tick \/ Stop \/ \E f \in Closure : InstallRecompiledCode(f)
      PROVE  /\ \A g \in Closure : code[g] \in WaitMarks => code'[g] = code[g]
             /\ Called' /\ Unpatched' /\ \A g \in Closure : ~Stray(g)'
  <2>1. UNCHANGED <<code, patched, optimized>> /\ pc'["main"] \in {"install", "stop_signal"}
    BY <1>0, <1>13 DEF Tick, Stop, InstallRecompiledCode, functions, Goto, TypeThreads, Thread
  <2>. QED BY <1>5, <1>8, <2>1 DEF Stray, IsOptimized
<1>. QED
  BY <1>9, <1>10, <1>11, <1>12, <1>13 DEF Choose

\* What CompileNext does to it, on either thread.
LEMMA JobPInv ==
  ASSUME IInv, PInv, NEW t \in Thread, CompileNext(t), Running' PROVE PInv'
<1>0. /\ TypeFunctions /\ TypeQueues /\ TypeThreads /\ Matched /\ Single /\ Called /\ Unpatched
      /\ Plain /\ \A f \in Closure : ~Stray(f)
  BY DEF IInv, Flow, PInv, Plain
<1>1. MainKept /\ UNCHANGED <<sharedCode, patched, optimized>>
  BY <1>0, CompileNextMain DEF CompileNext, Dequeue, Decrement, CheckMarkable, MarkForInstalling,
     StoreMark, EnqueueOutput, functions, Abort, Running, Thread
<1>2. ASSUME UNCHANGED code, Matched', Single' PROVE PInv'
  <2>1. Called' /\ Unpatched'
    BY <1>0, <1>1, <1>2, CalledKept
  <2>. QED BY <1>0, <1>1, <1>2, <2>1 DEF PInv, Plain, Stray, IsOptimized
<1>3. CASE Dequeue(t)
  <2>1. PICK h : h = Head(inputQueue).closure
    OBVIOUS
  <2>2. /\ h \in Closure /\ UNCHANGED <<code, outputQueue>>
        /\ Once(inputQueue)' /\ ~Queued(inputQueue, h)'
        /\ \A f \in Closure :
              /\ Enqueuing(f)' <=> Enqueuing(f)
              /\ Queued(inputQueue, f) <=> f = h \/ Queued(inputQueue, f)'
              /\ WorkedOn(f, CompileSteps)' <=> WorkedOn(f, CompileSteps) \/ f = h
              /\ WorkedOn(f, {"enqueue"})' <=> WorkedOn(f, {"enqueue"})
              /\ Queued(outputQueue, f)' <=> Queued(outputQueue, f)
    BY <1>0, <1>3, <2>1, DequeueJobs DEF Single, functions
  <2>3. Single'
    BY <1>0, <2>2 DEF Single, Once
  <2>4. Matched'
    BY <1>0, <2>2 DEF Matched, MarkWait, InstallWait
  <2>. QED BY <1>2, <2>2, <2>3, <2>4
<1>4. CASE Decrement(t) \/ CheckMarkable(t)
  <2>1. JobsKept /\ UNCHANGED <<functions, inputQueue, outputQueue>>
    BY <1>0, <1>4, CompileJobs DEF Running
  <2>2. Matched' /\ Single'
    BY <1>0, <2>1, KeptMatched DEF functions
  <2>. QED BY <1>2, <2>1, <2>2 DEF functions
<1>5. CASE MarkForInstalling(t)
  <2>1. PICK h : h = job[t].closure
    OBVIOUS
  <2>2. /\ h \in Closure /\ WorkedOn(h, CompileSteps)
        /\ code' = [code EXCEPT ![h] = "InstallRecompiledCode"]
        /\ UNCHANGED <<inputQueue, outputQueue>>
        /\ \A f \in Closure :
              /\ Enqueuing(f)' <=> Enqueuing(f)
              /\ WorkedOn(f, CompileSteps) <=> WorkedOn(f, CompileSteps)' \/ f = h
              /\ WorkedOn(f, {"enqueue"})' <=> WorkedOn(f, {"enqueue"}) \/ f = h
              /\ Queued(inputQueue, f)' <=> Queued(inputQueue, f)
              /\ Queued(outputQueue, f)' <=> Queued(outputQueue, f)
    BY <1>0, <1>5, <2>1, StoreJobs DEF Queued
  <2>3. ~WorkedOn(h, CompileSteps)'
    <3>1. pc[t] = "store" /\ Goto(t, "enqueue")
      BY <1>5 DEF MarkForInstalling, StoreMark
    <3>2. \A u \in Thread : pc[u] \in CompileSteps => u = t
      BY <3>1, OneWorker DEF PInv, CompileSteps, CompileNextSteps
    <3>3. \A u \in Thread : pc'[u] = IF u = t THEN "enqueue" ELSE pc[u]
      BY <1>0, <3>1 DEF Goto, TypeThreads
    <3>. QED BY <3>2, <3>3 DEF WorkedOn, CompileSteps
  <2>4. code[h] = "InRecompileQueue"
    BY <1>0, <2>2 DEF Matched, MarkWait
  <2>5. \A f \in Closure : code'[f] = IF f = h THEN "InstallRecompiledCode" ELSE code[f]
    BY <1>0, <2>2 DEF TypeFunctions
  <2>6. ~InstallWait(h)
    BY <1>0, <2>2, <2>4 DEF Matched
  <2>7. Single'
    <3>1. Once(inputQueue)' /\ Once(outputQueue)'
      BY <1>0, <2>2 DEF Single, Once
    <3>. QED BY <1>0, <2>2, <2>6, <3>1 DEF Single, InstallWait
  <2>8. Matched'
    <3>1. ~MarkWait(h)'
      BY <1>0, <2>2, <2>3 DEF Single, MarkWait
    <3>. QED BY <1>0, <2>2, <2>5, <3>1 DEF Matched, MarkWait, InstallWait
  <2>9. Called' /\ Unpatched'
    BY <1>0, <1>1, <2>4, <2>5, CalledKept DEF WaitMarks
  <2>10. \A f \in Closure : ~Stray(f)'
    <3>1. ~IsOptimized(h)
      BY <2>4, OptCodeAssumption DEF IsOptimized
    <3>. QED BY <1>0, <1>1, <2>2, <3>1, StoreUnstray
  <2>. QED BY <1>0, <1>1, <2>7, <2>8, <2>9, <2>10 DEF PInv, Plain
<1>6. CASE EnqueueOutput(t)
  <2>1. PICK h : h = job[t].closure
    OBVIOUS
  <2>2. /\ h \in Closure /\ WorkedOn(h, {"enqueue"}) /\ UNCHANGED <<code, inputQueue>>
        /\ Once(outputQueue) /\ ~Queued(outputQueue, h) => Once(outputQueue)'
        /\ \A f \in Closure :
              /\ Enqueuing(f)' <=> Enqueuing(f)
              /\ Queued(inputQueue, f)' <=> Queued(inputQueue, f)
              /\ WorkedOn(f, CompileSteps)' <=> WorkedOn(f, CompileSteps)
              /\ WorkedOn(f, {"enqueue"}) <=> WorkedOn(f, {"enqueue"})' \/ f = h
              /\ Queued(outputQueue, f)' <=> Queued(outputQueue, f) \/ f = h
    BY <1>0, <1>6, <2>1, EnqueueOutputJobs DEF functions, Queued
  <2>3. ~WorkedOn(h, {"enqueue"})'
    <3>1. pc[t] = "enqueue" /\ \E step \in {"install", "wait"} : Goto(t, step)
      BY <1>6 DEF EnqueueOutput
    <3>2. \A u \in Thread : pc[u] = "enqueue" => u = t
      BY <3>1, OneWorker DEF PInv, CompileNextSteps
    <3>3. \A u \in Thread : u # t => pc'[u] = pc[u]
      BY <1>0, <3>1 DEF Goto, TypeThreads
    <3>4. pc'[t] # "enqueue"
      BY <1>0, <3>1 DEF Goto, TypeThreads
    <3>. QED BY <3>2, <3>3, <3>4 DEF WorkedOn
  <2>4. Single'
    <3>1. Once(inputQueue)' /\ Once(outputQueue)'
      BY <1>0, <2>2 DEF Single, Once
    <3>. QED BY <1>0, <2>2, <2>3, <3>1 DEF Single
  <2>5. Matched'
    BY <1>0, <2>2 DEF Matched, MarkWait, InstallWait
  <2>. QED BY <1>2, <2>2, <2>4, <2>5
<1>. QED
  BY <1>3, <1>4, <1>5, <1>6 DEF CompileNext

\* The rest of what the two threads do.
LEMMA ContinuePInv ==
  ASSUME IInv, PInv, Continue \/ Run, Running' PROVE PInv'
<1>0. /\ TypeFunctions /\ TypeQueues /\ TypeThreads /\ Matched /\ Single /\ Called /\ Unpatched
      /\ Plain /\ \A f \in Closure : ~Stray(f)
  BY DEF IInv, Flow, PInv, Plain
<1>1. "main" \in Thread /\ "compiler" \in Thread /\ ~Abort
  BY DEF Thread, Abort, Running
<1>2. ASSUME UNCHANGED <<code, sharedCode, optimized>>, Matched', Single', Called', Unpatched'
      PROVE  PInv'
  BY <1>0, <1>2 DEF PInv, Plain, Stray, IsOptimized
<1>3. CASE CompileNext("main") \/ CompileNext("compiler")
  BY <1>1, <1>3, JobPInv
<1>4. CASE \/ QueueLength \/ SignalInput \/ InstallReturn \/ TickReturn
           \/ StopSignal \/ StopWait \/ StopDrain \/ AwaitInput \/ CheckStop
  <2>1. JobsKept
    BY <1>0, <1>4, ContinueQuiet
  <2>2. UNCHANGED <<code, sharedCode, optimized, inputQueue, outputQueue>>
    BY <1>4 DEF QueueLength, SignalInput, InstallReturn, TickReturn, StopSignal, StopWait,
       StopDrain, AwaitInput, CheckStop, functions, queues
  <2>3. Matched' /\ Single'
    BY <1>0, <2>1, <2>2, KeptMatched
  <2>4. CASE QueueLength
    <3>1. pc["main"] = "queue_length" /\ pc'["main"] = "queue_mark" /\ UNCHANGED <<function, patched>>
      BY <1>0, <1>1, <2>4 DEF QueueLength, functions, Goto, TypeThreads
    <3>2. Called' /\ Unpatched'
      BY <1>0, <2>2, <3>1 DEF Called, Unpatched
    <3>. QED BY <1>2, <2>2, <2>3, <3>2
  <2>5. CASE SignalInput
    <3>1. /\ pc["main"] = "queue_signal" /\ pc'["main"] = "js" /\ function \in Closure
          /\ RevertInterruptCode(SharedOf[function])
      BY <1>0, <1>1, <2>5 DEF SignalInput, Goto, TypeThreads
    <3>2. \A s \in Shared : patched'[s] => patched[s] /\ s # SharedOf[function]
      BY <1>0, <3>1, SharedOfAssumption DEF RevertInterruptCode, TypeFunctions
    <3>3. \A f \in Closure : ~(code'[f] \in WaitMarks /\ patched'[SharedOf[f]])
      BY <1>0, <2>2, <3>2, SharedOfAssumption DEF Unpatched
    <3>. QED BY <1>2, <2>2, <2>3, <3>1, <3>3 DEF Called, Unpatched
  <2>6. CASE InstallReturn \/ TickReturn \/ StopSignal \/ StopWait \/ StopDrain
    <3>1. MainKept /\ UNCHANGED patched
      BY <1>0, <1>1, <2>6 DEF InstallReturn, TickReturn, StopSignal, StopWait, StopDrain,
         functions, Goto, TypeThreads, MainKept, QueueSteps
    <3>2. Called' /\ Unpatched'
      BY <1>0, <2>2, <3>1, CalledKept
    <3>. QED BY <1>2, <2>2, <2>3, <3>2
  <2>7. CASE AwaitInput \/ CheckStop
    <3>1. MainKept /\ UNCHANGED patched
      BY <1>0, <1>1, <2>7 DEF AwaitInput, CheckStop, functions, Goto, TypeThreads, MainKept
    <3>2. Called' /\ Unpatched'
      BY <1>0, <2>2, <3>1, CalledKept
    <3>. QED BY <1>2, <2>2, <2>3, <3>2
  <2>. QED BY <1>4, <2>4, <2>5, <2>6, <2>7
<1>5. CASE MarkInRecompileQueue
  <2>1. /\ function \in Closure /\ function' = function
        /\ code' = [code EXCEPT ![function] = "InRecompileQueue"]
        /\ UNCHANGED <<sharedCode, patched, optimized, inputQueue, outputQueue>>
        /\ pc["main"] = "queue_mark" /\ pc'["main"] = "queue_enqueue"
        /\ \A f \in Closure :
              /\ Enqueuing(f)' <=> f = function
              /\ Queued(inputQueue, f)' <=> Queued(inputQueue, f)
              /\ Queued(outputQueue, f)' <=> Queued(outputQueue, f)
              /\ WorkedOn(f, CompileSteps)' <=> WorkedOn(f, CompileSteps)
              /\ WorkedOn(f, {"enqueue"})' <=> WorkedOn(f, {"enqueue"})
    BY <1>0, <1>5, MarkJobs DEF Running, Queued
  <2>2. code[function] = "ParallelRecompile"
    BY <1>0, <2>1 DEF Called
  <2>3. ~MarkWait(function) /\ ~InstallWait(function)
    BY <1>0, <2>1, <2>2 DEF Matched
  <2>4. \A f \in Closure : code'[f] = IF f = function THEN "InRecompileQueue" ELSE code[f]
    BY <1>0, <2>1 DEF TypeFunctions
  <2>5. Single'
    <3>1. Once(inputQueue)' /\ Once(outputQueue)'
      BY <1>0, <2>1 DEF Single, Once
    <3>. QED BY <1>0, <2>1, <2>3, <3>1 DEF Single, MarkWait
  <2>6. Matched'
    <3>1. \A f \in Closure : f # function => (MarkWait(f)' => MarkWait(f))
      BY <2>1 DEF MarkWait
    <3>2. \A f \in Closure : InstallWait(f)' <=> InstallWait(f)
      BY <2>1 DEF InstallWait
    <3>. QED BY <1>0, <2>3, <2>4, <3>1, <3>2 DEF Matched
  <2>7. Called' /\ Unpatched'
    BY <1>0, <2>1, <2>4 DEF Called, Unpatched
  <2>8. \A f \in Closure : ~Stray(f)'
    <3>1. ~IsOptimized(function)
      BY <2>2, OptCodeAssumption DEF IsOptimized
    <3>. QED BY <1>0, <2>1, <3>1, StoreUnstray
  <2>. QED BY <1>0, <2>1, <2>5, <2>6, <2>7, <2>8 DEF PInv, Plain
<1>6. CASE EnqueueInput
  <2>1. /\ function \in Closure /\ function' = function
        /\ UNCHANGED <<code, sharedCode, patched, optimized, outputQueue>>
        /\ pc["main"] = "queue_enqueue" /\ pc'["main"] = "queue_signal"
        /\ Once(inputQueue) /\ ~Queued(inputQueue, function) => Once(inputQueue)'
        /\ \A f \in Closure :
              /\ (Enqueuing(f) <=> f = function) /\ ~Enqueuing(f)'
              /\ Queued(inputQueue, f)' <=> Queued(inputQueue, f) \/ f = function
              /\ Queued(outputQueue, f)' <=> Queued(outputQueue, f)
              /\ WorkedOn(f, CompileSteps)' <=> WorkedOn(f, CompileSteps)
              /\ WorkedOn(f, {"enqueue"})' <=> WorkedOn(f, {"enqueue"})
    BY <1>0, <1>6, EnqueueInputJobs DEF functions, Queued
  <2>2. Single'
    <3>1. Once(inputQueue)' /\ Once(outputQueue)'
      BY <1>0, <2>1 DEF Single, Once
    <3>. QED BY <1>0, <2>1, <3>1 DEF Single
  <2>3. Matched'
    BY <1>0, <2>1 DEF Matched, MarkWait, InstallWait
  <2>4. Called' /\ Unpatched'
    BY <1>0, <2>1 DEF Called, Unpatched
  <2>. QED BY <1>2, <2>1, <2>2, <2>3, <2>4
<1>7. CASE InstallOptimizedCode
  <2>1. PICK h : h = Head(outputQueue).closure
    OBVIOUS
  <2>2. /\ h \in Closure /\ Queued(outputQueue, h)
        /\ UNCHANGED <<sharedCode, patched, inputQueue, pc, function>>
        /\ \E c \in OptCode \cup {"Full"} : ReplaceCode(h, c)
        /\ Once(outputQueue)' /\ ~Queued(outputQueue, h)'
        /\ \A f \in Closure :
              /\ Enqueuing(f)' <=> Enqueuing(f)
              /\ Queued(inputQueue, f)' <=> Queued(inputQueue, f)
              /\ WorkedOn(f, CompileSteps)' <=> WorkedOn(f, CompileSteps)
              /\ WorkedOn(f, {"enqueue"})' <=> WorkedOn(f, {"enqueue"})
              /\ Queued(outputQueue, f) <=> f = h \/ Queued(outputQueue, f)'
    BY <1>0, <1>7, <2>1, InstallJobs DEF Single, Running, Queued
  <2>3. PICK c \in OptCode \cup {"Full"} : ReplaceCode(h, c)
    BY <2>2
  <2>4. c \notin WaitMarks
    BY OptCodeAssumption DEF WaitMarks
  <2>5. \A f \in Closure : code'[f] = IF f = h THEN c ELSE code[f]
    BY <1>0, <2>2, <2>3 DEF ReplaceCode, TypeFunctions
  <2>6. code[h] = "InstallRecompiledCode"
    BY <1>0, <2>2 DEF Matched, InstallWait
  <2>7. Single'
    <3>1. Once(inputQueue)'
      BY <1>0, <2>2 DEF Single, Once
    <3>. QED BY <1>0, <2>2, <3>1 DEF Single
  <2>8. Matched'
    <3>1. ~MarkWait(h)
      BY <1>0, <2>2, <2>6 DEF Matched
    <3>2. ~InstallWait(h)'
      BY <1>0, <2>2 DEF Single, InstallWait
    <3>3. \A f \in Closure : (MarkWait(f)' <=> MarkWait(f)) /\ (InstallWait(f)' => InstallWait(f))
      BY <2>2 DEF MarkWait, InstallWait
    <3>. QED BY <1>0, <2>5, <3>1, <3>2, <3>3 DEF Matched
  <2>9. Called' /\ Unpatched'
    <3>1. MainKept /\ pc["main"] \notin QueueSteps
      BY <1>7, <2>2 DEF InstallOptimizedCode, MainKept, QueueSteps
    <3>. QED BY <1>0, <2>2, <2>4, <2>5, <3>1, CalledKept
  <2>10. \A f \in Closure : ~Stray(f)'
    BY <1>0, <2>2, <2>3, ReplaceUnstray
  <2>. QED BY <1>0, <2>2, <2>7, <2>8, <2>9, <2>10 DEF PInv, Plain
<1>. QED
  BY <1>3, <1>4, <1>5, <1>6, <1>7 DEF Continue, Run

\* The inductive invariant of this case.
LEMMA PInvInvariance ==
  ASSUME OneClosurePerFunction PROVE NoDebuggerSpec => [](IInv /\ PInv)
<1>1. Init => IInv /\ PInv
  <2> SUFFICES ASSUME Init PROVE PInv
    BY InitIInv
  <2>1. DOMAIN inputQueue = {} /\ DOMAIN outputQueue = {}
    BY DEF Init
  <2>2. \A t \in Thread : pc[t] \in {"js", "wait"}
    BY DEF Init
  <2>3. pc["main"] = "js"
    BY DEF Init, Thread
  <2>4. \A f \in Closure : ~MarkWait(f) /\ ~InstallWait(f) /\ code[f] = "Full"
    BY <2>1, <2>2, <2>3 DEF Init, MarkWait, InstallWait, Enqueuing, Queued, WorkedOn, CompileSteps
  <2>5. Single
    BY <2>1, <2>4 DEF Single, Once, MarkWait, InstallWait, Queued
  <2>. QED BY <2>3, <2>4, <2>5 DEF Init, PInv, Running, Matched, Called, Unpatched, Plain, Stray,
              WaitMarks
<1>2. IInv /\ PInv /\ [NoDebuggerNext]_vars => (IInv /\ PInv)'
  <2> SUFFICES ASSUME IInv, PInv, [NoDebuggerNext]_vars PROVE IInv' /\ PInv'
    OBVIOUS
  <2>1. IInv'
    BY NextIInv DEF NoDebuggerNext, Next
  <2>2. Running'
    BY NoAbort
  <2>3. CASE UNCHANGED vars
    <3>1. JobsKept /\ UNCHANGED <<code, sharedCode, patched, optimized, inputQueue, outputQueue, pc, function>>
      BY <2>3, KeepJobs DEF vars, functions, queues
    <3>2. Matched' /\ Single'
      BY <3>1, KeptMatched DEF PInv
    <3>3. Called' /\ Unpatched'
      BY <3>1 DEF PInv, Called, Unpatched
    <3>4. sharedCode' = sharedCode /\ \A f \in Closure : Stray(f)' <=> Stray(f)
      BY <3>1 DEF Stray, IsOptimized
    <3>5. Plain'
      BY <3>4 DEF PInv, Plain
    <3>. QED BY <2>1, <2>2, <3>2, <3>3, <3>5 DEF PInv
  <2>. QED BY <2>1, <2>2, <2>3, ChoosePInv, ContinuePInv DEF NoDebuggerNext, Terminated
<1>. QED
  BY <1>1, <1>2, PTL DEF NoDebuggerSpec

\* No ASSERT of MarkForInstallingRecompiledCode or MarkInRecompileQueue and no
\* CHECK of AddOptimizedFunction fails, if no two closures share a function
\* and nobody sets a break point.
THEOREM JobsKeepAssertions ==
  ASSUME OneClosurePerFunction PROVE NoDebuggerSpec => []AssertionsHold
<1>1. PInv => AssertionsHold
  BY DEF PInv, Running, AssertionsHold
<1>. QED
  BY <1>1, PInvInvariance, PTL

\* The native context's list then has exactly the optimized closures.
THEOREM ListExact ==
  ASSUME OneClosurePerFunction PROVE NoDebuggerSpec => []OptimizedListExact
<1>1. IInv /\ PInv => OptimizedListExact
  BY DEF IInv, PInv, Plain, OptimizedListExact
<1>. QED
  BY <1>1, PInvInvariance, PTL

\* A set of at most one element.
LEMMA AtMostOne ==
  ASSUME NEW S, IsFiniteSet(S), \A x, y \in S : x = y PROVE Cardinality(S) \in {0, 1}
<1>1. CASE S = {}
  BY <1>1, FS_EmptySet
<1>2. CASE S # {}
  <2>1. PICK x : x \in S
    BY <1>2
  <2>2. S = {x}
    BY <2>1
  <2>. QED BY <2>2, FS_Singleton
<1>. QED
  BY <1>1, <1>2

\* A closure waits for at most one job, and while it waits its code is the
\* builtin that says so: nobody gives it another code in the meantime.
THEOREM JobsHaveMarks ==
  ASSUME OneClosurePerFunction PROVE NoDebuggerSpec => []PendingMeansMarked
<1>1. IInv /\ PInv => PendingMeansMarked
  <2>. SUFFICES ASSUME IInv, PInv, NEW f \in Closure
                PROVE  /\ AwaitingMark(f) + AwaitingInstall(f) <= 1
                       /\ AwaitingMark(f) = 1 => code[f] = "InRecompileQueue"
                       /\ AwaitingInstall(f) = 1 => code[f] = "InstallRecompiledCode"
    BY DEF PendingMeansMarked
  <2>0. TypeQueues /\ Matched /\ Single /\ Running
    BY DEF IInv, Flow, PInv
  <2>1. /\ AwaitingMark(f) \in Nat /\ (AwaitingMark(f) = 0 <=> ~MarkWait(f))
        /\ AwaitingInstall(f) \in Nat /\ (AwaitingInstall(f) = 0 <=> ~InstallWait(f))
    BY <2>0, WaitCount
  <2>2. (MarkWait(f) => code[f] = "InRecompileQueue") /\ (InstallWait(f) => code[f] = "InstallRecompiledCode")
    BY <2>0 DEF Matched
  <2>3. ASSUME NEW q \in Seq(Job), Once(q)
        PROVE  Jobs(q, f) \in {0, 1} /\ (Jobs(q, f) = 0 <=> ~Queued(q, f))
    <3> DEFINE is == {i \in DOMAIN q : q[i].closure = f}
    <3>1. DOMAIN q = 1 .. Len(q) /\ Len(q) \in Nat
      BY <2>3
    <3>2. IsFiniteSet(is)
      <4>1. IsFiniteSet(DOMAIN q)
        BY <3>1, FS_Interval
      <4>2. is \in SUBSET DOMAIN q
        OBVIOUS
      <4>. QED BY <4>1, <4>2, FS_Subset
    <3>3. \A i, j \in is : i = j
      BY <2>3 DEF Once
    <3>4. Cardinality(is) \in {0, 1}
      BY <3>2, <3>3, AtMostOne
    <3>. QED BY <2>3, <3>4, JobsCount DEF Jobs
  <2>4. ASSUME NEW steps \in SUBSET CompileNextSteps
        PROVE  LET n == Cardinality({t \in Thread : pc[t] \in steps /\ job[t].closure = f})
               IN n \in {0, 1} /\ (n = 0 <=> ~WorkedOn(f, steps))
    <3> DEFINE ts == {t \in Thread : pc[t] \in steps /\ job[t].closure = f}
    <3>1. IsFiniteSet(ts)
      BY ThreadFinite, FS_Subset
    <3>2. \A t, u \in ts : t = u
      BY <2>0, <2>4, OneWorker
    <3>3. Cardinality(ts) \in {0, 1}
      BY <3>1, <3>2, AtMostOne
    <3>. QED BY <3>3, WorkCount
  <2> DEFINE a == Count(pc["main"] = "queue_enqueue" /\ function = f)
             b == Jobs(inputQueue, f)
             c == Cardinality({t \in Thread : pc[t] \in {"decrement", "mark", "store"} /\ job[t].closure = f})
             d == Cardinality({t \in Thread : pc[t] = "enqueue" /\ job[t].closure = f})
             e == Jobs(outputQueue, f)
  <2>5. a \in {0, 1} /\ (a = 0 <=> ~Enqueuing(f))
    BY DEF Count, Enqueuing
  <2>6. b \in {0, 1} /\ (b = 0 <=> ~Queued(inputQueue, f)) /\ e \in {0, 1} /\ (e = 0 <=> ~Queued(outputQueue, f))
    BY <2>0, <2>3 DEF TypeQueues, Single
  <2>7. c \in {0, 1} /\ (c = 0 <=> ~WorkedOn(f, CompileSteps))
    BY <2>4 DEF CompileSteps, CompileNextSteps
  <2>8. d \in {0, 1} /\ (d = 0 <=> ~WorkedOn(f, {"enqueue"}))
    <3>1. {t \in Thread : pc[t] = "enqueue" /\ job[t].closure = f}
            = {t \in Thread : pc[t] \in {"enqueue"} /\ job[t].closure = f}
      OBVIOUS
    <3>2. {"enqueue"} \in SUBSET CompileNextSteps
      BY DEF CompileNextSteps
    <3>. QED BY <2>4, <3>1, <3>2
  <2>9. AwaitingMark(f) = a + b + c /\ AwaitingInstall(f) = d + e
    BY DEF AwaitingMark, AwaitingInstall
  <2> HIDE DEF a, b, c, d, e
  <2>10. AwaitingMark(f) <= 1 /\ AwaitingInstall(f) <= 1
    <3>1. (a = 0 /\ b = 0) \/ (a = 0 /\ c = 0) \/ (b = 0 /\ c = 0)
      BY <2>0, <2>5, <2>6, <2>7 DEF Single
    <3>2. d = 0 \/ e = 0
      BY <2>0, <2>6, <2>8 DEF Single
    <3>. QED BY <2>5, <2>6, <2>7, <2>8, <2>9, <3>1, <3>2
  <2>11. AwaitingMark(f) = 0 \/ AwaitingInstall(f) = 0
    BY <2>1, <2>2
  <2>. QED BY <2>1, <2>2, <2>10, <2>11
<1>. QED
  BY <1>1, PInvInvariance, PTL
==============================================================================
