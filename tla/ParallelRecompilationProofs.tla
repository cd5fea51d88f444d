---------------------- MODULE ParallelRecompilationProofs ----------------------
(***************************************************************************)
(* For any closures, any sharing between them, any queue limit, with and   *)
(* without a debugger: types, the accounting of queue_length_ and of the   *)
(* input semaphore, and the list of optimized functions.                   *)
(*                                                                         *)
(* The heart of it is Signals: up to Stop, every signal of the input       *)
(* semaphore that has not been used up stands for a job in the queue, save *)
(* the one that Stop sends.  A compiler thread that is woken while there   *)
(* is no job has therefore been woken by Stop, and sees the stop flag.     *)
(***************************************************************************)
EXTENDS Deoptimization, TLAPS

StopSteps == {"stop_drain", "stopped"} \cup CompileNextSteps

\* How far Stop has come, and what the compiler thread has done by then.
Stopping ==
  /\ pc["main"] \in {"stop_signal", "stop_wait"} \cup StopSteps => stopThread
  /\ caller = "stop" => stopThread
  /\ pc["compiler"] = "exited" => stopThread
  /\ stopSemaphore > 0 => pc["compiler"] = "exited"
  /\ stopThread /\ pc["main"] \notin {"stop_signal", "stop_wait"} =>
       /\ pc["compiler"] = "exited"
       /\ pc["main"] \in StopSteps \/ (pc["main"] = "install" /\ caller = "stop")

Signals ==
  /\ ~stopThread \/ pc["main"] \in {"stop_signal", "stop_wait"} =>
       inputSemaphore + Count(pc["compiler"] \in {"woken", "dequeue", "exited"})
                      + Count(pc["main"] = "queue_signal")
         = Len(inputQueue) + Count(pc["main"] = "stop_wait")
  /\ pc["compiler"] = "dequeue" /\ pc["main"] = "stop_wait" => inputSemaphore > 0
  /\ pc["main"] = "dequeue" => queueLength > 0
  /\ pc["main"] = "queue_length" => queueLength < QueueLimit

\* Until an ASSERT fails.
Accounting == pc["main"] # "aborted" => Stopping /\ Signals

Flow == TypeQueues /\ TypeThreads /\ QueueLengthExact /\ Accounting

IInv == TypeFunctions /\ Flow /\ OptimizedListComplete

-----------------------------------------------------------------------------
\* None is no job and no closure.
LEMMA NoneIsNoJob == None \notin Job /\ None \notin Closure
  BY NoneAssumption DEF Job

\* What taking the head off a queue does.
LEMMA TakeHead ==
  ASSUME NEW q \in Seq(Job), q # <<>>
  PROVE  /\ Head(q) \in Job /\ Tail(q) \in Seq(Job)
         /\ Len(Tail(q)) = Len(q) - 1 /\ Len(q) > 0
<1>1. Len(q) > 0
  OBVIOUS
<1> QED
  BY <1>1

\* What appending to a queue does.
LEMMA AppendJob ==
  ASSUME NEW q \in Seq(Job), NEW j \in Job
  PROVE  Append(q, j) \in Seq(Job) /\ Len(Append(q, j)) = Len(q) + 1
  OBVIOUS

\* The queue length with its parts named.
Parts(x, y, z) ==
  /\ x \in {0, 1} /\ y \in {0, 1} /\ z \in {0, 1}
  /\ x = 1 <=> pc["main"] \in {"queue_mark", "queue_enqueue"}
  /\ y = 1 <=> pc["main"] = "decrement"
  /\ z = 1 <=> pc["compiler"] = "decrement"

\* QueueLengthExact in terms of its parts.
LEMMA LengthParts ==
  ASSUME NEW x, NEW y, NEW z, Parts(x, y, z)
  PROVE  QueueLengthExact <=>
           (pc["main"] # "aborted" =>
              queueLength = Len(inputQueue) + x + y + z /\ queueLength <= QueueLimit)
<1>1. Count(pc["main"] \in {"queue_mark", "queue_enqueue"}) = x
  BY DEF Parts, Count
<1>2. Count(pc["main"] = "decrement") = y
  BY DEF Parts, Count
<1>3. Count(pc["compiler"] = "decrement") = z
  BY DEF Parts, Count
<1> QED
  BY <1>1, <1>2, <1>3 DEF QueueLengthExact

\* The same in the next state.
LEMMA LengthPartsNext ==
  ASSUME NEW x, NEW y, NEW z, Parts(x, y, z)'
  PROVE  QueueLengthExact' <=>
           (pc'["main"] # "aborted" =>
              queueLength' = Len(inputQueue') + x + y + z /\ queueLength' <= QueueLimit)
<1>1. Count(pc["main"] \in {"queue_mark", "queue_enqueue"})' = x
  BY DEF Parts, Count
<1>2. Count(pc["main"] = "decrement")' = y
  BY DEF Parts, Count
<1>3. Count(pc["compiler"] = "decrement")' = z
  BY DEF Parts, Count
<1> QED
  BY <1>1, <1>2, <1>3 DEF QueueLengthExact

\* There always are such parts.
LEMMA PartsExist == \E x, y, z \in {0, 1} : Parts(x, y, z)
<1> DEFINE x == IF pc["main"] \in {"queue_mark", "queue_enqueue"} THEN 1 ELSE 0
           y == IF pc["main"] = "decrement" THEN 1 ELSE 0
           z == IF pc["compiler"] = "decrement" THEN 1 ELSE 0
<1>1. Parts(x, y, z)
  BY DEF Parts
<1> QED
  BY <1>1 DEF Parts

\* The first state satisfies the invariant.
LEMMA InitFlow == Init => TypeFunctions /\ Flow
<1> SUFFICES ASSUME Init PROVE TypeFunctions /\ Flow
  OBVIOUS
<1>1. TypeFunctions
  BY DEF Init, TypeFunctions
<1>2. TypeQueues
  <2>1. <<>> \in Seq(Job) /\ 0 \in Nat
    OBVIOUS
  <2> QED
    BY <2>1 DEF Init, TypeQueues
<1>3. TypeThreads
  BY DEF Init, TypeThreads, Thread, MainSteps, CompilerSteps
<1>4. QueueLengthExact
  BY FlagAssumption DEF Init, QueueLengthExact, Count, Thread
<1>5. Accounting
  BY DEF Init, Accounting, Stopping, Signals, Count, Thread, StopSteps, CompileNextSteps
<1> QED
  BY <1>1, <1>2, <1>3, <1>4, <1>5 DEF Flow

\* A step that only writes what concerns the closures.
LEMMA StutterFlow ==
  ASSUME Flow, UNCHANGED <<queues, stopping, pc, job, function, caller>> PROVE Flow'
<1>1. TypeQueues'
  BY DEF Flow, TypeQueues, queues, stopping
<1>2. TypeThreads'
  BY DEF Flow, TypeThreads
<1>3. QueueLengthExact'
  BY DEF Flow, QueueLengthExact, queues
<1>4. Accounting'
  BY DEF Flow, Accounting, Stopping, Signals, queues, stopping
<1> QED
  BY <1>1, <1>2, <1>3, <1>4 DEF Flow

\* An ASSERT or CHECK that fails ends the accounting.
LEMMA AbortFlow ==
  ASSUME Flow, pc' = [t \in Thread |-> "aborted"],
         UNCHANGED <<queues, stopping, job, function, caller>>
  PROVE  Flow'
<1>1. TypeQueues'
  BY DEF Flow, TypeQueues, queues, stopping
<1>2. pc'["main"] = "aborted" /\ pc'["compiler"] = "aborted"
  BY DEF Thread
<1>3. TypeThreads'
  BY <1>2 DEF Flow, TypeThreads, Thread, MainSteps, CompilerSteps
<1> QED
  BY <1>1, <1>2, <1>3 DEF Flow, QueueLengthExact, Accounting

\* Dequeue keeps the accounting.
LEMMA DequeueFlow ==
  ASSUME NEW t \in Thread, Flow, Dequeue(t) PROVE Flow'
<1>1. TypeQueues'
  BY DEF Flow, Dequeue, TypeQueues, stopping
<1>2. TypeThreads'
  BY NoneIsNoJob DEF Flow, Dequeue, TypeQueues, TypeThreads, Goto, MainSteps, CompilerSteps,
       CompileNextSteps
<1>3. QueueLengthExact'
  <2>1. /\ Len(inputQueue') = Len(inputQueue) - 1
         /\ queueLength' = queueLength /\ pc' = [pc EXCEPT ![t] = "decrement"] /\ pc[t] = "dequeue"
    BY DEF Flow, Dequeue, Goto
  <2>2. /\ queueLength \in Nat /\ Len(inputQueue) \in Nat /\ QueueLimit \in Nat
        /\ pc["main"] # "aborted" /\ pc["compiler"] # "aborted"
    BY <2>1, FlagAssumption DEF Flow, TypeQueues, TypeThreads, Thread
  <2>3. PICK x, y, z \in {0, 1} : Parts(x, y, z)
    BY PartsExist
  <2>4. queueLength = Len(inputQueue) + x + y + z /\ queueLength <= QueueLimit
    BY <2>2, <2>3, LengthParts DEF Flow
  <2>5. CASE t = "main"
    <3>1. Parts(0, 1, z)' /\ x = 0 /\ y = 0
      BY <2>1, <2>3, <2>5 DEF Parts, Flow, TypeThreads, Thread
    <3> QED
      BY <2>1, <2>2, <2>4, <3>1, LengthPartsNext
  <2>6. CASE t = "compiler"
    <3>1. Parts(x, y, 1)' /\ z = 0
      BY <2>1, <2>3, <2>6 DEF Parts, Flow, TypeThreads, Thread
    <3> QED
      BY <2>1, <2>2, <2>4, <3>1, LengthPartsNext
  <2> QED
    BY <2>5, <2>6 DEF Thread
<1>4. Accounting'
  BY TakeHead DEF Flow, Dequeue, TypeQueues, TypeThreads, QueueLengthExact, Accounting, Stopping,
       Signals, Goto, Count, Thread, queues, stopping, Job, StopSteps, CompileNextSteps
<1> QED
  BY <1>1, <1>2, <1>3, <1>4 DEF Flow

\* Decrement keeps the accounting.
LEMMA DecrementFlow ==
  ASSUME NEW t \in Thread, Flow, Decrement(t) PROVE Flow'
<1>0. /\ pc[t] = "decrement" /\ pc' = [pc EXCEPT ![t] = "mark"]
      /\ queueLength' = queueLength - 1
      /\ UNCHANGED <<inputQueue, outputQueue, inputSemaphore, stopping, function, caller>>
      /\ pc["main"] # "aborted" /\ pc["compiler"] # "aborted"
  BY DEF Flow, Decrement, TypeThreads, Goto, Thread
<1>1. job[t] \in Job /\ \E ok \in BOOLEAN : job' = [job EXCEPT ![t] = [closure |-> job[t].closure, ok |-> ok]]
  <2>1. job[t] \in Job
    BY <1>0 DEF Flow, TypeThreads
  <2>2. \A ok \in BOOLEAN : [job[t] EXCEPT !.ok = ok] = [closure |-> job[t].closure, ok |-> ok]
    BY <2>1 DEF Job
  <2>3. \E ok \in BOOLEAN : job' = [job EXCEPT ![t] = [job[t] EXCEPT !.ok = ok]]
    BY DEF Decrement
  <2> QED
    BY <2>1, <2>2, <2>3
<1>7. PICK x, y, z \in {0, 1} : Parts(x, y, z)
  BY PartsExist
<1>8. /\ Len(inputQueue) \in Nat /\ queueLength \in Nat /\ QueueLimit \in Nat
      /\ queueLength = Len(inputQueue) + x + y + z /\ queueLength <= QueueLimit
  BY <1>0, <1>7, LengthParts, FlagAssumption DEF Flow, TypeQueues
<1>2. queueLength' \in Nat /\ QueueLengthExact'
  <2>1. CASE t = "main"
    <3>1. Parts(0, 0, z)' /\ x = 0 /\ y = 1
      BY <1>0, <1>7, <2>1 DEF Parts, Flow, TypeThreads, Thread
    <3> QED
      BY <1>0, <1>7, <1>8, <3>1, LengthPartsNext
  <2>2. CASE t = "compiler"
    <3>1. Parts(x, y, 0)' /\ z = 1
      BY <1>0, <1>7, <2>2 DEF Parts, Flow, TypeThreads, Thread
    <3> QED
      BY <1>0, <1>7, <1>8, <3>1, LengthPartsNext
  <2> QED
    BY <2>1, <2>2 DEF Thread
<1>3. TypeQueues'
  BY <1>0, <1>2 DEF Flow, TypeQueues, stopping
<1>4. TypeThreads'
  <2>1. PICK ok \in BOOLEAN : job' = [job EXCEPT ![t] = [closure |-> job[t].closure, ok |-> ok]]
    BY <1>1
  <2>2. [closure |-> job[t].closure, ok |-> ok] \in Job
    BY <1>1 DEF Job
  <2> QED
    BY <1>0, <2>1, <2>2, NoneIsNoJob
    DEF Flow, TypeThreads, Thread, MainSteps, CompilerSteps, CompileNextSteps
<1>6. Accounting'
  <2>1. Stopping'
    BY <1>0 DEF Flow, TypeThreads, Accounting, Stopping, Thread, stopping, StopSteps, CompileNextSteps
  <2>2. Signals'
    <3>1. CASE t = "main"
      BY <1>0, <3>1 DEF Flow, TypeQueues, TypeThreads, Accounting, Stopping, Signals, Count, Thread,
           stopping, StopSteps, CompileNextSteps
    <3>2. CASE t = "compiler"
      <4>1. pc["main"] # "dequeue"
        BY <1>0, <3>2 DEF Flow, TypeThreads, Accounting, Stopping, StopSteps, CompileNextSteps
      <4>2. pc["main"] = "queue_length" => queueLength' < QueueLimit
        BY <1>0, FlagAssumption DEF Flow, TypeQueues, Accounting, Signals
      <4> QED
        BY <1>0, <3>2, <4>1, <4>2 DEF Flow, TypeQueues, TypeThreads, Accounting, Signals, Count,
             Thread, stopping
    <3> QED
      BY <3>1, <3>2 DEF Thread
  <2> QED
    BY <2>1, <2>2 DEF Accounting
<1> QED
  BY <1>2, <1>3, <1>4, <1>6 DEF Flow

\* CheckMarkable keeps the accounting.
LEMMA CheckMarkableFlow ==
  ASSUME NEW t \in Thread, Flow, CheckMarkable(t) PROVE Flow'
<1>1. CASE Abort
  BY <1>1, AbortFlow DEF Abort
<1>2. CASE ~Abort
  <2>1. pc[t] = "mark" /\ Goto(t, "store") /\ UNCHANGED <<queues, stopping, job, function, caller>>
    BY <1>2 DEF CheckMarkable
  <2>2. TypeQueues'
    BY <2>1 DEF Flow, TypeQueues, queues, stopping
  <2>3. TypeThreads'
    BY <2>1 DEF Flow, TypeThreads, Goto, Thread, MainSteps, CompilerSteps, CompileNextSteps
  <2>4. QueueLengthExact'
    BY <2>1 DEF Flow, TypeThreads, QueueLengthExact, Goto, Thread, queues
  <2>5. Accounting'
    BY <2>1 DEF Flow, TypeQueues, TypeThreads, Accounting, Stopping, Signals, Goto, Count, Thread,
         queues, stopping, StopSteps, CompileNextSteps
  <2> QED
    BY <2>2, <2>3, <2>4, <2>5 DEF Flow
<1> QED
  BY <1>1, <1>2

\* MarkForInstalling keeps the accounting.
LEMMA MarkForInstallingFlow ==
  ASSUME NEW t \in Thread, Flow, MarkForInstalling(t) PROVE Flow'
<1>1. TypeQueues'
  BY DEF Flow, MarkForInstalling, TypeQueues, TypeThreads, QueueLengthExact, Accounting, Signals,
       Goto, Count, queues, stopping, Job, StoreMark
<1>2. TypeThreads'
  BY DEF Flow, MarkForInstalling, TypeThreads, Goto, Thread, MainSteps, CompilerSteps,
       CompileNextSteps, StoreMark
<1>3. QueueLengthExact'
  BY FlagAssumption, TakeHead DEF Flow, MarkForInstalling, TypeQueues, TypeThreads,
       QueueLengthExact, Accounting, Signals, Goto, Count, Thread, queues, Job, StoreMark
<1>4. Accounting'
  BY TakeHead DEF Flow, MarkForInstalling, TypeQueues, TypeThreads, QueueLengthExact, Accounting,
       Stopping, Signals, Goto, Count, Thread, queues, stopping, Job, StopSteps, CompileNextSteps,
       StoreMark
<1> QED
  BY <1>1, <1>2, <1>3, <1>4 DEF Flow

\* EnqueueOutput keeps the accounting.
LEMMA EnqueueOutputFlow ==
  ASSUME NEW t \in Thread, Flow, EnqueueOutput(t) PROVE Flow'
<1>1. TypeQueues'
  BY DEF Flow, EnqueueOutput, TypeQueues, TypeThreads, stopping
<1>2. TypeThreads'
  BY DEF Flow, EnqueueOutput, TypeThreads, Goto, Thread, MainSteps, CompilerSteps
<1>3. QueueLengthExact'
  BY DEF Flow, EnqueueOutput, TypeThreads, QueueLengthExact, Goto, Thread
<1>4. Accounting'
  BY TakeHead DEF Flow, EnqueueOutput, TypeQueues, TypeThreads, QueueLengthExact, Accounting,
       Stopping, Signals, Goto, Count, Thread, queues, stopping, Job, StopSteps, CompileNextSteps
<1> QED
  BY <1>1, <1>2, <1>3, <1>4 DEF Flow

\* AwaitInput keeps the accounting.
LEMMA AwaitInputFlow ==
  ASSUME Flow, AwaitInput PROVE Flow'
<1>1. TypeQueues'
  BY DEF Flow, AwaitInput, TypeQueues, stopping
<1>2. TypeThreads'
  BY DEF Flow, AwaitInput, TypeThreads, Goto, Thread, CompilerSteps
<1>3. QueueLengthExact'
  BY DEF Flow, AwaitInput, QueueLengthExact, Goto, Thread
<1>4. Accounting'
  <2>1. Stopping'
    BY DEF Flow, AwaitInput, TypeThreads, Accounting, Stopping, Goto, stopping
  <2>2. Signals'
    BY DEF Flow, AwaitInput, TypeQueues, TypeThreads, Accounting, Signals, Goto, Count, Thread, stopping
  <2> QED
    BY <2>1, <2>2 DEF Accounting
<1> QED
  BY <1>1, <1>2, <1>3, <1>4 DEF Flow

\* CheckStop keeps the accounting.
LEMMA CheckStopFlow ==
  ASSUME Flow, CheckStop PROVE Flow'
<1>1. TypeQueues'
  BY DEF Flow, CheckStop, TypeQueues, TypeThreads, Accounting, Stopping, queues
<1>2. TypeThreads'
  BY DEF Flow, CheckStop, TypeThreads, Goto, Thread, CompilerSteps, CompileNextSteps
<1>3. QueueLengthExact'
  BY DEF Flow, CheckStop, TypeThreads, QueueLengthExact, Goto, Thread, queues
<1>4. Accounting'
  BY TakeHead DEF Flow, CheckStop, TypeQueues, TypeThreads, QueueLengthExact, Accounting, Stopping,
       Signals, Goto, Count, Thread, queues, stopping, Job, StopSteps, CompileNextSteps
<1> QED
  BY <1>1, <1>2, <1>3, <1>4 DEF Flow

\* QueueLength keeps the accounting.
LEMMA QueueLengthFlow ==
  ASSUME Flow, QueueLength PROVE Flow'
<1>1. TypeQueues'
  BY DEF Flow, QueueLength, TypeQueues, stopping
<1>2. TypeThreads'
  BY DEF Flow, QueueLength, TypeThreads, Goto, Thread, MainSteps
<1>3. QueueLengthExact'
  BY FlagAssumption, TakeHead DEF Flow, QueueLength, TypeQueues, TypeThreads, QueueLengthExact,
       Accounting, Signals, Goto, Count, Thread, queues, Job
<1>4. Accounting'
  BY TakeHead DEF Flow, QueueLength, TypeQueues, TypeThreads, QueueLengthExact, Accounting,
       Stopping, Signals, Goto, Count, Thread, queues, stopping, Job, StopSteps, CompileNextSteps
<1> QED
  BY <1>1, <1>2, <1>3, <1>4 DEF Flow

\* MarkInRecompileQueue keeps the accounting.
LEMMA MarkInRecompileQueueFlow ==
  ASSUME Flow, MarkInRecompileQueue PROVE Flow'
<1>0. CASE Abort
  BY <1>0, AbortFlow DEF Abort
<1>1. CASE ~Abort
  <2>1. /\ pc["main"] = "queue_mark" /\ Goto("main", "queue_enqueue")
        /\ UNCHANGED <<queues, stopping, job, function, caller>>
    BY <1>1 DEF MarkInRecompileQueue, StoreMark
  <2>2. TypeQueues'
    BY <2>1 DEF Flow, TypeQueues, queues, stopping
  <2>3. TypeThreads'
    BY <2>1 DEF Flow, TypeThreads, Goto, Thread, MainSteps, CompilerSteps
  <2>4. QueueLengthExact'
    BY <2>1 DEF Flow, TypeThreads, QueueLengthExact, Goto, Thread, queues
  <2>5. Accounting'
    BY <2>1 DEF Flow, TypeQueues, TypeThreads, Accounting, Stopping, Signals, Goto, Count, Thread,
         queues, stopping, StopSteps, CompileNextSteps
  <2> QED
    BY <2>2, <2>3, <2>4, <2>5 DEF Flow
<1> QED
  BY <1>0, <1>1

\* EnqueueInput keeps the accounting.
LEMMA EnqueueInputFlow ==
  ASSUME Flow, EnqueueInput PROVE Flow'
<1>1. TypeQueues'
  BY DEF Flow, EnqueueInput, TypeQueues, TypeThreads, stopping, Job
<1>2. TypeThreads'
  BY DEF Flow, EnqueueInput, TypeThreads, Goto, Thread, MainSteps
<1>3. QueueLengthExact'
  BY DEF Flow, EnqueueInput, TypeThreads, QueueLengthExact, Goto, Count, Thread
<1>4. Accounting'
  BY TakeHead DEF Flow, EnqueueInput, TypeQueues, TypeThreads, QueueLengthExact, Accounting,
       Stopping, Signals, Goto, Count, Thread, queues, stopping, Job, StopSteps, CompileNextSteps
<1> QED
  BY <1>1, <1>2, <1>3, <1>4 DEF Flow

\* SignalInput keeps the accounting.
LEMMA SignalInputFlow ==
  ASSUME Flow, SignalInput PROVE Flow'
<1>1. TypeQueues'
  BY DEF Flow, SignalInput, TypeQueues, stopping
<1>2. TypeThreads'
  BY DEF Flow, SignalInput, TypeThreads, Goto, Thread, MainSteps
<1>3. QueueLengthExact'
  BY DEF Flow, SignalInput, QueueLengthExact, Goto, Thread
<1>4. Accounting'
  BY TakeHead DEF Flow, SignalInput, TypeQueues, TypeThreads, QueueLengthExact, Accounting,
       Stopping, Signals, Goto, Count, Thread, queues, stopping, Job, StopSteps, CompileNextSteps
<1> QED
  BY <1>1, <1>2, <1>3, <1>4 DEF Flow

\* InstallOptimizedCode keeps the accounting.
LEMMA InstallOptimizedCodeFlow ==
  ASSUME Flow, InstallOptimizedCode PROVE Flow'
<1>1. /\ UNCHANGED <<inputQueue, queueLength, inputSemaphore, stopping, job, function, caller>>
      /\ outputQueue' \in Seq(Job)
      /\ UNCHANGED pc \/ pc' = [t \in Thread |-> "aborted"]
  BY TakeHead DEF Flow, InstallOptimizedCode, InstallCode, InstallFullCode, TypeQueues
<1>2. TypeQueues'
  BY <1>1 DEF Flow, TypeQueues, stopping
<1>3. CASE UNCHANGED pc
  <2>1. TypeThreads' /\ QueueLengthExact'
    BY <1>1, <1>3 DEF Flow, TypeThreads, QueueLengthExact
  <2>2. Accounting'
    BY <1>1, <1>3 DEF Flow, Accounting, Stopping, Signals, stopping
  <2> QED
    BY <1>2, <2>1, <2>2 DEF Flow
<1>4. CASE pc' = [t \in Thread |-> "aborted"]
  <2>1. pc'["main"] = "aborted" /\ pc'["compiler"] = "aborted"
    BY <1>4 DEF Thread
  <2>2. TypeThreads'
    BY <1>1, <1>4, <2>1 DEF Flow, TypeThreads, Thread, MainSteps, CompilerSteps
  <2> QED
    BY <1>2, <2>1, <2>2 DEF Flow, QueueLengthExact, Accounting
<1> QED
  BY <1>1, <1>3, <1>4

\* InstallReturn keeps the accounting.
LEMMA InstallReturnFlow ==
  ASSUME Flow, InstallReturn PROVE Flow'
<1>1. TypeQueues'
  BY DEF Flow, InstallReturn, TypeQueues, queues, stopping
<1>2. TypeThreads'
  BY DEF Flow, InstallReturn, TypeThreads, Goto, Thread, MainSteps
<1>3. QueueLengthExact'
  BY DEF Flow, InstallReturn, TypeThreads, QueueLengthExact, Goto, Thread, queues
<1>4. Accounting'
  BY TakeHead DEF Flow, InstallReturn, TypeQueues, TypeThreads, QueueLengthExact, Accounting,
       Stopping, Signals, Goto, Count, Thread, queues, stopping, Job, StopSteps, CompileNextSteps
<1> QED
  BY <1>1, <1>2, <1>3, <1>4 DEF Flow

\* Tick keeps the accounting.
LEMMA TickFlow ==
  ASSUME Flow, Tick PROVE Flow'
<1>1. TypeQueues'
  BY DEF Flow, Tick, TypeQueues, queues, stopping
<1>2. TypeThreads'
  BY DEF Flow, Tick, TypeThreads, Goto, Thread, MainSteps
<1>3. QueueLengthExact'
  BY DEF Flow, Tick, QueueLengthExact, Goto, Thread, queues
<1>4. Accounting'
  BY TakeHead DEF Flow, Tick, TypeQueues, Accounting, Stopping, Signals, Goto, Thread, queues,
       stopping, StopSteps, CompileNextSteps
<1> QED
  BY <1>1, <1>2, <1>3, <1>4 DEF Flow

\* TickReturn keeps the accounting.
LEMMA TickReturnFlow ==
  ASSUME Flow, TickReturn PROVE Flow'
<1>1. TypeQueues'
  BY DEF Flow, TickReturn, TypeQueues, queues, stopping
<1>2. TypeThreads'
  BY DEF Flow, TickReturn, TypeThreads, Goto, Thread, MainSteps
<1>3. QueueLengthExact'
  BY DEF Flow, TickReturn, QueueLengthExact, Goto, Thread, queues
<1>4. Accounting'
  BY TakeHead DEF Flow, TickReturn, TypeQueues, Accounting, Stopping, Signals, Goto, queues,
       stopping, StopSteps, CompileNextSteps
<1> QED
  BY <1>1, <1>2, <1>3, <1>4 DEF Flow

\* Stop keeps the accounting.
LEMMA StopFlow ==
  ASSUME Flow, Stop PROVE Flow'
<1>1. TypeQueues'
  BY DEF Flow, Stop, TypeQueues, queues
<1>2. TypeThreads'
  BY DEF Flow, Stop, TypeThreads, Goto, Thread, MainSteps
<1>3. QueueLengthExact'
  BY DEF Flow, Stop, QueueLengthExact, Goto, Thread, queues
<1>4. Accounting'
  BY TakeHead DEF Flow, Stop, TypeQueues, TypeThreads, QueueLengthExact, Accounting, Stopping,
       Signals, Goto, Count, Thread, queues, stopping, Job, StopSteps, CompileNextSteps
<1> QED
  BY <1>1, <1>2, <1>3, <1>4 DEF Flow

\* StopSignal keeps the accounting.
LEMMA StopSignalFlow ==
  ASSUME Flow, StopSignal PROVE Flow'
<1>1. TypeQueues'
  BY DEF Flow, StopSignal, TypeQueues, stopping
<1>2. TypeThreads'
  BY DEF Flow, StopSignal, TypeThreads, Goto, Thread, MainSteps
<1>3. QueueLengthExact'
  BY DEF Flow, StopSignal, QueueLengthExact, Goto, Thread
<1>4. Accounting'
  BY TakeHead DEF Flow, StopSignal, TypeQueues, TypeThreads, QueueLengthExact, Accounting, Stopping,
       Signals, Goto, Count, Thread, queues, stopping, Job, StopSteps, CompileNextSteps
<1> QED
  BY <1>1, <1>2, <1>3, <1>4 DEF Flow

\* StopWait keeps the accounting.
LEMMA StopWaitFlow ==
  ASSUME Flow, StopWait PROVE Flow'
<1>1. TypeQueues'
  BY DEF Flow, StopWait, TypeQueues, queues
<1>2. TypeThreads'
  BY DEF Flow, StopWait, TypeThreads, Goto, Thread, MainSteps
<1>3. QueueLengthExact'
  BY DEF Flow, StopWait, TypeThreads, QueueLengthExact, Goto, Thread, queues
<1>4. Accounting'
  BY TakeHead DEF Flow, StopWait, TypeQueues, TypeThreads, QueueLengthExact, Accounting, Stopping,
       Signals, Goto, Count, Thread, queues, stopping, Job, StopSteps, CompileNextSteps
<1> QED
  BY <1>1, <1>2, <1>3, <1>4 DEF Flow

\* StopDrain keeps the accounting.
LEMMA StopDrainFlow ==
  ASSUME Flow, StopDrain PROVE Flow'
<1>1. TypeQueues'
  BY DEF Flow, StopDrain, TypeQueues, queues, stopping
<1>2. TypeThreads'
  BY DEF Flow, StopDrain, TypeThreads, Goto, Thread, MainSteps, CompileNextSteps
<1>3. QueueLengthExact'
  BY DEF Flow, StopDrain, QueueLengthExact, Goto, Thread, queues
<1>4. Accounting'
  BY TakeHead DEF Flow, StopDrain, TypeQueues, Accounting, Stopping, Signals, Goto, queues,
       stopping, StopSteps, CompileNextSteps
<1> QED
  BY <1>1, <1>2, <1>3, <1>4 DEF Flow

\* ParallelRecompile keeps the accounting.
LEMMA ParallelRecompileFlow ==
  ASSUME NEW f \in Closure, Flow, ParallelRecompile(f) PROVE Flow'
<1>1. /\ pc["main"] = "js" /\ UNCHANGED <<queues, stopping, job, caller>>
      /\ \/ UNCHANGED <<pc, function>>
         \/ pc' = [t \in Thread |-> "aborted"] /\ UNCHANGED function
         \/ IsQueueAvailable /\ Goto("main", "queue_length") /\ function' = f
  BY DEF ParallelRecompile, InstallCode
<1>2. CASE UNCHANGED <<pc, function>>
  BY <1>1, <1>2, StutterFlow
<1>3. CASE pc' = [t \in Thread |-> "aborted"] /\ UNCHANGED function
  BY <1>1, <1>3, AbortFlow
<1>4. CASE IsQueueAvailable /\ Goto("main", "queue_length") /\ function' = f
  <2>1. TypeQueues'
    BY <1>1 DEF Flow, TypeQueues, queues, stopping
  <2>2. TypeThreads'
    BY <1>1, <1>4, NoneIsNoJob DEF Flow, TypeThreads, Goto, Thread, MainSteps
  <2>3. QueueLengthExact'
    BY <1>1, <1>4 DEF Flow, TypeThreads, QueueLengthExact, Goto, Thread, queues
  <2>4. Accounting'
    BY <1>1, <1>4 DEF Flow, TypeQueues, TypeThreads, Accounting, Stopping, Signals, Goto, Count,
         Thread, queues, stopping, StopSteps, CompileNextSteps, IsQueueAvailable
  <2> QED
    BY <2>1, <2>2, <2>3, <2>4 DEF Flow
<1> QED
  BY <1>1, <1>2, <1>3, <1>4

\* InstallRecompiledCode keeps the accounting.
LEMMA InstallRecompiledCodeFlow ==
  ASSUME NEW f \in Closure, Flow, InstallRecompiledCode(f) PROVE Flow'
<1>1. TypeQueues'
  BY DEF Flow, InstallRecompiledCode, TypeQueues, queues, stopping
<1>2. TypeThreads'
  BY NoneIsNoJob DEF Flow, InstallRecompiledCode, TypeThreads, Goto, Thread, MainSteps
<1>3. QueueLengthExact'
  BY DEF Flow, InstallRecompiledCode, QueueLengthExact, Goto, Thread, queues
<1>4. Accounting'
  BY TakeHead DEF Flow, InstallRecompiledCode, TypeQueues, Accounting, Stopping, Signals, Goto,
       queues, stopping, StopSteps, CompileNextSteps
<1> QED
  BY <1>1, <1>2, <1>3, <1>4 DEF Flow

\* CompileLazy keeps the accounting.
LEMMA CompileLazyFlow ==
  ASSUME NEW f \in Closure, Flow, CompileLazy(f) PROVE Flow'
<1>1. CASE Abort
  BY <1>1, AbortFlow DEF Abort
<1>2. CASE ~Abort
  BY <1>2, StutterFlow DEF CompileLazy, queues
<1> QED
  BY <1>1, <1>2

\* OnStackReplacement keeps the accounting.
LEMMA OnStackReplacementFlow ==
  ASSUME NEW f \in Closure, Flow, OnStackReplacement(f) PROVE Flow'
<1>1. /\ UNCHANGED <<queues, stopping, job, function, caller>>
      /\ UNCHANGED pc \/ pc' = [t \in Thread |-> "aborted"]
  BY DEF OnStackReplacement, InstallCode
<1> QED
  BY <1>1, StutterFlow, AbortFlow

\* Every step keeps the accounting.
LEMMA FlowStep == Flow /\ [Next]_vars => Flow'
<1> SUFFICES ASSUME Flow, [Next]_vars PROVE Flow'
  OBVIOUS
<1>1. CASE Choose \/ Debug
  <2>1. ASSUME NEW f \in Closure, ParallelRecompile(f) PROVE Flow'
    BY <2>1, ParallelRecompileFlow
  <2>2. ASSUME NEW f \in Closure, InstallRecompiledCode(f) PROVE Flow'
    BY <2>2, InstallRecompiledCodeFlow
  <2>3. ASSUME NEW f \in Closure, CompileLazy(f) PROVE Flow'
    BY <2>3, CompileLazyFlow
  <2>4. ASSUME NEW f \in Closure, OnStackReplacement(f) PROVE Flow'
    BY <2>4, OnStackReplacementFlow
  <2>5. ASSUME NEW f \in Closure, NotifyDeoptimized(f) PROVE Flow'
    BY <2>5, StutterFlow DEF NotifyDeoptimized
  <2>6. ASSUME NEW f \in Closure, TickFrame(f) PROVE Flow'
    BY <2>6, StutterFlow DEF TickFrame
  <2>7. ASSUME NEW active \in SUBSET Closure, PrepareForBreakPoints(active) PROVE Flow'
    BY <2>7, StutterFlow DEF PrepareForBreakPoints
  <2>8. CASE RemoveDebugInfo
    BY <2>8, StutterFlow DEF RemoveDebugInfo
  <2>9. CASE Tick
    BY <2>9, TickFlow
  <2>10. CASE Stop
    BY <2>10, StopFlow
  <2>11. CASE DeoptimizeAllFails
    BY <2>11, AbortFlow DEF DeoptimizeAllFails, Abort
  <2> QED
    BY <1>1, <2>1, <2>2, <2>3, <2>4, <2>5, <2>6, <2>7, <2>8, <2>9, <2>10, <2>11 DEF Choose, Debug
<1>2. ASSUME NEW t \in Thread, CompileNext(t) PROVE Flow'
  BY <1>2, DequeueFlow, DecrementFlow, CheckMarkableFlow, MarkForInstallingFlow,
     EnqueueOutputFlow DEF CompileNext
<1>3. CASE Continue
  <2>1. "main" \in Thread
    BY DEF Thread
  <2> QED
    BY <1>2, <1>3, <2>1, QueueLengthFlow, MarkInRecompileQueueFlow, EnqueueInputFlow, SignalInputFlow,
       InstallOptimizedCodeFlow, InstallReturnFlow, TickReturnFlow, StopSignalFlow, StopWaitFlow,
       StopDrainFlow DEF Continue
<1>4. CASE Run
  <2>1. "compiler" \in Thread
    BY DEF Thread
  <2> QED
    BY <1>2, <1>4, <2>1, AwaitInputFlow, CheckStopFlow DEF Run
<1>5. CASE UNCHANGED vars
  BY <1>5, StutterFlow DEF vars
<1> QED
  BY <1>1, <1>3, <1>4, <1>5 DEF Next, Terminated

-----------------------------------------------------------------------------
\* What the closures' invariants are about.
Closures == TypeFunctions /\ OptimizedListComplete

\* A step that writes none of it.
LEMMA StutterClosures == ASSUME Closures, UNCHANGED functions PROVE Closures'
  BY DEF Closures, TypeFunctions, OptimizedListComplete, IsOptimized, functions

\* The codes that are not optimized code.
LEMMA PlainCode ==
  /\ Mark \cap OptCode = {} /\ "Full" \notin OptCode /\ "LazyCompile" \notin OptCode
  BY OptCodeAssumption DEF Mark

\* ReplaceCode keeps the list of optimized functions complete.
LEMMA ReplaceCodeList ==
  ASSUME Closures, NEW f \in Closure,
         NEW c \in OptCode \cup Mark \cup {"Full", "LazyCompile"}, ReplaceCode(f, c)
  PROVE  /\ code' \in [Closure -> OptCode \cup Mark \cup {"Full", "LazyCompile"}]
         /\ optimized' \in SUBSET Closure
         /\ OptimizedListComplete'
<1>1. code' = [code EXCEPT ![f] = c]
  BY DEF ReplaceCode
<1>2. CASE ~IsOptimized(f) /\ c \in OptCode
  <2>1. optimized' = optimized \cup {f}
    BY <1>2 DEF ReplaceCode
  <2> QED
    BY <1>1, <1>2, <2>1 DEF Closures, TypeFunctions, OptimizedListComplete, IsOptimized
<1>3. CASE IsOptimized(f) /\ c \notin OptCode
  <2>1. optimized' = optimized \ {f}
    BY <1>3 DEF ReplaceCode
  <2> QED
    BY <1>1, <1>3, <2>1 DEF Closures, TypeFunctions, OptimizedListComplete, IsOptimized
<1>4. CASE IsOptimized(f) <=> c \in OptCode
  <2>1. optimized' = optimized
    BY <1>4 DEF ReplaceCode
  <2> QED
    BY <1>1, <1>4, <2>1 DEF Closures, TypeFunctions, OptimizedListComplete, IsOptimized
<1> QED
  BY <1>2, <1>3, <1>4

\* The codes that ReplaceCode is given.
LEMMA Codes ==
  ASSUME Closures
  PROVE  /\ \A s \in Shared : sharedCode[s] \in {"Full", "LazyCompile"}
         /\ \A s \in Shared : codeMap[s] \in OptCode \cup {None}
         /\ NewCode \subseteq OptCode
         /\ \A f \in Closure : SharedOf[f] \in Shared
  BY SharedOfAssumption DEF Closures, TypeFunctions, NewCode

\* A closure gets a code that is not optimized, and the list stays as it is.
LEMMA MarkList ==
  ASSUME Closures, NEW f \in Closure, NEW c \in Mark \cup {"Full"},
         code' = [code EXCEPT ![f] = c],
         UNCHANGED <<disabled, patched, codeMap, optimized, breakPoints>>,
         sharedCode' \in [Shared -> {"Full", "LazyCompile"}]
  PROVE  Closures'
<1>1. TypeFunctions'
  BY DEF Closures, TypeFunctions
<1>2. OptimizedListComplete'
  BY PlainCode DEF Closures, OptimizedListComplete, IsOptimized
<1> QED
  BY <1>1, <1>2 DEF Closures

\* A step of CompileNext.
LEMMA CompileNextClosures ==
  ASSUME Closures, TypeThreads, NEW t \in Thread, CompileNext(t) PROVE Closures'
<1>1. CASE MarkForInstalling(t)
  <2>1. job[t].closure \in Closure
    BY <1>1 DEF MarkForInstalling, TypeThreads, Job
  <2> QED
    BY <1>1, <2>1, MarkList DEF MarkForInstalling, StoreMark, Mark, Closures, TypeFunctions
<1>2. CASE CheckMarkable(t)
  BY <1>2, StutterClosures DEF CheckMarkable, Abort
<1>3. CASE Dequeue(t)
  BY <1>3, StutterClosures DEF Dequeue
<1>4. CASE Decrement(t)
  BY <1>4, StutterClosures DEF Decrement
<1>5. CASE EnqueueOutput(t)
  BY <1>5, StutterClosures DEF EnqueueOutput
<1> QED
  BY <1>1, <1>2, <1>3, <1>4, <1>5 DEF CompileNext

\* A call of a closure that is marked for parallel recompilation.
LEMMA ParallelRecompileClosures ==
  ASSUME Closures, NEW f \in Closure, ParallelRecompile(f) PROVE Closures'
<1>1. /\ UNCHANGED <<sharedCode, codeMap, breakPoints>>
      /\ \/ /\ ReplaceCode(f, sharedCode[SharedOf[f]])
            /\ UNCHANGED <<disabled, patched>>
         \/ /\ codeMap[SharedOf[f]] # None
            /\ ReplaceCode(f, codeMap[SharedOf[f]])
            /\ UNCHANGED <<disabled, patched>>
         \/ UNCHANGED <<code, optimized, disabled, patched>>
         \/ /\ \E disable \in BOOLEAN : InstallFullCode(f, disable)
            /\ RevertInterruptCode(SharedOf[f])
         \/ /\ RevertInterruptCode(SharedOf[f])
            /\ UNCHANGED <<code, optimized, disabled>>
  BY DEF ParallelRecompile, InstallCode
<1>2. disabled' \in [Shared -> BOOLEAN] /\ patched' \in [Shared -> BOOLEAN]
  BY <1>1, Codes DEF Closures, TypeFunctions, InstallFullCode, RevertInterruptCode
<1>3. CASE ReplaceCode(f, sharedCode[SharedOf[f]])
  <2>1. sharedCode[SharedOf[f]] \in OptCode \cup Mark \cup {"Full", "LazyCompile"}
    BY Codes
  <2> QED
    BY <1>1, <1>2, <1>3, <2>1, ReplaceCodeList DEF Closures, TypeFunctions
<1>4. CASE codeMap[SharedOf[f]] # None /\ ReplaceCode(f, codeMap[SharedOf[f]])
  <2>1. codeMap[SharedOf[f]] \in OptCode \cup Mark \cup {"Full", "LazyCompile"}
    BY <1>4, Codes
  <2> QED
    BY <1>1, <1>2, <1>4, <2>1, ReplaceCodeList DEF Closures, TypeFunctions
<1>5. CASE UNCHANGED <<code, optimized>>
  BY <1>1, <1>2, <1>5 DEF Closures, TypeFunctions, OptimizedListComplete, IsOptimized
<1> QED
  BY <1>1, <1>3, <1>4, <1>5 DEF InstallFullCode

\* Installing the job at the head of the output queue.
LEMMA InstallOptimizedCodeClosures ==
  ASSUME Closures, TypeQueues, InstallOptimizedCode PROVE Closures'
<1> DEFINE f == Head(outputQueue).closure
           s == SharedOf[f]
<1>1. f \in Closure /\ s \in Shared
  BY TakeHead, Codes DEF InstallOptimizedCode, TypeQueues, Job
<1>2. UNCHANGED <<sharedCode, patched, breakPoints>>
  BY DEF InstallOptimizedCode
<1>3. CASE UNCHANGED <<code, optimized, disabled, codeMap>>
  BY <1>2, <1>3, StutterClosures DEF functions
<1>4. CASE InstallFullCode(f, TRUE) /\ UNCHANGED codeMap
  <2>1. sharedCode[s] \in OptCode \cup Mark \cup {"Full", "LazyCompile"}
    BY <1>1, Codes
  <2>2. disabled' \in [Shared -> BOOLEAN]
    BY <1>1, <1>4 DEF InstallFullCode, Closures, TypeFunctions
  <2>3. ReplaceCode(f, sharedCode[s])
    BY <1>4 DEF InstallFullCode
  <2> HIDE DEF f, s
  <2> QED
    BY <1>1, <1>2, <1>4, <2>1, <2>2, <2>3, ReplaceCodeList DEF Closures, TypeFunctions
<1>5. ASSUME NEW c \in NewCode, ReplaceCode(f, c),
             codeMap' = [codeMap EXCEPT ![s] = IF @ = None THEN c ELSE @], UNCHANGED disabled
      PROVE  Closures'
  <2>1. c \in OptCode
    BY Codes
  <2>2. codeMap' \in [Shared -> OptCode \cup {None}]
    BY <1>1, <1>5, <2>1 DEF Closures, TypeFunctions
  <2> HIDE DEF f, s
  <2> QED
    BY <1>1, <1>2, <1>5, <2>1, <2>2, ReplaceCodeList DEF Closures, TypeFunctions
<1>6. ASSUME NEW c \in NewCode, UNCHANGED <<code, optimized, disabled>>,
             codeMap' = [codeMap EXCEPT ![s] = IF @ = None THEN c ELSE @]
      PROVE  Closures'
  <2>1. c \in OptCode
    BY Codes
  <2>2. codeMap' \in [Shared -> OptCode \cup {None}]
    BY <1>1, <1>6, <2>1 DEF Closures, TypeFunctions
  <2> HIDE DEF f, s
  <2> QED
    BY <1>2, <1>6, <2>2 DEF Closures, TypeFunctions, OptimizedListComplete, IsOptimized
<1> QED
  BY <1>3, <1>4, <1>5, <1>6 DEF InstallOptimizedCode, InstallCode

\* On-stack replacement.
LEMMA OnStackReplacementClosures ==
  ASSUME Closures, NEW f \in Closure, OnStackReplacement(f) PROVE Closures'
<1>1. /\ UNCHANGED <<sharedCode, codeMap, breakPoints>>
      /\ patched' \in [Shared -> BOOLEAN]
  BY DEF OnStackReplacement, RevertInterruptCode, Closures, TypeFunctions
<1>2. CASE UNCHANGED <<code, optimized, disabled>>
  BY <1>1, <1>2 DEF Closures, TypeFunctions, OptimizedListComplete, IsOptimized
<1>3. ASSUME NEW disable \in BOOLEAN, InstallFullCode(f, disable) PROVE Closures'
  <2>1. sharedCode[SharedOf[f]] \in OptCode \cup Mark \cup {"Full", "LazyCompile"}
    BY Codes
  <2>2. disabled' \in [Shared -> BOOLEAN]
    BY <1>3, Codes DEF InstallFullCode, Closures, TypeFunctions
  <2>3. ReplaceCode(f, sharedCode[SharedOf[f]])
    BY <1>3 DEF InstallFullCode
  <2> QED
    BY <1>1, <2>1, <2>2, <2>3, ReplaceCodeList DEF Closures, TypeFunctions
<1>4. ASSUME NEW c \in NewCode, ReplaceCode(f, c), UNCHANGED disabled PROVE Closures'
  <2>1. c \in OptCode
    BY Codes
  <2> QED
    BY <1>1, <1>4, <2>1, ReplaceCodeList DEF Closures, TypeFunctions
<1> QED
  BY <1>2, <1>3, <1>4 DEF OnStackReplacement, InstallCode

\* An eager deoptimization.
LEMMA NotifyDeoptimizedClosures ==
  ASSUME Closures, NEW f \in Closure, NotifyDeoptimized(f) PROVE Closures'
<1>1. PICK fs \in SUBSET Closure : Deoptimize(fs)
  BY DEF NotifyDeoptimized, Closures, TypeFunctions
<1>2. /\ UNCHANGED <<sharedCode, disabled, patched, breakPoints>>
      /\ codeMap' \in [Shared -> OptCode \cup {None}]
  BY DEF NotifyDeoptimized, EvictFromOptimizedCodeMap, Closures, TypeFunctions
<1>3. code' \in [Closure -> OptCode \cup Mark \cup {"Full", "LazyCompile"}]
  BY <1>1, Codes DEF Deoptimize, Closures, TypeFunctions
<1>4. \A g \in Closure : code'[g] \in OptCode <=> g \notin fs /\ code[g] \in OptCode
  BY <1>1, Codes, PlainCode DEF Deoptimize, Closures, TypeFunctions
<1>5. TypeFunctions'
  BY <1>1, <1>2, <1>3 DEF Deoptimize, Closures, TypeFunctions
<1>6. OptimizedListComplete'
  BY <1>1, <1>4 DEF Deoptimize, Closures, OptimizedListComplete, IsOptimized
<1> QED
  BY <1>5, <1>6 DEF Closures

\* The first break point.
LEMMA PrepareForBreakPointsClosures ==
  ASSUME Closures, NEW active \in SUBSET Closure, PrepareForBreakPoints(active) PROVE Closures'
<1> DEFINE full == {f \in Closure : f \in optimized \/ code[f] = "Full"}
           idle == {f \in full : SharedOf[f] \notin {SharedOf[g] : g \in active}}
<1>1. /\ code' = [f \in Closure |-> IF f \in idle THEN "LazyCompile"
                                    ELSE IF f \in active \cup full THEN "Full"
                                    ELSE code[f]]
      /\ optimized' = {} /\ breakPoints' = "set" /\ UNCHANGED disabled
      /\ sharedCode' \in [Shared -> {"Full", "LazyCompile"}]
      /\ patched' \in [Shared -> BOOLEAN]
      /\ codeMap' \in [Shared -> OptCode \cup {None}]
  BY DEF PrepareForBreakPoints, Closures, TypeFunctions
<1>2. TypeFunctions'
  BY <1>1 DEF Closures, TypeFunctions
<1>3. \A f \in Closure : code'[f] \notin OptCode
  <2>1. \A f \in Closure : code[f] \in OptCode => f \in full
    BY DEF Closures, OptimizedListComplete, IsOptimized
  <2> QED
    BY <1>1, <2>1, PlainCode
<1>4. OptimizedListComplete'
  BY <1>1, <1>3 DEF OptimizedListComplete, IsOptimized
<1> QED
  BY <1>2, <1>4 DEF Closures

\* A frame that the profiler looks at.
LEMMA TickFrameClosures ==
  ASSUME Closures, NEW f \in Closure, TickFrame(f) PROVE Closures'
<1>1. /\ UNCHANGED <<sharedCode, codeMap, optimized, breakPoints>>
      /\ disabled' \in [Shared -> BOOLEAN] /\ patched' \in [Shared -> BOOLEAN]
  BY DEF TickFrame, Closures, TypeFunctions
<1>2. CASE UNCHANGED code
  BY <1>1, <1>2 DEF Closures, TypeFunctions, OptimizedListComplete, IsOptimized
<1>3. CASE code[f] = "Full" /\ code' = [code EXCEPT ![f] = "ParallelRecompile"]
  <2>1. TypeFunctions'
    BY <1>1, <1>3 DEF Closures, TypeFunctions, Mark
  <2>2. OptimizedListComplete'
    BY <1>1, <1>3, PlainCode DEF Closures, TypeFunctions, OptimizedListComplete, IsOptimized, Mark
  <2> QED
    BY <2>1, <2>2 DEF Closures
<1> QED
  BY <1>2, <1>3 DEF TickFrame

\* Lazy compilation.
LEMMA CompileLazyClosures ==
  ASSUME Closures, NEW f \in Closure, CompileLazy(f) PROVE Closures'
<1>1. CASE Abort
  BY <1>1, StutterClosures DEF Abort
<1>2. CASE code[f] = "LazyCompile" /\ ~Abort
  <2>1. ~IsOptimized(f)
    BY <1>2, PlainCode DEF IsOptimized
  <2> QED
    BY <1>2, <2>1, MarkList DEF CompileLazy, Closures, TypeFunctions
<1> QED
  BY <1>1, <1>2 DEF CompileLazy

\* Every step keeps the types of what concerns closures, and the list.
LEMMA ClosuresStep == Closures /\ Flow /\ [Next]_vars => Closures'
<1> SUFFICES ASSUME Closures, Flow, [Next]_vars PROVE Closures'
  OBVIOUS
<1>0. TypeQueues /\ TypeThreads
  BY DEF Flow
<1>1. CASE Choose \/ Debug
  <2>1. ASSUME NEW f \in Closure, ParallelRecompile(f) PROVE Closures'
    BY <2>1, ParallelRecompileClosures
  <2>2. ASSUME NEW f \in Closure, InstallRecompiledCode(f) PROVE Closures'
    BY <2>2, StutterClosures DEF InstallRecompiledCode
  <2>3. ASSUME NEW f \in Closure, CompileLazy(f) PROVE Closures'
    BY <2>3, CompileLazyClosures
  <2>4. ASSUME NEW f \in Closure, OnStackReplacement(f) PROVE Closures'
    BY <2>4, OnStackReplacementClosures
  <2>5. ASSUME NEW f \in Closure, NotifyDeoptimized(f) PROVE Closures'
    BY <2>5, NotifyDeoptimizedClosures
  <2>6. ASSUME NEW f \in Closure, TickFrame(f) PROVE Closures'
    BY <2>6, TickFrameClosures
  <2>7. ASSUME NEW active \in SUBSET Closure, PrepareForBreakPoints(active) PROVE Closures'
    BY <2>7, PrepareForBreakPointsClosures
  <2>8. CASE RemoveDebugInfo
    BY <2>8 DEF RemoveDebugInfo, Closures, TypeFunctions, OptimizedListComplete, IsOptimized
  <2>9. CASE Tick
    BY <2>9, StutterClosures DEF Tick
  <2>10. CASE Stop
    BY <2>10, StutterClosures DEF Stop
  <2>11. CASE DeoptimizeAllFails
    BY <2>11, StutterClosures DEF DeoptimizeAllFails, Abort
  <2> QED
    BY <1>1, <2>1, <2>2, <2>3, <2>4, <2>5, <2>6, <2>7, <2>8, <2>9, <2>10, <2>11 DEF Choose, Debug
<1>2. ASSUME NEW t \in Thread, CompileNext(t) PROVE Closures'
  BY <1>0, <1>2, CompileNextClosures
<1>3. CASE Continue
  <2>1. CASE QueueLength
    BY <2>1, StutterClosures DEF QueueLength
  <2>2. CASE MarkInRecompileQueue
    <3>1. function \in Closure
      BY <1>0, <2>2 DEF MarkInRecompileQueue, TypeThreads
    <3>2. CASE Abort
      BY <3>2, StutterClosures DEF Abort
    <3>3. CASE ~Abort
      BY <2>2, <3>1, <3>3, MarkList
      DEF MarkInRecompileQueue, StoreMark, Mark, Closures, TypeFunctions
    <3> QED
      BY <3>2, <3>3
  <2>3. CASE EnqueueInput
    BY <2>3, StutterClosures DEF EnqueueInput
  <2>4. CASE SignalInput
    BY <2>4 DEF SignalInput, RevertInterruptCode, Closures, TypeFunctions, OptimizedListComplete,
         IsOptimized
  <2>5. CASE InstallOptimizedCode
    BY <1>0, <2>5, InstallOptimizedCodeClosures
  <2>6. CASE InstallReturn
    BY <2>6, StutterClosures DEF InstallReturn
  <2>7. CASE TickReturn
    BY <2>7, StutterClosures DEF TickReturn
  <2>8. CASE StopSignal
    BY <2>8, StutterClosures DEF StopSignal
  <2>9. CASE StopWait
    BY <2>9, StutterClosures DEF StopWait
  <2>10. CASE StopDrain
    BY <2>10, StutterClosures DEF StopDrain
  <2>11. "main" \in Thread
    BY DEF Thread
  <2> QED
    BY <1>2, <1>3, <2>1, <2>2, <2>3, <2>4, <2>5, <2>6, <2>7, <2>8, <2>9, <2>10, <2>11 DEF Continue
<1>4. CASE Run
  <2>1. CASE AwaitInput
    BY <2>1, StutterClosures DEF AwaitInput
  <2>2. CASE CheckStop
    BY <2>2, StutterClosures DEF CheckStop
  <2>3. "compiler" \in Thread
    BY DEF Thread
  <2> QED
    BY <1>2, <1>4, <2>1, <2>2, <2>3 DEF Run
<1>5. CASE UNCHANGED vars
  BY <1>5, StutterClosures DEF vars
<1> QED
  BY <1>1, <1>3, <1>4, <1>5 DEF Next, Terminated

-----------------------------------------------------------------------------
\* The inductive invariant: it holds at first, and every step keeps it.
LEMMA InitIInv == Init => IInv
<1> SUFFICES ASSUME Init PROVE IInv
  OBVIOUS
<1>1. OptimizedListComplete
  BY PlainCode DEF Init, OptimizedListComplete, IsOptimized
<1> QED
  BY <1>1, InitFlow DEF IInv

LEMMA NextIInv == IInv /\ [Next]_vars => IInv'
  BY FlowStep, ClosuresStep DEF IInv, Closures

\* The inductive invariant holds in every state.
THEOREM Invariance == Spec => []IInv
  BY InitIInv, NextIInv, PTL DEF Spec

\* Types: queue_length_ in particular never becomes negative.
THEOREM TypeCorrect == Spec => []TypeOK
<1>1. IInv => TypeOK
  BY DEF IInv, Flow, TypeOK
<1> QED
  BY <1>1, Invariance, PTL

\* queue_length_ counts the jobs it should, and never exceeds its limit.
THEOREM QueueLengthCorrect == Spec => []QueueLengthExact
<1>1. IInv => QueueLengthExact
  BY DEF IInv, Flow
<1> QED
  BY <1>1, Invariance, PTL

\* CompileNext never finds the input queue empty: not when the compiler
\* thread is woken, by a job or by Stop, and not in Stop's loop.
THEOREM NeverDequeuesFromEmpty == Spec => []NoDequeueFromEmpty
<1>1. IInv => NoDequeueFromEmpty
  <2> SUFFICES ASSUME IInv, NEW t \in Thread, pc[t] = "dequeue" PROVE inputQueue # <<>>
    BY DEF NoDequeueFromEmpty
  <2>1. /\ pc["main"] # "aborted" /\ Stopping /\ Signals
        /\ inputSemaphore \in Nat /\ Len(inputQueue) \in Nat
    BY DEF IInv, Flow, TypeThreads, TypeQueues, Accounting, Thread
  <2>2. Len(inputQueue) > 0
    <3>1. CASE t = "compiler"
      <4>1. \/ ~stopThread
            \/ pc["main"] \in {"stop_signal", "stop_wait"}
        BY <2>1, <3>1 DEF Stopping
      <4> QED
        BY <2>1, <3>1, <4>1 DEF Signals, Count
    <3>2. CASE t = "main"
      <4>1. queueLength > 0 /\ pc["compiler"] = "exited"
        BY <2>1, <3>2 DEF Stopping, Signals, StopSteps, CompileNextSteps
      <4>2. PICK x, y, z \in {0, 1} : Parts(x, y, z)
        BY PartsExist
      <4>3. x = 0 /\ y = 0 /\ z = 0
        BY <3>2, <4>1, <4>2 DEF Parts
      <4> QED
        BY <2>1, <4>1, <4>2, <4>3, LengthParts DEF IInv, Flow
    <3> QED
      BY <3>1, <3>2 DEF Thread
  <2> QED
    BY <2>2
<1> QED
  BY <1>1, Invariance, PTL

\* The list of optimized functions has every optimized closure, so that
\* deoptimization finds it, whichever thread wrote its code last.
THEOREM OptimizedListCorrect == Spec => []OptimizedListComplete
<1>1. IInv => OptimizedListComplete
  BY DEF IInv
<1> QED
  BY <1>1, Invariance, PTL

-----------------------------------------------------------------------------
(* Deoptimized code.                                                       *)

PlainCodes == Mark \cup {"Full", "LazyCompile"}

\* Where the codes of closures and of the optimized code map may come from.
CodesKept ==
  /\ \A f \in Closure :
       code'[f] \in {code[f]} \cup NewCode \cup {codeMap[s] : s \in Shared} \cup PlainCodes
  /\ \A s \in Shared : codeMap'[s] \in {codeMap[s], None} \cup NewCode

\* The optimized code map has no code that has been deoptimized.
NotInCodeMap ==
  /\ deoptimized \subseteq OptCode
  /\ deoptimized \subseteq {code[f] : f \in Closure}
  /\ \A s \in Shared : codeMap[s] \notin deoptimized

\* A step that writes no code.
LEMMA StutterCodes == ASSUME UNCHANGED <<code, codeMap>> PROVE CodesKept
  BY DEF CodesKept

\* One closure gets a code that is not optimized, new, or from the map.
LEMMA OneCode ==
  ASSUME Closures, NEW f \in Closure,
         NEW c \in NewCode \cup {codeMap[s] : s \in Shared} \cup PlainCodes,
         code' = [code EXCEPT ![f] = c], UNCHANGED codeMap
  PROVE  CodesKept
  BY DEF CodesKept, Closures, TypeFunctions

\* A code written by the compiler thread is a mark.
LEMMA CompileNextCodes ==
  ASSUME Closures, TypeThreads, NEW t \in Thread, CompileNext(t) PROVE CodesKept
<1>1. CASE MarkForInstalling(t)
  <2>1. job[t].closure \in Closure
    BY <1>1 DEF MarkForInstalling, TypeThreads, Job
  <2> QED
    BY <1>1, <2>1, OneCode DEF MarkForInstalling, StoreMark, Mark, PlainCodes
<1>2. CASE UNCHANGED functions
  BY <1>2, StutterCodes DEF functions
<1> QED
  BY <1>1, <1>2
     DEF CompileNext, Dequeue, Decrement, CheckMarkable, EnqueueOutput, Abort

\* A call of a closure that is marked for parallel recompilation, and
\* on-stack replacement.
LEMMA RecompileCodes ==
  ASSUME Closures, NEW f \in Closure, ParallelRecompile(f) \/ OnStackReplacement(f)
  PROVE  CodesKept
<1>1. SharedOf[f] \in Shared /\ sharedCode[SharedOf[f]] \in PlainCodes
  BY Codes DEF PlainCodes
<1>2. UNCHANGED codeMap
  BY DEF ParallelRecompile, OnStackReplacement
<1>3. \/ UNCHANGED code
      \/ \E c \in NewCode \cup {codeMap[SharedOf[f]], sharedCode[SharedOf[f]]} :
           code' = [code EXCEPT ![f] = c]
  BY DEF ParallelRecompile, OnStackReplacement, InstallCode, InstallFullCode, ReplaceCode
<1> QED
  BY <1>1, <1>2, <1>3, StutterCodes, OneCode

\* Installing the job at the head of the output queue.
LEMMA InstallCodes ==
  ASSUME Closures, TypeQueues, InstallOptimizedCode PROVE CodesKept
<1> DEFINE f == Head(outputQueue).closure
           s == SharedOf[f]
<1>1. f \in Closure /\ s \in Shared /\ sharedCode[s] \in PlainCodes
  BY TakeHead, Codes DEF InstallOptimizedCode, TypeQueues, Job, PlainCodes
<1>2. \/ UNCHANGED <<code, codeMap>>
      \/ code' = [code EXCEPT ![f] = sharedCode[s]] /\ UNCHANGED codeMap
      \/ \E c \in NewCode : /\ UNCHANGED code \/ code' = [code EXCEPT ![f] = c]
                            /\ codeMap' = [codeMap EXCEPT ![s] = IF @ = None THEN c ELSE @]
  BY DEF InstallOptimizedCode, InstallCode, InstallFullCode, ReplaceCode
<1> HIDE DEF f, s
<1>3. ASSUME NEW c \in NewCode, UNCHANGED code \/ code' = [code EXCEPT ![f] = c],
             codeMap' = [codeMap EXCEPT ![s] = IF @ = None THEN c ELSE @]
      PROVE  CodesKept
  BY <1>1, <1>3 DEF CodesKept, Closures, TypeFunctions
<1> QED
  BY <1>1, <1>2, <1>3, StutterCodes, OneCode

\* Deoptimization only takes optimized code away.
LEMMA DeoptimizeCodes ==
  ASSUME Closures, NEW f \in Closure, NotifyDeoptimized(f) PROVE CodesKept
<1>1. PICK fs \in SUBSET Closure : Deoptimize(fs)
  BY DEF NotifyDeoptimized, Closures, TypeFunctions
<1>2. \A g \in Closure : code'[g] \in {code[g]} \cup PlainCodes
  BY <1>1, Codes DEF Deoptimize, PlainCodes
<1>3. \A s \in Shared : codeMap'[s] \in {codeMap[s], None}
  BY DEF NotifyDeoptimized, EvictFromOptimizedCodeMap
<1> QED
  BY <1>2, <1>3 DEF CodesKept

\* The first break point too.
LEMMA BreakPointCodes ==
  ASSUME NEW active \in SUBSET Closure, PrepareForBreakPoints(active) PROVE CodesKept
<1>1. \A g \in Closure : code'[g] \in {code[g], "LazyCompile", "Full"}
  BY DEF PrepareForBreakPoints
<1>2. \A s \in Shared : codeMap'[s] \in {codeMap[s], None}
  BY DEF PrepareForBreakPoints
<1> QED
  BY <1>1, <1>2 DEF CodesKept, PlainCodes

\* Every step takes codes from where they may come from.
LEMMA CodesStep == ASSUME IInv, Next PROVE CodesKept
<1>0. Closures /\ TypeQueues /\ TypeThreads
  BY DEF IInv, Flow, Closures
<1>1. CASE Choose
  <2>1. ASSUME NEW f \in Closure, TickFrame(f) PROVE CodesKept
    <3>1. UNCHANGED codeMap /\ (UNCHANGED code \/ code' = [code EXCEPT ![f] = "ParallelRecompile"])
      BY <2>1 DEF TickFrame
    <3> QED
      BY <1>0, <3>1, StutterCodes, OneCode DEF PlainCodes, Mark
  <2>2. ASSUME NEW f \in Closure, InstallRecompiledCode(f) PROVE CodesKept
    BY <2>2, StutterCodes DEF InstallRecompiledCode, functions
  <2>3. CASE Tick \/ Stop
    BY <2>3, StutterCodes DEF Tick, Stop, functions
  <2> QED
    BY <1>0, <1>1, <2>1, <2>2, <2>3, RecompileCodes, DeoptimizeCodes DEF Choose
<1>2. CASE Debug
  <2>1. ASSUME NEW f \in Closure, CompileLazy(f) PROVE CodesKept
    <3>1. UNCHANGED codeMap /\ (UNCHANGED code \/ code' = [code EXCEPT ![f] = "Full"])
      BY <2>1 DEF CompileLazy, Abort, functions
    <3> QED
      BY <1>0, <3>1, StutterCodes, OneCode DEF PlainCodes
  <2>2. CASE DeoptimizeAllFails \/ RemoveDebugInfo
    BY <2>2, StutterCodes DEF DeoptimizeAllFails, RemoveDebugInfo, Abort, functions
  <2> QED
    BY <1>2, <2>1, <2>2, BreakPointCodes DEF Debug
<1>3. CASE Continue
  <2>1. CASE MarkInRecompileQueue
    <3>1. function \in Closure
      BY <1>0, <2>1 DEF MarkInRecompileQueue, TypeThreads
    <3>2. CASE Abort
      BY <3>2, StutterCodes DEF Abort, functions
    <3>3. CASE ~Abort
      BY <1>0, <2>1, <3>1, <3>3, OneCode DEF MarkInRecompileQueue, StoreMark, Mark, PlainCodes
    <3> QED
      BY <3>2, <3>3
  <2>2. CASE QueueLength \/ EnqueueInput \/ SignalInput \/ InstallReturn \/ TickReturn
               \/ StopSignal \/ StopWait \/ StopDrain
    BY <2>2, StutterCodes
       DEF QueueLength, EnqueueInput, SignalInput, InstallReturn, TickReturn, StopSignal,
           StopWait, StopDrain, functions
  <2> QED
    BY <1>0, <1>3, <2>1, <2>2, InstallCodes, CompileNextCodes DEF Continue, Thread
<1>4. CASE Run \/ Terminated
  <2>1. CASE AwaitInput \/ CheckStop \/ Terminated
    BY <2>1, StutterCodes DEF AwaitInput, CheckStop, Terminated, functions, vars
  <2> QED
    BY <1>0, <1>4, <2>1, CompileNextCodes DEF Run, Thread
<1> QED
  BY <1>1, <1>2, <1>3, <1>4 DEF Next

\* Only Debug::PrepareForBreakPoints sets the first break point.
LEMMA FirstBreakPoint ==
  ASSUME Next, breakPoints = "none", breakPoints' = "set"
  PROVE  \E active \in SUBSET Closure : PrepareForBreakPoints(active)
<1>1. ~UNCHANGED breakPoints
  OBVIOUS
<1>2. ~Choose
  BY <1>1 DEF Choose, ParallelRecompile, InstallRecompiledCode, OnStackReplacement,
       NotifyDeoptimized, TickFrame, Tick, Stop, functions
<1>3. ~CompileNext("main") /\ ~CompileNext("compiler")
  BY <1>1 DEF CompileNext, Dequeue, Decrement, CheckMarkable, MarkForInstalling, StoreMark,
       EnqueueOutput, Abort, functions
<1>4. ~Continue
  BY <1>1, <1>3 DEF Continue, QueueLength, MarkInRecompileQueue, StoreMark, EnqueueInput,
       SignalInput, InstallOptimizedCode, InstallReturn, TickReturn, StopSignal, StopWait,
       StopDrain, Abort, functions
<1>5. ~Run /\ ~Terminated
  BY <1>1, <1>3 DEF Run, AwaitInput, CheckStop, Terminated, functions, vars
<1>6. ~RemoveDebugInfo /\ ~DeoptimizeAllFails /\ \A f \in Closure : ~CompileLazy(f)
  BY <1>1 DEF RemoveDebugInfo, DeoptimizeAllFails, CompileLazy, Abort, functions
<1> QED
  BY <1>2, <1>4, <1>5, <1>6 DEF Next, Debug

\* What a step deoptimizes was optimized, and is no longer in the map.
LEMMA DeoptimizedIsEvicted ==
  ASSUME IInv, Next, NEW c \in Deoptimized
  PROVE  c \in OptCode /\ \A s \in Shared : codeMap'[s] # c
<1>0. None \notin OptCode
  BY NoneAssumption
<1>1. ASSUME NEW f \in Closure, IsOptimized(f), NotifyDeoptimized(f), c = code[f]
      PROVE  c \in OptCode /\ \A s \in Shared : codeMap'[s] # c
  <2>1. codeMap' = [s \in Shared |-> IF codeMap[s] = c THEN None ELSE codeMap[s]]
    BY <1>1 DEF NotifyDeoptimized, EvictFromOptimizedCodeMap
  <2> QED
    BY <1>0, <1>1, <2>1 DEF IsOptimized
<1>2. ASSUME NEW f \in optimized, breakPoints = "none", breakPoints' = "set", c = code[f]
      PROVE  c \in OptCode /\ \A s \in Shared : codeMap'[s] # c
  <2>1. PICK active \in SUBSET Closure : PrepareForBreakPoints(active)
    BY <1>2, FirstBreakPoint
  <2>2. f \in Closure /\ ~Stray(f)
    BY <2>1 DEF PrepareForBreakPoints, IInv, TypeFunctions
  <2>3. codeMap' = [s \in Shared |->
          IF \E g \in optimized : code[g] = codeMap[s] THEN None ELSE codeMap[s]]
    BY <2>1 DEF PrepareForBreakPoints
  <2>4. c \in OptCode
    BY <1>2, <2>2 DEF Stray, IsOptimized
  <2> QED
    BY <1>0, <1>2, <2>3, <2>4
<1> QED
  BY <1>1, <1>2 DEF Deoptimized

\* Deoptimized code stays out of the map, and so is not handed out.
LEMMA DeoptimizedStep ==
  ASSUME IInv, NotInCodeMap, HistoryNext
  PROVE  /\ NotInCodeMap'
         /\ \A c \in deoptimized, f \in Closure : code'[f] = c => code[f] = c
<1>1. CodesKept
  BY CodesStep DEF HistoryNext
<1>2. \A c \in deoptimized : c \notin NewCode /\ c \notin PlainCodes /\ c # None
  BY PlainCode, NoneAssumption DEF NotInCodeMap, NewCode, PlainCodes
<1>3. \A c \in deoptimized, s \in Shared : codeMap[s] # c /\ codeMap'[s] # c
  BY <1>1, <1>2 DEF CodesKept, NotInCodeMap
<1>4. \A c \in deoptimized, f \in Closure : code'[f] = c => code[f] = c
  BY <1>1, <1>2, <1>3 DEF CodesKept
<1>5. ASSUME NEW c \in deoptimized'
      PROVE  /\ c \in OptCode /\ c \in {code'[f] : f \in Closure}
             /\ \A s \in Shared : codeMap'[s] # c
  <2>1. c \in deoptimized \cup Deoptimized /\ c \in Referenced'
    BY <1>5 DEF HistoryNext
  <2>2. c \in OptCode /\ \A s \in Shared : codeMap'[s] # c
    BY <1>3, <2>1, DeoptimizedIsEvicted DEF HistoryNext, NotInCodeMap
  <2> QED
    BY <2>1, <2>2 DEF Referenced
<1>6. NotInCodeMap'
  BY <1>5 DEF NotInCodeMap
<1> QED
  BY <1>4, <1>6

\* Code that has been deoptimized is given to no closure again: whatever
\* deoptimizes it also evicts it from the optimized code map, nothing puts
\* back what a closure still runs, and a compilation never returns it.
THEOREM DeoptimizedStaysOut == HistorySpec => DeoptimizedCodeGainsNoClosure
<1>1. HistoryInit => IInv /\ NotInCodeMap
  BY InitIInv DEF HistoryInit, NotInCodeMap
<1>2. IInv /\ NotInCodeMap /\ [HistoryNext]_historyVars => IInv' /\ NotInCodeMap'
  <2> SUFFICES ASSUME IInv, NotInCodeMap, [HistoryNext]_historyVars PROVE IInv' /\ NotInCodeMap'
    OBVIOUS
  <2>1. IInv'
    BY NextIInv DEF HistoryNext, historyVars
  <2>2. CASE UNCHANGED historyVars
    BY <2>1, <2>2 DEF historyVars, vars, functions, NotInCodeMap
  <2> QED
    BY <2>1, <2>2, DeoptimizedStep
<1>3. IInv /\ NotInCodeMap /\ [HistoryNext]_historyVars =>
        [\A c \in deoptimized :
           {f \in Closure : code'[f] = c} \subseteq {f \in Closure : code[f] = c}]_historyVars
  BY DeoptimizedStep
<1> QED
  BY <1>1, <1>2, <1>3, PTL DEF HistorySpec, DeoptimizedCodeGainsNoClosure
=============================================================================
