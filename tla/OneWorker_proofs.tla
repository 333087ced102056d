----------------------------- MODULE OneWorker_proofs -----------------------------
(*****************************************************************************)
(* What a server with one worker thread gets right: proofs for every number *)
(* of clients.  With two workers each property fails.                       *)
(*****************************************************************************)
EXTENDS QueueDiscipline_proofs

(* threadPoolSize is 1, and no call of executeJob or its child fails.         *)
OneWorker == (\E w : Workers = {w}) /\ ~ForkMayFail

(* runningJobs counts the worker's one job from the ++ to the --, and no      *)
(* value of it is loaded before another thread changes it.                   *)
CountInv ==
  \A w \in Workers :
    /\ runningJobs = IF pc[w] \in Counted THEN 1 ELSE 0
    /\ pc[w] \in {"runStore", "runDec"} => reg[w] = runningJobs

(* A step that leaves the count and the worker's loaded value alone.          *)
LEMMA CountKept ==
  ASSUME CountInv, UNCHANGED runningJobs,
         \A w \in Workers : pc'[w] = pc[w] /\ reg'[w] = reg[w]
  PROVE  CountInv'
BY DEF CountInv

(* Controllers do not count jobs.                                            *)
LEMMA ControllerLeavesCount ==
  ASSUME TypeOK, NEW c \in Clients, ControllerNext(c)
  PROVE  /\ UNCHANGED runningJobs
         /\ \A w \in Workers : pc'[w] = pc[w] /\ reg'[w] = reg[w]
<1> USE DEF TypeOK, PcType, Threads, Goto, Move, At, counterVars, localVars,
            LoadReg, ClearReg, LoadSize, StoreSize, Abort
<1>0. \A w \in Workers : w # c
  BY ThreadsDistinct
<1>1. CASE ReadSocket(c) \/ executeTask(c) \/ ContinueServer(c)
  BY <1>0, <1>1 DEF ReadSocket, executeTask, ContinueServer
<1>2. CASE insertNewJobToBufferQueue(c)
  <2>1. CASE \/ LockFull(c) \/ TestFull(c) \/ SleepFull(c) \/ WakeFull(c)
             \/ CheckCanceled(c) \/ LockInsert(c)
    BY <1>0, <2>1 DEF LockFull, TestFull, SleepFull, WakeFull, CheckCanceled,
                      LockInsert
  <2>2. CASE TakeJobID(c) \/ RespondSubmitted(c) \/ WakeWorker(c)
    BY <1>0, <2>2 DEF TakeJobID, RespondSubmitted, WakeWorker
  <2>3. CASE InsertJob(c)
    BY <1>0, <2>3 DEF InsertJob, insertJobTriplate, TestCapacity, PushBack
  <2> QED BY <1>2, <2>1, <2>2, <2>3 DEF insertNewJobToBufferQueue
<1>3. CASE setServerConcurrencyLevel(c) \/ sendWaitingJobsToClient(c)
  BY <1>0, <1>3 DEF setServerConcurrencyLevel, SetConcurrency,
     RespondConcurrencySet, WakeTest, WakeSignal, sendWaitingJobsToClient, PollSize,
     PollTest, PollAt
<1>4. CASE removeJobFromBufferQueue(c)
  BY <1>0, <1>4 DEF removeJobFromBufferQueue, RemoveJob, removeJobTriplateByID,
     SearchTest, SearchAt, EraseAt, RespondRemoved, NotifyRemoved
<1>5. CASE terminateServer(c)
  <2>1. CASE \/ StopIssuers(c) \/ CancelIssuers(c) \/ DrainTest(c) \/ DrainJob(c)
             \/ NotifyDrained(c)
    BY <1>0, <2>1 DEF StopIssuers, CancelIssuers, DrainTest, DrainJob,
       getJobTriplate, CopyFront, EraseFront, NotifyDrained
  <2>2. CASE \/ TestJobsDone(c) \/ SleepJobsDone(c) \/ WakeJobsDone(c)
             \/ RespondTerminated(c) \/ StopServer(c)
    BY <1>0, <2>2 DEF TestJobsDone, SleepJobsDone, WakeJobsDone, RespondTerminated,
       StopServer
  <2> QED BY <1>5, <2>1, <2>2 DEF terminateServer
<1> QED BY <1>1, <1>2, <1>3, <1>4, <1>5 DEF ControllerNext

(* The count goes from 0 to 1 and back.                                       *)
LEMMA CountsToOne ==
  Inc(0) = 1 /\ Dec(1) = 0
<1>1. UIntModulus \in Nat /\ UIntModulus >= 2
  BY ParametersInRange
<1>2. \A m \in Nat : m >= 2 => (0 + 1) % m = 1 /\ (1 + m - 1) % m = 0
  OBVIOUS
<1> QED BY <1>1, <1>2 DEF Inc, Dec

(* The one worker's own steps.                                               *)
LEMMA CountWorker ==
  ASSUME OneWorker, TypeOK, CountInv, NEW w \in Workers, WorkerNext(w)
  PROVE  CountInv'
<1> USE DEF TypeOK, PcType, Threads, Goto, Step, At, counterVars, localVars,
            LoadReg, ClearReg, Counted
<1>0. Workers = {w} /\ w \in Threads /\ ~ForkMayFail
  BY DEF OneWorker
<1>a. Inc(0) = 1 /\ Dec(1) = 0
  BY CountsToOne
<1>1. /\ runningJobs = IF pc[w] \in Counted THEN 1 ELSE 0
      /\ pc[w] \in {"runStore", "runDec"} => reg[w] = runningJobs
  BY DEF CountInv
<1> SUFFICES /\ runningJobs' = IF pc'[w] \in Counted THEN 1 ELSE 0
             /\ pc'[w] \in {"runStore", "runDec"} => reg'[w] = runningJobs'
  BY <1>0 DEF CountInv
<1>2. CASE \/ LockWorker(w) \/ TestEmpty(w) \/ LoadLevel(w) \/ CompareLevel(w)
           \/ Sleep(w) \/ Wake(w) \/ CheckShouldStop(w) \/ UnlockAgain(w)
           \/ LockQueue(w)
  BY <1>0, <1>a, <1>1, <1>2
     DEF LockWorker, TestEmpty, LoadLevel, CompareLevel, Sleep, Wake,
         CheckShouldStop, UnlockAgain, LockQueue
<1>3. CASE receiveJobFromBuffer(w)
  BY <1>0, <1>a, <1>1, <1>3 DEF receiveJobFromBuffer, getJobTriplate, CopyFront,
     EraseFront, LoadSize, StoreSize, Abort
<1>4. CASE SignalController(w) \/ IncreaseBusyWorkers(w)
  BY <1>0, <1>a, <1>1, <1>4 DEF SignalController, IncreaseBusyWorkers
<1>5. CASE executeJob(w)
  BY <1>0, <1>a, <1>1, <1>5
     DEF executeJob, Fork, increaseRunningJobs, sendJobOutputToClient, OutputMissing
<1>6. CASE DecreaseRunningJobs(w)
  BY <1>0, <1>a, <1>1, <1>6 DEF DecreaseRunningJobs
<1>7. CASE DecreaseBusyWorkers(w) \/ NotifyJobDone(w)
  BY <1>0, <1>a, <1>1, <1>7 DEF DecreaseBusyWorkers, NotifyJobDone
<1> QED BY <1>2, <1>3, <1>4, <1>5, <1>6, <1>7 DEF WorkerNext

(* Every step keeps the count.                                               *)
LEMMA CountStep ==
  ASSUME OneWorker, TypeOK, Handoff, CountInv, [Next]_vars
  PROVE  CountInv'
<1>1. CASE UNCHANGED vars \/ SpuriousWakeup \/ BufferRaceAborts
  BY <1>1, CountKept DEF vars, SpuriousWakeup, BufferRaceAborts, Abort, localVars,
                         counterVars
<1>2. CASE MainNext
  <2>1. \A w \in Workers : pc'[w] = pc[w]
    BY <1>2, ThreadsDistinct
       DEF MainNext, AcceptConnection, RunFails, CreateController, AwaitController,
       TestShouldStop, NotifyWorkersToExit, JoinWorkers, Handoff, TypeOK, PcType,
       Threads, Goto, At
  <2>2. UNCHANGED <<runningJobs, reg>>
    BY <1>2
       DEF MainNext, AcceptConnection, RunFails, CreateController, AwaitController,
       TestShouldStop, NotifyWorkersToExit, JoinWorkers, counterVars, localVars
  <2> QED BY <2>1, <2>2, CountKept
<1> QED BY <1>1, <1>2, CountWorker, ControllerLeavesCount, CountKept DEF Next

(* RunningJobsCounted: with one worker whose jobs do not fail, runningJobs is  *)
(* 0 whenever that worker has no job in hand (workerThread.cpp:305,           *)
(* server.cpp:421).                                                           *)
THEOREM OneWorkerCounts ==
  ASSUME OneWorker
  PROVE  Spec => []RunningJobsCounted
<1>1. Init => CountInv
  <2> SUFFICES ASSUME Init, NEW w \in Workers
               PROVE  pc[w] = "idle" /\ runningJobs = 0
    BY DEF CountInv, Counted
  <2> QED BY ThreadsDistinct DEF Init, Threads
<1>2. TypeOK /\ Handoff /\ CountInv /\ [Next]_vars => CountInv'
  BY CountStep
<1>3. CountInv => RunningJobsCounted
  BY DEF OneWorker, CountInv, RunningJobsCounted
<1> QED BY <1>1, <1>2, <1>3, TypeAndHandoff, PTL DEF Spec

-------------------------------------------------------------------------------
(* Nothing ends the process                                                  *)

FoundLabels == {"level", "compare", "lockQueue", "front", "erase"}

(* A worker that has found the queue not empty is still right when it takes   *)
(* the job, under another mutex: nobody else takes one.                      *)
FoundInv ==
  \A w \in Workers :
    pc[w] \in FoundLabels => buffer # << >>

(* Every level a client sends is a number.                                   *)
Numeric == \A k \in Commands : k.arg # NotANumber

(* A disciplined controller makes the queue longer at most, and ends nothing. *)
LEMMA ControllerAdds ==
  ASSUME Disciplined, Numeric, TypeOK, Handoff, MutualExclusion, QueueInv,
         NEW c \in Clients, ControllerNext(c)
  PROVE  /\ buffer # << >> => buffer' # << >>
         /\ UNCHANGED process
<1> USE DEF TypeOK, PcType, Threads, Goto, Move, At, queueVars, localVars, LoadSize,
            StoreSize
<1>0. \/ pc[c] \in OrderlyLabels /\ clientCommand(c) \in Commands
      \/ pc[c] \in {"start", "unborn"}
  BY DEF QueueInv, Handoff, SocketHandoff, clientCommand
<1>1. CASE ReadSocket(c) \/ executeTask(c) \/ ContinueServer(c)
  BY <1>1 DEF ReadSocket, executeTask, ContinueServer
<1>2. CASE insertNewJobToBufferQueue(c)
  <2>1. PushBack(c) \/ UNCHANGED <<buffer, process>>
    BY <1>2 DEF insertNewJobToBufferQueue, LockFull, TestFull, SleepFull, WakeFull,
       CheckCanceled, TakeJobID, LockInsert, InsertJob, insertJobTriplate,
       TestCapacity, RespondSubmitted, WakeWorker
  <2>2. CASE PushBack(c)
    BY <2>2, AppendProperties DEF PushBack
  <2> QED BY <2>1, <2>2
<1>3. CASE setServerConcurrencyLevel(c)
  BY <1>0, <1>3 DEF setServerConcurrencyLevel, SetConcurrency, Numeric,
     RespondConcurrencySet, WakeTest, WakeSignal
<1>4. CASE sendWaitingJobsToClient(c)
  BY <1>0, <1>4 DEF sendWaitingJobsToClient, PollSize, PollTest, PollAt,
                    OrderlyLabels
<1>5. CASE removeJobFromBufferQueue(c)
  BY <1>0, <1>5 DEF removeJobFromBufferQueue, RemoveJob, removeJobTriplateByID,
     SearchTest, SearchAt, EraseAt, RespondRemoved, NotifyRemoved, OrderlyLabels,
     PollingLabels
<1>6. CASE terminateServer(c)
  BY <1>0, <1>6 DEF terminateServer, StopIssuers, CancelIssuers, DrainTest, DrainJob,
     getJobTriplate, CopyFront, EraseFront, NotifyDrained, TestJobsDone,
     SleepJobsDone, WakeJobsDone, RespondTerminated, StopServer, OrderlyLabels,
     PollingLabels
<1> QED BY <1>1, <1>2, <1>3, <1>4, <1>5, <1>6 DEF ControllerNext

(* The worker finds a job where it looked for one.                           *)
LEMMA WorkerFinds ==
  ASSUME OneWorker, TypeOK, QueueInv, FoundInv, NEW w \in Workers, WorkerNext(w)
  PROVE  FoundInv' /\ UNCHANGED process
<1> USE DEF TypeOK, PcType, Threads, Goto, Step, At, queueVars, localVars, LoadSize,
            StoreSize
<1>0. Workers = {w} /\ w \in Threads /\ ~ForkMayFail
  BY DEF OneWorker
<1>1. pc[w] \in FoundLabels => buffer # << >>
  BY DEF FoundInv, FoundLabels
<1> SUFFICES /\ pc'[w] \in FoundLabels => buffer' # << >>
             /\ UNCHANGED process
  BY <1>0 DEF FoundInv, FoundLabels
<1> USE DEF FoundLabels
<1>2. CASE TestEmpty(w)
  <2>1. ~isEmpty => buffer # << >>
    <3>1. pc[w] = "test" /\ ~Removing
      BY <1>0, <1>2 DEF TestEmpty, Removing
    <3>2. Len(buffer) = size \/ Len(buffer) = size + 1
      BY <3>1 DEF QueueInv, SizeTracksBuffer
    <3> QED BY <3>2, ParametersInRange, EmptySeq DEF isEmpty, UInt
  <2> QED BY <1>0, <1>2, <2>1 DEF TestEmpty
<1>3. CASE \/ LockWorker(w) \/ LoadLevel(w) \/ CompareLevel(w) \/ Sleep(w)
           \/ Wake(w) \/ CheckShouldStop(w) \/ UnlockAgain(w) \/ LockQueue(w)
  BY <1>0, <1>1, <1>3
     DEF LockWorker, LoadLevel, CompareLevel, Sleep, Wake, CheckShouldStop,
         UnlockAgain, LockQueue
<1>4. CASE receiveJobFromBuffer(w)
  BY <1>0, <1>1, <1>4 DEF receiveJobFromBuffer, getJobTriplate, CopyFront,
     EraseFront
<1>5. CASE SignalController(w) \/ IncreaseBusyWorkers(w) \/ executeJob(w)
  BY <1>0, <1>5
     DEF SignalController, IncreaseBusyWorkers, executeJob, Fork,
         increaseRunningJobs, sendJobOutputToClient, OutputMissing
<1>6. CASE DecreaseRunningJobs(w) \/ DecreaseBusyWorkers(w) \/ NotifyJobDone(w)
  BY <1>0, <1>6 DEF DecreaseRunningJobs, DecreaseBusyWorkers, NotifyJobDone
<1> QED BY <1>2, <1>3, <1>4, <1>5, <1>6 DEF WorkerNext

(* Every step finds what it looks for.                                       *)
LEMMA FoundStep ==
  ASSUME OneWorker, Disciplined, Numeric, TypeOK, Handoff, MutualExclusion, QueueInv,
         BufferRaceFree, FoundInv, NeverAborts, [Next]_vars
  PROVE  FoundInv' /\ NeverAborts'
<1>1. CASE UNCHANGED vars \/ SpuriousWakeup
  BY <1>1 DEF vars, SpuriousWakeup, FoundInv, NeverAborts, queueVars
<1>2. CASE BufferRaceAborts
  BY <1>2 DEF BufferRaceAborts, BufferRaceFree
<1>3. CASE MainNext
  <2>1. \A w \in Workers : pc'[w] = pc[w]
    BY <1>3, ThreadsDistinct
       DEF MainNext, AcceptConnection, RunFails, CreateController, AwaitController,
       TestShouldStop, NotifyWorkersToExit, JoinWorkers, Handoff, TypeOK, PcType,
       Threads, Goto, At
  <2>2. UNCHANGED buffer /\ (UNCHANGED process \/ process' = "exited")
    BY <1>3
       DEF MainNext, AcceptConnection, RunFails, CreateController, AwaitController,
       TestShouldStop, NotifyWorkersToExit, JoinWorkers, queueVars
  <2> QED BY <2>1, <2>2 DEF FoundInv, NeverAborts
<1>4. ASSUME NEW c \in Clients, ControllerNext(c)
      PROVE  FoundInv' /\ NeverAborts'
  <2>1. \A w \in Workers : pc'[w] = pc[w]
    BY <1>4, ControllerLeavesCount
  <2>2. (buffer # << >> => buffer' # << >>) /\ UNCHANGED process
    BY <1>4, ControllerAdds
  <2> QED BY <2>1, <2>2 DEF FoundInv, NeverAborts
<1>5. ASSUME NEW w \in Workers, WorkerNext(w)
      PROVE  FoundInv' /\ NeverAborts'
  BY <1>5, WorkerFinds DEF NeverAborts
<1> QED BY <1>1, <1>2, <1>3, <1>4, <1>5 DEF Next

(* NeverAborts: with one worker whose jobs do not fail, and while clients     *)
(* only issue jobs and set levels that are numbers, no step of any thread    *)
(* ends the process: no job is taken from an empty queue, although a worker   *)
(* tests it under one mutex and takes the job under another                  *)
(* (server.cpp:391, server.cpp:409).                                         *)
THEOREM OneWorkerNeverAborts ==
  ASSUME OneWorker, Disciplined, Numeric
  PROVE  Spec => []NeverAborts
<1>1. Init => FoundInv /\ NeverAborts
  <2> SUFFICES ASSUME Init PROVE FoundInv /\ NeverAborts
    OBVIOUS
  <2>1. \A w \in Workers : pc[w] = "idle"
    BY ThreadsDistinct DEF Init, Threads
  <2>2. process = "running"
    BY DEF Init
  <2> QED BY <2>1, <2>2 DEF FoundInv, FoundLabels, NeverAborts
<1>2. TypeOK /\ Handoff /\ MutualExclusion /\ QueueInv /\ BufferRaceFree
        /\ (FoundInv /\ NeverAborts) /\ [Next]_vars => (FoundInv /\ NeverAborts)'
  BY FoundStep
<1>3. Spec => []QueueInv
  BY QueueCorrect DEF Orderly, Disciplined
<1>4. Spec => []BufferRaceFree
  BY NoBufferRace
<1> QED BY <1>1, <1>2, <1>3, <1>4, TypeAndHandoff, SectionsExclusive, PTL DEF Spec
===============================================================================
