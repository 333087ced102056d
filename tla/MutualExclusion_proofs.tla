-------------------------- MODULE MutualExclusion_proofs --------------------------
(*****************************************************************************)
(* The mutexes exclude, and the server that stops accepts nobody: proofs    *)
(* for every number of workers and clients and every set of commands.       *)
(*****************************************************************************)
EXTENDS JobExecutorServer_proofs

(* A worker leaves its loop only once the server stops, and the flag is never *)
(* taken back; the main thread is past accept() by then.                      *)
StopInv ==
  /\ serverStop => pc[Main] \in {"await", "loop", "closing", "join", "returned"}
  /\ \A w \in Workers : At(w, "stopping") => serverStop

(* What a step of t does to the mutexes: it takes a free one, releases one    *)
(* it is in a section of, or leaves it alone and enters no section of it.     *)
(* Once the server stops, mutex_worker is excepted.                           *)
MutexStep(t, m) ==
  \/ mutex'[m] = mutex[m] /\ (Holds(t, m)' => Holds(t, m))
  \/ mutex[m] = NoThread /\ mutex'[m] = t
  \/ mutex'[m] = NoThread /\ Holds(t, m) /\ ~Holds(t, m)'
  \/ m = "worker" /\ serverStop

ThreadStep(t) ==
  /\ \A u \in Threads \ {t}, m \in Mutexes : Holds(u, m)' => Holds(u, m)
  /\ serverStop => serverStop'
  /\ \A m \in Mutexes : MutexStep(t, m)

(* Steps of this kind keep the sections exclusive.                           *)
LEMMA ExclusionKept ==
  ASSUME TypeOK, MutualExclusion, NEW t \in Threads, ThreadStep(t)
  PROVE  MutualExclusion'
<1> USE DEF TypeOK, PcType, Mutexes
<1>1. NoThread \notin Threads
  BY ThreadsDistinct DEF Threads
<1>2. \A u \in Threads \ {t}, m \in Mutexes : Holds(u, m)' => Holds(u, m)
  BY DEF ThreadStep
<1>3. ASSUME NEW u \in Threads, NEW m \in Mutexes, Holds(u, m)',
             m = "worker" => ~serverStop'
      PROVE  mutex'[m] = u
  <2>1. MutexStep(t, m) /\ (m = "worker" => ~serverStop)
    BY <1>3 DEF ThreadStep
  <2>2. Holds(u, m) => mutex[m] = u
    BY <1>3, <2>1 DEF MutualExclusion
  <2>3. CASE u = t
    BY <1>3, <2>1, <2>2, <2>3 DEF MutexStep
  <2>4. CASE u # t
    <3>1. mutex[m] = u
      BY <1>2, <1>3, <2>2, <2>4
    <3>2. ~Holds(t, m)
      BY <2>1, <2>4, <3>1 DEF MutualExclusion
    <3> QED BY <1>1, <2>1, <2>4, <3>1, <3>2 DEF MutexStep
  <2> QED BY <2>3, <2>4
<1> QED BY <1>3 DEF MutualExclusion

(* The server starts outside every section.                                  *)
LEMMA ExclusionInit == Init => MutualExclusion /\ StopInv
<1> SUFFICES ASSUME Init PROVE MutualExclusion /\ StopInv
  OBVIOUS
<1>1. \A t \in Threads : pc[t] \in {"accept", "idle", "unborn"} /\ ~serverStop
  BY DEF Init
<1>2. \A t \in Threads, m \in Mutexes : ~Holds(t, m)
  BY <1>1 DEF Holds
<1>3. MutualExclusion
  BY <1>2 DEF MutualExclusion, Mutexes
<1>4. StopInv
  BY <1>1 DEF StopInv, At, Threads
<1> QED BY <1>3, <1>4

-------------------------------------------------------------------------------

(* The main thread is in no section a step can see.                          *)
LEMMA MainSections ==
  ASSUME TypeOK, Handoff, MainNext
  PROVE  ThreadStep(Main)
<1> USE DEF TypeOK, PcType, Threads, flagVars, At, Goto
<1>1. \A u \in Threads \ {Main}, m \in Mutexes : Holds(u, m)' => Holds(u, m)
  <2>1. CASE CreateController
    <3>1. client_socket \in Clients /\ pc[client_socket] = "unborn"
      BY <2>1 DEF CreateController, Handoff
    <3>2. \A u \in Threads \ {Main} :
             pc'[u] = IF u = client_socket THEN "start" ELSE pc[u]
      BY <2>1, <3>1, ThreadsDistinct DEF CreateController
    <3> QED BY <3>2 DEF Holds
  <2>2. CASE ~CreateController
    <3>1. \A u \in Threads \ {Main} : pc'[u] = pc[u]
      BY <2>2 DEF MainNext, AcceptConnection, RunFails, AwaitController,
         TestShouldStop, NotifyWorkersToExit, JoinWorkers
    <3> QED BY <3>1 DEF Holds
  <2> QED BY <2>1, <2>2
<1>2. UNCHANGED serverStop
  BY DEF MainNext, AcceptConnection, RunFails, CreateController, AwaitController,
     TestShouldStop, NotifyWorkersToExit, JoinWorkers
<1>3. ASSUME NEW m \in Mutexes
      PROVE  MutexStep(Main, m)
  <2>1. mutex' = mutex
    BY
       DEF MainNext, AcceptConnection, RunFails, CreateController, AwaitController,
       TestShouldStop, NotifyWorkersToExit, JoinWorkers, Section
  <2>2. pc'[Main] \in {"create", "failed", "await", "loop", "closing", "accept",
                      "join", "returned"} \/ pc' = pc
    BY ThreadsDistinct
       DEF MainNext, AcceptConnection, RunFails, CreateController, AwaitController,
       TestShouldStop, NotifyWorkersToExit, JoinWorkers, Handoff
  <2>3. ~Holds(Main, m)' \/ pc' = pc
    BY <2>2, ThreadsDistinct DEF Holds
  <2> QED BY <2>1, <2>3 DEF MutexStep, Holds
<1> QED BY <1>1, <1>2, <1>3 DEF ThreadStep

(* A thread that moves alone changes nobody else's sections.                 *)
LEMMA OthersKeepSections ==
  ASSUME NEW t \in Threads, PcType, pc' = [pc EXCEPT ![t] = pc'[t]]
  PROVE  \A u \in Threads \ {t}, m \in Mutexes : Holds(u, m)' => Holds(u, m)
<1>1. \A u \in Threads \ {t} : pc'[u] = pc[u]
  BY DEF PcType
<1> QED BY <1>1 DEF Holds

(* A step that leaves the mutexes alone and ends outside every section, or in *)
(* the section it began in.                                                   *)
LEMMA StepWithin ==
  ASSUME NEW t \in Threads, PcType, pc' = [pc EXCEPT ![t] = pc'[t]],
         UNCHANGED mutex, serverStop => serverStop',
         \A m \in Mutexes : Holds(t, m)' => Holds(t, m)
  PROVE  ThreadStep(t)
BY OthersKeepSections DEF ThreadStep, MutexStep

(* A worker locks before and unlocks after its sections.                     *)
LEMMA WorkerSections ==
  ASSUME TypeOK, StopInv, NEW w \in Workers, WorkerNext(w)
  PROVE  ThreadStep(w)
<1> USE ThreadsDistinct
    DEF TypeOK, PcType, flagVars, At, Goto, Step, Lock, Unlock, Section
<1>0. w \in Threads /\ w \notin Clients
  BY DEF Threads
<1>1. CASE LockWorker(w)
  BY <1>0, <1>1, OthersKeepSections
     DEF LockWorker, ThreadStep, MutexStep, Holds, Mutexes
<1>2. CASE TestEmpty(w) \/ LoadLevel(w)
  BY <1>0, <1>2, StepWithin DEF TestEmpty, LoadLevel, Holds
<1>3. CASE CompareLevel(w)
  BY <1>0, <1>3, OthersKeepSections
     DEF CompareLevel, ThreadStep, MutexStep, Holds, Mutexes
<1>4. CASE Sleep(w) \/ Wake(w)
  BY <1>0, <1>4, OthersKeepSections
     DEF Sleep, Wake, ThreadStep, MutexStep, Holds, Mutexes
<1>5. CASE CheckShouldStop(w)
  BY <1>0, <1>5, OthersKeepSections
     DEF CheckShouldStop, ThreadStep, MutexStep, Holds, Mutexes
<1>6. CASE UnlockAgain(w)
  BY <1>0, <1>6, OthersKeepSections
     DEF UnlockAgain, StopInv, ThreadStep, MutexStep, Holds, Mutexes
<1>7. CASE LockQueue(w)
  BY <1>0, <1>7, OthersKeepSections
     DEF LockQueue, ThreadStep, MutexStep, Holds, Mutexes
<1>8. CASE receiveJobFromBuffer(w)
  <2>1. CASE getJobTriplate(w)
    BY <1>0, <2>1, StepWithin DEF getJobTriplate, CopyFront, EraseFront, LoadSize,
                                  Abort, Holds
  <2>2. CASE StoreSize(w, "takeStore", Dec(reg[w]), "signal") /\ Unlock("jobInsertion")
    BY <1>0, <2>2, OthersKeepSections
       DEF StoreSize, ThreadStep, MutexStep, Holds, Mutexes
  <2> QED BY <1>8, <2>1, <2>2 DEF receiveJobFromBuffer
<1>9. CASE SignalController(w) \/ IncreaseBusyWorkers(w) \/ executeJob(w)
           \/ NotifyJobDone(w)
  <2>1. CASE SignalController(w)
    BY <1>0, <2>1, StepWithin DEF SignalController, Abort, Holds
  <2>2. CASE IncreaseBusyWorkers(w)
    BY <1>0, <2>2, StepWithin DEF IncreaseBusyWorkers, Abort, Holds
  <2>3. CASE Fork(w)
    BY <1>0, <2>3, StepWithin DEF Fork, Abort, Holds
  <2>4. CASE increaseRunningJobs(w)
    BY <1>0, <2>4, StepWithin DEF increaseRunningJobs, Abort, Holds
  <2>5. CASE sendJobOutputToClient(w)
    BY <1>0, <2>5, StepWithin DEF sendJobOutputToClient, Abort, Holds
  <2>6. CASE NotifyJobDone(w)
    BY <1>0, <2>6, StepWithin DEF NotifyJobDone, Abort, Holds
  <2>7. CASE OutputMissing(w)
    BY <1>0, <2>7, StepWithin DEF OutputMissing, Abort, Holds
  <2> QED BY <1>9, <2>1, <2>2, <2>3, <2>4, <2>5, <2>6, <2>7
          DEF executeJob
<1>10. CASE DecreaseRunningJobs(w)
  BY <1>0, <1>10, OthersKeepSections
     DEF DecreaseRunningJobs, ThreadStep, MutexStep, Holds, Mutexes
<1>11. CASE DecreaseBusyWorkers(w)
  BY <1>0, <1>11, OthersKeepSections
     DEF DecreaseBusyWorkers, ThreadStep, MutexStep, Holds, Mutexes
<1> QED BY <1>1, <1>2, <1>3, <1>4, <1>5, <1>6, <1>7, <1>8, <1>9, <1>10, <1>11
        DEF WorkerNext

(* A controller locks before and unlocks after its sections.                 *)
LEMMA ControllerSections ==
  ASSUME TypeOK, NEW c \in Clients, ControllerNext(c)
  PROVE  ThreadStep(c)
<1> USE ThreadsDistinct
    DEF TypeOK, PcType, flagVars, At, Goto, Move, Lock, Unlock, Section
<1>0. c \in Threads /\ c \notin Workers
  BY DEF Threads
<1>1. CASE ReadSocket(c)
  BY <1>0, <1>1, StepWithin DEF ReadSocket, Holds
<1>2. CASE executeTask(c) \/ ContinueServer(c)
  <2>1. pc'[c] \in {"stopIssuers", "finished", "handshake", "lockFull", "setLevel",
                   "pollSize", "search"}
    BY <1>0, <1>2 DEF executeTask, ContinueServer, FirstLabel, AfterHandshake
  <2>2. \A m \in Mutexes : ~Holds(c, m)'
    BY <1>0, <2>1 DEF Holds
  <2> QED BY <1>0, <1>2, <2>2, StepWithin DEF executeTask, ContinueServer
<1>3. CASE insertNewJobToBufferQueue(c)
  <2> USE DEF ThreadStep, MutexStep, Holds, Mutexes
  <2>1. CASE LockFull(c)
    BY <1>0, <2>1, OthersKeepSections DEF LockFull
  <2>2. CASE TestFull(c)
    BY <1>0, <2>2, OthersKeepSections DEF TestFull
  <2>3. CASE SleepFull(c) \/ WakeFull(c)
    BY <1>0, <2>3, OthersKeepSections DEF SleepFull, WakeFull
  <2>4. CASE CheckCanceled(c)
    BY <1>0, <2>4, OthersKeepSections DEF CheckCanceled
  <2>5. CASE TakeJobID(c)
    BY <1>0, <2>5, StepWithin DEF TakeJobID
  <2>6. CASE LockInsert(c)
    BY <1>0, <2>6, OthersKeepSections DEF LockInsert
  <2>7. CASE InsertJob(c)
    BY <1>0, <2>7, OthersKeepSections
       DEF InsertJob, insertJobTriplate, TestCapacity, PushBack, LoadSize, StoreSize
  <2>8. CASE RespondSubmitted(c) \/ WakeWorker(c)
    BY <1>0, <2>8, StepWithin DEF RespondSubmitted, WakeWorker
  <2> QED BY <1>3, <2>1, <2>2, <2>3, <2>4, <2>5, <2>6, <2>7, <2>8
          DEF insertNewJobToBufferQueue
<1>4. CASE setServerConcurrencyLevel(c)
  <2>1. CASE SetConcurrency(c)
    BY <1>0, <2>1, StepWithin DEF SetConcurrency, Abort, Holds
  <2>2. CASE RespondConcurrencySet(c)
    BY <1>0, <2>2, StepWithin DEF RespondConcurrencySet, Abort, Holds
  <2>3. CASE WakeTest(c)
    BY <1>0, <2>3, StepWithin DEF WakeTest, Abort, Holds
  <2>4. CASE WakeSignal(c)
    BY <1>0, <2>4, StepWithin DEF WakeSignal, Abort, Holds
  <2> QED BY <1>4, <2>1, <2>2, <2>3, <2>4
          DEF setServerConcurrencyLevel
<1>5. CASE sendWaitingJobsToClient(c)
  <2>1. CASE PollSize(c)
    BY <1>0, <2>1, StepWithin DEF PollSize, Abort, Holds
  <2>2. CASE PollTest(c)
    BY <1>0, <2>2, StepWithin DEF PollTest, Abort, Holds
  <2>3. CASE PollAt(c)
    BY <1>0, <2>3, StepWithin DEF PollAt, Abort, Holds
  <2> QED BY <1>5, <2>1, <2>2, <2>3
          DEF sendWaitingJobsToClient
<1>6. CASE removeJobFromBufferQueue(c)
  <2>1. CASE SearchTest(c, "notFound")
    BY <1>0, <2>1, StepWithin DEF SearchTest, Abort, Holds
  <2>2. CASE SearchAt(c, clientCommand(c).arg)
    <3>1. pc'[c] \in {"searchAt", "search", "eraseAt"}
      BY <1>0, <2>2 DEF SearchAt, Abort
    <3>2. \A m \in Mutexes : ~Holds(c, m)'
      BY <1>0, <3>1 DEF Holds
    <3>3. pc' = [pc EXCEPT ![c] = pc'[c]]
      BY <1>0, <2>2 DEF SearchAt, Abort
    <3>4. UNCHANGED <<mutex, serverStop>>
      BY <2>2 DEF SearchAt, Abort
    <3> QED BY <1>0, <3>2, <3>3, <3>4, StepWithin
  <2>3. CASE EraseAt(c)
    BY <1>0, <2>3, StepWithin DEF EraseAt, Abort, Holds
  <2>4. CASE LoadSize(c, "removeLoad", "removeStore")
    BY <1>0, <2>4, StepWithin DEF LoadSize, Abort, Holds
  <2>5. CASE StoreSize(c, "removeStore", Dec(reg[c]), "removed") /\ UNCHANGED mutex
    BY <1>0, <2>5, StepWithin DEF StoreSize, Abort, Holds
  <2>6. CASE RespondRemoved(c)
    BY <1>0, <2>6, StepWithin DEF RespondRemoved, Abort, Holds
  <2>7. CASE NotifyRemoved(c)
    BY <1>0, <2>7, StepWithin DEF NotifyRemoved, Abort, Holds
  <2> QED BY <1>6, <2>1, <2>2, <2>3, <2>4, <2>5, <2>6, <2>7
          DEF removeJobFromBufferQueue, RemoveJob, removeJobTriplateByID
<1>7. CASE terminateServer(c)
  <2>1. CASE StopIssuers(c) \/ CancelIssuers(c)
    BY <1>0, <2>1, StepWithin DEF StopIssuers, CancelIssuers, Abort, Holds
  <2>2. CASE DrainTest(c)
    BY <1>0, <2>2, StepWithin DEF DrainTest, Abort, Holds
  <2>3. CASE CopyFront(c)
    BY <1>0, <2>3, StepWithin DEF CopyFront, Abort, Holds
  <2>4. CASE EraseFront(c)
    BY <1>0, <2>4, StepWithin DEF EraseFront, Abort, Holds
  <2>5. CASE LoadSize(c, "takeLoad", "takeStore")
    BY <1>0, <2>5, StepWithin DEF LoadSize, Abort, Holds
  <2>6. CASE StoreSize(c, "takeStore", Dec(reg[c]), "drainSend") /\ UNCHANGED mutex
    BY <1>0, <2>6, StepWithin DEF StoreSize, Abort, Holds
  <2>7. CASE NotifyDrained(c)
    BY <1>0, <2>7, StepWithin DEF NotifyDrained, Abort, Holds
  <2>8. CASE TestJobsDone(c)
    BY <1>0, <2>8, StepWithin DEF TestJobsDone, Abort, Holds
  <2>9. CASE SleepJobsDone(c)
    BY <1>0, <2>9, StepWithin DEF SleepJobsDone, Abort, Holds
  <2>10. CASE WakeJobsDone(c)
    BY <1>0, <2>10, StepWithin DEF WakeJobsDone, Abort, Holds
  <2>11. CASE RespondTerminated(c)
    BY <1>0, <2>11, StepWithin DEF RespondTerminated, Abort, Holds
  <2>12. CASE StopServer(c)
    BY <1>0, <2>12, StepWithin DEF StopServer, Abort, Holds
  <2> QED BY <1>7, <2>1, <2>2, <2>3, <2>4, <2>5, <2>6, <2>7, <2>8, <2>9, <2>10, <2>11, <2>12
          DEF terminateServer, DrainJob, getJobTriplate
<1> QED BY <1>1, <1>2, <1>3, <1>4, <1>5, <1>6, <1>7 DEF ControllerNext

-------------------------------------------------------------------------------
(* The stop flag                                                             *)

(* The main thread only reads the flag, on its way out of the loop.          *)
LEMMA StopMain ==
  ASSUME TypeOK, Handoff, StopInv, MainNext
  PROVE  StopInv'
<1> USE ThreadsDistinct DEF TypeOK, PcType, Threads, flagVars, At, Goto
<1>1. \A w \in Workers : pc'[w] = pc[w]
  BY DEF MainNext, AcceptConnection, RunFails, CreateController, AwaitController,
     TestShouldStop, NotifyWorkersToExit, JoinWorkers, Handoff
<1>2. UNCHANGED serverStop
  BY DEF MainNext, AcceptConnection, RunFails, CreateController, AwaitController,
     TestShouldStop, NotifyWorkersToExit, JoinWorkers
<1>3. serverStop => pc'[Main] \in {"await", "loop", "closing", "join", "returned"}
  BY DEF MainNext, AcceptConnection, RunFails, CreateController, AwaitController,
     TestShouldStop, NotifyWorkersToExit, JoinWorkers, StopInv
<1> QED BY <1>1, <1>2, <1>3 DEF StopInv

(* A worker only reads the flag, on its way out of the loop.                 *)
LEMMA StopWorker ==
  ASSUME TypeOK, StopInv, NEW w \in Workers, WorkerNext(w)
  PROVE  StopInv'
<1> USE ThreadsDistinct DEF TypeOK, PcType, Threads, flagVars, At, Goto, Step
<1>1. /\ UNCHANGED serverStop
      /\ pc' = [pc EXCEPT ![w] = pc'[w]]
      /\ At(w, "stopping")' => At(w, "stopping") \/ serverStop
  <2>1. CASE CheckShouldStop(w)
    BY <2>1 DEF CheckShouldStop
  <2>2. CASE receiveJobFromBuffer(w)
    BY <2>2
       DEF receiveJobFromBuffer, getJobTriplate, CopyFront, EraseFront, LoadSize,
                StoreSize, Abort
  <2>3. CASE \/ LockWorker(w) \/ TestEmpty(w) \/ LoadLevel(w) \/ CompareLevel(w)
             \/ Sleep(w) \/ Wake(w) \/ UnlockAgain(w) \/ LockQueue(w)
    BY <2>3 DEF LockWorker, TestEmpty, LoadLevel, CompareLevel, Sleep, Wake,
                UnlockAgain, LockQueue
  <2>4. CASE \/ SignalController(w) \/ IncreaseBusyWorkers(w) \/ executeJob(w)
             \/ DecreaseRunningJobs(w) \/ DecreaseBusyWorkers(w) \/ NotifyJobDone(w)
    BY <2>4 DEF SignalController, IncreaseBusyWorkers, executeJob, Fork,
                increaseRunningJobs, sendJobOutputToClient, OutputMissing, Abort,
                DecreaseRunningJobs, DecreaseBusyWorkers, NotifyJobDone
  <2> QED BY <2>1, <2>2, <2>3, <2>4 DEF WorkerNext
<1> QED BY <1>1 DEF StopInv

(* Only a terminator sets the flag, and Main awaits it by then.              *)
LEMMA StopController ==
  ASSUME TypeOK, Handoff, StopInv, NEW c \in Clients, ControllerNext(c)
  PROVE  StopInv'
<1> USE ThreadsDistinct DEF TypeOK, PcType, Threads, flagVars, At, Goto, Move
<1>1. /\ pc' = [pc EXCEPT ![c] = pc'[c]]
      /\ UNCHANGED serverStop \/ StopServer(c)
  <2>1. CASE ReadSocket(c) \/ executeTask(c) \/ ContinueServer(c)
    BY <2>1 DEF ReadSocket, executeTask, ContinueServer
  <2>2. CASE insertNewJobToBufferQueue(c)
    BY <2>2
       DEF insertNewJobToBufferQueue, LockFull, TestFull, SleepFull, WakeFull,
       CheckCanceled, TakeJobID, LockInsert, InsertJob, insertJobTriplate,
       TestCapacity, PushBack, LoadSize, StoreSize, RespondSubmitted, WakeWorker
  <2>3. CASE setServerConcurrencyLevel(c)
    BY <2>3 DEF setServerConcurrencyLevel, SetConcurrency, RespondConcurrencySet,
       WakeTest, WakeSignal, Abort
  <2>4. CASE sendWaitingJobsToClient(c)
    BY <2>4 DEF sendWaitingJobsToClient, PollSize, PollTest, PollAt, Abort
  <2>5. CASE removeJobFromBufferQueue(c)
    BY <2>5 DEF removeJobFromBufferQueue, RemoveJob, removeJobTriplateByID,
       SearchTest, SearchAt, EraseAt, LoadSize, StoreSize, RespondRemoved,
       NotifyRemoved, Abort
  <2>6. CASE terminateServer(c)
    BY <2>6 DEF terminateServer, StopIssuers, CancelIssuers, DrainTest, DrainJob,
       getJobTriplate, CopyFront, EraseFront, LoadSize, StoreSize, NotifyDrained,
       TestJobsDone, SleepJobsDone, WakeJobsDone, RespondTerminated, StopServer, Abort
  <2> QED BY <2>1, <2>2, <2>3, <2>4, <2>5, <2>6 DEF ControllerNext
<1>2. StopServer(c) => At(Main, "await")
  BY DEF StopServer, Handoff, PendingLabels
<1> QED BY <1>1, <1>2 DEF StopInv, StopServer

(* Only the main thread writes run()'s local.                                *)
LEMMA WorkerLeavesSocket ==
  ASSUME NEW w \in Workers, WorkerNext(w)
  PROVE  client_socket' = client_socket
BY DEF WorkerNext, LockWorker, TestEmpty, LoadLevel, CompareLevel, Sleep, Wake,
       CheckShouldStop, UnlockAgain, LockQueue, receiveJobFromBuffer, getJobTriplate,
       CopyFront, EraseFront, LoadSize, StoreSize, SignalController,
       IncreaseBusyWorkers, executeJob, Fork, increaseRunningJobs,
       sendJobOutputToClient, OutputMissing, DecreaseRunningJobs,
       DecreaseBusyWorkers, NotifyJobDone, Abort, localVars

(* A controller copies the local and never writes it.                        *)
LEMMA ControllerLeavesSocket ==
  ASSUME NEW c \in Clients, ControllerNext(c)
  PROVE  client_socket' = client_socket
<1> USE DEF Abort, LoadSize, StoreSize, localVars
<1>1. CASE ReadSocket(c) \/ executeTask(c) \/ ContinueServer(c)
  BY <1>1 DEF ReadSocket, executeTask, ContinueServer
<1>2. CASE insertNewJobToBufferQueue(c)
  BY <1>2 DEF insertNewJobToBufferQueue, LockFull, TestFull, SleepFull, WakeFull,
     CheckCanceled, TakeJobID, LockInsert, InsertJob, insertJobTriplate,
     TestCapacity, PushBack, RespondSubmitted, WakeWorker
<1>3. CASE setServerConcurrencyLevel(c) \/ sendWaitingJobsToClient(c)
  BY <1>3 DEF setServerConcurrencyLevel, SetConcurrency, RespondConcurrencySet,
     WakeTest, WakeSignal, sendWaitingJobsToClient, PollSize, PollTest, PollAt
<1>4. CASE removeJobFromBufferQueue(c)
  BY <1>4 DEF removeJobFromBufferQueue, RemoveJob, removeJobTriplateByID,
     SearchTest, SearchAt, EraseAt, RespondRemoved, NotifyRemoved
<1>5. CASE terminateServer(c)
  BY <1>5 DEF terminateServer, StopIssuers, CancelIssuers, DrainTest, DrainJob,
     getJobTriplate, CopyFront, EraseFront, NotifyDrained, TestJobsDone,
     SleepJobsDone, WakeJobsDone, RespondTerminated, StopServer
<1> QED BY <1>1, <1>2, <1>3, <1>4, <1>5 DEF ControllerNext

(* Every step keeps the sections exclusive and the stop flag's invariant.     *)
LEMMA ExclusionStep ==
  ASSUME TypeOK, Handoff, MutualExclusion, StopInv, [Next]_vars
  PROVE  MutualExclusion' /\ StopInv'
<1>1. CASE UNCHANGED vars
  BY <1>1 DEF vars, flagVars, MutualExclusion, StopInv, Holds, At
<1>2. CASE SpuriousWakeup \/ BufferRaceAborts
  BY <1>2 DEF SpuriousWakeup, BufferRaceAborts, Abort, flagVars, MutualExclusion,
              StopInv, Holds, At
<1>3. CASE MainNext
  <2>1. Main \in Threads
    BY DEF Threads
  <2> QED BY <1>3, <2>1, MainSections, StopMain, ExclusionKept
<1>4. ASSUME NEW w \in Workers, WorkerNext(w)
      PROVE  MutualExclusion' /\ StopInv'
  <2>1. w \in Threads
    BY DEF Threads
  <2> QED BY <1>4, <2>1, WorkerSections, StopWorker, ExclusionKept
<1>5. ASSUME NEW c \in Clients, ControllerNext(c)
      PROVE  MutualExclusion' /\ StopInv'
  <2>1. c \in Threads
    BY DEF Threads
  <2> QED BY <1>5, <2>1, ControllerSections, StopController, ExclusionKept
<1> QED BY <1>1, <1>2, <1>3, <1>4, <1>5 DEF Next

(* The inductive invariant of this module.                                   *)
THEOREM ExclusionCorrect == Spec => [](MutualExclusion /\ StopInv)
<1>1. Init => MutualExclusion /\ StopInv
  BY ExclusionInit
<1>2. TypeOK /\ Handoff /\ (MutualExclusion /\ StopInv) /\ [Next]_vars
        => (MutualExclusion /\ StopInv)'
  BY ExclusionStep
<1> QED BY <1>1, <1>2, TypeAndHandoff, PTL DEF Spec

(* MutualExclusion: a thread inside a section of mutex_controller,           *)
(* mutex_jobInsertion or, until the server stops, mutex_worker owns it.       *)
THEOREM SectionsExclusive == Spec => []MutualExclusion
BY ExclusionCorrect, PTL

(* NoneAcceptedAfterStop: run() takes no connection after terminateServer()   *)
(* has set the server's flag (controllerThread.cpp:352-357).                  *)
THEOREM AcceptsNobodyAfterStop == Spec => NoneAcceptedAfterStop
<1>1. TypeOK /\ Handoff /\ StopInv /\ [Next]_vars
        => [serverStop => client_socket' = client_socket]_vars
  <2> SUFFICES ASSUME TypeOK, Handoff, StopInv, Next, serverStop
               PROVE  client_socket' = client_socket
    OBVIOUS
  <2>1. CASE SpuriousWakeup \/ BufferRaceAborts
    BY <2>1 DEF SpuriousWakeup, BufferRaceAborts, Abort, localVars
  <2>2. CASE MainNext
    BY <2>2 DEF MainNext, AcceptConnection, RunFails, CreateController,
       AwaitController, TestShouldStop, NotifyWorkersToExit, JoinWorkers, StopInv,
       At, localVars
  <2>3. ASSUME NEW w \in Workers, WorkerNext(w)
        PROVE  client_socket' = client_socket
    BY <2>3, WorkerLeavesSocket
  <2>4. ASSUME NEW c \in Clients, ControllerNext(c)
        PROVE  client_socket' = client_socket
    BY <2>4, ControllerLeavesSocket
  <2> QED BY <2>1, <2>2, <2>3, <2>4 DEF Next
<1> QED BY <1>1, TypeAndHandoff, ExclusionCorrect, PTL
           DEF Spec, NoneAcceptedAfterStop
===============================================================================
