-------------------------- MODULE QueueDiscipline_proofs --------------------------
(*****************************************************************************)
(* The waiting queue while no client sends stop or exit: proofs that its    *)
(* size is right, and, without poll, that mutex_jobInsertion protects it.    *)
(*****************************************************************************)
EXTENDS MutualExclusion_proofs

(* No client sends stop or exit, which change the vector without its mutex.   *)
Orderly == \A k \in Commands : k.mode \in QueueCommands \cup {"poll"}

(* Nor poll, which reads it without.                                         *)
Disciplined == \A k \in Commands : k.mode \in QueueCommands

PollingLabels == {"pollSize", "poll", "pollAt"}

(* The labels of the controllers that serve those commands, those of poll     *)
(* where some client may send it.                                            *)
OrderlyLabels ==
  {"unborn", "start", "receive", "handshake", "lockFull", "testFull", "sleepFull",
   "asleepFull", "wokenFull", "idLoad", "idStore", "idRead", "lockInsert",
   "testCapacity", "push", "pushLoad", "pushStore", "respond", "wakeWorker",
   "setLevel", "concurrencySet", "wakeTest", "wakeSignal", "finished"}
  \cup {label \in PollingLabels : ~Disciplined}

(* Between the test of the capacity and the push, and between the load and    *)
(* the store of size, nobody else changes the queue.                          *)
QueueInv ==
  /\ \A c \in Clients : pc[c] \in OrderlyLabels
  /\ SizeTracksBuffer
  /\ \A c \in Clients : At(c, "push") => size < Capacity
  /\ \A c \in Clients : At(c, "pushStore") => reg[c] = size
  /\ \A w \in Workers : At(w, "takeStore") => reg[w] = size

(* Two threads in a section of mutex_jobInsertion are one.                   *)
LEMMA OneInserter ==
  ASSUME MutualExclusion, NEW t \in Threads, NEW u \in Threads,
         Holds(t, "jobInsertion"), Holds(u, "jobInsertion")
  PROVE  t = u
BY DEF MutualExclusion

(* A thread changes the queue, or has loaded its size, at these labels.       *)
UpdateLabels == {"push", "pushLoad", "pushStore", "erase", "takeLoad", "takeStore"}

(* A step that leaves the queue and those labels alone keeps the invariant.  *)
LEMMA QueueKept ==
  ASSUME TypeOK, QueueInv, NEW t \in Workers \cup Clients, UNCHANGED queueVars,
         pc' = [pc EXCEPT ![t] = pc'[t]],
         \A u \in Threads \ {t} : reg'[u] = reg[u],
         pc[t] \notin UpdateLabels \ {"erase"},
         pc'[t] \notin UpdateLabels \ {"erase"},
         t \in Clients => pc'[t] \in OrderlyLabels
  PROVE  QueueInv'
<1> USE DEF TypeOK, PcType, Threads, UpdateLabels, At, queueVars
<1>1. \A u \in Threads : u # t => pc'[u] = pc[u]
  OBVIOUS
<1>2. (Adding' <=> Adding) /\ (Removing' <=> Removing)
  BY <1>1 DEF Adding, Removing
<1>3. SizeTracksBuffer'
  BY <1>2 DEF SizeTracksBuffer, QueueInv
<1>4. \A c \in Clients : pc'[c] \in OrderlyLabels
  BY <1>1 DEF QueueInv
<1> QED BY <1>1, <1>3, <1>4 DEF QueueInv

(* While one thread is in a section of mutex_jobInsertion, the others are     *)
(* neither adding nor removing.                                               *)
LEMMA InserterAlone ==
  ASSUME TypeOK, MutualExclusion, NEW t \in Threads, Holds(t, "jobInsertion"),
         NEW u \in Threads \ {t}
  PROVE  /\ u \in Clients => pc[u] \notin {"push", "pushLoad", "pushStore"}
         /\ u \in Workers => pc[u] \notin {"erase", "takeLoad", "takeStore"}
BY OneInserter DEF Holds

-------------------------------------------------------------------------------

(* A worker's removal changes the vector and its size together.              *)
LEMMA QueueWorker ==
  ASSUME TypeOK, MutualExclusion, QueueInv, NEW w \in Workers, WorkerNext(w)
  PROVE  QueueInv'
<1> USE ThreadsDistinct
    DEF At, Goto, Step, Threads, UpdateLabels, queueVars, counterVars, flagVars,
        localVars, LoadReg, ClearReg
<1>0. /\ pc \in [Threads -> MainLabels \cup WorkerLabels \cup ControllerLabels]
      /\ reg \in [Threads -> UInt]
      /\ w \notin Clients
  BY DEF TypeOK, PcType
<1>1. CASE \/ LockWorker(w) \/ TestEmpty(w) \/ LoadLevel(w) \/ CompareLevel(w)
           \/ Sleep(w) \/ Wake(w) \/ CheckShouldStop(w) \/ UnlockAgain(w) \/ LockQueue(w)
  BY <1>0, <1>1, QueueKept
     DEF LockWorker, TestEmpty, LoadLevel, CompareLevel, Sleep, Wake,
         CheckShouldStop, UnlockAgain, LockQueue
<1>2. CASE /\ ~Abort
           /\ \/ SignalController(w) \/ IncreaseBusyWorkers(w) \/ executeJob(w)
              \/ DecreaseRunningJobs(w) \/ DecreaseBusyWorkers(w)
              \/ NotifyJobDone(w)
  BY <1>0, <1>2, QueueKept
     DEF SignalController, IncreaseBusyWorkers, executeJob, Fork, increaseRunningJobs,
         sendJobOutputToClient, OutputMissing, DecreaseRunningJobs,
         DecreaseBusyWorkers, NotifyJobDone
<1>3. CASE Abort
  BY <1>3 DEF Abort, QueueInv, SizeTracksBuffer, Adding, Removing
<1>4. CASE CopyFront(w) /\ ~Abort
  BY <1>0, <1>4, QueueKept DEF CopyFront
<1>5. CASE EraseFront(w) /\ ~Abort
  <2>1. ~Adding /\ ~Removing
    BY <1>5, InserterAlone DEF EraseFront, Holds, Adding, Removing
  <2>2. buffer # << >> /\ buffer' = Tail(buffer) /\ size' = size /\ reg' = reg
        /\ pc' = [pc EXCEPT ![w] = "takeLoad"]
    BY <1>5 DEF EraseFront
  <2>3. ~Adding' /\ Removing'
    BY <1>0, <2>1, <2>2 DEF Adding, Removing
  <2>4. Len(buffer') = size' - 1 /\ Len(buffer') <= Capacity
    BY <2>1, <2>2, ParametersInRange DEF QueueInv, SizeTracksBuffer, TypeOK
  <2>5. SizeTracksBuffer'
    BY <2>3, <2>4 DEF SizeTracksBuffer
  <2> QED BY <1>0, <2>2, <2>5 DEF QueueInv
<1>6. CASE LoadSize(w, "takeLoad", "takeStore")
  <2>1. (Adding' <=> Adding) /\ (Removing' <=> Removing)
    BY <1>0, <1>6 DEF LoadSize, Adding, Removing
  <2>2. SizeTracksBuffer'
    BY <1>6, <2>1 DEF LoadSize, QueueInv, SizeTracksBuffer
  <2> QED BY <1>0, <1>6, <2>2 DEF LoadSize, QueueInv
<1>7. CASE StoreSize(w, "takeStore", Dec(reg[w]), "signal")
  <2>1. reg[w] = size /\ Removing /\ ~Adding
    BY <1>7, InserterAlone DEF StoreSize, QueueInv, Adding, Removing, Holds
  <2>2. Len(buffer) = size - 1 /\ Len(buffer) \in Nat /\ size \in UInt
    BY <2>1 DEF QueueInv, SizeTracksBuffer, TypeOK
  <2>3. size' = size - 1
    BY <1>7, <2>1, <2>2, ParametersInRange DEF StoreSize, Dec, UInt
  <2>4. ~Adding' /\ ~Removing'
    BY <1>0, <1>7, InserterAlone, <2>1 DEF StoreSize, Adding, Removing, Holds
  <2>5. SizeTracksBuffer'
    BY <1>7, <2>2, <2>3, <2>4 DEF StoreSize, QueueInv, SizeTracksBuffer
  <2>6. \A u \in Threads \ {w} : /\ u \in Clients => pc[u] \notin {"push", "pushStore"}
                                 /\ u \in Workers => pc[u] # "takeStore"
    BY <1>7, InserterAlone DEF StoreSize, Holds
  <2> QED BY <1>0, <1>7, <2>5, <2>6 DEF StoreSize, QueueInv
<1> QED BY <1>1, <1>2, <1>3, <1>4, <1>5, <1>6, <1>7
        DEF WorkerNext, receiveJobFromBuffer, getJobTriplate

(* An issuer's insertion changes the vector and its size together.           *)
LEMMA QueueController ==
  ASSUME Orderly, TypeOK, Handoff, MutualExclusion, QueueInv,
         NEW c \in Clients, ControllerNext(c)
  PROVE  QueueInv'
<1> USE ThreadsDistinct
    DEF At, Goto, Move, Threads, UpdateLabels, queueVars, counterVars, flagVars,
        localVars, LoadReg, ClearReg
<1>0. /\ pc \in [Threads -> MainLabels \cup WorkerLabels \cup ControllerLabels]
      /\ reg \in [Threads -> UInt]
      /\ c \notin Workers
      /\ pc[c] \in OrderlyLabels
  BY DEF TypeOK, PcType, QueueInv
<1>1. CASE ReadSocket(c)
  BY <1>0, <1>1, QueueKept DEF ReadSocket, OrderlyLabels
<1>2. CASE executeTask(c) \/ ContinueServer(c)
  <2>1. pc[c] \in {"receive", "handshake"}
    BY <1>2 DEF executeTask, ContinueServer
  <2>2. /\ clientCommand(c).mode \in QueueCommands \cup {"poll"}
        /\ clientCommand(c).mode = "poll" => ~Disciplined
    <3>1. clientCommand(c) \in Commands
      BY <2>1 DEF clientCommand, Handoff, SocketHandoff, TypeOK
    <3> QED BY <3>1 DEF Orderly, Disciplined, QueueCommands
  <2>3. /\ FirstLabel(clientCommand(c).mode) \in {"handshake", "finished"}
        /\ \/ AfterHandshake(clientCommand(c).mode) \in
                 {"lockFull", "setLevel", "finished"}
           \/ AfterHandshake(clientCommand(c).mode) = "pollSize" /\ ~Disciplined
    BY <2>2 DEF FirstLabel, AfterHandshake, QueueCommands
  <2>4. \/ pc'[c] \in {"handshake", "finished", "lockFull", "setLevel"}
        \/ pc'[c] = "pollSize" /\ ~Disciplined
    BY <1>0, <1>2, <2>3 DEF executeTask, ContinueServer
  <2> QED BY <1>0, <1>2, <2>1, <2>4, QueueKept
          DEF executeTask, ContinueServer, OrderlyLabels, PollingLabels
<1>3. CASE insertNewJobToBufferQueue(c)
  <2>1. CASE \/ LockFull(c) \/ TestFull(c) \/ SleepFull(c) \/ WakeFull(c)
             \/ CheckCanceled(c) \/ TakeJobID(c) \/ LockInsert(c)
             \/ RespondSubmitted(c) \/ WakeWorker(c)
    BY <1>0, <2>1, QueueKept
       DEF LockFull, TestFull, SleepFull, WakeFull, CheckCanceled, TakeJobID,
           LockInsert, RespondSubmitted, WakeWorker, OrderlyLabels
  <2>2. CASE TestCapacity(c, "respond")
    <3>1. CASE Goto(c, "respond")
      BY <1>0, <2>2, <3>1, QueueKept DEF TestCapacity, OrderlyLabels
    <3>2. CASE Goto(c, "push") /\ size < Capacity
      <4>1. (Adding' <=> Adding) /\ (Removing' <=> Removing)
        BY <1>0, <2>2, <3>2 DEF TestCapacity, Adding, Removing
      <4>2. SizeTracksBuffer'
        BY <2>2, <4>1 DEF TestCapacity, QueueInv, SizeTracksBuffer
      <4> QED BY <1>0, <2>2, <3>2, <4>2
                 DEF TestCapacity, QueueInv, OrderlyLabels
    <3> QED BY <2>2, <3>1, <3>2 DEF TestCapacity
  <2>3. CASE PushBack(c)
    <3>1. ~Adding /\ ~Removing /\ size < Capacity
      BY <2>3, InserterAlone DEF PushBack, Holds, Adding, Removing, QueueInv
    <3>2. buffer' = Append(buffer, triplate[c]) /\ size' = size /\ reg' = reg
          /\ pc' = [pc EXCEPT ![c] = "pushLoad"]
      BY <2>3 DEF PushBack
    <3>3. Adding' /\ ~Removing'
      BY <1>0, <3>1, <3>2 DEF Adding, Removing
    <3>4. Len(buffer') = size' + 1 /\ Len(buffer') <= Capacity
      BY <3>1, <3>2, ParametersInRange
         DEF QueueInv, SizeTracksBuffer, TypeOK, UInt
    <3>5. SizeTracksBuffer'
      BY <3>3, <3>4 DEF SizeTracksBuffer
    <3> QED BY <1>0, <3>2, <3>5 DEF QueueInv, OrderlyLabels
  <2>4. CASE LoadSize(c, "pushLoad", "pushStore")
    <3>1. (Adding' <=> Adding) /\ (Removing' <=> Removing)
      BY <1>0, <2>4 DEF LoadSize, Adding, Removing
    <3>2. SizeTracksBuffer'
      BY <2>4, <3>1 DEF LoadSize, QueueInv, SizeTracksBuffer
    <3> QED BY <1>0, <2>4, <3>2 DEF LoadSize, QueueInv, OrderlyLabels
  <2>5. CASE StoreSize(c, "pushStore", Inc(reg[c]), "respond")
    <3>1. reg[c] = size /\ Adding /\ ~Removing
      BY <2>5, InserterAlone DEF StoreSize, QueueInv, Adding, Removing, Holds
    <3>2. Len(buffer) = size + 1 /\ Len(buffer) <= Capacity /\ size \in UInt
      BY <3>1 DEF QueueInv, SizeTracksBuffer, TypeOK
    <3>3. size' = size + 1
      BY <2>5, <3>1, <3>2, ParametersInRange DEF StoreSize, Inc, UInt
    <3>4. ~Adding' /\ ~Removing'
      BY <1>0, <2>5, InserterAlone, <3>1 DEF StoreSize, Adding, Removing, Holds
    <3>5. SizeTracksBuffer'
      BY <2>5, <3>2, <3>3, <3>4 DEF StoreSize, QueueInv, SizeTracksBuffer
    <3>6. \A u \in Threads \ {c} : /\ u \in Clients => pc[u] \notin {"push", "pushStore"}
                                   /\ u \in Workers => pc[u] # "takeStore"
      BY <2>5, InserterAlone DEF StoreSize, Holds
    <3> QED BY <1>0, <2>5, <3>5, <3>6 DEF StoreSize, QueueInv, OrderlyLabels
  <2> QED BY <1>3, <2>1, <2>2, <2>3, <2>4, <2>5
          DEF insertNewJobToBufferQueue, InsertJob, insertJobTriplate
<1>4. CASE setServerConcurrencyLevel(c)
  <2>1. CASE Abort
    BY <2>1 DEF Abort, QueueInv, SizeTracksBuffer, Adding, Removing
  <2>2. CASE ~Abort
    BY <1>0, <1>4, <2>2, QueueKept
       DEF setServerConcurrencyLevel, SetConcurrency, RespondConcurrencySet, WakeTest,
           WakeSignal, OrderlyLabels
  <2> QED BY <2>1, <2>2
<1>5. CASE sendWaitingJobsToClient(c)
  <2>1. CASE Abort
    BY <2>1 DEF Abort, QueueInv, SizeTracksBuffer, Adding, Removing
  <2>2. CASE ~Abort
    <3>1. pc[c] \in PollingLabels /\ ~Disciplined
      BY <1>0, <1>5 DEF sendWaitingJobsToClient, PollSize, PollTest, PollAt,
                        OrderlyLabels, PollingLabels
    <3>2. pc'[c] \in PollingLabels \cup {"finished"}
      BY <1>0, <1>5, <2>2 DEF sendWaitingJobsToClient, PollSize, PollTest, PollAt,
                              PollingLabels
    <3>3. pc'[c] \in OrderlyLabels
      BY <3>1, <3>2 DEF OrderlyLabels
    <3> QED BY <1>0, <1>5, <2>2, <3>1, <3>2, <3>3, QueueKept
               DEF sendWaitingJobsToClient, PollSize, PollTest, PollAt, PollingLabels
  <2> QED BY <2>1, <2>2
<1>6. CASE removeJobFromBufferQueue(c)
  BY <1>0, <1>6 DEF removeJobFromBufferQueue, RemoveJob, removeJobTriplateByID,
     SearchTest, SearchAt, EraseAt, LoadSize, StoreSize, RespondRemoved,
     NotifyRemoved, OrderlyLabels, PollingLabels
<1>7. CASE terminateServer(c)
  BY <1>0, <1>7
     DEF terminateServer, StopIssuers, CancelIssuers, DrainTest, DrainJob,
     getJobTriplate, CopyFront, EraseFront, LoadSize, StoreSize, NotifyDrained,
     TestJobsDone, SleepJobsDone, WakeJobsDone, RespondTerminated, StopServer,
     OrderlyLabels, PollingLabels
<1> QED BY <1>1, <1>2, <1>3, <1>4, <1>5, <1>6, <1>7 DEF ControllerNext

(* The main thread does not touch the queue.                                 *)
LEMMA QueueMain ==
  ASSUME TypeOK, Handoff, QueueInv, MainNext
  PROVE  QueueInv'
<1> USE ThreadsDistinct DEF TypeOK, PcType, Threads, At, Goto, queueVars, localVars
<1>1. UNCHANGED <<buffer, size, reg>>
  BY DEF MainNext, AcceptConnection, RunFails, CreateController, AwaitController,
     TestShouldStop, NotifyWorkersToExit, JoinWorkers
<1>2. \A w \in Workers : pc'[w] = pc[w]
  BY DEF MainNext, AcceptConnection, RunFails, CreateController, AwaitController,
     TestShouldStop, NotifyWorkersToExit, JoinWorkers, Handoff
<1>3. \A c \in Clients : pc'[c] = pc[c] \/ (pc[c] = "unborn" /\ pc'[c] = "start")
  BY DEF MainNext, AcceptConnection, RunFails, CreateController, AwaitController,
     TestShouldStop, NotifyWorkersToExit, JoinWorkers, Handoff
<1>4. (Adding' <=> Adding) /\ (Removing' <=> Removing)
  BY <1>2, <1>3 DEF Adding, Removing
<1>5. SizeTracksBuffer'
  BY <1>1, <1>4 DEF SizeTracksBuffer, QueueInv
<1> QED BY <1>1, <1>2, <1>3, <1>5 DEF QueueInv, OrderlyLabels

(* The queue starts empty.                                                   *)
LEMMA QueueInit == Init => QueueInv
<1> SUFFICES ASSUME Init PROVE QueueInv
  OBVIOUS
<1>1. /\ \A c \in Clients : pc[c] = "unborn"
      /\ \A w \in Workers : pc[w] = "idle"
  BY ThreadsDistinct DEF Init, Threads
<1>2. ~Adding /\ ~Removing
  BY <1>1 DEF Adding, Removing
<1>3. SizeTracksBuffer
  BY <1>2, ParametersInRange DEF Init, SizeTracksBuffer
<1> QED BY <1>1, <1>3 DEF QueueInv, At, OrderlyLabels

(* Every step keeps the queue's invariant.                                   *)
LEMMA QueueStep ==
  ASSUME Orderly, TypeOK, Handoff, MutualExclusion, QueueInv, [Next]_vars
  PROVE  QueueInv'
<1>1. CASE UNCHANGED vars \/ SpuriousWakeup \/ BufferRaceAborts
  BY <1>1 DEF vars, SpuriousWakeup, BufferRaceAborts, Abort, queueVars, localVars,
              QueueInv, SizeTracksBuffer, Adding, Removing, At
<1> QED BY <1>1, QueueMain, QueueWorker, QueueController DEF Next

(* The queue's inductive invariant, if no client sends stop or exit.         *)
THEOREM QueueCorrect ==
  ASSUME Orderly
  PROVE  Spec => []QueueInv
<1>1. Init => QueueInv
  BY QueueInit
<1>2. TypeOK /\ Handoff /\ MutualExclusion /\ QueueInv /\ [Next]_vars => QueueInv'
  BY QueueStep
<1> QED BY <1>1, <1>2, TypeAndHandoff, ExclusionCorrect, PTL DEF Spec

(* SizeTracksBuffer: size is right outside the sections, and the queue never  *)
(* outgrows bufferSize, if no client sends stop or exit.                      *)
THEOREM SizeIsRight ==
  ASSUME Orderly
  PROVE  Spec => []SizeTracksBuffer
<1>1. QueueInv => SizeTracksBuffer
  BY DEF QueueInv
<1> QED BY <1>1, QueueCorrect, PTL

(* BufferRaceFree: the vector is never changed while another thread is inside *)
(* it, if no client sends poll, stop or exit.                                 *)
THEOREM NoBufferRace ==
  ASSUME Disciplined
  PROVE  Spec => []BufferRaceFree
<1>1. TypeOK /\ MutualExclusion /\ QueueInv => BufferRaceFree
  <2> SUFFICES ASSUME TypeOK, MutualExclusion, QueueInv,
                      NEW t \in Threads, NEW u \in Threads, t # u,
                      ModifiesBuffer(t), ModifiesBuffer(u) \/ ReadsBuffer(u)
               PROVE  FALSE
    BY DEF BufferRaceFree, BufferRace
  <2>1. ASSUME NEW v \in Threads, ModifiesBuffer(v) \/ ReadsBuffer(v)
        PROVE  Holds(v, "jobInsertion")
    BY <2>1
       DEF TypeOK, PcType, QueueInv, OrderlyLabels, PollingLabels, MainLabels,
                WorkerLabels, Threads, ModifiesBuffer, ReadsBuffer, Holds
  <2> QED BY <2>1, OneInserter
<1>2. Orderly
  BY DEF Orderly, Disciplined
<1>3. Spec => []QueueInv
  BY <1>2, QueueCorrect
<1> QED BY <1>1, <1>3, TypeAndHandoff, ExclusionCorrect, PTL
===============================================================================
