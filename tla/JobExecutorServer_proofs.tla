------------------------ MODULE JobExecutorServer_proofs ------------------------
(*****************************************************************************)
(* Proofs about JobExecutorServer for every number of workers and clients,  *)
(* every set of commands, every capacity and every integer width.           *)
(*****************************************************************************)
EXTENDS JobExecutorServer, SequenceTheorems, TLAPS

(* The wrapping counter operations stay within an unsigned integer.          *)
LEMMA CountersWrap ==
  ASSUME NEW n \in UInt
  PROVE  Inc(n) \in UInt /\ Dec(n) \in UInt
BY ParametersInRange DEF Inc, Dec, UInt

(* Erasing one element leaves a sequence over the same set.                  *)
LEMMA RemoveAtType ==
  ASSUME NEW S, NEW s \in Seq(S), NEW i \in 1 .. Len(s)
  PROVE  RemoveAt(s, i) \in Seq(S)
<1>1. SubSeq(s, 1, i - 1) \in Seq(S)
  <2>1. \A k \in 1 .. i - 1 : s[k] \in S
    OBVIOUS
  <2> QED BY <2>1, SubSeqProperties
<1>2. SubSeq(s, i + 1, Len(s)) \in Seq(S)
  <2>1. \A k \in i + 1 .. Len(s) : s[k] \in S
    OBVIOUS
  <2> QED BY <2>1, SubSeqProperties
<1> QED BY <1>1, <1>2, ConcatProperties DEF RemoveAt

(* What waiting, signalling and broadcasting make of the sets of waiters.    *)
BlockedType == blocked \in [CondVars -> SUBSET Threads]

(* A thread that waits joins the waiters of its condition variable.          *)
LEMMA CondWaitType ==
  ASSUME BlockedType, NEW t \in Threads, NEW cv \in CondVars, CondWait(t, cv)
  PROVE  BlockedType'
<1>1. blocked[cv] \cup {t} \in SUBSET Threads
  BY DEF BlockedType
<1> QED BY <1>1 DEF BlockedType, CondWait

(* A signal takes at most one waiter out.                                    *)
LEMMA CondSignalType ==
  ASSUME BlockedType, NEW cv \in CondVars, CondSignal(cv)
  PROVE  BlockedType'
<1>1. CASE UNCHANGED blocked
  BY <1>1 DEF BlockedType
<1>2. ASSUME NEW t, blocked' = [blocked EXCEPT ![cv] = @ \ {t}]
      PROVE  BlockedType'
  <2>1. blocked[cv] \ {t} \in SUBSET Threads
    BY DEF BlockedType
  <2> QED BY <1>2, <2>1 DEF BlockedType
<1> QED BY <1>1, <1>2 DEF CondSignal

(* A broadcast takes all of them out.                                        *)
LEMMA CondBroadcastType ==
  ASSUME BlockedType, NEW cv \in CondVars, CondBroadcast(cv)
  PROVE  BlockedType'
BY DEF BlockedType, CondBroadcast

(* A message appended to what a client was sent is one of Messages.           *)
SentType == sent \in [Clients -> Seq(Messages)]

(* Sending keeps the type of what was sent, whomever it is sent to.          *)
LEMMA SendType ==
  ASSUME SentType, NEW c, NEW message \in Messages, Send(c, message)
  PROVE  SentType'
<1>1. ASSUME NEW d \in Clients
      PROVE  sent'[d] \in Seq(Messages)
  BY <1>1, AppendProperties DEF SentType, Send
<1>2. sent' = [d \in Clients |-> sent'[d]]
  BY DEF SentType, Send
<1> QED BY <1>1, <1>2 DEF SentType

-------------------------------------------------------------------------------

(* A jump to a label of the thread's own keeps the program counters typed.    *)
LEMMA GotoType ==
  ASSUME PcType, NEW t \in Threads, NEW l, Goto(t, l),
         \/ t = Main /\ l \in MainLabels
         \/ t \in Workers /\ l \in WorkerLabels
         \/ t \in Clients /\ l \in ControllerLabels
  PROVE  PcType'
BY ThreadsDistinct DEF PcType, Goto, Threads

(* The server starts typed and with no hand-off under way.                   *)
LEMMA InitType == Init => TypeOK /\ Handoff
<1> SUFFICES ASSUME Init PROVE TypeOK /\ Handoff
  OBVIOUS
<1> USE ThreadsDistinct DEF Threads
<1>1. /\ pc[Main] = "accept"
      /\ \A w \in Workers : pc[w] = "idle"
      /\ \A c \in Clients : pc[c] = "unborn"
  BY DEF Init
<1>2. PcType
  BY <1>1 DEF Init, PcType, MainLabels, WorkerLabels, ControllerLabels
<1>3. UInt \subseteq Nat /\ 0 \in UInt /\ 1 \in UInt
  BY ParametersInRange DEF UInt
<1>4. NoTriplate \in Triplate
  BY <1>3 DEF NoTriplate, Triplate
<1>5. buffer \in Seq(Triplate) /\ sent \in [Clients -> Seq(Messages)]
  BY DEF Init
<1>6. TypeOK
  BY <1>2, <1>3, <1>4, <1>5 DEF Init, TypeOK
<1>7. Handoff
  BY <1>1 DEF Handoff, SocketHandoff, At, PendingLabels
<1> QED BY <1>6, <1>7

(* The steps of the main thread keep the types.                              *)
LEMMA MainType ==
  ASSUME TypeOK, Handoff, UNCHANGED command, MainNext
  PROVE  TypeOK'
<1> USE ThreadsDistinct
    DEF TypeOK, queueVars, counterVars, flagVars, localVars
<1>0. Main \in Threads /\ BlockedType
  BY DEF Threads, BlockedType
<1>1. ASSUME NEW c \in Clients, AcceptConnection(c)
      PROVE  TypeOK'
  <2>1. PcType'
    BY <1>0, <1>1, GotoType DEF AcceptConnection, MainLabels, PcType
  <2> QED BY <1>1, <2>1 DEF AcceptConnection
<1>2. CASE RunFails
  <2>1. PcType'
    BY <1>0, <1>2, GotoType DEF RunFails, MainLabels, PcType
  <2> QED BY <1>2, <2>1 DEF RunFails
<1>3. CASE CreateController
  <2>0. client_socket \in Clients
    BY <1>3 DEF CreateController, Handoff
  <2>2. /\ pc' = [pc EXCEPT ![Main] = "await", ![client_socket] = "start"]
        /\ "await" \in MainLabels
        /\ "start" \in ControllerLabels
    BY <1>3 DEF CreateController, MainLabels, ControllerLabels, PendingLabels
  <2>1. PcType'
    BY <2>0, <2>2 DEF PcType, Threads
  <2> QED BY <1>3, <2>1 DEF CreateController
<1>4. CASE AwaitController
  <2>1. PcType'
    BY <1>0, <1>4, GotoType DEF AwaitController, MainLabels, PcType
  <2>2. BlockedType'
    BY <1>0, <1>4, CondWaitType DEF AwaitController, CondVars, BlockedType
  <2> QED BY <1>4, <2>1, <2>2 DEF AwaitController, BlockedType
<1>5. CASE TestShouldStop
  <2>1. PcType'
    BY <1>0, <1>5, GotoType DEF TestShouldStop, MainLabels, PcType
  <2> QED BY <1>5, <2>1 DEF TestShouldStop
<1>6. CASE NotifyWorkersToExit
  <2>1. PcType'
    BY <1>0, <1>6, GotoType DEF NotifyWorkersToExit, MainLabels, PcType
  <2>2. BlockedType'
    BY <1>0, <1>6, CondBroadcastType
       DEF NotifyWorkersToExit, CondVars, BlockedType
  <2> QED BY <1>6, <2>1, <2>2 DEF NotifyWorkersToExit, BlockedType, Section
<1>7. CASE JoinWorkers
  <2>1. PcType'
    BY <1>0, <1>7, GotoType DEF JoinWorkers, MainLabels, PcType
  <2> QED BY <1>7, <2>1 DEF JoinWorkers
<1> QED BY <1>1, <1>2, <1>3, <1>4, <1>5, <1>6, <1>7 DEF MainNext

(* A queue element is a triplate; a removal from a queue that has one leaves  *)
(* a queue.                                                                   *)
LEMMA TakeType ==
  ASSUME buffer \in Seq(Triplate), buffer # << >>
  PROVE  Head(buffer) \in Triplate /\ Tail(buffer) \in Seq(Triplate)
OBVIOUS

(* The operations of the queue keep the types, whichever thread calls them.   *)
LEMMA QueueType ==
  ASSUME TypeOK, UNCHANGED command, NEW t \in Workers \cup Clients,
         getJobTriplate(t)
  PROVE  TypeOK'
<1> USE DEF TypeOK, queueVars, counterVars, flagVars, localVars
<1>0. t \in Threads
  BY DEF Threads
<1> DEFINE L == {"erase", "takeLoad", "takeStore"}
<1>1. L \subseteq WorkerLabels /\ L \subseteq ControllerLabels
  BY DEF WorkerLabels, ControllerLabels, PendingLabels
<1>2. CASE CopyFront(t)
  <2>1. CASE Abort
    BY <2>1 DEF Abort, PcType
  <2>2. CASE buffer # << >> /\ Goto(t, "erase")
    <3>1. PcType'
      BY <1>0, <1>1, <2>2, GotoType
    <3> QED BY <1>2, <2>2, <3>1, TakeType DEF CopyFront
  <2> QED BY <1>2, <2>1, <2>2 DEF CopyFront
<1>3. CASE EraseFront(t)
  <2>1. CASE Abort
    BY <2>1 DEF Abort, PcType
  <2>2. CASE buffer # << >> /\ Goto(t, "takeLoad")
    <3>1. PcType'
      BY <1>0, <1>1, <2>2, GotoType
    <3> QED BY <1>3, <2>2, <3>1, TakeType DEF EraseFront
  <2> QED BY <1>3, <2>1, <2>2 DEF EraseFront
<1>4. CASE LoadSize(t, "takeLoad", "takeStore")
  <2>1. PcType'
    BY <1>0, <1>1, <1>4, GotoType DEF LoadSize
  <2> QED BY <1>4, <2>1 DEF LoadSize, LoadReg
<1> QED BY <1>2, <1>3, <1>4 DEF getJobTriplate

(* The process that ends abruptly keeps the types of what it leaves behind.   *)
LEMMA AbortType ==
  ASSUME TypeOK, UNCHANGED command, Abort
  PROVE  TypeOK'
BY DEF Abort, TypeOK, PcType, queueVars, counterVars, flagVars, localVars

(* The load and the store of size++ and size-- keep the types.                *)
LEMMA SizeType ==
  ASSUME TypeOK, UNCHANGED command, NEW t \in Workers \cup Clients,
         NEW here, NEW value \in UInt,
         NEW next, t \in Workers => next \in WorkerLabels,
                   t \in Clients => next \in ControllerLabels,
         \/ LoadSize(t, here, next)
         \/ /\ StoreSize(t, here, value, next)
            /\ Unlock("jobInsertion") \/ UNCHANGED mutex
  PROVE  TypeOK'
<1> USE DEF TypeOK, queueVars, counterVars, flagVars, localVars, LoadReg, ClearReg,
            Unlock, Mutexes
<1>0. t \in Threads /\ 0 \in UInt
  BY ParametersInRange DEF Threads, UInt
<1>1. PcType'
  BY <1>0, GotoType DEF LoadSize, StoreSize
<1>2. CASE LoadSize(t, here, next)
  BY <1>0, <1>1, <1>2 DEF LoadSize
<1>3. CASE StoreSize(t, here, value, next) /\ (Unlock("jobInsertion") \/ UNCHANGED mutex)
  BY <1>0, <1>1, <1>3 DEF StoreSize
<1> QED BY <1>2, <1>3

(* The steps of a worker keep the types.                                     *)
LEMMA WorkerType ==
  ASSUME TypeOK, UNCHANGED command, NEW w \in Workers, WorkerNext(w)
  PROVE  TypeOK'
<1> USE DEF TypeOK, queueVars, counterVars, flagVars, localVars, Lock, Unlock,
            Section, LoadReg, ClearReg, Mutexes
<1>0. w \in Threads /\ 0 \in UInt /\ BlockedType
  BY ParametersInRange DEF Threads, UInt, BlockedType
<1>1. CASE LockWorker(w)
  <2>1. PcType'
    BY <1>0, <1>1, GotoType DEF LockWorker, Step, WorkerLabels
  <2> QED BY <1>0, <1>1, <2>1 DEF LockWorker
<1>2. CASE TestEmpty(w)
  <2>1. PcType'
    BY <1>0, <1>2, GotoType DEF TestEmpty, Step, WorkerLabels
  <2> QED BY <1>0, <1>2, <2>1 DEF TestEmpty
<1>3. CASE LoadLevel(w)
  <2>1. PcType'
    BY <1>0, <1>3, GotoType DEF LoadLevel, Step, WorkerLabels
  <2> QED BY <1>0, <1>3, <2>1 DEF LoadLevel
<1>4. CASE CompareLevel(w)
  <2>1. PcType'
    BY <1>0, <1>4, GotoType DEF CompareLevel, Step, WorkerLabels
  <2> QED BY <1>0, <1>4, <2>1 DEF CompareLevel
<1>5. CASE Sleep(w)
  <2>1. PcType'
    BY <1>0, <1>5, GotoType DEF Sleep, Step, WorkerLabels
  <2>2. BlockedType'
    BY <1>0, <1>5, CondWaitType DEF Sleep, CondVars
  <2> QED BY <1>0, <1>5, <2>1, <2>2 DEF Sleep, BlockedType
<1>6. CASE Wake(w)
  <2>1. PcType'
    BY <1>0, <1>6, GotoType DEF Wake, Step, WorkerLabels
  <2> QED BY <1>0, <1>6, <2>1 DEF Wake
<1>7. CASE CheckShouldStop(w)
  <2>1. PcType'
    BY <1>0, <1>7, GotoType DEF CheckShouldStop, Step, WorkerLabels
  <2> QED BY <1>0, <1>7, <2>1 DEF CheckShouldStop
<1>8. CASE UnlockAgain(w)
  <2>1. PcType'
    BY <1>0, <1>8, GotoType DEF UnlockAgain, Step, WorkerLabels
  <2> QED BY <1>0, <1>8, <2>1 DEF UnlockAgain
<1>9. CASE LockQueue(w)
  <2>1. PcType'
    BY <1>0, <1>9, GotoType DEF LockQueue, Step, WorkerLabels
  <2> QED BY <1>0, <1>9, <2>1 DEF LockQueue
<1>10. CASE receiveJobFromBuffer(w)
  <2>1. CASE getJobTriplate(w)
    BY <2>1, QueueType
  <2>2. CASE StoreSize(w, "takeStore", Dec(reg[w]), "signal")
             /\ Unlock("jobInsertion")
    <3>1. PcType'
      BY <1>0, <2>2, GotoType DEF StoreSize, Step, WorkerLabels
    <3> QED BY <1>0, <2>2, <3>1, CountersWrap DEF StoreSize
  <2> QED BY <1>10, <2>1, <2>2 DEF receiveJobFromBuffer
<1>11. CASE SignalController(w)
  <2>1. PcType'
    BY <1>0, <1>11, GotoType DEF SignalController, Step, WorkerLabels
  <2>2. BlockedType'
    BY <1>0, <1>11, CondSignalType DEF SignalController, CondVars
  <2> QED BY <1>0, <1>11, <2>1, <2>2 DEF SignalController, BlockedType
<1>12. CASE IncreaseBusyWorkers(w)
  <2>1. PcType'
    BY <1>0, <1>12, GotoType DEF IncreaseBusyWorkers, Step, WorkerLabels
  <2>2. busyWorkers' \in UInt
    BY <1>0, <1>12, CountersWrap DEF IncreaseBusyWorkers
  <2>3. reg' \in [Threads -> UInt]
    BY <1>0, <1>12 DEF IncreaseBusyWorkers
  <2> QED BY <1>12, <2>1, <2>2, <2>3 DEF IncreaseBusyWorkers
<1>13. CASE executeJob(w)
  <2>1. CASE Fork(w)
    <3>1. PcType'
      BY <1>0, <2>1, GotoType DEF Fork, Step, WorkerLabels
    <3> QED BY <1>0, <2>1, <3>1 DEF Fork
  <2>2. CASE increaseRunningJobs(w)
    <3>1. PcType'
      BY <1>0, <2>2, GotoType DEF increaseRunningJobs, Step, WorkerLabels
    <3>2. runningJobs' \in UInt
      BY <1>0, <2>2, CountersWrap DEF increaseRunningJobs
    <3>3. reg' \in [Threads -> UInt]
      BY <1>0, <2>2 DEF increaseRunningJobs
    <3> QED BY <2>2, <3>1, <3>2, <3>3 DEF increaseRunningJobs
  <2>3. CASE sendJobOutputToClient(w)
    <3>1. PcType'
      BY <1>0, <2>3, GotoType DEF sendJobOutputToClient, Step, WorkerLabels
    <3>2. SentType'
      BY <2>3, SendType DEF sendJobOutputToClient, SentType, Messages, JobMessages
    <3> QED BY <1>0, <2>3, <3>1, <3>2 DEF sendJobOutputToClient, SentType
  <2>4. CASE OutputMissing(w)
    BY <2>4, AbortType DEF OutputMissing
  <2> QED BY <1>13, <2>1, <2>2, <2>3, <2>4 DEF executeJob
<1>14. CASE DecreaseRunningJobs(w)
  <2>1. PcType'
    BY <1>0, <1>14, GotoType DEF DecreaseRunningJobs, Step, WorkerLabels
  <2>2. mutex' \in [Mutexes -> Threads \cup {NoThread}]
    BY <1>0, <1>14 DEF DecreaseRunningJobs
  <2>3. runningJobs' \in UInt
    BY <1>0, <1>14, CountersWrap DEF DecreaseRunningJobs
  <2>4. reg' \in [Threads -> UInt]
    BY <1>0, <1>14 DEF DecreaseRunningJobs
  <2> QED BY <1>14, <2>1, <2>2, <2>3, <2>4 DEF DecreaseRunningJobs
<1>15. CASE DecreaseBusyWorkers(w)
  <2>1. PcType'
    BY <1>0, <1>15, GotoType DEF DecreaseBusyWorkers, Step, WorkerLabels
  <2>2. mutex' \in [Mutexes -> Threads \cup {NoThread}]
    BY <1>0, <1>15 DEF DecreaseBusyWorkers
  <2>3. busyWorkers' \in UInt
    BY <1>0, <1>15, CountersWrap DEF DecreaseBusyWorkers
  <2>4. reg' \in [Threads -> UInt]
    BY <1>0, <1>15 DEF DecreaseBusyWorkers
  <2> QED BY <1>15, <2>1, <2>2, <2>3, <2>4 DEF DecreaseBusyWorkers
<1>16. CASE NotifyJobDone(w)
  <2>1. PcType'
    BY <1>0, <1>16, GotoType DEF NotifyJobDone, Step, WorkerLabels
  <2>2. BlockedType'
    BY <1>0, <1>16, CondSignalType DEF NotifyJobDone, CondVars
  <2> QED BY <1>0, <1>16, <2>1, <2>2
             DEF NotifyJobDone, BlockedType, NoTriplate, Triplate
<1> QED BY <1>1, <1>2, <1>3, <1>4, <1>5, <1>6, <1>7, <1>8, <1>9, <1>10, <1>11,
           <1>12, <1>13, <1>14, <1>15, <1>16 DEF WorkerNext

-------------------------------------------------------------------------------
(* The controllers                                                           *)

(* A command leads to one of the controllers' labels.                        *)
LEMMA TaskLabels ==
  ASSUME NEW mode
  PROVE  FirstLabel(mode) \in ControllerLabels /\ AfterHandshake(mode) \in ControllerLabels
<1>1. FirstLabel(mode) \in {"stopIssuers", "finished", "handshake"}
  BY DEF FirstLabel
<1>2. AfterHandshake(mode) \in {"lockFull", "setLevel", "pollSize", "search", "finished"}
  BY DEF AfterHandshake
<1> QED BY <1>1, <1>2 DEF ControllerLabels, PendingLabels, ServingLabels

(* The steps of an issuer. *)
LEMMA IssuerType ==
  ASSUME TypeOK, UNCHANGED command, NEW c \in Clients,
         insertNewJobToBufferQueue(c)
  PROVE  TypeOK'
<1> USE DEF TypeOK, queueVars, counterVars, flagVars, localVars, Lock, Unlock,
            Section, LoadReg, ClearReg, Mutexes
<1>0. c \in Threads /\ 0 \in UInt /\ BlockedType /\ SentType
  BY ParametersInRange DEF Threads, UInt, BlockedType, SentType
<1>1. CASE LockFull(c)
  <2>1. PcType'
    BY <1>0, <1>1, GotoType
       DEF LockFull, Move, ControllerLabels, PendingLabels, ServingLabels
  <2> QED BY <1>0, <1>1, <2>1 DEF LockFull
<1>2. CASE TestFull(c)
  <2>1. PcType'
    BY <1>0, <1>2, GotoType
       DEF TestFull, Move, ControllerLabels, PendingLabels, ServingLabels
  <2> QED BY <1>0, <1>2, <2>1 DEF TestFull
<1>3. CASE SleepFull(c)
  <2>1. PcType'
    BY <1>0, <1>3, GotoType
       DEF SleepFull, Move, ControllerLabels, PendingLabels, ServingLabels
  <2>2. BlockedType'
    BY <1>0, <1>3, CondWaitType DEF SleepFull, CondVars, BlockedType
  <2> QED BY <1>0, <1>3, <2>1, <2>2 DEF SleepFull, BlockedType
<1>4. CASE WakeFull(c)
  <2>1. PcType'
    BY <1>0, <1>4, GotoType
       DEF WakeFull, Move, ControllerLabels, PendingLabels, ServingLabels
  <2> QED BY <1>0, <1>4, <2>1 DEF WakeFull
<1>5. CASE CheckCanceled(c)
  <2>1. PcType'
    BY <1>0, <1>5, GotoType
       DEF CheckCanceled, Move, ControllerLabels, PendingLabels, ServingLabels
  <2>2. SentType'
    BY <1>0, <1>5, SendType DEF CheckCanceled, Respond, SentType, Messages, JobMessages
  <2> QED BY <1>0, <1>5, <2>1, <2>2 DEF CheckCanceled, SentType
<1>6. CASE TakeJobID(c)
  <2>1. PcType'
    <3>1. \/ Goto(c, "idStore")
          \/ Goto(c, "idRead")
          \/ Goto(c, "lockInsert")
      BY <1>6 DEF TakeJobID, Move
    <3> QED BY <1>0, <3>1, GotoType
               DEF ControllerLabels, PendingLabels, ServingLabels
  <2>2. jobsEntered' \in UInt
    BY <1>0, <1>6, CountersWrap DEF TakeJobID
  <2>3. reg' \in [Threads -> UInt]
    BY <1>0, <1>6 DEF TakeJobID
  <2>4. triplate' \in [Threads -> Triplate]
    <3>1. [jobID |-> jobsEntered, socketID |-> clientSocket[c]] \in Triplate
      BY DEF Triplate
    <3> QED BY <1>0, <1>6, <3>1 DEF TakeJobID
  <2> QED BY <1>6, <2>1, <2>2, <2>3, <2>4 DEF TakeJobID
<1>7. CASE LockInsert(c)
  <2>1. PcType'
    BY <1>0, <1>7, GotoType
       DEF LockInsert, Move, ControllerLabels, PendingLabels, ServingLabels
  <2> QED BY <1>0, <1>7, <2>1 DEF LockInsert
<1>8. CASE InsertJob(c)
  <2> USE DEF ControllerLabels, PendingLabels, ServingLabels
  <2>1. CASE TestCapacity(c, "respond")
    <3>1. PcType'
      BY <1>0, <2>1, GotoType DEF TestCapacity
    <3> QED BY <1>0, <2>1, <3>1 DEF TestCapacity
  <2>2. CASE PushBack(c)
    <3>1. PcType'
      BY <1>0, <2>2, GotoType DEF PushBack
    <3>2. buffer' \in Seq(Triplate)
      BY <1>0, <2>2, AppendProperties DEF PushBack
    <3> QED BY <1>0, <2>2, <3>1, <3>2 DEF PushBack
  <2>3. CASE LoadSize(c, "pushLoad", "pushStore")
    BY <1>0, <2>3, SizeType, ThreadsDistinct
  <2>4. CASE StoreSize(c, "pushStore", Inc(reg[c]), "respond") /\ Unlock("jobInsertion")
    <3>1. Inc(reg[c]) \in UInt
      BY <1>0, CountersWrap
    <3> QED BY <2>4, <3>1, SizeType, ThreadsDistinct
  <2> QED BY <1>8, <2>1, <2>2, <2>3, <2>4 DEF InsertJob, insertJobTriplate
<1>9. CASE RespondSubmitted(c)
  <2>1. PcType'
    BY <1>0, <1>9, GotoType
       DEF RespondSubmitted, Move, ControllerLabels, PendingLabels, ServingLabels
  <2>2. SentType'
    BY <1>0, <1>9, SendType DEF RespondSubmitted, Respond, SentType, Messages, JobMessages
  <2> QED BY <1>0, <1>9, <2>1, <2>2 DEF RespondSubmitted, SentType
<1>10. CASE WakeWorker(c)
  <2>1. PcType'
    BY <1>0, <1>10, GotoType
       DEF WakeWorker, Move, ControllerLabels, PendingLabels, ServingLabels
  <2>2. BlockedType'
    BY <1>0, <1>10, CondSignalType DEF WakeWorker, CondVars, BlockedType
  <2> QED BY <1>0, <1>10, <2>1, <2>2 DEF WakeWorker, BlockedType
<1> QED BY <1>1, <1>2, <1>3, <1>4, <1>5, <1>6, <1>7, <1>8, <1>9, <1>10
           DEF insertNewJobToBufferQueue

(* The steps of a setter of the level. *)
LEMMA LevelType ==
  ASSUME TypeOK, Handoff, UNCHANGED command, NEW c \in Clients,
         setServerConcurrencyLevel(c)
  PROVE  TypeOK'
<1> USE DEF TypeOK, queueVars, counterVars, flagVars, localVars, Lock, Unlock,
            Section, LoadReg, ClearReg, Mutexes
<1>0. c \in Threads /\ 0 \in UInt /\ BlockedType /\ SentType
  BY ParametersInRange DEF Threads, UInt, BlockedType, SentType
<1>1. CASE SetConcurrency(c)
  <2>1. CASE Abort
    BY <2>1, AbortType
  <2>2. CASE /\ clientCommand(c).arg # NotANumber
             /\ concurrency' = clientCommand(c).arg % UIntModulus
             /\ Goto(c, "concurrencySet")
    <3>1. PcType'
      BY <1>0, <2>2, GotoType DEF ControllerLabels, PendingLabels, ServingLabels
    <3>2. clientCommand(c).arg \in Int
      <4>1. clientCommand(c) \in Command
        BY <1>1, CommandsWellFormed
           DEF clientCommand, SetConcurrency, At, SocketHandoff, Handoff
      <4> QED BY <2>2, <4>1 DEF Command
    <3>3. clientCommand(c).arg % UIntModulus \in UInt
      BY <3>2, ParametersInRange DEF UInt
    <3> QED BY <1>1, <2>2, <3>1, <3>3, AbortType DEF SetConcurrency
  <2> QED BY <1>1, <2>1, <2>2 DEF SetConcurrency
<1>2. CASE RespondConcurrencySet(c)
  <2>1. PcType'
    BY <1>0, <1>2, GotoType
       DEF RespondConcurrencySet, Move, ControllerLabels, PendingLabels, ServingLabels
  <2>2. SentType'
    BY <1>0, <1>2, SendType DEF RespondConcurrencySet, Respond, SentType, Messages, JobMessages
  <2> QED BY <1>0, <1>2, <2>1, <2>2 DEF RespondConcurrencySet, SentType
<1>3. CASE WakeTest(c)
  <2>1. PcType'
    BY <1>0, <1>3, GotoType
       DEF WakeTest, Move, ControllerLabels, PendingLabels, ServingLabels
  <2> QED BY <1>0, <1>3, <2>1 DEF WakeTest
<1>4. CASE WakeSignal(c)
  <2>1. PcType'
    BY <1>0, <1>4, GotoType
       DEF WakeSignal, Move, ControllerLabels, PendingLabels, ServingLabels
  <2>2. BlockedType'
    BY <1>0, <1>4, CondSignalType DEF WakeSignal, CondVars, BlockedType
  <2> QED BY <1>0, <1>4, <2>1, <2>2, CountersWrap DEF WakeSignal, BlockedType
<1> QED BY <1>1, <1>2, <1>3, <1>4 DEF setServerConcurrencyLevel

(* The steps of a poller. *)
LEMMA PollType ==
  ASSUME TypeOK, UNCHANGED command, NEW c \in Clients,
         sendWaitingJobsToClient(c)
  PROVE  TypeOK'
<1> USE DEF TypeOK, queueVars, counterVars, flagVars, localVars, Lock, Unlock,
            Section, LoadReg, ClearReg, Mutexes
<1>0. c \in Threads /\ 0 \in UInt /\ BlockedType /\ SentType
  BY ParametersInRange DEF Threads, UInt, BlockedType, SentType
<1>1. CASE PollSize(c)
  <2>1. PcType'
    BY <1>0, <1>1, GotoType
       DEF PollSize, Move, ControllerLabels, PendingLabels, ServingLabels
  <2>2. SentType'
    BY <1>0, <1>1, SendType DEF PollSize, Respond, SentType, Messages, JobMessages
  <2> QED BY <1>0, <1>1, <2>1, <2>2 DEF PollSize, SentType
<1>2. CASE PollTest(c)
  <2>1. PcType'
    BY <1>0, <1>2, GotoType
       DEF PollTest, Move, ControllerLabels, PendingLabels, ServingLabels
  <2> QED BY <1>0, <1>2, <2>1 DEF PollTest
<1>3. CASE PollAt(c)
  <2>1. CASE Abort
    BY <2>1, AbortType
  <2>2. CASE Goto(c, "poll") /\ Respond(c, "JOB") /\ ~Abort
    <3>1. PcType'
      BY <1>0, <2>2, GotoType DEF ControllerLabels, PendingLabels, ServingLabels
    <3>2. SentType'
      BY <1>0, <2>2, SendType DEF Respond, SentType, Messages, JobMessages
    <3>3. index' \in [Clients -> UInt]
      <4>1. Inc(index[c]) \in UInt
        BY CountersWrap
      <4> QED BY <1>3, <2>2, <4>1 DEF PollAt
    <3> QED BY <1>3, <2>2, <3>1, <3>2, <3>3 DEF PollAt, SentType
  <2> QED BY <1>3, <2>1, <2>2 DEF PollAt
<1> QED BY <1>1, <1>2, <1>3 DEF sendWaitingJobsToClient

(* The steps of a remover. *)
LEMMA RemoverType ==
  ASSUME TypeOK, UNCHANGED command, NEW c \in Clients,
         removeJobFromBufferQueue(c)
  PROVE  TypeOK'
<1> USE DEF TypeOK, queueVars, counterVars, flagVars, localVars, Lock, Unlock,
            Section, LoadReg, ClearReg, Mutexes
<1>0. c \in Threads /\ 0 \in UInt /\ BlockedType /\ SentType
  BY ParametersInRange DEF Threads, UInt, BlockedType, SentType
<1>1. CASE RemoveJob(c)
  <2> USE DEF ControllerLabels, PendingLabels, ServingLabels
  <2>1. CASE SearchTest(c, "notFound")
    <3>1. PcType'
      BY <1>0, <2>1, GotoType DEF SearchTest
    <3> QED BY <2>1, <3>1 DEF SearchTest
  <2>2. CASE SearchAt(c, clientCommand(c).arg)
    <3>1. CASE Abort
      BY <3>1, AbortType
    <3>2. CASE index[c] < Len(buffer) /\ ~Abort
      <4>1. buffer[index[c] + 1] \in Triplate
        BY <3>2 DEF UInt
      <4>2. triplate' \in [Threads -> Triplate]
        BY <1>0, <2>2, <3>2, <4>1 DEF SearchAt
      <4>3. index' \in [Clients -> UInt]
        <5>1. Inc(index[c]) \in UInt
          BY CountersWrap
        <5> QED BY <2>2, <3>2, <5>1 DEF SearchAt
      <4>4. PcType'
        BY <1>0, <2>2, <3>2, GotoType DEF SearchAt
      <4> QED BY <2>2, <3>2, <4>2, <4>3, <4>4 DEF SearchAt
    <3> QED BY <2>2, <3>1, <3>2 DEF SearchAt
  <2>3. CASE EraseAt(c)
    <3>1. CASE Abort
      BY <3>1, AbortType
    <3>2. CASE index[c] < Len(buffer) /\ ~Abort
      <4>1. buffer' \in Seq(Triplate)
        <5>1. index[c] + 1 \in 1 .. Len(buffer)
          BY <3>2 DEF UInt
        <5> QED BY <2>3, <3>2, <5>1, RemoveAtType DEF EraseAt
      <4>2. PcType'
        BY <1>0, <2>3, <3>2, GotoType DEF EraseAt
      <4> QED BY <2>3, <3>2, <4>1, <4>2 DEF EraseAt
    <3> QED BY <2>3, <3>1, <3>2 DEF EraseAt
  <2>4. CASE LoadSize(c, "removeLoad", "removeStore")
    BY <1>0, <2>4, SizeType, ThreadsDistinct
  <2>5. CASE StoreSize(c, "removeStore", Dec(reg[c]), "removed") /\ UNCHANGED mutex
    <3>1. Dec(reg[c]) \in UInt
      BY <1>0, CountersWrap
    <3> QED BY <2>5, <3>1, SizeType, ThreadsDistinct
  <2> QED BY <1>1, <2>1, <2>2, <2>3, <2>4, <2>5
             DEF RemoveJob, removeJobTriplateByID
<1>2. CASE RespondRemoved(c)
  <2>1. PcType'
    BY <1>0, <1>2, GotoType
       DEF RespondRemoved, Move, ControllerLabels, PendingLabels, ServingLabels
  <2>2. SentType'
    BY <1>0, <1>2, SendType DEF RespondRemoved, Respond, SentType, Messages, JobMessages
  <2> QED BY <1>0, <1>2, <2>1, <2>2 DEF RespondRemoved, SentType
<1>3. CASE NotifyRemoved(c)
  <2>1. PcType'
    BY <1>0, <1>3, GotoType
       DEF NotifyRemoved, Move, ControllerLabels, PendingLabels, ServingLabels
  <2>2. BlockedType'
    BY <1>0, <1>3, CondSignalType DEF NotifyRemoved, CondVars, BlockedType
  <2>3. SentType'
    BY <1>0, <1>3, SendType DEF NotifyRemoved, Respond, SentType, Messages, JobMessages
  <2> QED BY <1>0, <1>3, <2>1, <2>2, <2>3 DEF NotifyRemoved, BlockedType, SentType
<1> QED BY <1>1, <1>2, <1>3 DEF removeJobFromBufferQueue

(* The steps of a terminator. *)
LEMMA TerminatorType ==
  ASSUME TypeOK, UNCHANGED command, NEW c \in Clients,
         terminateServer(c)
  PROVE  TypeOK'
<1> USE DEF TypeOK, queueVars, counterVars, flagVars, localVars, Lock, Unlock,
            Section, LoadReg, ClearReg, Mutexes
<1>0. c \in Threads /\ 0 \in UInt /\ BlockedType /\ SentType
  BY ParametersInRange DEF Threads, UInt, BlockedType, SentType
<1>1. CASE StopIssuers(c)
  <2>1. PcType'
    BY <1>0, <1>1, GotoType
       DEF StopIssuers, Move, ControllerLabels, PendingLabels, ServingLabels
  <2> QED BY <1>0, <1>1, <2>1 DEF StopIssuers
<1>2. CASE CancelIssuers(c)
  <2>1. PcType'
    BY <1>0, <1>2, GotoType
       DEF CancelIssuers, Move, ControllerLabels, PendingLabels, ServingLabels
  <2>2. BlockedType'
    BY <1>0, <1>2, CondBroadcastType DEF CancelIssuers, CondVars, BlockedType
  <2> QED BY <1>0, <1>2, <2>1, <2>2 DEF CancelIssuers, BlockedType
<1>3. CASE DrainTest(c)
  <2>1. PcType'
    BY <1>0, <1>3, GotoType
       DEF DrainTest, Move, ControllerLabels, PendingLabels, ServingLabels
  <2> QED BY <1>0, <1>3, <2>1 DEF DrainTest
<1>4. CASE DrainJob(c)
  <2>1. CASE getJobTriplate(c)
    BY <2>1, QueueType
  <2>2. CASE StoreSize(c, "takeStore", Dec(reg[c]), "drainSend") /\ UNCHANGED mutex
    <3>1. Dec(reg[c]) \in UInt
      BY <1>0, CountersWrap
    <3> QED BY <2>2, <3>1, SizeType, ThreadsDistinct
               DEF ControllerLabels, PendingLabels, ServingLabels
  <2> QED BY <1>4, <2>1, <2>2 DEF DrainJob
<1>5. CASE NotifyDrained(c)
  <2>1. PcType'
    BY <1>0, <1>5, GotoType
       DEF NotifyDrained, Move, ControllerLabels, PendingLabels, ServingLabels
  <2>2. SentType'
    BY <1>0, <1>5, SendType DEF NotifyDrained, Respond, SentType, Messages, JobMessages
  <2> QED BY <1>0, <1>5, <2>1, <2>2 DEF NotifyDrained, SentType
<1>6. CASE TestJobsDone(c)
  <2>1. PcType'
    BY <1>0, <1>6, GotoType
       DEF TestJobsDone, Move, ControllerLabels, PendingLabels, ServingLabels
  <2> QED BY <1>0, <1>6, <2>1 DEF TestJobsDone
<1>7. CASE SleepJobsDone(c)
  <2>1. PcType'
    BY <1>0, <1>7, GotoType
       DEF SleepJobsDone, Move, ControllerLabels, PendingLabels, ServingLabels
  <2>2. BlockedType'
    BY <1>0, <1>7, CondWaitType DEF SleepJobsDone, CondVars, BlockedType
  <2> QED BY <1>0, <1>7, <2>1, <2>2 DEF SleepJobsDone, BlockedType
<1>8. CASE WakeJobsDone(c)
  <2>1. PcType'
    BY <1>0, <1>8, GotoType
       DEF WakeJobsDone, Move, ControllerLabels, PendingLabels, ServingLabels
  <2> QED BY <1>0, <1>8, <2>1 DEF WakeJobsDone
<1>9. CASE RespondTerminated(c)
  <2>1. PcType'
    BY <1>0, <1>9, GotoType
       DEF RespondTerminated, Move, ControllerLabels, PendingLabels, ServingLabels
  <2>2. SentType'
    BY <1>0, <1>9, SendType DEF RespondTerminated, Respond, SentType, Messages, JobMessages
  <2> QED BY <1>0, <1>9, <2>1, <2>2 DEF RespondTerminated, SentType
<1>10. CASE StopServer(c)
  <2>1. PcType'
    BY <1>0, <1>10, GotoType
       DEF StopServer, Move, ControllerLabels, PendingLabels, ServingLabels
  <2> QED BY <1>0, <1>10, <2>1 DEF StopServer
<1> QED BY <1>1, <1>2, <1>3, <1>4, <1>5, <1>6, <1>7, <1>8, <1>9, <1>10
           DEF terminateServer

(* The steps of a controller keep the types.                                 *)
LEMMA ControllerType ==
  ASSUME TypeOK, Handoff, UNCHANGED command, NEW c \in Clients, ControllerNext(c)
  PROVE  TypeOK'
<1> USE DEF TypeOK, queueVars, counterVars, flagVars, localVars
<1>0. c \in Threads /\ BlockedType
  BY DEF Threads, BlockedType
<1>1. CASE ReadSocket(c)
  <2>1. PcType'
    BY <1>0, <1>1, GotoType DEF ReadSocket, Move, ControllerLabels, PendingLabels
  <2> QED BY <1>0, <1>1, <2>1 DEF ReadSocket
<1>2. CASE executeTask(c)
  <2>1. PcType'
    BY <1>0, <1>2, GotoType, TaskLabels DEF executeTask, Move
  <2> QED BY <1>2, <2>1 DEF executeTask
<1>3. CASE ContinueServer(c)
  <2>1. PcType'
    BY <1>0, <1>3, GotoType, TaskLabels DEF ContinueServer, Move
  <2>2. BlockedType'
    BY <1>0, <1>3, CondSignalType DEF ContinueServer, CondVars
  <2> QED BY <1>3, <2>1, <2>2 DEF ContinueServer, BlockedType
<1> QED BY <1>1, <1>2, <1>3, IssuerType, LevelType, PollType, RemoverType,
           TerminatorType DEF ControllerNext

(* Every step of the server keeps the types.                                 *)
LEMMA TypeStep ==
  ASSUME TypeOK, Handoff, [Next]_vars
  PROVE  TypeOK'
<1>1. CASE UNCHANGED vars
  BY <1>1 DEF TypeOK, PcType, vars, queueVars, counterVars, flagVars, localVars
<1>2. CASE Next
  <2>1. CASE SpuriousWakeup /\ UNCHANGED command
    <3>1. BlockedType'
      BY <2>1, CondSignalType DEF SpuriousWakeup, TypeOK, BlockedType
    <3> QED BY <2>1, <3>1 DEF SpuriousWakeup, TypeOK, PcType, BlockedType,
                              queueVars, counterVars, flagVars, localVars
  <2> QED BY <1>2, <2>1, MainType, WorkerType, ControllerType, AbortType
          DEF Next, BufferRaceAborts
<1> QED BY <1>1, <1>2

-------------------------------------------------------------------------------
(* The hand-off of the client's socket                                       *)

(* What a step of a worker or of a controller that is past its start, other   *)
(* than the release of the main thread, does to the state of the hand-off.    *)
KeepsHandoff(t) ==
  /\ UNCHANGED <<client_socket, clientSocket, continueExecution>>
  /\ pc' = [pc EXCEPT ![t] = pc'[t]]
  /\ t \in Clients =>
       /\ pc[t] \notin {"unborn", "start"}
       /\ pc'[t] \in PendingLabels => pc[t] \in PendingLabels

(* Steps of that kind keep the hand-off.                                     *)
LEMMA HandoffKept ==
  ASSUME PcType, Handoff, NEW t \in Workers \cup Clients, KeepsHandoff(t)
  PROVE  Handoff'
<1> USE ThreadsDistinct DEF PcType, Threads, At
<1>1. pc'[Main] = pc[Main]
  BY DEF KeepsHandoff
<1>2. \A c \in Clients : c # t => pc'[c] = pc[c]
  BY DEF KeepsHandoff
<1>3. SocketHandoff'
  BY <1>2 DEF Handoff, SocketHandoff, KeepsHandoff
<1>4. ASSUME NEW c \in Clients, pc'[c] \in PendingLabels
      PROVE  pc[c] \in PendingLabels
  BY <1>2, <1>4 DEF KeepsHandoff
<1>5. ASSUME At(Main, "create")
      PROVE  pc'[client_socket] = "unborn"
  BY <1>2, <1>5 DEF Handoff, KeepsHandoff
<1> QED BY <1>1, <1>3, <1>4, <1>5 DEF Handoff, KeepsHandoff

(* Only the controller that Main awaits can still want something of the      *)
(* hand-off: elsewhere no controller is pending.                              *)
LEMMA HandoffMain ==
  ASSUME TypeOK, Handoff, MainNext
  PROVE  Handoff'
<1> USE ThreadsDistinct DEF TypeOK, PcType, Threads, At, Goto, flagVars, localVars
<1>1. ASSUME ~At(Main, "await"), NEW c \in Clients
      PROVE  pc[c] \notin PendingLabels
  BY <1>1 DEF Handoff
<1>2. ASSUME NEW c \in Clients, AcceptConnection(c)
      PROVE  Handoff'
  BY <1>1, <1>2 DEF AcceptConnection, Handoff, SocketHandoff
<1>3. CASE CreateController
  <2>1. client_socket \in Clients /\ ~continueExecution /\ pc[client_socket] = "unborn"
    BY <1>3 DEF CreateController, Handoff
  <2>2. /\ pc'[Main] = "await"
        /\ pc'[client_socket] = "start"
        /\ \A c \in Clients \ {client_socket} : pc'[c] = pc[c]
    BY <1>3, <2>1 DEF CreateController
  <2>3. \A c \in Clients \ {client_socket} : pc[c] \notin PendingLabels
    BY <1>1, <1>3 DEF CreateController
  <2> QED BY <1>3, <2>1, <2>2, <2>3 DEF CreateController, Handoff, SocketHandoff
<1>4. CASE AwaitController
  BY <1>4 DEF AwaitController, Handoff, SocketHandoff
<1>5. CASE RunFails \/ TestShouldStop \/ NotifyWorkersToExit \/ JoinWorkers
  <2>1. /\ UNCHANGED <<client_socket, clientSocket, continueExecution>>
        /\ \A c \in Clients : pc'[c] = pc[c]
        /\ pc'[Main] # "create"
        /\ ~At(Main, "await")
    BY <1>5 DEF RunFails, TestShouldStop, NotifyWorkersToExit, JoinWorkers
  <2> QED BY <1>1, <2>1 DEF Handoff, SocketHandoff
<1> QED BY <1>2, <1>3, <1>4, <1>5 DEF MainNext

(* Workers take no part in the hand-off.                                     *)
LEMMA HandoffWorker ==
  ASSUME TypeOK, Handoff, NEW w \in Workers, WorkerNext(w)
  PROVE  Handoff'
<1> USE ThreadsDistinct
    DEF TypeOK, PcType, Threads, KeepsHandoff, Step, Goto, flagVars, localVars, Abort
<1>1. CASE LockWorker(w) \/ TestEmpty(w) \/ LoadLevel(w) \/ CompareLevel(w)
  BY <1>1, HandoffKept DEF LockWorker, TestEmpty, LoadLevel, CompareLevel
<1>2. CASE Sleep(w) \/ Wake(w) \/ CheckShouldStop(w) \/ UnlockAgain(w)
  BY <1>2, HandoffKept DEF Sleep, Wake, CheckShouldStop, UnlockAgain
<1>3. CASE LockQueue(w) \/ SignalController(w) \/ IncreaseBusyWorkers(w)
  BY <1>3, HandoffKept DEF LockQueue, SignalController, IncreaseBusyWorkers
<1>4. CASE receiveJobFromBuffer(w)
  BY <1>4, HandoffKept DEF receiveJobFromBuffer, getJobTriplate, CopyFront,
                           EraseFront, LoadSize, StoreSize
<1>5. CASE executeJob(w)
  BY <1>5, HandoffKept DEF executeJob, Fork, increaseRunningJobs,
                           sendJobOutputToClient, OutputMissing
<1>6. CASE DecreaseRunningJobs(w) \/ DecreaseBusyWorkers(w) \/ NotifyJobDone(w)
  BY <1>6, HandoffKept DEF DecreaseRunningJobs, DecreaseBusyWorkers, NotifyJobDone
<1> QED BY <1>1, <1>2, <1>3, <1>4, <1>5, <1>6 DEF WorkerNext

(* A controller reads its socket while Main waits, and releases Main last.   *)
LEMMA HandoffController ==
  ASSUME TypeOK, Handoff, NEW c \in Clients, ControllerNext(c)
  PROVE  Handoff'
<1> USE ThreadsDistinct DEF Threads, At, Move, Goto, flagVars, localVars, Abort
<1>0. /\ PcType
      /\ pc \in [Threads -> MainLabels \cup WorkerLabels \cup ControllerLabels]
      /\ clientSocket \in [Clients -> Clients \cup {NoThread}]
  BY DEF TypeOK, PcType
<1>1. CASE ReadSocket(c)
  <2>1. client_socket = c /\ At(Main, "await") /\ ~continueExecution
    BY <1>0, <1>1 DEF ReadSocket, Handoff, PendingLabels
  <2> QED BY <1>0, <1>1, <2>1 DEF ReadSocket, Handoff, SocketHandoff, PendingLabels
<1>2. CASE executeTask(c)
  BY <1>0, <1>2, HandoffKept DEF executeTask, KeepsHandoff, PendingLabels
<1>3. CASE ContinueServer(c)
  <2>1. /\ At(Main, "await")
        /\ \A d \in Clients \ {c} : pc[d] \notin PendingLabels
    BY <1>3 DEF ContinueServer, Handoff, PendingLabels
  <2>2. /\ AfterHandshake(clientCommand(c).mode) \notin PendingLabels
        /\ clientSocket[c] = c
    <3>1. AfterHandshake(clientCommand(c).mode)
            \in {"lockFull", "setLevel", "pollSize", "search", "finished"}
      BY DEF AfterHandshake
    <3> QED BY <1>3, <3>1
               DEF PendingLabels, ContinueServer, Handoff, SocketHandoff
  <2> QED BY <1>0, <1>3, <2>1, <2>2 DEF ContinueServer, Handoff, SocketHandoff
<1>4. CASE insertNewJobToBufferQueue(c)
  <2> USE DEF KeepsHandoff, PendingLabels
  <2>1. CASE LockFull(c) \/ TestFull(c)
    BY <1>0, <2>1, HandoffKept
       DEF LockFull, TestFull
  <2>2. CASE SleepFull(c) \/ WakeFull(c)
    BY <1>0, <2>2, HandoffKept
       DEF SleepFull, WakeFull
  <2>3. CASE CheckCanceled(c)
    BY <1>0, <2>3, HandoffKept
       DEF CheckCanceled
  <2>4. CASE TakeJobID(c)
    BY <1>0, <2>4, HandoffKept
       DEF TakeJobID
  <2>5. CASE LockInsert(c)
    BY <1>0, <2>5, HandoffKept
       DEF LockInsert
  <2>6. CASE TestCapacity(c, "respond") \/ PushBack(c)
    BY <1>0, <2>6, HandoffKept
       DEF TestCapacity, PushBack
  <2>7. CASE LoadSize(c, "pushLoad", "pushStore")
    BY <1>0, <2>7, HandoffKept
       DEF LoadSize
  <2>8. CASE StoreSize(c, "pushStore", Inc(reg[c]), "respond")
    BY <1>0, <2>8, HandoffKept
       DEF StoreSize
  <2>9. CASE RespondSubmitted(c) \/ WakeWorker(c)
    BY <1>0, <2>9, HandoffKept
       DEF RespondSubmitted, WakeWorker
  <2> QED BY <1>4, <2>1, <2>2, <2>3, <2>4, <2>5, <2>6, <2>7, <2>8, <2>9
          DEF insertNewJobToBufferQueue, InsertJob, insertJobTriplate
<1>5. CASE setServerConcurrencyLevel(c)
  <2> USE DEF KeepsHandoff, PendingLabels
  <2>1. CASE SetConcurrency(c)
    BY <1>0, <2>1, HandoffKept
       DEF SetConcurrency
  <2>2. CASE RespondConcurrencySet(c)
    BY <1>0, <2>2, HandoffKept
       DEF RespondConcurrencySet
  <2>3. CASE WakeTest(c)
    BY <1>0, <2>3, HandoffKept
       DEF WakeTest
  <2>4. CASE WakeSignal(c)
    BY <1>0, <2>4, HandoffKept
       DEF WakeSignal
  <2> QED BY <1>5, <2>1, <2>2, <2>3, <2>4
          DEF setServerConcurrencyLevel
<1>6. CASE sendWaitingJobsToClient(c)
  <2> USE DEF KeepsHandoff, PendingLabels
  <2>1. CASE PollSize(c)
    BY <1>0, <2>1, HandoffKept
       DEF PollSize
  <2>2. CASE PollTest(c)
    BY <1>0, <2>2, HandoffKept
       DEF PollTest
  <2>3. CASE PollAt(c)
    BY <1>0, <2>3, HandoffKept
       DEF PollAt
  <2> QED BY <1>6, <2>1, <2>2, <2>3
          DEF sendWaitingJobsToClient
<1>7. CASE removeJobFromBufferQueue(c)
  <2> USE DEF KeepsHandoff, PendingLabels
  <2>1. CASE SearchTest(c, "notFound")
    BY <1>0, <2>1, HandoffKept
       DEF SearchTest
  <2>2. CASE SearchAt(c, clientCommand(c).arg)
    BY <1>0, <2>2, HandoffKept
       DEF SearchAt
  <2>3. CASE EraseAt(c)
    BY <1>0, <2>3, HandoffKept
       DEF EraseAt
  <2>4. CASE LoadSize(c, "removeLoad", "removeStore")
    BY <1>0, <2>4, HandoffKept
       DEF LoadSize
  <2>5. CASE StoreSize(c, "removeStore", Dec(reg[c]), "removed")
    BY <1>0, <2>5, HandoffKept
       DEF StoreSize
  <2>6. CASE RespondRemoved(c)
    BY <1>0, <2>6, HandoffKept
       DEF RespondRemoved
  <2>7. CASE NotifyRemoved(c)
    BY <1>0, <2>7, HandoffKept
       DEF NotifyRemoved
  <2> QED BY <1>7, <2>1, <2>2, <2>3, <2>4, <2>5, <2>6, <2>7
          DEF removeJobFromBufferQueue, RemoveJob, removeJobTriplateByID
<1>8. CASE terminateServer(c)
  <2> USE DEF KeepsHandoff, PendingLabels
  <2>1. CASE StopIssuers(c) \/ CancelIssuers(c)
    BY <1>0, <2>1, HandoffKept
       DEF StopIssuers, CancelIssuers
  <2>2. CASE DrainTest(c)
    BY <1>0, <2>2, HandoffKept
       DEF DrainTest
  <2>3. CASE CopyFront(c)
    BY <1>0, <2>3, HandoffKept
       DEF CopyFront
  <2>4. CASE EraseFront(c)
    BY <1>0, <2>4, HandoffKept
       DEF EraseFront
  <2>5. CASE LoadSize(c, "takeLoad", "takeStore")
    BY <1>0, <2>5, HandoffKept
       DEF LoadSize
  <2>6. CASE StoreSize(c, "takeStore", Dec(reg[c]), "drainSend")
    BY <1>0, <2>6, HandoffKept
       DEF StoreSize
  <2>7. CASE NotifyDrained(c) \/ TestJobsDone(c)
    BY <1>0, <2>7, HandoffKept
       DEF NotifyDrained, TestJobsDone
  <2>8. CASE SleepJobsDone(c) \/ WakeJobsDone(c)
    BY <1>0, <2>8, HandoffKept
       DEF SleepJobsDone, WakeJobsDone
  <2>9. CASE RespondTerminated(c) \/ StopServer(c)
    BY <1>0, <2>9, HandoffKept
       DEF RespondTerminated, StopServer
  <2> QED BY <1>8, <2>1, <2>2, <2>3, <2>4, <2>5, <2>6, <2>7, <2>8, <2>9
          DEF terminateServer, DrainJob, getJobTriplate
<1> QED BY <1>1, <1>2, <1>3, <1>4, <1>5, <1>6, <1>7, <1>8 DEF ControllerNext

(* Every step of the server keeps the hand-off.                              *)
LEMMA HandoffStep ==
  ASSUME TypeOK, Handoff, [Next]_vars
  PROVE  Handoff'
<1> USE DEF Handoff, SocketHandoff, At, flagVars, localVars
<1>1. CASE UNCHANGED vars
  BY <1>1 DEF vars
<1>2. CASE SpuriousWakeup
  BY <1>2 DEF SpuriousWakeup
<1>3. CASE BufferRaceAborts
  BY <1>3 DEF BufferRaceAborts, Abort
<1> QED BY <1>1, <1>2, <1>3, HandoffMain, HandoffWorker, HandoffController
           DEF Next

(* The types and the hand-off hold together: the controllers' labels are      *)
(* typed because a controller reads its own client's command.                *)
THEOREM TypeAndHandoff == Spec => [](TypeOK /\ Handoff)
<1>1. Init => TypeOK /\ Handoff
  BY InitType
<1>2. TypeOK /\ Handoff /\ [Next]_vars => (TypeOK /\ Handoff)'
  BY TypeStep, HandoffStep
<1> QED BY <1>1, <1>2, PTL DEF Spec

(* TypeOK: the unsigned counters stay unsigned, the vector holds triplates,    *)
(* and every thread is at a label of its own code.                            *)
THEOREM TypeCorrect == Spec => []TypeOK
BY TypeAndHandoff, PTL

(* SocketHandoff, for any number of clients: no controller ever reads another *)
(* client's socket out of run()'s local (server.cpp:320, 365).                *)
THEOREM SocketHandedOff == Spec => []SocketHandoff
<1>1. TypeOK /\ Handoff => SocketHandoff
  BY DEF Handoff
<1> QED BY <1>1, TypeAndHandoff, PTL

-------------------------------------------------------------------------------
(* The release of the main thread                                            *)

(* Nobody but the main thread waits for the release, and it waits for one    *)
(* client's controller.                                                      *)
ReleaseInv ==
  /\ ReleaseNotLost
  /\ blocked["serverContinue"] \subseteq {Main}
  /\ At(Main, "await") => client_socket \in Clients

(* What a step does that is neither the main thread's nor the release: it     *)
(* leaves the main thread asleep or awake, and a controller that has yet to   *)
(* release it stays so, but for one with an invalid command.                 *)
LeavesMain(t) ==
  /\ UNCHANGED <<client_socket, continueExecution>>
  /\ blocked'["serverContinue"] = blocked["serverContinue"]
  /\ pc' = [pc EXCEPT ![t] = pc'[t]]
  /\ t \in Clients /\ pc[t] \in PendingLabels =>
       pc'[t] \in PendingLabels \/ command[t].mode = "invalid"

(* Such steps lose no release.                                               *)
LEMMA ReleaseKept ==
  ASSUME TypeOK, ReleaseInv, UNCHANGED command, NEW t \in Workers \cup Clients,
         LeavesMain(t)
  PROVE  ReleaseInv'
<1>1. pc'[Main] = pc[Main]
  BY ThreadsDistinct DEF TypeOK, PcType, Threads, LeavesMain
<1>2. \A c \in Clients : c # t => pc'[c] = pc[c]
  BY ThreadsDistinct DEF TypeOK, PcType, Threads, LeavesMain
<1>3. ASSUME client_socket \in Clients, pc[client_socket] \in PendingLabels
      PROVE  pc'[client_socket] \in PendingLabels
               \/ command[client_socket].mode = "invalid"
  BY <1>2, <1>3 DEF LeavesMain
<1> QED BY <1>1, <1>3 DEF ReleaseInv, ReleaseNotLost, LeavesMain, At

(* A signal, a wait or a broadcast on another variable does not touch it.    *)
LEMMA OtherSignal ==
  ASSUME TypeOK, NEW cv \in CondVars \ {"serverContinue"}, NEW t \in Threads,
         CondSignal(cv) \/ CondWait(t, cv) \/ CondBroadcast(cv)
  PROVE  blocked'["serverContinue"] = blocked["serverContinue"]
BY DEF TypeOK, CondSignal, CondWait, CondBroadcast, CondVars

(* The main thread goes to sleep only while it is not released.              *)
LEMMA ReleaseMain ==
  ASSUME TypeOK, Handoff, ReleaseInv, UNCHANGED command, MainNext
  PROVE  ReleaseInv'
<1> USE ThreadsDistinct DEF TypeOK, PcType, Threads, At, Goto, flagVars, localVars
<1>1. CASE \/ \E c \in Clients : AcceptConnection(c)
           \/ RunFails \/ TestShouldStop \/ JoinWorkers
  <2>1. pc'[Main] # "await" /\ UNCHANGED blocked
    BY <1>1 DEF AcceptConnection, RunFails, TestShouldStop, JoinWorkers
  <2> QED BY <2>1 DEF ReleaseInv, ReleaseNotLost
<1>2. CASE NotifyWorkersToExit
  <2>1. pc'[Main] # "await" /\ CondBroadcast("worker")
    BY <1>2 DEF NotifyWorkersToExit
  <2>2. blocked'["serverContinue"] = blocked["serverContinue"]
    BY <2>1, OtherSignal DEF CondVars
  <2> QED BY <2>1, <2>2 DEF ReleaseInv, ReleaseNotLost
<1>3. CASE CreateController
  <2>1. client_socket \in Clients /\ ~continueExecution
    BY <1>3 DEF CreateController, Handoff
  <2>2. /\ pc'[client_socket] = "start"
        /\ UNCHANGED <<blocked, client_socket, continueExecution>>
    BY <1>3, <2>1 DEF CreateController
  <2> QED BY <2>1, <2>2 DEF ReleaseInv, ReleaseNotLost, PendingLabels
<1>4. CASE AwaitController /\ continueExecution
  <2>1. pc'[Main] # "await" /\ UNCHANGED blocked
    BY <1>4 DEF AwaitController
  <2> QED BY <2>1 DEF ReleaseInv, ReleaseNotLost
<1>5. CASE AwaitController /\ ~continueExecution
  <2>1. /\ UNCHANGED <<pc, client_socket, continueExecution>>
        /\ blocked'["serverContinue"] = blocked["serverContinue"] \cup {Main}
    BY <1>5 DEF AwaitController, CondWait, CondVars
  <2> QED BY <1>5, <2>1 DEF ReleaseInv, ReleaseNotLost
<1> QED BY <1>1, <1>2, <1>3, <1>4, <1>5 DEF MainNext

(* Workers sleep and signal elsewhere.                                       *)
LEMMA ReleaseWorker ==
  ASSUME TypeOK, NEW w \in Workers, WorkerNext(w)
  PROVE  LeavesMain(w)
<1> USE ThreadsDistinct
    DEF TypeOK, PcType, Threads, LeavesMain, Step, At, Goto, flagVars, localVars
<1>1. CASE LockWorker(w) \/ TestEmpty(w) \/ LoadLevel(w) \/ CompareLevel(w)
  BY <1>1 DEF LockWorker, TestEmpty, LoadLevel, CompareLevel
<1>2. CASE Sleep(w) \/ SignalController(w) \/ NotifyJobDone(w)
  <2>1. blocked'["serverContinue"] = blocked["serverContinue"]
    BY <1>2, OtherSignal DEF Sleep, SignalController, NotifyJobDone, CondVars
  <2> QED BY <1>2, <2>1 DEF Sleep, SignalController, NotifyJobDone
<1>3. CASE \/ Wake(w) \/ CheckShouldStop(w) \/ UnlockAgain(w) \/ LockQueue(w)
           \/ IncreaseBusyWorkers(w)
  BY <1>3 DEF Wake, CheckShouldStop, UnlockAgain, LockQueue, IncreaseBusyWorkers
<1>4. CASE receiveJobFromBuffer(w)
  BY <1>4 DEF receiveJobFromBuffer, getJobTriplate, CopyFront, EraseFront, LoadSize,
              StoreSize, Abort
<1>5. CASE executeJob(w)
  BY <1>5 DEF executeJob, Fork, increaseRunningJobs, sendJobOutputToClient,
              OutputMissing, Abort
<1>6. CASE DecreaseRunningJobs(w) \/ DecreaseBusyWorkers(w)
  BY <1>6 DEF DecreaseRunningJobs, DecreaseBusyWorkers
<1> QED BY <1>1, <1>2, <1>3, <1>4, <1>5, <1>6 DEF WorkerNext

(* A controller releases the main thread or leaves it as it is.              *)
LEMMA ReleaseController ==
  ASSUME TypeOK, Handoff, NEW c \in Clients, ControllerNext(c)
  PROVE  LeavesMain(c) \/ ContinueServer(c)
<1> USE ThreadsDistinct
    DEF TypeOK, PcType, Threads, LeavesMain, Move, At, Goto, flagVars, localVars
<1>1. CASE ReadSocket(c) \/ executeTask(c)
  <2>1. ASSUME executeTask(c)
        PROVE  pc'[c] \in PendingLabels \/ command[c].mode = "invalid"
    <3>1. clientCommand(c) = command[c]
      BY <2>1 DEF executeTask, Handoff, SocketHandoff, clientCommand
    <3> QED BY <2>1, <3>1 DEF executeTask, FirstLabel, PendingLabels
  <2> QED BY <1>1, <2>1 DEF ReadSocket, executeTask, PendingLabels
<1>2. CASE insertNewJobToBufferQueue(c)
  <2>1. blocked'["serverContinue"] = blocked["serverContinue"]
    BY <1>2, OtherSignal
       DEF insertNewJobToBufferQueue, LockFull, TestFull, SleepFull, WakeFull,
           CheckCanceled, TakeJobID, LockInsert, InsertJob, insertJobTriplate,
           TestCapacity, PushBack, LoadSize, StoreSize, RespondSubmitted, WakeWorker,
           CondVars
  <2>2. pc[c] \notin PendingLabels
    BY <1>2 DEF insertNewJobToBufferQueue, LockFull, TestFull, SleepFull, WakeFull,
       CheckCanceled, TakeJobID, LockInsert, InsertJob, insertJobTriplate,
       TestCapacity, PushBack, LoadSize, StoreSize, RespondSubmitted, WakeWorker,
       PendingLabels
  <2>3. /\ UNCHANGED <<client_socket, continueExecution>>
        /\ pc' = [pc EXCEPT ![c] = pc'[c]]
    BY <1>2 DEF insertNewJobToBufferQueue, LockFull, TestFull, SleepFull, WakeFull,
       CheckCanceled, TakeJobID, LockInsert, InsertJob, insertJobTriplate,
       TestCapacity, PushBack, LoadSize, StoreSize, RespondSubmitted, WakeWorker
  <2> QED BY <2>1, <2>2, <2>3
<1>3. CASE setServerConcurrencyLevel(c)
  <2>1. blocked'["serverContinue"] = blocked["serverContinue"]
    BY <1>3, OtherSignal
       DEF setServerConcurrencyLevel, SetConcurrency, RespondConcurrencySet, WakeTest,
           WakeSignal, Abort, CondVars
  <2>2. /\ pc[c] \notin PendingLabels
        /\ UNCHANGED <<client_socket, continueExecution>>
        /\ pc' = [pc EXCEPT ![c] = pc'[c]]
    BY <1>3 DEF setServerConcurrencyLevel, SetConcurrency, RespondConcurrencySet,
       WakeTest, WakeSignal, Abort, PendingLabels
  <2> QED BY <2>1, <2>2
<1>4. CASE sendWaitingJobsToClient(c)
  <2>1. /\ pc[c] \notin PendingLabels
        /\ UNCHANGED <<blocked, client_socket, continueExecution>>
    BY <1>4 DEF sendWaitingJobsToClient, PollSize, PollTest, PollAt, Abort,
       PendingLabels
  <2>2. pc' = [pc EXCEPT ![c] = pc'[c]]
    BY <1>4 DEF sendWaitingJobsToClient, PollSize, PollTest, PollAt, Abort
  <2> QED BY <2>1, <2>2
<1>5. CASE removeJobFromBufferQueue(c)
  <2>1. blocked'["serverContinue"] = blocked["serverContinue"]
    BY <1>5, OtherSignal
       DEF removeJobFromBufferQueue, RemoveJob, removeJobTriplateByID, SearchTest,
           SearchAt, EraseAt, LoadSize, StoreSize, RespondRemoved, NotifyRemoved,
           Abort, CondVars
  <2>2. /\ pc[c] \notin PendingLabels
        /\ UNCHANGED <<client_socket, continueExecution>>
        /\ pc' = [pc EXCEPT ![c] = pc'[c]]
    BY <1>5 DEF removeJobFromBufferQueue, RemoveJob, removeJobTriplateByID, SearchTest,
       SearchAt, EraseAt, LoadSize, StoreSize, RespondRemoved, NotifyRemoved, Abort,
       PendingLabels
  <2> QED BY <2>1, <2>2
<1>6. CASE terminateServer(c)
  <2>1. blocked'["serverContinue"] = blocked["serverContinue"]
    BY <1>6, OtherSignal
       DEF terminateServer, StopIssuers, CancelIssuers, DrainTest, DrainJob,
           getJobTriplate, CopyFront, EraseFront, LoadSize, StoreSize, NotifyDrained,
           TestJobsDone, SleepJobsDone, WakeJobsDone, RespondTerminated, StopServer,
           Abort, CondVars
  <2>2. pc'[c] \in PendingLabels
    BY <1>6 DEF terminateServer, StopIssuers, CancelIssuers, DrainTest, DrainJob,
       getJobTriplate, CopyFront, EraseFront, LoadSize, StoreSize, NotifyDrained,
       TestJobsDone, SleepJobsDone, WakeJobsDone, RespondTerminated, StopServer,
       Abort, PendingLabels
  <2>3. /\ UNCHANGED <<client_socket, continueExecution>>
        /\ pc' = [pc EXCEPT ![c] = pc'[c]]
    BY <1>6 DEF terminateServer, StopIssuers, CancelIssuers, DrainTest, DrainJob,
       getJobTriplate, CopyFront, EraseFront, LoadSize, StoreSize, NotifyDrained,
       TestJobsDone, SleepJobsDone, WakeJobsDone, RespondTerminated, StopServer, Abort
  <2> QED BY <2>1, <2>2, <2>3
<1> QED BY <1>1, <1>2, <1>3, <1>4, <1>5, <1>6 DEF ControllerNext

(* The release sets the flag and wakes the only thread that can be asleep.    *)
LEMMA ReleaseWakes ==
  ASSUME TypeOK, ReleaseInv, NEW c \in Clients, ContinueServer(c)
  PROVE  ReleaseInv'
<1>1. blocked'["serverContinue"] = {}
  <2>1. blocked["serverContinue"] \in {{}, {Main}}
    BY DEF ReleaseInv
  <2> QED BY <2>1 DEF TypeOK, ContinueServer, CondSignal, CondVars
<1>2. /\ continueExecution' /\ UNCHANGED client_socket
      /\ pc'[Main] = pc[Main]
  BY ThreadsDistinct DEF ContinueServer, Move, Goto, TypeOK, PcType, Threads, localVars
<1> QED BY <1>1, <1>2 DEF ReleaseInv, ReleaseNotLost, At

(* Every step of the server keeps the release.                               *)
LEMMA ReleaseStep ==
  ASSUME TypeOK, Handoff, ReleaseInv, [Next]_vars
  PROVE  ReleaseInv'
<1>1. CASE UNCHANGED vars
  BY <1>1 DEF vars, flagVars, localVars, ReleaseInv, ReleaseNotLost, At
<1>2. CASE SpuriousWakeup
  <2>1. PICK cv \in CondVars : CondSignal(cv)
    BY <1>2 DEF SpuriousWakeup
  <2>2. blocked'["serverContinue"] \subseteq blocked["serverContinue"]
    BY <2>1 DEF TypeOK, CondSignal, CondVars
  <2>3. UNCHANGED command
    BY DEF Next, vars
  <2> QED BY <1>2, <2>2, <2>3
          DEF SpuriousWakeup, flagVars, localVars, ReleaseInv, ReleaseNotLost, At
<1>3. CASE Next /\ ~SpuriousWakeup
  <2>0. UNCHANGED command
    BY <1>3 DEF Next
  <2>1. CASE BufferRaceAborts
    BY <2>0, <2>1 DEF BufferRaceAborts, Abort, flagVars, localVars, ReleaseInv,
       ReleaseNotLost, At
  <2>2. CASE MainNext
    BY <2>0, <2>2, ReleaseMain
  <2>3. ASSUME NEW w \in Workers, WorkerNext(w) PROVE ReleaseInv'
    BY <2>0, <2>3, ReleaseWorker, ReleaseKept
  <2>4. ASSUME NEW c \in Clients, ControllerNext(c) PROVE ReleaseInv'
    BY <2>0, <2>4, ReleaseController, ReleaseKept, ReleaseWakes
  <2> QED BY <1>3, <2>1, <2>2, <2>3, <2>4 DEF Next
<1> QED BY <1>1, <1>2, <1>3

(* ReleaseNotLost, for any number of clients: however the main thread's test  *)
(* and wait run into the release, it is not left asleep once it is released,  *)
(* and waits only for a controller that will release it, unless the command   *)
(* is invalid.                                                               *)
THEOREM ReleaseReachesMain == Spec => []ReleaseNotLost
<1>1. Init => ReleaseInv
  BY ThreadsDistinct DEF Init, ReleaseInv, ReleaseNotLost, At, Threads, CondVars
<1>2. TypeOK /\ Handoff /\ ReleaseInv /\ [Next]_vars => ReleaseInv'
  BY ReleaseStep
<1>3. ReleaseInv => ReleaseNotLost
  BY DEF ReleaseInv
<1> QED BY <1>1, <1>2, <1>3, TypeAndHandoff, PTL DEF Spec
===============================================================================
