----------------------------- MODULE ControllerThread -----------------------------
(*****************************************************************************)
(* Controller::Thread: the thread that serves one client.  It copies the    *)
(* client's socket from the main thread's local, reads the command, gives   *)
(* the main thread leave to go on, and executes the command.                *)
(*****************************************************************************)
EXTENDS WaitingBufferQueue

(* A step of c that touches nothing but its pc and the variables named by    *)
(* the action that uses it.                                                  *)
Move(c, here, next) == At(c, here) /\ Goto(c, next)

(* The command on the connection that c reads.                               *)
clientCommand(c) == command[clientSocket[c]]

Respond(c, message) == Send(clientSocket[c], message)

ReadSocket(c) ==
  /\ Move(c, "start", "receive")
  /\ clientSocket' = [clientSocket EXCEPT ![c] = client_socket]
  /\ UNCHANGED <<process, mutex, blocked, queueVars, counterVars, flagVars,
                 client_socket, triplate, reg, index, sent>>

(* receiveClientCommandFromSocket, and the switch of executeTask: a command   *)
(* with no task of its own ends the thread at once.                          *)
FirstLabel(mode) ==
  CASE mode = "exit"    -> "stopIssuers"
    [] mode = "invalid" -> "finished"
    [] OTHER            -> "handshake"

executeTask(c) ==
  /\ Move(c, "receive", FirstLabel(clientCommand(c).mode))
  /\ UNCHANGED <<process, mutex, blocked, queueVars, counterVars, flagVars,
                 localVars, sent>>

(* Lets the main thread accept the next client: four tasks begin with it,    *)
(* exit ends with it.                                                        *)
AfterHandshake(mode) ==
  CASE mode = "issueJob"       -> "lockFull"
    [] mode = "setConcurrency" -> "setLevel"
    [] mode = "poll"           -> "pollSize"
    [] mode = "stop"           -> "search"
    [] OTHER                   -> "finished"

(* Mutant: sets the flag and signals nobody.                                 *)
ContinueSilently(c) ==
  /\ Move(c, "handshake", AfterHandshake(clientCommand(c).mode))
  /\ continueExecution' = TRUE
  /\ UNCHANGED <<process, mutex, blocked, queueVars, counterVars,
                 controllerStop, serverStop, localVars, sent>>

ContinueServer(c) ==
  /\ Move(c, "handshake", AfterHandshake(clientCommand(c).mode))
  /\ continueExecution' = TRUE
  /\ CondSignal("serverContinue")
  /\ UNCHANGED <<process, mutex, queueVars, counterVars, controllerStop,
                 serverStop, localVars, sent>>

-------------------------------------------------------------------------------
(* insertNewJobToBufferQueue                                                 *)

LockFull(c) ==
  /\ Move(c, "lockFull", "testFull")
  /\ Lock(c, "controller")
  /\ UNCHANGED <<process, blocked, queueVars, counterVars, flagVars, localVars,
                 sent>>

(* The place found here is not kept: the insertion takes another mutex.      *)
TestFull(c) ==
  /\ \/ isFull /\ Move(c, "testFull", "sleepFull") /\ UNCHANGED mutex
     \/ ~isFull /\ Move(c, "testFull", "idLoad") /\ Unlock("controller")
  /\ UNCHANGED <<process, blocked, queueVars, counterVars, flagVars, localVars,
                 sent>>

SleepFull(c) ==
  /\ Move(c, "sleepFull", "asleepFull")
  /\ CondWait(c, "controller")
  /\ Unlock("controller")
  /\ UNCHANGED <<process, queueVars, counterVars, flagVars, localVars, sent>>

WakeFull(c) ==
  /\ c \notin blocked["controller"]
  /\ Move(c, "asleepFull", "wokenFull")
  /\ Lock(c, "controller")
  /\ UNCHANGED <<process, blocked, queueVars, counterVars, flagVars, localVars,
                 sent>>

(* Mutant: notifies the client and does not return.                          *)
CheckCanceledOnly(c) ==
  /\ Move(c, "wokenFull", "testFull")
  /\ IF controllerStop THEN Respond(c, "CANCELED") ELSE UNCHANGED sent
  /\ UNCHANGED <<process, mutex, blocked, queueVars, counterVars, flagVars,
                 localVars>>

CheckCanceled(c) ==
  /\ \/ /\ ~controllerStop
        /\ Move(c, "wokenFull", "testFull")
        /\ UNCHANGED <<mutex, sent>>
     \/ /\ controllerStop
        /\ Move(c, "wokenFull", "finished")
        /\ Respond(c, "CANCELED")
        /\ Unlock("controller")
  /\ UNCHANGED <<process, blocked, queueVars, counterVars, flagVars, localVars>>

(* ++jobsEntered: a load, a store, and a second load for the ID.             *)
TakeJobID(c) ==
  /\ \/ /\ Move(c, "idLoad", "idStore")
        /\ LoadReg(c, jobsEntered)
        /\ UNCHANGED <<jobsEntered, triplate>>
     \/ /\ Move(c, "idStore", "idRead")
        /\ jobsEntered' = Inc(reg[c])
        /\ ClearReg(c)
        /\ UNCHANGED triplate
     \/ /\ Move(c, "idRead", "lockInsert")
        /\ triplate' = [triplate EXCEPT ![c] = [jobID    |-> jobsEntered,
                                                socketID |-> clientSocket[c]]]
        /\ UNCHANGED <<reg, jobsEntered>>
  /\ UNCHANGED <<process, mutex, blocked, queueVars, runningJobs, busyWorkers,
                 concurrency, flagVars, client_socket, clientSocket, index,
                 sent>>

(* Mutant: inserts without the mutex.                                        *)
EnterInsert(c) ==
  /\ Move(c, "lockInsert", "testCapacity")
  /\ UNCHANGED <<process, mutex, blocked, queueVars, counterVars, flagVars,
                 localVars, sent>>

LockInsert(c) ==
  /\ Move(c, "lockInsert", "testCapacity")
  /\ Lock(c, "jobInsertion")
  /\ UNCHANGED <<process, blocked, queueVars, counterVars, flagVars, localVars,
                 sent>>

InsertJob(c) ==
  \/ insertJobTriplate(c, "respond")
  \/ StoreSize(c, "pushStore", Inc(reg[c]), "respond") /\ Unlock("jobInsertion")

(* Said whether or not the job was inserted.                                 *)
RespondSubmitted(c) ==
  /\ Move(c, "respond", "wakeWorker")
  /\ Respond(c, "SUBMITTED")
  /\ UNCHANGED <<process, mutex, blocked, queueVars, counterVars, flagVars,
                 localVars>>

(* Without mutex_worker: a worker between its test and its wait misses it.   *)
WakeWorker(c) ==
  /\ Move(c, "wakeWorker", "finished")
  /\ CondSignal("worker")
  /\ UNCHANGED <<process, mutex, queueVars, counterVars, flagVars, localVars,
                 sent>>

insertNewJobToBufferQueue(c) ==
  \/ LockFull(c)
  \/ TestFull(c)
  \/ SleepFull(c)
  \/ WakeFull(c)
  \/ CheckCanceled(c)
  \/ TakeJobID(c)
  \/ LockInsert(c)
  \/ InsertJob(c)
  \/ RespondSubmitted(c)
  \/ WakeWorker(c)

-------------------------------------------------------------------------------
(* setServerConcurrencyLevel                                                 *)

(* stoi() throws on what is no number, and nothing catches it.               *)
SetConcurrency(c) ==
  /\ At(c, "setLevel")
  /\ \/ clientCommand(c).arg = NotANumber /\ Abort
     \/ /\ clientCommand(c).arg # NotANumber
        /\ concurrency' = clientCommand(c).arg % UIntModulus
        /\ Goto(c, "concurrencySet")
        /\ UNCHANGED <<process, mutex, blocked, queueVars, runningJobs,
                       busyWorkers, jobsEntered, flagVars, localVars, sent>>

RespondConcurrencySet(c) ==
  /\ Move(c, "concurrencySet", "wakeTest")
  /\ Respond(c, "CONCURRENCY SET")
  /\ UNCHANGED <<process, mutex, blocked, queueVars, counterVars, flagVars,
                 localVars>>

(* Mutant: one signal too few.                                               *)
WakeTestShort(c) ==
  /\ Move(c, "wakeTest",
          IF index[c] + 1 < clientCommand(c).arg - Signed(busyWorkers)
          THEN "wakeSignal" ELSE "finished")
  /\ UNCHANGED <<process, mutex, blocked, queueVars, counterVars, flagVars,
                 localVars, sent>>

WakeTest(c) ==
  /\ Move(c, "wakeTest",
          IF index[c] < clientCommand(c).arg - Signed(busyWorkers)
          THEN "wakeSignal" ELSE "finished")
  /\ UNCHANGED <<process, mutex, blocked, queueVars, counterVars, flagVars,
                 localVars, sent>>

WakeSignal(c) ==
  /\ Move(c, "wakeSignal", "wakeTest")
  /\ Section("worker")
  /\ CondSignal("worker")
  /\ index' = [index EXCEPT ![c] = Inc(@)]
  /\ UNCHANGED <<process, queueVars, counterVars, flagVars, client_socket,
                 clientSocket, triplate, reg, sent>>

setServerConcurrencyLevel(c) ==
  \/ SetConcurrency(c)
  \/ RespondConcurrencySet(c)
  \/ WakeTest(c)
  \/ WakeSignal(c)

-------------------------------------------------------------------------------
(* sendWaitingJobsToClient                                                   *)

(* reg keeps the number of jobs the client has been told to expect.           *)
PollSize(c) ==
  /\ Move(c, "pollSize", "poll")
  /\ LoadReg(c, size)
  /\ Respond(c, "JOB COUNT")
  /\ UNCHANGED <<process, mutex, blocked, queueVars, counterVars, flagVars,
                 client_socket, clientSocket, triplate, index>>

(* Mutant: one job too many.                                                 *)
PollTestPast(c) ==
  /\ Move(c, "poll", IF index[c] <= reg[c] THEN "pollAt" ELSE "finished")
  /\ UNCHANGED <<process, mutex, blocked, queueVars, counterVars, flagVars,
                 localVars, sent>>

PollTest(c) ==
  /\ Move(c, "poll", IF index[c] < reg[c] THEN "pollAt" ELSE "finished")
  /\ UNCHANGED <<process, mutex, blocked, queueVars, counterVars, flagVars,
                 localVars, sent>>

(* at(i) throws when the queue has become shorter than the number sent.       *)
PollAt(c) ==
  /\ At(c, "pollAt")
  /\ \/ index[c] >= Len(buffer) /\ Abort
     \/ /\ index[c] < Len(buffer)
        /\ index' = [index EXCEPT ![c] = Inc(@)]
        /\ Respond(c, "JOB")
        /\ Goto(c, "poll")
        /\ UNCHANGED <<process, mutex, blocked, queueVars, counterVars,
                       flagVars, client_socket, clientSocket, triplate, reg>>

sendWaitingJobsToClient(c) ==
  \/ PollSize(c)
  \/ PollTest(c)
  \/ PollAt(c)

-------------------------------------------------------------------------------
(* removeJobFromBufferQueue                                                  *)

RemoveJob(c) ==
  \/ removeJobTriplateByID(c, clientCommand(c).arg, "notFound")
  \/ StoreSize(c, "removeStore", Dec(reg[c]), "removed") /\ UNCHANGED mutex

RespondRemoved(c) ==
  /\ \/ Move(c, "removed", "notifyRemoved") /\ Respond(c, "REMOVED")
     \/ Move(c, "notFound", "leave") /\ Respond(c, "NOTFOUND")
  /\ UNCHANGED <<process, mutex, blocked, queueVars, counterVars, flagVars,
                 localVars>>

(* The section of mutex_controller that ends the task.                        *)
NotifyRemoved(c) ==
  /\ \/ /\ Move(c, "notifyRemoved", "finished")
        /\ CondSignal("controller")
        /\ Send(triplate[c].socketID, "REMOVED BEFORE EXECUTION")
     \/ Move(c, "leave", "finished") /\ UNCHANGED <<blocked, sent>>
  /\ Section("controller")
  /\ UNCHANGED <<process, queueVars, counterVars, flagVars, localVars>>

removeJobFromBufferQueue(c) ==
  \/ RemoveJob(c)
  \/ RespondRemoved(c)
  \/ NotifyRemoved(c)

-------------------------------------------------------------------------------
(* terminateServer                                                           *)

(* Mutant: the flag is set too late for those that are woken.                 *)
StopIssuersLate(c) ==
  /\ Move(c, "stopIssuers", "cancelIssuers")
  /\ UNCHANGED <<process, mutex, blocked, queueVars, counterVars, flagVars,
                 localVars, sent>>

StopIssuers(c) ==
  /\ Move(c, "stopIssuers", "cancelIssuers")
  /\ controllerStop' = TRUE
  /\ UNCHANGED <<process, mutex, blocked, queueVars, counterVars, serverStop,
                 continueExecution, localVars, sent>>

CancelIssuers(c) ==
  /\ Move(c, "cancelIssuers", "drain")
  /\ Section("controller")
  /\ CondBroadcast("controller")
  /\ UNCHANGED <<process, queueVars, counterVars, flagVars, localVars, sent>>

(* The queue is emptied without mutex_jobInsertion.                           *)
DrainTest(c) ==
  /\ Move(c, "drain", IF isEmpty THEN "jobsDone" ELSE "front")
  /\ UNCHANGED <<process, mutex, blocked, queueVars, counterVars, flagVars,
                 localVars, sent>>

DrainJob(c) ==
  \/ getJobTriplate(c)
  \/ StoreSize(c, "takeStore", Dec(reg[c]), "drainSend") /\ UNCHANGED mutex

(* Mutant: answers the client that asked for the termination.                *)
NotifyTerminator(c) ==
  /\ Move(c, "drainSend", "drain")
  /\ Respond(c, "TERMINATED BEFORE EXECUTION")
  /\ UNCHANGED <<process, mutex, blocked, queueVars, counterVars, flagVars,
                 localVars>>

NotifyDrained(c) ==
  /\ Move(c, "drainSend", "drain")
  /\ Send(triplate[c].socketID, "TERMINATED BEFORE EXECUTION")
  /\ UNCHANGED <<process, mutex, blocked, queueVars, counterVars, flagVars,
                 localVars>>

(* mutex_allJobsDone, which nobody else takes, is held from here to "bye".    *)
TestJobsDone(c) ==
  /\ Move(c, "jobsDone", IF runningJobs > 0 THEN "sleepDone" ELSE "bye")
  /\ UNCHANGED <<process, mutex, blocked, queueVars, counterVars, flagVars,
                 localVars, sent>>

SleepJobsDone(c) ==
  /\ Move(c, "sleepDone", "asleepDone")
  /\ CondWait(c, "allJobsDone")
  /\ UNCHANGED <<process, mutex, queueVars, counterVars, flagVars, localVars,
                 sent>>

WakeJobsDone(c) ==
  /\ c \notin blocked["allJobsDone"]
  /\ Move(c, "asleepDone", "jobsDone")
  /\ UNCHANGED <<process, mutex, blocked, queueVars, counterVars, flagVars,
                 localVars, sent>>

RespondTerminated(c) ==
  /\ Move(c, "bye", "stopServer")
  /\ Respond(c, "SERVER TERMINATED")
  /\ UNCHANGED <<process, mutex, blocked, queueVars, counterVars, flagVars,
                 localVars>>

StopServer(c) ==
  /\ Move(c, "stopServer", "handshake")
  /\ serverStop' = TRUE
  /\ UNCHANGED <<process, mutex, blocked, queueVars, counterVars,
                 controllerStop, continueExecution, localVars, sent>>

terminateServer(c) ==
  \/ StopIssuers(c)
  \/ CancelIssuers(c)
  \/ DrainTest(c)
  \/ DrainJob(c)
  \/ NotifyDrained(c)
  \/ TestJobsDone(c)
  \/ SleepJobsDone(c)
  \/ WakeJobsDone(c)
  \/ RespondTerminated(c)
  \/ StopServer(c)

-------------------------------------------------------------------------------

ControllerNext(c) ==
  \/ ReadSocket(c)
  \/ executeTask(c)
  \/ ContinueServer(c)
  \/ insertNewJobToBufferQueue(c)
  \/ setServerConcurrencyLevel(c)
  \/ sendWaitingJobsToClient(c)
  \/ removeJobFromBufferQueue(c)
  \/ terminateServer(c)
===============================================================================
