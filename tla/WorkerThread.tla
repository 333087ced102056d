------------------------------ MODULE WorkerThread ------------------------------
(*****************************************************************************)
(* Server::Process::WorkerThread and Worker::Thread::executeJob: the loop   *)
(* of a worker thread.  It waits for a job it may run, takes the oldest     *)
(* one, runs it in a child process and sends its output to the client.      *)
(*****************************************************************************)
EXTENDS WaitingBufferQueue

Step(w, here, next) == At(w, here) /\ Goto(w, next)

LockWorker(w) ==
  /\ Step(w, "idle", "test")
  /\ Lock(w, "worker")
  /\ UNCHANGED <<process, blocked, queueVars, counterVars, flagVars, localVars,
                 sent>>

(* Mutant: only runningJobs is tested.                                       *)
TestNothing(w) ==
  /\ Step(w, "test", "level")
  /\ UNCHANGED <<process, mutex, blocked, queueVars, counterVars, flagVars,
                 localVars, sent>>

(* The condition of line 391: isEmpty() || runningJobs == concurrency.       *)
TestEmpty(w) ==
  /\ Step(w, "test", IF isEmpty THEN "sleep" ELSE "level")
  /\ UNCHANGED <<process, mutex, blocked, queueVars, counterVars, flagVars,
                 localVars, sent>>

LoadLevel(w) ==
  /\ Step(w, "level", "compare")
  /\ LoadReg(w, runningJobs)
  /\ UNCHANGED <<process, mutex, blocked, queueVars, counterVars, flagVars,
                 client_socket, clientSocket, triplate, index, sent>>

(* Mutant: stops one job below the level.                                    *)
CompareLevelBelow(w) ==
  /\ \/ /\ reg[w] + 1 = concurrency
        /\ Step(w, "compare", "sleep")
        /\ UNCHANGED mutex
     \/ /\ reg[w] + 1 # concurrency
        /\ Step(w, "compare", "lockQueue")
        /\ Unlock("worker")
  /\ ClearReg(w)
  /\ UNCHANGED <<process, blocked, queueVars, counterVars, flagVars,
                 client_socket, clientSocket, triplate, index, sent>>

(* Equality is tested: a level lowered below runningJobs stops nobody.       *)
CompareLevel(w) ==
  /\ \/ /\ reg[w] = concurrency
        /\ Step(w, "compare", "sleep")
        /\ UNCHANGED mutex
     \/ /\ reg[w] # concurrency
        /\ Step(w, "compare", "lockQueue")
        /\ Unlock("worker")
  /\ ClearReg(w)
  /\ UNCHANGED <<process, blocked, queueVars, counterVars, flagVars,
                 client_socket, clientSocket, triplate, index, sent>>

Sleep(w) ==
  /\ Step(w, "sleep", "asleep")
  /\ CondWait(w, "worker")
  /\ Unlock("worker")
  /\ UNCHANGED <<process, queueVars, counterVars, flagVars, localVars, sent>>

Wake(w) ==
  /\ w \notin blocked["worker"]
  /\ Step(w, "asleep", "woken")
  /\ Lock(w, "worker")
  /\ UNCHANGED <<process, blocked, queueVars, counterVars, flagVars, localVars,
                 sent>>

CheckShouldStop(w) ==
  /\ \/ /\ serverStop
        /\ Step(w, "woken", "stopping")
        /\ Unlock("worker")
     \/ /\ ~serverStop
        /\ Step(w, "woken", "test")
        /\ UNCHANGED mutex
  /\ UNCHANGED <<process, blocked, queueVars, counterVars, flagVars, localVars,
                 sent>>

(* Line 402 unlocks again what line 396 has unlocked, whoever holds it now.   *)
UnlockAgain(w) ==
  /\ Step(w, "stopping", "exited")
  /\ Unlock("worker")
  /\ UNCHANGED <<process, blocked, queueVars, counterVars, flagVars, localVars,
                 sent>>

-------------------------------------------------------------------------------

(* Mutant: takes the job without the mutex.                                  *)
EnterQueue(w) ==
  /\ Step(w, "lockQueue", "front")
  /\ UNCHANGED <<process, mutex, blocked, queueVars, counterVars, flagVars,
                 localVars, sent>>

(* Mutant: takes the job under the wrong mutex.                              *)
LockQueueWithWorker(w) ==
  /\ Step(w, "lockQueue", "front")
  /\ Lock(w, "worker")
  /\ UNCHANGED <<process, blocked, queueVars, counterVars, flagVars, localVars,
                 sent>>

LockQueue(w) ==
  /\ Step(w, "lockQueue", "front")
  /\ Lock(w, "jobInsertion")
  /\ UNCHANGED <<process, blocked, queueVars, counterVars, flagVars, localVars,
                 sent>>

receiveJobFromBuffer(w) ==
  \/ getJobTriplate(w)
  \/ StoreSize(w, "takeStore", Dec(reg[w]), "signal") /\ Unlock("jobInsertion")

(* The issuers wait with mutex_controller, which is not held here.           *)
SignalController(w) ==
  /\ Step(w, "signal", "busyLoad")
  /\ Section("worker")
  /\ CondSignal("controller")
  /\ UNCHANGED <<process, queueVars, counterVars, flagVars, localVars, sent>>

IncreaseBusyWorkers(w) ==
  /\ \/ /\ Step(w, "busyLoad", "busyStore")
        /\ LoadReg(w, busyWorkers)
        /\ UNCHANGED busyWorkers
     \/ /\ Step(w, "busyStore", "fork")
        /\ busyWorkers' = Inc(reg[w])
        /\ ClearReg(w)
  /\ UNCHANGED <<process, mutex, blocked, queueVars, runningJobs, concurrency,
                 jobsEntered, flagVars, client_socket, clientSocket, triplate,
                 index, sent>>

-------------------------------------------------------------------------------
(* executeJob, as the server's own process sees it: the job's child process, *)
(* its output file and its end are the child's business.                     *)

(* pipe() or fork() may fail, and later the write to the pipe: executeJob then *)
(* returns, and the job is lost.                                              *)
Fork(w) ==
  /\ \/ Step(w, "fork", "runLoad")
     \/ ForkMayFail /\ Step(w, "fork", "finish")
     \/ ForkMayFail /\ Step(w, "child", "finish")
  /\ UNCHANGED <<process, mutex, blocked, queueVars, counterVars, flagVars,
                 localVars, sent>>

increaseRunningJobs(w) ==
  /\ \/ /\ Step(w, "runLoad", "runStore")
        /\ LoadReg(w, runningJobs)
        /\ UNCHANGED runningJobs
     \/ /\ Step(w, "runStore", "child")
        /\ runningJobs' = Inc(reg[w])
        /\ ClearReg(w)
  /\ UNCHANGED <<process, mutex, blocked, queueVars, busyWorkers, concurrency,
                 jobsEntered, flagVars, client_socket, clientSocket, triplate,
                 index, sent>>

(* wait() has returned: the output goes to the job's own client.             *)
sendJobOutputToClient(w) ==
  /\ Step(w, "child", "finish")
  /\ Send(triplate[w].socketID, "OUTPUT")
  /\ UNCHANGED <<process, mutex, blocked, queueVars, counterVars, flagVars,
                 localVars>>

(* The child has left no output file: its size is uninitialised, and the      *)
(* allocation by that size throws.                                           *)
OutputMissing(w) == ForkMayFail /\ At(w, "child") /\ Abort

executeJob(w) ==
  \/ Fork(w)
  \/ increaseRunningJobs(w)
  \/ sendJobOutputToClient(w)
  \/ OutputMissing(w)

-------------------------------------------------------------------------------

(* Mutant: counts the busy workers down only.                                *)
DecreaseNothing(w) ==
  /\ \/ Step(w, "finish", "runDec") /\ Lock(w, "worker")
     \/ Step(w, "runDec", "busyDecLoad") /\ UNCHANGED mutex
  /\ UNCHANGED <<process, blocked, queueVars, counterVars, flagVars, localVars,
                 sent>>

(* Lines 420-421: runningJobs-- , with the mutex that the ++ does not take.   *)
DecreaseRunningJobs(w) ==
  /\ \/ /\ Step(w, "finish", "runDec")
        /\ Lock(w, "worker")
        /\ LoadReg(w, runningJobs)
        /\ UNCHANGED runningJobs
     \/ /\ Step(w, "runDec", "busyDecLoad")
        /\ runningJobs' = Dec(reg[w])
        /\ ClearReg(w)
        /\ UNCHANGED mutex
  /\ UNCHANGED <<process, blocked, queueVars, busyWorkers, concurrency,
                 jobsEntered, flagVars, client_socket, clientSocket, triplate,
                 index, sent>>

DecreaseBusyWorkers(w) ==
  /\ \/ /\ Step(w, "busyDecLoad", "busyDec")
        /\ LoadReg(w, busyWorkers)
        /\ UNCHANGED <<mutex, busyWorkers>>
     \/ /\ Step(w, "busyDec", "notify")
        /\ busyWorkers' = Dec(reg[w])
        /\ ClearReg(w)
        /\ Unlock("worker")
  /\ UNCHANGED <<process, blocked, queueVars, runningJobs, concurrency,
                 jobsEntered, flagVars, client_socket, clientSocket, triplate,
                 index, sent>>

(* Without mutex_allJobsDone: a terminator about to wait misses it.  The      *)
(* triplate goes out of scope.                                               *)
NotifyJobDone(w) ==
  /\ Step(w, "notify", "idle")
  /\ CondSignal("allJobsDone")
  /\ triplate' = [triplate EXCEPT ![w] = NoTriplate]
  /\ UNCHANGED <<process, mutex, queueVars, counterVars, flagVars,
                 client_socket, clientSocket, reg, index, sent>>

WorkerNext(w) ==
  \/ LockWorker(w)
  \/ TestEmpty(w)
  \/ LoadLevel(w)
  \/ CompareLevel(w)
  \/ Sleep(w)
  \/ Wake(w)
  \/ CheckShouldStop(w)
  \/ UnlockAgain(w)
  \/ LockQueue(w)
  \/ receiveJobFromBuffer(w)
  \/ SignalController(w)
  \/ IncreaseBusyWorkers(w)
  \/ executeJob(w)
  \/ DecreaseRunningJobs(w)
  \/ DecreaseBusyWorkers(w)
  \/ NotifyJobDone(w)
===============================================================================
