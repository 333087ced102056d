------------------------------ MODULE JobExecution ------------------------------
(*****************************************************************************)
(* Worker::Thread::executeJob with the processes it creates: the pipe, the  *)
(* output file temp/<pid>.output, exec, wait(NULL), and a child whose exec  *)
(* fails, returns from executeJob and goes on as a worker of its own copy   *)
(* of the server.                                                            *)
(*                                                                           *)
(* The loop around executeJob is WorkerThread's, reduced to taking the      *)
(* first job of the process's queue; the level is high enough for every     *)
(* thread.                                                                   *)
(*****************************************************************************)
EXTENDS Naturals, Sequences, FiniteSets

CONSTANTS
  Workers,      \* the worker threads of the server
  Server,       \* the server's process
  Pids,         \* the process ids fork() returns, again and again
  Jobs,         \* the jobs the clients issue
  NoExecutable, \* those of them whose executable execvp() does not find
  MaxFaults,    \* how many system calls may fail
  Nobody        \* no process, no job, no file; the parent that is init

ASSUME NamesDistinct ==
  /\ Workers \cap Pids = {}
  /\ Server \notin Pids
  /\ Nobody \notin Pids \cup Jobs \cup {Server}

ASSUME FinitelyMany == IsFiniteSet(Workers) /\ IsFiniteSet(Pids)

ASSUME ExecutionParameters ==
  /\ NoExecutable \subseteq Jobs
  /\ MaxFaults \in Nat

VARIABLES
  issued,  \* the jobs that have been inserted in the server's queue
  queue,   \* the waiting jobs, in the server and in every copy of it
  pc,      \* the statement of each worker, and of each child's only thread
  running, \* the job of each thread
  child,   \* what fork() has returned to each thread
  parent,  \* the process that can wait for each child
  path,    \* the children whose pipe holds the path of their file
  file,    \* temp/<pid>.output: whose output it holds, and whether all of it
  temp,    \* whether the directory temp exists
  sent,    \* the outputs sent for each job, oldest first
  faults   \* the system calls that have failed

vars == <<issued, queue, pc, running, child, parent, path, file, temp, sent,
          faults>>

Threads   == Workers \cup Pids
Processes == {Server} \cup Pids

(* A child has one thread, the copy of the one that forked.                  *)
Process(t) == IF t \in Workers THEN Server ELSE t

Output(job, whole) == [job |-> job, whole |-> whole]

At(t, label)        == pc[t] = label
Step(t, here, next) == At(t, here) /\ pc' = [pc EXCEPT ![t] = next]
Children(p)         == {q \in Pids : parent[q] = p}

Works == UNCHANGED faults
Fails == faults < MaxFaults /\ faults' = faults + 1

Orphaned(p) == [q \in Pids |-> IF parent[q] = p THEN Nobody ELSE parent[q]]

(* The end of a process: it is a zombie until its parent has waited for it,   *)
(* and init inherits its children.                                           *)
Terminate(p) ==
  /\ pc' = [t \in Threads |-> IF Process(t) # p THEN pc[t]
                              ELSE IF p = Server THEN "dead" ELSE "zombie"]
  /\ parent' = Orphaned(p)

Init ==
  /\ issued = {}
  /\ queue = [p \in Processes |-> << >>]
  /\ pc = [t \in Threads |-> IF t \in Workers THEN "idle" ELSE "free"]
  /\ running = [t \in Threads |-> Nobody]
  /\ child = [t \in Threads |-> Nobody]
  /\ parent = [p \in Pids |-> Nobody]
  /\ path = {}
  /\ file = [p \in Pids |-> Nobody]
  /\ temp \in BOOLEAN
  /\ sent = [j \in Jobs |-> << >>]
  /\ faults = 0

(* A controller inserts a job, in the server's own queue.                    *)
insertJobTriplate(j) ==
  /\ j \notin issued
  /\ \E w \in Workers : pc[w] \notin {"dead", "exited"}
  /\ issued' = issued \cup {j}
  /\ queue' = [queue EXCEPT ![Server] = Append(@, j)]
  /\ UNCHANGED <<pc, running, child, parent, path, file, temp, sent, faults>>

receiveJobFromBuffer(t) ==
  LET q == queue[Process(t)] IN
  /\ q # << >>
  /\ Step(t, "idle", "fork")
  /\ running' = [running EXCEPT ![t] = Head(q)]
  /\ queue' = [queue EXCEPT ![Process(t)] = Tail(q)]
  /\ UNCHANGED <<issued, child, parent, path, file, temp, sent, faults>>

-------------------------------------------------------------------------------
(* The parent side.                                                          *)

(* Mutant: the result of fork() is not tested.                               *)
ForkUnchecked(t) ==
  /\ Step(t, "fork", "write")
  /\ Fails
  /\ UNCHANGED <<issued, queue, running, child, parent, path, file, temp, sent>>

(* pipe() or fork() fails, and the job is lost.                              *)
ForkFails(t) ==
  /\ Step(t, "fork", "done")
  /\ Fails
  /\ UNCHANGED <<issued, queue, running, child, parent, path, file, temp, sent>>

(* A pid no process has: new, or that of a child its parent or init has      *)
(* waited for.                                                               *)
Unused(p) == pc[p] \in {"free", "zombie"} /\ parent[p] = Nobody

(* The child is a copy of the process with this thread only.                 *)
Fork(t) ==
  /\ At(t, "fork")
  /\ \E p \in Pids :
       /\ Unused(p)
       /\ pc' = [pc EXCEPT ![t] = "write", ![p] = "readPath"]
       /\ child' = [child EXCEPT ![t] = p, ![p] = Nobody]
       /\ parent' = [parent EXCEPT ![p] = Process(t)]
       /\ running' = [running EXCEPT ![p] = running[t]]
       /\ queue' = [queue EXCEPT ![p] = queue[Process(t)]]
  /\ UNCHANGED <<issued, path, file, temp, sent, faults>>

(* Mutant: the path is not written.                                          *)
SendNothing(t) ==
  /\ Step(t, "write", "wait")
  /\ Works
  /\ UNCHANGED <<issued, queue, running, child, parent, path, file, temp, sent>>

(* When write() fails nobody waits for the child, and the write end of the   *)
(* pipe stays open: the child never sees its end.                            *)
sendDataToChildProcess(t) ==
  /\ \/ /\ Step(t, "write", "wait")
        /\ path' = path \cup {child[t]}
        /\ Works
     \/ /\ Step(t, "write", "done")
        /\ Fails
        /\ UNCHANGED path
  /\ UNCHANGED <<issued, queue, running, child, parent, file, temp, sent>>

(* Mutant: does not wait.                                                    *)
WaitNobody(t) ==
  /\ Step(t, "wait", "read")
  /\ UNCHANGED <<issued, queue, running, child, parent, path, file, temp, sent,
                 faults>>

(* wait(NULL) returns when any child of the process has ended, or at once    *)
(* when there is none.                                                       *)
Wait(t) ==
  /\ \/ \E q \in Children(Process(t)) :
          /\ At(t, "wait") /\ At(q, "zombie")
          /\ pc' = [pc EXCEPT ![t] = "read", ![q] = "free"]
          /\ parent' = [parent EXCEPT ![q] = Nobody]
     \/ /\ Children(Process(t)) = {}
        /\ Step(t, "wait", "read")
        /\ UNCHANGED parent
  /\ UNCHANGED <<issued, queue, running, child, path, file, temp, sent, faults>>

(* What the file under the path holds by now; Nobody when open() fails.      *)
readFile(t) == file[child[t]]

(* Without the contents their size is not initialised: the text sent has no  *)
(* output in it, or the allocation throws and the process ends.              *)
sendJobOutputToClient(t) ==
  /\ \/ /\ Step(t, "read", "unlink")
        /\ sent' = [sent EXCEPT ![running[t]] = Append(@, readFile(t))]
        /\ UNCHANGED parent
     \/ /\ At(t, "read")
        /\ readFile(t) = Nobody
        /\ Terminate(Process(t))
        /\ UNCHANGED sent
  /\ UNCHANGED <<issued, queue, running, child, path, file, temp, faults>>

(* Mutant: the file stays.                                                   *)
UnlinkNothing(t) ==
  /\ Step(t, "unlink", "done")
  /\ UNCHANGED <<issued, queue, running, child, parent, path, file, temp, sent,
                 faults>>

Unlink(t) ==
  /\ Step(t, "unlink", "done")
  /\ file' = [file EXCEPT ![child[t]] = Nobody]
  /\ UNCHANGED <<issued, queue, running, child, parent, path, temp, sent,
                 faults>>

(* executeJob has returned; its result is ignored.                           *)
Done(t) ==
  /\ Step(t, "done", "idle")
  /\ running' = [running EXCEPT ![t] = Nobody]
  /\ child' = [child EXCEPT ![t] = Nobody]
  /\ UNCHANGED <<issued, queue, parent, path, file, temp, sent, faults>>

executeJob(t) ==
  \/ ForkFails(t)
  \/ Fork(t)
  \/ sendDataToChildProcess(t)
  \/ Wait(t)
  \/ sendJobOutputToClient(t)
  \/ Unlink(t)

-------------------------------------------------------------------------------
(* The child side.                                                           *)

(* Blocks until the path is there; when read() fails: exit(EXIT_FAILURE).     *)
receiveDataFromParentProcess(p) ==
  /\ p \in path
  /\ At(p, "readPath")
  /\ path' = path \ {p}
  /\ \/ /\ Step(p, "readPath", "create")
        /\ Works
        /\ UNCHANGED parent
     \/ Terminate(p) /\ Fails
  /\ UNCHANGED <<issued, queue, running, child, file, temp, sent>>

(* The last write end of the pipe is gone: read() returns 0, which is no      *)
(* failure, and the child creates temp and fails to open a path it has never *)
(* been given.                                                               *)
ReadEndOfPipe(p) ==
  /\ p \notin path
  /\ At(p, "readPath")
  /\ parent[p] = Nobody
  /\ Terminate(p)
  /\ temp' = TRUE
  /\ UNCHANGED <<issued, queue, running, child, path, file, sent, faults>>

(* mkdir() or open() fails: exit(EXIT_FAILURE).                              *)
createOutputFile(p) ==
  /\ At(p, "create")
  /\ \/ /\ Step(p, "create", "exec")
        /\ file' = [file EXCEPT ![p] = Output(running[p], FALSE)]
        /\ temp' = TRUE
        /\ Works
        /\ UNCHANGED parent
     \/ /\ Terminate(p)
        /\ Fails
        /\ temp' \in {temp, TRUE}
        /\ UNCHANGED file
  /\ UNCHANGED <<issued, queue, running, child, path, sent>>

(* The job runs, prints and ends.  Its file may have been deleted already.    *)
RunJob(p) ==
  /\ At(p, "exec")
  /\ running[p] \notin NoExecutable
  /\ Terminate(p)
  /\ file' = [file EXCEPT ![p] = IF @ = Nobody THEN @ ELSE Output(@.job, TRUE)]
  /\ UNCHANGED <<issued, queue, running, child, path, temp, sent, faults>>

(* execvp() returns, and so does executeJob: the child is now a worker of a   *)
(* server of its own.  It stays blocked if a thread that it does not have     *)
(* held mutex_worker or mutex_jobInsertion when it was forked.               *)
ExecFails(p) ==
  /\ running[p] \in NoExecutable
  /\ \E next \in {"done", "stuck"} : Step(p, "exec", next)
  /\ UNCHANGED <<issued, queue, running, child, parent, path, file, temp, sent,
                 faults>>

runChild(p) ==
  \/ receiveDataFromParentProcess(p)
  \/ ReadEndOfPipe(p)
  \/ createOutputFile(p)
  \/ RunJob(p)
  \/ ExecFails(p)

-------------------------------------------------------------------------------

(* Mutant: run() returns before the workers have been joined.                *)
RemoveUnderWorkers ==
  /\ pc' = [t \in Threads |-> IF t \in Workers THEN "exited" ELSE pc[t]]
  /\ parent' = Orphaned(Server)
  /\ temp' = FALSE
  /\ file' = [p \in Pids |-> Nobody]
  /\ UNCHANGED <<issued, queue, running, child, path, sent, faults>>

(* exit has let run() join the workers: it deletes temp with all its files,   *)
(* and the process ends.  Without the directory run() reports an error.      *)
removeTeporaryDirectory ==
  /\ \A w \in Workers : At(w, "idle")
  /\ pc' = [t \in Threads |-> IF t \in Workers THEN "exited" ELSE pc[t]]
  /\ parent' = Orphaned(Server)
  /\ temp' = FALSE
  /\ file' = [p \in Pids |-> Nobody]
  /\ UNCHANGED <<issued, queue, running, child, path, sent, faults>>

ThreadNext(t) == receiveJobFromBuffer(t) \/ executeJob(t) \/ Done(t)

Next ==
  \/ \E j \in Jobs : insertJobTriplate(j)
  \/ \E t \in Threads : ThreadNext(t)
  \/ \E p \in Pids : runChild(p)
  \/ removeTeporaryDirectory

Spec == Init /\ [][Next]_vars

(* The scheduler runs every thread and every process; every job ends.        *)
Fairness ==
  /\ \A t \in Threads : WF_vars(ThreadNext(t))
  /\ \A p \in Pids : WF_vars(runChild(p))

FairSpec == Spec /\ Fairness

-------------------------------------------------------------------------------
(* Properties                                                                *)

Labels == {"idle", "fork", "write", "wait", "read", "unlink", "done", "dead",
           "exited", "free", "readPath", "create", "exec", "stuck", "zombie"}

(* The labels of the two sides of executeJob.                                *)
Parental  == {"write", "wait", "read", "unlink"}
Executing == {"fork", "readPath", "create", "exec"} \cup Parental

File == [job : Jobs, whole : BOOLEAN] \cup {Nobody}

(* The variables keep the types of what they model: a thread inside          *)
(* executeJob has a job, and a child once it has forked.                     *)
TypeOK ==
  /\ issued \subseteq Jobs
  /\ queue \in [Processes -> Seq(Jobs)]
  /\ pc \in [Threads -> Labels]
  /\ running \in [Threads -> Jobs \cup {Nobody}]
  /\ child \in [Threads -> Pids \cup {Nobody}]
  /\ parent \in [Pids -> Processes \cup {Nobody}]
  /\ path \subseteq Pids
  /\ file \in [Pids -> File]
  /\ temp \in BOOLEAN
  /\ sent \in [Jobs -> Seq(File)]
  /\ faults \in 0 .. MaxFaults
  /\ \A t \in Threads : pc[t] \in Executing => running[t] \in Jobs
  /\ \A t \in Threads : pc[t] \in Parental => child[t] \in Pids

(* "Wait for child process to finish execution", workerThread.cpp:316: what a *)
(* client gets as the output of a job that has run is no part of it and no   *)
(* other job's; without the file it is told of no output.                    *)
OutputIsWhole ==
  \A j \in Jobs \ NoExecutable : \A i \in DOMAIN sent[j] :
    sent[j][i] \in {Output(j, TRUE), Nobody}

Awaiting(p) ==
  {t \in Threads : Process(t) = p /\ pc[t] \in {"write", "wait"}}

(* The threads of a process that count on a child to wait for are never more *)
(* than its children: wait(NULL) always has one to return, although any      *)
(* thread may take any other's (workerThread.cpp:300-316).                   *)
WaitHasChild ==
  \A p \in Processes : Cardinality(Awaiting(p)) <= Cardinality(Children(p))

(* A file in temp is being written or waited for, or its worker is about to  *)
(* delete it (workerThread.cpp:332-336).                                     *)
FilesDeleted ==
  \A p \in Pids : file[p] # Nobody =>
    \/ ~At(p, "free")
    \/ \E t \in Threads : child[t] = p /\ pc[t] \in {"read", "unlink"}

(* The server leaves no directory behind, and nobody creates it again: not    *)
(* the copies of the server, nor their jobs, unless a call has failed         *)
(* (server.cpp:342-350).                                                      *)
TempStaysRemoved ==
  (faults = 0 /\ \E w \in Workers : At(w, "exited")) => ~temp

(* A worker comes back from every job whose executable exists, in a copy of   *)
(* the server too, whichever system call fails (workerThread.cpp:275-369).   *)
WorkerComesBack ==
  \A t \in Threads :
    (At(t, "fork") /\ running[t] \notin NoExecutable)
      ~> pc[t] \in {"done", "dead", "zombie", "free"}
===============================================================================
