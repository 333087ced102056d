---------------------------- MODULE JobExecutorServer ----------------------------
(*****************************************************************************)
(* jobExecutorServer: the main thread, the worker threads and the           *)
(* controller threads, interleaved, and what is true of them together.      *)
(*****************************************************************************)
EXTENDS MainThread, WorkerThread, ControllerThread

(* A client's command is in its connection before a controller reads it, and  *)
(* nothing moves in a process that has ended.                                 *)
Next ==
  /\ process = "running"
  /\ UNCHANGED command
  /\ \/ MainNext
     \/ \E w \in Workers : WorkerNext(w)
     \/ \E c \in Clients : ControllerNext(c)
     \/ SpuriousWakeup
     \/ BufferRaceAborts

Spec == Init /\ [][Next]_vars

(* The scheduler runs every thread that stays able to run, and a client that  *)
(* has been started connects.  A mutex need not be passed on fairly, and no   *)
(* spurious wake-up, failing call or effect of a race is ever due.            *)
StepOf(A) == process = "running" /\ UNCHANGED command /\ A

MainWorks ==
  \/ \E c \in Clients : AcceptConnection(c)
  \/ CreateController
  \/ AwaitController
  \/ TestShouldStop
  \/ NotifyWorkersToExit
  \/ JoinWorkers

Fairness ==
  /\ WF_vars(StepOf(MainWorks))
  /\ \A w \in Workers : WF_vars(StepOf(WorkerNext(w)))
  /\ \A c \in Clients : WF_vars(StepOf(ControllerNext(c)))

FairSpec == Spec /\ Fairness

-------------------------------------------------------------------------------
(* Safety, whatever the clients ask for.                                     *)

(* Where each thread holds each mutex.  The terminator takes jobs from the    *)
(* queue at the workers' labels, without the mutex.                           *)
Holds(t, m) ==
  \/ /\ m = "controller"
     /\ pc[t] \in {"testFull", "sleepFull", "wokenFull"}
  \/ /\ m = "worker"
     /\ pc[t] \in {"test", "level", "compare", "sleep", "woken", "runDec",
                   "busyDecLoad", "busyDec"}
  \/ /\ m = "jobInsertion"
     /\ \/ pc[t] \in {"testCapacity", "push", "pushLoad", "pushStore"}
        \/ t \in Workers /\ pc[t] \in {"front", "erase", "takeLoad", "takeStore"}

MainLabels ==
  {"accept", "create", "await", "loop", "closing", "join", "returned", "failed"}

WorkerLabels ==
  {"idle", "test", "level", "compare", "sleep", "asleep", "woken", "stopping",
   "exited", "lockQueue", "front", "erase", "takeLoad", "takeStore", "signal",
   "busyLoad", "busyStore", "fork", "runLoad", "runStore", "child", "finish",
   "runDec", "busyDecLoad", "busyDec", "notify"}

(* A controller of this label has not yet let the main thread go on.         *)
PendingLabels ==
  {"start", "receive", "handshake", "stopIssuers", "cancelIssuers", "drain",
   "front", "erase", "takeLoad", "takeStore", "drainSend", "jobsDone",
   "sleepDone", "asleepDone", "bye", "stopServer"}

ServingLabels ==
  {"lockFull", "testFull", "sleepFull", "asleepFull", "wokenFull", "idLoad",
   "idStore", "idRead", "lockInsert", "testCapacity", "push", "pushLoad",
   "pushStore", "respond", "wakeWorker", "setLevel", "concurrencySet",
   "wakeTest", "wakeSignal", "pollSize", "poll", "pollAt", "search", "searchAt",
   "eraseAt", "removeLoad", "removeStore", "removed", "notFound",
   "notifyRemoved", "leave", "finished"}

ControllerLabels == {"unborn"} \cup PendingLabels \cup ServingLabels

PcType ==
  /\ pc \in [Threads -> MainLabels \cup WorkerLabels \cup ControllerLabels]
  /\ pc[Main] \in MainLabels
  /\ \A w \in Workers : pc[w] \in WorkerLabels
  /\ \A c \in Clients : pc[c] \in ControllerLabels

(* The variables keep the types of the declarations they model.              *)
TypeOK ==
  /\ PcType
  /\ process \in {"running", "exited", "aborted"}
  /\ mutex \in [Mutexes -> Threads \cup {NoThread}]
  /\ blocked \in [CondVars -> SUBSET Threads]
  /\ buffer \in Seq(Triplate)
  /\ size \in UInt
  /\ runningJobs \in UInt
  /\ busyWorkers \in UInt
  /\ concurrency \in UInt
  /\ jobsEntered \in UInt
  /\ controllerStop \in BOOLEAN
  /\ serverStop \in BOOLEAN
  /\ continueExecution \in BOOLEAN
  /\ client_socket \in Clients \cup {NoThread}
  /\ clientSocket \in [Clients -> Clients \cup {NoThread}]
  /\ triplate \in [Threads -> Triplate]
  /\ reg \in [Threads -> UInt]
  /\ index \in [Clients -> UInt]
  /\ command \in [Clients -> Commands]
  /\ sent \in [Clients -> Seq(Messages)]

(* A controller serves the connection it was created for, although it reads  *)
(* the socket through the address of a local that run() assigns again for    *)
(* the next client (server.cpp:320, 365).                                     *)
SocketHandoff ==
  \A c \in Clients : pc[c] \notin {"unborn", "start"} => clientSocket[c] = c

(* The hand-off, made inductive: a controller that has not yet released the   *)
(* main thread keeps it waiting, with that controller's socket in its local.  *)
Handoff ==
  /\ SocketHandoff
  /\ \A c \in Clients :
       pc[c] \in PendingLabels =>
         /\ At(Main, "await")
         /\ ~continueExecution
         /\ client_socket = c
  /\ At(Main, "create") =>
       /\ client_socket \in Clients
       /\ At(client_socket, "unborn")
       /\ ~continueExecution

(* A thread inside a critical section owns its mutex, so no two threads are  *)
(* in sections of one mutex.  Once the server stops, the second unlock of    *)
(* server.cpp:402 breaks this for mutex_worker.                               *)
MutualExclusion ==
  \A t \in Threads :
    /\ Holds(t, "controller") => mutex["controller"] = t
    /\ Holds(t, "jobInsertion") => mutex["jobInsertion"] = t
    /\ Holds(t, "worker") /\ ~serverStop => mutex["worker"] = t

Count(c, message) ==
  Cardinality({i \in DOMAIN sent[c] : sent[c][i] = message})

(* A client gets the output of its job at most once, even while stop and     *)
(* exit take jobs out of the queue without its mutex.                         *)
OutputAtMostOnce == \A c \in Clients : Count(c, "OUTPUT") <= 1

(* A client that is told its job was not placed in the queue because of the  *)
(* termination never hears of that job again (controllerThread.cpp:123-134). *)
CanceledIsFinal ==
  \A c \in Clients :
    Count(c, "CANCELED") > 0 => sent[c] = <<"CANCELED">>

(* A controller that is done has told its client all that jobCommander waits  *)
(* for, whatever exit, stop and the workers did to its job meanwhile, and     *)
(* poll never sends a job beyond the number it announced                      *)
(* (controllerThread.cpp:129-130, 159-160, 199-200, 232-245, 281-295, 348-349; *)
(* clientReceivers.cpp:23-70, 116-123).                                       *)
AnswersComplete ==
  \A c \in Clients :
    /\ command[c].mode = "poll" => Len(sent[c]) <= reg[c] + 1
    /\ At(c, "finished") =>
         CASE command[c].mode = "issueJob" ->
                Said(sent[c], "SUBMITTED") \/ Said(sent[c], "CANCELED")
           [] command[c].mode = "setConcurrency" -> sent[c] = <<"CONCURRENCY SET">>
           [] command[c].mode = "poll" -> Len(sent[c]) = reg[c] + 1
           [] command[c].mode = "stop" -> sent[c] \in {<<"REMOVED">>, <<"NOTFOUND">>}
           [] command[c].mode = "exit" -> sent[c] = <<"SERVER TERMINATED">>
           [] OTHER -> sent[c] = << >>

ModeRead(c) == pc[c] \notin {"unborn", "start", "receive"}

Dialogue ==
  INSTANCE ClientDialogue WITH
    mode <- [c \in Clients |->
               IF ModeRead(c) THEN command[c].mode ELSE "none"],
    said <- sent

(* Whatever workers, issuers and terminators send, each client hears only    *)
(* what its own command calls for, in an order the protocol allows: the      *)
(* server implements ClientDialogue (controllerThread.cpp:129-130, 159-160,  *)
(* 199-200, 232-244, 281-295, 329-330, 348-349; workerThread.cpp:236-237).   *)
ImplementsDialogue == Dialogue!Spec

(* The main thread never waits in vain, but for an invalid command: while it  *)
(* is not released, the controller it waits for has the release still to     *)
(* come, and once it is released it is awake, however the two run into each   *)
(* other (server.cpp:328-332; controllerThread.cpp:111-114, 348-357).        *)
ReleaseNotLost ==
  At(Main, "await") =>
    IF continueExecution
    THEN Main \notin blocked["serverContinue"]
    ELSE \/ pc[client_socket] \in PendingLabels
         \/ command[client_socket].mode = "invalid"

(* exit lets the main thread go on only when the server's shouldStop is set,  *)
(* so that no client is accepted any more (controllerThread.cpp:352-357).    *)
NoneAcceptedAfterStop ==
  [][serverStop => client_socket' = client_socket]_vars

-------------------------------------------------------------------------------
(* Safety while no client sends stop, poll or exit: the queue is touched     *)
(* with mutex_jobInsertion only.                                             *)

QueueCommands == {"issueJob", "setConcurrency", "invalid"}

(* No two threads are ever inside the vector at once, one of them changing   *)
(* it (waitingBufferQueue.cpp:58, 76, 77).                                   *)
BufferRaceFree == ~BufferRace

Adding   == \E c \in Clients : pc[c] \in {"pushLoad", "pushStore"}
Removing == \E w \in Workers : pc[w] \in {"takeLoad", "takeStore"}

(* size differs from the length of the vector only between the change of the *)
(* vector and the store of the new size, and by that one job; the vector     *)
(* never outgrows bufferSize, although isFull() was asked under another      *)
(* mutex (controllerThread.cpp:119, 150; waitingBufferQueue.cpp:56-59).      *)
SizeTracksBuffer ==
  /\ ~(Adding /\ Removing)
  /\ Len(buffer) = IF Adding THEN size + 1
                   ELSE IF Removing THEN size - 1 ELSE size
  /\ Len(buffer) <= Capacity

(* The jobs a worker has taken and not yet answered.                         *)
Executing(w) ==
  pc[w] \in {"takeLoad", "takeStore", "signal", "busyLoad", "busyStore", "fork",
            "runLoad", "runStore", "child"}

Lifecycle ==
  INSTANCE JobLifecycle WITH
    Jobs     <- Clients,
    Slots    <- Cardinality(Workers),
    MayLose  <- ForkMayFail,
    waiting  <- [i \in DOMAIN buffer |-> buffer[i].socketID],
    running  <- {triplate[w].socketID : w \in {v \in Workers : Executing(v)}},
    finished <- {c \in Clients : Count(c, "OUTPUT") > 0}

(* Every job runs once, in the order of insertion, and its output goes to    *)
(* the client that issued it: the server implements JobLifecycle.            *)
ImplementsLifecycle == Lifecycle!Spec

-------------------------------------------------------------------------------
(* Liveness                                                                  *)

(* Every command but exit, and but an invalid one, releases the main thread   *)
(* to accept the next client (server.cpp:287-289, 328-332).                  *)
HandshakeCompletes ==
  \A c \in Clients :
    (/\ At(Main, "await") /\ client_socket = c
     /\ command[c].mode \notin {"exit", "invalid"})
      ~> (At(Main, "accept") \/ process # "running")

(* A worker that is awake works the queue off before it waits again, unless  *)
(* the level is 0.                                                           *)
BacklogDrains ==
  ((\E w \in Workers : At(w, "idle")) /\ ~isEmpty)
    ~> (isEmpty \/ concurrency = 0)

(* Raising the level restarts a queue that stands still, whatever wake-up    *)
(* was lost before (controllerThread.cpp:202-207).                           *)
RaisedLevelRuns ==
  (/\ \E c \in Clients :
        At(c, "wakeTest") /\ index[c] = 0 /\ clientCommand(c).arg > 0
   /\ ~isEmpty)
    ~> (isEmpty \/ concurrency = 0)

(* Whoever waits for a place when exit stops the issuers is told so, although *)
(* others compete for the mutex and for places that the emptying of the       *)
(* queue makes (controllerThread.cpp:121-134, 313-318).                       *)
CanceledIssuersReturn ==
  \A c \in Clients :
    (At(c, "asleepFull") /\ \E t \in Clients : At(t, "cancelIssuers"))
      ~> (At(c, "finished") \/ process # "running")

(* With one worker thread no job is ever taken from an empty queue.          *)
NeverAborts == process # "aborted"

(* A worker's labels from the increase of runningJobs to the decrease.       *)
Counted == {"child", "finish", "runDec"}

(* "The amount of running jobs at any moment",                                *)
(* include/jobExecutorServerProcess.h:34: when no worker has a job in hand,   *)
(* runningJobs is 0.  So it is with one worker; with two, one overwrites the  *)
(* other's update (workerThread.cpp:305, server.cpp:421).                     *)
RunningJobsCounted ==
  (\A w \in Workers : ~Executing(w) /\ pc[w] \notin Counted)
    => runningJobs = 0

-------------------------------------------------------------------------------
(* What the comments say, and the code does not do.                          *)

Running(w) == At(w, "child")

(* "The concurrency level of the server (how many jobs can run at the same   *)
(* time)", include/jobExecutorServerProcess.h:29, while nobody changes it.    *)
(* runningJobs is tested under mutex_worker and increased much later.        *)
ConcurrencyRespected ==
  Cardinality({w \in Workers : Running(w)}) <= concurrency

(* The job is put in the queue "to be executed later on by a worker thread",  *)
(* controllerThread.cpp:104-105.                                              *)
SubmittedIsExecuted ==
  \A c \in Clients : Count(c, "SUBMITTED") > 0 ~> Count(c, "OUTPUT") > 0

(* exit "sends a termination message back to the client and terminates the   *)
(* server", controllerThread.cpp:306-307: its client is told at a moment when *)
(* no job waits or runs (lines 320, 334), and the process ends and leaves no  *)
(* job in the queue.                                                         *)
ExitTerminates ==
  /\ \A c \in Clients :
       At(c, "stopIssuers") ~>
         (At(c, "stopServer") /\ isEmpty /\ \A w \in Workers : ~Running(w))
  /\ serverStop ~> (process = "exited" /\ isEmpty)

(* stop removes "the job specified to be removed from the buffer, according   *)
(* to its job ID", controllerThread.cpp:254-255: whose job was removed gets   *)
(* no output, and no job of that ID waits any more.                          *)
RemovedIsGone ==
  \A c \in Clients :
    /\ Count(c, "REMOVED BEFORE EXECUTION") > 0 => Count(c, "OUTPUT") = 0
    /\ At(c, "notifyRemoved") =>
         \A i \in DOMAIN buffer : buffer[i].jobID # clientCommand(c).arg

(* run() "waits for new connections to accept them, reads the data that were  *)
(* sent and also sends data back to the client", server.cpp:288-289: unless   *)
(* the server is told to stop, every client's turn comes, and its command is  *)
(* carried out to the end.                                                   *)
ClientsServed ==
  \A c \in Clients : At(c, "unborn") ~> (At(c, "finished") \/ serverStop)
===============================================================================
