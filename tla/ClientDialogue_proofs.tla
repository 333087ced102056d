--------------------------- MODULE ClientDialogue_proofs ---------------------------
(*****************************************************************************)
(* The server keeps to the dialogue it promises its clients: proofs for      *)
(* every number of workers and clients, whatever the clients ask for.        *)
(*****************************************************************************)
EXTENDS MutualExclusion_proofs, FiniteSetTheorems

(* The labels of each task of a controller.                                  *)
IssueLabels ==
  {"lockFull", "testFull", "sleepFull", "asleepFull", "wokenFull", "idLoad",
   "idStore", "idRead", "lockInsert", "testCapacity", "push", "pushLoad",
   "pushStore", "respond", "wakeWorker"}
LevelLabels == {"setLevel", "concurrencySet", "wakeTest", "wakeSignal"}
PollLabels  == {"pollSize", "poll", "pollAt"}
StopLabels  ==
  {"search", "searchAt", "eraseAt", "removeLoad", "removeStore", "removed",
   "notFound", "notifyRemoved", "leave"}
ExitLabels  ==
  {"stopIssuers", "cancelIssuers", "drain", "front", "erase", "takeLoad",
   "takeStore", "drainSend", "jobsDone", "sleepDone", "asleepDone", "bye",
   "stopServer"}

(* A controller is in the task its client's command names.                   *)
InTask(c) ==
  /\ pc[c] \in IssueLabels => command[c].mode = "issueJob"
  /\ pc[c] \in LevelLabels => command[c].mode = "setConcurrency"
  /\ pc[c] \in PollLabels => command[c].mode = "poll"
  /\ pc[c] \in StopLabels => command[c].mode = "stop"
  /\ pc[c] \in ExitLabels => command[c].mode = "exit"

(* The labels of an issuer whose job other threads may have seen, and those   *)
(* of a controller that has told its client nothing yet.                     *)
SharedLabels == {"pushLoad", "pushStore", "respond", "wakeWorker", "finished"}

QuietLabels ==
  {"unborn", "start", "receive", "setLevel", "concurrencySet", "pollSize"}
    \cup (IssueLabels \ SharedLabels)
    \cup (StopLabels \ {"notifyRemoved", "leave"})
    \cup (ExitLabels \ {"stopServer"})

Quiet(c) ==
  pc[c] \in QuietLabels \/ (pc[c] = "handshake" /\ command[c].mode # "exit")

Job(t) == triplate[t].socketID

(* What a controller has told its client, by where it is.                    *)
ToldSoFar(c) ==
  /\ Quiet(c) => sent[c] = << >>
  /\ pc[c] \in {"poll", "pollAt"} => sent[c] # << >>
  /\ Said(sent[c], "CANCELED") =>
       pc[c] = "finished" /\ sent[c] = <<"CANCELED">>
  /\ pc[c] \in {"pushLoad", "pushStore", "respond"} =>
       ~Said(sent[c], "SUBMITTED")
  /\ pc[c] \in {"lockInsert", "testCapacity", "push"} => Job(c) = c

TaskInv == \A c \in Clients : InTask(c) /\ ToldSoFar(c)

(* The client of a job that has been in the queue.                           *)
Shared(d) ==
  /\ d \in Clients
  /\ command[d].mode = "issueJob"
  /\ pc[d] \in SharedLabels
  /\ ~Said(sent[d], "CANCELED")

(* A worker, or the terminator, that has copied the oldest job and owes its   *)
(* client an answer.                                                         *)
HandLabels ==
  {"erase", "takeLoad", "takeStore", "signal", "busyLoad", "busyStore", "fork",
   "runLoad", "runStore", "child", "drainSend"}

InHand(t) == pc[t] \in HandLabels

Answer(t) == IF t \in Workers THEN "OUTPUT" ELSE "TERMINATED BEFORE EXECUTION"
Answers   == {"OUTPUT", "TERMINATED BEFORE EXECUTION"}

Queued(i) == buffer[i].socketID

(* A job in the queue stands there once, and its client has had no answer.    *)
QueuedInv ==
  /\ \A i \in 1 .. Len(buffer) :
       Shared(Queued(i)) /\ \A m \in Answers : ~Said(sent[Queued(i)], m)
  /\ \A i, j \in 1 .. Len(buffer) : Queued(i) = Queued(j) => i = j

(* A job in hand is still in the queue only until it is erased there, where   *)
(* it is the first; nobody else of the same kind has it.                     *)
Carries(t) ==
  /\ Shared(Job(t))
  /\ ~Said(sent[Job(t)], Answer(t))
  /\ \A i \in 1 .. Len(buffer) :
       Queued(i) = Job(t) => pc[t] = "erase" /\ i = 1

HandInv ==
  /\ \A t \in Threads : InHand(t) => Carries(t)
  /\ \A t, u \in Workers :
       t # u /\ InHand(t) /\ InHand(u) => Job(t) # Job(u)

(* A controller that stops a job holds one that has been in the queue.        *)
RemoverLabels ==
  {"eraseAt", "removeLoad", "removeStore", "removed", "notifyRemoved"}

RemoverInv ==
  \A c \in Clients : pc[c] \in RemoverLabels => Shared(Job(c))

(* The inductive invariant of the dialogue.                                  *)
DialogueInv == TaskInv /\ QueuedInv /\ HandInv /\ RemoverInv

-------------------------------------------------------------------------------
(* What a client has been told after one more message.                       *)
LEMMA SaidAppend ==
  ASSUME NEW s \in Seq(Messages), NEW m \in Messages, NEW x
  PROVE  Said(Append(s, m), x) <=> Said(s, x) \/ m = x
<1>1. /\ Len(Append(s, m)) = Len(s) + 1 /\ Len(s) \in Nat
      /\ Append(s, m)[Len(s) + 1] = m
      /\ \A i \in 1 .. Len(s) : Append(s, m)[i] = s[i]
      /\ DOMAIN s = 1 .. Len(s)
      /\ DOMAIN Append(s, m) = 1 .. Len(Append(s, m))
  BY AppendProperties, LenProperties
<1>2. ASSUME Said(Append(s, m), x) PROVE Said(s, x) \/ m = x
  <2>1. PICK i \in 1 .. Len(s) + 1 : Append(s, m)[i] = x
    BY <1>1, <1>2 DEF Said
  <2> QED BY <1>1, <2>1 DEF Said
<1>3. ASSUME Said(s, x) PROVE Said(Append(s, m), x)
  BY <1>1, <1>3 DEF Said
<1>4. ASSUME m = x PROVE Said(Append(s, m), x)
  BY <1>1, <1>4 DEF Said
<1> QED BY <1>2, <1>3, <1>4

(* Nothing is in an empty sequence, and a first message is the only one.     *)
LEMMA SaidFirst ==
  ASSUME NEW m, NEW x
  PROVE  /\ ~Said(<< >>, x)
         /\ Append(<< >>, m) = <<m>>
         /\ Append(<< >>, m) # << >>
BY DEF Said

(* A message reaches the one client it is sent to.                           *)
LEMMA SendReaches ==
  ASSUME TypeOK, NEW d \in Clients, NEW m \in Messages, Send(d, m)
  PROVE  /\ sent'[d] = Append(sent[d], m)
         /\ sent'[d] # << >>
         /\ \A c \in Clients \ {d} : sent'[c] = sent[c]
         /\ \A c \in Clients, x \in Messages :
              Said(sent'[c], x) <=> Said(sent[c], x) \/ (c = d /\ x = m)
<1>1. /\ sent'[d] = Append(sent[d], m)
      /\ \A c \in Clients \ {d} : sent'[c] = sent[c]
      /\ sent[d] \in Seq(Messages)
  BY DEF TypeOK, Send
<1>2. sent'[d] # << >>
  BY <1>1, AppendProperties
<1>3. ASSUME NEW x \in Messages
      PROVE  Said(sent'[d], x) <=> Said(sent[d], x) \/ x = m
  BY <1>1, SaidAppend
<1> QED BY <1>1, <1>2, <1>3

(* Main, workers and clients are threads with no name in common.             *)
LEMMA WhoIsWho ==
  /\ \A w \in Workers : w \in Threads /\ w \notin Clients /\ w # Main
  /\ \A c \in Clients : c \in Threads /\ c \notin Workers /\ c # Main
  /\ Main \in Threads /\ Main \notin Workers /\ Main \notin Clients
  /\ NoThread \notin Clients
BY ThreadsDistinct DEF Threads

(* Whom a thread in hand can be: a worker, or the one terminator.            *)
LEMMA Hands ==
  ASSUME TypeOK, Handoff
  PROVE  /\ \A t \in Threads : InHand(t) => t \in Workers \cup Clients
         /\ \A c \in Clients :
              InHand(c) => /\ c = client_socket
                           /\ pc[c] \in {"erase", "takeLoad", "takeStore", "drainSend"}
<1>1. ~InHand(Main)
  BY DEF TypeOK, PcType, MainLabels, InHand, HandLabels
<1>2. \A c \in Clients :
        InHand(c) => pc[c] \in {"erase", "takeLoad", "takeStore", "drainSend"}
  BY DEF TypeOK, PcType, ControllerLabels, PendingLabels, ServingLabels, InHand,
         HandLabels
<1>3. \A c \in Clients : InHand(c) => c = client_socket
  BY <1>2 DEF Handoff, PendingLabels
<1> QED BY <1>1, <1>2, <1>3 DEF Threads

-------------------------------------------------------------------------------
(* Steps that leave the queue alone and answer no job                        *)

(* t moves, and no other thread.                                             *)
ActsAlone(t) ==
  /\ UNCHANGED command
  /\ \A u \in Threads \ {t} : pc'[u] = pc[u] /\ triplate'[u] = triplate[u]

(* What the controller c says to its own client.                             *)
OwnWords(c) ==
  \E m \in Messages \ Answers :
    /\ ModeRead(c)
    /\ MaySay(command[c].mode, sent[c], m)
    /\ Send(c, m)
    /\ pc[c] \in SharedLabels => m # "CANCELED"

Plain(t) ==
  /\ ActsAlone(t)
  /\ UNCHANGED buffer
  /\ InHand(t)' => InHand(t) /\ pc[t] # "erase" /\ UNCHANGED triplate[t]
  /\ UNCHANGED sent \/ (t \in Clients /\ OwnWords(t))
  /\ t \in Clients =>
       /\ pc'[t] \in RemoverLabels => Shared(Job(t)')
       /\ pc[t] \in SharedLabels => pc'[t] \in SharedLabels
       /\ InTask(t)' /\ ToldSoFar(t)'
       /\ (ModeRead(t) <=> ModeRead(t)') \/ (executeTask(t) /\ UNCHANGED sent)

(* Such a step leaves every shared job shared.                               *)
LEMMA SharedStays ==
  ASSUME TypeOK, NEW t \in Threads, ActsAlone(t),
         t \in Clients /\ pc[t] \in SharedLabels => pc'[t] \in SharedLabels,
         NEW d, Shared(d), Said(sent'[d], "CANCELED") => Said(sent[d], "CANCELED")
  PROVE  Shared(d)'
BY WhoIsWho DEF ActsAlone, Shared

(* Plain steps keep the invariant.                                           *)
LEMMA PlainKeeps ==
  ASSUME TypeOK, Handoff, DialogueInv, NEW t \in Threads, Plain(t)
  PROVE  DialogueInv'
<1>1. /\ \A d \in Clients, m \in Answers : Said(sent'[d], m) => Said(sent[d], m)
      /\ \A d \in Clients : Shared(d) /\ Said(sent'[d], "CANCELED")
                              => Said(sent[d], "CANCELED")
      /\ \A d \in Clients \ {t} : sent'[d] = sent[d]
  <2>1. CASE UNCHANGED sent
    BY <2>1
  <2>2. CASE t \in Clients /\ OwnWords(t)
    <3>1. PICK m \in Messages \ Answers :
             Send(t, m) /\ (pc[t] \in SharedLabels => m # "CANCELED")
      BY <2>2 DEF OwnWords
    <3>2. Answers \subseteq Messages /\ "CANCELED" \in Messages
      BY DEF Answers, Messages, JobMessages
    <3> HIDE DEF Answers, Messages
    <3>3. /\ \A d \in Clients \ {t} : sent'[d] = sent[d]
          /\ \A d \in Clients, x \in Messages :
               Said(sent'[d], x) <=> Said(sent[d], x) \/ (d = t /\ x = m)
      BY <2>2, <3>1, SendReaches
    <3> QED BY <3>1, <3>2, <3>3 DEF Shared
  <2> QED BY <2>1, <2>2 DEF Plain
<1>2. \A d : Shared(d) => Shared(d)'
  BY <1>1, SharedStays DEF Plain, Shared
<1>3. TaskInv'
  <2>1. \A d \in Clients \ {t} : (InTask(d) /\ ToldSoFar(d))'
    BY <1>1, WhoIsWho DEF Plain, ActsAlone, DialogueInv, TaskInv, InTask,
       ToldSoFar, Quiet, Job
  <2> QED BY <2>1 DEF Plain, TaskInv
<1>4. QueuedInv'
  BY <1>1, <1>2 DEF Plain, DialogueInv, QueuedInv, Queued, Shared
<1>5. HandInv'
  <2>1. \A u \in Threads : InHand(u)' =>
           InHand(u) /\ Job(u)' = Job(u) /\ (pc[u] = "erase" => pc'[u] = "erase")
    BY DEF Plain, ActsAlone, InHand, Job
  <2>2. \A u \in Threads : Answer(u) \in Answers
    BY DEF Answer, Answers
  <2>3. \A u \in Workers : u \in Threads
    BY WhoIsWho
  <2>4. ASSUME NEW u \in Threads, InHand(u)'
        PROVE  /\ Shared(Job(u))'
               /\ ~Said(sent[Job(u)], Answer(u))'
               /\ \A i \in 1 .. Len(buffer') :
                    Queued(i)' = Job(u)' => pc'[u] = "erase" /\ i = 1
    <3>1. InHand(u) /\ Job(u)' = Job(u) /\ Answer(u)' = Answer(u)
      BY <2>1, <2>4 DEF Answer
    <3>2. Shared(Job(u)) /\ Job(u) \in Clients /\ ~Said(sent[Job(u)], Answer(u))
      BY <3>1 DEF DialogueInv, HandInv, Carries, Shared
    <3>3. ~Said(sent'[Job(u)], Answer(u))
      BY <1>1, <2>2, <3>2
    <3>4. Shared(Job(u))'
      BY <1>2, <3>1, <3>2
    <3>5. \A i \in 1 .. Len(buffer') :
             Queued(i)' = Job(u)' => pc'[u] = "erase" /\ i = 1
      <4>1. \A i \in 1 .. Len(buffer) :
               Queued(i) = Job(u) => pc[u] = "erase" /\ i = 1
        BY <3>1 DEF DialogueInv, HandInv, Carries
      <4>2. buffer' = buffer
        BY DEF Plain
      <4> QED BY <2>1, <2>4, <3>1, <4>1, <4>2 DEF Queued
    <3> QED BY <3>1, <3>3, <3>4, <3>5
  <2>5. \A u, v \in Workers :
          u # v /\ InHand(u)' /\ InHand(v)' => Job(u)' # Job(v)'
    BY <2>1, <2>3 DEF DialogueInv, HandInv
  <2> QED BY <2>4, <2>5 DEF HandInv, Carries
<1>6. RemoverInv'
  <2>1. \A d \in Clients \ {t} : pc'[d] = pc[d] /\ Job(d)' = Job(d)
    BY WhoIsWho DEF Plain, ActsAlone, Job
  <2> QED BY <1>2, <2>1 DEF Plain, DialogueInv, RemoverInv
<1> QED BY <1>3, <1>4, <1>5, <1>6 DEF DialogueInv

-------------------------------------------------------------------------------
(* The steps that are plain                                                  *)

(* The main thread writes no message and touches no job.                     *)
LEMMA MainPlain ==
  ASSUME TypeOK, Handoff, DialogueInv, UNCHANGED command, MainNext
  PROVE  CreateController \/ Plain(Main)
<1> USE WhoIsWho DEF TypeOK, PcType, queueVars, localVars, Goto, At
<1> SUFFICES ASSUME ~CreateController PROVE Plain(Main)
  OBVIOUS
<1>1. /\ pc' = [pc EXCEPT ![Main] = pc'[Main]]
      /\ pc'[Main] \in MainLabels
      /\ UNCHANGED <<buffer, sent, triplate>>
  BY DEF MainNext, AcceptConnection, RunFails, AwaitController, TestShouldStop,
         NotifyWorkersToExit, JoinWorkers, MainLabels
<1>2. ~InHand(Main)'
  BY <1>1 DEF InHand, HandLabels, MainLabels
<1> QED BY <1>1, <1>2 DEF Plain, ActsAlone

(* The start of a controller is seen by nobody either.                       *)
LEMMA CreateKeeps ==
  ASSUME TypeOK, Handoff, DialogueInv, UNCHANGED command, CreateController
  PROVE  /\ DialogueInv'
         /\ \A c \in Clients : ModeRead(c)' = ModeRead(c)
<1>1. PICK d \in Clients : client_socket = d /\ pc[d] = "unborn"
  BY DEF CreateController, Handoff, At
<1>2. /\ pc'[d] = "start"
      /\ \A c \in Clients \ {d} : pc'[c] = pc[c]
      /\ pc'[Main] = "await"
      /\ \A w \in Workers : pc'[w] = pc[w]
      /\ UNCHANGED <<sent, buffer, triplate>>
  BY <1>1, WhoIsWho DEF CreateController, TypeOK, PcType, queueVars, localVars
<1>3. \A c : Shared(c) => Shared(c)'
  BY <1>1, <1>2 DEF Shared, SharedLabels
<1>4. TaskInv'
  <2>1. (InTask(d) /\ ToldSoFar(d))'
    BY <1>1, <1>2
       DEF DialogueInv, TaskInv, InTask, ToldSoFar, Quiet, QuietLabels, IssueLabels,
       LevelLabels, PollLabels, StopLabels, ExitLabels, SharedLabels
  <2>2. \A c \in Clients \ {d} : (InTask(c) /\ ToldSoFar(c))'
    BY <1>2 DEF DialogueInv, TaskInv, InTask, ToldSoFar, Quiet, Job
  <2> QED BY <2>1, <2>2 DEF TaskInv
<1>5. QueuedInv'
  BY <1>2, <1>3 DEF DialogueInv, QueuedInv, Queued
<1>6. \A t \in Threads : InHand(t)' => InHand(t) /\ pc'[t] = pc[t]
  BY <1>1, <1>2 DEF Threads, InHand, HandLabels
<1>7. HandInv'
  <2>1. ASSUME NEW t \in Threads, InHand(t)'
        PROVE  /\ Shared(Job(t))'
               /\ ~Said(sent'[Job(t)'], Answer(t)')
               /\ \A i \in 1 .. Len(buffer') :
                    Queued(i)' = Job(t)' => pc'[t] = "erase" /\ i = 1
    <3>1. InHand(t) /\ Job(t)' = Job(t) /\ Answer(t)' = Answer(t)
      BY <1>2, <1>6, <2>1 DEF Answer, Job
    <3>2. /\ Shared(Job(t))
          /\ ~Said(sent[Job(t)], Answer(t))
          /\ \A i \in 1 .. Len(buffer) :
               Queued(i) = Job(t) => pc[t] = "erase" /\ i = 1
      BY <3>1 DEF DialogueInv, HandInv, Carries
    <3>3. Shared(Job(t))'
      BY <1>3, <3>1, <3>2
    <3> QED BY <1>2, <1>6, <2>1, <3>1, <3>2, <3>3 DEF Queued
  <2>2. \A t, u \in Workers :
          t # u /\ InHand(t)' /\ InHand(u)' => Job(t)' # Job(u)'
    BY <1>2, WhoIsWho, <1>6 DEF DialogueInv, HandInv, Job
  <2> QED BY <2>1, <2>2 DEF HandInv, Carries
<1>8. RemoverInv'
  BY <1>1, <1>2, <1>3 DEF DialogueInv, RemoverInv, RemoverLabels, Job
<1> QED BY <1>1, <1>2, <1>4, <1>5, <1>7, <1>8 DEF DialogueInv, ModeRead

(* The steps of a worker other than taking a job and sending its output.      *)
LEMMA WorkerPlain ==
  ASSUME TypeOK, UNCHANGED command, NEW w \in Workers, WorkerNext(w)
  PROVE  CopyFront(w) \/ EraseFront(w) \/ sendJobOutputToClient(w) \/ Plain(w)
<1> USE WhoIsWho
    DEF TypeOK, PcType, queueVars, localVars, Goto, At, Step, Plain, ActsAlone,
        InHand, HandLabels
<1>1. CASE \/ LockWorker(w) \/ TestEmpty(w) \/ LoadLevel(w) \/ CompareLevel(w)
           \/ Sleep(w) \/ Wake(w)
  BY <1>1 DEF LockWorker, TestEmpty, LoadLevel, CompareLevel, Sleep, Wake
<1>2. CASE \/ CheckShouldStop(w) \/ UnlockAgain(w) \/ LockQueue(w)
           \/ SignalController(w) \/ IncreaseBusyWorkers(w)
  BY <1>2 DEF CheckShouldStop, UnlockAgain, LockQueue, SignalController,
              IncreaseBusyWorkers
<1>3. CASE receiveJobFromBuffer(w)
  BY <1>3 DEF receiveJobFromBuffer, getJobTriplate, LoadSize, StoreSize
<1>4. CASE executeJob(w)
  BY <1>4 DEF executeJob, Fork, increaseRunningJobs, OutputMissing, Abort
<1>5. CASE DecreaseRunningJobs(w) \/ DecreaseBusyWorkers(w)
  BY <1>5 DEF DecreaseRunningJobs, DecreaseBusyWorkers
<1>6. CASE NotifyJobDone(w)
  BY <1>6 DEF NotifyJobDone
<1> QED BY <1>1, <1>2, <1>3, <1>4, <1>5, <1>6 DEF WorkerNext

(* What is known of a controller that has its socket: it serves client c.    *)
LEMMA Serves ==
  ASSUME TypeOK, Handoff, NEW c \in Clients, pc[c] \notin {"unborn", "start"}
  PROVE  clientSocket[c] = c /\ clientCommand(c) = command[c]
BY DEF Handoff, SocketHandoff, clientCommand

(* A silent move of c that keeps its triplate is plain when it leads from a   *)
(* label where nothing was said to another, or stays within the rest.        *)
LEMMA QuietMove ==
  ASSUME TypeOK, DialogueInv, NEW c \in Clients, ActsAlone(c),
         UNCHANGED <<buffer, sent>>, ModeRead(c), ModeRead(c)', InTask(c)',
         InHand(c)' => InHand(c) /\ pc[c] # "erase" /\ UNCHANGED triplate[c],
         pc'[c] \in RemoverLabels => Shared(Job(c)'),
         Quiet(c), pc'[c] \notin {"poll", "pollAt"},
         pc'[c] \in {"lockInsert", "testCapacity", "push"} => Job(c)' = c
  PROVE  Plain(c)
<1>1. sent'[c] = << >> /\ pc[c] \notin SharedLabels
  BY DEF DialogueInv, TaskInv, ToldSoFar, Quiet, QuietLabels, IssueLabels,
         StopLabels, ExitLabels, SharedLabels
<1>2. ToldSoFar(c)'
  BY <1>1, SaidFirst DEF ToldSoFar
<1> QED BY <1>1, <1>2 DEF Plain

(* insertNewJobToBufferQueue but for the insertion into the vector.          *)
LEMMA IssuerPlain ==
  ASSUME TypeOK, Handoff, DialogueInv, UNCHANGED command, NEW c \in Clients,
         insertNewJobToBufferQueue(c)
  PROVE  PushBack(c) \/ Plain(c)
<1> USE WhoIsWho
    DEF TypeOK, PcType, queueVars, localVars, Goto, At, Move, ActsAlone, ModeRead,
        InHand, HandLabels, Quiet, QuietLabels, IssueLabels, LevelLabels, PollLabels,
        StopLabels, ExitLabels, SharedLabels, RemoverLabels
<1>0. pc[c] \in IssueLabels => clientSocket[c] = c /\ command[c].mode = "issueJob"
  BY Serves DEF DialogueInv, TaskInv, InTask
<1>1. CASE LockFull(c) \/ TestFull(c) \/ SleepFull(c) \/ WakeFull(c)
  BY <1>0, <1>1, QuietMove DEF LockFull, TestFull, SleepFull, WakeFull, InTask
<1>2. CASE CheckCanceled(c)
  <2>1. CASE UNCHANGED sent
    BY <1>0, <1>2, <2>1, QuietMove DEF CheckCanceled, InTask
  <2>2. CASE Send(c, "CANCELED") /\ pc'[c] = "finished"
    <3>1. /\ pc[c] = "wokenFull"
          /\ ActsAlone(c) /\ UNCHANGED <<buffer, triplate>>
      BY <1>2 DEF CheckCanceled
    <3>2. sent[c] = << >>
      BY <3>1 DEF DialogueInv, TaskInv, ToldSoFar
    <3>3. "CANCELED" \in Messages \ Answers
      BY DEF Messages, JobMessages, Answers
    <3>4. sent'[c] = <<"CANCELED">>
      BY <2>2, <3>2, <3>3, SendReaches, SaidFirst
    <3>5. InTask(c)' /\ ToldSoFar(c)'
      BY <2>2, <3>4 DEF InTask, ToldSoFar
    <3>6. MaySay(command[c].mode, sent[c], "CANCELED")
      BY <1>0, <3>1, <3>2, SaidFirst DEF MaySay, JobMessages
    <3> QED BY <2>2, <3>1, <3>3, <3>5, <3>6 DEF Plain, OwnWords
  <2> QED BY <1>0, <1>2, <2>1, <2>2 DEF CheckCanceled, Respond
<1>3. CASE TakeJobID(c)
  <2>1. /\ pc[c] \in {"idLoad", "idStore", "idRead"}
        /\ pc'[c] \in {"idStore", "idRead", "lockInsert"}
        /\ ActsAlone(c) /\ UNCHANGED <<buffer, sent>>
        /\ pc'[c] = "lockInsert" => triplate'[c].socketID = clientSocket[c]
    BY <1>3 DEF TakeJobID
  <2> QED BY <1>0, <2>1, QuietMove DEF InTask, Job
<1>4. CASE LockInsert(c)
  BY <1>0, <1>4, QuietMove DEF LockInsert, InTask, Job, DialogueInv, TaskInv, ToldSoFar
<1>5. CASE InsertJob(c)
  <2>1. CASE TestCapacity(c, "respond")
    <3>1. /\ pc[c] = "testCapacity" /\ pc'[c] \in {"push", "respond"}
          /\ ActsAlone(c) /\ UNCHANGED <<buffer, sent, triplate>>
      BY <2>1 DEF TestCapacity
    <3>2. sent[c] = << >> /\ Job(c) = c
      BY <3>1 DEF DialogueInv, TaskInv, ToldSoFar
    <3>3. InTask(c)' /\ ToldSoFar(c)'
      BY <1>0, <3>1, <3>2, SaidFirst DEF InTask, ToldSoFar, Job
    <3> QED BY <3>1, <3>3 DEF Plain
  <2>2. CASE LoadSize(c, "pushLoad", "pushStore")
             \/ StoreSize(c, "pushStore", Inc(reg[c]), "respond")
    <3>1. /\ pc[c] \in {"pushLoad", "pushStore"}
          /\ pc'[c] \in {"pushStore", "respond"}
          /\ ActsAlone(c) /\ UNCHANGED <<buffer, sent, triplate>>
      BY <2>2 DEF LoadSize, StoreSize
    <3>2. ~Said(sent[c], "SUBMITTED") /\ ~Said(sent[c], "CANCELED")
      BY <3>1 DEF DialogueInv, TaskInv, ToldSoFar
    <3>3. InTask(c)' /\ ToldSoFar(c)'
      BY <1>0, <3>1, <3>2 DEF InTask, ToldSoFar
    <3> QED BY <3>1, <3>3 DEF Plain
  <2> QED BY <1>5, <2>1, <2>2 DEF InsertJob, insertJobTriplate
<1>6. CASE RespondSubmitted(c)
  <2>1. /\ pc[c] = "respond" /\ pc'[c] = "wakeWorker"
        /\ ActsAlone(c) /\ UNCHANGED <<buffer, triplate>>
        /\ Send(c, "SUBMITTED")
    BY <1>0, <1>6 DEF RespondSubmitted, Respond
  <2>2. ~Said(sent[c], "SUBMITTED") /\ ~Said(sent[c], "CANCELED")
    BY <2>1 DEF DialogueInv, TaskInv, ToldSoFar
  <2>3. "SUBMITTED" \in Messages \ Answers /\ "CANCELED" \in Messages
    BY DEF Messages, JobMessages, Answers
  <2>4. ~Said(sent'[c], "CANCELED")
    BY <2>1, <2>2, <2>3, SendReaches
  <2>5. InTask(c)' /\ ToldSoFar(c)'
    BY <1>0, <2>1, <2>4 DEF InTask, ToldSoFar
  <2>6. MaySay(command[c].mode, sent[c], "SUBMITTED")
    BY <1>0, <2>1, <2>2 DEF MaySay, JobMessages
  <2> QED BY <2>1, <2>3, <2>5, <2>6 DEF Plain, OwnWords
<1>7. CASE WakeWorker(c)
  <2>1. /\ pc[c] = "wakeWorker" /\ pc'[c] = "finished"
        /\ ActsAlone(c) /\ UNCHANGED <<buffer, sent, triplate>>
    BY <1>7 DEF WakeWorker
  <2>2. ~Said(sent[c], "CANCELED")
    BY <2>1 DEF DialogueInv, TaskInv, ToldSoFar
  <2>3. InTask(c)' /\ ToldSoFar(c)'
    BY <2>1, <2>2 DEF InTask, ToldSoFar
  <2> QED BY <2>1, <2>3 DEF Plain
<1> QED BY <1>1, <1>2, <1>3, <1>4, <1>5, <1>6, <1>7 DEF insertNewJobToBufferQueue

(* The first word to a client that is not cancelled is plain.                *)
LEMMA FirstWord ==
  ASSUME TypeOK, DialogueInv, NEW c \in Clients, ActsAlone(c), UNCHANGED buffer,
         ModeRead(c), InTask(c)', Quiet(c), ~InHand(c)',
         pc'[c] \in RemoverLabels => Shared(Job(c)'),
         pc'[c] \in {"wakeTest", "poll", "notifyRemoved", "leave", "stopServer"},
         NEW m \in Messages \ (Answers \cup {"CANCELED"}), Send(c, m),
         MaySay(command[c].mode, << >>, m)
  PROVE  Plain(c)
<1>1. sent[c] = << >> /\ pc[c] \notin SharedLabels
  BY DEF DialogueInv, TaskInv, ToldSoFar, Quiet, QuietLabels, IssueLabels,
         StopLabels, ExitLabels, SharedLabels
<1>2. /\ sent'[c] # << >>
      /\ "CANCELED" \in Messages
      /\ ~Said(sent'[c], "CANCELED")
  <2>1. "CANCELED" \in Messages
    BY DEF Messages, JobMessages
  <2>2. ~Said(sent[c], "CANCELED")
    BY <1>1, SaidFirst
  <2> QED BY <2>1, <2>2, SendReaches
<1>3. ~Quiet(c)' /\ ModeRead(c)'
  BY DEF Quiet, QuietLabels, IssueLabels, StopLabels, ExitLabels, SharedLabels,
         ModeRead
<1>4. ToldSoFar(c)'
  BY <1>2, <1>3 DEF ToldSoFar
<1>5. OwnWords(c)
  BY <1>1 DEF OwnWords
<1> QED BY <1>1, <1>3, <1>4, <1>5 DEF Plain

(* A silent move of c, past its first word, is plain when the labels agree.   *)
LEMMA LateMove ==
  ASSUME TypeOK, DialogueInv, NEW c \in Clients, ActsAlone(c),
         UNCHANGED <<buffer, sent>>, ModeRead(c), ModeRead(c)', InTask(c)',
         ~InHand(c)', pc'[c] \in RemoverLabels => Shared(Job(c)'),
         pc[c] \notin SharedLabels, ~Quiet(c)',
         pc'[c] \in {"poll", "pollAt"} => sent[c] # << >>,
         pc'[c] \notin {"lockInsert", "testCapacity", "push", "pushLoad",
                       "pushStore", "respond"}
  PROVE  Plain(c)
<1>1. pc[c] # "finished"
  BY DEF SharedLabels
<1>2. ~Said(sent[c], "CANCELED")
  BY <1>1 DEF DialogueInv, TaskInv, ToldSoFar
<1>3. ToldSoFar(c)'
  BY <1>2 DEF ToldSoFar
<1> QED BY <1>3 DEF Plain

(* A controller that starts reads its socket and its command.                *)
LEMMA OpeningPlain ==
  ASSUME TypeOK, Handoff, DialogueInv, UNCHANGED command, NEW c \in Clients,
         ReadSocket(c) \/ executeTask(c) \/ ContinueServer(c)
  PROVE  Plain(c)
<1> USE WhoIsWho
    DEF TypeOK, PcType, queueVars, localVars, Goto, At, Move, ActsAlone, ModeRead,
        InHand, HandLabels, Quiet, QuietLabels, IssueLabels, LevelLabels, PollLabels,
        StopLabels, ExitLabels, SharedLabels, RemoverLabels
<1>1. CASE ReadSocket(c)
  <2>1. /\ pc[c] = "start" /\ pc'[c] = "receive"
        /\ ActsAlone(c) /\ UNCHANGED <<buffer, sent, triplate>>
    BY <1>1 DEF ReadSocket
  <2>2. sent[c] = << >>
    BY <2>1 DEF DialogueInv, TaskInv, ToldSoFar
  <2>3. InTask(c)' /\ ToldSoFar(c)'
    BY <2>1, <2>2, SaidFirst DEF InTask, ToldSoFar
  <2> QED BY <2>1, <2>3 DEF Plain
<1>2. CASE executeTask(c)
  <2>0. clientCommand(c) = command[c]
    BY <1>2, Serves DEF executeTask
  <2>1. /\ pc[c] = "receive" /\ pc'[c] = FirstLabel(command[c].mode)
        /\ ActsAlone(c) /\ UNCHANGED <<buffer, sent, triplate>>
    BY <1>2, <2>0 DEF executeTask
  <2>2. sent[c] = << >>
    BY <2>1 DEF DialogueInv, TaskInv, ToldSoFar
  <2>3. /\ pc'[c] \in {"stopIssuers", "finished", "handshake"}
        /\ pc'[c] = "stopIssuers" => command[c].mode = "exit"
    BY <2>1 DEF FirstLabel
  <2>4. InTask(c)' /\ ToldSoFar(c)'
    BY <2>1, <2>2, <2>3, SaidFirst DEF InTask, ToldSoFar
  <2> QED BY <1>2, <2>1, <2>3, <2>4 DEF Plain
<1>3. CASE ContinueServer(c)
  <2>0. clientCommand(c) = command[c]
    BY <1>3, Serves DEF ContinueServer
  <2>1. /\ pc[c] = "handshake" /\ pc'[c] = AfterHandshake(command[c].mode)
        /\ ActsAlone(c) /\ UNCHANGED <<buffer, sent, triplate>>
    BY <1>3, <2>0 DEF ContinueServer
  <2>2. /\ command[c].mode # "exit" => sent[c] = << >>
        /\ ~Said(sent[c], "CANCELED")
    BY <2>1 DEF DialogueInv, TaskInv, ToldSoFar
  <2>3. /\ pc'[c] \in {"lockFull", "setLevel", "pollSize", "search", "finished"}
        /\ pc'[c] = "lockFull" => command[c].mode = "issueJob"
        /\ pc'[c] = "setLevel" => command[c].mode = "setConcurrency"
        /\ pc'[c] = "pollSize" => command[c].mode = "poll"
        /\ pc'[c] = "search" => command[c].mode = "stop"
    BY <2>1 DEF AfterHandshake
  <2>4. InTask(c)'
    BY <2>1, <2>3 DEF InTask
  <2>5. ToldSoFar(c)'
    BY <2>1, <2>2, <2>3 DEF ToldSoFar
  <2> QED BY <2>1, <2>3, <2>4, <2>5 DEF Plain
<1> QED BY <1>1, <1>2, <1>3

(* setServerConcurrencyLevel touches no job.                                 *)
LEMMA LevelPlain ==
  ASSUME TypeOK, Handoff, DialogueInv, UNCHANGED command, NEW c \in Clients,
         setServerConcurrencyLevel(c)
  PROVE  Plain(c)
<1> USE WhoIsWho
    DEF TypeOK, PcType, queueVars, localVars, Goto, At, Move, ActsAlone, ModeRead,
        InHand, HandLabels, Quiet, QuietLabels, IssueLabels, LevelLabels, PollLabels,
        StopLabels, ExitLabels, SharedLabels, RemoverLabels
<1>0. /\ pc[c] \in LevelLabels => clientSocket[c] = c
      /\ pc[c] \in LevelLabels => command[c].mode = "setConcurrency"
  BY Serves DEF DialogueInv, TaskInv, InTask
<1>1. CASE SetConcurrency(c)
  BY <1>0, <1>1, QuietMove DEF SetConcurrency, Abort, InTask
<1>2. CASE RespondConcurrencySet(c)
  <2>1. /\ pc[c] = "concurrencySet" /\ pc'[c] = "wakeTest"
        /\ ActsAlone(c) /\ UNCHANGED <<buffer, triplate>>
        /\ Send(c, "CONCURRENCY SET")
    BY <1>0, <1>2 DEF RespondConcurrencySet, Respond
  <2>2. "CONCURRENCY SET" \in Messages \ (Answers \cup {"CANCELED"})
    BY DEF Messages, Answers
  <2>3. MaySay(command[c].mode, << >>, "CONCURRENCY SET")
    BY <1>0, <2>1 DEF MaySay
  <2> QED BY <1>0, <2>1, <2>2, <2>3, FirstWord DEF InTask
<1>3. CASE WakeTest(c) \/ WakeSignal(c)
  <2>1. /\ pc[c] \in {"wakeTest", "wakeSignal"}
        /\ pc'[c] \in {"wakeTest", "wakeSignal", "finished"}
        /\ ActsAlone(c) /\ UNCHANGED <<buffer, sent, triplate>>
    BY <1>3 DEF WakeTest, WakeSignal
  <2> QED BY <1>0, <2>1, LateMove DEF InTask
<1> QED BY <1>1, <1>2, <1>3 DEF setServerConcurrencyLevel

(* sendWaitingJobsToClient reads the queue only.                             *)
LEMMA PollPlain ==
  ASSUME TypeOK, Handoff, DialogueInv, UNCHANGED command, NEW c \in Clients,
         sendWaitingJobsToClient(c)
  PROVE  Plain(c)
<1> USE WhoIsWho
    DEF TypeOK, PcType, queueVars, localVars, Goto, At, Move, ActsAlone, ModeRead,
        InHand, HandLabels, Quiet, QuietLabels, IssueLabels, LevelLabels, PollLabels,
        StopLabels, ExitLabels, SharedLabels, RemoverLabels
<1>0. /\ pc[c] \in PollLabels => clientSocket[c] = c
      /\ pc[c] \in PollLabels => command[c].mode = "poll"
      /\ pc[c] \in {"poll", "pollAt"} => sent[c] # << >>
  BY Serves DEF DialogueInv, TaskInv, InTask, ToldSoFar
<1>1. CASE PollSize(c)
  <2>1. /\ pc[c] = "pollSize" /\ pc'[c] = "poll"
        /\ ActsAlone(c) /\ UNCHANGED <<buffer, triplate>>
        /\ Send(c, "JOB COUNT")
    BY <1>0, <1>1 DEF PollSize, Respond
  <2>2. "JOB COUNT" \in Messages \ (Answers \cup {"CANCELED"})
    BY DEF Messages, Answers
  <2>3. MaySay(command[c].mode, << >>, "JOB COUNT")
    BY <1>0, <2>1 DEF MaySay
  <2> QED BY <1>0, <2>1, <2>2, <2>3, FirstWord DEF InTask
<1>2. CASE PollTest(c) \/ (PollAt(c) /\ UNCHANGED sent)
  <2>1. /\ pc[c] \in {"poll", "pollAt"}
        /\ pc'[c] \in {"poll", "pollAt", "finished"}
        /\ ActsAlone(c) /\ UNCHANGED <<buffer, sent, triplate>>
    BY <1>2 DEF PollTest, PollAt, Abort
  <2> QED BY <1>0, <2>1, LateMove DEF InTask
<1>3. CASE PollAt(c) /\ Send(c, "JOB")
  <2>1. /\ pc[c] = "pollAt" /\ pc'[c] \in {"poll", "pollAt"}
        /\ ActsAlone(c) /\ UNCHANGED <<buffer, triplate>>
        /\ Send(c, "JOB")
    BY <1>3 DEF PollAt, Abort
  <2>2. "JOB" \in Messages \ Answers /\ "CANCELED" \in Messages
    BY DEF Messages, JobMessages, Answers
  <2>3. ~Said(sent[c], "CANCELED") /\ sent[c] # << >>
    BY <2>1 DEF DialogueInv, TaskInv, ToldSoFar
  <2>4. ~Said(sent'[c], "CANCELED") /\ sent'[c] # << >>
    BY <2>1, <2>2, <2>3, SendReaches
  <2>5. InTask(c)' /\ ToldSoFar(c)'
    BY <1>0, <2>1, <2>4 DEF InTask, ToldSoFar
  <2>6. MaySay(command[c].mode, sent[c], "JOB")
    BY <1>0, <2>1, <2>3 DEF MaySay
  <2> QED BY <2>1, <2>2, <2>5, <2>6 DEF Plain, OwnWords
<1>4. PollAt(c) => UNCHANGED sent \/ Send(c, "JOB")
  BY <1>0 DEF PollAt, Respond, Abort
<1> QED BY <1>1, <1>2, <1>3, <1>4 DEF sendWaitingJobsToClient

(* removeJobFromBufferQueue but for the erasure and the word to the job's     *)
(* client: the job it finds is one that was in the queue.                    *)
LEMMA RemoverPlain ==
  ASSUME TypeOK, Handoff, DialogueInv, UNCHANGED command, NEW c \in Clients,
         removeJobFromBufferQueue(c)
  PROVE  EraseAt(c) \/ (NotifyRemoved(c) /\ pc[c] = "notifyRemoved") \/ Plain(c)
<1> USE WhoIsWho
    DEF TypeOK, PcType, queueVars, localVars, Goto, At, Move, ActsAlone, ModeRead,
        InHand, HandLabels, Quiet, QuietLabels, IssueLabels, LevelLabels, PollLabels,
        StopLabels, ExitLabels, SharedLabels, RemoverLabels
<1>0. /\ pc[c] \in StopLabels => clientSocket[c] = c
      /\ pc[c] \in StopLabels => command[c].mode = "stop"
      /\ pc[c] \in RemoverLabels => Shared(Job(c))
  BY Serves DEF DialogueInv, TaskInv, InTask, RemoverInv
<1>1. CASE SearchTest(c, "notFound")
  BY <1>0, <1>1, QuietMove DEF SearchTest, InTask
<1>2. CASE SearchAt(c, clientCommand(c).arg)
  <2>1. CASE Abort
    BY <1>0, <1>2, <2>1, QuietMove DEF SearchAt, Abort, InTask
  <2>2. CASE index[c] < Len(buffer) /\ triplate'[c] = buffer[index[c] + 1]
    <3>1. /\ pc[c] = "searchAt" /\ pc'[c] \in {"eraseAt", "search", "searchAt"}
          /\ ActsAlone(c) /\ UNCHANGED <<buffer, sent>>
      BY <1>2 DEF SearchAt, Abort
    <3>2. index[c] + 1 \in 1 .. Len(buffer)
      BY <2>2, LenProperties DEF UInt
    <3>3. Shared(Job(c)')
      BY <2>2, <3>2 DEF DialogueInv, QueuedInv, Queued, Job
    <3> QED BY <1>0, <3>1, <3>3, QuietMove DEF InTask
  <2> QED BY <1>2, <2>1, <2>2 DEF SearchAt
<1>3. CASE LoadSize(c, "removeLoad", "removeStore")
           \/ StoreSize(c, "removeStore", Dec(reg[c]), "removed")
  <2>1. /\ pc[c] \in {"removeLoad", "removeStore"}
        /\ pc'[c] \in {"removeStore", "removed"}
        /\ ActsAlone(c) /\ UNCHANGED <<buffer, sent, triplate>>
    BY <1>3 DEF LoadSize, StoreSize
  <2>2. Job(c)' = Job(c)
    BY <2>1 DEF Job
  <2> QED BY <1>0, <2>1, <2>2, QuietMove DEF InTask
<1>4. CASE RespondRemoved(c)
  <2>0. PICK m \in {"REMOVED", "NOTFOUND"} :
           /\ Send(c, m)
           /\ pc[c] \in {"removed", "notFound"}
           /\ pc'[c] \in {"notifyRemoved", "leave"}
           /\ pc'[c] = "notifyRemoved" => pc[c] = "removed"
           /\ ActsAlone(c) /\ UNCHANGED <<buffer, triplate>>
    BY <1>0, <1>4 DEF RespondRemoved, Respond
  <2>1. m \in Messages \ (Answers \cup {"CANCELED"})
    BY DEF Messages, Answers
  <2>2. MaySay(command[c].mode, << >>, m)
    BY <1>0, <2>0 DEF MaySay
  <2>3. Job(c)' = Job(c)
    BY <2>0 DEF Job
  <2> QED BY <1>0, <2>0, <2>1, <2>2, <2>3, FirstWord DEF InTask
<1>5. CASE NotifyRemoved(c) /\ pc[c] # "notifyRemoved"
  <2>1. /\ pc[c] = "leave" /\ pc'[c] = "finished"
        /\ ActsAlone(c) /\ UNCHANGED <<buffer, sent, triplate>>
    BY <1>5 DEF NotifyRemoved
  <2> QED BY <1>0, <2>1, LateMove DEF InTask
<1> QED BY <1>1, <1>2, <1>3, <1>4, <1>5
        DEF removeJobFromBufferQueue, RemoveJob, removeJobTriplateByID

(* terminateServer but for the jobs it takes and the words to their clients.  *)
LEMMA TerminatorPlain ==
  ASSUME TypeOK, Handoff, DialogueInv, UNCHANGED command, NEW c \in Clients,
         terminateServer(c)
  PROVE  CopyFront(c) \/ EraseFront(c) \/ NotifyDrained(c) \/ Plain(c)
<1> USE WhoIsWho
    DEF TypeOK, PcType, queueVars, localVars, Goto, At, Move, ActsAlone, ModeRead,
        InHand, HandLabels, Quiet, QuietLabels, IssueLabels, LevelLabels, PollLabels,
        StopLabels, ExitLabels, SharedLabels, RemoverLabels
<1>0. /\ pc[c] \in ExitLabels => clientSocket[c] = c
      /\ pc[c] \in ExitLabels => command[c].mode = "exit"
  BY Serves DEF DialogueInv, TaskInv, InTask
<1>1. CASE StopIssuers(c) \/ CancelIssuers(c) \/ DrainTest(c) \/ TestJobsDone(c)
  BY <1>0, <1>1, QuietMove DEF StopIssuers, CancelIssuers, DrainTest, TestJobsDone,
                               InTask
<1>2. CASE SleepJobsDone(c) \/ WakeJobsDone(c)
  BY <1>0, <1>2, QuietMove DEF SleepJobsDone, WakeJobsDone, InTask
<1>3. CASE LoadSize(c, "takeLoad", "takeStore")
           \/ StoreSize(c, "takeStore", Dec(reg[c]), "drainSend")
  <2>1. /\ pc[c] \in {"takeLoad", "takeStore"}
        /\ pc'[c] \in {"takeStore", "drainSend"}
        /\ ActsAlone(c) /\ UNCHANGED <<buffer, sent, triplate>>
    BY <1>3 DEF LoadSize, StoreSize
  <2> QED BY <1>0, <2>1, QuietMove DEF InTask
<1>4. CASE RespondTerminated(c)
  <2>1. /\ pc[c] = "bye" /\ pc'[c] = "stopServer"
        /\ ActsAlone(c) /\ UNCHANGED <<buffer, triplate>>
        /\ Send(c, "SERVER TERMINATED")
    BY <1>0, <1>4 DEF RespondTerminated, Respond
  <2>2. "SERVER TERMINATED" \in Messages \ (Answers \cup {"CANCELED"})
    BY DEF Messages, Answers
  <2>3. MaySay(command[c].mode, << >>, "SERVER TERMINATED")
    BY <1>0, <2>1 DEF MaySay
  <2> QED BY <1>0, <2>1, <2>2, <2>3, FirstWord DEF InTask
<1>5. CASE StopServer(c)
  <2>1. /\ pc[c] = "stopServer" /\ pc'[c] = "handshake"
        /\ ActsAlone(c) /\ UNCHANGED <<buffer, sent, triplate>>
    BY <1>5 DEF StopServer
  <2> QED BY <1>0, <2>1, LateMove DEF InTask
<1> QED BY <1>1, <1>2, <1>3, <1>4, <1>5
        DEF terminateServer, DrainJob, getJobTriplate

-------------------------------------------------------------------------------
(* The steps on the queue and the answers                                    *)

(* What every such step does: nobody is cancelled, so what was shared stays   *)
(* shared, and each task's invariant holds by its own label.                 *)
SharingStep(t) ==
  /\ ActsAlone(t)
  /\ t \in Clients => (pc[t] \in SharedLabels => pc'[t] \in SharedLabels)
  /\ t \in Clients => InTask(t)' /\ ToldSoFar(t)'
  /\ \A d \in Clients : ~Said(sent[d], "CANCELED") => ~Said(sent'[d], "CANCELED")
  /\ \A d \in Clients \ {t} :
       \/ sent'[d] = sent[d]
       \/ /\ Shared(d) /\ sent'[d] # << >>
          /\ Said(sent'[d], "SUBMITTED") => Said(sent[d], "SUBMITTED")

(* What such a step leaves of the invariant.                                 *)
LEMMA SharingStepKeeps ==
  ASSUME TypeOK, DialogueInv, NEW t \in Threads, SharingStep(t)
  PROVE  TaskInv' /\ \A d : Shared(d) => Shared(d)'
<1>1. \A d : Shared(d) => Shared(d)'
  BY SharedStays DEF SharingStep, Shared
<1>2. ASSUME NEW d \in Clients \ {t}, sent'[d] = sent[d]
      PROVE  (InTask(d) /\ ToldSoFar(d))'
  BY <1>2, WhoIsWho DEF SharingStep, ActsAlone, DialogueInv, TaskInv, InTask,
     ToldSoFar, Quiet, Job
<1>3. ASSUME NEW d \in Clients \ {t}, Shared(d), sent'[d] # << >>,
             Said(sent'[d], "SUBMITTED") => Said(sent[d], "SUBMITTED")
      PROVE  (InTask(d) /\ ToldSoFar(d))'
  <2>1. pc'[d] = pc[d] /\ command' = command /\ pc[d] \in SharedLabels
    BY <1>3, WhoIsWho DEF SharingStep, ActsAlone, Shared
  <2>2. ~Said(sent'[d], "CANCELED")
    BY <1>3 DEF SharingStep, Shared
  <2>3. ~Quiet(d)'
    BY <2>1 DEF Quiet, QuietLabels, IssueLabels, StopLabels, ExitLabels, SharedLabels
  <2>4. InTask(d) /\ ToldSoFar(d)
    BY DEF DialogueInv, TaskInv
  <2>5. InTask(d)'
    BY <2>1, <2>4 DEF InTask
  <2>6. pc'[d] \notin {"lockInsert", "testCapacity", "push"}
    BY <2>1 DEF SharedLabels
  <2> QED BY <1>3, <2>1, <2>2, <2>3, <2>4, <2>5, <2>6 DEF ToldSoFar
<1> QED BY <1>1, <1>2, <1>3 DEF SharingStep, TaskInv

(* A failing call leaves everything but the process as it is.                *)
LEMMA AbortKeeps ==
  ASSUME DialogueInv, UNCHANGED command, Abort
  PROVE  DialogueInv'
BY DEF Abort, queueVars, localVars, DialogueInv, TaskInv, InTask, ToldSoFar, Quiet,
       QueuedInv, Queued, HandInv, Carries, RemoverInv, Shared, Job, InHand, Answer

(* The insertion of a job into the vector: from here on it is shared.        *)
LEMMA PushKeeps ==
  ASSUME TypeOK, Handoff, DialogueInv, UNCHANGED command, NEW c \in Clients,
         PushBack(c)
  PROVE  DialogueInv'
<1> USE WhoIsWho
<1>1. /\ pc[c] = "push" /\ pc' = [pc EXCEPT ![c] = "pushLoad"]
      /\ ActsAlone(c) /\ UNCHANGED <<sent, triplate>>
      /\ buffer' = Append(buffer, triplate[c])
  BY DEF PushBack, TypeOK, PcType, localVars, At, Goto, ActsAlone
<1>2. sent[c] = << >> /\ Job(c) = c /\ command[c].mode = "issueJob"
  BY <1>1 DEF DialogueInv, TaskInv, ToldSoFar, InTask, Quiet, QuietLabels,
     IssueLabels, SharedLabels
<1>3. \A x : ~Said(sent'[c], x)
  BY <1>1, <1>2, SaidFirst
<1>4. pc'[c] = "pushLoad"
  BY <1>1 DEF TypeOK, PcType
<1>5. InTask(c)' /\ ToldSoFar(c)'
  BY <1>1, <1>2, <1>3, <1>4
     DEF InTask, ToldSoFar, Quiet, QuietLabels, IssueLabels, LevelLabels,
     PollLabels, StopLabels, ExitLabels, SharedLabels
<1>6. SharingStep(c)
  BY <1>1, <1>4, <1>5 DEF SharingStep, SharedLabels
<1>7. TaskInv' /\ (\A d : Shared(d) => Shared(d)') /\ Shared(c)'
  BY <1>1, <1>2, <1>3, <1>4, <1>6, SharingStepKeeps DEF Shared, SharedLabels
<1>8. ~Shared(c)
  BY <1>1 DEF Shared, SharedLabels
<1>0. PICK n \in Nat : n = Len(buffer)
  BY LenProperties DEF TypeOK
<1>9. /\ Len(buffer') = n + 1
      /\ \A i \in 1 .. n : Queued(i)' = Queued(i)
      /\ Queued(n + 1)' = c
  <2>1. buffer \in Seq(Triplate) /\ triplate[c] \in Triplate
    BY DEF TypeOK
  <2>2. /\ Len(buffer') = n + 1
        /\ \A i \in 1 .. n : buffer'[i] = buffer[i]
        /\ buffer'[n + 1] = triplate[c]
    BY <1>0, <1>1, <2>1, AppendProperties, LenProperties
  <2> QED BY <1>2, <2>2 DEF Queued, Job
<1>10. QueuedInv'
  <2>1. \A i \in 1 .. n :
          Shared(Queued(i)) /\ \A m \in Answers : ~Said(sent[Queued(i)], m)
    BY <1>0 DEF DialogueInv, QueuedInv
  <2>2. \A i, j \in 1 .. n : Queued(i) = Queued(j) => i = j
    BY <1>0 DEF DialogueInv, QueuedInv
  <2>3. ASSUME NEW i \in 1 .. Len(buffer')
        PROVE  Shared(Queued(i))' /\ \A m \in Answers : ~Said(sent'[Queued(i)'], m)
    <3>1. CASE i \in 1 .. n
      BY <1>1, <1>7, <1>9, <2>1, <3>1 DEF Shared
    <3>2. CASE i = n + 1
      BY <1>3, <1>7, <1>9, <3>2 DEF Shared
    <3> QED BY <1>9, <3>1, <3>2
  <2>4. ASSUME NEW i \in 1 .. Len(buffer'), NEW j \in 1 .. Len(buffer'),
               Queued(i)' = Queued(j)'
        PROVE  i = j
    <3>1. i \in 1 .. n \/ i = n + 1
      BY <1>9
    <3>2. j \in 1 .. n \/ j = n + 1
      BY <1>9
    <3>3. \A k \in 1 .. n : Queued(k)' # c
      BY <1>8, <1>9, <2>1
    <3> QED BY <1>9, <2>2, <2>4, <3>1, <3>2, <3>3
  <2> QED BY <2>3, <2>4 DEF QueuedInv
<1>11. HandInv'
  <2>1. \A t \in Threads :
           InHand(t)' => InHand(t) /\ pc'[t] = pc[t] /\ Job(t)' = Job(t)
    BY <1>1, <1>4 DEF ActsAlone, InHand, HandLabels, Job
  <2>2. ASSUME NEW t \in Threads, InHand(t)'
        PROVE  Carries(t)'
    <3>1. Carries(t) /\ Job(t)' = Job(t) /\ pc'[t] = pc[t] /\ Answer(t)' = Answer(t)
      BY <2>1, <2>2 DEF DialogueInv, HandInv, Answer
    <3>2. Job(t) # c
      BY <1>8, <3>1 DEF Carries
    <3>3. Shared(Job(t))'
      BY <1>7, <3>1 DEF Carries
    <3>4. \A i \in 1 .. Len(buffer') :
             Queued(i)' = Job(t)' => pc'[t] = "erase" /\ i = 1
      <4>1. ASSUME NEW i \in 1 .. Len(buffer'), Queued(i)' = Job(t)'
            PROVE  pc'[t] = "erase" /\ i = 1
        <5>1. i \in 1 .. n \/ i = n + 1
          BY <1>9
        <5>2. i \in 1 .. n /\ Queued(i) = Job(t)
          BY <1>9, <3>1, <3>2, <4>1, <5>1
        <5> QED BY <1>0, <3>1, <5>2 DEF Carries
      <4> QED BY <4>1
    <3> QED BY <1>1, <3>1, <3>3, <3>4 DEF Carries
  <2>3. \A t, u \in Workers :
          t # u /\ InHand(t)' /\ InHand(u)' => Job(t)' # Job(u)'
    BY <2>1 DEF DialogueInv, HandInv
  <2> QED BY <2>2, <2>3 DEF HandInv
<1>12. RemoverInv'
  BY <1>1, <1>4, <1>7 DEF ActsAlone, DialogueInv, RemoverInv, RemoverLabels, Job
<1> QED BY <1>7, <1>10, <1>11, <1>12 DEF DialogueInv

(* A task's invariant while a controller takes or erases a job: it has told   *)
(* its client nothing yet.                                                   *)
LEMMA TakerTold ==
  ASSUME TypeOK, DialogueInv, NEW t \in Workers \cup Clients,
         ActsAlone(t), UNCHANGED sent,
         \/ pc[t] = "front" /\ pc'[t] = "erase"
         \/ pc[t] = "erase" /\ pc'[t] = "takeLoad"
         \/ pc[t] = "eraseAt" /\ pc'[t] = "removeLoad"
  PROVE  SharingStep(t)
<1>1. ASSUME t \in Clients
      PROVE  InTask(t)' /\ ToldSoFar(t)' /\ pc[t] \notin SharedLabels
  <2>1. sent[t] = << >>
    BY <1>1 DEF DialogueInv, TaskInv, ToldSoFar, Quiet, QuietLabels, StopLabels,
       ExitLabels
  <2>2. InTask(t)'
    BY <1>1 DEF ActsAlone, DialogueInv, TaskInv, InTask, IssueLabels, LevelLabels,
       PollLabels, StopLabels, ExitLabels
  <2>3. ToldSoFar(t)'
    BY <2>1, SaidFirst DEF ToldSoFar
  <2> QED BY <2>2, <2>3 DEF SharedLabels
<1> QED BY <1>1 DEF SharingStep

(* getJobTriplate copies the oldest job: two workers never copy the same one, *)
(* for mutex_jobInsertion keeps the second out until it is erased.           *)
LEMMA CopyKeeps ==
  ASSUME TypeOK, Handoff, MutualExclusion, DialogueInv, UNCHANGED command,
         NEW t \in Workers \cup Clients, CopyFront(t)
  PROVE  DialogueInv'
<1> USE WhoIsWho
<1>0. CASE Abort
  BY <1>0, AbortKeeps
<1> SUFFICES ASSUME ~Abort PROVE DialogueInv'
  BY <1>0
<1>1. /\ pc[t] = "front" /\ pc'[t] = "erase"
      /\ ActsAlone(t) /\ UNCHANGED <<sent, buffer>>
      /\ buffer # << >> /\ triplate'[t] = Head(buffer)
  BY DEF CopyFront, TypeOK, PcType, queueVars, At, Goto, ActsAlone
<1>2. 1 \in 1 .. Len(buffer) /\ Job(t)' = Queued(1)
  <2>1. Len(buffer) \in Nat /\ Len(buffer) # 0 /\ Head(buffer) = buffer[1]
    BY <1>1, EmptySeq, HeadTailProperties DEF TypeOK
  <2> QED BY <1>1, <2>1 DEF Job, Queued
<1>3. TaskInv' /\ \A d : Shared(d) => Shared(d)'
  BY <1>1, TakerTold, SharingStepKeeps
<1>4. QueuedInv'
  BY <1>1, <1>3 DEF DialogueInv, QueuedInv, Queued
<1>5. \A u \in Threads \ {t} :
         pc'[u] = pc[u] /\ Job(u)' = Job(u) /\ (InHand(u)' <=> InHand(u))
  BY <1>1 DEF ActsAlone, Job, InHand
<1>6. ASSUME NEW u \in Threads, InHand(u)'
      PROVE  Carries(u)'
  <2>1. CASE u = t
    <3>1. Shared(Job(t))'
      BY <1>2, <1>3 DEF DialogueInv, QueuedInv
    <3>2. ~Said(sent'[Job(t)'], Answer(t))
      BY <1>1, <1>2 DEF DialogueInv, QueuedInv, Answer, Answers
    <3>3. \A i \in 1 .. Len(buffer') : Queued(i)' = Job(t)' => i = 1
      BY <1>1, <1>2 DEF DialogueInv, QueuedInv, Queued
    <3> QED BY <1>1, <2>1, <3>1, <3>2, <3>3 DEF Carries, Answer
  <2>2. CASE u # t
    <3>1. Carries(u)
      BY <1>5, <1>6, <2>2 DEF DialogueInv, HandInv
    <3> QED BY <1>1, <1>3, <1>5, <2>2, <3>1 DEF Carries, Answer, Queued
  <2> QED BY <2>1, <2>2
<1>7. ASSUME NEW u \in Workers, t \in Workers, u # t, InHand(u)
      PROVE  Job(u) # Queued(1)
  <2>1. pc[u] # "erase"
    BY <1>1, <1>7 DEF MutualExclusion, Holds
  <2> QED BY <1>2, <1>7, <2>1 DEF DialogueInv, HandInv, Carries
<1>8. ASSUME NEW u \in Workers, NEW v \in Workers, u # v, InHand(u)', InHand(v)'
      PROVE  Job(u)' # Job(v)'
  <2>1. CASE u = t
    BY <1>2, <1>5, <1>7, <1>8, <2>1
  <2>2. CASE v = t
    BY <1>2, <1>5, <1>7, <1>8, <2>2
  <2>3. CASE u # t /\ v # t
    BY <1>5, <1>8, <2>3 DEF DialogueInv, HandInv
  <2> QED BY <2>1, <2>2, <2>3
<1>9. RemoverInv'
  BY <1>1, <1>3, <1>5 DEF DialogueInv, RemoverInv, RemoverLabels
<1> QED BY <1>3, <1>4, <1>6, <1>8, <1>9 DEF DialogueInv, HandInv

(* What erasing the k-th job leaves of the queue.                            *)
ErasedAt(k) ==
  /\ k \in 1 .. Len(buffer)
  /\ Len(buffer') = Len(buffer) - 1
  /\ \A i \in 1 .. Len(buffer') :
       buffer'[i] = IF i < k THEN buffer[i] ELSE buffer[i + 1]

(* Erasing a job keeps what is known of the others.                          *)
LEMMA EraseKeeps ==
  ASSUME TypeOK, DialogueInv, NEW t \in Workers \cup Clients, SharingStep(t),
         NEW k, ErasedAt(k), UNCHANGED sent, UNCHANGED triplate[t],
         InHand(t)' => InHand(t) /\ k = 1,
         pc'[t] \in RemoverLabels => pc[t] \in RemoverLabels
  PROVE  DialogueInv'
<1> USE WhoIsWho
<1>1. TaskInv' /\ \A d : Shared(d) => Shared(d)'
  BY SharingStepKeeps
<1>2. PICK n \in Nat : n = Len(buffer)
  BY LenProperties DEF TypeOK
<1>3. ASSUME NEW i \in 1 .. Len(buffer')
      PROVE  \E j \in 1 .. Len(buffer) :
               /\ Queued(i)' = Queued(j)
               /\ j = IF i < k THEN i ELSE i + 1
  BY <1>2 DEF ErasedAt, Queued
<1>4. k \in Nat /\ Len(buffer') \in Int
  BY <1>2 DEF ErasedAt
<1>5. QueuedInv'
  <2>1. \A i \in 1 .. Len(buffer') :
          Shared(Queued(i))' /\ \A m \in Answers : ~Said(sent'[Queued(i)'], m)
    BY <1>1, <1>3 DEF DialogueInv, QueuedInv
  <2>2. ASSUME NEW i \in 1 .. Len(buffer'), NEW j \in 1 .. Len(buffer'),
               Queued(i)' = Queued(j)'
        PROVE  i = j
    <3>1. \A a, b \in 1 .. Len(buffer) : Queued(a) = Queued(b) => a = b
      BY DEF DialogueInv, QueuedInv
    <3>2. PICK a \in 1 .. Len(buffer) :
             Queued(i)' = Queued(a) /\ a = IF i < k THEN i ELSE i + 1
      BY <1>3
    <3>3. PICK b \in 1 .. Len(buffer) :
             Queued(j)' = Queued(b) /\ b = IF j < k THEN j ELSE j + 1
      BY <1>3
    <3>4. a = b
      BY <2>2, <3>1, <3>2, <3>3
    <3> QED BY <1>4, <3>2, <3>3, <3>4
  <2> QED BY <2>1, <2>2 DEF QueuedInv
<1>6. \A u \in Threads : /\ Job(u)' = Job(u)
                         /\ InHand(u)' => InHand(u)
                         /\ u # t => pc'[u] = pc[u]
  BY DEF SharingStep, ActsAlone, Job, InHand
<1>7. ASSUME NEW u \in Threads, InHand(u)'
      PROVE  Carries(u)'
  <2>1. Carries(u)
    BY <1>6, <1>7 DEF DialogueInv, HandInv
  <2>2. ASSUME NEW i \in 1 .. Len(buffer'), Queued(i)' = Job(u)'
        PROVE  pc'[u] = "erase" /\ i = 1
    <3>1. PICK j \in 1 .. Len(buffer) :
             Queued(i)' = Queued(j) /\ j = IF i < k THEN i ELSE i + 1
      BY <1>3
    <3>2. pc[u] = "erase" /\ j = 1
      BY <1>6, <2>1, <2>2, <3>1 DEF Carries
    <3>3. i = 1 /\ k # 1
      BY <1>4, <3>1, <3>2
    <3> QED BY <1>6, <1>7, <3>2, <3>3
  <2> QED BY <1>1, <1>6, <2>1, <2>2 DEF Carries, Answer
<1>8. \A u, v \in Workers :
        u # v /\ InHand(u)' /\ InHand(v)' => Job(u)' # Job(v)'
  BY <1>6 DEF DialogueInv, HandInv
<1>9. RemoverInv'
  BY <1>1, <1>6 DEF DialogueInv, RemoverInv
<1> QED BY <1>1, <1>5, <1>7, <1>8, <1>9 DEF DialogueInv, HandInv

(* A job taken by a worker or by the terminator leaves the vector.            *)
LEMMA EraseFrontKeeps ==
  ASSUME TypeOK, DialogueInv, UNCHANGED command, NEW t \in Workers \cup Clients,
         EraseFront(t)
  PROVE  DialogueInv'
<1> USE WhoIsWho
<1>0. CASE Abort
  BY <1>0, AbortKeeps
<1> SUFFICES ASSUME ~Abort PROVE DialogueInv'
  BY <1>0
<1>1. /\ pc[t] = "erase" /\ pc'[t] = "takeLoad"
      /\ ActsAlone(t) /\ UNCHANGED <<sent, triplate>>
      /\ buffer # << >> /\ buffer' = Tail(buffer)
  BY DEF EraseFront, TypeOK, PcType, localVars, At, Goto, ActsAlone
<1>2. ErasedAt(1)
  <2>1. buffer \in Seq(Triplate) /\ Len(buffer) \in Nat /\ Len(buffer) # 0
    BY <1>1, EmptySeq DEF TypeOK
  <2>2. /\ Len(buffer') = Len(buffer) - 1
        /\ \A i \in 1 .. Len(buffer') : buffer'[i] = buffer[i + 1]
    BY <1>1, <2>1, HeadTailProperties
  <2> QED BY <2>1, <2>2 DEF ErasedAt
<1>3. InHand(t) /\ pc'[t] \notin RemoverLabels
  BY <1>1 DEF InHand, HandLabels, RemoverLabels
<1> QED BY <1>1, <1>2, <1>3, TakerTold, EraseKeeps

(* The element of a sequence without its k-th.                               *)
LEMMA RemoveAtElements ==
  ASSUME NEW S, NEW s \in Seq(S), NEW k \in 1 .. Len(s)
  PROVE  /\ Len(RemoveAt(s, k)) = Len(s) - 1
         /\ \A i \in 1 .. Len(s) - 1 :
              RemoveAt(s, k)[i] = IF i < k THEN s[i] ELSE s[i + 1]
<1>1. SubSeq(s, 1, k - 1) \in Seq(S)
  <2>1. \A i \in 1 .. k - 1 : s[i] \in S
    OBVIOUS
  <2> QED BY <2>1, SubSeqProperties
<1>2. SubSeq(s, k + 1, Len(s)) \in Seq(S)
  <2>1. \A i \in k + 1 .. Len(s) : s[i] \in S
    OBVIOUS
  <2> QED BY <2>1, SubSeqProperties
<1>3. /\ Len(SubSeq(s, 1, k - 1)) = k - 1
      /\ Len(SubSeq(s, k + 1, Len(s))) = Len(s) - k
      /\ \A i \in 1 .. k - 1 : SubSeq(s, 1, k - 1)[i] = s[i]
      /\ \A i \in 1 .. Len(s) - k : SubSeq(s, k + 1, Len(s))[i] = s[k + i]
  OBVIOUS
<1> DEFINE a == SubSeq(s, 1, k - 1)
           b == SubSeq(s, k + 1, Len(s))
<1>4. RemoveAt(s, k) = a \o b
  BY DEF RemoveAt
<1>5. /\ a \in Seq(S) /\ Len(a) = k - 1
      /\ b \in Seq(S) /\ Len(b) = Len(s) - k
      /\ \A i \in 1 .. k - 1 : a[i] = s[i]
      /\ \A i \in 1 .. Len(s) - k : b[i] = s[k + i]
  BY <1>1, <1>2, <1>3
<1>6. k \in Nat /\ Len(s) \in Nat
  BY LenProperties
<1> HIDE DEF a, b
<1>7. /\ Len(a \o b) = Len(s) - 1
      /\ \A i \in 1 .. Len(s) - 1 :
           (a \o b)[i] = IF i <= k - 1 THEN a[i] ELSE b[i - (k - 1)]
  <2>1. /\ Len(a \o b) = Len(a) + Len(b)
        /\ \A i \in 1 .. Len(a) + Len(b) :
             (a \o b)[i] = IF i <= Len(a) THEN a[i] ELSE b[i - Len(a)]
    BY <1>5, ConcatProperties
  <2>2. Len(a) + Len(b) = Len(s) - 1
    BY <1>5, <1>6
  <2> QED BY <1>5, <2>1, <2>2
<1>8. ASSUME NEW i \in 1 .. Len(s) - 1
      PROVE  (a \o b)[i] = IF i < k THEN s[i] ELSE s[i + 1]
  <2>1. CASE i < k
    BY <1>5, <1>6, <1>7, <2>1
  <2>2. CASE ~(i < k)
    <3>1. i - (k - 1) \in 1 .. Len(s) - k /\ k + (i - (k - 1)) = i + 1
      BY <1>6, <2>2
    <3> QED BY <1>5, <1>6, <1>7, <2>2, <3>1
  <2> QED BY <2>1, <2>2
<1> QED BY <1>4, <1>7, <1>8

(* stop erases a job at any place.                                           *)
LEMMA EraseAtKeeps ==
  ASSUME TypeOK, DialogueInv, UNCHANGED command, NEW c \in Clients, EraseAt(c)
  PROVE  DialogueInv'
<1> USE WhoIsWho
<1>0. CASE Abort
  BY <1>0, AbortKeeps
<1> SUFFICES ASSUME ~Abort PROVE DialogueInv'
  BY <1>0
<1>1. /\ pc[c] = "eraseAt" /\ pc'[c] = "removeLoad"
      /\ ActsAlone(c) /\ UNCHANGED <<sent, triplate>>
      /\ index[c] < Len(buffer) /\ buffer' = RemoveAt(buffer, index[c] + 1)
  BY DEF EraseAt, TypeOK, PcType, localVars, At, Goto, ActsAlone
<1>2. PICK k \in 1 .. Len(buffer) : k = index[c] + 1
  BY <1>1, LenProperties DEF TypeOK, UInt
<1>3. ErasedAt(k)
  BY <1>1, <1>2, RemoveAtElements DEF ErasedAt, TypeOK
<1>4. ~InHand(c)' /\ pc[c] \in RemoverLabels
  BY <1>1 DEF InHand, HandLabels, RemoverLabels
<1> QED BY <1>1, <1>3, <1>4, TakerTold, EraseKeeps

-------------------------------------------------------------------------------
(* The answers to the jobs                                                   *)

(* t says m to the client of the job it holds.                               *)
Delivers(t, m) ==
  /\ ActsAlone(t)
  /\ UNCHANGED <<buffer, triplate>>
  /\ Shared(Job(t))
  /\ Send(Job(t), m)
  /\ m \in {"OUTPUT", "TERMINATED BEFORE EXECUTION", "REMOVED BEFORE EXECUTION"}
  /\ ~InHand(t)'
  /\ t \in Clients => InTask(t)' /\ pc[t] \notin SharedLabels
                      /\ pc'[t] \notin RemoverLabels

(* The word itself is one the protocol allows.                               *)
LEMMA DeliveryAllowed ==
  ASSUME TypeOK, NEW d \in Clients, Shared(d), NEW m,
         m \in {"OUTPUT", "TERMINATED BEFORE EXECUTION", "REMOVED BEFORE EXECUTION"},
         m \in Answers => ~Said(sent[d], m)
  PROVE  MaySay(command[d].mode, sent[d], m) /\ m \in Messages /\ ModeRead(d)
BY DEF Shared, SharedLabels, Answers, MaySay, JobMessages, Messages, ModeRead

(* A worker sends the output of the job it has run.                          *)
LEMMA OutputDelivers ==
  ASSUME TypeOK, Handoff, DialogueInv, UNCHANGED command, NEW w \in Workers,
         sendJobOutputToClient(w)
  PROVE  Delivers(w, "OUTPUT") /\ InHand(w) /\ pc[w] # "erase"
<1> USE WhoIsWho
<1>1. /\ pc[w] = "child" /\ pc'[w] = "finish"
      /\ ActsAlone(w) /\ UNCHANGED <<buffer, triplate>>
      /\ Send(Job(w), "OUTPUT")
  BY DEF sendJobOutputToClient, Step, TypeOK, PcType, queueVars, localVars, At,
         Goto, ActsAlone, Job
<1>2. InHand(w) /\ ~InHand(w)'
  BY <1>1 DEF InHand, HandLabels
<1>3. Shared(Job(w))
  BY <1>2 DEF DialogueInv, HandInv, Carries
<1> QED BY <1>1, <1>2, <1>3 DEF Delivers

(* The terminator tells the client of a job it has taken.                    *)
LEMMA DrainedDelivers ==
  ASSUME TypeOK, Handoff, DialogueInv, UNCHANGED command, NEW c \in Clients,
         NotifyDrained(c)
  PROVE  /\ Delivers(c, "TERMINATED BEFORE EXECUTION")
         /\ InHand(c) /\ pc[c] # "erase"
         /\ ToldSoFar(c) /\ Quiet(c) /\ pc'[c] = "drain"
<1> USE WhoIsWho
<1>1. /\ pc[c] = "drainSend" /\ pc'[c] = "drain"
      /\ ActsAlone(c) /\ UNCHANGED <<buffer, triplate>>
      /\ Send(Job(c), "TERMINATED BEFORE EXECUTION")
  BY DEF NotifyDrained, Move, TypeOK, PcType, queueVars, localVars, At, Goto,
         ActsAlone, Job
<1>2. InHand(c) /\ ~InHand(c)' /\ Quiet(c)
  BY <1>1 DEF InHand, HandLabels, Quiet, QuietLabels, ExitLabels
<1>3. Shared(Job(c)) /\ ToldSoFar(c) /\ InTask(c)
  BY <1>2 DEF DialogueInv, HandInv, Carries, TaskInv
<1>4. InTask(c)'
  BY <1>1, <1>3 DEF ActsAlone, InTask, IssueLabels, LevelLabels, PollLabels,
     StopLabels, ExitLabels
<1> QED BY <1>1, <1>2, <1>3, <1>4 DEF Delivers, SharedLabels, RemoverLabels

(* A remover tells the client of the job it has erased.                      *)
LEMMA RemovedDelivers ==
  ASSUME TypeOK, Handoff, DialogueInv, UNCHANGED command, NEW c \in Clients,
         NotifyRemoved(c), pc[c] = "notifyRemoved"
  PROVE  /\ Delivers(c, "REMOVED BEFORE EXECUTION")
         /\ ToldSoFar(c) /\ pc'[c] = "finished"
<1> USE WhoIsWho
<1>1. /\ pc'[c] = "finished"
      /\ ActsAlone(c) /\ UNCHANGED <<buffer, triplate>>
      /\ Send(Job(c), "REMOVED BEFORE EXECUTION")
  BY DEF NotifyRemoved, Move, TypeOK, PcType, queueVars, localVars, At, Goto,
         ActsAlone, Job
<1>2. ~InHand(c)'
  BY <1>1 DEF InHand, HandLabels
<1>3. Shared(Job(c)) /\ ToldSoFar(c)
  BY DEF DialogueInv, RemoverInv, RemoverLabels, TaskInv
<1>4. InTask(c)'
  BY <1>1 DEF InTask, IssueLabels, LevelLabels, PollLabels, StopLabels, ExitLabels
<1> QED BY <1>1, <1>2, <1>3, <1>4 DEF Delivers, SharedLabels, RemoverLabels

(* What is said to a job's client disturbs nobody: whoever else owes that     *)
(* client something owes it a different answer.                              *)
LEMMA DeliveryKeeps ==
  ASSUME TypeOK, Handoff, DialogueInv, NEW t \in Workers \cup Clients, NEW m,
         Delivers(t, m), t \in Clients => ToldSoFar(t)',
         m \in Answers => InHand(t) /\ pc[t] # "erase" /\ m = Answer(t)
  PROVE  DialogueInv'
<1> USE WhoIsWho
<1>1. PICK d \in Clients : d = Job(t) /\ Shared(d) /\ Send(d, m)
  BY DEF Delivers, Shared
<1>2. m \in Messages /\ m # "CANCELED" /\ m # "SUBMITTED" /\ Answers \subseteq Messages
      /\ "CANCELED" \in Messages /\ "SUBMITTED" \in Messages
  BY DEF Delivers, Messages, JobMessages, Answers
<1>3. /\ sent'[d] # << >>
      /\ \A c \in Clients \ {d} : sent'[c] = sent[c]
      /\ \A c \in Clients, x \in Messages :
           Said(sent'[c], x) <=> Said(sent[c], x) \/ (c = d /\ x = m)
  BY <1>1, <1>2, SendReaches
<1>4. SharingStep(t)
  <2>1. \A c \in Clients : ~Said(sent[c], "CANCELED") => ~Said(sent'[c], "CANCELED")
    BY <1>2, <1>3
  <2>2. Said(sent'[d], "SUBMITTED") => Said(sent[d], "SUBMITTED")
    BY <1>2, <1>3
  <2> QED BY <1>1, <1>3, <2>1, <2>2 DEF SharingStep, Delivers
<1>5. TaskInv' /\ \A c : Shared(c) => Shared(c)'
  BY <1>4, SharingStepKeeps
<1>6. ASSUME m \in Answers, NEW i \in 1 .. Len(buffer)
      PROVE  Queued(i) # d
  BY <1>1, <1>6 DEF DialogueInv, HandInv, Carries
<1>7. QueuedInv'
  <2>1. ASSUME NEW i \in 1 .. Len(buffer)
        PROVE  Shared(Queued(i))' /\ \A x \in Answers : ~Said(sent'[Queued(i)], x)
    <3>1. /\ Shared(Queued(i)) /\ Queued(i) \in Clients
          /\ \A x \in Answers : ~Said(sent[Queued(i)], x)
      BY DEF DialogueInv, QueuedInv, Shared
    <3>2. Queued(i)' = Queued(i)
      BY DEF Delivers, Queued
    <3>3. ASSUME NEW x \in Answers PROVE ~Said(sent'[Queued(i)], x)
      BY <1>2, <1>3, <1>6, <3>1
    <3> QED BY <1>5, <3>1, <3>2, <3>3
  <2>2. UNCHANGED buffer
    BY DEF Delivers
  <2> QED BY <2>1, <2>2 DEF DialogueInv, QueuedInv, Queued
<1>8. \A u \in Threads : /\ Job(u)' = Job(u)
                         /\ InHand(u)' => InHand(u) /\ u # t /\ pc'[u] = pc[u]
  BY DEF Delivers, ActsAlone, Job, InHand
<1>9. ASSUME NEW u \in Threads, InHand(u)'
      PROVE  Carries(u)'
  <2>1. Carries(u) /\ InHand(u) /\ u # t
    BY <1>8, <1>9 DEF DialogueInv, HandInv
  <2>2. Job(u) = d => Answer(u) # m
    <3>1. SUFFICES ASSUME Job(u) = d, Answer(u) = m PROVE FALSE
      OBVIOUS
    <3>2. m = Answer(t) /\ InHand(t)
      BY <3>1 DEF Answer, Answers
    <3>3. CASE u \in Workers
      <4>1. t \in Workers
        BY <3>1, <3>2, <3>3 DEF Answer
      <4> QED BY <1>1, <2>1, <3>1, <3>2, <3>3, <4>1 DEF DialogueInv, HandInv
    <3>4. CASE u \notin Workers
      <4>1. t \in Clients /\ u \in Clients
        BY <2>1, <3>1, <3>2, <3>4, Hands DEF Answer
      <4> QED BY <2>1, <3>2, <4>1, Hands
    <3> QED BY <3>3, <3>4
  <2>3. ~Said(sent'[Job(u)], Answer(u))
    <3>1. Job(u) \in Clients /\ ~Said(sent[Job(u)], Answer(u))
      BY <2>1 DEF Carries, Shared
    <3>2. Answer(u) \in Messages
      BY <1>2 DEF Answer, Answers
    <3> QED BY <1>3, <2>2, <3>1, <3>2
  <2>4. Shared(Job(u))' /\ Job(u)' = Job(u) /\ pc'[u] = pc[u]
    BY <1>5, <1>8, <1>9, <2>1 DEF Carries
  <2> QED BY <2>1, <2>3, <2>4 DEF Carries, Delivers, Answer, Queued
<1>10. \A u, v \in Workers :
         u # v /\ InHand(u)' /\ InHand(v)' => Job(u)' # Job(v)'
  BY <1>8 DEF DialogueInv, HandInv
<1>11. RemoverInv'
  <2>1. \A c \in Clients : pc'[c] \in RemoverLabels => pc[c] \in RemoverLabels
    BY DEF Delivers, ActsAlone
  <2> QED BY <1>5, <1>8, <2>1 DEF DialogueInv, RemoverInv
<1> QED BY <1>5, <1>7, <1>9, <1>10, <1>11 DEF DialogueInv, HandInv

-------------------------------------------------------------------------------
(* Every step of the server                                                  *)

(* The three kinds of step that are not plain.                               *)
Takes(t) == CopyFront(t) \/ EraseFront(t)

Changes(c) == PushBack(c) \/ EraseAt(c)

AnswersJob(t, m) ==
  /\ Delivers(t, m)
  /\ t \in Clients => ToldSoFar(t)'
  /\ m \in Answers => InHand(t) /\ pc[t] # "erase" /\ m = Answer(t)
  /\ t \in Clients => ModeRead(t) /\ ModeRead(t)'

(* Nothing the dialogue sees has changed.                                    *)
Unseen == UNCHANGED <<pc, command, sent, buffer, triplate>>

(* A controller's step is of one of the kinds.                               *)
LEMMA ControllerKinds ==
  ASSUME TypeOK, Handoff, DialogueInv, UNCHANGED command, NEW c \in Clients,
         ControllerNext(c)
  PROVE  Plain(c) \/ Takes(c) \/ Changes(c) \/ \E m : AnswersJob(c, m)
<1> USE WhoIsWho
<1>1. CASE NotifyDrained(c)
  <2>1. /\ Delivers(c, "TERMINATED BEFORE EXECUTION")
        /\ InHand(c) /\ pc[c] # "erase"
        /\ ToldSoFar(c) /\ Quiet(c) /\ pc'[c] = "drain" /\ pc[c] = "drainSend"
    BY <1>1, DrainedDelivers DEF NotifyDrained, Move, At
  <2>2. Job(c) # c
    BY <2>1 DEF Delivers, Shared, SharedLabels
  <2>3. sent'[c] = sent[c]
    BY <2>1, <2>2 DEF Delivers, Send, TypeOK
  <2>4. ToldSoFar(c)'
    BY <2>1, <2>3, SaidFirst DEF ToldSoFar
  <2>5. AnswersJob(c, "TERMINATED BEFORE EXECUTION")
    BY <2>1, <2>4 DEF AnswersJob, Answer, ModeRead
  <2> QED BY <2>5
<1>2. CASE NotifyRemoved(c) /\ pc[c] = "notifyRemoved"
  <2>1. /\ Delivers(c, "REMOVED BEFORE EXECUTION")
        /\ ToldSoFar(c) /\ pc'[c] = "finished"
    BY <1>2, RemovedDelivers
  <2>2. Job(c) # c
    BY <1>2, <2>1 DEF Delivers, Shared, SharedLabels
  <2>3. sent'[c] = sent[c] /\ ~Said(sent[c], "CANCELED") /\ ~Quiet(c)'
    BY <1>2, <2>1, <2>2
       DEF Delivers, Send, TypeOK, ToldSoFar, Quiet, QuietLabels, IssueLabels,
           StopLabels, ExitLabels, SharedLabels
  <2>4. ToldSoFar(c)'
    BY <2>1, <2>3 DEF ToldSoFar
  <2>5. AnswersJob(c, "REMOVED BEFORE EXECUTION")
    BY <1>2, <2>1, <2>4 DEF AnswersJob, Answers, ModeRead
  <2> QED BY <2>5
<1>3. CASE ReadSocket(c) \/ executeTask(c) \/ ContinueServer(c)
  BY <1>3, OpeningPlain
<1>4. CASE insertNewJobToBufferQueue(c)
  BY <1>4, IssuerPlain DEF Changes
<1>5. CASE setServerConcurrencyLevel(c) \/ sendWaitingJobsToClient(c)
  BY <1>5, LevelPlain, PollPlain
<1>6. CASE removeJobFromBufferQueue(c)
  BY <1>2, <1>6, RemoverPlain DEF Changes
<1>7. CASE terminateServer(c)
  BY <1>1, <1>7, TerminatorPlain DEF Takes
<1> QED BY <1>3, <1>4, <1>5, <1>6, <1>7 DEF ControllerNext

(* So is every step of the server.                                           *)
LEMMA StepKinds ==
  ASSUME TypeOK, Handoff, DialogueInv, [Next]_vars
  PROVE  /\ UNCHANGED command
         /\ \/ Unseen
            \/ CreateController
            \/ \E t \in Threads : Plain(t)
            \/ \E t \in Workers \cup Clients : Takes(t)
            \/ \E c \in Clients : Changes(c)
            \/ \E t \in Workers \cup Clients : \E m : AnswersJob(t, m)
<1> USE WhoIsWho
<1>1. CASE UNCHANGED vars
  BY <1>1 DEF vars, Unseen, queueVars, localVars
<1>2. CASE Next
  <2>0. UNCHANGED command
    BY <1>2 DEF Next
  <2>1. CASE SpuriousWakeup \/ BufferRaceAborts
    BY <2>0, <2>1
       DEF SpuriousWakeup, BufferRaceAborts, Abort, Unseen, queueVars, localVars
  <2>2. CASE MainNext
    BY <2>0, <2>2, MainPlain
  <2>3. ASSUME NEW w \in Workers, WorkerNext(w)
        PROVE  Plain(w) \/ Takes(w) \/ \E m : AnswersJob(w, m)
    <3>1. sendJobOutputToClient(w) => AnswersJob(w, "OUTPUT")
      BY <2>0, OutputDelivers DEF AnswersJob, Answer
    <3> QED BY <2>0, <2>3, <3>1, WorkerPlain DEF Takes
  <2> QED BY <1>2, <2>0, <2>1, <2>2, <2>3, ControllerKinds DEF Next
<1> QED BY <1>1, <1>2

(* The invariant of the dialogue is inductive.                               *)
LEMMA DialogueStep ==
  ASSUME TypeOK, Handoff, MutualExclusion, DialogueInv, [Next]_vars
  PROVE  DialogueInv'
<1> USE WhoIsWho
<1>0. UNCHANGED command
  BY StepKinds
<1>1. CASE Unseen
  <2> USE <1>1 DEF Unseen
  <2>1. TaskInv'
    BY DEF DialogueInv, TaskInv, InTask, ToldSoFar, Quiet, Job
  <2>2. QueuedInv' /\ RemoverInv'
    BY DEF DialogueInv, QueuedInv, Queued, RemoverInv, Shared, Job
  <2>3. HandInv'
    BY DEF DialogueInv, HandInv, Carries, Shared, Job, InHand, Answer, Queued
  <2> QED BY <2>1, <2>2, <2>3 DEF DialogueInv
<1>2. CASE CreateController
  BY <1>0, <1>2, CreateKeeps
<1>3. ASSUME NEW t \in Threads, Plain(t) PROVE DialogueInv'
  BY <1>3, PlainKeeps
<1>4. ASSUME NEW t \in Workers \cup Clients, Takes(t) PROVE DialogueInv'
  BY <1>0, <1>4, CopyKeeps, EraseFrontKeeps DEF Takes
<1>5. ASSUME NEW c \in Clients, Changes(c) PROVE DialogueInv'
  BY <1>0, <1>5, PushKeeps, EraseAtKeeps DEF Changes
<1>6. ASSUME NEW t \in Workers \cup Clients, NEW m, AnswersJob(t, m)
      PROVE  DialogueInv'
  BY <1>6, DeliveryKeeps DEF AnswersJob
<1> QED BY <1>1, <1>2, <1>3, <1>4, <1>5, <1>6, StepKinds

(* At the start nobody has been told anything and no job exists.             *)
LEMMA DialogueInit == Init => DialogueInv
<1> SUFFICES ASSUME Init PROVE DialogueInv
  OBVIOUS
<1>1. /\ \A c \in Clients : pc[c] = "unborn" /\ sent[c] = << >>
      /\ \A t \in Threads : pc[t] \in {"accept", "idle", "unborn"}
      /\ buffer = << >>
  BY WhoIsWho DEF Init
<1>2. TaskInv
  BY <1>1, SaidFirst
     DEF TaskInv, InTask, ToldSoFar, IssueLabels, LevelLabels, PollLabels,
         StopLabels, ExitLabels
<1>3. QueuedInv
  BY <1>1 DEF QueuedInv
<1>4. HandInv
  BY <1>1, WhoIsWho DEF HandInv, InHand, HandLabels
<1>5. RemoverInv
  BY <1>1 DEF RemoverInv, RemoverLabels
<1> QED BY <1>2, <1>3, <1>4, <1>5 DEF DialogueInv

(* The invariant of the dialogue holds throughout.                           *)
THEOREM DialogueCorrect == Spec => []DialogueInv
<1>1. TypeOK /\ Handoff /\ MutualExclusion /\ DialogueInv /\ [Next]_vars
        => DialogueInv'
  BY DialogueStep
<1> QED BY <1>1, DialogueInit, TypeAndHandoff, SectionsExclusive, PTL DEF Spec

-------------------------------------------------------------------------------
(* The refinement                                                            *)

(* A word the protocol allows is a step of the dialogue.                     *)
LEMMA SayingIsSaying ==
  ASSUME TypeOK, NEW d \in Clients, NEW m \in Messages, Send(d, m), ModeRead(d),
         MaySay(command[d].mode, sent[d], m), UNCHANGED command,
         \A c \in Clients : ModeRead(c)' <=> ModeRead(c)
  PROVE  Dialogue!Say(d)
BY DEF Dialogue!Say, Dialogue!MaySay, MaySay, Dialogue!Said, Said,
       Dialogue!Messages, Messages, Dialogue!JobMessages, JobMessages, Send

(* Nobody's mode is read and nothing is said: the dialogue stutters.         *)
LEMMA SilenceStutters ==
  ASSUME UNCHANGED <<command, sent>>, \A c \in Clients : ModeRead(c)' <=> ModeRead(c)
  PROVE  UNCHANGED Dialogue!dialogueVars
BY DEF Dialogue!dialogueVars

(* Reading the command is the dialogue's reading.                            *)
LEMMA ReadingIsReading ==
  ASSUME TypeOK, UNCHANGED <<command, sent>>, NEW c \in Clients, executeTask(c),
         \A d \in Clients \ {c} : ModeRead(d)' <=> ModeRead(d)
  PROVE  Dialogue!Read(c)
<1>1. ~ModeRead(c) /\ ModeRead(c)'
  <2>1. FirstLabel(clientCommand(c).mode) \in {"stopIssuers", "finished", "handshake"}
    BY DEF FirstLabel
  <2>2. pc'[c] = FirstLabel(clientCommand(c).mode) /\ pc[c] = "receive"
    BY WhoIsWho DEF executeTask, Move, At, Goto, TypeOK, PcType
  <2> QED BY <2>1, <2>2 DEF ModeRead
<1>2. command[c].mode \in Modes
  BY CommandsWellFormed DEF TypeOK, Command
<1> QED BY <1>1, <1>2 DEF Dialogue!Read, Dialogue!Modes, Modes

(* Every step of the server is a step of the dialogue, or none.              *)
LEMMA DialogueSteps ==
  ASSUME TypeOK, Handoff, DialogueInv, [Next]_vars
  PROVE  [Dialogue!Next]_Dialogue!dialogueVars
<1> USE WhoIsWho
<1>0. UNCHANGED command
  BY StepKinds
<1>1. CASE Unseen
  BY <1>1, SilenceStutters DEF Unseen, ModeRead
<1>2. CASE CreateController
  <2>1. UNCHANGED sent
    BY <1>2 DEF CreateController
  <2> QED BY <1>0, <1>2, <2>1, CreateKeeps, SilenceStutters
<1>3. ASSUME NEW t \in Threads, Plain(t)
      PROVE  [Dialogue!Next]_Dialogue!dialogueVars
  <2>1. \A c \in Clients \ {t} : ModeRead(c)' <=> ModeRead(c)
    BY <1>3 DEF Plain, ActsAlone, ModeRead
  <2>2. CASE t \in Clients /\ executeTask(t) /\ UNCHANGED sent
    BY <1>0, <2>1, <2>2, ReadingIsReading DEF Dialogue!Next
  <2>3. CASE \A c \in Clients : ModeRead(c)' <=> ModeRead(c)
    <3>1. CASE UNCHANGED sent
      BY <1>0, <2>3, <3>1, SilenceStutters
    <3>2. CASE t \in Clients /\ OwnWords(t)
      <4>1. PICK m \in Messages :
               ModeRead(t) /\ MaySay(command[t].mode, sent[t], m) /\ Send(t, m)
        BY <3>2 DEF OwnWords
      <4> QED BY <1>0, <2>3, <3>2, <4>1, SayingIsSaying DEF Dialogue!Next
    <3> QED BY <1>3, <3>1, <3>2 DEF Plain
  <2> QED BY <1>3, <2>1, <2>2, <2>3 DEF Plain
<1>4. ASSUME NEW t \in Workers \cup Clients, Takes(t)
      PROVE  [Dialogue!Next]_Dialogue!dialogueVars
  <2>1. /\ UNCHANGED sent
        /\ pc[t] \in {"front", "erase"}
        /\ pc' = pc \/ pc' = [pc EXCEPT ![t] = "erase"]
             \/ pc' = [pc EXCEPT ![t] = "takeLoad"]
    BY <1>4 DEF Takes, CopyFront, EraseFront, Abort, At, Goto
  <2>2. \A c \in Clients : ModeRead(c)' <=> ModeRead(c)
    BY <2>1 DEF ModeRead, TypeOK, PcType
  <2> QED BY <1>0, <2>1, <2>2, SilenceStutters
<1>5. ASSUME NEW t \in Clients, Changes(t)
      PROVE  [Dialogue!Next]_Dialogue!dialogueVars
  <2>1. /\ UNCHANGED sent
        /\ pc[t] \in {"push", "eraseAt"}
        /\ pc' = pc \/ pc' = [pc EXCEPT ![t] = "pushLoad"]
             \/ pc' = [pc EXCEPT ![t] = "removeLoad"]
    BY <1>5 DEF Changes, PushBack, EraseAt, Abort, At, Goto
  <2>2. \A c \in Clients : ModeRead(c)' <=> ModeRead(c)
    BY <2>1 DEF ModeRead, TypeOK, PcType
  <2> QED BY <1>0, <2>1, <2>2, SilenceStutters
<1>6. ASSUME NEW t \in Workers \cup Clients, NEW m, AnswersJob(t, m)
      PROVE  [Dialogue!Next]_Dialogue!dialogueVars
  <2>1. PICK d \in Clients : d = Job(t) /\ Shared(d) /\ Send(d, m)
    BY <1>6 DEF AnswersJob, Delivers, Shared
  <2>2. \A c \in Clients : ModeRead(c)' <=> ModeRead(c)
    BY <1>6 DEF AnswersJob, Delivers, ActsAlone, ModeRead
  <2>3. m \in Answers => ~Said(sent[d], m)
    BY <1>6, <2>1 DEF AnswersJob, DialogueInv, HandInv, Carries
  <2>4. MaySay(command[d].mode, sent[d], m) /\ m \in Messages /\ ModeRead(d)
    BY <1>6, <2>1, <2>3, DeliveryAllowed DEF AnswersJob, Delivers
  <2> QED BY <1>0, <2>1, <2>2, <2>4, SayingIsSaying DEF Dialogue!Next
<1> QED BY <1>1, <1>2, <1>3, <1>4, <1>5, <1>6, StepKinds

(* ImplementsDialogue: with any number of workers and clients, whatever they  *)
(* ask for and however their threads interleave, each client hears only what  *)
(* its own command calls for, in an order the protocol allows.               *)
THEOREM ServerImplementsDialogue == Spec => ImplementsDialogue
<1>1. Init => Dialogue!Init
  <2> SUFFICES ASSUME Init PROVE Dialogue!Init
    OBVIOUS
  <2>1. \A c \in Clients : ~ModeRead(c)
    BY WhoIsWho DEF Init, ModeRead
  <2> QED BY <2>1 DEF Init, Dialogue!Init
<1>2. TypeOK /\ Handoff /\ DialogueInv /\ [Next]_vars
        => [Dialogue!Next]_Dialogue!dialogueVars
  BY DialogueSteps
<1> QED BY <1>1, <1>2, TypeAndHandoff, DialogueCorrect, PTL
           DEF Spec, ImplementsDialogue, Dialogue!Spec

-------------------------------------------------------------------------------
(* What the dialogue means for a client                                      *)

(* The reports a job's client gets once at most.                             *)
OnceMessages == JobMessages \ {"REMOVED BEFORE EXECUTION"}

SaidOnce ==
  \A c \in Clients, m \in OnceMessages :
    \A i, j \in 1 .. Len(sent[c]) : sent[c][i] = m /\ sent[c][j] = m => i = j

(* The protocol alone sees to it: whatever implements the dialogue repeats    *)
(* none of these reports.                                                    *)
LEMMA OnceStep ==
  ASSUME TypeOK, SaidOnce, [Dialogue!Next]_Dialogue!dialogueVars
  PROVE  SaidOnce'
<1>1. CASE UNCHANGED Dialogue!dialogueVars
  BY <1>1 DEF Dialogue!dialogueVars, SaidOnce
<1>2. ASSUME NEW c \in Clients, Dialogue!Read(c)
      PROVE  SaidOnce'
  BY <1>2 DEF Dialogue!Read, SaidOnce
<1>3. ASSUME NEW c \in Clients, Dialogue!Say(c)
      PROVE  SaidOnce'
  <2>1. PICK m \in Messages :
           /\ m \in OnceMessages => ~Said(sent[c], m)
           /\ sent' = [sent EXCEPT ![c] = Append(@, m)]
    BY <1>3 DEF Dialogue!Say, Dialogue!MaySay, Dialogue!Said, Said, OnceMessages,
       JobMessages, Dialogue!Messages, Messages, Dialogue!JobMessages
  <2>2. PICK n \in Nat : n = Len(sent[c])
    BY LenProperties DEF TypeOK
  <2>3. /\ \A d \in Clients \ {c} : sent'[d] = sent[d]
        /\ Len(sent'[c]) = n + 1
        /\ sent'[c][n + 1] = m
        /\ \A i \in 1 .. n : sent'[c][i] = sent[c][i]
    BY <2>1, <2>2, AppendProperties DEF TypeOK
  <2>4. ASSUME NEW x \in OnceMessages, NEW i \in 1 .. n + 1, NEW j \in 1 .. n + 1,
               sent'[c][i] = x, sent'[c][j] = x
        PROVE  i = j
    <3>1. CASE x = m
      <4>1. \A k \in 1 .. n : sent[c][k] # m
        <5>1. DOMAIN sent[c] = 1 .. n /\ ~Said(sent[c], m)
          BY <2>1, <2>2, <3>1, LenProperties DEF TypeOK
        <5> QED BY <5>1 DEF Said
      <4> QED BY <2>3, <2>4, <3>1, <4>1
    <3>2. CASE x # m
      <4>1. i \in 1 .. n /\ j \in 1 .. n
        BY <2>3, <2>4, <3>2
      <4> QED BY <2>2, <2>3, <2>4, <4>1 DEF SaidOnce
    <3> QED BY <3>1, <3>2
  <2> QED BY <2>3, <2>4 DEF SaidOnce
<1> QED BY <1>1, <1>2, <1>3 DEF Dialogue!Next

(* A report that was given at all, and one that was given once.              *)
LEMMA Counting ==
  ASSUME TypeOK, NEW c \in Clients, NEW m
  PROVE  /\ Count(c, m) > 0 => Said(sent[c], m)
         /\ (\A i, j \in 1 .. Len(sent[c]) : sent[c][i] = m /\ sent[c][j] = m => i = j)
              => Count(c, m) <= 1
<1>1. PICK n \in Nat : n = Len(sent[c]) /\ DOMAIN sent[c] = 1 .. n
  BY LenProperties DEF TypeOK
<1>2. PICK P : P = {i \in 1 .. n : sent[c][i] = m}
  OBVIOUS
<1>3. Count(c, m) = Cardinality(P)
  BY <1>1, <1>2 DEF Count
<1>4. CASE P = {}
  <2>1. Count(c, m) = 0
    BY <1>3, <1>4, FS_EmptySet
  <2> QED BY <2>1
<1>5. ASSUME NEW i \in P
      PROVE  /\ Said(sent[c], m)
             /\ (\A k, j \in 1 .. n : sent[c][k] = m /\ sent[c][j] = m => k = j)
                  => Count(c, m) <= 1
  <2>1. Said(sent[c], m)
    BY <1>1, <1>2, <1>5 DEF Said
  <2>2. ASSUME \A k, j \in 1 .. n : sent[c][k] = m /\ sent[c][j] = m => k = j
        PROVE  Count(c, m) <= 1
    <3>1. P = {i}
      BY <1>2, <1>5, <2>2
    <3>2. Count(c, m) = 1
      BY <1>3, <3>1, FS_Singleton
    <3> QED BY <3>2
  <2> QED BY <2>1, <2>2
<1> QED BY <1>1, <1>4, <1>5

(* OutputAtMostOnce: no client gets its job's output twice, though stop and   *)
(* exit take jobs out of the queue under the workers' hands.                 *)
THEOREM OutputOnce == Spec => []OutputAtMostOnce
<1>1. Init => SaidOnce
  BY DEF Init, SaidOnce
<1>2. TypeOK /\ Handoff /\ DialogueInv /\ SaidOnce /\ [Next]_vars => SaidOnce'
  BY DialogueSteps, OnceStep
<1>3. TypeOK /\ SaidOnce => OutputAtMostOnce
  <2>1. "OUTPUT" \in OnceMessages
    BY DEF OnceMessages, JobMessages
  <2> QED BY <2>1, Counting DEF SaidOnce, OutputAtMostOnce
<1> QED BY <1>1, <1>2, <1>3, TypeAndHandoff, DialogueCorrect, PTL DEF Spec

(* CanceledIsFinal: the client of a job that the termination cancels is told  *)
(* nothing else, before or after.                                            *)
THEOREM CanceledFinally == Spec => []CanceledIsFinal
<1>1. TypeOK /\ DialogueInv => CanceledIsFinal
  BY Counting DEF CanceledIsFinal, DialogueInv, TaskInv, ToldSoFar
<1> QED BY <1>1, TypeAndHandoff, DialogueCorrect, PTL

-------------------------------------------------------------------------------
(* What a controller that is done has told its client                        *)

(* The labels from which all that is left to say has been said.              *)
AnswerLabels ==
  {"wakeWorker", "wakeTest", "wakeSignal", "notifyRemoved", "leave", "stopServer",
   "finished"}

Answered(c) ==
  CASE command[c].mode = "issueJob" ->
         Said(sent[c], "SUBMITTED") \/ Said(sent[c], "CANCELED")
    [] command[c].mode = "setConcurrency" -> sent[c] = <<"CONCURRENCY SET">>
    [] command[c].mode = "poll" -> TRUE
    [] command[c].mode = "stop" -> sent[c] \in {<<"REMOVED">>, <<"NOTFOUND">>}
    [] command[c].mode = "exit" -> sent[c] = <<"SERVER TERMINATED">>
    [] OTHER -> sent[c] = << >>

AnswersBy(c) ==
  pc[c] \in AnswerLabels \/ (pc[c] = "handshake" /\ command[c].mode = "exit")
    => Answered(c)

(* poll counts its messages: after the number of jobs comes one per job.      *)
Polled(c) ==
  IF pc[c] \in {"poll", "pollAt", "finished"}
  THEN /\ Len(sent[c]) = index[c] + 1
       /\ index[c] <= reg[c]
       /\ pc[c] = "pollAt" => index[c] < reg[c]
       /\ pc[c] = "finished" => index[c] = reg[c]
  ELSE sent[c] = << >> /\ index[c] = 0 /\ reg[c] = 0

AnswerInv ==
  \A c \in Clients : AnswersBy(c) /\ (command[c].mode = "poll" => Polled(c))

(* The registers of a thread are its own.                                    *)
KeepsRegisters(t) ==
  /\ \A u \in Threads \ {t} : reg'[u] = reg[u]
  /\ \A u \in Clients \ {t} : index'[u] = index[u]

(* No thread writes the registers of another.                                *)
LEMMA WorkerRegisters ==
  ASSUME TypeOK, NEW w \in Workers, WorkerNext(w)
  PROVE  KeepsRegisters(w)
<1> USE DEF TypeOK, localVars, LoadReg, ClearReg, KeepsRegisters
<1>1. CASE \/ LockWorker(w) \/ TestEmpty(w) \/ LoadLevel(w) \/ CompareLevel(w)
           \/ Sleep(w) \/ Wake(w)
  BY <1>1 DEF LockWorker, TestEmpty, LoadLevel, CompareLevel, Sleep, Wake
<1>2. CASE \/ CheckShouldStop(w) \/ UnlockAgain(w) \/ LockQueue(w)
           \/ SignalController(w) \/ IncreaseBusyWorkers(w)
  BY <1>2 DEF CheckShouldStop, UnlockAgain, LockQueue, SignalController,
              IncreaseBusyWorkers
<1>3. CASE receiveJobFromBuffer(w)
  BY <1>3 DEF receiveJobFromBuffer, getJobTriplate, CopyFront, EraseFront, LoadSize,
              StoreSize, Abort
<1>4. CASE executeJob(w)
  BY <1>4 DEF executeJob, Fork, increaseRunningJobs, sendJobOutputToClient,
              OutputMissing, Abort
<1>5. CASE DecreaseRunningJobs(w) \/ DecreaseBusyWorkers(w) \/ NotifyJobDone(w)
  BY <1>5 DEF DecreaseRunningJobs, DecreaseBusyWorkers, NotifyJobDone
<1> QED BY <1>1, <1>2, <1>3, <1>4, <1>5 DEF WorkerNext

(* Nor does the main thread, nor a controller.                               *)
LEMMA ControllerRegisters ==
  ASSUME TypeOK, NEW c \in Clients, ControllerNext(c)
  PROVE  KeepsRegisters(c)
<1> USE DEF TypeOK, localVars, LoadReg, ClearReg, KeepsRegisters
<1>1. CASE ReadSocket(c) \/ executeTask(c) \/ ContinueServer(c)
  BY <1>1 DEF ReadSocket, executeTask, ContinueServer
<1>2. CASE insertNewJobToBufferQueue(c)
  BY <1>2 DEF insertNewJobToBufferQueue, LockFull, TestFull, SleepFull, WakeFull,
              CheckCanceled, TakeJobID, LockInsert, InsertJob, insertJobTriplate,
              TestCapacity, PushBack, LoadSize, StoreSize, RespondSubmitted,
              WakeWorker
<1>3. CASE setServerConcurrencyLevel(c)
  BY <1>3 DEF setServerConcurrencyLevel, SetConcurrency, RespondConcurrencySet,
              WakeTest, WakeSignal, Abort
<1>4. CASE sendWaitingJobsToClient(c)
  BY <1>4 DEF sendWaitingJobsToClient, PollSize, PollTest, PollAt, Abort
<1>5. CASE removeJobFromBufferQueue(c)
  BY <1>5 DEF removeJobFromBufferQueue, RemoveJob, removeJobTriplateByID, SearchTest,
              SearchAt, EraseAt, LoadSize, StoreSize, RespondRemoved, NotifyRemoved,
              Abort
<1>6. CASE terminateServer(c)
  BY <1>6 DEF terminateServer, StopIssuers, CancelIssuers, DrainTest, DrainJob,
              getJobTriplate, CopyFront, EraseFront, LoadSize, StoreSize,
              NotifyDrained, TestJobsDone, SleepJobsDone, WakeJobsDone,
              RespondTerminated, StopServer, Abort
<1> QED BY <1>1, <1>2, <1>3, <1>4, <1>5, <1>6 DEF ControllerNext

(* A step of others gives c at most an answer to its job.                    *)
Spares(c) ==
  /\ UNCHANGED command
  /\ reg'[c] = reg[c] /\ index'[c] = index[c]
  /\ pc'[c] = pc[c] \/ (pc[c] = "unborn" /\ pc'[c] = "start")
  /\ \/ sent'[c] = sent[c]
     \/ /\ command[c].mode = "issueJob"
        /\ \A m \in Messages : Said(sent[c], m) => Said(sent'[c], m)

(* So a step of any kind by another thread spares it.                        *)
LEMMA KindSpares ==
  ASSUME TypeOK, UNCHANGED command, NEW t \in Threads, NEW c \in Clients \ {t},
         KeepsRegisters(t),
         \/ Plain(t)
         \/ Takes(t)
         \/ t \in Clients /\ Changes(t)
         \/ \E m : AnswersJob(t, m)
  PROVE  Spares(c)
<1> USE WhoIsWho
<1>1. reg'[c] = reg[c] /\ index'[c] = index[c]
  BY DEF KeepsRegisters
<1>2. CASE Plain(t)
  <2>1. pc'[c] = pc[c]
    BY <1>2 DEF Plain, ActsAlone
  <2>2. CASE UNCHANGED sent
    BY <1>1, <2>1, <2>2 DEF Spares
  <2>3. CASE t \in Clients /\ OwnWords(t)
    <3>1. sent'[c] = sent[c]
      BY <2>3 DEF OwnWords, Send, TypeOK
    <3> QED BY <1>1, <2>1, <3>1 DEF Spares
  <2> QED BY <1>2, <2>2, <2>3 DEF Plain
<1>3. CASE Takes(t)
  <2>1. UNCHANGED sent /\ pc'[c] = pc[c]
    BY <1>3 DEF Takes, CopyFront, EraseFront, Abort, Goto, TypeOK, PcType
  <2> QED BY <1>1, <2>1 DEF Spares
<1>4. CASE t \in Clients /\ Changes(t)
  <2>1. UNCHANGED sent /\ pc'[c] = pc[c]
    BY <1>4 DEF Changes, PushBack, EraseAt, Abort, Goto, TypeOK, PcType
  <2> QED BY <1>1, <2>1 DEF Spares
<1>5. ASSUME NEW m, AnswersJob(t, m)
      PROVE  Spares(c)
  <2>1. PICK d \in Clients : d = Job(t) /\ Shared(d) /\ Send(d, m)
    BY <1>5 DEF AnswersJob, Delivers, Shared
  <2>2. pc'[c] = pc[c] /\ m \in Messages
    BY <1>5 DEF AnswersJob, Delivers, ActsAlone, Messages, JobMessages
  <2>3. CASE c = d
    <3>1. \A x \in Messages : Said(sent[c], x) => Said(sent'[c], x)
      BY <2>1, <2>2, <2>3, SendReaches
    <3> QED BY <1>1, <2>1, <2>2, <2>3, <3>1 DEF Spares, Shared
  <2>4. CASE c # d
    <3>1. sent'[c] = sent[c]
      BY <2>1, <2>4 DEF Send, TypeOK
    <3> QED BY <1>1, <2>2, <3>1 DEF Spares
  <2> QED BY <2>3, <2>4
<1> QED BY <1>2, <1>3, <1>4, <1>5

(* Every step of the server is c's own or spares c.                          *)
LEMMA OthersSpare ==
  ASSUME TypeOK, Handoff, DialogueInv, [Next]_vars, NEW c \in Clients
  PROVE  ControllerNext(c) \/ Spares(c)
<1> USE WhoIsWho
<1>0. UNCHANGED command
  BY StepKinds
<1>1. CASE UNCHANGED vars
  BY <1>1 DEF vars, localVars, Spares
<1>2. CASE SpuriousWakeup \/ BufferRaceAborts
  BY <1>0, <1>2 DEF SpuriousWakeup, BufferRaceAborts, Abort, localVars, Spares
<1>3. CASE CreateController
  <2>1. PICK d \in Clients : client_socket = d /\ pc[d] = "unborn"
    BY <1>3 DEF CreateController, Handoff, At
  <2>2. pc'[c] = pc[c] \/ (pc[c] = "unborn" /\ pc'[c] = "start")
    BY <1>3, <2>1 DEF CreateController, TypeOK, PcType
  <2> QED BY <1>0, <1>3, <2>2 DEF CreateController, localVars, Spares
<1>4. CASE MainNext
  <2>1. KeepsRegisters(Main)
    BY <1>4 DEF KeepsRegisters, MainNext, AcceptConnection, RunFails, CreateController,
       AwaitController, TestShouldStop, NotifyWorkersToExit, JoinWorkers, localVars
  <2> QED BY <1>0, <1>3, <1>4, <2>1, MainPlain, KindSpares
<1>5. ASSUME NEW w \in Workers, WorkerNext(w)
      PROVE  Spares(c)
  <2>1. CASE sendJobOutputToClient(w)
    <3>1. AnswersJob(w, "OUTPUT")
      BY <1>0, <2>1, OutputDelivers DEF AnswersJob, Answer
    <3> QED BY <1>0, <1>5, <3>1, WorkerRegisters, KindSpares
  <2>2. CASE Plain(w) \/ Takes(w)
    BY <1>0, <1>5, <2>2, WorkerRegisters, KindSpares
  <2> QED BY <1>0, <1>5, <2>1, <2>2, WorkerPlain DEF Takes
<1>6. ASSUME NEW d \in Clients \ {c}, ControllerNext(d)
      PROVE  Spares(c)
  BY <1>0, <1>6, ControllerKinds, ControllerRegisters, KindSpares
<1> QED BY <1>1, <1>2, <1>4, <1>5, <1>6 DEF Next

(* What c has been told of its command outlasts the steps of others.         *)
LEMMA SparedKeeps ==
  ASSUME TypeOK, NEW c \in Clients, Spares(c),
         AnswersBy(c), command[c].mode = "poll" => Polled(c)
  PROVE  AnswersBy(c)' /\ (command[c].mode = "poll" => Polled(c))'
<1>0. "SUBMITTED" \in Messages /\ "CANCELED" \in Messages
  BY DEF Messages, JobMessages
<1>1. CASE pc'[c] = pc[c] /\ sent'[c] = sent[c]
  BY <1>1 DEF Spares, AnswersBy, Answered, Polled
<1>2. CASE pc'[c] = pc[c] /\ sent'[c] # sent[c]
  <2>1. Answered(c) => Answered(c)'
    BY <1>0, <1>2 DEF Spares, Answered
  <2> QED BY <1>2, <2>1 DEF Spares, AnswersBy
<1>3. CASE pc[c] = "unborn" /\ pc'[c] = "start"
  BY <1>3 DEF Spares, AnswersBy, AnswerLabels, Polled
<1> QED BY <1>1, <1>2, <1>3 DEF Spares

(* Away from the labels of an answer nothing is claimed.                     *)
LEMMA Unanswered ==
  ASSUME NEW c \in Clients, command[c].mode # "poll", UNCHANGED command,
         pc'[c] \notin AnswerLabels,
         pc'[c] = "handshake" => command[c].mode # "exit"
  PROVE  AnswersBy(c)' /\ (command[c].mode = "poll" => Polled(c))'
BY DEF AnswersBy

(* The start of a task, and the tasks that say one thing to their own client. *)
LEMMA OpeningAnswers ==
  ASSUME TypeOK, Handoff, DialogueInv, UNCHANGED command, NEW c \in Clients,
         AnswersBy(c), command[c].mode = "poll" => Polled(c),
         ReadSocket(c) \/ executeTask(c) \/ ContinueServer(c)
  PROVE  AnswersBy(c)' /\ (command[c].mode = "poll" => Polled(c))'
<1> USE WhoIsWho DEF TypeOK, PcType, localVars, Goto, At, Move
<1>1. CASE ReadSocket(c)
  BY <1>1 DEF ReadSocket, AnswersBy, AnswerLabels, Polled
<1>2. CASE executeTask(c)
  <2>1. clientCommand(c) = command[c]
    BY <1>2, Serves DEF executeTask
  <2>2. /\ pc[c] = "receive" /\ pc'[c] = FirstLabel(command[c].mode)
        /\ UNCHANGED <<sent, reg, index>>
    BY <1>2, <2>1 DEF executeTask
  <2>3. sent[c] = << >>
    BY <2>2 DEF DialogueInv, TaskInv, ToldSoFar, Quiet, QuietLabels
  <2>4. command[c].mode = "invalid" => Answered(c)'
    BY <2>2, <2>3 DEF Answered
  <2> QED BY <2>2, <2>3, <2>4 DEF FirstLabel, AnswersBy, AnswerLabels, Polled
<1>3. CASE ContinueServer(c)
  <2>1. clientCommand(c) = command[c]
    BY <1>3, Serves DEF ContinueServer
  <2>2. /\ pc[c] = "handshake" /\ pc'[c] = AfterHandshake(command[c].mode)
        /\ UNCHANGED <<sent, reg, index>>
    BY <1>3, <2>1 DEF ContinueServer
  <2>3. command[c].mode # "exit" => sent[c] = << >>
    BY <2>2 DEF DialogueInv, TaskInv, ToldSoFar, Quiet
  <2>4. pc'[c] = "finished" => Answered(c)'
    <3>1. CASE command[c].mode = "exit"
      <4>1. Answered(c)
        BY <2>2, <3>1 DEF AnswersBy
      <4> QED BY <2>2, <4>1 DEF Answered
    <3>2. CASE command[c].mode # "exit"
      BY <2>2, <2>3, <3>2 DEF AfterHandshake, Answered
    <3> QED BY <3>1, <3>2
  <2>5. /\ pc'[c] \in {"lockFull", "setLevel", "pollSize", "search", "finished"}
        /\ command[c].mode = "poll" => pc'[c] = "pollSize"
    BY <2>2 DEF AfterHandshake
  <2> QED BY <2>2, <2>3, <2>4, <2>5 DEF AnswersBy, AnswerLabels, Polled
<1> QED BY <1>1, <1>2, <1>3

(* The first thing said is all that has been said.                           *)
LEMMA OnlyWord ==
  ASSUME TypeOK, NEW c \in Clients, sent[c] = << >>, NEW m \in Messages, Send(c, m)
  PROVE  sent'[c] = <<m>>
BY SendReaches, SaidFirst

(* An issuer ends with the word that its job is submitted or cancelled.      *)
LEMMA IssuerAnswers ==
  ASSUME TypeOK, Handoff, DialogueInv, UNCHANGED command, NEW c \in Clients,
         AnswersBy(c), insertNewJobToBufferQueue(c)
  PROVE  AnswersBy(c)' /\ (command[c].mode = "poll" => Polled(c))'
<1> USE WhoIsWho DEF TypeOK, PcType, localVars, Goto, At, Move
<1>0. "SUBMITTED" \in Messages /\ "CANCELED" \in Messages
  BY DEF Messages, JobMessages
<1>1. CASE \/ LockFull(c) \/ TestFull(c) \/ SleepFull(c) \/ WakeFull(c)
           \/ TakeJobID(c) \/ LockInsert(c) \/ InsertJob(c)
  <2>1. /\ pc[c] \in IssueLabels \ {"respond", "wakeWorker"}
        /\ pc'[c] \in IssueLabels \ {"wakeWorker"}
    BY <1>1 DEF LockFull, TestFull, SleepFull, WakeFull, TakeJobID, LockInsert,
       InsertJob, insertJobTriplate, TestCapacity, PushBack, LoadSize, StoreSize,
       IssueLabels
  <2>2. command[c].mode = "issueJob"
    BY <2>1 DEF DialogueInv, TaskInv, InTask
  <2>3. pc'[c] \notin AnswerLabels /\ pc'[c] # "handshake"
    BY <2>1 DEF IssueLabels, AnswerLabels
  <2> QED BY <2>2, <2>3, Unanswered
<1>2. CASE CheckCanceled(c) \/ RespondSubmitted(c)
  <2>1. clientSocket[c] = c /\ command[c].mode = "issueJob"
    BY <1>2, Serves
       DEF CheckCanceled, RespondSubmitted, DialogueInv, TaskInv, InTask, IssueLabels
  <2>2. \/ pc'[c] = "testFull"
        \/ Send(c, "CANCELED")
        \/ Send(c, "SUBMITTED")
    BY <1>2, <2>1 DEF CheckCanceled, RespondSubmitted, Respond
  <2>3. CASE pc'[c] = "testFull"
    BY <2>1, <2>3, Unanswered DEF AnswerLabels
  <2>4. CASE Send(c, "CANCELED") \/ Send(c, "SUBMITTED")
    <3>1. Said(sent'[c], "SUBMITTED") \/ Said(sent'[c], "CANCELED")
      BY <1>0, <2>4, SendReaches
    <3> QED BY <2>1, <3>1 DEF AnswersBy, Answered
  <2> QED BY <2>2, <2>3, <2>4
<1>3. CASE WakeWorker(c)
  <2>1. /\ pc[c] = "wakeWorker" /\ UNCHANGED sent
        /\ command[c].mode = "issueJob"
    BY <1>3 DEF WakeWorker, DialogueInv, TaskInv, InTask, IssueLabels
  <2>2. Answered(c)
    BY <2>1 DEF AnswersBy, AnswerLabels
  <2> QED BY <2>1, <2>2 DEF AnswersBy, Answered
<1> QED BY <1>1, <1>2, <1>3 DEF insertNewJobToBufferQueue

(* The client that sets the level is told so before the wake-ups.             *)
LEMMA LevelAnswers ==
  ASSUME TypeOK, Handoff, DialogueInv, UNCHANGED command, NEW c \in Clients,
         AnswersBy(c), setServerConcurrencyLevel(c)
  PROVE  AnswersBy(c)' /\ (command[c].mode = "poll" => Polled(c))'
<1> USE WhoIsWho DEF TypeOK, PcType, localVars, Goto, At, Move
<1>0. pc[c] \in LevelLabels
  BY DEF setServerConcurrencyLevel, SetConcurrency, RespondConcurrencySet, WakeTest,
         WakeSignal, LevelLabels
<1>1. clientSocket[c] = c /\ command[c].mode = "setConcurrency"
  BY <1>0, Serves DEF DialogueInv, TaskInv, InTask, LevelLabels
<1>2. CASE SetConcurrency(c)
  BY <1>1, <1>2, Unanswered DEF SetConcurrency, Abort, AnswerLabels
<1>3. CASE RespondConcurrencySet(c)
  <2>1. pc[c] = "concurrencySet" /\ Send(c, "CONCURRENCY SET")
    BY <1>1, <1>3 DEF RespondConcurrencySet, Respond
  <2>2. sent[c] = << >> /\ "CONCURRENCY SET" \in Messages
    BY <2>1 DEF DialogueInv, TaskInv, ToldSoFar, Quiet, QuietLabels, Messages
  <2>3. sent'[c] = <<"CONCURRENCY SET">>
    BY <2>1, <2>2, OnlyWord
  <2> QED BY <1>1, <2>3 DEF AnswersBy, Answered
<1>4. CASE WakeTest(c) \/ WakeSignal(c)
  <2>1. pc[c] \in {"wakeTest", "wakeSignal"} /\ UNCHANGED sent
    BY <1>4 DEF WakeTest, WakeSignal
  <2>2. Answered(c)
    BY <2>1 DEF AnswersBy, AnswerLabels
  <2> QED BY <1>1, <2>1, <2>2 DEF AnswersBy, Answered
<1> QED BY <1>2, <1>3, <1>4 DEF setServerConcurrencyLevel

(* A counter below the greatest unsigned integer does not wrap.               *)
LEMMA CountsOn ==
  ASSUME NEW n \in Int, 0 <= n, NEW bound \in Int, n < bound, bound < UIntModulus
  PROVE  Inc(n) = n + 1
<1>1. PICK k \in Nat : k = n + 1
  OBVIOUS
<1>2. PICK u \in Nat : u = UIntModulus /\ k < u
  BY <1>1, ParametersInRange
<1>3. k % u = k
  BY <1>2
<1> QED BY <1>1, <1>2, <1>3 DEF Inc

(* poll sends one message more each time it counts one job more.             *)
LEMMA PollAnswers ==
  ASSUME TypeOK, Handoff, DialogueInv, UNCHANGED command, NEW c \in Clients,
         command[c].mode = "poll" => Polled(c), sendWaitingJobsToClient(c)
  PROVE  AnswersBy(c)' /\ (command[c].mode = "poll" => Polled(c))'
<1> USE WhoIsWho DEF TypeOK, PcType, Goto, At, Move
<1>0. pc[c] \in PollLabels
  BY DEF sendWaitingJobsToClient, PollSize, PollTest, PollAt, PollLabels
<1>1. clientSocket[c] = c /\ command[c].mode = "poll"
  BY <1>0, Serves DEF DialogueInv, TaskInv, InTask, PollLabels
<1>2. Polled(c) /\ AnswersBy(c)'
  BY <1>1 DEF AnswersBy, Answered
<1>3. CASE PollSize(c)
  <2>1. /\ pc[c] = "pollSize" /\ pc'[c] = "poll" /\ Send(c, "JOB COUNT")
        /\ UNCHANGED index /\ reg'[c] = size
    BY <1>1, <1>3 DEF PollSize, Respond, LoadReg
  <2>2. sent[c] = << >> /\ index[c] = 0 /\ "JOB COUNT" \in Messages
    BY <1>2, <2>1 DEF Polled, Messages
  <2>3. sent'[c] = <<"JOB COUNT">>
    BY <2>1, <2>2, OnlyWord
  <2>4. Len(sent'[c]) = 1 /\ 0 <= size
    <3>1. Len(<<"JOB COUNT">>) = 1
      OBVIOUS
    <3>2. 0 <= size
      BY ParametersInRange DEF UInt
    <3> QED BY <2>3, <3>1, <3>2
  <2>5. index'[c] = 0 /\ reg'[c] = size /\ pc'[c] = "poll"
    BY <2>1, <2>2
  <2>6. Len(sent'[c]) = index'[c] + 1 /\ index'[c] <= reg'[c]
    BY <2>4, <2>5
  <2> QED BY <1>2, <2>5, <2>6 DEF Polled
<1>4. index[c] \in Int /\ reg[c] \in Int /\ 0 <= index[c] /\ reg[c] < UIntModulus
  BY ParametersInRange DEF UInt
<1>5. CASE PollTest(c)
  <2>1. /\ pc[c] = "poll" /\ UNCHANGED <<sent, reg, index>>
        /\ pc'[c] = IF index[c] < reg[c] THEN "pollAt" ELSE "finished"
    BY <1>5 DEF PollTest, localVars
  <2> QED BY <1>2, <1>4, <2>1 DEF Polled
<1>6. CASE Abort
  BY <1>2, <1>6 DEF Abort, localVars, Polled
<1>7. CASE PollAt(c) /\ ~Abort
  <2>1. /\ pc[c] = "pollAt" /\ pc'[c] = "poll" /\ UNCHANGED reg
        /\ index'[c] = Inc(index[c])
        /\ sent'[c] = Append(sent[c], "JOB")
    BY <1>1, <1>7 DEF PollAt, Respond, Send
  <2>2. Len(sent[c]) = index[c] + 1 /\ index[c] < reg[c]
    BY <1>2, <2>1 DEF Polled
  <2>3. index'[c] = index[c] + 1
    BY <1>4, <2>1, <2>2, CountsOn
  <2>4. Len(sent'[c]) = Len(sent[c]) + 1
    <3>1. sent[c] \in Seq(Messages) /\ "JOB" \in Messages
      BY DEF Messages
    <3> QED BY <2>1, <3>1, AppendProperties
  <2> QED BY <1>2, <1>4, <2>1, <2>2, <2>3, <2>4 DEF Polled
<1> QED BY <1>3, <1>5, <1>6, <1>7 DEF sendWaitingJobsToClient

(* A remover ends with the word whether it found the job.                    *)
LEMMA RemoverAnswers ==
  ASSUME TypeOK, Handoff, DialogueInv, UNCHANGED command, NEW c \in Clients,
         AnswersBy(c), removeJobFromBufferQueue(c)
  PROVE  AnswersBy(c)' /\ (command[c].mode = "poll" => Polled(c))'
<1> USE WhoIsWho DEF TypeOK, PcType, localVars, Goto, At, Move
<1>0. pc[c] \in StopLabels
  BY DEF removeJobFromBufferQueue, RemoveJob, removeJobTriplateByID, SearchTest,
         SearchAt, EraseAt, LoadSize, StoreSize, RespondRemoved, NotifyRemoved,
         StopLabels
<1>1. clientSocket[c] = c /\ command[c].mode = "stop"
  BY <1>0, Serves DEF DialogueInv, TaskInv, InTask, StopLabels
<1>2. CASE RemoveJob(c)
  <2>1. pc'[c] \in StopLabels \ {"notifyRemoved", "leave"}
    BY <1>2 DEF RemoveJob, removeJobTriplateByID, SearchTest, SearchAt, EraseAt,
       LoadSize, StoreSize, Abort, StopLabels
  <2> QED BY <1>1, <2>1, Unanswered DEF StopLabels, AnswerLabels
<1>3. CASE RespondRemoved(c)
  <2>1. PICK m \in {"REMOVED", "NOTFOUND"} :
           Send(c, m) /\ pc[c] \in {"removed", "notFound"}
    BY <1>1, <1>3 DEF RespondRemoved, Respond
  <2>2. sent[c] = << >> /\ m \in Messages
    BY <2>1 DEF DialogueInv, TaskInv, ToldSoFar, Quiet, QuietLabels, StopLabels,
       Messages
  <2>3. sent'[c] = <<m>>
    BY <2>1, <2>2, OnlyWord
  <2> QED BY <1>1, <2>3 DEF AnswersBy, Answered
<1>4. CASE NotifyRemoved(c)
  <2>1. pc[c] \in {"notifyRemoved", "leave"}
    BY <1>4 DEF NotifyRemoved
  <2>2. sent'[c] = sent[c]
    <3>1. CASE pc[c] = "notifyRemoved"
      <4>1. Delivers(c, "REMOVED BEFORE EXECUTION")
        BY <1>4, <3>1, RemovedDelivers
      <4>2. Job(c) # c
        BY <1>1, <4>1 DEF Delivers, Shared
      <4> QED BY <4>1, <4>2 DEF Delivers, Send
    <3>2. CASE pc[c] = "leave"
      BY <1>4, <3>2 DEF NotifyRemoved
    <3> QED BY <2>1, <3>1, <3>2
  <2>3. Answered(c)
    BY <2>1 DEF AnswersBy, AnswerLabels
  <2> QED BY <1>1, <2>2, <2>3 DEF AnswersBy, Answered
<1> QED BY <1>2, <1>3, <1>4 DEF removeJobFromBufferQueue

(* exit tells its client when no job runs, and others before that.           *)
LEMMA TerminatorAnswers ==
  ASSUME TypeOK, Handoff, DialogueInv, UNCHANGED command, NEW c \in Clients,
         AnswersBy(c), terminateServer(c)
  PROVE  AnswersBy(c)' /\ (command[c].mode = "poll" => Polled(c))'
<1> USE WhoIsWho DEF TypeOK, PcType, localVars, Goto, At, Move
<1>0. pc[c] \in ExitLabels
  BY DEF terminateServer, StopIssuers, CancelIssuers, DrainTest, DrainJob,
         getJobTriplate, CopyFront, EraseFront, LoadSize, StoreSize, NotifyDrained,
         TestJobsDone, SleepJobsDone, WakeJobsDone, RespondTerminated, StopServer,
         ExitLabels
<1>1. clientSocket[c] = c /\ command[c].mode = "exit"
  BY <1>0, Serves DEF DialogueInv, TaskInv, InTask, ExitLabels
<1>2. CASE RespondTerminated(c)
  <2>1. pc[c] = "bye" /\ Send(c, "SERVER TERMINATED")
    BY <1>1, <1>2 DEF RespondTerminated, Respond
  <2>2. sent[c] = << >> /\ "SERVER TERMINATED" \in Messages
    BY <2>1 DEF DialogueInv, TaskInv, ToldSoFar, Quiet, QuietLabels, ExitLabels,
       Messages
  <2>3. sent'[c] = <<"SERVER TERMINATED">>
    BY <2>1, <2>2, OnlyWord
  <2> QED BY <1>1, <2>3 DEF AnswersBy, Answered
<1>3. CASE StopServer(c)
  <2>1. pc[c] = "stopServer" /\ UNCHANGED sent
    BY <1>3 DEF StopServer
  <2>2. Answered(c)
    BY <2>1 DEF AnswersBy, AnswerLabels
  <2> QED BY <1>1, <2>1, <2>2 DEF AnswersBy, Answered
<1>4. CASE ~(RespondTerminated(c) \/ StopServer(c))
  <2>1. pc'[c] \in ExitLabels \ {"stopServer"}
    BY <1>4 DEF terminateServer, StopIssuers, CancelIssuers, DrainTest, DrainJob,
       getJobTriplate, CopyFront, EraseFront, LoadSize, StoreSize, NotifyDrained,
       TestJobsDone, SleepJobsDone, WakeJobsDone, Abort, ExitLabels
  <2> QED BY <1>1, <2>1, Unanswered DEF ExitLabels, AnswerLabels
<1> QED BY <1>2, <1>3, <1>4

(* AnswerInv is inductive.                                                   *)
LEMMA AnswerStep ==
  ASSUME TypeOK, Handoff, DialogueInv, AnswerInv, [Next]_vars
  PROVE  AnswerInv'
<1>1. ASSUME NEW c \in Clients
      PROVE  AnswersBy(c)' /\ (command[c].mode = "poll" => Polled(c))'
  <2>1. AnswersBy(c) /\ (command[c].mode = "poll" => Polled(c))
    BY DEF AnswerInv
  <2>2. UNCHANGED command
    BY StepKinds
  <2>3. CASE Spares(c)
    BY <2>1, <2>3, SparedKeeps
  <2>4. CASE ControllerNext(c)
    BY <2>1, <2>2, <2>4, OpeningAnswers, IssuerAnswers, LevelAnswers, PollAnswers,
       RemoverAnswers, TerminatorAnswers DEF ControllerNext
  <2> QED BY <2>3, <2>4, OthersSpare
<1> QED BY <1>1 DEF AnswerInv

(* Nobody has been told or has counted anything at the start.                 *)
LEMMA AnswerInit == Init => AnswerInv
<1> SUFFICES ASSUME Init, NEW c \in Clients PROVE AnswersBy(c) /\ Polled(c)
  BY DEF AnswerInv
<1>1. pc[c] = "unborn" /\ sent[c] = << >> /\ index[c] = 0 /\ reg[c] = 0
  BY WhoIsWho DEF Init
<1> QED BY <1>1 DEF AnswersBy, AnswerLabels, Polled

(* AnswersComplete: whatever exit, stop and the workers do meanwhile, a       *)
(* controller ends only when its client has been told all that it waits for,  *)
(* and poll keeps to the number of jobs it announced.                        *)
THEOREM AnswersCompleted == Spec => []AnswersComplete
<1>1. TypeOK /\ Handoff /\ DialogueInv /\ AnswerInv /\ [Next]_vars => AnswerInv'
  BY AnswerStep
<1>2. TypeOK /\ AnswerInv => AnswersComplete
  <2> SUFFICES ASSUME TypeOK, AnswerInv, NEW c \in Clients
               PROVE  /\ command[c].mode = "poll" => Len(sent[c]) <= reg[c] + 1
                      /\ At(c, "finished") /\ command[c].mode = "poll"
                           => Len(sent[c]) = reg[c] + 1
                      /\ At(c, "finished") => Answered(c)
    BY DEF AnswersComplete, Answered
  <2>1. reg[c] \in Int /\ index[c] \in Int /\ 0 <= reg[c] /\ Len(<< >>) = 0
    BY WhoIsWho, ParametersInRange DEF TypeOK, UInt
  <2>2. ASSUME command[c].mode = "poll"
        PROVE  /\ Len(sent[c]) <= reg[c] + 1
               /\ At(c, "finished") => Len(sent[c]) = reg[c] + 1
    BY <2>1, <2>2 DEF AnswerInv, Polled, At
  <2>3. At(c, "finished") => Answered(c)
    BY DEF AnswerInv, AnswersBy, AnswerLabels, At
  <2> QED BY <2>2, <2>3
<1> QED BY <1>1, <1>2, AnswerInit, TypeAndHandoff, DialogueCorrect, PTL DEF Spec
===============================================================================
