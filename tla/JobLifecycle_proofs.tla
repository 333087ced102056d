--------------------------- MODULE JobLifecycle_proofs ---------------------------
(*****************************************************************************)
(* The server implements JobLifecycle while no client sends stop or exit:    *)
(* a proof for every number of workers and clients.                         *)
(*****************************************************************************)
EXTENDS ClientDialogue_proofs, QueueDiscipline_proofs

(* The clients of the jobs in a queue, in the queue's order.                  *)
Owners(b) == [i \in DOMAIN b |-> b[i].socketID]

(* The owners are as many as the jobs, and in their places.                  *)
LEMMA OwnersType ==
  ASSUME NEW b \in Seq(Triplate)
  PROVE  /\ Owners(b) \in Seq(Clients \cup {NoThread})
         /\ Len(Owners(b)) = Len(b) /\ Len(b) \in Nat
         /\ DOMAIN Owners(b) = 1 .. Len(b)
         /\ \A i \in 1 .. Len(b) : Owners(b)[i] = b[i].socketID
<1>1. PICK n \in Nat : n = Len(b) /\ DOMAIN b = 1 .. n
  BY LenProperties
<1>2. \A i \in 1 .. n : b[i].socketID \in Clients \cup {NoThread}
  <2>1. b \in [1 .. n -> Triplate]
    BY <1>1, LenProperties
  <2> QED BY <2>1 DEF Triplate
<1>3. Owners(b) \in [1 .. n -> Clients \cup {NoThread}]
  BY <1>1, <1>2 DEF Owners
<1>4. Owners(b) \in Seq(Clients \cup {NoThread}) /\ Len(Owners(b)) = n
  BY <1>3
<1> QED BY <1>1, <1>3, <1>4 DEF Owners

(* A job inserted at the end of the queue is the last of the owners.          *)
LEMMA OwnersAppend ==
  ASSUME NEW b \in Seq(Triplate), NEW x \in Triplate
  PROVE  Owners(Append(b, x)) = Append(Owners(b), x.socketID)
<1>1. x.socketID \in Clients \cup {NoThread}
  BY DEF Triplate
<1>2. PICK n \in Nat : n = Len(b)
  BY OwnersType
<1>3. /\ Append(b, x) \in Seq(Triplate) /\ Len(Append(b, x)) = n + 1
      /\ Append(b, x)[n + 1] = x
      /\ \A i \in 1 .. n : Append(b, x)[i] = b[i]
  BY <1>2, AppendProperties
<1>4. /\ Append(Owners(b), x.socketID) \in Seq(Clients \cup {NoThread})
      /\ Len(Append(Owners(b), x.socketID)) = n + 1
      /\ Append(Owners(b), x.socketID)[n + 1] = x.socketID
      /\ \A i \in 1 .. n : Append(Owners(b), x.socketID)[i] = b[i].socketID
  BY <1>1, <1>2, OwnersType, AppendProperties
<1>5. /\ Owners(Append(b, x)) \in Seq(Clients \cup {NoThread})
      /\ Len(Owners(Append(b, x))) = n + 1
      /\ \A i \in 1 .. n + 1 : Owners(Append(b, x))[i] = Append(b, x)[i].socketID
  BY <1>3, OwnersType
<1>6. \A i \in 1 .. n + 1 :
        Owners(Append(b, x))[i] = Append(Owners(b), x.socketID)[i]
  <2> TAKE i \in 1 .. n + 1
  <2>1. CASE i = n + 1
    BY <1>3, <1>4, <1>5, <2>1
  <2>2. CASE i \in 1 .. n
    BY <1>3, <1>4, <1>5, <2>2
  <2>3. \A k \in Nat : \A j \in 1 .. k + 1 : j = k + 1 \/ j \in 1 .. k
    OBVIOUS
  <2>4. i = n + 1 \/ i \in 1 .. n
    BY <1>2, <2>3
  <2> QED BY <2>1, <2>2, <2>4
<1> QED BY <1>4, <1>5, <1>6, SeqEqual

(* The removal of the oldest job takes the first of the owners away.         *)
LEMMA OwnersTail ==
  ASSUME NEW b \in Seq(Triplate), b # << >>
  PROVE  /\ Owners(b) # << >>
         /\ Head(Owners(b)) = b[1].socketID
         /\ Owners(Tail(b)) = Tail(Owners(b))
<1>1. PICK n \in Nat : n = Len(b) /\ n >= 1
  BY OwnersType
<1>2. /\ Tail(b) \in Seq(Triplate) /\ Len(Tail(b)) = n - 1
      /\ \A i \in 1 .. n - 1 : Tail(b)[i] = b[i + 1]
  BY <1>1, HeadTailProperties
<1>3. /\ Owners(b) # << >> /\ Owners(b)[1] = b[1].socketID
      /\ Head(Owners(b)) = Owners(b)[1]
  BY <1>1, OwnersType
<1>4. /\ Tail(Owners(b)) \in Seq(Clients \cup {NoThread})
      /\ Len(Tail(Owners(b))) = n - 1
      /\ \A i \in 1 .. n - 1 : Tail(Owners(b))[i] = b[i + 1].socketID
  <2>1. /\ Tail(Owners(b)) \in Seq(Clients \cup {NoThread})
        /\ Len(Tail(Owners(b))) = n - 1
        /\ \A i \in 1 .. n - 1 : Tail(Owners(b))[i] = Owners(b)[i + 1]
    BY <1>1, <1>3, OwnersType, HeadTailProperties
  <2>2. \A i \in 1 .. n - 1 : Owners(b)[i + 1] = b[i + 1].socketID
    BY <1>1, OwnersType
  <2> QED BY <2>1, <2>2
<1>5. /\ Owners(Tail(b)) \in Seq(Clients \cup {NoThread})
      /\ Len(Owners(Tail(b))) = n - 1
      /\ \A i \in 1 .. n - 1 : Owners(Tail(b))[i] = b[i + 1].socketID
  BY <1>2, OwnersType
<1>6. Owners(Tail(b)) = Tail(Owners(b))
  BY <1>4, <1>5, SeqEqual
<1> QED BY <1>3, <1>6

(* A message that was sent at all was sent more than 0 times.                *)
LEMMA SaidIsCounted ==
  ASSUME NEW s \in Seq(Messages), NEW m
  PROVE  Cardinality({i \in DOMAIN s : s[i] = m}) > 0 <=> Said(s, m)
<1>1. PICK n \in Nat : n = Len(s) /\ DOMAIN s = 1 .. n
  BY LenProperties
<1>2. PICK P : P = {i \in 1 .. n : s[i] = m}
  OBVIOUS
<1>3. IsFiniteSet(P)
  <2>1. IsFiniteSet(1 .. n) /\ P \in SUBSET (1 .. n)
    BY <1>2, FS_Interval
  <2> QED BY <2>1, FS_Subset
<1>4. {i \in DOMAIN s : s[i] = m} = P /\ Cardinality(P) \in Nat
  BY <1>1, <1>2, <1>3, FS_CardinalityType
<1>5. Cardinality(P) = 0 <=> P = {}
  BY <1>3, FS_EmptySet
<1>6. P # {} <=> Said(s, m)
  BY <1>1, <1>2 DEF Said
<1>7. Cardinality(P) > 0 <=> P # {}
  BY <1>4, <1>5
<1> QED BY <1>4, <1>6, <1>7

-------------------------------------------------------------------------------
(* What the threads may do to the queue and to the jobs                      *)

(* A worker about to erase the oldest job has copied that very job.          *)
HeadInv ==
  \A w \in Workers :
    pc[w] = "erase" => buffer # << >> /\ Queued(1) = Job(w)

(* While nobody stops or exits, controllers only insert; they answer          *)
(* no job and touch no worker.                                               *)
LEMMA ControllerInserts ==
  ASSUME TypeOK, Handoff, DialogueInv, QueueInv, UNCHANGED command,
         NEW c \in Clients, ControllerNext(c)
  PROVE  /\ PushBack(c) \/ UNCHANGED buffer
         /\ \A w \in Workers : pc'[w] = pc[w] /\ Job(w)' = Job(w)
         /\ \A d \in Clients : Said(sent'[d], "OUTPUT") <=> Said(sent[d], "OUTPUT")
<1> USE WhoIsWho
<1>1. ~Takes(c) /\ ~EraseAt(c)
  BY DEF QueueInv, Takes, CopyFront, EraseFront, EraseAt, At, OrderlyLabels,
     PollingLabels
<1>2. ASSUME NEW d \in Clients, NEW m \in Messages \ {"OUTPUT"}, Send(d, m)
      PROVE  \A e \in Clients : Said(sent'[e], "OUTPUT") <=> Said(sent[e], "OUTPUT")
  <2>1. "OUTPUT" \in Messages
    BY DEF Messages, JobMessages
  <2> QED BY <1>2, <2>1, SendReaches
<1>3. CASE Plain(c)
  <2>1. ActsAlone(c) /\ UNCHANGED buffer /\ (UNCHANGED sent \/ OwnWords(c))
    BY <1>3 DEF Plain
  <2>2. OwnWords(c) => \E m \in Messages \ {"OUTPUT"} : Send(c, m)
    BY DEF OwnWords, Answers
  <2> QED BY <1>2, <2>1, <2>2 DEF ActsAlone, Job
<1>4. CASE PushBack(c)
  BY <1>4 DEF PushBack, TypeOK, PcType, localVars, At, Goto, Job
<1>5. ASSUME NEW m, AnswersJob(c, m)
      PROVE  /\ UNCHANGED buffer
             /\ \A w \in Workers : pc'[w] = pc[w] /\ Job(w)' = Job(w)
             /\ \A d \in Clients :
                  Said(sent'[d], "OUTPUT") <=> Said(sent[d], "OUTPUT")
  <2>1. m \in Messages \ {"OUTPUT"} /\ Job(c) \in Clients /\ Send(Job(c), m)
    BY <1>5 DEF AnswersJob, Delivers, Answers, Answer, Shared, Messages, JobMessages
  <2> QED BY <1>2, <1>5, <2>1 DEF AnswersJob, Delivers, ActsAlone, Job
<1> QED BY <1>1, <1>3, <1>4, <1>5, ControllerKinds DEF Changes

(* Main, and whatever only ends the process or wakes a thread, touch no job.  *)
LEMMA MainInserts ==
  ASSUME TypeOK, Handoff, MainNext \/ SpuriousWakeup \/ BufferRaceAborts
                          \/ UNCHANGED vars
  PROVE  /\ UNCHANGED <<buffer, sent>>
         /\ \A w \in Workers : pc'[w] = pc[w] /\ Job(w)' = Job(w)
<1>1. CASE MainNext
  <2>1. \A w \in Workers : pc'[w] = pc[w]
    BY <1>1, WhoIsWho
       DEF MainNext, AcceptConnection, RunFails, CreateController, AwaitController,
       TestShouldStop, NotifyWorkersToExit, JoinWorkers, Handoff, TypeOK, PcType,
       Goto, At
  <2>2. UNCHANGED <<buffer, sent, triplate>>
    BY <1>1
       DEF MainNext, AcceptConnection, RunFails, CreateController, AwaitController,
       TestShouldStop, NotifyWorkersToExit, JoinWorkers, queueVars, localVars
  <2> QED BY <2>1, <2>2 DEF Job
<1>2. CASE SpuriousWakeup \/ BufferRaceAborts \/ UNCHANGED vars
  BY <1>2 DEF SpuriousWakeup, BufferRaceAborts, Abort, vars, queueVars, localVars, Job
<1> QED BY <1>1, <1>2

(* A step that neither touches the queue nor sends an output.                *)
Rests(w) ==
  /\ UNCHANGED <<buffer, sent>>
  /\ pc'[w] = "erase" => pc[w] = "erase"
  /\ Executing(w) => Job(w)' = Job(w)
  /\ pc[w] = "erase" => UNCHANGED <<pc[w], Job(w)>>

(* A worker's own steps, as far as jobs go: it copies the oldest job, erases   *)
(* it, sends its output, gives it up when a call fails, or does none of that. *)
LEMMA WorkerKinds ==
  ASSUME TypeOK, NEW w \in Workers, WorkerNext(w)
  PROVE  /\ \A u \in Workers \ {w} : pc'[u] = pc[u] /\ Job(u)' = Job(u)
         /\ \/ CopyFront(w) /\ ~Abort
            \/ EraseFront(w) /\ ~Abort
            \/ sendJobOutputToClient(w)
            \/ Rests(w) /\ (Executing(w)' <=> Executing(w))
            \/ Rests(w) /\ ForkMayFail /\ Executing(w) /\ ~Executing(w)'
<1> USE WhoIsWho
    DEF TypeOK, PcType, queueVars, localVars, Goto, At, Step, Job, Rests, Executing
<1>1. CASE \/ LockWorker(w) \/ TestEmpty(w) \/ LoadLevel(w) \/ CompareLevel(w)
           \/ Sleep(w) \/ Wake(w)
  BY <1>1 DEF LockWorker, TestEmpty, LoadLevel, CompareLevel, Sleep, Wake
<1>2. CASE CheckShouldStop(w) \/ UnlockAgain(w) \/ LockQueue(w) \/ SignalController(w)
  BY <1>2 DEF CheckShouldStop, UnlockAgain, LockQueue, SignalController
<1>3. CASE receiveJobFromBuffer(w)
  BY <1>3 DEF receiveJobFromBuffer, getJobTriplate, CopyFront, EraseFront, LoadSize,
     StoreSize, Abort
<1>4. CASE IncreaseBusyWorkers(w) \/ increaseRunningJobs(w) \/ OutputMissing(w)
  BY <1>4 DEF IncreaseBusyWorkers, increaseRunningJobs, OutputMissing, Abort
<1>5. CASE Fork(w)
  BY <1>5 DEF Fork
<1>6. CASE sendJobOutputToClient(w)
  BY <1>6 DEF sendJobOutputToClient
<1>7. CASE DecreaseRunningJobs(w) \/ DecreaseBusyWorkers(w) \/ NotifyJobDone(w)
  BY <1>7 DEF DecreaseRunningJobs, DecreaseBusyWorkers, NotifyJobDone
<1> QED BY <1>1, <1>2, <1>3, <1>4, <1>5, <1>6, <1>7 DEF WorkerNext, executeJob

(* What is at the head of the queue stays there until it is erased.          *)
LEMMA HeadStep ==
  ASSUME TypeOK, Handoff, MutualExclusion, DialogueInv, QueueInv, HeadInv,
         [Next]_vars
  PROVE  HeadInv'
<1> USE WhoIsWho
<1>0. UNCHANGED command
  BY StepKinds
<1>1. ASSUME UNCHANGED buffer, \A w \in Workers : pc'[w] = pc[w] /\ Job(w)' = Job(w)
      PROVE  HeadInv'
  BY <1>1 DEF HeadInv, Queued
<1>2. ASSUME NEW c \in Clients, ControllerNext(c)
      PROVE  HeadInv'
  <2>1. CASE PushBack(c)
    <3>1. Holds(c, "jobInsertion")
      BY <2>1 DEF PushBack, At, Holds
    <3>2. \A w \in Workers : pc[w] # "erase"
      BY <3>1, OneInserter DEF Holds
    <3> QED BY <1>0, <1>2, <3>2, ControllerInserts DEF HeadInv
  <2> QED BY <1>0, <1>1, <1>2, <2>1, ControllerInserts
<1>3. ASSUME NEW w \in Workers, WorkerNext(w)
      PROVE  HeadInv'
  <2>1. \A u \in Workers \ {w} : pc'[u] = pc[u] /\ Job(u)' = Job(u)
    BY <1>3, WorkerKinds
  <2>2. CASE CopyFront(w) /\ ~Abort
    <3>1. /\ buffer # << >> /\ UNCHANGED buffer
          /\ Job(w)' = Head(buffer).socketID
      BY <2>2 DEF CopyFront, queueVars, Job, TypeOK
    <3> QED BY <2>1, <3>1 DEF HeadInv, Queued
  <2>3. CASE EraseFront(w) /\ ~Abort
    <3>1. Holds(w, "jobInsertion") /\ pc'[w] = "takeLoad"
      BY <2>3 DEF EraseFront, At, Goto, Holds, TypeOK, PcType
    <3>2. \A u \in Workers \ {w} : pc[u] # "erase"
      BY <3>1, OneInserter DEF Holds
    <3> QED BY <2>1, <3>1, <3>2 DEF HeadInv
  <2>4. CASE sendJobOutputToClient(w)
    BY <2>1, <2>4
       DEF sendJobOutputToClient, Step, At, Goto, queueVars, TypeOK, PcType, HeadInv,
           Queued
  <2>5. CASE Rests(w)
    BY <2>1, <2>5 DEF Rests, HeadInv, Queued
  <2> QED BY <1>3, <2>2, <2>3, <2>4, <2>5, WorkerKinds
<1> QED BY <1>1, <1>2, <1>3, MainInserts DEF Next

-------------------------------------------------------------------------------
(* The refinement                                                            *)

RunningJobs  == {Job(w) : w \in {v \in Workers : Executing(v)}}
FinishedJobs == {c \in Clients : Said(sent[c], "OUTPUT")}

(* The refinement mapping, in these words.                                   *)
LEMMA Mapping ==
  ASSUME TypeOK, TypeOK'
  PROVE  /\ [i \in DOMAIN buffer |-> buffer[i].socketID] = Owners(buffer)
         /\ [i \in DOMAIN buffer' |-> buffer'[i].socketID] = Owners(buffer')
         /\ {triplate[w].socketID : w \in {v \in Workers : Executing(v)}}
              = RunningJobs
         /\ {triplate'[w].socketID : w \in {v \in Workers : Executing(v)'}}
              = RunningJobs'
         /\ {c \in Clients : Count(c, "OUTPUT") > 0} = FinishedJobs
         /\ {c \in Clients : Count(c, "OUTPUT")' > 0} = FinishedJobs'
<1>1. /\ \A c \in Clients : Count(c, "OUTPUT") > 0 <=> Said(sent[c], "OUTPUT")
      /\ \A c \in Clients : Count(c, "OUTPUT")' > 0 <=> Said(sent'[c], "OUTPUT")
  BY SaidIsCounted DEF TypeOK, Count
<1> QED BY <1>1 DEF Owners, RunningJobs, FinishedJobs, Job

(* The workers that have a job in hand, in a step of one of them.            *)
LEMMA SameJobs ==
  ASSUME \A w \in Workers : Executing(w)' <=> Executing(w),
         \A w \in Workers : Executing(w) => Job(w)' = Job(w)
  PROVE  RunningJobs' = RunningJobs
BY DEF RunningJobs

(* A step the abstract jobs do not see.                                      *)
LEMMA LifecycleStutters ==
  ASSUME TypeOK, TypeOK', UNCHANGED buffer, RunningJobs' = RunningJobs,
         FinishedJobs' = FinishedJobs
  PROVE  UNCHANGED Lifecycle!jobVars
BY Mapping DEF Lifecycle!jobVars

(* Nobody's job is in hand, in the queue or answered before it is pushed.    *)
LEMMA PushSubmits ==
  ASSUME TypeOK, TypeOK', Handoff, MutualExclusion, DialogueInv, QueueInv, UNCHANGED command,
         NEW c \in Clients, PushBack(c)
  PROVE  Lifecycle!Submit(c)
<1> USE WhoIsWho
<1>1. /\ pc[c] = "push" /\ buffer' = Append(buffer, triplate[c])
      /\ pc' = [pc EXCEPT ![c] = "pushLoad"] /\ UNCHANGED <<sent, triplate>>
      /\ triplate[c] \in Triplate /\ buffer \in Seq(Triplate)
  BY DEF PushBack, At, Goto, localVars, TypeOK
<1>2. /\ RunningJobs' = RunningJobs /\ FinishedJobs' = FinishedJobs
  <2>1. \A w \in Workers : pc'[w] = pc[w] /\ Job(w)' = Job(w)
    BY <1>1 DEF Job
  <2> QED BY <1>1, <2>1, SameJobs DEF Executing, FinishedJobs
<1>3. triplate[c].socketID = c
  BY <1>1 DEF DialogueInv, TaskInv, ToldSoFar, Job
<1>4. ~Shared(c) /\ sent[c] = << >>
  <2>1. Quiet(c) /\ pc[c] \notin SharedLabels
    BY <1>1 DEF Quiet, QuietLabels, IssueLabels, SharedLabels
  <2> QED BY <2>1 DEF Shared, DialogueInv, TaskInv, ToldSoFar
<1>5. c \notin FinishedJobs
  BY <1>4, SaidFirst DEF FinishedJobs
<1>6. c \notin RunningJobs
  <2>1. \A w \in Workers : Executing(w) => InHand(w)
    BY DEF Executing, InHand, HandLabels
  <2>2. \A w \in Workers : InHand(w) => Shared(Job(w))
    BY DEF DialogueInv, HandInv, Carries
  <2> QED BY <1>4, <2>1, <2>2 DEF RunningJobs
<1>7. /\ \A i \in DOMAIN Owners(buffer) : Owners(buffer)[i] # c
      /\ Len(Owners(buffer)) = Len(buffer)
  <2>1. \A i \in 1 .. Len(buffer) : Shared(buffer[i].socketID)
    BY DEF DialogueInv, QueuedInv, Queued
  <2> QED BY <1>1, <1>4, <2>1, OwnersType
<1>8. Len(buffer) < Capacity
  <2>1. Holds(c, "jobInsertion") /\ size < Capacity
    BY <1>1 DEF Holds, QueueInv, At
  <2>2. ~Adding /\ ~Removing
    BY <1>1, <2>1, InserterAlone DEF Adding, Removing
  <2> QED BY <2>1, <2>2, LenProperties DEF QueueInv, SizeTracksBuffer, TypeOK
<1>9. Owners(buffer') = Append(Owners(buffer), c)
  BY <1>1, <1>3, OwnersAppend
<1> QED BY <1>2, <1>5, <1>6, <1>7, <1>8, <1>9, Mapping
        DEF Lifecycle!Submit, Lifecycle!Waiting

(* A worker that has erased the oldest job has it in hand from then on.      *)
LEMMA EraseStarts ==
  ASSUME TypeOK, TypeOK', HeadInv, IsFiniteSet(Workers),
         NEW w \in Workers, EraseFront(w), ~Abort
  PROVE  Lifecycle!Start
<1> USE WhoIsWho
<1>1. /\ pc[w] = "erase" /\ buffer # << >> /\ buffer' = Tail(buffer)
      /\ pc' = [pc EXCEPT ![w] = "takeLoad"] /\ UNCHANGED <<sent, triplate>>
      /\ buffer \in Seq(Triplate)
  BY DEF EraseFront, At, Goto, localVars, TypeOK
<1>2. FinishedJobs' = FinishedJobs
  BY <1>1 DEF FinishedJobs
<1>3. Job(w) = buffer[1].socketID /\ \A v \in Workers : Job(v)' = Job(v)
  BY <1>1 DEF HeadInv, Queued, Job
<1>4. /\ ~Executing(w) /\ Executing(w)'
      /\ \A v \in Workers \ {w} : Executing(v)' <=> Executing(v)
  BY <1>1 DEF Executing, TypeOK, PcType
<1>5. RunningJobs' = RunningJobs \cup {Job(w)}
  BY <1>3, <1>4 DEF RunningJobs
<1>6. Cardinality(RunningJobs) < Cardinality(Workers)
  <2>1. PICK B : B = {v \in Workers : Executing(v)}
    OBVIOUS
  <2>2. B \in SUBSET (Workers \ {w}) /\ IsFiniteSet(Workers \ {w})
    BY <1>4, <2>1, FS_RemoveElement
  <2>3. IsFiniteSet(B) /\ Cardinality(B) <= Cardinality(Workers \ {w})
    BY <2>2, FS_Subset
  <2>4. [v \in B |-> Job(v)] \in Surjection(B, RunningJobs)
    BY <2>1 DEF Surjection, RunningJobs
  <2>5. IsFiniteSet(RunningJobs) /\ Cardinality(RunningJobs) <= Cardinality(B)
    BY <2>3, <2>4, FS_Surjection
  <2>6. Cardinality(Workers \ {w}) = Cardinality(Workers) - 1
    BY FS_RemoveElement
  <2>7. /\ Cardinality(Workers) \in Nat /\ Cardinality(Workers \ {w}) \in Nat
        /\ Cardinality(B) \in Nat /\ Cardinality(RunningJobs) \in Nat
    BY <2>2, <2>3, <2>5, FS_CardinalityType
  <2> QED BY <2>3, <2>5, <2>6, <2>7
<1>7. /\ Owners(buffer) # << >> /\ Head(Owners(buffer)) = buffer[1].socketID
      /\ Owners(buffer') = Tail(Owners(buffer))
  BY <1>1, OwnersTail
<1>8. RunningJobs' = RunningJobs \cup {Head(Owners(buffer))}
  BY <1>3, <1>5, <1>7
<1>9. Cardinality(RunningJobs) = Lifecycle!Cardinality(RunningJobs)
  BY DEF Cardinality, Lifecycle!Cardinality
<1>10. /\ Owners(buffer) # << >>
       /\ Owners(buffer') = Tail(Owners(buffer))
       /\ RunningJobs' = RunningJobs \cup {Head(Owners(buffer))}
       /\ FinishedJobs' = FinishedJobs
       /\ Lifecycle!Cardinality(RunningJobs) < Cardinality(Workers)
  BY <1>2, <1>6, <1>7, <1>8, <1>9
<1> QED BY <1>10, Mapping DEF Lifecycle!Start

(* The job a worker lets go, answered or not, was no other worker's.         *)
LEMMA LetGo ==
  ASSUME TypeOK, DialogueInv, NEW w \in Workers, Executing(w), ~Executing(w)',
         \A u \in Workers \ {w} : pc'[u] = pc[u] /\ Job(u)' = Job(u)
  PROVE  Job(w) \in RunningJobs /\ RunningJobs' = RunningJobs \ {Job(w)}
<1>1. \A v \in Workers : Executing(v) => InHand(v)
  BY DEF Executing, InHand, HandLabels
<1>2. \A v \in Workers \ {w} : Executing(v) => Job(v) # Job(w)
  BY <1>1 DEF DialogueInv, HandInv
<1>3. \A v \in Workers \ {w} : Executing(v)' <=> Executing(v)
  BY DEF Executing
<1> QED BY <1>2, <1>3 DEF RunningJobs

(* The output goes to the client whose job it is.                            *)
LEMMA OutputFinishes ==
  ASSUME TypeOK, TypeOK', DialogueInv, NEW w \in Workers,
         sendJobOutputToClient(w),
         \A u \in Workers \ {w} : pc'[u] = pc[u] /\ Job(u)' = Job(u)
  PROVE  \E j \in Clients : Lifecycle!Finish(j)
<1> USE WhoIsWho
<1>1. /\ pc[w] = "child" /\ pc'[w] = "finish" /\ UNCHANGED buffer
      /\ Send(Job(w), "OUTPUT")
  BY DEF sendJobOutputToClient, Step, At, Goto, queueVars, TypeOK, PcType, Job
<1>2. Executing(w) /\ ~Executing(w)' /\ InHand(w)
  BY <1>1 DEF Executing, InHand, HandLabels
<1>3. Job(w) \in Clients
  BY <1>2 DEF DialogueInv, HandInv, Carries, Shared
<1>4. Job(w) \in RunningJobs /\ RunningJobs' = RunningJobs \ {Job(w)}
  BY <1>2, LetGo
<1>5. FinishedJobs' = FinishedJobs \cup {Job(w)}
  <2>1. "OUTPUT" \in Messages
    BY DEF Messages, JobMessages
  <2>2. \A c \in Clients :
          Said(sent'[c], "OUTPUT") <=> Said(sent[c], "OUTPUT") \/ c = Job(w)
    BY <1>1, <1>3, <2>1, SendReaches
  <2> QED BY <1>3, <2>2 DEF FinishedJobs
<1>6. PICK d \in Clients : d = Job(w)
  BY <1>3
<1>7. Lifecycle!Finish(d)
  BY <1>1, <1>4, <1>5, <1>6, Mapping DEF Lifecycle!Finish
<1> QED BY <1>7

(* A call of executeJob fails, and nobody hears of the job again.            *)
LEMMA FailureLoses ==
  ASSUME TypeOK, TypeOK', DialogueInv, ForkMayFail, NEW w \in Workers, Rests(w),
         Executing(w), ~Executing(w)',
         \A u \in Workers \ {w} : pc'[u] = pc[u] /\ Job(u)' = Job(u)
  PROVE  \E j \in Clients : Lifecycle!Lose(j)
<1>1. Job(w) \in Clients
  BY WhoIsWho DEF Executing, InHand, HandLabels, DialogueInv, HandInv, Carries, Shared
<1>2. Job(w) \in RunningJobs /\ RunningJobs' = RunningJobs \ {Job(w)}
  BY LetGo
<1>3. UNCHANGED buffer /\ FinishedJobs' = FinishedJobs
  BY DEF Rests, FinishedJobs
<1> QED BY <1>1, <1>2, <1>3, Mapping DEF Lifecycle!Lose

(* Every step of the server is a step of the abstract jobs, or none.         *)
LEMMA LifecycleSteps ==
  ASSUME Orderly, IsFiniteSet(Workers), TypeOK, TypeOK', Handoff,
         MutualExclusion, DialogueInv, QueueInv, HeadInv, [Next]_vars
  PROVE  [Lifecycle!Next]_Lifecycle!jobVars
<1> USE WhoIsWho
<1>0. UNCHANGED command
  BY StepKinds
<1>1. CASE MainNext \/ SpuriousWakeup \/ BufferRaceAborts \/ UNCHANGED vars
  <2>1. /\ UNCHANGED <<buffer, sent>>
        /\ \A w \in Workers : pc'[w] = pc[w] /\ Job(w)' = Job(w)
    BY <1>1, MainInserts
  <2>2. RunningJobs' = RunningJobs /\ FinishedJobs' = FinishedJobs
    BY <2>1, SameJobs DEF Executing, FinishedJobs
  <2> QED BY <2>1, <2>2, LifecycleStutters
<1>2. ASSUME NEW c \in Clients, ControllerNext(c)
      PROVE  [Lifecycle!Next]_Lifecycle!jobVars
  <2>1. CASE PushBack(c)
    BY <1>0, <2>1, PushSubmits DEF Lifecycle!Next
  <2>2. CASE UNCHANGED buffer
    <3>1. /\ \A w \in Workers : pc'[w] = pc[w] /\ Job(w)' = Job(w)
          /\ \A d \in Clients : Said(sent'[d], "OUTPUT") <=> Said(sent[d], "OUTPUT")
      BY <1>0, <1>2, ControllerInserts
    <3>2. RunningJobs' = RunningJobs /\ FinishedJobs' = FinishedJobs
      BY <3>1, SameJobs DEF Executing, FinishedJobs
    <3> QED BY <2>2, <3>2, LifecycleStutters
  <2> QED BY <1>0, <1>2, <2>1, <2>2, ControllerInserts
<1>3. ASSUME NEW w \in Workers, WorkerNext(w)
      PROVE  [Lifecycle!Next]_Lifecycle!jobVars
  <2>1. \A u \in Workers \ {w} : pc'[u] = pc[u] /\ Job(u)' = Job(u)
    BY <1>3, WorkerKinds
  <2>2. CASE CopyFront(w) /\ ~Abort
    <3>1. UNCHANGED <<buffer, sent>> /\ ~Executing(w) /\ ~Executing(w)'
      BY <2>2 DEF CopyFront, queueVars, At, Goto, Executing, TypeOK, PcType
    <3>2. RunningJobs' = RunningJobs /\ FinishedJobs' = FinishedJobs
      BY <2>1, <3>1, SameJobs DEF Executing, FinishedJobs
    <3> QED BY <3>1, <3>2, LifecycleStutters
  <2>3. CASE EraseFront(w) /\ ~Abort
    BY <2>3, EraseStarts DEF Lifecycle!Next
  <2>4. CASE sendJobOutputToClient(w)
    BY <2>1, <2>4, OutputFinishes DEF Lifecycle!Next
  <2>5. CASE Rests(w) /\ (Executing(w)' <=> Executing(w))
    <3>1. UNCHANGED <<buffer, sent>> /\ (Executing(w) => Job(w)' = Job(w))
      BY <2>5 DEF Rests
    <3>2. RunningJobs' = RunningJobs /\ FinishedJobs' = FinishedJobs
      BY <2>1, <2>5, <3>1, SameJobs DEF Executing, FinishedJobs
    <3> QED BY <3>1, <3>2, LifecycleStutters
  <2>6. CASE Rests(w) /\ ForkMayFail /\ Executing(w) /\ ~Executing(w)'
    BY <2>1, <2>6, FailureLoses DEF Lifecycle!Next
  <2> QED BY <1>3, <2>2, <2>3, <2>4, <2>5, <2>6, WorkerKinds
<1> QED BY <1>1, <1>2, <1>3 DEF Next

(* ImplementsLifecycle: while no client sends stop or exit, every job         *)
(* runs once at most, the jobs start in the order of insertion, no more than  *)
(* there are workers are in hand, and each output goes to the job's client,   *)
(* although the queue's size and its vector change in steps of their own      *)
(* (waitingBufferQueue.cpp:56-81, workerThread.cpp:62-67, 236-237).           *)
THEOREM ServerImplementsLifecycle ==
  ASSUME Orderly, IsFiniteSet(Workers)
  PROVE  Spec => ImplementsLifecycle
<1>1. Init => Lifecycle!Init /\ HeadInv
  <2> SUFFICES ASSUME Init PROVE Lifecycle!Init /\ HeadInv
    OBVIOUS
  <2>1. /\ buffer = << >> /\ \A w \in Workers : pc[w] = "idle"
        /\ \A c \in Clients : sent[c] = << >>
    BY WhoIsWho DEF Init
  <2>2. [i \in DOMAIN buffer |-> buffer[i].socketID] = << >>
    BY <2>1
  <2>3. {triplate[w].socketID : w \in {v \in Workers : Executing(v)}} = {}
    BY <2>1 DEF Executing
  <2>4. {c \in Clients : Count(c, "OUTPUT") > 0} = {}
    <3>1. \A c \in Clients : sent[c] \in Seq(Messages) /\ ~Said(sent[c], "OUTPUT")
      BY <2>1, SaidFirst, EmptySeq
    <3>2. \A c \in Clients : ~(Count(c, "OUTPUT") > 0)
      BY <3>1, SaidIsCounted DEF Count
    <3> QED BY <3>2
  <2> QED BY <2>1, <2>2, <2>3, <2>4 DEF Lifecycle!Init, HeadInv
<1>2. TypeOK /\ Handoff /\ MutualExclusion /\ DialogueInv /\ QueueInv /\ HeadInv
        /\ [Next]_vars => HeadInv'
  BY HeadStep
<1>3. TypeOK /\ TypeOK' /\ Handoff /\ MutualExclusion /\ DialogueInv /\ QueueInv
        /\ HeadInv /\ [Next]_vars => [Lifecycle!Next]_Lifecycle!jobVars
  BY LifecycleSteps
<1>4. Spec => []QueueInv
  BY QueueCorrect
<1> QED BY <1>1, <1>2, <1>3, <1>4, TypeAndHandoff, SectionsExclusive, DialogueCorrect,
           PTL DEF Spec, ImplementsLifecycle, Lifecycle!Spec
===============================================================================
