-------------------------- MODULE JobExecution_proofs --------------------------
(*****************************************************************************)
(* For every number of workers, processes, jobs and failing calls: the types *)
(* of JobExecution, that wait(NULL) always has a child to return, and that   *)
(* temp stays removed.  The argument for the last is an account: while no    *)
(* call has failed each process has as many children as threads that count   *)
(* on one, so when all workers are idle the server has no child, nor has any *)
(* process that could be left a parent to lead back to it.                   *)
(*                                                                           *)
(* For one worker thread: the outputs are whole and the files are deleted.   *)
(* The argument is that of a turn: wait(NULL) can only return the            *)
(* child forked last, so of all the threads of all the copies of the server  *)
(* one at most runs; each other one waits for its own child, is blocked in   *)
(* a read of its pipe for ever, or has ended.                                *)
(*****************************************************************************)
EXTENDS JobExecution, FiniteSetTheorems, TLAPS

(* Moving one thread to a label at which nothing more is asked of it keeps    *)
(* the part of TypeOK about the labels.                                      *)
LEMMA StepType ==
  ASSUME TypeOK, NEW t \in Threads, NEW here, NEW next \in Labels,
         Step(t, here, next), UNCHANGED <<running, child>>,
         next \in Executing => here \in Executing,
         next \in Parental => here \in Parental
  PROVE  /\ pc' \in [Threads -> Labels]
         /\ \A u \in Threads : pc'[u] \in Executing => running'[u] \in Jobs
         /\ \A u \in Threads : pc'[u] \in Parental => child'[u] \in Pids
BY DEF TypeOK, Step, At

(* The end of a process asks nothing more of its threads either.             *)
LEMMA TerminateType ==
  ASSUME TypeOK, NEW p \in Processes, Terminate(p), UNCHANGED <<running, child>>
  PROVE  /\ pc' \in [Threads -> Labels]
         /\ parent' \in [Pids -> Processes \cup {Nobody}]
         /\ \A u \in Threads : pc'[u] \in Executing => running'[u] \in Jobs
         /\ \A u \in Threads : pc'[u] \in Parental => child'[u] \in Pids
BY DEF TypeOK, Terminate, Orphaned, Labels, Executing, Parental

(* Appending keeps the type of a sequence.                                   *)
LEMMA AppendType ==
  ASSUME NEW S, NEW q \in Seq(S), NEW x \in S
  PROVE  Append(q, x) \in Seq(S)
OBVIOUS

(* A thread belongs to a process.                                            *)
LEMMA ProcessType ==
  ASSUME NEW t \in Threads
  PROVE  Process(t) \in Processes
BY DEF Process, Processes, Threads

(* The steps of the parent side keep the types.                              *)
LEMMA ThreadType ==
  ASSUME TypeOK, NEW t \in Threads, ThreadNext(t)
  PROVE  TypeOK'
<1>0. Process(t) \in Processes
  BY ProcessType
<1>1. CASE receiveJobFromBuffer(t)
  <2>1. /\ queue[Process(t)] \in Seq(Jobs)
        /\ queue[Process(t)] # << >>
    BY <1>0, <1>1 DEF TypeOK, receiveJobFromBuffer
  <2>2. /\ Head(queue[Process(t)]) \in Jobs
        /\ Tail(queue[Process(t)]) \in Seq(Jobs)
    BY <2>1
  <2>3. queue' \in [Processes -> Seq(Jobs)]
    BY <1>0, <1>1, <2>2 DEF TypeOK, receiveJobFromBuffer
  <2>4. running' \in [Threads -> Jobs \cup {Nobody}] /\ running'[t] \in Jobs
    BY <1>1, <2>2 DEF TypeOK, receiveJobFromBuffer
  <2>5. pc' = [pc EXCEPT ![t] = "fork"]
    BY <1>1 DEF receiveJobFromBuffer, Step
  <2>6. "fork" \in Labels /\ "fork" \notin Parental
    BY DEF Labels, Parental
  <2>7. \A u \in Threads : u # t => running'[u] = running[u]
    BY <1>1 DEF TypeOK, receiveJobFromBuffer
  <2> QED BY <1>1, <2>3, <2>4, <2>5, <2>6, <2>7 DEF TypeOK, receiveJobFromBuffer
<1>2. CASE ForkFails(t)
  <2>1. faults' \in 0 .. MaxFaults
    BY <1>2, ExecutionParameters DEF TypeOK, ForkFails, Fails
  <2> QED
    BY <1>2, <2>1, StepType DEF TypeOK, ForkFails, Labels, Executing, Parental
<1>3. CASE Fork(t)
  <2>1. PICK p \in Pids :
          /\ Unused(p)
          /\ pc' = [pc EXCEPT ![t] = "write", ![p] = "readPath"]
          /\ child' = [child EXCEPT ![t] = p, ![p] = Nobody]
          /\ parent' = [parent EXCEPT ![p] = Process(t)]
          /\ running' = [running EXCEPT ![p] = running[t]]
          /\ queue' = [queue EXCEPT ![p] = queue[Process(t)]]
    BY <1>3 DEF Fork
  <2>2. t # p /\ p \in Threads /\ p \in Processes
    BY <1>3, <2>1 DEF Fork, Unused, At, Threads, Processes
  <2>3. running[t] \in Jobs
    BY <1>3 DEF TypeOK, Fork, At, Executing
  <2>4. pc' \in [Threads -> Labels]
    BY <2>1, <2>2 DEF TypeOK, Labels
  <2>5. \A u \in Threads : pc'[u] \in Executing => running'[u] \in Jobs
    BY <2>1, <2>2, <2>3 DEF TypeOK
  <2>6. \A u \in Threads : pc'[u] \in Parental => child'[u] \in Pids
    BY <2>1, <2>2 DEF TypeOK, Parental
  <2>7. queue' \in [Processes -> Seq(Jobs)]
    BY <1>0, <2>1, <2>2 DEF TypeOK
  <2> QED
    BY <1>0, <1>3, <2>1, <2>2, <2>3, <2>4, <2>5, <2>6, <2>7 DEF TypeOK, Fork
<1>4. CASE sendDataToChildProcess(t)
  <2>1. faults' \in 0 .. MaxFaults
    BY <1>4, ExecutionParameters DEF TypeOK, sendDataToChildProcess, Fails, Works
  <2>2. path' \subseteq Pids
    BY <1>4 DEF TypeOK, sendDataToChildProcess, Step, At, Parental
  <2>3. PICK next \in {"wait", "done"} : Step(t, "write", next)
    BY <1>4 DEF sendDataToChildProcess
  <2>4. UNCHANGED <<issued, queue, running, child, parent, file, temp, sent>>
    BY <1>4 DEF sendDataToChildProcess
  <2>5. next \in Labels /\ "write" \in Executing /\ "write" \in Parental
    BY DEF Labels, Executing, Parental
  <2> QED BY <2>1, <2>2, <2>3, <2>4, <2>5, StepType DEF TypeOK
<1>5. CASE Wait(t)
  <2>1. At(t, "wait") /\ t \in Threads
    BY <1>5 DEF Wait, Step
  <2>2. UNCHANGED <<issued, queue, running, child, path, file, temp, sent, faults>>
    BY <1>5 DEF Wait
  <2>3. PICK s \in SUBSET Pids :
          /\ t \notin s
          /\ \A u \in Threads : pc'[u] = IF u = t THEN "read"
                                         ELSE IF u \in s THEN "free" ELSE pc[u]
          /\ pc' \in [Threads -> Labels]
          /\ parent' \in [Pids -> Processes \cup {Nobody}]
    <3>1. CASE \E q \in Children(Process(t)) :
                 /\ At(q, "zombie")
                 /\ pc' = [pc EXCEPT ![t] = "read", ![q] = "free"]
                 /\ parent' = [parent EXCEPT ![q] = Nobody]
      <4>1. PICK q \in Children(Process(t)) :
                 /\ At(q, "zombie")
                 /\ pc' = [pc EXCEPT ![t] = "read", ![q] = "free"]
                 /\ parent' = [parent EXCEPT ![q] = Nobody]
        BY <3>1
      <4>2. q \in Pids /\ q \in Threads /\ q # t
        BY <2>1, <4>1 DEF Children, At, Threads
      <4>3. {q} \in SUBSET Pids
        BY <4>2
      <4> USE <4>3
      <4> WITNESS {q} \in SUBSET Pids
      <4> QED BY <4>1, <4>2 DEF TypeOK, Labels
    <3>2. CASE Step(t, "wait", "read") /\ UNCHANGED parent
      <4>1. pc' = [pc EXCEPT ![t] = "read"]
        BY <3>2 DEF Step
      <4> WITNESS {} \in SUBSET Pids
      <4> QED BY <3>2, <4>1 DEF TypeOK, Labels
    <3> QED BY <1>5, <3>1, <3>2 DEF Wait
  <2>4. \A u \in Threads : pc'[u] \in Executing => running'[u] \in Jobs
    BY <2>1, <2>2, <2>3 DEF TypeOK, At, Executing, Parental
  <2>5. \A u \in Threads : pc'[u] \in Parental => child'[u] \in Pids
    BY <2>1, <2>2, <2>3 DEF TypeOK, At, Parental
  <2> QED BY <2>2, <2>3, <2>4, <2>5 DEF TypeOK
<1>6. CASE sendJobOutputToClient(t)
  <2>1. UNCHANGED <<issued, queue, running, child, path, file, temp, faults>>
    BY <1>6 DEF sendJobOutputToClient
  <2>2. At(t, "read")
    BY <1>6 DEF sendJobOutputToClient, Step
  <2>3. readFile(t) \in File
    BY <2>2 DEF TypeOK, readFile, At, Parental
  <2>4. sent' \in [Jobs -> Seq(File)]
    <3>1. \A j \in Jobs : Append(sent[j], readFile(t)) \in Seq(File)
      BY <2>3, AppendType DEF TypeOK
    <3>2. sent \in [Jobs -> Seq(File)]
      BY DEF TypeOK
    <3> QED BY <1>6, <3>1, <3>2 DEF sendJobOutputToClient
  <2>5. CASE Terminate(Process(t))
    BY <1>0, <2>1, <2>4, <2>5, TerminateType DEF TypeOK
  <2>6. CASE Step(t, "read", "unlink") /\ UNCHANGED parent
    <3>1. "unlink" \in Labels /\ "read" \in Executing /\ "read" \in Parental
      BY DEF Labels, Executing, Parental
    <3> QED BY <2>1, <2>4, <2>6, <3>1, StepType DEF TypeOK
  <2> QED BY <1>6, <2>5, <2>6 DEF sendJobOutputToClient
<1>7. CASE Unlink(t)
  <2>1. file' \in [Pids -> File]
    BY <1>7 DEF TypeOK, Unlink, File
  <2> QED
    BY <1>7, <2>1, StepType DEF TypeOK, Unlink, Labels, Executing, Parental
<1>8. CASE Done(t)
  <2>1. pc' = [pc EXCEPT ![t] = "idle"]
    BY <1>8 DEF Done, Step
  <2>2. "idle" \in Labels /\ "idle" \notin Executing /\ "idle" \notin Parental
    BY DEF Labels, Executing, Parental
  <2> QED BY <1>8, <2>1, <2>2 DEF TypeOK, Done
<1> QED BY <1>1, <1>2, <1>3, <1>4, <1>5, <1>6, <1>7, <1>8
        DEF ThreadNext, executeJob

(* The steps of the child side keep the types.                               *)
LEMMA ChildType ==
  ASSUME TypeOK, NEW p \in Pids, runChild(p)
  PROVE  TypeOK'
<1>0. p \in Threads /\ p \in Processes
  BY DEF Threads, Processes
<1>1. CASE receiveDataFromParentProcess(p)
  <2>1. /\ faults' \in 0 .. MaxFaults
        /\ path' \subseteq Pids
    BY <1>1, ExecutionParameters
       DEF TypeOK, receiveDataFromParentProcess, Fails, Works
  <2>2. UNCHANGED <<issued, queue, running, child, file, temp, sent>>
    BY <1>1 DEF receiveDataFromParentProcess
  <2>3. CASE Terminate(p)
    BY <1>0, <2>1, <2>2, <2>3, TerminateType DEF TypeOK
  <2>4. CASE Step(p, "readPath", "create") /\ UNCHANGED parent
    <3>1. /\ "create" \in Labels
          /\ "create" \notin Parental
          /\ "readPath" \in Executing
      BY DEF Labels, Executing, Parental
    <3> QED BY <1>0, <2>1, <2>2, <2>4, <3>1, StepType DEF TypeOK
  <2> QED BY <1>1, <2>3, <2>4 DEF receiveDataFromParentProcess
<1>2. CASE createOutputFile(p)
  <2>1. /\ UNCHANGED <<issued, queue, running, child, path, sent>>
        /\ running[p] \in Jobs
    BY <1>0, <1>2 DEF TypeOK, createOutputFile, At, Executing
  <2>2. faults' \in 0 .. MaxFaults /\ temp' \in BOOLEAN
    <3>1. Works \/ Fails
      BY <1>2 DEF createOutputFile
    <3>2. faults' \in 0 .. MaxFaults
      BY <3>1, ExecutionParameters DEF TypeOK, Fails, Works
    <3>3. temp' = temp \/ temp' = TRUE
      BY <1>2 DEF createOutputFile
    <3>4. temp' \in BOOLEAN
      BY <3>3, Zenon DEF TypeOK
    <3> QED BY <3>2, <3>4
  <2>5. file' \in [Pids -> File]
    <3>1. Output(running[p], FALSE) \in File
      BY <2>1 DEF Output, File
    <3> QED BY <1>2, <3>1 DEF TypeOK, createOutputFile
  <2>3. CASE Terminate(p)
    BY <1>0, <2>1, <2>2, <2>3, <2>5, TerminateType DEF TypeOK
  <2>4. CASE Step(p, "create", "exec") /\ UNCHANGED parent
    <3>1. "exec" \in Labels /\ "exec" \notin Parental /\ "create" \in Executing
      BY DEF Labels, Executing, Parental
    <3> QED BY <1>0, <2>1, <2>2, <2>4, <2>5, <3>1, StepType DEF TypeOK
  <2> QED BY <1>2, <2>3, <2>4 DEF createOutputFile
<1>3. CASE RunJob(p)
  <2>1. file' \in [Pids -> File]
    BY <1>3 DEF TypeOK, RunJob, File, Output
  <2> QED BY <1>0, <1>3, <2>1, TerminateType DEF TypeOK, RunJob
<1>4. CASE ExecFails(p)
  <2>1. PICK next \in {"done", "stuck"} : Step(p, "exec", next)
    BY <1>4 DEF ExecFails
  <2>2. next \in Labels /\ next \notin Executing /\ next \notin Parental
    BY DEF Labels, Executing, Parental
  <2> QED BY <1>0, <1>4, <2>1, <2>2, StepType DEF TypeOK, ExecFails
<1>5. CASE ReadEndOfPipe(p)
  BY <1>0, <1>5, TerminateType DEF TypeOK, ReadEndOfPipe
<1> QED BY <1>1, <1>2, <1>3, <1>4, <1>5 DEF runChild

(* The end of the server keeps the types.                                    *)
LEMMA RemovalType ==
  ASSUME TypeOK, removeTeporaryDirectory
  PROVE  TypeOK'
<1>1. /\ pc' \in [Threads -> Labels]
      /\ \A t \in Threads : pc'[t] \in Executing => pc[t] \in Executing
      /\ \A t \in Threads : pc'[t] \in Parental => pc[t] \in Parental
  BY DEF TypeOK, removeTeporaryDirectory, Labels, Executing, Parental
<1>2. parent' \in [Pids -> Processes \cup {Nobody}]
  BY DEF TypeOK, removeTeporaryDirectory, Orphaned
<1>3. file' \in [Pids -> File] /\ temp' \in BOOLEAN
  BY DEF removeTeporaryDirectory, File
<1> QED BY <1>1, <1>2, <1>3 DEF TypeOK, removeTeporaryDirectory

(* The variables of JobExecution keep their types.                           *)
THEOREM ExecutionTypeCorrect == Spec => []TypeOK
<1>1. Init => TypeOK
  BY ExecutionParameters
     DEF Init, TypeOK, Labels, Executing, Parental, File, Processes
<1>2. ASSUME TypeOK, [Next]_vars
      PROVE  TypeOK'
  <2>1. ASSUME NEW j \in Jobs, insertJobTriplate(j)
        PROVE  TypeOK'
    <3>1. queue[Server] \in Seq(Jobs)
      BY <1>2 DEF TypeOK, Processes
    <3>2. Append(queue[Server], j) \in Seq(Jobs)
      BY <3>1, AppendType
    <3>3. queue' \in [Processes -> Seq(Jobs)]
      BY <1>2, <2>1, <3>2 DEF insertJobTriplate, TypeOK
    <3> QED BY <1>2, <2>1, <3>3 DEF insertJobTriplate, TypeOK
  <2>2. CASE UNCHANGED vars
    BY <1>2, <2>2 DEF TypeOK, vars
  <2> QED BY <1>2, <2>1, <2>2, ThreadType, ChildType, RemovalType DEF Next
<1> QED BY <1>1, <1>2, PTL DEF Spec

-------------------------------------------------------------------------------

(* A finite set that loses elements, and one that does not, keep their order. *)
LEMMA FewerAwait ==
  ASSUME NEW A, NEW B \in SUBSET A, NEW C, IsFiniteSet(A),
         Cardinality(A) <= Cardinality(C), IsFiniteSet(C)
  PROVE  Cardinality(B) <= Cardinality(C)
BY FS_Subset, FS_CardinalityType

(* The threads and the children are finitely many.                           *)
LEMMA AllFinite ==
  ASSUME NEW p
  PROVE  IsFiniteSet(Awaiting(p)) /\ IsFiniteSet(Children(p))
<1>1. IsFiniteSet(Threads)
  BY FinitelyMany, FS_Union DEF Threads
<1>2. Awaiting(p) \in SUBSET Threads /\ Children(p) \in SUBSET Pids
  BY DEF Awaiting, Children
<1> QED BY <1>1, <1>2, FinitelyMany, FS_Subset

(* A thread that moves on, and does not begin to count on a child, disturbs   *)
(* nobody's.                                                                 *)
LEMMA StepAwaits ==
  ASSUME TypeOK, WaitHasChild, NEW t \in Threads, NEW here, NEW next,
         Step(t, here, next), UNCHANGED parent,
         next \in {"write", "wait"} => here \in {"write", "wait"}
  PROVE  WaitHasChild'
<1> SUFFICES ASSUME NEW p \in Processes
             PROVE  Cardinality(Awaiting(p)') <= Cardinality(Children(p)')
  BY DEF WaitHasChild
<1>1. Awaiting(p)' \in SUBSET Awaiting(p)
  BY DEF Awaiting, Step, At, TypeOK
<1>2. Children(p)' = Children(p)
  BY DEF Children
<1>3. Cardinality(Awaiting(p)) <= Cardinality(Children(p))
  BY DEF WaitHasChild
<1> QED BY <1>1, <1>2, <1>3, AllFinite, FewerAwait

(* Nor does the end of a process: its own thread counts on nothing any more.  *)
LEMMA TerminateAwaits ==
  ASSUME TypeOK, WaitHasChild, NEW q \in Processes, Terminate(q)
  PROVE  WaitHasChild'
<1> SUFFICES ASSUME NEW p \in Processes
             PROVE  Cardinality(Awaiting(p)') <= Cardinality(Children(p)')
  BY DEF WaitHasChild
<1>1. CASE p = q
  <2>1. Awaiting(p)' = {}
    BY <1>1 DEF Awaiting, Terminate
  <2>2. Children(p)' \in SUBSET Pids
    BY DEF Children
  <2>3. Cardinality(Children(p)') \in Nat
    BY <2>2, FinitelyMany, FS_Subset, FS_CardinalityType
  <2> QED BY <2>1, <2>3, FS_EmptySet
<1>2. CASE p # q
  <2>1. Awaiting(p)' = Awaiting(p)
    BY <1>2 DEF Awaiting, Terminate
  <2>2. Children(p)' = Children(p)
    BY <1>2, NamesDistinct DEF Children, Terminate, Orphaned, Processes, TypeOK
  <2> QED BY <2>1, <2>2 DEF WaitHasChild
<1> QED BY <1>1, <1>2

(* At the end of the server its workers wait for nobody.                     *)
LEMMA RemovalAwaits ==
  ASSUME TypeOK, WaitHasChild, removeTeporaryDirectory
  PROVE  WaitHasChild'
<1> SUFFICES ASSUME NEW p \in Processes
             PROVE  Cardinality(Awaiting(p)') <= Cardinality(Children(p)')
  BY DEF WaitHasChild
<1>1. CASE p = Server
  <2>1. Awaiting(p)' = {}
    BY <1>1, NamesDistinct DEF Awaiting, removeTeporaryDirectory, Process, Threads
  <2>2. Children(p)' \in SUBSET Pids
    BY DEF Children
  <2>3. Cardinality(Children(p)') \in Nat
    BY <2>2, FinitelyMany, FS_Subset, FS_CardinalityType
  <2> QED BY <2>1, <2>3, FS_EmptySet
<1>2. CASE p # Server
  <2>1. Awaiting(p)' = Awaiting(p)
    BY <1>2 DEF Awaiting, removeTeporaryDirectory, Process
  <2>2. Children(p)' = Children(p)
    BY <1>2, NamesDistinct
       DEF Children, removeTeporaryDirectory, Orphaned, Processes, TypeOK
  <2> QED BY <2>1, <2>2 DEF WaitHasChild
<1> QED BY <1>1, <1>2

(* fork() gives the process one more thread that counts on a child, and one   *)
(* more child.                                                               *)
LEMMA ForkAwaits ==
  ASSUME TypeOK, WaitHasChild, NEW t \in Threads, Fork(t)
  PROVE  WaitHasChild'
<1> SUFFICES ASSUME NEW p \in Processes
             PROVE  Cardinality(Awaiting(p)') <= Cardinality(Children(p)')
  BY DEF WaitHasChild
<1>1. PICK q \in Pids :
        /\ Unused(q)
        /\ pc' = [pc EXCEPT ![t] = "write", ![q] = "readPath"]
        /\ parent' = [parent EXCEPT ![q] = Process(t)]
  BY DEF Fork
<1>2. /\ pc[t] = "fork"
      /\ pc[q] \in {"free", "zombie"}
      /\ parent[q] = Nobody
      /\ q \in Threads
      /\ p # Nobody
  BY <1>1, NamesDistinct DEF Fork, At, Unused, Threads, Processes
<1>3. Cardinality(Awaiting(p)) <= Cardinality(Children(p))
  BY DEF WaitHasChild
<1>4. CASE p = Process(t)
  <2>1. t \notin Awaiting(p) /\ Awaiting(p)' = Awaiting(p) \cup {t}
    BY <1>1, <1>2, <1>4 DEF Awaiting, TypeOK
  <2>2. q \notin Children(p) /\ Children(p)' = Children(p) \cup {q}
    BY <1>1, <1>2, <1>4 DEF Children, TypeOK
  <2>3. /\ Cardinality(Awaiting(p)') = Cardinality(Awaiting(p)) + 1
        /\ Cardinality(Children(p)') = Cardinality(Children(p)) + 1
    BY <2>1, <2>2, AllFinite, FS_AddElement
  <2> QED BY <1>3, <2>3, AllFinite, FS_CardinalityType
<1>5. CASE p # Process(t)
  <2>1. Awaiting(p)' = Awaiting(p)
    BY <1>1, <1>2, <1>5 DEF Awaiting, TypeOK
  <2>2. Children(p)' = Children(p)
    BY <1>1, <1>2, <1>5 DEF Children, TypeOK
  <2> QED BY <1>3, <2>1, <2>2
<1> QED BY <1>4, <1>5

(* wait(NULL) takes one child, whoever's it was, and one thread that counted  *)
(* on one.                                                                   *)
LEMMA WaitAwaits ==
  ASSUME TypeOK, WaitHasChild, NEW t \in Threads, Wait(t)
  PROVE  WaitHasChild'
<1>1. CASE \E q \in Children(Process(t)) :
             /\ At(t, "wait") /\ At(q, "zombie")
             /\ pc' = [pc EXCEPT ![t] = "read", ![q] = "free"]
             /\ parent' = [parent EXCEPT ![q] = Nobody]
  <2> SUFFICES ASSUME NEW p \in Processes
               PROVE  Cardinality(Awaiting(p)') <= Cardinality(Children(p)')
    BY DEF WaitHasChild
  <2>1. PICK q \in Children(Process(t)) :
          /\ pc[t] = "wait" /\ pc[q] = "zombie"
          /\ pc' = [pc EXCEPT ![t] = "read", ![q] = "free"]
          /\ parent' = [parent EXCEPT ![q] = Nobody]
    BY <1>1 DEF At
  <2>2. q \in Pids /\ q \in Threads /\ parent[q] = Process(t) /\ p # Nobody
    BY <2>1, NamesDistinct DEF Children, Threads, Processes
  <2>3. Cardinality(Awaiting(p)) <= Cardinality(Children(p))
    BY DEF WaitHasChild
  <2>4. CASE p = Process(t)
    <3>1. t \in Awaiting(p) /\ Awaiting(p)' = Awaiting(p) \ {t}
      BY <2>1, <2>2, <2>4 DEF Awaiting, TypeOK
    <3>2. q \in Children(p) /\ Children(p)' = Children(p) \ {q}
      BY <2>1, <2>2, <2>4 DEF Children, TypeOK
    <3>3. /\ Cardinality(Awaiting(p)') = Cardinality(Awaiting(p)) - 1
          /\ Cardinality(Children(p)') = Cardinality(Children(p)) - 1
      BY <3>1, <3>2, AllFinite, FS_RemoveElement
    <3> QED BY <2>3, <3>3, AllFinite, FS_CardinalityType
  <2>5. CASE p # Process(t)
    <3>1. Awaiting(p)' = Awaiting(p)
      BY <2>1, <2>2, <2>5 DEF Awaiting, TypeOK
    <3>2. Children(p)' = Children(p)
      BY <2>1, <2>2, <2>5 DEF Children, TypeOK
    <3> QED BY <2>3, <3>1, <3>2
  <2> QED BY <2>4, <2>5
<1>2. CASE Step(t, "wait", "read") /\ UNCHANGED parent
  BY <1>2, StepAwaits
<1> QED BY <1>1, <1>2 DEF Wait

(* WaitHasChild: however many workers, processes and faults there are, the    *)
(* threads of a process that count on a child never outnumber its children.  *)
THEOREM WaitFindsChild == Spec => []WaitHasChild
<1>1. Init => WaitHasChild
  <2> SUFFICES ASSUME Init, NEW p \in Processes
               PROVE  Cardinality(Awaiting(p)) <= Cardinality(Children(p))
    BY DEF WaitHasChild
  <2>1. Awaiting(p) = {}
    BY DEF Init, Awaiting
  <2> QED BY <2>1, AllFinite, FS_EmptySet, FS_CardinalityType
<1>2. ASSUME TypeOK, WaitHasChild, [Next]_vars
      PROVE  WaitHasChild'
  <2>1. ASSUME UNCHANGED <<pc, parent>>
        PROVE  WaitHasChild'
    BY <1>2, <2>1 DEF WaitHasChild, Awaiting, Children
  <2>2. ASSUME NEW t \in Threads, ThreadNext(t)
        PROVE  WaitHasChild'
    <3>1. Process(t) \in Processes
      BY ProcessType
    <3>2. CASE receiveJobFromBuffer(t)
      BY <1>2, <3>2, StepAwaits DEF receiveJobFromBuffer
    <3>3. CASE ForkFails(t)
      BY <1>2, <3>3, StepAwaits DEF ForkFails
    <3>4. CASE Fork(t)
      BY <1>2, <3>4, ForkAwaits
    <3>5. CASE sendDataToChildProcess(t)
      BY <1>2, <3>5, StepAwaits DEF sendDataToChildProcess
    <3>6. CASE Wait(t)
      BY <1>2, <3>6, WaitAwaits
    <3>7. CASE sendJobOutputToClient(t)
      BY <1>2, <3>1, <3>7, StepAwaits, TerminateAwaits DEF sendJobOutputToClient
    <3>8. CASE Unlink(t)
      BY <1>2, <3>8, StepAwaits DEF Unlink
    <3>9. CASE Done(t)
      BY <1>2, <3>9, StepAwaits DEF Done
    <3> QED BY <2>2, <3>2, <3>3, <3>4, <3>5, <3>6, <3>7, <3>8, <3>9
            DEF ThreadNext, executeJob
  <2>3. ASSUME NEW p \in Pids, runChild(p)
        PROVE  WaitHasChild'
    <3>1. p \in Threads /\ p \in Processes
      BY DEF Threads, Processes
    <3>2. CASE receiveDataFromParentProcess(p)
      BY <1>2, <3>1, <3>2, StepAwaits, TerminateAwaits
         DEF receiveDataFromParentProcess
    <3>3. CASE createOutputFile(p)
      BY <1>2, <3>1, <3>3, StepAwaits, TerminateAwaits DEF createOutputFile
    <3>4. CASE RunJob(p)
      BY <1>2, <3>1, <3>4, TerminateAwaits DEF RunJob
    <3>5. CASE ExecFails(p)
      BY <1>2, <3>1, <3>5, StepAwaits DEF ExecFails
    <3>6. CASE ReadEndOfPipe(p)
      BY <1>2, <3>1, <3>6, TerminateAwaits DEF ReadEndOfPipe
    <3> QED BY <2>3, <3>2, <3>3, <3>4, <3>5, <3>6 DEF runChild
  <2>4. ASSUME NEW j \in Jobs, insertJobTriplate(j)
        PROVE  WaitHasChild'
    BY <2>1, <2>4 DEF insertJobTriplate
  <2>5. CASE UNCHANGED vars
    BY <2>1, <2>5 DEF vars
  <2> QED BY <1>2, <2>2, <2>3, <2>4, <2>5, RemovalAwaits DEF Next
<1> QED BY <1>1, <1>2, ExecutionTypeCorrect, PTL DEF Spec

-------------------------------------------------------------------------------
(* With one worker thread wait(NULL) returns the worker's own child, and each *)
(* output is read from the right file when it is whole.                      *)

(* One worker thread: the server and each copy of it have one thread.        *)
OneWorker == \E w : Workers = {w}

(* A child that its parent has not sent the path yet, or will never send it.  *)
Blocked(p) == pc[p] = "readPath" /\ p \notin path

(* The thread whose turn it is: the one that runs, or the end of the process  *)
(* another waits for.                                                        *)
ActiveLabels == {"idle", "fork", "write", "read", "unlink", "done", "create", "exec",
                 "stuck"}

HasTurn(t) ==
  \/ pc[t] \in ActiveLabels
  \/ pc[t] = "readPath" /\ t \in path
  \/ t \in Pids /\ pc[t] = "zombie" /\ parent[t] # Nobody

WaitsFor(t, p) == pc[t] = "wait" /\ child[t] = p

(* One thread has the turn at most, and a child that is not blocked is the    *)
(* one its parent waits for.                                                 *)
TurnInv ==
  /\ \A t, u \in Threads : HasTurn(t) /\ HasTurn(u) => t = u
  /\ \A t \in Threads : pc[t] = "exited" => \A u \in Threads : ~HasTurn(u)
  /\ \A p \in path : pc[p] = "readPath"
  /\ \A p \in Pids : pc[p] = "free" => parent[p] = Nobody
  /\ \A p \in Pids : parent[p] = Nobody => pc[p] \in {"free", "zombie"} \/ Blocked(p)
  /\ \A t \in Threads :
       /\ pc[t] \in {"write", "wait"} => parent[child[t]] = Process(t)
       /\ pc[t] = "write" => Blocked(child[t])
       /\ pc[t] = "wait" => ~Blocked(child[t])
  /\ \A p \in Pids :
       parent[p] # Nobody /\ ~Blocked(p)
         => \E t \in Threads : Process(t) = parent[p] /\ WaitsFor(t, p)

(* The files of the processes that have one.                                 *)
FileInv ==
  /\ \A p \in Pids : file[p] # Nobody =>
       \/ parent[p] # Nobody /\ pc[p] \notin {"free", "readPath", "create"}
       \/ \E t \in Threads : child[t] = p /\ pc[t] \in {"read", "unlink"}
  /\ \A t \in Threads : pc[t] \in {"read", "unlink"} => parent[child[t]] = Nobody

(* The output of the job that t runs, in the file of the child p.            *)
Progress(t, p) ==
  \/ pc[p] \in {"readPath", "create"} /\ running[p] = running[t]
  \/ /\ pc[p] = "exec" /\ running[p] = running[t]
     /\ file[p] \in {Nobody, Output(running[t], FALSE)}
  \/ /\ pc[p] = "zombie"
     /\ file[p] \in {Nobody, Output(running[t], TRUE)}

OutputOf(t) ==
  running[t] \notin NoExecutable =>
    /\ pc[t] \in {"write", "wait"} => Progress(t, child[t])
    /\ pc[t] \in {"read", "unlink"} =>
         file[child[t]] \in {Nobody, Output(running[t], TRUE)}

OutputInv == \A t \in Threads : OutputOf(t)

ExecutionInv == TurnInv /\ FileInv /\ OutputInv

-------------------------------------------------------------------------------
(* Who has the turn                                                          *)

(* Each process has one thread.                                              *)
LEMMA OneThreadEach ==
  ASSUME OneWorker
  PROVE  /\ \A t, u \in Threads : Process(t) = Process(u) => t = u
         /\ \A t \in Threads : Process(t) # Nobody
         /\ \A p \in Pids : p \in Threads /\ Process(p) = p /\ p # Server
         /\ \A t \in Workers : t \in Threads /\ Process(t) = Server
         /\ \A t \in Threads : t \in Workers \/ t \in Pids
         /\ Server # Nobody
BY NamesDistinct DEF OneWorker, Process, Threads

(* The thread that has the turn keeps it as long as it runs.                 *)
LEMMA TurnMoves ==
  ASSUME OneWorker, TypeOK, TurnInv, NEW t \in Threads, HasTurn(t),
         NEW next \in ActiveLabels \ {"write"}, pc' = [pc EXCEPT ![t] = next],
         path' = path \ {t}, UNCHANGED parent,
         \A u \in Threads \ {t} : child'[u] = child[u]
  PROVE  TurnInv'
<1> USE OneThreadEach DEF TypeOK, ActiveLabels
<1>1. /\ pc'[t] = next /\ \A u \in Threads \ {t} : pc'[u] = pc[u]
      /\ pc[t] \notin {"wait", "exited", "free"} /\ ~(t \in Pids /\ Blocked(t))
  BY DEF HasTurn, TurnInv, Blocked
<1>2. \A u \in Threads \ {t} : HasTurn(u)' <=> HasTurn(u)
  BY <1>1 DEF HasTurn
<1>3. \A p \in Pids : Blocked(p)' <=> Blocked(p)
  BY <1>1 DEF Blocked
<1>4. \A u \in Threads, p \in Pids : WaitsFor(u, p)' <=> WaitsFor(u, p)
  BY <1>1 DEF WaitsFor
<1>5. \A u, v \in Threads : HasTurn(u)' /\ HasTurn(v)' => u = v
  BY <1>2 DEF TurnInv
<1>6. \A u \in Threads : pc'[u] = "exited" => \A v \in Threads : ~HasTurn(v)'
  BY <1>1, <1>2 DEF TurnInv
<1>7. \A p \in path' : pc'[p] = "readPath"
  BY <1>1 DEF TurnInv
<1>8. /\ \A p \in Pids : pc'[p] = "free" => parent'[p] = Nobody
      /\ \A p \in Pids :
           parent'[p] = Nobody => pc'[p] \in {"free", "zombie"} \/ Blocked(p)'
  <2>1. t \in Pids => parent[t] # Nobody
    BY <1>1 DEF TurnInv, HasTurn
  <2> QED BY <1>1, <1>3, <2>1 DEF TurnInv
<1>9. \A u \in Threads :
        /\ pc'[u] \in {"write", "wait"} => parent'[child'[u]] = Process(u)
        /\ pc'[u] = "write" => Blocked(child[u])'
        /\ pc'[u] = "wait" => ~Blocked(child[u])'
  <2> TAKE u \in Threads
  <2>1. CASE u = t
    BY <1>1, <2>1
  <2>2. CASE u # t
    <3>1. PICK q : q = child[u]
      OBVIOUS
    <3>2. pc[u] \in {"write", "wait"} => q \in Pids
      BY <3>1 DEF Parental
    <3> QED BY <1>1, <1>3, <2>2, <3>1, <3>2 DEF TurnInv
  <2> QED BY <2>1, <2>2
<1>10. \A p \in Pids :
         parent'[p] # Nobody /\ ~Blocked(p)'
           => \E u \in Threads : Process(u) = parent'[p] /\ WaitsFor(u, p)'
  BY <1>3, <1>4 DEF TurnInv
<1> QED BY <1>5, <1>6, <1>7, <1>8, <1>9, <1>10 DEF TurnInv

(* fork() leaves the turn with the parent: the child waits for its path.     *)
LEMMA TurnForks ==
  ASSUME OneWorker, TypeOK, TurnInv, NEW t \in Threads, Fork(t)
  PROVE  TurnInv'
<1> USE OneThreadEach DEF TypeOK, ActiveLabels
<1>1. PICK q \in Pids :
        /\ pc[t] = "fork" /\ Unused(q)
        /\ pc' = [pc EXCEPT ![t] = "write", ![q] = "readPath"]
        /\ child' = [child EXCEPT ![t] = q, ![q] = Nobody]
        /\ parent' = [parent EXCEPT ![q] = Process(t)]
        /\ UNCHANGED path
  BY DEF Fork, At
<1>2. /\ HasTurn(t) /\ q # t /\ q \in Threads /\ q \notin path
      /\ parent[q] = Nobody /\ pc[q] \in {"free", "zombie"}
  BY <1>1 DEF HasTurn, Unused, TurnInv
<1>3. /\ pc'[t] = "write" /\ pc'[q] = "readPath" /\ child'[t] = q
      /\ parent'[q] = Process(t)
      /\ \A u \in Threads \ {t, q} : pc'[u] = pc[u] /\ child'[u] = child[u]
      /\ \A p \in Pids \ {q} : parent'[p] = parent[p]
  BY <1>1, <1>2 DEF Process, Processes
<1>4. Blocked(q)' /\ \A p \in Pids \ {q} : Blocked(p)' <=> Blocked(p)
  BY <1>1, <1>2, <1>3 DEF Blocked
<1>5. ~HasTurn(q)' /\ \A u \in Threads \ {t, q} : HasTurn(u)' <=> HasTurn(u)
  BY <1>1, <1>2, <1>3 DEF HasTurn
<1>6. \A u, v \in Threads : HasTurn(u)' /\ HasTurn(v)' => u = v
  BY <1>2, <1>5 DEF TurnInv
<1>7. \A u \in Threads : pc'[u] # "exited"
  BY <1>2, <1>3 DEF TurnInv
<1>8. \A p \in path' : pc'[p] = "readPath"
  BY <1>1, <1>2, <1>3 DEF TurnInv
<1>9. /\ \A p \in Pids : pc'[p] = "free" => parent'[p] = Nobody
      /\ \A p \in Pids :
           parent'[p] = Nobody => pc'[p] \in {"free", "zombie"} \/ Blocked(p)'
  <2>1. t \in Pids => parent[t] # Nobody
    BY <1>1 DEF TurnInv, Blocked
  <2> QED BY <1>3, <1>4, <2>1 DEF TurnInv
<1>10. \A u \in Threads :
        /\ pc'[u] \in {"write", "wait"} => parent'[child'[u]] = Process(u)
        /\ pc'[u] = "write" => Blocked(child[u])'
        /\ pc'[u] = "wait" => ~Blocked(child[u])'
  <2> TAKE u \in Threads
  <2>1. CASE u \in {t, q}
    BY <1>2, <1>3, <1>4, <2>1
  <2>2. CASE u \notin {t, q}
    <3>1. PICK x : x = child[u]
      OBVIOUS
    <3>2. pc[u] \in {"write", "wait"} => x \in Pids /\ parent[x] = Process(u)
      BY <3>1 DEF Parental, TurnInv
    <3>3. pc[u] \in {"write", "wait"} => x # q
      BY <1>2, <3>2
    <3> QED BY <1>3, <1>4, <2>2, <3>1, <3>2, <3>3 DEF TurnInv
  <2> QED BY <2>1, <2>2
<1>11. \A p \in Pids :
         parent'[p] # Nobody /\ ~Blocked(p)'
           => \E u \in Threads : Process(u) = parent'[p] /\ WaitsFor(u, p)'
  <2> SUFFICES ASSUME NEW p \in Pids, parent'[p] # Nobody, ~Blocked(p)'
               PROVE  \E u \in Threads : Process(u) = parent'[p] /\ WaitsFor(u, p)'
    OBVIOUS
  <2>1. p # q /\ parent[p] # Nobody /\ ~Blocked(p) /\ parent'[p] = parent[p]
    BY <1>3, <1>4
  <2>2. PICK u \in Threads : Process(u) = parent[p] /\ pc[u] = "wait" /\ child[u] = p
    BY <2>1 DEF TurnInv, WaitsFor
  <2>3. u \notin {t, q}
    BY <1>1, <1>2, <2>2
  <2> QED BY <1>3, <2>1, <2>2, <2>3 DEF WaitsFor
<1> QED BY <1>6, <1>7, <1>8, <1>9, <1>10, <1>11 DEF TurnInv

(* The path passes the turn to the child.                                    *)
LEMMA TurnPasses ==
  ASSUME OneWorker, TypeOK, TurnInv, NEW t \in Threads, Step(t, "write", "wait"),
         path' = path \cup {child[t]}, UNCHANGED <<child, parent>>
  PROVE  TurnInv'
<1> USE OneThreadEach DEF TypeOK, ActiveLabels
<1>1. PICK q \in Pids : q = child[t]
  BY DEF Step, At, Parental
<1>2. /\ pc[t] = "write" /\ pc[q] = "readPath" /\ q \notin path
      /\ parent[q] = Process(t) /\ q # t /\ q \in Threads /\ HasTurn(t)
  BY <1>1 DEF Step, At, TurnInv, Blocked, HasTurn
<1>3. /\ pc'[t] = "wait" /\ \A u \in Threads \ {t} : pc'[u] = pc[u]
      /\ path' = path \cup {q}
  BY <1>1 DEF Step, At
<1>4. ~Blocked(q)' /\ \A p \in Pids \ {q} : Blocked(p)' <=> Blocked(p)
  BY <1>2, <1>3 DEF Blocked
<1>5. ~HasTurn(t)' /\ \A u \in Threads \ {t, q} : HasTurn(u)' <=> HasTurn(u)
  BY <1>2, <1>3 DEF HasTurn
<1>6. \A u, v \in Threads : HasTurn(u)' /\ HasTurn(v)' => u = v
  BY <1>2, <1>5 DEF TurnInv
<1>7. \A u \in Threads : pc'[u] # "exited"
  BY <1>2, <1>3 DEF TurnInv
<1>8. \A p \in path' : pc'[p] = "readPath"
  BY <1>2, <1>3 DEF TurnInv
<1>9. /\ \A p \in Pids : pc'[p] = "free" => parent'[p] = Nobody
      /\ \A p \in Pids :
           parent'[p] = Nobody => pc'[p] \in {"free", "zombie"} \/ Blocked(p)'
  <2>1. t \in Pids => parent[t] # Nobody
    BY <1>2 DEF TurnInv, Blocked
  <2> QED BY <1>2, <1>3, <1>4, <2>1 DEF TurnInv
<1>10. \A u \in Threads :
        /\ pc'[u] \in {"write", "wait"} => parent'[child'[u]] = Process(u)
        /\ pc'[u] = "write" => Blocked(child[u])'
        /\ pc'[u] = "wait" => ~Blocked(child[u])'
  <2> TAKE u \in Threads
  <2>1. CASE u = t
    BY <1>1, <1>2, <1>3, <1>4, <2>1
  <2>2. CASE u # t
    <3>1. PICK x : x = child[u]
      OBVIOUS
    <3>2. pc[u] \in {"write", "wait"} => x \in Pids /\ parent[x] = Process(u)
      BY <3>1 DEF Parental, TurnInv
    <3>3. pc[u] \in {"write", "wait"} => x # q
      BY <1>2, <2>2, <3>2
    <3> QED BY <1>3, <1>4, <2>2, <3>1, <3>2, <3>3 DEF TurnInv
  <2> QED BY <2>1, <2>2
<1>11. \A p \in Pids :
         parent'[p] # Nobody /\ ~Blocked(p)'
           => \E u \in Threads : Process(u) = parent'[p] /\ WaitsFor(u, p)'
  <2> TAKE p \in Pids
  <2>1. CASE p = q
    BY <1>1, <1>2, <1>3, <2>1 DEF WaitsFor
  <2>2. CASE p # q
    <3>1. \A u \in Threads : WaitsFor(u, p) => WaitsFor(u, p)'
      BY <1>2, <1>3 DEF WaitsFor
    <3> QED BY <1>4, <2>2, <3>1 DEF TurnInv
  <2> QED BY <2>1, <2>2
<1> QED BY <1>6, <1>7, <1>8, <1>9, <1>10, <1>11 DEF TurnInv

(* wait(NULL) has one child to return, the one that was forked last.         *)
LEMMA WaitsForOwn ==
  ASSUME OneWorker, TypeOK, TurnInv, NEW t \in Threads, Wait(t)
  PROVE  \E q \in Pids :
           /\ q = child[t] /\ pc[q] = "zombie" /\ pc[t] = "wait"
           /\ parent[q] = Process(t)
           /\ pc' = [pc EXCEPT ![t] = "read", ![q] = "free"]
           /\ parent' = [parent EXCEPT ![q] = Nobody]
<1> USE OneThreadEach
<1>1. pc[t] = "wait" /\ child[t] \in Pids /\ parent[child[t]] = Process(t)
  <2>1. pc[t] = "wait"
    BY DEF Wait, Step, At
  <2> QED BY <2>1 DEF TurnInv, TypeOK, Parental
<1>2. PICK q \in Children(Process(t)) :
        /\ pc[q] = "zombie"
        /\ pc' = [pc EXCEPT ![t] = "read", ![q] = "free"]
        /\ parent' = [parent EXCEPT ![q] = Nobody]
  BY <1>1 DEF Wait, Children, At
<1>3. q \in Pids /\ parent[q] = Process(t)
  BY <1>2 DEF Children
<1>4. ~Blocked(q) /\ parent[q] # Nobody
  BY <1>2, <1>3 DEF Blocked
<1>5. PICK u \in Threads : Process(u) = parent[q] /\ child[u] = q
  BY <1>3, <1>4 DEF TurnInv, WaitsFor
<1>6. q = child[t]
  BY <1>3, <1>5
<1> QED BY <1>1, <1>2, <1>3, <1>6

(* The end of the child gives the turn back.                                 *)
LEMMA TurnReturns ==
  ASSUME OneWorker, TypeOK, TurnInv, NEW t \in Threads, Wait(t)
  PROVE  TurnInv'
<1> USE OneThreadEach DEF TypeOK, ActiveLabels
<1>1. PICK q \in Pids :
        /\ q = child[t] /\ pc[q] = "zombie" /\ pc[t] = "wait"
        /\ parent[q] = Process(t)
        /\ pc' = [pc EXCEPT ![t] = "read", ![q] = "free"]
        /\ parent' = [parent EXCEPT ![q] = Nobody]
  BY WaitsForOwn
<1>2. HasTurn(q) /\ q # t /\ q \in Threads /\ q \notin path /\ t \notin path
  BY <1>1 DEF HasTurn, TurnInv
<1>3. /\ pc'[t] = "read" /\ pc'[q] = "free" /\ parent'[q] = Nobody
      /\ \A u \in Threads \ {t, q} : pc'[u] = pc[u]
      /\ \A p \in Pids \ {q} : parent'[p] = parent[p]
      /\ UNCHANGED <<child, path>>
  BY <1>1, <1>2 DEF Wait
<1>4. \A p \in Pids : Blocked(p)' <=> Blocked(p)
  BY <1>1, <1>3 DEF Blocked
<1>5. ~HasTurn(q)' /\ \A u \in Threads \ {t, q} : HasTurn(u)' <=> HasTurn(u)
  BY <1>1, <1>2, <1>3 DEF HasTurn
<1>6. \A u, v \in Threads : HasTurn(u)' /\ HasTurn(v)' => u = v
  BY <1>2, <1>5 DEF TurnInv
<1>7. \A u \in Threads : pc'[u] # "exited"
  BY <1>2, <1>3 DEF TurnInv
<1>8. \A p \in path' : pc'[p] = "readPath"
  BY <1>2, <1>3 DEF TurnInv
<1>9. /\ \A p \in Pids : pc'[p] = "free" => parent'[p] = Nobody
      /\ \A p \in Pids :
           parent'[p] = Nobody => pc'[p] \in {"free", "zombie"} \/ Blocked(p)'
  <2>1. t \in Pids => parent[t] # Nobody
    BY <1>1 DEF TurnInv, Blocked
  <2> QED BY <1>2, <1>3, <1>4, <2>1 DEF TurnInv
<1>10. \A u \in Threads :
        /\ pc'[u] \in {"write", "wait"} => parent'[child'[u]] = Process(u)
        /\ pc'[u] = "write" => Blocked(child[u])'
        /\ pc'[u] = "wait" => ~Blocked(child[u])'
  <2> TAKE u \in Threads
  <2>1. CASE u \in {t, q}
    BY <1>3, <2>1
  <2>2. CASE u \notin {t, q}
    <3>1. PICK x : x = child[u]
      OBVIOUS
    <3>2. pc[u] \in {"write", "wait"} => x \in Pids /\ parent[x] = Process(u)
      BY <3>1 DEF Parental, TurnInv
    <3>3. pc[u] \in {"write", "wait"} => x # q
      BY <1>1, <2>2, <3>2
    <3> QED BY <1>3, <1>4, <2>2, <3>1, <3>2, <3>3 DEF TurnInv
  <2> QED BY <2>1, <2>2
<1>11. \A p \in Pids :
         parent'[p] # Nobody /\ ~Blocked(p)'
           => \E u \in Threads : Process(u) = parent'[p] /\ WaitsFor(u, p)'
  <2> SUFFICES ASSUME NEW p \in Pids, parent'[p] # Nobody, ~Blocked(p)'
               PROVE  \E u \in Threads : Process(u) = parent'[p] /\ WaitsFor(u, p)'
    OBVIOUS
  <2>1. p # q /\ parent[p] # Nobody /\ ~Blocked(p) /\ parent'[p] = parent[p]
    BY <1>3, <1>4
  <2>2. PICK u \in Threads : Process(u) = parent[p] /\ pc[u] = "wait" /\ child[u] = p
    BY <2>1 DEF TurnInv, WaitsFor
  <2>3. u \notin {t, q}
    BY <1>1, <2>1, <2>2
  <2> QED BY <1>3, <2>1, <2>2, <2>3 DEF WaitsFor
<1> QED BY <1>6, <1>7, <1>8, <1>9, <1>10, <1>11 DEF TurnInv

(* The children of a process that neither writes a path nor waits.           *)
LEMMA OrphansBlocked ==
  ASSUME OneWorker, TypeOK, TurnInv, NEW t \in Threads, pc[t] # "wait",
         HasTurn(t) \/ (t \in Pids /\ Blocked(t) /\ parent[t] = Nobody)
  PROVE  \A p \in Pids : parent[p] = Process(t) => p # t /\ Blocked(p)
<1> USE OneThreadEach
<1> SUFFICES ASSUME NEW p \in Pids, parent[p] = Process(t)
             PROVE  p # t /\ Blocked(p)
  OBVIOUS
<1>1. ASSUME ~Blocked(p) PROVE FALSE
  <2>1. PICK u \in Threads : Process(u) = parent[p] /\ pc[u] = "wait"
    BY <1>1 DEF TurnInv, WaitsFor
  <2> QED BY <2>1
<1>2. ASSUME Blocked(p), p = t PROVE FALSE
  <2>1. HasTurn(t)
    BY <1>2
  <2> QED BY <1>2, <2>1 DEF HasTurn, Blocked, ActiveLabels
<1> QED BY <1>1, <1>2

(* A process that neither writes the path nor waits ends.  Its children, if   *)
(* it has any, are blocked ones.  The turn is then its parent's to take.      *)
LEMMA TurnEnds ==
  ASSUME OneWorker, TypeOK, TurnInv, NEW t \in Threads,
         pc[t] \notin {"write", "zombie"},
         HasTurn(t) \/ (t \in Pids /\ Blocked(t) /\ parent[t] = Nobody),
         Terminate(Process(t)), path' = path \ {t}, UNCHANGED child
  PROVE  TurnInv'
<1> USE OneThreadEach DEF TypeOK, ActiveLabels
<1>0. pc[t] \notin {"wait", "exited", "dead", "free"}
  BY DEF HasTurn, Blocked
<1>1. /\ pc'[t] = IF t \in Workers THEN "dead" ELSE "zombie"
      /\ \A u \in Threads \ {t} : pc'[u] = pc[u]
      /\ \A p \in Pids : parent'[p] = IF parent[p] = Process(t) THEN Nobody
                                      ELSE parent[p]
  BY DEF Terminate, Orphaned
<1>2. \A p \in Pids : parent[p] = Process(t) => p # t /\ Blocked(p)
  BY <1>0, OrphansBlocked
<1>3. /\ \A p \in Pids : parent'[p] # Nobody => parent'[p] = parent[p]
      /\ \A p \in Pids : parent'[p] = Nobody => parent[p] = Nobody \/ Blocked(p)
      /\ \A p \in Pids : ~Blocked(p) => parent'[p] = parent[p]
      /\ t \in Pids => parent'[t] = parent[t]
  BY <1>1, <1>2
<1>4. \A p \in Pids \ {t} : Blocked(p)' <=> Blocked(p)
  BY <1>1 DEF Blocked
<1>5. \A u \in Threads \ {t} : HasTurn(u)' => HasTurn(u)
  BY <1>1, <1>3 DEF HasTurn
<1>6. HasTurn(t)' => HasTurn(t)
  BY <1>1, <1>3, NamesDistinct DEF HasTurn
<1>7. \A u, v \in Threads : HasTurn(u)' /\ HasTurn(v)' => u = v
  BY <1>5, <1>6 DEF TurnInv
<1>8. \A u \in Threads : pc'[u] = "exited" => \A v \in Threads : ~HasTurn(v)'
  BY <1>1, <1>5, <1>6 DEF TurnInv
<1>9. \A p \in path' : pc'[p] = "readPath"
  BY <1>1 DEF TurnInv
<1>10. /\ \A p \in Pids : pc'[p] = "free" => parent'[p] = Nobody
       /\ \A p \in Pids :
            parent'[p] = Nobody => pc'[p] \in {"free", "zombie"} \/ Blocked(p)'
  <2>1. t \in Pids => pc'[t] = "zombie"
    BY <1>1, NamesDistinct
  <2> QED BY <1>1, <1>3, <1>4, <2>1 DEF TurnInv
<1>11. \A u \in Threads :
        /\ pc'[u] \in {"write", "wait"} => parent'[child'[u]] = Process(u)
        /\ pc'[u] = "write" => Blocked(child[u])'
        /\ pc'[u] = "wait" => ~Blocked(child[u])'
  <2> SUFFICES ASSUME NEW u \in Threads, pc'[u] \in {"write", "wait"}
               PROVE  /\ parent'[child'[u]] = Process(u)
                      /\ pc'[u] = "write" => Blocked(child[u])'
                      /\ pc'[u] = "wait" => ~Blocked(child[u])'
    OBVIOUS
  <2>1. u # t /\ pc'[u] = pc[u]
    BY <1>1
  <2>2. PICK x \in Pids : x = child[u] /\ parent[x] = Process(u)
    BY <2>1 DEF Parental, TurnInv
  <2>3. parent'[x] = Process(u)
    BY <1>1, <2>1, <2>2
  <2>4. x # t \/ ~Blocked(x)
    BY <2>2 DEF HasTurn, Blocked
  <2>5. Blocked(x)' => Blocked(x)
    BY <1>1, <1>4 DEF Blocked
  <2>6. Blocked(x) => Blocked(x)'
    BY <1>4, <2>4
  <2> QED BY <2>1, <2>2, <2>3, <2>5, <2>6 DEF TurnInv
<1>12. \A p \in Pids :
         parent'[p] # Nobody /\ ~Blocked(p)'
           => \E u \in Threads : Process(u) = parent'[p] /\ WaitsFor(u, p)'
  <2> SUFFICES ASSUME NEW p \in Pids, parent'[p] # Nobody, ~Blocked(p)'
               PROVE  \E u \in Threads : Process(u) = parent'[p] /\ WaitsFor(u, p)'
    OBVIOUS
  <2>1. parent'[p] = parent[p] /\ ~Blocked(p)
    BY <1>3, <1>4 DEF HasTurn, Blocked
  <2>2. PICK u \in Threads : Process(u) = parent[p] /\ pc[u] = "wait" /\ child[u] = p
    BY <2>1 DEF TurnInv, WaitsFor
  <2> QED BY <1>0, <1>1, <2>1, <2>2 DEF WaitsFor
<1> QED BY <1>7, <1>8, <1>9, <1>10, <1>11, <1>12 DEF TurnInv

(* The end of the server takes the turn away for good.                       *)
LEMMA TurnStops ==
  ASSUME OneWorker, TypeOK, TurnInv, removeTeporaryDirectory
  PROVE  /\ TurnInv'
         /\ \A t \in Threads : ~HasTurn(t)'
<1> USE OneThreadEach DEF TypeOK, ActiveLabels
<1>1. PICK w \in Workers : Workers = {w} /\ w \in Threads /\ pc[w] = "idle"
  BY DEF OneWorker, removeTeporaryDirectory, At
<1>2. /\ pc'[w] = "exited" /\ \A u \in Threads \ {w} : pc'[u] = pc[u]
      /\ \A p \in Pids : parent'[p] = IF parent[p] = Server THEN Nobody ELSE parent[p]
      /\ UNCHANGED <<child, path>>
  BY <1>1 DEF removeTeporaryDirectory, Orphaned
<1>3. \A p \in Pids : parent[p] = Server => Blocked(p)
  <2> SUFFICES ASSUME NEW p \in Pids, parent[p] = Server, ~Blocked(p)
               PROVE  FALSE
    OBVIOUS
  <2>1. PICK u \in Threads : Process(u) = Server /\ pc[u] = "wait"
    BY DEF TurnInv, WaitsFor
  <2> QED BY <1>1, <2>1
<1>4. \A p \in Pids : p # w /\ (Blocked(p)' <=> Blocked(p))
  BY <1>1, <1>2, NamesDistinct DEF Blocked
<1>5. HasTurn(w) /\ \A u \in Threads \ {w} : ~HasTurn(u)
  BY <1>1 DEF HasTurn, TurnInv
<1>6. \A u \in Threads : ~HasTurn(u)'
  BY <1>1, <1>2, <1>4, <1>5 DEF HasTurn
<1>7. \A p \in path' : pc'[p] = "readPath"
  BY <1>1, <1>2 DEF TurnInv
<1>8. /\ \A p \in Pids : pc'[p] = "free" => parent'[p] = Nobody
      /\ \A p \in Pids :
           parent'[p] = Nobody => pc'[p] \in {"free", "zombie"} \/ Blocked(p)'
  BY <1>2, <1>3, <1>4 DEF TurnInv
<1>9. \A u \in Threads :
        /\ pc'[u] \in {"write", "wait"} => parent'[child'[u]] = Process(u)
        /\ pc'[u] = "write" => Blocked(child[u])'
        /\ pc'[u] = "wait" => ~Blocked(child[u])'
  <2> SUFFICES ASSUME NEW u \in Threads, pc'[u] \in {"write", "wait"}
               PROVE  /\ parent'[child'[u]] = Process(u)
                      /\ pc'[u] = "write" => Blocked(child[u])'
                      /\ pc'[u] = "wait" => ~Blocked(child[u])'
    OBVIOUS
  <2>1. u # w /\ pc'[u] = pc[u]
    BY <1>2
  <2>2. PICK x \in Pids : x = child[u] /\ parent[x] = Process(u)
    BY <2>1 DEF Parental, TurnInv
  <2>3. parent'[x] = Process(u)
    BY <1>1, <1>2, <2>1, <2>2
  <2> QED BY <1>2, <1>4, <2>1, <2>2, <2>3 DEF TurnInv
<1>10. \A p \in Pids :
         parent'[p] # Nobody /\ ~Blocked(p)'
           => \E u \in Threads : Process(u) = parent'[p] /\ WaitsFor(u, p)'
  <2> SUFFICES ASSUME NEW p \in Pids, parent'[p] # Nobody, ~Blocked(p)'
               PROVE  \E u \in Threads : Process(u) = parent'[p] /\ WaitsFor(u, p)'
    OBVIOUS
  <2>1. parent'[p] = parent[p] /\ ~Blocked(p)
    BY <1>2, <1>4
  <2>2. PICK u \in Threads : Process(u) = parent[p] /\ pc[u] = "wait" /\ child[u] = p
    BY <2>1 DEF TurnInv, WaitsFor
  <2> QED BY <1>1, <1>2, <2>1, <2>2 DEF WaitsFor
<1> QED BY <1>6, <1>7, <1>8, <1>9, <1>10 DEF TurnInv

(* A step of a child that keeps its turn, or ends.                           *)
LEMMA TurnOfChild ==
  ASSUME OneWorker, TypeOK, TurnInv, NEW p \in Pids, runChild(p)
  PROVE  TurnInv'
<1> USE OneThreadEach
<1>1. CASE receiveDataFromParentProcess(p) \/ createOutputFile(p) \/ RunJob(p)
           \/ ExecFails(p)
  <2>1. /\ HasTurn(p) /\ pc[p] \in {"readPath", "create", "exec"}
        /\ path' = path \ {p} /\ UNCHANGED child
    <3>1. pc[p] \in {"create", "exec"} => p \notin path
      BY DEF TurnInv
    <3> QED BY <1>1, <3>1
            DEF receiveDataFromParentProcess, createOutputFile, RunJob, ExecFails,
                Step, At, HasTurn, ActiveLabels
  <2>2. \/ Terminate(p)
        \/ /\ UNCHANGED parent
           /\ \E next \in {"create", "exec", "done", "stuck"} :
                pc' = [pc EXCEPT ![p] = next]
    BY <1>1 DEF receiveDataFromParentProcess, createOutputFile, RunJob, ExecFails, Step
  <2> QED BY <2>1, <2>2, TurnMoves, TurnEnds DEF ActiveLabels
<1>2. CASE ReadEndOfPipe(p)
  <2>1. path' = path \ {p} /\ Blocked(p)
    BY <1>2 DEF ReadEndOfPipe, Blocked, At
  <2> QED BY <1>2, <2>1, TurnEnds DEF ReadEndOfPipe, Blocked
<1> QED BY <1>1, <1>2 DEF runChild

(* A step of a thread's parent side.                                         *)
LEMMA TurnOfThread ==
  ASSUME OneWorker, TypeOK, TurnInv, NEW t \in Threads, ThreadNext(t)
  PROVE  TurnInv'
<1> USE OneThreadEach
<1>0. pc[t] # "readPath" => path = path \ {t}
  BY DEF TurnInv
<1>1. CASE receiveJobFromBuffer(t) \/ ForkFails(t) \/ Unlink(t) \/ Done(t)
  <2>1. /\ pc[t] \in {"idle", "fork", "unlink", "done"} /\ UNCHANGED <<parent, path>>
        /\ \E next \in {"fork", "done", "idle"} : pc' = [pc EXCEPT ![t] = next]
        /\ \A u \in Threads \ {t} : child'[u] = child[u]
    BY <1>1 DEF receiveJobFromBuffer, ForkFails, Unlink, Done, Step, At, TypeOK
  <2> QED BY <1>0, <2>1, TurnMoves DEF HasTurn, ActiveLabels
<1>2. CASE sendDataToChildProcess(t)
  <2>1. CASE Step(t, "write", "wait") /\ path' = path \cup {child[t]}
    BY <1>2, <2>1, TurnPasses DEF sendDataToChildProcess
  <2>2. CASE Step(t, "write", "done") /\ UNCHANGED path
    BY <1>0, <1>2, <2>2, TurnMoves
       DEF sendDataToChildProcess, Step, At, HasTurn, ActiveLabels
  <2> QED BY <1>2, <2>1, <2>2 DEF sendDataToChildProcess
<1>3. CASE sendJobOutputToClient(t)
  <2>1. CASE Step(t, "read", "unlink") /\ UNCHANGED parent
    BY <1>0, <1>3, <2>1, TurnMoves
       DEF sendJobOutputToClient, Step, At, HasTurn, ActiveLabels
  <2>2. CASE At(t, "read") /\ Terminate(Process(t))
    BY <1>0, <1>3, <2>2, TurnEnds DEF sendJobOutputToClient, At, HasTurn, ActiveLabels
  <2> QED BY <1>3, <2>1, <2>2 DEF sendJobOutputToClient
<1> QED BY <1>1, <1>2, <1>3, TurnForks, TurnReturns DEF ThreadNext, executeJob

(* A step that the turn does not depend on.                                  *)
LEMMA TurnKept ==
  ASSUME TurnInv, UNCHANGED <<pc, path, parent, child>>
  PROVE  TurnInv'
BY DEF TurnInv, HasTurn, Blocked, WaitsFor

(* Every step passes the turn on, keeps it or ends it.                       *)
LEMMA TurnStep ==
  ASSUME OneWorker, TypeOK, TurnInv, [Next]_vars
  PROVE  TurnInv'
BY TurnOfChild, TurnOfThread, TurnStops, TurnKept DEF Next, vars, insertJobTriplate

-------------------------------------------------------------------------------
(* The files                                                                 *)

(* A child has no file before it creates it: not even one that an earlier    *)
(* child of the same pid has left.                                           *)
LEMMA NoFileYet ==
  ASSUME OneWorker, TypeOK, TurnInv, FileInv, NEW p \in Pids, NEW t \in Threads,
         HasTurn(t), pc[t] \notin {"read", "unlink"},
         \/ parent[p] = Nobody
         \/ pc[p] \in {"free", "readPath", "create"}
  PROVE  file[p] = Nobody
<1>1. \A u \in Threads : pc[u] \in {"read", "unlink"} => HasTurn(u)
  BY DEF HasTurn, ActiveLabels
<1>2. \A u \in Threads : pc[u] \notin {"read", "unlink"}
  BY <1>1 DEF TurnInv
<1> QED BY <1>2 DEF FileInv

(* A step that changes no file, and no process of which one is known.        *)
LEMMA FilesMove ==
  ASSUME OneWorker, TypeOK, FileInv, NEW t \in Threads, NEW next,
         pc[t] \notin {"read", "unlink"},
         next \notin {"free", "readPath", "create", "read", "unlink"},
         pc' = [pc EXCEPT ![t] = next], UNCHANGED <<parent, file>>,
         \A u \in Threads \ {t} : child'[u] = child[u]
  PROVE  FileInv'
<1> USE OneThreadEach DEF TypeOK
<1>1. pc'[t] = next /\ \A u \in Threads \ {t} : pc'[u] = pc[u]
  OBVIOUS
<1>2. \A p \in Pids : file'[p] # Nobody =>
        \/ parent'[p] # Nobody /\ pc'[p] \notin {"free", "readPath", "create"}
        \/ \E u \in Threads : child'[u] = p /\ pc'[u] \in {"read", "unlink"}
  BY <1>1 DEF FileInv
<1>3. \A u \in Threads : pc'[u] \in {"read", "unlink"} => parent'[child'[u]] = Nobody
  BY <1>1 DEF FileInv
<1> QED BY <1>2, <1>3 DEF FileInv

(* A process that ends has read and deleted its child's file, if there was    *)
(* one.                                                                      *)
LEMMA FilesEnd ==
  ASSUME OneWorker, TypeOK, TurnInv, FileInv, NEW t \in Threads,
         pc[t] \notin {"write", "zombie", "unlink"},
         HasTurn(t) \/ (t \in Pids /\ Blocked(t) /\ parent[t] = Nobody),
         pc[t] = "read" => file[child[t]] = Nobody,
         Terminate(Process(t)), UNCHANGED child,
         \A p \in Pids \ {t} : file'[p] = file[p],
         t \in Pids /\ file[t] = Nobody => file'[t] = Nobody
  PROVE  FileInv'
<1> USE OneThreadEach DEF TypeOK
<1>0. pc[t] # "wait"
  BY DEF HasTurn, Blocked, ActiveLabels
<1>1. /\ pc'[t] = IF t \in Workers THEN "dead" ELSE "zombie"
      /\ \A u \in Threads \ {t} : pc'[u] = pc[u]
      /\ \A p \in Pids : parent'[p] = IF parent[p] = Process(t) THEN Nobody
                                      ELSE parent[p]
  BY DEF Terminate, Orphaned
<1>2. \A p \in Pids : parent[p] = Process(t) => p # t /\ pc[p] = "readPath"
  BY <1>0, OrphansBlocked DEF Blocked
<1>3. ASSUME NEW p \in Pids, file'[p] # Nobody
      PROVE  \/ parent'[p] # Nobody /\ pc'[p] \notin {"free", "readPath", "create"}
             \/ \E u \in Threads : child'[u] = p /\ pc'[u] \in {"read", "unlink"}
  <2>1. file[p] # Nobody
    BY <1>3
  <2>2. CASE parent[p] # Nobody /\ pc[p] \notin {"free", "readPath", "create"}
    BY <1>1, <1>2, <2>2
  <2>3. ASSUME NEW u \in Threads, child[u] = p, pc[u] \in {"read", "unlink"}
        PROVE  child'[u] = p /\ pc'[u] \in {"read", "unlink"}
    BY <1>1, <2>1, <2>3
  <2> QED BY <2>1, <2>2, <2>3 DEF FileInv
<1>4. \A u \in Threads : pc'[u] \in {"read", "unlink"} => parent'[child'[u]] = Nobody
  BY <1>1, NamesDistinct DEF FileInv, Parental
<1> QED BY <1>3, <1>4 DEF FileInv

(* A child's steps keep the files' owners.                                   *)
LEMMA FilesOfChild ==
  ASSUME OneWorker, TypeOK, TurnInv, FileInv, NEW p \in Pids, runChild(p)
  PROVE  FileInv'
<1> USE OneThreadEach
<1>0. /\ pc[p] = "readPath" /\ p \in path => HasTurn(p)
      /\ pc[p] \in {"create", "exec"} => HasTurn(p)
  BY DEF HasTurn, ActiveLabels
<1>1. CASE receiveDataFromParentProcess(p)
  <2>1. pc[p] = "readPath" /\ HasTurn(p) /\ UNCHANGED <<file, child>>
    BY <1>0, <1>1 DEF receiveDataFromParentProcess, At
  <2>2. CASE Terminate(p)
    BY <2>1, <2>2, FilesEnd
  <2>3. CASE pc' = [pc EXCEPT ![p] = "create"] /\ UNCHANGED parent
    <3>1. file[p] = Nobody
      BY <2>1, NoFileYet
    <3>2. pc'[p] = "create" /\ \A u \in Threads \ {p} : pc'[u] = pc[u]
      BY <2>3 DEF TypeOK
    <3>3. \A x \in Pids : file'[x] # Nobody =>
            \/ parent'[x] # Nobody /\ pc'[x] \notin {"free", "readPath", "create"}
            \/ \E u \in Threads : child'[u] = x /\ pc'[u] \in {"read", "unlink"}
      BY <2>1, <2>3, <3>1, <3>2 DEF FileInv
    <3>4. \A u \in Threads :
            pc'[u] \in {"read", "unlink"} => parent'[child'[u]] = Nobody
      BY <2>1, <2>3, <3>2 DEF FileInv
    <3> QED BY <3>3, <3>4 DEF FileInv
  <2> QED BY <1>1, <2>2, <2>3 DEF receiveDataFromParentProcess, Step
<1>2. CASE createOutputFile(p)
  <2>1. pc[p] = "create" /\ HasTurn(p) /\ UNCHANGED child
    BY <1>0, <1>2 DEF createOutputFile, At
  <2>2. CASE Terminate(p) /\ UNCHANGED file
    BY <2>1, <2>2, FilesEnd
  <2>3. CASE /\ pc' = [pc EXCEPT ![p] = "exec"] /\ UNCHANGED parent
             /\ file' = [file EXCEPT ![p] = Output(running[p], FALSE)]
    <3>1. parent[p] # Nobody
      BY <2>1 DEF TurnInv, Blocked
    <3>2. pc'[p] = "exec" /\ \A u \in Threads \ {p} : pc'[u] = pc[u]
      BY <2>3 DEF TypeOK
    <3>3. \A x \in Pids \ {p} : file'[x] = file[x]
      BY <2>3 DEF TypeOK
    <3>4. \A x \in Pids : file'[x] # Nobody =>
            \/ parent'[x] # Nobody /\ pc'[x] \notin {"free", "readPath", "create"}
            \/ \E u \in Threads : child'[u] = x /\ pc'[u] \in {"read", "unlink"}
      BY <2>1, <2>3, <3>1, <3>2, <3>3 DEF FileInv
    <3>5. \A u \in Threads :
            pc'[u] \in {"read", "unlink"} => parent'[child'[u]] = Nobody
      BY <2>1, <2>3, <3>2 DEF FileInv
    <3> QED BY <3>4, <3>5 DEF FileInv
  <2> QED BY <1>2, <2>2, <2>3 DEF createOutputFile, Step
<1>3. CASE RunJob(p)
  <2>1. pc[p] = "exec" /\ HasTurn(p) /\ UNCHANGED child /\ Terminate(p)
    BY <1>0, <1>3 DEF RunJob, At
  <2>2. /\ \A x \in Pids \ {p} : file'[x] = file[x]
        /\ file[p] = Nobody => file'[p] = Nobody
    BY <1>3 DEF RunJob, TypeOK
  <2> QED BY <2>1, <2>2, FilesEnd
<1>4. CASE ExecFails(p)
  <2>1. PICK next \in {"done", "stuck"} : pc' = [pc EXCEPT ![p] = next]
    BY <1>4 DEF ExecFails, Step
  <2>2. pc[p] = "exec" /\ UNCHANGED <<parent, file, child>>
    BY <1>4 DEF ExecFails, Step, At
  <2> QED BY <2>1, <2>2, FilesMove
<1>5. CASE ReadEndOfPipe(p)
  BY <1>5, FilesEnd DEF ReadEndOfPipe, Blocked, At
<1> QED BY <1>1, <1>2, <1>3, <1>4, <1>5 DEF runChild

(* So do those of the parent side.                                           *)
LEMMA FilesOfThread ==
  ASSUME OneWorker, TypeOK, TurnInv, FileInv, NEW t \in Threads, ThreadNext(t)
  PROVE  FileInv'
<1> USE OneThreadEach
<1>0. \A u \in Threads :
        HasTurn(u) /\ pc[u] \notin {"read", "unlink"}
          => \A v \in Threads : pc[v] \notin {"read", "unlink"}
  BY DEF HasTurn, ActiveLabels, TurnInv
<1>1. CASE receiveJobFromBuffer(t) \/ ForkFails(t) \/ sendDataToChildProcess(t)
           \/ Done(t)
  <2>1. PICK next \in {"fork", "done", "wait", "idle"} : Step(t, pc[t], next)
    BY <1>1 DEF receiveJobFromBuffer, ForkFails, sendDataToChildProcess, Done, Step, At
  <2>2. /\ pc[t] \in {"idle", "fork", "write", "done"} /\ UNCHANGED <<parent, file>>
        /\ \A u \in Threads \ {t} : child'[u] = child[u]
    BY <1>1 DEF receiveJobFromBuffer, ForkFails, sendDataToChildProcess, Done, Step,
                At, TypeOK
  <2> QED BY <2>1, <2>2, FilesMove DEF Step
<1>2. CASE Fork(t)
  <2>1. PICK q \in Pids :
          /\ pc[t] = "fork" /\ Unused(q)
          /\ pc' = [pc EXCEPT ![t] = "write", ![q] = "readPath"]
          /\ child' = [child EXCEPT ![t] = q, ![q] = Nobody]
          /\ parent' = [parent EXCEPT ![q] = Process(t)]
          /\ UNCHANGED file
    BY <1>2 DEF Fork, At
  <2>2. HasTurn(t) /\ q # t /\ q \in Threads /\ parent[q] = Nobody
    BY <2>1 DEF HasTurn, ActiveLabels, Unused
  <2>3. file[q] = Nobody /\ \A v \in Threads : pc[v] \notin {"read", "unlink"}
    BY <1>0, <2>1, <2>2, NoFileYet
  <2>4. /\ pc'[t] = "write" /\ pc'[q] = "readPath"
        /\ \A u \in Threads \ {t, q} : pc'[u] = pc[u]
        /\ \A p \in Pids \ {q} : parent'[p] = parent[p]
    BY <2>1, <2>2 DEF TypeOK
  <2> QED BY <2>1, <2>3, <2>4 DEF FileInv
<1>3. CASE Wait(t)
  <2>1. PICK q \in Pids :
          /\ q = child[t] /\ pc[q] = "zombie" /\ pc[t] = "wait"
          /\ parent[q] = Process(t)
          /\ pc' = [pc EXCEPT ![t] = "read", ![q] = "free"]
          /\ parent' = [parent EXCEPT ![q] = Nobody]
    BY <1>3, WaitsForOwn
  <2>2. HasTurn(q) /\ q # t /\ q \in Threads
    BY <2>1 DEF HasTurn
  <2>3. \A v \in Threads : pc[v] \notin {"read", "unlink"}
    BY <1>0, <2>1, <2>2
  <2>4. /\ pc'[t] = "read" /\ pc'[q] = "free" /\ parent'[q] = Nobody
        /\ \A u \in Threads \ {t, q} : pc'[u] = pc[u]
        /\ \A p \in Pids \ {q} : parent'[p] = parent[p]
        /\ UNCHANGED <<child, file>>
    BY <1>3, <2>1, <2>2 DEF Wait, TypeOK
  <2>5. ASSUME NEW p \in Pids, file'[p] # Nobody
        PROVE  \/ /\ parent'[p] # Nobody
                  /\ pc'[p] \notin {"free", "readPath", "create"}
               \/ \E u \in Threads : child'[u] = p /\ pc'[u] \in {"read", "unlink"}
    <3>1. CASE p = q
      BY <2>1, <2>4, <3>1
    <3>2. CASE p # q
      BY <2>3, <2>4, <2>5, <3>2 DEF FileInv
    <3> QED BY <3>1, <3>2
  <2>6. \A u \in Threads :
          pc'[u] \in {"read", "unlink"} => parent'[child'[u]] = Nobody
    BY <2>1, <2>3, <2>4
  <2> QED BY <2>5, <2>6 DEF FileInv
<1>4. CASE sendJobOutputToClient(t)
  <2>1. pc[t] = "read" /\ HasTurn(t) /\ UNCHANGED <<file, child>>
    BY <1>4 DEF sendJobOutputToClient, Step, At, HasTurn, ActiveLabels
  <2>2. CASE readFile(t) = Nobody /\ Terminate(Process(t))
    BY <2>1, <2>2, FilesEnd DEF readFile
  <2>3. CASE pc' = [pc EXCEPT ![t] = "unlink"] /\ UNCHANGED parent
    <3>1. pc'[t] = "unlink" /\ \A u \in Threads \ {t} : pc'[u] = pc[u]
      BY <2>3 DEF TypeOK
    <3>2. \A p \in Pids : file'[p] # Nobody =>
            \/ parent'[p] # Nobody /\ pc'[p] \notin {"free", "readPath", "create"}
            \/ \E u \in Threads : child'[u] = p /\ pc'[u] \in {"read", "unlink"}
      BY <2>1, <2>3, <3>1 DEF FileInv
    <3>3. \A u \in Threads :
            pc'[u] \in {"read", "unlink"} => parent'[child'[u]] = Nobody
      BY <2>1, <2>3, <3>1 DEF FileInv
    <3> QED BY <3>2, <3>3 DEF FileInv
  <2> QED BY <1>4, <2>2, <2>3 DEF sendJobOutputToClient, Step
<1>5. CASE Unlink(t)
  <2>1. PICK q \in Pids : q = child[t]
    BY <1>5 DEF Unlink, Step, At, TypeOK, Parental
  <2>2. /\ pc[t] = "unlink" /\ pc'[t] = "done" /\ UNCHANGED <<child, parent>>
        /\ \A u \in Threads \ {t} : pc'[u] = pc[u]
        /\ file'[q] = Nobody /\ \A p \in Pids \ {q} : file'[p] = file[p]
    BY <1>5, <2>1 DEF Unlink, Step, At, TypeOK
  <2>3. \A u \in Threads \ {t} : pc[u] \notin {"read", "unlink"}
    BY <2>2 DEF HasTurn, ActiveLabels, TurnInv
  <2> QED BY <2>1, <2>2, <2>3 DEF FileInv
<1> QED BY <1>1, <1>2, <1>3, <1>4, <1>5 DEF ThreadNext, executeJob

(* Every step keeps the files' owners.                                       *)
LEMMA FileStep ==
  ASSUME OneWorker, TypeOK, TurnInv, FileInv, [Next]_vars
  PROVE  FileInv'
<1>1. CASE removeTeporaryDirectory
  <2>1. \A u \in Threads : pc'[u] \notin {"read", "unlink"}
    BY <1>1, TurnStops DEF HasTurn, ActiveLabels
  <2>2. \A p \in Pids : file'[p] = Nobody
    BY <1>1 DEF removeTeporaryDirectory
  <2> QED BY <2>1, <2>2 DEF FileInv
<1>2. CASE UNCHANGED <<pc, parent, child, file>>
  BY <1>2 DEF FileInv
<1> QED BY <1>1, <1>2, FilesOfChild, FilesOfThread DEF Next, vars, insertJobTriplate

-------------------------------------------------------------------------------
(* The outputs                                                               *)

(* A thread whose child does nothing that concerns it.                       *)
LEMMA OutputKept ==
  ASSUME TypeOK, NEW u \in Threads, OutputOf(u),
         pc'[u] = pc[u], running'[u] = running[u], child'[u] = child[u],
         \A q \in Pids : q = child[u] =>
           /\ pc[u] \in Parental /\ running[u] \notin NoExecutable => file'[q] = file[q]
           /\ pc[u] \in {"write", "wait"} /\ running[u] \notin NoExecutable =>
                pc'[q] = pc[q] /\ running'[q] = running[q]
  PROVE  OutputOf(u)'
<1> SUFFICES ASSUME running[u] \notin NoExecutable, pc[u] \in Parental
             PROVE  OutputOf(u)'
  BY DEF OutputOf, Parental
<1>1. PICK q \in Pids : q = child[u]
  BY DEF TypeOK
<1>2. file'[q] = file[q]
  BY <1>1
<1>3. CASE pc[u] \in {"write", "wait"}
  <2>1. pc'[q] = pc[q] /\ running'[q] = running[q] /\ Progress(u, q)
    BY <1>1, <1>3 DEF OutputOf
  <2>2. Progress(u, q)'
    BY <1>2, <2>1 DEF Progress
  <2> QED BY <1>1, <1>3, <2>2 DEF OutputOf
<1>4. CASE pc[u] \in {"read", "unlink"}
  BY <1>1, <1>2, <1>4 DEF OutputOf
<1> QED BY <1>3, <1>4 DEF Parental

(* What a child does is what its parent waits for.                           *)
LEMMA OutputOfChild ==
  ASSUME OneWorker, TypeOK, TurnInv, FileInv, OutputInv, NEW p \in Pids, runChild(p)
  PROVE  OutputInv'
<1> USE OneThreadEach
<1> SUFFICES ASSUME NEW u \in Threads PROVE OutputOf(u)'
  BY DEF OutputInv
<1>0. OutputOf(u) /\ running' = running /\ child' = child
  BY DEF OutputInv, runChild, receiveDataFromParentProcess, ReadEndOfPipe,
         createOutputFile, RunJob, ExecFails
<1>1. /\ pc[p] \in {"readPath", "create", "exec"}
      /\ \A v \in Threads \ {p} : pc'[v] = pc[v]
      /\ \A x \in Pids \ {p} : file'[x] = file[x]
      /\ pc'[p] \in {"create", "exec", "done", "stuck", "zombie"}
  <2>1. Terminate(p) => /\ \A v \in Threads \ {p} : pc'[v] = pc[v]
                        /\ pc'[p] = "zombie"
    BY DEF Terminate
  <2>2. ASSUME NEW next \in {"create", "exec", "done", "stuck"},
               pc' = [pc EXCEPT ![p] = next]
        PROVE  (\A v \in Threads \ {p} : pc'[v] = pc[v]) /\ pc'[p] = next
    BY <2>2 DEF TypeOK
  <2>3. \/ Terminate(p)
        \/ \E next \in {"create", "exec", "done", "stuck"} :
             pc' = [pc EXCEPT ![p] = next]
    BY DEF runChild, receiveDataFromParentProcess, ReadEndOfPipe, createOutputFile,
           RunJob, ExecFails, Step
  <2>4. pc[p] \in {"readPath", "create", "exec"}
    BY DEF runChild, receiveDataFromParentProcess, ReadEndOfPipe, createOutputFile,
           RunJob, ExecFails, Step, At
  <2>5. \A x \in Pids \ {p} : file'[x] = file[x]
    BY DEF runChild, receiveDataFromParentProcess, ReadEndOfPipe, createOutputFile,
           RunJob, ExecFails, TypeOK
  <2> QED BY <2>1, <2>2, <2>3, <2>4, <2>5
<1>2. CASE u = p
  BY <1>1, <1>2 DEF OutputOf
<1>3. CASE u # p /\ child[u] # p
  BY <1>0, <1>1, <1>3, OutputKept
<1>4. CASE u # p /\ child[u] = p /\ pc[u] \in {"write", "wait"}
           /\ running[u] \notin NoExecutable
  <2>1. parent[p] # Nobody /\ ~ReadEndOfPipe(p)
    BY <1>4 DEF TurnInv, ReadEndOfPipe
  <2>2. Progress(u, p) /\ pc'[u] = pc[u]
    BY <1>0, <1>1, <1>4 DEF OutputOf
  <2>3. pc[u] = "wait"
    <3>1. ~Blocked(p)
      BY <2>1 DEF runChild, receiveDataFromParentProcess, createOutputFile, RunJob,
                  ExecFails, Step, At, Blocked
    <3> QED BY <1>4, <3>1 DEF TurnInv
  <2>4. /\ pc[p] = "readPath" /\ p \in path => HasTurn(p)
        /\ pc[p] \in {"create", "exec"} => HasTurn(p)
    BY DEF HasTurn, ActiveLabels
  <2>5. CASE receiveDataFromParentProcess(p)
    <3>1. pc[p] = "readPath" /\ HasTurn(p) /\ file' = file
      BY <2>4, <2>5 DEF receiveDataFromParentProcess, At
    <3>2. file[p] = Nobody /\ running[p] = running[u]
      BY <2>2, <3>1, NoFileYet DEF Progress
    <3>3. pc'[p] \in {"create", "zombie"}
      BY <2>5 DEF receiveDataFromParentProcess, Step, Terminate, TypeOK
    <3>4. Progress(u, p)'
      BY <1>0, <3>1, <3>2, <3>3 DEF Progress
    <3> QED BY <1>0, <1>4, <2>2, <2>3, <3>4 DEF OutputOf
  <2>6. CASE createOutputFile(p)
    <3>1. pc[p] = "create" /\ HasTurn(p)
      BY <2>4, <2>6 DEF createOutputFile, At
    <3>2. file[p] = Nobody /\ running[p] = running[u]
      BY <2>2, <3>1, NoFileYet DEF Progress
    <3>3. \/ pc'[p] = "exec" /\ file'[p] = Output(running[p], FALSE)
          \/ pc'[p] = "zombie" /\ file'[p] = Nobody
      BY <2>6, <3>2 DEF createOutputFile, Step, Terminate, TypeOK
    <3>4. Progress(u, p)'
      BY <1>0, <3>2, <3>3 DEF Progress
    <3> QED BY <1>0, <1>4, <2>2, <2>3, <3>4 DEF OutputOf
  <2>7. CASE RunJob(p)
    <3>1. pc[p] = "exec" /\ pc'[p] = "zombie"
      BY <2>7 DEF RunJob, At, Terminate
    <3>2. file[p] \in {Nobody, Output(running[u], FALSE)}
      BY <2>2, <3>1 DEF Progress
    <3>3. file'[p] = IF file[p] = Nobody THEN Nobody ELSE Output(file[p].job, TRUE)
      BY <2>7 DEF RunJob, TypeOK
    <3>4. file'[p] \in {Nobody, Output(running[u], TRUE)}
      <4>1. file[p] # Nobody => file[p].job = running[u]
        BY <3>2 DEF Output
      <4> QED BY <3>3, <4>1
    <3>5. Progress(u, p)'
      BY <1>0, <3>1, <3>4 DEF Progress
    <3> QED BY <1>0, <1>4, <2>2, <2>3, <3>5 DEF OutputOf
  <2>8. ~ExecFails(p)
    BY <1>4, <2>2 DEF ExecFails, Step, At, Progress
  <2> QED BY <2>1, <2>5, <2>6, <2>7, <2>8 DEF runChild
<1>5. CASE u # p /\ child[u] = p /\ pc[u] \in {"read", "unlink"}
  <2>1. parent[p] = Nobody
    BY <1>5 DEF FileInv
  <2>2. ReadEndOfPipe(p)
    BY <2>1 DEF TurnInv, Blocked, runChild, receiveDataFromParentProcess,
                createOutputFile, RunJob, ExecFails, Step, At
  <2> QED BY <1>0, <1>1, <1>5, <2>2, OutputKept DEF ReadEndOfPipe
<1>6. CASE u # p /\ (pc[u] \notin Parental \/ running[u] \in NoExecutable)
  BY <1>0, <1>1, <1>6 DEF OutputOf, Parental
<1> QED BY <1>2, <1>3, <1>4, <1>5, <1>6 DEF Parental

(* What a thread does concerns its own child.                                *)
LEMMA OutputOfThread ==
  ASSUME OneWorker, TypeOK, TurnInv, FileInv, OutputInv, NEW t \in Threads,
         ThreadNext(t)
  PROVE  OutputInv'
<1> USE OneThreadEach
<1> SUFFICES ASSUME NEW u \in Threads PROVE OutputOf(u)'
  BY DEF OutputInv
<1>0. OutputOf(u) /\ OutputOf(t)
  BY DEF OutputInv
<1>1. pc[t] \in {"idle", "fork", "write", "wait", "read", "unlink", "done"}
  BY DEF ThreadNext, executeJob, receiveJobFromBuffer, ForkFails, Fork,
         sendDataToChildProcess, Wait, sendJobOutputToClient, Unlink, Done, Step, At
<1>2. pc[u] \in {"write", "wait"} /\ running[u] \notin NoExecutable => child[u] # t
  BY <1>0, <1>1 DEF OutputOf, Progress
<1>3. pc[u] \in {"write", "wait"} /\ child[u] \in Pids =>
        parent[child[u]] = Process(u) /\ parent[child[u]] # Nobody
  BY DEF TurnInv
<1>4. CASE \/ receiveJobFromBuffer(t) \/ ForkFails(t) \/ sendDataToChildProcess(t)
           \/ sendJobOutputToClient(t) \/ Done(t)
  <2>1. /\ UNCHANGED file
        /\ \A v \in Threads \ {t} :
             pc'[v] = pc[v] /\ running'[v] = running[v] /\ child'[v] = child[v]
    BY <1>4
       DEF receiveJobFromBuffer, ForkFails, sendDataToChildProcess,
           sendJobOutputToClient, Done, Step, At, Terminate, TypeOK
  <2>2. CASE u # t
    BY <1>0, <1>2, <2>1, <2>2, OutputKept
  <2>3. CASE u = t /\ pc'[t] \notin Parental
    BY <2>3 DEF OutputOf, Parental
  <2>4. CASE u = t /\ pc'[t] \in Parental
    <3>1. /\ \/ pc[t] = "write" /\ pc'[t] = "wait"
             \/ pc[t] = "read" /\ pc'[t] = "unlink"
          /\ UNCHANGED <<running, child>>
      <4>1. Terminate(Process(t)) => pc'[t] \in {"dead", "zombie"}
        BY DEF Terminate
      <4>2. sendDataToChildProcess(t) \/ sendJobOutputToClient(t)
        BY <1>4, <2>4
           DEF receiveJobFromBuffer, ForkFails, Done, Step, At, TypeOK, Parental
      <4> QED BY <2>4, <4>1, <4>2
              DEF sendDataToChildProcess, sendJobOutputToClient, Step, At, TypeOK,
                  Parental
    <3>2. PICK q \in Pids : q = child[t]
      BY <3>1 DEF TypeOK, Parental
    <3>3. ASSUME pc[t] = "write", running[t] \notin NoExecutable
          PROVE  Progress(t, q)'
      <4>1. q # t /\ Progress(t, q)
        BY <1>0, <3>2, <3>3 DEF OutputOf, Progress
      <4> QED BY <2>1, <3>1, <4>1 DEF Progress
    <3>4. pc[t] = "read" /\ running[t] \notin NoExecutable =>
            file'[q] \in {Nobody, Output(running[t], TRUE)}
      BY <1>0, <2>1, <3>2 DEF OutputOf
    <3> QED BY <2>4, <3>1, <3>2, <3>3, <3>4 DEF OutputOf
  <2> QED BY <2>2, <2>3, <2>4
<1>5. CASE Fork(t)
  <2>1. PICK q \in Pids :
          /\ pc[t] = "fork" /\ Unused(q)
          /\ pc' = [pc EXCEPT ![t] = "write", ![q] = "readPath"]
          /\ child' = [child EXCEPT ![t] = q, ![q] = Nobody]
          /\ running' = [running EXCEPT ![q] = running[t]]
          /\ UNCHANGED file
    BY <1>5 DEF Fork, At
  <2>2. q # t /\ q \in Threads /\ parent[q] = Nobody
    BY <2>1 DEF Unused
  <2>3. /\ pc'[t] = "write" /\ pc'[q] = "readPath" /\ child'[t] = q
        /\ running'[q] = running[t] /\ running'[t] = running[t]
        /\ \A v \in Threads \ {t, q} :
             pc'[v] = pc[v] /\ running'[v] = running[v] /\ child'[v] = child[v]
    BY <2>1, <2>2 DEF TypeOK
  <2>4. CASE u = t
    <3>1. Progress(t, q)'
      BY <2>3 DEF Progress
    <3> QED BY <2>3, <2>4, <3>1 DEF OutputOf
  <2>5. CASE u = q
    BY <2>3, <2>5 DEF OutputOf
  <2>6. CASE u \notin {t, q}
    <3>1. pc[u] \in {"write", "wait"} => child[u] # q
      BY <1>3, <2>2
    <3> QED BY <1>0, <1>2, <2>1, <2>3, <2>6, <3>1, OutputKept
  <2> QED BY <2>4, <2>5, <2>6
<1>6. CASE Wait(t)
  <2>1. PICK q \in Pids :
          /\ q = child[t] /\ pc[q] = "zombie" /\ pc[t] = "wait"
          /\ parent[q] = Process(t)
          /\ pc' = [pc EXCEPT ![t] = "read", ![q] = "free"]
          /\ parent' = [parent EXCEPT ![q] = Nobody]
    BY <1>6, WaitsForOwn
  <2>2. q # t /\ q \in Threads /\ UNCHANGED <<running, child, file>>
    BY <1>6, <2>1 DEF Wait
  <2>3. /\ pc'[t] = "read" /\ pc'[q] = "free"
        /\ \A v \in Threads \ {t, q} : pc'[v] = pc[v]
    BY <2>1, <2>2 DEF TypeOK
  <2>4. CASE u = t
    <3>1. running[t] \notin NoExecutable => Progress(t, q)
      BY <1>0, <2>1 DEF OutputOf
    <3>2. running[t] \notin NoExecutable =>
            file[q] \in {Nobody, Output(running[t], TRUE)}
      BY <2>1, <3>1 DEF Progress
    <3> QED BY <2>1, <2>2, <2>3, <2>4, <3>2 DEF OutputOf
  <2>5. CASE u = q
    BY <2>3, <2>5 DEF OutputOf
  <2>6. CASE u \notin {t, q}
    <3>1. pc[u] \in {"write", "wait"} => child[u] # q
      BY <1>3, <2>1, <2>6
    <3> QED BY <1>0, <1>2, <2>2, <2>3, <2>6, <3>1, OutputKept
  <2> QED BY <2>4, <2>5, <2>6
<1>7. CASE Unlink(t)
  <2>1. PICK q \in Pids : q = child[t]
    BY <1>7 DEF Unlink, Step, At, TypeOK, Parental
  <2>2. /\ pc[t] = "unlink" /\ pc'[t] = "done" /\ UNCHANGED <<child, running>>
        /\ \A v \in Threads \ {t} : pc'[v] = pc[v]
        /\ \A p \in Pids \ {q} : file'[p] = file[p]
    BY <1>7, <2>1 DEF Unlink, Step, At, TypeOK
  <2>3. CASE u = t
    BY <2>2, <2>3 DEF OutputOf
  <2>4. CASE u # t
    <3>1. pc[u] \notin {"read", "unlink"}
      BY <2>2, <2>4 DEF HasTurn, ActiveLabels, TurnInv
    <3>2. parent[q] = Nobody
      BY <2>1, <2>2 DEF FileInv
    <3>3. pc[u] \in {"write", "wait"} => child[u] # q
      BY <1>3, <3>2
    <3> QED BY <1>0, <1>2, <2>2, <2>4, <3>1, <3>3, OutputKept DEF Parental
  <2> QED BY <2>3, <2>4
<1> QED BY <1>4, <1>5, <1>6, <1>7 DEF ThreadNext, executeJob

(* Every step keeps what each file holds of its job's output.                *)
LEMMA OutputStep ==
  ASSUME OneWorker, TypeOK, TurnInv, FileInv, OutputInv, [Next]_vars
  PROVE  OutputInv'
<1>1. CASE removeTeporaryDirectory
  <2> SUFFICES ASSUME NEW u \in Threads PROVE OutputOf(u)'
    BY DEF OutputInv
  <2>1. /\ \A p \in Pids : pc'[p] = pc[p] /\ file'[p] = Nobody
        /\ UNCHANGED <<running, child>> /\ OutputOf(u)
        /\ pc'[u] \in {pc[u], "exited"}
    BY <1>1, NamesDistinct DEF removeTeporaryDirectory, OutputInv, Threads
  <2> SUFFICES ASSUME pc'[u] \in Parental, running[u] \notin NoExecutable
               PROVE  OutputOf(u)'
    BY <2>1 DEF OutputOf, Parental
  <2>2. pc'[u] = pc[u]
    BY <2>1 DEF Parental
  <2>3. PICK q \in Pids : q = child[u]
    BY <2>2 DEF TypeOK
  <2>4. Progress(u, q) => Progress(u, q)'
    BY <2>1 DEF Progress
  <2> QED BY <2>1, <2>2, <2>3, <2>4 DEF OutputOf
<1>2. CASE UNCHANGED <<pc, running, child, file>>
  BY <1>2 DEF OutputInv, OutputOf, Progress
<1> QED BY <1>1, <1>2, OutputOfChild, OutputOfThread DEF Next, vars, insertJobTriplate

-------------------------------------------------------------------------------
(* The theorems for one worker thread                                        *)

(* In every reachable state one thread at most has the turn, and each file    *)
(* has its owner and holds its job's output.                                 *)
LEMMA ExecutionInvariant ==
  ASSUME OneWorker
  PROVE  Spec => []ExecutionInv
<1> USE OneThreadEach
<1>1. Init => ExecutionInv
  <2> SUFFICES ASSUME Init PROVE ExecutionInv
    OBVIOUS
  <2>1. /\ \A t \in Threads : pc[t] = IF t \in Workers THEN "idle" ELSE "free"
        /\ \A p \in Pids : parent[p] = Nobody /\ file[p] = Nobody /\ pc[p] = "free"
        /\ path = {}
    BY NamesDistinct DEF Init
  <2>2. \A t \in Threads : HasTurn(t) => t \in Workers
    BY <2>1 DEF HasTurn, ActiveLabels
  <2>3. TurnInv
    <3>1. \A t, u \in Threads : HasTurn(t) /\ HasTurn(u) => t = u
      BY <2>2 DEF OneWorker
    <3> QED BY <2>1, <3>1 DEF TurnInv
  <2>4. FileInv /\ OutputInv
    BY <2>1 DEF FileInv, OutputInv, OutputOf
  <2> QED BY <2>3, <2>4 DEF ExecutionInv
<1>2. ASSUME TypeOK, ExecutionInv, [Next]_vars
      PROVE  ExecutionInv'
  BY <1>2, TurnStep, FileStep, OutputStep DEF ExecutionInv
<1> QED BY <1>1, <1>2, ExecutionTypeCorrect, PTL DEF Spec

(* With one worker thread what a client gets as its job's output is the whole *)
(* output of that job, or the notice that there is none.                     *)
THEOREM OutputWhole ==
  ASSUME OneWorker
  PROVE  Spec => []OutputIsWhole
<1>1. Init => OutputIsWhole
  BY DEF Init, OutputIsWhole
<1>2. ASSUME TypeOK, ExecutionInv, OutputIsWhole, [Next]_vars
      PROVE  OutputIsWhole'
  <2>1. ASSUME NEW t \in Threads, sendJobOutputToClient(t), sent' # sent
        PROVE  OutputIsWhole'
    <3>1. /\ pc[t] = "read" /\ running[t] \in Jobs
          /\ sent' = [sent EXCEPT ![running[t]] = Append(@, file[child[t]])]
      BY <1>2, <2>1
         DEF sendJobOutputToClient, Step, At, readFile, TypeOK, Executing, Parental
    <3>2. running[t] \notin NoExecutable =>
            file[child[t]] \in {Nobody, Output(running[t], TRUE)}
      BY <1>2, <3>1 DEF ExecutionInv, OutputInv, OutputOf
    <3>3. ASSUME NEW j \in Jobs \ NoExecutable, NEW i \in DOMAIN sent'[j]
          PROVE  sent'[j][i] \in {Output(j, TRUE), Nobody}
      <4>1. sent[j] \in Seq(File)
        BY <1>2 DEF TypeOK
      <4>2. CASE j # running[t]
        BY <1>2, <3>1, <3>3, <4>2 DEF OutputIsWhole, TypeOK
      <4>3. CASE j = running[t]
        <5>1. sent'[j] = Append(sent[j], file[child[t]])
          BY <1>2, <3>1, <4>3 DEF TypeOK
        <5>2. \/ i \in DOMAIN sent[j] /\ sent'[j][i] = sent[j][i]
              \/ sent'[j][i] = file[child[t]]
          BY <3>3, <4>1, <5>1
        <5> QED BY <1>2, <3>2, <4>3, <5>2 DEF OutputIsWhole
      <4> QED BY <4>2, <4>3
    <3> QED BY <3>3 DEF OutputIsWhole
  <2>2. CASE UNCHANGED sent
    BY <1>2, <2>2 DEF OutputIsWhole
  <2> QED BY <1>2, <2>1, <2>2
          DEF Next, vars, insertJobTriplate, ThreadNext, executeJob, runChild,
              receiveJobFromBuffer, ForkFails, Fork, sendDataToChildProcess, Wait,
              Unlink, Done, receiveDataFromParentProcess, ReadEndOfPipe,
              createOutputFile, RunJob, ExecFails, removeTeporaryDirectory
<1> QED BY <1>1, <1>2, ExecutionTypeCorrect, ExecutionInvariant, PTL DEF Spec

(* With one worker thread every file is deleted once its process is gone.     *)
THEOREM FilesGone ==
  ASSUME OneWorker
  PROVE  Spec => []FilesDeleted
<1>1. ExecutionInv => FilesDeleted
  BY DEF ExecutionInv, FileInv, FilesDeleted, At
<1> QED BY <1>1, ExecutionInvariant, PTL

-------------------------------------------------------------------------------
(* What is left behind, for any number of workers                            *)

(* No processes wait for each other in a circle.                             *)
Rooted ==
  \A S \in SUBSET {p \in Pids : pc[p] # "free"} :
    S # {} => \E p \in S : parent[p] \notin S

(* Each process has as many children as threads that count on one, and every  *)
(* process that has not been waited for has a parent that still will.        *)
Accounted ==
  /\ \A p \in Pids : pc[p] = "free" <=> parent[p] = Nobody
  /\ \A p \in Processes : Cardinality(Children(p)) = Cardinality(Awaiting(p))
  /\ Rooted

(* The workers end together; without a failing call nothing outlives them.    *)
Ended ==
  \A w \in Workers : pc[w] = "exited" =>
    /\ \A v \in Workers : pc[v] = "exited"
    /\ faults = 0 => ~temp /\ \A p \in Pids : pc[p] = "free"

(* While no call has failed and the server has not died of a missing file,    *)
(* nobody is orphaned, so the last worker leaves nobody behind.              *)
TempInv ==
  /\ (faults = 0 /\ \A w \in Workers : pc[w] # "dead") => Accounted
  /\ Ended

(* Calls that have failed are not forgotten.                                 *)
LEMMA FaultsCount ==
  ASSUME TypeOK, [Next]_vars, faults' = 0
  PROVE  faults = 0 /\ ~Fails
<1>1. ~Fails
  BY DEF TypeOK, Fails
<1> QED BY <1>1
        DEF Next, vars, insertJobTriplate, ThreadNext, executeJob, runChild,
            receiveJobFromBuffer, ForkFails, Fork, sendDataToChildProcess, Wait,
            sendJobOutputToClient, Unlink, Done, receiveDataFromParentProcess,
            ReadEndOfPipe, createOutputFile, RunJob, ExecFails,
            removeTeporaryDirectory, Works

(* A process none of whose threads counts on a child has none.               *)
LEMMA Childless ==
  ASSUME Accounted, NEW p \in Processes, Awaiting(p) = {}
  PROVE  Children(p) = {}
<1>1. Cardinality(Children(p)) = Cardinality(Awaiting(p))
  BY DEF Accounted
<1>2. Cardinality(Children(p)) = 0
  BY <1>1, FS_EmptySet
<1> QED BY <1>2, AllFinite, FS_EmptySet

(* The only thread of a copy of the server, when it does not count on a child. *)
LEMMA CopyChildless ==
  ASSUME Accounted, NEW p \in Pids, pc[p] \notin {"write", "wait"}
  PROVE  Children(p) = {}
<1>1. Awaiting(p) = {}
  BY NamesDistinct DEF Awaiting, Process, Threads
<1> QED BY <1>1, Childless DEF Processes

(* A thread that moves on, as a parent or not, keeps the account.            *)
LEMMA MoveAccounted ==
  ASSUME TypeOK, Accounted, NEW t \in Threads, NEW here, NEW next,
         Step(t, here, next), UNCHANGED parent,
         here # "free", next # "free",
         next \in {"write", "wait"} <=> here \in {"write", "wait"}
  PROVE  Accounted'
<1>1. /\ pc[t] = here /\ pc'[t] = next
      /\ \A u \in Threads \ {t} : pc'[u] = pc[u]
  BY DEF Step, At, TypeOK
<1>2. \A p \in Pids : pc'[p] = "free" <=> pc[p] = "free"
  BY <1>1 DEF Threads
<1>3. {p \in Pids : pc'[p] # "free"} = {p \in Pids : pc[p] # "free"}
  BY <1>2
<1>4. ASSUME NEW p \in Processes
      PROVE  Cardinality(Children(p)') = Cardinality(Awaiting(p)')
  <2>1. Children(p)' = Children(p) /\ Awaiting(p)' = Awaiting(p)
    BY <1>1 DEF Children, Awaiting
  <2> QED BY <2>1 DEF Accounted
<1> QED BY <1>2, <1>3, <1>4 DEF Accounted, Rooted

(* So does the end of a process that counts on no child: it orphans nobody.   *)
LEMMA EndAccounted ==
  ASSUME TypeOK, Accounted, NEW p \in Pids,
         pc[p] \notin {"free", "write", "wait"}, Terminate(p)
  PROVE  Accounted'
<1>1. Children(p) = {}
  BY CopyChildless
<1>2. parent' = parent
  BY <1>1 DEF Terminate, Orphaned, Children, TypeOK
<1>3. p \in Threads /\ p # Server /\ \A u \in Threads : Process(u) = p <=> u = p
  BY NamesDistinct DEF Process, Threads
<1>4. pc' = [pc EXCEPT ![p] = "zombie"]
  BY <1>3 DEF Terminate, TypeOK
<1>5. Step(p, pc[p], "zombie")
  BY <1>4 DEF Step, At
<1> QED BY <1>2, <1>3, <1>5, MoveAccounted

(* fork() gives one process a thread that counts on a child, and a child that *)
(* has no children of its own.                                               *)
LEMMA ForkAccounted ==
  ASSUME TypeOK, Accounted, NEW t \in Threads, Fork(t)
  PROVE  Accounted'
<1>1. PICK q \in Pids :
        /\ Unused(q)
        /\ pc' = [pc EXCEPT ![t] = "write", ![q] = "readPath"]
        /\ parent' = [parent EXCEPT ![q] = Process(t)]
  BY DEF Fork
<1>2. /\ pc[t] = "fork" /\ pc[q] = "free" /\ parent[q] = Nobody
      /\ q \in Threads /\ q # t
      /\ Process(t) \in Processes /\ Process(t) \notin {Nobody, q}
  BY <1>1, ProcessType, NamesDistinct
     DEF Fork, At, Unused, Threads, Processes, Process, Accounted
<1>3. /\ pc'[t] = "write" /\ pc'[q] = "readPath"
      /\ \A u \in Threads \ {t, q} : pc'[u] = pc[u]
      /\ parent'[q] = Process(t) /\ \A p \in Pids \ {q} : parent'[p] = parent[p]
  BY <1>1, <1>2 DEF TypeOK
<1>4. Children(q) = {}
  BY <1>2, CopyChildless
<1>5. \A p \in Pids : pc'[p] = "free" <=> parent'[p] = Nobody
  BY <1>2, <1>3 DEF Accounted, Threads
<1>6. ASSUME NEW p \in Processes
      PROVE  Cardinality(Children(p)') = Cardinality(Awaiting(p)')
  <2>1. Cardinality(Children(p)) = Cardinality(Awaiting(p))
    BY DEF Accounted
  <2>2. CASE p = Process(t)
    <3>1. t \notin Awaiting(p) /\ Awaiting(p)' = Awaiting(p) \cup {t}
      BY <1>2, <1>3, <2>2 DEF Awaiting
    <3>2. q \notin Children(p) /\ Children(p)' = Children(p) \cup {q}
      BY <1>2, <1>3, <2>2 DEF Children
    <3>3. /\ Cardinality(Awaiting(p)') = Cardinality(Awaiting(p)) + 1
          /\ Cardinality(Children(p)') = Cardinality(Children(p)) + 1
      BY <3>1, <3>2, AllFinite, FS_AddElement
    <3> QED BY <2>1, <3>3
  <2>3. CASE p # Process(t)
    <3>1. p # Nobody
      BY NamesDistinct DEF Processes
    <3>2. Awaiting(p)' = Awaiting(p) /\ Children(p)' = Children(p)
      BY <1>2, <1>3, <2>3, <3>1 DEF Awaiting, Children
    <3> QED BY <2>1, <3>2
  <2> QED BY <2>2, <2>3
<1>7. ASSUME NEW S \in SUBSET {p \in Pids : pc'[p] # "free"}, S # {}
      PROVE  \E p \in S : parent'[p] \notin S
  <2>1. CASE S \ {q} = {}
    BY <1>2, <1>3, <1>7, <2>1
  <2>2. CASE S \ {q} # {}
    <3>1. S \ {q} \in SUBSET {p \in Pids : pc[p] # "free"}
      BY <1>2, <1>3 DEF Threads
    <3>2. PICK p \in S \ {q} : parent[p] \notin S \ {q}
      BY <2>2, <3>1 DEF Accounted, Rooted
    <3>3. parent[p] # q
      BY <1>4, <3>2 DEF Children
    <3> QED BY <1>3, <3>2, <3>3
  <2> QED BY <2>1, <2>2
<1> QED BY <1>5, <1>6, <1>7 DEF Accounted, Rooted

(* wait(NULL) takes a child and a thread that counted on one; there is one.   *)
LEMMA WaitAccounted ==
  ASSUME TypeOK, Accounted, NEW t \in Threads, Wait(t)
  PROVE  Accounted'
<1>1. pc[t] = "wait" /\ Process(t) \in Processes /\ Process(t) # Nobody
  BY ProcessType, NamesDistinct DEF Wait, Step, At, Processes
<1>2. Children(Process(t)) # {}
  <2>1. t \in Awaiting(Process(t))
    BY <1>1 DEF Awaiting
  <2>2. Cardinality(Awaiting(Process(t))) # 0
    BY <2>1, AllFinite, FS_EmptySet
  <2>3. Cardinality(Children(Process(t))) # 0
    BY <1>1, <2>2 DEF Accounted
  <2> QED BY <2>3, FS_EmptySet
<1>3. PICK q \in Children(Process(t)) :
        /\ pc[q] = "zombie"
        /\ pc' = [pc EXCEPT ![t] = "read", ![q] = "free"]
        /\ parent' = [parent EXCEPT ![q] = Nobody]
  BY <1>2 DEF Wait, At
<1>4. q \in Pids /\ q \in Threads /\ q # t /\ parent[q] = Process(t)
  BY <1>1, <1>3 DEF Children, Threads
<1>5. /\ pc'[t] = "read" /\ pc'[q] = "free"
      /\ \A u \in Threads \ {t, q} : pc'[u] = pc[u]
      /\ parent'[q] = Nobody /\ \A p \in Pids \ {q} : parent'[p] = parent[p]
  BY <1>3, <1>4 DEF TypeOK
<1>6. \A p \in Pids : pc'[p] = "free" <=> parent'[p] = Nobody
  BY <1>1, <1>4, <1>5 DEF Accounted, Threads
<1>7. ASSUME NEW p \in Processes
      PROVE  Cardinality(Children(p)') = Cardinality(Awaiting(p)')
  <2>1. Cardinality(Children(p)) = Cardinality(Awaiting(p)) /\ p # Nobody
    BY NamesDistinct DEF Accounted, Processes
  <2>2. CASE p = Process(t)
    <3>1. t \in Awaiting(p) /\ Awaiting(p)' = Awaiting(p) \ {t}
      BY <1>1, <1>3, <1>4, <1>5, <2>2 DEF Awaiting
    <3>2. q \in Children(p) /\ Children(p)' = Children(p) \ {q}
      BY <1>4, <1>5, <2>1, <2>2 DEF Children
    <3>3. /\ Cardinality(Awaiting(p)') = Cardinality(Awaiting(p)) - 1
          /\ Cardinality(Children(p)') = Cardinality(Children(p)) - 1
      BY <3>1, <3>2, AllFinite, FS_RemoveElement
    <3> QED BY <2>1, <3>3
  <2>3. CASE p # Process(t)
    <3>1. Awaiting(p)' = Awaiting(p) /\ Children(p)' = Children(p)
      BY <1>1, <1>3, <1>4, <1>5, <2>1, <2>3 DEF Awaiting, Children
    <3> QED BY <2>1, <3>1
  <2> QED BY <2>2, <2>3
<1>8. ASSUME NEW S \in SUBSET {p \in Pids : pc'[p] # "free"}, S # {}
      PROVE  \E p \in S : parent'[p] \notin S
  <2>1. q \notin S
    BY <1>5
  <2>2. S \in SUBSET {p \in Pids : pc[p] # "free"}
    BY <1>1, <1>5, <2>1 DEF Threads
  <2>3. PICK p \in S : parent[p] \notin S
    BY <1>8, <2>2 DEF Accounted, Rooted
  <2> QED BY <1>5, <2>1, <2>3
<1> QED BY <1>6, <1>7, <1>8 DEF Accounted, Rooted

(* When no worker counts on a child, no process is left.                     *)
LEMMA NobodyLeft ==
  ASSUME TypeOK, Accounted, \A w \in Workers : pc[w] = "idle"
  PROVE  \A p \in Pids : pc[p] = "free"
<1> SUFFICES ASSUME {p \in Pids : pc[p] # "free"} # {}
             PROVE  FALSE
  OBVIOUS
<1>1. PICK p \in Pids : pc[p] # "free" /\ parent[p] \notin {q \in Pids : pc[q] # "free"}
  BY DEF Accounted, Rooted
<1>2. parent[p] \in Processes /\ p \in Children(parent[p])
  BY <1>1 DEF Accounted, TypeOK, Children
<1>3. CASE parent[p] = Server
  <2>1. Awaiting(Server) = {}
    BY NamesDistinct DEF Awaiting, Process, Threads
  <2> QED BY <1>2, <1>3, <2>1, Childless
<1>4. CASE parent[p] \in Pids
  BY <1>1, <1>2, <1>4, CopyChildless
<1> QED BY <1>2, <1>3, <1>4 DEF Processes

(* So the server ends with the account settled.                              *)
LEMMA RemovalAccounted ==
  ASSUME TypeOK, Accounted, removeTeporaryDirectory
  PROVE  Accounted' /\ \A p \in Pids : pc'[p] = "free"
<1>1. \A p \in Pids : pc[p] = "free" /\ parent[p] = Nobody
  BY NobodyLeft DEF removeTeporaryDirectory, At, Accounted
<1>2. \A p \in Pids : pc'[p] = "free" /\ parent'[p] = Nobody
  BY <1>1, NamesDistinct DEF removeTeporaryDirectory, Orphaned, Threads
<1>3. ASSUME NEW p \in Processes
      PROVE  Cardinality(Children(p)') = Cardinality(Awaiting(p)')
  <2>1. Children(p)' = {}
    BY <1>2, NamesDistinct DEF Children, Processes
  <2>2. Awaiting(p)' = {}
    BY <1>2, NamesDistinct DEF Awaiting, removeTeporaryDirectory, Threads
  <2> QED BY <2>1, <2>2
<1> QED BY <1>2, <1>3 DEF Accounted, Rooted

(* Every step of a thread that meets no failing call keeps the account,       *)
(* unless the server dies of it.                                             *)
LEMMA ThreadAccounted ==
  ASSUME TypeOK, Accounted, ~Fails, NEW t \in Threads, ThreadNext(t),
         \A w \in Workers : pc'[w] # "dead"
  PROVE  Accounted'
<1>1. CASE receiveJobFromBuffer(t) \/ sendDataToChildProcess(t) \/ Unlink(t) \/ Done(t)
  <2>1. \E here, next :
          /\ Step(t, here, next) /\ UNCHANGED parent
          /\ <<here, next>> \in {<<"idle", "fork">>, <<"write", "wait">>,
                                 <<"unlink", "done">>, <<"done", "idle">>}
    BY <1>1 DEF receiveJobFromBuffer, sendDataToChildProcess, Unlink, Done
  <2> QED BY <2>1, MoveAccounted
<1>2. CASE sendJobOutputToClient(t)
  <2>1. CASE Step(t, "read", "unlink") /\ UNCHANGED parent
    BY <2>1, MoveAccounted
  <2>2. CASE At(t, "read") /\ Terminate(Process(t))
    <3>1. t \in Pids
      BY <2>2 DEF Terminate, Process, Threads
    <3> QED BY <2>2, <3>1, EndAccounted, NamesDistinct DEF Process, At
  <2> QED BY <1>2, <2>1, <2>2 DEF sendJobOutputToClient
<1> QED BY <1>1, <1>2, ForkAccounted, WaitAccounted
        DEF ThreadNext, executeJob, ForkFails

(* Every step of a child that meets no failing call does, too.               *)
LEMMA ChildAccounted ==
  ASSUME TypeOK, Accounted, ~Fails, NEW p \in Pids, runChild(p)
  PROVE  Accounted'
<1>1. ~ReadEndOfPipe(p)
  BY DEF ReadEndOfPipe, Accounted, At
<1>2. CASE receiveDataFromParentProcess(p) \/ createOutputFile(p) \/ ExecFails(p)
  <2>1. \E here \in {"readPath", "create", "exec"},
           next \in {"create", "exec", "done", "stuck"} :
          Step(p, here, next) /\ UNCHANGED parent
    BY <1>2 DEF receiveDataFromParentProcess, createOutputFile, ExecFails
  <2> QED BY <2>1, MoveAccounted DEF Threads
<1>3. CASE RunJob(p)
  BY <1>3, EndAccounted DEF RunJob, At
<1> QED BY <1>1, <1>2, <1>3 DEF runChild

(* A worker leaves its loop only with all others, and a dead one stays so;    *)
(* one that has left dies only of another that is still at work.             *)
LEMMA WorkerKept ==
  ASSUME TypeOK, [Next]_vars, ~removeTeporaryDirectory, NEW w \in Workers
  PROVE  /\ pc'[w] = "exited" => pc[w] = "exited"
         /\ pc[w] = "dead" => pc'[w] = "dead"
         /\ pc[w] = "exited" => pc'[w] = "exited" \/ \E v \in Workers : pc[v] = "read"
<1>1. ASSUME NEW p \in Pids, runChild(p)
      PROVE  pc'[w] = pc[w]
  <2>1. w # p /\ w \in Threads /\ (Terminate(p) => pc'[w] = pc[w])
    BY NamesDistinct DEF Terminate, Process, Threads
  <2> QED BY <1>1, <2>1
          DEF runChild, receiveDataFromParentProcess, ReadEndOfPipe,
              createOutputFile, RunJob, ExecFails, Step, TypeOK
<1>2. ASSUME NEW t \in Threads, ThreadNext(t)
      PROVE  \/ pc'[w] = pc[w]
             \/ t = w /\ pc[w] \notin {"dead", "exited"} /\ pc'[w] # "exited"
             \/ pc'[w] = "dead" /\ t \in Workers /\ pc[t] = "read"
  <2>0. w \in Threads /\ w \notin Pids
    BY NamesDistinct DEF Threads
  <2>1. CASE Fork(t)
    BY <2>0, <2>1 DEF Fork, At, TypeOK
  <2>2. CASE Wait(t)
    BY <2>0, <2>2 DEF Wait, Step, At, Children, TypeOK
  <2>3. CASE sendJobOutputToClient(t)
    <3>1. ASSUME Terminate(Process(t))
          PROVE  pc'[w] = pc[w] \/ (pc'[w] = "dead" /\ t \in Workers)
      <4>1. pc'[w] = IF Process(w) # Process(t) THEN pc[w]
                     ELSE IF Process(t) = Server THEN "dead" ELSE "zombie"
        BY <2>0, <3>1 DEF Terminate
      <4>2. Process(w) = Server /\ (Process(t) = Server => t \in Workers)
        BY NamesDistinct DEF Process, Threads
      <4> QED BY <4>1, <4>2
    <3>2. pc[t] = "read"
      BY <2>3 DEF sendJobOutputToClient, Step, At
    <3>3. ASSUME Step(t, "read", "unlink")
          PROVE  pc'[w] = pc[w] \/ (t = w /\ pc'[w] = "unlink")
      <4>1. pc' = [pc EXCEPT ![t] = "unlink"] /\ pc \in [Threads -> Labels]
        BY <3>3 DEF Step, TypeOK
      <4> QED BY <2>0, <4>1
    <3> QED BY <2>3, <3>1, <3>2, <3>3 DEF sendJobOutputToClient
  <2>4. ASSUME NEW here \in {"idle", "fork", "write", "unlink", "done"},
               NEW next \in {"fork", "wait", "done", "idle"}, Step(t, here, next)
        PROVE  \/ pc'[w] = pc[w]
               \/ t = w /\ pc[w] \notin {"dead", "exited"} /\ pc'[w] # "exited"
    BY <2>0, <2>4 DEF Step, At, TypeOK
  <2> QED BY <1>2, <2>1, <2>2, <2>3, <2>4
          DEF ThreadNext, executeJob, receiveJobFromBuffer, ForkFails,
              sendDataToChildProcess, Unlink, Done
<1> QED BY <1>1, <1>2 DEF Next, vars, insertJobTriplate

(* Where every worker has left and no child is there, nothing happens.       *)
LEMMA AllQuiet ==
  ASSUME [Next]_vars, ~removeTeporaryDirectory,
         \A t \in Threads : pc[t] \in {"exited", "free"},
         \A w \in Workers : pc[w] = "exited"
  PROVE  UNCHANGED vars
<1>1. \A t \in Threads : ~ThreadNext(t)
  BY DEF ThreadNext, executeJob, receiveJobFromBuffer, ForkFails, Fork,
         sendDataToChildProcess, Wait, sendJobOutputToClient, Unlink, Done, Step, At
<1>2. \A p \in Pids : ~runChild(p)
  BY DEF runChild, receiveDataFromParentProcess, ReadEndOfPipe, createOutputFile,
         RunJob, ExecFails, Step, At, Threads
<1>3. \A j \in Jobs : ~insertJobTriplate(j)
  BY DEF insertJobTriplate
<1> QED BY <1>1, <1>2, <1>3 DEF Next

(* The account is kept until a call fails or the server dies.                *)
LEMMA AccountedStep ==
  ASSUME TypeOK, TempInv, [Next]_vars,
         faults' = 0, \A w \in Workers : pc'[w] # "dead"
  PROVE  Accounted'
<1>1. faults = 0 /\ ~Fails
  BY FaultsCount
<1>2. CASE removeTeporaryDirectory
  <2>1. \A w \in Workers : pc[w] # "dead"
    BY <1>2 DEF removeTeporaryDirectory, At
  <2> QED BY <1>1, <1>2, <2>1, RemovalAccounted DEF TempInv
<1>3. CASE ~removeTeporaryDirectory
  <2>1. Accounted
    BY <1>1, <1>3, WorkerKept DEF TempInv
  <2>2. CASE UNCHANGED <<pc, parent>>
    <3>1. \A p : Children(p)' = Children(p) /\ Awaiting(p)' = Awaiting(p)
      BY <2>2 DEF Children, Awaiting
    <3> QED BY <2>1, <2>2, <3>1 DEF Accounted, Rooted
  <2> QED BY <1>1, <1>3, <2>1, <2>2, ThreadAccounted, ChildAccounted
          DEF Next, vars, insertJobTriplate
<1> QED BY <1>2, <1>3

(* The workers end together, and without a failing call nothing outlives them. *)
LEMMA EndedStep ==
  ASSUME TypeOK, TempInv, [Next]_vars
  PROVE  Ended'
<1>1. CASE removeTeporaryDirectory
  <2>1. /\ \A w \in Workers : pc'[w] = "exited" /\ pc[w] = "idle"
        /\ faults' = faults /\ temp' = FALSE
    BY <1>1 DEF removeTeporaryDirectory, At, Threads
  <2>2. faults = 0 => \A p \in Pids : pc'[p] = "free"
    BY <1>1, <2>1, RemovalAccounted DEF TempInv
  <2> QED BY <2>1, <2>2 DEF Ended
<1>2. CASE ~removeTeporaryDirectory
  <2> SUFFICES ASSUME NEW w \in Workers, pc'[w] = "exited"
               PROVE  /\ \A v \in Workers : pc'[v] = "exited"
                      /\ faults' = 0 => ~temp' /\ \A p \in Pids : pc'[p] = "free"
    BY DEF Ended
  <2>1. pc[w] = "exited"
    BY <1>2, WorkerKept
  <2>2. \A v \in Workers : pc[v] = "exited"
    BY <2>1 DEF TempInv, Ended
  <2>3. \A v \in Workers : pc'[v] = "exited"
    BY <1>2, <2>2, WorkerKept
  <2>4. ASSUME faults' = 0
        PROVE  ~temp' /\ \A p \in Pids : pc'[p] = "free"
    <3>1. faults = 0
      BY <2>4, FaultsCount
    <3>2. ~temp /\ \A p \in Pids : pc[p] = "free"
      BY <2>1, <3>1 DEF TempInv, Ended
    <3>3. UNCHANGED vars
      BY <1>2, <2>2, <3>2, AllQuiet DEF Threads
    <3> QED BY <3>2, <3>3 DEF vars
  <2> QED BY <2>3, <2>4
<1> QED BY <1>1, <1>2

(* In every reachable state nothing is left behind that the server, or a copy *)
(* of it, will not wait for, while no call has failed.                       *)
LEMMA TempInvariant == Spec => []TempInv
<1>1. Init => TempInv
  <2> SUFFICES ASSUME Init PROVE TempInv
    OBVIOUS
  <2>1. /\ \A p \in Pids : pc[p] = "free" /\ parent[p] = Nobody
        /\ \A w \in Workers : pc[w] = "idle"
    BY NamesDistinct DEF Init, Threads
  <2>2. ASSUME NEW p \in Processes
        PROVE  Cardinality(Children(p)) = Cardinality(Awaiting(p))
    <3>1. Children(p) = {} /\ Awaiting(p) = {}
      BY <2>1, NamesDistinct DEF Children, Awaiting, Processes, Threads
    <3> QED BY <3>1
  <2>3. Accounted
    BY <2>1, <2>2 DEF Accounted, Rooted
  <2> QED BY <2>1, <2>3 DEF TempInv, Ended
<1>2. ASSUME TypeOK, TempInv, [Next]_vars
      PROVE  TempInv'
  BY <1>2, AccountedStep, EndedStep DEF TempInv
<1> QED BY <1>1, <1>2, ExecutionTypeCorrect, PTL DEF Spec

(* For any number of worker threads temp stays removed while no call fails:   *)
(* no copy of the server and no job outlives the server.                     *)
THEOREM TempRemoved == Spec => []TempStaysRemoved
<1>1. TempInv => TempStaysRemoved
  BY DEF TempInv, Ended, TempStaysRemoved, At
<1> QED BY <1>1, TempInvariant, PTL
===============================================================================
