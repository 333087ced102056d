--------------------------- MODULE WaitingBufferQueue ---------------------------
(*****************************************************************************)
(* WaitingBuffer::Queue: a vector of job triplates and, beside it, its size.*)
(* The class locks nothing.  Each operation is given as the steps of the    *)
(* thread t that calls it; the callers' modules say under which mutex.      *)
(*****************************************************************************)
EXTENDS ServerState, SequencesExt

isFull  == size = Capacity
isEmpty == size = 0

(* A vector operation outside the elements the vector has, or one that       *)
(* overlaps another thread's change of the vector, is undefined behaviour.   *)
ModifiesBuffer(t) == pc[t] \in {"push", "erase", "eraseAt"}
ReadsBuffer(t)    == pc[t] \in {"front", "searchAt", "pollAt"}

BufferRace ==
  \E t, u \in Threads :
    /\ t # u
    /\ ModifiesBuffer(t)
    /\ ModifiesBuffer(u) \/ ReadsBuffer(u)

BufferRaceAborts == BufferRace /\ Abort

-------------------------------------------------------------------------------
(* size++ and size-- : a load, and the store of the last step of the caller. *)

LoadSize(t, here, next) ==
  /\ At(t, here)
  /\ LoadReg(t, size)
  /\ Goto(t, next)
  /\ UNCHANGED <<process, mutex, blocked, queueVars, counterVars, flagVars,
                 client_socket, clientSocket, triplate, index, sent>>

StoreSize(t, here, value, next) ==
  /\ At(t, here)
  /\ size' = value
  /\ ClearReg(t)
  /\ Goto(t, next)
  /\ UNCHANGED <<process, blocked, buffer, counterVars, flagVars,
                 client_socket, clientSocket, triplate, index, sent>>

-------------------------------------------------------------------------------
(* getJobTriplate: front, erase, takeLoad, takeStore                         *)

(* front() of an empty vector is undefined; it does not return NULL.         *)
CopyFront(t) ==
  /\ At(t, "front")
  /\ \/ buffer = << >> /\ Abort
     \/ /\ buffer # << >>
        /\ triplate' = [triplate EXCEPT ![t] = Head(buffer)]
        /\ Goto(t, "erase")
        /\ UNCHANGED <<process, mutex, blocked, queueVars, counterVars,
                       flagVars, client_socket, clientSocket, reg, index, sent>>

EraseFront(t) ==
  /\ At(t, "erase")
  /\ \/ buffer = << >> /\ Abort
     \/ /\ buffer # << >>
        /\ buffer' = Tail(buffer)
        /\ Goto(t, "takeLoad")
        /\ UNCHANGED <<process, mutex, blocked, size, counterVars, flagVars,
                       localVars, sent>>

getJobTriplate(t) ==
  \/ CopyFront(t)
  \/ EraseFront(t)
  \/ LoadSize(t, "takeLoad", "takeStore")

-------------------------------------------------------------------------------
(* insertJobTriplate: testCapacity, push, pushLoad, pushStore                *)

(* Mutant: trusts the caller's test.                                         *)
TestNoCapacity(t, next) ==
  /\ At(t, "testCapacity")
  /\ Goto(t, "push")
  /\ UNCHANGED <<process, mutex, blocked, queueVars, counterVars, flagVars,
                 localVars, sent>>

(* When the queue is full the triplate is dropped, and the caller not told.  *)
TestCapacity(t, next) ==
  /\ At(t, "testCapacity")
  /\ \/ /\ size < Capacity
        /\ Goto(t, "push")
        /\ UNCHANGED mutex
     \/ /\ size >= Capacity
        /\ Goto(t, next)
        /\ Unlock("jobInsertion")
  /\ UNCHANGED <<process, blocked, queueVars, counterVars, flagVars, localVars,
                 sent>>

(* Mutant: inserts at the wrong end.                                         *)
PushFront(t) ==
  /\ At(t, "push")
  /\ buffer' = <<triplate[t]>> \o buffer
  /\ Goto(t, "pushLoad")
  /\ UNCHANGED <<process, mutex, blocked, size, counterVars, flagVars,
                 localVars, sent>>

PushBack(t) ==
  /\ At(t, "push")
  /\ buffer' = Append(buffer, triplate[t])
  /\ Goto(t, "pushLoad")
  /\ UNCHANGED <<process, mutex, blocked, size, counterVars, flagVars,
                 localVars, sent>>

insertJobTriplate(t, next) ==
  \/ TestCapacity(t, next)
  \/ PushBack(t)
  \/ LoadSize(t, "pushLoad", "pushStore")

-------------------------------------------------------------------------------
(* removeJobTriplateByID: search, searchAt, eraseAt, removeLoad, removeStore *)

SearchTest(t, notFound) ==
  /\ At(t, "search")
  /\ Goto(t, IF index[t] < size THEN "searchAt" ELSE notFound)
  /\ UNCHANGED <<process, mutex, blocked, queueVars, counterVars, flagVars,
                 localVars, sent>>

(* at(i) throws where the vector is shorter than size said.                  *)
SearchAt(t, jobID) ==
  /\ At(t, "searchAt")
  /\ \/ index[t] >= Len(buffer) /\ Abort
     \/ /\ index[t] < Len(buffer)
        /\ LET here  == buffer[index[t] + 1]
               found == here.jobID = jobID
           IN  /\ triplate' = [triplate EXCEPT ![t] = here]
               /\ index' = [index EXCEPT ![t] = IF found THEN @ ELSE Inc(@)]
               /\ Goto(t, IF found THEN "eraseAt" ELSE "search")
        /\ UNCHANGED <<process, mutex, blocked, queueVars, counterVars,
                       flagVars, client_socket, clientSocket, reg, sent>>

(* Erases whatever job stands at the index by now.                           *)
EraseAt(t) ==
  /\ At(t, "eraseAt")
  /\ \/ index[t] >= Len(buffer) /\ Abort
     \/ /\ index[t] < Len(buffer)
        /\ buffer' = RemoveAt(buffer, index[t] + 1)
        /\ Goto(t, "removeLoad")
        /\ UNCHANGED <<process, mutex, blocked, size, counterVars, flagVars,
                       localVars, sent>>

removeJobTriplateByID(t, jobID, notFound) ==
  \/ SearchTest(t, notFound)
  \/ SearchAt(t, jobID)
  \/ EraseAt(t)
  \/ LoadSize(t, "removeLoad", "removeStore")
===============================================================================
