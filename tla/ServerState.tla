------------------------------ MODULE ServerState ------------------------------
(*****************************************************************************)
(* The state of jobExecutorServer: the static members of Server::Process,   *)
(* of Controller::Thread and of WaitingBuffer::Queue, the locals of the     *)
(* threads that outlive one step, and the pthread primitives they use.      *)
(* The threads are the main thread, one worker thread per element of        *)
(* Workers and one controller thread per client that connects.              *)
(*                                                                           *)
(* A step is one access to a shared variable, or one critical section that  *)
(* no other thread can see inside.  The Makefile builds without -O, so x++  *)
(* on a shared counter is a load and a store, which other threads may       *)
(* separate.                                                                 *)
(*****************************************************************************)
EXTENDS Protocol, Integers, FiniteSets

CONSTANTS
  Workers,       \* the worker threads; their number is threadPoolSize
  Clients,       \* the clients, each with one connection and one command
  Main,          \* the main thread
  NoThread,      \* the owner of a free mutex, the socket nobody has read yet
  Commands,      \* the command lines a client may be started with
  NotANumber,    \* an argument stoi() throws on
  Capacity,      \* bufferSize
  UIntModulus,   \* 2^w, w the width of unsigned int and size_t
  ForkMayFail,   \* whether the calls of executeJob and its child may fail
  AcceptMayFail  \* whether accept() and pthread_create() may fail

Threads == Workers \cup Clients \cup {Main}

(* A client's command: its mode, and the number after its first word (the   *)
(* level of setConcurrency, the XX of "stop job_XX"; 0 where there is none). *)
Command == [mode : Modes, arg : Int \cup {NotANumber}]

ASSUME ThreadsDistinct ==
  /\ Workers \cap Clients = {}
  /\ Main \notin Workers \cup Clients
  /\ NoThread \notin Workers \cup Clients \cup {Main}

ASSUME ParametersInRange ==
  /\ UIntModulus \in Nat \ {0, 1}
  /\ Capacity \in 0 .. UIntModulus - 1
  /\ ForkMayFail \in BOOLEAN
  /\ AcceptMayFail \in BOOLEAN

ASSUME CommandsWellFormed == Commands \subseteq Command

-------------------------------------------------------------------------------

VARIABLES
  process,            \* "running", "exited" (main returned) or "aborted"
  pc,                 \* the statement each thread is about to execute
  mutex,              \* the owner of each mutex
  blocked,            \* the threads inside pthread_cond_wait, per variable
  buffer,             \* Queue::buffer
  size,               \* Queue::size, kept beside the vector
  runningJobs,
  busyWorkers,
  concurrency,
  jobsEntered,
  controllerStop,     \* Controller::Thread::shouldStop
  serverStop,         \* Server::Process::shouldStop
  continueExecution,
  client_socket,      \* run()'s local, read by new controllers by address
  clientSocket,       \* each controller's own copy of it
  triplate,           \* the job triplate a thread holds
  reg,                \* the value a thread has loaded and not used yet, or 0
  index,              \* a controller's loop counter
  command,            \* the command each client was started with
  sent                \* the messages sent to each client, oldest first

queueVars   == <<buffer, size>>
counterVars == <<runningJobs, busyWorkers, concurrency, jobsEntered>>
flagVars    == <<controllerStop, serverStop, continueExecution>>
localVars   == <<client_socket, clientSocket, triplate, reg, index>>

vars == <<process, pc, mutex, blocked, queueVars, counterVars, flagVars,
          localVars, command, sent>>

UInt == 0 .. UIntModulus - 1
Inc(n) == (n + 1) % UIntModulus
(* Mutant: a counter that can become negative.                               *)
DecSigned(n) == n - 1

Dec(n) == (n + UIntModulus - 1) % UIntModulus

(* (int)n for an unsigned n, in two's complement.                            *)
Signed(n) == IF 2 * n >= UIntModulus THEN n - UIntModulus ELSE n

Triplate   == [jobID : UInt, socketID : Clients \cup {NoThread}]
NoTriplate == [jobID |-> 0, socketID |-> NoThread]

(* mutex_serverContinue and mutex_allJobsDone are not variables: each         *)
(* section of the first is one step, and the second has a single user.       *)
Mutexes  == {"controller", "worker", "jobInsertion"}
CondVars == {"controller", "worker", "serverContinue", "allJobsDone"}

(* The register is dead once its value is used.                              *)
LoadReg(t, value) == reg' = [reg EXCEPT ![t] = value]
ClearReg(t)       == LoadReg(t, 0)

At(t, label)   == pc[t] = label
Goto(t, label) == pc' = [pc EXCEPT ![t] = label]

-------------------------------------------------------------------------------
(* POSIX threads, as glibc implements the default (unchecked) mutex.         *)

Lock(t, m) ==
  /\ mutex[m] = NoThread
  /\ mutex' = [mutex EXCEPT ![m] = t]

(* No owner check: a thread that does not hold the mutex releases it too.    *)
Unlock(m) == mutex' = [mutex EXCEPT ![m] = NoThread]

(* A whole critical section in one step.                                     *)
Section(m) == mutex[m] = NoThread /\ UNCHANGED mutex

CondWait(t, cv) == blocked' = [blocked EXCEPT ![cv] = @ \cup {t}]

CondSignal(cv) ==
  \/ /\ blocked[cv] = {}
     /\ UNCHANGED blocked
  \/ \E t \in blocked[cv] : blocked' = [blocked EXCEPT ![cv] = @ \ {t}]

CondBroadcast(cv) == blocked' = [blocked EXCEPT ![cv] = {}]

(* POSIX lets a waiter return without a signal.                              *)
SpuriousWakeup ==
  /\ \E cv \in CondVars : blocked[cv] # {} /\ CondSignal(cv)
  /\ UNCHANGED <<process, pc, mutex, queueVars, counterVars, flagVars,
                 localVars, sent>>

-------------------------------------------------------------------------------

Send(c, message) == sent' = [sent EXCEPT ![c] = Append(@, message)]

(* An uncaught exception, or undefined behaviour that corrupts the heap:     *)
(* the process ends with everything it held.                                 *)
Abort ==
  /\ process' = "aborted"
  /\ UNCHANGED <<pc, mutex, blocked, queueVars, counterVars, flagVars,
                 localVars, sent>>

Init ==
  /\ process = "running"
  /\ pc = [t \in Threads |-> IF t = Main THEN "accept"
                             ELSE IF t \in Workers THEN "idle" ELSE "unborn"]
  /\ mutex = [m \in Mutexes |-> NoThread]
  /\ blocked = [cv \in CondVars |-> {}]
  /\ buffer = << >>
  /\ size = 0
  /\ runningJobs = 0
  /\ busyWorkers = 0
  /\ concurrency = 1
  /\ jobsEntered = 0
  /\ controllerStop = FALSE
  /\ serverStop = FALSE
  /\ continueExecution = FALSE
  /\ client_socket = NoThread
  /\ clientSocket = [c \in Clients |-> NoThread]
  /\ triplate = [t \in Threads |-> NoTriplate]
  /\ reg = [t \in Threads |-> 0]
  /\ index = [c \in Clients |-> 0]
  /\ command \in [Clients -> Commands]
  /\ sent = [c \in Clients |-> << >>]
===============================================================================
