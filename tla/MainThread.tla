------------------------------- MODULE MainThread -------------------------------
(*****************************************************************************)
(* Server::Process::run, the main thread: it accepts a connection, hands    *)
(* it to a new controller thread by the address of its own local, and waits *)
(* for that controller's leave before it accepts the next one.              *)
(*****************************************************************************)
EXTENDS ServerState

AcceptConnection(c) ==
  /\ At(Main, "accept")
  /\ At(c, "unborn")
  /\ client_socket' = c
  /\ continueExecution' = FALSE
  /\ Goto(Main, "create")
  /\ UNCHANGED <<process, mutex, blocked, queueVars, counterVars,
                 controllerStop, serverStop, clientSocket, triplate, reg,
                 index, sent>>

(* accept() or pthread_create() fails: run() returns false, main returns, and *)
(* the process ends under the threads that still work.                        *)
RunFails ==
  /\ AcceptMayFail
  /\ pc[Main] \in {"accept", "create"}
  /\ Goto(Main, "failed")
  /\ process' = "exited"
  /\ UNCHANGED <<mutex, blocked, queueVars, counterVars, flagVars, localVars,
                 sent>>

CreateController ==
  /\ At(Main, "create")
  /\ pc' = [pc EXCEPT ![Main] = "await", ![client_socket] = "start"]
  /\ UNCHANGED <<process, mutex, blocked, queueVars, counterVars, flagVars,
                 localVars, sent>>

(* Mutant: does not wait for the controller.                                 *)
AwaitNobody ==
  /\ At(Main, "await")
  /\ Goto(Main, "loop")
  /\ UNCHANGED <<process, mutex, blocked, queueVars, counterVars, flagVars,
                 localVars, sent>>

AwaitController ==
  /\ At(Main, "await")
  /\ Main \notin blocked["serverContinue"]
  /\ \/ /\ continueExecution
        /\ Goto(Main, "loop")
        /\ UNCHANGED blocked
     \/ /\ ~continueExecution
        /\ CondWait(Main, "serverContinue")
        /\ UNCHANGED pc
  /\ UNCHANGED <<process, mutex, queueVars, counterVars, flagVars, localVars,
                 sent>>

TestShouldStop ==
  /\ At(Main, "loop")
  /\ Goto(Main, IF serverStop THEN "closing" ELSE "accept")
  /\ UNCHANGED <<process, mutex, blocked, queueVars, counterVars, flagVars,
                 localVars, sent>>

(* The only wake-up the workers get for the end of the server.                *)
NotifyWorkersToExit ==
  /\ At(Main, "closing")
  /\ Section("worker")
  /\ CondBroadcast("worker")
  /\ Goto(Main, "join")
  /\ UNCHANGED <<process, queueVars, counterVars, flagVars, localVars, sent>>

JoinWorkers ==
  /\ At(Main, "join")
  /\ \A w \in Workers : At(w, "exited")
  /\ Goto(Main, "returned")
  /\ process' = "exited"
  /\ UNCHANGED <<mutex, blocked, queueVars, counterVars, flagVars, localVars,
                 sent>>

MainNext ==
  \/ \E c \in Clients : AcceptConnection(c)
  \/ RunFails
  \/ CreateController
  \/ AwaitController
  \/ TestShouldStop
  \/ NotifyWorkersToExit
  \/ JoinWorkers
===============================================================================
