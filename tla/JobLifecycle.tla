------------------------------- MODULE JobLifecycle -------------------------------
(*****************************************************************************)
(* What the server promises about the jobs it accepts, without its threads, *)
(* mutexes and counters: at most Capacity of them wait, they are started in *)
(* the order they were accepted, at most Slots run, and each one is         *)
(* answered with its output once.                                            *)
(*****************************************************************************)
EXTENDS Naturals, Sequences, FiniteSets

CONSTANTS
  Jobs,      \* a job is named by the client that issues it
  Capacity,  \* bufferSize
  Slots,     \* threadPoolSize
  MayLose    \* whether a started job may end without an output

VARIABLES waiting, running, finished

jobVars == <<waiting, running, finished>>

Waiting == {waiting[i] : i \in DOMAIN waiting}

Init ==
  /\ waiting = << >>
  /\ running = {}
  /\ finished = {}

Submit(j) ==
  /\ j \notin Waiting \cup running \cup finished
  /\ Len(waiting) < Capacity
  /\ waiting' = Append(waiting, j)
  /\ UNCHANGED <<running, finished>>

Start ==
  /\ waiting # << >>
  /\ Cardinality(running) < Slots
  /\ waiting' = Tail(waiting)
  /\ running' = running \cup {Head(waiting)}
  /\ UNCHANGED finished

Finish(j) ==
  /\ j \in running
  /\ running' = running \ {j}
  /\ finished' = finished \cup {j}
  /\ UNCHANGED waiting

Lose(j) ==
  /\ MayLose
  /\ j \in running
  /\ running' = running \ {j}
  /\ UNCHANGED <<waiting, finished>>

Next ==
  \/ Start
  \/ \E j \in Jobs : Submit(j) \/ Finish(j) \/ Lose(j)

Spec == Init /\ [][Next]_jobVars
===============================================================================
