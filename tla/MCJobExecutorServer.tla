--------------------------- MODULE MCJobExecutorServer ---------------------------
(*****************************************************************************)
(* Finite instances of JobExecutorServer for TLC.                            *)
(*****************************************************************************)
EXTENDS JobExecutorServer, TLC

IssueJob          == [mode |-> "issueJob", arg |-> 0]
SetConcurrency0   == [mode |-> "setConcurrency", arg |-> 0]
SetConcurrency1   == [mode |-> "setConcurrency", arg |-> 1]
SetConcurrency2   == [mode |-> "setConcurrency", arg |-> 2]
SetConcurrencyNaN == [mode |-> "setConcurrency", arg |-> NotANumber]
Poll              == [mode |-> "poll", arg |-> 0]
StopJob1          == [mode |-> "stop", arg |-> 1]
Exit              == [mode |-> "exit", arg |-> 0]
Invalid           == [mode |-> "invalid", arg |-> 0]

AllCommands == {IssueJob, SetConcurrency2, SetConcurrencyNaN, Poll, StopJob1,
                Exit, Invalid}

QueueDiscipline == {IssueJob, SetConcurrency2}
LevelChanges    == {IssueJob, SetConcurrency0, SetConcurrency1, Invalid}
OnlyIssueJob    == {IssueJob}
OnlyExit        == {Exit}
Removal         == {IssueJob, StopJob1}
Polling         == {IssueJob, Poll}

(* The commands of clients 1, 2 and 3, up to the clients' names, in the        *)
(* scenarios where a queue may stand still and be started again.              *)
BacklogInit ==
  /\ command \in {<<IssueJob, IssueJob, Invalid>>,
                  <<IssueJob, SetConcurrency0, SetConcurrency1>>}
  /\ Init

BacklogSpec == BacklogInit /\ [][Next]_vars /\ Fairness

(* A job that fills the queue, any second command (another job has to wait for *)
(* its place) and exit; or any two commands, beside a client after which no    *)
(* other is accepted.                                                        *)
ControllersInit ==
  /\ command \in {<<IssueJob, x, Exit>> : x \in AllCommands}
                 \cup {<<x, y, Invalid>> : x, y \in AllCommands}
  /\ Init

ControllersSpec == ControllersInit /\ [][Next]_vars /\ Fairness

Symmetry == Permutations(Workers) \cup Permutations(Clients)
===============================================================================
