-------------------------------- MODULE Protocol --------------------------------
(*****************************************************************************)
(* What client and server say to each other: the modes of a command, the    *)
(* kinds of answer, and the order in which answers may come.                *)
(*****************************************************************************)
EXTENDS Sequences

Modes == {"issueJob", "setConcurrency", "poll", "stop", "exit", "invalid"}

(* What the client of a job may be told.  Its controller sends the first two, *)
(* a worker the output, other clients' controllers the rest.                  *)
JobMessages == {"SUBMITTED", "CANCELED", "OUTPUT", "TERMINATED BEFORE EXECUTION",
                "REMOVED BEFORE EXECUTION"}

Messages == JobMessages \cup {"CONCURRENCY SET", "JOB COUNT", "JOB", "REMOVED",
                              "NOTFOUND", "SERVER TERMINATED"}

Said(said, m) == \E i \in DOMAIN said : said[i] = m

(* Whether a client in this mode, told said so far, may be told m next.  A    *)
(* cancelled job is never heard of again.  A job is reported submitted, run   *)
(* and drained by exit once each, in any order.  Only stop may report its     *)
(* removal more than once, when two clients stop the same job.                *)
MaySay(mode, said, m) ==
  \/ /\ mode = "issueJob"
     /\ m \in JobMessages
     /\ ~Said(said, "CANCELED")
     /\ m = "CANCELED" => said = << >>
     /\ m # "REMOVED BEFORE EXECUTION" => ~Said(said, m)
  \/ /\ mode = "poll"
     /\ m = IF said = << >> THEN "JOB COUNT" ELSE "JOB"
  \/ /\ said = << >>
     /\ \/ mode = "setConcurrency" /\ m = "CONCURRENCY SET"
        \/ mode = "stop" /\ m \in {"REMOVED", "NOTFOUND"}
        \/ mode = "exit" /\ m = "SERVER TERMINATED"
===============================================================================
