------------------------------ MODULE ClientServer ------------------------------
(*****************************************************************************)
(* A client and the server at the two ends of one connection.               *)
(*****************************************************************************)
EXTENDS JobCommander

vars == <<mode, streamVars, serverVars, clientVars>>

Init ==
  /\ mode \in ClientModes
  /\ pc = "connect"
  /\ toServer = 0
  /\ toClient = << >>
  /\ server = "up"
  /\ reading = "nothing"
  /\ understood = "none"
  /\ sent = << >>
  /\ announced = 0
  /\ writing = {}
  /\ reset = FALSE
  /\ overlapped = FALSE
  /\ todo = IF mode = "issueJob" THEN 2 ELSE 1
  /\ response = << >>
  /\ partial = << >>
  /\ printed = << >>
  /\ misread = FALSE
  /\ short = FALSE

Next ==
  /\ UNCHANGED mode
  /\ \/ ClientNext
     \/ Leave
     \/ ServerNext /\ UNCHANGED clientVars

Spec == Init /\ [][Next]_vars

(* The client's process is scheduled.  Nothing is asked of the server: what   *)
(* it must say, and when, is the matter of JobExecutorServer.                 *)
FairSpec == Spec /\ WF_vars(ClientNext /\ UNCHANGED mode)

-------------------------------------------------------------------------------

Unit == (Nat \X Nat)

PcLabels == {"connect", "sendLength", "sendText", "count", "length", "text",
             "done", "failed", "killed", "crashed", "stuck"}

(* The variables keep the types of what they model.                          *)
TypeOK ==
  /\ mode \in ClientModes
  /\ pc \in PcLabels
  /\ toServer \in 0 .. BodyUnits + 1
  /\ toClient \in Seq(Unit)
  /\ server \in {"up", "ended", "sigpipe"}
  /\ reading \in {"length", "text", "nothing"}
  /\ understood \in Modes \cup {"none"}
  /\ sent \in Seq(Messages)
  /\ announced \in 0 .. MaxJobs
  /\ writing \subseteq DOMAIN sent
  /\ todo \in Nat
  /\ response \in Seq(Unit)
  /\ partial \in Seq(Unit)
  /\ printed \in Seq(Seq(Unit))
  /\ {reset, overlapped, misread, short} \subseteq BOOLEAN

(* A job's client takes a text for a length only if two threads wrote to it   *)
(* at once; any other only after it made do with a part of a text, or when   *)
(* the server has ended (clientReceivers.cpp:29, 88, 128, 137, 167, 200).    *)
FramesKept ==
  misread => overlapped \/ (mode # "issueJob" /\ (short \/ server # "up"))

(* text is the texts of messages first to last: each of them whole, after the *)
(* one before, and perhaps with a trail of memory behind it.                  *)
Joined(text, first, last) ==
  \E ends \in [first - 1 .. last -> 0 .. Len(text)] :
    /\ ends[first - 1] = 0
    /\ ends[last] = Len(text)
    /\ \A m \in first .. last : \E trail \in {<< >>, <<Junk>>} :
         SubSeq(text, ends[m - 1] + 1, ends[m]) = Text(m) \o trail

(* What is printed is what was sent, whole and in the order it was sent in,   *)
(* unless two messages overlapped or a receiver made do with a part: poll     *)
(* prints all the jobs that were announced, and nothing besides.  A job's     *)
(* client whose server has ended prints its last response again instead       *)
(* (clientReceivers.cpp:33-36, 138, client.cpp:136-140).                     *)
PrintedIsSent ==
  ~(overlapped \/ short \/ misread) =>
    \A i \in DOMAIN printed :
      CASE mode = "issueJob" ->
             \/ i \in DOMAIN sent /\ printed[i] = Text(i)
             \/ /\ server # "up"
                /\ printed[i] = IF i = 1 THEN << >> ELSE printed[i - 1]
        [] mode = "poll" -> Joined(printed[i], 2, announced + 1)
        [] OTHER -> Joined(printed[i], 1, 1)

(* The server dies of a broken pipe only if the client was killed, its        *)
(* messages overlapped or were read in part, or it was told more than the     *)
(* two things it waits for (workerThread.cpp:236-237, client.cpp:135-141).   *)
BrokenPipeHasCause ==
  server = "sigpipe" =>
    pc = "killed" \/ overlapped \/ short \/ Len(sent) > 2

-------------------------------------------------------------------------------

(* Everything the client waits for has been said, one message after another.  *)
Answered ==
  /\ writing = {} /\ ~overlapped
  /\ CASE mode = "issueJob" -> Len(sent) >= 2 \/ Said(sent, "CANCELED")
       [] mode = "poll"     -> sent # << >> /\ Len(sent) = announced + 1
       [] OTHER             -> sent # << >>

(* A client that has got its answer ends, however the answer arrives          *)
(* (client.cpp:127-168).                                                      *)
AnsweredClientEnds == Answered ~> Gone \/ short

(* A client whose server ends, and does not end inside a message, ends too,   *)
(* with or without an answer (clientReceivers.cpp:29-36).                     *)
OrphanEnds ==
  (server # "up" /\ writing = {} /\ ~overlapped)
    ~> Gone \/ short \/ (mode = "poll" /\ sent = << >>)

===============================================================================
