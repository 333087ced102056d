------------------------------- MODULE Connection -------------------------------
(*****************************************************************************)
(* The connection of one client, and the server's end of it.  A message is  *)
(* two sends, its length and its text, and nothing keeps two threads that   *)
(* write to the same client apart.  Of the rest of the server this module   *)
(* keeps what JobExecutorServer implements: it says what MaySay allows.     *)
(*****************************************************************************)
EXTENDS Protocol, Integers, FiniteSets, SequencesExt

CONSTANTS
  ClientModes,  \* the commands the client may be started with
  BodyUnits,    \* the parts in which a text may arrive
  MaxJobs,      \* bound: the jobs that wait when the client polls
  MaxNotices,   \* bound: how often stop reports the client's job removed
  MaySplit,     \* whether a read may return less than was sent
  MayLeave,     \* whether the client may be killed
  MayEnd        \* whether the server may end

ASSUME ConnectionParameters ==
  /\ ClientModes \subseteq Modes
  /\ BodyUnits \in Nat \ {0}
  /\ MaxJobs \in Nat
  /\ MaxNotices \in Nat
  /\ {MaySplit, MayLeave, MayEnd} \subseteq BOOLEAN

VARIABLES
  mode,        \* the client's command
  pc,          \* what the client does next
  toServer,    \* how many units of the command the server has not read
  toClient,    \* the units the client has not read
  server,      \* "up", "ended" (exit, or an abort) or "sigpipe"
  reading,     \* what the controller reads next from the connection
  understood,  \* the mode it has made of the command, "none" before
  sent,        \* the messages begun, oldest first
  announced,   \* the number of jobs poll has announced
  writing,     \* the messages whose length is sent and whose text is not
  reset,       \* whether the client's host has refused a message
  overlapped   \* whether a message was begun inside another one

streamVars == <<toServer, toClient>>
serverVars == <<server, reading, understood, sent, announced, writing, reset,
                overlapped>>

(* Unit <<i, 0>> is the length of message i (or the number that poll           *)
(* announces), <<i, k>> part k of its text.                                  *)
Text(i) == [k \in 1 .. BodyUnits |-> <<i, k>>]

(* A read returns at least one unit, and at most those that have arrived.    *)
ReadSizes(arrived, wanted) ==
  LET most == IF arrived < wanted THEN arrived ELSE wanted
  IN  IF MaySplit THEN 1 .. most ELSE {most} \ {0}

(* The client's process has ended, and its host has closed the connection.    *)
Gone == pc \in {"done", "failed", "killed", "crashed"}

-------------------------------------------------------------------------------
(* receiveClientCommandFromSocket: two single reads.  Neither looks for an   *)
(* end of the stream, so that length, text or mode stay uninitialised.        *)

Garbled ==
  /\ Gone /\ toServer = 0
  /\ reading' = "nothing"
  /\ \/ understood' \in Modes /\ UNCHANGED server
     \/ server' = "ended" /\ UNCHANGED understood
  /\ UNCHANGED toServer

(* Mutant: does not wait for the text before it goes on.                     *)
ReadCommandAtOnce ==
  /\ reading = "length" /\ toServer > 0
  /\ toServer' = toServer - (BodyUnits + 1)
  /\ understood' = mode
  /\ reading' = "nothing"
  /\ UNCHANGED <<toClient, server, sent, announced, writing, reset, overlapped>>

ReadCommandLength ==
  /\ reading = "length"
  /\ \/ /\ toServer > 0
        /\ toServer' = toServer - 1
        /\ reading' = "text"
        /\ UNCHANGED <<server, understood>>
     \/ Garbled
  /\ UNCHANGED <<toClient, sent, announced, writing, reset, overlapped>>

ReadCommandText ==
  /\ reading = "text"
  /\ \/ \E k \in ReadSizes(toServer, BodyUnits) :
          /\ toServer' = toServer - k
          /\ understood' \in IF k = BodyUnits THEN {mode} ELSE {mode, "invalid"}
          /\ reading' = "nothing"
          /\ UNCHANGED server
     \/ Garbled
  /\ UNCHANGED <<toClient, sent, announced, writing, reset, overlapped>>

-------------------------------------------------------------------------------

(* One send().  What is sent to a client that has gone is lost and answered   *)
(* with a reset, as is the closing of a connection with unread data; a send  *)
(* after the reset raises SIGPIPE, which nobody handles.                      *)
Deliver(units) ==
  \/ ~Gone /\ toClient' = toClient \o units /\ UNCHANGED <<server, reset>>
  \/ Gone /\ reset' = TRUE /\ UNCHANGED <<toClient, server>>
  \/ /\ Gone /\ (reset \/ toClient # << >>)
     /\ server' = "sigpipe"
     /\ UNCHANGED <<toClient, reset>>

(* These come from other threads than the client's own controller.            *)
Foreign == {"OUTPUT", "TERMINATED BEFORE EXECUTION", "REMOVED BEFORE EXECUTION"}

MayBegin(m) ==
  /\ MaySay(understood, sent, m)
  /\ m \in Foreign \/ \A i \in writing : sent[i] \in Foreign
  /\ m = "JOB" => Len(sent) <= announced
  /\ m = "REMOVED BEFORE EXECUTION" =>
       Cardinality({i \in DOMAIN sent : sent[i] = m}) < MaxNotices

SendLength(m) ==
  /\ MayBegin(m)
  /\ sent' = Append(sent, m)
  /\ \/ m = "JOB COUNT" /\ announced' \in 0 .. MaxJobs /\ UNCHANGED writing
     \/ /\ m # "JOB COUNT"
        /\ writing' = writing \cup {Len(sent')}
        /\ UNCHANGED announced
  /\ overlapped' = (overlapped \/ writing # {})
  /\ Deliver(<< <<Len(sent'), 0>> >>)
  /\ UNCHANGED <<toServer, reading, understood>>

SendText(i) ==
  /\ writing' = writing \ {i}
  /\ Deliver(Text(i))
  /\ UNCHANGED <<toServer, reading, understood, sent, announced, overlapped>>

(* Another client's exit, or a call that throws in some thread: at any time.   *)
ServerEnds ==
  /\ MayEnd
  /\ server' = "ended"
  /\ UNCHANGED <<streamVars, reading, understood, sent, announced, writing,
                 reset, overlapped>>

ServerNext ==
  /\ server = "up"
  /\ \/ ReadCommandLength
     \/ ReadCommandText
     \/ \E m \in Messages : SendLength(m)
     \/ \E i \in writing : SendText(i)
     \/ ServerEnds
===============================================================================
