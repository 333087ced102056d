------------------------------ MODULE JobCommander ------------------------------
(*****************************************************************************)
(* jobCommander: the client process.  It connects, sends its command and    *)
(* receives the responses that its command calls for.                       *)
(*****************************************************************************)
EXTENDS Connection

VARIABLES
  todo,      \* the responses still to be received
  response,  \* serverResponse, as the units of its text
  partial,   \* what receiveIssueJobResponse has read of a text so far
  printed,   \* the responses printed, oldest first
  misread,   \* whether something else was taken for a length
  short      \* whether a receiver made do with a part of a text

clientVars == <<pc, todo, response, partial, printed, misread, short>>

(* Whatever is in memory behind the bytes read: only receiveIssueJobResponse  *)
(* terminates the string.                                                    *)
Junk == <<0, 0>>

Receiving == {"count", "length", "text"}

-------------------------------------------------------------------------------

(* The name may not be known, the socket not be created, nobody listen.      *)
Connect ==
  /\ pc = "connect"
  /\ \/ server = "up" /\ pc' = "sendLength" /\ reading' = "length"
     \/ pc' = "failed" /\ UNCHANGED reading
  /\ UNCHANGED <<streamVars, server, understood, sent, announced, writing,
                 reset, overlapped, todo, response, partial, printed, misread,
                 short>>

(* receiveServerResponse receives nothing for a command it does not know.     *)
FirstReceive ==
  CASE mode = "invalid" -> "done"
    [] mode = "poll"    -> "count"
    [] OTHER            -> "length"

(* Two sends; the second may meet the reset of a server that has ended.       *)
SendCommand ==
  /\ \/ pc = "sendLength" /\ pc' = "sendText" /\ toServer' = toServer + 1
     \/ pc = "sendText" /\ pc' = FirstReceive /\ toServer' = toServer + BodyUnits
     \/ /\ pc = "sendText" /\ server # "up"
        /\ pc' = "killed" /\ UNCHANGED toServer
  /\ UNCHANGED <<toClient, serverVars, todo, response, partial, printed, misread,
                 short>>

-------------------------------------------------------------------------------

AtEnd == toClient = << >> /\ server # "up"

(* A wrong length: its allocation throws, or a wrong number of bytes is        *)
(* printed, or, as long as the stream has not ended, waited for.             *)
Misread ==
  /\ misread' = TRUE
  /\ pc' \in {"crashed", "done"} \cup (IF AtEnd THEN {} ELSE {"stuck"})
  /\ UNCHANGED <<todo, response, partial, printed, short>>

(* An unsigned int never reaches an uninitialised count of 2^32 and more.     *)
EndlessCount ==
  /\ pc' = "stuck"
  /\ misread' = TRUE
  /\ UNCHANGED <<toClient, todo, response, partial, printed, short>>

(* Mutant: waits for a second response after a cancellation.                 *)
ReceivedTwo(text) ==
  /\ todo' = todo - 1
  /\ partial' = << >>
  /\ response' = text
  /\ printed' = IF mode = "issueJob" \/ todo = 1 THEN Append(printed, text)
                ELSE printed
  /\ pc' = IF todo = 1 THEN "done" ELSE "length"

(* Mutant: a job's client does not wait for a second response.               *)
ReceivedOne(text) ==
  /\ todo' = todo - 1
  /\ partial' = << >>
  /\ response' = text
  /\ printed' = IF mode = "issueJob" \/ todo = 1 THEN Append(printed, text)
                ELSE printed
  /\ pc' = IF mode = "issueJob" \/ todo = 1 THEN "done" ELSE "length"

(* The text is complete: a job's client prints it, and is done after two, or  *)
(* after a cancellation; the others print when they have all they expect.    *)
Received(text) ==
  LET last == \/ todo = 1
              \/ \E i \in DOMAIN sent : sent[i] = "CANCELED" /\ text = Text(i)
  IN  /\ todo' = todo - 1
      /\ partial' = << >>
      /\ response' = text
      /\ printed' = IF mode = "issueJob" \/ last THEN Append(printed, text)
                    ELSE printed
      /\ pc' = IF last THEN "done" ELSE "length"

(* The number of jobs that receivePollResponse is to receive.                *)
ReadCount ==
  /\ pc = "count"
  /\ \/ /\ toClient # << >>
        /\ toClient' = Tail(toClient)
        /\ todo' = announced
        /\ \/ announced > 0 /\ pc' = "length" /\ UNCHANGED printed
           \/ announced = 0 /\ pc' = "done" /\ printed' = Append(printed, response)
        /\ UNCHANGED <<response, partial, misread, short>>
     \/ AtEnd /\ Misread /\ UNCHANGED toClient
     \/ AtEnd /\ EndlessCount
  /\ UNCHANGED <<toServer, serverVars>>

(* Mutant: the end of the stream is not noticed by this receiver either.     *)
ReadLengthBlindly ==
  /\ pc = "length"
  /\ \/ /\ toClient # << >>
        /\ toClient' = Tail(toClient)
        /\ \/ /\ Head(toClient)[2] = 0
              /\ pc' = "text"
              /\ UNCHANGED <<todo, response, partial, printed, misread, short>>
           \/ Head(toClient)[2] # 0 /\ Misread
     \/ AtEnd /\ UNCHANGED <<toClient, clientVars>>
  /\ UNCHANGED <<toServer, serverVars>>

(* At the end of the stream receiveIssueJobResponse returns and leaves the    *)
(* response as it was; the others use a length nobody has set.               *)
ReadLength ==
  /\ pc = "length"
  /\ \/ /\ toClient # << >>
        /\ toClient' = Tail(toClient)
        /\ \/ /\ Head(toClient)[2] = 0
              /\ pc' = "text"
              /\ UNCHANGED <<todo, response, partial, printed, misread, short>>
           \/ Head(toClient)[2] # 0 /\ Misread
     \/ /\ AtEnd
        /\ \/ mode = "issueJob" /\ Received(response) /\ UNCHANGED <<misread, short>>
           \/ mode # "issueJob" /\ Misread
        /\ UNCHANGED toClient
  /\ UNCHANGED <<toServer, serverVars>>

(* Mutant: reads the text of a job's response once, like the others.         *)
ReadOnce ==
  /\ pc = "text" /\ mode = "issueJob"
  /\ \E k \in ReadSizes(Len(toClient), BodyUnits) :
       /\ toClient' = SubSeq(toClient, k + 1, Len(toClient))
       /\ Received(SubSeq(toClient, 1, k))
  /\ UNCHANGED <<toServer, serverVars, misread, short>>

(* Reads until the text is whole.  At the end of the stream read() returns 0  *)
(* again and again, and the loop never ends: no step.                        *)
ReadWholeText ==
  /\ pc = "text" /\ mode = "issueJob"
  /\ \E k \in ReadSizes(Len(toClient), BodyUnits - Len(partial)) :
       LET text == partial \o SubSeq(toClient, 1, k)
       IN  /\ toClient' = SubSeq(toClient, k + 1, Len(toClient))
           /\ \/ Len(text) = BodyUnits /\ Received(text)
              \/ /\ Len(text) < BodyUnits
                 /\ partial' = text
                 /\ UNCHANGED <<pc, todo, response, printed>>
  /\ UNCHANGED <<toServer, serverVars, misread, short>>

(* Mutant: poll keeps the last job only.                                     *)
ReadTextOver ==
  /\ pc = "text" /\ mode # "issueJob"
  /\ \E k \in ReadSizes(Len(toClient), BodyUnits) \cup {0} :
       /\ k = 0 => AtEnd
       /\ toClient' = SubSeq(toClient, k + 1, Len(toClient))
       /\ \E tail \in {<< >>, <<Junk>>} :
            Received(SubSeq(toClient, 1, k) \o tail)
       /\ short' = (short \/ k < BodyUnits)
  /\ UNCHANGED <<toServer, serverVars, misread>>

(* One read, which may find a part of the text or, at the end of the stream,   *)
(* nothing; poll appends what it gets to what it had.                        *)
ReadText ==
  /\ pc = "text" /\ mode # "issueJob"
  /\ \E k \in ReadSizes(Len(toClient), BodyUnits) \cup {0} :
       /\ k = 0 => AtEnd
       /\ toClient' = SubSeq(toClient, k + 1, Len(toClient))
       /\ \E tail \in {<< >>, <<Junk>>} :
            Received(response \o SubSeq(toClient, 1, k) \o tail)
       /\ short' = (short \/ k < BodyUnits)
  /\ UNCHANGED <<toServer, serverVars, misread>>

(* The user, or a signal, ends the client.                                   *)
Leave ==
  /\ MayLeave /\ ~Gone
  /\ pc' = "killed"
  /\ UNCHANGED <<streamVars, serverVars, todo, response, partial, printed,
                 misread, short>>

ClientNext ==
  \/ Connect
  \/ SendCommand
  \/ ReadCount
  \/ ReadLength
  \/ ReadWholeText
  \/ ReadText
===============================================================================
