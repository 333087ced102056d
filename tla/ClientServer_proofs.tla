---------------------------- MODULE ClientServer_proofs ----------------------------
(*****************************************************************************)
(* A client and the server on one connection: proofs for every length of a  *)
(* text, every number of jobs and notices, and every way the reads split.    *)
(*                                                                           *)
(* As long as no two messages overlap and no receiver makes do with a part   *)
(* of a text, the units on their way follow one another, from the one the    *)
(* client reads next to the one before the one the server sends next.        *)
(*****************************************************************************)
EXTENDS ClientServer, SequenceTheorems, TLAPS

(* The labels of a client that is still in its protocol.                     *)
Live == {"connect", "sendLength", "sendText", "count", "length", "text"}

(* The command is on its way or understood, and nothing is said before that.  *)
CommandInv ==
  /\ understood = "none" => sent = << >>
  /\ understood # "none" => reading = "nothing"
  /\ pc \in {"connect", "failed"} => reading = "nothing" /\ understood = "none"
  /\ pc = "connect" => toServer = 0
  /\ pc = "sendLength" => reading = "length" /\ toServer = 0
  /\ pc = "sendText" => \/ reading = "length" /\ toServer = 1
                        \/ reading = "text" /\ toServer = 0
  /\ pc \in {"count", "length", "text", "done", "crashed", "stuck"} =>
       \/ understood \in {mode, "invalid"}
       \/ understood = "none" /\ reading = "length" /\ toServer = BodyUnits + 1
       \/ understood = "none" /\ reading = "text" /\ toServer = BodyUnits

(* What has been said to a client that has not been killed.                  *)
SentInv ==
  pc # "killed" =>
    /\ understood = "invalid" => sent = << >>
    /\ Said(sent, "CANCELED") => mode = "issueJob" /\ Len(sent) = 1
    /\ mode = "poll" => Len(sent) <= announced + 1
    /\ mode \notin {"issueJob", "poll"} => Len(sent) <= 1
    /\ \A i \in DOMAIN sent : sent[i] = "JOB COUNT" <=> mode = "poll" /\ i = 1

(* What a receiver has still to receive.                                     *)
ReceiverInv ==
  /\ toClient # << >> => sent # << >>
  /\ mode = "invalid" => pc \notin {"count", "length", "text"}
  /\ pc = "count" => mode = "poll"
  /\ pc \in {"length", "text"} =>
       /\ mode = "issueJob" => todo \in 1 .. 2
       /\ mode = "poll" => todo \in 1 .. announced /\ sent # << >>
       /\ mode \notin {"issueJob", "poll"} => todo = 1
  /\ pc \in Live \ {"length", "text"} => todo = IF mode = "issueJob" THEN 2 ELSE 1
  /\ pc \in Live \ {"text"} => partial = << >>
  /\ pc = "text" => Len(partial) < BodyUnits
  /\ mode # "issueJob" => partial = << >>
  /\ short => mode # "issueJob"

(* The last part of message i: poll's first is a number and no more.         *)
LastPart(i) == IF mode = "poll" /\ i = 1 THEN 0 ELSE BodyUnits

(* The message a receiver is at, and the part it reads next.                 *)
Current ==
  CASE mode = "issueJob" -> 3 - todo
    [] mode = "poll" -> IF pc \in {"length", "text"} THEN announced + 2 - todo ELSE 1
    [] OTHER -> 1

Expected == <<Current, IF pc = "text" THEN Len(partial) + 1 ELSE 0>>

(* The unit the server sends next.                                           *)
NextSent == IF writing = {} THEN <<Len(sent) + 1, 0>> ELSE <<Len(sent), 1>>

(* The units of s follow one another as they were sent.                      *)
InOrder(s) ==
  \A i, j \in DOMAIN s : i <= j =>
    LET n == s[i][2] + (j - i)
    IN  /\ n <= LastPart(s[i][1]) => s[j] = <<s[i][1], n>>
        /\ n = LastPart(s[i][1]) + 1 => s[j] = <<s[i][1] + 1, 0>>

(* s is what lies between the unit that the client reads next and the unit   *)
(* that the server sends next.                                               *)
Between(s, first) ==
  /\ writing \subseteq {Len(sent)}
  /\ \A i \in writing : LastPart(i) # 0
  /\ \A i \in DOMAIN s :
       /\ s[i][1] \in 1 .. Len(sent)
       /\ s[i][2] \in 0 .. LastPart(s[i][1])
  /\ InOrder(s)
  /\ s # << >> =>
       /\ s[1] = first
       /\ s[Len(s)] = <<Len(sent), IF writing = {} THEN LastPart(Len(sent)) ELSE 0>>
  /\ s = << >> /\ server = "up" => first = NextSent

(* As long as no messages have overlapped, and no part of a text has been     *)
(* taken for the whole, the receiver is where the stream is.                 *)
StreamInv ==
  (~overlapped /\ ~short /\ pc \in Live) => Between(toClient, Expected)

(* The client has been told all it waits for, or more.                       *)
Told ==
  \/ Len(sent) > 2
  \/ /\ writing = {}
     /\ mode = "issueJob" => Len(sent) = 2 \/ Said(sent, "CANCELED")
     /\ mode = "poll" => Len(sent) = announced + 1
     /\ mode = "invalid" => sent = << >>
     /\ mode \notin {"issueJob", "poll", "invalid"} => Len(sent) = 1

(* A client that has ended by itself has got all it can be told.             *)
DoneInv ==
  /\ pc = "crashed" => misread
  /\ (pc = "done" /\ server = "up" /\ ~overlapped /\ ~short) => Told

(* What a job's client prints i-th: what it was sent i-th, or, of a server    *)
(* that has ended, the response before.                                      *)
PrintedRight(i) ==
  \/ i \in DOMAIN sent /\ printed[i] = Text(i)
  \/ /\ server # "up"
     /\ printed[i] = IF i = 1 THEN << >> ELSE printed[i - 1]

(* What a job's client has printed.                                          *)
PrintInv ==
  (mode = "issueJob" /\ ~overlapped) =>
    /\ pc \in Live => Len(printed) = 2 - todo
    /\ response = IF printed = << >> THEN << >> ELSE printed[Len(printed)]
    /\ \A k \in DOMAIN partial : partial[k] = <<Current, k>>
    /\ \A i \in DOMAIN printed : PrintedRight(i)

(* The first text a receiver other than a job's waits for, and the last it    *)
(* has read.                                                                  *)
FirstText == IF mode = "poll" THEN 2 ELSE 1

LastRead == IF pc \in {"length", "text"} THEN Current - 1 ELSE FirstText - 1

(* What any other client has gathered so far, and what it has printed.        *)
TextsInv ==
  (mode # "issueJob" /\ ~overlapped /\ ~short) =>
    /\ pc \in Live => printed = << >> /\ Joined(response, FirstText, LastRead)
    /\ printed # << >> => sent # << >>
    /\ \A i \in DOMAIN printed :
         Joined(printed[i], FirstText, IF mode = "poll" THEN announced + 1 ELSE 1)

(* The inductive invariant.                                                  *)
ConnectionInv ==
  /\ TypeOK
  /\ CommandInv
  /\ SentInv
  /\ ReceiverInv
  /\ StreamInv
  /\ DoneInv
  /\ PrintInv
  /\ TextsInv
  /\ FramesKept
  /\ BrokenPipeHasCause

-------------------------------------------------------------------------------
(* Sequences of units                                                        *)

(* What is left of a stream, or of a text, after k units have been read.      *)
LEMMA UnitsRead ==
  ASSUME NEW s \in Seq(Unit), NEW k \in 0 .. Len(s)
  PROVE  /\ SubSeq(s, k + 1, Len(s)) \in Seq(Unit)
         /\ Len(SubSeq(s, k + 1, Len(s))) = Len(s) - k
         /\ \A i \in 1 .. Len(s) - k : SubSeq(s, k + 1, Len(s))[i] = s[k + i]
         /\ SubSeq(s, 1, k) \in Seq(Unit)
         /\ Len(SubSeq(s, 1, k)) = k
         /\ \A i \in 1 .. k : SubSeq(s, 1, k)[i] = s[i]
<1>0. Len(s) \in Nat
  BY LenProperties
<1>1. \A i \in k + 1 .. Len(s) : s[i] \in Unit
  BY <1>0, ElementOfSeq
<1>2. \A i \in 1 .. k : s[i] \in Unit
  BY <1>0, ElementOfSeq
<1>3. /\ SubSeq(s, k + 1, Len(s)) \in Seq(Unit)
      /\ Len(SubSeq(s, k + 1, Len(s))) =
           IF k + 1 <= Len(s) THEN Len(s) - (k + 1) + 1 ELSE 0
      /\ \A i \in 1 .. Len(s) - (k + 1) + 1 :
           SubSeq(s, k + 1, Len(s))[i] = s[k + 1 + i - 1]
  BY <1>0, <1>1, SubSeqProperties
<1>4. /\ SubSeq(s, 1, k) \in Seq(Unit)
      /\ Len(SubSeq(s, 1, k)) = IF 1 <= k THEN k - 1 + 1 ELSE 0
      /\ \A i \in 1 .. k - 1 + 1 : SubSeq(s, 1, k)[i] = s[1 + i - 1]
  BY <1>0, <1>2, SubSeqProperties
<1> QED BY <1>0, <1>3, <1>4

(* A text is its parts in order.                                             *)
LEMMA TextType ==
  ASSUME NEW n \in Nat
  PROVE  /\ Text(n) \in Seq(Unit)
         /\ Len(Text(n)) = BodyUnits
         /\ BodyUnits \in Nat \ {0}
         /\ \A k \in 1 .. BodyUnits : Text(n)[k] = <<n, k>>
<1>1. BodyUnits \in Nat \ {0}
  BY ConnectionParameters
<1>2. Text(n) \in [1 .. BodyUnits -> Unit]
  BY <1>1 DEF Text, Unit
<1>3. Text(n) \in Seq(Unit) /\ Len(Text(n)) = BodyUnits
  BY <1>1, <1>2
<1> QED BY <1>1, <1>3 DEF Text

(* A read returns some of what has arrived, and no more than was asked for.   *)
LEMMA ReadBounds ==
  ASSUME NEW arrived \in Nat, NEW wanted \in Nat, NEW k \in ReadSizes(arrived, wanted)
  PROVE  k \in Nat \ {0} /\ k <= arrived /\ k <= wanted
<1>1. MaySplit \in BOOLEAN
  BY ConnectionParameters
<1>2. CASE arrived < wanted
  BY <1>1, <1>2 DEF ReadSizes
<1>3. CASE ~(arrived < wanted)
  BY <1>1, <1>3 DEF ReadSizes
<1> QED BY <1>2, <1>3

-------------------------------------------------------------------------------
(* Types                                                                     *)

(* A response that is complete is counted off, and kept.                     *)
LEMMA ReceivedType ==
  ASSUME TypeOK, todo # 0, NEW text \in Seq(Unit), Received(text)
  PROVE  /\ pc' \in {"done", "length"}
         /\ todo' \in Nat
         /\ partial' \in Seq(Unit)
         /\ response' \in Seq(Unit)
         /\ printed' \in Seq(Seq(Unit))
<1>1. /\ todo' = todo - 1 /\ todo \in Nat \ {0}
      /\ partial' = << >> /\ response' = text
      /\ printed' \in {printed, Append(printed, text)}
      /\ pc' \in {"done", "length"}
  BY DEF Received, TypeOK
<1>2. Append(printed, text) \in Seq(Seq(Unit))
  BY AppendProperties DEF TypeOK
<1>3. todo - 1 \in Nat
  BY <1>1
<1>4. printed' \in Seq(Seq(Unit))
  BY <1>1, <1>2 DEF TypeOK
<1> QED BY <1>1, <1>3, <1>4, EmptySeq

(* What a send leaves in the stream is a stream.                             *)
LEMMA DeliverType ==
  ASSUME TypeOK, server = "up", NEW units \in Seq(Unit), Deliver(units)
  PROVE  /\ toClient' \in Seq(Unit)
         /\ server' \in {"up", "sigpipe"}
         /\ reset' \in BOOLEAN
<1>1. toClient \o units \in Seq(Unit)
  BY ConcatProperties DEF TypeOK
<1> QED BY <1>1 DEF Deliver, TypeOK

(* One more message is begun.                                                *)
LEMMA OneMore ==
  ASSUME NEW s \in Seq(Messages), NEW m \in Messages
  PROVE  /\ Append(s, m) \in Seq(Messages)
         /\ Len(s) \in Nat
         /\ Len(Append(s, m)) = Len(s) + 1
         /\ DOMAIN s = 1 .. Len(s)
         /\ DOMAIN Append(s, m) = 1 .. Len(s) + 1
         /\ Append(s, m)[Len(s) + 1] = m
         /\ \A i \in 1 .. Len(s) : Append(s, m)[i] = s[i]
         /\ \A x : Said(Append(s, m), x) <=> Said(s, x) \/ m = x
<1>1. /\ Append(s, m) \in Seq(Messages)
      /\ Len(s) \in Nat
      /\ Len(Append(s, m)) = Len(s) + 1
      /\ Append(s, m)[Len(s) + 1] = m
      /\ \A i \in 1 .. Len(s) : Append(s, m)[i] = s[i]
  BY AppendProperties, LenProperties
<1>2. DOMAIN s = 1 .. Len(s) /\ DOMAIN Append(s, m) = 1 .. Len(s) + 1
  BY <1>1, LenProperties
<1>3. ASSUME NEW x PROVE Said(Append(s, m), x) <=> Said(s, x) \/ m = x
  <2>1. ASSUME NEW i \in 1 .. Len(s) + 1 PROVE i \in 1 .. Len(s) \/ i = Len(s) + 1
    BY <1>1
  <2>2. \A i \in 1 .. Len(s) : i \in 1 .. Len(s) + 1
    BY <1>1
  <2>3. Len(s) + 1 \in 1 .. Len(s) + 1
    BY <1>1
  <2>4. ASSUME Said(Append(s, m), x) PROVE Said(s, x) \/ m = x
    <3>1. PICK i \in 1 .. Len(s) + 1 : Append(s, m)[i] = x
      BY <1>2, <2>4 DEF Said
    <3> QED BY <1>1, <1>2, <2>1, <3>1 DEF Said
  <2>5. Said(s, x) => Said(Append(s, m), x)
    BY <1>1, <1>2, <2>2 DEF Said
  <2>6. m = x => Said(Append(s, m), x)
    BY <1>1, <1>2, <2>3 DEF Said
  <2> QED BY <2>4, <2>5, <2>6
<1> QED BY <1>1, <1>2, <1>3

(* A step of the client keeps the types.                                     *)
LEMMA ClientTypes ==
  ASSUME TypeOK, CommandInv, ReceiverInv, UNCHANGED mode, ClientNext
  PROVE  TypeOK'
<1> USE DEF serverVars
<1>0. BodyUnits \in Nat \ {0} /\ Len(partial) \in Nat /\ Len(toClient) \in Nat
  BY ConnectionParameters, LenProperties DEF TypeOK
<1>1. CASE Connect
  BY <1>1 DEF Connect, TypeOK, PcLabels, streamVars
<1>2. CASE SendCommand
  BY <1>0, <1>2 DEF SendCommand, TypeOK, PcLabels, FirstReceive, CommandInv
<1>3. CASE ReadCount
  <2>1. toClient # << >> => Tail(toClient) \in Seq(Unit)
    BY HeadTailProperties DEF TypeOK
  <2>2. Append(printed, response) \in Seq(Seq(Unit))
    BY AppendProperties DEF TypeOK
  <2>3. announced \in Nat
    BY ConnectionParameters DEF TypeOK
  <2>4. printed' \in Seq(Seq(Unit)) /\ todo' \in Nat /\ toClient' \in Seq(Unit)
    BY <1>3, <2>1, <2>2, <2>3 DEF ReadCount, TypeOK, Misread, EndlessCount
  <2> QED BY <1>3, <2>4
          DEF ReadCount, TypeOK, PcLabels, Misread, EndlessCount
<1>4. CASE ReadLength
  <2>1. toClient # << >> => Tail(toClient) \in Seq(Unit)
    BY HeadTailProperties DEF TypeOK
  <2>2. CASE Received(response) /\ UNCHANGED <<toClient, misread, short>>
    <3>1. todo # 0
      BY <1>4 DEF ReadLength, ReceiverInv
    <3>2. /\ pc' \in PcLabels /\ todo' \in Nat
          /\ partial' \in Seq(Unit) /\ response' \in Seq(Unit)
          /\ printed' \in Seq(Seq(Unit))
      BY <2>2, <3>1, ReceivedType DEF TypeOK, PcLabels
    <3> QED BY <1>4, <2>2, <3>2 DEF ReadLength, TypeOK
  <2> QED BY <1>4, <2>1, <2>2 DEF ReadLength, TypeOK, PcLabels, Misread
<1>5. CASE ReadWholeText
  <2>1. PICK k \in ReadSizes(Len(toClient), BodyUnits - Len(partial)) :
          /\ toClient' = SubSeq(toClient, k + 1, Len(toClient))
          /\ \/ Received(partial \o SubSeq(toClient, 1, k))
             \/ /\ partial' = partial \o SubSeq(toClient, 1, k)
                /\ UNCHANGED <<pc, todo, response, printed>>
    BY <1>5 DEF ReadWholeText
  <2>2. k \in 0 .. Len(toClient)
    BY <1>0, <1>5, ReadBounds DEF ReadWholeText, ReceiverInv
  <2>3. toClient' \in Seq(Unit) /\ SubSeq(toClient, 1, k) \in Seq(Unit)
    BY <2>1, <2>2, UnitsRead DEF TypeOK
  <2>4. partial \o SubSeq(toClient, 1, k) \in Seq(Unit)
    BY <2>3, ConcatProperties DEF TypeOK
  <2>5. todo # 0 /\ pc = "text"
    BY <1>5 DEF ReadWholeText, ReceiverInv
  <2>6. /\ pc' \in PcLabels /\ todo' \in Nat
        /\ partial' \in Seq(Unit) /\ response' \in Seq(Unit)
        /\ printed' \in Seq(Seq(Unit))
    BY <2>1, <2>4, <2>5, ReceivedType DEF TypeOK, PcLabels
  <2> QED BY <1>5, <2>3, <2>6 DEF ReadWholeText, TypeOK
<1>6. CASE ReadText
  <2>1. PICK k \in ReadSizes(Len(toClient), BodyUnits) \cup {0}, tail \in {<< >>, <<Junk>>} :
          /\ toClient' = SubSeq(toClient, k + 1, Len(toClient))
          /\ Received(response \o SubSeq(toClient, 1, k) \o tail)
          /\ short' = (short \/ k < BodyUnits)
    BY <1>6 DEF ReadText
  <2>2. k \in 0 .. Len(toClient)
    BY <1>0, ReadBounds
  <2>3. toClient' \in Seq(Unit) /\ SubSeq(toClient, 1, k) \in Seq(Unit)
    BY <2>1, <2>2, UnitsRead DEF TypeOK
  <2>4. response \o SubSeq(toClient, 1, k) \o tail \in Seq(Unit)
    <3>1. response \o SubSeq(toClient, 1, k) \in Seq(Unit)
      BY <2>3, ConcatProperties DEF TypeOK
    <3>2. Junk \in Unit
      BY DEF Junk, Unit
    <3>3. tail \in Seq(Unit)
      <4>1. << >> \in Seq(Unit)
        BY EmptySeq
      <4>2. <<Junk>> \in Seq(Unit)
        BY <3>2
      <4> QED BY <4>1, <4>2
    <3> QED BY <3>1, <3>3, ConcatProperties
  <2>5. todo # 0
    BY <1>6 DEF ReadText, ReceiverInv
  <2>6. /\ pc' \in PcLabels /\ todo' \in Nat
        /\ partial' \in Seq(Unit) /\ response' \in Seq(Unit)
        /\ printed' \in Seq(Seq(Unit))
    BY <2>1, <2>4, <2>5, ReceivedType DEF PcLabels
  <2> QED BY <1>6, <2>1, <2>3, <2>6 DEF ReadText, TypeOK
<1> QED BY <1>1, <1>2, <1>3, <1>4, <1>5, <1>6 DEF ClientNext

(* A step of the server keeps the types.                                     *)
LEMMA ServerTypes ==
  ASSUME TypeOK, UNCHANGED mode, ServerNext, UNCHANGED clientVars
  PROVE  TypeOK'
<1> USE DEF clientVars
<1>0. BodyUnits \in Nat \ {0} /\ ClientModes \subseteq Modes
  BY ConnectionParameters
<1>1. CASE ReadCommandLength
  BY <1>0, <1>1 DEF ReadCommandLength, Garbled, TypeOK
<1>2. CASE ReadCommandText
  <2>1. ASSUME NEW k \in ReadSizes(toServer, BodyUnits) PROVE toServer - k \in 0 .. toServer
    BY <1>0, <2>1, ReadBounds DEF TypeOK
  <2>2. "invalid" \in Modes
    BY DEF Modes
  <2> QED BY <1>0, <1>2, <2>1, <2>2 DEF ReadCommandText, Garbled, TypeOK
<1>3. ASSUME NEW m \in Messages, SendLength(m) PROVE TypeOK'
  <2>1. /\ sent' \in Seq(Messages) /\ Len(sent') = Len(sent) + 1 /\ Len(sent) \in Nat
        /\ DOMAIN sent' = 1 .. Len(sent) + 1 /\ DOMAIN sent = 1 .. Len(sent)
    BY <1>3, OneMore DEF SendLength, TypeOK
  <2>2. << <<Len(sent'), 0>> >> \in Seq(Unit)
    BY <2>1 DEF Unit
  <2>3. toClient' \in Seq(Unit) /\ server' \in {"up", "sigpipe"} /\ reset' \in BOOLEAN
    BY <1>3, <2>2, DeliverType DEF SendLength, ServerNext
  <2>4. writing' \subseteq DOMAIN sent'
    <3>1. /\ writing \subseteq 1 .. Len(sent)
          /\ writing' \subseteq writing \cup {Len(sent) + 1}
      BY <1>3, <2>1 DEF SendLength, TypeOK
    <3>2. 1 .. Len(sent) \subseteq 1 .. Len(sent) + 1 /\ Len(sent) + 1 \in 1 .. Len(sent) + 1
      BY <2>1
    <3> QED BY <2>1, <3>1, <3>2
  <2>5. announced' \in 0 .. MaxJobs /\ overlapped' \in BOOLEAN
    BY <1>3 DEF SendLength, TypeOK
  <2> QED BY <1>3, <2>1, <2>3, <2>4, <2>5 DEF SendLength, TypeOK
<1>4. ASSUME NEW i \in writing, SendText(i) PROVE TypeOK'
  <2>1. Text(i) \in Seq(Unit)
    BY TextType, LenProperties DEF TypeOK
  <2>2. toClient' \in Seq(Unit) /\ server' \in {"up", "sigpipe"} /\ reset' \in BOOLEAN
    BY <1>4, <2>1, DeliverType DEF SendText, ServerNext
  <2> QED BY <1>4, <2>2 DEF SendText, TypeOK
<1>5. CASE ServerEnds
  BY <1>5 DEF ServerEnds, TypeOK, streamVars
<1> QED BY <1>1, <1>2, <1>3, <1>4, <1>5 DEF ServerNext

(* Every step keeps the types.                                               *)
LEMMA StepTypes ==
  ASSUME TypeOK, CommandInv, ReceiverInv, [Next]_vars
  PROVE  TypeOK'
<1>1. CASE Leave /\ UNCHANGED mode
  BY <1>1 DEF Leave, TypeOK, PcLabels, streamVars, serverVars
<1>2. CASE UNCHANGED vars
  BY <1>2 DEF vars, streamVars, serverVars, clientVars, TypeOK
<1> QED BY <1>1, <1>2, ClientTypes, ServerTypes DEF Next

-------------------------------------------------------------------------------
(* What has been understood and said                                         *)

(* A receiver only reads.                                                    *)
LEMMA ReceiversRead ==
  ASSUME ReadCount \/ ReadLength \/ ReadWholeText \/ ReadText
  PROVE  /\ UNCHANGED <<toServer, serverVars>>
         /\ pc \in {"count", "length", "text"}
         /\ pc' \in {"length", "text", "done", "crashed", "stuck"}
<1>1. CASE ReadCount
  BY <1>1 DEF ReadCount, Misread, EndlessCount
<1>2. CASE ReadLength
  BY <1>2 DEF ReadLength, Misread, Received
<1>3. CASE ReadWholeText
  BY <1>3 DEF ReadWholeText, Received
<1>4. CASE ReadText
  BY <1>4 DEF ReadText, Received
<1> QED BY <1>1, <1>2, <1>3, <1>4

(* The server says something only when it has understood a command.          *)
LEMMA SaysWhenUnderstood ==
  ASSUME NEW m, MaySay(understood, sent, m)
  PROVE  understood # "none" /\ understood # "invalid"
BY DEF MaySay

(* The command is understood, and then answered.                             *)
LEMMA StepCommand ==
  ASSUME TypeOK, CommandInv, [Next]_vars
  PROVE  CommandInv'
<1>0. BodyUnits \in Nat \ {0} /\ mode \in Modes /\ "none" \notin Modes
  BY ConnectionParameters DEF TypeOK, Modes
<1>1. CASE Connect /\ UNCHANGED mode
  BY <1>1 DEF Connect, CommandInv, streamVars
<1>2. CASE SendCommand /\ UNCHANGED mode
  <2> USE DEF SendCommand, CommandInv, serverVars
  <2>1. CASE pc = "sendLength"
    BY <1>0, <1>2, <2>1
  <2>2. CASE pc = "sendText" /\ pc' = "killed"
    BY <1>0, <1>2, <2>2
  <2>3. CASE pc = "sendText" /\ pc' = FirstReceive /\ toServer' = toServer + BodyUnits
    <3>1. pc' \in {"done", "count", "length"}
      BY <2>3 DEF FirstReceive
    <3> QED BY <1>0, <1>2, <2>3, <3>1
  <2> QED BY <1>2, <2>1, <2>2, <2>3
<1>3. CASE (ReadCount \/ ReadLength \/ ReadWholeText \/ ReadText) /\ UNCHANGED mode
  BY <1>3, ReceiversRead DEF CommandInv, serverVars
<1>4. CASE Leave /\ UNCHANGED mode
  BY <1>4 DEF Leave, CommandInv, streamVars, serverVars
<1>5. CASE Garbled /\ UNCHANGED <<mode, sent, pc>> /\ reading # "nothing"
  BY <1>0, <1>5 DEF Garbled, Gone, CommandInv
<1>6. CASE ReadCommandLength /\ UNCHANGED <<mode, clientVars>>
  <2>1. UNCHANGED <<sent, pc>> /\ reading = "length"
    BY <1>6 DEF ReadCommandLength, clientVars
  <2>2. CASE toServer > 0 /\ toServer' = toServer - 1 /\ reading' = "text"
             /\ UNCHANGED understood
    <3>1. understood = "none" /\ toServer \in Nat /\ toServer # 0
      BY <2>1, <2>2 DEF CommandInv, TypeOK
    <3> QED BY <1>0, <1>6, <2>1, <2>2, <3>1 DEF CommandInv
  <2> QED BY <1>5, <1>6, <2>1, <2>2 DEF ReadCommandLength
<1>7. CASE ReadCommandText /\ UNCHANGED <<mode, clientVars>>
  <2>1. ASSUME NEW k \in ReadSizes(toServer, BodyUnits),
               understood' \in {mode, "invalid"}, reading' = "nothing",
               UNCHANGED <<mode, sent, pc>>, reading = "text", toServer' = toServer - k
        PROVE  CommandInv'
    <3>1. toServer # 0
      <4>1. PICK n \in Nat, b \in Nat : n = toServer /\ b = BodyUnits
        BY <1>0 DEF TypeOK
      <4>2. k \in ReadSizes(n, b)
        BY <2>1, <4>1
      <4>3. k \in Nat \ {0} /\ k <= n
        BY <4>2, ReadBounds
      <4> QED BY <4>1, <4>3
    <3> QED BY <1>0, <2>1, <3>1 DEF CommandInv
  <2> QED BY <1>5, <1>7, <2>1 DEF ReadCommandText, clientVars
<1>8. ASSUME NEW m \in Messages, SendLength(m), UNCHANGED <<mode, clientVars>>
      PROVE  CommandInv'
  BY <1>8, SaysWhenUnderstood DEF SendLength, MayBegin, CommandInv, clientVars
<1>9. ASSUME NEW i \in writing, SendText(i), UNCHANGED <<mode, clientVars>>
      PROVE  CommandInv'
  BY <1>9 DEF SendText, CommandInv, clientVars
<1>10. CASE ServerEnds /\ UNCHANGED <<mode, clientVars>>
  BY <1>10 DEF ServerEnds, CommandInv, clientVars, streamVars
<1>11. CASE UNCHANGED vars
  BY <1>11 DEF vars, streamVars, serverVars, clientVars, CommandInv
<1> QED BY <1>1, <1>2, <1>3, <1>4, <1>6, <1>7, <1>8, <1>9, <1>10, <1>11
        DEF Next, ClientNext, ServerNext

(* A server that speaks to a client that has not been killed has understood   *)
(* the client's own command.                                                 *)
LEMMA SpeakerUnderstands ==
  ASSUME TypeOK, CommandInv, pc # "killed", NEW m \in Messages, MaySay(understood, sent, m)
  PROVE  understood = mode /\ mode # "invalid" /\ pc \notin {"connect", "failed"}
<1>1. understood # "none" /\ understood # "invalid"
  BY SaysWhenUnderstood
<1> QED BY <1>1 DEF CommandInv, TypeOK, PcLabels

(* What is said stays within what the command calls for.                     *)
LEMMA StepSent ==
  ASSUME TypeOK, CommandInv, SentInv, [Next]_vars
  PROVE  SentInv'
<1>1. ASSUME UNCHANGED <<mode, sent, announced, understood>>, pc = "killed" => pc' = "killed"
      PROVE  SentInv'
  BY <1>1 DEF SentInv, Said
<1>2. CASE ClientNext /\ UNCHANGED mode
  <2>1. UNCHANGED <<sent, announced, understood>> /\ pc # "killed"
    <3>1. CASE Connect \/ SendCommand
      BY <3>1 DEF Connect, SendCommand, serverVars
    <3> QED BY <1>2, <3>1, ReceiversRead DEF ClientNext, serverVars
  <2> QED BY <1>1, <1>2, <2>1
<1>3. CASE Leave /\ UNCHANGED mode
  BY <1>3 DEF Leave, SentInv
<1>4. CASE (ReadCommandLength \/ ReadCommandText) /\ UNCHANGED <<mode, clientVars>>
  <2>1. UNCHANGED <<sent, announced, pc>> /\ reading # "nothing"
    BY <1>4 DEF ReadCommandLength, ReadCommandText, clientVars
  <2>2. sent = << >>
    BY <2>1 DEF CommandInv
  <2> QED BY <1>4, <2>1, <2>2 DEF SentInv, Said
<1>5. ASSUME NEW m \in Messages, SendLength(m), UNCHANGED <<mode, clientVars>>
      PROVE  SentInv'
  <2>1. SUFFICES ASSUME pc # "killed" PROVE SentInv'
    BY <1>5 DEF SentInv, clientVars
  <2>2. /\ understood = mode /\ mode # "invalid" /\ understood' = understood
        /\ MaySay(mode, sent, m) /\ mode' = mode
        /\ m = "JOB" => Len(sent) <= announced
        /\ m # "JOB COUNT" => announced' = announced
        /\ m = "JOB COUNT" => announced' \in 0 .. MaxJobs
    BY <1>5, <2>1, SpeakerUnderstands DEF SendLength, MayBegin
  <2>3. /\ Len(sent') = Len(sent) + 1 /\ Len(sent) \in Nat
        /\ DOMAIN sent' = 1 .. Len(sent) + 1 /\ DOMAIN sent = 1 .. Len(sent)
        /\ sent'[Len(sent) + 1] = m
        /\ \A i \in 1 .. Len(sent) : sent'[i] = sent[i]
        /\ Said(sent', "CANCELED") <=> Said(sent, "CANCELED") \/ m = "CANCELED"
    <3>1. sent' = Append(sent, m) /\ sent \in Seq(Messages)
      BY <1>5 DEF SendLength, TypeOK
    <3> QED BY <3>1, OneMore
  <2>4. sent = << >> <=> Len(sent) = 0
    BY <2>3, EmptySeq DEF TypeOK
  <2>5. /\ mode = "issueJob" =>
             /\ m # "JOB COUNT" /\ ~Said(sent, "CANCELED")
             /\ m = "CANCELED" => sent = << >>
        /\ mode = "poll" => \/ m = "JOB COUNT" /\ sent = << >>
                            \/ m = "JOB" /\ sent # << >>
        /\ mode \notin {"issueJob", "poll"} =>
             sent = << >> /\ m # "JOB COUNT" /\ m # "CANCELED"
    BY <2>2 DEF MaySay, JobMessages
  <2>6. Said(sent', "CANCELED") => mode = "issueJob" /\ Len(sent') = 1
    <3>1. mode # "issueJob" => ~Said(sent, "CANCELED")
      BY <2>1, <1>5 DEF SentInv, clientVars
    <3>2. Said(sent', "CANCELED") => m = "CANCELED"
      BY <2>3, <2>5, <3>1
    <3>3. m = "CANCELED" => mode = "issueJob" /\ sent = << >>
      BY <2>5
    <3>4. sent = << >> => Len(sent') = 1
      BY <2>3, <2>4
    <3> QED BY <3>2, <3>3, <3>4
  <2>7. mode = "poll" => Len(sent') <= announced' + 1
    <3>1. announced \in Nat /\ MaxJobs \in Nat
      BY ConnectionParameters DEF TypeOK
    <3>2. announced' \in Nat
      <4>1. CASE m = "JOB COUNT"
        <5>1. announced' \in 0 .. MaxJobs
          BY <2>2, <4>1
        <5> QED BY <3>1, <5>1
      <4>2. CASE m # "JOB COUNT"
        BY <2>2, <3>1, <4>2
      <4> QED BY <4>1, <4>2
    <3>3. CASE m = "JOB COUNT" /\ sent = << >>
      <4>1. Len(sent) = 0
        BY <2>4, <3>3
      <4>2. Len(sent') = 1
        BY <2>3, <4>1
      <4>3. PICK a \in Nat : a = announced'
        BY <3>2
      <4>4. 1 <= a + 1
        OBVIOUS
      <4> QED BY <4>2, <4>3, <4>4
    <3>4. CASE m = "JOB"
      BY <2>2, <2>3, <3>1, <3>4
    <3> QED BY <2>5, <3>3, <3>4
  <2>8. /\ mode \notin {"issueJob", "poll"} => Len(sent') <= 1
        /\ m = "JOB COUNT" <=> mode = "poll" /\ Len(sent) + 1 = 1
    <3>1. Len(sent) + 1 = 1 <=> sent = << >>
      BY <2>3, <2>4
    <3>2. sent = << >> => Len(sent') <= 1
      BY <2>3, <2>4
    <3>3. mode = "issueJob" => mode # "poll"
      OBVIOUS
    <3>4. m = "JOB COUNT" => m # "JOB"
      OBVIOUS
    <3> QED BY <2>5, <3>1, <3>2, <3>3, <3>4
  <2>9. \A i \in DOMAIN sent' : sent'[i] = "JOB COUNT" <=> mode = "poll" /\ i = 1
    <3> TAKE i \in DOMAIN sent'
    <3>1. i \in 1 .. Len(sent) \/ i = Len(sent) + 1
      BY <2>3
    <3>2. CASE i \in 1 .. Len(sent)
      BY <2>1, <2>3, <3>2 DEF SentInv
    <3>3. CASE i = Len(sent) + 1
      BY <2>3, <2>8, <3>3
    <3> QED BY <3>1, <3>2, <3>3
  <2> QED BY <2>2, <2>6, <2>7, <2>8, <2>9 DEF SentInv
<1>6. ASSUME NEW i \in writing, SendText(i), UNCHANGED <<mode, clientVars>>
      PROVE  SentInv'
  BY <1>1, <1>6 DEF SendText, clientVars
<1>7. CASE ServerEnds /\ UNCHANGED <<mode, clientVars>>
  BY <1>1, <1>7 DEF ServerEnds, clientVars
<1>8. CASE UNCHANGED vars
  BY <1>1, <1>8 DEF vars, serverVars, clientVars
<1> QED BY <1>2, <1>3, <1>4, <1>5, <1>6, <1>7, <1>8 DEF Next, ServerNext

-------------------------------------------------------------------------------
(* What is still to be received                                              *)

(* A complete response leaves one less to be received, or none.              *)
LEMMA ReceivedCount ==
  ASSUME TypeOK, ReceiverInv, pc \in {"length", "text"}, NEW text, Received(text),
         UNCHANGED <<mode, sent, announced>>,
         toClient' # << >> => toClient # << >>,
         short' => mode # "issueJob"
  PROVE  ReceiverInv'
<1>1. /\ todo' = todo - 1 /\ todo \in Nat
      /\ partial' = << >>
      /\ pc' = "done" \/ (pc' = "length" /\ todo # 1)
  BY DEF Received, TypeOK
<1>2. CASE pc' = "done"
  BY <1>1, <1>2 DEF ReceiverInv, Live
<1>3. CASE pc' = "length" /\ todo # 1
  <2>1. mode = "issueJob" => todo' \in 1 .. 2
    BY <1>1, <1>3 DEF ReceiverInv
  <2>2. mode = "poll" => todo' \in 1 .. announced /\ sent # << >>
    <3>1. announced \in Nat
      BY ConnectionParameters DEF TypeOK
    <3> QED BY <1>1, <1>3, <3>1 DEF ReceiverInv
  <2>3. mode \in {"issueJob", "poll"}
    BY <1>3 DEF ReceiverInv
  <2> QED BY <1>1, <1>3, <2>1, <2>2, <2>3 DEF ReceiverInv, Live
<1> QED BY <1>1, <1>2, <1>3

(* A receiver knows what it waits for.                                       *)
LEMMA StepReceiver ==
  ASSUME TypeOK, CommandInv, ReceiverInv, [Next]_vars
  PROVE  ReceiverInv'
<1>0. /\ BodyUnits \in Nat \ {0} /\ mode \in Modes
      /\ Len(toClient) \in Nat /\ Len(partial) \in Nat
  BY ConnectionParameters, LenProperties DEF TypeOK
<1>1. CASE Connect /\ UNCHANGED mode
  BY <1>1 DEF Connect, ReceiverInv, Live, streamVars
<1>2. CASE SendCommand /\ UNCHANGED mode
  <2>1. /\ UNCHANGED <<toClient, sent, announced, todo, partial, short, mode>>
        /\ pc \in {"sendLength", "sendText"}
        /\ pc' \in {"sendText", "killed", FirstReceive}
    BY <1>2 DEF SendCommand, serverVars
  <2>2. CASE pc' \in {"sendText", "killed"}
    BY <2>1, <2>2 DEF ReceiverInv, Live
  <2>3. CASE pc' = FirstReceive
    BY <1>0, <2>1, <2>3 DEF ReceiverInv, Live, FirstReceive, Modes
  <2> QED BY <2>1, <2>2, <2>3
<1>3. CASE ReadCount /\ UNCHANGED mode
  <2>1. /\ pc = "count" /\ mode = "poll" /\ mode' = mode /\ partial = << >>
        /\ UNCHANGED <<sent, announced, partial, short>>
        /\ toClient' # << >> => toClient # << >>
    BY <1>3 DEF ReadCount, ReceiverInv, Misread, EndlessCount, serverVars, Live
  <2>2. CASE pc' = "length" /\ todo' = announced /\ announced > 0 /\ toClient # << >>
    <3>1. announced \in Nat
      BY ConnectionParameters DEF TypeOK
    <3> QED BY <2>1, <2>2, <3>1 DEF ReceiverInv, Live
  <2>3. CASE pc' \in {"done", "crashed", "stuck"}
    BY <2>1, <2>3 DEF ReceiverInv, Live
  <2> QED BY <1>3, <2>2, <2>3 DEF ReadCount, Misread, EndlessCount
<1>4. CASE ReadLength /\ UNCHANGED mode
  <2>1. /\ pc = "length" /\ mode' = mode /\ partial = << >>
        /\ UNCHANGED <<sent, announced, short>>
        /\ toClient' # << >> => toClient # << >>
    BY <1>4 DEF ReadLength, ReceiverInv, Misread, serverVars, Live
  <2>2. CASE Received(response) /\ UNCHANGED <<misread, short>>
    BY <2>1, <2>2, ReceivedCount DEF ReceiverInv
  <2>3. CASE pc' = "text" /\ UNCHANGED <<todo, partial>>
    <3>1. Len(partial') < BodyUnits
      BY <1>0, <2>1, <2>3, EmptySeq
    <3> QED BY <2>1, <2>3, <3>1 DEF ReceiverInv, Live
  <2>4. CASE Misread
    BY <2>1, <2>4 DEF ReceiverInv, Misread, Live
  <2> QED BY <1>4, <2>2, <2>3, <2>4 DEF ReadLength
<1>5. CASE ReadWholeText /\ UNCHANGED mode
  <2>1. PICK k \in ReadSizes(Len(toClient), BodyUnits - Len(partial)) :
          /\ toClient' = SubSeq(toClient, k + 1, Len(toClient))
          /\ \/ Received(partial \o SubSeq(toClient, 1, k))
             \/ /\ Len(partial \o SubSeq(toClient, 1, k)) < BodyUnits
                /\ partial' = partial \o SubSeq(toClient, 1, k)
                /\ UNCHANGED <<pc, todo, response, printed>>
    BY <1>5 DEF ReadWholeText
  <2>2. /\ pc = "text" /\ mode = "issueJob" /\ mode' = mode
        /\ UNCHANGED <<sent, announced, short>>
    BY <1>5 DEF ReadWholeText, serverVars
  <2>3. k \in Nat \ {0} /\ k <= Len(toClient)
    BY <1>0, <2>2, ReadBounds DEF ReceiverInv
  <2>4. toClient # << >>
    BY <2>3, EmptySeq
  <2>5. CASE Received(partial \o SubSeq(toClient, 1, k))
    BY <2>2, <2>4, <2>5, ReceivedCount DEF ReceiverInv
  <2>6. CASE /\ Len(partial') < BodyUnits
             /\ UNCHANGED <<pc, todo>>
    BY <2>2, <2>4, <2>6 DEF ReceiverInv, Live
  <2> QED BY <2>1, <2>5, <2>6
<1>6. CASE ReadText /\ UNCHANGED mode
  <2>a. PICK k \in ReadSizes(Len(toClient), BodyUnits) \cup {0} :
          \E text :
            /\ k = 0 => AtEnd
            /\ toClient' = SubSeq(toClient, k + 1, Len(toClient))
            /\ Received(text)
    BY <1>6 DEF ReadText
  <2>1. PICK text :
          /\ k = 0 => AtEnd
          /\ toClient' = SubSeq(toClient, k + 1, Len(toClient))
          /\ Received(text)
    BY <2>a
  <2>2. /\ pc = "text" /\ mode # "issueJob" /\ mode' = mode
        /\ UNCHANGED <<sent, announced>>
    BY <1>6 DEF ReadText, serverVars
  <2>3. toClient' # << >> => toClient # << >>
    <3>1. CASE k = 0
      BY <2>1, <3>1, <1>0, EmptySeq, UnitsRead DEF AtEnd, TypeOK
    <3>2. CASE k # 0
      <4>1. k \in Nat \ {0} /\ k <= Len(toClient)
        BY <1>0, <2>1, <3>2, ReadBounds
      <4> QED BY <4>1, EmptySeq
    <3> QED BY <3>1, <3>2
  <2> QED BY <2>1, <2>2, <2>3, ReceivedCount
<1>7. CASE Leave /\ UNCHANGED mode
  BY <1>7 DEF Leave, ReceiverInv, Live, streamVars, serverVars
<1>8. ASSUME UNCHANGED <<mode, clientVars>>, toClient' # << >> => sent' # << >>,
             sent # << >> => sent' # << >> /\ announced' = announced
      PROVE  ReceiverInv'
  BY <1>8 DEF ReceiverInv, clientVars
<1>9. ASSUME NEW m \in Messages, SendLength(m), UNCHANGED <<mode, clientVars>>
      PROVE  ReceiverInv'
  <2>1. sent' # << >>
    <3>1. Len(sent') = Len(sent) + 1 /\ Len(sent) \in Nat
      BY <1>9, OneMore DEF SendLength, TypeOK
    <3> QED BY <3>1, EmptySeq
  <2>2. sent # << >> => announced' = announced
    BY <1>9 DEF SendLength, MayBegin, MaySay, JobMessages
  <2> QED BY <1>8, <1>9, <2>1, <2>2
<1>10. ASSUME NEW i \in writing, SendText(i), UNCHANGED <<mode, clientVars>>
       PROVE  ReceiverInv'
  <2>1. sent # << >>
    BY LenProperties, EmptySeq DEF TypeOK
  <2> QED BY <1>8, <1>10, <2>1 DEF SendText
<1>11. CASE (ReadCommandLength \/ ReadCommandText \/ ServerEnds)
             /\ UNCHANGED <<mode, clientVars>>
  <2>1. UNCHANGED <<toClient, sent, announced>>
    BY <1>11 DEF ReadCommandLength, ReadCommandText, ServerEnds, streamVars
  <2> QED BY <1>8, <1>11, <2>1 DEF ReceiverInv
<1>12. CASE UNCHANGED vars
  BY <1>8, <1>12 DEF vars, streamVars, serverVars, ReceiverInv
<1> QED BY <1>1, <1>2, <1>3, <1>4, <1>5, <1>6, <1>7, <1>9, <1>10, <1>11, <1>12
        DEF Next, ClientNext, ServerNext

-------------------------------------------------------------------------------
(* The stream                                                                *)

LEMMA LastPartType == \A i : LastPart(i) \in Nat
BY ConnectionParameters DEF LastPart

(* Two units of a stream in order, the later by its distance to the earlier.  *)
LEMMA Follows ==
  ASSUME NEW s \in Seq(Unit), InOrder(s),
         NEW i \in DOMAIN s, NEW j \in DOMAIN s, i <= j,
         NEW x, NEW p, x = s[i][1], p = s[i][2]
  PROVE  /\ x \in Nat /\ p \in Nat
         /\ p + (j - i) <= LastPart(x) => s[j] = <<x, p + (j - i)>>
         /\ p + (j - i) = LastPart(x) + 1 => s[j] = <<x + 1, 0>>
<1>1. s[i] \in Unit
  BY LenProperties, ElementOfSeq
<1>2. x \in Nat /\ p \in Nat
  BY <1>1 DEF Unit
<1>3. /\ s[i][2] + (j - i) <= LastPart(s[i][1]) => s[j] = <<s[i][1], s[i][2] + (j - i)>>
      /\ s[i][2] + (j - i) = LastPart(s[i][1]) + 1 => s[j] = <<s[i][1] + 1, 0>>
  BY DEF InOrder
<1> QED BY <1>2, <1>3

(* What a unit says of the last one of its stream.                           *)
LEMMA FollowsToEnd ==
  ASSUME NEW s \in Seq(Unit), InOrder(s), NEW i \in 1 .. Len(s)
  PROVE  /\ s[i][1] \in Nat /\ s[i][2] \in Nat
         /\ s[i][2] + (Len(s) - i) <= LastPart(s[i][1]) =>
              s[Len(s)] = <<s[i][1], s[i][2] + (Len(s) - i)>>
<1>1. PICK l \in Nat : l = Len(s)
  BY LenProperties
<1>2. i \in DOMAIN s /\ l \in DOMAIN s /\ i <= l
  BY <1>1, LenProperties
<1>3. PICK x, p : x = s[i][1] /\ p = s[i][2]
  OBVIOUS
<1>4. /\ x \in Nat /\ p \in Nat
      /\ p + (l - i) <= LastPart(x) => s[l] = <<x, p + (l - i)>>
  BY <1>2, <1>3, Follows
<1> QED BY <1>1, <1>3, <1>4

(* What is left of s when its first k units have been read.                  *)
Rest(s, r, k) ==
  Len(r) = Len(s) - k /\ \A i \in 1 .. Len(s) - k : r[i] = s[k + i]

(* What is left of a stream in order is in order.                            *)
LEMMA RestInOrder ==
  ASSUME NEW s \in Seq(Unit), NEW r \in Seq(Unit), NEW k \in Nat, InOrder(s),
         Rest(s, r, k)
  PROVE  InOrder(r)
<1>1. PICK l \in Nat, m \in Nat : l = Len(s) /\ m = Len(r)
  BY LenProperties
<1>2. /\ DOMAIN s = 1 .. l /\ DOMAIN r = 1 .. m /\ m = l - k
      /\ \A i \in 1 .. l - k : r[i] = s[k + i]
  BY <1>1, LenProperties DEF Rest
<1>3. ASSUME NEW i \in DOMAIN r, NEW j \in DOMAIN r, i <= j
      PROVE  \E g, h \in DOMAIN s :
               g <= h /\ h - g = j - i /\ r[i] = s[g] /\ r[j] = s[h]
  <2>1. /\ k + i \in 1 .. l /\ k + j \in 1 .. l
        /\ k + i <= k + j /\ (k + j) - (k + i) = j - i
    BY <1>2, <1>3
  <2> QED BY <1>2, <1>3, <2>1
<1>4. ASSUME NEW i \in DOMAIN r, NEW j \in DOMAIN r, i <= j
      PROVE  /\ r[i][2] + (j - i) <= LastPart(r[i][1]) =>
                  r[j] = <<r[i][1], r[i][2] + (j - i)>>
             /\ r[i][2] + (j - i) = LastPart(r[i][1]) + 1 =>
                  r[j] = <<r[i][1] + 1, 0>>
  <2>1. PICK g \in DOMAIN s, h \in DOMAIN s :
          g <= h /\ h - g = j - i /\ r[i] = s[g] /\ r[j] = s[h]
    BY <1>3, <1>4
  <2>2. PICK x, p : x = s[g][1] /\ p = s[g][2]
    OBVIOUS
  <2>3. g <= h
    BY <2>1
  <2>4. /\ p + (h - g) <= LastPart(x) => s[h] = <<x, p + (h - g)>>
        /\ p + (h - g) = LastPart(x) + 1 => s[h] = <<x + 1, 0>>
    BY <2>2, <2>3, Follows, SMTT(30)
  <2> QED BY <2>1, <2>2, <2>4
<1> QED BY <1>4 DEF InOrder

(* Reading up to the end of a message, or less, leaves the reader where the   *)
(* rest of the stream begins.                                                *)
LEMMA ReadOn ==
  ASSUME TypeOK, toClient' \in Seq(Unit),
         NEW k \in Nat \ {0}, k <= Len(toClient), Len(toClient') = Len(toClient) - k,
         \A i \in 1 .. Len(toClient) - k : toClient'[i] = toClient[k + i],
         NEW n \in Nat, NEW a \in Nat, Between(toClient, <<n, a>>), NEW next,
         \/ a + k <= LastPart(n) /\ next = <<n, a + k>>
         \/ a + k = LastPart(n) + 1 /\ next = <<n + 1, 0>>
  PROVE  /\ Between(toClient', next)
         /\ n \in 1 .. Len(sent)
         /\ \A i \in 1 .. k : toClient[i] = <<n, a + (i - 1)>>
<1>0. /\ LastPart(n) \in Nat /\ Len(sent) \in Nat /\ Len(toClient) \in Nat
      /\ DOMAIN toClient = 1 .. Len(toClient) /\ DOMAIN toClient' = 1 .. Len(toClient) - k
      /\ toClient # << >> /\ (toClient' = << >> <=> Len(toClient) = k)
  BY LastPartType, LenProperties, EmptySeq DEF TypeOK
<1>1. /\ 1 \in 1 .. Len(toClient) /\ toClient[1] = <<n, a>>
      /\ toClient[Len(toClient)] = <<Len(sent), IF writing = {} THEN LastPart(Len(sent)) ELSE 0>>
  BY <1>0 DEF Between
<1>2. n \in 1 .. Len(sent)
  BY <1>0, <1>1 DEF Between
<1>3. ASSUME NEW j \in 1 .. Len(toClient)
      PROVE  /\ a + (j - 1) <= LastPart(n) => toClient[j] = <<n, a + (j - 1)>>
             /\ a + (j - 1) = LastPart(n) + 1 => toClient[j] = <<n + 1, 0>>
  <2>1. InOrder(toClient) /\ 1 \in DOMAIN toClient /\ j \in DOMAIN toClient /\ 1 <= j
    BY <1>0, <1>1 DEF Between
  <2>2. n = toClient[1][1] /\ a = toClient[1][2] /\ toClient \in Seq(Unit)
    BY <1>1 DEF TypeOK
  <2> QED BY <2>1, <2>2, Follows, SMTT(30)
<1>4. ASSUME NEW i \in 1 .. k PROVE toClient[i] = <<n, a + (i - 1)>>
  <2>1. i \in 1 .. Len(toClient) /\ a + (i - 1) <= LastPart(n)
    BY <1>0, <1>4
  <2> QED BY <1>3, <2>1
<1>5. ASSUME NEW i \in DOMAIN toClient'
      PROVE  k + i \in DOMAIN toClient /\ toClient'[i] = toClient[k + i]
  BY <1>0, <1>5
<1>6. InOrder(toClient')
  <2>1. /\ Rest(toClient, toClient', k) /\ k \in Nat /\ InOrder(toClient)
        /\ toClient \in Seq(Unit)
    BY DEF Rest, Between, TypeOK
  <2> QED BY <2>1, RestInOrder, SMTT(30)
<1>7. ASSUME toClient' # << >>
      PROVE  toClient'[1] = next /\ toClient'[Len(toClient')] = toClient[Len(toClient)]
  <2>1. /\ k + 1 \in 1 .. Len(toClient) /\ toClient'[1] = toClient[k + 1]
        /\ toClient'[Len(toClient')] = toClient[Len(toClient)] /\ (k + 1) - 1 = k
    BY <1>0, <1>7
  <2> QED BY <1>3, <2>1
<1>8. ASSUME toClient' = << >> PROVE next = NextSent
  <2>1. toClient[k] = <<n, a + (k - 1)>> /\ k = Len(toClient)
    BY <1>0, <1>4, <1>8
  <2>2. n = Len(sent) /\ a + (k - 1) = IF writing = {} THEN LastPart(n) ELSE 0
    BY <1>1, <2>1
  <2>3. CASE writing = {}
    BY <1>0, <2>2, <2>3 DEF NextSent
  <2>4. CASE writing # {}
    <3>1. LastPart(n) # 0
      BY <2>2, <2>4 DEF Between
    <3>2. a + k = 1
      BY <2>2, <2>4
    <3> QED BY <1>0, <2>2, <2>4, <3>1, <3>2 DEF NextSent
  <2> QED BY <2>3, <2>4
<1>9. /\ writing \subseteq {Len(sent)} /\ \A i \in writing : LastPart(i) # 0
      /\ \A i \in DOMAIN toClient' : /\ toClient'[i][1] \in 1 .. Len(sent)
                                     /\ toClient'[i][2] \in 0 .. LastPart(toClient'[i][1])
  BY <1>5 DEF Between
<1>10. Between(toClient', next)
  BY <1>1, <1>6, <1>7, <1>8, <1>9 DEF Between
<1> QED BY <1>2, <1>4, <1>10

(* A stream that goes on with the length of a new message.                   *)
LEMMA LengthFollows ==
  ASSUME TypeOK, Between(toClient, Expected), writing = {}, server = "up",
         NEW m \in Messages, sent' = Append(sent, m),
         toClient' = toClient \o << <<Len(sent) + 1, 0>> >>,
         UNCHANGED mode, Expected' = Expected,
         writing' = IF LastPart(Len(sent) + 1) = 0 THEN {} ELSE {Len(sent) + 1}
  PROVE  Between(toClient, Expected)'
<1>1. PICK n \in Nat : n = Len(sent) /\ Len(sent') = n + 1
  BY OneMore DEF TypeOK
<1>2. PICK s \in Seq(Unit), l \in Nat : s = toClient /\ l = Len(s)
  BY LenProperties DEF TypeOK
<1>3. PICK u : u = <<n + 1, 0>>
  OBVIOUS
<1>4. PICK r : r = toClient'
  OBVIOUS
<1>5. /\ r \in Seq(Unit) /\ Len(r) = l + 1 /\ r[l + 1] = u
      /\ \A i \in 1 .. l : r[i] = s[i]
  <2>1. u \in Unit /\ r = s \o <<u>>
    BY <1>1, <1>2, <1>3, <1>4 DEF Unit
  <2>2. <<u>> \in Seq(Unit) /\ Len(<<u>>) = 1 /\ <<u>>[1] = u
    BY <2>1
  <2>3. /\ r \in Seq(Unit) /\ Len(r) = l + 1
        /\ \A i \in 1 .. l + 1 : r[i] = IF i <= l THEN s[i] ELSE <<u>>[i - l]
    BY <1>2, <2>1, <2>2, ConcatProperties
  <2> QED BY <2>2, <2>3
<1>6. /\ DOMAIN s = 1 .. l /\ DOMAIN r = 1 .. l + 1
      /\ r # << >> /\ (s = << >> <=> l = 0)
  BY <1>2, <1>5, LenProperties, EmptySeq
<1>7. \A i : LastPart(i)' = LastPart(i) /\ LastPart(i) \in Nat
  BY LastPartType DEF LastPart
<1>8. /\ \A i \in 1 .. l : s[i][1] \in 1 .. n /\ s[i][2] \in 0 .. LastPart(s[i][1])
      /\ InOrder(s)
      /\ l # 0 => s[1] = Expected /\ s[l] = <<n, LastPart(n)>>
      /\ l = 0 => Expected = u
  BY <1>1, <1>2, <1>3, <1>6 DEF Between, NextSent
<1>9. ASSUME NEW i \in 1 .. l + 1, NEW j \in 1 .. l + 1, i <= j
      PROVE  /\ r[i][2] + (j - i) <= LastPart(r[i][1]) =>
                  r[j] = <<r[i][1], r[i][2] + (j - i)>>
             /\ r[i][2] + (j - i) = LastPart(r[i][1]) + 1 =>
                  r[j] = <<r[i][1] + 1, 0>>
  <2>1. CASE j \in 1 .. l
    <3>1. i \in 1 .. l
      BY <1>9, <2>1
    <3>2. r[i] = s[i] /\ r[j] = s[j] /\ i \in DOMAIN s /\ j \in DOMAIN s
      BY <1>5, <1>6, <2>1, <3>1
    <3>3. PICK x, p : x = s[i][1] /\ p = s[i][2]
      OBVIOUS
    <3>4. /\ p + (j - i) <= LastPart(x) => s[j] = <<x, p + (j - i)>>
          /\ p + (j - i) = LastPart(x) + 1 => s[j] = <<x + 1, 0>>
      BY <1>8, <1>9, <3>2, <3>3, Follows, SMTT(30)
    <3> QED BY <3>2, <3>3, <3>4
  <2>2. CASE i = l + 1
    <3>1. j = l + 1 /\ r[i] = u /\ u[1] = n + 1 /\ u[2] = 0
      BY <1>3, <1>5, <1>9, <2>2
    <3> QED BY <1>3, <1>7, <2>2, <3>1
  <2>3. CASE i \in 1 .. l /\ j = l + 1
    <3>1. l \in 1 .. l /\ i <= l /\ r[i] = s[i] /\ r[j] = u /\ j - i = (l - i) + 1
      BY <1>5, <2>3
    <3>2. PICK x, p, e : x = s[i][1] /\ p = s[i][2] /\ e = l - i
      OBVIOUS
    <3>3. /\ x \in Nat /\ p \in Nat
          /\ p + e <= LastPart(x) => s[l] = <<x, p + e>>
      <4>1. InOrder(s) /\ l = Len(s) /\ i \in 1 .. Len(s)
        BY <1>2, <1>8, <2>3
      <4>2. /\ s[i][1] \in Nat /\ s[i][2] \in Nat
            /\ s[i][2] + (Len(s) - i) <= LastPart(s[i][1]) =>
                 s[Len(s)] = <<s[i][1], s[i][2] + (Len(s) - i)>>
        BY <4>1, FollowsToEnd
      <4> QED BY <4>1, <4>2, <3>2
    <3>4. e \in Nat /\ LastPart(x) \in Nat /\ s[l] = <<n, LastPart(n)>>
      BY <1>7, <1>8, <2>3, <3>1, <3>2
    <3>5. p + e <= LastPart(x) => n = x /\ LastPart(x) = p + e
      BY <3>3, <3>4
    <3>6. ~(p + (e + 1) <= LastPart(x))
      <4>1. ASSUME p + (e + 1) <= LastPart(x) PROVE FALSE
        <5>1. p + e <= LastPart(x)
          BY <3>3, <3>4, <4>1
        <5>2. LastPart(x) = p + e
          BY <3>5, <5>1
        <5> QED BY <3>3, <3>4, <4>1, <5>2
      <4> QED BY <4>1
    <3>7. p + (e + 1) = LastPart(x) + 1 => n = x
      <4>1. ASSUME p + (e + 1) = LastPart(x) + 1 PROVE n = x
        <5>1. p + e <= LastPart(x)
          BY <3>3, <3>4, <4>1
        <5> QED BY <3>5, <5>1
      <4> QED BY <4>1
    <3> QED BY <1>3, <3>1, <3>2, <3>6, <3>7
  <2> QED BY <2>1, <2>2, <2>3
<1>10. InOrder(toClient)'
  BY <1>4, <1>6, <1>7, <1>9 DEF InOrder
<1>11. \A i \in 1 .. l + 1 : r[i][1] \in 1 .. n + 1 /\ r[i][2] \in 0 .. LastPart(r[i][1])
  <2> TAKE i \in 1 .. l + 1
  <2>1. CASE i \in 1 .. l
    <3>1. r[i] = s[i] /\ s[i][1] \in 1 .. n /\ s[i][2] \in 0 .. LastPart(s[i][1])
      BY <1>5, <1>8, <2>1
    <3>2. 1 .. n \subseteq 1 .. n + 1
      OBVIOUS
    <3> QED BY <3>1, <3>2
  <2>2. CASE i = l + 1
    BY <1>3, <1>5, <1>7, <2>2
  <2> QED BY <2>1, <2>2
<1>12. r[1] = Expected
  BY <1>5, <1>8
<1>13. u = <<n + 1, IF writing' = {} THEN LastPart(n + 1) ELSE 0>>
  BY <1>1, <1>3
<1>14. writing' \subseteq {n + 1} /\ \A i \in writing' : LastPart(i) # 0
  BY <1>1
<1> QED BY <1>1, <1>4, <1>5, <1>6, <1>7, <1>10, <1>11, <1>12, <1>13, <1>14 DEF Between

(* A stream that goes on with the text of the message whose length ends it.   *)
LEMMA TextFollows ==
  ASSUME TypeOK, Between(toClient, Expected), NEW w \in writing, server = "up",
         toClient' = toClient \o Text(w), writing' = writing \ {w},
         UNCHANGED <<mode, sent>>, Expected' = Expected
  PROVE  Between(toClient, Expected)'
<1>1. PICK n \in Nat : n = Len(sent) /\ w = n /\ writing = {n}
  BY LenProperties DEF TypeOK, Between
<1>2. PICK s \in Seq(Unit), l \in Nat : s = toClient /\ l = Len(s)
  BY LenProperties DEF TypeOK
<1>3. PICK b \in Nat \ {0} : b = BodyUnits /\ b = LastPart(n)
  BY <1>1, ConnectionParameters DEF Between, LastPart
<1>4. PICK r : r = toClient'
  OBVIOUS
<1>5. /\ r \in Seq(Unit) /\ Len(r) = l + b
      /\ \A i \in 1 .. l : r[i] = s[i]
      /\ \A k \in 1 .. b : r[l + k] = <<n, k>>
  <2>1. /\ Text(n) \in Seq(Unit) /\ Len(Text(n)) = b
        /\ \A k \in 1 .. b : Text(n)[k] = <<n, k>>
    BY <1>3, TextType
  <2>2. r = s \o Text(n)
    BY <1>1, <1>2, <1>4
  <2>3. /\ r \in Seq(Unit) /\ Len(r) = l + b
        /\ \A i \in 1 .. l + b : r[i] = IF i <= l THEN s[i] ELSE Text(n)[i - l]
    BY <1>2, <2>1, <2>2, ConcatProperties
  <2>4. ASSUME NEW k \in 1 .. b PROVE r[l + k] = <<n, k>>
    BY <2>1, <2>3, <2>4
  <2> QED BY <2>3, <2>4
<1>6. /\ DOMAIN s = 1 .. l /\ DOMAIN r = 1 .. l + b
      /\ r # << >> /\ (s = << >> <=> l = 0)
  BY <1>2, <1>5, LenProperties, EmptySeq
<1>7. \A i : LastPart(i)' = LastPart(i) /\ LastPart(i) \in Nat
  BY LastPartType DEF LastPart
<1>8. /\ \A i \in 1 .. l : s[i][1] \in 1 .. n /\ s[i][2] \in 0 .. LastPart(s[i][1])
      /\ InOrder(s)
      /\ l # 0 => s[1] = Expected /\ s[l] = <<n, 0>>
      /\ l = 0 => Expected = <<n, 1>>
  BY <1>1, <1>2, <1>6 DEF Between, NextSent
<1>9. ASSUME NEW i \in 1 .. l + b, NEW j \in 1 .. l + b, i <= j
      PROVE  /\ r[i][2] + (j - i) <= LastPart(r[i][1]) =>
                  r[j] = <<r[i][1], r[i][2] + (j - i)>>
             /\ r[i][2] + (j - i) = LastPart(r[i][1]) + 1 =>
                  r[j] = <<r[i][1] + 1, 0>>
  <2>1. CASE j \in 1 .. l
    <3>1. i \in 1 .. l
      BY <1>9, <2>1
    <3>2. r[i] = s[i] /\ r[j] = s[j] /\ i \in DOMAIN s /\ j \in DOMAIN s
      BY <1>5, <1>6, <2>1, <3>1
    <3>3. PICK x, p : x = s[i][1] /\ p = s[i][2]
      OBVIOUS
    <3>4. /\ p + (j - i) <= LastPart(x) => s[j] = <<x, p + (j - i)>>
          /\ p + (j - i) = LastPart(x) + 1 => s[j] = <<x + 1, 0>>
      BY <1>8, <1>9, <3>2, <3>3, Follows, SMTT(30)
    <3> QED BY <3>2, <3>3, <3>4
  <2>2. CASE ~(i \in 1 .. l)
    <3>1. PICK k \in 1 .. b, h \in 1 .. b : i = l + k /\ j = l + h
      <4>1. i - l \in 1 .. b /\ j - l \in 1 .. b /\ i = l + (i - l) /\ j = l + (j - l)
        BY <1>9, <2>2
      <4> QED BY <4>1
    <3>2. /\ r[i] = <<n, k>> /\ r[j] = <<n, h>> /\ j - i = h - k
          /\ k + (h - k) = h /\ ~(h = b + 1)
      BY <1>5, <3>1
    <3> QED BY <1>3, <3>2
  <2>3. CASE i \in 1 .. l /\ ~(j \in 1 .. l)
    <3>1. PICK h \in 1 .. b : j = l + h
      <4>1. j - l \in 1 .. b /\ j = l + (j - l)
        BY <1>9, <2>3
      <4> QED BY <4>1
    <3>2. /\ l \in 1 .. l /\ i <= l /\ r[i] = s[i] /\ r[j] = <<n, h>>
          /\ j - i = (l - i) + h /\ s[l] = <<n, 0>>
      <4>1. l # 0 /\ l \in 1 .. l /\ i <= l /\ j - i = (l - i) + h
        BY <2>3, <3>1
      <4> QED BY <1>5, <1>8, <2>3, <3>1, <4>1
    <3>3. PICK x, p, e : x = s[i][1] /\ p = s[i][2] /\ e = l - i
      OBVIOUS
    <3>4. /\ x \in Nat /\ p \in Nat
          /\ p + e <= LastPart(x) => s[l] = <<x, p + e>>
      <4>1. InOrder(s) /\ l = Len(s) /\ i \in 1 .. Len(s)
        BY <1>2, <1>8, <2>3
      <4>2. /\ s[i][1] \in Nat /\ s[i][2] \in Nat
            /\ s[i][2] + (Len(s) - i) <= LastPart(s[i][1]) =>
                 s[Len(s)] = <<s[i][1], s[i][2] + (Len(s) - i)>>
        BY <4>1, FollowsToEnd
      <4> QED BY <4>1, <4>2, <3>3
    <3>5. e \in Nat /\ LastPart(x) \in Nat
      <4>1. e \in Nat
        BY <2>3, <3>2, <3>3
      <4> QED BY <1>7, <4>1
    <3>6. p + e <= LastPart(x) => x = n /\ p + e = 0
      BY <3>2, <3>4
    <3>7. p + (e + h) <= LastPart(x) => x = n /\ p + (e + h) = h
      <4>1. ASSUME p + (e + h) <= LastPart(x) PROVE x = n /\ p + (e + h) = h
        <5>1. p + e <= LastPart(x)
          BY <3>4, <3>5, <4>1
        <5>2. x = n /\ p + e = 0
          BY <3>6, <5>1
        <5> QED BY <3>4, <3>5, <5>2
      <4> QED BY <4>1
    <3>8. ~(p + (e + h) = LastPart(x) + 1)
      <4>1. ASSUME p + (e + h) = LastPart(x) + 1 PROVE FALSE
        <5>1. p + e <= LastPart(x)
          BY <3>4, <3>5, <4>1
        <5>2. x = n /\ p + e = 0
          BY <3>6, <5>1
        <5>3. p + (e + h) = h /\ LastPart(x) = b
          BY <1>3, <3>4, <3>5, <5>2
        <5> QED BY <4>1, <5>3
      <4> QED BY <4>1
    <3> QED BY <3>2, <3>3, <3>7, <3>8
  <2> QED BY <2>1, <2>2, <2>3
<1>10. InOrder(toClient)'
  BY <1>4, <1>6, <1>7, <1>9 DEF InOrder
<1>11. \A i \in 1 .. l + b : r[i][1] \in 1 .. n /\ r[i][2] \in 0 .. LastPart(r[i][1])
  <2> TAKE i \in 1 .. l + b
  <2>1. CASE i \in 1 .. l
    <3>1. r[i] = s[i] /\ s[i][1] \in 1 .. n /\ s[i][2] \in 0 .. LastPart(s[i][1])
      BY <1>5, <1>8, <2>1
    <3> QED BY <3>1
  <2>2. CASE ~(i \in 1 .. l)
    <3>1. PICK k \in 1 .. b : i = l + k
      <4>1. i - l \in 1 .. b /\ i = l + (i - l)
        BY <2>2
      <4> QED BY <4>1
    <3>2. r[i] = <<n, k>>
      BY <1>5, <3>1
    <3>3. n # 0
      BY <1>1, LenProperties DEF TypeOK
    <3> QED BY <1>3, <3>2, <3>3
  <2> QED BY <2>1, <2>2
<1>12. r[1] = Expected
  <2>1. CASE l = 0
    <3>1. 1 \in 1 .. b /\ r[l + 1] = r[1]
      BY <2>1
    <3> QED BY <1>5, <1>8, <2>1, <3>1
  <2>2. CASE l # 0
    <3>1. 1 \in 1 .. l
      BY <2>2
    <3> QED BY <1>5, <1>8, <2>2, <3>1
  <2> QED BY <2>1, <2>2
<1>13. r[l + b] = <<n, LastPart(n)>> /\ writing' = {}
  BY <1>1, <1>3, <1>5
<1> QED BY <1>1, <1>4, <1>5, <1>6, <1>7, <1>10, <1>11, <1>12, <1>13 DEF Between

(* The message that a receiver is at has a text.                             *)
LEMMA CurrentType ==
  ASSUME TypeOK, ReceiverInv, pc \in {"length", "text"}
  PROVE  /\ Current \in Nat \ {0}
         /\ LastPart(Current) = BodyUnits
         /\ mode = "issueJob" => Current = 3 - todo
         /\ mode = "poll" => Current = announced + 2 - todo
         /\ mode \notin {"issueJob", "poll"} => Current = 1
<1>1. CASE mode = "issueJob"
  BY <1>1 DEF Current, LastPart, ReceiverInv
<1>2. CASE mode = "poll"
  <2>1. announced \in Nat /\ todo \in 1 .. announced
    BY <1>2, ConnectionParameters DEF TypeOK, ReceiverInv
  <2>2. Current = announced + 2 - todo
    BY <1>2 DEF Current
  <2>3. Current \in Nat \ {0, 1}
    BY <2>1, <2>2
  <2> QED BY <1>2, <2>2, <2>3 DEF LastPart
<1>3. CASE mode \notin {"issueJob", "poll"}
  BY <1>3 DEF Current, LastPart
<1> QED BY <1>1, <1>2, <1>3

(* A length is one unit, the first.                                          *)
LEMMA UnitRead ==
  ASSUME NEW s \in Seq(Unit), s # << >>
  PROVE  /\ Tail(s) \in Seq(Unit) /\ Head(s) = s[1]
         /\ Len(s) \in Nat /\ 1 <= Len(s)
         /\ Len(Tail(s)) = Len(s) - 1
         /\ \A i \in 1 .. Len(s) - 1 : Tail(s)[i] = s[1 + i]
<1>1. Tail(s) \in Seq(Unit) /\ Len(Tail(s)) = Len(s) - 1
  BY HeadTailProperties
<1>2. Len(s) \in Nat /\ 1 <= Len(s)
  BY EmptySeq, LenProperties
<1>3. ASSUME NEW i \in 1 .. Len(s) - 1 PROVE Tail(s)[i] = s[1 + i]
  <2>1. Tail(s)[i] = s[i + 1]
    BY <1>1, <1>3, HeadTailProperties
  <2>2. i + 1 = 1 + i
    BY <1>2, <1>3
  <2> QED BY <2>1, <2>2
<1>4. Head(s) = s[1]
  BY DEF Head
<1> QED BY <1>1, <1>2, <1>3, <1>4

(* receivePollResponse reads the number, and is at the first job then.       *)
LEMMA CountRead ==
  ASSUME TypeOK, ReceiverInv, Between(toClient, Expected), pc = "count",
         toClient # << >>, toClient' = Tail(toClient)
  PROVE  Between(toClient', <<2, 0>>)
<1>1. Expected = <<1, 0>> /\ LastPart(1) = 0
  BY DEF ReceiverInv, Expected, Current, LastPart
<1>2. /\ toClient' \in Seq(Unit) /\ Len(toClient) \in Nat /\ 1 <= Len(toClient)
      /\ Len(toClient') = Len(toClient) - 1
      /\ \A i \in 1 .. Len(toClient) - 1 : toClient'[i] = toClient[1 + i]
  BY UnitRead DEF TypeOK
<1>3. PICK n \in Nat, a \in Nat, k \in Nat \ {0} : n = 1 /\ a = 0 /\ k = 1
  <2>1. 1 \in Nat /\ 0 \in Nat /\ 1 \in Nat \ {0}
    OBVIOUS
  <2> QED BY <2>1
<1>4. PICK next : next = <<n + 1, 0>>
  OBVIOUS
<1>5. Between(toClient, <<n, a>>) /\ a + k = LastPart(n) + 1 /\ <<2, 0>> = next
  BY <1>1, <1>3, <1>4
<1>6. /\ k <= Len(toClient) /\ Len(toClient') = Len(toClient) - k
      /\ \A i \in 1 .. Len(toClient) - k : toClient'[i] = toClient[k + i]
  BY <1>2, <1>3
<1>7. Between(toClient', next)
  BY <1>2, <1>4, <1>5, <1>6, ReadOn, SMTT(30)
<1> QED BY <1>5, <1>7

(* What a receiver takes for a length is a length, and the text follows.      *)
LEMMA LengthRead ==
  ASSUME TypeOK, ReceiverInv, Between(toClient, Expected), pc = "length",
         toClient # << >>, toClient' = Tail(toClient)
  PROVE  /\ Head(toClient)[2] = 0
         /\ Between(toClient', <<Current, 1>>)
<1>1. PICK n \in Nat : n = Current /\ LastPart(n) = BodyUnits
  BY CurrentType
<1>2. Expected = <<n, 0>>
  BY <1>1 DEF Expected
<1>3. /\ toClient' \in Seq(Unit) /\ Len(toClient) \in Nat /\ 1 <= Len(toClient)
      /\ Len(toClient') = Len(toClient) - 1
      /\ \A i \in 1 .. Len(toClient) - 1 : toClient'[i] = toClient[1 + i]
      /\ Head(toClient) = toClient[1]
  BY UnitRead DEF TypeOK
<1>4. PICK a \in Nat, k \in Nat \ {0} : a = 0 /\ k = 1
  <2>1. 0 \in Nat /\ 1 \in Nat \ {0}
    OBVIOUS
  <2> QED BY <2>1
<1>5. PICK next : next = <<n, a + k>>
  OBVIOUS
<1>6. Between(toClient, <<n, a>>) /\ a + k <= LastPart(n) /\ <<n, 1>> = next
  BY <1>1, <1>2, <1>4, <1>5, ConnectionParameters
<1>7. /\ k <= Len(toClient) /\ Len(toClient') = Len(toClient) - k
      /\ \A i \in 1 .. Len(toClient) - k : toClient'[i] = toClient[k + i]
  BY <1>3, <1>4
<1>8. Between(toClient', next)
  BY <1>3, <1>5, <1>6, <1>7, ReadOn, SMTT(30)
<1>9. Head(toClient) = <<n, 0>>
  BY <1>3, <1>4, <1>6 DEF Between
<1> QED BY <1>1, <1>6, <1>8, <1>9

(* What a receiver reads of a text is the next part of that text, and what   *)
(* follows is the rest of it or the next message.                            *)
LEMMA TextRead ==
  ASSUME TypeOK, ReceiverInv, Between(toClient, Expected), pc = "text",
         NEW k \in Nat \ {0}, k <= Len(toClient), k <= BodyUnits - Len(partial),
         toClient' = SubSeq(toClient, k + 1, Len(toClient))
  PROVE  /\ Current \in 1 .. Len(sent)
         /\ \A i \in 1 .. k : toClient[i] = <<Current, Len(partial) + i>>
         /\ Len(partial) + k = BodyUnits => Between(toClient', <<Current + 1, 0>>)
         /\ Len(partial) + k < BodyUnits =>
              Between(toClient', <<Current, Len(partial) + k + 1>>)
<1>1. PICK n \in Nat : n = Current /\ LastPart(n) = BodyUnits
  BY CurrentType
<1>2. PICK p \in Nat : p = Len(partial)
  BY LenProperties DEF TypeOK
<1>3. PICK b \in Nat : b = BodyUnits
  BY ConnectionParameters
<1>4. /\ toClient' \in Seq(Unit) /\ Len(toClient') = Len(toClient) - k
      /\ \A i \in 1 .. Len(toClient) - k : toClient'[i] = toClient[k + i]
  <2>1. Len(toClient) \in Nat /\ k \in 0 .. Len(toClient)
    BY LenProperties DEF TypeOK
  <2> QED BY <2>1, UnitsRead DEF TypeOK
<1>5. PICK a \in Nat : a = p + 1 /\ Between(toClient, <<n, a>>)
  <2>1. p + 1 \in Nat /\ Between(toClient, <<n, p + 1>>)
    BY <1>1, <1>2 DEF Expected
  <2> QED BY <2>1
<1>6. /\ p + k = b \/ p + k < b
      /\ p + k = b => a + k = LastPart(n) + 1
      /\ p + k < b => a + k <= LastPart(n) /\ a + k = p + k + 1
      /\ \A i \in 1 .. k : a + (i - 1) = p + i
  <2>1. k <= b - p /\ LastPart(n) = b
    BY <1>1, <1>2, <1>3
  <2>2. p + k = b \/ p + k < b
    BY <2>1
  <2> QED BY <1>5, <2>1, <2>2
<1>7. PICK next : next = IF p + k = b THEN <<n + 1, 0>> ELSE <<n, a + k>>
  OBVIOUS
<1>8. /\ p + k = b => a + k = LastPart(n) + 1 /\ next = <<n + 1, 0>>
      /\ p + k < b => a + k <= LastPart(n) /\ next = <<n, a + k>>
  <2>1. p + k < b => p + k # b
    OBVIOUS
  <2> QED BY <1>6, <1>7, <2>1
<1>9. /\ Between(toClient', next) /\ n \in 1 .. Len(sent)
      /\ \A i \in 1 .. k : toClient[i] = <<n, a + (i - 1)>>
  <2>1. CASE p + k = b
    <3>1. a + k = LastPart(n) + 1 /\ next = <<n + 1, 0>>
      BY <1>8, <2>1
    <3> QED BY <1>4, <1>5, <3>1, ReadOn, ZenonT(60)
  <2>2. CASE p + k < b
    <3>1. a + k <= LastPart(n) /\ next = <<n, a + k>>
      BY <1>8, <2>2
    <3> QED BY <1>4, <1>5, <3>1, ReadOn, ZenonT(60)
  <2> QED BY <1>6, <2>1, <2>2
<1>10. /\ p + k = b => next = <<n + 1, 0>>
       /\ p + k < b => next = <<n, p + k + 1>>
  <2>1. p + k < b => a + k = p + k + 1
    BY <1>6
  <2> QED BY <1>8, <2>1
<1>11. \A i \in 1 .. k : toClient[i] = <<n, p + i>>
  BY <1>6, <1>9
<1> QED BY <1>1, <1>2, <1>3, <1>9, <1>10, <1>11

(* A receiver that is not done is at the next message.                       *)
LEMMA ReceivedNext ==
  ASSUME TypeOK, ReceiverInv, pc \in {"length", "text"}, NEW text, Received(text),
         UNCHANGED <<mode, announced>>, pc' = "length"
  PROVE  Expected' = <<Current + 1, 0>>
<1>1. todo' = todo - 1 /\ todo # 1 /\ todo \in Nat
  BY DEF Received, TypeOK
<1>2. CASE mode = "issueJob"
  <2>1. todo = 2
    BY <1>1, <1>2 DEF ReceiverInv
  <2> QED BY <1>1, <1>2, <2>1 DEF Expected, Current
<1>3. CASE mode = "poll"
  <2>1. announced \in Nat
    BY ConnectionParameters DEF TypeOK
  <2>2. announced + 2 - (todo - 1) = (announced + 2 - todo) + 1
    BY <1>1, <2>1
  <2> QED BY <1>1, <1>3, <2>2 DEF Expected, Current
<1> QED BY <1>1, <1>2, <1>3 DEF ReceiverInv

(* The client moves within what has been sent.                               *)
LEMMA StreamKept ==
  ASSUME UNCHANGED <<mode, sent, writing>>, server' = "up" => server = "up",
         NEW f, Between(toClient', f), f = Expected'
  PROVE  StreamInv'
<1>1. \A i : LastPart(i)' = LastPart(i)
  BY DEF LastPart
<1>2. NextSent' = NextSent
  BY DEF NextSent
<1>3. Between(toClient', f) => Between(toClient, Expected)'
  BY <1>1, <1>2 DEF Between, InOrder
<1> QED BY <1>3 DEF StreamInv

(* The receiver stays where the stream is.                                   *)
LEMMA StepStream ==
  ASSUME TypeOK, CommandInv, SentInv, SentInv', ReceiverInv, StreamInv, [Next]_vars
  PROVE  StreamInv'
<1>0. /\ BodyUnits \in Nat \ {0}
      /\ Len(toClient) \in Nat /\ Len(partial) \in Nat
  BY ConnectionParameters, LenProperties DEF TypeOK
<1>1. ASSUME ~overlapped', ~short', pc' \in Live, Between(toClient, Expected), ClientNext,
             UNCHANGED mode
      PROVE  StreamInv'
  <2>1. CASE Connect
    <3>1. /\ pc' \notin {"length", "text"} /\ pc \notin {"length", "text"}
          /\ UNCHANGED <<toClient, sent, writing, server, announced, todo, partial>>
      BY <2>1 DEF Connect, streamVars
    <3>2. Expected' = Expected
      BY <1>1, <3>1 DEF Expected, Current
    <3> QED BY <1>1, <3>1, <3>2, StreamKept
  <2>2. CASE SendCommand
    <3>1. /\ pc' = "length" => mode # "poll"
          /\ pc' # "text" /\ pc \notin {"length", "text"}
          /\ UNCHANGED <<toClient, sent, writing, server, announced, todo, partial>>
      BY <2>2 DEF SendCommand, FirstReceive, serverVars
    <3>2. Expected' = Expected
      BY <1>1, <3>1 DEF Expected, Current
    <3> QED BY <1>1, <3>1, <3>2, StreamKept
  <2>3. CASE ReadCount
    <3>1. /\ pc = "count" /\ pc' = "length" /\ toClient # << >>
          /\ toClient' = Tail(toClient) /\ todo' = announced
          /\ UNCHANGED <<sent, writing, server, announced>>
      BY <1>1, <2>3 DEF ReadCount, Misread, EndlessCount, Live, serverVars
    <3>2. mode = "poll" /\ announced \in Nat
      BY <3>1, ConnectionParameters DEF ReceiverInv, TypeOK
    <3>3. Expected' = <<2, 0>>
      BY <1>1, <3>1, <3>2 DEF Expected, Current
    <3> QED BY <1>1, <3>1, <3>3, CountRead, StreamKept
  <2>4. CASE ReadLength
    <3>1. pc = "length" /\ UNCHANGED <<sent, writing, server, announced>>
      BY <2>4 DEF ReadLength, serverVars
    <3>2. CASE /\ toClient # << >> /\ toClient' = Tail(toClient)
               /\ pc' = "text" /\ UNCHANGED <<todo, partial>>
      <4>1. partial = << >> /\ Current' = Current
        BY <1>1, <3>1, <3>2 DEF ReceiverInv, Live, Current
      <4>2. Expected' = <<Current, 1>>
        BY <3>2, <4>1, EmptySeq DEF Expected
      <4> QED BY <1>1, <3>1, <3>2, <4>2, LengthRead, StreamKept
    <3>3. CASE AtEnd /\ Received(response) /\ UNCHANGED toClient
      <4>1. pc' = "length"
        BY <1>1, <3>3 DEF Received, Live
      <4>2. Expected' = <<Current + 1, 0>>
        BY <1>1, <3>1, <3>3, <4>1, ReceivedNext
      <4>3. Between(toClient', <<Current + 1, 0>>)
        BY <1>1, <3>3 DEF AtEnd, Between
      <4> QED BY <1>1, <3>1, <4>2, <4>3, StreamKept
    <3> QED BY <1>1, <2>4, <3>2, <3>3 DEF ReadLength, Misread, Live
  <2>5. CASE ReadWholeText
    <3>1. PICK k \in ReadSizes(Len(toClient), BodyUnits - Len(partial)) :
            /\ toClient' = SubSeq(toClient, k + 1, Len(toClient))
            /\ \/ /\ Len(partial \o SubSeq(toClient, 1, k)) = BodyUnits
                  /\ Received(partial \o SubSeq(toClient, 1, k))
               \/ /\ Len(partial \o SubSeq(toClient, 1, k)) < BodyUnits
                  /\ partial' = partial \o SubSeq(toClient, 1, k)
                  /\ UNCHANGED <<pc, todo>>
      BY <2>5 DEF ReadWholeText
    <3>2. /\ pc = "text" /\ UNCHANGED <<sent, writing, server, announced>>
      BY <2>5 DEF ReadWholeText, serverVars
    <3>3. /\ k \in Nat \ {0} /\ k <= Len(toClient) /\ k <= BodyUnits - Len(partial)
          /\ k \in 0 .. Len(toClient)
      BY <1>0, <3>2, ReadBounds DEF ReceiverInv
    <3>4. Len(partial \o SubSeq(toClient, 1, k)) = Len(partial) + k
      BY <3>3, UnitsRead, ConcatProperties DEF TypeOK
    <3>5. CASE Len(partial) + k = BodyUnits /\ Received(partial \o SubSeq(toClient, 1, k))
      <4>1. pc' = "length"
        BY <1>1, <3>5 DEF Received, Live
      <4>2. Expected' = <<Current + 1, 0>>
        BY <1>1, <3>2, <3>5, <4>1, ReceivedNext
      <4> QED BY <1>1, <3>1, <3>2, <3>3, <3>5, <4>2, TextRead, StreamKept, ZenonT(60)
    <3>6. CASE /\ Len(partial) + k < BodyUnits /\ Len(partial') = Len(partial) + k
               /\ UNCHANGED <<pc, todo>>
      <4>1. Current' = Current
        BY <1>1, <3>2, <3>6 DEF Current
      <4>2. Expected' = <<Current, Len(partial) + k + 1>>
        BY <3>2, <3>6, <4>1 DEF Expected
      <4> QED BY <1>1, <3>1, <3>2, <3>3, <3>6, <4>2, TextRead, StreamKept, ZenonT(60)
    <3> QED BY <3>1, <3>4, <3>5, <3>6
  <2>6. CASE ReadText
    <3>a. PICK k \in ReadSizes(Len(toClient), BodyUnits) \cup {0} :
            \E text :
              /\ toClient' = SubSeq(toClient, k + 1, Len(toClient))
              /\ Received(text)
              /\ short' = (short \/ k < BodyUnits)
      BY <2>6 DEF ReadText
    <3>1. PICK text :
            /\ toClient' = SubSeq(toClient, k + 1, Len(toClient))
            /\ Received(text)
            /\ short' = (short \/ k < BodyUnits)
      BY <3>a
    <3>2. /\ pc = "text" /\ mode # "issueJob" /\ partial = << >>
          /\ UNCHANGED <<sent, writing, server, announced>>
      BY <2>6 DEF ReadText, serverVars, ReceiverInv
    <3>3. /\ k \in Nat \ {0} /\ k <= Len(toClient) /\ k = BodyUnits
      <4>1. ~(k < BodyUnits)
        BY <1>1, <3>1
      <4>2. k \in ReadSizes(Len(toClient), BodyUnits)
        BY <1>0, <4>1
      <4> QED BY <1>0, <4>1, <4>2, ReadBounds
    <3>4. Len(partial) = 0
      BY <3>2, EmptySeq
    <3>5. pc' = "length"
      BY <1>1, <3>1 DEF Received, Live
    <3>6. Expected' = <<Current + 1, 0>>
      BY <1>1, <3>1, <3>2, <3>5, ReceivedNext
    <3>7. Len(partial) + k = BodyUnits /\ k <= BodyUnits - Len(partial)
      BY <1>0, <3>3, <3>4
    <3> QED BY <1>1, <3>1, <3>2, <3>3, <3>6, <3>7, TextRead, StreamKept, ZenonT(60)
  <2> QED BY <1>1, <2>1, <2>2, <2>3, <2>4, <2>5, <2>6 DEF ClientNext
<1>2. CASE ClientNext /\ UNCHANGED mode
  <2>1. /\ UNCHANGED overlapped /\ (short => short') /\ pc \in Live
    <3>1. CASE Connect \/ SendCommand
      BY <3>1 DEF Connect, SendCommand, serverVars, Live
    <3>2. CASE ReadCount
      BY <3>2 DEF ReadCount, serverVars, Live, Misread, EndlessCount
    <3>3. CASE ReadLength
      BY <3>3 DEF ReadLength, serverVars, Live, Misread
    <3>4. CASE ReadWholeText
      BY <3>4 DEF ReadWholeText, serverVars, Live
    <3>5. CASE ReadText
      BY <3>5 DEF ReadText, serverVars, Live
    <3> QED BY <1>2, <3>1, <3>2, <3>3, <3>4, <3>5 DEF ClientNext
  <2> QED BY <1>1, <1>2, <2>1 DEF StreamInv
<1>3. CASE Leave /\ UNCHANGED mode
  BY <1>3 DEF Leave, StreamInv, Live
<1>4. ASSUME UNCHANGED <<mode, clientVars, announced>> PROVE Expected' = Expected
  BY <1>4 DEF Expected, Current, clientVars
<1>5. ASSUME NEW m \in Messages, SendLength(m), UNCHANGED <<mode, clientVars>>, server = "up"
      PROVE  StreamInv'
  <2>1. SUFFICES ASSUME ~overlapped', ~short', pc' \in Live
                 PROVE  Between(toClient, Expected)'
    BY DEF StreamInv
  <2>2. /\ ~overlapped /\ writing = {} /\ ~short /\ pc \in Live /\ ~Gone
        /\ pc # "killed" /\ UNCHANGED <<mode, pc>>
    BY <1>5, <2>1 DEF SendLength, clientVars, Live, Gone
  <2>3. Between(toClient, Expected)
    BY <2>2 DEF StreamInv
  <2>4. PICK n \in Nat : /\ n = Len(sent) /\ Len(sent') = n + 1
                         /\ sent'[n + 1] = m /\ DOMAIN sent' = 1 .. n + 1
    <3>1. sent' = Append(sent, m) /\ sent \in Seq(Messages)
      BY <1>5 DEF SendLength, TypeOK
    <3> QED BY <3>1, OneMore
  <2>5. sent' = Append(sent, m) /\ toClient' = toClient \o << <<Len(sent) + 1, 0>> >>
    BY <1>5, <2>2, <2>4 DEF SendLength, Deliver
  <2>6. m = "JOB COUNT" <=> mode = "poll" /\ n + 1 = 1
    <3>1. n + 1 \in DOMAIN sent'
      BY <2>4
    <3>2. sent'[n + 1] = "JOB COUNT" <=> mode' = "poll" /\ n + 1 = 1
      BY <2>2, <3>1 DEF SentInv
    <3> QED BY <2>2, <2>4, <3>2
  <2>7. writing' = IF LastPart(n + 1) = 0 THEN {} ELSE {n + 1}
    BY <1>0, <1>5, <2>2, <2>4, <2>6 DEF SendLength, LastPart
  <2>8. Expected' = Expected
    <3>1. CASE announced' = announced
      BY <1>4, <1>5, <3>1
    <3>2. CASE m = "JOB COUNT"
      <4>1. sent = << >>
        BY <1>5, <3>2 DEF SendLength, MayBegin, MaySay, JobMessages
      <4>2. mode = "poll" => pc \notin {"length", "text"}
        BY <4>1 DEF ReceiverInv
      <4> QED BY <1>5, <4>2 DEF Expected, Current, clientVars
    <3> QED BY <1>5, <3>1, <3>2 DEF SendLength
  <2> QED BY <1>5, <2>2, <2>3, <2>4, <2>5, <2>7, <2>8, LengthFollows, SMTT(30)
<1>6. ASSUME NEW w \in writing, SendText(w), UNCHANGED <<mode, clientVars>>, server = "up"
      PROVE  StreamInv'
  <2>1. SUFFICES ASSUME ~overlapped', ~short', pc' \in Live
                 PROVE  Between(toClient, Expected)'
    BY DEF StreamInv
  <2>2. /\ ~overlapped /\ ~short /\ pc \in Live /\ ~Gone
        /\ UNCHANGED <<mode, sent, announced>> /\ writing' = writing \ {w}
    BY <1>6, <2>1 DEF SendText, clientVars, Live, Gone
  <2>3. Between(toClient, Expected)
    BY <2>2 DEF StreamInv
  <2>4. toClient' = toClient \o Text(w)
    BY <1>6, <2>2 DEF SendText, Deliver
  <2> QED BY <1>4, <1>6, <2>2, <2>3, <2>4, TextFollows, SMTT(30)
<1>7. CASE (ReadCommandLength \/ ReadCommandText \/ ServerEnds) /\ server = "up"
            /\ UNCHANGED <<mode, clientVars>>
  <2>1. UNCHANGED <<toClient, sent, writing, announced, overlapped>>
    BY <1>7 DEF ReadCommandLength, ReadCommandText, ServerEnds, streamVars
  <2>2. Expected' = Expected /\ UNCHANGED <<pc, short>>
    BY <1>4, <1>7, <2>1 DEF clientVars
  <2>3. CASE Between(toClient, Expected)
    BY <1>7, <2>1, <2>2, <2>3, StreamKept
  <2> QED BY <2>1, <2>2, <2>3 DEF StreamInv
<1>8. CASE UNCHANGED vars
  <2>1. /\ UNCHANGED <<mode, toClient, sent, writing, announced, overlapped, server>>
        /\ UNCHANGED <<pc, short>> /\ Expected' = Expected
    BY <1>4, <1>8 DEF vars, streamVars, serverVars, clientVars
  <2>2. CASE Between(toClient, Expected)
    BY <2>1, <2>2, StreamKept
  <2> QED BY <2>1, <2>2 DEF StreamInv
<1> QED BY <1>2, <1>3, <1>5, <1>6, <1>7, <1>8 DEF Next, ServerNext

-------------------------------------------------------------------------------
(* What is read, told and printed                                            *)

(* What has gone wrong once stays wrong.                                     *)
LEMMA Once ==
  ASSUME TypeOK, [Next]_vars
  PROVE  /\ mode' = mode
         /\ overlapped => overlapped'
         /\ short => short'
         /\ misread => misread'
         /\ server # "up" => server' = server
<1>0. mode' = mode
  BY DEF Next, vars
<1>1. CASE Connect \/ SendCommand \/ Leave
  BY <1>0, <1>1 DEF Connect, SendCommand, Leave, serverVars
<1>2. CASE ReadCount \/ ReadLength
  BY <1>0, <1>2 DEF ReadCount, ReadLength, Misread, EndlessCount, serverVars
<1>3. CASE ReadWholeText \/ ReadText
  <2>1. UNCHANGED <<server, overlapped, misread>>
    BY <1>3 DEF ReadWholeText, ReadText, serverVars
  <2>2. short => short'
    BY <1>3 DEF ReadWholeText, ReadText
  <2> QED BY <1>0, <2>1, <2>2
<1>4. CASE ServerNext /\ UNCHANGED <<mode, clientVars>>
  <2>1. server = "up" /\ UNCHANGED <<mode, short, misread>>
    BY <1>4 DEF ServerNext, clientVars
  <2>2. overlapped => overlapped'
    BY <1>4 DEF ServerNext, ReadCommandLength, ReadCommandText, SendLength, SendText,
                ServerEnds
  <2> QED BY <2>1, <2>2
<1>5. CASE UNCHANGED vars
  BY <1>5 DEF vars, serverVars, clientVars
<1> QED BY <1>1, <1>2, <1>3, <1>4, <1>5 DEF Next, ClientNext

(* A text is taken for a length only for a reason.                           *)
LEMMA StepFrames ==
  ASSUME TypeOK, ReceiverInv, StreamInv, FramesKept, [Next]_vars
  PROVE  FramesKept'
<1>1. CASE misread' = misread
  BY <1>1, Once DEF FramesKept
<1>2. CASE ReadCount /\ AtEnd
  BY <1>2, Once DEF ReadCount, AtEnd, ReceiverInv, FramesKept
<1>3. CASE ReadLength /\ AtEnd /\ mode # "issueJob"
  BY <1>3, Once DEF AtEnd, FramesKept
<1>4. CASE pc = "length" /\ toClient # << >> /\ toClient' = Tail(toClient)
             /\ Head(toClient)[2] # 0
  <2>1. overlapped \/ short
    BY <1>4, LengthRead DEF StreamInv, Live
  <2>2. short => mode # "issueJob"
    BY DEF ReceiverInv
  <2> QED BY <2>1, <2>2, Once DEF FramesKept
<1>5. CASE Connect \/ SendCommand \/ Leave \/ ReadWholeText \/ ReadText
  BY <1>1, <1>5 DEF Connect, SendCommand, Leave, ReadWholeText, ReadText
<1>6. CASE ReadCount
  BY <1>1, <1>2, <1>6 DEF ReadCount
<1>7. CASE ReadLength
  BY <1>1, <1>3, <1>4, <1>7 DEF ReadLength
<1>8. CASE UNCHANGED clientVars
  BY <1>1, <1>8 DEF clientVars
<1> QED BY <1>5, <1>6, <1>7, <1>8 DEF Next, ClientNext, vars

(* A reader that is past message n has read all, or more has been said.      *)
LEMMA AllReceived ==
  ASSUME TypeOK, server = "up", NEW s \in Seq(Unit), NEW n \in Nat,
         Between(s, <<n + 1, 0>>)
  PROVE  \/ writing = {} /\ Len(sent) = n
         \/ n + 1 <= Len(sent)
<1>1. PICK l \in Nat : l = Len(sent)
  BY LenProperties DEF TypeOK
<1>2. CASE s = << >>
  <2>1. <<n + 1, 0>> = NextSent
    BY <1>2 DEF Between
  <2>2. writing = {} /\ n + 1 = l + 1
    BY <1>1, <2>1 DEF NextSent
  <2> QED BY <1>1, <2>2
<1>3. CASE s # << >>
  <2>1. 1 \in DOMAIN s /\ s[1] = <<n + 1, 0>>
    BY <1>3, LenProperties, EmptySeq DEF Between
  <2>2. n + 1 \in 1 .. l
    BY <1>1, <2>1 DEF Between
  <2> QED BY <1>1, <2>2
<1> QED BY <1>2, <1>3

(* More is said to a client that has been told all only if it is a job's      *)
(* client that has been told two things.                                     *)
LEMMA ToldMore ==
  ASSUME TypeOK, CommandInv, SentInv, pc = "done", Told,
         NEW m \in Messages, SendLength(m)
  PROVE  Len(sent') > 2
<1>1. PICK n \in Nat : n = Len(sent) /\ Len(sent') = n + 1
  BY OneMore DEF SendLength, TypeOK
<1>2. n = 0 <=> sent = << >>
  BY <1>1, EmptySeq DEF TypeOK
<1>3. MaySay(mode, sent, m) /\ mode # "invalid" /\ (m = "JOB" => n <= announced)
  BY <1>1, SpeakerUnderstands DEF SendLength, MayBegin
<1>4. CASE n > 2
  BY <1>1, <1>4
<1>5. CASE mode = "issueJob" /\ ~(n > 2)
  <2>1. ~Said(sent, "CANCELED")
    BY <1>3, <1>5 DEF MaySay
  <2>2. n = 2
    BY <1>1, <1>5, <2>1 DEF Told
  <2> QED BY <1>1, <2>2
<1>6. CASE mode = "poll" /\ ~(n > 2)
  <2>1. announced \in Nat /\ n = announced + 1
    BY <1>1, <1>6, ConnectionParameters DEF Told, TypeOK
  <2>2. sent # << >>
    BY <1>2, <2>1
  <2>3. m = "JOB"
    BY <1>3, <1>6, <2>2 DEF MaySay
  <2> QED BY <1>3, <2>1, <2>3
<1>7. CASE mode \notin {"issueJob", "poll"} /\ ~(n > 2)
  <2>1. n = 1
    BY <1>1, <1>3, <1>7 DEF Told
  <2>2. sent = << >>
    BY <1>3, <1>7 DEF MaySay
  <2> QED BY <1>2, <2>1, <2>2
<1> QED BY <1>4, <1>5, <1>6, <1>7

(* A client is done when it has been told all it waits for.                  *)
LEMMA ReceiverDone ==
  ASSUME TypeOK, CommandInv, SentInv, ReceiverInv, StreamInv,
         [Next]_vars, ClientNext, pc' = "done", server = "up", ~overlapped', ~short'
  PROVE  Told
<1>0. /\ pc \in Live => Between(toClient, Expected)
      /\ BodyUnits \in Nat \ {0} /\ Len(toClient) \in Nat /\ Len(partial) \in Nat
  BY Once, ConnectionParameters, LenProperties DEF StreamInv, TypeOK
<1>1. PICK l \in Nat : l = Len(sent)
  BY LenProperties DEF TypeOK
<1>2. ASSUME NEW n \in Nat, Between(toClient', <<n + 1, 0>>), toClient' \in Seq(Unit),
             pc # "killed", mode # "invalid",
             mode = "issueJob" => n = 2 \/ (Said(sent, "CANCELED") /\ n = 1),
             mode = "poll" => n = announced + 1,
             mode \notin {"issueJob", "poll"} => n = 1
      PROVE  Told
  <2>1. (writing = {} /\ l = n) \/ n + 1 <= l
    BY <1>1, <1>2, AllReceived, SMTT(30)
  <2>2. CASE mode = "issueJob"
    <3>1. Said(sent, "CANCELED") => l = 1
      BY <1>1, <1>2 DEF SentInv
    <3>2. CASE n = 2
      <4>1. (writing = {} /\ l = 2) \/ l > 2
        BY <2>1, <3>2
      <4> QED BY <1>1, <2>2, <4>1 DEF Told
    <3>3. CASE n = 1 /\ Said(sent, "CANCELED")
      <4>1. writing = {}
        BY <2>1, <3>1, <3>3
      <4> QED BY <2>2, <3>3, <4>1 DEF Told
    <3> QED BY <1>2, <2>2, <3>2, <3>3
  <2>3. CASE mode = "poll"
    <3>a. announced \in Nat
      BY ConnectionParameters DEF TypeOK
    <3>b. Len(sent) <= announced + 1
      BY <1>2, <2>3 DEF SentInv
    <3>1. announced \in Nat /\ l <= announced + 1 /\ n = announced + 1
      BY <1>1, <1>2, <2>3, <3>a, <3>b
    <3>2. writing = {} /\ l = announced + 1
      BY <2>1, <3>1
    <3> QED BY <1>1, <2>3, <3>2 DEF Told
  <2>4. CASE mode \notin {"issueJob", "poll"}
    <3>1. l <= 1 /\ n = 1
      BY <1>1, <1>2, <2>4 DEF SentInv
    <3>2. writing = {} /\ l = 1
      BY <2>1, <3>1
    <3> QED BY <1>1, <1>2, <2>4, <3>2 DEF Told
  <2> QED BY <2>2, <2>3, <2>4
<1>3. CASE SendCommand
  <2>1. mode = "invalid" /\ pc = "sendText"
    BY <1>3 DEF SendCommand, FirstReceive
  <2>2. sent = << >>
    BY <2>1 DEF CommandInv
  <2>3. writing = {}
    <3>1. DOMAIN sent = {}
      BY <2>2
    <3> QED BY <3>1 DEF TypeOK
  <2> QED BY <2>1, <2>2, <2>3 DEF Told
<1>4. CASE ReadCount
  <2>1. /\ pc = "count" /\ mode = "poll" /\ toClient # << >>
        /\ toClient' = Tail(toClient) /\ announced = 0
    BY <1>4 DEF ReadCount, AtEnd, Misread, EndlessCount, ReceiverInv
  <2>2. Between(toClient', <<2, 0>>) /\ toClient' \in Seq(Unit)
    <3>1. Between(toClient, Expected)
      BY <1>0, <2>1 DEF Live
    <3>2. Between(toClient', <<2, 0>>)
      BY <2>1, <3>1, CountRead
    <3>3. toClient' \in Seq(Unit)
      BY <2>1, UnitRead DEF TypeOK
    <3> QED BY <3>2, <3>3
  <2>3. PICK n \in Nat : n = 1 /\ n = announced + 1 /\ <<2, 0>> = <<n + 1, 0>>
    BY <2>1
  <2> QED BY <1>2, <2>1, <2>2, <2>3
<1>5. CASE ReadLength
  <2>1. pc = "length" /\ toClient # << >> /\ toClient' = Tail(toClient)
        /\ Head(toClient)[2] # 0
    BY <1>5 DEF ReadLength, AtEnd
  <2>2. Between(toClient, Expected)
    BY <1>0, <2>1 DEF Live
  <2> QED BY <2>1, <2>2, LengthRead
<1>6. ASSUME NEW k \in Nat \ {0}, k <= Len(toClient), Len(partial) + k = BodyUnits,
             toClient' = SubSeq(toClient, k + 1, Len(toClient)),
             NEW text, Received(text), pc = "text"
      PROVE  Told
  <2>1. PICK n \in Nat : n = Current
    BY <1>6, CurrentType
  <2>2. k <= BodyUnits - Len(partial)
    BY <1>0, <1>6
  <2>3. n \in 1 .. l /\ Between(toClient', <<n + 1, 0>>)
    <3>1. Between(toClient, Expected)
      BY <1>0, <1>6 DEF Live
    <3>2. Current \in 1 .. Len(sent) /\ Between(toClient', <<Current + 1, 0>>)
      BY <1>6, <2>2, <3>1, TextRead
    <3> QED BY <1>1, <2>1, <3>2
  <2>4. todo = 1 \/ Said(sent, "CANCELED")
    BY <1>6 DEF Received, Said
  <2>5. toClient' \in Seq(Unit)
    <3>1. k \in 0 .. Len(toClient)
      BY <1>0, <1>6
    <3> QED BY <1>6, <3>1, UnitsRead DEF TypeOK
  <2>6. Said(sent, "CANCELED") => mode = "issueJob" /\ l = 1
    BY <1>1, <1>6 DEF SentInv
  <2>7. mode # "invalid"
    BY <1>6 DEF ReceiverInv
  <2>8. mode = "issueJob" => n = 2 \/ (Said(sent, "CANCELED") /\ n = 1)
    <3>1. Said(sent, "CANCELED") => n = 1
      BY <2>3, <2>6
    <3>2. CASE mode = "issueJob" /\ todo = 1
      <4>1. n = 3 - todo
        BY <1>6, <2>1, <3>2, CurrentType
      <4> QED BY <3>2, <4>1
    <3> QED BY <2>4, <3>1, <3>2
  <2>9. mode = "poll" => n = announced + 1
    <3>1. announced \in Nat
      BY ConnectionParameters DEF TypeOK
    <3>2. mode = "poll" => todo = 1 /\ n = announced + 2 - todo
      BY <1>6, <2>1, <2>4, <2>6, CurrentType
    <3> QED BY <3>1, <3>2
  <2>10. mode \notin {"issueJob", "poll"} => n = 1
    BY <1>6, <2>1, CurrentType
  <2> QED BY <1>2, <1>6, <2>3, <2>5, <2>7, <2>8, <2>9, <2>10
<1>7. CASE ReadWholeText
  <2>1. PICK k \in ReadSizes(Len(toClient), BodyUnits - Len(partial)) :
          /\ toClient' = SubSeq(toClient, k + 1, Len(toClient))
          /\ Len(partial \o SubSeq(toClient, 1, k)) = BodyUnits
          /\ Received(partial \o SubSeq(toClient, 1, k))
    BY <1>7 DEF ReadWholeText
  <2>2. pc = "text"
    BY <1>7 DEF ReadWholeText
  <2>3. /\ k \in Nat \ {0} /\ k <= Len(toClient)
        /\ k \in 0 .. Len(toClient)
    BY <1>0, <2>2, ReadBounds DEF ReceiverInv
  <2>4. Len(partial \o SubSeq(toClient, 1, k)) = Len(partial) + k
    BY <2>3, UnitsRead, ConcatProperties DEF TypeOK
  <2> QED BY <1>6, <2>1, <2>2, <2>3, <2>4
<1>8. CASE ReadText
  <2>a. PICK k \in ReadSizes(Len(toClient), BodyUnits) \cup {0} :
          \E text :
            /\ toClient' = SubSeq(toClient, k + 1, Len(toClient))
            /\ Received(text)
            /\ short' = (short \/ k < BodyUnits)
    BY <1>8 DEF ReadText
  <2>1. PICK text :
          /\ toClient' = SubSeq(toClient, k + 1, Len(toClient))
          /\ Received(text)
          /\ short' = (short \/ k < BodyUnits)
    BY <2>a
  <2>2. pc = "text" /\ partial = << >>
    BY <1>8 DEF ReadText, ReceiverInv
  <2>3. k \in Nat \ {0} /\ k <= Len(toClient) /\ k = BodyUnits
    <3>1. ~(k < BodyUnits)
      BY <2>1
    <3>2. k \in ReadSizes(Len(toClient), BodyUnits)
      BY <1>0, <3>1
    <3> QED BY <1>0, <3>1, <3>2, ReadBounds
  <2>4. Len(partial) + k = BodyUnits
    <3>1. Len(partial) = 0
      BY <2>2, EmptySeq
    <3> QED BY <1>0, <2>3, <3>1
  <2> QED BY <1>6, <2>1, <2>2, <2>3, <2>4
<1>9. ~Connect
  BY DEF Connect
<1> QED BY <1>3, <1>4, <1>5, <1>7, <1>8, <1>9 DEF ClientNext

(* A client that ends by itself has been told all.                           *)
LEMMA StepDone ==
  ASSUME TypeOK, CommandInv, SentInv, ReceiverInv, StreamInv, DoneInv, [Next]_vars
  PROVE  DoneInv'
<1>1. pc' = "crashed" => misread'
  <2>1. CASE Connect \/ SendCommand \/ Leave
    BY <2>1 DEF Connect, SendCommand, Leave, FirstReceive
  <2>2. CASE ReadCount
    BY <2>2 DEF ReadCount, Misread, EndlessCount
  <2>3. CASE ReadLength
    BY <2>3 DEF ReadLength, Misread, Received
  <2>4. CASE ReadWholeText \/ ReadText
    BY <2>4 DEF ReadWholeText, ReadText, Received
  <2>5. CASE UNCHANGED clientVars
    BY <2>5 DEF DoneInv, clientVars
  <2> QED BY <2>1, <2>2, <2>3, <2>4, <2>5 DEF Next, ClientNext, vars
<1>2. SUFFICES ASSUME pc' = "done", server' = "up", ~overlapped', ~short'
               PROVE  Told'
  BY <1>1 DEF DoneInv
<1>3. server = "up" /\ ~overlapped /\ ~short /\ mode' = mode
  BY <1>2, Once
<1>4. ASSUME Told, UNCHANGED <<sent, writing, announced>> PROVE Told'
  BY <1>3, <1>4 DEF Told, Said
<1>5. CASE ClientNext
  <2>1. UNCHANGED <<sent, writing, announced>>
    <3>1. CASE Connect \/ SendCommand
      BY <3>1 DEF Connect, SendCommand, serverVars
    <3> QED BY <1>5, <3>1, ReceiversRead DEF ClientNext, serverVars
  <2> QED BY <1>2, <1>3, <1>4, <1>5, <2>1, ReceiverDone
<1>6. CASE Leave
  BY <1>2, <1>6 DEF Leave
<1>7. CASE UNCHANGED clientVars
  <2>1. pc = "done" /\ Told
    BY <1>2, <1>3, <1>7 DEF DoneInv, clientVars
  <2>2. ASSUME NEW m \in Messages, SendLength(m) PROVE Told'
    BY <2>1, <2>2, ToldMore DEF Told
  <2>3. ASSUME NEW i \in writing, SendText(i) PROVE Told'
    BY <2>1, <2>3 DEF SendText, Told
  <2>4. CASE ReadCommandLength \/ ReadCommandText \/ ServerEnds
    BY <1>4, <2>1, <2>4 DEF ReadCommandLength, ReadCommandText, ServerEnds
  <2>5. CASE UNCHANGED vars
    BY <1>4, <2>1, <2>5 DEF vars, serverVars
  <2>6. CASE ServerNext
    BY <2>2, <2>3, <2>4, <2>6 DEF ServerNext
  <2>7. CASE ClientNext \/ Leave
    BY <1>5, <1>6, <2>7
  <2> QED BY <2>5, <2>6, <2>7 DEF Next
<1> QED BY <1>5, <1>6, <1>7 DEF Next, vars

(* A send that raises SIGPIPE has a cause.                                   *)
LEMMA StepPipe ==
  ASSUME TypeOK, CommandInv, SentInv, ReceiverInv, DoneInv, FramesKept,
         BrokenPipeHasCause, [Next]_vars
  PROVE  BrokenPipeHasCause'
<1>1. ASSUME NEW m \in Messages, SendLength(m) PROVE Len(sent') = Len(sent) + 1 /\ Len(sent) \in Nat
  BY <1>1, OneMore DEF SendLength, TypeOK
<1>2. CASE ClientNext
  <2>1. UNCHANGED <<sent, server>> /\ pc # "killed"
    <3>1. CASE Connect \/ SendCommand
      BY <3>1 DEF Connect, SendCommand, serverVars
    <3> QED BY <1>2, <3>1, ReceiversRead DEF ClientNext, serverVars
  <2> QED BY <2>1, Once DEF BrokenPipeHasCause
<1>3. CASE Leave
  BY <1>3 DEF Leave, BrokenPipeHasCause
<1>4. CASE UNCHANGED vars
  BY <1>4 DEF vars, serverVars, clientVars, BrokenPipeHasCause
<1>5. CASE ServerNext /\ UNCHANGED clientVars
  <2>0. server = "up" /\ UNCHANGED <<pc, short>>
    BY <1>5 DEF ServerNext, clientVars
  <2>1. CASE ReadCommandLength \/ ReadCommandText \/ ServerEnds
    BY <2>0, <2>1 DEF ReadCommandLength, ReadCommandText, ServerEnds, Garbled,
                      BrokenPipeHasCause
  <2>2. ASSUME Gone, sent # << >> \/ understood # "none", server' = "sigpipe"
        PROVE  pc = "killed" \/ overlapped \/ short \/ (pc = "done" /\ Told)
    <3>1. pc # "failed"
      BY <2>2 DEF CommandInv
    <3>2. pc = "crashed" => overlapped \/ short
      BY <2>0 DEF DoneInv, FramesKept
    <3>3. pc = "done" => overlapped \/ short \/ Told
      BY <2>0 DEF DoneInv
    <3> QED BY <2>2, <3>1, <3>2, <3>3 DEF Gone
  <2>3. ASSUME NEW m \in Messages, SendLength(m), server' = "sigpipe"
        PROVE  BrokenPipeHasCause'
    <3>1. Gone /\ understood # "none"
      BY <2>0, <2>3, SaysWhenUnderstood DEF SendLength, Deliver, MayBegin
    <3>2. pc = "killed" \/ overlapped \/ short \/ (pc = "done" /\ Told)
      BY <2>2, <2>3, <3>1
    <3>3. pc = "done" /\ Told => Len(sent') > 2
      BY <2>3, ToldMore
    <3> QED BY <2>0, <3>2, <3>3, Once DEF BrokenPipeHasCause
  <2>4. ASSUME NEW i \in writing, SendText(i), server' = "sigpipe"
        PROVE  BrokenPipeHasCause'
    <3>1. Gone /\ sent # << >>
      <4>1. i \in DOMAIN sent
        BY <2>4 DEF TypeOK
      <4> QED BY <2>0, <2>4, <4>1 DEF SendText, Deliver
    <3>2. pc = "killed" \/ overlapped \/ short \/ (pc = "done" /\ Told)
      BY <2>2, <2>4, <3>1
    <3>3. Told => Len(sent) > 2
      BY <2>4 DEF Told
    <3>4. sent' = sent
      BY <2>4 DEF SendText
    <3> QED BY <2>0, <3>2, <3>3, <3>4, Once DEF BrokenPipeHasCause
  <2> QED BY <1>5, <2>1, <2>3, <2>4 DEF ServerNext, BrokenPipeHasCause
<1> QED BY <1>2, <1>3, <1>4, <1>5 DEF Next

-------------------------------------------------------------------------------
(* What a job's client prints                                                *)

(* One more response is printed.                                             *)
LEMMA PrintsOneMore ==
  ASSUME TypeOK, PrintInv, pc \in Live, mode = "issueJob", ~overlapped, todo \in 1 .. 2,
         UNCHANGED <<mode, sent, server, overlapped>>,
         NEW text \in Seq(Unit), Received(text),
         \/ Current \in DOMAIN sent /\ text = Text(Current)
         \/ server # "up" /\ text = response
  PROVE  PrintInv'
<1>1. PICK n \in Nat : n = Len(printed) /\ n = 2 - todo /\ Current = n + 1
  <2>1. Len(printed) \in Nat /\ Len(printed) = 2 - todo /\ Current = 3 - todo
    BY LenProperties DEF TypeOK, PrintInv, Current
  <2>2. 3 - todo = (2 - todo) + 1
    OBVIOUS
  <2> QED BY <2>1, <2>2
<1>2. /\ printed' = Append(printed, text) /\ response' = text
      /\ partial' = << >> /\ todo' = todo - 1
  BY DEF Received
<1>3. /\ Len(printed') = n + 1 /\ DOMAIN printed = 1 .. n /\ DOMAIN printed' = 1 .. n + 1
      /\ printed'[n + 1] = text /\ \A i \in 1 .. n : printed'[i] = printed[i]
      /\ printed' \in Seq(Seq(Unit))
  <2>1. PICK old \in Seq(Seq(Unit)), new \in Seq(Seq(Unit)) :
          /\ old = printed /\ new = printed' /\ new = Append(old, text)
          /\ Len(new) = Len(old) + 1
          /\ \A i \in 1 .. Len(old) : new[i] = old[i]
          /\ new[Len(old) + 1] = text
    <3>1. PICK old \in Seq(Seq(Unit)) : old = printed
      BY DEF TypeOK
    <3>2. PICK new : new = Append(old, text)
      OBVIOUS
    <3>3. /\ new \in Seq(Seq(Unit)) /\ Len(new) = Len(old) + 1
          /\ \A i \in 1 .. Len(old) : new[i] = old[i]
          /\ new[Len(old) + 1] = text
      BY <3>2, AppendProperties
    <3> QED BY <1>2, <3>1, <3>2, <3>3
  <2>2. Len(old) = n /\ Len(new) = n + 1
    BY <1>1, <2>1
  <2>3. DOMAIN old = 1 .. n /\ DOMAIN new = 1 .. n + 1
    BY <2>2, LenProperties
  <2> QED BY <2>1, <2>2, <2>3
<1>4. Len(printed') = 2 - todo'
  BY <1>1, <1>2, <1>3
<1>5. response' = IF printed' = << >> THEN << >> ELSE printed'[Len(printed')]
  BY <1>2, <1>3, EmptySeq
<1>6. ASSUME NEW i \in 1 .. n PROVE PrintedRight(i)'
  <2>1. PrintedRight(i) /\ printed'[i] = printed[i]
    BY <1>3, <1>6 DEF PrintInv
  <2>2. i # 1 => printed'[i - 1] = printed[i - 1]
    <3>1. i # 1 => i - 1 \in 1 .. n
      BY <1>6
    <3> QED BY <1>3, <3>1
  <2> QED BY <2>1, <2>2 DEF PrintedRight, Text
<1>7. PrintedRight(n + 1)'
  <2>1. CASE Current \in DOMAIN sent /\ text = Text(Current)
    BY <1>1, <1>3, <2>1 DEF PrintedRight, Text
  <2>2. CASE server # "up" /\ text = response
    <3>1. CASE n = 0
      <4>1. printed = << >> /\ response = << >>
        BY <1>1, <3>1, EmptySeq DEF PrintInv, TypeOK
      <4> QED BY <1>3, <2>2, <3>1, <4>1 DEF PrintedRight
    <3>2. CASE n # 0
      <4>1. n \in 1 .. n /\ (n + 1) - 1 = n /\ n + 1 # 1
        BY <3>2
      <4>2. response = printed[n]
        BY <1>1, <3>2, EmptySeq DEF PrintInv, TypeOK
      <4>3. printed'[n + 1] = printed'[(n + 1) - 1]
        BY <1>3, <2>2, <4>1, <4>2
      <4> QED BY <2>2, <4>1, <4>3 DEF PrintedRight
    <3> QED BY <3>1, <3>2
  <2> QED BY <2>1, <2>2
<1>8. \A i \in DOMAIN printed' : PrintedRight(i)'
  <2> TAKE i \in DOMAIN printed'
  <2>1. i \in 1 .. n \/ i = n + 1
    BY <1>3
  <2> QED BY <1>6, <1>7, <2>1
<1>9. DOMAIN partial' = {}
  BY <1>2
<1> QED BY <1>4, <1>5, <1>8, <1>9 DEF PrintInv

(* What is printed is what was sent.                                         *)
LEMMA StepPrint ==
  ASSUME TypeOK, ReceiverInv, StreamInv, PrintInv, [Next]_vars
  PROVE  PrintInv'
<1>1. SUFFICES ASSUME mode = "issueJob", mode' = mode, ~overlapped, ~overlapped', ~short
               PROVE  PrintInv'
  BY Once DEF PrintInv, ReceiverInv
<1>0. BodyUnits \in Nat \ {0} /\ Len(toClient) \in Nat /\ Len(partial) \in Nat
  BY ConnectionParameters, LenProperties DEF TypeOK
<1>2. ASSUME UNCHANGED <<todo, response, partial, printed>>, pc' \in Live => pc \in Live,
             \A i \in DOMAIN sent : i \in DOMAIN sent'
      PROVE  PrintInv'
  <2>1. Current' = Current
    BY <1>1, <1>2 DEF Current
  <2>2. ASSUME NEW i \in DOMAIN printed PROVE PrintedRight(i)'
    <3>1. PrintedRight(i)
      BY <1>1, <2>2 DEF PrintInv
    <3> QED BY <1>2, <3>1, Once DEF PrintedRight, Text
  <2> QED BY <1>1, <1>2, <2>1, <2>2 DEF PrintInv
<1>3. CASE Connect \/ SendCommand \/ Leave
  BY <1>2, <1>3 DEF Connect, SendCommand, Leave, serverVars, Live
<1>4. ~ReadCount /\ ~ReadText
  BY <1>1 DEF ReadCount, ReadText, ReceiverInv
<1>5. CASE ReadLength
  <2>1. /\ pc = "length" /\ UNCHANGED <<sent, server, overlapped>> /\ todo \in 1 .. 2
    BY <1>1, <1>5 DEF ReadLength, serverVars, ReceiverInv
  <2>2. CASE AtEnd /\ Received(response)
    <3>1. server # "up" /\ response \in Seq(Unit) /\ pc \in Live
      BY <2>1, <2>2 DEF AtEnd, TypeOK, Live
    <3> QED BY <1>1, <2>1, <2>2, <3>1, PrintsOneMore, SMTT(30)
  <2>3. CASE UNCHANGED <<todo, response, partial, printed>>
    BY <1>2, <2>1, <2>3 DEF Live
  <2> QED BY <1>1, <1>5, <2>2, <2>3 DEF ReadLength, Misread
<1>6. CASE ReadWholeText
  <2>a. PICK k \in ReadSizes(Len(toClient), BodyUnits - Len(partial)) :
          \E text :
            /\ text = partial \o SubSeq(toClient, 1, k)
            /\ toClient' = SubSeq(toClient, k + 1, Len(toClient))
            /\ \/ Len(text) = BodyUnits /\ Received(text)
               \/ partial' = text /\ UNCHANGED <<pc, todo, response, printed>>
    BY <1>6 DEF ReadWholeText
  <2>1. PICK text :
          /\ text = partial \o SubSeq(toClient, 1, k)
          /\ toClient' = SubSeq(toClient, k + 1, Len(toClient))
          /\ \/ Len(text) = BodyUnits /\ Received(text)
             \/ partial' = text /\ UNCHANGED <<pc, todo, response, printed>>
    BY <2>a
  <2>2. /\ pc = "text" /\ pc \in Live /\ todo \in 1 .. 2
        /\ UNCHANGED <<sent, server, overlapped>>
    BY <1>1, <1>6 DEF ReadWholeText, serverVars, ReceiverInv, Live
  <2>3. /\ k \in Nat \ {0} /\ k <= Len(toClient) /\ k <= BodyUnits - Len(partial)
        /\ k \in 0 .. Len(toClient)
    BY <1>0, <2>2, ReadBounds DEF ReceiverInv
  <2>4. Between(toClient, Expected)
    BY <1>1, <2>2 DEF StreamInv
  <2>5. /\ Current \in 1 .. Len(sent)
        /\ \A i \in 1 .. k : toClient[i] = <<Current, Len(partial) + i>>
    BY <2>1, <2>2, <2>3, <2>4, TextRead
  <2>6. PICK p \in Nat : p = Len(partial)
    BY <1>0
  <2>7. /\ text \in Seq(Unit) /\ Len(text) = p + k
        /\ \A i \in 1 .. p + k : text[i] = <<Current, i>>
    <3>1. PICK part \in Seq(Unit) : /\ part = SubSeq(toClient, 1, k) /\ Len(part) = k
                                    /\ \A i \in 1 .. k : part[i] = toClient[i]
      BY <2>3, UnitsRead DEF TypeOK
    <3>2. /\ text \in Seq(Unit) /\ Len(text) = p + k
          /\ \A i \in 1 .. p + k : text[i] = IF i <= p THEN partial[i] ELSE part[i - p]
      <4>1. partial \in Seq(Unit) /\ text = partial \o part
        BY <2>1, <3>1 DEF TypeOK
      <4> QED BY <2>6, <3>1, <4>1, ConcatProperties
    <3>3. \A i \in 1 .. p : partial[i] = <<Current, i>>
      BY <1>1, <2>6, LenProperties DEF PrintInv, TypeOK
    <3>4. ASSUME NEW i \in 1 .. p + k PROVE text[i] = <<Current, i>>
      <4>1. CASE i <= p
        BY <3>2, <3>3, <3>4, <4>1
      <4>2. CASE ~(i <= p)
        <5>1. i - p \in 1 .. k /\ p + (i - p) = i
          BY <2>3, <4>2
        <5>2. part[i - p] = <<Current, p + (i - p)>>
          BY <2>5, <2>6, <3>1, <5>1
        <5> QED BY <3>2, <3>4, <4>2, <5>1, <5>2
      <4> QED BY <4>1, <4>2
    <3> QED BY <3>2, <3>4
  <2>8. CASE Len(text) = BodyUnits /\ Received(text)
    <3>1. PICK n \in Nat : n = Current /\ n \in DOMAIN sent
      BY <2>5, LenProperties DEF TypeOK
    <3>2. text = Text(n)
      <4>1. PICK b \in Nat : b = BodyUnits /\ b = p + k
        BY <2>7, <2>8, <1>0
      <4>2. text \in Seq(Unit) /\ Len(text) = b /\ \A i \in 1 .. b : text[i] = <<n, i>>
        BY <2>7, <3>1, <4>1
      <4>3. Text(n) \in Seq(Unit) /\ Len(Text(n)) = b /\ \A i \in 1 .. b : Text(n)[i] = <<n, i>>
        BY <3>1, <4>1, TextType
      <4>4. \A i \in 1 .. b : text[i] = Text(n)[i]
        BY <4>2, <4>3
      <4> QED BY <4>2, <4>3, <4>4, SeqEqual
    <3> QED BY <1>1, <2>2, <2>7, <2>8, <3>1, <3>2, PrintsOneMore, SMTT(30)
  <2>9. CASE partial' = text /\ UNCHANGED <<pc, todo, response, printed>>
    <3>1. Current' = Current
      BY <1>1, <2>9 DEF Current
    <3>2. \A i \in DOMAIN partial' : partial'[i] = <<Current', i>>
      BY <2>7, <2>9, <3>1, LenProperties
    <3>3. ASSUME NEW i \in DOMAIN printed PROVE PrintedRight(i)'
      <4>1. PrintedRight(i)
        BY <1>1, <3>3 DEF PrintInv
      <4> QED BY <2>2, <2>9, <4>1 DEF PrintedRight, Text
    <3> QED BY <1>1, <2>9, <3>2, <3>3 DEF PrintInv
  <2> QED BY <2>1, <2>8, <2>9
<1>7. CASE UNCHANGED clientVars
  <2>1. \A i \in DOMAIN sent : i \in DOMAIN sent'
    <3>1. ASSUME NEW m \in Messages, SendLength(m)
          PROVE  \A i \in DOMAIN sent : i \in DOMAIN sent'
      <4>1. PICK n \in Nat : DOMAIN sent = 1 .. n /\ DOMAIN sent' = 1 .. n + 1
        BY <3>1, OneMore DEF SendLength, TypeOK
      <4>2. \A i \in 1 .. n : i \in 1 .. n + 1
        OBVIOUS
      <4> QED BY <4>1, <4>2
    <3>2. CASE UNCHANGED sent
      BY <3>2
    <3>3. CASE ServerNext
      BY <3>1, <3>2, <3>3 DEF ServerNext, ReadCommandLength, ReadCommandText, SendText,
                              ServerEnds
    <3>4. CASE ClientNext \/ Leave
      <4>1. CASE Connect \/ SendCommand \/ Leave
        BY <4>1 DEF Connect, SendCommand, Leave, serverVars
      <4> QED BY <3>4, <4>1, ReceiversRead DEF ClientNext, serverVars
    <3> QED BY <3>2, <3>3, <3>4 DEF Next, vars, serverVars
  <2> QED BY <1>2, <1>7, <2>1 DEF clientVars
<1> QED BY <1>3, <1>4, <1>5, <1>6, <1>7 DEF Next, ClientNext, vars

-------------------------------------------------------------------------------
(* What the other clients print                                              *)

(* What is appended to a text leaves what was there.                         *)
LEMMA FrontKept ==
  ASSUME NEW s \in Seq(Unit), NEW t \in Seq(Unit),
         NEW a \in 0 .. Len(s), NEW b \in 0 .. Len(s)
  PROVE  SubSeq(s \o t, a + 1, b) = SubSeq(s, a + 1, b)
<1>1. PICK n \in Nat : n = Len(s) /\ DOMAIN s = 1 .. n
  BY LenProperties
<1>2. PICK st \in Seq(Unit) :
        /\ st = s \o t
        /\ \A i \in 1 .. n : st[i] = s[i]
  <2>1. PICK m \in Nat : m = Len(t)
    BY LenProperties
  <2>2. /\ s \o t \in Seq(Unit)
        /\ \A i \in 1 .. Len(s) + Len(t) :
             (s \o t)[i] = IF i <= Len(s) THEN s[i] ELSE t[i - Len(s)]
    BY ConcatProperties
  <2>3. \A i \in 1 .. n : i \in 1 .. n + m /\ i <= n
    OBVIOUS
  <2> QED BY <1>1, <2>1, <2>2, <2>3
<1>3. \A i \in a + 1 .. b : s[i] \in Unit /\ st[i] \in Unit /\ st[i] = s[i]
  <2>1. \A i \in a + 1 .. b : i \in 1 .. n
    BY <1>1
  <2>2. \A i \in 1 .. n : s[i] \in Unit
    BY <1>1, ElementOfSeq
  <2> QED BY <1>2, <2>1, <2>2
<1>4. PICK u \in Seq(Unit) :
        /\ u = SubSeq(s, a + 1, b)
        /\ Len(u) = IF a + 1 <= b THEN b - (a + 1) + 1 ELSE 0
        /\ \A i \in 1 .. b - (a + 1) + 1 : u[i] = s[a + 1 + i - 1]
  <2>1. a + 1 \in Int /\ b \in Int
    BY <1>1
  <2>2. \A i \in a + 1 .. b : s[i] \in Unit
    BY <1>3
  <2>3. /\ SubSeq(s, a + 1, b) \in Seq(Unit)
        /\ Len(SubSeq(s, a + 1, b)) = IF a + 1 <= b THEN b - (a + 1) + 1 ELSE 0
        /\ \A i \in 1 .. b - (a + 1) + 1 : SubSeq(s, a + 1, b)[i] = s[a + 1 + i - 1]
    BY <2>1, <2>2, SubSeqProperties
  <2> QED BY <2>3
<1>5. PICK v \in Seq(Unit) :
        /\ v = SubSeq(st, a + 1, b)
        /\ Len(v) = IF a + 1 <= b THEN b - (a + 1) + 1 ELSE 0
        /\ \A i \in 1 .. b - (a + 1) + 1 : v[i] = st[a + 1 + i - 1]
  <2>1. a + 1 \in Int /\ b \in Int
    BY <1>1
  <2>2. \A i \in a + 1 .. b : st[i] \in Unit
    BY <1>3
  <2>3. /\ SubSeq(st, a + 1, b) \in Seq(Unit)
        /\ Len(SubSeq(st, a + 1, b)) = IF a + 1 <= b THEN b - (a + 1) + 1 ELSE 0
        /\ \A i \in 1 .. b - (a + 1) + 1 : SubSeq(st, a + 1, b)[i] = st[a + 1 + i - 1]
    BY <2>1, <2>2, SubSeqProperties
  <2> QED BY <2>3
<1>6. ASSUME NEW i \in 1 .. Len(u) PROVE u[i] = v[i]
  <2>1. i \in 1 .. b - (a + 1) + 1 /\ a + 1 + i - 1 \in a + 1 .. b
    BY <1>1, <1>4, <1>6
  <2> QED BY <1>3, <1>4, <1>5, <2>1
<1> QED BY <1>2, <1>4, <1>5, <1>6, SeqEqual

(* And what is appended is what stands behind it.                            *)
LEMMA BackAdded ==
  ASSUME NEW s \in Seq(Unit), NEW t \in Seq(Unit)
  PROVE  SubSeq(s \o t, Len(s) + 1, Len(s \o t)) = t
<1>1. PICK n \in Nat, m \in Nat : n = Len(s) /\ m = Len(t)
  BY LenProperties
<1>2. PICK st \in Seq(Unit) :
        /\ st = s \o t /\ Len(st) = n + m
        /\ \A i \in 1 .. n + m : st[i] = IF i <= n THEN s[i] ELSE t[i - n]
  <2>1. /\ s \o t \in Seq(Unit) /\ Len(s \o t) = Len(s) + Len(t)
        /\ \A i \in 1 .. Len(s) + Len(t) :
             (s \o t)[i] = IF i <= Len(s) THEN s[i] ELSE t[i - Len(s)]
    BY ConcatProperties
  <2> QED BY <1>1, <2>1
<1>3. PICK u \in Seq(Unit) :
        /\ u = SubSeq(st, n + 1, Len(st)) /\ Len(u) = Len(st) - n
        /\ \A i \in 1 .. Len(st) - n : u[i] = st[n + i]
  <2>1. n \in 0 .. Len(st)
    BY <1>2
  <2> QED BY <2>1, UnitsRead
<1>4. ASSUME NEW i \in 1 .. m PROVE u[i] = t[i]
  <2>1. n + i \in 1 .. n + m /\ ~(n + i <= n) /\ (n + i) - n = i /\ i \in 1 .. Len(st) - n
    BY <1>2
  <2> QED BY <1>2, <1>3, <2>1
<1>5. Len(u) = m
  BY <1>2, <1>3
<1> QED BY <1>1, <1>2, <1>3, <1>4, <1>5, SeqEqual

(* It does not matter which of three texts are joined first.                 *)
LEMMA InAnyOrder ==
  ASSUME NEW s \in Seq(Unit), NEW t \in Seq(Unit), NEW u \in Seq(Unit)
  PROVE  (s \o t) \o u = s \o (t \o u)
BY ConcatAssociative

(* Nothing at all is no messages.                                            *)
LEMMA JoinedNone ==
  ASSUME NEW first \in Nat \ {0}
  PROVE  Joined(<< >>, first, first - 1)
<1>1. PICK ends : ends = [m \in first - 1 .. first - 1 |-> 0]
  OBVIOUS
<1>2. Len(<< >>) = 0 /\ first - 1 \in first - 1 .. first - 1
  BY EmptySeq
<1>3. ends \in [first - 1 .. first - 1 -> 0 .. Len(<< >>)] /\ ends[first - 1] = 0
  BY <1>1, <1>2
<1>4. first .. first - 1 = {}
  OBVIOUS
<1> QED BY <1>2, <1>3, <1>4 DEF Joined

(* Texts that are joined, and the next.                                      *)
LEMMA JoinedMore ==
  ASSUME NEW text \in Seq(Unit), NEW first \in Nat \ {0}, NEW last \in Nat,
         first - 1 <= last, Joined(text, first, last),
         NEW trail \in {<< >>, <<Junk>>}
  PROVE  Joined(text \o Text(last + 1) \o trail, first, last + 1)
<1>1. PICK ends \in [first - 1 .. last -> 0 .. Len(text)] :
        /\ ends[first - 1] = 0
        /\ ends[last] = Len(text)
        /\ \A m \in first .. last : \E tr \in {<< >>, <<Junk>>} :
             SubSeq(text, ends[m - 1] + 1, ends[m]) = Text(m) \o tr
  BY DEF Joined
<1>2. PICK new \in Seq(Unit) : /\ new = Text(last + 1) \o trail
                               /\ Text(last + 1) \in Seq(Unit) /\ trail \in Seq(Unit)
  <2>1. last + 1 \in Nat /\ Junk \in Unit
    BY DEF Junk, Unit
  <2>2. Text(last + 1) \in Seq(Unit)
    BY <2>1, TextType
  <2>3. trail \in Seq(Unit)
    <3>1. << >> \in Seq(Unit) /\ <<Junk>> \in Seq(Unit)
      BY <2>1, EmptySeq
    <3> QED BY <3>1
  <2> QED BY <2>2, <2>3, ConcatProperties
<1>3. PICK all \in Seq(Unit) :
        /\ all = text \o new
        /\ all = text \o Text(last + 1) \o trail
  <2>1. PICK next \in Seq(Unit) : next = Text(last + 1)
    BY <1>2
  <2>2. PICK tr \in Seq(Unit) : tr = trail /\ new = next \o tr
    BY <1>2, <2>1
  <2>3. (text \o next) \o tr = text \o (next \o tr)
    BY InAnyOrder
  <2>4. text \o new \in Seq(Unit)
    BY ConcatProperties
  <2> QED BY <2>1, <2>2, <2>3, <2>4
<1>4. PICK n \in Nat, len \in Nat : n = Len(text) /\ len = Len(all) /\ n <= len
  BY <1>3, ConcatProperties, LenProperties
<1>5. PICK more : more = [m \in first - 1 .. last + 1 |-> IF m = last + 1 THEN len ELSE ends[m]]
  OBVIOUS
<1>6. /\ more \in [first - 1 .. last + 1 -> 0 .. len]
      /\ more[last + 1] = len /\ more[last] = n /\ more[first - 1] = 0
      /\ \A m \in first - 1 .. last : more[m] = ends[m] /\ ends[m] \in 0 .. n
  <2>1. \A m \in first - 1 .. last : ends[m] \in 0 .. n
    BY <1>1, <1>4
  <2>2. \A m \in first - 1 .. last + 1 : m # last + 1 => m \in first - 1 .. last
    OBVIOUS
  <2>3. \A m \in first - 1 .. last : m \in first - 1 .. last + 1 /\ m # last + 1
    OBVIOUS
  <2>4. 0 .. n \subseteq 0 .. len /\ len \in 0 .. len
    BY <1>4
  <2>5. /\ last \in first - 1 .. last /\ first - 1 \in first - 1 .. last
        /\ last + 1 \in first - 1 .. last + 1
    OBVIOUS
  <2>6. \A m \in first - 1 .. last : more[m] = ends[m]
    BY <1>5, <2>3
  <2>7. more[last + 1] = len
    BY <1>5, <2>5
  <2>8. \A m \in first - 1 .. last + 1 : more[m] \in 0 .. len
    BY <2>1, <2>2, <2>4, <2>6, <2>7
  <2> QED BY <1>1, <1>4, <1>5, <2>1, <2>5, <2>6, <2>7, <2>8
<1>7. ASSUME NEW m \in first .. last + 1
      PROVE  \E tr \in {<< >>, <<Junk>>} :
               SubSeq(all, more[m - 1] + 1, more[m]) = Text(m) \o tr
  <2>1. CASE m = last + 1
    <3>1. more[m - 1] = n /\ more[m] = len
      BY <1>6, <2>1
    <3>2. SubSeq(all, n + 1, len) = new
      BY <1>3, <1>4, BackAdded
    <3> QED BY <1>2, <2>1, <3>1, <3>2
  <2>2. CASE m # last + 1
    <3>1. m \in first .. last /\ m \in first - 1 .. last /\ m - 1 \in first - 1 .. last
      BY <2>2
    <3>2. PICK a \in 0 .. n, b \in 0 .. n :
            /\ a = ends[m - 1] /\ b = ends[m] /\ more[m - 1] = a /\ more[m] = b
      BY <1>6, <3>1
    <3>3. SubSeq(all, a + 1, b) = SubSeq(text, a + 1, b)
      <4>1. a \in 0 .. Len(text) /\ b \in 0 .. Len(text)
        BY <1>4
      <4>2. SubSeq(text \o new, a + 1, b) = SubSeq(text, a + 1, b)
        BY <4>1, FrontKept
      <4> QED BY <1>3, <4>2
    <3> QED BY <1>1, <3>1, <3>2, <3>3
  <2> QED BY <2>1, <2>2
<1> QED BY <1>3, <1>4, <1>6, <1>7 DEF Joined

(* The one text that is printed is all that is.                              *)
LEMMA PrintedOnce ==
  ASSUME NEW text \in Seq(Unit), printed = << >>, printed' = Append(printed, text)
  PROVE  printed' # << >> /\ \A i \in DOMAIN printed' : printed'[i] = text
<1>1. PICK none \in Seq(Seq(Unit)) : none = << >>
  BY EmptySeq
<1>2. PICK one : one = Append(none, text)
  OBVIOUS
<1>3. one \in Seq(Seq(Unit)) /\ Len(one) = Len(none) + 1 /\ one[Len(none) + 1] = text
  BY <1>2, AppendProperties
<1>4. Len(none) = 0
  BY <1>1, EmptySeq
<1>5. Len(one) = 1 /\ DOMAIN one = 1 .. 1 /\ one[1] = text
  BY <1>3, <1>4, LenProperties
<1>6. one # << >>
  BY <1>3, <1>5, EmptySeq
<1>7. \A i \in 1 .. 1 : i = 1
  OBVIOUS
<1> QED BY <1>1, <1>2, <1>5, <1>6, <1>7

(* Every other client gathers the texts in order, and prints them all.        *)
LEMMA StepTexts ==
  ASSUME TypeOK, SentInv, ReceiverInv, StreamInv, TextsInv, [Next]_vars
  PROVE  TextsInv'
<1>1. SUFFICES ASSUME mode # "issueJob", mode' = mode, ~overlapped, ~short, ~short'
               PROVE  TextsInv'
  BY Once DEF TextsInv
<1>0. /\ BodyUnits \in Nat \ {0} /\ Len(toClient) \in Nat /\ announced \in Nat
      /\ FirstText \in {1, 2} /\ FirstText' = FirstText
  BY <1>1, ConnectionParameters, LenProperties DEF TypeOK, FirstText
<1>2. ASSUME UNCHANGED <<response, printed>>, pc' \in Live => pc \in Live /\ LastRead' = LastRead,
             announced' = announced \/ printed = << >>, sent # << >> => sent' # << >>
      PROVE  TextsInv'
  <2>1. pc' \in Live => printed' = << >> /\ Joined(response', FirstText', LastRead')
    BY <1>0, <1>1, <1>2 DEF TextsInv
  <2>2. printed' # << >> => sent' # << >>
    BY <1>1, <1>2 DEF TextsInv
  <2>3. ASSUME NEW i \in DOMAIN printed'
        PROVE  Joined(printed'[i], FirstText', IF mode' = "poll" THEN announced' + 1 ELSE 1)
    <3>1. printed # << >>
      BY <1>2, <2>3, EmptySeq
    <3> QED BY <1>0, <1>1, <1>2, <2>3, <3>1 DEF TextsInv
  <2> QED BY <2>1, <2>2, <2>3 DEF TextsInv, Joined, Text, Junk
<1>3. ASSUME NEW text \in Seq(Unit), printed = << >>, printed' = Append(printed, text),
             pc' = "done", sent # << >>, UNCHANGED <<sent, announced>>,
             Joined(text, FirstText, IF mode = "poll" THEN announced + 1 ELSE 1)
      PROVE  TextsInv'
  <2>1. \A i \in DOMAIN printed' : printed'[i] = text
    BY <1>3, PrintedOnce
  <2>2. \A i \in DOMAIN printed' :
          Joined(printed'[i], FirstText', IF mode' = "poll" THEN announced' + 1 ELSE 1)
    BY <1>0, <1>1, <1>3, <2>1
  <2>3. pc' \notin Live
    BY <1>3 DEF Live
  <2> QED BY <1>3, <2>2, <2>3 DEF TextsInv, Joined, Text, Junk
<1>4. CASE Connect \/ SendCommand \/ Leave
  <2>1. UNCHANGED <<response, printed, announced, sent>>
    BY <1>4 DEF Connect, SendCommand, Leave, serverVars
  <2>2. pc' \in Live => pc \in Live /\ LastRead' = LastRead
    BY <1>0, <1>1, <1>4
    DEF Connect, SendCommand, Leave, FirstReceive, Live, LastRead, FirstText, Current
  <2> QED BY <1>2, <2>1, <2>2
<1>5. CASE ReadCount
  <2>1. /\ pc = "count" /\ mode = "poll" /\ pc \in Live
        /\ UNCHANGED <<sent, announced, response, overlapped>>
    BY <1>5 DEF ReadCount, ReceiverInv, Misread, EndlessCount, serverVars, Live
  <2>2. printed = << >> /\ Joined(response, 2, 1)
    BY <1>1, <2>1 DEF TextsInv, LastRead, FirstText
  <2>3. CASE toClient # << >> /\ announced > 0 /\ pc' = "length" /\ printed' = printed /\ todo' = announced
    <3>1. announced + 2 - announced = 2
      BY <1>0
    <3>2. LastRead' = LastRead
      BY <1>1, <2>1, <2>3, <3>1 DEF LastRead, FirstText, Current
    <3> QED BY <1>2, <2>1, <2>3, <3>2
  <2>4. CASE toClient # << >> /\ announced = 0 /\ pc' = "done" /\ printed' = Append(printed, response)
    <3>1. sent # << >> /\ response \in Seq(Unit) /\ FirstText = 2 /\ announced + 1 = 1
      BY <2>1, <2>4 DEF ReceiverInv, TypeOK, FirstText
    <3> QED BY <1>3, <2>1, <2>2, <2>4, <3>1
  <2>5. CASE printed' = printed /\ pc' \notin Live
    BY <1>2, <2>1, <2>5
  <2> QED BY <1>5, <2>3, <2>4, <2>5 DEF ReadCount, Misread, EndlessCount, Live
<1>6. CASE ReadLength
  <2>1. UNCHANGED <<sent, announced, response, printed>> /\ pc = "length"
    BY <1>1, <1>6 DEF ReadLength, Misread, serverVars
  <2>2. pc' \in Live => pc \in Live /\ LastRead' = LastRead
    BY <1>1, <1>6, <2>1 DEF ReadLength, Misread, Live, LastRead, Current
  <2> QED BY <1>2, <2>1, <2>2
<1>7. CASE ReadText
  <2>1. PICK k \in ReadSizes(Len(toClient), BodyUnits) \cup {0}, trail \in {<< >>, <<Junk>>} :
          /\ toClient' = SubSeq(toClient, k + 1, Len(toClient))
          /\ Received(response \o SubSeq(toClient, 1, k) \o trail)
          /\ short' = (short \/ k < BodyUnits)
    BY <1>7 DEF ReadText
  <2>2. /\ pc = "text" /\ pc \in Live /\ pc \in {"length", "text"} /\ pc # "killed"
        /\ UNCHANGED <<sent, announced, overlapped>>
    BY <1>7 DEF ReadText, serverVars, Live
  <2>3. k \in Nat \ {0} /\ k = BodyUnits /\ k <= Len(toClient) /\ k \in 0 .. Len(toClient)
    <3>1. ~(k < BodyUnits)
      BY <1>1, <2>1
    <3>2. k # 0
      <4>1. 0 < BodyUnits
        BY <1>0
      <4> QED BY <3>1, <4>1
    <3>3. k \in Nat \ {0} /\ k <= Len(toClient) /\ k <= BodyUnits
      BY <1>0, <2>1, <3>2, ReadBounds
    <3> QED BY <1>0, <3>1, <3>3
  <2>4. PICK n \in Nat \ {0} : /\ n = Current /\ n \in 1 .. Len(sent)
                             /\ \A i \in 1 .. k : toClient[i] = <<n, i>>
    <3>1. partial = << >> /\ Len(partial) = 0
      BY <1>1, EmptySeq DEF ReceiverInv
    <3>2. Between(toClient, Expected)
      BY <1>1, <2>2 DEF StreamInv
    <3>3. k <= BodyUnits - Len(partial)
      BY <1>0, <2>3, <3>1
    <3>4. /\ Current \in 1 .. Len(sent)
          /\ \A i \in 1 .. k : toClient[i] = <<Current, Len(partial) + i>>
      BY <2>1, <2>2, <2>3, <3>2, <3>3, TextRead
    <3>5. Len(sent) \in Nat
      BY LenProperties DEF TypeOK
    <3>6. PICK n \in Nat \ {0} : n = Current
      BY <3>4, <3>5
    <3>7. \A i \in 1 .. k : 0 + i = i
      BY <2>3
    <3> QED BY <3>1, <3>4, <3>6, <3>7
  <2>5. sent # << >>
    BY <2>4, EmptySeq DEF TypeOK
  <2>6. SubSeq(toClient, 1, k) = Text(n)
    <3>0. /\ SubSeq(toClient, 1, k) \in Seq(Unit) /\ Len(SubSeq(toClient, 1, k)) = k
          /\ \A i \in 1 .. k : SubSeq(toClient, 1, k)[i] = toClient[i]
      <4>1. toClient \in Seq(Unit)
        BY DEF TypeOK
      <4> QED BY <2>3, <4>1, UnitsRead
    <3>1. PICK part \in Seq(Unit) : /\ part = SubSeq(toClient, 1, k) /\ Len(part) = k
                                  /\ \A i \in 1 .. k : part[i] = toClient[i]
      BY <3>0
    <3>2. Text(n) \in Seq(Unit) /\ Len(Text(n)) = k /\ \A i \in 1 .. k : Text(n)[i] = <<n, i>>
      BY <2>3, TextType
    <3>3. \A i \in 1 .. k : part[i] = Text(n)[i]
      BY <2>4, <3>1, <3>2
    <3> QED BY <3>1, <3>2, <3>3, SeqEqual
  <2>7. PICK last \in Nat : last + 1 = n /\ last = LastRead /\ FirstText - 1 <= last
    <3>1. LastRead = n - 1 /\ n - 1 \in Nat
      BY <2>2, <2>4 DEF LastRead
    <3>2. FirstText <= n
      BY <1>0, <1>1, <2>2, <2>4 DEF Current, FirstText, ReceiverInv
    <3> QED BY <1>0, <3>1, <3>2
  <2>8. PICK text : text = response \o Text(n) \o trail
    OBVIOUS
  <2>9. /\ printed = << >> /\ Joined(text, FirstText, n) /\ text \in Seq(Unit)
    <3>1. printed = << >> /\ Joined(response, FirstText, last) /\ response \in Seq(Unit)
      BY <1>1, <2>2, <2>7 DEF TextsInv, TypeOK
    <3>2. Joined(response \o Text(last + 1) \o trail, FirstText, last + 1)
      <4>1. FirstText \in Nat \ {0}
        BY <1>0
      <4> QED BY <2>7, <3>1, <4>1, JoinedMore
    <3>3. response \o Text(n) \in Seq(Unit)
      BY <3>1, TextType, ConcatProperties
    <3>4. << >> \in Seq(Unit) /\ <<Junk>> \in Seq(Unit)
      BY EmptySeq DEF Junk, Unit
    <3>5. response \o Text(n) \o trail \in Seq(Unit)
      BY <3>3, <3>4, ConcatProperties
    <3> QED BY <2>7, <2>8, <3>1, <3>2, <3>5
  <2>10. Received(text)
    BY <2>1, <2>6, <2>8
  <2>11. CASE todo = 1
    <3>1. pc' = "done" /\ printed' = Append(printed, text)
      BY <2>10, <2>11 DEF Received
    <3>2. n = IF mode = "poll" THEN announced + 1 ELSE 1
      BY <1>0, <1>1, <2>2, <2>4, <2>11 DEF Current
    <3> QED BY <1>3, <2>2, <2>5, <2>9, <3>1, <3>2
  <2>12. CASE todo # 1
    <3>1. ~\E i \in DOMAIN sent : sent[i] = "CANCELED"
      BY <1>1, <2>2 DEF SentInv, Said
    <3>2. pc' = "length" /\ printed' = printed /\ response' = text
      BY <1>1, <2>10, <2>12, <3>1 DEF Received
    <3>3. Expected' = <<n + 1, 0>>
      BY <1>1, <2>2, <2>4, <2>10, <3>2, ReceivedNext
    <3>4. LastRead' = n
      BY <2>4, <3>2, <3>3 DEF Expected, LastRead
    <3>5. Joined(response', FirstText', LastRead')
      BY <1>0, <2>9, <3>2, <3>4
    <3>6. printed' = << >> /\ DOMAIN printed' = {}
      BY <2>9, <3>2, EmptySeq
    <3> QED BY <3>5, <3>6 DEF TextsInv, Joined, Text, Junk
  <2> QED BY <2>11, <2>12
<1>8. CASE ServerNext /\ UNCHANGED clientVars
  <2>1. ASSUME NEW m \in Messages, SendLength(m)
        PROVE  sent' # << >> /\ (announced' = announced \/ sent = << >>)
    <3>1. sent' = Append(sent, m) /\ MaySay(understood, sent, m)
      BY <2>1 DEF SendLength, MayBegin
    <3>2. sent' # << >>
      <4>1. sent' \in Seq(Messages) /\ Len(sent') = Len(sent) + 1 /\ Len(sent) \in Nat
        BY <3>1, OneMore DEF TypeOK
      <4> QED BY <4>1, EmptySeq
    <3>3. m # "JOB COUNT" => announced' = announced
      BY <2>1 DEF SendLength
    <3>4. m = "JOB COUNT" => sent = << >>
      BY <3>1 DEF MaySay, JobMessages
    <3> QED BY <3>2, <3>3, <3>4
  <2>2. (sent # << >> => sent' # << >>) /\ (announced' = announced \/ sent = << >>)
    BY <1>8, <2>1 DEF ServerNext, ReadCommandLength, ReadCommandText, SendText, ServerEnds
  <2>3. announced' = announced \/ printed = << >>
    BY <1>1, <2>2 DEF TextsInv
  <2>4. LastRead' = LastRead
    BY <1>1, <1>8, <2>2 DEF LastRead, FirstText, Current, clientVars, ReceiverInv
  <2> QED BY <1>2, <1>8, <2>2, <2>3, <2>4 DEF clientVars
<1>9. CASE UNCHANGED vars
  <2>1. LastRead' = LastRead
    BY <1>9 DEF vars, serverVars, clientVars, LastRead, FirstText, Current
  <2> QED BY <1>2, <1>9, <2>1 DEF vars, serverVars, clientVars
<1>10. ~ReadWholeText
  BY <1>1 DEF ReadWholeText
<1> QED BY <1>4, <1>5, <1>6, <1>7, <1>8, <1>9, <1>10 DEF Next, ClientNext

-------------------------------------------------------------------------------

(* All of it holds when the client starts.                                   *)
LEMMA InitInv == Init => ConnectionInv
<1> SUFFICES ASSUME Init PROVE ConnectionInv
  OBVIOUS
<1> USE DEF Init
<1>0. /\ BodyUnits \in Nat \ {0} /\ MaxJobs \in Nat /\ ClientModes \subseteq Modes
      /\ 0 \in 0 .. BodyUnits + 1 /\ 0 \in 0 .. MaxJobs
  BY ConnectionParameters
<1>1. TypeOK
  <2>1. << >> \in Seq(Unit) /\ << >> \in Seq(Messages) /\ << >> \in Seq(Seq(Unit))
    BY EmptySeq
  <2> QED BY <1>0, <2>1 DEF TypeOK, PcLabels
<1>2. CommandInv /\ ReceiverInv
  BY DEF CommandInv, ReceiverInv, Live
<1>3. SentInv
  <2>1. Len(sent) = 0 /\ DOMAIN sent = {}
    BY EmptySeq
  <2> QED BY <2>1 DEF SentInv, Said
<1>4. StreamInv
  <2>1. Len(sent) = 0 /\ DOMAIN toClient = {} /\ 3 - 2 = 1 /\ 0 + 1 = 1
    BY EmptySeq
  <2>2. Expected = <<1, 0>>
    BY <2>1 DEF Expected, Current
  <2>3. NextSent = <<1, 0>>
    BY <2>1 DEF NextSent
  <2>4. InOrder(toClient)
    BY <2>1 DEF InOrder
  <2> QED BY <2>1, <2>2, <2>3, <2>4 DEF StreamInv, Between
<1>5. DoneInv /\ FramesKept /\ BrokenPipeHasCause
  BY DEF DoneInv, FramesKept, BrokenPipeHasCause
<1>6. PrintInv
  <2>1. Len(printed) = 0 /\ DOMAIN printed = {} /\ DOMAIN partial = {} /\ 2 - 2 = 0
    BY EmptySeq
  <2> QED BY <2>1 DEF PrintInv
<1>7. TextsInv
  <2>1. Joined(<< >>, FirstText, LastRead)
    <3>1. LastRead = FirstText - 1 /\ FirstText \in Nat \ {0}
      BY DEF LastRead, FirstText
    <3> QED BY <3>1, JoinedNone
  <2>2. DOMAIN printed = {}
    BY EmptySeq
  <2> QED BY <2>1, <2>2 DEF TextsInv
<1> QED BY <1>1, <1>2, <1>3, <1>4, <1>5, <1>6, <1>7 DEF ConnectionInv

(* Every step keeps all of it.                                               *)
LEMMA StepInv == ConnectionInv /\ [Next]_vars => ConnectionInv'
<1> SUFFICES ASSUME ConnectionInv, [Next]_vars PROVE ConnectionInv'
  OBVIOUS
<1> USE DEF ConnectionInv
<1>1. TypeOK'
  BY StepTypes
<1>2. CommandInv'
  BY StepCommand
<1>3. SentInv'
  BY StepSent
<1>4. ReceiverInv'
  BY StepReceiver
<1>5. StreamInv'
  BY <1>3, StepStream
<1>6. DoneInv'
  BY StepDone
<1>7. PrintInv'
  BY StepPrint
<1>8. FramesKept'
  BY StepFrames
<1>9. BrokenPipeHasCause'
  BY StepPipe
<1>10. TextsInv'
  BY StepTexts
<1> QED BY <1>1, <1>2, <1>3, <1>4, <1>5, <1>6, <1>7, <1>8, <1>9, <1>10

(* It holds in every behaviour.                                              *)
LEMMA Inductive == Spec => []ConnectionInv
BY InitInv, StepInv, PTL DEF Spec

(* The variables of the connection and of both its ends keep their types.    *)
THEOREM ConnectionTypeCorrect == Spec => []TypeOK
<1>1. ConnectionInv => TypeOK
  BY DEF ConnectionInv
<1> QED BY <1>1, Inductive, PTL

(* However the reads split what is sent: a client takes a text for a length   *)
(* only if two threads wrote to it at once, or, other than a job's client,   *)
(* after it made do with a part of a text or when the server has ended       *)
(* (clientReceivers.cpp:29, 88, 128, 137, 167, 200).                         *)
THEOREM FramingKept == Spec => []FramesKept
<1>1. ConnectionInv => FramesKept
  BY DEF ConnectionInv
<1> QED BY <1>1, Inductive, PTL

(* The server dies of a broken pipe only if the client was killed, its        *)
(* messages overlapped or were read in part, or it was told more than the     *)
(* two things it waits for (workerThread.cpp:236-237, client.cpp:135-141).   *)
THEOREM BrokenPipeCaused == Spec => []BrokenPipeHasCause
<1>1. ConnectionInv => BrokenPipeHasCause
  BY DEF ConnectionInv
<1> QED BY <1>1, Inductive, PTL

(* What a client prints is what it was sent, whole and in the order it was    *)
(* sent in, and poll's client prints all the jobs announced, unless two       *)
(* messages overlapped or a receiver made do with a part of a text; a job's   *)
(* client whose server has ended prints its last response again              *)
(* (clientReceivers.cpp:23-70, 112-147, client.cpp:127-168).                 *)
THEOREM PrintedRightly == Spec => []PrintedIsSent
<1>1. ConnectionInv /\ mode = "issueJob" => PrintedIsSent
  BY DEF ConnectionInv, PrintInv, PrintedRight, PrintedIsSent
<1>2. ConnectionInv /\ mode # "issueJob" => PrintedIsSent
  <2> SUFFICES ASSUME ConnectionInv, mode # "issueJob", ~overlapped, ~short,
                      NEW i \in DOMAIN printed
               PROVE  IF mode = "poll" THEN Joined(printed[i], 2, announced + 1)
                      ELSE Joined(printed[i], 1, 1)
    BY DEF PrintedIsSent
  <2> QED BY DEF ConnectionInv, TextsInv, FirstText
<1>3. ConnectionInv => PrintedIsSent
  BY <1>1, <1>2
<1> QED BY <1>3, Inductive, PTL
===============================================================================
