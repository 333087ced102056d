----------------------------- MODULE ClientDialogue -----------------------------
(*****************************************************************************)
(* What the server promises to say to each client, without its threads: the *)
(* command is read once, and from then on the answers come in an order that *)
(* Protocol allows for its mode.                                             *)
(*****************************************************************************)
EXTENDS Protocol

CONSTANT Clients

VARIABLES
  mode,  \* the mode the server has read from each client, or "none" yet
  said   \* the answers sent to each client, oldest first

dialogueVars == <<mode, said>>

Init ==
  /\ mode = [c \in Clients |-> "none"]
  /\ said = [c \in Clients |-> << >>]

Read(c) ==
  /\ mode[c] = "none"
  /\ \E m \in Modes : mode' = [mode EXCEPT ![c] = m]
  /\ UNCHANGED said

Say(c) ==
  /\ \E m \in Messages : /\ MaySay(mode[c], said[c], m)
                         /\ said' = [said EXCEPT ![c] = Append(@, m)]
  /\ UNCHANGED mode

Next == \E c \in Clients : Read(c) \/ Say(c)

Spec == Init /\ [][Next]_dialogueVars
===============================================================================
