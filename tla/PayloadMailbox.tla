-------------------------- MODULE PayloadMailbox --------------------------
(***************************************************************************)
(* What a display is meant to get from its network side: a mailbox.  Each  *)
(* sender writes its payload a chunk at a time, closes, and then its text, *)
(* and nothing else, is delivered as one message.  A reset may cut the     *)
(* message short; it never mixes it with another one.                      *)
(***************************************************************************)
EXTENDS Integers, Sequences

CONSTANTS Conn, Chunks

VARIABLES wrote, ended, taken, delivered

mailVars == <<wrote, ended, taken, delivered>>

Text(c, n) == [i \in 1 .. n |-> <<c, i>>]

Init ==
    /\ wrote = [c \in Conn |-> 0]
    /\ ended = [c \in Conn |-> "up"]
    /\ taken = [c \in Conn |-> FALSE]
    /\ delivered = <<>>

Write(c) ==
    /\ ended[c] = "up" /\ wrote[c] < Chunks
    /\ wrote' = [wrote EXCEPT ![c] = @ + 1]
    /\ UNCHANGED <<ended, taken, delivered>>

End(c) ==
    /\ ended[c] = "up"
    /\ \E how \in {"fin", "rst"} : ended' = [ended EXCEPT ![c] = how]
    /\ UNCHANGED <<wrote, taken, delivered>>

Deliver(c) ==
    /\ ended[c] # "up" /\ ~taken[c]
    /\ taken' = [taken EXCEPT ![c] = TRUE]
    /\ \E n \in 0 .. wrote[c] :
          /\ ended[c] = "fin" => n = wrote[c]
          /\ delivered' = Append(delivered, Text(c, n))
    /\ UNCHANGED <<wrote, ended>>

Next == \E c \in Conn : Write(c) \/ End(c) \/ Deliver(c)

Spec == Init /\ [][Next]_mailVars
=============================================================================
