------------------------------ MODULE ByteLine ------------------------------
(***************************************************************************)
(* What the UART driver promises its writers: a write is accepted as a      *)
(* whole while there is room for it, and the accepted bytes leave on the    *)
(* line one by one, each once, in the order they were accepted.  Bytes are  *)
(* named by the order in which they were accepted.                          *)
(***************************************************************************)
EXTENDS Integers, Sequences

CONSTANT Capacity

VARIABLES accepted,  \* how many bytes have been accepted
          sent       \* the bytes that have left

Init == accepted = 0 /\ sent = <<>>

Accept ==
  \E n \in 1 .. Capacity :
    /\ accepted + n - Len(sent) <= Capacity
    /\ accepted' = accepted + n
    /\ UNCHANGED sent

Send ==
  /\ Len(sent) < accepted
  /\ sent' = Append(sent, Len(sent) + 1)
  /\ UNCHANGED accepted

Next == Accept \/ Send

Spec == Init /\ [][Next]_<<accepted, sent>> /\ WF_<<accepted, sent>>(Send)
=============================================================================
