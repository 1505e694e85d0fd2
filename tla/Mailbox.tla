------------------------------ MODULE Mailbox ------------------------------
(***************************************************************************)
(* What the OSAL message interface promises the tasks: a mailbox each.  A   *)
(* sender appends a message or puts it in front, only the owner takes, and  *)
(* always the first; an item is in one place; an owner whose mailbox is not *)
(* empty goes on taking until it is.                                        *)
(***************************************************************************)
EXTENDS Integers, Sequences

CONSTANTS Owners, Items

VARIABLE mbox

Init == mbox = [o \in Owners |-> <<>>]

Boxed(x) == \E o \in Owners : \E i \in 1 .. Len(mbox[o]) : mbox[o][i] = x

PutLast(o, x) == mbox' = [mbox EXCEPT ![o] = Append(@, x)]

PutFirst(o, x) == mbox' = [mbox EXCEPT ![o] = <<x>> \o @]

Deliver(o, x) == ~Boxed(x) /\ (PutLast(o, x) \/ PutFirst(o, x))

Take(o) ==
  /\ mbox[o] # <<>>
  /\ mbox' = [mbox EXCEPT ![o] = Tail(@)]

Next == \E o \in Owners : Take(o) \/ \E x \in Items : Deliver(o, x)

Safe == Init /\ [][Next]_mbox

Fair == \A o \in Owners : WF_mbox(Take(o))

Spec == Safe /\ Fair

=============================================================================
