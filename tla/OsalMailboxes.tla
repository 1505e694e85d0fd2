--------------------------- MODULE OsalMailboxes ---------------------------
(***************************************************************************)
(* The mapping of the kernel's one message list to a mailbox per task.      *)
(***************************************************************************)
EXTENDS OsalKernel

\* The messages of list q that are for task t, first to last.
MessagesFor(q, dest, t) ==
  LET box[i \in 0 .. Len(q)] ==
        IF i = 0 THEN <<>>
        ELSE IF dest[q[i]] = t THEN Append(box[i - 1], q[i]) ELSE box[i - 1]
  IN  box[Len(q)]

Boxes == [t \in Tasks |-> MessagesFor(qHead, destId, t)]

Mail == INSTANCE Mailbox WITH Owners <- Tasks, Items <- Msgs, mbox <- Boxes

(***************************************************************************)
(* osal_msg_send, osal_msg_push_front and osal_msg_receive implement one    *)
(* mailbox per task over the single list osal_qHead: a task takes its own   *)
(* messages only, each once and in their order, whatever the interrupts and *)
(* the other tasks put between them.                                        *)
(***************************************************************************)
ImplementsMailbox == Mail!Safe

(***************************************************************************)
(* Every message is taken in the end: the flag that announces it is never   *)
(* lost, and the loop comes to every task.                                  *)
(***************************************************************************)
MessagesTaken == Mail!Fair

=============================================================================
