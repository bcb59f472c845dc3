----------------------------- MODULE FifoChannel -----------------------------
(***************************************************************************)
(* What a MessageQueue promises to the two threads that share it: the      *)
(* messages accepted from the sending thread are executed by the receiving *)
(* thread once each, in the order in which they were accepted, and nothing *)
(* is accepted once the channel is closed.                                 *)
(***************************************************************************)
EXTENDS Naturals, Sequences

CONSTANT Msg

VARIABLES sent,      \* every message accepted so far, oldest first
          got,       \* every message executed so far, oldest first
          closed     \* no more messages are accepted

vars == <<sent, got, closed>>

Init ==
  /\ sent = <<>>
  /\ got = <<>>
  /\ closed = FALSE

Send(m) ==
  /\ ~closed
  /\ sent' = Append(sent, m)
  /\ UNCHANGED <<got, closed>>

Receive ==
  /\ Len(got) < Len(sent)
  /\ got' = Append(got, sent[Len(got) + 1])
  /\ UNCHANGED <<sent, closed>>

Close ==
  /\ closed' = TRUE
  /\ UNCHANGED <<sent, got>>

Next == (\E m \in Msg : Send(m)) \/ Receive \/ Close

SafeSpec == Init /\ [][Next]_vars

\* A promise, not only a permission: what was accepted is executed.
Spec == SafeSpec /\ WF_vars(Receive)
=============================================================================
