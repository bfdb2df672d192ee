------------------------------- MODULE Channel -------------------------------
(***************************************************************************)
(* What one direction of a connection promises to the code above it: the   *)
(* messages sent are received, whole and in the order they were sent.      *)
(***************************************************************************)
EXTENDS Naturals, Sequences

VARIABLES sent, received

vars == <<sent, received>>

Init == sent = <<>> /\ received = <<>>

\* One more message, whatever it is.
Send ==
  /\ Len(sent') = Len(sent) + 1
  /\ SubSeq(sent', 1, Len(sent)) = sent
  /\ UNCHANGED received

Receive ==
  /\ Len(received) < Len(sent)
  /\ received' = Append(received, sent[Len(received) + 1])
  /\ UNCHANGED sent

Next == Send \/ Receive

=============================================================================
