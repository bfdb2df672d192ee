--------------------------- MODULE CommandService ---------------------------
(***************************************************************************)
(* What a session promises to those who give commands: the host runs every *)
(* command once, in the order the controller numbered them, and the        *)
(* controller prints the responses in that order too.                      *)
(***************************************************************************)
EXTENDS Naturals, Sequences

VARIABLES issued, executed, reported

vars == <<issued, executed, reported>>

Init == issued = <<>> /\ executed = <<>> /\ reported = <<>>

\* One more command, whatever it is, gets the next place in the order.
Issue ==
  /\ Len(issued') = Len(issued) + 1
  /\ SubSeq(issued', 1, Len(issued)) = issued
  /\ UNCHANGED <<executed, reported>>

Execute ==
  /\ Len(executed) < Len(issued)
  /\ executed' = Append(executed, issued[Len(executed) + 1])
  /\ UNCHANGED <<issued, reported>>

Report ==
  /\ Len(reported) < Len(executed)
  /\ reported' = Append(reported, executed[Len(reported) + 1])
  /\ UNCHANGED <<issued, executed>>

Next == Issue \/ Execute \/ Report

SafeSpec == Init /\ [][Next]_vars

Spec == SafeSpec /\ WF_vars(Execute) /\ WF_vars(Report)

=============================================================================
