------------------------------ MODULE MCSession ------------------------------
(* Small instances of Session: the packets and records of the runs. *)
EXTENDS SessionProperties, TLC

CONSTANTS p1, p2, p3, c1, c2

\* Records like those of Controller/Config.txt: routes on two hosts, then retry;
\* the catch-all drop; a packet without a record.
MCPlan ==
  [p \in Packets |-> CASE p = p1 -> <<"command", "elsewhere", "command", "retry">>
                       [] p = p2 -> <<"drop">>
                       [] OTHER  -> <<>>]

MCSymmetry == Permutations(Others)

\* What the theorems about elevation suppose of the records holds of these.
ASSUME MCPlanAssumption == RecordsAnswerOnce

=============================================================================
