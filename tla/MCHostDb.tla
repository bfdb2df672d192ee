------------------------------ MODULE MCHostDb ------------------------------
(* Small instances of HostDb. *)
EXTENDS HostDbProperties, TLC

CONSTANTS h1, h2, console, other

MCSymmetry == Permutations(Senders)

=============================================================================
