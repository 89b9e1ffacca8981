------------------------------ MODULE MCOutbox ------------------------------
(* Instances of Outbox for TLC. *)
EXTENDS Outbox, TLC

\* Targets are interchangeable: no action names one, and Source contains
\* them all.  Sound for invariants only.
TargetSymmetry == Permutations(Target)
=============================================================================
