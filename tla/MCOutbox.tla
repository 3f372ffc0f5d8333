------------------------------ MODULE MCOutbox ------------------------------
(* The instance of Outbox that TLC explores: interchangeable replicas.       *)
EXTENDS Outbox, TLC

CONSTANTS p1, p2

Replicas == Permutations(Instances)
=============================================================================
