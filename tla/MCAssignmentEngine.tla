------------------------ MODULE MCAssignmentEngine ------------------------
(* The instances of AssignmentEngine that TLC explores: one team of two      *)
(* agents, of whom one is a specialist; or two teams, of which one is not    *)
(* assigned automatically and owns the ticket that comes first.              *)
EXTENDS AssignmentEngine, TLC

CONSTANTS t1, t2, t3, ann, bob, noc, bss, s1, s2

OneTeam      == [t \in Tickets |-> noc]
TwoTeams     == [t \in Tickets |-> IF t = t1 THEN bss ELSE noc]
MCDept       == [a \in Agents |-> noc]
MCCap        == [a \in Agents |-> 1]
CapByName    == (ann :> 1) @@ (bob :> 2)
MCWeight     == [t \in Tickets |-> CASE t = t1 -> 10 [] t = t2 -> 2 [] t = t3 -> 3]
MCRank       == [t \in Tickets |-> CASE t = t1 -> 0 [] t = t2 -> 1 [] t = t3 -> 2]
MCSpecialists == [t \in Tickets |-> IF t = t1 THEN {ann} ELSE Agents]

Parallel == Permutations(Slots)
=============================================================================
