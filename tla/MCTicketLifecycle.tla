------------------------- MODULE MCTicketLifecycle -------------------------
(* The instance of TicketLifecycle that TLC explores: two departments, an    *)
(* engineer and a supervisor in the first, a customer service agent, who     *)
(* opened the ticket, in the second.                                         *)
EXTENDS TicketLifecycle, TLC

CONSTANTS eng, sup, csa, noc, care, r1, r2

MCUsers == {eng, sup, csa}
MCDepts == {noc, care}
MCRole  == (eng :> "NOC_ENGINEER") @@ (sup :> "SUPERVISOR") @@ (csa :> "CUSTOMER_SERVICE_AGENT")
(* With an administrator, who may delete tickets, for the supervisor.        *)
MCAdminRole == [MCRole EXCEPT ![sup] = "ADMINISTRATOR"]
MCDept  == (eng :> noc) @@ (sup :> noc) @@ (csa :> care)
MCMoves == {[role |-> "NOC_ENGINEER", dept |-> care], [role |-> "SUPERVISOR", dept |-> noc]}

Slots == Permutations(Requests)

(* Starts in the middle of a life: what a history without races leaves at    *)
(* time 0 of a ticket of the first department.                               *)
Assigned   == [NewTicket(noc) EXCEPT !.status = "ASSIGNED", !.assignedTo = eng]
InProgress == [Assigned EXCEPT !.status = "IN_PROGRESS", !.firstAt = 0]
Waiting    == [InProgress EXCEPT !.status = "PENDING_CUSTOMER", !.pausedAt = 0]
Resolved   == [InProgress EXCEPT !.status = "RESOLVED", !.resolvedAt = 0]

MidLifeInit ==
    /\ \/ ticket \in {NewTicket(noc), Assigned} /\ told = None
       \/ ticket = InProgress /\ told = PublicStatusEvent("IN_PROGRESS")
       \/ ticket = Waiting /\ told = PublicStatusEvent("PENDING_CUSTOMER")
       \/ ticket = Resolved /\ told = PublicStatusEvent("RESOLVED")
    /\ StaffInit
    /\ now = 0
    /\ req = [r \in Requests |-> Free]
    /\ job = FALSE
    /\ cron = CronIdle
    /\ closer = CloserIdle
    /\ strayed = FALSE
    /\ inputs = MaxInputs

MidLifeSpec     == MidLifeInit /\ [][Next]_vars
MidLifeCalmSpec == MidLifeInit /\ [][Next /\ Undisturbed]_vars
MidLifeFairSpec == MidLifeSpec /\ Fairness
=============================================================================
