-------------------------- MODULE AssignmentEngine --------------------------
(* Several routing transactions at once (assignment-engine.service.ts), run  *)
(* by the assignment worker, which takes up to ten jobs in parallel, and by  *)
(* the sweep of auto-assignment.cron.ts over the tickets without assignee.   *)
(* routeTicket is one READ COMMITTED transaction: it locks the ticket, then  *)
(* reads the agents, then their load, then locks the agent it has chosen and *)
(* writes.  The team of a ticket and the settings of its department do not   *)
(* change here.                                                              *)
EXTENDS Integers, FiniteSets
LOCAL Sets == INSTANCE FiniteSetsExt

CONSTANTS
    Tickets,       \* tickets of the teams considered
    Agents,        \* their agents, supervisors and administrators left out
    Team,          \* Team[t]: assigned_team_id
    Dept,          \* Dept[a]: department of the agent
    Automatic,     \* the departments with auto_assignment_enabled
    RoundRobin,    \* the departments with strategy ROUND_ROBIN
    Specialists,   \* Specialists[t]: agents with a role the category targets
    Cap,           \* Cap[a]: max_concurrent_tickets
    Weight,        \* Weight[t]: priority weight plus severity weight
    MaxWorkload,   \* max_workload_per_agent
    Rank,          \* Rank[t]: place by priority, severity and age, first = 0
    Limit,         \* tickets per pass of the sweep (50)
    Slots,         \* routing transactions that may run at once
    None,          \* SQL NULL
    MaxInputs      \* bound on the number of inputs and faults

Penalty == 20

ASSUME EngineAssumption ==
    /\ IsFiniteSet(Tickets) /\ IsFiniteSet(Slots) /\ Slots # {}
    /\ None \notin Agents
    /\ Cap \in [Agents -> Nat \ {0}]
    /\ Weight \in [Tickets -> Nat] /\ MaxWorkload \in Nat
    /\ Rank \in [Tickets -> Nat]
    /\ Specialists \in [Tickets -> SUBSET Agents]
    /\ Limit \in Nat \ {0} /\ MaxInputs \in Nat

VARIABLES
    ticket,    \* the rows of tickets
    agent,     \* the rows of users
    jobs,      \* tickets with a route_ticket job in the queue
    cron,      \* the pass of the sweep: tickets it has still to route
    tx,        \* tx[s]: what the routing transaction of slot s holds
    routed,    \* number of routings so far, standing for the clock
    inputs     \* inputs and faults left

vars == <<ticket, agent, jobs, cron, tx, routed, inputs>>

(* "ASSIGNED" stands for every status of a ticket in progress or waiting,    *)
(* "RESOLVED" for every finished one.                                        *)
Active == {"ASSIGNED", "REOPENED"}
TicketRow == [status: {"ABSENT", "NEW", "RESOLVED"} \cup Active, assignedTo: Agents \cup {None}]
AgentRow  == [available: BOOLEAN, lastAssignedAt: Nat]

Idle == [pc |-> "idle"]
TxState ==
    {Idle}
    \cup [pc: {"agents"}, t: Tickets, by: {"job", "cron"}]
    \cup [pc: {"load"}, t: Tickets, by: {"job", "cron"}, at: Nat, eligible: [Agents -> AgentRow]]
    \cup [pc: {"assign"}, t: Tickets, by: {"job", "cron"}, at: Nat, chosen: Agents]

CronIdle == [pc |-> "idle"]

TypeOK ==
    /\ ticket \in [Tickets -> TicketRow]
    /\ agent \in [Agents -> AgentRow]
    /\ jobs \subseteq Tickets
    /\ cron \in {CronIdle} \cup [pc: {"pass"}, todo: SUBSET Tickets]
    /\ tx \in [Slots -> TxState]
    /\ \A r, s \in Slots : r # s /\ tx[r] # Idle /\ tx[s] # Idle => tx[r].t # tx[s].t
    /\ routed \in Nat
    /\ inputs \in Nat

Init ==
    /\ ticket = [t \in Tickets |-> [status |-> "ABSENT", assignedTo |-> None]]
    /\ agent = [a \in Agents |-> [available |-> TRUE, lastAssignedAt |-> 0]]
    /\ jobs = {}
    /\ cron = CronIdle
    /\ tx = [s \in Slots |-> Idle]
    /\ routed = 0
    /\ inputs = MaxInputs

-----------------------------------------------------------------------------
(* The load of an agent.                                                     *)
ActiveOf(a) == {t \in Tickets : ticket[t].assignedTo = a /\ ticket[t].status \in Active}
Load(a) == Cardinality(ActiveOf(a))
Score(a) == Sets!MapThenSumSet(LAMBDA t : Weight[t], ActiveOf(a))

Unassigned(t) == ticket[t].assignedTo = None /\ ticket[t].status \in {"NEW", "REOPENED"}

(* SELECT ... FOR UPDATE on the row of the ticket.                           *)
Locked(t) == \E s \in Slots : tx[s] # Idle /\ tx[s].t = t

-----------------------------------------------------------------------------
(* Mutant: the sweep only reads the NEW tickets.                             *)
MutCronStart ==
    LET all == {t \in Tickets : Unassigned(t) /\ ticket[t].status = "NEW"}
    IN  /\ cron = CronIdle
        /\ all # {}
        /\ cron' = [pc |-> "pass",
                    todo |-> {t \in all : Cardinality({u \in all : Rank[u] < Rank[t]}) < Limit}]
        /\ UNCHANGED <<ticket, agent, jobs, tx, routed, inputs>>

(* The sweep reads the first Limit tickets without assignee, of whatever     *)
(* team, and routes them in parallel; one pass at a time.                    *)
CronStart ==
    LET all == {t \in Tickets : Unassigned(t)}
    IN  /\ cron = CronIdle
        /\ all # {}
        /\ cron' = [pc |-> "pass",
                    todo |-> {t \in all : Cardinality({u \in all : Rank[u] < Rank[t]}) < Limit}]
        /\ UNCHANGED <<ticket, agent, jobs, tx, routed, inputs>>

CronEnd ==
    /\ cron.pc = "pass"
    /\ cron.todo = {}
    /\ \A s \in Slots : tx[s] # Idle => tx[s].by # "cron"
    /\ cron' = CronIdle
    /\ UNCHANGED <<ticket, agent, jobs, tx, routed, inputs>>

Take(t, by) ==
    \/ by = "job" /\ t \in jobs /\ jobs' = jobs \ {t} /\ UNCHANGED cron
    \/ by = "cron" /\ cron.pc = "pass" /\ t \in cron.todo
       /\ cron' = [cron EXCEPT !.todo = @ \ {t}] /\ UNCHANGED jobs

(* Mutant: the ticket is read without FOR UPDATE.                            *)
MutBegin(s) ==
    /\ tx[s] = Idle
    /\ \E t \in Tickets, by \in {"job", "cron"} :
          /\ Take(t, by)
          /\ tx' = IF Unassigned(t) /\ Team[t] \in Automatic
                   THEN [tx EXCEPT ![s] = [pc |-> "agents", t |-> t, by |-> by]]
                   ELSE tx
    /\ UNCHANGED <<ticket, agent, routed, inputs>>

(* Steps 1 and 2: the lock, the guard, the department.                       *)
Begin(s) ==
    /\ tx[s] = Idle
    /\ \E t \in Tickets, by \in {"job", "cron"} :
          /\ Take(t, by)
          /\ ~Locked(t)
          /\ tx' = IF Unassigned(t) /\ Team[t] \in Automatic
                   THEN [tx EXCEPT ![s] = [pc |-> "agents", t |-> t, by |-> by]]
                   ELSE tx
    /\ UNCHANGED <<ticket, agent, routed, inputs>>

(* Step 3.  The rows of all the agents are kept; those of the team that are  *)
(* active, available and not absent are the eligible ones.                   *)
ReadAgents(s) ==
    /\ tx[s].pc = "agents"
    /\ tx' = [tx EXCEPT ![s] = [pc |-> "load", t |-> tx[s].t, by |-> tx[s].by,
                                at |-> routed, eligible |-> agent]]
    /\ UNCHANGED <<ticket, agent, jobs, cron, routed, inputs>>

Eligible(s) ==
    {a \in Agents : Dept[a] = Team[tx[s].t] /\ tx[s].eligible[a].available}

(* Mutant: the limits are compared with > instead of >=.                     *)
MutCandidates(s) ==
    {a \in Eligible(s) : Load(a) <= Cap[a] /\ Score(a) <= MaxWorkload}

(* Step 4: agents below both limits.                                         *)
Candidates(s) ==
    {a \in Eligible(s) : Load(a) < Cap[a] /\ Score(a) < MaxWorkload}

(* Step 5: the strategy of the department.                                   *)
Cost(s, a) == Score(a) + (IF a \in Specialists[tx[s].t] THEN 0 ELSE Penalty)
Before(s, a, b) ==
    LET older == tx[s].eligible[a].lastAssignedAt < tx[s].eligible[b].lastAssignedAt
    IN  IF Team[tx[s].t] \in RoundRobin THEN older
        ELSE Cost(s, a) < Cost(s, b) \/ (Cost(s, a) = Cost(s, b) /\ older)

Select(s) ==
    /\ tx[s].pc = "load"
    /\ IF Candidates(s) = {} THEN tx' = [tx EXCEPT ![s] = Idle]
       ELSE \E a \in Candidates(s) :
               /\ \A b \in Candidates(s) : ~Before(s, b, a)
               /\ tx' = [tx EXCEPT ![s] = [pc |-> "assign", t |-> tx[s].t, by |-> tx[s].by,
                                           at |-> tx[s].at, chosen |-> a]]
    /\ UNCHANGED <<ticket, agent, jobs, cron, routed, inputs>>

(* Steps 6 and 7: the lock of the agent, the updates and the commit.         *)
Assign(s) ==
    /\ tx[s].pc = "assign"
    /\ ticket' = [ticket EXCEPT ![tx[s].t] = [status |-> "ASSIGNED",
                                              assignedTo |-> tx[s].chosen]]
    /\ agent' = [agent EXCEPT ![tx[s].chosen].lastAssignedAt = tx[s].at + 1]
    /\ tx' = [tx EXCEPT ![s] = Idle]
    /\ routed' = routed + 1
    /\ UNCHANGED <<jobs, cron, inputs>>

(* A database error: routeTicket rolls back and returns false.               *)
Input == inputs > 0 /\ inputs' = inputs - 1

RollBack(s) ==
    /\ Input
    /\ tx[s] # Idle
    /\ tx' = [tx EXCEPT ![s] = Idle]
    /\ UNCHANGED <<ticket, agent, jobs, cron, routed>>

-----------------------------------------------------------------------------
(* The rest of the program: every UPDATE of a ticket waits for its lock.     *)
Write(t, row) ==
    /\ ~Locked(t)
    /\ ticket' = [ticket EXCEPT ![t] = row]
    /\ UNCHANGED <<agent, cron, tx, routed>>

(* Creation, and withdrawal by the sweep: a job is queued unless the queue   *)
(* is unavailable.                                                           *)
Create(t) ==
    /\ ticket[t].status = "ABSENT"
    /\ Write(t, [status |-> "NEW", assignedTo |-> None])
    /\ jobs' \in {jobs, jobs \cup {t}}
    /\ UNCHANGED inputs

Withdraw(t) ==
    /\ Input
    /\ ticket[t].status \in Active /\ ticket[t].assignedTo # None
    /\ Write(t, [status |-> "REOPENED", assignedTo |-> None])
    /\ jobs' \in {jobs, jobs \cup {t}}

(* changeStatus: the assignee finishes; a reopening keeps the assignee.      *)
Finish(t) ==
    /\ Input
    /\ ticket[t].status \in Active
    /\ Write(t, [ticket[t] EXCEPT !.status = "RESOLVED"])
    /\ UNCHANGED jobs

Reopen(t) ==
    /\ Input
    /\ ticket[t].status = "RESOLVED"
    /\ Write(t, [ticket[t] EXCEPT !.status = "REOPENED"])
    /\ UNCHANGED jobs

(* assign, by hand: no limit is looked at.                                   *)
AssignByHand(t, a) ==
    /\ Input
    /\ ticket[t].status \in {"NEW"} \cup Active
    /\ agent[a].available /\ Dept[a] = Team[t]
    /\ Write(t, [status     |-> IF ticket[t].status = "NEW" THEN "ASSIGNED" ELSE ticket[t].status,
                 assignedTo |-> a])
    /\ UNCHANGED jobs

(* setAvailability, setOwnAbsence, activate, deactivate.                     *)
SetAvailability(a) ==
    /\ Input
    /\ agent' = [agent EXCEPT ![a].available = ~@]
    /\ UNCHANGED <<ticket, jobs, cron, tx, routed>>

-----------------------------------------------------------------------------
Routing(s) == Begin(s) \/ ReadAgents(s) \/ Select(s) \/ Assign(s)

Sweep == CronStart \/ CronEnd

Elsewhere ==
    \/ \E t \in Tickets : Create(t) \/ Withdraw(t) \/ Finish(t)
    \/ \E a \in Agents : SetAvailability(a)
    \/ \E s \in Slots : RollBack(s)

(* The two ways in which an agent's load grows without the engine.           *)
ExtraLoad ==
    \E t \in Tickets : Reopen(t) \/ \E a \in Agents : AssignByHand(t, a)

Next == (\E s \in Slots : Routing(s)) \/ Sweep \/ Elsewhere \/ ExtraLoad

Spec == Init /\ [][Next]_vars

(* Only the engine gives tickets to agents.                                  *)
EngineSpec == Init /\ [][Next /\ ~ExtraLoad]_vars

(* The worker and the cron expression run for ever; transactions end.        *)
FairSpec == Spec /\ WF_vars(Sweep) /\ \A s \in Slots : WF_vars(Routing(s))

-----------------------------------------------------------------------------
(* PROPERTIES                                                                *)

(* A routing never takes a ticket from somebody: whatever the job, the sweep *)
(* and the agents do meanwhile, the ticket it writes is still without        *)
(* assignee and still to be routed when it writes.                           *)
AssignsOnlyFree ==
    \A s \in Slots : tx[s].pc = "assign" /\ routed' = routed + 1 /\ tx'[s] = Idle
                     => Unassigned(tx[s].t)
RoutesOnlyFree == [][AssignsOnlyFree]_vars

(* Transactions that count the same load before either commits may give one  *)
(* agent too many tickets, but never more than one per parallel transaction  *)
(* beyond the first (under EngineSpec).                                      *)
OvershootBounded == \A a \in Agents : Load(a) <= Cap[a] + Cardinality(Slots) - 1

(* No ticket is forgotten: a ticket without assignee does not stay so for    *)
(* ever while its team has an available agent below both limits.             *)
HasTaker(t) ==
    /\ Team[t] \in Automatic
    /\ \E a \in Agents : /\ Dept[a] = Team[t] /\ agent[a].available
                         /\ Load(a) < Cap[a] /\ Score(a) < MaxWorkload
NoneForgotten == \A t \in Tickets : []<>~(Unassigned(t) /\ HasTaker(t))

-----------------------------------------------------------------------------
(* STATEMENTS of the documents and comments that the code does not meet.     *)

(* users.ts: max_concurrent_tickets is the largest number of tickets an      *)
(* agent handles at once; detailed-design-assignment-sla.md: the engine      *)
(* checks it and assigns atomically.  (Under EngineSpec.)                    *)
LoadWithinLimit == \A a \in Agents : Load(a) <= Cap[a]
=============================================================================
