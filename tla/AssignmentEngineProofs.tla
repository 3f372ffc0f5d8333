----------------------- MODULE AssignmentEngineProofs -----------------------
(* Proofs about AssignmentEngine, for every number of tickets, agents and    *)
(* parallel transactions, every load limit and every weight.                 *)
EXTENDS AssignmentEngine, FiniteSetTheorems, TLAPS

USE EngineAssumption

-----------------------------------------------------------------------------
(* The inductive invariant: the types, and a ticket held by a routing stays  *)
(* to be routed, since every other write waits for its lock.                 *)
HeldIsFree == \A s \in Slots : tx[s] # Idle => Unassigned(tx[s].t)

EngineInv == TypeOK /\ HeldIsFree

LEMMA TxShape ==
    ASSUME TypeOK, NEW s \in Slots
    PROVE  /\ tx[s].pc = "agents" => tx[s] \in [pc: {"agents"}, t: Tickets, by: {"job", "cron"}]
           /\ tx[s].pc = "load" =>
                 tx[s] \in [pc: {"load"}, t: Tickets, by: {"job", "cron"}, at: Nat,
                            eligible: [Agents -> AgentRow]]
           /\ tx[s].pc = "assign" =>
                 tx[s] \in [pc: {"assign"}, t: Tickets, by: {"job", "cron"}, at: Nat,
                            chosen: Agents]
           /\ tx[s].pc \in {"idle", "agents", "load", "assign"}
           /\ tx[s].pc = "idle" <=> tx[s] = Idle
           /\ tx[s] # Idle => tx[s].t \in Tickets
  BY DEF TypeOK, TxState, Idle

LEMMA NoneIsNobody == None \notin Agents
  OBVIOUS

(* A step of one transaction that keeps its ticket, or ends it, keeps the    *)
(* locks apart and the held tickets to be routed.                            *)
LEMMA MoveInv ==
    ASSUME EngineInv, NEW s \in Slots, NEW new \in TxState,
           tx' = [tx EXCEPT ![s] = new],
           new = Idle \/ (tx[s] # Idle /\ new.t = tx[s].t),
           UNCHANGED ticket,
           UNCHANGED <<agent, jobs, cron>>, routed' \in Nat, inputs' \in Nat
    PROVE  EngineInv'
  <1>1. tx \in [Slots -> TxState]
    BY DEF EngineInv, TypeOK
  <1>2. tx'[s] = new /\ \A r \in Slots \ {s} : tx'[r] = tx[r]
    BY <1>1
  <1>3. \A r \in Slots : tx'[r] # Idle => tx[r] # Idle /\ tx'[r].t = tx[r].t
    BY <1>2
  <1>4. TypeOK'
    <2>1. tx' \in [Slots -> TxState]
      BY <1>1
    <2>2. \A q, r \in Slots : q # r /\ tx'[q] # Idle /\ tx'[r] # Idle => tx'[q].t # tx'[r].t
      BY <1>3 DEF EngineInv, TypeOK
    <2> QED
      BY <2>1, <2>2 DEF EngineInv, TypeOK
  <1>5. HeldIsFree'
    BY <1>3 DEF EngineInv, HeldIsFree, Unassigned
  <1> QED
    BY <1>4, <1>5 DEF EngineInv

LEMMA BeginInv ==
    ASSUME EngineInv, NEW s \in Slots, Begin(s)
    PROVE  EngineInv'
  <1>1. PICK t \in Tickets, by \in {"job", "cron"} :
           /\ Take(t, by)
           /\ ~Locked(t)
           /\ tx' = IF Unassigned(t) /\ Team[t] \in Automatic
                    THEN [tx EXCEPT ![s] = [pc |-> "agents", t |-> t, by |-> by]]
                    ELSE tx
    BY DEF Begin
  <1>2. jobs' \subseteq Tickets /\ cron' \in {CronIdle} \cup [pc: {"pass"}, todo: SUBSET Tickets]
    BY <1>1 DEF Take, EngineInv, TypeOK, CronIdle
  <1>3. UNCHANGED <<ticket, agent, routed, inputs>>
    BY DEF Begin
  <1>4. CASE tx' = tx
    <2>1. TypeOK'
      BY <1>2, <1>3, <1>4 DEF EngineInv, TypeOK
    <2>2. HeldIsFree'
      BY <1>3, <1>4 DEF EngineInv, HeldIsFree, Unassigned
    <2> QED
      BY <2>1, <2>2 DEF EngineInv
  <1>5. CASE Unassigned(t) /\ tx' = [tx EXCEPT ![s] = [pc |-> "agents", t |-> t, by |-> by]]
    <2> DEFINE new == [pc |-> "agents", t |-> t, by |-> by]
    <2>1. new \in TxState /\ new.t = t
      BY DEF TxState
    <2>2. tx' = [tx EXCEPT ![s] = new]
      BY <1>5
    <2> HIDE DEF new
    <2>3. tx \in [Slots -> TxState]
      BY DEF EngineInv, TypeOK
    <2>4. tx'[s] = new /\ \A r \in Slots \ {s} : tx'[r] = tx[r]
      BY <2>2, <2>3
    <2>5. \A r \in Slots : tx[r] # Idle => tx[r].t # t
      BY <1>1 DEF Locked
    <2>6. TypeOK'
      <3>1. tx' \in [Slots -> TxState]
        BY <2>1, <2>2, <2>3
      <3>2. \A q, r \in Slots : q # r /\ tx'[q] # Idle /\ tx'[r] # Idle => tx'[q].t # tx'[r].t
        BY <2>1, <2>4, <2>5 DEF EngineInv, TypeOK
      <3> QED
        BY <1>2, <1>3, <3>1, <3>2 DEF EngineInv, TypeOK
    <2>7. HeldIsFree'
      BY <1>3, <1>5, <2>1, <2>4 DEF EngineInv, HeldIsFree, Unassigned
    <2> QED
      BY <2>6, <2>7 DEF EngineInv
  <1> QED
    BY <1>1, <1>4, <1>5

LEMMA ReadAgentsInv ==
    ASSUME EngineInv, NEW s \in Slots, ReadAgents(s)
    PROVE  EngineInv'
  <1> DEFINE new == [pc |-> "load", t |-> tx[s].t, by |-> tx[s].by, at |-> routed,
                     eligible |-> agent]
  <1>1. tx[s] \in [pc: {"agents"}, t: Tickets, by: {"job", "cron"}] /\ tx[s] # Idle
    BY TxShape DEF ReadAgents, EngineInv, Idle
  <1>2. new \in TxState /\ new.t = tx[s].t
    BY <1>1 DEF EngineInv, TypeOK, TxState
  <1>3. tx' = [tx EXCEPT ![s] = new] /\ UNCHANGED <<ticket, agent, jobs, cron, routed, inputs>>
    BY DEF ReadAgents
  <1>4. routed' \in Nat /\ inputs' \in Nat
    BY <1>3 DEF EngineInv, TypeOK
  <1> HIDE DEF new
  <1> QED
    BY <1>1, <1>2, <1>3, <1>4, MoveInv

(* What Select leaves: nothing, or the choice of an eligible agent below     *)
(* both limits.                                                              *)
LEMMA SelectShape ==
    ASSUME EngineInv, NEW s \in Slots, Select(s)
    PROVE  \E new \in TxState :
              /\ tx' = [tx EXCEPT ![s] = new]
              /\ tx[s] # Idle
              /\ \/ new = Idle
                 \/ /\ new.pc = "assign" /\ new.t = tx[s].t
                    /\ new.chosen \in Agents /\ Load(new.chosen) < Cap[new.chosen]
  <1>1. tx[s] \in [pc: {"load"}, t: Tickets, by: {"job", "cron"}, at: Nat,
                   eligible: [Agents -> AgentRow]] /\ tx[s] # Idle
    BY TxShape DEF Select, EngineInv, Idle
  <1>2. CASE tx' = [tx EXCEPT ![s] = Idle]
    <2>1. Idle \in TxState
      BY DEF TxState
    <2> QED
      BY <1>1, <1>2, <2>1
  <1>3. ASSUME NEW a \in Candidates(s),
               tx' = [tx EXCEPT ![s] = [pc |-> "assign", t |-> tx[s].t, by |-> tx[s].by,
                                        at |-> tx[s].at, chosen |-> a]]
        PROVE  \E new \in TxState :
                  /\ tx' = [tx EXCEPT ![s] = new]
                  /\ new.pc = "assign" /\ new.t = tx[s].t
                  /\ new.chosen \in Agents /\ Load(new.chosen) < Cap[new.chosen]
    <2> DEFINE new == [pc |-> "assign", t |-> tx[s].t, by |-> tx[s].by, at |-> tx[s].at,
                       chosen |-> a]
    <2>1. a \in Agents /\ Load(a) < Cap[a]
      BY DEF Candidates, Eligible
    <2>2. new \in TxState
      BY <1>1, <2>1 DEF TxState
    <2>3. new.pc = "assign" /\ new.t = tx[s].t /\ new.chosen = a
      OBVIOUS
    <2>4. tx' = [tx EXCEPT ![s] = new]
      BY <1>3
    <2> HIDE DEF new
    <2> QED
      BY <2>1, <2>2, <2>3, <2>4
  <1> QED
    BY <1>1, <1>2, <1>3 DEF Select

LEMMA SelectInv ==
    ASSUME EngineInv, NEW s \in Slots, Select(s)
    PROVE  EngineInv'
  <1>1. PICK new \in TxState : /\ tx' = [tx EXCEPT ![s] = new] /\ tx[s] # Idle
                               /\ new = Idle \/ new.t = tx[s].t
    BY SelectShape
  <1>2. UNCHANGED <<ticket, agent, jobs, cron, routed, inputs>>
    BY DEF Select
  <1>3. routed' \in Nat /\ inputs' \in Nat
    BY <1>2 DEF EngineInv, TypeOK
  <1> QED
    BY <1>1, <1>2, <1>3, MoveInv

LEMMA RollBackInv ==
    ASSUME EngineInv, NEW s \in Slots, RollBack(s)
    PROVE  EngineInv'
  <1>1. Idle \in TxState
    BY DEF TxState
  <1>2. /\ tx' = [tx EXCEPT ![s] = Idle] /\ UNCHANGED <<ticket, agent, jobs, cron, routed>>
        /\ inputs' \in Nat /\ routed' \in Nat
    BY DEF RollBack, Input, EngineInv, TypeOK
  <1> QED
    BY <1>1, <1>2, MoveInv

LEMMA AssignInv ==
    ASSUME EngineInv, NEW s \in Slots, Assign(s)
    PROVE  EngineInv'
  <1>1. /\ tx[s] \in [pc: {"assign"}, t: Tickets, by: {"job", "cron"}, at: Nat, chosen: Agents]
        /\ tx[s] # Idle
    BY TxShape DEF Assign, EngineInv, Idle
  <1>2. /\ tx \in [Slots -> TxState] /\ ticket \in [Tickets -> TicketRow]
        /\ agent \in [Agents -> AgentRow]
    BY DEF EngineInv, TypeOK
  <1>3. /\ ticket' \in [Tickets -> TicketRow]
        /\ \A t \in Tickets \ {tx[s].t} : ticket'[t] = ticket[t]
    <2> DEFINE row == [status |-> "ASSIGNED", assignedTo |-> tx[s].chosen]
    <2>1. row \in TicketRow
      BY <1>1 DEF TicketRow, Active
    <2>2. ticket' = [ticket EXCEPT ![tx[s].t] = row]
      BY DEF Assign
    <2> HIDE DEF row
    <2> QED
      BY <1>2, <2>1, <2>2
  <1>4. agent' \in [Agents -> AgentRow]
    BY <1>1, <1>2 DEF Assign, AgentRow
  <1>5. /\ tx' = [tx EXCEPT ![s] = Idle] /\ UNCHANGED <<jobs, cron, inputs>>
        /\ routed' \in Nat
    BY DEF Assign, EngineInv, TypeOK
  <1>6. tx' \in [Slots -> TxState]
    BY <1>2, <1>5 DEF TxState
  <1>7. \A r \in Slots : tx'[r] # Idle => r # s /\ tx'[r] = tx[r] /\ tx[r].t # tx[s].t
    BY <1>1, <1>2, <1>5 DEF EngineInv, TypeOK
  <1>8. TypeOK'
    BY <1>3, <1>4, <1>5, <1>6, <1>7 DEF EngineInv, TypeOK
  <1>9. HeldIsFree'
    <2>1. \A r \in Slots : tx[r] # Idle => tx[r].t \in Tickets
      BY TxShape DEF EngineInv
    <2> QED
      BY <1>3, <1>7, <2>1 DEF EngineInv, HeldIsFree, Unassigned
  <1> QED
    BY <1>8, <1>9 DEF EngineInv

(* Every other write of a ticket waits for the lock.                         *)
LEMMA WriteInv ==
    ASSUME EngineInv, NEW t \in Tickets, NEW row \in TicketRow, Write(t, row),
           jobs' \subseteq Tickets, inputs' \in Nat
    PROVE  EngineInv'
  <1>1. /\ ~Locked(t) /\ ticket' = [ticket EXCEPT ![t] = row]
        /\ UNCHANGED <<agent, cron, tx, routed>>
    BY DEF Write
  <1>2. TypeOK'
    BY <1>1 DEF EngineInv, TypeOK
  <1>3. \A s \in Slots : tx[s] # Idle => tx[s].t # t /\ tx[s].t \in Tickets
    BY <1>1, TxShape DEF Locked, EngineInv
  <1>4. \A u \in Tickets \ {t} : ticket'[u] = ticket[u]
    BY <1>1 DEF EngineInv, TypeOK
  <1>5. HeldIsFree'
    BY <1>1, <1>3, <1>4 DEF EngineInv, HeldIsFree, Unassigned
  <1> QED
    BY <1>2, <1>5 DEF EngineInv

(* Each of those writes, with the row it leaves.                             *)
LEMMA WriteShape ==
    ASSUME EngineInv, NEW t \in Tickets,
           \/ Create(t) \/ Withdraw(t) \/ Finish(t) \/ Reopen(t)
           \/ \E a \in Agents : AssignByHand(t, a)
    PROVE  /\ \E row \in TicketRow : Write(t, row)
           /\ jobs' \subseteq Tickets /\ inputs' \in Nat
  <1>1. ticket[t] \in TicketRow /\ jobs \subseteq Tickets /\ inputs \in Nat
    BY DEF EngineInv, TypeOK
  <1>2. CASE Create(t)
    <2> DEFINE row == [status |-> "NEW", assignedTo |-> None]
    <2>1. row \in TicketRow /\ Write(t, row)
      BY <1>2 DEF Create, TicketRow
    <2> HIDE DEF row
    <2> QED
      BY <1>1, <1>2, <2>1 DEF Create
  <1>3. CASE Withdraw(t)
    <2> DEFINE row == [status |-> "REOPENED", assignedTo |-> None]
    <2>1. row \in TicketRow /\ Write(t, row)
      BY <1>3 DEF Withdraw, TicketRow, Active
    <2> HIDE DEF row
    <2> QED
      BY <1>1, <1>3, <2>1 DEF Withdraw, Input
  <1>4. CASE Finish(t)
    <2> DEFINE row == [ticket[t] EXCEPT !.status = "RESOLVED"]
    <2>1. row \in TicketRow /\ Write(t, row)
      BY <1>1, <1>4 DEF Finish, TicketRow
    <2> HIDE DEF row
    <2> QED
      BY <1>1, <1>4, <2>1 DEF Finish, Input
  <1>5. CASE Reopen(t)
    <2> DEFINE row == [ticket[t] EXCEPT !.status = "REOPENED"]
    <2>1. row \in TicketRow /\ Write(t, row)
      BY <1>1, <1>5 DEF Reopen, TicketRow, Active
    <2> HIDE DEF row
    <2> QED
      BY <1>1, <1>5, <2>1 DEF Reopen, Input
  <1>6. ASSUME NEW a \in Agents, AssignByHand(t, a)
        PROVE  /\ \E row \in TicketRow : Write(t, row)
               /\ jobs' \subseteq Tickets /\ inputs' \in Nat
    <2> DEFINE row == [status     |-> IF ticket[t].status = "NEW" THEN "ASSIGNED"
                                      ELSE ticket[t].status,
                       assignedTo |-> a]
    <2>1. row \in TicketRow /\ Write(t, row)
      BY <1>1, <1>6 DEF AssignByHand, TicketRow, Active
    <2> HIDE DEF row
    <2> QED
      BY <1>1, <1>6, <2>1 DEF AssignByHand, Input
  <1> QED
    BY <1>2, <1>3, <1>4, <1>5, <1>6

LEMMA InitInv == Init => EngineInv
  <1> SUFFICES ASSUME Init PROVE EngineInv
    OBVIOUS
  <1>1. Idle \in TxState
    BY DEF TxState
  <1>2. TypeOK
    BY <1>1 DEF Init, TypeOK, TicketRow, AgentRow
  <1>3. HeldIsFree
    BY DEF Init, HeldIsFree
  <1> QED
    BY <1>2, <1>3 DEF EngineInv

LEMMA StepInv == EngineInv /\ [Next]_vars => EngineInv'
  <1> SUFFICES ASSUME EngineInv, [Next]_vars PROVE EngineInv'
    OBVIOUS
  <1>1. ASSUME NEW s \in Slots, Routing(s) PROVE EngineInv'
    BY <1>1, BeginInv, ReadAgentsInv, SelectInv, AssignInv DEF Routing
  <1>2. CASE Sweep
    <2>1. cron' \in {CronIdle} \cup [pc: {"pass"}, todo: SUBSET Tickets]
      <3>1. CASE CronStart
        <4> DEFINE all == {t \in Tickets : Unassigned(t)}
                   first == {t \in all : Cardinality({u \in all : Rank[u] < Rank[t]}) < Limit}
        <4>1. cron' = [pc |-> "pass", todo |-> first]
          BY <3>1 DEF CronStart
        <4>2. first \in SUBSET Tickets
          OBVIOUS
        <4> HIDE DEF first
        <4> QED
          BY <4>1, <4>2
      <3>2. CASE CronEnd
        BY <3>2 DEF CronEnd
      <3> QED
        BY <1>2, <3>1, <3>2 DEF Sweep
    <2>2. UNCHANGED <<ticket, agent, jobs, tx, routed, inputs>>
      BY <1>2 DEF Sweep, CronStart, CronEnd
    <2>3. TypeOK' /\ HeldIsFree'
      BY <2>1, <2>2 DEF EngineInv, TypeOK, HeldIsFree, Unassigned
    <2> QED
      BY <2>3 DEF EngineInv
  <1>3. ASSUME NEW t \in Tickets, \/ Create(t) \/ Withdraw(t) \/ Finish(t) \/ Reopen(t)
                                  \/ \E a \in Agents : AssignByHand(t, a)
        PROVE  EngineInv'
    BY <1>3, WriteShape, WriteInv
  <1>4. ASSUME NEW s \in Slots, RollBack(s) PROVE EngineInv'
    BY <1>4, RollBackInv
  <1>5. ASSUME NEW a \in Agents, SetAvailability(a) PROVE EngineInv'
    <2>1. agent' \in [Agents -> AgentRow] /\ inputs' \in Nat
      <3>1. agent[a] \in AgentRow /\ agent \in [Agents -> AgentRow] /\ inputs \in Nat
        BY DEF EngineInv, TypeOK
      <3> DEFINE row == [agent[a] EXCEPT !.available = ~agent[a].available]
      <3>2. agent' = [agent EXCEPT ![a] = row] /\ inputs' \in Nat
        BY <1>5, <3>1 DEF SetAvailability, Input
      <3>3. row \in AgentRow
        BY <3>1 DEF AgentRow
      <3> HIDE DEF row
      <3> QED
        BY <3>1, <3>2, <3>3
    <2>2. UNCHANGED <<ticket, jobs, cron, tx, routed>>
      BY <1>5 DEF SetAvailability
    <2>3. TypeOK' /\ HeldIsFree'
      BY <2>1, <2>2 DEF EngineInv, TypeOK, HeldIsFree, Unassigned
    <2> QED
      BY <2>3 DEF EngineInv
  <1>6. CASE UNCHANGED vars
    BY <1>6 DEF vars, EngineInv, TypeOK, HeldIsFree, Unassigned
  <1> QED
    BY <1>1, <1>2, <1>3, <1>4, <1>5, <1>6 DEF Next, Elsewhere, ExtraLoad

-----------------------------------------------------------------------------
(* The bound on the overshoot: the transactions that have chosen an agent    *)
(* and have not yet written count as part of the load.                       *)
Chosen(a) == {s \in Slots : tx[s].pc = "assign" /\ tx[s].chosen = a}

LoadBound ==
    \A a \in Agents : Load(a) + Cardinality(Chosen(a)) <= Cap[a] + Cardinality(Slots) - 1

LEMMA Counts ==
    ASSUME NEW a \in Agents
    PROVE  /\ IsFiniteSet(ActiveOf(a)) /\ Load(a) \in Nat
           /\ IsFiniteSet(Chosen(a)) /\ Cardinality(Chosen(a)) \in Nat
           /\ Cardinality(Chosen(a)) <= Cardinality(Slots)
           /\ Cardinality(Slots) \in Nat \ {0} /\ Cap[a] \in Nat \ {0}
  <1>1. ActiveOf(a) \subseteq Tickets /\ Chosen(a) \subseteq Slots
    BY DEF ActiveOf, Chosen
  <1>2. IsFiniteSet(ActiveOf(a)) /\ IsFiniteSet(Chosen(a))
    BY <1>1, FS_Subset
  <1>3. Cardinality(Chosen(a)) <= Cardinality(Slots)
    BY <1>1, FS_Subset
  <1>4. Cardinality(Slots) \in Nat \ {0}
    BY FS_CardinalityType, FS_EmptySet
  <1> QED
    BY <1>2, <1>3, <1>4, FS_CardinalityType DEF Load

(* A step that gives an agent no ticket and no choice.                       *)
LEMMA SmallerLoad ==
    ASSUME NEW a \in Agents, ActiveOf(a)' \subseteq ActiveOf(a), Chosen(a)' \subseteq Chosen(a)
    PROVE  /\ Load(a)' \in Nat /\ Load(a)' <= Load(a)
           /\ Cardinality(Chosen(a)') \in Nat /\ Cardinality(Chosen(a)') <= Cardinality(Chosen(a))
  BY Counts, FS_Subset, FS_CardinalityType DEF Load

LEMMA BoundInit == Init => LoadBound
  <1> SUFFICES ASSUME Init, NEW a \in Agents
               PROVE  Load(a) + Cardinality(Chosen(a)) <= Cap[a] + Cardinality(Slots) - 1
    BY DEF LoadBound
  <1>1. ActiveOf(a) = {} /\ Chosen(a) = {}
    BY DEF Init, ActiveOf, Chosen, Active, Idle
  <1> QED
    BY <1>1, Counts, FS_EmptySet DEF Load

LEMMA BoundStep ==
    ASSUME EngineInv, LoadBound, [Next /\ ~ExtraLoad]_vars
    PROVE  LoadBound'
  <1> USE DEF LoadBound
  <1>1. /\ tx \in [Slots -> TxState] /\ ticket \in [Tickets -> TicketRow]
    BY DEF EngineInv, TypeOK
  <1>2. ASSUME \A a \in Agents : ActiveOf(a)' \subseteq ActiveOf(a) /\ Chosen(a)' \subseteq Chosen(a)
        PROVE  LoadBound'
    <2> SUFFICES ASSUME NEW a \in Agents
                 PROVE  Load(a)' + Cardinality(Chosen(a)') <= Cap[a] + Cardinality(Slots) - 1
      OBVIOUS
    <2> QED
      BY <1>2, SmallerLoad, Counts
  <1>3. ASSUME NEW s \in Slots, Begin(s) \/ ReadAgents(s) \/ RollBack(s) PROVE LoadBound'
    <2>1. UNCHANGED ticket /\ \A r \in Slots : tx'[r] = tx[r] \/ tx'[r].pc # "assign"
      BY <1>1, <1>3 DEF Begin, ReadAgents, RollBack, Idle
    <2> QED
      BY <1>2, <2>1 DEF ActiveOf, Chosen
  <1>4. ASSUME NEW s \in Slots, Select(s) PROVE LoadBound'
    <2>1. PICK new \in TxState :
             /\ tx' = [tx EXCEPT ![s] = new]
             /\ \/ new = Idle
                \/ /\ new.pc = "assign"
                   /\ new.chosen \in Agents /\ Load(new.chosen) < Cap[new.chosen]
      BY <1>4, SelectShape
    <2>2. UNCHANGED ticket
      BY <1>4 DEF Select
    <2>3. tx'[s] = new /\ \A r \in Slots \ {s} : tx'[r] = tx[r]
      BY <1>1, <2>1
    <2> SUFFICES ASSUME NEW a \in Agents
                 PROVE  Load(a)' + Cardinality(Chosen(a)') <= Cap[a] + Cardinality(Slots) - 1
      OBVIOUS
    <2>4. ActiveOf(a)' = ActiveOf(a)
      BY <2>2 DEF ActiveOf
    <2>5. CASE new # Idle /\ new.chosen = a
      <3>1. Load(a)' = Load(a) /\ Load(a) < Cap[a]
        BY <2>1, <2>4, <2>5 DEF Load
      <3>2. Chosen(a)' \subseteq Slots
        BY DEF Chosen
      <3>3. Cardinality(Chosen(a)') <= Cardinality(Slots) /\ Cardinality(Chosen(a)') \in Nat
        BY <3>2, FS_Subset, FS_CardinalityType
      <3> QED
        BY <3>1, <3>3, Counts
    <2>6. CASE new = Idle \/ new.chosen # a
      <3>1. Chosen(a)' \subseteq Chosen(a)
        BY <2>3, <2>6 DEF Chosen, Idle
      <3> QED
        BY <2>4, <3>1, SmallerLoad, Counts
    <2> QED
      BY <2>5, <2>6
  <1>5. ASSUME NEW s \in Slots, Assign(s) PROVE LoadBound'
    <2> DEFINE c == tx[s].chosen
               t == tx[s].t
    <2>1. /\ tx[s] \in [pc: {"assign"}, t: Tickets, by: {"job", "cron"}, at: Nat, chosen: Agents]
          /\ tx[s] # Idle
      BY <1>5, TxShape DEF Assign, EngineInv, Idle
    <2>2. t \in Tickets /\ c \in Agents /\ ticket[t].assignedTo = None
      BY <2>1 DEF EngineInv, HeldIsFree, Unassigned
    <2>3. /\ \A u \in Tickets \ {t} : ticket'[u] = ticket[u]
          /\ ticket'[t].assignedTo = c
      BY <1>1, <1>5, <2>2 DEF Assign
    <2>4. /\ tx'[s] = Idle /\ \A r \in Slots \ {s} : tx'[r] = tx[r]
      BY <1>1, <1>5 DEF Assign
    <2>5. s \in Chosen(c)
      BY <2>1 DEF Chosen
    <2> HIDE DEF c, t
    <2> SUFFICES ASSUME NEW a \in Agents
                 PROVE  Load(a)' + Cardinality(Chosen(a)') <= Cap[a] + Cardinality(Slots) - 1
      OBVIOUS
    <2>6. CASE a = c
      <3>1. ActiveOf(a)' \subseteq ActiveOf(a) \cup {t}
        BY <2>3 DEF ActiveOf
      <3>2. Cardinality(ActiveOf(a) \cup {t}) <= Load(a) + 1
             /\ IsFiniteSet(ActiveOf(a) \cup {t})
        <4>1. IsFiniteSet(ActiveOf(a)) /\ Load(a) \in Nat
          BY Counts
        <4>2. Cardinality(ActiveOf(a) \cup {t}) = (IF t \in ActiveOf(a) THEN Cardinality(ActiveOf(a))
                                                  ELSE Cardinality(ActiveOf(a)) + 1)
              /\ IsFiniteSet(ActiveOf(a) \cup {t})
          <5> DEFINE A == ActiveOf(a)
          <5>1. IsFiniteSet(A)
            BY <4>1
          <5> HIDE DEF A
          <5>2. /\ IsFiniteSet(A \cup {t})
                /\ Cardinality(A \cup {t}) = (IF t \in A THEN Cardinality(A) ELSE Cardinality(A) + 1)
            BY <5>1, FS_AddElement
          <5> QED
            BY <5>2 DEF A
        <4> QED
          BY <4>1, <4>2 DEF Load
      <3>3. Load(a)' \in Nat /\ Load(a)' <= Load(a) + 1
        <4>1. IsFiniteSet(ActiveOf(a)') /\ Cardinality(ActiveOf(a)') <= Cardinality(ActiveOf(a) \cup {t})
          BY <3>1, <3>2, FS_Subset
        <4>2. Cardinality(ActiveOf(a)') \in Nat /\ Cardinality(ActiveOf(a) \cup {t}) \in Nat
          BY <3>2, <4>1, FS_CardinalityType
        <4> QED
          BY <3>2, <4>1, <4>2, Counts DEF Load
      <3>4. Chosen(a)' \subseteq Chosen(a) \ {s}
        BY <2>4 DEF Chosen, Idle
      <3>5. Cardinality(Chosen(a)') \in Nat /\ Cardinality(Chosen(a)') <= Cardinality(Chosen(a)) - 1
        <4>1. IsFiniteSet(Chosen(a)) /\ Cardinality(Chosen(a)) \in Nat
          BY Counts
        <4>2. IsFiniteSet(Chosen(a) \ {s}) /\ Cardinality(Chosen(a) \ {s}) = Cardinality(Chosen(a)) - 1
          BY <2>5, <2>6, <4>1, FS_RemoveElement
        <4> QED
          BY <3>4, <4>2, FS_Subset, FS_CardinalityType
      <3> QED
        BY <3>3, <3>5, Counts
    <2>7. CASE a # c
      <3>1. ActiveOf(a)' \subseteq ActiveOf(a)
        BY <2>3, <2>7 DEF ActiveOf
      <3>2. Chosen(a)' \subseteq Chosen(a)
        BY <2>4 DEF Chosen, Idle
      <3> QED
        BY <3>1, <3>2, SmallerLoad, Counts
    <2> QED
      BY <2>6, <2>7
  <1>6. CASE Sweep \/ UNCHANGED vars \/ \E a \in Agents : SetAvailability(a)
    <2>1. UNCHANGED <<ticket, tx>>
      BY <1>6 DEF Sweep, CronStart, CronEnd, SetAvailability, vars
    <2> QED
      BY <1>2, <2>1 DEF ActiveOf, Chosen
  <1>7. ASSUME NEW t \in Tickets, Create(t) \/ Withdraw(t) \/ Finish(t) PROVE LoadBound'
    <2>1. /\ UNCHANGED tx
          /\ \A u \in Tickets \ {t} : ticket'[u] = ticket[u]
          /\ ticket'[t].assignedTo = None \/ ticket'[t].status = "RESOLVED"
      BY <1>1, <1>7 DEF Create, Withdraw, Finish, Write, TicketRow
    <2>2. \A a \in Agents : ActiveOf(a)' \subseteq ActiveOf(a) /\ Chosen(a)' \subseteq Chosen(a)
      BY <2>1 DEF ActiveOf, Chosen, Active
    <2> QED
      BY <1>2, <2>2
  <1> QED
    BY <1>3, <1>4, <1>5, <1>6, <1>7 DEF Next, Routing, Elsewhere

-----------------------------------------------------------------------------
(* THEOREMS                                                                  *)

LEMMA EngineInvariant == Spec => []EngineInv
  BY InitInv, StepInv, PTL DEF Spec

(* The variables keep their types and no ticket has two routings at once.    *)
THEOREM TypeCorrect == Spec => []TypeOK
  <1>1. EngineInv => TypeOK
    BY DEF EngineInv
  <1> QED
    BY EngineInvariant, <1>1, PTL

(* routeTicket never takes a ticket from somebody: the lock of the row keeps *)
(* what its guard has seen until it writes.                                  *)
THEOREM RoutingTakesFromNobody == Spec => RoutesOnlyFree
  <1>1. EngineInv /\ [Next]_vars => [AssignsOnlyFree]_vars
    BY DEF EngineInv, HeldIsFree, AssignsOnlyFree, Idle
  <1> QED
    BY EngineInvariant, <1>1, PTL DEF Spec, RoutesOnlyFree

(* However many routings run in parallel, max_concurrent_tickets is overshot *)
(* by at most one ticket per transaction beyond the first.                   *)
THEOREM OvershootIsBounded == EngineSpec => []OvershootBounded
  <1>1. EngineInv /\ LoadBound /\ [Next /\ ~ExtraLoad]_vars => EngineInv' /\ LoadBound'
    BY StepInv, BoundStep
  <1>2. LoadBound => OvershootBounded
    BY Counts DEF LoadBound, OvershootBounded
  <1> QED
    BY InitInv, BoundInit, <1>1, <1>2, PTL DEF EngineSpec
=============================================================================
