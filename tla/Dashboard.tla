------------------------------- MODULE Dashboard -------------------------------
(* The figures of the dashboard (dashboard.service.ts, dashboard-sla and      *)
(* public-support-stats services).  A page is made of several queries; each  *)
(* sees the tickets of its own moment, while other requests change them.     *)
(* Reading a figure changes nothing, so it is enough to follow, at a time,   *)
(* the few figures of a page that ought to agree.                            *)
EXTENDS Integers, FiniteSets

CONSTANTS
    Tickets, Teams,
    Public,        \* the tickets opened through an integration
    Staff,         \* agents
    Me,            \* the agent who asks for his own activity
    Free,          \* in the place of an agent
    Everything,    \* in the place of a team: an administrator
    MaxWrites      \* bound on the changes of tickets while a page is read

ASSUME DashboardAssumption ==
    /\ IsFiniteSet(Tickets) /\ Public \subseteq Tickets /\ Me \in Staff /\ Free \notin Staff /\ Everything \notin Teams
    /\ MaxWrites \in Nat

VARIABLES
    rows,       \* the tickets
    scope,      \* the team of the supervisor who asks, or Everything
    followed,   \* the page: the figures of it that are followed, or AgentsPage
    figures,    \* how many tickets each figure read so far counted
    writes,     \* changes of tickets since the page was asked
    lines,      \* the lines of agentPerformance, with what they show
    reopenings  \* what the history says of reopenings: tickets, and when

dashVars == <<rows, scope, followed, figures, writes, lines, reopenings>>

AgentsPage == {}       \* its lines are followed, not single figures
Unread == -1

TicketStatuses == {"OPEN", "RESOLVED", "CLOSED"}
Dues == {"past", "soon", "later"}      \* resolutionDueAt: overdue, in 30 minutes, later

(* The supervisor's scope, the tickets that are not deleted, those created   *)
(* in the period, those that are open.                                       *)
InScope(t) == scope \in {Everything, rows[t].team}
Live == {t \in Tickets : ~rows[t].deleted /\ InScope(t)}
Recent == {t \in Live : rows[t].recent}
Opened == {t \in Live : rows[t].status = "OPEN"}
By(S, field, values) == UNION {{t \in S : rows[t][field] = v} : v \in values}

(* What each query of a page counts.                                         *)
Overview ==
    [total |-> Recent,
     byStatus |-> By(Recent, "status", TicketStatuses),
     open |-> Opened,
     breached |-> {t \in Opened : rows[t].breached},
     compliant |-> {t \in Opened : ~rows[t].breached},
     atRisk |-> {t \in Opened : rows[t].due # "later"},
     overdue |-> {t \in Opened : rows[t].due = "past"}]
TicketsByStatus == [byStatus |-> By(Recent, "status", TicketStatuses)]
TicketsByPriority == [byPriority |-> By(Recent, "critical", BOOLEAN)]
DepartmentsReport == [byDepartment |-> By(Recent, "department", Teams)]
MutWorkload == [held |-> By(Opened, "agent", Staff), unassigned |-> {t \in Live : rows[t].agent = Free}, open |-> Opened]
Workload ==
    [held |-> By(Opened, "agent", Staff),
     unassigned |-> {t \in Opened : rows[t].agent = Free},
     open |-> Opened]      \* of the overview
Compliance ==
    [tracked |-> Recent,
     byPriority |-> By(Recent, "critical", BOOLEAN),
     atRisk |-> {t \in Recent \cap Opened : rows[t].due # "later"},
     overdue |-> {t \in Recent \cap Opened : rows[t].due = "past"}]
(* No scope here: a supervisor reads the figures of every team.              *)
PublicSupport ==
    LET public == {t \in Public : ~rows[t].deleted} IN
    [tickets |-> public, openTickets |-> {t \in public : rows[t].status = "OPEN"}, byChannel |-> public]
(* Nor here: an agent's own tickets, whatever their team.                    *)
MyActivity ==
    LET mine == {t \in Tickets : ~rows[t].deleted /\ rows[t].agent = Me} IN
    [mine |-> mine, openOfMine |-> {t \in mine : rows[t].status = "OPEN"}]

Count(page, f) ==
    CASE page = "overview" -> Overview[f]
      [] page = "status" -> TicketsByStatus[f]
      [] page = "priority" -> TicketsByPriority[f]
      [] page = "department" -> DepartmentsReport[f]
      [] page = "workload" -> Workload[f]
      [] page = "compliance" -> Compliance[f]
      [] page = "support" -> PublicSupport[f]
      [] page = "activity" -> MyActivity[f]

(* Figures that ought to agree: the first two, or the first with the sum of  *)
(* the others.                                                               *)
Same == {{<<"overview", "total">>, <<"overview", "byStatus">>},
         {<<"status", "byStatus">>, <<"priority", "byPriority">>},
         {<<"priority", "byPriority">>, <<"department", "byDepartment">>},
         {<<"compliance", "tracked">>, <<"compliance", "byPriority">>},
         {<<"support", "tickets">>, <<"support", "byChannel">>}}
Parts == {[whole |-> <<"overview", "open">>, parts |-> {<<"overview", "breached">>, <<"overview", "compliant">>}],
          [whole |-> <<"workload", "open">>, parts |-> {<<"workload", "held">>, <<"workload", "unassigned">>}]}
Within == {<<<<"overview", "overdue">>, <<"overview", "atRisk">>>>,
           <<<<"compliance", "overdue">>, <<"compliance", "atRisk">>>>,
           <<<<"support", "openTickets">>, <<"support", "tickets">>>>,
           <<<<"activity", "openOfMine">>, <<"activity", "mine">>>>}
Groups == Same \cup {{p.whole} \cup p.parts : p \in Parts} \cup {{w[1], w[2]} : w \in Within}

DashTypeOK ==
    /\ rows \in [Tickets -> [team: Teams, department: Teams, agent: Staff \cup {Free}, status: TicketStatuses, critical: BOOLEAN,
                             breached: BOOLEAN, due: Dues, recent: BOOLEAN, deleted: BOOLEAN]]
    /\ scope \in Teams \cup {Everything}
    /\ followed \in Groups \cup {AgentsPage}
    /\ DOMAIN figures \subseteq followed /\ \A q \in DOMAIN figures : figures[q] \in 0 .. Cardinality(Tickets)
    /\ writes \in 0 .. MaxWrites
    /\ lines \subseteq [agent: Staff, team: Teams, opened: 0 .. Cardinality(Tickets), reopened: Nat \cup {Unread}]
    /\ writes = 0 => {l.agent : l \in lines} \subseteq {rows[t].agent : t \in Live}
    /\ reopenings \subseteq Tickets \X (0 .. MaxWrites)

DashInit ==
    /\ rows \in [Tickets -> [team: Teams, department: Teams, agent: Staff \cup {Free}, status: {"OPEN"}, critical: {FALSE},
                             breached: {FALSE}, due: {"later"}, recent: {TRUE}, deleted: {FALSE}]]
    /\ \A t \in Tickets : rows[t].department = rows[t].team
    /\ scope \in Teams \cup {Everything}
    /\ followed \in Groups \cup {AgentsPage} /\ figures = <<>> /\ writes = 0 /\ lines = {} /\ reopenings = {}

-----------------------------------------------------------------------------

Ask(q) ==
    /\ q \in followed \ DOMAIN figures
    /\ figures' = [p \in DOMAIN figures \cup {q} |-> IF p = q THEN Cardinality(Count(q[1], q[2])) ELSE figures[p]]
    /\ UNCHANGED <<rows, scope, followed, writes, lines, reopenings>>

(* agentPerformance: a row for each agent and team; those of an agent are    *)
(* added up in a copy of the first, but the first itself is returned.        *)
OpenOf(g, team) == Cardinality({t \in Opened : rows[t].agent = g /\ rows[t].team = team})
TeamsOf(g) == {rows[t].team : t \in {u \in Live : rows[u].agent = g}}
FirstRows(g) == IF TeamsOf(g) = {} THEN {} ELSE
    LET first == CHOOSE team \in TeamsOf(g) : TRUE IN
    {[agent |-> g, team |-> first, opened |-> OpenOf(g, first), reopened |-> Unread]}

AgentPerformance ==
    /\ followed = AgentsPage /\ lines = {} /\ writes = 0
    /\ lines' = UNION {FirstRows(g) : g \in Staff}
    /\ UNCHANGED <<rows, scope, followed, figures, writes, reopenings>>

(* Its second query: the reopenings in the history of the tickets that the   *)
(* agents hold by now, of every team and period and of deleted tickets too.  *)
ReopeningsOf(g) == {h \in reopenings : rows[h[1]].agent = g}

CountReopenings ==
    /\ \E l \in lines : l.reopened = Unread
    /\ lines' = {[l EXCEPT !.reopened = Cardinality(ReopeningsOf(l.agent))] : l \in lines}
    /\ UNCHANGED <<rows, scope, followed, figures, writes, reopenings>>

(* What other requests and the crons do to a ticket meanwhile.               *)
Routed(row, g, team) == [row EXCEPT !.agent = g, !.team = team]
NextStatuses(status) == IF status = "CLOSED" THEN {"OPEN"} ELSE TicketStatuses
Changes(row) ==
    {[row EXCEPT !.status = s] : s \in NextStatuses(row.status)} \cup {[row EXCEPT !.due = d] : d \in Dues}
    \cup {[row EXCEPT !.critical = ~@], [row EXCEPT !.breached = ~@], [row EXCEPT !.deleted = TRUE]}
    \cup {Routed(row, g, team) : g \in Staff \cup {Free}, team \in Teams}

ChangeTicket(t) ==
    /\ writes < MaxWrites /\ writes' = writes + 1
    /\ \E r \in Changes(rows[t]) \ {rows[t]} :
         /\ rows' = [rows EXCEPT ![t] = r]
         /\ reopenings' = IF rows[t].status # "OPEN" /\ r.status = "OPEN" THEN reopenings \cup {<<t, writes'>>} ELSE reopenings
    /\ UNCHANGED <<scope, followed, figures, lines>>

(* Before the page: one ticket is of an earlier period, resolved or not.     *)
OldTicket(t) ==
    /\ figures = <<>> /\ writes = 0 /\ lines = {} /\ \A u \in Tickets : rows[u].recent
    /\ \E s \in {"OPEN", "RESOLVED"} : rows' = [rows EXCEPT ![t].recent = FALSE, ![t].status = s]
    /\ UNCHANGED <<scope, followed, figures, writes, lines, reopenings>>

(* Before the page: a ticket was reopened once, under whoever held it then.  *)
EarlierReopening(t) ==
    /\ followed = AgentsPage /\ writes = 0 /\ lines = {}
    /\ reopenings' = reopenings \cup {<<t, 0>>}
    /\ UNCHANGED <<rows, scope, followed, figures, writes, lines>>

DashNext ==
    \/ \E q \in followed : Ask(q)
    \/ AgentPerformance \/ CountReopenings
    \/ \E t \in Tickets : ChangeTicket(t) \/ OldTicket(t) \/ EarlierReopening(t)

DashSpec == DashInit /\ [][DashNext]_dashVars

-----------------------------------------------------------------------------

Gap(x, y) == IF x >= y THEN x - y ELSE y - x

(* The figures of a page, read one by one, disagree by at most the number of *)
(* changes that overtook the reading: the whole with the sum of its parts,   *)
(* the totals with the totals by class, the late tickets with those at risk. *)
FiguresAgree ==
    DOMAIN figures = followed =>
      /\ followed \in Same => \A p, q \in followed : Gap(figures[p], figures[q]) <= writes
      /\ \A r \in Parts : followed = {r.whole} \cup r.parts =>
            \A p, q \in r.parts : p # q => Gap(figures[r.whole], figures[p] + figures[q]) <= writes
      /\ \A w \in Within : followed = {w[1], w[2]} => figures[w[1]] <= figures[w[2]] + writes

(* A supervisor's figures count no ticket of another team, but for those     *)
(* that changed team while the page was read; excepted are the page of the   *)
(* public support, an agent's own activity, and in the table of agents the   *)
(* reopenings (with the score made of them), which know no team.  A line of  *)
(* that table counts no ticket that is not the agent's own.                  *)
OutOfScope == {"support", "activity"}
HeldInScope(g) == {t \in Tickets : rows[t].agent = g /\ scope \in {Everything, rows[t].team}}
ScopeHolds ==
    /\ \A q \in DOMAIN figures : q[1] \notin OutOfScope =>
          figures[q] <= Cardinality({t \in Tickets : scope \in {Everything, rows[t].team}}) + writes
    /\ \A l \in lines : l.opened <= Cardinality(HeldInScope(l.agent)) + writes

(* An agent with tickets in two teams has one line in the table of agents,   *)
(* and every agent with a ticket in scope has one.                           *)
OneLinePerAgent ==
    /\ \A k, l \in lines : k.agent = l.agent => k = l
    /\ lines # {} /\ writes = 0 => \A t \in Live : rows[t].agent # Free => \E l \in lines : l.agent = rows[t].agent
=============================================================================
