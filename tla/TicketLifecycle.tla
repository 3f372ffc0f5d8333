-------------------------- MODULE TicketLifecycle --------------------------
(* One row of `tickets` and everything that writes it: the HTTP handlers of  *)
(* tickets.service.ts (each reads the row, checks, and writes in a later     *)
(* statement), the public replies, the routing engine (one transaction under *)
(* SELECT ... FOR UPDATE), the two-minute sweep of auto-assignment.cron.ts,  *)
(* the auto-close and SLA alert passes of the sla module, and what those     *)
(* read of the agents and departments: availability, post, load, switch.     *)
(* Statements run at READ COMMITTED, so any other writer may act between two *)
(* statements of a handler.                                                  *)
EXTENDS TicketRules, FiniteSets

CONSTANTS
    Requests,      \* slots for HTTP requests in flight
    FirstDue,      \* first_response_due_at
    InitialDue,    \* resolution_due_at given at the creation
    Risk,          \* the sweep's SLA margin (1 hour)
    Quiet,         \* delay before a resolved ticket is closed (48 hours)
    MaxPause,      \* largest value of the integer column accumulated_pause_ms
    Kinds,         \* the kinds of input the environment makes use of
    Targets,       \* the statuses its status requests ask for
    Moves,         \* the [role, dept] an administrator may give a user
    MaxTime,       \* bound of the clock
    MaxInputs      \* bound on the number of inputs

InputKinds == {"status", "assign", "escalate", "edit", "delete", "reply", "agent",
               "move", "load", "switch", "error"}

PublicEvents == {PublicStatusEvent(s) : s \in Statuses}

ASSUME LifecycleAssumption ==
    /\ None \notin PublicEvents
    /\ FirstDue \in Nat /\ InitialDue \in Nat
    /\ Risk \in Nat /\ Quiet \in Nat /\ MaxPause \in Nat
    /\ Kinds \subseteq InputKinds /\ Targets \subseteq EndpointTargets
    /\ Moves \subseteq [role: Roles, dept: Depts]
    /\ MaxTime \in Nat /\ MaxInputs \in Nat

VARIABLES
    ticket,    \* the row
    agent,     \* availability of each user (is_active, is_available, absence_ends_at)
    post,      \* role and department of each user, and the role his token bears
    full,      \* the users whose tickets reach their limit or their department's
    automatic, \* the departments with autoAssignmentEnabled
    now,       \* the clock
    req,       \* req[r]: what the handler of slot r holds between its statements
    job,       \* a route_ticket job is queued (its jobId makes it unique)
    cron,      \* where the auto-assignment sweep is, and what it holds
    closer,    \* where the auto-close pass is, and its cutoff
    told,      \* type of the last public event put in the outbox
    strayed,   \* history: assignee or team changed since one was checked against the other
    inputs     \* inputs left

staff == <<agent, post, full, automatic>>
vars  == <<ticket, staff, now, req, job, cron, closer, told, strayed, inputs>>

(* "absent": absence ending within the reassignment threshold; "gone":       *)
(* disabled account or longer absence, which the sweep treats alike.         *)
Availabilities == {"available", "paused", "absent", "gone"}

Post == [role: Roles, dept: Depts, token: Roles]

Free == [op |-> "free"]
StatusReq   == [op: {"status"}, seen: Ticket, to: EndpointTargets, at: Nat]
(* `moved` is history: the target changed department after he was checked.   *)
AssignReq   == [op: {"assign"}, seen: Ticket, target: Users, checked: BOOLEAN,
                moved: BOOLEAN]
EscalateReq == [op: {"escalate"}, seen: Ticket, target: Users, dept: Depts,
                checked: BOOLEAN, moved: BOOLEAN]
RowReq      == [op: {"edit", "delete"}]

CronIdle  == [pc |-> "idle"]
CronState == {CronIdle}
             \cup [pc: {"tickets"}, at: Nat, agents: [Users -> Availabilities]]
             \cup [pc: {"deassign"}, at: Nat, seen: Ticket]
             \cup [pc: {"escalate"}, at: Nat, seen: Ticket]
             \cup [pc: {"stale", "route"}, at: Nat]

CloserIdle  == [pc |-> "idle"]
CloserState == {CloserIdle} \cup [pc: {"close"}, cutoff: Int]

TypeOK ==
    /\ ticket \in Ticket
    /\ ticket.paused <= MaxPause
    /\ agent \in [Users -> Availabilities]
    /\ post \in [Users -> Post]
    /\ full \in SUBSET Users
    /\ automatic \in SUBSET Depts
    /\ now \in Nat
    /\ req \in [Requests -> {Free} \cup StatusReq \cup AssignReq \cup EscalateReq \cup RowReq]
    /\ job \in BOOLEAN
    /\ cron \in CronState
    /\ closer \in CloserState
    /\ told \in PublicEvents \cup {None}
    /\ strayed \in BOOLEAN
    /\ inputs \in Nat

(* The row as createFromCommand leaves it; the route_ticket job of the       *)
(* creation is lost when the queue is unavailable.                           *)
NewTicket(team) ==
    [ status |-> "NEW", assignedTo |-> None, team |-> team, deleted |-> FALSE,
      pausedAt |-> None, paused |-> 0, dueAt |-> InitialDue, firstAt |-> None,
      resolvedAt |-> None, closedAt |-> None, breachedAt |-> None,
      updatedAt |-> 0, touchedAt |-> 0 ]

FirstPosts == [u \in Users |-> [role |-> Role[u], dept |-> Dept[u], token |-> Role[u]]]

StaffInit ==
    /\ agent = [u \in Users |-> "available"]
    /\ post = FirstPosts
    /\ full = {}
    /\ automatic = Depts

Init ==
    /\ ticket \in {NewTicket(team) : team \in Depts}
    /\ StaffInit
    /\ now = 0
    /\ req = [r \in Requests |-> Free]
    /\ job \in BOOLEAN
    /\ cron = CronIdle
    /\ closer = CloserIdle
    /\ told = None
    /\ strayed = FALSE
    /\ inputs = MaxInputs

-----------------------------------------------------------------------------
(* HTTP handlers: the read and the checks.                                   *)

Input(kind) ==
    /\ kind \in Kinds
    /\ inputs > 0
    /\ inputs' = inputs - 1

(* The user as JwtStrategy.validate describes him to the handler: the role   *)
(* is the token's, which may be older than the row; the department the row's. *)
Caller(id) == [id |-> id, role |-> post[id].token, dept |-> post[id].dept]

Arrive(kind, r, u) ==
    /\ Input(kind)
    /\ req[r] = Free
    /\ ~ticket.deleted
    /\ CanSee(ticket, Caller(u))
    /\ UNCHANGED <<ticket, staff, now, job, cron, closer, told, strayed>>

ChangeStatusRead(r, u, to) ==
    /\ Arrive("status", r, u)
    /\ CanTransition(ticket.status, to)
    /\ CanChangeStatus(ticket, to, Caller(u), now)
    /\ req' = [req EXCEPT ![r] = [op |-> "status", seen |-> ticket, to |-> to, at |-> now]]

AssignRead(r, u, target) ==
    /\ Arrive("assign", r, u)
    /\ CanAssign(ticket, target, Caller(u))
    /\ req' = [req EXCEPT ![r] = [op |-> "assign", seen |-> ticket, target |-> target,
                                  checked |-> FALSE, moved |-> FALSE]]

EscalateRead(r, u, target, dept) ==
    /\ Arrive("escalate", r, u)
    /\ CanEscalate(ticket, dept, Caller(u))
    /\ req' = [req EXCEPT ![r] = [op |-> "escalate", seen |-> ticket, target |-> target,
                                  dept |-> dept, checked |-> FALSE, moved |-> FALSE]]

UpdateRead(r, u) ==
    /\ Arrive("edit", r, u)
    /\ CanUpdate(ticket, Caller(u))
    /\ req' = [req EXCEPT ![r] = [op |-> "edit"]]

SoftDeleteRead(r, u) ==
    /\ Arrive("delete", r, u)
    /\ IsAdmin(Caller(u))
    /\ req' = [req EXCEPT ![r] = [op |-> "delete"]]

(* assertEligible, a read of the target's row: against the team of the row   *)
(* read by assign, against the requested department for escalate.            *)
Eligible(target, dept) == agent[target] = "available" /\ post[target].dept = dept

AssertEligible(r) ==
    /\ req[r].op \in {"assign", "escalate"}
    /\ ~req[r].checked
    /\ LET dept == IF req[r].op = "assign" THEN req[r].seen.team ELSE req[r].dept
       IN  req' = [req EXCEPT ![r] = IF Eligible(req[r].target, dept)
                                     THEN [@ EXCEPT !.checked = TRUE] ELSE Free]
    /\ UNCHANGED <<ticket, staff, now, job, cron, closer, told, strayed, inputs>>

-----------------------------------------------------------------------------
(* HTTP handlers: the write.                                                 *)

Finish(r) ==
    /\ req' = [req EXCEPT ![r] = Free]
    /\ UNCHANGED <<staff, now, job, cron, closer, inputs>>

PauseAfter(q) == q.seen.paused + PauseLength(q.seen, q.to, q.at)

(* Mutant: the UPDATE names the ticket only, not the status read.            *)
MutChangeStatusCommit(r) ==
    /\ req[r].op = "status"
    /\ PauseAfter(req[r]) <= MaxPause
    /\ ticket' = WithStatus(ticket, req[r].seen, req[r].to, req[r].at, now)
    /\ told' = PublicStatusEvent(req[r].to)
    /\ Finish(r)
    /\ UNCHANGED strayed

(* One transaction: compare-and-set on the status, history, outbox.          *)
ChangeStatusCommit(r) ==
    /\ req[r].op = "status"
    /\ ticket.status = req[r].seen.status
    /\ PauseAfter(req[r]) <= MaxPause
    /\ ticket' = WithStatus(ticket, req[r].seen, req[r].to, req[r].at, now)
    /\ told' = PublicStatusEvent(req[r].to)
    /\ Finish(r)
    /\ UNCHANGED strayed

(* 409, or the integer column overflows and the transaction rolls back.      *)
ChangeStatusFail(r) ==
    /\ req[r].op = "status"
    /\ \/ ticket.status # req[r].seen.status
       \/ PauseAfter(req[r]) > MaxPause
    /\ Finish(r)
    /\ UNCHANGED <<ticket, told, strayed>>

AssignUpdate(r) ==
    /\ req[r].op = "assign"
    /\ req[r].checked
    /\ ticket' = [ticket EXCEPT
                    !.assignedTo = req[r].target,
                    !.status     = IF req[r].seen.status = "NEW" THEN "ASSIGNED"
                                   ELSE req[r].seen.status,
                    !.updatedAt  = now,
                    !.touchedAt  = now]
    /\ strayed' = (req[r].moved \/ ticket.team # req[r].seen.team)
    /\ Finish(r)
    /\ UNCHANGED told

(* Mutant: the department of the escalation is not written.                  *)
MutEscalateUpdate(r) ==
    /\ req[r].op = "escalate"
    /\ req[r].checked
    /\ ticket' = [ticket EXCEPT !.assignedTo = req[r].target,
                                !.updatedAt = now, !.touchedAt = now]
    /\ strayed' = req[r].moved
    /\ Finish(r)
    /\ UNCHANGED told

EscalateUpdate(r) ==
    /\ req[r].op = "escalate"
    /\ req[r].checked
    /\ ticket' = [ticket EXCEPT !.assignedTo = req[r].target, !.team = req[r].dept,
                                !.updatedAt = now, !.touchedAt = now]
    /\ strayed' = req[r].moved
    /\ Finish(r)
    /\ UNCHANGED told

UpdateWrite(r) ==
    /\ req[r].op = "edit"
    /\ ticket' = [ticket EXCEPT !.updatedAt = now, !.touchedAt = now]
    /\ Finish(r)
    /\ UNCHANGED <<told, strayed>>

SoftDeleteWrite(r) ==
    /\ req[r].op = "delete"
    /\ ticket' = [ticket EXCEPT !.deleted = TRUE, !.updatedAt = now, !.touchedAt = now]
    /\ Finish(r)
    /\ UNCHANGED <<told, strayed>>

(* A public reply of an agent: sets first_response_at where it is null.      *)
PublicReply ==
    /\ Input("reply")
    /\ ~ticket.deleted
    /\ ticket.firstAt = None
    /\ ticket' = [ticket EXCEPT !.firstAt = now, !.updatedAt = now, !.touchedAt = now]
    /\ UNCHANGED <<staff, now, req, job, cron, closer, told, strayed>>

-----------------------------------------------------------------------------
(* Routing (assignment-engine.service.ts), one transaction under the lock of *)
(* the row.  Which of the candidates it picks, by load and strategy, is left *)
(* open here.  It is one step: the lock keeps the other writers of the row   *)
(* away, and a change of the staff between its reads and its commit has the  *)
(* effect of one just after it.                                              *)

Routable == ~ticket.deleted /\ ticket.assignedTo = None /\ ticket.status \in {"NEW", "REOPENED"}

Candidates ==
    {a \in Users \ full : /\ ticket.team \in automatic
                          /\ Eligible(a, ticket.team)
                          /\ post[a].role \notin Managers}

RouteTo(a) ==
    /\ ticket' = [ticket EXCEPT !.assignedTo = a, !.status = "ASSIGNED",
                                !.updatedAt = now, !.touchedAt = now]
    /\ strayed' = FALSE

(* Or the transaction fails and rolls back: routeTicket returns false.       *)
RouteTicket ==
    \/ /\ IF Routable /\ Candidates # {} THEN \E a \in Candidates : RouteTo(a)
          ELSE UNCHANGED <<ticket, strayed>>
       /\ UNCHANGED inputs
    \/ /\ Input("error")
       /\ UNCHANGED <<ticket, strayed>>

(* The assignment worker takes the queued job, which is done in either case. *)
WorkerRoute ==
    /\ job
    /\ job' = FALSE
    /\ RouteTicket
    /\ UNCHANGED <<staff, now, req, cron, closer, told>>

-----------------------------------------------------------------------------
(* The two-minute sweep, statement by statement.  One pass at a time         *)
(* (isProcessing); `at` is the date taken at its start.                      *)

CronVars == <<now, req, closer, told>>

(* Returns from absence, then the read of the unavailable agents.            *)
CronStart ==
    /\ cron = CronIdle
    /\ \E back \in SUBSET {u \in Users : agent[u] = "absent"} :
          agent' = [u \in Users |-> IF u \in back THEN "available" ELSE agent[u]]
    /\ cron' = [pc |-> "tickets", at |-> now, agents |-> agent']
    /\ UNCHANGED <<ticket, post, full, automatic, job, strayed, inputs>>
    /\ UNCHANGED CronVars

(* Rules 1 to 3 of the withdrawal, on the rows read.                         *)
ShouldWithdraw(t, availability, at) ==
    \/ availability = "gone"
    \/ /\ availability = "paused"
       /\ (IF t.firstAt = None THEN FirstDue ELSE t.dueAt) - at < Risk

(* Mutant: resolved tickets are withdrawn too.                               *)
MutWithdrawable == {"ASSIGNED", "IN_PROGRESS", "REOPENED", "RESOLVED"} \cup Pending

Withdrawable == {"ASSIGNED", "IN_PROGRESS", "REOPENED"} \cup Pending

CronTickets ==
    /\ cron.pc = "tickets"
    /\ cron' = IF /\ ~ticket.deleted
                  /\ ticket.status \in Withdrawable
                  /\ ticket.assignedTo \in Users
                  /\ ShouldWithdraw(ticket, cron.agents[ticket.assignedTo], cron.at)
               THEN [pc |-> "deassign", at |-> cron.at, seen |-> ticket]
               ELSE [pc |-> "stale", at |-> cron.at]
    /\ UNCHANGED <<ticket, staff, job, strayed, inputs>>
    /\ UNCHANGED CronVars

(* Mutant: the status of an ASSIGNED ticket is left as it is.                *)
MutWithdraw(t, at) ==
    [t EXCEPT !.assignedTo = None, !.status = IF @ = "ASSIGNED" THEN @ ELSE "REOPENED",
              !.updatedAt = at, !.touchedAt = at]

Withdraw(t, at) ==
    [t EXCEPT !.assignedTo = None, !.status = "REOPENED", !.updatedAt = at, !.touchedAt = at]

(* The write of the withdrawal, by id alone; ticket.unassigned then queues a *)
(* route_ticket job unless the queue is unavailable.                         *)
CronDeassign ==
    /\ cron.pc = "deassign"
    /\ ticket' = Withdraw(ticket, cron.at)
    /\ job' \in {job, TRUE}
    /\ cron' = [pc |-> "stale", at |-> cron.at]
    /\ UNCHANGED <<staff, strayed, inputs>>
    /\ UNCHANGED CronVars

IsStale(t, at) ==
    /\ t.status = "ASSIGNED" /\ ~t.deleted /\ t.pausedAt = None
    /\ t.dueAt < at /\ t.updatedAt <= t.dueAt

CronStale ==
    /\ cron.pc = "stale"
    /\ cron' = IF IsStale(ticket, cron.at)
               THEN [pc |-> "escalate", at |-> cron.at, seen |-> ticket]
               ELSE [pc |-> "route", at |-> cron.at]
    /\ UNCHANGED <<ticket, staff, job, strayed, inputs>>
    /\ UNCHANGED CronVars

(* The write of the escalation, by id alone; its routeTicket call is the     *)
(* routing the pass ends with.                                               *)
CronEscalate ==
    /\ cron.pc = "escalate"
    /\ ticket' = Withdraw(ticket, cron.at)
    /\ cron' = [pc |-> "route", at |-> cron.at]
    /\ UNCHANGED <<staff, job, strayed, inputs>>
    /\ UNCHANGED CronVars

(* Mutant: the pass ends with the routing of NEW tickets only.               *)
MutCronRoute ==
    /\ cron.pc = "route"
    /\ IF ticket.status = "NEW" THEN RouteTicket ELSE UNCHANGED <<ticket, strayed, inputs>>
    /\ cron' = CronIdle
    /\ UNCHANGED <<staff, job>>
    /\ UNCHANGED CronVars

CronRoute ==
    /\ cron.pc = "route"
    /\ RouteTicket
    /\ cron' = CronIdle
    /\ UNCHANGED <<staff, job>>
    /\ UNCHANGED CronVars

(* A statement before the routing throws: the pass ends there.               *)
CronFail ==
    /\ cron.pc \notin {"idle", "route"}
    /\ Input("error")
    /\ cron' = CronIdle
    /\ UNCHANGED <<ticket, staff, job, strayed>>
    /\ UNCHANGED CronVars

Sweep == CronStart \/ CronTickets \/ CronDeassign \/ CronStale \/ CronEscalate \/ CronRoute
         \/ CronFail

-----------------------------------------------------------------------------
(* Auto-close (sla-auto-close.service.ts) and breach alerts                  *)
(* (sla-alert-processor.service.ts): a scan, then one guarded UPDATE.        *)

Closable(cutoff) ==
    /\ ticket.status = "RESOLVED" /\ ~ticket.deleted
    /\ ticket.resolvedAt # None /\ ticket.resolvedAt < cutoff

(* Mutant: the scan waits twice the delay after the last change.             *)
MutAutoCloseScan ==
    /\ closer = CloserIdle
    /\ Closable(now - Quiet)
    /\ ticket.touchedAt + 2 * Quiet < now
    /\ closer' = [pc |-> "close", cutoff |-> now - Quiet]
    /\ UNCHANGED <<ticket, staff, now, req, job, cron, told, strayed, inputs>>

AutoCloseScan ==
    /\ closer = CloserIdle
    /\ Closable(now - Quiet)
    /\ closer' = [pc |-> "close", cutoff |-> now - Quiet]
    /\ UNCHANGED <<ticket, staff, now, req, job, cron, told, strayed, inputs>>

(* Mutant: the UPDATE trusts the scan.                                       *)
MutAutoCloseUnchecked ==
    /\ closer.pc = "close"
    /\ ticket' = [ticket EXCEPT !.status = "CLOSED", !.closedAt = now,
                                !.updatedAt = now, !.touchedAt = now]
    /\ closer' = CloserIdle
    /\ UNCHANGED <<staff, now, req, job, cron, told, strayed, inputs>>

AutoClose ==
    /\ closer.pc = "close"
    /\ ticket' = IF Closable(closer.cutoff)
                 THEN [ticket EXCEPT !.status = "CLOSED", !.closedAt = now,
                                     !.updatedAt = now, !.touchedAt = now]
                 ELSE ticket
    /\ closer' = CloserIdle
    /\ UNCHANGED <<staff, now, req, job, cron, told, strayed, inputs>>

(* The claim of the first RESOLUTION/BREACH alert.  The UPDATE does not name *)
(* updated_at; $onUpdate sets it.                                            *)
ClaimBreachAlert ==
    /\ ~ticket.deleted /\ ticket.status \notin Finished
    /\ ticket.pausedAt = None /\ ticket.dueAt < now
    /\ ticket.breachedAt = None
    /\ ticket' = [ticket EXCEPT !.breachedAt = now, !.updatedAt = now]
    /\ UNCHANGED <<staff, now, req, job, cron, closer, told, strayed, inputs>>

-----------------------------------------------------------------------------
(* What else changes: users.service.ts gives a user another availability,    *)
(* role or department, whatever tickets he holds, and his tokens follow      *)
(* later; other tickets fill and free the agents; departments.service.ts     *)
(* switches the automatic assignment; time passes.                           *)
StaffChange(kind) ==
    /\ Input(kind)
    /\ UNCHANGED <<ticket, now, job, cron, closer, told>>

ChangeAgent(u) ==
    /\ StaffChange("agent")
    /\ \E a \in Availabilities \ {agent[u]} : agent' = [agent EXCEPT ![u] = a]
    /\ UNCHANGED <<post, full, automatic, req, strayed>>

WasChecked(q) == q.op \in {"assign", "escalate"} /\ q.checked

MoveUser(u, to) ==
    /\ StaffChange("move")
    /\ post' = [post EXCEPT ![u].role = to.role, ![u].dept = to.dept]
    /\ LET leaves == to.dept # post[u].dept
       IN  /\ strayed' = (strayed \/ (leaves /\ ticket.assignedTo = u))
           /\ req' = [r \in Requests |->
                         IF leaves /\ WasChecked(req[r]) /\ req[r].target = u
                         THEN [req[r] EXCEPT !.moved = TRUE] ELSE req[r]]
    /\ UNCHANGED <<agent, full, automatic>>

RefreshToken(u) ==
    /\ post[u].token # post[u].role
    /\ post' = [post EXCEPT ![u].token = post[u].role]
    /\ UNCHANGED <<ticket, agent, full, automatic, now, req, job, cron, closer, told,
                   strayed, inputs>>

ChangeLoad(u) ==
    /\ StaffChange("load")
    /\ full' = IF u \in full THEN full \ {u} ELSE full \cup {u}
    /\ UNCHANGED <<agent, post, automatic, req, strayed>>

SwitchDepartment(d) ==
    /\ StaffChange("switch")
    /\ automatic' = IF d \in automatic THEN automatic \ {d} ELSE automatic \cup {d}
    /\ UNCHANGED <<agent, post, full, req, strayed>>

Tick ==
    /\ now < MaxTime
    /\ now' = now + 1
    /\ UNCHANGED <<ticket, staff, req, job, cron, closer, told, strayed, inputs>>

-----------------------------------------------------------------------------
RequestRead ==
    \E r \in Requests, u \in Users :
        \/ \E to \in Targets : ChangeStatusRead(r, u, to)
        \/ \E target \in Users : AssignRead(r, u, target)
        \/ \E target \in Users, dept \in Depts : EscalateRead(r, u, target, dept)
        \/ UpdateRead(r, u)
        \/ SoftDeleteRead(r, u)

RequestStep ==
    \E r \in Requests :
        \/ AssertEligible(r)
        \/ ChangeStatusCommit(r)
        \/ ChangeStatusFail(r)
        \/ AssignUpdate(r)
        \/ EscalateUpdate(r)
        \/ UpdateWrite(r)
        \/ SoftDeleteWrite(r)

StaffStep ==
    \/ \E u \in Users : \/ ChangeAgent(u) \/ RefreshToken(u) \/ ChangeLoad(u)
                        \/ \E to \in Moves : MoveUser(u, to)
    \/ \E d \in Depts : SwitchDepartment(d)

Environment == PublicReply \/ Tick \/ StaffStep

Jobs == WorkerRoute \/ Sweep \/ AutoCloseScan \/ AutoClose \/ ClaimBreachAlert

Next == RequestRead \/ RequestStep \/ Jobs \/ Environment

Spec == Init /\ [][Next]_vars

(* The cron expressions fire for ever, the worker is always polled and time  *)
(* passes; nobody has to send a request.                                     *)
Fairness ==
    /\ WF_vars(Sweep)
    /\ WF_vars(WorkerRoute)
    /\ WF_vars(AutoCloseScan) /\ WF_vars(AutoClose)
    /\ WF_vars(ClaimBreachAlert)
    /\ WF_vars(Tick)

FairSpec == Spec /\ Fairness

(* Schedules in which the writers that trust the row they read find it       *)
(* unchanged: assign, escalate and the two withdrawals of the sweep.         *)
Undisturbed ==
    /\ \A r \in Requests : AssignUpdate(r) \/ EscalateUpdate(r) => ticket = req[r].seen
    /\ CronDeassign \/ CronEscalate => ticket = cron.seen

CalmSpec == Init /\ [][Next /\ Undisturbed]_vars

-----------------------------------------------------------------------------
(* PROPERTIES of every schedule (Spec).                                      *)

(* A ticket in status ASSIGNED has an assignee: no two of the six writers of *)
(* assigned_to and status can leave the pair half written, although assign   *)
(* and the sweep write both from rows read earlier.                          *)
AssignedHasAssignee == ticket.status = "ASSIGNED" => ticket.assignedTo # None

(* The assignee belongs to the department that holds the ticket, for every   *)
(* writer of either: routing, assign, escalate and the sweep, whatever they  *)
(* overtake.  Two things alone take him out of it (strayed): an              *)
(* administrator moves him, before or after the write for which he was       *)
(* checked, or an escalation gives the ticket to another team between the    *)
(* check and the write of an assign.                                         *)
AssigneeInTeam ==
    ticket.assignedTo # None /\ ~strayed => post[ticket.assignedTo].dept = ticket.team

(* A change of status that changeStatus commits goes along TICKET_TRANSITIONS *)
(* from the status the row really had, whatever happened since it was read.   *)
CommitFollowsMap ==
    \A r \in Requests :
        req[r].op = "status" /\ ticket' # ticket /\ req'[r] = Free
        => /\ CanTransition(ticket.status, ticket'.status)
           /\ ticket'.status = req[r].to
CommitKeepsStateMachine == [][CommitFollowsMap]_vars

(* The auto-close closes no ticket that was reopened, resolved anew or       *)
(* deleted between its scan and its UPDATE: at the UPDATE the ticket has     *)
(* been RESOLVED, undeleted, for longer than the quiet delay.                *)
ClosedAfterQuiet ==
    closer.pc = "close" /\ closer' = CloserIdle /\ ticket' # ticket
    => /\ ticket.status = "RESOLVED" /\ ~ticket.deleted
       /\ ticket.resolvedAt + Quiet < now
AutoCloseOnlyAfterQuiet == [][ClosedAfterQuiet]_vars

(* Work is not lost: a live, unassigned NEW or REOPENED ticket does not stay *)
(* so for ever while its department is automatic and has an eligible agent   *)
(* with room, even when the queued job is lost, finds nobody or fails.       *)
UnassignedIsRouted == []<>~(Routable /\ Candidates # {})

(* A resolved ticket is not left open: it does not stay RESOLVED for ever    *)
(* past the quiet delay.                                                     *)
ResolvedIsClosed == []<>~Closable(now - Quiet)

-----------------------------------------------------------------------------
(* PROPERTIES of the schedules in which no row is changed under a writer     *)
(* that trusts it (CalmSpec).                                                *)

(* The SLA clock of a ticket that waits for a customer or a third party is   *)
(* stopped: the resume can tell the length of the pause.                     *)
PendingIsPaused(t) == t.status \in Pending => t.pausedAt # None

(* The dates agree with the status: resolved_at is set exactly while the     *)
(* ticket is RESOLVED or CLOSED, closed_at exactly while it is CLOSED.       *)
StampsMatch(t) ==
    /\ (t.resolvedAt # None) <=> (t.status \in {"RESOLVED", "CLOSED"})
    /\ (t.closedAt # None) <=> (t.status = "CLOSED")

PendingStopsClock == PendingIsPaused(ticket)
StampsFollowStatus == StampsMatch(ticket)

(* What the requester was last told about the end of the ticket is still so: *)
(* no writer takes a ticket out of RESOLVED or CLOSED without a new public   *)
(* event (the auto-close, which sends none, only moves it further).          *)
ToldTheOutcome ==
    /\ told = "PUBLIC_TICKET_RESOLVED" => ticket.status \in {"RESOLVED", "CLOSED"}
    /\ told = "PUBLIC_TICKET_CLOSED"   => ticket.status = "CLOSED"

-----------------------------------------------------------------------------
(* STATEMENTS of the documents and comments that the code does not meet.     *)

(* auto-assignment.cron.ts: overdue ASSIGNED tickets without activity since  *)
(* their deadline are escalated: none stays so for ever.                     *)
Neglected ==
    /\ ticket.status = "ASSIGNED" /\ ~ticket.deleted /\ ticket.pausedAt = None
    /\ ticket.dueAt < now /\ ticket.touchedAt <= ticket.dueAt
NeglectedIsEscalated == []<>~Neglected
=============================================================================
