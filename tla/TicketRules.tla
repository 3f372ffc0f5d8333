---------------------------- MODULE TicketRules ----------------------------
(* The rules of a ticket that keep no state of their own: the status machine *)
(* (tickets/domain/ticket-status-transitions.ts), who may do what            *)
(* (tickets/domain/ticket-permissions.ts) and the SLA columns a change of    *)
(* status writes (buildSlaUpdateFields of tickets.service.ts).               *)
(* Dates are integers; business-hours arithmetic is abstracted to adding the *)
(* constant Grant.                                                           *)
EXTENDS Integers

CONSTANTS
    Users,         \* internal accounts
    Depts,         \* departments
    Role,          \* Role[u]: the role_enum value given to u at the creation
    Dept,          \* Dept[u]: the department given to u at the creation
    Opener,        \* the user who opened the ticket, or None (public ticket)
    Home,          \* the department of the opening (tickets.department_id)
    None,          \* SQL NULL
    Grant,         \* extension given by a reopening (240 business minutes)
    ReopenWindow   \* how long after its closing the opener may reopen (30 days)

Roles == {"ADMINISTRATOR", "SUPERVISOR", "CUSTOMER_SERVICE_AGENT",
          "NOC_ENGINEER", "BILLING_AGENT", "TECHNICAL_SUPPORT_ENGINEER",
          "FIELD_TECHNICIAN"}

ASSUME RulesAssumption ==
    /\ None \notin Users \cup Int
    /\ Role \in [Users -> Roles]
    /\ Dept \in [Users -> Depts]
    /\ Opener \in Users \cup {None}
    /\ Home \in Depts
    /\ Grant \in Nat
    /\ ReopenWindow \in Nat

-----------------------------------------------------------------------------
(* The row.                                                                  *)

Pending  == {"PENDING_CUSTOMER", "PENDING_THIRD_PARTY"}
Finished == {"RESOLVED", "CLOSED", "CANCELLED"}
Statuses == {"NEW", "ASSIGNED", "IN_PROGRESS", "REOPENED"} \cup Pending \cup Finished

Date == Nat \cup {None}

(* The columns of `tickets` that the rules read or write.  `paused` is       *)
(* accumulated_pause_ms.  `touchedAt` is no column: it is updated_at as it   *)
(* would be if the SLA alert job did not refresh it.                         *)
Ticket == [ status    : Statuses,
            assignedTo: Users \cup {None},
            team      : Depts,
            deleted   : BOOLEAN,
            pausedAt  : Date,
            paused    : Nat,
            dueAt     : Nat,
            firstAt   : Date,
            resolvedAt: Date,
            closedAt  : Date,
            breachedAt: Date,
            updatedAt : Nat,
            touchedAt : Nat ]

TicketTransitions ==
    ({"NEW"} \X {"ASSIGNED", "CANCELLED"})
    \cup ({"ASSIGNED"} \X {"IN_PROGRESS", "CANCELLED"})
    \cup ({"IN_PROGRESS"} \X (Pending \cup {"RESOLVED"}))
    \cup (Pending \X {"IN_PROGRESS", "RESOLVED"})
    \cup ({"RESOLVED"} \X {"CLOSED", "REOPENED"})
    \cup ({"CLOSED"} \X {"REOPENED"})
    \cup ({"REOPENED"} \X {"IN_PROGRESS", "CANCELLED"})

CanTransition(from, to) == <<from, to>> \in TicketTransitions

(* The statuses an HTTP endpoint asks changeStatus for; no endpoint asks for *)
(* ASSIGNED or CANCELLED.                                                    *)
EndpointTargets == {"IN_PROGRESS", "RESOLVED", "CLOSED", "REOPENED"} \cup Pending

-----------------------------------------------------------------------------
(* Permissions.  t is the row as it was read, u the caller as JwtStrategy    *)
(* describes him: [id, role, dept].                                          *)

Managers == {"ADMINISTRATOR", "SUPERVISOR"}

IsAdmin(u)       == u.role = "ADMINISTRATOR"
IsSupervisor(u)  == u.role = "SUPERVISOR"
IsManager(u)     == u.role \in Managers
IsAssignee(t, u) == t.assignedTo = u.id
IsOpener(u)      == Opener = u.id

(* DepartmentAbacGuard, run before every handler of the tickets controller.  *)
CanSee(t, u) == IsAdmin(u) \/ u.dept \in {Home, t.team} \/ IsAssignee(t, u) \/ IsOpener(u)

CanReopen(t, u, at) ==
    /\ \/ IsManager(u)
       \/ u.role = "CUSTOMER_SERVICE_AGENT" /\ IsOpener(u)
    /\ t.closedAt # None /\ ~IsManager(u) => at - t.closedAt <= ReopenWindow

CanChangeStatus(t, to, u, at) ==
    IF to = "REOPENED" THEN CanReopen(t, u, at)
    ELSE IF to = "CANCELLED" THEN IsManager(u)
    ELSE to = "ASSIGNED" \/ IsAssignee(t, u) \/ IsManager(u)

(* checkCanAssign returning isAutoAssign = true.                             *)
IsAutoAssign(t, target, u) ==
    /\ ~IsAdmin(u)
    /\ target = u.id
    /\ t.team = u.dept
    /\ t.status = "NEW"
    /\ t.assignedTo = None

CanAssign(t, target, u) ==
    \/ IsAutoAssign(t, target, u)
    \/ /\ (target = u.id /\ ~IsAdmin(u)) \/ IsSupervisor(u) => t.team = u.dept
       /\ IsManager(u) \/ IsAssignee(t, u)

CanEscalate(t, dept, u) ==
    IF dept # t.team
    THEN IsAdmin(u) \/ (IsSupervisor(u) /\ t.team = u.dept)
    ELSE /\ IsManager(u) \/ IsAssignee(t, u)
         /\ IsAdmin(u) \/ t.team = u.dept

(* A PATCH carries a set of fields, each with its own rule; all must pass.   *)
CanUpdateField(t, field, u) ==
    CASE field \in {"title", "description"} ->
            IsManager(u) \/ IsAssignee(t, u) \/ (IsOpener(u) /\ t.status = "NEW")
      [] field = "tags" -> IsManager(u) \/ IsAssignee(t, u)
      [] field \in {"priority", "severity"} -> IsManager(u)
      [] field = "categoryId" -> IsManager(u) \/ (IsOpener(u) /\ t.status = "NEW")

UpdateFields == {"title", "description", "tags", "priority", "severity", "categoryId"}
CanUpdate(t, u) == \E fields \in (SUBSET UpdateFields) \ {{}} :
                      \A f \in fields : CanUpdateField(t, f, u)

-----------------------------------------------------------------------------
(* The UPDATE of changeStatus: `row` is the row found by the UPDATE, `seen`  *)
(* the one read before, `at` the date taken after the checks and `now` the   *)
(* date of the UPDATE (updated_at's $onUpdate).                              *)

Resuming(seen, to) ==
    seen.status \in Pending /\ to \in {"ASSIGNED", "IN_PROGRESS"} /\ seen.pausedAt # None

(* Mutant: the two dates of the pause swapped.                               *)
MutPauseLength(seen, to, at) == IF Resuming(seen, to) THEN seen.pausedAt - at ELSE 0

PauseLength(seen, to, at) == IF Resuming(seen, to) THEN at - seen.pausedAt ELSE 0

(* Mutant: a wait for a third party does not stop the clock.                 *)
MutPausedAtAfter(row, seen, to, at) ==
    IF to = "PENDING_CUSTOMER" THEN at
    ELSE IF Resuming(seen, to) \/ to \in Finished THEN None
    ELSE row.pausedAt

PausedAtAfter(row, seen, to, at) ==
    IF to \in Pending THEN at
    ELSE IF Resuming(seen, to) \/ to \in Finished THEN None
    ELSE row.pausedAt

(* Mutant: a reopening does not reset closed_at.                             *)
MutClosedAtAfter(row, to, at) == IF to = "CLOSED" THEN at ELSE row.closedAt

ClosedAtAfter(row, to, at) ==
    IF to = "CLOSED" THEN at ELSE IF to = "REOPENED" THEN None ELSE row.closedAt

ResolvedAtAfter(row, to, at) ==
    IF to = "RESOLVED" THEN at ELSE IF to = "REOPENED" THEN None ELSE row.resolvedAt

DueAtAfter(row, seen, to, at) ==
    IF Resuming(seen, to) THEN seen.dueAt + PauseLength(seen, to, at)
    ELSE IF to = "REOPENED" THEN at + Grant
    ELSE row.dueAt

WithStatus(row, seen, to, at, now) ==
    [row EXCEPT
        !.status     = to,
        !.pausedAt   = PausedAtAfter(row, seen, to, at),
        !.paused     = IF Resuming(seen, to)
                       THEN seen.paused + PauseLength(seen, to, at) ELSE @,
        !.dueAt      = DueAtAfter(row, seen, to, at),
        !.firstAt    = IF to = "IN_PROGRESS" /\ seen.firstAt = None THEN at ELSE @,
        !.resolvedAt = ResolvedAtAfter(row, to, at),
        !.closedAt   = ClosedAtAfter(row, to, at),
        !.updatedAt  = now,
        !.touchedAt  = now ]

(* The public event that changeStatus puts in the outbox.                    *)
PublicStatusEvent(to) ==
    CASE to = "PENDING_CUSTOMER"         -> "PUBLIC_INFORMATION_REQUESTED"
      [] to = "RESOLVED"                 -> "PUBLIC_TICKET_RESOLVED"
      [] to \in {"CLOSED", "CANCELLED"}  -> "PUBLIC_TICKET_CLOSED"
      [] to = "REOPENED"                 -> "PUBLIC_TICKET_REOPENED"
      [] OTHER                           -> "PUBLIC_STATUS_CHANGED"
=============================================================================
