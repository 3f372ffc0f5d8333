----------------------------- MODULE TicketEvents -----------------------------
(* What a committed change of one ticket sets off (ticket.events.ts, the     *)
(* listeners of notification and audit, the notification and audit workers): *)
(* events are emitted in memory after the commit, their handlers read the    *)
(* ticket again between awaits, and their jobs run ten at a time.            *)
EXTENDS Integers, Sequences, FiniteSets

CONSTANTS
    Agents,         \* agents who can hold the ticket
    Creator,        \* its internal creator
    Supervisor,     \* the supervisor of the department, who can hold it too
    Nobody,
    MaxCommits      \* bound on the events

ASSUME EventsAssumption ==
    /\ Cardinality(Agents \cup {Creator, Supervisor, Nobody}) = Cardinality(Agents) + 3
    /\ MaxCommits \in Nat

VARIABLES
    holder,       \* tickets.assignedTo
    deleted,      \* tickets.deletedAt
    commits,      \* the committed events, in order
    handlers,     \* handlers of the notification listener that are running
    auditing,     \* events whose audit job waits
    trail,        \* rows of audit_logs, by event
    notices,      \* notification jobs that wait
    inbox,        \* inbox[u]: rows of notifications, in the order of insertion
    mishap,       \* a job was lost: queue or database error, or a crash
    overlapped    \* two changes were being told at the same time

eventVars == <<holder, deleted, commits, handlers, auditing, trail, notices, inbox, mishap, overlapped>>

Holders == Agents \cup {Supervisor}
People == Holders \cup {Creator}
Events == {"created", "assigned", "escalated", "resolved", "closed", "reopened", "deassigned"}
(* What a notice says: the event, or "alert" to a supervisor.                *)
Said == Events \cup {"alert"}
(* Without handler in the audit listener: escalated, and resolved, which the *)
(* audit knows as status_changed.                                            *)
Audited == Events \ {"escalated"}
Numbers == 1 .. MaxCommits
Notices == [n: Numbers, to: People, kind: Said]

EventsTypeOK ==
    /\ holder \in Holders \cup {Nobody} /\ deleted \in BOOLEAN
    /\ commits \in Seq([kind: Events, who: People]) /\ Len(commits) <= MaxCommits
    /\ handlers \subseteq [n: Numbers, pc: {"read", "tell"}, to: SUBSET (People \X Said)]
    /\ \A h, g \in handlers : h.n = g.n => h = g
    /\ auditing \cup trail \subseteq 1 .. Len(commits) /\ auditing \cap trail = {}
    /\ notices \subseteq Notices
    /\ inbox \in [People -> Seq(Notices)]
    /\ \A u \in People : \A i \in 1 .. Len(inbox[u]) : inbox[u][i].to = u
    /\ mishap \in BOOLEAN /\ overlapped \in BOOLEAN

EventsInit ==
    /\ holder = Nobody /\ deleted = FALSE /\ commits = <<>>
    /\ handlers = {} /\ auditing = {} /\ trail = {} /\ notices = {}
    /\ inbox = [u \in People |-> <<>>]
    /\ mishap = FALSE /\ overlapped = FALSE

-----------------------------------------------------------------------------
(* Commits.  Every one emits its event to both listeners.                    *)

AuditJobs(kind, n) == IF kind \in Audited THEN {n} ELSE {}

MutHandler(kind, who, n) ==
    IF kind \in {"created", "assigned"} THEN {} ELSE {[n |-> n, pc |-> "read", to |-> {<<who, kind>>}]}

(* assigned tells at once; created only sends e-mail; the others read first. *)
Handler(kind, who, n) ==
    IF kind = "created" THEN {}
    ELSE {[n |-> n, pc |-> IF kind = "assigned" THEN "tell" ELSE "read", to |-> {<<who, kind>>}]}

Emit(kind, who) ==
    LET n == Len(commits) + 1 IN
    /\ n <= MaxCommits
    /\ commits' = Append(commits, [kind |-> kind, who |-> who])
    /\ handlers' = handlers \cup Handler(kind, who, n)
    /\ auditing' = auditing \cup AuditJobs(kind, n)
    /\ overlapped' = (overlapped \/ handlers \cup notices # {})
    /\ UNCHANGED <<trail, notices, inbox, mishap>>

Create == commits = <<>> /\ Emit("created", Creator) /\ UNCHANGED <<holder, deleted>>

(* RESOLVED or CLOSED.                                                       *)
Settled ==
    \E n \in 1 .. Len(commits) :
        /\ commits[n].kind \in {"resolved", "closed"}
        /\ \A k \in n .. Len(commits) : commits[k].kind # "reopened"

Alive == commits # <<>> /\ ~deleted

Assign(u) ==
    /\ Alive /\ holder' = u
    /\ Emit("assigned", u) /\ UNCHANGED deleted

Escalate(u) ==
    /\ Alive /\ holder' = u
    /\ Emit("escalated", u) /\ UNCHANGED deleted

Deassign ==
    /\ Alive /\ holder # Nobody /\ ~Settled /\ holder' = Nobody
    /\ Emit("deassigned", holder) /\ UNCHANGED deleted

(* Resolving, closing and reopening leave the holder.                        *)
ChangeStatus(kind, actor) ==
    /\ Alive
    /\ \/ kind = "resolved" /\ ~Settled
       \/ kind = "reopened" /\ Settled
       \/ kind = "closed" /\ Settled /\ commits[Len(commits)].kind # "closed"
    /\ Emit(kind, actor) /\ UNCHANGED <<holder, deleted>>

Delete ==
    /\ Alive /\ deleted' = TRUE
    /\ UNCHANGED <<holder, commits, handlers, auditing, trail, notices, inbox, mishap, overlapped>>

-----------------------------------------------------------------------------
(* The notification listener and its worker.                                 *)

Kind(h) == commits[h.n].kind
Who(h) == commits[h.n].who

(* Whom the handler tells, from the ticket as it reads it now.  Only the     *)
(* handler of reopened finds a deleted ticket; the one of deassigned gives   *)
(* up without a ticket.                                                      *)
Heard(h) ==
    CASE Kind(h) = "closed" ->
           {Who(h)} \X {"closed"} \cup (IF deleted THEN {} ELSE {holder, Creator} \X {"closed"})
      [] Kind(h) = "reopened" -> {<<holder, "reopened">>}
      [] Kind(h) = "deassigned" -> IF deleted THEN {} ELSE {<<Who(h), "deassigned">>, <<Supervisor, "alert">>}
      [] OTHER -> h.to

Keep(h, to) == handlers' = (handlers \ {h}) \cup (IF to = {} THEN {} ELSE {[h EXCEPT !.pc = "tell", !.to = to]})

ReadTicket(h) ==
    /\ h.pc = "read" /\ Keep(h, Heard(h) \cap (People \X Said))
    /\ UNCHANGED <<holder, deleted, commits, auditing, trail, notices, inbox, mishap, overlapped>>

(* createNotification: a queue that is unavailable loses the notice.         *)
Tell(h, x) ==
    /\ h.pc = "tell" /\ x \in h.to /\ Keep(h, h.to \ {x})
    /\ \/ notices' = notices \cup {[n |-> h.n, to |-> x[1], kind |-> x[2]]} /\ UNCHANGED mishap
       \/ mishap' = TRUE /\ UNCHANGED notices
    /\ UNCHANGED <<holder, deleted, commits, auditing, trail, inbox, overlapped>>

(* One attempt: a job that fails is not run again.                           *)
InsertNotice(j) ==
    /\ notices' = notices \ {j}
    /\ \/ inbox' = [inbox EXCEPT ![j.to] = Append(@, j)] /\ UNCHANGED mishap
       \/ mishap' = TRUE /\ UNCHANGED inbox
    /\ UNCHANGED <<holder, deleted, commits, handlers, auditing, trail, overlapped>>

InsertAudit(n) ==
    /\ auditing' = auditing \ {n}
    /\ \/ trail' = trail \cup {n} /\ UNCHANGED mishap
       \/ mishap' = TRUE /\ UNCHANGED trail
    /\ UNCHANGED <<holder, deleted, commits, handlers, notices, inbox, overlapped>>

(* The process dies with the handlers that were running in it.               *)
CrashListener ==
    /\ handlers # {} /\ handlers' = {} /\ mishap' = TRUE
    /\ UNCHANGED <<holder, deleted, commits, auditing, trail, notices, inbox, overlapped>>

EventsNext ==
    \/ Create \/ Deassign \/ Delete \/ CrashListener
    \/ \E u \in Holders : Assign(u) \/ Escalate(u)
    \/ \E k \in Events, u \in Holders : ChangeStatus(k, u)
    \/ \E h \in handlers : ReadTicket(h) \/ \E x \in h.to : Tell(h, x)
    \/ \E j \in notices : InsertNotice(j)
    \/ \E n \in auditing : InsertAudit(n)

EventsSpec == EventsInit /\ [][EventsNext]_eventVars

-----------------------------------------------------------------------------

Told == handlers \cup notices = {}
(* The last notice that u has about the assignment gives it to u.            *)
Knows(u) ==
    \E i \in 1 .. Len(inbox[u]) :
        /\ inbox[u][i].kind \in {"assigned", "escalated"}
        /\ \A k \in 1 .. Len(inbox[u]) : k > i => inbox[u][k].kind # "deassigned"

(* Once everything is told and nothing was lost, the last notice the holder  *)
(* got about the assignment says that the ticket is theirs: unless two       *)
(* changes were told at the same time, when notices can arrive reversed.     *)
HolderKnows ==
    Told /\ ~mishap /\ ~overlapped /\ ~deleted /\ holder # Nobody => Knows(holder)

(* Nobody is told the same event twice, although the closer, the holder and  *)
(* the creator are often one person: except a supervisor who loses a ticket, *)
(* who is told as holder and alerted as supervisor.                          *)
ToldOnce ==
    \A u \in People : \A i, k \in 1 .. Len(inbox[u]) :
        inbox[u][i].n = inbox[u][k].n => i = k \/ "alert" \in {inbox[u][i].kind, inbox[u][k].kind}

(* Every change has its row in the audit trail once the jobs have run, or a  *)
(* job was lost: there is no outbox behind the audit.                        *)
AuditComplete ==
    auditing = {} /\ ~mishap => \A n \in 1 .. Len(commits) : commits[n].kind # "escalated" => n \in trail
=============================================================================
