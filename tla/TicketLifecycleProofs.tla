----------------------- MODULE TicketLifecycleProofs -----------------------
(* Proofs about TicketLifecycle, for every set of users, departments,        *)
(* requests in flight and every value of the delays and bounds.              *)
EXTENDS TicketLifecycle, TLAPS

USE RulesAssumption, LifecycleAssumption

-----------------------------------------------------------------------------
(* The shape of what a slot holds, by its op.                                *)
LEMMA RequestShape ==
    ASSUME TypeOK, NEW r \in Requests
    PROVE  /\ req[r].op = "status" => req[r] \in StatusReq
           /\ req[r].op = "assign" => req[r] \in AssignReq
           /\ req[r].op = "escalate" => req[r] \in EscalateReq
  BY DEF TypeOK, Free, StatusReq, AssignReq, EscalateReq, RowReq

LEMMA CronShape ==
    ASSUME TypeOK
    PROVE  /\ cron.pc = "tickets" => cron \in [pc: {"tickets"}, at: Nat, agents: [Users -> Availabilities]]
           /\ cron.pc = "deassign" => cron \in [pc: {"deassign"}, at: Nat, seen: Ticket]
           /\ cron.pc = "escalate" => cron \in [pc: {"escalate"}, at: Nat, seen: Ticket]
           /\ cron.pc \in {"stale", "route"} => cron \in [pc: {"stale", "route"}, at: Nat]
  BY DEF TypeOK, CronState, CronIdle

(* No date of a pause lies in the future of the clock, nor of the date that  *)
(* a status request took: a resume adds a pause of natural length.           *)
ClockOrder ==
    /\ ticket.pausedAt # None => ticket.pausedAt <= now
    /\ \A r \in Requests : req[r].op = "status" =>
          /\ req[r].at <= now
          /\ req[r].seen.pausedAt # None => req[r].seen.pausedAt <= req[r].at

LEMMA WithStatusType ==
    ASSUME NEW row \in Ticket, NEW seen \in Ticket, NEW to \in EndpointTargets,
           NEW at \in Nat, NEW when \in Nat,
           seen.pausedAt # None => seen.pausedAt <= at
    PROVE  WithStatus(row, seen, to, at, when) \in Ticket
  <1>1. to \in Statuses
    BY DEF EndpointTargets, Statuses, Pending, Finished
  <1>2. PauseLength(seen, to, at) \in Nat
    BY DEF PauseLength, Resuming, Ticket, Date
  <1>3. PausedAtAfter(row, seen, to, at) \in Date
    BY DEF PausedAtAfter, Ticket, Date
  <1>4. DueAtAfter(row, seen, to, at) \in Nat
    BY <1>2 DEF DueAtAfter, Ticket
  <1>5. ResolvedAtAfter(row, to, at) \in Date /\ ClosedAtAfter(row, to, at) \in Date
    BY DEF ResolvedAtAfter, ClosedAtAfter, Ticket, Date
  <1>6. seen.paused + PauseLength(seen, to, at) \in Nat
    BY <1>2 DEF Ticket
  <1>7. at \in Date
    BY DEF Date
  <1> QED
    BY <1>1, <1>3, <1>4, <1>5, <1>6, <1>7 DEF WithStatus, Ticket

-----------------------------------------------------------------------------
(* TypeOK and ClockOrder are inductive together.                             *)
TypeInv == TypeOK /\ ClockOrder

LEMMA TypeInit == Init => TypeInv
  <1> SUFFICES ASSUME Init PROVE TypeInv
    OBVIOUS
  <1>1. PICK team \in Depts : ticket = NewTicket(team)
    BY DEF Init
  <1>2. NewTicket(team) \in Ticket
    BY DEF NewTicket, Ticket, Statuses, Date
  <1>3. ticket.paused = 0 /\ ticket.pausedAt = None
    BY <1>1 DEF NewTicket
  <1>4. agent \in [Users -> Availabilities] /\ post \in [Users -> Post]
        /\ full \in SUBSET Users /\ automatic \in SUBSET Depts
    BY DEF Init, StaffInit, FirstPosts, Post, Availabilities
  <1>6. TypeOK
    <2>1. /\ ticket \in Ticket /\ ticket.paused <= MaxPause
          /\ now \in Nat /\ inputs \in Nat
      BY <1>1, <1>2, <1>3 DEF Init
    <2>3. job \in BOOLEAN /\ strayed \in BOOLEAN
      BY DEF Init
    <2>2. /\ req \in [Requests -> {Free} \cup StatusReq \cup AssignReq \cup EscalateReq \cup RowReq]
          /\ cron \in CronState /\ closer \in CloserState /\ told \in PublicEvents \cup {None}
      BY DEF Init, CronState, CloserState
    <2> QED
      BY <1>4, <2>1, <2>2, <2>3 DEF TypeOK
  <1>5. ClockOrder
    BY <1>3 DEF Init, ClockOrder, Free
  <1> QED
    BY <1>5, <1>6 DEF TypeInv

(* A write of a row of the right type that stops no clock, by a step that    *)
(* starts and changes no request.                                            *)
LEMMA RequestReadType ==
    ASSUME TypeInv, RequestRead
    PROVE  TypeInv'
  <1>0. PICK r \in Requests, u \in Users :
           \/ \E to \in Targets : ChangeStatusRead(r, u, to)
           \/ \E target \in Users : AssignRead(r, u, target)
           \/ \E target \in Users, dept \in Depts : EscalateRead(r, u, target, dept)
           \/ UpdateRead(r, u)
           \/ SoftDeleteRead(r, u)
    BY DEF RequestRead
  <1>1. /\ UNCHANGED <<ticket, staff, now, job, cron, closer, told, strayed>>
        /\ inputs' \in Nat
    BY <1>0 DEF ChangeStatusRead, AssignRead, EscalateRead, UpdateRead, SoftDeleteRead,
                Arrive, Input, TypeInv, TypeOK
  <1>2. \E q \in StatusReq \cup AssignReq \cup EscalateReq \cup RowReq :
           /\ req' = [req EXCEPT ![r] = q]
           /\ q.op = "status" => q.at = now /\ q.seen = ticket
    <2>1. CASE \E to \in Targets : ChangeStatusRead(r, u, to)
      <3>1. PICK to \in Targets : ChangeStatusRead(r, u, to)
        BY <2>1
      <3> DEFINE q == [op |-> "status", seen |-> ticket, to |-> to, at |-> now]
      <3>2. q \in StatusReq
        BY DEF StatusReq, TypeInv, TypeOK
      <3>3. req' = [req EXCEPT ![r] = q]
        BY <3>1 DEF ChangeStatusRead
      <3>4. q.at = now /\ q.seen = ticket
        OBVIOUS
      <3> HIDE DEF q
      <3> QED
        BY <3>2, <3>3, <3>4
    <2>2. CASE \E target \in Users : AssignRead(r, u, target)
      <3>1. PICK target \in Users : AssignRead(r, u, target)
        BY <2>2
      <3> DEFINE q == [op |-> "assign", seen |-> ticket, target |-> target, checked |-> FALSE,
                       moved |-> FALSE]
      <3>2. q \in AssignReq
        BY DEF AssignReq, TypeInv, TypeOK
      <3>3. req' = [req EXCEPT ![r] = q] /\ q.op # "status"
        BY <3>1 DEF AssignRead
      <3> QED
        BY <3>2, <3>3
    <2>3. CASE \E target \in Users, dept \in Depts : EscalateRead(r, u, target, dept)
      <3>1. PICK target \in Users, dept \in Depts : EscalateRead(r, u, target, dept)
        BY <2>3
      <3> DEFINE q == [op |-> "escalate", seen |-> ticket, target |-> target,
                       dept |-> dept, checked |-> FALSE, moved |-> FALSE]
      <3>2. q \in EscalateReq
        BY DEF EscalateReq, TypeInv, TypeOK
      <3>3. req' = [req EXCEPT ![r] = q] /\ q.op # "status"
        BY <3>1 DEF EscalateRead
      <3> QED
        BY <3>2, <3>3
    <2>4. CASE UpdateRead(r, u) \/ SoftDeleteRead(r, u)
      <3>1. [op |-> "edit"] \in RowReq /\ [op |-> "delete"] \in RowReq
        BY DEF RowReq
      <3>2. \/ req' = [req EXCEPT ![r] = [op |-> "edit"]]
            \/ req' = [req EXCEPT ![r] = [op |-> "delete"]]
        BY <2>4 DEF UpdateRead, SoftDeleteRead
      <3> QED
        BY <3>1, <3>2
    <2> QED
      BY <1>0, <2>1, <2>2, <2>3, <2>4
  <1>3. TypeOK'
    BY <1>1, <1>2 DEF TypeInv, TypeOK, staff
  <1>4. ClockOrder'
    BY <1>1, <1>2 DEF TypeInv, TypeOK, ClockOrder
  <1> QED
    BY <1>3, <1>4 DEF TypeInv

LEMMA RequestStepType ==
    ASSUME TypeInv, RequestStep
    PROVE  TypeInv'
  <1>0. PICK r \in Requests :
           \/ AssertEligible(r)
           \/ ChangeStatusCommit(r)
           \/ ChangeStatusFail(r)
           \/ AssignUpdate(r) \/ EscalateUpdate(r)
           \/ UpdateWrite(r) \/ SoftDeleteWrite(r)
    BY DEF RequestStep
  <1>1. CASE AssertEligible(r)
    <2>1. req[r] \in AssignReq \cup EscalateReq
      BY <1>1, RequestShape DEF AssertEligible, TypeInv
    <2>2. [req[r] EXCEPT !.checked = TRUE] \in AssignReq \cup EscalateReq
      BY <2>1 DEF AssignReq, EscalateReq
    <2>3. [req[r] EXCEPT !.checked = TRUE].op # "status"
      BY <2>2 DEF AssignReq, EscalateReq
    <2>4. \/ req' = [req EXCEPT ![r] = [req[r] EXCEPT !.checked = TRUE]]
          \/ req' = [req EXCEPT ![r] = Free]
      BY <1>1 DEF AssertEligible
    <2>5. \E q \in {Free} \cup AssignReq \cup EscalateReq :
             req' = [req EXCEPT ![r] = q] /\ q.op # "status"
      BY <2>2, <2>3, <2>4 DEF Free
    <2> QED
      BY <1>1, <2>5 DEF AssertEligible, TypeInv, TypeOK, ClockOrder, staff
  <1>2. CASE \/ ChangeStatusCommit(r) \/ ChangeStatusFail(r)
             \/ AssignUpdate(r) \/ EscalateUpdate(r)
             \/ UpdateWrite(r) \/ SoftDeleteWrite(r)
    <2>1. Finish(r)
      BY <1>2 DEF ChangeStatusCommit, ChangeStatusFail, AssignUpdate, EscalateUpdate,
                  UpdateWrite, SoftDeleteWrite
    <2>2. /\ ticket' \in Ticket
          /\ ticket'.paused <= MaxPause
          /\ ticket'.pausedAt # None => ticket'.pausedAt <= now
          /\ told' \in PublicEvents \cup {None}
          /\ strayed' \in BOOLEAN
      <3>1. CASE ChangeStatusCommit(r)
        <4>1. req[r] \in StatusReq /\ req[r].at <= now
              /\ (req[r].seen.pausedAt # None => req[r].seen.pausedAt <= req[r].at)
          BY <3>1, RequestShape DEF ChangeStatusCommit, TypeInv, ClockOrder
        <4>2. ticket' = WithStatus(ticket, req[r].seen, req[r].to, req[r].at, now)
          BY <3>1 DEF ChangeStatusCommit
        <4>3. ticket' \in Ticket
          BY <4>1, <4>2, WithStatusType DEF StatusReq, TypeInv, TypeOK
        <4>4. ticket'.paused <= MaxPause
          <5>1. ticket'.paused = IF Resuming(req[r].seen, req[r].to)
                                 THEN PauseAfter(req[r]) ELSE ticket.paused
            BY <4>2, <4>1 DEF WithStatus, Ticket, PauseAfter, TypeInv, TypeOK
          <5> QED
            BY <5>1, <3>1 DEF ChangeStatusCommit, TypeInv, TypeOK
        <4>5. ticket'.pausedAt = PausedAtAfter(ticket, req[r].seen, req[r].to, req[r].at)
          BY <4>2 DEF WithStatus, Ticket, TypeInv, TypeOK
        <4>6. ticket'.pausedAt # None => ticket'.pausedAt <= now
          BY <4>5, <4>1 DEF PausedAtAfter, TypeInv, ClockOrder
        <4>7. told' \in PublicEvents
          BY <3>1, <4>1 DEF ChangeStatusCommit, PublicEvents, StatusReq, EndpointTargets,
                            Statuses, Pending, Finished
        <4>8. strayed' \in BOOLEAN
          BY <3>1 DEF ChangeStatusCommit, TypeInv, TypeOK
        <4> QED
          BY <4>3, <4>4, <4>6, <4>7, <4>8
      <3>2. CASE ChangeStatusFail(r)
        BY <3>2 DEF ChangeStatusFail, TypeInv, TypeOK, ClockOrder
      <3>3. CASE AssignUpdate(r)
        <4>1. req[r] \in AssignReq
          BY <3>3, RequestShape DEF AssignUpdate, TypeInv
        <4>2. req[r].seen.status \in Statuses /\ "ASSIGNED" \in Statuses /\ req[r].target \in Users
          BY <4>1 DEF AssignReq, Ticket, Statuses
        <4>3. strayed' \in BOOLEAN
          BY <3>3 DEF AssignUpdate
        <4> QED
          BY <3>3, <4>2, <4>3 DEF AssignUpdate, TypeInv, TypeOK, Ticket, ClockOrder
      <3>4. CASE EscalateUpdate(r)
        <4>1. req[r].target \in Users /\ req[r].dept \in Depts /\ req[r].moved \in BOOLEAN
          BY <3>4, RequestShape DEF EscalateUpdate, EscalateReq, TypeInv
        <4>2. strayed' \in BOOLEAN
          BY <3>4, <4>1 DEF EscalateUpdate
        <4> QED
          BY <3>4, <4>1, <4>2 DEF EscalateUpdate, TypeInv, TypeOK, Ticket, ClockOrder
      <3>5. CASE UpdateWrite(r)
        BY <3>5 DEF UpdateWrite, TypeInv, TypeOK, Ticket, ClockOrder
      <3>6. CASE SoftDeleteWrite(r)
        <4>1. \E d \in BOOLEAN : ticket' = [ticket EXCEPT !.deleted = d, !.updatedAt = now,
                                                         !.touchedAt = now]
          BY <3>6 DEF SoftDeleteWrite
        <4>2. told' = told /\ strayed' = strayed
          BY <3>6 DEF SoftDeleteWrite
        <4> QED
          BY <4>1, <4>2 DEF TypeInv, TypeOK, Ticket, ClockOrder
      <3> QED
        BY <1>2, <3>1, <3>2, <3>3, <3>4, <3>5, <3>6
    <2>3. req' = [req EXCEPT ![r] = Free]
          /\ UNCHANGED <<agent, post, full, automatic, now, job, cron, closer, inputs>>
      BY <2>1 DEF Finish, staff
    <2>4. TypeOK'
      BY <2>2, <2>3 DEF TypeInv, TypeOK
    <2>5. ClockOrder'
      BY <2>2, <2>3 DEF TypeInv, TypeOK, ClockOrder, Free
    <2> QED
      BY <2>4, <2>5 DEF TypeInv
  <1> QED
    BY <1>0, <1>1, <1>2

(* A write of the row by a job: the same pause, the other columns of the     *)
(* right type, and no request touched.                                       *)
LEMMA JobWriteType ==
    ASSUME TypeInv, NEW row \in Ticket,
           row.pausedAt = ticket.pausedAt, row.paused = ticket.paused,
           ticket' = row, UNCHANGED <<post, full, automatic, now, req>>,
           inputs' \in Nat, strayed' \in BOOLEAN,
           agent' \in [Users -> Availabilities], job' \in BOOLEAN,
           cron' \in CronState, closer' \in CloserState,
           told' \in PublicEvents \cup {None}
    PROVE  TypeInv'
  BY DEF TypeInv, TypeOK, ClockOrder

LEMMA RouteType ==
    ASSUME TypeInv, RouteTicket
    PROVE  /\ ticket' \in Ticket
           /\ ticket'.pausedAt = ticket.pausedAt /\ ticket'.paused = ticket.paused
           /\ inputs' \in Nat /\ strayed' \in BOOLEAN
  <1>0. inputs' \in Nat
    BY DEF RouteTicket, Input, TypeInv, TypeOK
  <1>1. CASE UNCHANGED <<ticket, strayed>>
    BY <1>0, <1>1 DEF TypeInv, TypeOK
  <1>2. CASE \E a \in Candidates : RouteTo(a)
    <2>1. PICK a \in Users : RouteTo(a)
      BY <1>2 DEF Candidates
    <2>2. strayed' \in BOOLEAN
      BY <2>1 DEF RouteTo
    <2> QED
      BY <1>0, <2>1, <2>2 DEF RouteTo, TypeInv, TypeOK, Ticket, Statuses
  <1> QED
    BY <1>1, <1>2 DEF RouteTicket

LEMMA WithdrawType ==
    ASSUME NEW t \in Ticket, NEW at \in Nat
    PROVE  /\ Withdraw(t, at) \in Ticket
           /\ Withdraw(t, at).pausedAt = t.pausedAt /\ Withdraw(t, at).paused = t.paused
           /\ Withdraw(t, at).status = "REOPENED" /\ Withdraw(t, at).assignedTo = None
  BY DEF Withdraw, Ticket, Statuses

(* A move marks requests and changes nothing else of them.                   *)
LEMMA MovedRequests ==
    ASSUME TypeInv, NEW u \in Users, NEW to \in Moves, MoveUser(u, to), NEW r \in Requests
    PROVE  /\ req'[r] \in {Free} \cup StatusReq \cup AssignReq \cup EscalateReq \cup RowReq
           /\ req'[r].op = req[r].op
           /\ req[r].op \notin {"assign", "escalate"} => req'[r] = req[r]
           /\ req[r].op \in {"assign", "escalate"} =>
                 /\ req'[r].checked = req[r].checked /\ req'[r].target = req[r].target
                 /\ req'[r].seen = req[r].seen
                 /\ to.dept # post[u].dept /\ req[r].checked /\ req[r].target = u => req'[r].moved
                 /\ req[r].moved => req'[r].moved
           /\ req[r].op = "escalate" => req'[r].dept = req[r].dept
  <1>1. req[r] \in {Free} \cup StatusReq \cup AssignReq \cup EscalateReq \cup RowReq
    BY DEF TypeInv, TypeOK
  <1>2. \/ req'[r] = req[r] /\ ~(to.dept # post[u].dept /\ WasChecked(req[r]) /\ req[r].target = u)
        \/ req'[r] = [req[r] EXCEPT !.moved = TRUE] /\ req[r].op \in {"assign", "escalate"}
    BY DEF MoveUser, WasChecked
  <1>3. CASE req'[r] = req[r] /\ ~(to.dept # post[u].dept /\ WasChecked(req[r]) /\ req[r].target = u)
    BY <1>1, <1>3 DEF WasChecked
  <1>4. CASE req'[r] = [req[r] EXCEPT !.moved = TRUE] /\ req[r] \in AssignReq
    BY <1>4 DEF AssignReq
  <1>5. CASE req'[r] = [req[r] EXCEPT !.moved = TRUE] /\ req[r] \in EscalateReq
    BY <1>5 DEF EscalateReq
  <1> QED
    BY <1>2, <1>3, <1>4, <1>5, RequestShape DEF TypeInv

LEMMA MoveType ==
    ASSUME TypeInv, NEW u \in Users, NEW to \in Moves, MoveUser(u, to)
    PROVE  TypeInv'
  <1>1. req' \in [Requests -> {Free} \cup StatusReq \cup AssignReq \cup EscalateReq \cup RowReq]
    <2>1. DOMAIN req' = Requests /\ req' = [r \in Requests |-> req'[r]]
      BY DEF MoveUser
    <2> QED
      BY <2>1, MovedRequests
  <1>2. post' \in [Users -> Post] /\ strayed' \in BOOLEAN
    <2>1. to.role \in Roles /\ to.dept \in Depts
      OBVIOUS
    <2>2. post' = [post EXCEPT ![u] = [post[u] EXCEPT !.role = to.role, !.dept = to.dept]]
      BY DEF MoveUser, TypeInv, TypeOK
    <2>3. [post[u] EXCEPT !.role = to.role, !.dept = to.dept] \in Post
      <3>1. post[u] \in Post
        BY DEF TypeInv, TypeOK
      <3> QED
        BY <2>1, <3>1 DEF Post
    <2>4. strayed' \in BOOLEAN
      BY DEF MoveUser
    <2> QED
      BY <2>2, <2>3, <2>4 DEF TypeInv, TypeOK
  <1>3. /\ UNCHANGED <<ticket, now, job, cron, closer, told, agent, full, automatic>>
        /\ inputs' \in Nat
    BY DEF MoveUser, StaffChange, Input, TypeInv, TypeOK
  <1>4. ClockOrder'
    BY <1>3, MovedRequests DEF TypeInv, ClockOrder
  <1> QED
    BY <1>1, <1>2, <1>3, <1>4 DEF TypeInv, TypeOK

(* The other changes of the staff touch neither row nor requests.            *)
OtherStaffStep ==
    \/ \E u \in Users : ChangeAgent(u) \/ RefreshToken(u) \/ ChangeLoad(u)
    \/ \E d \in Depts : SwitchDepartment(d)

LEMMA OtherStaffFrame ==
    ASSUME OtherStaffStep
    PROVE  UNCHANGED <<ticket, now, req, job, cron, closer, told, strayed>>
  BY DEF OtherStaffStep, ChangeAgent, RefreshToken, ChangeLoad, SwitchDepartment, StaffChange

LEMMA OtherStaffType ==
    ASSUME TypeInv, OtherStaffStep
    PROVE  TypeInv'
  <1>1. agent' \in [Users -> Availabilities] /\ full' \in SUBSET Users
        /\ automatic' \in SUBSET Depts /\ inputs' \in Nat
    BY DEF OtherStaffStep, ChangeAgent, RefreshToken, ChangeLoad, SwitchDepartment, StaffChange,
           Input, TypeInv, TypeOK
  <1>2. post' \in [Users -> Post]
    <2>1. CASE \E u \in Users : RefreshToken(u)
      <3>1. PICK u \in Users : RefreshToken(u)
        BY <2>1
      <3>2. post' = [post EXCEPT ![u] = [post[u] EXCEPT !.token = post[u].role]]
        BY <3>1 DEF RefreshToken, TypeInv, TypeOK
      <3>3. [post[u] EXCEPT !.token = post[u].role] \in Post
        BY DEF Post, TypeInv, TypeOK
      <3> QED
        BY <3>2, <3>3 DEF TypeInv, TypeOK
    <2> QED
      BY <2>1 DEF OtherStaffStep, ChangeAgent, ChangeLoad, SwitchDepartment, TypeInv, TypeOK
  <1> QED
    BY <1>1, <1>2, OtherStaffFrame DEF TypeInv, TypeOK, ClockOrder

LEMMA StaffCases == StaffStep => OtherStaffStep \/ \E u \in Users, to \in Moves : MoveUser(u, to)
  BY DEF StaffStep, OtherStaffStep

LEMMA JobsType ==
    ASSUME TypeInv, Jobs
    PROVE  TypeInv'
  <1> USE DEF TypeInv
  <1>0. /\ ticket \in Ticket /\ agent \in [Users -> Availabilities] /\ now \in Nat
        /\ job \in BOOLEAN /\ cron \in CronState /\ closer \in CloserState
        /\ told \in PublicEvents \cup {None} /\ inputs \in Nat /\ strayed \in BOOLEAN
    BY DEF TypeOK
  <1>1. CASE WorkerRoute
    BY <1>0, <1>1, RouteType, JobWriteType DEF staff, WorkerRoute
  <1>2. CASE CronStart
    <2>1. agent' \in [Users -> Availabilities]
      BY <1>0, <1>2 DEF CronStart, Availabilities
    <2>2. cron' = [pc |-> "tickets", at |-> now, agents |-> agent']
      BY <1>2 DEF CronStart
    <2>3. cron' \in CronState
      BY <1>0, <2>1, <2>2 DEF CronState
    <2> QED
      BY <1>0, <1>2, <2>1, <2>3, JobWriteType DEF staff, CronStart, CronVars
  <1>3. CASE CronTickets
    <2>1. cron.at \in Nat
      BY <1>3, CronShape DEF CronTickets
    <2>2. \/ cron' = [pc |-> "deassign", at |-> cron.at, seen |-> ticket]
          \/ cron' = [pc |-> "stale", at |-> cron.at]
      BY <1>3 DEF CronTickets
    <2>3. cron' \in CronState
      BY <1>0, <2>1, <2>2 DEF CronState
    <2> QED
      BY <1>0, <1>3, <2>3, JobWriteType DEF staff, CronTickets, CronVars
  <1>4. CASE CronDeassign
    <2>1. cron.at \in Nat
      BY <1>4, CronShape DEF CronDeassign
    <2>2. cron' \in CronState
      BY <1>4, <2>1 DEF CronDeassign, CronState
    <2>3. job' \in BOOLEAN
      BY <1>0, <1>4 DEF CronDeassign
    <2> QED
      BY <1>0, <1>4, <2>1, <2>2, <2>3, WithdrawType, JobWriteType DEF staff, CronDeassign, CronVars
  <1>5. CASE CronStale
    <2>1. cron.at \in Nat
      BY <1>5, CronShape DEF CronStale
    <2>2. \/ cron' = [pc |-> "escalate", at |-> cron.at, seen |-> ticket]
          \/ cron' = [pc |-> "route", at |-> cron.at]
      BY <1>5 DEF CronStale
    <2>3. cron' \in CronState
      BY <1>0, <2>1, <2>2 DEF CronState
    <2> QED
      BY <1>0, <1>5, <2>3, JobWriteType DEF staff, CronStale, CronVars
  <1>6. CASE CronEscalate
    <2>1. cron.at \in Nat
      BY <1>6, CronShape DEF CronEscalate
    <2>2. cron' \in CronState
      BY <1>6, <2>1 DEF CronEscalate, CronState
    <2> QED
      BY <1>0, <1>6, <2>1, <2>2, WithdrawType, JobWriteType DEF staff, CronEscalate, CronVars
  <1>7. CASE CronRoute
    <2>1. cron' \in CronState
      BY <1>7 DEF CronRoute, CronState
    <2> QED
      BY <1>0, <1>7, <2>1, RouteType, JobWriteType DEF staff, CronRoute, CronVars
  <1>11. CASE CronFail
    <2>1. cron' \in CronState /\ inputs' \in Nat
      BY <1>0, <1>11 DEF CronFail, CronState, Input
    <2> QED
      BY <1>0, <1>11, <2>1, JobWriteType DEF CronFail, CronVars, staff
  <1>8. CASE AutoCloseScan
    <2>1. closer' \in CloserState
      BY <1>0, <1>8 DEF AutoCloseScan, CloserState
    <2> QED
      BY <1>0, <1>8, <2>1, JobWriteType DEF staff, AutoCloseScan
  <1>9. CASE AutoClose
    <2>1. closer' \in CloserState
      BY <1>9 DEF AutoClose, CloserState
    <2>2. /\ ticket' \in Ticket
          /\ ticket'.pausedAt = ticket.pausedAt /\ ticket'.paused = ticket.paused
      BY <1>0, <1>9 DEF AutoClose, Ticket, Date, Statuses, Finished
    <2> QED
      BY <1>0, <1>9, <2>1, <2>2, JobWriteType DEF staff, AutoClose
  <1>10. CASE ClaimBreachAlert
    <2>1. /\ ticket' \in Ticket
          /\ ticket'.pausedAt = ticket.pausedAt /\ ticket'.paused = ticket.paused
      BY <1>0, <1>10 DEF ClaimBreachAlert, Ticket, Date
    <2> QED
      BY <1>0, <1>10, <2>1, JobWriteType DEF staff, ClaimBreachAlert
  <1> QED
    BY <1>1, <1>2, <1>3, <1>4, <1>5, <1>6, <1>7, <1>8, <1>9, <1>10, <1>11 DEF Jobs, Sweep

LEMMA EnvironmentType ==
    ASSUME TypeInv, Environment
    PROVE  TypeInv'
  <1>1. CASE PublicReply
    <2>1. /\ ticket' \in Ticket
          /\ ticket'.pausedAt = ticket.pausedAt /\ ticket'.paused = ticket.paused
      BY <1>1 DEF PublicReply, TypeInv, TypeOK, Ticket, Date
    <2>2. inputs' \in Nat
      BY <1>1 DEF PublicReply, Input, TypeInv, TypeOK
    <2> QED
      BY <1>1, <2>1, <2>2 DEF PublicReply, TypeInv, TypeOK, ClockOrder, staff
  <1>2. CASE Tick
    <2>1. TypeOK'
      BY <1>2 DEF Tick, TypeInv, TypeOK, staff
    <2>2. ticket.pausedAt # None => ticket.pausedAt \in Nat /\ ticket.pausedAt <= now
      BY DEF TypeInv, TypeOK, ClockOrder, Ticket, Date
    <2>3. \A r \in Requests : req[r].op = "status" => req[r].at \in Nat /\ req[r].at <= now
      BY RequestShape DEF TypeInv, ClockOrder, StatusReq
    <2>4. now \in Nat /\ now' = now + 1 /\ UNCHANGED <<ticket, req>>
      BY <1>2 DEF Tick, TypeInv, TypeOK
    <2>5. ticket.pausedAt # None => ticket.pausedAt <= now'
      BY <2>2, <2>4
    <2>6. \A r \in Requests : req[r].op = "status" => req[r].at <= now'
      BY <2>3, <2>4
    <2>7. ClockOrder'
      BY <2>4, <2>5, <2>6 DEF TypeInv, ClockOrder
    <2> QED
      BY <2>1, <2>7 DEF TypeInv
  <1>3. CASE StaffStep
    BY <1>3, StaffCases, OtherStaffType, MoveType
  <1> QED
    BY <1>1, <1>2, <1>3 DEF Environment

LEMMA TypeStep == TypeInv /\ [Next]_vars => TypeInv'
  <1> SUFFICES ASSUME TypeInv, [Next]_vars PROVE TypeInv'
    OBVIOUS
  <1>1. CASE UNCHANGED vars
    BY <1>1 DEF vars, staff, TypeInv, TypeOK, ClockOrder
  <1> QED
    BY <1>1, RequestReadType, RequestStepType, JobsType, EnvironmentType DEF Next

(* Type correctness: in particular no resume ever writes a negative pause,   *)
(* nor one that the integer column cannot hold.                              *)
THEOREM TypeCorrect == Spec => []TypeOK
  <1>1. TypeInv => TypeOK
    BY DEF TypeInv
  <1> QED
    BY <1>1, TypeInit, TypeStep, PTL DEF Spec

THEOREM TypeInvariant == Spec => []TypeInv
  BY TypeInit, TypeStep, PTL DEF Spec

-----------------------------------------------------------------------------
(* AssignedHasAssignee is inductive once the types are known: a write of     *)
(* ASSIGNED names an agent, and a write of NULL writes REOPENED.             *)
LEMMA AssignedStep ==
    ASSUME TypeInv, AssignedHasAssignee, [Next]_vars
    PROVE  AssignedHasAssignee'
  <1> USE DEF AssignedHasAssignee
  <1>t. ticket \in Ticket
    BY DEF TypeInv, TypeOK
  <1>1. CASE UNCHANGED ticket
    BY <1>1
  <1>2. ASSUME NEW r \in Requests, ChangeStatusCommit(r)
        PROVE  AssignedHasAssignee'
    <2>1. req[r].to \in EndpointTargets
      BY <1>2, RequestShape DEF ChangeStatusCommit, StatusReq, TypeInv
    <2>2. ticket'.status = req[r].to
      BY <1>2, <1>t DEF ChangeStatusCommit, WithStatus, Ticket
    <2> QED
      BY <2>1, <2>2 DEF EndpointTargets, Pending
  <1>3. ASSUME NEW r \in Requests, AssignUpdate(r)
        PROVE  AssignedHasAssignee'
    <2>1. req[r].target \in Users
      BY <1>3, RequestShape DEF AssignUpdate, AssignReq, TypeInv
    <2>2. ticket'.assignedTo = req[r].target
      BY <1>3, <1>t DEF AssignUpdate, Ticket
    <2> QED
      BY <2>1, <2>2
  <1>4. ASSUME NEW r \in Requests, EscalateUpdate(r)
        PROVE  AssignedHasAssignee'
    <2>1. req[r].target \in Users
      BY <1>4, RequestShape DEF EscalateUpdate, EscalateReq, TypeInv
    <2>2. ticket'.assignedTo = req[r].target
      BY <1>4, <1>t DEF EscalateUpdate, Ticket
    <2> QED
      BY <2>1, <2>2
  <1>5. ASSUME NEW r \in Requests, UpdateWrite(r) \/ SoftDeleteWrite(r)
        PROVE  AssignedHasAssignee'
    BY <1>5, <1>t DEF UpdateWrite, SoftDeleteWrite, Ticket
  <1>6. CASE CronDeassign
    <2>1. cron.at \in Nat
      BY <1>6, CronShape DEF CronDeassign, TypeInv
    <2> QED
      BY <1>6, <1>t, <2>1, WithdrawType DEF CronDeassign
  <1>7. CASE CronEscalate
    <2>1. cron.at \in Nat
      BY <1>7, CronShape DEF CronEscalate, TypeInv
    <2> QED
      BY <1>7, <1>t, <2>1, WithdrawType DEF CronEscalate
  <1>8. ASSUME NEW a \in Users, RouteTo(a)
        PROVE  AssignedHasAssignee'
    BY <1>8, <1>t DEF RouteTo, Ticket
  <1>9. CASE AutoClose
    BY <1>9, <1>t DEF AutoClose, Ticket
  <1>10. CASE ClaimBreachAlert \/ PublicReply
    BY <1>10, <1>t DEF ClaimBreachAlert, PublicReply, Ticket
  <1>11. CASE RequestRead
    BY <1>1, <1>11 DEF RequestRead, ChangeStatusRead, AssignRead, EscalateRead, UpdateRead,
                       SoftDeleteRead, Arrive
  <1>12. CASE RequestStep
    BY <1>1, <1>2, <1>3, <1>4, <1>5, <1>12
       DEF RequestStep, AssertEligible, ChangeStatusFail
  <1>13. CASE Jobs
    BY <1>1, <1>6, <1>7, <1>8, <1>9, <1>10, <1>13
       DEF Jobs, Sweep, WorkerRoute, CronStart, CronTickets, CronStale, CronRoute, CronFail,
           RouteTicket, Candidates, AutoCloseScan
  <1>14. CASE Environment
    BY <1>1, <1>10, <1>14, StaffCases, OtherStaffFrame DEF Environment, Tick, MoveUser, StaffChange
  <1>15. CASE UNCHANGED vars
    BY <1>1, <1>15 DEF vars
  <1> QED
    BY <1>11, <1>12, <1>13, <1>14, <1>15 DEF Next

(* A ticket in status ASSIGNED has an assignee, under every interleaving of  *)
(* handlers, sweep and routing.                                              *)
THEOREM AssignedAlwaysHasAssignee == Spec => []AssignedHasAssignee
  <1>1. Init => AssignedHasAssignee
    BY DEF Init, NewTicket, AssignedHasAssignee
  <1> QED
    BY <1>1, TypeInvariant, AssignedStep, PTL DEF Spec

-----------------------------------------------------------------------------
(* AssigneeInTeam: what an agent was checked for still holds when the write  *)
(* comes, unless he was moved.                                               *)
TeamInv ==
    /\ AssigneeInTeam
    /\ \A r \in Requests :
          /\ req[r].op = "assign" /\ req[r].checked /\ ~req[r].moved
             => post[req[r].target].dept = req[r].seen.team
          /\ req[r].op = "escalate" /\ req[r].checked /\ ~req[r].moved
             => post[req[r].target].dept = req[r].dept

(* The steps that write neither assignee nor team nor post.                  *)
LEMMA SeatUntouched ==
    ASSUME TeamInv, UNCHANGED <<req, post, strayed>>,
           ticket'.assignedTo = ticket.assignedTo, ticket'.team = ticket.team
    PROVE  TeamInv'
  BY DEF TeamInv, AssigneeInTeam

LEMMA SeatEmptied ==
    ASSUME TeamInv, UNCHANGED <<req, post>>, ticket'.assignedTo = None
    PROVE  TeamInv'
  BY DEF TeamInv, AssigneeInTeam

(* A slot gives its request back, or takes one that is not checked yet.      *)
LEMMA SlotChanged ==
    ASSUME TypeInv, TeamInv, NEW r \in Requests, NEW q, req' = [req EXCEPT ![r] = q],
           q.op \in {"assign", "escalate"} => ~q.checked,
           UNCHANGED post, AssigneeInTeam'
    PROVE  TeamInv'
  BY DEF TeamInv, TypeInv, TypeOK

LEMMA TeamRequestStep ==
    ASSUME TypeInv, TeamInv, RequestStep
    PROVE  TeamInv'
  <1>t. /\ ticket \in Ticket
        /\ req \in [Requests -> {Free} \cup StatusReq \cup AssignReq \cup EscalateReq \cup RowReq]
    BY DEF TypeInv, TypeOK
  <1>0. PICK r \in Requests :
           \/ AssertEligible(r)
           \/ ChangeStatusCommit(r) \/ ChangeStatusFail(r)
           \/ AssignUpdate(r) \/ EscalateUpdate(r)
           \/ UpdateWrite(r) \/ SoftDeleteWrite(r)
    BY DEF RequestStep
  <1>1. CASE AssertEligible(r)
    <2>1. UNCHANGED <<ticket, post, strayed>>
      BY <1>1 DEF AssertEligible, staff
    <2>2. AssigneeInTeam'
      BY <2>1 DEF TeamInv, AssigneeInTeam
    <2>3. req[r] \in AssignReq \cup EscalateReq
      BY <1>1, RequestShape DEF AssertEligible, TypeInv
    <2>4. CASE req' = [req EXCEPT ![r] = Free]
      BY <2>1, <2>2, <2>4, SlotChanged DEF Free
    <2>5. CASE req' # [req EXCEPT ![r] = Free]
      <3>1. /\ req' = [req EXCEPT ![r] = [req[r] EXCEPT !.checked = TRUE]]
            /\ Eligible(req[r].target, IF req[r].op = "assign" THEN req[r].seen.team
                                       ELSE req[r].dept)
        BY <1>1, <2>5 DEF AssertEligible
      <3>2. \A s \in Requests \ {r} : req'[s] = req[s]
        BY <1>t, <3>1
      <3>3. CASE req[r] \in AssignReq
        <4>1. req'[r].op = "assign" /\ req'[r].target = req[r].target /\ req'[r].seen = req[r].seen
          BY <1>t, <3>1, <3>3 DEF AssignReq
        <4>2. post[req[r].target].dept = req[r].seen.team
          BY <3>1, <3>3 DEF Eligible, AssignReq
        <4> QED
          BY <2>1, <2>2, <3>2, <4>1, <4>2 DEF TeamInv
      <3>4. CASE req[r] \in EscalateReq
        <4>1. req'[r].op = "escalate" /\ req'[r].target = req[r].target /\ req'[r].dept = req[r].dept
          BY <1>t, <3>1, <3>4 DEF EscalateReq
        <4>2. post[req[r].target].dept = req[r].dept
          BY <3>1, <3>4 DEF Eligible, EscalateReq
        <4> QED
          BY <2>1, <2>2, <3>2, <4>1, <4>2 DEF TeamInv
      <3> QED
        BY <2>3, <3>3, <3>4
    <2> QED
      BY <2>4, <2>5
  <1>2. ASSUME Finish(r), AssigneeInTeam'
        PROVE  TeamInv'
    BY <1>2, SlotChanged DEF Finish, Free, staff
  <1>3. CASE ChangeStatusCommit(r)
    <2>1. /\ ticket'.assignedTo = ticket.assignedTo /\ ticket'.team = ticket.team
          /\ strayed' = strayed /\ post' = post
      BY <1>t, <1>3 DEF ChangeStatusCommit, WithStatus, Ticket, Finish, staff
    <2> QED
      BY <1>2, <1>3, <2>1 DEF ChangeStatusCommit, TeamInv, AssigneeInTeam
  <1>4. CASE ChangeStatusFail(r) \/ UpdateWrite(r) \/ SoftDeleteWrite(r)
    <2>1. /\ ticket'.assignedTo = ticket.assignedTo /\ ticket'.team = ticket.team
          /\ strayed' = strayed /\ post' = post /\ Finish(r)
      BY <1>t, <1>4 DEF ChangeStatusFail, UpdateWrite, SoftDeleteWrite, Ticket, Finish, staff
    <2> QED
      BY <1>2, <2>1 DEF TeamInv, AssigneeInTeam
  <1>5. CASE AssignUpdate(r)
    <2>1. req[r] \in AssignReq
      BY <1>5, RequestShape DEF AssignUpdate, TypeInv
    <2>2. /\ ticket'.assignedTo = req[r].target /\ ticket'.team = ticket.team
          /\ ~strayed' => ~req[r].moved /\ ticket.team = req[r].seen.team
          /\ req[r].checked /\ req[r].op = "assign" /\ post' = post /\ Finish(r)
      BY <1>t, <1>5 DEF AssignUpdate, Ticket, Finish, staff
    <2> QED
      BY <1>2, <2>2 DEF TeamInv, AssigneeInTeam
  <1>6. CASE EscalateUpdate(r)
    <2>1. req[r] \in EscalateReq
      BY <1>6, RequestShape DEF EscalateUpdate, TypeInv
    <2>2. /\ ticket'.assignedTo = req[r].target /\ ticket'.team = req[r].dept
          /\ ~strayed' => ~req[r].moved
          /\ req[r].checked /\ req[r].op = "escalate" /\ post' = post /\ Finish(r)
      BY <1>t, <1>6 DEF EscalateUpdate, Ticket, Finish, staff
    <2> QED
      BY <1>2, <2>2 DEF TeamInv, AssigneeInTeam
  <1> QED
    BY <1>0, <1>1, <1>3, <1>4, <1>5, <1>6

LEMMA TeamRouteStep ==
    ASSUME TypeInv, TeamInv, RouteTicket, UNCHANGED <<req, post>>
    PROVE  TeamInv'
  <1>1. CASE UNCHANGED <<ticket, strayed>>
    BY <1>1, SeatUntouched
  <1>2. CASE \E a \in Candidates : RouteTo(a)
    <2>1. PICK a \in Candidates : RouteTo(a)
      BY <1>2
    <2>2. post[a].dept = ticket.team
      BY DEF Candidates, Eligible
    <2>3. ticket'.assignedTo = a /\ ticket'.team = ticket.team
      BY <2>1 DEF RouteTo, TypeInv, TypeOK, Ticket
    <2> QED
      BY <2>2, <2>3 DEF TeamInv, AssigneeInTeam
  <1> QED
    BY <1>1, <1>2 DEF RouteTicket

LEMMA TeamMoveStep ==
    ASSUME TypeInv, TeamInv, NEW u \in Users, NEW to \in Moves, MoveUser(u, to)
    PROVE  TeamInv'
  <1>1. /\ \A v \in Users : post'[v].dept = IF v = u THEN to.dept ELSE post[v].dept
        /\ ticket' = ticket /\ ticket \in Ticket
        /\ strayed' <=> (strayed \/ (to.dept # post[u].dept /\ ticket.assignedTo = u))
    <2>1. \A v \in Users : post[v] \in Post
      BY DEF TypeInv, TypeOK
    <2>2. post' = [post EXCEPT ![u] = [post[u] EXCEPT !.role = to.role, !.dept = to.dept]]
      BY DEF MoveUser, TypeInv, TypeOK
    <2>3. [post[u] EXCEPT !.role = to.role, !.dept = to.dept].dept = to.dept
      BY <2>1 DEF Post
    <2>4. \A v \in Users : post'[v].dept = IF v = u THEN to.dept ELSE post[v].dept
      BY <2>2, <2>3 DEF TypeInv, TypeOK
    <2> QED
      BY <2>4 DEF MoveUser, StaffChange, TypeInv, TypeOK
  <1>2. AssigneeInTeam'
    BY <1>1 DEF TeamInv, AssigneeInTeam, Ticket
  <1>3. ASSUME NEW r \in Requests, req'[r].op = "assign", req'[r].checked, ~req'[r].moved
        PROVE  post'[req'[r].target].dept = req'[r].seen.team
    <2>1. req[r] \in AssignReq
      BY <1>3, MovedRequests, RequestShape DEF TypeInv
    <2>2. req[r].target \in Users
      BY <2>1 DEF AssignReq
    <2> QED
      BY <1>1, <1>3, <2>1, <2>2, MovedRequests DEF TeamInv, AssignReq
  <1>4. ASSUME NEW r \in Requests, req'[r].op = "escalate", req'[r].checked, ~req'[r].moved
        PROVE  post'[req'[r].target].dept = req'[r].dept
    <2>1. req[r] \in EscalateReq
      BY <1>4, MovedRequests, RequestShape DEF TypeInv
    <2>2. req[r].target \in Users
      BY <2>1 DEF EscalateReq
    <2> QED
      BY <1>1, <1>4, <2>1, <2>2, MovedRequests DEF TeamInv, EscalateReq
  <1> QED
    BY <1>2, <1>3, <1>4 DEF TeamInv

LEMMA TeamOtherStaffStep ==
    ASSUME TypeInv, TeamInv, OtherStaffStep
    PROVE  TeamInv'
  <1>1. \A u \in Users : post'[u].dept = post[u].dept
    <2>1. CASE \E u \in Users : RefreshToken(u)
      <3>1. PICK u \in Users : RefreshToken(u)
        BY <2>1
      <3>2. post' = [post EXCEPT ![u] = [post[u] EXCEPT !.token = post[u].role]]
        BY <3>1 DEF RefreshToken, TypeInv, TypeOK
      <3>3. post[u] \in Post
        BY DEF TypeInv, TypeOK
      <3>4. [post[u] EXCEPT !.token = post[u].role].dept = post[u].dept
        BY <3>3 DEF Post
      <3> QED
        BY <3>2, <3>4 DEF TypeInv, TypeOK
    <2> QED
      BY <2>1 DEF OtherStaffStep, ChangeAgent, ChangeLoad, SwitchDepartment
  <1>2. UNCHANGED <<ticket, req, strayed>>
    BY OtherStaffFrame
  <1>3. ticket.assignedTo \in Users \cup {None}
    BY DEF TypeInv, TypeOK, Ticket
  <1>4. \A r \in Requests : req[r].op \in {"assign", "escalate"} => req[r].target \in Users
    BY RequestShape DEF TypeInv, AssignReq, EscalateReq
  <1> QED
    BY <1>1, <1>2, <1>3, <1>4 DEF TeamInv, AssigneeInTeam

LEMMA TeamStep ==
    ASSUME TypeInv, TeamInv, [Next]_vars
    PROVE  TeamInv'
  <1>t. ticket \in Ticket
    BY DEF TypeInv, TypeOK
  <1>1. CASE RequestRead
    <2>1. PICK r \in Requests, u \in Users :
             \/ \E to \in Targets : ChangeStatusRead(r, u, to)
             \/ \E target \in Users : AssignRead(r, u, target)
             \/ \E target \in Users, dept \in Depts : EscalateRead(r, u, target, dept)
             \/ UpdateRead(r, u)
             \/ SoftDeleteRead(r, u)
      BY <1>1 DEF RequestRead
    <2>2. UNCHANGED <<ticket, post, strayed>>
      BY <2>1 DEF ChangeStatusRead, AssignRead, EscalateRead, UpdateRead, SoftDeleteRead,
                  Arrive, staff
    <2>3. AssigneeInTeam'
      BY <2>2 DEF TeamInv, AssigneeInTeam
    <2>4. ASSUME NEW q, req' = [req EXCEPT ![r] = q],
                 q.op \in {"assign", "escalate"} => ~q.checked
          PROVE  TeamInv'
      BY <2>2, <2>3, <2>4, SlotChanged
    <2>5. ASSUME NEW to \in Targets, ChangeStatusRead(r, u, to)
          PROVE  TeamInv'
      BY <2>4, <2>5 DEF ChangeStatusRead
    <2>6. ASSUME NEW target \in Users, AssignRead(r, u, target)
          PROVE  TeamInv'
      BY <2>4, <2>6 DEF AssignRead
    <2>7. ASSUME NEW target \in Users, NEW dept \in Depts, EscalateRead(r, u, target, dept)
          PROVE  TeamInv'
      BY <2>4, <2>7 DEF EscalateRead
    <2>8. CASE UpdateRead(r, u) \/ SoftDeleteRead(r, u)
      BY <2>4, <2>8 DEF UpdateRead, SoftDeleteRead
    <2> QED
      BY <2>1, <2>5, <2>6, <2>7, <2>8
  <1>2. CASE WorkerRoute \/ CronRoute
    BY <1>2, TeamRouteStep DEF WorkerRoute, CronRoute, CronVars, staff
  <1>3. CASE CronStart \/ CronTickets \/ CronStale \/ CronFail \/ AutoCloseScan
    BY <1>3, SeatUntouched DEF CronStart, CronTickets, CronStale, CronFail, AutoCloseScan,
                               CronVars, staff
  <1>4. CASE CronDeassign \/ CronEscalate
    <2>1. cron.at \in Nat
      BY <1>4, CronShape DEF CronDeassign, CronEscalate, TypeInv
    <2>3. ticket' = Withdraw(ticket, cron.at)
      BY <1>4 DEF CronDeassign, CronEscalate
    <2>2. ticket'.assignedTo = None
      BY <1>t, <2>1, <2>3, WithdrawType
    <2> QED
      BY <1>4, <2>2, SeatEmptied DEF CronDeassign, CronEscalate, CronVars, staff
  <1>5. CASE AutoClose \/ ClaimBreachAlert \/ PublicReply \/ Tick
    <2>1. ticket'.assignedTo = ticket.assignedTo /\ ticket'.team = ticket.team
      BY <1>5, <1>t DEF AutoClose, ClaimBreachAlert, PublicReply, Tick, Ticket
    <2> QED
      BY <1>5, <2>1, SeatUntouched DEF AutoClose, ClaimBreachAlert, PublicReply, Tick, staff
  <1>6. CASE StaffStep
    BY <1>6, StaffCases, TeamMoveStep, TeamOtherStaffStep
  <1>7. CASE UNCHANGED vars
    BY <1>7, SeatUntouched DEF vars, staff
  <1> QED
    BY <1>1, <1>2, <1>3, <1>4, <1>5, <1>6, <1>7, TeamRequestStep
       DEF Next, Jobs, Sweep, Environment

(* In every schedule the assignee is a member of the team of the ticket,     *)
(* unless an administrator moved him or an escalation overtook an assign.    *)
THEOREM AssigneeStaysInTeam == Spec => []AssigneeInTeam
  <1>1. Init => TeamInv
    BY DEF Init, NewTicket, TeamInv, AssigneeInTeam, Free
  <1>2. TeamInv => AssigneeInTeam
    BY DEF TeamInv
  <1> QED
    BY <1>1, <1>2, TypeInvariant, TeamStep, PTL DEF Spec

-----------------------------------------------------------------------------
(* What the guarded writers rely on: the transition checked at the read, and *)
(* a cutoff that only grows older.                                           *)
Checked ==
    /\ \A r \in Requests : req[r].op = "status" => CanTransition(req[r].seen.status, req[r].to)
    /\ closer.pc = "close" => closer.cutoff \in Int /\ closer.cutoff <= now - Quiet

LEMMA CheckedStep ==
    ASSUME TypeInv, Checked, [Next]_vars
    PROVE  Checked'
  <1> USE DEF Checked
  <1>t. now \in Nat /\ Quiet \in Nat /\ req \in [Requests -> {Free} \cup StatusReq \cup AssignReq \cup EscalateReq \cup RowReq]
    BY DEF TypeInv, TypeOK
  <1>1. ASSUME NEW r \in Requests, NEW u \in Users, NEW to \in Targets,
               ChangeStatusRead(r, u, to)
        PROVE  Checked'
    BY <1>1, <1>t DEF ChangeStatusRead, Arrive
  <1>2. ASSUME NEW r \in Requests, NEW q, q.op # "status", req' = [req EXCEPT ![r] = q],
               UNCHANGED <<now, closer>>
        PROVE  Checked'
    BY <1>2, <1>t
  <1>3. CASE RequestRead
    BY <1>1, <1>2, <1>3 DEF RequestRead, AssignRead, EscalateRead, UpdateRead, SoftDeleteRead, Arrive
  <1>4. CASE RequestStep
    <2>1. PICK r \in Requests : \/ AssertEligible(r)
                                \/ ChangeStatusCommit(r) \/ ChangeStatusFail(r)
                                \/ AssignUpdate(r) \/ EscalateUpdate(r)
                                \/ UpdateWrite(r) \/ SoftDeleteWrite(r)
      BY <1>4 DEF RequestStep
    <2>2. CASE AssertEligible(r)
      <3>1. req[r] \in AssignReq \cup EscalateReq
        BY <2>2, RequestShape DEF AssertEligible, TypeInv
      <3>2. [req[r] EXCEPT !.checked = TRUE] \in AssignReq \cup EscalateReq
        BY <3>1 DEF AssignReq, EscalateReq
      <3>3. [req[r] EXCEPT !.checked = TRUE].op # "status"
        BY <3>2 DEF AssignReq, EscalateReq
      <3>4. Free.op # "status"
        BY DEF Free
      <3> QED
        BY <1>2, <2>2, <3>3, <3>4 DEF AssertEligible
    <2>3. CASE Finish(r)
      BY <1>2, <2>3 DEF Finish, Free
    <2> QED
      BY <2>1, <2>2, <2>3 DEF ChangeStatusCommit, ChangeStatusFail, AssignUpdate,
                              EscalateUpdate, UpdateWrite, SoftDeleteWrite
  <1>5. CASE UNCHANGED <<req, closer>> /\ now' \in Nat /\ now' >= now
    BY <1>5, <1>t
  <1>6. CASE Jobs
    <2>1. CASE WorkerRoute \/ Sweep \/ ClaimBreachAlert
      BY <1>5, <1>t, <2>1 DEF WorkerRoute, Sweep, CronStart, CronTickets, CronDeassign, CronStale,
                        CronEscalate, CronRoute, CronFail, CronVars, ClaimBreachAlert
    <2>2. CASE AutoCloseScan
      BY <1>t, <2>2 DEF AutoCloseScan
    <2>3. CASE AutoClose
      BY <1>t, <2>3 DEF AutoClose, CloserIdle
    <2> QED
      BY <1>6, <2>1, <2>2, <2>3 DEF Jobs
  <1>7. CASE Environment
    <2>1. CASE PublicReply \/ Tick \/ OtherStaffStep
      BY <1>5, <2>1, <1>t, OtherStaffFrame DEF PublicReply, Tick
    <2>2. ASSUME NEW u \in Users, NEW to \in Moves, MoveUser(u, to)
          PROVE  Checked'
      BY <1>t, <2>2, MovedRequests DEF MoveUser, StaffChange
    <2> QED
      BY <1>7, <2>1, <2>2, StaffCases DEF Environment
  <1>8. CASE UNCHANGED vars
    BY <1>5, <1>8, <1>t DEF vars
  <1> QED
    BY <1>3, <1>4, <1>6, <1>7, <1>8 DEF Next

LEMMA CheckedInvariant == Spec => []Checked
  <1>1. Init => Checked
    BY DEF Init, Checked, Free, CloserIdle
  <1> QED
    BY <1>1, TypeInvariant, CheckedStep, PTL DEF Spec

LEMMA CommitStep ==
    ASSUME TypeInv, Checked, [Next]_vars
    PROVE  CommitFollowsMap
  <1> SUFFICES ASSUME NEW r \in Requests, req[r].op = "status", ticket' # ticket, req'[r] = Free
               PROVE  CanTransition(ticket.status, ticket'.status) /\ ticket'.status = req[r].to
    BY DEF CommitFollowsMap
  <1>t. ticket \in Ticket /\ req \in [Requests -> {Free} \cup StatusReq \cup AssignReq \cup EscalateReq \cup RowReq]
    BY DEF TypeInv, TypeOK
  <1>1. Free.op = "free"
    BY DEF Free
  <1>2. RequestStep
    <2>1. req' # req
      BY <1>1
    <2>2. ~RequestRead
      BY DEF RequestRead, ChangeStatusRead, AssignRead, EscalateRead, UpdateRead,
             SoftDeleteRead, Arrive
    <2>3. ~Jobs
      BY <2>1 DEF Jobs, WorkerRoute, Sweep, CronStart, CronTickets, CronDeassign, CronStale,
                  CronEscalate, CronRoute, CronFail, CronVars, AutoCloseScan, AutoClose,
                  ClaimBreachAlert
    <2>4. ~Environment
      BY <2>1, StaffCases, OtherStaffFrame DEF Environment, PublicReply, Tick, MoveUser, StaffChange
    <2> QED
      BY <2>1, <2>2, <2>3, <2>4 DEF Next, vars
  <1>3. PICK s \in Requests : \/ AssertEligible(s)
                              \/ ChangeStatusCommit(s) \/ ChangeStatusFail(s)
                              \/ AssignUpdate(s) \/ EscalateUpdate(s)
                              \/ UpdateWrite(s) \/ SoftDeleteWrite(s)
    BY <1>2 DEF RequestStep
  <1>4. Finish(s)
    BY <1>3 DEF AssertEligible, ChangeStatusCommit, ChangeStatusFail, AssignUpdate,
                EscalateUpdate, UpdateWrite, SoftDeleteWrite
  <1>5. s = r
    BY <1>1, <1>4, <1>t DEF Finish
  <1>6. ChangeStatusCommit(r)
    BY <1>3, <1>5 DEF AssertEligible, ChangeStatusFail, AssignUpdate, EscalateUpdate,
                      UpdateWrite, SoftDeleteWrite
  <1>7. ticket'.status = req[r].to
    BY <1>6, <1>t DEF ChangeStatusCommit, WithStatus, Ticket
  <1> QED
    BY <1>6, <1>7 DEF ChangeStatusCommit, Checked

(* What changeStatus commits follows the status map from the status the row  *)
(* really has: the compare-and-set makes the check at the read sufficient.   *)
THEOREM CommitsFollowMap == Spec => CommitKeepsStateMachine
  BY TypeInvariant, CheckedInvariant, CommitStep, PTL DEF Spec, CommitKeepsStateMachine

LEMMA AutoCloseStep ==
    ASSUME TypeInv, Checked, [Next]_vars
    PROVE  ClosedAfterQuiet
  <1> SUFFICES ASSUME closer.pc = "close", closer' = CloserIdle, ticket' # ticket
               PROVE  ticket.status = "RESOLVED" /\ ~ticket.deleted
                      /\ ticket.resolvedAt + Quiet < now
    BY DEF ClosedAfterQuiet
  <1>1. closer' # closer
    BY DEF CloserIdle
  <1>2. AutoClose
    BY <1>1 DEF Next, vars, RequestRead, ChangeStatusRead, AssignRead, EscalateRead, UpdateRead,
                SoftDeleteRead, Arrive, RequestStep, AssertEligible, ChangeStatusCommit,
                ChangeStatusFail, AssignUpdate, EscalateUpdate, UpdateWrite, SoftDeleteWrite,
                Finish, Jobs, WorkerRoute, Sweep, CronStart, CronTickets, CronDeassign, CronStale,
                CronEscalate, CronRoute, CronFail, CronVars, AutoCloseScan, ClaimBreachAlert,
                Environment, PublicReply, Tick, StaffStep, ChangeAgent, MoveUser, RefreshToken,
                ChangeLoad, SwitchDepartment, StaffChange
  <1>3. Closable(closer.cutoff)
    BY <1>2 DEF AutoClose
  <1>4. ticket.resolvedAt \in Nat /\ now \in Nat
    BY <1>3 DEF Closable, TypeInv, TypeOK, Ticket, Date
  <1> QED
    BY <1>3, <1>4 DEF Closable, Checked

(* The auto-close never closes a ticket that is not, at that moment, resolved *)
(* for longer than the quiet delay.                                           *)
THEOREM AutoCloseIsQuiet == Spec => AutoCloseOnlyAfterQuiet
  BY TypeInvariant, CheckedInvariant, AutoCloseStep, PTL DEF Spec, AutoCloseOnlyAfterQuiet

-----------------------------------------------------------------------------
(* The schedules in which no row is changed under a writer that trusts it.   *)
(* The row is sound, and so is every row read earlier: constants apart,      *)
(* soundness of a row does not depend on the state.                          *)
RowOK(t) == PendingIsPaused(t) /\ StampsMatch(t)

CalmInv ==
    /\ RowOK(ticket)
    /\ ToldTheOutcome
    /\ \A r \in Requests : req[r].op = "status" => RowOK(req[r].seen)
    /\ cron.pc = "deassign" => cron.seen.status \in Withdrawable
    /\ cron.pc = "escalate" => cron.seen.status = "ASSIGNED"

(* A change of status between sound rows along the map leaves a sound row.   *)
LEMMA WithStatusSound ==
    ASSUME NEW row \in Ticket, NEW seen \in Ticket, NEW to \in EndpointTargets,
           NEW at \in Nat, NEW when \in Nat,
           RowOK(row), RowOK(seen), row.status = seen.status,
           CanTransition(seen.status, to)
    PROVE  RowOK(WithStatus(row, seen, to, at, when))
  <1> DEFINE new == WithStatus(row, seen, to, at, when)
  <1>1. /\ new.status = to
        /\ new.pausedAt = PausedAtAfter(row, seen, to, at)
        /\ new.resolvedAt = ResolvedAtAfter(row, to, at)
        /\ new.closedAt = ClosedAtAfter(row, to, at)
    BY DEF WithStatus, Ticket
  <1>2. at # None
    OBVIOUS
  <1> HIDE DEF new
  <1>3. PendingIsPaused(new)
    BY <1>1, <1>2 DEF PendingIsPaused, PausedAtAfter
  <1>4. StampsMatch(new)
    BY <1>1, <1>2 DEF RowOK, StampsMatch, ResolvedAtAfter, ClosedAtAfter, CanTransition,
                      TicketTransitions, EndpointTargets, Pending
  <1> QED
    BY <1>3, <1>4 DEF RowOK, new

(* The writes of a sound row that keep it sound.                             *)
LEMMA AssignSound ==
    ASSUME NEW row \in Ticket, NEW a \in Users, NEW s \in Statuses, NEW when \in Nat,
           RowOK(row),
           s = row.status \/ (row.status \in {"NEW", "REOPENED"} /\ s = "ASSIGNED")
    PROVE  RowOK([row EXCEPT !.assignedTo = a, !.status = s, !.updatedAt = when,
                             !.touchedAt = when])
  BY DEF RowOK, PendingIsPaused, StampsMatch, Ticket, Pending

LEMMA WithdrawSound ==
    ASSUME NEW row \in Ticket, NEW at \in Nat, RowOK(row), row.status \in Withdrawable
    PROVE  RowOK(Withdraw(row, at))
  BY DEF RowOK, PendingIsPaused, StampsMatch, Ticket, Pending, Withdraw, Withdrawable

LEMMA CalmRequestStep ==
    ASSUME TypeInv, Checked, CalmInv, RequestStep, Undisturbed
    PROVE  CalmInv'
  <1>t. /\ ticket \in Ticket /\ now \in Nat
        /\ req \in [Requests -> {Free} \cup StatusReq \cup AssignReq \cup EscalateReq \cup RowReq]
    BY DEF TypeInv, TypeOK
  <1>0. PICK r \in Requests :
           \/ AssertEligible(r)
           \/ ChangeStatusCommit(r) \/ ChangeStatusFail(r)
           \/ AssignUpdate(r) \/ EscalateUpdate(r)
           \/ UpdateWrite(r) \/ SoftDeleteWrite(r)
    BY DEF RequestStep
  <1>1. CASE AssertEligible(r)
    <2>1. \/ req' = [req EXCEPT ![r] = Free]
          \/ req' = [req EXCEPT ![r] = [req[r] EXCEPT !.checked = TRUE]]
      BY <1>1 DEF AssertEligible
    <2>2. req[r] \in AssignReq \cup EscalateReq
      BY <1>1, RequestShape DEF AssertEligible, TypeInv
    <2>3. \A s \in Requests : req'[s].op = "status" => req'[s] = req[s]
      <3>1. [req[r] EXCEPT !.checked = TRUE].op # "status"
        BY <2>2 DEF AssignReq, EscalateReq
      <3>2. \E q : req' = [req EXCEPT ![r] = q] /\ q.op # "status"
        BY <2>1, <3>1 DEF Free
      <3> QED
        BY <1>t, <3>2
    <2>4. UNCHANGED <<ticket, told, cron>>
      BY <1>1 DEF AssertEligible
    <2> QED
      BY <2>3, <2>4 DEF CalmInv, ToldTheOutcome
  <1>2. ASSUME Finish(r), RowOK(ticket'), ToldTheOutcome'
        PROVE  CalmInv'
    BY <1>2, <1>t DEF Finish, CalmInv, Free
  <1>3. CASE ChangeStatusCommit(r)
    <2>1. req[r] \in StatusReq /\ CanTransition(req[r].seen.status, req[r].to)
      BY <1>3, RequestShape DEF ChangeStatusCommit, TypeInv, Checked
    <2>2. /\ ticket' = WithStatus(ticket, req[r].seen, req[r].to, req[r].at, now)
          /\ told' = PublicStatusEvent(req[r].to)
          /\ ticket.status = req[r].seen.status
          /\ RowOK(ticket) /\ RowOK(req[r].seen)
      BY <1>3 DEF ChangeStatusCommit, CalmInv
    <2>3. RowOK(ticket')
      BY <1>t, <2>1, <2>2, WithStatusSound DEF StatusReq
    <2>4. ticket'.status = req[r].to
      BY <1>t, <2>2 DEF WithStatus, Ticket
    <2>5. ToldTheOutcome'
      BY <2>1, <2>2, <2>4 DEF ToldTheOutcome, PublicStatusEvent, StatusReq, EndpointTargets, Pending
    <2> QED
      BY <1>2, <1>3, <2>3, <2>5 DEF ChangeStatusCommit
  <1>4. CASE ChangeStatusFail(r)
    BY <1>2, <1>4 DEF ChangeStatusFail, CalmInv, ToldTheOutcome
  <1>5. CASE AssignUpdate(r)
    <2>1. req[r] \in AssignReq /\ ticket = req[r].seen
      BY <1>5, RequestShape DEF AssignUpdate, TypeInv, Undisturbed
    <2> DEFINE s == IF ticket.status = "NEW" THEN "ASSIGNED" ELSE ticket.status
    <2>2. ticket' = [ticket EXCEPT !.assignedTo = req[r].target, !.status = s,
                                   !.updatedAt = now, !.touchedAt = now]
      BY <1>5, <2>1 DEF AssignUpdate
    <2>3. s \in Statuses
      BY <1>t DEF Ticket, Statuses
    <2>4. RowOK(ticket')
      BY <1>t, <2>1, <2>2, <2>3, AssignSound DEF AssignReq, CalmInv
    <2>5. ticket'.status = s
      BY <1>t, <2>2 DEF Ticket
    <2>6. ToldTheOutcome'
      BY <1>5, <2>5 DEF AssignUpdate, CalmInv, ToldTheOutcome
    <2> QED
      BY <1>2, <1>5, <2>4, <2>6 DEF AssignUpdate
  <1>6. CASE EscalateUpdate(r)
    <2>1. req[r] \in EscalateReq
      BY <1>6, RequestShape DEF EscalateUpdate, TypeInv
    <2>2. RowOK(ticket') /\ ticket'.status = ticket.status
      BY <1>6, <1>t, <2>1 DEF EscalateUpdate, Ticket, CalmInv, RowOK, PendingIsPaused,
                              StampsMatch, EscalateReq
    <2>3. ToldTheOutcome'
      BY <1>6, <2>2 DEF EscalateUpdate, CalmInv, ToldTheOutcome
    <2> QED
      BY <1>2, <1>6, <2>2, <2>3 DEF EscalateUpdate
  <1>7. CASE UpdateWrite(r) \/ SoftDeleteWrite(r)
    <2>1. RowOK(ticket') /\ ticket'.status = ticket.status
      BY <1>7, <1>t DEF UpdateWrite, SoftDeleteWrite, Ticket, CalmInv, RowOK,
                        PendingIsPaused, StampsMatch
    <2>2. ToldTheOutcome' /\ Finish(r)
      BY <1>7, <2>1 DEF UpdateWrite, SoftDeleteWrite, CalmInv, ToldTheOutcome
    <2> QED
      BY <1>2, <2>1, <2>2
  <1> QED
    BY <1>0, <1>1, <1>3, <1>4, <1>5, <1>6, <1>7

LEMMA CalmRequestRead ==
    ASSUME TypeInv, CalmInv, RequestRead
    PROVE  CalmInv'
  <1>t. req \in [Requests -> {Free} \cup StatusReq \cup AssignReq \cup EscalateReq \cup RowReq]
    BY DEF TypeInv, TypeOK
  <1>1. PICK r \in Requests, u \in Users :
           \/ \E to \in Targets : ChangeStatusRead(r, u, to)
           \/ \E target \in Users : AssignRead(r, u, target)
           \/ \E target \in Users, dept \in Depts : EscalateRead(r, u, target, dept)
           \/ UpdateRead(r, u)
           \/ SoftDeleteRead(r, u)
    BY DEF RequestRead
  <1>2. UNCHANGED <<ticket, told, cron>>
    BY <1>1 DEF ChangeStatusRead, AssignRead, EscalateRead, UpdateRead, SoftDeleteRead, Arrive
  <1>3. ASSUME NEW q, req' = [req EXCEPT ![r] = q],
               q.op = "status" => q.seen = ticket
        PROVE  CalmInv'
    BY <1>t, <1>2, <1>3 DEF CalmInv, ToldTheOutcome
  <1>4. ASSUME NEW to \in Targets, ChangeStatusRead(r, u, to)
        PROVE  CalmInv'
    BY <1>3, <1>4 DEF ChangeStatusRead
  <1>5. ASSUME NEW target \in Users, AssignRead(r, u, target)
        PROVE  CalmInv'
    BY <1>3, <1>5 DEF AssignRead
  <1>6. ASSUME NEW target \in Users, NEW dept \in Depts, EscalateRead(r, u, target, dept)
        PROVE  CalmInv'
    BY <1>3, <1>6 DEF EscalateRead
  <1>7. CASE UpdateRead(r, u) \/ SoftDeleteRead(r, u)
    BY <1>3, <1>7 DEF UpdateRead, SoftDeleteRead
  <1> QED
    BY <1>1, <1>4, <1>5, <1>6, <1>7

(* A step of a job or of the environment: it keeps the row sound, and what   *)
(* the sweep newly holds has the status it was read for.                     *)
LEMMA CalmWrite ==
    ASSUME CalmInv, RowOK(ticket'), UNCHANGED <<req, told>>,
           ticket'.status = ticket.status
             \/ ticket.status \notin {"RESOLVED", "CLOSED"}
             \/ (ticket.status = "RESOLVED" /\ ticket'.status = "CLOSED"),
           cron'.pc = "deassign" => cron' = cron \/ cron'.seen.status \in Withdrawable,
           cron'.pc = "escalate" => cron' = cron \/ cron'.seen.status = "ASSIGNED"
    PROVE  CalmInv'
  BY DEF CalmInv, ToldTheOutcome

LEMMA RouteSound ==
    ASSUME TypeInv, CalmInv, RouteTicket
    PROVE  /\ RowOK(ticket')
           /\ ticket'.status = ticket.status \/ ticket.status \notin {"RESOLVED", "CLOSED"}
  <1>t. ticket \in Ticket /\ now \in Nat /\ "ASSIGNED" \in Statuses
    BY DEF TypeInv, TypeOK, Statuses
  <1>1. CASE UNCHANGED ticket
    BY <1>1 DEF CalmInv
  <1>2. CASE Routable /\ \E a \in Candidates : RouteTo(a)
    <2>1. PICK a \in Candidates : RouteTo(a)
      BY <1>2
    <2>2. a \in Users
      BY DEF Candidates
    <2>3. ticket' = [ticket EXCEPT !.assignedTo = a, !.status = "ASSIGNED",
                                   !.updatedAt = now, !.touchedAt = now]
      BY <2>1 DEF RouteTo
    <2>4. ticket.status \in {"NEW", "REOPENED"}
      BY <1>2 DEF Routable
    <2> QED
      BY <1>t, <2>2, <2>3, <2>4, AssignSound DEF CalmInv
  <1> QED
    BY <1>1, <1>2 DEF RouteTicket

LEMMA CalmJobs ==
    ASSUME TypeInv, Checked, CalmInv, Jobs, Undisturbed
    PROVE  CalmInv'
  <1>t. ticket \in Ticket /\ now \in Nat
    BY DEF TypeInv, TypeOK
  <1>r. RowOK(ticket)
    BY DEF CalmInv
  <1>1. CASE WorkerRoute
    BY <1>1, RouteSound, CalmWrite DEF WorkerRoute
  <1>2. CASE CronStart
    <2>1. cron'.pc = "tickets"
      BY <1>2 DEF CronStart
    <2> QED
      BY <1>2, <1>r, <2>1, CalmWrite DEF CronStart, CronVars
  <1>3. CASE CronTickets
    <2>1. \/ cron'.pc = "deassign" /\ cron'.seen.status \in Withdrawable
          \/ cron'.pc = "stale"
      BY <1>3 DEF CronTickets
    <2> QED
      BY <1>3, <1>r, <2>1, CalmWrite DEF CronTickets, CronVars
  <1>4. CASE CronDeassign
    <2>1. cron.at \in Nat /\ ticket.status \in Withdrawable
      BY <1>4, CronShape DEF CronDeassign, TypeInv, CalmInv, Undisturbed
    <2>2. RowOK(ticket')
      BY <1>4, <1>t, <1>r, <2>1, WithdrawSound DEF CronDeassign
    <2>3. cron'.pc = "stale"
      BY <1>4 DEF CronDeassign
    <2> QED
      BY <1>4, <2>1, <2>2, <2>3, CalmWrite DEF CronDeassign, CronVars, Withdrawable, Pending
  <1>5. CASE CronStale
    <2>1. \/ cron'.pc = "escalate" /\ cron'.seen.status = "ASSIGNED"
          \/ cron'.pc = "route"
      BY <1>5 DEF CronStale, IsStale
    <2> QED
      BY <1>5, <1>r, <2>1, CalmWrite DEF CronStale, CronVars
  <1>6. CASE CronEscalate
    <2>1. cron.at \in Nat /\ ticket.status = "ASSIGNED"
      BY <1>6, CronShape DEF CronEscalate, TypeInv, CalmInv, Undisturbed
    <2>2. RowOK(ticket')
      BY <1>6, <1>t, <1>r, <2>1, WithdrawSound DEF CronEscalate, Withdrawable
    <2>3. cron'.pc = "route"
      BY <1>6 DEF CronEscalate
    <2> QED
      BY <1>6, <2>1, <2>2, <2>3, CalmWrite DEF CronEscalate, CronVars
  <1>7. CASE CronRoute
    <2>1. cron'.pc = "idle"
      BY <1>7 DEF CronRoute, CronIdle
    <2> QED
      BY <1>7, <2>1, RouteSound, CalmWrite DEF CronRoute, CronVars
  <1>11. CASE CronFail
    BY <1>11, <1>r, CalmWrite DEF CronFail, CronVars, CronIdle
  <1>8. CASE AutoCloseScan
    BY <1>8, <1>r, CalmWrite DEF AutoCloseScan
  <1>9. CASE AutoClose
    <2>1. CASE Closable(closer.cutoff)
      <3>1. ticket' = [ticket EXCEPT !.status = "CLOSED", !.closedAt = now,
                                     !.updatedAt = now, !.touchedAt = now]
        BY <1>9, <2>1 DEF AutoClose
      <3>2. ticket.status = "RESOLVED" /\ ticket'.status = "CLOSED"
        BY <1>t, <2>1, <3>1 DEF Closable, Ticket
      <3>3. RowOK(ticket')
        BY <1>t, <1>r, <3>1, <3>2 DEF RowOK, PendingIsPaused, StampsMatch, Ticket, Pending
      <3> QED
        BY <1>9, <3>2, <3>3, CalmWrite DEF AutoClose
    <2>2. CASE ~Closable(closer.cutoff)
      BY <1>9, <1>r, <2>2, CalmWrite DEF AutoClose
    <2> QED
      BY <2>1, <2>2
  <1>10. CASE ClaimBreachAlert
    <2>1. RowOK(ticket') /\ ticket'.status = ticket.status
      BY <1>10, <1>t, <1>r DEF ClaimBreachAlert, RowOK, PendingIsPaused, StampsMatch, Ticket
    <2> QED
      BY <1>10, <2>1, CalmWrite DEF ClaimBreachAlert
  <1> QED
    BY <1>1, <1>2, <1>3, <1>4, <1>5, <1>6, <1>7, <1>8, <1>9, <1>10, <1>11 DEF Jobs, Sweep

LEMMA CalmStep ==
    ASSUME TypeInv, Checked, CalmInv, [Next /\ Undisturbed]_vars
    PROVE  CalmInv'
  <1>t. ticket \in Ticket /\ now \in Nat /\ RowOK(ticket)
    BY DEF TypeInv, TypeOK, CalmInv
  <1>1. CASE Environment
    <2>1. CASE PublicReply
      <3>1. RowOK(ticket') /\ ticket'.status = ticket.status
        BY <1>t, <2>1 DEF PublicReply, RowOK, PendingIsPaused, StampsMatch, Ticket
      <3> QED
        BY <2>1, <3>1, CalmWrite DEF PublicReply
    <2>2. CASE Tick \/ OtherStaffStep
      BY <1>t, <2>2, OtherStaffFrame, CalmWrite DEF Tick
    <2>3. ASSUME NEW u \in Users, NEW to \in Moves, MoveUser(u, to)
          PROVE  CalmInv'
      BY <2>3, MovedRequests DEF MoveUser, StaffChange, CalmInv, ToldTheOutcome
    <2> QED
      BY <1>1, <2>1, <2>2, <2>3, StaffCases DEF Environment
  <1>2. CASE UNCHANGED vars
    BY <1>t, <1>2, CalmWrite DEF vars
  <1> QED
    BY <1>1, <1>2, CalmRequestRead, CalmRequestStep, CalmJobs DEF Next

LEMMA CalmInit == Init => CalmInv
  <1> SUFFICES ASSUME Init PROVE CalmInv
    OBVIOUS
  <1>1. /\ ticket.status = "NEW" /\ ticket.assignedTo = None
        /\ ticket.resolvedAt = None /\ ticket.closedAt = None
    BY DEF Init, NewTicket
  <1>2. RowOK(ticket)
    BY <1>1 DEF RowOK, PendingIsPaused, StampsMatch, Pending
  <1>3. ToldTheOutcome
    <2>1. {PublicStatusEvent("RESOLVED"), PublicStatusEvent("CLOSED")} \subseteq PublicEvents
      BY DEF PublicEvents, Statuses, Finished
    <2>2. None \notin {"PUBLIC_TICKET_RESOLVED", "PUBLIC_TICKET_CLOSED"}
      BY <2>1 DEF PublicStatusEvent, Pending
    <2> QED
      BY <2>2 DEF Init, ToldTheOutcome
  <1> QED
    BY <1>2, <1>3 DEF Init, CalmInv, Free, CronIdle

(* In the schedules where the writers that trust the row they read find it   *)
(* unchanged, the row stays sound and the requester told the truth.          *)
THEOREM CalmSchedulesAreSound == CalmSpec => []CalmInv
  <1>1. Init => TypeInv /\ Checked /\ CalmInv
    BY TypeInit, CalmInit DEF Init, Checked, Free, CloserIdle
  <1>2. ASSUME TypeInv, Checked, CalmInv, [Next /\ Undisturbed]_vars
        PROVE  TypeInv' /\ Checked' /\ CalmInv'
    BY <1>2, TypeStep, CheckedStep, CalmStep
  <1> QED
    BY <1>1, <1>2, PTL DEF CalmSpec

(* A waiting ticket has its clock stopped.                                   *)
THEOREM CalmPendingStopsClock == CalmSpec => []PendingStopsClock
  <1>1. CalmInv => PendingStopsClock
    BY DEF CalmInv, RowOK, PendingStopsClock
  <1> QED
    BY <1>1, CalmSchedulesAreSound, PTL

(* resolved_at and closed_at say what the status says.                       *)
THEOREM CalmStampsFollowStatus == CalmSpec => []StampsFollowStatus
  <1>1. CalmInv => StampsFollowStatus
    BY DEF CalmInv, RowOK, StampsFollowStatus
  <1> QED
    BY <1>1, CalmSchedulesAreSound, PTL

(* What the requester was last told about the end of the ticket still holds. *)
THEOREM CalmToldTheOutcome == CalmSpec => []ToldTheOutcome
  <1>1. CalmInv => ToldTheOutcome
    BY DEF CalmInv
  <1> QED
    BY <1>1, CalmSchedulesAreSound, PTL
=============================================================================
