-------------------------- MODULE ExternalDelivery --------------------------
(* The delivery by e-mail of one outbox event (external-delivery.service.ts): *)
(* its rows of external_deliveries, one per address, the BullMQ jobs that     *)
(* dispatch it, run by several workers, and the replay of failed deliveries.  *)
(* Every update is a step of its own (the reads at the start of dispatch are  *)
(* one), so any worker or replay may act between a read and its update.       *)
EXTENDS Integers, FiniteSets

CONSTANTS
    Addresses,     \* destination_key of the requester's e-mail identities
    Jobs,          \* job ids; FirstJob is the one the outbox added
    FirstJob,
    Slots,         \* executions of the worker that can run at once
    Processes,     \* worker processes (host and pid)
    None,          \* SQL NULL
    Lease,         \* DELIVERY_LEASE_MS
    MaxAttempts,   \* MAX_ATTEMPTS (5)
    Ceiling,       \* RETRY_CEILING (40)
    Window,        \* RETRY_WINDOW_DAYS
    Tries,         \* attempts of a job (10)
    Backoff,       \* delay between them
    MaxStalls,     \* maxStalledCount of BullMQ (1)
    MaxFaults,     \* bound on mishaps: crashes, errors, overtaken writers
    MaxChanges     \* bound on changes of the requester's address

ASSUME DeliveryAssumption ==
    /\ FirstJob \in Jobs
    /\ None \notin Addresses /\ None \notin Processes \X Jobs /\ None \notin Int
    /\ Lease \in Nat /\ Window \in Nat /\ Backoff \in Nat /\ MaxStalls \in Nat
    /\ MaxAttempts \in Nat \ {0} /\ Ceiling \in Nat /\ MaxAttempts <= Ceiling /\ Tries \in Nat \ {0}
    /\ MaxFaults \in Nat /\ MaxChanges \in Nat

VARIABLES
    row,       \* row[a]: the delivery to address a
    contact,   \* the address loadTarget finds, None when it was revoked
    job,       \* the BullMQ queue
    run,       \* run[s]: the execution of dispatch in slot s
    sweep,     \* the replay: rows selected and not yet replayed
    sent,      \* sent[a]: e-mails the provider accepted for address a
    now,       \* the clock
    faults,    \* mishaps left
    changes    \* changes of address left

vars == <<row, contact, job, run, sweep, sent, now, faults, changes>>

Owners == Processes \X Jobs      \* locked_by: process and job id

Row == [ status  : {"ABSENT", "PENDING", "PROCESSING", "DELIVERED", "FAILED", "DELIVERY_UNKNOWN"},
         attempts: Nat,
         lockedAt: Nat \cup {None},
         lockedBy: Owners \cup {None},
         requeued: BOOLEAN,      \* last_error = 'REQUEUED_AFTER_RECOVERY'
         created : Nat ]

Settled(d) == d.status \in {"DELIVERED", "FAILED", "DELIVERY_UNKNOWN"}

NoJob == [state |-> "none"]
Job == {NoJob}
       \cup [state: {"waiting"}, tries: 0 .. Tries - 1, stalls: 0 .. MaxStalls, at: Nat]
       \cup [state: {"active"}, tries: 0 .. Tries - 1, stalls: 0 .. MaxStalls, by: Slots]

Idle == [pc |-> "idle"]
Run == {Idle}
       \cup [pc: {"read"}, owner: Owners]
       \cup [pc: {"claim"}, owner: Owners, to: Addresses, at: Nat]
       \cup [pc: {"unknown"}, owner: Owners, to: Addresses, seen: Row]
       \cup [pc: {"send", "confirm", "catch"}, owner: Owners, to: Addresses, attempts: Nat]

NoSweep == [pc |-> "idle"]
Sweep == {NoSweep} \cup [pc: {"update", "add"}, rest: SUBSET Addresses]

TypeOK ==
    /\ row \in [Addresses -> Row]
    /\ contact \in Addresses \cup {None}
    /\ job \in [Jobs -> Job]
    /\ run \in [Slots -> Run]
    /\ sweep \in Sweep
    /\ sent \in [Addresses -> Nat]
    /\ now \in Nat
    /\ faults \in 0 .. MaxFaults
    /\ changes \in Nat

Init ==
    /\ row = [a \in Addresses |-> [status |-> "ABSENT", attempts |-> 0, lockedAt |-> None,
                                   lockedBy |-> None, requeued |-> FALSE, created |-> 0]]
    /\ contact \in Addresses
    /\ job = [j \in Jobs |-> IF j = FirstJob
                             THEN [state |-> "waiting", tries |-> 0, stalls |-> 0, at |-> 0]
                             ELSE NoJob]
    /\ run = [s \in Slots |-> Idle]
    /\ sweep = NoSweep
    /\ sent = [a \in Addresses |-> 0]
    /\ now = 0
    /\ faults = MaxFaults
    /\ changes = MaxChanges

Mishap == faults > 0 /\ faults' = faults - 1

MishapIf(condition) == IF condition THEN Mishap ELSE UNCHANGED faults

-----------------------------------------------------------------------------
(* BullMQ, as the worker uses it.                                            *)

JobOf(s) == run[s].owner[2]

(* The slot still holds the lock of its job.                                 *)
HoldsJob(s) == job[JobOf(s)].state = "active" /\ job[JobOf(s)].by = s

Take(s, p, j) ==
    /\ run[s] = Idle
    /\ job[j].state = "waiting" /\ job[j].at <= now
    /\ job' = [job EXCEPT ![j] = [state |-> "active", tries |-> @.tries,
                                  stalls |-> @.stalls, by |-> s]]
    /\ run' = [run EXCEPT ![s] = [pc |-> "read", owner |-> <<p, j>>]]
    /\ UNCHANGED <<row, contact, sweep, sent, now, faults, changes>>

(* The handler returns: the job is completed.                                *)
Complete(s) ==
    /\ job' = IF HoldsJob(s) THEN [job EXCEPT ![JobOf(s)] = NoJob] ELSE job
    /\ run' = [run EXCEPT ![s] = Idle]

(* Mutant: a job is given one try more.                                      *)
MutAfterThrow(j) ==
    IF j.tries + 1 > Tries THEN NoJob
    ELSE [state |-> "waiting", tries |-> j.tries + 1, stalls |-> j.stalls, at |-> now + Backoff]

AfterThrow(j) ==
    IF j.tries + 1 >= Tries THEN NoJob
    ELSE [state |-> "waiting", tries |-> j.tries + 1, stalls |-> j.stalls, at |-> now + Backoff]

(* The handler throws: the job is tried again after the backoff.             *)
Throw(s) ==
    /\ job' = IF HoldsJob(s) THEN [job EXCEPT ![JobOf(s)] = AfterThrow(@)] ELSE job
    /\ run' = [run EXCEPT ![s] = Idle]

Running(j, s) == run[s] # Idle /\ JobOf(s) = j

(* The lock of an active job runs out: after a crash, or because the process *)
(* was too busy to renew it, which is a mishap.                              *)
Stall(j) ==
    /\ job[j].state = "active"
    /\ MishapIf(Running(j, job[j].by))
    /\ job' = [job EXCEPT ![j] = IF @.stalls < MaxStalls
                                 THEN [state |-> "waiting", tries |-> @.tries,
                                       stalls |-> @.stalls + 1, at |-> now]
                                 ELSE NoJob]
    /\ UNCHANGED <<row, contact, run, sweep, sent, now, changes>>

Crash(p) ==
    /\ Mishap
    /\ \E s \in Slots : run[s] # Idle /\ run[s].owner[1] = p
    /\ run' = [s \in Slots |-> IF run[s] # Idle /\ run[s].owner[1] = p THEN Idle ELSE run[s]]
    /\ UNCHANGED <<row, contact, job, sweep, sent, now, changes>>

-----------------------------------------------------------------------------
(* dispatch, statement by statement.                                         *)

(* The row ensureDelivery inserts unless it is there.                        *)
Ensured(a) == IF row[a].status = "ABSENT"
              THEN [row[a] EXCEPT !.status = "PENDING", !.created = now]
              ELSE row[a]

LeaseOver(d, at) == d.lockedAt <= at - Lease

(* loadTarget, ensureDelivery, and the checks on the row they return.        *)
Read(s) ==
    /\ run[s].pc = "read"
    /\ IF contact = None THEN Complete(s) /\ UNCHANGED row
       ELSE LET d == Ensured(contact)
                o == run[s].owner
            IN
            /\ row' = [row EXCEPT ![contact] = d]
            /\ \/ Settled(d) /\ Complete(s)
               \/ d.status = "PROCESSING" /\ ~LeaseOver(d, now) /\ Throw(s)
               \/ /\ d.status = "PROCESSING" /\ LeaseOver(d, now)
                  /\ run' = [run EXCEPT ![s] = [pc |-> "unknown", owner |-> o, to |-> contact,
                                                seen |-> d]]
                  /\ UNCHANGED job
               \/ /\ d.status = "PENDING"
                  /\ run' = [run EXCEPT ![s] = [pc |-> "claim", owner |-> o, to |-> contact,
                                                at |-> now]]
                  /\ UNCHANGED job
    /\ UNCHANGED <<contact, sweep, sent, now, faults, changes>>

(* The compare-and-set that gives up a delivery whose owner has vanished.    *)
MarkUnknown(s) ==
    /\ run[s].pc = "unknown"
    /\ LET a == run[s].to
           d == row[run[s].to]
           seen == run[s].seen
       IN  row' = IF /\ d.status = "PROCESSING"
                     /\ d.lockedAt = seen.lockedAt /\ d.lockedBy = seen.lockedBy
                  THEN [row EXCEPT ![a] = [@ EXCEPT !.status = "DELIVERY_UNKNOWN",
                                                    !.lockedAt = None, !.lockedBy = None,
                                                    !.requeued = FALSE]]
                  ELSE row
    /\ Complete(s)
    /\ UNCHANGED <<contact, sweep, sent, now, faults, changes>>

(* Mutant: the claim takes what the reader saw free.                         *)
MutClaimable(d, at) == d.status \in {"PENDING", "PROCESSING"}

Claimable(d, at) ==
    \/ d.status = "PENDING"
    \/ d.status = "PROCESSING" /\ d.lockedAt < at - Lease

(* The lease is over, but its owner is still at work: a mishap.              *)
Overtakes(s) ==
    LET a == run[s].to IN
    /\ row[a].status = "PROCESSING" /\ row[a].lockedAt < run[s].at - Lease
    /\ \E t \in Slots \ {s} : run[t].pc \in {"send", "confirm", "catch"} /\ run[t].to = a

Claim(s) ==
    /\ run[s].pc = "claim"
    /\ LET a == run[s].to
           o == run[s].owner
       IN  IF Claimable(row[a], run[s].at)
           THEN /\ MishapIf(Overtakes(s))
                /\ row' = [row EXCEPT ![a] = [@ EXCEPT !.status = "PROCESSING",
                                                       !.lockedAt = run[s].at, !.lockedBy = o]]
                /\ run' = [run EXCEPT ![s] = [pc |-> "send", owner |-> o, to |-> a,
                                              attempts |-> row[a].attempts]]
                /\ UNCHANGED job
           ELSE Complete(s) /\ UNCHANGED <<row, faults>>
    /\ UNCHANGED <<contact, sweep, sent, now, changes>>

At(s, pc) == run' = [run EXCEPT ![s].pc = pc]

SendOk(s) ==
    /\ run[s].pc = "send"
    /\ sent' = [sent EXCEPT ![run[s].to] = @ + 1]
    /\ At(s, "confirm")
    /\ UNCHANGED <<row, contact, job, sweep, now, faults, changes>>

(* Mutant: the error of the adapter is taken for a success.                  *)
MutSendFail(s) ==
    /\ run[s].pc = "send"
    /\ At(s, "confirm")
    /\ UNCHANGED <<row, contact, job, sweep, sent, now, faults, changes>>

SendFail(s) ==
    /\ run[s].pc = "send"
    /\ At(s, "catch")
    /\ UNCHANGED <<row, contact, job, sweep, sent, now, faults, changes>>

(* The provider accepts the e-mail but its answer is lost, or the answer     *)
(* comes and the UPDATE to DELIVERED fails: one try block covers both.       *)
SentUnrecorded(s) ==
    /\ Mishap
    /\ \/ run[s].pc = "send" /\ sent' = [sent EXCEPT ![run[s].to] = @ + 1]
       \/ run[s].pc = "confirm" /\ UNCHANGED sent
    /\ At(s, "catch")
    /\ UNCHANGED <<row, contact, job, sweep, now, changes>>

(* The row is still the one this execution claimed, going by locked_by.      *)
Owns(s) == row[run[s].to].lockedBy = run[s].owner

Confirm(s) ==
    /\ run[s].pc = "confirm"
    /\ row' = IF Owns(s)
              THEN [row EXCEPT ![run[s].to] = [@ EXCEPT !.status = "DELIVERED", !.lockedAt = None,
                                                        !.lockedBy = None, !.requeued = FALSE]]
              ELSE row
    /\ Complete(s)
    /\ UNCHANGED <<contact, sweep, sent, now, faults, changes>>

AfterFailure(d, attempts) ==
    [d EXCEPT !.status   = IF attempts >= MaxAttempts THEN "FAILED" ELSE "PENDING",
              !.attempts = attempts,
              !.lockedAt = None, !.lockedBy = None, !.requeued = FALSE]

Catch(s) ==
    /\ run[s].pc = "catch"
    /\ row' = IF Owns(s)
              THEN [row EXCEPT ![run[s].to] = AfterFailure(@, run[s].attempts + 1)]
              ELSE row
    /\ Throw(s)
    /\ UNCHANGED <<contact, sweep, sent, now, faults, changes>>

(* A statement fails outside the try block, or in the catch block itself.    *)
DatabaseError(s) ==
    /\ run[s].pc \in {"read", "claim", "unknown", "catch"}
    /\ Mishap
    /\ Throw(s)
    /\ UNCHANGED <<row, contact, sweep, sent, now, changes>>

-----------------------------------------------------------------------------
(* requeueFailedDeliveries, every minute.                                    *)

(* Mutant: a waiting replay whose job was lost is not selected again.        *)
MutWaitsForReplay(d) == FALSE

WaitsForReplay(d) == d.status = "PENDING" /\ d.requeued /\ d.lockedAt = None

InWindow(d) == d.created > now - Window

(* Mutant: one replay too many.                                              *)
MutReplayable(d) ==
    /\ d.status = "FAILED" \/ WaitsForReplay(d)
    /\ d.attempts <= Ceiling

Replayable(d) ==
    /\ d.status = "FAILED" \/ WaitsForReplay(d)
    /\ d.attempts < Ceiling

ToReplay == {a \in Addresses : Replayable(row[a]) /\ InWindow(row[a])}

ReplaySelect ==
    /\ sweep = NoSweep
    /\ ToReplay # {}
    /\ sweep' = [pc |-> "update", rest |-> ToReplay]
    /\ UNCHANGED <<row, contact, job, run, sent, now, faults, changes>>

(* Ids of BullMQ are never used twice; here one serves again when no trace   *)
(* of it is left, so that Jobs bounds the jobs alive at once.                *)
Unused(j) ==
    /\ job[j] = NoJob
    /\ \A s \in Slots : ~Running(j, s)
    /\ \A a \in Addresses, p \in Processes : row[a].lockedBy # <<p, j>>

(* The UPDATE names the delivery only: a row that may no longer be replayed  *)
(* since its selection is put back to PENDING all the same, a mishap.        *)
ReplayUpdate(a) ==
    /\ sweep.pc = "update" /\ a \in sweep.rest
    /\ \E j \in Jobs : Unused(j)
    /\ MishapIf(~Replayable(row[a]))
    /\ row' = [row EXCEPT ![a] = [@ EXCEPT !.status = "PENDING", !.lockedAt = None,
                                           !.lockedBy = None, !.requeued = TRUE]]
    /\ sweep' = [pc |-> "add", rest |-> sweep.rest \ {a}]
    /\ UNCHANGED <<contact, job, run, sent, now, changes>>

ReplayNext == IF sweep.rest = {} THEN NoSweep ELSE [sweep EXCEPT !.pc = "update"]

ReplayAdd ==
    /\ sweep.pc = "add"
    /\ \E j \in Jobs :
          /\ Unused(j)
          /\ job' = [job EXCEPT ![j] = [state |-> "waiting", tries |-> 0, stalls |-> 0, at |-> now]]
    /\ sweep' = ReplayNext
    /\ UNCHANGED <<row, contact, run, sent, now, faults, changes>>

(* The database or the queue fails: the pass ends there.                     *)
ReplayError ==
    /\ sweep # NoSweep
    /\ Mishap
    /\ sweep' = NoSweep
    /\ UNCHANGED <<row, contact, job, run, sent, now, changes>>

-----------------------------------------------------------------------------
(* The requester's identity changes or is revoked.                           *)
ChangeContact ==
    /\ changes > 0
    /\ changes' = changes - 1
    /\ contact' \in (Addresses \cup {None}) \ {contact}
    /\ UNCHANGED <<row, job, run, sweep, sent, now, faults>>

(* Nothing but these dates depends on the clock.                             *)
DateAhead ==
    \/ \E a \in Addresses : row[a].status = "PROCESSING" /\ row[a].lockedAt >= now - Lease
    \/ ToReplay # {}
    \/ \E j \in Jobs : job[j].state = "waiting" /\ job[j].at > now

Tick ==
    /\ DateAhead
    /\ now' = now + 1
    /\ UNCHANGED <<row, contact, job, run, sweep, sent, faults, changes>>

-----------------------------------------------------------------------------
Dispatch(s) == Read(s) \/ MarkUnknown(s) \/ Claim(s) \/ SendOk(s) \/ SendFail(s)
               \/ Confirm(s) \/ Catch(s)

Replay == ReplaySelect \/ ReplayAdd \/ \E a \in Addresses : ReplayUpdate(a)

Next ==
    \/ \E s \in Slots : Dispatch(s) \/ SentUnrecorded(s) \/ DatabaseError(s)
    \/ \E s \in Slots, p \in Processes, j \in Jobs : Take(s, p, j)
    \/ \E j \in Jobs : Stall(j)
    \/ \E p \in Processes : Crash(p)
    \/ Replay \/ ReplayError
    \/ ChangeContact
    \/ Tick

Spec == Init /\ [][Next]_vars

(* BullMQ hands out every waiting job and detects every stalled one, calls   *)
(* return or fail in the end, the replay runs every minute, time passes.     *)
Fairness ==
    /\ \A s \in Slots : WF_vars(Dispatch(s))
    /\ \A j \in Jobs : WF_vars(\E s \in Slots, p \in Processes : Take(s, p, j))
    /\ \A j \in Jobs : WF_vars(job[j].state = "active" /\ ~Running(j, job[j].by) /\ Stall(j))
    /\ WF_vars(Replay)
    /\ WF_vars(Tick)

FairSpec == Spec /\ Fairness

-----------------------------------------------------------------------------
(* PROPERTIES                                                                *)

Spent == MaxFaults - faults

(* A delivery called DELIVERED was accepted by the provider, although the    *)
(* execution that writes DELIVERED recognises its claim by locked_by only.   *)
DeliveredWasSent == \A a \in Addresses : row[a].status = "DELIVERED" => sent[a] > 0

(* No address gets an e-mail twice unless something went wrong, and as many  *)
(* mishaps are needed as there are duplicates: retries, replays and parallel *)
(* workers alone never repeat one.                                           *)
DuplicatesNeedMishaps == \A a \in Addresses : sent[a] <= 1 + Spent

(* The replay gives up: no delivery is attempted beyond the ceiling, but for *)
(* what a mishap hides from the count.                                       *)
AttemptsBounded == \A a \in Addresses : row[a].attempts <= Ceiling + Spent

NoJobTwice == \A s, t \in Slots : s # t /\ run[s] # Idle /\ run[t] # Idle => JobOf(s) # JobOf(t)

(* A delivery to an address that stays the requester's ends DELIVERED,       *)
(* FAILED or DELIVERY_UNKNOWN before it falls out of the replay window: it   *)
(* is not left PENDING without a job, nor PROCESSING without an owner.  Not  *)
(* so when a stalled job is run again beside its first execution: the second *)
(* one finds the row claimed and completes the job, the first one then fails *)
(* and leaves the row PENDING for nobody.                                    *)
DeliverySettles ==
    \A a \in Addresses :
        [](contact = a /\ NoJobTwice) => (row[a].status \in {"PENDING", "PROCESSING"}
                                ~> Settled(row[a]) \/ ~InWindow(row[a]))
=============================================================================
