------------------------------- MODULE Outbox -------------------------------
(* The transactional outbox (outbox.service.ts, outbox-publisher.service.ts) *)
(* run by several instances of the API: claims under a lease, hand-over to   *)
(* the BullMQ queues, retries with a growing delay, crashes and restarts.    *)
EXTENDS Integers, FiniteSets

CONSTANTS
    Events,        \* outbox rows, numbered in the order of created_at
    Instances,     \* running instances, by workerId (host and pid)
    None,          \* SQL NULL
    Limit,         \* events claimed at once (25)
    Lease,         \* LEASE_MS
    MaxAttempts,   \* max_attempts (10)
    MaxFaults      \* bound on crashes, database errors and overrun leases

ASSUME OutboxAssumption ==
    /\ Events \subseteq Nat /\ IsFiniteSet(Events)
    /\ None \notin Instances /\ None \notin Int
    /\ Limit \in Nat \ {0} /\ Lease \in Nat
    /\ MaxAttempts \in Nat \ {0} /\ MaxFaults \in Nat

VARIABLES
    event,     \* the rows of outbox_events
    inst,      \* inst[p]: what the running publishBatch of p holds
    jobs,      \* events whose job is in its queue (jobId = event id)
    now,       \* the clock
    faults     \* crashes, database errors and overrun leases left

vars == <<event, inst, jobs, now, faults>>

Row == [ status     : {"ABSENT", "PENDING", "PROCESSING", "PUBLISHED", "FAILED"},
         attempts   : 0 .. MaxAttempts,
         availableAt: Nat,
         lockedAt   : Nat \cup {None},
         lockedBy   : Instances \cup {None} ]

Settled(row) == row.status \in {"PUBLISHED", "FAILED"}

(* `batch` maps the claimed events still to handle to the attempt_count they *)
(* were claimed with, `at` is the date of the claim, `cur` the event being   *)
(* handled.                                                                  *)
Idle == [pc |-> "idle"]
Batch == UNION {[S -> 0 .. MaxAttempts - 1] : S \in SUBSET Events}
InstState == {Idle}
             \cup [pc: {"add"}, at: Nat, batch: Batch]
             \cup [pc: {"publish", "fail"}, at: Nat, batch: Batch, cur: Events]

TypeOK ==
    /\ event \in [Events -> Row]
    /\ inst \in [Instances -> InstState]
    /\ \A p \in Instances : inst[p].pc \in {"publish", "fail"} => inst[p].cur \in DOMAIN inst[p].batch
    /\ jobs \subseteq Events
    /\ now \in Nat
    /\ faults \in Nat

Init ==
    /\ event = [e \in Events |-> [status |-> "ABSENT", attempts |-> 0, availableAt |-> 0,
                                  lockedAt |-> None, lockedBy |-> None]]
    /\ inst = [p \in Instances |-> Idle]
    /\ jobs = {}
    /\ now = 0
    /\ faults = MaxFaults

-----------------------------------------------------------------------------
(* A business transaction commits with its event.                            *)
Record(e) ==
    /\ event[e].status = "ABSENT"
    /\ event' = [event EXCEPT ![e].status = "PENDING", ![e].availableAt = now]
    /\ UNCHANGED <<inst, jobs, now, faults>>

(* Mutant: a lease that ends one moment early.                               *)
MutClaimable(row, at) ==
    /\ \/ row.status = "PENDING" /\ row.availableAt <= at
       \/ row.status = "PROCESSING" /\ row.lockedAt <= at - Lease
    /\ row.attempts < MaxAttempts

(* Mutant: an event that another instance left in PROCESSING is forgotten.   *)
MutClaimableNoLease(row, at) ==
    /\ row.status = "PENDING" /\ row.availableAt <= at
    /\ row.attempts < MaxAttempts

Claimable(row, at) ==
    /\ \/ row.status = "PENDING" /\ row.availableAt <= at
       \/ row.status = "PROCESSING" /\ row.lockedAt < at - Lease
    /\ row.attempts < MaxAttempts

(* The oldest claimable events.  FOR UPDATE SKIP LOCKED makes the selection  *)
(* and the update of one claim exclude those of another.                     *)
Candidates ==
    LET all == {e \in Events : Claimable(event[e], now)}
    IN {e \in all : Cardinality({f \in all : f < e}) < Limit}

(* The claim takes an event that its last owner still handles.               *)
Overtakes ==
    \E q \in Instances, e \in Candidates :
        inst[q] # Idle /\ e \in DOMAIN inst[q].batch /\ event[e].lockedBy = q

Claim(p) ==
    /\ inst[p] = Idle
    /\ Candidates # {}
    /\ IF Overtakes THEN faults > 0 /\ faults' = faults - 1 ELSE UNCHANGED faults
    /\ event' = [e \in Events |->
                    IF e \in Candidates
                    THEN [event[e] EXCEPT !.status = "PROCESSING", !.lockedAt = now, !.lockedBy = p]
                    ELSE event[e]]
    /\ inst' = [inst EXCEPT ![p] = [pc |-> "add", at |-> now,
                                    batch |-> [e \in Candidates |-> event[e].attempts]]]
    /\ UNCHANGED <<jobs, now>>

(* The loop goes on with the rest of the batch.                              *)
Without(batch, e) == [f \in DOMAIN batch \ {e} |-> batch[f]]

(* RETURNING gives the claimed rows in no particular order.                  *)
At(p, pc, e) == [pc |-> pc, at |-> inst[p].at, batch |-> inst[p].batch, cur |-> e]

Enqueue(p) ==
    /\ inst[p].pc = "add"
    /\ \E e \in DOMAIN inst[p].batch :
          /\ jobs' = jobs \cup {e}
          /\ inst' = [inst EXCEPT ![p] = At(p, "publish", e)]
    /\ UNCHANGED <<event, now, faults>>

(* Redis fails; the job may be in the queue all the same.                    *)
EnqueueFail(p) ==
    /\ inst[p].pc = "add"
    /\ \E e \in DOMAIN inst[p].batch :
          /\ jobs' \in {jobs, jobs \cup {e}}
          /\ inst' = [inst EXCEPT ![p] = At(p, "fail", e)]
    /\ UNCHANGED <<event, now, faults>>

Handled(p) ==
    inst' = [inst EXCEPT ![p] =
                IF DOMAIN inst[p].batch = {inst[p].cur} THEN Idle
                ELSE [pc |-> "add", at |-> inst[p].at,
                      batch |-> Without(inst[p].batch, inst[p].cur)]]

Holds(p, e) == event[e].status = "PROCESSING" /\ event[e].lockedBy = p

Published(p) ==
    /\ inst[p].pc = "publish"
    /\ event' = IF Holds(p, inst[p].cur)
                THEN [event EXCEPT ![inst[p].cur] =
                         [@ EXCEPT !.status = "PUBLISHED", !.lockedAt = None, !.lockedBy = None]]
                ELSE event
    /\ Handled(p)
    /\ UNCHANGED <<jobs, now, faults>>

(* The UPDATE of published fails: the event is failed like any other.        *)
PublishedError(p) ==
    /\ inst[p].pc = "publish"
    /\ faults > 0
    /\ faults' = faults - 1
    /\ inst' = [inst EXCEPT ![p].pc = "fail"]
    /\ UNCHANGED <<event, jobs, now>>

(* min(300, 2^min(n, 8)) seconds: the cap of 300 is never reached.           *)
Delays == <<2, 4, 8, 16, 32, 64, 128, 256>>
Delay(n) == Delays[IF n < 8 THEN n ELSE 8]

Retried(row, attempts) ==
    [row EXCEPT !.status      = IF attempts >= MaxAttempts THEN "FAILED" ELSE "PENDING",
                !.attempts    = attempts,
                !.availableAt = now + Delay(attempts),
                !.lockedAt    = None,
                !.lockedBy    = None]

(* Mutant: the UPDATE of failed does not name the owner of the lease.        *)
MutFailed(p) ==
    /\ inst[p].pc = "fail"
    /\ event' = [event EXCEPT ![inst[p].cur] = Retried(@, inst[p].batch[inst[p].cur] + 1)]
    /\ Handled(p)
    /\ UNCHANGED <<jobs, now, faults>>

Failed(p) ==
    /\ inst[p].pc = "fail"
    /\ event' = IF Holds(p, inst[p].cur)
                THEN [event EXCEPT ![inst[p].cur] = Retried(@, inst[p].batch[inst[p].cur] + 1)]
                ELSE event
    /\ Handled(p)
    /\ UNCHANGED <<jobs, now, faults>>

(* The UPDATE of failed fails too, or the process crashes and restarts with  *)
(* the same workerId: the rest of the batch is dropped.                      *)
Abandon(p) ==
    /\ inst[p] # Idle
    /\ faults > 0
    /\ faults' = faults - 1
    /\ inst' = [inst EXCEPT ![p] = Idle]
    /\ UNCHANGED <<event, jobs, now>>

(* Nothing but these dates depends on the clock.                             *)
DateAhead ==
    \E e \in Events :
        \/ event[e].status = "PENDING" /\ event[e].availableAt > now
        \/ event[e].status = "PROCESSING" /\ event[e].lockedAt >= now - Lease

Tick ==
    /\ DateAhead
    /\ now' = now + 1
    /\ UNCHANGED <<event, inst, jobs, faults>>

-----------------------------------------------------------------------------
Work(p) == Claim(p) \/ Enqueue(p) \/ EnqueueFail(p) \/ Published(p) \/ Failed(p)

Next ==
    \/ \E e \in Events : Record(e)
    \/ \E p \in Instances : Work(p) \/ PublishedError(p) \/ Abandon(p)
    \/ Tick

Spec == Init /\ [][Next]_vars

(* The interval fires every second in each instance, every call returns or   *)
(* fails in the end, and time passes.                                        *)
FairSpec == Spec /\ WF_vars(Tick) /\ \A p \in Instances : WF_vars(Work(p))

-----------------------------------------------------------------------------
(* PROPERTIES                                                                *)

(* An event is called published only once its job is in a queue, whatever    *)
(* instance wrote it and however often it was retried.                       *)
PublishedWasQueued == \A e \in Events : event[e].status = "PUBLISHED" => e \in jobs

(* Two instances handle one event at the same time only if the second        *)
(* claimed it after the lease of the first had run out.                      *)
LeaseExcludes ==
    \A p, q \in Instances :
        p # q /\ inst[p] # Idle /\ inst[q] # Idle
              /\ DOMAIN inst[p].batch \cap DOMAIN inst[q].batch # {}
        => inst[p].at + Lease < inst[q].at \/ inst[q].at + Lease < inst[p].at

(* No attempt is counted twice or forgotten, although the count written is   *)
(* the one read at the claim.                                                *)
AttemptsStep ==
    \A e \in Events :
        \/ event'[e].attempts = event[e].attempts
        \/ /\ event'[e].attempts = event[e].attempts + 1
           /\ event'[e].status \in {"PENDING", "FAILED"}
           /\ (event'[e].status = "FAILED") <=> (event'[e].attempts >= MaxAttempts)
AttemptsGrowByOne == [][AttemptsStep]_vars

(* Refinement: the outbox keeps the promise of DurableEvents.                *)
AbstractState(row) ==
    CASE row.status = "ABSENT"    -> "absent"
      [] row.status = "PUBLISHED" -> "published"
      [] row.status = "FAILED"    -> "given up"
      [] OTHER                    -> "recorded"

Promise == INSTANCE DurableEvents
               WITH state <- [e \in Events |-> AbstractState(event[e])], handed <- jobs

KeepsPromise == Promise!Spec

(* Every recorded event ends published or, after max_attempts, failed:       *)
(* crashes and lost leases never leave it behind.                            *)
RecordedSettles == \A e \in Events : event[e].status = "PENDING" ~> Settled(event[e])
=============================================================================
