---------------------------- MODULE OutboxProofs ----------------------------
(* Proofs about Outbox, for every number of events and instances, every      *)
(* lease, batch limit and number of attempts.                                *)
EXTENDS Outbox, TLAPS

USE OutboxAssumption

-----------------------------------------------------------------------------
(* The inductive invariant: the types; a job is in its queue before its      *)
(* event is called published; and an instance that handles an event either   *)
(* still owns it, with the date and the count of its claim, or its lease ran *)
(* out before the event was taken away.                                      *)
QueuedFirst ==
    /\ PublishedWasQueued
    /\ \A p \in Instances : inst[p].pc = "publish" => inst[p].cur \in jobs

OwnsOrLost ==
    \A p \in Instances : inst[p] # Idle =>
        /\ inst[p].at <= now
        /\ \A e \in DOMAIN inst[p].batch :
              /\ Holds(p, e) => /\ event[e].lockedAt = inst[p].at
                                /\ event[e].attempts = inst[p].batch[e]
              /\ ~Holds(p, e) => inst[p].at + Lease < now

OutboxInv == TypeOK /\ QueuedFirst /\ OwnsOrLost /\ LeaseExcludes

LEMMA InstShape ==
    ASSUME TypeOK, NEW p \in Instances
    PROVE  /\ inst[p].pc = "add" => inst[p] \in [pc: {"add"}, at: Nat, batch: Batch]
           /\ inst[p].pc \in {"publish", "fail"} =>
                 inst[p] \in [pc: {"publish", "fail"}, at: Nat, batch: Batch, cur: Events]
           /\ inst[p] # Idle => inst[p].at \in Nat /\ inst[p].batch \in Batch
                                /\ inst[p].pc \in {"add", "publish", "fail"}
           /\ inst[p] = Idle <=> inst[p].pc = "idle"
  BY DEF TypeOK, InstState, Idle

LEMMA BatchShape ==
    ASSUME NEW b \in Batch
    PROVE  /\ DOMAIN b \subseteq Events
           /\ \A e \in DOMAIN b : b[e] \in 0 .. MaxAttempts - 1
           /\ \A e : Without(b, e) \in Batch
           /\ \A e : DOMAIN Without(b, e) = DOMAIN b \ {e}
           /\ \A e : \A f \in DOMAIN b \ {e} : Without(b, e)[f] = b[f]
  <1>1. PICK S \in SUBSET Events : b \in [S -> 0 .. MaxAttempts - 1]
    BY DEF Batch
  <1>2. \A e : Without(b, e) \in [S \ {e} -> 0 .. MaxAttempts - 1]
    BY <1>1 DEF Without
  <1>3. \A e : S \ {e} \in SUBSET Events
    BY <1>1
  <1>4. \A e : Without(b, e) \in Batch
    <2> TAKE e
    <2> DEFINE T == S \ {e}
    <2>1. T \in SUBSET Events /\ Without(b, e) \in [T -> 0 .. MaxAttempts - 1]
      BY <1>2, <1>3
    <2> HIDE DEF T
    <2> QED
      BY <2>1 DEF Batch
  <1>5. DOMAIN b = S /\ \A e \in S : b[e] \in 0 .. MaxAttempts - 1
    BY <1>1
  <1>6. \A e : DOMAIN Without(b, e) = DOMAIN b \ {e}
    BY DEF Without
  <1>7. \A e : \A f \in DOMAIN b \ {e} : Without(b, e)[f] = b[f]
    BY DEF Without
  <1> QED
    BY <1>4, <1>5, <1>6, <1>7

LEMMA CandidatesShape ==
    Candidates \subseteq {e \in Events : Claimable(event[e], now)}
  BY DEF Candidates

LEMMA RetriedType ==
    ASSUME NEW row \in Row, NEW n \in 0 .. MaxAttempts - 1, now \in Nat
    PROVE  /\ Retried(row, n + 1) \in Row
           /\ Retried(row, n + 1).attempts = n + 1
           /\ Retried(row, n + 1).status = IF n + 1 >= MaxAttempts THEN "FAILED" ELSE "PENDING"
  <1>1. Delay(n + 1) \in Nat
    <2>1. (IF n + 1 < 8 THEN n + 1 ELSE 8) \in 1 .. 8
      OBVIOUS
    <2>2. \A i \in 1 .. 8 : Delays[i] \in Nat
      <3> TAKE i \in 1 .. 8
      <3>1. i = 1 \/ i = 2 \/ i = 3 \/ i = 4 \/ i = 5 \/ i = 6 \/ i = 7 \/ i = 8
        OBVIOUS
      <3> QED
        BY <3>1 DEF Delays
    <2> QED
      BY <2>1, <2>2 DEF Delay
  <1>2. n + 1 \in 0 .. MaxAttempts /\ now + Delay(n + 1) \in Nat
    BY <1>1
  <1>3. Retried(row, n + 1) =
           [row EXCEPT !.status      = IF n + 1 >= MaxAttempts THEN "FAILED" ELSE "PENDING",
                       !.attempts    = n + 1,
                       !.availableAt = now + Delay(n + 1),
                       !.lockedAt    = None,
                       !.lockedBy    = None]
    BY DEF Retried
  <1> QED
    BY <1>2, <1>3 DEF Row

(* What an instance holds after a step that keeps its claim: the same date   *)
(* and a part of the batch.                                                  *)
Keeps(p) ==
    /\ \A q \in Instances \ {p} : inst'[q] = inst[q]
    /\ inst'[p] # Idle =>
          /\ inst'[p].at = inst[p].at
          /\ DOMAIN inst'[p].batch \subseteq DOMAIN inst[p].batch
          /\ \A e \in DOMAIN inst'[p].batch : inst'[p].batch[e] = inst[p].batch[e]

LEMMA HandledKeeps ==
    ASSUME TypeOK, NEW p \in Instances, inst[p].pc \in {"publish", "fail"}, Handled(p)
    PROVE  /\ inst' \in [Instances -> InstState]
           /\ \A q \in Instances : inst'[q].pc \in {"publish", "fail"} => q # p
           /\ inst'[p] # Idle => inst[p].cur \notin DOMAIN inst'[p].batch
           /\ Keeps(p)
  <1> DEFINE b == Without(inst[p].batch, inst[p].cur)
             new == IF DOMAIN inst[p].batch = {inst[p].cur} THEN Idle
                    ELSE [pc |-> "add", at |-> inst[p].at, batch |-> b]
  <1>1. inst[p].at \in Nat /\ inst[p].batch \in Batch
    <2>1. inst[p] \in [pc: {"publish", "fail"}, at: Nat, batch: Batch, cur: Events]
      BY InstShape
    <2> QED
      BY <2>1
  <1>2. /\ b \in Batch /\ DOMAIN b = DOMAIN inst[p].batch \ {inst[p].cur}
        /\ \A f \in DOMAIN b : b[f] = inst[p].batch[f]
    <2> DEFINE a == inst[p].batch
               c == inst[p].cur
    <2>1. a \in Batch
      BY <1>1
    <2> HIDE DEF a, c
    <2>2. /\ Without(a, c) \in Batch /\ DOMAIN Without(a, c) = DOMAIN a \ {c}
          /\ \A f \in DOMAIN a \ {c} : Without(a, c)[f] = a[f]
      BY <2>1, BatchShape
    <2> QED
      BY <2>2 DEF a, c
  <1>3. inst' = [inst EXCEPT ![p] = new]
    BY DEF Handled
  <1> HIDE DEF b
  <1>4. new \in InstState
    BY <1>1, <1>2 DEF InstState
  <1>5. inst \in [Instances -> InstState]
    BY DEF TypeOK
  <1>6. inst'[p] = new /\ \A q \in Instances \ {p} : inst'[q] = inst[q]
    BY <1>3, <1>5
  <1>7. \/ new = Idle
        \/ new.pc = "add" /\ new.at = inst[p].at /\ new.batch = b
    OBVIOUS
  <1> HIDE DEF new
  <1>8. inst' \in [Instances -> InstState]
    BY <1>3, <1>4, <1>5
  <1>9. \A q \in Instances : inst'[q].pc \in {"publish", "fail"} => q # p
    BY <1>6, <1>7 DEF Idle
  <1>10. inst'[p] # Idle => inst[p].cur \notin DOMAIN inst'[p].batch
    BY <1>2, <1>6, <1>7
  <1>11. Keeps(p)
    BY <1>2, <1>6, <1>7 DEF Keeps
  <1> QED
    BY <1>8, <1>9, <1>10, <1>11

LEMMA KeepsExclusion ==
    ASSUME LeaseExcludes, NEW p \in Instances, Keeps(p), inst[p] # Idle
    PROVE  LeaseExcludes'
  <1> SUFFICES ASSUME NEW q \in Instances, NEW r \in Instances,
                      q # r, inst'[q] # Idle, inst'[r] # Idle,
                      DOMAIN inst'[q].batch \cap DOMAIN inst'[r].batch # {}
               PROVE  \/ inst'[q].at + Lease < inst'[r].at
                      \/ inst'[r].at + Lease < inst'[q].at
    BY DEF LeaseExcludes
  <1>1. /\ inst[q] # Idle /\ inst'[q].at = inst[q].at
        /\ DOMAIN inst'[q].batch \subseteq DOMAIN inst[q].batch
    BY DEF Keeps
  <1>2. /\ inst[r] # Idle /\ inst'[r].at = inst[r].at
        /\ DOMAIN inst'[r].batch \subseteq DOMAIN inst[r].batch
    BY DEF Keeps
  <1> QED
    BY <1>1, <1>2 DEF LeaseExcludes

-----------------------------------------------------------------------------
(* One lemma per kind of step.                                               *)

LEMMA InitInv == Init => OutboxInv
  <1> SUFFICES ASSUME Init PROVE OutboxInv
    OBVIOUS
  <1>1. TypeOK
    <2>1. [status |-> "ABSENT", attempts |-> 0, availableAt |-> 0,
           lockedAt |-> None, lockedBy |-> None] \in Row
      BY DEF Row
    <2>2. Idle \in InstState /\ Idle.pc = "idle"
      BY DEF Idle, InstState
    <2> QED
      BY <2>1, <2>2 DEF Init, TypeOK
  <1>2. QueuedFirst
    BY DEF Init, QueuedFirst, PublishedWasQueued, Idle
  <1>3. OwnsOrLost /\ LeaseExcludes
    BY DEF Init, OwnsOrLost, LeaseExcludes
  <1> QED
    BY <1>1, <1>2, <1>3 DEF OutboxInv

LEMMA RecordInv ==
    ASSUME OutboxInv, NEW e \in Events, Record(e)
    PROVE  OutboxInv'
  <1> DEFINE row == [event[e] EXCEPT !.status = "PENDING", !.availableAt = now]
  <1>1. event[e] \in Row /\ event \in [Events -> Row] /\ now \in Nat
    BY DEF OutboxInv, TypeOK
  <1>2. event' = [event EXCEPT ![e] = row]
    BY <1>1 DEF Record
  <1>3. row \in Row /\ row.status = "PENDING"
    BY <1>1 DEF Row
  <1> HIDE DEF row
  <1>4. UNCHANGED <<inst, jobs, now, faults>> /\ event[e].status = "ABSENT"
    BY DEF Record
  <1>5. TypeOK'
    BY <1>1, <1>2, <1>3, <1>4 DEF OutboxInv, TypeOK
  <1>6. QueuedFirst'
    BY <1>1, <1>2, <1>3, <1>4 DEF OutboxInv, QueuedFirst, PublishedWasQueued
  <1>7. \A p \in Instances, f \in Events :
           /\ Holds(p, f)' <=> Holds(p, f)
           /\ Holds(p, f) => event'[f] = event[f]
    BY <1>1, <1>2, <1>3, <1>4 DEF Holds
  <1>8. OwnsOrLost'
    <2>1. \A p \in Instances : inst[p] # Idle => DOMAIN inst[p].batch \subseteq Events
      BY InstShape, BatchShape DEF OutboxInv
    <2>2. ASSUME NEW p \in Instances, inst[p] # Idle, NEW f \in DOMAIN inst[p].batch
          PROVE  /\ Holds(p, f)' => /\ event'[f].lockedAt = inst[p].at
                                    /\ event'[f].attempts = inst[p].batch[f]
                 /\ ~Holds(p, f)' => inst[p].at + Lease < now
      <3>1. /\ Holds(p, f)' <=> Holds(p, f)
            /\ Holds(p, f) => event'[f] = event[f]
        BY <1>7, <2>1, <2>2
      <3> QED
        BY <2>2, <3>1 DEF OutboxInv, OwnsOrLost
    <2>3. \A p \in Instances : inst[p] # Idle => inst[p].at <= now
      BY DEF OutboxInv, OwnsOrLost
    <2> QED
      BY <1>4, <2>2, <2>3 DEF OwnsOrLost
  <1>9. LeaseExcludes'
    BY <1>4 DEF OutboxInv, LeaseExcludes
  <1> QED
    BY <1>5, <1>6, <1>8, <1>9 DEF OutboxInv

LEMMA TickInv ==
    ASSUME OutboxInv, Tick
    PROVE  OutboxInv'
  <1>1. UNCHANGED <<event, inst, jobs, faults>> /\ now' = now + 1 /\ now \in Nat
    BY DEF Tick, OutboxInv, TypeOK
  <1>2. TypeOK' /\ QueuedFirst' /\ LeaseExcludes'
    BY <1>1 DEF OutboxInv, TypeOK, QueuedFirst, PublishedWasQueued, LeaseExcludes
  <1>3. \A p \in Instances : inst[p] # Idle => inst[p].at \in Nat
    BY InstShape DEF OutboxInv
  <1>4. OwnsOrLost'
    BY <1>1, <1>3 DEF OutboxInv, OwnsOrLost, Holds
  <1> QED
    BY <1>2, <1>4 DEF OutboxInv

LEMMA AbandonInv ==
    ASSUME OutboxInv, NEW p \in Instances, Abandon(p)
    PROVE  OutboxInv'
  <1>1. /\ inst' = [inst EXCEPT ![p] = Idle] /\ faults' \in Nat
        /\ UNCHANGED <<event, jobs, now>> /\ inst[p] # Idle
    BY DEF Abandon, OutboxInv, TypeOK
  <1>2. inst \in [Instances -> InstState] /\ Idle \in InstState /\ Idle.pc = "idle"
    BY DEF OutboxInv, TypeOK, InstState, Idle
  <1>3. TypeOK'
    BY <1>1, <1>2 DEF OutboxInv, TypeOK
  <1>4. QueuedFirst' /\ OwnsOrLost'
    BY <1>1, <1>2 DEF OutboxInv, QueuedFirst, PublishedWasQueued, OwnsOrLost, Holds
  <1>5. Keeps(p)
    BY <1>1, <1>2 DEF Keeps
  <1> QED
    BY <1>1, <1>3, <1>4, <1>5, KeepsExclusion DEF OutboxInv

(* Enqueue, EnqueueFail and PublishedError move the instance only.           *)
LEMMA MoveInv ==
    ASSUME OutboxInv, NEW p \in Instances,
           Enqueue(p) \/ EnqueueFail(p) \/ PublishedError(p)
    PROVE  OutboxInv'
  <1>1. /\ UNCHANGED <<event, now>> /\ faults' \in Nat
        /\ jobs \subseteq jobs'
        /\ inst[p].pc \in {"add", "publish"}
    BY DEF Enqueue, EnqueueFail, PublishedError, OutboxInv, TypeOK
  <1>2. inst[p].at \in Nat /\ inst[p].batch \in Batch /\ inst[p] # Idle
    BY <1>1, InstShape DEF OutboxInv, Idle
  <1>3. DOMAIN inst[p].batch \subseteq Events
    BY <1>2, BatchShape
  <1>4. \E e \in DOMAIN inst[p].batch, pc \in {"publish", "fail"} :
           /\ inst' = [inst EXCEPT ![p] = At(p, pc, e)]
           /\ jobs' \subseteq jobs \cup {e}
           /\ pc = "publish" => e \in jobs'
    <2>1. CASE Enqueue(p) \/ EnqueueFail(p)
      BY <2>1 DEF Enqueue, EnqueueFail
    <2>2. CASE PublishedError(p)
      <3>1. inst[p] \in [pc: {"publish", "fail"}, at: Nat, batch: Batch, cur: Events]
        BY <2>2, InstShape DEF PublishedError, OutboxInv
      <3>2. inst[p].cur \in DOMAIN inst[p].batch
        BY <2>2 DEF PublishedError, OutboxInv, TypeOK
      <3>3. [inst[p] EXCEPT !.pc = "fail"] = At(p, "fail", inst[p].cur)
        BY <3>1 DEF At
      <3>4. inst' = [inst EXCEPT ![p] = At(p, "fail", inst[p].cur)]
        BY <2>2, <3>3 DEF PublishedError, OutboxInv, TypeOK
      <3>5. UNCHANGED jobs
        BY <2>2 DEF PublishedError
      <3> QED
        BY <3>2, <3>4, <3>5
    <2> QED
      BY <2>1, <2>2
  <1>5. PICK e \in DOMAIN inst[p].batch, pc \in {"publish", "fail"} :
           /\ inst' = [inst EXCEPT ![p] = At(p, pc, e)]
           /\ jobs' \subseteq jobs \cup {e}
           /\ pc = "publish" => e \in jobs'
    BY <1>4
  <1>6. /\ At(p, pc, e) \in InstState
        /\ At(p, pc, e).pc = pc /\ At(p, pc, e).cur = e
        /\ At(p, pc, e).at = inst[p].at /\ At(p, pc, e).batch = inst[p].batch
    BY <1>2, <1>3 DEF At, InstState
  <1>7. inst \in [Instances -> InstState] /\ jobs \subseteq Events
    BY DEF OutboxInv, TypeOK
  <1>8. inst'[p] = At(p, pc, e) /\ \A q \in Instances \ {p} : inst'[q] = inst[q]
    BY <1>5, <1>7
  <1>9. TypeOK'
    BY <1>1, <1>3, <1>5, <1>6, <1>7, <1>8 DEF OutboxInv, TypeOK
  <1>10. QueuedFirst'
    BY <1>1, <1>5, <1>6, <1>8 DEF OutboxInv, QueuedFirst, PublishedWasQueued
  <1>11. OwnsOrLost'
    BY <1>1, <1>2, <1>6, <1>8 DEF OutboxInv, OwnsOrLost, Holds
  <1>12. Keeps(p)
    BY <1>6, <1>8 DEF Keeps
  <1> QED
    BY <1>2, <1>9, <1>10, <1>11, <1>12, KeepsExclusion DEF OutboxInv

(* Published and Failed write the row if it is still owned.                  *)
LEMMA WriteInv ==
    ASSUME OutboxInv, NEW p \in Instances, Published(p) \/ Failed(p)
    PROVE  OutboxInv'
  <1> DEFINE e == inst[p].cur
  <1>1. /\ inst[p].pc \in {"publish", "fail"} /\ inst[p] # Idle
        /\ Handled(p) /\ UNCHANGED <<jobs, now, faults>>
        /\ TypeOK /\ event \in [Events -> Row] /\ now \in Nat
    BY DEF Published, Failed, OutboxInv, TypeOK, Idle
  <1>2. /\ e \in Events /\ e \in DOMAIN inst[p].batch
        /\ inst[p].batch[e] \in 0 .. MaxAttempts - 1
    BY <1>1, InstShape, BatchShape DEF TypeOK
  <1>3. \/ event' = event /\ ~Holds(p, e)
        \/ /\ Holds(p, e)
           /\ \E row \in Row :
                 /\ event' = [event EXCEPT ![e] = row]
                 /\ row.status \in {"PUBLISHED", "PENDING", "FAILED"}
                 /\ row.status = "PUBLISHED" => inst[p].pc = "publish"
    <2>1. CASE Published(p) /\ Holds(p, e)
      <3> DEFINE row == [event[e] EXCEPT !.status = "PUBLISHED", !.lockedAt = None,
                                         !.lockedBy = None]
      <3>1. row \in Row /\ row.status = "PUBLISHED"
        BY <1>1, <1>2 DEF Row
      <3>2. event' = [event EXCEPT ![e] = row] /\ inst[p].pc = "publish"
        BY <2>1, <1>1 DEF Published
      <3> HIDE DEF row
      <3> QED
        BY <2>1, <3>1, <3>2
    <2>2. CASE Failed(p) /\ Holds(p, e)
      <3> DEFINE row == Retried(event[e], inst[p].batch[e] + 1)
      <3>1. row \in Row /\ row.status \in {"PENDING", "FAILED"}
        BY <1>1, <1>2, RetriedType
      <3>2. event' = [event EXCEPT ![e] = row]
        BY <2>2, <1>1 DEF Failed
      <3> HIDE DEF row
      <3> QED
        BY <2>2, <3>1, <3>2
    <2> QED
      BY <2>1, <2>2 DEF Published, Failed
  <1>4. /\ inst' \in [Instances -> InstState]
        /\ \A q \in Instances : inst'[q].pc \in {"publish", "fail"} => q # p
        /\ inst'[p] # Idle => e \notin DOMAIN inst'[p].batch
        /\ Keeps(p)
    BY <1>1, HandledKeeps
  <1> HIDE DEF e
  <1>5. /\ event' \in [Events -> Row]
        /\ \A f \in Events \ {e} : event'[f] = event[f]
        /\ event'[e] = event[e] \/ (Holds(p, e) /\ event'[e].status # "PROCESSING")
        /\ event'[e].status = "PUBLISHED" => event[e].status = "PUBLISHED" \/ inst[p].pc = "publish"
    BY <1>1, <1>2, <1>3
  <1>6. TypeOK'
    BY <1>1, <1>4, <1>5 DEF TypeOK, Keeps
  <1>7. QueuedFirst'
    <2>1. inst[p].pc = "publish" => e \in jobs
      BY DEF OutboxInv, QueuedFirst, e
    <2> QED
      BY <1>1, <1>2, <1>4, <1>5, <2>1 DEF OutboxInv, QueuedFirst, PublishedWasQueued, Keeps
  <1>8. OwnsOrLost'
    <2> SUFFICES ASSUME NEW q \in Instances, inst'[q] # Idle
                 PROVE  /\ inst'[q].at <= now'
                        /\ \A f \in DOMAIN inst'[q].batch :
                              /\ Holds(q, f)' => /\ event'[f].lockedAt = inst'[q].at
                                                 /\ event'[f].attempts = inst'[q].batch[f]
                              /\ ~Holds(q, f)' => inst'[q].at + Lease < now'
      BY DEF OwnsOrLost
    <2>1. /\ inst[q] # Idle /\ inst'[q].at = inst[q].at /\ now' = now
          /\ DOMAIN inst'[q].batch \subseteq DOMAIN inst[q].batch
          /\ \A f \in DOMAIN inst'[q].batch : inst'[q].batch[f] = inst[q].batch[f]
      BY <1>1, <1>4 DEF Keeps
    <2>2. /\ inst[q].at <= now
          /\ \A f \in DOMAIN inst[q].batch :
                /\ Holds(q, f) => /\ event[f].lockedAt = inst[q].at
                                  /\ event[f].attempts = inst[q].batch[f]
                /\ ~Holds(q, f) => inst[q].at + Lease < now
      BY <2>1 DEF OutboxInv, OwnsOrLost
    <2>3. DOMAIN inst[q].batch \subseteq Events
      BY <2>1, <1>1, InstShape, BatchShape
    <2>4. ASSUME NEW f \in DOMAIN inst'[q].batch
          PROVE  /\ Holds(q, f)' => /\ event'[f].lockedAt = inst'[q].at
                                    /\ event'[f].attempts = inst'[q].batch[f]
                 /\ ~Holds(q, f)' => inst'[q].at + Lease < now'
      <3>1. f \in DOMAIN inst[q].batch /\ f \in Events /\ inst'[q].batch[f] = inst[q].batch[f]
        BY <2>1, <2>3, <2>4
      <3>2. CASE event'[f] = event[f]
        <4>1. Holds(q, f)' <=> Holds(q, f)
          BY <3>2 DEF Holds
        <4> QED
          BY <2>1, <2>2, <3>1, <3>2, <4>1
      <3>3. CASE f = e /\ Holds(p, e) /\ event'[e].status # "PROCESSING"
        <4>1. q # p
          BY <1>4, <2>4, <3>3
        <4>2. ~Holds(q, f) /\ ~Holds(q, f)'
          BY <3>3, <4>1 DEF Holds
        <4> QED
          BY <2>1, <2>2, <3>1, <4>2
      <3> QED
        BY <1>5, <3>1, <3>2, <3>3
    <2> QED
      BY <2>1, <2>2, <2>4
  <1>9. LeaseExcludes'
    BY <1>1, <1>4, KeepsExclusion DEF OutboxInv
  <1> QED
    BY <1>6, <1>7, <1>8, <1>9 DEF OutboxInv

(* A claim takes an event only from an owner whose lease has run out.        *)
LEMMA ClaimInv ==
    ASSUME OutboxInv, NEW p \in Instances, Claim(p)
    PROVE  OutboxInv'
  <1> DEFINE C == Candidates
             b == [e \in C |-> event[e].attempts]
             new == [pc |-> "add", at |-> now, batch |-> b]
  <1>1. /\ TypeOK /\ event \in [Events -> Row] /\ now \in Nat /\ jobs \subseteq Events
        /\ inst \in [Instances -> InstState]
    BY DEF OutboxInv, TypeOK
  <1>2. C \in SUBSET Events /\ \A e \in C : Claimable(event[e], now)
    BY CandidatesShape
  <1>3. /\ event' = [e \in Events |->
                        IF e \in C
                        THEN [event[e] EXCEPT !.status = "PROCESSING", !.lockedAt = now,
                                              !.lockedBy = p]
                        ELSE event[e]]
        /\ inst' = [inst EXCEPT ![p] = new]
        /\ UNCHANGED <<jobs, now>> /\ faults' \in Nat /\ inst[p] = Idle
    <2>1. faults' \in Nat
      <3>1. faults \in Nat
        BY DEF OutboxInv, TypeOK
      <3>2. faults' = faults \/ (faults > 0 /\ faults' = faults - 1)
        BY DEF Claim
      <3> QED
        BY <3>1, <3>2
    <2> QED
      BY <2>1 DEF Claim
  <1> HIDE DEF C
  <1>4. \A e \in C : event[e].attempts \in 0 .. MaxAttempts - 1
    <2> TAKE e \in C
    <2>1. event[e].attempts \in 0 .. MaxAttempts
      BY <1>1, <1>2 DEF Row
    <2>2. event[e].attempts < MaxAttempts
      BY <1>2 DEF Claimable
    <2> QED
      BY <2>1, <2>2
  <1>5. b \in Batch /\ DOMAIN b = C /\ \A e \in C : b[e] = event[e].attempts
    <2>1. b \in [C -> 0 .. MaxAttempts - 1]
      BY <1>4
    <2>2. b \in Batch
      BY <1>2, <2>1 DEF Batch
    <2> QED
      BY <2>2
  <1> HIDE DEF b
  <1>6. new \in InstState /\ new.pc = "add" /\ new.at = now /\ new.batch = b /\ new # Idle
    BY <1>1, <1>5 DEF InstState, Idle
  <1> HIDE DEF new
  <1>7. inst'[p] = new /\ \A q \in Instances \ {p} : inst'[q] = inst[q]
    BY <1>1, <1>3
  <1>8. \A e \in C : /\ event'[e] \in Row
                     /\ event'[e].status = "PROCESSING"
                     /\ event'[e].lockedAt = now
                     /\ event'[e].lockedBy = p
                     /\ event'[e].attempts = event[e].attempts
    <2> TAKE e \in C
    <2>1. event[e] \in Row
      BY <1>1, <1>2
    <2>2. event'[e] = [event[e] EXCEPT !.status = "PROCESSING", !.lockedAt = now,
                                       !.lockedBy = p]
      BY <1>2, <1>3
    <2> QED
      BY <1>1, <2>1, <2>2 DEF Row
  <1>9. \A e \in Events \ C : event'[e] = event[e]
    BY <1>3
  <1>10. TypeOK'
    <2>1. event' \in [Events -> Row]
      BY <1>1, <1>3, <1>8, <1>9
    <2>2. inst' \in [Instances -> InstState]
      BY <1>1, <1>3, <1>6
    <2>3. \A q \in Instances : inst'[q].pc \in {"publish", "fail"} =>
                                  inst'[q].cur \in DOMAIN inst'[q].batch
      BY <1>1, <1>6, <1>7 DEF TypeOK
    <2> QED
      BY <1>1, <1>3, <2>1, <2>2, <2>3 DEF TypeOK
  <1>11. QueuedFirst'
    <2>1. \A e \in Events : event'[e].status = "PUBLISHED" => event[e].status = "PUBLISHED"
      BY <1>8, <1>9
    <2>2. \A q \in Instances : inst'[q].pc = "publish" => inst'[q] = inst[q]
      BY <1>6, <1>7
    <2>3. PublishedWasQueued'
      BY <1>3, <2>1 DEF OutboxInv, QueuedFirst, PublishedWasQueued
    <2>4. \A q \in Instances : inst[q].pc = "publish" => inst[q].cur \in jobs
      BY DEF OutboxInv, QueuedFirst
    <2>5. jobs' = jobs
      BY <1>3
    <2>6. \A q \in Instances : inst'[q].pc = "publish" => inst'[q].cur \in jobs'
      BY <2>2, <2>4, <2>5
    <2> QED
      BY <2>3, <2>6 DEF QueuedFirst
  <1>12. \A q \in Instances : inst[q] # Idle =>
            /\ inst[q].at \in Nat /\ inst[q].at <= now
            /\ DOMAIN inst[q].batch \subseteq Events
    BY <1>1, InstShape, BatchShape DEF OutboxInv, OwnsOrLost
  <1>13. ASSUME NEW q \in Instances, inst[q] # Idle, NEW e \in DOMAIN inst[q].batch, e \in C
         PROVE  inst[q].at + Lease < now
    <2>1. CASE Holds(q, e)
      <3>1. event[e].lockedAt = inst[q].at
        BY <1>13, <2>1 DEF OutboxInv, OwnsOrLost
      <3>2. event[e].lockedAt < now - Lease
        BY <1>2, <1>13, <2>1 DEF Claimable, Holds
      <3> QED
        BY <1>1, <1>12, <1>13, <3>1, <3>2
    <2>2. CASE ~Holds(q, e)
      BY <1>13, <2>2 DEF OutboxInv, OwnsOrLost
    <2> QED
      BY <2>1, <2>2
  <1>14. OwnsOrLost'
    <2>1. ASSUME NEW q \in Instances, inst'[q] # Idle, NEW f \in DOMAIN inst'[q].batch
          PROVE  /\ Holds(q, f)' => /\ event'[f].lockedAt = inst'[q].at
                                    /\ event'[f].attempts = inst'[q].batch[f]
                 /\ ~Holds(q, f)' => inst'[q].at + Lease < now'
      <3>1. CASE q = p
        <4>1. f \in C
          BY <1>5, <1>6, <1>7, <2>1, <3>1
        <4>2. Holds(q, f)'
          BY <1>8, <3>1, <4>1 DEF Holds
        <4> QED
          BY <1>5, <1>6, <1>7, <1>8, <3>1, <4>1, <4>2
      <3>2. CASE q # p /\ f \in C
        <4>1. ~Holds(q, f)'
          BY <1>8, <3>2 DEF Holds
        <4> QED
          BY <1>3, <1>7, <1>13, <2>1, <3>2, <4>1
      <3>3. CASE q # p /\ f \notin C
        <4>1. inst'[q] = inst[q] /\ f \in Events
          BY <1>7, <1>12, <2>1, <3>3
        <4>2. event'[f] = event[f] /\ (Holds(q, f)' <=> Holds(q, f))
          BY <1>9, <3>3, <4>1 DEF Holds
        <4>3. /\ Holds(q, f) => /\ event[f].lockedAt = inst[q].at
                                /\ event[f].attempts = inst[q].batch[f]
              /\ ~Holds(q, f) => inst[q].at + Lease < now
          BY <2>1, <4>1 DEF OutboxInv, OwnsOrLost
        <4>4. now' = now
          BY <1>3
        <4> QED
          BY <4>1, <4>2, <4>3, <4>4
      <3> QED
        BY <3>1, <3>2, <3>3
    <2>2. ASSUME NEW q \in Instances, inst'[q] # Idle PROVE inst'[q].at <= now'
      <3>1. now' = now
        BY <1>3
      <3>2. CASE q = p
        BY <1>1, <1>6, <1>7, <3>1, <3>2
      <3>3. CASE q # p
        BY <1>7, <1>12, <2>2, <3>1, <3>3
      <3> QED
        BY <3>2, <3>3
    <2> QED
      BY <2>1, <2>2 DEF OwnsOrLost
  <1>15. LeaseExcludes'
    <2> SUFFICES ASSUME NEW q \in Instances, NEW r \in Instances,
                        q # r, inst'[q] # Idle, inst'[r] # Idle,
                        DOMAIN inst'[q].batch \cap DOMAIN inst'[r].batch # {}
                 PROVE  \/ inst'[q].at + Lease < inst'[r].at
                        \/ inst'[r].at + Lease < inst'[q].at
      BY DEF LeaseExcludes
    <2>1. CASE q = p
      BY <1>5, <1>6, <1>7, <1>13, <2>1
    <2>2. CASE r = p
      BY <1>5, <1>6, <1>7, <1>13, <2>2
    <2>3. CASE q # p /\ r # p
      BY <1>7, <2>3 DEF OutboxInv, LeaseExcludes
    <2> QED
      BY <2>1, <2>2, <2>3
  <1> QED
    BY <1>10, <1>11, <1>14, <1>15 DEF OutboxInv

LEMMA StepInv == OutboxInv /\ [Next]_vars => OutboxInv'
  <1> SUFFICES ASSUME OutboxInv, [Next]_vars PROVE OutboxInv'
    OBVIOUS
  <1>1. ASSUME NEW e \in Events, Record(e) PROVE OutboxInv'
    BY <1>1, RecordInv
  <1>2. ASSUME NEW p \in Instances, Claim(p) PROVE OutboxInv'
    BY <1>2, ClaimInv
  <1>3. ASSUME NEW p \in Instances, Enqueue(p) \/ EnqueueFail(p) \/ PublishedError(p)
        PROVE  OutboxInv'
    BY <1>3, MoveInv
  <1>4. ASSUME NEW p \in Instances, Published(p) \/ Failed(p) PROVE OutboxInv'
    BY <1>4, WriteInv
  <1>5. ASSUME NEW p \in Instances, Abandon(p) PROVE OutboxInv'
    BY <1>5, AbandonInv
  <1>6. CASE Tick
    BY <1>6, TickInv
  <1>7. CASE UNCHANGED vars
    BY <1>7 DEF vars, OutboxInv, TypeOK, QueuedFirst, PublishedWasQueued, OwnsOrLost,
                LeaseExcludes, Holds
  <1> QED
    BY <1>1, <1>2, <1>3, <1>4, <1>5, <1>6, <1>7 DEF Next, Work

-----------------------------------------------------------------------------
(* THEOREMS                                                                  *)

LEMMA OutboxInvariant == Spec => []OutboxInv
  BY InitInv, StepInv, PTL DEF Spec

(* The variables keep their types.                                           *)
THEOREM TypeCorrect == Spec => []TypeOK
  <1>1. OutboxInv => TypeOK
    BY DEF OutboxInv
  <1> QED
    BY OutboxInvariant, <1>1, PTL

(* published() writes PUBLISHED only for an event whose job is in a queue.   *)
THEOREM PublishedIsQueued == Spec => []PublishedWasQueued
  <1>1. OutboxInv => PublishedWasQueued
    BY DEF OutboxInv, QueuedFirst
  <1> QED
    BY OutboxInvariant, <1>1, PTL

(* The lease of claim() lets a second instance in only after LEASE_MS.       *)
THEOREM LeaseIsExclusive == Spec => []LeaseExcludes
  <1>1. OutboxInv => LeaseExcludes
    BY DEF OutboxInv
  <1> QED
    BY OutboxInvariant, <1>1, PTL

(* failed() writes the count read at the claim, plus one: since the lease    *)
(* guards the write, every attempt counts exactly once.                      *)
THEOREM AttemptsAreExact == Spec => AttemptsGrowByOne
  <1>1. OutboxInv /\ [Next]_vars => [AttemptsStep]_vars
    <2> SUFFICES ASSUME OutboxInv, Next, NEW e \in Events
                 PROVE  \/ event'[e].attempts = event[e].attempts
                        \/ /\ event'[e].attempts = event[e].attempts + 1
                           /\ event'[e].status \in {"PENDING", "FAILED"}
                           /\ (event'[e].status = "FAILED") <=>
                                 (event'[e].attempts >= MaxAttempts)
      BY DEF AttemptsStep
    <2>1. event \in [Events -> Row] /\ TypeOK /\ now \in Nat /\ event[e] \in Row
      BY DEF OutboxInv, TypeOK
    <2>2. ASSUME NEW f \in Events, Record(f) PROVE event'[e].attempts = event[e].attempts
      BY <2>1, <2>2 DEF Record, Row
    <2>3. ASSUME NEW p \in Instances, Claim(p) PROVE event'[e].attempts = event[e].attempts
      BY <2>1, <2>3 DEF Claim, Row
    <2>4. ASSUME NEW p \in Instances, Published(p)
          PROVE  event'[e].attempts = event[e].attempts
      BY <2>1, <2>4 DEF Published, Row
    <2>5. ASSUME NEW p \in Instances, Failed(p)
          PROVE  \/ event'[e] = event[e]
                 \/ /\ event'[e].attempts = event[e].attempts + 1
                    /\ event'[e].status = IF event'[e].attempts >= MaxAttempts
                                          THEN "FAILED" ELSE "PENDING"
      <3> DEFINE c == inst[p].cur
                 n == inst[p].batch[c]
      <3>1. /\ inst[p] # Idle /\ c \in Events /\ c \in DOMAIN inst[p].batch
            /\ n \in 0 .. MaxAttempts - 1
        <4>1. inst[p] \in [pc: {"publish", "fail"}, at: Nat, batch: Batch, cur: Events]
          BY <2>1, <2>5, InstShape DEF Failed
        <4>2. c \in DOMAIN inst[p].batch
          BY <2>1, <2>5 DEF Failed, TypeOK
        <4>3. inst[p] # Idle
          BY <2>5 DEF Failed, Idle
        <4> QED
          BY <4>1, <4>2, <4>3, BatchShape
      <3>2. Holds(p, c) => event[c].attempts = n
        BY <3>1 DEF OutboxInv, OwnsOrLost
      <3>3. event' = IF Holds(p, c) THEN [event EXCEPT ![c] = Retried(event[c], n + 1)]
                     ELSE event
        BY <2>1, <2>5, <3>1 DEF Failed
      <3>4. /\ Retried(event[c], n + 1).attempts = n + 1
            /\ Retried(event[c], n + 1).status =
                  IF n + 1 >= MaxAttempts THEN "FAILED" ELSE "PENDING"
        BY <2>1, <3>1, RetriedType
      <3> HIDE DEF c, n
      <3> QED
        BY <2>1, <3>1, <3>2, <3>3, <3>4
    <2>6. CASE Tick \/ \E p \in Instances : \/ Enqueue(p) \/ EnqueueFail(p)
                                            \/ PublishedError(p) \/ Abandon(p)
      BY <2>6 DEF Tick, Enqueue, EnqueueFail, PublishedError, Abandon
    <2>7. \A p \in Instances : Failed(p) => event'[e].attempts = event[e].attempts \/
             (/\ event'[e].attempts = event[e].attempts + 1
              /\ event'[e].status \in {"PENDING", "FAILED"}
              /\ (event'[e].status = "FAILED") <=> (event'[e].attempts >= MaxAttempts))
      BY <2>5
    <2> QED
      BY <2>2, <2>3, <2>4, <2>6, <2>7 DEF Next, Work
  <1> QED
    BY OutboxInvariant, <1>1, PTL DEF Spec, AttemptsGrowByOne

(* The refinement needs one fact more: what an instance claimed was recorded.*)
ClaimedWasRecorded ==
    \A p \in Instances : inst[p] # Idle =>
        \A e \in DOMAIN inst[p].batch : event[e].status # "ABSENT"

LEMMA ClaimedInv ==
    ASSUME OutboxInv, ClaimedWasRecorded, [Next]_vars
    PROVE  ClaimedWasRecorded'
  <1> USE DEF ClaimedWasRecorded
  <1>1. TypeOK /\ event \in [Events -> Row] /\ inst \in [Instances -> InstState]
    BY DEF OutboxInv, TypeOK
  <1>2. \A q \in Instances : inst[q] # Idle => DOMAIN inst[q].batch \subseteq Events
    BY <1>1, InstShape, BatchShape
  <1>3. \A e \in Events : event[e].status # "ABSENT" => event'[e].status # "ABSENT"
    <2> SUFFICES ASSUME NEW e \in Events, event[e].status # "ABSENT"
                 PROVE  event'[e].status # "ABSENT"
      OBVIOUS
    <2>1. ASSUME NEW f \in Events, Record(f) PROVE event'[e].status # "ABSENT"
      BY <1>1, <2>1 DEF Record, Row
    <2>2. ASSUME NEW p \in Instances, Claim(p) PROVE event'[e].status # "ABSENT"
      BY <1>1, <2>2 DEF Claim, Row
    <2>3. ASSUME NEW p \in Instances, Published(p) PROVE event'[e].status # "ABSENT"
      BY <1>1, <2>3 DEF Published, Row
    <2>4. ASSUME NEW p \in Instances, Failed(p) PROVE event'[e].status # "ABSENT"
      BY <1>1, <2>4 DEF Failed, Retried, Row
    <2>5. CASE \/ Tick \/ UNCHANGED vars
               \/ \E p \in Instances : \/ Enqueue(p) \/ EnqueueFail(p)
                                       \/ PublishedError(p) \/ Abandon(p)
      BY <2>5 DEF Tick, vars, Enqueue, EnqueueFail, PublishedError, Abandon
    <2> QED
      BY <2>1, <2>2, <2>3, <2>4, <2>5 DEF Next, Work
  <1>4. ASSUME NEW p \in Instances, Claim(p) PROVE ClaimedWasRecorded'
    <2>1. \A e \in Candidates : e \in Events /\ event[e].status # "ABSENT"
      BY CandidatesShape DEF Claimable
    <2> DEFINE new == [pc |-> "add", at |-> now,
                       batch |-> [e \in Candidates |-> event[e].attempts]]
    <2>2. inst' = [inst EXCEPT ![p] = new]
      BY <1>4 DEF Claim
    <2>3. DOMAIN new.batch = Candidates
      OBVIOUS
    <2> HIDE DEF new
    <2>4. inst'[p] = new /\ \A q \in Instances \ {p} : inst'[q] = inst[q]
      BY <1>1, <2>2
    <2> QED
      BY <1>2, <1>3, <2>1, <2>3, <2>4
  <1>5. ASSUME NEW p \in Instances, Keeps(p), inst[p] # Idle PROVE ClaimedWasRecorded'
    <2> SUFFICES ASSUME NEW q \in Instances, inst'[q] # Idle, NEW e \in DOMAIN inst'[q].batch
                 PROVE  event'[e].status # "ABSENT"
      OBVIOUS
    <2>1. inst[q] # Idle /\ e \in DOMAIN inst[q].batch
      BY <1>5 DEF Keeps
    <2> QED
      BY <1>2, <1>3, <2>1
  <1>6. ASSUME NEW p \in Instances, Published(p) \/ Failed(p) PROVE ClaimedWasRecorded'
    <2>1. inst[p].pc \in {"publish", "fail"} /\ Handled(p) /\ inst[p] # Idle
      BY <1>6 DEF Published, Failed, Idle
    <2> QED
      BY <1>1, <1>5, <2>1, HandledKeeps
  <1>7. ASSUME NEW p \in Instances, Enqueue(p) \/ EnqueueFail(p) PROVE ClaimedWasRecorded'
    <2>1. PICK e \in DOMAIN inst[p].batch, pc \in {"publish", "fail"} :
             inst' = [inst EXCEPT ![p] = At(p, pc, e)]
      BY <1>7 DEF Enqueue, EnqueueFail
    <2>2. inst[p] # Idle
      BY <1>7 DEF Enqueue, EnqueueFail, Idle
    <2>3. At(p, pc, e).at = inst[p].at /\ At(p, pc, e).batch = inst[p].batch
      BY DEF At
    <2>4. inst'[p] = At(p, pc, e) /\ \A q \in Instances \ {p} : inst'[q] = inst[q]
      BY <1>1, <2>1
    <2>5. Keeps(p)
      BY <2>3, <2>4 DEF Keeps
    <2> QED
      BY <1>5, <2>2, <2>5
  <1>8. ASSUME NEW p \in Instances, PublishedError(p) PROVE ClaimedWasRecorded'
    <2> DEFINE new == [inst[p] EXCEPT !.pc = "fail"]
    <2>1. inst[p] \in [pc: {"publish", "fail"}, at: Nat, batch: Batch, cur: Events]
      BY <1>1, <1>8, InstShape DEF PublishedError
    <2>2. inst[p] # Idle /\ inst' = [inst EXCEPT ![p] = new]
      BY <1>8 DEF PublishedError, Idle
    <2>3. new.at = inst[p].at /\ new.batch = inst[p].batch
      BY <2>1
    <2> HIDE DEF new
    <2>4. inst'[p] = new /\ \A q \in Instances \ {p} : inst'[q] = inst[q]
      BY <1>1, <2>2
    <2>5. Keeps(p)
      BY <2>3, <2>4 DEF Keeps
    <2> QED
      BY <1>5, <2>2, <2>5
  <1>9. ASSUME NEW p \in Instances, Abandon(p) PROVE ClaimedWasRecorded'
    <2>1. inst[p] # Idle /\ inst' = [inst EXCEPT ![p] = Idle]
      BY <1>9 DEF Abandon
    <2>2. inst'[p] = Idle /\ \A q \in Instances \ {p} : inst'[q] = inst[q]
      BY <1>1, <2>1
    <2>3. Keeps(p)
      BY <2>2 DEF Keeps
    <2> QED
      BY <1>5, <2>1, <2>3
  <1>10. ASSUME UNCHANGED inst PROVE ClaimedWasRecorded'
    BY <1>2, <1>3, <1>10
  <1>11. CASE Tick \/ UNCHANGED vars \/ \E e \in Events : Record(e)
    BY <1>10, <1>11 DEF Tick, vars, Record
  <1> QED
    BY <1>4, <1>6, <1>7, <1>8, <1>9, <1>11 DEF Next, Work

LEMMA StepKeepsPromise ==
    ASSUME OutboxInv, ClaimedWasRecorded, [Next]_vars
    PROVE  [Promise!Next]_(Promise!vars)
  <1> DEFINE abs == [e \in Events |-> AbstractState(event[e])]
  <1>1. /\ TypeOK /\ event \in [Events -> Row] /\ inst \in [Instances -> InstState]
        /\ jobs \subseteq Events
    BY DEF OutboxInv, TypeOK
  <1>2. ASSUME abs' = abs, UNCHANGED jobs PROVE [Promise!Next]_(Promise!vars)
    BY <1>2 DEF Promise!vars
  <1>3. ASSUME NEW e \in Events, Record(e) PROVE Promise!Record(e)
    <2>1. event[e].status = "ABSENT" /\ event'[e].status = "PENDING" /\ UNCHANGED jobs
          /\ \A f \in Events \ {e} : event'[f] = event[f]
      BY <1>1, <1>3 DEF Record, Row
    <2>2. abs[e] = "absent" /\ abs' = [abs EXCEPT ![e] = "recorded"]
      BY <2>1 DEF AbstractState
    <2> QED
      BY <2>1, <2>2 DEF Promise!Record
  <1>4. ASSUME NEW p \in Instances, Claim(p) PROVE abs' = abs /\ UNCHANGED jobs
    <2>1. \A e \in Events : \/ event'[e] = event[e]
                            \/ /\ event'[e].status = "PROCESSING"
                               /\ event[e].status \in {"PENDING", "PROCESSING"}
      BY <1>1, <1>4, CandidatesShape DEF Claim, Claimable, Row
    <2>2. \A e \in Events : AbstractState(event'[e]) = AbstractState(event[e])
      BY <2>1 DEF AbstractState
    <2> QED
      BY <1>4, <2>2 DEF Claim
  <1>5. ASSUME NEW p \in Instances, Enqueue(p) \/ EnqueueFail(p)
        PROVE  [Promise!Next]_(Promise!vars)
    <2>1. PICK e \in DOMAIN inst[p].batch : jobs' \in {jobs, jobs \cup {e}}
      BY <1>5 DEF Enqueue, EnqueueFail
    <2>2. UNCHANGED event /\ inst[p] # Idle
      BY <1>5 DEF Enqueue, EnqueueFail, Idle
    <2>3. e \in Events /\ event[e].status # "ABSENT"
      BY <1>1, <2>1, <2>2, InstShape, BatchShape DEF ClaimedWasRecorded
    <2>4. abs[e] # "absent" /\ abs' = abs
      BY <2>2, <2>3, <1>1 DEF AbstractState, Row
    <2>5. Promise!HandOver(e) \/ UNCHANGED jobs
      BY <2>1, <2>4 DEF Promise!HandOver
    <2> QED
      BY <1>2, <2>3, <2>4, <2>5 DEF Promise!Next
  <1>6. ASSUME NEW p \in Instances, Published(p) PROVE [Promise!Next]_(Promise!vars)
    <2> DEFINE e == inst[p].cur
    <2>1. e \in Events /\ e \in jobs
      BY <1>1, <1>6, InstShape DEF Published, OutboxInv, QueuedFirst
    <2>2. CASE ~Holds(p, e)
      BY <1>2, <1>6, <2>2 DEF Published
    <2>3. CASE Holds(p, e)
      <3>1. /\ event[e].status = "PROCESSING" /\ event'[e].status = "PUBLISHED"
            /\ UNCHANGED jobs /\ \A f \in Events \ {e} : event'[f] = event[f]
        BY <1>1, <1>6, <2>1, <2>3 DEF Published, Holds, Row
      <3> HIDE DEF e
      <3>2. abs[e] = "recorded" /\ abs' = [abs EXCEPT ![e] = "published"]
        BY <2>1, <3>1 DEF AbstractState
      <3>3. Promise!Publish(e)
        BY <2>1, <3>1, <3>2 DEF Promise!Publish
      <3> QED
        BY <2>1, <3>3 DEF Promise!Next
    <2> QED
      BY <2>2, <2>3
  <1>7. ASSUME NEW p \in Instances, Failed(p) PROVE [Promise!Next]_(Promise!vars)
    <2> DEFINE e == inst[p].cur
    <2>1. e \in Events
      BY <1>1, <1>7, InstShape DEF Failed
    <2>2. CASE ~Holds(p, e)
      BY <1>2, <1>7, <2>2 DEF Failed
    <2>3. CASE Holds(p, e)
      <3>1. /\ event[e].status = "PROCESSING" /\ event'[e].status \in {"PENDING", "FAILED"}
            /\ UNCHANGED jobs /\ \A f \in Events \ {e} : event'[f] = event[f]
        BY <1>1, <1>7, <2>1, <2>3 DEF Failed, Holds, Retried, Row
      <3> HIDE DEF e
      <3>2. CASE event'[e].status = "PENDING"
        <4>1. abs' = abs
          BY <2>1, <3>1, <3>2 DEF AbstractState
        <4> QED
          BY <1>2, <3>1, <4>1
      <3>3. CASE event'[e].status = "FAILED"
        <4>1. abs[e] = "recorded" /\ abs' = [abs EXCEPT ![e] = "given up"]
          BY <2>1, <3>1, <3>3 DEF AbstractState
        <4>2. Promise!GiveUp(e)
          BY <3>1, <4>1 DEF Promise!GiveUp
        <4> QED
          BY <2>1, <4>2 DEF Promise!Next
      <3> QED
        BY <3>1, <3>2, <3>3
    <2> QED
      BY <2>2, <2>3
  <1>8. CASE \/ Tick \/ UNCHANGED vars
             \/ \E p \in Instances : PublishedError(p) \/ Abandon(p)
    <2>1. UNCHANGED <<event, jobs>>
      BY <1>8 DEF Tick, vars, PublishedError, Abandon
    <2> QED
      BY <1>2, <2>1
  <1>9. ASSUME NEW e \in Events, Record(e) PROVE [Promise!Next]_(Promise!vars)
    BY <1>3, <1>9 DEF Promise!Next
  <1>10. ASSUME NEW p \in Instances, Claim(p) PROVE [Promise!Next]_(Promise!vars)
    BY <1>2, <1>4, <1>10
  <1> QED
    BY <1>5, <1>6, <1>7, <1>8, <1>9, <1>10 DEF Next, Work

(* The outbox implements DurableEvents: an event is handed over before it is *)
(* called published, and neither a published nor a failed event ever moves,  *)
(* whatever crashes, late publishers and overrun leases.                     *)
THEOREM KeepsThePromise == Spec => KeepsPromise
  <1>1. Init => Promise!Init /\ ClaimedWasRecorded
    BY DEF Init, Promise!Init, AbstractState, ClaimedWasRecorded
  <1>2. OutboxInv /\ ClaimedWasRecorded /\ [Next]_vars => ClaimedWasRecorded'
    BY ClaimedInv
  <1>3. OutboxInv /\ ClaimedWasRecorded /\ [Next]_vars => [Promise!Next]_(Promise!vars)
    BY StepKeepsPromise
  <1> QED
    BY OutboxInvariant, <1>1, <1>2, <1>3, PTL DEF Spec, KeepsPromise, Promise!Spec
=============================================================================
