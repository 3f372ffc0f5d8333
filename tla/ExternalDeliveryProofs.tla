------------------------ MODULE ExternalDeliveryProofs ------------------------
(* What is called DELIVERED was sent, for any number of addresses, jobs,     *)
(* executions and processes, and whatever goes wrong however often.          *)
EXTENDS ExternalDelivery, FiniteSetTheorems, TLAPS

(* Finite sets that shrink or grow by one element.                           *)
LEMMA Shrinks ==
  ASSUME NEW A, IsFiniteSet(A), NEW B, B \subseteq A
  PROVE  IsFiniteSet(B) /\ Cardinality(A) \in Nat /\ Cardinality(B) \in Nat /\ Cardinality(B) <= Cardinality(A)
BY FS_Subset, FS_CardinalityType

LEMMA Grows ==
  ASSUME NEW A, IsFiniteSet(A), NEW x, NEW B, B \subseteq A \cup {x}
  PROVE  IsFiniteSet(B) /\ Cardinality(A) \in Nat /\ Cardinality(B) \in Nat /\ Cardinality(B) <= Cardinality(A) + 1
<1>1. IsFiniteSet(A \cup {x}) /\ Cardinality(A \cup {x}) <= Cardinality(A) + 1 /\ Cardinality(A) \in Nat
  BY FS_AddElement, FS_CardinalityType
<1> QED
  BY <1>1, FS_Subset, FS_CardinalityType

LEMMA LosesOne ==
  ASSUME NEW A, IsFiniteSet(A), NEW x \in A, NEW B, B \subseteq A \ {x}
  PROVE  IsFiniteSet(B) /\ Cardinality(A) \in Nat /\ Cardinality(B) \in Nat /\ Cardinality(B) + 1 <= Cardinality(A)
<1>1. IsFiniteSet(A \ {x}) /\ Cardinality(A \ {x}) = Cardinality(A) - 1 /\ Cardinality(A) \in Nat
  BY FS_RemoveElement, FS_CardinalityType
<1> QED
  BY <1>1, FS_Subset, FS_CardinalityType

USE DeliveryAssumption

(* An execution about to record DELIVERED has had its e-mail accepted.       *)
SentFirst == \A s \in Slots : run[s].pc = "confirm" => sent[run[s].to] > 0

DeliveryInv == TypeOK /\ DeliveredWasSent /\ SentFirst

-----------------------------------------------------------------------------
(* What an execution holds, by its program counter.                          *)
LEMMA RunFields ==
  ASSUME NEW r \in Run
  PROVE  /\ r # Idle => r.owner \in Owners
         /\ r.pc \in {"claim", "unknown", "send", "confirm", "catch"} => r.to \in Addresses
         /\ r.pc = "claim" => r.at \in Nat
         /\ r.pc \in {"send", "confirm", "catch"} => r.attempts \in Nat
         /\ r = Idle <=> r.pc = "idle"
BY DEF Run, Idle

(* An execution between its claim and its record keeps its fields.           *)
LEMMA MoveOn ==
  ASSUME NEW r \in Run, r.pc \in {"send", "confirm", "catch"},
         NEW pc \in {"send", "confirm", "catch"}
  PROVE  /\ [r EXCEPT !.pc = pc] \in Run
         /\ [r EXCEPT !.pc = pc].pc = pc
         /\ [r EXCEPT !.pc = pc].to = r.to
BY DEF Run, Idle

(* What the queue makes of a job that a handler completes or fails.          *)
LEMMA JobFields ==
  ASSUME NEW k \in Job
  PROVE  /\ k.state # "none" => k.tries \in 0 .. Tries - 1 /\ k.stalls \in 0 .. MaxStalls
         /\ k.state = "active" => k.by \in Slots
BY DEF Job, NoJob

LEMMA AfterThrowType ==
  ASSUME NEW k \in Job, k.state = "active", now \in Nat
  PROVE  AfterThrow(k) \in Job
<1>1. k.tries \in 0 .. Tries - 1 /\ k.stalls \in 0 .. MaxStalls
  BY JobFields
<1> QED
  BY <1>1 DEF AfterThrow, Job, NoJob

LEMMA CompleteType ==
  ASSUME TypeOK, NEW s \in Slots, run[s] # Idle, Complete(s)
  PROVE  job' \in [Jobs -> Job] /\ run' \in [Slots -> Run]
BY DEF TypeOK, Complete, Job, Run

LEMMA ThrowType ==
  ASSUME TypeOK, NEW s \in Slots, run[s] # Idle, Throw(s)
  PROVE  job' \in [Jobs -> Job] /\ run' \in [Slots -> Run]
<1>1. run[s].owner \in Owners
  BY RunFields DEF TypeOK
<1>2. JobOf(s) \in Jobs
  BY <1>1 DEF JobOf, Owners
<1>3. HoldsJob(s) => AfterThrow(job[JobOf(s)]) \in Job
  BY <1>2, AfterThrowType DEF HoldsJob, TypeOK
<1>4. job' \in [Jobs -> Job]
  BY <1>2, <1>3 DEF Throw, TypeOK
<1>5. run' \in [Slots -> Run]
  BY DEF Throw, TypeOK, Run
<1> QED
  BY <1>4, <1>5

(* Rows the statements write: a claim keeps the mark of the replay.          *)
Written(d, st, again) == [d EXCEPT !.status = st, !.lockedAt = None, !.lockedBy = None, !.requeued = again]
Claimed(d, at, by) == [d EXCEPT !.status = "PROCESSING", !.lockedAt = at, !.lockedBy = by]

LEMMA WrittenRow ==
  ASSUME NEW d \in Row, NEW st \in {"PENDING", "DELIVERED", "DELIVERY_UNKNOWN"}, NEW again \in BOOLEAN
  PROVE  Written(d, st, again) \in Row /\ Written(d, st, again).status = st
BY DEF Row, Written

LEMMA ClaimedRow ==
  ASSUME NEW d \in Row, NEW at \in Nat, NEW by \in Owners
  PROVE  Claimed(d, at, by) \in Row /\ Claimed(d, at, by).status = "PROCESSING"
BY DEF Row, Claimed

LEMMA FailedRow ==
  ASSUME NEW d \in Row, NEW n \in Nat
  PROVE  AfterFailure(d, n) \in Row /\ AfterFailure(d, n).status # "DELIVERED"
<1>1. ASSUME NEW st \in {"FAILED", "PENDING"}
      PROVE  LET e == [d EXCEPT !.status = st, !.attempts = n, !.lockedAt = None, !.lockedBy = None, !.requeued = FALSE]
             IN  e \in Row /\ e.status = st
  BY DEF Row
<1> QED
  BY <1>1 DEF AfterFailure

LEMMA EnsuredRow ==
  ASSUME TypeOK, NEW a \in Addresses
  PROVE  Ensured(a) \in Row /\ (Ensured(a).status = "DELIVERED" => row[a].status = "DELIVERED")
<1>1. row[a] \in Row /\ now \in Nat
  BY DEF TypeOK
<1>2. ASSUME NEW d \in Row PROVE LET e == [d EXCEPT !.status = "PENDING", !.created = now]
                                IN  e \in Row /\ e.status = "PENDING"
  BY <1>1 DEF Row
<1> QED
  BY <1>1, <1>2 DEF Ensured

(* A row replaced by one of its type leaves the others as they are.          *)
LEMMA OneRow ==
  ASSUME TypeOK, NEW a \in Addresses, NEW e \in Row, row' = [row EXCEPT ![a] = e]
  PROVE  /\ row' \in [Addresses -> Row]
         /\ row'[a] = e
         /\ \A b \in Addresses \ {a} : row'[b] = row[b]
BY DEF TypeOK

-----------------------------------------------------------------------------
LEMMA InitHolds == Init => DeliveryInv
BY DEF Init, DeliveryInv, TypeOK, DeliveredWasSent, SentFirst, Row, Job, NoJob, Run, Idle,
       Sweep, NoSweep

(* The actions of the queue change what executions are at, never a row.      *)
LEMMA QueueStep ==
  ASSUME DeliveryInv,
         \/ \E s \in Slots, p \in Processes, j \in Jobs : Take(s, p, j)
         \/ \E j \in Jobs : Stall(j)
         \/ \E p \in Processes : Crash(p)
  PROVE  DeliveryInv'
<1> USE DEF DeliveryInv
<1>1. ASSUME NEW s \in Slots, NEW p \in Processes, NEW j \in Jobs, Take(s, p, j) PROVE DeliveryInv'
  <2>1. job[j].tries \in 0 .. Tries - 1 /\ job[j].stalls \in 0 .. MaxStalls
    BY <1>1, JobFields DEF TypeOK, Take
  <2>2. [state |-> "active", tries |-> job[j].tries, stalls |-> job[j].stalls, by |-> s] \in Job
    BY <2>1 DEF Job
  <2>3. [pc |-> "read", owner |-> <<p, j>>] \in Run
    BY DEF Run, Owners
  <2>4. TypeOK'
    BY <1>1, <2>2, <2>3 DEF Take, TypeOK
  <2>5. SentFirst' /\ DeliveredWasSent'
    BY <1>1 DEF Take, TypeOK, SentFirst, DeliveredWasSent
  <2> QED
    BY <2>4, <2>5
<1>2. ASSUME NEW j \in Jobs, Stall(j) PROVE DeliveryInv'
  <2>1. job[j].tries \in 0 .. Tries - 1 /\ job[j].stalls \in 0 .. MaxStalls
    BY <1>2, JobFields DEF TypeOK, Stall
  <2>2. job' \in [Jobs -> Job]
    <3>1. job[j].stalls < MaxStalls =>
            [state |-> "waiting", tries |-> job[j].tries, stalls |-> job[j].stalls + 1, at |-> now] \in Job
      BY <2>1 DEF Job, TypeOK
    <3>2. NoJob \in Job
      BY DEF Job
    <3> QED
      BY <1>2, <3>1, <3>2 DEF Stall, TypeOK
  <2>3. faults' \in 0 .. MaxFaults
    BY <1>2 DEF Stall, MishapIf, Mishap, TypeOK
  <2>4. TypeOK'
    BY <1>2, <2>2, <2>3 DEF Stall, TypeOK
  <2>5. SentFirst' /\ DeliveredWasSent'
    BY <1>2 DEF Stall, SentFirst, DeliveredWasSent
  <2> QED
    BY <2>4, <2>5
<1>3. ASSUME NEW p \in Processes, Crash(p) PROVE DeliveryInv'
  <2>1. run' \in [Slots -> Run]
    BY <1>3 DEF Crash, TypeOK, Run
  <2>2. faults' \in 0 .. MaxFaults
    BY <1>3 DEF Crash, Mishap, TypeOK
  <2>3. \A s \in Slots : run'[s] = Idle \/ run'[s] = run[s]
    BY <1>3 DEF Crash
  <2>4. SentFirst' /\ DeliveredWasSent'
    BY <1>3, <2>3 DEF Crash, SentFirst, DeliveredWasSent, Idle
  <2> QED
    BY <1>3, <2>1, <2>2, <2>4 DEF Crash, TypeOK
<1> QED
  BY <1>1, <1>2, <1>3

(* Before the provider has been asked nothing is DELIVERED or about to be.   *)
LEMMA CheckStep ==
  ASSUME DeliveryInv, NEW s \in Slots,
         Read(s) \/ MarkUnknown(s) \/ Claim(s)
  PROVE  DeliveryInv'
<1> USE DEF DeliveryInv
<1>1. CASE Read(s)
  <2>1. run[s] # Idle /\ run[s].owner \in Owners /\ run[s] \in Run
    BY <1>1, RunFields DEF Read, TypeOK, Idle
  <2>2. CASE contact = None
    BY <1>1, <2>1, <2>2, CompleteType DEF Read, TypeOK, Complete, SentFirst, DeliveredWasSent, Idle
  <2>3. CASE contact # None
    <3> DEFINE d == Ensured(contact)
    <3>1. contact \in Addresses /\ d \in Row
      BY <2>3, EnsuredRow DEF TypeOK
    <3>2. d.status = "DELIVERED" => row[contact].status = "DELIVERED"
      BY <3>1, EnsuredRow
    <3>3. row' = [row EXCEPT ![contact] = d] /\ UNCHANGED <<contact, sweep, sent, now, faults, changes>>
      BY <1>1, <2>3 DEF Read
    <3>4. row' \in [Addresses -> Row] /\ DeliveredWasSent'
      BY <3>1, <3>2, <3>3 DEF TypeOK, DeliveredWasSent
    <3>5. job' \in [Jobs -> Job] /\ run' \in [Slots -> Run] /\ SentFirst'
      <4>1. CASE Complete(s)
        BY <2>1, <3>3, <4>1, CompleteType DEF Complete, SentFirst, TypeOK, Idle
      <4>2. CASE Throw(s)
        BY <2>1, <3>3, <4>2, ThrowType DEF Throw, SentFirst, TypeOK, Idle
      <4>3. CASE /\ run' = [run EXCEPT ![s] = [pc |-> "unknown", owner |-> run[s].owner, to |-> contact, seen |-> d]]
                 /\ UNCHANGED job
        <5>1. [pc |-> "unknown", owner |-> run[s].owner, to |-> contact, seen |-> d] \in Run
          BY <2>1, <3>1 DEF Run
        <5> QED
          BY <3>3, <4>3, <5>1 DEF TypeOK, SentFirst
      <4>4. CASE /\ run' = [run EXCEPT ![s] = [pc |-> "claim", owner |-> run[s].owner, to |-> contact, at |-> now]]
                 /\ UNCHANGED job
        <5>1. [pc |-> "claim", owner |-> run[s].owner, to |-> contact, at |-> now] \in Run
          BY <2>1, <3>1 DEF Run, TypeOK
        <5> QED
          BY <3>3, <4>4, <5>1 DEF TypeOK, SentFirst
      <4> QED
        BY <1>1, <2>3, <4>1, <4>2, <4>3, <4>4 DEF Read
    <3> QED
      BY <3>3, <3>4, <3>5 DEF TypeOK
  <2> QED
    BY <2>2, <2>3
<1>2. CASE MarkUnknown(s)
  <2>1. run[s] # Idle /\ run[s].to \in Addresses
    BY <1>2, RunFields DEF MarkUnknown, TypeOK, Idle
  <2>2. row' \in [Addresses -> Row] /\ \A a \in Addresses : row'[a].status = "DELIVERED" => row[a].status = "DELIVERED"
    <3> DEFINE d == row[run[s].to]
               e == Written(d, "DELIVERY_UNKNOWN", FALSE)
    <3>1. d \in Row
      BY <2>1 DEF TypeOK
    <3>2. e \in Row /\ e.status = "DELIVERY_UNKNOWN"
      BY <3>1, WrittenRow
    <3>3. row' = row \/ row' = [row EXCEPT ![run[s].to] = e]
      BY <1>2 DEF MarkUnknown, Written
    <3>4. CASE row' = row
      BY <3>4 DEF TypeOK
    <3>5. CASE row' = [row EXCEPT ![run[s].to] = e]
      BY <2>1, <3>2, <3>5, OneRow
    <3> QED
      BY <3>3, <3>4, <3>5
  <2> QED
    BY <1>2, <2>1, <2>2, CompleteType DEF MarkUnknown, TypeOK, Complete, SentFirst, DeliveredWasSent, Idle
<1>3. CASE Claim(s)
  <2> DEFINE a == run[s].to
  <2>1. /\ run[s] # Idle /\ a \in Addresses /\ run[s].owner \in Owners /\ run[s].at \in Nat
    BY <1>3, RunFields DEF Claim, TypeOK, Idle
  <2>2. CASE Claimable(row[a], run[s].at)
    <3>1. row' \in [Addresses -> Row] /\ \A b \in Addresses : row'[b].status = "DELIVERED" => row[b].status = "DELIVERED"
      <4> DEFINE e == Claimed(row[a], run[s].at, run[s].owner)
      <4>1. row[a] \in Row
        BY <2>1 DEF TypeOK
      <4>2. e \in Row /\ e.status = "PROCESSING"
        BY <2>1, <4>1, ClaimedRow
      <4>3. row' = [row EXCEPT ![a] = e]
        BY <1>3, <2>2 DEF Claim, Claimed
      <4> QED
        BY <2>1, <4>2, <4>3, OneRow
    <3>2. [pc |-> "send", owner |-> run[s].owner, to |-> a, attempts |-> row[a].attempts] \in Run
      BY <2>1 DEF Run, TypeOK, Row
    <3>3. run' \in [Slots -> Run] /\ SentFirst'
      BY <1>3, <2>2, <3>2 DEF Claim, TypeOK, SentFirst
    <3>4. faults' \in 0 .. MaxFaults
      BY <1>3, <2>2 DEF Claim, MishapIf, Mishap, TypeOK
    <3> QED
      BY <1>3, <2>2, <3>1, <3>3, <3>4 DEF Claim, TypeOK, DeliveredWasSent
  <2>3. CASE ~Claimable(row[a], run[s].at)
    BY <1>3, <2>1, <2>3, CompleteType DEF Claim, TypeOK, Complete, SentFirst, DeliveredWasSent, Idle
  <2> QED
    BY <2>2, <2>3
<1> QED
  BY <1>1, <1>2, <1>3

(* SendOk counts the e-mail before the execution reaches "confirm".          *)
LEMMA SendStep ==
  ASSUME DeliveryInv, NEW s \in Slots,
         SendOk(s) \/ SendFail(s) \/ SentUnrecorded(s)
  PROVE  DeliveryInv'
<1> USE DEF DeliveryInv
<1>1. run[s].pc \in {"send", "confirm"} /\ run[s] \in Run /\ run[s].to \in Addresses
  BY RunFields DEF SendOk, SendFail, SentUnrecorded, TypeOK
<1>2. PICK pc \in {"confirm", "catch"} : At(s, pc) /\ (pc = "confirm" => SendOk(s))
  BY DEF SendOk, SendFail, SentUnrecorded
<1>3. /\ run' \in [Slots -> Run] /\ run'[s].pc = pc /\ run'[s].to = run[s].to
      /\ \A t \in Slots \ {s} : run'[t] = run[t]
  <2>1. [run[s] EXCEPT !.pc = pc] \in Run /\ [run[s] EXCEPT !.pc = pc].pc = pc
        /\ [run[s] EXCEPT !.pc = pc].to = run[s].to
    BY <1>1, MoveOn
  <2>2. run' = [run EXCEPT ![s] = [run[s] EXCEPT !.pc = pc]]
    BY <1>2 DEF At
  <2> QED
    BY <2>1, <2>2 DEF TypeOK
<1>4. /\ sent' \in [Addresses -> Nat] /\ \A a \in Addresses : sent'[a] >= sent[a]
      /\ pc = "confirm" => sent'[run[s].to] > 0
  BY <1>1, <1>2 DEF SendOk, SendFail, SentUnrecorded, TypeOK
<1>5. faults' \in 0 .. MaxFaults
  BY DEF SendOk, SendFail, SentUnrecorded, Mishap, TypeOK
<1>6. UNCHANGED <<row, contact, job, sweep, now, changes>>
  BY DEF SendOk, SendFail, SentUnrecorded
<1>7. TypeOK'
  BY <1>3, <1>4, <1>5, <1>6 DEF TypeOK
<1>8. DeliveredWasSent'
  BY <1>4, <1>6 DEF DeliveredWasSent, TypeOK
<1>9. SentFirst'
  <2>1. ASSUME NEW t \in Slots, run'[t].pc = "confirm" PROVE sent'[run'[t].to] > 0
    <3>1. CASE t = s
      BY <1>3, <1>4, <2>1, <3>1
    <3>2. CASE t # s
      <4>1. run'[t] = run[t] /\ run[t].to \in Addresses
        BY <1>3, <2>1, <3>2, RunFields DEF TypeOK
      <4> QED
        BY <1>4, <2>1, <4>1 DEF SentFirst, TypeOK
    <3> QED
      BY <3>1, <3>2
  <2> QED
    BY <2>1 DEF SentFirst
<1> QED
  BY <1>7, <1>8, <1>9

(* DELIVERED is written by an execution whose own e-mail was accepted.       *)
LEMMA OutcomeStep ==
  ASSUME DeliveryInv, NEW s \in Slots,
         Confirm(s) \/ Catch(s) \/ DatabaseError(s)
  PROVE  DeliveryInv'
<1> USE DEF DeliveryInv
<1>1. run[s] # Idle /\ run[s] \in Run
  BY RunFields DEF Confirm, Catch, DatabaseError, TypeOK, Idle
<1>2. CASE Confirm(s)
  <2>1. run[s].to \in Addresses /\ sent[run[s].to] > 0
    BY <1>1, <1>2, RunFields DEF Confirm, SentFirst
  <2>2. row' \in [Addresses -> Row] /\ DeliveredWasSent'
    <3> DEFINE d == row[run[s].to]
               e == Written(d, "DELIVERED", FALSE)
    <3>1. d \in Row
      BY <2>1 DEF TypeOK
    <3>2. e \in Row
      BY <3>1, WrittenRow
    <3>3. (row' = row \/ row' = [row EXCEPT ![run[s].to] = e]) /\ sent' = sent
      BY <1>2 DEF Confirm, Written
    <3>4. CASE row' = row
      BY <3>3, <3>4 DEF TypeOK, DeliveredWasSent
    <3>5. CASE row' = [row EXCEPT ![run[s].to] = e]
      BY <2>1, <3>2, <3>3, <3>5, OneRow DEF DeliveredWasSent
    <3> QED
      BY <3>3, <3>4, <3>5
  <2> QED
    BY <1>1, <1>2, <2>2, CompleteType DEF Confirm, TypeOK, Complete, SentFirst, Idle
<1>3. CASE Catch(s)
  <2>1. run[s].to \in Addresses /\ run[s].attempts + 1 \in Nat
    BY <1>1, <1>3, RunFields DEF Catch
  <2>2. row' \in [Addresses -> Row] /\ \A a \in Addresses : row'[a].status = "DELIVERED" => row[a].status = "DELIVERED"
    <3> DEFINE e == AfterFailure(row[run[s].to], run[s].attempts + 1)
    <3>1. row[run[s].to] \in Row
      BY <2>1 DEF TypeOK
    <3>2. e \in Row /\ e.status # "DELIVERED"
      BY <2>1, <3>1, FailedRow
    <3>3. row' = row \/ row' = [row EXCEPT ![run[s].to] = e]
      BY <1>3 DEF Catch
    <3>4. CASE row' = row
      BY <3>4 DEF TypeOK
    <3>5. CASE row' = [row EXCEPT ![run[s].to] = e]
      BY <2>1, <3>2, <3>5, OneRow
    <3> QED
      BY <3>3, <3>4, <3>5
  <2> QED
    BY <1>1, <1>3, <2>2, ThrowType DEF Catch, TypeOK, Throw, SentFirst, DeliveredWasSent, Idle
<1>4. CASE DatabaseError(s)
  <2>1. Throw(s) /\ Mishap /\ UNCHANGED <<row, contact, sweep, sent, now, changes>>
    BY <1>4 DEF DatabaseError
  <2>2. job' \in [Jobs -> Job] /\ run' \in [Slots -> Run]
    BY <1>1, <2>1, ThrowType
  <2>3. faults' \in 0 .. MaxFaults
    BY <2>1 DEF Mishap, TypeOK
  <2>4. SentFirst' /\ DeliveredWasSent'
    BY <2>1 DEF Throw, TypeOK, SentFirst, DeliveredWasSent, Idle
  <2> QED
    BY <2>1, <2>2, <2>3, <2>4 DEF TypeOK
<1> QED
  BY <1>2, <1>3, <1>4

(* The replay only takes a row back to PENDING.                              *)
LEMMA ReplayStep ==
  ASSUME DeliveryInv, Replay \/ ReplayError
  PROVE  DeliveryInv'
<1> USE DEF DeliveryInv
<1>1. CASE ReplaySelect
  BY <1>1 DEF ReplaySelect, ToReplay, TypeOK, Sweep, SentFirst, DeliveredWasSent
<1>2. ASSUME NEW a \in Addresses, ReplayUpdate(a) PROVE DeliveryInv'
  <2>1. row' \in [Addresses -> Row] /\ \A b \in Addresses : row'[b].status = "DELIVERED" => row[b].status = "DELIVERED"
    <3> DEFINE e == Written(row[a], "PENDING", TRUE)
    <3>1. row[a] \in Row
      BY DEF TypeOK
    <3>2. e \in Row /\ e.status = "PENDING"
      BY <3>1, WrittenRow
    <3>3. row' = [row EXCEPT ![a] = e]
      BY <1>2 DEF ReplayUpdate, Written
    <3> QED
      BY <3>2, <3>3, OneRow
  <2>2. sweep' \in Sweep
    BY <1>2 DEF ReplayUpdate, TypeOK, Sweep, NoSweep
  <2>3. faults' \in 0 .. MaxFaults
    BY <1>2 DEF ReplayUpdate, MishapIf, Mishap, TypeOK
  <2> QED
    BY <1>2, <2>1, <2>2, <2>3 DEF ReplayUpdate, TypeOK, SentFirst, DeliveredWasSent
<1>3. CASE ReplayAdd
  <2>1. [state |-> "waiting", tries |-> 0, stalls |-> 0, at |-> now] \in Job
    BY DEF Job, TypeOK
  <2>2. job' \in [Jobs -> Job]
    BY <1>3, <2>1 DEF ReplayAdd, TypeOK
  <2>3. sweep' \in Sweep
    BY <1>3 DEF ReplayAdd, ReplayNext, TypeOK, Sweep, NoSweep
  <2> QED
    BY <1>3, <2>2, <2>3 DEF ReplayAdd, TypeOK, SentFirst, DeliveredWasSent
<1>4. CASE ReplayError
  BY <1>4 DEF ReplayError, Mishap, TypeOK, Sweep, SentFirst, DeliveredWasSent
<1> QED
  BY <1>1, <1>2, <1>3, <1>4 DEF Replay

LEMMA StepHolds == DeliveryInv /\ [Next]_vars => DeliveryInv'
<1> SUFFICES ASSUME DeliveryInv, [Next]_vars PROVE DeliveryInv'
  OBVIOUS
<1>1. CASE ChangeContact
  BY <1>1 DEF ChangeContact, DeliveryInv, TypeOK, SentFirst, DeliveredWasSent
<1>2. CASE Tick
  BY <1>2 DEF Tick, DeliveryInv, TypeOK, SentFirst, DeliveredWasSent
<1>3. CASE UNCHANGED vars
  BY <1>3 DEF vars, DeliveryInv, TypeOK, SentFirst, DeliveredWasSent
<1> QED
  BY <1>1, <1>2, <1>3, QueueStep, CheckStep, SendStep, OutcomeStep, ReplayStep DEF Next, Dispatch

(* Every reachable state is well formed, however many mishaps are allowed.   *)
THEOREM TypeCorrect == Spec => []TypeOK
<1>1. DeliveryInv => TypeOK
  BY DEF DeliveryInv
<1> QED
  BY <1>1, InitHolds, StepHolds, PTL DEF Spec

(* DELIVERED is never written of an e-mail that the provider did not accept, *)
(* whatever stalls, crashes, replays and overtaken executions come together. *)
THEOREM DeliveredIsSent == Spec => []DeliveredWasSent
<1>1. DeliveryInv => DeliveredWasSent
  BY DEF DeliveryInv
<1> QED
  BY <1>1, InitHolds, StepHolds, PTL DEF Spec

-----------------------------------------------------------------------------
(* E-mails to one address against mishaps.  What may still send one: an      *)
(* execution before its send, or about to take its row back, and a row that  *)
(* is free, because it waits or because the execution that claimed it last   *)
(* has gone.  R is the executions, w the row and n the e-mails of address a. *)

AtWork == {"send", "confirm", "catch"}
WorksFor(r, a) == r.pc \in AtWork /\ r.to = a
MaySend(R, a) == {s \in Slots : R[s].pc \in {"send", "catch"} /\ R[s].to = a}
FreeRow(R, w, a) ==
  \/ w.status \in {"ABSENT", "PENDING", "FAILED"}
  \/ w.status = "PROCESSING" /\ \A s \in Slots : WorksFor(R[s], a) => R[s].owner # w.lockedBy

Balanced(n, R, w, mishaps, a) ==
  /\ IsFiniteSet(MaySend(R, a))
  /\ n + Cardinality(MaySend(R, a)) + (IF FreeRow(R, w, a) THEN 1 ELSE 0) <= 1 + mishaps

BudgetInv == \A a \in Addresses : Balanced(sent[a], run, row[a], Spent, a)

(* Nothing new, or a mishap that frees the row, or one that adds a sender.   *)
LEMMA StaysBalanced ==
  ASSUME NEW R, NEW R1, NEW w, NEW w1, NEW a, NEW n \in Nat, NEW m \in Nat, NEW m1 \in Nat, NEW s,
         Balanced(n, R, w, m, a), MaySend(R1, a) \subseteq MaySend(R, a) \cup {s},
         \/ m <= m1 /\ MaySend(R1, a) \subseteq MaySend(R, a) /\ (FreeRow(R1, w1, a) => FreeRow(R, w, a))
         \/ m < m1 /\ MaySend(R1, a) \subseteq MaySend(R, a)
         \/ m < m1 /\ (FreeRow(R1, w1, a) => FreeRow(R, w, a))
         \/ m <= m1 /\ FreeRow(R, w, a) /\ ~FreeRow(R1, w1, a)
         \/ m <= m1 /\ s \in MaySend(R, a) /\ MaySend(R1, a) \subseteq MaySend(R, a) \ {s}
  PROVE  Balanced(n, R1, w1, m1, a)
<1> DEFINE A == MaySend(R, a)
           B == MaySend(R1, a)
           f == IF FreeRow(R, w, a) THEN 1 ELSE 0
           g == IF FreeRow(R1, w1, a) THEN 1 ELSE 0
<1>1. IsFiniteSet(A) /\ n + Cardinality(A) + f <= 1 + m
  BY DEF Balanced
<1>2. IsFiniteSet(B) /\ Cardinality(A) \in Nat /\ Cardinality(B) \in Nat /\ Cardinality(B) <= Cardinality(A) + 1
  BY <1>1, Grows
<1>3. B \subseteq A => Cardinality(B) <= Cardinality(A)
  BY <1>1, Shrinks
<1>4. s \in A /\ B \subseteq A \ {s} => Cardinality(B) + 1 <= Cardinality(A)
  BY <1>1, LosesOne
<1>5. f \in 0 .. 1 /\ g \in 0 .. 1 /\ (FreeRow(R, w, a) <=> f = 1) /\ (FreeRow(R1, w1, a) <=> g = 1)
  OBVIOUS
<1>6. n + Cardinality(B) + g <= 1 + m1
  <2> HIDE DEF A, B, f, g
  <2>1. \/ m <= m1 /\ B \subseteq A /\ (g = 1 => f = 1)
        \/ m < m1 /\ B \subseteq A
        \/ m < m1 /\ (g = 1 => f = 1)
        \/ m <= m1 /\ f = 1 /\ g = 0
        \/ m <= m1 /\ s \in A /\ B \subseteq A \ {s}
    BY <1>5 DEF A, B
  <2>2. PICK k \in Nat, l \in Nat : k = Cardinality(A) /\ l = Cardinality(B)
    BY <1>2
  <2>3. n + k + f <= 1 + m /\ l <= k + 1 /\ (B \subseteq A => l <= k) /\ (s \in A /\ B \subseteq A \ {s} => l + 1 <= k)
    BY <1>1, <1>2, <1>3, <1>4, <2>2
  <2>4. n + l + g <= 1 + m1
    BY <1>5, <2>1, <2>3
  <2> QED
    BY <2>2, <2>4
<1> QED
  BY <1>2, <1>6 DEF Balanced

(* An e-mail is sent: by one of those that may, or without trace, a mishap.  *)
LEMMA SendingBalances ==
  ASSUME NEW R, NEW R1, NEW w, NEW a, NEW n \in Nat, NEW m \in Nat, NEW m1 \in Nat, NEW s \in MaySend(R, a),
         Balanced(n, R, w, m, a), FreeRow(R1, w, a) => FreeRow(R, w, a),
         \/ m1 = m /\ MaySend(R1, a) \subseteq MaySend(R, a) \ {s}
         \/ m1 = m + 1 /\ MaySend(R1, a) \subseteq MaySend(R, a)
  PROVE  Balanced(n + 1, R1, w, m1, a)
<1> DEFINE A == MaySend(R, a)
           B == MaySend(R1, a)
           f == IF FreeRow(R, w, a) THEN 1 ELSE 0
           g == IF FreeRow(R1, w, a) THEN 1 ELSE 0
<1>1. IsFiniteSet(A) /\ n + Cardinality(A) + f <= 1 + m
  BY DEF Balanced
<1>2. IsFiniteSet(B) /\ Cardinality(A) \in Nat /\ Cardinality(B) \in Nat /\ Cardinality(B) <= Cardinality(A)
  BY <1>1, Shrinks
<1>3. B \subseteq A \ {s} => Cardinality(B) + 1 <= Cardinality(A)
  BY <1>1, LosesOne
<1>4. f \in 0 .. 1 /\ g \in 0 .. 1 /\ g <= f
  OBVIOUS
<1>5. (n + 1) + Cardinality(B) + g <= 1 + m1
  <2> HIDE DEF A, B, f, g
  <2>1. (m1 = m /\ B \subseteq A \ {s}) \/ m1 = m + 1
    BY DEF A, B
  <2>2. PICK k \in Nat, l \in Nat : k = Cardinality(A) /\ l = Cardinality(B)
    BY <1>2
  <2>3. n + k + f <= 1 + m /\ l <= k /\ (B \subseteq A \ {s} => l + 1 <= k)
    BY <1>1, <1>2, <1>3, <2>2
  <2>4. (n + 1) + l + g <= 1 + m1
    BY <1>4, <2>1, <2>3
  <2> QED
    BY <2>2, <2>4
<1> QED
  BY <1>2, <1>5 DEF Balanced

(* A slot whose execution does not work for the address, before or after.    *)
LEMMA SlotQuiet ==
  ASSUME NEW R, NEW R1, NEW s, \A t \in Slots \ {s} : R1[t] = R[t], NEW a, NEW w,
         ~WorksFor(R[s], a), ~WorksFor(R1[s], a)
  PROVE  MaySend(R1, a) = MaySend(R, a) /\ (FreeRow(R1, w, a) <=> FreeRow(R, w, a))
BY DEF MaySend, FreeRow, WorksFor, AtWork

(* An execution that leaves frees the row only if it was the last to claim it.*)
LEMMA SlotLeaves ==
  ASSUME NEW R, NEW R1, NEW s, \A t \in Slots \ {s} : R1[t] = R[t], NEW a, NEW w, ~WorksFor(R1[s], a)
  PROVE  /\ MaySend(R1, a) \subseteq MaySend(R, a) \ {s}
         /\ w.lockedBy # R[s].owner /\ FreeRow(R1, w, a) => FreeRow(R, w, a)
BY DEF MaySend, FreeRow, WorksFor, AtWork

LEMMA SpentMoves ==
  ASSUME TypeOK
  PROVE  /\ Spent \in Nat
         /\ faults' = faults => Spent' = Spent
         /\ Mishap => Spent' = Spent + 1
<1>1. faults \in 0 .. MaxFaults
  BY DEF TypeOK
<1> QED
  BY <1>1 DEF Spent, Mishap

(* Steps that send nothing.                                                  *)
LEMMA SilentStep ==
  ASSUME TypeOK, BudgetInv, sent' = sent, faults' = faults \/ Mishap, NEW s,
         \A a \in Addresses :
           \/ MaySend(run', a) \subseteq MaySend(run, a) /\ (FreeRow(run', row'[a], a) => FreeRow(run, row[a], a))
           \/ Mishap /\ MaySend(run', a) \subseteq MaySend(run, a)
           \/ Mishap /\ MaySend(run', a) \subseteq MaySend(run, a) \cup {s} /\ (FreeRow(run', row'[a], a) => FreeRow(run, row[a], a))
           \/ FreeRow(run, row[a], a) /\ ~FreeRow(run', row'[a], a) /\ MaySend(run', a) \subseteq MaySend(run, a) \cup {s}
           \/ s \in MaySend(run, a) /\ MaySend(run', a) \subseteq MaySend(run, a) \ {s}
  PROVE  BudgetInv'
<1>1. PICK m \in Nat : m = Spent
  BY SpentMoves
<1>2. PICK m1 \in Nat : m1 = Spent' /\ m <= m1 /\ (Mishap => m < m1)
  BY <1>1, SpentMoves
<1>3. ASSUME NEW a \in Addresses PROVE Balanced(sent[a], run', row'[a], m1, a)
  <2>1. PICK n \in Nat : n = sent[a]
    BY DEF TypeOK
  <2>2. PICK R, R1, w, w1 : R = run /\ R1 = run' /\ w = row[a] /\ w1 = row'[a]
    OBVIOUS
  <2>3. Balanced(n, R, w, m, a)
    BY <1>1, <2>1, <2>2 DEF BudgetInv
  <2>4. \/ MaySend(R1, a) \subseteq MaySend(R, a) /\ (FreeRow(R1, w1, a) => FreeRow(R, w, a))
        \/ Mishap /\ MaySend(R1, a) \subseteq MaySend(R, a)
        \/ Mishap /\ MaySend(R1, a) \subseteq MaySend(R, a) \cup {s} /\ (FreeRow(R1, w1, a) => FreeRow(R, w, a))
        \/ FreeRow(R, w, a) /\ ~FreeRow(R1, w1, a) /\ MaySend(R1, a) \subseteq MaySend(R, a) \cup {s}
        \/ s \in MaySend(R, a) /\ MaySend(R1, a) \subseteq MaySend(R, a) \ {s}
    BY <2>2
  <2>5. MaySend(R1, a) \subseteq MaySend(R, a) \cup {s}
    BY <2>4
  <2>6. \/ m <= m1 /\ MaySend(R1, a) \subseteq MaySend(R, a) /\ (FreeRow(R1, w1, a) => FreeRow(R, w, a))
        \/ m < m1 /\ MaySend(R1, a) \subseteq MaySend(R, a)
        \/ m < m1 /\ (FreeRow(R1, w1, a) => FreeRow(R, w, a))
        \/ m <= m1 /\ FreeRow(R, w, a) /\ ~FreeRow(R1, w1, a)
        \/ m <= m1 /\ s \in MaySend(R, a) /\ MaySend(R1, a) \subseteq MaySend(R, a) \ {s}
    BY <1>2, <2>4
  <2>7. Balanced(n, R1, w1, m1, a)
    BY <2>3, <2>5, <2>6, StaysBalanced
  <2> QED
    BY <2>1, <2>2, <2>7
<1> QED
  BY <1>2, <1>3 DEF BudgetInv

(* Steps of one slot that works for nobody before and after, and of a row    *)
(* that stays as free as it was.                                             *)
LEMMA RestStep ==
  ASSUME TypeOK, BudgetInv, sent' = sent, faults' = faults \/ Mishap, NEW s \in Slots,
         \A t \in Slots \ {s} : run'[t] = run[t], run[s].pc \notin AtWork, run'[s].pc \notin AtWork,
         \A a \in Addresses : FreeRow(run, row'[a], a) => FreeRow(run, row[a], a)
  PROVE  BudgetInv'
<1>1. ASSUME NEW a \in Addresses
      PROVE  MaySend(run', a) \subseteq MaySend(run, a) /\ (FreeRow(run', row'[a], a) => FreeRow(run, row[a], a))
  <2>1. ~WorksFor(run[s], a) /\ ~WorksFor(run'[s], a)
    BY DEF WorksFor
  <2>2. MaySend(run', a) = MaySend(run, a) /\ (FreeRow(run', row'[a], a) <=> FreeRow(run, row'[a], a))
    BY <2>1, SlotQuiet
  <2> QED
    BY <2>2
<1> QED
  BY <1>1, SilentStep

LEMMA SlotTurns ==
  ASSUME TypeOK, NEW s \in Slots, NEW e, run' = [run EXCEPT ![s] = e]
  PROVE  run'[s] = e /\ \A t \in Slots \ {s} : run'[t] = run[t]
BY DEF TypeOK

LEMMA QueueBudget ==
  ASSUME TypeOK, BudgetInv,
         \/ \E s \in Slots, p \in Processes, j \in Jobs : Take(s, p, j)
         \/ \E j \in Jobs : Stall(j)
         \/ \E p \in Processes : Crash(p)
  PROVE  BudgetInv'
<1>1. ASSUME NEW s \in Slots, NEW p \in Processes, NEW j \in Jobs, Take(s, p, j) PROVE BudgetInv'
  <2>1. /\ run[s].pc \notin AtWork /\ row' = row /\ sent' = sent /\ faults' = faults
        /\ run' = [run EXCEPT ![s] = [pc |-> "read", owner |-> <<p, j>>]]
    BY <1>1 DEF Take, Idle, AtWork
  <2>2. run'[s].pc \notin AtWork /\ \A t \in Slots \ {s} : run'[t] = run[t]
    BY <2>1, SlotTurns DEF AtWork
  <2> QED
    BY <2>1, <2>2, RestStep
<1>2. ASSUME NEW j \in Jobs, Stall(j) PROVE BudgetInv'
  <2>1. run' = run /\ row' = row /\ sent' = sent /\ (faults' = faults \/ Mishap)
    BY <1>2 DEF Stall, MishapIf
  <2> QED
    BY <2>1, SilentStep
<1>3. ASSUME NEW p \in Processes, Crash(p) PROVE BudgetInv'
  <2>1. sent' = sent /\ Mishap
    BY <1>3 DEF Crash
  <2>2. \A s \in Slots : run'[s] = Idle \/ run'[s] = run[s]
    BY <1>3 DEF Crash
  <2>3. \A a \in Addresses : MaySend(run', a) \subseteq MaySend(run, a)
    BY <2>2 DEF MaySend, Idle
  <2> QED
    BY <2>1, <2>3, SilentStep
<1> QED
  BY <1>1, <1>2, <1>3

LEMMA ReadBudget == ASSUME TypeOK, BudgetInv, NEW s \in Slots, Read(s) PROVE BudgetInv'
<1>1. run[s].pc \notin AtWork /\ sent' = sent /\ faults' = faults
  BY DEF Read, AtWork
<1>2. run'[s].pc \notin AtWork /\ \A t \in Slots \ {s} : run'[t] = run[t]
  <2> DEFINE x == [pc |-> "unknown", owner |-> run[s].owner, to |-> contact, seen |-> Ensured(contact)]
             y == [pc |-> "claim", owner |-> run[s].owner, to |-> contact, at |-> now]
  <2>1. run' = [run EXCEPT ![s] = Idle] \/ run' = [run EXCEPT ![s] = x] \/ run' = [run EXCEPT ![s] = y]
    BY DEF Read, Complete, Throw
  <2>2. run'[s] \in {Idle, x, y} /\ \A t \in Slots \ {s} : run'[t] = run[t]
    BY <2>1, SlotTurns
  <2> QED
    BY <2>2 DEF AtWork, Idle
<1>3. ASSUME NEW a \in Addresses, FreeRow(run, row'[a], a) PROVE FreeRow(run, row[a], a)
  <2>1. row' = row \/ (contact \in Addresses /\ row' = [row EXCEPT ![contact] = Ensured(contact)])
    BY DEF Read, TypeOK
  <2>2. row[a].status = "ABSENT" \/ row'[a] = row[a]
    BY <2>1 DEF Ensured, TypeOK
  <2> QED
    BY <1>3, <2>2 DEF FreeRow
<1> QED
  BY <1>1, <1>2, <1>3, RestStep

LEMMA MarkUnknownBudget == ASSUME TypeOK, BudgetInv, NEW s \in Slots, MarkUnknown(s) PROVE BudgetInv'
<1>1. run[s].pc \notin AtWork /\ sent' = sent /\ faults' = faults /\ run[s].to \in Addresses
  BY RunFields DEF MarkUnknown, AtWork, TypeOK
<1>2. run'[s].pc \notin AtWork /\ \A t \in Slots \ {s} : run'[t] = run[t]
  BY SlotTurns DEF MarkUnknown, Complete, Idle, AtWork
<1>3. ASSUME NEW a \in Addresses, FreeRow(run, row'[a], a) PROVE FreeRow(run, row[a], a)
  <2> DEFINE e == Written(row[run[s].to], "DELIVERY_UNKNOWN", FALSE)
  <2>1. row' = row \/ row' = [row EXCEPT ![run[s].to] = e]
    BY DEF MarkUnknown, Written
  <2>2. row[run[s].to] \in Row
    BY <1>1 DEF TypeOK
  <2>3. e \in Row /\ e.status = "DELIVERY_UNKNOWN"
    BY <2>2, WrittenRow
  <2>4. row'[a] = row[a] \/ row'[a].status = "DELIVERY_UNKNOWN"
    BY <1>1, <2>1, <2>3, OneRow
  <2> QED
    BY <1>3, <2>4 DEF FreeRow
<1> QED
  BY <1>1, <1>2, <1>3, RestStep

(* A claim takes the freedom of the row, or is a mishap.                     *)
LEMMA ClaimBudget == ASSUME TypeOK, BudgetInv, NEW s \in Slots, Claim(s) PROVE BudgetInv'
<1> DEFINE b == run[s].to
<1>1. /\ run[s].pc = "claim" /\ sent' = sent /\ b \in Addresses /\ run[s].owner \in Owners /\ run[s].at \in Nat
  BY RunFields DEF Claim, TypeOK, Idle
<1>2. CASE ~Claimable(row[b], run[s].at)
  <2>1. faults' = faults /\ row' = row /\ Complete(s)
    BY <1>2 DEF Claim
  <2>2. run'[s].pc \notin AtWork /\ run[s].pc \notin AtWork /\ \A t \in Slots \ {s} : run'[t] = run[t]
    BY <1>1, <2>1, SlotTurns DEF Complete, Idle, AtWork
  <2> QED
    BY <1>1, <2>1, <2>2, RestStep
<1>3. CASE Claimable(row[b], run[s].at)
  <2> DEFINE e == Claimed(row[b], run[s].at, run[s].owner)
             x == [pc |-> "send", owner |-> run[s].owner, to |-> b, attempts |-> row[b].attempts]
  <2>1. row' = [row EXCEPT ![b] = e] /\ run' = [run EXCEPT ![s] = x] /\ MishapIf(Overtakes(s))
    BY <1>3 DEF Claim, Claimed
  <2>2. run'[s] = x /\ \A t \in Slots \ {s} : run'[t] = run[t]
    BY <2>1, SlotTurns
  <2>3. /\ row'[b] = e /\ e.status = "PROCESSING" /\ e.lockedBy = run[s].owner
        /\ \A a \in Addresses \ {b} : row'[a] = row[a]
    <3>1. row[b] \in Row
      BY <1>1 DEF TypeOK
    <3>2. e \in Row /\ e.status = "PROCESSING"
      BY <1>1, <3>1, ClaimedRow
    <3>3. e.lockedBy = run[s].owner
      BY <3>1 DEF Claimed, Row
    <3> QED
      BY <1>1, <2>1, <3>2, <3>3, OneRow
  <2>4. faults' = faults \/ Mishap
    BY <2>1 DEF MishapIf
  <2>5. ASSUME NEW a \in Addresses, a # b
        PROVE  MaySend(run', a) \subseteq MaySend(run, a) /\ (FreeRow(run', row'[a], a) => FreeRow(run, row[a], a))
    <3>1. ~WorksFor(run[s], a) /\ ~WorksFor(run'[s], a)
      BY <2>2, <2>5 DEF WorksFor
    <3> QED
      BY <2>2, <2>3, <2>5, <3>1, SlotQuiet
  <2>6. MaySend(run', b) \subseteq MaySend(run, b) \cup {s}
    BY <2>2 DEF MaySend
  <2>7. ~FreeRow(run', row'[b], b)
    <3>1. WorksFor(run'[s], b) /\ run'[s].owner = row'[b].lockedBy /\ row'[b].status = "PROCESSING"
      BY <2>2, <2>3 DEF WorksFor, AtWork
    <3> QED
      BY <3>1 DEF FreeRow
  <2>8. Mishap \/ FreeRow(run, row[b], b)
    <3>1. CASE Overtakes(s)
      BY <2>1, <3>1 DEF MishapIf
    <3>2. CASE ~Overtakes(s) /\ row[b].status = "PROCESSING"
      <4>1. row[b].lockedAt < run[s].at - Lease
        BY <1>3, <3>2 DEF Claimable
      <4>2. \A t \in Slots \ {s} : ~WorksFor(run[t], b)
        BY <3>2, <4>1 DEF Overtakes, WorksFor, AtWork
      <4>3. ~WorksFor(run[s], b)
        BY <1>1 DEF WorksFor, AtWork
      <4> QED
        BY <3>2, <4>2, <4>3 DEF FreeRow
    <3>3. CASE row[b].status # "PROCESSING"
      BY <1>3, <3>3 DEF Claimable, FreeRow
    <3> QED
      BY <3>1, <3>2, <3>3
  <2>9. \A a \in Addresses :
           \/ MaySend(run', a) \subseteq MaySend(run, a) /\ (FreeRow(run', row'[a], a) => FreeRow(run, row[a], a))
           \/ Mishap /\ MaySend(run', a) \subseteq MaySend(run, a) \cup {s} /\ (FreeRow(run', row'[a], a) => FreeRow(run, row[a], a))
           \/ FreeRow(run, row[a], a) /\ ~FreeRow(run', row'[a], a) /\ MaySend(run', a) \subseteq MaySend(run, a) \cup {s}
    BY <2>5, <2>6, <2>7, <2>8
  <2> QED
    BY <1>1, <2>4, <2>9, SilentStep
<1> QED
  BY <1>2, <1>3

(* An execution that moves on keeps the row it claimed.                      *)
LEMMA MovesOn ==
  ASSUME TypeOK, NEW s \in Slots, run[s].pc \in {"send", "confirm"}, NEW pc \in {"confirm", "catch"}, At(s, pc)
  PROVE  /\ run[s].to \in Addresses
         /\ \A a, w : FreeRow(run', w, a) <=> FreeRow(run, w, a)
         /\ \A a \in Addresses \ {run[s].to} : MaySend(run', a) = MaySend(run, a)
         /\ pc = "confirm" => MaySend(run', run[s].to) \subseteq MaySend(run, run[s].to) \ {s}
         /\ pc = "catch" => MaySend(run', run[s].to) \subseteq MaySend(run, run[s].to) \cup {s}
         /\ run[s].pc = "send" => s \in MaySend(run, run[s].to)
<1>1. run[s] \in Run /\ run[s].to \in Addresses
  BY RunFields DEF TypeOK
<1> DEFINE e == [run[s] EXCEPT !.pc = pc]
<1>2. e \in Run /\ e.pc = pc /\ e.to = run[s].to /\ e.owner = run[s].owner
  <2>1. e \in Run /\ e.pc = pc /\ e.to = run[s].to
    BY <1>1, MoveOn
  <2>2. e.owner = run[s].owner
    BY <1>1 DEF Run, Idle
  <2> QED
    BY <2>1, <2>2
<1>3. run' = [run EXCEPT ![s] = e]
  BY DEF At
<1> HIDE DEF e
<1>4. run'[s] = e /\ \A t \in Slots \ {s} : run'[t] = run[t]
  BY <1>3, SlotTurns
<1>5. \A a : WorksFor(run'[s], a) <=> WorksFor(run[s], a)
  BY <1>2, <1>4 DEF WorksFor, AtWork
<1>6. ASSUME NEW a, NEW w PROVE FreeRow(run', w, a) <=> FreeRow(run, w, a)
  <2>1. \A t \in Slots : (WorksFor(run'[t], a) <=> WorksFor(run[t], a)) /\ run'[t].owner = run[t].owner
    BY <1>2, <1>4, <1>5
  <2> QED
    BY <2>1 DEF FreeRow
<1>7. ASSUME NEW a \in Addresses, a # run[s].to PROVE MaySend(run', a) = MaySend(run, a)
  <2>1. \A t \in Slots : run'[t].pc \in {"send", "catch"} /\ run'[t].to = a <=> run[t].pc \in {"send", "catch"} /\ run[t].to = a
    BY <1>2, <1>4, <1>7
  <2> QED
    BY <2>1 DEF MaySend
<1>8. /\ pc = "confirm" => MaySend(run', run[s].to) \subseteq MaySend(run, run[s].to) \ {s}
      /\ pc = "catch" => MaySend(run', run[s].to) \subseteq MaySend(run, run[s].to) \cup {s}
      /\ run[s].pc = "send" => s \in MaySend(run, run[s].to)
  BY <1>2, <1>4 DEF MaySend
<1> QED
  BY <1>1, <1>6, <1>7, <1>8

LEMMA SendBudget ==
  ASSUME TypeOK, BudgetInv, NEW s \in Slots, SendOk(s) \/ SendFail(s) \/ SentUnrecorded(s)
  PROVE  BudgetInv'
<1> DEFINE b == run[s].to
<1>1. PICK pc \in {"confirm", "catch"} : At(s, pc) /\ (pc = "confirm" <=> SendOk(s) /\ pc = "confirm")
  BY DEF SendOk, SendFail, SentUnrecorded
<1>2. run[s].pc \in {"send", "confirm"} /\ row' = row
  BY DEF SendOk, SendFail, SentUnrecorded
<1>3. CASE sent' = sent /\ SendFail(s)
  <2>1. At(s, "catch") /\ run[s].pc = "send" /\ faults' = faults
    BY <1>3 DEF SendFail
  <2>2. MaySend(run', b) \subseteq MaySend(run, b)
    BY <2>1, MovesOn
  <2>3. \A a \in Addresses : MaySend(run', a) \subseteq MaySend(run, a) /\ (FreeRow(run', row'[a], a) => FreeRow(run, row[a], a))
    BY <1>2, <2>1, <2>2, MovesOn
  <2> QED
    BY <1>3, <2>1, <2>3, SilentStep
<1>4. CASE SentUnrecorded(s) /\ run[s].pc = "confirm" /\ sent' = sent
  <2>1. At(s, "catch") /\ Mishap
    BY <1>4 DEF SentUnrecorded
  <2>2. \A a \in Addresses :
          MaySend(run', a) \subseteq MaySend(run, a) \cup {s} /\ (FreeRow(run', row'[a], a) => FreeRow(run, row[a], a))
    BY <1>2, <2>1, MovesOn
  <2> QED
    BY <1>4, <2>1, <2>2, SilentStep
<1>5. ASSUME run[s].pc = "send", sent' = [sent EXCEPT ![b] = @ + 1],
             (At(s, "confirm") /\ faults' = faults) \/ (At(s, "catch") /\ Mishap)
      PROVE  BudgetInv'
  <2>1. s \in MaySend(run, b) /\ b \in Addresses
    BY <1>1, <1>5, MovesOn
  <2>2. PICK m \in Nat : m = Spent
    BY SpentMoves
  <2>3. PICK m1 \in Nat : m1 = Spent' /\ m <= m1 /\ (faults' = faults => m1 = m) /\ (Mishap => m1 = m + 1)
    BY <1>5, <2>2, SpentMoves
  <2>4. \A a \in Addresses : FreeRow(run', row[a], a) => FreeRow(run, row[a], a)
    BY <1>1, <1>2, MovesOn
  <2>5. Balanced(sent'[b], run', row[b], m1, b)
    <3>1. PICK n \in Nat : n = sent[b]
      BY <2>1 DEF TypeOK
    <3>2. sent'[b] = n + 1
      BY <1>5, <2>1, <3>1 DEF TypeOK
    <3>3. Balanced(n, run, row[b], m, b)
      BY <2>1, <2>2, <3>1 DEF BudgetInv
    <3>4. PICK R, R1, w : R = run /\ R1 = run' /\ w = row[b]
      OBVIOUS
    <3>5. \/ m1 = m /\ MaySend(R1, b) \subseteq MaySend(R, b) \ {s}
          \/ m1 = m + 1 /\ MaySend(R1, b) \subseteq MaySend(R, b)
      <4>1. CASE At(s, "confirm") /\ faults' = faults
        BY <1>5, <2>3, <3>4, <4>1, MovesOn
      <4>2. CASE At(s, "catch") /\ Mishap
        <5>1. MaySend(run', b) \subseteq MaySend(run, b) \cup {s}
          BY <1>5, <4>2, MovesOn
        <5> QED
          BY <2>1, <2>3, <3>4, <4>2, <5>1
      <4> QED
        BY <1>5, <4>1, <4>2
    <3>6. Balanced(n + 1, R1, w, m1, b)
      BY <2>1, <2>4, <3>3, <3>4, <3>5, SendingBalances
    <3> QED
      BY <3>2, <3>4, <3>6
  <2>6. ASSUME NEW a \in Addresses \ {b} PROVE Balanced(sent'[a], run', row[a], m1, a)
    <3>1. PICK n \in Nat : n = sent[a] /\ n = sent'[a]
      BY <1>5 DEF TypeOK
    <3>2. Balanced(n, run, row[a], m, a)
      BY <2>2, <3>1 DEF BudgetInv
    <3>3. PICK R, R1, w : R = run /\ R1 = run' /\ w = row[a]
      OBVIOUS
    <3>4. MaySend(R1, a) = MaySend(R, a) /\ (FreeRow(R1, w, a) => FreeRow(R, w, a))
      BY <1>1, <1>2, <2>4, <3>3, MovesOn
    <3>5. Balanced(n, R1, w, m1, a)
      BY <2>3, <3>2, <3>3, <3>4, StaysBalanced
    <3> QED
      BY <3>1, <3>3, <3>5
  <2> QED
    BY <1>2, <2>3, <2>5, <2>6 DEF BudgetInv
<1>6. CASE SendOk(s)
  BY <1>5, <1>6 DEF SendOk
<1>7. CASE SendFail(s)
  BY <1>3, <1>7 DEF SendFail
<1>8. CASE SentUnrecorded(s)
  BY <1>4, <1>5, <1>8 DEF SentUnrecorded
<1> QED
  BY <1>6, <1>7, <1>8

(* An execution that ends leaves the row to itself, to nobody, or was not    *)
(* the last to claim it.                                                     *)
LEMMA OutcomeBudget ==
  ASSUME TypeOK, BudgetInv, NEW s \in Slots, Confirm(s) \/ Catch(s) \/ DatabaseError(s)
  PROVE  BudgetInv'
<1> DEFINE b == run[s].to
<1>1. /\ run' = [run EXCEPT ![s] = Idle] /\ sent' = sent /\ (faults' = faults \/ Mishap)
  BY DEF Confirm, Catch, DatabaseError, Complete, Throw
<1>2. run'[s] = Idle /\ \A t \in Slots \ {s} : run'[t] = run[t]
  BY <1>1, SlotTurns
<1>3. \A a : ~WorksFor(run'[s], a)
  BY <1>2 DEF WorksFor, AtWork, Idle
<1>4. \A a : MaySend(run', a) \subseteq MaySend(run, a) \ {s}
  BY <1>2, <1>3, SlotLeaves
<1>l. ASSUME NEW a, NEW w, w.lockedBy # run[s].owner, FreeRow(run', w, a) PROVE FreeRow(run, w, a)
  <2>1. PICK R, R1 : R = run /\ R1 = run'
    OBVIOUS
  <2>2. ~WorksFor(R1[s], a) /\ \A t \in Slots \ {s} : R1[t] = R[t]
    BY <1>2, <1>3, <2>1
  <2>3. w.lockedBy # R[s].owner /\ FreeRow(R1, w, a)
    BY <1>l, <2>1
  <2>4. FreeRow(R, w, a)
    BY <2>2, <2>3, SlotLeaves
  <2> QED
    BY <2>1, <2>4
<1>5. CASE DatabaseError(s)
  <2>1. Mishap
    BY <1>5 DEF DatabaseError
  <2> QED
    BY <1>1, <1>4, <2>1, SilentStep
<1>6. CASE Confirm(s) \/ Catch(s)
  <2>1. run[s] \in Run /\ run[s].pc \in {"confirm", "catch"} /\ b \in Addresses /\ row[b] \in Row
    BY <1>6, RunFields DEF Confirm, Catch, TypeOK
  <2>2. ASSUME NEW a \in Addresses, a # b
        PROVE  MaySend(run', a) \subseteq MaySend(run, a) /\ (FreeRow(run', row'[a], a) => FreeRow(run, row[a], a))
    <3>1. ~WorksFor(run[s], a)
      BY <2>2 DEF WorksFor
    <3>2. row'[a] = row[a]
      BY <1>6, <2>1, <2>2 DEF Confirm, Catch, TypeOK
    <3> QED
      BY <1>2, <1>3, <3>1, <3>2, SlotQuiet
  <2>3. CASE Catch(s)
    <3>1. s \in MaySend(run, b)
      BY <2>3 DEF Catch, MaySend
    <3> QED
      BY <1>1, <1>4, <2>2, <3>1, SilentStep
  <2>4. CASE Confirm(s)
    <3>1. FreeRow(run', row'[b], b) => FreeRow(run, row[b], b)
      <4>1. CASE Owns(s)
        <5> DEFINE e == Written(row[b], "DELIVERED", FALSE)
        <5>1. row' = [row EXCEPT ![b] = e]
          BY <2>4, <4>1 DEF Confirm, Written
        <5>2. e \in Row /\ e.status = "DELIVERED"
          BY <2>1, WrittenRow
        <5>3. row'[b].status = "DELIVERED"
          BY <2>1, <5>1, <5>2, OneRow
        <5> QED
          BY <5>3 DEF FreeRow
      <4>2. CASE ~Owns(s)
        <5>1. row'[b] = row[b] /\ row[b].lockedBy # run[s].owner
          BY <2>4, <4>2 DEF Confirm, Owns
        <5> QED
          BY <1>l, <5>1
      <4> QED
        BY <4>1, <4>2
    <3>2. MaySend(run', b) \subseteq MaySend(run, b)
      BY <1>4
    <3> QED
      BY <1>1, <2>2, <3>1, <3>2, SilentStep
  <2> QED
    BY <1>6, <2>3, <2>4
<1> QED
  BY <1>5, <1>6

(* The replay puts back rows that are free, or it is a mishap.               *)
LEMMA ReplayBudget == ASSUME TypeOK, BudgetInv, NEW a \in Addresses, ReplayUpdate(a) PROVE BudgetInv'
<1>1. /\ run' = run /\ sent' = sent /\ MishapIf(~Replayable(row[a]))
      /\ row' = [row EXCEPT ![a] = [@ EXCEPT !.status = "PENDING", !.lockedAt = None, !.lockedBy = None, !.requeued = TRUE]]
  BY DEF ReplayUpdate
<1>2. \A b \in Addresses \ {a} : row'[b] = row[b]
  BY <1>1 DEF TypeOK
<1>3. Mishap \/ FreeRow(run, row[a], a)
  BY <1>1 DEF MishapIf, Replayable, WaitsForReplay, FreeRow
<1>4. faults' = faults \/ Mishap
  BY <1>1 DEF MishapIf
<1>5. \A b \in Addresses : \/ MaySend(run', b) \subseteq MaySend(run, b) /\ (FreeRow(run', row'[b], b) => FreeRow(run, row[b], b))
                           \/ Mishap /\ MaySend(run', b) \subseteq MaySend(run, b)
  BY <1>1, <1>2, <1>3
<1> QED
  BY <1>1, <1>4, <1>5, SilentStep

LEMMA InitBudget == Init => BudgetInv
<1> SUFFICES ASSUME Init, NEW a \in Addresses PROVE Balanced(sent[a], run, row[a], Spent, a)
  BY DEF BudgetInv
<1>1. MaySend(run, a) = {} /\ sent[a] = 0 /\ Spent = 0
  BY DEF Init, MaySend, Idle, Spent
<1>2. IsFiniteSet({}) /\ Cardinality({}) = 0
  BY FS_EmptySet
<1> QED
  BY <1>1, <1>2 DEF Balanced

LEMMA BudgetSteps == TypeOK /\ BudgetInv /\ [Next]_vars => BudgetInv'
<1> SUFFICES ASSUME TypeOK, BudgetInv, [Next]_vars PROVE BudgetInv'
  OBVIOUS
<1>1. CASE ReplaySelect \/ ReplayAdd \/ ReplayError \/ ChangeContact \/ Tick \/ UNCHANGED vars
  <2>1. run' = run /\ row' = row /\ sent' = sent /\ (faults' = faults \/ Mishap)
    BY <1>1 DEF ReplaySelect, ReplayAdd, ReplayError, ChangeContact, Tick, vars
  <2> QED
    BY <2>1, SilentStep
<1> QED
  BY <1>1, QueueBudget, ReadBudget, MarkUnknownBudget, ClaimBudget, SendBudget, OutcomeBudget, ReplayBudget
  DEF Next, Dispatch, Replay

-----------------------------------------------------------------------------
(* Attempts against the ceiling.  A row that may be claimed, and a claim,    *)
(* have one attempt more to count below the limit.                           *)

Modest(d, limit) ==
  d.attempts <= limit /\ (d.status \in {"ABSENT", "PENDING", "PROCESSING"} => d.attempts < limit)

AttemptsInv ==
  /\ \A a \in Addresses : Modest(row[a], Ceiling + Spent)
  /\ \A s \in Slots : run[s].pc \in AtWork => run[s].attempts < Ceiling + Spent

LEMMA CountingStep ==
  ASSUME TypeOK, AttemptsInv, faults' = faults \/ Mishap,
         \A a \in Addresses : \/ row'[a] = row[a]
                              \/ row'[a] \in Row /\ Modest(row'[a], Ceiling + Spent)
                              \/ Mishap /\ row'[a] \in Row /\ Modest(row'[a], Ceiling + Spent + 1),
         \A s \in Slots : \/ run'[s] = run[s]
                          \/ run'[s].pc \notin AtWork
                          \/ run'[s].attempts \in Nat /\ run'[s].attempts < Ceiling + Spent
  PROVE  AttemptsInv'
<1>1. PICK m \in Nat : m = Spent
  BY SpentMoves
<1>2. PICK m1 \in Nat : m1 = Spent' /\ m <= m1 /\ (Mishap => m1 = m + 1)
  BY <1>1, SpentMoves
<1>3. ASSUME NEW a \in Addresses PROVE Modest(row'[a], Ceiling + m1)
  <2>1. PICK d \in Row : d = row'[a]
    BY DEF TypeOK
  <2>2. Modest(d, Ceiling + m) \/ (Mishap /\ Modest(d, Ceiling + m + 1))
    BY <1>1, <2>1 DEF AttemptsInv
  <2>3. d.attempts \in Nat
    BY DEF Row
  <2>4. Modest(d, Ceiling + m1)
    BY <1>2, <2>2, <2>3 DEF Modest
  <2> QED
    BY <2>1, <2>4
<1>4. ASSUME NEW s \in Slots, run'[s].pc \in AtWork PROVE run'[s].attempts < Ceiling + m1
  <2>1. run'[s] = run[s] => run[s].attempts \in Nat
    BY <1>4, RunFields DEF TypeOK, AtWork
  <2>2. PICK n \in Nat : n = run'[s].attempts /\ n < Ceiling + m
    BY <1>1, <1>4, <2>1 DEF AttemptsInv
  <2>3. n < Ceiling + m1
    BY <1>2, <2>2
  <2> QED
    BY <2>2, <2>3
<1> QED
  BY <1>2, <1>3, <1>4 DEF AttemptsInv

(* A slot that moves to a place where it holds no attempts, rows unchanged.  *)
LEMMA CountingRest ==
  ASSUME TypeOK, AttemptsInv, faults' = faults \/ Mishap, row' = row,
         \A s \in Slots : run'[s] = run[s] \/ run'[s].pc \notin AtWork
  PROVE  AttemptsInv'
BY CountingStep

LEMMA Attempts ==
  ASSUME NEW d \in Row, NEW st \in {"PENDING", "DELIVERED", "DELIVERY_UNKNOWN"}, NEW again \in BOOLEAN
  PROVE  Written(d, st, again).attempts = d.attempts
BY DEF Row, Written

LEMMA CheckCounts ==
  ASSUME TypeOK, AttemptsInv, NEW s \in Slots, Read(s) \/ MarkUnknown(s) \/ Claim(s)
  PROVE  AttemptsInv'
<1>1. CASE Read(s)
  <2>1. faults' = faults
    BY <1>1 DEF Read
  <2>2. \A t \in Slots : run'[t] = run[t] \/ run'[t].pc \notin AtWork
    <3> DEFINE x == [pc |-> "unknown", owner |-> run[s].owner, to |-> contact, seen |-> Ensured(contact)]
               y == [pc |-> "claim", owner |-> run[s].owner, to |-> contact, at |-> now]
    <3>1. run' = [run EXCEPT ![s] = Idle] \/ run' = [run EXCEPT ![s] = x] \/ run' = [run EXCEPT ![s] = y]
      BY <1>1 DEF Read, Complete, Throw
    <3>2. run'[s] \in {Idle, x, y} /\ \A t \in Slots \ {s} : run'[t] = run[t]
      BY <3>1, SlotTurns
    <3> QED
      BY <3>2 DEF AtWork, Idle
  <2>3. ASSUME NEW a \in Addresses PROVE row'[a] = row[a] \/ (row'[a] \in Row /\ Modest(row'[a], Ceiling + Spent))
    <3>1. row' = row \/ (contact \in Addresses /\ row' = [row EXCEPT ![contact] = Ensured(contact)])
      BY <1>1 DEF Read, TypeOK
    <3>2. CASE row'[a] # row[a]
      <4>1. row[a] \in Row /\ now \in Nat
        BY DEF TypeOK
      <4>2. row'[a] = [row[a] EXCEPT !.status = "PENDING", !.created = now] /\ row[a].status = "ABSENT"
        BY <3>1, <3>2 DEF Ensured, TypeOK
      <4>3. row'[a] \in Row /\ row'[a].status = "PENDING" /\ row'[a].attempts = row[a].attempts
        <5>1. PICK d \in Row : d = row[a]
          BY <4>1
        <5>2. LET e == [d EXCEPT !.status = "PENDING", !.created = now]
              IN  e \in Row /\ e.status = "PENDING" /\ e.attempts = d.attempts
          BY <4>1 DEF Row
        <5> QED
          BY <4>2, <5>1, <5>2
      <4> QED
        BY <4>2, <4>3 DEF AttemptsInv, Modest
    <3> QED
      BY <3>2
  <2> QED
    BY <2>1, <2>2, <2>3, CountingStep
<1>2. CASE MarkUnknown(s)
  <2>1. faults' = faults /\ run' = [run EXCEPT ![s] = Idle] /\ run[s].to \in Addresses
    BY <1>2, RunFields DEF MarkUnknown, Complete, TypeOK
  <2>2. \A t \in Slots : run'[t] = run[t] \/ run'[t].pc \notin AtWork
    BY <2>1, SlotTurns DEF Idle, AtWork
  <2>3. ASSUME NEW a \in Addresses PROVE row'[a] = row[a] \/ (row'[a] \in Row /\ Modest(row'[a], Ceiling + Spent))
    <3> DEFINE e == Written(row[run[s].to], "DELIVERY_UNKNOWN", FALSE)
    <3>1. row' = row \/ row' = [row EXCEPT ![run[s].to] = e]
      BY <1>2 DEF MarkUnknown, Written
    <3>2. row[run[s].to] \in Row
      BY <2>1 DEF TypeOK
    <3>3. e \in Row /\ e.status = "DELIVERY_UNKNOWN" /\ e.attempts = row[run[s].to].attempts
      BY <3>2, WrittenRow, Attempts
    <3>4. e \in Row /\ Modest(e, Ceiling + Spent)
      BY <2>1, <3>3 DEF AttemptsInv, Modest
    <3> QED
      BY <2>1, <3>1, <3>4, OneRow
  <2> QED
    BY <2>1, <2>2, <2>3, CountingStep
<1>3. CASE Claim(s)
  <2> DEFINE b == run[s].to
  <2>1. run[s].pc = "claim" /\ b \in Addresses /\ run[s].owner \in Owners /\ run[s].at \in Nat
    BY <1>3, RunFields DEF Claim, TypeOK, Idle
  <2>2. CASE ~Claimable(row[b], run[s].at)
    <3>1. faults' = faults /\ row' = row /\ run' = [run EXCEPT ![s] = Idle]
      BY <1>3, <2>2 DEF Claim, Complete
    <3> QED
      BY <3>1, SlotTurns, CountingRest DEF Idle, AtWork
  <2>3. CASE Claimable(row[b], run[s].at)
    <3> DEFINE e == Claimed(row[b], run[s].at, run[s].owner)
               x == [pc |-> "send", owner |-> run[s].owner, to |-> b, attempts |-> row[b].attempts]
    <3>1. row' = [row EXCEPT ![b] = e] /\ run' = [run EXCEPT ![s] = x] /\ (faults' = faults \/ Mishap)
      BY <1>3, <2>3 DEF Claim, Claimed, MishapIf
    <3>2. row[b] \in Row
      BY <2>1 DEF TypeOK
    <3>3. row[b].attempts \in Nat /\ row[b].attempts < Ceiling + Spent
      BY <2>1, <2>3, <3>2 DEF Claimable, AttemptsInv, Modest, Row
    <3>4. e \in Row /\ e.attempts = row[b].attempts
      <4>1. e \in Row
        BY <2>1, <3>2, ClaimedRow
      <4>2. e.attempts = row[b].attempts
        BY <3>2 DEF Claimed, Row
      <4> QED
        BY <4>1, <4>2
    <3>5. e \in Row /\ Modest(e, Ceiling + Spent)
      <4>1. Spent \in Nat
        BY SpentMoves
      <4> QED
        BY <3>3, <3>4, <4>1 DEF Modest
    <3>6. \A a \in Addresses : row'[a] = row[a] \/ (row'[a] \in Row /\ Modest(row'[a], Ceiling + Spent))
      BY <2>1, <3>1, <3>5, OneRow
    <3>7. \A t \in Slots : run'[t] = run[t] \/ (run'[t].attempts \in Nat /\ run'[t].attempts < Ceiling + Spent)
      BY <3>1, <3>3, SlotTurns
    <3> QED
      BY <3>1, <3>6, <3>7, CountingStep
  <2> QED
    BY <2>2, <2>3
<1> QED
  BY <1>1, <1>2, <1>3

LEMMA SendCounts ==
  ASSUME TypeOK, AttemptsInv, NEW s \in Slots, SendOk(s) \/ SendFail(s) \/ SentUnrecorded(s)
  PROVE  AttemptsInv'
<1>1. PICK pc \in {"confirm", "catch"} : At(s, pc)
  BY DEF SendOk, SendFail, SentUnrecorded
<1>2. run[s].pc \in {"send", "confirm"} /\ row' = row /\ (faults' = faults \/ Mishap) /\ run[s] \in Run
  BY DEF SendOk, SendFail, SentUnrecorded, TypeOK
<1> DEFINE e == [run[s] EXCEPT !.pc = pc]
<1>3. run[s].attempts \in Nat /\ run[s].attempts < Ceiling + Spent
  BY <1>2, RunFields DEF AttemptsInv, AtWork
<1>4. e.attempts = run[s].attempts
  BY <1>2 DEF Run, Idle
<1>5. run' = [run EXCEPT ![s] = e]
  BY <1>1 DEF At
<1> HIDE DEF e
<1>6. \A t \in Slots : run'[t] = run[t] \/ (run'[t].attempts \in Nat /\ run'[t].attempts < Ceiling + Spent)
  BY <1>3, <1>4, <1>5, SlotTurns
<1> QED
  BY <1>2, <1>6, CountingStep

(* A failure counts one attempt more, and leaves the row free to be claimed  *)
(* only below MaxAttempts.                                                   *)
LEMMA OutcomeCounts ==
  ASSUME TypeOK, AttemptsInv, NEW s \in Slots, Confirm(s) \/ Catch(s) \/ DatabaseError(s)
  PROVE  AttemptsInv'
<1> DEFINE b == run[s].to
<1>1. run' = [run EXCEPT ![s] = Idle] /\ (faults' = faults \/ Mishap) /\ run[s] \in Run
  BY DEF Confirm, Catch, DatabaseError, Complete, Throw, TypeOK
<1>2. \A t \in Slots : run'[t] = run[t] \/ run'[t].pc \notin AtWork
  BY <1>1, SlotTurns DEF Idle, AtWork
<1>3. CASE row' = row
  BY <1>1, <1>2, <1>3, CountingRest
<1>4. CASE Confirm(s) /\ Owns(s)
  <2>1. b \in Addresses /\ row[b] \in Row
    BY <1>1, <1>4, RunFields DEF Confirm, TypeOK
  <2> DEFINE e == Written(row[b], "DELIVERED", FALSE)
  <2>2. row' = [row EXCEPT ![b] = e]
    BY <1>4 DEF Confirm, Written
  <2>3. e \in Row /\ e.status = "DELIVERED" /\ e.attempts = row[b].attempts
    BY <2>1, WrittenRow, Attempts
  <2>4. e \in Row /\ Modest(e, Ceiling + Spent)
    BY <2>1, <2>3 DEF AttemptsInv, Modest
  <2>5. \A a \in Addresses : row'[a] = row[a] \/ (row'[a] \in Row /\ Modest(row'[a], Ceiling + Spent))
    BY <2>1, <2>2, <2>4, OneRow
  <2> QED
    BY <1>1, <1>2, <2>5, CountingStep
<1>5. CASE Catch(s) /\ Owns(s)
  <2>1. b \in Addresses /\ row[b] \in Row /\ run[s].attempts \in Nat /\ run[s].attempts < Ceiling + Spent
    BY <1>1, <1>5, RunFields DEF Catch, TypeOK, AttemptsInv, AtWork
  <2> DEFINE n == run[s].attempts + 1
             e == AfterFailure(row[b], n)
  <2>2. row' = [row EXCEPT ![b] = e]
    BY <1>5 DEF Catch
  <2>3. e \in Row /\ e.attempts = n /\ (e.status \in {"ABSENT", "PENDING", "PROCESSING"} => n < MaxAttempts)
    <3>1. n \in Nat
      BY <2>1
    <3>2. e \in Row
      BY <2>1, <3>1, FailedRow
    <3> HIDE DEF n
    <3>3. e.attempts = n /\ e.status = IF n >= MaxAttempts THEN "FAILED" ELSE "PENDING"
      BY <2>1 DEF AfterFailure, Row
    <3> QED
      BY <3>1, <3>2, <3>3
  <2>4. Spent \in Nat
    BY SpentMoves
  <2>5. e \in Row /\ Modest(e, Ceiling + Spent)
    BY <2>1, <2>3, <2>4 DEF Modest
  <2>6. \A a \in Addresses : row'[a] = row[a] \/ (row'[a] \in Row /\ Modest(row'[a], Ceiling + Spent))
    BY <2>1, <2>2, <2>5, OneRow
  <2> QED
    BY <1>1, <1>2, <2>6, CountingStep
<1> QED
  BY <1>3, <1>4, <1>5 DEF Confirm, Catch, DatabaseError

LEMMA ReplayCounts == ASSUME TypeOK, AttemptsInv, NEW a \in Addresses, ReplayUpdate(a) PROVE AttemptsInv'
<1> DEFINE e == Written(row[a], "PENDING", TRUE)
<1>1. run' = run /\ MishapIf(~Replayable(row[a])) /\ row' = [row EXCEPT ![a] = e]
  BY DEF ReplayUpdate, Written
<1>2. row[a] \in Row /\ row[a].attempts \in Nat /\ Spent \in Nat
  BY SpentMoves DEF TypeOK, Row
<1>3. e \in Row /\ e.status = "PENDING" /\ e.attempts = row[a].attempts
  BY <1>2, WrittenRow, Attempts
<1>4. faults' = faults \/ Mishap
  BY <1>1 DEF MishapIf
<1>5. Modest(e, Ceiling + Spent) \/ (Mishap /\ Modest(e, Ceiling + Spent + 1))
  <2>1. PICK m \in Nat, n \in Nat : m = Spent /\ n = row[a].attempts
    BY <1>2
  <2>2. CASE Replayable(row[a])
    <3>1. n < Ceiling + m
      BY <2>1, <2>2 DEF Replayable
    <3>2. \A d : d.attempts = n => Modest(d, Ceiling + m)
      BY <3>1 DEF Modest
    <3> QED
      BY <1>3, <2>1, <3>2
  <2>3. CASE ~Replayable(row[a])
    <3>1. Mishap /\ n <= Ceiling + m
      BY <1>1, <2>1, <2>3 DEF MishapIf, AttemptsInv, Modest
    <3>2. n < Ceiling + m + 1
      BY <3>1
    <3>3. \A d : d.attempts = n => Modest(d, Ceiling + m + 1)
      BY <3>2 DEF Modest
    <3> QED
      BY <1>3, <2>1, <3>1, <3>3
  <2> QED
    BY <2>2, <2>3
<1>6. \A b \in Addresses : \/ row'[b] = row[b]
                           \/ row'[b] \in Row /\ Modest(row'[b], Ceiling + Spent)
                           \/ Mishap /\ row'[b] \in Row /\ Modest(row'[b], Ceiling + Spent + 1)
  BY <1>1, <1>3, <1>5, OneRow
<1> QED
  BY <1>1, <1>4, <1>6, CountingStep

LEMMA AttemptsInit == Init => AttemptsInv
<1> SUFFICES ASSUME Init PROVE AttemptsInv
  OBVIOUS
<1>1. Spent = 0
  BY DEF Init, Spent
<1>2. \A s \in Slots : run[s].pc \notin AtWork
  BY DEF Init, Idle, AtWork
<1>3. ASSUME NEW a \in Addresses PROVE row[a].attempts = 0
  BY DEF Init
<1> QED
  BY <1>1, <1>2, <1>3 DEF AttemptsInv, Modest

LEMMA AttemptsSteps == TypeOK /\ AttemptsInv /\ [Next]_vars => AttemptsInv'
<1> SUFFICES ASSUME TypeOK, AttemptsInv, [Next]_vars PROVE AttemptsInv'
  OBVIOUS
<1>1. CASE ReplaySelect \/ ReplayAdd \/ ReplayError \/ ChangeContact \/ Tick \/ UNCHANGED vars
  <2>1. run' = run /\ row' = row /\ (faults' = faults \/ Mishap)
    BY <1>1 DEF ReplaySelect, ReplayAdd, ReplayError, ChangeContact, Tick, vars
  <2> QED
    BY <2>1, CountingRest
<1>2. ASSUME NEW s \in Slots, NEW p \in Processes, NEW j \in Jobs, Take(s, p, j) PROVE AttemptsInv'
  <2>1. row' = row /\ faults' = faults /\ run' = [run EXCEPT ![s] = [pc |-> "read", owner |-> <<p, j>>]]
    BY <1>2 DEF Take
  <2> QED
    BY <2>1, SlotTurns, CountingRest DEF AtWork
<1>3. ASSUME NEW j \in Jobs, Stall(j) PROVE AttemptsInv'
  BY <1>3, CountingRest DEF Stall, MishapIf
<1>4. ASSUME NEW p \in Processes, Crash(p) PROVE AttemptsInv'
  <2>1. row' = row /\ Mishap /\ \A s \in Slots : run'[s] = run[s] \/ run'[s] = Idle
    BY <1>4 DEF Crash
  <2> QED
    BY <2>1, CountingRest DEF Idle, AtWork
<1> QED
  BY <1>1, <1>2, <1>3, <1>4, CheckCounts, SendCounts, OutcomeCounts, ReplayCounts DEF Next, Dispatch, Replay

(* No address gets more e-mails than one, and one for each mishap: retries,  *)
(* replays and parallel workers alone never repeat one, for any number of    *)
(* workers, jobs and addresses.                                              *)
THEOREM RepeatsNeedMishaps == Spec => []DuplicatesNeedMishaps
<1>1. Init => TypeOK /\ BudgetInv
  BY InitHolds, InitBudget DEF DeliveryInv
<1>2. []TypeOK /\ BudgetInv /\ [][Next]_vars => []BudgetInv
  BY BudgetSteps, PTL
<1>3. TypeOK /\ BudgetInv => DuplicatesNeedMishaps
  <2> SUFFICES ASSUME TypeOK, BudgetInv, NEW a \in Addresses PROVE sent[a] <= 1 + Spent
    BY DEF DuplicatesNeedMishaps
  <2>1. IsFiniteSet(MaySend(run, a)) /\ sent[a] + Cardinality(MaySend(run, a)) + (IF FreeRow(run, row[a], a) THEN 1 ELSE 0) <= 1 + Spent
    BY DEF BudgetInv, Balanced
  <2>2. Cardinality(MaySend(run, a)) \in Nat /\ sent[a] \in Nat /\ Spent \in Nat
    BY <2>1, FS_CardinalityType, SpentMoves DEF TypeOK
  <2> QED
    BY <2>1, <2>2
<1> QED
  BY <1>1, <1>2, <1>3, TypeCorrect, PTL DEF Spec

(* The replay gives up: no delivery is attempted beyond the ceiling, but for *)
(* what a mishap hides from the count.                                       *)
THEOREM ReplayGivesUp == Spec => []AttemptsBounded
<1>1. []TypeOK /\ AttemptsInv /\ [][Next]_vars => []AttemptsInv
  BY AttemptsSteps, PTL
<1>2. AttemptsInv => AttemptsBounded
  BY DEF AttemptsInv, Modest, AttemptsBounded
<1> QED
  BY <1>1, <1>2, AttemptsInit, TypeCorrect, PTL DEF Spec
=============================================================================
