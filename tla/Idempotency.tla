----------------------------- MODULE Idempotency -----------------------------
(* The interceptor of requests with an Idempotency-Key                       *)
(* (common/interceptors/idempotency.interceptor.ts), for the requests of one *)
(* subject to one route.  The record is inserted in the transaction that runs*)
(* the handler: its primary key makes a second insertion wait for that       *)
(* transaction.  A client may repeat a request that was not answered.        *)
EXTENDS Integers, Sequences

CONSTANTS
    Requests,      \* requests that can be in flight at once
    Keys,          \* values of the header
    Bodies,        \* fingerprints of the body
    Free,          \* no transaction holds the key
    MaxRuns        \* bound on the handler's committed runs

ASSUME IdempotencyAssumption == Free \notin Requests /\ MaxRuns \in Nat \ {0}

VARIABLES
    record,    \* record[k]: the committed row of idempotency_records
    holder,    \* holder[k]: the request whose open transaction inserted the row
    request,   \* request[r]: where the request is
    ran,       \* the committed runs of the handler: their keys and bodies
    fresh      \* fresh[k]: runs of the key since its last row expired

idemVars == <<record, holder, request, ran, fresh>>

NoRecord == [is |-> "absent"]
Unasked == [pc |-> "idle"]

IdempotencyTypeOK ==
    /\ record \in [Keys -> {NoRecord} \cup [is: {"valid", "expired"}, body: Bodies, run: 1 .. MaxRuns]]
    /\ holder \in [Keys -> Requests \cup {Free}]
    /\ request \in [Requests -> {Unasked}
          \cup [pc: {"lookup", "insert", "handle", "commit", "collided"}, key: Keys, body: Bodies]
          \cup [pc: {"done", "refused"}, key: Keys, body: Bodies, run: 0 .. MaxRuns]]
    /\ ran \in Seq(Keys \X Bodies) /\ Len(ran) <= MaxRuns
    /\ fresh \in [Keys -> Nat]
    /\ \A k \in Keys : holder[k] # Free =>
         request[holder[k]].pc \in {"handle", "commit"} /\ request[holder[k]].key = k

IdempotencyInit ==
    /\ record = [k \in Keys |-> NoRecord]
    /\ holder = [k \in Keys |-> Free]
    /\ request = [r \in Requests |-> Unasked]
    /\ ran = <<>>
    /\ fresh = [k \in Keys |-> 0]

At(r, pc) == request[r].pc = pc
KeyOf(r) == request[r].key
Step(r, pc) == request' = [request EXCEPT ![r] = [pc |-> pc, key |-> @.key, body |-> @.body]]
Reply(r, pc, run) ==
    request' = [request EXCEPT ![r] = [pc |-> pc, key |-> @.key, body |-> @.body, run |-> run]]

MutReplay(r) == Reply(r, "done", record[KeyOf(r)].run)

(* replay: the stored response, unless it answered another body.             *)
Replay(r) ==
    IF record[KeyOf(r)].body = request[r].body
    THEN Reply(r, "done", record[KeyOf(r)].run)
    ELSE Reply(r, "refused", 0)

(* A request comes in: the first of a client, or a repetition.               *)
Receive(r, k, b) ==
    /\ request[r].pc \in {"idle", "done", "refused"}
    /\ request' = [request EXCEPT ![r] = [pc |-> "lookup", key |-> k, body |-> b]]
    /\ UNCHANGED <<record, holder, ran, fresh>>

(* The rows that have expired are deleted, then the row of the key is read.  *)
Lookup(r) ==
    /\ At(r, "lookup")
    /\ record' = [k \in Keys |-> IF record[k].is = "expired" THEN NoRecord ELSE record[k]]
    /\ IF record[KeyOf(r)].is = "valid" THEN Replay(r) ELSE Step(r, "insert")
    /\ UNCHANGED <<holder, ran, fresh>>

(* The transaction begins and inserts the row; it waits while another one    *)
(* holds the key.                                                            *)
Begin(r) ==
    /\ At(r, "insert") /\ record[KeyOf(r)] = NoRecord /\ holder[KeyOf(r)] = Free
    /\ holder' = [holder EXCEPT ![KeyOf(r)] = r]
    /\ Step(r, "handle")
    /\ UNCHANGED <<record, ran, fresh>>

(* A row was committed since the lookup: unique violation.                   *)
Collide(r) ==
    /\ At(r, "insert") /\ record[KeyOf(r)] # NoRecord
    /\ Step(r, "collided")
    /\ UNCHANGED <<record, holder, ran, fresh>>

(* findStored once more: nothing when the row has expired meanwhile.         *)
AfterCollision(r) ==
    /\ At(r, "collided")
    /\ IF record[KeyOf(r)].is = "valid" THEN Replay(r) ELSE Reply(r, "refused", 0)
    /\ UNCHANGED <<record, holder, ran, fresh>>

Handled(r) ==
    /\ At(r, "handle") /\ Step(r, "commit")
    /\ UNCHANGED <<record, holder, ran, fresh>>

(* The handler throws, or the process dies: everything is rolled back.       *)
Rollback(r) ==
    /\ request[r].pc \in {"handle", "commit"}
    /\ holder' = [holder EXCEPT ![KeyOf(r)] = Free]
    /\ Reply(r, "refused", 0)
    /\ UNCHANGED <<record, ran, fresh>>

Commit(r) ==
    /\ At(r, "commit") /\ Len(ran) < MaxRuns
    /\ ran' = Append(ran, <<KeyOf(r), request[r].body>>)
    /\ fresh' = [fresh EXCEPT ![KeyOf(r)] = @ + 1]
    /\ record' = [record EXCEPT ![KeyOf(r)] =
                    [is |-> "valid", body |-> request[r].body, run |-> Len(ran) + 1]]
    /\ holder' = [holder EXCEPT ![KeyOf(r)] = Free]
    /\ Reply(r, "done", Len(ran) + 1)

(* 24 hours pass.                                                            *)
ExpireRecord(k) ==
    /\ record[k].is = "valid"
    /\ record' = [record EXCEPT ![k].is = "expired"]
    /\ fresh' = [fresh EXCEPT ![k] = 0]
    /\ UNCHANGED <<holder, request, ran>>

IdempotencyNext ==
    \/ \E r \in Requests, k \in Keys, b \in Bodies : Receive(r, k, b)
    \/ \E r \in Requests : Lookup(r) \/ Begin(r) \/ Collide(r) \/ AfterCollision(r)
    \/ \E r \in Requests : Handled(r) \/ Rollback(r) \/ Commit(r)
    \/ \E k \in Keys : ExpireRecord(k)

IdempotencySpec == IdempotencyInit /\ [][IdempotencyNext]_idemVars

-----------------------------------------------------------------------------

(* Repetitions, at the same time or later, run the handler once: one run is  *)
(* committed per key until the record of the key expires.                    *)
RunsOncePerKey == \A k \in Keys : fresh[k] <= 1

(* Who is answered with success gets the result of a committed run of its    *)
(* own key and body, also when it lost a race and got a stored response.     *)
AnsweredByOwnRun ==
    \A r \in Requests : At(r, "done") => ran[request[r].run] = <<KeyOf(r), request[r].body>>
=============================================================================
