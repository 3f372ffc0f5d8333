---------------------------- MODULE PortalProofs ----------------------------
(* The components of the public portal keep what they promise, for any       *)
(* number of calls, links, codes, assertions and devices.                    *)
EXTENDS MCPortal, FiniteSetTheorems, TLAPS

(* Finite sets that grow or shrink by one element.                           *)
LEMMA NoMore ==
  ASSUME NEW A, IsFiniteSet(A), NEW B, B \subseteq A
  PROVE  /\ IsFiniteSet(B) /\ Cardinality(A) \in Nat /\ Cardinality(B) \in Nat
         /\ Cardinality(B) <= Cardinality(A)
BY FS_Subset, FS_CardinalityType

LEMMA OneMore ==
  ASSUME NEW A, IsFiniteSet(A), NEW x, NEW B, B \subseteq A \cup {x}
  PROVE  /\ IsFiniteSet(B) /\ Cardinality(A) \in Nat /\ Cardinality(B) \in Nat
         /\ Cardinality(B) <= Cardinality(A) + 1
<1>1. IsFiniteSet(A \cup {x}) /\ Cardinality(A \cup {x}) <= Cardinality(A) + 1 /\ Cardinality(A) \in Nat
  BY FS_AddElement, FS_CardinalityType
<1> QED
  BY <1>1, FS_Subset, FS_CardinalityType

LEMMA OneLess ==
  ASSUME NEW A, IsFiniteSet(A), NEW x \in A, NEW B, B \subseteq A \ {x}
  PROVE  /\ IsFiniteSet(B) /\ Cardinality(A) \in Nat /\ Cardinality(B) \in Nat
         /\ Cardinality(B) + 1 <= Cardinality(A)
<1>1. IsFiniteSet(A \ {x}) /\ Cardinality(A \ {x}) = Cardinality(A) - 1 /\ Cardinality(A) \in Nat
  BY FS_RemoveElement, FS_CardinalityType
<1> QED
  BY <1>1, FS_Subset, FS_CardinalityType

-----------------------------------------------------------------------------
(* Satisfaction links.                                                       *)

WaitingLinks == {l \in LinkIds : Pending(l)}
Inserting == {c \in Creators : creating[c] = "insert"}

(* The submissions of a link came one after the other.                       *)
OneAtATime(l) ==
  /\ \A s, t \in Writing(l) : s = t
  /\ links[l].writes = 0 \/ (links[l].writes = 1 /\ Writing(l) = {})

(* A call that found no waiting link may still insert one and counts         *)
(* beforehand; a submission is under way on an unanswered link only, as long *)
(* as no two of them cross.                                                  *)
SatInv ==
  /\ SatTypeOK
  /\ Cardinality(WaitingLinks) + Cardinality(Inserting) <= Cardinality(Creators)
  /\ \A l \in LinkIds : links[l].note = 0 => links[l].writes = 0
  /\ \A l \in LinkIds : links[l].crossed \/ OneAtATime(l)

Link == [made: BOOLEAN, note: Notes \cup {0}, expired: BOOLEAN, writes: Nat, crossed: BOOLEAN]

LEMMA SatLinks == SatTypeOK => links \in [LinkIds -> Link]
BY DEF SatTypeOK, Link

LEMMA SatFinite ==
  /\ Cardinality(Creators) \in Nat
  /\ IsFiniteSet(WaitingLinks) /\ IsFiniteSet(Inserting)
<1>1. IsFiniteSet(LinkIds)
  BY SatisfactionAssumption, FS_Interval DEF LinkIds
<1>2. WaitingLinks \subseteq LinkIds /\ Inserting \subseteq Creators
  BY DEF WaitingLinks, Inserting
<1> QED
  BY <1>1, <1>2, SatisfactionAssumption, FS_Subset, FS_CardinalityType

LEMMA SatInitHolds == SatInit => SatInv
<1> SUFFICES ASSUME SatInit PROVE SatInv
  OBVIOUS
<1>1. SatTypeOK
  BY SatisfactionAssumption DEF SatInit, SatTypeOK, NoLink, Notes, LinkIds, Rest
<1>2. Inserting = {} /\ \A l : Writing(l) = {}
  BY DEF SatInit, Inserting, Writing, Rest
<1>3. WaitingLinks = {}
  BY DEF SatInit, WaitingLinks, Pending, NoLink
<1>4. \A l \in LinkIds : links[l].writes = 0
  BY DEF SatInit, NoLink
<1> QED
  BY <1>1, <1>2, <1>3, <1>4, SatFinite, FS_EmptySet DEF SatInv, OneAtATime

(* The calls of createForTicket.                                             *)
LEMMA SatCreates ==
  ASSUME SatInv, NEW c \in Creators, Ask(c) \/ CheckActive(c) \/ InsertLink(c) \/ RequestEvent(c)
  PROVE  SatInv'
<1> USE DEF SatInv
<1>1. SatTypeOK'
  <2>1. links' \in [LinkIds -> Link]
    <3>1. ASSUME NEW k \in Link PROVE [k EXCEPT !.made = TRUE] \in Link
      BY DEF Link
    <3> QED
      BY <3>1, SatLinks DEF Ask, CheckActive, InsertLink, RequestEvent
  <2>2. creating' \in [Creators -> {"idle", "check", "insert", "event"}]
    BY DEF SatTypeOK, Ask, CheckActive, InsertLink, RequestEvent, Go
  <2>3. closings' \in 0 .. MaxLinks /\ requested' \in {0, 1} /\ UNCHANGED submitting
    BY SatisfactionAssumption DEF SatTypeOK, Ask, CheckActive, InsertLink, RequestEvent
  <2> QED
    BY <2>1, <2>2, <2>3 DEF SatTypeOK, Link
<1>2. UNCHANGED submitting /\ \A l \in LinkIds : /\ links'[l].note = links[l].note /\ links'[l].writes = links[l].writes
                                               /\ links'[l].crossed = links[l].crossed
  BY DEF SatTypeOK, Ask, CheckActive, InsertLink, RequestEvent
<1>3. \A l : Writing(l)' = Writing(l)
  BY <1>2 DEF Writing
<1>5. \A l \in LinkIds : links'[l].crossed \/ OneAtATime(l)'
  BY <1>2, <1>3 DEF OneAtATime
<1>4. Cardinality(WaitingLinks') + Cardinality(Inserting') <= Cardinality(Creators)
  <2>1. CASE Ask(c) \/ RequestEvent(c)
    <3>1. Inserting' \subseteq Inserting /\ WaitingLinks' = WaitingLinks
      BY <2>1 DEF Ask, RequestEvent, Go, Inserting, WaitingLinks, Pending, SatTypeOK
    <3> QED
      BY <3>1, SatFinite, NoMore
  <2>2. CASE CheckActive(c) /\ \E l \in LinkIds : Pending(l)
    <3>1. Inserting' \subseteq Inserting /\ WaitingLinks' = WaitingLinks
      BY <2>2 DEF CheckActive, Go, Inserting, WaitingLinks, Pending, SatTypeOK
    <3> QED
      BY <3>1, SatFinite, NoMore
  <2>3. CASE CheckActive(c) /\ ~\E l \in LinkIds : Pending(l)
    <3>1. Inserting' \subseteq Creators /\ WaitingLinks' = {}
      BY <2>3 DEF CheckActive, Inserting, WaitingLinks, Pending
    <3> QED
      BY <3>1, NoMore, FS_EmptySet, SatisfactionAssumption
  <2>4. CASE InsertLink(c)
    <3>1. PICK l \in LinkIds : links' = [links EXCEPT ![l].made = TRUE]
      BY <2>4 DEF InsertLink
    <3>2. WaitingLinks' \subseteq WaitingLinks \cup {l}
      BY <3>1 DEF WaitingLinks, Pending, SatTypeOK
    <3>3. c \in Inserting /\ Inserting' \subseteq Inserting \ {c}
      BY <2>4 DEF InsertLink, Go, Inserting, SatTypeOK
    <3>4. /\ Cardinality(WaitingLinks) \in Nat /\ Cardinality(WaitingLinks') \in Nat
          /\ Cardinality(WaitingLinks') <= Cardinality(WaitingLinks) + 1
      BY <3>2, SatFinite, OneMore
    <3>5. /\ Cardinality(Inserting) \in Nat /\ Cardinality(Inserting') \in Nat
          /\ Cardinality(Inserting') + 1 <= Cardinality(Inserting)
      BY <3>3, SatFinite, OneLess
    <3> QED
      BY <3>4, <3>5, SatFinite
  <2> QED
    BY <2>1, <2>2, <2>3, <2>4
<1> QED
  BY <1>1, <1>2, <1>4, <1>5

(* A submission that reads, of a link nobody has answered.                   *)
LEMMA SatReads ==
  ASSUME SatInv, NEW s \in Submitters, NEW l \in LinkIds, NEW n \in Notes, SubmitRead(s, l, n)
  PROVE  SatInv'
<1> USE DEF SatInv
<1>1. links[l].note = 0 /\ links[l].writes = 0 /\ UNCHANGED <<creating, closings, requested>>
  BY DEF SubmitRead, Acceptable, Pending
<1>2. PICK x \in BOOLEAN : /\ x <=> (links[l].crossed \/ Writing(l) # {})
                          /\ links' = [links EXCEPT ![l].crossed = x]
  BY SatLinks DEF SubmitRead, Link
<1>3. /\ links' \in [LinkIds -> Link] /\ links'[l].crossed = x
      /\ \A k \in LinkIds : /\ links'[k].note = links[k].note /\ links'[k].writes = links[k].writes
                            /\ links'[k].made = links[k].made
      /\ \A k \in LinkIds \ {l} : links'[k] = links[k]
  <2>1. links[l] \in Link /\ [links[l] EXCEPT !.crossed = x] \in Link
    BY SatLinks DEF Link
  <2> QED
    BY <1>2, <2>1, SatLinks DEF Link
<1>4. /\ submitting' \in [Submitters -> {Rest} \cup [pc: {"write"}, link: LinkIds, note: Notes]]
      /\ submitting'[s].pc = "write" /\ submitting'[s].link = l /\ submitting[s] = Rest
      /\ \A t \in Submitters \ {s} : submitting'[t] = submitting[t]
  BY DEF SatTypeOK, SubmitRead
<1>5. SatTypeOK'
  BY <1>1, <1>3, <1>4 DEF SatTypeOK, Link
<1>6. WaitingLinks' = WaitingLinks /\ Inserting' = Inserting
  BY <1>1, <1>3 DEF WaitingLinks, Inserting, Pending
<1>7. Writing(l)' = Writing(l) \cup {s} /\ \A k \in LinkIds \ {l} : Writing(k)' = Writing(k)
  BY <1>4 DEF Writing, Rest
<1>8. ASSUME NEW k \in LinkIds PROVE links'[k].crossed \/ OneAtATime(k)'
  <2>1. CASE k = l /\ ~x
    BY <1>1, <1>2, <1>3, <1>7, <2>1 DEF OneAtATime
  <2>2. CASE k = l /\ x
    BY <1>3, <2>2
  <2>3. CASE k # l
    BY <1>3, <1>7, <2>3 DEF OneAtATime
  <2> QED
    BY <2>1, <2>2, <2>3
<1> QED
  BY <1>3, <1>5, <1>6, <1>8

LEMMA SatWrites ==
  ASSUME SatInv, NEW s \in Submitters, SubmitWrite(s)
  PROVE  SatInv'
<1> USE DEF SatInv
<1>1. PICK l \in LinkIds, n \in Notes : submitting[s].link = l /\ submitting[s].note = n
  BY DEF SubmitWrite, SatTypeOK, Rest
<1>2. links[l].writes \in Nat /\ \A k \in LinkIds : links[k].writes \in Nat
  BY <1>1 DEF SatTypeOK
<1>3. SatTypeOK'
  BY <1>1, <1>2 DEF SubmitWrite, SatTypeOK, Rest
<1>4. /\ links'[l].note = n /\ links'[l].writes = links[l].writes + 1 /\ links'[l].made = links[l].made
      /\ links'[l].crossed = links[l].crossed
      /\ \A k \in LinkIds \ {l} : links'[k] = links[k]
  BY <1>1, <1>2 DEF SubmitWrite, SatTypeOK
<1>5. n # 0
  BY <1>1 DEF Notes
<1>6. WaitingLinks' \subseteq WaitingLinks /\ Inserting' = Inserting
  BY <1>4, <1>5 DEF WaitingLinks, Pending, Inserting, SubmitWrite
<1>7. /\ s \in Writing(l) /\ Writing(l)' = Writing(l) \ {s}
      /\ \A k \in LinkIds \ {l} : Writing(k)' = Writing(k)
  BY <1>1 DEF Writing, SubmitWrite, SatTypeOK, Rest
<1>8. ASSUME NEW k \in LinkIds PROVE links'[k].crossed \/ OneAtATime(k)'
  <2>1. CASE k = l /\ OneAtATime(l)
    <3>1. links[l].writes = 0 /\ Writing(l)' = {}
      BY <1>7, <2>1 DEF OneAtATime
    <3>2. links'[l].writes = 1
      BY <1>4, <3>1
    <3> QED
      BY <2>1, <3>1, <3>2 DEF OneAtATime
  <2>2. CASE k = l /\ links[l].crossed
    BY <1>4, <2>2
  <2>3. CASE k # l
    BY <1>4, <1>7, <2>3 DEF OneAtATime
  <2> QED
    BY <2>1, <2>2, <2>3
<1>9. Cardinality(WaitingLinks') + Cardinality(Inserting') <= Cardinality(Creators)
  BY <1>6, SatFinite, NoMore
<1> QED
  BY <1>3, <1>4, <1>5, <1>8, <1>9

LEMMA SatExpires ==
  ASSUME SatInv, NEW l \in LinkIds, ExpireLink(l)
  PROVE  SatInv'
<1> USE DEF SatInv
<1>1. SatTypeOK'
  <2>1. ASSUME NEW k \in Link PROVE [k EXCEPT !.expired = TRUE] \in Link
    BY DEF Link
  <2>2. links' \in [LinkIds -> Link]
    BY <2>1, SatLinks DEF ExpireLink
  <2> QED
    BY <2>2 DEF SatTypeOK, ExpireLink, Link
<1>2. \A k \in LinkIds : /\ links'[k].made = links[k].made /\ links'[k].note = links[k].note
                         /\ links'[k].writes = links[k].writes /\ links'[k].crossed = links[k].crossed
  BY DEF SatTypeOK, ExpireLink
<1>3. WaitingLinks' = WaitingLinks /\ Inserting' = Inserting /\ \A k : Writing(k)' = Writing(k)
  BY <1>2 DEF WaitingLinks, Pending, Inserting, Writing, ExpireLink
<1>4. \A k \in LinkIds : links'[k].crossed \/ OneAtATime(k)'
  BY <1>2, <1>3 DEF OneAtATime
<1> QED
  BY <1>1, <1>2, <1>3, <1>4

LEMMA SatStepHolds == SatInv /\ [SatNext]_satVars => SatInv'
<1>1. SatInv /\ UNCHANGED satVars => SatInv'
  BY DEF satVars, SatInv, SatTypeOK, WaitingLinks, Inserting, Writing, Pending, OneAtATime
<1> QED
  BY <1>1, SatCreates, SatReads, SatWrites, SatExpires DEF SatNext

LEMMA SatHolds == SatInv => SatTypeOK /\ WaitingLinksBounded /\ AnsweredOnceUnlessCrossed
<1> SUFFICES ASSUME SatInv PROVE WaitingLinksBounded /\ AnsweredOnceUnlessCrossed
  BY DEF SatInv
<1>1. Cardinality(WaitingLinks) \in Nat /\ Cardinality(Inserting) \in Nat
  BY SatFinite, FS_CardinalityType
<1>2. WaitingLinksBounded
  BY <1>1, SatFinite DEF SatInv, WaitingLinksBounded, WaitingLinks
<1>3. \A l \in LinkIds : OneAtATime(l) => links[l].writes <= 1
  BY DEF OneAtATime
<1> QED
  BY <1>2, <1>3 DEF SatInv, AnsweredOnceUnlessCrossed

-----------------------------------------------------------------------------
(* Requests with an idempotency key.                                         *)

Asked == {Unasked}
   \cup [pc: {"lookup", "insert", "handle", "commit", "collided"}, key: Keys, body: Bodies]
   \cup [pc: {"done", "refused"}, key: Keys, body: Bodies, run: 0 .. MaxRuns]
Stored == {NoRecord} \cup [is: {"valid", "expired"}, body: Bodies, run: 1 .. MaxRuns]

Working(q) == q.pc \in {"handle", "commit"}
RunIn(runs, n, k, body) == n \in 1 .. Len(runs) /\ runs[n] = <<k, body>>

(* A transaction at work holds its key, of which no row is committed; a row  *)
(* and an answer name a committed run of their key and body; a key has run   *)
(* since its last row expired only if its row is valid.                      *)
IdemInv ==
  /\ IdempotencyTypeOK
  /\ \A r \in Requests : Working(request[r]) => holder[KeyOf(r)] = r
  /\ \A k \in Keys : holder[k] # Free => record[k] = NoRecord
  /\ \A k \in Keys : fresh[k] <= 1 /\ (record[k].is # "valid" => fresh[k] = 0)
  /\ \A k \in Keys : record[k] # NoRecord => RunIn(ran, record[k].run, k, record[k].body)
  /\ \A r \in Requests : At(r, "done") => RunIn(ran, request[r].run, KeyOf(r), request[r].body)

LEMMA IdemTypes == IdempotencyTypeOK =>
  /\ record \in [Keys -> Stored] /\ holder \in [Keys -> Requests \cup {Free}]
  /\ request \in [Requests -> Asked] /\ fresh \in [Keys -> Nat]
  /\ ran \in Seq(Keys \X Bodies) /\ Len(ran) <= MaxRuns
BY DEF IdempotencyTypeOK, Stored, Asked

LEMMA AskedFields ==
  ASSUME NEW q \in Asked
  PROVE  /\ q.pc # "idle" => q.key \in Keys /\ q.body \in Bodies
         /\ q.pc \in {"idle", "lookup", "insert", "handle", "commit", "collided", "done", "refused"}
BY DEF Asked, Unasked

LEMMA StoredFields ==
  ASSUME NEW d \in Stored
  PROVE  /\ d = NoRecord <=> d.is = "absent"
         /\ d # NoRecord => d.body \in Bodies /\ d.run \in 1 .. MaxRuns /\ d.is \in {"valid", "expired"}
BY DEF Stored, NoRecord

LEMMA IdemInitHolds == IdempotencyInit => IdemInv
BY IdempotencyAssumption DEF IdempotencyInit, IdemInv, IdempotencyTypeOK, NoRecord, Unasked, Working, At

(* A request moves on outside its transaction; expired rows may go.          *)
LEMMA IdemMoves ==
  ASSUME IdemInv, NEW r \in Requests, NEW q \in Asked, request' = [request EXCEPT ![r] = q],
         record' \in [Keys -> Stored],
         \A k \in Keys : record'[k] = record[k] \/ (record[k].is = "expired" /\ record'[k] = NoRecord),
         UNCHANGED <<holder, ran, fresh>>,
         Working(request[r]) => Working(q) /\ q.key = KeyOf(r),
         Working(q) => Working(request[r]),
         q.pc = "done" => RunIn(ran, q.run, q.key, q.body)
  PROVE  IdemInv'
<1> USE DEF IdemInv
<1>1. request \in [Requests -> Asked] /\ record \in [Keys -> Stored]
  BY IdemTypes
<1>2. request'[r] = q /\ request' \in [Requests -> Asked] /\ \A s \in Requests \ {r} : request'[s] = request[s]
  BY <1>1
<1>3. IdempotencyTypeOK'
  <2>1. \A k \in Keys : holder[k] # Free => Working(request'[holder[k]]) /\ request'[holder[k]].key = k
    BY <1>2 DEF IdempotencyTypeOK, Working, KeyOf
  <2> QED
    BY <1>2, <2>1 DEF IdempotencyTypeOK, Asked, Stored, Working
<1>4. \A k \in Keys : record'[k].is # "valid" => record[k].is # "valid"
  BY DEF NoRecord
<1>5. \A n, k, body : RunIn(ran', n, k, body) <=> RunIn(ran, n, k, body)
  BY DEF RunIn
<1>6. \A s \in Requests : Working(request'[s]) => holder'[request'[s].key] = s
  BY <1>2 DEF KeyOf
<1>7. \A s \in Requests : request'[s].pc = "done" => RunIn(ran, request'[s].run, request'[s].key, request'[s].body)
  BY <1>2 DEF At, KeyOf
<1>8. \A k \in Keys : record'[k] # NoRecord => RunIn(ran, record'[k].run, k, record'[k].body)
  OBVIOUS
<1>9. \A k \in Keys : holder'[k] # Free => record'[k] = NoRecord
  OBVIOUS
<1> QED
  BY <1>3, <1>4, <1>5, <1>6, <1>7, <1>8, <1>9 DEF At, KeyOf, Working

(* An answer from a valid row has its run.                                   *)
LEMMA IdemReplies ==
  ASSUME IdemInv, NEW r \in Requests, request[r].pc # "idle", ~Working(request[r]),
         record' \in [Keys -> Stored],
         \A k \in Keys : record'[k] = record[k] \/ (record[k].is = "expired" /\ record'[k] = NoRecord),
         UNCHANGED <<holder, ran, fresh>>,
         \/ record[KeyOf(r)].is = "valid" /\ Replay(r)
         \/ Step(r, "insert") \/ Step(r, "collided") \/ Reply(r, "refused", 0)
  PROVE  IdemInv'
<1>1. request[r] \in Asked /\ KeyOf(r) \in Keys /\ request[r].body \in Bodies /\ record[KeyOf(r)] \in Stored
  BY IdemTypes, AskedFields DEF IdemInv, KeyOf
<1>2. CASE \E pc \in {"insert", "collided"} : Step(r, pc)
  <2>1. PICK pc \in {"insert", "collided"} : Step(r, pc)
    BY <1>2
  <2> DEFINE q == [pc |-> pc, key |-> request[r].key, body |-> request[r].body]
  <2>2. q \in Asked /\ ~Working(q) /\ q.pc # "done"
    BY <1>1 DEF Asked, Working, KeyOf
  <2>3. request' = [request EXCEPT ![r] = q]
    BY <2>1 DEF Step
  <2> HIDE DEF q
  <2> QED
    BY <2>2, <2>3, IdemMoves
<1>3. CASE Reply(r, "refused", 0)
  <2> DEFINE q == [pc |-> "refused", key |-> request[r].key, body |-> request[r].body, run |-> 0]
  <2>1. q \in Asked /\ ~Working(q) /\ q.pc # "done"
    BY <1>1, IdempotencyAssumption DEF Asked, Working, KeyOf
  <2>2. request' = [request EXCEPT ![r] = q]
    BY <1>3 DEF Reply
  <2> HIDE DEF q
  <2> QED
    BY <2>1, <2>2, IdemMoves
<1>4. CASE record[KeyOf(r)].is = "valid" /\ record[KeyOf(r)].body = request[r].body /\ Reply(r, "done", record[KeyOf(r)].run)
  <2> DEFINE q == [pc |-> "done", key |-> request[r].key, body |-> request[r].body, run |-> record[KeyOf(r)].run]
  <2>1. record[KeyOf(r)] # NoRecord
    BY <1>4 DEF NoRecord
  <2>2. record[KeyOf(r)].run \in 1 .. MaxRuns /\ RunIn(ran, record[KeyOf(r)].run, KeyOf(r), record[KeyOf(r)].body)
    BY <1>1, <2>1, StoredFields DEF IdemInv
  <2>3. q \in Asked /\ ~Working(q) /\ RunIn(ran, q.run, q.key, q.body)
    BY <1>1, <1>4, <2>2, IdempotencyAssumption DEF Asked, Working, KeyOf
  <2>4. request' = [request EXCEPT ![r] = q]
    BY <1>4 DEF Reply
  <2> HIDE DEF q
  <2> QED
    BY <2>3, <2>4, IdemMoves
<1> QED
  BY <1>2, <1>3, <1>4 DEF Replay

LEMMA IdemOutside ==
  ASSUME IdemInv, NEW r \in Requests,
         (\E k \in Keys, body \in Bodies : Receive(r, k, body)) \/ Lookup(r) \/ Collide(r) \/ AfterCollision(r) \/ Handled(r)
  PROVE  IdemInv'
<1>1. request[r] \in Asked /\ record \in [Keys -> Stored]
  BY IdemTypes DEF IdemInv
<1>2. ASSUME NEW k \in Keys, NEW body \in Bodies, Receive(r, k, body) PROVE IdemInv'
  <2> DEFINE q == [pc |-> "lookup", key |-> k, body |-> body]
  <2>1. q \in Asked /\ ~Working(q) /\ q.pc # "done" /\ ~Working(request[r])
    BY <1>2 DEF Asked, Working, Receive
  <2>2. request' = [request EXCEPT ![r] = q] /\ UNCHANGED <<record, holder, ran, fresh>>
    BY <1>2 DEF Receive
  <2> HIDE DEF q
  <2> QED
    BY <1>1, <2>1, <2>2, IdemMoves
<1>3. CASE Lookup(r)
  <2>1. /\ record' \in [Keys -> Stored]
        /\ \A k \in Keys : record'[k] = record[k] \/ (record[k].is = "expired" /\ record'[k] = NoRecord)
    BY <1>1, <1>3 DEF Lookup, Stored
  <2> QED
    BY <1>3, <2>1, IdemReplies DEF Lookup, At, Working
<1>4. CASE Collide(r)
  BY <1>1, <1>4, IdemReplies DEF Collide, At, Working
<1>5. CASE AfterCollision(r)
  BY <1>1, <1>5, IdemReplies DEF AfterCollision, At, Working
<1>6. CASE Handled(r)
  <2> DEFINE q == [pc |-> "commit", key |-> request[r].key, body |-> request[r].body]
  <2>1. q \in Asked /\ Working(q) /\ Working(request[r]) /\ q.key = KeyOf(r) /\ q.pc # "done"
    BY <1>1, <1>6, AskedFields DEF Asked, Working, Handled, At, KeyOf
  <2>2. request' = [request EXCEPT ![r] = q] /\ UNCHANGED <<record, holder, ran, fresh>>
    BY <1>6 DEF Handled, Step
  <2> HIDE DEF q
  <2> QED
    BY <1>1, <2>1, <2>2, IdemMoves
<1> QED
  BY <1>2, <1>3, <1>4, <1>5, <1>6

LEMMA IdemBegins ==
  ASSUME IdemInv, NEW r \in Requests, Begin(r)
  PROVE  IdemInv'
<1> DEFINE q == [pc |-> "handle", key |-> request[r].key, body |-> request[r].body]
<1>1. /\ request \in [Requests -> Asked] /\ holder \in [Keys -> Requests \cup {Free}]
      /\ KeyOf(r) \in Keys /\ request[r].body \in Bodies
  BY IdemTypes, AskedFields DEF IdemInv, KeyOf, Begin, At
<1>2. PICK k \in Keys : KeyOf(r) = k /\ record[k] = NoRecord /\ holder[k] = Free /\ holder' = [holder EXCEPT ![k] = r]
  BY <1>1 DEF Begin
<1>3. q \in Asked /\ Working(q) /\ q.key = k /\ q.pc # "done"
  BY <1>1, <1>2 DEF Asked, Working, KeyOf
<1>4. request' = [request EXCEPT ![r] = q] /\ UNCHANGED <<record, ran, fresh>> /\ ~Working(request[r])
  BY DEF Begin, Step, At, Working
<1> HIDE DEF q
<1>5. request'[r] = q /\ request' \in [Requests -> Asked] /\ \A s \in Requests \ {r} : request'[s] = request[s]
  BY <1>1, <1>3, <1>4
<1>6. /\ holder' \in [Keys -> Requests \cup {Free}] /\ holder'[k] = r
      /\ \A j \in Keys \ {k} : holder'[j] = holder[j] /\ holder[j] # r
  BY <1>1, <1>2, <1>4, IdempotencyAssumption DEF IdemInv, IdempotencyTypeOK, Working
<1>7. \A j \in Keys : holder'[j] # Free => Working(request'[holder'[j]]) /\ request'[holder'[j]].key = j
  BY <1>3, <1>5, <1>6 DEF IdemInv, IdempotencyTypeOK, Working
<1>8. IdempotencyTypeOK'
  BY <1>4, <1>5, <1>6, <1>7 DEF IdemInv, IdempotencyTypeOK, Asked, Working
<1>9. \A s \in Requests : Working(request'[s]) => holder'[request'[s].key] = s
  <2>1. ASSUME NEW s \in Requests \ {r}, Working(request[s]) PROVE holder'[request[s].key] = s
    <3>1. holder[request[s].key] = s /\ request[s].key \in Keys
      BY <1>1, <2>1, AskedFields DEF IdemInv, KeyOf, Working
    <3>2. request[s].key # k
      BY <1>2, <3>1, IdempotencyAssumption
    <3> QED
      BY <1>6, <3>1, <3>2
  <2> QED
    BY <1>3, <1>5, <1>6, <2>1
<1>10. \A s \in Requests : request'[s].pc = "done" => RunIn(ran, request'[s].run, request'[s].key, request'[s].body)
  BY <1>3, <1>5 DEF At, KeyOf, IdemInv
<1>11. \A j \in Keys : holder'[j] # Free => record'[j] = NoRecord
  BY <1>2, <1>4, <1>6 DEF IdemInv
<1>12. \A n, j, body : RunIn(ran', n, j, body) <=> RunIn(ran, n, j, body)
  BY <1>4 DEF RunIn
<1> QED
  BY <1>4, <1>8, <1>9, <1>10, <1>11, <1>12 DEF IdemInv, At, KeyOf, Working

(* The end of a transaction frees its key.                                   *)
LEMMA IdemFrees ==
  ASSUME IdemInv, NEW r \in Requests, Working(request[r]), NEW q \in Asked, q.pc \in {"done", "refused"},
         request' = [request EXCEPT ![r] = q], holder' = [holder EXCEPT ![KeyOf(r)] = Free]
  PROVE  /\ request' \in [Requests -> Asked] /\ request'[r] = q
         /\ \A s \in Requests \ {r} : request'[s] = request[s]
         /\ holder' \in [Keys -> Requests \cup {Free}]
         /\ \A j \in Keys : holder'[j] # Free => /\ j # KeyOf(r) /\ holder'[j] = holder[j]
                                                 /\ Working(request'[holder'[j]]) /\ request'[holder'[j]].key = j
         /\ \A s \in Requests : Working(request'[s]) => holder'[request'[s].key] = s
<1>1. /\ request \in [Requests -> Asked] /\ holder \in [Keys -> Requests \cup {Free}]
      /\ KeyOf(r) \in Keys /\ holder[KeyOf(r)] = r
  BY IdemTypes, AskedFields DEF IdemInv, KeyOf, Working
<1>2. request'[r] = q /\ request' \in [Requests -> Asked] /\ \A s \in Requests \ {r} : request'[s] = request[s]
  BY <1>1
<1>3. ~Working(q)
  BY DEF Working
<1>4. \A j \in Keys \ {KeyOf(r)} : holder'[j] = holder[j] /\ (holder[j] # Free => holder[j] # r)
  BY <1>1 DEF IdemInv, IdempotencyTypeOK, KeyOf
<1>5. holder'[KeyOf(r)] = Free /\ holder' \in [Keys -> Requests \cup {Free}]
  BY <1>1
<1>6. \A j \in Keys : holder'[j] # Free => Working(request'[holder'[j]]) /\ request'[holder'[j]].key = j
  BY <1>2, <1>4, <1>5 DEF IdemInv, IdempotencyTypeOK, Working
<1>7. ASSUME NEW s \in Requests, Working(request'[s]) PROVE holder'[request'[s].key] = s
  <2>1. s # r /\ request'[s] = request[s]
    BY <1>2, <1>3, <1>7
  <2>2. request[s].key \in Keys /\ holder[request[s].key] = s
    BY <1>1, <1>7, <2>1, AskedFields DEF IdemInv, KeyOf, Working
  <2>3. request[s].key # KeyOf(r)
    BY <1>1, <2>1, <2>2
  <2> QED
    BY <1>4, <2>1, <2>2, <2>3
<1> QED
  BY <1>2, <1>4, <1>5, <1>6, <1>7

LEMMA IdemRollsBack ==
  ASSUME IdemInv, NEW r \in Requests, Rollback(r)
  PROVE  IdemInv'
<1> DEFINE q == [pc |-> "refused", key |-> request[r].key, body |-> request[r].body, run |-> 0]
<1>1. Working(request[r]) /\ request[r] \in Asked
  BY IdemTypes DEF IdemInv, Rollback, Working
<1>2. q \in Asked /\ q.pc = "refused"
  BY <1>1, AskedFields, IdempotencyAssumption DEF Asked, Working
<1>3. /\ request' = [request EXCEPT ![r] = q] /\ holder' = [holder EXCEPT ![KeyOf(r)] = Free]
      /\ UNCHANGED <<record, ran, fresh>>
  BY DEF Rollback, Reply
<1> HIDE DEF q
<1>4. /\ request' \in [Requests -> Asked] /\ request'[r] = q
      /\ \A s \in Requests \ {r} : request'[s] = request[s]
      /\ holder' \in [Keys -> Requests \cup {Free}]
      /\ \A j \in Keys : holder'[j] # Free => /\ j # KeyOf(r) /\ holder'[j] = holder[j]
                                              /\ Working(request'[holder'[j]]) /\ request'[holder'[j]].key = j
      /\ \A s \in Requests : Working(request'[s]) => holder'[request'[s].key] = s
  BY <1>1, <1>2, <1>3, IdemFrees
<1>5. IdempotencyTypeOK'
  BY <1>3, <1>4 DEF IdemInv, IdempotencyTypeOK, Asked, Working
<1>6. \A s \in Requests : request'[s].pc = "done" => RunIn(ran, request'[s].run, request'[s].key, request'[s].body)
  BY <1>2, <1>4 DEF At, KeyOf, IdemInv
<1>7. \A n, j, body : RunIn(ran', n, j, body) <=> RunIn(ran, n, j, body)
  BY <1>3 DEF RunIn
<1> QED
  BY <1>3, <1>4, <1>5, <1>6, <1>7 DEF IdemInv, At, KeyOf, Working

LEMMA IdemCommits ==
  ASSUME IdemInv, NEW r \in Requests, Commit(r)
  PROVE  IdemInv'
<1>0. PICK n : n = Len(ran) + 1
  OBVIOUS
<1> DEFINE q == [pc |-> "done", key |-> request[r].key, body |-> request[r].body, run |-> n]
<1>1. /\ Working(request[r]) /\ request \in [Requests -> Asked] /\ record \in [Keys -> Stored] /\ fresh \in [Keys -> Nat]
      /\ ran \in Seq(Keys \X Bodies) /\ Len(ran) \in Nat /\ Len(ran) < MaxRuns
  BY IdemTypes DEF IdemInv, Commit, At, Working
<1>2. PICK k \in Keys, body \in Bodies : KeyOf(r) = k /\ request[r].body = body
  BY <1>1, AskedFields DEF KeyOf, Working
<1>3. q \in Asked /\ q.pc = "done" /\ q.run = n /\ q.key = k /\ q.body = body
  BY <1>0, <1>1, <1>2, IdempotencyAssumption DEF Asked, KeyOf
<1>4. /\ request' = [request EXCEPT ![r] = q] /\ holder' = [holder EXCEPT ![KeyOf(r)] = Free]
      /\ ran' = Append(ran, <<k, body>>) /\ fresh' = [fresh EXCEPT ![k] = @ + 1]
      /\ record' = [record EXCEPT ![k] = [is |-> "valid", body |-> body, run |-> n]]
  BY <1>0, <1>2 DEF Commit, Reply
<1> HIDE DEF q
<1>5. /\ request' \in [Requests -> Asked] /\ request'[r] = q
      /\ \A s \in Requests \ {r} : request'[s] = request[s]
      /\ holder' \in [Keys -> Requests \cup {Free}]
      /\ \A j \in Keys : holder'[j] # Free => /\ j # KeyOf(r) /\ holder'[j] = holder[j]
                                              /\ Working(request'[holder'[j]]) /\ request'[holder'[j]].key = j
      /\ \A s \in Requests : Working(request'[s]) => holder'[request'[s].key] = s
  BY <1>1, <1>3, <1>4, IdemFrees
<1>6. /\ ran' \in Seq(Keys \X Bodies) /\ Len(ran') = n /\ n <= MaxRuns /\ ran'[n] = <<k, body>>
      /\ \A i \in 1 .. Len(ran) : ran'[i] = ran[i]
  BY <1>0, <1>1, <1>4, IdempotencyAssumption
<1>7. \A i, j, c : RunIn(ran, i, j, c) => RunIn(ran', i, j, c)
  BY <1>0, <1>1, <1>6 DEF RunIn
<1>8. RunIn(ran', n, k, body)
  BY <1>0, <1>1, <1>6 DEF RunIn
<1>9. record[k] = NoRecord /\ fresh[k] = 0
  <2>1. holder[k] = r /\ r # Free
    BY <1>1, <1>2, IdempotencyAssumption DEF IdemInv
  <2> QED
    BY <2>1 DEF IdemInv, NoRecord
<1>10. /\ record' \in [Keys -> Stored] /\ record'[k] = [is |-> "valid", body |-> body, run |-> n]
       /\ \A j \in Keys \ {k} : record'[j] = record[j]
  BY <1>0, <1>1, <1>4, <1>6 DEF Stored
<1>11. fresh' \in [Keys -> Nat] /\ fresh'[k] = 1 /\ \A j \in Keys \ {k} : fresh'[j] = fresh[j]
  BY <1>1, <1>4, <1>9
<1>12. IdempotencyTypeOK'
  BY <1>5, <1>6, <1>10, <1>11 DEF IdempotencyTypeOK, Asked, Stored, Working
<1>13. \A s \in Requests : request'[s].pc = "done" => RunIn(ran', request'[s].run, request'[s].key, request'[s].body)
  <2>1. ASSUME NEW s \in Requests \ {r}, request'[s].pc = "done"
        PROVE  RunIn(ran', request'[s].run, request'[s].key, request'[s].body)
    BY <1>5, <1>7, <2>1 DEF At, KeyOf, IdemInv
  <2>2. RunIn(ran', request'[r].run, request'[r].key, request'[r].body)
    BY <1>3, <1>5, <1>8
  <2> QED
    BY <2>1, <2>2
<1>14. \A j \in Keys : record'[j] # NoRecord => RunIn(ran', record'[j].run, j, record'[j].body)
  BY <1>7, <1>8, <1>10 DEF IdemInv
<1>15. \A j \in Keys : holder'[j] # Free => record'[j] = NoRecord
  BY <1>2, <1>5, <1>10 DEF IdemInv
<1>16. \A j \in Keys : fresh'[j] <= 1 /\ (record'[j].is # "valid" => fresh'[j] = 0)
  BY <1>10, <1>11 DEF IdemInv
<1> QED
  BY <1>5, <1>12, <1>13, <1>14, <1>15, <1>16 DEF IdemInv, At, KeyOf, Working

LEMMA IdemExpires ==
  ASSUME IdemInv, NEW k \in Keys, ExpireRecord(k)
  PROVE  IdemInv'
<1>1. record \in [Keys -> Stored] /\ record[k] # NoRecord
  BY IdemTypes DEF IdemInv, ExpireRecord, NoRecord
<1>2. /\ record'[k].is = "expired" /\ record'[k].body = record[k].body /\ record'[k].run = record[k].run
      /\ record' \in [Keys -> Stored] /\ \A j \in Keys \ {k} : record'[j] = record[j]
  <2>1. [record[k] EXCEPT !.is = "expired"] \in Stored
    BY <1>1 DEF Stored
  <2> QED
    BY <1>1, <2>1 DEF ExpireRecord, Stored
<1>3. fresh' \in [Keys -> Nat] /\ fresh'[k] = 0 /\ (\A j \in Keys \ {k} : fresh'[j] = fresh[j]) /\ UNCHANGED <<holder, request, ran>>
  BY IdemTypes DEF IdemInv, ExpireRecord
<1>4. holder[k] = Free
  BY <1>1 DEF IdemInv
<1>5. IdempotencyTypeOK'
  BY <1>2, <1>3 DEF IdemInv, IdempotencyTypeOK, Stored
<1>6. \A n, j, body : RunIn(ran', n, j, body) <=> RunIn(ran, n, j, body)
  BY <1>3 DEF RunIn
<1>7. \A j \in Keys : record'[j] # NoRecord => RunIn(ran, record'[j].run, j, record'[j].body)
  BY <1>1, <1>2 DEF IdemInv
<1>8. \A j \in Keys : fresh'[j] <= 1 /\ (record'[j].is # "valid" => fresh'[j] = 0)
  BY <1>2, <1>3 DEF IdemInv
<1>9. \A j \in Keys : holder'[j] # Free => record'[j] = NoRecord
  BY <1>2, <1>3, <1>4 DEF IdemInv
<1> QED
  BY <1>3, <1>5, <1>6, <1>7, <1>8, <1>9 DEF IdemInv, At, KeyOf

LEMMA IdemStepHolds == IdemInv /\ [IdempotencyNext]_idemVars => IdemInv'
<1>1. IdemInv /\ UNCHANGED idemVars => IdemInv'
  BY DEF idemVars, IdemInv, IdempotencyTypeOK, At, KeyOf, RunIn, Working
<1> QED
  BY <1>1, IdemOutside, IdemBegins, IdemRollsBack, IdemCommits, IdemExpires DEF IdempotencyNext

LEMMA IdemHolds == IdemInv => IdempotencyTypeOK /\ RunsOncePerKey /\ AnsweredByOwnRun
BY DEF IdemInv, RunsOncePerKey, AnsweredByOwnRun, RunIn

-----------------------------------------------------------------------------
(* The conversation of the public portal.                                    *)

Called == {NotCalling} \cup [op: Modes, seen: Conversation, known: Known]
   \cup [op: {"commit"}, seen: Conversation, known: Known, source: Sources, moving: SUBSET (1 .. MaxFiles)]
Made == [draft: 1 .. MaxDrafts, source: Sources, known: Known]
Filed == {"message", "comment"}

(* The calls that would write late when the ticket comes before them.        *)
LateWriters == {c \in Calls : calls[c].op \in {"saveDraft", "upload"}}

(* What a confirmation, at work or done, owes to what was there when it began*)
(* is the same before and after its ticket.                                  *)
Owed(q) ==
  /\ q.op \in {"confirm", "commit"} => q.known.files <= Len(files) /\ (q.seen.draft = q.known.drafts \/ reverted)
  /\ q.op = "commit" => \A f \in 1 .. q.known.files : f \in q.moving \/ files[f] = "comment"
Paying(t) ==
  /\ t.known.files <= Len(files) /\ (t.draft = t.known.drafts \/ reverted)
  /\ \A f \in 1 .. t.known.files : files[f] = "comment"

(* Before the ticket nothing is late; every late write was a call that is    *)
(* under way no more, and after the ticket no call of the kind begins.       *)
ConvInv ==
  /\ ConvTypeOK
  /\ Len(tickets) = conv.ticket
  /\ \A c \in Calls : calls[c].op \in {"confirm", "commit"} => calls[c].seen.draft # 0
  /\ conv.ticket = 0 => late = 0
  /\ late + Cardinality(LateWriters) <= Cardinality(Calls)
  /\ conv.draft = drafts \/ reverted
  /\ \A c \in Calls : Owed(calls[c])
  /\ \A t \in DOMAIN tickets : Paying(tickets[t])

LEMMA ConvTypes ==
  ConvTypeOK => /\ conv \in Conversation /\ calls \in [Calls -> Called] /\ files \in Seq(Filed)
                /\ conv.ticket \in 0 .. 1 /\ conv.draft \in 0 .. MaxDrafts
                /\ conv.status \in {"OPEN", "TICKET_CREATED"} /\ late \in Nat
                /\ tickets \in Seq(Made) /\ drafts \in 0 .. MaxDrafts /\ Len(files) \in 0 .. MaxFiles
BY ConversationAssumption DEF ConvTypeOK, Called, Filed, Conversation, Made

LEMMA CalledFields ==
  ASSUME NEW q \in Called
  PROVE  /\ q # NotCalling => q.op \in Modes \cup {"commit"} /\ q.seen \in Conversation /\ q.known \in Known
         /\ q.op \in Modes \cup {"commit"} => q # NotCalling
         /\ q.op = "commit" => q.source \in Sources /\ q.moving \in SUBSET (1 .. MaxFiles)
BY DEF Called, NotCalling, Modes

LEMMA ConvInitHolds == ConvInit => ConvInv
<1> SUFFICES ASSUME ConvInit PROVE ConvInv
  OBVIOUS
<1>1. ConvTypeOK
  <2>1. tickets = <<>> /\ files = <<>> /\ Len(files) = 0 /\ reverted = FALSE
    BY DEF ConvInit
  <2>2. tickets \in Seq([draft: 1 .. MaxDrafts, source: Sources, known: Known])
    BY <2>1
  <2>3. files \in Seq({"message", "comment"}) /\ Len(files) <= MaxFiles
    BY <2>1, ConversationAssumption
  <2>4. reverted \in BOOLEAN
    BY <2>1
  <2> QED
    BY <2>2, <2>3, <2>4, ConversationAssumption DEF ConvInit, ConvTypeOK, Conversation
<1>2. LateWriters = {}
  BY DEF ConvInit, LateWriters, NotCalling
<1>3. Cardinality(LateWriters) = 0 /\ Cardinality(Calls) \in Nat
  BY <1>2, FS_EmptySet, FS_CardinalityType, ConversationAssumption
<1> QED
  BY <1>1, <1>3 DEF ConvInv, ConvInit, NotCalling, Owed

(* A call enters a new phase: calls that begin to write do so without ticket.*)
LEMMA CallMoves ==
  ASSUME ConvTypeOK, NEW c \in Calls, NEW q \in Called, calls' = [calls EXCEPT ![c] = q]
  PROVE  /\ calls' \in [Calls -> Called] /\ calls'[c] = q /\ \A d \in Calls \ {c} : calls'[d] = calls[d]
         /\ Cardinality(LateWriters) \in Nat /\ Cardinality(LateWriters') \in Nat /\ Cardinality(Calls) \in Nat
         /\ Cardinality(LateWriters') <= Cardinality(Calls)
         /\ q.op \notin {"saveDraft", "upload"} => Cardinality(LateWriters') <= Cardinality(LateWriters)
         /\ q.op \notin {"saveDraft", "upload"} /\ c \in LateWriters => Cardinality(LateWriters') + 1 <= Cardinality(LateWriters)
<1>1. calls' \in [Calls -> Called] /\ calls'[c] = q /\ \A d \in Calls \ {c} : calls'[d] = calls[d]
  BY ConvTypes
<1>2. IsFiniteSet(LateWriters) /\ IsFiniteSet(Calls) /\ LateWriters' \subseteq Calls /\ LateWriters \subseteq Calls
  BY ConversationAssumption, NoMore DEF LateWriters
<1>3. /\ Cardinality(LateWriters) \in Nat /\ Cardinality(LateWriters') \in Nat /\ Cardinality(Calls) \in Nat
      /\ Cardinality(LateWriters') <= Cardinality(Calls)
  BY <1>2, NoMore
<1>4. ASSUME q.op \notin {"saveDraft", "upload"}
      PROVE  /\ Cardinality(LateWriters') <= Cardinality(LateWriters)
             /\ c \in LateWriters => Cardinality(LateWriters') + 1 <= Cardinality(LateWriters)
  <2>1. LateWriters' \subseteq LateWriters \ {c}
    BY <1>1, <1>4 DEF LateWriters
  <2> QED
    BY <1>2, <2>1, NoMore, OneLess
<1> QED
  BY <1>1, <1>3, <1>4

LEMMA ConvReads ==
  ASSUME ConvInv, NEW c \in Calls, NEW op \in Modes, Read(c, op)
  PROVE  ConvInv'
<1> DEFINE k == IF op = "confirm" THEN [drafts |-> drafts, files |-> Len(files)] ELSE [drafts |-> 0, files |-> 0]
           q == [op |-> op, seen |-> conv, known |-> k]
<1>0. k \in Known /\ (op = "confirm" => k.drafts = drafts /\ k.files = Len(files))
  BY ConvTypes, ConversationAssumption DEF Known, ConvInv
<1>1. q \in Called /\ q.op = op /\ q.seen = conv /\ q.known = k
  BY <1>0, ConvTypes DEF Called, ConvInv
<1>2. calls' = [calls EXCEPT ![c] = q] /\ UNCHANGED <<conv, tickets, files, drafts, late, reverted>>
  BY DEF Read
<1> HIDE DEF q, k
<1>3. /\ calls' \in [Calls -> Called] /\ calls'[c] = q /\ \A d \in Calls \ {c} : calls'[d] = calls[d]
      /\ Cardinality(LateWriters) \in Nat /\ Cardinality(LateWriters') \in Nat /\ Cardinality(Calls) \in Nat
      /\ Cardinality(LateWriters') <= Cardinality(Calls)
      /\ q.op \notin {"saveDraft", "upload"} => Cardinality(LateWriters') <= Cardinality(LateWriters)
  BY <1>1, <1>2, CallMoves DEF ConvInv
<1>4. ConvTypeOK'
  BY <1>2, <1>3 DEF ConvInv, ConvTypeOK, Called
<1>5. late' + Cardinality(LateWriters') <= Cardinality(Calls)
  <2>1. CASE op \in {"saveDraft", "upload"}
    <3>1. conv.ticket = 0
      BY <2>1 DEF Read, Unfinished, Modes
    <3> QED
      BY <1>2, <1>3, <3>1 DEF ConvInv
  <2>2. CASE op \notin {"saveDraft", "upload"}
    BY <1>1, <1>2, <1>3, <2>2, ConvTypes DEF ConvInv
  <2> QED
    BY <2>1, <2>2
<1>6. \A d \in Calls : calls'[d].op \in {"confirm", "commit"} => calls'[d].seen.draft # 0
  <2>1. op # "commit"
    BY DEF Modes
  <2> QED
    BY <1>1, <1>3, <2>1 DEF ConvInv, Read
<1>7. \A d \in Calls : Owed(calls[d])'
  <2>1. Owed(q)
    <3>1. op # "commit" /\ Len(files) <= Len(files)
      BY ConvTypes DEF Modes, ConvInv
    <3> QED
      BY <1>0, <1>1, <3>1 DEF ConvInv, Owed
  <2> QED
    BY <1>2, <1>3, <2>1 DEF ConvInv, Owed
<1>8. \A t \in DOMAIN tickets : Paying(tickets[t])'
  BY <1>2 DEF ConvInv, Paying
<1> QED
  BY <1>2, <1>4, <1>5, <1>6, <1>7, <1>8 DEF ConvInv

(* A call that returns, with at most one late write when it could write.     *)
LEMMA ConvReturns ==
  ASSUME ConvInv, NEW c \in Calls, Return(c), UNCHANGED tickets,
         conv' \in Conversation, conv'.status = conv.status, conv'.ticket = conv.ticket,
         files' \in Seq(Filed), Len(files') <= MaxFiles, drafts' \in 0 .. MaxDrafts,
         Len(files) <= Len(files'), \A f \in 1 .. Len(files) : files'[f] = files[f],
         reverted' \in BOOLEAN, reverted => reverted', conv'.draft = drafts' \/ reverted',
         \/ late' = late
         \/ conv.ticket # 0 /\ calls[c].op \in {"saveDraft", "upload"} /\ late' = late + 1
  PROVE  ConvInv'
<1>1. /\ calls' \in [Calls -> Called] /\ calls'[c] = NotCalling /\ \A d \in Calls \ {c} : calls'[d] = calls[d]
      /\ Cardinality(LateWriters) \in Nat /\ Cardinality(LateWriters') \in Nat /\ Cardinality(Calls) \in Nat
      /\ Cardinality(LateWriters') <= Cardinality(LateWriters)
      /\ c \in LateWriters => Cardinality(LateWriters') + 1 <= Cardinality(LateWriters)
  <2>1. NotCalling \in Called /\ NotCalling.op \notin {"saveDraft", "upload"}
    BY DEF Called, NotCalling
  <2> QED
    BY <2>1, CallMoves DEF ConvInv, Return
<1>2. ConvTypeOK'
  BY <1>1 DEF ConvInv, ConvTypeOK, Called, Filed
<1>3. late \in Nat /\ late + Cardinality(LateWriters) <= Cardinality(Calls)
  BY ConvTypes DEF ConvInv
<1>4. late' + Cardinality(LateWriters') <= Cardinality(Calls)
  <2>1. late' = late + 1 => c \in LateWriters
    BY <1>3 DEF LateWriters
  <2> QED
    BY <1>1, <1>3, <2>1
<1>5. \A d \in Calls : calls'[d].op \in {"confirm", "commit"} => calls'[d].seen.draft # 0
  BY <1>1 DEF ConvInv, NotCalling
<1>6. Len(files) \in Nat /\ Len(files') \in Nat
  BY ConvTypes DEF ConvInv
<1>7. ASSUME NEW d \in Calls PROVE Owed(calls[d])'
  <2>1. CASE d = c
    BY <1>1, <2>1 DEF Owed, NotCalling
  <2>2. CASE d # c
    <3>1. calls'[d] = calls[d] /\ calls[d] \in Called /\ Owed(calls[d])
      BY <1>1, <2>2, ConvTypes DEF ConvInv
    <3>2. calls[d].op \in {"confirm", "commit"} => calls[d].known \in Known
      BY <3>1 DEF Called, NotCalling
    <3>3. PICK q : q = calls[d] /\ q = calls'[d]
      BY <3>1
    <3>4. q.op \in {"confirm", "commit"} => q.known.files \in Nat /\ q.known.files <= Len(files)
      BY <3>1, <3>2, <3>3, ConversationAssumption DEF Owed, Known
    <3>5. q.op \in {"confirm", "commit"} => q.known.files <= Len(files')
      BY <1>6, <3>4
    <3>6. q.op = "commit" => \A f \in 1 .. q.known.files : f \in q.moving \/ files'[f] = "comment"
      BY <1>6, <3>1, <3>3, <3>4 DEF Owed
    <3>7. q.op \in {"confirm", "commit"} => q.seen.draft = q.known.drafts \/ reverted'
      BY <3>1, <3>3 DEF Owed
    <3> QED
      BY <3>3, <3>5, <3>6, <3>7 DEF Owed
  <2> QED
    BY <2>1, <2>2
<1>8. ASSUME NEW t \in DOMAIN tickets PROVE Paying(tickets[t])'
  <2>1. PICK m \in Made : m = tickets[t] /\ m = tickets'[t] /\ Paying(m)
    BY ConvTypes DEF ConvInv
  <2>2. m.known.files \in Nat /\ m.known.files <= Len(files)
    BY <2>1, ConversationAssumption DEF Paying, Made, Known
  <2>3. m.known.files <= Len(files') /\ \A f \in 1 .. m.known.files : files'[f] = "comment"
    BY <1>6, <2>1, <2>2 DEF Paying
  <2>4. m.draft = m.known.drafts \/ reverted'
    BY <2>1 DEF Paying
  <2> QED
    BY <2>1, <2>3, <2>4 DEF Paying
<1> QED
  BY <1>2, <1>4, <1>5, <1>7, <1>8 DEF ConvInv

LEMMA ConvWrites ==
  ASSUME ConvInv, NEW c \in Calls, SaveDraft(c) \/ RequestHandoff(c) \/ Upload(c) \/ AddComment(c) \/ Abandon(c)
  PROVE  ConvInv'
<1>1. /\ conv \in Conversation /\ calls[c] \in Called /\ files \in Seq(Filed) /\ Len(files) <= MaxFiles
      /\ drafts \in 0 .. MaxDrafts
  BY ConvTypes DEF ConvInv, ConvTypeOK
<1>0. Len(files) \in Nat /\ reverted \in BOOLEAN /\ (conv.draft = drafts \/ reverted)
  BY ConvTypes DEF ConvInv, ConvTypeOK
<1>2. calls[c] # NotCalling /\ calls[c].seen \in Conversation
  BY <1>1, CalledFields DEF SaveDraft, RequestHandoff, Upload, AddComment, Abandon, Modes
<1>3. CASE SaveDraft(c)
  <2>1. drafts' \in 0 .. MaxDrafts
    BY <1>1, <1>3, ConversationAssumption DEF SaveDraft
  <2>2. conv' \in Conversation /\ conv'.status = conv.status /\ conv'.ticket = conv.ticket
    BY <1>1, <1>2, <1>3, <2>1 DEF SaveDraft, Conversation
  <2>3. conv'.draft = drafts'
    BY <1>1, <1>3 DEF SaveDraft, Conversation
  <2> QED
    BY <1>0, <1>1, <1>3, <2>1, <2>2, <2>3, ConvReturns DEF SaveDraft
<1>4. CASE RequestHandoff(c)
  <2>1. conv' \in Conversation /\ conv'.status = conv.status /\ conv'.ticket = conv.ticket
    BY <1>1, <1>2, <1>4 DEF RequestHandoff, Conversation
  <2>2. conv'.draft = calls[c].seen.draft /\ UNCHANGED drafts /\ reverted' = (reverted \/ conv.draft # calls[c].seen.draft)
    BY <1>1, <1>4 DEF RequestHandoff, Conversation
  <2>3. reverted' \in BOOLEAN /\ (reverted => reverted') /\ (conv'.draft = drafts' \/ reverted')
    BY <1>0, <2>2
  <2> QED
    BY <1>0, <1>1, <1>4, <2>1, <2>3, ConvReturns DEF RequestHandoff
<1>5. CASE Upload(c)
  <2>1. files' \in Seq(Filed) /\ Len(files') <= MaxFiles
    BY <1>1, <1>5, ConversationAssumption DEF Upload, Filed
  <2>2. Len(files) <= Len(files') /\ \A f \in 1 .. Len(files) : files'[f] = files[f]
    BY <1>1, <1>5 DEF Upload, Filed
  <2> QED
    BY <1>0, <1>1, <1>5, <2>1, <2>2, ConvReturns DEF Upload
<1>6. CASE AddComment(c)
  <2>1. conv' \in Conversation /\ conv'.status = conv.status /\ conv'.ticket = conv.ticket
    BY <1>1, <1>6 DEF AddComment, Conversation
  <2>2. conv'.draft = conv.draft /\ UNCHANGED <<drafts, files, reverted>>
    BY <1>1, <1>6 DEF AddComment, Conversation
  <2> QED
    BY <1>0, <1>1, <1>6, <2>1, <2>2, ConvReturns DEF AddComment
<1>7. CASE Abandon(c)
  BY <1>0, <1>1, <1>7, ConvReturns DEF Abandon
<1> QED
  BY <1>3, <1>4, <1>5, <1>6, <1>7

LEMMA ConvPrepares ==
  ASSUME ConvInv, NEW c \in Calls, Prepare(c)
  PROVE  ConvInv'
<1>1. /\ calls[c] \in Called /\ calls[c].seen \in Conversation /\ calls[c].seen.draft # 0 /\ calls[c].op = "confirm"
      /\ calls[c].known \in Known
      /\ DOMAIN files \subseteq 1 .. MaxFiles
  BY ConvTypes, CalledFields, ConversationAssumption DEF ConvInv, ConvTypeOK, Prepare, Modes
<1>2. PICK p \in Policies, w \in Wishes :
        calls' = [calls EXCEPT ![c] = [op |-> "commit", seen |-> calls[c].seen, known |-> calls[c].known, source |-> ChosenRoute(p, w)[1],
                                       moving |-> {f \in DOMAIN files : files[f] = "message"}]]
  BY DEF Prepare
<1> DEFINE q == [op |-> "commit", seen |-> calls[c].seen, known |-> calls[c].known, source |-> ChosenRoute(p, w)[1],
                 moving |-> {f \in DOMAIN files : files[f] = "message"}]
<1>3. ChosenRoute(p, w)[1] \in Sources
  BY DEF ChosenRoute, Sources
<1>4. /\ q \in Called /\ q.op = "commit" /\ q.seen.draft # 0
      /\ q.seen = calls[c].seen /\ q.known = calls[c].known /\ q.moving = {f \in DOMAIN files : files[f] = "message"}
  BY <1>1, <1>3 DEF Called
<1>5. calls' = [calls EXCEPT ![c] = q] /\ UNCHANGED <<conv, tickets, files, drafts, late, reverted>>
  BY <1>2 DEF Prepare
<1> HIDE DEF q
<1>6. /\ calls' \in [Calls -> Called] /\ calls'[c] = q /\ \A d \in Calls \ {c} : calls'[d] = calls[d]
      /\ Cardinality(LateWriters) \in Nat /\ Cardinality(LateWriters') \in Nat /\ Cardinality(Calls) \in Nat
      /\ Cardinality(LateWriters') <= Cardinality(LateWriters)
  BY <1>4, <1>5, CallMoves DEF ConvInv
<1>7. ConvTypeOK'
  BY <1>5, <1>6 DEF ConvInv, ConvTypeOK, Called
<1>8. late' + Cardinality(LateWriters') <= Cardinality(Calls)
  BY <1>5, <1>6, ConvTypes DEF ConvInv
<1>9. \A d \in Calls : calls'[d].op \in {"confirm", "commit"} => calls'[d].seen.draft # 0
  BY <1>4, <1>6 DEF ConvInv
<1>10. Owed(q)
  <2>1. calls[c].known.files <= Len(files) /\ (calls[c].seen.draft = calls[c].known.drafts \/ reverted)
    BY <1>1 DEF ConvInv, Owed
  <2>2. PICK n \in Nat : n = calls[c].known.files /\ n <= Len(files)
    BY <1>1, <2>1, ConversationAssumption DEF Known
  <2>3. files \in Seq(Filed) /\ Len(files) \in Nat
    BY ConvTypes DEF ConvInv
  <2>4. \A f \in 1 .. n : f \in DOMAIN files /\ files[f] \in Filed
    BY <2>2, <2>3
  <2>5. \A f \in 1 .. n : f \in q.moving \/ files[f] = "comment"
    BY <1>4, <2>4 DEF Filed
  <2> QED
    BY <1>4, <2>1, <2>2, <2>5 DEF Owed
<1>11. \A d \in Calls : Owed(calls[d])'
  BY <1>5, <1>6, <1>10 DEF ConvInv, Owed
<1>12. \A t \in DOMAIN tickets : Paying(tickets[t])'
  BY <1>5 DEF ConvInv, Paying
<1> QED
  BY <1>5, <1>7, <1>8, <1>9, <1>11, <1>12 DEF ConvInv

(* The update where the status is still OPEN: the first ticket.              *)
LEMMA ConvCommits ==
  ASSUME ConvInv, NEW c \in Calls, CommitTicket(c)
  PROVE  ConvInv'
<1>1. /\ conv \in Conversation /\ calls[c] \in Called /\ files \in Seq(Filed) /\ Len(files) <= MaxFiles
      /\ calls[c].seen \in Conversation /\ calls[c].seen.draft \in 1 .. MaxDrafts /\ calls[c].source \in Sources
      /\ calls[c].known \in Known /\ calls[c].op = "commit" /\ MakeTicket(c)
  BY ConvTypes, CalledFields, ConversationAssumption DEF ConvInv, ConvTypeOK, CommitTicket, Conversation
<1>2. conv.ticket = 0 /\ Len(tickets) = 0 /\ tickets \in Seq(Made)
  BY ConvTypes DEF CommitTicket, ConvInv, ConvTypeOK
<1> DEFINE m == [draft |-> calls[c].seen.draft, source |-> calls[c].source, known |-> calls[c].known]
<1>3. /\ Len(tickets') = 1 /\ tickets' \in Seq(Made) /\ tickets'[1] = m
      /\ m \in Made /\ m.draft = calls[c].seen.draft /\ m.known = calls[c].known
  BY <1>1, <1>2 DEF MakeTicket, Made
<1> HIDE DEF m
<1>4. /\ conv' \in Conversation /\ conv'.status = "TICKET_CREATED" /\ conv'.ticket = 1
      /\ conv'.draft = conv.draft /\ UNCHANGED <<drafts, late, reverted>>
  <2>1. /\ conv' = [conv EXCEPT !.status = "TICKET_CREATED", !.ticket = Len(tickets'), !.state = "CREATED"]
        /\ UNCHANGED <<drafts, late, reverted>>
    BY <1>1 DEF MakeTicket
  <2>2. conv' = [conv EXCEPT !.status = "TICKET_CREATED", !.ticket = 1, !.state = "CREATED"]
    BY <1>3, <2>1
  <2>3. conv \in Conversation
    BY <1>1
  <2>4. conv' = [status |-> "TICKET_CREATED", ticket |-> 1, state |-> "CREATED", draft |-> conv.draft, handoff |-> conv.handoff]
    BY <2>2, <2>3 DEF Conversation
  <2>5. conv' \in Conversation /\ conv'.status = "TICKET_CREATED" /\ conv'.ticket = 1 /\ conv'.draft = conv.draft
    BY <2>3, <2>4 DEF Conversation
  <2> QED
    BY <2>1, <2>5
<1>5. /\ files' \in Seq(Filed) /\ Len(files') = Len(files) /\ Len(files) \in Nat
      /\ \A f \in 1 .. Len(files) : /\ f \in calls[c].moving => files'[f] = "comment"
                                    /\ files[f] = "comment" => files'[f] = "comment"
  BY <1>1 DEF MakeTicket, Filed
<1>6. /\ calls' \in [Calls -> Called] /\ calls'[c] = NotCalling /\ \A d \in Calls \ {c} : calls'[d] = calls[d]
      /\ Cardinality(LateWriters) \in Nat /\ Cardinality(LateWriters') \in Nat /\ Cardinality(Calls) \in Nat
      /\ Cardinality(LateWriters') <= Cardinality(LateWriters)
  <2>1. NotCalling \in Called /\ NotCalling.op \notin {"saveDraft", "upload"}
    BY DEF Called, NotCalling
  <2>2. calls' = [calls EXCEPT ![c] = NotCalling]
    BY <1>1 DEF MakeTicket, Return
  <2> QED
    BY <2>1, <2>2, CallMoves DEF ConvInv
<1>7. ConvTypeOK'
  BY <1>1, <1>3, <1>4, <1>5, <1>6 DEF ConvInv, ConvTypeOK, Called, Filed, Made
<1>8. late' + Cardinality(LateWriters') <= Cardinality(Calls)
  BY <1>4, <1>6, ConvTypes DEF ConvInv
<1>9. \A d \in Calls : calls'[d].op \in {"confirm", "commit"} => calls'[d].seen.draft # 0
  BY <1>6 DEF ConvInv, NotCalling
<1>10. conv'.draft = drafts' \/ reverted'
  BY <1>4 DEF ConvInv
<1>11. ASSUME NEW d \in Calls PROVE Owed(calls[d])'
  <2>1. CASE d = c
    BY <1>6, <2>1 DEF Owed, NotCalling
  <2>2. CASE d # c
    <3>1. calls'[d] = calls[d] /\ calls[d] \in Called /\ Owed(calls[d])
      BY <1>6, <2>2, ConvTypes DEF ConvInv
    <3>2. PICK q : q = calls[d] /\ q = calls'[d]
      BY <3>1
    <3>3. q.op = "commit" => q.known.files \in Nat /\ q.known.files <= Len(files)
      BY <3>1, <3>2, ConversationAssumption DEF Owed, Known, Called, NotCalling
    <3>4. q.op = "commit" => \A f \in 1 .. q.known.files : f \in q.moving \/ files'[f] = "comment"
      BY <1>5, <3>1, <3>2, <3>3 DEF Owed
    <3>5. q.op \in {"confirm", "commit"} => q.known.files <= Len(files') /\ (q.seen.draft = q.known.drafts \/ reverted')
      BY <1>4, <1>5, <3>1, <3>2 DEF Owed
    <3> QED
      BY <3>2, <3>4, <3>5 DEF Owed
  <2> QED
    BY <2>1, <2>2
<1>12. ASSUME NEW t \in DOMAIN tickets' PROVE Paying(tickets[t])'
  <2>1. t = 1 /\ tickets'[t] = m
    BY <1>3
  <2>2. Owed(calls[c])
    BY DEF ConvInv
  <2>3. PICK n \in Nat : n = m.known.files /\ n = calls[c].known.files /\ n <= Len(files)
    BY <1>1, <1>3, <2>2, ConversationAssumption DEF Owed, Known
  <2>4. \A f \in 1 .. n : files'[f] = "comment"
    BY <1>1, <1>5, <2>2, <2>3 DEF Owed
  <2>5. m.draft = m.known.drafts \/ reverted'
    BY <1>1, <1>3, <1>4, <2>2 DEF Owed
  <2> QED
    BY <1>5, <2>1, <2>3, <2>4, <2>5 DEF Paying
<1> QED
  BY <1>3, <1>4, <1>7, <1>8, <1>9, <1>10, <1>11, <1>12 DEF ConvInv

LEMMA ConvStepHolds == ConvInv /\ [ConvNext]_convVars => ConvInv'
<1>1. ConvInv /\ UNCHANGED convVars => ConvInv'
  BY DEF convVars, ConvInv, ConvTypeOK, LateWriters, Owed, Paying
<1> QED
  BY <1>1, ConvReads, ConvWrites, ConvPrepares, ConvCommits DEF ConvNext

LEMMA ConvHolds ==
  ConvInv => ConvTypeOK /\ OneTicket /\ LateWritesBounded /\ LastDraftReachesTicket /\ FilesReachTicket
<1>1. IsFiniteSet(LateWriters)
  BY ConversationAssumption, NoMore DEF LateWriters
<1>2. Cardinality(LateWriters) \in Nat /\ Cardinality(Calls) \in Nat
  BY <1>1, FS_CardinalityType, ConversationAssumption
<1> QED
  BY <1>2, ConvTypes DEF ConvInv, OneTicket, LateWritesBounded, LastDraftReachesTicket, FilesReachTicket, Paying
-----------------------------------------------------------------------------
(* The codes sent to a contact.                                              *)

Guess == {NotGuessing} \cup [pc: {"quota", "compare"}, of: 1 .. MaxChallenges]

Holding(i) == {g \in Guessers : guessing[g] # NotGuessing /\ guessing[g].of = i}
Comparing == {g \in Guessers : guessing[g].pc = "compare"}
Paid == IF quota.attempts > AttemptLimit THEN AttemptLimit ELSE quota.attempts

(* What is true of a code that n calls have read: while it can be used every *)
(* comparison was recorded, and what the calls can still add is bounded.     *)
SoundCode(row, n) ==
  /\ row.failed = MaxAttempts <=> row.status = "LOCKED"
  /\ row.opened = 1 <=> row.status = "VERIFIED"
  /\ row.status = "PENDING" => row.compared = row.failed
  /\ row.compared + n <= MaxAttempts + Cardinality(Guessers) - 1

VerInv ==
  /\ VerTypeOK
  /\ OneLiveCode
  /\ \A g \in Guessers : guessing[g] # NotGuessing => guessing[g].of \in DOMAIN challenges
  /\ \A i \in DOMAIN challenges : SoundCode(challenges[i], Cardinality(Holding(i)))
  /\ tries + Cardinality(Comparing) <= Paid + Cardinality(Guessers)

LEMMA VerConstants ==
  /\ MaxChallenges \in Nat \ {0} /\ MaxAttempts \in Nat \ {0} /\ RequestLimit \in Nat \ {0}
  /\ AttemptLimit \in Nat \ {0} /\ Cardinality(Guessers) \in Nat
BY VerificationAssumption, FS_CardinalityType

LEMMA VerTypes == VerTypeOK =>
  /\ challenges \in Seq(Challenge) /\ Len(challenges) \in Nat /\ DOMAIN challenges = 1 .. Len(challenges)
  /\ \A i \in DOMAIN challenges : challenges[i] \in Challenge
  /\ guessing \in [Guessers -> Guess] /\ quota.attempts \in 0 .. AttemptLimit + 1 /\ tries \in Nat
BY DEF VerTypeOK, Guess

LEMMA GuessFields ==
  ASSUME NEW q \in Guess
  PROVE  /\ q # NotGuessing <=> q.pc \in {"quota", "compare"}
         /\ q # NotGuessing => q.of \in 1 .. MaxChallenges
         /\ q # NotGuessing => [q EXCEPT !.pc = "compare"] \in Guess
BY DEF Guess, NotGuessing

LEMMA ChallengeFields ==
  ASSUME NEW row \in Challenge
  PROVE  /\ row.status \in {"PENDING", "VERIFIED", "EXPIRED", "LOCKED"} /\ row.failed \in 0 .. MaxAttempts
         /\ row.compared \in Nat /\ row.opened \in 0 .. 1 /\ row.recent \in BOOLEAN /\ row.lapsed \in BOOLEAN
BY DEF Challenge

(* The sets of the calls are finite.                                         *)
LEMMA HoldersCounted ==
  /\ \A i : /\ IsFiniteSet(Holding(i)) /\ Cardinality(Holding(i)) \in Nat
            /\ Cardinality(Holding(i)) <= Cardinality(Guessers)
  /\ IsFiniteSet(Comparing) /\ Cardinality(Comparing) \in Nat /\ Cardinality(Comparing) <= Cardinality(Guessers)
<1>1. IsFiniteSet(Guessers) /\ (\A i : Holding(i) \subseteq Guessers) /\ Comparing \subseteq Guessers
  BY VerificationAssumption DEF Holding, Comparing
<1> QED
  BY <1>1, NoMore

LEMMA HoldersCountedNext ==
  /\ \A i : /\ Cardinality(Holding(i)') \in Nat /\ Cardinality(Holding(i)') <= Cardinality(Guessers)
  /\ Cardinality(Comparing') \in Nat /\ Cardinality(Comparing') <= Cardinality(Guessers)
<1>1. IsFiniteSet(Guessers) /\ (\A i : Holding(i)' \subseteq Guessers) /\ Comparing' \subseteq Guessers
  BY VerificationAssumption DEF Holding, Comparing
<1> QED
  BY <1>1, NoMore

(* One call moves.                                                           *)
LEMMA GuessMoves ==
  ASSUME VerTypeOK, NEW g \in Guessers, NEW q \in Guess, guessing' = [guessing EXCEPT ![g] = q]
  PROVE  /\ guessing' \in [Guessers -> Guess] /\ guessing'[g] = q
         /\ \A h \in Guessers \ {g} : guessing'[h] = guessing[h]
         /\ \A i : (q # NotGuessing => q.of # i) \/ (guessing[g] # NotGuessing /\ guessing[g].of = i) =>
                     Cardinality(Holding(i)') <= Cardinality(Holding(i))
         /\ \A i : q = NotGuessing /\ guessing[g] # NotGuessing /\ guessing[g].of = i =>
                     Cardinality(Holding(i)') + 1 <= Cardinality(Holding(i))
         /\ Cardinality(Comparing') <= Cardinality(Comparing) + 1
         /\ q.pc # "compare" => Cardinality(Comparing') <= Cardinality(Comparing)
         /\ q.pc # "compare" /\ guessing[g].pc = "compare" =>
              Cardinality(Comparing') + 1 <= Cardinality(Comparing)
<1>1. guessing' \in [Guessers -> Guess] /\ guessing'[g] = q /\ \A h \in Guessers \ {g} : guessing'[h] = guessing[h]
  BY VerTypes
<1>2. ASSUME NEW i, (q # NotGuessing => q.of # i) \/ (guessing[g] # NotGuessing /\ guessing[g].of = i)
      PROVE  Cardinality(Holding(i)') <= Cardinality(Holding(i))
  <2>1. Holding(i)' \subseteq Holding(i)
    BY <1>1, <1>2 DEF Holding
  <2> QED
    BY <2>1, HoldersCounted, NoMore
<1>3. ASSUME NEW i, q = NotGuessing, guessing[g] # NotGuessing, guessing[g].of = i
      PROVE  Cardinality(Holding(i)') + 1 <= Cardinality(Holding(i))
  <2>1. g \in Holding(i) /\ Holding(i)' \subseteq Holding(i) \ {g}
    BY <1>1, <1>3 DEF Holding
  <2> QED
    BY <2>1, HoldersCounted, OneLess
<1>4. Cardinality(Comparing') <= Cardinality(Comparing) + 1
  <2>1. Comparing' \subseteq Comparing \cup {g}
    BY <1>1 DEF Comparing
  <2> QED
    BY <2>1, HoldersCounted, OneMore
<1>5. ASSUME q.pc # "compare" PROVE Cardinality(Comparing') <= Cardinality(Comparing)
  <2>1. Comparing' \subseteq Comparing
    BY <1>1, <1>5 DEF Comparing
  <2> QED
    BY <2>1, HoldersCounted, NoMore
<1>6. ASSUME q.pc # "compare", guessing[g].pc = "compare"
      PROVE  Cardinality(Comparing') + 1 <= Cardinality(Comparing)
  <2>1. g \in Comparing /\ Comparing' \subseteq Comparing \ {g}
    BY <1>1, <1>6 DEF Comparing
  <2> QED
    BY <2>1, HoldersCounted, OneLess
<1> QED
  BY <1>1, <1>2, <1>3, <1>4, <1>5, <1>6

(* One code changes.                                                         *)
LEMMA CodeChanges ==
  ASSUME VerInv, NEW i \in DOMAIN challenges, NEW row \in Challenge, challenges' = [challenges EXCEPT ![i] = row],
         row.failed = MaxAttempts <=> row.status = "LOCKED",
         row.status = "PENDING" => IsPending(i)
  PROVE  /\ challenges' \in Seq(Challenge) /\ Len(challenges') = Len(challenges) /\ Len(challenges') <= MaxChallenges
         /\ DOMAIN challenges' = DOMAIN challenges /\ challenges'[i] = row
         /\ \A j \in DOMAIN challenges \ {i} : challenges'[j] = challenges[j]
         /\ \A j \in DOMAIN challenges' : challenges'[j].failed = MaxAttempts <=> challenges'[j].status = "LOCKED"
         /\ OneLiveCode'
<1>1. /\ challenges' \in Seq(Challenge) /\ Len(challenges') = Len(challenges) /\ Len(challenges') <= MaxChallenges
      /\ DOMAIN challenges' = DOMAIN challenges /\ challenges'[i] = row
      /\ \A j \in DOMAIN challenges \ {i} : challenges'[j] = challenges[j]
  BY VerTypes DEF VerInv, VerTypeOK
<1>2. \A j \in DOMAIN challenges' : challenges'[j].failed = MaxAttempts <=> challenges'[j].status = "LOCKED"
  BY <1>1 DEF VerInv, VerTypeOK
<1>3. OneLiveCode'
  BY <1>1 DEF VerInv, OneLiveCode, IsPending
<1> QED
  BY <1>1, <1>2, <1>3

LEMMA VerInitHolds == VerInit => VerInv
<1> SUFFICES ASSUME VerInit PROVE VerInv
  OBVIOUS
<1>1. VerTypeOK
  BY VerConstants DEF VerInit, VerTypeOK
<1>2. Paid = 0 /\ tries = 0 /\ DOMAIN challenges = {}
  BY VerConstants DEF VerInit, Paid
<1>3. tries + Cardinality(Comparing) <= Paid + Cardinality(Guessers)
  BY <1>2, HoldersCounted, VerConstants
<1> QED
  BY <1>1, <1>2, <1>3 DEF VerInit, VerInv, OneLiveCode

(* Requests, aging and the end of the hour.                                  *)
LEMMA VerAsks ==
  ASSUME VerInv, (\E c \in Askers : RequestEmail(c)) \/ NextHour
  PROVE  VerInv'
<1>1. UNCHANGED <<challenges, guessing>>
  BY DEF RequestEmail, NextHour
<1>2. /\ quota' \in [requests: 0 .. RequestLimit + 1, attempts: 0 .. AttemptLimit + 1] /\ asking' \subseteq Askers
      /\ \/ quota'.attempts = quota.attempts /\ tries' = tries
         \/ quota'.attempts = 0 /\ tries' = 0
  <2>1. ASSUME NEW c \in Askers, RequestEmail(c)
        PROVE  quota' \in [requests: 0 .. RequestLimit + 1, attempts: 0 .. AttemptLimit + 1] /\ asking' \subseteq Askers
               /\ quota'.attempts = quota.attempts /\ tries' = tries
    <3>1. Counted(quota.requests, RequestLimit) \in 0 .. RequestLimit + 1
      BY VerConstants DEF Counted, VerInv, VerTypeOK
    <3>2. asking' \subseteq asking \cup {c} /\ tries' = tries
      BY <2>1 DEF RequestEmail
    <3>3. quota' = [quota EXCEPT !.requests = Counted(quota.requests, RequestLimit)]
      BY <2>1 DEF RequestEmail
    <3> QED
      BY <3>1, <3>2, <3>3 DEF VerInv, VerTypeOK
  <2>2. CASE NextHour
    BY <2>2, VerConstants DEF NextHour, VerInv, VerTypeOK
  <2> QED
    BY <2>1, <2>2
<1>3. VerTypeOK'
  BY <1>1, <1>2 DEF VerInv, VerTypeOK
<1>4. Comparing' = Comparing /\ \A i : Holding(i)' = Holding(i)
  BY <1>1 DEF Comparing, Holding
<1>5. tries' + Cardinality(Comparing') <= Paid' + Cardinality(Guessers)
  <2>1. CASE quota'.attempts = quota.attempts /\ tries' = tries
    BY <1>4, <2>1 DEF Paid, VerInv
  <2>2. CASE quota'.attempts = 0 /\ tries' = 0
    <3>1. Paid' = 0
      BY <2>2, VerConstants DEF Paid
    <3> QED
      BY <1>4, <2>2, <3>1, HoldersCounted, VerConstants
  <2> QED
    BY <1>2, <2>1, <2>2
<1> QED
  BY <1>1, <1>3, <1>4, <1>5 DEF VerInv, OneLiveCode, IsPending

LEMMA VerAges ==
  ASSUME VerInv, NEW i \in DOMAIN challenges, Age(i)
  PROVE  VerInv'
<1>1. challenges[i] \in Challenge
  BY VerTypes DEF VerInv
<1>2. PICK row : /\ row \in {[challenges[i] EXCEPT !.recent = FALSE], [challenges[i] EXCEPT !.lapsed = TRUE]}
                 /\ challenges' = [challenges EXCEPT ![i] = row]
  BY DEF Age
<1>3. /\ row \in Challenge /\ row.status = challenges[i].status /\ row.failed = challenges[i].failed
      /\ row.compared = challenges[i].compared /\ row.opened = challenges[i].opened
  BY <1>1, <1>2 DEF Challenge
<1>4. row.failed = MaxAttempts <=> row.status = "LOCKED"
  BY <1>3 DEF VerInv, VerTypeOK
<1>5. /\ challenges' \in Seq(Challenge) /\ Len(challenges') = Len(challenges) /\ Len(challenges') <= MaxChallenges
      /\ DOMAIN challenges' = DOMAIN challenges /\ challenges'[i] = row
      /\ \A j \in DOMAIN challenges \ {i} : challenges'[j] = challenges[j]
      /\ \A j \in DOMAIN challenges' : challenges'[j].failed = MaxAttempts <=> challenges'[j].status = "LOCKED"
      /\ OneLiveCode'
  BY <1>2, <1>3, <1>4, CodeChanges DEF IsPending
<1>6. UNCHANGED <<asking, guessing, quota, tries>>
  BY DEF Age
<1>7. VerTypeOK'
  BY <1>5, <1>6 DEF VerInv, VerTypeOK
<1>8. Comparing' = Comparing /\ Paid' = Paid /\ \A j : Holding(j)' = Holding(j)
  BY <1>6 DEF Comparing, Holding, Paid
<1>9. \A j \in DOMAIN challenges' : SoundCode(challenges'[j], Cardinality(Holding(j)'))
  BY <1>3, <1>5, <1>8 DEF VerInv, SoundCode
<1> QED
  BY <1>5, <1>6, <1>7, <1>8, <1>9 DEF VerInv

(* The codes still pending expire, and the new one is the last.              *)
LEMMA VerReplaces ==
  ASSUME VerInv, NEW c \in Askers, ReplaceCodes(c)
  PROVE  VerInv'
<1>1. PICK n \in Nat : n = Len(challenges)
  BY VerTypes DEF VerInv
<1>2. DOMAIN challenges = 1 .. n /\ n < MaxChallenges /\ \A i \in 1 .. n : challenges[i] \in Challenge
  BY <1>1, VerTypes DEF VerInv, ReplaceCodes
<1> DEFINE old == [i \in DOMAIN challenges |-> IF IsPending(i) THEN [challenges[i] EXCEPT !.status = "EXPIRED"]
                                               ELSE challenges[i]]
<1>3. challenges' = Append(old, Sent) /\ asking' = asking \ {c} /\ UNCHANGED <<guessing, quota, tries>>
  BY DEF ReplaceCodes
<1>4. \A i \in 1 .. n : /\ old[i] \in Challenge /\ old[i].status # "PENDING"
                        /\ old[i].failed = challenges[i].failed /\ old[i].compared = challenges[i].compared
                        /\ old[i].opened = challenges[i].opened
                        /\ old[i].status = challenges[i].status \/ (IsPending(i) /\ old[i].status = "EXPIRED")
  BY <1>2 DEF Challenge, IsPending
<1>5. old \in Seq(Challenge) /\ Len(old) = n
  BY <1>1, <1>2, <1>4
<1> HIDE DEF old
<1>6. Sent \in Challenge /\ Sent.failed = 0 /\ Sent.compared = 0 /\ Sent.opened = 0 /\ Sent.status = "PENDING"
  BY VerConstants DEF Sent, Challenge
<1>7. /\ challenges' \in Seq(Challenge) /\ Len(challenges') = n + 1 /\ DOMAIN challenges' = 1 .. n + 1
      /\ challenges'[n + 1] = Sent /\ \A i \in 1 .. n : challenges'[i] = old[i]
  BY <1>3, <1>5, <1>6
<1>8. Comparing' = Comparing /\ Paid' = Paid /\ \A j : Holding(j)' = Holding(j)
  BY <1>3 DEF Comparing, Holding, Paid
<1>9. \A i \in 1 .. n + 1 : SoundCode(challenges'[i], Cardinality(Holding(i)'))
  <2>1. ASSUME NEW i \in 1 .. n PROVE SoundCode(challenges'[i], Cardinality(Holding(i)'))
    <3>1. SoundCode(challenges[i], Cardinality(Holding(i)))
      BY <1>2 DEF VerInv
    <3> QED
      BY <1>4, <1>7, <1>8, <3>1 DEF SoundCode, IsPending
  <2>2. SoundCode(Sent, Cardinality(Holding(n + 1)'))
    <3>1. Cardinality(Holding(n + 1)') \in Nat /\ Cardinality(Holding(n + 1)') <= Cardinality(Guessers)
      BY <1>8, HoldersCounted
    <3> QED
      BY <1>6, <3>1, VerConstants DEF SoundCode
  <2>3. \A i \in 1 .. n + 1 : i \in 1 .. n \/ i = n + 1
    OBVIOUS
  <2> QED
    BY <1>7, <2>1, <2>2, <2>3
<1>10. \A i \in 1 .. n + 1 : /\ challenges'[i].status = "PENDING" => i = n + 1
                             /\ challenges'[i].failed = MaxAttempts <=> challenges'[i].status = "LOCKED"
  BY <1>4, <1>7, <1>9 DEF SoundCode
<1>11. VerTypeOK'
  BY <1>2, <1>3, <1>7, <1>10, VerConstants DEF VerInv, VerTypeOK
<1>12. \A g \in Guessers : guessing'[g] # NotGuessing => guessing'[g].of \in DOMAIN challenges'
  BY <1>2, <1>3, <1>7 DEF VerInv
<1> QED
  BY <1>3, <1>7, <1>8, <1>9, <1>10, <1>11, <1>12 DEF VerInv, OneLiveCode, IsPending

LEMMA VerFinds ==
  ASSUME VerInv, NEW g \in Guessers, NEW i \in DOMAIN challenges, FindChallenge(g, i)
  PROVE  VerInv'
<1> DEFINE q == [pc |-> "quota", of |-> i]
<1>1. q \in Guess /\ q # NotGuessing /\ q.of = i /\ q.pc # "compare"
  <2>1. i \in 1 .. MaxChallenges
    BY VerTypes, VerConstants DEF VerInv, VerTypeOK
  <2> QED
    BY <2>1 DEF Guess, NotGuessing
<1>2. guessing' = [guessing EXCEPT ![g] = q] /\ IsPending(i) /\ UNCHANGED <<challenges, asking, quota, tries>>
  BY DEF FindChallenge
<1> HIDE DEF q
<1>3. /\ guessing' \in [Guessers -> Guess] /\ guessing'[g] = q
      /\ \A h \in Guessers \ {g} : guessing'[h] = guessing[h]
      /\ \A j : j # i => Cardinality(Holding(j)') <= Cardinality(Holding(j))
      /\ Cardinality(Comparing') <= Cardinality(Comparing)
  BY <1>1, <1>2, GuessMoves DEF VerInv
<1>4. VerTypeOK'
  BY <1>2, <1>3 DEF VerInv, VerTypeOK, Guess
<1>5. ASSUME NEW j \in DOMAIN challenges' PROVE SoundCode(challenges'[j], Cardinality(Holding(j)'))
  <2>1. challenges[j] \in Challenge /\ SoundCode(challenges[j], Cardinality(Holding(j))) /\ challenges'[j] = challenges[j]
    BY <1>2, <1>5, VerTypes DEF VerInv
  <2>2. Cardinality(Holding(j)) \in Nat /\ Cardinality(Holding(j)') \in Nat /\ Cardinality(Holding(j)') <= Cardinality(Guessers)
    BY HoldersCounted, HoldersCountedNext
  <2>3. CASE j # i
    BY <1>3, <2>1, <2>2, <2>3, ChallengeFields, VerConstants DEF SoundCode
  <2>4. CASE j = i
    <3>1. challenges[j].compared + Cardinality(Holding(j)') <= MaxAttempts + Cardinality(Guessers) - 1
      BY <1>2, <2>1, <2>2, <2>4, ChallengeFields, VerConstants DEF SoundCode, IsPending
    <3> QED
      BY <2>1, <3>1 DEF SoundCode
  <2> QED
    BY <2>3, <2>4
<1>6. tries' + Cardinality(Comparing') <= Paid' + Cardinality(Guessers)
  <2>1. Paid' = Paid /\ Paid \in Nat /\ tries' = tries /\ tries \in Nat
    BY <1>2, VerTypes, VerConstants DEF Paid, VerInv
  <2> QED
    BY <1>3, <2>1, HoldersCounted, HoldersCountedNext, VerConstants DEF VerInv
<1>7. \A h \in Guessers : guessing'[h] # NotGuessing => guessing'[h].of \in DOMAIN challenges'
  BY <1>1, <1>2, <1>3 DEF VerInv
<1> QED
  BY <1>2, <1>4, <1>5, <1>6, <1>7 DEF VerInv, OneLiveCode, IsPending

LEMMA VerPays ==
  ASSUME VerInv, NEW g \in Guessers, PayAttempt(g)
  PROVE  VerInv'
<1> DEFINE q == IF quota'.attempts > AttemptLimit THEN NotGuessing ELSE [guessing[g] EXCEPT !.pc = "compare"]
<1>1. guessing \in [Guessers -> Guess] /\ guessing[g] \in Guess /\ guessing[g] # NotGuessing
  BY VerTypes, GuessFields DEF VerInv, PayAttempt
<1>2. /\ guessing' = [guessing EXCEPT ![g] = q] /\ quota' = [quota EXCEPT !.attempts = Counted(quota.attempts, AttemptLimit)]
      /\ UNCHANGED <<challenges, asking, tries>>
  BY DEF PayAttempt
<1>3. /\ q \in Guess /\ (q # NotGuessing => q.of = guessing[g].of)
      /\ quota'.attempts > AttemptLimit => q = NotGuessing /\ q.pc # "compare"
  <2>1. NotGuessing \in Guess /\ NotGuessing.pc # "compare"
    BY DEF Guess, NotGuessing
  <2>2. [guessing[g] EXCEPT !.pc = "compare"].of = guessing[g].of
    BY <1>1 DEF Guess
  <2> QED
    BY <1>1, <2>1, <2>2, GuessFields
<1> HIDE DEF q
<1>4. /\ quota' \in [requests: 0 .. RequestLimit + 1, attempts: 0 .. AttemptLimit + 1]
      /\ quota'.attempts = Counted(quota.attempts, AttemptLimit) /\ quota.attempts \in 0 .. AttemptLimit + 1
  <2>1. quota.attempts \in 0 .. AttemptLimit + 1 /\ Counted(quota.attempts, AttemptLimit) \in 0 .. AttemptLimit + 1
    BY VerTypes, VerConstants DEF VerInv, Counted
  <2> QED
    BY <1>2, <2>1 DEF VerInv, VerTypeOK
<1>5. /\ guessing' \in [Guessers -> Guess] /\ guessing'[g] = q
      /\ \A h \in Guessers \ {g} : guessing'[h] = guessing[h]
      /\ \A j : Cardinality(Holding(j)') <= Cardinality(Holding(j))
      /\ Cardinality(Comparing') <= Cardinality(Comparing) + 1
      /\ q.pc # "compare" => Cardinality(Comparing') <= Cardinality(Comparing)
  BY <1>1, <1>2, <1>3, GuessMoves DEF VerInv
<1>6. VerTypeOK'
  BY <1>2, <1>4, <1>5 DEF VerInv, VerTypeOK, Guess
<1>7. ASSUME NEW j \in DOMAIN challenges' PROVE SoundCode(challenges'[j], Cardinality(Holding(j)'))
  <2>1. challenges[j] \in Challenge /\ SoundCode(challenges[j], Cardinality(Holding(j))) /\ challenges'[j] = challenges[j]
    BY <1>2, <1>7, VerTypes DEF VerInv
  <2> QED
    BY <1>5, <2>1, HoldersCounted, HoldersCountedNext, ChallengeFields, VerConstants DEF SoundCode
<1>8. tries' + Cardinality(Comparing') <= Paid' + Cardinality(Guessers)
  <2>1. Paid \in Nat /\ Paid' \in Nat /\ tries' = tries /\ tries \in Nat
    BY <1>2, <1>4, VerTypes, VerConstants DEF Paid, VerInv, Counted
  <2>2. tries + Cardinality(Comparing) <= Paid + Cardinality(Guessers)
    BY DEF VerInv
  <2>3. CASE quota'.attempts > AttemptLimit
    <3>1. Paid <= Paid'
      BY <1>4, <2>3, VerConstants DEF Paid, Counted
    <3> QED
      BY <1>3, <1>5, <2>1, <2>2, <2>3, <3>1, HoldersCounted, HoldersCountedNext, VerConstants
  <2>4. CASE ~(quota'.attempts > AttemptLimit)
    <3>1. Paid' = Paid + 1
      BY <1>4, <2>4, VerConstants DEF Paid, Counted
    <3> QED
      BY <1>5, <2>1, <2>2, <3>1, HoldersCounted, HoldersCountedNext, VerConstants
  <2> QED
    BY <2>3, <2>4
<1>9. \A h \in Guessers : guessing'[h] # NotGuessing => guessing'[h].of \in DOMAIN challenges'
  BY <1>1, <1>2, <1>3, <1>5 DEF VerInv
<1> QED
  BY <1>2, <1>6, <1>7, <1>8, <1>9 DEF VerInv, OneLiveCode, IsPending

(* A call ends with the row it leaves: what it compared it has added.        *)
LEMMA VerEnds ==
  ASSUME VerInv, NEW g \in Guessers, guessing[g].pc = "compare", NEW i, i = guessing[g].of,
         i \in DOMAIN challenges, guessing' = [guessing EXCEPT ![g] = NotGuessing],
         NEW row \in Challenge, challenges' = [challenges EXCEPT ![i] = row],
         row.failed = MaxAttempts <=> row.status = "LOCKED",
         row.opened = 1 <=> row.status = "VERIFIED",
         row.status = "PENDING" => IsPending(i) /\ row.compared = row.failed,
         UNCHANGED <<asking, quota>>, tries' \in {tries, tries + 1},
         row.compared \in {challenges[i].compared, challenges[i].compared + 1}
  PROVE  VerInv'
<1>1. guessing[g] \in Guess /\ guessing[g] # NotGuessing /\ NotGuessing \in Guess /\ NotGuessing.pc # "compare"
  BY VerTypes, GuessFields DEF VerInv, Guess, NotGuessing
<1>2. /\ guessing' \in [Guessers -> Guess] /\ guessing'[g] = NotGuessing
      /\ \A h \in Guessers \ {g} : guessing'[h] = guessing[h]
      /\ \A j : Cardinality(Holding(j)') <= Cardinality(Holding(j))
      /\ Cardinality(Holding(i)') + 1 <= Cardinality(Holding(i))
      /\ Cardinality(Comparing') + 1 <= Cardinality(Comparing)
  BY <1>1, GuessMoves DEF VerInv
<1>3. /\ challenges' \in Seq(Challenge) /\ Len(challenges') = Len(challenges) /\ Len(challenges') <= MaxChallenges
      /\ DOMAIN challenges' = DOMAIN challenges /\ challenges'[i] = row
      /\ \A j \in DOMAIN challenges \ {i} : challenges'[j] = challenges[j]
      /\ \A j \in DOMAIN challenges' : challenges'[j].failed = MaxAttempts <=> challenges'[j].status = "LOCKED"
      /\ OneLiveCode'
  BY CodeChanges
<1>4. VerTypeOK'
  BY <1>2, <1>3 DEF VerInv, VerTypeOK, Guess
<1>5. ASSUME NEW j \in DOMAIN challenges' PROVE SoundCode(challenges'[j], Cardinality(Holding(j)'))
  <2>1. challenges[j] \in Challenge /\ SoundCode(challenges[j], Cardinality(Holding(j)))
    BY <1>3, <1>5, VerTypes DEF VerInv
  <2>2. CASE j # i
    <3>1. /\ challenges[j].compared \in Nat /\ Cardinality(Holding(j)) \in Nat /\ Cardinality(Holding(j)') \in Nat
          /\ Cardinality(Holding(j)') <= Cardinality(Holding(j))
      BY <1>2, <2>1, HoldersCounted, HoldersCountedNext, ChallengeFields
    <3>2. challenges[j].compared + Cardinality(Holding(j)') <= MaxAttempts + Cardinality(Guessers) - 1
      BY <2>1, <3>1, VerConstants DEF SoundCode
    <3>3. challenges'[j] = challenges[j]
      BY <1>3, <1>5, <2>2
    <3> QED
      BY <2>1, <3>2, <3>3 DEF SoundCode
  <2>3. CASE j = i
    <3>1. challenges[i].compared \in Nat /\ Cardinality(Holding(i)) \in Nat /\ Cardinality(Holding(i)') \in Nat
      BY <2>1, <2>3, ChallengeFields, HoldersCounted, HoldersCountedNext
    <3>2. row.compared + Cardinality(Holding(i)') <= MaxAttempts + Cardinality(Guessers) - 1
      BY <1>2, <2>1, <2>3, <3>1, VerConstants DEF SoundCode
    <3> QED
      BY <1>3, <2>3, <3>2 DEF SoundCode
  <2> QED
    BY <2>2, <2>3
<1>6. tries' + Cardinality(Comparing') <= Paid' + Cardinality(Guessers)
  <2>1. Paid' = Paid /\ Paid \in Nat /\ tries \in Nat
    BY VerTypes, VerConstants DEF Paid, VerInv
  <2> QED
    BY <1>2, <2>1, HoldersCounted, HoldersCountedNext, VerConstants DEF VerInv
<1>7. \A h \in Guessers : guessing'[h] # NotGuessing => guessing'[h].of \in DOMAIN challenges'
  BY <1>2, <1>3 DEF VerInv
<1> QED
  BY <1>3, <1>4, <1>5, <1>6, <1>7 DEF VerInv

LEMMA VerCompares ==
  ASSUME VerInv, NEW g \in Guessers, CompareTooLate(g) \/ \E right \in BOOLEAN : Compare(g, right)
  PROVE  VerInv'
<1>1. PICK i : i = guessing[g].of
  OBVIOUS
<1>2. guessing[g].pc = "compare" /\ guessing' = [guessing EXCEPT ![g] = NotGuessing] /\ UNCHANGED <<asking, quota>>
  BY DEF CompareTooLate, Compare
<1>3. i \in DOMAIN challenges /\ challenges[i] \in Challenge /\ SoundCode(challenges[i], Cardinality(Holding(i)))
  <2>1. guessing[g] # NotGuessing
    BY <1>2, VerTypes, GuessFields DEF VerInv
  <2> QED
    BY <1>1, <2>1, VerTypes DEF VerInv
<1>4. challenges[i].failed \in 0 .. MaxAttempts /\ challenges[i].compared \in Nat /\ challenges[i].opened \in 0 .. 1
  BY <1>3, ChallengeFields
<1>5. CASE CompareTooLate(g)
  <2> DEFINE row == [challenges[i] EXCEPT !.status = IF IsPending(i) THEN "EXPIRED" ELSE @]
  <2>1. /\ row \in Challenge /\ row.failed = challenges[i].failed /\ row.opened = challenges[i].opened
        /\ row.compared = challenges[i].compared /\ row.status # "PENDING"
        /\ row.status = challenges[i].status \/ (IsPending(i) /\ row.status = "EXPIRED")
    BY <1>3 DEF Challenge, IsPending
  <2>2. challenges' = [challenges EXCEPT ![i] = row] /\ tries' = tries
    BY <1>1, <1>5 DEF CompareTooLate
  <2> HIDE DEF row
  <2>3. (row.failed = MaxAttempts <=> row.status = "LOCKED") /\ (row.opened = 1 <=> row.status = "VERIFIED")
    BY <1>3, <2>1 DEF SoundCode, IsPending
  <2> QED
    BY <1>1, <1>2, <1>3, <2>1, <2>2, <2>3, VerEnds
<1>6. CASE Compare(g, TRUE)
  <2> DEFINE row == IF IsPending(i) /\ challenges[i].failed < MaxAttempts
                    THEN [challenges[i] EXCEPT !.compared = @ + 1, !.status = "VERIFIED", !.opened = @ + 1]
                    ELSE [challenges[i] EXCEPT !.compared = @ + 1]
  <2>1. challenges' = [challenges EXCEPT ![i] = row] /\ tries' = tries + 1
    BY <1>1, <1>3, <1>6 DEF Compare, Consume
  <2>2. IsPending(i) => challenges[i].failed < MaxAttempts /\ challenges[i].opened = 0
    BY <1>3, <1>4, VerConstants DEF SoundCode, IsPending
  <2>3. /\ row \in Challenge /\ row.failed = challenges[i].failed /\ row.compared = challenges[i].compared + 1
        /\ row.status # "PENDING"
        /\ row.opened = (IF IsPending(i) THEN 1 ELSE challenges[i].opened)
        /\ row.status = (IF IsPending(i) THEN "VERIFIED" ELSE challenges[i].status)
    <3>1. CASE IsPending(i)
      <4>1. challenges[i].compared + 1 \in Nat /\ challenges[i].opened + 1 \in 0 .. 1 /\ challenges[i].opened + 1 = 1
        BY <1>4, <2>2, <3>1
      <4> DEFINE opened == challenges[i].opened + 1
                 compared == challenges[i].compared + 1
      <4>2. row = [challenges[i] EXCEPT !.compared = compared, !.status = "VERIFIED", !.opened = opened]
        BY <2>2, <3>1
      <4>3. compared \in Nat /\ opened \in 0 .. 1
        BY <4>1
      <4> HIDE DEF row, compared, opened
      <4>4. row \in Challenge
        BY <1>3, <4>3, <4>2 DEF Challenge
      <4> QED
        BY <1>3, <3>1, <4>1, <4>2, <4>4 DEF Challenge, IsPending, opened, compared
    <3>2. CASE ~IsPending(i)
      <4>1. row = [challenges[i] EXCEPT !.compared = @ + 1]
        BY <3>2
      <4> HIDE DEF row
      <4> QED
        BY <1>3, <1>4, <3>2, <4>1 DEF Challenge, IsPending
    <3> QED
      BY <3>1, <3>2
  <2> HIDE DEF row
  <2>4. (row.failed = MaxAttempts <=> row.status = "LOCKED") /\ (row.opened = 1 <=> row.status = "VERIFIED")
    BY <1>3, <2>3 DEF SoundCode, IsPending
  <2> QED
    BY <1>1, <1>2, <1>3, <2>1, <2>3, <2>4, VerEnds
<1>7. CASE Compare(g, FALSE)
  <2> DEFINE row == [challenges[i] EXCEPT
                       !.compared = @ + 1, !.failed = IF IsPending(i) THEN @ + 1 ELSE @,
                       !.status = IF IsPending(i) /\ challenges[i].failed + 1 >= MaxAttempts THEN "LOCKED" ELSE @]
  <2>1. challenges' = [challenges EXCEPT ![i] = row] /\ tries' = tries + 1
    BY <1>1, <1>3, <1>7 DEF Compare, RecordFailure
  <2>2. IsPending(i) => /\ challenges[i].failed + 1 \in 1 .. MaxAttempts /\ challenges[i].opened = 0
                        /\ challenges[i].compared = challenges[i].failed
    BY <1>3, <1>4, VerConstants DEF SoundCode, IsPending
  <2>3. /\ row \in Challenge /\ row.compared = challenges[i].compared + 1 /\ row.opened = challenges[i].opened
        /\ row.failed = (IF IsPending(i) THEN challenges[i].failed + 1 ELSE challenges[i].failed)
        /\ row.status = (IF IsPending(i) /\ challenges[i].failed + 1 >= MaxAttempts THEN "LOCKED"
                         ELSE challenges[i].status)
    <3> DEFINE failed == IF IsPending(i) THEN challenges[i].failed + 1 ELSE challenges[i].failed
               status == IF IsPending(i) /\ challenges[i].failed + 1 >= MaxAttempts THEN "LOCKED"
                         ELSE challenges[i].status
               compared == challenges[i].compared + 1
    <3>1. row = [challenges[i] EXCEPT !.compared = compared, !.failed = failed, !.status = status]
      OBVIOUS
    <3>2. failed \in 0 .. MaxAttempts /\ status \in {"PENDING", "VERIFIED", "EXPIRED", "LOCKED"} /\ compared \in Nat
      BY <1>3, <1>4, <2>2, ChallengeFields
    <3> HIDE DEF row, failed, status, compared
    <3>3. row \in Challenge
      BY <1>3, <3>1, <3>2 DEF Challenge
    <3>4. row.compared = compared /\ row.failed = failed /\ row.status = status /\ row.opened = challenges[i].opened
      BY <1>3, <3>1 DEF Challenge
    <3> QED
      BY <3>3, <3>4 DEF failed, status, compared
  <2> HIDE DEF row
  <2>4. /\ row.failed = MaxAttempts <=> row.status = "LOCKED"
        /\ row.opened = 1 <=> row.status = "VERIFIED"
        /\ row.status = "PENDING" => IsPending(i) /\ row.compared = row.failed
    BY <1>3, <1>4, <2>2, <2>3, VerConstants DEF SoundCode, IsPending
  <2> QED
    BY <1>1, <1>2, <1>3, <2>1, <2>3, <2>4, VerEnds
<1> QED
  BY <1>5, <1>6, <1>7

LEMMA VerStepHolds == VerInv /\ [VerNext]_verVars => VerInv'
<1>1. VerInv /\ UNCHANGED verVars => VerInv'
  BY DEF verVars, VerInv, VerTypeOK, OneLiveCode, IsPending, Holding, Comparing, Paid
<1> QED
  BY <1>1, VerAsks, VerAges, VerReplaces, VerFinds, VerPays, VerCompares DEF VerNext

LEMMA VerHolds ==
  VerInv => VerTypeOK /\ OneLiveCode /\ ComparedBounded /\ TriesPerHour /\ CodeOpensOneSession
<1> SUFFICES ASSUME VerInv PROVE ComparedBounded /\ TriesPerHour /\ CodeOpensOneSession
  BY DEF VerInv
<1>1. \A i \in DOMAIN challenges : challenges[i].compared \in Nat /\ SoundCode(challenges[i], Cardinality(Holding(i)))
  BY VerTypes, ChallengeFields DEF VerInv
<1>2. ComparedBounded
  BY <1>1, HoldersCounted, VerConstants DEF ComparedBounded, SoundCode
<1>3. TriesPerHour
  <2>1. Paid <= AttemptLimit /\ Paid \in Nat /\ tries \in Nat
    BY VerTypes, VerConstants DEF Paid, VerInv
  <2> QED
    BY <2>1, HoldersCounted, VerConstants DEF TriesPerHour, VerInv
<1>4. CodeOpensOneSession
  BY <1>1 DEF CodeOpensOneSession, SoundCode
<1> QED
  BY <1>2, <1>3, <1>4
-----------------------------------------------------------------------------
(* The assertion of a partner site.                                          *)

Presented == {NotPresenting}
   \cup [pc: {"verified", "find"}, of: Assertions] \cup [pc: {"create"}, of: Assertions]

(* An assertion was accepted before its expiry only if its nonce is kept up  *)
(* to that expiry.                                                           *)
SiteInv ==
  /\ SiteTypeOK
  /\ \A i \in Assertions : accepted[i] <= 1 /\ (accepted[i] = 1 => nonces[i] >= Expiry[i])

LEMMA SiteInitHolds == SiteInit => SiteInv
BY AssertionAssumption DEF SiteInit, SiteInv, SiteTypeOK, Clock, Tolerance, NotPresenting, Assertions

LEMMA PresentedFields ==
  ASSUME NEW q \in Presented
  PROVE  q.pc \in {"verified", "find", "create"} => q.of \in Assertions
BY DEF Presented, NotPresenting

(* An exchange moves on; the nonces and what was accepted stay.              *)
LEMMA SiteMoves ==
  ASSUME SiteInv, NEW p \in Presenters, NEW q \in Presented, Present(p, q),
         q.pc \in {"find", "create"} => nonces[q.of] # 0,
         UNCHANGED <<time, enabled, nonces, accepted>>, identities' \in 0 .. 1
  PROVE  SiteInv'
<1>1. presenting \in [Presenters -> Presented]
  BY DEF SiteInv, SiteTypeOK, Presented
<1>2. presenting' \in [Presenters -> Presented] /\ presenting'[p] = q /\ \A r \in Presenters \ {p} : presenting'[r] = presenting[r]
  BY <1>1 DEF Present
<1>3. SiteTypeOK'
  BY <1>2 DEF SiteInv, SiteTypeOK, Presented
<1> QED
  BY <1>3 DEF SiteInv

LEMMA SiteTakes ==
  ASSUME SiteInv, NEW p \in Presenters, TakeNonce(p)
  PROVE  SiteInv'
<1>1. presenting \in [Presenters -> Presented]
  BY DEF SiteInv, SiteTypeOK, Presented
<1>2. PICK i \in Assertions : presenting[p].of = i /\ presenting[p] \in Presented
  BY <1>1, PresentedFields DEF TakeNonce
<1>3. NotPresenting \in Presented /\ NotPresenting.pc = "idle"
  BY DEF Presented, NotPresenting
<1>4. CASE time < nonces[i]
  BY <1>2, <1>3, <1>4, SiteMoves DEF TakeNonce, SiteInv, SiteTypeOK
<1>5. CASE ~(time < nonces[i])
  <2> DEFINE q == [presenting[p] EXCEPT !.pc = "find"]
  <2>1. q \in Presented /\ q.pc = "find" /\ q.of = i
    BY <1>2 DEF Presented, TakeNonce, NotPresenting
  <2>2. /\ presenting' = [presenting EXCEPT ![p] = q] /\ nonces' = [nonces EXCEPT ![i] = Remembered(i)]
        /\ accepted' = [accepted EXCEPT ![i] = IF time < Expiry[i] THEN @ + 1 ELSE @]
        /\ UNCHANGED <<time, enabled, identities>>
    BY <1>2, <1>5 DEF TakeNonce, Present
  <2> HIDE DEF q
  <2>3. /\ presenting' \in [Presenters -> Presented] /\ presenting'[p] = q
        /\ \A r \in Presenters \ {p} : presenting'[r] = presenting[r]
    BY <1>1, <2>1, <2>2
  <2>4. /\ time \in 0 .. LastExp + 1 /\ nonces \in [Assertions -> 0 .. LastExp + 2] /\ accepted \in [Assertions -> Nat]
        /\ LastExp \in Nat \ {0}
    BY AssertionAssumption DEF SiteInv, SiteTypeOK, Clock, Tolerance
  <2>5. Expiry[i] \in 0 .. LastExp
    BY <2>4 DEF Expiry, Assertions
  <2>6. Remembered(i) \in 1 .. LastExp + 2 /\ Remembered(i) >= Expiry[i]
    BY <2>4, <2>5 DEF Remembered
  <2>7. accepted[i] = 1 => ~(time < Expiry[i])
    BY <1>5, <2>4, <2>5 DEF SiteInv
  <2>8. /\ nonces' \in [Assertions -> 0 .. LastExp + 2] /\ nonces'[i] = Remembered(i)
        /\ \A j \in Assertions \ {i} : nonces'[j] = nonces[j]
    BY <2>2, <2>4, <2>6
  <2>9. /\ accepted' \in [Assertions -> Nat] /\ accepted'[i] <= 1
        /\ \A j \in Assertions \ {i} : accepted'[j] = accepted[j]
    BY <2>2, <2>4, <2>7 DEF SiteInv
  <2>10. \A j \in Assertions : accepted'[j] <= 1 /\ (accepted'[j] = 1 => nonces'[j] >= Expiry[j])
    BY <2>6, <2>8, <2>9 DEF SiteInv
  <2>11. \A r \in Presenters : presenting'[r].pc \in {"find", "create"} => nonces'[presenting'[r].of] # 0
    <3>1. ASSUME NEW r \in Presenters \ {p}, presenting'[r].pc \in {"find", "create"}
          PROVE  nonces'[presenting'[r].of] # 0
      <4>1. presenting'[r] = presenting[r] /\ presenting[r].of \in Assertions /\ nonces[presenting[r].of] # 0
        BY <1>1, <2>3, <3>1, PresentedFields DEF SiteInv, SiteTypeOK
      <4> QED
        BY <2>4, <2>6, <2>8, <4>1
    <3> QED
      BY <2>1, <2>3, <2>4, <2>6, <2>8, <3>1
  <2>12. LastExp + Tolerance + 1 = LastExp + 2
    BY <2>4 DEF Tolerance
  <2>13. SiteTypeOK'
    BY <2>2, <2>3, <2>8, <2>9, <2>11, <2>12 DEF SiteInv, SiteTypeOK, Presented
  <2> QED
    BY <2>10, <2>13 DEF SiteInv
<1> QED
  BY <1>4, <1>5

LEMMA SiteStepHolds == SiteInv /\ [SiteNext]_siteVars => SiteInv'
<1> SUFFICES ASSUME SiteInv, [SiteNext]_siteVars PROVE SiteInv'
  OBVIOUS
<1>1. presenting \in [Presenters -> Presented] /\ NotPresenting \in Presented /\ NotPresenting.pc = "idle"
  BY DEF SiteInv, SiteTypeOK, Presented, NotPresenting
<1>2. ASSUME NEW p \in Presenters, NEW i \in Assertions, Verify(p, i) PROVE SiteInv'
  <2> DEFINE q == [pc |-> "verified", of |-> i]
  <2>1. q \in Presented /\ q.pc = "verified"
    BY DEF Presented
  <2>2. Present(p, q) /\ UNCHANGED <<time, enabled, nonces, accepted, identities>>
    BY <1>2 DEF Verify
  <2> HIDE DEF q
  <2> QED
    BY <2>1, <2>2, SiteMoves DEF SiteInv, SiteTypeOK
<1>3. ASSUME NEW p \in Presenters, FindIdentity(p) PROVE SiteInv'
  <2> DEFINE q == IF identities > 0 THEN NotPresenting ELSE [presenting[p] EXCEPT !.pc = "create"]
  <2>1. nonces[presenting[p].of] # 0 /\ presenting[p] \in Presented /\ presenting[p].pc = "find"
    BY <1>1, <1>3 DEF FindIdentity, SiteInv, SiteTypeOK
  <2>2. q \in Presented /\ (q.pc \in {"find", "create"} => nonces[q.of] # 0)
    BY <1>1, <2>1 DEF Presented, NotPresenting
  <2>3. Present(p, q) /\ UNCHANGED <<time, enabled, nonces, accepted, identities>>
    BY <1>3 DEF FindIdentity
  <2> HIDE DEF q
  <2> QED
    BY <2>2, <2>3, SiteMoves DEF SiteInv, SiteTypeOK
<1>4. ASSUME NEW p \in Presenters, CreateIdentity(p) PROVE SiteInv'
  BY <1>1, <1>4, SiteMoves DEF CreateIdentity, SiteInv, SiteTypeOK
<1>5. CASE SiteTick
  BY <1>5, AssertionAssumption DEF SiteTick, SiteInv, SiteTypeOK, Clock, Tolerance
<1>6. CASE Suspend
  BY <1>6 DEF Suspend, SiteInv, SiteTypeOK
<1>7. CASE UNCHANGED siteVars
  BY <1>7 DEF siteVars, SiteInv, SiteTypeOK
<1> QED
  BY <1>2, <1>3, <1>4, <1>5, <1>6, <1>7, SiteTakes DEF SiteNext

LEMMA SiteHolds == SiteInv => SiteTypeOK /\ AssertionAcceptedOnce
BY DEF SiteInv, AssertionAcceptedOnce
-----------------------------------------------------------------------------
(* The trusted devices of a requester.                                       *)

Device == [version: 1 .. 2, expires: Times, revoked: BOOLEAN, chain: DeviceIds]
Grant == [device: DeviceIds, used: BOOLEAN, expires: Times]
Doing == {NotCalled}
   \cup [op: {"rotate", "revoke", "grant"}, device: DeviceIds]
   \cup [op: {"swap"}, device: DeviceIds, expires: Times, version: 1 .. 2]
   \cup [op: {"issue"}, version: 1 .. 2]
OnDevice(q) == q.op \in {"rotate", "revoke", "grant", "swap"}

(* What a call or a transfer code names is a row that exists; the lines that *)
(* ended are lines of rows that exist, so that a new row begins a line of its*)
(* own that has not ended.                                                   *)
DevInv ==
  /\ DevTypeOK /\ RevocationEndsLine /\ OneLivePerLine
  /\ ended \subseteq DOMAIN devices
  /\ \A c \in Clients : OnDevice(clients[c]) => clients[c].device \in DOMAIN devices
  /\ \A c \in Clients : clients[c].op = "swap" => clients[c].expires <= now + Days
  /\ \A g \in DOMAIN grants : grants[g].device \in DOMAIN devices

LEMMA DevConstants ==
  /\ MaxDevices \in Nat /\ MaxGrants \in Nat /\ Days \in Nat \ {0} /\ Window \in Nat /\ Horizon \in Nat
BY DevicesAssumption

LEMMA DevTypes == DevTypeOK =>
  /\ devices \in Seq(Device) /\ Len(devices) \in Nat /\ Len(devices) <= MaxDevices
  /\ DOMAIN devices = 1 .. Len(devices) /\ \A d \in DOMAIN devices : devices[d] \in Device
  /\ grants \in Seq(Grant) /\ clients \in [Clients -> Doing]
  /\ now \in 0 .. Horizon /\ policy.version \in 1 .. 2 /\ policy.active \in BOOLEAN
<1> SUFFICES ASSUME DevTypeOK
             PROVE  /\ devices \in Seq(Device) /\ Len(devices) \in Nat /\ Len(devices) <= MaxDevices
                    /\ DOMAIN devices = 1 .. Len(devices) /\ \A d \in DOMAIN devices : devices[d] \in Device
                    /\ grants \in Seq(Grant) /\ clients \in [Clients -> Doing]
                    /\ now \in 0 .. Horizon /\ policy.version \in 1 .. 2 /\ policy.active \in BOOLEAN
  OBVIOUS
<1>1. /\ devices \in Seq(Device) /\ Len(devices) <= MaxDevices /\ grants \in Seq(Grant) /\ clients \in [Clients -> Doing]
      /\ now \in 0 .. Horizon /\ policy \in [active: BOOLEAN, version: 1 .. 2]
  BY DEF DevTypeOK, Device, Grant, Doing
<1> QED
  BY <1>1

LEMMA DeviceFields ==
  ASSUME NEW row \in Device
  PROVE  row.version \in 1 .. 2 /\ row.expires \in Times /\ row.revoked \in BOOLEAN /\ row.chain \in DeviceIds
BY DEF Device

LEMMA DoingFields ==
  ASSUME NEW q \in Doing
  PROVE  /\ OnDevice(q) => q.device \in DeviceIds
         /\ q.op = "swap" => q.expires \in Times /\ q.version \in 1 .. 2
         /\ q.op = "issue" => q.version \in 1 .. 2
BY DEF Doing, NotCalled, OnDevice

LEMMA DevInitHolds == DevInit => DevInv
<1> SUFFICES ASSUME DevInit PROVE DevInv
  OBVIOUS
<1>1. DevTypeOK
  BY DevConstants DEF DevInit, DevTypeOK
<1> QED
  BY <1>1 DEF DevInit, DevInv, RevocationEndsLine, OneLivePerLine, NotCalled, OnDevice

(* A call moves on, and no device changes.                                   *)
LEMMA DevMoves ==
  ASSUME DevInv, NEW c \in Clients, NEW q \in Doing, Do(c, q), UNCHANGED <<now, policy, devices, ended>>,
         OnDevice(q) => q.device \in DOMAIN devices, q.op = "swap" => q.expires <= now + Days,
         grants' \in Seq(Grant), Len(grants') <= MaxGrants,
         \A g \in DOMAIN grants' : grants'[g].device \in DOMAIN devices
  PROVE  DevInv'
<1>1. clients' \in [Clients -> Doing] /\ clients'[c] = q /\ \A r \in Clients \ {c} : clients'[r] = clients[r]
  BY DevTypes DEF Do, DevInv
<1>2. DevTypeOK'
  BY <1>1 DEF DevInv, DevTypeOK, Doing, Grant
<1>3. /\ \A r \in Clients : OnDevice(clients'[r]) => clients'[r].device \in DOMAIN devices
      /\ \A r \in Clients : clients'[r].op = "swap" => clients'[r].expires <= now + Days
  BY <1>1 DEF DevInv
<1> QED
  BY <1>2, <1>3 DEF DevInv, RevocationEndsLine, OneLivePerLine, OnDevice

(* A call ends, and the devices and the lines that ended have changed.       *)
LEMMA DevChanges ==
  ASSUME DevInv, NEW c \in Clients, Do(c, NotCalled), UNCHANGED <<now, policy, grants>>,
         devices' \in Seq(Device), Len(devices) <= Len(devices'), Len(devices') <= MaxDevices,
         \A d \in DOMAIN devices' : devices'[d].chain <= d /\ devices'[d].expires <= now + Days,
         ended' \subseteq DOMAIN devices', RevocationEndsLine', OneLivePerLine'
  PROVE  DevInv'
<1>1. DOMAIN devices \subseteq DOMAIN devices' /\ DOMAIN devices' \subseteq DeviceIds
  BY DevTypes, DevConstants DEF DevInv, DeviceIds
<1>2. NotCalled \in Doing /\ NotCalled.op = "none"
  BY DEF Doing, NotCalled
<1>3. /\ clients' \in [Clients -> Doing] /\ clients'[c] = NotCalled
      /\ \A r \in Clients \ {c} : clients'[r] = clients[r]
  BY <1>2, DevTypes DEF Do, DevInv
<1>4. DevTypeOK'
  BY <1>1, <1>3 DEF DevInv, DevTypeOK, Doing, Device
<1>5. /\ \A r \in Clients : OnDevice(clients'[r]) => clients'[r].device \in DOMAIN devices'
      /\ \A r \in Clients : clients'[r].op = "swap" => clients'[r].expires <= now + Days
      /\ \A g \in DOMAIN grants : grants[g].device \in DOMAIN devices'
  BY <1>1, <1>2, <1>3 DEF DevInv, OnDevice
<1> QED
  BY <1>4, <1>5 DEF DevInv, OnDevice

LEMMA DevInserts ==
  ASSUME DevInv, NEW c \in Clients, InsertDevice(c)
  PROVE  DevInv'
<1>1. PICK n \in Nat : n = Len(devices)
  BY DevTypes DEF DevInv
<1>2. /\ DOMAIN devices = 1 .. n /\ n < MaxDevices /\ devices \in Seq(Device)
      /\ \A d \in 1 .. n : devices[d] \in Device /\ devices[d].chain <= d /\ devices[d].expires <= now + Days
  BY <1>1, DevTypes DEF DevInv, DevTypeOK, InsertDevice
<1> DEFINE row == [version |-> clients[c].version, expires |-> now + Days, revoked |-> FALSE, chain |-> n + 1]
<1>3. row \in Device
  <2>1. clients[c].version \in 1 .. 2
    BY DevTypes, DoingFields DEF InsertDevice, DevInv
  <2>2. n + 1 \in DeviceIds /\ now + Days \in Times
    BY <1>2, DevTypes, DevConstants DEF DevInv, DeviceIds, Times
  <2> QED
    BY <2>1, <2>2 DEF Device
<1>4. row.chain = n + 1 /\ row.expires = now + Days
  OBVIOUS
<1>5. devices' = Append(devices, row) /\ Do(c, NotCalled) /\ UNCHANGED <<now, policy, grants, ended>>
  BY <1>1 DEF InsertDevice
<1> HIDE DEF row
<1>6. /\ devices' \in Seq(Device) /\ Len(devices') = n + 1 /\ DOMAIN devices' = 1 .. n + 1
      /\ devices'[n + 1] = row /\ \A d \in 1 .. n : devices'[d] = devices[d]
  BY <1>1, <1>2, <1>3, <1>5
<1>7. \A d \in 1 .. n + 1 : d \in 1 .. n \/ d = n + 1
  OBVIOUS
<1>8. /\ \A d \in 1 .. n + 1 : devices'[d].chain <= d /\ devices'[d].expires <= now + Days
      /\ \A d \in 1 .. n + 1 : devices'[d].chain = n + 1 <=> d = n + 1
  <2>1. now + Days \in Int
    BY DevTypes, DevConstants DEF DevInv
  <2>2. \A d \in 1 .. n : devices[d].chain \in Int
    BY <1>2, DeviceFields DEF DeviceIds
  <2> QED
    BY <1>2, <1>4, <1>6, <1>7, <2>1, <2>2
<1>9. ended' \subseteq 1 .. n
  BY <1>2, <1>5 DEF DevInv
<1>10. RevocationEndsLine'
  BY <1>2, <1>5, <1>6, <1>7, <1>8, <1>9 DEF RevocationEndsLine, DevInv
<1>11. OneLivePerLine'
  BY <1>2, <1>6, <1>7, <1>8 DEF OneLivePerLine, DevInv
<1> QED
  BY <1>1, <1>2, <1>5, <1>6, <1>8, <1>9, <1>10, <1>11, DevConstants, DevChanges

(* The row is revoked.                                                       *)
WithRevoked(d) == [devices EXCEPT ![d].revoked = TRUE]

LEMMA RowRevoked ==
  ASSUME DevTypeOK, NEW d \in DOMAIN devices
  PROVE  /\ WithRevoked(d) \in Seq(Device) /\ Len(WithRevoked(d)) = Len(devices)
         /\ DOMAIN WithRevoked(d) = DOMAIN devices /\ WithRevoked(d)[d].revoked
         /\ \A e \in DOMAIN devices \ {d} : WithRevoked(d)[e] = devices[e]
         /\ \A e \in DOMAIN devices : /\ WithRevoked(d)[e].chain = devices[e].chain
                                     /\ WithRevoked(d)[e].expires = devices[e].expires
<1>1. devices \in Seq(Device) /\ devices[d] \in Device
  BY DevTypes
<1>2. PICK row : row = [devices[d] EXCEPT !.revoked = TRUE]
  OBVIOUS
<1>3. row \in Device /\ row.revoked /\ row.chain = devices[d].chain /\ row.expires = devices[d].expires
  BY <1>1, <1>2 DEF Device
<1>4. WithRevoked(d) = [devices EXCEPT ![d] = row]
  BY <1>2 DEF WithRevoked
<1> QED
  BY <1>1, <1>3, <1>4

LEMMA DevRevokes ==
  ASSUME DevInv, NEW c \in Clients, Revoke(c)
  PROVE  DevInv'
<1>1. PICK d : d = clients[c].device
  OBVIOUS
<1>2. d \in DOMAIN devices /\ devices[d] \in Device
  BY <1>1, DevTypes DEF Revoke, DevInv, OnDevice
<1>3. /\ devices' = WithRevoked(d) /\ Do(c, NotCalled)
      /\ ended' = (IF devices[d].revoked THEN ended ELSE ended \cup {devices[d].chain})
      /\ UNCHANGED <<now, policy, grants>>
  BY <1>1 DEF Revoke, WithRevoked
<1>4. /\ devices' \in Seq(Device) /\ Len(devices') = Len(devices) /\ DOMAIN devices' = DOMAIN devices
      /\ devices'[d].revoked /\ \A e \in DOMAIN devices \ {d} : devices'[e] = devices[e]
      /\ \A e \in DOMAIN devices : devices'[e].chain = devices[e].chain /\ devices'[e].expires = devices[e].expires
  BY <1>2, <1>3, RowRevoked DEF DevInv
<1>5. devices[d].chain \in DOMAIN devices
  <2>1. devices[d].chain \in DeviceIds /\ devices[d].chain <= d
    BY <1>2, DeviceFields DEF DevInv, DevTypeOK
  <2> QED
    BY <1>2, <2>1, DevTypes, DevConstants DEF DevInv, DeviceIds
<1>6. ended' \subseteq DOMAIN devices'
  BY <1>3, <1>4, <1>5 DEF DevInv
<1>7. ASSUME NEW e \in DOMAIN devices, devices'[e].chain \in ended' PROVE devices'[e].revoked
  <2>1. CASE devices[e].chain \in ended
    BY <1>4, <2>1 DEF DevInv, RevocationEndsLine
  <2>2. CASE devices[e].chain \notin ended
    <3>1. ~devices[d].revoked /\ devices[e].chain = devices[d].chain
      BY <1>3, <1>4, <1>7, <2>2
    <3> QED
      BY <1>2, <1>4, <3>1 DEF DevInv, OneLivePerLine
  <2> QED
    BY <2>1, <2>2
<1>8. RevocationEndsLine'
  BY <1>4, <1>7 DEF RevocationEndsLine
<1>9. OneLivePerLine'
  BY <1>4 DEF OneLivePerLine, DevInv
<1>10. \A e \in DOMAIN devices' : devices'[e].chain <= e /\ devices'[e].expires <= now + Days
  BY <1>4 DEF DevInv, DevTypeOK
<1>11. Len(devices') <= MaxDevices /\ Len(devices) <= Len(devices')
  BY <1>4, DevTypes DEF DevInv
<1> QED
  BY <1>3, <1>4, <1>6, <1>8, <1>9, <1>10, <1>11, DevChanges

(* The row is revoked and its successor is the only live one of its line.    *)
LEMMA DevRotates ==
  ASSUME DevInv, NEW c \in Clients, RotateCommit(c)
  PROVE  DevInv'
<1>1. PICK d : d = clients[c].device
  OBVIOUS
<1>2. d \in DOMAIN devices /\ devices[d] \in Device /\ clients[c] \in Doing /\ clients[c].op = "swap"
  BY <1>1, DevTypes DEF RotateCommit, DevInv, OnDevice
<1>3. CASE devices[d].revoked
  <2>1. UNCHANGED <<now, policy, grants, ended, devices>> /\ Do(c, NotCalled)
    BY <1>1, <1>3 DEF RotateCommit
  <2>2. /\ \A e \in DOMAIN devices' : devices'[e].chain <= e /\ devices'[e].expires <= now + Days
        /\ devices' \in Seq(Device) /\ Len(devices) <= Len(devices') /\ Len(devices') <= MaxDevices
        /\ ended' \subseteq DOMAIN devices' /\ RevocationEndsLine' /\ OneLivePerLine'
    BY <2>1, DevTypes DEF DevInv, DevTypeOK, RevocationEndsLine, OneLivePerLine
  <2> QED
    BY <2>1, <2>2, DevChanges
<1>4. CASE ~devices[d].revoked
  <2>1. PICK n \in Nat : n = Len(devices)
    BY DevTypes DEF DevInv
  <2>2. PICK rows : rows = WithRevoked(d)
    OBVIOUS
  <2>3. PICK row : row = Successor(c)
    OBVIOUS
  <2>4. /\ devices' = Append(rows, row) /\ n < MaxDevices
        /\ Do(c, NotCalled) /\ UNCHANGED <<now, policy, grants, ended>>
    BY <1>1, <1>4, <2>1, <2>2, <2>3 DEF RotateCommit, WithRevoked
  <2>5. /\ rows \in Seq(Device) /\ Len(rows) = n /\ DOMAIN rows = 1 .. n /\ DOMAIN devices = 1 .. n
        /\ rows[d].revoked /\ \A e \in 1 .. n \ {d} : rows[e] = devices[e]
        /\ \A e \in 1 .. n : rows[e].chain = devices[e].chain /\ rows[e].expires = devices[e].expires
    BY <1>2, <2>1, <2>2, RowRevoked, DevTypes DEF DevInv
  <2>6. /\ row \in Device /\ row.chain = devices[d].chain /\ row.expires <= now + Days
    <3>1. row = [version |-> clients[c].version, expires |-> clients[c].expires, revoked |-> FALSE,
                 chain |-> devices[d].chain]
      BY <1>1, <2>3 DEF Successor
    <3>2. clients[c].version \in 1 .. 2 /\ clients[c].expires \in Times /\ devices[d].chain \in DeviceIds
      BY <1>2, DoingFields, DeviceFields
    <3>3. clients[c].expires <= now + Days
      BY <1>2 DEF DevInv
    <3> QED
      BY <3>1, <3>2, <3>3 DEF Device
  <2>7. /\ devices' \in Seq(Device) /\ Len(devices') = n + 1 /\ DOMAIN devices' = 1 .. n + 1
        /\ devices'[n + 1] = row /\ \A e \in 1 .. n : devices'[e] = rows[e]
    BY <2>1, <2>4, <2>5, <2>6
  <2>8. \A e \in 1 .. n + 1 : e \in 1 .. n \/ e = n + 1
    OBVIOUS
  <2>9. \A e \in 1 .. n + 1 : devices'[e].chain <= e /\ devices'[e].expires <= now + Days
    <3>1. \A e \in 1 .. n : devices[e].chain <= e /\ devices[e].expires <= now + Days
      BY <2>5 DEF DevInv, DevTypeOK
    <3>2. devices[d].chain <= n + 1
      <4>1. devices[d].chain \in Int /\ devices[d].chain <= d /\ d \in 1 .. n
        BY <1>2, <2>5, <3>1, DeviceFields DEF DeviceIds
      <4> QED
        BY <4>1
    <3> QED
      BY <2>5, <2>6, <2>7, <2>8, <3>1, <3>2
  <2>10. devices[d].chain \notin ended
    BY <1>2, <1>4 DEF DevInv, RevocationEndsLine
  <2>11. RevocationEndsLine'
    <3>1. \A e \in 1 .. n : rows[e].chain \in ended => rows[e].revoked
      BY <2>5 DEF DevInv, RevocationEndsLine
    <3> QED
      BY <2>4, <2>6, <2>7, <2>8, <2>10, <3>1 DEF RevocationEndsLine
  <2>12. OneLivePerLine'
    <3>1. \A e, f \in 1 .. n : rows[e].chain = rows[f].chain /\ ~rows[e].revoked /\ ~rows[f].revoked => e = f
      BY <2>5 DEF DevInv, OneLivePerLine
    <3>2. \A e \in 1 .. n : rows[e].chain = row.chain => rows[e].revoked
      BY <1>2, <1>4, <2>5, <2>6 DEF DevInv, OneLivePerLine
    <3> QED
      BY <2>7, <2>8, <3>1, <3>2 DEF OneLivePerLine
  <2>13. ended' \subseteq DOMAIN devices'
    BY <2>4, <2>5, <2>7 DEF DevInv
  <2>14. Len(devices) <= Len(devices') /\ Len(devices') <= MaxDevices
    BY <2>1, <2>4, <2>7, DevConstants
  <2> QED
    BY <2>4, <2>7, <2>9, <2>11, <2>12, <2>13, <2>14, DevChanges
<1> QED
  BY <1>3, <1>4

LEMMA DevCalls ==
  ASSUME DevInv, NEW c \in Clients,
         \/ Open(c) \/ RotateRead(c) \/ IssueGrant(c)
         \/ \E d \in DOMAIN devices, op \in {"rotate", "revoke", "grant"} : Call(c, op, d)
         \/ \E g \in DOMAIN grants : ConsumeGrant(c, g)
  PROVE  DevInv'
<1>1. /\ clients[c] \in Doing /\ policy.version \in 1 .. 2 /\ grants \in Seq(Grant) /\ Len(grants) <= MaxGrants
      /\ \A d \in DOMAIN devices : devices[d] \in Device /\ d \in DeviceIds
      /\ \A g \in DOMAIN grants : grants[g] \in Grant /\ grants[g].device \in DOMAIN devices
  <2>1. \A d \in DOMAIN devices : devices[d] \in Device /\ d \in DeviceIds
    BY DevTypes, DevConstants DEF DevInv, DeviceIds
  <2>2. grants \in Seq(Grant) /\ Len(grants) <= MaxGrants
    BY DevTypes DEF DevInv, DevTypeOK
  <2>3. \A g \in DOMAIN grants : grants[g] \in Grant /\ grants[g].device \in DOMAIN devices
    BY <2>2 DEF DevInv
  <2> QED
    BY <2>1, <2>2, <2>3, DevTypes DEF DevInv
<1>2. NotCalled \in Doing /\ ~OnDevice(NotCalled) /\ NotCalled.op # "swap"
  BY DEF Doing, NotCalled, OnDevice
<1>3. CASE Open(c)
  <2> DEFINE q == [op |-> "issue", version |-> policy.version]
  <2>1. q \in Doing /\ ~OnDevice(q) /\ q.op # "swap"
    BY <1>1 DEF Doing, OnDevice
  <2>2. Do(c, q) /\ UNCHANGED <<now, policy, devices, grants, ended>>
    BY <1>3 DEF Open
  <2> HIDE DEF q
  <2> QED
    BY <1>1, <2>1, <2>2, DevMoves
<1>4. ASSUME NEW d \in DOMAIN devices, NEW op \in {"rotate", "revoke", "grant"}, Call(c, op, d)
      PROVE  DevInv'
  <2> DEFINE q == [op |-> op, device |-> d]
  <2>1. q \in Doing /\ q.device = d /\ q.op # "swap"
    BY <1>1 DEF Doing
  <2>2. Do(c, q) /\ UNCHANGED <<now, policy, devices, grants, ended>>
    BY <1>4 DEF Call
  <2> HIDE DEF q
  <2> QED
    BY <1>1, <2>1, <2>2, DevMoves
<1>5. CASE RotateRead(c)
  <2>1. PICK d : d = clients[c].device
    OBVIOUS
  <2>2. d \in DOMAIN devices /\ devices[d] \in Device /\ d \in DeviceIds
    BY <1>1, <1>5, <2>1 DEF RotateRead, DevInv, OnDevice
  <2>3. Renewed(d) \in Times /\ Renewed(d) <= now + Days
    <3>1. devices[d].expires \in Times /\ devices[d].expires <= now + Days
      BY <2>2, DeviceFields DEF DevInv, DevTypeOK
    <3>2. now + Days \in Times
      BY DevTypes, DevConstants DEF DevInv, Times
    <3> QED
      BY <3>1, <3>2 DEF Renewed, Times
  <2> DEFINE q == [op |-> "swap", device |-> d, expires |-> Renewed(d), version |-> policy.version]
  <2>4. q \in Doing /\ q.device = d /\ q.expires = Renewed(d)
    BY <1>1, <2>2, <2>3 DEF Doing
  <2>5. (Do(c, q) \/ Do(c, NotCalled)) /\ UNCHANGED <<now, policy, devices, grants, ended>>
    BY <1>5, <2>1 DEF RotateRead
  <2> HIDE DEF q
  <2>6. CASE Do(c, q)
    BY <1>1, <2>2, <2>3, <2>4, <2>5, <2>6, DevMoves
  <2>7. CASE Do(c, NotCalled)
    BY <1>1, <1>2, <2>5, <2>7, DevMoves
  <2> QED
    BY <2>5, <2>6, <2>7
<1>6. CASE IssueGrant(c)
  <2> DEFINE new == [device |-> clients[c].device, used |-> FALSE, expires |-> now + 1]
  <2>1. clients[c].device \in DOMAIN devices /\ clients[c].device \in DeviceIds
    BY <1>1, <1>6 DEF IssueGrant, DevInv, OnDevice
  <2>2. now + 1 \in Times
    BY DevTypes, DevConstants DEF DevInv, Times
  <2>3. new \in Grant /\ new.device \in DOMAIN devices
    BY <2>1, <2>2 DEF Grant
  <2>4. /\ grants' = Append(grants, new) /\ Do(c, NotCalled) /\ Len(grants) < MaxGrants
        /\ UNCHANGED <<now, policy, devices, ended>>
    BY <1>6 DEF IssueGrant
  <2> HIDE DEF new
  <2>5. grants' \in Seq(Grant) /\ Len(grants') <= MaxGrants
        /\ \A g \in DOMAIN grants' : grants'[g].device \in DOMAIN devices
    BY <1>1, <2>3, <2>4, DevConstants
  <2> QED
    BY <1>2, <2>4, <2>5, DevMoves
<1>7. ASSUME NEW g \in DOMAIN grants, ConsumeGrant(c, g) PROVE DevInv'
  <2>1. PICK d : d = grants[g].device
    OBVIOUS
  <2> DEFINE q == [op |-> "rotate", device |-> d]
  <2>2. q \in Doing /\ q.device = d /\ d \in DOMAIN devices /\ q.op # "swap"
    BY <1>1, <2>1 DEF Doing
  <2>3. Do(c, q) /\ grants' = [grants EXCEPT ![g].used = TRUE] /\ UNCHANGED <<now, policy, devices, ended>>
    BY <1>7, <2>1 DEF ConsumeGrant
  <2> HIDE DEF q
  <2>4. PICK new : new = [grants[g] EXCEPT !.used = TRUE]
    OBVIOUS
  <2>5. new \in Grant /\ new.device = grants[g].device
    BY <1>1, <2>4 DEF Grant
  <2>6. grants' = [grants EXCEPT ![g] = new]
    BY <2>3, <2>4
  <2>7. grants' \in Seq(Grant) /\ Len(grants') <= MaxGrants
        /\ \A h \in DOMAIN grants' : grants'[h].device \in DOMAIN devices
    BY <1>1, <2>5, <2>6
  <2> QED
    BY <2>2, <2>3, <2>7, DevMoves
<1> QED
  BY <1>3, <1>4, <1>5, <1>6, <1>7

LEMMA DevStepHolds == DevInv /\ [DevNext]_devVars => DevInv'
<1> SUFFICES ASSUME DevInv, [DevNext]_devVars PROVE DevInv'
  OBVIOUS
<1>1. CASE ChangePolicy
  <2>1. policy' \in [active: BOOLEAN, version: 1 .. 2] /\ UNCHANGED <<now, devices, grants, clients, ended>>
    <3>1. policy \in [active: BOOLEAN, version: 1 .. 2]
      BY DEF DevInv, DevTypeOK
    <3>2. [policy EXCEPT !.active = ~policy.active] \in [active: BOOLEAN, version: 1 .. 2]
      BY <3>1
    <3>3. [policy EXCEPT !.version = 2] \in [active: BOOLEAN, version: 1 .. 2]
      BY <3>1
    <3> QED
      BY <1>1, <3>2, <3>3 DEF ChangePolicy
  <2> QED
    BY <2>1 DEF DevInv, DevTypeOK, RevocationEndsLine, OneLivePerLine, OnDevice
<1>2. CASE DevTick
  <2>1. /\ now \in 0 .. Horizon /\ now' \in 0 .. Horizon /\ now' = now + 1 /\ UNCHANGED <<policy, devices, grants, clients, ended>>
    BY <1>2, DevTypes, DevConstants DEF DevTick, DevInv
  <2>2. \A d \in DOMAIN devices : devices[d].expires <= now' + Days
    <3>1. \A d \in DOMAIN devices : devices[d].expires \in Int /\ devices[d].expires <= now + Days
      BY DevTypes, DeviceFields DEF DevInv, DevTypeOK, Times
    <3> QED
      BY <2>1, <3>1, DevConstants
  <2>3. \A c \in Clients : clients[c].op = "swap" => clients[c].expires <= now' + Days
    <3>1. \A c \in Clients : clients[c].op = "swap" => clients[c].expires \in Int /\ clients[c].expires <= now + Days
      BY DevTypes, DoingFields DEF DevInv, Times
    <3> QED
      BY <2>1, <3>1, DevConstants
  <2> QED
    BY <2>1, <2>2, <2>3 DEF DevInv, DevTypeOK, RevocationEndsLine, OneLivePerLine, OnDevice
<1>3. CASE UNCHANGED devVars
  BY <1>3 DEF devVars, DevInv, DevTypeOK, RevocationEndsLine, OneLivePerLine, OnDevice
<1> QED
  BY <1>1, <1>2, <1>3, DevCalls, DevInserts, DevRevokes, DevRotates DEF DevNext

LEMMA DevHolds == DevInv => DevTypeOK /\ RevocationEndsLine /\ OneLivePerLine
BY DEF DevInv
-----------------------------------------------------------------------------
(* The portal: a step is one of its component in focus, the others keep      *)
(* their state.                                                              *)

PortalInv == SatInv /\ IdemInv /\ ConvInv /\ VerInv /\ SiteInv /\ DevInv

(* Begins and Moves let the components start anyhow and step in any          *)
(* combination; the model checker's focus and its smaller initial states are *)
(* a case of it.                                                             *)
Begins ==
  /\ SatInit /\ IdempotencyInit /\ ConvInit /\ VerInit /\ SiteInit
  /\ DevInit

Moves ==
  /\ [SatNext]_satVars /\ [IdempotencyNext]_idemVars /\ [ConvNext]_convVars
  /\ [VerNext]_verVars /\ [SiteNext]_siteVars /\ [DevNext]_devVars

LEMMA PortalBegins == Begins => PortalInv
BY SatInitHolds, IdemInitHolds, ConvInitHolds, VerInitHolds, SiteInitHolds, DevInitHolds DEF Begins, PortalInv

LEMMA PortalSteps == PortalInv /\ Moves => PortalInv'
<1> SUFFICES ASSUME PortalInv, Moves PROVE PortalInv'
  OBVIOUS
<1> QED
  BY SatStepHolds, IdemStepHolds, ConvStepHolds, VerStepHolds, SiteStepHolds, DevStepHolds DEF Moves, PortalInv

LEMMA FocusIsACase == (Init => Begins) /\ ([Next]_vars => Moves)
BY DEF Init, Begins, Next, Moves, vars

(* However the six components interleave, the inductive invariant holds.   *)
THEOREM PortalTogether == Begins /\ [][Moves]_vars => []PortalInv
<1>1. PortalInv /\ [Moves]_vars => PortalInv'
  BY PortalSteps DEF Moves, vars
<1> QED
  BY <1>1, PortalBegins, PTL

(* The inductive invariant of the portal holds in every reachable state.     *)
THEOREM PortalInvariant == Spec => []PortalInv
<1>1. [][Next]_vars => [][Moves]_vars
  BY FocusIsACase, PTL
<1> QED
  BY <1>1, FocusIsACase, PortalTogether, PTL DEF Spec

(* In every reachable state the variables of the six components of the public*)
(* portal have their types, the consistency of ids and states included.      *)
THEOREM PortalTypes == Spec => []PortalTypesOK
<1>1. PortalInv => PortalTypesOK
  BY SatHolds, IdemHolds, ConvHolds, VerHolds, SiteHolds, DevHolds DEF PortalInv, PortalTypesOK
<1> QED
  BY <1>1, PortalInvariant, PTL

(* Repeating a request, at the same time or later, has one effect: a key runs*)
(* its handler once while its record lives and answers with that run, and a  *)
(* conversation has one ticket however many confirmations raced for it.      *)
THEOREM RepetitionIsHarmless == Spec => []RepeatsHaveOneEffect
<1>1. PortalInv => RepeatsHaveOneEffect
  BY IdemHolds, ConvHolds DEF PortalInv, RepeatsHaveOneEffect
<1> QED
  BY <1>1, PortalInvariant, PTL

(* A ticket has the last draft and all the files its confirmation found, a   *)
(* link is answered twice only by submissions that crossed, and after the    *)
(* ticket each call that was under way writes once at most.                  *)
THEOREM EarlyWordIsKept == Spec => []EarlyWordCounts
<1>1. PortalInv => EarlyWordCounts
  BY SatHolds, ConvHolds DEF PortalInv, EarlyWordCounts
<1> QED
  BY <1>1, PortalInvariant, PTL

(* What proves an identity does so within its bounds, whatever the number of *)
(* calls at once: the codes sent to a contact, the assertions of a site and  *)
(* the lines of trusted devices.                                             *)
THEOREM IdentityIsProved == Spec => []IdentityHolds
<1>1. PortalInv => IdentityHolds
  BY VerHolds, SiteHolds, DevHolds DEF PortalInv, IdentityHolds
<1> QED
  BY <1>1, PortalInvariant, PTL
=============================================================================
