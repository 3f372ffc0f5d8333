------------------------------ MODULE RealmEvents ------------------------------
(* The events of the Keycloak realm copied into the audit trail              *)
(* (keycloak-events.service.ts): every instance lists the latest ones every  *)
(* five minutes and inserts them one by one; a unique index on the event     *)
(* identifier keeps the copies of the other instances out.                   *)
EXTENDS Integers, FiniteSets

CONSTANTS
    Copiers,      \* instances of the API
    Listed,       \* events of a listing: 100 in the code
    MaxEvents     \* bound on the events

ASSUME RealmEventsAssumption == Listed \in Nat \ {0} /\ MaxEvents \in Nat

VARIABLES
    happened,     \* happened[n]: whether event n is of a known user
    copied,       \* copied[n]: rows of audit_logs for event n
    copying,      \* copying[c]: events a copier still has to insert, and the newest listed
    seen,         \* the newest event of a listing that was copied to its end
    burst         \* more than Listed events happened since that one

copyVars == <<happened, copied, copying, seen, burst>>

RealmIds == 1 .. MaxEvents
NotCopying == [todo |-> {}, upTo |-> 0]

RealmEventsTypeOK ==
    /\ \E n \in 0 .. MaxEvents : happened \in [1 .. n -> BOOLEAN]
    /\ copied \in [RealmIds -> Nat]
    /\ \A n \in RealmIds : copied[n] > 0 => n \in DOMAIN happened /\ happened[n]
    /\ copying \in [Copiers -> [todo: SUBSET DOMAIN happened, upTo: 0 .. MaxEvents]]
    /\ seen \in DOMAIN happened \cup {0} /\ burst \in BOOLEAN

RealmEventsInit ==
    /\ happened = <<>>
    /\ copied = [n \in RealmIds |-> 0]
    /\ copying = [c \in Copiers |-> NotCopying]
    /\ seen = 0 /\ burst = FALSE

Newest == Cardinality(DOMAIN happened)

Happen(known) ==
    /\ Newest < MaxEvents
    /\ happened' = [n \in 1 .. Newest + 1 |-> IF n <= Newest THEN happened[n] ELSE known]
    /\ burst' = (burst \/ Newest + 1 - seen > Listed)
    /\ UNCHANGED <<copied, copying, seen>>

Listing == {n \in DOMAIN happened : n > Newest - Listed}

(* A listing that fails is only logged.                                      *)
ListEvents(c) ==
    /\ copying[c] = NotCopying /\ happened # <<>>
    /\ copying' = [copying EXCEPT ![c] = [todo |-> Listing, upTo |-> Newest]]
    /\ UNCHANGED <<happened, copied, seen, burst>>

(* An event of a subject without profile is skipped.                         *)
KnownUser(n) == happened[n]

(* The index refuses a second row; the refusal is taken for a success.       *)
CreateByActor(n) == copied' = [copied EXCEPT ![n] = 1]

(* One event of the list; the last one ends the pass.                        *)
CopyEvent(c, n) ==
    /\ n \in copying[c].todo
    /\ IF KnownUser(n) THEN CreateByActor(n) ELSE UNCHANGED copied
    /\ IF copying[c].todo = {n}
       THEN /\ copying' = [copying EXCEPT ![c] = NotCopying]
            /\ seen' = IF copying[c].upTo > seen THEN copying[c].upTo ELSE seen
       ELSE copying' = [copying EXCEPT ![c].todo = @ \ {n}] /\ UNCHANGED seen
    /\ UNCHANGED <<happened, burst>>

(* Another error of the database, or a crash: the rest is left to the next   *)
(* pass, which lists it again if it is still among the latest.               *)
AbandonCopy(c) ==
    /\ copying[c] # NotCopying
    /\ copying' = [copying EXCEPT ![c] = NotCopying]
    /\ UNCHANGED <<happened, copied, seen, burst>>

CopyNext ==
    \/ \E known \in BOOLEAN : Happen(known)
    \/ \E c \in Copiers : ListEvents(c) \/ AbandonCopy(c) \/ \E n \in copying[c].todo : CopyEvent(c, n)

CopySpec == RealmEventsInit /\ [][CopyNext]_copyVars

(* Every event has one row at most, however passes overlap and start again.  *)
CopiedOnce == \A n \in RealmIds : copied[n] <= 1

(* An event of a known user is copied, or will still be listed, unless more  *)
(* events than a listing holds happened since the last complete pass.        *)
OnlyBurstsAreMissed ==
    burst \/ \A n \in DOMAIN happened : happened[n] => copied[n] > 0 \/ n > Newest - Listed
=============================================================================
