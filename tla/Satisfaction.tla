---------------------------- MODULE Satisfaction ----------------------------
(* The satisfaction links of one public ticket                               *)
(* (support-satisfaction.service.ts, ticket-satisfaction.listener.ts): links *)
(* are made by the listener of ticket.closed and by supervisors, and consumed*)
(* by the requester, from several tabs.  Nothing is locked: each query is a  *)
(* step.  A link that was consumed or has expired is never used again.       *)
EXTENDS Integers, FiniteSets

CONSTANTS
    Creators,      \* calls of createForTicket that can run at once
    Listener,      \* the creator that is the listener of ticket.closed
    Submitters,    \* submissions that can run at once
    MaxLinks       \* bound on the links created

ASSUME SatisfactionAssumption ==
    /\ Listener \in Creators /\ MaxLinks \in Nat \ {0}
    /\ IsFiniteSet(Creators) /\ IsFiniteSet(Submitters)

Notes == {1, 5}        \* of 1 .. 5: two notes that can be told apart

VARIABLES
    links,       \* the rows of ticket_satisfaction, by order of creation
    creating,    \* creating[c]: where the call of createForTicket is
    submitting,  \* submitting[s]: the submission
    closings,    \* ticket.closed events not yet handled by the listener
    requested    \* SATISFACTION_REQUEST events in the outbox

satVars == <<links, creating, submitting, closings, requested>>

LinkIds == 1 .. MaxLinks
(* writes and crossed are history: the answers recorded, and whether two     *)
(* submissions of the link were under way at once.                           *)
NoLink == [made |-> FALSE, note |-> 0, expired |-> FALSE, writes |-> 0, crossed |-> FALSE]
Consumed(l) == links[l].made /\ links[l].note # 0
Pending(l) == links[l].made /\ links[l].note = 0
Rest == [pc |-> "idle"]

SatTypeOK ==
    /\ links \in [LinkIds -> [made: BOOLEAN, note: Notes \cup {0}, expired: BOOLEAN,
                         writes: Nat, crossed: BOOLEAN]]
    /\ creating \in [Creators -> {"idle", "check", "insert", "event"}]
    /\ submitting \in [Submitters -> {Rest} \cup [pc: {"write"}, link: LinkIds, note: Notes]]
    /\ closings \in 0 .. MaxLinks
    /\ requested \in {0, 1}

SatInit ==
    /\ links = [l \in LinkIds |-> NoLink]
    /\ creating = [c \in Creators |-> "idle"]
    /\ submitting = [s \in Submitters |-> Rest]
    /\ closings = MaxLinks
    /\ requested = 0

Go(c, pc) == creating' = [creating EXCEPT ![c] = pc]

(* A supervisor asks for a link; the listener takes a closing of the ticket. *)
Ask(c) ==
    /\ creating[c] = "idle" /\ Go(c, "check")
    /\ IF c = Listener THEN closings > 0 /\ closings' = closings - 1 ELSE UNCHANGED closings
    /\ UNCHANGED <<links, submitting, requested>>

(* The query for an unconsumed link: expired ones count too.                 *)
CheckActive(c) ==
    /\ creating[c] = "check"
    /\ Go(c, IF \E l \in LinkIds : Pending(l) THEN "idle" ELSE "insert")
    /\ UNCHANGED <<links, submitting, closings, requested>>

InsertLink(c) ==
    /\ creating[c] = "insert"
    /\ \E l \in LinkIds :
         /\ ~links[l].made /\ \A k \in 1 .. l - 1 : links[k].made
         /\ links' = [links EXCEPT ![l].made = TRUE]
    /\ Go(c, IF c = Listener THEN "event" ELSE "idle")
    /\ UNCHANGED <<submitting, closings, requested>>

(* The key satisfaction_request:<ticket> is unique: a second insertion of    *)
(* the event fails, and its link is never sent.                              *)
RequestEvent(c) ==
    /\ creating[c] = "event" /\ Go(c, "idle")
    /\ requested' = IF requested = 0 THEN 1 ELSE requested
    /\ UNCHANGED <<links, submitting, closings>>

-----------------------------------------------------------------------------

(* The checks of submit on the row it read.                                  *)
Acceptable(l) == Pending(l) /\ ~links[l].expired

Writing(l) == {s \in Submitters : submitting[s].pc = "write" /\ submitting[s].link = l}

SubmitRead(s, l, n) ==
    /\ submitting[s] = Rest /\ Acceptable(l)
    /\ submitting' = [submitting EXCEPT ![s] = [pc |-> "write", link |-> l, note |-> n]]
    /\ links' = [links EXCEPT ![l].crossed = @ \/ Writing(l) # {}]
    /\ UNCHANGED <<creating, closings, requested>>

(* The update names the link only.                                           *)
SubmitWrite(s) ==
    /\ submitting[s].pc = "write"
    /\ links' = [links EXCEPT ![submitting[s].link].note = submitting[s].note,
                              ![submitting[s].link].writes = @ + 1]
    /\ submitting' = [submitting EXCEPT ![s] = Rest]
    /\ UNCHANGED <<creating, closings, requested>>

ExpireLink(l) ==
    /\ Pending(l) /\ ~links[l].expired
    /\ links' = [links EXCEPT ![l].expired = TRUE]
    /\ UNCHANGED <<creating, submitting, closings, requested>>

SatNext ==
    \/ \E c \in Creators : Ask(c) \/ CheckActive(c) \/ InsertLink(c) \/ RequestEvent(c)
    \/ \E s \in Submitters, l \in LinkIds, n \in Notes : SubmitRead(s, l, n)
    \/ \E s \in Submitters : SubmitWrite(s)
    \/ \E l \in LinkIds : ExpireLink(l)

SatSpec == SatInit /\ [][SatNext]_satVars

-----------------------------------------------------------------------------

(* The check for an unconsumed link limits the links waiting for an answer   *)
(* to the calls that ran at once, however many were asked for in sequence.   *)
WaitingLinksBounded ==
    Cardinality({l \in LinkIds : Pending(l)}) <= Cardinality(Creators)

(* A link whose submissions came one after the other, from any number of     *)
(* tabs, is answered once; only two of them at once answer it twice, and the *)
(* second then replaces the first, for the update asks nothing of the row.   *)
AnsweredOnceUnlessCrossed == \A l \in LinkIds : links[l].writes <= 1 \/ links[l].crossed
=============================================================================
