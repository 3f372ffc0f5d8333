------------------------------- MODULE MCPortal -------------------------------
(* The components of the public portal, each alone: focus chooses which.     *)
EXTENDS Satisfaction, Idempotency, PublicConversation, ContactVerification, SiteAssertion, TrustedDevices, TLC

CONSTANTS a, b, listener, supervisor, k1, b1, b2

VARIABLE focus

Tabs == {a, b}      \* the calls of a component that run at once

vars == <<focus, satVars, idemVars, convVars, verVars, siteVars, devVars>>

Init ==
    /\ focus \in {"satisfaction", "idempotency", "conversation", "verification", "assertion", "devices"}
    /\ SatInit /\ IdempotencyInit /\ ConvInit /\ VerInit /\ SiteInit /\ DevInit

Next ==
    \/ focus = "satisfaction" /\ SatNext
         /\ UNCHANGED <<focus, idemVars, convVars, verVars, siteVars, devVars>>
    \/ focus = "idempotency" /\ IdempotencyNext
         /\ UNCHANGED <<focus, satVars, convVars, verVars, siteVars, devVars>>
    \/ focus = "conversation" /\ ConvNext
         /\ UNCHANGED <<focus, satVars, idemVars, verVars, siteVars, devVars>>
    \/ focus = "verification" /\ VerNext
         /\ UNCHANGED <<focus, satVars, idemVars, convVars, siteVars, devVars>>
    \/ focus = "assertion" /\ SiteNext
         /\ UNCHANGED <<focus, satVars, idemVars, convVars, verVars, devVars>>
    \/ focus = "devices" /\ DevNext
         /\ UNCHANGED <<focus, satVars, idemVars, convVars, verVars, siteVars>>

Spec == Init /\ [][Next]_vars

Symmetry == Permutations(Tabs)

(* All states of each component have their types.                            *)
PortalTypesOK ==
    SatTypeOK /\ IdempotencyTypeOK /\ ConvTypeOK /\ VerTypeOK /\ SiteTypeOK /\ DevTypeOK

(* A request that is repeated, at the same time or later, runs once and is   *)
(* answered with that run; a conversation confirmed twice makes one ticket.  *)
RepeatsHaveOneEffect == RunsOncePerKey /\ AnsweredByOwnRun /\ OneTicket

(* What was said before the end counts: drafts and files go to the ticket    *)
(* whose confirmation came after them, an answer is replaced only by one sent*)
(* at the same time; what comes after the end is bounded by the calls that   *)
(* were under way.                                                           *)
EarlyWordCounts ==
    /\ WaitingLinksBounded /\ AnsweredOnceUnlessCrossed
    /\ LastDraftReachesTicket /\ FilesReachTicket /\ LateWritesBounded

(* What proves an identity is used as often as it may: a code by its tries   *)
(* and one session, an assertion once, one live token in a line of devices,  *)
(* none after its revocation.                                                *)
IdentityHolds ==
    /\ OneLiveCode /\ ComparedBounded /\ TriesPerHour /\ CodeOpensOneSession
    /\ AssertionAcceptedOnce /\ RevocationEndsLine /\ OneLivePerLine
===============================================================================
