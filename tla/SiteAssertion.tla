---------------------------- MODULE SiteAssertion ----------------------------
(* The exchange of the assertion a partner site signs for one of its users   *)
(* (integration-assertion and wordpress-identity-store services): the same   *)
(* assertion, or two of the same user, may be presented at once.             *)
EXTENDS Integers, FiniteSets

CONSTANTS
    Presenters,    \* exchanges that can run at once
    LastExp        \* the expiry of the last assertion, a bound on the clock

ASSUME AssertionAssumption == LastExp \in Nat \ {0} /\ IsFiniteSet(Presenters)

Tolerance == 1     \* clockTolerance
Assertions == 1 .. 2
Expiry == [i \in Assertions |-> LastExp - 2 + i]
Clock == 0 .. LastExp + Tolerance

VARIABLES
    time,
    enabled,       \* the integration is ACTIVE
    nonces,        \* nonces[i]: the instant until which Redis keeps the nonce of i
    presenting,    \* what each exchange is doing
    accepted,      \* accepted[i]: exchanges of i accepted before its expiry
    identities     \* requesters created for the user

siteVars == <<time, enabled, nonces, presenting, accepted, identities>>

NotPresenting == [pc |-> "idle"]

SiteTypeOK ==
    /\ time \in Clock /\ enabled \in BOOLEAN
    /\ nonces \in [Assertions -> 0 .. LastExp + Tolerance + 1]
    /\ presenting \in [Presenters -> {NotPresenting}
          \cup [pc: {"verified", "find"}, of: Assertions] \cup [pc: {"create"}, of: Assertions]]
    /\ \A p \in Presenters : presenting[p].pc \in {"find", "create"} => nonces[presenting[p].of] # 0
    /\ accepted \in [Assertions -> Nat] /\ identities \in 0 .. 1

SiteInit ==
    /\ time = 0 /\ enabled = TRUE
    /\ nonces = [i \in Assertions |-> 0] /\ accepted = [i \in Assertions |-> 0]
    /\ presenting = [p \in Presenters |-> NotPresenting]
    /\ identities = 0

Present(p, call) == presenting' = [presenting EXCEPT ![p] = call]

(* Issuer, integration, signature, age and origin.                           *)
Verify(p, i) ==
    /\ presenting[p] = NotPresenting /\ enabled /\ time < Expiry[i] + Tolerance
    /\ Present(p, [pc |-> "verified", of |-> i])
    /\ UNCHANGED <<time, enabled, nonces, accepted, identities>>

(* SET NX EX, with ttl = max(1, exp - now).                                  *)
Remembered(i) == IF Expiry[i] > time THEN Expiry[i] ELSE time + 1

TakeNonce(p) ==
    LET i == presenting[p].of IN
    /\ presenting[p].pc = "verified"
    /\ IF time < nonces[i]
       THEN Present(p, NotPresenting) /\ UNCHANGED <<nonces, accepted>>
       ELSE /\ nonces' = [nonces EXCEPT ![i] = Remembered(i)]
            /\ accepted' = [accepted EXCEPT ![i] = IF time < Expiry[i] THEN @ + 1 ELSE @]
            /\ Present(p, [presenting[p] EXCEPT !.pc = "find"])
    /\ UNCHANGED <<time, enabled, identities>>

(* upsert: the identity is found and refreshed, or has to be created.        *)
FindIdentity(p) ==
    /\ presenting[p].pc = "find"
    /\ Present(p, IF identities > 0 THEN NotPresenting ELSE [presenting[p] EXCEPT !.pc = "create"])
    /\ UNCHANGED <<time, enabled, nonces, accepted, identities>>

(* The unique index on the identity makes the second creation fail with its  *)
(* requester; the nonce stays consumed.                                      *)
CreateIdentity(p) ==
    /\ presenting[p].pc = "create" /\ Present(p, NotPresenting)
    /\ identities' = IF identities = 0 THEN 1 ELSE identities
    /\ UNCHANGED <<time, enabled, nonces, accepted>>

SiteTick ==
    /\ time < LastExp + Tolerance /\ time' = time + 1
    /\ UNCHANGED <<enabled, nonces, presenting, accepted, identities>>

Suspend ==
    /\ enabled' = ~enabled
    /\ UNCHANGED <<time, nonces, presenting, accepted, identities>>

SiteNext ==
    \/ \E p \in Presenters, i \in Assertions : Verify(p, i)
    \/ \E p \in Presenters : TakeNonce(p) \/ FindIdentity(p) \/ CreateIdentity(p)
    \/ SiteTick \/ Suspend

SiteSpec == SiteInit /\ [][SiteNext]_siteVars

-----------------------------------------------------------------------------

(* However often an assertion is presented, also from several tabs and after *)
(* waiting, it is accepted once before its expiry.                           *)
AssertionAcceptedOnce == \A i \in Assertions : accepted[i] <= 1
=============================================================================
