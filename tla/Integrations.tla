----------------------------- MODULE Integrations -----------------------------
(* An integration, its trust policy and its secrets, as administrators change *)
(* them (support-integrations, integration-secret and integration-trust-     *)
(* policy services).  A secret that is replaced stays good for a while, so   *)
(* that the site has time to install the new one.                            *)
EXTENDS Integers, Sequences

CONSTANTS
    Requests,      \* requests of administrators at work at a time
    Grace,         \* PUBLIC_SUPPORT_SECRET_ROTATION_GRACE_MINUTES
    MaxSecrets, MaxVersion, MaxRequests,
    EndOfTime      \* bound on the clock

ASSUME IntegrationsAssumption == {Grace, MaxSecrets, MaxVersion, MaxRequests, EndOfTime} \subseteq Nat /\ MaxVersion > 0

VARIABLES
    clock,
    site,          \* the row: its status, the version of its trust policy
    secrets,       \* integration_credentials: activeFrom, revokedAt, and whether an administrator revoked it
    request,       \* what each request is at, and the time or the row it read
    requests,      \* how many began
    tangled        \* an update was completed with a row that another had changed since

integrationVars == <<clock, site, secrets, request, requests, tangled>>

Forever == -1
SiteStates == {"DRAFT", "ACTIVE", "SUSPENDED"}
Rows == [status: SiteStates, policy: 1 .. MaxVersion, suspended: BOOLEAN]
Idle == [step |-> "none", at |-> 0, status |-> "DRAFT", policy |-> 0, read |-> [status |-> "DRAFT", policy |-> 1, suspended |-> FALSE]]

Good(s, t) == s.from <= t /\ (s.until = Forever \/ s.until > t)
Unreplaced == {n \in DOMAIN secrets : secrets[n].until = Forever}

IntegrationsTypeOK ==
    /\ clock \in 0 .. EndOfTime /\ site \in Rows
    /\ secrets \in Seq([from: 0 .. EndOfTime, until: {Forever} \cup 0 .. EndOfTime + Grace, revoked: BOOLEAN])
    (* At most the last secret has no end, and it has one only if revoked.   *)
    /\ Unreplaced \subseteq {Len(secrets)}
    /\ secrets # <<>> /\ ~secrets[Len(secrets)].revoked => Unreplaced # {}
    /\ \A r \in Requests : request[r].step \in {"none", "rotate", "check", "update"}
    /\ requests \in 0 .. MaxRequests /\ tangled \in BOOLEAN

IntegrationsInit ==
    /\ clock = 0 /\ site = [status |-> "DRAFT", policy |-> 1, suspended |-> FALSE]
    /\ secrets = <<>> /\ request = [r \in Requests |-> Idle] /\ requests = 0 /\ tangled = FALSE

-----------------------------------------------------------------------------

Begin(r, step, form) ==
    /\ request[r].step = "none" /\ requests < MaxRequests /\ requests' = requests + 1
    /\ request' = [request EXCEPT ![r] = [step |-> step, at |-> clock, status |-> form.status, policy |-> form.policy, read |-> site]]
    /\ UNCHANGED <<clock, site, secrets, tangled>>
End(r) == request' = [request EXCEPT ![r] = Idle]

(* rotate: the time is taken before the transaction and its lock; the        *)
(* secrets that would be good for longer than the grace are cut ...          *)
BeginRotate(r) == Len(secrets) < MaxSecrets /\ Begin(r, "rotate", [status |-> "DRAFT", policy |-> 0])
MutCut(s, graceUntil) == [s EXCEPT !.until = graceUntil - Grace]
Cut(s, graceUntil) ==
    IF s.until = Forever \/ s.until > graceUntil THEN [s EXCEPT !.until = graceUntil] ELSE s
Rotation(s, at) ==     \* ... and the new one has no end
    Append([n \in DOMAIN s |-> Cut(s[n], at + Grace)], [from |-> at, until |-> Forever, revoked |-> FALSE])
Rotate(r) ==
    /\ request[r].step = "rotate" /\ Len(secrets) < MaxSecrets
    /\ secrets' = Rotation(secrets, request[r].at)
    /\ End(r)
    /\ UNCHANGED <<clock, site, requests, tangled>>

(* revoke: whatever the secret, even one already cut.                        *)
Revoke(n) ==
    /\ requests < MaxRequests /\ requests' = requests + 1
    /\ secrets' = [secrets EXCEPT ![n].until = clock, ![n].revoked = TRUE]
    /\ UNCHANGED <<clock, site, request, tangled>>

(* update: the row is read, a good secret is asked for before an activation, *)
(* and the form, completed with the row that was read, is saved.  A form     *)
(* without a status keeps the one read; without a policy (0) it leaves the   *)
(* policy alone; the version of the policy may not go down from the one read. *)
(* Going up from it revokes the devices (TrustedDevices).                    *)
BeginUpdate(r) ==
    \E status \in SiteStates \cup {"kept"}, policy \in {0} \cup site.policy .. MaxVersion :
      Begin(r, IF status = "ACTIVE" THEN "check" ELSE "update", [status |-> status, policy |-> policy])

Activable == \E n \in DOMAIN secrets : Good(secrets[n], clock)
AssertActiveCredential(r) ==
    /\ request[r].step = "check"
    /\ IF Activable THEN request' = [request EXCEPT ![r].step = "update"] ELSE End(r)
    /\ UNCHANGED <<clock, site, secrets, requests, tangled>>

StatusSaved(r) == IF request[r].status = "kept" THEN request[r].read.status ELSE request[r].status
PolicySaved(r) == IF request[r].policy = 0 THEN site.policy ELSE request[r].policy
Update(r) ==
    /\ request[r].step = "update"
    /\ site' = [status |-> StatusSaved(r), policy |-> PolicySaved(r),
                suspended |-> \/ request[r].status = "SUSPENDED"
                              \/ site.suspended /\ request[r].status = "kept"]
    /\ tangled' = (tangled \/ request[r].read # site)
    /\ End(r)
    /\ UNCHANGED <<clock, secrets, requests>>

RequestFails(r) ==
    /\ request[r].step # "none"
    /\ End(r)
    /\ UNCHANGED <<clock, site, secrets, requests, tangled>>

ClockTicks == clock < EndOfTime /\ clock' = clock + 1 /\ UNCHANGED <<site, secrets, request, requests, tangled>>

IntegrationsNext ==
    \/ \E r \in Requests : BeginRotate(r) \/ Rotate(r) \/ BeginUpdate(r) \/ AssertActiveCredential(r) \/ Update(r) \/ RequestFails(r)
    \/ \E n \in DOMAIN secrets : Revoke(n)
    \/ ClockTicks

-----------------------------------------------------------------------------

(* A secret that was replaced and not revoked stays good until the grace     *)
(* that a later rotation gave it has passed, however rotations overlap.      *)
GraceHolds ==
    \A n \in DOMAIN secrets : ~secrets[n].revoked /\ secrets[n].until # Forever =>
      secrets[n].until \in {secrets[m].from + Grace : m \in n + 1 .. Len(secrets)}

(* An integration that never had a secret was never activated.               *)
ActiveHadSecret == site.status = "ACTIVE" => secrets # <<>>

(* Once suspended, an integration is active again only by an update that     *)
(* says so; or, when updates cross, because one that says nothing of the     *)
(* status saves the one it read (support-integrations.service.ts:56-63).     *)
SuspensionHolds == site.suspended => tangled \/ site.status # "ACTIVE"
=============================================================================
