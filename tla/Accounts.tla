------------------------------- MODULE Accounts -------------------------------
(* The account of one employee, kept in two places (users.service.ts,        *)
(* keycloak-admin.service.ts, jwt.strategy.ts): the row of users and the     *)
(* account of the Keycloak realm.  Each operation writes one, then calls the *)
(* other over HTTP; calls fail, processes die, and two operations may cross. *)
EXTENDS Integers, FiniteSets

CONSTANTS
    Admins,     \* operations at once
    Roles       \* business roles, which are realm roles too

ASSUME AccountsAssumption == IsFiniteSet(Roles)

VARIABLES
    profile,    \* the row of the e-mail (unique, deleted or not)
    realm,      \* the account of the e-mail in the realm
    calls,      \* calls[a]: what operation a is doing
    broken,     \* an operation failed or died after its first write
    crossed     \* two operations ran at the same time

accountVars == <<profile, realm, calls, broken, crossed>>

NoCall == [pc |-> "idle"]
NoRow == [state |-> "none", active |-> FALSE, role |-> {}, bound |-> FALSE]
CallSteps == {"insert", "provision", "password", "account", "bind", "undo",
           "subject", "roles", "remove", "add", "switch", "enable"}

AccountTypeOK ==
    /\ profile \in [state: {"none", "live", "deleted"}, active: BOOLEAN, role: SUBSET Roles, bound: BOOLEAN]
    /\ profile.state # "none" <=> Cardinality(profile.role) = 1
    /\ realm \in [exists: BOOLEAN, enabled: BOOLEAN, roles: SUBSET Roles]
    /\ profile.bound => realm.exists
    /\ calls \in [Admins -> {NoCall} \cup
         [pc: CallSteps, op: {"create", "update", "activate", "deactivate"}, role: SUBSET Roles,
          drop: SUBSET Roles, grant: SUBSET Roles]]
    /\ broken \in BOOLEAN /\ crossed \in BOOLEAN

AccountInit ==
    /\ profile = NoRow
    /\ realm = [exists |-> FALSE, enabled |-> FALSE, roles |-> {}]
    /\ calls = [a \in Admins |-> NoCall]
    /\ broken = FALSE /\ crossed = FALSE

-----------------------------------------------------------------------------

Op(a) == calls[a].op
Reached(a, pc) == calls[a].pc = pc
Advance(a, pc) == calls' = [calls EXCEPT ![a].pc = pc]
Finish(a) == calls' = [calls EXCEPT ![a] = NoCall]
(* An error of Keycloak: a creation is undone, another operation just ends.  *)
GiveUp(a) ==
    IF Op(a) = "create" THEN Advance(a, "undo") /\ UNCHANGED broken ELSE Finish(a) /\ broken' = TRUE
(* adminFetch succeeds, or fails: refused, or timed out after its effect.    *)
OrGiveUp(a, effect, success) ==
    \/ effect /\ success /\ UNCHANGED broken
    \/ (effect \/ UNCHANGED realm) /\ GiveUp(a)

BeginCall(a, op, pc, role) ==
    /\ calls[a] = NoCall
    /\ calls' = [calls EXCEPT ![a] = [pc |-> pc, op |-> op, role |-> role, drop |-> {}, grant |-> {}]]
    /\ crossed' = (crossed \/ \E b \in Admins : calls[b] # NoCall)
    /\ UNCHANGED <<realm, broken>>

(* create: no live row has the e-mail.                                       *)
StartCreate(a, r) == profile.state # "live" /\ BeginCall(a, "create", "insert", {r}) /\ UNCHANGED profile

(* The index on the e-mail also counts the deleted rows.                     *)
InsertUser(a) ==
    /\ Reached(a, "insert")
    /\ IF profile.state = "none"
       THEN /\ profile' = [state |-> "live", active |-> TRUE, role |-> calls[a].role, bound |-> FALSE]
            /\ Advance(a, "provision")
       ELSE Finish(a) /\ UNCHANGED profile
    /\ UNCHANGED <<realm, broken, crossed>>

CreateRealmUser(a) ==
    /\ Reached(a, "provision")
    /\ OrGiveUp(a, ~realm.exists /\ realm' = [exists |-> TRUE, enabled |-> TRUE, roles |-> {}],
                Advance(a, "password"))
    /\ UNCHANGED <<profile, crossed>>

ResetPassword(a) ==
    /\ Reached(a, "password")
    /\ OrGiveUp(a, UNCHANGED realm, Advance(a, "roles"))
    /\ UNCHANGED <<profile, crossed>>

EnsureAccountRoles(a) ==
    /\ Reached(a, "account")
    /\ OrGiveUp(a, UNCHANGED realm, Advance(a, "bind"))
    /\ UNCHANGED <<profile, crossed>>

BindSubject(a) ==
    /\ Reached(a, "bind")
    /\ \/ profile' = [profile EXCEPT !.bound = TRUE] /\ Finish(a) /\ UNCHANGED broken
       \/ GiveUp(a) /\ UNCHANGED profile
    /\ UNCHANGED <<realm, crossed>>

MutUndoCreate(a) ==
    /\ Reached(a, "undo") /\ Finish(a)
    /\ UNCHANGED <<profile, realm, broken, crossed>>

(* The row is deleted; the account of the realm, if it was made, stays.      *)
UndoCreate(a) ==
    /\ Reached(a, "undo") /\ Finish(a)
    /\ \/ profile' = [profile EXCEPT !.state = "deleted"] /\ UNCHANGED broken
       \/ broken' = TRUE /\ UNCHANGED profile
    /\ UNCHANGED <<realm, crossed>>

-----------------------------------------------------------------------------

(* update: the role of the row, then the one of the realm.                   *)
UpdateRole(a, r) ==
    /\ profile.state = "live" /\ profile' = [profile EXCEPT !.role = {r}]
    /\ BeginCall(a, "update", "subject", {r})

(* deactivate and activate: refused when already done.                       *)
StartSwitch(a, op) ==
    /\ profile.state = "live" /\ profile.active = (op = "deactivate")
    /\ BeginCall(a, op, "switch", {}) /\ UNCHANGED profile

WriteActive(a) ==
    /\ Reached(a, "switch")
    /\ profile' = [profile EXCEPT !.active = Op(a) = "activate"]
    /\ Advance(a, "subject")
    /\ UNCHANGED <<realm, broken, crossed>>

(* A profile without subject has nothing to synchronise.                     *)
FindSubject(a) ==
    /\ Reached(a, "subject")
    /\ IF profile.state = "live" /\ profile.bound
       THEN Advance(a, IF Op(a) = "update" THEN "roles" ELSE "enable")
       ELSE Finish(a)
    /\ UNCHANGED <<profile, realm, broken, crossed>>

SetEnabled(a) ==
    /\ Reached(a, "enable")
    /\ OrGiveUp(a, realm' = [realm EXCEPT !.enabled = Op(a) = "activate"], Finish(a))
    /\ UNCHANGED <<profile, crossed>>

(* syncRealmRoles: the roles are read, then those to drop are dropped, then  *)
(* the wanted one is granted: three requests.                                *)
ReadRoles(a) ==
    /\ Reached(a, "roles")
    /\ \/ /\ calls' = [calls EXCEPT ![a].pc = "remove", ![a].drop = realm.roles \ calls[a].role,
                                    ![a].grant = calls[a].role \ realm.roles]
          /\ UNCHANGED broken
       \/ GiveUp(a)
    /\ UNCHANGED <<profile, realm, crossed>>

RemoveRoles(a) ==
    /\ Reached(a, "remove")
    /\ OrGiveUp(a, realm' = [realm EXCEPT !.roles = @ \ calls[a].drop], Advance(a, "add"))
    /\ UNCHANGED <<profile, crossed>>

AddRoles(a) ==
    /\ Reached(a, "add")
    /\ OrGiveUp(a, realm' = [realm EXCEPT !.roles = @ \cup calls[a].grant],
                IF Op(a) = "create" THEN Advance(a, "account") ELSE Finish(a))
    /\ UNCHANGED <<profile, crossed>>

KillCall(a) ==
    /\ calls[a] # NoCall /\ Finish(a)
    /\ broken' = TRUE
    /\ UNCHANGED <<profile, realm, crossed>>

(* validateKeycloak, with a token of an enabled account: the profile without *)
(* subject is bound by its e-mail.                                           *)
SignIn ==
    /\ realm.enabled /\ profile.state = "live" /\ ~profile.bound
    /\ profile' = [profile EXCEPT !.bound = TRUE]
    /\ UNCHANGED <<realm, calls, broken, crossed>>

AccountNext ==
    \/ \E a \in Admins, r \in Roles : StartCreate(a, r) \/ UpdateRole(a, r)
    \/ \E a \in Admins : InsertUser(a) \/ CreateRealmUser(a) \/ ResetPassword(a) \/ EnsureAccountRoles(a)
    \/ \E a \in Admins : BindSubject(a) \/ UndoCreate(a) \/ FindSubject(a) \/ SetEnabled(a) \/ WriteActive(a)
    \/ \E a \in Admins, op \in {"activate", "deactivate"} : StartSwitch(a, op)
    \/ \E a \in Admins : ReadRoles(a) \/ RemoveRoles(a) \/ AddRoles(a) \/ KillCall(a)
    \/ SignIn

AccountSpec == AccountInit /\ [][AccountNext]_accountVars

-----------------------------------------------------------------------------

Calm == ~broken /\ ~crossed /\ \A a \in Admins : calls[a] = NoCall

(* The roles a token of the account is worth: those of the realm come first. *)
EntryRoles == IF realm.roles # {} THEN realm.roles ELSE profile.role

(* Between operations, what Keycloak grants is what the row says: who may    *)
(* sign in, and as what; unless a call failed or two operations crossed.     *)
RealmFollowsRow ==
    Calm /\ profile.state = "live" => realm.enabled = profile.active /\ EntryRoles = profile.role

(* However calls fail or die, an account never collects the rights of two    *)
(* roles, unless two operations crossed.                                     *)
AtMostOneRole == ~crossed => Cardinality(realm.roles) <= 1

(* A live profile has its account: a creation that fails half-way leaves no  *)
(* row to sign in with, unless the process died or the undoing failed.       *)
LiveIsProvisioned ==
    profile.state = "live" /\ ~broken /\ (\A a \in Admins : calls[a] = NoCall) => profile.bound
=============================================================================
