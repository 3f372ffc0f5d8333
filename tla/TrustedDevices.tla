---------------------------- MODULE TrustedDevices ----------------------------
(* The trusted devices and sessions of one requester (trusted-device,        *)
(* public-session and bootstrap-grant services, the guards and controllers   *)
(* that call them).  A device is never renewed in     *)
(* place: restoring a session revokes its row and inserts a successor.       *)
EXTENDS Integers, Sequences

CONSTANTS
    Clients,       \* calls that can run at once
    MaxDevices,    \* bound on the rows of trusted_devices
    MaxGrants,     \* bound on the transfer codes
    Days,          \* trustedDeviceDays
    Window,        \* renewalWindowDays
    Horizon        \* bound on the clock

ASSUME DevicesAssumption ==
    /\ {MaxDevices, MaxGrants, Days, Window, Horizon} \subseteq Nat
    /\ Window < Days

VARIABLES
    now,
    policy,       \* the integration: ACTIVE or not, the policyVersion of its trustPolicy
    devices,      \* the rows of trusted_devices; chain is the first of their line
    grants,       \* the rows of public_bootstrap_grants
    clients,      \* what each call is doing
    ended         \* the lines of devices that a revocation has ended

devVars == <<now, policy, devices, grants, clients, ended>>

NotCalled == [op |-> "none"]
DeviceIds == 1 .. MaxDevices
Times == 0 .. Horizon + Days

DevTypeOK ==
    /\ now \in 0 .. Horizon /\ policy \in [active: BOOLEAN, version: 1 .. 2]
    /\ devices \in Seq([version: 1 .. 2, expires: Times, revoked: BOOLEAN, chain: DeviceIds])
    /\ Len(devices) <= MaxDevices
    /\ \A d \in DOMAIN devices : devices[d].chain <= d /\ devices[d].expires <= now + Days
    /\ grants \in Seq([device: DeviceIds, used: BOOLEAN, expires: Times]) /\ Len(grants) <= MaxGrants
    /\ clients \in [Clients -> {NotCalled}
         \cup [op: {"rotate", "revoke", "grant"}, device: DeviceIds]
         \cup [op: {"swap"}, device: DeviceIds, expires: Times, version: 1 .. 2]
         \cup [op: {"issue"}, version: 1 .. 2]]
    /\ ended \subseteq DeviceIds

DevInit ==
    /\ now = 0 /\ policy = [active |-> TRUE, version |-> 1]
    /\ devices = <<>> /\ grants = <<>> /\ ended = {}
    /\ clients = [c \in Clients |-> NotCalled]

Do(c, call) == clients' = [clients EXCEPT ![c] = call]

(* The row passes the checks of the guards and of rotate: not revoked, not   *)
(* expired, of the current policy, of an active integration.                 *)
Trusted(d) ==
    /\ policy.active /\ devices[d].version = policy.version
    /\ ~devices[d].revoked /\ devices[d].expires > now

-----------------------------------------------------------------------------

(* openSession, after a verified contact or an accepted assertion: the       *)
(* policy is read, then the device is inserted.                              *)
Open(c) ==
    /\ clients[c] = NotCalled /\ policy.active
    /\ Do(c, [op |-> "issue", version |-> policy.version])
    /\ UNCHANGED <<now, policy, devices, grants, ended>>

InsertDevice(c) ==
    /\ clients[c].op = "issue" /\ Len(devices) < MaxDevices
    /\ devices' = Append(devices, [version |-> clients[c].version, expires |-> now + Days,
                                   revoked |-> FALSE, chain |-> Len(devices) + 1])
    /\ Do(c, NotCalled)
    /\ UNCHANGED <<now, policy, grants, ended>>

(* A call made with a device: the guards check it first.                     *)
Call(c, op, d) ==
    /\ clients[c] = NotCalled /\ Trusted(d)
    /\ Do(c, [op |-> op, device |-> d])
    /\ UNCHANGED <<now, policy, devices, grants, ended>>

(* rotate reads the device.                                                  *)
Renewed(d) == IF devices[d].expires <= now + Window THEN now + Days ELSE devices[d].expires

RotateRead(c) ==
    LET d == clients[c].device IN
    /\ clients[c].op = "rotate"
    /\ Do(c, IF Trusted(d)
             THEN [op |-> "swap", device |-> d,
                   expires |-> Renewed(d), version |-> policy.version]
             ELSE NotCalled)
    /\ UNCHANGED <<now, policy, devices, grants, ended>>

Successor(c) == [version |-> clients[c].version, expires |-> clients[c].expires, revoked |-> FALSE,
                 chain |-> devices[clients[c].device].chain]

MutRotateCommit(c) ==
    LET d == clients[c].device IN
    /\ clients[c].op = "swap" /\ Do(c, NotCalled) /\ Len(devices) < MaxDevices
    /\ devices' = Append([devices EXCEPT ![d].revoked = TRUE], Successor(c))
    /\ UNCHANGED <<now, policy, grants, ended>>

(* The row is revoked where it is not yet, and its successor inserted, in    *)
(* the same transaction.                                                     *)
RotateCommit(c) ==
    LET d == clients[c].device IN
    /\ clients[c].op = "swap" /\ Do(c, NotCalled)
    /\ IF devices[d].revoked
       THEN UNCHANGED devices
       ELSE /\ Len(devices) < MaxDevices
            /\ devices' = Append([devices EXCEPT ![d].revoked = TRUE], Successor(c))
    /\ UNCHANGED <<now, policy, grants, ended>>

(* revoke and revokeScoped: the row is revoked where it is not yet.          *)
Revoke(c) ==
    LET d == clients[c].device IN
    /\ clients[c].op = "revoke" /\ Do(c, NotCalled)
    /\ devices' = [devices EXCEPT ![d].revoked = TRUE]
    /\ ended' = IF devices[d].revoked THEN ended ELSE ended \cup {devices[d].chain}
    /\ UNCHANGED <<now, policy, grants>>

-----------------------------------------------------------------------------
(* Transfer codes: issued for the device of a session, consumed without one. *)

IssueGrant(c) ==
    /\ clients[c].op = "grant" /\ Do(c, NotCalled) /\ Len(grants) < MaxGrants
    /\ grants' = Append(grants, [device |-> clients[c].device, used |-> FALSE, expires |-> now + 1])
    /\ UNCHANGED <<now, policy, devices, ended>>

(* The code is consumed, whatever the rotation of its device then gives.     *)
ConsumeGrant(c, g) ==
    /\ clients[c] = NotCalled /\ ~grants[g].used /\ grants[g].expires > now
    /\ grants' = [grants EXCEPT ![g].used = TRUE]
    /\ Do(c, [op |-> "rotate", device |-> grants[g].device])
    /\ UNCHANGED <<now, policy, devices, ended>>

-----------------------------------------------------------------------------

(* An administrator suspends or reactivates the integration, or raises its   *)
(* policy version.                                                           *)
ChangePolicy ==
    /\ \/ policy' = [policy EXCEPT !.active = ~@]
       \/ policy.version = 1 /\ policy' = [policy EXCEPT !.version = 2]
    /\ UNCHANGED <<now, devices, grants, clients, ended>>

DevTick ==
    /\ now < Horizon /\ now' = now + 1
    /\ UNCHANGED <<policy, devices, grants, clients, ended>>

DevNext ==
    \/ \E c \in Clients : Open(c) \/ InsertDevice(c) \/ RotateRead(c) \/ RotateCommit(c) \/ Revoke(c)
    \/ \E c \in Clients, d \in DOMAIN devices, op \in {"rotate", "revoke", "grant"} : Call(c, op, d)
    \/ \E c \in Clients : IssueGrant(c)
    \/ \E c \in Clients, g \in DOMAIN grants : ConsumeGrant(c, g)
    \/ ChangePolicy \/ DevTick

DevSpec == DevInit /\ [][DevNext]_devVars

-----------------------------------------------------------------------------

(* A revocation that reached its row ends the line of the device: no restore *)
(* or transfer that ran at the same time leaves a successor alive.           *)
RevocationEndsLine ==
    \A d \in DOMAIN devices : devices[d].chain \in ended => devices[d].revoked

(* Restores and transfers at the same time leave one live device in a line.  *)
OneLivePerLine ==
    \A d, e \in DOMAIN devices :
      devices[d].chain = devices[e].chain /\ ~devices[d].revoked /\ ~devices[e].revoked => d = e
=============================================================================
