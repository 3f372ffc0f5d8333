------------------------------ MODULE Requesters ------------------------------
(* The profiles of the public requesters of one integration, from the first  *)
(* verified contact to merge and anonymisation (external-requesters-admin,   *)
(* retention-cleanup, external-identity-store and wordpress-identity-store   *)
(* services).  Each operation reads a profile, then writes in a transaction; *)
(* what happens in between is not read again.                                *)
EXTENDS Integers, FiniteSets

CONSTANTS
    MaxProfiles,  \* bound on the rows of external_requesters
    Contacts,     \* contacts that can be verified
    SiteContacts, \* those of them a site vouches for (WORDPRESS); the others are EMAIL
    Tasks,        \* operations at once
    TicketNos     \* bound on the tickets

Profiles == 1 .. MaxProfiles
NoOne == 0
Erased == "erased"     \* a placeholder in the place of a contact

ASSUME RequestersAssumption == MaxProfiles \in Nat /\ Erased \notin Contacts /\ SiteContacts \subseteq Contacts /\ IsFiniteSet(TicketNos)

VARIABLES
    profiles,     \* profiles[p]: used, anonymised, merged, stale (lastSeenAt is past the cutoff)
    contactRows,  \* contactRows[r]: the row made with profile r: contact, owner, whether it holds personal data
                  \* and is of the type of the sites
    withDevice,   \* profiles with a device that is not revoked
    verified,     \* profiles with a VERIFIED challenge, which keeps the e-mail address (sealed, and its hash)
    owned,        \* owned[n]: the owner of ticket n, and whether it is open
    tasks,        \* tasks[k]: what an operation is doing
    raced,        \* two operations held a profile at the same time
    blunders      \* the retention anonymised the holder of an "open ticket"; a merge had a "merged target"

reqVars == <<profiles, contactRows, withDevice, verified, owned, tasks, raced, blunders>>

NoTask == [pc |-> "idle"]
Unused == [used |-> FALSE, anonymised |-> FALSE, merged |-> FALSE, stale |-> FALSE]
NoIdentity == [contact |-> Erased, owner |-> NoOne, personal |-> FALSE, site |-> FALSE]
NoTicket == [owner |-> NoOne, open |-> FALSE]

RequestersTypeOK ==
    /\ profiles \in [Profiles -> [used: BOOLEAN, anonymised: BOOLEAN, merged: BOOLEAN, stale: BOOLEAN]]
    /\ contactRows \in [Profiles -> {NoIdentity} \cup [contact: Contacts \cup {Erased}, owner: Profiles, personal: BOOLEAN, site: BOOLEAN]]
    /\ \A r \in Profiles : profiles[r].used <=> contactRows[r] # NoIdentity
    /\ \A r, q \in Profiles : contactRows[r] = contactRows[q] /\ contactRows[r].contact # Erased => r = q
    /\ withDevice \subseteq {p \in Profiles : profiles[p].used} /\ verified \subseteq Profiles
    /\ owned \in [TicketNos -> {NoTicket} \cup [owner: Profiles, open: BOOLEAN]]
    /\ tasks \in [Tasks -> {NoTask}
          \cup [pc: {"create"}, contact: Contacts]
          \cup [pc: {"renew"}, row: Profiles, owner: Profiles]
          \cup [pc: {"open", "check", "reread", "erase"}, profile: Profiles, cron: BOOLEAN]
          \cup [pc: {"merge", "rest"}, source: Profiles, target: Profiles, took: SUBSET TicketNos]]
    /\ raced \in BOOLEAN /\ blunders \subseteq {"open ticket", "merged target"}

RequestersInit ==
    /\ profiles = [p \in Profiles |-> Unused]
    /\ contactRows = [r \in Profiles |-> NoIdentity] /\ withDevice = {} /\ verified = {}
    /\ owned = [n \in TicketNos |-> NoTicket]
    /\ tasks = [k \in Tasks |-> NoTask]
    /\ raced = FALSE /\ blunders = {}

(* The profiles an operation has read and will write, or refer to.           *)
Holds(task) ==
    CASE task.pc \in {"merge", "rest"} -> {task.source, task.target}
      [] task.pc = "renew" -> {task.owner}
      [] task.pc \in {"open", "check", "reread", "erase"} -> {task.profile}
      [] OTHER -> {}
Hold(k, task) ==
    /\ tasks[k] = NoTask /\ tasks' = [tasks EXCEPT ![k] = task]
    /\ raced' = (raced \/ \E j \in Tasks : Holds(tasks[j]) \cap Holds(task) # {})
Release(k) == tasks' = [tasks EXCEPT ![k] = NoTask]
NextRow(p) == profiles[p] = Unused /\ \A q \in 1 .. p - 1 : profiles[q] # Unused
OpenTickets(p) == {n \in TicketNos : owned[n].owner = p /\ owned[n].open}

-----------------------------------------------------------------------------
(* The requester.                                                            *)

(* upsertIdentity: the row of the contact, by its hash.                      *)
FindContact(k, c) ==
    /\ \/ \E r \in Profiles :
            contactRows[r].contact = c /\ Hold(k, [pc |-> "renew", row |-> r, owner |-> contactRows[r].owner])
       \/ /\ \A r \in Profiles : contactRows[r].contact # c
          /\ \E p \in Profiles : profiles[p] = Unused     \* MaxProfiles: no call is left waiting for a row
          /\ Hold(k, [pc |-> "create", contact |-> c])
    /\ UNCHANGED <<profiles, contactRows, withDevice, verified, owned, blunders>>

(* A code sent to an address makes its challenge VERIFIED, of the profile;   *)
(* a login from the site has none.                                           *)
FromSite(c) == c \in SiteContacts
Proves(p, site) == verified' = IF site THEN verified ELSE verified \cup {p}

(* A new profile; the unique index refuses a second row of the contact.      *)
CreateProfile(k, p) ==
    /\ tasks[k].pc = "create" /\ NextRow(p) /\ Release(k)
    /\ IF \E r \in Profiles : contactRows[r].contact = tasks[k].contact
       THEN UNCHANGED <<profiles, contactRows, withDevice, verified>>
       ELSE /\ profiles' = [profiles EXCEPT ![p] = [Unused EXCEPT !.used = TRUE]]
            /\ contactRows' = [contactRows EXCEPT ![p] = [contact |-> tasks[k].contact, owner |-> p, personal |-> TRUE,
                                                        site |-> FromSite(tasks[k].contact)]]
            /\ withDevice' = withDevice \cup {p} /\ Proves(p, FromSite(tasks[k].contact))
    /\ UNCHANGED <<owned, raced, blunders>>

(* The row that was read is written by its identifier, and a device trusted  *)
(* for the owner that was read.  The row may have been erased, or moved, in  *)
(* between.  Only a login from the site touches lastSeenAt.                  *)
RenewIdentity(k) ==
    LET p == tasks[k].owner  site == contactRows[tasks[k].row].site IN
    /\ tasks[k].pc = "renew" /\ Release(k)
    /\ contactRows' = [contactRows EXCEPT ![tasks[k].row].personal = TRUE]
    /\ withDevice' = withDevice \cup {p} /\ Proves(p, site)
    /\ profiles' = [profiles EXCEPT ![p].stale = @ /\ ~site]
    /\ UNCHANGED <<owned, raced, blunders>>

(* A session is a device of a profile that is not anonymised.                *)
Session(p) == p \in withDevice /\ ~profiles[p].anonymised

BeginTicket(k, p) ==
    /\ Session(p) /\ \E n \in TicketNos : owned[n] = NoTicket
    /\ Hold(k, [pc |-> "open", profile |-> p, cron |-> FALSE])
    /\ UNCHANGED <<profiles, contactRows, withDevice, verified, owned, blunders>>

OpenTicket(k, n) ==
    /\ tasks[k].pc = "open" /\ owned[n] = NoTicket /\ Release(k)
    /\ owned' = [owned EXCEPT ![n] = [owner |-> tasks[k].profile, open |-> TRUE]]
    /\ UNCHANGED <<profiles, contactRows, withDevice, verified, raced, blunders>>

CloseTicket(n) ==
    /\ owned[n].open /\ owned' = [owned EXCEPT ![n].open = FALSE]
    /\ UNCHANGED <<profiles, contactRows, withDevice, verified, tasks, raced, blunders>>

(* Preferences touch lastSeenAt.                                             *)
UpdatePreferences(p) ==
    /\ Session(p)
    /\ profiles' = [profiles EXCEPT ![p].stale = FALSE]
    /\ UNCHANGED <<contactRows, withDevice, verified, owned, tasks, raced, blunders>>

(* The retention period passes without a visit that is written down: of no   *)
(* consequence once the profile is anonymised.                               *)
Absent(p) ==
    /\ profiles[p].used /\ ~profiles[p].anonymised /\ \A k \in Tasks : tasks[k] = NoTask
    /\ profiles' = [profiles EXCEPT ![p].stale = TRUE]
    /\ UNCHANGED <<contactRows, withDevice, verified, owned, tasks, raced, blunders>>

-----------------------------------------------------------------------------
(* merge.                                                                    *)

CheckMerge(k, s, t) ==
    /\ s # t /\ profiles[s].used /\ profiles[t].used
    /\ ~profiles[s].anonymised /\ ~profiles[t].anonymised
    /\ Hold(k, [pc |-> "merge", source |-> s, target |-> t, took |-> {}])
    /\ UNCHANGED <<profiles, contactRows, withDevice, verified, owned, blunders>>

(* The first statement of the transaction: the tickets there are now.        *)
TakeTickets(k) ==
    LET s == tasks[k].source IN
    /\ tasks[k].pc = "merge"
    /\ tasks' = [tasks EXCEPT ![k].pc = "rest", ![k].took = {n \in TicketNos : owned[n].owner = s}]
    /\ UNCHANGED <<profiles, contactRows, withDevice, verified, owned, raced, blunders>>

(* Identities are found by their owner; two of one contact cannot exist, so  *)
(* no collision is ever removed.                                             *)
Moved(k) ==
    LET s == tasks[k].source  t == tasks[k].target IN
    /\ contactRows' = [r \in Profiles |-> IF contactRows[r].owner = s THEN [contactRows[r] EXCEPT !.owner = t] ELSE contactRows[r]]
    /\ withDevice' = IF s \in withDevice THEN (withDevice \ {s}) \cup {t} ELSE withDevice
    /\ verified' = IF s \in verified THEN (verified \ {s}) \cup {t} ELSE verified

(* The rest and the commit, or a rollback: always a rollback when a device   *)
(* of the source had a transfer code, which refers to device and requester   *)
(* together, as moving the device first breaks that foreign key.             *)
CommitMerge(k) ==
    LET s == tasks[k].source  t == tasks[k].target IN
    /\ tasks[k].pc = "rest" /\ Release(k)
    /\ \/ UNCHANGED <<profiles, contactRows, withDevice, verified, owned, blunders>>
       \/ /\ Moved(k)
          /\ owned' = [n \in TicketNos |-> IF n \in tasks[k].took THEN [owned[n] EXCEPT !.owner = t] ELSE owned[n]]
          /\ profiles' = [profiles EXCEPT ![s].merged = TRUE]
          /\ blunders' = blunders \cup (IF profiles[t].merged THEN {"merged target"} ELSE {})
    /\ UNCHANGED raced

-----------------------------------------------------------------------------
(* anonymise, by an administrator or by the retention of the night.          *)

(* One already anonymised is left as it is.                                  *)
RequireRequester(k, p) ==
    /\ profiles[p].used /\ ~profiles[p].anonymised
    /\ Hold(k, [pc |-> "erase", profile |-> p, cron |-> FALSE])
    /\ UNCHANGED <<profiles, contactRows, withDevice, verified, owned, blunders>>

ListInactive(k, p) ==
    /\ profiles[p].stale /\ ~profiles[p].anonymised
    /\ Hold(k, [pc |-> "check", profile |-> p, cron |-> TRUE])
    /\ UNCHANGED <<profiles, contactRows, withDevice, verified, owned, blunders>>

MutSpareOpen(k) ==
    /\ tasks[k].pc = "check"
    /\ tasks' = [tasks EXCEPT ![k].pc = "reread"]
    /\ UNCHANGED <<profiles, contactRows, withDevice, verified, owned, raced, blunders>>

SpareOpen(k) ==
    /\ tasks[k].pc = "check"
    /\ IF OpenTickets(tasks[k].profile) # {} THEN Release(k) ELSE tasks' = [tasks EXCEPT ![k].pc = "reread"]
    /\ UNCHANGED <<profiles, contactRows, withDevice, verified, owned, raced, blunders>>

RereadRequester(k) ==
    /\ tasks[k].pc = "reread"
    /\ IF profiles[tasks[k].profile].anonymised THEN Release(k) ELSE tasks' = [tasks EXCEPT ![k].pc = "erase"]
    /\ UNCHANGED <<profiles, contactRows, withDevice, verified, owned, raced, blunders>>

(* All the identities of the profile get one placeholder, and its devices    *)
(* are revoked. Of its challenges only those still PENDING would be expired: *)
(* they have no profile yet, and the VERIFIED ones keep the address.         *)
Wiped(p) ==
    /\ contactRows' = [r \in Profiles |-> IF contactRows[r].owner = p
                                      THEN [contactRows[r] EXCEPT !.contact = Erased, !.personal = FALSE] ELSE contactRows[r]]
    /\ withDevice' = withDevice \ {p}

(* The unique index refuses that placeholder twice for one type: a profile   *)
(* with two addresses, or two logins of the site, cannot be anonymised.      *)
TwoOfOneType(p) ==
    \E r, q \in Profiles : /\ r # q /\ contactRows[r].owner = p /\ contactRows[q].owner = p
                          /\ contactRows[r].site = contactRows[q].site

Erase(k) ==
    LET p == tasks[k].profile IN
    /\ tasks[k].pc = "erase" /\ Release(k)
    /\ IF TwoOfOneType(p)
       THEN UNCHANGED <<profiles, contactRows, withDevice, blunders>>
       ELSE /\ Wiped(p)
            /\ profiles' = [profiles EXCEPT ![p].anonymised = TRUE]
            /\ blunders' = IF tasks[k].cron /\ OpenTickets(p) # {} THEN blunders \cup {"open ticket"} ELSE blunders
    /\ UNCHANGED <<verified, owned, raced>>

RequestersNext ==
    \/ \E k \in Tasks, c \in Contacts : FindContact(k, c)
    \/ \E k \in Tasks, p \in Profiles : CreateProfile(k, p) \/ BeginTicket(k, p)
    \/ \E k \in Tasks, n \in TicketNos : OpenTicket(k, n)
    \/ \E n \in TicketNos : CloseTicket(n)
    \/ \E p \in Profiles : UpdatePreferences(p) \/ Absent(p)
    \/ \E k \in Tasks, s, t \in Profiles : CheckMerge(k, s, t)
    \/ \E k \in Tasks : RenewIdentity(k) \/ TakeTickets(k) \/ CommitMerge(k)
    \/ \E k \in Tasks, p \in Profiles : RequireRequester(k, p) \/ ListInactive(k, p)
    \/ \E k \in Tasks : SpareOpen(k) \/ RereadRequester(k) \/ Erase(k)

RequestersSpec == RequestersInit /\ [][RequestersNext]_reqVars

-----------------------------------------------------------------------------

Remains(p) ==
    {x \in {"identity", "device", "challenge"} :
        \/ x = "identity" /\ \E r \in Profiles : contactRows[r].owner = p /\ contactRows[r].personal
        \/ x = "device" /\ p \in withDevice
        \/ x = "challenge" /\ p \in verified}

(* All that is left of the contacts of an anonymised profile is the address  *)
(* in its VERIFIED challenges, which nothing erases: no identity that can be *)
(* read and no trusted device, unless operations that held the profile       *)
(* overlapped.                                                               *)
AnonymisedKeepsOnlyChallenges ==
    ~raced => \A p \in Profiles : profiles[p].anonymised => Remains(p) \subseteq {"challenge"}

(* Nothing is left to a merged profile, nor comes back to it: the next visit *)
(* of either contact lands on the target.  (A merge may name a target that   *)
(* was merged itself: nothing refuses it.)                                   *)
MergedKeepsNothing ==
    ~raced /\ "merged target" \notin blunders => \A p \in Profiles : profiles[p].merged =>
                  /\ p \notin withDevice /\ p \notin verified
                  /\ \A r \in Profiles : contactRows[r].owner # p
                  /\ \A n \in TicketNos : owned[n].owner # p

(* A verified contact leads to one profile, even when two verifications of   *)
(* it find it unknown at the same time.                                      *)
OneProfilePerContact ==
    \A r, q \in Profiles :
        contactRows[r].contact = contactRows[q].contact /\ contactRows[r].contact # Erased => contactRows[r].owner = contactRows[q].owner

(* The retention spares a requester with an open ticket, unless the ticket   *)
(* is being opened while the retention runs.                                 *)
RetentionSparesOpen == "open ticket" \in blunders => raced
=============================================================================
