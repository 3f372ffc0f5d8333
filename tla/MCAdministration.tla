--------------------------- MODULE MCAdministration ---------------------------
(* What administrators, supervisors and operators do and are told, and the   *)
(* assistant, each component alone: focus chooses which.                     *)
EXTENDS Accounts, RealmEvents, Requesters, Integrations, Knowledge, SupportBot, Dashboard, Migrations,
        SlaAlerts, TLC

CONSTANTS i1, i2, g1, r1, r2, c1, c2, c3

VARIABLE focus

Instances == {i1, i2}      \* what runs at once

(* The first response is due at once and its breach may be reminded of; the  *)
(* resolution is due when its warning is.                                    *)
DueDates == [t \in Targets |-> IF t = "RESOLUTION" THEN 2 ELSE 0]

BlankTicket == [team |-> g1, department |-> g1, agent |-> Free, status |-> "OPEN", critical |-> FALSE,
                breached |-> FALSE, due |-> "later", recent |-> TRUE, deleted |-> FALSE]

vars == <<focus, accountVars, copyVars, reqVars, integrationVars, knowledgeVars, botVars, dashVars, migrationVars, alertVars>>

Init ==
    /\ focus \in {"accounts", "realm", "requesters", "integrations", "knowledge", "bot", "dashboard", "migrations", "alerts"}
    /\ focus # "dashboard" => /\ scope = Everything /\ followed = {<<"support", "tickets">>, <<"support", "byChannel">>}
                              /\ rows = [t \in Tickets |-> BlankTicket]
    /\ focus # "migrations" => applied = 0 /\ journal = 0
    /\ AccountInit /\ RealmEventsInit /\ RequestersInit /\ IntegrationsInit
    /\ KnowledgeInit /\ BotInit /\ DashInit /\ MigrationsInit /\ AlertInit
    /\ focus = "dashboard" => scope # r1      \* the two teams are alike

Next ==
    \/ focus = "accounts" /\ AccountNext
         /\ UNCHANGED <<focus, copyVars, reqVars, integrationVars, knowledgeVars, botVars, dashVars, migrationVars, alertVars>>
    \/ focus = "realm" /\ CopyNext
         /\ UNCHANGED <<focus, accountVars, reqVars, integrationVars, knowledgeVars, botVars, dashVars, migrationVars, alertVars>>
    \/ focus = "requesters" /\ RequestersNext
         /\ UNCHANGED <<focus, accountVars, copyVars, integrationVars, knowledgeVars, botVars, dashVars, migrationVars, alertVars>>
    \/ focus = "integrations" /\ IntegrationsNext
         /\ UNCHANGED <<focus, accountVars, copyVars, reqVars, knowledgeVars, botVars, dashVars, migrationVars, alertVars>>
    \/ focus = "knowledge" /\ KnowledgeNext
         /\ UNCHANGED <<focus, accountVars, copyVars, reqVars, integrationVars, botVars, dashVars, migrationVars, alertVars>>
    \/ focus = "bot" /\ BotNext
         /\ UNCHANGED <<focus, accountVars, copyVars, reqVars, integrationVars, knowledgeVars, dashVars, migrationVars, alertVars>>
    \/ focus = "dashboard" /\ DashNext
         /\ UNCHANGED <<focus, accountVars, copyVars, reqVars, integrationVars, knowledgeVars, botVars, migrationVars, alertVars>>
    \/ focus = "migrations" /\ MigrationsNext
         /\ UNCHANGED <<focus, accountVars, copyVars, reqVars, integrationVars, knowledgeVars, botVars, dashVars, alertVars>>
    \/ focus = "alerts" /\ AlertNext
         /\ UNCHANGED <<focus, accountVars, copyVars, reqVars, integrationVars, knowledgeVars, botVars, dashVars, migrationVars>>

Spec == Init /\ [][Next]_vars

Symmetry == Permutations(Instances) \cup Permutations({c1, c2})

(* All states of each component have their types.                            *)
AdministrationTypesOK ==
    /\ AccountTypeOK /\ RealmEventsTypeOK /\ RequestersTypeOK /\ IntegrationsTypeOK
    /\ KnowledgeTypeOK /\ BotTypeOK /\ DashTypeOK /\ MigrationsTypeOK /\ AlertTypeOK

(* Between operations Keycloak grants what the row of an account says, and   *)
(* never two roles; its events are copied once, all but those of a burst.    *)
AccountsFollow ==
    RealmFollowsRow /\ AtMostOneRole /\ LiveIsProvisioned /\ CopiedOnce /\ OnlyBurstsAreMissed

(* A merge leaves nothing behind, an anonymisation only the address in the   *)
(* VERIFIED challenges; no contact is split over two profiles, and who has an*)
(* open ticket is spared, unless operations on a profile crossed.            *)
ProfilesHold == AnonymisedKeepsOnlyChallenges /\ MergedKeepsNothing /\ OneProfilePerContact /\ RetentionSparesOpen

(* What a site of the public gets: secrets good for their grace and no site  *)
(* active against a suspension, but for edits that read the status before    *)
(* it; articles in the text and state last asked for, but for what stale     *)
(* saves put back, and nothing that is not in their history; answers within  *)
(* the budget and the circuit, but for calls under way at once.              *)
SitesAreServed ==
    /\ GraceHolds /\ ActiveHadSecret /\ SuspensionHolds
    /\ LatestIsShown /\ StateAsAsked /\ ServedIsInHistory
    /\ CallsBounded /\ CircuitHolds /\ LateAnswersBounded

(* The figures of a page agree up to the changes made while it was read, and *)
(* count nothing outside the reader's scope, but on the pages that have none *)
(* and but for the reopenings of agents.                                     *)
PagesAgree == FiguresAgree /\ ScopeHolds /\ OneLinePerAgent

(* However deployments overlap and die, the journal of migrations says no    *)
(* more than the schema and the data have, and what it lacks may run again,  *)
(* but for databases baselined at 0010 to 0019.                              *)
DatabaseStaysMigratable == JournalWithinSchema /\ NothingLeftBehind /\ StaysMigratable

(* Alerts of a target are neither lost, nor repeated sooner than agreed, nor *)
(* forgotten by the flag that the rest of the program reads.                 *)
AlertsHold == MarkImpliesFlag /\ AlertsPaced /\ MarkedWasAnnounced
===============================================================================
