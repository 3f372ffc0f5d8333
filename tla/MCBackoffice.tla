----------------------------- MODULE MCBackoffice -----------------------------
(* The workers, crons and shared services behind the API, each component     *)
(* alone: focus chooses which.                                               *)
EXTENDS AttachmentScan, PublicUploads, TicketEvents, Reports,
        Mailing, Presence, Throttler, Collaboration, Catalogue, SettingsCache, SlaCalendar, TLC

CONSTANTS i1, i2, g1, m1, m2, s1, s2

VARIABLE focus

Instances == {i1, i2}      \* what runs at once

vars == <<focus, scanVars, uploadVars, eventVars, reportVars, mailVars, presenceVars, throttleVars, collabVars, catalogueVars, settingsVars, calendarVars>>

Init ==
    /\ focus \in {"scan", "uploads", "events", "reports", "mailing", "presence", "throttler", "collaboration", "catalogue", "settings", "calendar"}
    /\ ScanInit /\ UploadInit /\ EventsInit /\ ReportsInit
    /\ MailingInit /\ PresenceInit /\ ThrottleInit /\ CollabInit /\ CatalogueInit /\ SettingsInit
    /\ CalendarInit
    /\ focus # "mailing" => installed = {}
    /\ focus # "collaboration" => public = TRUE
    /\ focus # "catalogue" => nature = "category"
    /\ focus # "scan" => content = "fine"
    /\ focus # "calendar" => openDays = {0} /\ opens = 0 /\ closes = 1 /\ from = 0 /\ asked = 0

Next ==
    \/ focus = "scan" /\ ScanNext
         /\ UNCHANGED <<focus, uploadVars, eventVars, reportVars, mailVars, presenceVars, throttleVars, collabVars, catalogueVars, settingsVars, calendarVars>>
    \/ focus = "uploads" /\ UploadNext
         /\ UNCHANGED <<focus, scanVars, eventVars, reportVars, mailVars, presenceVars, throttleVars, collabVars, catalogueVars, settingsVars, calendarVars>>
    \/ focus = "events" /\ EventsNext
         /\ UNCHANGED <<focus, scanVars, uploadVars, reportVars, mailVars, presenceVars, throttleVars, collabVars, catalogueVars, settingsVars, calendarVars>>
    \/ focus = "reports" /\ ReportsNext
         /\ UNCHANGED <<focus, scanVars, uploadVars, eventVars, mailVars, presenceVars, throttleVars, collabVars, catalogueVars, settingsVars, calendarVars>>
    \/ focus = "mailing" /\ MailingNext
         /\ UNCHANGED <<focus, scanVars, uploadVars, eventVars, reportVars, presenceVars, throttleVars, collabVars, catalogueVars, settingsVars, calendarVars>>
    \/ focus = "presence" /\ PresenceNext
         /\ UNCHANGED <<focus, scanVars, uploadVars, eventVars, reportVars, mailVars, throttleVars, collabVars, catalogueVars, settingsVars, calendarVars>>
    \/ focus = "throttler" /\ ThrottleNext
         /\ UNCHANGED <<focus, scanVars, uploadVars, eventVars, reportVars, mailVars, presenceVars, collabVars, catalogueVars, settingsVars, calendarVars>>
    \/ focus = "collaboration" /\ CollabNext
         /\ UNCHANGED <<focus, scanVars, uploadVars, eventVars, reportVars, mailVars, presenceVars, throttleVars, catalogueVars, settingsVars, calendarVars>>
    \/ focus = "catalogue" /\ CatalogueNext
         /\ UNCHANGED <<focus, scanVars, uploadVars, eventVars, reportVars, mailVars, presenceVars, throttleVars, collabVars, settingsVars, calendarVars>>
    \/ focus = "settings" /\ SettingsNext
         /\ UNCHANGED <<focus, scanVars, uploadVars, eventVars, reportVars, mailVars, presenceVars, throttleVars, collabVars, catalogueVars, calendarVars>>
    \/ focus = "calendar" /\ CalendarNext
         /\ UNCHANGED <<focus, scanVars, uploadVars, eventVars, reportVars, mailVars, presenceVars, throttleVars, collabVars, catalogueVars, settingsVars>>

Spec == Init /\ [][Next]_vars

Symmetry == Permutations(Instances)

(* All states of each component have their types.                            *)
BackofficeTypesOK ==
    /\ ScanTypeOK /\ UploadTypeOK /\ EventsTypeOK /\ ReportsTypeOK /\ MailingTypeOK
    /\ PresenceTypeOK /\ ThrottleTypeOK /\ CollabTypeOK /\ CatalogueTypeOK /\ SettingsTypeOK /\ CalendarTypeOK

(* Rows and files agree: a row has its file, malware is never offered, a key *)
(* names one file, through scans, crons, crashes and repetitions.            *)
FilesHold ==
    /\ CleanHasObjectUnlessDisturbed /\ OnlyFineIsClean
    /\ RowHasFile /\ OneFilePerKey /\ UploadsBounded /\ AttachmentHasFile

(* Who is concerned by a ticket hears of it, once and in the end rightly:    *)
(* its holder, the audit trail, and the requester, whose replies stay.       *)
PeopleAreTold ==
    /\ HolderKnows /\ ToldOnce /\ AuditComplete
    /\ PublishedStays /\ RepliesAreAnnounced /\ CorrectionsResolve

(* A job of the queues ends with what it announces: a report that is ready   *)
(* can be fetched, a mail that is completed was accepted, none waits for a   *)
(* job that is gone, unless something failed.                                *)
JobsSettle == SentLinkWorks /\ ReportSettles /\ ExtraMailsNeedMishaps /\ CompletedWasSent

(* What processes keep in memory or in Redis catches up with the truth:      *)
(* counters expire, old settings are forgotten, closed sockets leave.        *)
SharedStateRecovers ==
    /\ LimitPerWindow /\ KeyExpires /\ ChangeInForceAfterTTL
    /\ GaugeCountsClients /\ ClientsAreOpenUnlessOvertaken /\ PushedIsStoredOnce

(* Removing a category or a department leaves no reference to it, but for    *)
(* those of a department that came after they were counted.                  *)
ReferencesHold == ReferencesResolve /\ DeletedHasOnlyLateReferences

(* A due date leaves the team exactly the open minutes of the target, and    *)
(* falls in open hours.                                                      *)
DeadlinesHold == WorkIsConserved /\ DueInOpenHours
===============================================================================
