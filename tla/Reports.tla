------------------------------- MODULE Reports -------------------------------
(* Reports on their way from the request to the link that is sent            *)
(* (reports.controller.ts, report-scheduler.service.ts, report.worker.ts,    *)
(* report-download services): a row, a job, a file and what the requester is *)
(* told, with failures of each and a job the queue takes for stalled.        *)
EXTENDS Integers, FiniteSets

CONSTANTS
    ReportIds,      \* rows that can be inserted
    ReportWorkers   \* executions at once: concurrency 3

ASSUME ReportsAssumption == IsFiniteSet(ReportIds)

VARIABLES
    reports,     \* reports[r]: status, kind, objectKey (has one)
    queued,      \* queued[r]: its job
    stalls,      \* stalls[r]: times the job was given out again
    runs,        \* runs[w]: what an execution is doing
    files,       \* reports whose PDF is stored
    told,        \* told[r]: what the requester was told
    lost         \* lost[r]: a queue or a database error, or a crash, hit it

reportVars == <<reports, queued, stalls, runs, files, told, lost>>

NoReport == [status |-> "none", kind |-> "stats", key |-> FALSE]
NoRun == [pc |-> "idle"]
MaxStalled == 1     \* BullMQ's maxStalledCount

ReportsTypeOK ==
    /\ reports \in [ReportIds -> [status: {"none", "pending", "completed", "failed"}, kind: {"ticket", "stats"},
                               key: BOOLEAN]]
    /\ \A r \in ReportIds : reports[r].key <=> reports[r].status = "completed"
    /\ queued \in [ReportIds -> {"none", "adding", "waiting", "active"}]
    /\ stalls \in [ReportIds -> 0 .. MaxStalled]
    /\ runs \in [ReportWorkers -> {NoRun} \cup
         [pc: {"query", "render", "store", "complete", "link", "ready", "fail", "sorry"}, report: ReportIds, first: BOOLEAN]]
    /\ files \subseteq ReportIds
    /\ told \in [ReportIds -> SUBSET {"ready", "failed"}]
    /\ lost \in [ReportIds -> BOOLEAN]

ReportsInit ==
    /\ reports = [r \in ReportIds |-> NoReport]
    /\ queued = [r \in ReportIds |-> "none"] /\ stalls = [r \in ReportIds |-> 0]
    /\ runs = [w \in ReportWorkers |-> NoRun]
    /\ files = {} /\ told = [r \in ReportIds |-> {}]
    /\ lost = [r \in ReportIds |-> FALSE]

-----------------------------------------------------------------------------
(* The request: the row first, then the job.                                 *)

InsertReport(r, kind) ==
    /\ reports[r] = NoReport
    /\ reports' = [reports EXCEPT ![r] = [status |-> "pending", kind |-> kind, key |-> FALSE]]
    /\ queued' = [queued EXCEPT ![r] = "adding"]
    /\ UNCHANGED <<stalls, runs, files, told, lost>>

AskTicketReport(r) == InsertReport(r, "ticket")
AskSlaReport(r) == InsertReport(r, "stats")
(* By the cron of every instance: there is no lock.                          *)
AskWeeklyReport(r) == InsertReport(r, "stats")

AddJob(r) ==
    /\ queued[r] = "adding"
    /\ \/ queued' = [queued EXCEPT ![r] = "waiting"] /\ UNCHANGED lost
       \/ queued' = [queued EXCEPT ![r] = "none"] /\ lost' = [lost EXCEPT ![r] = TRUE]
    /\ UNCHANGED <<reports, stalls, runs, files, told>>

-----------------------------------------------------------------------------
(* The worker.                                                               *)

Doing(w, pc) == runs[w].pc = pc
Report(w) == runs[w].report
Turn(w, pc) == runs' = [runs EXCEPT ![w].pc = pc]
(* The end of an execution completes the job, if it is still its own.        *)
EndRun(w) ==
    /\ runs' = [runs EXCEPT ![w] = NoRun]
    /\ queued' = [queued EXCEPT ![Report(w)] =
         IF @ = "active" /\ runs[w].first = (stalls[Report(w)] = 0) THEN "none" ELSE @]
UpdateReportStatus(r, status) ==
    reports' = [reports EXCEPT ![r].status = status, ![r].key = status = "completed"]

StartReport(w, r) ==
    /\ runs[w] = NoRun /\ queued[r] = "waiting"
    /\ queued' = [queued EXCEPT ![r] = "active"]
    /\ runs' = [runs EXCEPT ![w] = [pc |-> "query", report |-> r, first |-> stalls[r] = 0]]
    /\ UNCHANGED <<reports, stalls, files, told, lost>>

Or(w, pc) == Turn(w, pc) \/ Turn(w, "fail")

(* A ticket deleted since the request is not found.                          *)
QueryTicket(w) ==
    /\ Doing(w, "query") /\ reports[Report(w)].kind = "ticket" /\ Or(w, "render")
    /\ UNCHANGED <<reports, queued, stalls, files, told, lost>>

QueryStats(w) ==
    /\ Doing(w, "query") /\ reports[Report(w)].kind = "stats" /\ Or(w, "render")
    /\ UNCHANGED <<reports, queued, stalls, files, told, lost>>

RenderTicketPdf(w) ==
    /\ Doing(w, "render") /\ reports[Report(w)].kind = "ticket" /\ Or(w, "store")
    /\ UNCHANGED <<reports, queued, stalls, files, told, lost>>

RenderSlaPdf(w) ==
    /\ Doing(w, "render") /\ reports[Report(w)].kind = "stats" /\ Or(w, "store")
    /\ UNCHANGED <<reports, queued, stalls, files, told, lost>>

StoreReport(w) ==
    /\ Doing(w, "store")
    /\ \/ Turn(w, "complete") /\ files' = files \cup {Report(w)}
       \/ Turn(w, "fail") /\ UNCHANGED files
    /\ UNCHANGED <<reports, queued, stalls, told, lost>>

CompleteReport(w) ==
    /\ Doing(w, "complete")
    /\ \/ Turn(w, "link") /\ UpdateReportStatus(Report(w), "completed")
       \/ Turn(w, "fail") /\ UNCHANGED reports
    /\ UNCHANGED <<queued, stalls, files, told, lost>>

(* createUrl throws when the secret is missing in production.                *)
CreateLink(w) ==
    /\ Doing(w, "link") /\ Or(w, "ready")
    /\ UNCHANGED <<reports, queued, stalls, files, told, lost>>

(* The notification and the e-mail: errors of their queues are swallowed.    *)
TellReady(w) ==
    /\ Doing(w, "ready") /\ EndRun(w)
    /\ told' = [told EXCEPT ![Report(w)] = @ \cup {"ready"}]
    /\ UNCHANGED <<reports, stalls, files, lost>>

MutFailReport(w) ==
    /\ Doing(w, "fail") /\ EndRun(w)
    /\ UNCHANGED <<reports, stalls, files, told, lost>>

(* The catch: FAILED; an error here is only logged and the job completes.    *)
FailReport(w) ==
    /\ Doing(w, "fail")
    /\ \/ Turn(w, "sorry") /\ UpdateReportStatus(Report(w), "failed") /\ UNCHANGED <<queued, lost>>
       \/ EndRun(w) /\ lost' = [lost EXCEPT ![Report(w)] = TRUE] /\ UNCHANGED reports
    /\ UNCHANGED <<stalls, files, told>>

TellFailed(w) ==
    /\ Doing(w, "sorry") /\ EndRun(w)
    /\ told' = [told EXCEPT ![Report(w)] = @ \cup {"failed"}]
    /\ UNCHANGED <<reports, stalls, files, lost>>

(* The queue no longer hears from the execution: the job is given out again, *)
(* once.  The execution is dead, or only slow.                               *)
StallReport(w) ==
    /\ runs[w] # NoRun
    /\ queued[Report(w)] = "active" /\ runs[w].first = (stalls[Report(w)] = 0)
    /\ IF stalls[Report(w)] < MaxStalled
       THEN /\ queued' = [queued EXCEPT ![Report(w)] = "waiting"]
            /\ stalls' = [stalls EXCEPT ![Report(w)] = @ + 1]
       ELSE queued' = [queued EXCEPT ![Report(w)] = "none"] /\ UNCHANGED stalls
    /\ lost' = [lost EXCEPT ![Report(w)] = TRUE]
    /\ runs' \in {runs, [runs EXCEPT ![w] = NoRun]}
    /\ UNCHANGED <<reports, files, told>>

ReportsNext ==
    \/ \E r \in ReportIds : AskTicketReport(r) \/ AskSlaReport(r) \/ AskWeeklyReport(r) \/ AddJob(r)
    \/ \E w \in ReportWorkers, r \in ReportIds : StartReport(w, r)
    \/ \E w \in ReportWorkers : QueryTicket(w) \/ QueryStats(w) \/ RenderTicketPdf(w) \/ RenderSlaPdf(w)
    \/ \E w \in ReportWorkers : StoreReport(w) \/ CompleteReport(w) \/ CreateLink(w) \/ TellReady(w)
    \/ \E w \in ReportWorkers : FailReport(w) \/ TellFailed(w) \/ StallReport(w)

ReportsSpec == ReportsInit /\ [][ReportsNext]_reportVars

-----------------------------------------------------------------------------

(* resolveSigned: a link is answered with a file.                            *)
Downloadable(r) == reports[r].status = "completed" /\ reports[r].key /\ r \in files

(* A link that was sent works, and a report that was announced as failed is  *)
(* not there, unless its job was given out twice: then the second execution  *)
(* may undo what the first one announced.                                    *)
SentLinkWorks ==
    \A r \in ReportIds : stalls[r] = 0 =>
        /\ "ready" \in told[r] => Downloadable(r)
        /\ "failed" \in told[r] => ~Downloadable(r)

(* A report stays pending only while its job is on its way, or after a queue *)
(* or database error or a crash: nothing looks for such reports.             *)
ReportSettles ==
    \A r \in ReportIds :
        reports[r].status = "pending" /\ ~lost[r] =>
            \/ queued[r] \in {"adding", "waiting"}
            \/ \E w \in ReportWorkers : runs[w] # NoRun /\ Report(w) = r
=============================================================================
