---------------------------- MODULE AttachmentScan ----------------------------
(* The scan of one uploaded file (attachment-scan.service.ts and its worker, *)
(* attachment-quarantine-cleanup.service.ts, local-storage.service.ts): the  *)
(* row in the database and the two objects on disk are written one after the *)
(* other, by scans that may be disturbed, killed and retried, and by crons.  *)
EXTENDS Integers, FiniteSets

CONSTANTS
    Scanners,     \* concurrency of the worker
    MaxJobs,      \* bound on the jobs: the upload's, and one per recovery
    Attempts      \* attempts of a job

ASSUME ScanAssumption == MaxJobs \in Nat \ {0} /\ Attempts \in Nat \ {0}

VARIABLES
    row,        \* the row of attachments
    objects,    \* the copies on disk: "quarantine", "clean"
    content,    \* what an inspection of the file finds
    left,       \* left[j]: attempts left to job j of the queue
    scan,       \* scan[w]: what worker w is doing
    cleaner,    \* what the hourly cleanup has read
    disturbed   \* history: a scan was claimed while another one was running,
                \* or one that had recorded CLEAN went back on it

scanVars == <<row, objects, content, left, scan, cleaner, disturbed>>

Jobs == 1 .. MaxJobs
Places == {"quarantine", "clean"}
Statuses == {"QUARANTINED", "SCANNING", "CLEAN", "INFECTED", "ERROR"}
NoScan == [pc |-> "idle"]
NotCleaning == [pc |-> "idle"]

ScanTypeOK ==
    /\ row \in [status: Statuses, key: Places, stale: BOOLEAN, purged: BOOLEAN, old: BOOLEAN]
    /\ row.stale => row.status = "SCANNING"
    /\ objects \subseteq Places
    /\ content \in {"fine", "malware", "unacceptable"}
    /\ left \in [Jobs -> 0 .. Attempts]
    /\ scan \in [Scanners -> {NoScan}
          \cup [pc: {"read", "promote", "record", "purge", "withdraw", "catch", "infected", "reject"},
                job: Jobs, final: BOOLEAN, key: Places]]
    /\ cleaner \in {NotCleaning} \cup [pc: {"claim", "delete"}, status: {"QUARANTINED", "ERROR"}, key: Places]
    /\ disturbed \in BOOLEAN

(* The upload has put the file in quarantine, and its event has made a job.  *)
ScanInit ==
    /\ row = [status |-> "QUARANTINED", key |-> "quarantine", stale |-> FALSE, purged |-> FALSE, old |-> FALSE]
    /\ objects = {"quarantine"}
    /\ content \in {"fine", "malware", "unacceptable"}
    /\ left = [j \in Jobs |-> IF j = 1 THEN Attempts ELSE 0]
    /\ scan = [w \in Scanners |-> NoScan]
    /\ cleaner = NotCleaning /\ disturbed = FALSE

GoTo(w, pc) == scan' = [scan EXCEPT ![w].pc = pc]
Leave(w) == scan' = [scan EXCEPT ![w] = NoScan]
Succeed(w) == left' = [left EXCEPT ![scan[w].job] = 0]

-----------------------------------------------------------------------------

Claimable == row.status = "QUARANTINED" \/ (row.status = "SCANNING" /\ row.stale)

(* The row is claimed in one update; an attempt that finds another scan      *)
(* running fails, and one that finds the file settled ends the job.          *)
Claim(w, j) ==
    /\ scan[w] = NoScan /\ left[j] > 0
    /\ \A v \in Scanners : scan[v] # NoScan => scan[v].job # j
    /\ IF Claimable
       THEN /\ row' = [row EXCEPT !.status = "SCANNING", !.stale = FALSE]
            /\ scan' = [scan EXCEPT ![w] = [pc |-> "read", job |-> j, final |-> left[j] = 1, key |-> row.key]]
            /\ left' = [left EXCEPT ![j] = @ - 1]
            /\ disturbed' = (disturbed \/ \E v \in Scanners : scan[v] # NoScan)
       ELSE /\ left' = [left EXCEPT ![j] = IF row.status = "SCANNING" THEN @ - 1 ELSE 0]
            /\ UNCHANGED <<row, scan, disturbed>>
    /\ UNCHANGED <<objects, content, cleaner>>

(* The file is read, inspected and given to the antivirus; what is not fine  *)
(* is deleted.  A missing file or a failing antivirus is an error.           *)
Inspect(w) ==
    /\ scan[w].pc = "read"
    /\ \/ GoTo(w, "catch") /\ UNCHANGED objects
       \/ /\ scan[w].key \in objects
          /\ IF content = "fine"
             THEN GoTo(w, "promote") /\ UNCHANGED objects
             ELSE /\ GoTo(w, IF content = "malware" THEN "infected" ELSE "reject")
                  /\ objects' = objects \ {scan[w].key}
    /\ UNCHANGED <<row, content, left, cleaner, disturbed>>

(* INFECTED, or ERROR for a content that is refused.                         *)
Refuse(w) ==
    /\ scan[w].pc \in {"infected", "reject"}
    /\ row' = [row EXCEPT !.status = IF scan[w].pc = "infected" THEN "INFECTED" ELSE "ERROR", !.stale = FALSE]
    /\ Succeed(w) /\ Leave(w)
    /\ UNCHANGED <<objects, content, cleaner, disturbed>>

(* promote: a copy.                                                          *)
Promote(w) ==
    /\ scan[w].pc = "promote"
    /\ IF scan[w].key \in objects
       THEN objects' = objects \cup {"clean"} /\ GoTo(w, "record")
       ELSE UNCHANGED objects /\ GoTo(w, "catch")
    /\ UNCHANGED <<row, content, left, cleaner, disturbed>>

RecordClean(w) ==
    /\ scan[w].pc = "record"
    /\ row' = [row EXCEPT !.status = "CLEAN", !.key = "clean", !.stale = FALSE]
    /\ GoTo(w, "purge")
    /\ UNCHANGED <<objects, content, left, cleaner, disturbed>>

RecordFails(w) ==
    /\ scan[w].pc = "record" /\ GoTo(w, "withdraw")
    /\ UNCHANGED <<row, objects, content, left, cleaner, disturbed>>

(* The object of the key that was read is deleted and the row says so.  When *)
(* one of the two fails the row is marked for purgePromotedQuarantines.      *)
PurgeScanned(w) ==
    /\ scan[w].pc = "purge"
    /\ \/ objects' = objects \ {scan[w].key} /\ row' = [row EXCEPT !.purged = TRUE]
       \/ objects' \in {objects, objects \ {scan[w].key}} /\ UNCHANGED row
    /\ Succeed(w) /\ Leave(w)
    /\ UNCHANGED <<content, cleaner, disturbed>>

(* The mark fails too: the catch of the promotion goes on with a row that is *)
(* CLEAN.                                                                    *)
PurgeFails(w) ==
    /\ scan[w].pc = "purge"
    /\ objects' \in {objects, objects \ {scan[w].key}}
    /\ GoTo(w, "withdraw") /\ disturbed' = TRUE
    /\ UNCHANGED <<row, content, left, cleaner>>

(* The promoted copy is deleted again, or stays when that fails as well.     *)
Withdraw(w) ==
    /\ scan[w].pc = "withdraw"
    /\ objects' \in {objects, objects \ {"clean"}} /\ GoTo(w, "catch")
    /\ UNCHANGED <<row, content, left, cleaner, disturbed>>

(* The update of the catch names the row only.  When it fails, or the process*)
(* dies before it (Killed), the row keeps its status.                        *)
Catch(w) ==
    /\ scan[w].pc = "catch"
    /\ row' = [row EXCEPT !.status = IF scan[w].final THEN "ERROR" ELSE "QUARANTINED", !.stale = FALSE]
    /\ Leave(w)
    /\ UNCHANGED <<objects, content, left, cleaner, disturbed>>

(* The process dies; the attempts left are retried.                          *)
Killed(w) ==
    /\ scan[w] # NoScan /\ Leave(w)
    /\ UNCHANGED <<row, objects, content, left, cleaner, disturbed>>

-----------------------------------------------------------------------------
(* Time and the crons.                                                       *)

(* Two minutes since the claim, or the retention since the upload.           *)
Elapse ==
    /\ row' \in {[row EXCEPT !.stale = row.status = "SCANNING"], [row EXCEPT !.old = TRUE]}
    /\ UNCHANGED <<objects, content, left, scan, cleaner, disturbed>>

(* recoverStaleScans, with the event that makes a new job.                   *)
Recover(j) ==
    /\ row.status = "SCANNING" /\ row.stale
    /\ left[j] = 0 /\ \A w \in Scanners : scan[w] # NoScan => scan[w].job # j
    /\ row' = [row EXCEPT !.status = "QUARANTINED", !.stale = FALSE]
    /\ left' = [left EXCEPT ![j] = Attempts]
    /\ UNCHANGED <<objects, content, scan, cleaner, disturbed>>

CleanupList ==
    /\ cleaner = NotCleaning /\ row.old /\ row.status \in {"QUARANTINED", "ERROR"}
    /\ cleaner' = [pc |-> "claim", status |-> row.status, key |-> row.key]
    /\ UNCHANGED <<row, objects, content, left, scan, disturbed>>

(* The row becomes ERROR where its status is still the one of the list.      *)
CleanupClaim ==
    /\ cleaner.pc = "claim"
    /\ IF row.status = cleaner.status
       THEN row' = [row EXCEPT !.status = "ERROR"] /\ cleaner' = [cleaner EXCEPT !.pc = "delete"]
       ELSE UNCHANGED row /\ cleaner' = NotCleaning
    /\ UNCHANGED <<objects, content, left, scan, disturbed>>

CleanupDelete ==
    /\ cleaner.pc = "delete" /\ cleaner' = NotCleaning
    /\ objects' = objects \ {cleaner.key}
    /\ UNCHANGED <<row, content, left, scan, disturbed>>

MutPurgePromoted ==
    /\ row.status = "CLEAN" /\ ~row.purged
    /\ objects' = objects \ {row.key} /\ row' = [row EXCEPT !.purged = TRUE]
    /\ UNCHANGED <<content, left, scan, cleaner, disturbed>>

PurgePromoted ==
    /\ row.status = "CLEAN" /\ ~row.purged /\ row.key = "clean"
    /\ objects' = objects \ {"quarantine"} /\ row' = [row EXCEPT !.purged = TRUE]
    /\ UNCHANGED <<content, left, scan, cleaner, disturbed>>

ScanNext ==
    \/ \E w \in Scanners, j \in Jobs : Claim(w, j)
    \/ \E w \in Scanners : Inspect(w) \/ Refuse(w) \/ Promote(w) \/ RecordClean(w) \/ RecordFails(w)
    \/ \E w \in Scanners : PurgeScanned(w) \/ PurgeFails(w) \/ Withdraw(w) \/ Catch(w) \/ Killed(w)
    \/ \E j \in Jobs : Recover(j)
    \/ Elapse \/ CleanupList \/ CleanupClaim \/ CleanupDelete \/ PurgePromoted

ScanSpec == ScanInit /\ [][ScanNext]_scanVars

-----------------------------------------------------------------------------

(* A file that can be downloaded (findOneDownloadableForUser) is there.      *)
CleanHasObject == row.status = "CLEAN" => row.key \in objects

(* A file that can be downloaded is there, through crashes, retries, failing *)
(* updates and all the crons, unless one scan overtook another, or one that  *)
(* had recorded CLEAN could record neither the purge nor its failure: it then*)
(* deletes the clean copy, and when its last update fails too the row offers *)
(* a file that is gone.                                                      *)
CleanHasObjectUnlessDisturbed == disturbed \/ CleanHasObject

(* What is malware or refused is never offered for download, nor kept in the *)
(* clean directory, whichever scans overtook each other.                     *)
OnlyFineIsClean == content # "fine" => row.status # "CLEAN" /\ "clean" \notin objects
=============================================================================
