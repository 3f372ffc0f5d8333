---------------------------- MODULE PublicUploads ----------------------------
(* The uploads of one requester (public-attachment-upload service and guard, *)
(* public-attachment-idempotency.service.ts, local-storage.service.ts), from *)
(* the temporary file to the committed row, with kills in between, and the   *)
(* hourly removal of the files that have no row.                             *)
EXTENDS Integers, FiniteSets

CONSTANTS
    Uploaders,     \* uploads that can run at once
    UploadKeys,    \* Idempotency-Key values
    Contents,      \* files that can be told apart by their fingerprint
    FileIds,       \* names of the files on disk
    HourlyLimit    \* attachmentUploadsPerHour

ASSUME UploadsAssumption == HourlyLimit \in Nat \ {0} /\ IsFiniteSet(Uploaders)

VARIABLES
    uploads,     \* uploads[u]: what each upload is doing
    disk,        \* disk[f]: where file f is, and whether it is past the retention
    stored,      \* the rows of attachments: a file, its key and fingerprint
    answered     \* the answers that were given: key, content, file

uploadVars == <<uploads, disk, stored, answered>>

NoUpload == [pc |-> "idle"]
Nowhere == [at |-> "nowhere", old |-> FALSE]

UploadTypeOK ==
    /\ uploads \in [Uploaders -> {NoUpload}
          \cup [pc: {"find", "check", "move", "insert", "collided", "undo"},
                file: FileIds, key: UploadKeys, content: Contents]]
    /\ disk \in [FileIds -> [at: {"nowhere", "incoming", "quarantine"}, old: BOOLEAN]]
    /\ \A f \in FileIds : disk[f].at = "nowhere" => ~disk[f].old
    /\ \A u \in Uploaders :
         uploads[u].pc \in {"insert", "collided"} =>
           disk[uploads[u].file].at = IF uploads[u].pc = "insert" THEN "quarantine" ELSE "nowhere"
    /\ stored \subseteq [file: FileIds, key: UploadKeys, content: Contents, live: BOOLEAN, recent: BOOLEAN]
    /\ answered \subseteq [key: UploadKeys, content: Contents, file: FileIds]

UploadInit ==
    /\ uploads = [u \in Uploaders |-> NoUpload]
    /\ disk = [f \in FileIds |-> Nowhere]
    /\ stored = {} /\ answered = {}

In(u, pc) == uploads[u].pc = pc
To(u, pc) == uploads' = [uploads EXCEPT ![u].pc = pc]
Stop(u) == uploads' = [uploads EXCEPT ![u] = NoUpload]
Put(f, place) == disk' = [disk EXCEPT ![f] = [at |-> place, old |-> FALSE]]
Remove(f) == disk' = [disk EXCEPT ![f] = Nowhere]
KeyRows(k) == {r \in stored : r.key = k /\ r.live}

(* The body is received in incoming/ (multer), under a new name.             *)
ReceiveFile(u, f, k, x) ==
    /\ uploads[u] = NoUpload
    /\ disk[f] = Nowhere /\ \A r \in stored : r.file # f
    /\ \A v \in Uploaders : uploads[v] # NoUpload => uploads[v].file # f
    /\ uploads' = [uploads EXCEPT ![u] = [pc |-> "find", file |-> f, key |-> k, content |-> x]]
    /\ Put(f, "incoming")
    /\ UNCHANGED <<stored, answered>>

(* replay: the stored row answers, unless its fingerprint is another one.    *)
ReplayUpload(u, r) ==
    answered' = IF r.content # uploads[u].content THEN answered
                ELSE answered \cup {[key |-> r.key, content |-> r.content, file |-> r.file]}

(* discardIncoming: nothing is done when the file has moved to quarantine.   *)
Discard(f) == IF disk[f].at = "incoming" THEN Remove(f) ELSE UNCHANGED disk

FindKey(u) ==
    /\ In(u, "find")
    /\ IF KeyRows(uploads[u].key) = {}
       THEN To(u, "check") /\ UNCHANGED <<disk, answered>>
       ELSE /\ \E r \in KeyRows(uploads[u].key) : ReplayUpload(u, r)
            /\ Discard(uploads[u].file) /\ Stop(u)
    /\ UNCHANGED stored

UnderQuota == Cardinality({r \in stored : r.recent}) < HourlyLimit

(* The parent, the feature, the size, the quota and the antivirus: any of    *)
(* them refuses the upload and its temporary file is discarded.              *)
CheckUpload(u) ==
    /\ In(u, "check")
    /\ \/ UnderQuota /\ To(u, "move") /\ UNCHANGED disk
       \/ Discard(uploads[u].file) /\ Stop(u)
    /\ UNCHANGED <<stored, answered>>

(* rename to quarantine/; it fails when the file was cleaned up.             *)
MoveFile(u) ==
    LET f == uploads[u].file IN
    /\ In(u, "move")
    /\ IF disk[f].at = "incoming" THEN Put(f, "quarantine") /\ To(u, "insert")
       ELSE UNCHANGED disk /\ Stop(u)
    /\ UNCHANGED <<stored, answered>>

(* The transaction: the row, its message, its event.  The unique index on    *)
(* the key refuses a second row of the key, and the file is deleted.         *)
InsertRow(u) ==
    LET r == [file |-> uploads[u].file, key |-> uploads[u].key,
              content |-> uploads[u].content, live |-> TRUE, recent |-> TRUE] IN
    /\ In(u, "insert")
    /\ IF KeyRows(r.key) = {}
       THEN /\ stored' = stored \cup {r} /\ ReplayUpload(u, r)
            /\ Stop(u) /\ UNCHANGED disk
       ELSE /\ To(u, "collided") /\ Remove(r.file)
            /\ UNCHANGED <<stored, answered>>

(* The row of the key is found after the collision, if it has not expired.   *)
ReplayCollision(u) ==
    /\ In(u, "collided") /\ Stop(u)
    /\ \/ \E r \in KeyRows(uploads[u].key) : ReplayUpload(u, r)
       \/ KeyRows(uploads[u].key) = {} /\ UNCHANGED answered
    /\ UNCHANGED <<disk, stored>>

(* The transaction fails for another reason: the file is deleted.            *)
InsertFails(u) ==
    /\ In(u, "insert") /\ Stop(u) /\ Remove(uploads[u].file)
    /\ UNCHANGED <<stored, answered>>

KilledUpload(u) ==
    /\ uploads[u] # NoUpload /\ Stop(u)
    /\ UNCHANGED <<disk, stored, answered>>

-----------------------------------------------------------------------------

(* An hour, the life of a key (24 hours), or the retention of files passes.  *)
(* No upload lasts that long.                                                *)
TimePasses ==
    /\ \A u \in Uploaders : uploads[u] = NoUpload
    /\ \/ /\ stored' = {[r EXCEPT !.recent = FALSE] : r \in stored} /\ UNCHANGED disk
       \/ /\ stored' = {[r EXCEPT !.recent = FALSE, !.live = FALSE] : r \in stored}
          /\ disk' = [f \in FileIds |-> IF disk[f].at = "nowhere" THEN Nowhere ELSE [disk[f] EXCEPT !.old = TRUE]]
    /\ answered' = {}
    /\ UNCHANGED uploads

(* cleanupIncoming, and cleanupOrphanedQuarantines of what no row names.     *)
Removable(f) ==
    /\ disk[f].old
    /\ disk[f].at = "quarantine" => \A r \in stored : r.file # f

RemoveOld(f) ==
    /\ Removable(f) /\ Remove(f)
    /\ UNCHANGED <<uploads, stored, answered>>

UploadNext ==
    \/ \E u \in Uploaders, f \in FileIds, k \in UploadKeys, x \in Contents : ReceiveFile(u, f, k, x)
    \/ \E u \in Uploaders : FindKey(u) \/ CheckUpload(u) \/ MoveFile(u) \/ InsertRow(u)
    \/ \E u \in Uploaders : ReplayCollision(u) \/ InsertFails(u) \/ KilledUpload(u)
    \/ TimePasses \/ \E f \in FileIds : RemoveOld(f)

UploadSpec == UploadInit /\ [][UploadNext]_uploadVars

-----------------------------------------------------------------------------

(* Whatever is killed, retried or cleaned up, each row has its file.         *)
RowHasFile == \A r \in stored : disk[r.file].at = "quarantine"

(* As long as a key is remembered, all the successful answers to it name the *)
(* same file, and one with the content that was sent.                        *)
OneFilePerKey ==
    /\ \A x, y \in answered : x.key = y.key => x.file = y.file
    /\ \A x \in answered : \E r \in stored : r.file = x.file /\ r.content = x.content

(* The quota counts rows before the insertion: uploads at the same time go   *)
(* past it by one each, beyond the first.                                    *)
UploadsBounded ==
    Cardinality({r \in stored : r.recent}) < HourlyLimit + Cardinality(Uploaders)
=============================================================================
