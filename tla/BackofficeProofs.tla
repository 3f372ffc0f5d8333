---------------------------- MODULE BackofficeProofs ---------------------------
(* Proofs about the workers, crons and shared services behind the API: each  *)
(* component has its inductive invariant, what it implies, and the steps that*)
(* keep it; the joint specification conjoins them at the end.                *)
EXTENDS MCBackoffice, FiniteSetTheorems, TLAPS

(* Finite sets that grow or shrink by one element.                           *)
LEMMA NoMore ==
  ASSUME NEW A, IsFiniteSet(A), NEW B, B \subseteq A
  PROVE  /\ IsFiniteSet(B) /\ Cardinality(A) \in Nat /\ Cardinality(B) \in Nat
         /\ Cardinality(B) <= Cardinality(A)
BY FS_Subset, FS_CardinalityType

LEMMA OneMore ==
  ASSUME NEW A, IsFiniteSet(A), NEW x, NEW B, B \subseteq A \cup {x}
  PROVE  /\ IsFiniteSet(B) /\ Cardinality(A) \in Nat /\ Cardinality(B) \in Nat
         /\ Cardinality(B) <= Cardinality(A) + 1
<1>1. IsFiniteSet(A \cup {x}) /\ Cardinality(A \cup {x}) <= Cardinality(A) + 1 /\ Cardinality(A) \in Nat
  BY FS_AddElement, FS_CardinalityType
<1> QED
  BY <1>1, FS_Subset, FS_CardinalityType

LEMMA OneLess ==
  ASSUME NEW A, IsFiniteSet(A), NEW x \in A, NEW B, B \subseteq A \ {x}
  PROVE  /\ IsFiniteSet(B) /\ Cardinality(A) \in Nat /\ Cardinality(B) \in Nat
         /\ Cardinality(B) + 1 <= Cardinality(A)
<1>1. IsFiniteSet(A \ {x}) /\ Cardinality(A \ {x}) = Cardinality(A) - 1 /\ Cardinality(A) \in Nat
  BY FS_RemoveElement, FS_CardinalityType
<1> QED
  BY <1>1, FS_Subset, FS_CardinalityType

-----------------------------------------------------------------------------
(* The scan of an uploaded file.                                             *)

ScannedRow == [status: Statuses, key: Places, stale: BOOLEAN, purged: BOOLEAN, old: BOOLEAN]
Phases == {"read", "promote", "record", "purge", "withdraw", "catch", "infected", "reject"}
Scanning == {NoScan} \cup [pc: Phases, job: Jobs, final: BOOLEAN, key: Places]
Cleaning == {NotCleaning} \cup [pc: {"claim", "delete"}, status: {"QUARANTINED", "ERROR"}, key: Places]

(* As long as no scan is disturbed: one scan runs at most, all that is   *)
(* under way is about the copy in quarantine, and the row names the clean    *)
(* copy exactly when it says CLEAN, which no scan can undo any more.         *)
Alone ==
  /\ \A v, w \in Scanners : scan[v] # NoScan /\ scan[w] # NoScan => v = w
  /\ \A w \in Scanners : scan[w] # NoScan => scan[w].key = "quarantine"
  /\ \A w \in Scanners : scan[w].pc = "record" => "clean" \in objects
  /\ cleaner # NotCleaning => cleaner.key = "quarantine"
  /\ row.status = "CLEAN" <=> row.key = "clean"
  /\ row.status = "CLEAN" => "clean" \in objects /\ \A w \in Scanners : scan[w].pc \in {"idle", "purge"}

NothingFineIsLeft ==
  content # "fine" =>
    /\ row.status # "CLEAN" /\ "clean" \notin objects
    /\ \A w \in Scanners : scan[w].pc \notin {"promote", "record", "purge"}

ScanInv == ScanTypeOK /\ NothingFineIsLeft /\ (disturbed \/ Alone)

LEMMA ScanTypes == ScanTypeOK =>
  /\ row \in ScannedRow /\ (row.stale => row.status = "SCANNING") /\ objects \subseteq Places
  /\ left \in [Jobs -> 0 .. Attempts] /\ scan \in [Scanners -> Scanning] /\ cleaner \in Cleaning
BY DEF ScanTypeOK, ScannedRow, Scanning, Phases, Cleaning

LEMMA ScanningFields ==
  ASSUME NEW q \in Scanning
  PROVE  /\ q # NoScan <=> q.pc \in Phases
         /\ q = NoScan <=> q.pc = "idle"
         /\ q # NoScan => q.job \in Jobs /\ q.key \in Places /\ q.final \in BOOLEAN
BY DEF Scanning, NoScan, Phases

LEMMA ScanInitHolds == ScanInit => ScanInv
<1> SUFFICES ASSUME ScanInit PROVE ScanInv
  OBVIOUS
<1>1. ScanTypeOK
  <2>1. row \in ScannedRow /\ ~row.stale
    BY DEF ScanInit, ScannedRow, Statuses, Places
  <2>2. left \in [Jobs -> 0 .. Attempts]
    BY ScanAssumption DEF ScanInit
  <2>3. scan \in [Scanners -> Scanning] /\ cleaner \in Cleaning /\ disturbed \in BOOLEAN
    BY DEF ScanInit, Scanning, Cleaning
  <2>4. objects \subseteq Places /\ content \in {"fine", "malware", "unacceptable"}
    BY DEF ScanInit, Places
  <2> QED
    BY <2>1, <2>2, <2>3, <2>4 DEF ScanTypeOK, ScannedRow, Scanning, Phases, Cleaning
<1>2. Alone /\ NothingFineIsLeft
  BY DEF ScanInit, Alone, NothingFineIsLeft, NoScan, NotCleaning
<1> QED
  BY <1>1, <1>2 DEF ScanInv

LEMMA ScanGoes ==
  ASSUME ScanTypeOK, NEW w \in Scanners, scan[w] # NoScan, NEW pc \in Phases, GoTo(w, pc)
  PROVE  /\ scan' \in [Scanners -> Scanning] /\ scan'[w] # NoScan /\ scan'[w].pc = pc
         /\ scan'[w].key = scan[w].key /\ \A v \in Scanners \ {w} : scan'[v] = scan[v]
<1>1. scan \in [Scanners -> Scanning] /\ scan[w] \in Scanning
  BY ScanTypes
<1>2. PICK q : q = [scan[w] EXCEPT !.pc = pc]
  OBVIOUS
<1>3. q \in Scanning /\ q.pc = pc /\ q.key = scan[w].key
  BY <1>1, <1>2 DEF Scanning, NoScan
<1>4. q # NoScan
  BY <1>3, ScanningFields
<1>5. scan' = [scan EXCEPT ![w] = q]
  BY <1>2 DEF GoTo
<1> QED
  BY <1>1, <1>3, <1>4, <1>5

LEMMA ScanLeaves ==
  ASSUME ScanTypeOK, NEW w \in Scanners, Leave(w)
  PROVE  /\ scan' \in [Scanners -> Scanning] /\ scan'[w] = NoScan /\ scan'[w].pc = "idle"
         /\ \A v \in Scanners \ {w} : scan'[v] = scan[v]
BY ScanTypes DEF Leave, Scanning, NoScan

LEMMA ScanClaims ==
  ASSUME ScanInv, NEW w \in Scanners, NEW j \in Jobs, Claim(w, j)
  PROVE  ScanInv'
<1>1. /\ row \in ScannedRow /\ left \in [Jobs -> 0 .. Attempts] /\ scan \in [Scanners -> Scanning]
      /\ left[j] \in 1 .. Attempts /\ scan[w] = NoScan
  BY ScanTypes DEF ScanInv, Claim
<1>2. UNCHANGED <<objects, content, cleaner>>
  BY DEF Claim
<1>3. CASE Claimable
  <2> DEFINE q == [pc |-> "read", job |-> j, final |-> left[j] = 1, key |-> row.key]
  <2>1. q \in Scanning /\ q.pc = "read" /\ q.key = row.key /\ q # NoScan
    BY <1>1 DEF Scanning, Phases, ScannedRow, NoScan
  <2>2. /\ row' = [row EXCEPT !.status = "SCANNING", !.stale = FALSE] /\ scan' = [scan EXCEPT ![w] = q]
        /\ left' = [left EXCEPT ![j] = @ - 1]
        /\ disturbed' = (disturbed \/ \E v \in Scanners : scan[v] # NoScan)
    BY <1>3 DEF Claim
  <2> HIDE DEF q
  <2>3. row' \in ScannedRow /\ row'.status = "SCANNING" /\ row'.key = row.key /\ ~row'.stale
    BY <1>1, <2>2 DEF ScannedRow, Statuses
  <2>4. scan' \in [Scanners -> Scanning] /\ scan'[w] = q /\ \A v \in Scanners \ {w} : scan'[v] = scan[v]
    BY <1>1, <2>1, <2>2
  <2>5. left' \in [Jobs -> 0 .. Attempts]
    BY <1>1, <2>2, ScanAssumption
  <2>6. ScanTypeOK'
    BY <1>2, <2>2, <2>3, <2>4, <2>5 DEF ScanInv, ScanTypeOK, ScannedRow, Scanning, Phases
  <2>7. NothingFineIsLeft'
    BY <1>2, <2>1, <2>3, <2>4 DEF ScanInv, NothingFineIsLeft
  <2>8. disturbed' \/ Alone'
    <3>1. CASE disturbed'
      BY <3>1
    <3>2. CASE ~disturbed'
      <4>1. ~disturbed /\ Alone /\ \A v \in Scanners : scan[v] = NoScan
        BY <2>2, <3>2 DEF ScanInv
      <4>2. row.status # "CLEAN" /\ row.key = "quarantine"
        BY <1>1, <1>3, <4>1 DEF Claimable, Alone, ScannedRow, Places
      <4>3. NoScan.pc = "idle"
        BY DEF NoScan
      <4> QED
        BY <1>2, <2>1, <2>3, <2>4, <4>1, <4>2, <4>3 DEF Alone
    <3> QED
      BY <3>1, <3>2
  <2> QED
    BY <2>6, <2>7, <2>8 DEF ScanInv
<1>4. CASE ~Claimable
  <2>1. left' \in [Jobs -> 0 .. Attempts] /\ UNCHANGED <<row, scan, disturbed>>
    BY <1>1, <1>4, ScanAssumption DEF Claim
  <2> QED
    BY <1>2, <2>1 DEF ScanInv, ScanTypeOK, NothingFineIsLeft, Alone
<1> QED
  BY <1>3, <1>4

(* One scan goes on or ends, about the row and the objects.                  *)
LEMMA ScanMoves ==
  ASSUME ScanInv, NEW w \in Scanners, scan[w] # NoScan,
         scan' \in [Scanners -> Scanning], \A v \in Scanners \ {w} : scan'[v] = scan[v],
         scan'[w] # NoScan => scan'[w].key = scan[w].key,
         row' \in ScannedRow, row'.stale => row'.status = "SCANNING", objects' \subseteq Places,
         left' \in [Jobs -> 0 .. Attempts], UNCHANGED <<content, cleaner>>, disturbed' \in {disturbed, TRUE},
         content # "fine" => /\ row'.status # "CLEAN" /\ "clean" \notin objects'
                             /\ scan'[w].pc \notin {"promote", "record", "purge"},
         ~disturbed' => /\ scan'[w].pc = "record" => "clean" \in objects'
                        /\ row'.status = "CLEAN" <=> row'.key = "clean"
                        /\ row'.status = "CLEAN" => "clean" \in objects' /\ scan'[w].pc \in {"idle", "purge"}
  PROVE  ScanInv'
<1>1. ScanTypeOK'
  BY DEF ScanInv, ScanTypeOK, ScannedRow, Scanning, Phases
<1>2. NothingFineIsLeft'
  BY DEF ScanInv, NothingFineIsLeft
<1>3. ASSUME ~disturbed' PROVE Alone'
  <2>0. ~disturbed
    BY <1>3
  <2>1. Alone /\ scan \in [Scanners -> Scanning]
    BY <2>0, ScanTypes DEF ScanInv
  <2>2. \A v \in Scanners \ {w} : scan'[v] = NoScan /\ scan'[v].pc = "idle"
    BY <2>1 DEF Alone, NoScan
  <2> QED
    BY <1>3, <2>1, <2>2 DEF Alone
<1> QED
  BY <1>1, <1>2, <1>3 DEF ScanInv

LEMMA ScanWorks ==
  ASSUME ScanInv, NEW w \in Scanners,
         \/ Inspect(w) \/ Refuse(w) \/ Promote(w) \/ RecordClean(w) \/ RecordFails(w)
         \/ PurgeScanned(w) \/ PurgeFails(w) \/ Withdraw(w) \/ Catch(w) \/ Killed(w)
  PROVE  ScanInv'
<1>1. /\ ScanTypeOK /\ row \in ScannedRow /\ (row.stale => row.status = "SCANNING") /\ objects \subseteq Places
      /\ left \in [Jobs -> 0 .. Attempts] /\ scan[w] \in Scanning
  BY ScanTypes DEF ScanInv
<1>2. scan[w] # NoScan /\ scan[w].key \in Places /\ scan[w].job \in Jobs
  BY <1>1, ScanningFields DEF Inspect, Refuse, Promote, RecordClean, RecordFails, PurgeScanned, PurgeFails, Withdraw,
     Catch, Killed, Phases
<1>3. ASSUME NEW s \in Statuses, NEW k \in Places, NEW r, r = [row EXCEPT !.status = s, !.key = k, !.stale = FALSE]
      PROVE  r \in ScannedRow /\ r.status = s /\ r.key = k /\ ~r.stale
  BY <1>1, <1>3 DEF ScannedRow
<1>4. ASSUME NEW s \in Statuses, NEW r, r = [row EXCEPT !.status = s, !.stale = FALSE]
      PROVE  r \in ScannedRow /\ r.status = s /\ r.key = row.key /\ ~r.stale
  BY <1>1, <1>4 DEF ScannedRow
<1>5. Succeed(w) => left' \in [Jobs -> 0 .. Attempts]
  BY <1>1, <1>2, ScanAssumption DEF Succeed
<1>6. content # "fine" => /\ row.status # "CLEAN" /\ "clean" \notin objects
                          /\ scan[w].pc \notin {"promote", "record", "purge"}
  BY DEF ScanInv, NothingFineIsLeft
<1>7. ~disturbed => /\ scan[w].key = "quarantine" /\ (row.status = "CLEAN" <=> row.key = "clean")
                    /\ scan[w].pc = "record" => "clean" \in objects
                    /\ row.status = "CLEAN" => "clean" \in objects /\ scan[w].pc = "purge"
  <2>1. scan[w].pc # "idle"
    BY <1>1, <1>2, ScanningFields
  <2> QED
    BY <1>2, <2>1 DEF ScanInv, Alone
<1>8. CASE Inspect(w)
  <2>1. UNCHANGED <<row, content, left, cleaner, disturbed>>
    BY <1>8 DEF Inspect
  <2>2. PICK pc \in {"catch", "promote", "infected", "reject"} :
          /\ GoTo(w, pc) /\ (pc = "promote" => content = "fine") /\ objects' \in {objects, objects \ {scan[w].key}}
          /\ scan[w].pc = "read"
    BY <1>8 DEF Inspect
  <2>3. /\ scan' \in [Scanners -> Scanning] /\ scan'[w].pc = pc /\ scan'[w].key = scan[w].key
        /\ \A v \in Scanners \ {w} : scan'[v] = scan[v]
    BY <1>1, <1>2, <2>2, ScanGoes DEF Phases
  <2>4. ~disturbed => row.status # "CLEAN"
    BY <1>7, <2>2
  <2> QED
    BY <1>1, <1>2, <1>6, <1>7, <2>1, <2>2, <2>3, <2>4, ScanMoves
<1>9. CASE Refuse(w)
  <2>1. PICK s \in {"INFECTED", "ERROR"} : row' = [row EXCEPT !.status = s, !.stale = FALSE]
    BY <1>9 DEF Refuse
  <2>2. row' \in ScannedRow /\ row'.status = s /\ row'.key = row.key /\ ~row'.stale
    BY <1>4, <2>1 DEF Statuses
  <2>3. /\ scan' \in [Scanners -> Scanning] /\ scan'[w] = NoScan /\ scan'[w].pc = "idle"
        /\ \A v \in Scanners \ {w} : scan'[v] = scan[v]
    BY <1>1, <1>9, ScanLeaves DEF Refuse
  <2>4. UNCHANGED <<objects, content, cleaner, disturbed>> /\ left' \in [Jobs -> 0 .. Attempts]
    BY <1>5, <1>9 DEF Refuse
  <2>5. ~disturbed => row.key # "clean"
    BY <1>7, <1>9 DEF Refuse
  <2> QED
    BY <1>1, <1>2, <1>6, <1>7, <2>2, <2>3, <2>4, <2>5, ScanMoves
<1>10. CASE Promote(w)
  <2>1. UNCHANGED <<row, content, left, cleaner, disturbed>> /\ scan[w].pc = "promote"
    BY <1>10 DEF Promote
  <2>2. PICK pc \in {"record", "catch"} :
          /\ GoTo(w, pc) /\ (pc = "record" => objects' = objects \cup {"clean"}) /\ (pc = "catch" => objects' = objects)
    BY <1>10 DEF Promote
  <2>3. /\ scan' \in [Scanners -> Scanning] /\ scan'[w].pc = pc /\ scan'[w].key = scan[w].key
        /\ \A v \in Scanners \ {w} : scan'[v] = scan[v]
    BY <1>1, <1>2, <2>2, ScanGoes DEF Phases
  <2>4. ~disturbed => row.status # "CLEAN"
    BY <1>7, <2>1
  <2>5. content = "fine" /\ objects' \subseteq Places
    BY <1>1, <1>6, <2>1, <2>2 DEF Places
  <2> QED
    BY <1>1, <1>2, <1>7, <2>1, <2>2, <2>3, <2>4, <2>5, ScanMoves
<1>11. CASE RecordClean(w)
  <2>1. row' \in ScannedRow /\ row'.status = "CLEAN" /\ row'.key = "clean" /\ ~row'.stale
    BY <1>3, <1>11 DEF RecordClean, Statuses, Places
  <2>2. UNCHANGED <<objects, content, left, cleaner, disturbed>> /\ GoTo(w, "purge") /\ scan[w].pc = "record"
    BY <1>11 DEF RecordClean
  <2>3. /\ scan' \in [Scanners -> Scanning] /\ scan'[w].pc = "purge" /\ scan'[w].key = scan[w].key
        /\ \A v \in Scanners \ {w} : scan'[v] = scan[v]
    BY <1>1, <1>2, <2>2, ScanGoes DEF Phases
  <2> QED
    BY <1>1, <1>2, <1>6, <1>7, <2>1, <2>2, <2>3, ScanMoves
<1>12. CASE RecordFails(w)
  <2>1. /\ UNCHANGED <<row, objects, content, left, cleaner, disturbed>> /\ GoTo(w, "withdraw") /\ scan[w].pc = "record"
    BY <1>12 DEF RecordFails
  <2>2. /\ scan' \in [Scanners -> Scanning] /\ scan'[w].pc = "withdraw" /\ scan'[w].key = scan[w].key
        /\ \A v \in Scanners \ {w} : scan'[v] = scan[v]
    BY <1>1, <1>2, <2>1, ScanGoes DEF Phases
  <2> QED
    BY <1>1, <1>2, <1>6, <1>7, <2>1, <2>2, ScanMoves
<1>13. CASE PurgeScanned(w)
  <2>1. /\ UNCHANGED <<content, cleaner, disturbed>> /\ left' \in [Jobs -> 0 .. Attempts] /\ scan[w].pc = "purge"
        /\ objects' \in {objects, objects \ {scan[w].key}} /\ row' \in {row, [row EXCEPT !.purged = TRUE]}
    BY <1>5, <1>13 DEF PurgeScanned
  <2>2. row' \in ScannedRow /\ row'.status = row.status /\ row'.key = row.key /\ row'.stale = row.stale
    BY <1>1, <2>1 DEF ScannedRow
  <2>3. /\ scan' \in [Scanners -> Scanning] /\ scan'[w] = NoScan /\ scan'[w].pc = "idle"
        /\ \A v \in Scanners \ {w} : scan'[v] = scan[v]
    BY <1>1, <1>13, ScanLeaves DEF PurgeScanned
  <2> QED
    BY <1>1, <1>2, <1>6, <1>7, <2>1, <2>2, <2>3, ScanMoves
<1>16. CASE PurgeFails(w)
  <2>1. /\ UNCHANGED <<row, content, left, cleaner>> /\ disturbed' = TRUE /\ GoTo(w, "withdraw")
        /\ scan[w].pc = "purge" /\ objects' \in {objects, objects \ {scan[w].key}}
    BY <1>16 DEF PurgeFails
  <2>2. /\ scan' \in [Scanners -> Scanning] /\ scan'[w].pc = "withdraw" /\ scan'[w].key = scan[w].key
        /\ \A v \in Scanners \ {w} : scan'[v] = scan[v]
    BY <1>1, <1>2, <2>1, ScanGoes DEF Phases
  <2> QED
    BY <1>1, <1>2, <1>6, <2>1, <2>2, ScanMoves
<1>17. CASE Withdraw(w)
  <2>1. /\ UNCHANGED <<row, content, left, cleaner, disturbed>> /\ GoTo(w, "catch") /\ scan[w].pc = "withdraw"
        /\ objects' \in {objects, objects \ {"clean"}}
    BY <1>17 DEF Withdraw
  <2>2. /\ scan' \in [Scanners -> Scanning] /\ scan'[w].pc = "catch" /\ scan'[w].key = scan[w].key
        /\ \A v \in Scanners \ {w} : scan'[v] = scan[v]
    BY <1>1, <1>2, <2>1, ScanGoes DEF Phases
  <2> QED
    BY <1>1, <1>2, <1>6, <1>7, <2>1, <2>2, ScanMoves
<1>14. CASE Catch(w)
  <2>1. PICK s \in {"QUARANTINED", "ERROR"} : row' = [row EXCEPT !.status = s, !.stale = FALSE]
    BY <1>14 DEF Catch
  <2>2. row' \in ScannedRow /\ row'.status = s /\ row'.key = row.key /\ ~row'.stale
    BY <1>4, <2>1 DEF Statuses
  <2>3. /\ scan' \in [Scanners -> Scanning] /\ scan'[w] = NoScan /\ scan'[w].pc = "idle"
        /\ \A v \in Scanners \ {w} : scan'[v] = scan[v]
    BY <1>1, <1>14, ScanLeaves DEF Catch
  <2>4. UNCHANGED <<objects, content, left, cleaner, disturbed>> /\ (~disturbed => row.key # "clean")
    BY <1>7, <1>14 DEF Catch
  <2> QED
    BY <1>1, <1>2, <1>6, <1>7, <2>2, <2>3, <2>4, ScanMoves
<1>15. CASE Killed(w)
  <2>1. /\ scan' \in [Scanners -> Scanning] /\ scan'[w] = NoScan /\ scan'[w].pc = "idle"
        /\ \A v \in Scanners \ {w} : scan'[v] = scan[v]
    BY <1>1, <1>15, ScanLeaves DEF Killed
  <2>2. UNCHANGED <<row, objects, content, left, cleaner, disturbed>>
    BY <1>15 DEF Killed
  <2> QED
    BY <1>1, <1>2, <1>6, <1>7, <2>1, <2>2, ScanMoves
<1> QED
  BY <1>8, <1>9, <1>10, <1>11, <1>12, <1>13, <1>14, <1>15, <1>16, <1>17

LEMMA ScanCrons ==
  ASSUME ScanInv, (\E j \in Jobs : Recover(j)) \/ Elapse \/ CleanupList \/ CleanupClaim \/ CleanupDelete \/ PurgePromoted
  PROVE  ScanInv'
<1>1. /\ row \in ScannedRow /\ (row.stale => row.status = "SCANNING") /\ objects \subseteq Places
      /\ left \in [Jobs -> 0 .. Attempts] /\ scan \in [Scanners -> Scanning] /\ cleaner \in Cleaning
  BY ScanTypes DEF ScanInv
<1>2. UNCHANGED <<content, scan, disturbed>>
  BY DEF Recover, Elapse, CleanupList, CleanupClaim, CleanupDelete, PurgePromoted
<1>3. /\ row' \in ScannedRow /\ (row'.stale => row'.status = "SCANNING") /\ row'.key = row.key
      /\ row'.status = "CLEAN" <=> row.status = "CLEAN"
  <2>1. CASE Elapse \/ CleanupList \/ CleanupDelete \/ PurgePromoted
    <3>1. row' \in {row, [row EXCEPT !.stale = row.status = "SCANNING"], [row EXCEPT !.old = TRUE], [row EXCEPT !.purged = TRUE]}
      BY <2>1 DEF Elapse, CleanupList, CleanupDelete, PurgePromoted
    <3> QED
      BY <1>1, <3>1 DEF ScannedRow
  <2>2. CASE \E j \in Jobs : Recover(j)
    BY <1>1, <2>2 DEF Recover, ScannedRow, Statuses
  <2>3. CASE CleanupClaim
    <3>1. CASE row.status = cleaner.status
      <4>1. cleaner.status \in {"QUARANTINED", "ERROR"}
        BY <1>1, <2>3 DEF CleanupClaim, Cleaning, NotCleaning
      <4> QED
        BY <1>1, <2>3, <3>1, <4>1 DEF CleanupClaim, ScannedRow, Statuses
    <3>2. CASE row.status # cleaner.status
      BY <1>1, <2>3, <3>2 DEF CleanupClaim
    <3> QED
      BY <3>1, <3>2
  <2> QED
    BY <2>1, <2>2, <2>3
<1>4. left' \in [Jobs -> 0 .. Attempts]
  BY <1>1, ScanAssumption DEF Recover, Elapse, CleanupList, CleanupClaim, CleanupDelete, PurgePromoted
<1>5. /\ cleaner' \in Cleaning
      /\ ~disturbed => (cleaner' # NotCleaning => cleaner'.key = "quarantine")
  <2>1. CASE UNCHANGED cleaner
    BY <1>1, <2>1 DEF ScanInv, Alone
  <2>2. CASE cleaner' = NotCleaning
    BY <2>2 DEF Cleaning
  <2>3. CASE CleanupList
    <3>1. cleaner' = [pc |-> "claim", status |-> row.status, key |-> row.key] /\ row.status \in {"QUARANTINED", "ERROR"}
      BY <2>3 DEF CleanupList
    <3>2. row.key \in Places
      BY <1>1 DEF ScannedRow
    <3> QED
      BY <3>1, <3>2 DEF Cleaning, ScanInv, Alone, Places
  <2>4. CASE cleaner.pc = "claim" /\ cleaner' = [cleaner EXCEPT !.pc = "delete"]
    <3>1. cleaner # NotCleaning
      BY <2>4 DEF NotCleaning
    <3>2. cleaner' \in Cleaning /\ cleaner'.key = cleaner.key
      BY <1>1, <2>4, <3>1 DEF Cleaning
    <3> QED
      BY <3>1, <3>2 DEF ScanInv, Alone
  <2> QED
    BY <2>1, <2>2, <2>3, <2>4 DEF Recover, Elapse, CleanupList, CleanupClaim, CleanupDelete, PurgePromoted
<1>6. objects' \subseteq objects /\ (~disturbed => ("clean" \in objects => "clean" \in objects'))
  <2>1. CASE CleanupDelete
    <3>1. cleaner # NotCleaning
      BY <2>1 DEF CleanupDelete, NotCleaning
    <3> QED
      BY <2>1, <3>1 DEF CleanupDelete, ScanInv, Alone
  <2>2. CASE ~CleanupDelete
    BY <2>2 DEF Recover, Elapse, CleanupList, CleanupClaim, PurgePromoted
  <2> QED
    BY <2>1, <2>2
<1>7. ScanTypeOK'
  BY <1>1, <1>2, <1>3, <1>4, <1>5, <1>6 DEF ScanInv, ScanTypeOK, ScannedRow, Cleaning
<1>8. NothingFineIsLeft'
  BY <1>2, <1>3, <1>6 DEF ScanInv, NothingFineIsLeft
<1>9. disturbed' \/ Alone'
  BY <1>2, <1>3, <1>5, <1>6 DEF ScanInv, Alone
<1> QED
  BY <1>7, <1>8, <1>9 DEF ScanInv

LEMMA ScanStepHolds == ScanInv /\ [ScanNext]_scanVars => ScanInv'
<1>1. ScanInv /\ UNCHANGED scanVars => ScanInv'
  BY DEF scanVars, ScanInv, ScanTypeOK, NothingFineIsLeft, Alone
<1> QED
  BY <1>1, ScanClaims, ScanWorks, ScanCrons DEF ScanNext

LEMMA ScanHolds == ScanInv => ScanTypeOK /\ CleanHasObjectUnlessDisturbed /\ OnlyFineIsClean
BY DEF ScanInv, Alone, NothingFineIsLeft, CleanHasObjectUnlessDisturbed, CleanHasObject, OnlyFineIsClean

-----------------------------------------------------------------------------
(* The uploads of a requester.                                               *)

UploadStages == {"find", "check", "move", "insert", "collided", "undo"}
Uploading == {NoUpload} \cup [pc: UploadStages, file: FileIds, key: UploadKeys, content: Contents]
OnDisk == [at: {"nowhere", "incoming", "quarantine"}, old: BOOLEAN]
StoredRow == [file: FileIds, key: UploadKeys, content: Contents, live: BOOLEAN, recent: BOOLEAN]
Answer == [key: UploadKeys, content: Contents, file: FileIds]

(* A name on disk belongs to one upload or to rows, never to both; what an   *)
(* upload has put on disk is not old.                                        *)
OwnFiles ==
  /\ \A u, v \in Uploaders : uploads[u] # NoUpload /\ uploads[v] # NoUpload /\ uploads[u].file = uploads[v].file => u = v
  /\ \A u \in Uploaders : uploads[u] # NoUpload =>
       ~disk[uploads[u].file].old /\ \A r \in stored : r.file # uploads[u].file

AnswersFrom(rows, a) ==
  \A x \in a : x \in Answer /\ \E r \in rows : r.live /\ r.key = x.key /\ r.file = x.file /\ r.content = x.content

(* A key has one live row, which gives all the answers to it.                *)
OneLiveRow ==
  /\ \A r, s \in stored : r.live /\ s.live /\ r.key = s.key => r = s
  /\ AnswersFrom(stored, answered)

RecentRows == {r \in stored : r.recent}
Admitted == {u \in Uploaders : uploads[u].pc \in {"move", "insert"}}

(* The rows of the hour and the uploads that the quota has let through.      *)
QuotaKept ==
  /\ IsFiniteSet(RecentRows)
  /\ Cardinality(RecentRows) + Cardinality(Admitted) < HourlyLimit + Cardinality(Uploaders)

UploadInv == UploadTypeOK /\ OwnFiles /\ RowHasFile /\ OneLiveRow /\ QuotaKept

LEMMA UploadTypes == UploadTypeOK =>
  /\ uploads \in [Uploaders -> Uploading] /\ disk \in [FileIds -> OnDisk]
  /\ stored \subseteq StoredRow /\ answered \subseteq Answer
BY DEF UploadTypeOK, Uploading, UploadStages, OnDisk, StoredRow, Answer

LEMMA UploadingFields ==
  ASSUME NEW q \in Uploading
  PROVE  /\ q # NoUpload <=> q.pc \in UploadStages
         /\ q = NoUpload <=> q.pc = "idle"
         /\ q # NoUpload => q.file \in FileIds /\ q.key \in UploadKeys /\ q.content \in Contents
BY DEF Uploading, NoUpload, UploadStages

LEMMA UploadersAreFinite == IsFiniteSet(Uploaders) /\ Cardinality(Uploaders) \in Nat
BY UploadsAssumption, FS_CardinalityType

LEMMA UploadInitHolds == UploadInit => UploadInv
<1> SUFFICES ASSUME UploadInit PROVE UploadInv
  OBVIOUS
<1>1. UploadTypeOK
  BY DEF UploadInit, UploadTypeOK, NoUpload, Nowhere
<1>2. OwnFiles /\ RowHasFile /\ OneLiveRow
  BY DEF UploadInit, OwnFiles, RowHasFile, OneLiveRow, AnswersFrom
<1>3. QuotaKept
  <2>1. RecentRows = {} /\ Admitted = {}
    BY DEF UploadInit, RecentRows, Admitted, NoUpload
  <2>2. Cardinality({}) = 0 /\ IsFiniteSet({})
    BY FS_EmptySet
  <2> QED
    BY <2>1, <2>2, UploadersAreFinite, UploadsAssumption DEF QuotaKept
<1> QED
  BY <1>1, <1>2, <1>3 DEF UploadInv

LEMMA UploadGoes ==
  ASSUME UploadTypeOK, NEW u \in Uploaders, uploads[u] # NoUpload, NEW pc \in UploadStages, To(u, pc)
  PROVE  /\ uploads' \in [Uploaders -> Uploading] /\ uploads'[u] # NoUpload /\ uploads'[u].pc = pc
         /\ uploads'[u].file = uploads[u].file /\ \A v \in Uploaders \ {u} : uploads'[v] = uploads[v]
<1>1. uploads \in [Uploaders -> Uploading] /\ uploads[u] \in Uploading
  BY UploadTypes
<1>2. PICK q : q = [uploads[u] EXCEPT !.pc = pc]
  OBVIOUS
<1>3. q \in Uploading /\ q.pc = pc /\ q.file = uploads[u].file
  BY <1>1, <1>2 DEF Uploading, NoUpload
<1>4. q # NoUpload
  BY <1>3, UploadingFields
<1>5. uploads' = [uploads EXCEPT ![u] = q]
  BY <1>2 DEF To
<1> QED
  BY <1>1, <1>3, <1>4, <1>5

LEMMA UploadStops ==
  ASSUME UploadTypeOK, NEW u \in Uploaders, Stop(u)
  PROVE  /\ uploads' \in [Uploaders -> Uploading] /\ uploads'[u] = NoUpload /\ uploads'[u].pc = "idle"
         /\ \A v \in Uploaders \ {u} : uploads'[v] = uploads[v]
BY UploadTypes DEF Stop, Uploading, NoUpload

(* An upload goes on or stops without touching the rows: its file may move,  *)
(* and only an upload under the quota is let through.                        *)
LEMMA UploadMoves ==
  ASSUME UploadInv, NEW u \in Uploaders, NEW f \in FileIds,
         uploads' \in [Uploaders -> Uploading], \A v \in Uploaders \ {u} : uploads'[v] = uploads[v],
         \A v \in Uploaders \ {u} : uploads[v] # NoUpload => uploads[v].file # f,
         uploads'[u] # NoUpload => uploads'[u].file = f,
         \A r \in stored : r.file # f,
         disk' \in [FileIds -> OnDisk], \A g \in FileIds \ {f} : disk'[g] = disk[g],
         ~disk'[f].old,
         uploads'[u].pc \in {"insert", "collided"} =>
           disk'[f].at = IF uploads'[u].pc = "insert" THEN "quarantine" ELSE "nowhere",
         stored' = stored, AnswersFrom(stored, answered'),
         uploads'[u].pc \in {"move", "insert"} => UnderQuota \/ uploads[u].pc \in {"move", "insert"}
  PROVE  UploadInv'
<1>1. /\ uploads \in [Uploaders -> Uploading] /\ disk \in [FileIds -> OnDisk]
      /\ stored \subseteq StoredRow /\ answered \subseteq Answer
  BY UploadTypes DEF UploadInv
<1>2. UploadTypeOK'
  <2>1. \A g \in FileIds : disk'[g].at = "nowhere" => ~disk'[g].old
    BY DEF UploadInv, UploadTypeOK
  <2>2. ASSUME NEW v \in Uploaders, uploads'[v].pc \in {"insert", "collided"}
        PROVE  disk'[uploads'[v].file].at = IF uploads'[v].pc = "insert" THEN "quarantine" ELSE "nowhere"
    <3>1. uploads'[v] # NoUpload /\ uploads'[v].file \in FileIds
      BY <2>2, UploadingFields DEF UploadStages
    <3>2. CASE v = u
      BY <2>2, <3>1, <3>2
    <3>3. CASE v # u
      BY <1>1, <2>2, <3>1, <3>3 DEF UploadInv, UploadTypeOK
    <3> QED
      BY <3>2, <3>3
  <2> QED
    BY <1>1, <2>1, <2>2 DEF UploadTypeOK, Uploading, UploadStages, OnDisk, StoredRow, Answer, AnswersFrom
<1>3. OwnFiles'
  <2>1. \A v, w \in Uploaders : uploads'[v] # NoUpload /\ uploads'[w] # NoUpload /\ uploads'[v].file = uploads'[w].file => v = w
    BY DEF UploadInv, OwnFiles
  <2>2. ASSUME NEW v \in Uploaders, uploads'[v] # NoUpload
        PROVE  ~disk'[uploads'[v].file].old /\ \A r \in stored' : r.file # uploads'[v].file
    <3>1. CASE v = u
      BY <2>2, <3>1
    <3>2. CASE v # u
      <4>1. uploads'[v] = uploads[v] /\ uploads[v].file \in FileIds \ {f}
        BY <1>1, <2>2, <3>2, UploadingFields
      <4> QED
        BY <2>2, <4>1 DEF UploadInv, OwnFiles
    <3> QED
      BY <3>1, <3>2
  <2> QED
    BY <2>1, <2>2 DEF OwnFiles
<1>4. RowHasFile'
  BY <1>1 DEF UploadInv, RowHasFile, StoredRow
<1>5. OneLiveRow'
  BY DEF UploadInv, OneLiveRow
<1>6. QuotaKept'
  <2>1. RecentRows' = RecentRows /\ IsFiniteSet(RecentRows) /\ Cardinality(RecentRows) \in Nat
    BY FS_CardinalityType DEF UploadInv, QuotaKept, RecentRows
  <2>2. Admitted' \subseteq Uploaders /\ Admitted \subseteq Uploaders
    BY DEF Admitted
  <2>3. /\ Cardinality(Admitted') \in Nat /\ Cardinality(Admitted) \in Nat
        /\ Cardinality(Admitted') <= Cardinality(Uploaders) /\ IsFiniteSet(Admitted)
    BY <2>2, UploadersAreFinite, NoMore
  <2>4. CASE UnderQuota
    <3>1. Cardinality(RecentRows) < HourlyLimit
      BY <2>4 DEF UnderQuota, RecentRows
    <3> QED
      BY <2>1, <2>3, <3>1, UploadersAreFinite, UploadsAssumption DEF QuotaKept
  <2>5. CASE ~UnderQuota
    <3>1. Admitted' \subseteq Admitted
      BY <2>5 DEF Admitted
    <3>2. Cardinality(Admitted') <= Cardinality(Admitted)
      BY <2>3, <3>1, NoMore
    <3> QED
      BY <2>1, <2>3, <3>2, UploadersAreFinite, UploadsAssumption DEF QuotaKept, UploadInv
  <2> QED
    BY <2>4, <2>5
<1> QED
  BY <1>2, <1>3, <1>4, <1>5, <1>6 DEF UploadInv

(* An answer given again, by the live row of its key.                        *)
LEMMA UploadAnswers ==
  ASSUME UploadInv, NEW u \in Uploaders, NEW r \in stored, r.live, ReplayUpload(u, r)
  PROVE  AnswersFrom(stored, answered')
<1>1. stored \subseteq StoredRow
  BY UploadTypes DEF UploadInv
<1>2. PICK q : q = [key |-> r.key, content |-> r.content, file |-> r.file]
  OBVIOUS
<1>3. q \in Answer /\ q.key = r.key /\ q.content = r.content /\ q.file = r.file
  BY <1>1, <1>2 DEF Answer, StoredRow
<1>4. answered' \subseteq answered \cup {q}
  BY <1>2 DEF ReplayUpload
<1> QED
  BY <1>1, <1>3, <1>4 DEF UploadInv, OneLiveRow, AnswersFrom

LEMMA DiscardKeeps ==
  ASSUME UploadTypeOK, NEW f \in FileIds, Discard(f) \/ Remove(f) \/ UNCHANGED disk
  PROVE  /\ disk' \in [FileIds -> OnDisk] /\ \A g \in FileIds \ {f} : disk'[g] = disk[g]
         /\ ~disk[f].old => ~disk'[f].old
         /\ Remove(f) => disk'[f].at = "nowhere"
<1>1. disk \in [FileIds -> OnDisk]
  BY UploadTypes
<1>2. Nowhere \in OnDisk /\ ~Nowhere.old /\ Nowhere.at = "nowhere"
  BY DEF Nowhere, OnDisk
<1>3. disk' = disk \/ disk' = [disk EXCEPT ![f] = Nowhere]
  BY DEF Discard, Remove
<1>4. Remove(f) => disk' = [disk EXCEPT ![f] = Nowhere]
  BY DEF Remove
<1> QED
  BY <1>1, <1>2, <1>3, <1>4

LEMMA UploadReceives ==
  ASSUME UploadInv, NEW u \in Uploaders, NEW f \in FileIds, NEW k \in UploadKeys, NEW x \in Contents,
         ReceiveFile(u, f, k, x)
  PROVE  UploadInv'
<1>1. uploads \in [Uploaders -> Uploading] /\ disk \in [FileIds -> OnDisk] /\ UploadTypeOK
  BY UploadTypes DEF UploadInv
<1> DEFINE q == [pc |-> "find", file |-> f, key |-> k, content |-> x]
           d == [at |-> "incoming", old |-> FALSE]
<1>2. q \in Uploading /\ q.file = f /\ q.pc = "find"
  BY DEF Uploading, UploadStages
<1>3. d \in OnDisk /\ ~d.old
  BY DEF OnDisk
<1>4. uploads' = [uploads EXCEPT ![u] = q] /\ disk' = [disk EXCEPT ![f] = d] /\ UNCHANGED <<stored, answered>>
  BY DEF ReceiveFile, Put
<1> HIDE DEF q, d
<1>5. /\ uploads' \in [Uploaders -> Uploading] /\ uploads'[u] = q /\ \A v \in Uploaders \ {u} : uploads'[v] = uploads[v]
      /\ disk' \in [FileIds -> OnDisk] /\ \A g \in FileIds \ {f} : disk'[g] = disk[g] /\ ~disk'[f].old
  BY <1>1, <1>2, <1>3, <1>4
<1>6. (\A r \in stored : r.file # f) /\ \A v \in Uploaders \ {u} : uploads[v] # NoUpload => uploads[v].file # f
  BY DEF ReceiveFile
<1>7. ~disk'[f].old
  BY <1>1, <1>3, <1>4
<1>8. stored' = stored /\ AnswersFrom(stored, answered')
  BY <1>4 DEF UploadInv, OneLiveRow
<1>9. uploads'[u].pc \notin {"insert", "collided", "move"} /\ uploads'[u].file = f
  BY <1>2, <1>5
<1> QED
  BY <1>5, <1>6, <1>7, <1>8, <1>9, UploadMoves

(* An upload under way and its file.                                         *)
LEMMA UploadOwns ==
  ASSUME UploadInv, NEW u \in Uploaders, uploads[u] # NoUpload
  PROVE  /\ uploads[u].file \in FileIds /\ ~disk[uploads[u].file].old
         /\ \A r \in stored : r.file # uploads[u].file
         /\ \A v \in Uploaders \ {u} : uploads[v] # NoUpload => uploads[v].file # uploads[u].file
<1>1. uploads[u] \in Uploading
  BY UploadTypes DEF UploadInv
<1> QED
  BY <1>1, UploadingFields DEF UploadInv, OwnFiles

LEMMA FindKeyHolds == ASSUME UploadInv, NEW u \in Uploaders, FindKey(u) PROVE UploadInv'
<1>1. UploadTypeOK /\ uploads \in [Uploaders -> Uploading] /\ uploads[u] # NoUpload /\ disk \in [FileIds -> OnDisk]
  BY UploadTypes DEF UploadInv, FindKey, In, NoUpload
<1>2. PICK f \in FileIds : f = uploads[u].file
  BY <1>1, UploadOwns
<1>3. /\ ~disk[f].old /\ (\A r \in stored : r.file # f)
      /\ \A v \in Uploaders \ {u} : uploads[v] # NoUpload => uploads[v].file # f
  BY <1>1, <1>2, UploadOwns
<1>4. CASE KeyRows(uploads[u].key) = {}
  <2>1. To(u, "check") /\ UNCHANGED <<disk, stored, answered>>
    BY <1>4 DEF FindKey
  <2>2. /\ uploads' \in [Uploaders -> Uploading] /\ uploads'[u].pc = "check" /\ uploads'[u].file = f
        /\ \A v \in Uploaders \ {u} : uploads'[v] = uploads[v]
    BY <1>1, <1>2, <2>1, UploadGoes DEF UploadStages
  <2>3. AnswersFrom(stored, answered')
    BY <2>1 DEF UploadInv, OneLiveRow
  <2> QED
    BY <1>1, <1>3, <2>1, <2>2, <2>3, UploadMoves
<1>5. CASE KeyRows(uploads[u].key) # {}
  <2>1. PICK r \in KeyRows(uploads[u].key) : ReplayUpload(u, r)
    BY <1>5 DEF FindKey
  <2>2. Discard(f) /\ Stop(u) /\ stored' = stored
    BY <1>2, <1>5 DEF FindKey
  <2>3. AnswersFrom(stored, answered')
    BY <2>1, UploadAnswers DEF KeyRows
  <2>4. disk' \in [FileIds -> OnDisk] /\ (\A g \in FileIds \ {f} : disk'[g] = disk[g]) /\ ~disk'[f].old
    BY <1>1, <1>3, <2>2, DiscardKeeps
  <2>5. /\ uploads' \in [Uploaders -> Uploading] /\ uploads'[u] = NoUpload /\ uploads'[u].pc = "idle"
        /\ \A v \in Uploaders \ {u} : uploads'[v] = uploads[v]
    BY <1>1, <2>2, UploadStops
  <2> QED
    BY <1>3, <2>2, <2>3, <2>4, <2>5, UploadMoves
<1> QED
  BY <1>4, <1>5

LEMMA UploadWorks ==
  ASSUME UploadInv, NEW u \in Uploaders,
         \/ CheckUpload(u) \/ MoveFile(u) \/ ReplayCollision(u) \/ InsertFails(u) \/ KilledUpload(u)
         \/ InsertRow(u) /\ KeyRows(uploads[u].key) # {}
  PROVE  UploadInv'
<1>1. UploadTypeOK /\ uploads \in [Uploaders -> Uploading] /\ uploads[u] # NoUpload /\ disk \in [FileIds -> OnDisk]
  BY UploadTypes DEF UploadInv, CheckUpload, MoveFile, ReplayCollision, InsertFails, KilledUpload, InsertRow, In, NoUpload
<1>2. PICK f \in FileIds : f = uploads[u].file
  BY <1>1, UploadOwns
<1>3. /\ ~disk[f].old /\ (\A r \in stored : r.file # f)
      /\ \A v \in Uploaders \ {u} : uploads[v] # NoUpload => uploads[v].file # f
  BY <1>1, <1>2, UploadOwns
<1>4. stored' = stored
  BY DEF CheckUpload, MoveFile, ReplayCollision, InsertFails, KilledUpload, InsertRow
<1>5. AnswersFrom(stored, answered')
  <2>1. CASE ReplayCollision(u)
    BY <2>1, UploadAnswers DEF ReplayCollision, KeyRows, UploadInv, OneLiveRow
  <2>2. CASE ~ReplayCollision(u)
    BY <2>2 DEF CheckUpload, MoveFile, InsertFails, KilledUpload, InsertRow, UploadInv, OneLiveRow
  <2> QED
    BY <2>1, <2>2
<1>6. Stop(u) => /\ uploads' \in [Uploaders -> Uploading] /\ uploads'[u] = NoUpload /\ uploads'[u].pc = "idle"
                 /\ \A v \in Uploaders \ {u} : uploads'[v] = uploads[v]
  BY <1>1, UploadStops
<1>7. ASSUME Discard(f) \/ Remove(f) \/ UNCHANGED disk
      PROVE  disk' \in [FileIds -> OnDisk] /\ (\A g \in FileIds \ {f} : disk'[g] = disk[g]) /\ ~disk'[f].old
  BY <1>1, <1>3, <1>7, DiscardKeeps
<1>8. CASE Stop(u) /\ (Discard(f) \/ Remove(f) \/ UNCHANGED disk)
  BY <1>3, <1>4, <1>5, <1>6, <1>7, <1>8, UploadMoves
<1>9. CASE CheckUpload(u) /\ UnderQuota /\ To(u, "move") /\ UNCHANGED disk
  <2>1. /\ uploads' \in [Uploaders -> Uploading] /\ uploads'[u].pc = "move" /\ uploads'[u].file = f
        /\ \A v \in Uploaders \ {u} : uploads'[v] = uploads[v]
    BY <1>1, <1>2, <1>9, UploadGoes DEF UploadStages
  <2> QED
    BY <1>3, <1>4, <1>5, <1>7, <1>9, <2>1, UploadMoves
<1>10. CASE MoveFile(u) /\ Put(f, "quarantine") /\ To(u, "insert")
  <2>1. /\ uploads' \in [Uploaders -> Uploading] /\ uploads'[u].pc = "insert" /\ uploads'[u].file = f
        /\ \A v \in Uploaders \ {u} : uploads'[v] = uploads[v]
    BY <1>1, <1>2, <1>10, UploadGoes DEF UploadStages
  <2>2. uploads[u].pc = "move"
    BY <1>10 DEF MoveFile, In
  <2>3. PICK d : d = [at |-> "quarantine", old |-> FALSE]
    OBVIOUS
  <2>4. d \in OnDisk /\ ~d.old /\ d.at = "quarantine"
    BY <2>3 DEF OnDisk
  <2>5. disk' = [disk EXCEPT ![f] = d]
    BY <1>10, <2>3 DEF Put
  <2>6. /\ disk' \in [FileIds -> OnDisk] /\ (\A g \in FileIds \ {f} : disk'[g] = disk[g]) /\ ~disk'[f].old
        /\ disk'[f].at = "quarantine"
    BY <1>1, <2>4, <2>5
  <2> QED
    BY <1>3, <1>4, <1>5, <2>1, <2>2, <2>6, UploadMoves
<1>11. CASE To(u, "collided") /\ Remove(f)
  <2>1. /\ uploads' \in [Uploaders -> Uploading] /\ uploads'[u].pc = "collided" /\ uploads'[u].file = f
        /\ \A v \in Uploaders \ {u} : uploads'[v] = uploads[v]
    BY <1>1, <1>2, <1>11, UploadGoes DEF UploadStages
  <2>2. disk'[f].at = "nowhere"
    BY <1>1, <1>11, DiscardKeeps
  <2> QED
    BY <1>3, <1>4, <1>5, <1>7, <1>11, <2>1, <2>2, UploadMoves
<1> QED
  BY <1>2, <1>8, <1>9, <1>10, <1>11 DEF CheckUpload, MoveFile, ReplayCollision, InsertFails, KilledUpload, InsertRow, KeyRows

LEMMA InsertRowHolds ==
  ASSUME UploadInv, NEW u \in Uploaders, InsertRow(u), KeyRows(uploads[u].key) = {}
  PROVE  UploadInv'
<1>1. /\ UploadTypeOK /\ uploads \in [Uploaders -> Uploading] /\ uploads[u] # NoUpload /\ disk \in [FileIds -> OnDisk]
      /\ stored \subseteq StoredRow /\ uploads[u].pc = "insert"
  BY UploadTypes DEF UploadInv, InsertRow, In, NoUpload
<1>2. PICK f \in FileIds : f = uploads[u].file
  BY <1>1, UploadOwns
<1>3. /\ ~disk[f].old /\ (\A r \in stored : r.file # f) /\ disk[f].at = "quarantine"
      /\ \A v \in Uploaders \ {u} : uploads[v] # NoUpload => uploads[v].file # f
  BY <1>1, <1>2, UploadOwns DEF UploadTypeOK
<1>4. PICK r : r = [file |-> uploads[u].file, key |-> uploads[u].key, content |-> uploads[u].content, live |-> TRUE, recent |-> TRUE]
  OBVIOUS
<1>5. /\ r \in StoredRow /\ r.file = f /\ r.key = uploads[u].key /\ r.live /\ r.recent
      /\ r.content = uploads[u].content
  BY <1>1, <1>2, <1>4, UploadingFields DEF StoredRow
<1>6. KeyRows(r.key) = {} /\ stored' = stored \cup {r} /\ ReplayUpload(u, r) /\ Stop(u) /\ UNCHANGED disk
  BY <1>4, <1>5 DEF InsertRow
<1>7. /\ uploads' \in [Uploaders -> Uploading] /\ uploads'[u] = NoUpload /\ uploads'[u].pc = "idle"
      /\ \A v \in Uploaders \ {u} : uploads'[v] = uploads[v]
  BY <1>1, <1>6, UploadStops
<1>8. AnswersFrom(stored', answered')
  <2>1. PICK q : q = [key |-> r.key, content |-> r.content, file |-> r.file]
    OBVIOUS
  <2>2. q \in Answer /\ q.key = r.key /\ q.content = r.content /\ q.file = r.file
    BY <1>5, <2>1 DEF Answer, StoredRow
  <2>3. answered' \subseteq answered \cup {q}
    BY <1>6, <2>1 DEF ReplayUpload
  <2> QED
    BY <1>5, <1>6, <2>2, <2>3 DEF UploadInv, OneLiveRow, AnswersFrom
<1>9. OneLiveRow'
  BY <1>5, <1>6, <1>8 DEF UploadInv, OneLiveRow, KeyRows
<1>10. RowHasFile'
  BY <1>3, <1>5, <1>6 DEF UploadInv, RowHasFile
<1>11. OwnFiles'
  BY <1>3, <1>5, <1>6, <1>7 DEF UploadInv, OwnFiles
<1>12. UploadTypeOK'
  <2>1. \A v \in Uploaders : uploads'[v].pc \in {"insert", "collided"} =>
           disk'[uploads'[v].file].at = IF uploads'[v].pc = "insert" THEN "quarantine" ELSE "nowhere"
    BY <1>6, <1>7 DEF UploadInv, UploadTypeOK
  <2>2. (\A g \in FileIds : disk'[g].at = "nowhere" => ~disk'[g].old) /\ disk' \in [FileIds -> OnDisk]
    BY <1>1, <1>6 DEF UploadTypeOK
  <2>3. stored' \subseteq StoredRow /\ answered' \subseteq Answer
    BY <1>1, <1>5, <1>6, <1>8 DEF AnswersFrom
  <2> QED
    BY <1>7, <2>1, <2>2, <2>3 DEF UploadTypeOK, Uploading, UploadStages, OnDisk, StoredRow, Answer
<1>13. QuotaKept'
  <2>1. IsFiniteSet(RecentRows) /\ RecentRows' \subseteq RecentRows \cup {r}
    BY <1>6 DEF UploadInv, QuotaKept, RecentRows
  <2>2. IsFiniteSet(RecentRows') /\ {Cardinality(RecentRows), Cardinality(RecentRows')} \subseteq Nat
        /\ Cardinality(RecentRows') <= Cardinality(RecentRows) + 1
    BY <2>1, OneMore
  <2>3. u \in Admitted /\ Admitted \subseteq Uploaders /\ Admitted' \subseteq Admitted \ {u}
    BY <1>1, <1>7 DEF Admitted
  <2>4. IsFiniteSet(Admitted)
    BY <2>3, UploadersAreFinite, NoMore
  <2>5. {Cardinality(Admitted), Cardinality(Admitted')} \subseteq Nat /\ Cardinality(Admitted') + 1 <= Cardinality(Admitted)
    BY <2>3, <2>4, OneLess
  <2> QED
    BY <2>2, <2>5, UploadersAreFinite, UploadsAssumption DEF UploadInv, QuotaKept
<1> QED
  BY <1>9, <1>10, <1>11, <1>12, <1>13 DEF UploadInv

LEMMA UploadTimeHolds == ASSUME UploadInv, TimePasses \/ \E f \in FileIds : RemoveOld(f) PROVE UploadInv'
<1>1. disk \in [FileIds -> OnDisk] /\ stored \subseteq StoredRow
  BY UploadTypes DEF UploadInv
<1>2. CASE TimePasses
  <2>1. uploads' = uploads /\ answered' = {} /\ \A u \in Uploaders : uploads[u] = NoUpload
    BY <1>2 DEF TimePasses
  <2>2. ASSUME NEW s \in stored'
        PROVE  s \in StoredRow /\ ~s.recent /\ \E r \in stored : s.file = r.file /\ s.key = r.key /\ (s.live => r.live /\ s = [r EXCEPT !.recent = FALSE])
    <3>1. CASE stored' = {[r EXCEPT !.recent = FALSE] : r \in stored}
      BY <1>1, <2>2, <3>1 DEF StoredRow
    <3>2. CASE stored' = {[r EXCEPT !.recent = FALSE, !.live = FALSE] : r \in stored}
      <4>1. PICK r \in stored : s = [r EXCEPT !.recent = FALSE, !.live = FALSE]
        BY <2>2, <3>2
      <4>2. s \in StoredRow
        BY <1>1, <4>1 DEF StoredRow
      <4>3. ~s.recent /\ ~s.live /\ s.file = r.file /\ s.key = r.key
        BY <1>1, <4>1 DEF StoredRow
      <4> QED
        BY <4>2, <4>3
    <3> QED
      BY <1>2, <3>1, <3>2 DEF TimePasses
  <2>3. /\ disk' \in [FileIds -> OnDisk]
        /\ \A f \in FileIds : disk'[f].at = disk[f].at /\ (disk'[f].at = "nowhere" => ~disk'[f].old)
    <3>1. CASE UNCHANGED disk
      BY <1>1, <3>1 DEF UploadInv, UploadTypeOK
    <3>2. CASE disk' = [f \in FileIds |-> IF disk[f].at = "nowhere" THEN Nowhere ELSE [disk[f] EXCEPT !.old = TRUE]]
      <4>1. ASSUME NEW f \in FileIds
            PROVE  disk'[f] \in OnDisk /\ disk'[f].at = disk[f].at /\ (disk'[f].at = "nowhere" => ~disk'[f].old)
        <5>1. CASE disk[f].at = "nowhere"
          BY <3>2, <5>1 DEF Nowhere, OnDisk
        <5>2. CASE disk[f].at # "nowhere"
          <6>1. disk'[f] = [disk[f] EXCEPT !.old = TRUE] /\ disk[f] \in OnDisk
            BY <1>1, <3>2, <5>2
          <6> QED
            BY <5>2, <6>1 DEF OnDisk
        <5> QED
          BY <5>1, <5>2
      <4> QED
        BY <3>2, <4>1
    <3> QED
      BY <1>2, <3>1, <3>2 DEF TimePasses
  <2>4. RowHasFile'
    BY <1>1, <2>2, <2>3 DEF UploadInv, RowHasFile, StoredRow
  <2>5. OwnFiles'
    BY <2>1 DEF OwnFiles
  <2>6. OneLiveRow'
    <3>1. ASSUME NEW s \in stored', NEW q \in stored', s.live, q.live, s.key = q.key
          PROVE  s = q
      <4>1. PICK r \in stored : s.key = r.key /\ r.live /\ s = [r EXCEPT !.recent = FALSE]
        BY <2>2, <3>1
      <4>2. PICK p \in stored : q.key = p.key /\ p.live /\ q = [p EXCEPT !.recent = FALSE]
        BY <2>2, <3>1
      <4>3. r = p
        BY <3>1, <4>1, <4>2 DEF UploadInv, OneLiveRow
      <4> QED
        BY <4>1, <4>2, <4>3
    <3> QED
      BY <2>1, <3>1 DEF OneLiveRow, AnswersFrom
  <2>7. UploadTypeOK'
    <3>1. \A u \in Uploaders : uploads'[u].pc \notin {"insert", "collided"}
      BY <2>1 DEF NoUpload
    <3>2. stored' \subseteq StoredRow /\ uploads' \in [Uploaders -> Uploading]
      BY <2>1, <2>2, UploadTypes DEF UploadInv
    <3> QED
      BY <2>1, <2>3, <3>1, <3>2 DEF UploadTypeOK, Uploading, UploadStages, OnDisk, StoredRow, Answer
  <2>8. QuotaKept'
    <3>1. RecentRows' = {} /\ Admitted' \subseteq Uploaders
      BY <2>2 DEF RecentRows, Admitted
    <3>2. Cardinality(Admitted') \in Nat /\ Cardinality(Admitted') <= Cardinality(Uploaders)
      BY <3>1, UploadersAreFinite, NoMore
    <3>3. IsFiniteSet({}) /\ Cardinality({}) = 0
      BY FS_EmptySet
    <3> QED
      BY <3>1, <3>2, <3>3, UploadersAreFinite, UploadsAssumption DEF QuotaKept
  <2> QED
    BY <2>4, <2>5, <2>6, <2>7, <2>8 DEF UploadInv
<1>3. ASSUME NEW f \in FileIds, RemoveOld(f) PROVE UploadInv'
  <2>1. UNCHANGED <<uploads, stored, answered>> /\ Remove(f) /\ disk[f].old
    BY <1>3 DEF RemoveOld, Removable
  <2>2. \A u \in Uploaders : uploads[u] # NoUpload => uploads[u].file # f
    BY <2>1 DEF UploadInv, OwnFiles
  <2>3. \A r \in stored : r.file # f
    BY <1>3 DEF RemoveOld, Removable, UploadInv, RowHasFile
  <2>4. /\ disk' \in [FileIds -> OnDisk] /\ \A g \in FileIds \ {f} : disk'[g] = disk[g]
        /\ disk'[f].at = "nowhere"
    BY <2>1, DiscardKeeps DEF UploadInv
  <2>5. ~disk'[f].old
    BY <1>1, <2>1 DEF Remove, Nowhere
  <2>6. RowHasFile'
    BY <1>1, <2>1, <2>3, <2>4 DEF UploadInv, RowHasFile, StoredRow
  <2>7. OwnFiles'
    <3>1. \A u \in Uploaders : uploads[u] # NoUpload => uploads[u].file \in FileIds \ {f}
      BY <2>2, UploadOwns
    <3> QED
      BY <2>1, <2>4, <3>1 DEF UploadInv, OwnFiles
  <2>8. UploadTypeOK'
    <3>1. ASSUME NEW u \in Uploaders, uploads[u].pc \in {"insert", "collided"}
          PROVE  uploads[u].file \in FileIds \ {f}
      BY <2>2, <3>1, UploadOwns DEF NoUpload
    <3>2. \A u \in Uploaders : uploads'[u].pc \in {"insert", "collided"} =>
           disk'[uploads'[u].file].at = IF uploads'[u].pc = "insert" THEN "quarantine" ELSE "nowhere"
      BY <2>1, <2>4, <3>1 DEF UploadInv, UploadTypeOK
    <3>3. \A g \in FileIds : disk'[g].at = "nowhere" => ~disk'[g].old
      BY <2>4, <2>5 DEF UploadInv, UploadTypeOK
    <3> QED
      BY <2>1, <2>4, <3>2, <3>3 DEF UploadInv, UploadTypeOK, OnDisk
  <2>9. OneLiveRow' /\ QuotaKept'
    BY <2>1 DEF UploadInv, OneLiveRow, QuotaKept, RecentRows, Admitted
  <2> QED
    BY <2>6, <2>7, <2>8, <2>9 DEF UploadInv
<1> QED
  BY <1>2, <1>3

LEMMA UploadStepHolds == UploadInv /\ [UploadNext]_uploadVars => UploadInv'
<1>1. UploadInv /\ UNCHANGED uploadVars => UploadInv'
  BY DEF uploadVars, UploadInv, UploadTypeOK, OwnFiles, RowHasFile, OneLiveRow, QuotaKept, RecentRows, Admitted
<1> QED
  BY <1>1, UploadReceives, FindKeyHolds, UploadWorks, InsertRowHolds, UploadTimeHolds DEF UploadNext

LEMMA UploadHolds == UploadInv => UploadTypeOK /\ RowHasFile /\ OneFilePerKey /\ UploadsBounded
<1> SUFFICES ASSUME UploadInv PROVE OneFilePerKey /\ UploadsBounded
  BY DEF UploadInv
<1>1. OneFilePerKey
  BY DEF UploadInv, OneLiveRow, OneFilePerKey, AnswersFrom
<1>2. UploadsBounded
  <2>1. Admitted \subseteq Uploaders
    BY DEF Admitted
  <2>2. Cardinality(Admitted) \in Nat /\ Cardinality(RecentRows) \in Nat
    BY <2>1, UploadersAreFinite, NoMore, FS_CardinalityType DEF UploadInv, QuotaKept
  <2> QED
    BY <2>2, UploadersAreFinite, UploadsAssumption DEF UploadInv, QuotaKept, RecentRows, UploadsBounded
<1> QED
  BY <1>1, <1>2

-----------------------------------------------------------------------------
(* The events of one ticket and those who are told.                          *)

CommitRow == [kind: Events, who: People]
HandlerRow == [n: Numbers, pc: {"read", "tell"}, to: SUBSET (People \X Said)]

EventVarsOK ==
  /\ holder \in Holders \cup {Nobody} /\ deleted \in BOOLEAN
  /\ commits \in Seq(CommitRow) /\ Len(commits) <= MaxCommits
  /\ handlers \subseteq HandlerRow /\ notices \subseteq Notices /\ inbox \in [People -> Seq(Notices)]
  /\ mishap \in BOOLEAN /\ overlapped \in BOOLEAN
  /\ auditing \cup trail \subseteq 1 .. Len(commits) /\ auditing \cap trail = {}

(* A notice that went its way already.                                       *)
Received(j) == \E i \in 1 .. Len(inbox[j.to]) : inbox[j.to][i] = j
Given(j) == j \in notices \/ Received(j)
Notice(n, x) == [n |-> n, to |-> x[1], kind |-> x[2]]
(* It is about a commit, or warns a supervisor of it.                        *)
Says(n, k) == n \in 1 .. Len(commits) /\ k \in {commits[n].kind, "alert"}

(* A handler that has not read the ticket has told nobody; one that has tells*)
(* each person that is left for the first time.                              *)
HandlerAgrees(h) ==
  /\ h.n \in 1 .. Len(commits) /\ \A x \in h.to : Says(h.n, x[2])
  /\ h.pc = "read" => \A j \in Notices : j.n = h.n => ~Given(j)
  /\ h.pc = "tell" => \A x \in h.to : ~Given(Notice(h.n, x))

InboxAgrees(u) ==
  \A i \in 1 .. Len(inbox[u]) :
    /\ inbox[u][i].to = u /\ Says(inbox[u][i].n, inbox[u][i].kind)
    /\ \A k \in 1 .. Len(inbox[u]) : inbox[u][i] = inbox[u][k] => i = k

EachToldOnce ==
  /\ \A h, g \in handlers : h.n = g.n => h = g
  /\ \A h \in handlers : HandlerAgrees(h)
  /\ \A j \in notices : Says(j.n, j.kind) /\ ~Received(j)
  /\ \A u \in People : InboxAgrees(u)

(* Only the last commit is being told, as long as none was told beside it.   *)
Coming(u) ==
  \E k \in {"assigned", "escalated"} :
    \/ \E h \in handlers : <<u, k>> \in h.to
    \/ \E j \in notices : j.to = u /\ j.kind = k

HolderHears ==
  ~mishap /\ ~overlapped =>
    /\ \A h \in handlers : h.n = Len(commits)
    /\ \A j \in notices : j.n = Len(commits)
    /\ commits # <<>> /\ commits[Len(commits)].kind = "deassigned" => holder = Nobody
    /\ holder # Nobody => Knows(holder) \/ Coming(holder)

Traced == \A n \in 1 .. Len(commits) : commits[n].kind # "escalated" => n \in auditing \cup trail \/ mishap

EventsInv == EventVarsOK /\ EachToldOnce /\ HolderHears /\ Traced

-----------------------------------------------------------------------------

LEMMA EventsInitHolds == EventsInit => EventsInv
<1> SUFFICES ASSUME EventsInit PROVE EventsInv
  OBVIOUS
<1>1. /\ holder = Nobody /\ deleted = FALSE /\ commits = <<>> /\ handlers = {} /\ auditing = {} /\ trail = {} /\ notices = {}
      /\ inbox = [u \in People |-> <<>>] /\ mishap = FALSE /\ overlapped = FALSE
  BY DEF EventsInit
<1>2. <<>> \in Seq(CommitRow) /\ <<>> \in Seq(Notices) /\ Len(<<>>) = 0 /\ 0 <= MaxCommits
  BY EventsAssumption
<1>3. EventVarsOK
  BY <1>1, <1>2 DEF EventVarsOK
<1>4. \A u \in People : Len(inbox[u]) = 0
  BY <1>1
<1>5. EachToldOnce
  BY <1>1, <1>4 DEF EachToldOnce, InboxAgrees
<1> QED
  BY <1>1, <1>3, <1>5 DEF EventsInv, HolderHears, Traced

(* Longer inboxes and commits keep what was said.                            *)
LEMMA SaysStays ==
  ASSUME commits \in Seq(CommitRow), NEW c \in CommitRow, commits' = Append(commits, c)
  PROVE  /\ Len(commits') = Len(commits) + 1 /\ Len(commits) \in Nat /\ commits' \in Seq(CommitRow)
         /\ commits'[Len(commits) + 1] = c
         /\ \A n \in 1 .. Len(commits) : commits'[n] = commits[n]
         /\ \A n, k : Says(n, k) => Says(n, k)'
<1>1. /\ Len(commits') = Len(commits) + 1 /\ Len(commits) \in Nat /\ commits' \in Seq(CommitRow)
      /\ commits'[Len(commits) + 1] = c
      /\ \A n \in 1 .. Len(commits) : commits'[n] = commits[n]
  OBVIOUS
<1> QED
  BY <1>1 DEF Says

LEMMA EmitHolds ==
  ASSUME EventsInv, NEW k \in Events, NEW u \in People, Emit(k, u), deleted' \in BOOLEAN,
         \/ holder' = holder /\ k # "deassigned"
         \/ holder' = u /\ u \in Holders /\ k \in {"assigned", "escalated"}
         \/ holder' = Nobody
  PROVE  EventsInv'
<1>1. PICK n : n = Len(commits) + 1
  OBVIOUS
<1>2. PICK c : c = [kind |-> k, who |-> u]
  OBVIOUS
<1>3. c \in CommitRow /\ c.kind = k /\ c.who = u
  BY <1>2 DEF CommitRow
<1>4. /\ EventVarsOK /\ EachToldOnce /\ commits' = Append(commits, c) /\ n <= MaxCommits
      /\ handlers' = handlers \cup Handler(k, u, n) /\ auditing' = auditing \cup AuditJobs(k, n)
      /\ overlapped' = (overlapped \/ handlers \cup notices # {})
      /\ trail' = trail /\ notices' = notices /\ inbox' = inbox /\ mishap' = mishap
  BY <1>1, <1>2 DEF EventsInv, Emit
<1>5. /\ Len(commits') = n /\ n \in 1 .. MaxCommits /\ Len(commits) \in Nat /\ Len(commits) = n - 1 /\ commits' \in Seq(CommitRow)
      /\ commits'[n] = c
      /\ \A m \in 1 .. Len(commits) : commits'[m] = commits[m]
      /\ \A m, s : Says(m, s) => Says(m, s)'
  BY <1>1, <1>3, <1>4, SaysStays, EventsAssumption DEF EventVarsOK
<1>6. PICK p \in {"read", "tell"} : p = IF k = "assigned" THEN "tell" ELSE "read"
  OBVIOUS
<1>7. PICK to \in SUBSET (People \X Said) : to = {<<u, k>>}
  <2>1. <<u, k>> \in People \X Said
    BY DEF Said
  <2>2. {<<u, k>>} \in SUBSET (People \X Said)
    BY <2>1
  <2> QED
    BY <2>2
<1>8. PICK h : h = [n |-> n, pc |-> p, to |-> to]
  OBVIOUS
<1>9. h \in HandlerRow /\ h.n = n /\ h.pc = p /\ h.to = {<<u, k>>}
  BY <1>5, <1>7, <1>8 DEF HandlerRow, Numbers
<1>10. handlers' \subseteq handlers \cup {h} /\ handlers \subseteq handlers' /\ (k # "created" => h \in handlers')
  BY <1>4, <1>6, <1>7, <1>8 DEF Handler
<1>11. EventVarsOK'
  <2>1. auditing' \subseteq auditing \cup {n}
    BY <1>4 DEF AuditJobs
  <2>2. auditing' \cup trail' \subseteq 1 .. Len(commits') /\ auditing' \cap trail' = {}
    BY <1>4, <1>5, <2>1 DEF EventVarsOK
  <2>3. handlers' \subseteq HandlerRow
    BY <1>4, <1>9, <1>10 DEF EventVarsOK
  <2>4. overlapped' \in BOOLEAN /\ holder' \in Holders \cup {Nobody}
    BY <1>4 DEF EventVarsOK
  <2> QED
    BY <1>4, <1>5, <2>2, <2>3, <2>4 DEF EventVarsOK
<1>12. \A j : Given(j)' <=> Given(j)
  BY <1>4 DEF Given, Received
<1>13. \A j \in Notices : j.n = n => ~Given(j)
  <2> SUFFICES ASSUME NEW j \in Notices, j.n = n, Given(j) PROVE FALSE
    OBVIOUS
  <2>1. j.to \in People
    BY DEF Notices
  <2>2. Says(j.n, j.kind)
    BY <1>4, <2>1 DEF Given, Received, EachToldOnce, InboxAgrees
  <2> QED
    BY <1>5, <2>2 DEF Says
<1>14. HandlerAgrees(h)'
  <2>1. Says(n, k)'
    BY <1>3, <1>5 DEF Says
  <2>2. \A x \in h.to : Says(h.n, x[2])' /\ Notice(h.n, x) \in Notices /\ Notice(h.n, x).n = n
    BY <1>5, <1>7, <1>9, <2>1 DEF Notice, Notices, Numbers
  <2>3. \A x \in h.to : ~Given(Notice(h.n, x))'
    BY <1>12, <1>13, <2>2
  <2> QED
    BY <1>5, <1>9, <1>12, <1>13, <2>2, <2>3 DEF HandlerAgrees
<1>15. \A g \in handlers : g.n \in 1 .. Len(commits) /\ HandlerAgrees(g)'
  BY <1>4, <1>5, <1>12 DEF EachToldOnce, HandlerAgrees
<1>16. EachToldOnce'
  <2>1. \A g, f \in handlers' : g.n = f.n => g = f
    BY <1>4, <1>5, <1>9, <1>10, <1>15 DEF EachToldOnce
  <2>2. \A g \in handlers' : HandlerAgrees(g)'
    BY <1>10, <1>14, <1>15
  <2>3. \A j \in notices' : Says(j.n, j.kind)' /\ ~Received(j)'
    BY <1>4, <1>5 DEF EachToldOnce, Received
  <2>4. \A v \in People : InboxAgrees(v)'
    BY <1>4, <1>5 DEF EachToldOnce, InboxAgrees
  <2> QED
    BY <2>1, <2>2, <2>3, <2>4 DEF EachToldOnce
<1>17. HolderHears'
  <2> SUFFICES ASSUME ~mishap', ~overlapped' PROVE HolderHears'
    BY DEF HolderHears
  <2>1. handlers = {} /\ notices = {} /\ ~overlapped /\ ~mishap
    BY <1>4
  <2>2. /\ \A g \in handlers' : g.n = Len(commits')
        /\ \A j \in notices' : j.n = Len(commits')
    BY <1>4, <1>5, <1>9, <1>10, <2>1
  <2>3. commits'[Len(commits')].kind = k
    BY <1>3, <1>5
  <2>4. k = "deassigned" => holder' = Nobody
    OBVIOUS
  <2>5. ASSUME holder' # Nobody PROVE Knows(holder)' \/ Coming(holder)'
    <3>1. CASE holder' = holder
      <4>1. Knows(holder)
        BY <2>1, <2>5, <3>1 DEF EventsInv, HolderHears, Coming
      <4> QED
        BY <1>4, <3>1, <4>1 DEF Knows
    <3>2. CASE holder' = u /\ k \in {"assigned", "escalated"}
      <4>1. h \in handlers' /\ <<u, k>> \in h.to
        BY <1>9, <1>10, <3>2
      <4> QED
        BY <3>2, <4>1 DEF Coming
    <3> QED
      BY <2>5, <3>1, <3>2
  <2> QED
    BY <2>2, <2>3, <2>4, <2>5 DEF HolderHears
<1>18. Traced'
  <2> SUFFICES ASSUME NEW m \in 1 .. Len(commits'), commits'[m].kind # "escalated" PROVE m \in auditing' \cup trail' \/ mishap'
    BY DEF Traced
  <2>1. CASE m = n
    BY <1>3, <1>4, <1>5, <2>1 DEF AuditJobs, Audited
  <2>2. CASE m # n
    <3>1. m \in 1 .. Len(commits) /\ commits[m].kind # "escalated"
      BY <1>5, <2>2
    <3> QED
      BY <1>4, <3>1 DEF EventsInv, Traced
  <2> QED
    BY <2>1, <2>2
<1> QED
  BY <1>11, <1>16, <1>17, <1>18 DEF EventsInv

LEMMA CommitsHold ==
  ASSUME EventsInv,
         \/ Create \/ Deassign \/ \E u \in Holders : Assign(u) \/ Escalate(u)
         \/ \E k \in Events, u \in Holders : ChangeStatus(k, u)
  PROVE  EventsInv'
<1>1. holder \in Holders \cup {Nobody} /\ deleted \in BOOLEAN /\ Holders \subseteq People /\ Creator \in People
  BY DEF EventsInv, EventVarsOK, People
<1>2. PICK created \in Events, assigned \in Events, escalated \in Events, deassigned \in Events :
         created = "created" /\ assigned = "assigned" /\ escalated = "escalated" /\ deassigned = "deassigned"
  BY DEF Events
<1>3. CASE Create
  <2>1. Emit(created, Creator) /\ holder' = holder /\ created # "deassigned" /\ deleted' \in BOOLEAN
    BY <1>1, <1>2, <1>3 DEF Create
  <2> QED
    BY <1>1, <2>1, EmitHolds
<1>4. CASE Deassign
  <2>1. Emit(deassigned, holder) /\ holder' = Nobody /\ deleted' \in BOOLEAN /\ holder \in People
    BY <1>1, <1>2, <1>4 DEF Deassign
  <2> QED
    BY <2>1, EmitHolds
<1>5. ASSUME NEW u \in Holders, Assign(u) PROVE EventsInv'
  <2>1. Emit(assigned, u) /\ holder' = u /\ deleted' \in BOOLEAN /\ u \in People
    BY <1>1, <1>2, <1>5 DEF Assign
  <2> QED
    BY <1>2, <2>1, EmitHolds
<1>6. ASSUME NEW u \in Holders, Escalate(u) PROVE EventsInv'
  <2>1. Emit(escalated, u) /\ holder' = u /\ deleted' \in BOOLEAN /\ u \in People
    BY <1>1, <1>2, <1>6 DEF Escalate
  <2> QED
    BY <1>2, <2>1, EmitHolds
<1>7. ASSUME NEW k \in Events, NEW u \in Holders, ChangeStatus(k, u) PROVE EventsInv'
  <2>1. Emit(k, u) /\ holder' = holder /\ deleted' \in BOOLEAN /\ k # "deassigned" /\ u \in People
    BY <1>1, <1>7 DEF ChangeStatus
  <2> QED
    BY <2>1, EmitHolds
<1> QED
  BY <1>3, <1>4, <1>5, <1>6, <1>7


(* What no step of the listeners changes.                                    *)
EventsStay == commits' = commits /\ holder' = holder /\ deleted' \in BOOLEAN /\ overlapped' = overlapped

LEMMA SameWordsSaid ==
  ASSUME EventsStay
  PROVE  \A n, k : Says(n, k)' <=> Says(n, k)
BY DEF EventsStay, Says

(* The handler h goes on as g, or ends when g has nobody left to tell.       *)
HandlerMoves(h, g) ==
  /\ h \in handlers /\ g \in HandlerRow /\ g.n = h.n
  /\ handlers' \subseteq (handlers \ {h}) \cup {g}
  /\ handlers \ {h} \subseteq handlers'
  /\ g.to # {} => g \in handlers'

LEMMA HandlersStayApart ==
  ASSUME EventsInv, EventsStay, NEW h, NEW g, HandlerMoves(h, g), HandlerAgrees(g)',
         \A f \in handlers : f # h => HandlerAgrees(f)'
  PROVE  /\ handlers' \subseteq HandlerRow
         /\ \A f, e \in handlers' : f.n = e.n => f = e
         /\ \A f \in handlers' : HandlerAgrees(f)'
<1>1. handlers \subseteq HandlerRow /\ \A f, e \in handlers : f.n = e.n => f = e
  BY DEF EventsInv, EventVarsOK, EachToldOnce
<1>2. h \in handlers /\ g \in HandlerRow /\ g.n = h.n /\ handlers' \subseteq (handlers \ {h}) \cup {g}
  BY DEF HandlerMoves
<1>3. \A f \in handlers' : f = g \/ (f \in handlers /\ f # h)
  BY <1>2
<1>4. \A f, e \in handlers' : f.n = e.n => f = e
  BY <1>1, <1>2, <1>3
<1>5. handlers' \subseteq HandlerRow
  BY <1>1, <1>2
<1>6. \A f \in handlers' : HandlerAgrees(f)'
  BY <1>3
<1> QED
  BY <1>4, <1>5, <1>6

LEMMA ReadTicketHolds ==
  ASSUME EventsInv, NEW h \in handlers, ReadTicket(h)
  PROVE  EventsInv'
<1>1. PICK to \in SUBSET (People \X Said) : to = Heard(h) \cap (People \X Said)
  OBVIOUS
<1>2. PICK g : g = [h EXCEPT !.pc = "tell", !.to = to]
  OBVIOUS
<1>3. /\ h \in HandlerRow /\ h.pc = "read" /\ HandlerAgrees(h) /\ EventVarsOK /\ EachToldOnce
      /\ \A f \in handlers : HandlerAgrees(f) /\ (f.n = h.n => f = h)
  BY DEF ReadTicket, EventsInv, EventVarsOK, EachToldOnce
<1>4. /\ h.n \in 1 .. Len(commits) /\ h.n \in Numbers /\ h.to \subseteq People \X Said
      /\ \A x \in h.to : Says(h.n, x[2])
      /\ \A j \in Notices : j.n = h.n => ~Given(j)
  BY <1>3 DEF HandlerAgrees, HandlerRow
<1>5. g \in HandlerRow /\ g.n = h.n /\ g.pc = "tell" /\ g.to = to
  BY <1>2, <1>3 DEF HandlerRow
<1>6. handlers' = (handlers \ {h}) \cup (IF to = {} THEN {} ELSE {g})
  BY <1>1, <1>2 DEF ReadTicket, Keep
<1>7. /\ commits' = commits /\ holder' = holder /\ deleted' = deleted /\ overlapped' = overlapped /\ mishap' = mishap
      /\ auditing' = auditing /\ trail' = trail /\ notices' = notices /\ inbox' = inbox
  BY DEF ReadTicket
<1>8. EventsStay /\ HandlerMoves(h, g)
  BY <1>3, <1>5, <1>6, <1>7 DEF EventsStay, HandlerMoves, EventVarsOK
<1>9. \A j : (Given(j)' <=> Given(j)) /\ (Received(j)' <=> Received(j))
  BY <1>7 DEF Given, Received
<1>10. \A n, k : Says(n, k)' <=> Says(n, k)
  BY <1>8, SameWordsSaid
<1>11. \A x \in to : Says(h.n, x[2])
  <2> SUFFICES ASSUME NEW x \in to PROVE Says(h.n, x[2])
    OBVIOUS
  <2>1. CASE Kind(h) = "closed"
    <3>1. Heard(h) = {Who(h)} \X {"closed"} \cup (IF deleted THEN {} ELSE {holder, Creator} \X {"closed"})
      BY <2>1 DEF Heard
    <3>2. x[2] = "closed"
      BY <1>1, <3>1
    <3> QED
      BY <1>4, <2>1, <3>2 DEF Says, Kind
  <2>2. CASE Kind(h) = "reopened"
    <3>1. Heard(h) = {<<holder, "reopened">>}
      BY <2>2 DEF Heard
    <3>2. x[2] = "reopened"
      BY <1>1, <3>1
    <3> QED
      BY <1>4, <2>2, <3>2 DEF Says, Kind
  <2>3. CASE Kind(h) = "deassigned"
    <3>1. Heard(h) \subseteq {<<Who(h), "deassigned">>, <<Supervisor, "alert">>}
      BY <2>3 DEF Heard
    <3>2. x[2] \in {"deassigned", "alert"}
      BY <1>1, <3>1
    <3> QED
      BY <1>4, <2>3, <3>2 DEF Says, Kind
  <2>4. CASE Kind(h) \notin {"closed", "reopened", "deassigned"}
    <3>1. Heard(h) = h.to
      BY <2>4 DEF Heard
    <3> QED
      BY <1>1, <1>4, <3>1
  <2> QED
    BY <2>1, <2>2, <2>3, <2>4
<1>12. \A x \in to : Notice(h.n, x) \in Notices /\ Notice(h.n, x).n = h.n
  BY <1>4 DEF Notice, Notices
<1>13. HandlerAgrees(g)'
  <2>1. \A x \in g.to : Says(g.n, x[2])' /\ ~Given(Notice(g.n, x))'
    BY <1>4, <1>5, <1>9, <1>10, <1>11, <1>12
  <2> QED
    BY <1>4, <1>5, <1>7, <2>1 DEF HandlerAgrees
<1>14. \A f \in handlers : HandlerAgrees(f)'
  BY <1>3, <1>7, <1>9, <1>10 DEF HandlerAgrees
<1>15. /\ handlers' \subseteq HandlerRow
       /\ \A f, e \in handlers' : f.n = e.n => f = e
       /\ \A f \in handlers' : HandlerAgrees(f)'
  BY <1>8, <1>13, <1>14, HandlersStayApart
<1>16. EventVarsOK'
  BY <1>3, <1>7, <1>15 DEF EventVarsOK
<1>17. EachToldOnce'
  <2>1. \A j \in notices' : Says(j.n, j.kind)' /\ ~Received(j)'
    BY <1>3, <1>7, <1>9, <1>10 DEF EachToldOnce
  <2>2. \A u \in People : InboxAgrees(u)'
    BY <1>3, <1>7, <1>10 DEF EachToldOnce, InboxAgrees
  <2> QED
    BY <1>15, <2>1, <2>2 DEF EachToldOnce
<1>18. HolderHears'
  <2> SUFFICES ASSUME ~mishap', ~overlapped' PROVE HolderHears'
    BY DEF HolderHears
  <2>1. /\ \A f \in handlers : f.n = Len(commits)
        /\ \A j \in notices : j.n = Len(commits)
        /\ commits # <<>> /\ commits[Len(commits)].kind = "deassigned" => holder = Nobody
        /\ holder # Nobody => Knows(holder) \/ Coming(holder)
    BY <1>7 DEF EventsInv, HolderHears
  <2>2. \A f \in handlers' : f.n = Len(commits')
    BY <1>5, <1>6, <1>7, <2>1
  <2>3. ASSUME NEW u, Coming(u) PROVE Coming(u)'
    <3>1. PICK k \in {"assigned", "escalated"} : (\E f \in handlers : <<u, k>> \in f.to) \/ (\E j \in notices : j.to = u /\ j.kind = k)
      BY <2>3 DEF Coming
    <3>2. CASE \E j \in notices : j.to = u /\ j.kind = k
      BY <1>7, <3>2 DEF Coming
    <3>3. CASE \E f \in handlers : <<u, k>> \in f.to
      <4>1. PICK f \in handlers : <<u, k>> \in f.to
        BY <3>3
      <4>2. CASE f # h
        BY <1>6, <4>1, <4>2 DEF Coming
      <4>3. CASE f = h
        <5>1. Says(h.n, k)
          BY <1>4, <4>1, <4>3
        <5>2. Kind(h) = k
          BY <5>1 DEF Says, Kind
        <5>3. Heard(h) = h.to
          BY <5>2 DEF Heard
        <5>4. <<u, k>> \in to
          BY <1>1, <1>4, <4>1, <4>3, <5>3
        <5>5. g \in handlers' /\ <<u, k>> \in g.to
          BY <1>5, <1>6, <5>4
        <5> QED
          BY <5>5 DEF Coming
      <4> QED
        BY <4>2, <4>3
    <3> QED
      BY <3>1, <3>2, <3>3
  <2>4. \A u : Knows(u)' <=> Knows(u)
    BY <1>7 DEF Knows
  <2> QED
    BY <1>7, <2>1, <2>2, <2>3, <2>4 DEF HolderHears
<1>19. Traced'
  BY <1>7 DEF EventsInv, Traced
<1> QED
  BY <1>16, <1>17, <1>18, <1>19 DEF EventsInv

LEMMA TellHolds ==
  ASSUME EventsInv, NEW h \in handlers, NEW x \in h.to, Tell(h, x)
  PROVE  EventsInv'
<1>1. PICK to \in SUBSET (People \X Said) : to = h.to \ {x}
  <2>1. h.to \ {x} \in SUBSET (People \X Said)
    BY DEF EventsInv, EventVarsOK, HandlerRow
  <2> QED
    BY <2>1
<1>2. PICK g : g = [h EXCEPT !.pc = "tell", !.to = to]
  OBVIOUS
<1>3. PICK j : j = Notice(h.n, x)
  OBVIOUS
<1>4. /\ h \in HandlerRow /\ h.pc = "tell" /\ HandlerAgrees(h) /\ EventVarsOK /\ EachToldOnce
      /\ \A f \in handlers : HandlerAgrees(f) /\ (f.n = h.n => f = h)
  BY DEF Tell, EventsInv, EventVarsOK, EachToldOnce
<1>5. /\ h.n \in 1 .. Len(commits) /\ h.n \in Numbers /\ h.to \subseteq People \X Said /\ x \in People \X Said
      /\ \A y \in h.to : Says(h.n, y[2]) /\ ~Given(Notice(h.n, y))
  BY <1>4 DEF HandlerAgrees, HandlerRow
<1>6. g \in HandlerRow /\ g.n = h.n /\ g.pc = "tell" /\ g.to = to
  BY <1>2, <1>4 DEF HandlerRow
<1>7. handlers' = (handlers \ {h}) \cup (IF to = {} THEN {} ELSE {g})
  BY <1>1, <1>2 DEF Tell, Keep
<1>8. /\ commits' = commits /\ holder' = holder /\ deleted' = deleted /\ overlapped' = overlapped
      /\ auditing' = auditing /\ trail' = trail /\ inbox' = inbox
      /\ \/ notices' = notices \cup {j} /\ mishap' = mishap
         \/ mishap' = TRUE /\ notices' = notices
  BY <1>3 DEF Tell, Notice
<1>9. EventsStay /\ HandlerMoves(h, g)
  BY <1>4, <1>6, <1>7, <1>8 DEF EventsStay, HandlerMoves, EventVarsOK
<1>10. j \in Notices /\ j.n = h.n /\ j.to = x[1] /\ j.kind = x[2] /\ Says(j.n, j.kind) /\ ~Given(j)
  BY <1>3, <1>5 DEF Notice, Notices
<1>11. \A i : (Given(i)' => Given(i) \/ i = j) /\ (Received(i)' <=> Received(i))
  BY <1>8 DEF Given, Received
<1>12. \A n, k : Says(n, k)' <=> Says(n, k)
  BY <1>9, SameWordsSaid
<1>13. HandlerAgrees(g)'
  <2>1. ASSUME NEW y \in g.to PROVE Says(g.n, y[2])' /\ ~Given(Notice(g.n, y))'
    <3>1. y \in h.to /\ y \in People \X Said /\ y # x
      BY <1>1, <1>6, <2>1
    <3>2. y[1] # x[1] \/ y[2] # x[2]
      BY <1>5, <3>1
    <3>3. Notice(h.n, y) # j
      BY <1>10, <3>2 DEF Notice
    <3> QED
      BY <1>5, <1>6, <1>11, <1>12, <3>1, <3>3
  <2> QED
    BY <1>5, <1>6, <1>8, <2>1 DEF HandlerAgrees
<1>14. ASSUME NEW f \in handlers, f # h PROVE HandlerAgrees(f)'
  <2>1. f.n # h.n /\ HandlerAgrees(f)
    BY <1>4, <1>14
  <2>2. \A y : Notice(f.n, y).n = f.n
    BY DEF Notice
  <2>3. \A i : i.n = f.n => (Given(i)' => Given(i))
    BY <1>10, <1>11, <2>1
  <2> QED
    BY <1>8, <1>12, <2>1, <2>2, <2>3 DEF HandlerAgrees
<1>15. /\ handlers' \subseteq HandlerRow
       /\ \A f, e \in handlers' : f.n = e.n => f = e
       /\ \A f \in handlers' : HandlerAgrees(f)'
  BY <1>9, <1>13, <1>14, HandlersStayApart
<1>16. EventVarsOK'
  BY <1>4, <1>8, <1>10, <1>15 DEF EventVarsOK
<1>17. EachToldOnce'
  <2>1. \A i \in notices' : Says(i.n, i.kind)' /\ ~Received(i)'
    BY <1>4, <1>8, <1>10, <1>11, <1>12 DEF EachToldOnce, Given
  <2>2. \A u \in People : InboxAgrees(u)'
    BY <1>4, <1>8, <1>12 DEF EachToldOnce, InboxAgrees
  <2> QED
    BY <1>15, <2>1, <2>2 DEF EachToldOnce
<1>18. HolderHears'
  <2> SUFFICES ASSUME ~mishap', ~overlapped' PROVE HolderHears'
    BY DEF HolderHears
  <2>1. notices' = notices \cup {j} /\ mishap' = mishap
    BY <1>8
  <2>2. /\ \A f \in handlers : f.n = Len(commits)
        /\ \A i \in notices : i.n = Len(commits)
        /\ commits # <<>> /\ commits[Len(commits)].kind = "deassigned" => holder = Nobody
        /\ holder # Nobody => Knows(holder) \/ Coming(holder)
    BY <1>8, <2>1 DEF EventsInv, HolderHears
  <2>3. \A f \in handlers' : f.n = Len(commits')
    BY <1>6, <1>7, <1>8, <2>2
  <2>4. \A i \in notices' : i.n = Len(commits')
    BY <1>8, <1>10, <2>1, <2>2
  <2>5. ASSUME NEW u, Coming(u) PROVE Coming(u)'
    <3>1. PICK k \in {"assigned", "escalated"} : (\E f \in handlers : <<u, k>> \in f.to) \/ (\E i \in notices : i.to = u /\ i.kind = k)
      BY <2>5 DEF Coming
    <3>2. CASE \E i \in notices : i.to = u /\ i.kind = k
      BY <2>1, <3>2 DEF Coming
    <3>3. CASE \E f \in handlers : <<u, k>> \in f.to
      <4>1. PICK f \in handlers : <<u, k>> \in f.to
        BY <3>3
      <4>2. CASE f # h
        BY <1>7, <4>1, <4>2 DEF Coming
      <4>3. CASE f = h /\ <<u, k>> = x
        <5>1. j \in notices' /\ j.to = u /\ j.kind = k
          BY <1>10, <2>1, <4>3
        <5> QED
          BY <5>1 DEF Coming
      <4>4. CASE f = h /\ <<u, k>> # x
        <5>1. g \in handlers' /\ <<u, k>> \in g.to
          BY <1>1, <1>6, <1>7, <4>1, <4>4
        <5> QED
          BY <5>1 DEF Coming
      <4> QED
        BY <4>2, <4>3, <4>4
    <3> QED
      BY <3>1, <3>2, <3>3
  <2>6. \A u : Knows(u)' <=> Knows(u)
    BY <1>8 DEF Knows
  <2> QED
    BY <1>8, <2>2, <2>3, <2>4, <2>5, <2>6 DEF HolderHears
<1>19. Traced'
  BY <1>8 DEF EventsInv, Traced, EventVarsOK
<1> QED
  BY <1>16, <1>17, <1>18, <1>19 DEF EventsInv

LEMMA InsertNoticeHolds ==
  ASSUME EventsInv, NEW j \in notices, InsertNotice(j)
  PROVE  EventsInv'
<1>1. PICK v : v = j.to
  OBVIOUS
<1>2. PICK box : box = Append(inbox[v], j)
  OBVIOUS
<1>3. EventVarsOK /\ EachToldOnce /\ j \in Notices /\ v \in People /\ Says(j.n, j.kind) /\ ~Received(j) /\ inbox[v] \in Seq(Notices)
  BY <1>1 DEF EventsInv, EventVarsOK, EachToldOnce, Notices
<1>4. /\ box \in Seq(Notices) /\ Len(inbox[v]) \in Nat /\ Len(box) = Len(inbox[v]) + 1 /\ box[Len(box)] = j
      /\ \A i \in 1 .. Len(inbox[v]) : box[i] = inbox[v][i]
  BY <1>2, <1>3
<1>5. /\ commits' = commits /\ holder' = holder /\ deleted' = deleted /\ overlapped' = overlapped
      /\ auditing' = auditing /\ trail' = trail /\ handlers' = handlers /\ notices' = notices \ {j}
      /\ \/ inbox' = [inbox EXCEPT ![v] = box] /\ mishap' = mishap
         \/ mishap' = TRUE /\ inbox' = inbox
  BY <1>1, <1>2 DEF InsertNotice
<1>6. EventsStay
  BY <1>3, <1>5 DEF EventsStay, EventVarsOK
<1>7. \A n, k : Says(n, k)' <=> Says(n, k)
  BY <1>6, SameWordsSaid
<1>8. /\ inbox' \in [People -> Seq(Notices)]
      /\ \A u \in People : u # v => inbox'[u] = inbox[u]
      /\ inbox'[v] = inbox[v] \/ (inbox'[v] = box /\ mishap' = mishap)
      /\ mishap' = mishap => inbox'[v] = box \/ mishap'
  BY <1>3, <1>4, <1>5 DEF EventVarsOK
<1>9. \A i \in Notices : Received(i)' => Received(i) \/ i = j
  <2> SUFFICES ASSUME NEW i \in Notices, Received(i)', i # j PROVE Received(i)
    OBVIOUS
  <2>1. i.to \in People
    BY DEF Notices
  <2>2. PICK m \in 1 .. Len(inbox'[i.to]) : inbox'[i.to][m] = i
    BY DEF Received
  <2>3. CASE inbox'[i.to] = inbox[i.to]
    BY <2>2, <2>3 DEF Received
  <2>4. CASE i.to = v /\ inbox'[v] = box
    <3>1. m \in 1 .. Len(inbox[v])
      BY <1>4, <2>2, <2>4
    <3> QED
      BY <1>4, <2>2, <2>4, <3>1 DEF Received
  <2> QED
    BY <1>8, <2>1, <2>3, <2>4
<1>10. \A i \in Notices : Given(i)' => Given(i)
  BY <1>5, <1>9 DEF Given
<1>11. EventVarsOK'
  BY <1>3, <1>5, <1>8 DEF EventVarsOK
<1>12. EachToldOnce'
  <2>1. \A h \in handlers : HandlerAgrees(h)'
    <3>1. \A h \in handlers : \A x \in h.to : Notice(h.n, x) \in Notices
      BY <1>3 DEF EventVarsOK, HandlerRow, Notice, Notices
    <3> QED
      BY <1>3, <1>5, <1>7, <1>10, <3>1 DEF EachToldOnce, HandlerAgrees
  <2>2. \A i \in notices' : Says(i.n, i.kind)' /\ ~Received(i)'
    <3>1. \A i \in notices' : i \in notices /\ i # j /\ i \in Notices
      BY <1>3, <1>5 DEF EventVarsOK
    <3> QED
      BY <1>3, <1>7, <1>9, <3>1 DEF EachToldOnce
  <2>3. ASSUME NEW u \in People PROVE InboxAgrees(u)'
    <3>1. CASE inbox'[u] = inbox[u]
      BY <1>3, <1>7, <3>1 DEF EachToldOnce, InboxAgrees
    <3>2. CASE u = v /\ inbox'[v] = box
      <4>1. InboxAgrees(v)
        BY <1>3 DEF EachToldOnce
      <4>2. \A i \in 1 .. Len(inbox[v]) : box[i] # j /\ box[i].to = v /\ Says(box[i].n, box[i].kind)
        BY <1>1, <1>3, <1>4, <4>1 DEF Received, InboxAgrees
      <4>3. \A i \in 1 .. Len(box) : i = Len(box) \/ i \in 1 .. Len(inbox[v])
        BY <1>4
      <4>4. \A i \in 1 .. Len(box) : box[i].to = v /\ Says(box[i].n, box[i].kind)
        BY <1>1, <1>3, <1>4, <4>2, <4>3
      <4>5. \A i, k \in 1 .. Len(box) : box[i] = box[k] => i = k
        BY <1>4, <4>1, <4>2, <4>3 DEF InboxAgrees
      <4> QED
        BY <1>7, <3>2, <4>4, <4>5 DEF InboxAgrees
    <3> QED
      BY <1>8, <3>1, <3>2
  <2> QED
    BY <1>3, <1>5, <2>1, <2>2, <2>3 DEF EachToldOnce
<1>13. HolderHears'
  <2> SUFFICES ASSUME ~mishap', ~overlapped' PROVE HolderHears'
    BY DEF HolderHears
  <2>1. mishap' = mishap /\ inbox'[v] = box
    BY <1>3, <1>4, <1>5, <1>8 DEF EventVarsOK
  <2>2. /\ \A f \in handlers : f.n = Len(commits)
        /\ \A i \in notices : i.n = Len(commits)
        /\ commits # <<>> /\ commits[Len(commits)].kind = "deassigned" => holder = Nobody
        /\ holder # Nobody => Knows(holder) \/ Coming(holder)
    BY <1>5, <2>1 DEF EventsInv, HolderHears
  <2>3. holder # Nobody => j.kind # "deassigned"
    <3>1. j.n = Len(commits) /\ j.n \in 1 .. Len(commits) /\ j.kind \in {commits[j.n].kind, "alert"}
      BY <1>3, <2>2 DEF Says
    <3>2. commits # <<>>
      BY <3>1
    <3> QED
      BY <2>2, <3>1, <3>2
  <2>4. ASSUME holder # Nobody PROVE Knows(holder)' \/ Coming(holder)'
    <3>1. holder \in People /\ holder' = holder
      BY <1>3, <1>5, <2>4 DEF EventVarsOK, People
    <3>2. CASE Knows(holder) /\ holder # v
      BY <1>8, <3>1, <3>2 DEF Knows
    <3>3. CASE Knows(holder) /\ holder = v
      <4>1. PICK i \in 1 .. Len(inbox[v]) :
              /\ inbox[v][i].kind \in {"assigned", "escalated"}
              /\ \A k \in 1 .. Len(inbox[v]) : k > i => inbox[v][k].kind # "deassigned"
        BY <3>3 DEF Knows
      <4>2. \A k \in 1 .. Len(box) : k = Len(box) \/ k \in 1 .. Len(inbox[v])
        BY <1>4
      <4>3. \A k \in 1 .. Len(box) : k > i => box[k].kind # "deassigned"
        BY <1>4, <2>3, <2>4, <4>1, <4>2
      <4>4. i \in 1 .. Len(box) /\ box[i].kind \in {"assigned", "escalated"}
        BY <1>4, <4>1
      <4> QED
        BY <2>1, <3>1, <3>3, <4>3, <4>4 DEF Knows
    <3>4. CASE Coming(holder)
      <4>1. PICK k \in {"assigned", "escalated"} : (\E f \in handlers : <<holder, k>> \in f.to) \/ (\E i \in notices : i.to = holder /\ i.kind = k)
        BY <3>4 DEF Coming
      <4>2. CASE \E f \in handlers : <<holder, k>> \in f.to
        BY <1>5, <4>2 DEF Coming
      <4>3. CASE \E i \in notices : i.to = holder /\ i.kind = k
        <5>1. PICK i \in notices : i.to = holder /\ i.kind = k
          BY <4>3
        <5>2. CASE i # j
          <6>1. i \in notices'
            BY <1>5, <5>2
          <6> QED
            BY <3>1, <5>1, <6>1 DEF Coming
        <5>3. CASE i = j
          <6>1. v = holder /\ box[Len(box)].kind = k /\ Len(box) \in 1 .. Len(box)
            BY <1>1, <1>4, <5>1, <5>3
          <6>2. \A m \in 1 .. Len(box) : ~(m > Len(box))
            BY <1>4
          <6> QED
            BY <2>1, <3>1, <6>1, <6>2 DEF Knows
        <5> QED
          BY <5>2, <5>3
      <4> QED
        BY <4>1, <4>2, <4>3
    <3> QED
      BY <2>2, <2>4, <3>2, <3>3, <3>4
  <2>5. \A i \in notices' : i.n = Len(commits')
    BY <1>5, <2>2
  <2> QED
    BY <1>5, <2>2, <2>4, <2>5 DEF HolderHears
<1>14. Traced'
  BY <1>3, <1>5 DEF EventsInv, Traced, EventVarsOK
<1> QED
  BY <1>11, <1>12, <1>13, <1>14 DEF EventsInv

(* What is said and told does not depend on the ticket's row, nor the notices*)
(* on the audit.                                                             *)
LEMMA OthersHold ==
  ASSUME EventsInv,
         Delete \/ CrashListener \/ (\E n \in auditing : InsertAudit(n)) \/ UNCHANGED eventVars
  PROVE  EventsInv'
<1>1. EventVarsOK /\ EachToldOnce /\ HolderHears /\ Traced
  BY DEF EventsInv
<1>2. /\ commits' = commits /\ holder' = holder /\ deleted' \in BOOLEAN /\ overlapped' = overlapped
      /\ notices' = notices /\ inbox' = inbox
      /\ handlers' = handlers \/ (handlers' = {} /\ mishap' = TRUE)
      /\ mishap' = mishap \/ mishap' = TRUE
      /\ auditing' \cup trail' \subseteq auditing \cup trail /\ auditing' \cap trail' = {}
      /\ auditing \cup trail \subseteq auditing' \cup trail' \/ mishap'
  <2>1. CASE Delete
    BY <1>1, <2>1 DEF Delete, EventVarsOK
  <2>2. CASE CrashListener
    BY <1>1, <2>2 DEF CrashListener, EventVarsOK
  <2>3. CASE \E n \in auditing : InsertAudit(n)
    <3>1. PICK n \in auditing : InsertAudit(n)
      BY <2>3
    <3> QED
      BY <1>1, <3>1 DEF InsertAudit, EventVarsOK
  <2>4. CASE UNCHANGED eventVars
    BY <1>1, <2>4 DEF eventVars, EventVarsOK
  <2> QED
    BY <2>1, <2>2, <2>3, <2>4
<1>3. EventVarsOK'
  BY <1>1, <1>2 DEF EventVarsOK
<1>4. /\ \A j : (Given(j)' <=> Given(j)) /\ (Received(j)' <=> Received(j))
      /\ \A n, k : Says(n, k)' <=> Says(n, k)
      /\ \A u : (Knows(u)' <=> Knows(u)) /\ (handlers' = handlers => (Coming(u)' <=> Coming(u)))
  BY <1>2 DEF Given, Received, Says, Knows, Coming
<1>5. EachToldOnce'
  <2>1. \A h \in handlers' : h \in handlers /\ HandlerAgrees(h)'
    BY <1>1, <1>2, <1>4 DEF EachToldOnce, HandlerAgrees
  <2>2. \A u \in People : InboxAgrees(u)'
    BY <1>1, <1>2, <1>4 DEF EachToldOnce, InboxAgrees
  <2> QED
    BY <1>1, <1>2, <1>4, <2>1, <2>2 DEF EachToldOnce
<1>6. HolderHears'
  <2> SUFFICES ASSUME ~mishap', ~overlapped' PROVE HolderHears'
    BY DEF HolderHears
  <2>1. handlers' = handlers /\ ~mishap /\ ~overlapped
    BY <1>1, <1>2 DEF EventVarsOK
  <2> QED
    BY <1>1, <1>2, <1>4, <2>1 DEF HolderHears
<1>7. Traced'
  BY <1>1, <1>2 DEF Traced
<1> QED
  BY <1>3, <1>5, <1>6, <1>7 DEF EventsInv

LEMMA EventsStepHolds == EventsInv /\ [EventsNext]_eventVars => EventsInv'
<1> SUFFICES ASSUME EventsInv, [EventsNext]_eventVars PROVE EventsInv'
  OBVIOUS
<1>1. CASE \/ Create \/ Deassign \/ \E u \in Holders : Assign(u) \/ Escalate(u)
           \/ \E k \in Events, u \in Holders : ChangeStatus(k, u)
  BY <1>1, CommitsHold
<1>2. ASSUME NEW h \in handlers, ReadTicket(h) PROVE EventsInv'
  BY <1>2, ReadTicketHolds
<1>3. ASSUME NEW h \in handlers, NEW x \in h.to, Tell(h, x) PROVE EventsInv'
  BY <1>3, TellHolds
<1>4. ASSUME NEW j \in notices, InsertNotice(j) PROVE EventsInv'
  BY <1>4, InsertNoticeHolds
<1>5. CASE Delete \/ CrashListener \/ (\E n \in auditing : InsertAudit(n)) \/ UNCHANGED eventVars
  BY <1>5, OthersHold
<1> QED
  BY <1>1, <1>2, <1>3, <1>4, <1>5 DEF EventsNext

LEMMA EventsHold == EventsInv => EventsTypeOK /\ HolderKnows /\ ToldOnce /\ AuditComplete
<1> SUFFICES ASSUME EventsInv PROVE EventsTypeOK /\ HolderKnows /\ ToldOnce /\ AuditComplete
  OBVIOUS
<1>1. EventVarsOK /\ EachToldOnce /\ HolderHears /\ Traced
  BY DEF EventsInv
<1>2. EventsTypeOK
  BY <1>1 DEF EventsTypeOK, EventVarsOK, EachToldOnce, InboxAgrees, CommitRow, HandlerRow
<1>3. HolderKnows
  <2>1. Told => \A u : ~Coming(u)
    BY DEF Told, Coming
  <2> QED
    BY <1>1, <2>1 DEF HolderKnows, HolderHears
<1>4. ToldOnce
  <2> SUFFICES ASSUME NEW u \in People, NEW i \in 1 .. Len(inbox[u]), NEW k \in 1 .. Len(inbox[u]),
                      inbox[u][i].n = inbox[u][k].n, inbox[u][i].kind # "alert", inbox[u][k].kind # "alert"
               PROVE i = k
    BY DEF ToldOnce
  <2>1. inbox[u][i] \in Notices /\ inbox[u][k] \in Notices /\ InboxAgrees(u)
    BY <1>1 DEF EventVarsOK, EachToldOnce
  <2>2. inbox[u][i].to = inbox[u][k].to /\ inbox[u][i].kind = inbox[u][k].kind
    BY <2>1 DEF InboxAgrees, Says
  <2>3. inbox[u][i] = inbox[u][k]
    BY <2>1, <2>2 DEF Notices
  <2> QED
    BY <2>1, <2>3 DEF InboxAgrees
<1>5. AuditComplete
  BY <1>1 DEF AuditComplete, Traced
<1> QED
  BY <1>2, <1>3, <1>4, <1>5

-----------------------------------------------------------------------------
(* The reports.                                                              *)

ReportRow == [status: {"none", "pending", "completed", "failed"}, kind: {"ticket", "stats"}, key: BOOLEAN]
ReportStages == {"query", "render", "store", "complete", "link", "ready", "fail", "sorry"}
RunRow == [pc: ReportStages, report: ReportIds, first: BOOLEAN]
QueueStates == {"none", "adding", "waiting", "active"}

ReportVarsOK ==
  /\ reports \in [ReportIds -> ReportRow] /\ queued \in [ReportIds -> QueueStates]
  /\ stalls \in [ReportIds -> 0 .. MaxStalled] /\ runs \in [ReportWorkers -> {NoRun} \cup RunRow]
  /\ files \subseteq ReportIds /\ told \in [ReportIds -> SUBSET {"ready", "failed"}] /\ lost \in [ReportIds -> BOOLEAN]

On(w, r) == runs[w] # NoRun /\ runs[w].report = r

(* A job that was given out once has one execution, and the requester hears  *)
(* of it when that execution has ended.                                      *)
ReportAgrees(r) ==
  /\ reports[r].key <=> reports[r].status = "completed"
  /\ reports[r].status = "none" => queued[r] = "none" /\ told[r] = {} /\ \A w \in ReportWorkers : ~On(w, r)
  /\ ~lost[r] => stalls[r] = 0
  /\ stalls[r] = 0 /\ told[r] # {} => queued[r] = "none"
  /\ stalls[r] = 0 /\ "ready" \in told[r] => reports[r].status = "completed" /\ r \in files
  /\ stalls[r] = 0 /\ "failed" \in told[r] => reports[r].status = "failed"
  /\ reports[r].status = "pending" /\ ~lost[r] =>
        queued[r] \in {"adding", "waiting"} \/ \E w \in ReportWorkers : On(w, r)

(* What that execution has done by each of its stages.                       *)
ExecutionAgrees(w, r) ==
  On(w, r) /\ stalls[r] = 0 =>
    /\ queued[r] = "active" /\ runs[w].first
    /\ \A v \in ReportWorkers : On(v, r) => v = w
    /\ runs[w].pc = "complete" => r \in files
    /\ runs[w].pc \in {"link", "ready"} => reports[r].status = "completed" /\ r \in files
    /\ runs[w].pc = "sorry" => reports[r].status = "failed"

AllAgree(r) == ReportAgrees(r) /\ \A w \in ReportWorkers : ExecutionAgrees(w, r)

ReportsInv == ReportVarsOK /\ \A r \in ReportIds : AllAgree(r)

LEMMA RunFields ==
  ASSUME NEW q \in RunRow
  PROVE  q # NoRun /\ q.pc \in ReportStages /\ q.report \in ReportIds /\ q.first \in BOOLEAN /\ q.pc # "idle"
<1>1. q.pc # "idle" /\ NoRun.pc = "idle"
  BY DEF RunRow, ReportStages, NoRun
<1> QED
  BY <1>1 DEF RunRow

LEMMA ReportsInitHolds == ReportsInit => ReportsInv
<1> SUFFICES ASSUME ReportsInit PROVE ReportsInv
  OBVIOUS
<1>1. NoReport \in ReportRow /\ NoReport.status = "none" /\ NoReport.key = FALSE
  BY DEF NoReport, ReportRow
<1>2. PICK zero \in 0 .. MaxStalled : zero = 0
  BY DEF MaxStalled
<1>3. /\ reports = [r \in ReportIds |-> NoReport] /\ queued = [r \in ReportIds |-> "none"]
      /\ stalls = [r \in ReportIds |-> zero] /\ runs = [w \in ReportWorkers |-> NoRun] /\ files = {}
      /\ told = [r \in ReportIds |-> {}] /\ lost = [r \in ReportIds |-> FALSE]
  BY <1>2 DEF ReportsInit
<1>4. ReportVarsOK
  BY <1>1, <1>3 DEF ReportVarsOK, QueueStates
<1>5. \A w \in ReportWorkers, r \in ReportIds : ~On(w, r)
  BY <1>3 DEF On
<1>6. \A r \in ReportIds : AllAgree(r)
  BY <1>1, <1>2, <1>3, <1>5 DEF AllAgree, ReportAgrees, ExecutionAgrees
<1> QED
  BY <1>4, <1>6 DEF ReportsInv

(* A step that concerns the report r leaves the others as they are.          *)
LEMMA OthersAgree ==
  ASSUME ReportsInv, NEW r \in ReportIds, ReportVarsOK', AllAgree(r)',
         \A s \in ReportIds \ {r} :
            /\ reports'[s] = reports[s] /\ queued'[s] = queued[s] /\ stalls'[s] = stalls[s]
            /\ told'[s] = told[s] /\ lost'[s] = lost[s] /\ (s \in files' <=> s \in files),
         \A w \in ReportWorkers : runs'[w] = runs[w]
            \/ ((runs[w] = NoRun \/ runs[w].report = r) /\ (runs'[w] = NoRun \/ runs'[w].report = r))
  PROVE  ReportsInv'
<1>1. ASSUME NEW s \in ReportIds \ {r} PROVE AllAgree(s)'
  <2>1. AllAgree(s)
    BY DEF ReportsInv
  <2>2. \A w \in ReportWorkers : (On(w, s)' <=> On(w, s)) /\ (On(w, s) => runs'[w] = runs[w])
    BY DEF On
  <2>3. ReportAgrees(s)'
    BY <2>1, <2>2 DEF AllAgree, ReportAgrees
  <2>4. ASSUME NEW w \in ReportWorkers PROVE ExecutionAgrees(w, s)'
    BY <2>1, <2>2 DEF AllAgree, ExecutionAgrees
  <2> QED
    BY <2>3, <2>4 DEF AllAgree
<1> QED
  BY <1>1 DEF ReportsInv

(* Before the job runs: the row is inserted, the job is added.               *)
LEMMA RequestsHold ==
  ASSUME ReportsInv, NEW r \in ReportIds,
         (\E k \in {"ticket", "stats"} : InsertReport(r, k)) \/ AddJob(r)
  PROVE  ReportsInv'
<1>1. /\ ReportVarsOK /\ AllAgree(r)
      /\ stalls' = stalls /\ runs' = runs /\ files' = files /\ told' = told
  BY DEF ReportsInv, InsertReport, AddJob
<1>2. \A w \in ReportWorkers : On(w, r)' <=> On(w, r)
  BY <1>1 DEF On
<1>3. ASSUME NEW k \in {"ticket", "stats"}, InsertReport(r, k) PROVE ReportsInv'
  <2>1. PICK doc : doc = [status |-> "pending", kind |-> k, key |-> FALSE]
    OBVIOUS
  <2>2. doc \in ReportRow /\ doc.status = "pending" /\ doc.key = FALSE
    BY <2>1 DEF ReportRow
  <2>3. /\ reports' = [reports EXCEPT ![r] = doc] /\ queued' = [queued EXCEPT ![r] = "adding"] /\ lost' = lost
        /\ reports[r].status = "none"
    BY <1>3, <2>1 DEF InsertReport, NoReport
  <2>4. ReportVarsOK'
    BY <1>1, <2>2, <2>3 DEF ReportVarsOK, QueueStates
  <2>5. reports'[r] = doc /\ queued'[r] = "adding"
    BY <1>1, <2>3 DEF ReportVarsOK
  <2>6. told[r] = {} /\ \A w \in ReportWorkers : ~On(w, r)'
    BY <1>1, <1>2, <2>3 DEF AllAgree, ReportAgrees
  <2>7. AllAgree(r)'
    BY <1>1, <2>2, <2>3, <2>5, <2>6 DEF AllAgree, ReportAgrees, ExecutionAgrees
  <2>8. \A s \in ReportIds \ {r} : reports'[s] = reports[s] /\ queued'[s] = queued[s]
    BY <1>1, <2>3 DEF ReportVarsOK
  <2> QED
    BY <1>1, <2>3, <2>4, <2>7, <2>8, OthersAgree
<1>4. CASE AddJob(r)
  <2>1. PICK k \in {"waiting", "none"}, l \in BOOLEAN :
           /\ queued' = [queued EXCEPT ![r] = k] /\ lost' = [lost EXCEPT ![r] = l]
           /\ k = "none" => l
           /\ lost[r] => l
    <3>1. CASE queued' = [queued EXCEPT ![r] = "waiting"] /\ UNCHANGED lost
      <4>1. lost' = [lost EXCEPT ![r] = lost[r]] /\ lost[r] \in BOOLEAN
        BY <1>1, <3>1 DEF ReportVarsOK
      <4> QED
        BY <3>1, <4>1
    <3>2. CASE queued' = [queued EXCEPT ![r] = "none"] /\ lost' = [lost EXCEPT ![r] = TRUE]
      BY <3>2
    <3> QED
      BY <1>4, <3>1, <3>2 DEF AddJob
  <2>2. queued[r] = "adding" /\ reports' = reports
    BY <1>4 DEF AddJob
  <2>3. ReportVarsOK'
    BY <1>1, <2>1, <2>2 DEF ReportVarsOK, QueueStates
  <2>4. queued'[r] = k /\ lost'[r] = l
    BY <1>1, <2>1 DEF ReportVarsOK
  <2>5. stalls[r] = 0 => told[r] = {} /\ \A w \in ReportWorkers : ~On(w, r)'
    BY <1>1, <1>2, <2>2 DEF AllAgree, ReportAgrees, ExecutionAgrees
  <2>6. reports[r].status # "none"
    BY <1>1, <2>2 DEF AllAgree, ReportAgrees
  <2>7. AllAgree(r)'
    BY <1>1, <2>1, <2>2, <2>4, <2>5, <2>6 DEF AllAgree, ReportAgrees, ExecutionAgrees
  <2>8. \A s \in ReportIds \ {r} : queued'[s] = queued[s] /\ lost'[s] = lost[s]
    BY <1>1, <2>1 DEF ReportVarsOK
  <2> QED
    BY <1>1, <2>2, <2>3, <2>7, <2>8, OthersAgree
<1> QED
  BY <1>3, <1>4

LEMMA StartHolds ==
  ASSUME ReportsInv, NEW w \in ReportWorkers, NEW r \in ReportIds, StartReport(w, r)
  PROVE  ReportsInv'
<1>1. /\ ReportVarsOK /\ AllAgree(r) /\ runs[w] = NoRun /\ queued[r] = "waiting"
      /\ reports' = reports /\ stalls' = stalls /\ files' = files /\ told' = told /\ lost' = lost
      /\ queued' = [queued EXCEPT ![r] = "active"]
  BY DEF ReportsInv, StartReport
<1>2. PICK b \in BOOLEAN : b <=> stalls[r] = 0
  OBVIOUS
<1>3. PICK q : q = [pc |-> "query", report |-> r, first |-> b]
  OBVIOUS
<1>4. q \in RunRow /\ q.pc = "query" /\ q.report = r /\ q.first = b /\ q # NoRun
  BY <1>3, RunFields DEF RunRow, ReportStages
<1>5. runs' = [runs EXCEPT ![w] = q]
  BY <1>2, <1>3 DEF StartReport
<1>6. ReportVarsOK'
  BY <1>1, <1>4, <1>5 DEF ReportVarsOK, QueueStates
<1>7. /\ queued'[r] = "active" /\ runs'[w] = q /\ \A v \in ReportWorkers \ {w} : runs'[v] = runs[v]
      /\ \A s \in ReportIds \ {r} : queued'[s] = queued[s]
  BY <1>1, <1>5 DEF ReportVarsOK
<1>8. stalls[r] = 0 => told[r] = {} /\ \A v \in ReportWorkers : ~On(v, r)
  BY <1>1 DEF AllAgree, ReportAgrees, ExecutionAgrees
<1>9. On(w, r)' /\ \A v \in ReportWorkers \ {w} : On(v, r)' <=> On(v, r)
  BY <1>4, <1>7 DEF On
<1>10. reports[r].status # "none"
  BY <1>1 DEF AllAgree, ReportAgrees
<1>11. ReportAgrees(r)'
  BY <1>1, <1>7, <1>8, <1>9, <1>10 DEF AllAgree, ReportAgrees
<1>12. ASSUME NEW v \in ReportWorkers PROVE ExecutionAgrees(v, r)'
  BY <1>1, <1>2, <1>4, <1>7, <1>8, <1>9 DEF ExecutionAgrees
<1>13. AllAgree(r)'
  BY <1>11, <1>12 DEF AllAgree
<1> QED
  BY <1>1, <1>4, <1>6, <1>7, <1>13, OthersAgree

(* An execution goes on to stage p; the row and the files may change with it.*)
TurnIs(w, r, p, doc) ==
  /\ On(w, r) /\ Turn(w, p) /\ reports' = [reports EXCEPT ![r] = doc]
  /\ doc.status # "none" /\ (doc.key <=> doc.status = "completed")
  /\ UNCHANGED <<queued, stalls, told, lost>> /\ files \subseteq files' /\ files' \subseteq files \cup {r}
  /\ p = "complete" => r \in files'
  /\ stalls[r] = 0 /\ p \in {"link", "ready"} => doc.status = "completed" /\ r \in files'
  /\ stalls[r] = 0 /\ p = "sorry" => doc.status = "failed"

LEMMA TurnsHold ==
  ASSUME ReportsInv, NEW w \in ReportWorkers, NEW r \in ReportIds, NEW p \in ReportStages, NEW doc \in ReportRow,
         TurnIs(w, r, p, doc)
  PROVE  ReportsInv'
<1> USE DEF TurnIs
<1>1. ReportVarsOK /\ AllAgree(r) /\ runs[w] # NoRun /\ runs[w].report = r /\ ExecutionAgrees(w, r)
  BY DEF ReportsInv, On, AllAgree
<1>2. runs[w] \in RunRow
  BY <1>1 DEF ReportVarsOK
<1>3. PICK q : q = [runs[w] EXCEPT !.pc = p]
  OBVIOUS
<1>4. q \in RunRow /\ q.pc = p /\ q.report = r /\ q.first = runs[w].first /\ q # NoRun
  BY <1>1, <1>2, <1>3, RunFields DEF RunRow
<1>5. runs' = [runs EXCEPT ![w] = q]
  BY <1>3 DEF Turn
<1>6. ReportVarsOK'
  BY <1>1, <1>4, <1>5 DEF ReportVarsOK
<1>7. /\ reports'[r] = doc /\ runs'[w] = q /\ \A v \in ReportWorkers \ {w} : runs'[v] = runs[v]
      /\ \A s \in ReportIds \ {r} : reports'[s] = reports[s]
  BY <1>1, <1>5 DEF ReportVarsOK
<1>8. On(w, r)' /\ \A v \in ReportWorkers : On(v, r)' <=> On(v, r)
  BY <1>1, <1>4, <1>7 DEF On
<1>9. stalls[r] = 0 => queued[r] = "active" /\ told[r] = {} /\ runs[w].first
  BY <1>1 DEF AllAgree, ReportAgrees, ExecutionAgrees
<1>10. ReportAgrees(r)'
  BY <1>1, <1>7, <1>8, <1>9 DEF AllAgree, ReportAgrees
<1>11. ASSUME NEW v \in ReportWorkers PROVE ExecutionAgrees(v, r)'
  <2>1. CASE v = w
    BY <1>1, <1>4, <1>7, <1>8, <1>9, <2>1 DEF ExecutionAgrees
  <2>2. CASE v # w
    BY <1>1, <1>8, <2>2 DEF ExecutionAgrees
  <2> QED
    BY <2>1, <2>2
<1>12. AllAgree(r)'
  BY <1>10, <1>11 DEF AllAgree
<1> QED
  BY <1>1, <1>4, <1>6, <1>7, <1>12, OthersAgree DEF On

(* An execution ends, and tells the requester t or leaves the report behind.*)
EndIs(w, r, t, l) ==
  /\ On(w, r) /\ EndRun(w) /\ UNCHANGED <<reports, stalls, files>>
  /\ told' = [told EXCEPT ![r] = told[r] \cup t]
  /\ lost' = [lost EXCEPT ![r] = l] /\ (lost[r] => l) /\ (~l => reports[r].status # "pending")
  /\ stalls[r] = 0 /\ "ready" \in t => reports[r].status = "completed" /\ r \in files
  /\ stalls[r] = 0 /\ "failed" \in t => reports[r].status = "failed"

LEMMA EndsHold ==
  ASSUME ReportsInv, NEW w \in ReportWorkers, NEW r \in ReportIds, NEW t \in SUBSET {"ready", "failed"}, NEW l \in BOOLEAN,
         EndIs(w, r, t, l)
  PROVE  ReportsInv'
<1> USE DEF EndIs
<1>1. ReportVarsOK /\ AllAgree(r) /\ On(w, r) /\ ExecutionAgrees(w, r)
  BY DEF ReportsInv, On, AllAgree
<1>2. PICK k \in QueueStates :
         /\ queued' = [queued EXCEPT ![r] = k]
         /\ k = IF queued[r] = "active" /\ runs[w].first = (stalls[r] = 0) THEN "none" ELSE queued[r]
  <2> DEFINE k == IF queued[r] = "active" /\ runs[w].first = (stalls[r] = 0) THEN "none" ELSE queued[r]
  <2>1. k \in QueueStates
    BY <1>1 DEF ReportVarsOK, QueueStates
  <2>2. queued' = [queued EXCEPT ![Report(w)] =
          IF queued[Report(w)] = "active" /\ runs[w].first = (stalls[Report(w)] = 0) THEN "none" ELSE queued[Report(w)]]
    BY DEF EndRun
  <2>3. Report(w) = r
    BY DEF Report, On
  <2>4. queued' = [queued EXCEPT ![r] = k]
    BY <2>2, <2>3
  <2> QED
    BY <2>1, <2>4
<1>3. runs' = [runs EXCEPT ![w] = NoRun]
  BY DEF EndRun
<1>4. ReportVarsOK'
  BY <1>1, <1>2, <1>3 DEF ReportVarsOK
<1>5. /\ queued'[r] = k /\ told'[r] = told[r] \cup t /\ lost'[r] = l /\ runs'[w] = NoRun
      /\ \A v \in ReportWorkers \ {w} : runs'[v] = runs[v]
      /\ \A s \in ReportIds \ {r} : queued'[s] = queued[s] /\ told'[s] = told[s] /\ lost'[s] = lost[s]
  BY <1>1, <1>2, <1>3 DEF ReportVarsOK
<1>6. ~On(w, r)' /\ \A v \in ReportWorkers \ {w} : On(v, r)' <=> On(v, r)
  BY <1>5 DEF On
<1>7. stalls[r] = 0 => k = "none" /\ told[r] = {} /\ \A v \in ReportWorkers : ~On(v, r)'
  BY <1>1, <1>2, <1>6 DEF AllAgree, ReportAgrees, ExecutionAgrees
<1>8. reports[r].status # "none"
  BY <1>1 DEF AllAgree, ReportAgrees
<1>9. ReportAgrees(r)'
  BY <1>1, <1>5, <1>7, <1>8 DEF AllAgree, ReportAgrees
<1>10. ASSUME NEW v \in ReportWorkers PROVE ExecutionAgrees(v, r)'
  BY <1>7 DEF ExecutionAgrees
<1>11. AllAgree(r)'
  BY <1>9, <1>10 DEF AllAgree
<1> QED
  BY <1>1, <1>4, <1>5, <1>11, OthersAgree DEF On

LEMMA StallHolds ==
  ASSUME ReportsInv, NEW w \in ReportWorkers, StallReport(w)
  PROVE  ReportsInv'
<1>1. PICK r : r = runs[w].report
  OBVIOUS
<1>2. ReportVarsOK /\ runs[w] # NoRun /\ runs[w] \in RunRow /\ r \in ReportIds
  BY <1>1, RunFields DEF ReportsInv, ReportVarsOK, StallReport
<1>3. /\ AllAgree(r) /\ On(w, r) /\ queued[r] = "active" /\ lost' = [lost EXCEPT ![r] = TRUE]
      /\ reports' = reports /\ files' = files /\ told' = told /\ stalls[r] \in {0, 1}
  BY <1>1, <1>2 DEF ReportsInv, On, StallReport, Report, ReportVarsOK, MaxStalled
<1>4. PICK k \in {"none", "waiting"}, n \in 0 .. MaxStalled :
         queued' = [queued EXCEPT ![r] = k] /\ stalls' = [stalls EXCEPT ![r] = n] /\ n = 1
  <2>1. CASE stalls[r] = 0
    <3>1. PICK n \in 0 .. MaxStalled : n = stalls[r] + 1
      BY <2>1 DEF MaxStalled
    <3>2. queued' = [queued EXCEPT ![r] = "waiting"] /\ stalls' = [stalls EXCEPT ![r] = n]
      BY <1>1, <2>1, <3>1 DEF StallReport, Report, MaxStalled
    <3>3. n = 1
      BY <2>1, <3>1
    <3> QED
      BY <3>2, <3>3
  <2>2. CASE stalls[r] = 1
    <3>1. queued' = [queued EXCEPT ![r] = "none"] /\ UNCHANGED stalls
      BY <1>1, <2>2 DEF StallReport, Report, MaxStalled
    <3>2. stalls' = [stalls EXCEPT ![r] = stalls[r]]
      BY <1>2, <3>1 DEF ReportVarsOK
    <3> QED
      BY <1>2, <2>2, <3>1, <3>2 DEF ReportVarsOK
  <2> QED
    BY <1>3, <2>1, <2>2
<1>5. runs' = runs \/ runs' = [runs EXCEPT ![w] = NoRun]
  BY DEF StallReport
<1>6. ReportVarsOK'
  BY <1>2, <1>3, <1>4, <1>5 DEF ReportVarsOK, QueueStates
<1>7. /\ stalls'[r] = 1 /\ lost'[r] = TRUE
      /\ \A s \in ReportIds \ {r} : queued'[s] = queued[s] /\ stalls'[s] = stalls[s] /\ lost'[s] = lost[s]
      /\ \A v \in ReportWorkers \ {w} : runs'[v] = runs[v]
      /\ runs'[w] = runs[w] \/ runs'[w] = NoRun
  BY <1>2, <1>3, <1>4, <1>5 DEF ReportVarsOK
<1>8. reports[r].status # "none" /\ (reports[r].key <=> reports[r].status = "completed")
  BY <1>3 DEF AllAgree, ReportAgrees
<1>9. AllAgree(r)'
  BY <1>3, <1>7, <1>8 DEF AllAgree, ReportAgrees, ExecutionAgrees
<1> QED
  BY <1>1, <1>2, <1>3, <1>6, <1>7, <1>9, OthersAgree

(* The actions of an execution, each one of the moves above.                 *)
LEMMA WorkersHold ==
  ASSUME ReportsInv, NEW w \in ReportWorkers,
         \/ QueryTicket(w) \/ QueryStats(w) \/ RenderTicketPdf(w) \/ RenderSlaPdf(w)
         \/ StoreReport(w) \/ CompleteReport(w) \/ CreateLink(w) \/ TellReady(w)
         \/ FailReport(w) \/ TellFailed(w)
  PROVE  ReportsInv'
<1>1. runs[w] # NoRun /\ runs[w] \in RunRow
  <2>1. runs[w].pc # "idle" /\ NoRun.pc = "idle"
    BY DEF QueryTicket, QueryStats, RenderTicketPdf, RenderSlaPdf, StoreReport, CompleteReport, CreateLink,
           TellReady, FailReport, TellFailed, Doing, NoRun
  <2> QED
    BY <2>1 DEF ReportsInv, ReportVarsOK
<1>2. PICK r \in ReportIds : r = runs[w].report
  BY <1>1, RunFields
<1>3. /\ ReportVarsOK /\ ReportAgrees(r) /\ ExecutionAgrees(w, r) /\ On(w, r)
  BY <1>1, <1>2 DEF ReportsInv, AllAgree, On
<1>4. /\ reports[r] \in ReportRow /\ reports[r].status # "none" /\ (reports[r].key <=> reports[r].status = "completed")
      /\ reports = [reports EXCEPT ![r] = reports[r]] /\ told = [told EXCEPT ![r] = told[r] \cup {}]
      /\ lost = [lost EXCEPT ![r] = lost[r]] /\ lost[r] \in BOOLEAN
  BY <1>3 DEF ReportAgrees, ReportVarsOK
<1>5. ASSUME NEW p \in ReportStages, Turn(w, p), p \in {"render", "store", "ready", "fail"},
             UNCHANGED <<reports, queued, stalls, files, told, lost>>, p = "ready" => runs[w].pc = "link"
      PROVE  ReportsInv'
  <2>1. stalls[r] = 0 /\ p = "ready" => reports[r].status = "completed" /\ r \in files'
    BY <1>3, <1>5 DEF ExecutionAgrees
  <2>2. TurnIs(w, r, p, reports[r])
    BY <1>3, <1>4, <1>5, <2>1 DEF TurnIs
  <2> QED
    BY <1>4, <2>2, TurnsHold
<1>6. ASSUME NEW x \in {"completed", "failed"}, UpdateReportStatus(r, x)
      PROVE  \E doc \in ReportRow : /\ reports' = [reports EXCEPT ![r] = doc] /\ doc.status = x
                                    /\ doc.key <=> doc.status = "completed"
  <2>1. PICK b \in BOOLEAN : b <=> x = "completed"
    OBVIOUS
  <2>2. PICK doc : doc = [reports[r] EXCEPT !.status = x, !.key = b]
    OBVIOUS
  <2>3. doc \in ReportRow /\ doc.status = x /\ doc.key = b
    BY <1>4, <2>2 DEF ReportRow
  <2>4. reports' = [reports EXCEPT ![r] = doc]
    BY <1>3, <1>6, <2>1, <2>2 DEF UpdateReportStatus, ReportVarsOK
  <2> QED
    BY <2>1, <2>3, <2>4
<1>7. CASE QueryTicket(w) \/ QueryStats(w) \/ RenderTicketPdf(w) \/ RenderSlaPdf(w)
  <2>1. PICK p \in {"render", "store", "fail"} : Turn(w, p) /\ UNCHANGED <<reports, queued, stalls, files, told, lost>>
    BY <1>7 DEF QueryTicket, QueryStats, RenderTicketPdf, RenderSlaPdf, Or
  <2> QED
    BY <1>5, <2>1 DEF ReportStages
<1>8. CASE CreateLink(w)
  <2>1. PICK p \in {"ready", "fail"} : Turn(w, p) /\ UNCHANGED <<reports, queued, stalls, files, told, lost>>
    BY <1>8 DEF CreateLink, Or
  <2>2. runs[w].pc = "link"
    BY <1>8 DEF CreateLink, Doing
  <2> QED
    BY <1>5, <2>1, <2>2 DEF ReportStages
<1>9. CASE StoreReport(w)
  <2>1. CASE Turn(w, "complete") /\ files' = files \cup {r}
    <3>1. PICK p \in ReportStages : p = "complete"
      BY DEF ReportStages
    <3>2. TurnIs(w, r, p, reports[r])
      BY <1>3, <1>4, <1>9, <2>1, <3>1 DEF StoreReport, TurnIs
    <3> QED
      BY <1>4, <3>2, TurnsHold
  <2>2. CASE Turn(w, "fail") /\ UNCHANGED files
    BY <1>5, <1>9, <2>2 DEF StoreReport, ReportStages
  <2> QED
    BY <1>2, <1>9, <2>1, <2>2 DEF StoreReport, Report
<1>10. CASE CompleteReport(w)
  <2>1. CASE Turn(w, "link") /\ UpdateReportStatus(r, "completed")
    <3>1. PICK doc \in ReportRow : /\ reports' = [reports EXCEPT ![r] = doc] /\ doc.status = "completed"
                                   /\ doc.key <=> doc.status = "completed"
      BY <1>6, <2>1
    <3>2. PICK p \in ReportStages : p = "link"
      BY DEF ReportStages
    <3>3. UNCHANGED <<queued, stalls, files, told, lost>> /\ (stalls[r] = 0 => r \in files')
      BY <1>3, <1>10 DEF CompleteReport, Doing, ExecutionAgrees
    <3>4. Turn(w, p) /\ p \notin {"complete", "sorry"}
      BY <2>1, <3>2
    <3>5. On(w, r) /\ doc.status # "none" /\ (doc.key <=> doc.status = "completed")
      BY <1>3, <3>1
    <3>6. (stalls[r] = 0 => r \in files') /\ files \subseteq files' /\ files' \subseteq files \cup {r}
      BY <3>3
    <3>7. TurnIs(w, r, p, doc)
      BY <3>1, <3>3, <3>4, <3>5, <3>6 DEF TurnIs
    <3> QED
      BY <3>7, TurnsHold
  <2>2. CASE Turn(w, "fail") /\ UNCHANGED reports
    BY <1>5, <1>10, <2>2 DEF CompleteReport, ReportStages
  <2> QED
    BY <1>2, <1>10, <2>1, <2>2 DEF CompleteReport, Report
<1>11. CASE FailReport(w)
  <2>1. CASE Turn(w, "sorry") /\ UpdateReportStatus(r, "failed") /\ UNCHANGED <<queued, lost>>
    <3>1. PICK doc \in ReportRow : /\ reports' = [reports EXCEPT ![r] = doc] /\ doc.status = "failed"
                                   /\ doc.key <=> doc.status = "completed"
      BY <1>6, <2>1
    <3>2. PICK p \in ReportStages : p = "sorry"
      BY DEF ReportStages
    <3>3. Turn(w, p) /\ p \notin {"complete", "link", "ready"} /\ UNCHANGED <<queued, stalls, told, lost, files>>
      BY <1>11, <2>1, <3>2 DEF FailReport
    <3>4. On(w, r) /\ doc.status # "none" /\ (doc.key <=> doc.status = "completed")
      BY <1>3, <3>1
    <3>5. files \subseteq files' /\ files' \subseteq files \cup {r}
      BY <3>3
    <3>6. TurnIs(w, r, p, doc)
      BY <3>1, <3>3, <3>4, <3>5 DEF TurnIs
    <3> QED
      BY <3>6, TurnsHold
  <2>2. CASE EndRun(w) /\ lost' = [lost EXCEPT ![r] = TRUE] /\ UNCHANGED reports
    <3>1. PICK t \in SUBSET {"ready", "failed"}, l \in BOOLEAN : t = {} /\ l = TRUE
      OBVIOUS
    <3>2. EndIs(w, r, t, l)
      BY <1>3, <1>4, <1>11, <2>2, <3>1 DEF FailReport, EndIs
    <3> QED
      BY <3>2, EndsHold
  <2> QED
    BY <1>2, <1>11, <2>1, <2>2 DEF FailReport, Report
<1>12. CASE TellReady(w)
  <2>1. PICK t \in SUBSET {"ready", "failed"} : t = {"ready"}
    OBVIOUS
  <2>2. /\ EndRun(w) /\ told' = [told EXCEPT ![r] = told[r] \cup t] /\ UNCHANGED <<reports, stalls, files>>
        /\ runs[w].pc = "ready" /\ lost' = [lost EXCEPT ![r] = lost[r]]
    BY <1>2, <1>4, <1>12, <2>1 DEF TellReady, Report, Doing
  <2>3. stalls[r] = 0 => reports[r].status = "completed" /\ r \in files
    BY <1>3, <2>2 DEF ExecutionAgrees
  <2>4. ~lost[r] => reports[r].status # "pending"
    BY <1>3, <2>3 DEF ReportAgrees
  <2>5. EndIs(w, r, t, lost[r])
    BY <1>3, <2>1, <2>2, <2>3, <2>4 DEF EndIs
  <2> QED
    BY <1>4, <2>5, EndsHold
<1>13. CASE TellFailed(w)
  <2>1. PICK t \in SUBSET {"ready", "failed"} : t = {"failed"}
    OBVIOUS
  <2>2. /\ EndRun(w) /\ told' = [told EXCEPT ![r] = told[r] \cup t] /\ UNCHANGED <<reports, stalls, files>>
        /\ runs[w].pc = "sorry" /\ lost' = [lost EXCEPT ![r] = lost[r]]
    BY <1>2, <1>4, <1>13, <2>1 DEF TellFailed, Report, Doing
  <2>3. stalls[r] = 0 => reports[r].status = "failed"
    BY <1>3, <2>2 DEF ExecutionAgrees
  <2>4. ~lost[r] => reports[r].status # "pending"
    BY <1>3, <2>3 DEF ReportAgrees
  <2>5. EndIs(w, r, t, lost[r])
    BY <1>3, <2>1, <2>2, <2>3, <2>4 DEF EndIs
  <2> QED
    BY <1>4, <2>5, EndsHold
<1> QED
  BY <1>7, <1>8, <1>9, <1>10, <1>11, <1>12, <1>13

LEMMA ReportsStepHolds == ReportsInv /\ [ReportsNext]_reportVars => ReportsInv'
<1> SUFFICES ASSUME ReportsInv, [ReportsNext]_reportVars PROVE ReportsInv'
  OBVIOUS
<1>1. ASSUME NEW r \in ReportIds, AskTicketReport(r) \/ AskSlaReport(r) \/ AskWeeklyReport(r) \/ AddJob(r)
      PROVE  ReportsInv'
  BY <1>1, RequestsHold DEF AskTicketReport, AskSlaReport, AskWeeklyReport
<1>2. ASSUME NEW w \in ReportWorkers, NEW r \in ReportIds, StartReport(w, r) PROVE ReportsInv'
  BY <1>2, StartHolds
<1>3. ASSUME NEW w \in ReportWorkers,
             \/ QueryTicket(w) \/ QueryStats(w) \/ RenderTicketPdf(w) \/ RenderSlaPdf(w)
             \/ StoreReport(w) \/ CompleteReport(w) \/ CreateLink(w) \/ TellReady(w)
             \/ FailReport(w) \/ TellFailed(w)
      PROVE  ReportsInv'
  BY <1>3, WorkersHold
<1>4. ASSUME NEW w \in ReportWorkers, StallReport(w) PROVE ReportsInv'
  BY <1>4, StallHolds
<1>5. CASE UNCHANGED reportVars
  BY <1>5 DEF reportVars, ReportsInv, ReportVarsOK, AllAgree, ReportAgrees, ExecutionAgrees, On
<1> QED
  BY <1>1, <1>2, <1>3, <1>4, <1>5 DEF ReportsNext

LEMMA ReportsHold == ReportsInv => ReportsTypeOK /\ SentLinkWorks /\ ReportSettles
<1> SUFFICES ASSUME ReportsInv PROVE ReportsTypeOK /\ SentLinkWorks /\ ReportSettles
  OBVIOUS
<1>1. ReportVarsOK /\ \A r \in ReportIds : ReportAgrees(r)
  BY DEF ReportsInv, AllAgree
<1>2. ReportsTypeOK
  BY <1>1 DEF ReportVarsOK, ReportAgrees, ReportsTypeOK, ReportRow, QueueStates, RunRow, ReportStages
<1>3. SentLinkWorks
  BY <1>1 DEF ReportAgrees, SentLinkWorks, Downloadable
<1>4. ReportSettles
  BY <1>1 DEF ReportAgrees, ReportSettles, On, Report
<1> QED
  BY <1>2, <1>3, <1>4

-----------------------------------------------------------------------------
(* The mails of the queue.                                                   *)

MailStages == {"waiting", "taken", "rendered", "fallback", "answered", "sent", "failed"}
MailRow == [pc: MailStages, template: Templates, stalls: 0 .. 1]
MailCount == [real: Nat, fallback: Nat]
InHand == {"taken", "rendered", "fallback", "answered"}

(* A row counts the mails that SMTP took for it against its mishaps: one     *)
(* more only once SMTP has answered the attempt under way.                   *)
MailsAgree(msg, took, errors) ==
  /\ took.real + took.fallback <= 1 + errors
  /\ msg.pc \notin {"answered", "sent"} => took.real + took.fallback <= errors
  /\ msg.pc \in {"answered", "sent"} => took.real + took.fallback > 0

MailInv == MailingTypeOK /\ \A j \in Mails : MailsAgree(mail[j], accepted[j], mishaps[j])

LEMMA MailTypes == MailingTypeOK =>
  /\ compiled \subseteq installed /\ installed \subseteq Templates
  /\ mail \in [Mails -> {Unqueued} \cup MailRow]
  /\ accepted \in [Mails -> MailCount] /\ mishaps \in [Mails -> Nat]
BY DEF MailingTypeOK, MailRow, MailStages, MailCount

LEMMA MailFields ==
  ASSUME NEW q \in {Unqueued} \cup MailRow
  PROVE  /\ q.pc \in {"unqueued"} \cup MailStages
         /\ q.pc # "unqueued" => q \in MailRow /\ q.template \in Templates /\ q.stalls \in 0 .. 1
BY DEF MailRow, MailStages, Unqueued

LEMMA HandsAreCounted == MailingTypeOK =>
  /\ BeingSent = {j \in Mails : mail[j].pc \notin {"unqueued", "waiting", "sent", "failed"}}
  /\ IsFiniteSet(BeingSent) /\ Cardinality(BeingSent) \in Nat /\ Cardinality(BeingSent) <= Slots
<1> SUFFICES ASSUME MailingTypeOK
    PROVE  /\ BeingSent = {j \in Mails : mail[j].pc \notin {"unqueued", "waiting", "sent", "failed"}}
           /\ IsFiniteSet(BeingSent) /\ Cardinality(BeingSent) \in Nat /\ Cardinality(BeingSent) <= Slots
  OBVIOUS
<1>1. \A j \in Mails : mail[j].pc \in {"unqueued"} \cup MailStages
  BY MailTypes, MailFields
<1>2. BeingSent = {j \in Mails : mail[j].pc \notin {"unqueued", "waiting", "sent", "failed"}}
  BY <1>1 DEF BeingSent, MailStages
<1>3. IsFiniteSet(BeingSent) /\ Cardinality(BeingSent) \in Nat
  BY MailingAssumption, NoMore DEF BeingSent
<1> QED
  BY <1>2, <1>3 DEF MailingTypeOK

LEMMA MailingInitHolds == MailingInit => MailInv
<1> SUFFICES ASSUME MailingInit PROVE MailInv
  OBVIOUS
<1>1. PICK zero \in Nat : zero = 0
  OBVIOUS
<1>2. PICK none : none = [real |-> zero, fallback |-> zero]
  OBVIOUS
<1>3. none \in MailCount /\ none.real = 0 /\ none.fallback = 0
  BY <1>1, <1>2 DEF MailCount
<1>4. /\ mail = [j \in Mails |-> Unqueued] /\ accepted = [j \in Mails |-> none] /\ mishaps = [j \in Mails |-> zero]
      /\ compiled = {} /\ installed \subseteq Templates
  BY <1>1, <1>2 DEF MailingInit
<1>5. Unqueued.pc = "unqueued"
  BY DEF Unqueued
<1>6. /\ mail \in [Mails -> {Unqueued} \cup MailRow] /\ accepted \in [Mails -> MailCount] /\ mishaps \in [Mails -> Nat]
      /\ \A j \in Mails : mail[j].pc = "unqueued" /\ MailsAgree(mail[j], accepted[j], mishaps[j])
  BY <1>1, <1>3, <1>4, <1>5 DEF MailsAgree
<1>7. Cardinality({j \in Mails : mail[j].pc \notin {"unqueued", "waiting", "sent", "failed"}}) <= Slots
  <2>1. {j \in Mails : mail[j].pc \notin {"unqueued", "waiting", "sent", "failed"}} = {}
    BY <1>6
  <2>2. Cardinality({}) = 0 /\ Slots \in Nat
    BY FS_EmptySet, MailingAssumption
  <2> QED
    BY <2>1, <2>2
<1>8. MailingTypeOK
  BY <1>4, <1>6, <1>7 DEF MailingTypeOK, MailRow, MailStages, MailCount
<1> QED
  BY <1>6, <1>8 DEF MailInv

(* The row of j becomes q, with what SMTP took and the mishaps counted.      *)
LEMMA MailMoves ==
  ASSUME MailInv, NEW j \in Mails, NEW q \in MailRow, NEW a \in MailCount, NEW m \in Nat,
         mail' = [mail EXCEPT ![j] = q], accepted' = [accepted EXCEPT ![j] = a], mishaps' = [mishaps EXCEPT ![j] = m],
         UNCHANGED installed, compiled \subseteq compiled', compiled' \subseteq installed,
         q.pc = "rendered" => q.template \in compiled',
         q.pc \in InHand => j \in BeingSent \/ Cardinality(BeingSent) < Slots,
         MailsAgree(q, a, m)
  PROVE  MailInv'
<1>1. /\ mail \in [Mails -> {Unqueued} \cup MailRow] /\ accepted \in [Mails -> MailCount] /\ mishaps \in [Mails -> Nat]
      /\ installed \subseteq Templates
  BY MailTypes DEF MailInv
<1>2. /\ mail' \in [Mails -> {Unqueued} \cup MailRow] /\ mail'[j] = q /\ \A i \in Mails \ {j} : mail'[i] = mail[i]
      /\ accepted' \in [Mails -> MailCount] /\ accepted'[j] = a /\ \A i \in Mails \ {j} : accepted'[i] = accepted[i]
      /\ mishaps' \in [Mails -> Nat] /\ mishaps'[j] = m /\ \A i \in Mails \ {j} : mishaps'[i] = mishaps[i]
  BY <1>1
<1>3. \A i \in Mails : MailsAgree(mail'[i], accepted'[i], mishaps'[i])
  BY <1>2 DEF MailInv
<1>4. \A i \in Mails : mail'[i].pc = "rendered" => mail'[i].template \in compiled'
  BY <1>2 DEF MailInv, MailingTypeOK
<1>5. Cardinality({i \in Mails : mail'[i].pc \notin {"unqueued", "waiting", "sent", "failed"}}) <= Slots
  <2>1. PICK B : B = {i \in Mails : mail'[i].pc \notin {"unqueued", "waiting", "sent", "failed"}}
    OBVIOUS
  <2>2. IsFiniteSet(BeingSent) /\ Cardinality(BeingSent) \in Nat /\ Cardinality(BeingSent) <= Slots
    BY HandsAreCounted DEF MailInv
  <2>3. BeingSent = {i \in Mails : mail[i].pc \notin {"unqueued", "waiting", "sent", "failed"}}
    BY HandsAreCounted DEF MailInv
  <2>4. B \subseteq BeingSent \cup {j} /\ (q.pc \notin InHand => B \subseteq BeingSent)
    BY <1>2, <2>1, <2>3 DEF InHand, MailRow, MailStages
  <2>5. CASE B \subseteq BeingSent
    BY <2>1, <2>2, <2>5, NoMore, MailingAssumption
  <2>6. CASE ~(B \subseteq BeingSent)
    <3>1. Cardinality(BeingSent) < Slots
      BY <2>4, <2>6
    <3>2. Cardinality(B) \in Nat /\ Cardinality(B) <= Cardinality(BeingSent) + 1
      BY <2>2, <2>4, OneMore
    <3> QED
      BY <2>1, <2>2, <3>1, <3>2, MailingAssumption
  <2> QED
    BY <2>5, <2>6
<1>6. MailingTypeOK'
  BY <1>1, <1>2, <1>4, <1>5 DEF MailingTypeOK, MailRow, MailStages, MailCount
<1> QED
  BY <1>3, <1>6 DEF MailInv

(* Goes: only the place of the job changes.                                  *)
LEMMA MailGoes ==
  ASSUME MailInv, NEW j \in Mails, mail[j] \in MailRow, NEW p \in MailStages, Goes(j, p)
  PROVE  \E q \in MailRow : /\ mail' = [mail EXCEPT ![j] = q] /\ q.pc = p
                            /\ q.template = mail[j].template /\ q.stalls = mail[j].stalls
<1>1. PICK q : q = [mail[j] EXCEPT !.pc = p]
  OBVIOUS
<1>2. q \in MailRow /\ q.pc = p /\ q.template = mail[j].template /\ q.stalls = mail[j].stalls
  BY <1>1 DEF MailRow
<1>3. mail' = [mail EXCEPT ![j] = q]
  BY <1>1 DEF Goes
<1> QED
  BY <1>2, <1>3

LEMMA MailsStay ==
  ASSUME MailInv, NEW j \in Mails
  PROVE  /\ mail[j] \in {Unqueued} \cup MailRow /\ accepted[j] \in MailCount /\ mishaps[j] \in Nat
         /\ accepted = [accepted EXCEPT ![j] = accepted[j]] /\ mishaps = [mishaps EXCEPT ![j] = mishaps[j]]
         /\ MailsAgree(mail[j], accepted[j], mishaps[j])
         /\ compiled \subseteq installed /\ installed \subseteq Templates
         /\ mail[j].pc = "rendered" => mail[j].template \in compiled
         /\ mail[j].pc # "unqueued" => mail[j] \in MailRow /\ mail[j].template \in Templates
         /\ mail[j].pc \in InHand <=> j \in BeingSent
BY MailTypes, MailFields DEF MailInv, MailingTypeOK, BeingSent, InHand

LEMMA MailsAreTaken ==
  ASSUME MailInv, NEW j \in Mails, (\E t \in Templates : Enqueue(j, t)) \/ Take(j) \/ Compile(j) \/ Complete(j)
  PROVE  MailInv'
<1>1. /\ mail[j] \in {Unqueued} \cup MailRow /\ accepted[j] \in MailCount /\ mishaps[j] \in Nat
      /\ accepted = [accepted EXCEPT ![j] = accepted[j]] /\ mishaps = [mishaps EXCEPT ![j] = mishaps[j]]
      /\ MailsAgree(mail[j], accepted[j], mishaps[j])
      /\ compiled \subseteq installed /\ installed \subseteq Templates
      /\ mail[j].pc = "rendered" => mail[j].template \in compiled
      /\ mail[j].pc # "unqueued" => mail[j] \in MailRow /\ mail[j].template \in Templates
      /\ mail[j].pc \in InHand <=> j \in BeingSent
  BY MailsStay
<1>2. UNCHANGED <<installed, accepted, mishaps>>
  BY DEF Enqueue, Take, Compile, Complete
<1>3. accepted' = [accepted EXCEPT ![j] = accepted[j]] /\ mishaps' = [mishaps EXCEPT ![j] = mishaps[j]]
  BY <1>1, <1>2
<1>4. ASSUME NEW t \in Templates, Enqueue(j, t) PROVE MailInv'
  <2>1. PICK q : q = [pc |-> "waiting", template |-> t, stalls |-> 0]
    OBVIOUS
  <2>2. q \in MailRow /\ q.pc = "waiting"
    BY <2>1 DEF MailRow, MailStages
  <2>3. mail' = [mail EXCEPT ![j] = q] /\ UNCHANGED compiled /\ mail[j].pc = "unqueued"
    BY <1>4, <2>1 DEF Enqueue, Unqueued
  <2>4. MailsAgree(q, accepted[j], mishaps[j])
    BY <1>1, <2>2, <2>3 DEF MailsAgree
  <2> QED
    BY <1>1, <1>2, <1>3, <2>2, <2>3, <2>4, MailMoves DEF InHand
<1>5. CASE Take(j)
  <2>1. mail[j].pc = "waiting" /\ Cardinality(BeingSent) < Slots /\ Goes(j, "taken") /\ UNCHANGED compiled
    BY <1>5 DEF Take
  <2>2. PICK q \in MailRow : mail' = [mail EXCEPT ![j] = q] /\ q.pc = "taken"
    BY <1>1, <2>1, MailGoes DEF MailStages
  <2>3. MailsAgree(q, accepted[j], mishaps[j])
    BY <1>1, <2>1, <2>2 DEF MailsAgree
  <2> QED
    BY <1>1, <1>2, <1>3, <2>1, <2>2, <2>3, MailMoves
<1>6. CASE Compile(j)
  <2>1. mail[j].pc = "taken" /\ mail[j] \in MailRow /\ mail[j].template \in Templates /\ j \in BeingSent
    BY <1>1, <1>6 DEF Compile, InHand
  <2>2. PICK p \in {"rendered", "fallback"} :
           /\ Goes(j, p) /\ compiled \subseteq compiled' /\ compiled' \subseteq installed
           /\ p = "rendered" => mail[j].template \in compiled'
    BY <1>1, <1>6 DEF Compile
  <2>3. PICK q \in MailRow : mail' = [mail EXCEPT ![j] = q] /\ q.pc = p /\ q.template = mail[j].template
    BY <2>1, <2>2, MailGoes DEF MailStages
  <2>4. MailsAgree(q, accepted[j], mishaps[j])
    BY <1>1, <2>1, <2>3 DEF MailsAgree
  <2> QED
    BY <1>1, <1>2, <1>3, <2>1, <2>2, <2>3, <2>4, MailMoves
<1>7. CASE Complete(j)
  <2>1. mail[j].pc = "answered" /\ mail[j] \in MailRow /\ Goes(j, "sent") /\ UNCHANGED compiled
    BY <1>1, <1>7 DEF Complete
  <2>2. PICK q \in MailRow : mail' = [mail EXCEPT ![j] = q] /\ q.pc = "sent"
    BY <2>1, MailGoes DEF MailStages
  <2>3. MailsAgree(q, accepted[j], mishaps[j])
    BY <1>1, <2>1, <2>2 DEF MailsAgree
  <2> QED
    BY <1>1, <1>2, <1>3, <2>1, <2>2, <2>3, MailMoves DEF InHand
<1> QED
  BY <1>4, <1>5, <1>6, <1>7

(* One attempt of the row at hand, whatever SMTP answers.                    *)
LEMMA SendingHolds ==
  ASSUME MailInv, NEW j \in Mails, NEW k \in {"real", "fallback"}, NEW p \in {"fallback", "failed"},
         mail[j].pc \in {"rendered", "fallback"}, Send(j, k, p), UNCHANGED <<installed, compiled>>
  PROVE  MailInv'
<1>1. /\ mail[j] \in MailRow /\ accepted[j] \in MailCount /\ mishaps[j] \in Nat
      /\ accepted = [accepted EXCEPT ![j] = accepted[j]] /\ mishaps = [mishaps EXCEPT ![j] = mishaps[j]]
      /\ MailsAgree(mail[j], accepted[j], mishaps[j])
      /\ compiled \subseteq installed /\ j \in BeingSent
  BY MailsStay DEF InHand
<1>2. PICK r \in Nat, f \in Nat : accepted[j].real = r /\ accepted[j].fallback = f
  BY <1>1 DEF MailCount
<1>3. r + f <= mishaps[j]
  BY <1>1, <1>2 DEF MailsAgree
<1>4. PICK more : more = [accepted[j] EXCEPT ![k] = @ + 1]
  OBVIOUS
<1>5. more \in MailCount /\ more.real + more.fallback = r + f + 1
  <2>1. CASE k = "real"
    <3>1. more = [accepted[j] EXCEPT !["real"] = r + 1]
      BY <1>2, <1>4, <2>1
    <3> QED
      BY <1>1, <1>2, <3>1 DEF MailCount
  <2>2. CASE k = "fallback"
    <3>1. more = [accepted[j] EXCEPT !["fallback"] = f + 1]
      BY <1>2, <1>4, <2>2
    <3> QED
      BY <1>1, <1>2, <3>1 DEF MailCount
  <2> QED
    BY <2>1, <2>2
<1>6. CASE accepted' = [accepted EXCEPT ![j][k] = @ + 1] /\ Goes(j, "answered") /\ UNCHANGED mishaps
  <2>1. PICK q \in MailRow : mail' = [mail EXCEPT ![j] = q] /\ q.pc = "answered"
    BY <1>1, <1>6, MailGoes DEF MailStages
  <2>2. accepted' = [accepted EXCEPT ![j] = more] /\ mishaps' = [mishaps EXCEPT ![j] = mishaps[j]]
    BY <1>1, <1>4, <1>6
  <2>3. MailsAgree(q, more, mishaps[j])
    BY <1>1, <1>2, <1>3, <1>5, <2>1 DEF MailsAgree
  <2> QED
    BY <1>1, <1>5, <2>1, <2>2, <2>3, MailMoves
<1>7. CASE Goes(j, p) /\ UNCHANGED <<accepted, mishaps>>
  <2>1. PICK q \in MailRow : mail' = [mail EXCEPT ![j] = q] /\ q.pc = p
    BY <1>1, <1>7, MailGoes DEF MailStages
  <2>2. accepted' = [accepted EXCEPT ![j] = accepted[j]] /\ mishaps' = [mishaps EXCEPT ![j] = mishaps[j]]
    BY <1>1, <1>7
  <2>3. MailsAgree(q, accepted[j], mishaps[j])
    BY <1>1, <1>2, <1>3, <2>1 DEF MailsAgree
  <2> QED
    BY <1>1, <2>1, <2>2, <2>3, MailMoves
<1>8. CASE /\ accepted' = [accepted EXCEPT ![j][k] = @ + 1] /\ mishaps' = [mishaps EXCEPT ![j] = @ + 1]
           /\ Goes(j, p)
  <2>1. PICK q \in MailRow : mail' = [mail EXCEPT ![j] = q] /\ q.pc = p
    BY <1>1, <1>8, MailGoes DEF MailStages
  <2>2. PICK m \in Nat : m = mishaps[j] + 1
    BY <1>1
  <2>3. accepted' = [accepted EXCEPT ![j] = more] /\ mishaps' = [mishaps EXCEPT ![j] = m]
    BY <1>1, <1>4, <1>8, <2>2
  <2>4. MailsAgree(q, more, m)
    BY <1>1, <1>2, <1>3, <1>5, <2>1, <2>2 DEF MailsAgree
  <2> QED
    BY <1>1, <1>5, <2>1, <2>2, <2>3, <2>4, MailMoves
<1> QED
  BY <1>6, <1>7, <1>8 DEF Send

LEMMA StallsHold ==
  ASSUME MailInv, StallMails
  PROVE  MailInv'
<1>1. /\ mail \in [Mails -> {Unqueued} \cup MailRow] /\ accepted \in [Mails -> MailCount] /\ mishaps \in [Mails -> Nat]
      /\ installed' \subseteq Templates /\ compiled' = {} /\ accepted' = accepted
  BY MailTypes DEF MailInv, StallMails
<1>2. /\ \A j \in Mails : mishaps'[j] = mishaps[j] + IF j \in BeingSent THEN 1 ELSE 0
      /\ mishaps' \in [Mails -> Nat]
  <2>1. mishaps' = [j \in Mails |-> mishaps[j] + IF j \in BeingSent THEN 1 ELSE 0]
    BY DEF StallMails
  <2>2. \A j \in Mails : mishaps'[j] = mishaps[j] + IF j \in BeingSent THEN 1 ELSE 0
    BY <2>1
  <2>3. \A j \in Mails : mishaps'[j] \in Nat
    BY <1>1, <2>2
  <2> QED
    BY <2>1, <2>2, <2>3
<1>3. /\ DOMAIN mail' = Mails /\ mail' = [j \in Mails |-> mail'[j]]
      /\ \A j \in Mails : mail'[j] =
          IF j \notin BeingSent THEN mail[j]
          ELSE IF mail[j].stalls = 0 THEN [mail[j] EXCEPT !.pc = "waiting", !.stalls = 1]
          ELSE [mail[j] EXCEPT !.pc = "failed"]
  BY DEF StallMails
<1>4. ASSUME NEW j \in Mails
      PROVE  /\ mail'[j] \in {Unqueued} \cup MailRow
             /\ j \notin BeingSent => mail'[j] = mail[j]
             /\ j \in BeingSent => mail'[j].pc \in {"waiting", "failed"}
  <2>1. CASE j \notin BeingSent
    BY <1>1, <1>3, <2>1
  <2>2. CASE j \in BeingSent
    <3>1. mail[j] \in MailRow
      BY <2>2, MailsStay DEF InHand
    <3>2. PICK one \in 0 .. 1 : one = 1
      OBVIOUS
    <3>3. CASE mail[j].stalls = 0
      <4>1. mail'[j] = [mail[j] EXCEPT !.pc = "waiting", !.stalls = one]
        BY <1>3, <2>2, <3>2, <3>3
      <4> QED
        BY <2>2, <3>1, <4>1 DEF MailRow, MailStages
    <3>4. CASE mail[j].stalls # 0
      <4>1. mail'[j] = [mail[j] EXCEPT !.pc = "failed"]
        BY <1>3, <2>2, <3>4
      <4> QED
        BY <2>2, <3>1, <4>1 DEF MailRow, MailStages
    <3> QED
      BY <3>3, <3>4
  <2> QED
    BY <2>1, <2>2
<1>5. mail' \in [Mails -> {Unqueued} \cup MailRow]
  BY <1>3, <1>4
<1>6. \A j \in Mails : mail'[j].pc \in {"unqueued", "waiting", "sent", "failed"}
  <2> TAKE j \in Mails
  <2>1. mail[j].pc \in {"unqueued"} \cup MailStages /\ (mail[j].pc \in InHand <=> j \in BeingSent)
    BY <1>1, MailFields, MailsStay
  <2> QED
    BY <1>4, <2>1 DEF MailStages, InHand
<1>7. \A j \in Mails : MailsAgree(mail'[j], accepted'[j], mishaps'[j])
  <2> TAKE j \in Mails
  <2>1. MailsAgree(mail[j], accepted[j], mishaps[j]) /\ accepted[j] \in MailCount /\ mishaps[j] \in Nat
    BY MailsStay
  <2>2. PICK r \in Nat, f \in Nat : accepted[j].real = r /\ accepted[j].fallback = f
    BY <2>1 DEF MailCount
  <2>3. CASE j \in BeingSent
    BY <1>1, <1>2, <1>4, <2>1, <2>2, <2>3 DEF MailsAgree
  <2>4. CASE j \notin BeingSent
    BY <1>1, <1>2, <1>4, <2>1, <2>2, <2>4 DEF MailsAgree
  <2> QED
    BY <2>3, <2>4
<1>8. Cardinality({j \in Mails : mail'[j].pc \notin {"unqueued", "waiting", "sent", "failed"}}) <= Slots
  <2>1. PICK B : B = {j \in Mails : mail'[j].pc \notin {"unqueued", "waiting", "sent", "failed"}}
    OBVIOUS
  <2>2. B = {}
    BY <1>6, <2>1
  <2>3. Cardinality(B) = 0
    BY <2>2, FS_EmptySet
  <2> QED
    BY <2>1, <2>3, MailingAssumption
<1>9. \A j \in Mails : mail'[j].pc # "rendered"
  BY <1>6
<1>10. MailingTypeOK'
  BY <1>1, <1>2, <1>5, <1>8, <1>9 DEF MailingTypeOK, MailRow, MailStages, MailCount
<1> QED
  BY <1>7, <1>10 DEF MailInv

LEMMA MailingStepHolds == MailInv /\ [MailingNext]_mailVars => MailInv'
<1> SUFFICES ASSUME MailInv, [MailingNext]_mailVars PROVE MailInv'
  OBVIOUS
<1>1. ASSUME NEW j \in Mails, (\E t \in Templates : Enqueue(j, t)) \/ Take(j) \/ Compile(j) \/ Complete(j) PROVE MailInv'
  BY <1>1, MailsAreTaken
<1>2. ASSUME NEW j \in Mails, SendTemplate(j) PROVE MailInv'
  BY <1>2, SendingHolds DEF SendTemplate
<1>3. ASSUME NEW j \in Mails, SendFallback(j) PROVE MailInv'
  BY <1>3, SendingHolds DEF SendFallback
<1>4. CASE StallMails
  BY <1>4, StallsHold
<1>5. CASE UNCHANGED mailVars
  BY <1>5 DEF mailVars, MailInv, MailingTypeOK
<1> QED
  BY <1>1, <1>2, <1>3, <1>4, <1>5 DEF MailingNext

LEMMA MailingHolds == MailInv => MailingTypeOK /\ ExtraMailsNeedMishaps /\ CompletedWasSent
BY DEF MailInv, MailsAgree, ExtraMailsNeedMishaps, CompletedWasSent, Total

-----------------------------------------------------------------------------
(* The sockets of a user and the notifications pushed to them.               *)

SocketStates == {Unopened} \cup [pc: {"auth", "join", "done", "refused"}, host: Hosts, open: BOOLEAN]
JobStates == {"queued", "active", "done", "failed"}
RunStates == {NotRun} \cup [pc: {"insert", "push"}, host: Hosts]

(* A registered socket is on its host; one that closed on the way there is   *)
(* counted as dropped, and will be registered all the same.                  *)
SocketsAreKnown ==
  /\ socket \in [Sockets -> SocketStates] /\ clients \in [Hosts -> SUBSET Sockets] /\ gauge \in [Hosts -> Int]
  /\ dropped \subseteq Sockets
  /\ \A h \in Hosts : \A s \in clients[h] : socket[s].pc = "done" /\ socket[s].host = h
  /\ \A s \in Sockets : socket[s].pc \in {"auth", "join"} => socket[s].open \/ s \in dropped
  /\ GaugeCountsClients /\ ClientsAreOpenUnlessOvertaken

(* A run stores one row at most, when it leaves the INSERT; one that was not *)
(* begun stored none.                                                        *)
RunIsCounted(r) ==
  /\ run[r].pc = "insert" => saved[r] = 0
  /\ run[r].pc = "push" => saved[r] = 1
  /\ r[2] > taken[r[1]] + 1 => saved[r] = 0 /\ run[r] = NotRun
  /\ r[2] = taken[r[1]] + 1 /\ job[r[1]] = "queued" => saved[r] = 0 /\ run[r] = NotRun

(* The queue takes a job back once at most while it still hopes for it.      *)
JobIsCounted(j) ==
  /\ job[j] \in {"queued", "active"} => taken[j] <= 1
  /\ pushed[j] # {} => \E r \in Runs : r[1] = j /\ saved[r] = 1

PushesAreTyped ==
  /\ job \in [Pushes -> JobStates] /\ run \in [Runs -> RunStates] /\ saved \in [Runs -> {0, 1}]
  /\ pushed \in [Pushes -> SUBSET Sockets] /\ taken \in [Pushes -> 0 .. 2]

PushesAreCounted ==
  PushesAreTyped /\ (\A r \in Runs : RunIsCounted(r)) /\ \A j \in Pushes : JobIsCounted(j)

PresenceInv == SocketsAreKnown /\ PushesAreCounted

LEMMA SocketFields ==
  ASSUME NEW q \in SocketStates
  PROVE  /\ q # Unopened <=> q.pc \in {"auth", "join", "done", "refused"}
         /\ q = Unopened <=> q.pc = "unopened"
         /\ q # Unopened => q.host \in Hosts /\ q.open \in BOOLEAN
BY DEF SocketStates, Unopened

LEMMA PushRunFields ==
  ASSUME NEW q \in RunStates
  PROVE  /\ q.pc \in {"none", "insert", "push"}
         /\ q = NotRun <=> q.pc = "none"
         /\ q.pc # "none" => q.host \in Hosts /\ q \in [pc: {"insert", "push"}, host: Hosts]
BY DEF RunStates, NotRun

LEMMA RunNumbers == ASSUME NEW r \in Runs PROVE r[1] \in Pushes /\ r[2] \in {1, 2} /\ r = <<r[1], r[2]>>
BY DEF Runs

LEMMA NotRunIsARun == NotRun \in RunStates /\ NotRun.pc = "none"
BY DEF RunStates, NotRun

LEMMA PresenceInitHolds == PresenceInit => PresenceInv
<1> SUFFICES ASSUME PresenceInit PROVE PresenceInv
  OBVIOUS
<1>1. SocketsAreKnown
  <2>1. Unopened \in SocketStates /\ Unopened.pc = "unopened" /\ Cardinality({}) = 0
    BY FS_EmptySet DEF SocketStates, Unopened
  <2> QED
    BY <2>1 DEF PresenceInit, SocketsAreKnown, GaugeCountsClients, ClientsAreOpenUnlessOvertaken
<1>2. PushesAreCounted
  <2>1. PushesAreTyped
    BY NotRunIsARun DEF PresenceInit, PushesAreTyped, JobStates
  <2>2. ASSUME NEW r \in Runs PROVE RunIsCounted(r)
    BY <2>1, NotRunIsARun, RunNumbers DEF PresenceInit, RunIsCounted
  <2> QED
    BY <2>1, <2>2 DEF PresenceInit, PushesAreCounted, JobIsCounted
<1> QED
  BY <1>1, <1>2 DEF PresenceInv

LEMMA SocketsMove ==
  ASSUME SocketsAreKnown, NEW s \in Sockets, Authenticate(s) \/ Register(s) \/ HandleDisconnect(s) \/ \E h \in Hosts : OpenSocket(s, h)
  PROVE  SocketsAreKnown'
<1>1. /\ socket \in [Sockets -> SocketStates] /\ clients \in [Hosts -> SUBSET Sockets] /\ gauge \in [Hosts -> Int]
      /\ dropped \subseteq Sockets /\ socket[s] \in SocketStates
      /\ \A h \in Hosts : gauge[h] = Cardinality(clients[h]) /\ IsFiniteSet(clients[h])
      /\ \A h \in Hosts : s \in clients[h] => socket[s].pc = "done" /\ socket[s].host = h
  BY PresenceAssumption, FS_Subset DEF SocketsAreKnown, GaugeCountsClients
<1>2. PICK q \in SocketStates :
        /\ socket' = [socket EXCEPT ![s] = q] /\ (socket[s] # Unopened => q.host = socket[s].host)
        /\ \/ socket[s] = Unopened /\ q.pc = "auth" /\ q.open /\ UNCHANGED <<clients, gauge, dropped>>
           \/ /\ socket[s].pc = "auth" /\ q.pc \in {"join", "refused"} /\ (q.pc = "join" => q.open = socket[s].open)
              /\ UNCHANGED <<clients, gauge, dropped>>
           \/ socket[s].pc = "join" /\ q.pc = "done" /\ q.open = socket[s].open /\ Register(s)
           \/ socket[s].pc \in {"auth", "join", "done"} /\ q.pc = socket[s].pc /\ ~q.open /\ HandleDisconnect(s)
  <2>1. ASSUME NEW h \in Hosts, OpenSocket(s, h)
        PROVE  /\ \E q \in SocketStates : socket' = [socket EXCEPT ![s] = q] /\ socket[s] = Unopened /\ q.pc = "auth" /\ q.open
               /\ UNCHANGED <<clients, gauge, dropped>>
    <3>1. PICK q : q = [pc |-> "auth", host |-> h, open |-> TRUE]
      OBVIOUS
    <3>2. q \in SocketStates /\ q.pc = "auth" /\ q.open
      BY <3>1 DEF SocketStates
    <3> QED
      BY <2>1, <3>1, <3>2 DEF OpenSocket
  <2>2. ASSUME Authenticate(s) \/ Register(s) \/ HandleDisconnect(s)
        PROVE  socket[s] # Unopened /\ socket[s] \in [pc: {"auth", "join", "done", "refused"}, host: Hosts, open: BOOLEAN]
    <3>1. socket[s].pc # "unopened"
      BY <2>2 DEF Authenticate, Register, HandleDisconnect
    <3> QED
      BY <1>1, <3>1, SocketFields DEF SocketStates
  <2>3. CASE Authenticate(s)
    <3>1. PICK q : socket' = [socket EXCEPT ![s] = q] /\ (q = [socket[s] EXCEPT !.pc = "join"] \/ q = [socket[s] EXCEPT !.pc = "refused", !.open = FALSE])
      BY <2>3 DEF Authenticate
    <3>2. socket[s].pc = "auth" /\ UNCHANGED <<clients, gauge, dropped>>
      BY <2>3 DEF Authenticate
    <3>3. CASE q = [socket[s] EXCEPT !.pc = "join"]
      <4>1. q \in SocketStates /\ q.pc = "join" /\ q.host = socket[s].host /\ q.open = socket[s].open
        BY <2>2, <2>3, <3>3 DEF SocketStates
      <4> QED
        BY <3>1, <3>2, <4>1
    <3>4. CASE q = [socket[s] EXCEPT !.pc = "refused", !.open = FALSE]
      <4>1. q \in SocketStates
        BY <2>2, <2>3, <3>4 DEF SocketStates
      <4>2. q.pc = "refused" /\ q.host = socket[s].host
        BY <2>2, <2>3, <3>4
      <4> QED
        BY <3>1, <3>2, <4>1, <4>2
    <3> QED
      BY <3>1, <3>3, <3>4
  <2>4. CASE Register(s)
    <3>1. PICK q : socket' = [socket EXCEPT ![s] = q] /\ q = [socket[s] EXCEPT !.pc = "done"]
      BY <2>4 DEF Register
    <3>2. q \in SocketStates /\ q.pc = "done" /\ q.host = socket[s].host /\ q.open = socket[s].open
      BY <2>2, <2>4, <3>1 DEF SocketStates
    <3>3. socket[s].pc = "join"
      BY <2>4 DEF Register
    <3> QED
      BY <2>4, <3>1, <3>2, <3>3
  <2>5. CASE HandleDisconnect(s)
    <3>1. PICK q : socket' = [socket EXCEPT ![s] = q] /\ q = [socket[s] EXCEPT !.open = FALSE]
      BY <2>5 DEF HandleDisconnect
    <3>2. q \in SocketStates /\ q.pc = socket[s].pc /\ q.host = socket[s].host /\ ~q.open
      BY <2>2, <2>5, <3>1 DEF SocketStates
    <3>3. socket[s].pc \in {"auth", "join", "done"}
      BY <2>2, <2>5 DEF HandleDisconnect
    <3> QED
      BY <2>5, <3>1, <3>2, <3>3
  <2> QED
    BY <2>1, <2>3, <2>4, <2>5
<1>3. /\ socket' \in [Sockets -> SocketStates] /\ socket'[s] = q /\ \A r \in Sockets \ {s} : socket'[r] = socket[r]
  BY <1>1, <1>2
<1>4. Unopened.pc = "unopened"
  BY DEF Unopened
<1>5. CASE /\ UNCHANGED <<clients, gauge, dropped>>
           /\ \/ socket[s] = Unopened /\ q.pc = "auth" /\ q.open
              \/ socket[s].pc = "auth" /\ q.pc \in {"join", "refused"} /\ (q.pc = "join" => q.open = socket[s].open)
  <2>1. \A h \in Hosts : s \notin clients[h]
    BY <1>1, <1>4, <1>5
  <2>2. q.pc \in {"auth", "join"} => q.open \/ s \in dropped
    BY <1>5 DEF SocketsAreKnown
  <2> QED
    BY <1>1, <1>3, <1>5, <2>1, <2>2 DEF SocketsAreKnown, GaugeCountsClients, ClientsAreOpenUnlessOvertaken
<1>6. CASE socket[s].pc = "join" /\ q.pc = "done" /\ q.open = socket[s].open /\ Register(s)
  <2>1. PICK h \in Hosts : h = socket[s].host
    BY <1>1, <1>6, SocketFields
  <2>2. /\ clients' = [clients EXCEPT ![h] = clients[h] \cup {s}] /\ gauge' = [gauge EXCEPT ![h] = gauge[h] + 1] /\ dropped' = dropped
        /\ socket[s].pc = "join"
    BY <1>6, <2>1 DEF Register
  <2>3. q.pc = "done" /\ q.host = h /\ (q.open \/ s \in dropped)
    BY <1>2, <1>4, <1>6, <2>1 DEF SocketsAreKnown
  <2>4. s \notin clients[h] /\ \A g \in Hosts : s \notin clients[g]
    BY <1>1, <2>2
  <2>5. Cardinality(clients[h] \cup {s}) = Cardinality(clients[h]) + 1 /\ Cardinality(clients[h]) \in Nat
    BY <1>1, <2>4, FS_AddElement, FS_CardinalityType
  <2>6. /\ clients' \in [Hosts -> SUBSET Sockets] /\ gauge' \in [Hosts -> Int]
        /\ GaugeCountsClients'
    BY <1>1, <2>2, <2>5 DEF GaugeCountsClients
  <2>7. \A g \in Hosts : \A r \in clients'[g] : (r = s /\ g = h) \/ (r \in clients[g] /\ r # s)
    BY <1>1, <2>2, <2>4
  <2> QED
    BY <1>1, <1>3, <2>2, <2>3, <2>6, <2>7 DEF SocketsAreKnown, ClientsAreOpenUnlessOvertaken
<1>7. CASE socket[s].pc \in {"auth", "join", "done"} /\ q.pc = socket[s].pc /\ ~q.open /\ HandleDisconnect(s)
  <2>1. socket[s] # Unopened
    BY <1>4, <1>7
  <2>2. PICK h \in Hosts : h = socket[s].host
    BY <1>1, <2>1, SocketFields
  <2>3. /\ clients' = [clients EXCEPT ![h] = clients[h] \ {s}]
        /\ gauge' = [gauge EXCEPT ![h] = IF s \in clients[h] THEN gauge[h] - 1 ELSE gauge[h]]
        /\ dropped' = IF socket[s].pc = "done" THEN dropped ELSE dropped \cup {s}
    BY <1>7, <2>2 DEF HandleDisconnect, Unregister
  <2>4. s \in clients[h] => Cardinality(clients[h] \ {s}) = Cardinality(clients[h]) - 1
    BY <1>1, FS_RemoveElement
  <2>5. s \notin clients[h] => clients[h] \ {s} = clients[h]
    OBVIOUS
  <2>6. clients' \in [Hosts -> SUBSET Sockets] /\ gauge' \in [Hosts -> Int] /\ dropped' \subseteq Sockets /\ dropped \subseteq dropped'
    BY <1>1, <2>3
  <2>7. GaugeCountsClients'
    BY <1>1, <2>3, <2>4, <2>5 DEF GaugeCountsClients
  <2>8. \A g \in Hosts : \A r \in clients'[g] : r \in clients[g] /\ r # s
    BY <1>1, <2>2, <2>3
  <2>9. q.pc \in {"auth", "join"} => s \in dropped'
    BY <1>7, <2>3
  <2> QED
    BY <1>1, <1>3, <2>6, <2>7, <2>8, <2>9 DEF SocketsAreKnown, ClientsAreOpenUnlessOvertaken
<1> QED
  BY <1>2, <1>5, <1>6, <1>7

(* A run moves on: from the INSERT with or without a row, to its end.        *)
LEMMA RunMoves ==
  ASSUME PushesAreCounted, NEW r \in Runs, run[r] # NotRun, PushesAreTyped', taken' = taken,
         \A i \in Runs \ {r} : run'[i] = run[i] /\ saved'[i] = saved[i],
         \A j \in Pushes : j # r[1] => pushed'[j] = pushed[j],
         \A j \in Pushes : job'[j] = job[j] \/ job'[j] \in {"done", "failed"},
         run'[r].pc # "insert", run'[r].pc = "push" => saved'[r] = 1, saved'[r] >= saved[r],
         pushed'[r[1]] # pushed[r[1]] => saved'[r] = 1
  PROVE  PushesAreCounted'
<1>1. /\ PushesAreTyped /\ r[1] \in Pushes /\ saved[r] \in {0, 1} /\ saved'[r] \in {0, 1}
      /\ \A i \in Runs : RunIsCounted(i) /\ i[1] \in Pushes /\ i[2] \in {1, 2}
      /\ \A j \in Pushes : JobIsCounted(j)
  BY RunNumbers DEF PushesAreCounted, PushesAreTyped
<1>4. ~(r[2] > taken[r[1]] + 1) /\ ~(r[2] = taken[r[1]] + 1 /\ job[r[1]] = "queued")
  BY <1>1 DEF RunIsCounted
<1>5. ASSUME NEW i \in Runs PROVE RunIsCounted(i)'
  <2>1. job'[i[1]] = "queued" => job[i[1]] = "queued"
    BY <1>1
  <2>2. CASE i = r
    BY <1>4, <2>1, <2>2 DEF RunIsCounted
  <2>3. CASE i # r
    BY <1>1, <2>1, <2>3 DEF RunIsCounted
  <2> QED
    BY <2>2, <2>3
<1>6. ASSUME NEW i \in Runs, saved[i] = 1 PROVE saved'[i] = 1
  BY <1>1, <1>6
<1>7. ASSUME NEW j \in Pushes PROVE JobIsCounted(j)'
  <2>1. job'[j] \in {"queued", "active"} => taken'[j] <= 1
    BY <1>1 DEF JobIsCounted
  <2>2. CASE pushed'[j] = pushed[j]
    BY <1>1, <1>6, <2>1, <2>2 DEF JobIsCounted
  <2>3. CASE pushed'[j] # pushed[j]
    <3>1. j = r[1] /\ saved'[r] = 1
      BY <2>3
    <3> QED
      BY <1>1, <2>1, <3>1 DEF JobIsCounted
  <2> QED
    BY <2>2, <2>3
<1> QED
  BY <1>5, <1>7 DEF PushesAreCounted

LEMMA SettledJobs ==
  ASSUME PushesAreTyped, NEW r \in Runs, NEW outcome \in {"done", "failed"}, SettleRun(r, outcome)
  PROVE  /\ run' = [run EXCEPT ![r] = NotRun]
         /\ job' \in [Pushes -> JobStates] /\ \A j \in Pushes : job'[j] = job[j] \/ job'[j] \in {"done", "failed"}
BY RunNumbers DEF PushesAreTyped, SettleRun, JobStates

LEMMA RunsMove ==
  ASSUME PushesAreCounted, NEW r \in Runs, StoreNotification(r) \/ PushNotification(r)
  PROVE  PushesAreCounted'
<1>1. /\ PushesAreTyped /\ r[1] \in Pushes /\ run[r] \in RunStates /\ saved[r] \in {0, 1} /\ RunIsCounted(r)
      /\ pushed[r[1]] \in SUBSET Sockets
  BY RunNumbers DEF PushesAreCounted, PushesAreTyped
<1>2. NotRun \in RunStates /\ NotRun.pc = "none"
  BY NotRunIsARun
<1>3. ASSUME NEW q \in RunStates, run' = [run EXCEPT ![r] = q]
      PROVE  run' \in [Runs -> RunStates] /\ run'[r] = q /\ \A i \in Runs \ {r} : run'[i] = run[i]
  BY <1>1, <1>3 DEF PushesAreTyped
<1>4. ASSUME saved' = saved \/ (saved[r] = 0 /\ Insert(r))
      PROVE  saved' \in [Runs -> {0, 1}] /\ saved'[r] >= saved[r] /\ \A i \in Runs \ {r} : saved'[i] = saved[i]
  <2>1. CASE saved' = saved
    BY <1>1, <2>1 DEF PushesAreTyped
  <2>2. CASE saved[r] = 0 /\ Insert(r)
    <3>1. saved' = [saved EXCEPT ![r] = 1]
      BY <2>2 DEF Insert
    <3> QED
      BY <1>1, <2>2, <3>1 DEF PushesAreTyped
  <2> QED
    BY <1>4, <2>1, <2>2
<1>5. CASE StoreNotification(r)
  <2>1. run[r].pc = "insert" /\ saved[r] = 0 /\ UNCHANGED <<pushed, taken>>
    BY <1>1, <1>5 DEF StoreNotification, RunIsCounted
  <2>2. /\ pushed' \in [Pushes -> SUBSET Sockets] /\ taken' \in [Pushes -> 0 .. 2]
        /\ run[r] # NotRun
    BY <1>1, <1>2, <2>1 DEF PushesAreTyped
  <2>3. CASE run' = [run EXCEPT ![r].pc = "push"] /\ Insert(r) /\ UNCHANGED job
    <3>1. PICK q : q = [run[r] EXCEPT !.pc = "push"]
      OBVIOUS
    <3>2. run[r] \in [pc: {"insert", "push"}, host: Hosts]
      BY <1>1, <2>1, PushRunFields
    <3>3. q \in RunStates /\ q.pc = "push"
      BY <3>1, <3>2 DEF RunStates
    <3>4. run' = [run EXCEPT ![r] = q] /\ job' \in [Pushes -> JobStates] /\ \A j \in Pushes : job'[j] = job[j]
      BY <1>1, <2>3, <3>1 DEF PushesAreTyped
    <3>5. /\ run' \in [Runs -> RunStates] /\ run'[r].pc = "push" /\ \A i \in Runs \ {r} : run'[i] = run[i]
      BY <1>3, <3>3, <3>4
    <3>6. /\ saved' \in [Runs -> {0, 1}] /\ saved'[r] >= saved[r] /\ \A i \in Runs \ {r} : saved'[i] = saved[i]
      BY <1>4, <2>1, <2>3
    <3>7. saved'[r] = 1
      BY <1>1, <2>1, <2>3 DEF Insert, PushesAreTyped
    <3>8. PushesAreTyped'
      BY <2>2, <3>4, <3>5, <3>6 DEF PushesAreTyped
    <3> QED
      BY <2>1, <2>2, <3>4, <3>5, <3>6, <3>7, <3>8, RunMoves
  <2>4. CASE SettleRun(r, "failed") /\ (Insert(r) \/ UNCHANGED saved)
    <3>1. /\ run' = [run EXCEPT ![r] = NotRun] /\ job' \in [Pushes -> JobStates]
          /\ \A j \in Pushes : job'[j] = job[j] \/ job'[j] \in {"done", "failed"}
      BY <1>1, <2>4, SettledJobs
    <3>2. /\ run' \in [Runs -> RunStates] /\ run'[r].pc = "none" /\ \A i \in Runs \ {r} : run'[i] = run[i]
      BY <1>2, <1>3, <3>1
    <3>3. /\ saved' \in [Runs -> {0, 1}] /\ saved'[r] >= saved[r] /\ \A i \in Runs \ {r} : saved'[i] = saved[i]
      BY <1>4, <2>1, <2>4
    <3>4. PushesAreTyped'
      BY <2>2, <3>1, <3>2, <3>3 DEF PushesAreTyped
    <3> QED
      BY <2>1, <2>2, <3>1, <3>2, <3>3, <3>4, RunMoves
  <2> QED
    BY <1>5, <2>3, <2>4 DEF StoreNotification
<1>6. CASE PushNotification(r)
  <2>1. run[r].pc = "push" /\ saved[r] = 1 /\ UNCHANGED <<saved, taken>>
    BY <1>1, <1>6 DEF PushNotification, RunIsCounted
  <2>2. PICK p : p = IF clients[run[r].host] = {} THEN pushed[r[1]]
                   ELSE pushed[r[1]] \cup {s \in Sockets : socket[s].pc \in {"join", "done"} /\ socket[s].open}
    OBVIOUS
  <2>3. p \in SUBSET Sockets /\ pushed' = [pushed EXCEPT ![r[1]] = p]
    BY <1>1, <1>6, <2>2 DEF PushNotification
  <2>4. pushed' \in [Pushes -> SUBSET Sockets] /\ \A j \in Pushes : j # r[1] => pushed'[j] = pushed[j]
    BY <1>1, <2>3 DEF PushesAreTyped
  <2>5. /\ run' = [run EXCEPT ![r] = NotRun] /\ job' \in [Pushes -> JobStates]
        /\ \A j \in Pushes : job'[j] = job[j] \/ job'[j] \in {"done", "failed"}
    BY <1>1, <1>6, SettledJobs DEF PushNotification
  <2>6. /\ run' \in [Runs -> RunStates] /\ run'[r].pc = "none" /\ \A i \in Runs \ {r} : run'[i] = run[i]
    BY <1>2, <1>3, <2>5
  <2>7. PushesAreTyped' /\ run[r] # NotRun
    BY <1>1, <1>2, <2>1, <2>4, <2>5, <2>6 DEF PushesAreTyped
  <2> QED
    BY <1>1, <2>1, <2>4, <2>5, <2>6, <2>7, RunMoves
<1> QED
  BY <1>5, <1>6

LEMMA JobIsTaken == ASSUME PushesAreCounted, NEW j \in Pushes, NEW h \in Hosts, TakeJob(j, h) PROVE PushesAreCounted'
<1>1. PushesAreTyped /\ taken[j] \in 0 .. 2 /\ taken[j] <= 1 /\ job[j] = "queued"
  BY DEF PushesAreCounted, PushesAreTyped, JobIsCounted, TakeJob
<1>2. PICK r \in Runs : r = CurrentRun(j) /\ r[1] = j /\ r[2] = taken[j] + 1
  <2>1. PICK n \in {1, 2} : n = taken[j] + 1
    BY <1>1
  <2>2. <<j, n>> \in Runs /\ <<j, n>>[1] = j /\ <<j, n>>[2] = n /\ <<j, n>> = CurrentRun(j)
    BY <2>1 DEF CurrentRun, Runs
  <2> QED
    BY <2>1, <2>2
<1>3. PICK q : q = [pc |-> "insert", host |-> h]
  OBVIOUS
<1>4. q \in RunStates /\ q.pc = "insert"
  BY <1>3 DEF RunStates
<1>5. /\ job' = [job EXCEPT ![j] = "active"] /\ run' = [run EXCEPT ![r] = q]
      /\ UNCHANGED <<saved, pushed, taken>>
  BY <1>2, <1>3 DEF TakeJob
<1>6. PushesAreTyped'
  BY <1>1, <1>4, <1>5 DEF PushesAreTyped, JobStates
<1>7. ASSUME NEW i \in Runs PROVE RunIsCounted(i)'
  <2>1. RunIsCounted(i) /\ RunIsCounted(r) /\ i[1] \in Pushes /\ i[2] \in {1, 2} /\ i = <<i[1], i[2]>> /\ r = <<j, taken[j] + 1>>
    BY <1>2, RunNumbers DEF PushesAreCounted
  <2>2. saved[r] = 0
    BY <1>1, <1>2, <2>1 DEF RunIsCounted
  <2>3. job'[j] = "active" /\ run'[r] = q /\ (i # r => run'[i] = run[i]) /\ (i[1] # j => job'[i[1]] = job[i[1]])
    BY <1>1, <1>5, <2>1 DEF PushesAreTyped
  <2>4. CASE i = r
    BY <1>1, <1>2, <1>4, <1>5, <2>2, <2>3, <2>4 DEF RunIsCounted
  <2>5. CASE i # r
    BY <1>5, <2>1, <2>3, <2>5 DEF RunIsCounted
  <2> QED
    BY <2>4, <2>5
<1>8. ASSUME NEW i \in Pushes PROVE JobIsCounted(i)'
  <2>1. JobIsCounted(i) /\ (i # j => job'[i] = job[i])
    BY <1>1, <1>5 DEF PushesAreCounted, PushesAreTyped
  <2> QED
    BY <1>1, <1>5, <2>1 DEF JobIsCounted
<1> QED
  BY <1>6, <1>7, <1>8 DEF PushesAreCounted

(* Jobs the queue waits for are taken back; runs go on, or are cut.          *)
LEMMA JobsAreTakenBack ==
  ASSUME PushesAreCounted, NEW js \in SUBSET Pushes, TakeBack(js), \A j \in js : job[j] = "active",
         run' \in [Runs -> RunStates], \A r \in Runs : run'[r] \in {run[r], NotRun}, UNCHANGED <<saved, pushed>>
  PROVE  PushesAreCounted'
<1>1. PushesAreTyped
  BY DEF PushesAreCounted
<1>2. ASSUME NEW j \in Pushes
      PROVE  /\ job'[j] \in JobStates /\ taken'[j] \in 0 .. 2 /\ taken[j] \in 0 .. 2
             /\ JobIsCounted(j)' /\ taken'[j] >= taken[j]
             /\ taken'[j] = taken[j] => job'[j] = job[j]
  <2>1. JobIsCounted(j) /\ job[j] \in JobStates /\ taken[j] \in 0 .. 2
    BY <1>1 DEF PushesAreCounted, PushesAreTyped
  <2>2. CASE j \in js
    <3>1. job[j] = "active" /\ taken[j] <= 1 /\ job'[j] = JobAfterStop(j) /\ taken'[j] = taken[j] + 1
      BY <2>1, <2>2 DEF JobIsCounted, TakeBack
    <3>2. job'[j] \in {"queued", "failed"} /\ (job'[j] = "queued" => taken[j] = 0)
      BY <3>1 DEF JobAfterStop
    <3> QED
      BY <2>1, <3>1, <3>2 DEF JobIsCounted, JobStates
  <2>3. CASE j \notin js
    <3>1. job'[j] = job[j] /\ taken'[j] = taken[j]
      BY <2>3 DEF TakeBack
    <3> QED
      BY <2>1, <3>1 DEF JobIsCounted
  <2> QED
    BY <2>2, <2>3
<1>3. PushesAreTyped'
  <2>1. job' \in [Pushes -> JobStates] /\ taken' \in [Pushes -> 0 .. 2]
    BY <1>2 DEF TakeBack
  <2> QED
    BY <1>1, <2>1 DEF PushesAreTyped
<1>4. ASSUME NEW r \in Runs PROVE RunIsCounted(r)'
  <2>1. PICK j \in Pushes, n \in {1, 2} : r[1] = j /\ r[2] = n
    BY RunNumbers
  <2>2. RunIsCounted(r) /\ run'[r] \in {run[r], NotRun} /\ saved'[r] = saved[r] /\ NotRun.pc = "none"
    BY NotRunIsARun DEF PushesAreCounted
  <2>3. PICK t \in 0 .. 2, u \in 0 .. 2 : t = taken[j] /\ u = taken'[j] /\ u >= t
    BY <1>2
  <2>4. n > u + 1 => n > t + 1
    BY <2>1, <2>3
  <2>5. n = u + 1 /\ job'[j] = "queued" => n > t + 1 \/ (n = t + 1 /\ job[j] = "queued")
    BY <1>2, <2>1, <2>3
  <2> QED
    BY <2>1, <2>2, <2>3, <2>4, <2>5 DEF RunIsCounted
<1> QED
  BY <1>2, <1>3, <1>4 DEF PushesAreCounted

LEMMA JobStalls == ASSUME PushesAreCounted, NEW j \in Pushes, StallJob(j) PROVE PushesAreCounted'
BY JobsAreTakenBack DEF StallJob, PushesAreCounted, PushesAreTyped

LEMMA StopHostHolds == ASSUME PresenceInv, NEW h \in Hosts, StopHost(h) PROVE PresenceInv'
<1> DEFINE mine == {s \in Sockets : socket[s].pc # "unopened" /\ socket[s].host = h}
           halted == {r \in Runs : run[r].pc # "none" /\ run[r].host = h}
           retaken == {j \in Pushes : CurrentRun(j) \in halted /\ Holds(CurrentRun(j))}
<1>1. /\ socket' = [s \in Sockets |-> IF s \in mine THEN [socket[s] EXCEPT !.pc = "refused", !.open = FALSE] ELSE socket[s]]
      /\ clients' = [clients EXCEPT ![h] = {}] /\ gauge' = [gauge EXCEPT ![h] = 0]
      /\ run' = [r \in Runs |-> IF r \in halted THEN NotRun ELSE run[r]]
      /\ TakeBack(retaken) /\ UNCHANGED <<dropped, saved, pushed>>
  BY DEF StopHost
<1>2. SocketsAreKnown'
  <2>1. ASSUME NEW s \in Sockets
        PROVE  /\ s \in mine => socket'[s] \in SocketStates /\ socket'[s].pc = "refused"
               /\ s \notin mine => socket'[s] = socket[s] /\ socket[s] \in SocketStates
    <3>1. CASE s \in mine
      <4>1. socket[s] \in SocketStates /\ socket[s].pc # "unopened"
        BY <3>1 DEF PresenceInv, SocketsAreKnown
      <4>2. socket[s] \in [pc: {"auth", "join", "done", "refused"}, host: Hosts, open: BOOLEAN]
        BY <4>1, SocketFields DEF SocketStates
      <4>3. PICK q : q = [socket[s] EXCEPT !.pc = "refused", !.open = FALSE]
        OBVIOUS
      <4>4. q \in SocketStates
        BY <4>2, <4>3 DEF SocketStates
      <4>5. q.pc = "refused"
        BY <4>2, <4>3
      <4> QED
        BY <1>1, <3>1, <4>3, <4>4, <4>5
    <3>2. CASE s \notin mine
      BY <1>1, <3>2 DEF PresenceInv, SocketsAreKnown
    <3> QED
      BY <3>1, <3>2
  <2>2. socket' \in [Sockets -> SocketStates]
    BY <1>1, <2>1
  <2>3. \A g \in Hosts \ {h} : \A s \in clients[g] : s \in Sockets /\ s \notin mine
    BY DEF PresenceInv, SocketsAreKnown
  <2>4. /\ clients' \in [Hosts -> SUBSET Sockets] /\ gauge' \in [Hosts -> Int] /\ clients'[h] = {} /\ gauge'[h] = 0
        /\ \A g \in Hosts \ {h} : clients'[g] = clients[g] /\ gauge'[g] = gauge[g]
    <3>1. clients \in [Hosts -> SUBSET Sockets] /\ gauge \in [Hosts -> Int]
      BY DEF PresenceInv, SocketsAreKnown
    <3>2. PICK none \in SUBSET Sockets : none = {}
      OBVIOUS
    <3>3. PICK zero \in Int : zero = 0
      OBVIOUS
    <3>4. clients' = [clients EXCEPT ![h] = none] /\ gauge' = [gauge EXCEPT ![h] = zero]
      BY <1>1, <3>2, <3>3
    <3> QED
      BY <3>1, <3>2, <3>3, <3>4
  <2>5. \A s \in Sockets : socket'[s].pc \in {"auth", "join"} => socket'[s].open \/ s \in dropped
    BY <2>1 DEF PresenceInv, SocketsAreKnown
  <2>6. GaugeCountsClients'
    BY <2>4, FS_EmptySet DEF PresenceInv, SocketsAreKnown, GaugeCountsClients
  <2> HIDE DEF mine
  <2>7. ClientsAreOpenUnlessOvertaken' /\ \A g \in Hosts : \A s \in clients'[g] : socket'[s].pc = "done" /\ socket'[s].host = g
    <3>1. ASSUME NEW g \in Hosts, NEW s \in clients'[g]
          PROVE  (socket'[s].open \/ s \in dropped) /\ socket'[s].pc = "done" /\ socket'[s].host = g
      <4>1. g # h /\ s \in clients[g] /\ s \in Sockets /\ s \notin mine
        BY <2>3, <2>4, <3>1
      <4>2. socket'[s] = socket[s]
        BY <2>1, <4>1
      <4> QED
        BY <4>1, <4>2 DEF PresenceInv, SocketsAreKnown, ClientsAreOpenUnlessOvertaken
    <3> QED
      BY <1>1, <3>1 DEF ClientsAreOpenUnlessOvertaken
  <2> QED
    BY <1>1, <2>2, <2>4, <2>5, <2>6, <2>7 DEF PresenceInv, SocketsAreKnown
<1>3. PushesAreCounted'
  <2>1. PushesAreCounted /\ PushesAreTyped
    BY DEF PresenceInv, PushesAreCounted
  <2>2. run' \in [Runs -> RunStates] /\ \A r \in Runs : run'[r] \in {run[r], NotRun}
    BY <1>1, <2>1, NotRunIsARun DEF PushesAreTyped
  <2>3. retaken \in SUBSET Pushes /\ \A j \in retaken : job[j] = "active"
    BY DEF Holds, CurrentRun
  <2> HIDE DEF retaken
  <2> QED
    BY <1>1, <2>1, <2>2, <2>3, JobsAreTakenBack
<1> QED
  BY <1>2, <1>3 DEF PresenceInv

LEMMA PresenceStepHolds == PresenceInv /\ [PresenceNext]_presenceVars => PresenceInv'
<1> SUFFICES ASSUME PresenceInv, [PresenceNext]_presenceVars PROVE PresenceInv'
  OBVIOUS
<1>1. ASSUME UNCHANGED <<socket, clients, gauge, dropped>> PROVE SocketsAreKnown'
  BY <1>1 DEF PresenceInv, SocketsAreKnown, GaugeCountsClients, ClientsAreOpenUnlessOvertaken
<1>2. ASSUME UNCHANGED notificationVars PROVE PushesAreCounted'
  BY <1>2 DEF PresenceInv, PushesAreCounted, PushesAreTyped, RunIsCounted, JobIsCounted, notificationVars
<1>3. ASSUME NEW s \in Sockets, Authenticate(s) \/ Register(s) \/ HandleDisconnect(s) \/ \E h \in Hosts : OpenSocket(s, h) PROVE PresenceInv'
  <2>1. UNCHANGED notificationVars
    BY <1>3 DEF Authenticate, Register, HandleDisconnect, OpenSocket
  <2> QED
    BY <1>2, <1>3, <2>1, SocketsMove DEF PresenceInv
<1>4. ASSUME NEW r \in Runs, StoreNotification(r) \/ PushNotification(r) PROVE PresenceInv'
  <2>1. UNCHANGED <<socket, clients, gauge, dropped>>
    BY <1>4 DEF StoreNotification, PushNotification
  <2> QED
    BY <1>1, <1>4, <2>1, RunsMove DEF PresenceInv
<1>6. ASSUME NEW j \in Pushes, StallJob(j) \/ \E h \in Hosts : TakeJob(j, h) PROVE PresenceInv'
  <2>1. UNCHANGED <<socket, clients, gauge, dropped>>
    BY <1>6 DEF StallJob, TakeJob
  <2> QED
    BY <1>1, <1>6, <2>1, JobStalls, JobIsTaken DEF PresenceInv
<1>5. CASE UNCHANGED presenceVars
  BY <1>1, <1>2, <1>5 DEF presenceVars, notificationVars, PresenceInv
<1> QED
  BY <1>3, <1>4, <1>5, <1>6, StopHostHolds DEF PresenceNext

LEMMA PresenceHolds ==
  PresenceInv => PresenceTypeOK /\ GaugeCountsClients /\ ClientsAreOpenUnlessOvertaken /\ PushedIsStoredOnce
<1> SUFFICES ASSUME PresenceInv PROVE PresenceTypeOK /\ PushedIsStoredOnce
  BY DEF PresenceInv, SocketsAreKnown
<1>1. PresenceTypeOK
  BY DEF PresenceInv, SocketsAreKnown, PushesAreCounted, PushesAreTyped, PresenceTypeOK, SocketStates, JobStates, RunStates
<1>2. ASSUME NEW r \in Runs, saved[r] > 0 PROVE saved[r] = 1 /\ r[2] <= 1 + taken[r[1]]
  <2>1. RunIsCounted(r) /\ saved[r] \in {0, 1} /\ r[2] \in {1, 2} /\ taken[r[1]] \in 0 .. 2
    BY RunNumbers DEF PresenceInv, PushesAreCounted, PushesAreTyped
  <2> QED
    BY <1>2, <2>1 DEF RunIsCounted
<1>3. ASSUME NEW j \in Pushes, pushed[j] # {} PROVE \E r \in Runs : r[1] = j /\ saved[r] > 0
  BY <1>3 DEF PresenceInv, PushesAreCounted, JobIsCounted
<1> QED
  BY <1>1, <1>2, <1>3 DEF PushedIsStoredOnce

-----------------------------------------------------------------------------
(* The counter of the request limiter.                                       *)

Entry == [hits: 0 .. MaxRequests, until: 0 .. LastSecond + Window]
Pending(c) == IF request[c] = "idle" THEN 0 ELSE 1

(* What was let through was counted, but for what the key does not know of,  *)
(* and what was counted had arrived: a request on its way to the counter of  *)
(* its process is not in it yet.                                             *)
HitsArrived ==
  /\ counted <= Limit + uncounted /\ counted <= key.hits + uncounted /\ key.hits <= requests
  /\ \A c \in Callers : /\ served[c] <= Limit /\ served[c] <= memory[c].hits
                        /\ memory[c].hits + Pending(c) <= requests

ThrottleInv == ThrottleTypeOK /\ HitsArrived /\ KeyExpires

LEMMA ThrottleConstants ==
  /\ Limit \in Nat /\ Limit >= 1 /\ Window \in Nat /\ Window >= 1 /\ MaxRequests \in Nat /\ LastSecond \in Nat
  /\ 0 \in 0 .. MaxRequests /\ 0 \in 0 .. LastSecond /\ 0 \in 0 .. LastSecond + Window
  /\ \A n \in 0 .. LastSecond : n + Window \in 1 .. LastSecond + Window
BY ThrottlerAssumption

LEMMA ThrottleTypes == ThrottleTypeOK =>
  /\ key \in Entry /\ memory \in [Callers -> Entry] /\ request \in [Callers -> Stages]
  /\ served \in [Callers -> 0 .. MaxRequests] /\ counted \in Nat /\ uncounted \in Nat
  /\ second \in 0 .. LastSecond /\ requests \in 0 .. MaxRequests
BY DEF ThrottleTypeOK, Entry

LEMMA ThrottleInitHolds == ThrottleInit => ThrottleInv
<1> SUFFICES ASSUME ThrottleInit PROVE ThrottleInv
  OBVIOUS
<1>1. NoKey \in Entry /\ NoKey.hits = 0 /\ NoKey.until = 0
  BY ThrottleConstants DEF NoKey, Entry
<1>2. /\ key = NoKey /\ second = 0 /\ requests = 0 /\ unexpired = FALSE /\ counted = 0 /\ uncounted = 0
      /\ memory \in [Callers -> Entry] /\ request \in [Callers -> Stages]
      /\ served \in [Callers -> 0 .. MaxRequests]
      /\ \A c \in Callers : memory[c] = NoKey /\ request[c] = "idle" /\ served[c] = 0
  BY <1>1, ThrottleConstants DEF ThrottleInit, Stages
<1>3. ThrottleTypeOK
  BY <1>1, <1>2, ThrottleConstants DEF ThrottleTypeOK, Entry
<1>4. HitsArrived /\ KeyExpires
  BY <1>1, <1>2, ThrottleConstants DEF HitsArrived, KeyExpires, Unbounded, Pending
<1> QED
  BY <1>3, <1>4 DEF ThrottleInv

(* One request moves on: the key, or the entry of its process, takes it in.  *)
LEMMA RequestMoves ==
  ASSUME ThrottleInv, NEW c \in Callers, NEW pc \in Stages, NEW k \in Entry, NEW n \in 0 .. MaxRequests,
         request' = [request EXCEPT ![c] = pc], memory' = [memory EXCEPT ![c] = k], served' = [served EXCEPT ![c] = n],
         n <= Limit, n <= k.hits, second' = second, unexpired' \in BOOLEAN,
         requests' \in requests .. MaxRequests, k.hits + (IF pc = "idle" THEN 0 ELSE 1) <= requests',
         key' \in Entry, key'.hits <= requests', key'.hits = 0 => key'.until = 0 /\ counted' = 0 /\ uncounted' = 0,
         counted' \in Nat, uncounted' \in Nat, counted' <= Limit + uncounted', counted' <= key'.hits + uncounted',
         Unbounded(key') => unexpired' \/ pc \in {"expire", "lost"} \/ (Unbounded(key) /\ ~Owes(c) /\ ~unexpired)
  PROVE  ThrottleInv'
<1>1. /\ memory \in [Callers -> Entry] /\ request \in [Callers -> Stages]
      /\ served \in [Callers -> 0 .. MaxRequests] /\ requests \in 0 .. MaxRequests /\ second \in 0 .. LastSecond
  BY ThrottleTypes DEF ThrottleInv
<1>2. /\ memory' \in [Callers -> Entry] /\ request' \in [Callers -> Stages]
      /\ served' \in [Callers -> 0 .. MaxRequests] /\ requests' \in 0 .. MaxRequests /\ requests <= requests'
  BY <1>1, ThrottleConstants
<1>3. /\ memory'[c] = k /\ request'[c] = pc /\ served'[c] = n
      /\ \A d \in Callers \ {c} : memory'[d] = memory[d] /\ request'[d] = request[d] /\ served'[d] = served[d]
  BY <1>1
<1>4. ThrottleTypeOK'
  BY <1>1, <1>2 DEF ThrottleTypeOK, Entry
<1>5. HitsArrived'
  <2>1. ASSUME NEW d \in Callers
        PROVE  served'[d] <= Limit /\ served'[d] <= memory'[d].hits /\ memory'[d].hits + Pending(d)' <= requests'
    <3>1. CASE d = c
      BY <1>3, <3>1 DEF Pending
    <3>2. CASE d # c
      <4>1. served'[d] <= Limit /\ served'[d] <= memory'[d].hits /\ memory'[d].hits + Pending(d) <= requests /\ Pending(d)' = Pending(d)
        BY <1>3, <3>2 DEF ThrottleInv, HitsArrived, Pending
      <4>2. memory'[d].hits \in Nat /\ Pending(d) \in Nat
        BY <1>2, ThrottleConstants DEF Entry, Pending
      <4> QED
        BY <1>2, <4>1, <4>2, <1>1, ThrottleConstants
    <3> QED
      BY <3>1, <3>2
  <2> QED
    BY <2>1 DEF HitsArrived
<1>6. KeyExpires'
  <2>1. ASSUME Unbounded(key)', ~unexpired' PROVE \E d \in Callers : Owes(d)'
    <3>1. CASE pc \in {"expire", "lost"}
      BY <1>3, <3>1 DEF Owes
    <3>2. CASE Unbounded(key) /\ ~Owes(c) /\ ~unexpired
      <4>1. PICK d \in Callers : Owes(d)
        BY <3>2 DEF ThrottleInv, KeyExpires
      <4>2. d # c /\ request'[d] = request[d]
        BY <1>3, <3>2, <4>1
      <4> QED
        BY <4>1, <4>2 DEF Owes
    <3> QED
      BY <2>1, <3>1, <3>2 DEF Unbounded
  <2> QED
    BY <2>1 DEF KeyExpires
<1> QED
  BY <1>4, <1>5, <1>6 DEF ThrottleInv

LEMMA StagesAre == Stages = {"idle", "expire", "lost", "failed", "block", "memory"}
BY DEF Stages

LEMMA RequestsWork ==
  ASSUME ThrottleInv, NEW c \in Callers,
         CountInRedis(c) \/ CountFails(c) \/ ExpireKey(c) \/ MarkBlocked(c) \/ CountInMemory(c) \/ StopCaller(c)
  PROVE  ThrottleInv'
<1>1. /\ key \in Entry /\ memory \in [Callers -> Entry] /\ request \in [Callers -> Stages]
      /\ served \in [Callers -> 0 .. MaxRequests] /\ requests \in 0 .. MaxRequests /\ second \in 0 .. LastSecond
      /\ memory[c] \in Entry /\ served[c] \in 0 .. MaxRequests /\ counted \in Nat /\ uncounted \in Nat /\ unexpired \in BOOLEAN
  BY ThrottleTypes DEF ThrottleInv, ThrottleTypeOK
<1>2. /\ key.hits \in 0 .. MaxRequests /\ key.until \in 0 .. LastSecond + Window
      /\ memory[c].hits \in 0 .. MaxRequests /\ memory[c].until \in 0 .. LastSecond + Window
  BY <1>1 DEF Entry
<1>3. /\ counted <= Limit + uncounted /\ counted <= key.hits + uncounted /\ key.hits <= requests
      /\ served[c] <= Limit /\ served[c] <= memory[c].hits /\ memory[c].hits + Pending(c) <= requests
      /\ (key.hits = 0 => key.until = 0 /\ counted = 0 /\ uncounted = 0)
  BY DEF ThrottleInv, HitsArrived, ThrottleTypeOK
<1>4. Pending(c) \in {0, 1} /\ (Pending(c) = 0 <=> request[c] = "idle")
  BY DEF Pending
<1>5. UNCHANGED memory => memory' = [memory EXCEPT ![c] = memory[c]]
  BY <1>1
<1>6. UNCHANGED served => served' = [served EXCEPT ![c] = served[c]]
  BY <1>1
<1>7. requests \in requests .. MaxRequests /\ requests <= MaxRequests
  BY <1>1, ThrottleConstants
<1>8. request[c] # "idle" => memory[c].hits + 1 <= requests /\ memory[c].hits + 0 <= requests
  BY <1>1, <1>2, <1>3, <1>4, ThrottleConstants
(* A request that has arrived, with or without a hit of the key.             *)
<1>9. ASSUME NEW h \in {key.hits, key.hits + 1}, key' = [key EXCEPT !.hits = h], Arrives(c),
             UNCHANGED <<second, memory, uncounted, served, unexpired>>,
             UNCHANGED counted \/ (counted' = counted + 1 /\ h = key.hits + 1 /\ h <= Limit),
             NEW pc \in Stages, Stage(c, pc), h = 1 /\ key.hits = 0 => pc \in {"expire", "lost"}
      PROVE  ThrottleInv'
  <2>1. requests' = requests + 1 /\ requests < MaxRequests /\ request[c] = "idle" /\ request' = [request EXCEPT ![c] = pc]
    BY <1>9 DEF Arrives, Stage
  <2>2. h \in 0 .. MaxRequests /\ h <= requests' /\ (h = 0 => key.hits = 0) /\ (key.hits = 0 => h \in {0, 1})
    BY <1>2, <1>1, <1>3, <1>9, <2>1, ThrottleConstants
  <2>3. key' \in Entry /\ key'.hits = h /\ key'.until = key.until
    BY <1>1, <1>9, <2>2, ThrottleConstants DEF Entry
  <2>4. requests' \in requests .. MaxRequests
    BY <1>1, <2>1, ThrottleConstants
  <2>5. memory[c].hits + (IF pc = "idle" THEN 0 ELSE 1) <= requests'
    BY <1>1, <1>2, <1>3, <1>4, <2>1, ThrottleConstants
  <2>6. PICK m : m = counted'
    OBVIOUS
  <2>7. m = counted \/ (m = counted + 1 /\ h = key.hits + 1 /\ h <= Limit)
    BY <1>9, <2>6
  <2>8. m \in Nat /\ m <= Limit + uncounted /\ m <= h + uncounted /\ (h = 0 => m = 0 /\ uncounted = 0 /\ key.until = 0)
    BY <1>1, <1>2, <1>3, <1>9, <2>2, <2>7, ThrottleConstants
  <2>9. Unbounded(key') => pc \in {"expire", "lost"} \/ unexpired' \/ (Unbounded(key) /\ ~Owes(c) /\ ~unexpired)
    <3>1. ~Owes(c) /\ unexpired' = unexpired
      BY <1>9, <2>1 DEF Owes
    <3>2. Unbounded(key') => pc \in {"expire", "lost"} \/ Unbounded(key)
      BY <1>2, <1>9, <2>2, <2>3, ThrottleConstants DEF Unbounded
    <3> QED
      BY <3>1, <3>2
  <2> QED
    BY <1>1, <1>3, <1>5, <1>6, <1>9, <2>1, <2>2, <2>3, <2>4, <2>5, <2>6, <2>8, <2>9, RequestMoves
<1>10. CASE CountInRedis(c)
  <2>1. PICK h : h = key.hits + 1
    OBVIOUS
  <2>2. PICK pc \in Stages : pc = IF h = 1 THEN "expire" ELSE IF h > Limit THEN "block" ELSE "idle"
    BY StagesAre
  <2>3. /\ key' = [key EXCEPT !.hits = h] /\ Arrives(c) /\ Stage(c, pc)
        /\ UNCHANGED <<second, memory, uncounted, served, unexpired>>
        /\ counted' = IF h <= Limit THEN counted + 1 ELSE counted
    BY <1>10, <2>1, <2>2 DEF CountInRedis, First
  <2> QED
    BY <1>9, <2>1, <2>2, <2>3
<1>11. CASE CountFails(c)
  <2>1. Arrives(c) /\ UNCHANGED <<second, memory, counted, uncounted, served, unexpired>>
    BY <1>11 DEF CountFails
  <2>2. CASE Stage(c, "lost") /\ key' = [key EXCEPT !.hits = @ + 1]
    <3>1. PICK h : h = key.hits + 1
      OBVIOUS
    <3>2. key' = [key EXCEPT !.hits = h]
      BY <2>2, <3>1
    <3> QED
      BY <1>9, <2>1, <2>2, <3>1, <3>2, StagesAre
  <2>3. CASE Stage(c, "failed") /\ UNCHANGED key
    <3>1. PICK h : h = key.hits
      OBVIOUS
    <3>2. key' = [key EXCEPT !.hits = h]
      BY <1>1, <2>3, <3>1 DEF Entry
    <3>3. ~(h = 1 /\ key.hits = 0)
      BY <3>1
    <3> QED
      BY <1>9, <2>1, <2>3, <3>1, <3>2, <3>3, StagesAre
  <2> QED
    BY <1>11, <2>2, <2>3 DEF CountFails
<1>12. CASE ExpireKey(c)
  <2>1. /\ UNCHANGED <<second, memory, served, requests>> /\ request[c] \in {"expire", "lost", "failed"}
        /\ unexpired' = ((unexpired \/ Owes(c)) /\ Unbounded(key'))
        /\ key' \in {key, Renewed}
    BY <1>12 DEF ExpireKey
  <2>2. memory[c].hits + 1 <= requests' /\ memory[c].hits + 0 <= requests' /\ requests' \in requests .. MaxRequests
    BY <1>7, <1>8, <2>1
  <2>3. /\ key' \in Entry /\ key'.hits = key.hits
        /\ (key'.hits = 0 => key'.until = 0) /\ (Unbounded(key') => Unbounded(key))
    <3>1. CASE key' = key
      BY <1>1, <1>3, <3>1
    <3>2. CASE key # NoKey /\ key' = [key EXCEPT !.until = Ends(second)]
      <4>1. PICK u : u = second + Window
        OBVIOUS
      <4>2. u \in 1 .. LastSecond + Window
        BY <1>1, <4>1, ThrottleConstants
      <4>3. key' = [key EXCEPT !.until = u]
        BY <3>2, <4>1 DEF Ends
      <4>4. key' \in Entry /\ key'.hits = key.hits /\ key'.until = u
        BY <1>1, <4>2, <4>3, ThrottleConstants DEF Entry
      <4>5. key.hits # 0
        BY <1>1, <1>3, <3>2 DEF Entry, NoKey
      <4>6. key'.until # 0
        BY <4>2, <4>4, ThrottleConstants
      <4> QED
        BY <4>4, <4>5, <4>6 DEF Unbounded
    <3> QED
      BY <2>1, <3>1, <3>2 DEF Renewed
  <2>4. Unbounded(key') => unexpired' \/ (Unbounded(key) /\ ~Owes(c) /\ ~unexpired)
    BY <2>1, <2>3
  <2>5. unexpired' \in BOOLEAN
    BY <2>1
  <2>6. key'.hits <= requests'
    BY <1>3, <2>1, <2>3
  <2>7. CASE Stage(c, "memory") /\ UNCHANGED <<counted, uncounted>>
    BY <1>1, <1>3, <1>5, <1>6, <2>1, <2>2, <2>3, <2>4, <2>5, <2>6, <2>7, RequestMoves, StagesAre DEF Stage
  <2>8. CASE Stage(c, "idle") /\ UNCHANGED <<counted, uncounted>>
    BY <1>1, <1>3, <1>5, <1>6, <2>1, <2>2, <2>3, <2>4, <2>5, <2>6, <2>8, RequestMoves, StagesAre DEF Stage
  <2>9. CASE Stage(c, "idle") /\ counted' = counted + 1 /\ uncounted' = uncounted + 1 /\ key # NoKey
    <3>1. PICK m, u : m = counted' /\ u = uncounted'
      OBVIOUS
    <3>2. m \in Nat /\ u \in Nat /\ m <= Limit + u /\ m <= key.hits + u
      BY <1>1, <1>2, <1>3, <2>9, <3>1, ThrottleConstants
    <3>3. key'.hits # 0
      BY <1>1, <1>3, <2>3, <2>9 DEF Entry, NoKey
    <3> QED
      BY <1>1, <1>3, <1>5, <1>6, <2>1, <2>2, <2>3, <2>4, <2>5, <2>6, <2>9, <3>1, <3>2, <3>3, RequestMoves, StagesAre DEF Stage
  <2> QED
    BY <1>12, <2>7, <2>8, <2>9 DEF ExpireKey, LetThrough
<1>13. CASE MarkBlocked(c)
  <2>1. /\ request[c] = "block" /\ UNCHANGED <<second, key, memory, counted, uncounted, served, requests, unexpired>>
    BY <1>13 DEF MarkBlocked
  <2>2. memory[c].hits + 1 <= requests' /\ memory[c].hits + 0 <= requests' /\ key'.hits <= requests'
    BY <1>3, <1>8, <2>1
  <2>3. Unbounded(key') => unexpired' \/ (Unbounded(key) /\ ~Owes(c) /\ ~unexpired)
    BY <2>1 DEF Owes
  <2>4. CASE Stage(c, "idle")
    BY <1>1, <1>3, <1>5, <1>6, <1>7, <2>1, <2>2, <2>3, <2>4, RequestMoves, StagesAre DEF Stage
  <2>5. CASE Stage(c, "memory")
    BY <1>1, <1>3, <1>5, <1>6, <1>7, <2>1, <2>2, <2>3, <2>5, RequestMoves, StagesAre DEF Stage
  <2> QED
    BY <1>13, <2>4, <2>5 DEF MarkBlocked
<1>14. CASE CountInMemory(c)
  <2>1. UNCHANGED <<second, key, counted, uncounted, requests, unexpired>> /\ request[c] = "memory" /\ request' = [request EXCEPT ![c] = "idle"]
    BY <1>14 DEF CountInMemory, Stage
  <2>2. PICK h : h = memory[c].hits + 1
    OBVIOUS
  <2>3. h \in 1 .. MaxRequests /\ h + 0 <= requests /\ 1 + 0 <= requests
    BY <1>1, <1>2, <1>3, <1>4, <2>1, <2>2, ThrottleConstants
  <2>6. Unbounded(key') => unexpired' \/ (Unbounded(key) /\ ~Owes(c) /\ ~unexpired)
    BY <2>1 DEF Owes
  <2>4. CASE EntryHolds(c)
    <3>1. PICK k : k = [memory[c] EXCEPT !.hits = h]
      OBVIOUS
    <3>2. k \in Entry /\ k.hits = h
      BY <1>1, <2>3, <3>1, ThrottleConstants DEF Entry
    <3>3. PICK n : n = IF h <= Limit THEN served[c] + 1 ELSE served[c]
      OBVIOUS
    <3>4. n \in 0 .. MaxRequests /\ n <= Limit /\ n <= h
      BY <1>1, <1>2, <1>3, <2>2, <2>3, <3>3, ThrottleConstants
    <3>5. memory' = [memory EXCEPT ![c] = k] /\ served' = [served EXCEPT ![c] = n]
      BY <1>14, <2>2, <2>4, <3>1, <3>3 DEF CountInMemory
    <3> QED
      BY <1>1, <1>3, <1>7, <2>1, <2>3, <2>6, <3>2, <3>4, <3>5, RequestMoves, StagesAre
  <2>5. CASE ~EntryHolds(c)
    <3>1. PICK k : k = [hits |-> 1, until |-> Ends(second)]
      OBVIOUS
    <3>2. 1 \in 0 .. MaxRequests /\ 1 <= Limit /\ Ends(second) \in 0 .. LastSecond + Window
      BY <1>1, <2>3, ThrottleConstants DEF Ends
    <3>3. k \in Entry /\ k.hits = 1
      BY <3>1, <3>2 DEF Entry
    <3>4. PICK n \in 0 .. MaxRequests : n = 1
      BY <3>2
    <3>5. memory' = [memory EXCEPT ![c] = k] /\ served' = [served EXCEPT ![c] = n]
      BY <1>14, <2>5, <3>1, <3>4 DEF CountInMemory
    <3>6. n <= Limit /\ n <= k.hits /\ k.hits + 0 <= requests
      BY <2>3, <3>2, <3>3, <3>4
    <3> QED
      BY <1>1, <1>3, <1>7, <2>1, <2>6, <3>3, <3>5, <3>6, RequestMoves, StagesAre
  <2> QED
    BY <2>4, <2>5
<1>15. CASE StopCaller(c)
  <2>1. /\ UNCHANGED <<second, key, counted, uncounted, requests>> /\ request' = [request EXCEPT ![c] = "idle"]
        /\ memory' = [memory EXCEPT ![c] = NoKey]
        /\ unexpired' = ((unexpired \/ Owes(c)) /\ Unbounded(key))
    BY <1>15 DEF StopCaller, Stage
  <2>2. NoKey \in Entry /\ NoKey.hits = 0
    BY ThrottleConstants DEF NoKey, Entry
  <2>3. 0 <= Limit /\ 0 <= requests /\ 0 + 0 <= requests
    BY <1>1, ThrottleConstants
  <2>4. (Unbounded(key') => unexpired' \/ (Unbounded(key) /\ ~Owes(c) /\ ~unexpired)) /\ unexpired' \in BOOLEAN
    BY <2>1
  <2>5. PICK n \in 0 .. MaxRequests : n = 0
    BY ThrottleConstants
  <2>6. served' = [served EXCEPT ![c] = n] /\ n <= Limit /\ n <= NoKey.hits /\ NoKey.hits + 0 <= requests'
    BY <1>15, <2>1, <2>2, <2>3, <2>5 DEF StopCaller
  <2> QED
    BY <1>1, <1>3, <1>7, <2>1, <2>2, <2>4, <2>6, RequestMoves, StagesAre
<1> QED
  BY <1>10, <1>11, <1>12, <1>13, <1>14, <1>15

LEMMA ThrottleStepHolds == ThrottleInv /\ [ThrottleNext]_throttleVars => ThrottleInv'
<1>1. ASSUME ThrottleInv, UNCHANGED throttleVars PROVE ThrottleInv'
  BY <1>1 DEF throttleVars, ThrottleInv, ThrottleTypeOK, HitsArrived, Pending, KeyExpires, Unbounded, Owes
<1>2. ASSUME ThrottleInv, NextSecond PROVE ThrottleInv'
  <2>1. NoKey \in Entry /\ NoKey.hits = 0 /\ NoKey.until = 0
    BY ThrottleConstants DEF NoKey, Entry
  <2>2. /\ UNCHANGED <<memory, request, served, requests, unexpired>> /\ second' = second + 1 /\ second < LastSecond
        /\ \/ key' = NoKey /\ counted' = 0 /\ uncounted' = 0
           \/ UNCHANGED <<key, counted, uncounted>>
    BY <1>2 DEF NextSecond
  <2>3. second' \in 0 .. LastSecond
    BY <1>2, <2>2, ThrottleTypes, ThrottleConstants DEF ThrottleInv
  <2>4. ThrottleTypeOK'
    BY <1>2, <2>1, <2>2, <2>3, ThrottleConstants DEF ThrottleInv, ThrottleTypeOK, Entry
  <2>5. HitsArrived' /\ KeyExpires'
    <3>1. HitsArrived'
      BY <1>2, <2>1, <2>2, ThrottleTypes, ThrottleConstants DEF ThrottleInv, HitsArrived, Pending
    <3>2. KeyExpires'
      BY <1>2, <2>1, <2>2 DEF ThrottleInv, KeyExpires, Unbounded, Owes
    <3> QED
      BY <3>1, <3>2
  <2> QED
    BY <2>4, <2>5 DEF ThrottleInv
<1> QED
  BY <1>1, <1>2, RequestsWork DEF ThrottleNext

LEMMA ThrottleHolds == ThrottleInv => ThrottleTypeOK /\ LimitPerWindow /\ KeyExpires
BY DEF ThrottleInv, HitsArrived, LimitPerWindow

-----------------------------------------------------------------------------
(* The comments, the notes and the attachment of a ticket.                   *)

TextRow == [kind: TextKinds, version: 1 .. Versions, corrects: Texts \cup {Unattached}]
TextStates == {NoText, [kind |-> "gone"]} \cup TextRow
CallStates ==
  {NoCall} \cup [pc: {"create"}, kind: {"reply", "note"}, of: Texts \cup {Unattached}]
    \cup [pc: {"update", "remove", "store", "insert"}, of: Texts] \cup [pc: {"unlink", "delete"}]

(* A change of a text that was let through is not about one that is          *)
(* published, nor about one to come.                                         *)
ChangesAreMutable ==
  \A w \in Writers : call[w].pc \in {"update", "remove"} =>
    call[w].of \notin published /\ texts[call[w].of] # NoText

(* The file and the row of the attachment, from the upload to the removal.   *)
OneFile ==
  /\ \A v, w \in Writers : call[v].pc \in {"store", "insert"} /\ call[w].pc \in {"store", "insert"} => v = w
  /\ \A w \in Writers : call[w].pc \in {"store", "insert"} => attached = Unattached
  /\ \A w \in Writers : call[w].pc = "insert" => object
  /\ \A w \in Writers : call[w].pc \in {"unlink", "delete"} => attached # Unattached

CollabInv ==
  /\ CollabTypeOK /\ call \in [Writers -> CallStates]
  /\ PublishedStays /\ RepliesAreAnnounced /\ CorrectionsResolve /\ published \subseteq messages
  /\ ChangesAreMutable /\ OneFile /\ AttachmentHasFile

LEMMA CollabTypes == CollabTypeOK => texts \in [Texts -> TextStates]
BY DEF CollabTypeOK, TextStates, TextRow

LEMMA TextFields ==
  ASSUME NEW q \in TextStates
  PROVE  /\ q \in TextRow <=> q.kind \in TextKinds
         /\ q # NoText <=> q.kind \in TextKinds \cup {"gone"}
BY DEF TextStates, TextRow, NoText, TextKinds

LEMMA CallFields ==
  ASSUME NEW q \in CallStates
  PROVE  /\ q.pc = "create" => q.kind \in {"reply", "note"} /\ q.of \in Texts \cup {Unattached}
         /\ q.pc \in {"update", "remove", "store", "insert"} => q.of \in Texts
         /\ q.pc = "idle" <=> q = NoCall
         /\ q.pc \in {"idle", "create", "update", "remove", "store", "insert", "unlink", "delete"}
BY DEF CallStates, NoCall

LEMMA CollabInitHolds == CollabInit => CollabInv
<1> SUFFICES ASSUME CollabInit PROVE CollabInv
  OBVIOUS
<1>1. /\ \A w \in Writers : call[w] = NoCall /\ call[w].pc = "idle"
      /\ \A t \in Texts : texts[t] = NoText /\ texts[t].kind = "none"
      /\ call \in [Writers -> CallStates]
  BY DEF CollabInit, NoCall, NoText, CallStates
<1>2. CollabTypeOK
  BY <1>1, CollaborationAssumption DEF CollabInit, CollabTypeOK, Unattached
<1>3. PublishedStays /\ RepliesAreAnnounced /\ CorrectionsResolve /\ published \subseteq messages
  BY <1>1 DEF CollabInit, PublishedStays, RepliesAreAnnounced, CorrectionsResolve
<1>4. ChangesAreMutable /\ OneFile /\ AttachmentHasFile
  BY <1>1, CollaborationAssumption DEF CollabInit, ChangesAreMutable, OneFile, AttachmentHasFile, Unattached
<1> QED
  BY <1>1, <1>2, <1>3, <1>4 DEF CollabInv

(* The call of w becomes c, when neither texts nor the file are touched.     *)
LEMMA CallMoves ==
  ASSUME CollabInv, NEW w \in Writers, NEW c \in CallStates, call' = [call EXCEPT ![w] = c],
         UNCHANGED <<public, visible, texts, messages, published, attached>>,
         c.pc \in {"update", "remove"} => c.of \notin published /\ texts[c.of] # NoText,
         c.pc \in {"store", "insert"} =>
            attached = Unattached /\ \A v \in Writers \ {w} : call[v].pc \notin {"store", "insert"},
         c.pc \in {"unlink", "delete"} => attached # Unattached,
         c.pc = "insert" => object',
         object' \in BOOLEAN, cut' \in BOOLEAN, cut => cut',
         object /\ ~object' => c.pc = "delete" \/ (attached = Unattached /\ \A v \in Writers \ {w} : call[v].pc # "insert"),
         call[w].pc = "delete" => cut'
  PROVE  CollabInv'
<1>1. call' \in [Writers -> CallStates] /\ call'[w] = c /\ \A v \in Writers \ {w} : call'[v] = call[v]
  BY DEF CollabInv
<1>2. CollabTypeOK'
  BY <1>1, CallFields DEF CollabInv, CollabTypeOK
<1>3. PublishedStays' /\ RepliesAreAnnounced' /\ CorrectionsResolve' /\ published' \subseteq messages'
  BY DEF CollabInv, PublishedStays, RepliesAreAnnounced, CorrectionsResolve
<1>4. ChangesAreMutable'
  BY <1>1 DEF CollabInv, ChangesAreMutable
<1>5. OneFile'
  <2>1. ASSUME NEW v \in Writers, call'[v].pc = "insert" PROVE object'
    <3>1. CASE v = w
      BY <1>1, <2>1, <3>1
    <3>2. CASE v # w
      <4>1. call[v].pc = "insert" /\ object /\ attached = Unattached
        BY <1>1, <2>1, <3>2 DEF CollabInv, OneFile
      <4>2. c.pc # "delete"
        BY <4>1
      <4> QED
        BY <3>2, <4>1, <4>2
    <3> QED
      BY <3>1, <3>2
  <2> QED
    BY <1>1, <2>1 DEF CollabInv, OneFile
<1>6. AttachmentHasFile'
  <2>1. CASE attached \in Texts /\ ~object'
    <3>1. attached # Unattached
      BY <2>1, CollaborationAssumption DEF Unattached
    <3>2. cut \/ (\E v \in Writers : call[v].pc = "delete") \/ c.pc = "delete"
      BY <2>1, <3>1 DEF CollabInv, AttachmentHasFile
    <3> QED
      BY <1>1, <3>2 DEF AttachmentHasFile
  <2> QED
    BY <2>1 DEF AttachmentHasFile
<1> QED
  BY <1>1, <1>2, <1>3, <1>4, <1>5, <1>6 DEF CollabInv

LEMMA CallsBegin ==
  ASSUME CollabInv, NEW w \in Writers,
         BeginCreate(w) \/ BeginRemoveFile(w) \/ \E t \in Texts : BeginChange(w, t) \/ BeginUpload(w, t)
  PROVE  CollabInv'
<1>1. /\ call[w].pc = "idle" /\ UNCHANGED <<public, visible, texts, messages, published, attached, object, cut>>
      /\ object \in BOOLEAN /\ cut \in BOOLEAN
  <2>1. call[w] = NoCall /\ UNCHANGED <<public, visible, texts, messages, published, attached, object, cut>>
    BY DEF BeginCreate, BeginRemoveFile, BeginChange, BeginUpload, Free, rowVars, fileVars
  <2> QED
    BY <2>1 DEF NoCall, CollabInv, CollabTypeOK
<1>2. CASE BeginCreate(w)
  <2>1. PICK kind \in {"reply", "note"}, of \in Texts \cup {Unattached} :
          call' = [call EXCEPT ![w] = [pc |-> "create", kind |-> kind, of |-> of]]
    BY <1>2 DEF BeginCreate, Calls
  <2> DEFINE c == [pc |-> "create", kind |-> kind, of |-> of]
  <2>2. c \in CallStates /\ c.pc = "create"
    BY DEF CallStates
  <2>3. call' = [call EXCEPT ![w] = c]
    BY <2>1
  <2> HIDE DEF c
  <2> QED
    BY <1>1, <2>2, <2>3, CallMoves
<1>3. CASE BeginRemoveFile(w)
  <2>1. PICK c : call' = [call EXCEPT ![w] = c] /\ c = [pc |-> "unlink"]
    BY <1>3 DEF BeginRemoveFile, Calls
  <2>2. c \in CallStates /\ c.pc = "unlink"
    BY <2>1 DEF CallStates
  <2>3. attached # Unattached
    BY <1>3, CollaborationAssumption DEF BeginRemoveFile, Unattached
  <2> QED
    BY <1>1, <2>1, <2>2, <2>3, CallMoves
<1>4. ASSUME NEW t \in Texts, BeginChange(w, t) PROVE CollabInv'
  <2>1. PICK c : call' = [call EXCEPT ![w] = c] /\ \E op \in {"update", "remove"} : c = [pc |-> op, of |-> t]
    BY <1>4 DEF BeginChange, Calls
  <2>2. c \in CallStates /\ c.pc \in {"update", "remove"} /\ c.of = t
    BY <2>1 DEF CallStates
  <2>3. texts[t] # NoText /\ t \notin published
    <3>1. texts[t].kind \in TextKinds /\ ~(public /\ texts[t].kind = "reply")
      BY <1>4 DEF BeginChange, Mutable
    <3>2. texts[t] \in TextStates
      BY CollabTypes DEF CollabInv
    <3> QED
      BY <3>1, <3>2, TextFields DEF CollabInv, RepliesAreAnnounced
  <2> QED
    BY <1>1, <2>1, <2>2, <2>3, CallMoves
<1>5. ASSUME NEW t \in Texts, BeginUpload(w, t) PROVE CollabInv'
  <2>1. PICK c : call' = [call EXCEPT ![w] = c] /\ c = [pc |-> "store", of |-> t]
    BY <1>5 DEF BeginUpload, Calls
  <2>2. c \in CallStates /\ c.pc = "store"
    BY <2>1 DEF CallStates
  <2>3. attached = Unattached /\ \A v \in Writers : call[v].pc \notin {"store", "insert"}
    BY <1>5 DEF BeginUpload
  <2> QED
    BY <1>1, <2>1, <2>2, <2>3, CallMoves
<1> QED
  BY <1>2, <1>3, <1>4, <1>5

LEMMA FilesMove ==
  ASSUME CollabInv, NEW w \in Writers,
         StoreFile(w) \/ UnlinkFile(w) \/ CutCall(w) \/ (InsertFile(w) /\ UNCHANGED attached)
  PROVE  CollabInv'
<1>1. /\ UNCHANGED <<public, visible, texts, messages, published, attached>> /\ call[w] \in CallStates
      /\ object \in BOOLEAN /\ cut \in BOOLEAN
  BY DEF StoreFile, UnlinkFile, CutCall, InsertFile, rowVars, fileVars, CollabInv, CollabTypeOK
<1>2. CASE StoreFile(w)
  <2>1. PICK c : c = [call[w] EXCEPT !.pc = "insert"]
    OBVIOUS
  <2>2. call[w] \in [pc: {"update", "remove", "store", "insert"}, of: Texts] /\ call[w].pc = "store"
    BY <1>1, <1>2 DEF StoreFile, CallStates, NoCall
  <2>3. c \in CallStates /\ c.pc = "insert"
    BY <2>1, <2>2 DEF CallStates
  <2>4. call' = [call EXCEPT ![w] = c] /\ object' = TRUE /\ cut' = cut
    BY <1>2, <2>1 DEF StoreFile, Calls
  <2>5. attached = Unattached /\ \A v \in Writers \ {w} : call[v].pc \notin {"store", "insert"}
    BY <2>2 DEF CollabInv, OneFile
  <2> QED
    BY <1>1, <2>2, <2>3, <2>4, <2>5, CallMoves
<1>3. CASE UnlinkFile(w)
  <2>1. PICK c : call' = [call EXCEPT ![w] = c] /\ c = [pc |-> "delete"]
    BY <1>3 DEF UnlinkFile, Calls
  <2>2. c \in CallStates /\ c.pc = "delete"
    BY <2>1 DEF CallStates
  <2>3. attached # Unattached /\ object' = FALSE /\ cut' = cut /\ call[w].pc = "unlink"
    BY <1>3 DEF UnlinkFile, CollabInv, OneFile
  <2>4. object' \in BOOLEAN /\ cut' \in BOOLEAN /\ (cut => cut') /\ call[w].pc # "delete"
    BY <1>1, <2>3
  <2> QED
    BY <1>1, <2>1, <2>2, <2>3, <2>4, CallMoves
<1>4. NoCall \in CallStates /\ NoCall.pc = "idle"
  BY DEF CallStates, NoCall
<1>5. CASE CutCall(w)
  <2>1. call' = [call EXCEPT ![w] = NoCall] /\ object' = object /\ cut' = (cut \/ call[w].pc = "delete")
    BY <1>5 DEF CutCall, Calls
  <2> QED
    BY <1>1, <1>4, <2>1, CallMoves
<1>6. CASE InsertFile(w) /\ UNCHANGED attached
  <2>1. call' = [call EXCEPT ![w] = NoCall] /\ cut' = cut /\ object' \in {object, FALSE} /\ call[w].pc = "insert"
    BY <1>6 DEF InsertFile, Calls
  <2>2. attached = Unattached /\ \A v \in Writers \ {w} : call[v].pc # "insert"
    BY <2>1 DEF CollabInv, OneFile
  <2> QED
    BY <1>1, <1>4, <2>1, <2>2, CallMoves
<1> QED
  BY <1>2, <1>3, <1>5, <1>6

(* A call that ends, writing the row of the attachment.                      *)
LEMMA FileRowMoves ==
  ASSUME CollabInv, NEW w \in Writers, DeleteFileRow(w) \/ (InsertFile(w) /\ attached' = call[w].of /\ UNCHANGED object /\ texts[call[w].of].kind \in TextKinds)
  PROVE  CollabInv'
<1>1. /\ UNCHANGED <<public, visible, texts, messages, published, object, cut>> /\ call[w] \in CallStates
      /\ call' = [call EXCEPT ![w] = NoCall]
  BY DEF DeleteFileRow, InsertFile, rowVars, Calls, CollabInv
<1>2. NoCall \in CallStates /\ NoCall.pc = "idle"
  BY DEF CallStates, NoCall
<1>3. call' \in [Writers -> CallStates] /\ call'[w] = NoCall /\ \A v \in Writers \ {w} : call'[v] = call[v]
  BY <1>1, <1>2 DEF CollabInv
<1>4. /\ attached' \in Texts \cup {Removed} /\ attached' # Unattached /\ (attached' \in Texts => texts[attached'].kind \in TextKinds)
      /\ attached' \in Texts => object
      /\ \A v \in Writers \ {w} : call[v].pc \notin {"store", "insert"}
  <2>1. CASE DeleteFileRow(w)
    <3>1. attached' = Removed /\ Removed \notin Texts /\ Removed # Unattached
      BY <2>1, CollaborationAssumption DEF DeleteFileRow, Removed, Unattached
    <3>2. attached # Unattached
      BY <2>1 DEF DeleteFileRow, CollabInv, OneFile
    <3> QED
      BY <3>1, <3>2 DEF CollabInv, OneFile
  <2>2. CASE InsertFile(w) /\ attached' = call[w].of /\ UNCHANGED object /\ texts[call[w].of].kind \in TextKinds
    <3>1. call[w].pc = "insert" /\ call[w].of \in Texts
      BY <1>1, <2>2, CallFields DEF InsertFile
    <3>2. object /\ \A v \in Writers \ {w} : call[v].pc \notin {"store", "insert"}
      BY <3>1 DEF CollabInv, OneFile
    <3> QED
      BY <2>2, <3>1, <3>2, CollaborationAssumption DEF Unattached
  <2> QED
    BY <2>1, <2>2
<1>5. CollabTypeOK'
  BY <1>1, <1>3, <1>4, CallFields DEF CollabInv, CollabTypeOK
<1>6. PublishedStays' /\ RepliesAreAnnounced' /\ CorrectionsResolve' /\ published' \subseteq messages'
  BY <1>1 DEF CollabInv, PublishedStays, RepliesAreAnnounced, CorrectionsResolve
<1>7. ChangesAreMutable' /\ OneFile' /\ AttachmentHasFile'
  BY <1>1, <1>2, <1>3, <1>4 DEF CollabInv, ChangesAreMutable, OneFile, AttachmentHasFile
<1> QED
  BY <1>3, <1>5, <1>6, <1>7 DEF CollabInv

(* A new text: it is published exactly when it is a reply of a public ticket.*)
LEMMA TextAppears ==
  ASSUME CollabInv, NEW t \in Texts, texts[t] = NoText,
         NEW kind \in TextKinds, NEW of \in Texts \cup {Unattached}, Row(t, kind, of),
         call' \in [Writers -> CallStates], \A w \in Writers : call'[w] = call[w] \/ call'[w] = NoCall,
         \A w \in Writers : call'[w] # call[w] => call[w].pc = "create",
         UNCHANGED <<public, visible, attached, object, cut>>,
         messages' \subseteq Texts, messages \subseteq messages', 
         published' = IF public /\ kind = "reply" THEN published \cup {t} ELSE published,
         published' \subseteq messages',
         public /\ kind = "reply" => Correctable(of)
  PROVE  CollabInv'
<1>1. PICK q : q = [kind |-> kind, version |-> 1, corrects |-> of]
  OBVIOUS
<1>2. q \in TextRow /\ q.kind = kind /\ q.version = 1 /\ q.corrects = of
  BY <1>1, CollaborationAssumption DEF TextRow
<1>3. texts \in [Texts -> TextStates] /\ texts' = [texts EXCEPT ![t] = q]
  BY <1>1, CollabTypes DEF CollabInv, Row
<1>4. texts' \in [Texts -> TextStates] /\ texts'[t] = q /\ \A u \in Texts \ {t} : texts'[u] = texts[u]
  BY <1>2, <1>3 DEF TextStates
<1>5. texts[t].kind = "none" /\ t \notin published /\ NoCall.pc = "idle"
  BY DEF NoText, NoCall, CollabInv, PublishedStays
<1>6. CollabTypeOK'
  <2>1. attached \in Texts => attached # t
    BY <1>5 DEF CollabInv, CollabTypeOK, TextKinds
  <2>2. published' \subseteq Texts
    OBVIOUS
  <2>3. \A w \in Writers : call'[w].pc \in {"idle", "create", "update", "remove", "store", "insert", "unlink", "delete"}
    BY CallFields
  <2>4. texts' \in [Texts -> {NoText, [kind |-> "gone"]} \cup [kind: TextKinds, version: 1 .. Versions, corrects: Texts \cup {Unattached}]]
    BY <1>4 DEF TextStates, TextRow
  <2> QED
    BY <1>4, <2>1, <2>2, <2>3, <2>4 DEF CollabInv, CollabTypeOK
<1>7. PublishedStays' /\ RepliesAreAnnounced'
  BY <1>2, <1>4, <1>5 DEF CollabInv, PublishedStays, RepliesAreAnnounced
<1>8. CorrectionsResolve'
  <2>1. published \subseteq Texts /\ published \subseteq published'
    BY DEF CollabInv, CollabTypeOK
  <2>2. ASSUME public, kind = "reply", of # Unattached PROVE of \in published
    BY <2>2 DEF Correctable, CollabInv, RepliesAreAnnounced
  <2> QED
    BY <1>2, <1>4, <1>5, <2>1, <2>2 DEF CollabInv, CorrectionsResolve
<1>9. ChangesAreMutable'
  <2>1. ASSUME NEW w \in Writers, call'[w].pc \in {"update", "remove"}
        PROVE  call'[w].of \notin published' /\ texts'[call'[w].of] # NoText
    <3>1. call'[w] = call[w] /\ call[w].pc \in {"update", "remove"} /\ call[w].of \in Texts
      BY <1>5, <2>1, CallFields DEF CollabInv
    <3>2. call[w].of \notin published /\ texts[call[w].of] # NoText
      BY <3>1 DEF CollabInv, ChangesAreMutable
    <3> QED
      BY <1>4, <3>1, <3>2
  <2> QED
    BY <2>1 DEF ChangesAreMutable
<1>10. OneFile'
  BY <1>5 DEF CollabInv, OneFile
<1>11. AttachmentHasFile'
  BY DEF CollabInv, AttachmentHasFile
<1> QED
  BY <1>6, <1>7, <1>8, <1>9, <1>10, <1>11 DEF CollabInv

LEMMA TextsAppear ==
  ASSUME CollabInv, NEW t \in Texts, RequesterWrites(t) \/ \E w \in Writers : CreateText(w, t)
  PROVE  CollabInv'
<1>1. /\ messages \subseteq Texts /\ published \subseteq messages /\ Unattached \in Texts \cup {Unattached}
      /\ call \in [Writers -> CallStates]
  BY DEF CollabInv, CollabTypeOK
<1>2. CASE RequesterWrites(t)
  <2>1. /\ texts[t] = NoText /\ "requester" \in TextKinds /\ Row(t, "requester", Unattached) /\ messages' = messages \cup {t}
        /\ UNCHANGED <<public, visible, published, attached, object, cut, call>>
    BY <1>2 DEF RequesterWrites, TextKinds, fileVars
  <2> QED
    BY <1>1, <2>1, TextAppears
<1>3. ASSUME NEW w \in Writers, CreateText(w, t) PROVE CollabInv'
  <2>1. call[w].pc = "create" /\ texts[t] = NoText /\ call' = [call EXCEPT ![w] = NoCall]
        /\ UNCHANGED <<public, visible, attached, object, cut>>
    BY <1>3 DEF CreateText, Calls, fileVars
  <2>2. call[w].kind \in TextKinds /\ call[w].of \in Texts \cup {Unattached} /\ NoCall \in CallStates /\ NoCall.pc = "idle"
    BY <1>1, <2>1, CallFields DEF TextKinds, CallStates, NoCall
  <2>3. CASE ~Correctable(call[w].of)
    <3>1. UNCHANGED <<texts, messages, published>> /\ object \in BOOLEAN /\ cut \in BOOLEAN
      BY <1>3, <2>3 DEF CreateText, rowVars, CollabInv, CollabTypeOK
    <3> QED
      BY <2>1, <2>2, <3>1, CallMoves
  <2>4. CASE Correctable(call[w].of)
    <3>1. /\ Row(t, call[w].kind, call[w].of)
          /\ published' = IF public /\ call[w].kind = "reply" THEN published \cup {t} ELSE published
          /\ messages' = IF public /\ call[w].kind = "reply" THEN messages \cup {t} ELSE messages
      BY <1>3, <2>4 DEF CreateText
    <3>2. call' \in [Writers -> CallStates] /\ \A v \in Writers : call'[v] = IF v = w THEN NoCall ELSE call[v]
      BY <1>1, <2>1, <2>2
    <3>3. messages' \subseteq Texts /\ messages \subseteq messages' /\ published' \subseteq messages'
      BY <1>1, <3>1
    <3> QED
      BY <2>1, <2>2, <2>4, <3>1, <3>2, <3>3, TextAppears
  <2> QED
    BY <2>3, <2>4
<1> QED
  BY <1>2, <1>3

(* A text that is not published is changed or removed.                       *)
LEMMA TextsChange ==
  ASSUME CollabInv, NEW w \in Writers, UpdateText(w) \/ RemoveText(w)
  PROVE  CollabInv'
<1>1. /\ call[w].pc \in {"update", "remove"} /\ call' = [call EXCEPT ![w] = NoCall]
      /\ UNCHANGED <<public, visible, messages, published, attached, object, cut>>
      /\ call[w] \in CallStates /\ texts \in [Texts -> TextStates] /\ call \in [Writers -> CallStates]
  BY CollabTypes DEF UpdateText, RemoveText, Calls, fileVars, CollabInv
<1>2. PICK t \in Texts : t = call[w].of
  BY <1>1, CallFields
<1>3. t \notin published /\ texts[t] # NoText
  BY <1>1, <1>2 DEF CollabInv, ChangesAreMutable
<1>4. NoCall \in CallStates /\ NoCall.pc = "idle"
  BY DEF CallStates, NoCall
<1>5. call' \in [Writers -> CallStates] /\ call'[w] = NoCall /\ \A v \in Writers \ {w} : call'[v] = call[v]
  BY <1>1, <1>4
<1>6. PICK q :
        /\ q \in TextStates /\ texts' = [texts EXCEPT ![t] = q] /\ q # NoText
        /\ (q.kind = texts[t].kind \/ (q.kind = "gone" /\ ~Referred(t)))
  <2>1. CASE UNCHANGED texts
    <3>1. PICK p : p = texts[t]
      OBVIOUS
    <3>2. p \in TextStates /\ texts' = [texts EXCEPT ![t] = p] /\ p # NoText /\ p.kind = texts[t].kind
      BY <1>1, <1>3, <2>1, <3>1
    <3> QED
      BY <3>2
  <2>2. CASE UpdateText(w) /\ ~UNCHANGED texts
    <3>1. PICK n : n = texts[t].version + 1
      OBVIOUS
    <3>2. PICK q : q = [texts[t] EXCEPT !.version = n]
      OBVIOUS
    <3>3. texts[t].kind \in TextKinds /\ texts[t].version < Versions /\ texts' = [texts EXCEPT ![t] = q]
      BY <1>2, <2>2, <3>1, <3>2 DEF UpdateText
    <3>4. texts[t] \in TextRow
      BY <1>1, <3>3, TextFields
    <3>5. n \in 1 .. Versions
      BY <3>1, <3>3, <3>4, CollaborationAssumption DEF TextRow
    <3>6. q \in TextRow /\ q.kind = texts[t].kind
      BY <3>2, <3>4, <3>5 DEF TextRow
    <3>7. q \in TextStates /\ q # NoText
      BY <3>6, <3>3, TextFields DEF TextStates
    <3> QED
      BY <3>3, <3>6, <3>7
  <2>3. CASE RemoveText(w) /\ ~UNCHANGED texts
    <3>1. PICK q : q = [kind |-> "gone"]
      OBVIOUS
    <3>2. ~Referred(t) /\ texts' = [texts EXCEPT ![t] = q]
      BY <1>2, <2>3, <3>1 DEF RemoveText
    <3>3. q \in TextStates /\ q.kind = "gone" /\ q # NoText
      BY <3>1 DEF TextStates, NoText
    <3> QED
      BY <3>2, <3>3
  <2> QED
    BY <2>1, <2>2, <2>3
<1>7. texts' \in [Texts -> TextStates] /\ texts'[t] = q /\ \A u \in Texts \ {t} : texts'[u] = texts[u]
  BY <1>1, <1>6
<1>8. CollabTypeOK'
  <2>1. ~Referred(t) => attached # t
    BY DEF Referred
  <2>2. texts' \in [Texts -> {NoText, [kind |-> "gone"]} \cup [kind: TextKinds, version: 1 .. Versions, corrects: Texts \cup {Unattached}]]
    BY <1>7 DEF TextStates, TextRow
  <2>3. attached \in Texts => texts'[attached].kind \in TextKinds
    BY <1>6, <1>7, <2>1 DEF CollabInv, CollabTypeOK
  <2> QED
    BY <1>1, <1>5, <2>2, <2>3, CallFields DEF CollabInv, CollabTypeOK
<1>9. PublishedStays'
  BY <1>1, <1>3, <1>7 DEF CollabInv, PublishedStays
<1>10. RepliesAreAnnounced'
  BY <1>1, <1>3, <1>6, <1>7 DEF CollabInv, RepliesAreAnnounced
<1>11. CorrectionsResolve' /\ published' \subseteq messages'
  BY <1>1, <1>3, <1>7 DEF CollabInv, CorrectionsResolve, CollabTypeOK
<1>12. ChangesAreMutable'
  BY <1>1, <1>4, <1>5, <1>6, <1>7, CallFields DEF CollabInv, ChangesAreMutable
<1>13. OneFile' /\ AttachmentHasFile'
  BY <1>1, <1>4, <1>5 DEF CollabInv, OneFile, AttachmentHasFile
<1> QED
  BY <1>5, <1>8, <1>9, <1>10, <1>11, <1>12, <1>13 DEF CollabInv

LEMMA CollabStepHolds == CollabInv /\ [CollabNext]_collabVars => CollabInv'
<1>1. ASSUME CollabInv, DeleteTicket \/ UNCHANGED collabVars PROVE CollabInv'
  <2>1. UNCHANGED <<public, texts, messages, published, attached, object, call, cut>> /\ visible' \in BOOLEAN
    BY <1>1 DEF collabVars, DeleteTicket, rowVars, fileVars, CollabInv, CollabTypeOK
  <2> QED
    BY <1>1, <2>1 DEF CollabInv, CollabTypeOK, PublishedStays, RepliesAreAnnounced,
         CorrectionsResolve, ChangesAreMutable, OneFile, AttachmentHasFile
<1>2. ASSUME CollabInv, NEW w \in Writers, InsertFile(w) PROVE CollabInv'
  BY <1>2, FilesMove, FileRowMoves DEF InsertFile
<1>3. ASSUME CollabInv, NEW w \in Writers,
             \/ BeginCreate(w) \/ UpdateText(w) \/ RemoveText(w) \/ StoreFile(w) \/ BeginRemoveFile(w)
             \/ UnlinkFile(w) \/ DeleteFileRow(w) \/ CutCall(w)
      PROVE  CollabInv'
  <2>1. CASE BeginCreate(w) \/ BeginRemoveFile(w)
    BY <1>3, <2>1, CallsBegin
  <2>2. CASE StoreFile(w) \/ UnlinkFile(w) \/ CutCall(w)
    BY <1>3, <2>2, FilesMove
  <2>3. CASE DeleteFileRow(w)
    BY <1>3, <2>3, FileRowMoves
  <2>4. CASE UpdateText(w) \/ RemoveText(w)
    BY <1>3, <2>4, TextsChange
  <2> QED
    BY <1>3, <2>1, <2>2, <2>3, <2>4
<1>4. ASSUME CollabInv, NEW w \in Writers, NEW t \in Texts, CreateText(w, t) \/ BeginChange(w, t) \/ BeginUpload(w, t)
      PROVE  CollabInv'
  BY <1>4, CallsBegin, TextsAppear
<1>5. ASSUME CollabInv, NEW t \in Texts, RequesterWrites(t) PROVE CollabInv'
  BY <1>5, TextsAppear
<1> QED
  BY <1>1, <1>2, <1>3, <1>4, <1>5 DEF CollabNext

LEMMA CollabHolds ==
  CollabInv => CollabTypeOK /\ PublishedStays /\ RepliesAreAnnounced /\ CorrectionsResolve /\ AttachmentHasFile
BY DEF CollabInv

-----------------------------------------------------------------------------
(* The categories or departments and what refers to them.                    *)

Present == [state: {"live", "deleted"}, name: Labels]
EntryStates == {NoEntryYet, [state |-> "gone"]} \cup Present
What == {"policy", "ticket", "user"}
EditStates ==
  {NotEditing} \cup [pc: {"create", "rename"}, id: Ids, name: Labels]
    \cup [pc: {"count", "recount", "remove"}, id: Ids] \cup [pc: {"refer"}, id: Ids, what: What]

NamesAreUnique == \A i, k \in Entries : entry[i].name = entry[k].name => i = k

(* A row to be created is not there yet and is one call's; a row to be       *)
(* removed has been there, and what it has counted came after the count.     *)
EditsAreOwn ==
  /\ \A e \in Managers : edit[e].pc = "create" => entry[edit[e].id] = NoEntryYet
  /\ \A e, o \in Managers : edit[e].pc = "create" /\ edit[o].pc = "create" /\ edit[e].id = edit[o].id => e = o
  /\ \A e \in Managers : edit[e].pc \in {"count", "recount", "remove"} => entry[edit[e].id] # NoEntryYet
  /\ \A e \in Managers : \A r \in refs : r[2] = edit[e].id /\ r[1] \in AlreadyCounted(edit[e].pc) => r \in late
  /\ \A e \in Managers : edit[e].pc = "refer" => edit[e].what \in Referrers

CatalogueInv ==
  /\ nature \in {"category", "department"} /\ entry \in [Ids -> EntryStates] /\ edit \in [Managers -> EditStates]
  /\ refs \subseteq Referrers \X Ids /\ late \subseteq refs
  /\ NamesAreUnique /\ EditsAreOwn /\ ReferencesResolve /\ DeletedHasOnlyLateReferences

LEMMA EntryFields ==
  ASSUME NEW q \in EntryStates
  PROVE  /\ q \in Present <=> q.state \in {"live", "deleted"}
         /\ q.state \in {"none", "gone", "live", "deleted"}
         /\ q = NoEntryYet <=> q.state = "none"
BY DEF EntryStates, Present, NoEntryYet

LEMMA EditFields ==
  ASSUME NEW q \in EditStates
  PROVE  /\ q.pc \in {"idle", "create", "rename", "count", "recount", "remove", "refer"}
         /\ q.pc # "idle" => q.id \in Ids
         /\ q.pc \in {"create", "rename"} => q.name \in Labels
         /\ q.pc \in {"count", "recount", "remove"} => q \in [pc: {"count", "recount", "remove"}, id: Ids]
         /\ q.pc = "refer" => q.what \in What
BY DEF EditStates, NotEditing

LEMMA NotEditingIsIdle == NotEditing \in EditStates /\ NotEditing.pc = "idle" /\ AlreadyCounted(NotEditing.pc) = {}
BY DEF EditStates, NotEditing, AlreadyCounted

LEMMA CountedInTurn ==
  /\ \A pc : AlreadyCounted(pc) # {} => pc \in {"recount", "remove"}
  /\ AlreadyCounted("remove") = Referrers /\ \A pc : AlreadyCounted(pc) \subseteq Referrers
BY DEF AlreadyCounted, FirstCounted, Referrers

LEMMA CatalogueInitHolds == CatalogueInit => CatalogueInv
<1> SUFFICES ASSUME CatalogueInit PROVE CatalogueInv
  OBVIOUS
<1>1. NoEntryYet \in EntryStates /\ NoEntryYet.state = "none"
  BY DEF EntryStates, NoEntryYet
<1>2. Entries = {}
  BY <1>1 DEF CatalogueInit, Entries
<1> QED
  BY <1>1, <1>2, NotEditingIsIdle
  DEF CatalogueInit, CatalogueInv, NamesAreUnique, EditsAreOwn, ReferencesResolve, DeletedHasOnlyLateReferences

(* A call begins, goes on or ends, and no row changes: references may be     *)
(* added or taken away.                                                      *)
LEMMA EditMoves ==
  ASSUME CatalogueInv, NEW e \in Managers, NEW q \in EditStates, Edits(e, q), UNCHANGED <<nature, entry>>,
         refs' \subseteq Referrers \X Ids, late' \subseteq refs', \A r \in refs' : r[2] \in Entries,
         \A r \in refs' : entry[r[2]].state = "deleted" => r \in late',
         \A o \in Managers : \A r \in refs' : r[2] = edit[o].id /\ r[1] \in AlreadyCounted(edit[o].pc) => r \in late',
         q.pc = "create" => entry[q.id] = NoEntryYet /\ \A o \in Managers : edit[o].pc = "create" => edit[o].id # q.id,
         q.pc \in {"count", "recount", "remove"} => entry[q.id] # NoEntryYet,
         \A r \in refs' : r[2] = q.id /\ r[1] \in AlreadyCounted(q.pc) => r \in late',
         q.pc = "refer" => q.what \in Referrers
  PROVE  CatalogueInv'
<1>1. edit' \in [Managers -> EditStates] /\ edit'[e] = q /\ \A o \in Managers \ {e} : edit'[o] = edit[o]
  BY DEF CatalogueInv, Edits
<1>2. Referrers' = Referrers /\ Entries' = Entries /\ \A pc : AlreadyCounted(pc)' = AlreadyCounted(pc)
  BY DEF Referrers, Entries, AlreadyCounted, FirstCounted
<1>3. NamesAreUnique'
  BY <1>2 DEF CatalogueInv, NamesAreUnique
<1>4. EditsAreOwn'
  BY <1>1, <1>2 DEF CatalogueInv, EditsAreOwn
<1>5. ReferencesResolve' /\ DeletedHasOnlyLateReferences'
  BY <1>2 DEF ReferencesResolve, DeletedHasOnlyLateReferences
<1> QED
  BY <1>1, <1>2, <1>3, <1>4, <1>5 DEF CatalogueInv

LEMMA EditsBegin ==
  ASSUME CatalogueInv, NEW e \in Managers, NEW i \in Ids,
         \/ BeginRemoveRow(e, i)
         \/ \E n \in Labels : BeginCreateRow(e, i, n) \/ BeginRename(e, i, n)
         \/ \E w \in Referrers : BeginRefer(e, i, w)
  PROVE  CatalogueInv'
<1>1. UNCHANGED <<nature, entry, refs, late>>
  BY DEF BeginRemoveRow, BeginCreateRow, BeginRename, BeginRefer
<1>2. /\ refs \subseteq Referrers \X Ids /\ late \subseteq refs /\ (\A r \in refs : r[2] \in Entries)
      /\ (\A r \in refs : entry[r[2]].state = "deleted" => r \in late)
      /\ (\A o \in Managers : \A r \in refs : r[2] = edit[o].id /\ r[1] \in AlreadyCounted(edit[o].pc) => r \in late)
  BY DEF CatalogueInv, EditsAreOwn, ReferencesResolve, DeletedHasOnlyLateReferences
<1>3. PICK q \in EditStates :
        /\ Edits(e, q)
        /\ q.pc = "create" => entry[q.id] = NoEntryYet /\ \A o \in Managers : edit[o].pc = "create" => edit[o].id # q.id
        /\ q.pc = "count" => entry[q.id] # NoEntryYet
        /\ q.pc = "refer" => q.what \in Referrers
        /\ q.pc \notin {"recount", "remove"} /\ AlreadyCounted(q.pc) = {}
  <2>1. CASE BeginRemoveRow(e, i)
    <3>1. PICK q : q = [pc |-> "count", id |-> i]
      OBVIOUS
    <3>2. q \in EditStates /\ q.pc = "count" /\ q.id = i /\ AlreadyCounted(q.pc) = {}
      BY <3>1, CountedInTurn DEF EditStates
    <3>3. entry[i] # NoEntryYet
      BY <2>1 DEF BeginRemoveRow, NoEntryYet
    <3> QED
      BY <2>1, <3>1, <3>2, <3>3 DEF BeginRemoveRow
  <2>2. ASSUME NEW n \in Labels, BeginCreateRow(e, i, n)
        PROVE  \E q \in EditStates :
                 /\ Edits(e, q) /\ q.pc = "create"
                 /\ entry[q.id] = NoEntryYet /\ \A o \in Managers : edit[o].pc = "create" => edit[o].id # q.id
    <3>1. PICK q : q = [pc |-> "create", id |-> i, name |-> n]
      OBVIOUS
    <3>2. q \in EditStates /\ q.pc = "create" /\ q.id = i
      BY <3>1 DEF EditStates
    <3> QED
      BY <2>2, <3>1, <3>2 DEF BeginCreateRow
  <2>3. ASSUME NEW n \in Labels, BeginRename(e, i, n)
        PROVE  \E q \in EditStates : Edits(e, q) /\ q.pc = "rename"
    <3>1. PICK q : q = [pc |-> "rename", id |-> i, name |-> n]
      OBVIOUS
    <3>2. q \in EditStates /\ q.pc = "rename"
      BY <3>1 DEF EditStates
    <3> QED
      BY <2>3, <3>1, <3>2 DEF BeginRename
  <2>4. ASSUME NEW w \in Referrers, BeginRefer(e, i, w)
        PROVE  \E q \in EditStates : Edits(e, q) /\ q.pc = "refer" /\ q.what \in Referrers
    <3>1. PICK q : q = [pc |-> "refer", id |-> i, what |-> w]
      OBVIOUS
    <3>2. q \in EditStates /\ q.pc = "refer" /\ q.what = w
      BY <3>1 DEF EditStates, What, Referrers
    <3> QED
      BY <2>4, <3>1, <3>2 DEF BeginRefer
  <2> QED
    BY <2>1, <2>2, <2>3, <2>4, CountedInTurn
<1>4. /\ q.pc \in {"count", "recount", "remove"} => entry[q.id] # NoEntryYet
      /\ \A r \in refs : r[2] = q.id /\ r[1] \in AlreadyCounted(q.pc) => r \in late
  BY <1>3
<1> QED
  BY <1>1, <1>2, <1>3, <1>4, EditMoves

LEMMA ReferencesChange ==
  ASSUME CatalogueInv, NEW e \in Managers, CountReferences(e) \/ Refer(e)
  PROVE  CatalogueInv'
<1>1. /\ refs \subseteq Referrers \X Ids /\ late \subseteq refs /\ (\A r \in refs : r[2] \in Entries)
      /\ (\A r \in refs : entry[r[2]].state = "deleted" => r \in late)
      /\ (\A o \in Managers : \A r \in refs : r[2] = edit[o].id /\ r[1] \in AlreadyCounted(edit[o].pc) => r \in late)
      /\ edit[e] \in EditStates
  BY DEF CatalogueInv, EditsAreOwn, ReferencesResolve, DeletedHasOnlyLateReferences
<1>2. PICK i \in Ids : i = edit[e].id
  BY <1>1, EditFields DEF CountReferences, Refer
<1>3. CASE CountReferences(e)
  <2>1. UNCHANGED <<nature, entry, refs, late>> /\ edit[e].pc \in {"count", "recount"}
    BY <1>3 DEF CountReferences
  <2>2. CASE Edits(e, NotEditing)
    BY <1>1, <2>1, <2>2, NotEditingIsIdle, EditMoves
  <2>3. CASE ~Edits(e, NotEditing)
    <3>1. PICK next \in {"recount", "remove"} :
            /\ next = IF edit[e].pc = "count" THEN "recount" ELSE "remove"
            /\ Edits(e, [edit[e] EXCEPT !.pc = next])
            /\ \A w \in AlreadyCounted(next) \ AlreadyCounted(edit[e].pc) : <<w, i>> \notin refs
      BY <1>2, <1>3, <2>3 DEF CountReferences
    <3>2. PICK q : q = [edit[e] EXCEPT !.pc = next]
      OBVIOUS
    <3>3. edit[e] \in [pc: {"count", "recount", "remove"}, id: Ids]
      BY <1>1, <2>1, EditFields
    <3>4. q \in EditStates /\ q.pc = next /\ q.id = i
      BY <1>2, <3>2, <3>3 DEF EditStates
    <3>5. \A r \in refs : r[2] = i /\ r[1] \in AlreadyCounted(next) => r \in late
      <4> SUFFICES ASSUME NEW r \in refs, r[2] = i, r[1] \in AlreadyCounted(next) PROVE r \in late
        OBVIOUS
      <4>1. r = <<r[1], i>>
        BY <1>1
      <4>2. r[1] \in AlreadyCounted(edit[e].pc)
        BY <3>1, <4>1
      <4> QED
        BY <1>1, <1>2, <4>2
    <3>6. entry[i] # NoEntryYet
      BY <1>2, <2>1 DEF CatalogueInv, EditsAreOwn
    <3> QED
      BY <1>1, <2>1, <3>1, <3>2, <3>4, <3>5, <3>6, EditMoves
  <2> QED
    BY <2>2, <2>3
<1>4. CASE Refer(e)
  <2>1. UNCHANGED <<nature, entry>> /\ edit[e].pc = "refer" /\ Edits(e, NotEditing)
    BY <1>4 DEF Refer
  <2>2. PICK new : new = <<edit[e].what, i>>
    OBVIOUS
  <2>3. new \in Referrers \X Ids /\ new[2] = i
    BY <2>1, <2>2 DEF CatalogueInv, EditsAreOwn
  <2>4. CASE i \notin Entries
    <3>1. UNCHANGED <<refs, late>>
      BY <1>2, <1>4, <2>4 DEF Refer
    <3> QED
      BY <1>1, <2>1, <3>1, NotEditingIsIdle, EditMoves
  <2>5. CASE i \in Entries
    <3>1. /\ refs' = refs \cup {new}
          /\ late' = IF \/ entry[i].state = "deleted"
                        \/ \E o \in Managers : new[1] \in AlreadyCounted(edit[o].pc) /\ edit[o].id = i
                     THEN late \cup ({new} \ refs) ELSE late
      BY <1>2, <1>4, <2>2, <2>5 DEF Refer
    <3>2. refs' \subseteq Referrers \X Ids /\ late' \subseteq refs' /\ late \subseteq late' /\ \A r \in refs' : r[2] \in Entries
      BY <1>1, <2>3, <2>5, <3>1
    <3>3. \A r \in refs' : entry[r[2]].state = "deleted" => r \in late'
      BY <1>1, <2>3, <3>1
    <3>4. \A o \in Managers : \A r \in refs' : r[2] = edit[o].id /\ r[1] \in AlreadyCounted(edit[o].pc) => r \in late'
      BY <1>1, <2>3, <3>1
    <3> QED
      BY <2>1, <3>2, <3>3, <3>4, NotEditingIsIdle, EditMoves
  <2> QED
    BY <2>4, <2>5
<1> QED
  BY <1>3, <1>4

(* The row of i changes to q, and the call that wrote it is over: it appears,*)
(* it gets a name that no other row has, or it is removed.                   *)
LEMMA RowMoves ==
  ASSUME CatalogueInv, NEW e \in Managers, Edits(e, NotEditing), UNCHANGED <<nature, refs, late>>,
         NEW i \in Ids, NEW q \in EntryStates, entry' = [entry EXCEPT ![i] = q],
         q # NoEntryYet, entry[i] = NoEntryYet => edit[e].pc = "create" /\ edit[e].id = i,
         q.state \in {"live", "deleted"} => \A k \in Entries \ {i} : entry[k].name # q.name,
         q.state = "gone" => \A r \in refs : r[2] # i,
         q.state = "deleted" => \A r \in refs : r[2] = i => r \in late
  PROVE  CatalogueInv'
<1>1. /\ edit \in [Managers -> EditStates] /\ edit' \in [Managers -> EditStates] /\ edit'[e] = NotEditing
      /\ \A o \in Managers \ {e} : edit'[o] = edit[o]
  BY NotEditingIsIdle DEF CatalogueInv, Edits
<1>2. entry' \in [Ids -> EntryStates] /\ entry'[i] = q /\ \A k \in Ids \ {i} : entry'[k] = entry[k]
  BY DEF CatalogueInv
<1>3. Referrers' = Referrers
  BY DEF Referrers
<1>4. (\A k \in Ids \ {i} : k \in Entries' <=> k \in Entries) /\ (i \in Entries' <=> q.state \in {"live", "deleted"}) /\ Entries' \subseteq Ids
  BY <1>2 DEF Entries
<1>5. NamesAreUnique'
  <2>1. ASSUME NEW k \in Entries', NEW l \in Entries', entry'[k].name = entry'[l].name PROVE k = l
    <3>1. CASE k = i \/ l = i
      BY <1>2, <1>4, <2>1, <3>1
    <3>2. CASE k # i /\ l # i
      BY <1>2, <1>4, <2>1, <3>2 DEF CatalogueInv, NamesAreUnique
    <3> QED
      BY <3>1, <3>2
  <2> QED
    BY <2>1 DEF NamesAreUnique
<1>6. EditsAreOwn'
  <2>1. ASSUME NEW o \in Managers, edit'[o].pc = "create" PROVE entry'[edit'[o].id] = NoEntryYet
    <3>1. o # e /\ edit'[o] = edit[o] /\ edit[o].id \in Ids
      BY <1>1, <2>1, NotEditingIsIdle, EditFields
    <3>2. entry[edit[o].id] = NoEntryYet
      BY <2>1, <3>1 DEF CatalogueInv, EditsAreOwn
    <3>3. edit[o].id # i
      BY <2>1, <3>1, <3>2 DEF CatalogueInv, EditsAreOwn
    <3> QED
      BY <1>2, <3>1, <3>2, <3>3
  <2>2. ASSUME NEW o \in Managers, edit'[o].pc \in {"count", "recount", "remove"} PROVE entry'[edit'[o].id] # NoEntryYet
    <3>1. edit'[o] = edit[o] /\ edit[o].id \in Ids
      BY <1>1, <2>2, NotEditingIsIdle, EditFields
    <3>2. entry[edit[o].id] # NoEntryYet
      BY <2>2, <3>1 DEF CatalogueInv, EditsAreOwn
    <3> QED
      BY <1>2, <3>1, <3>2
  <2>3. \A pc : AlreadyCounted(pc)' = AlreadyCounted(pc)
    BY <1>3 DEF AlreadyCounted, FirstCounted
  <2>4. \A o \in Managers : \A r \in refs' : r[2] = edit'[o].id /\ r[1] \in AlreadyCounted(edit[o].pc)' => r \in late'
    <3> SUFFICES ASSUME NEW o \in Managers, NEW r \in refs', r[2] = edit'[o].id, r[1] \in AlreadyCounted(edit[o].pc)' PROVE r \in late'
      OBVIOUS
    <3>1. r[1] \in AlreadyCounted(edit'[o].pc)
      BY <2>3
    <3>2. edit'[o] = edit[o]
      BY <1>1, <3>1, NotEditingIsIdle
    <3> QED
      BY <3>1, <3>2 DEF CatalogueInv, EditsAreOwn
  <2>5. ASSUME NEW o \in Managers, edit'[o].pc \in {"create", "refer"} PROVE edit'[o] = edit[o]
    BY <1>1, <2>5, NotEditingIsIdle
  <2>6. \A o, m \in Managers : edit'[o].pc = "create" /\ edit'[m].pc = "create" /\ edit'[o].id = edit'[m].id => o = m
    BY <2>5 DEF CatalogueInv, EditsAreOwn
  <2>7. \A o \in Managers : edit'[o].pc = "refer" => edit'[o].what \in Referrers'
    BY <1>3, <2>5 DEF CatalogueInv, EditsAreOwn
  <2> QED
    BY <2>1, <2>2, <2>4, <2>6, <2>7 DEF EditsAreOwn
<1>7. \A r \in refs : r[2] \in Ids /\ r[2] \in Entries
  BY DEF CatalogueInv, ReferencesResolve
<1>8. ReferencesResolve'
  <2>1. \A r \in refs : r[2] = i => q.state \in {"live", "deleted"}
    BY EntryFields
  <2> QED
    BY <1>4, <1>7, <2>1 DEF ReferencesResolve
<1>9. DeletedHasOnlyLateReferences'
  BY <1>2, <1>7 DEF CatalogueInv, DeletedHasOnlyLateReferences
<1> QED
  BY <1>1, <1>2, <1>3, <1>5, <1>6, <1>8, <1>9 DEF CatalogueInv

LEMMA RowsChange ==
  ASSUME CatalogueInv, NEW e \in Managers, WriteRow(e) \/ RemoveRow(e)
  PROVE  CatalogueInv'
<1>1. /\ entry \in [Ids -> EntryStates] /\ edit[e] \in EditStates /\ UNCHANGED <<nature, refs, late>> /\ Edits(e, NotEditing)
      /\ edit[e].pc \in {"create", "rename", "remove"}
  BY DEF CatalogueInv, WriteRow, RemoveRow
<1>2. PICK i \in Ids : i = edit[e].id
  BY <1>1, EditFields
<1>3. /\ refs \subseteq Referrers \X Ids /\ late \subseteq refs /\ (\A r \in refs : r[2] \in Entries)
      /\ (\A r \in refs : entry[r[2]].state = "deleted" => r \in late)
      /\ (\A o \in Managers : \A r \in refs : r[2] = edit[o].id /\ r[1] \in AlreadyCounted(edit[o].pc) => r \in late)
      /\ entry[i] \in EntryStates
  BY <1>1 DEF CatalogueInv, EditsAreOwn, ReferencesResolve, DeletedHasOnlyLateReferences
<1>4. CASE UNCHANGED entry
  BY <1>1, <1>3, <1>4, NotEditingIsIdle, EditMoves
<1>5. CASE WriteRow(e) /\ ~UNCHANGED entry
  <2>1. PICK n \in Labels : n = edit[e].name
    BY <1>1, <1>5, EditFields DEF WriteRow
  <2>2. /\ ~NameTaken(i, n) /\ edit[e].pc \in {"create", "rename"} /\ (edit[e].pc = "rename" => i \in Entries)
        /\ entry' = IF edit[e].pc = "create" THEN [entry EXCEPT ![i] = [state |-> "live", name |-> n]]
                    ELSE [entry EXCEPT ![i].name = n]
    BY <1>2, <1>5, <2>1 DEF WriteRow
  <2>3. \A k \in Entries \ {i} : entry[k].name # n
    BY <2>2 DEF NameTaken, Named
  <2>4. CASE edit[e].pc = "create"
    <3>1. PICK q : q = [state |-> "live", name |-> n]
      OBVIOUS
    <3>2. q \in EntryStates /\ q.state = "live" /\ q.name = n
      BY <3>1 DEF EntryStates, Present
    <3>3. q # NoEntryYet /\ entry' = [entry EXCEPT ![i] = q]
      BY <2>2, <2>4, <3>1, <3>2, EntryFields
    <3> QED
      BY <1>1, <1>2, <2>3, <2>4, <3>2, <3>3, RowMoves
  <2>5. CASE edit[e].pc = "rename"
    <3>1. PICK q : q = [entry[i] EXCEPT !.name = n]
      OBVIOUS
    <3>2. entry[i] \in Present
      BY <1>3, <2>2, <2>5, EntryFields DEF Entries
    <3>3. q \in EntryStates /\ q.state = entry[i].state /\ q.name = n /\ q.state \in {"live", "deleted"}
      BY <3>1, <3>2 DEF EntryStates, Present
    <3>4. q # NoEntryYet /\ entry[i] # NoEntryYet /\ entry' = [entry EXCEPT ![i] = q]
      BY <1>3, <2>2, <2>5, <3>1, <3>3, EntryFields
    <3> QED
      BY <1>1, <1>3, <2>3, <3>3, <3>4, RowMoves
  <2> QED
    BY <2>2, <2>4, <2>5
<1>6. CASE RemoveRow(e) /\ ~UNCHANGED entry
  <2>1. /\ edit[e].pc = "remove" /\ entry[i].state # "gone"
        /\ \/ entry' = [entry EXCEPT ![i].state = "deleted"]
           \/ ~Kept(i) /\ entry' = [entry EXCEPT ![i] = [state |-> "gone"]]
    BY <1>2, <1>6 DEF RemoveRow
  <2>2. entry[i] # NoEntryYet
    BY <1>2, <2>1 DEF CatalogueInv, EditsAreOwn
  <2>3. entry[i] \in Present
    BY <1>3, <2>1, <2>2, EntryFields
  <2>4. i \in Entries
    BY <2>3 DEF Entries, Present
  <2>5. CASE entry' = [entry EXCEPT ![i].state = "deleted"]
    <3>1. PICK q : q = [entry[i] EXCEPT !.state = "deleted"]
      OBVIOUS
    <3>2. q \in EntryStates /\ q.state = "deleted" /\ q.name = entry[i].name
      BY <2>3, <3>1 DEF EntryStates, Present
    <3>3. q # NoEntryYet /\ entry' = [entry EXCEPT ![i] = q]
      BY <2>5, <3>1, <3>2, EntryFields
    <3>4. \A k \in Entries \ {i} : entry[k].name # q.name
      BY <2>4, <3>2 DEF CatalogueInv, NamesAreUnique
    <3>5. \A r \in refs : r[2] = i => r \in late
      <4>1. \A r \in refs : r[1] \in AlreadyCounted(edit[e].pc)
        BY <1>3, <2>1, CountedInTurn
      <4> QED
        BY <1>2, <1>3, <4>1
    <3> QED
      BY <1>1, <2>2, <3>2, <3>3, <3>4, <3>5, RowMoves
  <2>6. CASE ~Kept(i) /\ entry' = [entry EXCEPT ![i] = [state |-> "gone"]]
    <3>1. PICK q : q = [state |-> "gone"]
      OBVIOUS
    <3>2. q \in EntryStates /\ q.state = "gone"
      BY <3>1 DEF EntryStates
    <3>3. q # NoEntryYet /\ entry' = [entry EXCEPT ![i] = q]
      BY <2>6, <3>1, <3>2, EntryFields
    <3>4. \A r \in refs : r[2] # i
      BY <1>3, <2>6 DEF Kept
    <3> QED
      BY <1>1, <2>2, <3>2, <3>3, <3>4, RowMoves
  <2> QED
    BY <2>1, <2>5, <2>6
<1> QED
  BY <1>4, <1>5, <1>6

LEMMA CatalogueStepHolds == CatalogueInv /\ [CatalogueNext]_catalogueVars => CatalogueInv'
<1>1. ASSUME CatalogueInv, UNCHANGED <<nature, entry, edit>>, refs' \subseteq refs, late' = late \cap refs' PROVE CatalogueInv'
  <2>1. Referrers' = Referrers /\ Entries' = Entries /\ \A pc : AlreadyCounted(pc)' = AlreadyCounted(pc)
    BY <1>1 DEF Referrers, Entries, AlreadyCounted, FirstCounted
  <2>2. EditsAreOwn'
    BY <1>1, <2>1 DEF CatalogueInv, EditsAreOwn
  <2>3. ReferencesResolve' /\ DeletedHasOnlyLateReferences'
    BY <1>1, <2>1 DEF CatalogueInv, ReferencesResolve, DeletedHasOnlyLateReferences
  <2>4. NamesAreUnique'
    BY <1>1, <2>1 DEF CatalogueInv, NamesAreUnique
  <2> QED
    BY <1>1, <2>1, <2>2, <2>3, <2>4 DEF CatalogueInv
<1>2. ASSUME CatalogueInv, NEW i \in Ids, MoveOut(i) PROVE CatalogueInv'
  <2>1. UNCHANGED <<nature, entry, edit>> /\ refs' \subseteq refs /\ late' = late \cap refs'
    BY <1>2 DEF MoveOut, CatalogueInv
  <2> QED
    BY <1>1, <1>2, <2>1
<1>3. ASSUME CatalogueInv, UNCHANGED catalogueVars PROVE CatalogueInv'
  <2>1. UNCHANGED <<nature, entry, edit>> /\ refs' \subseteq refs /\ late' = late \cap refs'
    BY <1>3 DEF catalogueVars, CatalogueInv
  <2> QED
    BY <1>1, <1>3, <2>1
<1> QED
  BY <1>2, <1>3, EditsBegin, ReferencesChange, RowsChange DEF CatalogueNext

LEMMA CatalogueHolds == CatalogueInv => CatalogueTypeOK /\ ReferencesResolve /\ DeletedHasOnlyLateReferences
<1> SUFFICES ASSUME CatalogueInv PROVE CatalogueTypeOK
  BY DEF CatalogueInv
<1>1. ASSUME NEW n \in Labels PROVE Cardinality(Named(n)) <= 1
  <2>1. CASE Named(n) = {}
    BY <2>1, FS_EmptySet
  <2>2. CASE Named(n) # {}
    <3>1. PICK i : i \in Named(n)
      BY <2>2
    <3>2. Named(n) = {i}
      BY <3>1 DEF CatalogueInv, NamesAreUnique, Named
    <3>3. Cardinality({i}) = 1
      BY FS_Singleton
    <3> QED
      BY <3>2, <3>3
  <2> QED
    BY <2>1, <2>2
<1>2. refs \subseteq What \X Ids
  BY DEF CatalogueInv, Referrers, What
<1> QED
  BY <1>1, <1>2 DEF CatalogueInv, CatalogueTypeOK, EntryStates, Present, EditStates, What

-----------------------------------------------------------------------------
(* The cache of the settings.                                                *)

CacheEntry == [value: Values, until: 0 .. LastInstant + TTL]
AskingStates ==
  {NotAsking} \cup [pc: {"read"}, at: Replicas, now: 0 .. LastInstant]
    \cup [pc: {"store"}, at: Replicas, now: 0 .. LastInstant, value: Values]
    \cup [pc: {"write"}, at: Replicas, exists: BOOLEAN] \cup [pc: {"forget"}, at: Replicas]

(* v was still the value of the row when the clock said n, by these times.   *)
Fresh(replaced, v, n) == replaced[v] = -1 \/ replaced[v] >= n

(* A value was the row's when the call that caches it had taken its time: it *)
(* leaves the cache within TTL of that time.  A number not yet written has   *)
(* not been replaced.                                                        *)
CacheIsFresh ==
  /\ \A v \in Values : v >= setting => Current(v)
  /\ \A v \in Values : replacedAt[v] <= instant
  /\ \A c \in Askers : asking[c].pc \in {"read", "store"} => asking[c].now <= instant
  /\ \A c \in Askers : asking[c].pc = "store" => Fresh(replacedAt, asking[c].value, asking[c].now)
  /\ \A r \in Replicas : cache[r].until = 0 \/ Fresh(replacedAt, cache[r].value, cache[r].until - TTL)
  /\ \A r \in Replicas : cache[r].until <= instant + TTL

(* The row is there for a writer that has seen it, and for good.             *)
RowIsFound == \A c \in Askers : asking[c].pc = "write" /\ asking[c].exists => inserted = 1

SettingsInv == SettingsTypeOK /\ CacheIsFresh /\ RowIsFound

LEMMA SettingsConstants ==
  /\ TTL \in Nat /\ TTL >= 1 /\ LastInstant \in Nat /\ Writes \in Nat /\ Values = 0 .. Writes
  /\ 0 \in Values /\ 0 \in 0 .. LastInstant /\ 0 \in 0 .. LastInstant + TTL /\ -1 \in -1 .. LastInstant
BY SettingsAssumption DEF Values

LEMMA SettingsTypes == SettingsTypeOK =>
  /\ instant \in 0 .. LastInstant /\ setting \in Values /\ replacedAt \in [Values -> -1 .. LastInstant]
  /\ cache \in [Replicas -> CacheEntry] /\ asking \in [Askers -> AskingStates] /\ inserted \in 0 .. 1
BY DEF SettingsTypeOK, CacheEntry, AskingStates

LEMMA AskingFields ==
  ASSUME NEW q \in AskingStates
  PROVE  /\ q.pc \in {"idle", "read", "store", "write", "forget"}
         /\ q.pc \in {"read", "store"} => q.at \in Replicas /\ q.now \in 0 .. LastInstant
         /\ q.pc = "store" => q.value \in Values
         /\ q.pc = "write" => q.at \in Replicas /\ q.exists \in BOOLEAN
         /\ q.pc = "forget" => q.at \in Replicas
BY DEF AskingStates, NotAsking

LEMMA SettingsInitHolds == SettingsInit => SettingsInv
<1> SUFFICES ASSUME SettingsInit PROVE SettingsInv
  OBVIOUS
<1>1. /\ NoEntry \in CacheEntry /\ NoEntry.until = 0 /\ NotAsking \in AskingStates /\ NotAsking.pc = "idle"
      /\ Default = 0
  BY SettingsConstants DEF NoEntry, CacheEntry, Default, NotAsking, AskingStates
<1>2. /\ instant = 0 /\ setting = 0 /\ inserted = 0 /\ replacedAt \in [Values -> -1 .. LastInstant]
      /\ cache \in [Replicas -> CacheEntry] /\ asking \in [Askers -> AskingStates]
      /\ \A v \in Values : replacedAt[v] = -1
      /\ \A r \in Replicas : cache[r] = NoEntry
      /\ \A c \in Askers : asking[c] = NotAsking
  BY <1>1, SettingsConstants DEF SettingsInit
<1>3. SettingsTypeOK
  BY <1>1, <1>2, SettingsConstants DEF SettingsTypeOK, CacheEntry, AskingStates
<1>4. CacheIsFresh /\ RowIsFound
  BY <1>1, <1>2, SettingsConstants DEF CacheIsFresh, RowIsFound, Current
<1> QED
  BY <1>3, <1>4 DEF SettingsInv

(* The call of c becomes a; the entry of one process may change.             *)
LEMMA AskingMoves ==
  ASSUME SettingsInv, NEW c \in Askers, NEW a \in AskingStates, Asks(c, a), NEW r \in Replicas, NEW e \in CacheEntry,
         cache' = [cache EXCEPT ![r] = e], UNCHANGED <<instant, setting, replacedAt, inserted>>,
         a.pc \in {"read", "store"} => a.now <= instant,
         a.pc = "store" => Fresh(replacedAt, a.value, a.now),
         e.until = 0 \/ Fresh(replacedAt, e.value, e.until - TTL), e.until <= instant + TTL,
         a.pc = "write" /\ a.exists => inserted = 1
  PROVE  SettingsInv'
<1>1. cache \in [Replicas -> CacheEntry] /\ asking \in [Askers -> AskingStates]
  BY SettingsTypes DEF SettingsInv
<1>2. /\ cache' \in [Replicas -> CacheEntry] /\ cache'[r] = e /\ \A q \in Replicas \ {r} : cache'[q] = cache[q]
      /\ asking' \in [Askers -> AskingStates] /\ asking'[c] = a /\ \A d \in Askers \ {c} : asking'[d] = asking[d]
  BY <1>1 DEF Asks
<1>3. SettingsTypeOK'
  BY <1>2 DEF SettingsInv, SettingsTypeOK, CacheEntry, AskingStates
<1>4. CacheIsFresh'
  BY <1>2 DEF SettingsInv, CacheIsFresh, Fresh, Current
<1>5. RowIsFound'
  BY <1>2 DEF SettingsInv, RowIsFound
<1> QED
  BY <1>3, <1>4, <1>5 DEF SettingsInv

LEMMA AskersAct ==
  ASSUME SettingsInv, NEW c \in Askers,
         ReadSetting(c) \/ StoreSetting(c) \/ ForgetSetting(c) \/ \E r \in Replicas : MissCache(c, r) \/ FindSetting(c, r)
  PROVE  SettingsInv'
<1>1. /\ cache \in [Replicas -> CacheEntry] /\ asking[c] \in AskingStates /\ instant \in 0 .. LastInstant
      /\ setting \in Values /\ inserted \in 0 .. 1
  BY SettingsTypes DEF SettingsInv
<1>2. ASSUME NEW r \in Replicas
      PROVE  /\ cache[r] \in CacheEntry /\ (UNCHANGED cache => cache' = [cache EXCEPT ![r] = cache[r]])
             /\ cache[r].until = 0 \/ Fresh(replacedAt, cache[r].value, cache[r].until - TTL)
             /\ cache[r].until <= instant + TTL
  BY <1>1 DEF SettingsInv, CacheIsFresh
<1>3. NotAsking \in AskingStates /\ NotAsking.pc = "idle"
  BY DEF NotAsking, AskingStates
<1>4. UNCHANGED <<instant, setting, replacedAt, inserted>>
  BY DEF ReadSetting, StoreSetting, ForgetSetting, MissCache, FindSetting
<1>5. ASSUME NEW r \in Replicas, MissCache(c, r) PROVE SettingsInv'
  <2>1. PICK a : a = [pc |-> "read", at |-> r, now |-> instant]
    OBVIOUS
  <2>2. a \in AskingStates /\ a.pc = "read" /\ a.now = instant
    BY <1>1, <2>1 DEF AskingStates
  <2>3. Asks(c, a) /\ UNCHANGED cache /\ instant <= instant
    BY <1>1, <1>5, <2>1, SettingsConstants DEF MissCache
  <2> QED
    BY <1>2, <1>4, <2>2, <2>3, AskingMoves
<1>6. ASSUME NEW r \in Replicas, FindSetting(c, r) PROVE SettingsInv'
  <2> DEFINE b == inserted > 0
             a == [pc |-> "write", at |-> r, exists |-> b]
  <2>1. b \in BOOLEAN /\ (b => inserted = 1)
    BY <1>1
  <2> HIDE DEF b
  <2>2. a \in AskingStates /\ a.pc = "write" /\ a.exists = b
    BY <2>1 DEF AskingStates
  <2> HIDE DEF a
  <2>3. Asks(c, a) /\ UNCHANGED cache /\ (a.exists => inserted = 1)
    BY <1>6, <2>1, <2>2 DEF FindSetting, a, b
  <2> QED
    BY <1>2, <1>4, <2>2, <2>3, AskingMoves
<1>7. CASE ReadSetting(c)
  <2>1. asking[c].pc = "read" /\ UNCHANGED cache /\ asking[c].at \in Replicas /\ asking[c].now \in 0 .. LastInstant
    BY <1>1, <1>7, AskingFields DEF ReadSetting
  <2>2. CASE Asks(c, NotAsking)
    BY <1>2, <1>3, <1>4, <2>1, <2>2, AskingMoves
  <2>3. CASE Asks(c, [pc |-> "store", at |-> asking[c].at, now |-> asking[c].now, value |-> setting])
    <3>1. PICK a : a = [pc |-> "store", at |-> asking[c].at, now |-> asking[c].now, value |-> setting]
      OBVIOUS
    <3>2. a \in AskingStates /\ a.pc = "store" /\ a.now = asking[c].now /\ a.value = setting
      BY <1>1, <2>1, <3>1 DEF AskingStates
    <3>3. a.now <= instant /\ Fresh(replacedAt, a.value, a.now)
      BY <1>1, <2>1, <3>2, SettingsConstants DEF SettingsInv, CacheIsFresh, Fresh, Current
    <3> QED
      BY <1>2, <1>4, <2>1, <2>3, <3>1, <3>2, <3>3, AskingMoves
  <2> QED
    BY <1>7, <2>2, <2>3 DEF ReadSetting
<1>8. CASE StoreSetting(c)
  <2>1. asking[c].pc = "store" /\ asking[c].at \in Replicas /\ asking[c].now \in 0 .. LastInstant /\ asking[c].value \in Values
    BY <1>1, <1>8, AskingFields DEF StoreSetting
  <2>2. PICK u : u = asking[c].now + TTL
    OBVIOUS
  <2>3. u \in 0 .. LastInstant + TTL /\ u - TTL = asking[c].now
    BY <2>1, <2>2, SettingsConstants
  <2>4. PICK e : e = [value |-> asking[c].value, until |-> u]
    OBVIOUS
  <2>5. e \in CacheEntry /\ e.value = asking[c].value /\ e.until = u
    BY <2>1, <2>3, <2>4 DEF CacheEntry
  <2>6. cache' = [cache EXCEPT ![asking[c].at] = e] /\ Asks(c, NotAsking)
    BY <1>8, <2>2, <2>4 DEF StoreSetting, Expiry
  <2>7. Fresh(replacedAt, e.value, e.until - TTL) /\ e.until <= instant + TTL
    BY <1>1, <2>1, <2>2, <2>3, <2>5, SettingsConstants DEF SettingsInv, CacheIsFresh
  <2> QED
    BY <1>3, <1>4, <2>1, <2>5, <2>6, <2>7, AskingMoves
<1>9. CASE ForgetSetting(c)
  <2>1. asking[c].at \in Replicas /\ NoEntry \in CacheEntry /\ NoEntry.until = 0 /\ 0 <= instant + TTL
    BY <1>1, <1>9, AskingFields, SettingsConstants DEF ForgetSetting, NoEntry, CacheEntry, Default
  <2>2. cache' = [cache EXCEPT ![asking[c].at] = NoEntry] /\ Asks(c, NotAsking)
    BY <1>9 DEF ForgetSetting
  <2> QED
    BY <1>3, <1>4, <2>1, <2>2, AskingMoves
<1> QED
  BY <1>5, <1>6, <1>7, <1>8, <1>9

LEMMA WriteSettingHolds == ASSUME SettingsInv, NEW c \in Askers, WriteSetting(c) PROVE SettingsInv'
<1>1. /\ cache \in [Replicas -> CacheEntry] /\ asking \in [Askers -> AskingStates] /\ instant \in 0 .. LastInstant
      /\ setting \in Values /\ inserted \in 0 .. 1 /\ replacedAt \in [Values -> -1 .. LastInstant]
      /\ asking[c] \in AskingStates /\ asking[c].pc = "write" /\ setting < Writes /\ UNCHANGED <<instant, cache>>
      /\ (inserted = 0 <=> setting = 0)
  BY SettingsTypes DEF SettingsInv, SettingsTypeOK, WriteSetting, Default
<1>2. PICK a \in AskingStates : Asks(c, a) /\ a.pc \in {"idle", "forget"}
  <2>1. asking[c].at \in Replicas
    BY <1>1, AskingFields
  <2>2. NotAsking \in AskingStates /\ NotAsking.pc = "idle"
    BY DEF NotAsking, AskingStates
  <2>3. PICK p : p = [pc |-> "forget", at |-> asking[c].at]
    OBVIOUS
  <2>4. p \in AskingStates /\ p.pc = "forget"
    BY <2>1, <2>3 DEF AskingStates
  <2>5. Asks(c, NotAsking) \/ Asks(c, p)
    BY <2>3 DEF WriteSetting
  <2> QED
    BY <2>2, <2>4, <2>5
<1>3. asking' \in [Askers -> AskingStates] /\ asking'[c] = a /\ \A d \in Askers \ {c} : asking'[d] = asking[d]
  BY <1>1, <1>2 DEF Asks
<1>4. CASE KeyTaken(c)
  <2>1. UNCHANGED <<setting, replacedAt, inserted, instant, cache>>
    BY <1>1, <1>4 DEF WriteSetting
  <2>2. SettingsTypeOK'
    BY <1>3, <2>1 DEF SettingsInv, SettingsTypeOK, AskingStates
  <2>3. CacheIsFresh' /\ RowIsFound'
    BY <1>2, <1>3, <2>1 DEF SettingsInv, CacheIsFresh, RowIsFound, Fresh, Current
  <2> QED
    BY <2>2, <2>3 DEF SettingsInv
<1>5. CASE ~KeyTaken(c)
  <2>1. /\ setting' = setting + 1 /\ replacedAt' = [replacedAt EXCEPT ![setting] = instant]
        /\ inserted' = IF asking[c].exists THEN inserted ELSE inserted + 1
    BY <1>5 DEF WriteSetting
  <2>2. setting' \in Values /\ setting' # 0 /\ setting \in Nat
    BY <1>1, <2>1, SettingsConstants
  <2>3. inserted' = 1
    BY <1>1, <1>5, <2>1 DEF KeyTaken, SettingsInv, RowIsFound
  <2>4. /\ replacedAt' \in [Values -> -1 .. LastInstant] /\ replacedAt'[setting] = instant
        /\ \A v \in Values \ {setting} : replacedAt'[v] = replacedAt[v]
    BY <1>1, <2>1, SettingsConstants
  <2>5. SettingsTypeOK'
    BY <1>1, <1>3, <2>2, <2>3, <2>4 DEF SettingsInv, SettingsTypeOK, AskingStates, Default
  <2>6. replacedAt[setting] = -1
    BY <1>1, <2>2 DEF SettingsInv, CacheIsFresh, Current
  <2>7. ASSUME NEW v \in Values, NEW n \in Int, n <= instant, Fresh(replacedAt, v, n) PROVE Fresh(replacedAt', v, n)
    BY <1>1, <2>4, <2>7, SettingsConstants DEF Fresh, Current
  <2>8. CacheIsFresh'
    <3>1. \A v \in Values : v >= setting' => Current(v)'
      BY <1>1, <2>1, <2>2, <2>4, SettingsConstants DEF SettingsInv, CacheIsFresh, Current
    <3>2. ASSUME NEW v \in Values PROVE replacedAt'[v] <= instant
      <4>1. replacedAt[v] <= instant
        BY DEF SettingsInv, CacheIsFresh
      <4> QED
        BY <1>1, <2>4, <4>1, SettingsConstants
    <3>3. ASSUME NEW d \in Askers, asking'[d].pc \in {"read", "store"}
          PROVE  /\ asking'[d].now <= instant
                 /\ asking'[d].pc = "store" => Fresh(replacedAt', asking[d].value, asking[d].now)
      <4>1. asking'[d] = asking[d] /\ asking[d] \in AskingStates
        BY <1>1, <1>2, <1>3, <3>3
      <4>2. asking[d].now <= instant /\ asking[d].now \in Int
        BY <3>3, <4>1, AskingFields, SettingsConstants DEF SettingsInv, CacheIsFresh
      <4>3. ASSUME asking[d].pc = "store" PROVE asking[d].value \in Values /\ Fresh(replacedAt, asking[d].value, asking[d].now)
        BY <4>1, <4>3, AskingFields DEF SettingsInv, CacheIsFresh
      <4> QED
        BY <2>7, <4>1, <4>2, <4>3 DEF Fresh, Current
    <3>4. ASSUME NEW r \in Replicas, cache[r].until # 0 PROVE Fresh(replacedAt', cache[r].value, cache[r].until - TTL)
      <4>1. PICK v \in Values, n \in Int : v = cache[r].value /\ n = cache[r].until - TTL
        BY <1>1, SettingsConstants DEF CacheEntry
      <4>2. Fresh(replacedAt, v, n)
        BY <3>4, <4>1 DEF SettingsInv, CacheIsFresh
      <4>3. cache[r].until <= instant + TTL /\ cache[r].until \in Nat
        BY <1>1, SettingsConstants DEF SettingsInv, CacheIsFresh, CacheEntry
      <4>4. n <= instant
        BY <1>1, <4>1, <4>3, SettingsConstants
      <4> QED
        BY <2>7, <4>1, <4>2, <4>4
    <3>5. ASSUME NEW d \in Askers, asking'[d].pc = "store" PROVE Fresh(replacedAt', asking'[d].value, asking'[d].now)
      <4>1. asking'[d] = asking[d]
        BY <1>2, <1>3, <3>5
      <4> QED
        BY <3>3, <3>5, <4>1
    <3>6. \A r \in Replicas : cache'[r].until = 0 \/ Fresh(replacedAt', cache'[r].value, cache'[r].until - TTL)
      BY <1>1, <3>4
    <3>7. \A r \in Replicas : cache'[r].until <= instant' + TTL
      BY <1>1 DEF SettingsInv, CacheIsFresh
    <3> QED
      BY <1>1, <3>1, <3>2, <3>3, <3>5, <3>6, <3>7 DEF CacheIsFresh
  <2>9. RowIsFound'
    BY <2>3 DEF RowIsFound
  <2> QED
    BY <2>5, <2>8, <2>9 DEF SettingsInv
<1> QED
  BY <1>4, <1>5

LEMMA SettingsStepHolds == SettingsInv /\ [SettingsNext]_settingsVars => SettingsInv'
<1>1. ASSUME SettingsInv, UNCHANGED settingsVars PROVE SettingsInv'
  BY <1>1 DEF settingsVars, SettingsInv, SettingsTypeOK, CacheIsFresh, RowIsFound, Fresh, Current
<1>2. ASSUME SettingsInv, NextInstant PROVE SettingsInv'
  <2>1. UNCHANGED <<setting, replacedAt, cache, asking, inserted>> /\ instant' = instant + 1 /\ instant < LastInstant
    BY <1>2 DEF NextInstant
  <2>2. instant' \in 0 .. LastInstant /\ instant \in Int
    BY <1>2, <2>1, SettingsTypes, SettingsConstants DEF SettingsInv
  <2>3. SettingsTypeOK'
    BY <1>2, <2>1, <2>2 DEF SettingsInv, SettingsTypeOK
  <2>4. \A v \in Values : replacedAt[v] <= instant'
    BY <1>2, <2>1, <2>2, SettingsTypes, SettingsConstants DEF SettingsInv, CacheIsFresh
  <2>5. ASSUME NEW c \in Askers, asking[c].pc \in {"read", "store"} PROVE asking[c].now <= instant'
    <3>1. asking[c].now \in 0 .. LastInstant /\ asking[c].now <= instant
      BY <1>2, <2>5, SettingsTypes, AskingFields DEF SettingsInv, CacheIsFresh
    <3> QED
      BY <2>1, <2>2, <3>1, SettingsConstants
  <2>6. \A r \in Replicas : cache[r].until <= instant' + TTL
    <3>1. \A r \in Replicas : cache[r].until \in Int /\ cache[r].until <= instant + TTL
      BY <1>2, SettingsTypes, SettingsConstants DEF SettingsInv, CacheIsFresh, CacheEntry
    <3> QED
      BY <2>1, <2>2, <3>1, SettingsConstants
  <2>7. CacheIsFresh' /\ RowIsFound'
    BY <1>2, <2>1, <2>4, <2>5, <2>6 DEF SettingsInv, CacheIsFresh, RowIsFound, Fresh, Current
  <2> QED
    BY <2>3, <2>7 DEF SettingsInv
<1> QED
  BY <1>1, <1>2, AskersAct, WriteSettingHolds DEF SettingsNext

LEMMA SettingsHolds == SettingsInv => SettingsTypeOK /\ ChangeInForceAfterTTL
<1> SUFFICES ASSUME SettingsInv PROVE ChangeInForceAfterTTL
  BY DEF SettingsInv
<1>1. ASSUME NEW r \in Replicas, instant < cache[r].until, ~Current(cache[r].value)
      PROVE  instant < replacedAt[cache[r].value] + TTL
  <2>1. PICK v \in Values, u \in 0 .. LastInstant + TTL : v = cache[r].value /\ u = cache[r].until
    BY SettingsTypes DEF SettingsInv, CacheEntry
  <2>2. instant \in 0 .. LastInstant /\ replacedAt[v] \in -1 .. LastInstant
    BY SettingsTypes DEF SettingsInv
  <2>3. u # 0
    BY <1>1, <2>1, <2>2, SettingsConstants
  <2>4. replacedAt[v] >= u - TTL
    BY <1>1, <2>1, <2>3 DEF SettingsInv, CacheIsFresh, Fresh, Current
  <2> QED
    BY <1>1, <2>1, <2>2, <2>4, SettingsConstants
<1> QED
  BY <1>1 DEF ChangeInForceAfterTTL

-----------------------------------------------------------------------------
(* The calendar of the deadlines.                                            *)

LEMMA Division ==
  ASSUME NEW d \in Nat \ {0}, NEW u \in Nat
  PROVE  u \div d \in Nat /\ u % d \in 0 .. d - 1 /\ u = d * (u \div d) + (u % d)
OBVIOUS

LEMMA MoreTimes ==
  ASSUME NEW a \in Nat, NEW b \in Nat, NEW d \in Nat, a <= b
  PROVE  d * a <= d * b
OBVIOUS

LEMMA Distributes ==
  ASSUME NEW a \in Int, NEW b \in Int, NEW d \in Int
  PROVE  d * (a + b) = d * a + d * b
OBVIOUS

LEMMA DivisionIsUnique ==
  ASSUME NEW d \in Nat \ {0}, NEW p \in Nat, NEW r \in 0 .. d - 1
  PROVE  (d * p + r) \div d = p /\ (d * p + r) % d = r
<1>1. PICK u \in Nat : u = d * p + r
  OBVIOUS
<1>2. PICK o \in Nat : o = u \div d
  BY <1>1, Division
<1>3. u % d \in 0 .. d - 1 /\ u = d * o + (u % d)
  BY <1>1, <1>2, Division
<1>4. ~(o < p)
  <2> SUFFICES ASSUME o + 1 <= p PROVE FALSE
    OBVIOUS
  <2>1. d * (o + 1) <= d * p /\ d * (o + 1) = d * o + d * 1
    BY <1>2, MoreTimes, Distributes
  <2>2. d * 1 = d /\ d * p \in Nat /\ d * o \in Nat
    BY <1>2
  <2> QED
    BY <1>1, <1>3, <2>1, <2>2
<1>5. ~(p < o)
  <2> SUFFICES ASSUME p + 1 <= o PROVE FALSE
    BY <1>2
  <2>1. d * (p + 1) <= d * o /\ d * (p + 1) = d * p + d * 1
    BY <1>2, MoreTimes, Distributes
  <2>2. d * 1 = d /\ d * p \in Nat /\ d * o \in Nat
    BY <1>2
  <2> QED
    BY <1>1, <1>3, <2>1, <2>2
<1>6. o = p
  BY <1>2, <1>4, <1>5
<1> QED
  BY <1>1, <1>2, <1>3, <1>6

DayStart(u) == DayOf(u) * DayLength
OpenHour(u) == OpenDay(u) /\ Hour(u) \in opens .. closes - 1

(* The two facts about units and days on which the rest stands.              *)
LEMMA UnitOfDay ==
  ASSUME NEW u \in Nat
  PROVE  DayOf(u) \in Nat /\ DayStart(u) \in Nat /\ Hour(u) \in 0 .. DayLength - 1 /\ u = DayStart(u) + Hour(u)
<1>1. DayLength \in Nat \ {0}
  BY CalendarAssumption
<1>2. u \div DayLength \in Nat /\ u % DayLength \in 0 .. DayLength - 1 /\ u = DayLength * (u \div DayLength) + (u % DayLength)
  BY <1>1, Division
<1>3. (u \div DayLength) * DayLength = DayLength * (u \div DayLength) /\ DayLength * (u \div DayLength) \in Nat
  BY <1>1, <1>2
<1> QED
  BY <1>2, <1>3 DEF DayOf, DayStart, Hour

LEMMA DayOfUnit ==
  ASSUME NEW p \in Nat, NEW r \in 0 .. DayLength - 1
  PROVE  DayOf(p * DayLength + r) = p /\ Hour(p * DayLength + r) = r
<1>1. DayLength \in Nat \ {0} /\ p * DayLength = DayLength * p
  BY CalendarAssumption
<1> QED
  BY <1>1, DivisionIsUnique DEF DayOf, Hour

LEMMA SameDayUnits ==
  ASSUME NEW u \in Nat, NEW x \in Int, DayStart(u) <= x, x < DayStart(u) + DayLength
  PROVE  DayOf(x) = DayOf(u) /\ Hour(x) = x - DayStart(u) /\ (OpenDay(x) <=> OpenDay(u))
<1>1. DayOf(u) \in Nat /\ DayStart(u) \in Nat /\ DayStart(u) = DayOf(u) * DayLength /\ DayLength \in Nat \ {0}
  BY UnitOfDay, CalendarAssumption DEF DayStart
<1>2. PICK r \in 0 .. DayLength - 1 : r = x - DayStart(u)
  BY <1>1
<1>3. x = DayOf(u) * DayLength + r
  BY <1>1, <1>2
<1>4. DayOf(x) = DayOf(u) /\ Hour(x) = r
  BY <1>1, <1>3, DayOfUnit
<1> QED
  BY <1>2, <1>4 DEF OpenDay

LEMMA NextDawn ==
  ASSUME NEW u \in Nat, opens \in 0 .. DayLength - 1
  PROVE  /\ NextOpening(u) \in Nat /\ NextOpening(u) = DayStart(u) + DayLength + opens /\ NextOpening(u) > u
         /\ DayOf(NextOpening(u)) = DayOf(u) + 1 /\ Hour(NextOpening(u)) = opens
<1>1. DayOf(u) \in Nat /\ DayStart(u) \in Nat /\ Hour(u) \in 0 .. DayLength - 1 /\ u = DayStart(u) + Hour(u) /\ DayLength \in Nat \ {0}
  BY UnitOfDay, CalendarAssumption
<1>2. PICK p \in Nat : p = DayOf(u) + 1
  BY <1>1
<1>3. p * DayLength = DayStart(u) + DayLength
  BY <1>1, <1>2, Distributes DEF DayStart
<1>4. NextOpening(u) = p * DayLength + opens
  BY <1>2 DEF NextOpening
<1>5. DayOf(p * DayLength + opens) = p /\ Hour(p * DayLength + opens) = opens
  BY DayOfUnit
<1> QED
  BY <1>1, <1>2, <1>3, <1>4, <1>5

(* A week from any day on has an open one.                                   *)
LEMMA WeekHasOpenDay ==
  ASSUME NEW p \in Nat, openDays \in (SUBSET (0 .. WeekLength - 1)) \ {{}}
  PROVE  \E e \in p .. p + WeekLength - 1 : e % WeekLength \in openDays
<1>1. WeekLength \in Nat \ {0}
  BY CalendarAssumption
<1>2. PICK o : o \in openDays
  <2>1. openDays # {}
    OBVIOUS
  <2> QED
    BY <2>1, Zenon
<1>3. o \in 0 .. WeekLength - 1
  BY <1>2
<1>4. PICK q \in Nat : q = p \div WeekLength
  BY <1>1, Division
<1>5. PICK r \in 0 .. WeekLength - 1 : p = WeekLength * q + r
  BY <1>1, <1>4, Division
<1>6. WeekLength * q \in Nat
  BY <1>1
<1>7. CASE r <= o
  <2>1. PICK e \in Nat : e = WeekLength * q + o
    BY <1>3, <1>6
  <2>2. e % WeekLength = o
    BY <1>1, <1>3, <2>1, DivisionIsUnique
  <2>3. e \in p .. p + WeekLength - 1
    BY <1>1, <1>3, <1>5, <1>6, <1>7, <2>1
  <2> QED
    BY <1>2, <2>2, <2>3
<1>8. CASE o < r
  <2>1. PICK e \in Nat : e = WeekLength * (q + 1) + o
    BY <1>1, <1>3
  <2>2. e % WeekLength = o
    BY <1>1, <1>3, <2>1, DivisionIsUnique
  <2>3. WeekLength * (q + 1) = WeekLength * q + WeekLength
    BY <1>1, Distributes
  <2>4. e \in p .. p + WeekLength - 1
    BY <1>1, <1>3, <1>5, <1>6, <1>8, <2>1, <2>3
  <2> QED
    BY <1>2, <2>2, <2>4
<1> QED
  BY <1>3, <1>5, <1>7, <1>8

(* The open time adds up.                                                    *)
LEMMA OpenTimeAddsUp ==
  ASSUME NEW a \in Nat, NEW b \in Nat, NEW c \in Nat, a <= b, b <= c
  PROVE  /\ Cardinality(OpenUnits(a, c)) = Cardinality(OpenUnits(a, b)) + Cardinality(OpenUnits(b, c))
         /\ Cardinality(OpenUnits(a, b)) \in Nat /\ IsFiniteSet(OpenUnits(b, c))
<1>1. IsFiniteSet(a .. b - 1) /\ IsFiniteSet(b .. c - 1)
  BY FS_Interval
<1>2. IsFiniteSet(OpenUnits(a, b)) /\ IsFiniteSet(OpenUnits(b, c))
  BY <1>1, FS_Subset DEF OpenUnits
<1>3. OpenUnits(a, c) = OpenUnits(a, b) \cup OpenUnits(b, c) /\ OpenUnits(a, b) \cap OpenUnits(b, c) = {}
  BY DEF OpenUnits
<1>4. Cardinality(OpenUnits(a, c)) = Cardinality(OpenUnits(a, b)) + Cardinality(OpenUnits(b, c)) - Cardinality({})
  <2>1. PICK A, B : A = OpenUnits(a, b) /\ B = OpenUnits(b, c)
    OBVIOUS
  <2>2. Cardinality(A \cup B) = Cardinality(A) + Cardinality(B) - Cardinality(A \cap B)
    BY <1>2, <2>1, FS_Union
  <2> QED
    BY <1>3, <2>1, <2>2
<1>5. Cardinality(OpenUnits(a, b)) \in Nat /\ Cardinality(OpenUnits(b, c)) \in Nat /\ Cardinality({}) = 0
  BY <1>2, FS_CardinalityType, FS_EmptySet
<1> QED
  BY <1>2, <1>3, <1>4, <1>5

-----------------------------------------------------------------------------

CalendarVarsOK ==
  /\ openDays \in (SUBSET (0 .. WeekLength - 1)) \ {{}}
  /\ opens \in 0 .. DayLength - 1 /\ closes \in opens + 1 .. DayLength
  /\ from \in 0 .. DayLength * WeekLength - 1 /\ asked \in 0 .. LongestTarget
  /\ turn \in {"adjust", "consume", "due"} /\ remaining \in 0 .. asked
  /\ current \in Nat /\ from <= current

(* The loop consumes in open hours only; it adjusts a moment it never        *)
(* touched, or an opening.                                                   *)
AtWork == turn = "consume" => OpenHour(current)
AtOpening == turn = "adjust" => Hour(current) = opens \/ (current = from /\ remaining = asked)
(* Until the end there is work left, if there was any.                       *)
WorkLeft == turn # "due" /\ asked > 0 => remaining > 0

(* The last day that the loop can have to walk to: a week away, or as many   *)
(* weeks more as it consumed units, for every day that it works takes one.   *)
LastDay == DayOf(from) + WeekLength * (asked - remaining + 1)
(* An open day is ahead, up to the last one; without work, it is the last one*)
(* only for a ticket that came after hours.                                  *)
OpenDayAhead(e) ==
  /\ e \in Nat /\ e % WeekLength \in openDays /\ DayOf(current) <= e /\ e <= LastDay
  /\ asked = 0 /\ e = LastDay => Hour(from) >= closes
InReach == turn # "due" => \E e : OpenDayAhead(e)
InBounds == current <= from + DayLength * WeekLength * (asked + 1)

CalendarInv ==
  CalendarVarsOK /\ AtWork /\ AtOpening /\ WorkLeft /\ InReach /\ InBounds /\ WorkIsConserved /\ DueInOpenHours

LEMMA CalendarInitHolds == CalendarInit => CalendarInv
<1> SUFFICES ASSUME CalendarInit PROVE CalendarInv
  OBVIOUS
<1>1. DayLength \in Nat \ {0} /\ WeekLength \in Nat \ {0} /\ DayLength * WeekLength \in Nat
  BY CalendarAssumption
<1>2. CalendarVarsOK /\ current = from /\ remaining = asked /\ turn = "adjust"
  BY <1>1 DEF CalendarInit, CalendarVarsOK
<1>3. from \in Nat /\ asked \in Nat /\ DayOf(from) \in Nat
  BY <1>1, <1>2, UnitOfDay DEF CalendarVarsOK
<1>4. AtWork /\ AtOpening /\ WorkLeft /\ DueInOpenHours
  BY <1>2, <1>3 DEF AtWork, AtOpening, WorkLeft, DueInOpenHours
<1>5. InReach
  <2>1. PICK e \in DayOf(from) .. DayOf(from) + WeekLength - 1 : e % WeekLength \in openDays
    BY <1>2, <1>3, WeekHasOpenDay DEF CalendarVarsOK
  <2>2. LastDay = DayOf(from) + WeekLength
    BY <1>1, <1>2, <1>3 DEF LastDay
  <2>3. OpenDayAhead(e)
    BY <1>1, <1>2, <1>3, <2>1, <2>2 DEF OpenDayAhead
  <2> QED
    BY <2>3 DEF InReach
<1>6. InBounds
  <2>1. DayLength * WeekLength * (asked + 1) \in Nat
    BY <1>1, <1>3
  <2> QED
    BY <1>2, <1>3, <2>1 DEF InBounds
<1>7. WorkIsConserved
  <2>1. OpenUnits(from, current) = {}
    BY <1>2, <1>3 DEF OpenUnits
  <2> QED
    BY <1>2, <1>3, <2>1, FS_EmptySet DEF WorkIsConserved
<1> QED
  BY <1>2, <1>4, <1>5, <1>6, <1>7 DEF CalendarInv

(* The days ahead stay within the bound.                                     *)
WalksTo(start, total, rest, reached, close, e) ==
  /\ start \in Nat /\ total \in Nat /\ rest \in 0 .. total /\ reached \in Nat /\ close \in 0 .. DayLength /\ e \in Nat
  /\ Hour(reached) < close \/ reached = start
  /\ total > 0 => rest > 0
  /\ DayOf(reached) <= e /\ e <= DayOf(start) + WeekLength * (total - rest + 1)
  /\ total = 0 /\ e = DayOf(start) + WeekLength * (total - rest + 1) => Hour(start) >= close

LEMMA ReachIsBounded ==
  ASSUME NEW start, NEW total, NEW rest, NEW reached, NEW close, NEW e, WalksTo(start, total, rest, reached, close, e)
  PROVE  /\ total > 0 => DayStart(reached) + DayLength <= start + DayLength * WeekLength * (total + 1)
         /\ reached <= start + DayLength * WeekLength * (total + 1)
<1>1. /\ DayLength \in Nat \ {0} /\ WeekLength \in Nat \ {0} /\ DayLength * WeekLength \in Nat
      /\ start \in Nat /\ total \in Nat /\ rest \in 0 .. total /\ reached \in Nat /\ close \in 0 .. DayLength /\ e \in Nat
      /\ (Hour(reached) < close \/ reached = start) /\ (total > 0 => rest > 0)
  BY CalendarAssumption DEF WalksTo
<1>2. PICK f \in Nat : f = DayOf(start)
  BY <1>1, UnitOfDay
<1>3. PICK g \in Nat : g = DayOf(reached)
  BY <1>1, UnitOfDay
<1>4. /\ DayStart(start) = DayLength * f /\ start = DayLength * f + Hour(start) /\ Hour(start) \in 0 .. DayLength - 1
      /\ DayStart(reached) = DayLength * g /\ reached = DayLength * g + Hour(reached) /\ Hour(reached) \in 0 .. DayLength - 1
  <2>1. /\ DayStart(start) = f * DayLength /\ start = DayStart(start) + Hour(start) /\ Hour(start) \in 0 .. DayLength - 1
        /\ DayStart(reached) = g * DayLength /\ reached = DayStart(reached) + Hour(reached) /\ Hour(reached) \in 0 .. DayLength - 1
    BY <1>1, <1>2, <1>3, UnitOfDay DEF DayStart
  <2>2. f * DayLength = DayLength * f /\ g * DayLength = DayLength * g
    BY <1>1
  <2> QED
    BY <2>1, <2>2
<1>5. PICK far \in Nat : far = WeekLength * (total + 1)
  BY <1>1
<1>6. DayLength * WeekLength * (total + 1) = DayLength * far
  BY <1>1, <1>5
<1>7. DayLength * (f + far) = DayLength * f + DayLength * far /\ DayLength * f \in Nat /\ DayLength * far \in Nat /\ DayLength * g \in Nat
  BY <1>1, <1>2, <1>5, Distributes
<1>8. /\ g <= e /\ e <= DayOf(start) + WeekLength * (total - rest + 1) /\ e \in Nat
      /\ total = 0 /\ e = DayOf(start) + WeekLength * (total - rest + 1) => Hour(start) >= close
  BY <1>3 DEF WalksTo
<1>9. ASSUME total > 0 PROVE DayLength * g + DayLength <= start + DayLength * far
  <2>1. total - rest + 1 \in Nat /\ total - rest + 1 <= total
    BY <1>1, <1>9
  <2>2. PICK w \in Nat : w = total - rest + 1
    BY <2>1
  <2>3. WeekLength * w <= WeekLength * total /\ WeekLength * (total + 1) = WeekLength * total + WeekLength * 1
    BY <1>1, <2>1, <2>2, MoreTimes, Distributes
  <2>4. WeekLength * w \in Nat /\ WeekLength * total \in Nat /\ WeekLength * 1 = WeekLength
    BY <1>1
  <2>5. WeekLength * (total - rest + 1) = WeekLength * w
    BY <1>2, <2>2
  <2>6. g + 1 <= f + far
    BY <1>1, <1>2, <1>3, <1>5, <1>8, <2>3, <2>4, <2>5
  <2>7. DayLength * (g + 1) <= DayLength * (f + far) /\ DayLength * (g + 1) = DayLength * g + DayLength * 1
    BY <1>1, <2>6, MoreTimes, Distributes
  <2> QED
    BY <1>1, <1>4, <1>7, <2>7
<1>10. ASSUME total = 0 PROVE reached <= start + DayLength * WeekLength * (total + 1)
  <2>1. rest = 0 /\ far = WeekLength /\ DayOf(start) + WeekLength * (total - rest + 1) = f + WeekLength
    BY <1>1, <1>2, <1>5, <1>10
  <2>2. CASE reached = start
    BY <1>1, <1>6, <1>7, <2>2
  <2>3. CASE Hour(reached) < close /\ g = f + far
    <3>1. Hour(start) >= close
      BY <1>8, <1>10, <2>1, <2>3 
    <3>2. DayLength * g = DayLength * f + DayLength * far
      BY <1>7, <2>3
    <3>3. reached <= start + DayLength * far
      BY <1>1, <1>4, <1>7, <2>3, <3>1, <3>2
    <3> QED
      BY <1>6, <3>3
  <2>4. CASE g < f + far
    <3>1. DayLength * (g + 1) <= DayLength * (f + far) /\ DayLength * (g + 1) = DayLength * g + DayLength * 1
      BY <1>1, <2>4, MoreTimes, Distributes
    <3>2. reached <= start + DayLength * far
      BY <1>1, <1>4, <1>7, <3>1
    <3> QED
      BY <1>6, <3>2
  <2> QED
    BY <1>1, <1>3, <1>5, <1>8, <2>1, <2>2, <2>3, <2>4
<1>11. ASSUME total > 0 PROVE reached <= start + DayLength * WeekLength * (total + 1)
  <2>1. reached <= start + DayLength * far
    BY <1>1, <1>4, <1>7, <1>9, <1>11
  <2> QED
    BY <1>6, <2>1
<1> QED
  BY <1>1, <1>4, <1>6, <1>9, <1>10, <1>11

-----------------------------------------------------------------------------

(* A step from the moment current to the moment c that consumes the open time*)
(* between them.                                                             *)
LEMMA TimeConsumed ==
  ASSUME CalendarVarsOK, WorkIsConserved, UNCHANGED inputVars, NEW c \in Nat, current' = c, current <= c,
         remaining' \in 0 .. asked, remaining' + Cardinality(OpenUnits(current, c)) = remaining
  PROVE  WorkIsConserved' /\ OpenUnits(from, current)' = OpenUnits(from, c)
<1>1. from \in Nat /\ asked \in Nat /\ remaining \in 0 .. asked /\ current \in Nat /\ from <= current
  BY DEF CalendarVarsOK
<1>2. Cardinality(OpenUnits(from, c)) = Cardinality(OpenUnits(from, current)) + Cardinality(OpenUnits(current, c))
      /\ Cardinality(OpenUnits(from, current)) \in Nat /\ IsFiniteSet(OpenUnits(current, c))
  <2>1. PICK a \in Nat : a = from
    BY <1>1
  <2>2. PICK b \in Nat : b = current
    BY <1>1
  <2>3. a <= b /\ b <= c
    BY <1>1, <2>1, <2>2
  <2>4. /\ Cardinality(OpenUnits(a, c)) = Cardinality(OpenUnits(a, b)) + Cardinality(OpenUnits(b, c))
        /\ Cardinality(OpenUnits(a, b)) \in Nat /\ IsFiniteSet(OpenUnits(b, c))
    BY <2>3, OpenTimeAddsUp
  <2> QED
    BY <2>1, <2>2, <2>4
<1>3. Cardinality(OpenUnits(current, c)) \in Nat
  BY <1>2, FS_CardinalityType
<1>4. Cardinality(OpenUnits(from, c)) + remaining' = asked
  BY <1>1, <1>2, <1>3 DEF WorkIsConserved
<1>5. OpenUnits(from, current)' = OpenUnits(from, c)
  BY DEF inputVars, OpenUnits, OpenDay, DayOf, Hour
<1>6. asked' = asked
  BY DEF inputVars
<1> QED
  BY <1>4, <1>5, <1>6 DEF WorkIsConserved

LEMMA NothingConsumed ==
  ASSUME CalendarVarsOK, WorkIsConserved, UNCHANGED inputVars, NEW c \in Nat, current' = c, current <= c,
         remaining' = remaining, \A x \in current .. c - 1 : ~OpenHour(x)
  PROVE  WorkIsConserved'
<1>1. OpenUnits(current, c) = {}
  BY DEF OpenUnits, OpenHour
<1>2. Cardinality(OpenUnits(current, c)) = 0 /\ remaining \in Int /\ remaining \in 0 .. asked
  BY <1>1, FS_EmptySet DEF CalendarVarsOK
<1> QED
  BY <1>2, TimeConsumed

(* What the hours and days of a moment say after a step that leaves the      *)
(* calendar.                                                                 *)
LEMMA CalendarStays ==
  ASSUME UNCHANGED inputVars, NEW c, current' = c
  PROVE  /\ OpenHour(current)' <=> OpenHour(c)
         /\ Hour(current)' = Hour(c) /\ DayOf(current)' = DayOf(c)
         /\ Hour(from)' = Hour(from) /\ DayOf(from)' = DayOf(from)
         /\ opens' = opens /\ closes' = closes /\ openDays' = openDays /\ from' = from /\ asked' = asked
BY DEF inputVars, OpenHour, OpenDay, Hour, DayOf

(* A jump to the next opening.                                               *)
LEMMA NothingTillDawn ==
  ASSUME CalendarVarsOK, ~OpenDay(current) \/ AfterHours(current)
  PROVE  \A x \in current .. NextOpening(current) - 1 : ~OpenHour(x)
<1> SUFFICES ASSUME NEW x \in current .. NextOpening(current) - 1 PROVE ~OpenHour(x)
  OBVIOUS
<1>1. current \in Nat /\ opens \in 0 .. DayLength - 1 /\ closes \in 0 .. DayLength /\ DayLength \in Nat \ {0}
  BY CalendarAssumption DEF CalendarVarsOK
<1>2. /\ NextOpening(current) = DayStart(current) + DayLength + opens
      /\ DayOf(current) \in Nat /\ DayStart(current) \in Nat /\ Hour(current) \in 0 .. DayLength - 1 /\ current = DayStart(current) + Hour(current)
  BY <1>1, NextDawn, UnitOfDay
<1>3. CASE x < DayStart(current) + DayLength
  <2>1. x \in Int /\ DayStart(current) <= x
    BY <1>1, <1>2
  <2>2. Hour(x) = x - DayStart(current) /\ (OpenDay(x) <=> OpenDay(current))
    BY <1>1, <1>3, <2>1, SameDayUnits
  <2>3. Hour(x) >= Hour(current)
    BY <1>1, <1>2, <2>2
  <2> QED
    BY <1>1, <1>2, <2>2, <2>3 DEF OpenHour, AfterHours
<1>4. CASE x >= DayStart(current) + DayLength
  <2>1. PICK p \in Nat : p = DayOf(current) + 1
    BY <1>2
  <2>2. p * DayLength = DayStart(current) + DayLength
    BY <1>1, <1>2, <2>1, Distributes DEF DayStart
  <2>3. PICK r \in 0 .. DayLength - 1 : x = p * DayLength + r /\ r < opens
    <3>1. x - p * DayLength \in 0 .. DayLength - 1 /\ x - p * DayLength < opens /\ p * DayLength \in Nat
      BY <1>1, <1>2, <1>4, <2>2
    <3>2. x = p * DayLength + (x - p * DayLength)
      BY <3>1
    <3> QED
      BY <3>1, <3>2
  <2>4. Hour(x) = r
    BY <2>3, DayOfUnit
  <2> QED
    BY <1>1, <2>3, <2>4 DEF OpenHour
<1> QED
  BY <1>1, <1>2, <1>3, <1>4

-----------------------------------------------------------------------------

LEMMA AdjustHolds ==
  ASSUME CalendarInv, Adjust
  PROVE  CalendarInv'
<1>1. /\ CalendarVarsOK /\ AtOpening /\ WorkLeft /\ InReach /\ InBounds /\ WorkIsConserved
      /\ turn = "adjust" /\ UNCHANGED inputVars /\ remaining' = remaining
  BY DEF CalendarInv, Adjust
<1>2. /\ opens \in 0 .. DayLength - 1 /\ closes \in opens + 1 .. DayLength /\ current \in Nat /\ from \in Nat /\ from <= current
      /\ asked \in Nat /\ remaining \in 0 .. asked /\ DayLength \in Nat \ {0} /\ WeekLength \in Nat \ {0}
  BY <1>1, CalendarAssumption DEF CalendarVarsOK
<1>3. /\ DayOf(current) \in Nat /\ DayStart(current) \in Nat /\ Hour(current) \in 0 .. DayLength - 1
      /\ current = DayStart(current) + Hour(current) /\ DayOf(from) \in Nat
  BY <1>2, UnitOfDay
<1>4. PICK e : OpenDayAhead(e)
  BY <1>1 DEF InReach
<1>5. e \in Nat /\ e % WeekLength \in openDays /\ DayOf(current) <= e /\ e <= LastDay /\ (asked = 0 /\ e = LastDay => Hour(from) >= closes)
  BY <1>4 DEF OpenDayAhead
<1>6. LastDay' = LastDay
  BY <1>1 DEF LastDay, DayOf, inputVars
<1>7. CASE ~OpenDay(current) \/ AfterHours(current)
  <2>1. PICK c \in Nat : c = NextOpening(current)
    BY <1>2, NextDawn
  <2>2. current' = c /\ turn' = "adjust"
    BY <1>1, <1>7, <2>1 DEF Adjust
  <2>3. current < c /\ DayOf(c) = DayOf(current) + 1 /\ Hour(c) = opens
    BY <1>2, <2>1, NextDawn
  <2>4. CalendarVarsOK'
    BY <1>1, <1>2, <2>2, <2>3 DEF CalendarVarsOK, inputVars
  <2>5. WorkIsConserved'
    <3>1. \A x \in current .. c - 1 : ~OpenHour(x)
      BY <1>1, <1>7, <2>1, NothingTillDawn
    <3> QED
      BY <1>1, <1>2, <2>2, <2>3, <3>1, NothingConsumed
  <2>6. /\ Hour(current)' = opens /\ DayOf(current)' = DayOf(current) + 1 /\ opens' = opens /\ closes' = closes
        /\ Hour(from)' = Hour(from) /\ from' = from /\ asked' = asked /\ openDays' = openDays
    BY <1>1, <2>2, <2>3, CalendarStays
  <2>7. AtWork' /\ AtOpening' /\ WorkLeft' /\ DueInOpenHours'
    BY <1>1, <1>2, <2>2, <2>6 DEF AtWork, AtOpening, WorkLeft, DueInOpenHours
  <2>8. PICK d \in Nat : d % WeekLength \in openDays /\ DayOf(current) + 1 <= d /\ d <= LastDay /\ (asked = 0 /\ d = LastDay => Hour(from) >= closes)
    <3>1. CASE ~OpenDay(current)
      <4>1. DayOf(current) # e
        BY <1>5, <3>1 DEF OpenDay
      <4> QED
        BY <1>3, <1>5, <4>1
    <3>2. CASE OpenDay(current)
      <4>1. Hour(current) >= closes
        BY <1>7, <3>2 DEF AfterHours
      <4>2. current = from /\ remaining = asked
        BY <1>1, <1>2, <1>3, <4>1 DEF AtOpening
      <4>3. PICK p \in Nat : p = DayOf(from) + 1
        BY <1>3
      <4>4. PICK d \in p .. p + WeekLength - 1 : d % WeekLength \in openDays
        BY <1>1, WeekHasOpenDay DEF CalendarVarsOK
      <4>5. LastDay = DayOf(from) + WeekLength
        BY <1>2, <1>3, <4>2 DEF LastDay
      <4>6. d \in Nat /\ DayOf(current) + 1 <= d /\ d <= LastDay /\ Hour(from) >= closes
        BY <1>2, <1>3, <4>1, <4>2, <4>3, <4>4, <4>5
      <4> QED
        BY <4>4, <4>6
    <3> QED
      BY <3>1, <3>2
  <2>9. OpenDayAhead(d)'
    BY <1>6, <2>6, <2>8 DEF OpenDayAhead
  <2>10. InReach'
    BY <2>9 DEF InReach
  <2>11. InBounds'
    <3>1. WalksTo(from, asked, remaining, c, closes, d)
      BY <1>1, <1>2, <2>1, <2>3, <2>8 DEF WalksTo, LastDay, WorkLeft
    <3>2. c <= from + DayLength * WeekLength * (asked + 1)
      BY <3>1, ReachIsBounded
    <3> QED
      BY <2>2, <2>6, <3>2 DEF InBounds
  <2> QED
    BY <2>4, <2>5, <2>7, <2>10, <2>11 DEF CalendarInv
<1>8. CASE OpenDay(current) /\ ~AfterHours(current)
  <2>1. PICK c \in Nat : c = IF Hour(current) < opens THEN DayStart(current) + opens ELSE current
    BY <1>2, <1>3
  <2>2. current' = c /\ turn' = "consume"
    BY <1>1, <1>8, <2>1 DEF Adjust, DayStart
  <2>3. Hour(current) < closes
    BY <1>2, <1>3, <1>8 DEF AfterHours
  <2>4. /\ current <= c /\ DayStart(current) <= c /\ c < DayStart(current) + DayLength
        /\ c - DayStart(current) \in opens .. closes - 1
    BY <1>2, <1>3, <2>1, <2>3
  <2>5. DayOf(c) = DayOf(current) /\ Hour(c) = c - DayStart(current) /\ OpenDay(c)
    BY <1>2, <1>8, <2>4, SameDayUnits
  <2>6. CalendarVarsOK'
    BY <1>1, <1>2, <2>2, <2>4 DEF CalendarVarsOK, inputVars
  <2>7. WorkIsConserved'
    <3>1. ASSUME NEW x \in current .. c - 1 PROVE ~OpenHour(x)
      <4>1. c = DayStart(current) + opens /\ x \in Int /\ DayStart(current) <= x /\ x < DayStart(current) + DayLength
        BY <1>2, <1>3, <2>1, <3>1
      <4>2. Hour(x) = x - DayStart(current)
        BY <1>2, <4>1, SameDayUnits
      <4> QED
        BY <1>2, <1>3, <3>1, <4>1, <4>2 DEF OpenHour
    <3> QED
      BY <1>1, <1>2, <2>2, <2>4, <3>1, NothingConsumed
  <2>8. /\ OpenHour(current)' <=> OpenHour(c)
        /\ DayOf(current)' = DayOf(c) /\ Hour(current)' = Hour(c)
        /\ opens' = opens /\ closes' = closes
        /\ Hour(from)' = Hour(from) /\ from' = from /\ asked' = asked /\ openDays' = openDays
    BY <1>1, <2>2, CalendarStays
  <2>9. OpenHour(c)
    BY <1>2, <2>4, <2>5 DEF OpenHour
  <2>10. AtWork' /\ AtOpening' /\ WorkLeft' /\ DueInOpenHours'
    BY <1>1, <1>2, <2>2, <2>8, <2>9 DEF AtWork, AtOpening, WorkLeft, DueInOpenHours
  <2>11. OpenDayAhead(e)'
    <3>1. DayOf(current)' <= e
      BY <1>5, <2>5, <2>8
    <3> QED
      BY <1>5, <1>6, <2>8, <3>1 DEF OpenDayAhead
  <2>12. InReach'
    BY <2>11 DEF InReach
  <2>13. InBounds'
    <3>1. WalksTo(from, asked, remaining, c, closes, e)
      BY <1>1, <1>2, <1>5, <2>1, <2>4, <2>5 DEF WalksTo, LastDay, WorkLeft
    <3>2. c <= from + DayLength * WeekLength * (asked + 1)
      BY <3>1, ReachIsBounded
    <3> QED
      BY <2>2, <2>8, <3>2 DEF InBounds
  <2> QED
    BY <2>6, <2>7, <2>10, <2>12, <2>13 DEF CalendarInv
<1> QED
  BY <1>7, <1>8

LEMMA NextDayHolds ==
  ASSUME CalendarInv, NextDay
  PROVE  CalendarInv'
<1>1. /\ CalendarVarsOK /\ AtWork /\ WorkLeft /\ InReach /\ WorkIsConserved
      /\ turn = "consume" /\ UNCHANGED inputVars /\ remaining > Available /\ remaining' = remaining - Available
      /\ current' = NextOpening(current) /\ turn' = "adjust"
  BY DEF CalendarInv, NextDay
<1>2. /\ opens \in 0 .. DayLength - 1 /\ closes \in opens + 1 .. DayLength /\ current \in Nat /\ from \in Nat /\ from <= current
      /\ asked \in Nat /\ remaining \in 0 .. asked /\ DayLength \in Nat \ {0} /\ WeekLength \in Nat \ {0}
  BY <1>1, CalendarAssumption DEF CalendarVarsOK
<1>3. /\ DayOf(current) \in Nat /\ DayStart(current) \in Nat /\ Hour(current) \in opens .. closes - 1 /\ OpenDay(current)
      /\ current = DayStart(current) + Hour(current) /\ DayOf(from) \in Nat
  BY <1>1, <1>2, UnitOfDay DEF AtWork, OpenHour
<1>4. PICK e : OpenDayAhead(e)
  BY <1>1 DEF InReach
<1>5. e \in Nat /\ DayOf(current) <= e /\ e <= LastDay
  BY <1>4 DEF OpenDayAhead
<1>6. PICK c \in Nat : c = NextOpening(current)
  BY <1>2, NextDawn
<1>7. current < c /\ DayOf(c) = DayOf(current) + 1 /\ Hour(c) = opens /\ c = DayStart(current) + DayLength + opens
  BY <1>2, <1>6, NextDawn
<1>8. PICK n \in Nat : n = Available
  BY <1>2, <1>3 DEF Available
<1>9. n = closes - Hour(current) /\ n > 0 /\ remaining' = remaining - n /\ remaining' \in 1 .. asked /\ n < remaining
  BY <1>1, <1>2, <1>3, <1>8 DEF Available
<1>10. CalendarVarsOK'
  BY <1>1, <1>2, <1>6, <1>7, <1>9 DEF CalendarVarsOK, inputVars
<1>11. WorkIsConserved'
  <2>1. PICK b \in Nat : b = DayStart(current) + closes
    BY <1>2, <1>3
  <2>2. current <= b /\ b <= c /\ b = current + n
    BY <1>2, <1>3, <1>7, <1>9, <2>1
  <2>3. ASSUME NEW x \in current .. b - 1 PROVE OpenHour(x)
    <3>1. x \in Int /\ DayStart(current) <= x /\ x < DayStart(current) + DayLength
      BY <1>2, <1>3, <2>1, <2>3
    <3>2. Hour(x) = x - DayStart(current) /\ (OpenDay(x) <=> OpenDay(current))
      BY <1>2, <3>1, SameDayUnits
    <3> QED
      BY <1>2, <1>3, <2>1, <2>3, <3>2 DEF OpenHour
  <2>4. ASSUME NEW x \in b .. c - 1 PROVE ~OpenHour(x)
    <3>1. CASE x < DayStart(current) + DayLength
      <4>1. x \in Int /\ DayStart(current) <= x
        BY <1>2, <1>3, <2>1, <2>4
      <4>2. Hour(x) = x - DayStart(current)
        BY <1>2, <3>1, <4>1, SameDayUnits
      <4> QED
        BY <1>2, <1>3, <2>1, <2>4, <4>2 DEF OpenHour
    <3>2. CASE x >= DayStart(current) + DayLength
      <4>1. PICK p \in Nat : p = DayOf(current) + 1
        BY <1>3
      <4>2. p * DayLength = DayStart(current) + DayLength
        BY <1>2, <1>3, <4>1, Distributes DEF DayStart
      <4>3. PICK r \in 0 .. DayLength - 1 : x = p * DayLength + r /\ r < opens
        <5>1. x - p * DayLength \in 0 .. DayLength - 1 /\ x - p * DayLength < opens /\ p * DayLength \in Nat
          BY <1>2, <1>3, <1>7, <2>4, <3>2, <4>2
        <5>2. x = p * DayLength + (x - p * DayLength)
          BY <5>1
        <5> QED
          BY <5>1, <5>2
      <4>4. Hour(x) = r
        BY <4>3, DayOfUnit
      <4> QED
        BY <1>2, <4>3, <4>4 DEF OpenHour
    <3> QED
      BY <1>2, <1>3, <3>1, <3>2
  <2>5. OpenUnits(current, c) = current .. b - 1
    <3>1. \A x : x \in OpenUnits(current, c) <=> x \in current .. c - 1 /\ OpenHour(x)
      BY DEF OpenUnits, OpenHour
    <3>2. \A x : x \in current .. c - 1 <=> x \in current .. b - 1 \/ x \in b .. c - 1
      BY <1>2, <2>2
    <3>3. \A x : x \in OpenUnits(current, c) <=> x \in current .. b - 1
      BY <2>3, <2>4, <3>1, <3>2
    <3> QED
      BY <3>3
  <2>6. Cardinality(current .. b - 1) = n
    <3>1. PICK a \in Int : a = current
      BY <1>2
    <3>2. Cardinality(a .. b - 1) = IF a > b - 1 THEN 0 ELSE b - 1 - a + 1
      BY FS_Interval
    <3> QED
      BY <1>2, <1>9, <2>2, <3>1, <3>2
  <2>7. remaining' + Cardinality(OpenUnits(current, c)) = remaining /\ remaining' \in 0 .. asked
    BY <1>2, <1>9, <2>5, <2>6
  <2>8. current' = c /\ current <= c
    BY <1>1, <1>2, <1>6, <1>7
  <2> QED
    BY <1>1, <2>7, <2>8, TimeConsumed
<1>12. /\ DayOf(current)' = DayOf(current) + 1 /\ Hour(current)' = opens
       /\ opens' = opens /\ closes' = closes
       /\ Hour(from)' = Hour(from) /\ DayOf(from)' = DayOf(from) /\ from' = from /\ asked' = asked /\ openDays' = openDays
  BY <1>1, <1>6, <1>7, CalendarStays
<1>13. AtWork' /\ AtOpening' /\ WorkLeft' /\ DueInOpenHours'
  BY <1>1, <1>2, <1>9, <1>12 DEF AtWork, AtOpening, WorkLeft, DueInOpenHours
<1>14. PICK p \in Nat : p = DayOf(current) + 1
  BY <1>3
<1>15. PICK d \in p .. p + WeekLength - 1 : d % WeekLength \in openDays
  BY <1>1, WeekHasOpenDay DEF CalendarVarsOK
<1>16. d \in Nat /\ DayOf(current) + 1 <= d /\ d <= DayOf(from) + WeekLength * (asked - remaining' + 1) /\ asked > 0
  <2>1. PICK w \in Nat : w = asked - remaining + 1
    BY <1>2
  <2>2. PICK v \in Nat : v = asked - remaining' + 1
    BY <1>2, <1>9
  <2>3. w + 1 <= v
    BY <1>2, <1>9, <2>1, <2>2
  <2>4. WeekLength * (w + 1) <= WeekLength * v /\ WeekLength * (w + 1) = WeekLength * w + WeekLength * 1
    BY <1>2, <2>3, MoreTimes, Distributes
  <2>5. WeekLength * w \in Nat /\ WeekLength * v \in Nat /\ WeekLength * 1 = WeekLength
    BY <1>2
  <2>6. DayOf(current) <= DayOf(from) + WeekLength * w
    BY <1>3, <1>5, <2>1, <2>5 DEF LastDay
  <2>7. d <= DayOf(from) + WeekLength * v
    BY <1>2, <1>3, <1>14, <1>15, <2>4, <2>5, <2>6
  <2> QED
    BY <1>2, <1>9, <1>14, <1>15, <2>2, <2>7
<1>17. InReach'
  <2>1. LastDay' = DayOf(from) + WeekLength * (asked - remaining' + 1)
    BY <1>12 DEF LastDay
  <2>2. OpenDayAhead(d)'
    BY <1>2, <1>12, <1>15, <1>16, <2>1 DEF OpenDayAhead
  <2> QED
    BY <2>2 DEF InReach
<1>18. InBounds'
  <2>1. PICK m \in 1 .. asked : m = remaining'
    BY <1>9
  <2>2. WalksTo(from, asked, m, c, closes, d)
    BY <1>2, <1>6, <1>7, <1>16, <2>1 DEF WalksTo
  <2>3. c <= from + DayLength * WeekLength * (asked + 1)
    BY <2>2, ReachIsBounded
  <2> QED
    BY <1>1, <1>6, <1>12, <2>3 DEF InBounds
<1> QED
  BY <1>10, <1>11, <1>13, <1>17, <1>18 DEF CalendarInv

LEMMA SameDayHolds ==
  ASSUME CalendarInv, SameDay
  PROVE  CalendarInv'
<1>1. /\ CalendarVarsOK /\ AtWork /\ WorkLeft /\ InReach /\ InBounds /\ WorkIsConserved
      /\ turn = "consume" /\ UNCHANGED inputVars /\ remaining <= Available
      /\ current' = current + remaining /\ remaining' = 0 /\ turn' = "due"
  BY DEF CalendarInv, SameDay
<1>2. /\ opens \in 0 .. DayLength - 1 /\ closes \in opens + 1 .. DayLength /\ current \in Nat /\ from \in Nat /\ from <= current
      /\ asked \in Nat /\ remaining \in 0 .. asked /\ DayLength \in Nat \ {0} /\ WeekLength \in Nat \ {0}
  BY <1>1, CalendarAssumption DEF CalendarVarsOK
<1>3. /\ DayOf(current) \in Nat /\ DayStart(current) \in Nat /\ Hour(current) \in opens .. closes - 1 /\ OpenDay(current)
      /\ current = DayStart(current) + Hour(current) /\ DayOf(from) \in Nat
  BY <1>1, <1>2, UnitOfDay DEF AtWork, OpenHour
<1>4. PICK e : OpenDayAhead(e)
  BY <1>1 DEF InReach
<1>5. PICK c \in Nat : c = current + remaining
  BY <1>2
<1>6. current' = c /\ current <= c /\ c <= DayStart(current) + closes
  BY <1>1, <1>2, <1>3, <1>5 DEF Available
<1>7. \A x \in current .. c - 1 : OpenHour(x)
  <2> SUFFICES ASSUME NEW x \in current .. c - 1 PROVE OpenHour(x)
    OBVIOUS
  <2>1. x \in Int /\ DayStart(current) <= x /\ x < DayStart(current) + DayLength
    BY <1>2, <1>3, <1>6
  <2>2. Hour(x) = x - DayStart(current) /\ (OpenDay(x) <=> OpenDay(current))
    BY <1>2, <2>1, SameDayUnits
  <2> QED
    BY <1>2, <1>3, <1>6, <2>2 DEF OpenHour
<1>8. WorkIsConserved' /\ OpenUnits(from, current)' = OpenUnits(from, c)
  <2>1. OpenUnits(current, c) = current .. c - 1
    BY <1>7 DEF OpenUnits, OpenHour
  <2>2. Cardinality(current .. c - 1) = remaining
    <3>1. PICK a \in Int : a = current
      BY <1>2
    <3>2. Cardinality(a .. c - 1) = IF a > c - 1 THEN 0 ELSE c - 1 - a + 1
      BY FS_Interval
    <3> QED
      BY <1>2, <1>5, <3>1, <3>2
  <2>3. remaining' + Cardinality(OpenUnits(current, c)) = remaining /\ remaining' \in 0 .. asked
    BY <1>1, <1>2, <2>1, <2>2
  <2> QED
    BY <1>1, <1>6, <2>3, TimeConsumed
<1>9. CalendarVarsOK'
  BY <1>1, <1>2, <1>6 DEF CalendarVarsOK, inputVars
<1>10. /\ opens' = opens /\ closes' = closes /\ from' = from /\ asked' = asked /\ openDays' = openDays
  BY <1>1, <1>6, CalendarStays
<1>11. AtWork' /\ AtOpening' /\ WorkLeft' /\ InReach'
  BY <1>1 DEF AtWork, AtOpening, WorkLeft, InReach
<1>12. DueInOpenHours'
  <2> SUFFICES ASSUME asked > 0 PROVE c - 1 \in OpenUnits(from, c)
    BY <1>6, <1>8, <1>10 DEF DueInOpenHours
  <2>1. remaining > 0
    BY <1>1 DEF WorkLeft
  <2>2. c - 1 \in current .. c - 1 /\ c - 1 \in from .. c - 1
    BY <1>2, <1>5, <2>1
  <2> QED
    BY <1>7, <2>2 DEF OpenUnits, OpenHour
<1>13. InBounds'
  <2>1. WalksTo(from, asked, remaining, current, closes, e)
    BY <1>1, <1>2, <1>3, <1>4 DEF WalksTo, OpenDayAhead, LastDay, WorkLeft
  <2>2. /\ asked > 0 => DayStart(current) + DayLength <= from + DayLength * WeekLength * (asked + 1)
        /\ current <= from + DayLength * WeekLength * (asked + 1)
    BY <2>1, ReachIsBounded
  <2>3. PICK b \in Nat : b = from + DayLength * WeekLength * (asked + 1)
    BY <1>2
  <2>4. c <= b
    BY <1>2, <1>3, <1>5, <1>6, <2>2, <2>3
  <2> QED
    BY <1>6, <1>10, <2>3, <2>4 DEF InBounds
<1> QED
  BY <1>8, <1>9, <1>11, <1>12, <1>13 DEF CalendarInv

LEMMA CalendarStepHolds == CalendarInv /\ [CalendarNext]_calendarVars => CalendarInv'
<1> SUFFICES ASSUME CalendarInv, [CalendarNext]_calendarVars PROVE CalendarInv'
  OBVIOUS
<1>1. CASE UNCHANGED calendarVars
  <2>1. /\ opens' = opens /\ closes' = closes /\ openDays' = openDays /\ from' = from /\ asked' = asked
        /\ current' = current /\ remaining' = remaining /\ turn' = turn
    BY <1>1 DEF calendarVars
  <2>2. /\ OpenUnits(from, current)' = OpenUnits(from, current) /\ LastDay' = LastDay
        /\ DayOf(current)' = DayOf(current) /\ Hour(current)' = Hour(current) /\ Hour(from)' = Hour(from)
    BY <2>1 DEF OpenUnits, OpenDay, DayOf, Hour, LastDay
  <2>3. CalendarVarsOK' /\ AtOpening' /\ WorkLeft' /\ InBounds' /\ WorkIsConserved' /\ DueInOpenHours'
    BY <2>1, <2>2 DEF CalendarInv, CalendarVarsOK, AtOpening, WorkLeft, InBounds, WorkIsConserved, DueInOpenHours
  <2>4. AtWork'
    BY <2>1, <2>2 DEF CalendarInv, AtWork, OpenHour, OpenDay, DayOf
  <2>5. \A e : OpenDayAhead(e)' <=> OpenDayAhead(e)
    BY <2>1, <2>2 DEF OpenDayAhead
  <2>6. InReach'
    BY <2>1, <2>5 DEF CalendarInv, InReach
  <2> QED
    BY <2>3, <2>4, <2>6 DEF CalendarInv
<1> QED
  BY <1>1, AdjustHolds, NextDayHolds, SameDayHolds DEF CalendarNext

LEMMA CalendarHolds == CalendarInv => CalendarTypeOK /\ WorkIsConserved /\ DueInOpenHours
BY DEF CalendarInv, CalendarTypeOK, CalendarVarsOK, AtWork, OpenHour, InBounds

-----------------------------------------------------------------------------
(* The back office: a step is one of the component in focus, the others keep *)
(* their state.                                                              *)

BackofficeInv ==
  /\ ScanInv /\ UploadInv /\ EventsInv /\ ReportsInv /\ MailInv /\ PresenceInv
  /\ ThrottleInv /\ CollabInv /\ CatalogueInv /\ SettingsInv /\ CalendarInv

(* Begins and Moves let the components start anyhow and step in any          *)
(* combination; the model checker's focus and its smaller initial states are *)
(* a case of it.                                                             *)
Begins ==
  /\ ScanInit /\ UploadInit /\ EventsInit /\ ReportsInit /\ MailingInit
  /\ PresenceInit /\ ThrottleInit /\ CollabInit /\ CatalogueInit /\ SettingsInit
  /\ CalendarInit

Moves ==
  /\ [ScanNext]_scanVars /\ [UploadNext]_uploadVars /\ [EventsNext]_eventVars
  /\ [ReportsNext]_reportVars /\ [MailingNext]_mailVars /\ [PresenceNext]_presenceVars
  /\ [ThrottleNext]_throttleVars /\ [CollabNext]_collabVars /\ [CatalogueNext]_catalogueVars
  /\ [SettingsNext]_settingsVars /\ [CalendarNext]_calendarVars

LEMMA BackofficeBegins == Begins => BackofficeInv
BY ScanInitHolds, UploadInitHolds, EventsInitHolds, ReportsInitHolds, MailingInitHolds, PresenceInitHolds,
   ThrottleInitHolds, CollabInitHolds, CatalogueInitHolds, SettingsInitHolds, CalendarInitHolds
   DEF Begins, BackofficeInv

LEMMA BackofficeSteps == BackofficeInv /\ Moves => BackofficeInv'
<1> SUFFICES ASSUME BackofficeInv, Moves PROVE BackofficeInv'
  OBVIOUS
<1>2. ScanInv' /\ UploadInv' /\ EventsInv'
  BY ScanStepHolds, UploadStepHolds, EventsStepHolds DEF Moves, BackofficeInv
<1>3. ReportsInv' /\ MailInv' /\ PresenceInv'
  BY ReportsStepHolds, MailingStepHolds, PresenceStepHolds DEF Moves, BackofficeInv
<1>4. ThrottleInv' /\ CollabInv' /\ CatalogueInv' /\ SettingsInv' /\ CalendarInv'
  BY ThrottleStepHolds, CollabStepHolds, CatalogueStepHolds, SettingsStepHolds, CalendarStepHolds DEF Moves, BackofficeInv
<1> QED
  BY <1>2, <1>3, <1>4 DEF BackofficeInv

LEMMA FocusIsACase == (Init => Begins) /\ ([Next]_vars => Moves)
BY DEF Init, Begins, Next, Moves, vars

(* However the eleven components interleave, the inductive invariant holds.*)
THEOREM BackofficeTogether == Begins /\ [][Moves]_vars => []BackofficeInv
<1>1. BackofficeInv /\ [Moves]_vars => BackofficeInv'
  BY BackofficeSteps DEF Moves, vars
<1> QED
  BY <1>1, BackofficeBegins, PTL

(* The inductive invariant of the back office holds in every reachable state.*)
THEOREM BackofficeInvariant == Spec => []BackofficeInv
<1>1. [][Next]_vars => [][Moves]_vars
  BY FocusIsACase, PTL
<1> QED
  BY <1>1, FocusIsACase, BackofficeTogether, PTL DEF Spec

(* In every reachable state the variables of the eleven components have their*)
(* types, and the loop of the calendar has not walked past the weeks that its*)
(* target can take.                                                          *)
THEOREM BackofficeTypes == Spec => []BackofficeTypesOK
<1>1. BackofficeInv => BackofficeTypesOK
  BY ScanHolds, UploadHolds, EventsHold, ReportsHold, MailingHolds, PresenceHolds,
     ThrottleHolds, CollabHolds, CatalogueHolds, SettingsHolds, CalendarHolds
     DEF BackofficeInv, BackofficeTypesOK
<1> QED
  BY <1>1, BackofficeInvariant, PTL

(* A row of a file has its file, malware is never offered and a key names one*)
(* file, whatever scans, crons, crashes and repeated uploads interleave.     *)
THEOREM FilesAgreeWithRows == Spec => []FilesHold
<1>1. BackofficeInv => FilesHold
  BY ScanHolds, UploadHolds, CollabHolds DEF BackofficeInv, FilesHold
<1> QED
  BY <1>1, BackofficeInvariant, PTL

(* The holder of a ticket, the audit trail and the requester learn of a      *)
(* change, nobody twice of the same one, whatever was committed meanwhile.   *)
THEOREM PeopleHear == Spec => []PeopleAreTold
<1>1. BackofficeInv => PeopleAreTold
  BY EventsHold, CollabHolds DEF BackofficeInv, PeopleAreTold
<1> QED
  BY <1>1, BackofficeInvariant, PTL

(* A report or a mail whose job ended is what its row says, unless a worker  *)
(* stalled or the mail server failed after it accepted.                      *)
THEOREM JobsSettleWithRows == Spec => []JobsSettle
<1>1. BackofficeInv => JobsSettle
  BY ReportsHold, MailingHolds DEF BackofficeInv, JobsSettle
<1> QED
  BY <1>1, BackofficeInvariant, PTL

(* The counters of requests, the caches of settings and the lists of sockets *)
(* are wrong no longer than their bounds say.                                *)
THEOREM SharedStateCatchesUp == Spec => []SharedStateRecovers
<1>1. BackofficeInv => SharedStateRecovers
  BY ThrottleHolds, SettingsHolds, PresenceHolds DEF BackofficeInv, SharedStateRecovers
<1> QED
  BY <1>1, BackofficeInvariant, PTL

(* A removal of a category or a department leaves no reference to it but the *)
(* late ones of a department, however creations and removals interleave.     *)
THEOREM ReferencesStay == Spec => []ReferencesHold
<1>1. BackofficeInv => ReferencesHold
  BY CatalogueHolds DEF BackofficeInv, ReferencesHold
<1> QED
  BY <1>1, BackofficeInvariant, PTL

(* A due date leaves exactly the open minutes of its target, for every length*)
(* of the day and the week, business hours, open days, start and target.     *)
THEOREM DeadlinesAreExact == Spec => []DeadlinesHold
<1>1. BackofficeInv => DeadlinesHold
  BY CalendarHolds DEF BackofficeInv, DeadlinesHold
<1> QED
  BY <1>1, BackofficeInvariant, PTL
=====================================================================
