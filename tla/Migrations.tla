------------------------------ MODULE Migrations ------------------------------
(* Bringing a database to the schema of the code (run-migrations.ts).  The   *)
(* journal of drizzle names the migrations already run; a database that has  *)
(* none is first "baselined": its tables, constraints and triggers are       *)
(* compared with the snapshots of a few versions to guess what to journal.   *)
(* Migrations are numbered from 0; a database "at n" has the first n.        *)
EXTENDS Integers

CONSTANTS
    Deployments,   \* processes running db:migrate
    MaxOldRows     \* bound on the tickets the previous binary writes

ASSUME MigrationsAssumption == MaxOldRows \in Nat

VARIABLES
    applied,       \* how many migrations the schema has
    journal,       \* how many the journal has; 0 before the baseline
    born,          \* what applied was at first
    unfilled,      \* tickets with created_by and no opened_by_user_id
    late,          \* those among them written since the deployments began
    tokens,        \* refresh_tokens has rows, which the drop of 0020 refuses
    deployment     \* by deployment, what it does: its step and how many it will journal or skip

migrationVars == <<applied, journal, born, unfilled, late, tokens, deployment>>

Latest == 23                       \* 0000 .. 0022
PublicExpand == 5                  \* the constants of run-migrations.ts
PublicBackfill == 6
OutboxEnvelope == 8
ParentGuard == 9
LatestBaseline == 10

(* The statements of the others are guarded: they may run again.             *)
Once == {4, 9, 10, 11, 12, 14, 17, 19, 21}
DropsTokens == 20

(* What a schema at n shows to the validator: a snapshot is satisfied by any *)
(* later schema that still has its tables, so not once refresh_tokens went.  *)
Compatible(snapshot) == applied \in snapshot .. DropsTokens
BootstrapGrants == applied >= LatestBaseline
ParentGuards == applied >= ParentGuard
Artifacts == applied >= PublicExpand

Refused == -1
MutInferredOldest == IF applied \in 1 .. DropsTokens /\ unfilled = 0 THEN 1 ELSE Refused
(* baselineExistingSchema: how many migrations to journal.                   *)
Inferred ==
    CASE BootstrapGrants -> IF Compatible(LatestBaseline) /\ unfilled = 0 /\ ParentGuards THEN LatestBaseline ELSE Refused
      [] ~BootstrapGrants /\ Compatible(OutboxEnvelope) ->
            IF unfilled > 0 THEN PublicExpand ELSE IF ParentGuards THEN ParentGuard ELSE OutboxEnvelope
      [] applied < OutboxEnvelope /\ Compatible(PublicExpand) ->
            IF unfilled > 0 THEN PublicExpand ELSE PublicBackfill
      [] applied < PublicExpand -> IF applied > 0 /\ ~Artifacts THEN 1 ELSE Refused

-----------------------------------------------------------------------------

MigrationsTypeOK ==
    /\ applied \in 0 .. Latest /\ born \in 0 .. applied /\ journal \in 0 .. Latest
    /\ unfilled \in 0 .. MaxOldRows + 1 /\ late \in 0 .. MaxOldRows
    /\ tokens \in BOOLEAN /\ (tokens => applied <= DropsTokens)
    /\ deployment \in [Deployments -> [step: {"start", "journal", "insert", "read", "run", "done", "failed"}, count: 0 .. Latest]]

NotDeploying == [step |-> "start", count |-> 0]

MigrationsInit ==
    /\ applied \in 0 .. Latest /\ born = applied
    /\ journal \in {0, applied}
    /\ unfilled \in {0, 1} /\ late = IF journal >= PublicBackfill THEN unfilled ELSE 0
    /\ tokens \in BOOLEAN /\ (tokens => applied <= DropsTokens)
    /\ applied = 0 => unfilled = 0 /\ ~tokens
    /\ late <= MaxOldRows
    /\ deployment = [d \in Deployments |-> NotDeploying]

Become(d, step, count) == deployment' = [deployment EXCEPT ![d] = [step |-> step, count |-> count]]
KeepBase == UNCHANGED <<applied, journal, born, unfilled, late, tokens>>
AtStep(d, step) == deployment[d].step = step

(* With --baseline-existing: the schema is read without a lock ...           *)
Baseline(d) ==
    /\ AtStep(d, "start")
    /\ IF Inferred = Refused THEN Become(d, "failed", 0) ELSE Become(d, "journal", Inferred)
    /\ KeepBase

WithoutBaseline(d) == AtStep(d, "start") /\ Become(d, "read", 0) /\ KeepBase

(* ... what was inferred is journaled, unless the journal has rows.  It is   *)
(* counted without a lock either: two deployments may both find it empty and *)
(* both insert, and the latest of their entries counts.                      *)
JournalApplied(d) ==
    /\ AtStep(d, "journal")
    /\ IF journal > 0 THEN Become(d, "read", 0) ELSE Become(d, "insert", deployment[d].count)
    /\ KeepBase

InsertApplied(d) ==
    /\ AtStep(d, "insert")
    /\ journal' = IF deployment[d].count > journal THEN deployment[d].count ELSE journal
    /\ Become(d, "read", 0)
    /\ UNCHANGED <<applied, born, unfilled, late, tokens>>

(* drizzle's migrate: it reads the last entry of the journal ...             *)
ReadJournal(d) == AtStep(d, "read") /\ Become(d, "run", journal) /\ KeepBase

(* ... and runs all that follows in one transaction.                         *)
Runnable(from) == /\ \A m \in Once : m >= from => m >= applied
                  /\ tokens => from > DropsTokens
RunPending(d) ==
    LET from == deployment[d].count IN
    /\ AtStep(d, "run")
    /\ IF Runnable(from)
       THEN /\ applied' = Latest /\ journal' = Latest
            /\ IF from < PublicBackfill THEN unfilled' = 0 /\ late' = 0 ELSE UNCHANGED <<unfilled, late>>
            /\ Become(d, "done", 0)
            /\ UNCHANGED <<born, tokens>>
       ELSE Become(d, "failed", 0) /\ KeepBase

KillDeployment(d) ==
    /\ deployment[d].step \notin {"done", "failed"}
    /\ Become(d, "failed", 0) /\ KeepBase

DeployAgain(d) ==
    /\ deployment[d].step \in {"done", "failed"}
    /\ Become(d, "start", 0) /\ KeepBase

(* The binary N-1 goes on during the deployment; logins write tokens, which  *)
(* the operators purge before 0020.                                          *)
OldBinaryWrites ==
    /\ applied > 0 /\ late < MaxOldRows
    /\ unfilled' = unfilled + 1 /\ late' = late + 1
    /\ UNCHANGED <<applied, journal, born, tokens, deployment>>

PurgeTokens == tokens /\ tokens' = FALSE /\ UNCHANGED <<applied, journal, born, unfilled, late, deployment>>

MigrationsNext ==
    \/ \E d \in Deployments :
         Baseline(d) \/ WithoutBaseline(d) \/ JournalApplied(d) \/ InsertApplied(d) \/ ReadJournal(d) \/ RunPending(d)
           \/ KillDeployment(d) \/ DeployAgain(d)
    \/ OldBinaryWrites \/ PurgeTokens

-----------------------------------------------------------------------------

(* The journal names no migration that the schema lacks, but for 0005 on a   *)
(* schema where it has nothing to fill.                                      *)
JournalWithinSchema == journal <= (IF applied = PublicExpand THEN PublicBackfill ELSE applied)

(* Once the journal says that the actors were back-filled, no ticket from    *)
(* before the deployments lacks its opener, whatever schema the baseline     *)
(* found and however deployments overlap or fail.                            *)
NothingLeftBehind == journal >= PublicBackfill => unfilled <= late

(* No journaled database is left with a migration applied and not journaled  *)
(* that cannot run again, which no later deployment could get past.  Only a  *)
(* baseline of a schema born past 0009 and before the drop of 0020 does that:*)
(* it journals ten migrations whatever the schema has                        *)
(* (run-migrations.ts:43-52).                                                *)
StaysMigratable ==
    journal > 0 /\ (\E m \in Once : m >= journal /\ m < applied) =>
      journal = LatestBaseline /\ applied = born /\ born \in LatestBaseline + 1 .. DropsTokens
=============================================================================
