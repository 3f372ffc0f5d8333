------------------------------ MODULE SlaAlerts ------------------------------
(* The alerts of one overdue ticket (sla-alert-processor.service.ts, its     *)
(* notifier, sla.worker.ts): every instance of the API runs a pass over the  *)
(* tickets; an alert is found, claimed on the row, sent as two jobs, and     *)
(* released when sending fails.  Passes of several instances overlap.        *)
EXTENDS Integers, FiniteSets

CONSTANTS
    Crons,       \* instances that run the pass
    Due,         \* Due[t]: the first due date of target t
    Warning,     \* SLA_WARNING_MINUTES
    Emailing,    \* NOTIFICATIONS_SLA_BREACH_ENABLED
    Repeat,      \* BREACH_REPEAT_INTERVAL_MS
    LastTime     \* bound on the clock

Targets == {"FIRST_RESPONSE", "RESOLUTION"}
Kinds == {"BREACH", "WARNING"}

ASSUME AlertsAssumption ==
    /\ Due \in [Targets -> 0 .. LastTime] /\ LastTime \in Nat \ {0}
    /\ Warning \in Nat /\ Repeat \in Nat \ {0} /\ Emailing \in BOOLEAN

VARIABLES
    time,
    facts,     \* what other writers set: open, replied, pausedAt, resolutionDueAt
    marks,     \* marks[t]: warned, breached, told (the time of the last notice)
    breach,    \* slaBreached
    passes,    \* passes[c]: what the pass of each instance is doing
    announced, \* alerts whose notification was made into a job
    claimed,   \* claimed[t][k]: claims that were not released
    died       \* a pass was killed

alertVars == <<time, facts, marks, breach, passes, announced, claimed, died>>

Never == -1
NoPass == [pc |-> "idle"]
Unmarked == [warned |-> FALSE, breached |-> FALSE, told |-> Never]
Other(t) == CHOOSE u \in Targets : u # t
(* The order of the four stages of a pass.                                   *)
Stages == << <<"FIRST_RESPONSE", "BREACH">>, <<"RESOLUTION", "BREACH">>,
             <<"FIRST_RESPONSE", "WARNING">>, <<"RESOLUTION", "WARNING">> >>

AlertTypeOK ==
    /\ time \in 0 .. LastTime
    /\ facts \in [open: BOOLEAN, replied: BOOLEAN, pausedAt: Never .. LastTime, due: 0 .. 2 * LastTime]
    /\ marks \in [Targets -> [warned: BOOLEAN, breached: BOOLEAN, told: Never .. LastTime]]
    /\ \A t \in Targets : marks[t].breached <=> marks[t].told # Never
    /\ breach \in BOOLEAN /\ died \in BOOLEAN
    /\ passes \in [Crons -> {NoPass}
          \cup [pc: {"find", "claim", "notify", "release"}, at: 0 .. LastTime, stage: 1 .. 4]]
    /\ announced \subseteq Targets \X Kinds
    /\ claimed \in [Targets -> [Kinds -> Nat]]

AlertInit ==
    /\ time = 1 /\ breach = FALSE /\ died = FALSE
    /\ facts = [open |-> TRUE, replied |-> FALSE, pausedAt |-> Never, due |-> Due["RESOLUTION"]]
    /\ marks = [t \in Targets |-> Unmarked]
    /\ passes = [c \in Crons |-> NoPass]
    /\ announced = {}
    /\ claimed = [t \in Targets |-> [k \in Kinds |-> 0]]

-----------------------------------------------------------------------------

At(c) == passes[c].at
Target(c) == Stages[passes[c].stage][1]
AlertKind(c) == Stages[passes[c].stage][2]
(* A breach is announced as a warning when its e-mails are switched off.     *)
Sent(c) == <<Target(c), IF Emailing THEN AlertKind(c) ELSE "WARNING">>
Run(c, pc) == passes' = [passes EXCEPT ![c].pc = pc]
NextStage(c) ==
    LET n == passes[c].stage + 1 IN
    passes' = [passes EXCEPT ![c] = IF n > 4 THEN NoPass ELSE [@ EXCEPT !.pc = "find", !.stage = n]]

DueAt(t) == IF t = "RESOLUTION" THEN facts.due ELSE Due[t]
Running(t) == facts.open /\ IF t = "RESOLUTION" THEN facts.pausedAt = Never ELSE ~facts.replied

(* Both the query and the claim ask this, at the time the pass began.        *)
Wanted(c) ==
    LET t == Target(c) IN
    /\ Running(t)
    /\ IF AlertKind(c) = "BREACH"
       THEN DueAt(t) < At(c) /\ (~marks[t].breached \/ marks[t].told < At(c) - Repeat)
       ELSE ~marks[t].warned /\ DueAt(t) >= At(c) /\ DueAt(t) < At(c) + Warning

BeginPass(c) ==
    /\ passes[c] = NoPass
    /\ passes' = [passes EXCEPT ![c] = [pc |-> "find", at |-> time, stage |-> 1]]
    /\ UNCHANGED <<time, facts, marks, breach, announced, claimed, died>>

FindAlert(c) ==
    /\ passes[c].pc = "find"
    /\ IF Wanted(c) THEN Run(c, "claim") ELSE NextStage(c)
    /\ UNCHANGED <<time, facts, marks, breach, announced, claimed, died>>

Marked(c) ==
    marks' = [marks EXCEPT ![Target(c)] =
        IF AlertKind(c) = "BREACH" THEN [@ EXCEPT !.breached = TRUE, !.told = At(c)] ELSE [@ EXCEPT !.warned = TRUE]]

(* One conditional update: two instances cannot both take the alert.  A      *)
(* reminder, the second update, leaves the flag alone.                       *)
ClaimAlert(c) ==
    /\ passes[c].pc = "claim"
    /\ IF Wanted(c)
       THEN /\ Run(c, "notify") /\ Marked(c)
            /\ breach' = (breach \/ (AlertKind(c) = "BREACH" /\ ~marks[Target(c)].breached))
            /\ claimed' = [claimed EXCEPT ![Target(c)][AlertKind(c)] = @ + 1]
       ELSE NextStage(c) /\ UNCHANGED <<marks, breach, claimed>>
    /\ UNCHANGED <<time, facts, announced, died>>

(* The notification job, then the e-mail job; either may fail.  Without      *)
(* assignee there is none.  (A job whose identifier the queue remembers is   *)
(* dropped: "announced" does not tell a reminder from the first notice.)     *)
Notify(c) ==
    /\ passes[c].pc = "notify"
    /\ \/ NextStage(c) /\ announced' = announced \cup {Sent(c)}
       \/ Run(c, "release") /\ announced' \in {announced, announced \cup {Sent(c)}}
    /\ UNCHANGED <<time, facts, marks, breach, claimed, died>>

ReleasedFlag(t) == marks[Other(t)].breached
Released(t) == [marks EXCEPT ![t].breached = FALSE, ![t].told = Never]

MutReleaseAlert(c) ==
    /\ passes[c].pc = "release" /\ NextStage(c)
    /\ UNCHANGED <<time, facts, marks, breach, announced, claimed, died>>

(* The mark is taken away: the next pass tries again.                        *)
ReleaseAlert(c) ==
    LET t == Target(c) IN
    /\ passes[c].pc = "release" /\ NextStage(c)
    /\ IF AlertKind(c) = "WARNING"
       THEN marks' = [marks EXCEPT ![t].warned = FALSE] /\ UNCHANGED breach
       ELSE marks' = Released(t) /\ breach' = ReleasedFlag(t)
    /\ claimed' = [claimed EXCEPT ![t][AlertKind(c)] = @ - 1]
    /\ UNCHANGED <<time, facts, announced, died>>

KillPass(c) ==
    /\ passes[c] # NoPass /\ passes' = [passes EXCEPT ![c] = NoPass] /\ died' = TRUE
    /\ UNCHANGED <<time, facts, marks, breach, announced, claimed>>

-----------------------------------------------------------------------------

(* check_breach of the delayed job sets the flag and no mark.                *)
CheckBreach ==
    /\ facts.due < time /\ breach' = TRUE
    /\ UNCHANGED <<time, facts, marks, passes, announced, claimed, died>>

(* Pausing, resuming with the due date moved, replying, closing.  A reopened *)
(* ticket, with its new due date, is not followed.                           *)
OtherWriters ==
    /\ \/ facts.pausedAt = Never /\ facts' = [facts EXCEPT !.pausedAt = time]
       \/ /\ facts.pausedAt # Never
          /\ facts' = [facts EXCEPT !.pausedAt = Never, !.due = @ + (time - facts.pausedAt)]
       \/ ~facts.replied /\ facts' = [facts EXCEPT !.replied = TRUE]
       \/ facts.open /\ facts' = [facts EXCEPT !.open = FALSE]
    /\ UNCHANGED <<time, marks, breach, passes, announced, claimed, died>>

(* A pass is far shorter than the interval between two reminders: it sees    *)
(* one unit of time begin at most.                                           *)
AlertTick ==
    /\ time < LastTime /\ \A c \in Crons : passes[c] # NoPass => At(c) = time
    /\ time' = time + 1
    /\ UNCHANGED <<facts, marks, breach, passes, announced, claimed, died>>

AlertNext ==
    \/ \E c \in Crons : BeginPass(c) \/ FindAlert(c) \/ ClaimAlert(c) \/ Notify(c)
    \/ \E c \in Crons : ReleaseAlert(c) \/ KillPass(c)
    \/ CheckBreach \/ OtherWriters \/ AlertTick

AlertSpec == AlertInit /\ [][AlertNext]_alertVars

-----------------------------------------------------------------------------

(* A ticket with a breached target carries the flag that the searches, the   *)
(* dashboards and the reports read, whatever is released in between.         *)
MarkImpliesFlag == (\E t \in Targets : marks[t].breached) => breach

(* Overlapping passes, failures and retries together warn once per target    *)
(* and remind of a breach no more often than the interval allows.  The clock *)
(* of the marks is the beginning of a pass: a pass that began a unit earlier *)
(* and claims after another one failed sets the mark back by that unit, so   *)
(* that the next reminder comes Repeat later, not strictly more.             *)
AlertsPaced ==
    \A t \in Targets :
        /\ claimed[t]["WARNING"] <= 1
        /\ claimed[t]["BREACH"] # 0 => (claimed[t]["BREACH"] - 1) * Repeat < time - Due[t]

(* A mark that stays is one whose alert was handed over, unless a pass died  *)
(* between the claim and the jobs: a failure leaves the alert to be retried. *)
MarkedWasAnnounced ==
    \A t \in Targets, k \in Kinds :
        /\ ~died /\ (k = "BREACH" => Emailing)
        /\ IF k = "BREACH" THEN marks[t].breached ELSE marks[t].warned
        => \/ <<t, k>> \in announced
           \/ \E c \in Crons : /\ passes[c].pc \in {"notify", "release"}
                               /\ Target(c) = t /\ AlertKind(c) = k
=============================================================================
