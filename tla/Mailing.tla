------------------------------- MODULE Mailing --------------------------------
(* The mails of the email queue: email.worker and email.service. The queue   *)
(* gives a job one attempt; a worker that dies leaves it to be taken again.  *)
EXTENDS Integers, FiniteSets

CONSTANTS
    Mails,         \* jobs of the queue
    Templates,     \* the Handlebars files the jobs name
    Slots          \* concurrency: jobs handled at once (5)

ASSUME MailingAssumption == Slots \in Nat \ {0} /\ IsFiniteSet(Mails)

VARIABLES
    installed,     \* templates present beside the compiled service
    compiled,      \* compiledTemplates: the cache of this process
    mail,          \* mail[j]: where the job is
    accepted,      \* accepted[j]: what SMTP took for it, "real" or "fallback" mails
    mishaps        \* mishaps[j]: takeovers, and SMTP errors after the mail was taken

mailVars == <<installed, compiled, mail, accepted, mishaps>>

Unqueued == [pc |-> "unqueued"]

MailingTypeOK ==
    /\ compiled \subseteq installed /\ installed \subseteq Templates
    /\ mail \in [Mails -> {Unqueued} \cup [pc: {"waiting", "taken", "rendered", "fallback", "answered",
                                                 "sent", "failed"},
                                           template: Templates, stalls: 0 .. 1]]
    /\ \A j \in Mails : mail[j].pc = "rendered" => mail[j].template \in compiled
    /\ Cardinality({j \in Mails : mail[j].pc \notin {"unqueued", "waiting", "sent", "failed"}}) <= Slots
    /\ accepted \in [Mails -> [real: Nat, fallback: Nat]] /\ mishaps \in [Mails -> Nat]

MailingInit ==
    /\ installed \in SUBSET Templates /\ compiled = {}
    /\ mail = [j \in Mails |-> Unqueued]
    /\ accepted = [j \in Mails |-> [real |-> 0, fallback |-> 0]]
    /\ mishaps = [j \in Mails |-> 0]

Goes(j, pc) == mail' = [mail EXCEPT ![j].pc = pc]
BeingSent == {j \in Mails : mail[j].pc \in {"taken", "rendered", "fallback", "answered"}}

Enqueue(j, t) ==
    /\ mail[j] = Unqueued
    /\ mail' = [mail EXCEPT ![j] = [pc |-> "waiting", template |-> t, stalls |-> 0]]
    /\ UNCHANGED <<installed, compiled, accepted, mishaps>>

Take(j) ==
    /\ mail[j].pc = "waiting" /\ Cardinality(BeingSent) < Slots
    /\ Goes(j, "taken") /\ UNCHANGED <<installed, compiled, accepted, mishaps>>

(* compileTemplate throws when the file is missing: the worker falls back.   *)
Compile(j) ==
    LET t == mail[j].template IN
    /\ mail[j].pc = "taken"
    /\ IF t \in compiled \cup installed
       THEN Goes(j, "rendered") /\ compiled' = compiled \cup {t}
       ELSE Goes(j, "fallback") /\ UNCHANGED compiled
    /\ UNCHANGED <<installed, accepted, mishaps>>

(* sendMail: taken; or refused; or taken with an error or a timeout after.   *)
(* On an error the job goes where the caller's catch sends it.               *)
Send(j, kind, caught) ==
    \/ /\ accepted' = [accepted EXCEPT ![j][kind] = @ + 1]
       /\ Goes(j, "answered") /\ UNCHANGED mishaps
    \/ Goes(j, caught) /\ UNCHANGED <<accepted, mishaps>>
    \/ /\ accepted' = [accepted EXCEPT ![j][kind] = @ + 1]
       /\ mishaps' = [mishaps EXCEPT ![j] = @ + 1]
       /\ Goes(j, caught)

(* The catch covers the sending too: an SMTP error sends the fallback text.  *)
SendTemplate(j) ==
    /\ mail[j].pc = "rendered" /\ Send(j, "real", "fallback")
    /\ UNCHANGED <<installed, compiled>>

SendFallback(j) ==
    /\ mail[j].pc = "fallback" /\ Send(j, "fallback", "failed")
    /\ UNCHANGED <<installed, compiled>>

Complete(j) ==
    /\ mail[j].pc = "answered"
    /\ Goes(j, "sent") /\ UNCHANGED <<installed, compiled, accepted, mishaps>>

(* The process stops: the cache is lost, the jobs it held are taken again,   *)
(* and fail the second time (maxStalledCount is 1).                          *)
StallMails ==
    /\ BeingSent # {}
    /\ compiled' = {}
    /\ mishaps' = [j \in Mails |-> mishaps[j] + IF j \in BeingSent THEN 1 ELSE 0]
    /\ mail' = [j \in Mails |->
          IF j \notin BeingSent THEN mail[j]
          ELSE IF mail[j].stalls = 0 THEN [mail[j] EXCEPT !.pc = "waiting", !.stalls = 1]
          ELSE [mail[j] EXCEPT !.pc = "failed"]]
    /\ UNCHANGED <<installed, accepted>>

MailingNext ==
    \/ \E j \in Mails, t \in Templates : Enqueue(j, t)
    \/ \E j \in Mails : Take(j) \/ Compile(j) \/ SendTemplate(j) \/ SendFallback(j) \/ Complete(j)
    \/ StallMails

MailingSpec == MailingInit /\ [][MailingNext]_mailVars

-----------------------------------------------------------------------------

Total(j) == accepted[j].real + accepted[j].fallback

(* Whatever SMTP answers and whenever the process stops, the recipient gets  *)
(* one mail, plus one for each error after acceptance and each takeover.     *)
ExtraMailsNeedMishaps == \A j \in Mails : Total(j) <= 1 + mishaps[j]

(* A job the queue counts as completed gave the recipient a mail, if only    *)
(* the fallback text; no failure is swallowed by the worker.                 *)
CompletedWasSent == \A j \in Mails : mail[j].pc = "sent" => Total(j) > 0
=============================================================================
