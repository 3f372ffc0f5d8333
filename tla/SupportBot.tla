------------------------------ MODULE SupportBot ------------------------------
(* The assistant of a conversation (support-bot.service.ts).  Each question  *)
(* is recorded, then answered by a provider outside, unless the integration  *)
(* has it disabled, the budget of the day is spent or the circuit is open;   *)
(* the answer, whatever it is, is recorded too.  The budget is counted in    *)
(* the recorded answers; the circuit is kept in memory.                      *)
EXTENDS Integers, FiniteSets

CONSTANTS
    Replies,       \* handlers of questions at work at a time
    BotBudget,     \* answers a day
    OpenAfter,     \* failures that open the circuit
    MaxQuestions,  \* bound on the questions
    MaxKills       \* bound on the handlers lost

ASSUME BotAssumption ==
    /\ IsFiniteSet(Replies) /\ Replies # {}
    /\ {BotBudget, OpenAfter, MaxQuestions, MaxKills} \subseteq Nat /\ OpenAfter > 0

VARIABLES
    conversation,  \* "OPEN" or "TICKET_CREATED"
    reply,         \* by handler, its step
    asked,         \* INBOUND messages
    replied,       \* OUTBOUND messages of the assistant, today
    overdue,       \* those recorded after the ticket was created
    prompts,       \* calls of the provider
    killed,        \* handlers lost after their question was recorded
    failures,      \* the circuit: failures in a row ...
    circuit,       \* ... "closed", "open", or "elapsed": open for long enough
    blind          \* calls begun since the circuit opened

botVars == <<conversation, reply, asked, replied, overdue, prompts, killed, failures, circuit, blind>>

Working == {r \in Replies : reply[r] \notin {"none", "begun"}}
Go(r, step) == reply' = [reply EXCEPT ![r] = step]
KeepCircuit == UNCHANGED <<failures, circuit, blind>>

BotTypeOK ==
    /\ conversation \in {"OPEN", "TICKET_CREATED"}
    /\ reply \in [Replies -> {"none", "begun", "counting", "history", "calling", "answering"}]
    /\ prompts \in 0 .. MaxQuestions /\ overdue \in 0 .. replied /\ killed \in 0 .. MaxKills
    (* Every question recorded is answered, unless its handler is lost.      *)
    /\ asked \in 0 .. MaxQuestions /\ asked = replied + Cardinality(Working) + killed
    /\ failures \in 0 .. OpenAfter - 1 /\ circuit \in {"closed", "open", "elapsed"} /\ blind \in 0 .. prompts

BotInit ==
    /\ conversation = "OPEN" /\ reply = [r \in Replies |-> "none"]
    /\ asked = 0 /\ replied = 0 /\ overdue = 0 /\ prompts = 0 /\ killed = 0
    /\ failures = 0 /\ circuit = "closed" /\ blind = 0

-----------------------------------------------------------------------------

(* reply: the conversation must be open when it is read.                     *)
OpenWhenRead == conversation = "OPEN"
RequireConversation(r) ==
    /\ reply[r] = "none" /\ OpenWhenRead
    /\ Go(r, "begun")
    /\ UNCHANGED <<conversation, asked, replied, overdue, prompts, killed>> /\ KeepCircuit

RecordQuestion(r) ==
    /\ reply[r] = "begun" /\ asked < MaxQuestions
    /\ asked' = asked + 1 /\ Go(r, "counting")
    /\ UNCHANGED <<conversation, replied, overdue, prompts, killed>> /\ KeepCircuit

(* persistMessage: an answer of any mode counts as an answer of the day.     *)
Answer(r) ==
    /\ replied' = replied + 1
    /\ overdue' = IF conversation = "OPEN" THEN overdue ELSE overdue + 1
    /\ Go(r, "none")

(* countTodayBotCalls: the answers recorded, then the circuit, at once.      *)
WithinBudget == replied < BotBudget
BudgetSpent(r) ==
    /\ reply[r] = "counting" /\ ~WithinBudget
    /\ Answer(r)
    /\ UNCHANGED <<conversation, asked, prompts, killed>> /\ KeepCircuit

(* circuitOpen also closes the circuit once it was open for long enough.     *)
CircuitOpen == circuit = "open"
CircuitIsOpen(r) ==
    /\ reply[r] = "counting" /\ WithinBudget /\ CircuitOpen
    /\ Answer(r)
    /\ UNCHANGED <<conversation, asked, prompts, killed>> /\ KeepCircuit
CircuitIsClosed(r) ==
    /\ reply[r] = "counting" /\ WithinBudget /\ ~CircuitOpen
    /\ Go(r, "history") /\ circuit' = IF circuit = "elapsed" THEN "closed" ELSE circuit
    /\ failures' = IF circuit = "elapsed" THEN 0 ELSE failures
    /\ blind' = IF circuit = "elapsed" THEN 0 ELSE blind
    /\ UNCHANGED <<conversation, asked, replied, overdue, prompts, killed>>

(* The history is read, then the provider is called.                         *)
CallProvider(r) ==
    /\ reply[r] = "history"
    /\ prompts' = prompts + 1 /\ Go(r, "calling")
    /\ blind' = IF circuit = "open" THEN blind + 1 ELSE blind
    /\ UNCHANGED <<conversation, asked, replied, overdue, killed, failures, circuit>>

(* Any answer closes the circuit, even one that was asked before it opened.  *)
ProviderAnswers(r) ==
    /\ reply[r] = "calling"
    /\ Go(r, "answering")
    /\ failures' = 0 /\ circuit' = "closed" /\ blind' = 0
    /\ UNCHANGED <<conversation, asked, replied, overdue, prompts, killed>>

(* recordFailure, then an answer that says so.                               *)
RecordFailure ==
    IF failures + 1 >= OpenAfter
    THEN failures' = 0 /\ circuit' = "open" /\ blind' = IF circuit = "open" THEN blind ELSE 0
    ELSE failures' = failures + 1 /\ UNCHANGED <<circuit, blind>>
ProviderFails(r) ==
    /\ reply[r] = "calling"
    /\ RecordFailure
    /\ Answer(r)
    /\ UNCHANGED <<conversation, asked, prompts, killed>>

(* The tools the provider asked for (at most three, a failure is noted) and  *)
(* its answer.  They save a draft or ask for a human: PublicConversation.    *)
RecordAnswer(r) ==
    /\ reply[r] = "answering"
    /\ Answer(r)
    /\ UNCHANGED <<conversation, asked, prompts, killed>> /\ KeepCircuit

(* With features.bot off, or without a provider.                             *)
Disabled(r) ==
    /\ reply[r] = "counting"
    /\ Answer(r)
    /\ UNCHANGED <<conversation, asked, prompts, killed>> /\ KeepCircuit

(* The handler dies, or a query of it fails.                                 *)
LoseReply(r) ==
    /\ reply[r] # "none" /\ (r \in Working => killed < MaxKills)
    /\ killed' = IF r \in Working THEN killed + 1 ELSE killed
    /\ Go(r, "none")
    /\ UNCHANGED <<conversation, asked, replied, overdue, prompts>> /\ KeepCircuit

(* botCircuitOpenMs pass; the requester confirms the draft.                  *)
CircuitElapses ==
    /\ circuit = "open" /\ circuit' = "elapsed"
    /\ UNCHANGED <<conversation, reply, asked, replied, overdue, prompts, killed, failures, blind>>
CreateTicket ==
    /\ conversation = "OPEN" /\ conversation' = "TICKET_CREATED"
    /\ UNCHANGED <<reply, asked, replied, overdue, prompts, killed>> /\ KeepCircuit

BotNext ==
    \/ \E r \in Replies :
         \/ RequireConversation(r) \/ RecordQuestion(r) \/ Disabled(r)
         \/ BudgetSpent(r) \/ CircuitIsOpen(r) \/ CircuitIsClosed(r) \/ CallProvider(r)
         \/ ProviderAnswers(r) \/ ProviderFails(r) \/ RecordAnswer(r) \/ LoseReply(r)
    \/ CircuitElapses \/ CreateTicket

-----------------------------------------------------------------------------

(* The provider is called beyond the budget at most once for each handler    *)
(* that was at work with the others, and for each one lost before its answer *)
(* was recorded (support-bot.service.ts:51, 172-186).                        *)
CallsBounded == prompts <= BotBudget + Cardinality(Replies) - 1 + killed

(* While the circuit is open nobody calls, but those who had looked at it    *)
(* before it opened (support-bot.service.ts:62-79).                          *)
CircuitHolds == blind <= Cardinality(Replies) - 1

(* A conversation that became a ticket gets at most the answers that were    *)
(* being prepared.                                                           *)
LateAnswersBounded == overdue <= Cardinality(Replies)
=============================================================================
