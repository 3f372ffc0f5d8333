------------------------- MODULE PublicConversation -------------------------
(* One conversation of the public portal, from the first draft to the ticket *)
(* and its follow-up (public-conversation, public-ticket, admission policy,  *)
(* materialisation of the files sent before the ticket).  Each call reads the*)
(* conversation without a lock and commits its writes later: the two are     *)
(* separate steps, and other calls of the same requester come in between.    *)
EXTENDS Integers, Sequences, FiniteSets

CONSTANTS
    Calls,       \* calls of the requester that can run at once
    MaxDrafts,   \* bound on the drafts saved
    MaxFiles     \* bound on the files uploaded

ASSUME ConversationAssumption == MaxDrafts \in Nat /\ MaxFiles \in Nat /\ IsFiniteSet(Calls)

VARIABLES
    conv,       \* the row of support_conversations
    tickets,    \* the tickets created from it: the draft and the route of each
    files,      \* where each uploaded file hangs
    drafts,     \* drafts saved, to number them
    calls,      \* calls[c]: what call c has read
    late,       \* drafts and files written on a conversation that has its ticket
    reverted    \* history: a handoff put back an older draft than the last

convVars == <<conv, tickets, files, drafts, calls, late, reverted>>

Sources == {"CATEGORY", "SERVICE", "DEFAULT_TRIAGE"}
Conversation ==
    [status: {"OPEN", "TICKET_CREATED"}, ticket: 0 .. 1,
     state: {"QUALIFY", "DRAFT", "CREATED", "FOLLOW_UP_OR_HANDOFF"},
     draft: 0 .. MaxDrafts, handoff: BOOLEAN]
NotCalling == [op |-> "none"]
(* History: the drafts and the files there were when a confirmation began.   *)
Known == [drafts: 0 .. MaxDrafts, files: 0 .. MaxFiles]
Modes == {"saveDraft", "handoff", "confirm", "upload", "comment"}

ConvTypeOK ==
    /\ conv \in Conversation
    /\ conv.status = "TICKET_CREATED" <=> conv.ticket # 0
    /\ tickets \in Seq([draft: 1 .. MaxDrafts, source: Sources, known: Known])
    /\ files \in Seq({"message", "comment"}) /\ Len(files) <= MaxFiles
    /\ drafts \in 0 .. MaxDrafts
    /\ calls \in [Calls -> {NotCalling} \cup [op: Modes, seen: Conversation, known: Known]
                    \cup [op: {"commit"}, seen: Conversation, known: Known, source: Sources,
                          moving: SUBSET (1 .. MaxFiles)]]
    /\ late \in Nat /\ reverted \in BOOLEAN

(* create: the conversation begins at QUALIFY.                               *)
ConvInit ==
    /\ conv = [status |-> "OPEN", ticket |-> 0, state |-> "QUALIFY", draft |-> 0, handoff |-> FALSE]
    /\ tickets = <<>> /\ files = <<>> /\ drafts = 0 /\ late = 0 /\ reverted = FALSE
    /\ calls = [c \in Calls |-> NotCalling]

-----------------------------------------------------------------------------
(* The admission policy of the integration.  A route is missing ("none"),    *)
(* leads to a deleted department ("dead"), or to a department, with its own  *)
(* priority and severity ("rated") or without ("bare").                      *)

Routes == {"none", "dead", "bare", "rated"}
Policies == [category: Routes, service: Routes, default: Routes, matrix: BOOLEAN]
Wishes == [allowed: BOOLEAN,    \* the category is one of the integration's
           service: BOOLEAN,    \* a service is named
           covered: BOOLEAN]    \* category, requester and SLA policy exist

ChosenRoute(p, w) ==
    CASE p.category # "none"             -> <<"CATEGORY", p.category>>
      [] w.service /\ p.service # "none" -> <<"SERVICE", p.service>>
      [] OTHER                           -> <<"DEFAULT_TRIAGE", p.default>>

(* A request is admitted when its route leads to a live department and its   *)
(* priority is known, from the impact and urgency matrix or from the route.  *)
Admitted(p, w) ==
    /\ w.allowed /\ w.covered
    /\ ChosenRoute(p, w)[2] \in IF p.matrix THEN {"bare", "rated"} ELSE {"rated"}

-----------------------------------------------------------------------------

MutUnfinished(op, row) == op = "confirm" => row.status = "OPEN" /\ row.ticket = 0
Unfinished(op, row) ==
    CASE op = "comment" -> row.ticket # 0
      [] op = "handoff" -> row.status = "OPEN"
      [] OTHER          -> row.status = "OPEN" /\ row.ticket = 0

(* The call reads the conversation; it is refused when that is finished (a   *)
(* comment, when there is no ticket yet).                                    *)
Read(c, op) ==
    /\ calls[c] = NotCalling /\ Unfinished(op, conv)
    /\ op = "confirm" => conv.draft # 0            \* parseDraft
    /\ calls' = [calls EXCEPT ![c] = [op |-> op, seen |-> conv,
         known |-> IF op = "confirm" THEN [drafts |-> drafts, files |-> Len(files)]
                   ELSE [drafts |-> 0, files |-> 0]]]
    /\ UNCHANGED <<conv, tickets, files, drafts, late, reverted>>

Return(c) == calls' = [calls EXCEPT ![c] = NotCalling]

(* The context is written whole, as read, with the new draft.                *)
SaveDraft(c) ==
    /\ calls[c].op = "saveDraft" /\ drafts < MaxDrafts
    /\ drafts' = drafts + 1
    /\ conv' = [conv EXCEPT !.state = "DRAFT", !.draft = drafts', !.handoff = calls[c].seen.handoff]
    /\ late' = IF conv.ticket # 0 THEN late + 1 ELSE late
    /\ Return(c) /\ UNCHANGED <<tickets, files, reverted>>

RequestHandoff(c) ==
    /\ calls[c].op = "handoff"
    /\ conv' = [conv EXCEPT !.state = "FOLLOW_UP_OR_HANDOFF", !.draft = calls[c].seen.draft, !.handoff = TRUE]
    /\ reverted' = (reverted \/ conv.draft # calls[c].seen.draft)
    /\ Return(c) /\ UNCHANGED <<tickets, files, drafts, late>>

(* The file is inserted with a message of its own.                           *)
Upload(c) ==
    /\ calls[c].op = "upload" /\ Len(files) < MaxFiles
    /\ files' = Append(files, "message")
    /\ late' = IF conv.ticket # 0 THEN late + 1 ELSE late
    /\ Return(c) /\ UNCHANGED <<conv, tickets, drafts, reverted>>

AddComment(c) ==
    /\ calls[c].op = "comment"
    /\ conv' = [conv EXCEPT !.state = "FOLLOW_UP_OR_HANDOFF"]
    /\ Return(c) /\ UNCHANGED <<tickets, files, drafts, late, reverted>>

(* confirm: admission, creation of the ticket and materialize, which reads   *)
(* the messages with files; all in one transaction.                          *)
Prepare(c) ==
    /\ calls[c].op = "confirm"
    /\ \E p \in Policies, w \in Wishes :
         /\ Admitted(p, w)
         /\ calls' = [calls EXCEPT ![c] =
              [op |-> "commit", seen |-> @.seen, known |-> @.known, source |-> ChosenRoute(p, w)[1],
               moving |-> {f \in DOMAIN files : files[f] = "message"}]]
    /\ UNCHANGED <<conv, tickets, files, drafts, late, reverted>>

(* Refused by the admission, or failed: the transaction is rolled back.      *)
Abandon(c) ==
    /\ calls[c] # NotCalling /\ Return(c)
    /\ UNCHANGED <<conv, tickets, files, drafts, late, reverted>>

(* The ticket, and the files that materialize had read, moved to it.         *)
MakeTicket(c) ==
    /\ tickets' = Append(tickets, [draft |-> calls[c].seen.draft, source |-> calls[c].source, known |-> calls[c].known])
    /\ conv' = [conv EXCEPT !.status = "TICKET_CREATED", !.ticket = Len(tickets'), !.state = "CREATED"]
    /\ files' = [f \in DOMAIN files |-> IF f \in calls[c].moving THEN "comment" ELSE files[f]]
    /\ Return(c) /\ UNCHANGED <<drafts, late, reverted>>

MutCommitTicket(c) == calls[c].op = "commit" /\ MakeTicket(c)

(* The conversation is updated where its status is still OPEN; otherwise     *)
(* everything is rolled back (Abandon).                                      *)
CommitTicket(c) == calls[c].op = "commit" /\ conv.status = "OPEN" /\ MakeTicket(c)

ConvNext ==
    \/ \E c \in Calls, op \in Modes : Read(c, op)
    \/ \E c \in Calls : SaveDraft(c) \/ RequestHandoff(c) \/ Upload(c) \/ AddComment(c)
    \/ \E c \in Calls : Prepare(c) \/ CommitTicket(c) \/ Abandon(c)

ConvSpec == ConvInit /\ [][ConvNext]_convVars

-----------------------------------------------------------------------------

(* Confirmations at the same time and repeated ones create one ticket, the   *)
(* one the conversation shows, with the draft its confirmation had read.     *)
OneTicket == Len(tickets) = conv.ticket /\ conv.ticket <= 1

(* The ticket says what the last draft saved before its confirmation began   *)
(* said, unless a handoff that had read the conversation earlier put an older*)
(* draft back.                                                               *)
LastDraftReachesTicket ==
    \A t \in DOMAIN tickets : tickets[t].draft = tickets[t].known.drafts \/ reverted

(* Every file uploaded before the confirmation began hangs on a comment of   *)
(* the ticket.                                                               *)
FilesReachTicket ==
    \A t \in DOMAIN tickets : \A f \in 1 .. tickets[t].known.files : files[f] = "comment"

(* A draft saved after the ticket is lost, and a file uploaded after it is   *)
(* never moved to it: only calls that were already under way at the          *)
(* confirmation can write so late, once each.                                *)
LateWritesBounded == late <= Cardinality(Calls)
=============================================================================
