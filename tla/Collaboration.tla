---------------------------- MODULE Collaboration -----------------------------
(* Comments, internal notes and attachments of one ticket: comments.service, *)
(* public-reply-persistence, internal-notes.service, attachments.service.    *)
(* A text is a comment or a note; a call reads, checks, then writes.         *)
EXTENDS Integers, FiniteSets

CONSTANTS
    Writers,       \* calls that can run at once
    Texts,         \* comments and notes, in creation order
    Versions       \* a bound: contents a text may get

ASSUME CollaborationAssumption == Texts \subseteq Nat \ {0} /\ IsFiniteSet(Texts) /\ Versions \in Nat \ {0}

VARIABLES
    public,        \* the ticket has an external requester
    visible,       \* the ticket is not deleted
    texts,         \* texts[t]: the row of the comment or note
    messages,      \* texts with a support_messages row
    published,     \* PUBLIC_REPLY_CREATED and _CORRECTED events of the outbox
    attached,      \* the row of the attachment followed: the text it hangs from
    object,        \* the file is in the storage
    call,          \* call[w]: what each call does
    cut            \* a removal stopped between the file and the row

collabVars == <<public, visible, texts, messages, published, attached, object, call, cut>>

NoText == [kind |-> "none"]
NoCall == [pc |-> "idle"]
Unattached == 0
Removed == -1
TextKinds == {"reply", "note", "requester"}      \* INTERNAL comment, note, EXTERNAL_REQUESTER comment

CollabTypeOK ==
    /\ public \in BOOLEAN /\ visible \in BOOLEAN /\ object \in BOOLEAN /\ cut \in BOOLEAN
    /\ texts \in [Texts -> {NoText, [kind |-> "gone"]}
          \cup [kind: TextKinds, version: 1 .. Versions, corrects: Texts \cup {Unattached}]]
    /\ messages \subseteq Texts /\ published \subseteq Texts
    /\ attached \in Texts \cup {Unattached, Removed}
    /\ attached \in Texts => texts[attached].kind \in TextKinds
    /\ \A w \in Writers : call[w].pc \in {"idle", "create", "update", "remove", "store", "insert", "unlink", "delete"}

CollabInit ==
    /\ public \in BOOLEAN /\ visible = TRUE
    /\ texts = [t \in Texts |-> NoText] /\ messages = {} /\ published = {}
    /\ attached = Unattached /\ object = FALSE /\ cut = FALSE
    /\ call = [w \in Writers |-> NoCall]

Calls(w, c) == call' = [call EXCEPT ![w] = c]
rowVars == <<texts, messages, published>>
fileVars == <<attached, object, cut>>
Free(w) == call[w] = NoCall /\ visible       \* assertTicketVisible

(* A reply that was published is immutable; a requester's text is not.       *)
Mutable(t) == texts[t].kind \in TextKinds /\ ~(public /\ texts[t].kind = "reply")

BeginCreate(w) ==
    /\ Free(w)
    /\ \E kind \in {"reply", "note"}, of \in Texts \cup {Unattached} :
          /\ of # Unattached => kind = "reply"
          /\ Calls(w, [pc |-> "create", kind |-> kind, of |-> of])
    /\ UNCHANGED <<public, visible, rowVars, fileVars>>

(* assertCorrectionTarget, in the transaction of the insertion.              *)
Correctable(of) == of \in Texts => texts[of].kind = "reply"

Row(t, kind, of) == texts' = [texts EXCEPT ![t] = [kind |-> kind, version |-> 1, corrects |-> of]]

(* A reply on a public ticket has its message and event in the same          *)
(* transaction; a refused correction rolls it back.                          *)
CreateText(w, t) ==
    LET c == call[w] IN
    /\ c.pc = "create" /\ texts[t] = NoText /\ Calls(w, NoCall)
    /\ IF ~Correctable(c.of) THEN UNCHANGED rowVars
       ELSE /\ Row(t, c.kind, c.of)
            /\ IF public /\ c.kind = "reply"
               THEN messages' = messages \cup {t} /\ published' = published \cup {t}
               ELSE UNCHANGED <<messages, published>>
    /\ UNCHANGED <<public, visible, fileVars>>

RequesterWrites(t) ==
    /\ public /\ visible /\ texts[t] = NoText
    /\ Row(t, "requester", Unattached) /\ messages' = messages \cup {t}
    /\ UNCHANGED <<public, visible, published, fileVars, call>>

BeginChange(w, t) ==
    /\ Free(w) /\ Mutable(t)
    /\ \E op \in {"update", "remove"} : Calls(w, [pc |-> op, of |-> t])
    /\ UNCHANGED <<public, visible, rowVars, fileVars>>

(* By id: nothing is written when the row is gone.                           *)
UpdateText(w) ==
    LET t == call[w].of IN
    /\ call[w].pc = "update" /\ Calls(w, NoCall)
    /\ \/ texts[t].kind \in TextKinds /\ texts[t].version < Versions
          /\ texts' = [texts EXCEPT ![t].version = @ + 1]
       \/ texts[t].kind \notin TextKinds /\ UNCHANGED texts
    /\ UNCHANGED <<public, visible, messages, published, fileVars>>

(* The foreign keys of attachments and support_messages, and of corrections  *)
(* when the row has an integration: without one the key is not enforced.     *)
Referred(t) == t \in messages \/ attached = t

RemoveText(w) ==
    LET t == call[w].of IN
    /\ call[w].pc = "remove" /\ Calls(w, NoCall)
    /\ texts' = IF Referred(t) THEN texts ELSE [texts EXCEPT ![t] = [kind |-> "gone"]]
    /\ UNCHANGED <<public, visible, messages, published, fileVars>>

BeginUpload(w, t) ==
    /\ Free(w) /\ texts[t].kind \in TextKinds /\ attached = Unattached /\ ~object
    /\ \A v \in Writers : call[v].pc \notin {"store", "insert"}
    /\ Calls(w, [pc |-> "store", of |-> t])
    /\ UNCHANGED <<public, visible, rowVars, fileVars>>

StoreFile(w) ==
    /\ call[w].pc = "store" /\ Calls(w, [call[w] EXCEPT !.pc = "insert"])
    /\ object' = TRUE
    /\ UNCHANGED <<public, visible, rowVars, attached, cut>>

(* The foreign key refuses a text removed since: the file is deleted.        *)
InsertFile(w) ==
    /\ call[w].pc = "insert" /\ Calls(w, NoCall)
    /\ IF texts[call[w].of].kind \in TextKinds
       THEN attached' = call[w].of /\ UNCHANGED object
       ELSE object' = FALSE /\ UNCHANGED attached
    /\ UNCHANGED <<public, visible, rowVars, cut>>

BeginRemoveFile(w) ==
    /\ Free(w) /\ attached \in Texts
    /\ Calls(w, [pc |-> "unlink"])
    /\ UNCHANGED <<public, visible, rowVars, fileVars>>

UnlinkFile(w) ==
    /\ call[w].pc = "unlink" /\ Calls(w, [pc |-> "delete"])
    /\ object' = FALSE
    /\ UNCHANGED <<public, visible, rowVars, attached, cut>>

DeleteFileRow(w) ==
    /\ call[w].pc = "delete" /\ Calls(w, NoCall)
    /\ attached' = Removed
    /\ UNCHANGED <<public, visible, rowVars, object, cut>>

(* The process stops, or the database refuses, in the middle of a call.      *)
CutCall(w) ==
    /\ call[w] # NoCall /\ Calls(w, NoCall)
    /\ cut' = (cut \/ call[w].pc = "delete")
    /\ UNCHANGED <<public, visible, rowVars, attached, object>>

DeleteTicket ==
    /\ visible /\ visible' = FALSE
    /\ UNCHANGED <<public, rowVars, fileVars, call>>

CollabNext ==
    \/ \E w \in Writers : BeginCreate(w) \/ UpdateText(w) \/ RemoveText(w)
          \/ StoreFile(w) \/ InsertFile(w) \/ BeginRemoveFile(w) \/ UnlinkFile(w) \/ DeleteFileRow(w) \/ CutCall(w)
    \/ \E w \in Writers, t \in Texts : CreateText(w, t) \/ BeginChange(w, t) \/ BeginUpload(w, t)
    \/ \E t \in Texts : RequesterWrites(t)
    \/ DeleteTicket

CollabSpec == CollabInit /\ [][CollabNext]_collabVars

-----------------------------------------------------------------------------

(* What the requester was sent stays: a reply of a public ticket is neither  *)
(* changed nor removed, whatever update or removal was under way.            *)
PublishedStays ==
    \A t \in Texts : t \in published => texts[t].kind = "reply" /\ texts[t].version = 1

(* Each reply on a public ticket has its message and its event, and nothing  *)
(* else has an event: a reply is seen, and announced, or does not exist.     *)
RepliesAreAnnounced ==
    \A t \in Texts : public /\ texts[t].kind = "reply" <=> t \in published

(* A correction of a published reply points to a reply that is there; on an  *)
(* internal ticket the reply it corrects may have been removed.              *)
CorrectionsResolve ==
    \A t \in published : texts[t].corrects # Unattached => texts[t].corrects \in published

(* The row of an attachment has its file, unless a removal is under way or   *)
(* was cut between the two.                                                  *)
AttachmentHasFile ==
    attached \in Texts /\ ~object => cut \/ \E w \in Writers : call[w].pc = "delete"
=============================================================================
