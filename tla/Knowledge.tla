------------------------------- MODULE Knowledge -------------------------------
(* An article of the knowledge base (support-knowledge.service.ts) and those *)
(* who edit it.  The form sends only the fields that changed; the service    *)
(* completes it with the article read before the transaction, and appends a  *)
(* version when the text differs from what it read.                          *)
EXTENDS Integers, SequencesExt

CONSTANTS
    Editors,
    Texts,         \* title, summary, content and language, together
    Sites,         \* integrations
    Kept,          \* a field the form leaves out
    MaxEdits       \* bound on the forms sent

ASSUME KnowledgeAssumption == Texts # {} /\ Kept \notin Texts /\ MaxEdits \in Nat

VARIABLES
    article,       \* the row of support_knowledge_articles
    grants,        \* the integrations that may serve it
    versions,      \* the texts of support_knowledge_versions, by version
    edits,         \* forms sent so far
    edit,          \* by editor: the step, the form, the article it read, the last version it saw
    stale,         \* the fields, text or state, put back by a save whose article was read before they changed
    wanted,         \* the state that a form asked for last
    served         \* texts found by the public search

knowledgeVars == <<article, grants, versions, edits, edit, stale, wanted, served>>

ArticleStates == {"DRAFT", "PUBLISHED", "ARCHIVED"}
Articles == [text: Texts, status: ArticleStates, dated: BOOLEAN]
Forms == [text: Texts \cup {Kept}, status: ArticleStates \cup {Kept}, sites: {Kept, {}, Sites}]
Choose(field, otherwise) == IF field = Kept THEN otherwise ELSE field

Reading(e) == edit[e].step = "read"
NoEdit(a, f) == [step |-> "none", form |-> f, read |-> a, last |-> 0]

KnowledgeTypeOK ==
    /\ article \in Articles /\ (article.status = "PUBLISHED" => article.dated)
    (* Whatever the article ever said is in its history.                     *)
    /\ versions \in Seq(Texts) /\ article.text \in ToSet(versions)
    /\ grants \subseteq Sites
    /\ edit \in [Editors -> [step: {"none", "read", "latest"}, form: Forms, read: Articles, last: 0 .. MaxEdits + 1]]
    /\ edits \in 0 .. MaxEdits
    /\ stale \subseteq {"text", "status"} /\ wanted \in ArticleStates /\ served \subseteq Texts

(* create: the article, its first version and its grants in one transaction. *)
KnowledgeInit ==
    LET text == CHOOSE t \in Texts : TRUE IN
    /\ article = [text |-> text, status |-> "DRAFT", dated |-> FALSE]
    /\ versions = <<text>> /\ grants = {}
    /\ edit = [e \in Editors |-> NoEdit(article, [text |-> Kept, status |-> Kept, sites |-> Kept])]
    /\ edits = 0 /\ stale = {} /\ wanted = "DRAFT" /\ served = {}

-----------------------------------------------------------------------------

(* update: the article is read, then, in a transaction, its last version ... *)
RequireArticle(e, form) ==
    /\ edit[e].step = "none" /\ edits < MaxEdits /\ edits' = edits + 1
    /\ edit' = [edit EXCEPT ![e] = [step |-> "read", form |-> form, read |-> article, last |-> 0]]
    /\ UNCHANGED <<article, grants, versions, stale, wanted, served>>

LatestVersion(e) ==
    /\ Reading(e)
    /\ edit' = [edit EXCEPT ![e].step = "latest", ![e].last = Len(versions)]
    /\ UNCHANGED <<article, grants, versions, edits, stale, wanted, served>>

(* ... what the form and the article read make together ...                  *)
Saved(e) ==
    LET form == edit[e].form  was == edit[e].read IN
    LET status == Choose(form.status, was.status) IN
    [text |-> Choose(form.text, was.text), status |-> status, dated |-> was.dated \/ status = "PUBLISHED"]
MutContentChanged(e) == edit[e].form.text # Kept /\ edit[e].read.status # "PUBLISHED"
ContentChanged(e) == Saved(e).text # edit[e].read.text
(* Without a word of the form, a field keeps what was read: it goes back     *)
(* when another save has changed it in between.                              *)
PutBack(e) ==
    LET was == edit[e].read IN
    (IF ~ContentChanged(e) /\ ("text" \in stale \/ was.text # article.text) THEN {"text"} ELSE {})
      \cup (IF edit[e].form.status = Kept /\ ("status" \in stale \/ was.status # article.status) THEN {"status"} ELSE {})

(* ... is saved: as a new version, whose number another transaction may have *)
(* taken (the unique index then undoes this one), and in the article.        *)
Granted(e) == Choose(edit[e].form.sites, grants)
Done(e) == edit' = [edit EXCEPT ![e] = NoEdit(article', [text |-> Kept, status |-> Kept, sites |-> Kept])]
SaveArticle(e) ==
    /\ edit[e].step = "latest" /\ (ContentChanged(e) => edit[e].last = Len(versions))
    /\ article' = Saved(e)
    /\ versions' = IF ContentChanged(e) THEN Append(versions, Saved(e).text) ELSE versions
    /\ grants' = Granted(e)
    /\ stale' = PutBack(e) /\ wanted' = Choose(edit[e].form.status, wanted)
    /\ Done(e)
    /\ UNCHANGED <<edits, served>>
VersionCollides(e) ==
    /\ edit[e].step = "latest" /\ ContentChanged(e) /\ edit[e].last # Len(versions)
    /\ UNCHANGED <<article, grants, versions, edits, stale, wanted, served>>
    /\ Done(e)

(* PublicKnowledgeService: one query for the articles, their state and grants. *)
Search(site) ==
    /\ article.status = "PUBLISHED" /\ site \in grants /\ article.text \notin served
    /\ served' = served \cup {article.text}
    /\ UNCHANGED <<article, grants, versions, edits, edit, stale, wanted>>

KnowledgeNext ==
    \/ \E e \in Editors :
         \/ \E form \in Forms : RequireArticle(e, form)
         \/ LatestVersion(e) \/ SaveArticle(e) \/ VersionCollides(e)
    \/ \E site \in Sites : Search(site)

-----------------------------------------------------------------------------

(* The article shows its last version.  Only a save that leaves the text     *)
(* alone may put an earlier one back, without a version, when it was read    *)
(* before another save changed it; the next save that changes the text mends *)
(* it (support-knowledge.service.ts:143-154, 175-185).                       *)
LatestIsShown == "text" \in stale \/ article.text = Last(versions)

(* The article is in the state that was asked for last: whoever archives it  *)
(* or publishes it is undone by no later form that says nothing of the       *)
(* state, unless the service read the article for it before.                 *)
StateAsAsked == "status" \in stale \/ article.status = wanted

(* Whatever the public was shown can be found in the history, also what a    *)
(* save put back, and what one wrote whose version number another one had    *)
(* taken.                                                                    *)
ServedIsInHistory == served \subseteq ToSet(versions)
=============================================================================
