------------------------------- MODULE Catalogue ------------------------------
(* Departments, categories and SLA policies (their three services): each     *)
(* operation looks, then writes, with no transaction; nature says which of   *)
(* the two tables is followed. Categories are deleted, departments marked.   *)
EXTENDS Integers, FiniteSets

CONSTANTS
    Managers,       \* calls that can run at once
    Ids, Labels    \* rows, and the names they can get

ASSUME CatalogueAssumption == IsFiniteSet(Ids)

VARIABLES
    nature,
    entry,         \* entry[i]: the row, its name, whether it is marked deleted
    refs,          \* <<what, i>>: some policy, user or ticket names the row i
    late,          \* references added once a removal of their row had counted their kind
    edit           \* edit[e]: the call under way

catalogueVars == <<nature, entry, refs, late, edit>>

NoEntryYet == [state |-> "none"]
NotEditing == [pc |-> "idle"]
Referrers == IF nature = "category" THEN {"policy", "ticket"} ELSE {"user", "ticket"}
FirstCounted == IF nature = "category" THEN "ticket" ELSE "user"
(* The kinds of references that a removal has counted when it is at pc.      *)
AlreadyCounted(pc) == CASE pc = "recount" -> {FirstCounted} [] pc = "remove" -> Referrers [] OTHER -> {}
Entries == {i \in Ids : entry[i].state \in {"live", "deleted"}}
Named(n) == {i \in Entries : entry[i].name = n}

CatalogueTypeOK ==
    /\ nature \in {"category", "department"}
    /\ entry \in [Ids -> {NoEntryYet, [state |-> "gone"]} \cup [state: {"live", "deleted"}, name: Labels]]
    /\ \A n \in Labels : Cardinality(Named(n)) <= 1
    /\ refs \subseteq {"policy", "ticket", "user"} \X Ids /\ late \subseteq refs
    /\ edit \in [Managers -> {NotEditing} \cup [pc: {"create", "rename"}, id: Ids, name: Labels]
                    \cup [pc: {"count", "recount", "remove"}, id: Ids] \cup [pc: {"refer"}, id: Ids, what: {"policy", "ticket", "user"}]]

CatalogueInit ==
    /\ nature \in {"category", "department"}
    /\ entry = [i \in Ids |-> NoEntryYet] /\ refs = {} /\ late = {}
    /\ edit = [e \in Managers |-> NotEditing]

Edits(e, c) == edit' = [edit EXCEPT ![e] = c]

(* The name is looked for among the rows, those marked deleted included.     *)
BeginCreateRow(e, i, n) ==
    /\ edit[e] = NotEditing /\ entry[i] = NoEntryYet /\ \A o \in Managers : edit[o].pc = "create" => edit[o].id # i
    /\ Named(n) = {}
    /\ Edits(e, [pc |-> "create", id |-> i, name |-> n])
    /\ UNCHANGED <<nature, entry, refs, late>>

(* Only the update of a category looks for the new name.                     *)
BeginRename(e, i, n) ==
    /\ edit[e] = NotEditing /\ entry[i].state = "live"
    /\ nature = "category" => Named(n) \subseteq {i}
    /\ Edits(e, [pc |-> "rename", id |-> i, name |-> n])
    /\ UNCHANGED <<nature, entry, refs, late>>

(* The unique index: the write that finds the name taken fails.              *)
NameTaken(i, n) == ~(Named(n) \subseteq {i})

WriteRow(e) ==
    LET c == edit[e] IN
    /\ c.pc \in {"create", "rename"} /\ Edits(e, NotEditing)
    /\ entry' = IF NameTaken(c.id, c.name) \/ (c.pc = "rename" /\ c.id \notin Entries) THEN entry
                ELSE IF c.pc = "create" THEN [entry EXCEPT ![c.id] = [state |-> "live", name |-> c.name]]
                ELSE [entry EXCEPT ![c.id].name = c.name]
    /\ UNCHANGED <<nature, refs, late>>

BeginRemoveRow(e, i) ==
    /\ edit[e] = NotEditing /\ entry[i].state = "live"
    /\ Edits(e, [pc |-> "count", id |-> i])
    /\ UNCHANGED <<nature, entry, refs, late>>

MutCountReferences(e) ==
    /\ edit[e].pc = "count"
    /\ Edits(e, IF <<FirstCounted, edit[e].id>> \in refs THEN NotEditing ELSE [edit[e] EXCEPT !.pc = "remove"])
    /\ UNCHANGED <<nature, entry, refs, late>>

(* Users, then tickets; for a category tickets, then policies.  The deleted  *)
(* ones count.                                                               *)
CountReferences(e) ==
    LET pc == edit[e].pc  next == IF pc = "count" THEN "recount" ELSE "remove"
        kinds == AlreadyCounted(next) \ AlreadyCounted(pc) IN
    /\ pc \in {"count", "recount"}
    /\ Edits(e, IF \E w \in kinds : <<w, edit[e].id>> \in refs THEN NotEditing ELSE [edit[e] EXCEPT !.pc = next])
    /\ UNCHANGED <<nature, entry, refs, late>>

(* The foreign keys refuse to delete a category in use.                      *)
Kept(i) == \E w \in Referrers : <<w, i>> \in refs

RemoveRow(e) ==
    LET i == edit[e].id IN
    /\ edit[e].pc = "remove" /\ Edits(e, NotEditing)
    /\ entry' = IF entry[i].state = "gone" THEN entry
                ELSE IF nature = "department" THEN [entry EXCEPT ![i].state = "deleted"]
                ELSE IF Kept(i) THEN entry ELSE [entry EXCEPT ![i] = [state |-> "gone"]]
    /\ UNCHANGED <<nature, refs, late>>

(* A policy, a user or a ticket names the row: a department may be marked    *)
(* deleted, since its users and tickets are not refused for that.            *)
BeginRefer(e, i, w) ==
    /\ edit[e] = NotEditing /\ w \in Referrers /\ i \in Entries
    /\ Edits(e, [pc |-> "refer", id |-> i, what |-> w])
    /\ UNCHANGED <<nature, entry, refs, late>>

Refer(e) ==
    LET i == edit[e].id  new == <<edit[e].what, i>> IN
    /\ edit[e].pc = "refer" /\ Edits(e, NotEditing)
    /\ IF i \in Entries
       THEN /\ refs' = refs \cup {new}
            /\ late' = IF \/ entry[i].state = "deleted"
                          \/ \E o \in Managers : new[1] \in AlreadyCounted(edit[o].pc) /\ edit[o].id = i
                       THEN late \cup ({new} \ refs) ELSE late
       ELSE UNCHANGED <<refs, late>>
    /\ UNCHANGED <<nature, entry>>

(* A user changes department, or a ticket category.                          *)
MoveOut(i) ==
    LET r == <<IF nature = "category" THEN "ticket" ELSE "user", i>> IN
    /\ r \in refs /\ refs' = refs \ {r} /\ late' = late \ {r}
    /\ UNCHANGED <<nature, entry, edit>>

CatalogueNext ==
    \/ \E e \in Managers, i \in Ids :
          \/ BeginRemoveRow(e, i)
          \/ \E n \in Labels : BeginCreateRow(e, i, n) \/ BeginRename(e, i, n)
          \/ \E w \in Referrers : BeginRefer(e, i, w)
    \/ \E e \in Managers : WriteRow(e) \/ CountReferences(e) \/ RemoveRow(e) \/ Refer(e)
    \/ \E i \in Ids : MoveOut(i)

CatalogueSpec == CatalogueInit /\ [][CatalogueNext]_catalogueVars

-----------------------------------------------------------------------------

(* Policies and tickets never lose their row, however their creation crosses *)
(* its removal.                                                              *)
ReferencesResolve == \A r \in refs : r[2] \in Entries

(* A department marked deleted has users and tickets only if they came after *)
(* its removal had counted their kind.                                       *)
DeletedHasOnlyLateReferences ==
    \A r \in refs : entry[r[2]].state = "deleted" => r \in late
=============================================================================
