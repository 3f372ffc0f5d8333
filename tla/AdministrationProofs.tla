-------------------------- MODULE AdministrationProofs --------------------------
(* Proofs about what administrators, supervisors and operators do and are    *)
(* told, for any number of them, of accounts, sites, tickets and instances:  *)
(* each component has its inductive invariant, what it implies, and the steps*)
(* that keep it; the joint specification conjoins them at the end.           *)
EXTENDS MCAdministration, FiniteSetTheorems, TLAPS

(* Finite sets that grow or shrink by one element.                           *)
LEMMA NoMore ==
  ASSUME NEW A, IsFiniteSet(A), NEW B, B \subseteq A
  PROVE  /\ IsFiniteSet(B) /\ Cardinality(A) \in Nat /\ Cardinality(B) \in Nat
         /\ Cardinality(B) <= Cardinality(A)
BY FS_Subset, FS_CardinalityType

LEMMA OneMore ==
  ASSUME NEW A, IsFiniteSet(A), NEW x, NEW B, B \subseteq A \cup {x}
  PROVE  /\ IsFiniteSet(B) /\ Cardinality(A) \in Nat /\ Cardinality(B) \in Nat
         /\ Cardinality(B) <= Cardinality(A) + 1
<1>1. IsFiniteSet(A \cup {x}) /\ Cardinality(A \cup {x}) <= Cardinality(A) + 1 /\ Cardinality(A) \in Nat
  BY FS_AddElement, FS_CardinalityType
<1> QED
  BY <1>1, FS_Subset, FS_CardinalityType

LEMMA OneLess ==
  ASSUME NEW A, IsFiniteSet(A), NEW x \in A, NEW B, B \subseteq A \ {x}
  PROVE  /\ IsFiniteSet(B) /\ Cardinality(A) \in Nat /\ Cardinality(B) \in Nat
         /\ Cardinality(B) + 1 <= Cardinality(A)
<1>1. IsFiniteSet(A \ {x}) /\ Cardinality(A \ {x}) = Cardinality(A) - 1 /\ Cardinality(A) \in Nat
  BY FS_RemoveElement, FS_CardinalityType
<1> QED
  BY <1>1, FS_Subset, FS_CardinalityType

-----------------------------------------------------------------------------
(* The account of an employee.                                               *)

ProfileRows == [state: {"none", "live", "deleted"}, active: BOOLEAN, role: SUBSET Roles, bound: BOOLEAN]
RealmRows == [exists: BOOLEAN, enabled: BOOLEAN, roles: SUBSET Roles]
CallRows == [pc: CallSteps, op: {"create", "update", "activate", "deactivate"}, role: SUBSET Roles,
             drop: SUBSET Roles, grant: SUBSET Roles]
AtMostOne(S) == \A s, t \in S : s = t
Single(S) == \E r \in Roles : S = {r}

RowsOK(p, q) ==
  /\ p \in ProfileRows /\ q \in RealmRows
  /\ IF p.state = "none" THEN p = NoRow ELSE Single(p.role)
  /\ (p.bound => q.exists) /\ (q.enabled => q.exists)

CreateSteps == {"insert", "provision", "password", "account", "bind", "undo", "roles", "remove", "add"}

(* What holds of any operation, whatever crosses it.                         *)
CallOK(c, p, q) ==
  /\ c.op = "create" => c.pc \in CreateSteps
  /\ c.op = "update" => c.pc \in {"subject", "roles", "remove", "add"}
  /\ c.op \in {"activate", "deactivate"} => c.pc \in {"switch", "subject", "enable"}
  /\ c.op \in {"create", "update"} => Single(c.role)
  /\ c.op # "create" \/ c.pc # "insert" => p.state # "none"
  /\ c.op = "create" /\ c.pc \notin {"insert", "provision", "undo"} => q.exists
  /\ c.pc = "enable" => q.exists

(* What the roles that it read are worth, when nothing crosses it.           *)
SyncOK(c, q) ==
  /\ c.pc = "remove" => c.drop = q.roles \ c.role /\ c.grant = c.role \ q.roles
  /\ c.pc = "add" => q.roles \subseteq c.role /\ c.grant = c.role \ q.roles

(* How far it got, when nothing failed either.                               *)
FollowOK(c, p, q) ==
  CASE c.op = "create" ->
         /\ c.pc = "insert" => p.state # "live"
         /\ c.pc \notin {"insert", "undo"} => p.state = "live" /\ p.active /\ p.role = c.role
         /\ c.pc \notin {"insert", "provision", "undo"} => q.enabled
         /\ c.pc \in {"account", "bind"} => q.roles = c.role
    [] c.op = "update" -> p.state = "live" /\ p.bound /\ q.enabled = p.active /\ p.role = c.role
    [] OTHER ->
         /\ p.state = "live" /\ p.bound /\ q.roles = p.role
         /\ c.pc # "switch" => p.active = (c.op = "activate")
IdleOK(p, q) == p.state = "live" => p.bound /\ q.enabled = p.active /\ q.roles = p.role

Provisions(c) == c # NoCall /\ c.op = "create" /\ c.pc # "insert"

AccountInv ==
  /\ profile \in ProfileRows /\ realm \in RealmRows /\ calls \in [Admins -> {NoCall} \cup CallRows]
  /\ broken \in BOOLEAN /\ crossed \in BOOLEAN
  /\ RowsOK(profile, realm)
  /\ \A a \in Admins : calls[a] # NoCall => CallOK(calls[a], profile, realm)
  /\ profile.state = "live" /\ ~profile.bound /\ ~broken => \E a \in Admins : Provisions(calls[a])
  /\ ~crossed =>
       /\ \A a, b \in Admins : calls[a] # NoCall /\ calls[b] # NoCall => a = b
       /\ AtMostOne(realm.roles)
       /\ \A a \in Admins : calls[a] # NoCall => SyncOK(calls[a], realm)
  /\ ~crossed /\ ~broken =>
       /\ (\A a \in Admins : calls[a] = NoCall) => IdleOK(profile, realm)
       /\ \A a \in Admins : calls[a] # NoCall => FollowOK(calls[a], profile, realm)

LEMMA AccountConstants ==
  /\ \A c \in CallRows : c # NoCall /\ c.pc \in CallSteps /\ c.pc # "idle"
  /\ NoRow \in ProfileRows /\ NoRow.state = "none" /\ ~NoRow.bound /\ NoRow.role = {}
BY DEF NoCall, CallRows, CallSteps, NoRow, ProfileRows

LEMMA AccountInitHolds == AccountInit => AccountInv
<1> SUFFICES ASSUME AccountInit PROVE AccountInv
  OBVIOUS
<1>1. PICK q : q = [exists |-> FALSE, enabled |-> FALSE, roles |-> {}]
  OBVIOUS
<1>2. q \in RealmRows /\ ~q.exists /\ ~q.enabled /\ q.roles = {}
  BY <1>1 DEF RealmRows
<1>3. profile = NoRow /\ realm = q /\ broken = FALSE /\ crossed = FALSE /\ \A a \in Admins : calls[a] = NoCall
  BY <1>1 DEF AccountInit
<1>4. calls \in [Admins -> {NoCall} \cup CallRows]
  BY DEF AccountInit
<1>5. RowsOK(profile, realm)
  BY <1>2, <1>3, AccountConstants DEF RowsOK
<1>6. AtMostOne(realm.roles) /\ IdleOK(profile, realm)
  BY <1>2, <1>3, AccountConstants DEF AtMostOne, IdleOK
<1> QED
  BY <1>2, <1>3, <1>4, <1>5, <1>6, AccountConstants DEF AccountInv

(* A step of the operation a, from what it was doing to c.                   *)
LEMMA CallMoves ==
  ASSUME AccountInv, NEW a \in Admins, calls[a] # NoCall, NEW c \in {NoCall} \cup CallRows, NEW p, NEW q, NEW k \in BOOLEAN,
         calls' = [calls EXCEPT ![a] = c], p = profile', q = realm', k = broken', UNCHANGED crossed,
         RowsOK(p, q), profile.state # "none" => p.state # "none", realm.exists => q.exists, broken => k,
         c # NoCall => CallOK(c, p, q),
         p.state = "live" /\ ~p.bound /\ ~k =>
            \/ Provisions(c)
            \/ profile.state = "live" /\ ~profile.bound /\ ~Provisions(calls[a]),
         ~crossed => AtMostOne(q.roles) /\ (c # NoCall => SyncOK(c, q)),
         ~crossed /\ ~k => IF c = NoCall THEN IdleOK(p, q) ELSE FollowOK(c, p, q)
  PROVE  AccountInv'
<1>1. PICK D : D = calls'
  OBVIOUS
<1>2. D \in [Admins -> {NoCall} \cup CallRows] /\ D[a] = c /\ \A b \in Admins : b # a => D[b] = calls[b]
  BY <1>1 DEF AccountInv
<1>3. p \in ProfileRows /\ q \in RealmRows /\ crossed \in BOOLEAN /\ broken \in BOOLEAN
  BY DEF RowsOK, AccountInv
<1>4. ASSUME NEW b \in Admins, D[b] # NoCall
      PROVE  CallOK(D[b], p, q)
  <2>1. CASE b = a
    BY <1>2, <1>4, <2>1
  <2>2. CASE b # a
    <3>1. CallOK(calls[b], profile, realm)
      BY <1>2, <1>4, <2>2 DEF AccountInv
    <3> QED
      BY <1>2, <2>2, <3>1 DEF CallOK
  <2> QED
    BY <2>1, <2>2
<1>5. ASSUME p.state = "live", ~p.bound, ~k
      PROVE  \E b \in Admins : Provisions(D[b])
  <2>1. CASE Provisions(c)
    BY <1>2, <2>1
  <2>2. CASE profile.state = "live" /\ ~profile.bound /\ ~Provisions(calls[a])
    <3>1. PICK b \in Admins : Provisions(calls[b])
      BY <1>3, <1>5, <2>2 DEF AccountInv
    <3> QED
      BY <1>2, <2>2, <3>1
  <2> QED
    BY <1>5, <2>1, <2>2
<1>6. ASSUME ~crossed
      PROVE  /\ \A b \in Admins : b # a => D[b] = NoCall
             /\ \A b, e \in Admins : D[b] # NoCall /\ D[e] # NoCall => b = e
             /\ \A b \in Admins : D[b] # NoCall => SyncOK(D[b], q)
  <2>1. \A b \in Admins : b # a => D[b] = NoCall
    BY <1>2, <1>6 DEF AccountInv
  <2> QED
    BY <1>2, <1>6, <2>1
<1>7. ASSUME ~crossed, ~k
      PROVE  /\ (\A b \in Admins : D[b] = NoCall) => IdleOK(p, q)
             /\ \A b \in Admins : D[b] # NoCall => FollowOK(D[b], p, q)
  BY <1>2, <1>6, <1>7
<1> QED
  BY <1>1, <1>2, <1>3, <1>4, <1>5, <1>6, <1>7 DEF AccountInv

(* What is known of an operation at work.                                    *)
LEMMA CallKnown ==
  ASSUME AccountInv, NEW a \in Admins, calls[a] # NoCall
  PROVE  /\ calls[a] \in CallRows /\ RowsOK(profile, realm) /\ CallOK(calls[a], profile, realm)
         /\ profile \in ProfileRows /\ realm \in RealmRows /\ broken \in BOOLEAN /\ crossed \in BOOLEAN
         /\ ~crossed => AtMostOne(realm.roles) /\ SyncOK(calls[a], realm)
         /\ ~crossed /\ ~broken => FollowOK(calls[a], profile, realm)
BY DEF AccountInv

LEMMA CallAdvances ==
  ASSUME AccountInv, NEW a \in Admins, calls[a] # NoCall, NEW pc \in CallSteps, Advance(a, pc)
  PROVE  \E c \in CallRows :
            /\ calls' = [calls EXCEPT ![a] = c]
            /\ c.pc = pc /\ c.op = calls[a].op /\ c.role = calls[a].role /\ c.drop = calls[a].drop /\ c.grant = calls[a].grant
<1>1. PICK d \in CallRows : d = calls[a]
  BY DEF AccountInv
<1>2. PICK c : c = [d EXCEPT !.pc = pc]
  OBVIOUS
<1>3. c \in CallRows /\ c.pc = pc /\ c.op = d.op /\ c.role = d.role /\ c.drop = d.drop /\ c.grant = d.grant
  BY <1>2 DEF CallRows
<1>4. calls' = [calls EXCEPT ![a] = c]
  BY <1>1, <1>2 DEF Advance
<1> QED
  BY <1>1, <1>3, <1>4

(* An operation whose call failed, with or without its effect.               *)
LEMMA CallGivesUp ==
  ASSUME AccountInv, NEW a \in Admins, calls[a] # NoCall, calls[a].pc \notin {"insert", "undo"}, GiveUp(a),
         UNCHANGED <<profile, crossed>>, NEW q, q = realm', RowsOK(profile, q), realm.exists => q.exists,
         ~crossed => AtMostOne(q.roles)
  PROVE  AccountInv'
<1>1. /\ calls[a] \in CallRows /\ CallOK(calls[a], profile, realm) /\ broken \in BOOLEAN /\ crossed \in BOOLEAN
  BY CallKnown
<1>2. CASE Op(a) = "create"
  <2>1. Advance(a, "undo") /\ UNCHANGED broken /\ "undo" \in CallSteps
    BY <1>2 DEF GiveUp, CallSteps
  <2>2. PICK c \in CallRows : calls' = [calls EXCEPT ![a] = c] /\ c.pc = "undo" /\ c.op = "create" /\ c.role = calls[a].role
    BY <1>2, <2>1, CallAdvances DEF Op
  <2>3. CallOK(c, profile, q) /\ SyncOK(c, q) /\ FollowOK(c, profile, q) /\ Provisions(c) /\ c # NoCall
    BY <1>1, <1>2, <2>2, AccountConstants DEF CallOK, SyncOK, FollowOK, Provisions, CreateSteps, Op
  <2> QED
    BY <1>1, <2>1, <2>2, <2>3, CallMoves
<1>3. CASE Op(a) # "create"
  <2>1. calls' = [calls EXCEPT ![a] = NoCall] /\ broken' = TRUE
    BY <1>3 DEF GiveUp, Finish
  <2> QED
    BY <1>1, <2>1, CallMoves
<1> QED
  BY <1>2, <1>3

(* An operation that goes on, with the realm changed by what it called.      *)
LEMMA CallGoesOn ==
  ASSUME AccountInv, NEW a \in Admins, calls[a] # NoCall, NEW pc \in CallSteps, Advance(a, pc),
         UNCHANGED <<profile, broken, crossed>>, NEW q, q = realm', RowsOK(profile, q), realm.exists => q.exists,
         ~crossed => AtMostOne(q.roles), calls[a].op = "create" => calls[a].pc # "insert" /\ pc # "insert",
         \A c \in CallRows : c.pc = pc /\ c.op = calls[a].op /\ c.role = calls[a].role /\ c.drop = calls[a].drop /\ c.grant = calls[a].grant =>
            /\ CallOK(c, profile, q)
            /\ ~crossed => SyncOK(c, q)
            /\ ~crossed /\ ~broken => FollowOK(c, profile, q)
  PROVE  AccountInv'
<1>1. PICK c \in CallRows :
            /\ calls' = [calls EXCEPT ![a] = c]
            /\ c.pc = pc /\ c.op = calls[a].op /\ c.role = calls[a].role /\ c.drop = calls[a].drop /\ c.grant = calls[a].grant
  BY CallAdvances
<1>2. c # NoCall /\ broken \in BOOLEAN
  BY AccountConstants DEF AccountInv
<1>3. Provisions(c) \/ ~Provisions(calls[a])
  BY <1>1, <1>2 DEF Provisions
<1>4. CallOK(c, profile, q) /\ (~crossed => SyncOK(c, q)) /\ (~crossed /\ ~broken => FollowOK(c, profile, q))
  BY <1>1
<1> QED
  BY <1>1, <1>2, <1>3, <1>4, CallMoves

LEMMA AccountStepHolds == AccountInv /\ [AccountNext]_accountVars => AccountInv'
<1> SUFFICES ASSUME AccountInv, [AccountNext]_accountVars PROVE AccountInv'
  OBVIOUS
<1>1. /\ profile \in ProfileRows /\ realm \in RealmRows /\ calls \in [Admins -> {NoCall} \cup CallRows]
      /\ broken \in BOOLEAN /\ crossed \in BOOLEAN /\ RowsOK(profile, realm)
  BY DEF AccountInv
<1>2. ASSUME NEW a \in Admins, calls[a] # NoCall PROVE ~crossed => AtMostOne(realm.roles)
  BY <1>2, CallKnown
<1>3. ASSUME NEW a \in Admins, calls[a].pc # "idle" PROVE calls[a] # NoCall
  BY <1>3 DEF NoCall
(* An operation that begins.                                                 *)
<1>4. ASSUME NEW a \in Admins, NEW op \in {"create", "update", "activate", "deactivate"}, NEW pc \in CallSteps, NEW R \in SUBSET Roles,
             BeginCall(a, op, pc, R), NEW p, p = profile', RowsOK(p, realm), p.state = profile.state, p.bound = profile.bound,
             op = "create" => pc = "insert", pc \notin {"remove", "add"},
             \A c \in CallRows : c.pc = pc /\ c.op = op /\ c.role = R =>
               CallOK(c, p, realm) /\ (~crossed /\ ~broken /\ IdleOK(profile, realm) => FollowOK(c, p, realm))
      PROVE  AccountInv'
  <2>1. PICK c : c = [pc |-> pc, op |-> op, role |-> R, drop |-> {}, grant |-> {}]
    OBVIOUS
  <2>2. c \in CallRows /\ c.pc = pc /\ c.op = op /\ c.role = R /\ c # NoCall
    <3>1. c \in CallRows /\ c.pc = pc /\ c.op = op /\ c.role = R
      BY <2>1 DEF CallRows
    <3> QED
      BY <3>1, AccountConstants
  <2>3. PICK D : D = calls'
    OBVIOUS
  <2>4. D = [calls EXCEPT ![a] = c] /\ calls[a] = NoCall /\ UNCHANGED <<realm, broken>>
    BY <1>4, <2>1, <2>3 DEF BeginCall
  <2>5. PICK x \in BOOLEAN : x = crossed' /\ x = (crossed \/ \E b \in Admins : calls[b] # NoCall)
    BY <1>1, <1>4 DEF BeginCall
  <2>6. D \in [Admins -> {NoCall} \cup CallRows] /\ D[a] = c /\ \A b \in Admins : b # a => D[b] = calls[b]
    BY <1>1, <2>2, <2>4
  <2>7. ASSUME NEW b \in Admins, D[b] # NoCall
        PROVE  CallOK(D[b], p, realm)
    <3>1. CASE b = a
      BY <1>4, <2>2, <2>6, <3>1
    <3>2. CASE b # a
      <4>1. CallOK(calls[b], profile, realm)
        BY <2>6, <2>7, <3>2 DEF AccountInv
      <4> QED
        BY <1>4, <2>6, <3>2, <4>1 DEF CallOK
    <3> QED
      BY <3>1, <3>2
  <2>8. p.state = "live" /\ ~p.bound /\ ~broken => \E b \in Admins : Provisions(D[b])
    <3>1. ASSUME p.state = "live", ~p.bound, ~broken PROVE \E b \in Admins : Provisions(D[b])
      <4>1. PICK b \in Admins : Provisions(calls[b])
        BY <1>4, <3>1 DEF AccountInv
      <4> QED
        BY <2>4, <2>6, <4>1 DEF Provisions
    <3> QED
      BY <3>1
  <2>9. ASSUME ~x
        PROVE  /\ \A b, e \in Admins : D[b] # NoCall /\ D[e] # NoCall => b = e
               /\ AtMostOne(realm.roles) /\ \A b \in Admins : D[b] # NoCall => SyncOK(D[b], realm)
               /\ ~broken => \A b \in Admins : D[b] # NoCall => FollowOK(D[b], p, realm)
    <3>1. ~crossed /\ \A b \in Admins : calls[b] = NoCall
      BY <1>1, <2>5, <2>9
    <3>2. AtMostOne(realm.roles) /\ (~broken => IdleOK(profile, realm))
      BY <3>1 DEF AccountInv
    <3>3. SyncOK(c, realm)
      BY <1>4, <2>2 DEF SyncOK
    <3>4. ~broken => FollowOK(c, p, realm)
      BY <1>4, <2>2, <3>1, <3>2
    <3> QED
      BY <2>6, <3>1, <3>2, <3>3, <3>4
  <2>10. p \in ProfileRows /\ \E b \in Admins : D[b] # NoCall
    BY <1>4, <2>2, <2>6 DEF RowsOK
  <2> QED
    BY <1>1, <1>4, <2>3, <2>4, <2>5, <2>6, <2>7, <2>8, <2>9, <2>10 DEF AccountInv
<1>5. ASSUME NEW a \in Admins, NEW r \in Roles, StartCreate(a, r) PROVE AccountInv'
  <2>1. profile.state # "live" /\ BeginCall(a, "create", "insert", {r}) /\ UNCHANGED profile
    BY <1>5 DEF StartCreate
  <2>2. "insert" \in CallSteps /\ {r} \in SUBSET Roles
    BY DEF CallSteps
  <2>3. PICK p : p = profile'
    OBVIOUS
  <2>4. ASSUME NEW c \in CallRows, c.pc = "insert" /\ c.op = "create" /\ c.role = {r}
        PROVE  CallOK(c, p, realm) /\ FollowOK(c, p, realm)
    BY <2>1, <2>3, <2>4 DEF CallOK, FollowOK, CreateSteps, Single
  <2> QED
    BY <1>1, <1>4, <2>1, <2>2, <2>3, <2>4
<1>6. ASSUME NEW a \in Admins, NEW r \in Roles, UpdateRole(a, r) PROVE AccountInv'
  <2>1. profile.state = "live" /\ profile' = [profile EXCEPT !.role = {r}] /\ BeginCall(a, "update", "subject", {r})
    BY <1>6 DEF UpdateRole
  <2>2. "subject" \in CallSteps /\ {r} \in SUBSET Roles
    BY DEF CallSteps
  <2>3. PICK p : p = [profile EXCEPT !.role = {r}]
    OBVIOUS
  <2>4. p \in ProfileRows /\ p.state = profile.state /\ p.bound = profile.bound /\ p.active = profile.active /\ p.role = {r}
    BY <1>1, <2>3 DEF ProfileRows
  <2>5. RowsOK(p, realm)
    BY <1>1, <2>1, <2>4 DEF RowsOK, Single
  <2>6. PICK R \in SUBSET Roles : R = {r}
    BY <2>2
  <2>7. ASSUME NEW c \in CallRows, c.pc = "subject", c.op = "update", c.role = R
        PROVE  CallOK(c, p, realm) /\ (IdleOK(profile, realm) => FollowOK(c, p, realm))
    BY <2>1, <2>4, <2>6, <2>7 DEF CallOK, FollowOK, IdleOK, Single
  <2>8. BeginCall(a, "update", "subject", R) /\ p = profile'
    BY <2>1, <2>3, <2>6
  <2> QED
    BY <1>4, <2>2, <2>4, <2>5, <2>7, <2>8
<1>7. ASSUME NEW a \in Admins, NEW op \in {"activate", "deactivate"}, StartSwitch(a, op) PROVE AccountInv'
  <2>1. profile.state = "live" /\ profile.active = (op = "deactivate") /\ BeginCall(a, op, "switch", {}) /\ UNCHANGED profile
    BY <1>7 DEF StartSwitch
  <2>2. "switch" \in CallSteps /\ {} \in SUBSET Roles
    BY DEF CallSteps
  <2>3. PICK p : p = profile'
    OBVIOUS
  <2>4. ASSUME NEW c \in CallRows, c.pc = "switch" /\ c.op = op /\ c.role = {}
        PROVE  CallOK(c, p, realm) /\ (IdleOK(profile, realm) => FollowOK(c, p, realm))
    BY <2>1, <2>3, <2>4 DEF CallOK, FollowOK, IdleOK
  <2> QED
    BY <1>1, <1>4, <2>1, <2>2, <2>3, <2>4
<1>8. ASSUME NEW a \in Admins, InsertUser(a) PROVE AccountInv'
  <2>1. /\ calls[a] # NoCall /\ calls[a] \in CallRows /\ CallOK(calls[a], profile, realm) /\ calls[a].pc = "insert"
        /\ UNCHANGED <<realm, broken, crossed>>
    BY <1>1, <1>3, <1>8, CallKnown DEF InsertUser, Reached
  <2>2. calls[a].op = "create" /\ Single(calls[a].role)
    BY <2>1 DEF CallOK, CallRows
  <2>3. CASE profile.state = "none"
    <3>1. PICK p : p = [state |-> "live", active |-> TRUE, role |-> calls[a].role, bound |-> FALSE]
      OBVIOUS
    <3>2. p \in ProfileRows /\ p.state = "live" /\ p.active /\ p.role = calls[a].role /\ ~p.bound
      BY <2>1, <3>1 DEF ProfileRows, CallRows
    <3>3. RowsOK(p, realm) /\ profile' = p /\ Advance(a, "provision") /\ "provision" \in CallSteps
      BY <1>1, <1>8, <2>2, <2>3, <3>1, <3>2 DEF InsertUser, RowsOK, CallSteps
    <3>4. PICK c \in CallRows : calls' = [calls EXCEPT ![a] = c] /\ c.pc = "provision" /\ c.op = "create" /\ c.role = calls[a].role
      BY <2>1, <2>2, <3>3, CallAdvances
    <3>5. /\ c # NoCall /\ CallOK(c, p, realm) /\ SyncOK(c, realm) /\ Provisions(c)
          /\ FollowOK(c, p, realm)
      BY <2>2, <3>2, <3>4, AccountConstants DEF CallOK, SyncOK, FollowOK, Provisions, CreateSteps
    <3> QED
      BY <1>1, <1>2, <2>1, <3>2, <3>3, <3>4, <3>5, CallMoves
  <2>4. CASE profile.state # "none"
    <3>1. calls' = [calls EXCEPT ![a] = NoCall] /\ UNCHANGED profile
      BY <1>8, <2>4 DEF InsertUser, Finish
    <3>2. ~Provisions(calls[a])
      BY <2>1 DEF Provisions
    <3>3. ~crossed /\ ~broken => IdleOK(profile, realm)
      BY <2>1, <2>2, CallKnown DEF FollowOK, IdleOK
    <3> QED
      BY <1>1, <1>2, <2>1, <3>1, <3>2, <3>3, CallMoves
  <2> QED
    BY <2>3, <2>4
<1>9. ASSUME NEW a \in Admins, CreateRealmUser(a) PROVE AccountInv'
  <2>1. /\ calls[a] # NoCall /\ calls[a] \in CallRows /\ CallOK(calls[a], profile, realm) /\ calls[a].pc = "provision"
        /\ UNCHANGED <<profile, crossed>>
    BY <1>1, <1>3, <1>9, CallKnown DEF CreateRealmUser, Reached
  <2>2. calls[a].op = "create" /\ Single(calls[a].role)
    BY <2>1 DEF CallOK, CallRows
  <2>3. PICK q : q = [exists |-> TRUE, enabled |-> TRUE, roles |-> {}]
    OBVIOUS
  <2>4. q \in RealmRows /\ q.exists /\ q.enabled /\ q.roles = {}
    BY <2>3 DEF RealmRows
  <2>5. RowsOK(profile, q) /\ AtMostOne(q.roles)
    BY <1>1, <2>4 DEF RowsOK, AtMostOne
  <2>6. CASE realm' = q /\ Advance(a, "password") /\ UNCHANGED broken
    <3>1. ASSUME NEW c \in CallRows, c.pc = "password", c.op = calls[a].op, c.role = calls[a].role
          PROVE  CallOK(c, profile, q) /\ SyncOK(c, q) /\ (~crossed /\ ~broken => FollowOK(c, profile, q))
      BY <2>1, <2>2, <2>4, <3>1, CallKnown DEF CallOK, SyncOK, FollowOK, CreateSteps
    <3>2. "password" \in CallSteps
      BY DEF CallSteps
    <3> QED
      BY <2>1, <2>4, <2>5, <2>6, <3>1, <3>2, CallGoesOn
  <2>7. CASE (realm' = q \/ UNCHANGED realm) /\ GiveUp(a)
    BY <1>1, <1>2, <2>1, <2>4, <2>5, <2>7, CallGivesUp
  <2> QED
    BY <1>9, <2>3, <2>6, <2>7 DEF CreateRealmUser, OrGiveUp
(* A call that leaves the realm as it is.                                    *)
<1>10. ASSUME NEW a \in Admins, NEW pc \in CallSteps, Advance(a, pc), UNCHANGED <<profile, realm, broken, crossed>>,
              calls[a].pc \notin {"idle", "insert"}, pc # "insert",
              \A c \in CallRows : c.pc = pc /\ c.op = calls[a].op /\ c.role = calls[a].role =>
                 /\ CallOK(c, profile, realm) /\ SyncOK(c, realm)
                 /\ ~crossed /\ ~broken => FollowOK(c, profile, realm)
       PROVE  AccountInv'
  BY <1>1, <1>2, <1>3, <1>10, CallGoesOn
<1>11. ASSUME NEW a \in Admins, ResetPassword(a) PROVE AccountInv'
  <2>1. /\ calls[a] # NoCall /\ calls[a] \in CallRows /\ CallOK(calls[a], profile, realm) /\ calls[a].pc = "password"
        /\ UNCHANGED <<profile, crossed, realm>> \/ GiveUp(a)
    BY <1>1, <1>3, <1>11, CallKnown DEF ResetPassword, Reached, OrGiveUp
  <2>2. calls[a].op = "create" /\ Single(calls[a].role) /\ "roles" \in CallSteps
    BY <2>1 DEF CallOK, CallRows, CallSteps
  <2>3. CASE Advance(a, "roles") /\ UNCHANGED <<profile, realm, broken, crossed>>
    <3>1. ASSUME NEW c \in CallRows, c.pc = "roles", c.op = calls[a].op, c.role = calls[a].role
          PROVE  CallOK(c, profile, realm) /\ SyncOK(c, realm) /\ (~crossed /\ ~broken => FollowOK(c, profile, realm))
      BY <2>1, <2>2, <3>1, CallKnown DEF CallOK, SyncOK, FollowOK, CreateSteps
    <3> QED
      BY <1>10, <2>1, <2>2, <2>3, <3>1
  <2>4. CASE GiveUp(a) /\ UNCHANGED <<profile, realm, crossed>>
    BY <1>1, <1>2, <2>1, <2>4, CallGivesUp
  <2> QED
    BY <1>11, <2>3, <2>4 DEF ResetPassword, OrGiveUp
<1>12. ASSUME NEW a \in Admins, EnsureAccountRoles(a) PROVE AccountInv'
  <2>1. calls[a] # NoCall /\ calls[a] \in CallRows /\ CallOK(calls[a], profile, realm) /\ calls[a].pc = "account"
    BY <1>1, <1>3, <1>12, CallKnown DEF EnsureAccountRoles, Reached
  <2>2. calls[a].op = "create" /\ Single(calls[a].role) /\ "bind" \in CallSteps
    BY <2>1 DEF CallOK, CallRows, CallSteps
  <2>3. CASE Advance(a, "bind") /\ UNCHANGED <<profile, realm, broken, crossed>>
    <3>1. ASSUME NEW c \in CallRows, c.pc = "bind", c.op = calls[a].op, c.role = calls[a].role
          PROVE  CallOK(c, profile, realm) /\ SyncOK(c, realm) /\ (~crossed /\ ~broken => FollowOK(c, profile, realm))
      BY <2>1, <2>2, <3>1, CallKnown DEF CallOK, SyncOK, FollowOK, CreateSteps
    <3> QED
      BY <1>10, <2>1, <2>2, <2>3, <3>1
  <2>4. CASE GiveUp(a) /\ UNCHANGED <<profile, realm, crossed>>
    BY <1>1, <1>2, <2>1, <2>4, CallGivesUp
  <2> QED
    BY <1>12, <2>3, <2>4 DEF EnsureAccountRoles, OrGiveUp
<1>13. ASSUME NEW a \in Admins, BindSubject(a) PROVE AccountInv'
  <2>1. calls[a] # NoCall /\ calls[a] \in CallRows /\ CallOK(calls[a], profile, realm) /\ calls[a].pc = "bind" /\ UNCHANGED <<realm, crossed>>
    BY <1>1, <1>3, <1>13, CallKnown DEF BindSubject, Reached
  <2>2. calls[a].op = "create" /\ realm.exists /\ profile.state # "none"
    BY <2>1 DEF CallOK, CallRows
  <2>3. CASE profile' = [profile EXCEPT !.bound = TRUE] /\ Finish(a) /\ UNCHANGED broken
    <3>1. PICK p : p = [profile EXCEPT !.bound = TRUE]
      OBVIOUS
    <3>2. p \in ProfileRows /\ p.state = profile.state /\ p.active = profile.active /\ p.role = profile.role /\ p.bound
      BY <1>1, <3>1 DEF ProfileRows
    <3>3. RowsOK(p, realm)
      BY <1>1, <2>2, <3>2 DEF RowsOK
    <3>4. ~crossed /\ ~broken => IdleOK(p, realm)
      BY <1>1, <2>1, <2>2, <3>2, CallKnown DEF FollowOK, IdleOK, RealmRows, ProfileRows
    <3>5. calls' = [calls EXCEPT ![a] = NoCall] /\ p = profile'
      BY <2>3, <3>1 DEF Finish
    <3> QED
      BY <1>1, <1>2, <2>1, <2>3, <3>2, <3>3, <3>4, <3>5, CallMoves
  <2>4. CASE GiveUp(a) /\ UNCHANGED profile
    BY <1>1, <1>2, <2>1, <2>4, CallGivesUp
  <2> QED
    BY <1>13, <2>3, <2>4 DEF BindSubject
<1>14. ASSUME NEW a \in Admins, UndoCreate(a) PROVE AccountInv'
  <2>1. calls[a] # NoCall /\ calls[a] \in CallRows /\ CallOK(calls[a], profile, realm) /\ calls[a].pc = "undo"
    BY <1>1, <1>3, <1>14, CallKnown DEF UndoCreate, Reached
  <2>2. calls[a].op = "create" /\ profile.state # "none" /\ calls' = [calls EXCEPT ![a] = NoCall] /\ UNCHANGED <<realm, crossed>>
    BY <1>14, <2>1 DEF CallOK, CallRows, UndoCreate, Finish
  <2>3. CASE profile' = [profile EXCEPT !.state = "deleted"] /\ UNCHANGED broken
    <3>1. PICK p : p = [profile EXCEPT !.state = "deleted"]
      OBVIOUS
    <3>2. p \in ProfileRows /\ p.state = "deleted" /\ p.bound = profile.bound /\ p.role = profile.role
      BY <1>1, <3>1 DEF ProfileRows
    <3>3. RowsOK(p, realm) /\ IdleOK(p, realm)
      BY <1>1, <2>2, <3>2 DEF RowsOK, IdleOK
    <3> QED
      BY <1>1, <1>2, <2>1, <2>2, <2>3, <3>1, <3>2, <3>3, CallMoves
  <2>4. CASE broken' = TRUE /\ UNCHANGED profile
    BY <1>1, <1>2, <2>1, <2>2, <2>4, CallMoves
  <2> QED
    BY <1>14, <2>3, <2>4 DEF UndoCreate
(* An operation that is not a creation and ends well.                        *)
<1>15. ASSUME NEW a \in Admins, calls[a] # NoCall, calls[a].op # "create", Finish(a), UNCHANGED <<profile, broken, crossed>>,
              NEW q, q = realm', RowsOK(profile, q), realm.exists => q.exists, ~crossed => AtMostOne(q.roles),
              ~crossed /\ ~broken => IdleOK(profile, q)
       PROVE  AccountInv'
  <2>1. calls' = [calls EXCEPT ![a] = NoCall] /\ ~Provisions(calls[a])
    BY <1>15 DEF Finish, Provisions
  <2> QED
    BY <1>1, <1>15, <2>1, CallMoves
<1>16. ASSUME NEW a \in Admins, FindSubject(a) PROVE AccountInv'
  <2>1. /\ calls[a] # NoCall /\ calls[a] \in CallRows /\ CallOK(calls[a], profile, realm) /\ calls[a].pc = "subject"
        /\ UNCHANGED <<profile, realm, broken, crossed>>
    BY <1>1, <1>3, <1>16, CallKnown DEF FindSubject, Reached
  <2>2. calls[a].op # "create" /\ calls[a].op \in {"update", "activate", "deactivate"}
    BY <2>1 DEF CallOK, CallRows, CreateSteps
  <2>3. CASE profile.state = "live" /\ profile.bound /\ calls[a].op = "update"
    <3>1. Advance(a, "roles") /\ "roles" \in CallSteps
      BY <1>16, <2>3 DEF FindSubject, Op, CallSteps
    <3>2. ASSUME NEW c \in CallRows, c.pc = "roles", c.op = calls[a].op, c.role = calls[a].role
          PROVE  CallOK(c, profile, realm) /\ SyncOK(c, realm) /\ (~crossed /\ ~broken => FollowOK(c, profile, realm))
      BY <2>1, <2>3, <3>2, CallKnown DEF CallOK, SyncOK, FollowOK
    <3> QED
      BY <1>10, <2>1, <3>1, <3>2
  <2>4. CASE profile.state = "live" /\ profile.bound /\ calls[a].op # "update"
    <3>1. Advance(a, "enable") /\ "enable" \in CallSteps /\ realm.exists
      BY <1>1, <1>16, <2>4 DEF FindSubject, Op, CallSteps, RowsOK
    <3>2. ASSUME NEW c \in CallRows, c.pc = "enable", c.op = calls[a].op, c.role = calls[a].role
          PROVE  CallOK(c, profile, realm) /\ SyncOK(c, realm) /\ (~crossed /\ ~broken => FollowOK(c, profile, realm))
      BY <2>1, <2>2, <2>4, <3>1, <3>2, CallKnown DEF CallOK, SyncOK, FollowOK
    <3> QED
      BY <1>10, <2>1, <3>1, <3>2
  <2>5. CASE ~(profile.state = "live" /\ profile.bound)
    <3>1. Finish(a)
      BY <1>16, <2>5 DEF FindSubject
    <3>2. ~crossed /\ ~broken => IdleOK(profile, realm)
      BY <2>1, <2>2, <2>5, CallKnown DEF FollowOK, IdleOK
    <3> QED
      BY <1>1, <1>2, <1>15, <2>1, <2>2, <3>1, <3>2
  <2> QED
    BY <2>3, <2>4, <2>5
<1>17. ASSUME NEW a \in Admins, SetEnabled(a) PROVE AccountInv'
  <2>1. /\ calls[a] # NoCall /\ calls[a] \in CallRows /\ CallOK(calls[a], profile, realm) /\ calls[a].pc = "enable"
        /\ UNCHANGED <<profile, crossed>>
    BY <1>1, <1>3, <1>17, CallKnown DEF SetEnabled, Reached
  <2>2. calls[a].op \in {"activate", "deactivate"} /\ realm.exists
    BY <2>1 DEF CallOK, CallRows, CreateSteps
  <2>3. PICK q : q = [realm EXCEPT !.enabled = Op(a) = "activate"]
    OBVIOUS
  <2>4. q \in RealmRows /\ q.exists = realm.exists /\ q.roles = realm.roles /\ q.enabled = (calls[a].op = "activate")
    BY <1>1, <2>3 DEF RealmRows, Op
  <2>5. RowsOK(profile, q) /\ (~crossed => AtMostOne(q.roles))
    BY <1>1, <1>2, <2>1, <2>2, <2>4 DEF RowsOK
  <2>6. CASE realm' = q /\ Finish(a) /\ UNCHANGED broken
    <3>1. ~crossed /\ ~broken => IdleOK(profile, q)
      BY <2>1, <2>2, <2>4, CallKnown DEF FollowOK, IdleOK
    <3> QED
      BY <1>15, <2>1, <2>2, <2>4, <2>5, <2>6, <3>1
  <2>7. CASE (realm' = q \/ UNCHANGED realm) /\ GiveUp(a)
    BY <1>1, <1>2, <2>1, <2>4, <2>5, <2>7, CallGivesUp
  <2> QED
    BY <1>17, <2>3, <2>6, <2>7 DEF SetEnabled, OrGiveUp
<1>18. ASSUME NEW a \in Admins, WriteActive(a) PROVE AccountInv'
  <2>1. /\ calls[a] # NoCall /\ calls[a] \in CallRows /\ CallOK(calls[a], profile, realm) /\ calls[a].pc = "switch"
        /\ UNCHANGED <<realm, broken, crossed>>
    BY <1>1, <1>3, <1>18, CallKnown DEF WriteActive, Reached
  <2>2. calls[a].op \in {"activate", "deactivate"}
    BY <2>1 DEF CallOK, CallRows, CreateSteps
  <2>3. PICK p : p = [profile EXCEPT !.active = Op(a) = "activate"]
    OBVIOUS
  <2>4. p \in ProfileRows /\ p.state = profile.state /\ p.bound = profile.bound /\ p.role = profile.role /\ p.active = (calls[a].op = "activate")
    BY <1>1, <2>3 DEF ProfileRows, Op
  <2>5. RowsOK(p, realm)
    BY <1>1, <2>1, <2>2, <2>4 DEF RowsOK, CallOK
  <2>6. profile' = p /\ Advance(a, "subject") /\ "subject" \in CallSteps
    BY <1>18, <2>3 DEF WriteActive, CallSteps
  <2>7. PICK c \in CallRows : calls' = [calls EXCEPT ![a] = c] /\ c.pc = "subject" /\ c.op = calls[a].op /\ c.role = calls[a].role
    BY <2>1, <2>6, CallAdvances
  <2>8. /\ c # NoCall /\ CallOK(c, p, realm) /\ SyncOK(c, realm) /\ ~Provisions(calls[a])
        /\ ~crossed /\ ~broken => FollowOK(c, p, realm)
    BY <2>1, <2>2, <2>4, <2>7, CallKnown, AccountConstants DEF CallOK, SyncOK, FollowOK, Provisions
  <2> QED
    BY <1>1, <1>2, <2>1, <2>4, <2>5, <2>6, <2>7, <2>8, CallMoves
<1>19. ASSUME NEW a \in Admins, ReadRoles(a) PROVE AccountInv'
  <2>1. /\ calls[a] # NoCall /\ calls[a] \in CallRows /\ CallOK(calls[a], profile, realm) /\ calls[a].pc = "roles"
        /\ UNCHANGED <<profile, realm, crossed>>
    BY <1>1, <1>3, <1>19, CallKnown DEF ReadRoles, Reached
  <2>2. calls[a].op \in {"create", "update"}
    BY <2>1 DEF CallOK, CallRows
  <2>3. CASE GiveUp(a)
    BY <1>1, <1>2, <2>1, <2>3, CallGivesUp
  <2>4. CASE ~GiveUp(a)
    <3>1. PICK d \in CallRows : d = calls[a]
      BY <2>1
    <3>2. PICK D, G : D = realm.roles \ d.role /\ G = d.role \ realm.roles
      OBVIOUS
    <3>3. PICK c : c = [pc |-> "remove", op |-> d.op, role |-> d.role, drop |-> D, grant |-> G]
      OBVIOUS
    <3>4. c \in CallRows /\ c.pc = "remove" /\ c.op = d.op /\ c.role = d.role /\ c.drop = D /\ c.grant = G
      BY <1>1, <3>1, <3>2, <3>3 DEF CallRows, RealmRows, CallSteps
    <3>5. c = [d EXCEPT !.pc = "remove", !.drop = D, !.grant = G]
      <4>1. d = [pc |-> d.pc, op |-> d.op, role |-> d.role, drop |-> d.drop, grant |-> d.grant]
        BY DEF CallRows
      <4>2. PICK u : u = [d EXCEPT !.pc = "remove"]
        OBVIOUS
      <4>3. u = [pc |-> "remove", op |-> d.op, role |-> d.role, drop |-> d.drop, grant |-> d.grant]
        BY <4>1, <4>2
      <4>4. PICK v : v = [u EXCEPT !.drop = D]
        OBVIOUS
      <4>5. v = [pc |-> "remove", op |-> d.op, role |-> d.role, drop |-> D, grant |-> d.grant]
        BY <4>3, <4>4
      <4>6. [v EXCEPT !.grant = G] = c
        BY <3>3, <4>5
      <4> QED
        BY <4>2, <4>4, <4>6
    <3>6. calls' = [calls EXCEPT ![a] = [calls[a] EXCEPT !.pc = "remove", !.drop = realm.roles \ calls[a].role, !.grant = calls[a].role \ realm.roles]]
          /\ UNCHANGED broken
      BY <1>1, <1>19, <2>4 DEF ReadRoles
    <3>7. calls' = [calls EXCEPT ![a] = c]
      BY <3>1, <3>2, <3>5, <3>6
    <3>8. /\ c # NoCall /\ CallOK(c, profile, realm) /\ SyncOK(c, realm) /\ (Provisions(c) \/ ~Provisions(calls[a]))
          /\ ~crossed /\ ~broken => FollowOK(c, profile, realm)
      BY <2>1, <2>2, <3>1, <3>2, <3>4, CallKnown, AccountConstants DEF CallOK, SyncOK, FollowOK, Provisions, CreateSteps
    <3> QED
      BY <1>1, <1>2, <2>1, <3>4, <3>6, <3>7, <3>8, CallMoves
  <2> QED
    BY <2>3, <2>4
<1>20. ASSUME NEW a \in Admins, RemoveRoles(a) PROVE AccountInv'
  <2>1. /\ calls[a] # NoCall /\ calls[a] \in CallRows /\ CallOK(calls[a], profile, realm) /\ calls[a].pc = "remove"
        /\ UNCHANGED <<profile, crossed>>
    BY <1>1, <1>3, <1>20, CallKnown DEF RemoveRoles, Reached
  <2>2. calls[a].op \in {"create", "update"}
    BY <2>1 DEF CallOK, CallRows
  <2>3. PICK q : q = [realm EXCEPT !.roles = @ \ calls[a].drop]
    OBVIOUS
  <2>4. q \in RealmRows /\ q.exists = realm.exists /\ q.enabled = realm.enabled /\ q.roles = realm.roles \ calls[a].drop
    BY <1>1, <2>3 DEF RealmRows
  <2>5. RowsOK(profile, q) /\ (~crossed => AtMostOne(q.roles))
    BY <1>1, <1>2, <2>1, <2>4 DEF RowsOK, AtMostOne
  <2>6. CASE realm' = q /\ Advance(a, "add") /\ UNCHANGED broken
    <3>1. ASSUME NEW c \in CallRows, c.pc = "add", c.op = calls[a].op, c.role = calls[a].role, c.grant = calls[a].grant
          PROVE  CallOK(c, profile, q) /\ (~crossed => SyncOK(c, q)) /\ (~crossed /\ ~broken => FollowOK(c, profile, q))
      <4>1. CallOK(c, profile, q)
        BY <2>1, <2>2, <2>4, <3>1 DEF CallOK, CreateSteps
      <4>2. ~crossed => SyncOK(c, q)
        BY <2>1, <2>4, <3>1, CallKnown DEF SyncOK
      <4>3. ~crossed /\ ~broken => FollowOK(c, profile, q)
        BY <2>1, <2>2, <2>4, <3>1, CallKnown DEF FollowOK
      <4> QED
        BY <4>1, <4>2, <4>3
    <3>2. "add" \in CallSteps
      BY DEF CallSteps
    <3> QED
      BY <2>1, <2>4, <2>5, <2>6, <3>1, <3>2, CallGoesOn
  <2>7. CASE (realm' = q \/ UNCHANGED realm) /\ GiveUp(a)
    BY <1>1, <1>2, <2>1, <2>4, <2>5, <2>7, CallGivesUp
  <2> QED
    BY <1>20, <2>3, <2>6, <2>7 DEF RemoveRoles, OrGiveUp
<1>21. ASSUME NEW a \in Admins, AddRoles(a) PROVE AccountInv'
  <2>1. /\ calls[a] # NoCall /\ calls[a] \in CallRows /\ CallOK(calls[a], profile, realm) /\ calls[a].pc = "add"
        /\ UNCHANGED <<profile, crossed>>
    BY <1>1, <1>3, <1>21, CallKnown DEF AddRoles, Reached
  <2>2. calls[a].op \in {"create", "update"} /\ Single(calls[a].role) /\ calls[a].grant \in SUBSET Roles
    BY <2>1 DEF CallOK, CallRows
  <2>3. PICK q : q = [realm EXCEPT !.roles = @ \cup calls[a].grant]
    OBVIOUS
  <2>4. q \in RealmRows /\ q.exists = realm.exists /\ q.enabled = realm.enabled /\ q.roles = realm.roles \cup calls[a].grant
    BY <1>1, <2>2, <2>3 DEF RealmRows
  <2>5. ~crossed => q.roles = calls[a].role
    BY <2>1, <2>4, CallKnown DEF SyncOK
  <2>6. RowsOK(profile, q) /\ (~crossed => AtMostOne(q.roles))
    BY <1>1, <2>2, <2>4, <2>5 DEF RowsOK, AtMostOne, Single
  <2>7. CASE realm' = q /\ calls[a].op = "create" /\ Advance(a, "account") /\ UNCHANGED broken
    <3>1. ASSUME NEW c \in CallRows, c.pc = "account", c.op = calls[a].op, c.role = calls[a].role
          PROVE  CallOK(c, profile, q) /\ SyncOK(c, q) /\ (~crossed /\ ~broken => FollowOK(c, profile, q))
      BY <2>1, <2>4, <2>5, <2>7, <3>1, CallKnown DEF CallOK, SyncOK, FollowOK, CreateSteps
    <3>2. "account" \in CallSteps
      BY DEF CallSteps
    <3> QED
      <4>1. realm' = q /\ Advance(a, "account") /\ UNCHANGED <<profile, broken, crossed>>
        BY <2>1, <2>7
      <4>2. calls[a].pc # "insert" /\ (realm.exists => q.exists)
        BY <2>1, <2>4
      <4> QED
        BY <2>1, <2>6, <3>1, <3>2, <4>1, <4>2, CallGoesOn
  <2>8. CASE realm' = q /\ calls[a].op # "create" /\ Finish(a) /\ UNCHANGED broken
    <3>1. ~crossed /\ ~broken => IdleOK(profile, q)
      BY <2>1, <2>2, <2>4, <2>5, <2>8, CallKnown DEF FollowOK, IdleOK
    <3> QED
      BY <1>15, <2>1, <2>4, <2>6, <2>8, <3>1
  <2>9. CASE (realm' = q \/ UNCHANGED realm) /\ GiveUp(a)
    BY <1>1, <1>2, <2>1, <2>4, <2>6, <2>9, CallGivesUp
  <2> QED
    BY <1>21, <2>3, <2>7, <2>8, <2>9 DEF AddRoles, OrGiveUp, Op
<1>22. ASSUME NEW a \in Admins, KillCall(a) PROVE AccountInv'
  <2>1. calls[a] # NoCall /\ calls' = [calls EXCEPT ![a] = NoCall] /\ broken' = TRUE /\ UNCHANGED <<profile, realm, crossed>>
    BY <1>22 DEF KillCall, Finish
  <2> QED
    BY <1>1, <1>2, <2>1, CallMoves
<1>23. CASE SignIn
  <2>1. PICK p : p = [profile EXCEPT !.bound = TRUE]
    OBVIOUS
  <2>2. p \in ProfileRows /\ p.state = profile.state /\ p.active = profile.active /\ p.role = profile.role /\ p.bound
    BY <1>1, <2>1 DEF ProfileRows
  <2>3. realm.enabled /\ profile.state = "live" /\ profile' = p /\ UNCHANGED <<realm, calls, broken, crossed>>
    BY <1>23, <2>1 DEF SignIn
  <2>4. RowsOK(p, realm)
    BY <1>1, <2>2, <2>3 DEF RowsOK
  <2>5. \A a \in Admins : CallOK(calls[a], profile, realm) => CallOK(calls[a], p, realm)
    BY <2>2 DEF CallOK
  <2>6. \A a \in Admins : FollowOK(calls[a], profile, realm) => FollowOK(calls[a], p, realm)
    BY <2>2 DEF FollowOK
  <2>7. IdleOK(profile, realm) => IdleOK(p, realm)
    BY <2>2 DEF IdleOK
  <2> QED
    BY <2>2, <2>3, <2>4, <2>5, <2>6, <2>7 DEF AccountInv
<1>24. CASE UNCHANGED accountVars
  BY <1>24 DEF accountVars, AccountInv
<1> QED
  BY <1>5, <1>6, <1>7, <1>8, <1>9, <1>11, <1>12, <1>13, <1>14, <1>16, <1>17, <1>18, <1>19, <1>20, <1>21, <1>22, <1>23, <1>24 DEF AccountNext

LEMMA AccountHolds == AccountInv => AccountTypeOK /\ RealmFollowsRow /\ AtMostOneRole /\ LiveIsProvisioned
<1> SUFFICES ASSUME AccountInv PROVE AccountTypeOK /\ RealmFollowsRow /\ AtMostOneRole /\ LiveIsProvisioned
  OBVIOUS
<1>1. /\ profile \in ProfileRows /\ realm \in RealmRows /\ calls \in [Admins -> {NoCall} \cup CallRows]
      /\ broken \in BOOLEAN /\ crossed \in BOOLEAN /\ RowsOK(profile, realm)
  BY DEF AccountInv
<1>2. profile.state # "none" <=> Cardinality(profile.role) = 1
  <2>1. CASE profile.state = "none"
    <3>1. profile.role = {}
      BY <1>1, <2>1, AccountConstants DEF RowsOK
    <3> QED
      BY <2>1, <3>1, FS_EmptySet
  <2>2. CASE profile.state # "none"
    <3>1. PICK r \in Roles : profile.role = {r}
      BY <1>1, <2>2 DEF RowsOK, Single
    <3> QED
      BY <2>2, <3>1, FS_Singleton
  <2> QED
    BY <2>1, <2>2
<1>3. AccountTypeOK
  BY <1>1, <1>2 DEF AccountTypeOK, ProfileRows, RealmRows, CallRows, RowsOK
<1>4. RealmFollowsRow
  <2>1. ASSUME Calm, profile.state = "live" PROVE realm.enabled = profile.active /\ realm.roles = profile.role
    BY <2>1 DEF Calm, AccountInv, IdleOK
  <2> QED
    BY <2>1 DEF RealmFollowsRow, EntryRoles
<1>5. AtMostOneRole
  <2>1. ASSUME ~crossed PROVE Cardinality(realm.roles) <= 1
    <3>1. AtMostOne(realm.roles)
      BY <2>1 DEF AccountInv
    <3>2. CASE realm.roles = {}
      BY <3>2, FS_EmptySet
    <3>3. CASE realm.roles # {}
      <4>1. PICK s : realm.roles = {s}
        BY <3>1, <3>3 DEF AtMostOne
      <4>2. Cardinality({s}) = 1
        BY FS_Singleton
      <4> QED
        BY <4>1, <4>2
    <3> QED
      BY <3>2, <3>3
  <2> QED
    BY <2>1 DEF AtMostOneRole
<1>6. LiveIsProvisioned
  BY <1>1 DEF LiveIsProvisioned, AccountInv, Provisions, ProfileRows
<1> QED
  BY <1>3, <1>4, <1>5, <1>6

-----------------------------------------------------------------------------
(* The copy of the realm's events.  n events happened.                       *)

CopyRow(n) == [todo: SUBSET (1 .. n), upTo: 0 .. n]

CopyVarsOK(n) ==
  /\ happened \in [1 .. n -> BOOLEAN]
  /\ copied \in [RealmIds -> {0, 1}]
  /\ \A m \in RealmIds : copied[m] = 1 => m <= n /\ happened[m]
  /\ copying \in [Copiers -> CopyRow(n)]
  /\ seen \in 0 .. n /\ burst \in BOOLEAN

(* Without a burst all up to the newest seen are copied, and the others will *)
(* still be listed.                                                          *)
SeenIsCopied(n) == ~burst => n - seen <= Listed /\ \A m \in 1 .. seen : happened[m] => copied[m] = 1

(* What a copier has done of its listing; and before it nothing is missing.  *)
CopierAgrees(w) ==
  /\ \A m \in 1 .. w.upTo : happened[m] /\ m > w.upTo - Listed => m \in w.todo \/ copied[m] = 1
  /\ ~burst => w.upTo - Listed <= seen

CopyInvAt(n) == CopyVarsOK(n) /\ SeenIsCopied(n) /\ \A c \in Copiers : CopierAgrees(copying[c])
CopyInv == \E n \in 0 .. MaxEvents : CopyInvAt(n)

LEMMA NewestIs ==
  ASSUME NEW n \in 0 .. MaxEvents, happened \in [1 .. n -> BOOLEAN]
  PROVE  Newest = n /\ DOMAIN happened = 1 .. n
<1>1. DOMAIN happened = 1 .. n
  OBVIOUS
<1>2. Cardinality(1 .. n) = n
  BY FS_Interval, RealmEventsAssumption
<1> QED
  BY <1>1, <1>2 DEF Newest

LEMMA CopyInitHolds == RealmEventsInit => CopyInv
<1> SUFFICES ASSUME RealmEventsInit PROVE CopyInvAt(0)
  BY RealmEventsAssumption DEF CopyInv
<1>1. happened \in [1 .. 0 -> BOOLEAN]
  BY DEF RealmEventsInit
<1>2. NotCopying \in CopyRow(0)
  BY DEF NotCopying, CopyRow
<1>3. CopyVarsOK(0)
  <2>1. copied = [n \in RealmIds |-> 0] /\ copying = [c \in Copiers |-> NotCopying] /\ seen = 0 /\ burst = FALSE
    BY DEF RealmEventsInit
  <2>2. copied \in [RealmIds -> {0, 1}] /\ \A m \in RealmIds : copied[m] # 1
    BY <2>1
  <2>3. copying \in [Copiers -> CopyRow(0)] /\ seen \in 0 .. 0
    BY <1>2, <2>1
  <2> QED
    BY <1>1, <2>1, <2>2, <2>3 DEF CopyVarsOK
<1>5. SeenIsCopied(0)
  <2>1. seen = 0 /\ 0 - 0 <= Listed /\ 1 .. 0 = {}
    BY RealmEventsAssumption DEF RealmEventsInit
  <2> QED
    BY <2>1 DEF SeenIsCopied
<1>4. \A c \in Copiers : CopierAgrees(copying[c])
  BY RealmEventsAssumption DEF RealmEventsInit, CopierAgrees, NotCopying
<1> QED
  BY <1>3, <1>4, <1>5 DEF CopyInvAt

(* A copier takes up a listing, or drops it.                                 *)
LEMMA CopierMoves ==
  ASSUME NEW n \in 0 .. MaxEvents, CopyInvAt(n), NEW c \in Copiers, NEW w \in CopyRow(n), CopierAgrees(w),
         copying' = [copying EXCEPT ![c] = w], UNCHANGED <<happened, copied, seen, burst>>
  PROVE  CopyInvAt(n)'
<1>1. CopyVarsOK(n)' /\ SeenIsCopied(n)'
  BY DEF CopyInvAt, CopyVarsOK, SeenIsCopied
<1>2. \A d \in Copiers : CopierAgrees(copying[d])'
  BY DEF CopyInvAt, CopyVarsOK, CopierAgrees
<1> QED
  BY <1>1, <1>2 DEF CopyInvAt

LEMMA HappenHolds ==
  ASSUME NEW n \in 0 .. MaxEvents, CopyInvAt(n), NEW known \in BOOLEAN, Happen(known)
  PROVE  n + 1 \in 0 .. MaxEvents /\ CopyInvAt(n + 1)'
<1> USE RealmEventsAssumption
<1>1. Newest = n /\ DOMAIN happened = 1 .. n
  BY NewestIs DEF CopyInvAt, CopyVarsOK
<1>2. PICK k \in 1 .. MaxEvents : k = n + 1
  <2>1. Newest < MaxEvents
    BY DEF Happen
  <2>2. n + 1 \in 1 .. MaxEvents
    BY <1>1, <2>1
  <2> QED
    BY <2>2
<1>3. /\ happened' = [m \in 1 .. k |-> IF m <= n THEN happened[m] ELSE known]
      /\ burst' \in BOOLEAN /\ (~burst' => ~burst /\ ~(k - seen > Listed))
      /\ UNCHANGED <<copied, copying, seen>>
  <2>1. Newest + 1 = k
    BY <1>1, <1>2
  <2>2. happened' = [m \in 1 .. Newest + 1 |-> IF m <= Newest THEN happened[m] ELSE known]
    BY Zenon DEF Happen
  <2>3. burst' = (burst \/ Newest + 1 - seen > Listed) /\ UNCHANGED <<copied, copying, seen>>
    BY Zenon DEF Happen
  <2>4. happened' = [m \in 1 .. k |-> IF m <= n THEN happened[m] ELSE known]
    BY <1>1, <2>1, <2>2
  <2>5. burst' \in BOOLEAN /\ (~burst' => ~burst /\ ~(Newest + 1 - seen > Listed))
    BY <2>3
  <2>6. seen \in 0 .. n
    BY DEF CopyInvAt, CopyVarsOK
  <2>7. ~burst' => ~(k - seen > Listed)
    BY <1>1, <1>2, <2>5, <2>6
  <2> QED
    BY <2>3, <2>4, <2>5, <2>7
<1>4. happened' \in [1 .. k -> BOOLEAN] /\ \A m \in 1 .. n : happened'[m] = happened[m]
  BY <1>2, <1>3 DEF CopyInvAt, CopyVarsOK
<1>5. CopyVarsOK(k)'
  <2>1. \A w \in CopyRow(n) : w \in CopyRow(k)
    BY <1>2 DEF CopyRow
  <2>2. copying' \in [Copiers -> CopyRow(k)]
    BY <1>3, <2>1 DEF CopyInvAt, CopyVarsOK
  <2>3. \A m \in RealmIds : copied'[m] = 1 => m <= k /\ happened'[m]
    BY <1>2, <1>3, <1>4 DEF CopyInvAt, CopyVarsOK, RealmIds
  <2>4. copied' \in [RealmIds -> {0, 1}] /\ seen' \in 0 .. k /\ burst' \in BOOLEAN
    BY <1>2, <1>3 DEF CopyInvAt, CopyVarsOK
  <2> QED
    BY <1>4, <2>2, <2>3, <2>4 DEF CopyVarsOK
<1>6. seen \in 0 .. n
  BY DEF CopyInvAt, CopyVarsOK
<1>7. SeenIsCopied(k)'
  <2> SUFFICES ASSUME ~burst' PROVE k - seen <= Listed /\ \A m \in 1 .. seen : happened'[m] => copied[m] = 1
    BY <1>3 DEF SeenIsCopied
  <2>1. ~burst /\ ~(k - seen > Listed)
    BY <1>3
  <2>2. \A m \in 1 .. seen : happened[m] => copied[m] = 1
    BY <2>1 DEF CopyInvAt, SeenIsCopied
  <2>3. \A m \in 1 .. seen : happened'[m] = happened[m]
    BY <1>4, <1>6
  <2> QED
    BY <1>2, <1>6, <2>1, <2>2, <2>3
<1>8. \A c \in Copiers : CopierAgrees(copying[c])'
  <2> SUFFICES ASSUME NEW c \in Copiers PROVE CopierAgrees(copying[c])'
    OBVIOUS
  <2>1. copying[c] \in CopyRow(n) /\ CopierAgrees(copying[c])
    BY DEF CopyInvAt, CopyVarsOK
  <2>2. \A m \in 1 .. copying[c].upTo : m \in 1 .. n
    BY <2>1 DEF CopyRow
  <2> QED
    BY <1>3, <1>4, <2>1, <2>2 DEF CopierAgrees
<1> QED
  BY <1>2, <1>5, <1>7, <1>8 DEF CopyInvAt

LEMMA CopyEventHolds ==
  ASSUME NEW n \in 0 .. MaxEvents, CopyInvAt(n), NEW c \in Copiers, NEW e \in copying[c].todo, CopyEvent(c, e)
  PROVE  CopyInvAt(n)'
<1> USE RealmEventsAssumption
<1>1. PICK w \in CopyRow(n) : w = copying[c] /\ CopierAgrees(w)
  BY DEF CopyInvAt, CopyVarsOK
<1>2. e \in w.todo /\ e \in 1 .. n /\ e \in RealmIds /\ w.upTo \in 0 .. n
  BY <1>1 DEF CopyRow, RealmIds
<1>3. /\ UNCHANGED <<happened, burst>>
      /\ copied' = IF happened[e] THEN [copied EXCEPT ![e] = 1] ELSE copied
  BY DEF CopyEvent, KnownUser, CreateByActor
<1>4. /\ happened \in [1 .. n -> BOOLEAN] /\ copied \in [RealmIds -> {0, 1}]
      /\ \A m \in RealmIds : copied[m] = 1 => m <= n /\ happened[m]
      /\ copying \in [Copiers -> CopyRow(n)] /\ seen \in 0 .. n /\ burst \in BOOLEAN
  BY DEF CopyInvAt, CopyVarsOK
<1>5. /\ copied' \in [RealmIds -> {0, 1}]
      /\ \A m \in RealmIds : copied'[m] = 1 => m <= n /\ happened[m]
      /\ \A m \in RealmIds : copied[m] = 1 => copied'[m] = 1
      /\ happened[e] => copied'[e] = 1
  BY <1>2, <1>3, <1>4
<1>6. \A m \in 1 .. n : m \in RealmIds
  BY DEF RealmIds
<1>7. PICK v \in CopyRow(n) : /\ copying' = [copying EXCEPT ![c] = v]
                              /\ IF w.todo = {e} THEN v = NotCopying ELSE v = [w EXCEPT !.todo = @ \ {e}]
  <2>1. CASE w.todo = {e}
    <3>1. NotCopying \in CopyRow(n)
      BY DEF NotCopying, CopyRow
    <3> QED
      BY <1>1, <2>1, <3>1 DEF CopyEvent
  <2>2. CASE w.todo # {e}
    <3>1. [w EXCEPT !.todo = @ \ {e}] \in CopyRow(n)
      BY <1>1 DEF CopyRow
    <3>2. copying' = [copying EXCEPT ![c] = [w EXCEPT !.todo = @ \ {e}]]
      BY <1>1, <2>2 DEF CopyEvent
    <3> QED
      BY <2>2, <3>1, <3>2
  <2> QED
    BY <2>1, <2>2
<1>8. PICK top \in 0 .. n : seen' = top /\ top >= seen /\ (top = seen \/ (w.todo = {e} /\ top = w.upTo))
  BY <1>1, <1>2, <1>4 DEF CopyEvent
<1>9. CopyVarsOK(n)'
  BY <1>3, <1>4, <1>5, <1>7, <1>8 DEF CopyVarsOK
<1>10. SeenIsCopied(n)'
  <2>1. CASE top = seen
    BY <1>3, <1>4, <1>5, <1>6, <1>8, <2>1 DEF CopyInvAt, SeenIsCopied
  <2>2. CASE w.todo = {e} /\ top = w.upTo
    <3> SUFFICES ASSUME ~burst PROVE n - top <= Listed /\ \A m \in 1 .. top : happened[m] => copied'[m] = 1
      BY <1>3, <1>8 DEF SeenIsCopied
    <3>1. n - seen <= Listed /\ (\A m \in 1 .. seen : happened[m] => copied[m] = 1) /\ w.upTo - Listed <= seen
      BY <1>1 DEF CopyInvAt, SeenIsCopied, CopierAgrees
    <3>2. n - top <= Listed
      BY <1>4, <1>8, <3>1
    <3>3. ASSUME NEW m \in 1 .. top, happened[m] PROVE copied'[m] = 1
      <4>1. m \in RealmIds
        BY <1>6
      <4>2. CASE m <= seen
        BY <1>4, <1>5, <3>1, <3>3, <4>1, <4>2
      <4>3. CASE m > seen
        <5>1. m \in 1 .. w.upTo /\ m > w.upTo - Listed
          BY <1>2, <1>4, <2>2, <3>1, <4>3
        <5>2. m = e \/ copied[m] = 1
          BY <1>1, <2>2, <3>3, <5>1 DEF CopierAgrees
        <5> QED
          BY <1>5, <3>3, <4>1, <5>2
      <4> QED
        BY <1>4, <4>2, <4>3
    <3> QED
      BY <3>2, <3>3
  <2> QED
    BY <1>8, <2>1, <2>2
<1>11. \A d \in Copiers : CopierAgrees(copying[d])'
  <2> SUFFICES ASSUME NEW d \in Copiers PROVE CopierAgrees(copying[d])'
    OBVIOUS
  <2>1. PICK u \in CopyRow(n) : u = copying[d] /\ CopierAgrees(u)
    BY DEF CopyInvAt, CopyVarsOK
  <2>2. u.upTo \in 0 .. n /\ \A m \in 1 .. u.upTo : m \in RealmIds
    BY <1>6, <2>1 DEF CopyRow
  <2>3. ~burst => u.upTo - Listed <= top
    BY <1>4, <1>8, <2>1, <2>2 DEF CopierAgrees
  <2>4. CASE d # c
    <3>1. copying'[d] = u
      BY <1>4, <1>7, <2>1, <2>4
    <3> QED
      BY <1>3, <1>5, <1>8, <2>1, <2>2, <2>3, <3>1 DEF CopierAgrees
  <2>5. CASE d = c /\ w.todo = {e}
    <3>1. copying'[d] = NotCopying
      BY <1>4, <1>7, <2>5
    <3> QED
      BY <1>8, <3>1 DEF CopierAgrees, NotCopying
  <2>6. CASE d = c /\ w.todo # {e}
    <3>1. copying'[d] = [w EXCEPT !.todo = @ \ {e}] /\ u = w
      BY <1>1, <1>4, <1>7, <2>1, <2>6
    <3>2. copying'[d].upTo = u.upTo /\ copying'[d].todo = u.todo \ {e}
      BY <1>1, <3>1 DEF CopyRow
    <3>3. \A m \in 1 .. u.upTo : happened[m] /\ m > u.upTo - Listed => m \in u.todo \ {e} \/ copied'[m] = 1
      BY <1>5, <2>1, <2>2 DEF CopierAgrees
    <3> QED
      BY <1>3, <1>8, <2>3, <3>2, <3>3 DEF CopierAgrees
  <2> QED
    BY <2>4, <2>5, <2>6
<1> QED
  BY <1>9, <1>10, <1>11 DEF CopyInvAt

LEMMA CopyStepHolds == CopyInv /\ [CopyNext]_copyVars => CopyInv'
<1> SUFFICES ASSUME NEW n \in 0 .. MaxEvents, CopyInvAt(n), [CopyNext]_copyVars
    PROVE  \E k \in 0 .. MaxEvents : CopyInvAt(k)'
  BY DEF CopyInv
<1>1. ASSUME NEW known \in BOOLEAN, Happen(known) PROVE \E k \in 0 .. MaxEvents : CopyInvAt(k)'
  BY <1>1, HappenHolds
<1>2. ASSUME NEW c \in Copiers, ListEvents(c) PROVE CopyInvAt(n)'
  <2>1. Newest = n /\ DOMAIN happened = 1 .. n
    BY NewestIs DEF CopyInvAt, CopyVarsOK
  <2>2. PICK w \in CopyRow(n) : w = [todo |-> {m \in 1 .. n : m > n - Listed}, upTo |-> n]
    <3>1. n \in 0 .. n /\ {m \in 1 .. n : m > n - Listed} \in SUBSET (1 .. n)
      BY RealmEventsAssumption
    <3>2. [todo |-> {m \in 1 .. n : m > n - Listed}, upTo |-> n] \in CopyRow(n)
      BY <3>1 DEF CopyRow
    <3> QED
      BY <3>2
  <2>3. copying' = [copying EXCEPT ![c] = w]
    BY <1>2, <2>1, <2>2 DEF ListEvents, Listing
  <2>4. w.upTo = n /\ w.todo = {m \in 1 .. n : m > n - Listed}
    BY <2>2
  <2>5. CopierAgrees(w)
    BY <2>4, RealmEventsAssumption DEF CopierAgrees, CopyInvAt, CopyVarsOK, SeenIsCopied
  <2> QED
    BY <1>2, <2>3, <2>5, CopierMoves DEF ListEvents
<1>3. ASSUME NEW c \in Copiers, AbandonCopy(c) PROVE CopyInvAt(n)'
  <2>1. NotCopying \in CopyRow(n) /\ CopierAgrees(NotCopying)
    BY RealmEventsAssumption DEF NotCopying, CopyRow, CopierAgrees, CopyInvAt, CopyVarsOK
  <2> QED
    BY <1>3, <2>1, CopierMoves DEF AbandonCopy
<1>4. ASSUME NEW c \in Copiers, NEW e \in copying[c].todo, CopyEvent(c, e) PROVE CopyInvAt(n)'
  BY <1>4, CopyEventHolds
<1>5. CASE UNCHANGED copyVars
  <2>1. CopyInvAt(n)'
    BY <1>5 DEF copyVars, CopyInvAt, CopyVarsOK, SeenIsCopied, CopierAgrees
  <2> QED
    BY <2>1
<1> QED
  BY <1>1, <1>2, <1>3, <1>4, <1>5 DEF CopyNext

LEMMA CopyHolds == CopyInv => RealmEventsTypeOK /\ CopiedOnce /\ OnlyBurstsAreMissed
<1> SUFFICES ASSUME NEW n \in 0 .. MaxEvents, CopyInvAt(n) PROVE RealmEventsTypeOK /\ CopiedOnce /\ OnlyBurstsAreMissed
  BY DEF CopyInv
<1> USE RealmEventsAssumption
<1>1. Newest = n /\ DOMAIN happened = 1 .. n
  BY NewestIs DEF CopyInvAt, CopyVarsOK
<1>2. RealmEventsTypeOK
  <2>1. /\ happened \in [1 .. n -> BOOLEAN] /\ copied \in [RealmIds -> Nat]
        /\ \A m \in RealmIds : copied[m] > 0 => m \in 1 .. n /\ happened[m]
    BY DEF CopyInvAt, CopyVarsOK, RealmIds
  <2>2. copying \in [Copiers -> [todo: SUBSET (1 .. n), upTo: 0 .. MaxEvents]]
    <3>1. \A w \in CopyRow(n) : w \in [todo: SUBSET (1 .. n), upTo: 0 .. MaxEvents]
      BY DEF CopyRow
    <3> QED
      BY <3>1 DEF CopyInvAt, CopyVarsOK
  <2>3. seen \in 1 .. n \cup {0} /\ burst \in BOOLEAN
    BY DEF CopyInvAt, CopyVarsOK
  <2> QED
    BY <1>1, <2>1, <2>2, <2>3 DEF RealmEventsTypeOK
<1>3. CopiedOnce
  BY DEF CopyInvAt, CopyVarsOK, CopiedOnce
<1>4. OnlyBurstsAreMissed
  <2> SUFFICES ASSUME ~burst, NEW m \in 1 .. n, happened[m], ~(m > n - Listed) PROVE copied[m] > 0
    BY <1>1 DEF OnlyBurstsAreMissed
  <2>1. n - seen <= Listed /\ \A k \in 1 .. seen : happened[k] => copied[k] = 1
    BY DEF CopyInvAt, SeenIsCopied
  <2>2. m \in 1 .. seen
    BY <2>1 DEF CopyInvAt, CopyVarsOK
  <2> QED
    BY <2>1, <2>2
<1> QED
  BY <1>2, <1>3, <1>4

-----------------------------------------------------------------------------
(* The profiles of the public requesters.                                    *)

RequesterRows == [used: BOOLEAN, anonymised: BOOLEAN, merged: BOOLEAN, stale: BOOLEAN]
IdentityRow == [contact: Contacts \cup {Erased}, owner: Profiles, personal: BOOLEAN, site: BOOLEAN]
IdentityRows == {NoIdentity} \cup IdentityRow
OwnedRows == {NoTicket} \cup [owner: Profiles, open: BOOLEAN]
CreateTasks == [pc: {"create"}, contact: Contacts]
RenewTasks == [pc: {"renew"}, row: Profiles, owner: Profiles]
OneTasks == [pc: {"open", "check", "reread", "erase"}, profile: Profiles, cron: BOOLEAN]
MergeTasks == [pc: {"merge", "rest"}, source: Profiles, target: Profiles, took: SUBSET TicketNos]
AllTasks == {NoTask} \cup CreateTasks \cup RenewTasks \cup OneTasks \cup MergeTasks

RowsFit(pr, cr, wd, ow) ==
  /\ pr \in [Profiles -> RequesterRows] /\ cr \in [Profiles -> IdentityRows]
  /\ wd \subseteq Profiles /\ ow \in [TicketNos -> OwnedRows]
  /\ \A r \in Profiles : pr[r].used <=> cr[r] # NoIdentity
  /\ \A r \in Profiles : cr[r] # NoIdentity => pr[cr[r].owner].used
  /\ \A r, q \in Profiles : cr[r].contact = cr[q].contact /\ cr[r].contact # Erased => r = q
  /\ \A p \in wd : pr[p].used
TaskFits(c, pr) ==
  /\ c.pc = "renew" => pr[c.row].used /\ pr[c.owner].used
  /\ c.pc \in {"merge", "rest"} => c.source # c.target /\ pr[c.source].used /\ pr[c.target].used

(* What holds while no two operations held a profile.                        *)
Clean(pr, cr, wd) ==
  \A p \in Profiles : pr[p].anonymised =>
     p \notin wd /\ \A r \in Profiles : cr[r].owner = p => cr[r].contact = Erased /\ ~cr[r].personal
TaskOK(c, pr, cr, ow) ==
  /\ c.pc = "renew" => cr[c.row].owner = c.owner /\ ~pr[c.owner].anonymised
  /\ c.pc \in {"merge", "rest"} => ~pr[c.source].anonymised /\ ~pr[c.target].anonymised
  /\ c.pc = "rest" => c.took = {n \in TicketNos : ow[n].owner = c.source}
  /\ c.pc \in {"reread", "erase"} /\ c.cron => {n \in TicketNos : ow[n].owner = c.profile /\ ow[n].open} = {}
(* ... and none was merged into one that was merged itself.                  *)
Emptied(pr, cr, wd, ow) ==
  \A p \in Profiles : pr[p].merged =>
     p \notin wd /\ (\A r \in Profiles : cr[r].owner # p) /\ \A n \in TicketNos : ow[n].owner # p
TaskClear(c, pr) ==
  /\ c.pc = "renew" => ~pr[c.owner].merged
  /\ c.pc = "open" => ~pr[c.profile].merged

Disjoint(T) == \A j, k \in Tasks : j # k => Holds(T[j]) \cap Holds(T[k]) = {}

RequestersInv ==
  /\ RowsFit(profiles, contactRows, withDevice, owned)
  /\ tasks \in [Tasks -> AllTasks] /\ raced \in BOOLEAN /\ blunders \subseteq {"open ticket", "merged target"}
  /\ \A k \in Tasks : TaskFits(tasks[k], profiles)
  /\ ~raced => /\ Disjoint(tasks) /\ Clean(profiles, contactRows, withDevice)
               /\ \A k \in Tasks : TaskOK(tasks[k], profiles, contactRows, owned)
               /\ "open ticket" \notin blunders
  /\ ~raced /\ "merged target" \notin blunders =>
       Emptied(profiles, contactRows, withDevice, owned) /\ \A k \in Tasks : TaskClear(tasks[k], profiles)

(* The new rows differ only where the profiles of H are concerned.           *)
OnlyOf(H, pr, cr, ow) ==
  /\ \A p \in Profiles : profiles[p].used => pr[p].used
  /\ \A p \in Profiles \ H : pr[p].anonymised = profiles[p].anonymised /\ pr[p].merged = profiles[p].merged
  /\ \A r \in Profiles : cr[r] = contactRows[r] \/ contactRows[r].owner \in H \cup {NoOne}
  /\ \A n \in TicketNos, p \in Profiles \ H :
       /\ ow[n].owner = p <=> owned[n].owner = p
       /\ ow[n].owner = p /\ ow[n].open => owned[n].open

LEMMA RequestersConstants ==
  /\ Erased \notin Contacts /\ NoOne \notin Profiles /\ MaxProfiles \in Nat /\ NoOne = 0
  /\ NoIdentity.contact = Erased /\ NoIdentity.owner = NoOne /\ NoTicket.owner = NoOne /\ ~NoTicket.open
  /\ NoTask.pc = "idle" /\ NoTask \in AllTasks /\ Unused \in RequesterRows /\ ~Unused.used /\ ~Unused.anonymised /\ ~Unused.merged
BY RequestersAssumption DEF NoOne, Profiles, NoIdentity, NoTicket, NoTask, AllTasks, Unused, RequesterRows

LEMMA TaskKinds ==
  ASSUME NEW c \in AllTasks
  PROVE  /\ c.pc = "create" => c \in CreateTasks /\ c.contact \in Contacts
         /\ c.pc = "renew" => c \in RenewTasks /\ c.row \in Profiles /\ c.owner \in Profiles
         /\ c.pc \in {"open", "check", "reread", "erase"} => c \in OneTasks /\ c.profile \in Profiles /\ c.cron \in BOOLEAN
         /\ c.pc \in {"merge", "rest"} => c \in MergeTasks /\ c.source \in Profiles /\ c.target \in Profiles /\ c.took \in SUBSET TicketNos
         /\ c.pc \in {"idle", "create", "renew", "open", "check", "reread", "erase", "merge", "rest"}
         /\ c.pc # "idle" => c # NoTask
BY DEF AllTasks, NoTask, CreateTasks, RenewTasks, OneTasks, MergeTasks

LEMMA HoldsKinds ==
  ASSUME NEW c \in AllTasks
  PROVE  /\ c.pc \in {"idle", "create"} => Holds(c) = {}
         /\ c.pc = "renew" => Holds(c) = {c.owner}
         /\ c.pc \in {"open", "check", "reread", "erase"} => Holds(c) = {c.profile}
         /\ c.pc \in {"merge", "rest"} => Holds(c) = {c.source, c.target}
         /\ Holds(c) \subseteq Profiles
BY TaskKinds DEF Holds

LEMMA TaskStays ==
  ASSUME RequestersInv, NEW c \in AllTasks, NEW H, NEW pr, NEW cr, NEW ow,
         OnlyOf(H, pr, cr, ow), Holds(c) \cap H = {}, TaskFits(c, profiles)
  PROVE  /\ TaskOK(c, profiles, contactRows, owned) => TaskOK(c, pr, cr, ow)
         /\ TaskClear(c, profiles) => TaskClear(c, pr)
<1>1. ASSUME TaskOK(c, profiles, contactRows, owned) PROVE TaskOK(c, pr, cr, ow)
  <2>1. ASSUME c.pc = "renew" PROVE cr[c.row].owner = c.owner /\ ~pr[c.owner].anonymised
    <3>1. c.owner \in Profiles /\ c.owner \notin H /\ c.row \in Profiles
      BY <2>1, TaskKinds, HoldsKinds
    <3>2. contactRows[c.row].owner = c.owner /\ ~profiles[c.owner].anonymised
      BY <1>1, <2>1 DEF TaskOK
    <3> QED
      BY <3>1, <3>2, RequestersConstants DEF OnlyOf
  <2>2. ASSUME c.pc \in {"merge", "rest"} PROVE ~pr[c.source].anonymised /\ ~pr[c.target].anonymised
    <3>1. c.source \in Profiles \ H /\ c.target \in Profiles \ H
      BY <2>2, TaskKinds, HoldsKinds
    <3> QED
      BY <1>1, <2>2, <3>1 DEF TaskOK, OnlyOf
  <2>3. ASSUME c.pc = "rest" PROVE c.took = {n \in TicketNos : ow[n].owner = c.source}
    <3>1. c.source \in Profiles \ H
      BY <2>3, TaskKinds, HoldsKinds
    <3> QED
      BY <1>1, <2>3, <3>1 DEF TaskOK, OnlyOf
  <2>4. ASSUME c.pc \in {"reread", "erase"}, c.cron PROVE {n \in TicketNos : ow[n].owner = c.profile /\ ow[n].open} = {}
    <3>1. c.profile \in Profiles \ H
      BY <2>4, TaskKinds, HoldsKinds
    <3> QED
      BY <1>1, <2>4, <3>1 DEF TaskOK, OnlyOf
  <2> QED
    BY <2>1, <2>2, <2>3, <2>4 DEF TaskOK
<1>2. ASSUME TaskClear(c, profiles) PROVE TaskClear(c, pr)
  <2>1. c.pc = "renew" => c.owner \in Profiles \ H
    BY TaskKinds, HoldsKinds
  <2>2. c.pc = "open" => c.profile \in Profiles \ H
    BY TaskKinds, HoldsKinds
  <2> QED
    BY <1>2, <2>1, <2>2 DEF TaskClear, OnlyOf
<1> QED
  BY <1>1, <1>2

LEMMA TaskFitsOn ==
  ASSUME NEW c \in AllTasks, TaskFits(c, profiles), NEW pr, \A p \in Profiles : profiles[p].used => pr[p].used
  PROVE  TaskFits(c, pr)
BY TaskKinds DEF TaskFits

LEMMA RequestersInitHolds == RequestersInit => RequestersInv
<1> SUFFICES ASSUME RequestersInit PROVE RequestersInv
  OBVIOUS
<1>1. /\ profiles \in [Profiles -> RequesterRows] /\ contactRows \in [Profiles -> IdentityRows] /\ withDevice = {}
      /\ owned \in [TicketNos -> OwnedRows] /\ tasks \in [Tasks -> AllTasks]
  BY RequestersConstants DEF RequestersInit, IdentityRows, IdentityRow, OwnedRows
<1>2. \A p \in Profiles : profiles[p] = Unused /\ contactRows[p] = NoIdentity
  BY DEF RequestersInit
<1>3. \A k \in Tasks : tasks[k] = NoTask
  BY DEF RequestersInit
<1>4. RowsFit(profiles, contactRows, withDevice, owned)
  BY <1>1, <1>2, RequestersConstants DEF RowsFit
<1>5. \A k \in Tasks : TaskFits(tasks[k], profiles) /\ TaskOK(tasks[k], profiles, contactRows, owned) /\ TaskClear(tasks[k], profiles)
  BY <1>3, RequestersConstants DEF TaskFits, TaskOK, TaskClear
<1>6. Disjoint(tasks)
  BY <1>3, RequestersConstants, HoldsKinds DEF Disjoint
<1>7. Clean(profiles, contactRows, withDevice) /\ Emptied(profiles, contactRows, withDevice, owned)
  BY <1>2, RequestersConstants DEF Clean, Emptied
<1> QED
  BY <1>1, <1>4, <1>5, <1>6, <1>7 DEF RequestersInit, RequestersInv

(* A step of the operation k, from what it was doing to c.                   *)
LEMMA TaskMoves ==
  ASSUME RequestersInv, NEW k \in Tasks, NEW c \in AllTasks, NEW pr, NEW cr, NEW wd, NEW ow, NEW bl,
         tasks' = [tasks EXCEPT ![k] = c], UNCHANGED raced,
         pr = profiles', cr = contactRows', wd = withDevice', ow = owned', bl = blunders',
         RowsFit(pr, cr, wd, ow), TaskFits(c, pr), \A p \in Profiles : profiles[p].used => pr[p].used,
         ~raced => OnlyOf(Holds(tasks[k]), pr, cr, ow), Holds(c) \subseteq Holds(tasks[k]),
         bl \subseteq {"open ticket", "merged target"}, blunders \subseteq bl,
         ~raced => Clean(pr, cr, wd) /\ TaskOK(c, pr, cr, ow) /\ "open ticket" \notin bl,
         ~raced /\ "merged target" \notin bl => Emptied(pr, cr, wd, ow) /\ TaskClear(c, pr)
  PROVE  RequestersInv'
<1>1. PICK T : T = tasks'
  OBVIOUS
<1>2. tasks \in [Tasks -> AllTasks] /\ raced \in BOOLEAN
  BY DEF RequestersInv
<1>3. T \in [Tasks -> AllTasks] /\ T[k] = c /\ \A j \in Tasks : j # k => T[j] = tasks[j]
  BY <1>1, <1>2
<1>4. \A j \in Tasks : TaskFits(T[j], pr)
  <2>1. SUFFICES ASSUME NEW j \in Tasks PROVE TaskFits(T[j], pr)
    OBVIOUS
  <2>2. CASE j = k
    BY <1>3, <2>2
  <2>3. CASE j # k
    <3>1. TaskFits(tasks[j], profiles) /\ tasks[j] \in AllTasks /\ \A p \in Profiles : profiles[p].used => pr[p].used
      BY <1>2 DEF RequestersInv
    <3> QED
      BY <1>3, <2>3, <3>1, TaskFitsOn
  <2> QED
    BY <2>2, <2>3
<1>5. ASSUME ~raced
      PROVE  Disjoint(T) /\ \A j \in Tasks : j # k => Holds(tasks[j]) \cap Holds(tasks[k]) = {}
  <2>1. Disjoint(tasks)
    BY <1>5 DEF RequestersInv
  <2> QED
    BY <1>3, <2>1 DEF Disjoint
<1>6. ASSUME ~raced, NEW j \in Tasks
      PROVE  TaskOK(T[j], pr, cr, ow) /\ ("merged target" \notin bl => TaskClear(T[j], pr))
  <2>1. CASE j = k
    BY <1>3, <1>6, <2>1
  <2>2. CASE j # k
    <3>1. /\ tasks[j] \in AllTasks /\ TaskFits(tasks[j], profiles) /\ TaskOK(tasks[j], profiles, contactRows, owned)
          /\ "merged target" \notin bl => TaskClear(tasks[j], profiles)
      BY <1>2, <1>6 DEF RequestersInv
    <3>2. Holds(tasks[j]) \cap Holds(tasks[k]) = {}
      BY <1>5, <1>6, <2>2
    <3>3. T[j] = tasks[j]
      BY <1>3, <2>2
    <3>4. OnlyOf(Holds(tasks[k]), pr, cr, ow)
      BY <1>6
    <3> QED
      BY <3>1, <3>2, <3>3, <3>4, TaskStays
  <2> QED
    BY <2>1, <2>2
<1> QED
  BY <1>1, <1>2, <1>3, <1>4, <1>5, <1>6 DEF RequestersInv

(* An operation that begins holds its profiles, and changes no row but the   *)
(* times of a visit.                                                         *)
SameButTimes(pr) ==
  /\ pr \in [Profiles -> RequesterRows]
  /\ \A p \in Profiles : pr[p].used = profiles[p].used /\ pr[p].anonymised = profiles[p].anonymised /\ pr[p].merged = profiles[p].merged

LEMMA RowsStay ==
  ASSUME RequestersInv, NEW pr, SameButTimes(pr)
  PROVE  /\ RowsFit(pr, contactRows, withDevice, owned) /\ OnlyOf({}, pr, contactRows, owned)
         /\ Clean(profiles, contactRows, withDevice) => Clean(pr, contactRows, withDevice)
         /\ Emptied(profiles, contactRows, withDevice, owned) => Emptied(pr, contactRows, withDevice, owned)
<1>1. RowsFit(profiles, contactRows, withDevice, owned)
  BY DEF RequestersInv
<1>2. \A r \in Profiles : contactRows[r] # NoIdentity => contactRows[r].owner \in Profiles
  BY <1>1 DEF RowsFit, IdentityRows, IdentityRow
<1>3. RowsFit(pr, contactRows, withDevice, owned)
  BY <1>1, <1>2 DEF RowsFit, SameButTimes
<1> QED
  BY <1>3 DEF SameButTimes, OnlyOf, Clean, Emptied

LEMMA TaskBegins ==
  ASSUME RequestersInv, NEW k \in Tasks, NEW c \in AllTasks, NEW pr, Hold(k, c), pr = profiles', SameButTimes(pr),
         UNCHANGED <<contactRows, withDevice, owned, blunders>>, TaskFits(c, profiles),
         ~raced => TaskOK(c, profiles, contactRows, owned),
         ~raced /\ "merged target" \notin blunders => TaskClear(c, profiles)
  PROVE  RequestersInv'
<1>1. PICK T : T = tasks'
  OBVIOUS
<1>2. tasks \in [Tasks -> AllTasks] /\ raced \in BOOLEAN
  BY DEF RequestersInv
<1>3. T = [tasks EXCEPT ![k] = c] /\ tasks[k] = NoTask
  BY <1>1 DEF Hold
<1>4. T \in [Tasks -> AllTasks] /\ T[k] = c /\ \A j \in Tasks : j # k => T[j] = tasks[j]
  BY <1>2, <1>3
<1>5. PICK x \in BOOLEAN : x = raced' /\ x = (raced \/ \E j \in Tasks : Holds(tasks[j]) \cap Holds(c) # {})
  BY <1>2 DEF Hold
<1>6. \A p \in Profiles : profiles[p].used => pr[p].used
  BY DEF SameButTimes
<1>7. \A j \in Tasks : TaskFits(T[j], pr)
  <2>1. SUFFICES ASSUME NEW j \in Tasks PROVE TaskFits(T[j], pr)
    OBVIOUS
  <2>2. TaskFits(T[j], profiles) /\ T[j] \in AllTasks
    BY <1>4 DEF RequestersInv
  <2> QED
    BY <1>6, <2>2, TaskFitsOn
<1>8. OnlyOf({}, pr, contactRows, owned)
  BY RowsStay
<1>9. ASSUME ~x
      PROVE  ~raced /\ Disjoint(T)
  <2>1. ~raced /\ Disjoint(tasks)
    BY <1>5, <1>9 DEF RequestersInv
  <2> QED
    BY <1>4, <1>5, <1>9, <2>1 DEF Disjoint
<1>10. ASSUME ~raced, NEW j \in Tasks
       PROVE  /\ TaskOK(T[j], pr, contactRows, owned)
              /\ "merged target" \notin blunders => TaskClear(T[j], pr)
  <2>1. /\ T[j] \in AllTasks /\ TaskFits(T[j], profiles) /\ TaskOK(T[j], profiles, contactRows, owned)
        /\ "merged target" \notin blunders => TaskClear(T[j], profiles)
    BY <1>4, <1>10 DEF RequestersInv
  <2> QED
    BY <1>8, <2>1, TaskStays
<1>11. RowsFit(pr, contactRows, withDevice, owned)
  BY RowsStay
<1>12. ~x => Clean(pr, contactRows, withDevice) /\ "open ticket" \notin blunders
  BY <1>9, RowsStay DEF RequestersInv
<1>13. ~x /\ "merged target" \notin blunders => Emptied(pr, contactRows, withDevice, owned)
  BY <1>9, RowsStay DEF RequestersInv
<1>14. blunders \subseteq {"open ticket", "merged target"} /\ blunders' = blunders
  BY DEF RequestersInv
<1>15. RowsFit(profiles, contactRows, withDevice, owned)' /\ (tasks \in [Tasks -> AllTasks])' /\ (raced \in BOOLEAN)'
  BY <1>1, <1>4, <1>5, <1>11
<1>16. (blunders \subseteq {"open ticket", "merged target"})' /\ (\A j \in Tasks : TaskFits(tasks[j], profiles))'
  BY <1>1, <1>7, <1>14
<1>17. ~raced' => /\ Disjoint(tasks)' /\ Clean(profiles, contactRows, withDevice)'
                  /\ (\A j \in Tasks : TaskOK(tasks[j], profiles, contactRows, owned))' /\ ("open ticket" \notin blunders)'
  <2>1. ASSUME ~x
        PROVE  Disjoint(T) /\ Clean(pr, contactRows, withDevice) /\ "open ticket" \notin blunders
    BY <1>9, <1>12, <2>1
  <2>2. ASSUME ~x
        PROVE  \A j \in Tasks : TaskOK(T[j], pr, contactRows, owned)
    BY <1>9, <1>10, <2>2
  <2>3. /\ tasks' = T /\ profiles' = pr /\ contactRows' = contactRows /\ withDevice' = withDevice /\ owned' = owned
        /\ blunders' = blunders /\ raced' = x
    BY <1>1, <1>5
  <2>4. (\A j \in Tasks : TaskOK(T[j], pr, contactRows, owned)) => (\A j \in Tasks : TaskOK(tasks[j], profiles, contactRows, owned))'
    BY <2>3
  <2>5. (Disjoint(T) => Disjoint(tasks)') /\ (Clean(pr, contactRows, withDevice) => Clean(profiles, contactRows, withDevice)')
    BY <2>3
  <2> QED
    BY <2>1, <2>2, <2>3, <2>4, <2>5
<1>18. ~raced' /\ ("merged target" \notin blunders)' =>
          Emptied(profiles, contactRows, withDevice, owned)' /\ (\A j \in Tasks : TaskClear(tasks[j], profiles))'
  <2>1. ASSUME ~x, "merged target" \notin blunders
        PROVE  \A j \in Tasks : TaskClear(T[j], pr)
    BY <1>9, <1>10, <2>1
  <2>2. /\ tasks' = T /\ profiles' = pr /\ contactRows' = contactRows /\ withDevice' = withDevice /\ owned' = owned
        /\ blunders' = blunders /\ raced' = x
    BY <1>1, <1>5
  <2>3. (\A j \in Tasks : TaskClear(T[j], pr)) => (\A j \in Tasks : TaskClear(tasks[j], profiles))'
    BY <2>2
  <2>4. Emptied(pr, contactRows, withDevice, owned) => Emptied(profiles, contactRows, withDevice, owned)'
    BY <2>2
  <2> QED
    BY <1>13, <2>1, <2>2, <2>3, <2>4
<1> QED
  BY <1>15, <1>16, <1>17, <1>18 DEF RequestersInv

(* What is known of an operation at work.                                    *)
LEMMA TaskKnown ==
  ASSUME RequestersInv, NEW k \in Tasks
  PROVE  /\ tasks[k] \in AllTasks /\ TaskFits(tasks[k], profiles)
         /\ RowsFit(profiles, contactRows, withDevice, owned) /\ raced \in BOOLEAN /\ blunders \subseteq {"open ticket", "merged target"}
         /\ ~raced => /\ Clean(profiles, contactRows, withDevice) /\ TaskOK(tasks[k], profiles, contactRows, owned)
                      /\ "open ticket" \notin blunders
         /\ ~raced /\ "merged target" \notin blunders =>
               Emptied(profiles, contactRows, withDevice, owned) /\ TaskClear(tasks[k], profiles)
BY DEF RequestersInv

LEMMA NothingChanges == ASSUME NEW H PROVE OnlyOf(H, profiles, contactRows, owned) /\ (profiles \in [Profiles -> RequesterRows] => SameButTimes(profiles))
BY DEF OnlyOf, SameButTimes

(* A step that ends or moves on an operation and changes no row.             *)
LEMMA TaskGoesOn ==
  ASSUME RequestersInv, NEW k \in Tasks, NEW c \in AllTasks, tasks' = [tasks EXCEPT ![k] = c],
         UNCHANGED <<profiles, contactRows, withDevice, owned, raced, blunders>>,
         TaskFits(c, profiles), Holds(c) \subseteq Holds(tasks[k]),
         ~raced => TaskOK(c, profiles, contactRows, owned),
         ~raced /\ "merged target" \notin blunders => TaskClear(c, profiles)
  PROVE  RequestersInv'
BY TaskKnown, TaskMoves, NothingChanges DEF OnlyOf

LEMMA TaskEnds ==
  /\ NoTask \in AllTasks /\ Holds(NoTask) = {}
  /\ \A pr, cr, ow : TaskFits(NoTask, pr) /\ TaskOK(NoTask, pr, cr, ow) /\ TaskClear(NoTask, pr)
BY RequestersConstants, HoldsKinds DEF TaskFits, TaskOK, TaskClear

(* A step of no operation, that touches times or closes tickets.             *)
LEMMA RowsChange ==
  ASSUME RequestersInv, NEW pr, NEW ow, SameButTimes(pr), pr = profiles', ow = owned', UNCHANGED <<contactRows, withDevice, tasks, raced, blunders>>,
         ow \in [TicketNos -> OwnedRows],
         \A n \in TicketNos : ow[n].owner = owned[n].owner /\ (ow[n].open => owned[n].open)
  PROVE  RequestersInv'
<1>1. OnlyOf({}, pr, contactRows, ow)
  BY DEF SameButTimes, OnlyOf
<1>2. RowsFit(pr, contactRows, withDevice, ow)
  BY RowsStay DEF RowsFit
<1>3. \A p \in Profiles : profiles[p].used => pr[p].used
  BY DEF SameButTimes
<1>4. tasks \in [Tasks -> AllTasks]
  BY DEF RequestersInv
<1>5. \A j \in Tasks : TaskFits(tasks[j], pr)
  <2>1. SUFFICES ASSUME NEW j \in Tasks PROVE TaskFits(tasks[j], pr)
    OBVIOUS
  <2>2. tasks[j] \in AllTasks /\ TaskFits(tasks[j], profiles)
    BY TaskKnown
  <2> QED
    BY <1>3, <2>2, TaskFitsOn
<1>6. ASSUME ~raced, NEW j \in Tasks
      PROVE  /\ TaskOK(tasks[j], pr, contactRows, ow)
             /\ "merged target" \notin blunders => TaskClear(tasks[j], pr)
  <2>1. /\ tasks[j] \in AllTasks /\ TaskFits(tasks[j], profiles) /\ TaskOK(tasks[j], profiles, contactRows, owned)
        /\ "merged target" \notin blunders => TaskClear(tasks[j], profiles)
    BY <1>6, TaskKnown
  <2> QED
    BY <1>1, <2>1, TaskStays
<1>7. ~raced => Clean(pr, contactRows, withDevice) /\ "open ticket" \notin blunders /\ Disjoint(tasks)
  BY RowsStay DEF RequestersInv
<1>8. ~raced /\ "merged target" \notin blunders => Emptied(pr, contactRows, withDevice, ow)
  <2>1. SUFFICES ASSUME ~raced, "merged target" \notin blunders PROVE Emptied(pr, contactRows, withDevice, ow)
    OBVIOUS
  <2>2. Emptied(profiles, contactRows, withDevice, owned)
    BY <2>1 DEF RequestersInv
  <2>3. \A p \in Profiles : pr[p].merged = profiles[p].merged
    BY DEF SameButTimes
  <2> QED
    BY <2>2, <2>3 DEF Emptied
<1> QED
  BY <1>2, <1>4, <1>5, <1>6, <1>7, <1>8 DEF RequestersInv

LEMMA RequestersStepHolds == RequestersInv /\ [RequestersNext]_reqVars => RequestersInv'
<1> SUFFICES ASSUME RequestersInv, [RequestersNext]_reqVars PROVE RequestersInv'
  OBVIOUS
<1>1. /\ profiles \in [Profiles -> RequesterRows] /\ contactRows \in [Profiles -> IdentityRows]
      /\ withDevice \subseteq Profiles /\ owned \in [TicketNos -> OwnedRows]
      /\ RowsFit(profiles, contactRows, withDevice, owned)
      /\ tasks \in [Tasks -> AllTasks] /\ raced \in BOOLEAN /\ blunders \subseteq {"open ticket", "merged target"}
  BY DEF RequestersInv, RowsFit
<1>2. SameButTimes(profiles)
  BY <1>1, NothingChanges
<1>22. ASSUME NEW r \in Profiles, NEW q \in Profiles, contactRows[r].contact = contactRows[q].contact, contactRows[r].contact # Erased PROVE r = q
  BY <1>1, <1>22 DEF RowsFit
<1>3. ASSUME NEW k \in Tasks, NEW ct \in Contacts, FindContact(k, ct) PROVE RequestersInv'
  <2>1. UNCHANGED <<profiles, contactRows, withDevice, owned, blunders>>
    BY <1>3 DEF FindContact
  <2>2. CASE \E r \in Profiles : contactRows[r].contact = ct /\ Hold(k, [pc |-> "renew", row |-> r, owner |-> contactRows[r].owner])
    <3>1. PICK r \in Profiles : contactRows[r].contact = ct /\ Hold(k, [pc |-> "renew", row |-> r, owner |-> contactRows[r].owner])
      BY <2>2
    <3>2. PICK c : c = [pc |-> "renew", row |-> r, owner |-> contactRows[r].owner]
      OBVIOUS
    <3>3. contactRows[r] # NoIdentity /\ contactRows[r].contact # Erased /\ contactRows[r].owner \in Profiles
      BY <1>1, <3>1, RequestersConstants DEF IdentityRows, IdentityRow
    <3>4. c \in RenewTasks /\ c.pc = "renew" /\ c.row = r /\ c.owner = contactRows[r].owner
      BY <3>2, <3>3 DEF RenewTasks
    <3>5. c \in AllTasks
      BY <3>4 DEF AllTasks
    <3>6. TaskFits(c, profiles)
      BY <1>1, <3>3, <3>4 DEF TaskFits, RowsFit
    <3>7. ~raced => TaskOK(c, profiles, contactRows, owned)
      BY <3>3, <3>4 DEF TaskOK, Clean, RequestersInv
    <3>8. ~raced /\ "merged target" \notin blunders => TaskClear(c, profiles)
      BY <3>3, <3>4 DEF TaskClear, Emptied, RequestersInv
    <3>9. Hold(k, c)
      BY <3>1, <3>2
    <3> QED
      BY <1>2, <2>1, <3>5, <3>6, <3>7, <3>8, <3>9, TaskBegins
  <2>3. CASE Hold(k, [pc |-> "create", contact |-> ct])
    <3>1. PICK c : c = [pc |-> "create", contact |-> ct]
      OBVIOUS
    <3>2. c \in AllTasks /\ c.pc = "create"
      BY <3>1 DEF AllTasks, CreateTasks
    <3>3. TaskFits(c, profiles) /\ TaskOK(c, profiles, contactRows, owned) /\ TaskClear(c, profiles)
      BY <3>2 DEF TaskFits, TaskOK, TaskClear
    <3>4. Hold(k, c)
      BY <2>3, <3>1
    <3> QED
      BY <1>2, <2>1, <3>2, <3>3, <3>4, TaskBegins
  <2> QED
    BY <1>3, <2>2, <2>3 DEF FindContact
(* An operation of one profile that begins.                                  *)
<1>4. ASSUME NEW k \in Tasks, NEW p \in Profiles, NEW step \in {"open", "check", "erase"}, NEW cron_ \in BOOLEAN,
             Hold(k, [pc |-> step, profile |-> p, cron |-> cron_]), NEW pr, pr = profiles', SameButTimes(pr),
             UNCHANGED <<contactRows, withDevice, owned, blunders>>,
             step = "erase" => ~cron_, step = "open" => p \in withDevice
      PROVE  RequestersInv'
  <2>1. PICK c : c = [pc |-> step, profile |-> p, cron |-> cron_]
    OBVIOUS
  <2>2. c \in AllTasks /\ c.pc = step /\ c.profile = p /\ c.cron = cron_
    BY <2>1 DEF AllTasks, OneTasks
  <2>3. TaskFits(c, profiles) /\ TaskOK(c, profiles, contactRows, owned)
    BY <1>4, <2>2 DEF TaskFits, TaskOK
  <2>4. ~raced /\ "merged target" \notin blunders => TaskClear(c, profiles)
    BY <1>4, <2>2 DEF TaskClear, Emptied, RequestersInv
  <2>5. Hold(k, c)
    BY <1>4, <2>1
  <2> QED
    BY <1>4, <2>2, <2>3, <2>4, <2>5, TaskBegins
<1>6. ASSUME NEW k \in Tasks, NEW p \in Profiles, BeginTicket(k, p) PROVE RequestersInv'
  <2>1. /\ p \in withDevice /\ Hold(k, [pc |-> "open", profile |-> p, cron |-> FALSE])
        /\ UNCHANGED <<profiles, contactRows, withDevice, owned, blunders>>
    BY <1>6 DEF BeginTicket, Session
  <2> QED
    BY <1>2, <1>4, <2>1
<1>7. ASSUME NEW k \in Tasks, NEW p \in Profiles, RequireRequester(k, p) \/ ListInactive(k, p) PROVE RequestersInv'
  <2>1. /\ UNCHANGED <<profiles, contactRows, withDevice, owned, blunders>>
        /\ \/ Hold(k, [pc |-> "erase", profile |-> p, cron |-> FALSE])
           \/ Hold(k, [pc |-> "check", profile |-> p, cron |-> TRUE])
    BY <1>7 DEF RequireRequester, ListInactive
  <2> QED
    BY <1>2, <1>4, <2>1
<1>8. ASSUME NEW k \in Tasks, NEW s \in Profiles, NEW t \in Profiles, CheckMerge(k, s, t) PROVE RequestersInv'
  <2>1. PICK c : c = [pc |-> "merge", source |-> s, target |-> t, took |-> {}]
    OBVIOUS
  <2>2. c \in AllTasks /\ c.pc = "merge" /\ c.source = s /\ c.target = t
    BY <2>1 DEF AllTasks, MergeTasks
  <2>3. Hold(k, c) /\ UNCHANGED <<profiles, contactRows, withDevice, owned, blunders>>
        /\ s # t /\ profiles[s].used /\ profiles[t].used /\ ~profiles[s].anonymised /\ ~profiles[t].anonymised
    BY <1>8, <2>1 DEF CheckMerge
  <2>4. TaskFits(c, profiles) /\ TaskOK(c, profiles, contactRows, owned) /\ TaskClear(c, profiles)
    BY <2>2, <2>3 DEF TaskFits, TaskOK, TaskClear
  <2> QED
    BY <1>2, <2>2, <2>3, <2>4, TaskBegins
<1>9. ASSUME NEW n \in TicketNos, CloseTicket(n) PROVE RequestersInv'
  <2>1. PICK ow : ow = [owned EXCEPT ![n].open = FALSE]
    OBVIOUS
  <2>2. owned[n] \in [owner: Profiles, open: BOOLEAN] /\ owned[n].open
    BY <1>1, <1>9, RequestersConstants DEF CloseTicket, OwnedRows
  <2>3. ow \in [TicketNos -> OwnedRows] /\ \A m \in TicketNos : ow[m].owner = owned[m].owner /\ (ow[m].open => owned[m].open)
    BY <1>1, <2>1, <2>2 DEF OwnedRows
  <2>4. ow = owned' /\ UNCHANGED <<profiles, contactRows, withDevice, tasks, raced, blunders>>
    BY <1>9, <2>1 DEF CloseTicket
  <2> QED
    BY <1>2, <2>3, <2>4, RowsChange
<1>10. ASSUME NEW p \in Profiles, NEW b \in BOOLEAN, profiles' = [profiles EXCEPT ![p].stale = b],
              UNCHANGED <<contactRows, withDevice, owned, tasks, raced, blunders>>
       PROVE  RequestersInv'
  <2>1. PICK pr : pr = [profiles EXCEPT ![p].stale = b]
    OBVIOUS
  <2>2. SameButTimes(pr)
    BY <1>1, <2>1 DEF SameButTimes, RequesterRows
  <2>3. pr = profiles'
    BY <1>10, <2>1
  <2> QED
    BY <1>1, <1>10, <2>2, <2>3, RowsChange
<1>11. ASSUME NEW p \in Profiles, UpdatePreferences(p) \/ Absent(p) PROVE RequestersInv'
  BY <1>10, <1>11 DEF UpdatePreferences, Absent
<1>12. ASSUME NEW k \in Tasks, TakeTickets(k) PROVE RequestersInv'
  <2>1. PICK d \in AllTasks : d = tasks[k]
    BY <1>1
  <2>2. d.pc = "merge" /\ d \in MergeTasks /\ d.source \in Profiles /\ d.target \in Profiles
    BY <1>12, <2>1, TaskKinds DEF TakeTickets
  <2>3. PICK S : S = {n \in TicketNos : owned[n].owner = d.source}
    OBVIOUS
  <2>4. PICK c : c = [pc |-> "rest", source |-> d.source, target |-> d.target, took |-> S]
    OBVIOUS
  <2>5. c \in AllTasks /\ c.pc = "rest" /\ c.source = d.source /\ c.target = d.target /\ c.took = S
    BY <2>2, <2>3, <2>4 DEF AllTasks, MergeTasks
  <2>6. tasks' = [tasks EXCEPT ![k] = c]
    <3>1. d = [pc |-> d.pc, source |-> d.source, target |-> d.target, took |-> d.took]
      BY <2>2 DEF MergeTasks
    <3>2. PICK u : u = [d EXCEPT !.pc = "rest"]
      OBVIOUS
    <3>3. u = [pc |-> "rest", source |-> d.source, target |-> d.target, took |-> d.took]
      BY <3>1, <3>2
    <3>4. [u EXCEPT !.took = S] = c
      BY <2>4, <3>3
    <3>5. tasks' = [tasks EXCEPT ![k] = [tasks[k] EXCEPT !.pc = "rest", !.took = S]]
      BY <1>12, <2>1, <2>3 DEF TakeTickets
    <3> QED
      BY <2>1, <3>2, <3>4, <3>5
  <2>7. UNCHANGED <<profiles, contactRows, withDevice, owned, raced, blunders>>
    BY <1>12 DEF TakeTickets
  <2>8. Holds(c) = Holds(d)
    BY <2>2, <2>5, HoldsKinds
  <2>9. TaskFits(c, profiles) /\ TaskClear(c, profiles)
    BY <2>1, <2>2, <2>5, TaskKnown DEF TaskFits, TaskClear
  <2>10. ~raced => TaskOK(c, profiles, contactRows, owned)
    BY <2>1, <2>2, <2>3, <2>5, TaskKnown DEF TaskOK
  <2> QED
    BY <2>1, <2>5, <2>6, <2>7, <2>8, <2>9, <2>10, TaskGoesOn
(* An operation that ends without an effect.                                 *)
<1>13. ASSUME NEW k \in Tasks, Release(k), UNCHANGED <<profiles, contactRows, withDevice, owned, raced, blunders>>
       PROVE  RequestersInv'
  <2>1. tasks' = [tasks EXCEPT ![k] = NoTask]
    BY <1>13 DEF Release
  <2> QED
    BY <1>13, <2>1, TaskEnds, TaskGoesOn
<1>14. ASSUME NEW k \in Tasks, NEW p \in Profiles, CreateProfile(k, p) PROVE RequestersInv'
  <2>1. PICK d \in AllTasks : d = tasks[k]
    BY <1>1
  <2>2. d.pc = "create" /\ d.contact \in Contacts /\ NextRow(p) /\ Release(k) /\ UNCHANGED <<owned, raced, blunders>>
    BY <1>14, <2>1, TaskKinds DEF CreateProfile
  <2>3. CASE \E r \in Profiles : contactRows[r].contact = d.contact
    <3>1. UNCHANGED <<profiles, contactRows, withDevice>>
      BY <1>14, <2>1, <2>3 DEF CreateProfile
    <3> QED
      BY <1>13, <2>2, <3>1
  <2>4. CASE ~ \E r \in Profiles : contactRows[r].contact = d.contact
    <3>1. PICK row : row = [Unused EXCEPT !.used = TRUE]
      OBVIOUS
    <3>2. /\ row \in RequesterRows /\ row.used /\ ~row.anonymised /\ ~row.merged
          /\ row.anonymised = Unused.anonymised /\ row.merged = Unused.merged
      BY <3>1 DEF Unused, RequesterRows
    <3>3. PICK id : id = [contact |-> d.contact, owner |-> p, personal |-> TRUE, site |-> FromSite(d.contact)]
      OBVIOUS
    <3>4. id \in IdentityRows /\ id.contact = d.contact /\ id.owner = p /\ id # NoIdentity /\ id.contact # Erased
      <4>1. FromSite(d.contact) \in BOOLEAN
        BY DEF FromSite
      <4>2. id \in IdentityRow /\ id.contact = d.contact /\ id.owner = p
        BY <2>2, <3>3, <4>1 DEF IdentityRow
      <4> QED
        BY <2>2, <4>2, RequestersConstants DEF IdentityRows
    <3>5. PICK pr : pr = [profiles EXCEPT ![p] = row]
      OBVIOUS
    <3>6. PICK cr : cr = [contactRows EXCEPT ![p] = id]
      OBVIOUS
    <3>7. PICK wd : wd = withDevice \cup {p}
      OBVIOUS
    <3>8. profiles' = pr /\ contactRows' = cr /\ withDevice' = wd
      BY <1>14, <2>1, <2>4, <3>1, <3>3, <3>5, <3>6, <3>7 DEF CreateProfile
    <3>9. /\ profiles[p] = Unused /\ contactRows[p] = NoIdentity /\ p \in Profiles /\ p # NoOne
      BY <1>1, <2>2, RequestersConstants DEF NextRow, RowsFit
    <3>10. /\ pr[p] = row /\ cr[p] = id /\ \A r \in Profiles : r # p => pr[r] = profiles[r] /\ cr[r] = contactRows[r]
           /\ pr \in [Profiles -> RequesterRows] /\ cr \in [Profiles -> IdentityRows]
      BY <1>1, <3>2, <3>4, <3>5, <3>6
    <3>11. RowsFit(pr, cr, wd, owned)
      <4>1. \A r \in Profiles : pr[r].used <=> cr[r] # NoIdentity
        BY <1>1, <3>2, <3>4, <3>10 DEF RowsFit
      <4>2. \A r \in Profiles : contactRows[r] # NoIdentity => contactRows[r].owner \in Profiles
        BY <1>1 DEF IdentityRows, IdentityRow
      <4>3. \A r \in Profiles : cr[r] # NoIdentity => pr[cr[r].owner].used
        BY <1>1, <3>2, <3>4, <3>10, <4>2 DEF RowsFit
      <4>4. ASSUME NEW r \in Profiles, NEW q \in Profiles, cr[r].contact = cr[q].contact, cr[r].contact # Erased PROVE r = q
        <5>1. CASE r # p /\ q # p
          BY <1>22, <3>10, <4>4, <5>1
        <5>2. CASE r = p /\ q # p
          BY <2>4, <3>4, <3>10, <4>4, <5>2
        <5>3. CASE r # p /\ q = p
          BY <2>4, <3>4, <3>10, <4>4, <5>3
        <5> QED
          BY <5>1, <5>2, <5>3
      <4>5. wd \subseteq Profiles /\ \A q \in wd : pr[q].used
        BY <1>1, <3>2, <3>7, <3>10 DEF RowsFit
      <4> QED
        BY <1>1, <3>10, <4>1, <4>3, <4>4, <4>5 DEF RowsFit
    <3>12. OnlyOf({}, pr, cr, owned)
      BY <3>2, <3>9, <3>10, RequestersConstants DEF OnlyOf
    <3>13. ~raced => Clean(pr, cr, wd)
      <4>1. ASSUME ~raced PROVE Clean(profiles, contactRows, withDevice)
        BY <4>1 DEF RequestersInv
      <4> QED
        BY <3>2, <3>4, <3>7, <3>10, <4>1 DEF Clean
    <3>14. ~raced /\ "merged target" \notin blunders => Emptied(pr, cr, wd, owned)
      <4>1. ASSUME ~raced, "merged target" \notin blunders PROVE Emptied(profiles, contactRows, withDevice, owned)
        BY <4>1 DEF RequestersInv
      <4> QED
        <5>1. SUFFICES ASSUME ~raced, "merged target" \notin blunders PROVE Emptied(pr, cr, wd, owned)
          OBVIOUS
        <5>2. Emptied(profiles, contactRows, withDevice, owned)
          BY <4>1, <5>1
        <5>3. ASSUME NEW q \in Profiles, pr[q].merged
              PROVE  q \notin wd /\ (\A r \in Profiles : cr[r].owner # q) /\ \A n \in TicketNos : owned[n].owner # q
          <6>1. q # p /\ profiles[q].merged
            BY <3>2, <3>10, <5>3
          <6>2. q \notin withDevice /\ (\A r \in Profiles : contactRows[r].owner # q) /\ \A n \in TicketNos : owned[n].owner # q
            BY <5>2, <6>1 DEF Emptied
          <6> QED
            BY <3>4, <3>7, <3>10, <6>1, <6>2
        <5> QED
          BY <5>3 DEF Emptied
    <3>15. Holds(tasks[k]) = {} /\ tasks' = [tasks EXCEPT ![k] = NoTask]
      BY <2>1, <2>2, HoldsKinds DEF Release
    <3>16. ("open ticket" \in blunders => raced) /\ \A q \in Profiles : profiles[q].used => pr[q].used
      BY <3>12 DEF RequestersInv, OnlyOf
    <3> QED
      BY <1>1, <2>2, <3>8, <3>11, <3>12, <3>13, <3>14, <3>15, <3>16, TaskEnds, TaskMoves
  <2> QED
    BY <2>3, <2>4
<1>15. ASSUME NEW k \in Tasks, RenewIdentity(k) PROVE RequestersInv'
  <2>1. PICK d \in AllTasks : d = tasks[k]
    BY <1>1
  <2>2. d.pc = "renew" /\ d.row \in Profiles /\ d.owner \in Profiles /\ Release(k) /\ UNCHANGED <<owned, raced, blunders>>
    BY <1>15, <2>1, TaskKinds DEF RenewIdentity
  <2>3. PICK p \in Profiles : p = d.owner
    BY <2>2
  <2>4. TaskFits(d, profiles) /\ (~raced => TaskOK(d, profiles, contactRows, owned))
        /\ (~raced /\ "merged target" \notin blunders => TaskClear(d, profiles))
    BY <2>1, TaskKnown
  <2>5. profiles[d.row].used /\ profiles[p].used
    BY <2>2, <2>3, <2>4 DEF TaskFits
  <2>8. PICK pr : pr = [profiles EXCEPT ![p].stale = @ /\ ~contactRows[d.row].site]
    OBVIOUS
  <2>9. SameButTimes(pr)
    <3>1. PICK b \in BOOLEAN : b = (profiles[p].stale /\ ~contactRows[d.row].site)
      OBVIOUS
    <3>2. pr = [profiles EXCEPT ![p].stale = b]
      BY <2>8, <3>1
    <3> QED
      BY <1>1, <3>2 DEF SameButTimes, RequesterRows
  <2>10. contactRows[d.row] \in IdentityRow
    BY <1>1, <2>2, <2>5 DEF RowsFit, IdentityRows, IdentityRow
  <2>11. PICK id : id = [contactRows[d.row] EXCEPT !.personal = TRUE]
    OBVIOUS
  <2>12. id \in IdentityRows /\ id.contact = contactRows[d.row].contact /\ id.owner = contactRows[d.row].owner /\ id # NoIdentity
    BY <2>10, <2>11, RequestersConstants DEF IdentityRows, IdentityRow
  <2>13. PICK cr : cr = [contactRows EXCEPT ![d.row] = id]
    OBVIOUS
  <2>14. PICK wd : wd = withDevice \cup {p}
    OBVIOUS
  <2>15. profiles' = pr /\ contactRows' = cr /\ withDevice' = wd
    BY <1>15, <2>1, <2>3, <2>8, <2>11, <2>13, <2>14 DEF RenewIdentity
  <2>16. /\ cr \in [Profiles -> IdentityRows] /\ cr[d.row] = id /\ \A r \in Profiles : r # d.row => cr[r] = contactRows[r]
         /\ \A r \in Profiles : cr[r].contact = contactRows[r].contact /\ cr[r].owner = contactRows[r].owner
         /\ \A r \in Profiles : cr[r] # NoIdentity <=> contactRows[r] # NoIdentity
    BY <1>1, <2>2, <2>5, <2>12, <2>13 DEF RowsFit
  <2>17. RowsFit(pr, cr, wd, owned)
    <3>1. RowsFit(pr, contactRows, withDevice, owned)
      BY <2>9, RowsStay
    <3>2. pr[p].used
      BY <2>5, <2>9 DEF SameButTimes
    <3> QED
      BY <2>14, <2>16, <3>1, <3>2 DEF RowsFit
  <2>18. ~raced => contactRows[d.row].owner = p /\ ~profiles[p].anonymised
    BY <2>2, <2>3, <2>4 DEF TaskOK
  <2>19. ASSUME ~raced PROVE OnlyOf({p}, pr, cr, owned)
    BY <2>9, <2>16, <2>18, <2>19 DEF OnlyOf, SameButTimes
  <2>20. ASSUME ~raced PROVE Clean(pr, cr, wd)
    <3>1. Clean(profiles, contactRows, withDevice)
      BY <2>20 DEF RequestersInv
    <3> QED
      BY <2>9, <2>14, <2>16, <2>18, <2>20, <3>1 DEF Clean, SameButTimes
  <2>21. ASSUME ~raced, "merged target" \notin blunders PROVE Emptied(pr, cr, wd, owned)
    <3>1. Emptied(profiles, contactRows, withDevice, owned) /\ ~profiles[p].merged
      BY <2>2, <2>3, <2>4, <2>21 DEF RequestersInv, TaskClear
    <3> QED
      BY <2>9, <2>14, <2>16, <3>1 DEF Emptied, SameButTimes
  <2>22. Holds(tasks[k]) = {p} /\ tasks' = [tasks EXCEPT ![k] = NoTask]
    BY <2>1, <2>2, <2>3, HoldsKinds DEF Release
  <2>23. "open ticket" \in blunders => raced
    BY DEF RequestersInv
  <2>24. \A q \in Profiles : profiles[q].used => pr[q].used
    BY <2>9 DEF SameButTimes
  <2> QED
    BY <1>1, <2>2, <2>15, <2>17, <2>19, <2>20, <2>21, <2>22, <2>23, <2>24, TaskEnds, TaskMoves
<1>16. ASSUME NEW k \in Tasks, CommitMerge(k) PROVE RequestersInv'
  <2>1. PICK d \in AllTasks : d = tasks[k]
    BY <1>1
  <2>2. d.pc = "rest" /\ d.source \in Profiles /\ d.target \in Profiles /\ Release(k) /\ UNCHANGED raced
    BY <1>16, <2>1, TaskKinds DEF CommitMerge
  <2>3. PICK s \in Profiles, t \in Profiles : s = d.source /\ t = d.target
    BY <2>2
  <2>4. TaskFits(d, profiles) /\ (~raced => TaskOK(d, profiles, contactRows, owned))
    BY <2>1, TaskKnown
  <2>5. s # t /\ profiles[s].used /\ profiles[t].used
    BY <2>2, <2>3, <2>4 DEF TaskFits
  <2>6. CASE UNCHANGED <<profiles, contactRows, withDevice, owned, blunders>>
    BY <1>13, <2>2, <2>6
  <2>7. CASE ~UNCHANGED <<profiles, contactRows, withDevice, owned, blunders>>
    <3>1. PICK pr : pr = [profiles EXCEPT ![s].merged = TRUE]
      OBVIOUS
    <3>2. PICK cr : cr = [r \in Profiles |-> IF contactRows[r].owner = s THEN [contactRows[r] EXCEPT !.owner = t] ELSE contactRows[r]]
      OBVIOUS
    <3>3. PICK wd : wd = IF s \in withDevice THEN (withDevice \ {s}) \cup {t} ELSE withDevice
      OBVIOUS
    <3>4. PICK ow : ow = [n \in TicketNos |-> IF n \in d.took THEN [owned[n] EXCEPT !.owner = t] ELSE owned[n]]
      OBVIOUS
    <3>5. PICK bl : bl = blunders \cup (IF profiles[t].merged THEN {"merged target"} ELSE {})
      OBVIOUS
    <3>6. profiles' = pr /\ contactRows' = cr /\ withDevice' = wd /\ owned' = ow /\ blunders' = bl
      BY <1>16, <2>1, <2>3, <2>7, <3>1, <3>2, <3>3, <3>4, <3>5 DEF CommitMerge, Moved
    <3>7. /\ pr \in [Profiles -> RequesterRows]
          /\ \A p \in Profiles : pr[p].used = profiles[p].used /\ pr[p].anonymised = profiles[p].anonymised /\ (p # s => pr[p].merged = profiles[p].merged)
      BY <1>1, <3>1 DEF RequesterRows
    <3>8. ASSUME NEW r \in Profiles
          PROVE  /\ cr[r] \in IdentityRows /\ cr[r].contact = contactRows[r].contact /\ cr[r].personal = contactRows[r].personal
                 /\ cr[r].owner = (IF contactRows[r].owner = s THEN t ELSE contactRows[r].owner)
                 /\ cr[r] # NoIdentity <=> contactRows[r] # NoIdentity
                 /\ contactRows[r].owner # s => cr[r] = contactRows[r]
      <4>1. CASE contactRows[r].owner = s
        <5>1. PICK id \in IdentityRow : id = contactRows[r]
          BY <1>1, <4>1, RequestersConstants DEF IdentityRows, IdentityRow
        <5>2. cr[r] = [id EXCEPT !.owner = t]
          BY <3>2, <4>1, <5>1
        <5>3. PICK new : new = [id EXCEPT !.owner = t]
          OBVIOUS
        <5>4. new \in IdentityRow /\ new.contact = id.contact /\ new.personal = id.personal /\ new.owner = t
          BY <5>3 DEF IdentityRow
        <5>5. new # NoIdentity /\ id # NoIdentity
          BY <4>1, <5>1, <5>4, RequestersConstants
        <5> QED
          BY <4>1, <5>1, <5>2, <5>3, <5>4, <5>5 DEF IdentityRows, IdentityRow
      <4>2. CASE contactRows[r].owner # s
        BY <1>1, <3>2, <4>2
      <4> QED
        BY <4>1, <4>2
    <3>9. cr \in [Profiles -> IdentityRows]
      BY <3>2, <3>8
    <3>10. ~raced => d.took = {n \in TicketNos : owned[n].owner = s}
      BY <2>2, <2>3, <2>4 DEF TaskOK
    <3>11. ASSUME NEW n \in TicketNos
           PROVE  /\ ow[n] \in OwnedRows
                  /\ ~raced => ow[n].owner = (IF owned[n].owner = s THEN t ELSE owned[n].owner) /\ ow[n].open = owned[n].open
      <4>1. CASE n \in d.took /\ owned[n] # NoTicket
        <5>1. PICK id \in [owner: Profiles, open: BOOLEAN] : id = owned[n]
          BY <1>1, <4>1 DEF OwnedRows
        <5>2. PICK new : new = [id EXCEPT !.owner = t]
          OBVIOUS
        <5>3. ow[n] = new
          BY <3>4, <4>1, <5>1, <5>2
        <5>4. new \in [owner: Profiles, open: BOOLEAN] /\ new.owner = t /\ new.open = id.open
          BY <5>2
        <5> QED
          BY <3>10, <4>1, <5>1, <5>3, <5>4 DEF OwnedRows
      <4>2. CASE n \in d.took /\ owned[n] = NoTicket
        <5>1. PICK new : new = [NoTicket EXCEPT !.owner = t]
          OBVIOUS
        <5>2. ow[n] = new
          BY <3>4, <4>2, <5>1
        <5>3. new \in [owner: Profiles, open: BOOLEAN] /\ NoTicket.owner # s
          BY <5>1, RequestersConstants DEF NoTicket
        <5> QED
          BY <3>10, <4>2, <5>2, <5>3 DEF OwnedRows
      <4>3. CASE n \notin d.took
        BY <1>1, <3>4, <3>10, <4>3
      <4> QED
        BY <4>1, <4>2, <4>3
    <3>12. ow \in [TicketNos -> OwnedRows]
      BY <3>4, <3>11
    <3>13. RowsFit(pr, cr, wd, ow)
      <4>1. \A r \in Profiles : pr[r].used <=> cr[r] # NoIdentity
        BY <1>1, <3>7, <3>8 DEF RowsFit
      <4>2. \A r \in Profiles : contactRows[r] # NoIdentity => contactRows[r].owner \in Profiles
        BY <1>1 DEF IdentityRows, IdentityRow
      <4>3. \A r \in Profiles : cr[r] # NoIdentity => pr[cr[r].owner].used
        BY <1>1, <2>5, <3>7, <3>8, <4>2 DEF RowsFit
      <4>4. ASSUME NEW r \in Profiles, NEW q \in Profiles, cr[r].contact = cr[q].contact, cr[r].contact # Erased PROVE r = q
        <5>1. cr[r].contact = contactRows[r].contact /\ cr[q].contact = contactRows[q].contact
          BY <3>8
        <5> QED
          BY <1>22, <4>4, <5>1
      <4>5. wd \subseteq Profiles /\ \A q \in wd : pr[q].used
        BY <1>1, <2>5, <3>3, <3>7 DEF RowsFit
      <4> QED
        BY <3>7, <3>9, <3>12, <4>1, <4>3, <4>4, <4>5 DEF RowsFit
    <3>14. Holds(tasks[k]) = {s, t} /\ tasks' = [tasks EXCEPT ![k] = NoTask]
      BY <2>1, <2>2, <2>3, HoldsKinds DEF Release
    <3>15. ASSUME ~raced PROVE OnlyOf({s, t}, pr, cr, ow)
      <4>1. \A n \in TicketNos, p \in Profiles \ {s, t} :
              (ow[n].owner = p <=> owned[n].owner = p) /\ (ow[n].owner = p /\ ow[n].open => owned[n].open)
        BY <3>11, <3>15
      <4> QED
        BY <3>7, <3>8, <4>1 DEF OnlyOf
    <3>16. ASSUME ~raced PROVE Clean(pr, cr, wd)
      <4>1. Clean(profiles, contactRows, withDevice) /\ ~profiles[t].anonymised
        BY <2>2, <2>3, <2>4, <3>16 DEF RequestersInv, TaskOK
      <4>2. ASSUME NEW p \in Profiles, pr[p].anonymised
            PROVE  p \notin wd /\ \A r \in Profiles : cr[r].owner = p => cr[r].contact = Erased /\ ~cr[r].personal
        <5>1. p # t /\ profiles[p].anonymised
          BY <3>7, <4>1, <4>2
        <5>2. p \notin withDevice /\ \A r \in Profiles : contactRows[r].owner = p => contactRows[r].contact = Erased /\ ~contactRows[r].personal
          BY <4>1, <5>1 DEF Clean
        <5>3. p \notin wd
          BY <3>3, <5>1, <5>2
        <5>4. \A r \in Profiles : cr[r].owner = p => contactRows[r].owner = p
          BY <3>8, <5>1
        <5> QED
          BY <3>8, <5>2, <5>3, <5>4
      <4> QED
        BY <4>2 DEF Clean
    <3>17. ASSUME ~raced, "merged target" \notin bl PROVE Emptied(pr, cr, wd, ow)
      <4>1. ~profiles[t].merged /\ "merged target" \notin blunders
        BY <3>5, <3>17
      <4>2. Emptied(profiles, contactRows, withDevice, owned)
        BY <3>17, <4>1 DEF RequestersInv
      <4>3. ASSUME NEW p \in Profiles, pr[p].merged
            PROVE  p \notin wd /\ (\A r \in Profiles : cr[r].owner # p) /\ \A n \in TicketNos : ow[n].owner # p
        <5>1. CASE p = s
          <6>1. s \notin wd
            BY <2>5, <3>3
          <6>2. ASSUME NEW r \in Profiles PROVE cr[r].owner # s
            BY <2>5, <3>8
          <6>3. ASSUME NEW n \in TicketNos PROVE ow[n].owner # s
            BY <2>5, <3>11, <3>17
          <6> QED
            BY <5>1, <6>1, <6>2, <6>3
        <5>2. CASE p # s
          <6>1. profiles[p].merged /\ p # t
            BY <2>5, <3>7, <4>1, <4>3, <5>2
          <6>2. p \notin withDevice /\ (\A r \in Profiles : contactRows[r].owner # p) /\ \A n \in TicketNos : owned[n].owner # p
            BY <4>2, <6>1 DEF Emptied
          <6> QED
            BY <3>3, <3>8, <3>11, <3>17, <6>1, <6>2
        <5> QED
          BY <5>1, <5>2
      <4> QED
        BY <4>3 DEF Emptied
    <3>18. /\ bl \subseteq {"open ticket", "merged target"} /\ blunders \subseteq bl /\ (~raced => "open ticket" \notin bl)
           /\ \A q \in Profiles : profiles[q].used => pr[q].used
      BY <1>1, <3>5, <3>7 DEF RequestersInv
    <3> QED
      BY <2>2, <3>6, <3>13, <3>14, <3>15, <3>16, <3>17, <3>18, TaskEnds, TaskMoves
  <2> QED
    BY <2>6, <2>7
(* A retention that goes from one step to the next.                          *)
<1>17. ASSUME NEW k \in Tasks, NEW pc \in {"reread", "erase"}, tasks[k].pc \in {"check", "reread"},
              tasks' = [tasks EXCEPT ![k].pc = pc], UNCHANGED <<profiles, contactRows, withDevice, owned, raced, blunders>>,
              OpenTickets(tasks[k].profile) = {} \/ tasks[k].pc = "reread"
       PROVE  RequestersInv'
  <2>1. PICK d \in AllTasks : d = tasks[k]
    BY <1>1
  <2>2. d \in OneTasks /\ d.profile \in Profiles
    BY <1>17, <2>1, TaskKinds
  <2>3. PICK c : c = [d EXCEPT !.pc = pc]
    OBVIOUS
  <2>4. c \in OneTasks /\ c.pc = pc /\ c.profile = d.profile /\ c.cron = d.cron
    BY <2>2, <2>3 DEF OneTasks
  <2>5. c \in AllTasks /\ tasks' = [tasks EXCEPT ![k] = c] /\ TaskFits(c, profiles) /\ TaskClear(c, profiles)
    BY <1>17, <2>1, <2>3, <2>4 DEF AllTasks, TaskFits, TaskClear
  <2>6. Holds(c) = Holds(d)
    <3>1. Holds(c) = {c.profile}
      BY <2>4, <2>5, HoldsKinds
    <3>2. Holds(d) = {d.profile}
      BY <1>17, <2>1, HoldsKinds
    <3> QED
      BY <2>4, <3>1, <3>2
  <2>7. ~raced => TaskOK(c, profiles, contactRows, owned)
    <3>1. ~raced => TaskOK(d, profiles, contactRows, owned)
      BY <2>1, TaskKnown
    <3>2. CASE OpenTickets(d.profile) = {}
      BY <2>4, <3>2 DEF TaskOK, OpenTickets
    <3>3. CASE d.pc = "reread"
      BY <2>4, <3>1, <3>3 DEF TaskOK
    <3> QED
      BY <1>17, <2>1, <3>2, <3>3
  <2> QED
    BY <1>17, <2>1, <2>5, <2>6, <2>7, TaskGoesOn
<1>18. ASSUME NEW k \in Tasks, SpareOpen(k) \/ RereadRequester(k) PROVE RequestersInv'
  BY <1>13, <1>17, <1>18 DEF SpareOpen, RereadRequester
<1>19. ASSUME NEW k \in Tasks, Erase(k) PROVE RequestersInv'
  <2>1. PICK d \in AllTasks : d = tasks[k]
    BY <1>1
  <2>2. d.pc = "erase" /\ d.profile \in Profiles /\ Release(k) /\ UNCHANGED <<owned, raced>>
    BY <1>19, <2>1, TaskKinds DEF Erase
  <2>3. PICK p \in Profiles : p = d.profile
    BY <2>2
  <2>4. CASE UNCHANGED <<profiles, contactRows, withDevice, blunders>>
    BY <1>13, <2>2, <2>4
  <2>5. CASE ~UNCHANGED <<profiles, contactRows, withDevice, blunders>>
    <3>1. PICK pr : pr = [profiles EXCEPT ![p].anonymised = TRUE]
      OBVIOUS
    <3>3. PICK cr : cr = [r \in Profiles |-> IF contactRows[r].owner = p
                                                THEN [contactRows[r] EXCEPT !.contact = Erased, !.personal = FALSE] ELSE contactRows[r]]
      OBVIOUS
    <3>4. PICK wd : wd = withDevice \ {p}
      OBVIOUS
    <3>5. PICK bl : bl = IF d.cron /\ OpenTickets(p) # {} THEN blunders \cup {"open ticket"} ELSE blunders
      OBVIOUS
    <3>6. profiles' = pr /\ contactRows' = cr /\ withDevice' = wd /\ blunders' = bl
      BY <1>19, <2>1, <2>3, <2>5, <3>1, <3>3, <3>4, <3>5 DEF Erase, Wiped
    <3>7. /\ pr \in [Profiles -> RequesterRows]
          /\ \A q \in Profiles : pr[q].used = profiles[q].used /\ pr[q].merged = profiles[q].merged /\ (q # p => pr[q].anonymised = profiles[q].anonymised)
      BY <1>1, <3>1 DEF RequesterRows
    <3>9. ASSUME NEW r \in Profiles
          PROVE  /\ cr[r] \in IdentityRows /\ cr[r].owner = contactRows[r].owner
                 /\ cr[r] # NoIdentity <=> contactRows[r] # NoIdentity
                 /\ IF contactRows[r].owner = p THEN cr[r].contact = Erased /\ ~cr[r].personal ELSE cr[r] = contactRows[r]
      <4>1. CASE contactRows[r].owner = p
        <5>1. PICK id \in IdentityRow : id = contactRows[r]
          BY <1>1, <4>1, RequestersConstants DEF IdentityRows
        <5>2. PICK new : new = [id EXCEPT !.contact = Erased, !.personal = FALSE]
          OBVIOUS
        <5>3. new = [[id EXCEPT !.contact = Erased] EXCEPT !.personal = FALSE]
          BY <5>2
        <5>4. new \in IdentityRow /\ new.contact = Erased /\ ~new.personal /\ new.owner = p
          BY <4>1, <5>1, <5>3 DEF IdentityRow
        <5>5. cr[r] = new
          BY <3>3, <4>1, <5>1, <5>2
        <5>6. new # NoIdentity /\ id # NoIdentity
          BY <4>1, <5>1, <5>4, RequestersConstants
        <5> QED
          BY <4>1, <5>1, <5>4, <5>5, <5>6 DEF IdentityRows
      <4>2. CASE contactRows[r].owner # p
        BY <1>1, <3>3, <4>2
      <4> QED
        BY <4>1, <4>2
    <3>10. cr \in [Profiles -> IdentityRows]
      BY <3>3, <3>9
    <3>11. RowsFit(pr, cr, wd, owned)
      <4>1. \A r \in Profiles : pr[r].used <=> cr[r] # NoIdentity
        BY <1>1, <3>7, <3>9 DEF RowsFit
      <4>2. \A r \in Profiles : contactRows[r] # NoIdentity => contactRows[r].owner \in Profiles
        BY <1>1 DEF IdentityRows, IdentityRow
      <4>3. \A r \in Profiles : cr[r] # NoIdentity => pr[cr[r].owner].used
        BY <1>1, <3>7, <3>9, <4>2 DEF RowsFit
      <4>4. ASSUME NEW r \in Profiles, NEW q \in Profiles, cr[r].contact = cr[q].contact, cr[r].contact # Erased PROVE r = q
        <5>1. cr[r] = contactRows[r] /\ cr[q] = contactRows[q]
          BY <3>9, <4>4
        <5> QED
          BY <1>22, <4>4, <5>1
      <4>5. wd \subseteq Profiles /\ \A q \in wd : pr[q].used
        BY <1>1, <3>4, <3>7 DEF RowsFit
      <4> QED
        BY <1>1, <3>7, <3>10, <4>1, <4>3, <4>4, <4>5 DEF RowsFit
    <3>12. Holds(tasks[k]) = {p} /\ tasks' = [tasks EXCEPT ![k] = NoTask]
      BY <2>1, <2>2, <2>3, HoldsKinds DEF Release
    <3>13. OnlyOf({p}, pr, cr, owned)
      BY <3>7, <3>9 DEF OnlyOf
    <3>14. ASSUME ~raced PROVE Clean(pr, cr, wd)
      <4>1. Clean(profiles, contactRows, withDevice)
        BY <3>14 DEF RequestersInv
      <4>2. ASSUME NEW q \in Profiles, pr[q].anonymised
            PROVE  q \notin wd /\ \A r \in Profiles : cr[r].owner = q => cr[r].contact = Erased /\ ~cr[r].personal
        <5>1. CASE q = p
          BY <3>4, <3>9, <5>1
        <5>2. CASE q # p
          BY <3>4, <3>7, <3>9, <4>1, <4>2, <5>2 DEF Clean
        <5> QED
          BY <5>1, <5>2
      <4> QED
        BY <4>2 DEF Clean
    <3>15. ASSUME ~raced, "merged target" \notin bl PROVE Emptied(pr, cr, wd, owned)
      <4>1. Emptied(profiles, contactRows, withDevice, owned)
        BY <3>5, <3>15 DEF RequestersInv
      <4> QED
        BY <3>4, <3>7, <3>9, <4>1 DEF Emptied
    <3>16. ~raced => "open ticket" \notin bl
      <4>1. ASSUME ~raced PROVE ~(d.cron /\ OpenTickets(p) # {}) /\ "open ticket" \notin blunders
        <5>1. TaskOK(d, profiles, contactRows, owned)
          BY <2>1, <4>1, TaskKnown
        <5> QED
          BY <2>2, <2>3, <4>1, <5>1 DEF TaskOK, OpenTickets, RequestersInv
      <4> QED
        BY <3>5, <4>1
    <3>17. /\ bl \subseteq {"open ticket", "merged target"} /\ blunders \subseteq bl
           /\ \A q \in Profiles : profiles[q].used => pr[q].used
      BY <1>1, <3>5, <3>7
    <3> QED
      BY <1>1, <2>2, <3>6, <3>11, <3>12, <3>13, <3>14, <3>15, <3>16, <3>17, TaskEnds, TaskMoves
  <2> QED
    BY <2>4, <2>5
<1>20. ASSUME NEW k \in Tasks, NEW n \in TicketNos, OpenTicket(k, n) PROVE RequestersInv'
  <2>1. PICK d \in AllTasks : d = tasks[k]
    BY <1>1
  <2>2. d.pc = "open" /\ d.profile \in Profiles /\ owned[n] = NoTicket /\ Release(k)
        /\ UNCHANGED <<profiles, contactRows, withDevice, raced, blunders>>
    BY <1>20, <2>1, TaskKinds DEF OpenTicket
  <2>3. PICK p \in Profiles : p = d.profile
    BY <2>2
  <2>4. PICK row : row = [owner |-> p, open |-> TRUE]
    OBVIOUS
  <2>5. PICK ow : ow = [owned EXCEPT ![n] = row]
    OBVIOUS
  <2>6. owned' = ow /\ row \in OwnedRows /\ row.owner = p
    BY <1>20, <2>1, <2>3, <2>4, <2>5 DEF OpenTicket, OwnedRows
  <2>7. ow \in [TicketNos -> OwnedRows] /\ ow[n] = row /\ \A m \in TicketNos : m # n => ow[m] = owned[m]
    BY <1>1, <2>5, <2>6
  <2>8. RowsFit(profiles, contactRows, withDevice, ow)
    BY <1>1, <2>7 DEF RowsFit
  <2>9. Holds(tasks[k]) = {p} /\ tasks' = [tasks EXCEPT ![k] = NoTask]
    BY <2>1, <2>2, <2>3, HoldsKinds DEF Release
  <2>10. OnlyOf({p}, profiles, contactRows, ow)
    <3>1. ASSUME NEW m \in TicketNos, NEW q \in Profiles \ {p}
          PROVE  (ow[m].owner = q <=> owned[m].owner = q) /\ (ow[m].owner = q /\ ow[m].open => owned[m].open)
      <4>1. CASE m = n
        BY <2>2, <2>6, <2>7, <4>1, RequestersConstants
      <4>2. CASE m # n
        BY <2>7, <4>2
      <4> QED
        BY <4>1, <4>2
    <3> QED
      BY <3>1 DEF OnlyOf
  <2>11. ~raced => Clean(profiles, contactRows, withDevice) /\ "open ticket" \notin blunders
    BY DEF RequestersInv
  <2>12. ASSUME ~raced, "merged target" \notin blunders PROVE Emptied(profiles, contactRows, withDevice, ow)
    <3>1. Emptied(profiles, contactRows, withDevice, owned) /\ TaskClear(d, profiles)
      BY <2>1, <2>12, TaskKnown
    <3>2. ~profiles[p].merged
      BY <2>2, <2>3, <3>1 DEF TaskClear
    <3> QED
      BY <2>6, <2>7, <3>1, <3>2 DEF Emptied
  <2> QED
    BY <1>1, <2>2, <2>6, <2>8, <2>9, <2>10, <2>11, <2>12, TaskEnds, TaskMoves
<1>21. CASE UNCHANGED reqVars
  <2>1. \A n \in TicketNos : owned[n].owner = owned[n].owner /\ (owned[n].open => owned[n].open)
    OBVIOUS
  <2> QED
    BY <1>1, <1>2, <1>21, <2>1, RowsChange DEF reqVars
<1> QED
  BY <1>3, <1>6, <1>7, <1>8, <1>9, <1>11, <1>12, <1>14, <1>15, <1>16, <1>18, <1>19, <1>20, <1>21 DEF RequestersNext

(* Nor does a merged profile have a challenge: what a merge takes from one   *)
(* goes to a target that is not merged.                                      *)
ChallengesInv ==
  /\ verified \subseteq Profiles
  /\ ~raced /\ "merged target" \notin blunders => \A p \in Profiles : profiles[p].merged => p \notin verified

LEMMA ChallengesInitHolds == RequestersInit => ChallengesInv
BY DEF RequestersInit, ChallengesInv

LEMMA ChallengesStepHolds == RequestersInv /\ ChallengesInv /\ [RequestersNext]_reqVars => ChallengesInv'
<1> SUFFICES ASSUME RequestersInv, ChallengesInv, [RequestersNext]_reqVars PROVE ChallengesInv'
  OBVIOUS
<1>1. /\ profiles \in [Profiles -> RequesterRows] /\ tasks \in [Tasks -> AllTasks] /\ raced \in BOOLEAN
      /\ verified \subseteq Profiles
  BY DEF RequestersInv, ChallengesInv, RowsFit
(* A step that leaves the challenges alone and merges nothing.               *)
<1>2. ASSUME NEW pr, pr = profiles', UNCHANGED verified, raced => raced', blunders \subseteq blunders',
             \A p \in Profiles : pr[p].merged = profiles[p].merged
      PROVE  ChallengesInv'
  BY <1>2 DEF ChallengesInv
<1>3. ASSUME UNCHANGED <<profiles, verified>>, raced => raced', blunders \subseteq blunders' PROVE ChallengesInv'
  BY <1>3 DEF ChallengesInv
<1>4. ASSUME NEW k \in Tasks, NEW c, Hold(k, c), UNCHANGED <<profiles, verified, blunders>> PROVE ChallengesInv'
  BY <1>3, <1>4 DEF Hold
<1>5. ASSUME NEW k \in Tasks, NEW ct \in Contacts, FindContact(k, ct) PROVE ChallengesInv'
  BY <1>4, <1>5 DEF FindContact
<1>6. ASSUME NEW k \in Tasks, NEW p \in Profiles, CreateProfile(k, p) PROVE ChallengesInv'
  <2>1. UNCHANGED <<raced, blunders>> /\ profiles[p] = Unused
    BY <1>6 DEF CreateProfile, NextRow
  <2>2. CASE UNCHANGED <<profiles, verified>>
    BY <1>3, <2>1, <2>2
  <2>3. CASE ~UNCHANGED <<profiles, verified>>
    <3>1. PICK row : row = [Unused EXCEPT !.used = TRUE]
      OBVIOUS
    <3>2. row \in RequesterRows /\ ~row.merged
      BY <3>1 DEF Unused, RequesterRows
    <3>3. profiles' = [profiles EXCEPT ![p] = row] /\ Proves(p, FromSite(tasks[k].contact))
      BY <1>6, <2>3, <3>1 DEF CreateProfile
    <3>4. verified' \subseteq verified \cup {p} /\ verified' \subseteq Profiles
      BY <1>1, <3>3 DEF Proves
    <3>5. \A q \in Profiles : profiles'[q].merged => q # p /\ profiles[q].merged
      BY <1>1, <3>2, <3>3
    <3> QED
      BY <2>1, <3>4, <3>5 DEF ChallengesInv
  <2> QED
    BY <2>2, <2>3
<1>7. ASSUME NEW k \in Tasks, RenewIdentity(k) PROVE ChallengesInv'
  <2>1. PICK d \in AllTasks : d = tasks[k]
    BY <1>1
  <2>2. d.pc = "renew" /\ d.owner \in Profiles /\ UNCHANGED <<raced, blunders>>
    BY <1>7, <2>1, TaskKinds DEF RenewIdentity
  <2>3. ~raced /\ "merged target" \notin blunders => ~profiles[d.owner].merged
    BY <2>1, <2>2, TaskKnown DEF TaskClear
  <2>4. PICK b : profiles' = [profiles EXCEPT ![d.owner].stale = b]
    BY <1>7, <2>1 DEF RenewIdentity
  <2>5. \A q \in Profiles : profiles'[q].merged = profiles[q].merged
    BY <1>1, <2>4 DEF RequesterRows
  <2>6. verified' \subseteq verified \cup {d.owner} /\ verified' \subseteq Profiles
    BY <1>1, <1>7, <2>1, <2>2 DEF RenewIdentity, Proves
  <2> QED
    BY <2>2, <2>3, <2>5, <2>6 DEF ChallengesInv
<1>8. ASSUME NEW k \in Tasks, CommitMerge(k) PROVE ChallengesInv'
  <2>1. PICK d \in AllTasks : d = tasks[k]
    BY <1>1
  <2>2. d.pc = "rest" /\ d.source \in Profiles /\ d.target \in Profiles /\ UNCHANGED raced
    BY <1>8, <2>1, TaskKinds DEF CommitMerge
  <2>3. PICK s \in Profiles, t \in Profiles : s = d.source /\ t = d.target
    BY <2>2
  <2>4. s # t
    BY <2>1, <2>2, <2>3, TaskKnown DEF TaskFits
  <2>5. CASE UNCHANGED <<profiles, verified, blunders>>
    BY <1>3, <2>2, <2>5
  <2>6. CASE ~UNCHANGED <<profiles, verified, blunders>>
    <3>1. /\ profiles' = [profiles EXCEPT ![s].merged = TRUE]
          /\ verified' = IF s \in verified THEN (verified \ {s}) \cup {t} ELSE verified
          /\ blunders' = blunders \cup (IF profiles[t].merged THEN {"merged target"} ELSE {})
      BY <1>8, <2>1, <2>3, <2>6 DEF CommitMerge, Moved
    <3>2. \A q \in Profiles : q # s => profiles'[q].merged = profiles[q].merged
      BY <1>1, <3>1
    <3>3. ASSUME "merged target" \notin blunders' PROVE ~profiles[t].merged /\ "merged target" \notin blunders
      BY <3>1, <3>3
    <3>4. verified' \subseteq Profiles /\ s \notin verified' /\ verified' \subseteq verified \cup {t}
      BY <1>1, <2>4, <3>1
    <3> QED
      BY <2>2, <2>4, <3>2, <3>3, <3>4 DEF ChallengesInv
  <2> QED
    BY <2>5, <2>6
<1>9. ASSUME NEW k \in Tasks, NEW p \in Profiles, BeginTicket(k, p) \/ RequireRequester(k, p) \/ ListInactive(k, p) PROVE ChallengesInv'
  BY <1>4, <1>9 DEF BeginTicket, RequireRequester, ListInactive
<1>10. ASSUME NEW k \in Tasks, NEW s \in Profiles, NEW t \in Profiles, CheckMerge(k, s, t) PROVE ChallengesInv'
  BY <1>4, <1>10 DEF CheckMerge
<1>11. ASSUME NEW p \in Profiles, UpdatePreferences(p) \/ Absent(p) PROVE ChallengesInv'
  <2>1. PICK b \in BOOLEAN : profiles' = [profiles EXCEPT ![p].stale = b] /\ UNCHANGED <<verified, raced, blunders>>
    BY <1>11 DEF UpdatePreferences, Absent
  <2>2. PICK pr : pr = profiles'
    OBVIOUS
  <2>3. \A q \in Profiles : pr[q].merged = profiles[q].merged
    BY <1>1, <2>1, <2>2 DEF RequesterRows
  <2> QED
    BY <1>2, <2>1, <2>2, <2>3
<1>12. ASSUME NEW k \in Tasks, Erase(k) PROVE ChallengesInv'
  <2>1. UNCHANGED <<verified, raced>>
    BY <1>12 DEF Erase
  <2>2. CASE UNCHANGED <<profiles, blunders>>
    BY <1>3, <2>1, <2>2
  <2>3. CASE ~UNCHANGED <<profiles, blunders>>
    <3>1. PICK p : p = tasks[k].profile
      OBVIOUS
    <3>2. profiles' = [profiles EXCEPT ![p].anonymised = TRUE] /\ blunders \subseteq blunders'
      BY <1>12, <2>3, <3>1 DEF Erase
    <3>3. PICK pr : pr = profiles'
      OBVIOUS
    <3>4. \A q \in Profiles : pr[q].merged = profiles[q].merged
      BY <1>1, <3>2, <3>3 DEF RequesterRows
    <3> QED
      BY <1>2, <2>1, <3>2, <3>3, <3>4
  <2> QED
    BY <2>2, <2>3
<1>13. ASSUME NEW k \in Tasks, (\E n \in TicketNos : OpenTicket(k, n)) \/ TakeTickets(k) \/ SpareOpen(k) \/ RereadRequester(k)
       PROVE  ChallengesInv'
  BY <1>3, <1>13 DEF OpenTicket, TakeTickets, SpareOpen, RereadRequester
<1>14. ASSUME NEW n \in TicketNos, CloseTicket(n) PROVE ChallengesInv'
  BY <1>3, <1>14 DEF CloseTicket
<1>15. CASE UNCHANGED reqVars
  BY <1>3, <1>15 DEF reqVars
<1> QED
  BY <1>5, <1>6, <1>7, <1>8, <1>9, <1>10, <1>11, <1>12, <1>13, <1>14, <1>15 DEF RequestersNext

LEMMA RequestersHold ==
  RequestersInv /\ ChallengesInv => RequestersTypeOK /\ AnonymisedKeepsOnlyChallenges /\ MergedKeepsNothing /\ OneProfilePerContact /\ RetentionSparesOpen
<1> SUFFICES ASSUME RequestersInv, ChallengesInv
             PROVE  RequestersTypeOK /\ AnonymisedKeepsOnlyChallenges /\ MergedKeepsNothing /\ OneProfilePerContact /\ RetentionSparesOpen
  OBVIOUS
<1>1. RowsFit(profiles, contactRows, withDevice, owned) /\ tasks \in [Tasks -> AllTasks] /\ raced \in BOOLEAN /\ blunders \subseteq {"open ticket", "merged target"}
  BY DEF RequestersInv
<1>2. \A r \in Profiles, q \in Profiles : contactRows[r] = contactRows[q] /\ contactRows[r].contact # Erased => r = q
  BY <1>1 DEF RowsFit
<1>3. withDevice \subseteq {p \in Profiles : profiles[p].used}
  BY <1>1 DEF RowsFit
<1>4. RequestersTypeOK
  BY <1>1, <1>2, <1>3 DEF ChallengesInv, RequestersTypeOK, RowsFit, RequesterRows, IdentityRows, IdentityRow, OwnedRows, AllTasks, CreateTasks, RenewTasks, OneTasks, MergeTasks
<1>5. AnonymisedKeepsOnlyChallenges
  BY DEF AnonymisedKeepsOnlyChallenges, Remains, RequestersInv, Clean
<1>6. MergedKeepsNothing
  BY DEF MergedKeepsNothing, RequestersInv, ChallengesInv, Emptied
<1>7. OneProfilePerContact
  BY <1>1 DEF OneProfilePerContact, RowsFit
<1>8. RetentionSparesOpen
  BY <1>1 DEF RetentionSparesOpen, RequestersInv
<1> QED
  BY <1>4, <1>5, <1>6, <1>7, <1>8

-----------------------------------------------------------------------------
(* The integrations and their secrets.                                       *)

SecretRows == [from: 0 .. EndOfTime, until: {Forever} \cup 0 .. EndOfTime + Grace, revoked: BOOLEAN]
SiteForms == [step: {"none", "rotate", "check", "update"}, at: 0 .. EndOfTime, status: SiteStates \cup {"kept"},
          policy: 0 .. MaxVersion, read: Rows]
IntegrationsVarsOK ==
  /\ clock \in 0 .. EndOfTime /\ site \in Rows /\ secrets \in Seq(SecretRows)
  /\ request \in [Requests -> SiteForms] /\ requests \in 0 .. MaxRequests /\ tangled \in BOOLEAN

(* The last secret has no end but by a revocation, every other has one: the  *)
(* one that a later rotation gave it, unless it was revoked.                 *)
SecretsAgree(S) ==
  \A n \in 1 .. Len(S) :
    /\ IF n = Len(S) THEN S[n].revoked \/ S[n].until = Forever ELSE S[n].until # Forever
    /\ ~S[n].revoked /\ S[n].until # Forever => \E m \in n + 1 .. Len(S) : S[n].until = S[m].from + Grace

(* No request brings an activation of an integration without a secret, not   *)
(* even in the row it read.                                                  *)
FormsAgree ==
  \A r \in Requests :
    /\ request[r].step = "update" /\ request[r].status = "ACTIVE" => Len(secrets) > 0
    /\ request[r].read.status = "ACTIVE" => Len(secrets) > 0

IntegrationsInv ==
  /\ IntegrationsVarsOK /\ SecretsAgree(secrets) /\ FormsAgree
  /\ site.status = "ACTIVE" => Len(secrets) > 0
  /\ site.suspended => tangled \/ site.status # "ACTIVE"

LEMMA IntegrationConstants ==
  /\ Grace \in Nat /\ MaxSecrets \in Nat /\ MaxVersion \in Nat /\ MaxRequests \in Nat /\ EndOfTime \in Nat /\ MaxVersion > 0
  /\ Forever \in Int /\ Forever = -1
  /\ Idle \in SiteForms /\ Idle.step = "none" /\ Idle.read.status = "DRAFT"
<1>1. Grace \in Nat /\ MaxSecrets \in Nat /\ MaxVersion \in Nat /\ MaxRequests \in Nat /\ EndOfTime \in Nat /\ MaxVersion > 0
  BY IntegrationsAssumption
<1>2. [status |-> "DRAFT", policy |-> 1, suspended |-> FALSE] \in Rows
  BY <1>1 DEF Rows, SiteStates
<1> QED
  BY <1>1, <1>2 DEF Idle, SiteForms, SiteStates, Forever

LEMMA IntegrationsInitHolds == IntegrationsInit => IntegrationsInv
<1> SUFFICES ASSUME IntegrationsInit PROVE IntegrationsInv
  OBVIOUS
<1> USE IntegrationConstants
<1>1. site \in Rows /\ secrets \in Seq(SecretRows) /\ request \in [Requests -> SiteForms]
  BY DEF IntegrationsInit, Rows, SiteStates
<1>2. IntegrationsVarsOK
  <2>1. clock = 0 /\ requests = 0 /\ tangled = FALSE
    BY DEF IntegrationsInit
  <2>2. clock \in 0 .. EndOfTime
    BY <2>1
  <2>3. requests \in 0 .. MaxRequests
    BY <2>1
  <2>4. tangled \in BOOLEAN
    BY <2>1
  <2> QED
    BY <1>1, <2>2, <2>3, <2>4 DEF IntegrationsVarsOK
<1>3. SecretsAgree(secrets) /\ FormsAgree
  BY DEF IntegrationsInit, SecretsAgree, FormsAgree
<1> QED
  BY <1>2, <1>3 DEF IntegrationsInit, IntegrationsInv

(* What a rotation makes of the secrets.                                     *)
LEMMA RotationAgrees ==
  ASSUME NEW S \in Seq(SecretRows), NEW at \in 0 .. EndOfTime, SecretsAgree(S)
  PROVE  Rotation(S, at) \in Seq(SecretRows) /\ Len(Rotation(S, at)) > 0 /\ SecretsAgree(Rotation(S, at))
<1> USE IntegrationConstants
<1>1. PICK n \in Nat : n = Len(S) /\ DOMAIN S = 1 .. n
  OBVIOUS
<1>2. \A i \in 1 .. n : S[i] \in SecretRows
  BY <1>1
<1>3. PICK end \in 0 .. EndOfTime + Grace : end = at + Grace
  <2>1. at + Grace \in 0 .. EndOfTime + Grace
    OBVIOUS
  <2> QED
    BY <2>1
<1>4. PICK F : F = [i \in 1 .. n |-> Cut(S[i], end)]
  OBVIOUS
<1>5. ASSUME NEW i \in 1 .. n
      PROVE  /\ F[i] \in SecretRows /\ F[i].from = S[i].from /\ F[i].revoked = S[i].revoked
             /\ F[i].until # Forever /\ (F[i].until = end \/ (S[i].until # Forever /\ F[i].until = S[i].until))
  <2>1. PICK s \in SecretRows : s = S[i]
    BY <1>2, <1>5
  <2>2. F[i] = Cut(s, end)
    BY <1>4, <1>5, <2>1
  <2>3. /\ s.from \in 0 .. EndOfTime /\ s.until \in {Forever} \cup 0 .. EndOfTime + Grace /\ s.revoked \in BOOLEAN
        /\ s = [from |-> s.from, until |-> s.until, revoked |-> s.revoked]
    BY DEF SecretRows
  <2>4. CASE s.until = Forever \/ s.until > end
    <3>1. F[i] = [from |-> s.from, until |-> end, revoked |-> s.revoked]
      BY <2>2, <2>3, <2>4 DEF Cut
    <3> QED
      BY <1>3, <2>1, <2>3, <3>1 DEF SecretRows
  <2>5. CASE ~(s.until = Forever \/ s.until > end)
    <3>1. F[i] = s
      BY <2>2, <2>5 DEF Cut
    <3> QED
      BY <2>1, <2>5, <3>1
  <2> QED
    BY <2>4, <2>5
<1>6. F \in Seq(SecretRows) /\ Len(F) = n
  BY <1>4, <1>5
<1>7. PICK new : new = [from |-> at, until |-> Forever, revoked |-> FALSE]
  OBVIOUS
<1>8. new \in SecretRows /\ new.from = at /\ new.until = Forever /\ ~new.revoked
  BY <1>7 DEF SecretRows
<1>9. PICK T : T = Append(F, new)
  OBVIOUS
<1>10. Rotation(S, at) = T
  BY <1>1, <1>3, <1>4, <1>7, <1>9 DEF Rotation
<1>11. T \in Seq(SecretRows) /\ Len(T) = n + 1 /\ T[n + 1] = new /\ \A i \in 1 .. n : T[i] = F[i]
  BY <1>6, <1>8, <1>9
<1>12. ASSUME NEW i \in 1 .. n + 1
       PROVE  /\ IF i = n + 1 THEN T[i].revoked \/ T[i].until = Forever ELSE T[i].until # Forever
              /\ ~T[i].revoked /\ T[i].until # Forever => \E m \in i + 1 .. n + 1 : T[i].until = T[m].from + Grace
  <2>1. CASE i = n + 1
    BY <1>8, <1>11, <2>1
  <2>2. CASE i # n + 1
    <3>1. i \in 1 .. n /\ T[i] = F[i] /\ T[i].until # Forever
      BY <1>5, <1>11, <2>2
    <3>2. CASE T[i].until = end
      <4>1. n + 1 \in i + 1 .. n + 1 /\ T[i].until = T[n + 1].from + Grace
        BY <1>3, <1>8, <1>11, <3>1, <3>2
      <4> QED
        BY <2>2, <3>1, <4>1
    <3>3. CASE S[i].until # Forever /\ T[i].until = S[i].until /\ ~T[i].revoked
      <4>1. ~S[i].revoked
        BY <1>5, <3>1, <3>3
      <4>2. PICK m \in i + 1 .. n : S[i].until = S[m].from + Grace
        BY <1>1, <3>1, <3>3, <4>1 DEF SecretsAgree
      <4>3. m \in 1 .. n /\ m \in i + 1 .. n + 1 /\ T[m] = F[m]
        BY <1>11, <3>1
      <4>4. T[i].until = T[m].from + Grace
        BY <1>5, <3>3, <4>2, <4>3
      <4> QED
        BY <2>2, <3>1, <4>3, <4>4
    <3> QED
      BY <1>5, <2>2, <3>1, <3>2, <3>3
  <2> QED
    BY <2>1, <2>2
<1>13. SecretsAgree(T)
  BY <1>11, <1>12 DEF SecretsAgree
<1> QED
  BY <1>10, <1>11, <1>13

(* What a revocation makes of them.                                          *)
RevokedAt(S, k, now) == [[S EXCEPT ![k].until = now] EXCEPT ![k].revoked = TRUE]

LEMMA RevocationAgrees ==
  ASSUME NEW S \in Seq(SecretRows), NEW k \in DOMAIN S, NEW now \in 0 .. EndOfTime, SecretsAgree(S),
         NEW T, T = RevokedAt(S, k, now)
  PROVE  T \in Seq(SecretRows) /\ Len(T) = Len(S) /\ SecretsAgree(T)
<1> USE IntegrationConstants
<1>1. PICK n \in Nat : n = Len(S) /\ DOMAIN S = 1 .. n
  OBVIOUS
<1>2. k \in 1 .. n /\ \A i \in 1 .. n : S[i] \in SecretRows
  BY <1>1
<1>3. PICK cut : cut = [from |-> S[k].from, until |-> now, revoked |-> TRUE]
  OBVIOUS
<1>13. cut \in SecretRows /\ cut.from = S[k].from /\ cut.until = now /\ cut.revoked
  BY <1>2, <1>3 DEF SecretRows
<1>14. T = [S EXCEPT ![k] = cut]
  <2>1. PICK s : s = S[k]
    OBVIOUS
  <2>2. s = [from |-> s.from, until |-> s.until, revoked |-> s.revoked]
    BY <1>2, <2>1 DEF SecretRows
  <2>3. PICK u : u = [s EXCEPT !.until = now]
    OBVIOUS
  <2>4. u = [from |-> s.from, until |-> now, revoked |-> s.revoked]
    BY <2>2, <2>3
  <2>5. PICK v : v = [u EXCEPT !.revoked = TRUE]
    OBVIOUS
  <2>14. v = [from |-> s.from, until |-> now, revoked |-> TRUE]
    BY <2>4, <2>5
  <2>6. v = cut
    BY <1>3, <2>1, <2>14
  <2>7. PICK U : U = [S EXCEPT ![k].until = now]
    OBVIOUS
  <2>8. U = [S EXCEPT ![k] = u]
    BY <2>1, <2>3, <2>7
  <2>9. DOMAIN U = 1 .. n /\ U[k] = u
    BY <1>1, <1>2, <2>8
  <2>10. T = [U EXCEPT ![k].revoked = TRUE]
    BY <2>7 DEF RevokedAt
  <2>11. T = [U EXCEPT ![k] = v]
    BY <2>5, <2>9, <2>10
  <2>12. \A i \in 1 .. n : T[i] = IF i = k THEN cut ELSE S[i]
    BY <1>1, <1>2, <2>6, <2>8, <2>9, <2>11
  <2>13. T = [i \in 1 .. n |-> IF i = k THEN cut ELSE S[i]]
    BY <2>9, <2>11, <2>12
  <2> QED
    BY <1>1, <1>2, <2>13
<1>4. ASSUME NEW i \in 1 .. n
      PROVE  /\ T[i] \in SecretRows /\ T[i].from = S[i].from
             /\ (T[i].revoked /\ T[i].until # Forever) \/ T[i] = S[i]
  <2>1. CASE i = k
    <3>1. T[i] = cut
      BY <1>1, <1>2, <1>14, <2>1
    <3> QED
      BY <1>13, <2>1, <3>1
  <2>2. CASE i # k
    <3>1. T[i] = S[i] /\ S[i] \in SecretRows
      BY <1>1, <1>2, <1>4, <1>14, <2>2
    <3> QED
      BY <3>1
  <2> QED
    BY <2>1, <2>2
<1>5. T \in Seq(SecretRows) /\ Len(T) = n
  <2>1. T \in [1 .. n -> SecretRows]
    BY <1>1, <1>2, <1>13, <1>14
  <2>2. T = [i \in 1 .. n |-> T[i]] /\ \A i \in 1 .. n : T[i] \in SecretRows
    BY <2>1
  <2> QED
    BY <2>2
<1>6. ASSUME NEW i \in 1 .. n
      PROVE  /\ IF i = n THEN T[i].revoked \/ T[i].until = Forever ELSE T[i].until # Forever
             /\ ~T[i].revoked /\ T[i].until # Forever => \E m \in i + 1 .. n : T[i].until = T[m].from + Grace
  <2>1. IF i = n THEN S[i].revoked \/ S[i].until = Forever ELSE S[i].until # Forever
    BY <1>1 DEF SecretsAgree
  <2>2. IF i = n THEN T[i].revoked \/ T[i].until = Forever ELSE T[i].until # Forever
    BY <1>4, <2>1
  <2>3. CASE ~T[i].revoked /\ T[i].until # Forever
    <3>1. T[i] = S[i]
      BY <1>4, <2>3
    <3>2. PICK m \in i + 1 .. n : S[i].until = S[m].from + Grace
      BY <1>1, <2>3, <3>1 DEF SecretsAgree
    <3>3. m \in 1 .. n
      OBVIOUS
    <3> QED
      BY <1>4, <2>2, <3>1, <3>2, <3>3
  <2> QED
    BY <2>2, <2>3
<1> QED
  BY <1>1, <1>5, <1>6 DEF SecretsAgree

LEMMA IntegrationsStepHolds == IntegrationsInv /\ [IntegrationsNext]_integrationVars => IntegrationsInv'
<1> SUFFICES ASSUME IntegrationsInv, [IntegrationsNext]_integrationVars PROVE IntegrationsInv'
  OBVIOUS
<1> USE IntegrationConstants
<1>1. /\ clock \in 0 .. EndOfTime /\ site \in Rows /\ secrets \in Seq(SecretRows)
      /\ request \in [Requests -> SiteForms] /\ requests \in 0 .. MaxRequests /\ tangled \in BOOLEAN
  BY DEF IntegrationsInv, IntegrationsVarsOK
<1>2. SecretsAgree(secrets) /\ FormsAgree
  BY DEF IntegrationsInv
<1>3. (site.status = "ACTIVE" => Len(secrets) > 0) /\ (site.suspended => tangled \/ site.status # "ACTIVE")
  BY DEF IntegrationsInv
(* A request that begins, goes on or ends with the secrets as they are.      *)
<1>4. ASSUME NEW r \in Requests, NEW f \in SiteForms, request' = [request EXCEPT ![r] = f], UNCHANGED <<clock, secrets>>,
             f.step = "update" /\ f.status = "ACTIVE" => Len(secrets) > 0, f.read.status = "ACTIVE" => Len(secrets) > 0,
             site' \in Rows, requests' \in 0 .. MaxRequests, tangled' \in BOOLEAN,
             site'.status = "ACTIVE" => Len(secrets) > 0, site'.suspended => tangled' \/ site'.status # "ACTIVE"
      PROVE  IntegrationsInv'
  <2>1. request' \in [Requests -> SiteForms]
    BY <1>1, <1>4
  <2>2. IntegrationsVarsOK'
    BY <1>1, <1>4, <2>1 DEF IntegrationsVarsOK
  <2>3. SecretsAgree(secrets)'
    BY <1>2, <1>4 DEF SecretsAgree
  <2>4. FormsAgree'
    BY <1>1, <1>2, <1>4 DEF FormsAgree
  <2> QED
    BY <1>4, <2>2, <2>3, <2>4 DEF IntegrationsInv
<1>5. ASSUME NEW r \in Requests, NEW step \in {"rotate", "check", "update"}, NEW form, form.status \in SiteStates \cup {"kept"},
             form.policy \in 0 .. MaxVersion, step = "update" => form.status # "ACTIVE", Begin(r, step, form)
      PROVE  IntegrationsInv'
  <2>1. PICK f : f = [step |-> step, at |-> clock, status |-> form.status, policy |-> form.policy, read |-> site]
    OBVIOUS
  <2>2. f \in SiteForms /\ f.step = step /\ f.status = form.status /\ f.read = site
    BY <1>1, <1>5, <2>1 DEF SiteForms
  <2>3. request' = [request EXCEPT ![r] = f] /\ UNCHANGED <<clock, site, secrets, tangled>> /\ requests' \in 0 .. MaxRequests
    BY <1>1, <1>5, <2>1 DEF Begin
  <2> QED
    BY <1>1, <1>3, <1>4, <1>5, <2>2, <2>3
<1>6. ASSUME NEW r \in Requests, BeginRotate(r) PROVE IntegrationsInv'
  <2>1. PICK form : form = [status |-> "DRAFT", policy |-> 0]
    OBVIOUS
  <2>2. form.status \in SiteStates \cup {"kept"} /\ form.policy \in 0 .. MaxVersion /\ Begin(r, "rotate", form)
    BY <1>6, <2>1 DEF BeginRotate, SiteStates
  <2> QED
    BY <1>5, <2>2
<1>7. ASSUME NEW r \in Requests, Rotate(r) PROVE IntegrationsInv'
  <2>1. PICK at \in 0 .. EndOfTime : at = request[r].at
    <3>1. request[r].at \in 0 .. EndOfTime
      BY <1>1 DEF SiteForms
    <3> QED
      BY <3>1
  <2>2. PICK T : T = Rotation(secrets, at)
    OBVIOUS
  <2>3. T \in Seq(SecretRows) /\ Len(T) > 0 /\ SecretsAgree(T)
    BY <1>1, <1>2, <2>2, RotationAgrees
  <2>4. secrets' = T /\ request' = [request EXCEPT ![r] = Idle] /\ UNCHANGED <<clock, site, requests, tangled>>
    BY <1>7, <2>1, <2>2 DEF Rotate, End
  <2>5. request' \in [Requests -> SiteForms]
    BY <1>1, <2>4
  <2>6. IntegrationsVarsOK'
    BY <1>1, <2>3, <2>4, <2>5 DEF IntegrationsVarsOK
  <2>7. SecretsAgree(secrets)'
    BY <2>3, <2>4
  <2>8. FormsAgree'
    BY <2>3, <2>4 DEF FormsAgree
  <2> QED
    BY <1>3, <2>3, <2>4, <2>6, <2>7, <2>8 DEF IntegrationsInv
<1>8. ASSUME NEW k \in DOMAIN secrets, Revoke(k) PROVE IntegrationsInv'
  <2>1. PICK T : T = secrets'
    OBVIOUS
  <2>2. T = RevokedAt(secrets, k, clock) /\ UNCHANGED <<clock, site, request, tangled>> /\ requests' \in 0 .. MaxRequests
    BY <1>1, <1>8, <2>1 DEF Revoke, RevokedAt
  <2>3. T \in Seq(SecretRows) /\ Len(T) = Len(secrets) /\ SecretsAgree(T)
    BY <1>1, <1>2, <2>2, RevocationAgrees
  <2>4. IntegrationsVarsOK'
    BY <1>1, <2>1, <2>2, <2>3 DEF IntegrationsVarsOK
  <2>5. SecretsAgree(secrets)'
    BY <2>1, <2>3
  <2>6. FormsAgree'
    BY <1>2, <2>1, <2>2, <2>3 DEF FormsAgree
  <2> QED
    BY <1>3, <2>1, <2>2, <2>3, <2>4, <2>5, <2>6 DEF IntegrationsInv
<1>9. ASSUME NEW r \in Requests, BeginUpdate(r) PROVE IntegrationsInv'
  <2>1. PICK status \in SiteStates \cup {"kept"}, policy \in {0} \cup site.policy .. MaxVersion :
          Begin(r, IF status = "ACTIVE" THEN "check" ELSE "update", [status |-> status, policy |-> policy])
    BY <1>9 DEF BeginUpdate
  <2>2. policy \in 0 .. MaxVersion
    BY <1>1, <2>1 DEF Rows
  <2>3. PICK form : form = [status |-> status, policy |-> policy]
    OBVIOUS
  <2>4. form.status = status /\ form.policy = policy
    BY <2>3
  <2>5. CASE status = "ACTIVE"
    BY <1>5, <2>1, <2>2, <2>3, <2>4, <2>5
  <2>6. CASE status # "ACTIVE"
    BY <1>5, <2>1, <2>2, <2>3, <2>4, <2>6
  <2> QED
    BY <2>5, <2>6
<1>10. ASSUME NEW r \in Requests, request' = [request EXCEPT ![r] = Idle], UNCHANGED <<clock, site, secrets, requests, tangled>>
       PROVE  IntegrationsInv'
  BY <1>1, <1>3, <1>4, <1>10
<1>11. ASSUME NEW r \in Requests, AssertActiveCredential(r) PROVE IntegrationsInv'
  <2>1. CASE Activable
    <3>1. Len(secrets) > 0
      BY <1>1, <2>1 DEF Activable
    <3>2. PICK f : f = [request[r] EXCEPT !.step = "update"]
      OBVIOUS
    <3>3. f \in SiteForms /\ request' = [request EXCEPT ![r] = f] /\ UNCHANGED <<clock, site, secrets, requests, tangled>>
      BY <1>1, <1>11, <2>1, <3>2 DEF AssertActiveCredential, SiteForms
    <3> QED
      BY <1>1, <1>3, <1>4, <3>1, <3>3
  <2>2. CASE ~Activable
    BY <1>10, <1>11, <2>2 DEF AssertActiveCredential, End
  <2> QED
    BY <2>1, <2>2
<1>12. ASSUME NEW r \in Requests, Update(r) PROVE IntegrationsInv'
  <2>1. /\ request[r].read \in Rows /\ request[r].status \in SiteStates \cup {"kept"} /\ request[r].policy \in 0 .. MaxVersion
        /\ request[r].step = "update" /\ request[r].read.status \in SiteStates
    BY <1>1, <1>12 DEF SiteForms, Rows, Update
  <2>2. PICK st \in SiteStates, pol \in 1 .. MaxVersion : st = StatusSaved(r) /\ pol = PolicySaved(r)
    <3>1. StatusSaved(r) \in SiteStates /\ PolicySaved(r) \in 1 .. MaxVersion
      BY <1>1, <2>1 DEF StatusSaved, PolicySaved, Rows
    <3> QED
      BY <3>1
  <2>3. PICK sus \in BOOLEAN : sus = (request[r].status = "SUSPENDED" \/ (site.suspended /\ request[r].status = "kept"))
    OBVIOUS
  <2>4. PICK row : row = [status |-> st, policy |-> pol, suspended |-> sus]
    OBVIOUS
  <2>5. row \in Rows /\ row.status = st /\ row.suspended = sus
    BY <2>4 DEF Rows
  <2>6. PICK tan \in BOOLEAN : tan = (tangled \/ request[r].read # site)
    OBVIOUS
  <2>7. site' = row /\ tangled' = tan /\ request' = [request EXCEPT ![r] = Idle] /\ UNCHANGED <<clock, secrets, requests>>
    BY <1>12, <2>2, <2>3, <2>4, <2>6 DEF Update, End
  <2>8. st = "ACTIVE" => Len(secrets) > 0
    BY <1>2, <2>1, <2>2 DEF StatusSaved, FormsAgree
  <2>9. sus => tan \/ st # "ACTIVE"
    BY <1>1, <1>3, <2>1, <2>2, <2>3, <2>6 DEF StatusSaved
  <2> QED
    BY <1>1, <1>4, <2>5, <2>7, <2>8, <2>9
<1>13. ASSUME NEW r \in Requests, RequestFails(r) PROVE IntegrationsInv'
  BY <1>10, <1>13 DEF RequestFails, End
<1>14. ASSUME clock' \in 0 .. EndOfTime, UNCHANGED <<site, secrets, request, requests, tangled>>
       PROVE  IntegrationsInv'
  <2>1. IntegrationsVarsOK'
    BY <1>1, <1>14 DEF IntegrationsVarsOK
  <2>2. SecretsAgree(secrets)' /\ FormsAgree'
    BY <1>2, <1>14 DEF SecretsAgree, FormsAgree
  <2> QED
    BY <1>3, <1>14, <2>1, <2>2 DEF IntegrationsInv
<1>15. CASE ClockTicks
  BY <1>1, <1>14, <1>15 DEF ClockTicks
<1>16. CASE UNCHANGED integrationVars
  BY <1>1, <1>14, <1>16 DEF integrationVars
<1> QED
  BY <1>6, <1>7, <1>8, <1>9, <1>11, <1>12, <1>13, <1>15, <1>16 DEF IntegrationsNext

LEMMA IntegrationsHold == IntegrationsInv => IntegrationsTypeOK /\ GraceHolds /\ ActiveHadSecret /\ SuspensionHolds
<1> SUFFICES ASSUME IntegrationsInv PROVE IntegrationsTypeOK /\ GraceHolds /\ ActiveHadSecret /\ SuspensionHolds
  OBVIOUS
<1> USE IntegrationConstants
<1>1. IntegrationsVarsOK /\ SecretsAgree(secrets)
  BY DEF IntegrationsInv
<1>2. PICK n \in Nat : n = Len(secrets) /\ DOMAIN secrets = 1 .. n
  BY <1>1 DEF IntegrationsVarsOK
<1>3. \A i \in 1 .. n : secrets[i] \in SecretRows
  BY <1>1, <1>2 DEF IntegrationsVarsOK
<1>4. Unreplaced \subseteq {Len(secrets)}
  BY <1>1, <1>2 DEF Unreplaced, SecretsAgree
<1>5. secrets # <<>> /\ ~secrets[Len(secrets)].revoked => Unreplaced # {}
  <2>1. CASE secrets # <<>> /\ ~secrets[Len(secrets)].revoked
    <3>1. n \in 1 .. n
      BY <1>1, <1>2, <2>1 DEF IntegrationsVarsOK
    <3>2. n \in Unreplaced
      BY <1>1, <1>2, <2>1, <3>1 DEF Unreplaced, SecretsAgree
    <3> QED
      BY <3>2
  <2> QED
    BY <2>1
<1>6. IntegrationsTypeOK
  BY <1>1, <1>4, <1>5 DEF IntegrationsTypeOK, IntegrationsVarsOK, SecretRows, SiteForms
<1>7. GraceHolds
  BY <1>1, <1>2, <1>3 DEF GraceHolds, SecretsAgree
<1>8. ActiveHadSecret /\ SuspensionHolds
  BY <1>1 DEF ActiveHadSecret, SuspensionHolds, IntegrationsInv, IntegrationsVarsOK
<1> QED
  BY <1>6, <1>7, <1>8

-----------------------------------------------------------------------------
(* The knowledge base.  Every version but the first is a form that ended.    *)

Empty == [text |-> Kept, status |-> Kept, sites |-> Kept]
EditRow == [step: {"none", "read", "latest"}, form: Forms, read: Articles, last: 0 .. MaxEdits + 1]
Pending == {e \in Editors : edit[e].step # "none"}

KnowledgeVarsOK ==
  /\ article \in Articles /\ versions \in Seq(Texts) /\ grants \subseteq Sites
  /\ edit \in [Editors -> EditRow] /\ edits \in 0 .. MaxEdits
  /\ stale \subseteq {"text", "status"} /\ wanted \in ArticleStates /\ served \subseteq Texts

(* An article, the one of the row or one that an editor read, is of the      *)
(* history and was dated when it was published.                              *)
OfHistory(a) == a.text \in ToSet(versions) /\ (a.status = "PUBLISHED" => a.dated)

VersionsCounted == IsFiniteSet(Pending) /\ Len(versions) + Cardinality(Pending) <= edits + 1

ShownAgrees ==
  /\ "text" \in stale \/ article.text = Last(versions)
  /\ "status" \in stale \/ article.status = wanted
  /\ served \subseteq ToSet(versions)

KnowledgeInv ==
  /\ KnowledgeVarsOK /\ OfHistory(article) /\ \A e \in Editors : OfHistory(edit[e].read)
  /\ VersionsCounted /\ ShownAgrees

(* A text added at the end of a history.                                     *)
LEMMA HistoryGrows ==
  ASSUME NEW s \in Seq(Texts), NEW x \in Texts
  PROVE  /\ Append(s, x) \in Seq(Texts) /\ Len(Append(s, x)) = Len(s) + 1
         /\ Last(Append(s, x)) = x
         /\ x \in ToSet(Append(s, x)) /\ ToSet(s) \subseteq ToSet(Append(s, x))
BY DEF Last, ToSet

LEMMA FormFields ==
  ASSUME NEW w \in EditRow
  PROVE  /\ Choose(w.form.text, w.read.text) \in Texts
         /\ Choose(w.form.status, w.read.status) \in ArticleStates
         /\ w.form.sites \in {Kept, {}, Sites} /\ w.read \in Articles /\ w.read.dated \in BOOLEAN
         /\ w.last \in 0 .. MaxEdits + 1
BY DEF EditRow, Forms, Articles, Choose

LEMMA KnowledgeInitHolds == KnowledgeInit => KnowledgeInv
<1> SUFFICES ASSUME KnowledgeInit PROVE KnowledgeInv
  OBVIOUS
<1>1. PICK t \in Texts : t = CHOOSE x \in Texts : TRUE
  BY KnowledgeAssumption
<1>2. /\ article = [text |-> t, status |-> "DRAFT", dated |-> FALSE] /\ versions = <<t>> /\ grants = {}
      /\ edit = [e \in Editors |-> [step |-> "none", form |-> Empty, read |-> article, last |-> 0]]
      /\ edits = 0 /\ stale = {} /\ wanted = "DRAFT" /\ served = {}
  BY <1>1 DEF KnowledgeInit, NoEdit, Empty
<1>3. article \in Articles /\ article.text = t /\ article.status = "DRAFT"
  BY <1>2 DEF Articles, ArticleStates
<1>4. versions \in Seq(Texts) /\ Len(versions) = 1 /\ Last(versions) = t /\ t \in ToSet(versions)
  BY <1>2 DEF Last, ToSet
<1>5. [step |-> "none", form |-> Empty, read |-> article, last |-> 0] \in EditRow
  BY <1>3, KnowledgeAssumption DEF EditRow, Empty, Forms
<1>6. KnowledgeVarsOK
  <2>1. edit \in [Editors -> EditRow]
    BY <1>2, <1>5
  <2>2. grants \subseteq Sites /\ wanted \in ArticleStates /\ served \subseteq Texts
    BY <1>2 DEF ArticleStates
  <2>3. stale \subseteq {"text", "status"}
    BY <1>2
  <2>4. edits \in 0 .. MaxEdits
    <3>1. edits = 0
      BY <1>2
    <3> QED
      BY <3>1, KnowledgeAssumption
  <2> QED
    BY <1>3, <1>4, <2>1, <2>2, <2>3, <2>4 DEF KnowledgeVarsOK
<1>7. OfHistory(article) /\ \A e \in Editors : OfHistory(edit[e].read)
  BY <1>2, <1>3, <1>4 DEF OfHistory
<1>8. VersionsCounted
  <2>1. Pending = {}
    BY <1>2 DEF Pending
  <2> QED
    BY <1>2, <1>4, <2>1, FS_EmptySet DEF VersionsCounted
<1>9. ShownAgrees
  BY <1>2, <1>3, <1>4 DEF ShownAgrees
<1> QED
  BY <1>6, <1>7, <1>8, <1>9 DEF KnowledgeInv

(* What an editor is at changes, and at most the count of the forms.         *)
LEMMA EditorMoves ==
  ASSUME KnowledgeInv, NEW e \in Editors, NEW w \in EditRow, OfHistory(w.read),
         edit' = [edit EXCEPT ![e] = w],
         UNCHANGED <<article, grants, versions, stale, wanted, served>>,
         edits' \in 0 .. MaxEdits,
         \/ edits' = edits /\ (w.step # "none" => edit[e].step # "none")
         \/ edits' = edits + 1
  PROVE  KnowledgeInv'
<1>1. KnowledgeVarsOK'
  BY DEF KnowledgeInv, KnowledgeVarsOK
<1>2. OfHistory(article)' /\ \A d \in Editors : OfHistory(edit[d].read)'
  BY DEF KnowledgeInv, KnowledgeVarsOK, OfHistory
<1>3. VersionsCounted'
  <2>1. IsFiniteSet(Pending) /\ Len(versions) + Cardinality(Pending) <= edits + 1
        /\ Len(versions) \in Nat /\ edits \in Nat /\ MaxEdits \in Nat
    BY KnowledgeAssumption DEF KnowledgeInv, KnowledgeVarsOK, VersionsCounted
  <2>2. PICK P : P = Pending'
    OBVIOUS
  <2>3. P \subseteq Pending \cup {e}
    BY <2>2 DEF Pending, KnowledgeInv, KnowledgeVarsOK
  <2>4. CASE edits' = edits + 1
    <3>1. IsFiniteSet(P) /\ Cardinality(P) <= Cardinality(Pending) + 1 /\ Cardinality(P) \in Nat /\ Cardinality(Pending) \in Nat
      BY <2>1, <2>3, OneMore
    <3> QED
      BY <2>1, <2>2, <2>4, <3>1 DEF VersionsCounted
  <2>5. CASE edits' = edits /\ (w.step # "none" => edit[e].step # "none")
    <3>1. P \subseteq Pending
      BY <2>2, <2>5 DEF Pending, KnowledgeInv, KnowledgeVarsOK
    <3>2. IsFiniteSet(P) /\ Cardinality(P) <= Cardinality(Pending) /\ Cardinality(P) \in Nat /\ Cardinality(Pending) \in Nat
      BY <2>1, <3>1, NoMore
    <3> QED
      BY <2>1, <2>2, <2>5, <3>2 DEF VersionsCounted
  <2> QED
    BY <2>4, <2>5
<1>4. ShownAgrees'
  BY DEF KnowledgeInv, ShownAgrees
<1> QED
  BY <1>1, <1>2, <1>3, <1>4 DEF KnowledgeInv

(* A save ends its form: a version more at most, and one form less pending.  *)
LEMMA SaveHolds ==
  ASSUME KnowledgeInv, NEW e \in Editors, SaveArticle(e)
  PROVE  KnowledgeInv'
<1>1. PICK w \in EditRow : w = edit[e] /\ w.step = "latest"
  BY DEF SaveArticle, KnowledgeInv, KnowledgeVarsOK
<1>2. PICK text \in Texts, status \in ArticleStates, dated \in BOOLEAN :
        /\ text = Choose(w.form.text, w.read.text) /\ status = Choose(w.form.status, w.read.status)
        /\ dated = (w.read.dated \/ status = "PUBLISHED")
  <2>1. (w.read.dated \/ Choose(w.form.status, w.read.status) = "PUBLISHED") \in BOOLEAN
    BY FormFields
  <2> QED
    BY <2>1, FormFields
<1>3. PICK a \in Articles : a = [text |-> text, status |-> status, dated |-> dated]
  BY DEF Articles
<1>4. a.text = text /\ a.status = status /\ (status = "PUBLISHED" => a.dated)
  BY <1>2, <1>3
<1>5. Saved(e) = a
  BY <1>1, <1>2, <1>3 DEF Saved
<1>6. /\ article' = a
      /\ versions' = IF text # w.read.text THEN Append(versions, text) ELSE versions
      /\ grants' = Choose(w.form.sites, grants)
      /\ stale' = PutBack(e) /\ wanted' = Choose(w.form.status, wanted)
      /\ edit' = [edit EXCEPT ![e] = [step |-> "none", form |-> Empty, read |-> a, last |-> 0]]
      /\ UNCHANGED <<edits, served>>
  BY <1>1, <1>2, <1>4, <1>5 DEF SaveArticle, ContentChanged, Granted, Done, NoEdit, Empty
<1>7. article \in Articles /\ versions \in Seq(Texts) /\ wanted \in ArticleStates /\ served \subseteq Texts /\ edits \in 0 .. MaxEdits
  BY DEF KnowledgeInv, KnowledgeVarsOK
<1>8. PICK more \in Seq(Texts) : more = versions'
  BY <1>6, <1>7, HistoryGrows
<1>9. ToSet(versions) \subseteq ToSet(more) /\ text \in ToSet(more)
  <2>1. w.read.text \in ToSet(versions)
    BY <1>1 DEF KnowledgeInv, OfHistory
  <2> QED
    BY <1>6, <1>7, <1>8, <2>1, HistoryGrows
<1>10. KnowledgeVarsOK'
  <2>1. [step |-> "none", form |-> Empty, read |-> a, last |-> 0] \in EditRow
    BY KnowledgeAssumption DEF EditRow, Empty, Forms
  <2>2. Choose(w.form.sites, grants) \subseteq Sites
    BY FormFields DEF Choose, KnowledgeInv, KnowledgeVarsOK
  <2>3. edit' \in [Editors -> EditRow]
    BY <1>6, <2>1 DEF KnowledgeInv, KnowledgeVarsOK
  <2>4. stale' \subseteq {"text", "status"}
    BY <1>6 DEF PutBack
  <2>5. wanted' \in ArticleStates
    BY <1>6, <1>7, FormFields DEF Choose, EditRow, Forms
  <2> QED
    BY <1>6, <1>7, <1>8, <2>2, <2>3, <2>4, <2>5 DEF KnowledgeVarsOK
<1>11. OfHistory(article)' /\ \A d \in Editors : OfHistory(edit[d].read)'
  <2>1. OfHistory(article)'
    BY <1>4, <1>6, <1>8, <1>9 DEF OfHistory
  <2> SUFFICES ASSUME NEW d \in Editors PROVE OfHistory(edit[d].read)'
    BY <2>1
  <2>2. CASE d = e
    BY <1>4, <1>6, <1>8, <1>9, <2>2 DEF OfHistory, KnowledgeInv, KnowledgeVarsOK
  <2>3. CASE d # e
    BY <1>6, <1>8, <1>9, <2>3 DEF OfHistory, KnowledgeInv, KnowledgeVarsOK
  <2> QED
    BY <2>2, <2>3
<1>12. VersionsCounted'
  <2>1. IsFiniteSet(Pending) /\ Len(versions) + Cardinality(Pending) <= edits + 1 /\ Len(versions) \in Nat /\ edits \in Nat
    BY <1>7 DEF KnowledgeInv, KnowledgeVarsOK, VersionsCounted
  <2>2. PICK P : P = Pending'
    OBVIOUS
  <2>3. e \in Pending /\ P \subseteq Pending \ {e}
    BY <1>1, <1>6, <2>2 DEF Pending, KnowledgeInv, KnowledgeVarsOK
  <2>4. IsFiniteSet(P) /\ Cardinality(P) + 1 <= Cardinality(Pending) /\ Cardinality(P) \in Nat /\ Cardinality(Pending) \in Nat
    BY <2>1, <2>3, OneLess
  <2>5. Len(more) \in Nat /\ Len(more) <= Len(versions) + 1
    BY <1>6, <1>7, <1>8, <2>1, HistoryGrows
  <2> QED
    BY <1>6, <1>8, <2>1, <2>2, <2>4, <2>5 DEF VersionsCounted
<1>13. ShownAgrees'
  <2>1. ASSUME "text" \notin stale' PROVE a.text = Last(more)
    <3>1. CASE text # w.read.text
      BY <1>4, <1>6, <1>7, <1>8, <3>1, HistoryGrows
    <3>2. CASE text = w.read.text
      <4>1. "text" \notin stale /\ w.read.text = article.text
        BY <1>1, <1>4, <1>5, <1>6, <2>1, <3>2 DEF PutBack, ContentChanged
      <4> QED
        BY <1>4, <1>6, <1>8, <3>2, <4>1 DEF KnowledgeInv, ShownAgrees
    <3> QED
      BY <3>1, <3>2
  <2>2. ASSUME "status" \notin stale' PROVE a.status = wanted'
    <3>1. CASE w.form.status # Kept
      BY <1>2, <1>4, <1>6, <3>1 DEF Choose
    <3>2. CASE w.form.status = Kept
      <4>1. "status" \notin stale /\ w.read.status = article.status
        BY <1>1, <1>6, <2>2, <3>2 DEF PutBack
      <4> QED
        BY <1>2, <1>4, <1>6, <3>2, <4>1 DEF Choose, KnowledgeInv, ShownAgrees
    <3> QED
      BY <3>1, <3>2
  <2>3. served' \subseteq ToSet(more)
    BY <1>6, <1>9 DEF KnowledgeInv, ShownAgrees
  <2> QED
    BY <1>6, <1>8, <2>1, <2>2, <2>3 DEF ShownAgrees
<1> QED
  BY <1>10, <1>11, <1>12, <1>13 DEF KnowledgeInv

LEMMA KnowledgeStepHolds == KnowledgeInv /\ [KnowledgeNext]_knowledgeVars => KnowledgeInv'
<1> SUFFICES ASSUME KnowledgeInv, [KnowledgeNext]_knowledgeVars PROVE KnowledgeInv'
  OBVIOUS
<1> USE KnowledgeAssumption
<1>1. ASSUME NEW e \in Editors, NEW form \in Forms, RequireArticle(e, form) PROVE KnowledgeInv'
  <2>1. article \in Articles /\ OfHistory(article) /\ edits \in 0 .. MaxEdits
    BY DEF KnowledgeInv, KnowledgeVarsOK
  <2>0. [step |-> "read", form |-> form, read |-> article, last |-> 0] \in EditRow
    BY <2>1 DEF EditRow
  <2>2. PICK w \in EditRow : w = [step |-> "read", form |-> form, read |-> article, last |-> 0]
    BY <2>0
  <2>3. edits' = edits + 1 /\ edits' \in 0 .. MaxEdits
    BY <1>1, <2>1 DEF RequireArticle
  <2> QED
    BY <1>1, <2>1, <2>2, <2>3, EditorMoves DEF RequireArticle
<1>2. ASSUME NEW e \in Editors, LatestVersion(e) PROVE KnowledgeInv'
  <2>1. edit[e] \in EditRow /\ OfHistory(edit[e].read) /\ edits \in 0 .. MaxEdits /\ edit[e].step = "read"
    BY <1>2 DEF LatestVersion, Reading, KnowledgeInv, KnowledgeVarsOK
  <2>2. Len(versions) \in 0 .. MaxEdits + 1
    <3>1. Len(versions) \in Nat /\ Cardinality(Pending) \in Nat /\ Len(versions) + Cardinality(Pending) <= edits + 1
      BY FS_CardinalityType DEF KnowledgeInv, KnowledgeVarsOK, VersionsCounted
    <3> QED
      BY <2>1, <3>1
  <2>3. PICK w \in EditRow : w = [edit[e] EXCEPT !.step = "latest", !.last = Len(versions)]
    BY <2>1, <2>2 DEF EditRow
  <2>4. edit' = [edit EXCEPT ![e] = w] /\ w.read = edit[e].read /\ w.step = "latest"
    BY <1>2, <2>1, <2>3 DEF LatestVersion, EditRow, KnowledgeInv, KnowledgeVarsOK
  <2> QED
    BY <1>2, <2>1, <2>4, EditorMoves DEF LatestVersion
<1>3. ASSUME NEW e \in Editors, SaveArticle(e) PROVE KnowledgeInv'
  BY <1>3, SaveHolds
<1>4. ASSUME NEW e \in Editors, VersionCollides(e) PROVE KnowledgeInv'
  <2>1. article \in Articles /\ OfHistory(article) /\ edits \in 0 .. MaxEdits
    BY DEF KnowledgeInv, KnowledgeVarsOK
  <2>0. [step |-> "none", form |-> Empty, read |-> article, last |-> 0] \in EditRow
    BY <2>1 DEF EditRow, Empty, Forms
  <2>2. PICK w \in EditRow : w = [step |-> "none", form |-> Empty, read |-> article, last |-> 0]
    BY <2>0
  <2>3. edit' = [edit EXCEPT ![e] = w]
    BY <1>4, <2>2 DEF VersionCollides, Done, NoEdit, Empty
  <2> QED
    BY <1>4, <2>1, <2>2, <2>3, EditorMoves DEF VersionCollides
<1>5. ASSUME NEW site_ \in Sites, Search(site_) PROVE KnowledgeInv'
  <2>1. article.text \in ToSet(versions)
    BY DEF KnowledgeInv, OfHistory
  <2>2. article.text \in Texts /\ served \subseteq Texts
    BY DEF KnowledgeInv, KnowledgeVarsOK, Articles
  <2>3. served' = served \cup {article.text} /\ UNCHANGED <<article, grants, versions, edits, edit, stale, wanted>>
    BY <1>5 DEF Search
  <2>4. VersionsCounted' /\ OfHistory(article)' /\ \A e \in Editors : OfHistory(edit[e].read)'
    BY <2>3 DEF KnowledgeInv, VersionsCounted, Pending, OfHistory
  <2> QED
    BY <2>1, <2>2, <2>3, <2>4 DEF KnowledgeInv, KnowledgeVarsOK, ShownAgrees
<1>6. CASE UNCHANGED knowledgeVars
  BY <1>6 DEF knowledgeVars, KnowledgeInv, KnowledgeVarsOK, OfHistory, VersionsCounted, Pending, ShownAgrees
<1> QED
  BY <1>1, <1>2, <1>3, <1>4, <1>5, <1>6 DEF KnowledgeNext

LEMMA KnowledgeHolds == KnowledgeInv => KnowledgeTypeOK /\ LatestIsShown /\ StateAsAsked /\ ServedIsInHistory
BY DEF KnowledgeInv, KnowledgeVarsOK, OfHistory, ShownAgrees, EditRow, KnowledgeTypeOK, LatestIsShown, StateAsAsked, ServedIsInHistory

-----------------------------------------------------------------------------
(* The assistant.  The handlers are counted by what they are at.             *)

ReplySteps == {"none", "begun", "counting", "history", "calling", "answering"}
HandlersAt(S) == {r \in Replies : reply[r] \in S}
AtWork == {"counting", "history", "calling", "answering"}
Cleared == {"history", "calling", "answering"}      \* past the budget and the circuit
Started == ReplySteps \ {"none"}
One(b) == IF b THEN 1 ELSE 0

BotVarsOK ==
  /\ conversation \in {"OPEN", "TICKET_CREATED"} /\ reply \in [Replies -> ReplySteps]
  /\ asked \in 0 .. MaxQuestions /\ replied \in Nat /\ overdue \in Nat /\ prompts \in Nat /\ killed \in 0 .. MaxKills
  /\ failures \in 0 .. OpenAfter - 1 /\ circuit \in {"closed", "open", "elapsed"} /\ blind \in Nat

(* With all handlers, those at work, those about to call, those cleared and  *)
(* those started.  A call is answered, lost, or still at work; a handler is  *)
(* cleared while the budget lasts; who was about to call when the circuit    *)
(* opened may still call; who had started when the ticket came, answers late.*)
BotAgrees(all, w, h, g, b, ask, rep, late_, calls_, lost, missed, conv, circ) ==
  /\ h <= g /\ g <= w /\ w <= b /\ b <= all
  /\ ask = rep + w + lost
  /\ calls_ + h <= rep + g + lost
  /\ calls_ + h <= BotBudget + all - 1 + lost
  /\ missed <= all - 1 /\ missed <= calls_ /\ late_ <= rep
  /\ circ = "open" => missed + h <= all - 1
  /\ IF conv = "OPEN" THEN late_ = 0 ELSE late_ + b <= all

Counts(w, h, g, b) ==
  /\ w = Cardinality(HandlersAt(AtWork)) /\ h = Cardinality(HandlersAt({"history"}))
  /\ g = Cardinality(HandlersAt(Cleared)) /\ b = Cardinality(HandlersAt(Started))

BotInv ==
  /\ BotVarsOK
  /\ \E w, h, g, b \in Nat :
       Counts(w, h, g, b) /\ BotAgrees(Cardinality(Replies), w, h, g, b, asked, replied, overdue, prompts, killed, blind, conversation, circuit)

LEMMA RepliesCounted == Cardinality(Replies) \in Nat /\ Cardinality(Replies) >= 1
<1>1. Cardinality(Replies) \in Nat /\ Cardinality(Replies) # 0
  BY BotAssumption, FS_CardinalityType, FS_EmptySet
<1> QED
  BY <1>1

LEMMA BotConstants == BotBudget \in Nat /\ OpenAfter \in Nat /\ OpenAfter > 0 /\ MaxQuestions \in Nat /\ MaxKills \in Nat
BY BotAssumption

LEMMA HandlerMoves ==
  ASSUME NEW S, BotVarsOK, NEW r \in Replies, NEW to \in ReplySteps, reply' = [reply EXCEPT ![r] = to]
  PROVE  /\ Cardinality(HandlersAt(S)) \in Nat /\ Cardinality(HandlersAt(S))' \in Nat
         /\ Cardinality(HandlersAt(S))' = Cardinality(HandlersAt(S)) + One(to \in S) - One(reply[r] \in S)
<1>1. PICK A : A = HandlersAt(S)
  OBVIOUS
<1>2. PICK B : B = HandlersAt(S)'
  OBVIOUS
<1>3. IsFiniteSet(A) /\ IsFiniteSet(B) /\ Cardinality(A) \in Nat /\ Cardinality(B) \in Nat
  BY <1>1, <1>2, BotAssumption, FS_Subset, FS_CardinalityType DEF HandlersAt
<1>4. CASE to \in S /\ reply[r] \notin S
  <2>1. r \notin A /\ B = A \cup {r}
    BY <1>1, <1>2, <1>4 DEF HandlersAt, BotVarsOK
  <2>2. Cardinality(B) = Cardinality(A) + 1
    BY <1>3, <2>1, FS_AddElement
  <2> QED
    BY <1>1, <1>2, <1>3, <1>4, <2>2 DEF One
<1>5. CASE to \notin S /\ reply[r] \in S
  <2>1. r \in A /\ B = A \ {r}
    BY <1>1, <1>2, <1>5 DEF HandlersAt, BotVarsOK
  <2>2. Cardinality(B) = Cardinality(A) - 1
    BY <1>3, <2>1, FS_RemoveElement
  <2> QED
    BY <1>1, <1>2, <1>3, <1>5, <2>2 DEF One
<1>6. CASE (to \in S) = (reply[r] \in S)
  <2>1. B = A
    BY <1>1, <1>2, <1>6 DEF HandlersAt, BotVarsOK
  <2> QED
    BY <1>1, <1>2, <1>3, <1>6, <2>1 DEF One
<1> QED
  BY <1>4, <1>5, <1>6

(* A handler that was at "from" is at "to": who is counted changes by that.  *)
Shift(all, w, h, g, b, w2, h2, g2, b2, from, to) ==
  /\ w2 = w + One(to \in AtWork) - One(from \in AtWork)
  /\ h2 = h + One(to \in {"history"}) - One(from \in {"history"})
  /\ g2 = g + One(to \in Cleared) - One(from \in Cleared)
  /\ b2 = b + One(to \in Started) - One(from \in Started)
  /\ h2 <= g2 /\ g2 <= w2 /\ w2 <= b2 /\ b2 <= all

LEMMA CountsMove ==
  ASSUME BotVarsOK, NEW w \in Nat, NEW h \in Nat, NEW g \in Nat, NEW b \in Nat, Counts(w, h, g, b),
         NEW r \in Replies, NEW to \in ReplySteps, reply' = [reply EXCEPT ![r] = to]
  PROVE  \E w2, h2, g2, b2 \in Nat :
            /\ w2 = Cardinality(HandlersAt(AtWork)') /\ h2 = Cardinality(HandlersAt({"history"})')
            /\ g2 = Cardinality(HandlersAt(Cleared)') /\ b2 = Cardinality(HandlersAt(Started)')
            /\ Shift(Cardinality(Replies), w, h, g, b, w2, h2, g2, b2, reply[r], to)
<1>1. PICK w2 \in Nat : w2 = Cardinality(HandlersAt(AtWork))' /\ w2 = w + One(to \in AtWork) - One(reply[r] \in AtWork)
  BY HandlerMoves DEF Counts
<1>2. PICK h2 \in Nat : h2 = Cardinality(HandlersAt({"history"}))' /\ h2 = h + One(to \in {"history"}) - One(reply[r] \in {"history"})
  BY HandlerMoves DEF Counts
<1>3. PICK g2 \in Nat : g2 = Cardinality(HandlersAt(Cleared))' /\ g2 = g + One(to \in Cleared) - One(reply[r] \in Cleared)
  BY HandlerMoves DEF Counts
<1>4. PICK b2 \in Nat : b2 = Cardinality(HandlersAt(Started))' /\ b2 = b + One(to \in Started) - One(reply[r] \in Started)
  BY HandlerMoves DEF Counts
<1>5. w2 = Cardinality(HandlersAt(AtWork)') /\ h2 = Cardinality(HandlersAt({"history"})')
      /\ g2 = Cardinality(HandlersAt(Cleared)') /\ b2 = Cardinality(HandlersAt(Started)')
  BY <1>1, <1>2, <1>3, <1>4
<1>7. /\ HandlersAt({"history"})' \subseteq HandlersAt(Cleared)' /\ HandlersAt(Cleared)' \subseteq HandlersAt(AtWork)'
      /\ HandlersAt(AtWork)' \subseteq HandlersAt(Started)' /\ HandlersAt(Started)' \subseteq Replies
  BY DEF HandlersAt, Cleared, AtWork, Started, ReplySteps
<1>8. IsFiniteSet(HandlersAt(Cleared)') /\ IsFiniteSet(HandlersAt(AtWork)') /\ IsFiniteSet(HandlersAt(Started)')
  BY <1>7, BotAssumption, FS_Subset
<1>9. h2 <= g2 /\ g2 <= w2 /\ w2 <= b2 /\ b2 <= Cardinality(Replies)
  BY <1>5, <1>7, <1>8, BotAssumption, NoMore
<1>10. Shift(Cardinality(Replies), w, h, g, b, w2, h2, g2, b2, reply[r], to)
  BY <1>1, <1>2, <1>3, <1>4, <1>9 DEF Shift
<1> QED
  BY <1>5, <1>10

LEMMA BotInitHolds == BotInit => BotInv
<1> SUFFICES ASSUME BotInit PROVE BotInv
  OBVIOUS
<1>1. BotVarsOK
  BY BotConstants DEF BotInit, BotVarsOK, ReplySteps
<1>2. HandlersAt(AtWork) = {} /\ HandlersAt({"history"}) = {} /\ HandlersAt(Cleared) = {} /\ HandlersAt(Started) = {}
  BY DEF BotInit, HandlersAt, AtWork, Cleared, Started
<1>3. Counts(0, 0, 0, 0)
  BY <1>2, FS_EmptySet DEF Counts
<1>4. BotAgrees(Cardinality(Replies), 0, 0, 0, 0, asked, replied, overdue, prompts, killed, blind, conversation, circuit)
  BY RepliesCounted, BotConstants DEF BotInit, BotAgrees
<1>5. \E w, h, g, b \in Nat :
       Counts(w, h, g, b) /\ BotAgrees(Cardinality(Replies), w, h, g, b, asked, replied, overdue, prompts, killed, blind, conversation, circuit)
  BY <1>3, <1>4
<1> QED
  BY <1>1, <1>5 DEF BotInv

LEMMA BotStepHolds == BotInv /\ [BotNext]_botVars => BotInv'
<1> SUFFICES ASSUME BotInv, [BotNext]_botVars PROVE BotInv'
  OBVIOUS
<1> USE RepliesCounted, BotConstants
<1>0. PICK w \in Nat, h \in Nat, g \in Nat, b \in Nat :
        Counts(w, h, g, b) /\ BotAgrees(Cardinality(Replies), w, h, g, b, asked, replied, overdue, prompts, killed, blind, conversation, circuit)
  BY DEF BotInv
<1>1. BotVarsOK
  BY DEF BotInv
<1>2. ASSUME NEW w2 \in Nat, NEW h2 \in Nat, NEW g2 \in Nat, NEW b2 \in Nat, BotVarsOK',
             w2 = Cardinality(HandlersAt(AtWork)'), h2 = Cardinality(HandlersAt({"history"})'),
             g2 = Cardinality(HandlersAt(Cleared)'), b2 = Cardinality(HandlersAt(Started)'),
             BotAgrees(Cardinality(Replies), w2, h2, g2, b2, asked, replied, overdue, prompts, killed, blind, conversation, circuit)'
      PROVE  BotInv'
  <2>1. Counts(w2, h2, g2, b2)'
    BY <1>2 DEF Counts, AtWork, Cleared, Started, ReplySteps
  <2> QED
    BY <1>2, <2>1 DEF BotInv
<1>4. ASSUME NEW r \in Replies, RequireConversation(r) PROVE BotInv'
  <2>1. reply[r] = "none" /\ reply' = [reply EXCEPT ![r] = "begun"] /\ "begun" \in ReplySteps
    BY <1>4 DEF RequireConversation, Go, KeepCircuit, OpenWhenRead, ReplySteps
  <2>2. PICK w2 \in Nat, h2 \in Nat, g2 \in Nat, b2 \in Nat :
            /\ w2 = Cardinality(HandlersAt(AtWork)') /\ h2 = Cardinality(HandlersAt({"history"})')
            /\ g2 = Cardinality(HandlersAt(Cleared)') /\ b2 = Cardinality(HandlersAt(Started)')
            /\ Shift(Cardinality(Replies), w, h, g, b, w2, h2, g2, b2, reply[r], "begun")
    BY <1>0, <1>1, <2>1, CountsMove
  <2>3. /\ w2 = w /\ h2 = h /\ g2 = g /\ b2 = b + 1
        /\ h2 <= g2 /\ g2 <= w2 /\ w2 <= b2 /\ b2 <= Cardinality(Replies)
    BY <2>1, <2>2 DEF Shift, One, AtWork, Cleared, Started, ReplySteps
  <2>4. conversation = "OPEN"
    BY <1>4 DEF RequireConversation, OpenWhenRead
  <2>5. BotAgrees(Cardinality(Replies), w2, h2, g2, b2, asked, replied, overdue, prompts, killed, blind, conversation, circuit)
    BY <1>0, <1>1, <2>2, <2>3, <2>4 DEF BotAgrees, BotVarsOK
  <2>6. BotAgrees(Cardinality(Replies), w2, h2, g2, b2, asked, replied, overdue, prompts, killed, blind, conversation, circuit)'
    BY <1>4, <2>5 DEF RequireConversation, Go, KeepCircuit, OpenWhenRead
  <2>7. BotVarsOK'
    BY <1>1, <1>4 DEF RequireConversation, Go, KeepCircuit, OpenWhenRead, BotVarsOK, ReplySteps
  <2> QED
    BY <1>2, <2>2, <2>6, <2>7
<1>5. ASSUME NEW r \in Replies, RecordQuestion(r) PROVE BotInv'
  <2>1. reply[r] = "begun" /\ reply' = [reply EXCEPT ![r] = "counting"] /\ "counting" \in ReplySteps
    BY <1>5 DEF RecordQuestion, Go, KeepCircuit, ReplySteps
  <2>2. PICK w2 \in Nat, h2 \in Nat, g2 \in Nat, b2 \in Nat :
            /\ w2 = Cardinality(HandlersAt(AtWork)') /\ h2 = Cardinality(HandlersAt({"history"})')
            /\ g2 = Cardinality(HandlersAt(Cleared)') /\ b2 = Cardinality(HandlersAt(Started)')
            /\ Shift(Cardinality(Replies), w, h, g, b, w2, h2, g2, b2, reply[r], "counting")
    BY <1>0, <1>1, <2>1, CountsMove
  <2>3. /\ w2 = w + 1 /\ h2 = h /\ g2 = g /\ b2 = b
        /\ h2 <= g2 /\ g2 <= w2 /\ w2 <= b2 /\ b2 <= Cardinality(Replies)
    BY <2>1, <2>2 DEF Shift, One, AtWork, Cleared, Started, ReplySteps
  <2>4. BotAgrees(Cardinality(Replies), w2, h2, g2, b2, asked + 1, replied, overdue, prompts, killed, blind, conversation, circuit)
    BY <1>0, <1>1, <2>2, <2>3 DEF BotAgrees, BotVarsOK
  <2>5. BotAgrees(Cardinality(Replies), w2, h2, g2, b2, asked, replied, overdue, prompts, killed, blind, conversation, circuit)'
    BY <1>5, <2>4 DEF RecordQuestion, Go, KeepCircuit
  <2>6. BotVarsOK'
    BY <1>1, <1>5 DEF RecordQuestion, Go, KeepCircuit, BotVarsOK, ReplySteps
  <2> QED
    BY <1>2, <2>2, <2>5, <2>6
<1>6. ASSUME NEW r \in Replies, BudgetSpent(r) PROVE BotInv'
  <2>1. reply[r] = "counting" /\ reply' = [reply EXCEPT ![r] = "none"] /\ "none" \in ReplySteps
    BY <1>6 DEF BudgetSpent, Go, KeepCircuit, Answer, ReplySteps
  <2>2. PICK w2 \in Nat, h2 \in Nat, g2 \in Nat, b2 \in Nat :
            /\ w2 = Cardinality(HandlersAt(AtWork)') /\ h2 = Cardinality(HandlersAt({"history"})')
            /\ g2 = Cardinality(HandlersAt(Cleared)') /\ b2 = Cardinality(HandlersAt(Started)')
            /\ Shift(Cardinality(Replies), w, h, g, b, w2, h2, g2, b2, reply[r], "none")
    BY <1>0, <1>1, <2>1, CountsMove
  <2>3. /\ w2 = w - 1 /\ h2 = h /\ g2 = g /\ b2 = b - 1
        /\ h2 <= g2 /\ g2 <= w2 /\ w2 <= b2 /\ b2 <= Cardinality(Replies)
    BY <2>1, <2>2 DEF Shift, One, AtWork, Cleared, Started, ReplySteps
  <2>4. PICK late2 : late2 = overdue'
    OBVIOUS
  <2>5. late2 \in Nat /\ late2 = IF conversation = "OPEN" THEN overdue ELSE overdue + 1
    BY <1>1, <1>6, <2>4 DEF BudgetSpent, Go, KeepCircuit, Answer, BotVarsOK
  <2>6. BotAgrees(Cardinality(Replies), w2, h2, g2, b2, asked, replied + 1, late2, prompts, killed, blind, conversation, circuit)
    BY <1>0, <1>1, <2>2, <2>3, <2>5 DEF BotAgrees, BotVarsOK
  <2>7. BotAgrees(Cardinality(Replies), w2, h2, g2, b2, asked, replied, overdue, prompts, killed, blind, conversation, circuit)'
    BY <1>6, <2>6, <2>4, <2>5 DEF BudgetSpent, Go, KeepCircuit, Answer
  <2>8. BotVarsOK'
    BY <1>1, <1>6 DEF BudgetSpent, Go, KeepCircuit, Answer, BotVarsOK, ReplySteps
  <2> QED
    BY <1>2, <2>2, <2>7, <2>8
<1>7. ASSUME NEW r \in Replies, CircuitIsOpen(r) PROVE BotInv'
  <2>1. reply[r] = "counting" /\ reply' = [reply EXCEPT ![r] = "none"] /\ "none" \in ReplySteps
    BY <1>7 DEF CircuitIsOpen, Go, KeepCircuit, Answer, ReplySteps
  <2>2. PICK w2 \in Nat, h2 \in Nat, g2 \in Nat, b2 \in Nat :
            /\ w2 = Cardinality(HandlersAt(AtWork)') /\ h2 = Cardinality(HandlersAt({"history"})')
            /\ g2 = Cardinality(HandlersAt(Cleared)') /\ b2 = Cardinality(HandlersAt(Started)')
            /\ Shift(Cardinality(Replies), w, h, g, b, w2, h2, g2, b2, reply[r], "none")
    BY <1>0, <1>1, <2>1, CountsMove
  <2>3. /\ w2 = w - 1 /\ h2 = h /\ g2 = g /\ b2 = b - 1
        /\ h2 <= g2 /\ g2 <= w2 /\ w2 <= b2 /\ b2 <= Cardinality(Replies)
    BY <2>1, <2>2 DEF Shift, One, AtWork, Cleared, Started, ReplySteps
  <2>4. PICK late2 : late2 = overdue'
    OBVIOUS
  <2>5. late2 \in Nat /\ late2 = IF conversation = "OPEN" THEN overdue ELSE overdue + 1
    BY <1>1, <1>7, <2>4 DEF CircuitIsOpen, Go, KeepCircuit, Answer, BotVarsOK
  <2>6. BotAgrees(Cardinality(Replies), w2, h2, g2, b2, asked, replied + 1, late2, prompts, killed, blind, conversation, circuit)
    BY <1>0, <1>1, <2>2, <2>3, <2>5 DEF BotAgrees, BotVarsOK
  <2>7. BotAgrees(Cardinality(Replies), w2, h2, g2, b2, asked, replied, overdue, prompts, killed, blind, conversation, circuit)'
    BY <1>7, <2>6, <2>4, <2>5 DEF CircuitIsOpen, Go, KeepCircuit, Answer
  <2>8. BotVarsOK'
    BY <1>1, <1>7 DEF CircuitIsOpen, Go, KeepCircuit, Answer, BotVarsOK, ReplySteps
  <2> QED
    BY <1>2, <2>2, <2>7, <2>8
<1>8. ASSUME NEW r \in Replies, Disabled(r) PROVE BotInv'
  <2>1. reply[r] = "counting" /\ reply' = [reply EXCEPT ![r] = "none"] /\ "none" \in ReplySteps
    BY <1>8 DEF Disabled, Go, KeepCircuit, Answer, ReplySteps
  <2>2. PICK w2 \in Nat, h2 \in Nat, g2 \in Nat, b2 \in Nat :
            /\ w2 = Cardinality(HandlersAt(AtWork)') /\ h2 = Cardinality(HandlersAt({"history"})')
            /\ g2 = Cardinality(HandlersAt(Cleared)') /\ b2 = Cardinality(HandlersAt(Started)')
            /\ Shift(Cardinality(Replies), w, h, g, b, w2, h2, g2, b2, reply[r], "none")
    BY <1>0, <1>1, <2>1, CountsMove
  <2>3. /\ w2 = w - 1 /\ h2 = h /\ g2 = g /\ b2 = b - 1
        /\ h2 <= g2 /\ g2 <= w2 /\ w2 <= b2 /\ b2 <= Cardinality(Replies)
    BY <2>1, <2>2 DEF Shift, One, AtWork, Cleared, Started, ReplySteps
  <2>4. PICK late2 : late2 = overdue'
    OBVIOUS
  <2>5. late2 \in Nat /\ late2 = IF conversation = "OPEN" THEN overdue ELSE overdue + 1
    BY <1>1, <1>8, <2>4 DEF Disabled, Go, KeepCircuit, Answer, BotVarsOK
  <2>6. BotAgrees(Cardinality(Replies), w2, h2, g2, b2, asked, replied + 1, late2, prompts, killed, blind, conversation, circuit)
    BY <1>0, <1>1, <2>2, <2>3, <2>5 DEF BotAgrees, BotVarsOK
  <2>7. BotAgrees(Cardinality(Replies), w2, h2, g2, b2, asked, replied, overdue, prompts, killed, blind, conversation, circuit)'
    BY <1>8, <2>6, <2>4, <2>5 DEF Disabled, Go, KeepCircuit, Answer
  <2>8. BotVarsOK'
    BY <1>1, <1>8 DEF Disabled, Go, KeepCircuit, Answer, BotVarsOK, ReplySteps
  <2> QED
    BY <1>2, <2>2, <2>7, <2>8
<1>9. ASSUME NEW r \in Replies, CircuitIsClosed(r) PROVE BotInv'
  <2>1. reply[r] = "counting" /\ reply' = [reply EXCEPT ![r] = "history"] /\ "history" \in ReplySteps
    BY <1>9 DEF CircuitIsClosed, Go, KeepCircuit, WithinBudget, CircuitOpen, ReplySteps
  <2>2. PICK w2 \in Nat, h2 \in Nat, g2 \in Nat, b2 \in Nat :
            /\ w2 = Cardinality(HandlersAt(AtWork)') /\ h2 = Cardinality(HandlersAt({"history"})')
            /\ g2 = Cardinality(HandlersAt(Cleared)') /\ b2 = Cardinality(HandlersAt(Started)')
            /\ Shift(Cardinality(Replies), w, h, g, b, w2, h2, g2, b2, reply[r], "history")
    BY <1>0, <1>1, <2>1, CountsMove
  <2>3. /\ w2 = w /\ h2 = h + 1 /\ g2 = g + 1 /\ b2 = b
        /\ h2 <= g2 /\ g2 <= w2 /\ w2 <= b2 /\ b2 <= Cardinality(Replies)
    BY <2>1, <2>2 DEF Shift, One, AtWork, Cleared, Started, ReplySteps
  <2>4. PICK missed2 : missed2 = blind'
    OBVIOUS
  <2>5. PICK circ2 : circ2 = circuit'
    OBVIOUS
  <2>6. circuit # "open" /\ replied < BotBudget /\ circ2 # "open" /\ missed2 \in {0, blind}
    BY <1>1, <1>9, <2>4, <2>5 DEF CircuitIsClosed, Go, KeepCircuit, WithinBudget, CircuitOpen, BotVarsOK
  <2>7. BotAgrees(Cardinality(Replies), w2, h2, g2, b2, asked, replied, overdue, prompts, killed, missed2, conversation, circ2)
    BY <1>0, <1>1, <2>2, <2>3, <2>6 DEF BotAgrees, BotVarsOK
  <2>8. BotAgrees(Cardinality(Replies), w2, h2, g2, b2, asked, replied, overdue, prompts, killed, blind, conversation, circuit)'
    BY <1>9, <2>7, <2>4, <2>5, <2>6 DEF CircuitIsClosed, Go, KeepCircuit, WithinBudget, CircuitOpen
  <2>9. BotVarsOK'
    BY <1>1, <1>9 DEF CircuitIsClosed, Go, KeepCircuit, WithinBudget, CircuitOpen, BotVarsOK, ReplySteps
  <2> QED
    BY <1>2, <2>2, <2>8, <2>9
<1>10. ASSUME NEW r \in Replies, CallProvider(r) PROVE BotInv'
  <2>1. reply[r] = "history" /\ reply' = [reply EXCEPT ![r] = "calling"] /\ "calling" \in ReplySteps
    BY <1>10 DEF CallProvider, Go, KeepCircuit, ReplySteps
  <2>2. PICK w2 \in Nat, h2 \in Nat, g2 \in Nat, b2 \in Nat :
            /\ w2 = Cardinality(HandlersAt(AtWork)') /\ h2 = Cardinality(HandlersAt({"history"})')
            /\ g2 = Cardinality(HandlersAt(Cleared)') /\ b2 = Cardinality(HandlersAt(Started)')
            /\ Shift(Cardinality(Replies), w, h, g, b, w2, h2, g2, b2, reply[r], "calling")
    BY <1>0, <1>1, <2>1, CountsMove
  <2>3. /\ w2 = w /\ h2 = h - 1 /\ g2 = g /\ b2 = b
        /\ h2 <= g2 /\ g2 <= w2 /\ w2 <= b2 /\ b2 <= Cardinality(Replies)
    BY <2>1, <2>2 DEF Shift, One, AtWork, Cleared, Started, ReplySteps
  <2>4. PICK missed2 : missed2 = blind'
    OBVIOUS
  <2>5. missed2 = IF circuit = "open" THEN blind + 1 ELSE blind
    BY <1>1, <1>10, <2>4 DEF CallProvider, Go, KeepCircuit, BotVarsOK
  <2>6. BotAgrees(Cardinality(Replies), w2, h2, g2, b2, asked, replied, overdue, prompts + 1, killed, missed2, conversation, circuit)
    BY <1>0, <1>1, <2>2, <2>3, <2>5 DEF BotAgrees, BotVarsOK
  <2>7. BotAgrees(Cardinality(Replies), w2, h2, g2, b2, asked, replied, overdue, prompts, killed, blind, conversation, circuit)'
    BY <1>10, <2>6, <2>4, <2>5 DEF CallProvider, Go, KeepCircuit
  <2>8. BotVarsOK'
    BY <1>1, <1>10 DEF CallProvider, Go, KeepCircuit, BotVarsOK, ReplySteps
  <2> QED
    BY <1>2, <2>2, <2>7, <2>8
<1>11. ASSUME NEW r \in Replies, ProviderAnswers(r) PROVE BotInv'
  <2>1. reply[r] = "calling" /\ reply' = [reply EXCEPT ![r] = "answering"] /\ "answering" \in ReplySteps
    BY <1>11 DEF ProviderAnswers, Go, KeepCircuit, ReplySteps
  <2>2. PICK w2 \in Nat, h2 \in Nat, g2 \in Nat, b2 \in Nat :
            /\ w2 = Cardinality(HandlersAt(AtWork)') /\ h2 = Cardinality(HandlersAt({"history"})')
            /\ g2 = Cardinality(HandlersAt(Cleared)') /\ b2 = Cardinality(HandlersAt(Started)')
            /\ Shift(Cardinality(Replies), w, h, g, b, w2, h2, g2, b2, reply[r], "answering")
    BY <1>0, <1>1, <2>1, CountsMove
  <2>3. /\ w2 = w /\ h2 = h /\ g2 = g /\ b2 = b
        /\ h2 <= g2 /\ g2 <= w2 /\ w2 <= b2 /\ b2 <= Cardinality(Replies)
    BY <2>1, <2>2 DEF Shift, One, AtWork, Cleared, Started, ReplySteps
  <2>4. BotAgrees(Cardinality(Replies), w2, h2, g2, b2, asked, replied, overdue, prompts, killed, 0, conversation, "closed")
    BY <1>0, <1>1, <2>2, <2>3 DEF BotAgrees, BotVarsOK
  <2>5. BotAgrees(Cardinality(Replies), w2, h2, g2, b2, asked, replied, overdue, prompts, killed, blind, conversation, circuit)'
    BY <1>11, <2>4 DEF ProviderAnswers, Go, KeepCircuit
  <2>6. BotVarsOK'
    BY <1>1, <1>11 DEF ProviderAnswers, Go, KeepCircuit, BotVarsOK, ReplySteps
  <2> QED
    BY <1>2, <2>2, <2>5, <2>6
<1>12. ASSUME NEW r \in Replies, ProviderFails(r) PROVE BotInv'
  <2>1. reply[r] = "calling" /\ reply' = [reply EXCEPT ![r] = "none"] /\ "none" \in ReplySteps
    BY <1>12 DEF ProviderFails, Go, KeepCircuit, Answer, RecordFailure, ReplySteps
  <2>2. PICK w2 \in Nat, h2 \in Nat, g2 \in Nat, b2 \in Nat :
            /\ w2 = Cardinality(HandlersAt(AtWork)') /\ h2 = Cardinality(HandlersAt({"history"})')
            /\ g2 = Cardinality(HandlersAt(Cleared)') /\ b2 = Cardinality(HandlersAt(Started)')
            /\ Shift(Cardinality(Replies), w, h, g, b, w2, h2, g2, b2, reply[r], "none")
    BY <1>0, <1>1, <2>1, CountsMove
  <2>3. /\ w2 = w - 1 /\ h2 = h /\ g2 = g - 1 /\ b2 = b - 1
        /\ h2 <= g2 /\ g2 <= w2 /\ w2 <= b2 /\ b2 <= Cardinality(Replies)
    BY <2>1, <2>2 DEF Shift, One, AtWork, Cleared, Started, ReplySteps
  <2>4. PICK late2 : late2 = overdue'
    OBVIOUS
  <2>5. PICK missed2 : missed2 = blind'
    OBVIOUS
  <2>6. PICK circ2 : circ2 = circuit'
    OBVIOUS
  <2>7. (late2 \in Nat /\ late2 = IF conversation = "OPEN" THEN overdue ELSE overdue + 1) /\ (missed2 \in {0, blind} /\ (circ2 = "open" => missed2 = 0 \/ circuit = "open"))
    BY <1>1, <1>12, <2>4, <2>5, <2>6 DEF ProviderFails, Go, KeepCircuit, Answer, RecordFailure, BotVarsOK
  <2>8. BotAgrees(Cardinality(Replies), w2, h2, g2, b2, asked, replied + 1, late2, prompts, killed, missed2, conversation, circ2)
    BY <1>0, <1>1, <2>2, <2>3, <2>7 DEF BotAgrees, BotVarsOK
  <2>9. BotAgrees(Cardinality(Replies), w2, h2, g2, b2, asked, replied, overdue, prompts, killed, blind, conversation, circuit)'
    BY <1>12, <2>8, <2>4, <2>5, <2>6, <2>7 DEF ProviderFails, Go, KeepCircuit, Answer, RecordFailure
  <2>10. BotVarsOK'
    BY <1>1, <1>12 DEF ProviderFails, Go, KeepCircuit, Answer, RecordFailure, BotVarsOK, ReplySteps
  <2> QED
    BY <1>2, <2>2, <2>9, <2>10
<1>13. ASSUME NEW r \in Replies, RecordAnswer(r) PROVE BotInv'
  <2>1. reply[r] = "answering" /\ reply' = [reply EXCEPT ![r] = "none"] /\ "none" \in ReplySteps
    BY <1>13 DEF RecordAnswer, Go, KeepCircuit, Answer, ReplySteps
  <2>2. PICK w2 \in Nat, h2 \in Nat, g2 \in Nat, b2 \in Nat :
            /\ w2 = Cardinality(HandlersAt(AtWork)') /\ h2 = Cardinality(HandlersAt({"history"})')
            /\ g2 = Cardinality(HandlersAt(Cleared)') /\ b2 = Cardinality(HandlersAt(Started)')
            /\ Shift(Cardinality(Replies), w, h, g, b, w2, h2, g2, b2, reply[r], "none")
    BY <1>0, <1>1, <2>1, CountsMove
  <2>3. /\ w2 = w - 1 /\ h2 = h /\ g2 = g - 1 /\ b2 = b - 1
        /\ h2 <= g2 /\ g2 <= w2 /\ w2 <= b2 /\ b2 <= Cardinality(Replies)
    BY <2>1, <2>2 DEF Shift, One, AtWork, Cleared, Started, ReplySteps
  <2>4. PICK late2 : late2 = overdue'
    OBVIOUS
  <2>5. late2 \in Nat /\ late2 = IF conversation = "OPEN" THEN overdue ELSE overdue + 1
    BY <1>1, <1>13, <2>4 DEF RecordAnswer, Go, KeepCircuit, Answer, BotVarsOK
  <2>6. BotAgrees(Cardinality(Replies), w2, h2, g2, b2, asked, replied + 1, late2, prompts, killed, blind, conversation, circuit)
    BY <1>0, <1>1, <2>2, <2>3, <2>5 DEF BotAgrees, BotVarsOK
  <2>7. BotAgrees(Cardinality(Replies), w2, h2, g2, b2, asked, replied, overdue, prompts, killed, blind, conversation, circuit)'
    BY <1>13, <2>6, <2>4, <2>5 DEF RecordAnswer, Go, KeepCircuit, Answer
  <2>8. BotVarsOK'
    BY <1>1, <1>13 DEF RecordAnswer, Go, KeepCircuit, Answer, BotVarsOK, ReplySteps
  <2> QED
    BY <1>2, <2>2, <2>7, <2>8
<1>14. ASSUME NEW r \in Replies, LoseReply(r) PROVE BotInv'
  <2>1. reply[r] \in ReplySteps /\ reply[r] # "none" /\ reply' = [reply EXCEPT ![r] = "none"] /\ "none" \in ReplySteps
    BY <1>1, <1>14 DEF LoseReply, Go, BotVarsOK, ReplySteps
  <2>2. PICK w2 \in Nat, h2 \in Nat, g2 \in Nat, b2 \in Nat :
            /\ w2 = Cardinality(HandlersAt(AtWork)') /\ h2 = Cardinality(HandlersAt({"history"})')
            /\ g2 = Cardinality(HandlersAt(Cleared)') /\ b2 = Cardinality(HandlersAt(Started)')
            /\ Shift(Cardinality(Replies), w, h, g, b, w2, h2, g2, b2, reply[r], "none")
    BY <1>0, <1>1, <2>1, CountsMove
  <2>3. PICK lost2 : lost2 = killed'
    OBVIOUS
  <2>4. /\ lost2 \in Nat /\ lost2 = killed + One(reply[r] \in AtWork)
        /\ One("none" \in AtWork) = 0 /\ One("none" \in {"history"}) = 0 /\ One("none" \in Cleared) = 0 /\ One("none" \in Started) = 0
    BY <1>1, <1>14, <2>1, <2>3 DEF LoseReply, One, Working, AtWork, Cleared, Started, ReplySteps, BotVarsOK
  <2>5. /\ One(reply[r] \in AtWork) \in {0, 1} /\ One(reply[r] \in {"history"}) \in {0, 1}
        /\ One(reply[r] \in Cleared) \in {0, 1} /\ One(reply[r] \in Started) = 1
        /\ One(reply[r] \in Cleared) <= One(reply[r] \in AtWork)
    BY <2>1 DEF One, AtWork, Cleared, Started, ReplySteps
  <2>6. BotAgrees(Cardinality(Replies), w2, h2, g2, b2, asked, replied, overdue, prompts, lost2, blind, conversation, circuit)
    BY <1>0, <1>1, <2>2, <2>4, <2>5 DEF BotAgrees, BotVarsOK, Shift
  <2>7. BotAgrees(Cardinality(Replies), w2, h2, g2, b2, asked, replied, overdue, prompts, killed, blind, conversation, circuit)'
    BY <1>14, <2>3, <2>6 DEF LoseReply, KeepCircuit
  <2>8. BotVarsOK'
    BY <1>1, <1>14, <2>1 DEF LoseReply, KeepCircuit, BotVarsOK, ReplySteps
  <2> QED
    BY <1>2, <2>2, <2>7, <2>8
<1>15. ASSUME UNCHANGED reply
      PROVE  /\ w = Cardinality(HandlersAt(AtWork)') /\ h = Cardinality(HandlersAt({"history"})')
             /\ g = Cardinality(HandlersAt(Cleared)') /\ b = Cardinality(HandlersAt(Started)')
  BY <1>0, <1>15 DEF Counts, HandlersAt, AtWork, Cleared, Started, ReplySteps
<1>16. CASE CircuitElapses
  <2>1. BotAgrees(Cardinality(Replies), w, h, g, b, asked, replied, overdue, prompts, killed, blind, conversation, "elapsed")
    BY <1>0 DEF BotAgrees
  <2>2. BotAgrees(Cardinality(Replies), w, h, g, b, asked, replied, overdue, prompts, killed, blind, conversation, circuit)'
    BY <1>16, <2>1 DEF CircuitElapses
  <2>3. BotVarsOK'
    BY <1>1, <1>16 DEF CircuitElapses, BotVarsOK
  <2> QED
    BY <1>2, <1>15, <1>16, <2>2, <2>3 DEF CircuitElapses
<1>17. CASE CreateTicket
  <2>1. BotAgrees(Cardinality(Replies), w, h, g, b, asked, replied, overdue, prompts, killed, blind, "TICKET_CREATED", circuit)
    BY <1>0, <1>1, <1>17 DEF BotAgrees, BotVarsOK, CreateTicket
  <2>2. BotAgrees(Cardinality(Replies), w, h, g, b, asked, replied, overdue, prompts, killed, blind, conversation, circuit)'
    BY <1>17, <2>1 DEF CreateTicket, KeepCircuit
  <2>3. BotVarsOK'
    BY <1>1, <1>17 DEF CreateTicket, KeepCircuit, BotVarsOK
  <2> QED
    BY <1>2, <1>15, <1>17, <2>2, <2>3 DEF CreateTicket
<1>18. CASE UNCHANGED botVars
  <2>1. BotAgrees(Cardinality(Replies), w, h, g, b, asked, replied, overdue, prompts, killed, blind, conversation, circuit)'
    BY <1>0, <1>18 DEF botVars
  <2>2. BotVarsOK'
    BY <1>1, <1>18 DEF botVars, BotVarsOK
  <2> QED
    BY <1>2, <1>15, <1>18, <2>1, <2>2 DEF botVars
<1> QED
  BY <1>4, <1>5, <1>6, <1>7, <1>8, <1>9, <1>10, <1>11, <1>12, <1>13, <1>14, <1>16, <1>17, <1>18 DEF BotNext

LEMMA BotHolds == BotInv => BotTypeOK /\ CallsBounded /\ CircuitHolds /\ LateAnswersBounded
<1> SUFFICES ASSUME BotInv PROVE BotTypeOK /\ CallsBounded /\ CircuitHolds /\ LateAnswersBounded
  OBVIOUS
<1> USE RepliesCounted, BotConstants
<1>1. PICK w \in Nat, h \in Nat, g \in Nat, b \in Nat :
        Counts(w, h, g, b) /\ BotAgrees(Cardinality(Replies), w, h, g, b, asked, replied, overdue, prompts, killed, blind, conversation, circuit)
  BY DEF BotInv
<1>2. BotVarsOK
  BY DEF BotInv
<1>3. Working = HandlersAt(AtWork)
  BY <1>2 DEF Working, HandlersAt, AtWork, BotVarsOK, ReplySteps
<1>4. w = Cardinality(Working)
  BY <1>1, <1>3 DEF Counts
<1>5. prompts \in 0 .. MaxQuestions /\ overdue \in 0 .. replied /\ asked = replied + w + killed /\ blind \in 0 .. prompts
  BY <1>1, <1>2 DEF BotAgrees, BotVarsOK
<1>6. BotTypeOK
  BY <1>2, <1>4, <1>5 DEF BotTypeOK, BotVarsOK, ReplySteps
<1>7. prompts <= BotBudget + Cardinality(Replies) - 1 + killed /\ blind <= Cardinality(Replies) - 1 /\ overdue <= Cardinality(Replies)
  BY <1>1, <1>2 DEF BotAgrees, BotVarsOK
<1> QED
  BY <1>6, <1>7 DEF CallsBounded, CircuitHolds, LateAnswersBounded

-----------------------------------------------------------------------------
(* The figures of the dashboard.                                             *)

DashRows == [team: Teams, department: Teams, agent: Staff \cup {Free}, status: TicketStatuses, critical: BOOLEAN,
             breached: BOOLEAN, due: Dues, recent: BOOLEAN, deleted: BOOLEAN]

SupportFigures == {<<"support", "tickets">>, <<"support", "openTickets">>, <<"support", "byChannel">>}
TotalFigures ==
  {<<"overview", "total">>, <<"overview", "byStatus">>, <<"status", "byStatus">>, <<"priority", "byPriority">>,
   <<"department", "byDepartment">>, <<"compliance", "tracked">>, <<"compliance", "byPriority">>}
LateFigures == {<<"overview", "overdue">>, <<"compliance", "overdue">>}
RiskFigures == {<<"overview", "atRisk">>, <<"compliance", "atRisk">>}
ActivityFigures == {<<"activity", "mine">>, <<"activity", "openOfMine">>}
HeldFigures == {<<"workload", "held">>}
OpenFigures ==
  {<<"overview", "open">>, <<"overview", "breached">>, <<"overview", "compliant">>, <<"workload", "open">>, <<"workload", "held">>,
   <<"workload", "unassigned">>, <<"support", "openTickets">>, <<"activity", "openOfMine">>} \cup LateFigures \cup RiskFigures
Figures == SupportFigures \cup TotalFigures \cup ActivityFigures \cup HeldFigures \cup OpenFigures

(* Whether a figure counts a ticket, from its row alone.                     *)
Counted(q, t, row, of) ==
  /\ ~row.deleted
  /\ q \in SupportFigures => t \in Public
  /\ q \in ActivityFigures => row.agent = Me
  /\ q \notin SupportFigures \cup ActivityFigures => of \in {Everything, row.team}
  /\ q \in TotalFigures \cup {<<"compliance", "overdue">>, <<"compliance", "atRisk">>} => row.recent
  /\ q \in OpenFigures => row.status = "OPEN"
  /\ q \in LateFigures => row.due = "past"
  /\ q \in RiskFigures => row.due # "later"
  /\ q \in HeldFigures => row.agent \in Staff
  /\ q = <<"workload", "unassigned">> => row.agent = Free
  /\ q = <<"overview", "breached">> => row.breached
  /\ q = <<"overview", "compliant">> => ~row.breached

CountOf(q, R, of) == {t \in Tickets : Counted(q, t, R[t], of)}

LEMMA CountIs == rows \in [Tickets -> DashRows] => \A q \in Figures : Count(q[1], q[2]) = CountOf(q, rows, scope)
<1> SUFFICES ASSUME rows \in [Tickets -> DashRows], NEW q \in Figures PROVE Count(q[1], q[2]) = CountOf(q, rows, scope)
  OBVIOUS
<1>1. \A t \in Tickets : /\ rows[t].status \in TicketStatuses /\ rows[t].critical \in BOOLEAN /\ rows[t].department \in Teams
                         /\ rows[t].agent \in Staff \cup {Free} /\ rows[t].due \in Dues
  BY DEF DashRows
<1>2. CASE q = <<"overview", "total">>
  BY DashboardAssumption, <1>1, <1>2 DEF Count, CountOf, Counted, Overview, Recent, Live, Opened, InScope, By, TicketStatuses,
    SupportFigures, TotalFigures, LateFigures, RiskFigures, ActivityFigures, HeldFigures, OpenFigures
<1>3. CASE q = <<"overview", "byStatus">>
  BY DashboardAssumption, <1>1, <1>3 DEF Count, CountOf, Counted, Overview, Recent, Live, Opened, InScope, By, TicketStatuses,
    SupportFigures, TotalFigures, LateFigures, RiskFigures, ActivityFigures, HeldFigures, OpenFigures
<1>4. CASE q = <<"overview", "open">>
  BY DashboardAssumption, <1>1, <1>4 DEF Count, CountOf, Counted, Overview, Recent, Live, Opened, InScope, By, TicketStatuses,
    SupportFigures, TotalFigures, LateFigures, RiskFigures, ActivityFigures, HeldFigures, OpenFigures
<1>5. CASE q = <<"overview", "breached">>
  BY DashboardAssumption, <1>1, <1>5 DEF Count, CountOf, Counted, Overview, Recent, Live, Opened, InScope, By, TicketStatuses,
    SupportFigures, TotalFigures, LateFigures, RiskFigures, ActivityFigures, HeldFigures, OpenFigures
<1>6. CASE q = <<"overview", "compliant">>
  BY DashboardAssumption, <1>1, <1>6 DEF Count, CountOf, Counted, Overview, Recent, Live, Opened, InScope, By, TicketStatuses,
    SupportFigures, TotalFigures, LateFigures, RiskFigures, ActivityFigures, HeldFigures, OpenFigures
<1>7. CASE q = <<"overview", "atRisk">>
  BY DashboardAssumption, <1>1, <1>7 DEF Count, CountOf, Counted, Overview, Recent, Live, Opened, InScope, By, TicketStatuses,
    SupportFigures, TotalFigures, LateFigures, RiskFigures, ActivityFigures, HeldFigures, OpenFigures
<1>8. CASE q = <<"overview", "overdue">>
  BY DashboardAssumption, <1>1, <1>8 DEF Count, CountOf, Counted, Overview, Recent, Live, Opened, InScope, By, TicketStatuses,
    SupportFigures, TotalFigures, LateFigures, RiskFigures, ActivityFigures, HeldFigures, OpenFigures
<1>9. CASE q = <<"status", "byStatus">>
  BY DashboardAssumption, <1>1, <1>9 DEF Count, CountOf, Counted, TicketsByStatus, Recent, Live, Opened, InScope, By, TicketStatuses,
    SupportFigures, TotalFigures, LateFigures, RiskFigures, ActivityFigures, HeldFigures, OpenFigures
<1>10. CASE q = <<"priority", "byPriority">>
  BY DashboardAssumption, <1>1, <1>10 DEF Count, CountOf, Counted, TicketsByPriority, Recent, Live, Opened, InScope, By, TicketStatuses,
    SupportFigures, TotalFigures, LateFigures, RiskFigures, ActivityFigures, HeldFigures, OpenFigures
<1>11. CASE q = <<"department", "byDepartment">>
  BY DashboardAssumption, <1>1, <1>11 DEF Count, CountOf, Counted, DepartmentsReport, Recent, Live, Opened, InScope, By, TicketStatuses,
    SupportFigures, TotalFigures, LateFigures, RiskFigures, ActivityFigures, HeldFigures, OpenFigures
<1>12. CASE q = <<"workload", "held">>
  BY DashboardAssumption, <1>1, <1>12 DEF Count, CountOf, Counted, Workload, Recent, Live, Opened, InScope, By, TicketStatuses,
    SupportFigures, TotalFigures, LateFigures, RiskFigures, ActivityFigures, HeldFigures, OpenFigures
<1>13. CASE q = <<"workload", "unassigned">>
  BY DashboardAssumption, <1>1, <1>13 DEF Count, CountOf, Counted, Workload, Recent, Live, Opened, InScope, By, TicketStatuses,
    SupportFigures, TotalFigures, LateFigures, RiskFigures, ActivityFigures, HeldFigures, OpenFigures
<1>14. CASE q = <<"workload", "open">>
  BY DashboardAssumption, <1>1, <1>14 DEF Count, CountOf, Counted, Workload, Recent, Live, Opened, InScope, By, TicketStatuses,
    SupportFigures, TotalFigures, LateFigures, RiskFigures, ActivityFigures, HeldFigures, OpenFigures
<1>15. CASE q = <<"compliance", "tracked">>
  BY DashboardAssumption, <1>1, <1>15 DEF Count, CountOf, Counted, Compliance, Recent, Live, Opened, InScope, By, TicketStatuses,
    SupportFigures, TotalFigures, LateFigures, RiskFigures, ActivityFigures, HeldFigures, OpenFigures
<1>16. CASE q = <<"compliance", "byPriority">>
  BY DashboardAssumption, <1>1, <1>16 DEF Count, CountOf, Counted, Compliance, Recent, Live, Opened, InScope, By, TicketStatuses,
    SupportFigures, TotalFigures, LateFigures, RiskFigures, ActivityFigures, HeldFigures, OpenFigures
<1>17. CASE q = <<"compliance", "atRisk">>
  BY DashboardAssumption, <1>1, <1>17 DEF Count, CountOf, Counted, Compliance, Recent, Live, Opened, InScope, By, TicketStatuses,
    SupportFigures, TotalFigures, LateFigures, RiskFigures, ActivityFigures, HeldFigures, OpenFigures
<1>18. CASE q = <<"compliance", "overdue">>
  BY DashboardAssumption, <1>1, <1>18 DEF Count, CountOf, Counted, Compliance, Recent, Live, Opened, InScope, By, TicketStatuses,
    SupportFigures, TotalFigures, LateFigures, RiskFigures, ActivityFigures, HeldFigures, OpenFigures
<1>21. CASE q = <<"support", "tickets">>
  BY DashboardAssumption, <1>1, <1>21 DEF Count, CountOf, Counted, PublicSupport, Recent, Live, Opened, InScope, By, TicketStatuses,
    SupportFigures, TotalFigures, LateFigures, RiskFigures, ActivityFigures, HeldFigures, OpenFigures
<1>22. CASE q = <<"support", "openTickets">>
  BY DashboardAssumption, <1>1, <1>22 DEF Count, CountOf, Counted, PublicSupport, Recent, Live, Opened, InScope, By, TicketStatuses,
    SupportFigures, TotalFigures, LateFigures, RiskFigures, ActivityFigures, HeldFigures, OpenFigures
<1>23. CASE q = <<"support", "byChannel">>
  BY DashboardAssumption, <1>1, <1>23 DEF Count, CountOf, Counted, PublicSupport, Recent, Live, Opened, InScope, By, TicketStatuses,
    SupportFigures, TotalFigures, LateFigures, RiskFigures, ActivityFigures, HeldFigures, OpenFigures
<1>24. CASE q = <<"activity", "mine">>
  BY DashboardAssumption, <1>1, <1>24 DEF Count, CountOf, Counted, MyActivity, Recent, Live, Opened, InScope, By, TicketStatuses,
    SupportFigures, TotalFigures, LateFigures, RiskFigures, ActivityFigures, HeldFigures, OpenFigures
<1>25. CASE q = <<"activity", "openOfMine">>
  BY DashboardAssumption, <1>1, <1>25 DEF Count, CountOf, Counted, MyActivity, Recent, Live, Opened, InScope, By, TicketStatuses,
    SupportFigures, TotalFigures, LateFigures, RiskFigures, ActivityFigures, HeldFigures, OpenFigures
<1> QED
  BY <1>2, <1>3, <1>4, <1>5, <1>6, <1>7, <1>8, <1>9, <1>10, <1>11, <1>12, <1>13, <1>14, <1>15, <1>16, <1>17, <1>18, <1>21, <1>22, <1>23, <1>24, <1>25
  DEF Figures, SupportFigures, TotalFigures, LateFigures, RiskFigures, ActivityFigures, HeldFigures, OpenFigures

LEMMA CountWillBe == (rows \in [Tickets -> DashRows] => \A q \in Figures : Count(q[1], q[2]) = CountOf(q, rows, scope))'
BY CountIs, PTL

Scoped(R, of) == {t \in Tickets : of \in {Everything, R[t].team}}

(* What the counts have to do with each other, of the same rows.             *)
LEMMA PagesAreOfFigures ==
  /\ UNION Groups \subseteq Figures
  /\ \A r \in Parts : r.whole \in Figures /\ r.parts \subseteq Figures
  /\ \A d \in Within : d[1] \in Figures /\ d[2] \in Figures
<1>1. UNION Same \subseteq Figures
  BY DEF Same, Figures, SupportFigures, TotalFigures, LateFigures, RiskFigures, ActivityFigures, HeldFigures, OpenFigures
<1>2. \A r \in Parts : r.whole \in Figures /\ r.parts \subseteq Figures
  BY DEF Parts, Figures, SupportFigures, TotalFigures, LateFigures, RiskFigures, ActivityFigures, HeldFigures, OpenFigures
<1>3. \A d \in Within : d[1] \in Figures /\ d[2] \in Figures
  BY DEF Within, Figures, SupportFigures, TotalFigures, LateFigures, RiskFigures, ActivityFigures, HeldFigures, OpenFigures
<1> QED
  BY <1>1, <1>2, <1>3 DEF Groups

LEMMA CountsAreFinite ==
  ASSUME NEW q, NEW R, NEW of
  PROVE  /\ IsFiniteSet(CountOf(q, R, of)) /\ Cardinality(CountOf(q, R, of)) \in 0 .. Cardinality(Tickets)
         /\ IsFiniteSet(Scoped(R, of)) /\ Cardinality(Scoped(R, of)) \in Nat
BY DashboardAssumption, NoMore DEF CountOf, Scoped

LEMMA SameCounts ==
  ASSUME NEW R \in [Tickets -> DashRows], NEW of, NEW F \in Same, NEW p \in F, NEW q \in F
  PROVE  CountOf(p, R, of) = CountOf(q, R, of)
BY DEF DashRows, Same, CountOf, Counted, SupportFigures, TotalFigures, LateFigures, RiskFigures, ActivityFigures, HeldFigures, OpenFigures

LEMMA PartsAddUp ==
  ASSUME NEW R \in [Tickets -> DashRows], NEW of, NEW r \in Parts, NEW p \in r.parts, NEW q \in r.parts, p # q
  PROVE  Cardinality(CountOf(r.whole, R, of)) = Cardinality(CountOf(p, R, of)) + Cardinality(CountOf(q, R, of))
<1>1. \A t \in Tickets : R[t].agent \in Staff \cup {Free} /\ R[t].breached \in BOOLEAN
  BY DEF DashRows
<1>2. /\ CountOf(r.whole, R, of) = CountOf(p, R, of) \cup CountOf(q, R, of)
      /\ CountOf(p, R, of) \cap CountOf(q, R, of) = {}
  <2>1. CASE r = [whole |-> <<"overview", "open">>, parts |-> {<<"overview", "breached">>, <<"overview", "compliant">>}]
    BY <1>1, <2>1 DEF CountOf, Counted, SupportFigures, TotalFigures, LateFigures, RiskFigures, ActivityFigures, HeldFigures, OpenFigures
  <2>2. CASE r = [whole |-> <<"workload", "open">>, parts |-> {<<"workload", "held">>, <<"workload", "unassigned">>}]
    BY DashboardAssumption, <1>1, <2>2
    DEF CountOf, Counted, SupportFigures, TotalFigures, LateFigures, RiskFigures, ActivityFigures, HeldFigures, OpenFigures
  <2> QED
    BY <2>1, <2>2 DEF Parts
<1>3. /\ IsFiniteSet(CountOf(p, R, of)) /\ Cardinality(CountOf(p, R, of)) \in Nat
      /\ IsFiniteSet(CountOf(q, R, of)) /\ Cardinality(CountOf(q, R, of)) \in Nat
  BY CountsAreFinite
<1>4. /\ Cardinality(CountOf(p, R, of) \cup CountOf(q, R, of))
           = Cardinality(CountOf(p, R, of)) + Cardinality(CountOf(q, R, of)) - Cardinality(CountOf(p, R, of) \cap CountOf(q, R, of))
  BY <1>3, FS_Union
<1>5. Cardinality(CountOf(p, R, of) \cap CountOf(q, R, of)) = 0
  BY <1>2, FS_EmptySet
<1> QED
  BY <1>2, <1>3, <1>4, <1>5

LEMMA WithinCounts ==
  ASSUME NEW R \in [Tickets -> DashRows], NEW of, NEW d \in Within
  PROVE  Cardinality(CountOf(d[1], R, of)) <= Cardinality(CountOf(d[2], R, of))
<1>1. CountOf(d[1], R, of) \subseteq CountOf(d[2], R, of)
  BY DEF DashRows, Within, CountOf, Counted, SupportFigures, TotalFigures, LateFigures, RiskFigures, ActivityFigures, HeldFigures, OpenFigures
<1> QED
  BY <1>1, CountsAreFinite, FS_Subset

LEMMA CountsAreScoped ==
  ASSUME NEW R, NEW of, NEW q \in Figures, q[1] \notin OutOfScope
  PROVE  Cardinality(CountOf(q, R, of)) <= Cardinality(Scoped(R, of))
<1>1. q \notin SupportFigures \cup ActivityFigures
  BY DEF SupportFigures, ActivityFigures, OutOfScope
<1>2. CountOf(q, R, of) \subseteq Scoped(R, of)
  BY <1>1 DEF CountOf, Counted, Scoped
<1> QED
  BY <1>2, CountsAreFinite, FS_Subset

(* A ticket that changes changes a count by one at most.                     *)
LEMMA OneTicket ==
  ASSUME NEW A, IsFiniteSet(A), NEW B, IsFiniteSet(B), NEW t, A \ {t} = B \ {t}
  PROVE  Cardinality(A) <= Cardinality(B) + 1 /\ Cardinality(B) <= Cardinality(A) + 1
<1>1. A \subseteq B \cup {t} /\ B \subseteq A \cup {t}
  OBVIOUS
<1> QED
  BY <1>1, OneMore

LEMMA ChangedCounts ==
  ASSUME NEW R, NEW S, NEW t \in Tickets, \A u \in Tickets \ {t} : R[u] = S[u], NEW of, NEW q
  PROVE  /\ Cardinality(CountOf(q, R, of)) <= Cardinality(CountOf(q, S, of)) + 1
         /\ Cardinality(CountOf(q, S, of)) <= Cardinality(CountOf(q, R, of)) + 1
         /\ Cardinality(Scoped(R, of)) <= Cardinality(Scoped(S, of)) + 1
<1>1. /\ CountOf(q, R, of) \ {t} = CountOf(q, S, of) \ {t}
      /\ Scoped(R, of) \ {t} = Scoped(S, of) \ {t}
  BY DEF CountOf, Scoped, Counted
<1> QED
  BY <1>1, CountsAreFinite, OneTicket

-----------------------------------------------------------------------------
(* A figure as it was read, or as it would be now.                           *)
Shown(q, f, R, of) == IF q \in DOMAIN f THEN f[q] ELSE Cardinality(CountOf(q, R, of))

SameAgree(F, f, R, of, w) == F \in Same => \A p, q \in F : Gap(Shown(p, f, R, of), Shown(q, f, R, of)) <= w
PartsAgree(F, f, R, of, w) ==
  \A r \in Parts : F = {r.whole} \cup r.parts =>
    \A p, q \in r.parts : p # q => Gap(Shown(r.whole, f, R, of), Shown(p, f, R, of) + Shown(q, f, R, of)) <= w
WithinAgree(F, f, R, of, w) ==
  \A d \in Within : F = {d[1], d[2]} => Shown(d[1], f, R, of) <= Shown(d[2], f, R, of) + w
ScopedAgree(f, R, of, w) == \A q \in DOMAIN f : q[1] \notin OutOfScope => f[q] <= Cardinality(Scoped(R, of)) + w

(* The inductive invariant of a page: whatever was read and whatever is not  *)
(* yet read agree already, up to the changes since it was asked.             *)
PageOK(F, f, R, of, w) ==
  /\ F \in Groups \cup {AgentsPage} /\ DOMAIN f \subseteq F /\ \A q \in DOMAIN f : f[q] \in 0 .. Cardinality(Tickets)
  /\ R \in [Tickets -> DashRows] /\ of \in Teams \cup {Everything} /\ w \in 0 .. MaxWrites
  /\ SameAgree(F, f, R, of, w) /\ PartsAgree(F, f, R, of, w) /\ WithinAgree(F, f, R, of, w) /\ ScopedAgree(f, R, of, w)

LEMMA GapWithin == ASSUME NEW x \in Nat, NEW y \in Nat, NEW w \in Nat PROVE Gap(x, y) <= w <=> (x <= y + w /\ y <= x + w)
BY DEF Gap

LEMMA ReadingsAreNat ==
  ASSUME NEW f, \A q \in DOMAIN f : f[q] \in 0 .. Cardinality(Tickets), NEW q, NEW R, NEW of
  PROVE  Shown(q, f, R, of) \in Nat
<1>1. Cardinality(Tickets) \in Nat
  BY DashboardAssumption, FS_CardinalityType
<1> QED
  BY <1>1, CountsAreFinite DEF Shown

(* A page just asked agrees with itself.                                     *)
LEMMA FreshPage ==
  ASSUME NEW F \in Groups \cup {AgentsPage}, NEW R \in [Tickets -> DashRows], NEW of \in Teams \cup {Everything}, NEW f, DOMAIN f = {}
  PROVE  PageOK(F, f, R, of, 0)
<1>1. \A q : Shown(q, f, R, of) = Cardinality(CountOf(q, R, of)) /\ Shown(q, f, R, of) \in Nat
  BY CountsAreFinite DEF Shown
<1>2. SameAgree(F, f, R, of, 0)
  <2> SUFFICES ASSUME F \in Same, NEW p \in F, NEW q \in F PROVE Gap(Shown(p, f, R, of), Shown(q, f, R, of)) <= 0
    BY DEF SameAgree
  <2>1. Shown(p, f, R, of) = Shown(q, f, R, of)
    BY <1>1, SameCounts
  <2> QED
    BY <1>1, <2>1, GapWithin
<1>3. PartsAgree(F, f, R, of, 0)
  <2> SUFFICES ASSUME NEW r \in Parts, NEW p \in r.parts, NEW q \in r.parts, p # q
               PROVE Gap(Shown(r.whole, f, R, of), Shown(p, f, R, of) + Shown(q, f, R, of)) <= 0
    BY DEF PartsAgree
  <2>1. Cardinality(CountOf(r.whole, R, of)) = Cardinality(CountOf(p, R, of)) + Cardinality(CountOf(q, R, of))
    BY PartsAddUp
  <2>2. /\ Shown(r.whole, f, R, of) = Cardinality(CountOf(r.whole, R, of))
        /\ Shown(p, f, R, of) = Cardinality(CountOf(p, R, of)) /\ Shown(p, f, R, of) \in Nat
        /\ Shown(q, f, R, of) = Cardinality(CountOf(q, R, of)) /\ Shown(q, f, R, of) \in Nat
    BY <1>1
  <2>3. Shown(r.whole, f, R, of) = Shown(p, f, R, of) + Shown(q, f, R, of)
    BY <2>1, <2>2
  <2>4. Shown(p, f, R, of) + Shown(q, f, R, of) \in Nat
    BY <2>2
  <2> QED
    BY <2>3, <2>4, GapWithin
<1>4. WithinAgree(F, f, R, of, 0)
  BY <1>1, WithinCounts DEF WithinAgree
<1>5. ScopedAgree(f, R, of, 0)
  BY DEF ScopedAgree
<1> QED
  BY <1>2, <1>3, <1>4, <1>5, DashboardAssumption DEF PageOK

(* Asking for a figure keeps every reading.                                  *)
LEMMA AskedPage ==
  ASSUME NEW F, NEW f, NEW R, NEW of, NEW w, PageOK(F, f, R, of, w), NEW q \in F,
         NEW g, g = [p \in DOMAIN f \cup {q} |-> IF p = q THEN Cardinality(CountOf(q, R, of)) ELSE f[p]], q \notin DOMAIN f
  PROVE  PageOK(F, g, R, of, w)
<1>1. \A p : Shown(p, g, R, of) = Shown(p, f, R, of)
  BY DEF Shown
<1>2. /\ DOMAIN g \subseteq F /\ \A p \in DOMAIN g : g[p] \in 0 .. Cardinality(Tickets)
  BY CountsAreFinite DEF PageOK
<1>3. SameAgree(F, g, R, of, w)
  BY <1>1 DEF PageOK, SameAgree
<1>4. PartsAgree(F, g, R, of, w)
  BY <1>1 DEF PageOK, PartsAgree
<1>5. WithinAgree(F, g, R, of, w)
  BY <1>1 DEF PageOK, WithinAgree
<1>6. ScopedAgree(g, R, of, w)
  <2> SUFFICES ASSUME NEW p \in DOMAIN g, p[1] \notin OutOfScope PROVE g[p] <= Cardinality(Scoped(R, of)) + w
    BY DEF ScopedAgree
  <2>1. CASE p = q
    <3>1. q \in Figures
      BY PagesAreOfFigures DEF PageOK, AgentsPage
    <3>2. g[q] = Cardinality(CountOf(q, R, of)) /\ w \in Nat
      BY DashboardAssumption DEF PageOK
    <3> QED
      BY <2>1, <3>1, <3>2, CountsAreScoped, CountsAreFinite
  <2>2. CASE p # q
    BY <2>2 DEF PageOK, ScopedAgree
  <2> QED
    BY <2>1, <2>2
<1> QED
  BY <1>2, <1>3, <1>4, <1>5, <1>6 DEF PageOK

(* A ticket that changes while the page is read moves a reading by one.      *)
LEMMA OvertakenPage ==
  ASSUME NEW F, NEW f, NEW R, NEW of, NEW w, PageOK(F, f, R, of, w), w < MaxWrites,
         NEW t \in Tickets, NEW S \in [Tickets -> DashRows], \A u \in Tickets \ {t} : R[u] = S[u]
  PROVE  PageOK(F, f, S, of, w + 1)
<1>1. R \in [Tickets -> DashRows]
  BY DEF PageOK
<1>2. w \in Nat /\ w + 1 \in 0 .. MaxWrites
  BY DashboardAssumption DEF PageOK
<1>3. \A q : /\ Shown(q, f, R, of) \in Nat /\ Shown(q, f, S, of) \in Nat
             /\ q \in DOMAIN f => Shown(q, f, S, of) = Shown(q, f, R, of)
             /\ q \notin DOMAIN f => /\ Shown(q, f, R, of) = Cardinality(CountOf(q, R, of))
                                     /\ Shown(q, f, S, of) = Cardinality(CountOf(q, S, of))
  BY ReadingsAreNat DEF Shown, PageOK
<1>4. \A q : /\ Shown(q, f, R, of) <= Shown(q, f, S, of) + 1
             /\ Shown(q, f, S, of) <= Shown(q, f, R, of) + 1
  <2> SUFFICES ASSUME NEW q PROVE /\ Shown(q, f, R, of) <= Shown(q, f, S, of) + 1
                                  /\ Shown(q, f, S, of) <= Shown(q, f, R, of) + 1
    OBVIOUS
  <2>1. CASE q \in DOMAIN f
    <3>1. Shown(q, f, S, of) = Shown(q, f, R, of) /\ Shown(q, f, R, of) \in Nat
      BY <1>3, <2>1
    <3> QED
      BY <3>1
  <2>2. CASE q \notin DOMAIN f
    <3>1. /\ Cardinality(CountOf(q, R, of)) <= Cardinality(CountOf(q, S, of)) + 1
          /\ Cardinality(CountOf(q, S, of)) <= Cardinality(CountOf(q, R, of)) + 1
      BY <1>1, ChangedCounts
    <3> QED
      BY <1>3, <2>2, <3>1
  <2> QED
    BY <2>1, <2>2
<1>5. SameAgree(F, f, S, of, w + 1)
  <2> SUFFICES ASSUME F \in Same, NEW p \in F, NEW q \in F PROVE Gap(Shown(p, f, S, of), Shown(q, f, S, of)) <= w + 1
    BY DEF SameAgree
  <2>1. Gap(Shown(p, f, R, of), Shown(q, f, R, of)) <= w
    BY DEF PageOK, SameAgree
  <2>2. PICK x \in Nat, y \in Nat, v \in Nat, z \in Nat :
          /\ x = Shown(p, f, R, of) /\ y = Shown(q, f, R, of) /\ v = Shown(p, f, S, of) /\ z = Shown(q, f, S, of)
    BY <1>3
  <2>3. x <= y + w /\ y <= x + w
    BY <1>2, <2>1, <2>2, GapWithin
  <2>4. x <= v + 1 /\ v <= x + 1 /\ y <= z + 1 /\ z <= y + 1
    BY <1>4, <2>2
  <2>5. CASE p \in DOMAIN f \/ q \in DOMAIN f
    <3>1. v = x \/ z = y
      BY <1>3, <2>2, <2>5
    <3>2. v <= z + (w + 1) /\ z <= v + (w + 1)
      BY <1>2, <2>3, <2>4, <3>1
    <3> QED
      BY <1>2, <2>2, <3>2, GapWithin
  <2>6. CASE p \notin DOMAIN f /\ q \notin DOMAIN f
    <3>1. CountOf(p, S, of) = CountOf(q, S, of)
      BY SameCounts
    <3>2. v = z
      BY <1>3, <2>2, <2>6, <3>1
    <3> QED
      BY <1>2, <2>2, <3>2, GapWithin
  <2> QED
    BY <2>5, <2>6
<1>6. PartsAgree(F, f, S, of, w + 1)
  <2> SUFFICES ASSUME NEW d \in Parts, F = {d.whole} \cup d.parts, NEW p \in d.parts, NEW q \in d.parts, p # q
               PROVE Gap(Shown(d.whole, f, S, of), Shown(p, f, S, of) + Shown(q, f, S, of)) <= w + 1
    BY DEF PartsAgree
  <2>1. Gap(Shown(d.whole, f, R, of), Shown(p, f, R, of) + Shown(q, f, R, of)) <= w
    BY DEF PageOK, PartsAgree
  <2>2. PICK a \in Nat, x \in Nat, y \in Nat, b \in Nat, v \in Nat, z \in Nat :
          /\ a = Shown(d.whole, f, R, of) /\ x = Shown(p, f, R, of) /\ y = Shown(q, f, R, of)
          /\ b = Shown(d.whole, f, S, of) /\ v = Shown(p, f, S, of) /\ z = Shown(q, f, S, of)
    BY <1>3
  <2>3. a <= (x + y) + w /\ x + y <= a + w
    <3>1. x + y \in Nat /\ Gap(a, x + y) <= w
      BY <2>1, <2>2
    <3> QED
      BY <1>2, <3>1, GapWithin
  <2>4. /\ a <= b + 1 /\ b <= a + 1 /\ x <= v + 1 /\ v <= x + 1 /\ y <= z + 1 /\ z <= y + 1
        /\ d.whole \in DOMAIN f => b = a
        /\ p \in DOMAIN f => v = x
        /\ q \in DOMAIN f => z = y
    BY <1>3, <1>4, <2>2
  <2>5. PICK k \in Nat, l \in Nat, m \in Nat, n \in Nat, i \in Nat, j \in Nat :
          /\ k = Cardinality(CountOf(d.whole, R, of)) /\ l = Cardinality(CountOf(p, R, of)) /\ m = Cardinality(CountOf(q, R, of))
          /\ n = Cardinality(CountOf(d.whole, S, of)) /\ i = Cardinality(CountOf(p, S, of)) /\ j = Cardinality(CountOf(q, S, of))
    <3>1. \A A, B : Cardinality(CountOf(A, B, of)) \in Nat
      BY CountsAreFinite
    <3> QED
      BY <3>1
  <2>6. k = l + m /\ n = i + j
    <3>1. /\ Cardinality(CountOf(d.whole, R, of)) = Cardinality(CountOf(p, R, of)) + Cardinality(CountOf(q, R, of))
          /\ Cardinality(CountOf(d.whole, S, of)) = Cardinality(CountOf(p, S, of)) + Cardinality(CountOf(q, S, of))
      BY <1>1, PartsAddUp
    <3> QED
      BY <2>5, <3>1
  <2>7. k <= n + 1 /\ n <= k + 1 /\ l <= i + 1 /\ i <= l + 1 /\ m <= j + 1 /\ j <= m + 1
    BY <1>1, <2>5, ChangedCounts
  <2>8. /\ d.whole \notin DOMAIN f => a = k /\ b = n
        /\ p \notin DOMAIN f => x = l /\ v = i
        /\ q \notin DOMAIN f => y = m /\ z = j
    BY <1>3, <2>2, <2>5
  <2>9. b <= (v + z) + (w + 1) /\ v + z <= b + (w + 1)
    BY <1>2, <2>3, <2>4, <2>6, <2>7, <2>8
  <2>10. Gap(b, v + z) <= w + 1
    BY <1>2, <2>9, GapWithin
  <2> QED
    BY <2>2, <2>10
<1>7. WithinAgree(F, f, S, of, w + 1)
  <2> SUFFICES ASSUME NEW d \in Within, F = {d[1], d[2]}
               PROVE Shown(d[1], f, S, of) <= Shown(d[2], f, S, of) + (w + 1)
    BY DEF WithinAgree
  <2>1. Shown(d[1], f, R, of) <= Shown(d[2], f, R, of) + w
    BY DEF PageOK, WithinAgree
  <2>2. PICK x \in Nat, y \in Nat, v \in Nat, z \in Nat :
          /\ x = Shown(d[1], f, R, of) /\ y = Shown(d[2], f, R, of) /\ v = Shown(d[1], f, S, of) /\ z = Shown(d[2], f, S, of)
    BY <1>3
  <2>3. x <= y + w /\ x <= v + 1 /\ v <= x + 1 /\ y <= z + 1 /\ z <= y + 1
    BY <1>4, <2>1, <2>2
  <2>4. CASE d[1] \in DOMAIN f \/ d[2] \in DOMAIN f
    <3>1. v = x \/ z = y
      BY <1>3, <2>2, <2>4
    <3> QED
      BY <1>2, <2>2, <2>3, <3>1
  <2>5. CASE d[1] \notin DOMAIN f /\ d[2] \notin DOMAIN f
    <3>1. Cardinality(CountOf(d[1], S, of)) <= Cardinality(CountOf(d[2], S, of))
      BY <1>1, WithinCounts
    <3>2. v <= z
      BY <1>3, <2>2, <2>5, <3>1
    <3> QED
      BY <1>2, <2>2, <3>2
  <2> QED
    BY <2>4, <2>5
<1>8. ScopedAgree(f, S, of, w + 1)
  <2> SUFFICES ASSUME NEW q \in DOMAIN f, q[1] \notin OutOfScope PROVE f[q] <= Cardinality(Scoped(S, of)) + (w + 1)
    BY DEF ScopedAgree
  <2>1. f[q] <= Cardinality(Scoped(R, of)) + w
    BY DEF PageOK, ScopedAgree
  <2>2. Cardinality(Scoped(R, of)) <= Cardinality(Scoped(S, of)) + 1
    BY <1>1, ChangedCounts
  <2>3. Cardinality(Scoped(R, of)) \in Nat /\ Cardinality(Scoped(S, of)) \in Nat /\ f[q] \in Nat
    <3>1. Cardinality(Tickets) \in Nat
      BY DashboardAssumption, FS_CardinalityType
    <3> QED
      BY <3>1, CountsAreFinite DEF PageOK
  <2> QED
    BY <1>2, <2>1, <2>2, <2>3
<1> QED
  BY <1>1, <1>2, <1>5, <1>6, <1>7, <1>8 DEF PageOK

-----------------------------------------------------------------------------
AgentLine == [agent: Staff, team: Teams, opened: 0 .. Cardinality(Tickets), reopened: Nat \cup {Unread}]
HeldBy(g, R, of) == {t \in Tickets : R[t].agent = g /\ of \in {Everything, R[t].team}}

LinesOK ==
  /\ lines \subseteq AgentLine
  /\ writes = 0 => {l.agent : l \in lines} \subseteq {rows[t].agent : t \in Live}
  /\ reopenings \subseteq Tickets \X (0 .. MaxWrites)
  /\ OneLinePerAgent
  /\ \A l \in lines : l.opened <= Cardinality(HeldBy(l.agent, rows, scope)) + writes

DashInv == PageOK(followed, figures, rows, scope, writes) /\ LinesOK

LEMMA DashHolds == DashInv => DashTypeOK /\ FiguresAgree /\ ScopeHolds /\ OneLinePerAgent
<1> SUFFICES ASSUME DashInv PROVE DashTypeOK /\ FiguresAgree /\ ScopeHolds /\ OneLinePerAgent
  OBVIOUS
<1>1. DashTypeOK /\ OneLinePerAgent
  BY DEF DashInv, PageOK, LinesOK, DashTypeOK, DashRows, AgentLine
<1>2. ScopeHolds
  BY DEF DashInv, PageOK, ScopedAgree, ScopeHolds, Scoped, LinesOK, HeldBy, HeldInScope
<1>3. FiguresAgree
  <2> SUFFICES ASSUME DOMAIN figures = followed PROVE FiguresAgree
    BY DEF FiguresAgree
  <2>1. \A q \in followed : Shown(q, figures, rows, scope) = figures[q]
    BY DEF Shown
  <2>2. followed \in Same => \A p, q \in followed : Gap(figures[p], figures[q]) <= writes
    BY <2>1 DEF DashInv, PageOK, SameAgree
  <2>3. ASSUME NEW r \in Parts, followed = {r.whole} \cup r.parts, NEW p \in r.parts, NEW q \in r.parts, p # q
        PROVE  Gap(figures[r.whole], figures[p] + figures[q]) <= writes
    <3>1. /\ Shown(r.whole, figures, rows, scope) = figures[r.whole]
          /\ Shown(p, figures, rows, scope) = figures[p] /\ Shown(q, figures, rows, scope) = figures[q]
      BY <2>1, <2>3
    <3>2. Gap(Shown(r.whole, figures, rows, scope), Shown(p, figures, rows, scope) + Shown(q, figures, rows, scope)) <= writes
      BY <2>3 DEF DashInv, PageOK, PartsAgree
    <3> QED
      BY <3>1, <3>2
  <2>4. ASSUME NEW d \in Within, followed = {d[1], d[2]} PROVE figures[d[1]] <= figures[d[2]] + writes
    <3>1. Shown(d[1], figures, rows, scope) = figures[d[1]] /\ Shown(d[2], figures, rows, scope) = figures[d[2]]
      BY <2>1, <2>4
    <3>2. Shown(d[1], figures, rows, scope) <= Shown(d[2], figures, rows, scope) + writes
      BY <2>4 DEF DashInv, PageOK, WithinAgree
    <3> QED
      BY <3>1, <3>2
  <2> QED
    BY <2>2, <2>3, <2>4 DEF FiguresAgree
<1> QED
  BY <1>1, <1>2, <1>3

LEMMA DashInitHolds == DashInit => DashInv
<1> SUFFICES ASSUME DashInit PROVE DashInv
  OBVIOUS
<1>1. rows \in [Tickets -> DashRows]
  <2>1. /\ {"OPEN"} \subseteq TicketStatuses /\ {FALSE} \subseteq BOOLEAN /\ {TRUE} \subseteq BOOLEAN /\ {"later"} \subseteq Dues
    BY DEF TicketStatuses, Dues
  <2> QED
    BY <2>1 DEF DashInit, DashRows
<1>2. DOMAIN figures = {}
  BY DEF DashInit
<1>3. PageOK(followed, figures, rows, scope, 0)
  BY <1>1, <1>2, FreshPage DEF DashInit
<1>4. LinesOK
  BY DEF DashInit, LinesOK, OneLinePerAgent
<1> QED
  BY <1>3, <1>4 DEF DashInv, DashInit

LEMMA LinesKept ==
  DashInv /\ rows' = rows /\ scope' = scope /\ lines' = lines /\ writes' = writes /\ reopenings' = reopenings => LinesOK'
BY DEF DashInv, LinesOK, OneLinePerAgent, Live, InScope

LEMMA NoLines == lines' = {} /\ reopenings' \subseteq Tickets \X (0 .. MaxWrites) => LinesOK'
BY DEF LinesOK, OneLinePerAgent

(* A ticket that changes hands moves the tickets an agent holds by one.      *)
LEMMA HeldByOne ==
  ASSUME NEW R, NEW S, NEW t \in Tickets, \A u \in Tickets \ {t} : R[u] = S[u], NEW of, NEW g
  PROVE  /\ Cardinality(HeldBy(g, R, of)) \in Nat /\ Cardinality(HeldBy(g, S, of)) \in Nat
         /\ Cardinality(HeldBy(g, R, of)) <= Cardinality(HeldBy(g, S, of)) + 1
<1>1. HeldBy(g, R, of) \ {t} = HeldBy(g, S, of) \ {t}
  BY DEF HeldBy
<1>2. HeldBy(g, R, of) \subseteq Tickets /\ HeldBy(g, S, of) \subseteq Tickets
  BY DEF HeldBy
<1>3. /\ IsFiniteSet(HeldBy(g, R, of)) /\ Cardinality(HeldBy(g, R, of)) \in Nat
      /\ IsFiniteSet(HeldBy(g, S, of)) /\ Cardinality(HeldBy(g, S, of)) \in Nat
  BY <1>2, NoMore, DashboardAssumption
<1> QED
  BY <1>1, <1>3, OneTicket

(* The table of agents has a line for each agent with tickets in scope.      *)
LEMMA FirstRowsOf ==
  ASSUME rows \in [Tickets -> DashRows], NEW g \in Staff
  PROVE  /\ FirstRows(g) \subseteq AgentLine
         /\ \A k \in FirstRows(g) : k.agent = g /\ \E t \in Live : rows[t].agent = g
         /\ \A k \in FirstRows(g) : k.opened <= Cardinality(HeldBy(g, rows, scope))
         /\ \A k, l \in FirstRows(g) : k = l
         /\ (\E t \in Live : rows[t].agent = g) => FirstRows(g) # {}
<1>1. CASE TeamsOf(g) = {}
  BY <1>1 DEF FirstRows, TeamsOf
<1>2. CASE TeamsOf(g) # {}
  <2>1. PICK team \in TeamsOf(g) :
          FirstRows(g) = {[agent |-> g, team |-> team, opened |-> OpenOf(g, team), reopened |-> Unread]}
    BY <1>2 DEF FirstRows
  <2>2. team \in Teams /\ \E t \in Live : rows[t].agent = g
    BY <2>1 DEF TeamsOf, Live, DashRows
  <2>3. OpenOf(g, team) \in 0 .. Cardinality(Tickets) /\ OpenOf(g, team) <= Cardinality(HeldBy(g, rows, scope))
    <3> DEFINE Its == {t \in Opened : rows[t].agent = g /\ rows[t].team = team}
    <3>1. Its \subseteq HeldBy(g, rows, scope) /\ HeldBy(g, rows, scope) \subseteq Tickets /\ Its \subseteq Tickets
      BY DEF Opened, Live, InScope, HeldBy
    <3>2. /\ IsFiniteSet(HeldBy(g, rows, scope)) /\ Cardinality(HeldBy(g, rows, scope)) \in Nat
          /\ Cardinality(Its) \in 0 .. Cardinality(Tickets)
      BY <3>1, NoMore, DashboardAssumption
    <3>3. Cardinality(Its) <= Cardinality(HeldBy(g, rows, scope))
      BY <3>1, <3>2, FS_Subset
    <3> QED
      BY <3>2, <3>3 DEF OpenOf
  <2> QED
    BY <2>1, <2>2, <2>3 DEF AgentLine
<1> QED
  BY <1>1, <1>2

LEMMA AgentLines ==
  rows \in [Tickets -> DashRows] => LET all == UNION {FirstRows(g) : g \in Staff} IN
    /\ all \subseteq AgentLine
    /\ \A l \in all : l.opened <= Cardinality(HeldBy(l.agent, rows, scope))
    /\ {l.agent : l \in all} \subseteq {rows[t].agent : t \in Live}
    /\ \A k, l \in all : k.agent = l.agent => k = l
    /\ \A t \in Live : rows[t].agent # Free => \E l \in all : l.agent = rows[t].agent
<1> SUFFICES ASSUME rows \in [Tickets -> DashRows], NEW all, all = UNION {FirstRows(g) : g \in Staff}
    PROVE /\ all \subseteq AgentLine
          /\ \A l \in all : l.opened <= Cardinality(HeldBy(l.agent, rows, scope))
          /\ {l.agent : l \in all} \subseteq {rows[t].agent : t \in Live}
          /\ \A k, l \in all : k.agent = l.agent => k = l
          /\ \A t \in Live : rows[t].agent # Free => \E l \in all : l.agent = rows[t].agent
  OBVIOUS
<1>1. \A k \in all : \E g \in Staff : k \in FirstRows(g)
  OBVIOUS
<1>2. all \subseteq AgentLine /\ \A l \in all : l.opened <= Cardinality(HeldBy(l.agent, rows, scope))
  BY <1>1, FirstRowsOf
<1>3. {l.agent : l \in all} \subseteq {rows[t].agent : t \in Live}
  BY <1>1, FirstRowsOf
<1>4. \A k, l \in all : k.agent = l.agent => k = l
  BY <1>1, FirstRowsOf
<1>5. ASSUME NEW t \in Live, rows[t].agent # Free PROVE \E l \in all : l.agent = rows[t].agent
  <2>1. rows[t].agent \in Staff
    BY <1>5 DEF Live, DashRows
  <2>2. FirstRows(rows[t].agent) # {} /\ \A k \in FirstRows(rows[t].agent) : k.agent = rows[t].agent
    BY <2>1, FirstRowsOf
  <2> QED
    BY <2>1, <2>2
<1> QED
  BY <1>2, <1>3, <1>4, <1>5

LEMMA ChangesKeepTypes == ASSUME NEW row \in DashRows, NEW r \in Changes(row) PROVE r \in DashRows
<1> DEFINE Status == {[row EXCEPT !.status = s] : s \in NextStatuses(row.status)}
           Late == {[row EXCEPT !.due = d] : d \in Dues}
           Flags == {[row EXCEPT !.critical = ~@], [row EXCEPT !.breached = ~@], [row EXCEPT !.deleted = TRUE]}
           Rerouted == {Routed(row, g, team) : g \in Staff \cup {Free}, team \in Teams}
<1>1. Changes(row) = Status \cup Late \cup Flags \cup Rerouted
  BY DEF Changes
<1>2. Status \subseteq DashRows /\ Late \subseteq DashRows
  <2>1. NextStatuses(row.status) \subseteq TicketStatuses
    BY DEF NextStatuses, TicketStatuses
  <2> QED
    BY <2>1 DEF DashRows
<1>3. Flags \subseteq DashRows
  BY DEF DashRows
<1>4. Rerouted \subseteq DashRows
  <2>1. ASSUME NEW g \in Staff \cup {Free}, NEW team \in Teams PROVE Routed(row, g, team) \in DashRows
    BY DEF DashRows, Routed
  <2> QED
    BY <2>1
<1> HIDE DEF Status, Late, Flags, Rerouted
<1> QED
  BY <1>1, <1>2, <1>3, <1>4

LEMMA DashStepHolds == DashInv /\ [DashNext]_dashVars => DashInv'
<1> SUFFICES ASSUME DashInv, [DashNext]_dashVars PROVE DashInv'
  OBVIOUS
<1>1. PageOK(followed, figures, rows, scope, writes) /\ rows \in [Tickets -> DashRows]
  BY DEF DashInv, PageOK
<1>2. ASSUME NEW q \in followed, Ask(q) PROVE DashInv'
  <2>1. Count(q[1], q[2]) = CountOf(q, rows, scope)
    <3>1. followed \in Groups
      BY <1>1, <1>2 DEF PageOK, AgentsPage
    <3>2. q \in Figures
      BY <3>1, PagesAreOfFigures
    <3> QED
      BY <1>1, <3>2, CountIs
  <2>2. /\ q \notin DOMAIN figures
        /\ figures' = [p \in DOMAIN figures \cup {q} |-> IF p = q THEN Cardinality(CountOf(q, rows, scope)) ELSE figures[p]]
    BY <1>2, <2>1 DEF Ask
  <2>3. PageOK(followed, figures', rows, scope, writes)
    BY <1>1, <2>2, AskedPage
  <2>4. LinesOK'
    BY <1>2, LinesKept DEF Ask
  <2> QED
    BY <1>2, <2>3, <2>4 DEF Ask, DashInv
<1>3. CASE AgentPerformance
  <2>1. LinesOK'
    <3>1. /\ rows' = rows /\ scope' = scope /\ Live' = Live /\ lines' = UNION {FirstRows(g) : g \in Staff}
          /\ writes' = 0 /\ reopenings' = reopenings
      BY <1>3 DEF AgentPerformance, Live, InScope
    <3>2. /\ lines' \subseteq AgentLine
          /\ {l.agent : l \in lines'} \subseteq {rows[t].agent : t \in Live}
          /\ \A k, l \in lines' : k.agent = l.agent => k = l
          /\ \A t \in Live : rows[t].agent # Free => \E l \in lines' : l.agent = rows[t].agent
          /\ \A l \in lines' : l.opened <= Cardinality(HeldBy(l.agent, rows, scope))
      BY <1>1, <3>1, AgentLines
    <3>3. \A l \in lines' : l.opened <= Cardinality(HeldBy(l.agent, rows, scope)) + 0
      <4>1. \A l \in lines' : l.opened \in Nat /\ Cardinality(HeldBy(l.agent, rows, scope)) \in Nat
        <5>1. ASSUME NEW g PROVE Cardinality(HeldBy(g, rows, scope)) \in Nat
          <6>1. HeldBy(g, rows, scope) \subseteq Tickets
            BY DEF HeldBy
          <6> QED
            BY <6>1, NoMore, DashboardAssumption
        <5>2. Cardinality(Tickets) \in Nat
          BY DashboardAssumption, FS_CardinalityType
        <5> QED
          BY <3>2, <5>1, <5>2 DEF AgentLine
      <4> QED
        BY <3>2, <4>1
    <3>4. reopenings \subseteq Tickets \X (0 .. MaxWrites)
      BY DEF DashInv, LinesOK
    <3> QED
      BY <3>1, <3>2, <3>3, <3>4 DEF LinesOK, OneLinePerAgent
  <2> QED
    BY <1>1, <1>3, <2>1 DEF AgentPerformance, DashInv
<1>7. CASE CountReopenings
  <2>1. /\ rows' = rows /\ scope' = scope /\ Live' = Live /\ writes' = writes /\ reopenings' = reopenings
        /\ lines' = {[l EXCEPT !.reopened = Cardinality(ReopeningsOf(l.agent))] : l \in lines}
    BY <1>7 DEF CountReopenings, Live, InScope
  <2>2. \A g : Cardinality(ReopeningsOf(g)) \in Nat
    <3> SUFFICES ASSUME NEW g PROVE Cardinality(ReopeningsOf(g)) \in Nat
      OBVIOUS
    <3>1. ReopeningsOf(g) \subseteq Tickets \X (0 .. MaxWrites)
      BY DEF ReopeningsOf, DashInv, LinesOK
    <3>2. IsFiniteSet(Tickets) /\ IsFiniteSet(0 .. MaxWrites)
      BY DashboardAssumption, FS_Interval
    <3>3. IsFiniteSet(Tickets \X (0 .. MaxWrites))
      BY <3>2, FS_Product
    <3> QED
      BY <3>1, <3>3, FS_Subset, FS_CardinalityType
  <2>3. ASSUME NEW l \in lines
        PROVE  LET n == [l EXCEPT !.reopened = Cardinality(ReopeningsOf(l.agent))] IN
               n \in AgentLine /\ n.agent = l.agent /\ n.opened = l.opened
    <3>1. l \in AgentLine
      BY DEF DashInv, LinesOK
    <3> QED
      BY <2>2, <3>1 DEF AgentLine
  <2>4. \A n \in lines' : n \in AgentLine /\ \E l \in lines : n.agent = l.agent /\ n.opened = l.opened
    BY <2>1, <2>3
  <2>5. \A l \in lines : \E n \in lines' : n.agent = l.agent
    BY <2>1, <2>3
  <2>6. \A k, n \in lines' : k.agent = n.agent => k = n
    <3> SUFFICES ASSUME NEW k \in lines', NEW n \in lines', k.agent = n.agent PROVE k = n
      OBVIOUS
    <3>1. PICK l \in lines, m \in lines :
            /\ k = [l EXCEPT !.reopened = Cardinality(ReopeningsOf(l.agent))]
            /\ n = [m EXCEPT !.reopened = Cardinality(ReopeningsOf(m.agent))]
      BY <2>1
    <3>2. l.agent = m.agent
      BY <2>3, <3>1
    <3>3. l = m
      BY <3>2 DEF DashInv, LinesOK, OneLinePerAgent
    <3> QED
      BY <3>1, <3>3
  <2>7. LinesOK'
    <3>1. lines' \subseteq AgentLine
      BY <2>4
    <3>2. writes = 0 => {l.agent : l \in lines'} \subseteq {rows[t].agent : t \in Live}
      BY <2>4 DEF DashInv, LinesOK
    <3>3. \A n \in lines' : n.opened <= Cardinality(HeldBy(n.agent, rows, scope)) + writes
      BY <2>4 DEF DashInv, LinesOK
    <3>4. lines' # {} /\ writes = 0 => \A t \in Live : rows[t].agent # Free => \E l \in lines' : l.agent = rows[t].agent
      <4> SUFFICES ASSUME lines' # {}, writes = 0, NEW t \in Live, rows[t].agent # Free
                   PROVE  \E l \in lines' : l.agent = rows[t].agent
        OBVIOUS
      <4>1. lines # {}
        BY <2>4
      <4>2. PICK l \in lines : l.agent = rows[t].agent
        BY <4>1 DEF DashInv, LinesOK, OneLinePerAgent
      <4> QED
        BY <2>5, <4>2
    <3>5. reopenings \subseteq Tickets \X (0 .. MaxWrites)
      BY DEF DashInv, LinesOK
    <3> QED
      <4>1. OneLinePerAgent'
        BY <2>1, <2>6, <3>4 DEF OneLinePerAgent
      <4>2. (\A n \in lines : n.opened <= Cardinality(HeldBy(n.agent, rows, scope)) + writes)'
        BY <2>1, <3>3
      <4>3. (writes = 0 => {l.agent : l \in lines} \subseteq {rows[t].agent : t \in Live})'
        BY <2>1, <3>2
      <4>4. (lines \subseteq AgentLine /\ reopenings \subseteq Tickets \X (0 .. MaxWrites))'
        BY <2>1, <3>1, <3>5
      <4> QED
        BY <4>1, <4>2, <4>3, <4>4 DEF LinesOK
  <2> QED
    BY <1>1, <1>7, <2>1, <2>7 DEF CountReopenings, DashInv
<1>4. ASSUME NEW t \in Tickets, ChangeTicket(t) PROVE DashInv'
  <2>1. rows[t] \in DashRows
    BY <1>1
  <2>2. PICK r \in Changes(rows[t]) :
          /\ rows' = [rows EXCEPT ![t] = r]
          /\ reopenings' = IF rows[t].status # "OPEN" /\ r.status = "OPEN" THEN reopenings \cup {<<t, writes'>>} ELSE reopenings
    BY <1>4 DEF ChangeTicket
  <2>3. r \in DashRows
    BY <2>1, ChangesKeepTypes
  <2>4. rows' \in [Tickets -> DashRows] /\ \A u \in Tickets \ {t} : rows[u] = rows'[u]
    BY <1>1, <2>2, <2>3
  <2>5. writes < MaxWrites
    BY <1>4 DEF ChangeTicket
  <2>6. PageOK(followed, figures, rows', scope, writes + 1)
    BY <1>1, <2>4, <2>5, OvertakenPage
  <2>7. writes \in Nat /\ writes' = writes + 1 /\ writes' \in 0 .. MaxWrites /\ scope' = scope /\ lines' = lines
    BY <1>1, <1>4, <2>5, DashboardAssumption DEF ChangeTicket, PageOK
  <2>8. reopenings' \subseteq Tickets \X (0 .. MaxWrites)
    BY <2>2, <2>7 DEF DashInv, LinesOK
  <2>9. ASSUME NEW l \in lines PROVE l.opened <= Cardinality(HeldBy(l.agent, rows', scope)) + (writes + 1)
    <3>1. l.opened \in Nat /\ l.opened <= Cardinality(HeldBy(l.agent, rows, scope)) + writes
      <4>1. l \in AgentLine
        BY DEF DashInv, LinesOK
      <4>2. Cardinality(Tickets) \in Nat
        BY DashboardAssumption, FS_CardinalityType
      <4> QED
        BY <4>1, <4>2 DEF DashInv, LinesOK, AgentLine
    <3>2. PICK R : R = rows'
      OBVIOUS
    <3>3. /\ Cardinality(HeldBy(l.agent, rows, scope)) \in Nat /\ Cardinality(HeldBy(l.agent, R, scope)) \in Nat
          /\ Cardinality(HeldBy(l.agent, rows, scope)) <= Cardinality(HeldBy(l.agent, R, scope)) + 1
      BY <2>4, <3>2, HeldByOne
    <3>4. l.opened <= Cardinality(HeldBy(l.agent, R, scope)) + (writes + 1)
      BY <2>7, <3>1, <3>3
    <3> QED
      BY <3>2, <3>4
  <2>10. LinesOK'
    <3>1. lines \subseteq AgentLine /\ writes' # 0
      BY <2>7 DEF DashInv, LinesOK
    <3>2. \A k, l \in lines : k.agent = l.agent => k = l
      BY DEF DashInv, LinesOK, OneLinePerAgent
    <3> QED
      BY <2>7, <2>8, <2>9, <3>1, <3>2 DEF LinesOK, OneLinePerAgent
  <2> QED
    BY <1>4, <2>6, <2>10 DEF ChangeTicket, DashInv
<1>5. ASSUME NEW t \in Tickets, OldTicket(t) PROVE DashInv'
  <2>1. rows[t] \in DashRows
    BY <1>1
  <2>2. PICK s \in {"OPEN", "RESOLVED"} : rows' = [rows EXCEPT ![t].recent = FALSE, ![t].status = s]
    BY <1>5 DEF OldTicket
  <2>3. rows' \in [Tickets -> DashRows]
    BY <1>1, <2>1, <2>2 DEF DashRows, TicketStatuses
  <2>4. DOMAIN figures = {} /\ writes = 0
    BY <1>5 DEF OldTicket
  <2>5. PageOK(followed, figures, rows', scope, 0)
    BY <1>1, <2>3, <2>4, FreshPage DEF PageOK
  <2>6. LinesOK'
    BY <1>5, NoLines DEF OldTicket, DashInv, LinesOK
  <2> QED
    BY <1>5, <2>4, <2>5, <2>6 DEF OldTicket, DashInv
<1>8. ASSUME NEW t \in Tickets, EarlierReopening(t) PROVE DashInv'
  <2>1. reopenings' = reopenings \cup {<<t, 0>>} /\ reopenings \subseteq Tickets \X (0 .. MaxWrites) /\ 0 \in 0 .. MaxWrites
    BY <1>8, DashboardAssumption DEF EarlierReopening, DashInv, LinesOK
  <2>2. LinesOK'
    BY <1>8, <2>1, NoLines DEF EarlierReopening
  <2> QED
    BY <1>1, <1>8, <2>2 DEF EarlierReopening, DashInv
<1>6. CASE UNCHANGED dashVars
  BY <1>1, <1>6, LinesKept DEF dashVars, DashInv
<1> QED
  BY <1>2, <1>3, <1>4, <1>5, <1>6, <1>7, <1>8 DEF DashNext

-----------------------------------------------------------------------------
(* Migrations.  The schema is what it was at first, or the latest with a     *)
(* journal that says so; what a baseline may journal is fixed by the schema. *)

MostJournaled(n) == IF n = PublicExpand THEN PublicBackfill ELSE n
NoGap(n) == (\E m \in Once : m >= n /\ m < born) => n = LatestBaseline /\ born \in LatestBaseline + 1 .. DropsTokens
DeploySteps == {"start", "journal", "insert", "read", "run", "done", "failed"}

MigrationVarsOK ==
  /\ applied \in 0 .. Latest /\ born \in 0 .. applied
  /\ journal \in 0 .. MostJournaled(applied)
  /\ unfilled \in 0 .. MaxOldRows + 1 /\ late \in 0 .. MaxOldRows
  /\ tokens \in BOOLEAN
  /\ deployment \in [Deployments -> [step: DeploySteps, count: 0 .. Latest]]

SchemaAgrees ==
  /\ applied = born \/ (applied = Latest /\ journal = Latest)
  /\ journal > 0 /\ applied = born => NoGap(journal)
  /\ tokens => applied <= DropsTokens
  /\ unfilled <= late + 1
  /\ journal >= PublicBackfill => unfilled <= late

(* What a deployment found holds until it acts on it.                        *)
DeployAgrees(w) ==
  /\ w.step \in {"journal", "insert", "run"} => w.count <= MostJournaled(applied)
  /\ w.step \in {"journal", "insert"} => w.count <= MostJournaled(born) /\ NoGap(w.count)
  /\ w.step \in {"journal", "insert", "run"} /\ w.count >= PublicBackfill => unfilled <= late

MigrationsInv ==
  /\ MigrationVarsOK /\ SchemaAgrees
  /\ \A d \in Deployments : DeployAgrees(deployment[d])

LEMMA MigrationsInitHolds == MigrationsInit => MigrationsInv
<1> SUFFICES ASSUME MigrationsInit PROVE MigrationsInv
  OBVIOUS
<1> USE MigrationsAssumption DEF Latest, PublicExpand, PublicBackfill, DropsTokens, LatestBaseline
<1>1. MigrationVarsOK
  <2>1. deployment \in [Deployments -> [step: DeploySteps, count: 0 .. Latest]]
    BY DEF MigrationsInit, NotDeploying, DeploySteps
  <2> QED
    BY <2>1 DEF MigrationsInit, MigrationVarsOK, MostJournaled
<1>2. SchemaAgrees
  <2>1. ~\E m \in Once : m >= applied /\ m < born
    BY DEF MigrationsInit, Once
  <2> QED
    BY <2>1 DEF MigrationsInit, SchemaAgrees, NoGap
<1>3. \A d \in Deployments : DeployAgrees(deployment[d])
  BY DEF MigrationsInit, NotDeploying, DeployAgrees
<1> QED
  BY <1>1, <1>2, <1>3 DEF MigrationsInv

(* A deployment moves on, the database stays.                                *)
LEMMA DeploymentMoves ==
  ASSUME MigrationsInv, NEW d \in Deployments, NEW step \in DeploySteps, NEW count \in 0 .. Latest,
         Become(d, step, count), KeepBase,
         DeployAgrees([step |-> step, count |-> count])
  PROVE  MigrationsInv'
<1>1. [step |-> step, count |-> count] \in [step: DeploySteps, count: 0 .. Latest]
  OBVIOUS
<1>2. MigrationVarsOK' /\ SchemaAgrees'
  BY <1>1 DEF MigrationsInv, MigrationVarsOK, SchemaAgrees, Become, KeepBase, NoGap
<1>3. \A e \in Deployments : DeployAgrees(deployment[e])'
  BY DEF MigrationsInv, MigrationVarsOK, Become, KeepBase, DeployAgrees, NoGap
<1> QED
  BY <1>2, <1>3 DEF MigrationsInv

(* What a baseline infers never exceeds the schema, is past the back-fill    *)
(* only if nothing is left to fill, and leaves out no migration that cannot  *)
(* run again, but for the schemas past 0009.                                 *)
LEMMA InferredFits ==
  ASSUME MigrationVarsOK, Inferred # Refused
  PROVE  /\ Inferred \in 1 .. Latest /\ Inferred <= MostJournaled(applied)
         /\ Inferred >= PublicBackfill => unfilled = 0
         /\ \A m \in Once : m >= Inferred /\ m < applied => Inferred = LatestBaseline /\ applied \in LatestBaseline + 1 .. DropsTokens
<1> USE MigrationsAssumption DEF Latest, PublicExpand, PublicBackfill, DropsTokens, LatestBaseline, OutboxEnvelope,
    ParentGuard, Refused, BootstrapGrants, ParentGuards, Artifacts, Compatible, MostJournaled, Once
<1>1. applied \in 0 .. 23 /\ unfilled \in 0 .. MaxOldRows + 1
  BY DEF MigrationVarsOK
<1>2. CASE applied >= 10
  BY <1>1, <1>2 DEF Inferred
<1>3. CASE applied \in {8, 9}
  BY <1>1, <1>3 DEF Inferred
<1>4. CASE applied \in {5, 6, 7}
  BY <1>1, <1>4 DEF Inferred
<1>5. CASE applied \in 0 .. 4
  BY <1>1, <1>5 DEF Inferred
<1> QED
  BY <1>1, <1>2, <1>3, <1>4, <1>5

LEMMA BaselineHolds ==
  ASSUME MigrationsInv, NEW d \in Deployments, Baseline(d)
  PROVE  MigrationsInv'
<1>1. CASE Inferred = Refused
  <2>1. Become(d, "failed", 0) /\ KeepBase
    BY <1>1 DEF Baseline
  <2>2. DeployAgrees([step |-> "failed", count |-> 0]) /\ "failed" \in DeploySteps /\ 0 \in 0 .. Latest
    BY DEF DeployAgrees, DeploySteps, Latest
  <2> QED
    BY <2>1, <2>2, DeploymentMoves
<1>2. CASE Inferred # Refused
  <2>0. Inferred \in 0 .. Latest
    BY <1>2, InferredFits DEF MigrationsInv, Latest
  <2>1. PICK count \in 0 .. Latest : count = Inferred
    BY <2>0
  <2>2. Become(d, "journal", count) /\ KeepBase
    BY <1>2, <2>1 DEF Baseline
  <2>3. /\ count <= MostJournaled(applied)
        /\ count >= PublicBackfill => unfilled = 0
        /\ \A m \in Once : m >= count /\ m < applied => count = LatestBaseline /\ applied \in LatestBaseline + 1 .. DropsTokens
    BY <1>2, <2>1, InferredFits DEF MigrationsInv
  <2>4. CASE applied = born
    <3>1. NoGap(count)
      BY <2>3, <2>4 DEF NoGap
    <3>2. late \in Nat
      BY DEF MigrationsInv, MigrationVarsOK
    <3>3. DeployAgrees([step |-> "journal", count |-> count])
      BY <2>3, <2>4, <3>1, <3>2 DEF DeployAgrees
    <3> QED
      BY <2>1, <2>2, <3>3, DeploymentMoves DEF DeploySteps, Latest
  <2>5. CASE applied # born
    <3>1. applied = Latest
      BY <2>5 DEF MigrationsInv, SchemaAgrees
    <3>2. Inferred = Refused
      BY <3>1 DEF Inferred, Latest, BootstrapGrants, LatestBaseline, Compatible, DropsTokens, OutboxEnvelope, PublicExpand
    <3> QED
      BY <1>2, <3>2
  <2> QED
    BY <2>4, <2>5
<1> QED
  BY <1>1, <1>2

LEMMA InsertHolds ==
  ASSUME MigrationsInv, NEW d \in Deployments, InsertApplied(d)
  PROVE  MigrationsInv'
<1> USE MigrationsAssumption DEF Latest, PublicExpand, PublicBackfill
<1>1. /\ deployment' = [deployment EXCEPT ![d] = [step |-> "read", count |-> 0]]
      /\ UNCHANGED <<applied, born, unfilled, late, tokens>>
      /\ journal' = IF deployment[d].count > journal THEN deployment[d].count ELSE journal
  BY DEF InsertApplied, Become
<1>2. /\ deployment[d].count \in 0 .. 23 /\ deployment[d].count <= MostJournaled(applied) /\ NoGap(deployment[d].count)
      /\ deployment[d].count >= 6 => unfilled <= late
  BY DEF InsertApplied, AtStep, MigrationsInv, MigrationVarsOK, DeployAgrees
<1>3. journal \in Nat /\ applied \in 0 .. 23 /\ MostJournaled(applied) \in Nat
  BY DEF MigrationsInv, MigrationVarsOK, MostJournaled
<1>4. MigrationVarsOK'
  <2>1. journal' \in 0 .. MostJournaled(applied)
    BY <1>1, <1>2, <1>3 DEF MigrationsInv, MigrationVarsOK
  <2>2. deployment' \in [Deployments -> [step: DeploySteps, count: 0 .. Latest]]
    BY <1>1 DEF MigrationsInv, MigrationVarsOK, DeploySteps
  <2> QED
    BY <1>1, <2>1, <2>2 DEF MigrationsInv, MigrationVarsOK
<1>5. SchemaAgrees'
  <2>1. CASE deployment[d].count <= journal
    <3>1. journal' = journal
      BY <1>1, <1>2, <1>3, <2>1
    <3> QED
      BY <1>1, <3>1 DEF MigrationsInv, SchemaAgrees, NoGap
  <2>2. CASE ~(deployment[d].count <= journal)
    <3>1. applied = born /\ journal' = deployment[d].count
      <4>1. ~(applied = 23 /\ journal = 23)
        BY <1>2, <2>2
      <4>2. journal' = deployment[d].count
        BY <1>1, <1>2, <1>3, <2>2
      <4> QED
        BY <4>1, <4>2 DEF MigrationsInv, SchemaAgrees
    <3> QED
      BY <1>1, <1>2, <3>1 DEF MigrationsInv, SchemaAgrees, NoGap
  <2> QED
    BY <2>1, <2>2
<1>6. \A e \in Deployments : DeployAgrees(deployment[e])'
  BY <1>1 DEF MigrationsInv, MigrationVarsOK, DeployAgrees, NoGap
<1> QED
  BY <1>4, <1>5, <1>6 DEF MigrationsInv

LEMMA RunHolds ==
  ASSUME MigrationsInv, NEW d \in Deployments, RunPending(d)
  PROVE  MigrationsInv'
<1> USE MigrationsAssumption DEF Latest, PublicExpand, PublicBackfill, DropsTokens
<1> DEFINE from == deployment[d].count
<1>1. CASE ~Runnable(from)
  <2>1. Become(d, "failed", 0) /\ KeepBase
    BY <1>1 DEF RunPending
  <2>2. DeployAgrees([step |-> "failed", count |-> 0]) /\ "failed" \in DeploySteps /\ 0 \in 0 .. Latest
    BY DEF DeployAgrees, DeploySteps
  <2> QED
    BY <2>1, <2>2, DeploymentMoves
<1>2. CASE Runnable(from)
  <2>1. /\ applied' = 23 /\ journal' = 23 /\ UNCHANGED <<born, tokens>>
        /\ deployment' = [deployment EXCEPT ![d] = [step |-> "done", count |-> 0]]
        /\ IF from < 6 THEN unfilled' = 0 /\ late' = 0 ELSE UNCHANGED <<unfilled, late>>
    BY <1>2 DEF RunPending, Become
  <2>2. from \in 0 .. 23 /\ from <= MostJournaled(applied) /\ (from >= 6 => unfilled <= late)
    BY DEF RunPending, AtStep, MigrationsInv, MigrationVarsOK, DeployAgrees
  <2>3. applied \in 0 .. 23 /\ born \in 0 .. applied /\ unfilled \in 0 .. MaxOldRows + 1 /\ late \in 0 .. MaxOldRows
    BY DEF MigrationsInv, MigrationVarsOK
  <2>4. ~tokens
    <3>1. tokens => from > 20 /\ applied <= 20
      BY <1>2 DEF Runnable, MigrationsInv, SchemaAgrees
    <3> QED
      BY <2>1, <2>2, <2>3, <3>1 DEF MostJournaled, MigrationsInv, MigrationVarsOK
  <2>5. unfilled' \in 0 .. MaxOldRows + 1 /\ late' \in 0 .. MaxOldRows /\ unfilled' <= late'
    BY <2>1, <2>2, <2>3
  <2>6. MigrationVarsOK'
    <3>1. deployment' \in [Deployments -> [step: DeploySteps, count: 0 .. Latest]]
      BY <2>1 DEF MigrationsInv, MigrationVarsOK, DeploySteps
    <3> QED
      BY <2>1, <2>3, <2>4, <2>5, <3>1 DEF MigrationVarsOK, MostJournaled, MigrationsInv
  <2>7. SchemaAgrees'
    <3>1. NoGap(23)
      BY <2>3 DEF NoGap, Once
    <3>2. ~tokens'
      BY <2>1, <2>4
    <3>3. PICK u \in 0 .. MaxOldRows + 1, l \in 0 .. MaxOldRows : unfilled' = u /\ late' = l /\ u <= l
      BY <2>5
    <3>4. (journal > 0 /\ applied = born => NoGap(journal))'
      BY <2>1, <3>1 DEF NoGap
    <3> QED
      BY <2>1, <3>2, <3>3, <3>4 DEF SchemaAgrees
  <2>8. \A e \in Deployments : DeployAgrees(deployment[e])'
    <3> SUFFICES ASSUME NEW e \in Deployments PROVE DeployAgrees(deployment[e])'
      OBVIOUS
    <3>1. CASE e = d
      BY <2>1, <3>1 DEF DeployAgrees, MigrationsInv, MigrationVarsOK
    <3>2. CASE e # d
      <4>1. deployment'[e] = deployment[e] /\ deployment[e].count \in 0 .. 23 /\ DeployAgrees(deployment[e])
        BY <2>1, <3>2 DEF MigrationsInv, MigrationVarsOK
      <4> QED
        BY <2>1, <2>5, <4>1 DEF DeployAgrees, MostJournaled, NoGap
    <3> QED
      BY <3>1, <3>2
  <2> QED
    BY <2>6, <2>7, <2>8 DEF MigrationsInv
<1> QED
  BY <1>1, <1>2

LEMMA MigrationsStepHolds == MigrationsInv /\ [MigrationsNext]_migrationVars => MigrationsInv'
<1> SUFFICES ASSUME MigrationsInv, [MigrationsNext]_migrationVars PROVE MigrationsInv'
  OBVIOUS
<1>1. ASSUME NEW d \in Deployments, Baseline(d) PROVE MigrationsInv'
  BY <1>1, BaselineHolds
<1>2. ASSUME NEW d \in Deployments, WithoutBaseline(d) \/ KillDeployment(d) \/ DeployAgain(d) PROVE MigrationsInv'
  <2>1. PICK step \in {"read", "failed", "start"} : Become(d, step, 0) /\ KeepBase
    BY <1>2 DEF WithoutBaseline, KillDeployment, DeployAgain
  <2>2. DeployAgrees([step |-> step, count |-> 0]) /\ step \in DeploySteps /\ 0 \in 0 .. Latest
    BY DEF DeployAgrees, DeploySteps, Latest
  <2> QED
    BY <2>1, <2>2, DeploymentMoves
<1>3. ASSUME NEW d \in Deployments, InsertApplied(d) PROVE MigrationsInv'
  BY <1>3, InsertHolds
<1>9. ASSUME NEW d \in Deployments, JournalApplied(d) PROVE MigrationsInv'
  <2>1. PICK step \in {"read", "insert"}, count \in 0 .. Latest :
          /\ step = "insert" => count = deployment[d].count /\ deployment[d].step = "journal"
          /\ Become(d, step, count) /\ KeepBase
    <3>1. deployment[d].count \in 0 .. Latest /\ 0 \in 0 .. Latest
      BY DEF MigrationsInv, MigrationVarsOK, Latest
    <3> QED
      BY <1>9, <3>1 DEF JournalApplied, AtStep
  <2>2. DeployAgrees([step |-> step, count |-> count])
    <3>1. CASE step = "insert"
      BY <2>1, <3>1 DEF DeployAgrees, MigrationsInv
    <3>2. CASE step = "read"
      BY <3>2 DEF DeployAgrees
    <3> QED
      BY <3>1, <3>2
  <2> QED
    BY <2>1, <2>2, DeploymentMoves DEF DeploySteps
<1>4. ASSUME NEW d \in Deployments, ReadJournal(d) PROVE MigrationsInv'
  <2>1. Become(d, "run", journal) /\ KeepBase
    BY <1>4 DEF ReadJournal
  <2>2. journal \in 0 .. Latest /\ journal <= MostJournaled(applied)
    BY DEF MigrationsInv, MigrationVarsOK, MostJournaled, Latest, PublicExpand, PublicBackfill
  <2>3. DeployAgrees([step |-> "run", count |-> journal])
    BY <2>2 DEF DeployAgrees, MigrationsInv, SchemaAgrees
  <2>4. PICK count \in 0 .. Latest : count = journal
    BY <2>2
  <2> QED
    BY <2>1, <2>3, <2>4, DeploymentMoves DEF DeploySteps
<1>5. ASSUME NEW d \in Deployments, RunPending(d) PROVE MigrationsInv'
  BY <1>5, RunHolds
<1>6. CASE OldBinaryWrites
  <2>1. /\ unfilled' = unfilled + 1 /\ late' = late + 1 /\ late < MaxOldRows
        /\ UNCHANGED <<applied, journal, born, tokens, deployment>>
    BY <1>6 DEF OldBinaryWrites
  <2>2. unfilled \in 0 .. MaxOldRows + 1 /\ late \in 0 .. MaxOldRows /\ unfilled <= late + 1
    BY DEF MigrationsInv, MigrationVarsOK, SchemaAgrees
  <2>3. unfilled' \in 0 .. MaxOldRows + 1 /\ late' \in 0 .. MaxOldRows /\ unfilled' <= late' + 1 /\ (unfilled <= late => unfilled' <= late')
    BY <2>1, <2>2, MigrationsAssumption
  <2> QED
    BY <2>1, <2>3 DEF MigrationsInv, MigrationVarsOK, SchemaAgrees, DeployAgrees, NoGap
<1>7. CASE PurgeTokens
  BY <1>7 DEF PurgeTokens, MigrationsInv, MigrationVarsOK, SchemaAgrees, DeployAgrees, NoGap
<1>8. CASE UNCHANGED migrationVars
  BY <1>8 DEF migrationVars, MigrationsInv, MigrationVarsOK, SchemaAgrees, DeployAgrees, NoGap
<1> QED
  BY <1>1, <1>2, <1>3, <1>4, <1>5, <1>6, <1>7, <1>8, <1>9 DEF MigrationsNext

LEMMA MigrationsHold == MigrationsInv => MigrationsTypeOK /\ JournalWithinSchema /\ NothingLeftBehind /\ StaysMigratable
<1> SUFFICES ASSUME MigrationsInv PROVE MigrationsTypeOK /\ JournalWithinSchema /\ NothingLeftBehind /\ StaysMigratable
  OBVIOUS
<1>1. MigrationsTypeOK
  BY DEF MigrationsInv, MigrationVarsOK, SchemaAgrees, MigrationsTypeOK, MostJournaled, DeploySteps,
     Latest, PublicExpand, PublicBackfill
<1>4. JournalWithinSchema
  BY DEF MigrationsInv, MigrationVarsOK, JournalWithinSchema, MostJournaled, PublicExpand, PublicBackfill, Latest
<1>2. NothingLeftBehind
  BY DEF MigrationsInv, SchemaAgrees, NothingLeftBehind
<1>3. StaysMigratable
  <2>1. CASE applied = born
    BY <2>1 DEF MigrationsInv, SchemaAgrees, NoGap, StaysMigratable
  <2>2. CASE applied = Latest /\ journal = Latest
    BY <2>2 DEF StaysMigratable, Latest, Once
  <2> QED
    BY <2>1, <2>2 DEF MigrationsInv, SchemaAgrees
<1> QED
  BY <1>1, <1>2, <1>3, <1>4

-----------------------------------------------------------------------------
(* The rows of the marks and of the passes.                                  *)

MarkRow == [warned: BOOLEAN, breached: BOOLEAN, told: Never .. LastTime]
PassRow == [pc: {"find", "claim", "notify", "release"}, at: 0 .. LastTime, stage: 1 .. 4]
FactRow == [open: BOOLEAN, replied: BOOLEAN, pausedAt: Never .. LastTime, due: 0 .. 2 * LastTime]

AlertVarsOK ==
  /\ time \in 0 .. LastTime /\ facts \in FactRow /\ marks \in [Targets -> MarkRow]
  /\ breach \in BOOLEAN /\ died \in BOOLEAN /\ passes \in [Crons -> {NoPass} \cup PassRow]
  /\ announced \subseteq Targets \X Kinds /\ claimed \in [Targets -> [Kinds -> Nat]]

(* A pass between its claim of the alert k of t and the end of its sending.  *)
Flies(row, t, k) == row.pc \in {"notify", "release"} /\ Stages[row.stage][1] = t /\ Stages[row.stage][2] = k
HasMark(m, k) == IF k = "BREACH" THEN m.breached ELSE m.warned

(* The due date moves by pauses, which follow each other in time.            *)
DueFollowsTime ==
  /\ facts.due >= Due["RESOLUTION"] /\ facts.pausedAt <= time
  /\ facts.due - Due["RESOLUTION"] <= IF facts.pausedAt = Never THEN time ELSE facts.pausedAt

(* n breaches announced so far and not taken back: the next one comes at     *)
(* least Repeat after the mark, or after the release of a mark.              *)
Paced(n, m, now, due) ==
  /\ m.breached => n >= 1 /\ (n - 1) * Repeat <= m.told - due
  /\ n >= 1 => (n - 1) * Repeat < now - due
  /\ ~m.breached /\ n >= 1 => n * Repeat < now - due

MarkAgrees(m, flag, counts, now, due) ==
  /\ m.breached <=> m.told # Never
  /\ m.breached => flag
  /\ counts["WARNING"] = IF m.warned THEN 1 ELSE 0
  /\ Paced(counts["BREACH"], m, now, due)

MarksAgree == \A t \in Targets : MarkAgrees(marks[t], breach, claimed[t], time, Due[t])

(* A pass knows the time, within a unit; what it claimed is marked as it did.*)
PassAgrees(c) ==
  /\ passes[c] # NoPass => passes[c].at \in {time - 1, time}
  /\ \A t \in Targets, k \in Kinds : Flies(passes[c], t, k) =>
        /\ HasMark(marks[t], k)
        /\ k = "BREACH" => marks[t].told = passes[c].at

FliesAlone == \A t \in Targets, k \in Kinds : \A c, d \in Crons : Flies(passes[c], t, k) /\ Flies(passes[d], t, k) => c = d

Announcing(t, k) ==
  ~died /\ (k = "BREACH" => Emailing) /\ HasMark(marks[t], k) =>
    <<t, k>> \in announced \/ \E c \in Crons : Flies(passes[c], t, k)

AlertInv ==
  /\ AlertVarsOK /\ DueFollowsTime /\ MarksAgree
  /\ \A c \in Crons : PassAgrees(c)
  /\ FliesAlone
  /\ \A t \in Targets, k \in Kinds : Announcing(t, k)

-----------------------------------------------------------------------------

LEMMA AlertConstants ==
  /\ LastTime \in Nat /\ LastTime >= 1 /\ Warning \in Nat /\ Repeat \in Nat /\ Repeat >= 1 /\ Emailing \in BOOLEAN
  /\ Due \in [Targets -> 0 .. LastTime] /\ Never = -1
  /\ "RESOLUTION" \in Targets /\ \A t \in Targets : Due[t] \in 0 .. LastTime
BY AlertsAssumption DEF Targets, Never

LEMMA StageParts ==
  /\ \A n \in 1 .. 4 : Stages[n][1] \in Targets /\ Stages[n][2] \in Kinds
  /\ \A t \in Targets : Other(t) \in Targets /\ Other(t) # t /\ \A u \in Targets : u = t \/ u = Other(t)
<1>1. Stages[1] = <<"FIRST_RESPONSE", "BREACH">> /\ Stages[2] = <<"RESOLUTION", "BREACH">>
      /\ Stages[3] = <<"FIRST_RESPONSE", "WARNING">> /\ Stages[4] = <<"RESOLUTION", "WARNING">>
  BY DEF Stages
<1>2. \A n \in 1 .. 4 : n = 1 \/ n = 2 \/ n = 3 \/ n = 4
  OBVIOUS
<1>3. ASSUME NEW t \in Targets
      PROVE  Other(t) \in Targets /\ Other(t) # t /\ \A u \in Targets : u = t \/ u = Other(t)
  <2>1. \E u \in Targets : u # t
    BY <1>3 DEF Targets
  <2>2. Other(t) \in Targets /\ Other(t) # t
    BY <2>1 DEF Other
  <2> QED
    BY <2>2 DEF Targets
<1> QED
  BY <1>1, <1>2, <1>3 DEF Targets, Kinds

LEMMA PassFields ==
  ASSUME NEW q \in {NoPass} \cup PassRow
  PROVE  /\ q = NoPass => q.pc = "idle"
         /\ q # NoPass => /\ q \in PassRow /\ q.pc \in {"find", "claim", "notify", "release"}
                          /\ q.at \in 0 .. LastTime /\ q.stage \in 1 .. 4
                          /\ Stages[q.stage][1] \in Targets /\ Stages[q.stage][2] \in Kinds
         /\ q.pc \notin {"notify", "release"} => \A t \in Targets, k \in Kinds : ~Flies(q, t, k)
BY StageParts DEF NoPass, PassRow, Flies

LEMMA PassesStay ==
  ASSUME AlertInv, NEW c \in Crons
  PROVE  /\ passes[c] \in {NoPass} \cup PassRow /\ passes \in [Crons -> {NoPass} \cup PassRow]
         /\ PassAgrees(c)
BY DEF AlertInv, AlertVarsOK

LEMMA AlertInitHolds == AlertInit => AlertInv
<1> SUFFICES ASSUME AlertInit PROVE AlertInv
  OBVIOUS
<1>1. PICK zero \in Nat : zero = 0
  OBVIOUS
<1>2. PICK counts : counts = [k \in Kinds |-> zero]
  OBVIOUS
<1>3. counts \in [Kinds -> Nat] /\ counts["WARNING"] = 0 /\ counts["BREACH"] = 0
  BY <1>1, <1>2 DEF Kinds
<1>4. Unmarked \in MarkRow /\ ~Unmarked.warned /\ ~Unmarked.breached /\ Unmarked.told = Never
  BY AlertConstants DEF Unmarked, MarkRow
<1>5. /\ time = 1 /\ breach = FALSE /\ died = FALSE /\ announced = {} /\ claimed = [t \in Targets |-> counts]
      /\ marks = [t \in Targets |-> Unmarked] /\ passes = [c \in Crons |-> NoPass]
  BY <1>1, <1>2 DEF AlertInit
<1>6. facts = [open |-> TRUE, replied |-> FALSE, pausedAt |-> Never, due |-> Due["RESOLUTION"]]
  BY DEF AlertInit
<1>7. facts \in FactRow /\ facts.due = Due["RESOLUTION"] /\ facts.pausedAt = Never
  BY <1>6, AlertConstants DEF FactRow
<1>8. AlertVarsOK
  <2>1. time \in 0 .. LastTime /\ announced \subseteq Targets \X Kinds
    BY <1>5, AlertConstants
  <2>2. marks \in [Targets -> MarkRow] /\ passes \in [Crons -> {NoPass} \cup PassRow] /\ claimed \in [Targets -> [Kinds -> Nat]]
    BY <1>3, <1>4, <1>5
  <2> QED
    BY <1>5, <1>7, <2>1, <2>2 DEF AlertVarsOK
<1>9. DueFollowsTime
  BY <1>5, <1>7, AlertConstants DEF DueFollowsTime
<1>10. \A c \in Crons : passes[c] = NoPass /\ \A t \in Targets, k \in Kinds : ~Flies(passes[c], t, k)
  BY <1>5, PassFields DEF NoPass
<1>11. MarksAgree
  BY <1>3, <1>4, <1>5 DEF MarksAgree, MarkAgrees, Paced
<1>12. \A t \in Targets, k \in Kinds : Announcing(t, k)
  BY <1>4, <1>5 DEF Announcing, HasMark
<1> QED
  BY <1>8, <1>9, <1>10, <1>11, <1>12 DEF AlertInv, PassAgrees, FliesAlone

-----------------------------------------------------------------------------
(* Passes that move without a claim or a release: the marks stay.            *)

PassMoves(c, q) ==
  /\ passes' = [passes EXCEPT ![c] = q] /\ UNCHANGED <<time, facts, marks, breach, claimed>>
  /\ q # NoPass => q.at \in {time - 1, time}
  /\ \A t \in Targets, k \in Kinds : Flies(q, t, k) => Flies(passes[c], t, k) /\ q.at = passes[c].at
  /\ announced \subseteq announced' /\ announced' \subseteq Targets \X Kinds /\ died' \in BOOLEAN /\ (died => died')
  /\ \A t \in Targets, k \in Kinds : Flies(passes[c], t, k) /\ ~Flies(q, t, k) =>
       <<t, k>> \in announced' \/ died' \/ (k = "BREACH" /\ ~Emailing)

LEMMA PassesMove ==
  ASSUME AlertInv, NEW c \in Crons, NEW q \in {NoPass} \cup PassRow, PassMoves(c, q)
  PROVE  AlertInv'
<1>1. passes \in [Crons -> {NoPass} \cup PassRow] /\ passes'[c] = q /\ \A d \in Crons \ {c} : passes'[d] = passes[d]
  BY PassesStay DEF PassMoves
<1>2. /\ time' = time /\ facts' = facts /\ marks' = marks /\ breach' = breach /\ claimed' = claimed
      /\ passes' = [passes EXCEPT ![c] = q]
  BY DEF PassMoves
<1>3. AlertVarsOK'
  BY <1>1, <1>2 DEF AlertInv, AlertVarsOK, PassMoves
<1>4. DueFollowsTime' /\ MarksAgree'
  BY <1>2 DEF AlertInv, DueFollowsTime, MarksAgree
<1>5. \A d \in Crons, t \in Targets, k \in Kinds : Flies(passes'[d], t, k) => Flies(passes[d], t, k)
  BY <1>1 DEF PassMoves
<1>6. FliesAlone'
  BY <1>5 DEF AlertInv, FliesAlone
<1>7. ASSUME NEW d \in Crons PROVE PassAgrees(d)'
  <2>1. CASE d = c
    BY <1>1, <1>2, <2>1, PassesStay DEF PassMoves, PassAgrees
  <2>2. CASE d # c
    BY <1>1, <1>2, <2>2, PassesStay DEF PassAgrees
  <2> QED
    BY <2>1, <2>2
<1>8. ASSUME NEW t \in Targets, NEW k \in Kinds PROVE Announcing(t, k)'
  BY <1>1, <1>2 DEF AlertInv, Announcing, PassMoves
<1> QED
  BY <1>3, <1>4, <1>6, <1>7, <1>8 DEF AlertInv

(* The next stage of a pass, or its end.                                     *)
LEMMA NextStageIs ==
  ASSUME NEW c \in Crons, passes[c] \in PassRow, NextStage(c)
  PROVE  \E q \in {NoPass} \cup PassRow :
            /\ passes' = [passes EXCEPT ![c] = q] /\ (q # NoPass => q.at = passes[c].at)
            /\ \A t \in Targets, k \in Kinds : ~Flies(q, t, k)
<1>1. PICK n \in 2 .. 5 : n = passes[c].stage + 1
  BY DEF PassRow
<1>2. passes' = [passes EXCEPT ![c] = IF n > 4 THEN NoPass ELSE [passes[c] EXCEPT !.pc = "find", !.stage = n]]
  BY <1>1 DEF NextStage
<1>3. CASE n > 4
  <2>1. PICK q : q = NoPass
    OBVIOUS
  <2>2. passes' = [passes EXCEPT ![c] = q]
    BY <1>2, <1>3, <2>1
  <2> QED
    BY <2>1, <2>2, PassFields
<1>4. CASE ~(n > 4)
  <2>1. PICK q : q = [passes[c] EXCEPT !.pc = "find", !.stage = n]
    OBVIOUS
  <2>2. n \in 1 .. 4
    BY <1>1, <1>4
  <2>3. q \in PassRow /\ q.pc = "find" /\ q.at = passes[c].at
    BY <2>1, <2>2 DEF PassRow
  <2>4. passes' = [passes EXCEPT ![c] = q]
    BY <1>2, <1>4, <2>1
  <2> QED
    BY <2>3, <2>4, PassFields
<1> QED
  BY <1>3, <1>4

(* Run: only the place of the pass changes.                                  *)
LEMMA RunIs ==
  ASSUME NEW c \in Crons, passes[c] \in PassRow, NEW p \in {"find", "claim", "notify", "release"}, Run(c, p)
  PROVE  \E q \in PassRow : /\ passes' = [passes EXCEPT ![c] = q] /\ q.pc = p
                            /\ q.at = passes[c].at /\ q.stage = passes[c].stage
<1>1. PICK q : q = [passes[c] EXCEPT !.pc = p]
  OBVIOUS
<1>2. q \in PassRow /\ q.pc = p /\ q.at = passes[c].at /\ q.stage = passes[c].stage
  BY <1>1 DEF PassRow
<1>3. passes' = [passes EXCEPT ![c] = q]
  BY <1>1 DEF Run
<1> QED
  BY <1>2, <1>3

LEMMA PassesRun ==
  ASSUME AlertInv, NEW c \in Crons, BeginPass(c) \/ FindAlert(c) \/ Notify(c) \/ KillPass(c)
  PROVE  AlertInv'
<1>1. /\ passes[c] \in {NoPass} \cup PassRow /\ PassAgrees(c) /\ time \in 0 .. LastTime
      /\ announced \subseteq Targets \X Kinds /\ died \in BOOLEAN
  BY PassesStay DEF AlertInv, AlertVarsOK
<1>2. CASE BeginPass(c)
  <2>1. PICK one \in 1 .. 4 : one = 1
    OBVIOUS
  <2>2. PICK q : q = [pc |-> "find", at |-> time, stage |-> one]
    OBVIOUS
  <2>3. q \in PassRow /\ q.pc = "find" /\ q.at = time
    BY <1>1, <2>2 DEF PassRow
  <2>4. passes' = [passes EXCEPT ![c] = q] /\ UNCHANGED <<time, facts, marks, breach, announced, claimed, died>>
        /\ passes[c] = NoPass
    BY <1>2, <2>1, <2>2 DEF BeginPass
  <2>5. \A t \in Targets, k \in Kinds : ~Flies(q, t, k) /\ ~Flies(passes[c], t, k)
    BY <2>3, <2>4, PassFields DEF NoPass
  <2>6. PassMoves(c, q)
    BY <1>1, <2>3, <2>4, <2>5 DEF PassMoves
  <2> QED
    BY <2>3, <2>6, PassesMove
<1>3. CASE FindAlert(c)
  <2>1. /\ passes[c].pc = "find" /\ passes[c] \in PassRow /\ passes[c] # NoPass
        /\ UNCHANGED <<time, facts, marks, breach, announced, claimed, died>>
        /\ \A t \in Targets, k \in Kinds : ~Flies(passes[c], t, k)
    BY <1>1, <1>3, PassFields DEF FindAlert
  <2>2. PICK q \in {NoPass} \cup PassRow :
           /\ passes' = [passes EXCEPT ![c] = q] /\ (q # NoPass => q.at = passes[c].at)
           /\ \A t \in Targets, k \in Kinds : ~Flies(q, t, k)
    <3>1. CASE NextStage(c)
      BY <2>1, <3>1, NextStageIs
    <3>2. CASE Run(c, "claim")
      <4>1. PICK q \in PassRow : passes' = [passes EXCEPT ![c] = q] /\ q.pc = "claim" /\ q.at = passes[c].at
        BY <2>1, <3>2, RunIs
      <4> QED
        BY <4>1, PassFields
    <3> QED
      BY <1>3, <3>1, <3>2 DEF FindAlert
  <2>3. PassMoves(c, q)
    BY <1>1, <2>1, <2>2 DEF PassMoves, PassAgrees
  <2> QED
    BY <2>2, <2>3, PassesMove
<1>4. CASE Notify(c)
  <2>1. /\ passes[c].pc = "notify" /\ passes[c] \in PassRow /\ passes[c] # NoPass
        /\ UNCHANGED <<time, facts, marks, breach, claimed, died>>
        /\ Stages[passes[c].stage][1] \in Targets /\ Stages[passes[c].stage][2] \in Kinds
    BY <1>1, <1>4, PassFields DEF Notify
  <2>2. Sent(c) \in Targets \X Kinds
    BY <2>1 DEF Sent, Target, AlertKind, Kinds
  <2>3. \A t \in Targets, k \in Kinds : Flies(passes[c], t, k) /\ (k = "BREACH" => Emailing) => Sent(c) = <<t, k>>
    BY DEF Flies, Sent, Target, AlertKind, Kinds
  <2>4. CASE NextStage(c) /\ announced' = announced \cup {Sent(c)}
    <3>1. PICK q \in {NoPass} \cup PassRow :
             /\ passes' = [passes EXCEPT ![c] = q] /\ (q # NoPass => q.at = passes[c].at)
             /\ \A t \in Targets, k \in Kinds : ~Flies(q, t, k)
      BY <2>1, <2>4, NextStageIs
    <3>2. PassMoves(c, q)
      BY <1>1, <2>1, <2>2, <2>3, <2>4, <3>1 DEF PassMoves, PassAgrees
    <3> QED
      BY <3>2, PassesMove
  <2>5. CASE Run(c, "release") /\ announced' \in {announced, announced \cup {Sent(c)}}
    <3>1. PICK q \in PassRow : /\ passes' = [passes EXCEPT ![c] = q] /\ q.pc = "release"
                               /\ q.at = passes[c].at /\ q.stage = passes[c].stage
      BY <2>1, <2>5, RunIs
    <3>2. \A t \in Targets, k \in Kinds : Flies(q, t, k) <=> Flies(passes[c], t, k)
      BY <2>1, <3>1 DEF Flies
    <3>3. PassMoves(c, q)
      BY <1>1, <2>1, <2>2, <2>5, <3>1, <3>2 DEF PassMoves, PassAgrees
    <3> QED
      BY <3>3, PassesMove
  <2> QED
    BY <1>4, <2>4, <2>5 DEF Notify
<1>5. CASE KillPass(c)
  <2>1. PICK q : q = NoPass
    OBVIOUS
  <2>2. passes' = [passes EXCEPT ![c] = q] /\ UNCHANGED <<time, facts, marks, breach, announced, claimed>> /\ died' = TRUE
    BY <1>5, <2>1 DEF KillPass
  <2>3. \A t \in Targets, k \in Kinds : ~Flies(q, t, k)
    BY <2>1, PassFields DEF NoPass
  <2>4. PassMoves(c, q)
    BY <1>1, <2>1, <2>2, <2>3 DEF PassMoves
  <2> QED
    BY <2>1, <2>4, PassesMove
<1> QED
  BY <1>2, <1>3, <1>4, <1>5


-----------------------------------------------------------------------------
(* The arithmetic of the pace.                                               *)

LEMMA ClaimPaces ==
  ASSUME NEW n \in Nat, NEW now \in Int, NEW at \in Int, NEW due \in Int, NEW m \in MarkRow, Paced(n, m, now, due),
         due < at, at \in {now - 1, now}, ~m.breached \/ m.told < at - Repeat,
         NEW l \in MarkRow, l.breached, l.told = at
  PROVE  Paced(n + 1, l, now, due)
<1>1. PICK R \in Nat : R = Repeat /\ R >= 1
  BY AlertConstants
<1>2. m.told \in Int
  BY AlertConstants DEF MarkRow
<1>3. PICK p \in Int : p = n * R
  BY <1>1
<1>4. (n - 1) * R = p - R /\ (n + 1 - 1) * R = p
  BY <1>1, <1>3
<1>5. p <= at - due
  <2>1. CASE m.breached
    BY <1>1, <1>2, <1>4, <2>1 DEF Paced
  <2>2. CASE ~m.breached /\ n >= 1
    BY <1>1, <1>3, <2>2 DEF Paced
  <2>3. CASE n = 0
    BY <1>3, <2>3
  <2> QED
    BY <2>1, <2>2, <2>3
<1>6. p < now - due
  <2>1. CASE at = now - 1
    BY <1>5, <2>1
  <2>2. CASE at = now
    <3>1. CASE m.breached
      BY <1>1, <1>2, <1>4, <2>2, <3>1 DEF Paced
    <3>2. CASE ~m.breached /\ n >= 1
      BY <1>1, <1>3, <2>2, <3>2 DEF Paced
    <3>3. CASE n = 0
      BY <1>3, <2>2, <3>3
    <3> QED
      BY <3>1, <3>2, <3>3
  <2> QED
    BY <2>1, <2>2
<1> QED
  BY <1>1, <1>4, <1>5, <1>6 DEF Paced

LEMMA ReleasePaces ==
  ASSUME NEW n \in Nat, NEW now \in Int, NEW due \in Int, NEW m \in MarkRow, Paced(n, m, now, due), m.breached,
         NEW l \in MarkRow, ~l.breached
  PROVE  n - 1 \in Nat /\ Paced(n - 1, l, now, due)
<1>1. PICK R \in Nat : R = Repeat /\ R >= 1
  BY AlertConstants
<1>2. PICK p \in Int : p = (n - 1) * R
  BY <1>1
<1>3. (n - 1 - 1) * R = p - R
  BY <1>1, <1>2
<1>4. n >= 1 /\ p < now - due
  BY <1>1, <1>2 DEF Paced
<1> QED
  BY <1>1, <1>2, <1>3, <1>4 DEF Paced

LEMMA TimePaces ==
  ASSUME NEW n \in Nat, NEW now \in Int, NEW due \in Int, NEW m \in MarkRow, Paced(n, m, now, due)
  PROVE  Paced(n, m, now + 1, due)
<1>1. PICK R \in Nat : R = Repeat
  BY AlertConstants
<1>2. PICK p \in Int, s \in Int : p = (n - 1) * R /\ s = n * R
  BY <1>1
<1> QED
  BY <1>1, <1>2 DEF Paced

-----------------------------------------------------------------------------
(* Claims and releases of marks.                                             *)

LEMMA WantedIs ==
  ASSUME AlertInv, NEW c \in Crons, passes[c] \in PassRow, NEW t \in Targets, t = Target(c), Wanted(c)
  PROVE  /\ AlertKind(c) = "BREACH" => Due[t] < At(c) /\ (~marks[t].breached \/ marks[t].told < At(c) - Repeat)
         /\ AlertKind(c) # "BREACH" => ~marks[t].warned
<1>1. t = "RESOLUTION" \/ DueAt(t) = Due[t]
  BY DEF DueAt
<1>2. t = "RESOLUTION" => DueAt(t) = facts.due /\ Due[t] <= facts.due
  BY DEF DueAt, AlertInv, DueFollowsTime
<1>3. facts.due \in Int /\ Due[t] \in Int
  BY AlertConstants DEF AlertInv, AlertVarsOK, FactRow
<1>4. Due[t] <= DueAt(t) /\ DueAt(t) \in Int
  BY <1>1, <1>2, <1>3
<1>5. At(c) \in Int
  BY DEF At, PassRow
<1> QED
  BY <1>3, <1>4, <1>5 DEF Wanted

LEMMA ClaimHolds ==
  ASSUME AlertInv, NEW c \in Crons, passes[c].pc = "claim", Wanted(c), Run(c, "notify"), Marked(c),
         breach' = (breach \/ (AlertKind(c) = "BREACH" /\ ~marks[Target(c)].breached)),
         claimed' = [claimed EXCEPT ![Target(c)][AlertKind(c)] = @ + 1],
         UNCHANGED <<time, facts, announced, died>>
  PROVE  AlertInv'
<1>1. /\ AlertVarsOK /\ MarksAgree /\ FliesAlone /\ passes[c] \in PassRow /\ passes[c] # NoPass /\ PassAgrees(c)
      /\ \A u \in Targets, j \in Kinds : ~Flies(passes[c], u, j)
  BY PassesStay, PassFields DEF AlertInv
<1>2. PICK t \in Targets, k \in Kinds : /\ t = Target(c) /\ k = AlertKind(c)
                                        /\ t = Stages[passes[c].stage][1] /\ k = Stages[passes[c].stage][2]
  BY <1>1, PassFields DEF Target, AlertKind
<1>3. PICK at \in 0 .. LastTime : at = passes[c].at /\ at = At(c) /\ at \in {time - 1, time}
  BY <1>1, PassFields DEF PassAgrees, At
<1>4. time \in Int /\ Due[t] \in Int /\ marks[t] \in MarkRow /\ claimed[t] \in [Kinds -> Nat] /\ Never = -1
  BY <1>1, AlertConstants DEF AlertVarsOK
<1>5. /\ k = "BREACH" => Due[t] < at /\ (~marks[t].breached \/ marks[t].told < at - Repeat)
      /\ k = "WARNING" => ~marks[t].warned
  BY <1>1, <1>2, <1>3, WantedIs
<1>6. PICK q \in PassRow : passes' = [passes EXCEPT ![c] = q] /\ q.pc = "notify" /\ q.at = at /\ q.stage = passes[c].stage
  <2>1. PICK p \in {"find", "claim", "notify", "release"} : p = "notify"
    OBVIOUS
  <2>2. Run(c, p) /\ passes[c] \in PassRow
    BY <1>1, <2>1
  <2>3. PICK q \in PassRow : passes' = [passes EXCEPT ![c] = q] /\ q.pc = p /\ q.at = passes[c].at /\ q.stage = passes[c].stage
    BY <2>2, RunIs
  <2> QED
    BY <1>3, <2>1, <2>3
<1>7. /\ passes' \in [Crons -> {NoPass} \cup PassRow] /\ passes'[c] = q /\ \A d \in Crons \ {c} : passes'[d] = passes[d]
      /\ \A u \in Targets, j \in Kinds : Flies(q, u, j) <=> u = t /\ j = k
  BY <1>1, <1>2, <1>6 DEF AlertVarsOK, Flies
<1>8. PICK m \in MarkRow :
         /\ marks' = [marks EXCEPT ![t] = m]
         /\ k = "BREACH" => m.breached /\ m.told = at /\ m.warned = marks[t].warned
         /\ k = "WARNING" => m.warned /\ m.breached = marks[t].breached /\ m.told = marks[t].told
  <2>1. CASE k = "BREACH"
    <3>1. PICK m : m = [marks[t] EXCEPT !.breached = TRUE, !.told = at]
      OBVIOUS
    <3>2. at \in Never .. LastTime
      BY <1>3, <1>4, AlertConstants
    <3>3. m \in MarkRow /\ m.breached /\ m.told = at /\ m.warned = marks[t].warned
      BY <1>4, <3>1, <3>2 DEF MarkRow
    <3>4. marks' = [marks EXCEPT ![t] = m]
      BY <1>2, <1>3, <2>1, <3>1 DEF Marked
    <3> QED
      BY <2>1, <3>3, <3>4
  <2>2. CASE k = "WARNING"
    <3>1. PICK m : m = [marks[t] EXCEPT !.warned = TRUE]
      OBVIOUS
    <3>2. m \in MarkRow /\ m.warned /\ m.breached = marks[t].breached /\ m.told = marks[t].told
      BY <1>4, <3>1 DEF MarkRow
    <3>3. marks' = [marks EXCEPT ![t] = m]
      BY <1>2, <2>2, <3>1 DEF Marked
    <3> QED
      BY <2>2, <3>2, <3>3
  <2> QED
    BY <2>1, <2>2 DEF Kinds
<1>9. PICK n \in Nat : n = claimed[t][k]
  BY <1>4
<1>10. PICK counts : counts = [claimed[t] EXCEPT ![k] = n + 1]
  OBVIOUS
<1>11. /\ counts \in [Kinds -> Nat] /\ counts[k] = n + 1 /\ \A j \in Kinds \ {k} : counts[j] = claimed[t][j]
       /\ claimed' = [claimed EXCEPT ![t] = counts]
  <2>1. counts \in [Kinds -> Nat] /\ counts[k] = n + 1 /\ \A j \in Kinds \ {k} : counts[j] = claimed[t][j]
    BY <1>4, <1>10
  <2>2. claimed' = [claimed EXCEPT ![t] = counts]
    BY <1>2, <1>9, <1>10
  <2> QED
    BY <2>1, <2>2
<1>12. /\ marks'[t] = m /\ claimed'[t] = counts
       /\ \A u \in Targets \ {t} : marks'[u] = marks[u] /\ claimed'[u] = claimed[u]
  BY <1>1, <1>8, <1>11 DEF AlertVarsOK
<1>13. /\ breach' \in BOOLEAN /\ (breach => breach') /\ (k = "BREACH" => breach \/ marks[t].breached \/ breach')
  BY <1>1, <1>2 DEF AlertVarsOK
<1>14. \A d \in Crons : ~Flies(passes[d], t, k)
  <2> SUFFICES ASSUME NEW d \in Crons, Flies(passes[d], t, k) PROVE FALSE
    OBVIOUS
  <2>1. passes[d] # NoPass /\ PassAgrees(d) /\ HasMark(marks[t], k)
    BY PassesStay, PassFields DEF Flies, PassAgrees, NoPass
  <2>2. CASE k = "WARNING"
    BY <1>5, <2>1, <2>2 DEF HasMark
  <2>3. CASE k = "BREACH"
    <3>1. marks[t].breached /\ marks[t].told \in {time - 1, time}
      BY <2>1, <2>3 DEF HasMark, PassAgrees
    <3>2. Repeat \in Nat /\ Repeat >= 1
      BY AlertConstants
    <3> QED
      BY <1>3, <1>4, <1>5, <2>3, <3>1, <3>2
  <2> QED
    BY <2>2, <2>3 DEF Kinds
<1>15. AlertVarsOK'
  <2>1. marks' \in [Targets -> MarkRow] /\ claimed' \in [Targets -> [Kinds -> Nat]]
    BY <1>1, <1>8, <1>11 DEF AlertVarsOK
  <2> QED
    BY <1>1, <1>7, <1>13, <2>1 DEF AlertVarsOK
<1>16. DueFollowsTime'
  BY DEF AlertInv, DueFollowsTime
<1>17. MarksAgree'
  <2>1. ASSUME NEW u \in Targets \ {t} PROVE MarkAgrees(marks'[u], breach', claimed'[u], time', Due[u])
    BY <1>1, <1>12, <1>13 DEF MarksAgree, MarkAgrees
  <2>2. MarkAgrees(marks[t], breach, claimed[t], time, Due[t])
    BY <1>1 DEF MarksAgree
  <2>3. CASE k = "BREACH"
    <3>1. Paced(n, marks[t], time, Due[t])
      BY <1>9, <2>2, <2>3 DEF MarkAgrees
    <3>2. Paced(n + 1, m, time, Due[t])
      BY <1>3, <1>4, <1>5, <1>8, <2>3, <3>1, ClaimPaces
    <3>3. counts["WARNING"] = claimed[t]["WARNING"] /\ counts["BREACH"] = n + 1
      BY <1>11, <2>3 DEF Kinds
    <3>4. MarkAgrees(m, breach', counts, time, Due[t])
      BY <1>3, <1>4, <1>8, <1>13, <2>2, <2>3, <3>2, <3>3 DEF MarkAgrees
    <3> QED
      BY <1>12, <2>1, <3>4 DEF MarksAgree
  <2>4. CASE k = "WARNING"
    <3>1. counts["WARNING"] = 1 /\ counts["BREACH"] = claimed[t]["BREACH"]
      BY <1>5, <1>9, <1>11, <2>2, <2>4 DEF Kinds, MarkAgrees
    <3>2. Paced(counts["BREACH"], m, time, Due[t])
      BY <1>8, <2>2, <2>4, <3>1 DEF MarkAgrees, Paced
    <3>3. MarkAgrees(m, breach', counts, time, Due[t])
      BY <1>8, <1>13, <2>2, <2>4, <3>1, <3>2 DEF MarkAgrees
    <3> QED
      BY <1>12, <2>1, <3>3 DEF MarksAgree
  <2> QED
    BY <2>3, <2>4 DEF Kinds
<1>18. \A u \in Targets, j \in Kinds :
         \/ u = t /\ j = k
         \/ HasMark(marks'[u], j) = HasMark(marks[u], j) /\ (j = "BREACH" => marks'[u].told = marks[u].told)
  BY <1>8, <1>12 DEF HasMark, Kinds
<1>19. HasMark(marks'[t], k) /\ (k = "BREACH" => marks'[t].told = at)
  BY <1>8, <1>12 DEF HasMark, Kinds
<1>20. ASSUME NEW d \in Crons PROVE PassAgrees(d)'
  <2>1. CASE d = c
    BY <1>3, <1>6, <1>7, <1>19, <2>1 DEF PassAgrees
  <2>2. CASE d # c
    BY <1>7, <1>14, <1>18, <2>2 DEF AlertInv, PassAgrees
  <2> QED
    BY <2>1, <2>2
<1>21. FliesAlone'
  BY <1>1, <1>7, <1>14 DEF FliesAlone
<1>22. ASSUME NEW u \in Targets, NEW j \in Kinds PROVE Announcing(u, j)'
  <2>1. CASE u = t /\ j = k
    BY <1>7, <2>1 DEF Announcing
  <2>2. CASE ~(u = t /\ j = k)
    <3>1. \A d \in Crons : Flies(passes[d], u, j) => Flies(passes'[d], u, j)
      BY <1>1, <1>7
    <3> QED
      BY <1>18, <2>2, <3>1 DEF AlertInv, Announcing
  <2> QED
    BY <2>1, <2>2
<1> QED
  BY <1>15, <1>16, <1>17, <1>20, <1>21, <1>22 DEF AlertInv


LEMMA ReleaseHolds ==
  ASSUME AlertInv, NEW c \in Crons, ReleaseAlert(c)
  PROVE  AlertInv'
<1>1. /\ AlertVarsOK /\ MarksAgree /\ FliesAlone /\ passes[c] \in PassRow /\ passes[c] # NoPass /\ PassAgrees(c)
      /\ passes[c].pc = "release" /\ UNCHANGED <<time, facts, announced, died>> /\ NextStage(c)
  BY PassesStay, PassFields DEF AlertInv, ReleaseAlert, NoPass
<1>2. PICK t \in Targets, k \in Kinds : /\ t = Target(c) /\ k = AlertKind(c)
                                        /\ t = Stages[passes[c].stage][1] /\ k = Stages[passes[c].stage][2]
  BY <1>1, PassFields DEF Target, AlertKind
<1>3. PICK q \in {NoPass} \cup PassRow :
         /\ passes' = [passes EXCEPT ![c] = q] /\ (q # NoPass => q.at = passes[c].at)
         /\ \A u \in Targets, j \in Kinds : ~Flies(q, u, j)
  <2>1. passes[c] \in PassRow /\ NextStage(c)
    BY <1>1
  <2> QED
    BY <2>1, NextStageIs
<1>4. /\ time \in Int /\ Due[t] \in Int /\ marks[t] \in MarkRow /\ claimed[t] \in [Kinds -> Nat]
      /\ \A u \in Targets, j \in Kinds : Flies(passes[c], u, j) <=> u = t /\ j = k
  BY <1>1, <1>2, AlertConstants DEF AlertVarsOK, Flies
<1>5. HasMark(marks[t], k) /\ \A d \in Crons \ {c} : ~Flies(passes[d], t, k)
  BY <1>1, <1>4 DEF PassAgrees, FliesAlone
<1>6. PICK m \in MarkRow :
         /\ marks' = [marks EXCEPT ![t] = m]
         /\ k = "BREACH" => ~m.breached /\ m.told = Never /\ m.warned = marks[t].warned
         /\ k = "WARNING" => ~m.warned /\ m.breached = marks[t].breached /\ m.told = marks[t].told
  <2>1. CASE k = "BREACH"
    <3>1. PICK m : m = [marks[t] EXCEPT !.breached = FALSE, !.told = Never]
      OBVIOUS
    <3>2. Never \in Never .. LastTime
      BY AlertConstants
    <3>3. m \in MarkRow /\ ~m.breached /\ m.told = Never /\ m.warned = marks[t].warned
      BY <1>4, <3>1, <3>2 DEF MarkRow
    <3>4. marks' = [marks EXCEPT ![t].breached = FALSE, ![t].told = Never]
      BY <1>2, <2>1 DEF ReleaseAlert, Released
    <3>5. marks' = [marks EXCEPT ![t] = m]
      BY <1>1, <3>1, <3>4 DEF AlertVarsOK
    <3> QED
      BY <2>1, <3>3, <3>5
  <2>2. CASE k = "WARNING"
    <3>1. PICK m : m = [marks[t] EXCEPT !.warned = FALSE]
      OBVIOUS
    <3>2. m \in MarkRow /\ ~m.warned /\ m.breached = marks[t].breached /\ m.told = marks[t].told
      BY <1>4, <3>1 DEF MarkRow
    <3>3. marks' = [marks EXCEPT ![t] = m]
      BY <1>2, <2>2, <3>1 DEF ReleaseAlert
    <3> QED
      BY <2>2, <3>2, <3>3
  <2> QED
    BY <2>1, <2>2 DEF Kinds
<1>7. PICK n \in Nat : n = claimed[t][k]
  BY <1>4
<1>8. MarkAgrees(marks[t], breach, claimed[t], time, Due[t])
  BY <1>1 DEF MarksAgree
<1>9. n >= 1
  <2>1. CASE k = "BREACH"
    BY <1>5, <1>7, <1>8, <2>1 DEF HasMark, MarkAgrees, Paced
  <2>2. CASE k = "WARNING"
    BY <1>5, <1>7, <1>8, <2>2 DEF HasMark, MarkAgrees
  <2> QED
    BY <2>1, <2>2 DEF Kinds
<1>10. PICK l \in Nat : l = n - 1
  BY <1>9
<1>11. PICK counts : counts = [claimed[t] EXCEPT ![k] = l]
  OBVIOUS
<1>12. /\ counts \in [Kinds -> Nat] /\ counts[k] = n - 1 /\ \A j \in Kinds \ {k} : counts[j] = claimed[t][j]
       /\ claimed' = [claimed EXCEPT ![t] = counts]
  <2>1. counts \in [Kinds -> Nat] /\ counts[k] = n - 1 /\ \A j \in Kinds \ {k} : counts[j] = claimed[t][j]
    BY <1>4, <1>10, <1>11
  <2>2. claimed' = [claimed EXCEPT ![t] = counts]
    BY <1>2, <1>7, <1>10, <1>11 DEF ReleaseAlert
  <2> QED
    BY <2>1, <2>2
<1>13. /\ marks'[t] = m /\ claimed'[t] = counts
       /\ \A u \in Targets \ {t} : marks'[u] = marks[u] /\ claimed'[u] = claimed[u]
       /\ passes'[c] = q /\ \A d \in Crons \ {c} : passes'[d] = passes[d]
  BY <1>1, <1>3, <1>6, <1>12 DEF AlertVarsOK
<1>14. /\ breach' \in BOOLEAN /\ (k = "WARNING" => breach' = breach)
       /\ \A u \in Targets \ {t} : marks[u].breached => breach'
  <2>1. CASE k = "BREACH"
    <3>1. breach' = marks[Other(t)].breached /\ Other(t) \in Targets /\ \A u \in Targets \ {t} : u = Other(t)
      BY <1>2, <2>1, StageParts DEF ReleaseAlert, ReleasedFlag
    <3>2. marks[Other(t)] \in MarkRow
      BY <1>1, <3>1 DEF AlertVarsOK
    <3> QED
      BY <2>1, <3>1, <3>2 DEF MarkRow
  <2>2. CASE k = "WARNING"
    BY <1>1, <1>2, <2>2 DEF ReleaseAlert, AlertVarsOK, MarksAgree, MarkAgrees
  <2> QED
    BY <2>1, <2>2 DEF Kinds
<1>15. AlertVarsOK'
  <2>1. /\ marks' \in [Targets -> MarkRow] /\ claimed' \in [Targets -> [Kinds -> Nat]]
        /\ passes' \in [Crons -> {NoPass} \cup PassRow]
    BY <1>1, <1>3, <1>6, <1>12 DEF AlertVarsOK
  <2> QED
    BY <1>1, <1>14, <2>1 DEF AlertVarsOK
<1>16. DueFollowsTime'
  BY <1>1 DEF AlertInv, DueFollowsTime
<1>17. MarksAgree'
  <2>1. ASSUME NEW u \in Targets \ {t} PROVE MarkAgrees(marks'[u], breach', claimed'[u], time', Due[u])
    BY <1>1, <1>13, <1>14 DEF MarksAgree, MarkAgrees
  <2>2. CASE k = "BREACH"
    <3>1. Paced(n, marks[t], time, Due[t]) /\ marks[t].breached
      BY <1>5, <1>7, <1>8, <2>2 DEF MarkAgrees, HasMark
    <3>2. Paced(n - 1, m, time, Due[t])
      BY <1>4, <1>6, <2>2, <3>1, ReleasePaces
    <3>3. counts["WARNING"] = claimed[t]["WARNING"] /\ counts["BREACH"] = n - 1
      BY <1>12, <2>2 DEF Kinds
    <3>4. MarkAgrees(m, breach', counts, time, Due[t])
      BY <1>6, <1>8, <2>2, <3>2, <3>3 DEF MarkAgrees
    <3> QED
      BY <1>1, <1>13, <2>1, <3>4 DEF MarksAgree
  <2>3. CASE k = "WARNING"
    <3>1. counts["WARNING"] = 0 /\ counts["BREACH"] = claimed[t]["BREACH"]
      BY <1>5, <1>7, <1>8, <1>12, <2>3 DEF Kinds, MarkAgrees, HasMark
    <3>2. Paced(counts["BREACH"], m, time, Due[t])
      BY <1>6, <1>8, <2>3, <3>1 DEF MarkAgrees, Paced
    <3>3. MarkAgrees(m, breach', counts, time, Due[t])
      BY <1>6, <1>8, <1>14, <2>3, <3>1, <3>2 DEF MarkAgrees
    <3> QED
      BY <1>1, <1>13, <2>1, <3>3 DEF MarksAgree
  <2> QED
    BY <2>2, <2>3 DEF Kinds
<1>18. \A u \in Targets, j \in Kinds :
         \/ u = t /\ j = k
         \/ HasMark(marks'[u], j) = HasMark(marks[u], j) /\ (j = "BREACH" => marks'[u].told = marks[u].told)
  BY <1>6, <1>13 DEF HasMark, Kinds
<1>19. ~HasMark(marks'[t], k)
  BY <1>6, <1>13 DEF HasMark, Kinds
<1>20. \A d \in Crons, u \in Targets, j \in Kinds :
         Flies(passes'[d], u, j) <=> Flies(passes[d], u, j) /\ ~(u = t /\ j = k)
  BY <1>3, <1>4, <1>5, <1>13
<1>21. ASSUME NEW d \in Crons PROVE PassAgrees(d)'
  <2>1. PassAgrees(d) /\ (passes'[d] # NoPass => passes[d] # NoPass /\ passes'[d].at = passes[d].at)
    BY <1>1, <1>3, <1>13 DEF AlertInv
  <2>2. \A u \in Targets, j \in Kinds : Flies(passes'[d], u, j) => passes'[d] # NoPass
    BY DEF Flies, NoPass
  <2> QED
    BY <1>1, <1>18, <1>20, <2>1, <2>2 DEF PassAgrees
<1>22. FliesAlone'
  BY <1>1, <1>20 DEF FliesAlone
<1>23. ASSUME NEW u \in Targets, NEW j \in Kinds PROVE Announcing(u, j)'
  BY <1>1, <1>18, <1>19, <1>20 DEF AlertInv, Announcing
<1> QED
  BY <1>15, <1>16, <1>17, <1>21, <1>22, <1>23 DEF AlertInv

-----------------------------------------------------------------------------
(* What other writers do, and time.                                          *)

LEMMA WritersHold ==
  ASSUME AlertInv, CheckBreach \/ OtherWriters
  PROVE  AlertInv'
<1>1. /\ AlertVarsOK /\ DueFollowsTime /\ MarksAgree
      /\ UNCHANGED <<time, marks, passes, announced, claimed, died>>
  BY DEF AlertInv, CheckBreach, OtherWriters
<1>2. breach' \in BOOLEAN /\ (breach => breach')
  BY <1>1 DEF CheckBreach, OtherWriters, AlertVarsOK
<1>3. facts' \in FactRow /\ DueFollowsTime'
  <2>1. CASE CheckBreach
    BY <1>1, <2>1 DEF CheckBreach, AlertVarsOK, DueFollowsTime
  <2>2. facts \in FactRow /\ time \in 0 .. LastTime /\ LastTime \in Nat /\ Never = -1 /\ Due["RESOLUTION"] \in 0 .. LastTime
    BY <1>1, AlertConstants DEF AlertVarsOK
  <2>3. PICK p \in Never .. LastTime, due \in 0 .. 2 * LastTime : p = facts.pausedAt /\ due = facts.due
    BY <2>2 DEF FactRow
  <2>4. CASE OtherWriters /\ p = Never /\ facts' = [facts EXCEPT !.pausedAt = time]
    <3>1. time \in Never .. LastTime
      BY <2>2
    <3>2. facts' \in FactRow /\ facts'.due = due /\ facts'.pausedAt = time
      BY <2>2, <2>3, <2>4, <3>1 DEF FactRow
    <3> QED
      BY <1>1, <2>2, <2>3, <2>4, <3>2 DEF DueFollowsTime
  <2>5. CASE OtherWriters /\ p # Never /\ facts' = [facts EXCEPT !.pausedAt = Never, !.due = @ + (time - facts.pausedAt)]
    <3>1. due >= Due["RESOLUTION"] /\ p <= time /\ due - Due["RESOLUTION"] <= p
      BY <1>1, <2>3, <2>5 DEF DueFollowsTime
    <3>2. PICK later \in 0 .. 2 * LastTime : later = due + (time - p)
      BY <2>2, <2>3, <3>1
    <3>3. PICK none \in Never .. LastTime : none = Never
      BY <2>2
    <3>4. facts' = [facts EXCEPT !.pausedAt = none, !.due = later]
      BY <2>3, <2>5, <3>2, <3>3
    <3>5. facts' \in FactRow /\ facts'.due = later /\ facts'.pausedAt = Never
      BY <2>2, <3>3, <3>4 DEF FactRow
    <3> QED
      BY <1>1, <2>2, <2>3, <3>1, <3>2, <3>5 DEF DueFollowsTime
  <2>6. CASE OtherWriters /\ (facts' = [facts EXCEPT !.replied = TRUE] \/ facts' = [facts EXCEPT !.open = FALSE])
    <3>1. facts' \in FactRow /\ facts'.due = facts.due /\ facts'.pausedAt = facts.pausedAt
      BY <2>2, <2>6 DEF FactRow
    <3> QED
      BY <1>1, <3>1 DEF DueFollowsTime
  <2> QED
    BY <2>1, <2>3, <2>4, <2>5, <2>6 DEF OtherWriters
<1>4. AlertVarsOK'
  BY <1>1, <1>2, <1>3 DEF AlertVarsOK
<1>5. MarksAgree'
  BY <1>1, <1>2 DEF MarksAgree, MarkAgrees
<1>6. FliesAlone' /\ \A c \in Crons : PassAgrees(c)'
  BY <1>1 DEF AlertInv, FliesAlone, PassAgrees
<1>7. ASSUME NEW t \in Targets, NEW k \in Kinds PROVE Announcing(t, k)'
  BY <1>1 DEF AlertInv, Announcing
<1> QED
  BY <1>3, <1>4, <1>5, <1>6, <1>7 DEF AlertInv

LEMMA TickHolds ==
  ASSUME AlertInv, AlertTick
  PROVE  AlertInv'
<1>1. /\ AlertVarsOK /\ DueFollowsTime /\ MarksAgree /\ time < LastTime /\ time' = time + 1
      /\ UNCHANGED <<facts, marks, breach, passes, announced, claimed, died>>
      /\ \A c \in Crons : passes[c] # NoPass => passes[c].at = time
  BY DEF AlertInv, AlertTick, At
<1>2. time \in 0 .. LastTime /\ time \in Int /\ LastTime \in Nat /\ facts \in FactRow /\ Due["RESOLUTION"] \in Int
  BY <1>1, AlertConstants DEF AlertVarsOK
<1>3. AlertVarsOK'
  <2>1. time' \in 0 .. LastTime
    BY <1>1, <1>2
  <2> QED
    BY <1>1, <2>1 DEF AlertVarsOK
<1>4. DueFollowsTime'
  <2>1. facts.due \in Int /\ facts.pausedAt \in Int
    BY <1>2, AlertConstants DEF FactRow
  <2> QED
    BY <1>1, <1>2, <2>1 DEF DueFollowsTime
<1>5. ASSUME NEW t \in Targets PROVE MarkAgrees(marks[t], breach, claimed[t], time + 1, Due[t])
  <2>1. MarkAgrees(marks[t], breach, claimed[t], time, Due[t])
    BY <1>1 DEF MarksAgree
  <2>2. claimed[t]["BREACH"] \in Nat /\ marks[t] \in MarkRow /\ Due[t] \in Int
    BY <1>1, AlertConstants DEF AlertVarsOK, Kinds
  <2>3. Paced(claimed[t]["BREACH"], marks[t], time + 1, Due[t])
    BY <1>2, <2>1, <2>2, TimePaces DEF MarkAgrees
  <2> QED
    BY <2>1, <2>3 DEF MarkAgrees
<1>6. MarksAgree'
  BY <1>1, <1>5 DEF MarksAgree
<1>7. ASSUME NEW c \in Crons PROVE PassAgrees(c)'
  <2>1. passes[c] # NoPass => passes[c].at \in {time' - 1, time'}
    BY <1>1, <1>2
  <2> QED
    BY <1>1, <2>1 DEF AlertInv, PassAgrees
<1>8. FliesAlone'
  BY <1>1 DEF AlertInv, FliesAlone
<1>9. ASSUME NEW t \in Targets, NEW k \in Kinds PROVE Announcing(t, k)'
  BY <1>1 DEF AlertInv, Announcing
<1> QED
  BY <1>3, <1>4, <1>6, <1>7, <1>8, <1>9 DEF AlertInv

LEMMA AlertStepHolds == AlertInv /\ [AlertNext]_alertVars => AlertInv'
<1> SUFFICES ASSUME AlertInv, [AlertNext]_alertVars PROVE AlertInv'
  OBVIOUS
<1>1. ASSUME NEW c \in Crons, BeginPass(c) \/ FindAlert(c) \/ Notify(c) \/ KillPass(c) PROVE AlertInv'
  BY <1>1, PassesRun
<1>2. ASSUME NEW c \in Crons, ClaimAlert(c) PROVE AlertInv'
  <2>1. CASE Wanted(c)
    BY <1>2, <2>1, ClaimHolds DEF ClaimAlert
  <2>2. CASE ~Wanted(c)
    <3>1. passes[c].pc = "claim" /\ NextStage(c) /\ UNCHANGED <<time, facts, marks, breach, announced, claimed, died>>
      BY <1>2, <2>2 DEF ClaimAlert
    <3>2. passes[c] \in PassRow /\ passes[c] # NoPass /\ \A t \in Targets, k \in Kinds : ~Flies(passes[c], t, k)
      BY <3>1, PassesStay, PassFields DEF NoPass
    <3>3. PICK q \in {NoPass} \cup PassRow :
             /\ passes' = [passes EXCEPT ![c] = q] /\ (q # NoPass => q.at = passes[c].at)
             /\ \A t \in Targets, k \in Kinds : ~Flies(q, t, k)
      BY <3>1, <3>2, NextStageIs
    <3>4. PassAgrees(c) /\ announced \subseteq Targets \X Kinds /\ died \in BOOLEAN
      BY DEF AlertInv, AlertVarsOK
    <3>5. PassMoves(c, q)
      BY <3>1, <3>2, <3>3, <3>4 DEF PassMoves, PassAgrees
    <3> QED
      BY <3>5, PassesMove
  <2> QED
    BY <2>1, <2>2
<1>3. ASSUME NEW c \in Crons, ReleaseAlert(c) PROVE AlertInv'
  BY <1>3, ReleaseHolds
<1>4. CASE CheckBreach \/ OtherWriters
  BY <1>4, WritersHold
<1>5. CASE AlertTick
  BY <1>5, TickHolds
<1>6. CASE UNCHANGED alertVars
  BY <1>6 DEF alertVars, AlertInv, AlertVarsOK, DueFollowsTime, MarksAgree, PassAgrees, FliesAlone, Announcing
<1> QED
  BY <1>1, <1>2, <1>3, <1>4, <1>5, <1>6 DEF AlertNext

LEMMA AlertHolds == AlertInv => AlertTypeOK /\ MarkImpliesFlag /\ AlertsPaced /\ MarkedWasAnnounced
<1> SUFFICES ASSUME AlertInv PROVE AlertTypeOK /\ MarkImpliesFlag /\ AlertsPaced /\ MarkedWasAnnounced
  OBVIOUS
<1>1. AlertVarsOK /\ \A t \in Targets : MarkAgrees(marks[t], breach, claimed[t], time, Due[t])
  BY DEF AlertInv, MarksAgree
<1>2. AlertTypeOK
  BY <1>1 DEF AlertVarsOK, AlertTypeOK, MarkAgrees, FactRow, MarkRow, PassRow
<1>3. MarkImpliesFlag
  BY <1>1 DEF MarkImpliesFlag, MarkAgrees
<1>4. AlertsPaced
  <2> SUFFICES ASSUME NEW t \in Targets
      PROVE  /\ claimed[t]["WARNING"] <= 1
             /\ claimed[t]["BREACH"] # 0 => (claimed[t]["BREACH"] - 1) * Repeat < time - Due[t]
    BY DEF AlertsPaced
  <2>1. claimed[t]["WARNING"] \in Nat /\ claimed[t]["BREACH"] \in Nat
    BY <1>1 DEF AlertVarsOK, Kinds
  <2> QED
    BY <1>1, <2>1 DEF MarkAgrees, Paced
<1>5. MarkedWasAnnounced
  BY DEF AlertInv, Announcing, MarkedWasAnnounced, HasMark, Flies, Target, AlertKind
<1> QED
  BY <1>2, <1>3, <1>4, <1>5

-----------------------------------------------------------------------------
(* A step of the joint specification is one of the component in focus, the   *)
(* others keep their state.                                                  *)

AdministrationInv ==
  /\ AccountInv /\ CopyInv /\ RequestersInv /\ ChallengesInv /\ IntegrationsInv /\ KnowledgeInv
  /\ BotInv /\ DashInv /\ MigrationsInv /\ AlertInv

(* Begins and Moves let the components start anyhow and step in any          *)
(* combination; the model checker's focus and its smaller initial states are *)
(* a case of it.                                                             *)
Begins ==
  /\ AccountInit /\ RealmEventsInit /\ RequestersInit /\ IntegrationsInit /\ KnowledgeInit
  /\ BotInit /\ DashInit /\ MigrationsInit /\ AlertInit

Moves ==
  /\ [AccountNext]_accountVars /\ [CopyNext]_copyVars /\ [RequestersNext]_reqVars
  /\ [IntegrationsNext]_integrationVars /\ [KnowledgeNext]_knowledgeVars /\ [BotNext]_botVars
  /\ [DashNext]_dashVars /\ [MigrationsNext]_migrationVars /\ [AlertNext]_alertVars

LEMMA AdministrationBegins == Begins => AdministrationInv
BY AccountInitHolds, CopyInitHolds, RequestersInitHolds, ChallengesInitHolds, IntegrationsInitHolds, KnowledgeInitHolds,
   BotInitHolds, DashInitHolds, MigrationsInitHolds, AlertInitHolds
   DEF Begins, AdministrationInv

LEMMA AdministrationSteps == AdministrationInv /\ Moves => AdministrationInv'
<1> SUFFICES ASSUME AdministrationInv, Moves PROVE AdministrationInv'
  OBVIOUS
<1>2. AccountInv' /\ CopyInv' /\ RequestersInv' /\ ChallengesInv'
  BY AccountStepHolds, CopyStepHolds, RequestersStepHolds, ChallengesStepHolds DEF Moves, AdministrationInv
<1>3. IntegrationsInv' /\ KnowledgeInv' /\ BotInv'
  BY IntegrationsStepHolds, KnowledgeStepHolds, BotStepHolds DEF Moves, AdministrationInv
<1>4. DashInv' /\ MigrationsInv' /\ AlertInv'
  BY DashStepHolds, MigrationsStepHolds, AlertStepHolds DEF Moves, AdministrationInv
<1> QED
  BY <1>2, <1>3, <1>4 DEF AdministrationInv

LEMMA FocusIsACase == (Init => Begins) /\ ([Next]_vars => Moves)
BY DEF Init, Begins, Next, Moves, vars

(* However the nine components interleave, the inductive invariant holds.  *)
THEOREM AdministrationTogether == Begins /\ [][Moves]_vars => []AdministrationInv
<1>1. AdministrationInv /\ [Moves]_vars => AdministrationInv'
  BY AdministrationSteps DEF Moves, vars
<1> QED
  BY <1>1, AdministrationBegins, PTL

(* The inductive invariant of the administration holds in every reachable    *)
(* state.                                                                    *)
THEOREM AdministrationInvariant == Spec => []AdministrationInv
<1>1. [][Next]_vars => [][Moves]_vars
  BY FocusIsACase, PTL
<1> QED
  BY <1>1, FocusIsACase, AdministrationTogether, PTL DEF Spec

(* In every reachable state the variables of the nine components have their  *)
(* types.                                                                    *)
THEOREM AdministrationTypes == Spec => []AdministrationTypesOK
<1>1. AdministrationInv => AdministrationTypesOK
  BY AccountHolds, CopyHolds, RequestersHold, IntegrationsHold, KnowledgeHolds, BotHolds, DashHolds,
     MigrationsHold, AlertHolds
     DEF AdministrationInv, AdministrationTypesOK
<1> QED
  BY <1>1, AdministrationInvariant, PTL

(* Between operations that nothing crossed and that did not fail, Keycloak   *)
(* grants what the row of an account says, never two roles, and every live   *)
(* account is provisioned; its events are copied once, all but those of a    *)
(* burst longer than the page that is read.                                  *)
THEOREM AccountsAgreeWithRealm == Spec => []AccountsFollow
<1>1. AdministrationInv => AccountsFollow
  BY AccountHolds, CopyHolds DEF AdministrationInv, AccountsFollow
<1> QED
  BY <1>1, AdministrationInvariant, PTL

(* Unless operations that held one profile overlapped: merging leaves        *)
(* nothing behind (a target merged before excepted), anonymisation only the  *)
(* address in VERIFIED challenges, and the retention spares who has an open  *)
(* ticket; and in every case a contact has one profile.                      *)
THEOREM ProfilesAreKept == Spec => []ProfilesHold
<1>1. AdministrationInv => ProfilesHold
  BY RequestersHold DEF AdministrationInv, ProfilesHold
<1> QED
  BY <1>1, AdministrationInvariant, PTL

(* For any number of handlers at once: secrets serve their grace and no more,*)
(* a site is active only with a secret and against no suspension but one that *)
(* an edit read the status before; an article is in the text and state last  *)
(* asked for, except what a stale save put back, and all that was shown is   *)
(* in its history; the assistant calls out no more than its budget, its      *)
(* circuit and the calls under way allow.                                    *)
THEOREM SitesGetTheirDue == Spec => []SitesAreServed
<1>1. AdministrationInv => SitesAreServed
  BY IntegrationsHold, KnowledgeHolds, BotHolds DEF AdministrationInv, SitesAreServed
<1> QED
  BY <1>1, AdministrationInvariant, PTL

(* For any set of tickets and any number of writes: figures of a page read   *)
(* one by one disagree by no more than the changes made meanwhile, count     *)
(* nothing outside the reader's scope (but on the pages without one, and the *)
(* reopenings of agents), and an agent has one line.                         *)
THEOREM PagesAddUp == Spec => []PagesAgree
<1>1. AdministrationInv => PagesAgree
  BY DashHolds DEF AdministrationInv, PagesAgree
<1> QED
  BY <1>1, AdministrationInvariant, PTL

(* However deployments overlap and die, the journal of migrations says no    *)
(* more than the schema and its data have; and it lacks no migration that the*)
(* schema has and that cannot run again, but on a database baselined at 0010 *)
(* to 0019.                                                                  *)
THEOREM DatabaseCanBeMigrated == Spec => []DatabaseStaysMigratable
<1>1. AdministrationInv => DatabaseStaysMigratable
  BY MigrationsHold DEF AdministrationInv, DatabaseStaysMigratable
<1> QED
  BY <1>1, AdministrationInvariant, PTL

(* Whatever passes overlap, fail, or die, and whatever pauses and replies    *)
(* come in between: a breached target has its flag, a target is warned once  *)
(* and reminded no sooner than Repeat, and a mark that stays was announced   *)
(* unless a pass died.                                                       *)
THEOREM AlertsAreKept == Spec => []AlertsHold
<1>1. AdministrationInv => AlertsHold
  BY AlertHolds DEF AdministrationInv, AlertsHold
<1> QED
  BY <1>1, AdministrationInvariant, PTL
=============================================================================
