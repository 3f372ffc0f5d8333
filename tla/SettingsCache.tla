----------------------------- MODULE SettingsCache ----------------------------
(* The in-memory cache of settings.service: one key of the settings table,   *)
(* read and written through several processes, each with its own cache.      *)
EXTENDS Integers, FiniteSets

CONSTANTS
    Replicas,      \* processes of the backend
    Askers,         \* calls that can run at once
    TTL,           \* CACHE_TTL
    LastInstant,   \* a bound on the clock
    Writes         \* a bound on the writes

ASSUME SettingsAssumption == TTL \in Nat \ {0} /\ LastInstant \in Nat /\ Writes \in Nat

Default == 0       \* what the callers pass when there is no row

VARIABLES
    instant,
    setting,       \* the value of the row, numbered by its write; Default: no row
    replacedAt,    \* replacedAt[v]: when the value v stopped being the row's
    cache,         \* cache[r]: the value a process holds, until when
    asking,        \* asking[c]: the call under way
    inserted       \* rows inserted for the key

settingsVars == <<instant, setting, replacedAt, cache, asking, inserted>>

Values == 0 .. Writes
Current(v) == replacedAt[v] = -1
NoEntry == [value |-> Default, until |-> 0]
NotAsking == [pc |-> "idle"]

SettingsTypeOK ==
    /\ instant \in 0 .. LastInstant /\ setting \in Values
    /\ replacedAt \in [Values -> -1 .. LastInstant]
    /\ cache \in [Replicas -> [value: Values, until: 0 .. LastInstant + TTL]]
    /\ asking \in [Askers -> {NotAsking} \cup [pc: {"read"}, at: Replicas, now: 0 .. LastInstant]
                     \cup [pc: {"store"}, at: Replicas, now: 0 .. LastInstant, value: Values]
                     \cup [pc: {"write"}, at: Replicas, exists: BOOLEAN] \cup [pc: {"forget"}, at: Replicas]]
    /\ inserted \in 0 .. 1 /\ (inserted = 0 <=> setting = Default)

SettingsInit ==
    /\ instant = 0 /\ setting = Default /\ inserted = 0
    /\ replacedAt = [v \in Values |-> -1]
    /\ cache = [r \in Replicas |-> NoEntry]
    /\ asking = [c \in Askers |-> NotAsking]

Asks(c, a) == asking' = [asking EXCEPT ![c] = a]

(* getSetting: the clock is taken before the read.                           *)
MissCache(c, r) ==
    /\ asking[c] = NotAsking /\ instant >= cache[r].until
    /\ Asks(c, [pc |-> "read", at |-> r, now |-> instant])
    /\ UNCHANGED <<instant, setting, replacedAt, cache, inserted>>

(* On an error the default is answered and nothing is cached.                *)
ReadSetting(c) ==
    /\ asking[c].pc = "read"
    /\ \/ Asks(c, [pc |-> "store", at |-> asking[c].at, now |-> asking[c].now, value |-> setting])
       \/ Asks(c, NotAsking)
    /\ UNCHANGED <<instant, setting, replacedAt, cache, inserted>>

Expiry(c) == asking[c].now + TTL

StoreSetting(c) ==
    /\ asking[c].pc = "store" /\ Asks(c, NotAsking)
    /\ cache' = [cache EXCEPT ![asking[c].at] = [value |-> asking[c].value, until |-> Expiry(c)]]
    /\ UNCHANGED <<instant, setting, replacedAt, inserted>>

FindSetting(c, r) ==
    /\ asking[c] = NotAsking
    /\ Asks(c, [pc |-> "write", at |-> r, exists |-> inserted > 0])
    /\ UNCHANGED <<instant, setting, replacedAt, cache, inserted>>

(* The key is unique: of two first writes, the second one fails.             *)
KeyTaken(c) == ~asking[c].exists /\ inserted > 0

WriteSetting(c) ==
    /\ asking[c].pc = "write" /\ setting < Writes
    /\ IF KeyTaken(c)
       THEN Asks(c, NotAsking) /\ UNCHANGED <<setting, replacedAt, inserted>>
       ELSE /\ Asks(c, [pc |-> "forget", at |-> asking[c].at])
            /\ setting' = setting + 1
            /\ replacedAt' = [replacedAt EXCEPT ![setting] = instant]
            /\ inserted' = IF asking[c].exists THEN inserted ELSE inserted + 1
    /\ UNCHANGED <<instant, cache>>

(* Only this process forgets the value it held.                              *)
ForgetSetting(c) ==
    /\ asking[c].pc = "forget" /\ Asks(c, NotAsking)
    /\ cache' = [cache EXCEPT ![asking[c].at] = NoEntry]
    /\ UNCHANGED <<instant, setting, replacedAt, inserted>>

NextInstant ==
    /\ instant < LastInstant /\ instant' = instant + 1
    /\ UNCHANGED <<setting, replacedAt, cache, asking, inserted>>

SettingsNext ==
    \/ \E c \in Askers, r \in Replicas : MissCache(c, r) \/ FindSetting(c, r)
    \/ \E c \in Askers : ReadSetting(c) \/ StoreSetting(c) \/ WriteSetting(c) \/ ForgetSetting(c)
    \/ NextInstant

SettingsSpec == SettingsInit /\ [][SettingsNext]_settingsVars

-----------------------------------------------------------------------------

(* An administrator's change is in force everywhere within CACHE_TTL: no     *)
(* process answers from its cache a value replaced TTL or longer ago, also   *)
(* when its read was slow or its deletion was overtaken by a stored read.    *)
ChangeInForceAfterTTL ==
    \A r \in Replicas :
        instant < cache[r].until /\ ~Current(cache[r].value)
           => instant < replacedAt[cache[r].value] + TTL
=============================================================================
