------------------------------- MODULE Throttler ------------------------------
(* The counter of the request limiter (throttler-storage-redis.provider):    *)
(* one key, shared in Redis, with a counter of its own in each process for   *)
(* when Redis fails.                                                         *)
EXTENDS Integers, FiniteSets

CONSTANTS
    Callers,       \* requests that can be counted at once, each in its process
    Limit, Window, \* requests per window; its length
    MaxRequests,   \* a bound on the requests
    LastSecond     \* a bound on the clock

ASSUME ThrottlerAssumption == Limit \in Nat \ {0} /\ Window \in Nat \ {0} /\ MaxRequests \in Nat /\ LastSecond \in Nat

VARIABLES
    second,
    key,           \* the Redis key: its hits, and when it expires (0: no expiry)
    memory,        \* memory[c]: memoryFallback of the process of c
    request,       \* request[c]: the increment under way
    counted,       \* requests let through on Redis in the present life of the key
    uncounted,     \* those of them let through without an answer to INCR
    served,        \* served[c]: let through by the present entry of the process
    requests,      \* requests received
    unexpired      \* the key was left without expiry: its EXPIRE was never made

throttleVars == <<second, key, memory, request, counted, uncounted, served, requests, unexpired>>

NoKey == [hits |-> 0, until |-> 0]
Stages == {"idle", "expire", "lost", "failed", "block", "memory"}

ThrottleTypeOK ==
    /\ second \in 0 .. LastSecond /\ requests \in 0 .. MaxRequests /\ unexpired \in BOOLEAN
    /\ key \in [hits: 0 .. MaxRequests, until: 0 .. LastSecond + Window]
    /\ key.hits = 0 => key.until = 0 /\ counted = 0 /\ uncounted = 0
    /\ memory \in [Callers -> [hits: 0 .. MaxRequests, until: 0 .. LastSecond + Window]]
    /\ request \in [Callers -> Stages]
    /\ counted \in Nat /\ uncounted \in Nat /\ served \in [Callers -> 0 .. MaxRequests]

ThrottleInit ==
    /\ second = 0 /\ requests = 0 /\ unexpired = FALSE
    /\ key = NoKey /\ counted = 0 /\ uncounted = 0
    /\ memory = [c \in Callers |-> NoKey] /\ served = [c \in Callers |-> 0]
    /\ request = [c \in Callers |-> "idle"]

Stage(c, pc) == request' = [request EXCEPT ![c] = pc]
Arrives(c) == request[c] = "idle" /\ requests < MaxRequests /\ requests' = requests + 1

First(hits) == hits = 1

(* EXPIRE takes seconds where the caller gives milliseconds.                 *)
Ends(at) == at + Window

Unbounded(k) == k.hits > 0 /\ k.until = 0

(* INCR and TTL in a pipeline; past the limit the request is blocked.        *)
CountInRedis(c) ==
    LET hits == key.hits + 1 IN
    /\ Arrives(c)
    /\ key' = [key EXCEPT !.hits = hits]
    /\ Stage(c, IF First(hits) THEN "expire" ELSE IF hits > Limit THEN "block" ELSE "idle")
    /\ counted' = IF hits <= Limit THEN counted + 1 ELSE counted
    /\ UNCHANGED <<second, memory, uncounted, served, unexpired>>

(* The pipeline resolves with an error for INCR, which is taken for a first  *)
(* hit; the command may have been applied all the same.                      *)
CountFails(c) ==
    /\ Arrives(c)
    /\ \/ Stage(c, "lost") /\ key' = [key EXCEPT !.hits = @ + 1]
       \/ Stage(c, "failed") /\ UNCHANGED key
    /\ UNCHANGED <<second, memory, counted, uncounted, served, unexpired>>

Renewed == IF key = NoKey THEN key ELSE [key EXCEPT !.until = Ends(second)]
Owes(c) == request[c] \in {"expire", "lost"}
LetThrough(c) == request[c] # "expire" /\ key # NoKey

(* A first hit, or what passes for one, sets the expiry. A request whose     *)
(* INCR failed is let through on that EXPIRE alone, whatever the key says,   *)
(* and renews its window. If EXPIRE fails too, or its answer is lost, the    *)
(* request is counted again in memory.                                       *)
ExpireKey(c) ==
    /\ request[c] \in {"expire", "lost", "failed"}
    /\ \/ /\ Stage(c, "idle") /\ key' = Renewed
          /\ counted' = IF LetThrough(c) THEN counted + 1 ELSE counted
          /\ uncounted' = IF LetThrough(c) THEN uncounted + 1 ELSE uncounted
       \/ Stage(c, "memory") /\ key' \in {key, Renewed} /\ UNCHANGED <<counted, uncounted>>
    /\ unexpired' = ((unexpired \/ Owes(c)) /\ Unbounded(key'))
    /\ UNCHANGED <<second, memory, served, requests>>

(* The mark of a blocked client is written and never read; but if that fails *)
(* the request is counted again in memory, and may be let through there.     *)
MarkBlocked(c) ==
    /\ request[c] = "block" /\ (Stage(c, "idle") \/ Stage(c, "memory"))
    /\ UNCHANGED <<second, key, memory, counted, uncounted, served, requests, unexpired>>

EntryHolds(c) == memory[c].hits > 0 /\ second < memory[c].until

(* incrementInMemory: an entry that has expired is started again.            *)
CountInMemory(c) ==
    LET hits == memory[c].hits + 1 IN
    /\ request[c] = "memory" /\ Stage(c, "idle")
    /\ IF EntryHolds(c)
       THEN /\ memory' = [memory EXCEPT ![c].hits = hits]
            /\ served' = [served EXCEPT ![c] = IF hits <= Limit THEN @ + 1 ELSE @]
       ELSE /\ memory' = [memory EXCEPT ![c] = [hits |-> 1, until |-> Ends(second)]]
            /\ served' = [served EXCEPT ![c] = 1]
    /\ UNCHANGED <<second, key, counted, uncounted, requests, unexpired>>

(* The process stops: its memory is gone.                                    *)
StopCaller(c) ==
    /\ request[c] # "idle" \/ memory[c] # NoKey
    /\ Stage(c, "idle")
    /\ memory' = [memory EXCEPT ![c] = NoKey] /\ served' = [served EXCEPT ![c] = 0]
    /\ unexpired' = ((unexpired \/ Owes(c)) /\ Unbounded(key))
    /\ UNCHANGED <<second, key, counted, uncounted, requests>>

(* Redis drops the key when its time comes.                                  *)
NextSecond ==
    /\ second < LastSecond /\ second' = second + 1
    /\ IF key.until = second + 1 THEN key' = NoKey /\ counted' = 0 /\ uncounted' = 0
       ELSE UNCHANGED <<key, counted, uncounted>>
    /\ UNCHANGED <<memory, request, served, requests, unexpired>>

ThrottleNext ==
    \/ \E c \in Callers : CountInRedis(c) \/ CountFails(c) \/ ExpireKey(c) \/ MarkBlocked(c) \/ CountInMemory(c) \/ StopCaller(c)
    \/ NextSecond

ThrottleSpec == ThrottleInit /\ [][ThrottleNext]_throttleVars

-----------------------------------------------------------------------------

(* However requests cross and Redis comes and goes, one life of the key lets *)
(* Limit requests through and those whose INCR got no answer, and one life   *)
(* of a process's own entry lets Limit requests through.                     *)
LimitPerWindow == counted <= Limit + uncounted /\ \A c \in Callers : served[c] <= Limit

(* The key that blocks a client always ends, except when its first increment *)
(* stopped or failed before EXPIRE: then nothing sets the expiry, unless an  *)
(* INCR that fails later does.                                               *)
KeyExpires == Unbounded(key) => unexpired \/ \E c \in Callers : Owes(c)
=============================================================================
