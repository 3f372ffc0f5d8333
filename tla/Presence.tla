------------------------------- MODULE Presence -------------------------------
(* Who is connected to the staff WebSocket (websocket.gateway), and the      *)
(* worker that stores a notification and pushes it to a connected user: one  *)
(* user, several sockets, several processes behind the same queue, which     *)
(* takes a job back when its run is stopped or seems to be (a stall).        *)
EXTENDS Integers, FiniteSets

CONSTANTS
    Hosts,         \* processes of the backend
    Sockets,       \* sockets the user opens, each once
    Pushes         \* notifications queued for the user

ASSUME PresenceAssumption == IsFiniteSet(Sockets)

VARIABLES
    socket,        \* socket[s]: its host, whether it is open, its handleConnection
    clients,       \* clients[h]: connectedClients and socketToUser of the process
    gauge,         \* gauge[h]: the wsConnections metric
    dropped,       \* sockets that closed before their handleConnection registered them
    job,           \* job[j]: what the queue knows of the notification job
    run,           \* run[r]: where a run of a job is, and the process it is in
    saved,         \* saved[r]: rows inserted by the run
    pushed,        \* pushed[j]: the sockets that were sent it
    taken          \* taken[j]: how often the queue took the job back from a run

presenceVars == <<socket, clients, gauge, dropped, job, run, saved, pushed, taken>>

Unopened == [pc |-> "unopened"]
NotRun == [pc |-> "none"]
Runs == Pushes \X {1, 2}

PresenceTypeOK ==
    /\ socket \in [Sockets -> {Unopened} \cup [pc: {"auth", "join", "done", "refused"}, host: Hosts, open: BOOLEAN]]
    /\ clients \in [Hosts -> SUBSET Sockets]
    /\ \A h \in Hosts : \A s \in clients[h] : socket[s].pc = "done" /\ socket[s].host = h
    /\ gauge \in [Hosts -> Int] /\ dropped \subseteq Sockets
    /\ job \in [Pushes -> {"queued", "active", "done", "failed"}]
    /\ run \in [Runs -> {NotRun} \cup [pc: {"insert", "push"}, host: Hosts]]
    /\ saved \in [Runs -> {0, 1}] /\ pushed \in [Pushes -> SUBSET Sockets] /\ taken \in [Pushes -> 0 .. 2]

PresenceInit ==
    /\ socket = [s \in Sockets |-> Unopened]
    /\ clients = [h \in Hosts |-> {}] /\ gauge = [h \in Hosts |-> 0] /\ dropped = {}
    /\ job = [j \in Pushes |-> "queued"] /\ run = [r \in Runs |-> NotRun]
    /\ saved = [r \in Runs |-> 0] /\ pushed = [j \in Pushes |-> {}] /\ taken = [j \in Pushes |-> 0]

notificationVars == <<job, run, saved, pushed, taken>>

OpenSocket(s, h) ==
    /\ socket[s] = Unopened
    /\ socket' = [socket EXCEPT ![s] = [pc |-> "auth", host |-> h, open |-> TRUE]]
    /\ UNCHANGED <<clients, gauge, dropped, notificationVars>>

(* authenticate: the cookie, Keycloak's keys, then the user's row. A refused *)
(* socket is disconnected, in the same step as the catch.                    *)
Authenticate(s) ==
    /\ socket[s].pc = "auth"
    /\ \/ socket' = [socket EXCEPT ![s].pc = "join"]
       \/ socket' = [socket EXCEPT ![s].pc = "refused", ![s].open = FALSE]
    /\ UNCHANGED <<clients, gauge, dropped, notificationVars>>

(* After the last join the socket is registered, whether or not it is still  *)
(* there: handleDisconnect may have run while handleConnection waited.       *)
Register(s) ==
    LET h == socket[s].host IN
    /\ socket[s].pc = "join"
    /\ socket' = [socket EXCEPT ![s].pc = "done"]
    /\ clients' = [clients EXCEPT ![h] = @ \cup {s}]
    /\ gauge' = [gauge EXCEPT ![h] = @ + 1]
    /\ UNCHANGED <<dropped, notificationVars>>

(* handleDisconnect, from socketToUser.                                      *)
Unregister(s, h) ==
    /\ clients' = [clients EXCEPT ![h] = @ \ {s}]
    /\ gauge' = [gauge EXCEPT ![h] = IF s \in clients[h] THEN @ - 1 ELSE @]

MutHandleDisconnect(s) ==
    /\ socket[s].pc \notin {"unopened", "refused"} /\ socket[s].open
    /\ socket' = [socket EXCEPT ![s].open = FALSE]
    /\ UNCHANGED <<clients, gauge, dropped, notificationVars>>

HandleDisconnect(s) ==
    /\ socket[s].pc \notin {"unopened", "refused"} /\ socket[s].open
    /\ socket' = [socket EXCEPT ![s].open = FALSE]
    /\ Unregister(s, socket[s].host)
    /\ dropped' = IF socket[s].pc = "done" THEN dropped ELSE dropped \cup {s}
    /\ UNCHANGED notificationVars

(* The run that the queue waits for: an earlier one is a stalled run.        *)
CurrentRun(j) == <<j, taken[j] + 1>>
Holds(r) == job[r[1]] = "active" /\ r = CurrentRun(r[1])

TakeJob(j, h) ==
    /\ job[j] = "queued"
    /\ job' = [job EXCEPT ![j] = "active"]
    /\ run' = [run EXCEPT ![CurrentRun(j)] = [pc |-> "insert", host |-> h]]
    /\ UNCHANGED <<socket, clients, gauge, dropped, saved, pushed, taken>>

(* A run ends: only the one the queue waits for settles the job.             *)
SettleRun(r, outcome) ==
    /\ run' = [run EXCEPT ![r] = NotRun]
    /\ job' = IF Holds(r) THEN [job EXCEPT ![r[1]] = outcome] ELSE job

Insert(r) == saved' = [saved EXCEPT ![r] = @ + 1]

(* The job has one attempt: an INSERT that fails, or whose answer is lost,   *)
(* ends it.                                                                  *)
StoreNotification(r) ==
    /\ run[r].pc = "insert"
    /\ \/ run' = [run EXCEPT ![r].pc = "push"] /\ Insert(r) /\ UNCHANGED job
       \/ SettleRun(r, "failed") /\ (Insert(r) \/ UNCHANGED saved)
    /\ UNCHANGED <<socket, clients, gauge, dropped, pushed, taken>>

(* isUserConnected asks this process only; the rooms reach every process.    *)
PushNotification(r) ==
    /\ run[r].pc = "push" /\ SettleRun(r, "done")
    /\ pushed' = [pushed EXCEPT ![r[1]] = IF clients[run[r].host] = {} THEN @
                     ELSE @ \cup {s \in Sockets : socket[s].pc \in {"join", "done"} /\ socket[s].open}]
    /\ UNCHANGED <<socket, clients, gauge, dropped, saved, taken>>

(* The queue takes a job back once (maxStalledCount is 1).                   *)
JobAfterStop(j) == IF taken[j] = 0 THEN "queued" ELSE "failed"
TakeBack(js) ==
    /\ job' = [j \in Pushes |-> IF j \in js THEN JobAfterStop(j) ELSE job[j]]
    /\ taken' = [j \in Pushes |-> IF j \in js THEN taken[j] + 1 ELSE taken[j]]

(* The lock of a job runs out while its process lives: its run goes on.      *)
StallJob(j) ==
    /\ job[j] = "active" /\ TakeBack({j})
    /\ UNCHANGED <<socket, clients, gauge, dropped, run, saved, pushed>>

(* A process stops: its sockets close, its maps, metric and calls are gone.  *)
StopHost(h) ==
    LET mine == {s \in Sockets : socket[s].pc # "unopened" /\ socket[s].host = h}
        cut == {r \in Runs : run[r].pc # "none" /\ run[r].host = h}
    IN /\ cut # {} \/ clients[h] # {}
       /\ socket' = [s \in Sockets |-> IF s \in mine THEN [socket[s] EXCEPT !.pc = "refused", !.open = FALSE]
                                                     ELSE socket[s]]
       /\ clients' = [clients EXCEPT ![h] = {}] /\ gauge' = [gauge EXCEPT ![h] = 0]
       /\ run' = [r \in Runs |-> IF r \in cut THEN NotRun ELSE run[r]]
       /\ TakeBack({j \in Pushes : CurrentRun(j) \in cut /\ Holds(CurrentRun(j))})
       /\ UNCHANGED <<dropped, saved, pushed>>

PresenceNext ==
    \/ \E s \in Sockets, h \in Hosts : OpenSocket(s, h)
    \/ \E s \in Sockets : Authenticate(s) \/ Register(s) \/ HandleDisconnect(s)
    \/ \E j \in Pushes, h \in Hosts : TakeJob(j, h)
    \/ \E r \in Runs : StoreNotification(r) \/ PushNotification(r)
    \/ \E j \in Pushes : StallJob(j)
    \/ \E h \in Hosts : StopHost(h)

PresenceSpec == PresenceInit /\ [][PresenceNext]_presenceVars

-----------------------------------------------------------------------------

(* The connection metric counts what the process believes connected, through *)
(* refusals, disconnections during authentication and repeated events.       *)
GaugeCountsClients == \A h \in Hosts : gauge[h] = Cardinality(clients[h])

(* The user is taken for connected only through sockets that are open, or    *)
(* that closed during their handleConnection: those stay until the process   *)
(* stops, and the user looks connected to it for as long.                    *)
ClientsAreOpenUnlessOvertaken ==
    \A h \in Hosts : \A s \in clients[h] : socket[s].open \/ s \in dropped

(* A notification pushed to a browser is in the list the browser then reads, *)
(* once, and again only for each time the queue took its job back: then the  *)
(* run it was taken from may have stored a row, and may still.               *)
PushedIsStoredOnce ==
    /\ \A j \in Pushes : pushed[j] # {} => \E r \in Runs : r[1] = j /\ saved[r] > 0
    /\ \A r \in Runs : saved[r] > 0 => saved[r] = 1 /\ r[2] <= 1 + taken[r[1]]
=============================================================================
