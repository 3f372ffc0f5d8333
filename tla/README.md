# TLA+ model of the telecom support backend

This directory specifies the backend of the repository: a NestJS application in
`src/src/` over PostgreSQL (rows, transactions, row locks), Redis (BullMQ
queues, counters), Keycloak, local object storage and SMTP.  The specifications
are translated from the code; where a document or a comment says something
else, section 5 says so, and a run shows it for the two that matter most.
`PROJECT.json` lists the components, the runs, the mutants of the runs, the
theorems, the hazards and, for each definition, the lines of code it models.

To check: `tlc -workers 2 -config <run>.cfg MC<Module>.tla` for a run,
`tlapm <Module>Proofs.tla` for the proofs of a module.

## 1. The system

### Components

| component | state | operations | talks to | what makes it correct |
|---|---|---|---|---|
| tickets | `tickets`, history, assignments | create, update, change status, assign, escalate, soft delete; routing of a ticket to an agent; the two-minute sweep | users and departments (reads), assignment queue, outbox (public events), sla | status, assignee, team, dates and SLA clock agree with each other, and where interleavings break that, only those do; nothing waiting is forgotten |
| sla | SLA columns and marks in `tickets.metadata`, `sla_policies` | warnings, breach alerts, reminders, auto-close after 48 h, due date in business hours | e-mail and notification queues, settings | no alert lost or sent twice too soon; only quiet tickets are closed; a due date is reached in working time |
| outbox | `outbox_events` | record (in the business transaction), claim with a lease, publish, fail with delay, give up | external-delivery and attachment-scan queues | an event is neither lost nor published without its job |
| external-delivery | `external_deliveries` | dispatch of one event as an e-mail, replay of the failed ones every minute | its queue, SMTP | nothing is called delivered that was not sent; bounded duplicates; every delivery settles |
| users | `users`, account in the realm | create, activate, deactivate, change role; availability, absence | Keycloak; read by routing and the sweep | the realm grants what the row says; an absent agent receives nothing |
| departments, categories | rows, routing settings, target roles | create, rename, remove | users, tickets, SLA policies | what is referred to is not removed |
| comments, internal-notes | `ticket_comments`, `support_messages` | create, correct, edit, remove | outbox, SLA (first response), attachments | what the requester was sent stays; each reply has its event |
| attachments | `attachments`, files in quarantine or clean | upload with a key and a quota, scan with a stale lease, promote, clean up | outbox, scan queue, ClamAV, disk | nothing infected becomes readable; a row has its file |
| notifications, audit-logs | `notifications`, `audit_logs` | listeners of ticket events, their jobs | queues, websocket | who is concerned is told, once; the trail is complete |
| auth | identity of a request | binding of a subject, poller of Keycloak events | Keycloak, audit-logs | each realm event is copied once |
| websocket | sockets of each process | connect, disconnect, push | notification worker | a closed socket is forgotten |
| email | compiled templates | the e-mail job, its fallback | SMTP | one mail per job |
| reports | `reports`, PDF files | request, weekly cron, job, signed link | report queue, email | a link that is sent works |
| dashboard | - | reads | tickets | the figures of a page agree |
| settings | rows, a 60 s cache per process | read, update | sla, tickets | a value is stale for 60 s at most |
| public-support | `support_conversations`, `support_messages` | open, draft, hand off, confirm (creates the ticket), comment | tickets, outbox | one ticket per conversation, the draft is frozen once confirmed |
| external-identity | challenges, sessions, trusted devices; nonces and quotas in Redis | one-time codes, assertions, transfer codes, rotation of device tokens | Redis, SMTP | one session per code, bounded tries, a token is used once |
| support-integrations | credentials, policies | create, update, rotate with grace, revoke | external-identity | only the current secret and those in grace are good |
| external-requesters | `external_requesters`, contacts | merge, anonymise, retention | tickets, devices | of an anonymised person nothing is left but what VERIFIED challenges keep; who has an open ticket is spared |
| support-satisfaction | `ticket_satisfaction` | creation of a link, answer through it | outbox | few links wait at once; only submissions that cross answer one twice |
| support-knowledge, support-bot | articles and versions; messages, circuit in memory | edit, publish; answer | public-support | the last version is shown in the state last asked for; the budget is not exceeded |
| common | `idempotency_records`, throttling counters | interceptor, storage of the limiter | all endpoints | one execution per key; a block ends |
| database | the schema and its journal | baseline, migrate | every start | a deployment that died can be resumed |
| queues, config, app, keycloak-theme, infrastructure | - | transport, start-up, presentation, deployment | | |

### How they interact

A handler of `tickets.controller.ts` runs `DepartmentAbacGuard`, then a method
of `tickets.service.ts` which *reads* the row, checks the permission and writes
in a *later* statement.  `changeStatus` writes in a transaction with a
compare-and-set on the status, the history and the outbox event; `assign`,
`escalate`, `update` and `softDelete` write by id.  Events emitted after the
commit, in memory, queue a `route_ticket` job, notices and audit jobs; the
assignment and notification workers run up to ten jobs in parallel.
Independently the sweep (every two minutes), the SLA engine (every five), the
outbox publisher (every second, on every instance: the deployment guide scales
the API to three), the replay of deliveries (every minute), the crons of the
quarantine, of retention, of Keycloak events and of reports read and write the
same rows.  What leaves for the public goes through the outbox and its
deliveries; what comes from it goes through identity, idempotency and quotas.

### What is hard here

* Rows read before an `await` and trusted after it: six writers of one ticket,
  but also conversations, links, articles, integrations, profiles.
* At-least-once hand-over with leases, crashes between a side effect and the
  statement that records it, and instances that come back late.
* Two places that no transaction spans: row and file, row and Keycloak account,
  database and Redis, job and mail.
* Parallel routings that count the same load, quotas and budgets counted before
  what they limit, a sweep with a limit.
* Progress that depends on periodic jobs only: lost jobs, absent agents.

`PROJECT.json` lists forty hazards, each at its line, with the properties
about it.  Some of them the code does not avoid: there the property says what
must have happened first, the note of the hazard says that it is not excluded,
and section 5 tells it.

## 2. The modules

| module | models | actions (code) |
|---|---|---|
| `TicketRules` | status map, permissions and SLA columns, as operators | |
| `TicketLifecycle` | one ticket and all its writers | below |
| `AssignmentEngine` | several tickets, several routing transactions, the sweep | below |
| `DurableEvents` | abstract: what the outbox promises | |
| `Outbox` | the outbox and its publishers; implements `DurableEvents` | below |
| `ExternalDelivery` | one outbound event, its jobs, workers and replay | below |
| `SlaAlerts` | the alerts of one overdue ticket, with a pass per instance | `FindAlert`, `ClaimAlert`, `Notify`, `ReleaseAlert`: the processor's loop; `CheckBreach`; `OtherWriters`: reply, pause, extension |
| `SlaCalendar` | the due date in business hours | `Adjust`, `NextDay`, `SameDay`: the turns of the two loops of `sla.helper` |
| `TicketEvents` | what a committed change of a ticket sets off | the changes; `ReadTicket` and `Tell` of the listeners; `InsertNotice`, `InsertAudit` of the workers |
| `Collaboration` | comments, notes, attachments of one ticket | begin, create, update, remove of a text; file and row of an attachment, stored and removed one after the other |
| `Catalogue` | departments or categories, with what names them | create, rename, remove after one count (category) or two in turn (department); references added meanwhile |
| `Accounts` | one employee's row and realm account | creation with its compensations, role changes, activation; each HTTP call is a step |
| `RealmEvents` | the copy of Keycloak's events by several instances | `ListEvents`, `CopyEvent`, `AbandonCopy` |
| `Reports` | requests, jobs, files and links of reports | `AskTicketReport`, `AskSlaReport`, `AskWeeklyReport`, `AddJob`; the job from `StartReport` to `TellReady` or `TellFailed` |
| `Mailing` | the jobs of the e-mail queue | `Compile`, `SendTemplate`, `SendFallback`, `Complete`, `StallMails` |
| `Presence` | sockets, registry, gauge, pushes of several processes | `OpenSocket`, `Authenticate`, `Register`, `HandleDisconnect`; `TakeJob`, `StoreNotification`, `PushNotification`, `StallJob`; `StopHost` |
| `Throttler` | one limiter key in Redis and the fallback in memory | `CountInRedis`, `CountFails` (no answer to INCR), `ExpireKey`, `MarkBlocked`, `CountInMemory`, `StopCaller` |
| `SettingsCache` | one setting through the caches of several processes | `ReadSetting`, `StoreSetting`, `WriteSetting`, `ForgetSetting` |
| `Dashboard` | pages of figures read query by query | `Ask` (a query); `AgentPerformance`, `CountReopenings`: the two queries of the table of agents; `ChangeTicket`, `OldTicket`, `EarlierReopening` |
| `AttachmentScan` | one file: row, two objects, jobs, crons | `Claim` ... `RecordClean`, `PurgeScanned`, the failures `RecordFails`, `PurgeFails`, `Withdraw`, `Catch`; `Recover`, cleanup of both directories |
| `PublicUploads` | uploads of one requester, with keys and quota | from `ReceiveFile` to `InsertRow`, `ReplayCollision`, `KilledUpload`, `RemoveOld` |
| `Satisfaction` | links and answers of one ticket | `CheckActive`, `InsertLink`, `RequestEvent`; `SubmitRead`, `SubmitWrite` |
| `Idempotency` | requests with an `Idempotency-Key` | `Lookup`, `Begin`, `Collide`, `AfterCollision`, `Handled`, `Commit`, `Rollback` |
| `PublicConversation` | one conversation until its ticket and after | `Read`, then `SaveDraft`, `RequestHandoff`, `Upload`, `AddComment`, or `Prepare` and `CommitTicket` |
| `ContactVerification` | codes of one address | `RequestEmail`, `ReplaceCodes`; `FindChallenge`, `PayAttempt`, `Compare` |
| `SiteAssertion` | assertions signed by a partner site | `Verify`, `TakeNonce`, `FindIdentity`, `CreateIdentity` |
| `TrustedDevices` | devices, sessions and transfer codes of one requester | `RotateRead`, `RotateCommit`, `Revoke`, `IssueGrant`, `ConsumeGrant`, `ChangePolicy` |
| `Requesters` | profiles and contacts of one integration | first contact, `OpenTicket`, `CheckMerge`/`TakeTickets`/`CommitMerge`, `RequireRequester`/`ListInactive`/`SpareOpen`/`RereadRequester`/`Erase` |
| `Integrations` | one integration, its policy and its secrets | `Rotate`, `Update`, `AssertActiveCredential`, `Revoke` |
| `Knowledge` | one article, its versions and editors | `RequireArticle`, `LatestVersion`, `SaveArticle`, `VersionCollides`, `Search` |
| `SupportBot` | the questions of one conversation | from `RequireConversation` to `RecordAnswer`; budget, circuit |
| `Migrations` | schema and journal under several deployments | `Baseline`, `JournalApplied` (the count), `InsertApplied`, `ReadJournal`, `RunPending`, `KillDeployment` |
| `MC...` | instances for TLC | |
| `...Proofs` | theorems | |

All the modules have the same grain: a statement of the database, a command of
Redis, a call over HTTP or an operation on a file is a step, and so is a
transaction whose rows are locked or whose writes are checked against a unique
index; what an operation holds between its steps is a record of its own
(`calls`, `tasks`, `scan`, `request`, ...), whose `pc` or kind says where it is.
Reads and checks with nothing written in between are one step.

### TicketLifecycle

State: `ticket` (the columns the rules read or write); of the staff, `agent`
(availability), `post` (role and department of the row, and the role of the
token), `full` (who has reached a limit) and `automatic` (the departments with
`autoAssignmentEnabled`); `now`; `req` (what each HTTP request in flight holds
between its statements); `job`, `cron` and `closer` (the queued job, and the
program counters of the two periodic passes with the rows they hold); `told`
(the last public event); `strayed` (a history variable: something took the
assignee out of the ticket's team); `inputs`.

| action | code |
|---|---|
| `ChangeStatusRead`, `ChangeStatusCommit`, `ChangeStatusFail` | `TicketsService.changeStatus`: read and checks; the transaction; its 409 or overflow |
| `AssignRead`, `AssertEligible`, `AssignUpdate` | `assign`, with `TicketAssignmentTargetService` |
| `EscalateRead`, `AssertEligible`, `EscalateUpdate` | `escalate` |
| `UpdateRead/Write`, `SoftDeleteRead/Write` | `update`, `softDelete` |
| `PublicReply` | the first-response mark of a public reply |
| `WorkerRoute` | `AssignmentWorker` and `routeTicket`, as one transaction, which may also roll back |
| `CronStart` ... `CronRoute`, `CronFail` | `AutoAssignmentCron.runAutoAssignment`, statement by statement, any of which may throw |
| `AutoCloseScan`, `AutoClose` | `SlaAutoCloseService.process` |
| `ClaimBreachAlert` | the claim of a breach alert, which touches `updated_at` |
| `ChangeAgent`, `MoveUser`, `RefreshToken` | availability, role and department of a user (users.service.ts:318-319 asks nothing of the tickets he holds), a new token |
| `ChangeLoad`, `SwitchDepartment`, `Tick` | other tickets of an agent, the switch of a department, time |

Abstractions: one ticket, so passes over many rows become passes over it, and
the load of an agent is whether he is full; availability has four classes
(available, paused, absent for less than the threshold of the sweep, gone);
business-hours arithmetic is adding `Grant`; the guard and the reads of a
handler are one step, since they are followed by checks only.  Routing picks
any of its `Candidates`: agents of the team, available, no managers, not full,
and only in a department that is automatic (assignment-engine.service.ts:103-199);
how it counts and chooses is `AssignmentEngine`'s.  It is one step because it
holds the row lock, so that no other writer of the ticket comes between, and a
change of the staff between its reads and its commit has the effect of one just
after it.  The caller's role is the one of his token, which may be older than
his row; his department is the row's, as in `jwt.strategy`.  `touchedAt` is not
a column: it is what `updated_at` would be without the alerts, and only a
property reads it.

### AssignmentEngine

`routeTicket` in the four steps between which other transactions can act:
`Begin` (row lock, guard, department), `ReadAgents`, `Select` (load, limits,
strategy), `Assign` (lock of the agent, updates, commit), and `RollBack`.  The
locks of PostgreSQL are `Locked`: a routing that holds the row excludes every
other writer of it; the lock of the agent is taken after the choice and
protects nothing that was read, so it is part of `Assign`.  Jobs come from
`Create` and `Withdraw` and may be lost; the sweep (`CronStart`, `CronEnd`) takes
the first `Limit` waiting tickets.  The rest of the program is `Finish`,
`Reopen`, `AssignByHand` and `SetAvailability`.  `routed` counts assignments and
stands for the clock in `last_assigned_at`.  Not modelled: changes of a
department's settings or of a ticket's team meanwhile, several instances
running the sweep at once (`isProcessing` is per process; the row lock, which
is modelled, is what protects them).

### Outbox

State: `event` (the columns of `outbox_events`), `inst` (what each publisher
holds: the batch, the date of its claim, the event being handled), `jobs`,
`now`, `faults`.  Actions: `Record`, `Claim` (one statement with SKIP LOCKED),
`Enqueue`/`EnqueueFail` (Redis may fail after having taken the job),
`Published`/`PublishedError`, `Failed`, `Abandon` (crash, or the update of the
failure fails), `Tick`.  A publisher has a fixed `workerId`, so it recognises
its rows after a restart exactly as the code does.  The queue is a set of job
identifiers, since `jobId` is the id of the event.

### ExternalDelivery

State: `row` (the columns of `external_deliveries`, one row per address),
`contact` (the address `loadTarget` finds), `job` (the BullMQ queue: waiting,
active, tries and stalls), `run` (what each execution of `dispatch` holds),
`sweep` (the rows the replay has selected), `sent` (what the provider accepted,
which no column records), `now`, `faults`, `changes`.

| action | code |
|---|---|
| `Take`, `Stall`, `Crash` | BullMQ and the worker process |
| `Read` | `loadTarget`, `ensureDelivery` and the checks of `dispatch` |
| `MarkUnknown`, `Claim` | its two compare-and-sets |
| `SendOk`, `SendFail`, `SentUnrecorded` | the adapter: accepted, refused, accepted without a recorded answer |
| `Confirm`, `Catch`, `DatabaseError` | DELIVERED; the catch block; an error elsewhere |
| `ReplaySelect`, `ReplayUpdate`, `ReplayAdd`, `ReplayError` | `requeueFailedDeliveries`, statement by statement |
| `ChangeContact` | an identity revoked, restored or replaced |

`faults` counts everything that goes wrong: crashes, errors, an execution whose
lock or lease runs out while it works, and a replay that writes a row which may
no longer be replayed.  Abstractions: the worker's process and job id are the
whole of `locked_by`; ids of jobs serve again once no trace of them is left;
the replay's limit of 50 rows is not reached by one event.

### The public portal

* `ContactVerification`: `challenges` are the rows of one address; a try holds
  in `guessing` the challenge it read, pays the quotas of `quota` and compares
  in a transaction that looks at the row again.  `SiteAssertion` has a clock,
  since the life of a nonce and the tolerance of the expiry must agree.
* `TrustedDevices`: rotation inserts a successor in the line (`chain`) of a
  device; `clients` hold the row that the guard or the grant read before.
* `PublicConversation`: a call copies the conversation (`Read`), writes later,
  and only the confirmation locks the row.  A ticket and a confirmation under
  way keep what had been said before it began (`known`); `late` counts what was
  written on a conversation that already has its ticket, `reverted` says that a
  handoff put an older draft back.
* `Idempotency`: `holder` is the open transaction that inserted the key; others
  wait for it on the primary key.  The handler is a step that may fail.
* `Satisfaction`: expired and consumed links stay in `links`; the listener and
  a supervisor may create at the same time.  A link counts its answers
  (`writes`) and remembers whether two submissions of it crossed (`crossed`);
  a tab may submit as often as it likes.

### Workers and shared services

* `AttachmentScan` follows one file: its row, the copies on disk, the attempts
  left to each job, what each scan and the cleanup hold; `Elapse` is the delay
  after which a scan counts as stale.  Every update of a scan may fail, those of
  its error paths included; `disturbed` says that a scan was claimed while
  another one ran, or that one went back on the CLEAN it had recorded.
  `PublicUploads` is what comes before it.
* `TicketEvents` keeps, beside the state, the `commits` in order, with which
  the inboxes and the trail are compared.
* `Reports`, `Mailing` and `Presence` model the jobs of their workers step by
  step, with a stop of the process and the second execution of a stalled job.
* In `Presence` the queue may take a job back from a run that is still at work;
  `taken` counts that, and `saved` the rows of each run.
* `Throttler` has a pipeline whose commands fail one by one: without an answer
  to INCR the request passes as a first hit, counted or not (`uncounted`).
  It, `SettingsCache` and `SlaCalendar` have a clock or a calendar of
  their own.  `SlaCalendar` counts in units: the seconds of a date, which the
  code drops when it crosses a close, are below the unit.

### Administration

* `Accounts`, `RealmEvents`: the realm is external; each call of its API is a
  step that may fail, and compensations are steps that may fail too.
* `Requesters`: an operation reads a profile, then writes in a transaction;
  what comes in between is in the property, not excluded.  `raced` remembers
  that two operations held one profile.  `verified` are the profiles with a
  VERIFIED challenge, which nothing erases; a contact has a type, since a
  profile with two identities of one type cannot be anonymised.
* `Integrations`, `Knowledge`: a form completed with a row read before the
  transaction; `tangled` says that another save came in between, `stale` which
  of the article's fields, text or state, a save put back.
* `SupportBot`: `replied` is what the budget counts; a handler may be lost.
* `SlaAlerts`: `facts` are the columns other writers set; a pass copies what it
  needs, claims with the guarded UPDATE and sends after it.
* `Dashboard`: a figure is the number of tickets its query counted at its own
  moment; `followed` are the figures of one page that ought to agree.  Each
  query has the scope it has in the code, none on some pages.  The table of
  agents is read by two queries; the second counts in the history.
* `Migrations`: a database "at n" has the first n of the 23 migrations; what
  the baseline can tell apart is what the code compares.

## 3. The runs

| run | shows |
|---|---|
| `lifecycle_races` | all schedules of two inputs of any kind against every periodic job: a ticket ASSIGNED has an assignee; the assignee is of the ticket's team unless he was moved, or an escalation came between the check and the write of an assignment; `changeStatus` only makes moves of the map; the auto-close only closes tickets resolved for the whole delay |
| `lifecycle_calm` | in calm schedules: pending tickets have their clock stopped, the stamps follow the status, the requester's last news of the outcome is true |
| `lifecycle_live` | a waiting ticket is routed while its department is automatic and has an agent with room, after no more than the bounded number of failures; a resolved ticket is closed |
| `engine_safety` | types and one transaction per ticket; when only the engine assigns, the limit is exceeded by at most one ticket per extra parallel transaction |
| `engine_live` | no routing takes a ticket from anybody; the sweep forgets no ticket that someone can take |
| `outbox` | a running lease excludes the others; the outbox implements `DurableEvents`, so that only events with a job are PUBLISHED; every recorded event settles |
| `delivery` | DELIVERED was sent; as many mishaps as duplicates; attempts stay under the ceiling; every delivery settles |
| `portal` | the six modules of the public portal, two calls at once |
| `backoffice` | the eleven modules of workers and shared services, two instances at once |
| `administration` | the eight modules of administration and the alerts to supervisors, two operators or instances at once |
| `broken_neglect`, `broken_limit` | statements of comments and documents that the code does not meet (section 5) |

*The three joint runs.*  The modules of `portal`, `backoffice` and
`administration` share no variable: what one does to the rows of another is in
the module as an input (`OtherWriters`, `Suspend`, `CreateTicket`).  `MCPortal`,
`MCBackoffice` and `MCAdministration` therefore choose one of them in the
initial state (`focus`) and let only that one move: all the reachable states of
each module are explored, and none of their products.  The properties are
stated and explained in the modules; the MC modules conjoin those that are
about one concern and name the conjunction:

| run | property | conjoins |
|---|---|---|
| `portal` | `RepeatsHaveOneEffect` | `RunsOncePerKey`, `AnsweredByOwnRun`, `OneTicket` |
| | `EarlyWordCounts` | `WaitingLinksBounded`, `AnsweredOnceUnlessCrossed`, `LastDraftReachesTicket`, `FilesReachTicket`, `LateWritesBounded` |
| | `IdentityHolds` | `OneLiveCode`, `ComparedBounded`, `TriesPerHour`, `CodeOpensOneSession`, `AssertionAcceptedOnce`, `RevocationEndsLine`, `OneLivePerLine` |
| `backoffice` | `FilesHold` | `CleanHasObjectUnlessDisturbed`, `OnlyFineIsClean`, `RowHasFile`, `OneFilePerKey`, `UploadsBounded`, `AttachmentHasFile` |
| | `PeopleAreTold` | `HolderKnows`, `ToldOnce`, `AuditComplete`, `PublishedStays`, `RepliesAreAnnounced`, `CorrectionsResolve` |
| | `JobsSettle` | `SentLinkWorks`, `ReportSettles`, `ExtraMailsNeedMishaps`, `CompletedWasSent` |
| | `SharedStateRecovers` | `LimitPerWindow`, `KeyExpires`, `ChangeInForceAfterTTL`, `GaugeCountsClients`, `ClientsAreOpenUnlessOvertaken`, `PushedIsStoredOnce` |
| | `ReferencesHold` | `ReferencesResolve`, `DeletedHasOnlyLateReferences` |
| | `DeadlinesHold` | `WorkIsConserved`, `DueInOpenHours` |
| `administration` | `AccountsFollow` | `RealmFollowsRow`, `AtMostOneRole`, `LiveIsProvisioned`, `CopiedOnce`, `OnlyBurstsAreMissed` |
| | `ProfilesHold` | `AnonymisedKeepsOnlyChallenges`, `MergedKeepsNothing`, `OneProfilePerContact`, `RetentionSparesOpen` |
| | `SitesAreServed` | `GraceHolds`, `ActiveHadSecret`, `SuspensionHolds`, `LatestIsShown`, `StateAsAsked`, `ServedIsInHistory`, `CallsBounded`, `CircuitHolds`, `LateAnswersBounded` |
| | `PagesAgree` | `FiguresAgree`, `ScopeHolds`, `OneLinePerAgent` |
| | `DatabaseStaysMigratable` | `JournalWithinSchema`, `NothingLeftBehind`, `StaysMigratable` |
| | `AlertsHold` | `MarkImpliesFlag`, `AlertsPaced`, `MarkedWasAnnounced` |

and `PortalTypesOK`, `BackofficeTypesOK`, `AdministrationTypesOK` the type
invariants.  Many of these say "unless": they name the one thing that must
have happened (a scan overtook another, a save was completed with an old row, a
queue failed) for the promise to break, and so also what keeps it otherwise.
They do not exclude the case they name: the code has it, and section 5 says
what it does.

*Calm schedules.*  `assign`, `escalate` and the two withdrawals of the sweep
write by id what they decided on a row read before.  Overtaken by another
writer they break the properties of `lifecycle_calm`, which therefore say
nothing of these interleavings (section 5 does): `Undisturbed` keeps the
schedules in which the row is still the one they read.  Everything else, in
particular `changeStatus` against all the others, remains free.

*Bounds.*  `MaxTime`, `MaxInputs` (requests, replies, changes of availability,
post, load or switch, and failures of a routing or a pass), `Requests`,
`Kinds`/`Targets` (which inputs a run makes use of) and `Moves` (two posts:
another team, another role) bound the lifecycle; delays are 1, so that before, at and after each of them are
reached within `MaxTime`.  Two requests in flight and the sweep are enough for
every pair and triple of writers.  `MidLifeInit` starts the ticket in the
states a short undisturbed history leaves, so that few inputs reach deep
states.  The engine has two transactions and two or three tickets, limits 1
and 2, weights that put one ticket at the workload limit by itself; the
outbox two events, two publishers, two attempts and one fault
(overrun lease, crash or error); its clock runs only up to the next
date that matters.  The delivery has one address, two jobs, two executions in
one process (the worst case for `locked_by`), two attempts per round, one
replay below the ceiling and one mishap; `MaxAttempts`, `Lease` and `Backoff`
fit in `Tries` as 5 attempts and the throws of one lease fit in 10 tries.
`lifecycle_races` has an administrator in place of the supervisor, so that
tickets are deleted too.

In the joint runs two actors are enough for each race of the code, which is
between one that has read and one that writes; the counters that the
properties bound (`Cardinality(Calls)`, `Guessers`, `Replies`) grow with the
actors.  Limits are reached and passed: two attempts of a code, one upload per
hour, two hits of the limiter with five requests, a budget of four with seven
questions, a listing of two with four events.  Clocks run past the longest
delay.  The calendar has days of three units, a week of three days, all its
opening hours and open days, and targets up to five units: days shorter than a
target, closed days in a row and starts at each boundary all occur.  The clock of
the alerts runs to 3, where the breach of a target due at 0 is warned of and
reminded of after an interval of 1.  A page of the dashboard is overtaken by one
change, and one of its tickets is of an earlier period; a database is overtaken
by the deployments of two instances and one old row.  A site gets three requests
(two rotations and an edit, or an edit and a suspension that cross), and an
operation on profiles begins while there is a row left for what it makes.

*Symmetry* is used for what is interchangeable and in runs without
liveness: transactions, requests, instances, contacts of one type.

*Deadlock* is not checked where the bounds on inputs stop the model: once the
inputs are used and everything is settled nothing is left to do.

*Fairness.*  Periodic passes (`@Cron`, `@Interval`) fire for ever and each of
their statements ends: weak fairness of the sweep, the scan, the auto-close,
the alert claim and the publishers.  The worker is polled for ever: weak
fairness of `WorkerRoute` and of each routing transaction; that one may fail is an
input, of which there are finitely many, so fairness never hides a failure.  BullMQ hands out
waiting jobs and detects those a crash has left active.  Time passes.  No
fairness is asked of requests, agents, faults or of the queue.  The joint runs
check safety only.

## 4. The proofs

The theorems hold for every value of the constants that satisfies the
assumptions of the modules.  These ask for what the code has: limits, delays and
quotas are naturals, positive where the code divides by them, waits for them or
allows at least one of something; whatever is counted (tickets, calls, slots,
guessers, jobs) is finite, in any number; placeholders (`None`, `Free`,
`Erased`, `Kept`) are none of the values they stand beside.  The one that asks
for more is `MaxAttempts <= Ceiling`, 5 and 40 in the code.

Every invariant, action property and refinement that a passing run checks is a
theorem.

* **TicketLifecycleProofs.**  `TypeInv` (types, plus: dates held by requests
  are not in the future, so that the length of a pause is not negative) is
  inductive.  `AssignedHasAssignee`, which is about the status ASSIGNED alone (an
  unassigned REOPENED ticket may well be put IN_PROGRESS), needs that every
  row held by a request or by the sweep is itself well formed, because `assign`
  writes back a status computed from such a row.  `AssigneeInTeam` holds in
  every schedule, administrators who move agents included: `TeamInv` adds that
  the target of a checked request is still of the department he was checked
  for unless he was moved since.  `CommitsFollowMap` and `AutoCloseIsQuiet` are
  action properties proved from `TypeInv`: the compare-and-set carries them,
  with no assumption on the other writers.  For calm schedules `CalmInv`
  says the other three properties together of the row and of the rows that
  requests hold; they are not inductive one by one (a resume needs the pause, a
  stamp needs the status).
* **OutboxProofs.**  `OutboxInv` adds to the types that a publisher about to
  write PUBLISHED has queued the job (`QueuedFirst`) and that a publisher that
  holds an event either still owns the row, with the attempts it read, or has
  lost it for good (`OwnsOrLost`): without it a late publisher could be
  believed to overwrite its successor.  `KeepsThePromise` proves the
  refinement of `DurableEvents` step by step.  That published events were
  queued and that attempts are exact are theorems too, with no run of their own.
* **AssignmentEngineProofs.**  `EngineInv` adds to the types that a ticket held
  by a transaction is still without assignee, which the row lock keeps.
  `LoadBound` counts, for each agent, tickets plus transactions that have
  chosen the agent: a transaction chooses below the limit, and the others
  that may have chosen already are at most the rest of the slots.
* **ExternalDeliveryProofs.**  `DeliveredWasSent` is not inductive: DELIVERED
  is written two steps after the provider answered.  `SentFirst` says that an
  execution that is about to write it has had its own e-mail accepted; no other
  writer makes a row DELIVERED, the replay and a failure take it elsewhere,
  and what was sent is never unsent.  The bounds on faults play no part.
  `RepeatsNeedMishaps` balances accounts: e-mails sent to an address, plus the
  executions that may still send it one, plus one if the row is free to be
  claimed, are at most one more than the mishaps (`BudgetInv`).  A claim turns
  a free row into an execution, a send turns the execution into an e-mail, and
  what makes a row free while its execution lives is a mishap.
  `ReplayGivesUp` keeps rows that may be claimed, and the claims, strictly
  below the ceiling plus the mishaps (`AttemptsInv`); it needs `MaxAttempts <=
  Ceiling`, as one round of retries may otherwise pass the ceiling by itself.

*The joint runs.*  `PortalInv`, `BackofficeInv` and `AdministrationInv` conjoin
one inductive invariant for each component; since the components share no
variable, each is kept by its own steps and by those of all the others.  The
model checker follows one component at a time (`focus`), the proof does not:
`Begins` starts all of them anyhow and `Moves` lets them step in any
combination.  `PortalTogether`, `BackofficeTogether` and
`AdministrationTogether` prove the invariants of that specification, and
`FocusIsACase` that the one TLC checks is a case of it.

* **PortalProofs.**  The bounds on late calls count beforehand: a call that has
  checked and not written yet is as good as a write.  So `SatInv` bounds
  waiting links plus creations under way, `ConvInv` late writes plus calls that
  hold the conversation from before its ticket, `VerInv` the comparisons of a
  code plus the guessers that hold it.  `SatInv` also says that an answered
  link has no submission under way unless two crossed; `ConvInv`, that what a
  confirmation owes to the drafts and files before it is the same under way
  (`Owed`) and done (`Paying`).  `IdemInv` says that a transaction at
  work holds its key, and that a row and an answer name a run with their key and
  body.  `SiteInv` makes the nonce outlive the assertion; `DevInv` says that
  what calls and codes name exists, so that a new device begins a new line.
* **BackofficeProofs.**  `ScanInv`: nothing infected is on the way to CLEAN,
  and as long as no scan was disturbed one runs at most and the row names the
  clean copy exactly when it says CLEAN, which nothing undoes (`Alone`).  `UploadInv`
  counts the rows of the hour plus the uploads past the quota.  `EventsInv`:
  unless there was a mishap or two commits were told at once, only the last
  commit is still being told, and the holder knows or will hear (`Coming`).
  `ReportsInv` says, of a job given out once, what its one execution has done
  by each of its stages; `MailInv` allows one mail more than the mishaps only
  once SMTP has answered the attempt under way.  `PresenceInv` counts a socket
  that closed on its way to the registry, and numbers the runs of a push by how
  often the queue took the job back; `ThrottleInv` orders what arrived, what was
  counted, what was let through and what was let through uncounted.
  `SettingsInv`: a value in the cache was the row's no more than `TTL` before
  it leaves.  `CollabInv`, `CatalogueInv`: what a call is about to write is its
  own, and what a removal finds later of a kind it has counted came after that
  count.  `CalendarInv`
  has the arithmetic of the due date: open hours up to `current` are what was
  consumed, and an open day lies ahead, no further than a week for each unit
  consumed and one more, which bounds the walk.
* **AdministrationProofs.**  `AccountInv` says of each operation what holds
  whatever crosses it (`CallOK`), what it read is worth when nothing crosses it
  (`SyncOK`) and how far it got when nothing failed either (`FollowOK`);
  `RealmFollowsRow` is the last with nothing under way (`IdleOK`).  `CopyInv`:
  what is seen is copied, a copier has copied or holds the rest of its listing,
  and without a burst nothing is missing before it.  `RequestersInv`: unless two
  operations held one profile, those of all tasks are disjoint and what a task
  checked still holds; an anonymised profile then has no identity that can be
  read and no device, and a merged one holds nothing, as long as no merge had a
  target that was itself merged.  `ChallengesInv` follows the VERIFIED
  challenges: a merge moves them, an anonymisation leaves them.
  `IntegrationsInv` gives every secret but the last its end, and needs that no
  form, nor the row it read, is ACTIVE without a secret.  `KnowledgeInv`: whatever an editor read is of the
  history of the article, so that a late save brings back only what is of it, and
  text and state are the last ones unless such a save put them back.  `BotInv` counts handlers by where they stand: calls made and
  about to be made pass the budget by the other handlers and the lost ones at
  most, and those beside an open circuit are fewer than the handlers.  `DashInv` lets a figure not yet read count
  as what it would read now: a change of one ticket then moves each
  by at most one and the two sides of a comparison no further apart (`CountIs`
  says for each figure which tickets it counts, the rest is cardinality); a line
  of the table of agents is compared in the same way with what the agent holds.
  `MigrationsInv`: a schema is as it was born or complete, and what a deployment
  counted or found holds until it inserts or runs it, also when another one
  did so in between.  `AlertInv`: a pass knows the time within a
  unit, one pass at most is between the claim of an alert and the end of its
  sending (`FliesAlone`), the mark is of that pass, and the next reminder is at
  least `Repeat` after the mark or its release (`Paced`).

Model-checked only: liveness under fairness, which is out of the prover's reach
(`UnassignedIsRouted`, `ResolvedIsClosed`, `NoneForgotten`, `RecordedSettles`,
`DeliverySettles`), and the two statements of section 5 that the code breaks.

## 5. Divergences between the code and what is said of it

Shown by a run:

* `broken_neglect`: the breach alert refreshes `updatedAt`, after which the
  escalation of neglected tickets never sees the ticket.
* `broken_limit`: parallel routings exceed the maximal number of tickets of an agent.

Met while modelling and described by the model.  Paths are below
`src/src/modules/`, or `src/src/` for `common`, `queues` and `database`.

Tickets, SLA, assignment:

* `tickets/ticket-status-transitions.ts:31` forbids every move the map does not
  list; the assignment endpoints and the sweep write the status without the map.
* `auto-assignment.cron.ts:278` escalates tickets "sans aucune activite"; the
  UPDATE (305-308) is by id, after an agent may have started the ticket.
  Line 234 calls the withdrawal atomic; its UPDATE (236-243) is by id and may
  take the ticket from an agent other than the one the history records.
* A ticket withdrawn while pending goes on with its SLA clock stopped, against
  `docs/detailed-design-assignment-sla.md` 6.3.
* `tickets.service.ts:572` calls the reopening delay a "rallonge"; it replaces
  the due date and may bring it forward.  Escalating a NEW ticket (440) gives it
  an assignee and leaves it NEW.  The compare-and-set (296) does not name
  `deletedAt`.
* `ticket-assignment-target.service.ts:25` promises an assignee of the team;
  an escalation committed between the check and the write breaks it.  So does
  `users.service.ts:318-319`, which gives another team or role to an agent who
  holds tickets: they stay with him, and until he gets a new token he acts with
  his former role in his new team.
* `docs/detailed-design-assignment-sla.md:132`: an agent who becomes
  unavailable between the read and the lock still receives the ticket; line
  78: fifty tickets that nobody can take hide the others from the sweep.
* `common/helpers/sla.helper.ts` says holidays are skipped; there are none.
  Without any business day, or with a start not before the end, its loops do
  not end, and the settings are not validated.
* A reminder whose identifier is still in the queue is dropped
  (`sla-alert-notifier.service.ts:190`); a crash between claim and notice loses
  the alert.

Outbox, deliveries, mails, reports:

* `docs/domain-events.md` 3 promises that no public event is lost in a crash:
  a worker that dies between its claim and the e-mail leaves DELIVERY_UNKNOWN,
  which nothing takes up again.  3.3 has PUBLISHED mean delivered; it means queued.
* The replay of failed deliveries (`external-delivery.service.ts:43,66`) may put
  a delivered one back to PENDING and have it sent again.  A job that stalls
  and runs twice may strand its delivery in PENDING; two stalls leave it in
  PROCESSING (see `DeliverySettles`).
* `docs/jobs-and-workers.md:68` says two instances never treat the same event;
  they do when a batch outlasts its lease (the outcome is still right).  The
  events of one ticket may be published out of order after a failure
  (`outbox.service.ts:17`).
* `email.worker.ts:46-53` takes any failure of a template, SMTP refusals
  included, for a missing template and sends the fallback; its header and
  `email.service.ts:181` speak of a missing file only.  The queue gives one
  attempt (`queues.module.ts:56`); the log announces three.
* A report whose job could not be queued stays pending; a stalled job that
  runs again turns a completed report into a failed one, or leaves a second
  PDF; the weekly cron fires in every instance.

Collaboration, files, reference data:

* The file of an attachment is deleted before its row.  A text with an
  attachment cannot be deleted (foreign key).
* Scans that overtake each other can leave a CLEAN row without its object.  So
  can one scan alone (`attachments/security/attachment-scan.service.ts:112-125`):
  when neither the purge nor its failure can be recorded it deletes the promoted
  copy of a row that is already CLEAN, and if its last update fails too the
  row stays.  Rows in ERROR are selected by the cleanup for ever
  (`attachment-quarantine-cleanup.service.ts:25`).
* Notices of two changes of assignee may arrive in the reverse order;
  escalations have no audit handler.
* The name of a deleted department cannot be used again; a category with a
  policy can never be deleted; changing the priority or category of a ticket
  does not compute its due dates again.
* A setting of 0 hours is read as 8; a slow read puts a replaced value back in
  the cache for 60 s.
* The connection gauge of the websocket keeps a socket that closed while it was
  authenticated.  A notification job whose lock runs out is run again while
  the first run goes on, and both store a row (`queues/workers/notification.worker.ts:38`).
* A limiter key whose EXPIRE failed blocks its client for ever.  A failed INCR
  is read as a first hit (`common/providers/throttler-storage-redis.provider.ts:88-94`): the request passes however many came before, and the window
  of the key is renewed.  The mark of a blocked client is written, never read.

Portal and administration:

* Two links of one ticket may wait for an answer.  A link can be answered twice
  by submissions that cross, and the second answer replaces the first, against
  line 7 of the same file ("ne peut être consommé qu'une seule fois"); an expired link still prevents a new one from the
  listener (`support-satisfaction.service.ts:33-40`).
* Drafts and files written while a conversation is confirmed never reach its
  ticket (`public-conversation.service.ts:96-125`).  A handoff writes back the
  draft of the conversation it read (149) and undoes one saved meanwhile; in the
  same way a save of a draft may drop `handoffRequestedAt`.
* A nonce lives for the remaining life of the assertion while the expiry is
  checked with a tolerance (`integration-assertion.service.ts:99`).
* Anonymisation expires the PENDING challenges of a profile, which belong to no
  profile yet (`external-requesters-admin.service.ts:310-319`); the VERIFIED
  ones keep `encryptedDestination` and `contactHash` for ever
  (`external-identity-store.service.ts:57-74`), and the retention deletes others
  (`retention-cleanup.service.ts:82-88`).
* A profile that has two identities of one type cannot be anonymised, which
  stops the rest of the nightly pass (`external-requesters-admin.service.ts:284`,
  `retention-cleanup.service.ts:63`); a merge fails for ever when a device of
  the source has a transfer code (`:162-177`).  `lastSeenAt` is written by few
  paths, so that an active person may be taken for inactive
  (`retention-cleanup.service.ts:58`, against `.env.example:250`).
* `users.service.ts:261` says "Réessayez plus tard" after a failed creation; the
  row it leaves holds the e-mail, and no later attempt can succeed.  Crossing
  role changes can leave an account with both roles.
* An update of an integration saves the status it read before its transaction
  (`support-integrations.service.ts:56-63`) and may undo a suspension; the
  revocation of the last secret leaves it ACTIVE.
* A save of an article completed with an older read puts the older text back
  without a version, or the older state: an archived article is public again
  (`support-knowledge.service.ts:143-154,175-185`).  A form that publishes and
  says nothing of the text publishes what the service finds, which may be a
  draft of another editor that its sender never saw.
* The budget of the assistant also counts the answers it did not ask the
  provider for; an edit of the quotas drops `botRequestsPerDay`
  (`support-integrations.service.ts:107-140`).
* `dashboard.service.ts:480` adds the counts of an agent to a copy it does not
  return, against its comment (461); the compliance rate may exceed 100 %.  The
  reopenings in the table of agents, and the score made of them (442-459), count
  the history of tickets of other teams and of deleted ones; `myActivity` and
  the page of the public support have no scope either.
* `run-migrations.ts:43-52` believes in 10 migrations where there are 23: a
  baseline made on a schema between 0010 and 0019 journals 10, and the next
  migration fails for ever.  `StaysMigratable` excepts exactly this case.
* More than a hundred Keycloak events in five minutes are not all copied;
  `auth.session.revoked` is never emitted.

## 6. Not modelled

Configuration, root module, presentation theme, deployment: no state of the
business.  Controllers, DTOs, filters, OpenAPI documents, metrics and health:
validation, wording and counters.  Ticket links and tags, search, statistics,
profile fields, marking notifications as read, lists and timelines: reads, or
single rows that nothing else depends on.  Cryptography, token verification,
ClamAV, SMTP, Keycloak, BullMQ and PostgreSQL are modelled as the code uses
them (statements, row locks, unique indexes, jobs by identifier).  The seed
(`database/seed`) is run by hand on an empty database.  Of the dashboard, the
averages (resolution times, notes) are left out: there is nothing they ought to
agree with.

Not caught by any property: the 50-row limit of the sweep over tickets nobody
can take needs more waiting tickets than the limit, of several teams
(`NoneForgotten` states the condition under which none is forgotten); and, what
the code does whatever the order of steps, so that the properties name them as
exceptions, submissions of one link that cross, the VERIFIED challenges of an
anonymised profile, and the reopenings without a scope.

## 7. Plan

1. The composition of `Outbox` and `ExternalDelivery`, from the transaction of
   a ticket to the e-mail, as a refinement of one abstract promise.
2. A proof that ties `AssignmentEngine` to the routing steps of
   `TicketLifecycle`.
3. Liveness of reports, alerts and scans under the fairness of their crons.
4. Several addresses and integrations at once, where quotas are shared.
