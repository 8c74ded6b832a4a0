# A verification of the Spine

The Spine is the message bus ("ESB") of a digital organism: one Node.js process
that accepts messages over HTTP, pushes them to *organs* over WebSocket, keeps a
mailbox for organs that are away, tracks the state of organs and jobs, and
notices when a required organ is missing. This directory holds TLA+ models of
its core, TLC configurations that check them on small instances, and proofs of
some of their theorems.

Paths are relative to `src/`. All line references are to the commit beside which
this project is kept.

## 1. The system

| Component | Source | State | Operations |
|---|---|---|---|
| State machine engine | `server/state/machine.js`, `definitions.js`, `routes/state.js` | tables `state_machine_defs`, `state_entities`, `state_transitions` | createEntity, transition (validated), transitionAsync (not validated), announcement of each, reads |
| Organ lifecycle | `server/ws/handler.js`, `ws/heartbeat.js` | client map, grace timers, clocks of absence, alerts sent; entity and mailbox status in the database | register, close, error, pong, ping tick, degraded / recovered / disconnect sequences, health check, HOM to the human |
| SQLite worker plumbing | `server/adapter/sqlite.js:770-972`, `sqlite-async-worker.js` | pending map, depth counter, readiness promise, last crash; the thread's inbox and outbox | nine `*Async` calls, answers, crash, respawn, close |
| Directed messages and mailboxes | `routes/messages.js`, `routing/router.js`, `routes/mailbox.js`, `pushBacklog` | tables `mailbox_messages`, `events` | post, emit, push, persist, audit, pressure signal, backlog, drain, ack, TTL sweep |
| Subscriptions and broadcast | `handleSubscribe`, `handleUnsubscribe`, `loadSubscriptionCache`, `routeBroadcast`, `matchesFilter` | table `subscription_registry`, the cache in memory | subscribe, unsubscribe, load, route |
| Manifest and start | `server/manifest/manifest.js`, `db/init.js`, `routes/health.js`, `sqlite.js:640` | tables `organ_manifest`, `mailboxes`, `schema_changelog`, and a map in memory | seed, load, add an organ and its mailbox, register a mailbox, lookups |
| Validation, event schemas, audit queries, introspection, client library, scripts | `server/middleware`, `server/schemas`, `server/routes/{schemas,events,health}.js`, `lib`, `scripts` | none of their own, or insert-only tables | see section 8 |

**How they interact.** Everything but the worker runs on one event loop: a
handler is never interrupted by another one, but it stops at every `await`, and
the process may die between any two of its statements. The main thread and the
worker share one SQLite file. HTTP handlers, `register`, `subscribe` and the
state API write it synchronously; the lifecycle sequences and the health check
write it through the worker, whose queue is first in, first out. The lifecycle
and the message routes meet in the client map (`isOrganConnected`,
`pushToOrgan`) and in the mailbox status. The manifest decides who may register
and who can be written to; every transition of the engine becomes a broadcast
and an event.

**What is hard.**

* A lifecycle sequence reads the state of an entity, waits, and writes without
  comparing; a register in between writes synchronously, ahead of the queue.
* Sockets outlive their names: a connection is replaced by another one of the
  same organ, a socket registers a second name, a closing socket is still read
  from, a half-open one is found out only by missed pongs.
* The worker thread may die with requests in its queue, while it starts, or
  while calls wait for it to be ready.
* A message is pushed, stored, audited and answered in four steps, each of which
  may be the last one: a statement may throw and the process may die. An organ and
  its mailbox are two inserts, and a seeding that was cut short finds its own
  first row and takes the second for granted.
* A subscription and a manifest entry are kept in a table and in a map that
  follows it; only the table survives a crash.
* Timers: a grace timer that is set after the reconnection that should have
  cleared it; health checks that overlap.
* Any call of the worker may be refused by a full queue, fail in the worker or go
  down with it. Whoever started the sequence only logs that, and the sequence
  stops where it is.

`PROJECT.json` lists each hazard with its line and the properties that watch it.

## 2. Modules

| Module | What it is |
|---|---|
| `StateMachine` | the state machine engine, for any set of definitions |
| `MCStateMachine` | the two definitions of `definitions.js` as constants |
| `StateMachineProofs` | typing, legality of histories, order of announcements, denied jobs |
| `OrganLifecycle` | connections, heartbeat, lifecycle sequences, the watch on required organs |
| `OrganLifecycleProofs` | typing, the client map, the watch, and what the sequences leave behind |
| `WorkerCalls` | abstract: what an asynchronous adapter call promises |
| `SqliteWorker` | the plumbing that implements it |
| `SqliteWorkerProofs` | typing, and the depth counter |
| `SqliteWorkerRefinement` | where an awaited call is; the plumbing implements `WorkerCalls` |
| `MailboxPromise` | abstract: what becomes of a directed message |
| `MessageDelivery` | directed messages, mailboxes, backlog, audit, pressure; implements it |
| `MessageDeliveryProofs` | typing, and the safety properties of the delivery |
| `MailboxRefinement` | the delivery implements `MailboxPromise` |
| `Manifest` | seeding, provisioning, the map in memory |
| `Subscriptions` | registry, cache and broadcast routing, composed with `Manifest` |
| `SubscriptionsProofs` | typing, and the properties of both |
| `SequenceFacts` | facts about sequences and sets that several proofs need |
| `MC...` | symmetry sets and constants for TLC |

`Subscriptions` extends `Manifest`: the two share the main thread's task, the
faults and the crash, and a register is admitted by the manifest's state. The other
modules stand for one part each and are checked by themselves. Where two parts
meet, the module that needs the other one's state carries as much of it as it reads:
`MessageDelivery` and `Subscriptions` have the client map of `OrganLifecycle`
(connect, register with replacement, closing, closed) without its watch and
its entities; `OrganLifecycle` has the worker's queue without readiness and
depth; `StateMachine` has the asynchronous writes of the lifecycle as a queue.

### StateMachine

`etype` and `current` are the rows of `state_entities`, `history` the rows of
`state_transitions`. `CreateEntity`, `Transition` and `TransitionAsync` are the
three operations; `MayTransition` has the guards of `machine.js:78-115`, in
order. `RequestAsync` is a lifecycle handler's own check (`if (entity &&
entity.current_state === ...)`), after which the write waits in `writes` for the
worker. A refused request changes nothing and is no step.

Every recorded transition is announced by `onTransition` (`index.js:46`): broadcast, then
stored as an event. `transition` does it before it returns, so `task` holds the main
thread until `Announce` or `AnnounceFails` (the error is swallowed, the transition
stands). `transitionAsync` does it when the worker's answer is back: `replies` is
the queue of answers, `TransitionAsyncReturns` takes one. An announcement is known by
its transition's place in the history. `WorkerDies` loses the queue, with the write
in execution committed or not; `Restart` loses what is in memory.

### OrganLifecycle

A main-thread event is one action: `Connect`, `Register`, `RegisterUnknown`,
`CloseEvent`, `ErrorEvent`, `Pong`, `HeartbeatTick`, `HealthTick`,
`TimerFires`. The sequences that await the worker are broken at each `await`:

* degraded: `HeartbeatTick` → read → `DegradedRead` → transition → `TransitionDone`
* recovered: `Pong` → read → `RecoveredRead` → transition → `TransitionDone`
* disconnect: `CloseEvent`/`ErrorEvent`/`HeartbeatTick` → status →
  `DisconnectStatusSet` → read → `DisconnectRead` → transition → `DisconnectDone`
* health check: `HealthTick` → sweep → `HealthCheck` → HOM → `HealthCheck` ...

`queue` holds the requests, `replies` the worker's answers; the head of
`replies` is the only one whose continuation can run, as Node delivers messages
of a port in order. The continuation's data (organ, socket, state that was read)
travel in the request, as the closure's variables do.

Every call of a sequence may fail, in one of three ways. `Post` may find the queue
full: the calls that one event makes are then refused together (a ping tick's calls all
compare the same depth). `WorkerFails` is an operation that throws, before or
after its write, whose answer `Rejected` takes. `WorkerCrash` rejects everything
that is pending, with the request in execution committed or not. Each ends the
sequence: its `.catch` writes a line to the log. `cutShort` remembers the sockets
whose *disconnect* sequence ended that way, as the code leaves their organ ALIVE and
without a timer, and `Lost` excepts them, and only them, from the properties; a failing
degradation, recovery or health check, or the failing disconnect of an earlier connection,
is no excuse. `failures` bounds all three kinds together with HOMs that cannot be stored.

`tracked` is the clock of absence in three values: no clock, a clock below the
threshold of five minutes, a clock above it. `timers` is the set of armed grace
timers, named by the socket whose loss armed them, and `handle` is
`reconnectionTimers`: a timer whose handle was overwritten stays in `timers`
and nothing can clear it. `Restart` forgets memory; and `RestartInRegister` is the death of the process between `createEntity` and the
transition to ALIVE, the only way to leave an entity in `REGISTERED`.

Choices worth knowing: the order in which a ping tick visits the client map is
any order (the code's is insertion order); the two worker calls of
`performHealthCheck` before its loop are one request, as nothing happens between
them; OTM announcements and the depth they carry are left out, they change no
state here; a register runs as one step, which leaves out only that the worker's
own connection could commit between two of its statements. `homs` counts the HOMs
that were stored in the mailbox of `human-principal`, `unreported` has the organs whose HOM
could not be stored: it is marked in `alerted` first (`handler.js:353`) and never tried
again. What becomes of a HOM once it is stored is in `MessageDelivery`.

### WorkerCalls and SqliteWorker

`call` is what the promise of each call is doing: `awaiting` readiness, `due`
(its continuation is in the microtask queue), `posted`, or settled in one of
six ways. `CallWorker` compares the depth, `Post` takes the place: two actions,
because an `await` separates them even when readiness has resolved. `HandlesEvent`
says that microtasks run before the next event. `HandleWorkerCrash` is the error
and exit events: rejection of everything pending, rejection of readiness, and the
30 second rule, under which a second crash exits the process for launchd. When
readiness is rejected and no call awaits it, Node ends the process with an
unhandled rejection.

From Node, not from this code: messages a dead thread had posted are delivered
before its exit event, a message posted to a dead thread is dropped without an
error, and `terminate()` does not wait.

`WorkerCalls` is the promise: an operation runs at most once, a call is resolved
only after it has run, and a rejected call does not run any more. Only a shutdown
abandons calls that may still run. `CallsKeepPromise` states that `SqliteWorker`
implements it, by the mapping `Status` from the ten states of a call to five.

### MessageDelivery

A handler that writes more than once is a `task` of several steps, because each
statement commits by itself. The main thread starts nothing else before the
task is done; the worker's sweep (`ExpireMessages`), the network (`Receive`,
`Cut`) and a crash (`Restart`) can happen in between. So a crash may fall between
the push and the row, the row and the audit event, or the push of a backlog row
and its mark.

A message is its number in the order of acceptance, its target, its type and whether
a client posted it or the Spine emitted it. `HasTtl` is `messages.js:76`: governance
types have no TTL, whatever the sender asked for. `EmitPush` is `emitMessageAsync` for
a HOM of the health check (`Principals` are the organs it may go to): its row is
written by the main thread, its audit event goes to the worker (`LeaveAudit`): it is
refused when the queue is full, and lost with the worker. A client's message goes on: `PostAudit`, `PostDepth` reads the mailbox's
depth, `PostSignal` stores the pressure signal, `PostRespond` answers 202.
`InsertFails` ends a handler where an insert throws, which Express answers with 500;
`EventFails` is an insert that throws in the worker.

`Ack` marks whatever pending rows are named, at any time: neither the HTTP route nor the
socket's handler compares the mailbox, or asks for an earlier push or drain. `acked` has
the messages that were marked so.

`rows` is the mailbox table as a set, `wire` what a socket was given and the peer has
not read. A cut socket stays open for the server: what is written to it
is lost. `Disconnect` stands for the close event and for the heartbeat's giving up.

Rows come back by `created_at`, which has a resolution of one second: that rows
of one second come in the order of insertion, and that the clock does not go
backwards, is assumed. Messages are numbered in that order, so the backlog takes the
smallest number that is left (`IsOldest`) and a drain the smallest ones (`FirstIds`).

`MailboxPromise` sees each message as unsent, pending, delivered or gone, with the
set of those that are to last and of those that were answered; `MailboxKeepsPromise`
states that `MessageDelivery` implements it, `Status` is the mapping.

### Manifest

`manifest`, `mailboxes` and `changelog` are the tables, `known` is `manifestMap`. The start
of the process is a task of many steps: `SeedChangelog` row by row, only if no row
of version 1 is there; `SeedOrgan` and `SeedMailbox` for each organ of the list, the second
only if the first inserted a row; then `LoadManifest`. `AddOrgan`, `AddMailbox` and
`AddMailboxFails` are `POST /manifest/:organ_id`, whose map entry follows the second
statement; `RegisterMailbox` is `POST /mailbox/:organ_name`, which asks no manifest.
A crash anywhere starts over with the tables as they are. The module has no
specification of its own: `Subscriptions` makes its actions steps of the whole.

### Subscriptions

`registry` is the table and `cache` the Map. `Subscribe` and `SubscribeCache` are the
two writes of one handler, with a crash possible in between; the client is told
after the second. A filter is a sequence of pairs in the order of its JSON text,
since filters are compared as text; values are atoms. `RouteBroadcast` computes
`delivered_to` from the state. `told` records what clients were told, for the
property. `Register` needs an organ that the map knows and that has a mailbox,
`RegisterRefused` is the close with 4003 or 4001; `HealthStatus` is `GET /health`.

## 3. What is checked

Twelve runs: seven that pass and five that show a disagreement between the code and
what it says of itself. Times are for two workers on a laptop-sized machine.

| Run | Instance | Shows | States, time |
|---|---|---|---|
| `state_machine` | 1 job, 1 organ, histories of 4, 2 writes in flight, 1 fault | `SyncHistoryIsRun`, `DeniedNeverDispatched`, `AnnouncedInOrder` | 977k, 30 s |
| `lifecycle` | 1 required organ, 3 sockets, 2 misses, 1 failure, 1 restart | `QuietMeansDisconnected`, `RequiredIsWatched` | 4.7M, 2 min |
| `lifecycle_faults` | 2 organs, 2 sockets that may register twice or while closing, 2 health checks at once, 1 failure, 1 restart | `AtMostOneClient`, `TrackedIsDisconnected`, `AtMostOneHom` | 3.0M, 75 s |
| `lifecycle_live` | 1 required organ, 2 sockets, 2 misses, 1 failure, 1 restart, fair | `SilentOrganIsGivenUp`, `MissingRequiredIsReported` | 600k, 2 min |
| `worker` | 3 calls, queue of 2, 3 deaths, fair | depth, whereabouts, refinement, every call settles | 109k, 9 s |
| `delivery` | 2 organs, 2 sockets, 2 messages, drain limit 1, threshold 1, 1 fault | the eight delivery properties | 3.4M, 2 min |
| `subscriptions` | 1 seeded organ, 1 added, 3 sockets, 3 filters, 3 envelopes, 1 fault | cache and registry, map and manifest, gaps, health | 1.4M, 30 s |
| `lifecycle_recover`, `lifecycle_reconnect`, `lifecycle_grace`, `worker_bound`, `delivery_loss` | as small as the case allows | section 4 | seconds |

**Why these bounds.**
*State machine*: a race needs two callers on one entity and a decision each, which
`Transition` offers at every state; with histories of four a job gets from `CREATED` past
authorization, where `DENIED` and `DISPATCHED` part, and the organ beside it has
lifecycle writes and answers in flight meanwhile. *Lifecycle*: three connections are a
lost one, the one that follows it while its sequence runs, and one that replaces the
second; two misses
reach `DEGRADED` and the timeout (the code has three, which the proofs cover with every
other number). One failure is one call refused, one operation that throws, one crash of
the worker with all that it had, or one HOM that cannot be stored, at any point; a second one
would be excepted like the first or meet a sequence that the first has left alone.
`MaxPending` bounds the requests outstanding when a timer or pong adds one;
registers, closes and continuations are not bounded by it. *Worker*: three calls
exceed a queue of two, three deaths are the first crash, its repetition within
30 s, and one after. *Delivery*: two messages have an order and, with a threshold of
one, a pressure;
two organs can exchange a socket; a limit of one makes a drain partial; one governance
and one other type tell the TTLs apart; one fault is a crash, a death of the worker, a
failing statement or a full queue, at any point. Either organ may be the one HOMs go to, which makes
organs as symmetric as sockets. *Subscriptions*: one filter extends another and one is
empty; the envelopes carry a key in the envelope, in the payload and in both; the
changelog has two rows, so that a crash can come between them; the seeded organ is
required, the added one may be.

`MaxFaults`, `MaxMessages`, `MaxHistory`, `MaxWrites`, `MaxPending` of the lifecycle,
`MaxChecks`, `MaxFailures`, `MaxCrashes` and `MaxRestarts` bound the models; the others are the
code's own limits or its environment.

**The properties.** An organ is `Lost` when it has registered with this process, has no
connection, and no failure has ended the disconnect sequence of its last one.
`QuietMeansDisconnected`: when no sequence of a lost organ is under way,
its entity is neither ALIVE nor DEGRADED and its mailbox is not
active. `RequiredIsWatched`: a lost required organ has a timer or a clock, or its
disconnect is still under way. `SilentOrganIsGivenUp`: a connection whose peer answers
nothing ends, and its organ is marked DISCONNECTED, unless it is back on another socket.
`MissingRequiredIsReported`: a lost required organ comes back or a HOM about it is stored,
unless the storing itself fails.
`TrackedIsDisconnected`: no clock runs for a connected organ, orphan timers
included. `AtMostOneHom`: the human is told once per absence.
`PendingIsOnItsWay`: what the main thread waits for is in the thread's inbox, in
execution, answered, or was lost with a thread whose exit is still to come.
`AnnouncedInOrder`: of an entity that only `transition()` writes, announcements come in the
order of its history and none twice, and each fault hides at most one.
`AcceptedIsKept`: a governance message answered with 202 stays in the table, and none is
marked as delivered that was neither written to a socket nor named in an ack.
`MailboxKeepsPromise`: delivered or gone is for good, a lasting message does not expire,
nobody is told of a message that was not stored.
`NothingWaitsWhileConnected`: with an open connection of its organ, no message waits.
`RepeatedByCrashOnly`: at most one repetition per crash. `AuditGapsByFaultOnly`: a message
that was stored or pushed has its event, or a fault took it; a fault takes one message of a
client, and what is accepted is audited. `PressureIsSignalled`: no accepted message
waits behind more than the threshold without its signal, however sweeps and
acks interleave. `PressureMeansAbsent`: nobody is signalled or listed as under pressure who
can be pushed to. `PushedInOrder`: when a message is pushed, for the first
time or again, nothing posted to that organ later has been pushed before it, over all
connections and restarts.
`BroadcastReachesSubscribers`: `delivered_to` is the set of reachable organs that have a
matching subscription. `CacheMirrorsRegistry` and `KnownMirrorsManifest`: when no event is under
way the copies in memory hold what the tables hold, but for one organ for each
provisioning that failed. `GapsByFaultOnly`: an organ without a mailbox, or an incomplete
changelog, is the work of a fault. `HealthyMeansComplete`: when `/health` says "ok", every
organ the table requires is connected and has a mailbox, with the same exception.
Every one of them fails on a mutant of the code's definition that `PROJECT.json` names.

Deadlock is not checked: with a bounded number of calls, sockets and messages
every instance can come to a rightful end.

**Fairness.** `OrganLifecycle`: the interval timers fire, the worker executes, the
event loop runs continuations, armed timers fire and time passes — what Node
provides as long as the process lives. Nothing is assumed of peers: they need not answer,
close or come back. Nor is it assumed that calls succeed: the live run has one failure, in
any of its forms, and one restart. After a failure in a degradation, a recovery or a health
check the properties must hold all the same, as the next tick tries again. They except an organ
whose own disconnect sequence was ended by the failure, one whose HOM could not be
stored, and, since the clocks are in memory, one that has not
registered since a restart: the code does nothing more about these.
`SqliteWorker`: the thread starts and works, the main thread handles events. No fairness of death, of close, or of the
30 seconds.

## 4. Findings

1. `lifecycle_reconnect`, `ws/handler.js:212`. An organ that registers while its
   disconnect sequence waits for the worker is set to DISCONNECTED although it is
   connected, and nothing repairs it: `transitionAsync` does not compare the row.
2. `lifecycle_grace`, `ws/handler.js:229`. The handle of a grace timer is overwritten by
   a second disconnect sequence. The orphan fires in a later absence and starts
   its clock before the grace period is over.
3. `lifecycle_recover`, `ws/handler.js:277`. A pong that arrives while the degradation waits for
   the worker resets the counter, and its recovery reads ALIVE and does nothing. Then
   DEGRADED is written, and no later pong recovers the organ, since only a pong
   that ends a series of misses reports one.
4. `worker_bound`, `adapter/sqlite.js:872`. The limit is compared before the await and
   the place is taken after it. Calls that arrive together pass together.
5. `delivery_loss`, `routing/router.js:117`. A push to a half-open connection counts as
   delivery. A governance message, "too important to lose", is lost.

Smaller things that came up, which the models have and no run is spent on:

* `heartbeat.js:82` raises the counter before the ping is sent, so that it is 2, and the organ
  DEGRADED, after one unanswered ping; `heartbeat.js:54` speaks of a second miss.
* An organ whose mailbox insert was cut off is in the manifest for good: the seeding finds
  its row and skips it, `register` refuses it until `POST /mailbox/:organ_name` is called.
  A changelog with a missing row stays so.
* After a failed `POST /manifest/:organ_id` the map lacks the organ, and the same request is
  answered `already_exists` without adding it; a restart repairs it.
* `messages.js:14` lists persist before push; the code pushes first, so that a
  message may have been received although its sender got 500.
* A call that is refused, fails or goes down with the worker ends the sequence that awaits
  it. If it is one of the three calls of a disconnect sequence (`handler.js:202-217`), the
  organ stays ALIVE in the database, a required one gets no grace timer, and it is never
  reported unless it registers again.
* `handler.js:353` marks a HOM as sent before it is stored. If storing it fails it is not
  tried again in that absence.
* An ack is tied to no mailbox and to no receipt: whoever names a pending message marks it
  as delivered (`mailbox.js:91`, `handler.js:615`), and it is not pushed any more.
* The audit event of an emitted message is lost with the worker or refused by a full queue,
  though `index.js:93` says "Always persist in audit trail".
* Announcements of an organ may come out of order: a lifecycle transition is announced
  when its answer is back (`machine.js:197`), after a register that overtook it.

## 5. What is proved

TLAPS proves, for all values of the constants that satisfy the named assumptions, every
safety property, action property and refinement that the passing runs check. A theorem
of an invariant `I` is `Spec => []I`, unless another statement is given.

| Module | Theorem | Property |
|---|---|---|
| `StateMachineProofs` | `TypeCorrect` | `TypeOK` |
| | `SyncHistory` | `SyncHistoryIsRun` |
| | `AnnouncementsFollow` | `AnnouncedInOrder` |
| | `DeniedJobs` | `DeniedNeverDispatched`, given a set `after` with `DispatchIsOneWay(after)` |
| `OrganLifecycleProofs` | `TypeCorrect` | `TypeOK` |
| | `OneClientPerOrgan` | `AtMostOneClient` |
| | `NoConnectedOrganIsTracked` | `TrackedIsDisconnected` |
| | `OneHomPerAbsence` | `AtMostOneHom` |
| | `LostOrganIsWatched` | `Spec => [](~Repeat => RequiredIsWatched)` |
| | `QuietOrganIsMarked` | `Spec => [](~Repeat => QuietMeansDisconnected)` |
| `SqliteWorkerProofs` | `TypeCorrect` | `TypeOK` |
| | `DepthIsCount` | `DepthCountsPending` |
| `SqliteWorkerRefinement` | `AwaitedIsOnItsWay` | `PendingIsOnItsWay` |
| | `CallsAreKept` | `Spec => CallsKeepPromise` (refinement) |
| `MessageDeliveryProofs` | `TypeCorrect` | `TypeOK` |
| | `GovernanceIsStored` | `AcceptedIsKept` |
| | `ConnectedHasNoneWaiting` | `NothingWaitsWhileConnected` |
| | `PushedAgainByCrash` | `RepeatedByCrashOnly` |
| | `PushesAreInOrder` | `Spec => PushedInOrder` (action property) |
| | `AuditGapsHaveFaults` | `AuditGapsByFaultOnly` |
| | `DeepMailboxIsSignalled` | `PressureIsSignalled` |
| | `PressureIsOfTheAbsent` | `PressureMeansAbsent` |
| `MailboxRefinement` | `MailboxIsKept` | `Spec => MailboxKeepsPromise` (refinement) |
| `SubscriptionsProofs` | `TypeCorrect` | `TypeOK` |
| | `MapIsTable` | `KnownMirrorsManifest` |
| | `GapsHaveFaults` | `GapsByFaultOnly` |
| | `OkMeansComplete` | `HealthyMeansComplete` |
| | `CacheIsRegistry` | `CacheMirrorsRegistry` |
| | `SubscribersAreReached` | `BroadcastReachesSubscribers` |

**Assumptions.** `MachineAssumption`: initial and terminal states are states and
transitions lead to states. `LifecycleAssumption`: the lifecycle's steps are pairs of
states. `OrgansAssumption`, `SocketsAssumption`, `CallsAssumption`: the null values are
no members, sets whose cardinality is taken are finite. `FiltersAssumption`: a filter is a
sequence of pairs of a key and a value, which is what a parsed JSON object is. The bounds are
naturals, and limits (`MaxMissed`, the worker's `MaxPending`) at least 1. TLC evaluates
them in every run. That the tables are finite, so that their rows can be counted, is
proved and not assumed.

**What the two lifecycle theorems except.** `~Repeat` is "clients register once
on a socket, and while it is open". It is necessary, and the run `lifecycle` has it as a bound: a second
register moves a socket to another organ, and the first one is then gone without a
disconnect sequence; a register on a closing socket that the map has forgotten already
marks its organ active and ALIVE without giving it a connection. TLC finds either in a few steps
when `Repeat` is TRUE. Nothing else is
assumed: any number of calls may be refused or fail, and the worker may crash and the
process restart, at any moment. What the code does not keep is excepted organ by organ in
`Lost`: one whose own last disconnect sequence was ended by a failure is ALIVE and
unwatched, and one that has not registered since a restart may still be ALIVE in
the database, as nobody marks it.

**Arguments.**

*State machine.* `SyncHistoryIsRun` is not inductive: without `RowsAgree` a row
could have a history before it is created. With it, `RunGrows` is the one real step:
a run that is extended by a step from its last state is a run. The asynchronous
writes touch only `LifecycleEntities`, `RunStays` covers the rest. `AnnouncementsFollow` rests on
`FollowInv`: an announcement is of a recorded transition, the one under way is the last of its
entity's history, and every gap is paid for by a fault. It needs no bound on
faults. `DeniedJobs` rests on `AfterDispatch`: a job that was once dispatched is in `after`,
and `DENIED` is not. `MCStateMachine` has TLC check that `definitions.js` has such a set.

*Lifecycle: the watch.* `WatchInv` is the inductive invariant: the three properties, `NewIsAnonymous`
(a socket that has not connected has no name, so connecting it cannot
give an organ a second client) and `ReportedIsAlerted` (an organ with a HOM is in
`criticalAlertsSent`, so the loop skips it). `StepKinds` sorts the actions by what they
do to these variables, so that the invariant is proved for eight kinds of steps and not for every action.

*Lifecycle: the sequences.* `NamesInv` says that an open socket has a client entry (so a
register gives it an organ that is then connected), that a disconnect request names the organ of
its socket, and that `reconnectionTimers` holds a timer under the name of its
socket's organ (so a register clears no other organ's timer). `EntryIsLatest` says that a connected
organ's entry is that of its last register, so that the sequence which counts is that of
`latest`. `Gone` is `Lost` while a failure may still be on its way: the worker has
answered with an error that the main thread has not read (`Failing`), and nothing is said of
that organ any more. A refusal, an error and a crash all end in `cutShort` (`FollowsLoss`,
`GoneStays`, `CrashCuts`), so a sequence that is neither there nor `Failing`
goes on from request to request. `AbsentWatched` follows it: what it ends with is an armed timer, what a timer
ends with is a clock. `AbsentFollows` is about order. An organ may be lost while the
degradation and the recovery of its earlier connections, and their
disconnects, wait in the queues of the worker, and each writes what an earlier read found. The last disconnect
gets the last word because its status request is posted behind every such read:
`StatusPosted`, `StatusSet`, `ReadPosted` and `ReadDone` are its four places, each with what may
still be behind it, and `FollowsExec` and `FollowsReply` show that the queues hand it
from one to the next. A failing degradation or recovery only takes away a write that could have
come last, and a crash empties both queues at once.

*Worker.* `TypeOK` alone is not inductive: `depth` stays a natural only because an answer
that is settled belongs to a pending call, so that the count is at least 1. `QueueInv` adds
`PendingIsPosted` (the map's keys are the posted calls, so `Post` adds a new one) and
`DepthCountsPending`; `CountOfPending` gives the cardinalities. `WayInv` follows a call from the inbox
through the execution to the outbox: it is in one place at a time (`InOnePlace`), what is on
its way is awaited or was given up by a shutdown (`Whereabouts`), and it has run when it is
past the execution and not before (`RunsOnTheWay`). That is what each step of
`WorkerCalls` needs to be allowed: a call is executed only while it may run, and a
resolved one has run.

*Delivery.* `NumberInv` ties the tables to the numbering (a row, an event or a push is of a number
given out, and agrees with what was sent under it); everything below rests on it.
`GivenInv` says that an accepted lasting message is stored, and that a row marked as delivered
was written to a socket or named in an ack. `WaitingInv` says which rows may wait for an organ
with an open connection: those of the backlog under way, and no other. `OrderInv` says that
nothing still to be pushed, in the mailbox or in the task, is older than something pushed; the
action property follows from it step by step. `AuditInv` counts: the
messages without an event, beyond the one in progress and those waiting for the worker, are no
more than the faults. `PressureInv` says for each stage of the post what the depth that was
read implies, as the sweep may shorten the mailbox between the stages. `MailboxIsKept` takes
the steps of `MailboxPromise` one by one from `GivenInv` and `NumberInv`.

*Manifest and subscriptions.* The properties speak of moments when no event is under way;
the invariants say what holds in between. `TypeInv` has what each task relies on;
`ManifestInv`: the map holds rows of the table only, and a row it lacks is being provisioned,
waits for the load at the start, or is a failure's work; `GapsByFaultOnly` is inductive given `TypeInv`,
as the gap that a crash leaves is the organ that was `Underway`. `NamesInv`: whoever has a name has a
mailbox, which `HealthyMeansComplete` needs. `CacheInv`: the subscriptions that were confirmed
to a client (`told`) are in the registry and, once the process has started, the cache agrees with
the registry on every entry but the one that the task under way is about; that the cache lists
a filter once (part of `TypeInv`) is needed to remove it (`ListWithout`).

**Only model-checked.** Liveness (`SilentOrganIsGivenUp`, `MissingRequiredIsReported`,
`EveryCallSettles`): it needs `ENABLED` and fairness, which this prover does not reach. Its
finite instances are in the runs `lifecycle_live` and `worker`. The five violations are
counterexamples, found by TLC. What a recursive definition computes is not in question: no module has one.

## 6. Order of work and what is planned

Done: lifecycle first, since it has the concurrency, then the engine it writes to, the
worker it waits for, the messages and the subscriptions; then the manifest and the start
under the subscriptions, announcements, emitted messages, pressure, failing statements,
and the abstract mailbox; then the proofs of all safety properties and of both refinements.

To model next, if at all: `OrganLifecycle` over `SqliteWorker` instead of over a queue of
its own. The promise of `WorkerCalls` is what the lifecycle uses, and the composed state
space is out of TLC's reach at the lifecycle's present bounds; its safety could be proved.

To prove next:

* the same two lifecycle theorems for clients that register twice or too late, with the organs excepted
  that a socket was moved away from or that registered on a forgotten one;
* that a lost organ's mailbox is marked before its entity, in every order of events;
* the safety half of the liveness properties: while a silent organ has an entry, each ping tick
  brings its end nearer.

## 7. Reproducing

    tlc -config OrganLifecycle.cfg MCOrganLifecycle.tla
    tlapm OrganLifecycleProofs.tla

and likewise for the others; `PROJECT.json` pairs configurations with modules.
No module uses recursive operators.

## 8. What is not modelled

* Message validation and envelope schemas: a pure check of one request against static
  tables of fields, without state or order; a model would repeat its switch.
* Event schemas, audit queries and introspection routes: one insert under a `UNIQUE`
  constraint, and reads. Of the health routes the status, the list under pressure and
  the provisioning are modelled.
* An emitted message whose target is not in the manifest: it is audited and goes nowhere.
* The OTM that `emitMessage` broadcasts at every register (`handler.js:139-160`), and those
  of a disconnect and of the health check: their events are stored in the audit trail, the first
  synchronously, the others by the worker, and nothing that is modelled depends on them.
  Routing of a broadcast is in `Subscriptions`.
* SQL, WAL mode, and busy timeouts: a statement is an atomic step. A transaction of
  the adapter is one step.
* The client library, the scripts, identifiers (assumed unique) and logging.
* Registration of state machines at run time: definitions are constants.
* Clock values: time appears as the passing of the threshold, of a timer or of a TTL,
  in any order the code allows.
