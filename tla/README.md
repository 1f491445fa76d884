# Formal models of the platform services

TLA+ specifications of the services in `services/`, the RabbitMQ topology in
`messaging/`, the DLQ replay in `scripts/` and the exception gates in
`security/`, checked with TLC on small
instances and, for the safety properties, proved with TLAPS
for every value of the constants.

## The system and its parts

    client -> api-gateway -> user-service        (PostgreSQL: users)
                          -> order-service       (PostgreSQL: orders, idempotency_keys)
                                |  Redis: user cache, GET /v1/users/:id
                                v
                             RabbitMQ  orders -> notification.order-created
                                |          <- retry queue (TTL) <- nack;  DLQ
                                v
                             notification-worker (PostgreSQL: notifications)

| Part | State | Operations | What is hard |
| --- | --- | --- | --- |
| order creation (`orders.service.ts`) | `orders`, `idempotency_keys`, the request's continuation | key lookup, user lookup, transaction, replay, publish | requests with the same key racing at every await; death after the commit; a COMMIT whose answer is lost or that is executed late; late confirm |
| user directory (`user-directory.service.ts`, `cache.service.ts`) | Redis entries, attempts | cached lookup with one retry | stale or failing cache, timeouts against late answers, registration meanwhile |
| event publisher (`event-publisher.service.ts`) | connection, channel, `opening` | lazy open, publish with confirm, close handlers | close events of an old connection, shared opening, orphaned connects |
| notification consumer (`consumer.service.ts`) | deliveries, handlers, x-death counts | handle, retry, dead-letter | ack after a lost session, crash between insert and ack, late DLQ confirm, several replicas |
| consumer session (`consumer.service.ts`) | connection, channel, `stopping`, back-off | connect, consume, reconnect, shut down | SIGTERM in the middle of connecting, timers against broker answers |
| notifications table | rows by `event_id` | idempotent insert | duplicates |
| broker topology, DLQ replay | three queues, shovel | dead-lettering, TTL, shovel | copies in two queues |
| user-service | `users` | create, findOne | unique id and email |
| authentication (`token-verifier.ts`, `auth.guard.ts`) | JWKS cache | verify, classify, guard | keys rotated or unreachable |
| ownership (`auth.decorators.ts`) | none | self-or-admin rules | spelling of ids |
| api-gateway (`gateway.ts`) | rate counters, requests | identify, limit, authenticate, proxy | timeouts, 502 or 504 |
| CI gates (`security/*/gate.mjs`) | none | pure decisions on reports | expiry of exceptions |
| the services together | all tables and the queue | register, order, notify, read | identities and keys across services, time limits that add up |
| health, configuration, telemetry, Helm, compose, dashboards | - | - | no behaviour of interest |

## Modules

| Module | Models |
| --- | --- |
| `NotificationWorker` | `handleMessage`, `handleFailure`, `deadLetter`, sessions as far as deliveries depend on them, the three queues, the shovel |
| `Notifications` | what the worker and its queues promise; `NotificationWorker` implements it |
| `NotificationWorkerProofs` | its inductive invariant, lemmas and theorems, and the refinement |
| `OrderService` | `OrdersController.create`, `OrdersService.create`, the transaction, the publish |
| `IdempotentOrders` | what `POST /v1/orders` promises; `OrderService` implements it |
| `OrderServiceProofs` | theorems and the refinement; `OrderService` and `NotificationWorker` together |
| `UserDirectory` | `exists`, `fetchExists`, `CacheService` |
| `ConsumerSession`, `ConsumerSessionProofs` | the worker's run loop, readiness and shutdown |
| `EventPublisher`, `EventPublisherProofs` | order-service's lazy connection and channel |
| `TokenVerifier`, `TokenVerifierProofs` | `verify`, `classify`, `remoteKeys`, at the gateway, in a service's `AuthGuard`, and once more behind the user lookup of an order |
| `Gateway` | limiter, authentication, proxy, its timers and error handler |
| `OrderPath`, `OrderPathProofs` | the gateway with the awaits of `POST /v1/orders` and their time limits behind it |
| `UserService` | `UsersService.create` against the table's two unique constraints |
| `Access` | ownership rules and the read endpoints of three services, as operators |
| `OrderNotification`, `OrderNotificationProofs` | the services composed: `IdempotentOrders`, `Notifications` and `Access` on shared tables |
| `ExceptionGates` | the verdicts of the dependency and the image gate over time |
| `ServiceProofs` | the theorems about `UserDirectory`, `UserService` and `ExceptionGates` |
| `MC...` | instances for TLC |

### NotificationWorker

A *copy* is a message in the broker: its queue, its event, and the x-death
counts (`rejected`, `expired`). `handlers` holds the calls of `handleMessage`
that have not returned, each with the session whose channel it was given. One
action stands for the code between two awaits:

* `Deliver`: the consume callback up to the first await. A malformed body goes
  straight to `deadLetter`.
* `Record`/`RecordFails`: the insert is executed; the promise rejects, with or
  without the insert having been executed.
* `Acknowledge`, `HandleFailure`, `DeadLettered`, `DeadLetterFails`: the
  continuations. Each looks at whether the channel of its delivery is still
  open (`Live`); on a closed one `ack` and `nack` throw and `track` logs it.
* `DlqAccepts`/`DlqRefuses`: the broker's side of the DLQ publish. It may
  accept after the handler's timer fired.
* `BrokerAck`/`BrokerNack`: frames on a channel are processed in order.
* `OpenSession`, `CloseSession`, `Crash`: sessions of a worker; its unacked
  deliveries return to the main queue.
* `StartReplay`, `ShovelPublish`, `ShovelAck`, `ShovelFails`: `replay-dlq.sh`.

Queue order is not modelled: any message may be delivered next, which covers
every order. `handed` counts failed dead-letterings and only feeds
`BoundedRetries` and the bound `MaxDlqFaults`.

`Notifications` knows only whether an event is waiting, parked in the dead-letter
queue or noted in the table; an event that was published is always one of these.
In the refinement mapping an event is waiting if a copy of it is in the main or
retry queue or unacked, and parked if a copy is in the DLQ.

### OrderService and IdempotentOrders

Every request is a process suspended at one of the awaits of `create`. A
client's retry is another request with the same key; requests may be on one
replica or on several. `ask` abstracts a request to the principal, the user, the
key, and whether the user id is written as PostgreSQL writes it. The
transaction appears as PostgreSQL behaves: nothing is visible before `Commit`,
and the insert of a key waits for an open transaction holding the same key
(`KeyLocked`). `DatabaseFails` is a lost connection at any await on the
database, the answer to COMMIT included; the filter makes it a 503. If COMMIT was on
its way, the transaction is an *orphan* (`orphans`): nobody waits for it, it still
holds its key, and PostgreSQL executes it or not after the caller has its answer
(`LateCommit`). A crash leaves orphans too. `StatementFails` is any other error of
the database (a full disk, a deadlock): rolled back, rethrown and answered 500.
`PublishFails` is a missing channel, an error or the confirm timer; the event may
still land (`EventTravels`).

`IdempotentOrders` has one step for storing an order with its key, one for
answering and one for announcing. A request that was answered 503 may still be
stored; every other answer is final. The refinement mapping reads `phase` from
`step` and `announced` from `wire`; an event is the record of the order and the user
that `publishCreated` puts in it.

### UserDirectory

A call reads the cache, then sends up to `Attempts` requests. The user-service
answers on its own time; the abort timer may win against any answer. Redis may
miss, fail or forget at any moment.

### ConsumerSession

`loop` is the await `run`/`consumeUntilClosed` is suspended at, `down` the one of
the shutdown: those of `onModuleDestroy`, then, in Nest's order, the close of the HTTP
server, the telemetry flush, and the close of the database pool with `process.exit`
behind it. Both run in one process and interleave at awaits only. `held`
is the session in the fields `conn`, `channel`, `consumerTag`. Connections are
numbered by session, so an old one can outlive its session: `LateConnect` is a
connect that settles after its outer timer. A lost connection is noticed later
(`NoticeLoss`). An await with a time limit may end at any moment, so the limits
themselves do not appear. `overrun` and `calm` are history variables for the properties.

### EventPublisher

An attempt is one run of `open()`. `fconn` and `fchan` are `this.conn` and
`this.channel`, by attempt. The broker's answer to `createConfirmChannel`
(`ChannelReplied`) and the code behind the await (`OpenReturns`) are two steps,
because a close event may be emitted between them; `deaf` remembers the attempts
to which that happened. `MaxKills` bounds the channels
the broker closes alone, `MaxFaults` everything else that goes wrong.

### TokenVerifier

A token is the key that signed it and what its claims allow. A request follows its
route: the gateway verifies the token, the service verifies it again, and an order
is verified a third time when order-service looks up the user with the caller's
token. The four processes have caches of their own, so one may know a key that
another does not; requests of one process that need a fetch share the pending one.
Keycloak publishes and withdraws keys at any time. Ages are counted only as far as
the code or a property tells them apart (`CacheOld`, `KeyOld`). jose's key set is
external and modelled from the options `remoteKeys` gives it.

### Gateway

A request is authenticated, proxied, streaming, stalled (a response that broke
off) or done. `age` counts from `startedAt`, `idle` from the last activity of the
upstream's socket. `TOLERANCE` is the 50 ms of the error handler, read as how
early a timer may fire. Request bodies arrive at once, so slow uploads are not
modelled; a stream that stops is `StreamBreaks`, and a streaming response may
idle until the guard timer, which allows more than the code does. The limiter is
the fixed window of express-rate-limit's memory store. `passed[c][a]`, a history
variable, counts what a client got through in the last a + 1 ticks.

### OrderPath

`job` is the await `create` is suspended at, `Limit` the longest it may stay there
and `Follows` what may come next, whether the await succeeded, failed or timed
out. Time passes only while no await is over its limit. Two limits are assumed,
not taken from the code: `DATABASE` for a query or a transaction (only connecting
has a limit, `connectTimeoutMS`) and `BROKER` for the answer to
`createConfirmChannel`, which has none.

### UserService

An insert checks the id's index, then the email's, and waits for a statement
that holds the same value. A lost connection leaves the statement running in the
database; a restart ends all of them. `replyTo` is the mapping of errors to
answers, the filter's 503 included.

### Access and OrderNotification

The three GET endpoints are operators on tables, so that a property can ask what
the answer would be on other tables. Every principal is a customer or an admin;
other roles are refused by the guard (`TokenVerifier`).

`OrderNotification` instantiates the two promises, `IdempotentOrders` and
`Notifications`, on one set of tables. Order-service and worker act on their own
except in `HandOver`, where announcing an order is publishing its event: a record of
the order and the user. The worker's table is made of what those records say
(`NoteTable`), not of what the orders table holds. Orders are named after the request
that stored them. `OrderService` and
`NotificationWorker` are proved to implement the two promises, and the two of them
together to implement `OrderNotification` (`PlatformRefined`).

### ExceptionGates

One action, a day that goes by; everything else is the pure decision of the two
gates. `after(lines)[n]` is what the loop of `parse` has after n lines of
`.trivyignore`. A date that is none is `NaN`, and comparing with it is false, as in
JavaScript. Exits for unreadable or malformed files are not modelled
(`RepositoriesAssumption`: a list of exceptions with dates, a text of lines).

## What TLC checks

| Run | Shows | Bounds |
| --- | --- | --- |
| `worker_settles` | every event is settled in the end; retries are bounded | a good and a malformed event, 8 copies, 2 sessions, 1 failed dead-lettering |
| `worker_safety` | no loss, a delivery has exactly one handler that can still settle it, no early give-up and a fresh retry budget after a replay, refinement of `Notifications` | 2 workers, 1 event, 3 copies, 2 sessions, `MaxAttempts` 3, 1 replay |
| `orders` | one order per key, the loser of a race finds the winner, a refusal or a 500 is final, every request answered, refinement of `IdempotentOrders` (so only stored orders are announced) | 2 requests of every kind, 2 users, 1 key |
| `user_lookup` | a yes is a registered user, a no was true when the user-service said it | 2 calls, 2 users, 2 attempts |
| `session` | readiness, one live consumer, an orderly drain, every connection that is given up is closed, exit after SIGTERM, consuming again after faults | 1 delivery, 2 faults, 1 deleted queue |
| `publisher` | connections are not lost, a closed channel stays stored in one race only, nothing but the shutdown's `close()` ends a publish in flight, every publish settles | 3 publishes, 3 attempts, 2 faults, 1 closed channel |
| `verifier` | how long a withdrawn key is accepted and a new one refused on any of the verifiers of a route, outages | 1 key published and withdrawn at will, 2 requests, the routes `createOrder` and `getUser` |
| `order_path` | the right error, no client cut off without a status, bounded bursts, no hanging request; a gateway limit above the sum of the limits behind it never ends an order in progress | 1 connection, 2 clients, `UPSTREAM` 12, the least that is above the sum |
| `users_create` | a conflict is reported for the right reason, every create answered | 3 requests, 2 ids, 2 emails |
| `platform` | end to end: a customer learns nothing of others' rows, the notification, made from the event alone, agrees with the order and the user, a stored order is readable by whoever placed it, at most one order per key is notified, and a refused request never is | 2 customers, 1 admin, 3 requests, 1 key |
| `gates` | the dependency gate does not begin to pass by waiting; the image gate agrees with a direct definition | 2 exceptions and 2 advisories, files of 4 lines, 5 days |
| `session_drain` | violation: see below | 1 delivery, 1 fault |

The type invariants, `ReplayStartsFresh` on its own,
`SameKeySameOrder`, `OrderOfRequestedUser`,
`EventOfStoredOrder` and `UnavailableNeedsFailures` are not listed by a run: they are
proved, each `TypeOK` as a part of the inductive invariant of its component.

Why the bounds are enough. The worker's hazards need one event, two sessions (a
handler that outlives the first meets the second), one failing dead-letter
publish and one replay; `MaxAttempts` 3 tells an early give-up from a correct
one. In `worker_settles` the pool of copies is so large that no publish ever
waits for a slot. A race for a key needs a winner and a loser; for any number of
requests the order properties are proved. A shutdown meets a session in every
stage with one delivery, and two faults make a session fail while its
predecessor is still closing. One key is at times unknown, published and
withdrawn, which is all a verifier distinguishes; two requests share a fetch or
meet different caches. One connection carries one request after the other, which
fills a window of limit 2 and goes on to the next; the second client shows that
the counters are apart. `WaitsForSlowestOrder` is tight: with `UPSTREAM` 11 an
order is cut short. Three requests are a winner, a replay and an order without the
key. Time limits are scaled down where only their order or sum matters (`verifier`,
`order_path`).

`worker_safety` (workers), `verifier` and `platform` (requests) use symmetry: the
specifications treat the members of these sets alike, and the runs check invariants,
action properties and a refinement without fairness, never liveness.

Runs with `CHECK_DEADLOCK FALSE` are of systems that stop: all requests or
messages are settled, the process has exited, or the days are over.

### Fairness

Faults, clients, crashes, replays and key rotations are never fair, and faults
are bounded in number where a liveness property speaks of what follows them.

* `NotificationWorker`: weak fairness of everything that happens by itself:
  continuations and timers (the event loop), deliveries and TTL (the broker),
  reconnection (the run loop).
* `OrderService`: each request's steps: the event loop runs them, PostgreSQL
  answers, the confirm timer fires; and PostgreSQL ends the transaction of a client
  that is gone, so that nobody waits for its key for ever. The broker owes nothing.
* `ConsumerSession`: the run loop, the shutdown with its timers, the answers of a
  reachable broker while a session is set up (those awaits have no limit), and the
  heartbeat that notices a lost connection. The HTTP server closes because requests are
  answered; the pool closes only while no handler runs, because a handler may hold
  a client of it and its statements have no timeout. So `SigtermExits` promises the exit
  unless the pool waits for such a handler for ever; there Docker's SIGKILL ends it.
* `EventPublisher`: the steps of `open()`, the broker's answers or the notice
  of a loss (`createConfirmChannel` has no timer of its own), the confirm timer.
* `OrderPath`: time passes, verification ends, both timers of the gateway fire,
  and the awaits of `create` end (within their limits, by `OrderTick`).
* `UserService`: PostgreSQL goes on with every statement.

`UserDirectory`, `TokenVerifier`, `OrderNotification` and `ExceptionGates` assume none.

### Where the code and the repository's statements disagree

`session_drain` is kept as a run: SIGTERM while a session is being set up finds
`this.channel` and `this.conn` unset, nothing is cancelled, the set-up goes on to
consume, and the loop timer ends the process over running handlers.
`consumer.service.ts:220` says "stop new deliveries, let in-flight messages
finish, then close."

The others are stated as definitions no run lists. TLC refutes each one when it is
the only property of the given instance. (The last rests on ECMA-262's rules for
`Date.parse`; the script was read, not executed.)

| Definition | Instance | The code | The statement |
| --- | --- | --- | --- |
| `ConflictIsAnotherUser` | `orders` with `Asks <- SharedKey`, `Spec` | a repeated key with the same user id in upper case gets 409 (`orders.service.ts:77`) | `REQUIREMENTS.md:21` "a key already used by a different user gets 409" |
| `UnavailableStoresNothing` | the same | a lost connection at COMMIT gives 503 for an order that is stored, or will be | `service-alerts.md:23` "not stored (clean 503, nothing half-written)" |
| `CountedNeverReachesBroker` | the same | a late confirm is counted, and the event lands | `orders.metrics.ts:7` "its event never reached the broker" |
| `ReconnectsAfterDelete` | `session_drain` with `MaxDeletes = 1` | the null delivery after a queue's deletion is ignored; readiness stays green (`consumer.service.ts:178`) | `consumer.service.ts:171` "(e.g. the queue was deleted) ends this session and triggers a reconnect" |
| `ReconnectsAfterDrop` | `publisher`, 2 publishes and attempts, 1 fault, `MaxKills = 0` | a channel that closes before the code behind the await has run is stored for good | `event-publisher.service.ts:18` "reconnects on the next publish after a drop" |
| `ShutdownFinishesPublishes` | the same, `MaxKills = 1` | the connection is closed before the HTTP server has finished | `REQUIREMENTS.md:32` "finish in-flight, close connections" |
| `OrderGetsItsTime` | `order_path` with the default limits in half seconds: `UPSTREAM = 20`, `TOLERANCE = 0`, `GUARD = 10`, `AUTH`, `JWKS`, `LOOKUP`, `CONNECT`, `CONFIRM` 4, `CACHE = 1`, `DATABASE = 0`, `BROKER = 0`, `LIMIT = 1`, `WINDOW = 1`, 1 client | keys, cache, two lookups, cache, connect and confirm take up to 2 + 0.5 + 4 + 0.5 + 2 + 2 = 11 s, the gateway waits for 10 s | `api-gateway/src/config/env.ts:38` "Must exceed the slowest legitimate upstream call (order creation: user lookup + broker publish)." |
| `TimeoutMeansSlow` | the same | the time includes the token's verification: a connection that breaks in time is a 504 (`gateway.ts:112`) | `services/api-gateway/README.md:22` "no answer within `UPSTREAM_TIMEOUT_MS` -> `504`" |
| `LimitPerMinute` | `order_path` | the window is fixed: twice the limit gets through around its end (`BurstBounded` is the bound the code keeps) | `services/api-gateway/README.md:24` "`RATE_LIMIT_PER_MINUTE` requests per client per minute, `429` beyond that" |
| `EntriesDated` | `gates` | `exp:2026-13-01` matches the pattern, is `NaN`, and passes | `image-scan/gate.mjs:1-2` "an `exp:` date at most 90 days out" |

One more is arithmetic and has no definition: `consumer.service.ts:12-16` calls the sum
of the shutdown's limits "comfortably under 10s", Docker's grace period. Cancel 1, drain 5, close 1
and loop 1 second, and the flush's 2, make 10; the HTTP server and the pool come
on top and have no limit.

(`REQUIREMENTS.md` is under `docs/features/order-notification/`,
`service-alerts.md` under `docs/operations/runbooks/`.) Where such a case would
break a checked property, the property names the exemption: a deleted queue in
`ReadyMeansConsuming` and `EventuallyConsuming`, a set-up in progress in
`CalmExitDrained`, a pool that a handler holds in `SigtermExits`, a closed channel in `LeakBounded`, a channel that closed before
it had listeners in `StaleOnlyByRace`, the shutdown in `OnlyShutdownAbandons`, a window's end in `BurstBounded`, limits
that are too large in `WaitsForSlowestOrder`, a non-date in `ImageVerdictRight`.

## What is proved

All theorems hold for any sets of workers, events, requests, users and keys, any
number of faults and any time limits. Every safety invariant and every action
property that a run checks is a theorem. The assumptions are the named `ASSUME`s of
the modules, which TLC evaluates in the runs, and nothing else.

**NotificationWorkerProofs.** `NoEventLost` is not
inductive: an ack on the wire deletes a message, so one must know why it was sent.
`IndInv` adds: an ack frame exists only if the event is recorded or its
DLQ copy landed (`AckSafe`), a nack frame only within the retry budget
(`NackSafe`), a handler with an open channel owns an unacked copy (`Owns`), alone
(`OwnsAlone`), every unacked copy is owned (`Owned`), and published events are
kept (`Preserved`). A step of one handler concerns only its own copy, which a
frame lemma states once; there is one lemma per action.
`DeliveryRefined`: every step of the worker, the
broker and the shovel is a step of `Notifications` or a stutter. Besides `IndInv` it
needs that queues and handlers hold published events only (`Genuine`); an ack maps
to `Settle` because of `AckSafe`, and to a stutter if another copy remains.
`GivesUpLast` (`NoEarlyGiveUp`): a handler publishes to the DLQ only when the
attempts are used up (`LastAttempt`), and while it owns its message no step of
another one changes the count of that (`CountsKept`).

**OrderServiceProofs.** `Inv` relates the step of each
request to the tables: at most one open transaction, orphans included, holds a key; an
orphan has stored nothing yet, its key is unused, and its caller was answered 503 or died; a stored order of
a keyed request is the key's order, a request past a unique violation finds the key committed.
`Refinement` maps every action to a step of `IdempotentOrders` or to a stutter.
Of `EveryRequestAnswered` the part that is safety is proved: each step of a request
takes it to an await of a higher rank (`CreateEnds`), and whoever waits for a key
waits for one transaction, which waits for nobody (`OneTransactionPerKey`).

The last section runs the two services as they are: `PlatformSpec` interleaves the
steps of `OrderService` and of `NotificationWorker`, and the step with which an event
reaches the queue is a step of both. `PlatformRefined` shows that this implements
`OrderNotification`, in three parts: each service takes only its own steps inside
the platform (`OrdersInside`, `WorkerInside`), each implements its promise
(`Refinement`, `DeliveryRefined`), and the promises together are the platform
(`PromisesCompose`). Hence `EndToEnd`, the five invariants of `platform` and
`NotificationDue`, and `NothingTakenBack`, for the detailed services with every await,
late COMMIT, crash, redelivery and replay. The one assumption besides those of the modules is that
their constants fit (`Fits`): whether a caller is an admin depends on the caller alone.
No run checks `PlatformSpec`; its parts are checked by `orders`, `worker_safety` and
`platform`.

**OrderNotificationProofs.**
`Inv`: what is noted was published, what is published names a stored order and its user, a key
stands for a stored order, and an order agrees with its request and its key. From it follow the
five properties of `platform`. `NothingDisclosed` needs no history: the answer of
each read is shown to be the same on the tables without others' rows.
The composition is exact: the platform implements each promise it is made of
(`PlatformServesOrders`, `PlatformNotifies`), and two services that keep their promises,
and step together only when an event is handed over (`Interleaved`), are a platform
(`PromisesCompose`). Two more theorems are about time: an announced order is noted,
waiting or parked (`NoOrderForgotten`), and no step changes an order's owner, a key's
order or an answer, or withdraws a registration, an event or a notification (`WordKept`).

**ConsumerSessionProofs.** The clauses of `Inv` are about pairs of actors. Run loop and
broker: how far the current session has come (`CurrentSession`), and that sessions of
the past have no open channel (`OtherSessions`, `Layers`), whence `OneConsumer` and
`ReadyMeansConsuming`. Shutdown and run loop: a calm shutdown leaves nothing to set
up (`Stopping`). Shutdown and handlers: once the consumer is cancelled nothing is
delivered, so the copy the drain waits for is all that runs (`Draining`), whence
`CalmExitDrained`. `EveryConnectionClosed`: a connection is left by the run loop only through
the `finally` block or a connect timer, and both see to its close (`NoConnectionForgotten`).

**TokenVerifierProofs.** What a verifier holds of a key, in its cache or in an answer on
its way, is what Keycloak publishes, unless the key has changed since that fetch was
sent (`Recent`); a request that waits shares a running fetch, and the keys held until
then are of no use to it (`Waiters`). A lemma lists what a step can do to a request
(`Fates`): with it `Recent` gives `AcceptedKeysRecent` and `RotationVisible`, and
`Waiters` gives `WarmCacheSurvivesOutage`.

**OrderPathProofs.** `UnderWay`: which clock runs at each step and what the client has
been told, whence `NeverCutOff` and `SlowIsNotUnreachable`. `Windows`: what got through in
the last ticks is counted in the running window as far as that reaches back, and
in the one before it otherwise, whence `BurstBounded`. `Progress`: the proxy has waited for at
most the sum of the limits of the awaits behind `create` (`Spent`), whence
`WaitsForSlowestOrder`. Every step of the composed specification is a step of `Gateway`
or leaves it alone (`GatewayInside`), so the gateway's part is proved on `Gateway` alone:
it holds with any upstream (`AnyUpstream`), and the order path implements the gateway
(`GatewayImplemented`).

**EventPublisherProofs.** What the fields and the publishes in flight refer to belongs to
an `open()` that is over and has a channel (`Stored`, `Kept`, `Using`); what is being
closed before the shutdown has none (`Housekeeping`). So no housekeeping `close()`
meets a publish (`HousekeepingIsSafe`), and every 'close' of the stored channel is
heard unless it came before the listeners (`OneRaceOnly`). `LeaksAreBounded` counts the
connections that stand without being in use (`Detached`): a channel that the broker
closes alone adds one, and the late 'close' of such a connection, which clears its
successor's fields, puts that one in its own place. It needs that one `open()` runs at
a time, with nothing stored meanwhile (`OneOpen`). `OpeningIsShared`: who waits for a
connection waits for the `open()` that runs, never for one that is over; this is the
part of `PublishSettles` that is safety.

**ServiceProofs** is about three components that share nothing.

- `UserDirectory`: cached users are registered, a pending 404 was computed when the
  user was not registered, and every attempt but the running one failed.
- `UserService`: no two statements hold one id, and nobody holds an id that is in the
  table (`Held`); hence whoever gets as far as an email conflict conflicts with another
  user (`ConflictsAreTrue`). The same holds of the emails of statements that hold one
  (`Reserved`); hence no id and no email stands twice in the table, and whoever was told
  201 is in it (`AccountsAreUnique`).
- `ExceptionGates`: `ImageGateIsRight` is an induction over the lines of the file. The
  library's induction theorems cannot be used here, so induction is derived, for sets of
  numbers, from the well-foundedness of the order on the naturals (`LeastNumber`, `Induction`). With it
  the recursive function `after` is shown to exist and to unfold (`LoopExists`,
  `LoopUnrolls`), and then the invariant of the loop (`Loop`): `reason` tells of the last line
  alone, and no entry has a problem exactly if all lines so far are good.
  `WaitingDoesNotHelp`: what is valid tomorrow is valid today (`ValidBefore`).

Only model-checked: the liveness properties (`EventuallySettled`, `EveryRequestAnswered`,
`SigtermExits`, `EventuallyConsuming`, `PublishSettles`, `NoRequestHangs`,
`EveryCreateAnswered`); liveness under fairness is outside the prover's reach.

## Not modelled

Telemetry, logging, metrics other than the publish-failure counter, request
validation, the static-analysis and commit-message gates, Helm, compose and CI
definitions. PostgreSQL, Redis, RabbitMQ, Keycloak, amqplib, jose and the proxy
appear only as the services use them. The routing of `definitions.json` is
assumed to be in place: publishes are not `mandatory`, so a deleted queue would
swallow confirmed messages. The validation of the configuration is a pure check at
startup; the bounds it enforces appear as assumptions on the constants. The probes of
the HTTP services are a ping without state.
