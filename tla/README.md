# Grantsy: specifications, checks and proofs

This directory specifies Grantsy in TLA+: how billing events become entitlements, how
entitlements are read through the service and through the HTTP API, how changes are
sent on to other systems, and how the process starts, refreshes its prices and ends. The specifications are checked
with TLC on small instances, and the most important of their properties are proved
with TLAPS for instances of every size.

Grantsy answers the question "may this user use this feature?". A billing
provider (LemonSqueezy) tells it about subscriptions by webhook; a configuration
maps products to plans and plans to features; users without a subscription are
on an optional default plan. What goes wrong in such a program is seldom one
function: it is a webhook that arrives twice or late, a request that dies between
the database and the memory, a check that runs in the middle of a change. That is
what the specifications are about.

## 1. Inventory

Paths are relative to the repository. "State" is what outlives a call.

### Entitlement service (`internal/entitlements/service.go`, `casbin_model.conf`)
- **State**: casbin's policy rules (plan, feature) and grouping rules (user,
  plan), in memory only; three lookup maps filled at start; a `sync.RWMutex`; the
  Prometheus gauge `active_subscriptions`.
- **Operations**: `NewService` (lookups, policies, subscriptions, gauge);
  `CheckFeature`, `GetUserPlan`, `GetUserFeatures` under the read lock;
  `activateUser`, `deactivateUser` under the write lock; `OnSubscriptionChange`,
  which calls four of these and the notifier and holds no lock in between; getters
  of the immutable configuration.
- **Hard**: readers between the deletion of a user's roles and the addition of the
  new one; the plan and the verdict read in two steps; recursive read locking; two
  decision paths (enforcer and default plan) and two tables (rules and `plansByID`).
- **Correct when** every call is as if done at one instant; a user has one plan at
  most; verdict, reason and listed features agree; calls return; the gauge counts.

### Subscription table (`internal/subscriptions/repo.go`, `internal/infra/db/migrations`)
- **State**: one row per subscription id; a partial unique index on `user_id` over
  the statuses that grant access.
- **Operations**: `UpsertSubscription`, `GetSubscriptionByUserID`,
  `GetActiveUserPlans`.
- **Hard**: no comparison of `updated_at` on update; ties of `updated_at`; the list
  of granting statuses is written down four times.
- **Correct when** a user has one granting row at most and both queries pick alike.

### Incoming webhooks (`internal/subscriptions/route_webhook.go`)
- **State**: none of its own; a request has local variables.
- **Operations**: validate, parse, `GetPrice`, `UpsertSubscription`,
  `OnSubscriptionChange`, answer.
- **Hard**: two stores and a queue changed one after the other without a
  transaction; retries by the provider; requests about one user at the same time.
- **Correct when** table and memory agree, users end up on what the provider last
  said, every event is settled.

### Outgoing webhooks (`internal/webhooks/service.go`, `worker.go`; goqite queue)
- **State**: the queue table (message, receive count, lease).
- **Operations**: `NotifyPlanUpdated` (one message per endpoint); the runner
  receives, extends the lease while `Worker.Handle` finds the endpoint and posts,
  and deletes the message if the handler returns no error.
- **Hard**: queueing that fails between endpoints; a request that arrives although
  its sender gave up; a lease that is not extended in time; five attempts and then
  silence; endpoints that hold every runner; an endpoint gone from the configuration
  after a restart; ten deliveries at once, out of order.
- **Correct when** each endpoint's last message is current; nothing leaves the queue
  before its endpoint took it; only failures use up attempts; messages arrive.

### Pricing provider (`internal/subscriptions/provider_lemonsqueezy.go`)
- **State**: a cache of variants per plan behind its own `RWMutex`.
- **Operations**: `Start`/`load` (first load and periodic refresh),
  `GetPlanVariants`, `GetPrice`, `VerifyWebhook`.
- **Hard**: a failed refresh must keep the old cache and not be the last; a request
  that asks per plan can mix two loads; an unexpected price type ends the process.
- **Correct when** every list read is what some offer said of the plan, later lists of
  an answer are not older, and the cache catches up with the provider.

### API routes (`internal/users/route_user.go`, `internal/entitlements/route_*.go`)
- **State**: none of their own; a request has local variables.
- **Operations**: `GET /v1/users/{id}` reads the plan, and when asked to the features and
  the subscription; `GET /v1/check` reads the verdict and the features of its plan;
  the routes of plans and features read the configuration (and the cache of variants).
- **Hard**: three reads in three critical sections, one of them of a table that changes
  before the memory does; plans may list features that are not defined.
- **Correct when** nobody who asks again is sent back in time, and an expanded plan
  explains the verdict it comes with.

### Middlewares (`cmd/grantsy/main.go`, `internal/httptools`, `internal/auth`)
- **State**: none but counters and the flag of the shutdown.
- **Operations**: a chain around the mux (API key, with three exempted patterns), the mux,
  two middlewares of single routes (not from behind a proxy; health), validation.
- **Hard**: exemptions by glob; which refusal comes first; the probe must pass without a
  key and the provider's webhooks, too.
- **Correct when** only exempted paths are served without a key, and a request without
  one learns nothing.

### Start and end of the process (`cmd/grantsy/main.go`, `pkg/gracefulshutdown`, `internal/infra/db`)
- **State**: a flag and two contexts; in the database the schema's version and its dirty
  mark, which golang-migrate keeps.
- **Operations**: start: `SubscribeForShutdown`, `config.Load`, `db.Migrate`, `db.New` with
  a ping, `NewService`, runner and server; end: signal, readiness drain (5 s), `Shutdown`
  (at most 15 s), cancellation of handlers and worker, 3 s, exit; the health check
  (`healthcheck_mw.go`, and a ping of the database).
- **Hard**: a signal, a kill or an outage in any step of the start, most of all in a
  migration; requests routed while the listener closes or started in the last second of the
  drain; deliveries in flight, which nobody waits for; a second signal.
- **Correct when** a signal always ends the process but never a migration half-way, a
  process becomes ready when nothing prevents it, no routed request is refused, requests
  that fit in the shutdown period are answered, no job is cut off in its request or its
  deletion, and the process ends in time.

### The rest
- `internal/infra/config`: the configuration and its validation.
- `internal/infra/{logger,metrics,tracing}`: middlewares that let every request pass.
- `internal/openapi`, `cmd/openapi-gen`, responses: documentation and formatting.

### How they interact
```
provider --POST--> webhook route --upsert--> table --GetActiveUserPlans--> (restart)
                        |                                                     |
                        +--OnSubscriptionChange--> entitlement service <------+
                                                        |        ^
                              queue <--NotifyPlanUpdated+        +-- check, user routes <-- clients
                                |                                      (user: and the table)
                              worker --POST--> endpoints
```
Every request, the provider's and the balancer's probe included, passes the middlewares.
The service is loaded before the server listens, so no request sees a half-loaded one.

## 2. Modules

| module | models | in the code |
|---|---|---|
| `Catalog` | the configuration and the decisions computed from it (operators only) | `buildLookups`, `loadPolicies`, bodies of `CheckFeature`, `getUserPlan`, `GetUserFeatures` |
| `Entitlements` | the promise of the service: calls that take effect at one instant | the exported methods, without lock or casbin |
| `EntitlementService` | the service as goroutines run it, step by step under the RWMutex | `service.go` without `OnSubscriptionChange` |
| `SubscriptionStore` | the table, its unique index, the upsert and the queries (operators only) | `repo.go`, the migrations |
| `WebhookIntake` | provider, webhook route, table, service memory, queueing, faults, crash, restart | `route_webhook.go`, `OnSubscriptionChange`, `NotifyPlanUpdated`, the start in `main.go` |
| `Outbox` | the promise of queue and worker: a message stays until its endpoint took it | what `NotifyPlanUpdated` and `Handle` rely on |
| `Delivery` | queue, runners, worker, endpoints, crashes, changed configuration | `worker.go`, `NotifyPlanUpdated`, the queue's and the runner's settings in `main.go` |
| `PricingCache` | loads, refreshes and readers of the variants of the plans | `provider_lemonsqueezy.go`, `route_plans.go` |
| `Middleware` | which request is refused where, and the health check (operators only) | the chain and the routes in `main.go`, `mw_skip.go`, `mw_hidden.go`, `auth`, the routes' validation, `healthcheck_mw.go` |
| `Api` | clients of the user, check, plan and feature routes while events come in | `route_user.go`, `route_check.go`, `route_plan*.go`, `route_feature*.go` |
| `Shutdown` | the end of the process, second by second | `graceful_shutdown.go`, the server in `main.go` |
| `Process` | start, supervisor, and then the actions of `Shutdown` | `main.go`, `migrate.go`, `db.go`, `SubscribeForShutdown` |
| `MC...` | the small instances | |
| `...Proofs` | the theorems about a module | |

`EntitlementService` implements `Entitlements` (`ImplementsAPI`, checked and
proved). That is why `WebhookIntake` may treat each call of the service as one step:
`ReadPrevPlan`, `Apply` and `ReadActivePlan` are the `GetUserPlan`, the
`activateUser` or `deactivateUser` and the second `GetUserPlan` of
`OnSubscriptionChange`. That these steps, and those of `Api`'s clients, do what a call of
`Entitlements` does is a theorem too (`CallsAreTheService`).

`Delivery` implements `Outbox` (`ImplementsOutbox`, checked and proved).
`WebhookIntake` stops where a message is queued, and `Delivery` starts there: the
`told` of the one is what the other promises to send. `PricingCache` leaves out
`GetPrice`, which is a step of `WebhookIntake` and touches no cache.

`Api` extends `WebhookIntake` and `Middleware`: clients read the memory and the table that
the intake changes, with its faults, crashes and restarts, and each event of the provider
passes the middlewares. What a read of memory returns is `Catalog`'s. `Process` extends
`Shutdown`, which extends `Middleware` for the balancer's probe; `ProcessImplementsShutdown`
is the lemma that every step of the one is a step of the other or a stutter. Both know of
requests and jobs only how long they take; what a cut request, a cut delivery or the end of
a process that serves leaves behind is in `WebhookIntake` and `Delivery`.

### State and actions of `EntitlementService`
`roles[u]` is casbin's grouping policy, `gauge` the metric, `readers`, `parked` and
`writer` the RWMutex, `pc`, `call`, `seen`, `reply` a goroutine with its locals. A
reader goes `Call`, `RLock`, `ReadPlan`, (`EnforceRules`), `RUnlock`, `Return`; a
writer `Call`, `Lock`, `DeleteRoles`, (`AddGrouping`), (`UpdateSubscriptionMetrics`),
`Unlock`, `Return`. The lock has Go's writer preference: `Lock` announces the writer,
after which `RLock` parks, and `DeleteRoles` waits for the readers inside. casbin's
`DeleteRolesForUser("")` deletes the roles of everyone; the model has it. Errors of
casbin are left out: without an adapter, its in-memory calls do not fail.

### State and actions of `WebhookIntake`
`table` is the database and survives a crash, `assigned` the service's memory and
does not; `events` and `unacked` belong to the provider; `pc`, `req`, `prev`,
`active`, `sent` are the requests; `told` keeps of the queue what the properties
read, the last message for each user and endpoint. A request goes `Deliver`,
`Reject` (400) or `FetchPrice`, `Store` or `StoreConflicts`, `ReadPrevPlan`,
`Apply`, `ReadActivePlan`, `Enqueue` once per endpoint, `Acknowledge` (200). It
fails at the price, at the upsert, at a message or with its answer; the upsert and
a message may fail although the database did the work (`StoredButFails`,
`EnqueueFails`), since the request's context can be cancelled at any time.
A rejected event is taken off the provider's list: its retries are answered alike.

Abstractions: a subscription row keeps user, product, status and `updated_at`. A
signature, an event name and a body are one `shape`, "ok" or "malformed". Plan ids
are never user ids (casbin would confuse them).

### State and actions of `Delivery`
`queued`, `received` and `leased` are the rows of the queue and survive a crash; `up`
and `configured` are the process, `job` and `pc` its runners. `late` counts the
requests whose sender has timed out or died and which may arrive all the same;
`accepted` counts what the endpoints took. `Enqueue` is `NotifyPlanUpdated` for one
endpoint; then `Receive`, `Handle`, `Accept` or `Refuse` or `TimesOut`, `Delete` or
`DeleteFails`; `LeaseEnds`, `ArriveLate`, `Crash` and `Restart` are the environment's.
goqite is external: `Receive` leases a message and counts it, a message received
`MaxReceive` times is not received again, the runner extends the lease while the handler
runs and deletes the message after a nil error. A lease ends under a running handler
only by a fault (an extension that fails). Nothing is assumed of the order of receipt.
An endpoint in `Down` never answers, and failures at it are not faults.

### State and actions of `PricingCache`
An offer is a set of variants; `offers` is the history of what the provider offered.
`loader` is the goroutine `Start`, with its `response` on the way: `Fetch` or `LoadFails`,
then `Install` (the new map is put in the place of the old one under the lock) or
`Panic`, and `TickerFires` if there is a period. `sort.Slice` is not stable, so `Install`
takes any order that is sorted. A client asks for the plans one by one
(`GetPlanVariants`) and answers (`Respond`). `Stop` and `Panic` end the process and lose
the cache; a `Restart` begins with an empty one, which readers can see.

### `Middleware`, and the state and actions of `Api`
`Refusal(r)` is the status a request is refused with, in the order of the code: no key
(401, also for a path nobody serves), no route (404), another method (405), a route that is
hidden from behind a proxy (404), input that cannot be decoded (400), input that fails the
struct tags (422): `InputStatus` is the error handler of validation.go. In `Api`, `asked[c]` is a client's
request, `got[c]` what its handler has read, `status[c]` its answer and `heard[c]` what the
client has been told about a user. `Ask` passes the middlewares or is refused; then one step
per read, in the handler's order: `ReadMemory` (`GetUserPlan`, `GetUserFeatures` or
`CheckFeature`, each under the read lock), `ReadPlanFeatures` (the verdict's plan, from
the configuration), `ReadSubscription` (the table; `ReadSubscriptionFails` is 500); then
`Respond` (200, or 404 for an id that is not configured) and `Hears`. The intake's steps
and `CrashWithReaders`, which takes the requests under way with it, interleave with these.
Of a subscription the plan and the status are kept.

### State and actions of `Shutdown`
`phase` is main's goroutine: `Signal`, `Drained`, `ShutdownReturns`, `Exit`, each with a
`timer`; `draining` is `isShuttingDown`, `cancelled` the context that handlers and
jobs share. `Tick` is a second: it is disabled while somebody is due (`MainIsDue`, a
request that is finished or cancelled, a job whose request is cancelled or whose deletion
is over), which is how timeouts are on time. The balancer polls the health check (`Poll`) and routes while the
last answer was 200 (`Route`). A second signal kills, since `WaitForShutdown` restores
the default handling.

A job sends its message with the runner's context. Between `JobTaken`, when the endpoint has
the message, and `JobAnswered`, when the worker has the 2xx answer, the context may be
cancelled: `JobUnanswered` (worker.go:91-97), and the message stays in the queue although an
endpoint has it. The same does a client timeout or a lost connection; `JobFails` is an answer
other than 2xx. The deletion has a context of its own, with a timeout (`DeleteTime`); it needs
the database (`JobDeleted`) and may fail for any reason (`JobUndeleted`). So an accepted
message may be sent again by the next process, and no property says otherwise: `NoJobCutOff`
says that at a graceful exit every job has come to one of these ends.

`PollEvery < DrainDelay` and `DeleteTime < HardPeriod` are assumptions about the balancer and
about the runner's timeout for deletions, named in the module. The server's
`WriteTimeout` equals the shutdown period (15 s): a request that the shutdown may cut
could not have been answered anyway.

### State and actions of `Process`
`stage` says how far main has come. The steps of the start are `SubscribeForShutdown`,
`LoadConfig`, `MigrationBegins`/`MigrationEnds` or `NothingToMigrate`, `Connect` and `Serve`;
each of the fallible ones has a `...Fails` that is `os.Exit(1)`, by a database that does not
answer or by one of `MaxFaults` faults. `rootCtx` is the context of the signals:
`SignalArrives` kills a process without one and is kept by one that has it until main
`Wakes`. `schema` is "absent", "dirty" while and after a migration that did not end, or
"current"; the mark is golang-migrate's (external), and `MigrationRefused` is its answer to
a dirty schema. `Kill` is SIGKILL during the start, `Respawn` the supervisor, which starts a
process that has not been told to stop.

### Assumptions about the environment
The provider is external. `Overlap` says whether it may have two requests about one
user under way, `InOrder` whether it sends an event only when the user's earlier ones
are settled. The code enforces neither; the runs say which property needs which.

## 3. What the runs show

| run | instance | properties |
|---|---|---|
| `entitlements` | 27 configurations (3 plan lists, 3 product lists, 3 defaults), 2 users of which one has the empty id, 2 features, 2 clients; 507,657 states | `TypeOK`, `CheckAgreesWithFeatures`, `ListedFeaturesAreAllowed`, `ReasonExplainsVerdict` |
| `entitlement_service` | 2 goroutines, 2 configurations, 2 features, 2 users; 73,972 states | `TypeOK`, `AtMostOneRole`, `GaugeAtRest`, `CallsReturn`, `ImplementsAPI` |
| `gauge` | the same | `GaugeIsExact` is violated |
| `intake_in_order` | 1 subscription, 3 events, 2 faults, `InOrder`, fairness; 18,567 states | `EntitlementsFollowProvider`, `EveryEventSettles` |
| `intake_any_order` | 2 users with a subscription each, 2 handlers, 3 events in any order, 1 fault; 274,835 states | `TypeOK`, `StoreMemoryAgreement`, `LastToldIsCurrent` |
| `intake_overlap` | 2 subscriptions of one user, 2 handlers at once, equal timestamps, product 0, malformed events, 1 fault; 2,039,743 states | `OneGrantingSubscription`, `RestartLoadsTheShown` |
| `intake_reordered` | 1 subscription, 2 events, any order | `EntitlementsFollowProvider` is violated |
| `intake_two_subscriptions` | 2 subscriptions of one user, no faults, in order | `SubscribersHaveTheirPlan` is violated |
| `delivery` | 3 messages to an endpoint that works, one that works and may leave the configuration, one that never answers; 2 runners, 2 attempts, 2 faults, fairness; 102,846 states | `TypeOK`, `GivenUpOnlyAfterFaults`, `ImplementsOutbox`, `MessagesArrive` |
| `pricing_cache` | 2 plans, 3 offers with drafts, equal sort keys and a price that is not a number; 2 changes, 2 faults, fairness; 8,653 states | `TypeOK`, `AnswersGoForward`, `EventuallyFresh` |
| `process` | drain 3, shutdown 4, hard 2, polls every 2 s, deletion 1 s; 2 requests of 3 or 10 s, 1 job; 2 faults in the start, fairness; 275,204 states | `TypeOK`, `NoRequestRefused`, `ShortRequestsAnswered`, `NoJobCutOff`, `ExitInTime`, `ProcessTypeOK`, `MigrationOutlivesSignals`, `SignalStops`, `BecomesReady` |
| `api` | 1 user with 1 subscription (`past_due`, `expired`), 2 products of which one has no plan, a plan with an undefined feature; 2 events in order, 1 fault or crash; 1 client with 12 requests and 2 answers; 257,758 states | `ApiTypeOK`, `ReadsGoForward`, `ExpansionExplainsVerdict`, `KeyRequired` |

**Why these bounds.** Reader, parked reader, announced writer and waiting writer need
two goroutines; a wrong answer needs one reader and one writer. A stale overwrite
needs two events of a subscription, a stale overwrite that is repaired or repeated
three. A fault at every step of a request is one fault; two faults are a retry that
fails again or a crash after a failure. Two endpoints are the fewest between which
queueing can fail. Statuses are reduced to one that grants access and one that does
not, and the runs take different ones (`past_due`, `cancelled`, `active`), since the
code treats members of a group alike and the lists of the group are what can differ.
The two handlers of the intake are interchangeable, so those runs use symmetry; no
liveness is checked with it. `MaxEvents` and `MaxFaults` bound the two
counters of the model.

In `delivery`, two runners are the fewest of which one can be held by a dead endpoint
or handle a message twice, and two attempts the fewest of which one can be lost and one
left; two faults are enough to use them up, so the exception in `MessagesArrive` and
`GivenUpOnlyAfterFaults` is reached as well as its negation. In `pricing_cache`, a
mixed answer needs two plans and a change between two reads; the third offer tells "not
older" from "the newest". In `process` the periods keep the order of the code's
(5, 15 and 3 s): a request that just fits in the shutdown period and one longer than
everything after the signal; two requests, since one can end while the other keeps
`Shutdown` waiting; two faults, since a kill in the migration and a failure in the next
start are two. In `api`, "not back in time" needs two answers of one client and a state
that changes and changes back, or a crash between the table and the memory: two events and
one fault. Clients share no state, so one is enough; what it may ask is one request of each
kind that the middlewares or the handlers tell apart.

Deadlock is checked in every run. Where all events are settled nothing is left to
do; `AllSettled` allows only that state to stay, as `Exited` and `Stopped` allow a process
that has ended.

**Fairness.** `EntitlementService`: every goroutine that can step does (the Go
scheduler), and the inner mutex of `sync.RWMutex` hands itself over to a writer that
has waited too long, hence strong fairness of `Lock`; no caller need call.
`WebhookIntake`: requests run, the process is restarted after a crash, and the
provider retries what it has no 200 for (strong fairness of `DeliverSome`, as a crash
disables it). Faults are never fair and happen at most `MaxFaults` times, fewer than
the provider's attempts. `Delivery`: runners receive, handle and delete, an endpoint that
is not down answers, the client's timeout ends the wait for one that is, a lease without
a handler ends, and the process is restarted; refusals, failed deletions and crashes
are bounded and never fair. `PricingCache`: the provider's API answers (or the load
fails), the ticker ticks, the process is restarted. `Process`: main's start goes on (or fails), the
supervisor starts a process that failed again, time passes and whoever is due acts. The code
sets no timeout on the start's questions to the database (`Migrate`, the ping, the load): a
database that neither answers nor refuses would hold the start, and a stop with it, and is
what the fairness of the start leaves out. `SignalStops` is meant so.
Signals, kills, faults, outages and requests are never fair. Hence `SignalStops` starts at
the signal, and `BecomesReady` asks for a database that stays up and excepts what really
prevents it: a signal, an address that is taken, a second signal, and a migration that
was cut, after which every start is refused until somebody repairs the schema by hand.

`ReadsGoForward` is stated for one request per user at a time, events in order and one
subscription per user; without these the intake itself goes back in time
(`intake_reordered`).

### Where the code and its documents disagree
1. **`gauge`**: `activateUser` deletes the roles of a user, finds the product mapped
   to no plan and returns before it refreshes the gauge (service.go:273), which goes
   on counting the plan the user has lost. metrics.go:50 calls it "Number of active
   subscriptions by plan". `GaugeAtRest` is what does hold.
2. **`intake_reordered`**: an older event that comes after a newer one, because it was
   delayed or is retried, replaces it in the table and in memory (repo.go:71). TLC shows
   either of two mirror images: a late "expired" takes away the plan that the provider
   last said is active, or a late "active" brings back one that has ended. README.md:11 has the billing provider as "the source of
   truth". `intake_in_order` shows that it is, if events of a user come in order.
3. **`intake_two_subscriptions`**: one subscription of a user is active, and then an
   event says that the user's other one is expired: it deactivates the user although the
   row of the first is still active (service.go:239), until a restart; README.md:138 gives the default plan to "users without a subscription".

Noticed while reading, and too plain to need a run:
- The comment at service.go:19 lists the statuses a restart loads without `past_due` and
  with a condition on `ends_at`; the query has the one and not the other. The model follows
  the query.
- `docker-compose.yml:12` probes `/health`, a path without a route (and without an
  exemption, so the answer is 401); the route is `/healthz`.
- `AddErrorResponses` (openapi.go) documents no 404, which the routes of one plan and
  one feature answer; the user route may list features that the feature route
  answers 404, since plans may name undefined ones.
- `config.example.yaml` has no `api_key` of the provider, which the validation requires.
- `main.go` does not look at the outcome of `webhookQueue.Setup`; if it has failed, every
  message fails and not the start.

## 4. What is proved

All theorems hold for every number of users, clients, plans, features, events,
handlers, endpoints and faults; the named assumptions of the modules say what is
required of the constants (types, `NoPlan` not a plan, finitely many users for the gauge's count).

- **`CatalogProofs`**: lemmas about the operators. A product resolves to a plan id or
  to none; with unique plan ids the rules of a plan are the features its
  `plansByID` entry lists (`PoliciesAreFeatures`), and so what a check allows is what the
  plan it answers with lists (`VerdictIsListed`).
- **`EntitlementsProofs`**: `TypeCorrect` and `CheckAgrees`, that is
  `Spec => []CheckAgreesWithFeatures`, from `VerdictIsListed`; `ListedAreAllowed` (also with duplicate plan ids, where
  the rules are merged and the listed features are those of one entry, from
  `FeaturesAreInPolicies`); and `ReasonsExplain`.
- **`EntitlementServiceProofs`**: `Invariance` of `IInv`, from which `TypeCorrect`,
  `OneRole` and `Refinement` follow. `AtMostOneRole` is not inductive:
  `AddGrouping` adds a role to what is there, so `IInv` says that between
  `DeleteRoles` and `AddGrouping` the user has none; that nobody else writes
  meanwhile needs that the writer is the one client between `Lock` and `Unlock`;
  that readers are not inside needs that the locked steps are disjoint; and
  `Refinement` needs that what a reader has `seen` is still the plan of its user.
  The refinement mapping gives a user whose role is still to be added the plan it
  will have, so the change takes effect at `DeleteRoles`, `Perform` of a check is
  its `EnforceRules`, and every other step but `Call` and `Return` stutters.
  `GaugeBounds` is `Spec => []GaugeAtRest`, for finitely many users: `GaugeInv` says that the
  gauge counts no plan too low except between `AddGrouping` and the refresh, and, if every
  product has a plan, none too high except from `DeleteRoles` to the refresh.
  `LockNeverJams`: while calls are under way, one of them can take its next step. With
  `IInv` it needs `Waits` (whoever is about to read is inside or parked, and nobody is parked
  without a writer). `ENABLED` being out of reach, `CanStep` spells out what each statement
  waits for; TLC's deadlock check and `CallsReturn` look at the actions themselves.
- **`WebhookIntakeProofs`**: `TypeCorrect`; `OneGranting`, with overlapping requests
  and any owners, from the unique index alone; and `TableAndMemoryAgree`, that is
  `Spec => []StoreMemoryAgreement` under `SerialUse` (one request of a user at a
  time, one subscription per user, a user and a product in every event). The
  strengthening `Linked` adds that a user has one request at a time, that rows
  belong to the owner of their subscription, that what a request has stored stays until it is
  applied, and that the provider still holds the event of every request; without the
  last, a write that was reported as failed could be forgotten. Two facts about the
  queries carry the step `Apply`: what a restart loads depends on the user's rows
  only (`OtherUsersLoadTheSame`), and the only row decides it (`TheOneRowIsLoaded`).
  On these rest four more, and the dates for `Api`:
  - `RestartLoadsShown`, that is `Spec => RestartLoadsTheShown` with no assumption on use:
    with one granting subscription (`OneGranting`) the two queries cannot differ.
  - `ProviderIsFollowed`, that is `Spec => []EntitlementsFollowProvider` under `OrderedUse`
    (`SerialUse`, each user's events in order and well-formed). `OrderInv` says that
    events settle in order, so that each user has a `Current` one, the last that is
    settled or the first that is not, and that table and memory each hold what one of
    these two says. Where they differ a request or a retry is still to come.
  - `EndpointsAreToldOfThePlan`, that is `Spec => []LastToldIsCurrent` under `WellFormedUse`
    (`SerialUse` and well-formed events, in any order). `TellInv` says that a
    request which is telling tells of the plan its user is on, and that a user with nothing
    outstanding has been told of what a restart would load. With `StoreMemoryAgreement` that
    is the user's plan, also after a crash that lost the memory it was told from.
  - `SubscribersAreServed`, that is `Spec => []SubscribersHaveTheirPlan` under `SerialUse`. The
    run `intake_two_subscriptions` refutes it for a user with two subscriptions; with one each
    it holds for any events, in any order.
  - `StoresDated` (lemmas `InitDates` to `StepsKeepDates`, under `OrderedUse`) gives table and
    memory a date per user, the number of an event. Every step takes stores that are dated to
    stores that are dated no earlier, and memory is never ahead of the table. A crash leaves
    memory empty and its date alone; a restart takes the table's.
- **`ApiProofs`**: `ApiTypeCorrect`, `ExpansionExplains` and `KeyIsRequired`, for any requests,
  clients, events and faults. `ApiInv` speaks of one client at a time: what it has read of a
  check is the verdict on some plan, and then the features of the plan the verdict names,
  whatever the intake has changed between the two reads; `VerdictIsListed` makes
  that `ExpansionExplainsVerdict`. `KeyIsRequired` says that without the key
  a documented GET endpoint answers 401 and with it only the input decides (400, 422 or the
  handler). It needs `MetricsIsApart`: the path of the metrics
  (`metrics.path`), which is exempt from the key, is not one of a documented endpoint. The
  configuration does not enforce that.
  The reads of several moments need the dates of the stores. `ReadsForward` is
  `ApiSpec => []ReadsGoForward` under `OrderedUse`; `FlowInv` says that there are dates for
  memory and table (`StoresDated`) and for every read in the answers of each client, the
  pending one included (`Log`), such that a read has the value of its date, is not later than
  the store it came from, and not earlier than the reads before it. The dates are quantified
  in the invariant; the module needs no history variable. A row read may be newer than a
  memory read after it, since memory follows the table, so `Forward` compares a read with
  the later ones of its own kind, and one of memory with the later ones of the table. On the
  same invariant rests `SettledReads`, an action property: with nothing outstanding for a
  user, what is read is what the provider's last event says. `ApiTableAndMemoryAgree` and
  `ApiProviderIsFollowed` carry two theorems of the intake over to the composition, where
  the failure of a client's read takes one of the faults (`StepsOfTheIntake`).
  `CallsAreTheService` is described in section 2.
- **`PricingCacheProofs`**: `TypeCorrect` and `AnswersForward`, that is
  `Spec => []AnswersGoForward`. `AnswersGoForward` speaks of answers only; `IInv` dates all
  the process holds by offers: the cache is of one offer, a response on the way of one
  that is not older, and the lists a client has read of ones that are not newer, in the
  order they were read (`DatedBy`).
- **`ProcessProofs`**: `StartTypeCorrect` (a process that serves has a current schema and a
  context for signals) and `MigrationSafe` from `StartInv`; `TypeCorrect`, `NobodyRefused`,
  `ShortAnswered`, `JobsEnd` and `EndsInTime`, for all periods in the assumed order and
  any number of requests and jobs, from `Inv`, which accounts for time: a balancer that still
  routes has polled before the signal, so its last poll is as old as the drain; a running
  request has had the part of the shutdown period that is over; a job's request does not outlive
  the moment of the cancellation, and a deletion has had the part of the hard period that is
  over. `Inv` is proved of `Shutdown`'s actions and carried over by
  `ProcessImplementsShutdown`.
- **`DeliveryProofs`**: `Invariance` of `IInv`, from which `TypeCorrect`,
  `GivenUpAfterFaults` and `Refinement` follow. `Outbox` bounds how often an endpoint
  accepts a message by `MaxReceive`, which no single step shows: a message can be
  accepted by a runner and by requests whose senders are gone. `Budget` says that each
  receipt pays for one of them: accepted, late and active attempts together are at
  most the receipts. `Reasons` says why a runner may delete: its message was accepted
  or has no endpoint. `Attempts` says that every receipt of a message to a working
  endpoint but the one under way was lost to a fault of its own; at `MaxReceive` with
  no handler it is `GivenUpOnlyAfterFaults`.

Only model-checked: everything temporal under fairness (`CallsReturn`,
`EveryEventSettles`, `MessagesArrive`, `EventuallyFresh`, `SignalStops`, `BecomesReady`), which
is out of reach for the prover. Every invariant and action property of a passing run is
a theorem.

## 5. Not modelled

- The order in which messages reach an endpoint: the code promises none.
- Signing, headers and metrics of outgoing webhooks; the pages of the pricing API.
- Logging, tracing, the recovery from a panic and the request metrics: they let every
  request pass, and nothing depends on their state.
- Responses, OpenAPI, YAML and environment substitution, names and descriptions of plans
  and features: formatting of what never changes.
- Signatures and JSON beyond "accepted or not". Error results that cannot occur
  (casbin in memory).
- The environment's connection pools, the driver's differences between SQLite and
  PostgreSQL, and the statements inside a migration: external.

## 6. Plan

Done: the service and its promise, the intake, the queue and worker with their
promise, the pricing cache, the middlewares, the start and the end of the process, the API's
reads, and the proofs above. Left:

A composition of intake and delivery: a plan change reaches every endpoint that
works, from the provider's event to the endpoint, with crashes anywhere.

## Running

`tlc -config MCEntitlements.cfg MCEntitlements.tla` and likewise for the other
configurations, each of which belongs to the module of its name (those named
`MCIntake...` to `MCWebhookIntake`, `MCGauge` to `MCEntitlementService`); `tlapm EntitlementServiceProofs.tla` and likewise for the
other proof modules. Definitions introduced by "As a bug would have it" are not
part of the specifications: put in the place of the definition they follow,
they are faults that the property named in `PROJECT.json` must catch.
