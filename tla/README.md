# Verification of infernal-librarian-simple

This directory models Librarian, a small Rust service that receives governed
work from a kernel (infernal-law), performs it on documents in its own
PostgreSQL database and reports completion back. The modules are TLA+; TLC
checks small instances and TLAPS proves the main results for every instance.

## 1. The system

One process runs one work loop and one health server. It talks to two
authorities that share no transaction.

```
 kubelet --probes/kill--> [ health server | work loop ] --signed calls--> kernel
                                 \            |                 (routes, claims,
                                  \           | statements       instance leases)
                                   +------> PostgreSQL
```

| component | source | state | operations |
|---|---|---|---|
| document repository | `postgres_document_repository.rs`, `domain.rs`, `migrations/0001` | tables `documents`, `document_versions`, `put_operations`; an open transaction per `put` | `put`, `get`, `search` |
| dispatch | `dispatch.rs` | none | action and scope to a repository call |
| work loop | `lib.rs` (`work_once`, `run`) | the route, claim and request of the pass in progress | list, claim, read, dispatch, complete |
| kernel client | `kernel_client.rs`, `claims.rs`, `routes.rs`, `routed_request.rs` | none | signed calls; a status becomes an outcome or an error |
| instance lease | `lib.rs` (`renew_lease_if_due`), `instance_lease.rs` | `InstanceLease { revision, expires_at }` | renewal when less than 20 s are left |
| health | `health.rs`, `main.rs` | the heartbeat (an atomic shared by two threads) | `/health/live`, `/health/ready` |
| startup | `lib.rs` (`from_env`), `main.rs`, `database.rs` | the challenge in hand; the schema | enroll, subscribe, connect, migrate |
| subscriptions | `kernel_client.rs` (`ensure_subscription`), `subscriptions.rs` | kernel side only | list, then create |

**What is hard here.** `put` is several statements under READ COMMITTED and may
run concurrently with itself for one document or one request id. A pass is five
remote calls; between any two of them a lease can expire, another worker can
take over and the process can die, and every call can be lost before or after it
takes effect. The loop is single-threaded, so a pass that waits for the database
delays the lease renewal and the heartbeat. A lapsed lease cannot be renewed;
only a restart helps, and whether it comes is the heartbeat's business. A
request that can never be performed comes back as the oldest route each time its
claim is over. Startup is some ten calls that may each fail, is run from the start
again by a new process with a new key, and races the startup of other Pods.

**What makes it correct.** Repository: versions without gaps, one operation per
version, one recorded answer per request id, atomic to its callers. Work loop:
completion only after success, no mutation after completion, no duplicate
documents, every request that can be performed is performed in the end. Lease:
never lapses while what the margin allows for happens. Health: Ready only after
a recent pass, no restart for a hiccup, a lockout ends. Queue: requests that fail
for ever starve neither the younger ones nor the heartbeat. Startup: who runs has
its subscriptions and tables, duplicates are bounded, every Pod gets to run. Reads:
never go back.

`PROJECT.json` lists the hazards with their lines and the properties that cover
them.

## 2. Modules

| module | what it is |
|---|---|
| `DocumentRepository` | abstract: what the trait promises. A `put` is invoked, then performed, recognised or refused in one step; the answer of a performed one may be lost |
| `PostgresDocumentRepository` | `put`, one action per SQL statement; `ImplementsPromise` is the refinement |
| `PostgresDocumentRepositoryProofs` | invariants and refinement, proved |
| `DocumentReads` | `get` and `search` as operators on the tables of `PostgresDocumentRepository`, while it runs |
| `DocumentReadsProofs` | both read properties, proved |
| `GovernedDelivery` | abstract: what Librarian promises to the kernel, without claims, workers, retries or lost calls |
| `WorkLoop` | `work_once` / `run` / `dispatch` of several workers, composed with an external kernel and with `DocumentRepository` (`Repository == INSTANCE ...`); `ImplementsDelivery` is the refinement of `GovernedDelivery` |
| `WorkLoopProofs` | its safety properties, the refinement and that it uses the repository only as promised, proved |
| `Service` | the whole service: `WorkLoop` over `PostgresDocumentRepository` (`Postgres == INSTANCE ...`) instead of over its promise; `ImplementsWorkLoop` is the refinement |
| `ServiceProofs` | that refinement, and with it the way from the SQL statements to `GovernedDelivery`, proved |
| `InstanceLease` | the renewal loop against two clocks |
| `InstanceLeaseProofs` | the condition on the margin, proved sufficient; renewals come late in the lease |
| `RunLoop` | `InstanceLease` with the queue of routes: what passes over good, unavailable and poison requests do to each other and to the heartbeat, in seconds |
| `RunLoopProofs` | it implements `InstanceLease`; the condition on the claim lease, proved sufficient; what a route and the heartbeat wait, in seconds |
| `Startup` | `from_env` of several Pods, call by call: enrollment, `ensure_subscription`, the connection, the migrations |
| `StartupProofs` | its safety properties, proved |
| `Health` | a Pod: startup, loop, heartbeat, probes, restart; composed with `InstanceLease` |
| `HealthProofs` | its safety properties, proved for all thresholds; it keeps to `InstanceLease` |
| `MCPostgresDocumentRepository`, `MCWorkLoop`, `MCService` | symmetry and concrete requests for TLC; the first also brings in `DocumentReads` |

How state and actions correspond to the code:

- **`PostgresDocumentRepository`.** `pc` names the statement a caller executes
  next. Rows a transaction has written and not committed are held in `txn` and
  `call`, which is READ COMMITTED seen from the others; `Commit` moves them to the
  tables. Locks are not variables: a row is locked by whoever is between its
  `FOR UPDATE` and its end (`HoldsRowLock`), a request id by whoever is about to
  commit it; the key of a version is checked by its insert (`KeyIsFree`). `Fail` is any statement's error, the pool's included, and what
  PostgreSQL does with the transaction of a process that died. `Commit` has two
  outcomes for the caller, answered or lost. Of a content type only blankness
  matters, hence the small set `ContentType` next to `Text`.
- **`DocumentReads`.** Each read is one statement, so it sees the committed rows of
  one moment and is an operator on them. `Search(matching)` takes, like
  `DISTINCT ON` in `SEARCH_SQL`, the newest row of a document among those that
  match.
- **`WorkLoop`.** `pc` names the call the worker makes next, and one action is one
  call with its possible answers. `propose_claim` and `complete_claim` can be
  applied and their answer lost. The kernel keeps, per route, the latest claim
  (`fencing_token`, `state`); a completion with another token, or for a claim whose
  lease ran out, is fenced. `RouteNotFound` behaves like `AlreadyClaimed` and the
  `NotFound` of a completion like `Fenced`, as in the code. `dispatch` never
  names a document, so every put creates version 1. A call that arrives late is a
  worker that is slow to make it. A process that dies during a put is one whose
  put ends first and whose answer nobody reads; its successor is another worker.
- **`Service`.** The variables of both modules; the tables, `call` and `outcome` are
  shared, and the `pc` of a put is here called `statement`. A dispatched put is
  `Dispatch` and `Put` in one step, a statement leaves the loops alone, a call to the
  kernel leaves the transactions alone. Where `WorkLoop` has one step for a put
  (`RepositoryPut`), a put here takes up to seven, with everything else in between.
- **`InstanceLease`.** An `expires_at` is kept as the time until it. `in_step`
  says whether the process has the kernel's current `lease_revision`. A process
  that did not enroll itself has `None` and never renews.
- **`RunLoop`.** A pass is one step with the outcomes that `WorkLoop` has call by
  call. `held` is the rest of the claim on a route and `heartbeat` the time since
  `record_success`. Three are histories: `failures` counts the passes since that
  success, `taken` who went first and `waited` how long a route has been eligible.
  `heartbeat` and `waited` are counted while the process has its lease (`Owned`):
  without it every pass is rejected, which is the subject of `Health`. Which requests are poison
  is decided when they are routed: the code can never perform them, while a
  kernel or database that is away is a `Hiccup`.
- **`Startup`.** `pc` names the call or SQL statement a process makes next. An
  `Err` is `Exit`: the process is gone, and the container starts another one that
  remembers nothing. What survives is the kernel's (`spent`, `subscriptions`, a
  create still on its way in `late`) and PostgreSQL's (`schema`). The migration
  batch is one implicit transaction; `CREATE TABLE` waits for an uncommitted one of
  the same name and then fails, two `CREATE INDEX` share their lock and
  `ALTER TABLE` needs the table alone, which is how two of them deadlock.
- **`Health`.** `InstanceLease` with the outages of kernel and database as causes
  of lost calls and slow passes, in units of one poll interval. Startup is one
  step that needs both. The 300 s claim lease is beyond its time scale.

Helpers whose comment says "a mistake to be caught" are altered forms of the
action after them; they are used by no specification and exist to show that the
property named in `PROJECT.json` fails if the code were changed that way.

## 3. Runs

| run | instance | result |
|---|---|---|
| `repository_race` | 2 callers, 3 request ids, 3 documents, 2 contents | types, version history, appends that never collide, one operation per version, recorded answers, one claimant per mutation, refinement; `ReadsNeverGoBack`, `PutIsReadable` |
| `repository_liveness` | 2 callers, 2 request ids, 3 documents, fair | every call returns |
| `work_loop_every_request` | 2 workers, 2 routes, 7 kinds of request, 2 faults, 3 claims | all safety properties of the loop, and `ImplementsDelivery` |
| `service` | module `Service`: 2 workers, 2 routes, 2 faults, puts statement by statement, fair | `AcceptedWorkIsCompleted`, `ImplementsWorkLoop` |
| `work_loop_unknown_action` | 2 workers, 1 route, 1 fault | violated: see findings |
| `startup` | 2 Pods, 3 actions, 2 faults, each way to enroll, with and without tables, fair | `StartedIsReady`, `DuplicatesAreBounded`, `EveryPodStarts` |
| `lease_renewal` | module `RunLoop`: 60 / 20 / 5 s, iterations <= 1 s plus the sleep, clocks 1 s apart, 2 calls or answers lost in a row; 2 routes of any kind, 1 failed call, claims of 19 s | `LeaseKeptInStep`, `RenewsLateInTheLease`, `OlderRoutesTakeOneTurn`, `HeartbeatKeepsBeating`, `TurnComesInTime` |
| `lease_lost_answer` | one lost answer | `LeaseNeverLapses` violated: see findings |
| `health_hiccups` | lease 12, margin 4, stale 6 / 30 poll intervals, outages of one interval | `HiccupsCostNoRestart` |
| `health_outages` | thresholds scaled to 6, 2, 3 / 10; outages longer than a lease; lost answers; fair | `ReadyMeansRecentPass`, `StuckLoopIsReplaced`, `LockoutEndsAfterFirstPass` |
| `health_lockout`, `health_database` | real thresholds, one database outage | violated: see findings |

**Bounds.** Two callers are enough for any race between two transactions; three request
ids let a document be created and two appends to it race, with different
contents. A put that loses the race for the last of them may find no UUID left
and can then only fail; for the first two there is always one. That two of three may wait for one
holder is left to the proofs, which hold for any number. Two routes give one Request delivered
twice as well as two Requests. `MaxFaults` bounds lost calls, crashes,
repository failures and leases that expire under a working holder; two allow a
fault during the recovery from another. `MaxClaims` bounds reclaims; in the
`service` run it exceeds what the faults can cause, so it never blocks one. The
lease runs use the code's seconds; `RENEWAL_MARGIN_SECONDS = 20` is exactly what
`lease_renewal` needs (1 + 1 + 3 * 6). The claims of the same run are scaled to
its routes: 19 s is one second more than two routes and one failed call need
(3 * 6), and at 18 s the run finds a route that is taken twice. The code's 300 s
scale the same way, see section 4. Two Pods in `startup` meet in every pair of
statements, and two faults let a recovery fail again; three actions are the
code's. `health_hiccups` uses the code's thresholds
in units of 5 s; outages of one interval are the limit of what it claims: the
margin of 4 is exactly what `HiccupsAreShort` asks for them (a poll interval, the
kernel outage and the pass that fails in it, the database outage: 1 + (1 + 1) + 1),
and if one of the two lasts a second interval, together they can already cost a
restart. `health_outages` scales the thresholds down, keeping their order (pool
timeout longer than the margin, lease shorter than the liveness threshold), so
that outages longer than a lease fit. `waited` and the age of the heartbeat are not
capped: `TurnComesInTime`, `HeartbeatKeepsBeating` and `StuckLoopIsReplaced` bound
them, and their runs reach those bounds. Symmetry is used in safety runs only.

**Fairness.** `run` loops for ever and every statement ends, hence weak fairness
of each worker and caller. PostgreSQL queues lock waiters, hence strong fairness
of the two waiting statements of `put` (in `Service` of the one that its puts, which
always make a new document, can come to), and of `ALTER TABLE` in `Startup`, where a
process goes on and a container that exited is started again (weak fairness of
`FromEnv`). Leases whose holder is gone expire. Nothing has to
fail and no request has to arrive. In `Health`, the process, the probes and time
go on, a container that exited is started again, and outages end. Everything else
(kernel outages, crashes, lost calls) is not fair but bounded.

Limits of the liveness results. `AcceptedWorkIsCompleted` is about requests
that can be performed (`Performable`), and its run contains no others; that those
in front of them do not fail for ever in their place is `OlderRoutesTakeOneTurn`.
The waits of a put for
others are in it, statement by statement. Gets are left out because a get of a
document that does not exist yet is one of the others. `EveryPodStarts` leaves out an injected `ENROLLMENT_CHALLENGE`: it is
single-use, so the second process, or the first one after a lost answer, can never
enroll with it.

## 4. Proofs

tlapm checks all eight proof modules without gaps.

- **Repository.** `IInv` strengthens the table invariants by what each statement
  may rely on: `CallState` (what has been read before `pc`), `TxnState` (what a
  transaction has written: version 1 of a document nobody knows, or MAX + 1 of a
  row it has locked), and two exclusions, `RowLockExclusive` and
  `RequestIdExclusive`. Without the first the version that was read could be stale
  at commit, without the second one request id could be committed twice. From it
  follow the five table and answer properties, `MutationClaimedOnce` and the
  refinement: `Commit` maps to `Perform`, `FindPutOperation` and `FindWinner` to
  `Recognize`, errors to `Refuse`, everything else to stuttering.
- **Work loop.** `IInv` adds `PassState` (what a worker knows at each call; above
  all that a pass at `complete_claim` has its work done) and `ReportState`. It is
  inductive because what is done stays done and an accepted request never changes.
  `ImplementsDeliveryHolds` needs one fact more: where `WorkLoop` performs,
  `StepDelivers` maps the step to `Perform` or, when the request was performed
  before, to a stutter; a completion is applied only from a pass whose
  `PassState` says that the work is done.
- **Service.** The two halves together. `ServiceIInv` is the invariant of the loops,
  that of the repository, and `NoAnswerYet`: a put that is in progress has no outcome.
  Each half keeps its own in the steps of the other. A statement is a step of
  `WorkLoop` because it is one of the promise or none (`StatementImplements`), and a
  dispatched put is one that the repository may be called with. So
  `ImplementsWorkLoopHolds` and `RunsPostgres`: every behaviour of the service is one
  of `WorkLoop` and one of `PostgresDocumentRepository`, and what is proved of either
  holds of it. `ServiceDelivers` is the end of the chain: SQL statements of racing
  transactions, claims that expire, lost calls and crashes together implement
  `GovernedDelivery`. `UsesRepositoryAsPromised` says the same of the loops over any
  repository that keeps the promise.
- **Lease.** For all constants, if
  `margin >= skew + pass + (lost + 1) * (pass + poll)`, the lease is longer than
  margin, skews and startup, then `LeaseKeptInStep`: the lease is kept until an
  answer of an applied renewal is lost. The invariant `EnoughLeft` says that what is left of the
  lease exceeds the longest time until a renewal is answered. The other side,
  `RenewsLateInTheLease`, needs no condition on the margin: the kernel's lease is
  never longer than the process thinks (`NotTooEarly`, but for the clocks), and a
  renewal is under way only when the process thinks that it is due
  (`RenewsWhenDue`).
- **Reads.** Rows are only added, each newer than the rest of its document
  (lemma about `Commit`), so what was found stays or is superseded.
- **Queue.** `RunsTheLease`: `RunLoop` implements `InstanceLease`, which gives
  `RunKeepsLease` and `RunRenewsLate` at once. If moreover `CLAIM_LEASE_SECONDS`
  exceeds `(routes + failed calls) * (pass + poll)`, then `OlderRoutesTakeOneTurn`,
  `HeartbeatKeepsBeating` and `TurnComesInTime`. `TakenStaysAway` says that an older
  route which was taken stays claimed until all that may go before the waiting one
  has gone; `FailuresExplained` charges each failed pass since the last success to a
  poison route that is still claimed, or to a failed call. From passes to seconds:
  each failed pass has cost a round (`HeartbeatFollows`), and so has each pass that
  took another route (`WaitFollows`), counting what is left until the next pass.
  `TurnComesInTime` is what can be proved of `AcceptedWorkIsCompleted`: not only
  does a route's turn come, it comes within a round for each older route, each
  failed call and itself.
- **Startup.** For any number of Pods, actions and faults. `EnsuredSoFar` says what
  a process has been through; `CreatesAreFew` counts, besides the subscriptions
  there are, everybody who may still add one.
- **Health.** `LoopKeepsToItsLease`: probes, outages and requests do not reach into
  the lease. Three invariants, each for all thresholds:
  - `ReadyCountsProbes` ties the age of the heartbeat to the readiness probes that
    have failed and to the one that is due, which is where the threshold plus the
    failure count of `ReadyMeansRecentPass` comes from.
  - `SilenceIsCounted` does the same for liveness: over the threshold, the heartbeat
    has aged a period for each failed probe and the time since the last. It gives
    `StuckLoopIsReplaced`, the form with a deadline of `LockoutEndsAfterFirstPass`.
  - `HiccupIInv` says what the lease and the heartbeat must still last: until the
    next look, the rest of the outages there are, and then every outage that may
    still come, one after the other. It needs `HiccupsAreShort`: margin and liveness
    threshold cover the sum of all those outages with one poll interval for each
    that makes a pass fail (an outage of the database does not, for the lease: the
    pass waits it out in the pool, however long `PoolTimeout` is). Lost answers are
    excluded; one is enough to lose the lease (finding 2).

Assumptions are those named in the modules: `None`, `Blank` and the sets are
distinct, requests are well formed and a request id names one request, numbers
are naturals, `Pod` is finite.

What follows for the code's own numbers. Claims of 300 s and iterations of up to
6 s (1 s of pass, 5 s of sleep) cover 49 routes and failed calls; with more requests
that fail for ever than that, younger routes may starve. Within that, the tenth
route waits up to a minute. The 150 s of the liveness probe are reached earlier: by
`HeartbeatKeepsBeatingHolds` the heartbeat stays within (poison + failed calls + 1)
* 6 s, which is 150 s for 24 of them; from 25 on, a row of failed passes can outlast
the threshold, and the kubelet restarts a healthy process, which changes nothing
about them. Both are for one loop; another worker's loop takes routes away from
this one. Passes that wait 30 s for the database are beyond this `MaxPass` and are
the subject of `Health`. A process whose passes stopped succeeding is replaced after
at most 150 + 3 * 10 = 180 s, and a margin of 20 s rides out one outage of 5 s of
the kernel and one of the database, at any moments.

Only model-checked: liveness (`CallsReturn`, `AcceptedWorkIsCompleted`,
`LockoutEndsAfterFirstPass`, `EveryPodStarts`), which is out of the prover's reach.
Every safety property of a passing run has its theorem.

## 5. Findings

1. `work_once` ignores the outcome of completing an unknown action
   (`lib.rs:259`), though the comment says the claim is completed
   (`work_loop_unknown_action`).
2. One lost answer to an applied renewal makes every retry fail
   (`lib.rs:334`), against the "retry room" of `instance_lease.rs:15`
   (`lease_lost_answer`).
3. A process that loses its lease before its first successful pass is never
   restarted (`health.rs:87`, `health_lockout`).
4. A database outage with work waiting leads to a restart
   (`lib.rs:312`), which `health.rs:15` means to avoid (`health_database`). Such
   a pass waits 30 s for the pool (r2d2's default, not set in `database.rs:38`),
   longer than the renewal margin, so the lease goes as well.

Noticed, without a run of its own:

- `domain.rs:120` says that `search` looks at "the latest version of every
  document". `SEARCH_SQL` takes the latest *matching* one: a document whose newest
  version no longer matches is still a hit, with an older version. `DocumentReads`
  models the code, and `ReadsNeverGoBack` shows what such hits still guarantee.
- `NOTES.md:34` says that the migration batch "executes on every boot without
  error". Two Pods that boot at once can collide in it (`TablesWait`,
  `MigrationFails`); the loser exits and its next start succeeds, which is part of
  `EveryPodStarts`.
- `ensure_subscription` can leave an action with more than one subscription, as its
  check and its create are two calls; `DuplicatesAreBounded` is what holds.

## 6. Not modelled

External and modelled only as the code uses them: the kernel, PostgreSQL, the
r2d2 pool, the kubelet. `Uuid::new_v4` is taken to be unique.

- **Request signing and wire formats.** Serialising and signing a call and parsing
  its answer keep no state of their own; which status or parse error becomes which
  outcome is part of the action that makes the call. Cryptography and JSON are not
  what a model checker is for.
- **Errors.** The error types carry text; that a call can fail, and what its caller
  does then, is in every action.
- **Deployment.** Configuration; the probe periods are constants of `Health`.
- **Reading the environment and the mounted files** in `from_env`: configuration that
  does not change between two starts, so a bad one fails every start alike.
- **Ranking, `LIMIT` and text matching of `search`**, titles, source URIs, digests and
  timestamps of documents, logging.
- **Time in `Startup`.** A startup longer than the 60 s of the instance lease it
  enrolled for would run without one; `InstanceLease` and `Health` start with what
  is left of it. A subscription that an operator disables while the process runs is
  recreated only by the next start, and is left out.

Why the project stops here: every operation of the components that keep state is
an action of a module. What could still grow is the size of the instances, which the
proofs make unnecessary for safety, and one module with both the statements of
`Service` and the seconds of `RunLoop`, whose state space is beyond TLC and whose
two halves meet in what a pass does to a route.
