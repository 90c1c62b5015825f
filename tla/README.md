# OpenTryRW in TLA+

OpenTryRW gives a user a Remnawave panel on a droplet of its own for an hour.
The Python backend (`src/opentryrw`) has two kinds of process on one PostgreSQL
database: the API (FastAPI, with a cleanup loop in every process) and a worker.
They never talk to each other; everything goes through rows. The worker drives
DigitalOcean and Cloudflare, which can fail, and whose answers can get lost.

This directory holds the specifications, the TLC models and the proofs kept
beside that code. `PROJECT.json` maps every definition to the lines it stands
for, lists the runs, the mutated definitions each property was seen to reject,
the hazards of the code and the theorems.

## Inventory

| Component | State | Operations | What makes it correct |
|---|---|---|---|
| Job queue (`worker.py`, `deployments_async.py:184`) | `deployment_jobs` | enqueue with and without dedupe, claim a batch under a lease, done, retry, fail | a job is with one worker at a time, is not tried without bound, and ends |
| Worker handlers (`worker.py:112-340`) | `deployments`, `provider_resources`, droplets, DNS records | provision, refresh, terminate, cleanup | what is closed is released; a created droplet is not forgotten; a ready session stays ready; users are told once |
| Reconciliation (`worker.py:402`) | reads all of the above | re-enqueues what has no job, is stuck or was left behind | whatever a crash left behind is picked up |
| API session handlers, cleanup loop (`deployments_async.py:321-462`, `api.py:73`) | `deployments.status` | DELETE, GET, expiry scan | a committed request is carried out; expiry is enforced |
| Session creation (`deployments_async.py:222`) | `deployments`, `cooldowns`, `abuse_signals` | POST | one live deployment per user, capacity kept, cooldown kept |
| Rate limiter (`security.py:52`) | `rate_limits` | count a request in a window | at most `limit` requests in a window |
| Telegram login (`auth_async.py`, `api.py:239-295`) | `auth_states`, `users`, `auth_sessions` | start, callback, logout | a state is used once, a confirmed login succeeds, the rate limit covers the whole callback |
| TinyDB backend (`deployments.py`, `auth.py`, `db.py`) | a JSON file | the same, synchronously, for development | |
| Providers and DNS (`providers/`, `dns_providers/`) | none of their own | create, poll, destroy; publish, clean up | |
| Notifications | two flags in `deployments` | flag, then send | |
| Audit and events, readiness, metrics, settings, cloud-init, frontend | | | no protocol behaviour; not modelled |

What is hard: API and worker read a row, wait for a provider or for another
transaction, and write what they decided from the copy; a job is retried after
errors and taken over after crashes, with provider calls that are not
idempotent; the dedupe of jobs is a SELECT before an INSERT; three mechanisms
(refresh chain, cleanup loop, reconciliation) overlap to end a session, and one
must remain whatever the others miss. `PROJECT.json` lists these hazards at the
lines where they bite.

## Modules

| Module | Models |
|---|---|
| `JobQueue` | the job table and everybody who enqueues, claims, finishes or retries jobs |
| `WorkPool` | abstract: jobs that are added, tried, and ended, and how many outcomes may come late |
| `JobQueue_proofs` | theorems about the table, that it implements `WorkPool` among them |
| `Lifecycle` (extends `JobQueue`) | one deployment with its jobs, droplets, DNS records, ledger, the worker's handlers, reconciliation, the API's handlers and cleanup loop |
| `Lifecycle_proofs` | its types, that every step of `Lifecycle` is a step of the queue, and what follows |
| `Tenancy` | abstract: what one deployment promises its user and whoever pays for it; `Lifecycle` implements it with one worker |
| `Settlement_proofs` (extends `Lifecycle_proofs`) | what a closed deployment guarantees, and which droplets and records can be lost with one worker |
| `Bounds_proofs` (extends `Settlement_proofs`) | how many refresh jobs poll a deployment and how many droplets run unrecorded, with any number of workers |
| `Users_proofs` (extends `Bounds_proofs`) | what users see: how often they are told, that a ready session stays ready, that a DELETE is not dropped, and that the whole is a `Tenancy` |
| `SessionCreate` | concurrent POST and GET requests against capacity, open deployments and cooldowns |
| `SessionCreate_proofs` | theorems about it |
| `WindowBudget` | abstract: windows that do not overlap, each with a budget |
| `RateLimiter` | one row of `rate_limits` and the requests that count in it; implements `WindowBudget` |
| `RateLimiter_proofs` | theorems about it, the refinement among them |
| `AuthFlow` (extends `RateLimiter`) | login callbacks that pass the limiter, consume a state, exchange the code and open a session |
| `AuthFlow_proofs` (extends `RateLimiter_proofs`) | theorems about it |
| `MCJobQueue`, `MCLifecycle`, `MCSessionCreate`, `MCAuthFlow` | instances for TLC |

### JobQueue

`jobs` is the table, `held[w]` the ids worker `w` claimed and has not finished
(the local `job_ids` of `run_once`), `checked[c]` the kind whose dedupe query of
client `c` came back empty, so that check and insert are two steps. A step is
one transaction. Abstractions:

- Time: a queued job can be claimed at any moment, which covers `next_run_at` and
  every backoff. A running job can be claimed again when no live worker holds
  it (its lock grows old) and, up to `MaxOvertakes` times, although one does: its
  batch took longer than `WORKER_LOCK_SECONDS`, and since `mark_job_done` and
  `reschedule_or_fail_job` do not look at `locked_by`, both workers then write the
  outcome. `overtakes` counts the jobs so taken.
- `locked_by` is written by the code and never read; it is left out.
- A finished row that no worker holds is reset to `NoJob`, so the ids are reused and
  the table is finite though the number of jobs is not.
- `RowsOf[k]` says which rows a kind may take, and a new job gets one of the free
  ones by a fixed choice (`Free`, `Insert`): ids mean nothing to the code, and with
  enough rows (below) no insert is ever refused.

The table implements `WorkPool` (`ImplementsPool`): `Progress` says of each row whether it was
added, tried or is over, and `Late` is how many pairs of a worker and a job it holds
(`Pairs`) exceed the rows that run and are held (`OnDuty`). A holder of a row that runs is
the one who is due to end it; every other holder is late. A claim makes as many holders
late as it takes jobs, a late outcome spends one, a crash can only lose some. So an
outcome is written over another, or a finished row brought back to `queued`, at most as
often as jobs were taken from workers still at them; without that, never.

### Lifecycle

A worker's step is a transaction or a provider call: `pc[w]` names the next
one, `snap[w]` is the row as the handler read it (SQLAlchemy objects outlive
their session), `ans[w]` the provider's answer, `cur[w]` the job, `todo[w]` what
a pass of `reconcile_once` has still to enqueue. An API handler's step
(`api[h]`) is its read, its commit or its enqueue. `snap` and `ans` are reset when
the handler no longer looks at them, which changes no behaviour and merges states.

| Action | Code |
|---|---|
| `ClaimJobs`, `Begin...`, `Finish`, `Retry` | `run_once`, `process_job`, `mark_job_done`, `reschedule_or_fail_job` |
| `Create`, `Record`, `Track`, `Enqueue` | `process_provision` |
| `Poll`, `AskProvider`, `Apply`, `Successor`, `ExpireSession`, `ReadyFlag`, `ReadySend` | `process_refresh` |
| `EndFlag`, `EndSend`, `Destroy`, `Untrack`, `Close` | `process_destroy`, `process_failed_deployment` |
| `ReconcileRead`, `ReconcileLedger`, `ReconcileEnqueue` | `reconcile_once` |
| `GetFinds`, `GetReads`, `LoopReads`, `DeleteReads`, `ApiCommits`, `ApiEnqueues` | GET and DELETE handlers, `cleanup_expired_sessions_async` |
| `HandlerRaises` | the `except Exception` of `process_job`, for whatever is not a provider call |
| `Expire`, `Vanish`, `WorkerDies`, `ApiDies` | the clock, an operator at the provider's console, crashes |

Abstractions:

- `initializing` stands for `initializing` and `installing`: every set of statuses in
  the code has both or neither.
- Worker transactions that read and write one row are one step. A commit of
  the API that falls between the read and the write inside has the effect of
  one just before or just after, because the API's own read and commit are
  already separate steps.
- An error of a transaction, of the database say, leaves the rows as they were. In a
  worker's handler `process_job` catches it and the job is retried while the process goes on
  (`HandlerRaises`); a commit whose answer is lost is the commit followed by such an error at
  the next step. The last commit of a job has no next step: when the answer of
  `mark_job_done` is lost, the job that was done is rescheduled, which is not modelled. Nothing
  catches an error of `reschedule_or_fail_job`, `claim_jobs` or `reconcile_once`: the process ends
  (`WorkerDies`). An error in the API ends the handler it is in (`ApiDies` with some handlers only).
  `crashes` counts all of these, so `MaxCrashes` bounds them together.
- A POST that finds an expired deployment takes the branch that `GetFinds` and
  `GetReads` model. The mock provider, audit rows and events are left out.
- Two outcomes of a lost answer are kept apart: for `Create` the droplet exists
  (`orphaned`) or not; for `Publish` the fallback domain is taken. `AskProvider` may also raise
  after the record was published (an answer without an id, the health check): the record is
  then `orphaned` and the job retried.
- `reconcile_once` reads with five SELECTs in one transaction, here one step (`ReconcilePlan`). What
  the first two of them find is enqueued in the same way and merged; which rows are old enough is
  chosen for the deployment and for the ledger separately (`Ages`).
- A new droplet or record gets the next unused id (`NextId`): ids mean nothing to the code.
- The cleanup loop is one handler; it reads and commits every expired deployment
  in one transaction, here the one.

`Tenancy` is the promise behind all of this, without jobs, handlers or reads of old rows: a
deployment waits, runs, ends and is over; it obtains one droplet, which is never
exchanged and which runs no more when the deployment is over; what a process that
dies was about to record goes adrift, one droplet for each at most, and nothing
else does; each message is sent once, `ready` only to a session with a droplet, not over
yet, and `ended` only to one that ends. `Stay` maps `Lifecycle` to it: `Phase` is read
off the status and `closed`, the droplet off `dep.inst` and the provider's account, `adrift`
is `Strays`, the deaths are `crashes`. Every step of every actor must be a step of
`Tenancy` or change nothing there, and most change nothing: jobs, the ledger, DNS records,
and a status written from an old copy of the row, as long as it stays within what the
phase allows.

### SessionCreate

The modules above follow one deployment; this one has many, and reduces each to
its status, user and start. A step of a request (`pc[r]`) is one transaction of
`create_session_async`, or of the answer of POST and GET; `now[r]`, `seen[r]` and
`signal[r]` are its local variables.

| Action | Code |
|---|---|
| `Find`, `Normalize` | `_active_deployment_for_user_async`, `normalize_session_async` |
| `CheckFingerprint`, `ReadCooldown`, `DropCooldown`, `CheckCapacity` | `get_fingerprint_cooldown_until_async`, `get_cooldown_until_async`, `ensure_capacity_available_async` |
| `Insert` | the transaction that inserts deployment and provision job |
| `SetCooldown`, `WriteCooldown`, `WriteCooldownRaises`, `SetSignal`, `WriteSignal` | `_set_cooldown_async`, `set_fingerprint_cooldown_async` |
| `Answer` | the last lines of `create_session_async` |
| `Fails`, `Ends`, `Reopens` | what `Lifecycle`'s actors do to a deployment, at any time |

Abstractions:

- `active` stands for every status of `ACTIVE_STATUSES`, so the steps that change one
  of them into another (expiry, DELETE) disappear; `over` for terminated, expired,
  and failed with `terminated_at`.
- A transaction that reads the clock and then a row is one step at the time of the
  reading of the row.
- `signals` has a row for every POST slot and fingerprint. A new row takes the
  place of the one its slot inserted before, which is over.
- A user's row exists (login inserts it), capacity and both cooldowns are switched on.

### RateLimiter

`row` is the row of one key, `now[r]` the clock reading of a request, which may be
old when the row's lock is granted. What a transaction reads and writes under
`FOR UPDATE` is one step. When there is no row, SELECT and INSERT are two
steps, between which another request may insert. `windows` and `total` count
windows opened and requests let through and are read by no action.

A request that dies (`Abandon`) has its transaction rolled back.

### AuthFlow

A callback (`at[r]`) is the handler `telegram_callback` in api.py: first the limiter, whose
steps are `RateLimiter`'s own, then `consume_auth_state_async`, the two calls to Telegram,
`persist_user_async` and the new row of `auth_sessions`. `carries[r]` is what the handler
holds, a state and later the user. `uses` and `lost` are read by no action.

| Action | Code |
|---|---|
| `Start` | `create_telegram_authorization_url_async` |
| `Callback`, `LimitPasses`, `LimitWaits`, `LimitRejects` | `enforce_rate_limit_async` in `telegram_callback` |
| `ReadState`, `DeleteState`, `DeleteExpired` | `consume_auth_state_async`: SELECT; DELETE and commit, which succeeds also when the row is gone |
| `Exchange` | `exchange_telegram_code`, `verify_telegram_id_token`, `user_from_oidc_claims` |
| `FindUser`, `InsertUser`, `InsertUserFails` | `persist_user_async`: SELECT; INSERT, or the IntegrityError nobody catches |
| `OpenSession`, `Logout` | `create_auth_session_async`, `delete_auth_session_async` |
| `TimePasses`, `Dies` | the clock, the end of the API's process |

Abstractions:

- Telegram's answer is arbitrary: it may accept one code twice, or refuse any.
- Requests are those of one address, so there is one row of the limiter; the limiter
  of `start` has a key of its own and is not modelled. A callback whose state was
  never drawn goes the way of one whose state is gone.
- The clock is read in the step that reads the state's row.
- Requests die one by one, which covers a process that dies with all of its requests.
- `sessions` is a count: nothing here depends on whose sessions they are. Sessions do
  not expire in this code, and `get_auth_user_async` only reads.

## Runs

| Run | Instance | Shows |
|---|---|---|
| `queue` | 2 rows, 2 workers, API, 2 attempts, 1 crash, 1 take-over | `Exclusive`, `AttemptsBounded`, `ImplementsPool`, and under fairness `EveryJobEnds` |
| `one_worker` | 1 worker, a DELETE, a GET, no DNS, 2 faults | types, `OverMeansGone`, `LedgerTruthful`, `StraysBounded`, `ChainsBounded`, `OneNotice`, `ClosingReleases`, `OverStaysOver`, `ReadyIsStable`, `DeleteIsCarried`, `ImplementsTenancy` |
| `crashes` | 1 worker, a DELETE, 1 crash | `StraysBounded`, `StrayRecordsBounded`, `ChainsBounded`, `ClosingReleases`, `ImplementsTenancy`, `DeleteIsCarried` |
| `two_workers` | 2 workers, 1 take-over | `ChainsBounded`, `NoticesBounded`, `RecordedStaysWatched` |
| `cleanup` | 1 worker, cleanup loop, 1 crash, fairness | `CleanupHappens` |
| `delete` | 1 worker, a DELETE, DNS, 1 fault, fairness | `ClosingReleases`, `TerminationHappens` |
| `login` | 2 callbacks at a time, 2 states, 1 user, limit 2, window 2, TTL 3, 5 ticks | `RateBound`, `RetriesOnce`, `StateReuseBounded`, `OnlyFirstLoginsLost`, `LoginsWithinBudget`, `ImplementsBudget` |
| `create` | 2 POSTs of one user, 3 deployments, capacity 1, crashes, one comes back | `CapacityBounded`, `OpenBounded` |
| `cooldown_lost` | 1 POST, 1 GET of one user with three browsers | `CooldownKept` is violated |
| `stale_status` | 1 worker, a DELETE | `TerminatingStays` is violated |
| `forked_chain` | 1 worker, 1 crash | `ReadyIsStable` is violated |
| `failed_late` | 1 worker, cleanup loop, 2 faults, fairness | `CleanupEnforced` is violated |

Bounds. One worker is what `docker-compose.yml` starts; nothing in the code keeps
an operator from starting a second, and `two_workers` shows what then remains.
`MaxCrashes`, `MaxFaults` and `MaxOvertakes` bound what goes wrong, not when: one fault may
fall on any provider call and one crash on any step. A job that runs out of its two attempts
takes two faults: `one_worker` and `failed_late` have them, so the last attempt of every kind of
job is reached there. With the one fault of `delete` and the one crash of `crashes` and `cleanup`
it is not, so liveness is checked where every job still has an attempt. `Droplets` and `Records`
have as many members as workers, crashes, faults and take-overs can use up
(`DropletsSuffice`, `RecordsSuffice`), and a kind of job has as many rows as it can fill
(`RowsSuffice`): with dedupe one for every client between check and insert, and for
refreshes, for each worker the one being finished and its successor, and one per
crash and take-over. `MaxAttempts` is 2 for 8 and 12: it must be more than one for a
retry to exist, and nothing else in the code depends on its value. Jobs, retries
and refreshes are unbounded. `BatchSize` 2 gives batches in which a job is read long
after it was claimed (in `queue`, `crashes` and two of the violated runs); the others use 1 to stay small.
`one_worker`, `cleanup` and `two_workers` have no DNS (the fallback domain is always taken), the
last no API either: what becomes of records is the question of `crashes`, and with a fault of
`delete`. A deployment that is over has no step left, so the lifecycle runs turn the deadlock
check off; the queue run keeps it.

`login`: of two callbacks one can hold an old clock reading, or lose the race of the
insert, while the other fills the window; five ticks hold three windows and let
states expire between the step that stores and the one that reads them. Two states
are enough for more callbacks past the limiter than can overlap, which
`OnlyFirstLoginsLost` is about; one user is enough since no step touches two.
`create`: two POSTs at a time race for every check; three deployments are one more
than the bounds allow at once without the one that comes back; two ticks let the TTL
and both cooldowns (1) pass. `cooldown_lost` has no crashes, so that nothing but the
race of GET and POST can lose a cooldown.

Symmetry is used in the safety runs only, over workers and DELETE handlers,
deployments of `SessionCreate`, and requests, states and users of `AuthFlow`. Job rows,
droplets and records are not symmetric, for they are given out in a fixed order.

Fairness. A live worker's handler goes on (`asyncio` runs it; calls have
timeouts of 20 seconds and end in an error if need be): weak fairness of its
steps. `claim_jobs` takes due jobs in the order of `next_run_at`, so a job is not
passed over for ever by others that keep coming: strong fairness for each row
(`JobQueue`) or kind (`Lifecycle`). The worker's loop comes round to `reconcile_once`
every `RECONCILIATION_INTERVAL_SECONDS`, between batches: strong fairness of
`ReconcileRead`, on rows grown old, for a row that is never touched is old at some
pass. A successor is due `PROVIDER_REFRESH_INTERVAL_SECONDS` after the refresh before it began
(`worker.py:253`), and one that comes too early to ask the provider does not move
`provider_last_checked_at` (`digitalocean.py:82`), so at most one poll in a row is skipped:
strong fairness of `AskProvider`. The API's loop runs every `CLEANUP_INTERVAL_SECONDS`. Nothing is assumed of
requests, the expiry, faults or crashes; a crashed process is restarted by
Docker, which is why steps stay possible after a crash.

## What the runs show

The core holds: with one worker, no fault and no crash makes a deployment look
closed while its droplet runs, a droplet leak beyond those whose id no code ever
saw and one for each crash, or a deployment past its TTL stay open (in the absence of
faults and DELETEs; see below).
`ImplementsTenancy` says most of it at once, and in `crashes` stands for `OverMeansGone`,
`OverStaysOver` and `OneNotice`, which it implies: `Turn`, the one way to run again, needs a phase
that is not over, `Close` a droplet that is gone, and `Tell` a message not told before.

A DELETE is not dropped (`DeleteIsCarried`): from its commit until `terminated_at` is set there is
a handler about to enqueue for it or an active terminate job, also when the dedupe check finds
one that read the row long before. Two things may end that. The API may die between
commit and enqueue (`deployments_async.py:340-353`), and the job may run out of attempts; the
latter needs as many faults, crashes and take-overs as the job has attempts, 12 in the code. In
`crashes` there is one, so there the death of the API is the only way; in `one_worker` two faults
do it. Either may come after a refresh wrote `ready` over the `terminating` of the DELETE, and then
nothing is left that remembers it: the session runs on to its TTL. This is why
`TerminationHappens` is checked with one fault and no crash. It says that the session is closed
with nothing left behind, or its TTL comes first, and `Settled` asks for a final status, so a
deployment that a late commit of the DELETE reopened must be closed again. Without the TTL as a way
out it fails: a refresh that ends the session at the TTL and a DELETE that then reopens it leave
it to the cleanup loop, which `delete` does not have. `CleanupHappens` is checked with the loop and a
crash but without a DELETE handler, whose interleavings are too many for a fair run.

The properties speak of `Over` (closed *and* shown as terminated or expired) and
not of `closed` alone, because a DELETE or GET that read the row before the
worker closed it commits `terminating` afterwards (`deployments_async.py:336-340`)
and so reopens a closed deployment; the job it enqueues closes it again.

A second worker. Of the properties above these still hold with two live workers:
`ChainsBounded` (one chain of refreshes more for the further worker, and one for each time a
slow worker's refresh is taken over), `NoticesBounded`, `LedgerTruthful`, and
`RecordedStaysWatched`: a droplet that was recorded is counted by the ledger for as long as it
runs, also when another worker records a second one over it and whoever closes the deployment. It
says nothing of a droplet that never was recorded: one that `process_provision` drops because the
session ended meanwhile (`worker.py:159`) has no ledger row, and is only counted, by `StraysBounded`. That
bound holds too: two workers may both create a droplet before the first is recorded, so the
bound has one stray for each further worker, and one for each take-over. The latter
is easily overlooked: with two DELETEs and one take-over TLC finds two strays of two
workers that never die. One worker creates a droplet; the other takes over that provision job
with the terminate job of the first DELETE, and ends the session before the droplet is
recorded; the second DELETE, which read the row earlier, reopens it, so the provision job that
was taken over creates a droplet too; and its session is ended in turn. The
`two_workers` run has no API, so it could not tell this bound from a smaller one
and does not check it; the theorem holds for any number of workers. These fail, as
TLC shows in a few dozen steps: `OverStaysOver`, `OneNotice`, `ReadyIsStable`,
`StrayRecordsBounded`, the record's part of `ClosingReleases`, and with a DELETE or the
cleanup loop `OverMeansGone`; so two workers do not implement `Tenancy`. For a deployment that is over with a stray droplet
`reconcile_once` enqueues a cleanup pass after pass that finds the deployment closed already
(`worker.py:299`) and does nothing. The code does not claim to support two workers beyond
`SKIP LOCKED`, so these are observations and not findings.

Login: a state can be used more than once, but only by callbacks that overlap
(`StateReuseBounded`); of overlapping first logins of a user all but one may end in an
error 500 after their state and code are spent (`OnlyFirstLoginsLost`), and nothing else
loses a login that Telegram confirmed, save a process that dies. The limiter guards
the whole callback (`LoginsWithinBudget`).

Requests: the rate limiter keeps its budget whatever old clock readings get the
lock. The check before the insert in `create_session_async` makes both limits soft,
by a number the runs and proofs give: one POST at a time and nothing that comes back means at most
one open deployment per user and the capacity kept; each further POST at a time,
and each deployment that came back, may add one.

Four statements of the documentation are not what the code does:

1. `stale_status`: "Every step checks the current session status before acting."
   `process_refresh` and `process_provision` overwrite a `terminating` committed
   during their provider call. The terminate job still ends the session, so
   only the status shown is wrong (`OverStaysOver`, `TerminationHappens` hold).
2. `forked_chain`: "The real worker should be idempotent." A refresh re-run after a
   crash takes a ready session back to initializing, deploying or failed.
3. `failed_late`: "Cleanup must be enforced server-side." A deployment that becomes
   failed after its TTL is selected by neither the cleanup loop nor
   `reconcile_once`; its droplet runs until the user comes back.
4. `cooldown_lost`: the user "cannot request another session until the cooldown expires"
   (`README.md:67`). `get_cooldown_until_async` deletes the row it found over by its key;
   a POST that renewed it in between loses its cooldown.

## Proofs

`JobQueue_proofs` proves for any rows, workers, clients and bounds:

- `QueueTypeCorrect`: the types.
- `QueueInvariant`: the inductive invariant `QueueInv`. `Exclusive` alone is not
  inductive: that a claimable running job has no holder needs that holders' rows say
  `running`, and only holds until a slow worker is overtaken. `AttemptsBounded` needs
  that a queued job has an attempt left (`reschedule_or_fail_job` compares before it
  requeues) and that a running job without a holder has a crash, and one with two
  a take-over, to show for it.
- `ExclusiveHolds` and `AttemptsBoundedHolds` follow.
- `QueueImplementsPool`: the refinement. Its invariant is small (`PoolInv`: batches are finite
  and what is held or runs was claimed), the work is in counting `Pairs` and `OnDuty` before and
  after each way to change the table.

The argument splits `QueueNext` into six ways to change the table (`CommonStep`), and has
one lemma for each, which shows that the touched row is good again. The only assumption
is `QueueAssumption`. TLC checked `QueueInv` and `PoolInv` on the instance of the `queue` run
before the proof.

`Lifecycle_proofs` proves the type invariant of `Lifecycle`, that each of its steps is a
step of the queue or leaves the queue alone, and with the step lemmas above that
`Exclusive` and `AttemptsBounded` also hold of the whole system.

`Settlement_proofs` proves `LedgerTruthful` and `RecordedStaysWatched` for any number of workers, and with the
assumption `OneWorker` (what `docker-compose.yml` starts) `OverMeansGone`, `ClosingReleases`,
`OverStaysOver`, `StrayRecordsBounded` and that strays are no more than crashes, for any number of API handlers,
crashes, faults and droplets. Why the strengthenings are needed: between the provider's
answer and the commit that closes the row the facts live in the worker's step, so the
invariants say for every step of a destroy what is already gone (`UntrackSafe`, `SettleInv`).
That droplets and records never come back under an old id (`GoneStays`) carries these
facts over the steps of the API. With a second worker they are false, as a handler may
create or publish beside them. The bounds on strays need `StrayInv`: what a provider gave is
in the worker's hands until its next transaction writes it to the row (`HoldsSafe`), so only a
crash in between loses it, one thing per crash (`Few`). `RecordedStaysWatched` follows from `LedgerInv`:
a row of the ledger is struck by a worker whose copy of the row names a droplet that is gone, never
by one that looks at another droplet. A worker that dies or raises between `Record` and `Track`
leaves a droplet without ledger entry until the job is run again, which the property excepts.

`Users_proofs` proves `NoticesBounded` for any number of workers, from `NoticeInv`: nothing is
sent while a flag is unset, and messages sent and workers on their way to send one are
together no more than the workers. With `OneWorker` it gives `OneNotice`.

The same module proves `ReadyUntilCrash` with `OneWorker`, in `ReadyStaysUntilCrash`: until a process
dies or a handler raises (after that it is false, as `forked_chain` shows). That nobody writes over `ready`
is a matter of which jobs there are, which is why the invariant, `StableInv`, speaks of all of them
until the expiry or a DELETE: at most one provision or refresh job goes on (`OneOnwards`), except
between the insert of its successor and its own end; each step of a handler knows which statuses
the row can have (`StatusAt`); a pass of the reconciliation still enqueues only what fits the row
it read (`PlanFits`), because it runs between batches and no job can change the row meanwhile; and
no job to end the deployment is there unless it ended. So when the session becomes ready the job
at work is the last one. `ReadyIsStable`, which
`one_worker` checks, is the case of a system without crashes.

It also proves `DeleteIsCarried`, for any number of workers. `CarryInv` says that a worker is past
the destroy of a terminate job only when the deployment is closed, and `terminated_at` is never
taken back, so `mark_job_done` ends a terminate job of a closed deployment only. The other end
is a failed job, and that takes counting (`TriesPaid`): attempts of a job, and workers about to
reschedule or fail it (`Retriers`), are at most one more than the faults, crashes and
take-overs so far, and not even that while the job waits for its next claim. A retrier was
counted by the fault or the error that made it one; a claim of a waiting job takes the attempt
that was left, and of a running one it is a take-over or follows a crash. So a worker
that fails a job at `MaxAttempts` has as many of them to show for it. The two together are
`CarrySafe`, which TLC checked on the instances of `one_worker`, `crashes` and `two_workers` before
the proof.

With `OneWorker` the module proves that `Lifecycle` implements `Tenancy`, for any number of API
handlers, crashes and faults, batches of any size. The refinement rests on most of what comes
before: `SettleInv` and `GoneStays` for `Close`, the strays of one worker for `Die`, `OneNotice` for
`Tell`. What they do not say is when a status may be written and a message sent, and that is
`TenantInv`: a launched row has a droplet, also the row or the answer from which a handler is
about to write; who is about to say `ready` or `ended` does so of a row that is still, or
by a DELETE not yet, what he says. With it each step of a handler or of the API is shown to be a
step of `Tenancy`, one lemma for each handler.

`Bounds_proofs` has two theorems for any number of workers, both by counting. The number of refresh
jobs is not inductive, and neither is any bound on rows, for a refresh that is being run may
still have a successor. What is counted is chances: jobs of a kind that wait, and each one
in the hands of a worker (`Waiting`, `Holdings`, together `Chances`). They grow with an insert
and with a take-over, and no other way; that is shown of the queue, for any kind. For
`ChainsBounded`, an insert of a refresh is paid for by the refresh it succeeds, which the
worker then only finishes (`Finishing`), or by an empty check, of which each worker can hold one
(`Enqueuers`); a crash that loses the mark of a successor is paid for by `crashes` (`ChainInv`).

For `StraysBounded` a chance to provision is one to make a droplet (`DropletInv`). As long as
the row has none, strays and chances not used up are at most the crashes and take-overs and
one more, while the first provision job goes on (`OneProvision`). When that is over without a
droplet the session has ended; `reconcile_once` enqueues a provision only for a row that still
waits (`EarlyInv`), so any that comes later was decided by another worker on what it read
before, and these workers, each with one to come, are counted too (`Expecting`,
`LateProvisions`).
Who holds a droplet he has not recorded (`Makers`) read a row without one (`MakeSafe`). When
the row gets its droplet the workers left are those with an old copy of it, one fewer
than there are; from then on only their number can go down.

`RateLimiter_proofs` proves `RateBound`, `RetriesOnce` and that the limiter implements
`WindowBudget`, from `LimiterInv`: a window lasts `Window`, did not start in the future, and
the requests let through before it fit the budgets of the windows before it. The
first conjunct, that no clock reading is ahead of the clock, is what makes an old
reading harmless: it can only find the window not yet lapsed.

`AuthFlow_proofs` shows first that each step of the login is a step of the limiter or leaves
it alone, so that `RateBound` and the refinement of `WindowBudget` hold inside the flow. The
other three each need to know more about callbacks between two of their steps.
`StateReuseBounded`: whoever may still get the verifier read the row before it went, and
callbacks that did and those that got it are together no more than the requests.
`OnlyFirstLoginsLost`: logins lost and callbacks about to insert the same user are together
no more than the requests, less the one that succeeded. `LoginsWithinBudget`: sessions and
callbacks past the limiter are together no more than `total`, which `RateBound` bounds. They
hold for any numbers of requests, states and users, any limit, window and TTL.

`SessionCreate_proofs` proves `CapacityBounded`, which is inductive with the types, and
`OpenBounded`, which is not. `OpenInv` says why it holds: apart from at most `reopens`
of them, each live deployment has a POST slot of its user to itself, one that
does not create and, if it holds a found deployment, holds one that started no earlier;
so it cannot create before its own is past its TTL. The owner is quantified
existentially, and each step's lemma gives the new witness.

TLC checked each of these invariants on the instance of the run before its proof. The
assumptions are those named in the modules on the constants (that workers are finitely
many is one), that there is a worker where a bound subtracts one, and `OneWorker` where it is named
above.

Only model-checked: liveness (`EveryJobEnds`, `CleanupHappens`, `TerminationHappens`), which is
beyond the prover. Every safety property that a passing run checks is also a theorem.

## Not modelled

- The TinyDB backend, the "lightweight local fallback" of `README.md:71`. It rewrites its
  JSON file from a copy read before, in threads without a lock, so any two calls
  that overlap may undo each other. Without overlap it does what the PostgreSQL
  backend does.
- The mock provider has no external state; audit rows and events are read by
  nobody; readiness, health and metrics only read.
- What strings and numbers look like (host labels, cloud-init, environment checks,
  progress, the backoff's seconds): pure functions of one argument or two that unit
  tests reach, on which none of the protocols above depends.
- Delivery of messages by Telegram, HTTP, payloads, the frontend.

## Plan

Done: `JobQueue`, `Lifecycle`, `SessionCreate`, `RateLimiter`, `AuthFlow` with their runs and proofs; the
refinements of `WindowBudget`, `WorkPool` and `Tenancy`; two workers and slow workers; the bounds on
strays, notices and chains, for any number of workers; `RecordedStaysWatched`, `ReadyIsStable` and
`ReadyUntilCrash` as theorems; `DeleteIsCarried`; handlers that raise without a provider call.

What would come next is a second deployment in `Lifecycle`: its actors meet only in the queue, which
is proved for any number of jobs, and in the capacity, which `SessionCreate` has.
