# M-Ranked: specifications, model checking and proofs

M-Ranked collects publications and their statistics from four platforms
(Telegram, VK, MAX, Rutube), stores them in PostgreSQL and serves ratings and
anomaly findings.  It runs on one server (profile A) or on two (profile B:
Server 1 collects and seals raw data, Server 2 receives it and serves the
product).  This directory holds TLA+ models of the parts of it that are
concurrent, persistent and hard to test, the TLC runs that check them, and
theorems checked by TLAPS.

## 1. Inventory

| Component | State it keeps | Operations | Interacts with |
|---|---|---|---|
| Transfer producer (`collector_target/transfer.py` 789-983, `transfer_sender.py`, `repository.py` 1065-1087) | `transfer_outbox` rows: state, cursor, backoff, attempt window, ACK | seal (in the persist transaction), `deliver_pending`, `purge_acknowledged`, `observe` | the consumer over HTTPS with mTLS; the collector's persist transaction |
| Transfer consumer (`transfer.py` 590-786, `transfer_ingest/`) | `transfer_inbox` receipts, `transfer_inbox_rollup`, the ingest tables | `receive`, `apply`, `release_payloads`, `prune_transfer_inbox` | answers the producer; writes what every reader reads |
| Publication availability (`repository.py` 1435-1463, 1572-1672, 2093-2408, `tracking.py`) | `publication.deleted_at`, `publication_availability_state` | drop stale discoveries, upsert, presence probe, deletion probe | applied twice: on the producer as a cycle ends, on the consumer as its batch arrives |
| Phase arbiter, scheduler, main loop (`phase.py`, `scheduler.py`, `__main__.py`) | phase rows of `operational_checkpoint`, advisory locks, `collection_run` | plan, request, look, lock, re-check, claim, run, finish, release | one process per platform, sharing the host's collect slots |
| Cycle of a platform (`coordinator.py`, `__main__.py` 287-337) | tasks of the event loop, threads of its pool | start, collect, persist, cancel, finish, fail | begins once the arbiter has granted a slot; writes through the persist guard |
| Persist guard (`phase.py` 841-937) | one advisory lock per host, one connection and one mutex per process | enter, leave | wraps every persist when several collect slots exist |
| Repository persistence (`repository.py`) | `collection_run`, `collection_account_result`, snapshots, evidence, heartbeats | one transaction per account batch, rows of runs and accounts | sealed and transferred by the above |
| Anomaly worker, nightly job, backfill (`anomaly_analysis/v2`, `norms_job.py`, `backfill.py`) | `post_anomaly_state`, `anomaly_norm_version`, the norms loaded | seed, load norms, recheck, claim, analyse, postpone, freeze | reads what the transfer writes; the panel's policy |
| API and its response cache (`api/cache.py`, `api/cached.py`) | entries, locks and a revision in Redis; tokens and tasks of each process | serve, refresh in the background, rebuild, publish a revision, mark stale | several API processes, one Redis, PostgreSQL |
| Working set, retention, catalog synchronisation | months and catalog versions | delete acknowledged months; push and apply catalog | outbox ACKs decide what may be deleted |
| Telegram bot, operations, storage hub, frontend, platform adapters | their own | I/O, rendering, administration | clients of the above |

`PROJECT.json` lists every component with its status, and every hazard at the
line where it bites.

What is hard here is not any single statement.  Collectors, senders, handlers,
workers and API processes share nothing but PostgreSQL rows, advisory locks and
Redis keys, and each operation is several autocommit statements or several
awaits.  A pass reads rows without locking them and updates them later; a request
can time out after it was applied; a receipt can be pruned while a request for it
is being served; a cycle can be resumed by another version of the collector; a
thread writes on after the cycle that started it was cancelled; a lock in Redis
expires under the task that holds it.

What makes each component correct:

* **transfer** - nothing acknowledged is lost, nothing is applied twice under
  one receipt, an ACK is final, the watermark never goes back, a healthy batch
  gets through behind a failing one;
* **availability** - rows always satisfy their CHECK constraints, knowledge
  never goes back in time, a deletion rests on enough unbroken lookups, both
  repositories agree in the end where their windows let them;
* **arbitration** - an interrupted run is resumed before a new slot, an ended
  one is never repeated, turns are taken in due order, no collector starves;
* **cycles** - writes do not overlap, the guard is always given back, a run
  counted as a success has every batch it was to bring, a closed run stays as it
  is, everything comes to rest although providers hang;
* **analysis** - only accepted norms are used, a new version reaches every post
  in time, a worker that was away does not repeat itself, every post is analysed
  for a last time, and not too early;
* **response cache** - the parts of one screen come from one snapshot, a lock is
  never leaked and never taken from another process, nothing comes back that was
  dropped, whoever asks is answered.

## 2. Modules

| Module | What it is |
|---|---|
| `TransferPromise` | what the transfer promises of one batch: absent, owed, landed, confirmed, and no way back |
| `Transfer` | outbox, senders, network, handlers, inbox, pruning, an upgrade of the consumer; implements `TransferPromise` |
| `Availability` | one publication in two repositories fed by the same batches |
| `Phase` | the arbitration of collection cycles on one host |
| `Cycle` | what happens inside the cycles, and the persist guard |
| `RunLedger` | what a collector owes its runs: opened one at a time, each later than all that ended, and an ended one stays; implemented by `Phase` and by `Cycle` |
| `SlotPool` | the collect slots as a counting semaphore; implemented by `Phase` and by `Cycle` |
| `Analysis` | the schedule of the anomaly analysis and its norms |
| `ResponseCache` | the cache of API responses that processes share in Redis |
| `MCTransfer`, `MCAvailability`, `MCPhase`, `MCCycle`, `MCAnalysis`, `MCResponseCache` | instances for TLC (symmetry, intervals, offsets, functions of model values) |
| `Transfer_proofs`, `Availability_proofs`, `Phase_proofs`, `Cycle_proofs`, `Analysis_proofs`, `ResponseCache_proofs` | theorems and their proofs |

Definitions whose comment says "Mutant of X" are the plausible bugs that
show each property can fail; they are not part of any specification.

### Transfer

One action is one SQL transaction, or one network event.

| Code | Model |
|---|---|
| `_seal_transfer` inside `persist_account_batch` | `SealInsert`, then `SealCommit` or `SealAbort`: the identity sequence moves at the insert, so cursors become visible out of order and with gaps |
| `deliver_pending` | `Select` (no lock taken), then per row `Attempt` or `SkipRow`, then `Acknowledge` or `Fail`, at last `PassDone`; `SenderCrash` at any point |
| backoff with full jitter | `Fail` leaves the row due at once or not; `BackoffElapses` |
| sliding window of attempts | `window`, `Counted`, `WindowExpires` |
| `purge_acknowledged` | `PurgeAcknowledged(V)`, for any set of acknowledged rows past the horizon |
| `receive` | `Receive`: insert or find the receipt; a foreign schema is quarantined without a payload and answered at once |
| `apply` | `ApplyRead` (outside the applying transaction), `ApplyCommit` (the row is locked and its state read again), `ApplyFail` |
| `_release_payloads` | `ReleasePayloads`, `PruneReceipts` |
| restart of Server 2; a release that reads the next schema | `ConsumerRestart`, `ConsumerUpgrade` |

Reading notes.

* A batch is a model value.  `batch_id` is a digest of the content, so two
  batches with one identity are one batch.
* `Foreign` batches are sealed with a schema version the consumer lacks until
  `ConsumerUpgrade`, which may happen at any time, once; `Poison` batches make the
  persist path raise on every attempt.
* HTTP 413, 400 and 403, a refused connection, and a handler that dies before
  its first commit all leave nothing on the consumer: they are one
  `LoseRequest`.
* A request whose sender has given up is still served; nobody gets its answer
  (`HangUp`).  A sender never has more than one request awaiting an answer.
* A `void` row is a rolled-back insert.  The collector does not seal the same
  batch again: its next cycle observes anew.
* Several senders are real in both profiles.  With one server
  `persist_account_batch` itself calls `deliver_pending(limit=1)` in the thread
  of each persisted batch (`repository.py` 888-890).
* The branch of `apply` that quarantines an undecodable payload is not reached:
  a payload is stored only after it was decoded by the same code.
* Heartbeats and gauges of `observe()` change no row that is modelled; only the
  applied watermark is (`AppliedWatermark`).

### Availability

`Absorb` is what one batch does to one repository: `Upsert` and then
`PresenceProbe` for a sighting, `DeletionProbe` for a lookup.  `Persist` applies
it on the producer and seals the batch; `Deliver` applies it on the receiver, in
any order, and `Repeat` once more, when its receipt was pruned.  `Transfer` shows
that both happen: oldest first when nothing fails, any order once something
does.  What holds only of an orderly delivery is stated over two history
variables: `oldestFirst` (this repository applied its batches oldest first) and
`inStep` (the receiver was handed each once, in cursor order).

Before anything else `persist_account_batch_in_transaction` drops the sighting of a
publication that the repository does not have and that is older than its track
window: `StaleDiscovery`.  The producer then seals nothing of it; the receiver
applies, and acknowledges, the batch without it, so `taken` (what a repository took)
is less than `applied` (what it was handed).

* The window is the repository's own.  `refresh_runtime` gives the producer's the
  value of the panel at any time (`SetWindow`); the receiver has that of its
  environment.  A restart of the receiver with another environment is not modelled.
* The publication came out at instant 0, so a batch's instant is its age.

* Presence is derived from observed publications: no adapter emits an explicit
  "present" probe and none sets `synthetic`.  `plan_refresh` looks up only
  tracked publications the feed did not show.
* An exact repetition is a duplicate for snapshots only; the upsert and the
  probes still run.
* `Overlap > 1` is real: persisting runs in a thread, and a thread is not
  cancelled with its cycle (`Cycle` shows it), so the next cycle of the account
  may be persisting at the same time.

### Phase

One process per platform follows the loop of `__main__._run`.

| Code | Model |
|---|---|
| `resumable_scheduled_at`, `last_completed_scheduled_at`, `due_slot` | `Plan` |
| `PostgresPhaseArbiter.request` | `Announce` |
| `try_acquire`, statement by statement | `Look`, `Lock`, `Recheck`, `Claim` |
| `start_run`, `finish_run`, the error path of `run` | `Begin`, `EndRun`, `FailRun` |
| `_PostgresPhaseLease.finish`, `release` | `FinishPhase`, `Release` |
| time, stop and restart, lost connection, errors | `Tick`, `Start`, `Crash`, `LoseSession`, `GiveUp`, `HeldUp` |
| a heartbeat older than the cutoff | `GoStale` |

* A lock belongs to a database session: it is freed when the process dies or
  its session is lost, and the process may notice only later.
* A waiting process renews its request every 2 s and a request counts as stale
  after 120 s (`collector_runtime/config.py` 112-113), so the request of a
  process that is waiting does not age.  It ages when the process is away
  (`GoStale`) or held up between attempts (`HeldUp`, which costs a fault).
* The statements that try slot after slot are one action.  This is exact with
  one collect slot; with two, a slot freed in between would only spare a retry.
* "Partial" runs are failed ones here: both are terminal to the planner.
* The disk gate's refusal after the claim, a failing `start_run` and a statement
  that fails twice all release what is held and drop the plan: `GiveUp`.
* Not modelled: the legacy and shadow modes and the platform lease.  What
  happens inside a cycle is `Cycle`.

### Cycle

One event loop per platform, its tasks, and the threads that write.  `Cycle` and
`Phase` are two views of one loop: `Phase` says who gets a slot when, `Cycle` has
slots as a counting semaphore and says what goes on inside.  They meet in two
abstract specifications that both are proved to implement: `SlotPool` says that
the semaphore of `Cycle` is what the advisory locks of `Phase` amount to, and
`RunLedger` says the same of the runs that both open and close.

| Code | Model |
|---|---|
| `resumable_scheduled_at`, `start_run`, `enabled_accounts` | `Start(p, r, S)`: the run left open or the next one; the accounts offered may differ when a run is resumed |
| `collect_account`: semaphore, `begin_account` | `Begin` |
| `adapter.collect`, `normalize`, quarantine | `Collected`, `CollectFails` |
| `to_thread(persist)` | `Enter` (mutex of the guard), `Acquire` or `Refused` (`pg_advisory_lock`), `Commit` or `Rollback`, `Leave` (unlock) |
| the task after its thread, its two error handlers | `Saved`, `RecordFailure` |
| deadline, lost slot, grace of a stop | `Cancel` |
| `gather`, `finish_run`, `fail_run` | `Gathered`, `Fatal`, `Finish`, `Fail` |
| lost sessions and crashes | `SlotLost`, `GuardLost`, `Crash` |

* Cancelling a task does not cancel its thread: a thread has the number of its
  cycle, and writes to the run that cycle worked for, whatever has become of it.
  Only a task that still waits learns how its thread ended (`Ends`).  A thread
  that the pool had not started yet never starts.
* The guard exists only with more than one slot (`Guarded`,
  `__main__.py` 521-527).  Its connection may be lost while a thread waits or
  writes: the lock is then free, the unlock raises although the batch is
  committed, and the account is recorded as failed.
* Every statement that records something may fail: recording a failure, finishing
  a run (before or after its commit), failing it.  What is then left open is
  resumed.
* What a batch holds is left out, and so are the platform lease and skipped runs
  (one process per platform here).  A crash releases advisory locks at once.

### Analysis

One worker, a nightly job, an operator's backfill, and measurements that arrive
when the transfer delivers them.  One action is one transaction that writes,
with the reads before it that nothing can come between.

| Code | Model |
|---|---|
| `run_once`: policy, `seed_new` | `Start(heard)`; a read of the policy that fails answers like an empty policy (`PassWindow`) |
| `_refresh_norms`, `schedule_norm_recheck` | `LoadNorm`, `Recheck` |
| `queue_state`, `claim_due`, `_postpone_waiting` | `Claim` |
| `_analyze`: `plan`, `write_states`, `postpone` | `Write`, then `Postpone` for those that may wait after all |
| `plan`, `interval`, `retry_after` | `Analyze`, `Final`, `WaitUntil`, `NextDue`, `Retry` |
| database lost; stop, crash, start | `Trouble`, `Down`, `Up` |
| `backfill.py` | `StartBackfill`, `BackfillPost`, `StopBackfill` |
| `norms_job.py`, review by hand | `WriteNormVersion`, `AcceptReviewed` |
| panel, transfer, clock | `SetPolicy`, `Arrive`, `Tick` |

* An instant is longer than the minute for which the worker keeps to a policy
  without asking again, so every pass reads it.
* Four age bands are two: only the oldest may be stretched.  Attempts are counted
  up to the longest delay, beyond which the count makes no difference.
* Verdicts, their journal, the late-response ledger and the reference checkpoint
  (two more reasons to analyse), account caches and deleted posts are left out.
* A frozen row stays out of the worker's reach; only a backfill touches it.  The
  re-analysis of the archive that ADR-016 mentions is not in the source.

### ResponseCache

The cache of profile B.  A task is one request and, once its stale answer is out,
the background refresh it leaves behind; a step is what happens between two
awaits.  Lifetimes are kept as the time left of them, so no clock bounds a
behaviour.

| Code | Model |
|---|---|
| `serve`, `_schedule_refresh` | `Ask`, `Offer` |
| `_resolve_revision`, `published_revision`, `set_revision` | `Pinned`, `Revision`, `ReadHead`, `ReadFails`, `Adopt`, `Reread` |
| `_build_or_wait`, `_rebuild`, `end_refresh` | `Begin`, `Wait`, `Rebuild`, `EndRefresh` |
| `InvalidationListener`: `invalidate`, reconnection | `ReadToMark`, `Mark`, `Clear` |
| Redis: expiry, eviction, restart (nothing on disk), `volatile-lru` | `TimePasses`, `Evict`, `RedisRestart`, `DropKey` |
| processes, data set | `Crash`, `NewRevision` |

* A call of Redis that fails may have been carried out (`Trouble`).
* A fresh hit changes nothing and is not shown.  The revision a task builds from
  is forgotten when it begins: what an answer says is left out.
* The production values mark nothing as stale (`MinAge` 60 is not below `FreshFor`
  60); the instance takes 0 so that marking happens, in the processes `Markers`.
* Left out: the cache of profile A (one process, no await), aliases, the capacity
  (an entry may be evicted at any time), tags, the warmup's client, the outbox's
  writer, ETags and compression.

## 3. What the runs check

Safety runs stop where the system rightly stops (everything delivered, every
observation of the bound made, the clock at its bound); there `CHECK_DEADLOCK` is
`FALSE`.  The cache never stops, and its runs check for deadlock.

| Run | Instance | Shows |
|---|---|---|
| `race` | 1 foreign batch and an upgrade, 2 senders, 2 handlers, 2 attempts, 2 prunings; 123,000 states | `DeliveryInv` (the types and what every stop of an exchange entitles its holder to), `EffectsAccounted` (every committed application has exactly one receipt, live or rolled up), `AttemptBudget` (with concurrent senders), `AckedStaysAcked` |
| `live` | an applicable and a poison batch, 1 sender, 1 handler, fair; 102,000 states | `NeverLost`, `WatermarkMonotone`, `ImplementsPromise`, `EventuallyAcknowledged` |
| `availability` | 5 observations, 2 overlapping cycles, windows of 2 and 5 on either side, any order, repetitions; 576,000 states | `ConstraintsHold`, `ConfirmedByLookups`, `LatestWins` in any order; `StreakUnbroken`, `DeletedAgrees`, `Converged` where the order was kept |
| `phase_fair` | 2 platforms, 1 slot, 2 faults, fair; 122,000 states | `ImplementsLedger`, `ImplementsPool`, `MarksAdvance`, `NoQueueJumping`, `CaughtUp` |
| `cycle` | 2 platforms, 2 slots, 2 cycles of one and 1 of the other, 2 troubles, fair; 625,000 states | `WritesApart`, `GuardReturned`, `HonestSuccess`, `ClosedRuns`, `ImplementsLedger`, `AllEnds` |
| `analysis` | 2 posts of which the newer always fails, 2 windows, 1 version, 1 interruption, fair; 1,284,000 states | `NormsSound`, `RecheckInTime`, `CatchesUpOnce`, `FrozenInTime`, `EventuallyFinal` |
| `cache` | 2 processes, 1 key, 2 tasks, 2 revisions, 1 trouble, fair; 665,000 states | `NoLeak`, `OneSnapshot`, `LockOwned`, `OnlyRebuildsAdd`, `Answered` |
| `upgrade`, `avail_resurrect`, `phase_rollback`, `cache_limit`, `cycle_overlap` | as small as the behaviour allows | the findings of section 4 |

Symmetry (of senders and of handlers) is used by `race` only.

Some properties that the theorems state belong to no run: `OneOpenRun` and
`EndedForGood` of `Phase` follow from `ImplementsLedger`, `CompletedTrue` stands
behind `MarksAdvance`, and `StateAdvances`, `SightingsReconcile`, `NextAccepted`
(`Availability`) and `UsesPool` (`Cycle`) may be added to the configuration of
their instance as they stand.

**Why the bounds are enough.**

* *Transfer.*  One batch with two senders and two handlers gives every
  interleaving of one delivery with itself; two prunings let a receipt be pruned,
  recreated and pruned again.  `live` needs a second batch, which fails for ever
  and stands first.  `MaxPruned` is the only thing that keeps re-receipts finite;
  prunings of several receipts in any order are covered by the proof of
  `WatermarkMonotone`.
* *Availability.*  Five observations allow a sighting, a confirmed deletion
  (threshold 2), a revival and one more lookup.  With windows of 2 and 5 either side
  may be the one that takes a discovery the other would drop, and the producer's
  may change in between.
* *Phase.*  With intervals of two ticks, staggered offsets and three ticks, each
  platform passes at least one slot boundary, and two faults allow a crash in a
  cycle followed by a second failure while resuming.  `Epoch` is at least one
  interval and offset, so that no slot is 0, which stands for NULL.
* *Cycle.*  A thread that outlives its cycle can meet the next cycle of its own
  platform, in the same run or the next, and the cycle of the other platform; two
  troubles allow a failure and a failure while it is being recorded.  Two accounts
  of one platform, the semaphore and partial runs are covered by the proofs.
* *Analysis.*  The panel's window is 3 or 1, the environment's 1: a pass that works
  with the environment's instead of the panel's freezes too early.  One claim at a
  time, of which the failing post is always the first;
  the clock is long enough for retries, a recheck and the last analysis.  Safety is
  proved for any number of posts, versions and interruptions.
* *ResponseCache.*  With locks, waits and holds of one unit and entries of two,
  each lifetime can end before, at or after each step of the other process.
  `cache_limit` needs two keys in one process and no trouble at all.

### Fairness

*Transfer.*  `Scheduling` is weak fairness of each sender's steps, of serving
requests, of each handler's steps and of timers: these are loops of long-running
services, HTTP servers and clocks.  `AtLastStable` says that from some time on no
exchange the consumer could complete is cut and no pass is interrupted.  Without
it no delivery protocol delivers.  It does not say that requests succeed: a
poison batch goes on failing on every attempt, and `EventuallyAcknowledged` says
that the batches around it get through all the same.

*Phase.*  Weak fairness of the steps of each process that is up (a cycle has a
deadline, so it ends), of time and of ageing.  There is none for `Start`: nothing
has to be restarted.  Faults are bounded by `MaxFaults`, so `CaughtUp` says that
collectors recover from any finite number of them.  Time ends at `Horizon`;
`CaughtUp` therefore says that a collector that is up has, at last, ended the run
of the then current slot.

*Cycle.*  One weak fairness, of `GoesOn`: some task, thread, deadline or end of a
cycle makes a step as long as one can.  Providers are not in it: they may never
answer, and `AllEnds` rests on the deadline.  Waits for locks and statements have
timeouts.  Cycles are bounded by `MaxCycles`, so that a platform is not simply
given one cycle after another.

*Analysis.*  The clock, the start of a stopped worker (systemd restarts it), the
next step of a pass, and a backfill under way.  Interruptions are bounded;
measurements, the nightly job and the panel owe nothing.

*ResponseCache.*  The steps of each task, since every call of Redis and PostgreSQL
returns within its timeout, and time.

## 4. Findings

Five runs show the code doing something else than its own documentation says.

1. **`upgrade`** - `docs/architecture/raw-data-transfer.md:112` says that a batch
   sent again after a lost ACK gets the same receipt, and `HEALTH.md` 118-119 that a
   quarantined batch can be replayed once a compatible consumer is deployed.
   `receive()` stores a batch of an unknown schema without its payload; when it is
   sent again to the upgraded consumer, `apply()` decodes NULL and answers with an
   error on every retry.
2. **`avail_resurrect`** - a comment (`repository.py` 2276-2277) says that an
   older observation must never regress availability.  The upsert clears
   `deleted_at` whatever the observation's age; the probe after it ignores the
   stale observation, and the publication is shown as live while its state stays
   `confirmed_deleted`.
3. **`phase_rollback`** - `HEALTH.md` 45-46 and ADR-009 say an interrupted run is
   resumed before a new slot.  If another version of the collector has meanwhile
   completed that slot or a later one, `request()` refuses the resumed slot as
   superseded, the loop plans it again, and the collector never gets any further.
4. **`cache_limit`** - the docstring at `api/cached.py` 192-193 promises a limit
   on simultaneous refreshes.  The room is checked before `begin_refresh` is
   awaited and the task is counted after it: a burst of requests for stale entries
   of different keys passes the limit together.
5. **`cycle_overlap`** - ADR-012 (lines 59-60) calls one writer at a time the
   invariant of the split, at any ceiling.  With one slot there is no guard
   (`phase.py:842`), and the thread of a cancelled cycle still writes after the
   slot has gone to the next platform.

Other disagreements met while modelling, with no run of their own:

* `docs/architecture/raw-data-transfer.md:92` promises at most 20 attempts per hour
  and batch: each concurrent pass that selected the row before the first `UPDATE`
  adds one.  `AttemptBudget` states the bound that holds: with `n` senders a batch
  is attempted at most `n - 1` times more, and with one sender never.  Line 72 guarantees
  ordering per partition: after a failure the pass goes on with newer rows.
* With more than one collect slot `_is_selected` compares the rank of a request
  with all slots, not the free ones, against the docstring at `phase.py` 620-622.
* The docstring of `PostgresPersistGuard` says the wait is bounded; the wait for
  the mutex of the process (`phase.py:893`) is not.  The probe of the slot
  (`__main__.py:304`) needs a thread of the same pool as the threads that wait.
* A batch whose unlock raises, or whose task was cancelled, is committed and
  recorded as failed (`coordinator.py` 228-252).
* A comment (`anomaly_analysis/v2/worker.py` 130-131), and ADR-016 (line 57), say
  that the panel sets the window of the last analysis.  A backfill freezes by the
  environment's (`backfill.py:79`), and so does, with a policy set, a worker that
  could not read it (`store.py` 559-560); what they freeze too early stays frozen.
  `FrozenInTime` admits these two and nothing else: whenever the worker has read the
  policy, it freezes by a window the panel had since the pass began.
* `_without_stale_discoveries` goes by a window of each side.  If the receiver's is
  shorter than the age at which the producer discovered a publication, the receiver
  drops the discovery and refuses the next batch that looks the publication up, on
  every retry; `raw-data-transfer.md:109` calls normal delivery automatic.  Hence the
  conditions of `Converged` and `NextAccepted`.
* Its docstring (`repository.py` 1438-1443) says that the rule is about the first
  discovery only.  With equal windows a later sighting, past the window, that
  overtakes the discovery meets a receiver without the publication: it is dropped,
  and acknowledged, although the producer keeps it.  `LatestWins` therefore speaks
  of the batches a repository took.
* The docstring of `clear()` (`api/cache.py` 464-469) and ADR-011 (lines 60-62) say
  that a process that has reconnected reads PostgreSQL and refreshes the shared hint.
  It reads it, but `SET NX` (`cache.py:502`) leaves a hint that is held as it is, and
  the process adopts that, even if older than what it read, until the hold ends.  The
  docstring of `set_revision` (489) wants the first to decide, and `OneSnapshot`
  states that.
* In one process `end_refresh` of a task that outlived its lock releases the lock
  of the next task (`cache.py:533`); a waiter that gives up builds from a
  revision it looked up earlier (`cached.py:186`); marking stale may overwrite an
  entry newer than the one it read (`cache.py` 440-455).

## 5. What is proved

The proofs hold for every value of the constants that satisfies the module's
assumption (`TransferAssumption`, `AvailabilityAssumption`, `PhaseAssumption`,
`CycleAssumption`, `AnalysisAssumption`, `CacheAssumption`): any number of batches,
senders, handlers, platforms, accounts, versions, slots, posts, keys, tasks and
faults.

| Theorem | Statement |
|---|---|
| `TypeCorrect` (Transfer, Analysis, ResponseCache), `AvailabilityTypeCorrect`, `PhaseTypeCorrect`, `CycleTypeCorrect` | `Spec => []TypeOK` |
| `ExchangesKeepTheirWord` | `Spec => []DeliveryInv` |
| `NothingLost`, `EveryEffectHasItsReceipt` | `Spec => []NeverLost`, `Spec => []EffectsAccounted` |
| `AcknowledgedForGood`, `WatermarkNeverBack` | `Spec => AckedStaysAcked`, `Spec => WatermarkMonotone` |
| `AttemptsAreBounded` | `Spec => []AttemptBudget`, for any number of senders |
| `Implementation` | `Spec => ImplementsPromise` |
| `ConstraintsAlwaysHold`, `DeletionsRestOnLookups` | `ConstraintsHold`, `ConfirmedByLookups`, in any order of delivery |
| `StatesOnlyAdvance`, `NewestHasLastWord` | `StateAdvances`, `LatestWins`, in any order of delivery |
| `NewestSightingReconciles`, `NextIsAccepted` | `SightingsReconcile`, `NextAccepted`, in any order of delivery |
| `StreaksStayUnbroken`, `DeletionShown`, `ReceiverConverges` | `StreakUnbroken`, `DeletedAgrees`, `Converged`, where the order was kept |
| `OneRunAtATime`, `EndedRunsStay`, `MarksAreTrue`, `MarksOnlyAdvance` | `OneOpenRun`, `EndedForGood`, `CompletedTrue`, `MarksAdvance` |
| `RunsAreALedger` (Phase, Cycle) | `Spec => ImplementsLedger` |
| `SlotsAreAPool` (Phase), `CyclesShareSlots` (Cycle) | `Spec => ImplementsPool`, `Spec => UsesPool` |
| `FirstInLine` | `Spec => NoQueueJumping`, where there is one slot |
| `WritersStayApart`, `GuardIsReturned` | `WritesApart`, `GuardReturned` |
| `SuccessIsHonest`, `ClosedRunsStay` | `HonestSuccess`, `ClosedRuns` |
| `NormsAreAccepted`, `RecheckIsInTime` | `NormsSound`, `RecheckInTime` |
| `AnalysesAreApart`, `FrozenOnlyInTime` | `CatchesUpOnce`, `FrozenInTime` |
| `LocksAreGivenBack`, `OthersLocksStay`, `SameSnapshot`, `MarkingAddsNothing` | `NoLeak`, `LockOwned`, `OneSnapshot`, `OnlyRebuildsAdd` |

**Transfer.**  `NeverLost` speaks of rows and committed content, but the fact that
makes a row acknowledged travels: consumer, answer, sender.  `DeliveryInv` says
what each stop entitles its holder to: an answer speaks of a batch that landed
and belongs to the sender still waiting for that batch (`AnswersLanded`), so does
every request (`RequestsAwaited`), an exchange is in one place at a time
(`OneExchange`), and a receipt marked applied has its content committed
(`ReceiptsTrue`).  That content is never removed is lemma `LandedStays`.
`Implementation` adds `SentFirst` (a batch known to the consumer was sent before),
without which a batch could appear to land before it is owed, and shows that a
step changes the stage of at most one batch, by one stage, or that of none;
pruning and purging are stutters.  The watermark stays since what a pruning removes
it folds into the rollup first; the tally of effects since an applying transaction
reads the state of its receipt again under the lock.  `AttemptsAreBounded` counts
with the attempts the passes that have read the row and not reached it yet, each of
which may add one (`ReadBudget`).

**Availability.** A row is well formed when it satisfies the CHECKs and is blank
before its first state.  Applying any batch in any order keeps it so and never
lowers `checked` (lemma `AbsorbKeeps`).  No two batches observe at one instant
(`Distinct`), so the newest batch a repository has applied is determined, and
`LatestInv` says that it decides: whatever is applied later, once more or out of
turn leaves the last check and its outcome to it, and a sighting the whole row
(lemma `AbsorbLatest`).  All this is said of the batches taken (`TakenAt`), since a
stale discovery changes nothing (lemma `NothingTaken`).  Two repositories that took
the same newest sighting therefore agree (`NewestSightingReconciles`).  A lookup
does not have that power: how many were missing in a row depends on the order, which
is why `Converged` asks for it.  `KnownInv` says which batches make a publication
known, one of them being any sighting within the receiver's window, and with it that
then only a batch that overtook another is refused (`NextIsAccepted`).  What an
orderly repository holds follows from the batches it has applied, newest last; that
the receiver converges, from `Lockstep`: in step, it holds what the producer held
after the same prefix of the sealed batches.  It drops none of them: the first is
within its window, and after it the publication is known (`History`).

**Phase.**  `OneOpenRun` is not inductive: a process decides what to run in `Plan`
and begins it six steps later.  `PlanClear` says that in between the planned slot
is later than that of every ended run and that no other run of that version is open,
and `NoneAhead` that no run belongs to a future slot.  What a process decides stays true because
only that process writes the runs of its platform and version.  `MarksAreTrue`
adds `RanTrue`: a process about to mark a slot has ended its run.
`RunsAreALedger` needs `OpenIsLatest` beside it: the open run is the latest of its
line.  `MarksOnlyAdvance` rests on `AheadOfMark`: from its request until it marks,
a process has a slot later than the mark of its row, although other versions share
the row.  `SlotsAreAPool` needs `SlotsInTurn`, that no slot is held outside a turn:
every way to lose one (a crash, a lost session, a second look that goes against the
process) gives it back.  `FirstInLine` holds because the turn is looked up again
under the lock, whatever was announced since; with more slots than one the rank is
compared with all of them (section 4), and the property is not claimed.

**Cycle.**  The guard rests on `GuardInv`: whoever holds the lock has one thread
past it (`HolderWrites`), a thread past it on a good connection is the holder's
(`WriterHolds`), and the mutex lets in one thread of a process (`OneInside`).
Honest successes rest on `SuccessInv`: the accounts offered are the platform's own
(`OfferedOwn`), the run of a running cycle is open (`RunOpen`), a cycle unwound
after its run was closed has no task left (`RaisingOver`), and a task that ended
without an exception has left a result (`TaskTrue`).  `ThreadBorn` says that a
thread belongs to a cycle there has been and to a task that has collected: a late
thread can complete the run of its own cycle but touches no other.  The ledger
rests on `LedgerInv`, which adds that a run is begun only when all before it are
closed (`RunsInOrder`) and that a cycle works for a run that was begun (`Worked`);
the pool on `HeldInTurn`: only a cycle holds a slot.

**Analysis.**  `AnalysisInv` says what the worker's memory means in each state of a
pass (`Memory`): the loaded version is accepted, and rows left to be postponed are
not outdated.  `CatchesUpOnce` needs `ScheduleInv`: an analysed row comes due a
whole interval after its analysis (`Waits`), or is analysed with older norms than
the latest (`Behind`), which is the only thing that brings it forward.
`FrozenInTime` needs `FreezeInv`: a pass under way works with a window that was asked
of it (`asked`), at an instant that is not ahead of the clock.

**ResponseCache.**  The invariant is `TypeOK`, what each task has while it is
served, who owns which lock, and `NoLeak`, which has two halves.  A lock of a
process's own, or a token, is kept only for a task that will give it back
(`GivenBack`); and until a call fails, the lock in Redis is one whose token is kept
(`NoneAbandoned`), so that none is left to expire, although tasks outlive their
locks and release those of others.  The action properties follow, one action at a
time.

**Only model-checked.**  The liveness properties `EventuallyAcknowledged`, `CaughtUp`,
`AllEnds`, `EventuallyFinal` and `Answered`: liveness under fairness and `ENABLED` are
out of the prover's reach.  So is induction over data: no theorem says what a
recursive definition computes for every input, and none is needed.

## 6. What is not modelled, and why

* Statistics over real numbers (detectors, norms, ratings), rendering (frontend,
  most of the bot), provider clients, TLS and socket handling, shell and host
  administration: no state machine, or pure I/O.  They are most of the lines of
  the repository.
* Encodings: a batch is an identity, never its bytes.
* The overlap of two cycles on one collect slot after a lost session is in the
  state spaces of `Phase` and `Cycle`, but its duration, bounded by a probe
  interval, is not: the models have no clock of that resolution.
* Two processes of one platform (the platform lease and the runs it skips).
* Everything section 7 lists.

## 7. Plan

In this order:

1. `Snapshots`: replay, deduplication and heartbeats of one publication under
   the orders `Transfer` allows; then the working set and its retention, which
   delete what was acknowledged.
2. The platform lease: two processes of one platform, skipped runs.
3. `TransferredAvailability`: `Transfer` composed with `Availability`, so that the
   orders of delivery are those the transfer produces.
4. `CatalogSync`: versions of the catalog pushed back to Server 1.
5. `AlertsInbox` of the bot; node registration of the storage hub.

Theorems next: abstract specifications for the life of a row of the analysis
schedule and of a lock of the cache, which `Analysis` and `ResponseCache` implement;
then the invariants of the modules above.

## 8. Running

    tlc -workers 2 -config MCTransfer_race.cfg MCTransfer
    tlapm Transfer_proofs.tla

`PROJECT.json` names every run's module and configuration.  With two workers the
longest runs, `analysis`, `cache` and `cycle`, take a minute or two each, the others
less; each proof module takes about a minute.
