# Duzman in TLA+

Duzman watches crypto markets. A scheduler collects prices and indicators,
evaluates patterns over them every hour, lets a gate decide which matches become
alerts, and delivers the alerts to one Telegram chat; a separate worker can ask a
language model to explain an alert and replies with the text. State lives in
PostgreSQL; several processes share it and every one of them may stop at any time.

This directory holds TLA+ models of the parts whose correctness depends on the
order of steps, the TLC configurations that check them on small instances, and
TLAPS proofs of their safety for every value of the constants. Source paths below
are relative to `src/duzman/` of the repository. `PROJECT.json` maps every
definition to the lines it models.

## Inventory

| part | state it keeps | operations | hard behaviour | modelled by |
|---|---|---|---|---|
| Hourly pattern tick, AlertGate (`scheduler/hourly_tick.py`, `patterns/alert_gate.py`, `db/repositories/pattern_trigger_repository.py`) | `pattern_triggers` | gate each match in its own transaction, hand the ALLOW rows of the tick to the dispatcher | failed and unacknowledged transactions, crash before the hand-off, window boundaries | `PatternTick` |
| Dispatch runtime (`dispatch/runtime.py`, `dispatch/persistence/`, `dispatch/telegram/`) | `alert_deliveries` | recover stale reservations, reserve, send with retries, finalize | crash between post and finalize, overlapping services, lost answers | `DispatchRuntime` |
| Delivery worker of day 7 (`telegram/sender.py`, `poller.py`, `bot.py`, `db/repositories/alert_deliveries.py`) | `alert_deliveries` | startup digest, polling loop, `send_alert` | one commit per batch, retries inside an open transaction, a loop nobody watches | `AlertPoller` |
| Operator commands (`telegram/commands.py`, `db/repositories/telegram_state.py`) | `telegram_channel_state` | mute, unmute, snooze | they run beside a batch in work | `AlertPoller` |
| Explanation tasks of day 8 (`ai/explanation_service.py`, `explanation_worker.py`, `cost_limiter.py`, `cache.py`) | `alert_explanations` | enqueue, claim, cache, budget, request, reply | two workers, rollback of a whole tick, rolling windows | `ExplanationTasks` |
| Metric snapshot, pattern evaluation (`patterns/snapshot.py`, `evaluation.py`, `config.py`, `db/repositories/snapshot_repository.py`) | none (reads) | some forty queries per tick, 23 metrics, conditions over them | a failing statement aborts the shared transaction, jobs commit in between, missing and stale values | `MetricSnapshot`, `PatternEvaluation` |
| Indicator job (`scheduler/indicator_jobs.py`, `indicators/`) | `indicators` | compute RSI, stochastic, volatility, premium and insert them | too few candles, undefined series, division by zero | `IndicatorJob` |
| Ingestion, source health (`services/`, `repositories/`) | `price_snapshots`, `source_health_checks` | fetch a source, record a check, store a batch of snapshots | check and snapshots in two transactions, failing sources | `MarketDataCollection` |
| Jobs of the other sources (`runtime/*_jobs.py`) | `global_metrics`, `etf_flows`, `liquidations`, `liquidation_heatmap` | fetch, insert, upsert, replace | overlapping runs, DELETE and INSERT under READ COMMITTED, one commit for many fetches | `MarketDataCollection` |
| Collectors (`collectors/`) | none | one request, its parsing, its health check | every kind of bad reply | `Collectors` |
| Health of the ingestion (`services/ingestion_health_alerts.py`, `api/routes/market_data.py`) | none (reads) | alerts and status from the newest rows | limits of the queries, shared source names | `MarketDataCollection` |
| AI worker of the dispatch runtime (`dispatch/ai_worker.py`) | none | one call per sent alert | not built by the deployed factory | no |
| API listings, liveness server, schema, migrations, harness | - | I/O, queries | - | no |

How they interact. The pattern tick calls the dispatcher in process with the events it has read
back from `pattern_triggers`; apart from that the parts meet only in the database: the
collection and indicator jobs write the tables the snapshot of the tick reads, in transactions
of their own and at times of their own. The dispatcher and the day 7 worker both write
`alert_deliveries` (the deployment in `deploy/systemd` runs the scheduler with the dispatcher
and does not start the day 7 worker). `create_pending_explanation` is called by the day 7
sender in the transaction of a delivery, and the explanation worker replies through
`TelegramAlertSender.send_explanation`, which reads the delivery's message id.

What makes each part correct is the list of properties below; `PROJECT.json`,
"hazards", ties each one to the line it guards.

## Modules

| module | role |
|---|---|
| `AtMostOnceDelivery` | abstract specification: an alert gets one round of at most `MaxCopies` posts and then silence |
| `AtLeastOnceDelivery` | abstract specification: an item is handed over, then settled; it is sent again only after a fault, and never once settled |
| `DispatchRuntime` | `dispatch_events`, one action per transaction or HTTP post; implements `AtMostOnceDelivery` |
| `DispatchRuntimeProofs` | its inductive invariant, safety theorems and the refinement |
| `PatternTick` | the gated tick over `pattern_triggers` |
| `PatternTickProofs` | its inductive invariant and safety theorems |
| `ExplanationTasks` | the explanation workers over `alert_explanations`; any number of them implements `AtLeastOnceDelivery` |
| `ExplanationTasksProofs` | their inductive invariant, safety theorems and the refinement |
| `AlertPoller` | the day 7 delivery worker with the operator's commands; implements `AtLeastOnceDelivery` |
| `AlertPollerProofs` | its inductive invariant, safety theorems and the refinement |
| `Batches`, `BatchLemmas` | the batches both workers take from a query with LIMIT, and facts about finite sets of numbers and finite sums |
| `Collectors` | what a fetch yields and which check it records, by the kind of reply |
| `MarketDataCollection` | the collection jobs, the tables they fill, the health alerts read from them |
| `MarketDataCollectionProofs` | its inductive invariant, the theorems about heatmaps and prices |
| `MarketDataChecksProofs` | what its health checks stand for, and its types |
| `PatternEvaluation` | the pattern configuration and `evaluate_patterns`, with Kleene's logic as reference |
| `IndicatorJob` | the rows a run of the indicator job writes |
| `MetricSnapshot` | one `build_snapshot` and the evaluation after it, composed of the two modules above |
| `MetricSnapshotProofs` | matches without ETF metrics are borne out by the rows; Farside rows are always counted twice, and no metric of the indicator job ever reaches a snapshot |
| `MC...` | the small instances TLC checks |

Operators marked MUTANT in a comment are faulty variants of the operator that
follows them. They are not used by any specification; substituting one for its
original makes the property named in `PROJECT.json` fail, which shows that the
property depends on that piece of the code.

### DispatchRuntime

`rows` is the table `alert_deliveries` for the channel `telegram`; `pc`, `events`,
`pos`, `staleIds`, `tries`, `outcome` are the local variables of one running
`dispatch_events`. `SelectStale` and `MarkStale` are the SELECT and the UPDATE of
`recover_stale_sending_deliveries`: the UPDATE names ids and does not repeat the
status filter, so they are two steps. `Reserve`/`SkipDuplicate` is the
`INSERT .. ON CONFLICT DO NOTHING`. `Post` is one turn of the sender's retry loop
with every answer `TelegramHttpClient.send_message` tells apart; an answer that is
no success may hide a delivered message (`Reaches`). `Finalize` updates by id.
`Abort` is a crash or a transaction that raises. `copies`, `rounds` and `overlapped`
are ghosts; `overlapped` records that two calls were once in progress together.
Left out: message text, acknowledgement (no caller), the AI worker.

### PatternTick

`triggers` is the table; a row is identified by its key and timestamp. `Evaluate` is
`AlertGate.evaluate` with its order of checks; windows are half-open intervals of
integers, one unit standing for the microsecond `_include_current_tick` adds, and
also for the resolution of the clock. `GateCommit` and `GateFail` are the
transaction of one match; `GateFail` may leave the row committed (lost
acknowledgement). `HandOff` and `Complete` are `dispatch_events_for_tick` with its
early returns. Which keys match is free at every tick: snapshot and evaluation only
narrow that choice. An environment assumption is that the clock does not go back
and two ticks never share a timestamp (one job, `max_instances=1`, microseconds).

### ExplanationTasks

`rows` is `alert_explanations`; `own[w]` holds the rows the transaction of worker `w` has
written and not committed, which are also the rows it has locked. A worker commits once per
tick (`Commit`), so claims, results and statuses are invisible to others until then.
`Claimable` is `FOR UPDATE SKIP LOCKED` with the repeated status filter. `Check`, `Lookup`,
`Budget`, `CallModel`, `Send` follow `process_task` in order; `SendFails` and `Abort` roll the
whole tick back, as `run_forever` does when anything raises. `at` is `started_at` while a row
runs and `completed_at` after it; `text` is the task a text was written for, so that reuse can
be traced. `create_message`, with its fallback model, is one request with an outcome. Left out:
prompt text, the branch "pattern trigger not found" (the foreign key cascades, so the row goes
with its trigger), a second cache key per alert. Two actions come from outside, from the
deliveries. `LoseBase` overwrites a delivery row without a message id. `Resend` is an alert
that is delivered again, since its row had ended `failed` or `snoozed`: the delivery gets the
id of the new base message, and `create_pending_explanation` starts a task over that ended
retryably and keeps every other row as it is. Whether a base message exists now therefore says
nothing about the time a text was to be sent; the ghost `missed` holds the tasks whose worker
looked for one in `send_explanation` and found none. `phaseOf` maps a task to
`AtLeastOnceDelivery`: settled once a row that is never retried is committed, handed over while
a worker's open transaction holds a text that has left (`Handed`), open otherwise. A task that
ends retryably is open again, since nothing was sent for it.

### AlertPoller

`rows` is `alert_deliveries`, `view` what the worker's open transaction sees; only
this worker writes the table here. `Start`, `DigestPost`, `DigestMark`,
`CommitDigest` are `send_startup_digest`; `List`, `CheckClosed`/`CheckOpen`, `Post`,
`PostFails`, `Record`, `RecordFails`, `GiveUp`, `CommitBatch` are the polling loop
and `send_alert`. A statement that fails inside the `try` leaves the session
unusable (`broken`) while the retries go on posting; a failing statement outside it
ends the loop (`LoopDies`), which `TelegramWorker.run` notices only on shutdown.
`Interrupt` is a crash, an orderly stop (the task is cancelled in the middle of its
transaction) or an exception during the digest. The digest's lookback is any suffix
of the alerts. The channel is read afresh for every alert: the session's identity
map is weak and nobody keeps the state row. Snooze deadlines are a flag that the
environment clears. The column `enabled` is never written by the code and stays
true. `TelegramWorker` leaves it to the settings (`ai_explanations_enabled`) whether the
sender enqueues an explanation, in the transaction of the delivery (`sender.py:137`).
What it writes then is `Create` and `Resend` of `ExplanationTasks`; here only its
failure counts, which is one of the exceptions after a delivered message, `RecordFails`.
`phaseOf` maps an alert to `AtLeastOnceDelivery`: settled by a committed terminal row,
handed over from the post to the commit or to whatever forgets it.

### Collectors

Pure operators: a reply is one of six kinds, from no answer to a good one, and every
collector maps it to whether there are records and to the health check it records.
Several collectors differ where one would expect them to agree: the empty candle
list and a page of Farside without the expected table are successes without data,
an empty list of liquidation levels is a full heatmap of volume zero, and a missing
CoinGlass key is a failed check. The collectors of Bybit and OKX that no job calls
are included.

### MarketDataCollection

A run is one execution of a job; `run[r].todo` is what it has left to do, in the
order of the code, and `Step` does the next piece. `TrackFetch` commits the health
check in its own transaction, `StoreSnapshot`, `PersistSnapshots` store the batch in
another. The other jobs collect in one session (`CollectOne`, `CollectMany`,
`UpsertEtfFlows`) and commit at the end (`CommitSession`), twice in the CoinGlass
job. A row has the open transaction that inserted it (`txn`) and the one that
deleted it (`dead`). `checks` is `source_health_checks`: a check has a place in the
order of `checked_at` and keeps it, so that a rollback leaves a gap (`WithCheck`).
The DELETE of `replace_for` is two steps, because under READ
COMMITTED its snapshot is taken when it starts (`DeleteStarts`), while it may wait
for another session's lock and then skips rows gone by then (`DeleteEnds`). `Abort`
is any exception or crash, of one session or of several at once;
`CommitUnacknowledged` a commit whose answer is lost. The heatmap job goes through
`HeatmapAssets`, the enabled ones of its own list. An upsert of ETF flows is a
`session.merge`, a SELECT and then an INSERT or UPDATE: two sessions that insert the
same new key meet at its unique index, and the one that waited raises when the other
commits, which is an `Abort`. The freshness and failure
alerts of the API are operators over the committed rows and checks. `met` records
which runs of a job overlapped, for the statement of a property.

### PatternEvaluation, IndicatorJob, MetricSnapshot

`MetricSnapshot` executes `build_snapshot` query by query (`Query`), over tables to
which a few transactions of the jobs may still be missing and be committed meanwhile
(`Commit`). A failing statement of a direct metric fails the tick (`DirectFails`).
What a derived metric raises is swallowed by `_safe_derived_asset`: an exception of
Python loses this metric only, one of the database leaves the session in an aborted
transaction and loses all later ones as well (`DerivedFails` allows both). A query
whose ORDER BY leaves ties open has every result the ties allow. `Evaluate` is
`evaluate_patterns`. The rows of the indicator job are computed by `IndicatorJob`
from the candles, not made up, so that its type names meet the snapshot's lookup.
The reference side of the module (`Meaning`, `Kleene`) says what the metrics and the
conditions mean by the documentation, independently of the order of queries and of
missing values. The net flow of a day is its total, a streak counts days, the five-day
flow adds up days, and an indicator is what the indicator job has written of it: where
the code computes something else (see "What the checks found") the two differ.
`Meaning` takes a set of states of the tables, of which every statement of a metric may
have read another one; the ghost `seen` holds the states committed during the tick.
`Meaning` shares with the code side the queries whose result is the definition of the
metric (the closest price a week ago, the rates of the last hour) and the arithmetic of
percentages, so it is not a check of these. A pattern is a tree of groups and
conditions; `Nodes` are all of them, and what is computed over a tree is a recursive
function on `Nodes`. `Height` is the depth of nesting, for the proofs.

## Runs

| run | instance | shows |
|---|---|---|
| `dispatch_overlap` | 2 services, 2 alerts, retry budget 1, clock 3 | one round per alert, bounded copies, truthful rows, recovery neither misses nor hastens, refinement of `AtMostOnceDelivery`; terminal rows are final until calls overlap; each step leaves less of a call |
| `dispatch_recovered_not_sent` | 1 service | violation: a recovered row may belong to a delivered alert |
| `tick` | 3 keys, one CRITICAL, two hours a day | caps, cooldown, hand-off |
| `explanations_overlap` | 2 workers, 2 tasks, batch 2 | exclusive claims, replies bounded by rollbacks, no lost text, refinement of `AtLeastOnceDelivery` (settled tasks are final) |
| `explanations_single` | 1 worker, 2 keys, batch 1, clock 3, fair | recorded attempts within the caps, texts fit their key, pending tasks are processed |
| `explanation_calls` | 1 worker, 1 task | violation: requests beyond the hourly cap |
| `poller` | 3 alerts, one refused by Telegram, batch 2, 2 attempts, 2 faults, fair | refinement of `AtLeastOnceDelivery` (no second delivery without a fault nor after a committed one), copies bounded by faults, a mute lets at most one alert slip, every deliverable alert is handled |
| `poller_failed_retried` | 1 alert, 3 attempts | violation: failed deliveries are tried again |
| `poller_loop_dies` | 1 alert | violation: the loop ends without being stopped |
| `collection` | 5 jobs, 2 runs after earlier ones or on empty tables, 2 assets, 2 heatmaps, fair | an ok check stands for data, no heatmap is lost, buckets double only by overlap and until the next run, healthy means fresh prices, which failures the alerts can hide, every run ends |
| `metrics` | 13 transactions, one of them late, 11 patterns, 2 assets beside BTC, one failing metric | matches are borne out by states of the rows committed during the tick, although metrics fail, one or all that follow, and jobs commit in between |
| `metrics_documented` | the same transactions, ETH | violation: neither are the ETF metrics those of the days' net flows, nor do fresh rows of the indicator job reach the snapshot |

Bounds. Two services or workers are enough for every conflict the code could have, since every
lock, insert and update concerns two parties; two alerts let a batch be abandoned between them;
a clock of three lets a reservation become stale while a later batch is being processed. Three
keys, two hours and two caps let a tick meet the soft cap, the hourly and the daily cap and a
cooldown that outlives an hour. Batches of one make a pending task wait behind another; two
faults let an alert fail both its attempts. `MaxClock`, `MaxFaults`, `MaxAborts`, `MaxResets`,
`MaxLost` are model bounds: they make the state space finite and stand for nothing in the code.
In `collection` two runs are every pair of overlapping sessions, and an earlier run 0 makes a
third; the two health checks of one source and one of another exceed the `Limit` of three; the
clock advances by one freshness threshold. The run visits 278,946 distinct states. In `metrics`
any two of thirteen transactions are missing and one of them may come during the tick, ages are
half hours and meet both edges of every window, percentages are rounded down, and `FlowLimit`
is 7 instead of 30 so that seven ETF rows exceed it; the patterns are the ten of
`config/patterns.yaml` and a nested one (540,728 states). Worker and service names are
symmetric; symmetry is used only in runs without liveness. Deadlock is not checked where these
bounds stop a system that would go on.

Fairness. `DispatchRuntime` assumes none: that a call ends is shown by what each of its steps
leaves to do (`EachStepCounts`); every step is of bounded duration, since timeouts bound every
await and the 429 sleep is capped. `ExplanationTasks`: weak fairness of a worker's steps
(`run_forever` catches everything and polls again, and a worker that stops is started again by
its operator); failing and enqueueing are not forced. `AlertPoller`: weak fairness of the
running worker, but not of starting it: `AlertIsHandled` promises nothing while it is down or
its loop is dead. `MarketDataCollection`: weak fairness of each run's steps; every request has
a timeout, and a session that waits for a lock waits for one that goes on; launches and time
are not forced.

## Proofs

All proof modules follow one pattern: an inductive invariant (`IInv`, in
`MarketDataCollectionProofs` `CollectionInv`), one lemma per action that preserves it, one for
`Next`, and then `Spec => []IInv` from which the named properties follow. The constants are
arbitrary, subject to the assumptions named in the modules. A few results have a hypothesis
beyond these, discussed with them: `CapsOfOneWorker` (one worker) and the theorems about the
snapshot (`WrittenByJob`, who writes `indicators`; `FlowsFromPages`, what Farside shows).

`DispatchRuntimeProofs`. `TypeOK` and the safety properties are not inductive. `IInv`
adds where a call stands (`CallInv`), that events and rows are not younger than the
clock (`ClockInv`), what a row says about its rounds and copies (`RowInv`), who owns a
`sending` row and how many posts its round has made (`OwnerInv`), and that ids a
recovery holds are older than its cutoff (`StaleInv`). The last part is what carries
`RecoveryIsConservative`: the cutoff comes from event timestamps, never later than the
clock. `Refinement` maps an alert to `fresh`, `sending` or `settled`, and shows that
`Reserve` is `Begin`, a delivered `Post` is `Deliver`, leaving a round is `Settle`, and
everything else stutters. Terminal rows are final only as long as calls have not
overlapped: a recovery that has selected its rows may write over one finalized since.
`TerminalForGood` proves it until then, whatever crashes leave behind: a call alone holds
in `staleIds` only rows that are still `sending`, and finalizes only the row it reserved
(`AloneInv`). A single dispatcher, the deployed configuration, never overlaps with itself
(`TerminalForOneDispatcher`). `CallsEnd` is the termination argument of `dispatch_events`:
`StepsLeft` is a natural number that every step of a call decreases, since an event is
not come back to and every turn of the sender's loop, being throttled included, spends
one of the retries.

`PatternTickProofs`. The heart is `CountedRows`: at the moment of a decision the rows of the
current hour (or day) are exactly those counted by the gate's half-open window, because no row
is in the future (`PastInv`) and the window includes the running tick. `CapKept` then carries
the count over the insertion of one row, also when the transaction fails after its commit.
`DivisionUnique` and `SameWindow` give the arithmetic of flooring to a window. `HandOffInv` and
`AllowedInv` relate the hand-offs and the gate's list to the table, tick by tick.

`ExplanationTasksProofs`. The invariant says, task by task, which rows a worker's transaction
may hold (`OwnInv`: only tasks that are pending in the table), that no two workers hold the
same one (`Exclusive`), what text a task in work or a finished row may carry (`FitInv`,
`ShownInv`), and how many replies are accounted for by rollbacks (`CopiesInv`); a text that was
not sent has been `missed`, and that is never forgotten. `RecordedWithinCaps` needs more:
overlapping workers do exceed the caps, so `CapsOfOneWorker` proves it where there is one
worker, by carrying the count of every window that ends at the present over the one row a
worker adds.

Both workers commit once per batch and send as they go, so neither can promise what
the dispatcher promises. What they do promise is `AtLeastOnceDelivery`, and both prove
it as `Refinement`. Each step is sorted by what it does to each single item: it keeps
it, hands it over, repeats or forgets it, or settles it; four lemmas (`AllKeep`,
`AllHand`, `AllFault`, `AllSettle`) turn that into a stutter or an abstract step. In the
poller a post is `HandOver`, a failed post, a failed upsert and a rollback are `Fault`,
a commit is `Settle`, acknowledged or not, and rows written into the open transaction
are invisible. For the explanations the point is that workers do not disturb each
other's items: a worker that replies or rolls back holds the row alone (`Exclusive`),
and a committed row that will not be retried is held by nobody (`OwnInv`). The abstract
specification implies that nothing follows a committed end; the same fact is also
proved directly as an action property (`TerminalRowsAreFinal`, `SettledForGood`).

`AlertPollerProofs`. `BatchInv` says that a batch never holds an alert with a terminal
row and that an open transaction never writes over one; `TerminalIsFinal` follows.
`SentInv` puts the send before the row, `LeakInv` allows one alert per closing of the
channel, the one in work. `CopyInv` carries `CopiesBoundedByFaults`: each failure pays
for as many copies as there are attempts, an alert whose row is terminal or about to be
has one more, and the attempts that are left (`AttemptBound`) and the rows a broken
session loses (`BrokenBound`) are paid for in advance. `BatchLemmas` proves the size of
a batch, which is where the least and the greatest of a set of numbers come from.

`MarketDataCollectionProofs`. A row carries the transaction that inserted it and the
one that deleted it, so that the uncommitted states of overlapping runs stand in one
table. `RunsOK` gives each run a suffix of a plan in which heatmaps come last before
the commit, and says which runs have met. `HeatOK` lets a run delete committed
buckets only, and `ReplacedOK` says that a run which has deleted a heatmap is about to
insert it or has done so: hence none is lost when the commit comes, and a rollback
gives all back. `SeenOK` says that what a DELETE could not see was written by a run
that this one has met, and `ApartOK` that two live sets of one heatmap belong to such
runs. `BatchOK` says that the prices a run has stored are those of the first assets of
the list, `PriceOK` that a committed price has one for every asset beside it at the
same `ts`; one fresh price therefore stands for all, which is why `HealthyMeansFresh`
holds although the code looks at the newest snapshot only.

`MarketDataChecksProofs` adds `ChecksInv`. A check that says ok and has data is `Backed`:
the rows it stands for are in the same transaction, or `Coming`, that is still ahead in
the plan of its run and due before the commit that would publish the check; price
checks, which are committed first, are excepted when their run is aborted. What makes
this hard is that rows of others are replaced: only heatmaps and ETF flows are deleted,
only committed ones, and an ETF row only together with its successor (`RowOK`), so a
check never loses its last row. `PlacesOK` keeps the checks in the order of their times,
gaps included: hence a recent failure with less than `Limit` checks after it is read by
the health alerts, and is reported unless a later check of its source says ok
(`FailuresReported`). `TypeCorrect` is the type invariant of the whole module.

`MetricSnapshotProofs`. `IndicatorsAreNeverLoaded` and `EtfRowsAreCountedTwice` are about the
two divergences found in the metrics: a run shows one behaviour in which the documented claim
fails, the theorem that this is no accident of its instance. The first is for any assets,
patterns and transactions of the jobs, provided the rows of `indicators` are among those
`IndicatorRows` computes (`WrittenByJob`; the job is the table's only writer, and the instance
of `metrics` takes its rows from there). None of the types written is one the snapshot maps;
the premium has a statement of its own that finds nothing either; and a pattern that mentions a
metric without a value does not match.

`MatchesAreBorneOut` needs to know where every value of a snapshot comes from.
`ExplainedInv` says it at any time of a tick, whatever jobs commit during it: each
result of the task in progress answers its statement on one of the states in `seen`
(`ResultsInv`), each value loaded so far, other than those of the ETF metrics, is missing
or one of its `Meaning`s over these states (`ValuesInv`), and the matches of a finished
tick are those of its snapshot (`DoneInv`). The set `seen` only grows, and so do the
meanings. The work is in the lemmas about each metric: that the statements of a task,
answered one at a time, together give one of the values that the rows mean. A metric
that fails is left without a value, never with a wrong one, and `KleeneAgrees` does the
rest: where every metric a group mentions has a value, `_evaluate_condition_group` and
Kleene's logic agree. It is an induction over the nesting of conditions, done with
`Height`: a set of nodes each of which has a node below it in the set is empty, because
a set of natural numbers has a least element (`NodesInduction`); `NodesRecursion`
derives in the same way that the recursive functions over `Nodes` satisfy their
equations.

`EtfRowsAreCountedTwice` follows from the same invariant with two more ideas.
`RecentFlowsList` characterises the answers of `recent_etf_flows` (every row once,
newer days first, as many as the limit allows), `StreakLongest` says what the streak of
such a list is, `StreakOfLastDay` that a day of inflows gives at
least as many "days" as it has rows. For the sum, `SavedPages` shows that the rows of a
day left by a series of upserts are the last page of that day, provided a provider that
has reported is on later pages too; the flows of a page are twice its total
(`PageTwice`), and `PagesTwice` adds the days up, again from a smallest set that would
not add up. What is assumed of the pages is `FlowsFromPages`: it is what the page of
totals shows, not what the code checks, and TLC evaluates it for the instance
(`PagesAssumption`). Without it the equation is false: a provider that vanished from the
page would stay in the table and in the sum.

Only model-checked is liveness (`PendingIsProcessed`, `AlertIsHandled`,
`RunsEnd`), which the prover cannot treat. Every safety property of
a passing run has a theorem. No proof uses the library's induction theorems, whose
operator parameters the provers cannot instantiate: inductions over data are made with
a least counterexample instead.

## What the checks found

Six statements of the documentation disagree with the code (`PROJECT.json`,
"findings"):

- the rollout guide reads a recovered delivery as not sent, but the crash may
  fall after Telegram accepted it (`dispatch_recovered_not_sent`);
- the day 8 specification says that Anthropic is not called at the cap, but a
  rolled back tick forgets its requests (`explanation_calls`);
- the day 7 specification leaves a failed delivery for manual diagnosis, but the
  next poll tries it again (`poller_failed_retried`);
- `run_polling_loop` promises to run until stopped, but one failing statement ends
  it (`poller_loop_dies`);
- the architecture document and the docstrings describe an ETF streak of daily rows and
  a five-day flow, but the column of totals of the Farside page is stored as one more
  provider, so that the flow is twice the flow and the streak counts rows
  (`metrics_documented`, `EtfFlowsOfDays`);
- the architecture document has RSI, stochastic, volatility and premium mapped into the
  snapshot, but it looks for `RSI`, `STOCH_K`, `VOLATILITY_24H`, `PREMIUM_DISCOUNT`,
  and the indicator job writes `rsi`, `stochastic_k`, `volatility_24h`,
  `premium_discount` (`metrics_documented`, `IndicatorsMapped`). The run checks that one
  of the two claims holds, so that the state it ends in refutes both.

Limits the models make visible, which the code or its documents accept: a crash
between the gate's commits and the hand-off loses the alerts of that tick, though
they count for caps and cooldowns; the caps hold for one scheduler, since counting
and inserting are not atomic (`docs/ARCHITECTURE.md`, Known Limitations); with
overlapping dispatchers a recovery may overwrite a finalized row, although no alert
is sent twice; since a claim is never committed before its task is done,
`reclaim_stale_explanations` finds nothing to reclaim, and a crash hands tasks
back as pending instead; twenty alerts that Telegram refuses for good starve every
newer one in the day 7 worker (`UndeliverableAssumption`); and re-enqueueing a failed
explanation removes its attempt from the cost count.

What the collection and snapshot models show of the data's way into a pattern:

- The tables `funding_rates` and `open_interest` have no writer at all. Seven of the
  ten shipped patterns need one of their metrics or an indicator and cannot match.
- A stale value is said to degrade to None (`:63`); that holds for the direct
  metrics, but the weekly changes start from the latest price and dominance however
  old they are.
- `enabled` of a pattern is read from the file and by nothing else; an empty `all`
  group always matches. Rows of two sources in one run share their `ts`, so which one
  is "the latest" is left to the database.
- An ok check may stand for no data: of an ingestion that failed after committing it,
  and of an ETF page the collector did not recognise. The dominance job checks under
  the same source name as CoinGecko prices, and the later check speaks for both.
- Two CoinGlass runs at once can leave a heatmap twice until the next run. An enabled
  asset CoinGlass does not support raises out of the collector and rolls back the
  job.
- With hourly jobs and a threshold of 30 minutes the health status warns of stale
  data for half of every hour; the daily fear and greed value is missing for a
  snapshot 90 minutes after it was stored.

## Not modelled

Message texts, prompts, HTML and decimal parsing, the mathematics of the indicators
beyond when they are defined: they decide contents, not order, and are tested as pure
functions. The routes that list rows, the liveness server, table definitions and the
manual harness have no behaviour of their own. The AI worker of the dispatch runtime
is not built in deployment (`ai_worker=None`) and changes no persistent state.
Authorisation and the duration parser of the operator's commands are pure checks of
one message.

## Plan

Done: the dispatch runtime with its abstract specification and proofs; the pattern
tick, the explanation tasks, the day 7 worker and the collection jobs with proofs; the
snapshot and the evaluation; an abstract specification shared by the explanation and
delivery workers, and the theorems that both implement it; the checks of the collection
jobs, the way of the indicators into a snapshot, what its values mean while jobs commit,
and the two divergences of its metrics, proved.

Next, in this order:

1. `AlertPipeline`: tick and dispatcher composed, an ALLOW row to a delivered or
   abandoned alert.
2. An abstract specification of the publication of a job's rows and checks, at once or
   not at all, and the collection jobs that commit once shown to implement it.
