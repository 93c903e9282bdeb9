------------------------ MODULE MarketDataCollection ------------------------
(***************************************************************************)
(* The collection jobs, the tables they fill, the health checks they leave *)
(* and the alerts the read-only API derives from both.                     *)
(*                                                                         *)
(* A run is one execution of a job, launched by the scheduler's cron       *)
(* trigger or by an operator's command.  APScheduler runs one instance of  *)
(* a job at a time, but commands may be started at any time, so any runs   *)
(* may overlap.  A run works through its targets in its own session.       *)
(* Every row carries the open transaction that inserted it and the one     *)
(* that deleted it (0: none), so that a reader sees the committed rows     *)
(* only (READ COMMITTED).                                                  *)
(***************************************************************************)
EXTENDS Integers, Sequences, FiniteSetsExt, Collectors

CONSTANTS Jobs,       \* jobs that are launched
          Assets,     \* the assets of the ingestion job, in its order
          Enabled,    \* enabled assets of the ETF and CoinGlass jobs, in order
          HeatmapAssets, \* the enabled ones of COINGLASS_HEATMAP_ASSETS, in order
          Timeframes, \* heatmap timeframes, in the order of the job
          Keyed,      \* is a CoinGlass API key configured?
          Limit,      \* checks that list_latest reads
          Fresh,      \* freshness thresholds (30 min both), in clock units
          MaxRuns,    \* runs in a behaviour (model bound)
          MaxClock    \* bound of the clock (model bound)

AllJobs == {"ingestion", "btc_dominance", "fear_greed", "etf_flows", "coinglass"}
Runs == 0..MaxRuns   \* run 0 stands for the runs before the behaviour starts
Elements(s) == {s[i] : i \in DOMAIN s}

ASSUME JobsAssumption == Jobs \subseteq AllJobs
ASSUME AssetsAssumption == Assets \in Seq(STRING) /\ Assets # <<>>
ASSUME TimeframesAssumption == Timeframes \in Seq(STRING)
ASSUME EnabledAssumption ==
  /\ Enabled \in Seq(STRING) /\ HeatmapAssets \in Seq(STRING)
  /\ Elements(HeatmapAssets) \subseteq Elements(Enabled)
ASSUME KeyedAssumption == Keyed \in BOOLEAN
ASSUME BoundsAssumption ==
  Limit \in Nat \ {0} /\ Fresh \in Nat /\ MaxRuns \in Nat /\ MaxClock \in Nat

VARIABLES
  clock,  \* wall clock
  checks, \* source_health_checks by their places in the order of checked_at
  rows,   \* rows of the other tables
  run,    \* the runs
  met     \* pairs of runs of a job that were in progress together (history)

vars == <<clock, checks, rows, run, met>>

----------------------------------------------------------------------------
(* Jobs and their targets *)

Target(kind, of) == [kind |-> kind, of |-> of]
TargetsOf(kind, ofs) == [i \in DOMAIN ofs |-> Target(kind, ofs[i])]
CommitTarget == Target("commit", "session")

HeatmapKey(asset, timeframe) == <<asset, timeframe>>
HeatmapTargets ==
  [i \in 1..(Len(HeatmapAssets) * Len(Timeframes)) |->
     Target("heatmap", HeatmapKey(HeatmapAssets[((i - 1) \div Len(Timeframes)) + 1],
                                  Timeframes[((i - 1) % Len(Timeframes)) + 1]))]

Plan(job) ==
  CASE job = "ingestion" -> TargetsOf("prices", <<"binance", "coingecko">>)
    [] job = "btc_dominance" -> <<Target("btc_dominance", "btc"), CommitTarget>>
    [] job = "fear_greed" -> <<Target("fear_greed", "index"), CommitTarget>>
    [] job = "etf_flows" ->
         TargetsOf("etf", Enabled) \o <<Target("upsert", "etf"), CommitTarget>>
    [] job = "coinglass" ->
         TargetsOf("liquidations", Enabled) \o <<CommitTarget>>
           \o HeatmapTargets \o <<CommitTarget>>

\* Two jobs write under the source name "coingecko".
SourceOf(target) ==
  CASE target.kind = "prices" -> target.of
    [] target.kind = "btc_dominance" -> "coingecko"
    [] target.kind = "fear_greed" -> "alternative_me"
    [] target.kind = "etf" -> "farside"
    [] target.kind \in {"liquidations", "heatmap"} -> "coinglass"

OpenPcs == {"fetch", "store", "delete", "deleting", "insert"}
IsOpen(r) == run[r].pc \in OpenPcs
Ended(r) == run[r].pc \in {"done", "aborted"}
Todo(r) == Head(run[r].todo)
At(r, pc, kind) == run[r].pc = pc /\ Todo(r).kind = kind

Unused == [job |-> "none", pc |-> "unused", todo |-> <<>>,
           since |-> 0, got |-> {}, sees |-> {}]
Closed(record, pc) == [Unused EXCEPT !.job = record.job, !.pc = pc]

\* The run moves on to its next target, or ends.
Advanced(record) ==
  IF Len(record.todo) = 1 THEN Closed(record, "done")
  ELSE [record EXCEPT !.todo = Tail(@), !.pc = "fetch"]

\* Records of these targets are kept in memory.
Holding(record, ofs) == [record EXCEPT !.got = @ \cup ofs]

----------------------------------------------------------------------------
(* Tables *)

Committed(table) == {x \in rows : x.table = table /\ x.txn = 0}
Written(r) == {x \in rows : x.txn = r}

\* at is the time the run started, which is the ts of a price snapshot.
NewRow(r, table, key) ==
  [table |-> table, key |-> key, at |-> run[r].since, run |-> r, txn |-> r, dead |-> 0]

\* _record_check.  data and run are history: did the fetch give records?
NewCheck(r, outcome, txn) ==
  [source |-> SourceOf(Todo(r)), target |-> Todo(r), ok |-> outcome.check = "ok",
   data |-> outcome.data, at |-> clock, run |-> r, txn |-> txn]

\* A new check comes after all others; what is rolled back leaves a gap.
NewPlace == Max(DOMAIN checks \cup {0}) + 1
WithCheck(check) ==
  [i \in DOMAIN checks \cup {NewPlace} |-> IF i = NewPlace THEN check ELSE checks[i]]

\* MUTANT: a check is committed at once, in the other jobs too.
RecordedAtOnce(r, outcome) ==
  IF outcome.check = "none" THEN checks ELSE WithCheck(NewCheck(r, outcome, 0))

Recorded(r, outcome) ==
  IF outcome.check = "none" THEN checks ELSE WithCheck(NewCheck(r, outcome, r))

\* MUTANT: deleted rows stay, and stay locked, after the commit.
CommittedRowsLocked(r) == {[x EXCEPT !.txn = IF @ = r THEN 0 ELSE @] : x \in rows}

CommittedRows(r) ==
  {[x EXCEPT !.txn = IF @ = r THEN 0 ELSE @] : x \in {y \in rows : y.dead # r}}
CommittedChecks(r) ==
  [i \in DOMAIN checks |-> [checks[i] EXCEPT !.txn = IF @ = r THEN 0 ELSE @]]

\* MUTANT: the transactions are not rolled back.
LeaveOpen(R) == UNCHANGED <<rows, checks>>

RollBack(R) ==
  /\ rows' = {[x EXCEPT !.dead = IF @ \in R THEN 0 ELSE @] :
                x \in {y \in rows : y.txn \notin R}}
  /\ checks' = [i \in {j \in DOMAIN checks : checks[j].txn \notin R} |-> checks[i]]

----------------------------------------------------------------------------
(* Initial state *)

\* The tables are empty, or hold what earlier runs of the jobs left.
EarlierChecks ==
  [i \in DOMAIN Plan("ingestion") |->
     LET target == Plan("ingestion")[i]
     IN  [source |-> target.of, target |-> target, ok |-> TRUE, data |-> TRUE,
          at |-> 0, run |-> 0, txn |-> 0]]
EarlierKeys ==
  {<<"prices", <<target.of, asset>>>> :
     target \in Elements(Plan("ingestion")), asset \in Elements(Assets)}
    \cup {<<"etf", asset>> : asset \in Elements(Enabled)}
    \cup {<<"heatmap", target.of>> : target \in Elements(HeatmapTargets)}
EarlierRows ==
  {[table |-> k[1], key |-> k[2], at |-> 0, run |-> 0, txn |-> 0, dead |-> 0] :
     k \in EarlierKeys}

Init ==
  /\ clock = 0
  /\ met = {}
  /\ \/ /\ checks = <<>>
        /\ rows = {}
        /\ run = [r \in Runs |-> Unused]
     \/ /\ checks = EarlierChecks
        /\ rows = EarlierRows
        /\ run = [[r \in Runs |-> Unused] EXCEPT
                     ![0] = [Unused EXCEPT !.job = "earlier", !.pc = "done"]]

----------------------------------------------------------------------------
(* Time and launches *)

\* Model bound: the clock, whose unit is the freshness threshold, stands still
\* while a job other than the ingestion is in progress.
Tick ==
  /\ clock < MaxClock
  /\ \A r \in Runs : IsOpen(r) => run[r].job = "ingestion"
  /\ clock' = clock + 1
  /\ UNCHANGED <<checks, rows, run, met>>

Launch(r, job) ==
  /\ r > 0 /\ run[r].pc = "unused"
  /\ \A q \in 1..(r - 1) : run[q].pc # "unused"
  /\ run' = [run EXCEPT ![r] = [Unused EXCEPT !.job = job, !.pc = "fetch",
                                              !.todo = Plan(job), !.since = clock]]
  /\ met' = met \cup {{q, r} : q \in {p \in Runs : IsOpen(p) /\ run[p].job = job}}
  /\ UNCHANGED <<clock, checks, rows>>

----------------------------------------------------------------------------
(* Ingestion: one transaction for the check, one for the snapshots *)

\* track_fetch: the check is committed before anything is stored.
TrackFetch(r) ==
  /\ At(r, "fetch", "prices")
  /\ \E outcome \in {SourceBatch(Todo(r).of, reply) :
                       reply \in [Elements(Assets) -> Replies]} :
       /\ checks' = WithCheck(NewCheck(r, outcome, 0))
       /\ run' = [run EXCEPT ![r] = IF outcome.data THEN [@ EXCEPT !.pc = "store"]
                                                    ELSE Advanced(@)]
  /\ UNCHANGED <<clock, rows, met>>

\* create_from_market_data of the next asset, flushed but not committed.  All
\* snapshots of a run carry the time at which it started.
NextAsset(r) == Assets[Cardinality(Written(r)) + 1]

\* MUTANT: every snapshot is committed on its own.
StoreSnapshotCommitted(r) ==
  /\ At(r, "store", "prices")
  /\ \E i \in DOMAIN Assets :
       rows' = rows \cup {[NewRow(r, "prices", <<Todo(r).of, Assets[i]>>) EXCEPT !.txn = 0]}
  /\ UNCHANGED <<clock, checks, run, met>>

StoreSnapshot(r) ==
  /\ At(r, "store", "prices")
  /\ Cardinality(Written(r)) < Len(Assets)
  /\ rows' = rows \cup {NewRow(r, "prices", <<Todo(r).of, NextAsset(r)>>)}
  /\ UNCHANGED <<clock, checks, run, met>>

PersistSnapshots(r) ==
  /\ At(r, "store", "prices")
  /\ Cardinality(Written(r)) = Len(Assets)
  /\ rows' = CommittedRows(r)
  /\ run' = [run EXCEPT ![r] = Advanced(@)]
  /\ UNCHANGED <<clock, checks, met>>

----------------------------------------------------------------------------
(* The other jobs: checks and rows share a transaction *)

\* One fetch whose record, if there is one, is inserted at once.
CollectOne(r, kind, outcomes) ==
  /\ At(r, "fetch", kind)
  /\ \E outcome \in outcomes :
       /\ checks' = Recorded(r, outcome)
       /\ rows' = IF outcome.data
                    THEN rows \cup {NewRow(r, kind, Todo(r).of)} ELSE rows
  /\ run' = [run EXCEPT ![r] = Advanced(@)]
  /\ UNCHANGED <<clock, met>>

\* One fetch whose records are kept in memory for a later step.
CollectMany(r, kind, outcomes) ==
  /\ At(r, "fetch", kind)
  /\ \E outcome \in outcomes :
       /\ checks' = Recorded(r, outcome)
       /\ run' = [run EXCEPT ![r] =
                    Holding(Advanced(@), IF outcome.data THEN {Todo(r).of} ELSE {})]
  /\ UNCHANGED <<clock, rows, met>>

CollectBtcDominance(r) ==
  CollectOne(r, "btc_dominance", {BtcDominance(reply) : reply \in Replies})

CollectFearGreed(r) ==
  CollectOne(r, "fear_greed", {FearGreed(reply) : reply \in Replies})

CollectLiquidations(r) ==
  CollectOne(r, "liquidations", {Liquidations(Keyed, reply) : reply \in Replies})

CollectEtfFlows(r) ==
  CollectMany(r, "etf", {EtfFlows(reply) : reply \in Replies})

\* upsert_many: one row per key, and a row another open transaction has
\* written makes the flush wait for that transaction's end.  Of a key that is new
\* to both, session.merge has seen no row and inserts: the flush that waits raises
\* on the other's commit, which is an Abort, and on its rollback goes through.
UpsertEtfFlows(r) ==
  /\ At(r, "fetch", "upsert")
  /\ LET old == {x \in rows : x.table = "etf" /\ x.key \in run[r].got}
     IN  /\ \A x \in old : x.txn = 0 /\ x.dead = 0
         /\ rows' = (rows \ old) \cup {[x EXCEPT !.dead = r] : x \in old}
                      \cup {NewRow(r, "etf", key) : key \in run[r].got}
  /\ run' = [run EXCEPT ![r] = Advanced(@)]
  /\ UNCHANGED <<clock, checks, met>>

----------------------------------------------------------------------------
(* Heatmaps: DELETE and INSERT of one asset and timeframe *)

\* _latest_price: the newest snapshot of the asset, however old.
Priced(asset) == \E x \in Committed("prices") : x.key[2] = asset

FetchHeatmap(r) ==
  /\ At(r, "fetch", "heatmap")
  /\ \E outcome \in {Heatmap(Keyed, Priced(Todo(r).of[1]), reply) : reply \in Replies} :
       /\ checks' = Recorded(r, outcome)
       /\ run' = [run EXCEPT ![r] = IF outcome.data THEN [@ EXCEPT !.pc = "delete"]
                                                    ELSE Advanced(@)]
  /\ UNCHANGED <<clock, rows, met>>

\* MUTANT: the DELETE finds no row, so that buckets are only ever added.
DeleteStartsBlind(r) ==
  /\ run[r].pc = "delete"
  /\ run' = [run EXCEPT ![r] = [@ EXCEPT !.pc = "deleting", !.sees = {}]]
  /\ UNCHANGED <<clock, checks, rows, met>>

\* The statement's snapshot: the rows committed when it starts.
DeleteStarts(r) ==
  /\ run[r].pc = "delete"
  /\ run' = [run EXCEPT ![r] =
       [@ EXCEPT !.pc = "deleting",
                 !.sees = {x.run : x \in {y \in Committed("heatmap") : y.key = Todo(r).of}}]]
  /\ UNCHANGED <<clock, checks, rows, met>>

\* Rows in that snapshot that another open transaction has deleted are waited
\* for; those gone by then are skipped, and rows committed meanwhile are not
\* in the snapshot.
Seen(r) == {x \in rows : x.table = "heatmap" /\ x.key = Todo(r).of /\ x.run \in run[r].sees}

\* MUTANT: the DELETE is committed on its own.
DeleteEndsCommitted(r) ==
  /\ run[r].pc = "deleting"
  /\ \A x \in Seen(r) : x.dead = 0
  /\ rows' = rows \ Seen(r)
  /\ run' = [run EXCEPT ![r] = [@ EXCEPT !.pc = "insert", !.sees = {}]]
  /\ UNCHANGED <<clock, checks, met>>

DeleteEnds(r) ==
  /\ run[r].pc = "deleting"
  /\ \A x \in Seen(r) : x.dead = 0
  /\ rows' = (rows \ Seen(r)) \cup {[x EXCEPT !.dead = r] : x \in Seen(r)}
  /\ run' = [run EXCEPT ![r] = [@ EXCEPT !.pc = "insert", !.sees = {}]]
  /\ UNCHANGED <<clock, checks, met>>

InsertBuckets(r) ==
  /\ run[r].pc = "insert"
  /\ rows' = rows \cup {NewRow(r, "heatmap", Todo(r).of)}
  /\ run' = [run EXCEPT ![r] = Advanced(@)]
  /\ UNCHANGED <<clock, checks, met>>

----------------------------------------------------------------------------
(* The end of a session *)

CommitSession(r) ==
  /\ At(r, "fetch", "commit")
  /\ rows' = CommittedRows(r)
  /\ checks' = CommittedChecks(r)
  /\ run' = [run EXCEPT ![r] = Advanced(@)]
  /\ UNCHANGED <<clock, met>>

Aborted(R) ==
  run' = [r \in Runs |-> IF r \in R THEN Closed(run[r], "aborted") ELSE run[r]]

\* A statement, a commit or the collector itself (an enabled asset CoinGlass
\* does not support) raises, or the process ends, the scheduler's with all its
\* jobs: what is not committed is rolled back.
Abort(R) ==
  /\ \A r \in R : IsOpen(r)
  /\ Aborted(R)
  /\ RollBack(R)
  /\ UNCHANGED <<clock, met>>

\* A connection lost in COMMIT raises too, with the transaction committed.
CommitUnacknowledged(r) ==
  /\ \/ At(r, "fetch", "commit")
     \/ At(r, "store", "prices") /\ Cardinality(Written(r)) = Len(Assets)
  /\ rows' = CommittedRows(r)
  /\ checks' = CommittedChecks(r)
  /\ Aborted({r})
  /\ UNCHANGED <<clock, met>>

----------------------------------------------------------------------------
(* What the API says *)

Recent(at) == clock - at <= Fresh

\* Places of the committed checks, newest last.
VisibleChecks == {i \in DOMAIN checks : checks[i].txn = 0}
NewerChecks(i) == {j \in VisibleChecks : j > i}

\* MUTANT: the oldest of the checks read, not the newest, stands for a source.
LatestBySourceOldest ==
  {i \in VisibleChecks :
     /\ Cardinality(NewerChecks(i)) < Limit
     /\ \A j \in VisibleChecks : j < i => checks[j].source # checks[i].source}

\* list_latest without a source.
LatestBySource ==
  {i \in VisibleChecks :
     /\ Cardinality(NewerChecks(i)) < Limit
     /\ \A j \in NewerChecks(i) : checks[j].source # checks[i].source}

\* _price_snapshot_alerts on list_latest(limit=1).
PriceAlerts ==
  LET prices == Committed("prices")
  IN  IF prices = {} THEN {<<"no_price_snapshots", "critical">>}
      ELSE IF \E x \in prices : Recent(x.at) THEN {}
      ELSE {<<"stale_price_snapshot", "warning">>}

\* _source_health_alerts
SourceAlerts ==
  IF LatestBySource = {} THEN {<<"no_source_health_checks", "warning">>}
  ELSE (IF \E i \in LatestBySource : Recent(checks[i].at) THEN {}
        ELSE {<<"stale_source_health", "warning">>})
       \cup {<<checks[i].source, "critical">> :
               i \in {j \in LatestBySource : ~checks[j].ok /\ Recent(checks[j].at)}}

Alerts == PriceAlerts \cup SourceAlerts

\* summarize_ingestion_health
Status ==
  IF \E a \in Alerts : a[2] = "critical" THEN "critical"
  ELSE IF Alerts # {} THEN "warning"
  ELSE "healthy"

----------------------------------------------------------------------------
(* Specification *)

Step(r) ==
  \/ TrackFetch(r) \/ StoreSnapshot(r) \/ PersistSnapshots(r)
  \/ CollectBtcDominance(r) \/ CollectFearGreed(r) \/ CollectLiquidations(r)
  \/ CollectEtfFlows(r) \/ UpsertEtfFlows(r)
  \/ FetchHeatmap(r) \/ DeleteStarts(r) \/ DeleteEnds(r) \/ InsertBuckets(r)
  \/ CommitSession(r)

Next ==
  \/ Tick
  \/ \E r \in Runs, job \in Jobs : Launch(r, job)
  \/ \E r \in Runs : Step(r) \/ CommitUnacknowledged(r)
  \/ \E R \in (SUBSET Runs) \ {{}} : Abort(R)

Spec == Init /\ [][Next]_vars
FairSpec == Spec /\ \A r \in Runs : WF_vars(Step(r))
----------------------------------------------------------------------------
(* Properties *)

\* Every variable keeps its type; an open transaction belongs to a run in
\* progress, and what a run wrote or deleted is settled when it ends.
TypeOK ==
  /\ clock \in 0..MaxClock
  /\ \A x \in rows :
       /\ x.at \in 0..MaxClock /\ x.run \in Runs
       /\ x.txn \in 0..MaxRuns /\ x.dead \in 0..MaxRuns
       /\ x.txn # 0 => x.txn = x.run /\ IsOpen(x.txn)
       /\ x.dead # 0 => IsOpen(x.dead)
  /\ \A i \in DOMAIN checks :
       /\ checks[i].at \in 0..MaxClock /\ checks[i].ok \in BOOLEAN
       /\ checks[i].txn # 0 => IsOpen(checks[i].txn)
  /\ \A r \in Runs : run[r].pc \in OpenPcs \cup {"unused", "done", "aborted"}
  /\ met \subseteq SUBSET Runs

\* The rows of the target of a check are there.  Heatmap and ETF rows may have
\* been replaced by another run's.
HasRows(c) ==
  IF c.target.kind = "prices"
  THEN \A i \in DOMAIN Assets : \E x \in Committed("prices") :
         x.run = c.run /\ x.key = <<c.source, Assets[i]>>
  ELSE \E x \in Committed(c.target.kind) :
         x.key = c.target.of /\ (x.run = c.run \/ c.target.kind \in {"heatmap", "etf"})

\* A check that says ok stands for data a reader finds: with the exception of
\* the ingestion job, which commits the check before the snapshots and leaves it
\* behind when it raises, dies, or has not come to them yet, and of a page that
\* the ETF collector did not recognise.
OkCheckHasRows ==
  \A i \in VisibleChecks :
    LET c == checks[i]
    IN  c.ok =>
          \/ c.data /\ HasRows(c)
          \/ ~c.data /\ c.source = "farside"
          \/ c.target.kind = "prices" /\ run[c.run].pc \in {"store", "aborted"}

Heatmaps == {t.of : t \in Elements(HeatmapTargets)}
Versions(key) == {x.run : x \in {y \in Committed("heatmap") : y.key = key}}

\* Once there is a heatmap for an asset and timeframe there always is one: no
\* failing fetch, error or crash between its DELETE and its INSERT loses it.
HeatmapNeverLost ==
  [][\A key \in Heatmaps : Versions(key) # {} => Versions(key)' # {}]_vars

\* replace_for leaves a second set of buckets only when two runs overlapped: a
\* run that starts after the others ended replaces all they left.
DoubledOnlyByOverlap ==
  \A key \in Heatmaps : \A q, r \in Versions(key) : q # r => {q, r} \in met

\* A healthy status means that every asset has a fresh price, although only the
\* newest snapshot of all sources and assets is looked at.
HealthyMeansFresh ==
  Status = "healthy" =>
    \A i \in DOMAIN Assets : \E x \in Committed("prices") :
      x.key[2] = Assets[i] /\ Recent(x.at)

\* A job whose latest check of a source failed not long ago is reported, unless
\* more checks than list_latest reads came after it or another job, checking
\* under the same source name, succeeded since.
FailureHiddenOnlyByNamesake ==
  \A i \in VisibleChecks :
    (/\ ~checks[i].ok
     /\ Recent(checks[i].at)
     /\ Cardinality(NewerChecks(i)) < Limit
     /\ \A j \in NewerChecks(i) :
          checks[j].source = checks[i].source =>
            run[checks[j].run].job # run[checks[i].run].job)
      => \/ <<checks[i].source, "critical">> \in SourceAlerts
         \/ \E j \in NewerChecks(i) :
              /\ checks[j].source = checks[i].source
              /\ checks[j].ok

\* Every run ends, with whatever result: a run that waits for another one's
\* locks waits for a run that does not wait for it.
RunsEnd == \A r \in Runs \ {0} : IsOpen(r) ~> Ended(r)
=============================================================================
