------------------------ MODULE MetricSnapshotProofs ------------------------
(***************************************************************************)
(* Proofs about the snapshot of the metrics and the matches of patterns,   *)
(* for any assets, any patterns and any transactions of the jobs in which  *)
(* the rows of indicators are those the indicator job writes: that no      *)
(* metric of the indicator job ever reaches a snapshot, that the match of  *)
(* a pattern is borne out by rows that were committed during the tick, and *)
(* that the rows of a Farside page are counted twice.                      *)
(***************************************************************************)
EXTENDS MetricSnapshot, BatchLemmas, SequenceTheorems

----------------------------------------------------------------------------
(* What the indicator job writes *)

\* The types of the rows that the indicator job writes.
WrittenTypes == {"rsi", "stochastic_k", "stochastic_d", "volatility_24h", "premium_discount"}

\* What an asset is found to have comes from one of the four computations.
LEMMA AssetIndicatorTypes ==
  ASSUME NEW market, NEW i \in AssetIndicators(market)
  PROVE  i[1] \in WrittenTypes
<1>1. CASE \E t \in CandleTimeframes : i \in Rsi(market.candles[t], t)
  BY <1>1 DEF Rsi, WrittenTypes
<1>2. CASE \E t \in {"1h", "4h"} : i \in Stochastic(market.candles[t], t)
  BY <1>2 DEF Stochastic, WrittenTypes
<1>3. CASE i \in Volatility(market.candles["1h"], "1h")
  BY <1>3 DEF Volatility, WrittenTypes
<1>4. CASE i \in Premium(market)
  BY <1>4 DEF Premium, WrittenTypes
<1> DEFINE R == UNION {Rsi(market.candles[t], t) : t \in CandleTimeframes}
           S == UNION {Stochastic(market.candles[t], t) : t \in {"1h", "4h"}}
<1>5. AssetIndicators(market) =
        R \cup S \cup Volatility(market.candles["1h"], "1h") \cup Premium(market)
  BY Zenon DEF AssetIndicators
<1>6. i \in R => \E t \in CandleTimeframes : i \in Rsi(market.candles[t], t)
  BY Zenon
<1>7. i \in S => \E t \in {"1h", "4h"} : i \in Stochastic(market.candles[t], t)
  BY Zenon
<1> HIDE DEF R, S
<1> QED
  BY <1>1, <1>2, <1>3, <1>4, <1>5, <1>6, <1>7, Zenon

\* The rows of a run have these types.
LEMMA IndicatorRowTypes ==
  ASSUME NEW markets, NEW age, NEW x \in IndicatorRows(markets, age)
  PROVE  x.type \in WrittenTypes
<1>1. PICK a \in DOMAIN markets :
        x \in {[table |-> "indicators", asset |-> a, type |-> i[1], timeframe |-> i[2],
                age |-> age, value |-> markets[a].reading] : i \in AssetIndicators(markets[a])}
  BY Zenon DEF IndicatorRows
<1>2. PICK i \in AssetIndicators(markets[a]) :
        x = [table |-> "indicators", asset |-> a, type |-> i[1], timeframe |-> i[2],
             age |-> age, value |-> markets[a].reading]
  BY <1>1, Zenon
<1>3. x.type = i[1]
  BY <1>2
<1> QED
  BY <1>3, AssetIndicatorTypes

\* None of these types is one that the snapshot looks up.
LEMMA TypesNotMapped ==
  ASSUME NEW x, x.type \in WrittenTypes
  PROVE  x.type # "PREMIUM_DISCOUNT" /\ \A metric : ~Maps(x, metric)
<1>1. DOMAIN IndicatorMapping = {"RSI", "STOCH_K", "STOCH_D", "VOLATILITY_24H"}
  BY DEF IndicatorMapping
<1> QED
  BY <1>1 DEF Maps, WrittenTypes

----------------------------------------------------------------------------
(* The tasks *)

\* The metrics that have tasks,
TaskNames ==
  {"indicators", "premium_discount_pct", "prices", "liquidations", "fear_greed_index",
   "btc_dominance", "btc_dominance_change_7d_pct", "funding_rate_avg",
   "funding_dislocation_pct", "oi_change_24h_pct", "etf_net_flow_streak_days",
   "etf_cum_flow_5d_usd", "price_vs_btc_change_7d_pct"}
\* those of them that have no asset
GlobalTasks ==
  {"indicators", "fear_greed_index", "btc_dominance", "btc_dominance_change_7d_pct"}
\* and the tasks.
TaskSet ==
  {task \in [metric : TaskNames, asset : StageAAssets \cup {"all"}] :
     task.asset = "all" <=> task.metric \in GlobalTasks}

\* A task is for all assets or for one.
LEMMA TaskType ==
  /\ \A metric \in GlobalTasks : Task(metric, "all") \in TaskSet
  /\ \A metric \in TaskNames \ GlobalTasks, a \in StageAAssets : Task(metric, a) \in TaskSet
BY SnapshotAssumption DEF Task, TaskSet, TaskNames, GlobalTasks

\* The list of tasks: one per asset,
LEMMA PerAssetType ==
  ASSUME NEW metric \in TaskNames \ GlobalTasks
  PROVE  PerAsset(metric) \in Seq(TaskSet)
<1>1. Assets \in Seq(StageAAssets)
  BY SnapshotAssumption
<1>2. \A i \in DOMAIN Assets : Task(metric, Assets[i]) \in TaskSet
  BY <1>1, TaskType
<1> QED
  BY <1>1, <1>2 DEF PerAsset

\* the derived metrics,
LEMMA DerivedMetricsType ==
  /\ Len(DerivedMetrics) = 6
  /\ \A k \in 1..6 : DerivedMetrics[k] \in TaskNames \ GlobalTasks
  /\ DerivedMetrics[4] = "etf_net_flow_streak_days"
BY DEF DerivedMetrics, TaskNames, GlobalTasks

\* their tasks for all assets,
LEMMA DerivedTasksType == DerivedTasks \in Seq(TaskSet)
<1> DEFINE N == Len(Assets) * 6
           taskAt(i) == Task(DerivedMetrics[((i - 1) % 6) + 1], Assets[((i - 1) \div 6) + 1])
<1>1. Assets \in Seq(StageAAssets) /\ Len(Assets) \in Nat
  BY SnapshotAssumption
<1>2. ASSUME NEW i \in 1..N
      PROVE  taskAt(i) \in TaskSet
  <2>1. ((i - 1) % 6) + 1 \in 1..6
    BY <1>1
  <2>2. ((i - 1) \div 6) + 1 \in 1..Len(Assets)
    BY <1>1
  <2>3. Assets[((i - 1) \div 6) + 1] \in StageAAssets
    BY <1>1, <2>2
  <2>4. DerivedMetrics[((i - 1) % 6) + 1] \in TaskNames \ GlobalTasks
    BY <2>1, DerivedMetricsType
  <2> QED
    BY <2>3, <2>4, TaskType, Zenon
<1>3. N \in Nat
  BY <1>1
<1>4. [i \in 1..N |-> taskAt(i)] \in Seq(TaskSet)
  <2> HIDE DEF N, taskAt
  <2> QED
    BY <1>2, <1>3
<1>5. <<Task("btc_dominance_change_7d_pct", "all")>> \in Seq(TaskSet)
  BY TaskType DEF GlobalTasks
<1>6. DerivedTasks = <<Task("btc_dominance_change_7d_pct", "all")>> \o [i \in 1..N |-> taskAt(i)]
  BY DerivedMetricsType, Zenon DEF DerivedTasks
<1> HIDE DEF N, taskAt
<1> QED
  BY <1>4, <1>5, <1>6, ConcatProperties

\* the tasks of the direct metrics,
LEMMA DirectTasksType == DirectTasks \in Seq(TaskSet)
<1>1. /\ PerAsset("premium_discount_pct") \in Seq(TaskSet)
      /\ PerAsset("prices") \in Seq(TaskSet)
      /\ PerAsset("liquidations") \in Seq(TaskSet)
  BY PerAssetType DEF TaskNames, GlobalTasks
<1>2. /\ <<Task("indicators", "all")>> \in Seq(TaskSet)
      /\ <<Task("fear_greed_index", "all"), Task("btc_dominance", "all")>> \in Seq(TaskSet)
  BY TaskType DEF GlobalTasks
<1>3. <<Task("indicators", "all")>> \o PerAsset("premium_discount_pct") \in Seq(TaskSet)
  BY <1>1, <1>2, ConcatProperties
<1>4. <<Task("indicators", "all")>> \o PerAsset("premium_discount_pct")
        \o PerAsset("prices") \in Seq(TaskSet)
  BY <1>1, <1>3, ConcatProperties
<1>5. <<Task("indicators", "all")>> \o PerAsset("premium_discount_pct")
        \o PerAsset("prices") \o PerAsset("liquidations") \in Seq(TaskSet)
  BY <1>1, <1>4, ConcatProperties
<1> QED
  BY <1>2, <1>5, ConcatProperties DEF DirectTasks

\* and all of them.
LEMMA TasksType == Tasks \in Seq(TaskSet)
BY DirectTasksType, DerivedTasksType, ConcatProperties DEF Tasks

----------------------------------------------------------------------------
(* What a finished task sets *)

\* Among rows of these types no indicator is found.
LEMMA NothingIndicated ==
  ASSUME NEW rows, \A x \in rows : x.type \in WrittenTypes, NEW asset, NEW metric
  PROVE  IndicatorValue(rows, asset, metric) = None
<1>1. {x \in rows : x.asset = asset /\ Maps(x, metric)} = {}
  BY TypesNotMapped
<1>2. Newest({}) = {}
  BY DEF Newest
<1> QED
  BY <1>1, <1>2, Zenon DEF IndicatorValue

\* What a task loads for a metric of the indicator job is None.
LEMMA LoadedNone ==
  ASSUME NEW task, task.metric \in TaskNames,
         NEW results, NEW asset,
         task.metric = "indicators" => \A x \in results[1] : x.type \in WrittenTypes,
         task.metric = "premium_discount_pct" => results[1] = None,
         NEW m \in IndicatorMetrics, m \in DOMAIN Loaded(task, results, asset)
  PROVE  Loaded(task, results, asset)[m] = None
<1>1. CASE task.metric = "indicators"
  <2>1. Loaded(task, results, asset) =
          [k \in IndicatorMetrics |-> IndicatorValue(results[1], asset, k)]
    BY <1>1 DEF Loaded
  <2> QED
    BY <1>1, <2>1, NothingIndicated
<1>2. CASE task.metric = "prices"
  <2>1. DOMAIN Loaded(task, results, asset) \subseteq {"price_change_24h_pct", "price_change_7d_pct"}
    BY <1>2 DEF Loaded
  <2> QED
    BY <2>1 DEF IndicatorMetrics
<1>3. CASE task.metric = "liquidations"
  <2>1. DOMAIN Loaded(task, results, asset) =
          {"liquidations_longs_24h_usd", "liquidations_shorts_24h_usd"}
    BY <1>3 DEF Loaded
  <2> QED
    BY <2>1 DEF IndicatorMetrics
<1>4. CASE task.metric \notin {"indicators", "prices", "liquidations"}
  <2>1. DOMAIN Loaded(task, results, asset) = {task.metric}
    BY <1>4 DEF Loaded
  <2>2. m = task.metric
    BY <2>1
  <2>3. task.metric = "premium_discount_pct"
    BY <1>4, <2>2 DEF IndicatorMetrics, TaskNames
  <2>4. Loaded(task, results, asset)[m] = results[1]
    BY <1>4, <2>2, <2>3 DEF Loaded, Value
  <2> QED
    BY <2>3, <2>4
<1> QED
  BY <1>1, <1>2, <1>3, <1>4

----------------------------------------------------------------------------
(* The rows of the indicator job in the database *)

\* Rows of indicators come from the indicator job alone.
WrittenByJob ==
  \A b \in DOMAIN Batches : \A x \in Batches[b] :
    x.table = "indicators" => \E markets, age : x \in IndicatorRows(markets, age)

\* The rows of indicators are those of the indicator job,
RowsOfJob(rows) == \A x \in rows : x.table = "indicators" => x.type \in WrittenTypes

\* The indicator rows of a transaction are those of the job,
LEMMA BatchRows ==
  ASSUME WrittenByJob, NEW b \in DOMAIN Batches
  PROVE  RowsOfJob(Batches[b])
BY IndicatorRowTypes DEF WrittenByJob, RowsOfJob

\* also when it has been committed,
LEMMA SavedRows ==
  ASSUME WrittenByJob, NEW b \in DOMAIN Batches, NEW rows, RowsOfJob(rows)
  PROVE  RowsOfJob(Saved(rows, Batches[b]))
BY BatchRows DEF Saved, RowsOfJob

\* and when several have.
LEMMA SavedAllRows ==
  ASSUME WrittenByJob, NEW B \in SUBSET DOMAIN Batches
  PROVE  RowsOfJob(SavedAll(B))
<1> SUFFICES ASSUME NEW x \in SavedAll(B)
             PROVE  x.table = "indicators" => x.type \in WrittenTypes
  BY DEF RowsOfJob
<1>1. PICK b \in B : x \in Batches[b]
  BY Zenon DEF SavedAll
<1> QED
  BY <1>1, BatchRows DEF RowsOfJob

\* What a statement of the two tasks that would set indicators returns.
LEMMA AnswersOfIndicators ==
  ASSUME NEW D, RowsOfJob(D), NEW task, NEW n, NEW answer \in Answers(task, n, D)
  PROVE  /\ task.metric = "indicators" => \A x \in answer : x.type \in WrittenTypes
         /\ task.metric = "premium_discount_pct" => answer = None
<1>1. CASE task.metric = "indicators"
  <2>1. answer \in LatestIndicators(D)
    BY <1>1 DEF Answers
  <2>2. answer = {x \in D : x.table = "indicators" /\ x.asset \in ToSet(Assets) /\ x.age \in Fresh}
    BY <2>1, Zenon DEF LatestIndicators
  <2>3. \A x \in answer : x.type \in WrittenTypes
    BY <2>2 DEF RowsOfJob
  <2> QED
    BY <1>1, <2>3
<1>2. CASE task.metric = "premium_discount_pct"
  <2>1. answer \in AveragePremium(D, task.asset)
    BY <1>2 DEF Answers
  <2>2. \A x \in Of(D, "indicators", task.asset) : x.type # "PREMIUM_DISCOUNT"
    BY TypesNotMapped DEF Of, RowsOfJob
  <2>3. {x \in Of(D, "indicators", task.asset) :
           x.type = "PREMIUM_DISCOUNT" /\ x.age \in Fresh} = {}
    BY <2>2
  <2>4. answer = None
    BY <2>1, <2>3, Zenon DEF AveragePremium
  <2> QED
    BY <1>2, <2>4
<1> QED
  BY <1>1, <1>2

----------------------------------------------------------------------------
(* The inductive invariant *)

\* The two tasks that would set indicators have one statement each: nothing is
\* left of them for a later statement.
Partial ==
  /\ position \in Nat \ {0}
  /\ got = <<>> \/ Tasks[position].metric \notin {"indicators", "premium_discount_pct"}

\* the snapshot has none of its metrics,
SnapshotInv ==
  \A a \in DOMAIN snapshot :
    /\ DOMAIN snapshot[a] = KnownMetrics
    /\ \A m \in IndicatorMetrics : snapshot[a][m] = None

\* no match of a pattern is about one
MatchesInv == \A match \in matches : MetricNames(match[1].conditions) \cap IndicatorMetrics = {}

\* and so it stays.
IndicatorsInv == RowsOfJob(db) /\ Partial /\ SnapshotInv /\ MatchesInv

\* An update with values that set no indicator sets no indicator.
LEMMA UpdatedNone ==
  ASSUME NEW values, DOMAIN values = KnownMetrics,
         \A m \in IndicatorMetrics : values[m] = None,
         NEW new, \A m \in IndicatorMetrics : m \in DOMAIN new => new[m] = None
  PROVE  /\ DOMAIN Updated(values, new) = KnownMetrics
         /\ \A m \in IndicatorMetrics : Updated(values, new)[m] = None
<1>1. IndicatorMetrics \subseteq KnownMetrics
  BY DEF KnownMetrics, AssetMetrics
<1> QED
  BY <1>1, Zenon DEF Updated

\* The invariant holds at first.
LEMMA IndicatorsInit == ASSUME WrittenByJob, Init PROVE IndicatorsInv
<1>1. RowsOfJob(db)
  BY SavedAllRows, Zenon DEF Init
<1>2. Partial /\ MatchesInv
  BY DEF Init, Partial, MatchesInv
<1>3. IndicatorMetrics \subseteq KnownMetrics
  BY DEF KnownMetrics, AssetMetrics
<1>4. SnapshotInv
  BY <1>3, Zenon DEF Init, SnapshotInv
<1> QED
  BY <1>1, <1>2, <1>4 DEF IndicatorsInv

\* A query keeps it.
LEMMA QueryIndicators == ASSUME IndicatorsInv, Query PROVE IndicatorsInv'
<1>1. PICK answer \in Answers(Tasks[position], Len(got) + 1, db) :
        IF Finished(Tasks[position], Append(got, answer))
        THEN /\ snapshot' = [a \in DOMAIN snapshot |->
                  IF Tasks[position].asset \in {a, "all"}
                  THEN Updated(snapshot[a], Loaded(Tasks[position], Append(got, answer), a))
                  ELSE snapshot[a]]
             /\ position' = Following(position)
             /\ got' = <<>>
        ELSE got' = Append(got, answer) /\ snapshot' = snapshot /\ position' = position
  BY Zenon DEF Query
<1>2. /\ Loading /\ UNCHANGED <<db, matches>>
      /\ position \in Nat \ {0} /\ position <= Len(Tasks)
  BY DEF Query, IndicatorsInv, Partial, Loading
<1>3. Tasks[position].metric \in TaskNames
  <2>1. Tasks[position] \in TaskSet
    BY <1>2, TasksType
  <2> QED
    BY <2>1 DEF TaskSet
<1>4. /\ Tasks[position].metric = "indicators" => \A x \in answer : x.type \in WrittenTypes
      /\ Tasks[position].metric = "premium_discount_pct" => answer = None
  <2>1. RowsOfJob(db)
    BY DEF IndicatorsInv
  <2> QED
    BY <1>1, <2>1, AnswersOfIndicators
<1>5. Tasks[position].metric \in {"indicators", "premium_discount_pct"} =>
        got = <<>> /\ Append(got, answer) = <<answer>>
  <2>1. Append(<<>>, answer) = <<answer>>
    OBVIOUS
  <2> QED
    BY <2>1, Zenon DEF IndicatorsInv, Partial
<1>6. Tasks[position].metric \in {"indicators", "premium_discount_pct"} =>
        Finished(Tasks[position], Append(got, answer))
  BY <1>5 DEF Finished, Statements
<1>7. RowsOfJob(db)' /\ MatchesInv'
  BY <1>2, Zenon DEF IndicatorsInv, RowsOfJob, MatchesInv
<1>8. CASE Finished(Tasks[position], Append(got, answer))
  <2>1. Partial'
    BY <1>1, <1>2, <1>8 DEF Partial, Following
  <2>2. ASSUME NEW a, NEW m \in IndicatorMetrics,
               m \in DOMAIN Loaded(Tasks[position], Append(got, answer), a)
        PROVE  Loaded(Tasks[position], Append(got, answer), a)[m] = None
    <3>1. Tasks[position].metric = "indicators" =>
            \A x \in Append(got, answer)[1] : x.type \in WrittenTypes
      BY <1>4, <1>5
    <3>2. Tasks[position].metric = "premium_discount_pct" => Append(got, answer)[1] = None
      BY <1>4, <1>5
    <3> QED
      BY <1>3, <2>2, <3>1, <3>2, LoadedNone, Zenon
  <2>3. ASSUME NEW a \in DOMAIN snapshot
        PROVE  /\ DOMAIN snapshot'[a] = KnownMetrics
               /\ \A m \in IndicatorMetrics : snapshot'[a][m] = None
    <3>1. /\ DOMAIN snapshot[a] = KnownMetrics
          /\ \A m \in IndicatorMetrics : snapshot[a][m] = None
      BY <2>3 DEF IndicatorsInv, SnapshotInv
    <3>2. CASE Tasks[position].asset \in {a, "all"}
      <4>1. snapshot'[a] =
              Updated(snapshot[a], Loaded(Tasks[position], Append(got, answer), a))
        BY <1>1, <1>8, <2>3, <3>2, Zenon
      <4>2. \A m \in IndicatorMetrics :
              m \in DOMAIN Loaded(Tasks[position], Append(got, answer), a) =>
                Loaded(Tasks[position], Append(got, answer), a)[m] = None
        BY <2>2, Zenon
      <4> DEFINE new == Loaded(Tasks[position], Append(got, answer), a)
      <4>3. /\ DOMAIN Updated(snapshot[a], new) = KnownMetrics
            /\ \A m \in IndicatorMetrics : Updated(snapshot[a], new)[m] = None
        <5>1. \A m \in IndicatorMetrics : m \in DOMAIN new => new[m] = None
          BY <4>2, Zenon
        <5> HIDE DEF new
        <5> QED
          BY <3>1, <5>1, UpdatedNone, Zenon
      <4> HIDE DEF new
      <4>4. snapshot'[a] = Updated(snapshot[a], new)
        BY <4>1 DEF new
      <4> QED
        BY <4>3, <4>4, Zenon
    <3>3. CASE Tasks[position].asset \notin {a, "all"}
      <4>1. snapshot'[a] = snapshot[a]
        BY <1>1, <1>8, <2>3, <3>3, Zenon
      <4> QED
        BY <3>1, <4>1, Zenon
    <3> QED
      BY <3>2, <3>3
  <2>4. DOMAIN snapshot' = DOMAIN snapshot
    BY <1>1, <1>8, Zenon
  <2>5. SnapshotInv'
    BY <2>3, <2>4, Zenon DEF SnapshotInv
  <2> QED
    BY <1>7, <2>1, <2>5 DEF IndicatorsInv
<1>9. CASE ~Finished(Tasks[position], Append(got, answer))
  <2>1. snapshot' = snapshot /\ position' = position
    BY <1>1, <1>9, Zenon
  <2>2. SnapshotInv'
    BY <2>1, Zenon DEF IndicatorsInv, SnapshotInv
  <2>3. Partial'
    BY <1>2, <1>6, <1>9, <2>1 DEF Partial
  <2> QED
    BY <1>7, <2>2, <2>3 DEF IndicatorsInv
<1> QED
  BY <1>8, <1>9

\* A pattern matches only where all its metrics have a value.
LEMMA EvaluateIndicators == ASSUME IndicatorsInv, Evaluate PROVE IndicatorsInv'
<1>1. /\ matches' = EvaluatePatterns(snapshot)
      /\ UNCHANGED <<db, position, got, snapshot>>
  BY DEF Evaluate
<1>2. ASSUME NEW match \in EvaluatePatterns(snapshot)
      PROVE  MetricNames(match[1].conditions) \cap IndicatorMetrics = {}
  <2>1. match[2] \in DOMAIN snapshot /\ PatternMatches(match[1], match[2], snapshot[match[2]])
    BY <1>2 DEF EvaluatePatterns
  <2>2. \A m \in MetricNames(match[1].conditions) : snapshot[match[2]][m] # None
    BY <2>1, Zenon DEF PatternMatches, Resolved
  <2>3. \A m \in IndicatorMetrics : snapshot[match[2]][m] = None
    BY <2>1, Zenon DEF IndicatorsInv, SnapshotInv
  <2> QED
    BY <2>2, <2>3, Zenon
<1>3. MatchesInv'
  BY <1>1, <1>2, Zenon DEF MatchesInv
<1>4. RowsOfJob(db)' /\ SnapshotInv' /\ Partial'
  BY <1>1, Zenon DEF IndicatorsInv, RowsOfJob, SnapshotInv, Partial
<1> QED
  BY <1>3, <1>4 DEF IndicatorsInv

\* So do failing statements and commits of other jobs.
LEMMA OtherIndicators ==
  ASSUME WrittenByJob, IndicatorsInv,
         DirectFails \/ DerivedFails \/ (\E b \in DOMAIN Batches : Commit(b)) \/ UNCHANGED vars
  PROVE  IndicatorsInv'
<1>1. UNCHANGED <<snapshot, matches>>
  BY DEF DirectFails, DerivedFails, Commit, vars
<1>2. SnapshotInv' /\ MatchesInv'
  BY <1>1, Zenon DEF IndicatorsInv, SnapshotInv, MatchesInv
<1>3. CASE DirectFails \/ UNCHANGED vars
  BY <1>2, <1>3 DEF DirectFails, vars, IndicatorsInv, RowsOfJob, Partial
<1>4. CASE DerivedFails
  <2>1. position \in Nat \ {0} /\ Len(Tasks) + 1 \in Nat \ {0}
    BY TasksType DEF IndicatorsInv, Partial
  <2>2. Following(position) \in Nat \ {0}
    BY <2>1 DEF Following
  <2>3. position' \in Nat \ {0} /\ got' = <<>> /\ db' = db
    BY <1>4, <2>1, <2>2, Zenon DEF DerivedFails
  <2> QED
    BY <1>2, <2>3 DEF IndicatorsInv, RowsOfJob, Partial
<1>5. CASE \E b \in DOMAIN Batches : Commit(b)
  <2>1. PICK b \in DOMAIN Batches : Commit(b)
    BY <1>5
  <2>2. RowsOfJob(Saved(db, Batches[b]))
    BY SavedRows, Zenon DEF IndicatorsInv
  <2>3. db' = Saved(db, Batches[b]) /\ position' = position /\ got' = got
    BY <2>1 DEF Commit
  <2>4. RowsOfJob(db)'
    BY <2>2, <2>3, Zenon DEF RowsOfJob
  <2>5. Partial'
    BY <2>3, Zenon DEF IndicatorsInv, Partial
  <2> QED
    BY <1>2, <2>4, <2>5 DEF IndicatorsInv
<1> QED
  BY <1>3, <1>4, <1>5

\* What the indicator job writes the snapshot never finds, for it looks for
\* other types: no pattern that mentions an indicator ever matches.
IndicatorsNeverLoaded ==
  /\ \A a \in DOMAIN snapshot, m \in IndicatorMetrics : snapshot[a][m] = None
  /\ \A match \in matches : MetricNames(match[1].conditions) \cap IndicatorMetrics = {}

\* IndicatorsNeverLoaded, whatever the assets, the patterns and the rows of the
\* other jobs are: patterns/snapshot.py looks indicators up by types that the
\* indicator job does not write.
THEOREM IndicatorsAreNeverLoaded ==
  ASSUME WrittenByJob
  PROVE  Spec => []IndicatorsNeverLoaded
<1>1. Init => IndicatorsInv
  BY IndicatorsInit
<1>2. IndicatorsInv /\ [Next]_vars => IndicatorsInv'
  BY QueryIndicators, EvaluateIndicators, OtherIndicators, Zenon DEF Next
<1>3. IndicatorsInv => IndicatorsNeverLoaded
  BY Zenon DEF IndicatorsInv, SnapshotInv, MatchesInv, IndicatorsNeverLoaded
<1> QED
  BY <1>1, <1>2, <1>3, PTL DEF Spec

----------------------------------------------------------------------------
(* The conditions of patterns *)

\* The nodes of a group.
Below(node) == IF IsGroup(node) THEN NodesOf(node) ELSE {}

\* Nodes under a node are nodes, nested less deep.
LEMMA BelowLower ==
  ASSUME NEW node \in Nodes, NEW n \in Below(node)
  PROVE  n \in Nodes /\ Height[n] \in Nat /\ Height[node] \in Nat /\ Height[n] < Height[node]
<1>1. IsGroup(node) /\ n \in NodesOf(node)
  BY Zenon DEF Below
<1>2. n \in Nodes /\ Height[n] < Height[node]
  BY <1>1, NodesAssumption, HeightAssumption, Zenon
<1>3. Cardinality(Nodes) \in Nat
  BY HeightAssumption, FS_CardinalityType
<1>4. \A k \in 0..Cardinality(Nodes) : k \in Nat
  BY <1>3
<1>5. Height[n] \in Nat /\ Height[node] \in Nat
  BY <1>2, <1>4, HeightAssumption, Zenon
<1> QED
  BY <1>2, <1>5

\* A property that passes from the nodes below a node to the node holds of all.
\* The set of the nodes without it is given.
LEMMA NodesInduction ==
  ASSUME NEW Bad \in SUBSET Nodes,
         \A node \in Bad : \E n \in Below(node) : n \in Bad
  PROVE  Bad = {}
<1> SUFFICES ASSUME Bad # {} PROVE FALSE
  OBVIOUS
<1> DEFINE Heights == {Height[node] : node \in Bad}
<1>1. \A node \in Nodes : Height[node] \in Nat
  <2>1. Cardinality(Nodes) \in Nat
    BY HeightAssumption, FS_CardinalityType
  <2>2. \A k \in 0..Cardinality(Nodes) : k \in Nat
    BY <2>1
  <2> QED
    BY <2>2, HeightAssumption, Zenon
<1>2. Heights \in SUBSET Nat /\ Heights # {}
  BY <1>1, Zenon
<1>3. PICK h \in Heights : \A k \in Heights : h <= k
  <2> HIDE DEF Heights
  <2> QED
    BY <1>2, LeastExists
<1>4. PICK node \in Bad : h = Height[node]
  BY <1>3, Zenon
<1>5. PICK n \in Below(node) : n \in Bad
  BY Zenon
<1>6. Height[n] \in Heights
  BY <1>5, Zenon
<1>7. Height[n] < Height[node] /\ Height[n] \in Nat /\ Height[node] \in Nat
  BY BelowLower, Zenon
<1>8. Height[node] <= Height[n]
  BY <1>3, <1>4, <1>6, Zenon
<1> QED
  BY <1>7, <1>8

\* B gives a value of a node from values g of all nodes, and looks only at those
\* of the nodes below.
LooksBelow(B, V) ==
  \A node \in Nodes, g \in [Nodes -> V] :
    /\ B[<<node, g>>] \in V
    /\ \A h \in [Nodes -> V] :
         (\A n \in Below(node) : g[n] = h[n]) => B[<<node, g>>] = B[<<node, h>>]

\* A function gives every node the value that B gives it from those below.
DefinesFunction(B, V) ==
  \E F \in [Nodes -> V] : \A node \in Nodes : F[node] = B[<<node, F>>]

\* Such values define a function over the nodes.
LEMMA NodesRecursion ==
  ASSUME NEW V, V # {}, NEW B, LooksBelow(B, V)
  PROVE  DefinesFunction(B, V)
<1> DEFINE Solves(F, m) == \A node \in Nodes : Height[node] < m => F[node] = B[<<node, F>>]
           P(m) == \E F \in [Nodes -> V] : Solves(F, m)
           Bad == {m \in Nat : ~P(m)}
<1>1. Cardinality(Nodes) \in Nat /\ \A node \in Nodes : Height[node] \in 0..Cardinality(Nodes)
  BY HeightAssumption, FS_CardinalityType
<1>2. P(0)
  <2> PICK v \in V : TRUE
    OBVIOUS
  <2> DEFINE F == [node \in Nodes |-> v]
  <2>1. F \in [Nodes -> V]
    OBVIOUS
  <2>2. \A node \in Nodes : ~(Height[node] < 0)
    BY <1>1
  <2> HIDE DEF F
  <2>3. Solves(F, 0)
    BY <2>2, Zenon
  <2> QED
    BY <2>1, <2>3, Zenon
<1>3. ASSUME NEW m \in Nat, P(m) PROVE P(m + 1)
  <2>1. PICK F \in [Nodes -> V] : Solves(F, m)
    BY <1>3, Zenon
  <2> DEFINE G == [node \in Nodes |-> B[<<node, F>>]]
  <2>2. G \in [Nodes -> V] /\ \A node \in Nodes : G[node] = B[<<node, F>>]
    BY Zenon DEF LooksBelow
  <2> HIDE DEF G
  <2>3. ASSUME NEW node \in Nodes, Height[node] < m + 1
        PROVE  G[node] = B[<<node, G>>]
    <3>1. ASSUME NEW n \in Below(node) PROVE F[n] = G[n]
      <4>1. n \in Nodes /\ Height[n] < m
        <5>1. n \in Nodes /\ Height[n] \in Nat /\ Height[node] \in Nat /\ Height[n] < Height[node]
          BY BelowLower, Zenon
        <5> QED
          BY <2>3, <5>1
      <4> QED
        BY <2>1, <2>2, <4>1, Zenon
    <3>2. B[<<node, F>>] = B[<<node, G>>]
      BY <2>2, <3>1, Zenon DEF LooksBelow
    <3> QED
      BY <2>2, <3>2, Zenon
  <2> QED
    BY <2>2, <2>3, Zenon
<1>4. Bad = {}
  <2> SUFFICES ASSUME Bad # {} PROVE FALSE
    OBVIOUS
  <2>1. PICK m \in Bad : \A k \in Bad : m <= k
    <3>1. Bad \in SUBSET Nat
      OBVIOUS
    <3> HIDE DEF Bad
    <3> QED
      BY <3>1, LeastExists
  <2>2. m \in Nat /\ ~P(m)
    BY <2>1, Zenon
  <2>3. m # 0
    <3> HIDE DEF P
    <3> QED
      BY <1>2, <2>2, Zenon
  <2>4. m - 1 \in Nat /\ m - 1 \notin Bad
    <3> HIDE DEF Bad
    <3> QED
      BY <2>1, <2>2, <2>3
  <2>5. P(m - 1)
    BY <2>4, Zenon
  <2>6. P((m - 1) + 1)
    <3> HIDE DEF P
    <3> QED
      BY <1>3, <2>4, <2>5
  <2>7. (m - 1) + 1 = m
    BY <2>2
  <2> HIDE DEF P
  <2> QED
    BY <2>2, <2>6, <2>7
<1>5. P(Cardinality(Nodes) + 1)
  <2>1. Cardinality(Nodes) + 1 \in Nat /\ Cardinality(Nodes) + 1 \notin Bad
    BY <1>1, <1>4
  <2> HIDE DEF P
  <2> QED
    BY <2>1, Zenon
<1>6. PICK F \in [Nodes -> V] : Solves(F, Cardinality(Nodes) + 1)
  BY <1>5, Zenon
<1>7. \A node \in Nodes : Height[node] < Cardinality(Nodes) + 1
  BY <1>1
<1> QED
  BY <1>6, <1>7, Zenon DEF DefinesFunction

----------------------------------------------------------------------------
(* The three recursive functions *)

\* The conditions of a node, from those of its nodes.
ConditionsAt(g, node) ==
  IF IsGroup(node) THEN UNION {g[n] : n \in NodesOf(node)} ELSE {node}

\* The conditions of a group are those of its nodes.
LEMMA ConditionsOfNodes ==
  \A node \in Nodes : ConditionsOf[node] = ConditionsAt(ConditionsOf, node)
<1>1. PICK V : V = SUBSET Nodes
  OBVIOUS
<1>2. PICK B : \A nd \in Nodes, g \in [Nodes -> V] : B[<<nd, g>>] = ConditionsAt(g, nd)
  <2> DEFINE b == [p \in Nodes \X [Nodes -> V] |-> ConditionsAt(p[2], p[1])]
  <2>1. \A nd \in Nodes, g \in [Nodes -> V] : b[<<nd, g>>] = ConditionsAt(g, nd)
    OBVIOUS
  <2> QED
    BY <2>1, Zenon
<1>3. LooksBelow(B, V)
  <2> SUFFICES ASSUME NEW nd \in Nodes, NEW g \in [Nodes -> V]
               PROVE  /\ B[<<nd, g>>] \in V
                      /\ \A h \in [Nodes -> V] :
                           (\A n \in Below(nd) : g[n] = h[n]) => B[<<nd, g>>] = B[<<nd, h>>]
    BY Zenon DEF LooksBelow
  <2>1. ConditionsAt(g, nd) \in V
    BY <1>1, NodesAssumption DEF ConditionsAt
  <2>2. ASSUME NEW h \in [Nodes -> V], \A n \in Below(nd) : g[n] = h[n]
        PROVE  ConditionsAt(g, nd) = ConditionsAt(h, nd)
    BY <2>2 DEF Below, ConditionsAt
  <2> QED
    BY <1>2, <2>1, <2>2, Zenon
<1>4. PICK F \in [Nodes -> V] : \A nd \in Nodes : F[nd] = B[<<nd, F>>]
  <2>1. V # {}
    BY <1>1
  <2>2. DefinesFunction(B, V)
    BY <1>3, <2>1, NodesRecursion, Zenon
  <2> QED
    BY <2>2, Zenon DEF DefinesFunction
<1> DEFINE eq(g) == [nd \in Nodes |-> ConditionsAt(g, nd)]
<1>5. F = eq(F)
  BY <1>2, <1>4, Zenon
<1>6. ConditionsOf = CHOOSE g : g = eq(g)
  BY Zenon DEF ConditionsOf, ConditionsAt
<1>7. ConditionsOf = eq(ConditionsOf)
  BY <1>5, <1>6, Zenon
<1> QED
  BY <1>7, Zenon

\* Whether a node holds, from whether its nodes do.
HoldsAt(g, node, asset, values) ==
  IF ~IsGroup(node) THEN ConditionHolds(node, asset, values)
  ELSE IF node.op = "all" THEN \A n \in NodesOf(node) : g[n]
  ELSE \E n \in NodesOf(node) : g[n]

\* F tells of all nodes whether they hold.
TellsHolds(F, asset, values) ==
  /\ F \in [Nodes -> BOOLEAN]
  /\ \A node \in Nodes : F[node] = HoldsAt(F, node, asset, values)
  /\ \A node \in Nodes : GroupHolds(node, asset, values) = F[node]

\* Whether a group holds depends on which of its nodes do.
LEMMA GroupHoldsNodes ==
  ASSUME NEW asset, NEW values
  PROVE  \E F : TellsHolds(F, asset, values)
<1>1. PICK V : V = BOOLEAN
  OBVIOUS
<1>2. PICK B : \A nd \in Nodes, g \in [Nodes -> V] : B[<<nd, g>>] = HoldsAt(g, nd, asset, values)
  <2> DEFINE b == [p \in Nodes \X [Nodes -> V] |-> HoldsAt(p[2], p[1], asset, values)]
  <2>1. \A nd \in Nodes, g \in [Nodes -> V] : b[<<nd, g>>] = HoldsAt(g, nd, asset, values)
    OBVIOUS
  <2> QED
    BY <2>1, Zenon
<1>3. LooksBelow(B, V)
  <2> SUFFICES ASSUME NEW nd \in Nodes, NEW g \in [Nodes -> V]
               PROVE  /\ B[<<nd, g>>] \in V
                      /\ \A h \in [Nodes -> V] :
                           (\A n \in Below(nd) : g[n] = h[n]) => B[<<nd, g>>] = B[<<nd, h>>]
    BY Zenon DEF LooksBelow
  <2>1. HoldsAt(g, nd, asset, values) \in V
    BY <1>1, NodesAssumption DEF HoldsAt, ConditionHolds
  <2>2. ASSUME NEW h \in [Nodes -> V], \A n \in Below(nd) : g[n] = h[n]
        PROVE  HoldsAt(g, nd, asset, values) = HoldsAt(h, nd, asset, values)
    BY <2>2, Zenon DEF Below, HoldsAt
  <2> QED
    BY <1>2, <2>1, <2>2, Zenon
<1>4. PICK F \in [Nodes -> V] : \A nd \in Nodes : F[nd] = B[<<nd, F>>]
  <2>1. V # {}
    BY <1>1
  <2>2. DefinesFunction(B, V)
    BY <1>3, <2>1, NodesRecursion, Zenon
  <2> QED
    BY <2>2, Zenon DEF DefinesFunction
<1> DEFINE eq(g) == [nd \in Nodes |-> HoldsAt(g, nd, asset, values)]
<1>5. F = eq(F)
  BY <1>2, <1>4, Zenon
<1> DEFINE C == CHOOSE g : g = eq(g)
<1>6. C = eq(C)
  BY <1>5, Zenon
<1>7. \A group \in Nodes : GroupHolds(group, asset, values) = C[group]
  BY Zenon DEF GroupHolds, HoldsAt
<1> HIDE DEF C
<1>8. \A nd \in Nodes : C[nd] = HoldsAt(C, nd, asset, values)
  BY <1>6, Zenon
<1>9. C \in [Nodes -> BOOLEAN]
  <2>1. \A nd \in Nodes : C[nd] \in BOOLEAN
    BY <1>8, Zenon DEF HoldsAt, ConditionHolds
  <2> QED
    BY <1>6, <2>1, Zenon
<1> QED
  BY <1>7, <1>8, <1>9, Zenon DEF TellsHolds

\* What a node says in Kleene's logic, from what its nodes say.
SaysAt(g, node, asset, values) ==
  IF ~IsGroup(node)
  THEN IF values[node.metric] = None THEN "unknown"
       ELSE Truth(ConditionHolds(node, asset, values))
  ELSE LET truths == {g[n] : n \in NodesOf(node)}
           decisive == Truth(node.op = "any")
       IN  IF decisive \in truths THEN decisive
           ELSE IF "unknown" \in truths THEN "unknown"
           ELSE Truth(node.op = "all")

\* F tells of all nodes what they say.
TellsSays(F, asset, values) ==
  /\ \A node \in Nodes : F[node] = SaysAt(F, node, asset, values)
  /\ \A node \in Nodes : Kleene(node, asset, values) = F[node]

\* What a group says in Kleene's logic depends on what its nodes say.
LEMMA KleeneNodes ==
  ASSUME NEW asset, NEW values
  PROVE  \E F : TellsSays(F, asset, values)
<1>1. PICK V : V = {"true", "false", "unknown"}
  OBVIOUS
<1>2. PICK B : \A nd \in Nodes, g \in [Nodes -> V] : B[<<nd, g>>] = SaysAt(g, nd, asset, values)
  <2> DEFINE b == [p \in Nodes \X [Nodes -> V] |-> SaysAt(p[2], p[1], asset, values)]
  <2>1. \A nd \in Nodes, g \in [Nodes -> V] : b[<<nd, g>>] = SaysAt(g, nd, asset, values)
    OBVIOUS
  <2> QED
    BY <2>1, Zenon
<1>3. LooksBelow(B, V)
  <2> SUFFICES ASSUME NEW nd \in Nodes, NEW g \in [Nodes -> V]
               PROVE  /\ B[<<nd, g>>] \in V
                      /\ \A h \in [Nodes -> V] :
                           (\A n \in Below(nd) : g[n] = h[n]) => B[<<nd, g>>] = B[<<nd, h>>]
    BY Zenon DEF LooksBelow
  <2>1. SaysAt(g, nd, asset, values) \in V
    BY <1>1, NodesAssumption DEF SaysAt, Truth
  <2>2. ASSUME NEW h \in [Nodes -> V], \A n \in Below(nd) : g[n] = h[n]
        PROVE  SaysAt(g, nd, asset, values) = SaysAt(h, nd, asset, values)
    BY <2>2 DEF Below, SaysAt
  <2> QED
    BY <1>2, <2>1, <2>2, Zenon
<1>4. PICK F \in [Nodes -> V] : \A nd \in Nodes : F[nd] = B[<<nd, F>>]
  <2>1. V # {}
    BY <1>1
  <2>2. DefinesFunction(B, V)
    BY <1>3, <2>1, NodesRecursion, Zenon
  <2> QED
    BY <2>2, Zenon DEF DefinesFunction
<1> DEFINE eq(g) == [nd \in Nodes |-> SaysAt(g, nd, asset, values)]
<1>5. F = eq(F)
  BY <1>2, <1>4, Zenon
<1> DEFINE C == CHOOSE g : g = eq(g)
<1>6. C = eq(C)
  BY <1>5, Zenon
<1>7. \A group \in Nodes : Kleene(group, asset, values) = C[group]
  BY Zenon DEF Kleene, SaysAt
<1> HIDE DEF C
<1>8. \A nd \in Nodes : C[nd] = SaysAt(C, nd, asset, values)
  BY <1>6, Zenon
<1> QED
  BY <1>7, <1>8, Zenon DEF TellsSays

\* A condition mentions its metric, a group those of its nodes.
LEMMA MetricNamesNodes ==
  ASSUME NEW node \in Nodes
  PROVE  /\ ~IsGroup(node) => MetricNames(node) = {node.metric}
         /\ \A n \in Below(node) : MetricNames(n) \subseteq MetricNames(node)
<1>1. ConditionsOf[node] = ConditionsAt(ConditionsOf, node)
  BY ConditionsOfNodes, Zenon
<1>2. ~IsGroup(node) => ConditionsOf[node] = {node}
  BY <1>1, Zenon DEF ConditionsAt
<1>3. IsGroup(node) =>
        ConditionsOf[node] = UNION {ConditionsOf[n] : n \in NodesOf(node)}
  BY <1>1, Zenon DEF ConditionsAt
<1>4. ASSUME NEW n \in Below(node) PROVE ConditionsOf[n] \subseteq ConditionsOf[node]
  <2>1. IsGroup(node) /\ n \in NodesOf(node)
    BY Zenon DEF Below
  <2> QED
    BY <1>3, <2>1, Zenon
<1>5. \A n \in Below(node) : MetricNames(n) \subseteq MetricNames(node)
  BY <1>4, Zenon DEF MetricNames
<1> QED
  BY <1>2, <1>5, Zenon DEF MetricNames

\* Where all metrics that a group mentions have values, Kleene's logic says of it
\* what _evaluate_condition_group does.
THEOREM KleeneAgrees ==
  ASSUME NEW asset, NEW values, NEW others, NEW group \in Nodes,
         \A m \in MetricNames(group) : values[m] # None /\ others[m] = values[m]
  PROVE  Kleene(group, asset, others) = Truth(GroupHolds(group, asset, values))
<1>1. PICK F : TellsHolds(F, asset, values)
  BY GroupHoldsNodes, Zenon
<1>2. PICK G : TellsSays(G, asset, others)
  BY KleeneNodes, Zenon
<1> DEFINE Known(node) ==
             \A m \in MetricNames(node) : values[m] # None /\ others[m] = values[m]
           Bad == {node \in Nodes : Known(node) /\ G[node] # Truth(F[node])}
<1>3. ASSUME NEW node \in Bad PROVE \E n \in Below(node) : n \in Bad
  <2>1. node \in Nodes /\ Known(node) /\ G[node] # Truth(F[node])
    BY Zenon
  <2>2. F[node] \in BOOLEAN
    BY <1>1, <2>1, Zenon DEF TellsHolds
  <2>3. F[node] = HoldsAt(F, node, asset, values) /\ G[node] = SaysAt(G, node, asset, others)
    BY <1>1, <1>2, <2>1, Zenon DEF TellsHolds, TellsSays
  <2>4. CASE ~IsGroup(node)
    <3>1. values[node.metric] # None /\ others[node.metric] = values[node.metric]
      BY <2>1, <2>4, MetricNamesNodes, Zenon
    <3>2. F[node] = ConditionHolds(node, asset, values)
      BY <2>3, <2>4, Zenon DEF HoldsAt
    <3>3. G[node] = Truth(ConditionHolds(node, asset, others))
      BY <2>3, <2>4, <3>1, Zenon DEF SaysAt
    <3>4. ConditionHolds(node, asset, others) = ConditionHolds(node, asset, values)
      BY <3>1, Zenon DEF ConditionHolds
    <3> QED
      BY <2>1, <3>2, <3>3, <3>4, Zenon
  <2>5. CASE IsGroup(node)
    <3>1. SUFFICES ASSUME \A n \in Below(node) : n \notin Bad PROVE FALSE
      BY Zenon
    <3>2. Below(node) = NodesOf(node) /\ NodesOf(node) \subseteq Nodes /\ node.op \in {"all", "any"}
      BY <2>1, <2>5, NodesAssumption, Zenon DEF Below
    <3>3. \A n \in NodesOf(node) : G[n] = Truth(F[n]) /\ F[n] \in BOOLEAN
      <4> TAKE n \in NodesOf(node)
      <4>1. n \in Nodes /\ n \in Below(node)
        BY <3>2, Zenon
      <4>2. MetricNames(n) \subseteq MetricNames(node)
        BY <2>1, <4>1, MetricNamesNodes, Zenon
      <4>3. Known(n)
        BY <2>1, <4>2, Zenon
      <4> QED
        BY <1>1, <3>1, <4>1, <4>3, Zenon DEF TellsHolds
    <3> DEFINE truths == {G[n] : n \in NodesOf(node)}
    <3>4. "unknown" \notin truths
      BY <3>3 DEF Truth
    <3>5. CASE node.op = "all"
      <4>1. G[node] = IF "false" \in truths THEN "false"
                      ELSE IF "unknown" \in truths THEN "unknown" ELSE "true"
        BY <2>3, <2>5, <3>5 DEF SaysAt, Truth
      <4>2. F[node] = \A n \in NodesOf(node) : F[n]
        BY <2>3, <2>5, <3>5, Zenon DEF HoldsAt
      <4>3. "false" \in truths <=> ~F[node]
        BY <3>3, <4>2 DEF Truth
      <4> HIDE DEF truths
      <4> QED
        BY <2>1, <2>2, <3>4, <4>1, <4>3 DEF Truth
    <3>6. CASE node.op = "any"
      <4>1. G[node] = IF "true" \in truths THEN "true"
                      ELSE IF "unknown" \in truths THEN "unknown" ELSE "false"
        BY <2>3, <2>5, <3>6 DEF SaysAt, Truth
      <4>2. F[node] = \E n \in NodesOf(node) : F[n]
        BY <2>3, <2>5, <3>6, Zenon DEF HoldsAt
      <4>3. "true" \in truths <=> F[node]
        BY <3>3, <4>2 DEF Truth
      <4> HIDE DEF truths
      <4> QED
        BY <2>1, <2>2, <3>4, <4>1, <4>3 DEF Truth
    <3> QED
      BY <3>2, <3>5, <3>6
  <2> QED
    BY <2>4, <2>5
<1>4. Bad \in SUBSET Nodes
  OBVIOUS
<1>5. Bad = {}
  <2> HIDE DEF Bad
  <2> QED
    BY <1>3, <1>4, NodesInduction, Zenon
<1>6. G[group] = Truth(F[group])
  BY <1>5, Zenon
<1> QED
  BY <1>1, <1>2, <1>6, Zenon DEF TellsHolds, TellsSays

----------------------------------------------------------------------------
(* The rows of recent_etf_flows *)

\* The orders of the first n rows, from those of one row less.
OrdersAt(F, n, flows) ==
  IF n = 0 THEN {<<>>} ELSE UNION {WithNext(s, flows) : s \in F[n - 1]}

\* Orders of the first rows, up to every number of them,
LEMMA OrdersUpTo ==
  ASSUME NEW flows, NEW N \in Nat
  PROVE  \E F : F = [n \in 0..N |-> OrdersAt(F, n, flows)]
<1> DEFINE Solves(F, m) == F = [n \in 0..m |-> OrdersAt(F, n, flows)]
           P(m) == \E F : Solves(F, m)
           Bad == {m \in Nat : ~P(m)}
<1>1. P(0)
  <2> DEFINE F == [n \in 0..0 |-> {<<>>}]
  <2>1. \A n \in 0..0 : n = 0
    OBVIOUS
  <2>2. \A n \in 0..0 : OrdersAt(F, n, flows) = {<<>>}
    BY <2>1, Zenon DEF OrdersAt
  <2>3. Solves(F, 0)
    BY <2>2, Zenon
  <2> QED
    BY <2>3, Zenon
<1>2. ASSUME NEW m \in Nat, P(m) PROVE P(m + 1)
  <2>1. PICK F : Solves(F, m)
    BY <1>2, Zenon
  <2> DEFINE G == [n \in 0..(m + 1) |-> OrdersAt(F, n, flows)]
  <2>2. \A n \in 0..(m + 1) : n # 0 => n - 1 \in 0..m /\ n - 1 \in 0..(m + 1)
    OBVIOUS
  <2>3. \A n \in 0..m : F[n] = OrdersAt(F, n, flows)
    BY <2>1, Zenon
  <2>4. \A n \in 0..(m + 1) : G[n] = OrdersAt(F, n, flows)
    BY Zenon
  <2>5. DOMAIN G = 0..(m + 1)
    OBVIOUS
  <2> HIDE DEF G
  <2>6. \A n \in 0..(m + 1) : OrdersAt(F, n, flows) = OrdersAt(G, n, flows)
    <3> TAKE n \in 0..(m + 1)
    <3>1. CASE n = 0
      BY <3>1, Zenon DEF OrdersAt
    <3>2. CASE n # 0
      <4>1. F[n - 1] = G[n - 1]
        BY <2>2, <2>3, <2>4, <3>2, Zenon
      <4> QED
        BY <4>1, Zenon DEF OrdersAt
    <3> QED
      BY <3>1, <3>2
  <2>7. Solves(G, m + 1)
    BY <2>6, Zenon DEF G
  <2> QED
    BY <2>7, Zenon
<1>3. Bad = {}
  <2> SUFFICES ASSUME Bad # {} PROVE FALSE
    OBVIOUS
  <2>1. PICK m \in Bad : \A k \in Bad : m <= k
    <3>1. Bad \in SUBSET Nat
      OBVIOUS
    <3> HIDE DEF Bad
    <3> QED
      BY <3>1, LeastExists
  <2>2. m \in Nat /\ ~P(m)
    BY <2>1, Zenon
  <2>3. m # 0
    <3> HIDE DEF P
    <3> QED
      BY <1>1, <2>2, Zenon
  <2>4. m - 1 \in Nat /\ m - 1 \notin Bad
    <3> HIDE DEF Bad
    <3> QED
      BY <2>1, <2>2, <2>3
  <2>5. P(m - 1)
    BY <2>4, Zenon
  <2>6. P((m - 1) + 1)
    <3> HIDE DEF P
    <3> QED
      BY <1>2, <2>4, <2>5
  <2>7. (m - 1) + 1 = m
    BY <2>2
  <2> HIDE DEF P
  <2> QED
    BY <2>2, <2>6, <2>7
<1>4. P(N)
  <2>1. N \notin Bad
    BY <1>3, Zenon
  <2> QED
    BY <2>1, Zenon
<1> QED
  BY <1>4, Zenon

\* s lists n rows of flows, or all of them, each row once and after all the rows
\* of newer days.
Lists(s, n, flows) ==
  /\ s \in Seq(flows) /\ Len(s) \in Nat /\ Len(s) <= n
  /\ Len(s) < n => \A x \in flows : \E i \in 1..Len(s) : s[i] = x
  /\ \A i, j \in 1..Len(s) : s[i] = s[j] => i = j
  /\ \A i \in 1..Len(s), y \in flows :
       y.day < s[i].day => \E j \in 1..Len(s) : j < i /\ s[j] = y

\* One more row is listed.
LEMMA ListsNext ==
  ASSUME NEW flows, \A x \in flows : x.day \in Int,
         NEW n \in Nat, NEW s, Lists(s, n, flows), NEW t \in WithNext(s, flows)
  PROVE  Lists(t, n + 1, flows)
<1> DEFINE rest == flows \ ToSet(s)
<1>1. ToSet(s) = {s[i] : i \in 1..Len(s)}
  BY DEF ToSet, Lists
<1>2. s \in Seq(flows) /\ Len(s) \in Nat
  BY DEF Lists
<1>3. CASE rest = {}
  <2>1. t = s
    BY <1>3, Zenon DEF WithNext
  <2>2. \A x \in flows : \E i \in 1..Len(s) : s[i] = x
    BY <1>1, <1>3, Zenon
  <2>3. Len(s) <= n + 1
    BY DEF Lists
  <2>4. Lists(s, n + 1, flows)
    BY <2>2, <2>3, Zenon DEF Lists
  <2> QED
    BY <2>1, <2>4, Zenon
<1>4. CASE rest # {}
  <2>1. PICK x \in LastDay(rest) : t = Append(s, x)
    BY <1>4, Zenon DEF WithNext
  <2>2. x \in flows /\ (\A i \in 1..Len(s) : s[i] # x) /\ \A y \in rest : x.day <= y.day
    BY <1>1, <2>1, Zenon DEF LastDay
  <2>3. /\ t \in Seq(flows) /\ Len(t) = Len(s) + 1 /\ t[Len(t)] = x
        /\ \A i \in 1..Len(s) : t[i] = s[i]
    BY <1>2, <2>1, <2>2
  <2>4. Len(s) = n
    <3>1. Len(s) < n => rest = {}
      <4>1. Len(s) < n => \A y \in flows : \E i \in 1..Len(s) : s[i] = y
        BY Zenon DEF Lists
      <4> QED
        BY <1>1, <4>1, Zenon
    <3>2. ~(Len(s) < n)
      BY <1>4, <3>1, Zenon
    <3> HIDE DEF rest
    <3> QED
      BY <1>2, <3>2 DEF Lists
  <2>5. \A i \in 1..Len(t) : i \in 1..Len(s) \/ i = Len(t)
    BY <1>2, <2>3
  <2>6. ASSUME NEW i \in 1..Len(t), NEW j \in 1..Len(t), t[i] = t[j] PROVE i = j
    <3>1. CASE i \in 1..Len(s) /\ j \in 1..Len(s)
      BY <2>3, <2>6, <3>1, Zenon DEF Lists
    <3>2. CASE i \in 1..Len(s) /\ j = Len(t)
      BY <2>2, <2>3, <2>6, <3>2, Zenon
    <3>3. CASE i = Len(t) /\ j \in 1..Len(s)
      BY <2>2, <2>3, <2>6, <3>3, Zenon
    <3> QED
      BY <2>5, <3>1, <3>2, <3>3, Zenon
  <2>7. ASSUME NEW i \in 1..Len(t), NEW y \in flows, y.day < t[i].day
        PROVE  \E j \in 1..Len(t) : j < i /\ t[j] = y
    <3>1. \A j \in 1..Len(s) : j \in 1..Len(t) /\ j < Len(t)
      BY <1>2, <2>3
    <3>2. CASE i \in 1..Len(s)
      <4>1. PICK j \in 1..Len(s) : j < i /\ s[j] = y
        BY <2>3, <2>7, <3>2 DEF Lists
      <4> QED
        BY <2>3, <3>1, <4>1, Zenon
    <3>3. CASE i = Len(t)
      <4>1. y \notin rest
        <5>1. y.day \in Int /\ x.day \in Int /\ y.day < x.day
          BY <2>2, <2>3, <2>7, <3>3
        <5>2. ~(x.day <= y.day)
          BY <5>1
        <5> QED
          BY <2>2, <5>2, Zenon
      <4>2. PICK j \in 1..Len(s) : s[j] = y
        BY <1>1, <4>1, Zenon
      <4> QED
        BY <2>3, <3>1, <3>3, <4>2, Zenon
    <3> QED
      BY <2>5, <3>2, <3>3
  <2>8. Len(t) \in Nat /\ Len(t) = n + 1
    BY <2>3, <2>4
  <2>9. Len(t) <= n + 1 /\ ~(Len(t) < n + 1)
    BY <2>8
  <2> QED
    BY <2>3, <2>6, <2>7, <2>8, <2>9, Zenon DEF Lists
<1> QED
  BY <1>3, <1>4

\* recent_etf_flows returns such a list.
LEMMA RecentFlowsList ==
  ASSUME NEW D, NEW asset, \A x \in Of(D, "etf_flows", asset) : x.day \in Int,
         NEW s \in RecentFlows(D, asset)
  PROVE  Lists(s, FlowLimit, Of(D, "etf_flows", asset))
<1> DEFINE flows == Of(D, "etf_flows", asset)
           eq(F) == [n \in 0..FlowLimit |-> OrdersAt(F, n, flows)]
           C == CHOOSE F : F = eq(F)
<1>1. FlowLimit \in Nat
  BY SnapshotAssumption
<1>2. C = eq(C)
  <2>1. \E F : F = eq(F)
    BY <1>1, OrdersUpTo, Zenon
  <2> QED
    BY <2>1, Zenon
<1>3. RecentFlows(D, asset) = C[FlowLimit]
  BY Zenon DEF RecentFlows, OrdersAt
<1> HIDE DEF C, flows
<1>4. \A n \in 0..FlowLimit : C[n] = OrdersAt(C, n, flows)
  BY <1>2, Zenon
<1> DEFINE Bad == {n \in 0..FlowLimit : \E t \in C[n] : ~Lists(t, n, flows)}
<1>5. Bad = {}
  <2> SUFFICES ASSUME Bad # {} PROVE FALSE
    OBVIOUS
  <2>1. PICK n \in Bad : \A k \in Bad : n <= k
    <3>1. Bad \in SUBSET Nat
      BY <1>1
    <3> HIDE DEF Bad
    <3> QED
      BY <3>1, LeastExists
  <2>2. PICK t \in C[n] : ~Lists(t, n, flows)
    BY <2>1, Zenon
  <2>3. n \in 0..FlowLimit /\ n \in Nat
    BY <1>1
  <2>4. CASE n = 0
    <3>1. t = <<>>
      BY <1>4, <2>2, <2>3, <2>4, Zenon DEF OrdersAt
    <3>2. Lists(<<>>, 0, flows)
      BY DEF Lists
    <3> QED
      BY <2>2, <2>4, <3>1, <3>2, Zenon
  <2>5. CASE n # 0
    <3>0. C[n] = UNION {WithNext(u, flows) : u \in C[n - 1]}
      BY <1>4, <2>3, <2>5, Zenon DEF OrdersAt
    <3>1. PICK u \in C[n - 1] : t \in WithNext(u, flows)
      BY <2>2, <3>0, Zenon
    <3>2. n - 1 \in 0..FlowLimit /\ n - 1 \in Nat /\ ~(n <= n - 1) /\ (n - 1) + 1 = n
      BY <1>1, <2>3, <2>5
    <3>3. n - 1 \notin Bad
      BY <2>1, <3>2, Zenon
    <3>4. Lists(u, n - 1, flows)
      BY <3>1, <3>2, <3>3, Zenon
    <3>5. \A x \in flows : x.day \in Int
      BY DEF flows
    <3>6. Lists(t, (n - 1) + 1, flows)
      BY <3>1, <3>2, <3>4, <3>5, ListsNext, Zenon
    <3> QED
      BY <2>2, <3>2, <3>6, Zenon
  <2> QED
    BY <2>4, <2>5
<1>6. FlowLimit \in 0..FlowLimit
  BY <1>1
<1>7. Lists(s, FlowLimit, flows)
  BY <1>3, <1>5, <1>6, Zenon
<1> QED
  BY <1>7 DEF flows

\* The flows of a set of rows.
Numbers(flows) == IsFiniteSet(flows) /\ \A x \in flows : x.day \in Int /\ x.flow \in Int

\* The first rows of a list.
Beginning(s, n) == {s[i] : i \in 1..n}

\* The rows of a beginning of the list are as many as its length.
LEMMA BeginningSize ==
  ASSUME NEW flows, NEW N, NEW s, Lists(s, N, flows), NEW n \in 1..Len(s)
  PROVE  /\ IsFiniteSet(Beginning(s, n)) /\ Cardinality(Beginning(s, n)) = n
         /\ Beginning(s, n) \subseteq flows
<1>1. s \in Seq(flows) /\ Len(s) \in Nat /\ n \in Nat /\ \A i \in 1..n : i \in 1..Len(s)
  BY DEF Lists
<1> DEFINE f == [i \in 1..n |-> s[i]]
<1>2. f \in Bijection(1..n, Beginning(s, n))
  <2>1. \A i, j \in 1..n : s[i] = s[j] => i = j
    BY <1>1, Zenon DEF Lists
  <2>2. f \in [1..n -> Beginning(s, n)]
    BY DEF Beginning
  <2>3. \A y \in Beginning(s, n) : \E i \in 1..n : f[i] = y
    BY DEF Beginning
  <2>4. DOMAIN f = 1..n /\ \A i, j \in 1..n : f[i] = f[j] => i = j
    BY <2>1
  <2> HIDE DEF f
  <2> QED
    BY <2>2, <2>3, <2>4, Zenon DEF Bijection, Injection, Surjection, IsInjective
<1>3. IsFiniteSet(1..n) /\ Cardinality(1..n) = n
  <2>1. 1 \in Int /\ n \in Int /\ ~(1 > n) /\ (n - 1) + 1 = n
    BY <1>1
  <2> QED
    BY <2>1, FS_Interval, Zenon
<1>4. IsFiniteSet(Beginning(s, n)) /\ Cardinality(Beginning(s, n)) = n
  <2> HIDE DEF f
  <2>1. ExistsBijection(1..n, Beginning(s, n))
    BY <1>2, Zenon DEF ExistsBijection
  <2> QED
    BY <1>3, <2>1, FS_Bijection, Zenon
<1>5. \A i \in 1..n : s[i] \in flows
  BY <1>1
<1> QED
  BY <1>4, <1>5, Zenon DEF Beginning

\* A flow of the given sign.
Follows(x, sign) == sign * x.flow > 0

\* The first n rows follow the sign, the row after them does not.
Longest(s, sign, n) ==
  /\ n \in 1..Len(s)
  /\ \A i \in 1..n : Follows(s[i], sign)
  /\ n < Len(s) => ~Follows(s[n + 1], sign)

\* A streak is the length of a longest beginning with the sign of the first row.
LEMMA StreakLongest ==
  ASSUME NEW flows, Numbers(flows), NEW s \in Seq(flows), s # <<>>
  PROVE  \/ s[1].flow = 0 /\ Streak(s) = None
         \/ s[1].flow > 0 /\ Longest(s, 1, Streak(s))
         \/ s[1].flow < 0 /\ \E n : Streak(s) = -n /\ Longest(s, -1, n)
<1>1. Len(s) \in Nat /\ 1 \in 1..Len(s) /\ DOMAIN s = 1..Len(s) /\ s[1] \in flows
  OBVIOUS
<1>2. \A i \in 1..Len(s) : s[i].flow \in Int
  BY DEF Numbers
<1>3. CASE s[1].flow = 0
  BY <1>3, Zenon DEF Streak
<1>4. ASSUME NEW sign \in {1, -1}, sign * s[1].flow > 0
      PROVE  /\ Longest(s, sign, Max({n \in DOMAIN s : \A i \in 1..n : sign * s[i].flow > 0}))
             /\ Max({n \in DOMAIN s : \A i \in 1..n : sign * s[i].flow > 0}) \in Int
  <2> DEFINE M == {n \in 1..Len(s) : \A i \in 1..n : sign * s[i].flow > 0}
             m == Max(M)
  <2>1. 1 \in M /\ M \in SUBSET (1..Len(s))
    <3>1. \A i \in 1..1 : i = 1
      OBVIOUS
    <3> QED
      BY <1>1, <1>4, <3>1, Zenon
  <2>2. \E t \in M : \A k \in M : k <= t
    <3> HIDE DEF M
    <3> QED
      BY <1>1, <2>1, GreatestExists
  <2>3. \E t \in M : \A k \in M : t >= k
    <3>1. PICK t \in M : \A k \in M : k <= t
      BY <2>2, Zenon
    <3>2. \A k \in M : t >= k
      <4> TAKE k \in M
      <4>1. k <= t /\ k \in Int /\ t \in Int
        BY <3>1
      <4> QED
        BY <4>1
    <3> QED
      BY <3>2, Zenon
  <2>4. m \in M /\ \A k \in M : m >= k
    <3> HIDE DEF M
    <3> QED
      BY <2>3, Zenon DEF Max
  <2> HIDE DEF m
  <2>5. m \in 1..Len(s) /\ \A i \in 1..m : sign * s[i].flow > 0
    BY <2>4, Zenon
  <2>6. ASSUME m < Len(s), sign * s[m + 1].flow > 0 PROVE FALSE
    <3>1. m + 1 \in 1..Len(s) /\ ~(m >= m + 1) /\ \A i \in 1..(m + 1) : i \in 1..m \/ i = m + 1
      BY <1>1, <2>5, <2>6
    <3>2. m + 1 \in M
      BY <2>5, <2>6, <3>1, Zenon
    <3> QED
      BY <2>4, <3>1, <3>2, Zenon
  <2>7. Longest(s, sign, m) /\ m \in Int
    BY <2>5, <2>6 DEF Longest, Follows
  <2>8. {n \in DOMAIN s : \A i \in 1..n : sign * s[i].flow > 0} = M
    BY <1>1, Zenon
  <2> QED
    BY <2>7, <2>8, Zenon DEF m
<1>5. CASE s[1].flow > 0
  <2>1. ~(s[1].flow = 0) /\ 1 * s[1].flow > 0
    BY <1>1, <1>2, <1>5
  <2>2. \A n \in Int : 1 * n = n
    OBVIOUS
  <2> DEFINE m == Max({n \in DOMAIN s : \A i \in 1..n : 1 * s[i].flow > 0})
  <2>3. Longest(s, 1, m) /\ m \in Int
    BY <1>4, <2>1, Zenon
  <2>4. Streak(s) = 1 * m
    BY <1>5, <2>1, Zenon DEF Streak
  <2>5. Streak(s) = m
    BY <2>2, <2>3, <2>4, Zenon
  <2> QED
    BY <1>5, <2>3, <2>5, Zenon
<1>6. CASE s[1].flow < 0
  <2>1. ~(s[1].flow = 0) /\ ~(s[1].flow > 0) /\ (-1) * s[1].flow > 0
    BY <1>1, <1>2, <1>6
  <2>2. \A n \in Int : (-1) * n = -n
    OBVIOUS
  <2> DEFINE m == Max({n \in DOMAIN s : \A i \in 1..n : (-1) * s[i].flow > 0})
  <2>3. Longest(s, -1, m) /\ m \in Int
    BY <1>4, <2>1, Zenon
  <2>4. Streak(s) = (-1) * m
    BY <2>1, Zenon DEF Streak
  <2>5. Streak(s) = -m
    BY <2>2, <2>3, <2>4, Zenon
  <2> QED
    BY <1>6, <2>3, <2>5, Zenon
<1>7. s[1].flow = 0 \/ s[1].flow > 0 \/ s[1].flow < 0
  BY <1>1, <1>2
<1> QED
  BY <1>3, <1>5, <1>6, <1>7

\* A day of inflows only is a streak of as many rows as the day has.
LEMMA StreakOfLastDay ==
  ASSUME NEW D, NEW asset, Numbers(Of(D, "etf_flows", asset)),
         NEW s \in RecentFlows(D, asset),
         LastDay(Of(D, "etf_flows", asset)) # {},
         \A x \in LastDay(Of(D, "etf_flows", asset)) : x.flow > 0
  PROVE  \/ Streak(s) >= Cardinality(LastDay(Of(D, "etf_flows", asset)))
         \/ Streak(s) = FlowLimit
<1> PICK flows : flows = Of(D, "etf_flows", asset)
  OBVIOUS
<1> PICK last : last = LastDay(flows)
  OBVIOUS
<1>1. Numbers(flows) /\ Lists(s, FlowLimit, flows) /\ s \in Seq(flows)
  <2>1. \A x \in Of(D, "etf_flows", asset) : x.day \in Int
    BY Zenon DEF Numbers
  <2>2. Lists(s, FlowLimit, flows)
    BY <2>1, RecentFlowsList, Zenon
  <2> QED
    BY <2>2, Zenon DEF Lists
<1>2. /\ last \subseteq flows /\ last # {} /\ \A x \in last : x.flow > 0
      /\ \A x \in flows : x \in last <=> \A y \in flows : x.day <= y.day
  BY Zenon DEF LastDay
<1>3. /\ Len(s) \in Nat /\ Len(s) <= FlowLimit /\ FlowLimit \in Nat \ {0}
      /\ \A i \in 1..Len(s) : s[i] \in flows
  BY <1>1, SnapshotAssumption DEF Lists
\* a row of an older day comes after the last day
<1>4. ASSUME NEW i \in 1..Len(s), s[i] \notin last, NEW y \in last
      PROVE  \E j \in 1..Len(s) : j < i /\ s[j] = y
  <2>1. PICK w \in flows : ~(s[i].day <= w.day)
    BY <1>2, <1>3, <1>4, Zenon
  <2>2. y.day <= w.day /\ y \in flows
    BY <1>2, <2>1, Zenon
  <2>3. s[i].day \in Int /\ w.day \in Int /\ y.day \in Int
    BY <1>1, <1>3, <2>1, <2>2, Zenon DEF Numbers
  <2>4. y.day < s[i].day
    BY <2>1, <2>2, <2>3
  <2> QED
    BY <1>1, <2>2, <2>4, Zenon DEF Lists
<1>5. Len(s) # 0
  <2> SUFFICES ASSUME Len(s) = 0 PROVE FALSE
    OBVIOUS
  <2>1. Len(s) < FlowLimit /\ 1..Len(s) = {}
    BY <1>3
  <2>2. \A x \in flows : \E i \in 1..Len(s) : s[i] = x
    BY <1>1, <2>1, Zenon DEF Lists
  <2> QED
    BY <1>2, <2>1, <2>2, Zenon
<1>6. 1 \in 1..Len(s) /\ s # <<>>
  BY <1>1, <1>3, <1>5
<1>7. s[1] \in last
  <2> SUFFICES ASSUME s[1] \notin last PROVE FALSE
    OBVIOUS
  <2>1. PICK y \in last : TRUE
    BY <1>2, Zenon
  <2>2. PICK j \in 1..Len(s) : j < 1 /\ s[j] = y
    BY <1>4, <1>6, Zenon
  <2> QED
    BY <1>3, <2>2
<1> PICK n : n = Streak(s)
  OBVIOUS
<1>8. Longest(s, 1, n)
  <2>1. s[1].flow > 0 /\ s[1].flow \in Int
    BY <1>1, <1>2, <1>7, Zenon DEF Numbers
  <2>2. ~(s[1].flow = 0) /\ ~(s[1].flow < 0)
    BY <2>1
  <2> QED
    BY <1>1, <1>6, <2>2, StreakLongest, Zenon
<1>9. n \in 1..Len(s)
  BY <1>8, Zenon DEF Longest
<1>10. CASE n = FlowLimit
  BY <1>10
<1>11. CASE n # FlowLimit
  <2>1. last \subseteq Beginning(s, n)
    <3> SUFFICES ASSUME NEW y \in last PROVE \E i \in 1..n : s[i] = y
      BY Zenon DEF Beginning
    <3>1. CASE n < Len(s)
      <4>1. n + 1 \in 1..Len(s) /\ ~Follows(s[n + 1], 1)
        BY <1>3, <1>8, <1>9, <3>1 DEF Longest
      <4>2. s[n + 1] \notin last
        <5> SUFFICES ASSUME s[n + 1] \in last PROVE FALSE
          OBVIOUS
        <5>1. s[n + 1].flow > 0 /\ s[n + 1].flow \in Int
          BY <1>1, <1>2, Zenon DEF Numbers
        <5>2. 1 * s[n + 1].flow > 0
          BY <5>1
        <5> QED
          BY <4>1, <5>2, Zenon DEF Follows
      <4>3. PICK j \in 1..Len(s) : j < n + 1 /\ s[j] = y
        BY <1>4, <4>1, <4>2, Zenon
      <4>4. j \in 1..n
        BY <1>3, <1>9, <4>3
      <4> QED
        BY <4>3, <4>4, Zenon
    <3>2. CASE ~(n < Len(s))
      <4>1. n = Len(s) /\ Len(s) < FlowLimit
        BY <1>3, <1>9, <1>11, <3>2
      <4> QED
        BY <1>1, <1>2, <4>1, Zenon DEF Lists
    <3> QED
      BY <3>1, <3>2
  <2>2. IsFiniteSet(Beginning(s, n)) /\ Cardinality(Beginning(s, n)) = n
    BY <1>1, <1>9, BeginningSize, Zenon
  <2>3. IsFiniteSet(last) /\ Cardinality(last) \in Nat /\ Cardinality(last) <= n
    BY <2>1, <2>2, FS_Subset, FS_CardinalityType, Zenon
  <2>4. n >= Cardinality(last)
    BY <1>3, <1>9, <2>3
  <2> QED
    BY <2>4, Zenon
<1> QED
  BY <1>10, <1>11

----------------------------------------------------------------------------
(* The rows of a day's page *)

\* The rows of a day are those of a page.
IsPage(rows, asset, day) ==
  \E flows : /\ Summable(flows) /\ flows = [p \in DOMAIN flows |-> flows[p]]
             /\ "TOTAL" \notin DOMAIN flows /\ rows = FlowRows(asset, day, flows)

\* A day in a transaction is a page.
LEMMA BatchPages ==
  ASSUME FlowsFromPages, NEW b \in DOMAIN Batches, NEW asset, NEW day,
         DayRows(Batches[b], asset, day) # {}
  PROVE  IsPage(DayRows(Batches[b], asset, day), asset, day)
<1> PICK rows : rows = DayRows(Batches[b], asset, day)
  OBVIOUS
<1>1. PICK x \in rows : TRUE
  BY Zenon
<1>2. x \in Batches[b] /\ x.table = "etf_flows" /\ x.asset = asset /\ x.day = day
  BY Zenon DEF DayRows
<1>3. PICK flows \in [Providers(rows) -> {y.flow : y \in rows}] : rows = FlowRows(asset, day, flows)
  BY <1>2, Zenon DEF FlowsFromPages
<1>4. /\ DOMAIN flows = Providers(rows) /\ flows = [p \in DOMAIN flows |-> flows[p]]
      /\ \A p \in Providers(rows) : \E y \in rows : flows[p] = y.flow
  BY Zenon
<1>5. \A y \in rows : y \in Batches[b] /\ y.table = "etf_flows"
  BY Zenon DEF DayRows
<1>6. \A y \in rows : y.flow \in Int
  BY <1>5, BatchesAssumption, Zenon
<1>7. \A p \in Providers(rows) : flows[p] \in Int
  BY <1>4, <1>6, Zenon
<1>8. IsFiniteSet(Providers(rows))
  <2>1. IsFiniteSet(rows)
    <3>1. IsFiniteSet(Batches[b]) /\ rows \subseteq Batches[b]
      BY <1>5, BatchesAssumption, Zenon
    <3> QED
      BY <3>1, FS_Subset, Zenon
  <2> DEFINE image == {y.provider : y \in rows}
  <2>2. IsFiniteSet(image)
    <3> DEFINE f == [y \in rows |-> y.provider]
    <3>1. f \in Surjection(rows, image)
      <4>1. f \in [rows -> image] /\ \A t \in image : \E y \in rows : f[y] = t
        OBVIOUS
      <4> HIDE DEF f, image
      <4> QED
        BY <4>1, Zenon DEF Surjection
    <3> HIDE DEF f, image
    <3> QED
      BY <2>1, <3>1, FS_Surjection, Zenon
  <2>3. Providers(rows) \subseteq image
    BY Zenon DEF Providers
  <2> HIDE DEF image
  <2> QED
    BY <2>2, <2>3, FS_Subset, Zenon
<1>9. "TOTAL" \notin Providers(rows)
  BY Zenon DEF Providers
<1>10. Summable(flows)
  BY <1>4, <1>7, <1>8, Zenon DEF Summable
<1> QED
  BY <1>3, <1>4, <1>9, <1>10, Zenon DEF IsPage

\* Every page has a row of the total.
LEMMA PageTotal ==
  ASSUME NEW rows, NEW asset, NEW day, IsPage(rows, asset, day)
  PROVE  \E x \in rows : x.provider = "TOTAL"
<1>1. PICK flows : rows = FlowRows(asset, day, flows)
  BY Zenon DEF IsPage
<1>2. FlowRow(asset, day, "TOTAL", SumFunction(flows)) \in rows
  BY <1>1, Zenon DEF FlowRows
<1>3. FlowRow(asset, day, "TOTAL", SumFunction(flows)).provider = "TOTAL"
  BY DEF FlowRow
<1> QED
  BY <1>2, <1>3, Zenon

\* What transactions have left of a day is the page of the last that has the day.
LEMMA SavedPages ==
  ASSUME FlowsFromPages, NEW B \in SUBSET DOMAIN Batches, NEW asset, NEW day,
         DayRows(SavedAll(B), asset, day) # {}
  PROVE  IsPage(DayRows(SavedAll(B), asset, day), asset, day)
<1> DEFINE at(b) == DayRows(Batches[b], asset, day)
           W == {b \in B : at(b) # {}}
           left == DayRows(SavedAll(B), asset, day)
<1>1. \A x, b : x \in at(b) <=>
        x \in Batches[b] /\ x.table = "etf_flows" /\ x.asset = asset /\ x.day = day
  BY Zenon DEF DayRows
<1>2. \A x : x \in left <=> \E b \in B :
        /\ x \in at(b)
        /\ \A c \in B : c > b => \A y \in Batches[c] : ~SameFlow(x, y)
  <2>1. \A x : x \in SavedAll(B) <=> \E b \in B :
          x \in Batches[b] /\ \A c \in B : c > b => \A y \in Batches[c] : ~SameFlow(x, y)
    <3> DEFINE kept(b) ==
                 {x \in Batches[b] : \A c \in B : c > b => \A y \in Batches[c] : ~SameFlow(x, y)}
    <3>1. SavedAll(B) = UNION {kept(b) : b \in B}
      BY Zenon DEF SavedAll
    <3>2. \A x, b : x \in kept(b) <=>
            x \in Batches[b] /\ \A c \in B : c > b => \A y \in Batches[c] : ~SameFlow(x, y)
      BY Zenon
    <3> HIDE DEF kept
    <3>3. \A x : x \in SavedAll(B) <=> \E b \in B : x \in kept(b)
      BY <3>1, Zenon
    <3> QED
      BY <3>2, <3>3, Zenon
  <2>2. \A x : x \in left <=> x \in SavedAll(B) /\ x.table = "etf_flows" /\ x.asset = asset /\ x.day = day
    BY Zenon DEF DayRows
  <2> HIDE DEF left, at
  <2> QED
    BY <1>1, <2>1, <2>2, Zenon
<1> HIDE DEF at, left
<1>3. Len(Batches) \in Nat /\ W \in SUBSET (1..Len(Batches))
  BY BatchesAssumption
<1>4. W # {}
  <2>1. PICK x : x \in left
    BY DEF left
  <2> QED
    BY <1>2, <2>1, Zenon
<1>5. PICK m \in W : \A b \in W : b <= m
  <2> HIDE DEF W
  <2> QED
    BY <1>3, <1>4, GreatestExists, Zenon
<1>6. m \in B /\ m \in DOMAIN Batches /\ at(m) # {} /\ m \in Nat
  BY <1>3
<1>7. \A c \in B : c > m => at(c) = {}
  <2> SUFFICES ASSUME NEW c \in B, c > m, at(c) # {} PROVE FALSE
    BY Zenon
  <2>1. c \in W
    BY Zenon
  <2>2. c <= m /\ c \in Nat
    <3>1. c \in 1..Len(Batches)
      BY <1>3, <2>1
    <3> HIDE DEF W
    <3> QED
      BY <1>5, <2>1, <3>1
  <2> QED
    BY <1>6, <2>2
<1>8. IsPage(at(m), asset, day)
  BY <1>6, BatchPages, Zenon DEF at
<1>9. ASSUME NEW x \in at(m) PROVE x \in left
  <2>1. ASSUME NEW c \in B, c > m, NEW y \in Batches[c] PROVE ~SameFlow(x, y)
    <3> SUFFICES ASSUME SameFlow(x, y) PROVE FALSE
      OBVIOUS
    <3>1. x.asset = y.asset /\ x.day = y.day /\ y.table = "etf_flows"
      BY DEF SameFlow
    <3>2. x.asset = asset /\ x.day = day
      BY <1>1, Zenon
    <3>3. y \in at(c)
      BY <1>1, <3>1, <3>2, Zenon
    <3> QED
      BY <1>7, <2>1, <3>3, Zenon
  <2> QED
    BY <1>2, <1>6, <2>1, Zenon
<1>10. ASSUME NEW x \in left PROVE x \in at(m)
  <2>1. PICK b \in B : x \in at(b) /\ \A c \in B : c > b => \A y \in Batches[c] : ~SameFlow(x, y)
    BY <1>2, Zenon
  <2>2. b \in W /\ b \in DOMAIN Batches /\ b <= m
    BY <1>5, <2>1, Zenon
  <2>3. CASE b = m
    BY <2>1, <2>3, Zenon
  <2>4. CASE b # m
    <3>1. m > b
      <4>1. b \in Nat
        BY <1>3, <2>2
      <4> HIDE DEF W
      <4> QED
        BY <1>6, <2>2, <2>4, <4>1
    <3>2. x \in Batches[b] /\ x.table = "etf_flows" /\ x.asset = asset /\ x.day = day
      BY <1>1, <2>1, Zenon
    <3>3. Providers(at(b)) \subseteq Providers(at(m))
      BY <1>6, <2>2, <3>1, <3>2, Zenon DEF FlowsFromPages, at
    <3>4. \E y \in at(m) : y.provider = x.provider
      <4>1. CASE x.provider = "TOTAL"
        BY <1>8, <4>1, PageTotal, Zenon
      <4>2. CASE x.provider # "TOTAL"
        <5>1. x.provider \in Providers(at(b))
          BY <2>1, <4>2, Zenon DEF Providers
        <5> QED
          BY <3>3, <5>1, Zenon DEF Providers
      <4> QED
        BY <4>1, <4>2
    <3>5. PICK y \in at(m) : y.provider = x.provider
      BY <3>4, Zenon
    <3>6. y \in Batches[m] /\ y.table = "etf_flows" /\ y.asset = asset /\ y.day = day
      BY <1>1, Zenon
    <3>7. SameFlow(x, y)
      BY <3>2, <3>5, <3>6, Zenon DEF SameFlow
    <3> QED
      BY <1>6, <2>1, <3>1, <3>6, <3>7, Zenon
  <2> QED
    BY <2>3, <2>4
<1>11. left = at(m)
  BY <1>9, <1>10, Zenon
<1> QED
  BY <1>8, <1>11, Zenon DEF left

\* The flows of rows
FlowOf(rows) == [x \in rows |-> x.flow]
\* and the rows of the totals among them.
TotalsIn(rows) == {x \in rows : x.provider = "TOTAL"}

\* The flows of a page are twice its total.
LEMMA PageTwice ==
  ASSUME NEW rows, NEW asset, NEW day, IsPage(rows, asset, day), Summable(FlowOf(rows))
  PROVE  SumFunction(FlowOf(rows)) = 2 * SumFunction(FlowOf(TotalsIn(rows)))
<1>1. PICK flows : /\ Summable(flows) /\ flows = [p \in DOMAIN flows |-> flows[p]]
                   /\ "TOTAL" \notin DOMAIN flows
                   /\ rows = FlowRows(asset, day, flows)
  BY Zenon DEF IsPage
<1> PICK f : f = FlowOf(rows)
  OBVIOUS
<1> PICK T : T = SumFunction(flows)
  OBVIOUS
<1> PICK total : total = FlowRow(asset, day, "TOTAL", T)
  OBVIOUS
<1> PICK column : column = [p \in DOMAIN flows |-> FlowRow(asset, day, p, flows[p])]
  OBVIOUS
<1> PICK columns : columns = {column[p] : p \in DOMAIN flows}
  OBVIOUS
<1>2. T \in Int
  BY <1>1, SumType, Zenon
<1>3. total.provider = "TOTAL" /\ total.flow = T
  BY DEF FlowRow
<1>4. \A p \in DOMAIN flows : column[p].provider = p /\ column[p].flow = flows[p]
  BY DEF FlowRow
<1>5. rows = columns \cup {total}
  BY <1>1, Zenon DEF FlowRows
<1>6. \A x \in columns : x.provider # "TOTAL"
  <2> SUFFICES ASSUME NEW p \in DOMAIN flows PROVE column[p].provider # "TOTAL"
    BY Zenon
  <2>1. "TOTAL" \notin DOMAIN flows
    BY <1>1, Zenon
  <2>2. column[p].provider = p
    BY <1>4, Zenon
  <2> QED
    BY <2>1, <2>2, Zenon
<1>7. DOMAIN f = rows /\ \A x \in rows : f[x] = x.flow
  BY Zenon DEF FlowOf
<1>8. Summable(f)
  OBVIOUS
<1>9. SumOf(f, columns) = T
  <2>1. ASSUME NEW p \in DOMAIN flows
        PROVE  column[p] \in DOMAIN f /\ f[column[p]] = flows[p]
    <3>1. column[p] \in columns
      BY Zenon
    <3>2. column[p] \in rows
      BY <1>5, <3>1, Zenon
    <3> QED
      BY <1>4, <1>7, <3>2, Zenon
  <2>2. \A p, q \in DOMAIN flows : column[p] = column[q] => p = q
    BY <1>4, Zenon
  <2>3. SumOf(flows, DOMAIN flows) = SumOf(f, {column[p] : p \in DOMAIN flows})
    <3>1. Summable(flows) /\ DOMAIN flows \subseteq DOMAIN flows
      BY <1>1, Zenon
    <3>2. \A p \in DOMAIN flows : column[p] \in DOMAIN f /\ f[column[p]] = flows[p]
      BY <2>1, Zenon
    <3> QED
      BY <1>8, <3>1, <3>2, <2>2, SumRenamed
  <2>4. SumOf(flows, DOMAIN flows) = SumFunction([p \in DOMAIN flows |-> flows[p]])
    BY Zenon DEF SumOf
  <2> QED
    BY <1>1, <2>3, <2>4, Zenon
<1>10. SumOf(f, rows) = T + T
  <2>1. total \in rows /\ rows \ {total} = columns
    BY <1>3, <1>5, <1>6, Zenon
  <2>2. SumOf(f, rows) = f[total] + SumOf(f, rows \ {total})
    <3>1. rows \subseteq DOMAIN f
      BY <1>7, Zenon
    <3>2. \A x \in rows : SumOf(f, rows) = f[x] + SumOf(f, rows \ {x})
      BY <1>8, <3>1, SumOfTaken, Zenon
    <3> QED
      BY <2>1, <3>2, Zenon
  <2> QED
    BY <1>3, <1>7, <1>9, <2>1, <2>2, Zenon
<1>11. SumOf(f, {total}) = T
  <2>1. {total} \subseteq DOMAIN f /\ {} \subseteq DOMAIN f /\ {total} \ {total} = {}
    BY <1>5, <1>7, Zenon
  <2>2. SumOf(f, {total}) = f[total] + SumOf(f, {total} \ {total}) /\ SumOf(f, {}) = 0
    <3>1. {total} \subseteq DOMAIN f /\ {} \subseteq DOMAIN f
      BY <2>1, Zenon
    <3>2. \A x \in {total} : SumOf(f, {total}) = f[x] + SumOf(f, {total} \ {x})
      BY <1>8, <3>1, SumOfTaken
    <3>3. SumOf(f, {}) = 0
      BY <1>8, <3>1, SumOfTaken, Zenon
    <3> QED
      BY <3>2, <3>3, Zenon
  <2>3. f[total] = T
    BY <1>3, <1>5, <1>7, Zenon
  <2>4. SumOf(f, {total}) = T + 0
    BY <2>1, <2>2, <2>3, Zenon
  <2> QED
    BY <1>2, <2>4
<1>12. TotalsIn(rows) = {total}
  BY <1>3, <1>5, <1>6, Zenon DEF TotalsIn
<1>13. /\ [x \in rows |-> f[x]] = FlowOf(rows)
       /\ [x \in {total} |-> f[x]] = FlowOf({total})
  BY <1>5, <1>7, Zenon DEF FlowOf
<1>14. SumFunction(FlowOf(rows)) = T + T /\ SumFunction(FlowOf({total})) = T
  BY <1>10, <1>11, <1>13, Zenon DEF SumOf
<1> QED
  BY <1>2, <1>12, <1>14

\* Rows of whole pages.
Pages(R, asset) ==
  /\ Summable(FlowOf(R))
  /\ \A x \in R : IsPage({y \in R : y.day = x.day}, asset, x.day)

\* So are the flows of several pages.
LEMMA PagesTwice ==
  ASSUME NEW R, NEW asset, Pages(R, asset)
  PROVE  SumFunction(FlowOf(R)) = 2 * SumFunction(FlowOf(TotalsIn(R)))
<1> DEFINE Twice(S) == SumFunction(FlowOf(S)) = 2 * SumFunction(FlowOf(TotalsIn(S)))
           Bad == {n \in Nat : \E S \in SUBSET R : Pages(S, asset) /\ Cardinality(S) = n /\ ~Twice(S)}
<1> HIDE DEF Twice
<1>1. \A S : DOMAIN FlowOf(S) = S /\ \A x \in S : FlowOf(S)[x] = x.flow
  BY Zenon DEF FlowOf
<1>2. IsFiniteSet(R)
  BY <1>1, Zenon DEF Pages, Summable
<1>3. \A S \in SUBSET R : IsFiniteSet(S) /\ Cardinality(S) \in Nat
  BY <1>2, FS_Subset, FS_CardinalityType, Zenon
<1>4. Bad = {}
  <2> SUFFICES ASSUME Bad # {} PROVE FALSE
    OBVIOUS
  <2>1. PICK n \in Bad : \A k \in Bad : n <= k
    <3>1. Bad \in SUBSET Nat
      BY Zenon
    <3> HIDE DEF Bad
    <3> QED
      BY <3>1, LeastExists, Zenon
  <2>2. PICK S \in SUBSET R : Pages(S, asset) /\ Cardinality(S) = n /\ ~Twice(S)
    BY <2>1, Zenon
  <2> PICK f : f = FlowOf(S)
    OBVIOUS
  <2>3. Summable(f) /\ DOMAIN f = S /\ \A x \in S : f[x] = x.flow
    BY <1>1, <2>2, Zenon DEF Pages
  <2>4. \A T \in SUBSET S : [x \in T |-> f[x]] = FlowOf(T)
    BY <2>3, Zenon DEF FlowOf
  <2>5. \A T \in SUBSET S : SumOf(f, T) = SumFunction(FlowOf(T)) /\ SumOf(f, T) \in Int
    <3>1. \A T \in SUBSET S : SumOf(f, T) \in Int
      BY <2>3, SumOfTaken, Zenon
    <3> QED
      BY <2>4, <3>1, Zenon DEF SumOf
  <2>6. CASE S = {}
    <3>1. TotalsIn(S) = {} /\ {} \subseteq DOMAIN f
      BY <2>6, Zenon DEF TotalsIn
    <3>2. SumOf(f, {}) = 0
      BY <2>3, <3>1, SumOfTaken, Zenon
    <3>3. SumFunction(FlowOf(S)) = 0 /\ SumFunction(FlowOf(TotalsIn(S))) = 0
      BY <2>5, <2>6, <3>1, <3>2, Zenon
    <3>4. Twice(S)
      BY <3>3 DEF Twice
    <3> QED
      BY <2>2, <3>4, Zenon
  <2>7. CASE S # {}
    <3>1. PICK x \in S : TRUE
      BY <2>7, Zenon
    <3> PICK page : page = {y \in S : y.day = x.day}
      OBVIOUS
    <3> PICK rest : rest = S \ page
      OBVIOUS
    <3>2. page \subseteq S /\ rest \subseteq S /\ x \in page /\ x \notin rest
      BY <3>1, Zenon
    <3>3. ASSUME NEW T \in SUBSET S PROVE Summable(FlowOf(T))
      <4>1. IsFiniteSet(T)
        BY <1>3, Zenon
      <4>2. \A y \in T : y.flow \in Int
        BY <2>3, Zenon DEF Summable
      <4> QED
        BY <1>1, <4>1, <4>2, Zenon DEF Summable
    <3>4. Twice(page)
      <4>1. IsPage(page, asset, x.day)
        BY <2>2, <3>1, Zenon DEF Pages
      <4> QED
        BY <3>2, <3>3, <4>1, PageTwice, Zenon DEF Twice
    <3>5. Pages(rest, asset)
      <4>1. ASSUME NEW y \in rest
            PROVE  IsPage({z \in rest : z.day = y.day}, asset, y.day)
        <5>1. y \in S /\ y.day # x.day
          BY <3>2, Zenon
        <5>2. {z \in rest : z.day = y.day} = {z \in S : z.day = y.day}
          <6>1. \A z \in S : z.day = y.day => z \notin page
            BY <5>1, Zenon
          <6> QED
            BY <6>1
        <5> QED
          BY <2>2, <5>1, <5>2, Zenon DEF Pages
      <4> QED
        BY <3>2, <3>3, <4>1, Zenon DEF Pages
    <3>6. Twice(rest)
      <4> SUFFICES ASSUME ~Twice(rest) PROVE FALSE
        OBVIOUS
      <4>1. rest \in SUBSET R /\ Cardinality(rest) \in Nat /\ IsFiniteSet(S) /\ Cardinality(S) \in Nat
        BY <1>3, <3>2, Zenon
      <4>2. Cardinality(rest) \in Bad
        BY <3>5, <4>1, Zenon
      <4>3. n <= Cardinality(rest)
        BY <2>1, <4>2, Zenon
      <4>4. Cardinality(rest) <= Cardinality(S) /\ Cardinality(rest) # Cardinality(S)
        <5>1. rest \subseteq S /\ rest # S
          BY <3>1, <3>2, Zenon
        <5> QED
          BY <4>1, <5>1, FS_Subset, Zenon
      <4> HIDE DEF Bad
      <4> QED
        BY <2>2, <4>1, <4>3, <4>4
    <3>7. SumOf(f, S) = SumOf(f, page) + SumOf(f, rest)
      <4>1. Summable(f) /\ S \subseteq DOMAIN f /\ page \subseteq S
        BY <2>3, <3>2, Zenon
      <4>2. SumOf(f, S) = SumOf(f, page) + SumOf(f, S \ page)
        BY <4>1, SumOfParts
      <4> QED
        BY <4>2, Zenon
    <3>8. SumOf(f, TotalsIn(S)) = SumOf(f, TotalsIn(page)) + SumOf(f, TotalsIn(rest))
      <4>1. /\ TotalsIn(S) \subseteq DOMAIN f /\ TotalsIn(page) \subseteq TotalsIn(S)
            /\ TotalsIn(S) \ TotalsIn(page) = TotalsIn(rest)
        BY <2>3, <3>2, Zenon DEF TotalsIn
      <4>2. SumOf(f, TotalsIn(S)) = SumOf(f, TotalsIn(page)) + SumOf(f, TotalsIn(S) \ TotalsIn(page))
        <5>1. Summable(f) /\ TotalsIn(S) \subseteq DOMAIN f /\ TotalsIn(page) \subseteq TotalsIn(S)
          BY <2>3, <4>1, Zenon
        <5> QED
          BY <5>1, SumOfParts
      <4> QED
        BY <4>1, <4>2, Zenon
    <3>9. /\ TotalsIn(S) \in SUBSET S /\ TotalsIn(page) \in SUBSET S /\ TotalsIn(rest) \in SUBSET S
          /\ page \in SUBSET S /\ rest \in SUBSET S /\ S \in SUBSET S
      BY <3>2, Zenon DEF TotalsIn
    <3>10. \A a, b, c, d \in Int : a = 2 * c /\ b = 2 * d => a + b = 2 * (c + d)
      OBVIOUS
    <3>11. SumOf(f, page) = 2 * SumOf(f, TotalsIn(page)) /\ SumOf(f, rest) = 2 * SumOf(f, TotalsIn(rest))
      BY <2>5, <3>4, <3>6, <3>9, Zenon DEF Twice
    <3>12. SumOf(f, page) + SumOf(f, rest) = 2 * (SumOf(f, TotalsIn(page)) + SumOf(f, TotalsIn(rest)))
      <4>1. /\ SumOf(f, page) \in Int /\ SumOf(f, rest) \in Int
            /\ SumOf(f, TotalsIn(page)) \in Int /\ SumOf(f, TotalsIn(rest)) \in Int
        BY <2>5, <3>9, Zenon
      <4> QED
        BY <3>11, <4>1
    <3>13. SumOf(f, S) = 2 * SumOf(f, TotalsIn(S))
      BY <3>7, <3>8, <3>12, Zenon
    <3>14. Twice(S)
      BY <2>5, <3>9, <3>13, Zenon DEF Twice
    <3> QED
      BY <2>2, <3>14, Zenon
  <2> QED
    BY <2>6, <2>7
<1>5. Twice(R)
  <2> SUFFICES ASSUME ~Twice(R) PROVE FALSE
    OBVIOUS
  <2>1. Cardinality(R) \in Bad
    BY <1>3, Zenon
  <2> QED
    BY <1>4, <2>1, Zenon
<1> QED
  BY <1>5, Zenon DEF Twice

\* The rows that transactions have left are finitely many, the flows numbers.
LEMMA SavedNumbers ==
  ASSUME NEW B \in SUBSET DOMAIN Batches, NEW asset
  PROVE  Numbers(Of(SavedAll(B), "etf_flows", asset))
<1> DEFINE left(b) == {x \in Batches[b] : \A c \in B : c > b => \A y \in Batches[c] : ~SameFlow(x, y)}
           S == {left(b) : b \in B}
<1>1. SavedAll(B) = UNION S
  BY Zenon DEF SavedAll
<1>2. IsFiniteSet(B)
  <2>1. IsFiniteSet(1..Len(Batches)) /\ B \subseteq 1..Len(Batches)
    BY BatchesAssumption, FS_Interval
  <2> QED
    BY <2>1, FS_Subset, Zenon
<1>3. IsFiniteSet(S)
  <2> DEFINE f == [b \in B |-> left(b)]
  <2>1. f \in Surjection(B, S)
    <3>1. f \in [B -> S] /\ \A t \in S : \E b \in B : f[b] = t
      BY Zenon
    <3> HIDE DEF f, S
    <3> QED
      BY <3>1, Zenon DEF Surjection
  <2> HIDE DEF f, S
  <2> QED
    BY <1>2, <2>1, FS_Surjection, Zenon
<1>4. \A T \in S : IsFiniteSet(T)
  <2> SUFFICES ASSUME NEW b \in B PROVE IsFiniteSet(left(b))
    BY Zenon
  <2>1. IsFiniteSet(Batches[b]) /\ left(b) \subseteq Batches[b]
    BY BatchesAssumption, Zenon
  <2> HIDE DEF left
  <2> QED
    BY <2>1, FS_Subset, Zenon
<1>5. IsFiniteSet(SavedAll(B))
  <2> HIDE DEF S
  <2> QED
    BY <1>1, <1>3, <1>4, FS_UNION, Zenon
<1>6. \A x \in SavedAll(B) : x.table = "etf_flows" => x.day \in Int /\ x.flow \in Int
  BY BatchesAssumption, Zenon DEF SavedAll
<1>7. Of(SavedAll(B), "etf_flows", asset) \subseteq SavedAll(B)
  BY Zenon DEF Of
<1>8. IsFiniteSet(Of(SavedAll(B), "etf_flows", asset))
  BY <1>5, <1>7, FS_Subset, Zenon
<1> QED
  BY <1>6, <1>8, Zenon DEF Numbers, Of

\* The sum of the flows of the rows of R on the five days.
FiveDayFlow(R) == SumFunction([x \in {y \in R : y.day <= 5} |-> x.flow])

\* The five-day flow is twice the flow.
LEMMA FlowSumTwice ==
  ASSUME FlowsFromPages, NEW B \in SUBSET DOMAIN Batches, NEW asset
  PROVE  /\ FiveDayFlow(Of(SavedAll(B), "etf_flows", asset)) =
              2 * FiveDayFlow(Totals(SavedAll(B), asset))
         /\ FiveDayFlow(Totals(SavedAll(B), asset)) \in Int
<1> PICK D : D = SavedAll(B)
  OBVIOUS
<1> PICK R : R = {y \in Of(D, "etf_flows", asset) : y.day <= 5}
  OBVIOUS
<1>1. Numbers(Of(D, "etf_flows", asset))
  BY SavedNumbers, Zenon
<1>2. Summable(FlowOf(R))
  <2>1. R \subseteq Of(D, "etf_flows", asset)
    BY Zenon
  <2>2. IsFiniteSet(R) /\ \A x \in R : x.flow \in Int
    BY <1>1, <2>1, FS_Subset, Zenon DEF Numbers
  <2>3. DOMAIN FlowOf(R) = R /\ \A x \in R : FlowOf(R)[x] = x.flow
    BY Zenon DEF FlowOf
  <2> QED
    BY <2>2, <2>3, Zenon DEF Summable
<1>3. ASSUME NEW x \in R PROVE IsPage({y \in R : y.day = x.day}, asset, x.day)
  <2>1. x \in D /\ x.table = "etf_flows" /\ x.asset = asset /\ x.day <= 5
    BY Zenon DEF Of
  <2>2. {y \in R : y.day = x.day} = DayRows(D, asset, x.day)
    BY <2>1, Zenon DEF DayRows, Of
  <2>3. DayRows(D, asset, x.day) # {}
    BY <2>1, Zenon DEF DayRows
  <2> QED
    BY <2>2, <2>3, SavedPages, Zenon
<1>4. SumFunction(FlowOf(R)) = 2 * SumFunction(FlowOf(TotalsIn(R)))
  BY <1>2, <1>3, PagesTwice, Zenon DEF Pages
<1>5. SumFunction(FlowOf(TotalsIn(R))) \in Int
  <2>1. DOMAIN FlowOf(R) = R /\ \A x \in R : FlowOf(R)[x] = x.flow
    BY Zenon DEF FlowOf
  <2>2. TotalsIn(R) \subseteq R
    BY Zenon DEF TotalsIn
  <2>3. IsFiniteSet(TotalsIn(R)) /\ \A x \in TotalsIn(R) : x.flow \in Int
    BY <1>2, <2>1, <2>2, FS_Subset, Zenon DEF Summable
  <2>4. Summable(FlowOf(TotalsIn(R)))
    BY <2>3, Zenon DEF Summable, FlowOf
  <2> QED
    BY <2>4, SumType, Zenon
<1>6. TotalsIn(R) = {y \in Totals(D, asset) : y.day <= 5}
  BY Zenon DEF TotalsIn, Totals
<1> QED
  BY <1>4, <1>5, <1>6, Zenon DEF FlowOf, FiveDayFlow

----------------------------------------------------------------------------
(* What a finished task sets, by the rows that its statements saw *)

\* Each result is an answer of the statement on one of the states S of the rows.
AnsweredBy(task, results, S) ==
  /\ Len(results) \in Nat
  /\ \A n \in 1..Len(results) : \E D \in S : results[n] \in Answers(task, n, D)

\* The five-day flow that the rows of ETF flows add up to, totals included.
SumsOfRows(S, asset) ==
  {FiveDayFlow(Of(D, "etf_flows", asset)) * 1000000 : D \in S}

\* A value is missing or one that the rows bear out,
BorneOut(S, metric, asset, value) == value = None \/ value \in Meaning(S, metric, asset)
\* for the five-day flow only with the totals included.
Explained(S, metric, asset, value) ==
  IF metric = "etf_cum_flow_5d_usd" THEN value = None \/ value \in SumsOfRows(S, asset)
                                    ELSE BorneOut(S, metric, asset, value)

\* More states of the rows answer what fewer do,
LEMMA AnsweredMore ==
  ASSUME NEW S, NEW T, S \subseteq T, NEW task, NEW results, AnsweredBy(task, results, S)
  PROVE  AnsweredBy(task, results, T)
BY Zenon DEF AnsweredBy

\* and bear out more.
LEMMA RowsOfMore ==
  ASSUME NEW S, NEW T, S \subseteq T
  PROVE  /\ \A asset, ages : Prices(S, asset, ages) \subseteq Prices(T, asset, ages)
         /\ \A asset : PricesBefore(S, asset) \subseteq PricesBefore(T, asset)
         /\ \A name, ages : GlobalRows(S, name, ages) \subseteq GlobalRows(T, name, ages)
         /\ \A asset : LiquidationRows(S, asset) \subseteq LiquidationRows(T, asset)
         /\ \A asset : Rates(S, asset) \subseteq Rates(T, asset)
         /\ \A asset, ages : Interest(S, asset, ages) \subseteq Interest(T, asset, ages)
         /\ \A asset : SumsOfRows(S, asset) \subseteq SumsOfRows(T, asset)
<1>1. \A asset, ages : Prices(S, asset, ages) \subseteq Prices(T, asset, ages)
  BY Zenon DEF Prices
<1>2. \A asset : PricesBefore(S, asset) \subseteq PricesBefore(T, asset)
  BY Zenon DEF PricesBefore
<1>3. \A name, ages : GlobalRows(S, name, ages) \subseteq GlobalRows(T, name, ages)
  BY Zenon DEF GlobalRows
<1>4. \A asset : LiquidationRows(S, asset) \subseteq LiquidationRows(T, asset)
  BY Zenon DEF LiquidationRows
<1>5. \A asset : Rates(S, asset) \subseteq Rates(T, asset)
  BY Zenon DEF Rates
<1>6. \A asset, ages : Interest(S, asset, ages) \subseteq Interest(T, asset, ages)
  BY Zenon DEF Interest
<1>7. \A asset : SumsOfRows(S, asset) \subseteq SumsOfRows(T, asset)
  <2> DEFINE sum(D, asset) == FiveDayFlow(Of(D, "etf_flows", asset)) * 1000000
  <2>1. \A X, asset : SumsOfRows(X, asset) = {sum(D, asset) : D \in X}
    BY SMT DEF SumsOfRows
  <2> HIDE DEF sum
  <2> QED
    BY <2>1, Zenon
<1> QED
  BY <1>1, <1>2, <1>3, <1>4, <1>5, <1>6, <1>7

\* The metrics but those of the indicator job and the streak.
RowMetrics == KnownMetrics \ (IndicatorMetrics \cup {"etf_net_flow_streak_days"})

\* So a value that is explained stays so when a job commits.
LEMMA ExplainedMore ==
  ASSUME NEW S, NEW T, S \subseteq T, NEW m \in RowMetrics, NEW a, NEW value,
         Explained(S, m, a, value)
  PROVE  Explained(T, m, a, value)
<1>1. CASE m = "etf_cum_flow_5d_usd"
  BY <1>1, RowsOfMore, Zenon DEF Explained
<1>2. CASE m # "etf_cum_flow_5d_usd"
  <2> SUFFICES Meaning(S, m, a) \subseteq Meaning(T, m, a)
    BY <1>2, Zenon DEF Explained, BorneOut
  <2>1. CASE m \in {"fear_greed_index", "btc_dominance"}
    <3>1. \A X : Meaning(X, m, a) = {x.value : x \in GlobalRows(X, m, Fresh)}
      BY <2>1, SMT DEF Meaning, IndicatorMetrics
    <3> QED
      BY <3>1, RowsOfMore, SMT
  <2>2. CASE m = "btc_dominance_change_7d_pct"
    <3> DEFINE before(X) == (UNION {ClosestGlobal(D, "btc_dominance") : D \in X}) \ {None}
    <3>1. \A X : Meaning(X, m, a) =
            {x.value - y.value : x \in GlobalRows(X, "btc_dominance", Ever), y \in before(X)}
      BY <2>2, SMT DEF Meaning, IndicatorMetrics
    <3>2. before(S) \subseteq before(T)
      BY Zenon
    <3>3. GlobalRows(S, "btc_dominance", Ever) \subseteq GlobalRows(T, "btc_dominance", Ever)
      BY RowsOfMore, Zenon
    <3> HIDE DEF before
    <3> DEFINE minus(x, y) == x.value - y.value
               changes(A, B) == {minus(x, y) : x \in A, y \in B}
    <3>4. \A X : Meaning(X, m, a) = changes(GlobalRows(X, "btc_dominance", Ever), before(X))
      BY <3>1
    <3> HIDE DEF minus
    <3>5. \A A, B, C, D : A \subseteq C /\ B \subseteq D => changes(A, B) \subseteq changes(C, D)
      OBVIOUS
    <3> HIDE DEF changes
    <3> QED
      BY <3>2, <3>3, <3>4, <3>5, SMT
  <2>3. CASE m = "funding_rate_avg"
    <3>1. \A X : Meaning(X, m, a) = {FundingRateAvg(rows) : rows \in Rates(X, a)}
      BY <2>3, SMT DEF Meaning, IndicatorMetrics
    <3> QED
      BY <3>1, RowsOfMore, SMT
  <2>4. CASE m = "funding_dislocation_pct"
    <3>1. \A X : Meaning(X, m, a) = {FundingDislocation(rows) : rows \in Rates(X, a)}
      BY <2>4, SMT DEF Meaning, IndicatorMetrics
    <3> QED
      BY <3>1, RowsOfMore, SMT
  <2>5. CASE m = "oi_change_24h_pct"
    <3>1. \A X : Meaning(X, m, a) =
            {OpenInterestChange(now, before) :
               now \in Interest(X, a, LastHour), before \in Interest(X, a, HourADayAgo)}
      BY <2>5, SMT DEF Meaning, IndicatorMetrics
    <3>2. /\ Interest(S, a, LastHour) \subseteq Interest(T, a, LastHour)
          /\ Interest(S, a, HourADayAgo) \subseteq Interest(T, a, HourADayAgo)
      BY RowsOfMore, Zenon
    <3> DEFINE changes(A, B) == {OpenInterestChange(x, y) : x \in A, y \in B}
    <3>3. \A A, B, C, D : A \subseteq C /\ B \subseteq D => changes(A, B) \subseteq changes(C, D)
      OBVIOUS
    <3>4. \A X : Meaning(X, m, a) = changes(Interest(X, a, LastHour), Interest(X, a, HourADayAgo))
      BY <3>1
    <3> HIDE DEF changes
    <3> QED
      BY <3>2, <3>3, <3>4, SMT
  <2>6. CASE m = "price_change_24h_pct"
    <3>1. \A X : Meaning(X, m, a) = {x.change : x \in Prices(X, a, Fresh)}
      BY <2>6, SMT DEF Meaning, IndicatorMetrics
    <3> QED
      BY <3>1, RowsOfMore, SMT
  <2>7. CASE m = "price_change_7d_pct"
    <3>1. \A X : Meaning(X, m, a) =
            {PriceChange(now, before) : now \in Prices(X, a, Ever), before \in PricesBefore(X, a)}
      BY <2>7, SMT DEF Meaning, IndicatorMetrics
    <3>2. Prices(S, a, Ever) \subseteq Prices(T, a, Ever) /\ PricesBefore(S, a) \subseteq PricesBefore(T, a)
      BY RowsOfMore, Zenon
    <3> DEFINE changes(A, B) == {PriceChange(x, y) : x \in A, y \in B}
    <3>3. \A A, B, C, D : A \subseteq C /\ B \subseteq D => changes(A, B) \subseteq changes(C, D)
      OBVIOUS
    <3>4. \A X : Meaning(X, m, a) = changes(Prices(X, a, Ever), PricesBefore(X, a))
      BY <3>1
    <3> HIDE DEF changes
    <3> QED
      BY <3>2, <3>3, <3>4, SMT
  <2>8. CASE m \in {"liquidations_longs_24h_usd", "liquidations_shorts_24h_usd"}
    <3>1. \A X : Meaning(X, m, a) =
            {x[IF m = "liquidations_longs_24h_usd" THEN "longs" ELSE "shorts"] :
               x \in LiquidationRows(X, a)}
      BY <2>8, SMT DEF Meaning, IndicatorMetrics
    <3> QED
      BY <3>1, RowsOfMore, SMT
  <2>9. CASE m = "price_vs_btc_change_7d_pct"
    <3>1. \A X : Meaning(X, m, a) =
            {PriceVsBtc(p, q, b, c) :
               p \in Prices(X, a, Ever), q \in PricesBefore(X, a),
               b \in Prices(X, "BTC", Ever), c \in PricesBefore(X, "BTC")}
      BY <2>9, SMT DEF Meaning, IndicatorMetrics
    <3>2. /\ Prices(S, a, Ever) \subseteq Prices(T, a, Ever)
          /\ PricesBefore(S, a) \subseteq PricesBefore(T, a)
          /\ Prices(S, "BTC", Ever) \subseteq Prices(T, "BTC", Ever)
          /\ PricesBefore(S, "BTC") \subseteq PricesBefore(T, "BTC")
      BY RowsOfMore, Zenon
    <3> DEFINE changes(A, B, C, D) ==
                 {PriceVsBtc(p, q, b, c) : p \in A, q \in B, b \in C, c \in D}
    <3>3. \A A, B, C, D, AA, BB, CC, DD :
            A \subseteq AA /\ B \subseteq BB /\ C \subseteq CC /\ D \subseteq DD =>
              changes(A, B, C, D) \subseteq changes(AA, BB, CC, DD)
      OBVIOUS
    <3>4. \A X : Meaning(X, m, a) =
            changes(Prices(X, a, Ever), PricesBefore(X, a),
                    Prices(X, "BTC", Ever), PricesBefore(X, "BTC"))
      BY <3>1
    <3> HIDE DEF changes
    <3> QED
      BY <3>2, <3>3, <3>4, SMT
  <2> QED
    <3>1. m \in {"fear_greed_index", "btc_dominance", "btc_dominance_change_7d_pct",
                 "funding_rate_avg", "funding_dislocation_pct", "oi_change_24h_pct",
                 "price_change_24h_pct", "price_change_7d_pct", "price_vs_btc_change_7d_pct",
                 "liquidations_longs_24h_usd", "liquidations_shorts_24h_usd"}
      BY <1>2, SMT DEF RowMetrics, KnownMetrics, GlobalMetrics, AssetMetrics, FundingMetrics
    <3> QED
      BY <2>1, <2>2, <2>3, <2>4, <2>5, <2>6, <2>7, <2>8, <2>9, <3>1, Zenon
<1> QED
  BY <1>1, <1>2

\* A task of one metric sets that metric.
LEMMA LoadedOne ==
  ASSUME NEW task, NEW results, NEW a,
         task.metric \notin {"indicators", "prices", "liquidations"}
  PROVE  /\ DOMAIN Loaded(task, results, a) = {task.metric}
         /\ Loaded(task, results, a)[task.metric] = Value(task.metric, results)
<1>1. Loaded(task, results, a) = [m \in {task.metric} |-> Value(m, results)]
  BY SMT DEF Loaded
<1> QED
  BY <1>1, Zenon

\* A row among the newest or closest, if there is one.
LEMMA OneOfChoice ==
  ASSUME NEW S, NEW x \in OneOf(S)
  PROVE  x = None \/ x \in S
BY Zenon DEF OneOf

\* The answer to a query is None or among the rows of the states.
LEMMA AnswersAmong ==
  ASSUME NEW S, NEW D \in S, NEW x
  PROVE  /\ \A asset, ages : x \in LatestPrice(D, asset, ages) =>
              x = None \/ x \in Prices(S, asset, ages)
         /\ \A asset : x \in ClosestPrice(D, asset) => x \in PricesBefore(S, asset)
         /\ \A asset : x \in LatestLiquidation(D, asset) => x = None \/ x \in LiquidationRows(S, asset)
         /\ \A name, ages : x \in LatestGlobal(D, name, ages) =>
              x = None \/ x \in GlobalRows(S, name, ages)
         /\ \A asset : x \in FundingRates(D, asset) => x \in Rates(S, asset)
         /\ \A asset, ages : x \in OpenInterestSum(D, asset, ages) => x \in Interest(S, asset, ages)
<1>1. \A asset, ages : x \in LatestPrice(D, asset, ages) =>
        x = None \/ x \in Prices(S, asset, ages)
  BY OneOfChoice, Zenon DEF LatestPrice, Latest, Prices
<1>2. \A asset : x \in ClosestPrice(D, asset) => x \in PricesBefore(S, asset)
  BY Zenon DEF PricesBefore
<1>3. \A asset : x \in LatestLiquidation(D, asset) => x = None \/ x \in LiquidationRows(S, asset)
  BY OneOfChoice, Zenon DEF LatestLiquidation, Latest, LiquidationRows
<1>4. \A name, ages : x \in LatestGlobal(D, name, ages) => x = None \/ x \in GlobalRows(S, name, ages)
  BY OneOfChoice, Zenon DEF LatestGlobal, Latest, GlobalRows
<1>5. \A asset : x \in FundingRates(D, asset) => x \in Rates(S, asset)
  BY Zenon DEF Rates
<1>6. \A asset, ages : x \in OpenInterestSum(D, asset, ages) => x \in Interest(S, asset, ages)
  BY Zenon DEF Interest
<1> QED
  BY <1>1, <1>2, <1>3, <1>4, <1>5, <1>6, Zenon

\* A change of prices is explained by the rows that it compares.
LEMMA NoPriceChange ==
  ASSUME NEW now, NEW before, now = None \/ before = None
  PROVE  PriceChange(now, before) = None
BY Zenon DEF PriceChange

\* Without one of the four prices there is no comparison.
LEMMA NoComparison ==
  ASSUME NEW p, NEW q, NEW b, NEW c, p = None \/ q = None \/ b = None \/ c = None
  PROVE  PriceVsBtc(p, q, b, c) = None
BY Zenon DEF PriceVsBtc

\* The values of prices are explained.
LEMMA PricesMean ==
  ASSUME NEW S, NEW task, task.metric = "prices", NEW results, AnsweredBy(task, results, S),
         Finished(task, results),
         NEW m \in DOMAIN Loaded(task, results, task.asset)
  PROVE  BorneOut(S, m, task.asset, Loaded(task, results, task.asset)[m])
<1> PICK a : a = task.asset
  OBVIOUS
<1>1. CASE Len(results) = 1
  <2>1. Loaded(task, results, a) = <<>>
    BY <1>1, SMT DEF Loaded
  <2> QED
    BY <2>1
<1>2. CASE Len(results) # 1
  <2>1. Len(results) = 3
    <3>1. Len(<<None>>) = 1
      OBVIOUS
    <3>2. Statements(task.metric) = 3
      BY SMT DEF Statements
    <3> QED
      BY <1>2, <3>1, <3>2, Zenon DEF Finished
  <2>2. PICK D \in S, E \in S, F \in S :
          /\ results[1] \in Answers(task, 1, D) /\ results[2] \in Answers(task, 2, E)
          /\ results[3] \in Answers(task, 3, F)
    BY <2>1 DEF AnsweredBy
  <2>3. /\ results[1] \in LatestPrice(D, a, Fresh) /\ results[2] \in LatestPrice(E, a, Ever)
        /\ results[3] \in ClosestPrice(F, a)
    BY <2>2, SMT DEF Answers
  <2>4. /\ results[1] = None \/ results[1] \in Prices(S, a, Fresh)
        /\ results[2] = None \/ results[2] \in Prices(S, a, Ever)
        /\ results[3] \in PricesBefore(S, a)
    BY <2>3, AnswersAmong, Zenon
  <2>5. Loaded(task, results, a) =
          [price_change_24h_pct |-> Column(results[1], "change"),
           price_change_7d_pct |-> PriceChange(results[2], results[3])]
    BY <1>2, SMT DEF Loaded
  <2>6. CASE m = "price_change_24h_pct"
    <3>1. Loaded(task, results, a)[m] = Column(results[1], "change")
      BY <2>5, <2>6
    <3>2. Meaning(S, m, a) = {x.change : x \in Prices(S, a, Fresh)}
      BY <2>6, SMT DEF Meaning, IndicatorMetrics
    <3>3. results[1] # None => Column(results[1], "change") = results[1].change
      BY Zenon DEF Column
    <3>4. results[1] = None => Column(results[1], "change") = None
      BY Zenon DEF Column
    <3> QED
      BY <2>4, <3>1, <3>2, <3>3, <3>4, Zenon DEF BorneOut
  <2>7. CASE m = "price_change_7d_pct"
    <3>1. Loaded(task, results, a)[m] = PriceChange(results[2], results[3])
      BY <2>5, <2>7
    <3>2. Meaning(S, m, a) =
            {PriceChange(now, before) : now \in Prices(S, a, Ever), before \in PricesBefore(S, a)}
      BY <2>7, SMT DEF Meaning, IndicatorMetrics
    <3>3. results[2] = None => PriceChange(results[2], results[3]) = None
      BY NoPriceChange, Zenon
    <3>4. results[2] # None => PriceChange(results[2], results[3]) \in Meaning(S, m, a)
      <4> SUFFICES ASSUME results[2] # None PROVE PriceChange(results[2], results[3]) \in Meaning(S, m, a)
        OBVIOUS
      <4>1. results[2] \in Prices(S, a, Ever) /\ results[3] \in PricesBefore(S, a)
        BY <2>4, Zenon
      <4> QED
        BY <3>2, <4>1, SMT
    <3> QED
      BY <3>1, <3>3, <3>4, Zenon DEF BorneOut
  <2> QED
    BY <2>5, <2>6, <2>7
<1> QED
  BY <1>1, <1>2

\* The values of a row of liquidations are explained.
LEMMA LiquidationsMean ==
  ASSUME NEW S, NEW task, task.metric = "liquidations", NEW results, AnsweredBy(task, results, S),
         Finished(task, results),
         NEW m \in DOMAIN Loaded(task, results, task.asset)
  PROVE  BorneOut(S, m, task.asset, Loaded(task, results, task.asset)[m])
<1> PICK a : a = task.asset
  OBVIOUS
<1> PICK rows : rows = LiquidationRows(S, a)
  OBVIOUS
<1>1. PICK D \in S : results[1] \in Answers(task, 1, D)
  <2>1. Len(results) = 1
    BY SMT DEF Finished, Statements
  <2> QED
    BY <2>1 DEF AnsweredBy
<1>2. results[1] \in LatestLiquidation(D, a)
  BY <1>1, SMT DEF Answers
<1>3. results[1] = None \/ results[1] \in rows
  BY <1>2, AnswersAmong, Zenon
<1>4. Loaded(task, results, a) =
        [liquidations_longs_24h_usd |-> Column(results[1], "longs"),
         liquidations_shorts_24h_usd |-> Column(results[1], "shorts")]
  BY SMT DEF Loaded
<1>5. CASE m = "liquidations_longs_24h_usd"
  <2>1. Loaded(task, results, a)[m] = Column(results[1], "longs")
    BY <1>4, <1>5
  <2>2. Meaning(S, m, a) = {x["longs"] : x \in rows}
    BY <1>5, SMT DEF Meaning, IndicatorMetrics
  <2>3. /\ results[1] # None => Column(results[1], "longs") = results[1]["longs"]
        /\ results[1] = None => Column(results[1], "longs") = None
    BY Zenon DEF Column
  <2> QED
    BY <1>3, <2>1, <2>2, <2>3, Zenon DEF BorneOut
<1>6. CASE m = "liquidations_shorts_24h_usd"
  <2>1. Loaded(task, results, a)[m] = Column(results[1], "shorts")
    BY <1>4, <1>6
  <2>2. Meaning(S, m, a) = {x["shorts"] : x \in rows}
    BY <1>6, SMT DEF Meaning, IndicatorMetrics
  <2>3. /\ results[1] # None => Column(results[1], "shorts") = results[1]["shorts"]
        /\ results[1] = None => Column(results[1], "shorts") = None
    BY Zenon DEF Column
  <2> QED
    BY <1>3, <2>1, <2>2, <2>3, Zenon DEF BorneOut
<1> QED
  BY <1>4, <1>5, <1>6

\* The values of the global metrics are explained, for every asset.
LEMMA GlobalMeans ==
  ASSUME NEW S, NEW task, task.metric \in GlobalMetrics, NEW results, AnsweredBy(task, results, S),
         Finished(task, results), NEW a
  PROVE  BorneOut(S, task.metric, a, Loaded(task, results, a)[task.metric])
<1> PICK m : m = task.metric
  OBVIOUS
<1>1. CASE m \in {"fear_greed_index", "btc_dominance"}
  <2> PICK rows : rows = GlobalRows(S, m, Fresh)
    OBVIOUS
  <2>1. PICK D \in S : results[1] \in Answers(task, 1, D)
    <3>1. Len(results) = 1
      BY <1>1, SMT DEF Finished, Statements
    <3> QED
      BY <3>1 DEF AnsweredBy
  <2>2. results[1] \in LatestGlobal(D, m, Fresh)
    BY <1>1, <2>1, SMT DEF Answers
  <2>3. results[1] = None \/ results[1] \in rows
    BY <2>2, AnswersAmong, Zenon
  <2>4. Loaded(task, results, a)[m] = Column(results[1], "value")
    <3>1. Loaded(task, results, a)[m] = Value(m, results)
      BY <1>1, LoadedOne
    <3>2. Value(m, results) = Column(results[1], "value")
      BY <1>1, SMT DEF Value
    <3> QED
      BY <3>1, <3>2, Zenon
  <2>5. Meaning(S, m, a) = {x.value : x \in rows}
    BY <1>1, SMT DEF Meaning, IndicatorMetrics
  <2>6. /\ results[1] # None => Column(results[1], "value") = results[1].value
        /\ results[1] = None => Column(results[1], "value") = None
    BY Zenon DEF Column
  <2> QED
    BY <2>3, <2>4, <2>5, <2>6, Zenon DEF BorneOut
<1>2. CASE m = "btc_dominance_change_7d_pct"
  <2> PICK rows : rows = GlobalRows(S, "btc_dominance", Ever)
    OBVIOUS
  <2> PICK before : before = (UNION {ClosestGlobal(D, "btc_dominance") : D \in S}) \ {None}
    OBVIOUS
  <2>1. PICK D \in S, E \in S : results[1] \in Answers(task, 1, D) /\ results[2] \in Answers(task, 2, E)
    <3>1. Len(results) = 2
      BY <1>2, SMT DEF Finished, Statements
    <3> QED
      BY <3>1 DEF AnsweredBy
  <2>2. /\ results[1] \in LatestGlobal(D, "btc_dominance", Ever)
        /\ results[2] \in ClosestGlobal(E, "btc_dominance")
    BY <1>2, <2>1, SMT DEF Answers
  <2>3. results[1] = None \/ results[1] \in rows
    BY <2>2, AnswersAmong, Zenon
  <2>4. Loaded(task, results, a)[m] = DominanceChange(results[1], results[2])
    <3>1. Loaded(task, results, a)[m] = Value(m, results)
      BY <1>2, LoadedOne
    <3>2. Value(m, results) = DominanceChange(results[1], results[2])
      BY <1>2, SMT DEF Value
    <3> QED
      BY <3>1, <3>2, Zenon
  <2>5. Meaning(S, m, a) =
          {x.value - y.value : x \in rows, y \in before}
    BY <1>2, SMT DEF Meaning, IndicatorMetrics
  <2>6. CASE results[1] = None \/ results[2] = None
    <3>1. DominanceChange(results[1], results[2]) = None
      BY <2>6, Zenon DEF DominanceChange
    <3> QED
      BY <2>4, <3>1, Zenon DEF BorneOut
  <2>7. CASE results[1] # None /\ results[2] # None
    <3>1. \/ DominanceChange(results[1], results[2]) = None
          \/ DominanceChange(results[1], results[2]) = results[1].value - results[2].value
      BY <2>7, Zenon DEF DominanceChange
    <3>2. results[1] \in rows /\ results[2] \in before
      BY <2>2, <2>3, <2>7, Zenon
    <3>3. results[1].value - results[2].value \in Meaning(S, m, a)
      <4> DEFINE minus(x, y) == x.value - y.value
                 pairs(A, B) == {minus(x, y) : x \in A, y \in B}
      <4>1. Meaning(S, m, a) = pairs(rows, before)
        BY <2>5
      <4> HIDE DEF minus
      <4>2. \A A, B : \A x \in A, y \in B : minus(x, y) \in pairs(A, B)
        OBVIOUS
      <4> HIDE DEF pairs
      <4>3. minus(results[1], results[2]) \in Meaning(S, m, a)
        BY <3>2, <4>1, <4>2, SMT
      <4> QED
        BY <4>3, Zenon DEF minus
    <3> QED
      BY <2>4, <3>1, <3>3, Zenon DEF BorneOut
  <2> QED
    BY <2>6, <2>7
<1> QED
  BY <1>1, <1>2 DEF GlobalMetrics

\* So are those of the derived metrics of an asset but the ETF metrics.
LEMMA DerivedMeans ==
  ASSUME NEW S, NEW task,
         NEW k \in 1..6, task.metric = DerivedMetrics[k],
         NEW results, AnsweredBy(task, results, S), Finished(task, results),
         task.metric \notin EtfMetrics
  PROVE  BorneOut(S, task.metric, task.asset, Loaded(task, results, task.asset)[task.metric])
<1> PICK a : a = task.asset
  OBVIOUS
<1> PICK m : m = task.metric
  OBVIOUS
<1>1. \A n \in 1..Statements(m) : \E D \in S : results[n] \in Answers(task, n, D)
  <2>1. m # "prices"
    BY DEF DerivedMetrics
  <2>2. Len(results) = Statements(m)
    BY <2>1, Zenon DEF Finished
  <2> QED
    BY <2>2, Zenon DEF AnsweredBy
<1>2. CASE m = "funding_rate_avg"
  <2>1. results[1] \in Rates(S, a)
    <3>1. Statements(m) = 1 /\ \A D : Answers(task, 1, D) = FundingRates(D, a)
      BY <1>2, SMT DEF Statements, Answers
    <3>2. PICK D \in S : results[1] \in Answers(task, 1, D)
      BY <1>1, <3>1
    <3> QED
      BY <3>1, <3>2, AnswersAmong, Zenon
  <2>2. Loaded(task, results, a)[m] = FundingRateAvg(results[1])
    <3>1. Loaded(task, results, a)[m] = Value(m, results)
      BY <1>2, LoadedOne
    <3>2. Value(m, results) = FundingRateAvg(results[1])
      BY <1>2, SMT DEF Value
    <3> QED
      BY <3>1, <3>2, Zenon
  <2>3. Meaning(S, m, a) = {FundingRateAvg(rows) : rows \in Rates(S, a)}
    BY <1>2, SMT DEF Meaning, IndicatorMetrics
  <2> QED
    BY <2>1, <2>2, <2>3, Zenon DEF BorneOut
<1>3. CASE m = "funding_dislocation_pct"
  <2>1. results[1] \in Rates(S, a)
    <3>1. Statements(m) = 1 /\ \A D : Answers(task, 1, D) = FundingRates(D, a)
      BY <1>3, SMT DEF Statements, Answers
    <3>2. PICK D \in S : results[1] \in Answers(task, 1, D)
      BY <1>1, <3>1
    <3> QED
      BY <3>1, <3>2, AnswersAmong, Zenon
  <2>2. Loaded(task, results, a)[m] = FundingDislocation(results[1])
    <3>1. Loaded(task, results, a)[m] = Value(m, results)
      BY <1>3, LoadedOne
    <3>2. Value(m, results) = FundingDislocation(results[1])
      BY <1>3, SMT DEF Value
    <3> QED
      BY <3>1, <3>2, Zenon
  <2>3. Meaning(S, m, a) = {FundingDislocation(rows) : rows \in Rates(S, a)}
    BY <1>3, SMT DEF Meaning, IndicatorMetrics
  <2> QED
    BY <2>1, <2>2, <2>3, Zenon DEF BorneOut
<1>4. CASE m = "oi_change_24h_pct"
  <2>1. /\ results[1] \in Interest(S, a, LastHour)
        /\ results[2] \in Interest(S, a, HourADayAgo)
    <3>1. /\ Statements(m) = 2 /\ \A D : Answers(task, 1, D) = OpenInterestSum(D, a, LastHour)
          /\ \A D : Answers(task, 2, D) = OpenInterestSum(D, a, HourADayAgo)
      BY <1>4, SMT DEF Statements, Answers
    <3>2. PICK D \in S, E \in S : results[1] \in Answers(task, 1, D) /\ results[2] \in Answers(task, 2, E)
      BY <1>1, <3>1
    <3> QED
      BY <3>1, <3>2, AnswersAmong, Zenon
  <2>2. Loaded(task, results, a)[m] = OpenInterestChange(results[1], results[2])
    <3>1. Loaded(task, results, a)[m] = Value(m, results)
      BY <1>4, LoadedOne
    <3>2. Value(m, results) = OpenInterestChange(results[1], results[2])
      BY <1>4, SMT DEF Value
    <3> QED
      BY <3>1, <3>2, Zenon
  <2>3. Meaning(S, m, a) =
          {OpenInterestChange(now, before) :
             now \in Interest(S, a, LastHour), before \in Interest(S, a, HourADayAgo)}
    BY <1>4, SMT DEF Meaning, IndicatorMetrics
  <2>4. OpenInterestChange(results[1], results[2]) \in Meaning(S, m, a)
    BY <2>1, <2>3, SMT
  <2> QED
    BY <2>2, <2>4, Zenon DEF BorneOut
<1>7. CASE m = "price_vs_btc_change_7d_pct"
  <2>1. PICK D \in S, E \in S, F \in S, G \in S :
          /\ results[1] \in LatestPrice(D, a, Ever) /\ results[2] \in ClosestPrice(E, a)
          /\ results[3] \in LatestPrice(F, "BTC", Ever) /\ results[4] \in ClosestPrice(G, "BTC")
    <3>1. /\ Statements(m) = 4
          /\ \A D : /\ Answers(task, 1, D) = LatestPrice(D, a, Ever)
                   /\ Answers(task, 2, D) = ClosestPrice(D, a)
                   /\ Answers(task, 3, D) = LatestPrice(D, "BTC", Ever)
                   /\ Answers(task, 4, D) = ClosestPrice(D, "BTC")
      BY <1>7, SMT DEF Statements, Answers
    <3> QED
      BY <1>1, <3>1
  <2>2. /\ results[1] = None \/ results[1] \in Prices(S, a, Ever)
        /\ results[2] \in PricesBefore(S, a)
        /\ results[3] = None \/ results[3] \in Prices(S, "BTC", Ever)
        /\ results[4] \in PricesBefore(S, "BTC")
    BY <2>1, AnswersAmong, Zenon
  <2>3. Loaded(task, results, a)[m] = PriceVsBtc(results[1], results[2], results[3], results[4])
    <3>1. Loaded(task, results, a)[m] = Value(m, results)
      BY <1>7, LoadedOne
    <3>2. Value(m, results) = PriceVsBtc(results[1], results[2], results[3], results[4])
      BY <1>7, SMT DEF Value
    <3> QED
      BY <3>1, <3>2, Zenon
  <2>4. Meaning(S, m, a) =
          {PriceVsBtc(p, q, b, c) :
             p \in Prices(S, a, Ever), q \in PricesBefore(S, a),
             b \in Prices(S, "BTC", Ever), c \in PricesBefore(S, "BTC")}
    BY <1>7, SMT DEF Meaning, IndicatorMetrics
  <2>5. results[1] = None \/ results[3] = None =>
          PriceVsBtc(results[1], results[2], results[3], results[4]) = None
    BY NoComparison
  <2>6. results[1] # None /\ results[3] # None =>
          PriceVsBtc(results[1], results[2], results[3], results[4]) \in Meaning(S, m, a)
    <3> SUFFICES ASSUME results[1] # None, results[3] # None
                 PROVE  PriceVsBtc(results[1], results[2], results[3], results[4]) \in Meaning(S, m, a)
      OBVIOUS
    <3>1. /\ results[1] \in Prices(S, a, Ever) /\ results[2] \in PricesBefore(S, a)
          /\ results[3] \in Prices(S, "BTC", Ever) /\ results[4] \in PricesBefore(S, "BTC")
      BY <2>2, Zenon
    <3> QED
      BY <2>4, <3>1, SMT
  <2> QED
    BY <2>3, <2>5, <2>6, Zenon DEF BorneOut
<1> QED
  <2>1. m \in {"funding_rate_avg", "funding_dislocation_pct", "oi_change_24h_pct",
               "price_vs_btc_change_7d_pct"}
    BY DEF DerivedMetrics, EtfMetrics
  <2> QED
    BY <1>2, <1>3, <1>4, <1>7, <2>1

\* The five-day flow is a sum of the rows.
LEMMA FlowExplained ==
  ASSUME NEW S, NEW task, task.metric = "etf_cum_flow_5d_usd", NEW results,
         AnsweredBy(task, results, S), Finished(task, results)
  PROVE  Explained(S, task.metric, task.asset, Loaded(task, results, task.asset)[task.metric])
<1> PICK a : a = task.asset
  OBVIOUS
<1> PICK m : m = task.metric
  OBVIOUS
<1>1. PICK D \in S : results[1] \in FlowSum(D, a)
  <2>1. Statements(m) = 1 /\ \A D : Answers(task, 1, D) = FlowSum(D, a)
    BY SMT DEF Statements, Answers
  <2>2. Len(results) = 1
    BY <2>1, SMT DEF Finished
  <2> QED
    BY <2>1, <2>2, SMT DEF AnsweredBy
<1> PICK total : total = FiveDayFlow(Of(D, "etf_flows", a))
  OBVIOUS
<1>2. results[1] = None \/ results[1] = total
  BY <1>1, Zenon DEF FlowSum, SumOrNone, FiveDayFlow
<1>3. Loaded(task, results, a)[m] = CumulativeFlow(results[1])
  <2>1. Loaded(task, results, a)[m] = Value(m, results)
    BY LoadedOne
  <2>2. Value(m, results) = CumulativeFlow(results[1])
    BY SMT DEF Value
  <2> QED
    BY <2>1, <2>2, Zenon
<1>4. total * 1000000 \in SumsOfRows(S, a)
  BY SMT DEF SumsOfRows
<1>5. /\ results[1] = None => CumulativeFlow(results[1]) = None
      /\ results[1] # None => CumulativeFlow(results[1]) = results[1] * 1000000
  BY SMT DEF CumulativeFlow
<1> QED
  BY <1>2, <1>3, <1>4, <1>5, SMT DEF Explained

\* What a finished task sets, but for the metrics of the indicator job, is
\* explained by the rows that its statements saw.
LEMMA LoadedMeans ==
  ASSUME NEW S, NEW task \in TaskSet, NEW results, AnsweredBy(task, results, S),
         Finished(task, results),
         NEW a \in StageAAssets, task.asset \in {a, "all"},
         NEW m \in RowMetrics, m \in DOMAIN Loaded(task, results, a)
  PROVE  Explained(S, m, a, Loaded(task, results, a)[m])
<1>1. task.metric \in TaskNames /\ (task.metric \notin GlobalTasks => task.asset = a)
  BY DEF TaskSet
<1>2. CASE task.metric = "indicators"
  <2>1. DOMAIN Loaded(task, results, a) = IndicatorMetrics
    BY <1>2, SMT DEF Loaded
  <2> QED
    BY <2>1, Zenon DEF RowMetrics
<1>3. CASE task.metric = "prices"
  <2>1. task.asset = a
    BY <1>1, <1>3 DEF GlobalTasks
  <2>2. BorneOut(S, m, a, Loaded(task, results, a)[m])
    BY <1>3, <2>1, PricesMean, Zenon
  <2>3. m # "etf_cum_flow_5d_usd"
    <3>1. DOMAIN Loaded(task, results, a) \subseteq {"price_change_24h_pct", "price_change_7d_pct"}
      BY <1>3, SMT DEF Loaded
    <3> QED
      BY <3>1, SMT
  <2> QED
    BY <2>2, <2>3, Zenon DEF Explained
<1>4. CASE task.metric = "liquidations"
  <2>1. task.asset = a
    BY <1>1, <1>4 DEF GlobalTasks
  <2>2. BorneOut(S, m, a, Loaded(task, results, a)[m])
    BY <1>4, <2>1, LiquidationsMean, Zenon
  <2>3. m # "etf_cum_flow_5d_usd"
    <3>1. DOMAIN Loaded(task, results, a) =
            {"liquidations_longs_24h_usd", "liquidations_shorts_24h_usd"}
      BY <1>4, SMT DEF Loaded
    <3> QED
      BY <3>1, SMT
  <2> QED
    BY <2>2, <2>3, Zenon DEF Explained
<1>5. CASE task.metric \notin {"indicators", "prices", "liquidations"}
  <2>1. DOMAIN Loaded(task, results, a) = {task.metric}
    BY <1>5, LoadedOne
  <2>2. m = task.metric
    BY <2>1
  <2>3. CASE m \in GlobalMetrics
    <3>1. BorneOut(S, m, a, Loaded(task, results, a)[m])
      BY <2>2, <2>3, GlobalMeans, Zenon
    <3>2. m # "etf_cum_flow_5d_usd"
      BY <2>3, SMT DEF GlobalMetrics
    <3> QED
      BY <3>1, <3>2, Zenon DEF Explained
  <2>4. CASE m \notin GlobalMetrics
    <3>1. m \notin GlobalTasks
      BY <1>5, <2>2, <2>4 DEF GlobalTasks, GlobalMetrics
    <3>2. task.asset = a
      BY <1>1, <2>2, <3>1
    <3>3. m \in {"funding_rate_avg", "funding_dislocation_pct", "oi_change_24h_pct",
                 "etf_net_flow_streak_days", "etf_cum_flow_5d_usd", "price_vs_btc_change_7d_pct"}
      <4>1. m # "premium_discount_pct"
        BY DEF RowMetrics, IndicatorMetrics
      <4> QED
        BY <1>1, <1>5, <2>2, <2>4, <4>1 DEF TaskNames, GlobalMetrics
    <3>4. \E k \in 1..6 : m = DerivedMetrics[k]
      <4>1. /\ DerivedMetrics[1] = "funding_rate_avg" /\ DerivedMetrics[2] = "funding_dislocation_pct"
            /\ DerivedMetrics[3] = "oi_change_24h_pct" /\ DerivedMetrics[4] = "etf_net_flow_streak_days"
            /\ DerivedMetrics[5] = "etf_cum_flow_5d_usd"
            /\ DerivedMetrics[6] = "price_vs_btc_change_7d_pct"
        BY DEF DerivedMetrics
      <4>2. 1 \in 1..6 /\ 2 \in 1..6 /\ 3 \in 1..6 /\ 4 \in 1..6 /\ 5 \in 1..6 /\ 6 \in 1..6
        OBVIOUS
      <4> QED
        BY <3>3, <4>1, <4>2, Zenon
    <3>5. PICK k \in 1..6 : task.metric = DerivedMetrics[k]
      BY <2>2, <3>4, Zenon
    <3>6. CASE m = "etf_cum_flow_5d_usd"
      BY <2>2, <3>2, <3>6, FlowExplained, Zenon
    <3>7. CASE m # "etf_cum_flow_5d_usd"
      <4>1. task.metric \notin EtfMetrics
        BY <2>2, <3>7 DEF RowMetrics, EtfMetrics
      <4>2. BorneOut(S, m, a, Loaded(task, results, a)[m])
        BY <2>2, <3>2, <3>5, <4>1, DerivedMeans, Zenon
      <4> QED
        BY <3>7, <4>2, Zenon DEF Explained
    <3> QED
      BY <3>6, <3>7
  <2> QED
    BY <2>3, <2>4
<1> QED
  BY <1>2, <1>3, <1>4, <1>5

----------------------------------------------------------------------------
(* The invariant of a snapshot *)

\* Until a job commits there is one state of the rows, that of the transactions
\* committed so far.
RowsInv == late = {} => seen = {db} /\ db = SavedAll(DOMAIN Batches \ open)

\* The statements of the task that is being loaded saw some of the states,
ResultsInv == got \in Seq(ToSet(got)) /\ (got = <<>> \/ AnsweredBy(Tasks[position], got, seen))

\* as did those of the tasks before it.
ValuesInv ==
  \A a \in DOMAIN snapshot : \A m \in RowMetrics : Explained(seen, m, a, snapshot[a][m])

\* The lists that recent_etf_flows may return on the states S.
FlowLists(S, asset) == UNION {RecentFlows(D, asset) : D \in S}

\* The streaks before it are those of such lists.
StreaksInv ==
  lost = {} => \A i \in 1..Len(Tasks), a \in DOMAIN snapshot :
    i < position /\ Tasks[i] = Task("etf_net_flow_streak_days", a) =>
      \E s \in FlowLists(seen, a) : snapshot[a]["etf_net_flow_streak_days"] = Streak(s)

\* When all tasks are done, the matches are those of the snapshot.
DoneInv == state = "done" => position > Len(Tasks) /\ matches = EvaluatePatterns(snapshot)

\* All of this holds at any time.
ExplainedInv ==
  /\ open \in SUBSET DOMAIN Batches /\ DOMAIN snapshot = ToSet(Assets) /\ db \in seen
  /\ DoneInv /\ RowsInv /\ ResultsInv /\ ValuesInv /\ StreaksInv

\* The assets of a snapshot are Stage A assets.
LEMMA SnapshotAssets ==
  ASSUME ExplainedInv, NEW a \in DOMAIN snapshot
  PROVE  a \in StageAAssets
<1>1. a \in ToSet(Assets)
  BY Zenon DEF ExplainedInv
<1>2. Assets \in Seq(StageAAssets)
  BY SnapshotAssumption
<1>3. ToSet(Assets) \subseteq StageAAssets
  BY <1>2 DEF ToSet
<1> QED
  BY <1>1, <1>3

\* The values of a new snapshot are missing, which needs no explanation.
LEMMA ExplainedInit == ASSUME Init PROVE ExplainedInv
<1>1. /\ open \in SUBSET DOMAIN Batches /\ DOMAIN snapshot = ToSet(Assets) /\ db \in seen
      /\ RowsInv
  BY Zenon DEF Init, RowsInv
<1>2. DoneInv
  BY DEF Init, DoneInv
<1>3. ResultsInv
  <2>1. <<>> \in Seq(ToSet(<<>>))
    OBVIOUS
  <2> QED
    BY <2>1, Zenon DEF Init, ResultsInv
<1>4. ValuesInv
  <2>1. RowMetrics \subseteq KnownMetrics
    BY Zenon DEF RowMetrics
  <2> QED
    BY <2>1, Zenon DEF Init, ValuesInv, Explained, BorneOut
<1>5. StreaksInv
  <2>1. position = 1 /\ \A i \in 1..Len(Tasks) : ~(i < 1)
    BY TasksType DEF Init
  <2> QED
    BY <2>1, Zenon DEF StreaksInv
<1> QED
  BY <1>1, <1>2, <1>3, <1>4, <1>5, Zenon DEF ExplainedInv

\* One more answer.
LEMMA AnsweredNext ==
  ASSUME NEW task, NEW S, NEW D \in S, NEW results, results \in Seq(ToSet(results)),
         results = <<>> \/ AnsweredBy(task, results, S),
         NEW answer \in Answers(task, Len(results) + 1, D)
  PROVE  /\ AnsweredBy(task, Append(results, answer), S)
         /\ Append(results, answer) \in Seq(ToSet(Append(results, answer)))
<1> PICK R : R = ToSet(results)
  OBVIOUS
<1> PICK t : t = Append(results, answer)
  OBVIOUS
<1>1. /\ results \in Seq(R \cup {answer}) /\ Len(results) \in Nat
      /\ t \in Seq(R \cup {answer}) /\ Len(t) = Len(results) + 1 /\ t[Len(t)] = answer
      /\ DOMAIN t = 1..Len(t)
      /\ \A n \in 1..Len(results) : t[n] = results[n]
  OBVIOUS
<1>2. \A n \in 1..Len(results) : \E E \in S : results[n] \in Answers(task, n, E)
  <2>1. CASE results = <<>>
    BY <1>1, <2>1
  <2>2. CASE AnsweredBy(task, results, S)
    BY <2>2, Zenon DEF AnsweredBy
  <2> QED
    BY <2>1, <2>2
<1>3. \A n \in 1..Len(t) : n \in 1..Len(results) \/ n = Len(t)
  BY <1>1
<1>4. \A n \in 1..Len(t) : \E E \in S : t[n] \in Answers(task, n, E)
  BY <1>1, <1>2, <1>3, Zenon
<1>5. t \in Seq(ToSet(t))
  <2>1. ToSet(t) = {t[n] : n \in 1..Len(t)}
    BY <1>1, Zenon DEF ToSet
  <2>2. \A n \in 1..Len(t) : t[n] \in ToSet(t)
    BY <2>1, Zenon
  <2> QED
    BY <1>1, <2>2
<1>6. Len(t) \in Nat
  BY <1>1
<1> QED
  BY <1>4, <1>5, <1>6, Zenon DEF AnsweredBy

\* A finished task sets the streak of an asset if it is its task.
LEMMA LoadedStreak ==
  ASSUME NEW task \in TaskSet, NEW a \in StageAAssets, task.asset \in {a, "all"},
         NEW results
  PROVE  /\ "etf_net_flow_streak_days" \in DOMAIN Loaded(task, results, a) =>
              task = Task("etf_net_flow_streak_days", a)
         /\ task = Task("etf_net_flow_streak_days", a) =>
              /\ "etf_net_flow_streak_days" \in DOMAIN Loaded(task, results, a)
              /\ Loaded(task, results, a)["etf_net_flow_streak_days"] = Streak(results[1])
<1> PICK streak : streak = "etf_net_flow_streak_days"
  OBVIOUS
<1>1. CASE task.metric \in {"indicators", "prices", "liquidations"}
  <2>1. streak \notin DOMAIN Loaded(task, results, a)
    <3>1. CASE task.metric = "indicators"
      <4>1. DOMAIN Loaded(task, results, a) = IndicatorMetrics
        BY <3>1, SMT DEF Loaded
      <4> QED
        BY <4>1, SMT DEF IndicatorMetrics
    <3>2. CASE task.metric = "prices"
      <4>1. DOMAIN Loaded(task, results, a) \subseteq {"price_change_24h_pct", "price_change_7d_pct"}
        BY <3>2, SMT DEF Loaded
      <4> QED
        BY <4>1, SMT
    <3>3. CASE task.metric = "liquidations"
      <4>1. DOMAIN Loaded(task, results, a) =
              {"liquidations_longs_24h_usd", "liquidations_shorts_24h_usd"}
        BY <3>3, SMT DEF Loaded
      <4> QED
        BY <4>1, SMT
    <3> QED
      BY <1>1, <3>1, <3>2, <3>3
  <2>2. task # Task(streak, a)
    BY <1>1, SMT DEF Task
  <2> QED
    BY <2>1, <2>2, Zenon
<1>2. CASE task.metric \notin {"indicators", "prices", "liquidations"}
  <2>1. /\ DOMAIN Loaded(task, results, a) = {task.metric}
        /\ Loaded(task, results, a)[task.metric] = Value(task.metric, results)
    BY <1>2, LoadedOne, Zenon
  <2>2. task = Task(streak, a) <=> task.metric = streak
    <3>1. task.metric = streak => task.asset = a /\ task \in [metric : TaskNames, asset : StageAAssets \cup {"all"}]
      BY SMT DEF TaskSet, GlobalTasks
    <3> QED
      BY <3>1, SMT DEF Task
  <2>3. Value(streak, results) = Streak(results[1])
    BY SMT DEF Value
  <2> QED
    BY <2>1, <2>2, <2>3, Zenon
<1> QED
  BY <1>1, <1>2

\* A statement returns: the rows it saw explain its answer, and the metrics that
\* a finished task sets.
LEMMA QueryExplained ==
  ASSUME IndicatorsInv, IndicatorsInv', ExplainedInv, Query
  PROVE  ExplainedInv'
<1>1. PICK answer \in Answers(Tasks[position], Len(got) + 1, db) :
        IF Finished(Tasks[position], Append(got, answer))
        THEN /\ snapshot' = [a \in DOMAIN snapshot |->
                  IF Tasks[position].asset \in {a, "all"}
                  THEN Updated(snapshot[a], Loaded(Tasks[position], Append(got, answer), a))
                  ELSE snapshot[a]]
             /\ position' = Following(position)
             /\ got' = <<>>
        ELSE got' = Append(got, answer) /\ snapshot' = snapshot /\ position' = position
  BY Zenon DEF Query
<1>2. /\ UNCHANGED <<db, open, late, seen, lost, state, matches>>
      /\ state = "building" /\ position \in Nat /\ position \in 1..Len(Tasks)
  BY DEF Query, IndicatorsInv, Partial, Loading
<1> PICK task : task = Tasks[position]
  OBVIOUS
<1> PICK results : results = Append(got, answer)
  OBVIOUS
<1>3. task \in TaskSet
  BY <1>2, TasksType
<1>4. DoneInv'
  BY <1>2 DEF DoneInv
<1>5. /\ open' \in SUBSET DOMAIN Batches /\ DOMAIN snapshot = ToSet(Assets)
      /\ db \in seen /\ db' \in seen' /\ RowsInv'
  BY <1>2, Zenon DEF ExplainedInv, RowsInv
<1>6. DOMAIN snapshot' = DOMAIN snapshot
  <2>1. CASE Finished(task, results)
    BY <1>1, <2>1, Zenon
  <2>2. CASE ~Finished(task, results)
    BY <1>1, <2>2, Zenon
  <2> QED
    BY <2>1, <2>2
<1>7. ResultsInv' /\ ValuesInv' /\ StreaksInv'
  <2>1. ResultsInv /\ ValuesInv /\ StreaksInv
    BY Zenon DEF ExplainedInv
  <2>3. AnsweredBy(task, results, seen) /\ results \in Seq(ToSet(results))
    BY <1>5, <2>1, AnsweredNext, Zenon DEF ResultsInv
  <2>4. CASE ~Finished(task, results)
    <3>1. got' = results /\ UNCHANGED <<snapshot, position, seen, lost>>
      BY <1>1, <1>2, <2>4, Zenon
    <3>2. ResultsInv'
      BY <2>3, <3>1, Zenon DEF ResultsInv
    <3>3. ValuesInv' /\ StreaksInv'
      BY <2>1, <3>1, Zenon DEF ValuesInv, StreaksInv
    <3> QED
      BY <3>2, <3>3
  <2>5. CASE Finished(task, results)
    <3>1. got' = <<>> /\ position' = Following(position) /\ seen' = seen /\ lost' = lost
      BY <1>1, <1>2, <2>5, Zenon
    <3>2. ASSUME NEW a \in DOMAIN snapshot
          PROVE  snapshot'[a] = IF task.asset \in {a, "all"}
                                THEN Updated(snapshot[a], Loaded(task, results, a))
                                ELSE snapshot[a]
      BY <1>1, <2>5, Zenon
    <3>3. \A a \in DOMAIN snapshot : DOMAIN snapshot[a] = KnownMetrics
      BY Zenon DEF IndicatorsInv, SnapshotInv
    <3>4. ResultsInv'
      <4>1. <<>> \in Seq(ToSet(<<>>))
        OBVIOUS
      <4> QED
        BY <3>1, <4>1, Zenon DEF ResultsInv
    <3>5. ASSUME NEW a \in DOMAIN snapshot, NEW m \in RowMetrics
          PROVE  Explained(seen, m, a, snapshot'[a][m])
      <4>1. a \in StageAAssets
        BY SnapshotAssets, Zenon
      <4>2. Explained(seen, m, a, snapshot[a][m]) /\ m \in KnownMetrics
        BY <2>1, Zenon DEF ValuesInv, RowMetrics
      <4>4. CASE task.asset \notin {a, "all"}
        <5>1. snapshot'[a] = snapshot[a]
          BY <3>2, <4>4, Zenon
        <5> QED
          BY <4>2, <5>1, Zenon
      <4>5. CASE task.asset \in {a, "all"}
        <5> PICK new : new = Loaded(task, results, a)
          OBVIOUS
        <5>1. snapshot'[a] = Updated(snapshot[a], new)
          BY <3>2, <4>5, Zenon
        <5>2. snapshot'[a][m] = IF m \in DOMAIN new THEN new[m] ELSE snapshot[a][m]
          BY <3>3, <4>2, <5>1, Zenon DEF Updated
        <5>3. ASSUME m \in DOMAIN new PROVE Explained(seen, m, a, new[m])
          BY <1>3, <2>3, <2>5, <4>1, <4>5, <5>3, LoadedMeans, Zenon
        <5> QED
          BY <4>2, <5>2, <5>3, Zenon
      <4> QED
        BY <4>4, <4>5, Zenon
    <3>6. ValuesInv'
      BY <1>6, <3>1, <3>5, Zenon DEF ValuesInv
    <3>7. ASSUME lost = {}, NEW i \in 1..Len(Tasks), NEW a \in DOMAIN snapshot,
                 i < position', Tasks[i] = Task("etf_net_flow_streak_days", a)
          PROVE  \E s \in FlowLists(seen, a) :
                   snapshot'[a]["etf_net_flow_streak_days"] = Streak(s)
      <4> PICK streak : streak = "etf_net_flow_streak_days"
        OBVIOUS
      <4>1. a \in StageAAssets
        BY SnapshotAssets, Zenon
      <4>2. i < position \/ i = position
        <5>1. i <= position \/ (i = position + 1 /\ ComparesItself(position + 1))
          <6>1. position' = IF ComparesItself(position + 1) THEN position + 2 ELSE position + 1
            BY <3>1, Zenon DEF Following
          <6> QED
            BY <1>2, <3>7, <6>1
        <5>2. ~(i = position + 1 /\ ComparesItself(position + 1))
          <6> SUFFICES ASSUME i = position + 1, ComparesItself(position + 1) PROVE FALSE
            OBVIOUS
          <6>1. Task("price_vs_btc_change_7d_pct", "BTC") = Task(streak, a)
            BY <3>7, Zenon DEF ComparesItself
          <6> QED
            BY <6>1 DEF Task
        <5> QED
          BY <1>2, <5>1, <5>2
      <4>3. streak \in KnownMetrics
        BY DEF KnownMetrics, AssetMetrics
      <4>4. CASE task = Task(streak, a)
        <5>1. task.asset = a /\ task.metric = streak
          BY <4>4 DEF Task
        <5> PICK new : new = Loaded(task, results, a)
          OBVIOUS
        <5>2. streak \in DOMAIN new /\ new[streak] = Streak(results[1])
          <6>1. task.asset \in {a, "all"}
            BY <5>1, Zenon
          <6>2. task = Task("etf_net_flow_streak_days", a)
            BY <4>4, Zenon
          <6> QED
            BY <1>3, <4>1, <6>1, <6>2, LoadedStreak
        <5>3. snapshot'[a] = Updated(snapshot[a], new)
          BY <3>2, <5>1, Zenon
        <5>4. snapshot'[a][streak] = Streak(results[1])
          BY <3>3, <4>3, <5>2, <5>3, Zenon DEF Updated
        <5>5. results[1] \in FlowLists(seen, a)
          <6>1. Len(results) = 1
            BY <2>5, <5>1, SMT DEF Finished, Statements
          <6>2. PICK D \in seen : results[1] \in Answers(task, 1, D)
            BY <2>3, <6>1, SMT DEF AnsweredBy
          <6>3. results[1] \in RecentFlows(D, a)
            BY <5>1, <6>2, SMT DEF Answers
          <6> QED
            BY <6>2, <6>3, Zenon DEF FlowLists
        <5> QED
          BY <5>4, <5>5, Zenon
      <4>5. CASE task # Task(streak, a)
        <5>1. i < position
          BY <3>7, <4>2, <4>5, Zenon
        <5>2. \E s \in FlowLists(seen, a) : snapshot[a][streak] = Streak(s)
          BY <2>1, <3>7, <5>1, Zenon DEF StreaksInv
        <5>3. snapshot'[a][streak] = snapshot[a][streak]
          <6>1. CASE task.asset \notin {a, "all"}
            BY <3>2, <6>1, Zenon
          <6>2. CASE task.asset \in {a, "all"}
            <7> PICK new : new = Loaded(task, results, a)
              OBVIOUS
            <7>1. streak \notin DOMAIN new
              BY <1>3, <4>1, <4>5, <6>2, LoadedStreak, Zenon
            <7>2. snapshot'[a] = Updated(snapshot[a], new)
              BY <3>2, <6>2, Zenon
            <7> QED
              BY <3>3, <4>3, <7>1, <7>2, Zenon DEF Updated
          <6> QED
            BY <6>1, <6>2
        <5> QED
          BY <5>2, <5>3, Zenon
      <4> QED
        BY <4>4, <4>5
    <3>8. StreaksInv'
      BY <1>6, <3>1, <3>7, Zenon DEF StreaksInv
    <3> QED
      BY <3>4, <3>6, <3>8
  <2> QED
    BY <2>4, <2>5
<1> QED
  BY <1>4, <1>5, <1>6, <1>7, Zenon DEF ExplainedInv

\* The other steps keep it, too: a commit adds a state of the rows, which bear
\* out what they did.
LEMMA OtherExplained ==
  ASSUME ExplainedInv, IndicatorsInv,
         DirectFails \/ DerivedFails \/ Evaluate
           \/ (\E b \in DOMAIN Batches : Commit(b)) \/ UNCHANGED vars
  PROVE  ExplainedInv'
<1>1. CASE DirectFails \/ UNCHANGED vars
  <2>1. UNCHANGED <<db, open, late, seen, position, got, lost, snapshot, matches>>
    BY <1>1 DEF DirectFails, vars
  <2>2. DoneInv'
    BY <1>1 DEF DirectFails, vars, ExplainedInv, DoneInv
  <2>3. UNCHANGED <<RowsInv, ResultsInv, ValuesInv, StreaksInv>>
    BY <2>1, Zenon DEF RowsInv, ResultsInv, ValuesInv, StreaksInv
  <2> QED
    BY <2>1, <2>2, <2>3, Zenon DEF ExplainedInv
<1>2. CASE DerivedFails
  <2>1. /\ UNCHANGED <<db, open, late, seen, snapshot, matches, state>>
        /\ got' = <<>> /\ position \in lost' /\ state = "building"
    BY <1>2 DEF DerivedFails, Loading
  <2>2. DoneInv'
    BY <2>1 DEF DoneInv
  <2>3. UNCHANGED <<RowsInv, ValuesInv>>
    BY <2>1, Zenon DEF RowsInv, ValuesInv
  <2>4. ResultsInv'
    <3>1. <<>> \in Seq(ToSet(<<>>))
      OBVIOUS
    <3> QED
      BY <2>1, <3>1, Zenon DEF ResultsInv
  <2>5. StreaksInv'
    BY <2>1, Zenon DEF StreaksInv
  <2> QED
    BY <2>1, <2>2, <2>3, <2>4, <2>5, Zenon DEF ExplainedInv
<1>3. CASE Evaluate
  <2>1. /\ UNCHANGED <<db, open, late, seen, position, got, lost, snapshot>>
        /\ matches' = EvaluatePatterns(snapshot) /\ position > Len(Tasks)
    BY <1>3 DEF Evaluate
  <2>2. DoneInv'
    BY <2>1, Zenon DEF DoneInv
  <2>3. UNCHANGED <<RowsInv, ResultsInv, ValuesInv, StreaksInv>>
    BY <2>1, Zenon DEF RowsInv, ResultsInv, ValuesInv, StreaksInv
  <2> QED
    BY <2>1, <2>2, <2>3, Zenon DEF ExplainedInv
<1>4. CASE \E b \in DOMAIN Batches : Commit(b)
  <2>1. PICK b \in DOMAIN Batches : Commit(b)
    BY <1>4, Zenon
  <2>2. /\ open' = open \ {b} /\ late' = late \cup {b} /\ state = "building"
        /\ seen' = seen \cup {db'}
        /\ UNCHANGED <<position, got, lost, snapshot, state, matches>>
    BY <2>1 DEF Commit
  <2>3. /\ late' # {} /\ open' \in SUBSET DOMAIN Batches /\ DOMAIN snapshot' = ToSet(Assets)
        /\ seen \subseteq seen' /\ db' \in seen'
    BY <2>2, Zenon DEF ExplainedInv
  <2>4. DoneInv' /\ RowsInv'
    BY <2>2, <2>3 DEF DoneInv, RowsInv
  <2>5. ResultsInv'
    <3>1. got = <<>> \/ AnsweredBy(Tasks[position], got, seen')
      BY <2>3, AnsweredMore, Zenon DEF ExplainedInv, ResultsInv
    <3> QED
      BY <2>2, <3>1, Zenon DEF ExplainedInv, ResultsInv
  <2>6. ValuesInv'
    <3>1. ASSUME NEW a \in DOMAIN snapshot, NEW m \in RowMetrics
          PROVE  Explained(seen', m, a, snapshot[a][m])
      <4>1. Explained(seen, m, a, snapshot[a][m])
        BY Zenon DEF ExplainedInv, ValuesInv
      <4> QED
        BY <2>3, <4>1, ExplainedMore, Zenon
    <3> QED
      BY <2>2, <3>1, Zenon DEF ValuesInv
  <2>7. StreaksInv'
    <3>1. \A a : FlowLists(seen, a) \subseteq FlowLists(seen', a)
      BY <2>3, Zenon DEF FlowLists
    <3> QED
      BY <2>2, <3>1, Zenon DEF ExplainedInv, StreaksInv
  <2> QED
    BY <2>3, <2>4, <2>5, <2>6, <2>7, Zenon DEF ExplainedInv
<1> QED
  BY <1>1, <1>2, <1>3, <1>4

\* ExplainedInv is an invariant.
LEMMA ExplainedInvariant ==
  ASSUME WrittenByJob
  PROVE  Spec => [](IndicatorsInv /\ ExplainedInv)
<1>1. Init => IndicatorsInv /\ ExplainedInv
  BY IndicatorsInit, ExplainedInit
<1>2. IndicatorsInv /\ ExplainedInv /\ [Next]_vars => (IndicatorsInv /\ ExplainedInv)'
  <2> SUFFICES ASSUME IndicatorsInv, ExplainedInv, [Next]_vars
               PROVE  (IndicatorsInv /\ ExplainedInv)'
    OBVIOUS
  <2>1. IndicatorsInv'
    BY QueryIndicators, EvaluateIndicators, OtherIndicators, Zenon DEF Next
  <2>2. ExplainedInv'
    <3>1. CASE Query
      BY <2>1, <3>1, QueryExplained, Zenon
    <3>2. CASE ~Query
      BY <3>2, OtherExplained, Zenon DEF Next
    <3> QED
      BY <3>1, <3>2
  <2> QED
    BY <2>1, <2>2
<1> QED
  BY <1>1, <1>2, PTL DEF Spec

----------------------------------------------------------------------------
(* Matches *)

\* A value of a metric of which MatchesBorneOut speaks is one that the rows mean.
LEMMA BorneOutMetrics ==
  ASSUME IndicatorsInv, ExplainedInv, NEW a \in DOMAIN snapshot,
         NEW m \in KnownMetrics \ EtfMetrics, snapshot[a][m] # None
  PROVE  snapshot[a][m] \in OneOf(Meaning(seen, m, a))
<1>1. m \notin IndicatorMetrics
  BY Zenon DEF IndicatorsInv, SnapshotInv
<1>2. m \in RowMetrics /\ m # "etf_cum_flow_5d_usd"
  BY <1>1 DEF RowMetrics, EtfMetrics
<1>3. Explained(seen, m, a, snapshot[a][m])
  BY <1>2, Zenon DEF ExplainedInv, ValuesInv
<1>4. snapshot[a][m] \in Meaning(seen, m, a)
  BY <1>2, <1>3, Zenon DEF Explained, BorneOut
<1> QED
  BY <1>4, Zenon DEF OneOf

\* Where all metrics that a group mentions have values, the snapshot's values are
\* among those that the rows mean.
LEMMA SnapshotMeant ==
  ASSUME IndicatorsInv, ExplainedInv, NEW a \in DOMAIN snapshot,
         NEW M \in SUBSET (KnownMetrics \ EtfMetrics), \A m \in M : snapshot[a][m] # None
  PROVE  [m \in M |-> snapshot[a][m]] \in Meanings(seen, M, a)
<1> PICK v : v = [m \in M |-> snapshot[a][m]]
  OBVIOUS
<1> PICK meant : meant = UNION {{m} \X OneOf(Meaning(seen, m, a)) : m \in M}
  OBVIOUS
<1> PICK all : all = {x[2] : x \in meant}
  OBVIOUS
<1>1. ASSUME NEW m \in M PROVE <<m, v[m]>> \in meant
  <2>1. v[m] \in OneOf(Meaning(seen, m, a))
    <3>1. v[m] = snapshot[a][m] /\ snapshot[a][m] # None /\ m \in KnownMetrics \ EtfMetrics
      BY Zenon
    <3>2. snapshot[a][m] \in OneOf(Meaning(seen, m, a))
      BY <3>1, BorneOutMetrics, Zenon
    <3> QED
      BY <3>1, <3>2, Zenon
  <2>2. <<m, v[m]>> \in {m} \X OneOf(Meaning(seen, m, a))
    BY <2>1, SMT
  <2> QED
    BY <2>2, Zenon
<1>2. ASSUME NEW m \in M PROVE v[m] \in all
  <2>1. <<m, v[m]>>[2] = v[m]
    OBVIOUS
  <2> QED
    BY <1>1, <2>1, Zenon
<1>3. v \in [M -> all]
  BY <1>2, Zenon
<1>4. \A m \in M : <<m, v[m]>> \in meant
  BY <1>1, Zenon
<1>5. Meanings(seen, M, a) = {values \in [M -> all] : \A m \in M : <<m, values[m]>> \in meant}
  BY Zenon DEF Meanings
<1> QED
  BY <1>3, <1>4, <1>5, Zenon

\* Then the group may say what _evaluate_condition_group says.
LEMMA SnapshotSays ==
  ASSUME IndicatorsInv, ExplainedInv, NEW a \in DOMAIN snapshot,
         NEW p \in FlowlessPatterns, Resolved(p.conditions, snapshot[a])
  PROVE  Truth(GroupHolds(p.conditions, a, snapshot[a])) \in Meant(seen, p, a)
<1> PICK M : M = MetricNames(p.conditions)
  OBVIOUS
<1> PICK v : v = [m \in M |-> snapshot[a][m]]
  OBVIOUS
<1>1. p \in Patterns /\ M \in SUBSET (KnownMetrics \ EtfMetrics)
  <2>1. \A condition \in ConditionsOf[p.conditions] : condition.metric \in KnownMetrics
    BY PatternsAssumption, Zenon DEF ValidPattern, ValidCondition, FlowlessPatterns
  <2>2. M \in SUBSET KnownMetrics
    BY <2>1, Zenon DEF MetricNames
  <2> QED
    BY <2>2, Zenon DEF FlowlessPatterns
<1>2. \A m \in M : snapshot[a][m] # None
  BY Zenon DEF Resolved
<1>3. v \in Meanings(seen, M, a)
  BY <1>1, <1>2, SnapshotMeant, Zenon
<1>4. Kleene(p.conditions, a, v) \in Meant(seen, p, a)
  BY <1>3, Zenon DEF Meant
<1>5. Kleene(p.conditions, a, v) = Truth(GroupHolds(p.conditions, a, snapshot[a]))
  <2>1. p.conditions \in Nodes
    BY <1>1, NodesAssumption, Zenon
  <2>2. \A m \in MetricNames(p.conditions) : snapshot[a][m] # None /\ v[m] = snapshot[a][m]
    BY <1>2, Zenon
  <2> QED
    BY <2>1, <2>2, KleeneAgrees, Zenon
<1> QED
  BY <1>4, <1>5, Zenon

\* MatchesBorneOut, whatever the assets, the patterns, their nesting and the rows
\* are and whenever the jobs commit: evaluate_patterns says of a snapshot what
\* three-valued logic says of rows that were committed while it was built, and
\* misses a pattern only for a metric without a value.
THEOREM MatchesAreBorneOut ==
  ASSUME WrittenByJob
  PROVE  Spec => []MatchesBorneOut
<1>1. ASSUME IndicatorsInv, ExplainedInv PROVE MatchesBorneOut
  <2> SUFFICES ASSUME state = "done", NEW p \in FlowlessPatterns, NEW a \in ToSet(Assets)
               PROVE  IF <<p, a>> \in matches
                      THEN "true" \in Meant(seen, p, a)
                      ELSE (a \in p.appliesTo /\ Resolved(p.conditions, snapshot[a])) =>
                             Meant(seen, p, a) # {"true"}
    BY Zenon DEF MatchesBorneOut, Done
  <2>1. a \in DOMAIN snapshot /\ matches = EvaluatePatterns(snapshot)
    BY <1>1, Zenon DEF ExplainedInv, DoneInv
  <2>2. <<p, a>> \in matches <=> PatternMatches(p, a, snapshot[a])
    BY <2>1 DEF EvaluatePatterns, FlowlessPatterns
  <2>3. Resolved(p.conditions, snapshot[a]) =>
          Truth(GroupHolds(p.conditions, a, snapshot[a])) \in Meant(seen, p, a)
    BY <1>1, <2>1, SnapshotSays, Zenon
  <2>4. CASE <<p, a>> \in matches
    <3>1. Resolved(p.conditions, snapshot[a]) /\ GroupHolds(p.conditions, a, snapshot[a])
      BY <2>2, <2>4, Zenon DEF PatternMatches
    <3>2. Truth(GroupHolds(p.conditions, a, snapshot[a])) = "true"
      BY <3>1, Zenon DEF Truth
    <3> QED
      BY <2>3, <2>4, <3>1, <3>2, Zenon
  <2>5. CASE <<p, a>> \notin matches
    <3> SUFFICES ASSUME a \in p.appliesTo, Meant(seen, p, a) = {"true"},
                        Resolved(p.conditions, snapshot[a])
                 PROVE  FALSE
      BY <2>5, Zenon
    <3>1. ~GroupHolds(p.conditions, a, snapshot[a])
      BY <2>2, <2>5, Zenon DEF PatternMatches
    <3>2. Truth(GroupHolds(p.conditions, a, snapshot[a])) = "false"
      BY <3>1, Zenon DEF Truth
    <3>3. "false" \in {"true"}
      BY <2>3, <3>2, Zenon
    <3> QED
      BY <3>3
  <2> QED
    BY <2>4, <2>5
<1> QED
  BY <1>1, ExplainedInvariant, PTL

----------------------------------------------------------------------------
(* The ETF metrics *)

\* The length of two sequences one after the other, and where the elements of the
\* second one are.
LEMMA InTheSecond ==
  ASSUME NEW V, NEW s \in Seq(V), NEW t \in Seq(V), NEW n \in 1..Len(t)
  PROVE  /\ Len(s \o t) = Len(s) + Len(t) /\ Len(s) + n \in 1..Len(s \o t)
         /\ (s \o t)[Len(s) + n] = t[n]
<1>1. Len(s) \in Nat /\ Len(t) \in Nat /\ n \in Int
  OBVIOUS
<1> PICK m : m = Len(s) + n
  OBVIOUS
<1>2. /\ Len(s \o t) = Len(s) + Len(t)
      /\ \A i \in 1..(Len(s) + Len(t)) :
           (s \o t)[i] = IF i <= Len(s) THEN s[i] ELSE t[i - Len(s)]
  BY ConcatProperties, Zenon
<1>3. m \in 1..(Len(s) + Len(t)) /\ ~(m <= Len(s)) /\ m - Len(s) = n
  BY <1>1
<1>4. (s \o t)[m] = IF m <= Len(s) THEN s[m] ELSE t[m - Len(s)]
  BY <1>2, <1>3, Zenon
<1>5. (s \o t)[m] = t[m - Len(s)]
  BY <1>3, <1>4, Zenon
<1> QED
  BY <1>2, <1>3, <1>5, Zenon

\* The derived tasks are tasks.
LEMMA DerivedAmongTasks ==
  ASSUME NEW n \in 1..Len(DerivedTasks)
  PROVE  /\ Len(DirectTasks) + n \in 1..Len(Tasks)
         /\ Tasks[Len(DirectTasks) + n] = DerivedTasks[n]
<1>1. DirectTasks \in Seq(TaskSet) /\ DerivedTasks \in Seq(TaskSet)
  BY DirectTasksType, DerivedTasksType
<1> QED
  BY <1>1, InTheSecond, Zenon DEF Tasks

\* A task after the first one of the derived tasks is a task.
LEMMA DerivedIsTask ==
  ASSUME NEW S, NEW first \in Seq(S), NEW per \in Seq(S), Len(first) = 1,
         DerivedTasks = first \o per, NEW j \in 1..Len(per)
  PROVE  \E i \in 1..Len(Tasks) : Tasks[i] = per[j]
<1> DEFINE n == Len(first) + j
<1>1. n \in 1..Len(first \o per) /\ (first \o per)[n] = per[j]
  BY InTheSecond, Zenon
<1>2. n \in 1..Len(DerivedTasks) /\ DerivedTasks[n] = per[j]
  BY <1>1, Zenon
<1> HIDE DEF n
<1> QED
  BY <1>2, DerivedAmongTasks, Zenon

\* Every asset has a task for its streak.
LEMMA StreakTask ==
  ASSUME NEW a \in ToSet(Assets)
  PROVE  \E i \in 1..Len(Tasks) : Tasks[i] = Task("etf_net_flow_streak_days", a)
<1>1. Assets \in Seq(StageAAssets) /\ Len(Assets) \in Nat
  BY SnapshotAssumption
<1>2. PICK k \in 1..Len(Assets) : Assets[k] = a
  BY <1>1 DEF ToSet
<1>3. PICK N : N = Len(Assets) * 6
  OBVIOUS
<1>4. PICK j : j = (k - 1) * 6 + 4
  OBVIOUS
<1>5. PICK first : first = <<Task("btc_dominance_change_7d_pct", "all")>>
  OBVIOUS
<1> DEFINE taskAt(i) == Task(DerivedMetrics[((i - 1) % 6) + 1], Assets[((i - 1) \div 6) + 1])
           per == [i \in 1..N |-> taskAt(i)]
<1>6. N \in Nat /\ j \in Int /\ k \in Int /\ 1 <= k /\ k <= Len(Assets)
  BY <1>1, <1>3, <1>4
<1>7. j \in 1..N /\ ((j - 1) % 6) + 1 = 4 /\ ((j - 1) \div 6) + 1 = k
  <2>1. (k - 1) * 6 + 4 <= Len(Assets) * 6 /\ 1 <= (k - 1) * 6 + 4
    BY <1>1, <1>6
  <2>2. ((k - 1) * 6 + 4 - 1) % 6 = 3 /\ ((k - 1) * 6 + 4 - 1) \div 6 = k - 1
    BY <1>6
  <2> QED
    BY <1>3, <1>4, <1>6, <2>1, <2>2
<1>8. taskAt(j) = Task("etf_net_flow_streak_days", a)
  BY <1>2, <1>7, DerivedMetricsType, Zenon
<1>9. per[j] = Task("etf_net_flow_streak_days", a)
  BY <1>7, <1>8, Zenon
<1>10. DerivedTasks = first \o per
  BY <1>3, <1>5, DerivedMetricsType, Zenon DEF DerivedTasks
<1>11. PICK S : S = {taskAt(i) : i \in 1..N} \cup {first[1]}
  OBVIOUS
<1>12. per \in Seq(S) /\ Len(per) = N
  <2>1. \A i \in 1..N : taskAt(i) \in S
    BY <1>11, Zenon
  <2> HIDE DEF taskAt
  <2> QED
    BY <1>6, <2>1
<1> HIDE DEF taskAt, per
<1>13. first \in Seq(S) /\ Len(first) = 1
  BY <1>5, <1>11
<1>14. j \in 1..Len(per)
  BY <1>7, <1>12, Zenon
<1>15. \E i \in 1..Len(Tasks) : Tasks[i] = per[j]
  BY <1>10, <1>12, <1>13, <1>14, DerivedIsTask, Zenon
<1> QED
  BY <1>9, <1>15, Zenon

\* The ETF metrics count the column of totals with the providers' and take each
\* row for a day: the five-day flow is twice the flow, and one day of inflows
\* into all of n providers is a streak of at least n + 1.
EtfRowsCountedTwice ==
  (Done /\ late = {} /\ lost = {}) =>
    \A a \in ToSet(Assets) :
      LET last == LastDay(Of(db, "etf_flows", a))
      IN  /\ \A sum \in {snapshot[a]["etf_cum_flow_5d_usd"]} \ {None} :
               sum = 2 * 1000000 * FiveDayFlow(Totals(db, a))
          /\ (last # {} /\ \A x \in last : x.flow > 0) =>
               \/ snapshot[a]["etf_net_flow_streak_days"] >= Cardinality(last)
               \/ snapshot[a]["etf_net_flow_streak_days"] = FlowLimit

\* EtfRowsCountedTwice, whatever the pages show of a day, as long as they show it
\* whole and no provider disappears: etf_flow_sum_since and recent_etf_flows read
\* the column of the totals with the others.
THEOREM EtfRowsAreCountedTwice ==
  ASSUME WrittenByJob, FlowsFromPages
  PROVE  Spec => []EtfRowsCountedTwice
<1>1. ASSUME IndicatorsInv, ExplainedInv PROVE EtfRowsCountedTwice
  <2> SUFFICES ASSUME state = "done", late = {}, lost = {}, NEW a \in ToSet(Assets)
               PROVE  LET last == LastDay(Of(db, "etf_flows", a))
                      IN  /\ \A sum \in {snapshot[a]["etf_cum_flow_5d_usd"]} \ {None} :
                               sum = 2 * 1000000 * FiveDayFlow(Totals(db, a))
                          /\ (last # {} /\ \A x \in last : x.flow > 0) =>
                               \/ snapshot[a]["etf_net_flow_streak_days"] >= Cardinality(last)
                               \/ snapshot[a]["etf_net_flow_streak_days"] = FlowLimit
    BY SMT DEF EtfRowsCountedTwice, Done
  <2>1. a \in DOMAIN snapshot /\ position > Len(Tasks) /\ seen = {db}
    BY <1>1, Zenon DEF ExplainedInv, DoneInv, RowsInv
  <2>2. PICK B \in SUBSET DOMAIN Batches : db = SavedAll(B)
    BY <1>1 DEF ExplainedInv, RowsInv
  <2>3. snapshot[a]["etf_cum_flow_5d_usd"] # None =>
          snapshot[a]["etf_cum_flow_5d_usd"] = 2 * 1000000 * FiveDayFlow(Totals(db, a))
    <3> PICK value : value = snapshot[a]["etf_cum_flow_5d_usd"]
      OBVIOUS
    <3> PICK sum : sum = FiveDayFlow(Of(db, "etf_flows", a))
      OBVIOUS
    <3> PICK total : total = FiveDayFlow(Totals(db, a))
      OBVIOUS
    <3>1. "etf_cum_flow_5d_usd" \in RowMetrics
      BY DEF RowMetrics, KnownMetrics, AssetMetrics, IndicatorMetrics
    <3>2. Explained({db}, "etf_cum_flow_5d_usd", a, value)
      BY <1>1, <2>1, <3>1, Zenon DEF ExplainedInv, ValuesInv
    <3>3. PICK flow : flow = sum * 1000000
      OBVIOUS
    <3>4. SumsOfRows({db}, a) = {flow}
      BY <3>3, SMT DEF SumsOfRows
    <3>5. value = None \/ value = flow
      <4>1. value = None \/ value \in SumsOfRows({db}, a)
        BY <3>2, Zenon DEF Explained
      <4> QED
        BY <3>4, <4>1, Zenon
    <3>6. sum = 2 * total /\ total \in Int
      BY <2>2, FlowSumTwice, Zenon
    <3>7. flow = 2 * 1000000 * total
      BY <3>3, <3>6, SMT
    <3> QED
      BY <3>5, <3>7, SMT
  <2>4. PICK s \in RecentFlows(db, a) : snapshot[a]["etf_net_flow_streak_days"] = Streak(s)
    <3>1. PICK i \in 1..Len(Tasks) : Tasks[i] = Task("etf_net_flow_streak_days", a)
      BY StreakTask, Zenon
    <3>2. i < position
      BY <1>1, <2>1, <3>1, TasksType DEF IndicatorsInv, Partial
    <3>3. \E s \in FlowLists(seen, a) : snapshot[a]["etf_net_flow_streak_days"] = Streak(s)
      BY <1>1, <2>1, <3>1, <3>2, Zenon DEF ExplainedInv, StreaksInv
    <3> QED
      BY <2>1, <3>3, Zenon DEF FlowLists
  <2>5. Numbers(Of(db, "etf_flows", a))
    BY <2>2, SavedNumbers, Zenon
  <2> PICK last : last = LastDay(Of(db, "etf_flows", a))
    OBVIOUS
  <2>6. (last # {} /\ \A x \in last : x.flow > 0) =>
          Streak(s) >= Cardinality(last) \/ Streak(s) = FlowLimit
    BY <2>5, StreakOfLastDay, Zenon
  <2> QED
    BY <2>3, <2>4, <2>6, SMT
<1> QED
  BY <1>1, ExplainedInvariant, PTL
=============================================================================
