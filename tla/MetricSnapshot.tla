--------------------------- MODULE MetricSnapshot ---------------------------
(***************************************************************************)
(* One build_snapshot and the evaluate_patterns after it, statement by     *)
(* statement, while the collection jobs commit.                            *)
(*                                                                         *)
(* The session runs at READ COMMITTED, so that each statement sees what is *)
(* committed when it starts.  A row's age is the time from its ts to the   *)
(* tick in half hours, negative when it is later; ETF flows have a day     *)
(* instead, counted back from the tick's date.                             *)
(***************************************************************************)
EXTENDS PatternEvaluation, IndicatorJob, SequencesExt

CONSTANTS Assets,     \* the assets of the snapshot, in order
          Batches,    \* transactions of the jobs: sets of rows, oldest first
          FlowLimit,  \* rows recent_etf_flows reads
          MaxMissing, \* batches not committed before the tick (model bound)
          MaxLate,    \* batches committed during the tick (model bound)
          MaxLost     \* derived metrics that fail (model bound)

ASSUME SnapshotAssumption ==
  /\ Assets \in Seq(StageAAssets) /\ "all" \notin StageAAssets
  /\ FlowLimit \in Nat \ {0} /\ MaxMissing \in Nat /\ MaxLate \in Nat /\ MaxLost \in Nat
ASSUME BatchesAssumption ==
  /\ Len(Batches) \in Nat /\ DOMAIN Batches = 1..Len(Batches)
  /\ \A b \in DOMAIN Batches :
       /\ IsFiniteSet(Batches[b])
       /\ \A x \in Batches[b] : x.table = "etf_flows" => x.day \in Int /\ x.flow \in Int

VARIABLES
  db,       \* committed rows
  open,     \* batches not committed yet
  late,     \* batches committed while the snapshot was built
  seen,     \* the rows committed at one time or another since then (ghost)
  position, \* the metric that is being loaded, in Tasks
  got,      \* results of its statements so far
  lost,     \* tasks of derived metrics that have failed
  snapshot, \* values of the metrics, global ones included, for each asset
  state,    \* "building", "done" or "failed"
  matches   \* what evaluate_patterns returned

vars == <<db, open, late, seen, position, got, lost, snapshot, state, matches>>

----------------------------------------------------------------------------
(* Rows *)

\* The rows of a day on the Farside page: a column for each provider that has
\* reported, and the column of their total.
FlowRow(asset, day, provider, flow) ==
  [table |-> "etf_flows", asset |-> asset, day |-> day, provider |-> provider, flow |-> flow]
FlowRows(asset, day, flows) ==
  {FlowRow(asset, day, p, flows[p]) : p \in DOMAIN flows}
    \cup {FlowRow(asset, day, "TOTAL", SumFunction(flows))}

\* What the Farside pages are taken to show, a hypothesis of one theorem: a
\* transaction has a day whole, with its total, and a provider that has reported
\* is also on later pages of the day.
DayRows(rows, asset, day) ==
  {x \in rows : x.table = "etf_flows" /\ x.asset = asset /\ x.day = day}
Providers(rows) == {x.provider : x \in rows} \ {"TOTAL"}
FlowsFromPages ==
  \A b \in DOMAIN Batches : \A x \in Batches[b] : x.table = "etf_flows" =>
    LET rows == DayRows(Batches[b], x.asset, x.day)
    IN  /\ \E flows \in [Providers(rows) -> {y.flow : y \in rows}] :
             rows = FlowRows(x.asset, x.day, flows)
        /\ \A c \in DOMAIN Batches :
             LET later == DayRows(Batches[c], x.asset, x.day)
             IN  c > b /\ later # {} => Providers(rows) \subseteq Providers(later)

SameFlow(x, y) ==
  /\ x.table = "etf_flows" /\ y.table = "etf_flows"
  /\ <<x.asset, x.day, x.provider>> = <<y.asset, y.day, y.provider>>

\* Flows are upserted, all other rows inserted.
Saved(rows, batch) == {x \in rows : \A y \in batch : ~SameFlow(x, y)} \cup batch

\* What the batches B have left, one after the other.
SavedAll(B) ==
  UNION {{x \in Batches[b] : \A c \in B : c > b => \A y \in Batches[c] : ~SameFlow(x, y)} :
         b \in B}

----------------------------------------------------------------------------
(* SnapshotReadRepository: the possible results of a query on rows D *)

Fresh == 0..3              \* the last 90 minutes
LastHour == 0..2
HourADayAgo == 46..50
Ever == 0..1000000         \* no lower bound
Week == 336
AWeekAgo == (Week - 24)..(Week + 24)

Of(D, table, asset) == {x \in D : x.table = table /\ x.asset = asset}
Global(D, name) == {x \in D : x.table = "global_metrics" /\ x.name = name}

OneOf(S) == IF S = {} THEN {None} ELSE S

\* ORDER BY ts DESC LIMIT 1 picks any row among the newest.
Newest(S) == {x \in S : \A y \in S : x.age <= y.age}
Latest(S, ages) == OneOf(Newest({x \in S : x.age \in ages}))

\* The first of the closest in the order of ts.
Distance(x) == IF x.age > Week THEN x.age - Week ELSE Week - x.age
Closest(S) ==
  LET near == {x \in S : x.age \in AWeekAgo}
  IN  OneOf({x \in near : \A y \in near :
               \/ Distance(x) < Distance(y)
               \/ Distance(x) = Distance(y) /\ x.age >= y.age})

LatestPrice(D, asset, ages) == Latest(Of(D, "price_snapshots", asset), ages)
ClosestPrice(D, asset) == Closest(Of(D, "price_snapshots", asset))
LatestLiquidation(D, asset) == Latest(Of(D, "liquidations", asset), Fresh)
LatestGlobal(D, name, ages) == Latest(Global(D, name), ages)
ClosestGlobal(D, name) == Closest(Global(D, name))
LatestIndicators(D) ==
  {{x \in D : x.table = "indicators" /\ x.asset \in ToSet(Assets) /\ x.age \in Fresh}}

SumOrNone(f) == {IF DOMAIN f = {} THEN None ELSE SumFunction(f)}

\* The mean, rounded down.
AveragePremium(D, asset) ==
  LET S == {x \in Of(D, "indicators", asset) :
              x.type = "PREMIUM_DISCOUNT" /\ x.age \in Fresh}
  IN  {IF S = {} THEN None ELSE SumFunction([x \in S |-> x.value]) \div Cardinality(S)}

FundingRates(D, asset) == {{x \in Of(D, "funding_rates", asset) : x.age \in LastHour}}

\* The rows of one timestamp are committed together, so that the query for the
\* timestamp and the one for its sum can be one.
OpenInterestSum(D, asset, ages) ==
  SumOrNone([x \in Newest({y \in Of(D, "open_interest", asset) : y.age \in ages}) |-> x.oi])

\* Rows of the newest days, the rows of a day in any order.
LastDay(flows) == {x \in flows : \A y \in flows : x.day <= y.day}
WithNext(s, flows) ==
  LET rest == flows \ ToSet(s)
  IN  IF rest = {} THEN {s} ELSE {Append(s, x) : x \in LastDay(rest)}
RecentFlows(D, asset) ==
  LET Orders[n \in 0..FlowLimit] ==
        IF n = 0 THEN {<<>>}
        ELSE UNION {WithNext(s, Of(D, "etf_flows", asset)) : s \in Orders[n - 1]}
  IN  Orders[FlowLimit]

\* etf_flow_sum_since, five days back
FlowSum(D, asset) ==
  SumOrNone([x \in {y \in Of(D, "etf_flows", asset) : y.day <= 5} |-> x.flow])

----------------------------------------------------------------------------
(* The metrics in the order in which they are loaded *)

Task(metric, asset) == [metric |-> metric, asset |-> asset]
PerAsset(metric) == [i \in DOMAIN Assets |-> Task(metric, Assets[i])]

DirectTasks ==
  <<Task("indicators", "all")>> \o PerAsset("premium_discount_pct")
    \o PerAsset("prices") \o PerAsset("liquidations")
    \o <<Task("fear_greed_index", "all"), Task("btc_dominance", "all")>>

DerivedMetrics ==
  <<"funding_rate_avg", "funding_dislocation_pct", "oi_change_24h_pct",
    "etf_net_flow_streak_days", "etf_cum_flow_5d_usd", "price_vs_btc_change_7d_pct">>

DerivedTasks ==
  <<Task("btc_dominance_change_7d_pct", "all")>> \o
    [i \in 1..(Len(Assets) * Len(DerivedMetrics)) |->
       Task(DerivedMetrics[((i - 1) % Len(DerivedMetrics)) + 1],
            Assets[((i - 1) \div Len(DerivedMetrics)) + 1])]

Tasks == DirectTasks \o DerivedTasks
Derived(i) == i > Len(DirectTasks)

\* BTC is not compared with itself: no statement is executed.
ComparesItself(i) ==
  i <= Len(Tasks) /\ Tasks[i] = Task("price_vs_btc_change_7d_pct", "BTC")
Following(i) == IF ComparesItself(i + 1) THEN i + 2 ELSE i + 1

Statements(metric) ==
  CASE metric = "prices" -> 3
    [] metric \in {"btc_dominance_change_7d_pct", "oi_change_24h_pct"} -> 2
    [] metric = "price_vs_btc_change_7d_pct" -> 4
    [] OTHER -> 1

\* Without a fresh price the price changes are not looked for.
Finished(task, results) ==
  \/ Len(results) = Statements(task.metric)
  \/ task.metric = "prices" /\ results = <<None>>

\* The possible results of the n-th statement of a task.
Answers(task, n, D) ==
  LET a == task.asset
  IN  CASE task.metric = "indicators" -> LatestIndicators(D)
        [] task.metric = "premium_discount_pct" -> AveragePremium(D, a)
        [] task.metric = "prices" ->
             IF n = 3 THEN ClosestPrice(D, a)
                      ELSE LatestPrice(D, a, IF n = 1 THEN Fresh ELSE Ever)
        [] task.metric = "liquidations" -> LatestLiquidation(D, a)
        [] task.metric \in {"fear_greed_index", "btc_dominance"} ->
             LatestGlobal(D, task.metric, Fresh)
        [] task.metric = "btc_dominance_change_7d_pct" ->
             IF n = 1 THEN LatestGlobal(D, "btc_dominance", Ever)
                      ELSE ClosestGlobal(D, "btc_dominance")
        [] task.metric \in {"funding_rate_avg", "funding_dislocation_pct"} -> FundingRates(D, a)
        [] task.metric = "oi_change_24h_pct" ->
             OpenInterestSum(D, a, IF n = 1 THEN LastHour ELSE HourADayAgo)
        [] task.metric = "etf_net_flow_streak_days" -> RecentFlows(D, a)
        [] task.metric = "etf_cum_flow_5d_usd" -> FlowSum(D, a)
        [] task.metric = "price_vs_btc_change_7d_pct" ->
             LET asset == IF n <= 2 THEN a ELSE "BTC"
             IN  IF n \in {1, 3} THEN LatestPrice(D, asset, Ever) ELSE ClosestPrice(D, asset)

----------------------------------------------------------------------------
(* What the results make of the metrics.  Percentages are rounded down. *)

IndicatorMapping ==
  [RSI |-> [t \in {"1h", "4h", "1d", "1w"} |-> "RSI_" \o t],
   STOCH_K |-> [t \in {"1h", "4h"} |-> "stoch_k_" \o t],
   STOCH_D |-> [t \in {"1h", "4h"} |-> "stoch_d_" \o t],
   VOLATILITY_24H |-> [t \in CandleTimeframes |-> "volatility_24h_annualized"]]

Maps(row, metric) ==
  /\ row.type \in DOMAIN IndicatorMapping
  /\ row.timeframe \in DOMAIN IndicatorMapping[row.type]
  /\ IndicatorMapping[row.type][row.timeframe] = metric

IndicatorValue(rows, asset, metric) ==
  LET newest == Newest({x \in rows : x.asset = asset /\ Maps(x, metric)})
  IN  IF newest = {} THEN None ELSE (CHOOSE x \in newest : TRUE).value

PercentChange(now, before) == ((now - before) * 100) \div before

PriceChange(now, before) ==
  IF None \in {now, before} THEN None
  ELSE IF before.price = 0 THEN None ELSE PercentChange(now.price, before.price)

DominanceChange(now, before) ==
  IF None \in {now, before} THEN None
  ELSE IF None \in {now.value, before.value} THEN None ELSE now.value - before.value

\* Rates of at least two exchanges; the query leaves out the NULL ones.
Exchanges(rows) == {x.exchange : x \in rows}
FundingRateAvg(rows) ==
  IF Cardinality(Exchanges(rows)) < 2 THEN None
  ELSE SumFunction([x \in rows |-> x.rate]) \div Cardinality(rows)
FundingDislocation(rows) ==
  IF Cardinality(Exchanges(rows)) < 2 THEN None
  ELSE Max({x.rate : x \in rows}) - Min({x.rate : x \in rows})

OpenInterestChange(now, before) ==
  IF None \in {now, before} THEN None
  ELSE IF before = 0 THEN None ELSE PercentChange(now, before)

\* Length of the longest beginning whose flows have the sign of the first.
Streak(flows) ==
  IF flows = <<>> THEN None ELSE IF flows[1].flow = 0 THEN None
  ELSE LET sign == IF flows[1].flow > 0 THEN 1 ELSE -1
       IN  sign * Max({n \in DOMAIN flows : \A i \in 1..n : sign * flows[i].flow > 0})

CumulativeFlow(sum) == IF sum = None THEN None ELSE sum * 1000000

\* Is the ratio of the asset's to BTC's price above or below that of a week ago?
PriceVsBtc(now, before, btcNow, btcBefore) ==
  IF None \in {now, before, btcNow, btcBefore} THEN None
  ELSE IF 0 \in {btcNow.price, btcBefore.price, before.price} THEN None
  ELSE PercentChange(now.price * btcBefore.price, before.price * btcNow.price)

Column(row, name) == IF row = None THEN None ELSE row[name]

\* The value that a task of one metric sets.
Value(metric, results) ==
  CASE metric = "premium_discount_pct" -> results[1]
    [] metric \in {"fear_greed_index", "btc_dominance"} -> Column(results[1], "value")
    [] metric = "btc_dominance_change_7d_pct" -> DominanceChange(results[1], results[2])
    [] metric = "funding_rate_avg" -> FundingRateAvg(results[1])
    [] metric = "funding_dislocation_pct" -> FundingDislocation(results[1])
    [] metric = "oi_change_24h_pct" -> OpenInterestChange(results[1], results[2])
    [] metric = "etf_net_flow_streak_days" -> Streak(results[1])
    [] metric = "etf_cum_flow_5d_usd" -> CumulativeFlow(results[1])
    [] metric = "price_vs_btc_change_7d_pct" ->
         PriceVsBtc(results[1], results[2], results[3], results[4])

\* The metrics of an asset that a finished task sets.
Loaded(task, results, asset) ==
  CASE task.metric = "indicators" ->
         [m \in IndicatorMetrics |-> IndicatorValue(results[1], asset, m)]
    [] task.metric = "prices" ->
         IF Len(results) = 1 THEN <<>>
         ELSE [price_change_24h_pct |-> Column(results[1], "change"),
               price_change_7d_pct |-> PriceChange(results[2], results[3])]
    [] task.metric = "liquidations" ->
         [liquidations_longs_24h_usd |-> Column(results[1], "longs"),
          liquidations_shorts_24h_usd |-> Column(results[1], "shorts")]
    [] OTHER -> [m \in {task.metric} |-> Value(m, results)]

\* The metrics of an asset, with new values for some.
Updated(values, new) ==
  [m \in DOMAIN values |-> IF m \in DOMAIN new THEN new[m] ELSE values[m]]

----------------------------------------------------------------------------
(* Initial state: all batches are committed but a few *)

Init ==
  /\ open \in {S \in SUBSET DOMAIN Batches : Cardinality(S) <= MaxMissing}
  /\ db = SavedAll(DOMAIN Batches \ open)
  /\ late = {}
  /\ seen = {db}
  /\ position = 1
  /\ got = <<>>
  /\ lost = {}
  /\ snapshot = [a \in ToSet(Assets) |-> [m \in KnownMetrics |-> None]]
  /\ state = "building"
  /\ matches = {}

----------------------------------------------------------------------------
(* build_snapshot *)

Loading == state = "building" /\ position <= Len(Tasks)

\* A statement returns; with the last one of a task the metrics are set.
Query ==
  /\ Loading
  /\ \E answer \in Answers(Tasks[position], Len(got) + 1, db) :
       LET task == Tasks[position]
           results == Append(got, answer)
       IN  IF Finished(task, results)
           THEN /\ snapshot' = [a \in DOMAIN snapshot |->
                                  IF task.asset \in {a, "all"}
                                  THEN Updated(snapshot[a], Loaded(task, results, a))
                                  ELSE snapshot[a]]
                /\ position' = Following(position)
                /\ got' = <<>>
           ELSE /\ got' = results
                /\ UNCHANGED <<snapshot, position>>
  /\ UNCHANGED <<db, open, late, seen, lost, state, matches>>

\* Nothing catches the exception of a direct metric: the tick fails.
DirectFails ==
  /\ Loading /\ ~Derived(position)
  /\ state' = "failed"
  /\ UNCHANGED <<db, open, late, seen, position, got, lost, snapshot, matches>>

\* MUTANT: a metric that failed is reported as 0.
DerivedFailsAsZero ==
  /\ Loading /\ Derived(position) /\ Cardinality(lost) < MaxLost
  /\ lost' = lost \cup {position}
  /\ snapshot' = [a \in DOMAIN snapshot |->
       IF Tasks[position].asset \in {a, "all"}
       THEN [snapshot[a] EXCEPT ![Tasks[position].metric] = 0] ELSE snapshot[a]]
  /\ position' = Len(Tasks) + 1
  /\ got' = <<>>
  /\ UNCHANGED <<db, open, late, seen, state, matches>>

\* _safe_derived_asset and _safe_derived_global catch what a derived metric
\* raises.  An exception of Python loses this metric; one of the database aborts
\* the transaction, so that the statements of all later metrics raise as well
\* and are caught one by one.
DerivedFails ==
  /\ Loading /\ Derived(position) /\ Cardinality(lost) < MaxLost
  /\ lost' = lost \cup {position}
  /\ position' \in {Following(position), Len(Tasks) + 1}
  /\ got' = <<>>
  /\ UNCHANGED <<db, open, late, seen, snapshot, state, matches>>

Evaluate ==
  /\ state = "building" /\ position > Len(Tasks)
  /\ matches' = EvaluatePatterns(snapshot)
  /\ state' = "done"
  /\ UNCHANGED <<db, open, late, seen, position, got, lost, snapshot>>

\* A job commits, with rows of its own start time.
Commit(b) ==
  /\ state = "building"
  /\ b \in open /\ Cardinality(late) < MaxLate
  /\ db' = Saved(db, Batches[b])
  /\ open' = open \ {b}
  /\ late' = late \cup {b}
  /\ seen' = seen \cup {db'}
  /\ UNCHANGED <<position, got, lost, snapshot, state, matches>>

Next ==
  \/ Query \/ DirectFails \/ DerivedFails \/ Evaluate
  \/ \E b \in DOMAIN Batches : Commit(b)

Spec == Init /\ [][Next]_vars
----------------------------------------------------------------------------
(* Reference: what the metrics of an asset are by the documentation *)

\* The values of a metric when each of its statements reads one of the states S
\* of the tables.

Prices(S, asset, ages) ==
  UNION {Newest({x \in Of(D, "price_snapshots", asset) : x.age \in ages}) : D \in S}
PricesBefore(S, asset) == UNION {ClosestPrice(D, asset) : D \in S}

GlobalRows(S, name, ages) ==
  UNION {Newest({x \in Global(D, name) : x.age \in ages}) : D \in S}

LiquidationRows(S, asset) ==
  UNION {Newest({x \in Of(D, "liquidations", asset) : x.age \in Fresh}) : D \in S}

Rates(S, asset) == UNION {FundingRates(D, asset) : D \in S}
Interest(S, asset, ages) == UNION {OpenInterestSum(D, asset, ages) : D \in S}

\* What collect_indicators_job has written: a metric of the snapshot for each
\* type and timeframe, the premium as the mean of its rows.
WrittenAs ==
  [RSI_1h |-> <<"rsi", "1h">>, RSI_4h |-> <<"rsi", "4h">>,
   RSI_1d |-> <<"rsi", "1d">>, RSI_1w |-> <<"rsi", "1w">>,
   stoch_k_1h |-> <<"stochastic_k", "1h">>, stoch_k_4h |-> <<"stochastic_k", "4h">>,
   stoch_d_1h |-> <<"stochastic_d", "1h">>, stoch_d_4h |-> <<"stochastic_d", "4h">>,
   volatility_24h_annualized |-> <<"volatility_24h", "1h">>,
   premium_discount_pct |-> <<"premium_discount", "spot">>]
Written(D, metric, asset) ==
  {x \in Of(D, "indicators", asset) : <<x.type, x.timeframe>> = WrittenAs[metric] /\ x.age \in Fresh}
Readings(D, metric, asset) ==
  LET rows == Written(D, metric, asset)
  IN  IF metric # "premium_discount_pct" THEN {x.value : x \in Newest(rows)}
      ELSE SumOrNone([x \in rows |-> x.value \div Cardinality(rows)]) \ {None}

\* The net flow of a day is its total.  The streak is the number of the newest
\* days with flows of one sign, the flow of five days their sum in dollars.
Totals(D, asset) == {x \in Of(D, "etf_flows", asset) : x.provider = "TOTAL"}
DaysOfStreak(D, asset, sign) ==
  {x \in Totals(D, asset) : \A y \in Totals(D, asset) : y.day <= x.day => sign * y.flow > 0}
StreakOfDays(D, asset) ==
  {sign * Min({FlowLimit, Cardinality(DaysOfStreak(D, asset, sign))}) : sign \in {1, -1}} \ {0}
FlowOfDays(D, asset) ==
  {sum * 1000000 :
     sum \in SumOrNone([x \in {y \in Totals(D, asset) : y.day <= 5} |-> x.flow]) \ {None}}

EtfMetrics == {"etf_net_flow_streak_days", "etf_cum_flow_5d_usd"}

Meaning(S, metric, asset) ==
  CASE metric \in IndicatorMetrics -> UNION {Readings(D, metric, asset) : D \in S}
    [] metric = "etf_net_flow_streak_days" -> UNION {StreakOfDays(D, asset) : D \in S}
    [] metric = "etf_cum_flow_5d_usd" -> UNION {FlowOfDays(D, asset) : D \in S}
    [] metric = "price_vs_btc_change_7d_pct" ->
         {PriceVsBtc(p, q, b, c) :
            p \in Prices(S, asset, Ever), q \in PricesBefore(S, asset),
            b \in Prices(S, "BTC", Ever), c \in PricesBefore(S, "BTC")}
    [] metric = "btc_dominance_change_7d_pct" ->
         {x.value - y.value :
            x \in GlobalRows(S, "btc_dominance", Ever),
            y \in (UNION {ClosestGlobal(D, "btc_dominance") : D \in S}) \ {None}}
    [] metric \in {"fear_greed_index", "btc_dominance"} ->
         {x.value : x \in GlobalRows(S, metric, Fresh)}
    [] metric = "funding_rate_avg" -> {FundingRateAvg(rows) : rows \in Rates(S, asset)}
    [] metric = "funding_dislocation_pct" ->
         {FundingDislocation(rows) : rows \in Rates(S, asset)}
    [] metric = "oi_change_24h_pct" ->
         {OpenInterestChange(now, before) :
            now \in Interest(S, asset, LastHour), before \in Interest(S, asset, HourADayAgo)}
    [] metric = "price_change_7d_pct" ->
         {PriceChange(now, before) :
            now \in Prices(S, asset, Ever), before \in PricesBefore(S, asset)}
    [] metric = "price_change_24h_pct" -> {x.change : x \in Prices(S, asset, Fresh)}
    [] metric \in {"liquidations_longs_24h_usd", "liquidations_shorts_24h_usd"} ->
         {x[IF metric = "liquidations_longs_24h_usd" THEN "longs" ELSE "shorts"] :
            x \in LiquidationRows(S, asset)}

\* The values that a snapshot may have.
Meanings(S, metrics, asset) ==
  LET meant == UNION {{m} \X OneOf(Meaning(S, m, asset)) : m \in metrics}
  IN  {values \in [metrics -> {x[2] : x \in meant}] :
         \A m \in metrics : <<m, values[m]>> \in meant}

Meant(S, pattern, asset) ==
  {Kleene(pattern.conditions, asset, values) :
     values \in Meanings(S, MetricNames(pattern.conditions), asset)}

----------------------------------------------------------------------------
(* Properties *)

Done == state = "done"

\* Patterns that no ETF metric is mentioned in.
FlowlessPatterns == {p \in Patterns : MetricNames(p.conditions) \cap EtfMetrics = {}}

\* Jobs may commit between two statements, and some metrics may fail.  Every
\* match is one that the rows bear out, in the logic in which a missing value is
\* unknown and with each statement reading one of the states that were committed
\* during the tick; and a pattern that all these states bear out is missed only
\* because a metric it mentions has no value in the snapshot.  What the ETF metrics
\* mean is a question of its own, that of EtfFlowsOfDays.
MatchesBorneOut ==
  Done =>
    \A pattern \in FlowlessPatterns, asset \in ToSet(Assets) :
      IF <<pattern, asset>> \in matches
      THEN "true" \in Meant(seen, pattern, asset)
      ELSE (asset \in pattern.appliesTo /\ Resolved(pattern.conditions, snapshot[asset])) =>
             Meant(seen, pattern, asset) # {"true"}

\* Without failures and commits in between the metric is what its rows mean.
AsDocumented(metric) ==
  (Done /\ late = {} /\ lost = {}) =>
    \A asset \in ToSet(Assets) :
      snapshot[asset][metric] \in OneOf(Meaning({db}, metric, asset))

\* The documented ETF metrics: "signed ETF net-flow streak length from recent
\* daily rows" and "cumulative five-day ETF flow in USD".  The code counts the
\* total of a day as one more flow, and takes each row for a day.
EtfFlowsOfDays == \A metric \in EtfMetrics : AsDocumented(metric)

\* The documented "direct mappings cover RSI, Stochastic, volatility,
\* premium/discount".  The code looks for other types than the indicator job
\* writes.
IndicatorsMapped == \A metric \in IndicatorMetrics : AsDocumented(metric)

\* Both are documented.  That one of the two holds is less, and already too much:
\* a state that refutes it refutes both.
EtfOrIndicatorsAsDocumented == EtfFlowsOfDays \/ IndicatorsMapped
=============================================================================
