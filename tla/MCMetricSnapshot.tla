-------------------------- MODULE MCMetricSnapshot --------------------------
(***************************************************************************)
(* A small instance of MetricSnapshot: the ten patterns of                 *)
(* config/patterns.yaml, with funding rates in hundredths of a percent,    *)
(* and one with nested groups; the assets ETH and SOL; rows of the jobs    *)
(* with ages at the edges of the windows.                                  *)
(***************************************************************************)
EXTENDS MetricSnapshot

StageA == {"BTC", "ETH", "SOL", "SUI", "TON", "UNI"}
TwoAssets == <<"ETH", "SOL">>
OneAsset == <<"ETH">>

Than(metric, operator, value) ==
  [metric |-> metric, operator |-> operator, threshold |-> [a \in StageA |-> value]]
ThanPerAsset(metric, operator, threshold) ==
  [metric |-> metric, operator |-> operator, threshold |-> threshold]
All(nodes) == [op |-> "all", nodes |-> nodes]
AnyOf(nodes) == [op |-> "any", nodes |-> nodes]
Pattern(name, appliesTo, conditions) ==
  [name |-> name, appliesTo |-> appliesTo, conditions |-> conditions]

Majors == {"BTC", "ETH"}
Alts == StageA \ Majors
Leveraged(op, rsi, funding, change) ==
  All(<<Than("RSI_4h", op, rsi), Than("funding_rate_avg", op, funding),
        Than("oi_change_24h_pct", ">", 8), Than("price_change_24h_pct", op, change)>>)
Extreme(op, rsi, funding, liquidated, size, greed) ==
  All(<<Than("RSI_1d", op, rsi), Than("funding_rate_avg", op, funding),
        Than(liquidated, ">", size), Than("fear_greed_index", op, greed)>>)
EtfFlow(op, days, op2, flow) ==
  All(<<Than("etf_net_flow_streak_days", op, days),
        ThanPerAsset("etf_cum_flow_5d_usd", op2, flow)>>)

YamlPatterns ==
  {Pattern("leveraged_long_buildup", {"BTC", "ETH", "SOL"}, Leveraged(">", 65, 3, 2)),
   Pattern("leveraged_short_buildup", {"BTC", "ETH", "SOL"}, Leveraged("<", 35, -3, -2)),
   Pattern("capitulation_candidate_majors", Majors,
           Extreme("<", 30, -5, "liquidations_longs_24h_usd", 100000000, 25)),
   Pattern("capitulation_candidate_alts", Alts,
           Extreme("<", 30, -5, "liquidations_longs_24h_usd", 20000000, 25)),
   Pattern("distribution_top_candidate_majors", Majors,
           Extreme(">", 70, 5, "liquidations_shorts_24h_usd", 100000000, 75)),
   Pattern("distribution_top_candidate_alts", Alts,
           Extreme(">", 70, 5, "liquidations_shorts_24h_usd", 20000000, 75)),
   Pattern("funding_dislocation", StageA, All(<<Than("funding_dislocation_pct", ">", 5)>>)),
   Pattern("etf_accumulation_strong", Majors,
           EtfFlow(">=", 5, ">", ("BTC" :> 1000000000) @@ ("ETH" :> 200000000))),
   Pattern("etf_distribution_strong", Majors,
           EtfFlow("<=", -5, "<", ("BTC" :> -500000000) @@ ("ETH" :> -100000000))),
   Pattern("altcoin_underperformance", Alts,
           All(<<Than("btc_dominance_change_7d_pct", ">", 1),
                 Than("price_vs_btc_change_7d_pct", "<", -5)>>))}

NestedPattern ==
  Pattern("nested", {"ETH", "SOL"},
    AnyOf(<<Than("fear_greed_index", "<", 25),
            All(<<Than("btc_dominance", "!=", 50), Than("liquidations_longs_24h_usd", ">", 5),
                  Than("price_vs_btc_change_7d_pct", "<=", 3)>>)>>))

AllPatterns == YamlPatterns \cup {NestedPattern}

RECURSIVE WithNodes(_)
WithNodes(node) ==
  {node} \cup (IF IsGroup(node) THEN UNION {WithNodes(n) : n \in NodesOf(node)} ELSE {})
AllNodes == UNION {WithNodes(p.conditions) : p \in AllPatterns}

Price(source, asset, age, price, change) ==
  [table |-> "price_snapshots", source |-> source, asset |-> asset, age |-> age,
   price |-> price, change |-> change]
GlobalRow(name, age, value) ==
  [table |-> "global_metrics", name |-> name, age |-> age, value |-> value]
Liquidation(asset, age, longs, shorts) ==
  [table |-> "liquidations", asset |-> asset, age |-> age, longs |-> longs, shorts |-> shorts]

Candles(n) == [reply |-> "good", n |-> n, defined |-> TRUE, zero |-> FALSE]
Market(n) ==
  [candles |-> [t \in CandleTimeframes |-> Candles(n)], spot |-> "good", mark |-> "good",
   free |-> FALSE, reading |-> 20]

\* The last one is stamped later than the tick.
Transactions ==
  <<{Price("binance", "BTC", 338, 100, 0), Price("binance", "ETH", 338, 100, 0), Price("binance", "SOL", 338, 100, 0)},
    {Price("binance", "BTC", 334, 110, 0), Price("binance", "ETH", 334, 110, 0), Price("binance", "SOL", 334, 100, 0)},
    {Price("binance", "BTC", 4, 100, 1), Price("binance", "ETH", 4, 100, 1), Price("binance", "SOL", 4, 90, 1)},
    {Price("binance", "BTC", 1, 100, 2), Price("binance", "ETH", 1, 104, 2), Price("binance", "SOL", 1, 94, 2)},
    {Price("coingecko", "SOL", 1, 96, 3)},
    {GlobalRow("btc_dominance", 336, 50)},
    {GlobalRow("btc_dominance", 3, 52)},
    {GlobalRow("fear_greed_index", 3, 20)},
    {Liquidation("ETH", 2, 10, 10), Liquidation("SOL", 2, 10, 10)},
    IndicatorRows([a \in {"BTC", "ETH", "SOL"} |-> Market(100)], 2),
    FlowRows("ETH", 1, "A" :> 60 @@ "B" :> -20),
    FlowRows("ETH", 1, "A" :> 60 @@ "B" :> 50) \cup FlowRows("ETH", 0, "A" :> 10 @@ "B" :> 30),
    {GlobalRow("btc_dominance", -1, 40), Price("binance", "SOL", -1, 10, -9)}>>

ASSUME PagesAssumption == FlowsFromPages
=============================================================================
