-------------------------- MODULE PatternEvaluation --------------------------
(***************************************************************************)
(* The configuration of the Pattern Engine and evaluate_patterns, with the *)
(* three-valued meaning of a condition group as the reference.             *)
(*                                                                         *)
(* A condition group has one operator, "all" or "any", and a sequence of   *)
(* nodes, each a condition or a group.  A condition has one threshold per  *)
(* asset; a scalar value is the same threshold for every asset.  Functions *)
(* over the nodes of all patterns recur from a group to its nodes.         *)
(***************************************************************************)
EXTENDS Integers, Sequences, FiniteSets, FiniteSetsExt

CONSTANTS None,           \* Python's None and SQL's NULL
          StageAAssets,   \* STAGE_A_ASSETS
          Patterns,       \* the patterns load_patterns returned
          Nodes           \* the groups and conditions of these patterns

----------------------------------------------------------------------------
(* Configuration *)

GlobalMetrics == {"fear_greed_index", "btc_dominance", "btc_dominance_change_7d_pct"}
IndicatorMetrics ==
  {"RSI_1h", "RSI_4h", "RSI_1d", "RSI_1w", "stoch_k_1h", "stoch_k_4h",
   "stoch_d_1h", "stoch_d_4h", "volatility_24h_annualized", "premium_discount_pct"}
FundingMetrics == {"funding_rate_avg", "funding_dislocation_pct", "oi_change_24h_pct"}
AssetMetrics ==
  IndicatorMetrics \cup FundingMetrics \cup
  {"price_change_24h_pct", "price_change_7d_pct", "price_vs_btc_change_7d_pct",
   "liquidations_longs_24h_usd", "liquidations_shorts_24h_usd",
   "etf_net_flow_streak_days", "etf_cum_flow_5d_usd"}
KnownMetrics == GlobalMetrics \cup AssetMetrics
KnownOperators == {">", "<", ">=", "<=", "==", "!="}

IsGroup(node) == "nodes" \in DOMAIN node
NodesOf(group) == {group.nodes[i] : i \in DOMAIN group.nodes}

\* How deep the groups under a node are nested: no group contains itself.
Height[node \in Nodes] ==
  IF IsGroup(node) THEN 1 + Max({0} \cup {Height[n] : n \in NodesOf(node)}) ELSE 0

ConditionsOf[node \in Nodes] ==
  IF IsGroup(node) THEN UNION {ConditionsOf[n] : n \in NodesOf(node)} ELSE {node}

\* _collect_metric_names
MetricNames(group) == {condition.metric : condition \in ConditionsOf[group]}

ValidCondition(condition, appliesTo) ==
  /\ condition.metric \in KnownMetrics
  /\ condition.operator \in KnownOperators
  /\ \/ DOMAIN condition.threshold = StageAAssets
     \/ DOMAIN condition.threshold \subseteq appliesTo

ValidPattern(pattern) ==
  /\ pattern.appliesTo \subseteq StageAAssets
  /\ \A condition \in ConditionsOf[pattern.conditions] :
       ValidCondition(condition, pattern.appliesTo)

UniqueNames == \A p, q \in Patterns : p.name = q.name => p = q

ASSUME NoneAssumption == None \notin Int
ASSUME NodesAssumption ==
  /\ \A p \in Patterns : p.conditions \in Nodes
  /\ \A node \in Nodes :
       IsGroup(node) => node.op \in {"all", "any"} /\ NodesOf(node) \subseteq Nodes
ASSUME HeightAssumption ==
  /\ IsFiniteSet(Nodes)
  /\ Height \in [Nodes -> 0..Cardinality(Nodes)]
  /\ \A group \in Nodes :
       IsGroup(group) => \A n \in NodesOf(group) : Height[n] < Height[group]
ASSUME PatternsAssumption == UniqueNames /\ \A p \in Patterns : ValidPattern(p)

----------------------------------------------------------------------------
(* Evaluation *)

Compare(operator, lhs, rhs) ==
  CASE operator = ">" -> lhs > rhs
    [] operator = "<" -> lhs < rhs
    [] operator = ">=" -> lhs >= rhs
    [] operator = "<=" -> lhs <= rhs
    [] operator = "==" -> lhs = rhs
    [] operator = "!=" -> lhs # rhs

\* An asset without a threshold is logged as pattern_misconfigured.
ConditionHolds(condition, asset, values) ==
  /\ asset \in DOMAIN condition.threshold
  /\ Compare(condition.operator, values[condition.metric], condition.threshold[asset])

GroupHolds(group, asset, values) ==
  LET Holds[node \in Nodes] ==
        IF ~IsGroup(node) THEN ConditionHolds(node, asset, values)
        ELSE IF node.op = "all" THEN \A n \in NodesOf(node) : Holds[n]
        ELSE \E n \in NodesOf(node) : Holds[n]
  IN  Holds[group]

\* Every metric that is mentioned must have a value.
Resolved(group, values) == \A metric \in MetricNames(group) : values[metric] # None

PatternMatches(pattern, asset, values) ==
  /\ asset \in pattern.appliesTo
  /\ Resolved(pattern.conditions, values)
  /\ GroupHolds(pattern.conditions, asset, values)

\* snapshot: the values of the metrics for each asset.
EvaluatePatterns(snapshot) ==
  {match \in Patterns \X DOMAIN snapshot :
     PatternMatches(match[1], match[2], snapshot[match[2]])}

----------------------------------------------------------------------------
(* Kleene's logic: what a group says when values are missing *)

Truth(b) == IF b THEN "true" ELSE "false"

Kleene(group, asset, values) ==
  LET Says[node \in Nodes] ==
        IF ~IsGroup(node)
        THEN IF values[node.metric] = None THEN "unknown"
             ELSE Truth(ConditionHolds(node, asset, values))
        ELSE LET truths == {Says[n] : n \in NodesOf(node)}
                 decisive == Truth(node.op = "any")
             IN  IF decisive \in truths THEN decisive
                 ELSE IF "unknown" \in truths THEN "unknown"
                 ELSE Truth(node.op = "all")
  IN  Says[group]
=============================================================================
