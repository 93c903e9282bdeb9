---------------------------- MODULE IndicatorJob ----------------------------
(***************************************************************************)
(* The rows one run of the hourly indicator job writes, by what Binance    *)
(* and Bybit answer.  All rows of a run are committed together; an asset   *)
(* whose indicators raise writes none.                                     *)
(*                                                                         *)
(* The market of an asset:                                                 *)
(*   candles[timeframe]  the reply to the candle request, the candles n in *)
(*                       it, whether the series of the libraries end in a  *)
(*                       number, whether one of the closes is zero         *)
(*   spot, mark          the replies with its spot and its mark price      *)
(*   free                is the spot price zero?                           *)
(*   reading             stands for whatever number is computed            *)
(***************************************************************************)
EXTENDS Collectors

CandleTimeframes == {"1h", "4h", "1d", "1w"}

\* A failed request gives an empty list.
Count(candles) == IF BinanceOhlcv(candles.reply).data THEN candles.n ELSE 0

\* compute_rsi and _rsi_record
Rsi(candles, timeframe) ==
  IF Count(candles) > 14 /\ candles.defined THEN {<<"rsi", timeframe>>} ELSE {}

Stochastic(candles, timeframe) ==
  IF Count(candles) >= 14 + 3 + 3 - 2 /\ candles.defined
  THEN {<<"stochastic_k", timeframe>>, <<"stochastic_d", timeframe>>} ELSE {}

\* compute_realized_volatility_24h, of the 1h candles only
Volatility(candles, timeframe) ==
  IF Count(candles) >= 25 THEN {<<"volatility_24h", timeframe>>} ELSE {}

\* _premium_discount_records
Premium(market) ==
  IF BinanceTicker(market.spot).data /\ BybitMarkPrice(market.mark).data
  THEN {<<"premium_discount", "spot">>} ELSE {}

\* The logarithm of a return and the division by the spot price raise.
Raises(market) ==
  \/ Volatility(market.candles["1h"], "1h") # {} /\ market.candles["1h"].zero
  \/ Premium(market) # {} /\ market.free

\* _collect_asset_indicators
AssetIndicators(market) ==
  (UNION {Rsi(market.candles[t], t) : t \in CandleTimeframes})
    \cup (UNION {Stochastic(market.candles[t], t) : t \in {"1h", "4h"}})
    \cup Volatility(market.candles["1h"], "1h")
    \cup Premium(market)

\* collect_indicators_job and save_indicators: the rows for each asset's market.
IndicatorRows(markets, age) ==
  UNION {{[table |-> "indicators", asset |-> a, type |-> i[1], timeframe |-> i[2],
           age |-> age, value |-> markets[a].reading] : i \in AssetIndicators(markets[a])} :
         a \in {b \in DOMAIN markets : ~Raises(markets[b])}}
=============================================================================
