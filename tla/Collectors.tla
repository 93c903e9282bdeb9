----------------------------- MODULE Collectors -----------------------------
(***************************************************************************)
(* What one fetch of a collector yields: whether there are records and the *)
(* health check it records, for each kind of reply the source can give.    *)
(* The collectors catch whatever a reply makes them raise; the HTTP path   *)
(* of CoinGecko prices raises, and its caller records the check.           *)
(*                                                                         *)
(*   "refused"   no answer in time, a transport error, a status outside    *)
(*               2xx, a body that is no JSON                               *)
(*   "rejected"  an error code of the API, or JSON of the wrong kind       *)
(*   "shapeless" the object, list or table with the data is not there      *)
(*   "empty"     it is there and has no item                               *)
(*   "malformed" a field of an item is missing or is not what it should be *)
(*   "good"      none of these                                             *)
(***************************************************************************)
EXTENDS FiniteSets, Integers

Replies == {"refused", "rejected", "shapeless", "empty", "malformed", "good"}

\* check is what the health recorder is told, data whether there are records.
Outcome == [check : {"ok", "failed", "none"}, data : BOOLEAN]

Fetched   == [check |-> "ok", data |-> TRUE]
OkNoData  == [check |-> "ok", data |-> FALSE]
Failed    == [check |-> "failed", data |-> FALSE]
Unchecked == [check |-> "none", data |-> FALSE]

Checked(succeeded) == IF succeeded THEN Fetched ELSE Failed

----------------------------------------------------------------------------
(* Binance *)

BinanceJson(reply) == reply # "refused"
TickerFields(reply) == reply = "good"
BinanceTicker(reply) == Checked(BinanceJson(reply) /\ TickerFields(reply))

KlineItems(reply) == reply \notin {"rejected", "shapeless"}
Klines(reply) == reply # "malformed"

\* The empty array is a success without candles.
BinanceOhlcv(reply) ==
  IF BinanceJson(reply) /\ reply = "empty" THEN OkNoData
  ELSE Checked(BinanceJson(reply) /\ KlineItems(reply) /\ Klines(reply))

----------------------------------------------------------------------------
(* CoinGecko: prices, and dominance from the global endpoint *)

PublicJson(reply) == reply # "refused"
CoingeckoItem(reply) == reply \notin {"rejected", "shapeless", "empty"}
CoingeckoFields(reply) == reply # "malformed"
CoingeckoMarket(reply) ==
  Checked(PublicJson(reply) /\ CoingeckoItem(reply) /\ CoingeckoFields(reply))

GlobalRecord(reply) == reply = "good"
BtcDominance(reply) == Checked(reply # "refused" /\ GlobalRecord(reply))

----------------------------------------------------------------------------
(* Alternative.me and Farside *)

FearGreedRecord(reply) == reply = "good"
FearGreed(reply) == Checked(reply # "refused" /\ FearGreedRecord(reply))

\* Is there a table with the expected headers?
FlowHeaders(page) == page \notin {"rejected", "shapeless"}
FlowCells(page) == page # "malformed"

\* parse_etf_flows: a page it does not recognise is no error.
ParseEtfFlows(page) ==
  IF ~FlowHeaders(page) \/ page = "empty" THEN OkNoData ELSE Checked(FlowCells(page))

EtfFlows(page) == IF page = "refused" THEN Failed ELSE ParseEtfFlows(page)

----------------------------------------------------------------------------
(* CoinGlass *)

CoinglassJson(reply) == reply \notin {"refused", "rejected"}
CoinglassItems(reply) == reply # "shapeless"
LiquidationRecord(reply) == reply \notin {"empty", "malformed"}

\* keyed: is an API key configured?
Liquidations(keyed, reply) ==
  Checked(keyed /\ CoinglassJson(reply) /\ CoinglassItems(reply)
                /\ LiquidationRecord(reply))

\* One of twenty buckets, each a percent of the price wide, from 90 to 110
\* percent of it; levels outside are dropped.
Kept(level, price) == 90 * price <= 100 * level /\ 100 * level < 110 * price
BucketOf(level, price) == (100 * level - 90 * price) \div price

\* An empty list of levels gives a full set of buckets of volume zero.
HeatmapRecords(reply) == reply # "malformed"

\* priced: is there any price to centre the buckets on?
Heatmap(keyed, priced, reply) ==
  IF keyed /\ ~priced THEN Unchecked
  ELSE Checked(keyed /\ CoinglassJson(reply) /\ CoinglassItems(reply)
                     /\ HeatmapRecords(reply))

----------------------------------------------------------------------------
(* Derivatives of Bybit and OKX.  The indicator job calls BybitMarkPrice, no *)
(* job calls the others.                                                   *)

BybitJson(reply) == reply \notin {"refused", "rejected"}
BybitItem(reply) == BybitJson(reply) /\ reply \notin {"shapeless", "empty"}
BybitFields(reply) == reply # "malformed"

BybitMarkPrice(reply) == Checked(BybitItem(reply) /\ BybitFields(reply))
BybitFundingRate(reply) == Checked(BybitItem(reply) /\ BybitFields(reply))

\* The mark price converts contracts to dollars, so both replies must be good.
BybitOpenInterest(ticker, interest) ==
  IF BybitItem(ticker) /\ BybitFields(ticker)
  THEN Checked(BybitItem(interest) /\ BybitFields(interest)) ELSE Failed

\* sold: is the share of sellers different from zero?
BybitLongShortRatio(reply, sold) ==
  Checked(BybitItem(reply) /\ BybitFields(reply) /\ sold)

OkxJson(reply) == reply \notin {"refused", "rejected"}
OkxItem(reply) == OkxJson(reply) /\ reply \notin {"shapeless", "empty"}
OkxFields(reply) == reply # "malformed"

OkxFundingRate(reply) == Checked(OkxItem(reply) /\ OkxFields(reply))

OkxOpenInterest(mark, interest) ==
  IF OkxItem(mark) /\ OkxFields(mark)
  THEN Checked(OkxItem(interest) /\ OkxFields(interest)) ELSE Failed

\* positive: is the ratio above zero?
OkxLongShortRatio(reply, positive) ==
  Checked(OkxItem(reply) /\ OkxFields(reply) /\ positive)

----------------------------------------------------------------------------
(* Several symbols *)

\* A collector goes on with the next symbol: who has a record?
BinanceRecords(outcome) == {s \in DOMAIN outcome : outcome[s].data}
BybitRecords(outcome) == {s \in DOMAIN outcome : outcome[s].data}
OkxRecords(outcome) == {s \in DOMAIN outcome : outcome[s].data}

\* The ingestion job fetches symbol by symbol, and the first that raises ends
\* the batch: it stores all snapshots of a source or none.
BinanceSnapshot(reply) == Checked(BinanceTicker(reply).data)
Snapshot(source, reply) ==
  IF source = "binance" THEN BinanceSnapshot(reply) ELSE CoingeckoMarket(reply)
SourceBatch(source, reply) ==
  Checked(\A s \in DOMAIN reply : Snapshot(source, reply[s]).data)
=============================================================================
