----------------------- MODULE MCMarketDataCollection -----------------------
(***************************************************************************)
(* A small instance of MarketDataCollection: two ingested assets, one      *)
(* asset for the other jobs and two heatmap timeframes.                    *)
(***************************************************************************)
EXTENDS MarketDataCollection

TwoAssets == <<"BTC", "ETH">>
OneAsset == <<"BTC">>
TwoTimeframes == <<"24h", "7d">>
=============================================================================
