---------------------- MODULE MCOracleAutoSubmitter ----------------------
(* Two daemons and a market of each kind: of a category with two adapters, *)
(* one of them honest; with one that is not; and with none.                *)
EXTENDS OracleAutoSubmitter

CONSTANTS d1, d2, crypto, sports, politics, binance, coinmarketcap, oddsapi

MCDaemons == {d1, d2}
MCMarkets == {crypto, sports, politics}
MCEndsAt == [m \in MCMarkets |-> CASE m = politics -> 1 [] m = crypto -> 2 [] m = sports -> 3]
MCAdapters == {binance, coinmarketcap, oddsapi}
MCCategoryAdapters ==
    [m \in MCMarkets |-> CASE m = crypto -> {binance, coinmarketcap}
                           [] m = sports -> {oddsapi}
                           [] m = politics -> {}]
MCHonest == {coinmarketcap}
MCTruth == [m \in MCMarkets |-> m = crypto]
==========================================================================
