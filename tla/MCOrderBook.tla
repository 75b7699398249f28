---------------------------- MODULE MCOrderBook ----------------------------
(* One market: its order book from the two accounts of its sides.          *)
EXTENDS DataPipeline, TLC
CONSTANTS m1, group, user, dex, bids, asks, oo

MCMarkets == {m1}
MCMarketKey == (m1 :> dex)
MCBidsKey == (m1 :> bids)
MCAsksKey == (m1 :> asks)
MCOpenOrdersKey == (m1 :> oo)
MCKeys == <<dex, bids, asks>>
MCProviders == {"orderbook"}
MCAbsent == [s \in 1..MaxSnapshot |-> {}]
============================================================================
