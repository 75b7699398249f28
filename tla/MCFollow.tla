------------------------------ MODULE MCFollow ------------------------------
(* One market and one provider: the instances for liveness.                 *)
EXTENDS DataPipeline, TLC
CONSTANTS m1, group, user, dex, bids, asks, oo

MCMarkets == {m1}
MCMarketKey == (m1 :> dex)
MCBidsKey == (m1 :> bids)
MCAsksKey == (m1 :> asks)
MCOpenOrdersKey == (m1 :> oo)
MCOpenOrdersOnly == {"openOrders"}
MCOpenOrdersKeys == <<dex, oo>>
MCBookOnly == {"orderbook"}
MCBookKeys == <<bids, asks>>
MCAbsent == [s \in 1..MaxSnapshot |-> {}]
=============================================================================
