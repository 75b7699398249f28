---------------------------- MODULE MCOpenOrders ----------------------------
(* Two markets whose open orders accounts share one channel.               *)
EXTENDS DataPipeline, TLC
CONSTANTS m1, m2, group, user, dex1, dex2, bids1, bids2, asks1, asks2, oo1, oo2

MCMarkets == {m1, m2}
MCMarketKey == (m1 :> dex1) @@ (m2 :> dex2)
MCBidsKey == (m1 :> bids1) @@ (m2 :> bids2)
MCAsksKey == (m1 :> asks1) @@ (m2 :> asks2)
MCOpenOrdersKey == (m1 :> oo1) @@ (m2 :> oo2)
MCKeys == <<oo1, oo2>>
MCProviders == {"openOrders"}
\* The account of the second market is created after the first answer.
MCAbsent == (1 :> {oo2}) @@ (2 :> {})
=============================================================================
