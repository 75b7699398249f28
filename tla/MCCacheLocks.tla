---------------------------- MODULE MCCacheLocks ----------------------------
(* One state provider and one side of a book, whose entries lie in one shard *)
(* or in two.                                                                *)
EXTENDS CacheLocks, TLC

MCProviders == {"user"}
MCSide == {"bids"}
MCPlacements == {("user" :> 1) @@ ("bids" :> shard2) : shard2 \in {1, 2}}
=============================================================================
