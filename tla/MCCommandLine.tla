--------------------------- MODULE MCCommandLine ---------------------------
(* Two markets, one of them without a handler; every command, well formed   *)
(* and not; numbers of an unsigned type of four bits.                       *)
EXTENDS CommandLine, TLC

MCConfig == <<"SOL", "BTC">>
MCHandled == {"SOL"}
MCValue == ("0" :> 0) @@ ("1" :> 1) @@ ("3" :> 3) @@ ("4" :> 4) @@ ("7" :> 7)
MCKeys == {"key"}
\* Order 1 is open at first, then order 3 as well, then only order 3.
MCOrdersAt == "SOL" :> <<{1}, {1, 3}, {3}>>

MCNoRates == {1}

Line(w, a) == [word |-> w, args |-> a]

MCReads == {Line("help", <<>>), Line("status", <<>>), Line("tokens", <<>>),
            Line("orderbook", <<"SOL", "3">>), Line("orderbook", <<"BTC", "3">>)}
MCWrong == {Line("limit", <<"buy", "SOL", "1">>), Line("cancel", <<"SOL", "x">>)}
MCFunds == {Line("airdrop", <<>>), Line("new", <<"3">>), Line("deposit", <<"1">>),
            Line("delegate", <<"key">>), Line("delegate", <<"x">>)}
MCLimits == {Line("limit", <<"bid", "SOL", "3", "4">>),
             Line("limit", <<"buy", "SOL", "4", "4">>), Line("limit", <<"ask", "SOL", "7", "3">>)}
MCMarket == {Line("market", <<"buy", "SOL", "1">>)}
MCCancels == {Line("cancel", <<"SOL", "1">>), Line("cancel", <<"BTC", "1">>)}
MCExit == {Line("exit", <<>>)}

MCLines == MCReads \cup MCWrong \cup MCFunds \cup MCLimits \cup MCMarket
             \cup MCCancels \cup MCExit
============================================================================
