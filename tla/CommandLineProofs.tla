------------------------- MODULE CommandLineProofs -------------------------
(* The commands, for any markets, lines, widths and number of versions. *)
EXTENDS CommandLine, TLAPS

\* What the reads of an order guarantee when it is at place i of its plan.
OrderReads(l, i, g) ==
  /\ i > 1 => g["group"] # 0 /\ since["group"] <= g["group"]
  /\ i > 2 => g["user"] # 0 /\ since["user"] <= g["user"]
  /\ i > 3 => Symbol(l) \in Handled
  /\ i > 4 => since["hash"] <= g["hash"]
  /\ l.word = "cancel" /\ i > 5 => since[Symbol(l)] <= g[Symbol(l)]
  /\ l.word = "cancel" /\ i > 6 => OrderId(l) \in OrdersAt[Symbol(l)][g[Symbol(l)]]

InCommand ==
  pc = "command" =>
    /\ line \in Lines /\ IsCommand(line)
    /\ line.word \in Order => OrderReads(line, at, got)
    /\ submitted => Plan(line)[at] = "answer"

\* What was read is no newer than the copies are now.
Past == \A c \in Reads : since[c] <= Now[c] /\ got[c] <= Now[c]

OutOfCommand ==
  /\ pc \in {"prompt", "returned"} => ~submitted
  /\ pc = "prompt" => at = 1 /\ got = NoReads
  /\ pc = "panicked" /\ submitted => line.word \notin Order

IInv == TypeOK /\ InCommand /\ Past /\ OutOfCommand /\ PanicsAreKnown

Orders == [side : {"bid", "ask", "none"}, cap : 0..(U64 - 1)]

---------------------------------------------------------------------------
(* The plans *)

LEMMA HandledIsNoStep == Handled \cap Steps = {} /\ {"group", "user", "hash"} \cap Handled = {}
BY CommandLineAssumption DEF Steps

LEMMA PlanDomain ==
  ASSUME NEW l \in Lines
  PROVE  /\ Len(Plan(l)) \in Nat /\ DOMAIN Plan(l) = 1..Len(Plan(l))
         /\ Plan(l) = << >> \/ Len(Plan(l)) > 0
<1> DEFINE IsPlan(p) == Len(p) \in Nat /\ DOMAIN p = 1..Len(p) /\ (p = << >> \/ Len(p) > 0)
<1>1. IsPlan(StatusPlan)
  <2>1. Len(StatusPlan) = 3 + Len(Config) /\ DOMAIN StatusPlan = 1..(3 + Len(Config))
    BY CommandLineAssumption DEF StatusPlan
  <2> QED BY <2>1, CommandLineAssumption
<1>2. IsPlan(CancelPlan(Symbol(l)))  BY DEF CancelPlan
<1>3. IsPlan(LimitPlan) /\ IsPlan(MarketPlan)  BY DEF LimitPlan, MarketPlan
<1>4. IsPlan(AirdropPlan) /\ IsPlan(NewPlan)
  <2>1. CASE Devnet  BY <2>1 DEF AirdropPlan, NewPlan
  <2>2. CASE ~Devnet  BY <2>2 DEF AirdropPlan, NewPlan
  <2> QED BY <2>1, <2>2
<1>5. IsPlan(DelegatePlan) /\ IsPlan(DepositPlan)  BY DEF DelegatePlan, DepositPlan
<1>6. IsPlan(MarketsPlan) /\ IsPlan(TokensPlan) /\ IsPlan(BookPlan)
  BY DEF MarketsPlan, TokensPlan, BookPlan
<1>7. IsPlan(<< >>)  OBVIOUS
<1> HIDE DEF IsPlan
<1>8. IsPlan(Plan(l))
  BY <1>1, <1>2, <1>3, <1>4, <1>5, <1>6, <1>7 DEF Plan
<1> QED BY <1>8 DEF IsPlan

\* Where the steps of an order are, and which commands have the others.
LEMMA Places ==
  ASSUME NEW l \in Lines, NEW i \in DOMAIN Plan(l),
         l.word = "cancel" /\ i = 5 => Symbol(l) \in Handled
  PROVE  /\ Plan(l)[i] = "rates" => l.word = "tokens"
         /\ Plan(l)[i] = "limit" => l.word = "limit"
         /\ Plan(l)[i] = "market" => l.word = "market"
         /\ Plan(l)[i] \in {"pubkey", "blockhash"} => l.word \in Fund
         /\ Plan(l)[i] \in Handled =>
              l.word = "status" \/ (l.word = "cancel" /\ i = 5 /\ Plan(l)[i] = Symbol(l))
         /\ Plan(l)[i] \in {"submit", "answer"} => l.word \in Fund \cup {"limit", "cancel"}
         /\ Plan(l)[i] = "submit" => i + 1 \in DOMAIN Plan(l) /\ Plan(l)[i + 1] = "answer"
         /\ Plan(l)[i] = "answer" => i = Len(Plan(l))
         /\ l.word \in Order =>
              /\ i = 1 => Plan(l)[i] = "group"
              /\ i = 2 => Plan(l)[i] = "user"
              /\ i = 3 => Plan(l)[i] = "handler"
              /\ i = 4 => Plan(l)[i] = "hash"
         /\ l.word = "cancel" =>
              /\ i = 5 => Plan(l)[i] = Symbol(l)
              /\ i = 6 => Plan(l)[i] = "find"
<1>1. CASE l.word = "status"
  <2>1. Plan(l) = StatusPlan  BY <1>1 DEF Plan
  <2>2. Len(StatusPlan) = 3 + Len(Config) /\ DOMAIN StatusPlan = 1..(3 + Len(Config))
    BY CommandLineAssumption DEF StatusPlan
  <2>3. \A j \in 1..3 : StatusPlan[j] \in {"group", "user", "position"}
    BY CommandLineAssumption DEF StatusPlan
  <2>4. \A j \in 4..(3 + Len(Config)) : StatusPlan[j] = Config[j - 3] /\ j - 3 \in DOMAIN Config
    BY CommandLineAssumption DEF StatusPlan
  <2>5. Plan(l)[i] \in {"group", "user", "position"} \/ Plan(l)[i] \notin Steps
    BY <2>1, <2>2, <2>3, <2>4, CommandLineAssumption
  <2> QED BY <1>1, <2>5 DEF Steps, Order
<1>2. CASE l.word \in Order
  BY <1>2, HandledIsNoStep
  DEF Plan, LimitPlan, MarketPlan, CancelPlan, Order, Fund, Steps
<1>3. CASE l.word \in Fund
  BY <1>3, HandledIsNoStep
  DEF Plan, AirdropPlan, NewPlan, DelegatePlan, DepositPlan, Order, Fund, Steps
<1>4. CASE l.word \in {"markets", "tokens", "orderbook"}
  BY <1>4, HandledIsNoStep
  DEF Plan, MarketsPlan, TokensPlan, BookPlan, Order, Fund, Steps
<1>5. CASE l.word \notin Order \cup Fund \cup {"status", "markets", "tokens", "orderbook"}
  BY <1>5 DEF Plan, Order, Fund
<1> QED BY <1>1, <1>2, <1>3, <1>4, <1>5

LEMMA LimitNumbers ==
  ASSUME NEW l \in Lines, IsCommand(l), l.word = "limit"
  PROVE  Amount(l) \in Nat /\ Price(l) \in Nat
<1>1. {3, 4} = NumberArgs["limit"]
  BY DEF NumberArgs, MinArgs
<1>2. l.args[3] \in DOMAIN Value /\ l.args[4] \in DOMAIN Value
  BY <1>1 DEF IsCommand
<1> QED BY <1>2, CommandLineAssumption DEF Amount, Price

LEMMA NothingTyped ==
  /\ NoReads \in [Reads -> 0..MaxVersion] /\ NoCopies \in [Copies -> 0..MaxVersion]
  /\ NoOrder \in [side : {"bid", "ask", "none"}, cap : 0..(U64 - 1)]
BY CommandLineAssumption DEF NoReads, NoCopies, NoOrder

LEMMA InitIInv == Init => IInv
<1> SUFFICES ASSUME Init PROVE IInv
  OBVIOUS
<1> USE CommandLineAssumption DEF Init, MetaInit
<1>1. TypeOK
  <2>1. {submitted, interrupted} \subseteq BOOLEAN  BY Zenon
  <2> QED BY <2>1, NothingTyped DEF TypeOK
<1>2. InCommand /\ OutOfCommand /\ PanicsAreKnown
  BY DEF InCommand, OutOfCommand, PanicsAreKnown
<1>3. Past
  BY DEF Past, Now, NoReads, NoCopies, Reads
<1> QED BY <1>1, <1>2, <1>3 DEF IInv

---------------------------------------------------------------------------
(* The ways in which a step may end *)

LEMMA GiveUpKeeps ==
  ASSUME IInv, pc' \in {"prompt", "returned"}, NoCommand, Local  PROVE  IInv'
<1> USE CommandLineAssumption DEF IInv, NoCommand, Local, metaVars
<1>1. TypeOK'
  <2>1. {submitted, interrupted}' \subseteq BOOLEAN  BY Zenon DEF TypeOK
  <2> QED BY <2>1, NothingTyped DEF TypeOK
<1>2. InCommand' /\ OutOfCommand' /\ PanicsAreKnown'
  BY DEF InCommand, OutOfCommand, PanicsAreKnown
<1>3. Past'
  BY DEF Past, Now, NoReads, TypeOK, Reads
<1> QED BY <1>1, <1>2, <1>3

LEMMA PanicKeeps ==
  ASSUME IInv, pc = "command", Panic, Local, PanicsAreKnown',
         submitted => line.word \notin Order
  PROVE  IInv'
<1> USE CommandLineAssumption DEF IInv, Panic, cmdVars, Local, metaVars
<1>1. TypeOK'
  BY DEF TypeOK
<1>2. InCommand' /\ OutOfCommand'
  BY DEF InCommand, OutOfCommand
<1>3. Past'
  BY DEF Past, Now
<1> QED BY <1>1, <1>2, <1>3

LEMMA GoOnKeeps ==
  ASSUME IInv, pc = "command",
         NEW reads \in [Reads -> 0..MaxVersion], NEW built \in Orders,
         GoOn(reads, built), Local,
         \A c \in Reads : reads[c] <= Now[c],
         Plan(line)[at] # "answer",
         line.word \in Order => OrderReads(line, at + 1, reads)
  PROVE  IInv'
<1>1. CASE at = Len(Plan(line))
  BY <1>1, GiveUpKeeps DEF GoOn, GiveUp
<1>2. CASE at # Len(Plan(line))
  <2>0. /\ at' = at + 1 /\ got' = reads /\ order' = built
        /\ UNCHANGED <<pc, line, submitted, since>>
    BY <1>2 DEF GoOn
  <2>1. line \in Lines /\ at + 1 \in DOMAIN Plan(line)
    BY <1>2, PlanDomain DEF IInv, TypeOK, InCommand
  <2>2. TypeOK'
    BY <2>0, <2>1 DEF IInv, TypeOK, Local, metaVars, Orders
  <2>3. InCommand'
    BY <2>0, <2>1 DEF IInv, InCommand, OrderReads
  <2>4. Past'
    BY <2>0 DEF IInv, Past, Now, Local, metaVars
  <2>5. OutOfCommand' /\ PanicsAreKnown'
    BY <2>0 DEF OutOfCommand, PanicsAreKnown
  <2> QED BY <2>2, <2>3, <2>4, <2>5 DEF IInv
<1> QED BY <1>1, <1>2

---------------------------------------------------------------------------
(* The steps *)

\* A command at a step is at its place in the plan.
LEMMA Reached ==
  ASSUME IInv, pc = "command"
  PROVE  /\ line \in Lines /\ at \in DOMAIN Plan(line)
         /\ line.word = "cancel" /\ at = 5 => Symbol(line) \in Handled
BY DEF IInv, TypeOK, InCommand, OrderReads, Order

LEMMA AdvanceKeeps ==
  ASSUME IInv, pc = "command", Advance, Local,
         Plan(line)[at] \notin {"group", "user", "handler", "hash", "find", "answer"} \cup Handled
  PROVE  IInv'
<1>1. got \in [Reads -> 0..MaxVersion] /\ order \in Orders
  BY DEF IInv, TypeOK, Orders
<1>2. \A c \in Reads : got[c] <= Now[c]
  BY DEF IInv, Past
<1>3. ASSUME line.word \in Order  PROVE OrderReads(line, at + 1, got)
  <2>1. OrderReads(line, at, got) /\ at \in Nat
    BY <1>3 DEF IInv, TypeOK, InCommand
  <2>2. at \notin {1, 2, 3, 4} /\ (line.word = "cancel" => at \notin {5, 6})
    BY <1>3, Reached, Places
  <2> QED BY <2>1, <2>2 DEF OrderReads
<1> QED BY <1>1, <1>2, <1>3, GoOnKeeps DEF Advance

LEMMA PlainSteps ==
  ASSUME IInv, GetPosition \/ GetToken \/ GetBook \/ SkipMarket  PROVE  IInv'
<1>1. CASE GetPosition
  BY <1>1, AdvanceKeeps, GiveUpKeeps, HandledIsNoStep DEF GetPosition, At, GiveUp, Steps
<1>2. CASE GetToken
  BY <1>2, AdvanceKeeps, HandledIsNoStep DEF GetToken, At, Steps
<1>3. CASE GetBook
  BY <1>3, AdvanceKeeps, HandledIsNoStep DEF GetBook, At, Steps
<1>4. CASE SkipMarket
  BY <1>4, AdvanceKeeps, CommandLineAssumption DEF SkipMarket, IsHandled, At, Steps
<1> QED BY <1>1, <1>2, <1>3, <1>4

\* A copy is read: what is fetched is its version now.
LEMMA FetchedKeeps ==
  ASSUME IInv, pc = "command", NEW c \in Reads, Now[c] \in 0..MaxVersion, Fetched(c, Now[c]), Local,
         Plan(line)[at] = c, c \in {"group", "user"} => Now[c] # 0
  PROVE  IInv'
<1> DEFINE reads == [got EXCEPT ![c] = Now[c]]
<1>1. reads \in [Reads -> 0..MaxVersion] /\ order \in Orders
  BY DEF IInv, TypeOK, Orders
<1>2. \A d \in Reads : reads[d] <= Now[d] /\ (d # c => reads[d] = got[d])
  BY DEF IInv, TypeOK, Past
<1>3. reads[c] = Now[c] /\ since[c] <= Now[c] /\ c \notin {"find", "answer", "handler"}
  BY CommandLineAssumption DEF IInv, TypeOK, Past, Reads, Copies, Steps
<1>4. ASSUME line.word \in Order  PROVE OrderReads(line, at + 1, reads)
  <2>1. OrderReads(line, at, got) /\ at \in Nat
    BY <1>4 DEF IInv, TypeOK, InCommand
  <2>2. /\ at = 1 => c = "group"
        /\ at = 2 => c = "user"
        /\ at # 3
        /\ at = 4 => c = "hash"
        /\ line.word = "cancel" => at # 6 /\ (at = 5 => c = Symbol(line))
        /\ c \in Handled => at = 5
    <3>1. "status" \notin Order
      BY DEF Order
    <3> QED BY <1>3, <1>4, <3>1, Reached, Places
  <2> HIDE DEF reads
  <2>3. Symbol(line) \in Handled \/ at < 4
    BY <2>1 DEF OrderReads
  <2>4. {"group", "user", "hash"} \cup Handled \subseteq Reads
    BY DEF Reads, Copies
  <2>5. at + 1 > 1 => reads["group"] # 0 /\ since["group"] <= reads["group"]
    BY <1>2, <1>3, <2>1, <2>2, <2>4 DEF OrderReads
  <2>6. at + 1 > 2 => reads["user"] # 0 /\ since["user"] <= reads["user"]
    BY <1>2, <1>3, <2>1, <2>2, <2>4 DEF OrderReads
  <2>7. at + 1 > 4 => since["hash"] <= reads["hash"]
    BY <1>2, <1>3, <2>1, <2>2, <2>4 DEF OrderReads
  <2>8. at + 1 > 3 => Symbol(line) \in Handled
    BY <2>1, <2>2, <2>3 DEF OrderReads
  <2>9. ASSUME line.word = "cancel", at + 1 > 5
        PROVE  since[Symbol(line)] <= reads[Symbol(line)]
    BY <2>9, <1>2, <1>3, <2>1, <2>2, <2>4, <2>8 DEF OrderReads
  <2>10. ASSUME line.word = "cancel", at + 1 > 6
         PROVE  OrderId(line) \in OrdersAt[Symbol(line)][reads[Symbol(line)]]
    <3>1. at > 6  BY <2>10, <2>1, <2>2
    <3>2. Symbol(line) # c  BY <3>1, <2>1, <2>2, <2>8
    <3>3. reads[Symbol(line)] = got[Symbol(line)]
      BY <3>1, <3>2, <1>2, <2>1, <2>4, <2>8
    <3> QED BY <3>1, <3>3, <2>10, <2>1 DEF OrderReads
  <2> QED BY <2>5, <2>6, <2>7, <2>8, <2>9, <2>10 DEF OrderReads
<1>5. Plan(line)[at] # "answer"
  BY <1>3
<1> HIDE DEF reads
<1>6. GoOn(reads, order)
  BY DEF Fetched, reads
<1> QED BY <1>1, <1>2, <1>4, <1>5, <1>6, GoOnKeeps

LEMMA NowIsTyped == IInv => Now \in [Reads -> 0..MaxVersion]
BY DEF IInv, TypeOK, Now, Reads, Copies

LEMMA GetSteps ==
  ASSUME IInv, (\E c \in {"group", "user"} : GetState(c)) \/ GetHash \/ GetHandler  PROVE  IInv'
<1>1. ASSUME NEW c \in {"group", "user"}, GetState(c)  PROVE IInv'
  <2>1. CASE view[c] = 0
    BY <1>1, <2>1, GiveUpKeeps DEF GetState, GiveUp
  <2>2. CASE view[c] # 0
    <3>1. c \in Reads /\ Now[c] = view[c] /\ Now[c] \in 0..MaxVersion
      BY NowIsTyped DEF Now, Reads, Copies
    <3> QED BY <1>1, <2>2, <3>1, FetchedKeeps DEF GetState, At
  <2> QED BY <2>1, <2>2
<1>2. CASE GetHash
  <2>1. "hash" \in Reads /\ Now["hash"] = recentHash /\ Now["hash"] \in 0..MaxVersion
    BY NowIsTyped DEF Now, Reads
  <2> QED BY <1>2, <2>1, FetchedKeeps DEF GetHash, At
<1>3. CASE GetHandler
  <2>1. CASE ~IsHandled(Symbol(line))
    BY <1>3, <2>1, GiveUpKeeps DEF GetHandler, GiveUp
  <2>2. CASE IsHandled(Symbol(line))
    <3>1. /\ pc = "command" /\ Plan(line)[at] = "handler" /\ Advance /\ Local
          /\ Symbol(line) \in Handled
      BY <1>3, <2>2 DEF GetHandler, At, IsHandled
    <3>2. got \in [Reads -> 0..MaxVersion] /\ order \in Orders
      BY DEF IInv, TypeOK, Orders
    <3>3. \A c \in Reads : got[c] <= Now[c]
      BY DEF IInv, Past
    <3>4. ASSUME line.word \in Order  PROVE OrderReads(line, at + 1, got)
      <4>1. OrderReads(line, at, got) /\ at \in Nat
        BY <3>1, <3>4 DEF IInv, TypeOK, InCommand
      <4>2. at \notin {1, 2, 4} /\ (line.word = "cancel" => at \notin {5, 6})
        BY <3>1, <3>4, Reached, Places, HandledIsNoStep DEF Steps
      <4> QED BY <3>1, <4>1, <4>2 DEF OrderReads
    <3> QED BY <3>1, <3>2, <3>3, <3>4, GoOnKeeps DEF Advance
  <2> QED BY <2>1, <2>2
<1> QED BY <1>1, <1>2, <1>3

LEMMA OpenOrdersSteps ==
  ASSUME IInv, (\E m \in Handled : GetOpenOrders(m)) \/ FindOrder  PROVE  IInv'
<1>1. ASSUME NEW m \in Handled, GetOpenOrders(m)  PROVE IInv'
  <2>0. pc = "command" /\ Plan(line)[at] = m /\ m \in Reads /\ m \notin {"group", "user", "hash"}
    BY <1>1, HandledIsNoStep DEF GetOpenOrders, At, Reads, Copies
  <2>1. CASE view[m] = 0
    <3>1. got[m] = 0
      <4>1. Now[m] = 0  BY <2>0, <2>1 DEF Now
      <4>2. got[m] <= Now[m]  BY <2>0 DEF IInv, Past
      <4>3. got[m] \in 0..MaxVersion  BY <2>0 DEF IInv, TypeOK
      <4> QED BY <4>1, <4>2, <4>3, CommandLineAssumption
    <3>2. Panic /\ Local
      BY <1>1, <2>1 DEF GetOpenOrders
    <3>3. line.word = "status" \/ (line.word = "cancel" /\ m = Symbol(line))
      BY <2>0, Reached, Places
    <3>4. PanicsAreKnown'
      BY <3>1, <3>2, <3>3 DEF Panic, cmdVars, PanicsAreKnown, Symbol
    <3>5. ~submitted
      BY <2>0, HandledIsNoStep DEF IInv, InCommand, Steps
    <3> QED BY <2>0, <3>2, <3>4, <3>5, PanicKeeps
  <2>2. CASE view[m] # 0
    <3>1. Now[m] = view[m] /\ Now[m] \in 0..MaxVersion
      BY <2>0, NowIsTyped DEF Now
    <3> QED BY <1>1, <2>0, <2>2, <3>1, FetchedKeeps DEF GetOpenOrders
  <2> QED BY <2>1, <2>2
<1>2. CASE FindOrder
  <2>1. CASE OrderId(line) \notin OrdersAt[Symbol(line)][got[Symbol(line)]]
    BY <1>2, <2>1, GiveUpKeeps DEF FindOrder, GiveUp
  <2>2. CASE OrderId(line) \in OrdersAt[Symbol(line)][got[Symbol(line)]]
    <3>1. pc = "command" /\ Plan(line)[at] = "find" /\ Advance /\ Local
      BY <1>2, <2>2 DEF FindOrder, At
    <3>2. got \in [Reads -> 0..MaxVersion] /\ order \in Orders
      BY DEF IInv, TypeOK, Orders
    <3>3. \A c \in Reads : got[c] <= Now[c]
      BY DEF IInv, Past
    <3>4. ASSUME line.word \in Order  PROVE OrderReads(line, at + 1, got)
      <4>1. OrderReads(line, at, got) /\ at \in Nat
        BY <3>1, <3>4 DEF IInv, TypeOK, InCommand
      <4>2. at \notin {1, 2, 3, 4} /\ (line.word = "cancel" => at # 5)
        BY <3>1, <3>4, Reached, Places, HandledIsNoStep DEF Steps
      <4> QED BY <2>2, <4>1, <4>2 DEF OrderReads
    <3> QED BY <3>1, <3>2, <3>3, <3>4, GoOnKeeps DEF Advance
  <2> QED BY <2>1, <2>2
<1> QED BY <1>1, <1>2

\* The product wraps around to 0 only where it is 0 or does not fit.
LEMMA WrapsToZero ==
  ASSUME NEW x \in Nat, x % U64 = 0  PROVE  x \notin 1..(U64 - 1)
<1>1. x \in 0..(U64 - 1) => x % U64 = x
  BY CommandLineAssumption
<1> QED BY <1>1

LEMMA LimitStep == ASSUME IInv, BuildLimit  PROVE IInv'
<1>0. /\ pc = "command" /\ Plan(line)[at] = "limit" /\ Local
      /\ line.word = "limit" /\ line \in Lines /\ IsCommand(line) /\ ~submitted
  <2>1. pc = "command" /\ Plan(line)[at] = "limit" /\ Local
    BY DEF BuildLimit, At
  <2> QED BY <2>1, Reached, Places DEF IInv, InCommand
<1>1. Amount(line) \in Nat /\ Price(line) \in Nat
  BY <1>0, LimitNumbers
<1>2. Amount(line) * Price(line) \in Nat
  BY <1>1
<1>3. Cap(line) \in 0..(U64 - 1)
  BY <1>2, CommandLineAssumption DEF Cap
<1>4. CASE (Checked /\ Amount(line) * Price(line) >= U64) \/ Cap(line) = 0
  <2>1. Panic
    BY <1>4 DEF BuildLimit
  <2>2. Amount(line) * Price(line) \notin 1..(U64 - 1)
    BY <1>2, <1>4, WrapsToZero, CommandLineAssumption DEF Cap
  <2>3. PanicsAreKnown'
    BY <1>0, <2>1, <2>2 DEF Panic, cmdVars, PanicsAreKnown, Amount, Price
  <2> QED BY <1>0, <2>1, <2>3, PanicKeeps
<1>5. CASE ~((Checked /\ Amount(line) * Price(line) >= U64) \/ Cap(line) = 0)
  <2> DEFINE built == [side |-> SideOf(line), cap |-> Cap(line)]
  <2>1. GoOn(got, built)
    BY <1>5 DEF BuildLimit
  <2>2. built \in Orders /\ got \in [Reads -> 0..MaxVersion]
    BY <1>3 DEF SideOf, Orders, IInv, TypeOK
  <2>3. \A c \in Reads : got[c] <= Now[c]
    BY DEF IInv, Past
  <2>4. OrderReads(line, at + 1, got)
    <3>1. OrderReads(line, at, got) /\ at \in Nat
      BY <1>0 DEF IInv, TypeOK, InCommand, Order
    <3>2. at \notin {1, 2, 3, 4}
      BY <1>0, Reached, Places DEF Order
    <3> QED BY <1>0, <3>1, <3>2 DEF OrderReads
  <2> HIDE DEF built
  <2> QED BY <1>0, <2>1, <2>2, <2>3, <2>4, GoOnKeeps
<1> QED BY <1>4, <1>5

\* The steps of the other commands that may panic.
LEMMA PanickySteps ==
  ASSUME IInv, Rates \/ BuildMarket \/ ParseKey \/ FetchHash  PROVE  IInv'
<1>0. /\ pc = "command" /\ Local
      /\ Plan(line)[at] \in {"rates", "market", "pubkey", "blockhash"}
  BY DEF Rates, BuildMarket, ParseKey, FetchHash, At
<1>1. CASE Advance
  BY <1>0, <1>1, AdvanceKeeps, HandledIsNoStep DEF Steps
<1>2. ASSUME Panic, PanicsAreKnown'  PROVE IInv'
  <2>1. ~submitted
    BY <1>0 DEF IInv, InCommand
  <2> QED BY <1>0, <1>2, <2>1, PanicKeeps
<1>3. Panic /\ line.word \in Fund \cup {"market"} => PanicsAreKnown'
  BY DEF Panic, cmdVars, PanicsAreKnown
<1>4. CASE Rates
  <2>1. line.word = "tokens"
    BY <1>4, Reached, Places DEF Rates, At
  <2>2. Panic /\ got["group"] \in NoRates => PanicsAreKnown'
    BY <2>1 DEF Panic, cmdVars, PanicsAreKnown
  <2> QED BY <1>1, <1>2, <1>4, <2>2 DEF Rates
<1>5. CASE BuildMarket
  BY <1>2, <1>3, <1>5, Reached, Places DEF BuildMarket, At
<1>6. CASE ParseKey
  BY <1>1, <1>2, <1>3, <1>6, Reached, Places DEF ParseKey, At
<1>7. CASE FetchHash
  BY <1>1, <1>2, <1>3, <1>7, Reached, Places DEF FetchHash, At
<1> QED BY <1>4, <1>5, <1>6, <1>7

LEMMA SubmitKeeps == ASSUME IInv, Submit  PROVE  IInv' /\ ~submitted
<1>1. /\ pc = "command" /\ Plan(line)[at] = "submit" /\ line \in Lines /\ Local
      /\ at + 1 \in DOMAIN Plan(line) /\ Plan(line)[at + 1] = "answer"
  BY Reached, Places DEF Submit, At
<1>2. submitted' = TRUE /\ at' = at + 1 /\ UNCHANGED <<pc, line, got, order, since>>
  BY DEF Submit
<1>3. ~submitted
  BY <1>1 DEF IInv, InCommand
<1>4. TypeOK'
  <2>1. {submitted, interrupted}' \subseteq BOOLEAN
    BY <1>1, <1>2, Zenon DEF IInv, TypeOK, Local
  <2> QED BY <1>1, <1>2, <2>1 DEF IInv, TypeOK, Local, metaVars
<1>5. ASSUME line.word \in Order  PROVE OrderReads(line, at + 1, got)
  <2>1. OrderReads(line, at, got) /\ at \in Nat
    BY <1>1, <1>5 DEF IInv, TypeOK, InCommand
  <2>2. at \notin {1, 2, 3, 4} /\ (line.word = "cancel" => at \notin {5, 6})
    BY <1>1, <1>5, Reached, Places, HandledIsNoStep DEF Steps
  <2> QED BY <2>1, <2>2 DEF OrderReads
<1>6. InCommand'
  BY <1>1, <1>2, <1>5 DEF IInv, InCommand, OrderReads
<1>7. Past'
  BY <1>1, <1>2 DEF IInv, Past, Now, Local, metaVars
<1>8. OutOfCommand' /\ PanicsAreKnown'
  BY <1>1, <1>2 DEF OutOfCommand, PanicsAreKnown
<1> QED BY <1>3, <1>4, <1>6, <1>7, <1>8 DEF IInv

LEMMA AnswerKeeps == ASSUME IInv, Answer  PROVE  IInv'
<1>1. CASE GiveUp
  BY <1>1, GiveUpKeeps DEF Answer, GiveUp
<1>2. CASE line.word = "new" /\ Panic
  <2>1. PanicsAreKnown' /\ line.word \notin Order
    BY <1>2 DEF Panic, cmdVars, PanicsAreKnown, Fund, Order
  <2> QED BY <1>2, <2>1, PanicKeeps DEF Answer, At
<1> QED BY <1>1, <1>2 DEF Answer

LEMMA StepKeeps == IInv /\ Step => IInv'
BY PlainSteps, GetSteps, OpenOrdersSteps, LimitStep, PanickySteps, SubmitKeeps, AnswerKeeps DEF Step

---------------------------------------------------------------------------
(* The prompt, and what happens beside the commands *)

LEMMA ReadKeeps == ASSUME IInv, NEW l \in Lines, Read(l)  PROVE  IInv'
<1>1. CASE l.word = "exit"
  BY <1>1, GiveUpKeeps DEF Read, Local
<1>2. CASE l.word # "exit"
  <2>1. /\ pc = "prompt" /\ IsCommand(l) /\ Plan(l) # << >> /\ pc' = "command"
        /\ line' = l /\ since' = Before(l)
        /\ UNCHANGED <<at, got, order, submitted, view, recentHash, polling, interrupted>>
    BY <1>2 DEF Read, metaVars
  <2>2. at = 1 /\ ~submitted /\ at \in DOMAIN Plan(l)
    BY <2>1, PlanDomain DEF IInv, OutOfCommand
  <2>3. Before(l) \in [Reads -> 0..MaxVersion] /\ \A c \in Reads : Before(l)[c] <= Now[c]
    BY NowIsTyped, CommandLineAssumption DEF Before
  <2>4. TypeOK'
    BY <2>1, <2>2, <2>3 DEF IInv, TypeOK
  <2>5. InCommand'
    BY <2>1, <2>2 DEF InCommand, OrderReads
  <2>6. Past'
    BY <2>1, <2>3 DEF IInv, Past, Now
  <2>7. OutOfCommand' /\ PanicsAreKnown'
    BY <2>1 DEF OutOfCommand, PanicsAreKnown
  <2> QED BY <2>4, <2>5, <2>6, <2>7 DEF IInv
<1> QED BY <1>1, <1>2

\* Copies and hash only move forward while the tasks run.
LEMMA BesideKeeps ==
  ASSUME IInv, CtrlC \/ (\E c \in Copies : Arrive(c)) \/ Meta  PROVE  IInv'
<1>1. UNCHANGED <<pc, line, at, got, order, submitted, since>>
  BY DEF CtrlC, Arrive, Meta, cmdVars
<1>2. \A c \in Reads : Now[c] <= Now'[c]
  <2>1. CASE CtrlC
    BY <2>1, NowIsTyped DEF CtrlC, Now, metaVars
  <2>2. ASSUME NEW d \in Copies, Arrive(d)  PROVE \A c \in Reads : Now[c] <= Now'[c]
    BY <2>2 DEF Arrive, Now, IInv, TypeOK, metaVars, Reads
  <2>3. CASE Meta
    <3>1. recentHash <= recentHash'
      BY <2>3, CommandLineAssumption
      DEF Meta, MetaTurn, PollHash, PollHashErr, PollSlot, PollAgain, IInv, TypeOK
    <3> QED BY <2>3, <3>1 DEF Meta, Now, IInv, TypeOK, Reads
  <2> QED BY <2>1, <2>2, <2>3
<1>3. TypeOK'
  <2>1. CASE CtrlC
    <3>1. {submitted, interrupted}' \subseteq BOOLEAN
      BY <2>1, Zenon DEF IInv, TypeOK, CtrlC, cmdVars
    <3> QED BY <1>1, <2>1, <3>1 DEF IInv, TypeOK, CtrlC, metaVars
  <2>2. ASSUME NEW d \in Copies, Arrive(d)  PROVE TypeOK'
    BY <1>1, <2>2 DEF Arrive, IInv, TypeOK, metaVars
  <2>3. CASE Meta
    BY <1>1, <2>3, CommandLineAssumption
    DEF Meta, MetaTurn, PollHash, PollHashErr, PollSlot, PollAgain, IInv, TypeOK
  <2> QED BY <2>1, <2>2, <2>3
<1>4. Past'
  <2>1. Now \in [Reads -> 0..MaxVersion] /\ Now' \in [Reads -> 0..MaxVersion]
    BY <1>3, NowIsTyped DEF TypeOK, Now, Reads, Copies
  <2>2. ASSUME NEW c \in Reads  PROVE since[c] <= Now'[c] /\ got[c] <= Now'[c]
    BY <1>2, <2>1 DEF IInv, TypeOK, Past
  <2> QED BY <1>1, <2>2 DEF Past
<1>5. InCommand' /\ OutOfCommand' /\ PanicsAreKnown'
  BY <1>1 DEF IInv, InCommand, OrderReads, OutOfCommand, PanicsAreKnown
<1> QED BY <1>3, <1>4, <1>5 DEF IInv

LEMMA NextIInv == IInv /\ [Next]_vars => IInv'
<1> SUFFICES ASSUME IInv, [Next]_vars PROVE IInv'
  OBVIOUS
<1>1. CASE Hear
  BY <1>1, GiveUpKeeps DEF Hear
<1>2. CASE UNCHANGED vars
  <2>1. TypeOK'
    BY <1>2 DEF vars, cmdVars, metaVars, IInv, TypeOK
  <2>2. InCommand' /\ Past' /\ OutOfCommand' /\ PanicsAreKnown'
    BY <1>2
    DEF vars, cmdVars, metaVars, IInv, InCommand, OrderReads, Past, Now, OutOfCommand,
        PanicsAreKnown
  <2> QED BY <2>1, <2>2 DEF IInv
<1> QED BY <1>1, <1>2, StepKeeps, ReadKeeps, BesideKeeps DEF Next

---------------------------------------------------------------------------
\* Type correctness; in particular the cap of an order is a u64.
THEOREM TypeCorrect == Spec => []TypeOK
<1>1. IInv => TypeOK  BY DEF IInv
<1> QED BY <1>1, InitIInv, NextIInv, PTL DEF Spec

\* A command panics only in the known ways, whatever arrives between its steps.
THEOREM PanicsStayKnown == Spec => []PanicsAreKnown
<1>1. IInv => PanicsAreKnown  BY DEF IInv
<1> QED BY <1>1, InitIInv, NextIInv, PTL DEF Spec

LEMMA SubmittedIsCurrent == IInv => ReadsAreCurrent
<1> SUFFICES ASSUME IInv, submitted, line.word \in Order PROVE ReadsAreCurrent
  BY DEF ReadsAreCurrent
<1>1. pc = "command" /\ Plan(line)[at] = "answer"
  BY DEF IInv, TypeOK, InCommand, OutOfCommand
<1>2. OrderReads(line, at, got) /\ at \in Nat
  BY <1>1 DEF IInv, TypeOK, InCommand
<1>3. at \notin {1, 2, 3, 4} /\ (line.word = "cancel" => at \notin {5, 6})
  BY <1>1, Reached, Places, HandledIsNoStep DEF Steps
<1>4. at > 0
  BY <1>1, Reached, PlanDomain
<1> QED BY <1>2, <1>3, <1>4 DEF ReadsAreCurrent, OrderReads

\* What an order is made of was read after its line was typed.
THEOREM OrdersAreCurrent == Spec => []ReadsAreCurrent
BY SubmittedIsCurrent, InitIInv, NextIInv, PTL DEF Spec

\* No line leads to two transactions.
THEOREM NeverTwice == Spec => OnePerLine
<1>1. IInv /\ [Next]_vars => [Submit => ~submitted]_vars
  BY SubmitKeeps
<1> QED BY <1>1, InitIInv, NextIInv, PTL DEF Spec, OnePerLine

\* What a command has read it reads no more; it reads what the copy is now.
LEMMA ReadsComeFromCopies ==
  ASSUME IInv, [Next]_vars
  PROVE  \A c \in Copies : got'[c] \in {0, got[c], view[c]}
<1> USE DEF NoCommand, NoReads, GiveUp, Panic, GoOn, Advance, Fetched, cmdVars
<1>1. got \in [Reads -> 0..MaxVersion] /\ Copies \subseteq Reads /\ "hash" \notin Copies
  BY HandledIsNoStep DEF IInv, TypeOK, Reads, Copies
<1>2. CASE Step
  <2>1. ASSUME NEW c \in {"group", "user"}, GetState(c)
        PROVE  \A d \in Copies : got'[d] \in {0, got[d], view[d]}
    BY <1>1, <2>1 DEF GetState
  <2>2. ASSUME NEW m \in Handled, GetOpenOrders(m)
        PROVE  \A d \in Copies : got'[d] \in {0, got[d], view[d]}
    BY <1>1, <2>2 DEF GetOpenOrders
  <2>3. CASE GetHash
    BY <1>1, <2>3 DEF GetHash
  <2>4. CASE SkipMarket \/ GetPosition \/ Rates \/ GetToken
    BY <1>1, <2>4 DEF SkipMarket, GetPosition, Rates, GetToken
  <2>5. CASE GetHandler \/ GetBook \/ FindOrder \/ ParseKey
    BY <1>1, <2>5 DEF GetHandler, GetBook, FindOrder, ParseKey
  <2>6. CASE BuildLimit \/ BuildMarket \/ FetchHash \/ Submit \/ Answer
    BY <1>1, <2>6 DEF BuildLimit, BuildMarket, FetchHash, Submit, Answer
  <2> QED BY <1>2, <2>1, <2>2, <2>3, <2>4, <2>5, <2>6 DEF Step
<1>3. CASE (\E l \in Lines : Read(l)) \/ Hear
  BY <1>1, <1>3 DEF Read, Hear
<1>4. CASE CtrlC \/ (\E c \in Copies : Arrive(c)) \/ Meta \/ UNCHANGED vars
  BY <1>1, <1>4 DEF CtrlC, Arrive, Meta, vars
<1> QED BY <1>2, <1>3, <1>4 DEF Next
=============================================================================
