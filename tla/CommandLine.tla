---------------------------- MODULE CommandLine ----------------------------
(***************************************************************************)
(* The prompt and the commands: InteractiveCli::run_loop, get_command and  *)
(* process_command (src/src/interactive_cli.rs), the order functions of    *)
(* Handler (src/src/market_handler.rs), and the select! of main() they run *)
(* in.  Everything here happens on the main task.  read_line blocks it, so *)
(* Ctrl-C is noticed only while a command awaits something.                *)
(*                                                                         *)
(* What the commands read are the copies that DataPipeline maintains; its  *)
(* abstract specification Mirror stands for it here: a copy is the version *)
(* of an account, 0 as long as there is none, and only moves forward.      *)
(* ChainMetaService runs beside them.                                      *)
(***************************************************************************)
EXTENDS ChainMetaService, Sequences

CONSTANTS
  Config,      \* the markets of the group, in the order of the configuration
  Handled,     \* those with a handler: the others were ignored at start-up
  Lines,       \* what the user may type: records of a word and its arguments
  Value,       \* Value[t]: the number that the argument t is parsed to
  PublicKeys,  \* the arguments that Pubkey::from_str accepts
  OrdersAt,    \* OrdersAt[m][v]: the order ids in version v of m's open orders
  Devnet,      \* the cluster is devnet
  Checked,     \* the build checks arithmetic for overflow
  NoRates,     \* the versions of the group whose quote token nobody has deposited
  U64          \* 2^w for the width w of the code's u64

Fund == {"airdrop", "new", "delegate", "deposit"}
Order == {"limit", "market", "cancel"}
Copies == {"group", "user"} \cup Handled   \* m: the open orders of m
Reads == Copies \cup {"hash"}

\* The steps of a command other than markets.
Steps ==
  {"group", "user", "rates", "position", "handler", "book", "hash", "limit", "market", "find",
   "pubkey", "token", "blockhash", "submit", "answer"}

ASSUME CommandLineAssumption ==
  /\ Config \in Seq(STRING) /\ Handled \subseteq {Config[i] : i \in DOMAIN Config}
  /\ \A i \in DOMAIN Config : Config[i] \notin Steps
  /\ Lines \subseteq [word : STRING, args : Seq(STRING)]
  /\ \A t \in DOMAIN Value : Value[t] \in Nat
  /\ Checked \in BOOLEAN /\ Devnet \in BOOLEAN /\ U64 \in Nat \ {0} /\ MaxVersion \in Nat

VARIABLES
  pc,           \* "prompt", "command", "returned" (from main) or "panicked"
  line,         \* the line of the command in progress
  at,           \* how far it is: the place of its next step in its plan
  got,          \* the versions it has read so far
  order,        \* side and cap of the order it has built
  submitted,    \* its transaction has been submitted
  since,        \* history: the versions there were when the line of an order was read
  view,         \* the copies
  interrupted   \* Ctrl-C was pressed

cmdVars == <<line, at, got, order, submitted, since>>
vars == <<pc, cmdVars, view, metaVars, interrupted>>

---------------------------------------------------------------------------
(* get_command *)

MinArgs ==
  [help |-> 0, exit |-> 0, status |-> 0, markets |-> 0, tokens |-> 0, airdrop |-> 0,
   new |-> 1, delegate |-> 1, deposit |-> 1, orderbook |-> 2, limit |-> 4, market |-> 3,
   cancel |-> 2]

NumberArgs ==
  [w \in DOMAIN MinArgs |->
     CASE w \in {"new", "deposit"} -> {1}
       [] w \in {"orderbook", "cancel"} -> {2}
       [] w = "limit" -> {3, 4}
       [] w = "market" -> {3}
       [] OTHER -> {}]

\* Anything else is either Ok(None) or an error that becomes None in run_loop.
IsCommand(l) ==
  /\ l.word \in DOMAIN MinArgs
  /\ Len(l.args) >= MinArgs[l.word]
  /\ \A i \in NumberArgs[l.word] : l.args[i] \in DOMAIN Value

Symbol(l) == IF l.word \in {"limit", "market"} THEN l.args[2] ELSE l.args[1]
SideOf(l) == IF l.args[1] = "buy" THEN "bid" ELSE "ask"
Amount(l) == Value[l.args[3]]
Price(l) == Value[l.args[4]]
OrderId(l) == Value[l.args[2]]

---------------------------------------------------------------------------
(* process_command: what each command awaits and checks, in order, up to what *)
(* it prints.  A market stands for get_open_orders of its handler, if any.   *)

MarketsPlan == <<"group">>
TokensPlan == <<"group", "rates">>
StatusPlan == <<"group", "user", "position">> \o Config
BookPlan == <<"handler", "book">>
LimitPlan == <<"group", "user", "handler", "hash", "limit", "submit", "answer">>
MarketPlan == <<"group", "user", "handler", "hash", "market">>
CancelPlan(m) == <<"group", "user", "handler", "hash", m, "find", "submit", "answer">>
AirdropPlan == IF Devnet THEN <<"token", "blockhash", "submit", "answer">> ELSE <<>>
NewPlan == <<"blockhash", "submit", "answer">>
DelegatePlan == <<"pubkey", "blockhash", "submit", "answer">>
DepositPlan == <<"group", "blockhash", "submit", "answer">>

Plan(l) ==
  CASE l.word = "markets" -> MarketsPlan
    [] l.word = "tokens" -> TokensPlan
    [] l.word = "status" -> StatusPlan
    [] l.word = "orderbook" -> BookPlan
    [] l.word = "limit" -> LimitPlan
    [] l.word = "market" -> MarketPlan
    [] l.word = "cancel" -> CancelPlan(Symbol(l))
    [] l.word = "airdrop" -> AirdropPlan
    [] l.word = "new" -> NewPlan
    [] l.word = "delegate" -> DelegatePlan
    [] l.word = "deposit" -> DepositPlan
    [] OTHER -> <<>>

NoReads == [c \in Reads |-> 0]
NoCopies == [c \in Copies |-> 0]
NoLine == [word |-> "", args |-> <<>>]
NoOrder == [side |-> "none", cap |-> 0]

TypeOK ==
  /\ pc \in {"prompt", "command", "returned", "panicked"}
  /\ line \in Lines \cup {NoLine}
  /\ {got, since} \subseteq [Reads -> 0..MaxVersion] /\ view \in [Copies -> 0..MaxVersion]
  /\ recentHash \in 0..MaxVersion /\ polling \in {"hash", "slot", "sleep", "stopped"}
  /\ order \in [side : {"bid", "ask", "none"}, cap : 0..(U64 - 1)]
  /\ {submitted, interrupted} \subseteq BOOLEAN
  /\ at \in Nat /\ (pc = "command" => at \in DOMAIN Plan(line))

NoCommand ==
  /\ line' = NoLine /\ at' = 1 /\ got' = NoReads /\ since' = NoReads
  /\ order' = NoOrder /\ submitted' = FALSE

Init ==
  /\ pc = "prompt" /\ line = NoLine /\ at = 1 /\ got = NoReads /\ since = NoReads
  /\ order = NoOrder /\ submitted = FALSE
  /\ view = NoCopies /\ MetaInit /\ interrupted = FALSE

Now == [c \in Reads |-> IF c = "hash" THEN recentHash ELSE view[c]]

\* What the plan of an order reads, as it is before it begins.
Before(l) ==
  [c \in Reads |-> IF l.word \in Order /\ (\E i \in DOMAIN Plan(l) : Plan(l)[i] = c)
                   THEN Now[c] ELSE 0]

\* One turn of run_loop.  A line that is no command, or one without an await,
\* leads straight to the next read_line.
Read(l) ==
  /\ pc = "prompt" /\ IsCommand(l)
  /\ IF l.word = "exit" THEN pc' = "returned" /\ NoCommand
     ELSE /\ Plan(l) # <<>> /\ pc' = "command"
          /\ line' = l /\ since' = Before(l)
          /\ UNCHANGED <<at, got, order, submitted>>
  /\ UNCHANGED <<view, metaVars, interrupted>>

At(s) == pc = "command" /\ Plan(line)[at] = s

\* The command prints its result, or why it cannot go on: back to the prompt.
GiveUp == pc' = "prompt" /\ NoCommand

Panic == pc' = "panicked" /\ UNCHANGED cmdVars

\* The command takes its next step, with what it has read and built.
GoOn(reads, built) ==
  IF at = Len(Plan(line)) THEN GiveUp
  ELSE /\ at' = at + 1 /\ got' = reads /\ order' = built
       /\ UNCHANGED <<pc, line, submitted, since>>

Advance == GoOn(got, order)
Fetched(c, version) == GoOn([got EXCEPT ![c] = version], order)

Local == UNCHANGED <<view, metaVars, interrupted>>

\* Wrong on purpose: the first copy ever is good enough.
GetStateKept(c) ==
  /\ c \in {"group", "user"} /\ At(c)
  /\ IF view[c] = 0 THEN GiveUp ELSE Fetched(c, 1)
  /\ Local

\* Wrong on purpose: unwrap() in place of match.
GetStateUnwrap(c) ==
  /\ c \in {"group", "user"} /\ At(c)
  /\ IF view[c] = 0 THEN Panic ELSE Fetched(c, view[c])
  /\ Local

\* cypher_context.get_group(), get_user().
GetState(c) ==
  /\ c \in {"group", "user"} /\ At(c)
  /\ IF view[c] = 0 THEN GiveUp ELSE Fetched(c, view[c])
  /\ Local

\* user.get_position(QUOTE_TOKEN_IDX): account_status returns without one.
GetPosition == At("position") /\ (Advance \/ GiveUp) /\ Local

\* tokens_status divides by the deposits.
Rates ==
  /\ At("rates")
  /\ IF got["group"] \in NoRates THEN Panic ELSE Advance
  /\ Local

\* get_token_account in request_airdrop: the outcome is the subject of Funding.
GetToken == At("token") /\ Advance /\ Local

\* cm_service.get_latest_blockhash(): the default hash before the first poll.
GetHash == At("hash") /\ Fetched("hash", recentHash) /\ Local

IsHandled(m) == m \in Handled

\* Wrong on purpose: nothing happens without a handler.
GetHandlerWaits ==
  /\ At("handler") /\ IsHandled(Symbol(line)) /\ Advance
  /\ Local

\* get_handler
GetHandler ==
  /\ At("handler")
  /\ IF IsHandled(Symbol(line)) THEN Advance ELSE GiveUp
  /\ Local

\* get_orderbook and both sides of it: always available, possibly empty.
GetBook == At("book") /\ Advance /\ Local

\* status leaves a market without a handler out.
SkipMarket ==
  /\ \E i \in DOMAIN Config : ~IsHandled(Config[i]) /\ At(Config[i])
  /\ Advance
  /\ Local

\* get_open_orders().await.unwrap(), in status and in cancel_order.
GetOpenOrders(m) ==
  /\ m \in Handled /\ At(m)
  /\ IF view[m] = 0 THEN Panic ELSE Fetched(m, view[m])
  /\ Local

\* cancel_order: the id must be among the open orders.
FindOrder ==
  /\ At("find")
  /\ IF OrderId(line) \in OrdersAt[Symbol(line)][got[Symbol(line)]] THEN Advance ELSE GiveUp
  /\ Local

\* Wrong on purpose: the product is not taken in u64.
CapUnbounded(l) == Amount(l) * Price(l)

\* limit_order: amount * price in u64, then NonZeroU64::new(..).unwrap() thrice.
Cap(l) == (Amount(l) * Price(l)) % U64

BuildLimit ==
  /\ At("limit")
  /\ IF (Checked /\ Amount(line) * Price(line) >= U64) \/ Cap(line) = 0
     THEN Panic
     ELSE GoOn(got, [side |-> SideOf(line), cap |-> Cap(line)])
  /\ Local

\* market_order: todo!().
BuildMarket == At("market") /\ Panic /\ Local

\* Pubkey::from_str(..).unwrap() in delegate.
ParseKey ==
  /\ At("pubkey")
  /\ IF line.args[1] \in PublicKeys THEN Advance ELSE Panic
  /\ Local

\* rpc_client.get_latest_blockhash().await.unwrap() of utils/accounts.rs.
FetchHash ==
  /\ At("blockhash") /\ (Advance \/ Panic)
  /\ Local

\* The transaction leaves; the answer is awaited.
Submit ==
  /\ At("submit")
  /\ submitted' = TRUE /\ at' = at + 1
  /\ UNCHANGED <<pc, line, got, order, since>>
  /\ Local

\* Wrong on purpose: after an error the transaction is submitted again.
AnswerRetry ==
  /\ At("answer")
  /\ \/ GiveUp
     \/ at' = at - 1 /\ UNCHANGED <<pc, line, got, order, submitted, since>>
  /\ Local

\* Success and failure are printed; create_cypher_user unwraps a failure.
Answer == At("answer") /\ (GiveUp \/ (line.word = "new" /\ Panic)) /\ Local

Step ==
  \/ \E c \in {"group", "user"} : GetState(c)
  \/ \E m \in Handled : GetOpenOrders(m)
  \/ SkipMarket
  \/ GetPosition \/ Rates \/ GetToken \/ GetHash \/ GetHandler \/ GetBook \/ FindOrder
  \/ BuildLimit \/ BuildMarket \/ ParseKey \/ FetchHash \/ Submit \/ Answer

\* The ctrl_c() branch of main's select!: the command is dropped where it is,
\* the signal is sent to the tasks, and main returns.
Hear ==
  /\ interrupted /\ pc = "command"
  /\ pc' = "returned" /\ NoCommand
  /\ Local

CtrlC == ~interrupted /\ interrupted' = TRUE /\ UNCHANGED <<pc, cmdVars, view, metaVars>>

\* Until main ends: what becomes of the tasks then is the subject of DataPipeline,
\* CacheLocks and Program.
TasksRun == pc \in {"prompt", "command"}

\* A newer version arrives in a copy, also while main returns.
Arrive(c) ==
  /\ \E v \in (view[c] + 1)..MaxVersion : view' = [view EXCEPT ![c] = v]
  /\ UNCHANGED <<pc, cmdVars, metaVars, interrupted>>

\* The chain meta service goes on; its request for the hash is answered.
Meta == TasksRun /\ MetaTurn /\ UNCHANGED <<pc, cmdVars, view, interrupted>>
MetaAnswer == TasksRun /\ PollHash /\ UNCHANGED <<pc, cmdVars, view, interrupted>>

Next ==
  \/ \E l \in Lines : Read(l)
  \/ Step \/ Hear \/ CtrlC
  \/ (\E c \in Copies : Arrive(c)) \/ Meta

Spec == Init /\ [][Next]_vars

\* The locks of the copies are held for a moment only, and every call of the RPC
\* client returns, if only with a timeout; not every request for a hash fails.
FairSpec == Spec /\ WF_vars(Step) /\ WF_vars(Meta) /\ SF_vars(MetaAnswer)
---------------------------------------------------------------------------
\* An order is submitted with copies no older than those there were when its
\* line was typed, a cancellation for an order that was open in such a copy: no
\* command uses what an earlier one read.
ReadsAreCurrent ==
  submitted /\ line.word \in Order =>
    /\ got["group"] # 0 /\ got["user"] # 0
    /\ \A c \in {"group", "user", "hash"} : since[c] <= got[c]
    /\ line.word = "cancel" => LET m == Symbol(line) IN
         /\ since[m] <= got[m]
         /\ OrderId(line) \in OrdersAt[m][got[m]]

\* No line leads to two transactions, also when its answer fails.
OnePerLine == [][Submit => ~submitted]_vars

\* The only ways a command panics, and ends the program with it.
PanicsAreKnown ==
  pc = "panicked" =>
    \/ line.word = "status" /\ \E m \in Handled : got[m] = 0
    \/ line.word = "cancel" /\ got[Symbol(line)] = 0
    \/ line.word = "tokens" /\ got["group"] \in NoRates
    \/ line.word = "limit" /\ Amount(line) * Price(line) \notin 1..(U64 - 1)
    \/ line.word = "market" \/ line.word \in Fund

\* Every command returns to the prompt, or ends the program.
CommandEnds == pc = "command" ~> pc # "command"

\* The blockhash keeps up with the chain, whichever polls fail, until main ends:
\* no poll that fails is the last.
HashCatchesUp == <>[](~TasksRun \/ recentHash = MaxVersion)

\* "displays cypher account status and open orders information for available
\* markets"
StatusAnswers == pc = "panicked" => line.word # "status"
===========================================================================
