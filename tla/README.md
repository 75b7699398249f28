# cypher-interactive in TLA+

`cypher-interactive` is a command-line client of the cypher.trade protocol on
Solana. It polls an RPC node for a few dozen accounts, keeps parsed copies of
them up to date in memory, and lets its user look at them and place, cancel and
fund orders from a prompt. This directory models it in TLA+, checks the models
with TLC and proves the central facts with TLAPS. Paths are relative to the
repository; the Rust code is in `src/src/`, and file names below are relative to
that.

Contents: [the system](#the-system), [hazards](#what-is-hard),
[modules](#the-modules), [runs](#the-runs), [proofs](#the-proofs),
[disagreements](#where-code-and-text-disagree),
[limits](#what-is-left-out), [plan](#plan), [use](#use).

## The system

| part | code | state it keeps | operations |
|---|---|---|---|
| accounts cache | `accounts_cache.rs` | map from keys to account bytes and slot; key channel | `insert` (write, then notify), `get` |
| account info service | `services/account_info_service.rs` | position in the key list | first pass (errors end the task), endless later passes 500 ms apart, shutdown |
| providers of user, group, open orders | `providers/*.rs` | position in the key channel | wait for a key, filter, read the cache, parse, broadcast |
| order book provider | `providers/orderbook_provider.rs` | a shared book per market | wait, create the book, rebuild one side, broadcast the book |
| cypher context | `cypher_context.rs` | last user and group | store what arrives; `get_user`, `get_group` |
| market handlers | `market_handler.rs` | last open orders, a reference to a book | store what arrives of their market; place and cancel orders |
| chain meta service | `services/chain_meta_service.rs` | last blockhash and slot | poll every 2.5 s |
| command line | `interactive_cli.rs`, `main.rs` | the structs above | start-up, prompt, commands, exit, Ctrl-C |
| account creation and funding | `utils/accounts.rs` | accounts on the chain | fetch or create user and open orders, airdrop, deposit, delegate |
| instructions | `utils/instructions.rs`, `fast_tx_builder.rs` | none | build transactions |
| order helpers | `utils/orders.rs` | none | join open orders with the book, build instructions |
| serum slab | `serum_slab.rs` | the bytes of one side of a book | ordered traversal up to a depth |
| configuration | `config/cypher_config.rs` | groups and markets | load |
| locks and threads | the cache's map, `Arc<RwLock<..>>`, tokio's runtime (external) | who holds what, who runs where | lock, block, await, wake |

The tasks talk over tokio broadcast channels. `insert` sends the key of every
written account to all four providers; a provider that follows the key reads
the cache and broadcasts what it parsed to the context or to all handlers. The
commands run on the main task and read the copies:

    RPC node -> account info service -> cache (map, key channel)
                                          |
             user, group, open orders providers      order book provider
                                          |                 |
                          context, handlers <- channels -> handlers, shared books
                                          |
                                       commands -> RPC node

## What is hard

`PROJECT.json` lists every hazard at its line. The groups are:

* **Lossy channels.** A broadcast channel overwrites what a slow receiver has
  not read. The key channel carries keys only, the open orders channel is shared
  by all handlers: what is lost must be repaired by a later pass.
* **Order of writes and notifications.** `insert` writes the map and then sends
  the key; providers read the map later, `unwrap()` what they find, and broadcast
  a copy that may be older than the cache by the time it arrives.
* **Index arithmetic** of `update_infos`, which pops answers from the end and
  takes the remaining length as index into a slice of the keys.
* **Shared books.** A handler holds the very book that the provider writes: a
  side changes before the handler is told, and it may never be told again.
* **Locks across awaits.** The order book provider keeps an entry of the map
  locked while it awaits the lock of a side; `insert` blocks a worker thread of
  the runtime meanwhile, and the provider needs one to go on.
* **Start-up**, where every RPC call may fail, a transaction whose answer is lost
  may land at any later time, and only the chain survives a kill.
* **Funding**: the same for transactions that move money, and amounts that are
  parsed, scaled and cut in floating point.
* **Commands** that read several copies at several awaits and `unwrap()` some,
  beside a service that replaces the blockhash they use.
* **Ending**: the shutdown signal is seen only between two pieces of work, and
  Ctrl-C only while a command awaits.
* **The crit-bit walk** of the slab, whose direction and depth must agree.

## The modules

### The data pipeline

| module | models | state and actions |
|---|---|---|
| `BroadcastChannel` | a tokio broadcast receiver (external) | a record of queue, lag flag and lost messages; `Push`, `Take`, `SkipLag` |
| `AccountsCache` | `accounts_cache.rs` | `cache`, `keyRx`; `MapInsert` and `Notify` are the two halves of `insert` |
| `AccountInfoService` | `account_info_service.rs` | `aisPc`, `aisFrom`, `aisLeft`, `aisFirst`; one action per await, per popped account and per half of `insert` |
| `ProviderTasks` | the loop all providers share | `held`: the key in process; `RecvKey`, `RecvKeyLagged`, `ProviderStop` |
| `StateProviders` | `process_updates` of user, group, open orders providers | `Forward`: one step, as the cache entry stays locked from `get` to `send` |
| `OrderBookProvider` | its `process_updates` | `ObApply` (create the book, rewrite one side), `ObSend` |
| `CypherContext`, `MarketHandler` | the receiving tasks | `RecvContext`, `RecvOpenOrders`, `RecvBook`, lags, stops |
| `DataPipeline` | the tasks `InteractiveCli::start` spawns | interleaves all of the above; fairness; the properties |
| `Mirror` | what commands may expect of the copies | abstract specification: a copy only moves forward, to a version the chain had |
| `Program` | the tasks and the commands together | `Task` is a step of `DataPipeline`, `Main` one of `CommandLine`, which reads `Copies`, the copies the tasks keep |

An account is the pair of its key and the number of the answer it came from;
what is parsed out of it is irrelevant to how it travels. Answers are numbered
in the order the service receives them and not by slot, because the code stores
a slot and never compares it: a node that falls back to an older state counts as
a new answer here. A side of a book is the account it was built from; how it is
built is the subject of `SerumSlab`.

`Shutdown` stands for both ways in which tasks end: the signal that Ctrl-C
sends, and the runtime being dropped when `main` returns (the shutdown branch of
`InteractiveCli::run` is never reached, because the `select!` in `main` has
dropped `run` by the time the signal is sent). A task ends only where it awaits.

### Locks and threads

`CacheLocks` models the same tasks once more, at the grain of guards: the shards
of the map (`shard`), the `Ref` a provider holds (`ref`), the guards on the
list of books (`guards`), the lock of a side and who waits for it (`holder`,
`waiter`), and the workers of the runtime (`on`, `ready`). A lock of the map
blocks the thread, the lock of a side is an await that leaves it. What the
accounts hold is left out.

Two things are taken from the libraries named in `Cargo.lock`. The map is that
of dashmap 5.3.4: whether a reader waits behind a waiting writer depends on the
platform's lock, so that `readersWait` is either. The lock of a side, of tokio
1.14.1, is handed to the one who waits for it (`Release`), and an await may find
the task's budget used up and yield although the lock is free (`ObYield`). When
`main` returns, the runtime drops a task where it awaits, and with it what the
task holds (`DropTask`).

### Start-up and funding

`StartUp` models `main` up to the prompt: the user account, then market by
market `get_serum_market` and `get_or_init_open_orders`, one action per RPC call
and outcome. The chain's accounts (`chain`, `deployed`) survive `Restart`, as do
the creations under way; everything else is rebuilt. A call fails at any time.
A creation whose answer is lost is in `late`: it lands at any later time, also
in a later start (`LandLate`), or its blockhash expires (`Expire`). With
`LaggingNode` a fetch may miss an account that exists. `troubled` is a history
variable: the accounts about which a call of this run failed or misinformed, or
which a late creation overtook.

`Funding` models `airdrop`, `new`, `delegate` and `deposit` call by call: the
instructions collected so far (`ixs`), the lost transactions that may still land
(`inFlight`) and, of the chain, the token account, its balance, the deposits,
users and delegate (`ledger`). A transaction runs all its instructions or none.
`UiAmount` is the conversion of the amount typed: an f64 is a fraction with
`Precision` significant bits and the least exponent that is great enough, rounded
half to even, subnormal below all exponents and infinite above them; the cast to
`u64` saturates.
`Accounts` composes the two: starts, commands at the prompt, late transactions
and restarts at any point.

### Commands

`CommandLine` models the prompt and every command. `Plan` gives the awaits and
checks of a command in order, `at` is the place of the next one, and an action
takes it. A line typed at the prompt is a word with arguments; `IsCommand` is
what `get_command` accepts. What the commands read is `view`, a copy per account
that moves forward at any time: this is `Mirror`, which stands for the pipeline.
`Program` puts the pipeline in the place of `view`, and `ImplementsCommandLine`
shows that nothing more can happen to a command there.
Beside them runs `ChainMetaService` with the hash they use (`recentHash`, 0 being
the default before the first answer). Numbers are cut to the width `U64`; whether
an overflow wraps or panics is the constant `Checked`, as in release and debug
builds. Ctrl-C is heard only while a command is in progress, since `read_line`
blocks the main task. What becomes of the tasks when `main` returns is in
`DataPipeline` and `CacheLocks`; what the funding commands do to the chain is in
`Funding`, whose calls are steps of a plan here.

`PROJECT.json` maps the fetch of the blockhash and the submission to one of the
functions of `utils/accounts.rs` resp. of `Handler`; the others have the same shape.
Accounts of a group are taken to have the markets of the configuration
(`get_cypher_market(..).unwrap()`).

### Books

`SerumSlab` models `Slab::get_depth` with `get_leaf_depth`. The stack of node
handles is a sequence of key sets: a handle stands for the keys below its node.
The children of inner nodes are the constants `Child0`, `Child1`, constrained
by what the serum program guarantees, that all keys below the first child are
smaller. `OrderListing` extends it by `get_open_orders_with_qty`, which joins the
user's orders with the lines found. The join finds the right line where client
order ids are unique, and the code gives all orders the same.

## The runs

Deadlock checking is off in all runs: tasks end on shutdown, starts end at the
prompt, the main task ends with `exit`, and walks end.

| run | question | instance |
|---|---|---|
| `context` | Do user and group reach the context? No `unwrap` of a missing entry (`NotifiedIsCached`), no update lost unnoticed (`StaleCopyIsPending`), no copy goes back (`MirrorSpec`) | two accounts, one absent at first, two batches, key channel of 1, state channel of 2 |
| `open_orders` | Do handlers that share a channel keep their own account (`KeptIsOwn`) and miss no update but by overwriting? | two markets, one account absent at first |
| `order_book` | Are answers and keys paired and is no account of an answer left out (`CacheFaithful`), do both sides follow their accounts (`StaleBookIsPending`), never back? | one market, three accounts in batches of 2 and 1, three states |
| `follow_open_orders`, `follow_book` | Do copies catch up (`ViewsCatchUp`); do all tasks end (`ShutdownEnds`)? | one market each; two resp. three accounts |
| `cache_locks` | With how many workers are they never all blocked (`NeverWedged`)? Is nobody left waiting for a free side (`NoLostWakeup`)? Then does no `insert` hang (`InsertReturns`), no key in the order book provider (`KeyIsHandled`), no command at a side (`BookReadReturns`), and is the program ever gone (`ProgramEnds`)? | one state provider, one side, up to three workers, both kinds of lock, entries in one shard or in two |
| `accounts` | Is what gets prepared there (`PreparedExist`), has every bad outcome a cause in this run (`OutcomeHasCause`), is an existing account created again only after a wrong answer or a late creation (`RecreatesOnlyIfMisled`), does a healthy node suffice (`HealthyNodeSuffices`)? Is an airdrop sent to an account that is there (`AirdropFits`), is what is deposited what was typed, give or take a unit (`DepositIsTyped`), once per line and as reported (`DepositsAreAsked`)? | two markets, one restart, lagging node; two commands; six amounts; units of a hundredth; floats of six bits |
| `ignores_failed_market` | violation, see below | three markets |
| `command_line` | Are orders built from reads no older than their line (`ReadsAreCurrent`), at most one transaction per line (`OnePerLine`), are the panics known (`PanicsAreKnown`), does every command end (`CommandEnds`), does the blockhash keep up whichever polls fail (`HashCatchesUp`)? | 19 lines of all kinds, any number of them; two versions; `U64` = 16 |
| `status_answers` | violation, see below | the same |
| `serum_slab` | Are the best orders found in order (`BestFirst`), in full (`EndsInFull`), is the order kept by the price arithmetic, with ties in the order of the ids (`LinesInOrder`), does the join list an order whose client id is unique exactly if it is among the best orders of the book, with its own quantity (`UniqueIsExact`)? | all subsets of nine ids, depths up to 4, both directions |
| `quantity_is_own` | violation, see below | the same |

**Projections.** The full pipeline is too large for TLC. `Providers` and
`Keys` choose the tasks of an instance; providers interact only through the
cache, whose entries belong to one provider each, and through the key channel,
from which each provider receives on its own. The proofs need no projection.
`Program` has no run: its two halves have theirs, and what it adds is proved.

**Bounds.** Channels of one or two messages make overwriting happen, which the
real capacity of 65536 makes rare; a key channel must hold the keys of one pass
for `ViewsCatchUp`, as the real one does by far (with less, the key sent last
may overwrite another one in every pass, for ever). Two states of the chain
suffice for a copy to be stale, three for one to be overtaken twice. Batches of
1 or 2 give first, middle and short last batches. Two markets give one that is
prepared and one in trouble; a restart lets the remains of a killed run meet the
next, and two commands let the first one's lost transaction meet the second.
Amounts lie between units, above the balance, below zero and beyond all numbers;
six bits of significand make typed amounts inexact as 53 bits make `0.000249`: of
15/100 the walk through two roundings loses a unit, 89/1000 gains one. `U64` = 16 with arguments up to 7 gives products below, equal to
and above the width, the wrap to zero included. Nine ids of six bits give trees
of depth up to 4 and equal prices. With one state provider three
workers suffice where readers wait and two where they do not, so that one to
three workers show both the cases that `NeverWedged` guards and those it does not.

**Fairness.** Each spawned task is weakly fair. Of the node: no batch fails for
ever; of the runtime: the service does not outlive `main` (strong fairness, as
both are choices met again and again). `KeepsUp` states what the model has no
clock for: the service sleeps 500 ms after a pass, so that from some time on the
other tasks have worked off one pass before the next. Overwriting before that
time is unrestricted. An error in the first pass ends the service for good, and
`ViewsCatchUp` says so. For `StartUp` and `CommandLine` the fairness
is that an RPC call returns, if only with a timeout, and that locks of copies
are held for a moment; the request for a blockhash, which is made again and
again, does not fail for ever (`SF` of `MetaAnswer`). For `CacheLocks` threads go
on unless a lock blocks them; a ready task is not passed over for ever by the
runtime's queues (`SF` of `Dispatch`), nor a reader by writers of a shard that
come and go (`SF` of `ObGet`: dashmap's lock does not promise a turn, but
writers come 500 ms apart). For `SerumSlab` the fairness is that sequential code
goes on.

Every property has a mutant: an operator marked *Wrong on purpose*, which
replaces the definition named in `PROJECT.json` and makes the property fail.

## The proofs

For every value of the constants, under the `ASSUME`s of the modules (finite
positive capacities, distinct addresses, keys from the key set, a crit-bit tree,
positive lot sizes, a `u64` that holds every significand):

| theorem | states | argument |
|---|---|---|
| `PushKeeps` (`DataPipelineProofs`) | a send records whatever it overwrites | case split on a full buffer |
| `TypeCorrect`, `UnwrapIsSafe`, `PopIsInRange` (`DataPipelineProofs`) | types; a key on its way or in process has a cache entry; each answer is paired with a key of its slice | one inductive invariant `IInv`: `NotifiedIsCached` is not inductive by itself, as a key is sent a step after its entry is written (`AnnouncedIsCached`), and the index needs `PopInRange` |
| `CacheIsFaithful`, `CopiesAreOwn`, `ImplementsMirror` (`MirrorProofs`) | entries are answers about their own keys, and what was popped of the answer under way is in the cache as this answer has it; copies are of the own accounts; `Spec => MirrorSpec` | `DrainedIsCached` is inductive with it: a pop adds its account to those cached from this answer, equal keys have equal answers; `OInv` adds `EntriesAreOwn`, `CopiesInOrder` (copies of one account wait in the order read, none newer than the cache, none older than what the receiver has), `ChannelsAreOwn` and `BooksAreKnown`; the cache only grows, so every step moves a viewer forward or not at all |
| `UpdatesArrive`, `BooksFollow` (`MirrorProofs`) | a copy, or a side of a book, that differs from the cache has an update under way, unless a full channel overwrote it | one lemma per step, from `OInv`: what is pending moves from the service to the key channel, to the provider, to the copy's channel and into the copy, and behind the newest copy of an account no other waits |
| `WorkersSuffice` (`CacheLocksProofs`) | with enough workers the order book provider's `Ref` never stops the runtime (`NeverWedged`) | blocked tasks are the service and, where readers wait, state providers; each is on a worker of its own, so one worker more is free |
| `TypeCorrect`, `WakeupsArrive` (`CacheLocksProofs`) | types, no more tasks on workers than there are threads; nobody waits for a free side (`NoLostWakeup`) | they need each other: who gets a side may be queued because it is on no worker. `QueueInv` says that the provider waits only behind `main` and `main` only behind it, and that after `main` has returned it has no part in this any more, so that a task can be dropped with its lock |
| `TypeCorrect`, `PreparedAlwaysExist`, `OutcomesHaveCauses`, `RecreationsAreMisled` (`AccountsProofs`) | types and the safety of start-up | the three with `DealtWith` (markets passed are prepared or in trouble) and `StepOK` (what the next call relies on) |
| `StartsAsBefore` (`AccountsProofs`) | `AccountsSpec => Spec`: a start behaves as without the commands that follow it, so that the theorems of `StartUp` hold of both | every step is one of `StartUp` or a stutter |
| `NativeIsU64`, `NativeIsAbout` (`AmountProofs`) | the conversion of any amount gives a `u64`; it is at most a unit off, and never up from whole units | the least exponent exists, as no set of integers bounded below lacks a least element; with it a rounding is off by at most half of the last bit: less than half a unit when the text is parsed (`ParsedIsNear`), and again at most half a unit when it is multiplied, which together is less than one (`HalvesAddUp`, `ProductIsNear`) |
| `FundTypeCorrect`, `AirdropsFit` (`AccountsProofs`) | types; an airdrop goes to an account that is there or is created with it | `FundInv`: which instructions a transaction may have, in hand and in flight |
| `DepositsAlwaysAsked`, `DepositsAsTyped` (`AccountsProofs`) | what is reported is on the chain, what is on the chain was asked for; the deposit in hand is the amount typed | `DepositInv`. Sums over the lost transactions need no induction: `Covers(b)` gives each line a part of what was asked and is not yet deposited, as the difference of two neighbours of a growing sequence `b`; a line has at most one transaction that can land (`OneEach`), and landing takes the line's part off the end of `b` (`LineSpends`) |
| `TypeCorrect`, `OrdersAreCurrent`, `NeverTwice`, `PanicsStayKnown` (`CommandLineProofs`) | types; the reads behind an order are no older than its line; one transaction per line; only the panics named | `IInv`: `OrderReads` says what has been read up to `at` is at least as new as `since`, `InCommand` that nothing but the answer follows a submission; `ReadsAreCurrent` speaks of the last step only and is not inductive |
| `TasksAsBefore`, `ImplementsCommandLine` (`ProgramProofs`) | `ProgramSpec => Spec` of the pipeline, and `ProgramSpec => CommandLineSpec` | a step of the tasks moves at most one of the copies that commands read (`OneMoves`), and forward (`MirrorStep`), so that it is an `Arrive` or a stutter; a step of the commands leaves the tasks alone |
| `ReadsWereAlwaysAnswers`, `CommandsStayCorrect` (`ProgramProofs`) | what a command has read of an account, up to the order it submits, is an answer of the node in which the account existed; `ReadsAreCurrent` and `PanicsAreKnown` of the whole program | `OInv`, `C!IInv` and the first of the two are inductive together: `C` instantiates the lemmas of `CommandLineProofs` with the real copies, under the assumption of `CommandLine` on its constants |
| `BestAlwaysFirst`, `NeverRunsDry`, `LinesStayInOrder` (`SerumSlabProofs`) | the walk finds the best orders, best first; it never runs out of handles early; lines are ordered by token price, equal ones by id, for all lot sizes | `WalkInOrder` (found before pending, later handles before earlier ones, their union is the book) and `Counted`; finding is injective, so `Cardinality(Found) = Len(res)`; multiplication and division are monotone |
| `UniqueAlwaysExact` (`SerumSlabProofs`) | once listed, an order whose client id is unique among the best orders of the book is listed exactly if it is one of them, with its own quantity | at the end `Found = Best` by counting (fewer than `depth` orders are ahead of one that was found, at least `depth` ahead of any other) and every order found has its line; the lines are distinct, as the walk's order is strict, so that one line matches |

The library's induction theorems take an operator as a parameter and cannot be
used. `AmountProofs` proves what it needs of the recursive `Pow2` by the least
counterexample instead (`LeastNumber`, from the well-foundedness of `<`): a table
of powers exists up to each number, and tables agree, so that `Pow2` is the function
its definition says. `BestFirst` is proved without recursion, by an invariant of
the walk.

With this every safety property that a passing run checks is proved. What is only
model-checked is liveness under fairness, which the prover does not reach (nor
`ENABLED`): `ViewsCatchUp`, `ShutdownEnds`, `InsertReturns`, `KeyIsHandled`,
`BookReadReturns`, `ProgramEnds`, `HealthyNodeSuffices`, `CommandEnds`,
`HashCatchesUp`, `EndsInFull`.

## Where code and text disagree

Shown by a run:

* `accounts.rs:252` unwraps the blockhash request while an open orders account is
  created, and a failure ends the program; the message at `interactive_cli.rs:279`
  says the market is ignored (`ignores_failed_market`).
* `interactive_cli.rs:692` unwraps open orders that arrive after the group and
  the user it has checked for: `status` ends the program (`status_answers`).
* `orders.rs:88` finds the quantity of an open order by a client order id that
  `market_handler.rs:237` sets to 1 for every order: `status` shows the quantity of
  another order. In the run that order is not in the copied book at all, and is
  listed with the quantity of one that is (`quantity_is_own`).

Seen while reading, and part of the models, without a run:

* `interactive_cli.rs:208` announces an unbounded channel; line 209 creates one
  of `u16::MAX` messages. The models have bounded channels.
* `accounts.rs:175` takes every error of a fetch for a missing account and goes
  on to create it (`FetchErr`); `RecreatesOnlyIfMisled` bounds the damage.
* A market order always panics in a `todo!()` (`market_handler.rs:182`).
* `limit bid ..` sells: only the word `buy` buys (`interactive_cli.rs:1109`).
* `amount * price` wraps in a release build (`market_handler.rs:220`).
* `tokens` divides by the deposits and ends the program when there are none
  (`interactive_cli.rs:767`, `Rates`).
* `orderbook` ignores the depth it is given (`interactive_cli.rs:801`).
* `main` announces that it waits for the tasks and does not (`main.rs:153`).
* The amount of `deposit` is multiplied and cut in floating point: `deposit
  0.000249` deposits 248 units (`interactive_cli.rs:574`). `DepositsAsTyped` proves
  that it is never more than one unit, lost or gained, for amounts below 2^52 units.
* The order book provider keeps an entry of the cache locked while it awaits a
  side (`orderbook_provider.rs:147`). With too few worker threads the service, and
  where readers wait the other providers, block all of them for ever: one thread
  is too few, and so are as many as there are state providers plus one in the
  second case. `EnoughWorkers` in `CacheLocks` is the condition of its properties.
* A cluster the code does not know is announced by its name and replaced by the
  one for devnet (`cypher_config.rs:33`); `airdrop` compares the name and refuses.

## What is left out

* The bytes of instructions and transactions, key pairs, addresses and displayed
  tables. Which instructions go into which funding transaction is in `Funding`.
* Reading the configuration file; its markets and whether the cluster is devnet
  are constants.
* Interest and margin arithmetic of `status` and `tokens`: computed by the
  external cypher crate from one copy and displayed only. `Rates` of `CommandLine`
  has the division that fails when there are no deposits.
* The bytes of accounts: a copy that fails to parse panics in its provider.
* The slot of an account is stored and never compared, so that a node which falls
  back is not seen by the code nor told apart by the models.
* Whether the node accepts an old or default blockhash.

## Plan

Done, in this order: the pipeline and `Mirror` with their proofs, up to the
updates that must not be lost; start-up with its proofs; commands with theirs;
books and the listing with theirs; locks and threads; account funding, composed
with start-up; the conversion of amounts, and the types and queues of the locks;
the commands over the real pipeline. Next:

1. `CacheLocks` with two state providers and both sides in TLC, with the symmetry
   of the workers. Its invariants are proved for any number of both.
2. Start-up in front of `Program`: the keys it leaves behind are `Keys`, the
   markets it prepares are `Markets`.

## Use

    tlc -config MCContext.cfg MCContext.tla     # each run: its cfg and module in PROJECT.json
    tlapm MirrorProofs.tla
