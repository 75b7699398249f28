--------------------------- MODULE MarketHandler ---------------------------
(***************************************************************************)
(* src/src/market_handler.rs, Handler::start: one task per market that     *)
(* keeps the open orders account and the order book of its market out of   *)
(* the messages about all markets.                                         *)
(***************************************************************************)
EXTENDS StateProviders, OrderBookProvider

OpenOrdersTasks == IF "openOrders" \in Providers THEN Markets ELSE {}

VARIABLES
  openOrders,     \* openOrders[m]: the open orders handler m keeps, or None
  orderbook,      \* orderbook[m]: the book handler m keeps an Arc to; None is
                  \* the empty default book of Handler::new
  handlerRunning  \* handlerRunning[m]: handler m has not left its loop

handlerVars == <<openOrders, orderbook, handlerRunning>>

HandlerTypeOK ==
  /\ openOrders \in [OpenOrdersTasks -> AccountState \cup {None}]
  /\ orderbook \in [BookTasks -> BookTasks \cup {None}]
  /\ handlerRunning \in [Markets -> BOOLEAN]

HandlerInit ==
  /\ openOrders = [m \in OpenOrdersTasks |-> None]
  /\ orderbook = [m \in BookTasks |-> None]
  /\ handlerRunning = [m \in Markets |-> TRUE]

\* Wrong on purpose: the pubkey of the message is not compared.
RecvOpenOrdersAny(m) ==
  LET k == OpenOrdersKey[m]
  IN  /\ handlerRunning[m] /\ CanTake(stateRx[k])
      /\ stateRx' = [stateRx EXCEPT ![k] = Take(@)]
      /\ openOrders' = [openOrders EXCEPT ![m] = Head(stateRx[k].q)]
      /\ UNCHANGED <<bookVars, orderbook, handlerRunning>>

\* Wrong on purpose: only the first copy is stored.
RecvOpenOrdersOnce(m) ==
  LET k == OpenOrdersKey[m]
      received == Head(stateRx[k].q)
  IN  /\ handlerRunning[m] /\ CanTake(stateRx[k])
      /\ stateRx' = [stateRx EXCEPT ![k] = Take(@)]
      /\ openOrders' = [openOrders EXCEPT ![m] =
                          IF received.key = k /\ @ = None THEN received ELSE @]
      /\ UNCHANGED <<bookVars, orderbook, handlerRunning>>

\* Open orders of another market are received and dropped.
RecvOpenOrders(m) ==
  LET k == OpenOrdersKey[m]
      received == Head(stateRx[k].q)
  IN  /\ handlerRunning[m] /\ CanTake(stateRx[k])
      /\ stateRx' = [stateRx EXCEPT ![k] = Take(@)]
      /\ openOrders' = [openOrders EXCEPT ![m] = IF received.key = k THEN received ELSE @]
      /\ UNCHANGED <<bookVars, orderbook, handlerRunning>>

\* So are the books of other markets.
RecvBook(m) ==
  LET received == Head(bookRx[m].q)
  IN  /\ handlerRunning[m] /\ CanTake(bookRx[m])
      /\ bookRx' = [bookRx EXCEPT ![m] = Take(@)]
      /\ orderbook' = [orderbook EXCEPT ![m] = IF received = m THEN m ELSE @]
      /\ UNCHANGED <<stateRx, books, updated, openOrders, handlerRunning>>

\* recv() on either channel yields Lagged, which is ignored.
RecvOpenOrdersLagged(m) ==
  LET k == OpenOrdersKey[m]
  IN  /\ handlerRunning[m] /\ stateRx[k].lagged
      /\ stateRx' = [stateRx EXCEPT ![k] = SkipLag(@)]
      /\ UNCHANGED <<bookVars, handlerVars>>

RecvBookLagged(m) ==
  /\ handlerRunning[m] /\ bookRx[m].lagged
  /\ bookRx' = [bookRx EXCEPT ![m] = SkipLag(@)]
  /\ UNCHANGED <<stateRx, books, updated, handlerVars>>

\* Wrong on purpose: the signal is noticed but the loop not left.
HandlerStopNoBreak(m, signal) ==
  /\ signal
  /\ handlerRunning[m]
  /\ UNCHANGED <<stateRx, bookVars, handlerVars>>

\* shutdown.recv() yields, or the runtime drops the task.
HandlerStop(m, signal) ==
  /\ signal
  /\ handlerRunning[m]
  /\ handlerRunning' = [handlerRunning EXCEPT ![m] = FALSE]
  /\ UNCHANGED <<stateRx, bookVars, openOrders, orderbook>>
============================================================================
