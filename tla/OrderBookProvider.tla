------------------------- MODULE OrderBookProvider -------------------------
(***************************************************************************)
(* src/src/providers/orderbook_provider.rs: keeps one OrderBook per market *)
(* and overwrites one side of it whenever the account of that side was     *)
(* written.  Books are shared: the message it broadcasts and what a        *)
(* handler keeps is an Arc to the book, not a copy, so the market names    *)
(* the book in both.                                                       *)
(***************************************************************************)
EXTENDS ProviderTasks

CONSTANT BookCap  \* messages the order book channel retains (65536)

ASSUME BookCapAssumption == BookCap \in Nat \ {0}

Book == [bids : AccountState \cup {None}, asks : AccountState \cup {None}]
EmptyBook == [bids |-> None, asks |-> None]

ASSUME NoneIsNoBook == None \notin Book /\ None \notin Markets

BookTasks == IF "orderbook" \in Providers THEN Markets ELSE {}

VARIABLES
  books,    \* books[m]: the book of market m, None until it is created
  updated,  \* process_updates has written a side and not broadcast it yet
  bookRx    \* bookRx[m]: the Receiver of the handler of market m

bookVars == <<books, updated, bookRx>>

BookTypeOK ==
  /\ books \in [BookTasks -> Book \cup {None}]
  /\ updated \in BOOLEAN
  /\ bookRx \in [BookTasks -> RxOf(BookTasks)]

BookInit ==
  /\ books = [m \in BookTasks |-> None]
  /\ updated = FALSE
  /\ bookRx = [m \in BookTasks |-> EmptyRx]

\* The provider is handling a key of market m.
Handling(m) ==
  /\ "orderbook" \in Providers /\ provRunning["orderbook"]
  /\ held["orderbook"] \in {BidsKey[m], AsksKey[m]}

\* Wrong on purpose: a new book is created and broadcast, but its side not read.
ObApplyCreateOnly(m) ==
  LET k == held["orderbook"]
  IN  /\ Handling(m) /\ ~updated
      /\ books' = [books EXCEPT ![m] =
            CASE @ = None -> EmptyBook
              [] @ # None /\ k = BidsKey[m] -> [@ EXCEPT !.bids = cache[k]]
              [] @ # None /\ k # BidsKey[m] -> [@ EXCEPT !.asks = cache[k]]]
      /\ updated' = TRUE
      /\ UNCHANGED <<cacheVars, provVars, bookRx>>

\* Wrong on purpose: every update starts from a new book.
ObApplyFreshBook(m) ==
  LET k == held["orderbook"]
  IN  /\ Handling(m) /\ ~updated
      /\ books' = [books EXCEPT ![m] =
            IF k = BidsKey[m] THEN [EmptyBook EXCEPT !.bids = cache[k]]
                              ELSE [EmptyBook EXCEPT !.asks = cache[k]]]
      /\ updated' = TRUE
      /\ UNCHANGED <<cacheVars, provVars, bookRx>>

\* Wrong on purpose: the two sides are swapped.
ObApplySwapped(m) ==
  LET k   == held["orderbook"]
      old == IF books[m] = None THEN EmptyBook ELSE books[m]
  IN  /\ Handling(m) /\ ~updated
      /\ books' = [books EXCEPT ![m] =
            IF k = BidsKey[m] THEN [old EXCEPT !.asks = cache[k]]
                              ELSE [old EXCEPT !.bids = cache[k]]]
      /\ updated' = TRUE
      /\ UNCHANGED <<cacheVars, provVars, bookRx>>

\* process_updates up to the write of the side: create the book if the market
\* has none, read the cache, write the side.  The Ref of the cache entry is
\* alive until the side is written, so the entry cannot change in between.
ObApply(m) ==
  LET k   == held["orderbook"]
      old == IF books[m] = None THEN EmptyBook ELSE books[m]
  IN  /\ Handling(m) /\ ~updated
      /\ books' = [books EXCEPT ![m] =
            IF k = BidsKey[m] THEN [old EXCEPT !.bids = cache[k]]
                              ELSE [old EXCEPT !.asks = cache[k]]]
      /\ updated' = TRUE
      /\ UNCHANGED <<cacheVars, provVars, bookRx>>

\* send(Arc::clone(ob)); then the provider waits for the next key.
ObSend(m) ==
  /\ Handling(m) /\ updated
  /\ bookRx' = [n \in BookTasks |-> Push(bookRx[n], m, BookCap)]
  /\ updated' = FALSE
  /\ held' = [held EXCEPT !["orderbook"] = None]
  /\ UNCHANGED <<cacheVars, provRunning, books>>
============================================================================
