------------------------- MODULE BroadcastChannel -------------------------
(***************************************************************************)
(* tokio::sync::broadcast as the program uses it.  Every Receiver has a    *)
(* record of its own:                                                      *)
(*   q       what it has not read yet, oldest first;                       *)
(*   lagged  TRUE when the ring buffer has overwritten unread messages and *)
(*           the next recv() returns Err(Lagged);                          *)
(*   lost    history only: the messages whose last copy was overwritten    *)
(*           before this Receiver read it.                                 *)
(* send() never waits: with the buffer full it overwrites the oldest       *)
(* message of a slow Receiver.  It fails only with no Receiver at all,     *)
(* which this program never reaches: each Receiver lives inside the struct *)
(* of its task, which the command line keeps.                              *)
(***************************************************************************)
EXTENDS Naturals, Sequences

Elems(q) == {q[i] : i \in DOMAIN q}

RxOf(Msg) == [q : Seq(Msg), lagged : BOOLEAN, lost : SUBSET Msg]

\* A Receiver just made by subscribe().
EmptyRx == [q |-> <<>>, lagged |-> FALSE, lost |-> {}]

\* The Receiver after a send() on a channel that retains cap messages.
Push(rx, m, cap) ==
  LET full == Len(rx.q) >= cap
      kept == IF full THEN Tail(rx.q) ELSE rx.q
  IN  [q      |-> Append(kept, m),
       lagged |-> rx.lagged \/ full,
       lost   |-> (rx.lost \cup Elems(rx.q)) \ (Elems(kept) \cup {m})]

\* recv() returns Ok(Head(rx.q)).
CanTake(rx) == ~rx.lagged /\ rx.q # <<>>
Take(rx) == [rx EXCEPT !.q = Tail(@)]

\* recv() returns Err(Lagged) and continues at the oldest retained message.
SkipLag(rx) == [rx EXCEPT !.lagged = FALSE]

\* m is still on its way through rx, or was overwritten in it.
PendingIn(rx, m) == m \in Elems(rx.q) \cup rx.lost
===========================================================================
