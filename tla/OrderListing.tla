---------------------------- MODULE OrderListing ----------------------------
(***************************************************************************)
(* src/src/utils/orders.rs, get_open_orders_with_qty: the open orders of   *)
(* the user on one side, each with the quantity of a line of that side's   *)
(* book.  The two copies are of different moments: an order may be in one  *)
(* of them only.  Lines are found by their client order id, which is the   *)
(* same for all orders that this program places.                           *)
(***************************************************************************)
EXTENDS SerumSlab

CONSTANTS
  Own,      \* the user's orders
  Client    \* Client[k]: the client order id of order k

ASSUME ListingAssumption == Own \subseteq Key /\ DOMAIN Client = Key

VARIABLES
  slots,    \* the orders in the copy of the open orders account
  listed,   \* the orders were listed, be it none of them
  listing   \* what status displays: ids and the lines found for them

listVars == <<vars, slots, listed, listing>>

ListInit == Init /\ slots \in SUBSET Own /\ listed = FALSE /\ listing = {}

\* Wrong on purpose: only the first line is looked at.
LineForHead(k) == {i \in DOMAIN lines : i = 1 /\ Client[lines[i].id] = Client[k]}

\* get_order_book_line: the first line with the client order id of k.
LineFor(k) ==
  {i \in DOMAIN lines :
     /\ Client[lines[i].id] = Client[k]
     /\ \A j \in 1..(i - 1) : Client[lines[j].id] # Client[k]}

\* An order without a line is left out.
List ==
  /\ step = "done" /\ ~listed /\ listed' = TRUE
  /\ listing' = {[id |-> p[1], line |-> lines[p[2]].id, quantity |-> lines[p[2]].quantity] :
                   p \in {r \in slots \X DOMAIN lines : r[2] \in LineFor(r[1])}}
  /\ UNCHANGED <<vars, slots>>

ListNext == (Next /\ UNCHANGED <<slots, listed, listing>>) \/ List

ListSpec == ListInit /\ [][ListNext]_listVars
FairListSpec == ListSpec /\ WF_listVars(Next /\ UNCHANGED <<slots, listed, listing>>)
---------------------------------------------------------------------------
\* The orders that get_depth is asked for.
Best == {k \in keys : Cardinality({b \in keys : Better(b, k)}) < depth}

\* The join of the two copies: where no other of the book's best orders has its
\* client order id, an open order is listed if it is one of these best orders
\* itself, and then with its own quantity, and it is not listed otherwise.
UniqueIsExact ==
  listed =>
    \A k \in slots :
      (\A b \in Best \ {k} : Client[b] # Client[k]) =>
        {e \in listing : e.id = k} =
          IF k \in Best THEN {[id |-> k, line |-> k, quantity |-> LineOf(k).quantity]} ELSE {}

\* status displays "open orders information": the quantity next to an order id is
\* that of this order.
QuantityIsOwn == \A e \in listing : e.line = e.id
=============================================================================
