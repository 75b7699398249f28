----------------------------- MODULE SerumSlab -----------------------------
(***************************************************************************)
(* src/src/serum_slab.rs, Slab::get_depth: the best orders of one side of  *)
(* a book, read from the crit-bit tree in the bytes of its account.  The   *)
(* key of an order is its id: the price in the upper 64 bits.              *)
(*                                                                         *)
(* The tree itself is the work of the serum dex program.  A handle stands  *)
(* here for the set of the keys below its node: a leaf is the set of one   *)
(* key, and the crit bit of an inner node puts the smaller keys below the  *)
(* first child.                                                            *)
(***************************************************************************)
EXTENDS Integers, Sequences, FiniteSets

CONSTANTS
  Key,          \* order ids
  Child0,       \* Child0[h], Child1[h]: the children of the inner node h
  Child1,
  Quantity,     \* Quantity[k]: the quantity of order k, in lots
  MaxDepth,     \* bound: depth asked for (the code always asks for 25)
  U64,          \* 2^w for the width w of the code's u64
  PcLot, CoinLot

Inner == {h \in SUBSET Key : \E a, b \in h : a # b}

ASSUME SlabAssumption ==
  /\ Key \subseteq Nat /\ IsFiniteSet(Key)
  /\ Child0 \in [Inner -> SUBSET Key] /\ Child1 \in [Inner -> SUBSET Key]
  /\ \A h \in Inner :
       /\ Child0[h] # {} /\ Child1[h] # {} /\ Child0[h] \cup Child1[h] = h
       /\ \A a \in Child0[h], b \in Child1[h] : a < b
  /\ MaxDepth \in Nat \ {0}
  /\ U64 \in Nat \ {0} /\ PcLot \in Nat /\ CoinLot \in Nat \ {0}

VARIABLES
  keys,     \* the orders in the tree
  depth,    \* depth_to_get
  asc,      \* asks are read in ascending order, bids in descending order
  stack,    \* handles still to visit, the next one last
  res,      \* the keys of the leaves found
  lines,    \* the order book lines made of them
  step      \* "walk", "lines", "done" or "panicked"

vars == <<keys, depth, asc, stack, res, lines, step>>
given == <<keys, depth, asc>>

\* Wrong on purpose: the depth is not limited by the leaf count.
LeastFirst(a, b) == a

Least(a, b) == IF a <= b THEN a ELSE b

\* get_depth up to the call of get_leaf_depth, for any tree; an empty one has no
\* root, and get_depth returns no line.
Init ==
  /\ keys \in SUBSET Key /\ asc \in BOOLEAN
  /\ \E d \in 1..MaxDepth : depth = Least(d, Cardinality(keys))
  /\ stack = IF keys = {} THEN <<>> ELSE <<keys>>
  /\ res = <<>> /\ lines = <<>>
  /\ step = IF keys = {} THEN "done" ELSE "walk"

Top == stack[Len(stack)]
Popped == SubSeq(stack, 1, Len(stack) - 1)

\* Wrong on purpose: asks and bids alike.
Push2OneWay(h) == Popped \o <<Child1[h], Child0[h]>>

\* The child that comes first is pushed last.
Push2(h) == Popped \o (IF asc THEN <<Child1[h], Child0[h]>> ELSE <<Child0[h], Child1[h]>>)

VisitInner ==
  /\ step = "walk" /\ stack # <<>> /\ Top \in Inner
  /\ stack' = Push2(Top)
  /\ UNCHANGED <<given, res, lines, step>>

\* Wrong on purpose: the length is compared before the leaf is added.
VisitLeafLate ==
  /\ step = "walk" /\ stack # <<>> /\ Top \notin Inner
  /\ stack' = Popped
  /\ \E k \in Top : res' = Append(res, k)
  /\ step' = IF Len(res) = depth THEN "lines" ELSE step
  /\ UNCHANGED <<given, lines>>

VisitLeaf ==
  /\ step = "walk" /\ stack # <<>> /\ Top \notin Inner
  /\ stack' = Popped
  /\ \E k \in Top : res' = Append(res, k)
  /\ step' = IF Len(res) + 1 = depth THEN "lines" ELSE step
  /\ UNCHANGED <<given, lines>>

Price(k) == k \div U64

\* Wrong on purpose: the product is cut to a u64 before the division.
TokenPriceWraps(k) == ((Price(k) * PcLot) % U64) \div CoinLot

\* In u128: no overflow before the division.
TokenPrice(k) == (Price(k) * PcLot) \div CoinLot

\* A price of zero or a token price beyond u64 panics; so does a quantity beyond
\* it in a build with overflow checks.
Unfit(k) == Price(k) = 0 \/ TokenPrice(k) >= U64

LineOf(k) == [id |-> k, price |-> TokenPrice(k), quantity |-> (Quantity[k] * CoinLot) % U64]

MakeLine ==
  /\ step = "lines" /\ Len(lines) < Len(res)
  /\ LET k == res[Len(lines) + 1]
     IN  IF Unfit(k)
         THEN step' = "panicked" /\ UNCHANGED lines
         ELSE /\ \/ /\ Quantity[k] * CoinLot >= U64
                    /\ step' = "panicked" /\ UNCHANGED lines
                 \/ /\ UNCHANGED step
                    /\ lines' = Append(lines, LineOf(k))
  /\ UNCHANGED <<given, stack, res>>

Return ==
  /\ step = "lines" /\ Len(lines) = Len(res)
  /\ step' = "done"
  /\ UNCHANGED <<given, stack, res, lines>>

Next == VisitInner \/ VisitLeaf \/ MakeLine \/ Return

Spec == Init /\ [][Next]_vars

\* get_depth is sequential code without an await.
FairSpec == Spec /\ WF_vars(Next)
---------------------------------------------------------------------------
TypeOK ==
  /\ keys \subseteq Key /\ depth \in 0..MaxDepth /\ asc \in BOOLEAN
  /\ stack \in Seq(SUBSET Key) /\ res \in Seq(Key)
  /\ step \in {"walk", "lines", "done", "panicked"}
  /\ step = "walk" => stack # <<>>   \* the loop never ends by its empty stack

Found == {res[i] : i \in DOMAIN res}

\* a is the better one of two orders.
Better(a, b) == IF asc THEN a < b ELSE a > b

\* The keys found are in order, best first, and better than all keys that were
\* not found: the walk through the tree never has to go back.
BestFirst ==
  /\ Found \subseteq keys
  /\ \A i, j \in DOMAIN res : i < j => Better(res[i], res[j])
  /\ \A a \in Found, b \in keys \ Found : Better(a, b)

\* The lines are in the order of the best token price, in spite of the division,
\* and lines that it gives the same price are in the order of their ids.
LinesInOrder ==
  \A i, j \in DOMAIN lines : i < j =>
    /\ IF asc THEN lines[i].price <= lines[j].price ELSE lines[i].price >= lines[j].price
    /\ lines[i].price = lines[j].price => Better(lines[i].id, lines[j].id)

\* The walk comes to an end on every tree, with as many lines as were asked for
\* or as there are orders.
EndsInFull == <>(step = "panicked" \/ (step = "done" /\ Len(lines) = depth))
===========================================================================
