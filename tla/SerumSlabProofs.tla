-------------------------- MODULE SerumSlabProofs --------------------------
(* The walk finds the best orders of any book, in order and in full, and    *)
(* the listing finds the line of an order whose client order id is its own. *)
EXTENDS OrderListing, FiniteSetTheorems, TLAPS

Rest == UNION {stack[i] : i \in DOMAIN stack}

\* The orders found come before those still to visit, a later handle of the
\* stack before an earlier one, and nothing gets lost.
WalkInOrder ==
  /\ keys \subseteq Key /\ asc \in BOOLEAN
  /\ stack \in Seq(SUBSET Key) /\ res \in Seq(Key)
  /\ keys = Found \cup Rest
  /\ \A i, j \in DOMAIN res : i < j => Better(res[i], res[j])
  /\ \A a \in Found, b \in Rest : Better(a, b)
  /\ \A i, j \in DOMAIN stack : i < j => \A a \in stack[j], b \in stack[i] : Better(a, b)

\* The walk stops exactly when it has as many orders as were asked for.
Counted ==
  /\ depth \in 0..MaxDepth /\ depth <= Cardinality(keys)
  /\ step \in {"walk", "lines", "done", "panicked"}
  /\ IF step = "walk" THEN Len(res) < depth ELSE Len(res) = depth

SInv == WalkInOrder /\ Counted

\* A strict order on ids in either direction.
LEMMA BetterIsStrict ==
  ASSUME asc \in BOOLEAN
  PROVE  \A a, b \in Key : Better(a, b) => a # b
BY SlabAssumption DEF Better

\* As many orders are found as leaves were visited.
LEMMA FoundCount ==
  ASSUME WalkInOrder
  PROVE  Cardinality(Found) = Len(res)
<1>1. res \in Seq(Key) /\ Len(res) \in Nat /\ DOMAIN res = 1..Len(res)
  BY DEF WalkInOrder
<1>2. ExistsBijection(1..Len(res), Found)
  <2>1. res \in [1..Len(res) -> Found]
    BY <1>1 DEF Found
  <2>2. ASSUME NEW i \in 1..Len(res), NEW j \in 1..Len(res), res[i] = res[j]
        PROVE  i = j
    <3>1. CASE i < j
      BY <1>1, <2>2, <3>1, BetterIsStrict DEF WalkInOrder
    <3>2. CASE j < i
      BY <1>1, <2>2, <3>2, BetterIsStrict DEF WalkInOrder
    <3> QED
      BY <1>1, <2>2, <3>1, <3>2
  <2>3. res \in Injection(1..Len(res), Found)
    BY <2>1, <2>2, Zenon DEF Injection, IsInjective
  <2>4. \A f \in Found : \E i \in 1..Len(res) : res[i] = f
    BY <1>1 DEF Found
  <2> QED
    BY <2>1, <2>3, <2>4 DEF ExistsBijection, Bijection, Surjection
<1> QED
  BY <1>1, <1>2, FS_CountingElements

\* The book as get_depth finds it.
LEMMA InitSInv == Init => SInv
<1> SUFFICES ASSUME Init PROVE SInv
  OBVIOUS
<1>1. keys \in SUBSET Key /\ IsFiniteSet(keys) /\ Cardinality(keys) \in Nat
  BY SlabAssumption, FS_Subset, FS_CardinalityType DEF Init
<1>2. PICK d \in 1..MaxDepth : depth = Least(d, Cardinality(keys))
  BY DEF Init
<1>3. Cardinality(keys) = 0 <=> keys = {}
  BY <1>1, FS_EmptySet
<1>4. Found = {} /\ res = <<>> /\ res \in Seq(Key) /\ Len(res) = 0 /\ DOMAIN res = {}
  BY DEF Init, Found
<1>5. Rest = keys /\ stack \in Seq(SUBSET Key)
      /\ \A i, j \in DOMAIN stack : ~ i < j
  <2>1. CASE keys = {}
    BY <2>1 DEF Init, Rest
  <2>2. CASE keys # {}
    <3>1. stack = <<keys>> /\ DOMAIN stack = {1} /\ stack[1] = keys
      BY <2>2 DEF Init
    <3> QED
      BY <1>1, <3>1 DEF Rest
  <2> QED
    BY <2>1, <2>2
<1>6. WalkInOrder
  BY <1>1, <1>4, <1>5 DEF WalkInOrder, Init
<1>7. Counted
  BY <1>1, <1>2, <1>3, <1>4, SlabAssumption DEF Counted, Init, Least
<1> QED
  BY <1>6, <1>7 DEF SInv

\* The stack without its last handle.
LEMMA PoppedFacts ==
  ASSUME stack \in Seq(SUBSET Key), stack # <<>>
  PROVE  /\ Len(stack) \in Nat \ {0} /\ Popped \in Seq(SUBSET Key)
         /\ Len(Popped) = Len(stack) - 1
         /\ \A i \in 1..(Len(stack) - 1) : Popped[i] = stack[i]
         /\ Top \in SUBSET Key
         /\ Rest = (UNION {Popped[i] : i \in DOMAIN Popped}) \cup Top
<1>1. Len(stack) \in Nat \ {0} /\ DOMAIN stack = 1..Len(stack)
  OBVIOUS
<1>2. /\ Popped \in Seq(SUBSET Key) /\ Len(Popped) = Len(stack) - 1
      /\ \A i \in 1..(Len(stack) - 1) : Popped[i] = stack[i]
  BY <1>1 DEF Popped
<1>3. Top \in SUBSET Key
  BY <1>1 DEF Top
<1>4. DOMAIN Popped = 1..(Len(stack) - 1)
  BY <1>2
<1>5. Rest = (UNION {Popped[i] : i \in DOMAIN Popped}) \cup Top
  BY <1>1, <1>2, <1>4 DEF Rest, Top
<1> QED
  BY <1>1, <1>2, <1>3, <1>5

\* An inner node is replaced by its children, the better one on top.
LEMMA VisitInnerSInv ==
  ASSUME SInv, VisitInner
  PROVE  SInv'
<1> DEFINE n == Len(stack)
           lower == IF asc THEN Child1[Top] ELSE Child0[Top]
           upper == IF asc THEN Child0[Top] ELSE Child1[Top]
<1>1. /\ stack \in Seq(SUBSET Key) /\ stack # <<>> /\ Top \in Inner
      /\ stack' = Popped \o <<lower, upper>>
      /\ UNCHANGED <<keys, depth, asc, res, step>>
  BY DEF SInv, WalkInOrder, VisitInner, Push2, given
<1>2. /\ n \in Nat \ {0} /\ Popped \in Seq(SUBSET Key) /\ Len(Popped) = n - 1
      /\ \A i \in 1..(n - 1) : Popped[i] = stack[i]
  BY <1>1, PoppedFacts
<1>3. /\ lower \in SUBSET Key /\ upper \in SUBSET Key
      /\ lower \cup upper = Top /\ \A a \in upper, b \in lower : Better(a, b)
  BY <1>1, SlabAssumption DEF Better, SInv, WalkInOrder
<1> HIDE DEF lower, upper, n
<1>4. /\ stack' \in Seq(SUBSET Key) /\ Len(stack') = n + 1
      /\ \A i \in 1..(n - 1) : stack'[i] = stack[i]
      /\ stack'[n] = lower /\ stack'[n + 1] = upper
  BY <1>1, <1>2, <1>3
<1>5. DOMAIN stack = 1..n /\ DOMAIN stack' = 1..(n + 1) /\ stack[n] = Top
  BY <1>1, <1>2, <1>4 DEF n, Top
<1>6. Rest' = Rest
  <2>1. ASSUME NEW x \in Rest PROVE x \in Rest'
    <3>1. PICK i \in 1..n : x \in stack[i]
      BY <1>5 DEF Rest
    <3>2. CASE i < n
      BY <1>2, <1>4, <1>5, <3>1, <3>2 DEF Rest
    <3>3. CASE i = n
      BY <1>2, <1>3, <1>4, <1>5, <3>1, <3>3 DEF Rest
    <3> QED
      BY <1>2, <3>2, <3>3
  <2>2. ASSUME NEW x \in Rest' PROVE x \in Rest
    <3>1. PICK i \in 1..(n + 1) : x \in stack'[i]
      BY <1>5 DEF Rest
    <3>2. CASE i < n
      BY <1>2, <1>4, <1>5, <3>1, <3>2 DEF Rest
    <3>3. CASE i >= n
      BY <1>2, <1>3, <1>4, <1>5, <3>1, <3>3 DEF Rest
    <3> QED
      BY <1>2, <3>2, <3>3
  <2> QED
    BY <2>1, <2>2
<1>7. ASSUME NEW i \in DOMAIN stack', NEW j \in DOMAIN stack', i < j,
             NEW a \in stack'[j], NEW b \in stack'[i]
      PROVE  Better(a, b)
  <2>1. \A k, l \in 1..n : k < l => \A x \in stack[l], y \in stack[k] : Better(x, y)
    BY <1>5 DEF SInv, WalkInOrder
  <2>2. i \in 1..n /\ j \in 1..(n + 1)
    BY <1>2, <1>5, <1>7
  <2>3. CASE j < n
    BY <1>2, <1>4, <1>7, <2>1, <2>2, <2>3
  <2>4. CASE j >= n /\ i < n
    <3>1. a \in stack[n] /\ b \in stack[i]
      BY <1>2, <1>3, <1>4, <1>5, <1>7, <2>2, <2>4
    <3> QED
      BY <1>2, <2>1, <2>2, <2>4, <3>1
  <2>5. CASE i = n
    BY <1>2, <1>3, <1>4, <1>7, <2>2, <2>5
  <2> QED
    BY <1>2, <1>7, <2>2, <2>3, <2>4, <2>5
<1>8. Found' = Found /\ \A a, b : Better(a, b)' <=> Better(a, b)
  BY <1>1 DEF Found, Better
<1>9. WalkInOrder'
  BY <1>1, <1>4, <1>6, <1>7, <1>8 DEF SInv, WalkInOrder, Better
<1> QED
  BY <1>1, <1>9 DEF SInv, Counted

\* A leaf is the best of what is left.
LEMMA VisitLeafSInv ==
  ASSUME SInv, VisitLeaf
  PROVE  SInv'
<1> DEFINE n == Len(stack)
           r == Len(res)
<1>1. PICK k \in Top : res' = Append(res, k)
  BY DEF VisitLeaf
<1>2. /\ stack \in Seq(SUBSET Key) /\ stack # <<>> /\ Top \notin Inner
      /\ stack' = Popped /\ step = "walk" /\ UNCHANGED <<keys, depth, asc>>
      /\ step' = IF r + 1 = depth THEN "lines" ELSE "walk"
  BY DEF SInv, WalkInOrder, VisitLeaf, given
<1>3. /\ n \in Nat \ {0} /\ stack' \in Seq(SUBSET Key) /\ Len(stack') = n - 1
      /\ \A i \in 1..(n - 1) : stack'[i] = stack[i]
      /\ Top \in SUBSET Key /\ Rest = Rest' \cup Top
      /\ DOMAIN stack = 1..n /\ DOMAIN stack' = 1..(n - 1) /\ stack[n] = Top
  BY <1>2, PoppedFacts DEF Rest, Top
<1>4. Top = {k} /\ k \in Key
  BY <1>2, <1>3 DEF Inner
<1>5. /\ res \in Seq(Key) /\ r \in Nat /\ DOMAIN res = 1..r
      /\ res' \in Seq(Key) /\ Len(res') = r + 1 /\ DOMAIN res' = 1..(r + 1)
      /\ \A i \in 1..r : res'[i] = res[i]
      /\ res'[r + 1] = k
  BY <1>1, <1>4 DEF SInv, WalkInOrder
<1> HIDE DEF n, r
<1>6. Found' = Found \cup {k}
  <2>1. \A x \in Found : x \in Found'
    BY <1>5 DEF Found
  <2>2. k \in Found'
    BY <1>5 DEF Found
  <2>3. \A x \in Found' : x \in Found \/ x = k
    BY <1>5 DEF Found
  <2> QED
    BY <2>1, <2>2, <2>3
<1>7. \A a, b : Better(a, b)' <=> Better(a, b)
  BY <1>2 DEF Better
<1>8. k \in Rest /\ \A a \in Found : Better(a, k)
  BY <1>3, <1>4 DEF SInv, WalkInOrder
<1>9. ASSUME NEW b \in Rest' PROVE Better(k, b)
  <2>1. PICK i \in 1..(n - 1) : b \in stack[i]
    BY <1>3 DEF Rest
  <2>2. i \in DOMAIN stack /\ n \in DOMAIN stack /\ i < n /\ k \in stack[n]
    BY <1>3, <1>4
  <2> QED
    BY <2>1, <2>2 DEF SInv, WalkInOrder
<1>10. ASSUME NEW i \in DOMAIN res', NEW j \in DOMAIN res', i < j
       PROVE  Better(res'[i], res'[j])
  <2>1. CASE j <= r
    BY <1>5, <1>10, <2>1 DEF SInv, WalkInOrder
  <2>2. CASE j = r + 1
    <3>1. res'[i] \in Found /\ res'[j] = k
      BY <1>5, <1>10, <2>2 DEF Found
    <3> QED
      BY <1>8, <3>1
  <2> QED
    BY <1>5, <1>10, <2>1, <2>2
<1>11. \A a \in Found', b \in Rest' : Better(a, b)
  BY <1>3, <1>6, <1>9 DEF SInv, WalkInOrder
<1>12. \A i, j \in DOMAIN stack' : i < j => \A a \in stack'[j], b \in stack'[i] : Better(a, b)
  BY <1>3 DEF SInv, WalkInOrder
<1>13. keys' = Found' \cup Rest'
  BY <1>2, <1>3, <1>4, <1>6 DEF SInv, WalkInOrder
<1>14. WalkInOrder'
  BY <1>2, <1>3, <1>5, <1>7, <1>10, <1>11, <1>12, <1>13 DEF SInv, WalkInOrder, Better
<1>15. r < depth /\ depth \in Nat
  BY <1>2 DEF SInv, Counted, r
<1>16. Counted'
  BY <1>2, <1>5, <1>15 DEF SInv, Counted
<1> QED
  BY <1>14, <1>16 DEF SInv

\* Making lines leaves the walk's result alone.
LEMMA NextSInv == SInv /\ [Next]_vars => SInv'
<1> SUFFICES ASSUME SInv, [Next]_vars PROVE SInv'
  OBVIOUS
<1>1. CASE VisitInner
  BY <1>1, VisitInnerSInv
<1>2. CASE VisitLeaf
  BY <1>2, VisitLeafSInv
<1>3. CASE MakeLine \/ Return \/ UNCHANGED vars
  <2>1. UNCHANGED <<keys, depth, asc, stack, res>>
    BY <1>3 DEF MakeLine, Return, vars, given
  <2>2. /\ step' \in {"walk", "lines", "done", "panicked"}
        /\ step' = "walk" <=> step = "walk"
    BY <1>3 DEF MakeLine, Return, vars, given, SInv, Counted
  <2> QED
    BY <2>1, <2>2 DEF SInv, WalkInOrder, Counted, Found, Rest, Better
<1> QED
  BY <1>1, <1>2, <1>3 DEF Next

LEMMA WalkInvariant == Spec => []SInv
BY InitSInv, NextSInv, PTL DEF Spec

\* Slab::get_depth returns the best orders of the book, best first.
THEOREM BestAlwaysFirst == Spec => []BestFirst
<1>1. SInv => BestFirst
  BY DEF SInv, WalkInOrder, BestFirst
<1> QED
  BY <1>1, WalkInvariant, PTL

\* The walk never runs out of handles before it has found as many orders as it
\* was asked for: get_leaf_depth always leaves its loop by the second break.
THEOREM NeverRunsDry == Spec => []TypeOK
<1>1. ASSUME SInv PROVE TypeOK
  <2>1. Cardinality(Found) = Len(res)
    BY <1>1, FoundCount DEF SInv
  <2>2. ASSUME step = "walk", stack = <<>> PROVE FALSE
    <3>1. Rest = {}
      BY <2>2 DEF Rest
    <3>2. keys = Found
      BY <1>1, <3>1 DEF SInv, WalkInOrder
    <3>3. Len(res) \in Nat /\ depth \in Nat
      BY <1>1 DEF SInv, WalkInOrder, Counted
    <3> QED
      BY <1>1, <2>1, <2>2, <3>2, <3>3 DEF SInv, Counted
  <2> QED
    BY <1>1, <2>2 DEF SInv, WalkInOrder, Counted, TypeOK
<1> QED
  BY <1>1, WalkInvariant, PTL

\* Multiplication and division keep the order of prices, though not strictly.
LEMMA TimesKeepsOrder ==
  ASSUME NEW a \in Nat, NEW b \in Nat, NEW c \in Nat, a <= b
  PROVE  a * c \in Nat /\ a * c <= b * c
BY SMTT(30)

LEMMA DivKeepsOrder ==
  ASSUME NEW a \in Nat, NEW b \in Nat, NEW c \in Nat \ {0}, a <= b
  PROVE  a \div c \in Nat /\ a \div c <= b \div c
<1> DEFINE q == a \div c
           p == b \div c
<1>1. q \in Nat /\ p \in Int
  OBVIOUS
<1>2. /\ a = c * q + (a % c) /\ b = c * p + (b % c)
      /\ a % c \in 0..(c - 1) /\ b % c \in 0..(c - 1)
  BY SMTT(30)
<1> HIDE DEF q, p
<1>3. ASSUME q > p PROVE FALSE
  <2>1. c * q >= c * (p + 1)
    BY <1>1, <1>3, SMTT(30)
  <2>2. c * (p + 1) = c * p + c
    BY <1>1
  <2> QED
    BY <1>1, <1>2, <2>1, <2>2, SMTT(30)
<1> QED
  BY <1>1, <1>3 DEF q, p

\* A lower id never leads to a higher token price.
LEMMA PriceKeepsOrder ==
  ASSUME NEW a \in Key, NEW b \in Key, a <= b
  PROVE  TokenPrice(a) <= TokenPrice(b)
<1>1. a \in Nat /\ b \in Nat /\ U64 \in Nat \ {0} /\ PcLot \in Nat /\ CoinLot \in Nat \ {0}
  BY SlabAssumption
<1>2. Price(a) \in Nat /\ Price(b) \in Nat /\ Price(a) <= Price(b)
  BY <1>1, DivKeepsOrder, b <= b DEF Price
<1>3. Price(a) * PcLot \in Nat /\ Price(b) * PcLot \in Nat
      /\ Price(a) * PcLot <= Price(b) * PcLot
  BY <1>1, <1>2, TimesKeepsOrder
<1> QED
  BY <1>1, <1>3, DivKeepsOrder DEF TokenPrice

\* The lines are those of the first orders found, in their order, and of all of
\* them once get_depth has returned.
LinesFollow ==
  /\ lines \in Seq({LineOf(k) : k \in Key}) /\ Len(lines) <= Len(res)
  /\ step = "done" => Len(lines) = Len(res)
  /\ step = "walk" => lines = <<>>
  /\ \A i \in 1..Len(lines) : lines[i] = LineOf(res[i])

LEMMA InitLines == Init => LinesFollow
<1> SUFFICES ASSUME Init PROVE LinesFollow
  OBVIOUS
<1>1. lines = <<>> /\ res = <<>>
  BY DEF Init
<1> QED
  BY <1>1 DEF LinesFollow

LEMMA NextLines == SInv /\ LinesFollow /\ [Next]_vars => LinesFollow'
<1> SUFFICES ASSUME SInv, LinesFollow, [Next]_vars PROVE LinesFollow'
  OBVIOUS
<1>1. CASE VisitInner \/ Return \/ UNCHANGED vars
  <2>1. /\ UNCHANGED <<res, lines>> /\ (step' = "walk" => step = "walk")
        /\ step' = "done" => step = "done" \/ Len(lines) = Len(res)
    BY <1>1 DEF VisitInner, Return, vars, given
  <2> QED
    BY <2>1 DEF LinesFollow
<1>2. CASE VisitLeaf
  <2>1. lines = <<>> /\ lines' = <<>>
    BY <1>2 DEF VisitLeaf, LinesFollow
  <2>2. res' \in Seq(Key) /\ step' # "done"
    BY <1>2, VisitLeafSInv DEF SInv, WalkInOrder, VisitLeaf
  <2> QED
    BY <2>1, <2>2 DEF LinesFollow
<1>3. CASE MakeLine
  <2>1. /\ res \in Seq(Key) /\ Len(lines) \in Nat /\ Len(lines) < Len(res)
        /\ UNCHANGED res /\ step' \notin {"walk", "done"}
    BY <1>3 DEF MakeLine, SInv, WalkInOrder, LinesFollow
  <2>2. lines' = lines \/ lines' = Append(lines, LineOf(res[Len(lines) + 1]))
    BY <1>3 DEF MakeLine
  <2>3. res[Len(lines) + 1] \in Key
    BY <2>1
  <2>4. CASE lines' = lines
    BY <2>1, <2>4 DEF LinesFollow
  <2>5. CASE lines' = Append(lines, LineOf(res[Len(lines) + 1]))
    <3> DEFINE l == LineOf(res[Len(lines) + 1])
    <3>1. l \in {LineOf(k) : k \in Key}
      BY <2>3
    <3> HIDE DEF l
    <3>2. /\ lines' \in Seq({LineOf(k) : k \in Key}) /\ Len(lines') = Len(lines) + 1
          /\ \A i \in 1..Len(lines) : lines'[i] = lines[i]
          /\ lines'[Len(lines) + 1] = l
      BY <2>5, <3>1 DEF LinesFollow, l
    <3> QED
      BY <2>1, <3>2 DEF LinesFollow, l
  <2> QED
    BY <2>2, <2>4, <2>5
<1> QED
  BY <1>1, <1>2, <1>3 DEF Next

\* The book a handler shows is ordered by token price although the prices are
\* rounded, and by id where the rounding leaves two prices equal, for any lot sizes.
THEOREM LinesStayInOrder == Spec => []LinesInOrder
<1>1. ASSUME SInv, LinesFollow PROVE LinesInOrder
  <2> SUFFICES ASSUME NEW i \in DOMAIN lines, NEW j \in DOMAIN lines, i < j
               PROVE  /\ IF asc THEN lines[i].price <= lines[j].price
                                ELSE lines[i].price >= lines[j].price
                      /\ Better(lines[i].id, lines[j].id)
    BY DEF LinesInOrder
  <2>1. /\ i \in 1..Len(lines) /\ j \in 1..Len(lines)
        /\ i \in DOMAIN res /\ j \in DOMAIN res
    BY <1>1 DEF SInv, WalkInOrder, LinesFollow
  <2>2. /\ lines[i].price = TokenPrice(res[i]) /\ lines[j].price = TokenPrice(res[j])
        /\ lines[i].id = res[i] /\ lines[j].id = res[j]
        /\ res[i] \in Key /\ res[j] \in Key /\ Better(res[i], res[j])
    <3>1. lines[i] = LineOf(res[i]) /\ lines[j] = LineOf(res[j])
      BY <1>1, <2>1 DEF LinesFollow
    <3>2. res[i] \in Key /\ res[j] \in Key /\ Better(res[i], res[j])
      BY <1>1, <2>1 DEF SInv, WalkInOrder
    <3> QED
      BY <3>1, <3>2 DEF LineOf
  <2>3. res[i] \in Nat /\ res[j] \in Nat
    BY <2>2, SlabAssumption
  <2>4. CASE asc
    BY <2>2, <2>3, <2>4, PriceKeepsOrder DEF Better
  <2>5. CASE ~asc
    BY <2>2, <2>3, <2>5, PriceKeepsOrder DEF Better
  <2> QED
    BY <2>4, <2>5
<1> QED
  BY <1>1, InitLines, NextLines, WalkInvariant, PTL DEF Spec

---------------------------------------------------------------------------
(* The listing. *)

\* The order book is not read again once the orders are listed.
Listed ==
  /\ slots \subseteq Key
  /\ listed =>
       /\ step = "done"
       /\ listing = {[id |-> p[1], line |-> lines[p[2]].id, quantity |-> lines[p[2]].quantity] :
                       p \in {r \in slots \X DOMAIN lines : r[2] \in LineFor(r[1])}}

LEMMA InitListed == ListInit => SInv /\ LinesFollow /\ Listed
<1> SUFFICES ASSUME ListInit PROVE SInv /\ LinesFollow /\ Listed
  OBVIOUS
<1>1. SInv /\ LinesFollow
  BY InitSInv, InitLines DEF ListInit
<1>2. Listed
  BY ListingAssumption DEF ListInit, Listed
<1> QED
  BY <1>1, <1>2

LEMMA NextListed ==
  SInv /\ LinesFollow /\ Listed /\ [ListNext]_listVars => (SInv /\ LinesFollow /\ Listed)'
<1> SUFFICES ASSUME SInv, LinesFollow, Listed, [ListNext]_listVars
             PROVE  (SInv /\ LinesFollow /\ Listed)'
  OBVIOUS
<1>1. [Next]_vars
  BY DEF ListNext, List, listVars
<1>2. SInv' /\ LinesFollow'
  BY <1>1, NextSInv, NextLines
<1>3. Listed'
  <2>1. CASE Next /\ UNCHANGED <<slots, listed, listing>>
    <3>1. step # "done"
      BY <2>1 DEF Next, VisitInner, VisitLeaf, MakeLine, Return
    <3> QED
      BY <2>1, <3>1 DEF Listed
  <2>2. CASE List
    BY <2>2 DEF List, Listed, vars, LineFor
  <2>3. CASE UNCHANGED listVars
    BY <2>3 DEF listVars, vars, Listed, LineFor
  <2> QED
    BY <2>1, <2>2, <2>3 DEF ListNext
<1> QED
  BY <1>2, <1>3

\* The orders found are the best ones of the book, as many as were asked for.
LEMMA FoundIsBest ==
  ASSUME SInv, step = "done"
  PROVE  Found = Best
<1>1. /\ keys \subseteq Key /\ IsFiniteSet(keys) /\ Found \subseteq keys
      /\ asc \in BOOLEAN /\ depth \in Nat
      /\ \A a \in Found, b \in keys \ Found : Better(a, b)
  BY SlabAssumption, FS_Subset DEF SInv, WalkInOrder, Counted
<1>2. IsFiniteSet(Found) /\ Cardinality(Found) = depth
  BY <1>1, FS_Subset, FoundCount DEF SInv, Counted
<1>3. \A a, b \in Key : ~(Better(a, b) /\ Better(b, a)) /\ ~Better(a, a)
  BY <1>1, SlabAssumption DEF Better
<1> DEFINE Ahead(k) == {b \in keys : Better(b, k)}
<1>4. \A k : IsFiniteSet(Ahead(k)) /\ Cardinality(Ahead(k)) \in Nat
  BY <1>1, FS_Subset, FS_CardinalityType
<1>5. ASSUME NEW k \in Found PROVE Cardinality(Ahead(k)) < depth
  <2> DEFINE n == Cardinality(Ahead(k))
  <2>1. Ahead(k) \subseteq Found \ {k}
    BY <1>1, <1>3
  <2>2. IsFiniteSet(Found \ {k}) /\ Cardinality(Found \ {k}) = depth - 1
    BY <1>2, FS_RemoveElement
  <2>3. n <= depth - 1
    BY <2>1, <2>2, FS_Subset
  <2>4. n \in Nat
    BY <1>4
  <2> HIDE DEF n
  <2>5. n < depth
    BY <1>1, <2>3, <2>4
  <2> QED
    BY <2>5 DEF n
<1>6. ASSUME NEW k \in keys \ Found PROVE ~(Cardinality(Ahead(k)) < depth)
  <2> DEFINE n == Cardinality(Ahead(k))
  <2>1. Found \subseteq Ahead(k)
    BY <1>1
  <2>2. n \in Nat /\ depth <= n
    BY <1>2, <1>4, <2>1, FS_Subset
  <2> HIDE DEF n
  <2>3. ~(n < depth)
    BY <1>1, <2>2
  <2> QED
    BY <2>3 DEF n
<1> QED
  BY <1>1, <1>5, <1>6 DEF Best

\* The join of the copied open orders with the copied book, at whatever moments
\* the two were copied: where the client order id of an order is its own among the
\* best orders of the book, the order is listed exactly if it is one of them, and
\* with its own quantity.
THEOREM UniqueAlwaysExact == ListSpec => []UniqueIsExact
<1>1. ASSUME SInv, LinesFollow, Listed PROVE UniqueIsExact
  <2> SUFFICES ASSUME listed, NEW k \in slots,
                      \A b \in Best \ {k} : Client[b] # Client[k]
               PROVE  {e \in listing : e.id = k} =
                        IF k \in Best
                        THEN {[id |-> k, line |-> k, quantity |-> LineOf(k).quantity]}
                        ELSE {}
    BY DEF UniqueIsExact
  <2>1. /\ step = "done" /\ Found = Best
        /\ listing = {[id |-> p[1], line |-> lines[p[2]].id, quantity |-> lines[p[2]].quantity] :
                        p \in {r \in slots \X DOMAIN lines : r[2] \in LineFor(r[1])}}
    BY <1>1, FoundIsBest DEF Listed
  <2>2. /\ res \in Seq(Key) /\ Len(res) \in Nat /\ DOMAIN res = 1..Len(res)
        /\ DOMAIN lines = 1..Len(res)
        /\ \A i \in DOMAIN res : lines[i] = LineOf(res[i])
    BY <1>1, <2>1 DEF SInv, WalkInOrder, LinesFollow
  <2>3. \A i \in DOMAIN lines : lines[i].id = res[i] /\ lines[i].quantity = LineOf(res[i]).quantity
    BY <2>2 DEF LineOf
  <2>4. \A i, j \in DOMAIN res : res[i] = res[j] => i = j
    <3> SUFFICES ASSUME NEW i \in DOMAIN res, NEW j \in DOMAIN res, i < j
                 PROVE  res[i] # res[j]
      BY <2>2
    <3> QED
      BY <1>1, <2>2, BetterIsStrict DEF SInv, WalkInOrder
  <2>5. LineFor(k) = {i \in DOMAIN res : res[i] = k}
    <3> DEFINE Fits(i) == Client[lines[i].id] = Client[k]
    <3>1. \A i \in DOMAIN res : \A j \in 1..(i - 1) : j \in DOMAIN res /\ j # i
      BY <2>2
    <3>2. \A i \in DOMAIN res : Fits(i) <=> res[i] = k
      BY <2>1, <2>2, <2>3 DEF Found
    <3>3. LineFor(k) = {i \in DOMAIN res : Fits(i) /\ \A j \in 1..(i - 1) : ~Fits(j)}
      BY <2>2 DEF LineFor
    <3> HIDE DEF Fits
    <3>4. \A i \in DOMAIN res : Fits(i) => \A j \in 1..(i - 1) : ~Fits(j)
      BY <2>4, <3>1, <3>2
    <3> QED
      BY <3>2, <3>3, <3>4
  <2>6. ASSUME NEW e \in listing, e.id = k
        PROVE  k \in Best /\ e = [id |-> k, line |-> k, quantity |-> LineOf(k).quantity]
    <3>1. PICK i \in LineFor(k) :
            e = [id |-> k, line |-> lines[i].id, quantity |-> lines[i].quantity]
      BY <2>1, <2>6
    <3>2. i \in DOMAIN res /\ res[i] = k
      BY <2>5, <3>1
    <3> QED
      BY <2>1, <2>2, <2>3, <3>1, <3>2 DEF Found
  <2>7. ASSUME k \in Best
        PROVE  [id |-> k, line |-> k, quantity |-> LineOf(k).quantity] \in listing
    <3>1. PICK i \in DOMAIN res : res[i] = k
      BY <2>1, <2>7 DEF Found
    <3>2. <<k, i>> \in {r \in slots \X DOMAIN lines : r[2] \in LineFor(r[1])}
      BY <2>2, <2>5, <3>1
    <3>3. [id |-> k, line |-> lines[i].id, quantity |-> lines[i].quantity] \in listing
      BY <2>1, <3>2
    <3>4. lines[i].id = k /\ lines[i].quantity = LineOf(k).quantity
      BY <2>2, <2>3, <3>1
    <3> QED
      BY <3>3, <3>4
  <2> QED
    BY <2>6, <2>7
<1> QED
  BY <1>1, InitListed, NextListed, PTL DEF ListSpec
============================================================================
