---------------------------- MODULE AmountProofs ----------------------------
(* From any typed amount to native units.                                    *)
EXTENDS UiAmount, WellFoundedInduction, TLAPS

---------------------------------------------------------------------------
(* The powers of two *)

\* A set of natural numbers has a least element: with it, a set of numbers is
\* shown to be empty by induction.
LEMMA LeastNumber ==
  ASSUME NEW T \in SUBSET Nat, T # {}
  PROVE  \E x \in T : \A y \in T : x <= y
<1>1. PICK x \in T : \A y \in T : ~ (<<y, x>> \in OpToRel(<, Nat))
  BY NatLessThanWellFounded, WFMin
<1>2. ASSUME NEW y \in T  PROVE x <= y
  <2>1. <<y, x>> \in Nat \X Nat /\ ~(y < x)
    BY <1>1 DEF OpToRel
  <2> QED BY <2>1
<1> QED BY <1>2

\* g is the table of the powers of two up to n.
IsTable(g, n) ==
  /\ g \in [0..n -> Nat \ {0}] /\ g[0] = 1
  /\ \A i \in 1..n : g[i] = 2 * g[i - 1]

LEMMA TableExists == \A n \in Nat : \E g : IsTable(g, n)
<1> DEFINE T == {n \in Nat : ~ \E g : IsTable(g, n)}
<1> SUFFICES ASSUME T # {} PROVE FALSE
  OBVIOUS
<1>1. PICK n \in T : \A m \in T : n <= m
  BY LeastNumber
<1>2. n \in Nat /\ n # 0
  <2>1. IsTable([i \in 0..0 |-> 1], 0)
    BY DEF IsTable
  <2> QED BY <1>1, <2>1
<1>3. n - 1 \in Nat /\ n - 1 \notin T
  BY <1>1, <1>2
<1>4. PICK g : IsTable(g, n - 1)
  BY <1>3
<1> DEFINE h == [i \in 0..n |-> IF i = n THEN 2 * g[n - 1] ELSE g[i]]
<1>5. IsTable(h, n)
  <2>1. \A i \in 0..(n - 1) : g[i] \in Nat \ {0}
    BY <1>4 DEF IsTable
  <2>2. h \in [0..n -> Nat \ {0}] /\ h[0] = 1
    BY <1>2, <1>3, <1>4, <2>1 DEF IsTable
  <2>3. ASSUME NEW i \in 1..n  PROVE h[i] = 2 * h[i - 1]
    <3>1. i - 1 \in 0..(n - 1) /\ h[i - 1] = g[i - 1]
      BY <1>2
    <3>2. i = n \/ (i \in 1..(n - 1) /\ h[i] = g[i])
      BY <1>2
    <3> QED BY <1>2, <1>4, <3>1, <3>2 DEF IsTable
  <2> QED BY <2>2, <2>3 DEF IsTable
<1> QED BY <1>1, <1>5

LEMMA TablesAgree ==
  ASSUME NEW n \in Nat, NEW m \in Nat, NEW g, NEW h, IsTable(g, n), IsTable(h, m)
  PROVE  \A i \in 0..n : i <= m => g[i] = h[i]
<1> DEFINE T == {i \in 0..n : i <= m /\ g[i] # h[i]}
<1> SUFFICES ASSUME T # {} PROVE FALSE
  OBVIOUS
<1>1. PICK i \in T : \A j \in T : i <= j
  <2>1. T \in SUBSET Nat
    OBVIOUS
  <2> HIDE DEF T
  <2> QED BY <2>1, LeastNumber
<1>2. i # 0
  BY <1>1 DEF IsTable
<1>3. i - 1 \in 0..n /\ i - 1 <= m /\ i - 1 \notin T
  BY <1>1, <1>2
<1>4. g[i] = 2 * g[i - 1] /\ h[i] = 2 * h[i - 1]
  BY <1>1, <1>2 DEF IsTable
<1> QED BY <1>1, <1>3, <1>4

\* Pow2 is what its definition says: there is a function of that kind.
LEMMA PowersOfTwo ==
  /\ Pow2 \in [Nat -> Nat \ {0}]
  /\ Pow2[0] = 1
  /\ \A n \in Nat : Pow2[n + 1] = 2 * Pow2[n]
<1> DEFINE table(n) == CHOOSE g : IsTable(g, n)
           F == [n \in Nat |-> table(n)[n]]
<1>1. \A n \in Nat : IsTable(table(n), n)
  BY TableExists
<1>2. \A n \in Nat : F[n] \in Nat \ {0}
  BY <1>1 DEF IsTable
<1>3. F[0] = 1
  BY <1>1 DEF IsTable
<1>4. ASSUME NEW n \in Nat \ {0}  PROVE F[n] = 2 * F[n - 1]
  <2>1. n - 1 \in Nat /\ n \in 1..n /\ n - 1 \in 0..(n - 1) /\ n - 1 <= n
    OBVIOUS
  <2>2. IsTable(table(n), n) /\ IsTable(table(n - 1), n - 1)
    BY <1>1, <2>1
  <2> HIDE DEF table
  <2>3. table(n)[n] = 2 * table(n)[n - 1]
    BY <2>1, <2>2 DEF IsTable
  <2>4. table(n - 1)[n - 1] = table(n)[n - 1]
    BY <2>1, <2>2, TablesAgree
  <2> QED BY <2>1, <2>3, <2>4
<1> HIDE DEF F
<1>5. F = [n \in Nat |-> IF n = 0 THEN 1 ELSE 2 * F[n - 1]]
  <2>1. F = [n \in Nat |-> F[n]]
    BY DEF F
  <2> QED BY <1>3, <1>4, <2>1
<1>6. Pow2 = [n \in Nat |-> IF n = 0 THEN 1 ELSE 2 * Pow2[n - 1]]
  BY <1>5 DEF Pow2
<1>7. Pow2[0] = 1 /\ \A n \in Nat \ {0} : Pow2[n] = 2 * Pow2[n - 1]
  BY <1>6
<1>8. \A n \in Nat : Pow2[n] \in Nat \ {0}
  <2> DEFINE T == {n \in Nat : Pow2[n] \notin Nat \ {0}}
  <2> SUFFICES ASSUME T # {} PROVE FALSE
    OBVIOUS
  <2>1. PICK n \in T : \A m \in T : n <= m
    BY LeastNumber
  <2>2. n # 0 /\ n \in Nat
    BY <1>7, <2>1
  <2>3. n - 1 \in Nat /\ n - 1 \notin T
    BY <2>1, <2>2
  <2> QED BY <1>7, <2>1, <2>2, <2>3
<1>9. ASSUME NEW n \in Nat  PROVE Pow2[n + 1] = 2 * Pow2[n]
  <2>1. n + 1 \in Nat \ {0} /\ (n + 1) - 1 = n
    OBVIOUS
  <2> QED BY <1>7, <2>1
<1> QED BY <1>6, <1>7, <1>8, <1>9

---------------------------------------------------------------------------
(* Rounding *)

LEMMA Division ==
  ASSUME NEW a \in Nat, NEW b \in Nat \ {0}
  PROVE  /\ a \div b \in Nat /\ a % b \in 0..(b - 1)
         /\ a = b * (a \div b) + (a % b)
OBVIOUS

\* Rounding moves a fraction by half a unit at most.
LEMMA RoundHalfEvenIsNear ==
  ASSUME NEW a \in Nat, NEW b \in Nat \ {0}
  PROVE  /\ RoundHalfEven(a, b) \in Nat
         /\ 2 * (RoundHalfEven(a, b) * b) - 2 * a <= b
         /\ 2 * a - 2 * (RoundHalfEven(a, b) * b) <= b
<1> DEFINE q == a \div b
           r == a % b
<1>1. q \in Nat /\ r \in 0..(b - 1) /\ a = b * q + r
  BY Division
<1> HIDE DEF q, r
<1>2. CASE RoundHalfEven(a, b) = q + 1 /\ 2 * r >= b
  <2>1. RoundHalfEven(a, b) * b = b * q + b
    BY <1>1, <1>2
  <2> QED BY <1>1, <1>2, <2>1
<1>3. CASE RoundHalfEven(a, b) = q /\ 2 * r <= b
  <2>1. RoundHalfEven(a, b) * b = b * q
    BY <1>1, <1>3
  <2> QED BY <1>1, <1>3, <2>1
<1>4. \/ RoundHalfEven(a, b) = q + 1 /\ 2 * r >= b
      \/ RoundHalfEven(a, b) = q /\ 2 * r <= b
  BY <1>1 DEF RoundHalfEven, q, r
<1> QED BY <1>2, <1>3, <1>4

LEMMA UpAndDown ==
  ASSUME NEW e \in Int
  PROVE  /\ Up(e) \in Nat \ {0} /\ Down(e) \in Nat \ {0}
         /\ \/ Up(e) = 2 * Up(e - 1) /\ Down(e) = Down(e - 1)
            \/ Up(e) = Up(e - 1) /\ Down(e - 1) = 2 * Down(e)
<1>1. CASE e > 1
  <2>1. e - 1 \in Nat /\ (e - 1) + 1 = e
    BY <1>1
  <2> QED BY <1>1, <2>1, PowersOfTwo DEF Up, Down
<1>2. CASE e = 1
  <2>1. 0 + 1 = 1
    OBVIOUS
  <2> QED BY <1>2, <2>1, PowersOfTwo DEF Up, Down
<1>3. CASE e = 0
  <2>1. 0 + 1 = 1
    OBVIOUS
  <2> QED BY <1>3, <2>1, PowersOfTwo DEF Up, Down
<1>4. CASE e < 0
  <2>1. -e \in Nat /\ -(e - 1) = (-e) + 1
    BY <1>4
  <2> QED BY <1>4, <2>1, PowersOfTwo DEF Up, Down
<1> QED BY <1>1, <1>2, <1>3, <1>4

\* If an exponent fits, there is a least one.
LEMMA ExponentExists ==
  ASSUME NEW n, NEW d, NEW i \in Exponents, Fits(i, n, d)
  PROVE  \E e \in Exponents : IsExponent(e, n, d)
<1> DEFINE T == {k \in Nat : k - MaxExp \in Exponents /\ Fits(k - MaxExp, n, d)}
<1>1. i + MaxExp \in T
  <2>1. i + MaxExp \in Nat /\ (i + MaxExp) - MaxExp = i
    BY UiAmountAssumption DEF Exponents
  <2> QED BY <2>1
<1>2. PICK k \in T : \A j \in T : k <= j
  <2>1. T \in SUBSET Nat
    OBVIOUS
  <2> HIDE DEF T
  <2> QED BY <1>1, <2>1, LeastNumber
<1>3. ASSUME NEW j \in -MaxExp..(k - MaxExp - 1)  PROVE ~Fits(j, n, d)
  <2>1. j + MaxExp \in Nat /\ (j + MaxExp) - MaxExp = j /\ j + MaxExp < k /\ j \in Exponents
    BY <1>2, UiAmountAssumption DEF Exponents
  <2> QED BY <1>2, <2>1
<1> QED BY <1>2, <1>3 DEF IsExponent

\* Either no float is so great, or the fraction of the least exponent is meant.
LEMMA FloatIs ==
  ASSUME NEW n \in Nat, NEW d \in Nat
  PROVE  \/ Float(n, d) = [n |-> 1, d |-> 0] /\ \A i \in Exponents : ~Fits(i, n, d)
         \/ /\ d # 0
            /\ \E e \in Exponents :
                 /\ IsExponent(e, n, d)
                 /\ Float(n, d) = [n |-> RoundHalfEven(n * Down(e), d * Up(e)) * Up(e),
                                   d |-> Down(e)]
<1>1. CASE \A i \in Exponents : ~Fits(i, n, d)
  BY <1>1 DEF Float
<1>2. ASSUME NEW i \in Exponents, Fits(i, n, d)
      PROVE  /\ d # 0
             /\ \E e \in Exponents :
                 /\ IsExponent(e, n, d)
                 /\ Float(n, d) = [n |-> RoundHalfEven(n * Down(e), d * Up(e)) * Up(e),
                                   d |-> Down(e)]
  <2> DEFINE e == CHOOSE k \in Exponents : IsExponent(k, n, d)
  <2>1. e \in Exponents /\ IsExponent(e, n, d)
    BY <1>2, ExponentExists
  <2>2. Float(n, d) = [n |-> RoundHalfEven(n * Down(e), d * Up(e)) * Up(e), d |-> Down(e)]
    BY <1>2 DEF Float
  <2>3. d # 0
    <3>1. i \in Int /\ Pow2[Precision] \in Nat
      BY UiAmountAssumption, PowersOfTwo DEF Exponents
    <3>2. Up(i) \in Nat /\ n * Down(i) \in Nat
      BY <3>1, UpAndDown
    <3> QED BY <1>2, <3>1, <3>2 DEF Fits
  <2> HIDE DEF e
  <2> QED BY <2>1, <2>2, <2>3
<1> QED BY <1>1, <1>2

LEMMA FloatType ==
  ASSUME NEW n \in Nat, NEW d \in Nat
  PROVE  Float(n, d).n \in Nat /\ Float(n, d).d \in Nat
<1>1. ASSUME d # 0, NEW e \in Exponents,
             Float(n, d) = [n |-> RoundHalfEven(n * Down(e), d * Up(e)) * Up(e), d |-> Down(e)]
      PROVE  Float(n, d).n \in Nat /\ Float(n, d).d \in Nat
  <2>1. Up(e) \in Nat \ {0} /\ Down(e) \in Nat \ {0}
    BY UpAndDown, UiAmountAssumption DEF Exponents
  <2>2. n * Down(e) \in Nat /\ d * Up(e) \in Nat \ {0}
    BY <1>1, <2>1
  <2>3. RoundHalfEven(n * Down(e), d * Up(e)) \in Nat
    BY <2>2, RoundHalfEvenIsNear
  <2> QED BY <1>1, <2>1, <2>3
<1> QED BY <1>1, FloatIs

\* Whatever is typed, a u64 comes out.
THEOREM NativeIsU64 ==
  ASSUME NEW x, x.n \in Int, x.d \in Nat
  PROVE  Native(x) \in 0..(U64 - 1)
<1>1. U64 \in Nat \ {0}
  <2>1. Pow2[Precision] \in Nat \ {0}
    BY UiAmountAssumption, PowersOfTwo
  <2> QED BY <2>1, UiAmountAssumption
<1>2. CASE x.n <= 0
  BY <1>1, <1>2 DEF Native
<1>3. CASE x.n > 0
  <2>1. x.n \in Nat /\ Scale \in Nat
    BY <1>3, UiAmountAssumption
  <2>2. Float(x.n, x.d).n \in Nat /\ Float(x.n, x.d).d \in Nat
    BY <2>1, FloatType
  <2>3. Product(x).n \in Nat /\ Product(x).d \in Nat
    BY <2>1, <2>2, FloatType DEF Product
  <2>4. Product(x).d # 0 => Product(x).n \div Product(x).d \in Nat
    BY <2>3
  <2> QED BY <1>1, <1>3, <2>4 DEF Native, AtMost
<1> QED BY <1>2, <1>3

---------------------------------------------------------------------------
(* A float and a product of it are near *)

\* The difference is at most half of what the exponent stands for.
LEMMA FloatIsNear ==
  ASSUME NEW n \in Nat, NEW d \in Nat, NEW i \in Exponents, Fits(i, n, d)
  PROVE  \E e \in Exponents :
           /\ IsExponent(e, n, d) /\ Float(n, d).d = Down(e) /\ Float(n, d).n \in Nat
           /\ 2 * (Float(n, d).n * d) - 2 * (n * Down(e)) <= d * Up(e)
           /\ 2 * (n * Down(e)) - 2 * (Float(n, d).n * d) <= d * Up(e)
<1>1. PICK e \in Exponents :
        /\ d # 0 /\ IsExponent(e, n, d)
        /\ Float(n, d) = [n |-> RoundHalfEven(n * Down(e), d * Up(e)) * Up(e), d |-> Down(e)]
  BY FloatIs
<1>2. Up(e) \in Nat \ {0} /\ Down(e) \in Nat \ {0}
  BY UpAndDown, UiAmountAssumption DEF Exponents
<1> DEFINE a == n * Down(e)
           b == d * Up(e)
           m == RoundHalfEven(a, b)
<1>3. a \in Nat /\ b \in Nat \ {0}
  BY <1>1, <1>2
<1>4. Float(n, d).n = m * Up(e) /\ Float(n, d).d = Down(e)
  BY <1>1
<1>5. m \in Nat /\ 2 * (m * b) - 2 * a <= b /\ 2 * a - 2 * (m * b) <= b
  BY <1>3, RoundHalfEvenIsNear
<1>6. m * b = (m * Up(e)) * d /\ m * Up(e) \in Nat
  <2> HIDE DEF m
  <2> QED BY <1>2, <1>5
<1> HIDE DEF m
<1> QED BY <1>1, <1>4, <1>5, <1>6

\* Products of natural numbers are monotone.
LEMMA ProductsGrow ==
  ASSUME NEW a \in Nat, NEW b \in Nat, NEW c \in Nat
  PROVE  /\ a <= b => a * c <= b * c
         /\ a < b /\ c # 0 => a * c < b * c
OBVIOUS

\* Below the given bound, the exponent stands for less than a native unit.
LEMMA ExponentIsSmall ==
  ASSUME NEW n \in Nat, NEW d \in Nat \ {0}, NEW e \in Exponents,
         IsExponent(e, n, d), 2 * (n * Scale) < Pow2[Precision] * d
  PROVE  Up(e) * Scale < Down(e)
<1> DEFINE P == Pow2[Precision]
           U == Up(e)
           G == Down(e)
<1>0. e \in Int /\ MaxExp \in Nat /\ Scale \in Nat /\ P \in Nat \ {0}
  BY UiAmountAssumption, PowersOfTwo DEF Exponents
<1>1. U \in Nat \ {0} /\ G \in Nat \ {0}
  BY <1>0, UpAndDown
<1>2. CASE e = -MaxExp
  <2>1. U = 1 /\ G = Pow2[MaxExp]
    BY <1>0, <1>2, PowersOfTwo DEF Up, Down
  <2> QED BY <1>0, <2>1, UiAmountAssumption
<1>3. CASE e # -MaxExp
  <2>1. ~Fits(e - 1, n, d)
    <3>1. e - 1 \in -MaxExp..(e - 1)
      BY <1>0, <1>3 DEF Exponents
    <3> QED BY <3>1 DEF IsExponent
  <2>2. Up(e - 1) \in Nat \ {0} /\ Down(e - 1) \in Nat \ {0}
    BY <1>0, UpAndDown
  <2>3. (P * d) * Up(e - 1) <= n * Down(e - 1)
    BY <1>0, <2>1, <2>2 DEF Fits
  <2>4. (P * d) * U <= 2 * (n * G)
    <3> HIDE DEF P
    <3>1. CASE U = 2 * Up(e - 1) /\ G = Down(e - 1)
      BY <1>0, <1>1, <2>2, <2>3, <3>1
    <3>2. CASE U = Up(e - 1) /\ Down(e - 1) = 2 * G
      BY <1>0, <1>1, <2>2, <2>3, <3>2
    <3> QED BY <1>0, <3>1, <3>2, UpAndDown
  <2> HIDE DEF P, U, G
  <2> SUFFICES ASSUME G <= U * Scale PROVE FALSE
    BY <1>0, <1>1 DEF U, G
  <2>5. (P * d) * G <= (P * d) * (U * Scale)
    BY <1>0, <1>1, ProductsGrow
  <2>6. ((P * d) * U) * Scale <= (2 * (n * G)) * Scale
    BY <1>0, <1>1, <2>4, ProductsGrow
  <2>7. (2 * (n * Scale)) * G < (P * d) * G
    BY <1>0, <1>1, ProductsGrow DEF P
  <2>8. /\ (P * d) * (U * Scale) = ((P * d) * U) * Scale
        /\ (2 * (n * G)) * Scale = (2 * (n * Scale)) * G
    BY <1>0, <1>1
  <2>9. /\ (P * d) * G \in Nat /\ ((P * d) * U) * Scale \in Nat
        /\ (2 * (n * Scale)) * G \in Nat
    BY <1>0, <1>1
  <2> QED BY <2>5, <2>6, <2>7, <2>8, <2>9
<1> QED BY <1>2, <1>3

\* Where 0 fits, the exponent is not positive.
LEMMA ExponentIsNotPositive ==
  ASSUME NEW n \in Nat, NEW d \in Nat, NEW e \in Exponents,
         IsExponent(e, n, d), Fits(0, n, d)
  PROVE  Up(e) = 1
<1>1. e \in Int /\ MaxExp \in Nat
  BY UiAmountAssumption DEF Exponents
<1>2. 0 \notin -MaxExp..(e - 1)
  BY DEF IsExponent
<1> QED BY <1>1, <1>2 DEF Up

\* Parsing is off by less than half a native unit.
LEMMA ParsedIsNear ==
  ASSUME NEW n \in Nat, NEW d \in Nat \ {0}, 2 * (n * Scale) < Pow2[Precision] * d
  PROVE  LET F == Float(n, d).n  G == Float(n, d).d
         IN  /\ F \in Nat /\ G \in Nat \ {0}
             /\ 2 * ((F * Scale) * d) - 2 * ((n * Scale) * G) < d * G
             /\ 2 * ((n * Scale) * G) - 2 * ((F * Scale) * d) < d * G
<1> DEFINE P == Pow2[Precision]
           F == Float(n, d).n
           G == Float(n, d).d
<1>0. MaxExp \in Nat /\ Scale \in Nat \ {0} /\ P \in Nat \ {0}
  BY UiAmountAssumption, PowersOfTwo
<1>1. 0 \in Exponents /\ Fits(0, n, d)
  <2>1. 0 \in Exponents /\ Up(0) = 1 /\ Down(0) = 1
    BY <1>0 DEF Exponents, Up, Down
  <2>2. n <= n * Scale
    BY <1>0
  <2>3. n * Scale \in Nat
    BY <1>0
  <2>4. n < P * d
    BY <1>0, <2>2, <2>3
  <2> QED BY <1>0, <2>1, <2>4 DEF Fits
<1>2. PICK e \in Exponents :
        /\ IsExponent(e, n, d) /\ G = Down(e) /\ F \in Nat
        /\ 2 * (F * d) - 2 * (n * G) <= d * Up(e)
        /\ 2 * (n * G) - 2 * (F * d) <= d * Up(e)
  BY <1>1, FloatIsNear
<1> DEFINE U == Up(e)
<1>3. U \in Nat \ {0} /\ G \in Nat \ {0}
  BY <1>0, <1>2, UpAndDown DEF Exponents
<1>4. U * Scale < G
  BY <1>2, ExponentIsSmall
<1>5. 2 * (F * d) - 2 * (n * G) <= d * U /\ 2 * (n * G) - 2 * (F * d) <= d * U /\ F \in Nat
  BY <1>2
<1> HIDE DEF F, G, U
<1>6. (d * U) * Scale < d * G
  <2>1. (d * U) * Scale = (U * Scale) * d /\ d * G = G * d /\ U * Scale \in Nat
    BY <1>0, <1>3
  <2> QED BY <1>3, <1>4, <2>1, ProductsGrow
<1> DEFINE v == F * d
           w == n * G
<1>7. v \in Nat /\ w \in Nat /\ d * U \in Nat
  BY <1>3, <1>5
<1>8. /\ (2 * v - 2 * w) * Scale <= (d * U) * Scale
      /\ (2 * w - 2 * v) * Scale <= (d * U) * Scale
  <2> DEFINE c == d * U
  <2>1. 2 * v - 2 * w <= c /\ 2 * w - 2 * v <= c /\ c \in Nat
    BY <1>5, <1>7
  <2> HIDE DEF v, w, c
  <2>2. \A y \in Int : y <= c => y * Scale <= c * Scale
    BY <1>0, <2>1
  <2>3. 2 * v - 2 * w \in Int /\ 2 * w - 2 * v \in Int
    BY <1>7
  <2> QED BY <2>1, <2>2, <2>3 DEF c
<1>9. /\ (2 * v - 2 * w) * Scale = 2 * ((F * Scale) * d) - 2 * ((n * Scale) * G)
      /\ (2 * w - 2 * v) * Scale = 2 * ((n * Scale) * G) - 2 * ((F * Scale) * d)
  BY <1>0, <1>3, <1>5
<1>10. (d * U) * Scale \in Nat /\ d * G \in Nat /\ (F * Scale) * d \in Nat /\ (n * Scale) * G \in Nat
  BY <1>0, <1>3, <1>5
<1>11. /\ 2 * ((F * Scale) * d) - 2 * ((n * Scale) * G) < d * G
       /\ 2 * ((n * Scale) * G) - 2 * ((F * Scale) * d) < d * G
  BY <1>6, <1>8, <1>9, <1>10
<1> QED BY <1>3, <1>5, <1>11 DEF F, G

\* Two errors of half a unit: q/h is within a half of y/g, that within a half of
\* x/d.
LEMMA HalvesAddUp ==
  ASSUME NEW x \in Nat, NEW d \in Nat \ {0}, NEW y \in Nat, NEW g \in Nat \ {0},
         NEW q \in Nat, NEW h \in Nat \ {0},
         2 * (q * g) - 2 * (y * h) <= g,
         2 * (y * d) - 2 * (x * g) < d * g
  PROVE  q * d - x * h < d * h
OBVIOUS

LEMMA HalvesAddDown ==
  ASSUME NEW x \in Nat, NEW d \in Nat \ {0}, NEW y \in Nat, NEW g \in Nat \ {0},
         NEW q \in Nat, NEW h \in Nat \ {0},
         2 * (y * h) - 2 * (q * g) <= g,
         2 * (x * g) - 2 * (y * d) < d * g
  PROVE  x * h - q * d < d * h
OBVIOUS

\* What is multiplied is off by less than one native unit.
LEMMA ProductIsNear ==
  ASSUME NEW x, x.n \in Nat, x.d \in Nat \ {0},
         2 * (x.n * Scale) < Pow2[Precision] * x.d
  PROVE  LET q == Product(x).n  h == Product(x).d
         IN  /\ q \in Nat /\ h \in Nat \ {0}
             /\ q * x.d - (x.n * Scale) * h < x.d * h
             /\ (x.n * Scale) * h - q * x.d < x.d * h
<1> DEFINE d == x.d
           s == x.n * Scale
           P == Pow2[Precision]
           y == Float(x.n, d).n * Scale
           g == Float(x.n, d).d
           q == Product(x).n
           h == Product(x).d
<1>0. Scale \in Nat \ {0} /\ P \in Nat \ {0} /\ MaxExp \in Nat
  BY UiAmountAssumption, PowersOfTwo
<1>1. /\ y \in Nat /\ g \in Nat \ {0}
      /\ 2 * (y * d) - 2 * (s * g) < d * g
      /\ 2 * (s * g) - 2 * (y * d) < d * g
  BY <1>0, ParsedIsNear
<1>2. d \in Nat \ {0} /\ s \in Nat /\ 2 * s < P * d
  BY <1>0
<1>3. Product(x) = Float(y, g)
  BY DEF Product
<1>4. 0 \in Exponents /\ Fits(0, y, g)
  <2> HIDE DEF y, g, s, d, P
  <2>1. (y * d) * 2 < (d * g) * (1 + P)
    <3>1. (2 * s) * g < (P * d) * g
      BY <1>0, <1>1, <1>2, ProductsGrow
    <3> QED BY <1>0, <1>1, <1>2, <3>1
  <2>2. y < P * g
    <3> SUFFICES ASSUME P * g <= y PROVE FALSE
      BY <1>0, <1>1
    <3>1. (P * g) * (2 * d) <= y * (2 * d)
      BY <1>0, <1>1, <1>2, ProductsGrow
    <3>2. (1 + P) * (d * g) <= (2 * P) * (d * g)
      BY <1>0, <1>1, <1>2, ProductsGrow
    <3> QED BY <1>0, <1>1, <1>2, <2>1, <3>1, <3>2
  <2>3. Up(0) = 1 /\ Down(0) = 1
    BY DEF Up, Down
  <2> QED BY <1>0, <1>1, <2>2, <2>3 DEF Exponents, Fits, P
<1>5. PICK e \in Exponents :
        /\ IsExponent(e, y, g) /\ h = Down(e) /\ q \in Nat
        /\ 2 * (q * g) - 2 * (y * h) <= g * Up(e)
        /\ 2 * (y * h) - 2 * (q * g) <= g * Up(e)
  <2> HIDE DEF y, g
  <2> QED BY <1>1, <1>3, <1>4, FloatIsNear
<1>6. Up(e) = 1 /\ h \in Nat \ {0}
  <2>1. e \in Int
    BY <1>0 DEF Exponents
  <2> HIDE DEF y, g, h
  <2> QED BY <1>1, <1>4, <1>5, <2>1, ExponentIsNotPositive, UpAndDown
<1>7. q * d - s * h < d * h /\ s * h - q * d < d * h
  <2> HIDE DEF y, g, s, d, q, h
  <2>1. g * Up(e) = g
    BY <1>1, <1>6
  <2> QED BY <1>1, <1>2, <1>5, <1>6, <2>1, HalvesAddUp, HalvesAddDown
<1> QED BY <1>5, <1>6, <1>7

\* For every amount that an f64 resolves to half native units, and any width of
\* floats: what it is converted to is the amount cut to native units or one off,
\* and no more than the amount if that is in whole units.
THEOREM NativeIsAbout ==
  ASSUME NEW x, x.n \in Nat, x.d \in Nat \ {0},
         2 * x.n * Scale < Pow2[Precision] * x.d
  PROVE  IsAbout(x, Native(x))
<1> DEFINE d == x.d
           s == x.n * Scale
           whole == s \div d
           P == Pow2[Precision]
<1>0. Scale \in Nat \ {0} /\ P \in Nat /\ P >= 2 /\ U64 \in Nat /\ P <= U64
  <2>1. Precision - 1 \in Nat /\ (Precision - 1) + 1 = Precision
    BY UiAmountAssumption
  <2>2. P = 2 * Pow2[Precision - 1] /\ Pow2[Precision - 1] \in Nat \ {0}
    BY <2>1, PowersOfTwo
  <2> QED BY <2>2, UiAmountAssumption
<1>1. d \in Nat \ {0} /\ s \in Nat /\ 2 * s < P * d
  <2>1. 2 * x.n * Scale = 2 * s
    BY <1>0
  <2> QED BY <1>0, <2>1
<1>2. whole \in Nat /\ whole * d <= s /\ s < (whole + 1) * d
  <2> HIDE DEF s, d
  <2>1. s \div d \in Nat /\ s % d \in 0..(d - 1) /\ s = d * (s \div d) + (s % d)
    BY <1>1, Division
  <2> QED BY <1>1, <2>1
<1>3. whole + 1 <= U64 - 1
  <2> HIDE DEF whole, s, d, P
  <2>1. 2 * whole < P
    <3>1. (2 * whole) * d < P * d
      BY <1>0, <1>1, <1>2
    <3> QED BY <1>0, <1>1, <1>2, <3>1, ProductsGrow
  <2> QED BY <1>0, <1>2, <2>1
<1>4. CASE x.n = 0
  <2>1. s = 0
    BY <1>0, <1>4
  <2>2. whole = 0
    BY <1>1, <2>1
  <2>3. Native(x) = 0
    BY <1>4 DEF Native
  <2> QED BY <2>2, <2>3 DEF IsAbout
<1>5. CASE x.n # 0
  <2> DEFINE q == Product(x).n
             h == Product(x).d
             a == q \div h
  <2>1. q \in Nat /\ h \in Nat \ {0} /\ q * d - s * h < d * h /\ s * h - q * d < d * h
    BY <1>0, <1>1, ProductIsNear
  <2>2. a \in Nat /\ a * h <= q /\ q < (a + 1) * h
    <3> HIDE DEF q, h
    <3>1. q \div h \in Nat /\ q % h \in 0..(h - 1) /\ q = h * (q \div h) + (q % h)
      BY <2>1, Division
    <3> QED BY <2>1, <3>1
  <2>3. Native(x) = AtMost(a, U64 - 1)
    BY <1>5, <2>1 DEF Native
  <2> HIDE DEF q, h, a, s, d, whole
  <2>4. a <= whole + 1
    <3> SUFFICES ASSUME whole + 2 <= a PROVE FALSE
      BY <1>2, <2>2
    <3>1. (whole + 2) * (h * d) <= a * (h * d)
      BY <1>1, <1>2, <2>1, <2>2, ProductsGrow
    <3>2. (a * h) * d <= q * d /\ s * h < ((whole + 1) * d) * h
      BY <1>1, <1>2, <2>1, <2>2, ProductsGrow
    <3> QED BY <1>1, <1>2, <2>1, <2>2, <3>1, <3>2
  <2>5. whole - 1 <= a
    <3> SUFFICES ASSUME a + 2 <= whole PROVE FALSE
      BY <1>2, <2>2
    <3>1. (a + 2) * (h * d) <= whole * (h * d)
      BY <1>1, <1>2, <2>1, <2>2, ProductsGrow
    <3>2. q * d < ((a + 1) * h) * d /\ (whole * d) * h <= s * h
      BY <1>1, <1>2, <2>1, <2>2, ProductsGrow
    <3> QED BY <1>1, <1>2, <2>1, <2>2, <3>1, <3>2
  <2>6. whole * d = s => a <= whole
    <3> SUFFICES ASSUME whole * d = s, whole + 1 <= a PROVE FALSE
      BY <1>2, <2>2
    <3>1. (whole + 1) * (h * d) <= a * (h * d)
      BY <1>1, <1>2, <2>1, <2>2, ProductsGrow
    <3>2. (a * h) * d <= q * d
      BY <1>1, <1>2, <2>1, <2>2, ProductsGrow
    <3> QED BY <1>1, <1>2, <2>1, <2>2, <3>1, <3>2
  <2>7. Native(x) = a
    BY <1>0, <1>2, <1>3, <2>2, <2>3, <2>4 DEF AtMost
  <2>8. a \in (whole - 1)..(whole + 1)
    BY <1>2, <2>2, <2>4, <2>5
  <2> QED BY <2>6, <2>7, <2>8 DEF IsAbout, whole, s, d
<1> QED BY <1>4, <1>5
=============================================================================
