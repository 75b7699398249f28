------------------------------ MODULE UiAmount ------------------------------
(***************************************************************************)
(* From the amount that is typed to native units (InteractiveCli::deposit  *)
(* in src/src/interactive_cli.rs): the text is parsed to an f64, multiplied *)
(* by 10^6 in floating point and cut to a u64.  An f64 is a fraction whose *)
(* numerator has at most Precision bits once powers of two are taken out.  *)
(***************************************************************************)
EXTENDS Integers

CONSTANTS
  Scale,      \* native units of one token: 10^6
  Precision,  \* bits of the significand of an f64: 53
  MaxExp,     \* bound: powers of two in its exponent, in either direction
  U64         \* 2^w for the width w of the code's u64

\* The powers of two.
Pow2[n \in Nat] == IF n = 0 THEN 1 ELSE 2 * Pow2[n - 1]

\* One native unit is no subnormal number, and a u64 holds what a significand
\* holds.
ASSUME UiAmountAssumption ==
  /\ Scale \in Nat \ {0} /\ Precision \in Nat \ {0} /\ MaxExp \in Nat /\ U64 \in Nat
  /\ Scale < Pow2[MaxExp] /\ Pow2[Precision] <= U64

\* A typed amount is the fraction n/d; d = 0 stands for what is infinite
\* (n > 0: inf, n < 0: -inf) or no number (n = 0: NaN).
Typed(n, d) == [n |-> n, d |-> d]

RoundHalfEven(a, b) ==
  LET q == a \div b  r == a % b
  IN  IF 2 * r > b \/ (2 * r = b /\ q % 2 = 1) THEN q + 1 ELSE q

Exponents == -MaxExp..MaxExp
Up(e) == IF e > 0 THEN Pow2[e] ELSE 1
Down(e) == IF e < 0 THEN Pow2[-e] ELSE 1

\* With exponent e the significand has bits enough for n/d.
Fits(e, n, d) == n * Down(e) < Pow2[Precision] * d * Up(e)
IsExponent(e, n, d) == Fits(e, n, d) /\ \A i \in -MaxExp..(e - 1) : ~Fits(i, n, d)

\* The float nearest to n/d, itself as a fraction; infinite if none is so great.
Float(n, d) ==
  IF \A i \in Exponents : ~Fits(i, n, d) THEN [n |-> 1, d |-> 0]
  ELSE LET e == CHOOSE i \in Exponents : IsExponent(i, n, d)
       IN  [n |-> RoundHalfEven(n * Down(e), d * Up(e)) * Up(e), d |-> Down(e)]

AtMost(x, y) == IF x < y THEN x ELSE y

\* (amount * 10^6 as f64)
Product(x) == LET f == Float(x.n, x.d) IN Float(f.n * Scale, f.d)

\* Wrong on purpose: cut to an integer before it is scaled.
NativeOfWhole(x) == IF x.n <= 0 \/ x.d = 0 THEN 0 ELSE (x.n \div x.d) * Scale

\* Wrong on purpose: the cast does not saturate.
NativeUnbounded(x) ==
  IF x.n <= 0 THEN 0 ELSE IF x.d = 0 THEN U64 ELSE (x.n * Scale) \div x.d

\* Product(x) as u64, which saturates at both ends; NaN becomes 0.
Native(x) ==
  IF x.n <= 0 THEN 0
  ELSE IF Product(x).d = 0 THEN U64 - 1
  ELSE AtMost(Product(x).n \div Product(x).d, U64 - 1)

\* The native units of x, cut to an integer, are a or one off; a is not above x.
IsAbout(x, a) ==
  LET whole == (x.n * Scale) \div x.d
  IN  /\ a \in (whole - 1)..(whole + 1)
      /\ whole * x.d = x.n * Scale => a <= whole
=============================================================================
