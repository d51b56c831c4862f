----------------------------- MODULE ExactFloat -----------------------------
(***************************************************************************)
(* The float arithmetic trim_map.py does, on exact rationals.  A number is *)
(* a pair <<n, d>> in lowest terms with d > 0, so equal numbers are equal  *)
(* values and TLC identifies equal states.  Rounding of IEEE doubles is    *)
(* not represented: a result is the exact quotient, product or difference. *)
(* Division by zero is not defined here; the caller guards it the way the  *)
(* program raises ZeroDivisionError.                                       *)
(***************************************************************************)
EXTENDS Integers

Abs(k) == IF k < 0 THEN -k ELSE k

\* Euclid's algorithm on non-negative integers.
RECURSIVE Gcd(_, _)
Gcd(a, b) == IF b = 0 THEN a ELSE Gcd(b, a % b)

\* The number n / d (d # 0) in lowest terms.
Q(n, d) ==
  LET g == Gcd(Abs(n), Abs(d))
      s == IF d < 0 THEN -1 ELSE 1
  IN  IF n = 0 THEN <<0, 1>> ELSE <<(s * n) \div g, (s * d) \div g>>

N(k) == <<k, 1>>
Zero == <<0, 1>>

Plus(a, b)  == Q(a[1] * b[2] + b[1] * a[2], a[2] * b[2])
Minus(a, b) == Q(a[1] * b[2] - b[1] * a[2], a[2] * b[2])
Times(a, b) == Q(a[1] * b[1], a[2] * b[2])
Over(a, b)  == Q(a[1] * b[2], a[2] * b[1])

Lt(a, b)  == a[1] * b[2] < b[1] * a[2]
Leq(a, b) == a[1] * b[2] <= b[1] * a[2]

\* Python's int(x) on a float: truncation toward zero.
Trunc(a) == IF a[1] >= 0 THEN a[1] \div a[2] ELSE -((-a[1]) \div a[2])
=============================================================================
