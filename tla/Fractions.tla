----------------------------- MODULE Fractions -----------------------------
(***************************************************************************)
(* Exact fractions in lowest terms, powers and sums: what stands for the   *)
(* floating point numbers of src/apps/evaluation/metrics.py and stress.py  *)
(* in the modules about products.                                          *)
(***************************************************************************)
EXTENDS Integers, Functions

gcd[p \in Nat \X Nat] == IF p[2] = 0 THEN p[1] ELSE gcd[<<p[2], p[1] % p[2]>>]

Reduced(n, d, c) == [n |-> n \div c, d |-> d \div c]

\* n / d, for a positive d.
Frac(n, d) == Reduced(n, d, gcd[<<IF n < 0 THEN -n ELSE n, d>>])

Leq(x, y) == x.n * y.d <= y.n * x.d
Same(x, y) == x.n * y.d = y.n * x.d

Times(x, y) == Frac(x.n * y.n, x.d * y.d)
Plus(x, y) == Frac(x.n * y.d + y.n * x.d, x.d * y.d)

\* x / y, 0 when y is.
Ratio(x, y) ==
  CASE y.n > 0 -> Frac(x.n * y.d, x.d * y.n)
    [] y.n < 0 -> Frac(-(x.n * y.d), x.d * (-y.n))
    [] OTHER   -> Frac(0, 1)

SumFrac(f) == FoldFunction(Plus, Frac(0, 1), f)

Power(base, n) == LET p[k \in Nat] == IF k = 0 THEN 1 ELSE base * p[k - 1] IN p[n]

Sigma(a, b, f(_)) == SumFunction([t \in a..b |-> f(t)])

=============================================================================
