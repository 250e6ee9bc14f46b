------------------------------ MODULE Rational ------------------------------
(* Exact rational numbers, for the double arithmetic of the portfolio and the *)
(* signals: a reduced numerator over a positive denominator.                  *)
EXTENDS Integers, FiniteSetsExt

Gcd(n, d) == Max({k \in 1 .. d : n % k = 0 /\ d % k = 0})

Ratio(n, d) == LET g == Gcd(n, d) IN [num |-> n \div g, den |-> d \div g]
Whole(n)    == [num |-> n, den |-> 1]

a ++ b == Ratio(a.num * b.den + b.num * a.den, a.den * b.den)
a -- b == Ratio(a.num * b.den - b.num * a.den, a.den * b.den)
a ** b == Ratio(a.num * b.num, a.den * b.den)
a // k == Ratio(a.num, a.den * k)  \* by a positive integer

AtMost(a, b) == a.num * b.den <= b.num * a.den

Abs(n) == IF n < 0 THEN -n ELSE n

(* static_cast<int64_t>: towards zero.                                        *)
Truncate(a) == IF a.num < 0 THEN -(-a.num \div a.den) ELSE a.num \div a.den

(* Whether a binary floating-point number holds a (up to denominator 2^20).   *)
Dyadic(a) == \E i \in 0 .. 20 : a.den = 2 ^ i
=============================================================================
