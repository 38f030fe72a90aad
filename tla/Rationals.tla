------------------------------ MODULE Rationals ------------------------------
(***************************************************************************)
(* Exact numbers in place of the floats of the indicators: a rational is   *)
(* <<numerator, denominator>> in lowest terms.                             *)
(***************************************************************************)
EXTENDS Integers, Sequences

Larger(a, b) == IF a >= b THEN a ELSE b
Smaller(a, b) == IF a <= b THEN a ELSE b
Size(a) == Larger(a, -a)

gcd[p \in Nat \X Nat] == IF p[2] = 0 THEN p[1] ELSE gcd[<<p[2], p[1] % p[2]>>]

\* a / b, where b # 0 may be negative.
LowestTerms(a, b, g) == <<a \div g, b \div g>>
Ratio(a, b) ==
    LowestTerms(IF b < 0 THEN -a ELSE a, Size(b), gcd[<<Size(a), Size(b)>>])

Num(a) == <<a, 1>>
Zero == Num(0)
OverCommon(x, y, g) == Ratio(x[1] * (y[2] \div g) + y[1] * (x[2] \div g), x[2] * (y[2] \div g))
Plus(x, y) == OverCommon(x, y, gcd[<<x[2], y[2]>>])
Times(x, y) == Ratio(x[1] * y[1], x[2] * y[2])
Minus(x, y) == Plus(x, <<-y[1], y[2]>>)
Over(x, y) == Ratio(x[1] * y[2], x[2] * y[1])
Leq(x, y) == Minus(x, y)[1] <= 0
Less(x, y) == Minus(x, y)[1] < 0

\* The sums of the first values of a sequence.
Sums(s) == LET sum[i \in 0 .. Len(s)] == IF i = 0 THEN Zero ELSE Plus(sum[i - 1], s[i]) IN sum
Total(s) == Sums(s)[Len(s)]
Mean(s) == Over(Total(s), Num(Len(s)))
=============================================================================
