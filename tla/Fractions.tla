----------------------------- MODULE Fractions -----------------------------
(***************************************************************************)
(* Exact fractions <<n, d>> with d > 0 and no common divisor: what the     *)
(* Python code computes in floating point, without the rounding.           *)
(***************************************************************************)
EXTENDS Integers, Sequences

LOCAL Size(n) == IF n < 0 THEN -n ELSE n

Distance(x, y) == Size(x - y)

LOCAL gcd[a \in Nat, b \in Nat] == IF b = 0 THEN a ELSE gcd[b, a % b]

LOCAL Reduced(n, d, g) == <<n \div g, d \div g>>

Frac(n, d) ==
    Reduced(IF d < 0 THEN -n ELSE n, Size(d), gcd[Size(n), Size(d)])

Whole(n) == <<n, 1>>
Zero == Whole(0)
One == Whole(1)

LOCAL Added(f, g, common) ==
    Frac(f[1] * (g[2] \div common) + g[1] * (f[2] \div common), f[2] * (g[2] \div common))

LOCAL Product(f, g) == <<f[1] * g[1], f[2] * g[2]>>

Neg(f) == <<-f[1], f[2]>>
Plus(f, g) == Added(f, g, gcd[f[2], g[2]])
Minus(f, g) == Plus(f, Neg(g))
Times(f, g) == Product(Frac(f[1], g[2]), Frac(g[1], f[2]))
Over(f, g) == Times(f, Frac(g[2], g[1]))

(* a/b < c/d by comparing whole parts and then the reciprocals of what     *)
(* remains: no product of large numbers.                                   *)
LOCAL below[a \in Int, b \in Nat, c \in Int, d \in Nat] ==
    IF a \div b # c \div d THEN a \div b < c \div d
    ELSE IF c % d = 0 THEN FALSE
    ELSE IF a % b = 0 THEN TRUE
    ELSE below[d, c % d, b, a % b]

Less(f, g) == below[f[1], f[2], g[1], g[2]]
AtMost(f, g) == ~Less(g, f)
Greater(f, g) == Less(g, f)
Larger(f, g) == IF Less(f, g) THEN g ELSE f
Smaller(f, g) == IF Less(g, f) THEN g ELSE f
Abs(f) == IF f[1] < 0 THEN Neg(f) ELSE f

(* Sums and products of a function or sequence of fractions.               *)
SumOn(f, S) ==
    LET sum[T \in SUBSET S] ==
            IF T = {} THEN Zero
            ELSE LET x == CHOOSE x \in T : TRUE IN Plus(f[x], sum[T \ {x}])
    IN  sum[S]

Sum(f) == SumOn(f, DOMAIN f)

Mean(f, count) == Over(Sum(f), Whole(count))
=============================================================================
