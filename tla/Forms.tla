------------------------------- MODULE Forms -------------------------------
(***************************************************************************)
(* Binary quadratic forms: reduction, composition and squaring, each in    *)
(* the several versions the code has, on integers of GMP whose limbs have  *)
(* LimbBits bits.                                                          *)
(***************************************************************************)
EXTENDS Integers, Sequences, FiniteSets

CONSTANT LimbBits   \* 64: bits of a limb and of a machine word

ASSUME LimbAssumption == LimbBits \in Nat /\ LimbBits >= 4 /\ LimbBits % 2 = 0

----------------------------------------------------------------------------
(***************************************************************************)
(* Integers                                                                *)
(***************************************************************************)

Abs(n) == IF n < 0 THEN -n ELSE n
Sgn(n) == IF n < 0 THEN -1 ELSE IF n = 0 THEN 0 ELSE 1
Larger(m, n) == IF m > n THEN m ELSE n
Smaller(m, n) == IF m < n THEN m ELSE n

FDiv(n, d) == IF d > 0 THEN n \div d ELSE (-n) \div (-d)
FRem(n, d) == n - d * FDiv(n, d)
TDiv(n, d) == Sgn(n) * Sgn(d) * (Abs(n) \div Abs(d))
Shifted(n, bits) == n \div 2^bits

RECURSIVE num_bits(_)
num_bits(n) == IF Abs(n) <= 1 THEN 1 ELSE 1 + num_bits(Abs(n) \div 2)

Limbs(n) == IF n = 0 THEN 0 ELSE (num_bits(n) + LimbBits - 1) \div LimbBits
Limb(n, i) == Shifted(Abs(n), i * LimbBits) % 2^LimbBits

\* mpz_root: the largest r with r^n <= v.
root(v, n) == CHOOSE r \in 0 .. v : r^n <= v /\ (r + 1)^n > v

\* test_gcd: a * s + b * t = gcd, the same s as mpz_gcdext returns.
RECURSIVE EuclidFrom(_, _, _, _, _)
EuclidFrom(a, b, u0, u1, parity) ==
  IF b = 0 THEN [gcd |-> a, s |-> parity * u0]
  ELSE EuclidFrom(b, a % b, u1, u0 + (a \div b) * u1, -parity)

test_gcd(a, b) ==
  LET r == IF Abs(a) < Abs(b) THEN EuclidFrom(Abs(b), Abs(a), 0, 1, -1)
           ELSE EuclidFrom(Abs(a), Abs(b), 1, 0, 1)
  IN  [r EXCEPT !.s = IF a < 0 THEN -@ ELSE @]

\* gcd: the cofactors of mpz_gcdext.
gcd(a, b) ==
  LET r == test_gcd(a, b)
  IN  [gcd |-> r.gcd, s |-> r.s, t |-> IF b = 0 THEN 0 ELSE (r.gcd - a * r.s) \div b]

three_gcd(a, b, c) == gcd(gcd(a, b).gcd, c).gcd

----------------------------------------------------------------------------
(***************************************************************************)
(* vdf_new.h                                                               *)
(***************************************************************************)

Form(a, b, c) == [a |-> a, b |-> b, c |-> c]

check_valid(f, d) == f.b * f.b - 4 * f.a * f.c = d

is_reduced(f) ==
  /\ f.a < f.c \/ (f.a = f.c /\ f.b >= 0)
  /\ f.a > Abs(f.b) \/ f.a = f.b

normalize(f) ==
  LET r == (f.a - f.b) \div (2 * f.a)
  IN  Form(f.a, f.b + 2 * r * f.a, f.a * r * r + f.b * r + f.c)

reduce_impl(f) ==
  LET s == (f.c + f.b) \div (2 * f.c)
  IN  Form(f.c, 2 * s * f.c - f.b, f.c * s * s - f.b * s + f.a)

RECURSIVE ReduceLoop(_)
ReduceLoop(f) ==
  IF f.a > f.c \/ (f.a = f.c /\ f.b < 0) THEN ReduceLoop(reduce_impl(f)) ELSE f

reduce(f) == normalize(ReduceLoop(normalize(f)))

\* from_abd throws when there is no c.
from_abd_throws(a, b, d) == a <= 0 \/ (b * b - d) % (4 * a) # 0
from_abd(a, b, d) == reduce(Form(a, b, (b * b - d) \div (4 * a)))

identity(d) == from_abd(1, 1, d)
generator(d) == from_abd(2, 1, d)
inverse(f) == reduce(Form(f.a, -f.b, f.c))

square(f) ==
  LET r == gcd(f.b, f.a)
      u == ((f.c \div r.gcd) * r.s) % f.a
  IN  reduce(Form(f.a * f.a, f.b - 2 * f.a * u,
                  u * u - (f.b * u - f.c) \div f.a))

\* The solutions of a*x = b mod m are mu + n*v.
solve_linear_congruence(a, b, m) ==
  LET r == gcd(a, m)
  IN  [mu |-> ((b \div r.gcd) * r.s) % m, v |-> m \div r.gcd]

multiply(f1, f2) ==
  LET g == (f2.b + f1.b) \div 2
      h == (f2.b - f1.b) \div 2
      w == three_gcd(f1.a, f2.a, g)
      s == f1.a \div w
      t == f2.a \div w
      u == g \div w
      first == solve_linear_congruence(t * u, h * u + s * f1.c, s * t)
      second == solve_linear_congruence(t * first.v, h - t * first.mu, s)
      k == first.mu + first.v * second.mu
      l == (t * k - h) \div s
      m == (t * u * k - h * u - s * f1.c) \div (s * t)
  IN  reduce(Form(s * t, w * u - (k * t + l * s), k * l - w * m))

----------------------------------------------------------------------------
(***************************************************************************)
(* vdf_original.h: the slow algorithm that corrects the fast one           *)
(***************************************************************************)

OriginalNormalize(f) ==
  IF f.b > -f.a /\ f.b <= f.a THEN f
  ELSE LET r == (f.a - f.b) \div (2 * f.a)
       IN  Form(f.a, f.b + 2 * r * f.a, f.c + f.a * r * r + r * f.b)

RECURSIVE OriginalReduceLoop(_)
OriginalReduceLoop(f) ==
  IF f.a < f.c \/ (f.a = f.c /\ f.b >= 0) THEN f
  ELSE LET s == (f.c + f.b) \div (2 * f.c)
       IN  OriginalReduceLoop(
             Form(f.c, -f.b + 2 * s * f.c, f.c * s * s - f.b * s + f.a))

OriginalReduce(f) == OriginalNormalize(OriginalReduceLoop(OriginalNormalize(f)))

OriginalSquare(f) ==
  LET r == gcd(f.b, f.a)
      mu == ((f.c \div r.gcd) * r.s) % f.a
      m == (f.b * mu - f.c) \div f.a
  IN  OriginalReduce(Form(f.a * f.a, f.b - 2 * mu * f.a, mu * mu - m))

\* The congruence with the check `No solution to congruence'.
original_congruence(a, b, m) ==
  LET r == gcd(a, m)
  IN  [ok |-> b % r.gcd = 0, mu |-> ((b \div r.gcd) * r.s) % m, v |-> m \div r.gcd]

OriginalMultiply(f1, f2) ==
  LET g == (f1.b + f2.b) \div 2
      h == (f2.b - f1.b) \div 2
      w == three_gcd(f1.a, f2.a, g)
      s == f1.a \div w
      t == f2.a \div w
      u == g \div w
      first == original_congruence(t * u, h * u + s * f1.c, s * t)
      second == original_congruence(t * first.v, h - t * first.mu, s)
      k == first.mu + first.v * second.mu
      l == (k * t - h) \div s
      m == (t * u * k - h * u - f1.c * s) \div (s * t)
  IN  [ok |-> first.ok /\ second.ok,
       f |-> OriginalReduce(Form(s * t, w * u - k * t - l * s, k * l - w * m))]

RECURSIVE repeated_square(_, _)
repeated_square(f, iterations) ==
  IF iterations = 0 THEN f ELSE repeated_square(OriginalSquare(f), iterations - 1)

=============================================================================
