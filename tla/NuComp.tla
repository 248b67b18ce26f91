------------------------------- MODULE NuComp -------------------------------
(***************************************************************************)
(* The fast composition and squaring of nucomp.h, with the partial         *)
(* extended gcd of xgcd_partial.c on single words, and the reduction of    *)
(* Reducer.h, which works on approximations by one word.                   *)
(***************************************************************************)
EXTENDS Forms

----------------------------------------------------------------------------
(***************************************************************************)
(* xgcd_partial.c                                                          *)
(***************************************************************************)

\* chiavdf_mpz_bitlen_nonneg, from the top limb.
bitlen(n) ==
  IF Limbs(n) = 0 THEN 1
  ELSE (Limbs(n) - 1) * LimbBits + num_bits(Limb(n, Limbs(n) - 1))

\* chiavdf_mpz_extract_uword_from_shift_nonneg: one word out of two limbs.
extract_uword(n, shift_bits) ==
  LET i == shift_bits \div LimbBits
      off == shift_bits % LimbBits
  IN  IF shift_bits <= 0 THEN Limb(n, 0)
      ELSE IF off = 0 THEN Limb(n, i)
      ELSE Shifted(Limb(n, i), off)
             + ((Limb(n, i + 1) * 2^(LimbBits - off)) % 2^LimbBits)

\* Mutant: the test that keeps the quotients of the words right is dropped.
QuotientUnsafeNever(i, w, t1, t2, t3) == FALSE

\* The quotient of the words may differ from that of the numbers.
QuotientUnsafe(i, w, t1, t2, t3) ==
  IF i % 2 = 1 THEN t1 < -t3 \/ w.rr1 - t1 < t2 - w.aa1
  ELSE t1 < -t2 \/ w.rr1 - t1 < t3 - w.bb1

\* The steps of the gcd on single words.
RECURSIVE WordSteps(_, _, _)
WordSteps(i, w, bb) ==
  IF w.rr1 = 0 \/ w.rr1 <= bb THEN [i |-> i, w |-> w]
  ELSE LET qq == w.rr2 \div w.rr1
           t1 == w.rr2 - qq * w.rr1
           t2 == w.aa2 - qq * w.aa1
           t3 == w.bb2 - qq * w.bb1
       IN  IF QuotientUnsafe(i, w, t1, t2, t3) THEN [i |-> i, w |-> w]
           ELSE WordSteps(i + 1,
                  [rr2 |-> w.rr1, rr1 |-> t1, aa2 |-> w.aa1, aa1 |-> t2,
                   bb2 |-> w.bb1, bb1 |-> t3], bb)

NonNegative(r, co) == IF r < 0 THEN [r |-> -r, co |-> -co] ELSE [r |-> r, co |-> co]

RECURSIVE XgcdPartialLoop(_, _)
XgcdPartialLoop(g, L) ==
  IF g.r1 = 0 \/ g.r1 <= L THEN g
  ELSE LET bits == Larger(Larger(bitlen(g.r2), bitlen(g.r1)) - LimbBits + 1, 0)
           run == WordSteps(0,
                    [rr2 |-> extract_uword(g.r2, bits),
                     rr1 |-> extract_uword(g.r1, bits),
                     aa2 |-> 0, aa1 |-> 1, bb2 |-> 1, bb1 |-> 0],
                    extract_uword(L, bits))
           w == run.w
           one == NonNegative(g.r1 * w.aa1 + g.r2 * w.bb1,
                              g.co1 * w.aa1 + g.co2 * w.bb1)
           two == NonNegative(g.r2 * w.bb2 + g.r1 * w.aa2,
                              g.co2 * w.bb2 + g.co1 * w.aa2)
           q == g.r2 \div g.r1
       IN  XgcdPartialLoop(
             IF run.i = 0
               THEN [r2 |-> g.r1, r1 |-> g.r2 % g.r1,
                     co2 |-> g.co1, co1 |-> g.co2 - g.co1 * q]
               ELSE [r2 |-> two.r, r1 |-> one.r, co2 |-> two.co, co1 |-> one.co],
             L)

\* mpz_xgcd_partial; r2 is never negative in the end.
xgcd_partial(r2, r1, L) ==
  XgcdPartialLoop([r2 |-> r2, r1 |-> r1, co2 |-> 0, co1 |-> -1], L)

----------------------------------------------------------------------------
(***************************************************************************)
(* nucomp.h                                                                *)
(***************************************************************************)

Positive(a, b, c) == IF a < 0 THEN Form(-a, b, -c) ELSE Form(a, b, c)

\* Mutant: the last gcd of the composition is taken as one.
NeedsSecondGcdNever(sp) == FALSE

NeedsSecondGcd(sp) == sp # 1

nucomp_ordered(f, g, D, L) ==
  LET ss == (f.b + g.b) \div 2
      m == (f.b - g.b) \div 2
      t == g.a % f.a
      first == IF t = 0 THEN [gcd |-> f.a, s |-> 0] ELSE gcd(t, f.a)
      sp == first.gcd
      k0 == (m * first.s) % f.a
      second == gcd(ss, sp)
      s == IF NeedsSecondGcd(sp) THEN second.gcd ELSE 1
      a1 == f.a \div s
      a2 == g.a \div s
      c2 == g.c * s
      k == IF NeedsSecondGcd(sp)
             THEN (k0 * second.t - second.s * g.c) % a1 ELSE k0
      x == xgcd_partial(a1, k, L)
      m1 == FDiv(m * x.co1 + a2 * x.r1, a1)
      m2 == FDiv(ss * x.r1 - c2 * x.co1, a1)
      ca == -(IF x.co1 < 0 THEN -1 ELSE 1) * (x.r1 * m1 - x.co1 * m2)
      cb == FRem(FDiv(2 * (a2 * x.r1 - ca * x.co2), x.co1) - g.b, 2 * ca)
  IN  IF a1 < L
        THEN Form(a2 * a1, 2 * a2 * k + g.b, ((g.b + a2 * k) * k + c2) \div a1)
        ELSE Positive(ca, cb, FDiv(cb * cb - D, ca) \div 4)

\* qfb_nucomp exchanges its arguments first.
nucomp(f, g, D, L) ==
  IF f.a > g.a THEN nucomp_ordered(g, f, D, L) ELSE nucomp_ordered(f, g, D, L)

\* s = gcd(|b|, a), and the coefficient of b.
Bezout(f) ==
  LET r == gcd(Abs(f.b), f.a) IN IF f.b < 0 THEN [r EXCEPT !.s = -@] ELSE r

nudupl(f, D, L) ==
  LET r == Bezout(f)
      a1 == f.a \div r.gcd
      c1 == f.c * r.gcd
      k0 == -(r.s * f.c) - a1 * TDiv(-(r.s * f.c), a1)
      k == IF k0 < 0 THEN k0 + a1 ELSE k0
      x == xgcd_partial(a1, k, L)
      m2 == FDiv(f.b * x.r1 - c1 * x.co1, a1)
      ca == (IF x.co1 >= 0 THEN -1 ELSE 1) * (x.r1 * x.r1 - x.co1 * m2)
      cb == FRem(FDiv(2 * (a1 * x.r1 - ca * x.co2), x.co1) - f.b, 2 * ca)
  IN  IF a1 < L
        THEN Form(a1 * a1, 2 * a1 * k + f.b, ((f.b + a1 * k) * k + c1) \div a1)
        ELSE Positive(ca, cb, TDiv(FDiv(cb * cb - D, ca), 4))

----------------------------------------------------------------------------
(***************************************************************************)
(* Reducer.h                                                               *)
(***************************************************************************)

THRESH == 2^(LimbBits \div 2 - 1)
EXP_THRESH == LimbBits \div 2 - 1

signed_shift(op, shift) ==
  IF shift > 0 THEN op * 2^shift
  ELSE IF shift <= -LimbBits THEN 0 ELSE Shifted(op, -shift)

\* mpz_get_si_2exp: r * 2^exp approximates op.
get_si_2exp(op) ==
  LET size == Limbs(op)
      last == Limb(op, size - 1)
      lg2 == IF op = 0 THEN 0 ELSE num_bits(last)
      r == signed_shift(last, LimbBits - 1 - lg2)
             + (IF size > 1 THEN signed_shift(Limb(op, size - 2), -1 - lg2) ELSE 0)
  IN  [r |-> IF op < 0 THEN -r ELSE r,
       exp |-> lg2 + (IF size > 1 THEN (size - 1) * LimbBits ELSE 0)]

\* isReduced also puts a form that is nearly reduced in order.
Settled(f) == Abs(f.a) >= Abs(f.b) /\ Abs(f.c) >= Abs(f.b)
Ordered(f) ==
  IF f.a > f.c THEN Form(f.c, -f.b, f.a)
  ELSE IF f.a = f.c /\ f.b < 0 THEN Form(f.a, -f.b, f.c) ELSE f

\* reducer: one exact step.
ReducerStep(f) ==
  LET s == (FDiv(f.b, f.c) + 1) \div 2
  IN  Form(f.c, 2 * f.c * s - f.b, f.a + s * (f.c * s - f.b))

\* (abs(v) | abs(x)) <= THRESH, for a power of two.
BelowThreshold(v, x) ==
  \/ Abs(v) < THRESH /\ Abs(x) < THRESH
  \/ {Abs(v), Abs(x)} \subseteq {0, THRESH}

\* The steps on words, until a product would no longer fit.
RECURSIVE UvwxLoop(_, _)
UvwxLoop(m, w) ==
  LET s == IF w.b >= 0 THEN (w.b + w.c) \div (2 * w.c)
           ELSE -((-w.b + w.c) \div (2 * w.c))
      next == [a |-> w.c, b |-> -w.b + 2 * w.c * s,
               c |-> w.a - s * (w.b - w.c * s)]
      step == [u |-> m.v, v |-> -m.u + s * m.v, w |-> m.x, x |-> -m.w + s * m.x]
  IN  IF ~BelowThreshold(step.v, step.x) THEN m
      ELSE IF next.a > next.c /\ next.c > 0 THEN UvwxLoop(step, next) ELSE step

calc_uvwx(w) == UvwxLoop([u |-> 1, v |-> 0, w |-> 0, x |-> 1], w)

Transformed(f, m) ==
  Form(f.a * m.u * m.u + f.b * m.u * m.w + f.c * m.w * m.w,
       2 * f.a * m.u * m.v + f.b * (m.u * m.x + m.v * m.w) + 2 * f.c * m.w * m.x,
       f.a * m.v * m.v + f.b * m.v * m.x + f.c * m.x * m.x)

RECURSIVE Run(_)
Run(f) ==
  LET a == get_si_2exp(f.a)
      b == get_si_2exp(f.b)
      c == get_si_2exp(f.c)
      most == Larger(Larger(a.exp, b.exp), c.exp)
      least == Smaller(Smaller(a.exp, b.exp), c.exp)
      Word(n) == Shifted(n.r, most + 1 - n.exp)
  IN  IF Settled(f) THEN Ordered(f)
      ELSE IF most - least > EXP_THRESH THEN Run(ReducerStep(f))
      ELSE Run(Transformed(f, calc_uvwx([a |-> Word(a), b |-> Word(b), c |-> Word(c)])))

\* PulmarkReducer::reduce.
PulmarkReduce(f) == Run(f)

----------------------------------------------------------------------------
(***************************************************************************)
(* proof_common.h: exponentiation                                          *)
(***************************************************************************)

bit(n, i) == Shifted(n, i) % 2

RECURSIVE PowLoop(_, _, _, _, _, _)
PowLoop(res, x, D, n, L, i) ==
  IF i < 0 THEN res
  ELSE LET sq == nudupl(res, D, L)
           red == IF Limbs(sq.a) > Limbs(D) \div 2 THEN PulmarkReduce(sq) ELSE sq
       IN  PowLoop(IF bit(n, i) = 1 THEN nucomp(red, x, D, L) ELSE red,
                   x, D, n, L, i - 1)

FastPowFormNucomp(x, D, num_iterations, L) ==
  IF num_iterations = 0 THEN identity(D)
  ELSE PulmarkReduce(PowLoop(x, x, D, num_iterations, L, num_bits(num_iterations) - 2))

=============================================================================
