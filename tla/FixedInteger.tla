---------------------------- MODULE FixedInteger ----------------------------
(***************************************************************************)
(* The integers of a fixed number of limbs that the test build computes    *)
(* with, sign and magnitude, on limbs of w bits: w is WordBits for uint64  *)
(* and half of it for uint32.                                              *)
(***************************************************************************)
EXTENDS Integers, Sequences

CONSTANTS
  WordBits,       \* 64: bits of a machine word
  FractionBits    \* 52: bits of the fraction of a double

ASSUME WordAssumption ==
  /\ WordBits \in Nat /\ WordBits % 2 = 0
  /\ FractionBits \in Nat /\ FractionBits + 1 < WordBits /\ FractionBits >= WordBits \div 2

HalfBits == WordBits \div 2

\* TLC evaluates a tuple once, and a function whenever it is applied.
Tuple(f) == SubSeq(f, 1, Len(f))

Fixed(neg, d) == [neg |-> neg, d |-> Tuple(d)]
Zeros(n) == [x \in 1 .. n |-> 0]
At(d, x) == IF x \in 1 .. Len(d) THEN d[x] ELSE 0
Resized(a, n) == Fixed(a.neg, [x \in 1 .. n |-> At(a.d, x)])
RECURSIVE Digits(_, _, _)
Digits(w, v, n) == IF n = 0 THEN <<>> ELSE <<v % 2^w>> \o Digits(w, v \div 2^w, n - 1)
FixedOf(w, i, n) == Fixed(i < 0, Digits(w, IF i < 0 THEN -i ELSE i, n))

RECURSIVE Magnitude(_, _)
Magnitude(w, d) == IF d = <<>> THEN 0 ELSE Head(d) + 2^w * Magnitude(w, Tail(d))
ToInteger(w, a) == IF a.neg THEN -Magnitude(w, a.d) ELSE Magnitude(w, a.d)

is_zero(a) == \A x \in DOMAIN a.d : At(a.d, x) = 0
is_negative(a) == a.neg /\ ~is_zero(a)

----------------------------------------------------------------------------
(***************************************************************************)
(* Sums and products                                                       *)
(***************************************************************************)

\* add_carry from limb to limb.
RECURSIVE AddFrom(_, _, _, _, _)
AddFrom(w, a, b, sum, n) ==
  LET x == Len(sum.d) + 1
      v == At(a, x) + At(b, x) + sum.carry
  IN  IF x > n THEN sum
      ELSE AddFrom(w, a, b, [d |-> Append(sum.d, v % 2^w), carry |-> v \div 2^w], n)
AddLimbs(w, a, b, carry_in, n) ==
  AddFrom(w, Tuple(a), Tuple(b), [d |-> <<>>, carry |-> carry_in], n)

Complement(w, d, n) == [x \in 1 .. n |-> 2^w - 1 - At(d, x)]

\* -1, 0 or 1: `this calculates |a|-|b|'.
compare(w, a, b) ==
  LET n == Len(a.d)
      s == AddLimbs(w, a.d, Complement(w, b.d, n), 1, n)
      res == IF s.carry = 0 THEN -1 ELSE IF s.d = Zeros(n) THEN 0 ELSE 1
  IN  CASE a.neg = b.neg -> IF a.neg THEN -res ELSE res
        [] res = 0       -> 0
        [] OTHER         -> IF a.neg THEN -1 ELSE 1

\* add: of two numbers of opposite signs the one whose two leading limbs are less
\* is subtracted, and a result below zero is negated.
add(w, a, b, n) ==
  LET longer == IF Len(b.d) > Len(a.d) THEN b ELSE a
      other  == IF Len(b.d) > Len(a.d) THEN a ELSE b
      k == Len(longer.d)
      a_less_than_b ==
        /\ Len(other.d) = k
        /\ IF At(longer.d, k) = At(other.d, k) /\ k >= 2 THEN At(longer.d, k - 1) < At(other.d, k - 1)
           ELSE At(longer.d, k) < At(other.d, k)
      p == IF a_less_than_b THEN other ELSE longer
      m == IF a_less_than_b THEN longer ELSE other
      mask == a.neg # b.neg
      s == AddLimbs(w, p.d, IF mask THEN Complement(w, m.d, n) ELSE m.d,
                    IF mask THEN 1 ELSE 0, n)
  IN  IF mask /\ s.carry = 0
      THEN Fixed(~p.neg, AddLimbs(w, Complement(w, s.d, n), <<1>>, 0, n).d)
      ELSE Fixed(p.neg, s.d)

Negated(a) == Fixed(~a.neg, a.d)

\* mad: a * b + c in n limbs, the high halves carried into the next limb.
mad(w, a, b, c, n) ==
  LET low  == [x \in 1 .. n |-> (At(a, x) * b) % 2^w]
      high == [x \in 1 .. n |-> (At(a, x - 1) * b) \div 2^w]
  IN  AddLimbs(w, AddLimbs(w, low, high, 0, n).d, c, 0, n).d

\* operator*= truncates.
Scaled(w, a, v) == Fixed(a.neg, mad(w, a.d, v, <<>>, Len(a.d)))

left_shift_limbs(d, amount) == Tuple([x \in 1 .. Len(d) |-> At(d, x - amount)])
right_shift_limbs(d, amount) == Tuple([x \in 1 .. Len(d) |-> At(d, x + amount)])

LeftShift(w, d, amount) ==
  Tuple([x \in 1 .. Len(d) |->
           ((At(d, x) * 2^amount) % 2^w) + At(d, x - 1) \div 2^(w - amount)])
RightShift(w, d, amount) ==
  Tuple([x \in 1 .. Len(d) |->
           At(d, x) \div 2^amount + ((At(d, x + 1) * 2^(w - amount)) % 2^w)])

\* operator*: row by row.
RECURSIVE Rows(_, _, _, _)
Rows(w, a, b, x) ==
  IF x = 0 THEN Fixed(FALSE, Zeros(Len(a.d) + Len(b.d)))
  ELSE LET n == Len(a.d) + Len(b.d)
           r == left_shift_limbs(mad(w, a.d, At(b.d, x), <<>>, n), x - 1)
       IN  add(w, Rows(w, a, b, x - 1), Fixed(FALSE, r), n)
Times(w, a, b) == Fixed(a.neg # b.neg, Rows(w, a, b, Len(b.d)).d)

LOG2[v \in Nat] == IF v <= 1 THEN 0 ELSE 1 + LOG2[v \div 2]
bsr(v) == LOG2[v]
clz(w, v) == IF v = 0 THEN w ELSE w - 1 - bsr(v)

\* `"0" has 1 bit'.
num_full(a) ==
  IF is_zero(a) THEN 1
  ELSE CHOOSE x \in 1 .. Len(a.d) : At(a.d, x) # 0 /\ \A y \in x + 1 .. Len(a.d) : At(a.d, y) = 0
FixedBits(w, a) == (num_full(a) - 1) * w + bsr(At(a.d, num_full(a))) + 1

\* w bits from start_bit on.
window(w, a, start_bit) ==
  LET limb == start_bit \div w + 1
      offset == start_bit % w
  IN  At(a.d, limb) \div 2^offset
        + (IF offset = 0 THEN 0 ELSE (At(a.d, limb + 1) * 2^(w - offset)) % 2^w)

----------------------------------------------------------------------------
(***************************************************************************)
(* Division                                                                *)
(***************************************************************************)

\* The divisor with its leading bit set.
RECURSIVE LimbsShifted(_, _)
LimbsShifted(d, n) ==
  IF n = Len(d) \/ At(d, Len(d)) # 0 THEN [d |-> d, limbs |-> n]
  ELSE LimbsShifted(left_shift_limbs(d, 1), n + 1)
normalize_divisor(w, b) ==
  LET s == LimbsShifted(b.d, 0)
      bits == clz(w, At(s.d, Len(s.d)))
  IN  [b |-> Fixed(FALSE, LeftShift(w, s.d, bits)), limbs |-> s.limbs, bits |-> bits]

\* calculate_reciprocal(uint32): at least the reciprocal, from the leading bits
\* less one, as a double.
calculate_reciprocal_32(high, low) ==
  LET both == ((low + high * 2^HalfBits) \div 2^(WordBits - FractionBits - 1)) % 2^FractionBits
      x == 2^FractionBits + both - 1
      bits == (2^(2 * FractionBits + 1) \div x) % 2^FractionBits
  IN  IF both <= 1 THEN 2^(WordBits - 1)
      ELSE (2^FractionBits + bits + 1) * 2^(WordBits - 2 - FractionBits)

calculate_quotient_32(high, low, reciprocal) ==
  LET res == (((low + high * 2^HalfBits) * reciprocal) \div 2^WordBits + 1)
               \div 2^(HalfBits - 2)
  IN  IF res >= 2^HalfBits THEN 2^HalfBits - 1 ELSE res

\* The same from a reciprocal of two words.
calculate_quotient_64(high, low, reciprocal) ==
  LET product_both == Times(WordBits, Fixed(FALSE, <<low, high>>), reciprocal).d
      product_high == RightShift(WordBits,
                        AddLimbs(WordBits, right_shift_limbs(product_both, 2), <<1>>, 0, 2).d,
                        WordBits - 2)
  IN  IF At(product_high, 2) # 0 THEN 2^WordBits - 1 ELSE At(product_high, 1)

calculate_quotient(w, high, low, reciprocal) ==
  IF w = HalfBits THEN calculate_quotient_32(high, low, reciprocal)
  ELSE calculate_quotient_64(high, low, reciprocal)

\* The quotients limb by limb, each corrected while the rest is negative.
RECURSIVE Corrected(_, _, _, _)
Corrected(w, a, b_shifted, qj) ==
  IF is_negative(a) THEN Corrected(w, add(w, a, b_shifted, Len(a.d)), b_shifted, qj - 1)
  ELSE [a |-> a, qj |-> qj]

RECURSIVE QuotientLimbs(_, _, _, _, _, _, _)
QuotientLimbs(w, a, b_shifted, reciprocal, res, x, size) ==
  IF x >= size THEN [a |-> a, res |-> res]
  ELSE LET n == Len(a.d)
           qj == calculate_quotient(w, At(a.d, n - x), At(a.d, n - 1 - x), reciprocal)
           c == Corrected(w, add(w, a, Negated(Scaled(w, b_shifted, qj)), n), b_shifted, qj)
       IN  QuotientLimbs(w, c.a, Fixed(FALSE, right_shift_limbs(b_shifted.d, 1)), reciprocal,
                         [res EXCEPT ![n - 1 - x] = c.qj], x + 1, size)

divide_integers_impl(w, a, b, b_shift_limbs, reciprocal) ==
  LET n == Len(a.d)
      max_quotient_size == n - 1
      quotient_size == n - (Len(b.d) - b_shift_limbs)
      steps == IF quotient_size < max_quotient_size THEN quotient_size ELSE max_quotient_size
      s == QuotientLimbs(w, a,
             Fixed(FALSE, left_shift_limbs(Resized(b, n).d, n - Len(b.d) - 1)),
             reciprocal, Zeros(max_quotient_size), 0, steps)
  IN  [q |-> right_shift_limbs(s.res, max_quotient_size - steps),
       r |-> Resized(s.a, Len(b.d)).d]

\* divide_integers: the quotient rounded down, the remainder with the sign of b.
SignedDivision(w, a, b, reciprocal) ==
  LET m == Len(a.d)
      k == Len(b.d)
      norm == normalize_divisor(w, b)
      shifted == Fixed(FALSE, LeftShift(w, Resized(a, m + 1).d, norm.bits))
      u == divide_integers_impl(w, shifted, norm.b, norm.limbs, reciprocal)
      r == Fixed(FALSE, RightShift(w, u.r, norm.bits))
      q == Fixed(FALSE, u.q)
      one == FixedOf(w, 1, m)
  IN  CASE is_negative(a) = is_negative(b) -> [q |-> q, r |-> Fixed(is_negative(b), r.d)]
        [] is_negative(a) # is_negative(b) /\ is_zero(r) ->
             [q |-> Negated(q), r |-> Fixed(is_negative(b), r.d)]
        [] OTHER ->
             [q |-> Negated(Resized(add(w, q, one, m + 1), m)),
              r |-> Fixed(is_negative(b),
                          Resized(add(w, Fixed(FALSE, b.d), Negated(r), k + 1), k).d)]

Leading(b) == <<At(b.d, Len(b.d)), At(b.d, Len(b.d) - 1)>>

DivideHalves(a, b) ==
  LET top == Leading(normalize_divisor(HalfBits, b).b)
  IN  SignedDivision(HalfBits, a, b, calculate_reciprocal_32(top[1], top[2]))

\* calculate_reciprocal(uint64): 2^191 divided in limbs of half a word by the
\* leading one and a half words less one.
calculate_reciprocal_64(high, low) ==
  LET a == Fixed(FALSE, [Zeros(6) EXCEPT ![6] = 2^(HalfBits - 1)])
      b == FixedOf(HalfBits, low \div 2^HalfBits + high * 2^HalfBits - 1, 3)
      q == Resized(add(HalfBits, DivideHalves(a, b).q, FixedOf(HalfBits, 1, 6), 7), 6).d
      words == [x \in 1 .. 4 |-> At(q, 2 * x - 1) + At(q, 2 * x) * 2^HalfBits]
  IN  Resized(Fixed(FALSE, LeftShift(WordBits, words, HalfBits - 1)), 2)

\* divide_integers of uint64 limbs.
DivideWords(a, b) ==
  LET top == Leading(normalize_divisor(WordBits, b).b)
  IN  SignedDivision(WordBits, a, b, calculate_reciprocal_64(top[1], top[2]))

=============================================================================
