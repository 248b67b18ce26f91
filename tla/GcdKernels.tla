----------------------------- MODULE GcdKernels -----------------------------
(***************************************************************************)
(* The partial gcd in three layers: quotients from doubles and a table of  *)
(* continued fractions, a gcd of two words, and the gcd of long integers   *)
(* that takes its quotients from the leading two words (Lehmer).           *)
(*                                                                         *)
(* A double of at least one is its bit pattern less that of 1.0; the other *)
(* doubles of this code are integers.  Rounding is towards zero.           *)
(***************************************************************************)
EXTENDS FixedInteger, SequencesExt

CONSTANTS
  BaseBits,            \* 50: gcd_base_bits of the continued fractions
  TableExponentBits,   \* 3
  TableFractionBits,   \* 7
  gcd_base_max_iter,   \* 5
  gcd_128_max_iter     \* 3

ASSUME KernelAssumption ==
  /\ BaseBits \in Nat /\ BaseBits <= FractionBits
  /\ TableExponentBits \in Nat /\ TableFractionBits = 2^TableExponentBits - 1
  /\ TableFractionBits < FractionBits
  /\ gcd_base_max_iter \in Nat \ {0} /\ gcd_128_max_iter \in Nat \ {0}

Magn(n) == IF n < 0 THEN -n ELSE n
AsDouble(n) ==
  LET k == bsr(Magn(n)) - FractionBits
  IN  IF k <= 0 THEN n
      ELSE (IF n < 0 THEN -1 ELSE 1) * (Magn(n) \div 2^k) * 2^k

\* n / d for n >= d.
DoubleOf(n, d) ==
  LET e == bsr(n \div d)
  IN  e * 2^FractionBits + (n * 2^FractionBits) \div (d * 2^e) - 2^FractionBits
ExactDouble(n, d) ==
  LET e == bsr(n \div d) IN (n * 2^FractionBits) % (d * 2^e) = 0
Floor(q) ==
  ((2^FractionBits + (q % 2^FractionBits)) * 2^(q \div 2^FractionBits)) \div 2^FractionBits
Infinity == 2^(FractionBits + TableExponentBits + 4)

\* u_0, v_0: first row; u_1, v_1: second row.
Matrix(u0, v0, u1, v1) == [u0 |-> u0, v0 |-> v0, u1 |-> u1, v1 |-> v1]
identity_matrix == Matrix(1, 0, 0, 1)
quotient_matrix(q) == Matrix(0, 1, 1, -q)

range_check(v) == Magn(v) <= 2^(FractionBits + 1) - 1

\* x * y + z * w.
dot_product_exact(x, y, z, w, fma) ==
  LET p == AsDouble(x * y)
      q == AsDouble(z * w)
      v == IF fma THEN AsDouble(p + z * w) ELSE AsDouble(p + q)
  IN  [ok |-> range_check(p) /\ (fma \/ range_check(q)) /\ range_check(v), v |-> v]

\* The same of words.
dot_product_words(x, y, z, w) ==
  [ok |-> x * y < 2^WordBits /\ z * w < 2^WordBits /\ x * y + z * w < 2^WordBits,
   v |-> (x * y + z * w) % 2^WordBits]

Entries(e) ==
  [ok |-> \A i \in 1 .. 4 : e[i].ok, m |-> Matrix(e[1].v, e[2].v, e[3].v, e[4].v)]
multiply_exact(m, n, fma) ==
  Entries(<<dot_product_exact(m.u0, n.u0, m.v0, n.u1, fma),
            dot_product_exact(m.u0, n.v0, m.v0, n.v1, fma),
            dot_product_exact(m.u1, n.u0, m.v1, n.u1, fma),
            dot_product_exact(m.u1, n.v0, m.v1, n.v1, fma)>>)
multiply_words(m, n) ==
  Entries(<<dot_product_words(m.u0, n.u0, m.v0, n.u1),
            dot_product_words(m.u0, n.v0, m.v0, n.v1),
            dot_product_words(m.u1, n.u0, m.v1, n.u1),
            dot_product_words(m.u1, n.v0, m.v1, n.v1)>>)

Pair(a, b) == [a |-> a, b |-> b]

----------------------------------------------------------------------------
(***************************************************************************)
(* The table of continued fractions                                        *)
(***************************************************************************)

MatrixOf[values \in Seq(Nat)] ==
  IF values = <<>> THEN identity_matrix
  ELSE multiply_exact(quotient_matrix(Last(values)), MatrixOf[Front(values)], FALSE).m
get_matrix(values) == MatrixOf[values]

\* The longest part whose matrix is in range.
truncate(values) ==
  LET InRange(n) ==
        LET m == get_matrix(SubSeq(values, 1, n))
        IN  \A v \in {m.u0, m.v0, m.u1, m.v1} : Magn(v) <= 2^(FractionBits + 1)
  IN  SubSeq(values, 1, CHOOSE n \in 0 .. Len(values) :
                          InRange(n) /\ \A k \in n + 1 .. Len(values) : ~InRange(k))

\* One end of the numbers whose continued fraction begins with values.
FractionBound[values \in Seq(Nat), parity \in {0, 1}] ==
  IF Len(values) = 1 THEN Pair(Head(values) + parity, 1)
  ELSE LET r == FractionBound[Tail(values), parity] IN Pair(Head(values) * r.a + r.b, r.a)

\* >= first, < second.
get_bound(values) ==
  LET r0 == FractionBound[values, 0]
      r1 == FractionBound[values, 1]
      low  == IF DoubleOf(r0.a, r0.b) > DoubleOf(r1.a, r1.b) THEN r1 ELSE r0
      high == IF DoubleOf(r0.a, r0.b) > DoubleOf(r1.a, r1.b) THEN r0 ELSE r1
  IN  Pair(DoubleOf(low.a, low.b) + (IF ExactDouble(low.a, low.b) THEN 0 ELSE 1),
           DoubleOf(high.a, high.b) + 1)

Slots == 2^(TableExponentBits + TableFractionBits)
delta == 2^(FractionBits - TableFractionBits)
index_range(x) == Pair(x * delta, (x + 1) * delta)

\* The slots inside the range; refused when the range is narrower than half a slot.
assign(table, range, value) ==
  [ok |-> /\ range.a <= Slots * delta
          /\ range.b > range.a /\ 2 * (range.b - range.a) >= delta,
   table |-> Tuple([x \in 1 .. Slots |->
               LET slot == index_range(x - 1)
               IN  IF range.a <= slot.a /\ range.b >= slot.b THEN value ELSE table[x]])]

add_to_table(table, f) == assign(table, get_bound(f), f)

\* f, its children, then its next sibling.
AddWithSiblings[table \in Seq(Seq(Nat)), f \in Seq(Nat)] ==
  LET added == add_to_table(table, f)
  IN  IF ~added.ok THEN table
      ELSE AddWithSiblings[AddWithSiblings[added.table, Append(f, 1)],
                           Append(Front(f), Last(f) + 1)]
add_children_to_table(table, f) == AddWithSiblings[table, Append(f, 1)]

generate_table ==
  LET full == add_children_to_table(Tuple([x \in 1 .. Slots |-> <<>>]), <<>>)
  IN  Tuple([x \in 1 .. Slots |-> truncate(full[x])])

c_table == generate_table

\* Mutant: quotients next to the end of a slot are looked up as well.
LookupAnywhere(q) == IF q \div delta >= Slots THEN <<>> ELSE c_table[q \div delta + 1]
\* <<>> when the quotient is beyond the table or next to the end of a slot.
lookup(q) ==
  IF q \div delta >= Slots \/ q % delta \in {0, delta - 1} THEN <<>>
  ELSE c_table[q \div delta + 1]

----------------------------------------------------------------------------
(***************************************************************************)
(* Quotients of doubles                                                    *)
(***************************************************************************)

\* `if this returns false then the new values are invalid'.
check_lehmer(ab, uv) ==
  /\ ab.b >= -uv.u1 /\ ab.a - ab.b >= uv.v1 - uv.v0
  /\ ab.b >= -uv.v1 /\ ab.a - ab.b >= uv.u1 - uv.u0

\* The same of doubles, whose sums are rounded.
LehmerPassed(ab, uv) ==
  /\ ab.b >= -uv.u1 /\ AsDouble(ab.a - ab.b + uv.v0) >= uv.v1
  /\ ab.b >= -uv.v1 /\ AsDouble(ab.a - ab.b + uv.u0) >= uv.u1

Reduced(m, ab, uv, fma) ==
  LET a == dot_product_exact(m.u0, ab.a, m.v0, ab.b, fma)
      b == dot_product_exact(m.u1, ab.a, m.v1, ab.b, fma)
      w == multiply_exact(m, uv, fma)
  IN  [ok |-> a.ok /\ b.ok /\ w.ok, ab |-> Pair(a.v, b.v), uv |-> w.m]

\* The quotients of the table if they are exact and a stays above the threshold,
\* and one quotient otherwise.
NextQuotients(ab, uv, threshold, fma) ==
  LET q == DoubleOf(ab.a, ab.b)
      f == lookup(q)
      tabled == Reduced(get_matrix(f), ab, uv, fma)
  IN  IF f # <<>> /\ tabled.ok /\ tabled.ab.a > threshold THEN tabled
      ELSE Reduced(quotient_matrix(Floor(q)), ab, uv, fma)

RECURSIVE BaseLoop(_, _, _, _)
BaseLoop(s, is_lehmer, threshold, fma) ==
  LET new == NextQuotients(s.ab, s.uv, threshold, fma)
  IN  IF \/ s.ab.b <= threshold \/ s.iter >= gcd_base_max_iter
         \/ ~new.ok \/ (is_lehmer /\ ~LehmerPassed(new.ab, new.uv))
      THEN s
      ELSE BaseLoop([ab |-> new.ab, uv |-> new.uv, iter |-> s.iter + 1],
                    is_lehmer, threshold, fma)
gcd_base_continued_fraction(ab, is_lehmer, threshold, fma) ==
  BaseLoop([ab |-> ab, uv |-> identity_matrix, iter |-> 0], is_lehmer, threshold, fma)

\* One quotient at a time, on integers; all of the quotients it takes.
IsDouble(v) == AsDouble(v) = v
RECURSIVE BaseStages(_, _, _, _)
BaseStages(ab, uv, is_lehmer, threshold) ==
  LET q == ab.a \div ab.b
      new == Pair(ab.b, ab.a - q * ab.b)
      w == Matrix(uv.u1, uv.v1, uv.u0 - q * uv.u1, uv.v0 - q * uv.v1)
  IN  {[ab |-> ab, uv |-> uv]} \union
      (IF \/ ab.b <= threshold \/ (is_lehmer /\ ~check_lehmer(new, w))
          \/ \E v \in {new.a, new.b, w.u0, w.v0, w.u1, w.v1} : ~IsDouble(v)
       THEN {} ELSE BaseStages(new, w, is_lehmer, threshold))
gcd_base_continued_fraction_2(ab, is_lehmer, threshold) ==
  BaseStages(ab, identity_matrix, is_lehmer, threshold)

----------------------------------------------------------------------------
(***************************************************************************)
(* Two words                                                               *)
(***************************************************************************)

MinBits == 3 * HalfBits   \* 96

ShiftAmount(a, is_lehmer, base_bits) ==
  LET a_num_bits == bsr(a) + 1
      bits == IF is_lehmer /\ a_num_bits < MinBits THEN MinBits ELSE a_num_bits
  IN  IF bits < base_bits THEN 0 ELSE bits - base_bits

Unsigned(m) == Matrix(Magn(m.u0), Magn(m.v0), Magn(m.u1), Magn(m.v1))

\* The remainders of the start values, modulo two words.
TimesWord(v, word) ==
  ((v % 2^WordBits) * word + (((v \div 2^WordBits) * word) % 2^WordBits) * 2^WordBits)
    % 2^(2 * WordBits)
RemaindersOf(start, uv, even) ==
  LET s == IF even THEN 1 ELSE -1
      Subtracted(v, w) == (s * (v - w)) % 2^(2 * WordBits)
  IN  Pair(Subtracted(TimesWord(start.a, uv.u0), TimesWord(start.b, uv.v0)),
           Subtracted(TimesWord(start.b, uv.v1), TimesWord(start.a, uv.u1)))

\* Mutant: only the smaller remainder is tested.
LehmerOneSided(new, uv, even) ==
  IF even THEN new.b >= uv.u1 ELSE new.b >= uv.v1

\* The quotients hold for every continuation of the leading words.
LehmerWords(new, uv, even) ==
  IF even THEN new.b >= uv.u1 /\ new.a - new.b >= uv.v1 + uv.v0
  ELSE new.b >= uv.v1 /\ new.a - new.b >= uv.u1 + uv.u0

RECURSIVE Loop128(_, _, _, _, _)
Loop128(s, start, is_lehmer, threshold, fma) ==
  LET shift == ShiftAmount(s.ab.a, is_lehmer, BaseBits)
      base == gcd_base_continued_fraction(Pair(s.ab.a \div 2^shift, s.ab.b \div 2^shift),
                is_lehmer \/ shift # 0, threshold \div 2^shift, fma)
      uv == IF s.iter = 0 THEN [ok |-> TRUE, m |-> Unsigned(base.uv)]
            ELSE multiply_words(Unsigned(base.uv), s.uv)
      parity == (s.parity + (IF base.uv.v1 < 0 THEN 1 ELSE 0)) % 2
      new == RemaindersOf(start, uv.m, parity = 0)
  IN  IF \/ s.ab.b <= threshold \/ s.iter >= gcd_128_max_iter
         \/ base.iter = 0 \/ ~uv.ok
         \/ (is_lehmer /\ ~LehmerWords(new, uv.m, parity = 0))
         \/ new.a <= threshold
      THEN s
      ELSE Loop128([ab |-> new, uv |-> uv.m, parity |-> parity, iter |-> s.iter + 1],
                   start, is_lehmer, threshold, fma)
gcd_128(ab, is_lehmer, threshold, fma) ==
  Loop128([ab |-> ab, uv |-> identity_matrix, parity |-> 0, iter |-> 0],
          ab, is_lehmer, threshold, fma)

----------------------------------------------------------------------------
(***************************************************************************)
(* Long integers                                                           *)
(***************************************************************************)

\* gcd_unsigned_slow, on integers.
RECURSIVE gcd_unsigned_slow(_, _, _, _)
gcd_unsigned_slow(ab, uv, parity, threshold) ==
  IF ab.b <= threshold THEN [ab |-> ab, uv |-> uv, parity |-> parity]
  ELSE gcd_unsigned_slow(Pair(ab.b, ab.a % ab.b),
                         Pair(uv.b, uv.a + (ab.a \div ab.b) * uv.b), -parity, threshold)

AtMost(a, b) == compare(WordBits, a, b) <= 0
Window128(a, shift) ==
  window(WordBits, a, shift) + window(WordBits, a, shift + WordBits) * 2^WordBits

\* x * a - y * b of long integers; both products are truncated to their size.
Difference(x, a, y, b) ==
  Resized(add(WordBits, Scaled(WordBits, a, x), Negated(Scaled(WordBits, b, y)),
              Len(a.d) + 1), Len(a.d))
Combination(x, a, y, b) ==
  Resized(add(WordBits, Scaled(WordBits, a, x), Scaled(WordBits, b, y), Len(a.d) + 1),
          Len(a.d))

NewRemainders(ab, uv, even) ==
  IF even THEN Pair(Difference(uv.u0, ab.a, uv.v0, ab.b), Difference(uv.v1, ab.b, uv.u1, ab.a))
  ELSE Pair(Difference(uv.v0, ab.b, uv.u0, ab.a), Difference(uv.u1, ab.a, uv.v1, ab.b))

\* Invalid: the loop of gcd_unsigned_slow gives the result instead.
RECURSIVE LoopUnsigned(_, _, _)
LoopUnsigned(s, threshold, fma) ==
  LET bits == FixedBits(WordBits, s.ab.a)
      shift == IF bits <= 2 * WordBits THEN 0 ELSE bits - 2 * WordBits
      head == gcd_128(Pair(Window128(s.ab.a, shift), Window128(s.ab.b, shift)),
                      shift # 0, Window128(threshold, shift), fma)
  IN  CASE AtMost(s.ab.a, threshold) -> [s EXCEPT !.valid = FALSE]
        [] ~AtMost(s.ab.a, threshold) /\ AtMost(s.ab.b, threshold) -> s
        [] OTHER ->
             IF head.iter = 0 THEN [s EXCEPT !.valid = FALSE]
             ELSE LoopUnsigned(
                    [s EXCEPT
                       !.ab = NewRemainders(@, head.uv, head.parity = 0),
                       !.uv = Pair(Combination(head.uv.u0, @.a, head.uv.v0, @.b),
                                   Combination(head.uv.u1, @.a, head.uv.v1, @.b)),
                       !.parity = IF head.parity = 0 THEN @ ELSE -@,
                       !.matricies = Append(@, [uv |-> head.uv, parity |-> head.parity])],
                    threshold, fma)
gcd_unsigned(ab, uv, parity, threshold, fma) ==
  LoopUnsigned([ab |-> ab, uv |-> uv, parity |-> parity, matricies |-> <<>>,
                valid |-> TRUE], threshold, fma)

\* The loop of gcd_unsigned_slow gives the values when the matrices do not.
GcdOrSlow(ab, uv, parity, threshold, size) ==
  LET Long(v) == FixedOf(WordBits, v, size)
      fast == gcd_unsigned(Pair(Long(ab.a), Long(ab.b)), Pair(Long(uv.a), Long(uv.b)), parity,
                           Long(threshold), FALSE)
      Values2(p) == Pair(ToInteger(WordBits, p.a), ToInteger(WordBits, p.b))
  IN  IF fast.valid THEN [ab |-> Values2(fast.ab), uv |-> Values2(fast.uv), parity |-> fast.parity]
      ELSE gcd_unsigned_slow(ab, uv, parity, threshold)

\* gcd of gpu_integer_gcd.h: the remainders around the threshold and the cofactors of
\* a or those of b.
SignedGcd(a, b, threshold, calculate_u, size) ==
  LET swapped == Magn(a) < b
      r == GcdOrSlow(IF swapped THEN Pair(b, Magn(a)) ELSE Pair(Magn(a), b),
                     IF swapped # calculate_u THEN Pair(1, 0) ELSE Pair(0, 1),
                     IF swapped THEN -1 ELSE 1, threshold, size)
      Sign(neg) == IF (a < 0) # neg THEN -1 ELSE 1
  IN  [gcd |-> r.ab.a, gcd_2 |-> r.ab.b,
       co   |-> Sign(r.parity = (IF calculate_u THEN -1 ELSE 1)) * r.uv.a,
       co_2 |-> Sign(r.parity = (IF calculate_u THEN 1 ELSE -1)) * r.uv.b]

=============================================================================
