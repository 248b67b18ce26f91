------------------------------- MODULE GcdAsm -------------------------------
(***************************************************************************)
(* The partial gcd as the generated assembly computes it.  There are two   *)
(* builds: `cel' takes its quotients from doubles and the table of         *)
(* continued fractions, `avx2' from a table of reciprocals, one at a time. *)
(***************************************************************************)
EXTENDS GcdKernels

CONSTANTS
  divide_table_index_bits,          \* 11
  gcd_base_max_iter_divide_table,   \* 16
  max_iterations                    \* 40: gcd_max_iterations

ASSUME AsmAssumption ==
  /\ divide_table_index_bits \in Nat \ {0} /\ divide_table_index_bits < WordBits
  /\ gcd_base_max_iter_divide_table \in Nat \ {0} /\ max_iterations \in Nat \ {0}

Builds == {"cel", "avx2"}
gcd_base_bits(build) == IF build = "avx2" THEN WordBits - 1 ELSE BaseBits
max_iter_128(build) == IF build = "avx2" THEN 2 ELSE gcd_128_max_iter

----------------------------------------------------------------------------
(***************************************************************************)
(* Quotients of doubles                                                    *)
(***************************************************************************)

\* The range of the remainders is not checked: `result_always_in_range'.
AsmDot(x, y, z, w, result_always_in_range) ==
  LET p == AsDouble(x * y)
      q == AsDouble(z * w)
      v == AsDouble(p + q)
  IN  [ok |-> range_check(p) /\ range_check(q) /\ (result_always_in_range \/ range_check(v)),
       v |-> v]

calculate_using_m(m, s) ==
  LET a == AsmDot(m.u0, s.ab.a, m.v0, s.ab.b, TRUE)
      b == AsmDot(m.u1, s.ab.a, m.v1, s.ab.b, TRUE)
      u0 == AsmDot(m.u0, s.uv.u0, m.v0, s.uv.u1, FALSE)
      u1 == AsmDot(m.u1, s.uv.u0, m.v1, s.uv.u1, FALSE)
      v0 == AsmDot(m.u0, s.uv.v0, m.v0, s.uv.v1, FALSE)
      v1 == AsmDot(m.u1, s.uv.v0, m.v1, s.uv.v1, FALSE)
  IN  [ok |-> a.ok /\ b.ok /\ u0.ok /\ u1.ok /\ v0.ok /\ v1.ok,
       ab |-> Pair(a.v, b.v), uv |-> Matrix(u0.v, v0.v, u1.v, v1.v)]

\* The table of matrices that is put into the text of the program.
gcd_base_table == [slot \in 1 .. Slots |-> get_matrix(c_table[slot])]

Quotient(ab) == IF ab.b = 0 THEN Infinity ELSE DoubleOf(ab.a, ab.b)

\* The labels: the table, no_table and lehmer.
TableStep(s, q, threshold) ==
  IF \/ q \div delta >= Slots \/ s.ab.b <= threshold \/ q % delta \in {0, delta - 1}
  THEN [s EXCEPT !.ok = FALSE]
  ELSE calculate_using_m(gcd_base_table[q \div delta + 1], s)
NoTableStep(s, q, threshold) ==
  IF s.ab.b <= threshold THEN [s EXCEPT !.ok = FALSE]
  ELSE calculate_using_m(quotient_matrix(Floor(q)), s)
LehmerFailed(new, is_lehmer) ==
  is_lehmer /\ \/ AsDouble(new.ab.a - new.ab.b + new.uv.u0) < new.uv.u1
               \/ AsDouble(new.ab.a - new.ab.b + new.uv.v0) < new.uv.v1
               \/ new.ab.b < -new.uv.u1 \/ new.ab.b < -new.uv.v1

RECURSIVE AsmBaseLoop(_, _, _, _)
AsmBaseLoop(s, loop_counter, is_lehmer, threshold) ==
  LET q == Quotient(s.ab)
      tabled == TableStep(s, q, threshold)
      new == IF tabled.ok /\ tabled.ab.a > threshold THEN tabled
             ELSE NoTableStep(s, q, threshold)
      next == [ok |-> TRUE, ab |-> new.ab, uv |-> new.uv]
  IN  IF ~new.ok \/ LehmerFailed(new, is_lehmer) THEN [state |-> s, counter |-> loop_counter]
      ELSE IF loop_counter = 1 THEN [state |-> next, counter |-> 0]
      ELSE AsmBaseLoop(next, loop_counter - 1, is_lehmer, threshold)

\* The matrix, and the quotients or groups of quotients that were taken.
AsmBaseFractions(ab, is_lehmer, threshold) ==
  LET r == AsmBaseLoop([ok |-> TRUE, ab |-> ab, uv |-> identity_matrix],
                       gcd_base_max_iter, is_lehmer, threshold)
  IN  [ab |-> r.state.ab, uv |-> r.state.uv, iter |-> gcd_base_max_iter - r.counter]

----------------------------------------------------------------------------
(***************************************************************************)
(* Quotients from a table of reciprocals                                   *)
(***************************************************************************)

InWord(v) == -(2^(WordBits - 1)) <= v /\ v < 2^(WordBits - 1)
InHalf(v) == -(2^(HalfBits - 1)) <= v /\ v < 2^(HalfBits - 1)
data_mask == 2^(HalfBits - 1) - 1

\* The table holds unsigned words, and IMUL and int64 take them as signed.
divide_table_lookup(index) ==
  LET v == ((2^(2 * WordBits) - 1) \div (IF index = 0 THEN 1 ELSE index)) \div 2^WordBits
  IN  IF v >= 2^(WordBits - 1) THEN v - 2^WordBits ELSE v

\* IDIV rounds towards zero.
divide_table_64(a, b) ==
  LET q == IF a < 0 THEN -((-a) \div b) ELSE a \div b
      r == a - q * b
  IN  IF r < 0 THEN [q |-> q - 1, r |-> r + b] ELSE [q |-> q, r |-> r]

\* The estimate is the quotient if its remainder is one.
divide_table(a, b) ==
  LET k == bsr(b) - (divide_table_index_bits - 1)
      b_shift == IF k < 0 THEN 0 ELSE k
      b_approx_inverse == divide_table_lookup(b \div 2^b_shift)
      q == ((a * b_approx_inverse) \div 2^WordBits) \div 2^b_shift
      r == a - q * b
  IN  IF InWord(q * b) /\ InWord(r) /\ 0 <= r /\ r < b THEN [q |-> q, r |-> r]
      ELSE divide_table_64(a, b)

Sum64(a, uv) == Pair(a.a + uv.a, a.b + uv.b)

\* One quotient; `the asm code will update a even if it becomes invalid'.
gcd_64_iteration(s, approximate, threshold) ==
  LET d == divide_table(s.ab.a, s.ab.b)
      ab == Pair(s.ab.b, d.r)
      w == Matrix(s.uv.u1, s.uv.v1, s.uv.u0 - d.q * s.uv.u1, s.uv.v0 - d.q * s.uv.v1)
      u == Sum64(ab, Pair(w.u0, w.u1))
      v == Sum64(ab, Pair(w.v0, w.v1))
  IN  CASE s.ab.b <= threshold -> [s EXCEPT !.exit = TRUE]
        [] s.ab.b > threshold /\ ~InHalf(d.q) -> [s EXCEPT !.exit = TRUE]
        [] OTHER ->
             IF \/ ~InHalf(w.u1) \/ ~InHalf(w.v1)
                \/ approximate /\ \E sum \in {u, v} : sum.b < 0 \/ sum.a - sum.b < 0
             THEN [s EXCEPT !.ab = ab, !.exit = TRUE]
             ELSE [exit |-> FALSE, ab |-> ab, uv |-> w]

RECURSIVE Loop64(_, _, _, _)
Loop64(s, iter, approximate, threshold) ==
  LET new == gcd_64_iteration(s, approximate, threshold)
  IN  IF new.exit THEN [uv |-> new.uv, iter |-> iter]
      ELSE IF iter + 1 = gcd_base_max_iter_divide_table
      THEN [uv |-> new.uv, iter |-> iter + 1]
      ELSE Loop64(new, iter + 1, approximate, threshold)
AsmBaseReciprocals(ab, approximate, threshold) ==
  Loop64([exit |-> FALSE, ab |-> ab, uv |-> identity_matrix], 0, approximate, threshold)

\* gcd_64, the same in C++ without the threshold.
RECURSIVE Gcd64From(_, _, _)
Gcd64From(s, approximate, max) ==
  LET d == divide_table(s.ab.a, s.ab.b)
      ab == Pair(s.ab.b, d.r)
      w == Matrix(s.uv.u1, s.uv.v1, s.uv.u0 - d.q * s.uv.u1, s.uv.v0 - d.q * s.uv.v1)
  IN  IF \/ s.ab.b = 0 \/ ~InHalf(d.q)
         \/ approximate /\ ~check_lehmer(ab, w)
         \/ \E e \in {w.u0, w.v0, w.u1, w.v1} : Magn(e) > data_mask
      THEN s
      ELSE LET next == [ab |-> ab, uv |-> w, iter |-> s.iter + 1]
           IN  IF next.iter >= max THEN next ELSE Gcd64From(next, approximate, max)
gcd_64(ab, approximate, max) ==
  LET s == [ab |-> ab, uv |-> identity_matrix, iter |-> 0]
  IN  IF approximate /\ (ab.a = ab.b \/ ab.b = 0) THEN s ELSE Gcd64From(s, approximate, max)

----------------------------------------------------------------------------
(***************************************************************************)
(* Two words                                                               *)
(***************************************************************************)

\* The low word of v >> amount; a shift takes its amount modulo the word.
shift_right(v, amount) ==
  LET res == (v \div 2^(amount % WordBits)) % 2^WordBits
      res_2 == (v \div 2^WordBits) \div 2^((amount - WordBits) % WordBits)
  IN  IF amount >= WordBits THEN res_2 ELSE res

\* a * u - b * v.
dot_product_subtract(a, b, u, v) == (TimesWord(a, u) - TimesWord(b, v)) % 2^(2 * WordBits)
conditional_negate(v, parity) == IF parity = 1 THEN (-v) % 2^(2 * WordBits) ELSE v

AsmBase(ab, is_lehmer, threshold, build) ==
  IF build = "avx2" THEN AsmBaseReciprocals(ab, is_lehmer, threshold)
  ELSE AsmBaseFractions(ab, is_lehmer, threshold)

\* The quotients from the leading bits of s.ab.
AsmLeading(s, is_lehmer, threshold, build) ==
  LET amount == ShiftAmount(s.ab.a, is_lehmer, gcd_base_bits(build))
  IN  AsmBase(Pair(shift_right(s.ab.a, amount), shift_right(s.ab.b, amount)),
              is_lehmer \/ amount # 0, shift_right(threshold, amount), build)

\* The remainders of the start values that these quotients give.
AsmMultiplied(s, start, is_lehmer, threshold, build) ==
  LET base == AsmLeading(s, is_lehmer, threshold, build)
      uv == multiply_words(Unsigned(base.uv), s.uv)
      parity == (s.parity + (IF base.uv.v1 < 0 THEN 1 ELSE 0)) % 2
      a == conditional_negate(dot_product_subtract(start.a, start.b, uv.m.u0, uv.m.v0), parity)
      b == conditional_negate(dot_product_subtract(start.b, start.a, uv.m.v1, uv.m.u1), parity)
  IN  [ok |-> base.iter # 0 /\ uv.ok, ab |-> Pair(a, b), uv |-> uv.m, parity |-> parity]

\* With uv_delta and b_new_min zero if not is_lehmer.
AsmLehmer(new, is_lehmer) ==
  LET ab_delta == (new.ab.a - new.ab.b) % 2^(2 * WordBits)
      even == new.parity = 0
      uv_delta == IF even THEN new.uv.v1 + new.uv.v0 ELSE new.uv.u1 + new.uv.u0
      b_new_min == IF even THEN new.uv.u1 ELSE new.uv.v1
  IN  is_lehmer => ab_delta >= uv_delta /\ new.ab.b >= b_new_min

RECURSIVE AsmLoop128(_, _, _, _, _)
AsmLoop128(s, start, is_lehmer, threshold, build) ==
  LET new == AsmMultiplied(s, start, is_lehmer, threshold, build)
      next == [ab |-> new.ab, uv |-> new.uv, parity |-> new.parity, iter |-> s.iter + 1]
  IN  IF s.ab.b <= threshold \/ ~new.ok \/ ~AsmLehmer(new, is_lehmer) \/ threshold >= new.ab.a
      THEN s
      ELSE IF next.iter = max_iter_128(build) THEN next
      ELSE AsmLoop128(next, start, is_lehmer, threshold, build)
AsmGcd128(ab, is_lehmer, threshold, build) ==
  AsmLoop128([ab |-> ab, uv |-> identity_matrix, parity |-> 0, iter |-> 0],
             ab, is_lehmer, threshold, build)

----------------------------------------------------------------------------
(***************************************************************************)
(* Long integers                                                           *)
(***************************************************************************)

Inverted(d, invert_output) ==
  IF invert_output THEN Tuple(Complement(WordBits, d, Len(d))) ELSE d
Low(a, b) == [i \in 1 .. Len(a) |-> (At(a, i) * b) % 2^WordBits]
High(a, b) == [i \in 1 .. Len(a) |-> (At(a, i) * b) \div 2^WordBits]

\* a * b + c with the carries of the product in OF and those of the sum in CF.
RECURSIVE BmiFrom(_, _, _, _)
BmiFrom(a, b, c, s) ==
  LET pos == Len(s.d) + 1
      product == At(a, pos) * b
      low == (product % 2^WordBits) + s.mul_high + s.overflow
      sum == (low % 2^WordBits) + At(c, pos) + s.carry
  IN  IF pos > Len(a) THEN s.d
      ELSE BmiFrom(a, b, c,
             [d |-> Append(s.d, sum % 2^WordBits), mul_high |-> product \div 2^WordBits,
              overflow |-> low \div 2^WordBits, carry |-> sum \div 2^WordBits])
mul_add_bmi(a, b, c, invert_output, carry_in) ==
  Inverted(BmiFrom(a, b, c, [d |-> <<>>, mul_high |-> 0, overflow |-> 0, carry |-> carry_in]),
           invert_output)

\* Mutant: the carry of the products is not kept between blocks.
BlockDropsCarry(a, b, c, s) ==
  LET pos == Len(s.d)
      four == [i \in 1 .. 4 |-> At(a, pos + i)]
      high == <<s.mul_high_4_previous>> \o Tuple(High(four, b))
      product == AddLimbs(WordBits, Low(four, b), high, s.mul_carry, 4)
      sum == AddLimbs(WordBits, product.d, [i \in 1 .. 4 |-> At(c, pos + i)], s.add_carry, 4)
  IN  [d |-> s.d \o sum.d, mul_high_4_previous |-> At(high, 5),
       mul_carry |-> 0, add_carry |-> sum.carry]
\* Four limbs at a time; both carries and the last high word are kept between them.
Block(a, b, c, s) ==
  LET pos == Len(s.d)
      four == [i \in 1 .. 4 |-> At(a, pos + i)]
      high == <<s.mul_high_4_previous>> \o Tuple(High(four, b))
      product == AddLimbs(WordBits, Low(four, b), high, s.mul_carry, 4)
      sum == AddLimbs(WordBits, product.d, [i \in 1 .. 4 |-> At(c, pos + i)], s.add_carry, 4)
  IN  [d |-> s.d \o sum.d, mul_high_4_previous |-> At(high, 5),
       mul_carry |-> product.carry, add_carry |-> sum.carry]
RECURSIVE SlowFrom(_, _, _, _)
SlowFrom(a, b, c, s) ==
  IF Len(s.d) = Len(a) THEN s.d ELSE SlowFrom(a, b, c, Block(a, b, c, s))
mul_add_slow(a, b, c, invert_output, carry_in) ==
  Inverted(SlowFrom(a, b, c, [d |-> <<>>, mul_high_4_previous |-> 0, mul_carry |-> 0,
                              add_carry |-> carry_in]),
           invert_output)

mul_add(a, b, c, invert_output, carry_in, build) ==
  IF build = "avx2" THEN mul_add_bmi(a, b, c, invert_output, carry_in)
  ELSE mul_add_slow(a, b, c, invert_output, carry_in)

\* a * u - b * v as a * u + ~(b * v) + 1.
Subtracted(a, u, b, v, build) ==
  mul_add(a, u, mul_add(b, v, <<>>, TRUE, 0, build), FALSE, 1, build)

\* Indices count limbs from zero.
RECURSIVE update_end_index(_, _)
update_end_index(d, end_index) ==
  IF end_index = 0 \/ At(d, end_index + 1) # 0 THEN end_index
  ELSE update_end_index(d, end_index - 1)
calculate_head_start(end_index) == IF end_index < 2 THEN 0 ELSE end_index - 2
extract_head_at(d, start) == <<At(d, start + 1), At(d, start + 2), At(d, start + 3)>>
calculate_shift_amount(limbs) == IF At(limbs, 3) = 0 THEN 0 ELSE bsr(At(limbs, 3)) + 1

\* SHRD by a whole word does nothing, and the limbs are moved.
HeadOf(limbs, amount) ==
  LET k == amount % WordBits
      SHRD(low, high) == (low \div 2^k) + ((high * 2^(WordBits - k)) % 2^WordBits)
      Joined(low, high) == low + high * 2^WordBits
  IN  IF amount = WordBits THEN Joined(At(limbs, 2), At(limbs, 3))
      ELSE Joined(SHRD(At(limbs, 1), At(limbs, 2)), SHRD(At(limbs, 2), At(limbs, 3)))

\* iter odd: the values are in a and b; even: in a_2 and b_2.
Values(s) == IF s.iter % 2 = 1 THEN Pair(s.a, s.b) ELSE Pair(s.a_2, s.b_2)

\* The values of the last iteration times the matrix, into the other buffers.
multiply_uv(s, uv, parity, build) ==
  LET even == s.iter % 2 = 0
      old == IF even THEN Pair(s.a, s.b) ELSE Pair(s.a_2, s.b_2)
      p == IF parity = 0 THEN old ELSE Pair(old.b, old.a)
      mod == IF parity = 0 THEN uv ELSE Matrix(uv.v0, uv.u0, uv.v1, uv.u1)
      new_a == Subtracted(p.a, mod.u0, p.b, mod.v0, build)
      new_b == Subtracted(p.b, mod.v1, p.a, mod.u1, build)
  IN  IF even THEN [s EXCEPT !.a_2 = new_a, !.b_2 = new_b]
      ELSE [s EXCEPT !.a = new_a, !.b = new_b]

\* From loop_start: the heads, the errors, and the entry of this iteration.
RECURSIVE AsmFrom(_, _, _)
AsmFrom(s, threshold, build) ==
  LET now == Values(s)
      end_index == update_end_index(now.a, s.end_index)
      is_lehmer == end_index >= 2
      start == calculate_head_start(end_index)
      amount == calculate_shift_amount(extract_head_at(now.a, start))
      a_head == HeadOf(extract_head_at(now.a, start), amount)
      b_head == HeadOf(extract_head_at(now.b, start), amount)
      t_head == HeadOf(extract_head_at(threshold, start), amount)
      exit_flag == t_head >= b_head
      out == [s EXCEPT !.end_index = end_index, !.iter = @ + 1,
                       !.entries = Append(@, [uv |-> s.uv, parity |-> s.parity,
                                              exit_flag |-> exit_flag])]
      head == AsmGcd128(Pair(a_head, b_head), is_lehmer, t_head, build)
  IN  CASE a_head <= t_head \/ (b_head = t_head /\ is_lehmer) -> [s EXCEPT !.result = "error"]
        [] ~(a_head <= t_head \/ (b_head = t_head /\ is_lehmer)) /\ exit_flag ->
             [out EXCEPT !.result = "done"]
        [] OTHER ->
             IF out.iter >= max_iterations \/ head.iter = 0 THEN [out EXCEPT !.result = "error"]
             ELSE AsmFrom(
                    multiply_uv([out EXCEPT !.uv = head.uv, !.parity = head.parity],
                                head.uv, head.parity, build), threshold, build)

\* iter counts from -1; the first entry has no matrix.
AsmGcdUnsigned(a, b, threshold, build) ==
  AsmFrom([a |-> a, b |-> b, a_2 |-> <<>>, b_2 |-> <<>>, end_index |-> Len(a) - 1,
           iter |-> -1, uv |-> identity_matrix, parity |-> 0, entries |-> <<>>,
           result |-> "running"], threshold, build)

\* The values at the end: iter has been incremented.
AsmResult(s) == Values([s EXCEPT !.iter = @ - 1])

=============================================================================
