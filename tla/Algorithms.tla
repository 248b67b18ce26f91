----------------------------- MODULE Algorithms -----------------------------
(***************************************************************************)
(* The pure algorithms against what they have to compute.  A behaviour     *)
(* asks one question of one algorithm; a property compares the answer with *)
(* a reference definition.                                                 *)
(***************************************************************************)
EXTENDS Primality, Wesolowski, GcdAsm

CONSTANTS
  Discriminants,   \* negative primes, 1 mod 8
  Exponents,       \* bound: powers of forms that are taken
  MaxR,            \* bound: arguments of the gcds
  MaxTested,       \* bound: numbers tested for primality
  Seeds,           \* seeds of discriminants
  Lengths,         \* and their lengths
  MaxT,            \* bound: iterations that are proved
  MaxK,            \* bound: bits of a block
  MaxL,            \* bound: stored forms are k * l apart
  BaseNumbers,     \* numbers whose quotients come from one double or word
  GcdNumbers,      \* numbers of up to three words
  Thresholds,      \* where their gcds stop
  Dividends,       \* integers of up to three words
  Divisors         \* and of up to two

ASSUME AlgorithmsAssumption ==
  /\ \A d \in Discriminants : d < 0 /\ d % 8 = 1
  /\ Exponents \subseteq Nat /\ MaxR \in Nat /\ MaxTested \in Nat
  /\ Lengths \subseteq Nat /\ MaxT \in Nat /\ MaxK \in Nat /\ MaxL \in Nat
  /\ BaseNumbers \subseteq 1 .. 2^BaseBits - 1 /\ GcdNumbers \subseteq Nat \ {0}
  /\ Thresholds \subseteq Nat /\ Dividends \subseteq Int /\ Divisors \subseteq Int \ {0}

VARIABLE input

----------------------------------------------------------------------------
(***************************************************************************)
(* Forms: reference                                                        *)
(***************************************************************************)

\* Every class of discriminant d has exactly one of these.
ReducedForms(d) ==
  {f \in UNION {{Form(a, b, (b * b - d) \div (4 * a)) :
                   b \in {e \in -a .. a : (e * e - d) % (4 * a) = 0}} :
                 a \in 1 .. root(-d, 2)} : is_reduced(f)}

Classes == [d \in Discriminants |-> ReducedForms(d)]

Represents(f, x, y) == f.a * x * x + f.b * x * y + f.c * y * y

\* f becomes r under a substitution of determinant one.
Equivalent(f, r, d) ==
  LET X == root((4 * f.c * r.a) \div (-d), 2)
      Y == root((4 * f.a * r.a) \div (-d), 2)
  IN  \E x \in -X .. X, y \in -Y .. Y :
        /\ Represents(f, x, y) = r.a
        /\ \E v \in -X - 1 .. X + 1, z \in -Y - 1 .. Y + 1 :
             /\ x * z - y * v = 1
             /\ (2 * f.a * x * v + f.b * (x * z + y * v) + 2 * f.c * y * z - r.b)
                  % (2 * r.a) = 0

\* Composition by its congruences.
Composition(f, g, d) ==
  LET e == three_gcd(f.a, g.a, (f.b + g.b) \div 2)
      A == (f.a * g.a) \div (e * e)
      B == CHOOSE b \in 0 .. 2 * A - 1 :
             /\ ((f.a \div e) * (b - g.b)) % (2 * A) = 0
             /\ ((g.a \div e) * (b - f.b)) % (2 * A) = 0
             /\ (((f.b + g.b) \div (2 * e)) * b - (f.b * g.b + d) \div (2 * e))
                  % (2 * A) = 0
  IN  Form(A, B, (B * B - d) \div (4 * A))

Product(f, g, d) ==
  CHOOSE r \in Classes[d] : Equivalent(Composition(f, g, d), r, d)

RECURSIVE Power(_, _, _)
Power(f, n, d) == IF n = 0 THEN identity(d) ELSE Product(Power(f, n - 1, d), f, d)

\* The stages of Euclid's algorithm.
RECURSIVE EuclidStages(_)
EuclidStages(g) ==
  {g} \union
  (IF g.r1 = 0 THEN {}
   ELSE EuclidStages([r2 |-> g.r1, r1 |-> g.r2 % g.r1, co2 |-> g.co1,
                      co1 |-> g.co2 - g.co1 * (g.r2 \div g.r1)]))

Prime(n) == n > 1 /\ \A d \in 2 .. root(n, 2) : n % d # 0

----------------------------------------------------------------------------
(***************************************************************************)
(* Questions                                                               *)
(***************************************************************************)

AskProduct ==
  \E d \in Discriminants : \E f, g \in Classes[d] : input' = <<"product", d, f, g>>

AskPower ==
  \E d \in Discriminants : \E f \in Classes[d], n \in Exponents :
    input' = <<"power", d, f, n>>

AskPartialGcd ==
  \E r2 \in 1 .. MaxR : \E r1 \in 0 .. r2 - 1 : input' = <<"partial_gcd", r2, r1>>

AskForm == \E d \in Discriminants : \E f \in Classes[d] : input' = <<"form", d, f>>

AskPrime == \E n \in 3 .. MaxTested : input' = <<"prime", n>>

AskDiscriminant ==
  \E seed \in Seeds, length \in Lengths : input' = <<"discriminant", seed, length>>

AskProof ==
  \E T \in 1 .. MaxT, k \in 1 .. MaxK, l \in 1 .. MaxL : input' = <<"proof", T, k, l>>

\* Up to three segments.
AskChain ==
  \E k \in 1 .. MaxK : \E n \in 1 .. 3 : \E lengths \in [1 .. n -> 1 .. MaxT] :
    Iterations(lengths, n) <= MaxT /\ input' = <<"chain", lengths, k>>

AskBase ==
  \E a, b \in BaseNumbers, t \in Thresholds : t < a /\ b <= a /\ input' = <<"base", a, b, t>>

AskGcd ==
  \E a, b \in GcdNumbers, t \in Thresholds : t < a /\ b <= a /\ input' = <<"gcd", a, b, t>>

AskCofactors ==
  \E a, b \in BaseNumbers, t \in Thresholds, sign \in {-1, 1} :
    (t < a \/ t < b) /\ input' = <<"cofactors", sign * a, b, t>>

AskDivision == \E a \in Dividends, b \in Divisors : input' = <<"division", a, b>>

Ask ==
  /\ input = <<"none">>
  /\ AskProduct \/ AskPower \/ AskPartialGcd \/ AskForm \/ AskPrime \/ AskDiscriminant
     \/ AskProof \/ AskChain \/ AskBase \/ AskGcd \/ AskCofactors \/ AskDivision

\* The caller has its answer, and may ask again.
Answered == input # <<"none">> /\ input' = <<"none">>

Init == input = <<"none">>
Next == Ask \/ Answered
Spec == Init /\ [][Next]_input

----------------------------------------------------------------------------
(***************************************************************************)
(* Right answers                                                           *)
(***************************************************************************)

\* The reduction of Reducer.h stops at (1, -1, c) as well as at the identity.
IsClass(f, p, d) == f = p \/ (p = identity(d) /\ f = [p EXCEPT !.b = -1])

\* The composition of the verifier and the slow prover (nucomp, then any of
\* the three reductions), that of vdf_new.h and that of vdf_original.h give the
\* reduced form of the product; so do the squarings, and the inverse inverts.
ProductCorrect ==
  input[1] = "product" =>
    LET d == input[2] f == input[3] g == input[4]
        L == root(-d, 4)
        p == Product(f, g, d)
        n == nucomp(f, g, d, L)
        q == nudupl(f, d, L)
    IN  /\ check_valid(n, d) /\ reduce(n) = p
        /\ IsClass(PulmarkReduce(n), p, d) /\ OriginalReduce(n) = p
        /\ multiply(f, g) = p
        /\ OriginalMultiply(f, g).ok /\ OriginalMultiply(f, g).f = p
        /\ f = g => /\ check_valid(q, d) /\ IsClass(PulmarkReduce(q), p, d)
                    /\ square(f) = p /\ OriginalSquare(f) = p
                    /\ multiply(f, inverse(f)) = identity(d)

\* Powers with reductions only when the form has grown past half of the
\* discriminant, as the verifier and the provers take them, and the squarings of
\* the original program one after the other.
PowerCorrect ==
  input[1] = "power" =>
    LET d == input[2] f == input[3] n == input[4]
    IN  /\ IsClass(FastPowFormNucomp(f, d, n, root(-d, 4)), Power(f, n, d), d)
        /\ \A i \in 0 .. 3 : n = 2^i => repeated_square(f, i) = Power(f, n, d)

\* The partial gcd on words stops at a stage of Euclid's algorithm whose
\* remainder is at most L, although its quotients come from the leading bits,
\* and `co2*r1 - co1*r2 == +/- r2_orig'.
PartialGcdCorrect ==
  input[1] = "partial_gcd" =>
    LET first == [r2 |-> input[2], r1 |-> input[3], co2 |-> 0, co1 |-> -1]
        stages == EuclidStages(first)
    IN  \A L \in 0 .. root(input[2], 2) + 1 :
          LET g == xgcd_partial(input[2], input[3], L)
          IN  /\ g \in stages /\ g.r1 <= L
              /\ Abs(g.co2 * g.r1 - g.co1 * g.r2) = input[2]

\* Every reduced form has a string, and the string is read back as the form,
\* with the historical rules and with the strict ones.
FormCorrect ==
  input[1] = "form" =>
    LET d == input[2] f == input[3]
        str == SerializeForm(f, num_bits(d))
    IN  str # NoString /\ \A strict \in BOOLEAN : DeserializeForm(d, str, strict) = f

\* Trial division by the word primes, one Miller-Rabin round and the Lucas-V
\* test together accept exactly the primes that are no word primes.
PrimeTestCorrect ==
  input[1] = "prime" =>
    (is_prime_bpsw(input[2]) <=> Prime(input[2]) /\ input[2] \notin SmallPrimes)

\* A discriminant has the length that was asked for, is a negative prime and
\* 1 mod 8; so (2, 1, c) is a form of it.
DiscriminantCorrect ==
  input[1] = "discriminant" =>
    LET d == CreateDiscriminant(input[2], input[3])
    IN  d # 0 => /\ Prime(-d) /\ num_bits(d) = input[3]
                 /\ ~from_abd_throws(2, 1, d)

\* One block after the other, in one thread or in two, from forms stored every
\* k * l iterations, the proof is x to the 2^T div B, and the verifier takes it.
ProofCorrect ==
  input[1] = "proof" =>
    LET T == input[2] k == input[3] l == input[4]
        x == 3
        y == x * 2^T
        proof == x * (2^T \div BOf(x, y))
    IN  /\ GenerateProof(x, y, T, k, l) = proof
        /\ ParallelProof(x, y, T, k, l) = proof
        /\ VerifyWesolowskiProof(x, y, proof, T)
        /\ \A hundred \in 1 .. 2 : T >= 3 * hundred =>
             CheckProofOfTimeNWesolowski(x, ProveTwoWeso(x, T, k, hundred), T, 2)

\* A blob of segments is accepted for the iterations and the depth it proves and
\* for no others; without y, the B that GetBFromProof reads out gives y, and only then.
ClaimsCorrect ==
  input[1] = "chain" =>
    LET lengths == input[2] k == input[3]
        x == 3
        n == Len(lengths)
        T == Iterations(lengths, n)
        blob == Assembled(x * 2^T, ProvedChain(x, lengths, k))
        B == GetBFromProof(x, blob, T, n - 1)
    IN  \A claimed \in 0 .. MaxT + 1, depth \in 0 .. 3 :
          LET right == claimed = T /\ depth = n - 1
          IN  /\ CheckProofOfTimeNWesolowski(x, blob, claimed, depth) <=> right
              /\ CheckProofOfTimeNWesolowskiWithB(B, x, blob, claimed, depth)
                   = <<x * 2^T>> <=> right

\* The quotients that come from doubles, from the table of continued fractions
\* and from the table of reciprocals are those of Euclid's algorithm up to one that the
\* bits in front of the numbers still determine; the assembly of the continued
\* fractions takes exactly the steps of the C++, and its division by reciprocals
\* rounds down.
BaseKernelsCorrect ==
  input[1] = "base" =>
    LET a == input[2] b == input[3] t == input[4]
        ab == Pair(a, b)
    IN  /\ divide_table(a, b) = [q |-> a \div b, r |-> a % b]
        /\ divide_table(-a, b) = [q |-> (-a) \div b, r |-> (-a) % b]
        /\ \A is_lehmer \in BOOLEAN :
             LET stages == gcd_base_continued_fraction_2(ab, is_lehmer, t)
                 doubles == gcd_base_continued_fraction(ab, is_lehmer, t, FALSE)
                 fused == gcd_base_continued_fraction(ab, is_lehmer, t, TRUE)
                 words == AsmBaseReciprocals(ab, is_lehmer, t)
             IN  /\ [ab |-> doubles.ab, uv |-> doubles.uv] \in stages
                 /\ [ab |-> fused.ab, uv |-> fused.uv] \in stages
                 /\ AsmBaseFractions(ab, is_lehmer, t) = doubles
                 /\ \E stage \in stages : stage.uv = words.uv
                 /\ t = 0 /\ b < a /\ Magn(words.uv.u1) <= data_mask /\ Magn(words.uv.v1) <= data_mask =>
                      gcd_64(ab, is_lehmer, gcd_base_max_iter_divide_table).uv = words.uv

\* The cofactors that a sequence of matrices gives from 0 and 1.
RECURSIVE UvOf(_)
UvOf(entries) ==
  IF entries = <<>> THEN Pair(0, 1)
  ELSE LET m == Last(entries).uv
           w == UvOf(Front(entries))
       IN  Pair(m.u0 * w.a + m.v0 * w.b, m.u1 * w.a + m.v1 * w.b)

\* Of a long gcd that does not fail, in C++ or in either assembly, the last two
\* remainders are the first of Euclid's algorithm around the threshold, the published
\* matrices are those that lead there, the last entry and no other has the exit
\* flag, and the assembly of the continued fractions publishes the matrices of the C++.
RemaindersCorrect ==
  input[1] = "gcd" =>
    LET a == input[2] b == input[3] t == input[4]
        Long(v) == FixedOf(WordBits, v, 4)
        slow == gcd_unsigned_slow(Pair(a, b), Pair(0, 1), 1, t)
        cpp == gcd_unsigned(Pair(Long(a), Long(b)), Pair(Long(0), Long(1)), 1, Long(t), FALSE)
    IN  /\ cpp.valid =>
             /\ cpp.ab = Pair(Long(slow.ab.a), Long(slow.ab.b))
             /\ cpp.uv = Pair(Long(slow.uv.a), Long(slow.uv.b)) /\ cpp.parity = slow.parity
        /\ \A build \in Builds :
             LET r == AsmGcdUnsigned(Long(a).d, Long(b).d, Long(t).d, build)
             IN  r.result = "done" =>
                   /\ AsmResult(r) = Pair(Long(slow.ab.a).d, Long(slow.ab.b).d)
                   /\ UvOf(Tail(r.entries)) = slow.uv
                   /\ \A i \in 1 .. r.iter + 1 : r.entries[i].exit_flag <=> i = r.iter + 1
                   /\ build = "cel" =>
                        /\ cpp.valid
                        /\ cpp.matricies = [i \in 1 .. r.iter |->
                             [uv |-> r.entries[i + 1].uv, parity |-> r.entries[i + 1].parity]]

\* The cofactors give the remainders: u * a + v * b for the one above the threshold
\* and for the one at or below it.  For a negative a only u has the sign that the
\* comment asks for (`sign of each cofactor is the sign of the input'): the code
\* negates v as well (gpu_integer_gcd.h:85-88), so that -v is the cofactor of b.
CofactorsCorrect ==
  input[1] = "cofactors" =>
    LET a == input[2] b == input[3] t == input[4]
        u == SignedGcd(a, b, t, TRUE, 4)
        v == SignedGcd(a, b, t, FALSE, 4)
        sign == IF a < 0 THEN -1 ELSE 1
    IN  /\ u.gcd > t /\ u.gcd_2 <= t
        /\ u.co * a + sign * v.co * b = u.gcd
        /\ u.co_2 * a + sign * v.co_2 * b = u.gcd_2

FloorDiv(a, b) == IF b > 0 THEN a \div b ELSE (-a) \div (-b)

\* Quotients of long integers from an estimate of the reciprocal are rounded down,
\* for every combination of signs, in limbs of half a word and of a word; the two
\* multiplications of the assembly give the same limbs, and those are the product.
DivisionCorrect ==
  input[1] = "division" =>
    LET a == input[2] b == input[3]
        words == DivideWords(FixedOf(WordBits, a, 3), FixedOf(WordBits, b, 2))
        c == a \div 2^WordBits
        d == b \div 2^WordBits + (IF b > 0 THEN 1 ELSE 0)
        halves == DivideHalves(FixedOf(HalfBits, c, 3), FixedOf(HalfBits, d, 2))
        word == Abs(b) % 2^WordBits
        operand == Digits(WordBits, Abs(a), 2) \o Digits(WordBits, Abs(a) \div 3, 2)
                   \o Digits(WordBits, Abs(a) \div 5, 4)
    IN  /\ ToInteger(WordBits, words.q) = FloorDiv(a, b)
        /\ ToInteger(WordBits, words.r) = a - b * FloorDiv(a, b)
        /\ ToInteger(HalfBits, halves.q) = FloorDiv(c, d)
        /\ \A invert \in BOOLEAN, carry \in {0, 1} :
             mul_add_slow(operand, word, Reverse(operand), invert, carry)
               = mul_add_bmi(operand, word, Reverse(operand), invert, carry)
        /\ mul_add_bmi(operand, word, <<>>, FALSE, 0)
             = Resized(Times(WordBits, Fixed(FALSE, operand), Fixed(FALSE, <<word>>)), 8).d

----------------------------------------------------------------------------
(***************************************************************************)
(* Properties: every question that is asked is answered right.             *)
(***************************************************************************)

\* The three implementations of the class group agree with the group, product by
\* product and along the exponentiations that skip reductions.
GroupAgrees == [][ProductCorrect /\ PowerCorrect]_input

\* The partial gcd of the compositions (xgcd_partial) stops at a stage of Euclid's
\* algorithm, and its cofactors keep their determinant.
PartialGcdStages == [][PartialGcdCorrect]_input

\* Every reduced form survives SerializeForm and DeserializeForm.
FormsRoundTrip == [][FormCorrect]_input

\* The prime test is exact, and CreateDiscriminant ends with what the prover can use.
PrimesExact == [][PrimeTestCorrect /\ DiscriminantCorrect]_input

\* The proofs of every prover are the power they should be, and the verifier
\* takes them.
ProofsVerify == [][ProofCorrect]_input

\* The verifier takes a blob for the iterations and the depth it proves and for
\* no others, with y or with B.
ClaimsExact == [][ClaimsCorrect]_input

\* The gcd kernels on one word or double publish matrices of Euclid's algorithm.
BaseKernelsAgree == [][BaseKernelsCorrect]_input

\* The partial gcds of long integers, and with them the cofactors, are Euclid's.
GcdExact == [][RemaindersCorrect /\ CofactorsCorrect]_input

\* The divisions and multiplications of long integers are exact.
DivisionExact == [][DivisionCorrect]_input

=============================================================================
