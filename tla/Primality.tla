----------------------------- MODULE Primality -----------------------------
(***************************************************************************)
(* The primality test of primetest.h on numbers of one limb, and the       *)
(* prime numbers that HashPrime finds with it.                             *)
(***************************************************************************)
EXTENDS FormCodec

CONSTANTS
  SmallPrimes,        \* the odd primes of the products in pprods
  Hash(_),            \* sha256 of a seed, as a number
  HashBytes           \* bytes of a hash

ASSUME PrimalityAssumption == SmallPrimes \subseteq Nat /\ HashBytes \in Nat \ {0}

TestBit(n, i) == (n \div 2^i) % 2

RECURSIVE powm(_, _, _)
powm(b, e, n) ==
  IF e = 0 THEN 1 % n
  ELSE LET half == powm((b * b) % n, e \div 2, n)
       IN  IF e % 2 = 1 THEN (b * half) % n ELSE half

\* mpz_jacobi, for an odd n.
RECURSIVE jacobi(_, _)
jacobi(a, n) ==
  LET r == a % n
  IN  IF r = 0 THEN (IF n = 1 THEN 1 ELSE 0)
      ELSE IF r = 1 THEN 1
      ELSE IF r % 2 = 0
        THEN (IF n % 8 \in {1, 7} THEN 1 ELSE -1) * jacobi(r \div 2, n)
      ELSE (IF r % 4 = 3 /\ n % 4 = 3 THEN -1 ELSE 1) * jacobi(n, r)

----------------------------------------------------------------------------
\* The first set bit of n above bit 0.
RECURSIVE scan1(_, _)
scan1(n, i) == IF TestBit(n, i) = 1 THEN i ELSE scan1(n, i + 1)

RECURSIVE MillerRabinLoop(_, _, _, _)
MillerRabinLoop(b, r, s, n) ==
  IF b + 1 = n THEN TRUE
  ELSE IF r + 1 = s THEN FALSE
  ELSE MillerRabinLoop((b * b) % n, r + 1, s, n)

\* One round with base 2.
miller_rabin(n) ==
  LET s == scan1(n, 1)
      b == powm(2, n \div 2^s, n)
  IN  b = 1 \/ MillerRabinLoop(b, 0, s, n)

VPRP_MAX_D == 1000

\* find_pq: the first of 5, -7, 9, -11, ... with Jacobi symbol -1.
RECURSIVE FindD(_, _)
FindD(d, n) ==
  IF d >= VPRP_MAX_D THEN 0
  ELSE LET e == IF d % 4 = 1 THEN d ELSE -d
       IN  IF jacobi(e, n) = -1 THEN e ELSE FindD(d + 2, n)

find_pq(d) == IF d = 5 THEN [p |-> 5, q |-> 5] ELSE [p |-> 1, q |-> (1 - d) \div 4]

\* Mutant: the wrong sign in the step for a clear bit.
LucasStepSigned(u1, u2, one, p, q) ==
  IF one THEN << u2 * u2 - q * u1 * u1, p * u2 * u2 - 2 * q * u1 * u2 >>
  ELSE << 2 * u1 * u2 + p * u1 * u1, u2 * u2 - q * u1 * u1 >>

\* The step of find_lucas_v for one bit of the exponent.
LucasStep(u1, u2, one, p, q) ==
  IF one THEN << u2 * u2 - q * u1 * u1, p * u2 * u2 - 2 * q * u1 * u2 >>
  ELSE << 2 * u1 * u2 - p * u1 * u1, u2 * u2 - q * u1 * u1 >>

\* mpz_tdiv_r keeps the sign of the dividend.
TRem(a, n) == a - n * TDiv(a, n)

RECURSIVE LucasLoop(_, _, _, _, _)
LucasLoop(u, e, i, m, pq) ==
  IF i < 0 THEN 2 * u[2] - pq.p * u[1]
  ELSE LET v == LucasStep(u[1], u[2], TestBit(e, i) = 1, pq.p, pq.q)
       IN  LucasLoop(<< TRem(v[1], m), TRem(v[2], m) >>, e, i - 1, m, pq)

find_lucas_v(e, m, pq) == LucasLoop(<< 1, pq.p >>, e, num_bits(e) - 2, m, pq)

\* is_vprp: the Lucas-V test; no suitable d means composite.
is_vprp(n) ==
  LET d == FindD(5, n)
      pq == find_pq(d)
      v == find_lucas_v(n + 1, n, pq) % n
  IN  d # 0 /\ (IF pq.q < 0 /\ v # 0 THEN v - n ELSE v) = 2 * pq.q

\* is_prime_bpsw; the primes of the products are themselves no primes for it.
is_prime_bpsw(n) ==
  /\ n % 2 = 1 \/ n = 2
  /\ \A p \in SmallPrimes : n % p # 0
  /\ miller_rabin(n) /\ is_vprp(n)

----------------------------------------------------------------------------
(***************************************************************************)
(* HashPrime of proof_common.h.  A seed is the sequence of its bytes.      *)
(***************************************************************************)

\* The bytes count up, the last one first, and wrap around.
RECURSIVE Increment(_)
Increment(sprout) ==
  LET n == Len(sprout)
      last == (sprout[n] + 1) % Byte
  IN  IF n = 0 THEN <<>>
      ELSE Append(IF last = 0 THEN Increment(SubSeq(sprout, 1, n - 1))
                  ELSE SubSeq(sprout, 1, n - 1), last)

\* Hashes of successive sprouts up to the wanted number of bytes.
RECURSIVE Expand(_, _)
Expand(blob, wanted) ==
  IF blob.bytes = wanted THEN blob
  ELSE LET sprout == Increment(blob.sprout)
           take == Smaller(HashBytes, wanted - blob.bytes)
       IN  Expand([bytes |-> blob.bytes + take, sprout |-> sprout,
                   p |-> blob.p * Byte^take
                           + (Hash(sprout) \div Byte^(HashBytes - take))], wanted)

RECURSIVE set_bits(_, _)
set_bits(p, bits) ==
  IF bits = {} THEN p
  ELSE LET b == CHOOSE x \in bits : TRUE
       IN  set_bits(IF TestBit(p, b) = 1 THEN p ELSE p + 2^b, bits \ {b})

RECURSIVE HashPrime(_, _, _)
HashPrime(seed, length, bitmask) ==
  LET blob == Expand([bytes |-> 0, sprout |-> seed, p |-> 0], length \div ByteBits)
      p == set_bits(blob.p, bitmask \union {0})
  IN  IF is_prime_bpsw(p) THEN p ELSE HashPrime(blob.sprout, length, bitmask)

\* CreateDiscriminant; 0 stands for an exception.
CreateDiscriminant(seed, length) ==
  IF length <= 0 \/ length > MAX_D_BITS \/ length % ByteBits # 0 \/ seed = <<>>
    THEN 0
    ELSE -HashPrime(seed, length, {0, 1, 2, length - 1})

\* The prime of the proof for x and y.
GetB(D, x, y, B_bits) ==
  HashPrime(SerializeForm(x, num_bits(D)) \o SerializeForm(y, num_bits(D)),
            B_bits, {B_bits - 1})

=============================================================================
