----------------------------- MODULE FormCodec -----------------------------
(***************************************************************************)
(* The compressed forms of bqfc.c.  A byte has ByteBits bits, and what the *)
(* code says in multiples of 8, 16 and 32 bits is said in bytes here.  A   *)
(* string is a sequence of bytes, the fields little endian.                *)
(***************************************************************************)
EXTENDS NuComp

CONSTANTS
  ByteBits,     \* 8
  MAX_D_BITS    \* BQFC_MAX_D_BITS

ASSUME CodecAssumption ==
  /\ ByteBits \in Nat \ {0} /\ MAX_D_BITS \in Nat
  /\ MAX_D_BITS % (4 * ByteBits) = 0

Byte == 2^ByteBits
NoString == <<>>
NoPair == [a |-> 0, b |-> 0]
NoForm == Form(0, 0, 0)
NoFields == [a |-> 0, t |-> 1, g |-> 0, b0 |-> 0, b_sign |-> FALSE]

RoundUp(n, to) == to * ((n + to - 1) \div to)

\* d_bits rounded up to a multiple of 32, in bytes.
d_bytes(d_bits) == RoundUp(d_bits, 4 * ByteBits) \div ByteBits
FORM_SIZE == 3 * (MAX_D_BITS \div (4 * ByteBits)) + 4

bqfc_get_compr_size(d_bits) ==
  IF d_bits = 0 \/ d_bits > MAX_D_BITS THEN -1
  ELSE 3 * (d_bytes(d_bits) \div 4) + 4

----------------------------------------------------------------------------
\* t is chosen so that t * b mod a is at most sqrt(a).
bqfc_compr(a, b) ==
  LET x == xgcd_partial(a, Abs(b), root(a, 2))
      t == -x.co1
      g == gcd(a, t).gcd
  IN  IF a = b THEN [a |-> a, t |-> 0, g |-> 0, b0 |-> 0, b_sign |-> FALSE]
      ELSE IF g = 1 THEN [a |-> a, t |-> t, g |-> g, b0 |-> 0, b_sign |-> b < 0]
      ELSE [a |-> a \div g, t |-> TDiv(t, g), g |-> g,
            b0 |-> Abs(b) \div (a \div g), b_sign |-> b < 0]

\* Mutant: the quotient b0 is forgotten.
WithQuotientNot(b, c) == b

WithQuotient(b, c) == IF c.b0 > 0 THEN b + c.a * c.b0 ELSE b

\* NoPair, or the coefficients a and b.
bqfc_decompr(D, c, strict) ==
  LET t == IF c.t < 0 THEN c.t + c.a ELSE c.t
      e == gcd(t, c.a)
      t_inv == IF e.s < 0 THEN e.s + c.a ELSE e.s
      square_of_r == (((c.t * c.t) % c.a) * (D % c.a)) % c.a
      r == root(square_of_r, 2)
      a == IF c.g > 1 THEN c.a * c.g ELSE c.a
      b == WithQuotient((r * t_inv) % c.a, c)
  IN  IF c.t = 0 THEN [a |-> c.a, b |-> c.a]
      ELSE IF c.a = 0 \/ e.gcd # 1 THEN NoPair
      ELSE IF r * r # square_of_r THEN NoPair
      ELSE IF strict /\ b > a THEN NoPair
      ELSE [a |-> a, b |-> IF c.b_sign THEN -b ELSE b]

----------------------------------------------------------------------------
Bytes(n) == (num_bits(n) + ByteBits - 1) \div ByteBits

\* bqfc_export, and mpz_import.
Export(n, size) == [i \in 1 .. size |-> Shifted(Abs(n), (i - 1) * ByteBits) % Byte]

RECURSIVE Import(_)
Import(s) == IF s = <<>> THEN 0 ELSE Head(s) + Byte * Import(Tail(s))

Fits(n, size) == Bytes(n) <= size

bqfc_serialize_only(c, d_bits) ==
  LET g_size == Bytes(c.g) - 1
      w == d_bytes(d_bits)
  IN  IF \/ ~Fits(c.a, w \div 2 - g_size) \/ ~Fits(c.t, w \div 4 - g_size)
         \/ ~Fits(c.g, g_size + 1) \/ ~Fits(c.b0, g_size + 1)
        THEN NoString
        ELSE << (IF c.b_sign THEN 1 ELSE 0) + (IF c.t < 0 THEN 2 ELSE 0), g_size >>
             \o Export(c.a, w \div 2 - g_size) \o Export(c.t, w \div 4 - g_size)
             \o Export(c.g, g_size + 1) \o Export(c.b0, g_size + 1)

bqfc_deserialize_only(str, d_bits) ==
  LET w == d_bytes(d_bits)
      g_size == str[2]
      ends == << 2, 2 + w \div 2 - g_size, 2 + (w \div 2 + w \div 4) - 2 * g_size >>
      Field(i, size) == Import(SubSeq(str, i + 1, i + size))
      t == Field(ends[2], w \div 4 - g_size)
  IN  IF g_size >= w \div 4 THEN NoFields
      ELSE [a |-> Field(ends[1], w \div 2 - g_size),
            t |-> IF (str[1] \div 2) % 2 = 1 THEN -t ELSE t,
            g |-> Field(ends[3], g_size + 1),
            b0 |-> Field(ends[3] + g_size + 1, g_size + 1),
            b_sign |-> str[1] % 2 = 1]

Padded(s) == s \o [i \in 1 .. FORM_SIZE - Len(s) |-> 0]

IS_1 == 4
IS_GEN == 8
Flag(str, f) == (str[1] \div f) % 2 = 1

bqfc_serialize(a, b, d_bits) ==
  LET s == bqfc_serialize_only(bqfc_compr(a, b), d_bits)
  IN  IF bqfc_get_compr_size(d_bits) \notin 1 .. FORM_SIZE THEN NoString
      ELSE IF b = 1 /\ a <= 2 THEN Padded(<< IF a = 2 THEN IS_GEN ELSE IS_1 >>)
      ELSE IF s = NoString THEN NoString ELSE Padded(s)

bqfc_verify_canon(a, b, str, d_bits) == bqfc_serialize(a, b, d_bits) = str

bqfc_deserialize(D, str, d_bits, strict) ==
  LET c == bqfc_deserialize_only(str, d_bits)
      f == bqfc_decompr(D, c, strict)
  IN  IF d_bits = 0 \/ d_bits > MAX_D_BITS \/ Len(str) # FORM_SIZE THEN NoPair
      ELSE IF Flag(str, IS_1) \/ Flag(str, IS_GEN)
        THEN [a |-> IF Flag(str, IS_GEN) THEN 2 ELSE 1, b |-> 1]
      ELSE IF f = NoPair THEN NoPair
      ELSE IF bqfc_verify_canon(f.a, f.b, str, d_bits) THEN f ELSE NoPair

----------------------------------------------------------------------------
\* proof_common.h
SerializeForm(y, d_bits) == LET r == reduce(y) IN bqfc_serialize(r.a, r.b, d_bits)

DeserializeForm(D, str, strict) ==
  LET ab == bqfc_deserialize(D, str, num_bits(D), strict)
      f == from_abd(ab.a, ab.b, D)
  IN  IF ab = NoPair THEN NoForm
      ELSE IF from_abd_throws(ab.a, ab.b, D) THEN NoForm
      ELSE IF ~is_reduced(f) THEN NoForm ELSE f

=============================================================================
