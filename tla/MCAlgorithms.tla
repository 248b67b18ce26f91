---------------------------- MODULE MCAlgorithms ----------------------------
(* Forms with limbs of 6 and bytes of 2 bits, gcds with words of 12 bits.      *)
EXTENDS Algorithms
SmallDiscriminants == {-47, -71, -103, -167, -239, -311, -719, -1439}
FirstPrimes == {p \in 3 .. 23 : \A d \in 2 .. p - 1 : p % d # 0}
Digest(seed) == FoldLeft(LAMBDA h, b : (h * 73 + 29 * b + (h \div 7) + 5) % 256, 91, seed)
SomeSeeds == {<<>>} \union {<<a, b, 1, 2>> : a, b \in 0 .. 3}
SomeB(x, y) == <<37, 53, 59, 61, 67, 83>>[((x + 7 * y) % 6) + 1]
Doubles == (1 .. 24) \union {97 * k + 13 : k \in 1 .. 10} \union {1007, 1022, 1023}
LongNumbers ==
  {1000000007 - 6777213 * k - 991 * k * k : k \in 0 .. 44} \union {1073741823, 5000011, 16777216}
Integers3 == {s * (k * k * 240007 + 77 * k + 3) : s \in {-1, 1}, k \in 0 .. 60}
Integers2 == {s * v : s \in {-1, 1}, v \in {1, 2, 3, 7, 63, 64, 65, 4095, 4096, 4097, 8191, 40000,
                                        65535, 1000003, 4194303, 4194304, 8388607}}
=============================================================================
