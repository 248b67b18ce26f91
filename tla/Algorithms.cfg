SPECIFICATION Spec
CONSTANTS
  LimbBits = 6
  ByteBits = 2
  MAX_D_BITS = 16
  HashBytes = 4
  Hash <- Digest
  SmallPrimes <- FirstPrimes
  Discriminants <- SmallDiscriminants
  Exponents = {0, 1, 2, 3, 4, 5, 8, 11, 13}
  MaxR = 130
  MaxTested = 1200
  Seeds <- SomeSeeds
  Lengths = {0, 6, 7, 10, 12, 18}
  BOf <- SomeB
  MaxT = 12
  MaxK = 3
  MaxL = 4
  WordBits = 12
  FractionBits = 10
  BaseBits = 10
  TableExponentBits = 2
  TableFractionBits = 3
  gcd_base_max_iter = 5
  gcd_128_max_iter = 3
  divide_table_index_bits = 3
  gcd_base_max_iter_divide_table = 4
  max_iterations = 8
  BaseNumbers <- Doubles
  GcdNumbers <- LongNumbers
  Thresholds = {0, 3, 40, 3000, 30000}
  Dividends <- Integers3
  Divisors <- Integers2
PROPERTIES GroupAgrees PartialGcdStages FormsRoundTrip PrimesExact ProofsVerify ClaimsExact BaseKernelsAgree GcdExact DivisionExact
