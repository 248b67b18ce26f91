------------------------- MODULE FastStorage_proofs -------------------------
(***************************************************************************)
(* Proofs about FastStorage and the rings of intermediates, for any number *)
(* of buckets, storage threads and segments in the window, any strides and *)
(* any length of the run.                                                  *)
(***************************************************************************)
EXTENDS FastStorage, DataLemmas

----------------------------------------------------------------------------
(***************************************************************************)
(* Arithmetic                                                              *)
(***************************************************************************)

LEMMA DivMod ==
  ASSUME NEW x \in Nat, NEW p \in Nat \ {0}
  PROVE  x \div p \in Nat /\ x % p \in 0 .. p - 1 /\ x = (x \div p) * p + (x % p)
  OBVIOUS

\* A product below x is of at most the quotient.
LEMMA QuotientAtLeast ==
  ASSUME NEW x \in Nat, NEW p \in Nat \ {0}, NEW a \in Nat, a * p <= x
  PROVE  a <= x \div p
  OBVIOUS

\* The digits of a number are known.
LEMMA Digits ==
  ASSUME NEW B \in Nat \ {0}, NEW a \in Nat, NEW b \in Nat,
         NEW c \in 0 .. B - 1, NEW d \in 0 .. B - 1, a * B + c = b * B + d
  PROVE  a = b /\ c = d
<1>1. ASSUME a < b PROVE FALSE
  <2>1. (a + 1) * B <= b * B
    BY <1>1
  <2> QED BY <2>1
<1>2. ASSUME b < a PROVE FALSE
  <2>1. (b + 1) * B <= a * B
    BY <1>2
  <2> QED BY <2>1
<1> QED BY <1>1, <1>2

LEMMA DivModOfSum ==
  ASSUME NEW p \in Nat \ {0}, NEW n \in Nat, NEW e \in 0 .. p - 1
  PROVE  (n * p + e) \div p = n /\ (n * p + e) % p = e
<1> DEFINE x == n * p + e
<1>1. x \in Nat
  OBVIOUS
<1>2. x \div p \in Nat /\ x % p \in 0 .. p - 1 /\ x = (x \div p) * p + (x % p)
  <2> HIDE DEF x
  <2> QED BY <1>1, DivMod
<1> DEFINE q == x \div p
           r == x % p
<1>3. n * p + e = q * p + r /\ q \in Nat /\ r \in 0 .. p - 1
  BY <1>2
<1> HIDE DEF q, r
<1>4. n = q /\ e = r
  BY <1>3, Digits
<1> QED BY <1>4 DEF q, r

\* Different numbers with the same remainder are at least W apart.
LEMMA SameRemainder ==
  ASSUME NEW W \in Nat \ {0}, NEW a \in Nat, NEW b \in Nat, a % W = b % W, a < b
  PROVE  a + W <= b
<1> DEFINE q == a \div W
           t == b \div W
           r == a % W
<1>1. q \in Nat /\ t \in Nat /\ r \in Nat /\ a = q * W + r /\ b = t * W + r
  <2>1. a \div W \in Nat /\ a % W \in 0 .. W - 1 /\ a = (a \div W) * W + (a % W)
    BY DivMod
  <2>2. b \div W \in Nat /\ b % W \in 0 .. W - 1 /\ b = (b \div W) * W + (b % W)
    BY DivMod
  <2> QED BY <2>1, <2>2
<1> HIDE DEF q, t, r
<1>2. ASSUME t <= q PROVE FALSE
  <2>1. t * W <= q * W
    BY <1>1, <1>2
  <2> QED BY <1>1, <2>1
<1>3. (q + 1) * W <= t * W
  BY <1>1, <1>2
<1> QED BY <1>1, <1>3

\* A segment of p iterations has (p + s - 1) \div s intermediates with stride s.
LEMMA Intermediates ==
  ASSUME NEW p \in Nat \ {0}, NEW s \in Nat \ {0}
  PROVE  /\ (p + s - 1) \div s \in Nat \ {0}
         /\ \A e \in 0 .. p - 1 : e \div s \in 0 .. ((p + s - 1) \div s) - 1
         /\ \A k \in 0 .. ((p + s - 1) \div s) - 1 : k * s \in 0 .. p - 1
<1> DEFINE x == p + s - 1
           B == x \div s
<1>1. x \in Nat /\ B \in Nat /\ B * s <= x
  <2>1. x \in Nat
    OBVIOUS
  <2> HIDE DEF x
  <2> QED BY <2>1, DivMod
<1>2. ASSUME NEW e \in 0 .. p - 1 PROVE e \div s \in 0 .. B - 1
  <2> DEFINE d == e \div s
  <2>1. d \in Nat /\ d * s <= e
    BY DivMod
  <2> HIDE DEF d
  <2>2. (d + 1) * s <= x
    BY <2>1
  <2> HIDE DEF x
  <2>3. d + 1 <= B
    BY <1>1, <2>1, <2>2, QuotientAtLeast
  <2> QED BY <1>1, <2>1, <2>3 DEF d
<1>3. ASSUME NEW k \in 0 .. B - 1 PROVE k * s \in 0 .. p - 1
  <2> HIDE DEF B
  <2>1. (k + 1) * s <= B * s
    BY <1>1
  <2>2. k * s + s <= x /\ k * s \in Nat
    BY <1>1, <2>1
  <2> QED BY <2>2
<1>4. B \in Nat \ {0}
  <2>1. 0 \in 0 .. p - 1
    OBVIOUS
  <2> QED BY <1>1, <1>2, <2>1
<1> QED BY <1>2, <1>3, <1>4

\* Two intermediates with one place in the ring are window_size segments apart.
Offset(x, p, s, W) == ((x \div p) % W) * ((p + s - 1) \div s) + (x % p) \div s

LEMMA SameOffset ==
  ASSUME NEW p \in Nat \ {0}, NEW s \in Nat \ {0}, NEW W \in Nat \ {0}, NEW x \in Nat, NEW y \in Nat,
         (x % p) % s = 0, (y % p) % s = 0, Offset(x, p, s, W) = Offset(y, p, s, W), x < y
  PROVE  x + W * p <= y
<1> DEFINE B == (p + s - 1) \div s
           a == x \div p
           b == y \div p
           c == x % p
           d == y % p
<1>1. a \in Nat /\ b \in Nat /\ c \in 0 .. p - 1 /\ d \in 0 .. p - 1 /\ x = a * p + c /\ y = b * p + d
  BY DivMod
<1>2. B \in Nat \ {0} /\ c \div s \in 0 .. B - 1 /\ d \div s \in 0 .. B - 1
  <2> HIDE DEF c, d
  <2> QED BY <1>1, Intermediates
<1>3. (a % W) * B + c \div s = (b % W) * B + d \div s
  BY DEF Offset
<1>4. c % s = 0 /\ d % s = 0
  OBVIOUS
<1> HIDE DEF a, b, c, d, B
<1>5. a % W \in Nat /\ b % W \in Nat
  BY <1>1
<1>6. a % W = b % W /\ c \div s = d \div s
  BY <1>2, <1>3, <1>5, Digits
<1>7. c = d
  <2>0. c \in Nat /\ d \in Nat
    BY <1>1
  <2>1. c = (c \div s) * s + (c % s) /\ d = (d \div s) * s + (d % s)
    BY <2>0, DivMod
  <2>2. c \div s \in Nat /\ d \div s \in Nat
    BY <1>1
  <2> QED BY <1>4, <1>6, <2>1, <2>2
<1>8. a < b
  <2>1. ASSUME b <= a PROVE FALSE
    <3>1. b * p <= a * p
      BY <1>1, <2>1
    <3> QED BY <1>1, <1>7, <3>1
  <2> QED BY <1>1, <2>1
<1>9. a + W <= b
  BY <1>1, <1>6, <1>8, SameRemainder
<1>10. (a + W) * p <= b * p
  BY <1>1, <1>9
<1> QED BY <1>1, <1>7, <1>10

----------------------------------------------------------------------------
(***************************************************************************)
(* The rings                                                               *)
(***************************************************************************)

\* Segments are at least Unit long.
LEMMA SegmentLengths ==
  /\ Unit \in Nat \ {0} /\ Half \in Nat \ {0} /\ Unit = 2 * Half /\ window_size \in Nat \ {0}
  /\ \A i \in Buckets : power_2[i] \in Nat \ {0} /\ power_2[i] >= Unit /\ Strides[i] \in Nat \ {0}
<1> DEFINE f == CHOOSE f : Geometric(f, segments, Unit, Ratio)
<1>1. power_2 = f
  BY Zenon DEF power_2, Geometric, Buckets
<1>2. Unit \in Nat \ {0} /\ segments \in Nat \ {0} /\ Ratio \in Nat \ {0} /\ Half \in Nat \ {0}
      /\ Unit = 2 * Half /\ window_size \in Nat \ {0}
  BY StorageAssumption DEF Unit
<1>3. Geometric(f, segments, Unit, Ratio)
  BY <1>2, GeometricExists
<1> HIDE DEF f
<1>4. \A i \in 0 .. segments - 1 : f[i] \in Nat \ {0} /\ f[i] >= Unit
  BY <1>2, <1>3, GeometricGrows
<1> QED BY <1>1, <1>2, <1>4, StorageAssumption DEF Buckets

\* Iteration m is an intermediate of bucket i.
KeptIn(i, m) == (m % power_2[i]) % Strides[i] = 0

\* Iterations that are a whole window of bucket i apart.
Apart(i, x, y) == x + window_size * power_2[i] <= y \/ y + window_size * power_2[i] <= x

LEMMA PositionIs ==
  ASSUME NEW i \in Buckets, NEW m \in Nat
  PROVE  /\ GetPosition(m, i) = <<i, Offset(m, power_2[i], Strides[i], window_size)>>
         /\ GetPosition(m, i) \in Positions
<1> DEFINE p == power_2[i]
           s == Strides[i]
           B == bucket_size(i)
           a == (m \div p) % window_size
           c == (m % p) \div s
<1>0. p \in Nat \ {0} /\ s \in Nat \ {0} /\ window_size \in Nat \ {0}
  BY SegmentLengths
<1>1. GetPosition(m, i) = <<i, a * B + c>> /\ B = (p + s - 1) \div s
  BY DEF GetPosition, bucket_size
<1>2. a \in 0 .. window_size - 1
  <2> HIDE DEF p
  <2> QED BY <1>0
<1>3. B \in Nat \ {0} /\ c \in 0 .. B - 1
  <2>1. m % p \in 0 .. p - 1
    BY <1>0
  <2> HIDE DEF p, s, B
  <2> QED BY <1>0, <1>1, <2>1, Intermediates
<1> HIDE DEF a, c, p, s, B
<1>4. a * B + c \in 0 .. window_size * B - 1
  <2>1. (a + 1) * B <= window_size * B
    BY <1>0, <1>2, <1>3
  <2> QED BY <1>0, <1>2, <1>3, <2>1
<1>5. GetPosition(m, i) \in {i} \X (0 .. window_size * bucket_size(i) - 1)
  BY <1>1, <1>4 DEF B
<1> QED BY <1>1, <1>5 DEF Positions, Offset, a, c, p, s

\* One place is used again a whole window later.
LEMMA SamePosition ==
  ASSUME NEW i \in Buckets, NEW j \in Buckets, NEW x \in Nat, NEW y \in Nat, KeptIn(i, x), KeptIn(j, y),
         GetPosition(x, i) = GetPosition(y, j), x # y
  PROVE  i = j /\ Apart(i, x, y)
<1>0. /\ power_2[i] \in Nat \ {0} /\ Strides[i] \in Nat \ {0} /\ window_size \in Nat \ {0}
  BY SegmentLengths
<1>1. /\ GetPosition(x, i) = <<i, Offset(x, power_2[i], Strides[i], window_size)>>
      /\ GetPosition(y, j) = <<j, Offset(y, power_2[j], Strides[j], window_size)>>
  BY PositionIs
<1>2. i = j /\ Offset(x, power_2[i], Strides[i], window_size) = Offset(y, power_2[j], Strides[j], window_size)
  <2> DEFINE u == Offset(x, power_2[i], Strides[i], window_size)
             v == Offset(y, power_2[j], Strides[j], window_size)
  <2>1. <<i, u>> = <<j, v>>
    BY <1>1
  <2> HIDE DEF u, v
  <2>2. i = j /\ u = v
    BY <2>1
  <2> QED BY <2>2 DEF u, v
<1> DEFINE p == power_2[i]
           s == Strides[i]
<1>3. /\ p \in Nat \ {0} /\ s \in Nat \ {0} /\ (x % p) % s = 0 /\ (y % p) % s = 0
      /\ Offset(x, p, s, window_size) = Offset(y, p, s, window_size)
  BY <1>0, <1>2 DEF KeptIn
<1> HIDE DEF p, s
<1>4. x < y => x + window_size * p <= y
  BY <1>0, <1>3, SameOffset
<1>5. y < x => y + window_size * p <= x
  BY <1>0, <1>3, SameOffset
<1> QED BY <1>2, <1>4, <1>5 DEF Apart, p

FormsOK == forms \in [Positions -> Int]

\* OnIteration stores a form at its places and at no other iteration's that is
\* less than a window away.
LEMMA SetFormsStores ==
  ASSUME FormsOK, NEW x \in 0 .. MaxIterations + Half, NEW value \in Int
  PROVE  /\ SetForms(x, value) \in [Positions -> Int]
         /\ \A i \in Buckets : KeptIn(i, x) => SetForms(x, value)[GetPosition(x, i)] = value
         /\ \A i \in Buckets, m \in Nat : KeptIn(i, m) /\ m # x /\ ~Apart(i, x, m) =>
              SetForms(x, value)[GetPosition(m, i)] = forms[GetPosition(m, i)]
<1>0. x \in Nat
  BY StorageAssumption
<1>1. Places[x] = {GetPosition(x, i) : i \in {b \in Buckets : KeptIn(b, x)}}
  BY Zenon DEF Places, KeptIn
<1>2. SetForms(x, value) = [p \in Positions |-> IF p \in Places[x] THEN value ELSE forms[p]]
  <2>1. CASE Places[x] = {}
    BY <2>1 DEF SetForms, FormsOK
  <2>2. CASE Places[x] # {}
    BY <2>2, Zenon DEF SetForms
  <2> QED BY <2>1, <2>2
<1>3. SetForms(x, value) \in [Positions -> Int]
  BY <1>2 DEF FormsOK
<1>4. ASSUME NEW i \in Buckets, KeptIn(i, x) PROVE SetForms(x, value)[GetPosition(x, i)] = value
  <2>1. GetPosition(x, i) \in Places[x] /\ GetPosition(x, i) \in Positions
    BY <1>0, <1>1, <1>4, PositionIs
  <2> QED BY <1>2, <2>1
<1>5. ASSUME NEW i \in Buckets, NEW m \in Nat, KeptIn(i, m), m # x, ~Apart(i, x, m)
      PROVE  SetForms(x, value)[GetPosition(m, i)] = forms[GetPosition(m, i)]
  <2>1. GetPosition(m, i) \in Positions
    BY PositionIs
  <2>2. ASSUME GetPosition(m, i) \in Places[x] PROVE FALSE
    <3>1. PICK j \in Buckets : KeptIn(j, x) /\ GetPosition(x, j) = GetPosition(m, i)
      BY <1>1, <2>2
    <3>2. j = i /\ Apart(j, x, m)
      BY <1>0, <1>5, <3>1, SamePosition
    <3> QED BY <1>5, <3>2
  <2> QED BY <1>2, <2>1, <2>2
<1> QED BY <1>3, <1>4, <1>5

\* The forms a prover reads: the k-th intermediate of segment n.
LEMMA ReadPosition ==
  ASSUME NEW i \in Buckets, NEW n \in Nat, NEW k \in 0 .. bucket_size(i) - 1
  PROVE  /\ n * power_2[i] + k * Strides[i] \in Nat /\ KeptIn(i, n * power_2[i] + k * Strides[i])
         /\ n * power_2[i] <= n * power_2[i] + k * Strides[i]
         /\ n * power_2[i] + k * Strides[i] < (n + 1) * power_2[i]
<1> DEFINE p == power_2[i]
           s == Strides[i]
           e == k * s
<1>0. p \in Nat \ {0} /\ s \in Nat \ {0} /\ bucket_size(i) = (p + s - 1) \div s
  BY SegmentLengths DEF bucket_size
<1>1. e \in 0 .. p - 1 /\ k \in Nat
  <2> HIDE DEF p, s
  <2>1. (p + s - 1) \div s \in Nat
    BY <1>0
  <2> QED BY <1>0, <2>1, Intermediates
<1>2. (n * p + e) % p = e
  <2> HIDE DEF p, e
  <2> QED BY <1>0, <1>1, DivModOfSum
<1>3. e % s = 0
  <2>1. (k * s + 0) % s = 0
    <3> HIDE DEF s
    <3>1. 0 \in 0 .. s - 1
      BY <1>0
    <3> QED BY <1>0, <1>1, <3>1, DivModOfSum
  <2>2. k * s + 0 = k * s
    BY <1>0, <1>1
  <2> QED BY <2>1, <2>2
<1>4. KeptIn(i, n * p + e)
  BY <1>2, <1>3 DEF KeptIn
<1>5. n * p + e \in Nat /\ n * p <= n * p + e /\ n * p + e < (n + 1) * p
  <2> HIDE DEF p, e
  <2>1. (n + 1) * p = n * p + p
    BY <1>0
  <2> QED BY <1>0, <1>1, <2>1
<1> QED BY <1>4, <1>5

----------------------------------------------------------------------------
(***************************************************************************)
(* The inductive invariant                                                 *)
(***************************************************************************)

\* A form is submitted at a multiple of Half.
OnHalf(x) == \E h \in Nat : x = h * Half

\* The halves that threads have stored.
Done == {b[2] : b \in buffered} \union intermediates_stored

Worker == [pc : {"wait", "store", "look", "ended"}, begin : Nat, y : Int, at : Nat]

TypesOK ==
  /\ multi_proc_machine \in BOOLEAN /\ FormsOK
  /\ num_iterations \in Nat /\ actual_iterations \in 0 .. batch_size
  /\ batch \in {"good", "corrupted", "slow"}
  /\ last_checkpoint \in Nat /\ iterations \in Nat /\ y_ret \in Int /\ intermediates_iter \in Nat
  /\ pending_intermediates \subseteq [at : Nat, y : Int]
  /\ worker \in [Threads -> Worker]
  /\ buffered \subseteq Threads \X Nat /\ intermediates_stored \subseteq Nat

\* The loop is less than a half behind the next form to submit, which y_ret
\* has when the loop has passed it (the first one from the start).
LoopInv ==
  /\ num_iterations + actual_iterations <= MaxIterations /\ iterations <= num_iterations
  /\ OnHalf(last_checkpoint) /\ last_checkpoint <= num_iterations + Half
  /\ num_iterations < last_checkpoint \/ (num_iterations = 0 /\ last_checkpoint = 0)
  /\ multi_proc_machine /\ (batch # "corrupted" \/ last_checkpoint = 0)
       /\ num_iterations + actual_iterations >= last_checkpoint => y_ret = last_checkpoint

\* Pending forms and the threads' halves are right and below last_checkpoint.
PendingInv ==
  /\ \A p \in pending_intermediates :
       OnHalf(p.at) /\ p.y = p.at /\ p.at + Half <= last_checkpoint
  /\ ~multi_proc_machine => pending_intermediates = {} /\ \A t \in Threads : worker[t].pc = "ended"
  /\ \A h \in Done : h * Half + Half <= last_checkpoint

HandInv(w, limit) ==
  /\ w.pc \in {"store", "look"} => OnHalf(w.begin) /\ w.y = w.begin /\ w.begin + Half <= limit
  /\ w.pc = "store" => w.begin <= w.at /\ w.at < w.begin + Half

\* The event loop has taken over only segments that are finished.
EventInv ==
  /\ ~multi_proc_machine => intermediates_iter <= iterations
  /\ multi_proc_machine =>
       \A s \in Nat : (s + 1) * Unit <= intermediates_iter => StoredSegment(s)

BaseInv ==
  /\ TypesOK /\ LoopInv /\ PendingInv /\ EventInv
  /\ \A t \in Threads : HandInv(worker[t], last_checkpoint)

LEMMA Constants ==
  /\ Half \in Nat \ {0} /\ batch_size \in Nat \ {0} /\ batch_size < Half /\ MaxIterations \in Nat
  /\ window_size \in Nat \ {0} /\ Bad = -1
  BY StorageAssumption DEF Bad

LEMMA HalfRemainder ==
  ASSUME NEW x \in Nat
  PROVE  OnHalf(x) <=> x % Half = 0
<1>1. Half \in Nat \ {0}
  BY Constants
<1>2. ASSUME OnHalf(x) PROVE x % Half = 0
  <2>1. PICK h \in Nat : x = h * Half + 0
    BY <1>1, <1>2 DEF OnHalf
  <2>2. 0 \in 0 .. Half - 1
    BY <1>1
  <2> QED BY <1>1, <2>1, <2>2, DivModOfSum
<1>3. ASSUME x % Half = 0 PROVE OnHalf(x)
  <2>1. x \div Half \in Nat /\ x = (x \div Half) * Half + (x % Half)
    BY <1>1, DivMod
  <2>2. x = (x \div Half) * Half
    BY <1>1, <1>3, <2>1
  <2> QED BY <2>1, <2>2 DEF OnHalf
<1> QED BY <1>2, <1>3

LEMMA NextHalf ==
  ASSUME NEW x \in Nat, OnHalf(x)
  PROVE  OnHalf(x + Half)
<1>1. PICK h \in Nat : x = h * Half
  BY DEF OnHalf
<1>2. h + 1 \in Nat /\ x + Half = (h + 1) * Half
  BY <1>1, Constants
<1> QED BY <1>2 DEF OnHalf

\* The half that starts at x.
LEMMA HalfNumber ==
  ASSUME NEW x \in Nat, OnHalf(x)
  PROVE  /\ x \div Half \in Nat /\ x = (x \div Half) * Half
         /\ \A m \in Nat : x <= m /\ m < x + Half => m \div Half = x \div Half
<1>0. Half \in Nat \ {0}
  BY Constants
<1>1. PICK h \in Nat : x = h * Half
  BY DEF OnHalf
<1>2. \A m \in Nat : x <= m /\ m < x + Half => m \div Half = h
  <2> TAKE m \in Nat
  <2> HAVE x <= m /\ m < x + Half
  <2> DEFINE e == m - h * Half
  <2>1. e \in 0 .. Half - 1 /\ m = h * Half + e
    BY <1>0, <1>1
  <2> HIDE DEF e
  <2> QED BY <1>0, <2>1, DivModOfSum
<1>3. x \div Half = h
  BY <1>0, <1>1, <1>2
<1> QED BY <1>1, <1>2, <1>3

\* The loop passes at most the form that is to be submitted next.
LEMMA OneHalfPerBatch ==
  ASSUME TypesOK, LoopInv, NEW x \in Nat, x % Half = 0, x >= last_checkpoint,
         x <= num_iterations + batch_size
  PROVE  x = last_checkpoint
<1>1. last_checkpoint % Half = 0 /\ last_checkpoint \in Nat /\ Half \in Nat \ {0}
  BY HalfRemainder, Constants DEF TypesOK, LoopInv
<1>2. ASSUME last_checkpoint < x PROVE FALSE
  <2>1. last_checkpoint + Half <= x
    BY <1>1, <1>2, SameRemainder
  <2> QED BY <1>1, <2>1, Constants DEF TypesOK, LoopInv
<1> QED BY <1>1, <1>2

LEMMA SquareBase ==
  ASSUME BaseInv, Square
  PROVE  BaseInv'
<1> DEFINE x == num_iterations + actual_iterations + 1
           value == IF batch = "corrupted" THEN Bad ELSE x
<1>1. /\ x \in Nat /\ x <= MaxIterations /\ value \in Int /\ x \in 0 .. MaxIterations + Half
      /\ actual_iterations < batch_size /\ actual_iterations' = actual_iterations + 1
      /\ OnIteration(x, value)
      /\ UNCHANGED <<multi_proc_machine, num_iterations, batch, last_checkpoint, iterations,
                     pending_intermediates, worker, intermediates_stored, buffered, leftBehind,
                     intermediates_iter>>
  BY Constants DEF BaseInv, TypesOK, Square, storeVars, eventVars
<1>2. FormsOK' /\ y_ret' \in Int
  <2>1. FormsOK /\ y_ret \in Int
    BY DEF BaseInv, TypesOK
  <2>2. SetForms(x, value) \in [Positions -> Int]
    <3> HIDE DEF x, value
    <3> QED BY <1>1, <2>1, SetFormsStores
  <2>3. forms' \in [Positions -> Int] /\ y_ret' \in Int
    <3> HIDE DEF x, value
    <3> QED BY <1>1, <2>1, <2>2 DEF OnIteration, FormsOK
  <2> QED BY <2>3 DEF FormsOK, Positions
<1>3. multi_proc_machine /\ (batch # "corrupted" \/ last_checkpoint = 0) /\ x >= last_checkpoint
        => y_ret' = last_checkpoint
  <2> SUFFICES ASSUME multi_proc_machine, batch # "corrupted" \/ last_checkpoint = 0, x >= last_checkpoint
               PROVE  y_ret' = last_checkpoint
    OBVIOUS
  <2>0. TypesOK /\ LoopInv
    BY DEF BaseInv
  <2>1. CASE x % Half = 0
    <3>1. y_ret' = value
      BY <1>1, <2>1 DEF OnIteration
    <3>2. x <= num_iterations + batch_size /\ x # 0
      BY <1>1, Constants DEF BaseInv, TypesOK
    <3>3. x = last_checkpoint
      <4> HIDE DEF x
      <4> QED BY <1>1, <2>0, <2>1, <3>2, OneHalfPerBatch
    <3> QED BY <3>1, <3>2, <3>3
  <2>2. CASE x % Half # 0
    <3>1. y_ret' = y_ret
      BY <1>1, <2>2 DEF OnIteration
    <3>2. last_checkpoint % Half = 0
      BY <2>0, HalfRemainder DEF TypesOK, LoopInv
    <3>3. num_iterations + actual_iterations >= last_checkpoint
      BY <1>1, <2>0, <2>2, <3>2 DEF TypesOK
    <3> QED BY <2>0, <3>1, <3>3 DEF LoopInv
  <2> QED BY <2>1, <2>2
<1>4. TypesOK' /\ LoopInv'
  BY <1>1, <1>2, <1>3, Constants DEF BaseInv, TypesOK, LoopInv, OnHalf
<1>5. PendingInv' /\ EventInv' /\ \A t \in Threads : HandInv(worker[t], last_checkpoint)'
  BY <1>1 DEF BaseInv, PendingInv, Done, EventInv, StoredSegment, HandInv, OnHalf
<1> QED BY <1>4, <1>5 DEF BaseInv

LEMMA EndBatchBase ==
  ASSUME BaseInv, EndBatch
  PROVE  BaseInv'
<1> DEFINE done == num_iterations + actual_iterations
<1>0. TypesOK /\ LoopInv /\ PendingInv /\ EventInv /\ \A t \in Threads : HandInv(worker[t], last_checkpoint)
  BY DEF BaseInv
<1>1. /\ done \in Nat /\ done <= num_iterations + batch_size /\ batch # "corrupted"
      /\ num_iterations' = done /\ actual_iterations' = 0 /\ batch' = "good"
      /\ UNCHANGED <<multi_proc_machine, y_ret, forms, worker, intermediates_stored, buffered,
                     leftBehind, intermediates_iter>>
  BY <1>0, Constants DEF TypesOK, EndBatch
<1>2. CASE done < last_checkpoint
  <2>1. UNCHANGED <<iterations, last_checkpoint, pending_intermediates>>
    BY <1>0, <1>1, <1>2 DEF EndBatch, TypesOK
  <2>2. TypesOK' /\ LoopInv'
    BY <1>0, <1>1, <1>2, <2>1, Constants DEF TypesOK, LoopInv, OnHalf, FormsOK, Positions
  <2>3. PendingInv' /\ EventInv' /\ \A t \in Threads : HandInv(worker[t], last_checkpoint)'
    BY <1>0, <1>1, <2>1 DEF PendingInv, Done, EventInv, StoredSegment, HandInv, OnHalf
  <2> QED BY <2>2, <2>3 DEF BaseInv
<1>3. CASE done >= last_checkpoint
  <2>1. /\ iterations' = done /\ last_checkpoint' = last_checkpoint + Half
        /\ multi_proc_machine => SubmitCheckpoint
        /\ ~multi_proc_machine => UNCHANGED pending_intermediates
    BY <1>0, <1>1, <1>3 DEF EndBatch, TypesOK
  <2>2. done < last_checkpoint + Half /\ OnHalf(last_checkpoint + Half) /\ last_checkpoint \in Nat
        /\ iterations <= done
    BY <1>0, <1>1, NextHalf, Constants DEF TypesOK, LoopInv
  <2>3. LoopInv'
    BY <1>0, <1>1, <1>3, <2>1, <2>2, Constants DEF TypesOK, LoopInv, OnHalf
  <2> DEFINE p == [at |-> last_checkpoint, y |-> y_ret]
  <2>4. /\ pending_intermediates' \subseteq pending_intermediates \union {p}
        /\ ~multi_proc_machine => pending_intermediates' = pending_intermediates
    BY <1>0, <2>1 DEF SubmitCheckpoint, TypesOK
  <2>5. p \in [at : Nat, y : Int] /\ p.at = last_checkpoint /\ (multi_proc_machine => p.y = last_checkpoint)
    BY <1>0, <1>1, <1>3 DEF TypesOK, LoopInv
  <2> HIDE DEF p
  <2>6. TypesOK'
    BY <1>0, <1>1, <2>1, <2>2, <2>4, <2>5, Constants DEF TypesOK, FormsOK, Positions
  <2>7. PendingInv'
    <3>1. ASSUME NEW q \in pending_intermediates'
          PROVE  OnHalf(q.at) /\ q.y = q.at /\ q.at + Half <= last_checkpoint + Half
      <4>1. CASE q = p
        <5>1. multi_proc_machine
          BY <1>0, <2>4, <3>1 DEF PendingInv
        <5> QED BY <1>0, <2>2, <2>5, <4>1, <5>1, Constants DEF LoopInv
      <4>2. CASE q \in pending_intermediates
        BY <1>0, <2>2, <4>2, Constants DEF PendingInv, TypesOK
      <4> QED BY <2>4, <3>1, <4>1, <4>2
    <3>2. ASSUME NEW h \in Done PROVE h * Half + Half <= last_checkpoint + Half
      <4>1. h \in Nat
        BY <1>0 DEF Done, TypesOK
      <4>2. h * Half + Half <= last_checkpoint
        BY <1>0 DEF PendingInv
      <4> QED BY <2>2, <4>1, <4>2, Constants
    <3>3. Done' = Done
      BY <1>1 DEF Done
    <3> QED BY <1>0, <1>1, <2>1, <2>4, <3>1, <3>2, <3>3 DEF PendingInv, OnHalf
  <2>8. \A t \in Threads : HandInv(worker[t], last_checkpoint)'
    <3>1. ASSUME NEW t \in Threads PROVE HandInv(worker[t], last_checkpoint + Half)
      <4>1. worker[t].begin \in Nat /\ HandInv(worker[t], last_checkpoint)
        BY <1>0 DEF TypesOK, Worker
      <4> QED BY <2>2, <4>1, Constants DEF HandInv
    <3> QED BY <1>1, <2>1, <3>1 DEF HandInv, OnHalf
  <2>9. EventInv'
    BY <1>0, <1>1, <2>1, <2>2 DEF EventInv, StoredSegment, TypesOK
  <2> QED BY <2>3, <2>6, <2>7, <2>8, <2>9 DEF BaseInv
<1> QED BY <1>0, <1>1, <1>2, <1>3 DEF TypesOK

\* A thread takes the first of the forms that wait.
LEMMA FirstIsPending ==
  ASSUME TypesOK, pending_intermediates # {}
  PROVE  First \in pending_intermediates
<1> DEFINE S == {p.at : p \in pending_intermediates}
<1>1. S \subseteq Nat /\ S # {}
  BY DEF TypesOK
<1>2. PICK a \in S : \A b \in S : a <= b
  <2> HIDE DEF S
  <2> QED BY <1>1, LeastNatural
<1>3. PICK p \in pending_intermediates : a = p.at
  BY <1>2
<1>4. \A q \in pending_intermediates : p.at <= q.at
  BY <1>2, <1>3
<1> QED BY <1>4 DEF First

\* What a thread does leaves the loop alone; it changes its own record.
LEMMA ThreadBase ==
  ASSUME BaseInv, NEW t \in Threads, NEW w \in Worker, worker' = [worker EXCEPT ![t] = w],
         HandInv(w, last_checkpoint), multi_proc_machine,
         pending_intermediates' \subseteq pending_intermediates, FormsOK',
         Done' \in SUBSET Nat, buffered' \subseteq Threads \X Nat,
         intermediates_stored \subseteq intermediates_stored',
         \A h \in Done' : h * Half + Half <= last_checkpoint,
         UNCHANGED <<multi_proc_machine, loopVars, y_ret, intermediates_iter>>
  PROVE  BaseInv'
<1>0. TypesOK /\ LoopInv /\ PendingInv /\ EventInv /\ \A u \in Threads : HandInv(worker[u], last_checkpoint)
  BY DEF BaseInv
<1>1. UNCHANGED <<num_iterations, actual_iterations, batch, last_checkpoint, iterations>>
  BY DEF loopVars
<1>2. worker' \in [Threads -> Worker] /\ \A u \in Threads : worker'[u] = IF u = t THEN w ELSE worker[u]
  BY <1>0 DEF TypesOK
<1>3. TypesOK'
  <2>1. intermediates_stored' \subseteq Nat
    BY DEF Done
  <2> QED BY <1>0, <1>1, <1>2, <2>1 DEF TypesOK, FormsOK
<1>4. LoopInv'
  BY <1>0, <1>1 DEF LoopInv, OnHalf
<1>5. PendingInv'
  BY <1>0, <1>1 DEF PendingInv, OnHalf
<1>6. \A u \in Threads : HandInv(worker[u], last_checkpoint)'
  <2>1. \A u \in Threads : HandInv(worker'[u], last_checkpoint)
    BY <1>0, <1>2
  <2> QED BY <1>1, <2>1 DEF HandInv, OnHalf
<1>7. EventInv'
  BY <1>0 DEF EventInv, StoredSegment
<1> QED BY <1>3, <1>4, <1>5, <1>6, <1>7 DEF BaseInv

\* Only a thread of a multi_proc_machine has something to do.
LEMMA ThreadIsMulti ==
  ASSUME BaseInv, NEW t \in Threads, worker[t].pc # "ended"
  PROVE  multi_proc_machine
  BY DEF BaseInv, PendingInv, TypesOK

LEMMA TakeBase ==
  ASSUME BaseInv, NEW t \in Threads, TakePending(t)
  PROVE  BaseInv'
<1> DEFINE w == [pc |-> "store", begin |-> First.at, y |-> First.y, at |-> First.at]
<1>0. TypesOK /\ PendingInv
  BY DEF BaseInv
<1>1. First \in pending_intermediates
  BY <1>0, FirstIsPending DEF TakePending
<1>2. First.at \in Nat /\ First.y \in Int /\ OnHalf(First.at) /\ First.y = First.at
      /\ First.at + Half <= last_checkpoint
  BY <1>0, <1>1 DEF TypesOK, PendingInv
<1>3. w \in Worker /\ w.pc = "store" /\ w.begin = First.at /\ w.y = First.y /\ w.at = First.at
  BY <1>2 DEF Worker
<1>4. worker' = [worker EXCEPT ![t] = w] /\ multi_proc_machine
  <2>1. worker[t].pc # "ended"
    BY DEF TakePending
  <2> QED BY <2>1, ThreadIsMulti DEF TakePending
<1> HIDE DEF w
<1>5. HandInv(w, last_checkpoint)
  BY <1>2, <1>3, Constants DEF HandInv
<1>6. /\ UNCHANGED <<forms, intermediates_stored, buffered, multi_proc_machine, loopVars, y_ret, intermediates_iter>>
      /\ pending_intermediates' \subseteq pending_intermediates /\ Done' = Done
  BY DEF TakePending, OutsideThread, eventVars, Done
<1>7. /\ FormsOK' /\ Done' \in SUBSET Nat /\ buffered' \subseteq Threads \X Nat
      /\ \A h \in Done' : h * Half + Half <= last_checkpoint
  BY <1>0, <1>6 DEF TypesOK, FormsOK, Positions, Done, PendingInv
<1> QED BY <1>3, <1>4, <1>5, <1>6, <1>7, ThreadBase

LEMMA EndThreadBase ==
  ASSUME BaseInv, NEW t \in Threads, EndThread(t)
  PROVE  BaseInv'
<1> DEFINE w == [Idle EXCEPT !.pc = "ended"]
<1>0. TypesOK /\ PendingInv
  BY DEF BaseInv
<1>1. w \in Worker /\ w.pc = "ended"
  BY DEF Idle, Worker
<1>2. worker' = [worker EXCEPT ![t] = w] /\ multi_proc_machine
  <2>1. worker[t].pc # "ended"
    BY DEF EndThread
  <2> QED BY <2>1, ThreadIsMulti DEF EndThread
<1> HIDE DEF w
<1>3. HandInv(w, last_checkpoint)
  BY <1>1 DEF HandInv
<1>6. /\ UNCHANGED <<forms, intermediates_stored, buffered, multi_proc_machine, loopVars, y_ret, intermediates_iter>>
      /\ pending_intermediates' \subseteq pending_intermediates /\ Done' = Done
  BY DEF EndThread, OutsideThread, eventVars, Done
<1>7. /\ FormsOK' /\ Done' \in SUBSET Nat /\ buffered' \subseteq Threads \X Nat
      /\ \A h \in Done' : h * Half + Half <= last_checkpoint
  BY <1>0, <1>6 DEF TypesOK, FormsOK, Positions, Done, PendingInv
<1> QED BY <1>1, <1>2, <1>3, <1>6, <1>7, ThreadBase

LEMMA LookBase ==
  ASSUME BaseInv, NEW t \in Threads, LookAtHalves(t)
  PROVE  BaseInv'
<1>0. TypesOK /\ PendingInv
  BY DEF BaseInv
<1>1. Idle \in Worker /\ Idle.pc = "wait"
  BY DEF Idle, Worker
<1>2. worker' = [worker EXCEPT ![t] = Idle] /\ multi_proc_machine
  <2>1. worker[t].pc # "ended"
    BY DEF LookAtHalves
  <2> QED BY <2>1, ThreadIsMulti DEF LookAtHalves
<1>3. HandInv(Idle, last_checkpoint)
  BY <1>1 DEF HandInv
<1>6. /\ UNCHANGED <<forms, intermediates_stored, buffered, multi_proc_machine, loopVars, y_ret, intermediates_iter>>
      /\ pending_intermediates' \subseteq pending_intermediates /\ Done' = Done
  BY DEF LookAtHalves, Done
<1>7. /\ FormsOK' /\ Done' \in SUBSET Nat /\ buffered' \subseteq Threads \X Nat
      /\ \A h \in Done' : h * Half + Half <= last_checkpoint
  BY <1>0, <1>6 DEF TypesOK, FormsOK, Positions, Done, PendingInv
<1> QED BY <1>1, <1>2, <1>3, <1>6, <1>7, ThreadBase

\* The record of a thread after it stored one more form.
Stepped(w) == [pc |-> IF w.at + 1 = w.begin + Half THEN "look" ELSE "store",
               begin |-> w.begin, y |-> w.y, at |-> w.at + 1]

\* What StoreIntermediate stores, and what it makes known.
LEMMA StoreFacts ==
  ASSUME BaseInv, NEW t \in Threads, StoreIntermediate(t)
  PROVE  /\ multi_proc_machine /\ worker[t] \in Worker /\ worker[t].pc = "store"
         /\ HandInv(worker[t], last_checkpoint)
         /\ worker[t].at \in 0 .. MaxIterations + Half /\ worker[t].at < last_checkpoint
         /\ forms' = SetForms(worker[t].at, worker[t].at)
         /\ worker' = [worker EXCEPT ![t] = Stepped(worker[t])]
         /\ UNCHANGED <<OutsideThread, pending_intermediates, intermediates_stored>>
         /\ Done' = IF worker[t].at + 1 = worker[t].begin + Half
                      THEN Done \union {worker[t].begin \div Half} ELSE Done
         /\ leftBehind' = (leftBehind \/ worker[t].at + window_size * Unit < last_checkpoint)
<1> DEFINE w == worker[t]
<1>0. TypesOK /\ LoopInv /\ w \in Worker /\ HandInv(w, last_checkpoint) /\ worker \in [Threads -> Worker]
  BY DEF BaseInv, TypesOK
<1>1. w.pc = "store"
  BY DEF StoreIntermediate
<1>2. multi_proc_machine
  BY <1>1, ThreadIsMulti
<1>3. w.begin \in Nat /\ w.at \in Nat /\ w.y = w.begin /\ w.begin + Half <= last_checkpoint
      /\ w.at < w.begin + Half
  <2> HIDE DEF w
  <2> QED BY <1>0, <1>1 DEF Worker, HandInv
<1>4. w.at \in 0 .. MaxIterations + Half /\ w.at < last_checkpoint
  <2> HIDE DEF w
  <2> QED BY <1>0, <1>3, Constants DEF TypesOK, LoopInv
<1>5. forms' = SetForms(w.at, w.at)
  BY <1>3 DEF StoreIntermediate
<1>6. worker' = [worker EXCEPT ![t] = Stepped(w)]
  <2> DEFINE pc2 == IF w.at + 1 = w.begin + Half THEN "look" ELSE "store"
             a2 == w.at + 1
  <2>1. worker' = [worker EXCEPT ![t].at = a2, ![t].pc = pc2]
    BY DEF StoreIntermediate
  <2> HIDE DEF pc2, a2
  <2>2. worker' = [worker EXCEPT ![t] = [[w EXCEPT !.at = a2] EXCEPT !.pc = pc2]]
    BY <1>0, <2>1
  <2>3. [[w EXCEPT !.at = a2] EXCEPT !.pc = pc2] = [pc |-> pc2, begin |-> w.begin, y |-> w.y, at |-> a2]
    <3> DEFINE v == [w EXCEPT !.at = a2]
               u == [v EXCEPT !.pc = pc2]
    <3>0. a2 \in Nat /\ pc2 \in {"wait", "store", "look", "ended"}
      BY <1>3 DEF a2, pc2
    <3> HIDE DEF w
    <3>1. v \in Worker /\ v.begin = w.begin /\ v.y = w.y /\ v.at = a2
      BY <1>0, <3>0 DEF Worker
    <3> HIDE DEF v
    <3>2. u \in Worker /\ u.pc = pc2 /\ u.begin = v.begin /\ u.y = v.y /\ u.at = v.at
      BY <3>0, <3>1 DEF Worker
    <3> HIDE DEF u
    <3>3. u = [pc |-> u.pc, begin |-> u.begin, y |-> u.y, at |-> u.at]
      BY <3>2 DEF Worker
    <3>4. u = [pc |-> pc2, begin |-> w.begin, y |-> w.y, at |-> a2]
      BY <3>1, <3>2, <3>3
    <3> QED BY <3>4 DEF u, v
  <2> QED BY <2>2, <2>3 DEF Stepped, pc2, a2
<1>7. UNCHANGED <<OutsideThread, pending_intermediates, intermediates_stored>>
      /\ leftBehind' = (leftBehind \/ w.at + window_size * Unit < last_checkpoint)
  BY DEF StoreIntermediate
<1>8. Done' = IF w.at + 1 = w.begin + Half THEN Done \union {w.begin \div Half} ELSE Done
  <2> DEFINE h == w.begin \div Half
  <2>1. CASE w.at + 1 = w.begin + Half
    <3>1. buffered' = buffered \union {<<t, h>>} /\ intermediates_stored' = intermediates_stored
      BY <2>1 DEF StoreIntermediate
    <3> HIDE DEF h
    <3>2. {b[2] : b \in buffered'} = {b[2] : b \in buffered} \union {h}
      <4> DEFINE c == <<t, h>>
      <4>1. c[2] = h
        OBVIOUS
      <4> HIDE DEF c
      <4>2. buffered' = buffered \union {c}
        BY <3>1 DEF c
      <4>3. {b[2] : b \in buffered \union {c}} = {b[2] : b \in buffered} \union {c[2]}
        OBVIOUS
      <4> QED BY <4>1, <4>2, <4>3
    <3>3. Done' = Done \union {h}
      BY <3>1, <3>2 DEF Done
    <3> QED BY <2>1, <3>3 DEF h
  <2>2. CASE w.at + 1 # w.begin + Half
    BY <2>2 DEF StoreIntermediate, Done
  <2> QED BY <2>1, <2>2
<1> QED BY <1>0, <1>1, <1>2, <1>4, <1>5, <1>6, <1>7, <1>8

LEMMA StoreBase ==
  ASSUME BaseInv, NEW t \in Threads, StoreIntermediate(t)
  PROVE  BaseInv'
<1> DEFINE w == worker[t]
           h == w.begin \div Half
<1>0. TypesOK /\ PendingInv
  BY DEF BaseInv
<1>1. /\ multi_proc_machine /\ w \in Worker /\ w.pc = "store" /\ HandInv(w, last_checkpoint)
      /\ w.at \in 0 .. MaxIterations + Half /\ w.at < last_checkpoint
      /\ forms' = SetForms(w.at, w.at) /\ worker' = [worker EXCEPT ![t] = Stepped(w)]
      /\ UNCHANGED <<OutsideThread, pending_intermediates, intermediates_stored>>
      /\ Done' = IF w.at + 1 = w.begin + Half THEN Done \union {h} ELSE Done
  BY StoreFacts
<1>2. buffered' \subseteq buffered \union {<<t, h>>}
  BY DEF StoreIntermediate
<1> HIDE DEF w
<1>3. OnHalf(w.begin) /\ w.begin \in Nat /\ w.begin + Half <= last_checkpoint /\ w.at \in Nat
      /\ w.begin <= w.at /\ w.at < w.begin + Half /\ w.y = w.begin /\ w.y \in Int
  BY <1>1 DEF Worker, HandInv
<1>4. h \in Nat /\ w.begin = h * Half
  BY <1>3, HalfNumber
<1> HIDE DEF h
<1>5. Stepped(w) \in Worker /\ HandInv(Stepped(w), last_checkpoint)
  <2> DEFINE v == Stepped(w)
  <2>1. v.pc \in {"look", "store"} /\ v.begin = w.begin /\ v.y = w.y /\ v.at = w.at + 1
        /\ v \in Worker /\ (v.pc = "store" => w.at + 1 # w.begin + Half)
    BY <1>3 DEF Stepped, Worker
  <2> HIDE DEF v
  <2>2. HandInv(v, last_checkpoint)
    BY <1>3, <2>1, Constants DEF HandInv
  <2> QED BY <2>1, <2>2 DEF v
<1>6. FormsOK'
  <2>1. FormsOK /\ w.at \in Int
    BY <1>0, <1>3 DEF TypesOK
  <2>2. SetForms(w.at, w.at) \in [Positions -> Int]
    BY <1>1, <2>1, SetFormsStores
  <2> QED BY <1>1, <2>2 DEF FormsOK, Positions
<1>7. Done' \in SUBSET Nat /\ buffered' \subseteq Threads \X Nat
  <2>1. Done \subseteq Nat /\ buffered \subseteq Threads \X Nat
    BY <1>0 DEF TypesOK, Done
  <2>2. <<t, h>> \in Threads \X Nat
    BY <1>4
  <2>3. Done' \subseteq Nat
    BY <1>1, <1>4, <2>1
  <2> QED BY <1>2, <2>1, <2>2, <2>3
<1>8. \A x \in Done' : x * Half + Half <= last_checkpoint
  BY <1>0, <1>1, <1>3, <1>4 DEF PendingInv
<1>9. UNCHANGED <<multi_proc_machine, loopVars, y_ret, intermediates_iter>>
      /\ pending_intermediates' \subseteq pending_intermediates
      /\ intermediates_stored \subseteq intermediates_stored'
  BY <1>1 DEF OutsideThread, eventVars
<1> QED BY <1>1, <1>5, <1>6, <1>7, <1>8, <1>9, ThreadBase

\* A store that reaches the other threads is the same half.
LEMMA FlushDone ==
  ASSUME BaseInv, NEW t \in Threads, Flush(t)
  PROVE  Done' = Done /\ buffered' \subseteq buffered
         /\ intermediates_stored \subseteq intermediates_stored' /\ intermediates_stored' \subseteq Done
<1>1. PICK h \in {b[2] : b \in {c \in buffered : c[1] = t}} :
        intermediates_stored' = intermediates_stored \union {h} /\ buffered' = buffered \ {<<t, h>>}
  BY DEF Flush
<1>2. PICK b \in buffered : b[1] = t /\ b[2] = h
  BY <1>1
<1>3. buffered \subseteq Threads \X Nat
  BY DEF BaseInv, TypesOK
<1>4. {c[2] : c \in buffered'} \union {h} = {c[2] : c \in buffered}
  <2>1. \A c \in buffered : c = <<c[1], c[2]>>
    BY <1>3
  <2>2. ASSUME NEW c \in buffered PROVE c[2] = h \/ c \in buffered'
    BY <1>1, <2>1
  <2>3. buffered' \subseteq buffered
    BY <1>1
  <2> QED BY <1>2, <2>2, <2>3
<1> QED BY <1>1, <1>4 DEF Done

LEMMA FlushBase ==
  ASSUME BaseInv, NEW t \in Threads, Flush(t)
  PROVE  BaseInv'
<1>0. TypesOK /\ PendingInv /\ LoopInv /\ EventInv /\ \A u \in Threads : HandInv(worker[u], last_checkpoint)
  BY DEF BaseInv
<1>1. /\ UNCHANGED <<multi_proc_machine, num_iterations, actual_iterations, batch, last_checkpoint,
                     iterations, y_ret, intermediates_iter, forms, pending_intermediates, worker>>
  BY DEF Flush, OutsideThread, loopVars, eventVars
<1>2. Done' = Done /\ buffered' \subseteq buffered
      /\ intermediates_stored \subseteq intermediates_stored' /\ intermediates_stored' \subseteq Done
  BY FlushDone
<1>3. Done \subseteq Nat
  BY <1>0 DEF TypesOK, Done
<1>4. TypesOK'
  BY <1>0, <1>1, <1>2, <1>3 DEF TypesOK, FormsOK, Positions
<1>5. LoopInv' /\ PendingInv' /\ \A u \in Threads : HandInv(worker[u], last_checkpoint)'
  BY <1>0, <1>1, <1>2 DEF LoopInv, PendingInv, HandInv, OnHalf
<1>6. EventInv'
  BY <1>0, <1>1, <1>2 DEF EventInv, StoredSegment
<1> QED BY <1>4, <1>5, <1>6 DEF BaseInv

\* GetFinishedSegment passes only segments whose halves are both stored.
OnUnit(x) == \E k \in Nat : x = k * Unit

LEMMA FinishedAreStored ==
  ASSUME TypesOK, EventInv, multi_proc_machine
  PROVE  /\ GetFinishedSegment \in Nat /\ OnUnit(GetFinishedSegment)
         /\ \A s \in Nat : (s + 1) * Unit <= GetFinishedSegment => StoredSegment(s)
<1> DEFINE n == intermediates_iter \div Unit
           S == {m \in n .. n + MaxIterations : \A s \in n .. m - 1 : StoredSegment(s)}
<1>0. n \in Nat /\ Unit \in Nat \ {0} /\ n * Unit <= intermediates_iter /\ MaxIterations \in Nat
      /\ intermediates_iter \in Nat
  <2>1. Unit \in Nat \ {0} /\ intermediates_iter \in Nat /\ MaxIterations \in Nat
    BY SegmentLengths, Constants DEF TypesOK
  <2> QED BY <2>1, DivMod
<1> HIDE DEF n
<1>1. S \subseteq Nat /\ n \in S /\ n + MaxIterations \in Nat /\ \A m \in S : m <= n + MaxIterations
  BY <1>0
<1>2. Max(S) \in S
  <2> HIDE DEF S
  <2>1. S # {}
    BY <1>1
  <2>2. \E x \in S : \A y \in S : y <= x
    BY <1>1, <2>1, GreatestNatural
  <2>3. \E x \in S : \A y \in S : x >= y
    BY <1>1, <2>2
  <2> QED BY <2>3 DEF Max
<1> DEFINE M == Max(S)
<1>3. M \in Nat /\ \A s \in n .. M - 1 : StoredSegment(s)
  <2>1. ASSUME NEW m \in S PROVE m \in Nat /\ \A s \in n .. m - 1 : StoredSegment(s)
    BY <1>1
  <2> HIDE DEF S
  <2> QED BY <1>2, <2>1
<1>4. GetFinishedSegment = Unit * M
  BY DEF GetFinishedSegment, n
<1> HIDE DEF M, S
<1>5. ASSUME NEW s \in Nat, (s + 1) * Unit <= Unit * M PROVE StoredSegment(s)
  <2>1. s < M
    <3>1. ASSUME M <= s PROVE FALSE
      <4>1. Unit * M <= s * Unit
        BY <1>0, <1>3, <3>1
      <4>2. (s + 1) * Unit = s * Unit + Unit /\ s * Unit \in Nat /\ Unit * M \in Nat
        BY <1>0, <1>3
      <4> QED BY <1>0, <1>5, <4>1, <4>2
    <3> QED BY <1>3, <3>1
  <2>2. CASE n <= s
    BY <1>0, <1>3, <2>1, <2>2
  <2>3. CASE s < n
    <3>1. (s + 1) * Unit <= n * Unit
      BY <1>0, <2>3
    <3>2. (s + 1) * Unit \in Nat /\ n * Unit \in Nat
      BY <1>0
    <3>3. (s + 1) * Unit <= intermediates_iter
      BY <1>0, <3>1, <3>2
    <3> QED BY <3>3 DEF EventInv
  <2> QED BY <1>0, <2>2, <2>3
<1>6. Unit * M \in Nat /\ Unit * M = M * Unit
  BY <1>0, <1>3
<1>7. OnUnit(Unit * M)
  BY <1>3, <1>6 DEF OnUnit
<1> QED BY <1>4, <1>5, <1>6, <1>7

LEMMA EventBase ==
  ASSUME BaseInv, RunEventLoop \/ OtherEvent \/ Stop \/ Redo \/ Corrupt \/ UNCHANGED vars
  PROVE  BaseInv'
<1>0. TypesOK /\ PendingInv /\ LoopInv /\ EventInv /\ \A u \in Threads : HandInv(worker[u], last_checkpoint)
  BY DEF BaseInv
<1>1. /\ UNCHANGED <<multi_proc_machine, num_iterations, last_checkpoint, iterations, y_ret, forms,
                     pending_intermediates, worker, intermediates_stored, buffered>>
      /\ batch' \in {"good", "corrupted", "slow"} /\ actual_iterations' \in 0 .. batch_size
      /\ actual_iterations' <= actual_iterations
      /\ batch' # "corrupted" /\ actual_iterations' # 0 =>
           batch # "corrupted" /\ actual_iterations' = actual_iterations
      /\ batch' # "corrupted" => batch # "corrupted" \/ actual_iterations' = 0
  BY <1>0, Constants DEF RunEventLoop, OtherEvent, Stop, Redo, Corrupt, vars, loopVars, storeVars,
         TypesOK
<1>2. intermediates_iter' = intermediates_iter \/ RunEventLoop
  BY DEF OtherEvent, Stop, Redo, Corrupt, vars, eventVars
<1>3. intermediates_iter' \in Nat /\ EventInv'
  <2>1. CASE intermediates_iter' = intermediates_iter
    BY <1>0, <1>1, <2>1 DEF TypesOK, EventInv, StoredSegment
  <2>2. CASE RunEventLoop /\ multi_proc_machine
    <3>1. intermediates_iter' = GetFinishedSegment
      BY <2>2 DEF RunEventLoop
    <3>2. /\ GetFinishedSegment \in Nat
          /\ \A s \in Nat : (s + 1) * Unit <= GetFinishedSegment => StoredSegment(s)
      BY <1>0, <2>2, FinishedAreStored
    <3> QED BY <1>1, <2>2, <3>1, <3>2 DEF EventInv, StoredSegment
  <2>3. CASE RunEventLoop /\ ~multi_proc_machine
    BY <1>0, <1>1, <2>3 DEF RunEventLoop, EventInv, TypesOK
  <2> QED BY <1>2, <2>1, <2>2, <2>3
<1>4. TypesOK'
  BY <1>0, <1>1, <1>3 DEF TypesOK, FormsOK, Positions
<1>5. LoopInv'
  <2>0. /\ num_iterations \in Nat /\ actual_iterations \in Nat /\ actual_iterations' \in Nat
        /\ actual_iterations' <= actual_iterations /\ last_checkpoint \in Nat
        /\ num_iterations + actual_iterations <= MaxIterations /\ MaxIterations \in Nat
    <3>1. actual_iterations' <= actual_iterations /\ actual_iterations' \in 0 .. batch_size
          /\ (batch' # "corrupted" => batch # "corrupted" \/ actual_iterations' = 0)
      BY <1>1, Zenon
    <3> QED BY <1>0, <3>1, Constants DEF TypesOK, LoopInv
  <2>a. /\ num_iterations + actual_iterations' <= MaxIterations
        /\ num_iterations + actual_iterations' >= last_checkpoint =>
             num_iterations + actual_iterations >= last_checkpoint
    <3> DEFINE n == num_iterations
               a == actual_iterations
               b == actual_iterations'
               l == last_checkpoint
    <3>1. n \in Nat /\ a \in Nat /\ b \in Nat /\ l \in Nat /\ MaxIterations \in Nat /\ b <= a
          /\ n + a <= MaxIterations
      BY <2>0
    <3> HIDE DEF n, a, b, l
    <3>2. n + b <= MaxIterations /\ (n + b >= l => n + a >= l)
      BY <3>1
    <3> QED BY <3>2 DEF n, a, b, l
  <2>1. multi_proc_machine /\ (batch' # "corrupted" \/ last_checkpoint = 0)
          /\ num_iterations + actual_iterations' >= last_checkpoint => y_ret = last_checkpoint
    <3> SUFFICES ASSUME multi_proc_machine, batch' # "corrupted" \/ last_checkpoint = 0,
                        num_iterations + actual_iterations' >= last_checkpoint
                 PROVE  y_ret = last_checkpoint
      OBVIOUS
    <3>1. num_iterations + actual_iterations >= last_checkpoint
      BY <2>a
    <3>2. batch # "corrupted" \/ last_checkpoint = 0
      <4>1. num_iterations < last_checkpoint \/ last_checkpoint = 0
        BY <1>0 DEF LoopInv
      <4>2. CASE actual_iterations' = 0
        BY <2>0, <4>1, <4>2
      <4>3. CASE actual_iterations' # 0
        BY <1>1, <4>3
      <4> QED BY <4>2, <4>3
    <3> QED BY <1>0, <3>1, <3>2 DEF LoopInv
  <2>2. num_iterations + actual_iterations' <= MaxIterations
    BY <2>a
  <2> QED BY <1>0, <1>1, <2>1, <2>2 DEF LoopInv, OnHalf
<1>6. PendingInv' /\ \A u \in Threads : HandInv(worker[u], last_checkpoint)'
  BY <1>0, <1>1 DEF PendingInv, HandInv, OnHalf, Done
<1> QED BY <1>3, <1>4, <1>5, <1>6 DEF BaseInv

LEMMA BaseInit == Init => BaseInv
<1> SUFFICES ASSUME Init PROVE BaseInv
  OBVIOUS
<1>1. Idle \in Worker /\ Idle.pc = "wait" /\ [Idle EXCEPT !.pc = "ended"] \in Worker
      /\ [Idle EXCEPT !.pc = "ended"].pc = "ended"
  BY DEF Idle, Worker
<1>2. worker \in [Threads -> Worker] /\ \A t \in Threads : worker[t].pc \in {"wait", "ended"}
      /\ (~multi_proc_machine => worker[t].pc = "ended")
  <2> DEFINE w == IF multi_proc_machine THEN Idle ELSE [Idle EXCEPT !.pc = "ended"]
  <2>1. worker = [t \in Threads |-> w]
    BY DEF Init
  <2>2. w \in Worker /\ w.pc \in {"wait", "ended"} /\ (~multi_proc_machine => w.pc = "ended")
    BY <1>1
  <2> HIDE DEF w
  <2> QED BY <2>1, <2>2
<1>3. FormsOK
  <2>1. forms = [p \in Positions |-> IF p[2] = 0 THEN 0 ELSE Bad]
    BY DEF Init
  <2>2. Bad \in Int
    BY Constants
  <2> QED BY <2>1, <2>2 DEF FormsOK
<1>4. Done = {}
  BY DEF Init, Done
<1>5. multi_proc_machine \in BOOLEAN
  BY StorageAssumption DEF Init
<1>6. TypesOK
  <2>1. 0 \in 0 .. batch_size
    BY Constants
  <2> QED BY <1>2, <1>3, <1>5, <2>1 DEF Init, TypesOK
<1>7. OnHalf(0)
  <2>1. 0 \in Nat /\ 0 = 0 * Half
    BY Constants
  <2> QED BY <2>1 DEF OnHalf
<1>8. LoopInv
  BY <1>7, Constants DEF Init, LoopInv
<1>9. PendingInv /\ \A t \in Threads : HandInv(worker[t], last_checkpoint)
  BY <1>2, <1>4 DEF Init, PendingInv, HandInv
<1>10. EventInv
  <2>1. ASSUME NEW s \in Nat PROVE ~((s + 1) * Unit <= 0)
    BY SegmentLengths
  <2>2. intermediates_iter = 0 /\ iterations = 0
    BY DEF Init
  <2> QED BY <2>1, <2>2 DEF EventInv
<1> QED BY <1>6, <1>8, <1>9, <1>10 DEF BaseInv

LEMMA BaseNext == BaseInv /\ [Next]_vars => BaseInv'
<1> SUFFICES ASSUME BaseInv, [Next]_vars PROVE BaseInv'
  OBVIOUS
<1>1. CASE Square
  BY <1>1, SquareBase
<1>2. CASE EndBatch
  BY <1>2, EndBatchBase
<1>3. CASE RunEventLoop \/ OtherEvent \/ Stop \/ Redo \/ Corrupt \/ UNCHANGED vars
  BY <1>3, EventBase
<1>4. ASSUME NEW t \in Threads, ThreadStep(t) \/ Flush(t) PROVE BaseInv'
  BY <1>4, TakeBase, EndThreadBase, StoreBase, LookBase, FlushBase DEF ThreadStep
<1> QED BY <1>1, <1>2, <1>3, <1>4 DEF Next, LoopStep

----------------------------------------------------------------------------
(***************************************************************************)
(* Every half is in one place                                              *)
(***************************************************************************)

Busy == {t \in Threads : worker[t].pc = "store"}
Waiting == {p.at \div Half : p \in pending_intermediates}
InHand == {worker[t].begin \div Half : t \in Busy}

\* Until the stop the halves below last_checkpoint wait for a thread, are in
\* the hands of one, or done.
OnceInv ==
  multi_proc_machine /\ ~stopped =>
    /\ Waiting \union InHand \union Done = 0 .. last_checkpoint \div Half - 1
    /\ Waiting \intersect InHand = {} /\ Waiting \intersect Done = {} /\ InHand \intersect Done = {}
    /\ \A t, u \in Busy : worker[t].begin \div Half = worker[u].begin \div Half => t = u

\* The steps after which everything is where it was.
LEMMA OnceSame ==
  ASSUME OnceInv, UNCHANGED <<multi_proc_machine, last_checkpoint, pending_intermediates, Done, Busy>>,
         \A t \in Busy : worker'[t].begin = worker[t].begin, ~stopped' => ~stopped
  PROVE  OnceInv'
<1>1. Waiting' = Waiting
  BY DEF Waiting
<1>2. InHand' = InHand
  BY DEF InHand
<1>3. ASSUME multi_proc_machine, ~stopped'
      PROVE  \A t, u \in Busy : worker'[t].begin \div Half = worker'[u].begin \div Half => t = u
  <2>1. \A t, u \in Busy : worker[t].begin \div Half = worker[u].begin \div Half => t = u
    BY <1>3 DEF OnceInv
  <2> QED BY <2>1
<1> QED BY <1>1, <1>2, <1>3 DEF OnceInv

\* The next form is submitted.
LEMMA SubmitOnce ==
  ASSUME BaseInv, BaseInv', OnceInv, EndBatch
  PROVE  OnceInv'
<1>0. TypesOK /\ TypesOK' /\ LoopInv /\ PendingInv /\ \A t \in Threads : HandInv(worker[t], last_checkpoint)
  BY DEF BaseInv
<1>1. UNCHANGED <<multi_proc_machine, worker, Done, Busy, stopped>>
  BY DEF EndBatch, Done, Busy
<1>2. CASE UNCHANGED <<pending_intermediates, last_checkpoint>>
  BY <1>1, <1>2, OnceSame
<1>3. CASE last_checkpoint' = last_checkpoint + Half /\ SubmitCheckpoint
  <2> SUFFICES ASSUME multi_proc_machine, ~stopped PROVE OnceInv'
    BY <1>1 DEF OnceInv
  <2> DEFINE L == last_checkpoint \div Half
  <2>1. last_checkpoint \in Nat /\ OnHalf(last_checkpoint) /\ Half \in Nat \ {0}
    BY <1>0, Constants DEF TypesOK, LoopInv
  <2>2. L \in Nat /\ last_checkpoint = L * Half
    BY <2>1, HalfNumber
  <2>3. last_checkpoint' \div Half = L + 1
    <3>1. last_checkpoint' = (L + 1) * Half + 0 /\ L + 1 \in Nat /\ 0 \in 0 .. Half - 1
      <4> HIDE DEF L
      <4> QED BY <1>3, <2>1, <2>2
    <3> HIDE DEF L
    <3> QED BY <2>1, <3>1, DivModOfSum
  <2>4. Waiting' = Waiting \union {L} /\ InHand' = InHand
    <3>1. Waiting' = {p.at \div Half : p \in pending_intermediates \union {[at |-> last_checkpoint, y |-> y_ret]}}
      BY <1>3 DEF Waiting, SubmitCheckpoint
    <3> DEFINE n == [at |-> last_checkpoint, y |-> y_ret]
    <3>2. n.at = last_checkpoint
      OBVIOUS
    <3> HIDE DEF n
    <3>3. {p.at \div Half : p \in pending_intermediates \union {n}} = Waiting \union {L}
      BY <3>2 DEF Waiting
    <3> QED BY <1>1, <3>1, <3>3 DEF n, InHand
  <2>5. /\ Waiting \union InHand \union Done = 0 .. L - 1
        /\ Waiting \intersect InHand = {} /\ Waiting \intersect Done = {} /\ InHand \intersect Done = {}
        /\ \A t, u \in Busy : worker[t].begin \div Half = worker[u].begin \div Half => t = u
    BY DEF OnceInv
  <2> HIDE DEF L
  <2>6. L \notin Waiting /\ L \notin InHand /\ L \notin Done
    <3>1. L \notin 0 .. L - 1
      BY <2>2
    <3> QED BY <2>5, <3>1
  <2>7. (Waiting \union {L}) \union InHand \union Done = 0 .. (L + 1) - 1
    <3>1. 0 .. (L + 1) - 1 = (0 .. L - 1) \union {L}
      BY <2>2
    <3> QED BY <2>5, <3>1
  <2> QED BY <1>1, <2>3, <2>4, <2>5, <2>6, <2>7 DEF OnceInv
<1> QED
  <2>1. multi_proc_machine => UNCHANGED <<pending_intermediates, last_checkpoint>>
                              \/ (last_checkpoint' = last_checkpoint + Half /\ SubmitCheckpoint)
    BY DEF EndBatch
  <2>2. ~multi_proc_machine => OnceInv'
    BY <1>1 DEF OnceInv
  <2> QED BY <1>2, <1>3, <2>1, <2>2

\* A half goes from the waiting ones into the hands of a thread.
LEMMA TakeOnce ==
  ASSUME BaseInv, OnceInv, NEW t \in Threads, TakePending(t)
  PROVE  OnceInv'
<1>0. TypesOK /\ PendingInv /\ worker \in [Threads -> Worker]
  BY DEF BaseInv, TypesOK
<1> DEFINE f == First.at \div Half
<1>1. First \in pending_intermediates
  BY <1>0, FirstIsPending DEF TakePending
<1>2. /\ UNCHANGED <<multi_proc_machine, last_checkpoint, stopped, Done>> /\ ~stopped /\ t \notin Busy
      /\ pending_intermediates' = pending_intermediates \ {First}
  BY DEF TakePending, OutsideThread, loopVars, eventVars, Done, Busy
<1>3. \A u \in Threads : worker'[u] =
        IF u = t THEN [pc |-> "store", begin |-> First.at, y |-> First.y, at |-> First.at] ELSE worker[u]
  BY <1>0 DEF TakePending
<1>4. worker'[t].pc = "store" /\ worker'[t].begin = First.at /\ \A u \in Threads : u # t => worker'[u] = worker[u]
  <2> DEFINE w == [pc |-> "store", begin |-> First.at, y |-> First.y, at |-> First.at]
  <2>1. w.pc = "store" /\ w.begin = First.at
    OBVIOUS
  <2>2. worker'[t] = w /\ \A u \in Threads : u # t => worker'[u] = worker[u]
    BY <1>3
  <2> HIDE DEF w
  <2> QED BY <2>1, <2>2
<1>5. Busy' = Busy \union {t}
  BY <1>4 DEF Busy
<1>6. InHand' = InHand \union {f}
  <2>1. \A u \in Busy : worker'[u] = worker[u]
    BY <1>2, <1>4 DEF Busy
  <2> QED BY <1>4, <1>5, <2>1 DEF InHand
<1>7. Waiting' = Waiting \ {f}
  <2>1. ASSUME NEW q \in pending_intermediates, q.at \div Half = f PROVE q = First
    <3>1. /\ q \in [at : Nat, y : Int] /\ First \in [at : Nat, y : Int] /\ OnHalf(q.at) /\ OnHalf(First.at)
          /\ q.y = q.at /\ First.y = First.at
      BY <1>0, <1>1 DEF TypesOK, PendingInv
    <3>2. q.at = (q.at \div Half) * Half /\ First.at = (First.at \div Half) * Half
      <4>1. q.at \in Nat /\ First.at \in Nat
        BY <3>1
      <4> QED BY <3>1, <4>1, HalfNumber
    <3>3. q.at = First.at
      BY <2>1, <3>2
    <3> QED BY <3>1, <3>3
  <2> QED BY <1>1, <1>2, <2>1 DEF Waiting
<1>8. f \in Waiting
  BY <1>1 DEF Waiting
<1> HIDE DEF f
<1> SUFFICES ASSUME multi_proc_machine PROVE OnceInv'
  BY <1>2 DEF OnceInv
<1>9. /\ Waiting \union InHand \union Done = 0 .. last_checkpoint \div Half - 1
      /\ Waiting \intersect InHand = {} /\ Waiting \intersect Done = {} /\ InHand \intersect Done = {}
      /\ \A u, v \in Busy : worker[u].begin \div Half = worker[v].begin \div Half => u = v
  BY <1>2 DEF OnceInv
<1>10. (Waiting \ {f}) \union (InHand \union {f}) \union Done = 0 .. last_checkpoint \div Half - 1
  BY <1>8, <1>9
<1>11. /\ (Waiting \ {f}) \intersect (InHand \union {f}) = {} /\ (Waiting \ {f}) \intersect Done = {}
       /\ (InHand \union {f}) \intersect Done = {}
  BY <1>8, <1>9
<1>12. ASSUME NEW u \in Busy \union {t}, NEW v \in Busy \union {t},
              worker'[u].begin \div Half = worker'[v].begin \div Half
       PROVE  u = v
  <2>1. \A x \in Busy : worker'[x].begin \div Half = worker[x].begin \div Half
                         /\ worker[x].begin \div Half \in InHand
    BY <1>2, <1>4 DEF Busy, InHand
  <2>2. f \notin InHand /\ worker'[t].begin \div Half = f
    BY <1>4, <1>8, <1>9 DEF f
  <2> QED BY <1>9, <1>12, <2>1, <2>2
<1> QED BY <1>2, <1>5, <1>6, <1>7, <1>10, <1>11, <1>12 DEF OnceInv

\* A thread that has stored its half has no other.
LEMMA StoreOnce ==
  ASSUME BaseInv, OnceInv, NEW t \in Threads, StoreIntermediate(t)
  PROVE  OnceInv'
<1> DEFINE w == worker[t]
           h == w.begin \div Half
           last == w.at + 1 = w.begin + Half
<1>0. worker \in [Threads -> Worker]
  BY DEF BaseInv, TypesOK
<1>1. /\ w.pc = "store" /\ worker' = [worker EXCEPT ![t] = Stepped(w)]
      /\ UNCHANGED <<OutsideThread, pending_intermediates, intermediates_stored>>
      /\ Done' = IF last THEN Done \union {h} ELSE Done
  BY StoreFacts
<1>2. UNCHANGED <<multi_proc_machine, last_checkpoint, stopped, pending_intermediates>> /\ t \in Busy
  BY <1>1 DEF OutsideThread, loopVars, eventVars, Busy
<1>3. /\ worker'[t].begin = w.begin /\ worker'[t].pc = IF last THEN "look" ELSE "store"
      /\ \A u \in Threads : u # t => worker'[u] = worker[u]
  <2>1. worker'[t] = Stepped(w) /\ \A u \in Threads : u # t => worker'[u] = worker[u]
    BY <1>0, <1>1
  <2>2. Stepped(w).begin = w.begin /\ Stepped(w).pc = IF last THEN "look" ELSE "store"
    BY DEF Stepped
  <2> QED BY <2>1, <2>2
<1>4. \A u \in Threads : worker'[u].begin = worker[u].begin
  BY <1>3
<1>5. CASE ~last
  <2>1. Busy' = Busy /\ Done' = Done
    BY <1>1, <1>2, <1>3, <1>5 DEF Busy
  <2>2. \A u \in Busy : worker'[u].begin = worker[u].begin
    BY <1>4 DEF Busy
  <2> QED BY <1>2, <2>1, <2>2, OnceSame
<1>6. CASE last
  <2>1. Busy' = Busy \ {t} /\ Done' = Done \union {h} /\ h \in InHand
    BY <1>1, <1>2, <1>3, <1>6 DEF Busy, InHand
  <2> SUFFICES ASSUME multi_proc_machine, ~stopped PROVE OnceInv'
    BY <1>2 DEF OnceInv
  <2>2. /\ Waiting \union InHand \union Done = 0 .. last_checkpoint \div Half - 1
        /\ Waiting \intersect InHand = {} /\ Waiting \intersect Done = {} /\ InHand \intersect Done = {}
        /\ \A u, v \in Busy : worker[u].begin \div Half = worker[v].begin \div Half => u = v
    BY DEF OnceInv
  <2>3. Waiting' = Waiting
    BY <1>2 DEF Waiting
  <2>4. InHand' = InHand \ {h}
    <3>1. \A u \in Busy : worker'[u].begin \div Half = worker[u].begin \div Half
      BY <1>4 DEF Busy
    <3>2. \A u \in Busy : worker[u].begin \div Half = h => u = t
      BY <1>2, <2>2
    <3> QED BY <2>1, <3>1, <3>2 DEF InHand
  <2> HIDE DEF h
  <2>5. Waiting \union (InHand \ {h}) \union (Done \union {h}) = 0 .. last_checkpoint \div Half - 1
    BY <2>1, <2>2
  <2>6. /\ Waiting \intersect (InHand \ {h}) = {} /\ Waiting \intersect (Done \union {h}) = {}
        /\ (InHand \ {h}) \intersect (Done \union {h}) = {}
    BY <2>1, <2>2
  <2>7. ASSUME NEW u \in Busy \ {t}, NEW v \in Busy \ {t},
               worker'[u].begin \div Half = worker'[v].begin \div Half
        PROVE  u = v
    BY <1>4, <2>2, <2>7 DEF Busy
  <2> QED BY <1>2, <2>1, <2>3, <2>4, <2>5, <2>6, <2>7 DEF OnceInv
<1> QED BY <1>5, <1>6

LEMMA OnceNext == BaseInv /\ BaseInv' /\ OnceInv /\ [Next]_vars => OnceInv'
<1> SUFFICES ASSUME BaseInv, BaseInv', OnceInv, [Next]_vars PROVE OnceInv'
  OBVIOUS
<1>0. worker \in [Threads -> Worker]
  BY DEF BaseInv, TypesOK
<1>1. CASE Square \/ Redo \/ Corrupt \/ RunEventLoop \/ OtherEvent \/ Stop \/ UNCHANGED vars
  <2>1. UNCHANGED <<multi_proc_machine, last_checkpoint, pending_intermediates, worker, Done, Busy>>
        /\ (~stopped' => ~stopped)
    BY <1>1 DEF Square, Redo, Corrupt, RunEventLoop, OtherEvent, Stop, vars, loopVars, storeVars,
                eventVars, Done, Busy
  <2> QED BY <2>1, OnceSame
<1>2. CASE EndBatch
  BY <1>2, SubmitOnce
<1>3. ASSUME NEW t \in Threads, TakePending(t) \/ StoreIntermediate(t) PROVE OnceInv'
  BY <1>3, TakeOnce, StoreOnce
<1>4. ASSUME NEW t \in Threads, EndThread(t) PROVE OnceInv'
  BY <1>4 DEF EndThread, OutsideThread, eventVars, OnceInv
<1>5. ASSUME NEW t \in Threads, LookAtHalves(t) PROVE OnceInv'
  <2>1. UNCHANGED <<multi_proc_machine, last_checkpoint, pending_intermediates, Done, stopped>>
    BY <1>5 DEF LookAtHalves, loopVars, Done
  <2>2. worker[t].pc = "look" /\ worker'[t].pc = "wait" /\ \A u \in Threads : u # t => worker'[u] = worker[u]
    BY <1>0, <1>5 DEF LookAtHalves, Idle
  <2>3. Busy' = Busy /\ \A u \in Busy : worker'[u].begin = worker[u].begin
    BY <2>2 DEF Busy
  <2> QED BY <2>1, <2>3, OnceSame
<1>6. ASSUME NEW t \in Threads, Flush(t) PROVE OnceInv'
  <2>1. UNCHANGED <<multi_proc_machine, last_checkpoint, pending_intermediates, worker, Busy, stopped>>
    BY <1>6 DEF Flush, OutsideThread, loopVars, eventVars, Busy
  <2>2. Done' = Done
    BY <1>6, FlushDone
  <2> QED BY <2>1, <2>2, OnceSame
<1> QED BY <1>1, <1>2, <1>3, <1>4, <1>5, <1>6 DEF Next, LoopStep, ThreadStep

\* Three sets of naturals without a common element fill 0 .. L - 1.
LEMMA Partition ==
  ASSUME NEW A, NEW B, NEW C, NEW L \in Nat, A \union B \union C = 0 .. L - 1,
         A \intersect B = {}, A \intersect C = {}, B \intersect C = {}
  PROVE  Cardinality(A) + Cardinality(B) + Cardinality(C) = L
<1>1. IsFiniteSet(0 .. L - 1) /\ Cardinality(0 .. L - 1) = L
  BY FS_Interval
<1>2. IsFiniteSet(A) /\ IsFiniteSet(B) /\ IsFiniteSet(C)
  <2>1. A \in SUBSET (0 .. L - 1) /\ B \in SUBSET (0 .. L - 1) /\ C \in SUBSET (0 .. L - 1)
    OBVIOUS
  <2> QED BY <1>1, <2>1, FS_Subset
<1>3. IsFiniteSet(A \union B) /\ Cardinality(A \union B) = Cardinality(A) + Cardinality(B) - Cardinality({})
  BY <1>2, FS_Union, ZenonT(60)
<1>4. Cardinality((A \union B) \union C) = Cardinality(A \union B) + Cardinality(C) - Cardinality({})
  <2>1. (A \union B) \intersect C = {}
    OBVIOUS
  <2> QED BY <1>2, <1>3, <2>1, FS_Union
<1>5. Cardinality({}) = 0 /\ Cardinality(A) \in Nat /\ Cardinality(B) \in Nat /\ Cardinality(C) \in Nat
  BY <1>2, FS_EmptySet, FS_CardinalityType
<1>6. Cardinality((A \union B) \union C) = L
  BY <1>1
<1> DEFINE a == Cardinality(A)
           b == Cardinality(B)
           c == Cardinality(C)
           ab == Cardinality(A \union B)
<1>7. a \in Nat /\ b \in Nat /\ c \in Nat /\ ab = a + b - 0 /\ L = ab + c - 0
  BY <1>3, <1>4, <1>5, <1>6
<1> HIDE DEF a, b, c, ab
<1>8. a + b + c = L
  BY <1>7
<1> QED BY <1>8 DEF a, b, c

\* Busy threads have different halves: there are as many of the one as of the other.
LEMMA OneHalfPerThread ==
  ASSUME TypesOK, \A t, u \in Busy : worker[t].begin \div Half = worker[u].begin \div Half => t = u
  PROVE  Cardinality(InHand) = Cardinality(Busy)
<1>1. IsFiniteSet(Busy)
  <2>1. Busy \in SUBSET Threads /\ IsFiniteSet(Threads)
    BY StorageAssumption DEF Busy
  <2> QED BY <2>1, FS_Subset
<1> DEFINE f == [t \in Busy |-> worker[t].begin \div Half]
<1>2. f \in [Busy -> InHand] /\ \A x \in InHand : \E t \in Busy : f[t] = x
  BY DEF InHand
<1>3. \A t, u \in Busy : f[t] = f[u] => t = u
  OBVIOUS
<1> HIDE DEF f
<1>4. ExistsBijection(Busy, InHand)
  BY <1>2, <1>3, Zenon DEF ExistsBijection, Bijection, Injection, Surjection, IsInjective
<1> QED BY <1>1, <1>4, FS_Bijection

LEMMA OnceInit == Init => OnceInv
<1> SUFFICES ASSUME Init PROVE OnceInv
  OBVIOUS
<1>1. Waiting = {} /\ Done = {}
  BY DEF Init, Waiting, Done
<1>2. Busy = {} /\ InHand = {}
  <2>1. \A t \in Threads : worker[t].pc \in {"wait", "ended"}
    BY DEF Init, Idle
  <2> QED BY <2>1 DEF Busy, InHand
<1>3. 0 .. last_checkpoint \div Half - 1 = {}
  BY Constants DEF Init
<1> QED BY <1>1, <1>2, <1>3 DEF OnceInv

\* EveryHalfOnce (SubmitCheckpoint, CalculateIntermediatesThread and
\* AddIntermediates): until the stop every half below last_checkpoint is
\* pending, with exactly one thread, or stored, for any number of threads.
THEOREM HalvesAreStoredOnce == Spec => []EveryHalfOnce
<1>1. BaseInv /\ OnceInv => EveryHalfOnce
  <2> SUFFICES ASSUME BaseInv, OnceInv, multi_proc_machine, ~stopped
               PROVE  /\ Waiting \union InHand \union Done = 0 .. last_checkpoint \div Half - 1
                      /\ Cardinality(Waiting) + Cardinality(Busy) + Cardinality(Done) = last_checkpoint \div Half
    BY Zenon DEF EveryHalfOnce, Waiting, InHand, Busy, Done
  <2>1. /\ Waiting \union InHand \union Done = 0 .. last_checkpoint \div Half - 1
        /\ Waiting \intersect InHand = {} /\ Waiting \intersect Done = {} /\ InHand \intersect Done = {}
        /\ \A t, u \in Busy : worker[t].begin \div Half = worker[u].begin \div Half => t = u
    BY DEF OnceInv
  <2>2. Cardinality(InHand) = Cardinality(Busy)
    BY <2>1, OneHalfPerThread DEF BaseInv
  <2> DEFINE L == last_checkpoint \div Half
  <2>3. L \in Nat
    BY Constants DEF BaseInv, TypesOK
  <2> HIDE DEF L
  <2>4. Cardinality(Waiting) + Cardinality(InHand) + Cardinality(Done) = L
    BY <2>1, <2>3, Partition DEF L
  <2> QED BY <2>1, <2>2, <2>4 DEF L
<1> QED BY <1>1, BaseInit, BaseNext, OnceInit, OnceNext, PTL DEF Spec

----------------------------------------------------------------------------
(***************************************************************************)
(* What the rings hold                                                     *)
(***************************************************************************)

\* The iterations whose forms the loop has stored and will not find corrupted.
Sure == IF batch = "corrupted" THEN num_iterations ELSE num_iterations + actual_iterations

Holds(i, m) == forms[GetPosition(m, i)] = m

\* The loop's forms are there until it may be a window further.
SoloRing ==
  ~multi_proc_machine =>
    \A i \in Buckets, m \in Nat :
      KeptIn(i, m) /\ m <= Sure /\ num_iterations + batch_size < m + window_size * power_2[i] => Holds(i, m)

\* A storage thread has been at iteration m.
Known(m) ==
  \/ m \div Half \in Done
  \/ \E t \in Threads : worker[t].pc = "store" /\ worker[t].begin <= m /\ m < worker[t].at

\* The threads' forms are there until a form a window further is submitted.
MultiRing ==
  multi_proc_machine /\ ~leftBehind =>
    \A i \in Buckets, m \in Nat :
      KeptIn(i, m) /\ Known(m) /\ last_checkpoint <= m + window_size * power_2[i] => Holds(i, m)

RingInv == SoloRing /\ MultiRing /\ (multi_proc_machine => OnUnit(intermediates_iter))

LEMMA SureType ==
  ASSUME TypesOK
  PROVE  /\ Sure \in Nat /\ num_iterations \in Nat /\ actual_iterations \in Nat
         /\ num_iterations <= Sure /\ Sure <= num_iterations + actual_iterations
  BY Constants DEF TypesOK, Sure

\* What a thread has been at is below last_checkpoint.
LEMMA KnownBelow ==
  ASSUME BaseInv, NEW m \in Nat, Known(m)
  PROVE  m < last_checkpoint
<1>0. TypesOK /\ PendingInv /\ last_checkpoint \in Nat /\ Half \in Nat \ {0}
  BY Constants DEF BaseInv, TypesOK
<1>1. CASE m \div Half \in Done
  <2> DEFINE h == m \div Half
  <2>1. h * Half + Half <= last_checkpoint
    BY <1>0, <1>1 DEF PendingInv
  <2>2. h \in Nat /\ m % Half \in 0 .. Half - 1 /\ m = h * Half + (m % Half)
    BY <1>0, DivMod
  <2> DEFINE r == m % Half
  <2>3. h \in Nat /\ r \in 0 .. Half - 1 /\ m = h * Half + r
    BY <2>2
  <2> HIDE DEF h, r
  <2>4. h * Half \in Nat
    BY <1>0, <2>3
  <2> QED BY <1>0, <2>1, <2>3, <2>4
<1>2. ASSUME NEW t \in Threads, worker[t].pc = "store", worker[t].begin <= m, m < worker[t].at
      PROVE  m < last_checkpoint
  <2>1. worker[t] \in Worker /\ HandInv(worker[t], last_checkpoint)
    BY DEF BaseInv, TypesOK
  <2>2. worker[t].at \in Nat /\ worker[t].begin \in Nat /\ worker[t].begin + Half <= last_checkpoint
        /\ worker[t].at < worker[t].begin + Half
    BY <1>2, <2>1 DEF Worker, HandInv
  <2> QED BY <1>0, <1>2, <2>2
<1> QED BY <1>1, <1>2 DEF Known

\* Steps that store nothing keep what the rings hold.
LEMMA RingSame ==
  ASSUME RingInv, TypesOK, TypesOK', UNCHANGED <<multi_proc_machine, forms>>, Sure' <= Sure, num_iterations <= num_iterations',
         \A m \in Nat : Known(m)' => Known(m), leftBehind' = leftBehind, last_checkpoint <= last_checkpoint'
  PROVE  SoloRing' /\ MultiRing'
<1>0. /\ Sure \in Nat /\ Sure' \in Nat /\ num_iterations \in Nat /\ num_iterations' \in Nat
      /\ last_checkpoint \in Nat /\ last_checkpoint' \in Nat /\ batch_size \in Nat
  <2>1. Sure \in Nat /\ num_iterations \in Nat
    BY SureType
  <2>2. num_iterations' \in Nat /\ actual_iterations' \in Nat
    BY Constants DEF TypesOK
  <2>3. Sure' \in Nat
    <3>1. Sure' = num_iterations' \/ Sure' = num_iterations' + actual_iterations'
      BY Zenon DEF Sure
    <3>2. num_iterations' + actual_iterations' \in Nat
      <4> DEFINE n == num_iterations'
                 a == actual_iterations'
      <4>1. n \in Nat /\ a \in Nat
        BY <2>2
      <4> HIDE DEF n, a
      <4>2. n + a \in Nat
        BY <4>1
      <4> QED BY <4>2 DEF n, a
    <3> QED BY <2>2, <3>1, <3>2
  <2>4. last_checkpoint \in Nat /\ last_checkpoint' \in Nat /\ batch_size \in Nat
    BY Constants DEF TypesOK
  <2> QED BY <2>1, <2>2, <2>3, <2>4
<1>1. ASSUME ~multi_proc_machine, NEW i \in Buckets, NEW m \in Nat, KeptIn(i, m), m <= Sure',
             num_iterations' + batch_size < m + window_size * power_2[i]
      PROVE  Holds(i, m)
  <2> DEFINE x == m + window_size * power_2[i]
  <2>1. x \in Nat
    BY SegmentLengths
  <2>2. num_iterations' + batch_size < x
    BY <1>1
  <2> HIDE DEF x
  <2>3. m <= Sure /\ num_iterations + batch_size < x
    <3> DEFINE s == Sure
               s2 == Sure'
               n == num_iterations
               n2 == num_iterations'
    <3>1. s \in Nat /\ s2 \in Nat /\ n \in Nat /\ n2 \in Nat /\ s2 <= s /\ n <= n2 /\ m <= s2
          /\ n2 + batch_size < x /\ batch_size \in Nat
      BY <1>0, <1>1, <2>2
    <3> HIDE DEF s, s2, n, n2
    <3>2. m <= s /\ n + batch_size < x
      BY <2>1, <3>1
    <3> QED BY <3>2 DEF s, n
  <2> QED BY <1>1, <2>3 DEF RingInv, SoloRing, x
<1>2. ASSUME multi_proc_machine, ~leftBehind, NEW i \in Buckets, NEW m \in Nat, KeptIn(i, m), Known(m)',
             last_checkpoint' <= m + window_size * power_2[i]
      PROVE  Holds(i, m)
  <2> DEFINE x == m + window_size * power_2[i]
  <2>1. x \in Nat
    BY SegmentLengths
  <2>2. last_checkpoint' <= x
    BY <1>2
  <2> HIDE DEF x
  <2>3. last_checkpoint <= x
    BY <1>0, <2>1, <2>2
  <2> QED BY <1>2, <2>3 DEF RingInv, MultiRing, x
<1>3. \A i \in Buckets, m \in Nat : Holds(i, m)' <=> Holds(i, m)
  BY DEF Holds, GetPosition, bucket_size
<1> QED BY <1>1, <1>2, <1>3 DEF SoloRing, MultiRing, KeptIn

LEMMA SquareRing ==
  ASSUME BaseInv, RingInv, Square
  PROVE  RingInv'
<1> DEFINE x == num_iterations + actual_iterations + 1
           value == IF batch = "corrupted" THEN Bad ELSE x
<1>0. TypesOK /\ FormsOK /\ num_iterations \in Nat /\ actual_iterations \in Nat /\ batch_size \in Nat /\ Sure \in Nat
  BY SureType, Constants DEF BaseInv, TypesOK
<1>1. /\ x \in Nat /\ value \in Int /\ x \in 0 .. MaxIterations + Half
      /\ x <= num_iterations + batch_size
      /\ actual_iterations < batch_size /\ actual_iterations' = actual_iterations + 1
      /\ OnIteration(x, value)
      /\ UNCHANGED <<multi_proc_machine, num_iterations, batch, last_checkpoint, worker, intermediates_stored,
                     buffered, leftBehind, intermediates_iter>>
  BY <1>0, Constants DEF Square, storeVars, eventVars
<1>2. CASE multi_proc_machine
  <2>1. forms' = forms
    BY <1>1, <1>2 DEF OnIteration
  <2>2. \A m \in Nat : Known(m)' <=> Known(m)
    BY <1>1 DEF Known, Done
  <2>3. \A i \in Buckets, m \in Nat : Holds(i, m)' <=> Holds(i, m)
    BY <2>1 DEF Holds, GetPosition, bucket_size
  <2> QED BY <1>1, <1>2, <2>2, <2>3 DEF RingInv, SoloRing, MultiRing, OnUnit, KeptIn
<1>3. CASE ~multi_proc_machine
  <2>1. forms' = SetForms(x, value)
    BY <1>1, <1>3 DEF OnIteration
  <2>2. Sure' = IF batch = "corrupted" THEN Sure ELSE x
    BY <1>0, <1>1 DEF Sure
  <2>3. batch # "corrupted" => x = Sure + 1 /\ value = x
    BY <1>0 DEF Sure
  <2>4. batch = "corrupted" => Sure < x
    BY <1>0 DEF Sure
  <2> HIDE DEF x, value
  <2>5. ASSUME NEW i \in Buckets, NEW m \in Nat, KeptIn(i, m), m <= Sure',
               num_iterations + batch_size < m + window_size * power_2[i]
        PROVE  SetForms(x, value)[GetPosition(m, i)] = m
    <3> DEFINE d == window_size * power_2[i]
    <3>0. d \in Nat \ {0}
      BY SegmentLengths
    <3>1. num_iterations + batch_size < m + d
      BY <2>5
    <3>2. CASE m = x
      <4>1. batch # "corrupted"
        BY <1>0, <1>1, <2>2, <2>4, <2>5, <3>2
      <4> QED BY <1>0, <1>1, <2>3, <2>5, <3>2, <4>1, SetFormsStores
    <3>3. CASE m # x
      <4>1. m <= Sure /\ m < x
        BY <1>0, <1>1, <2>2, <2>3, <2>4, <2>5, <3>3
      <4>2. ~(x + d <= m) /\ ~(m + d <= x)
        <5> HIDE DEF d
        <5> QED BY <1>0, <1>1, <3>0, <3>1, <4>1
      <4>3. ~Apart(i, x, m)
        BY <4>2 DEF Apart
      <4>4. SetForms(x, value)[GetPosition(m, i)] = forms[GetPosition(m, i)]
        BY <1>0, <1>1, <2>5, <3>3, <4>3, SetFormsStores
      <4>5. Holds(i, m)
        BY <1>3, <2>5, <4>1 DEF RingInv, SoloRing
      <4> QED BY <4>4, <4>5 DEF Holds
    <3> QED BY <3>2, <3>3
  <2>6. \A i \in Buckets, m \in Nat : KeptIn(i, m) /\ m <= Sure'
           /\ num_iterations + batch_size < m + window_size * power_2[i] => Holds(i, m)'
    <3>1. \A i \in Buckets, m \in Nat : Holds(i, m)' <=> SetForms(x, value)[GetPosition(m, i)] = m
      BY <2>1 DEF Holds, GetPosition, bucket_size
    <3> QED BY <2>5, <3>1
  <2> QED BY <1>1, <1>3, <2>6 DEF RingInv, SoloRing, MultiRing, KeptIn
<1> QED BY <1>2, <1>3

LEMMA StoreRing ==
  ASSUME BaseInv, RingInv, NEW t \in Threads, StoreIntermediate(t)
  PROVE  RingInv'
<1> DEFINE w == worker[t]
           x == w.at
           h == w.begin \div Half
           last == x + 1 = w.begin + Half
<1>0. TypesOK /\ FormsOK /\ worker \in [Threads -> Worker] /\ last_checkpoint \in Nat
  BY DEF BaseInv, TypesOK
<1>1. /\ multi_proc_machine /\ w \in Worker /\ w.pc = "store" /\ HandInv(w, last_checkpoint)
      /\ x \in 0 .. MaxIterations + Half /\ x < last_checkpoint
      /\ forms' = SetForms(x, x) /\ worker' = [worker EXCEPT ![t] = Stepped(w)]
      /\ UNCHANGED <<OutsideThread, pending_intermediates, intermediates_stored>>
      /\ Done' = IF last THEN Done \union {h} ELSE Done
      /\ leftBehind' = (leftBehind \/ x + window_size * Unit < last_checkpoint)
  BY StoreFacts
<1>2. UNCHANGED <<multi_proc_machine, last_checkpoint, intermediates_iter>>
  BY <1>1 DEF OutsideThread, loopVars, eventVars
<1>3. x \in Nat /\ w.begin \in Nat /\ OnHalf(w.begin) /\ w.begin <= x /\ x < w.begin + Half
  <2> HIDE DEF w
  <2> QED BY <1>1 DEF Worker, HandInv
<1>4. ASSUME NEW m \in Nat, Known(m)', m # x PROVE Known(m)
  <2>1. CASE m \div Half \in Done'
    <3>1. CASE m \div Half \in Done
      BY <3>1 DEF Known
    <3>2. CASE last /\ m \div Half = h
      <4>1. w.begin = h * Half /\ m = h * Half + (m % Half) /\ m % Half \in 0 .. Half - 1 /\ h \in Nat /\ Half \in Nat
        <5>1. Half \in Nat \ {0}
          BY Constants
        <5>2. w.begin = h * Half /\ h \in Nat
          <6> HIDE DEF w
          <6> QED BY <1>3, HalfNumber
        <5>3. m % Half \in 0 .. Half - 1 /\ m = (m \div Half) * Half + (m % Half)
          BY <5>1, DivMod
        <5>4. m = h * Half + (m % Half)
          BY <3>2, <5>3
        <5> QED BY <5>1, <5>2, <5>3, <5>4
      <4> DEFINE b == w.begin
                 r == m % Half
      <4>2. m = b + r /\ r \in 0 .. Half - 1 /\ b \in Nat /\ x + 1 = b + Half /\ x \in Nat /\ m # x
            /\ Half \in Nat
        BY <1>3, <1>4, <3>2, <4>1
      <4> HIDE DEF b, r, x
      <4>3. b <= m /\ m < x
        BY <4>2
      <4> QED BY <1>1, <4>3 DEF Known, b, x
    <3> QED BY <1>1, <2>1, <3>1, <3>2
  <2>2. ASSUME NEW u \in Threads, worker'[u].pc = "store", worker'[u].begin <= m, m < worker'[u].at
        PROVE  Known(m)
    <3>1. CASE u = t
      <4>1. worker'[t] = Stepped(w)
        BY <1>0, <1>1
      <4>2. Stepped(w).begin = w.begin /\ Stepped(w).at = x + 1
        BY DEF Stepped
      <4>3. w.begin <= m /\ m < x + 1
        BY <2>2, <3>1, <4>1, <4>2
      <4>4. m < x
        <5> HIDE DEF x
        <5> QED BY <1>3, <1>4, <4>3
      <4> QED BY <1>1, <4>3, <4>4 DEF Known
    <3>2. CASE u # t
      <4>1. worker'[u] = worker[u]
        BY <1>0, <1>1, <3>2
      <4> QED BY <2>2, <4>1 DEF Known
    <3> QED BY <3>1, <3>2
  <2>3. m \div Half \in Done' \/ \E u \in Threads : worker'[u].pc = "store" /\ worker'[u].begin <= m /\ m < worker'[u].at
    BY <1>4, Zenon DEF Known
  <2> QED BY <2>1, <2>2, <2>3
<1> HIDE DEF w, x, h, last
<1>5. ASSUME ~leftBehind', NEW i \in Buckets, NEW m \in Nat, KeptIn(i, m), Known(m)',
             last_checkpoint <= m + window_size * power_2[i]
      PROVE  SetForms(x, x)[GetPosition(m, i)] = m
  <2>1. CASE m = x
    <3>1. x \in Int
      BY <1>3
    <3> QED BY <1>0, <1>1, <1>5, <2>1, <3>1, SetFormsStores
  <2>2. CASE m # x
    <3>1. Known(m) /\ m < last_checkpoint
      BY <1>4, <1>5, <2>2, KnownBelow
    <3>2. ~leftBehind /\ ~(x + window_size * Unit < last_checkpoint)
      BY <1>1, <1>5
    <3> DEFINE d == window_size * power_2[i]
               e == window_size * Unit
    <3>3. d \in Nat /\ e \in Nat /\ e <= d
      <4> DEFINE p == power_2[i]
      <4>1. p \in Nat /\ Unit \in Nat /\ Unit <= p /\ window_size \in Nat
        BY SegmentLengths
      <4> HIDE DEF p
      <4>2. window_size * p \in Nat /\ window_size * Unit \in Nat /\ window_size * Unit <= window_size * p
        BY <4>1
      <4> QED BY <4>2 DEF p
    <3>4. last_checkpoint <= m + d /\ ~(x + e < last_checkpoint)
      BY <1>5, <3>2
    <3>5. ~(x + d <= m) /\ ~(m + d <= x)
      <4> HIDE DEF d, e
      <4> QED BY <1>0, <1>1, <1>3, <3>1, <3>3, <3>4
    <3>6. ~Apart(i, x, m)
      BY <3>5 DEF Apart
    <3>7. SetForms(x, x)[GetPosition(m, i)] = forms[GetPosition(m, i)]
      <4>1. x \in Int
        BY <1>3
      <4> QED BY <1>0, <1>1, <1>5, <2>2, <3>6, <4>1, SetFormsStores
    <3>8. Holds(i, m)
      BY <1>1, <1>5, <3>1, <3>2 DEF RingInv, MultiRing
    <3> QED BY <3>7, <3>8 DEF Holds
  <2> QED BY <2>1, <2>2
<1>6. \A i \in Buckets, m \in Nat : Holds(i, m)' <=> SetForms(x, x)[GetPosition(m, i)] = m
  BY <1>1 DEF Holds, GetPosition, bucket_size
<1>7. MultiRing'
  <2> SUFFICES ASSUME ~leftBehind', NEW i \in Buckets, NEW m \in Nat, KeptIn(i, m), Known(m)',
                      last_checkpoint <= m + window_size * power_2[i]
               PROVE  Holds(i, m)'
    BY <1>2 DEF MultiRing, KeptIn
  <2> QED BY <1>5, <1>6
<1> QED BY <1>1, <1>2, <1>7 DEF RingInv, SoloRing, OnUnit

LEMMA RingInit == Init => RingInv
<1> SUFFICES ASSUME Init PROVE RingInv
  OBVIOUS
<1>0. num_iterations = 0 /\ actual_iterations = 0 /\ Sure = 0
  BY DEF Init, Sure
<1>1. ASSUME NEW i \in Buckets PROVE Holds(i, 0)
  <2> DEFINE p == power_2[i]
             s == Strides[i]
             B == bucket_size(i)
  <2>1. p \in Nat \ {0} /\ s \in Nat \ {0} /\ window_size \in Nat \ {0} /\ B = (p + s - 1) \div s
    BY SegmentLengths DEF bucket_size
  <2>2. GetPosition(0, i) = <<i, ((0 \div p) % window_size) * B + (0 % p) \div s>>
    BY DEF GetPosition
  <2>3. B \in Nat
    <3> HIDE DEF p, s, B
    <3> QED BY <2>1
  <2>4. ((0 \div p) % window_size) * B + (0 % p) \div s = 0
    <3> HIDE DEF p, s, B
    <3>1. 0 \div p = 0 /\ 0 % p = 0
      BY <2>1
    <3>2. 0 % window_size = 0 /\ 0 \div s = 0
      BY <2>1
    <3> QED BY <2>3, <3>1, <3>2
  <2>5. GetPosition(0, i) = <<i, 0>> /\ GetPosition(0, i) \in Positions
    BY <2>2, <2>4, PositionIs
  <2>6. forms[GetPosition(0, i)] = IF GetPosition(0, i)[2] = 0 THEN 0 ELSE Bad
    BY <2>5 DEF Init
  <2>7. GetPosition(0, i)[2] = 0
    BY <2>5
  <2> QED BY <2>6, <2>7 DEF Holds
<1>2. SoloRing
  <2>1. ASSUME NEW m \in Nat, m <= 0 PROVE m = 0
    BY <2>1
  <2> QED BY <1>0, <1>1, <2>1 DEF SoloRing
<1>3. MultiRing
  <2>1. ASSUME NEW m \in Nat, Known(m) PROVE FALSE
    <3>1. Done = {}
      BY DEF Init, Done
    <3>2. \A t \in Threads : worker[t].pc \in {"wait", "ended"}
      BY DEF Init, Idle
    <3> QED BY <2>1, <3>1, <3>2 DEF Known
  <2> QED BY <2>1 DEF MultiRing
<1>4. OnUnit(intermediates_iter)
  <2>1. 0 \in Nat /\ 0 = 0 * Unit
    BY SegmentLengths
  <2> QED BY <2>1 DEF Init, OnUnit
<1> QED BY <1>2, <1>3, <1>4 DEF RingInv

LEMMA LoopRing ==
  ASSUME BaseInv, BaseInv', RingInv,
         EndBatch \/ Redo \/ Corrupt \/ RunEventLoop \/ OtherEvent \/ Stop \/ UNCHANGED vars
  PROVE  RingInv'
<1>0. /\ TypesOK /\ TypesOK' /\ EventInv /\ num_iterations \in Nat /\ actual_iterations \in Nat
      /\ last_checkpoint \in Nat /\ Half \in Nat
  BY SureType, Constants DEF BaseInv, TypesOK
<1>1. UNCHANGED <<multi_proc_machine, forms, worker, intermediates_stored, buffered, leftBehind>>
  BY DEF EndBatch, Redo, Corrupt, RunEventLoop, OtherEvent, Stop, vars, storeVars
<1>2. Sure' <= Sure /\ num_iterations <= num_iterations'
  <2>1. CASE EndBatch
    BY <1>0, <2>1 DEF EndBatch, Sure
  <2>2. CASE Redo \/ Corrupt
    BY <1>0, <2>2 DEF Redo, Corrupt, Sure
  <2>3. CASE RunEventLoop \/ OtherEvent \/ Stop \/ UNCHANGED vars
    <3>1. UNCHANGED <<num_iterations, actual_iterations, batch>>
      BY <2>3 DEF RunEventLoop, OtherEvent, Stop, vars, loopVars
    <3> QED BY <1>0, <3>1 DEF Sure
  <2> QED BY <2>1, <2>2, <2>3
<1>3. last_checkpoint <= last_checkpoint'
  BY <1>0 DEF EndBatch, Redo, Corrupt, RunEventLoop, OtherEvent, Stop, vars, loopVars
<1>4. \A m \in Nat : Known(m)' => Known(m)
  BY <1>1 DEF Known, Done
<1>5. SoloRing' /\ MultiRing'
  BY <1>0, <1>1, <1>2, <1>3, <1>4, RingSame
<1>6. multi_proc_machine => OnUnit(intermediates_iter)'
  <2>1. CASE intermediates_iter' = intermediates_iter
    BY <2>1 DEF RingInv, OnUnit
  <2>2. CASE RunEventLoop
    <3>1. multi_proc_machine => intermediates_iter' = GetFinishedSegment
      BY <2>2 DEF RunEventLoop
    <3>2. multi_proc_machine => OnUnit(GetFinishedSegment)
      BY <1>0, FinishedAreStored
    <3> QED BY <3>1, <3>2 DEF OnUnit
  <2> QED BY <2>1, <2>2 DEF EndBatch, Redo, Corrupt, OtherEvent, Stop, vars, eventVars
<1> QED BY <1>1, <1>5, <1>6 DEF RingInv

LEMMA ThreadRing ==
  ASSUME BaseInv, BaseInv', RingInv, NEW t \in Threads, TakePending(t) \/ EndThread(t) \/ LookAtHalves(t) \/ Flush(t)
  PROVE  RingInv'
<1>0. TypesOK /\ TypesOK' /\ worker \in [Threads -> Worker] /\ last_checkpoint \in Nat /\ num_iterations \in Nat /\ Sure \in Nat
  BY SureType DEF BaseInv, TypesOK
<1>1. UNCHANGED <<multi_proc_machine, num_iterations, actual_iterations, batch, last_checkpoint,
                  intermediates_iter, forms, leftBehind>>
  BY DEF TakePending, EndThread, LookAtHalves, Flush, OutsideThread, loopVars, eventVars
<1>2. Done' = Done
  <2>1. CASE Flush(t)
    BY <2>1, FlushDone
  <2>2. CASE TakePending(t) \/ EndThread(t) \/ LookAtHalves(t)
    BY <2>2 DEF TakePending, EndThread, LookAtHalves, Done
  <2> QED BY <2>1, <2>2
<1>3. ASSUME NEW u \in Threads PROVE worker'[u] = worker[u] \/ worker'[u].pc # "store" \/ worker'[u].begin = worker'[u].at
  <2>1. CASE Flush(t)
    BY <2>1 DEF Flush
  <2>2. CASE EndThread(t) \/ LookAtHalves(t)
    <3>1. \A v \in {Idle, [Idle EXCEPT !.pc = "ended"]} : v.pc # "store"
      BY DEF Idle
    <3>2. \E v \in {Idle, [Idle EXCEPT !.pc = "ended"]} : worker' = [worker EXCEPT ![t] = v]
      BY <2>2 DEF EndThread, LookAtHalves
    <3> QED BY <1>0, <3>1, <3>2
  <2>3. CASE TakePending(t)
    <3> DEFINE v == [pc |-> "store", begin |-> First.at, y |-> First.y, at |-> First.at]
    <3>1. v.begin = v.at
      OBVIOUS
    <3>2. worker' = [worker EXCEPT ![t] = v]
      BY <2>3 DEF TakePending
    <3> HIDE DEF v
    <3> QED BY <1>0, <3>1, <3>2
  <2> QED BY <2>1, <2>2, <2>3
<1>4. ASSUME NEW m \in Nat, Known(m)' PROVE Known(m)
  <2>1. CASE m \div Half \in Done'
    BY <1>2, <2>1 DEF Known
  <2>2. ASSUME NEW u \in Threads, worker'[u].pc = "store", worker'[u].begin <= m, m < worker'[u].at
        PROVE  Known(m)
    <3>1. worker'[u].at \in Nat
      BY <1>0 DEF TypesOK, Worker
    <3>2. worker'[u].begin # worker'[u].at
      BY <2>2, <3>1
    <3> QED BY <1>3, <2>2, <3>2 DEF Known
  <2>3. m \div Half \in Done' \/ \E u \in Threads : worker'[u].pc = "store" /\ worker'[u].begin <= m /\ m < worker'[u].at
    BY <1>4, Zenon DEF Known
  <2> QED BY <2>1, <2>2, <2>3
<1>5. SoloRing' /\ MultiRing'
  <2>1. Sure' = Sure
    BY <1>1 DEF Sure
  <2>2. Sure' <= Sure /\ num_iterations <= num_iterations' /\ last_checkpoint <= last_checkpoint'
    BY <1>0, <1>1, <2>1
  <2> QED BY <1>0, <1>1, <1>4, <2>2, RingSame
<1> QED BY <1>1, <1>5 DEF RingInv, OnUnit

LEMMA RingNext == BaseInv /\ BaseInv' /\ RingInv /\ [Next]_vars => RingInv'
<1> SUFFICES ASSUME BaseInv, BaseInv', RingInv, [Next]_vars PROVE RingInv'
  OBVIOUS
<1>1. CASE Square
  BY <1>1, SquareRing
<1>2. CASE EndBatch \/ Redo \/ Corrupt \/ RunEventLoop \/ OtherEvent \/ Stop \/ UNCHANGED vars
  BY <1>2, LoopRing
<1>3. ASSUME NEW t \in Threads, ThreadStep(t) \/ Flush(t) PROVE RingInv'
  BY <1>3, StoreRing, ThreadRing DEF ThreadStep
<1> QED BY <1>1, <1>2, <1>3 DEF Next, LoopStep

\* Both halves of a stored segment are done.
LEMMA StoredIsDone ==
  ASSUME NEW s \in Nat, NEW r \in 0 .. Unit - 1, StoredSegment(s)
  PROVE  (s * Unit + r) \div Half \in Done
<1>0. Half \in Nat \ {0} /\ Unit = 2 * Half
  BY SegmentLengths
<1>1. 2 * s \in Done /\ 2 * s + 1 \in Done
  BY DEF StoredSegment, Done
<1> DEFINE d == 2 * s
<1>2. d \in Nat /\ s * Unit = d * Half
  BY <1>0
<1> HIDE DEF d
<1>3. CASE r < Half
  <2>1. r \in 0 .. Half - 1
    BY <1>0, <1>3
  <2>2. (d * Half + r) \div Half = d
    BY <1>0, <1>2, <2>1, DivModOfSum
  <2> QED BY <1>1, <1>2, <2>2 DEF d
<1>4. CASE Half <= r
  <2> DEFINE e == r - Half
  <2>1. e \in 0 .. Half - 1 /\ d + 1 \in Nat
    BY <1>0, <1>2, <1>4
  <2>2. ((d + 1) * Half + e) \div Half = d + 1
    <3> DEFINE k == d + 1
    <3>1. k \in Nat
      BY <2>1
    <3> HIDE DEF e, k
    <3>2. (k * Half + e) \div Half = k
      BY <1>0, <2>1, <3>1, DivModOfSum
    <3> QED BY <3>2 DEF k
  <2>3. s * Unit + r = (d + 1) * Half + e
    BY <1>0, <1>2
  <2> QED BY <1>1, <2>2, <2>3 DEF d
<1> QED BY <1>0, <1>3, <1>4

\* What the event loop takes as finished, threads have been at.
LEMMA FinishedIsKnown ==
  ASSUME BaseInv, RingInv, multi_proc_machine, NEW m \in Nat, m < intermediates_iter
  PROVE  Known(m)
<1>0. Unit \in Nat \ {0} /\ EventInv
  BY SegmentLengths DEF BaseInv
<1> DEFINE s == m \div Unit
           r == m % Unit
<1>1. s \in Nat /\ r \in 0 .. Unit - 1 /\ m = s * Unit + r
  BY <1>0, DivMod
<1>2. PICK k \in Nat : intermediates_iter = k * Unit
  BY DEF RingInv, OnUnit
<1> HIDE DEF s, r
<1>3. s < k
  <2>1. ASSUME k <= s PROVE FALSE
    <3>1. k * Unit <= s * Unit /\ k * Unit \in Nat /\ s * Unit \in Nat
      BY <1>0, <1>1, <1>2, <2>1
    <3> QED BY <1>1, <1>2, <3>1
  <2> QED BY <1>1, <1>2, <2>1
<1>4. (s + 1) * Unit <= k * Unit
  BY <1>0, <1>1, <1>2, <1>3
<1>5. StoredSegment(s)
  BY <1>0, <1>1, <1>2, <1>4 DEF EventInv
<1>6. m \div Half \in Done
  BY <1>1, <1>5, StoredIsDone
<1> QED BY <1>6 DEF Known

\* RingHoldsFinished (OnIteration, CalculateIntermediatesInner, GetForm): a
\* prover of a finished segment within the window reads the form of each of its
\* iterations, for any window, strides, buckets and number of storage threads.
THEOREM RingAlwaysHolds == Spec => []RingHoldsFinished
<1>1. BaseInv /\ RingInv => RingHoldsFinished
  <2> SUFFICES ASSUME BaseInv, RingInv, NEW i \in Buckets, NEW n \in Nat, MayBeProved(i, n),
                      NEW k \in 0 .. bucket_size(i) - 1
               PROVE  forms[GetPosition(n * power_2[i] + k * Strides[i], i)] = n * power_2[i] + k * Strides[i]
    BY DEF RingHoldsFinished
  <2> DEFINE m == n * power_2[i] + k * Strides[i]
             a == n * power_2[i]
             b == (n + 1) * power_2[i]
             d == window_size * power_2[i]
  <2>0. /\ TypesOK /\ LoopInv /\ EventInv /\ num_iterations \in Nat /\ last_checkpoint \in Nat
        /\ intermediates_iter \in Nat /\ batch_size \in Nat /\ iterations \in Nat /\ Sure \in Nat
        /\ num_iterations <= Sure /\ iterations <= num_iterations
    BY SureType, Constants DEF BaseInv, TypesOK, LoopInv
  <2>1. m \in Nat /\ KeptIn(i, m) /\ a <= m /\ m < b
    BY ReadPosition
  <2>2. a \in Nat /\ b \in Nat /\ d \in Nat /\ (n + window_size) * power_2[i] = a + d
    <3> DEFINE p == power_2[i]
    <3>1. p \in Nat /\ window_size \in Nat
      BY SegmentLengths
    <3> HIDE DEF p
    <3>2. n * p \in Nat /\ (n + 1) * p \in Nat /\ window_size * p \in Nat
          /\ (n + window_size) * p = n * p + window_size * p
      BY <3>1
    <3> QED BY <3>2 DEF p
  <2>3. b <= intermediates_iter
    BY DEF MayBeProved
  <2>4. CASE multi_proc_machine
    <3>1. ~leftBehind /\ last_checkpoint <= a + d
      BY <2>2, <2>4 DEF MayBeProved
    <3> HIDE DEF m, a, b
    <3>2. Known(m)
      <4>1. m < intermediates_iter
        BY <2>0, <2>1, <2>2, <2>3
      <4> QED BY <2>1, <2>4, <4>1, FinishedIsKnown
    <3>3. last_checkpoint <= m + d
      <4> HIDE DEF d
      <4> QED BY <2>0, <2>1, <2>2, <3>1
    <3>4. Holds(i, m)
      BY <2>1, <2>4, <3>1, <3>2, <3>3 DEF RingInv, MultiRing
    <3> QED BY <3>4 DEF Holds, m
  <2>5. CASE ~multi_proc_machine
    <3>1. num_iterations + batch_size < a + d
      BY <2>2, <2>5 DEF MayBeProved
    <3>2. intermediates_iter <= iterations
      BY <2>0, <2>5 DEF EventInv
    <3> HIDE DEF m, a, b
    <3>3. m <= Sure /\ num_iterations + batch_size < m + d
      <4> HIDE DEF d
      <4> QED BY <2>0, <2>1, <2>2, <2>3, <3>1, <3>2
    <3>4. Holds(i, m)
      BY <2>1, <2>5, <3>3 DEF RingInv, SoloRing
    <3> QED BY <3>4 DEF Holds, m
  <2> QED BY <2>4, <2>5
<1> QED BY <1>1, BaseInit, BaseNext, RingInit, RingNext, PTL DEF Spec

=============================================================================
