----------------------------- MODULE Wesolowski -----------------------------
(***************************************************************************)
(* The proofs: how the provers compute them from stored intermediates,     *)
(* how segments are put together, and how the verifier walks over them.    *)
(* A form is the exponent it has over the first form, so that composition  *)
(* is addition and squaring is doubling.                                   *)
(***************************************************************************)
EXTENDS Integers, Sequences

CONSTANT BOf(_, _)   \* GetB: the prime that the hash of x and y gives

GroupIdentity == 0

\* The loops that compose n forms: f[0], f[1] and so on.
SumOf(f, n) ==
  LET sum[i \in 0 .. n] == IF i = 0 THEN GroupIdentity ELSE sum[i - 1] + f[i - 1]
  IN  sum[n]

----------------------------------------------------------------------------
(***************************************************************************)
(* Provers.  T iterations from x, with a form stored every k * l.          *)
(***************************************************************************)

FastPow(a, b, c) == a^b % c

\* The digit i, base 2^k, of 2^T div B.
GetBlock(i, k, T, B) == (FastPow(2, T - k * (i + 1), B) * 2^k) \div B

Stored(x, k, l) == [i \in Nat |-> x * 2^(i * k * l)]

HasBlock(T, k, i) == T >= k * (i + 1)

\* ys[b]: the product of the stored forms whose block j is b.
Collected(intermediates, j, k, l, T, B) ==
  LET limit == (T + k * l - 1) \div (k * l)
  IN  [b \in 0 .. 2^k - 1 |->
         SumOf([i \in 0 .. limit - 1 |->
                  IF HasBlock(T, k, i * l + j) /\ GetBlock(i * l + j, k, T, B) = b
                    THEN intermediates[i] ELSE GroupIdentity], limit)]

\* The product of the ys[b] to the b, by the high and the low half of b.
Weighted(ys, k) ==
  LET high == 2^(k \div 2)
      low == 2^(k - k \div 2)
  IN  SumOf([b1 \in 0 .. high - 1 |->
               b1 * low * SumOf([b0 \in 0 .. low - 1 |-> ys[b1 * low + b0]], low)], high)
      + SumOf([b0 \in 0 .. low - 1 |->
               b0 * SumOf([b1 \in 0 .. high - 1 |-> ys[b1 * low + b0]], high)], low)

\* The loop over j = start - 1, start - 2 and so on, len times.
Blocks(intermediates, start, len, k, l, T, B) ==
  LET x[n \in 0 .. len] ==
        IF n = 0 THEN GroupIdentity
        ELSE x[n - 1] * 2^k
             + Weighted(Collected(intermediates, start - n, k, l, T, B), k)
  IN  x[len]

\* Prover::GenerateProof, of the 1-weso, 2-weso and n-weso provers.
GenerateProof(x, y, T, k, l) ==
  Blocks(Stored(x, k, l), l, l, k, l, T, BOf(x, y))

\* ParallelProver: the blocks start - len .. start - 1, shifted to their place.
ProvePart(x, y, T, k, l, start, len) ==
  2^((start - len) * k) * Blocks(Stored(x, k, l), start, len, k, l, T, BOf(x, y))

\* Mutant: both threads take the lower half.
ParallelProofLower(x, y, T, k, l) ==
  LET l0 == l \div 2
      l1 == l - l0
  IN  ProvePart(x, y, T, k, l, l1, l0) + ProvePart(x, y, T, k, l, l1, l1)

ParallelProof(x, y, T, k, l) ==
  LET l0 == l \div 2
      l1 == l - l0
  IN  ProvePart(x, y, T, k, l, l, l0) + ProvePart(x, y, T, k, l, l1, l1)

\* ProveSlow: all iterations, then the proof.
ProveSlow(x, T, k, l) ==
  LET y == x * 2^T IN [y |-> y, proof |-> GenerateProof(x, y, T, k, l), segs |-> <<>>]

----------------------------------------------------------------------------
(***************************************************************************)
(* Proofs of several segments                                              *)
(***************************************************************************)

ProvedSegment(x, length, k) ==
  LET y == x * 2^length
  IN  [x |-> x, y |-> y, length |-> length, proof |-> GenerateProof(x, y, length, k, 1)]

\* The iterations of the first n of the lengths.
Iterations(lengths, n) == SumOf([m \in 0 .. n - 1 |-> lengths[m + 1]], n)

\* Segments one after the other, from x.
ProvedChain(x, lengths, k) ==
  [n \in 1 .. Len(lengths) |->
     ProvedSegment(x * 2^Iterations(lengths, n - 1), lengths[n], k)]

SegmentBytes(sg) == [iters |-> sg.length, B |-> BOf(sg.x, sg.y), proof |-> sg.proof]

\* Mutant: the first segment first.
AssembledForwards(y, proof_segments) ==
  LET n == Len(proof_segments)
  IN  [y |-> y, proof |-> proof_segments[1].proof,
       segs |-> [i \in 1 .. n - 1 |-> SegmentBytes(proof_segments[i + 1])]]

\* ProverManager::Prove: `y, proof, [iters1, B1, proof1], ...', the last
\* segment first.
Assembled(y, proof_segments) ==
  LET n == Len(proof_segments)
  IN  [y |-> y, proof |-> proof_segments[n].proof,
       segs |-> [i \in 1 .. n - 1 |-> SegmentBytes(proof_segments[n - i])]]

\* What ProveTwoWeso proves itself before it calls itself for the rest, where
\* hundred is the distance of the checkpoints.
FirstPart(iters, hundred) ==
  LET third == (iters * 2) \div 3 IN third - (third % hundred)

\* ProveTwoWeso, at depth 0, 1 and 2.
ProveTwoWeso(x, iters, k, hundred) ==
  LET call[depth \in 0 .. 2] ==
        IF depth = 0 THEN [x |-> x, iters |-> iters]
        ELSE LET c == call[depth - 1]
                 iterations1 == FirstPart(c.iters, hundred)
             IN  [x |-> c.x * 2^iterations1, iters |-> c.iters - iterations1]
      Proved(depth) ==
        SegmentBytes(ProvedSegment(call[depth].x, FirstPart(call[depth].iters, hundred), k))
  IN  [ProveSlow(call[2].x, call[2].iters, k, 1) EXCEPT !.segs = <<Proved(1), Proved(0)>>]

----------------------------------------------------------------------------
(***************************************************************************)
(* The verifier                                                            *)
(***************************************************************************)

Combined(B, proof, x, iters) == B * proof + FastPow(2, iters, B) * x

\* The result and whether B belongs to it.
VerifyWesoSegment(x, proof, B, iters) ==
  LET y == Combined(B, proof, x, iters) IN [y |-> y, ok |-> B = BOf(x, y)]

VerifyWesolowskiProof(x, y, proof, iters) == Combined(BOf(x, y), proof, x, iters) = y

Walked(ok, x, iterations) == [ok |-> ok, x |-> x, iterations |-> iterations]

\* Mutant: the iterations of a segment are not taken off.
RemainingAll(iterations, segment_iters) == iterations

Remaining(iterations, segment_iters) == iterations - segment_iters

\* The walk over the segments from the end of the blob.
Walk(x, segs, iterations, skip_check) ==
  LET count == Len(segs)
      walked[n \in 0 .. count] ==
        IF n = 0 THEN Walked(TRUE, x, iterations)
        ELSE LET w == walked[n - 1]
                 sg == segs[count + 1 - n]
                 v == VerifyWesoSegment(w.x, sg.proof, sg.B, sg.iters)
             IN  IF ~w.ok THEN w
                 ELSE IF ~skip_check /\ ~v.ok THEN Walked(FALSE, w.x, w.iterations)
                 ELSE IF sg.iters > w.iterations THEN Walked(FALSE, v.y, w.iterations)
                 ELSE Walked(TRUE, v.y, Remaining(w.iterations, sg.iters))
  IN  walked[count]

CheckProofOfTimeNWesolowski(x, blob, iterations, depth) ==
  LET w == Walk(x, blob.segs, iterations, FALSE)
  IN  /\ depth = Len(blob.segs) /\ w.ok
      /\ VerifyWesolowskiProof(w.x, blob.y, blob.proof, w.iterations)

\* The result y, which the blob does not hold.
CheckProofOfTimeNWesolowskiWithB(B, x, blob, iterations, depth) ==
  LET w == Walk(x, blob.segs, iterations, FALSE)
      v == VerifyWesoSegment(w.x, blob.proof, B, w.iterations)
  IN  IF depth = Len(blob.segs) /\ w.ok /\ v.ok THEN <<v.y>> ELSE <<>>

\* The prime of the last segment; nothing is verified on the way.
GetBFromProof(x, blob, iterations, depth) ==
  LET w == Walk(x, blob.segs, iterations, TRUE)
  IN  IF depth = Len(blob.segs) /\ w.ok THEN BOf(w.x, blob.y) ELSE 0

=============================================================================
