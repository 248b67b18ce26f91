--------------------------- MODULE HwProof_proofs ---------------------------
(***************************************************************************)
(* Proofs about the hardware client's proof engine, for any requests,      *)
(* thresholds, number of threads and number of segments: what is queued,   *)
(* computed or sent keeps its checkpoints, and proofs are sent whole.      *)
(***************************************************************************)
EXTENDS HwProof, DataLemmas, SequenceTheorems

Proof == [iters : Nat, seg_iters : Nat, prev : Nat, is_req : BOOLEAN,
          started : BOOLEAN, done : BOOLEAN, ref_cnt : Int]

\* The proofs that are not wiped out, and those of them that wait in the queue.
Live(ps) == {j \in 1 .. Len(ps) : ps[j] \in Proof}
Waiting(ps) == {j \in Live(ps) : ~ps[j].started}

\* Every entry continues an earlier one or none.
Backward(ps) ==
  /\ ps \in Seq(Proof \union {Deleted})
  /\ \A j \in 1 .. Len(ps) : ps[j].prev \in 0 .. j - 1

\* A live proof continues a live checkpoint, which was started before it, and
\* adds its segment; a request's iterations were asked for.
LinkOK(ps, j, requests) ==
  /\ ps[j].iters = ps[j].seg_iters + (IF ps[j].prev = 0 THEN 0 ELSE ps[ps[j].prev].iters)
  /\ ps[j].prev # 0 =>
       /\ ps[j].prev \in Live(ps) /\ ~ps[ps[j].prev].is_req
       /\ ps[j].started => ps[ps[j].prev].started
  /\ ps[j].is_req => ps[j].iters \in requests
  /\ Cardinality(Chain(ps, j)) <= MaxSegments

Linked(ps, requests) == Backward(ps) /\ \A j \in Live(ps) : LinkOK(ps, j, requests)

\* The requests that need proof j.
Holders(ps, j) == {r \in Live(ps) : ps[r].is_req /\ j \in Chain(ps, r)}

\* A proof that waits has a reference for every request that needs it, and one
\* for the request that is being queued behind tail.
Referenced(ps, j, tail) ==
  /\ ps[j].ref_cnt = Cardinality(Holders(ps, j)) + (IF j \in Chain(ps, tail) THEN 1 ELSE 0)
  /\ ps[j].ref_cnt > 0

Counted(ps, tail) == \A j \in Waiting(ps) : Referenced(ps, j, tail)

Elements(seq) == {seq[n] : n \in 1 .. Len(seq)}

\* The queue has the proofs that wait, each once, and none before one that it
\* continues.
InOrder(ps, queue) ==
  /\ queue \in Seq(Nat) /\ Elements(queue) = Waiting(ps)
  /\ \A m, n \in 1 .. Len(queue) :
       m < n => queue[m] # queue[n] /\ ps[queue[m]].prev # queue[n]

QueueInv(q, tail, requests) ==
  /\ q = [req |-> q.req, proofs |-> q.proofs, queued |-> q.queued]
  /\ q.req \in Seq(requests)
  /\ Linked(q.proofs, requests) /\ Counted(q.proofs, tail) /\ InOrder(q.proofs, q.queued)

Q == [req |-> req_proofs, proofs |-> proofs, queued |-> queued_proofs]

Started(ps) == {j \in Live(ps) : ps[j].started}
Finished(ps) == {j \in Started(ps) : ps[j].is_req /\ ps[j].done}

Job == [kind : {"idle"}] \union [kind : {"values"}, next : Int, last : Int]
       \union [kind : {"wait", "proved", "push", "out"}, idx : Nat]

TypesOK ==
  /\ main \in {"loop", "erase", "stop", "cleared"}
  /\ last_iters \in Nat /\ asked \subseteq Requests
  /\ wq \in Seq([first : Int, last : Int])
  /\ thread \in [Threads -> Job]

\* Threads compute what was started; one of them may be in push_back.
ThreadInv ==
  /\ \A i \in Threads : thread[i].kind \in {"wait", "proved", "push"} => thread[i].idx \in Started(proofs)
  /\ \A i \in Threads : thread[i].kind = "push" =>
       /\ HoldsResizeMutex /\ proofs[thread[i].idx].is_req
       /\ \A k \in Threads : thread[k].kind = "push" => k = i
  /\ HoldsResizeMutex => \E i \in Threads : thread[i].kind = "push"

\* done_proofs, also as push_back or erase has found it, has finished requests.
DoneInv ==
  /\ done_proofs \in Seq(Finished(proofs))
  /\ HoldsResizeMutex => pushing \in Seq(Finished(proofs))
  /\ main = "erase" =>
       /\ seen.found \in Seq(Finished(proofs)) /\ seen.i \in 1 .. Len(seen.found)
       /\ \A j \in Chain(proofs, seen.found[seen.i]) : proofs[j].done

ClearInv ==
  main = "cleared" =>
    /\ req_proofs = << >> /\ proofs = << >> /\ queued_proofs = << >> /\ done_proofs = << >>
    /\ \A i \in Threads : thread[i] = Idle

ProofInv ==
  /\ TypesOK /\ QueueInv(Q, 0, asked) /\ ThreadInv /\ DoneInv /\ ClearInv /\ SentProofsWhole

----------------------------------------------------------------------------
(***************************************************************************)
(* Chains                                                                  *)
(***************************************************************************)

IsChain(f, ps) ==
  f = [j \in 0 .. Len(ps) |-> IF j = 0 THEN {} ELSE {j} \union f[ps[j].prev]]

\* S has with a proof the one that it continues.
Closed(S, ps) == \A k \in S : k \in 1 .. Len(ps) /\ (ps[k].prev # 0 => ps[k].prev \in S)

\* The types that follow from Backward.
LEMMA BackwardTypes ==
  ASSUME NEW ps, Backward(ps)
  PROVE  /\ Len(ps) \in Nat /\ ps \in Seq(Proof \union {Deleted}) /\ DOMAIN ps = 1 .. Len(ps)
         /\ \A j \in 1 .. Len(ps) :
              /\ ps[j].prev \in 0 .. j - 1 /\ ps[j].prev \in 0 .. Len(ps) /\ ps[j].prev \in Nat
              /\ ps[j].prev # 0 => ps[j].prev \in 1 .. Len(ps)
              /\ ps[j] \in Proof \/ ps[j] = Deleted
<1>1. ps \in Seq(Proof \union {Deleted}) /\ \A j \in 1 .. Len(ps) : ps[j].prev \in 0 .. j - 1
  BY DEF Backward
<1>2. Len(ps) \in Nat /\ DOMAIN ps = 1 .. Len(ps) /\ \A j \in 1 .. Len(ps) : ps[j] \in Proof \union {Deleted}
  BY <1>1, LenProperties, ElementOfSeq
<1> HIDE DEF Proof, Deleted
<1> QED BY <1>1, <1>2

\* The function that Chain chooses exists: the chain of j is what all closed sets
\* with j have in common.
LEMMA ChainExists ==
  ASSUME NEW ps, Backward(ps)
  PROVE  \E f : IsChain(f, ps)
<1> DEFINE N == Len(ps)
           Sets(j) == {S \in SUBSET (1 .. N) : Closed(S, ps) /\ j \in S}
           C(j) == {i \in 1 .. N : \A S \in Sets(j) : i \in S}
           f == [j \in 0 .. N |-> IF j = 0 THEN {} ELSE C(j)]
<1>1. N \in Nat /\ \A j \in 1 .. N : ps[j].prev \in 0 .. N
  BY BackwardTypes
<1>2. ASSUME NEW j \in 1 .. N PROVE C(j) = {j} \union f[ps[j].prev]
  <2> DEFINE p == ps[j].prev
  <2>1. j \in C(j)
    OBVIOUS
  <2>2. CASE p = 0
    <3> DEFINE S == {j}
    <3>1. S \in Sets(j)
      BY <2>2 DEF Closed
    <3>2. f[p] = {}
      BY <2>2, <1>1
    <3>3. C(j) \subseteq {j}
      BY <3>1
    <3> HIDE DEF C, f
    <3> QED BY <2>1, <3>2, <3>3
  <2>3. CASE p # 0
    <3>0. p \in 1 .. N
      BY <1>1, <2>3
    <3>1. f[p] = C(p)
      <4>1. p \in 0 .. N
        BY <1>1
      <4> HIDE DEF C, N, p
      <4> QED BY <2>3, <4>1
    <3>2. C(p) \subseteq C(j)
      <4>1. Sets(j) \subseteq Sets(p)
        BY <2>3 DEF Closed
      <4> QED BY <4>1
    <3>3. C(j) \subseteq {j} \union C(p)
      <4> DEFINE S == {j} \union C(p)
      <4>1. S \subseteq 1 .. N
        OBVIOUS
      <4>2. p \in C(p)
        BY <3>0
      <4>3. ASSUME NEW k \in C(p), ps[k].prev # 0 PROVE ps[k].prev \in C(p)
        <5>1. k \in 1 .. N /\ ps[k].prev \in 1 .. N
          BY <1>1, <4>3
        <5>2. ASSUME NEW S1 \in Sets(p) PROVE ps[k].prev \in S1
          <6>1. k \in S1 /\ Closed(S1, ps)
            OBVIOUS
          <6> QED BY <4>3, <6>1 DEF Closed
        <5> QED BY <5>1, <5>2
      <4>4. Closed(S, ps)
        <5> HIDE DEF C
        <5>1. C(p) \subseteq 1 .. N
          BY DEF C
        <5> QED BY <4>2, <4>3, <5>1 DEF Closed
      <4>5. S \in Sets(j)
        <5> HIDE DEF C
        <5> QED BY <4>1, <4>4
      <4> QED BY <4>5
    <3> HIDE DEF C, f
    <3> QED BY <2>1, <3>1, <3>2, <3>3
  <2> QED BY <2>2, <2>3
<1>3. \A j \in 0 .. N : f[j] = IF j = 0 THEN {} ELSE {j} \union f[ps[j].prev]
  <2>1. ASSUME NEW j \in 0 .. N, j # 0 PROVE f[j] = {j} \union f[ps[j].prev]
    <3>1. j \in 1 .. N /\ f[j] = C(j)
      BY <1>1, <2>1
    <3> HIDE DEF C, f, N
    <3> QED BY <3>1, <1>2
  <2>2. f[0] = {}
    BY <1>1
  <2> HIDE DEF f
  <2> QED BY <2>1, <2>2
<1>4. f = [j \in 0 .. N |-> f[j]]
  OBVIOUS
<1> HIDE DEF f
<1>5. f = [j \in 0 .. N |-> IF j = 0 THEN {} ELSE {j} \union f[ps[j].prev]]
  BY <1>3, <1>4
<1> QED BY <1>5, Zenon DEF IsChain

\* A chain is its first proof and the chain of the one that it continues.
LEMMA ChainUnfolds ==
  ASSUME NEW ps, Backward(ps)
  PROVE  /\ Chain(ps, 0) = {}
         /\ \A j \in 1 .. Len(ps) : Chain(ps, j) = {j} \union Chain(ps, ps[j].prev)
<1> DEFINE h == CHOOSE f : IsChain(f, ps)
<1>1. IsChain(h, ps)
  BY ChainExists, Zenon
<1>2. \A j : Chain(ps, j) = h[j]
  BY Zenon DEF Chain, IsChain
<1> HIDE DEF h
<1>3. \A j \in 0 .. Len(ps) : h[j] = IF j = 0 THEN {} ELSE {j} \union h[ps[j].prev]
  <2>1. h = [j \in 0 .. Len(ps) |-> IF j = 0 THEN {} ELSE {j} \union h[ps[j].prev]]
    BY <1>1, Zenon DEF IsChain
  <2> QED BY <2>1, Zenon
<1>4. Len(ps) \in Nat
  BY BackwardTypes
<1>5. h[0] = {}
  <2>1. 0 \in 0 .. Len(ps)
    BY <1>4
  <2> QED BY <1>3, <2>1, Zenon
<1>6. ASSUME NEW j \in 1 .. Len(ps) PROVE h[j] = {j} \union h[ps[j].prev]
  <2>1. j \in 0 .. Len(ps) /\ j # 0
    BY <1>4
  <2> QED BY <1>3, <2>1
<1> QED BY <1>2, <1>5, <1>6, Zenon

\* A closed set has the chains of its members.
LEMMA ChainWithin ==
  ASSUME NEW ps, Backward(ps), NEW S, Closed(S, ps), NEW j \in S
  PROVE  Chain(ps, j) \subseteq S
<1> DEFINE T == {n \in Nat : n \in S => Chain(ps, n) \subseteq S}
<1>1. ASSUME NEW n \in Nat, \A m \in 0 .. n - 1 : m \in T PROVE n \in T
  <2> SUFFICES ASSUME n \in S PROVE Chain(ps, n) \subseteq S
    OBVIOUS
  <2> DEFINE p == ps[n].prev
  <2>1. n \in 1 .. Len(ps) /\ p \in 0 .. n - 1 /\ (p # 0 => p \in S)
    BY BackwardTypes DEF Closed
  <2>2. Chain(ps, p) \subseteq S
    <3>1. CASE p = 0
      BY <3>1, ChainUnfolds
    <3>2. CASE p # 0
      BY <1>1, <2>1, <3>2
    <3> QED BY <3>1, <3>2
  <2>3. Chain(ps, n) = {n} \union Chain(ps, p)
    BY <2>1, ChainUnfolds
  <2> QED BY <2>2, <2>3
<1>2. Nat \subseteq T
  <2> HIDE DEF T
  <2> QED BY <1>1, StrongInductiveSet
<1>3. j \in 1 .. Len(ps) /\ Len(ps) \in Nat
  BY BackwardTypes DEF Closed
<1> QED BY <1>2, <1>3

\* qs links the members of K as ps does, and K is closed.
Agree(ps, qs, K) ==
  \A k \in K : /\ k \in 1 .. Len(ps) /\ k \in 1 .. Len(qs) /\ qs[k].prev = ps[k].prev
               /\ ps[k].prev # 0 => ps[k].prev \in K

\* Entries that are linked alike have the same chains.
LEMMA SameChain ==
  ASSUME NEW ps, Backward(ps), NEW qs, Backward(qs), NEW K, Agree(ps, qs, K), NEW j \in K
  PROVE  Chain(qs, j) = Chain(ps, j)
<1> DEFINE T == {n \in Nat : n \in K => Chain(qs, n) = Chain(ps, n)}
<1>1. ASSUME NEW n \in Nat, \A m \in 0 .. n - 1 : m \in T PROVE n \in T
  <2> SUFFICES ASSUME n \in K PROVE Chain(qs, n) = Chain(ps, n)
    OBVIOUS
  <2> DEFINE p == ps[n].prev
  <2>1. n \in 1 .. Len(ps) /\ n \in 1 .. Len(qs) /\ p \in 0 .. n - 1 /\ (p # 0 => p \in K) /\ qs[n].prev = p
    BY BackwardTypes DEF Agree
  <2>2. Chain(qs, p) = Chain(ps, p)
    <3>1. CASE p = 0
      BY <3>1, ChainUnfolds
    <3>2. CASE p # 0
      BY <1>1, <2>1, <3>2
    <3> QED BY <3>1, <3>2
  <2>3. Chain(ps, n) = {n} \union Chain(ps, p) /\ Chain(qs, n) = {n} \union Chain(qs, p)
    BY <2>1, ChainUnfolds
  <2> QED BY <2>2, <2>3
<1>2. Nat \subseteq T
  <2> HIDE DEF T
  <2> QED BY <1>1, StrongInductiveSet
<1>3. j \in 1 .. Len(ps) /\ Len(ps) \in Nat
  BY BackwardTypes DEF Agree
<1> QED BY <1>2, <1>3

\* A chain only goes back in the vector; it is finite.
LEMMA ChainBelow ==
  ASSUME NEW ps, Backward(ps), NEW j \in 0 .. Len(ps)
  PROVE  /\ Chain(ps, j) \subseteq 1 .. j /\ Chain(ps, j) \subseteq 1 .. Len(ps)
         /\ IsFiniteSet(Chain(ps, j)) /\ Cardinality(Chain(ps, j)) \in Nat
<1>0. Len(ps) \in Nat /\ j \in Nat
  BY BackwardTypes
<1>1. Chain(ps, j) \subseteq 1 .. j
  <2>1. CASE j = 0
    BY <2>1, ChainUnfolds
  <2>2. CASE j # 0
    <3> DEFINE S == 1 .. j
    <3>1. Closed(S, ps)
      <4>1. ASSUME NEW k \in S PROVE k \in 1 .. Len(ps) /\ (ps[k].prev # 0 => ps[k].prev \in S)
        <5>1. k \in 1 .. Len(ps)
          BY <1>0
        <5>2. ps[k].prev \in 0 .. k - 1
          BY <5>1, BackwardTypes
        <5> QED BY <1>0, <5>1, <5>2
      <4> QED BY <4>1 DEF Closed
    <3>2. j \in S
      BY <1>0, <2>2
    <3> QED BY <3>1, <3>2, ChainWithin
  <2> QED BY <2>1, <2>2
<1>2. IsFiniteSet(1 .. j)
  BY <1>0, FS_Interval
<1>3. IsFiniteSet(Chain(ps, j))
  BY <1>1, <1>2, FS_Subset
<1> QED BY <1>0, <1>1, <1>3, FS_CardinalityType

IsVisited(f, ps) ==
  f = [j \in 0 .. Len(ps) |->
         IF j = 0 \/ (j > 0 /\ ps[j].started) THEN {} ELSE {j} \union f[ps[j].prev]]

\* What a started proof continues was started.
StartedFirst(ps) ==
  \A j \in 1 .. Len(ps) : ps[j].started /\ ps[j].prev # 0 => ps[ps[j].prev].started

NotStarted(ps, j) == {i \in Chain(ps, j) : ~ps[i].started}

\* The part of a chain that is not started ends at the first started one.
LEMMA NotStartedUnfolds ==
  ASSUME NEW ps, Backward(ps), StartedFirst(ps), NEW j \in 0 .. Len(ps)
  PROVE  NotStarted(ps, j) =
           IF j = 0 \/ (j > 0 /\ ps[j].started) THEN {} ELSE {j} \union NotStarted(ps, ps[j].prev)
<1>0. Len(ps) \in Nat
  BY BackwardTypes
<1>1. CASE j = 0
  BY <1>1, ChainUnfolds DEF NotStarted
<1>2. CASE j # 0 /\ ps[j].started
  <2> DEFINE S == {k \in 1 .. Len(ps) : ps[k].started}
  <2>1. Closed(S, ps)
    BY BackwardTypes DEF Closed, StartedFirst
  <2>2. j \in S
    BY <1>0, <1>2
  <2>3. Chain(ps, j) \subseteq S
    <3> HIDE DEF S
    <3> QED BY <2>1, <2>2, ChainWithin
  <2> QED BY <1>0, <1>2, <2>3 DEF NotStarted
<1>3. CASE j # 0 /\ ~ps[j].started
  <2>1. j \in 1 .. Len(ps)
    BY <1>0, <1>3
  <2>2. Chain(ps, j) = {j} \union Chain(ps, ps[j].prev)
    BY <2>1, ChainUnfolds
  <2> QED BY <1>0, <1>3, <2>2 DEF NotStarted
<1> QED BY <1>1, <1>2, <1>3

\* dec_ref visits what was not started of a chain.
LEMMA UnstartedIs ==
  ASSUME NEW ps, Backward(ps), StartedFirst(ps), NEW idx \in 0 .. Len(ps)
  PROVE  Unstarted(ps, idx) = NotStarted(ps, idx)
<1>0. Len(ps) \in Nat
  BY BackwardTypes
<1> DEFINE F(f, j) == IF j = 0 \/ (j > 0 /\ ps[j].started) THEN {} ELSE {j} \union f[ps[j].prev]
           g == [j \in 0 .. Len(ps) |-> NotStarted(ps, j)]
           h == CHOOSE f : IsVisited(f, ps)
<1>1. ASSUME NEW j \in 0 .. Len(ps) PROVE g[j] = F(g, j)
  <2>1. j # 0 => ps[j].prev \in 0 .. Len(ps)
    BY <1>0, BackwardTypes
  <2>2. g[j] = NotStarted(ps, j) /\ (j # 0 => g[ps[j].prev] = NotStarted(ps, ps[j].prev))
    BY <2>1
  <2> HIDE DEF g
  <2> QED BY <2>2, NotStartedUnfolds
<1>2. IsVisited(g, ps)
  <2>1. g = [j \in 0 .. Len(ps) |-> g[j]]
    OBVIOUS
  <2> HIDE DEF g
  <2>2. g = [j \in 0 .. Len(ps) |-> F(g, j)]
    <3> HIDE DEF F
    <3> QED BY <2>1, <1>1
  <2> QED BY <2>2, Zenon DEF IsVisited
<1>3. IsVisited(h, ps)
  <2> HIDE DEF g
  <2> QED BY <1>2, Zenon
<1>4. Unstarted(ps, idx) = h[idx]
  BY Zenon DEF Unstarted, IsVisited
<1> HIDE DEF h
<1>5. ASSUME NEW j \in 0 .. Len(ps) PROVE h[j] = F(h, j)
  <2>1. h = [k \in 0 .. Len(ps) |-> F(h, k)]
    BY <1>3, Zenon DEF IsVisited
  <2> QED BY <2>1, Zenon
<1> DEFINE T == {n \in Nat : n \in 0 .. Len(ps) => h[n] = NotStarted(ps, n)}
<1>6. ASSUME NEW n \in Nat, \A m \in 0 .. n - 1 : m \in T PROVE n \in T
  <2> SUFFICES ASSUME n \in 0 .. Len(ps) PROVE h[n] = NotStarted(ps, n)
    OBVIOUS
  <2>1. h[n] = F(h, n)
    BY <1>5
  <2>2. NotStarted(ps, n) =
           IF n = 0 \/ (n > 0 /\ ps[n].started) THEN {} ELSE {n} \union NotStarted(ps, ps[n].prev)
    BY NotStartedUnfolds
  <2>3. CASE n = 0
    BY <2>1, <2>2, <2>3
  <2>4. CASE n # 0
    <3>0. n \in 1 .. Len(ps)
      BY <1>0, <2>4
    <3>1. ps[n].prev \in 0 .. n - 1 /\ ps[n].prev \in 0 .. Len(ps) /\ ps[n].prev \in Nat
      BY <3>0, BackwardTypes
    <3>2. h[ps[n].prev] = NotStarted(ps, ps[n].prev)
      BY <3>1, <1>6
    <3> QED BY <2>1, <2>2, <3>2
  <2> QED BY <2>3, <2>4
<1>7. Nat \subseteq T
  <2> HIDE DEF T
  <2> QED BY <1>6, StrongInductiveSet
<1> QED BY <1>0, <1>4, <1>7

----------------------------------------------------------------------------
(***************************************************************************)
(* Sequences                                                               *)
(***************************************************************************)

IsSelection(f, seq, S) ==
  f = [n \in 0 .. Len(seq) |->
         IF n = 0 THEN << >> ELSE IF seq[n] \in S THEN Append(f[n - 1], seq[n]) ELSE f[n - 1]]

\* s has those of the first n elements of seq that are in S, in their order.
Picks(s, seq, S, n) ==
  /\ \A k \in 1 .. Len(s) : s[k] \in S /\ \E l \in 1 .. n : s[k] = seq[l]
  /\ \A l \in 1 .. n : seq[l] \in S => \E k \in 1 .. Len(s) : s[k] = seq[l]
  /\ \A k1, k2 \in 1 .. Len(s) : k1 < k2 =>
       \E l1, l2 \in 1 .. n : l1 < l2 /\ s[k1] = seq[l1] /\ s[k2] = seq[l2]

\* A selection of the first n elements is continued by the next one.
LEMMA PickNext ==
  ASSUME NEW M, NEW seq \in Seq(M), NEW S, NEW n \in 1 .. Len(seq), NEW s \in Seq(M), Picks(s, seq, S, n - 1)
  PROVE  LET t == IF seq[n] \in S THEN Append(s, seq[n]) ELSE s
         IN  t \in Seq(M) /\ Picks(t, seq, S, n)
<1>0. Len(seq) \in Nat /\ n \in Nat /\ n >= 1 /\ seq[n] \in M
  BY LenProperties, ElementOfSeq
<1>1. CASE seq[n] \notin S
  <2>1. \A l \in 1 .. n : l \in 1 .. n - 1 \/ l = n
    BY <1>0
  <2>2. \A l \in 1 .. n - 1 : l \in 1 .. n
    BY <1>0
  <2>3. Picks(s, seq, S, n)
    <3>1. \A k \in 1 .. Len(s) : s[k] \in S /\ \E l \in 1 .. n : s[k] = seq[l]
      BY <2>2 DEF Picks
    <3>2. \A l \in 1 .. n : seq[l] \in S => \E k \in 1 .. Len(s) : s[k] = seq[l]
      BY <1>1, <2>1 DEF Picks
    <3>3. \A k1, k2 \in 1 .. Len(s) : k1 < k2 =>
            \E l1, l2 \in 1 .. n : l1 < l2 /\ s[k1] = seq[l1] /\ s[k2] = seq[l2]
      BY <2>2 DEF Picks
    <3> QED BY <3>1, <3>2, <3>3 DEF Picks
  <2> QED BY <1>1, <2>3
<1>2. CASE seq[n] \in S
  <2> DEFINE t == Append(s, seq[n])
  <2>1. /\ t \in Seq(M) /\ Len(s) \in Nat /\ Len(t) = Len(s) + 1 /\ t[Len(s) + 1] = seq[n]
        /\ \A k \in 1 .. Len(s) : t[k] = s[k]
    BY <1>0, AppendProperties, LenProperties
  <2> HIDE DEF t
  <2>2. \A k \in 1 .. Len(t) : k \in 1 .. Len(s) \/ k = Len(s) + 1
    BY <2>1
  <2>3. \A k \in 1 .. Len(s) : k \in 1 .. Len(t)
    BY <2>1
  <2>4. n \in 1 .. n /\ Len(s) + 1 \in 1 .. Len(t) /\ \A l \in 1 .. n - 1 : l \in 1 .. n /\ l < n
    BY <1>0, <2>1
  <2>5. \A k \in 1 .. Len(t) : t[k] \in S /\ \E l \in 1 .. n : t[k] = seq[l]
    <3>1. ASSUME NEW k \in 1 .. Len(s) PROVE t[k] \in S /\ \E l \in 1 .. n : t[k] = seq[l]
      <4>1. PICK l \in 1 .. n - 1 : s[k] = seq[l]
        BY DEF Picks
      <4>2. s[k] \in S /\ t[k] = s[k] /\ l \in 1 .. n
        BY <2>1, <2>4 DEF Picks
      <4> QED BY <4>1, <4>2
    <3>2. t[Len(s) + 1] \in S /\ \E l \in 1 .. n : t[Len(s) + 1] = seq[l]
      BY <1>2, <2>1, <2>4
    <3> QED BY <2>2, <3>1, <3>2
  <2>6. \A l \in 1 .. n : seq[l] \in S => \E k \in 1 .. Len(t) : t[k] = seq[l]
    <3>1. \A l \in 1 .. n - 1 : seq[l] \in S => \E k \in 1 .. Len(s) : s[k] = seq[l]
      BY DEF Picks
    <3>2. \A l \in 1 .. n : l \in 1 .. n - 1 \/ l = n
      BY <1>0
    <3>3. \A l \in 1 .. n - 1 : seq[l] \in S => \E k \in 1 .. Len(t) : t[k] = seq[l]
      BY <2>1, <2>3, <3>1
    <3>4. \E k \in 1 .. Len(t) : t[k] = seq[n]
      BY <2>1, <2>4
    <3> QED BY <3>2, <3>3, <3>4
  <2>7. ASSUME NEW k1 \in 1 .. Len(t), NEW k2 \in 1 .. Len(t), k1 < k2
        PROVE  \E l1, l2 \in 1 .. n : l1 < l2 /\ t[k1] = seq[l1] /\ t[k2] = seq[l2]
    <3>1. k1 \in 1 .. Len(s)
      BY <2>1, <2>7
    <3>2. CASE k2 \in 1 .. Len(s)
      <4>1. PICK l1 \in 1 .. n - 1, l2 \in 1 .. n - 1 : l1 < l2 /\ s[k1] = seq[l1] /\ s[k2] = seq[l2]
        BY <2>7, <3>1, <3>2 DEF Picks
      <4> QED BY <2>1, <2>4, <3>1, <3>2, <4>1
    <3>3. CASE k2 = Len(s) + 1
      <4>1. PICK l1 \in 1 .. n - 1 : s[k1] = seq[l1]
        BY <3>1 DEF Picks
      <4> QED BY <2>1, <2>4, <3>1, <3>3, <4>1
    <3> QED BY <2>2, <3>2, <3>3
  <2>8. Picks(t, seq, S, n)
    BY <2>5, <2>6, <2>7 DEF Picks
  <2> QED BY <1>2, <2>1, <2>8 DEF t
<1> QED BY <1>1, <1>2

\* What Selected computes is a selection of the whole sequence.
LEMMA SelectedPicks ==
  ASSUME NEW M, NEW seq \in Seq(M), NEW S
  PROVE  Selected(seq, S) \in Seq(M) /\ Picks(Selected(seq, S), seq, S, Len(seq))
<1> DEFINE N == Len(seq)
           V == Seq(M)
           e == << >>
           Then(n, s) == IF seq[n] \in S THEN Append(s, seq[n]) ELSE s
           D == [p \in (1 .. N) \X V |-> Then(p[1], p[2])]
           h == CHOOSE f : IsSelection(f, seq, S)
<1>0. N \in Nat /\ e \in V /\ \A n \in 1 .. N : seq[n] \in M
  BY LenProperties, ElementOfSeq, EmptySeq
<1>1. D \in [(1 .. N) \X V -> V]
  <2>1. ASSUME NEW n \in 1 .. N, NEW s \in V PROVE Then(n, s) \in V
    BY <1>0, AppendProperties
  <2> HIDE DEF Then, V
  <2> QED BY <2>1
<1>2. PICK g \in [0 .. N -> V] : Recurs(g, N, e, D)
  <2> HIDE DEF D, V, N, e
  <2> QED BY <1>0, <1>1, RecursiveFunction
<1>3. ASSUME NEW n \in 0 .. N PROVE g[n] = IF n = 0 THEN e ELSE Then(n, g[n - 1])
  <2>1. CASE n = 0
    BY <1>2, <2>1 DEF Recurs
  <2>2. CASE n # 0
    <3>1. n \in 1 .. N /\ n - 1 \in 0 .. N
      BY <1>0, <2>2
    <3>2. g[n] = D[<<n, g[n - 1]>>] /\ <<n, g[n - 1]>> \in (1 .. N) \X V
      <4> HIDE DEF D, V
      <4> QED BY <1>2, <3>1 DEF Recurs
    <3>3. D[<<n, g[n - 1]>>] = Then(n, g[n - 1])
      <4> HIDE DEF Then, V
      <4> QED BY <3>2
    <3> HIDE DEF D, Then, e
    <3> QED BY <2>2, <3>2, <3>3
  <2> QED BY <2>1, <2>2
<1>4. IsSelection(g, seq, S)
  <2>1. g = [n \in 0 .. N |-> g[n]]
    OBVIOUS
  <2>2. g = [n \in 0 .. N |-> IF n = 0 THEN e ELSE Then(n, g[n - 1])]
    <3> HIDE DEF Then, e, N
    <3> QED BY <1>3, <2>1
  <2> QED BY <2>2, Zenon DEF IsSelection
<1>5. IsSelection(h, seq, S)
  BY <1>4, Zenon
<1>6. Selected(seq, S) = h[N]
  BY Zenon DEF Selected, IsSelection
<1> HIDE DEF h
<1>7. ASSUME NEW n \in 0 .. N PROVE h[n] = IF n = 0 THEN e ELSE Then(n, h[n - 1])
  <2>1. h = [k \in 0 .. N |-> IF k = 0 THEN e ELSE Then(k, h[k - 1])]
    BY <1>5, Zenon DEF IsSelection
  <2> QED BY <2>1, Zenon
<1> DEFINE T == {n \in Nat : n <= N => h[n] \in V /\ Picks(h[n], seq, S, n)}
<1>8. 0 \in T
  <2>1. 0 \in 0 .. N /\ h[0] = << >>
    BY <1>0, <1>7
  <2>2. Picks(<< >>, seq, S, 0)
    BY DEF Picks
  <2> QED BY <1>0, <2>1, <2>2
<1>9. ASSUME NEW n \in Nat, n \in T PROVE n + 1 \in T
  <2> SUFFICES ASSUME n + 1 <= N PROVE h[n + 1] \in V /\ Picks(h[n + 1], seq, S, n + 1)
    OBVIOUS
  <2>1. h[n] \in V /\ Picks(h[n], seq, S, n) /\ n + 1 \in 1 .. N /\ n + 1 \in 0 .. N /\ (n + 1) - 1 = n /\ n + 1 # 0
    BY <1>0, <1>9
  <2>2. h[n + 1] = Then(n + 1, h[n])
    <3> HIDE DEF Then, e
    <3> QED BY <1>7, <2>1
  <2>3. Then(n + 1, h[n]) \in V /\ Picks(Then(n + 1, h[n]), seq, S, n + 1)
    <3> DEFINE k == n + 1
               s == h[n]
    <3>1. k \in 1 .. Len(seq) /\ s \in Seq(M) /\ Picks(s, seq, S, k - 1)
      BY <2>1
    <3> HIDE DEF k, s
    <3>2. Then(k, s) \in V /\ Picks(Then(k, s), seq, S, k)
      BY <3>1, PickNext
    <3> QED BY <3>2 DEF k, s
  <2> QED BY <2>2, <2>3
<1>10. Nat \subseteq T
  <2> HIDE DEF T
  <2> QED BY <1>8, <1>9, InductiveSet
<1> QED BY <1>0, <1>6, <1>10

\* s is seq with x behind the first p elements.
Inserted(s, seq, x, p) ==
  /\ p \in 0 .. Len(seq) /\ Len(s) = Len(seq) + 1
  /\ \A i \in 1 .. p : s[i] = seq[i]
  /\ s[p + 1] = x
  /\ \A i \in p + 1 .. Len(seq) : s[i + 1] = seq[i]

\* What InsertBehind computes is the sequence with x at one place.
LEMMA InsertBehindInserts ==
  ASSUME NEW M, NEW seq \in Seq(M), NEW x \in M, NEW places, places \subseteq 1 .. Len(seq)
  PROVE  /\ InsertBehind(seq, x, places) \in Seq(M)
         /\ \E p \in 0 .. Len(seq) :
              Inserted(InsertBehind(seq, x, places), seq, x, p) /\ \A m \in places : m <= p
<1>0. Len(seq) \in Nat
  BY LenProperties
<1> DEFINE P == places \union {0}
           p == CHOOSE n \in P : \A m \in places : m <= n
           a == SubSeq(seq, 1, p)
           b == <<x>>
           c == SubSeq(seq, p + 1, Len(seq))
<1>1. \E n \in P : \A m \in places : m <= n
  <2>1. P \subseteq Nat /\ P # {} /\ \A m \in P : m <= Len(seq)
    BY <1>0
  <2>2. \E n \in P : \A m \in P : m <= n
    <3> HIDE DEF P
    <3> QED BY <1>0, <2>1, GreatestNatural
  <2> QED BY <2>2
<1>2. p \in P /\ \A m \in places : m <= p
  BY <1>1, Zenon
<1>3. p \in 0 .. Len(seq)
  <2>1. P \subseteq 0 .. Len(seq)
    BY <1>0
  <2> HIDE DEF p, P
  <2> QED BY <1>2, <2>1
<1>4. InsertBehind(seq, x, places) = (a \o b) \o c
  BY DEF InsertBehind
<1> HIDE DEF p
<1>5. /\ a \in Seq(M) /\ Len(a) = p /\ \A i \in 1 .. p : a[i] = seq[i]
  BY <1>0, <1>3, SubSeqProperties
<1>6. /\ c \in Seq(M) /\ Len(c) = Len(seq) - p /\ \A i \in 1 .. Len(seq) - p : c[i] = seq[p + i]
  BY <1>0, <1>3, SubSeqProperties
<1>7. b \in Seq(M) /\ Len(b) = 1 /\ b[1] = x
  OBVIOUS
<1> HIDE DEF a, b, c
<1>8. (a \o b) \in Seq(M) /\ Len(a \o b) = p + 1 /\ (a \o b)[p + 1] = x /\ \A i \in 1 .. p : (a \o b)[i] = seq[i]
  <2>1. /\ (a \o b) \in Seq(M) /\ Len(a \o b) = Len(a) + Len(b)
        /\ \A i \in 1 .. Len(a) + Len(b) : (a \o b)[i] = IF i <= Len(a) THEN a[i] ELSE b[i - Len(a)]
    BY <1>5, <1>7, ConcatProperties
  <2>2. p \in Nat /\ p + 1 \in 1 .. p + 1 /\ (p + 1) - p = 1 /\ ~(p + 1 <= p) /\ \A i \in 1 .. p : i \in 1 .. p + 1 /\ i <= p
    BY <1>0, <1>3
  <2> QED BY <1>5, <1>7, <2>1, <2>2
<1> DEFINE d == a \o b
           s == d \o c
<1> HIDE DEF d
<1>9. s \in Seq(M) /\ Len(s) = Len(d) + Len(c)
      /\ \A i \in 1 .. Len(d) + Len(c) : s[i] = IF i <= Len(d) THEN d[i] ELSE c[i - Len(d)]
  <2>1. d \in Seq(M)
    BY <1>8 DEF d
  <2> QED BY <1>6, <2>1, ConcatProperties
<1> HIDE DEF s
<1>10. d \in Seq(M) /\ Len(d) = p + 1 /\ d[p + 1] = x /\ \A i \in 1 .. p : d[i] = seq[i]
  BY <1>8 DEF d
<1>11. Inserted(s, seq, x, p)
  <2>1. Len(s) = Len(seq) + 1
    BY <1>0, <1>3, <1>6, <1>9, <1>10
  <2>2. ASSUME NEW i \in 1 .. p PROVE s[i] = seq[i]
    <3>1. i \in 1 .. Len(d) + Len(c) /\ i <= Len(d)
      BY <1>0, <1>3, <1>6, <1>10
    <3> QED BY <1>9, <1>10, <3>1
  <2>3. s[p + 1] = x
    BY <1>0, <1>3, <1>6, <1>9, <1>10
  <2>4. ASSUME NEW i \in p + 1 .. Len(seq) PROVE s[i + 1] = seq[i]
    <3>1. i - p \in 1 .. Len(seq) - p /\ p + (i - p) = i /\ (i + 1) - (p + 1) = i - p
      BY <1>0, <1>3
    <3>2. s[i + 1] = c[(i + 1) - (p + 1)]
      BY <1>0, <1>3, <1>6, <1>9, <1>10
    <3> QED BY <1>6, <3>1, <3>2
  <2> QED BY <1>3, <2>1, <2>2, <2>3, <2>4 DEF Inserted
<1> QED BY <1>2, <1>3, <1>4, <1>9, <1>11 DEF s, d

----------------------------------------------------------------------------
(***************************************************************************)
(* Queueing                                                                *)
(***************************************************************************)

\* The types that follow from Linked, and what a started proof continues.
LEMMA LinkedTypes ==
  ASSUME NEW ps, NEW requests, Linked(ps, requests)
  PROVE  /\ Backward(ps) /\ StartedFirst(ps) /\ Closed(Live(ps), ps)
         /\ \A j \in Live(ps) :
              /\ LinkOK(ps, j, requests) /\ j \in 1 .. Len(ps) /\ j \in Nat
              /\ ps[j].iters \in Nat /\ ps[j].seg_iters \in Nat /\ ps[j].prev \in Nat
              /\ ps[j].is_req \in BOOLEAN /\ ps[j].started \in BOOLEAN /\ ps[j].done \in BOOLEAN
              /\ ps[j].ref_cnt \in Int
<1>1. Backward(ps) /\ \A j \in Live(ps) : LinkOK(ps, j, requests)
  BY DEF Linked
<1>2. Len(ps) \in Nat
  BY <1>1, BackwardTypes
<1>3. ASSUME NEW j \in 1 .. Len(ps), ps[j].prev # 0 PROVE j \in Live(ps)
  <2>1. ps[j] \in Proof \/ ps[j] = Deleted
    BY <1>1, BackwardTypes
  <2> QED BY <1>3, <2>1 DEF Live, Deleted
<1>4. StartedFirst(ps)
  BY <1>1, <1>3 DEF StartedFirst, LinkOK
<1>5. Closed(Live(ps), ps)
  <2>1. \A j \in Live(ps) : j \in 1 .. Len(ps)
    BY DEF Live
  <2> QED BY <1>1, <2>1 DEF Closed, LinkOK
<1>6. ASSUME NEW j \in Live(ps)
      PROVE  /\ LinkOK(ps, j, requests) /\ j \in 1 .. Len(ps) /\ j \in Nat
             /\ ps[j].iters \in Nat /\ ps[j].seg_iters \in Nat /\ ps[j].prev \in Nat
             /\ ps[j].is_req \in BOOLEAN /\ ps[j].started \in BOOLEAN /\ ps[j].done \in BOOLEAN
             /\ ps[j].ref_cnt \in Int
  <2>1. j \in 1 .. Len(ps) /\ ps[j] \in Proof
    BY DEF Live
  <2> QED BY <1>1, <1>2, <2>1 DEF Proof
<1> QED BY <1>1, <1>4, <1>5, <1>6

\* What the next segment may continue.
TailOK(ps, tail) == tail = 0 \/ (tail \in Live(ps) /\ ~ps[tail].is_req /\ ~ps[tail].started)

ItersOf(ps, j) == IF j = 0 THEN 0 ELSE ps[j].iters

\* The proof that hw_queue_proof appends fits the ones that are there.
Fits(ps, p, requests) ==
  /\ p \in Proof /\ TailOK(ps, p.prev) /\ ~p.started /\ p.ref_cnt = 1
  /\ p.iters = p.seg_iters + ItersOf(ps, p.prev)
  /\ p.is_req => p.iters \in requests
  /\ Cardinality(Chain(ps, p.prev)) + 1 <= MaxSegments

\* A new proof at the end leaves all chains as they are.
LEMMA AppendChains ==
  ASSUME NEW ps, NEW p, NEW requests, Linked(ps, requests), Fits(ps, p, requests)
  PROVE  LET qs == Append(ps, p)
             n == Len(ps) + 1
         IN  /\ Len(qs) = n /\ n \in Nat /\ n # 0 /\ n \notin 1 .. Len(ps) /\ qs[n] = p
             /\ \A j \in 1 .. Len(ps) : qs[j] = ps[j]
             /\ Backward(qs)
             /\ Live(qs) = Live(ps) \union {n} /\ Waiting(qs) = Waiting(ps) \union {n}
             /\ \A j \in 0 .. Len(ps) : Chain(qs, j) = Chain(ps, j)
             /\ Chain(qs, n) = {n} \union Chain(ps, p.prev)
             /\ p.prev \in 0 .. Len(ps)
<1> DEFINE qs == Append(ps, p)
           n == Len(ps) + 1
<1>0. Backward(ps) /\ Len(ps) \in Nat /\ ps \in Seq(Proof \union {Deleted}) /\ p \in Proof
  BY BackwardTypes DEF Linked, Fits
<1>1. /\ qs \in Seq(Proof \union {Deleted}) /\ Len(qs) = n /\ qs[n] = p
      /\ \A j \in 1 .. Len(ps) : qs[j] = ps[j]
  <2> HIDE DEF Proof, Deleted
  <2>1. p \in Proof \union {Deleted}
    BY <1>0
  <2> QED BY <1>0, <2>1, AppendProperties
<1> HIDE DEF qs
<1>2. n \in Nat /\ n # 0 /\ n \notin 1 .. Len(ps) /\ \A j \in 1 .. n : j \in 1 .. Len(ps) \/ j = n
  BY <1>0
<1>3. p.prev \in 0 .. Len(ps)
  BY <1>0 DEF Fits, TailOK, Live
<1>4. Backward(qs)
  <2>1. ASSUME NEW j \in 1 .. n PROVE qs[j].prev \in 0 .. j - 1
    <3>1. CASE j \in 1 .. Len(ps)
      BY <1>0, <1>1, <3>1, BackwardTypes
    <3>2. CASE j = n
      BY <1>0, <1>1, <1>3, <3>2
    <3> QED BY <1>2, <3>1, <3>2
  <2> QED BY <1>1, <2>1 DEF Backward
<1>5. Live(qs) = Live(ps) \union {n}
  <2>1. \A j \in 1 .. Len(ps) : j \in 1 .. n
    BY <1>0
  <2>2. n \in 1 .. n
    BY <1>0
  <2> HIDE DEF n
  <2>3. \A j : j \in Live(qs) <=> j \in 1 .. n /\ qs[j] \in Proof
    BY <1>1 DEF Live
  <2>4. \A j : j \in Live(ps) <=> j \in 1 .. Len(ps) /\ ps[j] \in Proof
    BY DEF Live
  <2> QED BY <1>0, <1>1, <1>2, <2>1, <2>2, <2>3, <2>4
<1>6. Waiting(qs) = Waiting(ps) \union {n}
  <2>1. ~qs[n].started
    BY <1>1 DEF Fits
  <2>2. \A j \in Live(ps) : j \in 1 .. Len(ps) /\ qs[j] = ps[j]
    BY <1>1 DEF Live
  <2> QED BY <1>5, <2>1, <2>2 DEF Waiting
<1>7. ASSUME NEW j \in 0 .. Len(ps) PROVE Chain(qs, j) = Chain(ps, j)
  <2>1. CASE j = 0
    BY <1>0, <1>4, <2>1, ChainUnfolds
  <2>2. CASE j # 0
    <3> DEFINE K == 1 .. Len(ps)
    <3>1. Agree(ps, qs, K)
      <4>1. ASSUME NEW k \in K
            PROVE  /\ k \in 1 .. Len(ps) /\ k \in 1 .. Len(qs) /\ qs[k].prev = ps[k].prev
                   /\ ps[k].prev # 0 => ps[k].prev \in K
        BY <1>0, <1>1, BackwardTypes
      <4> QED BY <4>1 DEF Agree
    <3>2. j \in K
      BY <1>0, <2>2
    <3> HIDE DEF K
    <3> QED BY <1>0, <1>4, <3>1, <3>2, SameChain
  <2> QED BY <2>1, <2>2
<1>8. Chain(qs, n) = {n} \union Chain(ps, p.prev)
  <2>1. n \in 1 .. Len(qs)
    BY <1>0, <1>1
  <2>2. Chain(qs, n) = {n} \union Chain(qs, p.prev)
    BY <1>1, <1>4, <2>1, ChainUnfolds
  <2> QED BY <1>3, <1>7, <2>2
<1> QED BY <1>1, <1>2, <1>3, <1>4, <1>5, <1>6, <1>7, <1>8 DEF qs

\* A set with one element more, or the same one again, is larger by at most 1.
LEMMA OneMore ==
  ASSUME NEW S, IsFiniteSet(S), NEW x
  PROVE  /\ IsFiniteSet(S \union {x}) /\ Cardinality(S \union {x}) \in Nat /\ Cardinality(S) \in Nat
         /\ Cardinality(S \union {x}) <= Cardinality(S) + 1
         /\ x \notin S => Cardinality(S \union {x}) = Cardinality(S) + 1
<1>1. IsFiniteSet(S \union {x}) /\ Cardinality(S) \in Nat
  BY FS_AddElement, FS_CardinalityType
<1>2. Cardinality(S \union {x}) = IF x \in S THEN Cardinality(S) ELSE Cardinality(S) + 1
  <2>1. CASE x \in S
    <3>1. S \union {x} = S
      BY <2>1
    <3> QED BY <2>1, <3>1
  <2>2. CASE x \notin S
    BY <2>2, FS_AddElement
  <2> QED BY <2>1, <2>2
<1> QED BY <1>1, <1>2

\* A new proof that fits is linked as it should be.
LEMMA AppendLinks ==
  ASSUME NEW ps, NEW p, NEW requests, Linked(ps, requests), Fits(ps, p, requests)
  PROVE  /\ Linked(Append(ps, p), requests)
         /\ Cardinality(Chain(Append(ps, p), Len(ps) + 1)) <= Cardinality(Chain(ps, p.prev)) + 1
<1> DEFINE qs == Append(ps, p)
           n == Len(ps) + 1
<1>1. /\ Len(qs) = n /\ n \in Nat /\ n # 0 /\ n \notin 1 .. Len(ps) /\ qs[n] = p
      /\ \A j \in 1 .. Len(ps) : qs[j] = ps[j]
      /\ Backward(qs)
      /\ Live(qs) = Live(ps) \union {n}
      /\ \A j \in 0 .. Len(ps) : Chain(qs, j) = Chain(ps, j)
      /\ Chain(qs, n) = {n} \union Chain(ps, p.prev)
      /\ p.prev \in 0 .. Len(ps)
  BY AppendChains
<1> HIDE DEF qs, n
<1>2. Backward(ps) /\ Len(ps) \in Nat
  BY LinkedTypes, BackwardTypes
<1>3. Cardinality(Chain(qs, n)) \in Nat /\ Cardinality(Chain(qs, n)) <= Cardinality(Chain(ps, p.prev)) + 1
      /\ Cardinality(Chain(ps, p.prev)) \in Nat
  <2>1. IsFiniteSet(Chain(ps, p.prev))
    BY <1>1, <1>2, ChainBelow
  <2>2. Chain(qs, n) = Chain(ps, p.prev) \union {n}
    BY <1>1
  <2> QED BY <2>1, <2>2, OneMore
<1>4. ASSUME NEW j \in Live(ps) PROVE LinkOK(qs, j, requests)
  <2>1. LinkOK(ps, j, requests) /\ j \in 1 .. Len(ps) /\ j \in 0 .. Len(ps)
    BY <1>2, LinkedTypes
  <2>2. ps[j].prev # 0 => ps[j].prev \in Live(ps) /\ ps[j].prev \in Live(qs) /\ ps[j].prev \in 1 .. Len(ps)
    BY <1>1, <2>1 DEF LinkOK, Live
  <2>3. qs[j] = ps[j] /\ (ps[j].prev # 0 => qs[ps[j].prev] = ps[ps[j].prev]) /\ Chain(qs, j) = Chain(ps, j)
    BY <1>1, <2>1, <2>2
  <2> QED BY <2>1, <2>2, <2>3 DEF LinkOK
<1>5. LinkOK(qs, n, requests)
  <2>1. p.prev # 0 => p.prev \in Live(ps) /\ p.prev \in Live(qs) /\ p.prev \in 1 .. Len(ps) /\ ~ps[p.prev].is_req
    BY <1>1 DEF Fits, TailOK, Live
  <2>2. p.prev # 0 => qs[p.prev] = ps[p.prev]
    BY <1>1, <2>1
  <2>3. p.iters = p.seg_iters + (IF p.prev = 0 THEN 0 ELSE qs[p.prev].iters)
    BY <2>2 DEF Fits, ItersOf
  <2>4. Cardinality(Chain(qs, n)) <= MaxSegments
    BY <1>3, HwProofAssumption DEF Fits
  <2>5. ~p.started /\ (p.is_req => p.iters \in requests)
    BY DEF Fits
  <2> QED BY <1>1, <2>1, <2>2, <2>3, <2>4, <2>5 DEF LinkOK
<1>6. Linked(qs, requests)
  BY <1>1, <1>4, <1>5 DEF Linked
<1> QED BY <1>3, <1>6 DEF qs, n

\* The requests that need a proof can be counted.
LEMMA HoldersFinite ==
  ASSUME NEW ps, Backward(ps), NEW j
  PROVE  /\ Holders(ps, j) \subseteq 1 .. Len(ps) /\ IsFiniteSet(Holders(ps, j))
         /\ Cardinality(Holders(ps, j)) \in Nat
<1>1. Holders(ps, j) \subseteq 1 .. Len(ps)
  BY DEF Holders, Live
<1>2. Len(ps) \in Nat
  BY BackwardTypes
<1>3. IsFiniteSet(1 .. Len(ps))
  BY <1>2, FS_Interval
<1> QED BY <1>1, <1>3, FS_Subset, FS_CardinalityType

\* A new request is counted where its chain had been counted in advance.
LEMMA AppendCounts ==
  ASSUME NEW ps, NEW p, NEW requests, Linked(ps, requests), Fits(ps, p, requests), Counted(ps, p.prev)
  PROVE  Counted(Append(ps, p), IF p.is_req THEN 0 ELSE Len(ps) + 1)
<1> DEFINE qs == Append(ps, p)
           n == Len(ps) + 1
           to == IF p.is_req THEN 0 ELSE n
<1>1. /\ Len(qs) = n /\ n \in Nat /\ n # 0 /\ n \notin 1 .. Len(ps) /\ qs[n] = p
      /\ \A j \in 1 .. Len(ps) : qs[j] = ps[j]
      /\ Backward(qs)
      /\ Live(qs) = Live(ps) \union {n} /\ Waiting(qs) = Waiting(ps) \union {n}
      /\ \A j \in 0 .. Len(ps) : Chain(qs, j) = Chain(ps, j)
      /\ Chain(qs, n) = {n} \union Chain(ps, p.prev)
      /\ p.prev \in 0 .. Len(ps)
  BY AppendChains
<1> HIDE DEF qs, n
<1>2. Backward(ps) /\ Len(ps) \in Nat /\ p.is_req \in BOOLEAN
  BY LinkedTypes, BackwardTypes DEF Fits, Proof
<1>3. \A r \in Live(ps) : qs[r] = ps[r] /\ r # n /\ Chain(qs, r) = Chain(ps, r) /\ n \notin Chain(ps, r)
  <2>1. ASSUME NEW r \in Live(ps)
        PROVE  qs[r] = ps[r] /\ r # n /\ Chain(qs, r) = Chain(ps, r) /\ n \notin Chain(ps, r)
    <3>1. r \in 1 .. Len(ps) /\ r \in 0 .. Len(ps)
      BY <1>2 DEF Live
    <3>2. Chain(ps, r) \subseteq 1 .. Len(ps)
      BY <1>2, <3>1, ChainBelow
    <3> QED BY <1>1, <3>1, <3>2
  <2> QED BY <2>1
<1>4. Chain(qs, 0) = {} /\ n \notin Chain(ps, p.prev)
  <2>1. Chain(ps, p.prev) \subseteq 1 .. Len(ps)
    BY <1>1, <1>2, ChainBelow
  <2> QED BY <1>1, <2>1, ChainUnfolds
<1>5. ASSUME NEW j \in Waiting(ps) PROVE Referenced(qs, j, to)
  <2>1. j \in Live(ps) /\ Referenced(ps, j, p.prev) /\ qs[j] = ps[j] /\ j # n
    BY <1>3 DEF Waiting, Counted
  <2>2. CASE ~p.is_req
    <3>1. Holders(qs, j) = Holders(ps, j)
      BY <1>1, <1>3, <2>2 DEF Holders
    <3>2. to = n /\ (j \in Chain(qs, n) <=> j \in Chain(ps, p.prev))
      BY <1>1, <2>1, <2>2
    <3> QED BY <2>1, <3>1, <3>2 DEF Referenced
  <2>3. CASE p.is_req
    <3>0. to = 0 /\ j \notin Chain(qs, to)
      BY <1>4, <2>3
    <3>1. CASE j \in Chain(ps, p.prev)
      <4>1. Holders(qs, j) = Holders(ps, j) \union {n}
        BY <1>1, <1>3, <2>3, <3>1 DEF Holders
      <4>2. n \notin Holders(ps, j) /\ IsFiniteSet(Holders(ps, j))
        BY <1>1, <1>2, HoldersFinite
      <4>3. Cardinality(Holders(qs, j)) = Cardinality(Holders(ps, j)) + 1
        BY <4>1, <4>2, OneMore
      <4>4. Cardinality(Holders(ps, j)) \in Nat
        BY <1>2, HoldersFinite
      <4> QED BY <2>1, <3>0, <3>1, <4>3, <4>4 DEF Referenced
    <3>2. CASE j \notin Chain(ps, p.prev)
      <4>1. Holders(qs, j) = Holders(ps, j)
        BY <1>1, <1>3, <2>1, <2>3, <3>2 DEF Holders
      <4> QED BY <2>1, <3>0, <3>2, <4>1 DEF Referenced
    <3> QED BY <3>1, <3>2
  <2> QED BY <1>2, <2>2, <2>3
<1>6. Referenced(qs, n, to)
  <2>0. qs[n].ref_cnt = 1
    BY <1>1 DEF Fits
  <2>1. CASE ~p.is_req
    <3>1. Holders(qs, n) = {}
      BY <1>1, <1>3, <2>1 DEF Holders
    <3>2. to = n /\ n \in Chain(qs, to) /\ Cardinality(Holders(qs, n)) = 0
      BY <1>1, <2>1, <3>1, FS_EmptySet
    <3> QED BY <2>0, <3>2 DEF Referenced
  <2>2. CASE p.is_req
    <3>1. Holders(qs, n) = {n}
      BY <1>1, <1>3, <2>2 DEF Holders
    <3>2. to = 0 /\ n \notin Chain(qs, to) /\ Cardinality(Holders(qs, n)) = 1
      BY <1>4, <2>2, <3>1, FS_Singleton
    <3> QED BY <2>0, <3>2 DEF Referenced
  <2> QED BY <1>2, <2>1, <2>2
<1>7. Counted(qs, to)
  <2> HIDE DEF to
  <2> QED BY <1>1, <1>5, <1>6 DEF Counted
<1> QED BY <1>7 DEF qs, n

\* The queue stays in order when a proof is inserted behind the ones that do
\* not have more iterations.
LEMMA InsertOrders ==
  ASSUME NEW ps, NEW p, NEW requests, Linked(ps, requests), Fits(ps, p, requests),
         NEW queue, InOrder(ps, queue)
  PROVE  InOrder(Append(ps, p), InsertBehind(queue, Len(ps) + 1,
                                  {i \in DOMAIN queue : ps[queue[i]].iters <= p.iters}))
<1> DEFINE qs == Append(ps, p)
           n == Len(ps) + 1
           places == {i \in DOMAIN queue : ps[queue[i]].iters <= p.iters}
           new == InsertBehind(queue, n, places)
           N == Len(queue)
<1>1. /\ n \in Nat /\ n \notin 1 .. Len(ps) /\ qs[n] = p
      /\ \A j \in 1 .. Len(ps) : qs[j] = ps[j]
      /\ Waiting(qs) = Waiting(ps) \union {n}
  BY AppendChains
<1>2. queue \in Seq(Nat) /\ N \in Nat /\ DOMAIN queue = 1 .. N
  BY LenProperties DEF InOrder
<1>3. /\ new \in Seq(Nat)
      /\ \E a \in 0 .. N : Inserted(new, queue, n, a) /\ \A m \in places : m <= a
  <2>1. places \subseteq 1 .. N
    BY <1>2
  <2> HIDE DEF places, n
  <2>2. n \in Nat /\ queue \in Seq(Nat) /\ places \subseteq 1 .. Len(queue)
    BY <1>1, <1>2, <2>1
  <2> QED BY <2>2, InsertBehindInserts, Zenon
<1>4. PICK a \in 0 .. N : Inserted(new, queue, n, a) /\ \A m \in places : m <= a
  BY <1>3
<1>5. /\ Len(new) = N + 1 /\ new[a + 1] = n
      /\ \A i \in 1 .. a : new[i] = queue[i]
      /\ \A i \in a + 1 .. N : new[i + 1] = queue[i]
  BY <1>4 DEF Inserted
<1>6. \A i \in 1 .. N : /\ queue[i] \in Live(ps) /\ queue[i] \in 1 .. Len(ps) /\ queue[i] # n
                        /\ qs[queue[i]] = ps[queue[i]] /\ ps[queue[i]].prev # n
  <2>1. ASSUME NEW i \in 1 .. N
        PROVE  /\ queue[i] \in Live(ps) /\ queue[i] \in 1 .. Len(ps) /\ queue[i] # n
               /\ qs[queue[i]] = ps[queue[i]] /\ ps[queue[i]].prev # n
    <3>1. queue[i] \in Live(ps)
      BY DEF InOrder, Elements, Waiting
    <3>2. queue[i] \in 1 .. Len(ps)
      BY <3>1 DEF Live
    <3>3. ps[queue[i]].prev \in 0 .. Len(ps) /\ Len(ps) \in Nat
      BY <3>2, LinkedTypes, BackwardTypes
    <3> HIDE DEF qs
    <3> QED BY <1>1, <3>1, <3>2, <3>3
  <2> QED BY <2>1
<1>7. \A m1, m2 \in 1 .. N : m1 < m2 => queue[m1] # queue[m2] /\ ps[queue[m1]].prev # queue[m2]
  BY DEF InOrder
<1>8. \A m \in a + 1 .. N : p.prev # queue[m]
  <2> SUFFICES ASSUME NEW m \in a + 1 .. N, p.prev = queue[m] PROVE FALSE
    OBVIOUS
  <2>1. m \in 1 .. N
    BY <1>2, <1>4
  <2>2. p.prev \in Live(ps) /\ p.prev # 0
    BY <1>6, <2>1
  <2>3. p.iters = p.seg_iters + ps[p.prev].iters /\ p.seg_iters \in Nat /\ ps[p.prev].iters \in Nat
    BY <2>2, LinkedTypes DEF Fits, Proof, ItersOf
  <2>4. m \in places
    BY <1>2, <2>1, <2>3
  <2> HIDE DEF places
  <2> QED BY <1>2, <1>4, <2>1, <2>4
<1> HIDE DEF new, places, qs, n
<1> DEFINE Old(i) == IF i <= a THEN i ELSE i - 1
<1>9. \A i \in 1 .. N + 1 : i # a + 1 => Old(i) \in 1 .. N /\ new[i] = queue[Old(i)]
  <2>1. ASSUME NEW i \in 1 .. N + 1, i # a + 1 PROVE Old(i) \in 1 .. N /\ new[i] = queue[Old(i)]
    <3>1. CASE i <= a
      BY <1>2, <1>5, <3>1
    <3>2. CASE ~(i <= a)
      <4>1. i - 1 \in a + 1 .. N /\ (i - 1) + 1 = i /\ i - 1 \in 1 .. N
        BY <1>2, <2>1, <3>2
      <4> QED BY <1>5, <3>2, <4>1
    <3> QED BY <3>1, <3>2
  <2> QED BY <2>1
<1>10. ASSUME NEW m1 \in 1 .. N + 1, NEW m2 \in 1 .. N + 1, m1 < m2
       PROVE  new[m1] # new[m2] /\ qs[new[m1]].prev # new[m2]
  <2>1. CASE m1 = a + 1
    <3>1. m2 # a + 1 /\ Old(m2) \in a + 1 .. N
      BY <1>2, <1>10, <2>1
    <3>2. new[m2] = queue[Old(m2)] /\ Old(m2) \in 1 .. N /\ new[m1] = n
      BY <1>5, <1>9, <2>1, <3>1
    <3> HIDE DEF Old
    <3> QED BY <1>1, <1>6, <1>8, <3>1, <3>2
  <2>2. CASE m2 = a + 1
    <3>1. m1 # a + 1
      BY <1>2, <1>10, <2>2
    <3>2. new[m1] = queue[Old(m1)] /\ Old(m1) \in 1 .. N /\ new[m2] = n
      BY <1>5, <1>9, <2>2, <3>1
    <3> HIDE DEF Old
    <3> QED BY <1>1, <1>6, <3>2
  <2>3. CASE m1 # a + 1 /\ m2 # a + 1
    <3>1. Old(m1) \in 1 .. N /\ Old(m2) \in 1 .. N /\ new[m1] = queue[Old(m1)] /\ new[m2] = queue[Old(m2)]
      BY <1>9, <2>3
    <3>2. Old(m1) < Old(m2)
      BY <1>2, <1>10, <2>3
    <3> HIDE DEF Old
    <3> QED BY <1>6, <1>7, <3>1, <3>2
  <2> QED BY <2>1, <2>2, <2>3
<1>11. Elements(new) = Waiting(qs)
  <2>1. Elements(queue) = Waiting(ps)
    BY DEF InOrder
  <2>2. ASSUME NEW i \in 1 .. N + 1 PROVE new[i] \in Elements(queue) \union {n}
    <3>1. CASE i = a + 1
      BY <1>5, <3>1
    <3>2. CASE i # a + 1
      <4> HIDE DEF Old
      <4> QED BY <1>9, <3>2 DEF Elements
    <3> QED BY <3>1, <3>2
  <2>3. n \in Elements(new)
    <3>1. a + 1 \in 1 .. N + 1
      BY <1>2
    <3> QED BY <1>5, <3>1 DEF Elements
  <2>4. ASSUME NEW i \in 1 .. N PROVE queue[i] \in Elements(new)
    <3>1. CASE i \in 1 .. a
      <4>1. i \in 1 .. N + 1
        BY <1>2
      <4> QED BY <1>5, <3>1, <4>1 DEF Elements
    <3>2. CASE i \in a + 1 .. N
      <4>1. i + 1 \in 1 .. N + 1
        BY <1>2
      <4> QED BY <1>5, <3>2, <4>1 DEF Elements
    <3> QED BY <1>2, <3>1, <3>2
  <2>5. Elements(new) = Elements(queue) \union {n}
    <3>1. Elements(new) \subseteq Elements(queue) \union {n}
      BY <1>5, <2>2 DEF Elements
    <3>2. Elements(queue) \subseteq Elements(new)
      BY <2>4 DEF Elements
    <3> QED BY <2>3, <3>1, <3>2
  <2> QED BY <1>1, <2>1, <2>5
<1>12. InOrder(qs, new)
  BY <1>3, <1>5, <1>10, <1>11 DEF InOrder
<1> QED BY <1>12 DEF qs, new, places, n

\* The proofs that were started stay where they are, and as they are.
Continues(ps, qs) ==
  \A j \in Started(ps) : j \in Started(qs) /\ qs[j].is_req = ps[j].is_req /\ qs[j].done = ps[j].done

\* hw_queue_proof adds a segment behind tail: a checkpoint is the new tail,
\* after the request's own there is none.
LEMMA QueueProofKeeps ==
  ASSUME NEW q, NEW requests, NEW seg_iters \in Nat, NEW prev, NEW is_req \in BOOLEAN,
         QueueInv(q, prev, requests), TailOK(q.proofs, prev),
         Cardinality(Chain(q.proofs, prev)) + 1 <= MaxSegments,
         is_req => seg_iters + ItersOf(q.proofs, prev) \in requests
  PROVE  LET next == hw_queue_proof(q, seg_iters, prev, is_req)
             n == Len(next.proofs)
         IN  /\ QueueInv(next, IF is_req THEN 0 ELSE n, requests)
             /\ ~is_req => TailOK(next.proofs, n)
             /\ n # 0 /\ ItersOf(next.proofs, n) = seg_iters + ItersOf(q.proofs, prev)
             /\ Cardinality(Chain(next.proofs, n)) <= Cardinality(Chain(q.proofs, prev)) + 1
             /\ Continues(q.proofs, next.proofs)
<1> DEFINE ps == q.proofs
           p == [iters |-> seg_iters + ItersOf(ps, prev), seg_iters |-> seg_iters, prev |-> prev,
                 is_req |-> is_req, started |-> FALSE, done |-> FALSE, ref_cnt |-> 1]
           qs == Append(ps, p)
           places == {i \in DOMAIN q.queued : ps[q.queued[i]].iters <= p.iters}
           new == InsertBehind(q.queued, Len(ps) + 1, places)
           next == hw_queue_proof(q, seg_iters, prev, is_req)
<1>1. /\ q = [req |-> q.req, proofs |-> q.proofs, queued |-> q.queued] /\ q.req \in Seq(requests)
      /\ Linked(ps, requests) /\ Counted(ps, prev) /\ InOrder(ps, q.queued)
  BY DEF QueueInv
<1>2. ItersOf(ps, prev) \in Nat /\ prev \in Nat
  BY <1>1, LinkedTypes DEF ItersOf, TailOK
<1>3. Fits(ps, p, requests)
  <2>1. p \in Proof
    BY <1>2 DEF Proof
  <2> QED BY <2>1 DEF Fits
<1>4. next = [req |-> q.req, proofs |-> qs, queued |-> new]
  <2>1. next = [q EXCEPT !.proofs = qs, !.queued = new]
    BY DEF hw_queue_proof, ItersOf
  <2> HIDE DEF next, qs, new
  <2> QED BY <1>1, <2>1
<1>5. p.prev = prev /\ p.is_req = is_req /\ p.iters = seg_iters + ItersOf(ps, prev) /\ ~p.started
  OBVIOUS
<1> HIDE DEF p, next
<1>6. /\ Linked(qs, requests)
      /\ Cardinality(Chain(qs, Len(ps) + 1)) <= Cardinality(Chain(ps, prev)) + 1
  BY <1>1, <1>3, <1>5, AppendLinks
<1>7. Counted(qs, IF is_req THEN 0 ELSE Len(ps) + 1)
  BY <1>1, <1>3, <1>5, AppendCounts
<1>8. InOrder(qs, new)
  BY <1>1, <1>3, InsertOrders
<1>9. /\ Len(qs) = Len(ps) + 1 /\ Len(qs) # 0 /\ qs[Len(ps) + 1] = p
      /\ Live(qs) = Live(ps) \union {Len(ps) + 1} /\ \A j \in 1 .. Len(ps) : qs[j] = ps[j]
  BY <1>1, <1>3, AppendChains
<1> HIDE DEF qs, new
<1>10. next.req = q.req /\ next.proofs = qs /\ next.queued = new
       /\ next = [req |-> next.req, proofs |-> next.proofs, queued |-> next.queued]
  BY <1>4
<1>11. QueueInv(next, IF is_req THEN 0 ELSE Len(qs), requests)
  BY <1>1, <1>6, <1>7, <1>8, <1>9, <1>10 DEF QueueInv
<1>12. ~is_req => TailOK(qs, Len(qs))
  BY <1>5, <1>9 DEF TailOK
<1>13. ItersOf(qs, Len(qs)) = seg_iters + ItersOf(ps, prev)
  BY <1>5, <1>9 DEF ItersOf
<1>14. Continues(ps, qs)
  <2>1. \A j \in Live(ps) : j \in 1 .. Len(ps)
    BY DEF Live
  <2> QED BY <1>9, <2>1 DEF Continues, Started
<1> QED BY <1>6, <1>9, <1>10, <1>11, <1>12, <1>13, <1>14 DEF next

----------------------------------------------------------------------------
(***************************************************************************)
(* References                                                              *)
(***************************************************************************)

\* The same proofs, but for their flags and references.
Alike(ps, qs) ==
  /\ qs \in Seq(Proof \union {Deleted}) /\ Len(qs) = Len(ps)
  /\ \A j \in 1 .. Len(ps) :
       /\ qs[j] \in Proof <=> ps[j] \in Proof
       /\ qs[j].iters = ps[j].iters /\ qs[j].seg_iters = ps[j].seg_iters
       /\ qs[j].prev = ps[j].prev /\ qs[j].is_req = ps[j].is_req

\* Flags and reference counts do not affect chains.
LEMMA AlikeChains ==
  ASSUME NEW ps, NEW qs, Backward(ps), Alike(ps, qs)
  PROVE  /\ Backward(qs) /\ Live(qs) = Live(ps)
         /\ \A j \in 0 .. Len(ps) : Chain(qs, j) = Chain(ps, j)
         /\ \A j : Holders(qs, j) = Holders(ps, j)
<1>1. Backward(qs)
  BY BackwardTypes DEF Backward, Alike
<1>2. Live(qs) = Live(ps)
  BY DEF Alike, Live
<1>3. Len(ps) \in Nat
  BY BackwardTypes
<1>4. ASSUME NEW j \in 0 .. Len(ps) PROVE Chain(qs, j) = Chain(ps, j)
  <2>1. CASE j = 0
    BY <1>1, <2>1, ChainUnfolds
  <2>2. CASE j # 0
    <3> DEFINE K == 1 .. Len(ps)
    <3>1. Agree(ps, qs, K)
      BY <1>3, BackwardTypes DEF Agree, Alike
    <3>2. j \in K
      BY <1>3, <2>2
    <3> HIDE DEF K
    <3> QED BY <1>1, <3>1, <3>2, SameChain
  <2> QED BY <2>1, <2>2
<1>5. ASSUME NEW j PROVE Holders(qs, j) = Holders(ps, j)
  <2>1. \A r \in Live(ps) : r \in 1 .. Len(ps) /\ r \in 0 .. Len(ps)
    BY <1>3 DEF Live
  <2>2. \A r \in Live(ps) : qs[r].is_req = ps[r].is_req /\ Chain(qs, r) = Chain(ps, r)
    BY <1>4, <2>1 DEF Alike
  <2> QED BY <1>2, <2>2 DEF Holders
<1> QED BY <1>1, <1>2, <1>4, <1>5

\* Flags and reference counts only affect links by what was started.
LEMMA AlikeLinked ==
  ASSUME NEW ps, NEW qs, NEW requests, Linked(ps, requests), Alike(ps, qs), StartedFirst(qs)
  PROVE  Linked(qs, requests)
<1>0. Backward(ps) /\ Len(ps) \in Nat
  BY LinkedTypes, BackwardTypes
<1>1. Backward(qs) /\ Live(qs) = Live(ps) /\ \A j \in 0 .. Len(ps) : Chain(qs, j) = Chain(ps, j)
  BY <1>0, AlikeChains
<1>2. ASSUME NEW j \in Live(qs) PROVE LinkOK(qs, j, requests)
  <2>1. j \in Live(ps) /\ j \in 1 .. Len(ps) /\ LinkOK(ps, j, requests) /\ j \in 0 .. Len(ps)
    BY <1>0, <1>1, LinkedTypes
  <2>2. ps[j].prev # 0 => ps[j].prev \in Live(ps) /\ ps[j].prev \in 1 .. Len(ps)
    BY <2>1 DEF LinkOK, Live
  <2>3. /\ qs[j].iters = ps[j].iters /\ qs[j].seg_iters = ps[j].seg_iters
        /\ qs[j].prev = ps[j].prev /\ qs[j].is_req = ps[j].is_req
        /\ ps[j].prev # 0 => qs[ps[j].prev].iters = ps[ps[j].prev].iters
                             /\ qs[ps[j].prev].is_req = ps[ps[j].prev].is_req
    BY <2>1, <2>2 DEF Alike
  <2>4. Chain(qs, j) = Chain(ps, j)
    BY <1>1, <2>1
  <2>5. qs[j].prev # 0 /\ qs[j].started => qs[qs[j].prev].started
    BY <2>1 DEF StartedFirst, Alike
  <2> QED BY <1>1, <2>1, <2>2, <2>3, <2>4, <2>5 DEF LinkOK
<1> QED BY <1>1, <1>2 DEF Linked

\* hw_proof_inc_ref counts the request that is going to continue idx.
LEMMA IncRefKeeps ==
  ASSUME NEW q, NEW requests, QueueInv(q, 0, requests), NEW idx \in Waiting(q.proofs), ~q.proofs[idx].is_req
  PROVE  LET next == hw_proof_inc_ref(q, idx)
         IN  /\ QueueInv(next, idx, requests) /\ TailOK(next.proofs, idx)
             /\ next.proofs[idx].iters = q.proofs[idx].iters
             /\ Chain(next.proofs, idx) = Chain(q.proofs, idx)
             /\ Continues(q.proofs, next.proofs)
<1> DEFINE ps == q.proofs
           qs == [j \in DOMAIN ps |->
                    IF j \in Chain(ps, idx) THEN [ps[j] EXCEPT !.ref_cnt = @ + 1] ELSE ps[j]]
           next == hw_proof_inc_ref(q, idx)
<1>1. /\ q = [req |-> q.req, proofs |-> q.proofs, queued |-> q.queued] /\ q.req \in Seq(requests)
      /\ Linked(ps, requests) /\ Counted(ps, 0) /\ InOrder(ps, q.queued)
  BY DEF QueueInv
<1>2. Backward(ps) /\ Len(ps) \in Nat /\ DOMAIN ps = 1 .. Len(ps) /\ StartedFirst(ps)
  BY <1>1, LinkedTypes, BackwardTypes
<1>3. Chain(ps, idx) \subseteq Live(ps) /\ idx \in Live(ps) /\ ~ps[idx].started /\ idx \in 0 .. Len(ps)
  <2>1. idx \in Live(ps) /\ ~ps[idx].started
    BY DEF Waiting
  <2>2. idx \in 1 .. Len(ps)
    BY <2>1 DEF Live
  <2> QED BY <1>1, <1>2, <2>1, <2>2, LinkedTypes, ChainWithin
<1>4. next = [req |-> q.req, proofs |-> qs, queued |-> q.queued]
  <2>1. next = [q EXCEPT !.proofs = qs]
    BY DEF hw_proof_inc_ref
  <2> HIDE DEF next, qs
  <2> QED BY <1>1, <2>1
<1>5. ASSUME NEW j \in 1 .. Len(ps)
      PROVE  /\ qs[j] \in Proof \union {Deleted} /\ (qs[j] \in Proof <=> ps[j] \in Proof)
             /\ qs[j].iters = ps[j].iters /\ qs[j].seg_iters = ps[j].seg_iters
             /\ qs[j].prev = ps[j].prev /\ qs[j].is_req = ps[j].is_req /\ qs[j].started = ps[j].started
             /\ qs[j].done = ps[j].done
             /\ j \in Live(ps) => qs[j].ref_cnt = ps[j].ref_cnt + (IF j \in Chain(ps, idx) THEN 1 ELSE 0)
  <2>1. CASE j \in Chain(ps, idx)
    <3>1. ps[j] \in Proof
      BY <1>3, <2>1 DEF Live
    <3> DEFINE p == ps[j]
               r == [p EXCEPT !.ref_cnt = @ + 1]
    <3>2. qs[j] = r
      BY <1>2, <2>1
    <3> HIDE DEF p, qs
    <3>3. p \in Proof
      BY <3>1 DEF p
    <3>4. r \in Proof
      BY <3>3 DEF Proof
    <3>5. /\ r.iters = p.iters /\ r.seg_iters = p.seg_iters /\ r.prev = p.prev /\ r.is_req = p.is_req
          /\ r.started = p.started /\ r.done = p.done /\ r.ref_cnt = p.ref_cnt + 1
      BY <3>3 DEF Proof
    <3> HIDE DEF r, Proof, Deleted
    <3> QED BY <2>1, <3>2, <3>3, <3>4, <3>5 DEF p
  <2>2. CASE j \notin Chain(ps, idx)
    <3>1. qs[j] = ps[j]
      BY <1>2, <2>2
    <3>2. ps[j] \in Proof \/ ps[j] = Deleted
      BY <1>2, BackwardTypes
    <3>3. j \in Live(ps) => ps[j].ref_cnt \in Int
      BY <1>1, LinkedTypes
    <3> HIDE DEF qs, Proof, Deleted
    <3> QED BY <2>2, <3>1, <3>2, <3>3
  <2> QED BY <2>1, <2>2
<1>6. DOMAIN qs = 1 .. Len(ps) /\ qs = [j \in 1 .. Len(ps) |-> qs[j]]
  BY <1>2
<1> HIDE DEF qs, next
<1>7. qs \in Seq(Proof \union {Deleted}) /\ Len(qs) = Len(ps)
  <2>1. qs \in [1 .. Len(ps) -> Proof \union {Deleted}]
    <3> HIDE DEF Proof, Deleted
    <3> QED BY <1>5, <1>6
  <2> HIDE DEF Proof, Deleted
  <2> QED BY <1>2, <2>1, SeqDef
<1>8. Alike(ps, qs)
  <2> DEFINE P == Proof \union {Deleted}
  <2>1. qs \in Seq(P) /\ Len(qs) = Len(ps)
    BY <1>7
  <2>2. ASSUME NEW j \in 1 .. Len(ps)
        PROVE  /\ qs[j] \in Proof <=> ps[j] \in Proof
               /\ qs[j].iters = ps[j].iters /\ qs[j].seg_iters = ps[j].seg_iters
               /\ qs[j].prev = ps[j].prev /\ qs[j].is_req = ps[j].is_req
    BY <1>5, Zenon
  <2> HIDE DEF Proof, Deleted
  <2> QED BY <2>1, <2>2, Zenon DEF Alike
<1>9. StartedFirst(qs)
  BY <1>2, <1>5, <1>7, BackwardTypes, SMTT(60) DEF StartedFirst
<1>10. /\ Linked(qs, requests) /\ Live(qs) = Live(ps)
       /\ \A j \in 0 .. Len(ps) : Chain(qs, j) = Chain(ps, j)
       /\ \A j : Holders(qs, j) = Holders(ps, j)
  BY <1>1, <1>2, <1>8, <1>9, AlikeLinked, AlikeChains
<1>11. Waiting(qs) = Waiting(ps) /\ \A j \in Waiting(ps) : j \in Live(ps) /\ j \in 1 .. Len(ps)
  <2>1. \A j \in Live(ps) : j \in 1 .. Len(ps)
    BY DEF Live
  <2> QED BY <1>5, <1>10, <2>1 DEF Waiting
<1>12. Counted(qs, idx)
  <2>1. ASSUME NEW j \in Waiting(ps) PROVE Referenced(qs, j, idx)
    <3>1. Referenced(ps, j, 0) /\ Chain(ps, 0) = {}
      BY <1>1, <1>2, ChainUnfolds DEF Counted
    <3>2. qs[j].ref_cnt = ps[j].ref_cnt + (IF j \in Chain(ps, idx) THEN 1 ELSE 0)
      BY <1>5, <1>11
    <3>3. Holders(qs, j) = Holders(ps, j) /\ Chain(qs, idx) = Chain(ps, idx)
      BY <1>3, <1>10
    <3>4. Cardinality(Holders(ps, j)) \in Nat
      BY <1>2, HoldersFinite
    <3> QED BY <3>1, <3>2, <3>3, <3>4 DEF Referenced
  <2> QED BY <1>11, <2>1 DEF Counted
<1>13. InOrder(qs, q.queued)
  <2>1. \A m \in 1 .. Len(q.queued) : q.queued[m] \in Waiting(ps)
    BY <1>1 DEF InOrder, Elements
  <2>2. \A m \in 1 .. Len(q.queued) : qs[q.queued[m]].prev = ps[q.queued[m]].prev
    BY <1>5, <1>11, <2>1
  <2> QED BY <1>1, <1>11, <2>2 DEF InOrder
<1>14. next.req = q.req /\ next.proofs = qs /\ next.queued = q.queued
       /\ next = [req |-> next.req, proofs |-> next.proofs, queued |-> next.queued]
  BY <1>4
<1>15. QueueInv(next, idx, requests)
  BY <1>1, <1>10, <1>12, <1>13, <1>14 DEF QueueInv
<1>16. TailOK(qs, idx) /\ qs[idx].iters = ps[idx].iters /\ Chain(qs, idx) = Chain(ps, idx)
  BY <1>3, <1>5, <1>10, <1>11 DEF TailOK
<1>17. Continues(ps, qs)
  <2>1. \A j \in Live(ps) : j \in 1 .. Len(ps)
    BY DEF Live
  <2> QED BY <1>5, <1>10, <2>1 DEF Continues, Started
<1> QED BY <1>14, <1>15, <1>16, <1>17 DEF next

\* A chain goes on to its end.
LEMMA ChainGoesOn ==
  ASSUME NEW ps, Backward(ps), NEW r \in 0 .. Len(ps), NEW k \in Chain(ps, r), ps[k].prev # 0
  PROVE  ps[k].prev \in Chain(ps, r)
<1> DEFINE Good(n) == \A i \in Chain(ps, n) : ps[i].prev # 0 => ps[i].prev \in Chain(ps, n)
           T == {n \in Nat : n <= Len(ps) => Good(n)}
<1>0. Len(ps) \in Nat
  BY BackwardTypes
<1>1. ASSUME NEW n \in Nat, \A m \in 0 .. n - 1 : m \in T PROVE n \in T
  <2> SUFFICES ASSUME n <= Len(ps) PROVE Good(n)
    OBVIOUS
  <2>1. CASE n = 0
    BY <2>1, ChainUnfolds
  <2>2. CASE n # 0
    <3> DEFINE p == ps[n].prev
    <3>1. n \in 1 .. Len(ps)
      BY <2>2
    <3>2. p \in 0 .. n - 1 /\ p \in Nat /\ p <= Len(ps) /\ (p # 0 => p \in 1 .. Len(ps))
      BY <1>0, <3>1, BackwardTypes
    <3>3. Chain(ps, n) = {n} \union Chain(ps, p) /\ (p # 0 => p \in Chain(ps, p))
      BY <3>1, <3>2, ChainUnfolds
    <3>4. Good(p)
      BY <1>1, <3>2
    <3> QED BY <3>3, <3>4
  <2> QED BY <2>1, <2>2
<1>2. Nat \subseteq T
  <2> HIDE DEF T
  <2> QED BY <1>1, StrongInductiveSet
<1> QED BY <1>0, <1>2

\* Requests are needed by nobody else.
LEMMA RequestHolds ==
  ASSUME NEW ps, NEW requests, Linked(ps, requests), NEW r \in Live(ps), ps[r].is_req
  PROVE  Holders(ps, r) = {r}
<1>1. Backward(ps) /\ r \in 1 .. Len(ps)
  BY LinkedTypes
<1>2. r \in Chain(ps, r)
  BY <1>1, ChainUnfolds
<1>3. ASSUME NEW s \in Live(ps), r \in Chain(ps, s) PROVE s = r
  <2> DEFINE S == {j \in Live(ps) : ~ps[j].is_req}
             p == ps[s].prev
  <2>1. s \in 1 .. Len(ps) /\ LinkOK(ps, s, requests)
    BY LinkedTypes
  <2>2. Chain(ps, s) = {s} \union Chain(ps, p)
    BY <1>1, <2>1, ChainUnfolds
  <2>3. Closed(S, ps)
    <3>1. ASSUME NEW k \in S PROVE k \in 1 .. Len(ps) /\ (ps[k].prev # 0 => ps[k].prev \in S)
      <4>1. LinkOK(ps, k, requests) /\ k \in 1 .. Len(ps)
        BY LinkedTypes
      <4> QED BY <4>1 DEF LinkOK
    <3> HIDE DEF S
    <3> QED BY <3>1 DEF Closed
  <2>4. CASE p = 0
    BY <1>1, <1>3, <2>2, <2>4, ChainUnfolds
  <2>5. CASE p # 0
    <3>1. p \in S
      BY <2>1, <2>5 DEF LinkOK
    <3>2. Chain(ps, p) \subseteq S
      <4> HIDE DEF S, p
      <4> QED BY <1>1, <2>3, <3>1, ChainWithin
    <3>3. r \notin S
      OBVIOUS
    <3> QED BY <1>3, <2>2, <3>2, <3>3
  <2> QED BY <2>4, <2>5
<1> QED BY <1>2, <1>3 DEF Holders

\* Requests that wait may be dropped.
Droppable(ps, idxs) == idxs \subseteq Waiting(ps) /\ \A r \in idxs : ps[r].is_req

\* How often dec_ref visits j, and what it wipes out.
Dec(ps, idxs, j) == Cardinality({idx \in idxs : j \in Unstarted(ps, idx)})
Gone(ps, idxs) == {j \in 1 .. Len(ps) : Dec(ps, idxs, j) > 0 /\ ps[j].ref_cnt = Dec(ps, idxs, j)}

\* What hw_proof_dec_ref takes off a proof is the dropped requests that need it.
LEMMA DecIs ==
  ASSUME NEW ps, NEW requests, Linked(ps, requests), Counted(ps, 0), NEW idxs, Droppable(ps, idxs),
         NEW j \in 1 .. Len(ps)
  PROVE  /\ j \notin Waiting(ps) => Dec(ps, idxs, j) = 0
         /\ j \in Waiting(ps) =>
              /\ Dec(ps, idxs, j) = Cardinality(Holders(ps, j) \cap idxs) /\ Dec(ps, idxs, j) \in Nat
              /\ ps[j].ref_cnt = Cardinality(Holders(ps, j)) /\ ps[j].ref_cnt \in Nat \ {0}
              /\ Dec(ps, idxs, j) <= ps[j].ref_cnt
<1>0. Backward(ps) /\ Len(ps) \in Nat /\ StartedFirst(ps)
  BY LinkedTypes, BackwardTypes
<1> DEFINE D == {idx \in idxs : j \in Unstarted(ps, idx)}
<1>1. \A idx \in idxs : /\ idx \in Live(ps) /\ idx \in 0 .. Len(ps) /\ ps[idx].is_req
                        /\ Unstarted(ps, idx) = NotStarted(ps, idx) /\ Chain(ps, idx) \subseteq Live(ps)
  <2>1. ASSUME NEW idx \in idxs
        PROVE  /\ idx \in Live(ps) /\ idx \in 0 .. Len(ps) /\ ps[idx].is_req
               /\ Unstarted(ps, idx) = NotStarted(ps, idx) /\ Chain(ps, idx) \subseteq Live(ps)
    <3>1. idx \in Live(ps) /\ ps[idx].is_req
      BY DEF Droppable, Waiting
    <3>2. idx \in 1 .. Len(ps) /\ idx \in 0 .. Len(ps)
      BY <1>0, <3>1 DEF Live
    <3>3. Chain(ps, idx) \subseteq Live(ps)
      BY <1>0, <3>1, LinkedTypes, ChainWithin
    <3> QED BY <1>0, <3>1, <3>2, <3>3, UnstartedIs
  <2> QED BY <2>1
<1>2. CASE j \notin Waiting(ps)
  <2>1. D = {}
    BY <1>1, <1>2 DEF NotStarted, Waiting
  <2> QED BY <1>2, <2>1, FS_EmptySet DEF Dec
<1>3. CASE j \in Waiting(ps)
  <2>1. D = Holders(ps, j) \cap idxs
    BY <1>1, <1>3 DEF NotStarted, Waiting, Holders
  <2>2. /\ IsFiniteSet(Holders(ps, j)) /\ Cardinality(Holders(ps, j)) \in Nat
        /\ Holders(ps, j) \cap idxs \in SUBSET Holders(ps, j)
    BY <1>0, HoldersFinite
  <2>3. /\ Cardinality(Holders(ps, j) \cap idxs) \in Nat
        /\ Cardinality(Holders(ps, j) \cap idxs) <= Cardinality(Holders(ps, j))
    BY <2>2, FS_Subset, FS_CardinalityType
  <2>4. Referenced(ps, j, 0) /\ Chain(ps, 0) = {}
    BY <1>0, <1>3, ChainUnfolds DEF Counted
  <2>5. ps[j].ref_cnt = Cardinality(Holders(ps, j)) /\ ps[j].ref_cnt \in Nat \ {0}
    BY <2>2, <2>4 DEF Referenced
  <2>6. Dec(ps, idxs, j) = Cardinality(Holders(ps, j) \cap idxs)
    BY <2>1 DEF Dec
  <2> QED BY <1>3, <2>3, <2>5, <2>6
<1> QED BY <1>2, <1>3

\* The dropped requests go and with them the checkpoints that only they need.
LEMMA GoneIs ==
  ASSUME NEW ps, NEW requests, Linked(ps, requests), Counted(ps, 0), NEW idxs, Droppable(ps, idxs)
  PROVE  /\ Gone(ps, idxs) = {j \in Waiting(ps) : Holders(ps, j) \subseteq idxs}
         /\ idxs \subseteq Gone(ps, idxs)
         /\ \A k \in Live(ps) : ps[k].prev # 0 /\ ps[k].prev \in Gone(ps, idxs) => k \in Gone(ps, idxs)
<1>0. Backward(ps) /\ Len(ps) \in Nat
  BY LinkedTypes, BackwardTypes
<1>1. ASSUME NEW j \in Waiting(ps) PROVE j \in Gone(ps, idxs) <=> Holders(ps, j) \subseteq idxs
  <2> DEFINE H == Holders(ps, j)
             d == Dec(ps, idxs, j)
  <2>1. j \in 1 .. Len(ps)
    BY DEF Waiting, Live
  <2>2. /\ d = Cardinality(H \cap idxs) /\ d \in Nat
        /\ ps[j].ref_cnt = Cardinality(H) /\ ps[j].ref_cnt \in Nat \ {0}
    BY <2>1, DecIs
  <2>3. j \in Gone(ps, idxs) <=> d > 0 /\ ps[j].ref_cnt = d
    BY <2>1 DEF Gone
  <2>4. IsFiniteSet(H) /\ H \cap idxs \in SUBSET H
    BY <1>0, HoldersFinite
  <2> HIDE DEF H, d
  <2>5. ASSUME ps[j].ref_cnt = d PROVE H \subseteq idxs
    <3>1. H = H \cap idxs
      BY <2>2, <2>4, <2>5, FS_Subset
    <3> QED BY <3>1
  <2>6. ASSUME H \subseteq idxs PROVE d > 0 /\ ps[j].ref_cnt = d
    <3>1. H \cap idxs = H
      BY <2>6
    <3>2. d = ps[j].ref_cnt
      BY <2>2, <3>1, Zenon
    <3> QED BY <2>2, <3>2
  <2> QED BY <2>3, <2>5, <2>6 DEF H
<1>2. Gone(ps, idxs) \subseteq Waiting(ps)
  <2> SUFFICES ASSUME NEW j \in Gone(ps, idxs), j \notin Waiting(ps) PROVE FALSE
    OBVIOUS
  <2>1. j \in 1 .. Len(ps) /\ Dec(ps, idxs, j) > 0
    BY DEF Gone
  <2>2. Dec(ps, idxs, j) = 0
    BY <2>1, DecIs
  <2> QED BY <2>1, <2>2
<1>3. Gone(ps, idxs) = {j \in Waiting(ps) : Holders(ps, j) \subseteq idxs}
  BY <1>1, <1>2
<1>4. ASSUME NEW r \in idxs PROVE r \in Gone(ps, idxs)
  <2>1. r \in Waiting(ps) /\ r \in Live(ps) /\ ps[r].is_req
    BY DEF Droppable, Waiting
  <2>2. Holders(ps, r) = {r}
    BY <2>1, RequestHolds
  <2> QED BY <1>1, <2>1, <2>2
<1>5. ASSUME NEW k \in Live(ps), ps[k].prev # 0, ps[k].prev \in Gone(ps, idxs) PROVE k \in Gone(ps, idxs)
  <2> DEFINE p == ps[k].prev
  <2>1. p \in Waiting(ps) /\ Holders(ps, p) \subseteq idxs
    BY <1>3, <1>5
  <2>2. k \in Waiting(ps)
    <3>1. LinkOK(ps, k, requests)
      BY LinkedTypes
    <3> QED BY <1>5, <2>1, <3>1 DEF LinkOK, Waiting
  <2>3. Holders(ps, k) \subseteq Holders(ps, p)
    <3>1. ASSUME NEW r \in Holders(ps, k) PROVE r \in Holders(ps, p)
      <4>1. r \in Live(ps) /\ r \in 0 .. Len(ps) /\ k \in Chain(ps, r) /\ ps[r].is_req
        BY <1>0 DEF Holders, Live
      <4>2. p \in Chain(ps, r)
        BY <1>0, <1>5, <4>1, ChainGoesOn
      <4> QED BY <4>1, <4>2 DEF Holders
    <3> QED BY <3>1
  <2> QED BY <1>1, <2>1, <2>2, <2>3
<1> QED BY <1>3, <1>4, <1>5

KeptOf(ps, idxs) == {j \in 1 .. Len(ps) : j \notin Gone(ps, idxs)}

\* The vector that dec_ref leaves: cut behind position last.
Wiped(ps, idxs, last) ==
  [j \in 1 .. last |->
     IF j \in Gone(ps, idxs) THEN Deleted ELSE [ps[j] EXCEPT !.ref_cnt = @ - Dec(ps, idxs, j)]]

IsLast(ps, idxs, last) ==
  /\ last \in 0 .. Len(ps) /\ \A k \in KeptOf(ps, idxs) : k <= last

\* What happened to the entries.
LEMMA WipedEntries ==
  ASSUME NEW ps, NEW requests, Linked(ps, requests), Counted(ps, 0), NEW idxs, Droppable(ps, idxs),
         NEW last, IsLast(ps, idxs, last)
  PROVE  LET qs == Wiped(ps, idxs, last)
         IN  /\ qs \in Seq(Proof \union {Deleted}) /\ Len(qs) = last
             /\ Live(qs) = Live(ps) \ Gone(ps, idxs)
             /\ \A j \in Live(qs) : /\ qs[j] = [ps[j] EXCEPT !.ref_cnt = @ - Dec(ps, idxs, j)]
                                    /\ j \notin Waiting(ps) => qs[j] = ps[j]
             /\ \A j \in 1 .. last : j \in Live(qs) \/ qs[j] = Deleted
<1> DEFINE qs == Wiped(ps, idxs, last)
           G == Gone(ps, idxs)
<1>0. Backward(ps) /\ Len(ps) \in Nat /\ last \in Nat /\ last <= Len(ps)
  BY LinkedTypes, BackwardTypes DEF IsLast
<1>1. \A j \in Gone(ps, idxs) : j \in Waiting(ps) /\ j \in Live(ps)
  BY GoneIs DEF Waiting
<1> DEFINE Less(j) == [ps[j] EXCEPT !.ref_cnt = @ - Dec(ps, idxs, j)]
<1>2. ASSUME NEW j \in 1 .. last
      PROVE  /\ j \in G => qs[j] = Deleted
             /\ j \notin G => /\ qs[j] = Less(j)
                              /\ j \in Live(ps) => qs[j] \in Proof
                              /\ j \notin Live(ps) => qs[j] = Deleted
                              /\ j \notin Waiting(ps) => qs[j] = ps[j]
  <2>1. CASE j \in G
    BY <2>1 DEF Wiped
  <2>2. CASE j \notin G
    <3>0. j \in 1 .. Len(ps)
      BY <1>0
    <3>1. qs[j] = Less(j)
      BY <2>2 DEF Wiped
    <3>2. CASE j \in Waiting(ps)
      <4>1. Dec(ps, idxs, j) \in Nat /\ ps[j] \in Proof /\ j \in Live(ps)
        BY <3>0, <3>2, DecIs DEF Waiting, Live
      <4>2. Less(j) \in Proof
        <5> DEFINE d == Dec(ps, idxs, j)
        <5> HIDE DEF d
        <5>1. d \in Nat
          BY <4>1 DEF d
        <5>2. [ps[j] EXCEPT !.ref_cnt = @ - d] \in Proof
          BY <4>1, <5>1 DEF Proof
        <5> QED BY <5>2 DEF d
      <4> HIDE DEF Less
      <4> QED BY <2>2, <3>1, <3>2, <4>1, <4>2
    <3>3. CASE j \notin Waiting(ps)
      <4>1. Dec(ps, idxs, j) = 0
        BY <3>0, <3>3, DecIs
      <4>2. Less(j) = ps[j]
        <5>1. CASE ps[j] \in Proof
          BY <4>1, <5>1 DEF Proof
        <5>2. CASE ps[j] = Deleted
          BY <4>1, <5>2 DEF Deleted
        <5> QED BY <1>0, <3>0, <5>1, <5>2, BackwardTypes
      <4>3. j \in Live(ps) <=> ps[j] \in Proof
        BY <3>0 DEF Live
      <4>4. ps[j] \in Proof \/ ps[j] = Deleted
        BY <1>0, <3>0, BackwardTypes
      <4> HIDE DEF Less, Proof, Deleted
      <4> QED BY <2>2, <3>1, <3>3, <4>2, <4>3, <4>4
    <3> QED BY <3>2, <3>3
  <2> QED BY <2>1, <2>2
<1> HIDE DEF Less
<1>3. qs = [j \in 1 .. last |-> qs[j]]
  BY DEF Wiped
<1> HIDE DEF qs, G
<1>4. \A j \in 1 .. last : qs[j] \in Proof \union {Deleted}
  <2> HIDE DEF Proof, Deleted
  <2> QED BY <1>2
<1>5. qs \in Seq(Proof \union {Deleted}) /\ Len(qs) = last
  <2> HIDE DEF Proof, Deleted
  <2>1. qs \in [1 .. last -> Proof \union {Deleted}]
    BY <1>3, <1>4
  <2> QED BY <1>0, <2>1, SeqDef
<1>6. Deleted \notin Proof
  BY DEF Deleted, Proof
<1>7. Live(qs) = Live(ps) \ G
  <2>1. \A j : j \in Live(qs) <=> j \in 1 .. last /\ qs[j] \in Proof
    BY <1>5 DEF Live
  <2>2. \A j \in Live(ps) \ G : j \in 1 .. last
    <3>1. \A j \in Live(ps) \ G : j \in KeptOf(ps, idxs) /\ j \in 1 .. Len(ps)
      BY DEF KeptOf, Live, G
    <3> QED BY <1>0, <3>1 DEF IsLast
  <2> HIDE DEF Proof, Deleted
  <2> QED BY <1>2, <1>6, <2>1, <2>2
<1>8. \A j \in Live(qs) : j \in 1 .. last /\ j \notin G
  BY <1>5, <1>7 DEF Live
<1>9. \A j \in 1 .. last : j \in Live(qs) \/ qs[j] = Deleted
  <2> HIDE DEF Proof, Deleted
  <2> QED BY <1>2, <1>7
<1>10. \A j \in Live(qs) : qs[j] = Less(j) /\ (j \notin Waiting(ps) => qs[j] = ps[j])
  BY <1>2, <1>8
<1> QED BY <1>5, <1>7, <1>9, <1>10 DEF qs, G, Less

\* A segment that only lost references.
SameSegment(p, r) ==
  /\ r.iters = p.iters /\ r.seg_iters = p.seg_iters /\ r.prev = p.prev /\ r.is_req = p.is_req
  /\ r.started = p.started /\ r.done = p.done

\* What is left after hw_proof_dec_ref is still linked.
LEMMA WipedLinks ==
  ASSUME NEW ps, NEW requests, Linked(ps, requests), Counted(ps, 0), NEW idxs, Droppable(ps, idxs),
         NEW last, IsLast(ps, idxs, last)
  PROVE  LET qs == Wiped(ps, idxs, last)
         IN  /\ Linked(qs, requests)
             /\ Live(qs) = Live(ps) \ Gone(ps, idxs) /\ Waiting(qs) = Waiting(ps) \ Gone(ps, idxs)
             /\ \A j \in Live(qs) :
                  /\ SameSegment(ps[j], qs[j]) /\ qs[j].ref_cnt = ps[j].ref_cnt - Dec(ps, idxs, j)
                  /\ Chain(qs, j) = Chain(ps, j)
             /\ Continues(ps, qs)
<1> DEFINE qs == Wiped(ps, idxs, last)
           G == Gone(ps, idxs)
<1>0. Backward(ps) /\ Len(ps) \in Nat /\ last \in Nat /\ last <= Len(ps)
  BY LinkedTypes, BackwardTypes DEF IsLast
<1>1. /\ qs \in Seq(Proof \union {Deleted}) /\ Len(qs) = last /\ Live(qs) = Live(ps) \ G
      /\ \A j \in Live(qs) : /\ qs[j] = [ps[j] EXCEPT !.ref_cnt = @ - Dec(ps, idxs, j)]
                             /\ j \notin Waiting(ps) => qs[j] = ps[j]
      /\ \A j \in 1 .. last : j \in Live(qs) \/ qs[j] = Deleted
  BY WipedEntries
<1>2. /\ \A j \in G : j \in Waiting(ps) /\ j \in Live(ps)
      /\ \A k \in Live(ps) : ps[k].prev # 0 /\ ps[k].prev \in G => k \in G
  BY GoneIs DEF Waiting
<1> HIDE DEF qs, G
<1>3. ASSUME NEW j \in Live(qs)
      PROVE  /\ j \in Live(ps) /\ j \notin G /\ j \in 1 .. last /\ j \in 1 .. Len(ps)
             /\ SameSegment(ps[j], qs[j]) /\ qs[j].ref_cnt = ps[j].ref_cnt - Dec(ps, idxs, j)
             /\ ps[j].prev # 0 => ps[j].prev \in Live(qs)
             /\ LinkOK(ps, j, requests)
  <2>1. j \in Live(ps) /\ j \notin G /\ j \in 1 .. last /\ ps[j] \in Proof /\ j \in 1 .. Len(ps)
    BY <1>1 DEF Live
  <2>2. SameSegment(ps[j], qs[j]) /\ qs[j].ref_cnt = ps[j].ref_cnt - Dec(ps, idxs, j)
    <3>1. qs[j] = [ps[j] EXCEPT !.ref_cnt = @ - Dec(ps, idxs, j)]
      BY <1>1
    <3> QED BY <2>1, <3>1 DEF Proof, SameSegment
  <2>3. LinkOK(ps, j, requests)
    BY <2>1, LinkedTypes
  <2>4. ps[j].prev # 0 => ps[j].prev \in Live(qs)
    BY <1>1, <1>2, <2>1, <2>3 DEF LinkOK
  <2> QED BY <2>1, <2>2, <2>3, <2>4
<1>4. Backward(qs)
  <2>1. ASSUME NEW j \in 1 .. last PROVE qs[j].prev \in 0 .. j - 1
    <3>1. CASE j \in Live(qs)
      BY <1>0, <1>3, <3>1, BackwardTypes DEF SameSegment
    <3>2. CASE qs[j] = Deleted
      BY <1>0, <3>2 DEF Deleted
    <3> QED BY <1>1, <3>1, <3>2
  <2> QED BY <1>1, <2>1 DEF Backward
<1>5. ASSUME NEW j \in Live(qs) PROVE Chain(qs, j) = Chain(ps, j)
  <2> DEFINE K == Live(qs)
  <2>1. Agree(ps, qs, K)
    BY <1>1, <1>3 DEF Agree, SameSegment
  <2> HIDE DEF K
  <2>2. j \in K
    BY DEF K
  <2> QED BY <1>0, <1>4, <2>1, <2>2, SameChain
<1>6. ASSUME NEW j \in Live(qs) PROVE LinkOK(qs, j, requests)
  <2>1. LinkOK(ps, j, requests) /\ SameSegment(ps[j], qs[j]) /\ Chain(qs, j) = Chain(ps, j)
        /\ (ps[j].prev # 0 => ps[j].prev \in Live(qs) /\ SameSegment(ps[ps[j].prev], qs[ps[j].prev]))
    BY <1>3, <1>5
  <2> QED BY <2>1 DEF LinkOK, SameSegment
<1>7. Linked(qs, requests)
  BY <1>4, <1>6 DEF Linked
<1>8. Waiting(qs) = Waiting(ps) \ G
  BY <1>1, <1>3 DEF Waiting, SameSegment
<1>9. Continues(ps, qs)
  <2>1. ASSUME NEW j \in Started(ps) PROVE j \in Started(qs) /\ SameSegment(ps[j], qs[j])
    <3>1. j \in Live(ps) /\ ps[j].started /\ j \notin Waiting(ps)
      BY DEF Started, Waiting
    <3>2. j \in Live(qs)
      BY <1>1, <1>2, <3>1
    <3> QED BY <1>3, <3>1, <3>2 DEF Started, SameSegment
  <2> QED BY <2>1 DEF Continues, SameSegment
<1> QED BY <1>1, <1>3, <1>5, <1>7, <1>8, <1>9 DEF qs, G

\* What is left after hw_proof_dec_ref is still counted.
LEMMA WipedCounts ==
  ASSUME NEW ps, NEW requests, Linked(ps, requests), Counted(ps, 0), NEW idxs, Droppable(ps, idxs),
         NEW last, IsLast(ps, idxs, last)
  PROVE  Counted(Wiped(ps, idxs, last), 0)
<1> DEFINE qs == Wiped(ps, idxs, last)
           G == Gone(ps, idxs)
<1>0. Backward(ps) /\ Len(ps) \in Nat
  BY LinkedTypes, BackwardTypes
<1>1. /\ Linked(qs, requests)
      /\ Live(qs) = Live(ps) \ G /\ Waiting(qs) = Waiting(ps) \ G
      /\ \A j \in Live(qs) :
           /\ SameSegment(ps[j], qs[j]) /\ qs[j].ref_cnt = ps[j].ref_cnt - Dec(ps, idxs, j)
           /\ Chain(qs, j) = Chain(ps, j)
  BY WipedLinks
<1>2. /\ G = {j \in Waiting(ps) : Holders(ps, j) \subseteq idxs} /\ idxs \subseteq G
  BY GoneIs
<1> HIDE DEF qs, G
<1>3. ASSUME NEW r \in Live(ps), ps[r].is_req PROVE r \in G <=> r \in idxs
  <2>1. Holders(ps, r) = {r}
    BY <1>3, RequestHolds
  <2> QED BY <1>2, <2>1
<1>4. ASSUME NEW j \in Waiting(qs) PROVE Referenced(qs, j, 0)
  <2>1. j \in Waiting(ps) /\ j \notin G /\ j \in Live(qs) /\ j \in 1 .. Len(ps)
    BY <1>1 DEF Waiting, Live
  <2>2. Holders(qs, j) = Holders(ps, j) \ idxs
    BY <1>1, <1>3 DEF Holders, SameSegment
  <2>3. /\ Dec(ps, idxs, j) = Cardinality(Holders(ps, j) \cap idxs) /\ Dec(ps, idxs, j) \in Nat
        /\ ps[j].ref_cnt = Cardinality(Holders(ps, j)) /\ ps[j].ref_cnt \in Nat \ {0}
        /\ Dec(ps, idxs, j) <= ps[j].ref_cnt
    BY <2>1, DecIs
  <2>4. Cardinality(Holders(ps, j) \ idxs) = Cardinality(Holders(ps, j)) - Cardinality(Holders(ps, j) \cap idxs)
    BY <1>0, HoldersFinite, FS_Difference
  <2>5. ~(Dec(ps, idxs, j) > 0 /\ ps[j].ref_cnt = Dec(ps, idxs, j))
    BY <2>1 DEF G, Gone
  <2>6. qs[j].ref_cnt = ps[j].ref_cnt - Dec(ps, idxs, j)
    BY <1>1, <2>1
  <2>7. qs[j].ref_cnt > 0
    BY <2>3, <2>5, <2>6
  <2>8. qs[j].ref_cnt = Cardinality(Holders(qs, j)) /\ qs[j].ref_cnt \in Int
    BY <2>2, <2>3, <2>4, <2>6
  <2>9. Chain(qs, 0) = {}
    BY <1>1, LinkedTypes, ChainUnfolds
  <2> QED BY <2>7, <2>8, <2>9 DEF Referenced
<1>5. Counted(qs, 0)
  BY <1>4 DEF Counted
<1> QED BY <1>5 DEF qs

\* What is left after hw_proof_dec_ref is still in order.
LEMMA WipedOrders ==
  ASSUME NEW ps, NEW requests, Linked(ps, requests), Counted(ps, 0), NEW idxs, Droppable(ps, idxs),
         NEW last, IsLast(ps, idxs, last), NEW queue, InOrder(ps, queue)
  PROVE  InOrder(Wiped(ps, idxs, last), Selected(queue, KeptOf(ps, idxs)))
<1> DEFINE qs == Wiped(ps, idxs, last)
           G == Gone(ps, idxs)
           K == KeptOf(ps, idxs)
           new == Selected(queue, K)
<1>1. /\ Live(qs) = Live(ps) \ G /\ Waiting(qs) = Waiting(ps) \ G
      /\ \A j \in Live(qs) : SameSegment(ps[j], qs[j])
  BY WipedLinks
<1>2. queue \in Seq(Nat) /\ Len(queue) \in Nat /\ Elements(queue) = Waiting(ps)
      /\ \A m, n \in 1 .. Len(queue) : m < n => queue[m] # queue[n] /\ ps[queue[m]].prev # queue[n]
  BY LenProperties DEF InOrder
<1>3. new \in Seq(Nat) /\ Picks(new, queue, K, Len(queue))
  <2> HIDE DEF K
  <2> QED BY <1>2, SelectedPicks
<1>4. \A j \in Waiting(ps) : j \in K <=> j \notin G
  BY DEF KeptOf, Waiting, Live
<1> HIDE DEF qs, G, K, new
<1>5. Elements(new) = Waiting(qs)
  <2>1. ASSUME NEW k \in 1 .. Len(new) PROVE new[k] \in Waiting(qs)
    <3>1. new[k] \in K /\ new[k] \in Waiting(ps)
      BY <1>2, <1>3 DEF Picks, Elements
    <3> QED BY <1>1, <1>4, <3>1
  <2>2. ASSUME NEW j \in Waiting(qs) PROVE \E k \in 1 .. Len(new) : new[k] = j
    <3>1. j \in Waiting(ps) /\ j \in K
      BY <1>1, <1>4
    <3>2. PICK l \in 1 .. Len(queue) : queue[l] = j
      BY <1>2, <3>1 DEF Elements
    <3> QED BY <1>3, <3>1, <3>2 DEF Picks
  <2> QED BY <2>1, <2>2 DEF Elements
<1>6. ASSUME NEW m \in 1 .. Len(new), NEW n \in 1 .. Len(new), m < n
      PROVE  new[m] # new[n] /\ qs[new[m]].prev # new[n]
  <2>1. PICK l1 \in 1 .. Len(queue), l2 \in 1 .. Len(queue) :
          l1 < l2 /\ new[m] = queue[l1] /\ new[n] = queue[l2]
    BY <1>3, <1>6 DEF Picks
  <2>2. new[m] \in Live(qs)
    BY <1>5 DEF Elements, Waiting
  <2>3. qs[new[m]].prev = ps[new[m]].prev
    BY <1>1, <2>2 DEF SameSegment
  <2>4. queue[l1] # queue[l2] /\ ps[queue[l1]].prev # queue[l2]
    BY <1>2, <2>1, Zenon
  <2> HIDE DEF new, qs
  <2> QED BY <2>1, <2>3, <2>4
<1>7. InOrder(qs, new)
  BY <1>3, <1>5, <1>6 DEF InOrder
<1> QED BY <1>7 DEF qs, new, K

\* hw_proof_dec_ref: dropping requests keeps the queue right.
LEMMA DecRefKeeps ==
  ASSUME NEW q, NEW requests, QueueInv(q, 0, requests), NEW idxs, Droppable(q.proofs, idxs)
  PROVE  /\ QueueInv(hw_proof_dec_ref(q, idxs), 0, requests)
         /\ Continues(q.proofs, hw_proof_dec_ref(q, idxs).proofs)
<1> DEFINE ps == q.proofs
           K == KeptOf(ps, idxs)
           last == CHOOSE j \in K \union {0} : \A k \in K : k <= j
           qs == Wiped(ps, idxs, last)
           new == Selected(q.queued, K)
           next == hw_proof_dec_ref(q, idxs)
<1>1. /\ q = [req |-> q.req, proofs |-> q.proofs, queued |-> q.queued] /\ q.req \in Seq(requests)
      /\ Linked(ps, requests) /\ Counted(ps, 0) /\ InOrder(ps, q.queued)
  BY DEF QueueInv
<1>2. next = [q EXCEPT !.proofs = qs, !.queued = new]
  BY DEF hw_proof_dec_ref, Wiped, Gone, Dec, KeptOf
<1>3. IsLast(ps, idxs, last)
  <2>0. Len(ps) \in Nat
    BY <1>1, LinkedTypes, BackwardTypes
  <2>1. K \subseteq 1 .. Len(ps)
    BY DEF KeptOf
  <2>2. K \union {0} \subseteq Nat /\ K \union {0} \subseteq 0 .. Len(ps) /\ \A k \in K \union {0} : k <= Len(ps)
    BY <2>0, <2>1
  <2> DEFINE P == K \union {0}
  <2>3. \E j \in P : \A k \in P : k <= j
    <3>1. P # {}
      OBVIOUS
    <3> HIDE DEF P, K
    <3> QED BY <2>0, <2>2, <3>1, GreatestNatural DEF P
  <2>4. \E j \in K \union {0} : \A k \in K : k <= j
    BY <2>3
  <2>5. last \in K \union {0} /\ \A k \in K : k <= last
    <3> HIDE DEF K
    <3> QED BY <2>4, Zenon
  <2> HIDE DEF last
  <2> QED BY <2>2, <2>5 DEF IsLast
<1> HIDE DEF last, next
<1>4. Linked(qs, requests) /\ Continues(ps, qs)
  BY <1>1, <1>3, WipedLinks
<1>5. Counted(qs, 0)
  BY <1>1, <1>3, WipedCounts
<1>6. InOrder(qs, new)
  BY <1>1, <1>3, WipedOrders
<1> HIDE DEF qs, new
<1>7. next = [req |-> q.req, proofs |-> qs, queued |-> new]
  BY <1>1, <1>2
<1>8. next.req = q.req /\ next.proofs = qs /\ next.queued = new
      /\ next = [req |-> next.req, proofs |-> next.proofs, queued |-> next.queued]
  BY <1>7
<1>9. QueueInv(next, 0, requests)
  BY <1>1, <1>4, <1>5, <1>6, <1>8 DEF QueueInv
<1> QED BY <1>4, <1>8, <1>9 DEF next

----------------------------------------------------------------------------
(***************************************************************************)
(* Requests                                                                *)
(***************************************************************************)

\* Continues is transitive.
LEMMA ContinuesOn ==
  ASSUME NEW ps, NEW qs, NEW rs, Continues(ps, qs), Continues(qs, rs)
  PROVE  Continues(ps, rs)
  BY DEF Continues

\* hw_request_proof adds one request.
LEMMA RequestTypes ==
  ASSUME NEW requests, NEW reqs \in Seq(requests), NEW iters \in requests
  PROVE  hw_request_proof(reqs, iters) \in Seq(requests)
<1> DEFINE places == {n \in DOMAIN reqs : reqs[n] <= iters}
<1>1. places \subseteq 1 .. Len(reqs)
  BY LenProperties
<1> HIDE DEF places
<1>2. InsertBehind(reqs, iters, places) \in Seq(requests)
  BY <1>1, InsertBehindInserts
<1> QED BY <1>2 DEF hw_request_proof, places

\* The requests as those in again are asked for once more.
Reasks(f, first, ps, again) ==
  f = [n \in 0 .. Len(again) |->
         IF n = 0 THEN first ELSE hw_request_proof(f[n - 1], ps[again[n]].iters)]

\* Displaced requests are requests.
LEMMA ReasksTypes ==
  ASSUME NEW requests, NEW first \in Seq(requests), NEW ps, NEW again \in Seq(Nat),
         \A n \in 1 .. Len(again) : ps[again[n]].iters \in requests
  PROVE  LET h == CHOOSE f : Reasks(f, first, ps, again) IN h[Len(again)] \in Seq(requests)
<1> DEFINE N == Len(again)
           V == Seq(requests)
           Then(n, s) == hw_request_proof(s, ps[again[n]].iters)
           D == [p \in (1 .. N) \X V |-> Then(p[1], p[2])]
           h == CHOOSE f : Reasks(f, first, ps, again)
<1>0. N \in Nat
  BY LenProperties
<1>1. D \in [(1 .. N) \X V -> V]
  <2>1. ASSUME NEW n \in 1 .. N, NEW s \in V PROVE Then(n, s) \in V
    BY RequestTypes
  <2> HIDE DEF Then, V
  <2> QED BY <2>1
<1>2. PICK g \in [0 .. N -> V] : Recurs(g, N, first, D)
  <2> HIDE DEF D, N
  <2> QED BY <1>0, <1>1, RecursiveFunction
<1>3. ASSUME NEW n \in 0 .. N PROVE g[n] = IF n = 0 THEN first ELSE Then(n, g[n - 1])
  <2>1. CASE n = 0
    BY <1>2, <2>1 DEF Recurs
  <2>2. CASE n # 0
    <3>1. n \in 1 .. N /\ n - 1 \in 0 .. N
      BY <1>0, <2>2
    <3>2. g[n] = D[<<n, g[n - 1]>>] /\ <<n, g[n - 1]>> \in (1 .. N) \X V
      <4> HIDE DEF D, V
      <4> QED BY <1>2, <3>1 DEF Recurs
    <3>3. D[<<n, g[n - 1]>>] = Then(n, g[n - 1])
      <4> HIDE DEF Then, V
      <4> QED BY <3>2
    <3> HIDE DEF D, Then
    <3> QED BY <2>2, <3>2, <3>3
  <2> QED BY <2>1, <2>2
<1>4. Reasks(g, first, ps, again)
  <2>1. g = [n \in 0 .. N |-> g[n]]
    OBVIOUS
  <2>2. g = [n \in 0 .. N |-> IF n = 0 THEN first ELSE Then(n, g[n - 1])]
    <3> HIDE DEF Then, N
    <3> QED BY <1>3, <2>1
  <2> QED BY <2>2, Zenon DEF Reasks
<1>5. Reasks(h, first, ps, again)
  BY <1>4, Zenon
<1> HIDE DEF h
<1>7. ASSUME NEW n \in 0 .. N PROVE h[n] = IF n = 0 THEN first ELSE Then(n, h[n - 1])
  <2>1. h = [k \in 0 .. N |-> IF k = 0 THEN first ELSE Then(k, h[k - 1])]
    BY <1>5, Zenon DEF Reasks
  <2> QED BY <2>1, Zenon
<1> DEFINE T == {n \in Nat : n <= N => h[n] \in V}
<1>8. 0 \in T
  BY <1>0, <1>7
<1>9. ASSUME NEW n \in Nat, n \in T PROVE n + 1 \in T
  <2> SUFFICES ASSUME n + 1 <= N PROVE h[n + 1] \in V
    OBVIOUS
  <2>1. h[n] \in V /\ n + 1 \in 1 .. N /\ n + 1 \in 0 .. N /\ (n + 1) - 1 = n /\ n + 1 # 0
    BY <1>0, <1>9
  <2>2. h[n + 1] = Then(n + 1, h[n])
    <3> HIDE DEF Then
    <3> QED BY <1>7, <2>1
  <2>3. Then(n + 1, h[n]) \in V
    BY <2>1, RequestTypes
  <2> QED BY <2>2, <2>3
<1>10. Nat \subseteq T
  <2> HIDE DEF T
  <2> QED BY <1>8, <1>9, InductiveSet
<1>11. h[N] \in V
  BY <1>0, <1>10
<1> QED BY <1>11 DEF h

\* Queued requests that give way are asked for again, and the rest is right.
LEMMA DisplacedKeeps ==
  ASSUME NEW q, NEW requests, QueueInv(q, 0, requests), NEW iters
  PROVE  QueueInv(Displaced(q, iters), 0, requests) /\ Continues(q.proofs, Displaced(q, iters).proofs)
<1> DEFINE ps == q.proofs
           dropped == {q.queued[i] : i \in {j \in DOMAIN q.queued :
                        ps[q.queued[j]].is_req /\ iters <= ps[q.queued[j]].iters}}
           again == Selected(q.queued, dropped)
           h == CHOOSE f : Reasks(f, q.req, ps, again)
           asks == h[Len(again)]
           r == [q EXCEPT !.req = asks]
<1>1. /\ q = [req |-> q.req, proofs |-> q.proofs, queued |-> q.queued] /\ q.req \in Seq(requests)
      /\ Linked(ps, requests) /\ Counted(ps, 0) /\ InOrder(ps, q.queued)
  BY DEF QueueInv
<1>2. Displaced(q, iters) = hw_proof_dec_ref(r, dropped) \/ Displaced(q, iters) = q
  BY Zenon DEF Displaced, Reasks
<1>3. Continues(ps, ps)
  BY DEF Continues
<1>4. CASE Displaced(q, iters) = q
  BY <1>3, <1>4
<1>5. CASE Displaced(q, iters) = hw_proof_dec_ref(r, dropped)
  <2>1. q.queued \in Seq(Nat) /\ DOMAIN q.queued = 1 .. Len(q.queued)
        /\ \A i \in 1 .. Len(q.queued) : q.queued[i] \in Waiting(ps)
    BY <1>1, LenProperties DEF InOrder, Elements
  <2>2. Droppable(ps, dropped)
    BY <2>1 DEF Droppable
  <2> HIDE DEF dropped
  <2>3. again \in Seq(Nat) /\ Picks(again, q.queued, dropped, Len(q.queued))
    BY <2>1, SelectedPicks
  <2>4. ASSUME NEW n \in 1 .. Len(again) PROVE ps[again[n]].iters \in requests
    <3>1. again[n] \in dropped
      BY <2>3 DEF Picks
    <3>2. again[n] \in Live(ps) /\ ps[again[n]].is_req
      BY <2>2, <3>1 DEF Droppable, Waiting
    <3> QED BY <1>1, <3>2, LinkedTypes DEF LinkOK
  <2>5. asks \in Seq(requests)
    <3> HIDE DEF again
    <3> QED BY <1>1, <2>3, <2>4, ReasksTypes
  <2> HIDE DEF asks
  <2>6. r = [req |-> asks, proofs |-> q.proofs, queued |-> q.queued]
    BY <1>1
  <2>7. r.req = asks /\ r.proofs = ps /\ r.queued = q.queued
        /\ r = [req |-> r.req, proofs |-> r.proofs, queued |-> r.queued]
    BY <2>6
  <2> HIDE DEF r
  <2>8. QueueInv(r, 0, requests)
    BY <1>1, <2>5, <2>7 DEF QueueInv
  <2> QED BY <1>5, <2>2, <2>7, <2>8, DecRefKeeps
<1> QED BY <1>2, <1>4, <1>5

\* The checkpoint that is continued waits and leaves room for three segments.
LEMMA BaseIs ==
  ASSUME NEW q, NEW requests, QueueInv(q, 0, requests), NEW iters
  PROVE  \/ Base(q, iters) = 0
         \/ /\ Base(q, iters) \in Waiting(q.proofs) /\ ~q.proofs[Base(q, iters)].is_req
            /\ q.proofs[Base(q, iters)].iters <= iters
            /\ Cardinality(Chain(q.proofs, Base(q, iters))) <= MaxSegments - 3
<1> DEFINE usable == {i \in DOMAIN q.queued :
             LET p == q.proofs[q.queued[i]] IN
               /\ ~p.is_req /\ p.iters <= iters
               /\ hw_proof_cnt_segments(q.proofs, q.queued[i]) <= MaxSegments - 3}
           i0 == CHOOSE i \in usable : \A j \in usable : j <= i
<1>0. Base(q, iters) = IF usable = {} THEN 0 ELSE q.queued[i0]
  BY DEF Base
<1>1. InOrder(q.proofs, q.queued)
  BY DEF QueueInv
<1>2. DOMAIN q.queued = 1 .. Len(q.queued) /\ Len(q.queued) \in Nat
      /\ \A i \in 1 .. Len(q.queued) : q.queued[i] \in Waiting(q.proofs)
  BY <1>1, LenProperties DEF InOrder, Elements
<1>3. ASSUME NEW i \in usable
      PROVE  /\ q.queued[i] \in Waiting(q.proofs) /\ ~q.proofs[q.queued[i]].is_req
             /\ q.proofs[q.queued[i]].iters <= iters
             /\ Cardinality(Chain(q.proofs, q.queued[i])) <= MaxSegments - 3
  BY <1>2 DEF hw_proof_cnt_segments
<1>4. usable \subseteq Nat /\ \A i \in usable : i <= Len(q.queued)
  BY <1>2
<1> HIDE DEF usable
<1>5. usable # {} => i0 \in usable
  <2>1. usable # {} => \E i \in usable : \A j \in usable : j <= i
    BY <1>2, <1>4, GreatestNatural
  <2> QED BY <2>1, Zenon
<1> HIDE DEF i0
<1> QED BY <1>0, <1>3, <1>5

\* Rounding to multiples of interval does not make more iterations.
LEMMA RoundedTypes ==
  ASSUME NEW n \in Nat
  PROVE  Rounded(n) \in Nat /\ Rounded(n) <= n
<1>1. interval \in Nat \ {0}
  BY HwProofAssumption
<1> DEFINE d == n \div interval
<1>2. d \in Nat /\ d * interval <= n
  BY <1>1
<1> HIDE DEF d
<1>3. d * interval \in Nat
  BY <1>1, <1>2
<1> QED BY <1>2, <1>3 DEF Rounded, d

\* A checkpoint is queued behind prev.
LEMMA CheckpointKeeps ==
  ASSUME NEW q, NEW requests, NEW seg_iters \in Nat, NEW prev, QueueInv(q, prev, requests), TailOK(q.proofs, prev),
         Cardinality(Chain(q.proofs, prev)) \in Nat, NEW left \in Nat,
         Cardinality(Chain(q.proofs, prev)) + left + 1 <= MaxSegments
  PROVE  LET next == hw_queue_proof(q, seg_iters, prev, FALSE)
             n == Len(next.proofs)
         IN  /\ QueueInv(next, n, requests) /\ TailOK(next.proofs, n)
             /\ ItersOf(next.proofs, n) = seg_iters + ItersOf(q.proofs, prev)
             /\ Cardinality(Chain(next.proofs, n)) \in Nat
             /\ Cardinality(Chain(next.proofs, n)) + left <= MaxSegments
             /\ Continues(q.proofs, next.proofs)
<1> DEFINE next == hw_queue_proof(q, seg_iters, prev, FALSE)
           n == Len(next.proofs)
<1>0. MaxSegments \in Nat
  BY HwProofAssumption
<1>1. /\ QueueInv(next, n, requests) /\ TailOK(next.proofs, n)
      /\ ItersOf(next.proofs, n) = seg_iters + ItersOf(q.proofs, prev)
      /\ Cardinality(Chain(next.proofs, n)) <= Cardinality(Chain(q.proofs, prev)) + 1
      /\ Continues(q.proofs, next.proofs)
  <2>1. Cardinality(Chain(q.proofs, prev)) + 1 <= MaxSegments
    BY <1>0
  <2> DEFINE is_req == FALSE
             then == hw_queue_proof(q, seg_iters, prev, is_req)
  <2>2. is_req \in BOOLEAN /\ ~is_req
    OBVIOUS
  <2> HIDE DEF is_req
  <2>3. /\ QueueInv(then, IF is_req THEN 0 ELSE Len(then.proofs), requests)
        /\ ~is_req => TailOK(then.proofs, Len(then.proofs))
        /\ ItersOf(then.proofs, Len(then.proofs)) = seg_iters + ItersOf(q.proofs, prev)
        /\ Cardinality(Chain(then.proofs, Len(then.proofs))) <= Cardinality(Chain(q.proofs, prev)) + 1
        /\ Continues(q.proofs, then.proofs)
    BY <2>1, <2>2, QueueProofKeeps
  <2>4. then = next
    BY DEF is_req
  <2> HIDE DEF then, next
  <2> QED BY <2>2, <2>3, <2>4
<1> HIDE DEF next
<1>2. Cardinality(Chain(next.proofs, n)) \in Nat
  <2>1. Backward(next.proofs) /\ Linked(next.proofs, requests)
    BY <1>1, LinkedTypes DEF QueueInv
  <2>2. n \in 0 .. Len(next.proofs)
    BY <2>1, BackwardTypes
  <2> QED BY <2>1, <2>2, ChainBelow
<1>3. Cardinality(Chain(next.proofs, n)) + left <= MaxSegments
  BY <1>0, <1>1, <1>2
<1> QED BY <1>1, <1>2, <1>3 DEF next

\* A checkpoint and the rest of the request are queued behind prev.
LEMMA TwoSegmentsKeep ==
  ASSUME NEW q, NEW requests, NEW s1 \in Nat, NEW s2 \in Nat, NEW prev,
         QueueInv(q, prev, requests), TailOK(q.proofs, prev),
         Cardinality(Chain(q.proofs, prev)) \in Nat, Cardinality(Chain(q.proofs, prev)) + 2 <= MaxSegments,
         ItersOf(q.proofs, prev) \in Nat, s1 + s2 + ItersOf(q.proofs, prev) \in requests
  PROVE  LET one == hw_queue_proof(q, s1, prev, FALSE)
             two == hw_queue_proof(one, s2, Len(one.proofs), TRUE)
         IN  QueueInv(two, 0, requests) /\ Continues(q.proofs, two.proofs)
<1> DEFINE one == hw_queue_proof(q, s1, prev, FALSE)
           n == Len(one.proofs)
           two == hw_queue_proof(one, s2, n, TRUE)
<1>1. /\ QueueInv(one, n, requests) /\ TailOK(one.proofs, n)
      /\ ItersOf(one.proofs, n) = s1 + ItersOf(q.proofs, prev)
      /\ Cardinality(Chain(one.proofs, n)) + 1 <= MaxSegments
      /\ Continues(q.proofs, one.proofs)
  <2> DEFINE left == 1
  <2>1. left \in Nat /\ Cardinality(Chain(q.proofs, prev)) + left + 1 <= MaxSegments
    BY HwProofAssumption
  <2> HIDE DEF left, two
  <2>2. /\ QueueInv(one, n, requests) /\ TailOK(one.proofs, n)
        /\ ItersOf(one.proofs, n) = s1 + ItersOf(q.proofs, prev)
        /\ Cardinality(Chain(one.proofs, n)) \in Nat
        /\ Cardinality(Chain(one.proofs, n)) + left <= MaxSegments
        /\ Continues(q.proofs, one.proofs)
    BY <2>1, CheckpointKeeps
  <2> HIDE DEF one
  <2> QED BY <2>2 DEF left
<1> HIDE DEF one
<1>2. s2 + ItersOf(one.proofs, n) \in requests
  <2>1. s2 + ItersOf(one.proofs, n) = s1 + s2 + ItersOf(q.proofs, prev)
    BY <1>1
  <2> QED BY <2>1
<1>3. QueueInv(two, 0, requests) /\ Continues(one.proofs, two.proofs)
  BY <1>1, <1>2, QueueProofKeeps
<1> HIDE DEF two
<1>4. Continues(q.proofs, two.proofs)
  BY <1>1, <1>3, ContinuesOn
<1> QED BY <1>3, <1>4 DEF two, one

\* Two checkpoints and the rest of the request are queued behind prev.
LEMMA ThreeSegmentsKeep ==
  ASSUME NEW q, NEW requests, NEW s1 \in Nat, NEW s2 \in Nat, NEW s3 \in Nat, NEW prev,
         QueueInv(q, prev, requests), TailOK(q.proofs, prev),
         Cardinality(Chain(q.proofs, prev)) \in Nat, Cardinality(Chain(q.proofs, prev)) + 3 <= MaxSegments,
         ItersOf(q.proofs, prev) \in Nat, s1 + s2 + s3 + ItersOf(q.proofs, prev) \in requests
  PROVE  LET one == hw_queue_proof(q, s1, prev, FALSE)
             two == hw_queue_proof(one, s2, Len(one.proofs), FALSE)
             three == hw_queue_proof(two, s3, Len(two.proofs), TRUE)
         IN  QueueInv(three, 0, requests) /\ Continues(q.proofs, three.proofs)
<1> DEFINE one == hw_queue_proof(q, s1, prev, FALSE)
           n == Len(one.proofs)
           two == hw_queue_proof(one, s2, n, FALSE)
           three == hw_queue_proof(two, s3, Len(two.proofs), TRUE)
<1>1. /\ QueueInv(one, n, requests) /\ TailOK(one.proofs, n)
      /\ ItersOf(one.proofs, n) = s1 + ItersOf(q.proofs, prev)
      /\ Cardinality(Chain(one.proofs, n)) \in Nat /\ Cardinality(Chain(one.proofs, n)) + 2 <= MaxSegments
      /\ Continues(q.proofs, one.proofs)
  <2> DEFINE left == 2
  <2>1. left \in Nat /\ Cardinality(Chain(q.proofs, prev)) + left + 1 <= MaxSegments
    BY HwProofAssumption
  <2> HIDE DEF left, two, three
  <2>2. /\ QueueInv(one, n, requests) /\ TailOK(one.proofs, n)
        /\ ItersOf(one.proofs, n) = s1 + ItersOf(q.proofs, prev)
        /\ Cardinality(Chain(one.proofs, n)) \in Nat
        /\ Cardinality(Chain(one.proofs, n)) + left <= MaxSegments
        /\ Continues(q.proofs, one.proofs)
    BY <2>1, CheckpointKeeps
  <2> HIDE DEF one
  <2> QED BY <2>2 DEF left
<1> HIDE DEF one
<1>2. ItersOf(one.proofs, n) \in Nat /\ s2 + s3 + ItersOf(one.proofs, n) \in requests
  <2>1. s2 + s3 + ItersOf(one.proofs, n) = s1 + s2 + s3 + ItersOf(q.proofs, prev)
    BY <1>1
  <2>2. ItersOf(one.proofs, n) \in Nat
    BY <1>1
  <2> QED BY <2>1, <2>2
<1>3. QueueInv(three, 0, requests) /\ Continues(one.proofs, three.proofs)
  BY <1>1, <1>2, TwoSegmentsKeep
<1> HIDE DEF three
<1>4. Continues(q.proofs, three.proofs)
  BY <1>1, <1>3, ContinuesOn
<1> QED BY <1>3, <1>4 DEF three, two, one

\* A request is queued in one, two or three segments behind prev.
LEMMA QueueSegmentsKeeps ==
  ASSUME NEW q, NEW requests, NEW iters \in Nat, NEW prev, QueueInv(q, prev, requests), TailOK(q.proofs, prev),
         Cardinality(Chain(q.proofs, prev)) + 3 <= MaxSegments,
         iters + ItersOf(q.proofs, prev) \in requests
  PROVE  /\ QueueInv(QueueSegments(q, iters, prev), 0, requests)
         /\ Continues(q.proofs, QueueSegments(q, iters, prev).proofs)
<1>0. /\ MaxSegments \in Nat /\ Cardinality(Chain(q.proofs, prev)) \in Nat /\ g_chkp_thres \in Nat
      /\ ItersOf(q.proofs, prev) \in Nat
  <2>1. Backward(q.proofs) /\ prev \in 0 .. Len(q.proofs)
    <3>1. Linked(q.proofs, requests) /\ Backward(q.proofs)
      BY LinkedTypes DEF QueueInv
    <3>2. Len(q.proofs) \in Nat
      BY <3>1, BackwardTypes
    <3> QED BY <3>1, <3>2 DEF TailOK, Live
  <2>2. ItersOf(q.proofs, prev) \in Nat
    BY LinkedTypes DEF QueueInv, TailOK, ItersOf
  <2> QED BY <2>1, <2>2, ChainBelow, HwProofAssumption
<1>1. CASE iters <= g_chkp_thres
  <2>1. QueueSegments(q, iters, prev) = hw_queue_proof(q, iters, prev, TRUE)
    BY <1>1 DEF QueueSegments
  <2>2. Cardinality(Chain(q.proofs, prev)) + 1 <= MaxSegments
    BY <1>0
  <2> QED BY <2>1, <2>2, QueueProofKeeps
<1> DEFINE chkp == (iters * 3) \div 4
<1>2. CASE ~(iters <= g_chkp_thres) /\ iters - chkp <= g_chkp_thres
  <2> DEFINE s1 == Rounded(chkp)
             s2 == iters - s1
             one == hw_queue_proof(q, s1, prev, FALSE)
             two == hw_queue_proof(one, s2, Len(one.proofs), TRUE)
  <2>1. QueueSegments(q, iters, prev) = two
    <3> HIDE DEF s1, one
    <3>1. QueueSegments(q, iters, prev) = CHOOSE y \in {hw_queue_proof(x, iters - s1, Len(x.proofs), TRUE) : x \in {one}} : TRUE
      BY <1>2 DEF QueueSegments, Once, s1, one
    <3> QED BY <3>1
  <2>2. s1 \in Nat /\ s2 \in Nat /\ s1 + s2 = iters
    <3>1. chkp \in Nat /\ chkp <= iters
      OBVIOUS
    <3> HIDE DEF chkp
    <3>2. Rounded(chkp) \in Nat /\ Rounded(chkp) <= chkp
      BY <3>1, RoundedTypes
    <3> QED BY <3>1, <3>2
  <2> HIDE DEF s1, s2, chkp
  <2>3. s1 + s2 + ItersOf(q.proofs, prev) \in requests /\ Cardinality(Chain(q.proofs, prev)) + 2 <= MaxSegments
    BY <1>0, <2>2
  <2>4. QueueInv(two, 0, requests) /\ Continues(q.proofs, two.proofs)
    BY <1>0, <2>2, <2>3, TwoSegmentsKeep
  <2> HIDE DEF two
  <2> QED BY <2>1, <2>4
<1>3. CASE ~(iters <= g_chkp_thres) /\ ~(iters - chkp <= g_chkp_thres)
  <2> DEFINE s1 == Rounded((iters * 69) \div 100)
             s2 == Rounded((iters * 92) \div 100 - s1)
             s3 == iters - s1 - s2
             one == hw_queue_proof(q, s1, prev, FALSE)
             two == hw_queue_proof(one, s2, Len(one.proofs), FALSE)
             three == hw_queue_proof(two, s3, Len(two.proofs), TRUE)
  <2>1. QueueSegments(q, iters, prev) = three
    <3> HIDE DEF s1, s2, one, two
    <3>1. QueueSegments(q, iters, prev) =
            Once(one, LAMBDA x : Once(hw_queue_proof(x, s2, Len(x.proofs), FALSE), LAMBDA y :
                   hw_queue_proof(y, s3, Len(y.proofs), TRUE)))
      BY <1>3 DEF QueueSegments, s1, s2, one
    <3>2. \A x : Once(x, LAMBDA y : hw_queue_proof(y, s3, Len(y.proofs), TRUE)) =
                   hw_queue_proof(x, s3, Len(x.proofs), TRUE)
      BY DEF Once
    <3>3. Once(one, LAMBDA x : Once(hw_queue_proof(x, s2, Len(x.proofs), FALSE), LAMBDA y :
                   hw_queue_proof(y, s3, Len(y.proofs), TRUE))) =
          Once(hw_queue_proof(one, s2, Len(one.proofs), FALSE), LAMBDA y :
                   hw_queue_proof(y, s3, Len(y.proofs), TRUE))
      BY DEF Once
    <3> QED BY <3>1, <3>2, <3>3 DEF two
  <2>2. s1 \in Nat /\ s2 \in Nat /\ s3 \in Nat /\ s1 + s2 + s3 = iters
    <3> DEFINE a == (iters * 69) \div 100
               b == (iters * 92) \div 100
    <3>1. a \in Nat /\ b \in Nat /\ a <= b /\ b <= iters
      OBVIOUS
    <3> HIDE DEF a, b
    <3>2. Rounded(a) \in Nat /\ Rounded(a) <= a
      BY <3>1, RoundedTypes
    <3> DEFINE d == b - Rounded(a)
    <3>3. d \in Nat /\ d = b - Rounded(a)
      BY <3>1, <3>2
    <3> HIDE DEF d
    <3>4. Rounded(d) \in Nat /\ Rounded(d) <= d
      BY <3>3, RoundedTypes
    <3>5. iters - Rounded(a) - Rounded(d) \in Nat
      BY <3>1, <3>2, <3>3, <3>4
    <3>6. s1 \in Nat /\ s2 \in Nat /\ s3 \in Nat
      BY <3>2, <3>4, <3>5 DEF a, b, d
    <3> HIDE DEF s1, s2
    <3> QED BY <3>6
  <2> HIDE DEF s1, s2, s3, chkp
  <2>3. s1 + s2 + s3 + ItersOf(q.proofs, prev) \in requests
    BY <2>2
  <2>4. QueueInv(three, 0, requests) /\ Continues(q.proofs, three.proofs)
    BY <1>0, <2>2, <2>3, ThreeSegmentsKeep
  <2> HIDE DEF three
  <2> QED BY <2>1, <2>4
<1> QED BY <1>1, <1>2, <1>3

\* A request is taken from the front and queued.
LEMMA ProcessReqKeeps ==
  ASSUME NEW q, NEW requests, requests \subseteq Nat, QueueInv(q, 0, requests), q.req # << >>
  PROVE  /\ QueueInv(hw_proof_process_req(q), 0, requests)
         /\ Continues(q.proofs, hw_proof_process_req(q).proofs)
<1> DEFINE iters == Head(q.req)
           rest == [q EXCEPT !.req = Tail(@)]
           room == Displaced(rest, iters)
           prev == Base(room, iters)
           based == hw_proof_inc_ref(room, prev)
           next == hw_proof_process_req(q)
<1>1. next = IF prev = 0 THEN QueueSegments(room, iters, prev)
             ELSE QueueSegments(based, iters - based.proofs[prev].iters, prev)
  <2> DEFINE Behind(r, p) == IF p = 0 THEN QueueSegments(r, iters, p)
               ELSE Once(hw_proof_inc_ref(r, p), LAMBDA b :
                      QueueSegments(b, iters - b.proofs[p].iters, p))
  <2>1. next = Once(room, LAMBDA r : Once(Base(r, iters), LAMBDA p : Behind(r, p)))
    BY DEF hw_proof_process_req
  <2>2. Once(room, LAMBDA r : Once(Base(r, iters), LAMBDA p : Behind(r, p))) =
        Once(Base(room, iters), LAMBDA p : Behind(room, p))
    <3> HIDE DEF room, Behind
    <3> QED BY DEF Once
  <2>3. Once(Base(room, iters), LAMBDA p : Behind(room, p)) = Behind(room, prev)
    <3> HIDE DEF room, Behind
    <3> QED BY DEF Once
  <2>4. Once(based, LAMBDA b : QueueSegments(b, iters - b.proofs[prev].iters, prev)) =
        QueueSegments(based, iters - based.proofs[prev].iters, prev)
    <3> HIDE DEF based, prev
    <3> QED BY DEF Once
  <2>5. Behind(room, prev) = IF prev = 0 THEN QueueSegments(room, iters, prev)
               ELSE Once(based, LAMBDA b : QueueSegments(b, iters - b.proofs[prev].iters, prev))
    <3> HIDE DEF room, prev
    <3> QED OBVIOUS
  <2> HIDE DEF room, prev, based, Behind, next
  <2> QED BY <2>1, <2>2, <2>3, <2>4, <2>5
<1>2. iters \in requests /\ iters \in Nat /\ Tail(q.req) \in Seq(requests)
  <2>1. q.req \in Seq(requests)
    BY DEF QueueInv
  <2> QED BY <2>1, HeadTailProperties
<1>3. QueueInv(rest, 0, requests) /\ rest.proofs = q.proofs
  <2>1. rest = [req |-> Tail(q.req), proofs |-> q.proofs, queued |-> q.queued]
    <3>1. q = [req |-> q.req, proofs |-> q.proofs, queued |-> q.queued]
      BY DEF QueueInv
    <3> DEFINE tail == Tail(q.req)
    <3>2. rest = [q EXCEPT !.req = tail]
      OBVIOUS
    <3> HIDE DEF tail, rest
    <3>3. rest = [req |-> tail, proofs |-> q.proofs, queued |-> q.queued]
      BY <3>1, <3>2
    <3> QED BY <3>3 DEF tail
  <2> HIDE DEF rest
  <2>2. /\ rest.req = Tail(q.req) /\ rest.proofs = q.proofs /\ rest.queued = q.queued
        /\ rest = [req |-> rest.req, proofs |-> rest.proofs, queued |-> rest.queued]
    BY <2>1
  <2> QED BY <1>2, <2>2 DEF QueueInv
<1> HIDE DEF next, rest, iters
<1>4. QueueInv(room, 0, requests) /\ Continues(q.proofs, room.proofs)
  BY <1>3, DisplacedKeeps
<1> HIDE DEF room
<1>5. Backward(room.proofs)
  BY <1>4, LinkedTypes DEF QueueInv
<1>6. MaxSegments \in Nat /\ MaxSegments > 3
  BY HwProofAssumption
<1>7. CASE prev = 0
  <2>1. TailOK(room.proofs, prev) /\ ItersOf(room.proofs, prev) = 0 /\ QueueInv(room, prev, requests)
    BY <1>4, <1>7 DEF TailOK, ItersOf
  <2>2. Cardinality(Chain(room.proofs, prev)) = 0
    BY <1>5, <1>7, ChainUnfolds, FS_EmptySet
  <2> HIDE DEF prev
  <2>3. Cardinality(Chain(room.proofs, prev)) + 3 <= MaxSegments /\ iters + ItersOf(room.proofs, prev) \in requests
    BY <1>2, <1>6, <2>1, <2>2
  <2>4. QueueInv(next, 0, requests) /\ Continues(room.proofs, next.proofs)
    BY <1>1, <1>2, <1>7, <2>1, <2>3, QueueSegmentsKeeps
  <2> QED BY <1>4, <2>4, ContinuesOn DEF next
<1>8. CASE prev # 0
  <2>1. /\ prev \in Waiting(room.proofs) /\ ~room.proofs[prev].is_req
        /\ room.proofs[prev].iters <= iters /\ Cardinality(Chain(room.proofs, prev)) <= MaxSegments - 3
    BY <1>4, <1>8, BaseIs
  <2> HIDE DEF prev
  <2>2. /\ QueueInv(based, prev, requests) /\ TailOK(based.proofs, prev)
        /\ based.proofs[prev].iters = room.proofs[prev].iters
        /\ Chain(based.proofs, prev) = Chain(room.proofs, prev)
        /\ Continues(room.proofs, based.proofs)
    BY <1>4, <2>1, IncRefKeeps
  <2> HIDE DEF based
  <2>3. room.proofs[prev].iters \in Nat /\ Cardinality(Chain(room.proofs, prev)) \in Nat
    <3>1. room.proofs[prev] \in Proof /\ prev \in 1 .. Len(room.proofs)
      BY <2>1 DEF Waiting, Live
    <3>2. prev \in 0 .. Len(room.proofs)
      BY <1>5, <3>1, BackwardTypes
    <3> QED BY <1>5, <3>1, <3>2, ChainBelow DEF Proof
  <2> DEFINE more == iters - based.proofs[prev].iters
  <2>4. more \in Nat /\ more + ItersOf(based.proofs, prev) = iters
    BY <1>2, <1>8, <2>1, <2>2, <2>3 DEF ItersOf
  <2> HIDE DEF more
  <2>5. Cardinality(Chain(based.proofs, prev)) + 3 <= MaxSegments
    BY <1>6, <2>1, <2>2, <2>3
  <2>6. next = QueueSegments(based, more, prev)
    BY <1>1, <1>8 DEF more
  <2>7. QueueInv(next, 0, requests) /\ Continues(based.proofs, next.proofs)
    BY <1>2, <2>2, <2>4, <2>5, <2>6, QueueSegmentsKeeps
  <2> QED BY <1>4, <2>2, <2>7, ContinuesOn DEF next
<1> QED BY <1>7, <1>8

\* The queue after n turns of the loop that queues requests.
Turn(q) == IF MustQueue(q) THEN hw_proof_process_req(q) ELSE q

Turns(f, q, N) == f = [n \in 0 .. N |-> IF n = 0 THEN q ELSE Once(f[n - 1], Turn)]

\* Queues that the loop may reach from q.
Queues(q, requests) ==
  {r \in [req : Seq(requests), proofs : Seq(Proof \union {Deleted}), queued : Seq(Nat)] :
     QueueInv(r, 0, requests) /\ Continues(q.proofs, r.proofs)}

\* A queue in order that goes on from q is one the loop may reach.
LEMMA InQueues ==
  ASSUME NEW q, NEW r, NEW requests, QueueInv(r, 0, requests), Continues(q.proofs, r.proofs)
  PROVE  r \in Queues(q, requests)
<1>1. r = [req |-> r.req, proofs |-> r.proofs, queued |-> r.queued] /\ r.req \in Seq(requests)
      /\ Linked(r.proofs, requests) /\ InOrder(r.proofs, r.queued)
  BY DEF QueueInv
<1>2. r.proofs \in Seq(Proof \union {Deleted}) /\ r.queued \in Seq(Nat)
  BY <1>1 DEF InOrder, Linked, Backward
<1> DEFINE P == Proof \union {Deleted}
<1>3. r \in [req : Seq(requests), proofs : Seq(P), queued : Seq(Nat)]
  <2> HIDE DEF P
  <2> QED BY <1>1, <1>2 DEF P
<1> QED BY <1>3 DEF Queues

\* A turn of the loop that queues requests.
LEMMA TurnKeeps ==
  ASSUME NEW q, NEW requests, requests \subseteq Nat, NEW r \in Queues(q, requests)
  PROVE  Turn(r) \in Queues(q, requests)
<1>1. QueueInv(r, 0, requests) /\ Continues(q.proofs, r.proofs)
  BY DEF Queues
<1>2. CASE MustQueue(r)
  <2>1. Turn(r) = hw_proof_process_req(r) /\ r.req # << >>
    BY <1>2 DEF Turn, MustQueue
  <2>2. QueueInv(hw_proof_process_req(r), 0, requests) /\ Continues(r.proofs, hw_proof_process_req(r).proofs)
    BY <1>1, <2>1, ProcessReqKeeps
  <2>3. Continues(q.proofs, hw_proof_process_req(r).proofs)
    BY <1>1, <2>2, ContinuesOn
  <2> QED BY <2>1, <2>2, <2>3, InQueues
<1>3. CASE ~MustQueue(r)
  BY <1>3 DEF Turn
<1> QED BY <1>2, <1>3

\* The loop that queues requests keeps the queue in order.
LEMMA QueueRequestsKeeps ==
  ASSUME NEW q, NEW requests, requests \subseteq Nat, QueueInv(q, 0, requests)
  PROVE  /\ QueueInv(QueueRequests(q), 0, requests)
         /\ Continues(q.proofs, QueueRequests(q).proofs)
<1> DEFINE N == Len(q.req) + Len(q.queued) + 1
           V == Queues(q, requests)
           D == [p \in (1 .. N) \X V |-> Turn(p[2])]
           h == CHOOSE f : Turns(f, q, N)
<1>0. N \in Nat
  BY LenProperties DEF QueueInv, InOrder
<1>1. QueueRequests(q) = h[N]
  BY Zenon DEF QueueRequests, Turns, Turn, Once
<1>2. \A r : Once(r, Turn) = Turn(r)
  <2> HIDE DEF Turn
  <2> QED BY DEF Once
<1> HIDE DEF N
<1>3. q \in V
  BY InQueues DEF Continues
<1>4. D \in [(1 .. N) \X V -> V]
  <2>1. ASSUME NEW r \in V PROVE Turn(r) \in V
    BY TurnKeeps
  <2> HIDE DEF V
  <2> QED BY <2>1
<1>5. PICK g \in [0 .. N -> V] : Recurs(g, N, q, D)
  <2> HIDE DEF D, V
  <2> QED BY <1>0, <1>3, <1>4, RecursiveFunction
<1> HIDE DEF V
<1>6. ASSUME NEW n \in 0 .. N PROVE g[n] = IF n = 0 THEN q ELSE Once(g[n - 1], Turn)
  <2>1. CASE n = 0
    BY <1>5, <2>1 DEF Recurs
  <2>2. CASE n # 0
    <3>1. n \in 1 .. N /\ n - 1 \in 0 .. N
      BY <1>0, <2>2
    <3>2. g[n] = D[<<n, g[n - 1]>>] /\ <<n, g[n - 1]>> \in (1 .. N) \X V
      <4> HIDE DEF D
      <4> QED BY <1>5, <3>1 DEF Recurs
    <3>3. D[<<n, g[n - 1]>>] = Turn(g[n - 1])
      BY <3>2
    <3> HIDE DEF D
    <3>4. g[n] = Once(g[n - 1], Turn)
      BY <1>2, <3>2, <3>3, Zenon
    <3> QED BY <2>2, <3>4, Zenon
  <2> QED BY <2>1, <2>2
<1>7. Turns(g, q, N)
  <2>1. g = [n \in 0 .. N |-> g[n]]
    OBVIOUS
  <2>2. g = [n \in 0 .. N |-> IF n = 0 THEN q ELSE Once(g[n - 1], Turn)]
    BY <1>6, <2>1, Zenon
  <2> QED BY <2>2, Zenon DEF Turns
<1>8. Turns(h, q, N)
  BY <1>7, Zenon
<1> HIDE DEF h
<1>9. ASSUME NEW n \in 0 .. N PROVE h[n] = IF n = 0 THEN q ELSE Turn(h[n - 1])
  <2>1. h = [k \in 0 .. N |-> IF k = 0 THEN q ELSE Once(h[k - 1], Turn)]
    BY <1>8, Zenon DEF Turns
  <2>2. h[n] = IF n = 0 THEN q ELSE Once(h[n - 1], Turn)
    BY <2>1, Zenon
  <2> QED BY <1>2, <2>2, Zenon
<1> DEFINE T == {n \in Nat : n <= N => h[n] \in V}
<1>10. 0 \in T
  <2>1. h[0] = q
    BY <1>0, <1>9
  <2> QED BY <1>3, <2>1
<1>11. ASSUME NEW n \in Nat, n \in T PROVE n + 1 \in T
  <2> SUFFICES ASSUME n + 1 <= N PROVE h[n + 1] \in V
    OBVIOUS
  <2>1. h[n] \in V /\ n + 1 \in 0 .. N /\ (n + 1) - 1 = n /\ n + 1 # 0
    BY <1>0, <1>11
  <2>2. h[n + 1] = Turn(h[n])
    BY <1>9, <2>1
  <2> QED BY <2>1, <2>2, TurnKeeps DEF V
<1>12. Nat \subseteq T
  <2> HIDE DEF T
  <2> QED BY <1>10, <1>11, InductiveSet
<1>13. h[N] \in V
  BY <1>0, <1>12
<1> QED BY <1>1, <1>13 DEF V, Queues

----------------------------------------------------------------------------
(***************************************************************************)
(* Flags of proofs                                                         *)
(***************************************************************************)

\* Setting flags keeps the queue in order if started proofs leave it.
LEMMA FlagsKeep ==
  ASSUME NEW q, NEW requests, QueueInv(q, 0, requests), NEW qs, Alike(q.proofs, qs), StartedFirst(qs),
         Waiting(qs) \subseteq Waiting(q.proofs),
         \A j \in Waiting(qs) : qs[j].ref_cnt = q.proofs[j].ref_cnt,
         NEW queue \in Seq(Nat), Elements(queue) = Waiting(qs),
         \A m, n \in 1 .. Len(queue) : m < n => queue[m] # queue[n] /\ q.proofs[queue[m]].prev # queue[n]
  PROVE  QueueInv([req |-> q.req, proofs |-> qs, queued |-> queue], 0, requests)
<1> DEFINE ps == q.proofs
           next == [req |-> q.req, proofs |-> qs, queued |-> queue]
<1>1. q.req \in Seq(requests) /\ Linked(ps, requests) /\ Counted(ps, 0)
  BY DEF QueueInv
<1>2. Backward(ps) /\ Len(ps) \in Nat
  BY <1>1, LinkedTypes, BackwardTypes
<1>3. /\ Linked(qs, requests) /\ Backward(qs) /\ Live(qs) = Live(ps)
      /\ \A j : Holders(qs, j) = Holders(ps, j)
  BY <1>1, <1>2, AlikeLinked, AlikeChains
<1>4. Counted(qs, 0)
  <2>1. ASSUME NEW j \in Waiting(qs) PROVE Referenced(qs, j, 0)
    <3>1. Referenced(ps, j, 0) /\ Chain(ps, 0) = {} /\ Chain(qs, 0) = {}
      BY <1>1, <1>2, <1>3, ChainUnfolds DEF Counted
    <3>2. qs[j].ref_cnt = ps[j].ref_cnt /\ Holders(qs, j) = Holders(ps, j)
      BY <1>3
    <3> QED BY <3>1, <3>2 DEF Referenced
  <2> QED BY <2>1 DEF Counted
<1>5. InOrder(qs, queue)
  <2>1. \A m \in 1 .. Len(queue) : queue[m] \in Waiting(qs) /\ queue[m] \in 1 .. Len(ps)
    <3>1. \A m \in 1 .. Len(queue) : queue[m] \in Waiting(qs)
      BY DEF Elements
    <3>2. \A j \in Waiting(qs) : j \in 1 .. Len(ps)
      BY <1>3 DEF Waiting, Live
    <3> QED BY <3>1, <3>2
  <2>2. \A m \in 1 .. Len(queue) : qs[queue[m]].prev = ps[queue[m]].prev
    BY <2>1 DEF Alike
  <2> QED BY <2>2 DEF InOrder
<1>6. next.req = q.req /\ next.proofs = qs /\ next.queued = queue
      /\ next = [req |-> next.req, proofs |-> next.proofs, queued |-> next.queued]
  OBVIOUS
<1> HIDE DEF next
<1>7. QueueInv(next, 0, requests)
  BY <1>1, <1>3, <1>4, <1>5, <1>6 DEF QueueInv
<1> QED BY <1>7 DEF next

\* The proofs when the first n of the queue are started.
StartedTo(ps, queue, n) ==
  [j \in DOMAIN ps |->
     IF \E m \in 1 .. n : queue[m] = j THEN [ps[j] EXCEPT !.started = TRUE] ELSE ps[j]]

\* The first n of the queue are started and leave it.
LEMMA StartKeeps ==
  ASSUME NEW q, NEW requests, QueueInv(q, 0, requests), NEW n \in 0 .. Len(q.queued)
  PROVE  LET qs == StartedTo(q.proofs, q.queued, n)
         IN  /\ QueueInv([req |-> q.req, proofs |-> qs,
                          queued |-> SubSeq(q.queued, n + 1, Len(q.queued))], 0, requests)
             /\ Continues(q.proofs, qs)
             /\ \A m \in 1 .. n : q.queued[m] \in Started(qs)
<1> DEFINE ps == q.proofs
           L == Len(q.queued)
           first == {q.queued[m] : m \in 1 .. n}
           qs == StartedTo(ps, q.queued, n)
           queue == SubSeq(q.queued, n + 1, L)
<1>1. /\ q.req \in Seq(requests) /\ Linked(ps, requests) /\ Counted(ps, 0) /\ InOrder(ps, q.queued)
  BY DEF QueueInv
<1>2. Backward(ps) /\ Len(ps) \in Nat /\ DOMAIN ps = 1 .. Len(ps) /\ StartedFirst(ps)
  BY <1>1, LinkedTypes, BackwardTypes
<1>3. /\ q.queued \in Seq(Nat) /\ L \in Nat /\ Elements(q.queued) = Waiting(ps)
      /\ \A m \in 1 .. L : q.queued[m] \in Waiting(ps) /\ q.queued[m] \in Nat
      /\ \A k, m \in 1 .. L : k < m => q.queued[k] # q.queued[m] /\ ps[q.queued[k]].prev # q.queued[m]
  <2>1. /\ q.queued \in Seq(Nat) /\ Elements(q.queued) = Waiting(ps)
        /\ \A k, m \in 1 .. L : k < m => q.queued[k] # q.queued[m] /\ ps[q.queued[k]].prev # q.queued[m]
    BY <1>1 DEF InOrder
  <2>2. L \in Nat /\ \A m \in 1 .. L : q.queued[m] \in Nat
    BY <2>1, LenProperties, ElementOfSeq
  <2>3. \A m \in 1 .. L : q.queued[m] \in Waiting(ps)
    BY <2>1 DEF Elements
  <2> QED BY <2>1, <2>2, <2>3
<1>4. first \subseteq Waiting(ps)
  <2>1. \A m \in 1 .. n : m \in 1 .. L
    BY <1>3
  <2>2. \A m \in 1 .. n : q.queued[m] \in Waiting(ps)
    BY <1>3, <2>1, Zenon
  <2> QED BY <2>2
<1>5. qs = [j \in 1 .. Len(ps) |-> IF j \in first THEN [ps[j] EXCEPT !.started = TRUE] ELSE ps[j]]
  BY <1>2 DEF StartedTo
<1> HIDE DEF qs
<1>6. ASSUME NEW j \in 1 .. Len(ps)
      PROVE  /\ qs[j] \in Proof \union {Deleted} /\ (qs[j] \in Proof <=> ps[j] \in Proof)
             /\ qs[j].iters = ps[j].iters /\ qs[j].seg_iters = ps[j].seg_iters
             /\ qs[j].prev = ps[j].prev /\ qs[j].is_req = ps[j].is_req
             /\ qs[j].done = ps[j].done /\ qs[j].ref_cnt = ps[j].ref_cnt
             /\ j \in first => qs[j].started
             /\ j \notin first => qs[j].started = ps[j].started
  <2>1. CASE j \in first
    <3>1. ps[j] \in Proof
      BY <1>4, <2>1 DEF Live, Waiting
    <3> HIDE DEF first
    <3>2. qs[j] = [ps[j] EXCEPT !.started = TRUE]
      BY <1>5, <2>1
    <3>3. qs[j] \in Proof
      BY <3>1, <3>2 DEF Proof
    <3>4. /\ qs[j].iters = ps[j].iters /\ qs[j].seg_iters = ps[j].seg_iters
          /\ qs[j].prev = ps[j].prev /\ qs[j].is_req = ps[j].is_req
          /\ qs[j].done = ps[j].done /\ qs[j].ref_cnt = ps[j].ref_cnt /\ qs[j].started
      BY <3>1, <3>2 DEF Proof
    <3> HIDE DEF Proof
    <3> QED BY <2>1, <3>1, <3>3, <3>4
  <2>2. CASE j \notin first
    <3> HIDE DEF first
    <3>1. qs[j] = ps[j]
      BY <1>5, <2>2
    <3>2. ps[j] \in Proof \/ ps[j] = Deleted
      BY <1>2, BackwardTypes
    <3> HIDE DEF Proof, Deleted
    <3> QED BY <2>2, <3>1, <3>2
  <2> QED BY <2>1, <2>2
<1>7. qs \in Seq(Proof \union {Deleted}) /\ Len(qs) = Len(ps)
  <2> HIDE DEF Proof, Deleted, first
  <2>1. qs \in [1 .. Len(ps) -> Proof \union {Deleted}]
    <3>1. DOMAIN qs = 1 .. Len(ps) /\ qs = [j \in 1 .. Len(ps) |-> qs[j]]
      BY <1>5
    <3> QED BY <1>6, <3>1
  <2> QED BY <1>2, <2>1, SeqDef
<1>8. Alike(ps, qs)
  <2> HIDE DEF Proof, Deleted, first
  <2> QED BY <1>6, <1>7 DEF Alike
<1>9. Live(qs) = Live(ps) /\ \A j \in Live(ps) : j \in 1 .. Len(ps)
  <2>1. Live(qs) = Live(ps)
    BY <1>2, <1>8, AlikeChains
  <2> QED BY <2>1 DEF Live
<1>10. Waiting(qs) = Waiting(ps) \ first
  <2> HIDE DEF first
  <2> QED BY <1>6, <1>9 DEF Waiting
<1>11. StartedFirst(qs)
  <2> SUFFICES ASSUME NEW j \in 1 .. Len(ps), qs[j].started, qs[j].prev # 0
               PROVE  qs[qs[j].prev].started
    BY <1>7 DEF StartedFirst
  <2> DEFINE p == ps[j].prev
  <2>1. p \in 1 .. Len(ps) /\ qs[j].prev = p
    BY <1>2, <1>6, BackwardTypes
  <2>2. CASE j \notin first
    <3> HIDE DEF first
    <3>1. ps[j].started /\ ps[j].prev # 0
      BY <1>6, <2>1, <2>2
    <3>2. ps[p].started
      BY <1>2, <3>1 DEF StartedFirst
    <3> QED BY <1>6, <2>1, <3>2
  <2>3. CASE j \in first
    <3>1. PICK m \in 1 .. n : q.queued[m] = j
      BY <2>3
    <3>2. m \in 1 .. L
      BY <1>3, <3>1
    <3>3. j \in Live(ps) /\ p \in Live(ps)
      <4>1. j \in Live(ps)
        BY <1>4, <2>3 DEF Waiting
      <4> QED BY <1>1, <1>6, <4>1, LinkedTypes DEF LinkOK
    <3>4. CASE ps[p].started
      <4> HIDE DEF first
      <4> QED BY <1>6, <2>1, <3>4
    <3>5. CASE ~ps[p].started
      <4>1. p \in Waiting(ps)
        BY <3>3, <3>5 DEF Waiting
      <4>2. PICK k \in 1 .. L : q.queued[k] = p
        BY <1>3, <4>1 DEF Elements
      <4>3. ~(m < k)
        BY <1>3, <3>1, <3>2, <4>2
      <4>4. k \in 1 .. n
        BY <1>3, <3>2, <4>2, <4>3
      <4>5. p \in first
        BY <4>2, <4>4
      <4> HIDE DEF first
      <4> QED BY <1>6, <2>1, <4>5
    <3> QED BY <3>4, <3>5
  <2> QED BY <2>2, <2>3
<1>12. /\ queue \in Seq(Nat) /\ Len(queue) = L - n /\ Len(queue) \in Nat
       /\ \A m \in 1 .. Len(queue) : queue[m] = q.queued[n + m] /\ n + m \in 1 .. L
  <2>1. n + 1 \in 1 .. L + 1 /\ L \in n .. L
    BY <1>3
  <2>2. n \in Nat /\ L \in Nat /\ n <= L
    BY <1>3
  <2>3. queue \in Seq(Nat)
    <3> HIDE DEF L
    <3> QED BY <1>3, <2>1, SubSeqProperties DEF L
  <2>4. Len(queue) = L - n /\ \A m \in 1 .. L - n : queue[m] = q.queued[n + m]
    BY <1>3, <2>2
  <2> QED BY <2>2, <2>3, <2>4
<1> HIDE DEF queue
<1>13. Elements(queue) = Waiting(ps) \ first
  <2>1. ASSUME NEW m \in 1 .. Len(queue) PROVE queue[m] \in Waiting(ps) \ first
    <3>1. queue[m] = q.queued[n + m] /\ n + m \in 1 .. L
      BY <1>12
    <3>2. \A k \in 1 .. n : q.queued[k] # q.queued[n + m]
      <4>1. \A k \in 1 .. n : k < n + m /\ k \in 1 .. L
        BY <1>3, <1>12, <3>1
      <4> QED BY <1>3, <3>1, <4>1
    <3> QED BY <1>3, <3>1, <3>2
  <2>2. ASSUME NEW j \in Waiting(ps) \ first PROVE \E m \in 1 .. Len(queue) : queue[m] = j
    <3>1. PICK k \in 1 .. L : q.queued[k] = j
      BY <1>3 DEF Elements
    <3>2. ~(k <= n)
      BY <3>1
    <3>3. k - n \in 1 .. Len(queue) /\ n + (k - n) = k
      BY <1>3, <1>12, <3>1, <3>2
    <3> QED BY <1>12, <3>1, <3>3
  <2> HIDE DEF first
  <2> QED BY <2>1, <2>2 DEF Elements
<1>14. \A k, m \in 1 .. Len(queue) : k < m => queue[k] # queue[m] /\ ps[queue[k]].prev # queue[m]
  <2> SUFFICES ASSUME NEW k \in 1 .. Len(queue), NEW m \in 1 .. Len(queue), k < m
               PROVE  queue[k] # queue[m] /\ ps[queue[k]].prev # queue[m]
    OBVIOUS
  <2>1. n + k \in 1 .. L /\ n + m \in 1 .. L /\ n + k < n + m
    BY <1>12
  <2>2. queue[k] = q.queued[n + k] /\ queue[m] = q.queued[n + m]
    BY <1>12
  <2> DEFINE a == n + k
             b == n + m
  <2> HIDE DEF a, b, L
  <2>3. a \in 1 .. L /\ b \in 1 .. L /\ a < b
    BY <2>1 DEF a, b
  <2>4. q.queued[a] # q.queued[b] /\ ps[q.queued[a]].prev # q.queued[b]
    BY <1>3, <2>3, Zenon
  <2> QED BY <2>2, <2>4 DEF a, b
<1>15. \A j \in Waiting(qs) : qs[j].ref_cnt = ps[j].ref_cnt
  BY <1>6, <1>9 DEF Waiting
<1>16. QueueInv([req |-> q.req, proofs |-> qs, queued |-> queue], 0, requests)
  <2> HIDE DEF first
  <2> QED BY <1>8, <1>10, <1>11, <1>12, <1>13, <1>14, <1>15, FlagsKeep
<1>17. Continues(ps, qs)
  <2>1. \A j \in Started(ps) : j \in 1 .. Len(ps) /\ j \in Live(ps) /\ j \notin Waiting(ps)
    BY <1>9 DEF Started, Waiting
  <2>2. \A j \in Started(ps) : ps[j].started /\ j \notin first
    BY <1>4, <2>1 DEF Started
  <2> HIDE DEF first
  <2> QED BY <1>6, <1>9, <2>1, <2>2 DEF Continues, Started
<1>18. \A m \in 1 .. n : q.queued[m] \in Started(qs)
  <2>1. \A j \in first : j \in Live(ps)
    BY <1>4 DEF Waiting
  <2>2. \A j \in first : j \in Started(qs)
    <3> HIDE DEF first
    <3> QED BY <1>6, <1>9, <2>1 DEF Started
  <2> QED BY <2>2
<1> QED BY <1>16, <1>17, <1>18 DEF qs, queue

----------------------------------------------------------------------------
(***************************************************************************)
(* The actions                                                             *)
(***************************************************************************)

\* What was finished stays finished.
LEMMA ContinuesFinished ==
  ASSUME NEW ps, NEW qs, Continues(ps, qs)
  PROVE  Seq(Finished(ps)) \subseteq Seq(Finished(qs)) /\ Started(ps) \subseteq Started(qs)
<1>1. Finished(ps) \subseteq Finished(qs) /\ Started(ps) \subseteq Started(qs)
  BY DEF Continues, Finished
<1>2. ASSUME NEW s \in Seq(Finished(ps)) PROVE s \in Seq(Finished(qs))
  <2>1. Len(s) \in Nat /\ s \in [1 .. Len(s) -> Finished(ps)]
    BY LenProperties
  <2>2. s \in [1 .. Len(s) -> Finished(qs)]
    BY <1>1, <2>1
  <2> QED BY <2>1, <2>2, SeqDef
<1> QED BY <1>1, <1>2

\* Sets of threads can be counted.
LEMMA ThreadsFinite ==
  ASSUME NEW S, S \subseteq Threads
  PROVE  IsFiniteSet(S) /\ Cardinality(S) \in Nat /\ (S # {} => Cardinality(S) >= 1)
<1>1. IsFiniteSet(Threads)
  BY FS_Interval, HwProofAssumption DEF Threads
<1>2. IsFiniteSet(S) /\ Cardinality(S) \in Nat
  BY <1>1, FS_Subset, FS_CardinalityType
<1>3. S # {} => Cardinality(S) # 0
  BY <1>2, FS_EmptySet
<1> QED BY <1>2, <1>3

\* Requests are for naturals.
LEMMA AskedAreNat ==
  ASSUME TypesOK
  PROVE  asked \subseteq Nat
  BY HwProofAssumption DEF TypesOK

\* Free threads are started on queued proofs and on work.
LEMMA ProcessWorkKeeps ==
  ASSUME TypesOK, QueueInv(Q, 0, asked), ThreadInv, NEW work \in Seq([first : Int, last : Int]),
         hw_proof_process_work(work), UNCHANGED <<pushing, asked>>
  PROVE  /\ QueueInv(Q', 0, asked) /\ Continues(proofs, proofs') /\ ThreadInv'
         /\ thread' \in [Threads -> Job] /\ wq' \in Seq([first : Int, last : Int])
<1> DEFINE free == {i \in Threads : ~Busy(i)}
           rank(i) == Cardinality({j \in free : j <= i})
           Starts(r) == {n \in 0 .. Cardinality(free) : \A m \in 1 .. n : MayStart(r, m)}
           Proofs(r) == CHOOSE n \in Starts(r) : \A m \in Starts(r) : m <= n
           Rest(r) == Cardinality(free) - Proofs(r)
           Work(r) == IF Rest(r) < Len(work) THEN Rest(r) ELSE Len(work)
           Steps(r) ==
             /\ req_proofs' = r.req
             /\ queued_proofs' = SubSeq(r.queued, Proofs(r) + 1, Len(r.queued))
             /\ proofs' = StartedTo(r.proofs, r.queued, Proofs(r))
             /\ thread' = [i \in Threads |->
                  IF i \notin free \/ rank(i) > Proofs(r) + Work(r) THEN thread[i]
                  ELSE IF rank(i) <= Proofs(r)
                    THEN [kind |-> "wait", idx |-> r.queued[rank(i)]]
                  ELSE [kind |-> "values", next |-> work[rank(i) - Proofs(r)].first,
                        last |-> work[rank(i) - Proofs(r)].last]]
             /\ wq' = SubSeq(work, Work(r) + 1, Len(work))
           q == QueueRequests([req |-> req_proofs, proofs |-> proofs, queued |-> queued_proofs])
           starts == Starts(q)
           n_proofs == Proofs(q)
           rest == Rest(q)
           n_work == Work(q)
<1>0. Steps(q)
  <2>1. \E r \in {q} : Steps(r)
    BY Zenon DEF hw_proof_process_work, StartedTo
  <2> HIDE DEF q, Steps
  <2> QED BY <2>1
<1>1. /\ req_proofs' = q.req
      /\ queued_proofs' = SubSeq(q.queued, n_proofs + 1, Len(q.queued))
      /\ proofs' = StartedTo(q.proofs, q.queued, n_proofs)
      /\ thread' = [i \in Threads |->
           IF i \notin free \/ rank(i) > n_proofs + n_work THEN thread[i]
           ELSE IF rank(i) <= n_proofs
             THEN [kind |-> "wait", idx |-> q.queued[rank(i)]]
           ELSE [kind |-> "values", next |-> work[rank(i) - n_proofs].first,
                 last |-> work[rank(i) - n_proofs].last]]
      /\ wq' = SubSeq(work, n_work + 1, Len(work))
  <2> HIDE DEF q, Proofs, Work, free, rank
  <2> QED BY <1>0, Zenon
<1>2. QueueInv(q, 0, asked) /\ Continues(proofs, q.proofs)
  <2> DEFINE r == [req |-> req_proofs, proofs |-> proofs, queued |-> queued_proofs]
  <2>1. QueueInv(r, 0, asked) /\ r.proofs = proofs
    BY DEF Q
  <2> HIDE DEF r
  <2> QED BY <2>1, AskedAreNat, QueueRequestsKeeps DEF r
<1> HIDE DEF q
<1>3. /\ q.queued \in Seq(Nat) /\ Len(q.queued) \in Nat /\ Len(work) \in Nat
      /\ \A m \in 1 .. Len(q.queued) : q.queued[m] \in Nat
      /\ \A m \in 1 .. Len(work) : work[m] \in [first : Int, last : Int]
  <2>1. q.queued \in Seq(Nat)
    BY <1>2 DEF QueueInv, InOrder
  <2> DEFINE W == [first : Int, last : Int]
  <2>2. \A m \in 1 .. Len(work) : work[m] \in W
    <3> HIDE DEF W
    <3> QED BY ElementOfSeq DEF W
  <2> QED BY <2>1, <2>2, LenProperties, ElementOfSeq
<1>4. Cardinality(free) \in Nat /\ \A i \in free : rank(i) \in Nat \ {0}
  <2>1. Cardinality(free) \in Nat
    BY ThreadsFinite
  <2>2. ASSUME NEW i \in free PROVE rank(i) \in Nat \ {0}
    <3> DEFINE S == {j \in free : j <= i}
    <3>1. S \subseteq Threads
      OBVIOUS
    <3>2. i \in S
      BY HwProofAssumption DEF Threads
    <3> HIDE DEF S
    <3>3. Cardinality(S) \in Nat \ {0}
      BY <3>1, <3>2, ThreadsFinite
    <3> QED BY <3>3, Zenon DEF S
  <2> QED BY <2>1, <2>2
<1>5. n_proofs \in 0 .. Len(q.queued) /\ n_proofs \in 0 .. Cardinality(free)
  <2>1. starts \subseteq Nat /\ 0 \in starts /\ \A n \in starts : n <= Cardinality(free)
    <3> HIDE DEF free
    <3> QED BY <1>4
  <2>2. \E n \in starts : \A m \in starts : m <= n
    <3> HIDE DEF starts, free
    <3> QED BY <1>4, <2>1, GreatestNatural
  <2>3. n_proofs \in starts
    <3> DEFINE S == starts
    <3>1. n_proofs = CHOOSE n \in S : \A m \in S : m <= n
      BY Zenon
    <3> HIDE DEF S, n_proofs, starts, Starts
    <3>2. \E n \in S : \A m \in S : m <= n
      BY <2>2 DEF S
    <3>3. (CHOOSE n \in S : \A m \in S : m <= n) \in S
      BY <3>2, Zenon
    <3>4. n_proofs \in S
      BY <3>1, <3>3
    <3> QED BY <3>4 DEF S
  <2> HIDE DEF n_proofs
  <2>4. n_proofs \in 0 .. Cardinality(free) /\ \A m \in 1 .. n_proofs : MayStart(q, m)
    BY <2>3
  <2>5. CASE n_proofs = 0
    BY <1>3, <2>4, <2>5
  <2>6. CASE n_proofs # 0
    <3> HIDE DEF free
    <3>1. n_proofs \in 1 .. n_proofs
      BY <1>4, <2>4, <2>6
    <3>2. n_proofs <= Len(q.queued)
      BY <2>4, <3>1 DEF MayStart
    <3> QED BY <1>3, <1>4, <2>4, <3>2
  <2> QED BY <2>5, <2>6
<1> HIDE DEF n_proofs, starts
<1>6. n_work \in Nat /\ n_work <= Len(work)
  <2>1. n_work = IF Cardinality(free) - n_proofs < Len(work) THEN Cardinality(free) - n_proofs ELSE Len(work)
    BY DEF n_proofs
  <2> HIDE DEF free, n_work
  <2> QED BY <1>3, <1>4, <1>5, <2>1
<1> HIDE DEF n_work
<1>7. /\ QueueInv(Q', 0, asked) /\ Continues(proofs, proofs')
      /\ \A m \in 1 .. n_proofs : q.queued[m] \in Started(proofs')
  <2> DEFINE qs == StartedTo(q.proofs, q.queued, n_proofs)
             r == [req |-> q.req, proofs |-> qs, queued |-> SubSeq(q.queued, n_proofs + 1, Len(q.queued))]
  <2>1. QueueInv(r, 0, asked) /\ Continues(q.proofs, qs) /\ \A m \in 1 .. n_proofs : q.queued[m] \in Started(qs)
    BY <1>2, <1>5, StartKeeps
  <2>2. Q' = r
    BY <1>1 DEF Q
  <2> HIDE DEF r, qs
  <2>3. Continues(proofs, qs)
    BY <1>2, <2>1, ContinuesOn
  <2> QED BY <1>1, <2>1, <2>2, <2>3 DEF qs
<1>8. wq' \in Seq([first : Int, last : Int])
  <2> DEFINE W == [first : Int, last : Int]
  <2>1. work \in Seq(W) /\ n_work + 1 \in 1 .. Len(work) + 1 /\ Len(work) \in n_work .. Len(work)
    BY <1>3, <1>6
  <2> HIDE DEF W
  <2>2. SubSeq(work, n_work + 1, Len(work)) \in Seq(W)
    BY <2>1, SubSeqProperties
  <2> QED BY <1>1, <2>2 DEF W
<1>9. ASSUME NEW i \in Threads
      PROVE  \/ thread'[i] = thread[i] /\ thread[i] \in Job
             \/ /\ thread[i] = Idle /\ thread'[i].kind = "wait" /\ thread'[i] \in Job
                /\ thread'[i].idx \in Started(proofs')
             \/ thread[i] = Idle /\ thread'[i].kind = "values" /\ thread'[i] \in Job
  <2>1. thread'[i] = IF i \notin free \/ rank(i) > n_proofs + n_work THEN thread[i]
           ELSE IF rank(i) <= n_proofs
             THEN [kind |-> "wait", idx |-> q.queued[rank(i)]]
           ELSE [kind |-> "values", next |-> work[rank(i) - n_proofs].first,
                 last |-> work[rank(i) - n_proofs].last]
    BY <1>1, Zenon
  <2>2. thread[i] \in Job
    BY DEF TypesOK
  <2>3. i \in free => thread[i] = Idle
    BY DEF Busy
  <2>4. CASE i \notin free \/ rank(i) > n_proofs + n_work
    BY <2>1, <2>2, <2>4, Zenon
  <2>5. CASE i \in free /\ ~(rank(i) > n_proofs + n_work) /\ rank(i) <= n_proofs
    <3>1. thread'[i] = [kind |-> "wait", idx |-> q.queued[rank(i)]]
      BY <2>1, <2>5, Zenon
    <3> DEFINE k == rank(i)
    <3>2. k \in Nat \ {0} /\ k <= n_proofs
      BY <1>4, <2>5
    <3> HIDE DEF k
    <3>3. k \in 1 .. n_proofs /\ k \in 1 .. Len(q.queued)
      BY <1>3, <1>5, <3>2
    <3>4. q.queued[k] \in Nat /\ q.queued[k] \in Started(proofs')
      BY <1>3, <1>7, <3>3
    <3>5. thread'[i] = [kind |-> "wait", idx |-> q.queued[k]]
      BY <3>1 DEF k
    <3> HIDE DEF free
    <3> QED BY <2>3, <2>5, <3>4, <3>5 DEF Job
  <2>6. CASE i \in free /\ ~(rank(i) > n_proofs + n_work) /\ ~(rank(i) <= n_proofs)
    <3>1. thread'[i] = [kind |-> "values", next |-> work[rank(i) - n_proofs].first,
                        last |-> work[rank(i) - n_proofs].last]
      BY <2>1, <2>6, Zenon
    <3> DEFINE k == rank(i)
    <3>2. k \in Nat \ {0} /\ ~(k > n_proofs + n_work) /\ ~(k <= n_proofs)
      BY <1>4, <2>6
    <3>3. thread'[i] = [kind |-> "values", next |-> work[k - n_proofs].first, last |-> work[k - n_proofs].last]
      BY <3>1
    <3> HIDE DEF k
    <3>4. k - n_proofs \in 1 .. Len(work)
      BY <1>3, <1>5, <1>6, <3>2
    <3>5. work[k - n_proofs].first \in Int /\ work[k - n_proofs].last \in Int
      BY <1>3, <3>4
    <3> HIDE DEF free
    <3> QED BY <2>3, <2>6, <3>3, <3>5 DEF Job
  <2> QED BY <2>4, <2>5, <2>6
<1>10. thread' \in [Threads -> Job]
  <2>1. DOMAIN thread' = Threads /\ thread' = [i \in Threads |-> thread'[i]]
    BY <1>1
  <2>2. \A i \in Threads : thread'[i] \in Job
    BY <1>9
  <2> HIDE DEF Job
  <2> QED BY <2>1, <2>2
<1>11. ThreadInv'
  <2>0. Started(proofs) \subseteq Started(proofs')
    BY <1>7, ContinuesFinished
  <2>1. ASSUME NEW i \in Threads, thread'[i].kind \in {"wait", "proved", "push"}
        PROVE  thread'[i].idx \in Started(proofs')
    <3>1. CASE thread'[i] = thread[i]
      BY <2>0, <2>1, <3>1 DEF ThreadInv
    <3>2. CASE thread'[i] # thread[i]
      BY <1>9, <2>1, <3>2
    <3> QED BY <3>1, <3>2
  <2>2. ASSUME NEW i \in Threads PROVE thread'[i].kind = "push" <=> thread[i].kind = "push"
    BY <1>9 DEF Idle
  <2>3. ASSUME NEW i \in Threads, thread'[i].kind = "push"
        PROVE  /\ HoldsResizeMutex' /\ proofs'[thread'[i].idx].is_req
               /\ \A k \in Threads : thread'[k].kind = "push" => k = i
    <3>1. thread'[i] = thread[i] /\ thread[i].kind = "push"
      BY <1>9, <2>3
    <3>2. HoldsResizeMutex /\ proofs[thread[i].idx].is_req /\ thread[i].idx \in Started(proofs)
      BY <3>1 DEF ThreadInv
    <3>3. proofs'[thread[i].idx].is_req
      BY <1>7, <3>2 DEF Continues
    <3> QED BY <2>2, <3>1, <3>2, <3>3 DEF ThreadInv, HoldsResizeMutex
  <2>4. HoldsResizeMutex' => \E i \in Threads : thread'[i].kind = "push"
    BY <2>2 DEF ThreadInv, HoldsResizeMutex
  <2> QED BY <2>1, <2>3, <2>4 DEF ThreadInv
<1> QED BY <1>7, <1>8, <1>10, <1>11

----------------------------------------------------------------------------
(***************************************************************************)
(* The segments that are sent                                              *)
(***************************************************************************)

IsSum(f, s) == f = [n \in 0 .. Len(s) |-> IF n = 0 THEN 0 ELSE f[n - 1] + s[n]]

SumTo(s) == CHOOSE f : IsSum(f, s)

\* The sums that SentProofsWhole speaks of exist and add one element each.
LEMMA SumUnfolds ==
  ASSUME NEW s \in Seq(Nat)
  PROVE  /\ Len(s) \in Nat /\ SumTo(s)[0] = 0
         /\ \A n \in 1 .. Len(s) : SumTo(s)[n] = SumTo(s)[n - 1] + s[n]
         /\ \A n \in 0 .. Len(s) : SumTo(s)[n] \in Nat
<1> DEFINE N == Len(s)
           D == [p \in (1 .. N) \X Nat |-> p[2] + s[p[1]]]
           h == SumTo(s)
<1>0. N \in Nat /\ \A n \in 1 .. N : s[n] \in Nat
  BY LenProperties, ElementOfSeq
<1>1. D \in [(1 .. N) \X Nat -> Nat]
  BY <1>0
<1>2. PICK g \in [0 .. N -> Nat] : Recurs(g, N, 0, D)
  <2> HIDE DEF D, N
  <2> QED BY <1>0, <1>1, RecursiveFunction
<1>3. ASSUME NEW n \in 0 .. N PROVE g[n] = IF n = 0 THEN 0 ELSE g[n - 1] + s[n]
  <2>1. CASE n = 0
    BY <1>2, <2>1 DEF Recurs
  <2>2. CASE n # 0
    <3>1. n \in 1 .. N /\ n - 1 \in 0 .. N
      BY <1>0, <2>2
    <3>2. g[n] = D[<<n, g[n - 1]>>] /\ <<n, g[n - 1]>> \in (1 .. N) \X Nat
      <4> HIDE DEF D
      <4> QED BY <1>2, <3>1 DEF Recurs
    <3>3. D[<<n, g[n - 1]>>] = g[n - 1] + s[n]
      BY <3>2
    <3> HIDE DEF D
    <3> QED BY <2>2, <3>2, <3>3
  <2> QED BY <2>1, <2>2
<1>4. IsSum(g, s)
  <2>1. g = [n \in 0 .. N |-> g[n]]
    OBVIOUS
  <2>2. g = [n \in 0 .. N |-> IF n = 0 THEN 0 ELSE g[n - 1] + s[n]]
    <3> HIDE DEF N
    <3> QED BY <1>3, <2>1
  <2> QED BY <2>2, Zenon DEF IsSum
<1>5. IsSum(h, s)
  BY <1>4, Zenon DEF SumTo
<1> HIDE DEF h
<1>6. ASSUME NEW n \in 0 .. N PROVE h[n] = IF n = 0 THEN 0 ELSE h[n - 1] + s[n]
  <2>1. h = [k \in 0 .. N |-> IF k = 0 THEN 0 ELSE h[k - 1] + s[k]]
    BY <1>5, Zenon DEF IsSum
  <2> QED BY <2>1, Zenon
<1>7. h[0] = 0 /\ \A n \in 1 .. N : h[n] = h[n - 1] + s[n]
  BY <1>0, <1>6
<1> DEFINE T == {n \in Nat : n <= N => h[n] \in Nat}
<1>8. Nat \subseteq T
  <2>1. 0 \in T
    BY <1>7
  <2>2. ASSUME NEW n \in Nat, n \in T PROVE n + 1 \in T
    <3> SUFFICES ASSUME n + 1 <= N PROVE h[n + 1] \in Nat
      OBVIOUS
    <3>1. h[n] \in Nat /\ n + 1 \in 1 .. N /\ (n + 1) - 1 = n
      BY <1>0, <2>2
    <3>2. h[n + 1] = h[n] + s[n + 1] /\ s[n + 1] \in Nat
      BY <1>0, <1>7, <3>1
    <3> QED BY <3>1, <3>2
  <2> HIDE DEF T
  <2> QED BY <2>1, <2>2, InductiveSet
<1>9. \A n \in 0 .. N : h[n] \in Nat
  BY <1>0, <1>8
<1> QED BY <1>0, <1>7, <1>9 DEF h

\* The sum of a sequence that gets a first element.
LEMMA SumOfConcat ==
  ASSUME NEW a \in Nat, NEW s \in Seq(Nat)
  PROVE  /\ <<a>> \o s \in Seq(Nat)
         /\ SumTo(<<a>> \o s)[Len(<<a>> \o s)] = a + SumTo(s)[Len(s)]
<1> DEFINE t == <<a>> \o s
           N == Len(s)
<1>1. t \in Seq(Nat) /\ N \in Nat /\ Len(t) = N + 1 /\ t[1] = a /\ \A n \in 1 .. N : t[n + 1] = s[n]
  OBVIOUS
<1> HIDE DEF t
<1> DEFINE f == SumTo(s)
           g == SumTo(t)
           T == {n \in Nat : n <= N => g[n + 1] = a + f[n]}
<1>2. f[0] = 0 /\ (\A n \in 1 .. N : f[n] = f[n - 1] + s[n]) /\ \A n \in 0 .. N : f[n] \in Nat
  BY SumUnfolds
<1>3. g[0] = 0 /\ (\A n \in 1 .. N + 1 : g[n] = g[n - 1] + t[n]) /\ \A n \in 0 .. N + 1 : g[n] \in Nat
  BY <1>1, SumUnfolds
<1> HIDE DEF f, g, N
<1>4. 0 \in T
  BY <1>1, <1>2, <1>3
<1>5. ASSUME NEW n \in Nat, n \in T PROVE n + 1 \in T
  <2> SUFFICES ASSUME n + 1 <= N PROVE g[n + 2] = a + f[n + 1]
    OBVIOUS
  <2>1. n + 1 \in 1 .. N /\ n + 2 \in 1 .. N + 1 /\ n \in 0 .. N /\ (n + 2) - 1 = n + 1 /\ (n + 1) - 1 = n
        /\ (n + 1) + 1 = n + 2
    BY <1>1
  <2>2. g[n + 2] = g[n + 1] + t[n + 2]
    BY <1>3, <2>1
  <2>3. f[n + 1] = f[n] + s[n + 1]
    BY <1>2, <2>1
  <2>4. t[n + 2] = s[n + 1]
    BY <1>1, <2>1
  <2>5. g[n + 1] = a + f[n]
    BY <1>1, <1>5
  <2>6. f[n] \in Nat /\ s[n + 1] \in Nat
    BY <2>1, <1>2, ElementOfSeq DEF N
  <2> QED BY <2>2, <2>3, <2>4, <2>5, <2>6
<1>6. Nat \subseteq T
  <2> HIDE DEF T
  <2> QED BY <1>4, <1>5, InductiveSet
<1>7. g[N + 1] = a + f[N]
  BY <1>1, <1>6
<1> QED BY <1>1, <1>7 DEF f, g, N, t

IsSegments(f, ps) ==
  f = [j \in 0 .. Len(ps) |-> IF j = 0 THEN << >> ELSE <<ps[j].seg_iters>> \o f[ps[j].prev]]

\* The function that Segments chooses exists.
LEMMA SegmentsExist ==
  ASSUME NEW ps, Backward(ps)
  PROVE  \E f : IsSegments(f, ps)
<1> DEFINE N == Len(ps)
           Step(f, j) == IF j = 0 THEN << >> ELSE <<ps[j].seg_iters>> \o f[ps[j].prev]
           Upto(f, n) == DOMAIN f = 0 .. n /\ \A j \in 0 .. n : f[j] = Step(f, j)
           T == {n \in Nat : n <= N => \E f : Upto(f, n)}
<1>0. N \in Nat /\ \A j \in 1 .. N : ps[j].prev \in 0 .. j - 1
  BY BackwardTypes
<1>1. 0 \in T
  <2> DEFINE f == [j \in 0 .. 0 |-> << >>]
  <2>1. DOMAIN f = 0 .. 0 /\ \A j \in 0 .. 0 : j = 0 /\ f[j] = << >>
    OBVIOUS
  <2> HIDE DEF f
  <2>2. Upto(f, 0)
    BY <2>1
  <2> QED BY <2>2
<1>2. ASSUME NEW n \in Nat, n \in T PROVE n + 1 \in T
  <2> SUFFICES ASSUME n + 1 <= N PROVE \E g : Upto(g, n + 1)
    OBVIOUS
  <2>1. PICK f : Upto(f, n)
    BY <1>0, <1>2
  <2> DEFINE g == [j \in 0 .. n + 1 |-> IF j = n + 1 THEN Step(f, n + 1) ELSE f[j]]
  <2>2. ASSUME NEW j \in 0 .. n + 1 PROVE g[j] = Step(g, j)
    <3>1. ASSUME j # 0 PROVE j \in 1 .. N /\ ps[j].prev \in 0 .. n /\ g[ps[j].prev] = f[ps[j].prev]
      <4>1. j \in 1 .. N
        BY <1>0, <3>1
      <4>2. ps[j].prev \in 0 .. n
        BY <1>0, <4>1
      <4> DEFINE p == ps[j].prev
      <4>3. p \in 0 .. n + 1 /\ p # n + 1
        BY <4>2
      <4> HIDE DEF p, Step
      <4>4. g[p] = f[p]
        BY <4>3
      <4> QED BY <4>1, <4>2, <4>4 DEF p
    <3>2. Step(g, j) = Step(f, j)
      <4> HIDE DEF g
      <4> QED BY <3>1
    <3>3. g[j] = Step(f, j)
      <4> HIDE DEF Step
      <4>1. CASE j = n + 1
        BY <4>1
      <4>2. CASE j # n + 1
        <5>1. j \in 0 .. n
          BY <4>2
        <5> QED BY <2>1, <4>2, <5>1
      <4> QED BY <4>1, <4>2
    <3> HIDE DEF g, Step
    <3> QED BY <3>2, <3>3
  <2>3. DOMAIN g = 0 .. n + 1
    OBVIOUS
  <2> HIDE DEF g, Step
  <2>4. Upto(g, n + 1)
    BY <2>2, <2>3
  <2> QED BY <2>4
<1>3. Nat \subseteq T
  <2> HIDE DEF T
  <2> QED BY <1>1, <1>2, InductiveSet
<1>4. PICK f : Upto(f, N)
  BY <1>0, <1>3
<1>5. ASSUME TRUE PROVE \E h : IsSegments(h, ps)
  <2> DEFINE h == [j \in 0 .. N |-> f[j]]
  <2>1. ASSUME NEW j \in 0 .. N PROVE h[j] = Step(h, j)
    <3>1. h[j] = f[j] /\ f[j] = Step(f, j)
      <4> HIDE DEF Step
      <4> QED BY <1>4
    <3>2. j # 0 => ps[j].prev \in 0 .. N
      BY <1>0
    <3>3. j # 0 => h[ps[j].prev] = f[ps[j].prev]
      BY <3>2
    <3> HIDE DEF h
    <3> QED BY <3>1, <3>3
  <2>2. h = [j \in 0 .. N |-> h[j]]
    OBVIOUS
  <2> HIDE DEF h, N
  <2>3. h = [j \in 0 .. N |-> Step(h, j)]
    <3> HIDE DEF Step
    <3> QED BY <2>1, <2>2
  <2>4. IsSegments(h, ps)
    BY <2>3, Zenon DEF IsSegments, N
  <2> QED BY <2>4
<1> QED BY <1>5

\* The segments of a live proof add up to its iterations.
LEMMA SegmentsAddUp ==
  ASSUME NEW requests, Linked(proofs, requests), NEW idx \in Live(proofs)
  PROVE  /\ Segments(idx) \in Seq(Nat)
         /\ SumTo(Segments(idx))[Len(Segments(idx))] = proofs[idx].iters
<1> DEFINE ps == proofs
           h == CHOOSE f : IsSegments(f, ps)
<1>0. Backward(ps) /\ Len(ps) \in Nat
  BY LinkedTypes, BackwardTypes
<1>1. IsSegments(h, ps)
  BY <1>0, SegmentsExist, Zenon
<1>2. \A j : Segments(j) = h[j]
  BY Zenon DEF Segments, IsSegments
<1> HIDE DEF h
<1>3. ASSUME NEW j \in 0 .. Len(ps) PROVE h[j] = IF j = 0 THEN << >> ELSE <<ps[j].seg_iters>> \o h[ps[j].prev]
  <2>1. h = [k \in 0 .. Len(ps) |-> IF k = 0 THEN << >> ELSE <<ps[k].seg_iters>> \o h[ps[k].prev]]
    BY <1>1, Zenon DEF IsSegments
  <2> QED BY <2>1, Zenon
<1> DEFINE Good(j) == h[j] \in Seq(Nat) /\ SumTo(h[j])[Len(h[j])] = ItersOf(ps, j)
           T == {n \in Nat : n \in Live(ps) => Good(n)}
<1>4. Good(0)
  <2>1. h[0] = << >> /\ << >> \in Seq(Nat) /\ Len(<< >>) = 0
    <3>1. 0 \in 0 .. Len(ps)
      BY <1>0
    <3>2. h[0] = << >>
      BY <1>3, <3>1, Zenon
    <3>3. << >> \in Seq(Nat) /\ Len(<< >>) = 0
      OBVIOUS
    <3> QED BY <3>2, <3>3
  <2>2. SumTo(<< >>)[0] = 0
    BY <2>1, SumUnfolds
  <2>3. ItersOf(ps, 0) = 0
    BY DEF ItersOf
  <2> QED BY <2>1, <2>2, <2>3
<1>5. ASSUME NEW n \in Nat, \A m \in 0 .. n - 1 : m \in T PROVE n \in T
  <2> SUFFICES ASSUME n \in Live(ps) PROVE Good(n)
    BY Zenon
  <2> DEFINE p == ps[n].prev
             a == ps[n].seg_iters
  <2>1. /\ n \in 1 .. Len(ps) /\ n # 0 /\ p \in 0 .. n - 1 /\ n \in 0 .. Len(ps) /\ a \in Nat
        /\ LinkOK(ps, n, requests) /\ (p # 0 => p \in Live(ps))
    <3>1. n \in 1 .. Len(ps) /\ LinkOK(ps, n, requests) /\ a \in Nat
      BY LinkedTypes
    <3>2. p # 0 => p \in Live(ps)
      BY <3>1 DEF LinkOK
    <3> QED BY <1>0, <3>1, <3>2, BackwardTypes
  <2>2. Good(p)
    <3> HIDE DEF Good
    <3>1. CASE p = 0
      BY <1>4, <3>1
    <3>2. CASE p # 0
      BY <1>5, <2>1, <3>2
    <3> QED BY <3>1, <3>2
  <2>3. h[n] = <<a>> \o h[p]
    BY <1>3, <2>1
  <2>4. ItersOf(ps, n) = a + ItersOf(ps, p)
    BY <2>1 DEF LinkOK, ItersOf
  <2> HIDE DEF a, p
  <2>5. /\ <<a>> \o h[p] \in Seq(Nat)
        /\ SumTo(<<a>> \o h[p])[Len(<<a>> \o h[p])] = a + SumTo(h[p])[Len(h[p])]
    BY <2>1, <2>2, SumOfConcat
  <2> QED BY <2>2, <2>3, <2>4, <2>5
<1>6. Nat \subseteq T
  <2> HIDE DEF T
  <2> QED BY <1>5, StrongInductiveSet
<1>7. idx \in Nat /\ idx # 0
  BY LinkedTypes
<1>8. Good(idx)
  BY <1>6, <1>7
<1> QED BY <1>2, <1>7, <1>8 DEF ItersOf

----------------------------------------------------------------------------
(***************************************************************************)
(* The invariant                                                           *)
(***************************************************************************)

\* What SentProofsWhole says of a proof that was sent.
SentOK(s, requests) == s.done /\ s.iters \in requests /\ SumTo(s.segments)[Len(s.segments)] = s.iters

\* SentProofsWhole, said of each proof that was sent; the same for the next state.
LEMMA SentIs == SentProofsWhole <=> \A s \in sent : SentOK(s, asked)
  BY Zenon DEF SentProofsWhole, SentOK, SumTo, IsSum

LEMMA SentNext == SentProofsWhole' <=> \A s \in sent' : SentOK(s, asked')
  BY Zenon DEF SentProofsWhole, SentOK, SumTo, IsSum

\* Nothing is queued.
LEMMA EmptyQueue ==
  ASSUME NEW requests
  PROVE  QueueInv([req |-> << >>, proofs |-> << >>, queued |-> << >>], 0, requests)
<1>1. /\ Len(<< >>) = 0 /\ << >> \in Seq(requests) /\ << >> \in Seq(Nat)
      /\ << >> \in Seq(Proof \union {Deleted})
  <2> DEFINE P == Proof \union {Deleted}
  <2>1. << >> \in Seq(P)
    <3> HIDE DEF P
    <3> QED OBVIOUS
  <2> QED BY <2>1
<1>2. Live(<< >>) = {} /\ Waiting(<< >>) = {}
  BY <1>1 DEF Live, Waiting
<1>3. Linked(<< >>, requests)
  BY <1>1, <1>2 DEF Linked, Backward
<1>4. Counted(<< >>, 0)
  BY <1>2 DEF Counted
<1>5. InOrder(<< >>, << >>)
  BY <1>1, <1>2 DEF InOrder, Elements
<1> QED BY <1>1, <1>3, <1>4, <1>5 DEF QueueInv

\* The invariant holds at the beginning.
LEMMA InitProof == Init => ProofInv
<1> SUFFICES ASSUME Init PROVE ProofInv
  OBVIOUS
<1> USE DEF Init
<1>1. TypesOK
  <2>1. thread \in [Threads -> Job]
    BY DEF Job, Idle
  <2>2. wq \in Seq([first : Int, last : Int])
    <3> DEFINE W == [first : Int, last : Int]
    <3>1. wq \in Seq(W)
      <4> HIDE DEF W
      <4> QED OBVIOUS
    <3> QED BY <3>1
  <2> QED BY <2>1, <2>2 DEF TypesOK
<1>2. QueueInv(Q, 0, asked)
  BY EmptyQueue DEF Q
<1>3. ThreadInv
  BY DEF ThreadInv, HoldsResizeMutex, Idle
<1>4. DoneInv
  BY DEF DoneInv, HoldsResizeMutex
<1>5. ClearInv
  BY DEF ClearInv
<1>6. SentProofsWhole
  BY SentIs
<1> QED BY <1>1, <1>2, <1>3, <1>4, <1>5, <1>6 DEF ProofInv

\* More may be asked for at any time.
LEMMA MoreRequests ==
  ASSUME NEW q, NEW requests, QueueInv(q, 0, requests), NEW more, requests \subseteq more,
         NEW reqs \in Seq(more)
  PROVE  QueueInv([req |-> reqs, proofs |-> q.proofs, queued |-> q.queued], 0, more)
<1> DEFINE next == [req |-> reqs, proofs |-> q.proofs, queued |-> q.queued]
<1>1. Linked(q.proofs, requests) /\ Counted(q.proofs, 0) /\ InOrder(q.proofs, q.queued)
  BY DEF QueueInv
<1>2. Linked(q.proofs, more)
  <2>1. \A j \in Live(q.proofs) : LinkOK(q.proofs, j, more)
    BY <1>1 DEF Linked, LinkOK
  <2> QED BY <1>1, <2>1 DEF Linked
<1>3. next.req = reqs /\ next.proofs = q.proofs /\ next.queued = q.queued
      /\ next = [req |-> next.req, proofs |-> next.proofs, queued |-> next.queued]
  OBVIOUS
<1> HIDE DEF next
<1>4. QueueInv(next, 0, more)
  BY <1>1, <1>2, <1>3 DEF QueueInv
<1> QED BY <1>4 DEF next

\* A started proof is marked as done.
LEMMA MarkKeeps ==
  ASSUME NEW q, NEW requests, QueueInv(q, 0, requests), NEW idx \in Started(q.proofs)
  PROVE  LET qs == [q.proofs EXCEPT ![idx].done = TRUE]
         IN  /\ QueueInv([req |-> q.req, proofs |-> qs, queued |-> q.queued], 0, requests)
             /\ Started(qs) = Started(q.proofs) /\ Seq(Finished(q.proofs)) \subseteq Seq(Finished(qs))
             /\ qs[idx].done
             /\ \A j \in Started(qs) : qs[j].is_req = q.proofs[j].is_req
             /\ \A r \in Started(q.proofs) : Chain(qs, r) = Chain(q.proofs, r)
                  /\ \A j \in Chain(q.proofs, r) : q.proofs[j].done => qs[j].done
<1> DEFINE ps == q.proofs
           qs == [ps EXCEPT ![idx].done = TRUE]
<1>1. /\ q.req \in Seq(requests) /\ Linked(ps, requests) /\ Counted(ps, 0) /\ InOrder(ps, q.queued)
  BY DEF QueueInv
<1>2. Backward(ps) /\ Len(ps) \in Nat /\ DOMAIN ps = 1 .. Len(ps) /\ StartedFirst(ps)
      /\ ps \in Seq(Proof \union {Deleted})
  BY <1>1, LinkedTypes, BackwardTypes
<1>3. idx \in 1 .. Len(ps) /\ ps[idx] \in Proof /\ ps[idx].started
  BY DEF Started, Live
<1>4. qs = [j \in 1 .. Len(ps) |-> IF j = idx THEN [ps[idx] EXCEPT !.done = TRUE] ELSE ps[j]]
  <2>1. ps = [j \in 1 .. Len(ps) |-> ps[j]]
    <3> DEFINE P == Proof \union {Deleted}
    <3>1. ps \in Seq(P)
      BY <1>2
    <3> HIDE DEF P
    <3> QED BY <3>1
  <2> QED BY <1>2, <1>3, <2>1
<1> HIDE DEF qs
<1>5. ASSUME NEW j \in 1 .. Len(ps)
      PROVE  /\ qs[j] \in Proof \union {Deleted} /\ (qs[j] \in Proof <=> ps[j] \in Proof)
             /\ qs[j].iters = ps[j].iters /\ qs[j].seg_iters = ps[j].seg_iters
             /\ qs[j].prev = ps[j].prev /\ qs[j].is_req = ps[j].is_req
             /\ qs[j].started = ps[j].started /\ qs[j].ref_cnt = ps[j].ref_cnt
             /\ (ps[j].done \/ j = idx) => qs[j].done
  <2>1. CASE j = idx
    <3>1. qs[j] = [ps[idx] EXCEPT !.done = TRUE]
      BY <1>4, <2>1
    <3>2. qs[j] \in Proof
      BY <1>3, <3>1 DEF Proof
    <3>3. /\ qs[j].iters = ps[j].iters /\ qs[j].seg_iters = ps[j].seg_iters
          /\ qs[j].prev = ps[j].prev /\ qs[j].is_req = ps[j].is_req
          /\ qs[j].started = ps[j].started /\ qs[j].ref_cnt = ps[j].ref_cnt /\ qs[j].done
      BY <1>3, <2>1, <3>1 DEF Proof
    <3> HIDE DEF Proof
    <3> QED BY <1>3, <2>1, <3>2, <3>3
  <2>2. CASE j # idx
    <3>1. qs[j] = ps[j]
      BY <1>4, <2>2
    <3>2. ps[j] \in Proof \/ ps[j] = Deleted
      BY <1>2, BackwardTypes
    <3> HIDE DEF Proof, Deleted
    <3> QED BY <2>2, <3>1, <3>2
  <2> QED BY <2>1, <2>2
<1>6. qs \in Seq(Proof \union {Deleted}) /\ Len(qs) = Len(ps)
  <2> HIDE DEF Proof, Deleted
  <2>1. qs \in [1 .. Len(ps) -> Proof \union {Deleted}]
    <3>1. DOMAIN qs = 1 .. Len(ps) /\ qs = [j \in 1 .. Len(ps) |-> qs[j]]
      BY <1>4
    <3> QED BY <1>5, <3>1
  <2> QED BY <1>2, <2>1, SeqDef
<1>7. Alike(ps, qs)
  <2> HIDE DEF Proof, Deleted
  <2> QED BY <1>5, <1>6 DEF Alike
<1>8. /\ Live(qs) = Live(ps) /\ \A j \in Live(ps) : j \in 1 .. Len(ps) /\ j \in 0 .. Len(ps)
      /\ \A j \in 0 .. Len(ps) : Chain(qs, j) = Chain(ps, j)
  <2>1. Live(qs) = Live(ps) /\ \A j \in 0 .. Len(ps) : Chain(qs, j) = Chain(ps, j)
    BY <1>2, <1>7, AlikeChains
  <2>2. \A j \in Live(ps) : j \in 1 .. Len(ps)
    BY DEF Live
  <2> QED BY <1>2, <2>1, <2>2
<1>9. Waiting(qs) = Waiting(ps) /\ Started(qs) = Started(ps)
      /\ \A j \in Waiting(qs) : qs[j].ref_cnt = ps[j].ref_cnt
  BY <1>5, <1>8 DEF Waiting, Started
<1>10. StartedFirst(qs)
  BY <1>2, <1>5, <1>6, BackwardTypes, ZenonT(60) DEF StartedFirst
<1>11. QueueInv([req |-> q.req, proofs |-> qs, queued |-> q.queued], 0, requests)
  <2>1. q.queued \in Seq(Nat) /\ Elements(q.queued) = Waiting(ps)
        /\ \A m, n \in 1 .. Len(q.queued) : m < n => q.queued[m] # q.queued[n] /\ ps[q.queued[m]].prev # q.queued[n]
    BY <1>1 DEF InOrder
  <2> QED BY <1>7, <1>9, <1>10, <2>1, FlagsKeep
<1>12. \A j \in Started(ps) : j \in Live(ps) /\ j \in 1 .. Len(ps)
  BY <1>8 DEF Started
<1>13. \A j \in Started(qs) : qs[j].is_req = ps[j].is_req
  BY <1>5, <1>9, <1>12
<1>14. Seq(Finished(ps)) \subseteq Seq(Finished(qs))
  <2>1. Finished(ps) \subseteq Finished(qs)
    BY <1>5, <1>9, <1>12 DEF Finished
  <2>2. ASSUME NEW s \in Seq(Finished(ps)) PROVE s \in Seq(Finished(qs))
    <3>1. Len(s) \in Nat /\ s \in [1 .. Len(s) -> Finished(ps)]
      BY LenProperties
    <3>2. s \in [1 .. Len(s) -> Finished(qs)]
      BY <2>1, <3>1
    <3> QED BY <3>1, <3>2, SeqDef
  <2> QED BY <2>2
<1>15. ASSUME NEW r \in Started(ps)
       PROVE  Chain(qs, r) = Chain(ps, r) /\ \A j \in Chain(ps, r) : ps[j].done => qs[j].done
  <2>1. r \in 0 .. Len(ps)
    BY <1>8, <1>12
  <2>2. Chain(ps, r) \subseteq 1 .. Len(ps)
    BY <1>2, <2>1, ChainBelow
  <2> QED BY <1>5, <1>8, <2>1, <2>2
<1>16. qs[idx].done
  BY <1>3, <1>5
<1> QED BY <1>9, <1>11, <1>13, <1>14, <1>15, <1>16 DEF qs

\* Steps that touch neither the proofs nor the threads; a stop may begin.
LEMMA QuietKeeps ==
  ASSUME ProofInv, main' = main \/ main' = "stop",
         UNCHANGED <<last_iters, wq, queueVars, done_proofs, seen, thread, pushing, asked, sent>>
  PROVE  ProofInv'
<1> USE DEF ProofInv, queueVars
<1>1. TypesOK'
  BY DEF TypesOK
<1>2. QueueInv(Q, 0, asked)'
  BY DEF Q
<1>3. ThreadInv'
  BY DEF ThreadInv, HoldsResizeMutex
<1>4. DoneInv'
  BY DEF DoneInv, HoldsResizeMutex
<1>5. ClearInv'
  BY DEF ClearInv
<1>6. SentProofsWhole'
  BY SentIs, SentNext
<1> QED BY <1>1, <1>2, <1>3, <1>4, <1>5, <1>6

\* One more request.
LEMMA RequestKeeps ==
  ASSUME ProofInv, NEW r \in Requests, Request(r)
  PROVE  ProofInv'
<1> USE DEF ProofInv
<1>1. TypesOK'
  BY DEF TypesOK, Request, chipVars
<1>2. QueueInv(Q, 0, asked)'
  <2>1. asked \subseteq asked' /\ r \in asked' /\ req_proofs' = hw_request_proof(req_proofs, r)
        /\ proofs' = proofs /\ queued_proofs' = queued_proofs
    BY DEF Request
  <2>2. req_proofs \in Seq(asked)
    BY DEF QueueInv, Q
  <2>3. req_proofs \in Seq(asked')
    <3>1. Len(req_proofs) \in Nat /\ req_proofs \in [1 .. Len(req_proofs) -> asked]
      BY <2>2, LenProperties
    <3>2. req_proofs \in [1 .. Len(req_proofs) -> asked']
      BY <2>1, <3>1
    <3> QED BY <3>1, <3>2, SeqDef
  <2>4. req_proofs' \in Seq(asked')
    BY <2>1, <2>3, RequestTypes
  <2> DEFINE next == [req |-> req_proofs', proofs |-> Q.proofs, queued |-> Q.queued]
  <2>5. QueueInv(next, 0, asked')
    BY <2>1, <2>4, MoreRequests
  <2>6. Q' = next
    BY <2>1 DEF Q
  <2> HIDE DEF next
  <2> QED BY <2>5, <2>6
<1>3. ThreadInv'
  BY DEF ThreadInv, HoldsResizeMutex, Request
<1>4. DoneInv'
  BY DEF DoneInv, HoldsResizeMutex, Request
<1>5. ClearInv'
  BY DEF ClearInv, Request
<1>6. SentProofsWhole'
  BY SentIs, SentNext DEF Request, SentOK
<1> QED BY <1>1, <1>2, <1>3, <1>4, <1>5, <1>6

\* Work is a sequence of ranges.
LEMMA NewWorkTypes ==
  ASSUME TypesOK, NEW iters \in Nat
  PROVE  NewWork(iters) \in Seq([first : Int, last : Int])
<1> DEFINE W == [first : Int, last : Int]
           first == last_iters \div interval + 1
           last == IF iters % interval = 0 THEN iters \div interval - 1 ELSE iters \div interval
           w == [first |-> first, last |-> last]
<1>1. interval \in Nat \ {0} /\ last_iters \in Nat /\ wq \in Seq(W)
  BY HwProofAssumption DEF TypesOK
<1>2. last_iters \div interval \in Int /\ iters \div interval \in Int
  BY <1>1
<1>3. w \in W
  BY <1>2
<1>4. NewWork(iters) = IF first <= last THEN Append(wq, w) ELSE wq
  BY DEF NewWork
<1> HIDE DEF W, w, first, last
<1>5. Append(wq, w) \in Seq(W)
  BY <1>1, <1>3
<1>6. NewWork(iters) \in Seq(W)
  BY <1>1, <1>4, <1>5
<1> QED BY <1>6 DEF W

\* A value, the requests it lets in and the threads it starts.
LEMMA AddValueKeeps ==
  ASSUME ProofInv, NEW iters \in 1 .. MaxIters, AddValue(iters)
  PROVE  ProofInv'
<1> USE DEF ProofInv
<1>0. /\ main = "loop" /\ main' = "loop" /\ last_iters' = iters /\ iters \in Nat
      /\ hw_proof_process_work(NewWork(iters))
      /\ UNCHANGED <<done_proofs, seen, pushing, asked, sent>>
  BY HwProofAssumption DEF AddValue
<1>1. /\ QueueInv(Q', 0, asked) /\ Continues(proofs, proofs') /\ ThreadInv'
      /\ thread' \in [Threads -> Job] /\ wq' \in Seq([first : Int, last : Int])
  <2>1. NewWork(iters) \in Seq([first : Int, last : Int])
    BY <1>0, NewWorkTypes
  <2> QED BY <1>0, <2>1, ProcessWorkKeeps
<1>2. TypesOK'
  BY <1>0, <1>1 DEF TypesOK
<1>3. QueueInv(Q, 0, asked)'
  BY <1>0, <1>1
<1>4. DoneInv'
  <2>1. Seq(Finished(proofs)) \subseteq Seq(Finished(proofs'))
    BY <1>1, ContinuesFinished
  <2> QED BY <1>0, <2>1 DEF DoneInv, HoldsResizeMutex
<1>5. ClearInv'
  BY <1>0 DEF ClearInv
<1>6. SentProofsWhole'
  BY <1>0, SentIs, SentNext
<1> QED BY <1>1, <1>2, <1>3, <1>4, <1>5, <1>6

\* hw_retrieve_proof finds a request with all its checkpoints.
LEMMA RetrieveKeeps ==
  ASSUME ProofInv, Retrieve
  PROVE  ProofInv'
<1> USE DEF ProofInv
<1> DEFINE i0 == CHOOSE i \in Retrievable : \A j \in Retrievable : i <= j
<1>0. /\ main = "loop" /\ main' = "erase" /\ Retrievable # {}
      /\ seen' = [found |-> done_proofs, i |-> i0]
      /\ UNCHANGED <<last_iters, wq, req_proofs, proofs, queued_proofs, done_proofs, thread, pushing, asked, sent>>
  BY DEF Retrieve, chipVars, queueVars
<1>1. i0 \in Retrievable
  <2>1. done_proofs \in Seq(Finished(proofs))
    BY DEF DoneInv
  <2>2. Retrievable \subseteq Nat
    BY <2>1, LenProperties DEF Retrievable
  <2>3. \E i \in Retrievable : \A j \in Retrievable : i <= j
    BY <1>0, <2>2, LeastNatural
  <2> QED BY <2>3, Zenon
<1> HIDE DEF i0
<1>2. TypesOK'
  BY <1>0 DEF TypesOK
<1>3. QueueInv(Q, 0, asked)'
  BY <1>0 DEF Q
<1>4. ThreadInv'
  BY <1>0 DEF ThreadInv, HoldsResizeMutex
<1>5. DoneInv'
  <2>1. done_proofs \in Seq(Finished(proofs)) /\ (HoldsResizeMutex => pushing \in Seq(Finished(proofs)))
    BY DEF DoneInv
  <2>2. i0 \in 1 .. Len(done_proofs)
        /\ \A j \in Chain(proofs, done_proofs[i0]) \ {done_proofs[i0]} : proofs[j].done
    BY <1>1, <2>1, LenProperties DEF Retrievable
  <2>3. done_proofs[i0] \in Finished(proofs)
    BY <2>1, <2>2, ElementOfSeq
  <2>4. \A j \in Chain(proofs, done_proofs[i0]) : proofs[j].done
    BY <2>2, <2>3 DEF Finished
  <2>5. seen'.found = done_proofs /\ seen'.i = i0
    BY <1>0
  <2> QED BY <1>0, <2>1, <2>2, <2>4, <2>5 DEF DoneInv, HoldsResizeMutex
<1>6. ClearInv'
  BY <1>0 DEF ClearInv
<1>7. SentProofsWhole'
  BY <1>0, SentIs, SentNext
<1> QED BY <1>2, <1>3, <1>4, <1>5, <1>6, <1>7

\* The found proof is erased and sent, whatever was pushed in between.
LEMMA EraseAndSendKeeps ==
  ASSUME ProofInv, EraseAndSend
  PROVE  ProofInv'
<1> USE DEF ProofInv
<1> DEFINE idx == seen.found[seen.i]
           new == [iters |-> proofs[idx].iters, segments |-> Segments(idx),
                   done |-> \A j \in Chain(proofs, idx) : proofs[j].done]
<1>0. /\ main = "erase" /\ main' = "loop" /\ sent' = sent \union {new}
      /\ done_proofs' = SubSeq(seen.found, 1, seen.i - 1) \o SubSeq(seen.found, seen.i + 1, Len(seen.found))
      /\ UNCHANGED <<last_iters, wq, req_proofs, proofs, queued_proofs, thread, pushing, asked>>
  BY DEF EraseAndSend, chipVars, queueVars
<1>1. /\ seen.found \in Seq(Finished(proofs)) /\ seen.i \in 1 .. Len(seen.found) /\ Len(seen.found) \in Nat
      /\ \A j \in Chain(proofs, idx) : proofs[j].done
      /\ idx \in Finished(proofs)
  BY <1>0, LenProperties, ElementOfSeq DEF DoneInv
<1>2. SentOK(new, asked)
  <2>1. Linked(proofs, asked)
    BY DEF QueueInv, Q
  <2>2. idx \in Live(proofs) /\ proofs[idx].is_req
    BY <1>1 DEF Finished, Started
  <2> HIDE DEF idx
  <2>3. proofs[idx].iters \in asked
    BY <2>1, <2>2, LinkedTypes DEF LinkOK
  <2>4. SumTo(Segments(idx))[Len(Segments(idx))] = proofs[idx].iters
    BY <2>1, <2>2, SegmentsAddUp
  <2>5. new.iters = proofs[idx].iters /\ new.segments = Segments(idx)
        /\ new.done = (\A j \in Chain(proofs, idx) : proofs[j].done)
    OBVIOUS
  <2>6. new.done
    BY <1>1, <2>5 DEF idx
  <2> HIDE DEF new
  <2> QED BY <2>3, <2>4, <2>5, <2>6 DEF SentOK
<1> HIDE DEF new
<1>3. SentProofsWhole'
  BY <1>0, <1>2, SentIs, SentNext
<1>4. TypesOK'
  BY <1>0 DEF TypesOK
<1>5. QueueInv(Q, 0, asked)'
  BY <1>0 DEF Q
<1>6. ThreadInv'
  BY <1>0 DEF ThreadInv, HoldsResizeMutex
<1>7. DoneInv'
  <2> DEFINE F == Finished(proofs)
             found == seen.found
  <2>1. found \in Seq(F) /\ seen.i \in 1 .. Len(found) /\ Len(found) \in Nat
    BY <1>1
  <2> HIDE DEF F, found
  <2>2. SubSeq(found, 1, seen.i - 1) \in Seq(F) /\ SubSeq(found, seen.i + 1, Len(found)) \in Seq(F)
    <3>1. \A m \in 1 .. Len(found) : found[m] \in F
      BY <2>1, ElementOfSeq
    <3> QED BY <2>1, <3>1, SubSeqProperties
  <2>3. done_proofs' \in Seq(F)
    BY <1>0, <2>2, ConcatProperties DEF found
  <2> QED BY <1>0, <2>3 DEF DoneInv, HoldsResizeMutex, F
<1>8. ClearInv'
  BY <1>0 DEF ClearInv
<1> QED BY <1>3, <1>4, <1>5, <1>6, <1>7, <1>8

\* The state is cleared when all threads are idle, and begins again empty.
LEMMA ClearKeeps ==
  ASSUME ProofInv, ClearState \/ InitState
  PROVE  ProofInv'
<1> USE DEF ProofInv
<1>0. /\ main' \in {"cleared", "loop"} /\ \A i \in Threads : thread[i] = Idle
      /\ req_proofs' = << >> /\ proofs' = << >> /\ queued_proofs' = << >> /\ done_proofs' = << >>
      /\ UNCHANGED <<thread, pushing>>
  BY DEF ClearState, InitState, Busy, ClearInv, queueVars
<1>1. TypesOK'
  <2>1. wq' \in Seq([first : Int, last : Int])
    <3> DEFINE W == [first : Int, last : Int]
    <3>1. wq \in Seq(W)
      BY DEF TypesOK
    <3> HIDE DEF W
    <3>2. wq' \in Seq(W)
      <4>1. wq' = wq \/ wq' = << >>
        BY DEF ClearState, InitState
      <4>2. << >> \in Seq(W)
        OBVIOUS
      <4> QED BY <3>1, <4>1, <4>2
    <3> QED BY <3>2 DEF W
  <2>2. last_iters' \in Nat /\ asked' \subseteq Requests
    BY DEF TypesOK, ClearState, InitState, chipVars
  <2> QED BY <1>0, <2>1, <2>2 DEF TypesOK
<1>2. QueueInv(Q, 0, asked)'
  BY <1>0, EmptyQueue DEF Q
<1>3. ~HoldsResizeMutex /\ ~HoldsResizeMutex'
  BY <1>0 DEF ThreadInv, HoldsResizeMutex, Idle
<1>4. ThreadInv'
  BY <1>0, <1>3 DEF ThreadInv, Idle
<1>5. DoneInv'
  BY <1>0, <1>3 DEF DoneInv
<1>6. ClearInv'
  BY <1>0 DEF ClearInv
<1>7. SentProofsWhole'
  BY SentIs, SentNext DEF ClearState, InitState
<1> QED BY <1>1, <1>2, <1>4, <1>5, <1>6, <1>7

\* Steps of one thread that leave the proofs alone.
LEMMA ThreadMoves ==
  ASSUME ProofInv, NEW i \in Threads, thread[i].kind # "idle", thread[i].kind # "push",
         NEW job \in Job, thread' = [thread EXCEPT ![i] = job],
         job.kind \in {"wait", "proved"} => job.idx \in Started(proofs),
         job.kind # "push",
         UNCHANGED <<main, last_iters, wq, queueVars, done_proofs, seen, pushing, asked, sent>>
  PROVE  ProofInv'
<1> USE DEF ProofInv, queueVars
<1>0. thread \in [Threads -> Job]
  BY DEF TypesOK
<1>1. thread' \in [Threads -> Job] /\ thread'[i] = job /\ \A k \in Threads \ {i} : thread'[k] = thread[k]
  <2> HIDE DEF Job
  <2> QED BY <1>0
<1>2. TypesOK'
  BY <1>1 DEF TypesOK
<1>3. QueueInv(Q, 0, asked)'
  BY DEF Q
<1>4. ThreadInv'
  <2>1. ASSUME NEW k \in Threads, thread'[k].kind \in {"wait", "proved", "push"}
        PROVE  thread'[k].idx \in Started(proofs)
    <3>1. CASE k = i
      BY <1>1, <2>1, <3>1
    <3>2. CASE k # i
      BY <1>1, <2>1, <3>2 DEF ThreadInv
    <3> QED BY <3>1, <3>2
  <2>2. ASSUME NEW k \in Threads
        PROVE  /\ thread'[k].kind = "push" <=> thread[k].kind = "push"
               /\ thread'[k].kind = "push" => thread'[k] = thread[k]
    BY <1>1
  <2>3. ASSUME NEW k \in Threads, thread'[k].kind = "push"
        PROVE  /\ HoldsResizeMutex' /\ proofs'[thread'[k].idx].is_req
               /\ \A m \in Threads : thread'[m].kind = "push" => m = k
    <3>1. thread[k].kind = "push" /\ thread'[k] = thread[k]
      BY <2>2, <2>3
    <3> QED BY <2>2, <3>1 DEF ThreadInv, HoldsResizeMutex
  <2>4. HoldsResizeMutex' => \E k \in Threads : thread'[k].kind = "push"
    BY <2>2 DEF ThreadInv, HoldsResizeMutex
  <2> QED BY <2>1, <2>3, <2>4 DEF ThreadInv
<1>5. DoneInv'
  BY DEF DoneInv, HoldsResizeMutex
<1>6. ClearInv'
  BY DEF ClearInv, Idle
<1>7. SentProofsWhole'
  BY SentIs, SentNext
<1> QED BY <1>2, <1>3, <1>4, <1>5, <1>6, <1>7

\* A thread computes the next value.
LEMMA CalcValuesKeeps ==
  ASSUME ProofInv, NEW i \in Threads, CalcValues(i)
  PROVE  ProofInv'
<1>1. thread \in [Threads -> Job] /\ thread[i] \in Job /\ thread[i].kind = "values"
  BY DEF ProofInv, TypesOK, CalcValues
<1>2. thread[i] \in [kind : {"values"}, next : Int, last : Int]
  BY <1>1 DEF Job
<1> DEFINE job == IF stopping \/ thread[i].next = thread[i].last THEN Idle
                  ELSE [thread[i] EXCEPT !.next = @ + 1]
<1>3. thread' = [thread EXCEPT ![i] = job]
  <2>1. CASE stopping
    <3>1. job = Idle /\ thread' = [thread EXCEPT ![i] = Idle]
      BY <2>1 DEF CalcValues
    <3> QED BY <3>1, Zenon
  <2>2. CASE ~stopping
    <3> DEFINE new == IF thread[i].next = thread[i].last THEN Idle ELSE [thread[i] EXCEPT !.next = @ + 1]
    <3>1. job = new
      BY <2>2, Zenon
    <3>2. thread' = [thread EXCEPT ![i] = new]
      BY <2>2, Zenon DEF CalcValues
    <3> QED BY <3>1, <3>2, Zenon
  <2> QED BY <2>1, <2>2
<1>4. job \in Job /\ job.kind \in {"idle", "values"}
  <2>1. CASE stopping \/ thread[i].next = thread[i].last
    BY <2>1 DEF Job, Idle
  <2>2. CASE ~(stopping \/ thread[i].next = thread[i].last)
    <3>1. job = [thread[i] EXCEPT !.next = @ + 1]
      BY <2>2
    <3>2. job \in [kind : {"values"}, next : Int, last : Int]
      BY <1>2, <3>1
    <3> HIDE DEF job
    <3> QED BY <3>2 DEF Job
  <2> QED BY <2>1, <2>2
<1>5. UNCHANGED <<main, last_iters, wq, queueVars, done_proofs, seen, pushing, asked, sent>>
  BY DEF CalcValues, chipVars
<1> HIDE DEF job
<1> QED BY <1>1, <1>3, <1>4, <1>5, ThreadMoves

\* What the threads that compute a proof do to their own entry.
LEMMA JobKind ==
  ASSUME TypesOK, NEW i \in Threads, thread[i].kind \in {"wait", "proved", "push", "out"},
         NEW k \in {"wait", "proved", "push", "out"}
  PROVE  /\ [thread[i] EXCEPT !.kind = k] \in Job /\ [thread[i] EXCEPT !.kind = k].kind = k
         /\ [thread[i] EXCEPT !.kind = k].idx = thread[i].idx
         /\ [thread EXCEPT ![i].kind = k] = [thread EXCEPT ![i] = [thread[i] EXCEPT !.kind = k]]
<1>1. thread \in [Threads -> Job]
  BY DEF TypesOK
<1>2. thread[i] \in [kind : {"wait", "proved", "push", "out"}, idx : Nat]
  BY <1>1 DEF Job
<1>3. [thread[i] EXCEPT !.kind = k] \in [kind : {"wait", "proved", "push", "out"}, idx : Nat]
      /\ [thread[i] EXCEPT !.kind = k].kind = k /\ [thread[i] EXCEPT !.kind = k].idx = thread[i].idx
  BY <1>2
<1> QED BY <1>3 DEF Job

\* A thread has its proof, or saw the stop.
LEMMA ComputeKeeps ==
  ASSUME ProofInv, NEW i \in Threads, ComputeProof(i)
  PROVE  ProofInv'
<1>1. thread[i].kind = "wait" /\ TypesOK /\ thread[i].idx \in Started(proofs)
  BY DEF ProofInv, ThreadInv, ComputeProof
<1>2. PICK k \in {"out", "proved"} : thread' = [thread EXCEPT ![i].kind = k]
  BY DEF ComputeProof
<1> DEFINE job == [thread[i] EXCEPT !.kind = k]
<1>3. job \in Job /\ job.kind = k /\ job.idx = thread[i].idx /\ thread' = [thread EXCEPT ![i] = job]
  BY <1>1, <1>2, JobKind
<1> HIDE DEF job
<1>4. UNCHANGED <<main, last_iters, wq, queueVars, done_proofs, seen, pushing, asked, sent>>
  BY DEF ComputeProof, chipVars
<1> QED BY <1>1, <1>3, <1>4, ThreadMoves

\* A thread becomes free.
LEMMA ClearBusyKeeps ==
  ASSUME ProofInv, NEW i \in Threads, ClearBusy(i)
  PROVE  ProofInv'
<1>1. thread[i].kind = "out" /\ thread' = [thread EXCEPT ![i] = Idle]
      /\ UNCHANGED <<main, last_iters, wq, queueVars, done_proofs, seen, pushing, asked, sent>>
  BY DEF ClearBusy, chipVars
<1>2. Idle \in Job /\ Idle.kind = "idle"
  BY DEF Job, Idle
<1> QED BY <1>1, <1>2, ThreadMoves

\* A thread begins its push_back with the mutex.
LEMMA PushBeginKeeps ==
  ASSUME ProofInv, NEW i \in Threads, PushBegin(i)
  PROVE  ProofInv'
<1> USE DEF ProofInv
<1>0. /\ thread[i].kind = "proved" /\ ~HoldsResizeMutex /\ proofs[thread[i].idx].is_req
      /\ pushing' = done_proofs /\ thread' = [thread EXCEPT ![i].kind = "push"]
      /\ UNCHANGED <<main, last_iters, wq, queueVars, done_proofs, seen, asked, sent>>
  BY DEF PushBegin, chipVars
<1>1. /\ thread' \in [Threads -> Job] /\ thread'[i].kind = "push" /\ thread'[i].idx = thread[i].idx
      /\ \A k \in Threads \ {i} : thread'[k] = thread[k]
  <2> DEFINE job == [thread[i] EXCEPT !.kind = "push"]
  <2>1. job \in Job /\ job.kind = "push" /\ job.idx = thread[i].idx /\ thread' = [thread EXCEPT ![i] = job]
    BY <1>0, JobKind
  <2>2. thread \in [Threads -> Job]
    BY DEF TypesOK
  <2> HIDE DEF job, Job
  <2> QED BY <2>1, <2>2
<1>2. TypesOK'
  BY <1>0, <1>1 DEF TypesOK
<1>3. QueueInv(Q, 0, asked)'
  BY <1>0 DEF Q, queueVars
<1>4. done_proofs \in Seq(Finished(proofs)) /\ done_proofs # NotPushing
  <2>1. done_proofs \in Seq(Finished(proofs))
    BY DEF DoneInv
  <2>2. Finished(proofs) \subseteq Nat
    BY LinkedTypes DEF QueueInv, Q, Finished, Started
  <2>3. ASSUME done_proofs = << -1 >> PROVE FALSE
    <3>1. Len(done_proofs) = 1 /\ done_proofs[1] = -1
      BY <2>3
    <3>2. done_proofs[1] \in Nat
      <4> DEFINE F == Finished(proofs)
      <4>1. done_proofs \in Seq(F) /\ 1 \in 1 .. Len(done_proofs)
        BY <2>1, <3>1
      <4> HIDE DEF F
      <4>2. done_proofs[1] \in F
        BY <4>1, ElementOfSeq
      <4> QED BY <2>2, <4>2 DEF F
    <3> QED BY <3>1, <3>2
  <2> QED BY <2>1, <2>3 DEF NotPushing
<1>5. HoldsResizeMutex'
  BY <1>0, <1>4 DEF HoldsResizeMutex
<1>6. ThreadInv'
  <2>1. \A k \in Threads : thread[k].kind # "push"
    BY <1>0 DEF ThreadInv
  <2>2. ASSUME NEW k \in Threads, thread'[k].kind \in {"wait", "proved", "push"}
        PROVE  thread'[k].idx \in Started(proofs)
    <3>1. CASE k = i
      BY <1>0, <1>1, <3>1 DEF ThreadInv
    <3>2. CASE k # i
      BY <1>1, <2>2, <3>2 DEF ThreadInv
    <3> QED BY <3>1, <3>2
  <2>3. \A k \in Threads : thread'[k].kind = "push" => k = i
    BY <1>1, <2>1
  <2>4. proofs' = proofs
    BY <1>0 DEF queueVars
  <2> QED BY <1>0, <1>1, <1>5, <2>2, <2>3, <2>4 DEF ThreadInv
<1>7. DoneInv'
  BY <1>0, <1>4 DEF DoneInv, queueVars
<1>8. ClearInv'
  BY <1>0 DEF ClearInv, Idle
<1>9. SentProofsWhole'
  BY <1>0, SentIs, SentNext
<1> QED BY <1>2, <1>3, <1>6, <1>7, <1>8, <1>9

\* A thread marks its proof as done; a request goes to done_proofs.
LEMMA DoneKeeps ==
  ASSUME ProofInv, NEW i \in Threads, PushEnd(i) \/ MarkDone(i)
  PROVE  ProofInv'
<1> USE DEF ProofInv
<1> DEFINE idx == thread[i].idx
           qs == [proofs EXCEPT ![idx].done = TRUE]
<1>0. /\ thread[i].kind \in {"proved", "push"} /\ thread' = [thread EXCEPT ![i].kind = "out"] /\ proofs' = qs
      /\ UNCHANGED <<main, last_iters, wq, req_proofs, queued_proofs, seen, asked, sent>>
  BY DEF PushEnd, MarkDone, chipVars
<1>1. \/ thread[i].kind = "push" /\ done_proofs' = Append(pushing, idx) /\ pushing' = NotPushing
      \/ thread[i].kind = "proved" /\ ~HoldsResizeMutex /\ UNCHANGED <<done_proofs, pushing>>
  BY DEF PushEnd, MarkDone
<1>2. idx \in Started(proofs) /\ (thread[i].kind = "push" => HoldsResizeMutex /\ proofs[idx].is_req)
  BY <1>0 DEF ThreadInv
<1>3. /\ thread' \in [Threads -> Job] /\ thread'[i].kind = "out"
      /\ \A k \in Threads \ {i} : thread'[k] = thread[k]
  <2> DEFINE job == [thread[i] EXCEPT !.kind = "out"]
  <2>1. job \in Job /\ job.kind = "out" /\ thread' = [thread EXCEPT ![i] = job]
    BY <1>0, JobKind
  <2>2. thread \in [Threads -> Job]
    BY DEF TypesOK
  <2> HIDE DEF job, Job
  <2> QED BY <2>1, <2>2
<1>4. /\ QueueInv([req |-> req_proofs, proofs |-> qs, queued |-> queued_proofs], 0, asked)
      /\ Started(qs) = Started(proofs) /\ Seq(Finished(proofs)) \subseteq Seq(Finished(qs))
      /\ qs[idx].done
      /\ \A j \in Started(qs) : qs[j].is_req = proofs[j].is_req
      /\ \A r \in Started(proofs) : Chain(qs, r) = Chain(proofs, r)
           /\ \A j \in Chain(proofs, r) : proofs[j].done => qs[j].done
  <2> HIDE DEF idx
  <2> DEFINE q == Q
             rs == [q.proofs EXCEPT ![idx].done = TRUE]
  <2>1. q.req = req_proofs /\ q.proofs = proofs /\ q.queued = queued_proofs
    BY DEF Q
  <2>2. QueueInv(q, 0, asked)
    OBVIOUS
  <2> HIDE DEF q
  <2>3. /\ QueueInv([req |-> q.req, proofs |-> rs, queued |-> q.queued], 0, asked)
        /\ Started(rs) = Started(q.proofs) /\ Seq(Finished(q.proofs)) \subseteq Seq(Finished(rs))
        /\ rs[idx].done
        /\ \A j \in Started(rs) : rs[j].is_req = q.proofs[j].is_req
        /\ \A r \in Started(q.proofs) : Chain(rs, r) = Chain(q.proofs, r)
             /\ \A j \in Chain(q.proofs, r) : q.proofs[j].done => rs[j].done
    BY <1>2, <2>1, <2>2, MarkKeeps
  <2>4. rs = qs
    BY <2>1
  <2> HIDE DEF rs, qs
  <2> QED BY <2>1, <2>3, <2>4
<1> HIDE DEF qs, idx
<1>5. TypesOK'
  BY <1>0, <1>3 DEF TypesOK
<1>6. QueueInv(Q, 0, asked)'
  BY <1>0, <1>4 DEF Q
<1>7. \A k \in Threads : thread'[k].kind = "push" => k # i /\ thread[k].kind = "push" /\ thread'[k] = thread[k]
  BY <1>3
<1>8. ThreadInv'
  <2>1. ASSUME NEW k \in Threads, thread'[k].kind \in {"wait", "proved", "push"}
        PROVE  thread'[k].idx \in Started(proofs')
    <3>1. k # i /\ thread'[k] = thread[k]
      BY <1>3, <2>1
    <3> QED BY <1>0, <1>4, <2>1, <3>1 DEF ThreadInv
  <2>2. CASE thread[i].kind = "push"
    <3>1. \A k \in Threads : thread'[k].kind # "push"
      BY <1>7, <2>2 DEF ThreadInv
    <3>2. ~HoldsResizeMutex'
      BY <1>1, <2>2 DEF HoldsResizeMutex
    <3> QED BY <2>1, <3>1, <3>2 DEF ThreadInv
  <2>3. CASE thread[i].kind = "proved"
    <3>1. ~HoldsResizeMutex /\ ~HoldsResizeMutex'
      BY <1>1, <2>3 DEF HoldsResizeMutex
    <3>2. \A k \in Threads : thread'[k].kind # "push"
      BY <1>7, <3>1 DEF ThreadInv
    <3> QED BY <2>1, <3>1, <3>2 DEF ThreadInv
  <2> QED BY <1>0, <2>2, <2>3
<1>9. DoneInv'
  <2>1. ~HoldsResizeMutex'
    BY <1>1 DEF HoldsResizeMutex
  <2>2. done_proofs' \in Seq(Finished(qs))
    <3>1. CASE thread[i].kind = "push"
      <4>1. pushing \in Seq(Finished(qs))
        BY <1>2, <1>4, <3>1 DEF DoneInv
      <4>2. idx \in Finished(qs)
        BY <1>2, <1>4, <3>1 DEF Finished
      <4>3. done_proofs' = Append(pushing, idx)
        BY <1>1, <3>1
      <4> QED BY <4>1, <4>2, <4>3, AppendProperties
    <3>2. CASE thread[i].kind = "proved"
      BY <1>1, <1>4, <3>2 DEF DoneInv
    <3> QED BY <1>0, <3>1, <3>2
  <2>3. ASSUME main = "erase"
        PROVE  /\ seen.found \in Seq(Finished(qs)) /\ seen.i \in 1 .. Len(seen.found)
               /\ \A j \in Chain(qs, seen.found[seen.i]) : qs[j].done
    <3>1. /\ seen.found \in Seq(Finished(proofs)) /\ seen.i \in 1 .. Len(seen.found)
          /\ \A j \in Chain(proofs, seen.found[seen.i]) : proofs[j].done
      BY <2>3 DEF DoneInv
    <3>2. seen.found[seen.i] \in Started(proofs)
      BY <3>1, ElementOfSeq DEF Finished
    <3> QED BY <1>4, <3>1, <3>2
  <2> QED BY <1>0, <2>1, <2>2, <2>3 DEF DoneInv
<1>10. ClearInv'
  BY <1>0 DEF ClearInv, Idle
<1>11. SentProofsWhole'
  BY <1>0, SentIs, SentNext
<1> QED BY <1>5, <1>6, <1>8, <1>9, <1>10, <1>11

\* Every step keeps the invariant.
LEMMA ProofInvInductive == ProofInv /\ [Next]_vars => ProofInv'
<1> SUFFICES ASSUME ProofInv, [Next]_vars PROVE ProofInv'
  OBVIOUS
<1>1. CASE \E iters \in 1 .. MaxIters : AddValue(iters)
  BY <1>1, AddValueKeeps
<1>2. CASE Retrieve
  BY <1>2, RetrieveKeeps
<1>3. CASE EraseAndSend
  BY <1>3, EraseAndSendKeeps
<1>4. CASE ClearState \/ InitState
  BY <1>4, ClearKeeps
<1>5. CASE \E r \in Requests : Request(r)
  BY <1>5, RequestKeeps
<1>6. CASE \E i \in Threads : ThreadStep(i)
  <2>1. PICK i \in Threads : ThreadStep(i)
    BY <1>6
  <2> QED BY <2>1, CalcValuesKeeps, ComputeKeeps, PushBeginKeeps, DoneKeeps, ClearBusyKeeps DEF ThreadStep
<1>7. CASE Complete \/ Restart \/ StopProof \/ CountDown
  <2>1. /\ main' = main \/ main' = "stop"
        /\ UNCHANGED <<last_iters, wq, queueVars, done_proofs, seen, thread, pushing, asked, sent>>
    BY <1>7 DEF Complete, Restart, StopProof, CountDown, chipVars
  <2> QED BY <2>1, QuietKeeps
<1>8. CASE UNCHANGED vars
  <2>1. UNCHANGED <<main, last_iters, wq, queueVars, done_proofs, seen, thread, pushing, asked, sent>>
    BY <1>8 DEF vars, chipVars
  <2> QED BY <2>1, QuietKeeps
<1> QED BY <1>1, <1>2, <1>3, <1>4, <1>5, <1>6, <1>7, <1>8 DEF Next, EngineStep

\* The invariant always holds.
LEMMA ProofInvHolds == Spec => []ProofInv
<1>1. Init => ProofInv
  BY InitProof
<1>2. ProofInv /\ [Next]_vars => ProofInv'
  BY ProofInvInductive
<1> QED BY <1>1, <1>2, PTL DEF Spec

\* Links and types give what ChainsIntact says.
LEMMA InvKeepsChains == ProofInv => ChainsIntact
<1> SUFFICES ASSUME ProofInv PROVE ChainsIntact
  OBVIOUS
<1> DEFINE Done == {done_proofs[n] : n \in DOMAIN done_proofs}
<1>1. Linked(proofs, asked) /\ InOrder(proofs, queued_proofs)
  BY DEF ProofInv, QueueInv, Q
<1>2. Backward(proofs) /\ Len(proofs) \in Nat /\ DOMAIN proofs = 1 .. Len(proofs)
      /\ \A j \in Live(proofs) : j \in 1 .. Len(proofs) /\ j \in 0 .. Len(proofs)
  <2>1. Backward(proofs) /\ \A j \in Live(proofs) : j \in 1 .. Len(proofs)
    BY <1>1, LinkedTypes
  <2> QED BY <2>1, BackwardTypes
<1>3. Computing \subseteq Started(proofs)
  BY DEF ProofInv, ThreadInv, Computing
<1>4. Queued \subseteq Live(proofs)
  BY <1>1, LenProperties DEF InOrder, Elements, Queued, Waiting
<1>5. Done \subseteq Live(proofs)
  <2> DEFINE F == Finished(proofs)
  <2>1. done_proofs \in Seq(F)
    BY DEF ProofInv, DoneInv
  <2>2. F \subseteq Live(proofs)
    BY DEF Finished, Started
  <2> HIDE DEF F
  <2>3. \A n \in DOMAIN done_proofs : done_proofs[n] \in F
    BY <2>1, ElementOfSeq, LenProperties
  <2> QED BY <2>2, <2>3
<1>6. ASSUME NEW idx \in Live(proofs)
      PROVE  /\ idx \in DOMAIN proofs /\ hw_proof_cnt_segments(proofs, idx) <= MaxSegments
             /\ \A j \in Chain(proofs, idx) :
                  /\ proofs[j] # Deleted
                  /\ proofs[j].iters = proofs[j].seg_iters +
                       (IF proofs[j].prev = 0 THEN 0 ELSE proofs[proofs[j].prev].iters)
  <2>1. LinkOK(proofs, idx, asked) /\ Closed(Live(proofs), proofs)
    BY <1>1, LinkedTypes
  <2>2. Chain(proofs, idx) \subseteq Live(proofs)
    BY <1>2, <2>1, ChainWithin
  <2>3. ASSUME NEW j \in Chain(proofs, idx)
        PROVE  /\ proofs[j] # Deleted
               /\ proofs[j].iters = proofs[j].seg_iters +
                    (IF proofs[j].prev = 0 THEN 0 ELSE proofs[proofs[j].prev].iters)
    <3>1. j \in Live(proofs) /\ LinkOK(proofs, j, asked)
      BY <1>1, <2>2, LinkedTypes
    <3>2. proofs[j].iters \in Nat
      BY <1>1, <3>1, LinkedTypes
    <3> QED BY <3>1, <3>2 DEF LinkOK, Deleted
  <2> QED BY <1>2, <2>1, <2>3 DEF LinkOK, hw_proof_cnt_segments
<1>7. Computing \subseteq {j \in DOMAIN proofs : proofs[j].started} /\ Computing \subseteq Live(proofs)
  BY <1>2, <1>3 DEF Started
<1> HIDE DEF Done
<1>8. ASSUME NEW idx \in Queued \union Computing \union Done PROVE idx \in Live(proofs)
  BY <1>4, <1>5, <1>7
<1> QED BY <1>6, <1>7, <1>8 DEF ChainsIntact, Done

\* For any requests, thresholds and threads: a proof that is queued, computed or
\* to be sent has all the checkpoints it continues, none wiped out by
\* hw_proof_dec_ref and none cut off with the vector's end, and no thread
\* computes an index that names another proof by now.
THEOREM ChainsAlwaysIntact == Spec => []ChainsIntact
<1>1. ProofInv => ChainsIntact
  BY InvKeepsChains
<1> QED BY <1>1, ProofInvHolds, PTL

\* For any requests, thresholds and threads: what handle_proofs sends was asked
\* for, its segments are finished and add up to its iterations, also when the
\* erase of done_proofs has raced with a push_back.
THEOREM ProofsAreSentWhole == Spec => []SentProofsWhole
<1>1. ProofInv => SentProofsWhole
  BY DEF ProofInv
<1> QED BY <1>1, ProofInvHolds, PTL

=============================================================================
