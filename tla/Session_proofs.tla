--------------------------- MODULE Session_proofs ---------------------------
(***************************************************************************)
(* Proofs about a session of vdf_client, for any iterations, any number of *)
(* threads and any limit of processes: its messages are whole, and the     *)
(* session implements VdfService.                                          *)
(***************************************************************************)
EXTENDS Session, DataLemmas, SequenceTheorems

ThreadPcs == {"wait", "prove", "poll", "check", "lock", "size", "body", "done"}
Thread == [iters : Iters, pc : ThreadPcs]
Token == [what : {"OK", "size", "body", "STOP"}, by : Nat]

TypeInv ==
  /\ mode \in {"none", "S", "N", "T"}
  /\ pc \in {"type", "init", "form", "ok", "first", "read", "join", "finish",
             "ack", "exit", "failed", "terminated", "undefined"}
  /\ stopped \in BOOLEAN /\ worker \in {"none", "running", "ended"}
  /\ threads \in Seq(Thread) /\ wire \in Seq(Token)
  /\ stop_vector \in [1 .. kMaxProcessesAllowed -> BOOLEAN]
  /\ reads \in Nat /\ Len(threads) <= reads /\ reads <= MaxReads

\* How far the main thread is, against what was started and written.
MainInv ==
  /\ pc \in {"type", "init", "form", "ok"} => threads = << >> /\ wire = << >> /\ ~stopped
  /\ pc = "first" => threads = << >> /\ wire # << >> /\ mode = "S" /\ ~stopped
  /\ pc \in {"read", "join"} => wire # << >>
  /\ pc = "read" => worker # "none" /\ ~stopped
  /\ pc \in {"finish", "ack"} => \A t \in Started : threads[t].pc = "done"

\* Who writes a proof holds the mutex, and a size is followed by its body or
\* its thread is about to write it.
WireInv ==
  /\ \A t \in Started : threads[t].pc \in {"size", "body"} => socket_mutex = t
  /\ \A n \in DOMAIN wire :
       /\ wire[n].what \in {"size", "body"} => wire[n].by \in Started
       /\ wire[n].what = "size" =>
            IF n < Len(wire) THEN wire[n + 1] = [what |-> "body", by |-> wire[n].by]
            ELSE threads[wire[n].by].pc = "body"

----------------------------------------------------------------------------
(***************************************************************************)
(* FlattenSeq                                                              *)
(***************************************************************************)

\* f joins the first sequences of ss, as many as its argument says.
Joins(f, ss) ==
  f = [n \in 1 .. Len(ss) |-> IF n = 1 THEN ss[n] ELSE f[n - 1] \o ss[n]]

\* The sequence tt begins with ss; the functions agree as far as ss goes.
Begins(ss, tt) ==
  /\ Len(ss) \in Nat /\ Len(tt) \in Nat /\ Len(ss) <= Len(tt)
  /\ \A n \in 1 .. Len(ss) : ss[n] = tt[n]
Agree(f, g, ss) == \A n \in 1 .. Len(ss) : f[n] = g[n]

\* The function that FlattenSeq chooses exists.
LEMMA JoinsExist ==
  ASSUME NEW M, NEW ss \in Seq(Seq(M)), Len(ss) # 0
  PROVE  \E f \in [1 .. Len(ss) -> Seq(M)] : Joins(f, ss)
<1> DEFINE N == Len(ss)
           V == Seq(M)
           D == [p \in (1 .. N) \X V |-> p[2] \o ss[p[1]]]
<1>1. N \in Nat /\ N # 0 /\ << >> \in V /\ \A n \in 1 .. N : ss[n] \in V
  BY LenProperties, ElementOfSeq, EmptySeq
<1>2. D \in [(1 .. N) \X V -> V]
  <2>1. ASSUME NEW p \in (1 .. N) \X V PROVE p[2] \o ss[p[1]] \in V
    <3>1. p[2] \in V /\ ss[p[1]] \in V
      BY <1>1
    <3> QED BY <3>1, ConcatProperties
  <2> QED BY <2>1
<1>3. PICK g \in [0 .. N -> V] : g[0] = << >> /\ \A n \in 1 .. N : g[n] = D[<<n, g[n - 1]>>]
  <2> DEFINE e == << >>
  <2>1. N \in Nat /\ e \in V
    BY <1>1
  <2> HIDE DEF D, V, N, e
  <2>2. \E g \in [0 .. N -> V] : Recurs(g, N, e, D)
    BY <2>1, <1>2, RecursiveFunction
  <2> QED BY <2>2 DEF e, Recurs
<1>4. \A n \in 1 .. N : g[n] = g[n - 1] \o ss[n] /\ g[n] \in V /\ g[n - 1] \in V
  <2>1. ASSUME NEW n \in 1 .. N PROVE g[n] = g[n - 1] \o ss[n] /\ g[n] \in V /\ g[n - 1] \in V
    <3>1. n - 1 \in 0 .. N /\ n \in 0 .. N
      BY <1>1
    <3>2. <<n, g[n - 1]>> \in (1 .. N) \X V
      BY <3>1
    <3> QED BY <1>3, <3>1, <3>2
  <2> QED BY <2>1
<1> DEFINE f == [n \in 1 .. N |-> g[n]]
<1>5. f \in [1 .. N -> V]
  BY <1>4
<1>6. ASSUME NEW n \in 1 .. N
      PROVE  f[n] = IF n = 1 THEN ss[n] ELSE f[n - 1] \o ss[n]
  <2>1. CASE n = 1
    <3>0. 1 \in 1 .. N /\ 1 - 1 = 0
      BY <1>1
    <3>a. f[1] = g[1] /\ ss[1] \in V
      BY <1>1, <3>0
    <3>b. g[1] = g[1 - 1] \o ss[1]
      BY <1>4, <3>0
    <3>1. f[1] = g[1] /\ g[1] = << >> \o ss[1] /\ ss[1] \in V
      BY <1>3, <3>0, <3>a, <3>b
    <3>2. << >> \o ss[1] = ss[1]
      BY <3>1, ConcatEmptySeq
    <3> QED BY <2>1, <3>1, <3>2
  <2>2. CASE n # 1
    <3>1. n - 1 \in 1 .. N
      BY <2>2
    <3>2. f[n - 1] = g[n - 1] /\ f[n] = g[n]
      BY <3>1
    <3> QED BY <1>4, <2>2, <3>2
  <2> QED BY <2>1, <2>2
<1>7. Joins(f, ss)
  BY <1>6 DEF Joins
<1> QED BY <1>5, <1>7

\* There is one such function, and a longer sequence has the same at first.
LEMMA JoinsAgree ==
  ASSUME NEW ss, NEW tt, NEW f, NEW g, Joins(f, ss), Joins(g, tt), Begins(ss, tt)
  PROVE  Agree(f, g, ss)
<1> USE DEF Begins
<1> DEFINE T == {n \in Nat : n + 1 <= Len(ss) => f[n + 1] = g[n + 1]}
<1>0. /\ \A n \in 1 .. Len(ss) : f[n] = IF n = 1 THEN ss[n] ELSE f[n - 1] \o ss[n]
      /\ \A n \in 1 .. Len(tt) : g[n] = IF n = 1 THEN tt[n] ELSE g[n - 1] \o tt[n]
  <2>1. f = [n \in 1 .. Len(ss) |-> IF n = 1 THEN ss[n] ELSE f[n - 1] \o ss[n]]
    BY DEF Joins
  <2>2. g = [n \in 1 .. Len(tt) |-> IF n = 1 THEN tt[n] ELSE g[n - 1] \o tt[n]]
    BY DEF Joins
  <2> QED BY <2>1, <2>2, Zenon
<1>1. 0 \in T
  BY <1>0
<1>2. ASSUME NEW n \in Nat, n \in T PROVE n + 1 \in T
  <2> SUFFICES ASSUME n + 2 <= Len(ss) PROVE f[n + 2] = g[n + 2]
    OBVIOUS
  <2>1. f[n + 1] = g[n + 1] /\ n + 2 \in 1 .. Len(ss) /\ n + 2 \in 1 .. Len(tt)
    BY <1>2
  <2>2. f[n + 2] = f[n + 1] \o ss[n + 2] /\ g[n + 2] = g[n + 1] \o tt[n + 2]
    <3>1. n + 2 # 1 /\ (n + 2) - 1 = n + 1
      OBVIOUS
    <3> QED BY <1>0, <2>1, <3>1
  <2> QED BY <2>1, <2>2
<1>3. Nat \subseteq T
  <2> HIDE DEF T
  <2> QED BY <1>1, <1>2, InductiveSet
<1>4. ASSUME NEW n \in 1 .. Len(ss) PROVE f[n] = g[n]
  <2>1. PICK m \in Nat : m + 1 = n
    <3>1. n - 1 \in Nat /\ (n - 1) + 1 = n
      OBVIOUS
    <3> QED BY <3>1
  <2>2. m + 1 <= Len(ss) => f[m + 1] = g[m + 1]
    BY <1>3, <2>1
  <2> QED BY <2>1, <2>2
<1> QED BY <1>4 DEF Agree

\* What FlattenSeq gives, and what one sequence more adds to it.
LEMMA FlattenIsSeq ==
  ASSUME NEW M, NEW ss \in Seq(Seq(M))
  PROVE  /\ FlattenSeq(ss) \in Seq(M)
         /\ Len(ss) = 0 => FlattenSeq(ss) = << >>
         /\ Len(ss) # 0 => \E f : Joins(f, ss) /\ FlattenSeq(ss) = f[Len(ss)]
<1>1. CASE Len(ss) = 0
  <2>1. ss = << >>
    BY <1>1, EmptySeq
  <2> QED BY <1>1, <2>1, EmptySeq DEF FlattenSeq
<1>2. CASE Len(ss) # 0
  <2> DEFINE h == CHOOSE f : Joins(f, ss)
  <2>1. PICK f \in [1 .. Len(ss) -> Seq(M)] : Joins(f, ss)
    BY <1>2, JoinsExist
  <2>2. Joins(h, ss)
    BY <2>1
  <2>3. FlattenSeq(ss) = h[Len(ss)]
    BY <1>2, Zenon DEF FlattenSeq, Joins
  <2>4. Len(ss) \in Nat /\ Len(ss) \in 1 .. Len(ss)
    BY <1>2, LenProperties
  <2> HIDE DEF h
  <2>5. h[Len(ss)] = f[Len(ss)]
    <3>1. Begins(ss, ss)
      BY <2>4 DEF Begins
    <3>2. Agree(h, f, ss)
      BY <2>1, <2>2, <3>1, JoinsAgree
    <3> QED BY <2>4, <3>2 DEF Agree
  <2> QED BY <1>2, <2>1, <2>2, <2>3, <2>4, <2>5
<1> QED BY <1>1, <1>2

LEMMA FlattenAppend ==
  ASSUME NEW M, NEW ss \in Seq(Seq(M)), NEW s \in Seq(M)
  PROVE  FlattenSeq(Append(ss, s)) = FlattenSeq(ss) \o s
<1> DEFINE tt == Append(ss, s)
           N == Len(ss)
<1>1. /\ N \in Nat /\ tt \in Seq(Seq(M)) /\ Len(tt) = N + 1 /\ tt[N + 1] = s
      /\ \A n \in 1 .. N : tt[n] = ss[n]
  BY AppendProperties, LenProperties
<1>2. PICK g : Joins(g, tt) /\ FlattenSeq(tt) = g[N + 1]
  <2>1. Len(tt) # 0
    BY <1>1
  <2> HIDE DEF tt
  <2> QED BY <1>1, <2>1, FlattenIsSeq
<1> HIDE DEF tt, N
<1>3. g[N + 1] = IF N + 1 = 1 THEN tt[N + 1] ELSE g[N] \o tt[N + 1]
  <2>1. g = [n \in 1 .. Len(tt) |-> IF n = 1 THEN tt[n] ELSE g[n - 1] \o tt[n]]
    BY <1>2 DEF Joins
  <2>2. N + 1 \in 1 .. Len(tt) /\ (N + 1) - 1 = N
    BY <1>1
  <2>3. g[N + 1] = IF N + 1 = 1 THEN tt[N + 1] ELSE g[(N + 1) - 1] \o tt[N + 1]
    BY <2>1, <2>2, Zenon
  <2> QED BY <2>2, <2>3
<1>4. CASE N = 0
  <2>1. FlattenSeq(ss) = << >> /\ << >> \o s = s
    BY <1>4, FlattenIsSeq, ConcatEmptySeq DEF N
  <2> QED BY <1>1, <1>2, <1>3, <1>4, <2>1 DEF tt
<1>5. CASE N # 0
  <2>1. PICK f : Joins(f, ss) /\ FlattenSeq(ss) = f[N]
    BY <1>5, FlattenIsSeq DEF N
  <2>2. f[N] = g[N]
    <3>1. N \in 1 .. N
      BY <1>1, <1>5
    <3>2. Begins(ss, tt)
      BY <1>1 DEF N, Begins
    <3>3. Agree(f, g, ss)
      BY <1>2, <2>1, <3>2, JoinsAgree
    <3> QED BY <3>1, <3>3 DEF N, Agree
  <2>3. N + 1 # 1
    BY <1>1, <1>5
  <2> QED BY <1>1, <1>2, <1>3, <2>1, <2>2, <2>3 DEF tt
<1> QED BY <1>4, <1>5

----------------------------------------------------------------------------
(***************************************************************************)
(* The changes that the actions are made of                                *)
(***************************************************************************)

LEMMA StartedIsInterval ==
  ASSUME TypeInv
  PROVE  Started = 1 .. Len(threads) /\ Len(threads) \in Nat
         /\ \A t \in Started : threads[t] \in Thread
BY LenProperties, ElementOfSeq DEF TypeInv, Started

LEMMA GotoFacts ==
  ASSUME TypeInv, NEW t \in Started, NEW to \in ThreadPcs, Goto(t, to)
  PROVE  /\ threads' \in Seq(Thread) /\ Len(threads') = Len(threads) /\ Started' = Started
         /\ \A u \in Started : /\ threads'[u].iters = threads[u].iters
                               /\ threads'[u].pc = IF u = t THEN to ELSE threads[u].pc
<1>1. Started = 1 .. Len(threads) /\ Len(threads) \in Nat /\ threads \in [1 .. Len(threads) -> Thread]
  BY StartedIsInterval, LenProperties DEF TypeInv
<1>2. threads' = [threads EXCEPT ![t].pc = to]
  BY DEF Goto
<1>3. threads' \in [1 .. Len(threads) -> Thread]
  BY <1>1, <1>2 DEF Thread
<1>4. threads' \in Seq(Thread)
  BY <1>1, <1>3, SeqDef
<1>5. Len(threads') = Len(threads) /\ Started' = Started
  <2>1. DOMAIN threads' = 1 .. Len(threads)
    BY <1>3
  <2>2. DOMAIN threads' = 1 .. Len(threads') /\ Len(threads') \in Nat
    BY <1>4, LenProperties
  <2> QED BY <1>1, <2>1, <2>2 DEF Started
<1>6. \A u \in Started : /\ threads'[u].iters = threads[u].iters
                         /\ threads'[u].pc = IF u = t THEN to ELSE threads[u].pc
  BY <1>1, <1>2 DEF Thread
<1> QED BY <1>4, <1>5, <1>6

LEMMA LaunchFacts ==
  ASSUME TypeInv, NEW iters \in Iters, Launch(iters)
  PROVE  /\ threads' \in Seq(Thread) /\ Len(threads') = Len(threads) + 1
         /\ Started' = Started \union {Len(threads) + 1} /\ Len(threads) + 1 \notin Started
         /\ \A u \in Started : threads'[u] = threads[u]
         /\ threads'[Len(threads) + 1] = [iters |-> iters, pc |-> "wait"]
<1> DEFINE new == [iters |-> iters, pc |-> "wait"]
<1>1. Started = 1 .. Len(threads) /\ Len(threads) \in Nat /\ threads \in Seq(Thread)
  BY StartedIsInterval DEF TypeInv
<1>2. threads' = Append(threads, new)
  BY DEF Launch
<1>3. new \in Thread
  BY DEF Thread, ThreadPcs
<1> HIDE DEF new
<1>4. /\ threads' \in Seq(Thread) /\ Len(threads') = Len(threads) + 1
      /\ \A u \in 1 .. Len(threads) : threads'[u] = threads[u]
      /\ threads'[Len(threads) + 1] = new
  BY <1>1, <1>2, <1>3, AppendProperties
<1>5. Started' = 1 .. Len(threads) + 1
  BY <1>4, LenProperties DEF Started
<1> QED BY <1>1, <1>4, <1>5 DEF new

LEMMA WriteFacts ==
  ASSUME TypeInv, NEW what \in {"OK", "size", "body", "STOP"}, NEW by \in Nat, WriteBy(what, by)
  PROVE  /\ wire' \in Seq(Token) /\ Len(wire') = Len(wire) + 1 /\ Len(wire) \in Nat
         /\ DOMAIN wire = 1 .. Len(wire) /\ DOMAIN wire' = 1 .. Len(wire) + 1
         /\ \A n \in 1 .. Len(wire) : wire'[n] = wire[n]
         /\ wire'[Len(wire) + 1] = [what |-> what, by |-> by]
         /\ wire' # << >>
<1> DEFINE new == [what |-> what, by |-> by]
<1>1. wire \in Seq(Token) /\ Len(wire) \in Nat /\ DOMAIN wire = 1 .. Len(wire)
  BY LenProperties DEF TypeInv
<1>2. wire' = Append(wire, new)
  BY DEF WriteBy
<1>3. new \in Token
  BY DEF Token
<1> HIDE DEF new
<1>4. /\ wire' \in Seq(Token) /\ Len(wire') = Len(wire) + 1
      /\ \A n \in 1 .. Len(wire) : wire'[n] = wire[n]
      /\ wire'[Len(wire) + 1] = new
  BY <1>1, <1>2, <1>3, AppendProperties
<1>5. DOMAIN wire' = 1 .. Len(wire) + 1 /\ wire' # << >>
  BY <1>1, <1>4, LenProperties, EmptySeq
<1> QED BY <1>1, <1>4, <1>5 DEF new

----------------------------------------------------------------------------
(***************************************************************************)
(* Types, the main thread and the wire                                     *)
(***************************************************************************)

SafeInv == TypeInv /\ MainInv /\ WireInv

LEMMA InitSafe == Init => SafeInv
<1> SUFFICES ASSUME Init PROVE SafeInv
  OBVIOUS
<1>1. << >> \in Seq(Thread) /\ << >> \in Seq(Token) /\ Len(<< >>) = 0 /\ DOMAIN << >> = {}
  BY EmptySeq
<1>2. TypeInv
  <2>1. threads \in Seq(Thread) /\ wire \in Seq(Token)
    BY <1>1, Zenon DEF Init
  <2>2. Len(threads) = 0 /\ reads = 0
    BY <1>1, Zenon DEF Init
  <2>3. reads \in Nat /\ Len(threads) <= reads /\ reads <= MaxReads
    BY <2>2, SessionAssumption
  <2> QED BY <2>1, <2>3 DEF Init, TypeInv
<1>3. MainInv /\ WireInv
  BY <1>1 DEF Init, MainInv, WireInv, Started
<1> QED BY <1>2, <1>3 DEF SafeInv

\* Steps that start no thread, move none and write nothing.
LEMMA QuietKeeps ==
  ASSUME SafeInv, UNCHANGED <<threads, wire, stop_vector, socket_mutex>>,
         mode' \in {"none", "S", "N", "T"}, stopped' \in BOOLEAN,
         worker' \in {"none", "running", "ended"},
         reads' \in Nat, reads' >= reads, reads' <= MaxReads,
         pc' \in {"type", "init", "form", "ok", "first", "read", "join", "finish",
                  "ack", "exit", "failed", "terminated", "undefined"},
         MainInv'
  PROVE  SafeInv'
<1>1. Len(threads) \in Nat
  BY LenProperties DEF SafeInv, TypeInv
<1>2. TypeInv' /\ WireInv'
  BY <1>1 DEF SafeInv, TypeInv, WireInv, Started
<1> QED BY <1>2 DEF SafeInv

\* The main thread's steps, the squaring thread's and the peer's.
LEMMA MainKeeps ==
  ASSUME SafeInv,
         \/ ReadProverType \/ InitSession \/ DeserializeForm \/ Join \/ ReadAck
         \/ FirstStop \/ StopSignal \/ ReadFails \/ Square \/ WorkerEnds \/ PeerClose
         \/ \E i \in Iters : IgnoreOneWeso(i)
  PROVE  SafeInv'
<1>1. CASE ReadProverType \/ InitSession \/ DeserializeForm
  BY <1>1, QuietKeeps
  DEF ReadProverType, InitSession, DeserializeForm, threadVars, socketVars, SafeInv, TypeInv,
      MainInv, Started
<1>2. CASE Join \/ FirstStop \/ ReadFails
  BY <1>2, QuietKeeps
  DEF Join, FirstStop, ReadFails, Unwind, threadVars, socketVars, SafeInv, TypeInv,
      MainInv, Started
<1>3. CASE Square \/ WorkerEnds \/ PeerClose \/ \E i \in Iters : IgnoreOneWeso(i)
  BY <1>3, QuietKeeps, SessionAssumption
  DEF Square, WorkerEnds, PeerClose, IgnoreOneWeso, Incoming, Alive, Ended,
      threadVars, socketVars, SafeInv, TypeInv, MainInv, Started
<1>4. CASE ReadAck
  <2>1. TypeInv' /\ MainInv'
    BY <1>4 DEF ReadAck, SafeInv, TypeInv, MainInv, threadVars
  <2>2. \A t \in Started : threads[t].pc = "done"
    BY <1>4 DEF ReadAck, SafeInv, MainInv
  <2>3. WireInv'
    BY <1>4, <2>2 DEF ReadAck, SafeInv, WireInv, Started, threadVars
  <2> QED BY <2>1, <2>3 DEF SafeInv
<1>5. CASE StopSignal
  <2>1. stop_vector' \in [1 .. kMaxProcessesAllowed -> BOOLEAN]
    BY <1>5 DEF StopSignal, SafeInv, TypeInv
  <2>2. TypeInv' /\ MainInv'
    BY <1>5, <2>1 DEF StopSignal, SafeInv, TypeInv, MainInv, socketVars
  <2>3. WireInv'
    BY <1>5 DEF StopSignal, SafeInv, WireInv, Started, socketVars
  <2> QED BY <2>2, <2>3 DEF SafeInv
<1> QED BY <1>1, <1>2, <1>3, <1>4, <1>5

\* OK and STOP, written when no thread is in the middle of a proof.
LEMMA MainWritesKeep ==
  ASSUME SafeInv, WriteOK \/ FinishSession
  PROVE  SafeInv'
<1>0. TypeInv /\ MainInv /\ WireInv /\ threads' = threads /\ Started' = Started
      /\ \A t \in Started : threads[t] \in Thread
  BY StartedIsInterval DEF SafeInv, WriteOK, FinishSession, threadVars, Started
<1>1. CASE wire' = wire
  <2>1. wire # Append(wire, [what |-> "OK", by |-> Main])
        /\ wire # Append(wire, [what |-> "STOP", by |-> Main])
    <3>1. 0 \in Nat /\ wire \in Seq(Token) /\ Len(wire) \in Nat
      BY <1>0, LenProperties DEF TypeInv
    <3>2. [what |-> "OK", by |-> Main] \in Token /\ [what |-> "STOP", by |-> Main] \in Token
      BY DEF Token, Main
    <3>3. ASSUME NEW tok \in Token PROVE wire # Append(wire, tok)
      BY <3>1, AppendProperties
    <3> QED BY <3>2, <3>3
  <2>2. peer = "closed" /\ socket_mutex' = socket_mutex
        /\ \/ pc = "ok" /\ Unwind /\ worker' = worker
           \/ pc = "finish" /\ pc' = "exit" /\ worker' = worker
    BY <1>1, <2>1 DEF WriteOK, FinishSession, WriteBy, threadVars
  <2>3. UNCHANGED <<mode, stopped, threads, wire, stop_vector, socket_mutex, reads>>
    BY <1>1, <2>2 DEF WriteOK, FinishSession, threadVars
  <2>4. MainInv'
    BY <1>0, <2>2, <2>3 DEF MainInv, Unwind, Started
  <2>5. pc' \in {"finish", "terminated", "exit"}
    BY <2>2 DEF Unwind
  <2> QED BY <1>0, <2>2, <2>3, <2>4, <2>5, QuietKeeps DEF TypeInv, SafeInv
<1>2. CASE \E what \in {"OK", "STOP"} : WriteBy(what, Main)
  <2>1. PICK what \in {"OK", "STOP"} : WriteBy(what, Main)
    BY <1>2
  <2>2. /\ wire' \in Seq(Token) /\ Len(wire') = Len(wire) + 1 /\ Len(wire) \in Nat
        /\ DOMAIN wire = 1 .. Len(wire) /\ DOMAIN wire' = 1 .. Len(wire) + 1
        /\ \A n \in 1 .. Len(wire) : wire'[n] = wire[n]
        /\ wire'[Len(wire) + 1] = [what |-> what, by |-> 0]
        /\ wire' # << >>
    <3>1. 0 \in Nat /\ what \in {"OK", "size", "body", "STOP"} /\ WriteBy(what, 0)
      BY <2>1 DEF Main
    <3> QED BY <1>0, <3>1, WriteFacts
  <2>3. \A t \in Started : threads[t].pc = "done"
    <3>1. CASE WriteOK
      <4>1. threads = << >>
        BY <1>0, <3>1 DEF WriteOK, MainInv
      <4> QED BY <4>1 DEF Started
    <3> QED BY <1>0, <3>1 DEF FinishSession, MainInv
  <2>4. \A n \in 1 .. Len(wire) : wire[n].what = "size" => n < Len(wire)
    BY <1>0, <2>2, <2>3 DEF WireInv
  <2>5. WireInv'
    BY <1>0, <2>2, <2>3, <2>4 DEF WireInv
  <2>6. TypeInv'
    BY <1>0, <2>2 DEF WriteOK, FinishSession, TypeInv, Unwind, threadVars
  <2>7. MainInv'
    BY <1>0, <2>2, <2>3 DEF WriteOK, FinishSession, MainInv, Unwind, threadVars
  <2> QED BY <2>5, <2>6, <2>7 DEF SafeInv
<1> QED BY <1>1, <1>2 DEF WriteOK, FinishSession

LEMMA LaunchKeeps ==
  ASSUME SafeInv, NEW i \in Iters,
         FirstIteration(i) \/ IterationFast(i) \/ IterationTwoWeso(i)
  PROVE  SafeInv'
<1>0. /\ TypeInv /\ MainInv /\ WireInv /\ wire' = wire /\ socket_mutex' = socket_mutex
      /\ stop_vector' \in [1 .. kMaxProcessesAllowed -> BOOLEAN]
      /\ reads' \in Nat /\ reads' = reads + 1 /\ reads' <= MaxReads /\ reads \in Nat
      /\ UNCHANGED <<mode, stopped>> /\ pc' \in {"read", "undefined"} /\ ~stopped
      /\ worker' \in {"running", "ended"}
  <2>1. TypeInv /\ MainInv /\ WireInv /\ wire' = wire /\ socket_mutex' = socket_mutex
        /\ UNCHANGED <<mode, stopped>> /\ pc' \in {"read", "undefined"} /\ reads' = reads + 1
        /\ reads < MaxReads /\ reads \in Nat
    BY DEF SafeInv, FirstIteration, IterationFast, IterationTwoWeso, socketVars, Incoming, TypeInv
  <2>2. reads' \in Nat /\ reads' <= MaxReads
    BY <2>1, SessionAssumption
  <2>3. ~stopped /\ worker' \in {"running", "ended"}
    BY <2>1 DEF FirstIteration, IterationFast, IterationTwoWeso, TypeInv, MainInv
  <2>4. \A t : Flags(t) \in [1 .. kMaxProcessesAllowed -> BOOLEAN]
    BY <2>1 DEF TypeInv, Flags
  <2>5. stop_vector' = stop_vector \/ \E t : stop_vector' = Flags(t)
    BY DEF FirstIteration, IterationFast, IterationTwoWeso
  <2>6. stop_vector' \in [1 .. kMaxProcessesAllowed -> BOOLEAN]
    BY <2>1, <2>4, <2>5, Zenon DEF TypeInv
  <2> QED BY <2>1, <2>2, <2>3, <2>6
<1>1. Len(threads) \in Nat /\ Started = 1 .. Len(threads)
  BY <1>0, StartedIsInterval
<1>2. MainInv'
  BY <1>0 DEF MainInv, FirstIteration, IterationFast, IterationTwoWeso
<1>3. CASE Launch(i)
  <2>1. /\ threads' \in Seq(Thread) /\ Len(threads') = Len(threads) + 1
        /\ Started' = Started \union {Len(threads) + 1} /\ Len(threads) + 1 \notin Started
        /\ \A u \in Started : threads'[u] = threads[u]
        /\ threads'[Len(threads) + 1] = [iters |-> i, pc |-> "wait"]
    BY <1>0, <1>3, LaunchFacts, Zenon
  <2>2. TypeInv'
    BY <1>0, <1>1, <2>1 DEF TypeInv
  <2>3. threads'[Len(threads) + 1].pc = "wait"
    BY <2>1
  <2>4. WireInv'
    BY <1>0, <2>1, <2>3 DEF WireInv
  <2> QED BY <1>2, <2>2, <2>4 DEF SafeInv
<1>4. CASE threads' = threads
  <2>1. TypeInv'
    BY <1>0, <1>1, <1>4 DEF TypeInv
  <2>2. WireInv'
    BY <1>0, <1>4 DEF WireInv, Started
  <2> QED BY <1>2, <2>1, <2>2 DEF SafeInv
<1> QED BY <1>3, <1>4 DEF FirstIteration, IterationFast, IterationTwoWeso

\* Threads run while main reads or joins.
LEMMA ThreadRuns ==
  ASSUME SafeInv, Alive, NEW t \in Started, threads[t].pc # "done"
  PROVE  pc \in {"read", "join"}
BY DEF SafeInv, TypeInv, MainInv, Alive, Ended, Started

\* The steps of a thread outside WriteProof.
Proves(t) ==
  \/ Wait(t) \/ ProveFast(t) \/ ProveFastStopped(t) \/ ProveWhole(t)
  \/ ProveInterrupted(t) \/ Check(t)

\* Where they lead.
LEMMA ProvesGoto ==
  ASSUME TypeInv, NEW t \in Started, Proves(t)
  PROVE  /\ threads[t].pc \in {"wait", "prove", "check"}
         /\ \E to \in {"prove", "check", "poll", "done", "lock"} :
              /\ Goto(t, to)
              /\ to = "done" => threads[t].pc = "check" /\ Told(t)
         /\ UNCHANGED <<OutsideThreads, socketVars>>
<1>1. CASE Check(t)
  BY <1>1 DEF Check
<1>2. CASE Wait(t) \/ ProveFast(t) \/ ProveFastStopped(t) \/ ProveWhole(t) \/ ProveInterrupted(t)
  BY <1>2 DEF Wait, ProveFast, ProveFastStopped, ProveWhole, ProveInterrupted
<1> QED BY <1>1, <1>2 DEF Proves

LEMMA ProvesKeeps ==
  ASSUME SafeInv, Alive, NEW t \in Started, Proves(t)
  PROVE  SafeInv'
<1>0. TypeInv /\ MainInv /\ WireInv /\ pc \in {"read", "join"}
      /\ UNCHANGED <<mode, pc, stopped, worker, stop_vector, reads, socket_mutex, wire>>
      /\ threads[t].pc \in {"wait", "prove", "check"}
  BY ProvesGoto, ThreadRuns DEF SafeInv, OutsideThreads, socketVars
<1>1. PICK to \in ThreadPcs : to \notin {"size", "body"} /\ Goto(t, to)
  BY <1>0, ProvesGoto DEF ThreadPcs
<1>2. /\ threads' \in Seq(Thread) /\ Len(threads') = Len(threads) /\ Started' = Started
      /\ \A u \in Started : /\ threads'[u].iters = threads[u].iters
                            /\ threads'[u].pc = IF u = t THEN to ELSE threads[u].pc
  BY <1>0, <1>1, GotoFacts
<1>3. TypeInv' /\ MainInv'
  BY <1>0, <1>2 DEF TypeInv, MainInv
<1>4. WireInv'
  <2>1. \A u \in Started : threads'[u].pc \in {"size", "body"} => socket_mutex' = u
    BY <1>0, <1>1, <1>2 DEF WireInv
  <2>3. ASSUME NEW n \in DOMAIN wire'
        PROVE  /\ wire'[n].what \in {"size", "body"} => wire'[n].by \in Started'
               /\ wire'[n].what = "size" =>
                    IF n < Len(wire') THEN wire'[n + 1] = [what |-> "body", by |-> wire'[n].by]
                    ELSE threads'[wire'[n].by].pc = "body"
    BY <1>0, <1>2 DEF WireInv
  <2> QED BY <1>2, <2>1, <2>3 DEF WireInv
<1> QED BY <1>3, <1>4 DEF SafeInv

\* WriteProof: with the mutex, size and body.
LEMMA WritesKeep ==
  ASSUME SafeInv, Alive, NEW t \in Started,
         Lock(t) \/ WriteSize(t) \/ WriteBody(t) \/ WriteThrows(t)
  PROVE  SafeInv'
<1>0. TypeInv /\ MainInv /\ WireInv /\ pc \in {"read", "join"}
      /\ UNCHANGED <<mode, stopped, worker, stop_vector, reads>>
      /\ threads[t].pc \in {"lock", "size", "body"}
  BY ThreadRuns
  DEF SafeInv, OutsideThreads, Lock, WriteSize, WriteBody, WriteThrows, threadVars
<1>a. Started = 1 .. Len(threads) /\ Len(threads) \in Nat /\ t \in Nat /\ t # Free
  BY <1>0, StartedIsInterval DEF Free
<1>1. CASE WriteThrows(t)
  <2>1. MainInv'
    BY <1>1 DEF WriteThrows, MainInv
  <2> QED BY <1>0, <1>1, <2>1, QuietKeeps DEF WriteThrows, threadVars, socketVars, SafeInv, TypeInv
<1>2. CASE Lock(t)
  <2>1. Goto(t, "size") /\ pc' = pc /\ wire' = wire /\ socket_mutex = Free /\ socket_mutex' = t
    BY <1>2 DEF Lock, OutsideThreads
  <2>2. /\ threads' \in Seq(Thread) /\ Len(threads') = Len(threads) /\ Started' = Started
        /\ \A u \in Started : /\ threads'[u].iters = threads[u].iters
                              /\ threads'[u].pc = IF u = t THEN "size" ELSE threads[u].pc
    BY <1>0, <2>1, GotoFacts DEF ThreadPcs
  <2>3. TypeInv' /\ MainInv'
    BY <1>0, <2>1, <2>2 DEF TypeInv, MainInv
  <2>4. \A u \in Started : threads[u].pc \notin {"size", "body"}
    BY <1>0, <1>a, <2>1 DEF WireInv, Free
  <2>5. WireInv'
    BY <1>0, <2>1, <2>2, <2>4 DEF WireInv
  <2> QED BY <2>3, <2>5 DEF SafeInv
<1>3. CASE WriteSize(t) \/ WriteBody(t)
  <2>1. PICK what \in {"size", "body"} :
          /\ threads[t].pc = what /\ WriteBy(what, t) /\ pc' = pc
          /\ Goto(t, IF what = "size" THEN "body" ELSE "done")
          /\ socket_mutex' = IF what = "size" THEN socket_mutex ELSE Free
    BY <1>3 DEF WriteSize, WriteBody, OutsideThreads
  <2>2. /\ wire' \in Seq(Token) /\ Len(wire') = Len(wire) + 1 /\ Len(wire) \in Nat
        /\ DOMAIN wire = 1 .. Len(wire) /\ DOMAIN wire' = 1 .. Len(wire) + 1
        /\ \A n \in 1 .. Len(wire) : wire'[n] = wire[n]
        /\ wire'[Len(wire) + 1] = [what |-> what, by |-> t]
        /\ wire' # << >>
    BY <1>0, <1>a, <2>1, WriteFacts
  <2>3. /\ threads' \in Seq(Thread) /\ Len(threads') = Len(threads) /\ Started' = Started
        /\ \A u \in Started : /\ threads'[u].iters = threads[u].iters
                              /\ threads'[u].pc = IF u = t THEN (IF what = "size" THEN "body" ELSE "done")
                                                  ELSE threads[u].pc
    <3>1. (IF what = "size" THEN "body" ELSE "done") \in ThreadPcs
      BY DEF ThreadPcs
    <3> QED BY <1>0, <2>1, <3>1, GotoFacts
  <2>4. TypeInv' /\ MainInv'
    BY <1>0, <2>1, <2>2, <2>3 DEF TypeInv, MainInv
  <2>5. \A u \in Started : u # t => threads[u].pc \notin {"size", "body"}
    BY <1>0, <2>1 DEF WireInv
  <2>6. \A n \in 1 .. Len(wire) : wire[n].what = "size" /\ n >= Len(wire) =>
          what = "body" /\ wire[n].by = t
    <3>1. SUFFICES ASSUME NEW n \in 1 .. Len(wire), wire[n].what = "size", n >= Len(wire)
                   PROVE  what = "body" /\ wire[n].by = t
      OBVIOUS
    <3>2. ~(n < Len(wire)) /\ n \in DOMAIN wire
      BY <2>2, <3>1
    <3>3. wire[n].by \in Started /\ threads[wire[n].by].pc = "body"
      BY <1>0, <3>1, <3>2 DEF WireInv
    <3> QED BY <2>1, <2>5, <3>3
  <2>7. \A u \in Started' : threads'[u].pc \in {"size", "body"} => socket_mutex' = u
    BY <1>0, <2>1, <2>3, <2>5 DEF WireInv
  <2>8. ASSUME NEW n \in DOMAIN wire'
        PROVE  /\ wire'[n].what \in {"size", "body"} => wire'[n].by \in Started'
               /\ wire'[n].what = "size" =>
                    IF n < Len(wire') THEN wire'[n + 1] = [what |-> "body", by |-> wire'[n].by]
                    ELSE threads'[wire'[n].by].pc = "body"
    <3>1. CASE n = Len(wire) + 1
      BY <2>2, <2>3, <3>1
    <3>2. CASE n \in 1 .. Len(wire) /\ n # Len(wire)
      <4>1. n + 1 \in 1 .. Len(wire) /\ n < Len(wire)
        BY <2>2, <3>2
      <4>2. wire'[n] = wire[n] /\ wire'[n + 1] = wire[n + 1]
        BY <2>2, <3>2, <4>1
      <4> QED BY <1>0, <2>2, <2>3, <3>2, <4>1, <4>2 DEF WireInv
    <3>3. CASE n \in 1 .. Len(wire) /\ n = Len(wire)
      <4>1. wire'[n] = wire[n] /\ n < Len(wire') /\ (wire[n].what = "size" => wire[n].by = t /\ what = "body")
        BY <2>2, <2>6, <3>3
      <4> QED BY <1>0, <2>2, <2>3, <3>3, <4>1 DEF WireInv
    <3> QED BY <2>2, <3>1, <3>2, <3>3
  <2>9. WireInv'
    BY <2>7, <2>8 DEF WireInv
  <2> QED BY <2>4, <2>9 DEF SafeInv
<1> QED BY <1>1, <1>2, <1>3

LEMMA NextKeepsSafe ==
  ASSUME SafeInv, [Next]_vars
  PROVE  SafeInv'
<1>1. CASE UNCHANGED vars
  BY <1>1 DEF vars, threadVars, socketVars, SafeInv, TypeInv, MainInv, WireInv, Started
<1>2. CASE MainStep \/ ReadStep \/ Square \/ WorkerEnds \/ PeerClose
  BY <1>2, MainKeeps, MainWritesKeep, LaunchKeeps DEF MainStep, ReadStep
<1>3. CASE \E t \in Started : ThreadStep(t) \/ (Alive /\ ProveFastStopped(t))
  BY <1>3, ProvesKeeps, WritesKeep DEF ThreadStep, Proves
<1> QED BY <1>1, <1>2, <1>3 DEF Next

\* Every proof arrives whole: no other write comes between its size and its body,
\* whichever threads write and whenever the connection breaks.
THEOREM FramesAreWhole == Spec => []FramesWhole
<1>1. SafeInv => FramesWhole
  BY DEF SafeInv, WireInv, FramesWhole
<1> QED BY <1>1, InitSafe, NextKeepsSafe, PTL DEF Spec

----------------------------------------------------------------------------
(***************************************************************************)
(* The flags of the proving threads                                        *)
(***************************************************************************)

\* Every thread of a 2-weso session has its element of stop_vector, and as long
\* as main reads none of them is set, whatever the memory held at first.
FlagsInv ==
  mode = "T" =>
    /\ Len(threads) <= kMaxProcessesAllowed
    /\ pc = "read" => \A t \in Started : ~stop_vector[t]

LEMMA InitFlags == Init => FlagsInv
BY DEF Init, FlagsInv

\* A new thread's flag is cleared before the thread is started.
LEMMA IterationKeepsFlags ==
  ASSUME SafeInv, FlagsInv, NEW i \in Iters, IterationTwoWeso(i)
  PROVE  FlagsInv'
<1>0. /\ TypeInv /\ mode = "T" /\ mode' = "T" /\ pc = "read"
      /\ Len(threads) <= kMaxProcessesAllowed /\ \A t \in Started : ~stop_vector[t]
      /\ Started = 1 .. Len(threads) /\ Len(threads) \in Nat
  BY StartedIsInterval DEF SafeInv, FlagsInv, IterationTwoWeso
<1>1. CASE Launch(i) /\ stop_vector' = Flags(Len(threads) + 1)
           /\ Len(threads) + 1 <= kMaxProcessesAllowed
  <2>1. Started' = Started \union {Len(threads) + 1} /\ Len(threads') = Len(threads) + 1
    BY <1>0, <1>1, LaunchFacts
  <2>2. \A t \in Started' : ~stop_vector'[t]
    BY <1>0, <1>1, <2>1, SessionAssumption DEF Flags, TypeInv
  <2> QED BY <1>1, <2>1, <2>2 DEF FlagsInv
<1>2. CASE UNCHANGED <<threads, stop_vector>>
  BY <1>0, <1>2 DEF FlagsInv, Started
<1> QED BY <1>1, <1>2 DEF IterationTwoWeso

\* Steps that leave the flags alone and start no thread; main does not come
\* back to reading.
LEMMA SameFlags ==
  ASSUME FlagsInv, UNCHANGED <<mode, stop_vector>>, pc' = "read" => pc = "read",
         Started' = Started, Len(threads') = Len(threads)
  PROVE  FlagsInv'
BY DEF FlagsInv

LEMMA NextKeepsFlags ==
  ASSUME SafeInv, FlagsInv, [Next]_vars
  PROVE  FlagsInv'
<1>0. TypeInv /\ MainInv
  BY DEF SafeInv
<1>1. CASE ReadProverType \/ WriteOK
  <2>1. threads' = << >>
    BY <1>0, <1>1 DEF ReadProverType, WriteOK, MainInv, threadVars
  <2>2. Started' = {} /\ Len(threads') = 0
    BY <2>1, EmptySeq DEF Started
  <2> QED BY <2>2, SessionAssumption DEF FlagsInv
<1>2. CASE StopSignal
  BY <1>2 DEF StopSignal, FlagsInv
<1>3. CASE \E i \in Iters : FirstIteration(i) \/ IterationFast(i)
  BY <1>0, <1>3 DEF FirstIteration, IterationFast, MainInv, FlagsInv
<1>4. CASE \E i \in Iters : IterationTwoWeso(i)
  BY <1>4, IterationKeepsFlags
<1>5. CASE \E t \in Started : ThreadStep(t) \/ (Alive /\ ProveFastStopped(t))
  <2>1. PICK t \in Started : Proves(t) \/ Lock(t) \/ WriteSize(t) \/ WriteBody(t) \/ WriteThrows(t)
    BY <1>5 DEF ThreadStep, Proves
  <2>2. UNCHANGED <<mode, stop_vector>> /\ (pc' = "read" => pc = "read")
    BY <1>0, <2>1, ProvesGoto
    DEF Lock, WriteSize, WriteBody, WriteThrows, OutsideThreads, threadVars
  <2>3. threads' = threads \/ \E to \in ThreadPcs : Goto(t, to)
    BY <1>0, <2>1, ProvesGoto DEF Lock, WriteSize, WriteBody, WriteThrows, ThreadPcs, threadVars
  <2>4. Started' = Started /\ Len(threads') = Len(threads)
    BY <1>0, <2>3, GotoFacts DEF Started
  <2> QED BY <2>2, <2>4, SameFlags
<1>6. CASE \/ InitSession \/ DeserializeForm \/ Join \/ FinishSession \/ ReadAck
           \/ FirstStop \/ ReadFails \/ Square \/ WorkerEnds \/ PeerClose
           \/ (\E i \in Iters : IgnoreOneWeso(i)) \/ UNCHANGED vars
  <2>1. UNCHANGED <<mode, stop_vector, threads>> /\ (pc' = "read" => pc = "read")
    BY <1>6
    DEF InitSession, DeserializeForm, Join, FinishSession, ReadAck, FirstStop, Unwind,
        ReadFails, Square, WorkerEnds, PeerClose, IgnoreOneWeso, vars, threadVars
  <2> QED BY <2>1, SameFlags DEF Started
<1> QED BY <1>1, <1>2, <1>3, <1>4, <1>5, <1>6 DEF Next, MainStep, ReadStep

----------------------------------------------------------------------------
(***************************************************************************)
(* The session implements VdfService                                       *)
(***************************************************************************)

Word == [what : {"OK", "proof", "STOP"}, iters : Nat]

Parts == [n \in DOMAIN wire |->
  IF wire[n].what = "size" THEN << >> ELSE <<Message(wire[n])>>]

\* Threads may come and go on, but none changes its iteration.
ItersKept == Started \subseteq Started' /\ \A t \in Started : threads'[t].iters = threads[t].iters

LEMMA ItersAreNaturals == Iters \subseteq Nat
BY SessionAssumption

LEMMA MessageType ==
  ASSUME SafeInv, NEW n \in DOMAIN wire, wire[n].what # "size"
  PROVE  Message(wire[n]) \in Word
<1>1. wire[n] \in Token
  BY ElementOfSeq, LenProperties DEF SafeInv, TypeInv
<1>2. CASE wire[n].what = "body"
  <2>1. threads[wire[n].by].iters \in Nat
    <3>1. wire[n].by \in Started
      BY <1>2 DEF SafeInv, WireInv
    <3>2. threads[wire[n].by] \in Thread
      BY <3>1, StartedIsInterval DEF SafeInv
    <3> QED BY <3>2, ItersAreNaturals DEF Thread
  <2> QED BY <1>2, <2>1 DEF Message, Word
<1>3. CASE wire[n].what # "body"
  <2>1. wire[n].what \in {"OK", "STOP"}
    BY <1>1, <1>3 DEF Token
  <2> QED BY <1>3, <2>1 DEF Message, Word
<1> QED BY <1>2, <1>3

LEMMA PartsType ==
  ASSUME SafeInv
  PROVE  Parts \in Seq(Seq(Word)) /\ Len(Parts) = Len(wire)
<1>1. DOMAIN wire = 1 .. Len(wire) /\ Len(wire) \in Nat
  BY LenProperties DEF SafeInv, TypeInv
<1>2. ASSUME NEW n \in DOMAIN wire
      PROVE  (IF wire[n].what = "size" THEN << >> ELSE <<Message(wire[n])>>) \in Seq(Word)
  <2>1. << >> \in Seq(Word)
    BY EmptySeq
  <2>2. CASE wire[n].what # "size"
    <3> DEFINE m == Message(wire[n])
    <3>1. m \in Word
      BY <2>2, MessageType
    <3> HIDE DEF m
    <3>2. <<m>> \in Seq(Word)
      BY <3>1
    <3> QED BY <2>2, <3>2 DEF m
  <2> QED BY <2>1, <2>2
<1>3. Parts \in [1 .. Len(wire) -> Seq(Word)]
  BY <1>1, <1>2 DEF Parts
<1>4. Parts \in Seq(Seq(Word))
  BY <1>1, <1>3, SeqDef
<1>5. DOMAIN Parts = 1 .. Len(Parts) /\ Len(Parts) \in Nat
  BY <1>4, LenProperties
<1> QED BY <1>1, <1>3, <1>4, <1>5

LEMMA SaidSame ==
  ASSUME SafeInv, wire' = wire, ItersKept
  PROVE  Said' = Said
<1>1. \A n \in DOMAIN wire : Message(wire[n])' = Message(wire[n])
  BY DEF Message, SafeInv, WireInv, ItersKept
<1>2. Parts' = Parts
  BY <1>1 DEF Parts
<1> QED BY <1>2 DEF Said, Parts

LEMMA SaidMore ==
  ASSUME SafeInv, NEW what \in {"OK", "size", "body", "STOP"}, NEW by \in Nat,
         WriteBy(what, by), ItersKept, what = "body" => by \in Started
  PROVE  Said' = CASE what = "size" -> Said
                   [] what = "body" -> Append(Said, [what |-> "proof", iters |-> threads[by].iters])
                   [] what \in {"OK", "STOP"} -> Append(Said, [what |-> what, iters |-> 0])
<1>1. TypeInv /\ WireInv
  BY DEF SafeInv
<1>2. /\ Len(wire') = Len(wire) + 1 /\ Len(wire) \in Nat
      /\ DOMAIN wire = 1 .. Len(wire) /\ DOMAIN wire' = 1 .. Len(wire) + 1
      /\ \A n \in 1 .. Len(wire) : wire'[n] = wire[n]
      /\ wire'[Len(wire) + 1] = [what |-> what, by |-> by]
  BY <1>1, WriteFacts
<1> DEFINE m == IF what = "body" THEN [what |-> "proof", iters |-> threads[by].iters]
                ELSE [what |-> what, iters |-> 0]
           last == IF what = "size" THEN << >> ELSE <<m>>
<1>3. what # "size" => m \in Word
  <2>1. what = "body" => threads[by].iters \in Nat
    <3>1. by \in Started => threads[by] \in Thread
      BY <1>1, StartedIsInterval
    <3> QED BY <3>1, ItersAreNaturals DEF Thread
  <2> QED BY <2>1 DEF Word
<1>4. last \in Seq(Word)
  <2>1. << >> \in Seq(Word)
    BY EmptySeq
  <2> HIDE DEF m
  <2>2. what # "size" => <<m>> \in Seq(Word)
    BY <1>3
  <2> QED BY <2>1, <2>2
<1>5. Parts \in Seq(Seq(Word)) /\ Len(Parts) = Len(wire)
  BY PartsType
<1>6. Parts' = Append(Parts, last)
  <2>1. /\ Append(Parts, last) \in Seq(Seq(Word)) /\ Len(Append(Parts, last)) = Len(wire) + 1
        /\ \A n \in 1 .. Len(wire) : Append(Parts, last)[n] = Parts[n]
        /\ Append(Parts, last)[Len(wire) + 1] = last
    <3> HIDE DEF last
    <3> QED BY <1>4, <1>5, AppendProperties
  <2>2. DOMAIN Append(Parts, last) = 1 .. Len(wire) + 1
    <3> HIDE DEF last
    <3> QED BY <2>1, LenProperties
  <2>3. \A n \in 1 .. Len(wire) : Parts'[n] = Parts[n]
    <3>1. \A n \in 1 .. Len(wire) : Message(wire[n])' = Message(wire[n])
      BY <1>1, <1>2 DEF Message, WireInv, ItersKept
    <3>2. \A n \in 1 .. Len(wire) : n \in DOMAIN wire /\ n \in DOMAIN wire'
      BY <1>2
    <3> QED BY <1>2, <3>1, <3>2 DEF Parts
  <2>4. Parts'[Len(wire) + 1] = last
    <3>1. Len(wire) + 1 \in DOMAIN wire' /\ wire'[Len(wire) + 1].what = what
          /\ wire'[Len(wire) + 1].by = by
      BY <1>2
    <3> DEFINE N == Len(wire) + 1
    <3>2. N \in DOMAIN wire' /\ wire'[N].what = what /\ wire'[N].by = by
      BY <3>1
    <3> HIDE DEF N
    <3>3. Parts'[N] = IF wire'[N].what = "size" THEN << >>
                      ELSE IF wire'[N].what = "body"
                             THEN <<[what |-> "proof", iters |-> threads'[wire'[N].by].iters]>>
                             ELSE <<[what |-> wire'[N].what, iters |-> 0]>>
      BY <3>2 DEF Parts, Message
    <3>4. what = "body" => threads'[by].iters = threads[by].iters
      BY DEF ItersKept
    <3>5. Parts'[N] = last
      BY <3>2, <3>3, <3>4
    <3> QED BY <3>5 DEF N
  <2>5. DOMAIN Parts' = 1 .. Len(wire) + 1
    BY <1>2 DEF Parts
  <2>6. \A n \in 1 .. Len(wire) + 1 : n \in 1 .. Len(wire) \/ n = Len(wire) + 1
    BY <1>2
  <2>7. \A n \in 1 .. Len(wire) + 1 : Parts'[n] = Append(Parts, last)[n]
    <3> HIDE DEF last
    <3> QED BY <2>1, <2>3, <2>4, <2>6
  <2>8. Parts' = [n \in DOMAIN Parts' |-> Parts'[n]]
    BY DEF Parts
  <2>9. Append(Parts, last) = [n \in DOMAIN Append(Parts, last) |-> Append(Parts, last)[n]]
    <3> HIDE DEF last
    <3> QED BY <2>1, LenProperties
  <2> HIDE DEF last
  <2> QED BY <2>2, <2>5, <2>7, <2>8, <2>9
<1>7. Said' = Said \o last /\ Said \in Seq(Word)
  <2>1. Said = FlattenSeq(Parts) /\ Said' = FlattenSeq(Parts')
    BY DEF Said, Parts
  <2> HIDE DEF last
  <2>2. FlattenSeq(Append(Parts, last)) = FlattenSeq(Parts) \o last
    BY <1>4, <1>5, FlattenAppend
  <2>3. FlattenSeq(Parts) \in Seq(Word)
    BY <1>5, FlattenIsSeq
  <2> QED BY <1>6, <2>1, <2>2, <2>3
<1>8. CASE what = "size"
  <2>1. Said \o << >> = Said
    BY <1>7, ConcatEmptySeq
  <2> QED BY <1>7, <1>8, <2>1
<1>9. CASE what # "size"
  <2>1. m \in Word
    BY <1>3, <1>9
  <2> HIDE DEF m
  <2>2. Append(Said, m) = Said \o <<m>>
    BY <1>7, <2>1, AppendIsConcat
  <2>3. Said' = Append(Said, m)
    BY <1>7, <1>9, <2>2
  <2> QED BY <1>9, <2>3 DEF m
<1> QED BY <1>8, <1>9

OpenThreads(i) == {t \in Started : threads[t].iters = i /\ threads[t].pc # "done"}

LEMMA OpenFinite ==
  ASSUME TypeInv, NEW i
  PROVE  IsFiniteSet(OpenThreads(i)) /\ Open(i) = Cardinality(OpenThreads(i)) /\ Open(i) \in Nat
<1>1. IsFiniteSet(Started)
  BY StartedIsInterval, FS_Interval
<1>2. OpenThreads(i) \in SUBSET Started
  BY DEF OpenThreads
<1>3. Open(i) = Cardinality(OpenThreads(i))
  BY DEF Open, OpenThreads
<1> QED BY <1>1, <1>2, <1>3, FS_Subset, FS_CardinalityType

\* No thread starts or ends.
LEMMA OpenSame ==
  ASSUME Alive' = Alive, Started' = Started,
         \A u \in Started : /\ threads'[u].iters = threads[u].iters
                            /\ (threads'[u].pc = "done") = (threads[u].pc = "done")
  PROVE  Unanswered' = Unanswered
<1>1. ASSUME NEW i \in Iters PROVE Open(i)' = Open(i)
  <2>1. OpenThreads(i)' = OpenThreads(i)
    BY DEF OpenThreads
  <2> QED BY <2>1 DEF Open, OpenThreads
<1> QED BY <1>1 DEF Unanswered

LEMMA OpenMore ==
  ASSUME TypeInv, Alive, Alive', NEW i \in Iters, Launch(i)
  PROVE  Unanswered' = [Unanswered EXCEPT ![i] = @ + 1]
<1> DEFINE t == Len(threads) + 1
<1>1. /\ Started' = Started \union {t} /\ t \notin Started
      /\ \A u \in Started : threads'[u] = threads[u]
      /\ threads'[t].iters = i /\ threads'[t].pc = "wait"
  <2>1. /\ Started' = Started \union {t} /\ t \notin Started
        /\ \A u \in Started : threads'[u] = threads[u]
        /\ threads'[t] = [iters |-> i, pc |-> "wait"]
    BY LaunchFacts, Zenon
  <2> QED BY <2>1
<1> HIDE DEF t
<1>2. Open(i)' = Open(i) + 1
  <2>1. OpenThreads(i)' = OpenThreads(i) \union {t} /\ t \notin OpenThreads(i)
    BY <1>1 DEF OpenThreads
  <2>2. Cardinality(OpenThreads(i) \union {t}) = Cardinality(OpenThreads(i)) + 1
    BY <2>1, OpenFinite, FS_AddElement
  <2>3. Open(i)' = Cardinality(OpenThreads(i)')
    BY DEF Open, OpenThreads
  <2> QED BY <2>1, <2>2, <2>3, OpenFinite
<1>3. ASSUME NEW j \in Iters, j # i PROVE Open(j)' = Open(j)
  <2>1. OpenThreads(j)' = OpenThreads(j)
    BY <1>1, <1>3 DEF OpenThreads
  <2> QED BY <2>1 DEF Open, OpenThreads
<1> QED BY <1>2, <1>3 DEF Unanswered

LEMMA OpenLess ==
  ASSUME TypeInv, Alive, Alive', NEW t \in Started, threads[t].pc # "done", Goto(t, "done")
  PROVE  /\ threads[t].iters \in Iters /\ Unanswered[threads[t].iters] > 0
         /\ Unanswered' = [Unanswered EXCEPT ![threads[t].iters] = @ - 1]
<1>0. PICK i \in Iters : i = threads[t].iters
  BY StartedIsInterval DEF Thread
<1>1. /\ Started' = Started
      /\ \A u \in Started : /\ threads'[u].iters = threads[u].iters
                            /\ threads'[u].pc = IF u = t THEN "done" ELSE threads[u].pc
  BY GotoFacts DEF ThreadPcs
<1>2. t \in OpenThreads(i)
  BY <1>0 DEF OpenThreads
<1>3. IsFiniteSet(OpenThreads(i)) /\ Open(i) = Cardinality(OpenThreads(i)) /\ Open(i) \in Nat
  BY OpenFinite
<1>4. Open(i)' = Open(i) - 1 /\ Open(i) > 0
  <2>1. OpenThreads(i)' = OpenThreads(i) \ {t}
    <3>1. \A u \in Started : u # t => (u \in OpenThreads(i)' <=> u \in OpenThreads(i))
      BY <1>1 DEF OpenThreads
    <3>2. t \notin OpenThreads(i)'
      BY <1>1 DEF OpenThreads
    <3>3. OpenThreads(i)' \subseteq Started /\ OpenThreads(i) \subseteq Started
      BY <1>1 DEF OpenThreads
    <3> QED BY <3>1, <3>2, <3>3
  <2>2. Cardinality(OpenThreads(i) \ {t}) = Cardinality(OpenThreads(i)) - 1
    <3> QED BY <1>2, <1>3, FS_RemoveElement
  <2>3. Open(i)' = Cardinality(OpenThreads(i)')
    BY <1>1 DEF Open, OpenThreads
  <2>4. Cardinality(OpenThreads(i)) # 0
    BY <1>2, <1>3, FS_EmptySet
  <2> QED BY <1>3, <2>1, <2>2, <2>3, <2>4
<1>5. ASSUME NEW j \in Iters, j # i PROVE Open(j)' = Open(j)
  <2>1. OpenThreads(j)' = OpenThreads(j)
    BY <1>0, <1>1, <1>5 DEF OpenThreads
  <2> QED BY <2>1 DEF Open, OpenThreads
<1> QED BY <1>0, <1>4, <1>5 DEF Unanswered

LEMMA OpenNone ==
  ASSUME \A t \in Started : threads[t].pc = "done"
  PROVE  Unanswered = [i \in Iters |-> 0]
<1>1. \A i \in Iters : Open(i) = 0
  <2>1. \A i \in Iters : {t \in Started : threads[t].iters = i /\ threads[t].pc # "done"} = {}
    OBVIOUS
  <2> QED BY <2>1, FS_EmptySet DEF Open
<1> QED BY <1>1 DEF Unanswered

\* What the peer takes the session to be in, by where main is.
LEMMA PhaseNow ==
  ASSUME MainInv
  PROVE  /\ pc \in {"exit", "failed", "terminated", "ack"} => Phase = "over"
         /\ pc \in {"type", "init", "form", "ok"} => Phase = "opening"
         /\ pc = "finish" => Phase = IF wire = << >> THEN "opening" ELSE "stopping"
         /\ pc = "join" => Phase = "stopping"
         /\ pc \in {"first", "read"} => Phase = "serving"
         /\ pc = "undefined" => Phase = "undefined"
BY DEF Phase, MainInv, Ended

LEMMA PhaseNext ==
  ASSUME MainInv'
  PROVE  /\ pc' \in {"exit", "failed", "terminated", "ack"} => Phase' = "over"
         /\ pc' \in {"type", "init", "form", "ok"} => Phase' = "opening"
         /\ pc' = "finish" => Phase' = IF wire' = << >> THEN "opening" ELSE "stopping"
         /\ pc' = "join" => Phase' = "stopping"
         /\ pc' \in {"first", "read"} => Phase' = "serving"
         /\ pc' = "undefined" => Phase' = "undefined"
BY DEF Phase, MainInv, Ended

\* Main's steps before the threads.
LEMMA OpeningSimulated ==
  ASSUME SafeInv, SafeInv',
         ReadProverType \/ InitSession \/ DeserializeForm \/ WriteOK
  PROVE  [Service!Next]_(Service!vars)
<1>0. MainInv /\ MainInv' /\ threads = << >> /\ threads' = << >> /\ Phase = "opening" /\ Started = {}
      /\ Alive /\ Len(threads') = Len(threads)
  <2>1. MainInv /\ MainInv' /\ pc \in {"type", "init", "form", "ok"} /\ threads' = threads
    BY DEF SafeInv, ReadProverType, InitSession, DeserializeForm, WriteOK, threadVars
  <2> QED BY <2>1, PhaseNow DEF MainInv, Started, Alive, Ended
<1>1. Unanswered = [i \in Iters |-> 0] /\ Unanswered' = [i \in Iters |-> 0]
  <2>1. Unanswered = [i \in Iters |-> 0]
    BY <1>0, OpenNone
  <2>2. CASE Alive'
    <3>1. Unanswered' = Unanswered
      BY <1>0, <2>2, OpenSame DEF Started
    <3> QED BY <2>1, <3>1, Zenon
  <2>3. CASE ~Alive'
    <3>1. Unanswered' = [i \in Iters |-> 0]
      BY <2>3 DEF Unanswered
    <3> QED BY <2>1, <3>1, Zenon
  <2> QED BY <2>2, <2>3, Zenon
<1>2. ItersKept
  BY <1>0 DEF ItersKept, Started
<1>3. CASE wire' = wire
  <2>1. Said' = Said
    BY <1>2, <1>3, SaidSame
  <2>2. \/ pc' \in {"init", "form", "ok", "exit", "failed", "terminated"}
        \/ pc' = "finish" /\ wire' = << >>
        \/ WriteBy("OK", Main)
    BY <1>0, <1>3 DEF ReadProverType, InitSession, DeserializeForm, WriteOK, Unwind, MainInv
  <2>3. ~WriteBy("OK", Main)
    <3>1. 0 \in Nat /\ "OK" \in {"OK", "size", "body", "STOP"}
      OBVIOUS
    <3>2. WriteBy("OK", 0) => Len(wire') = Len(wire) + 1 /\ Len(wire) \in Nat
      BY <3>1, WriteFacts DEF SafeInv
    <3> QED BY <1>3, <3>2 DEF Main
  <2>4. Phase' \in {"opening", "over"}
    BY <1>0, <2>2, <2>3, PhaseNext
  <2> QED BY <1>0, <1>1, <2>1, <2>4
      DEF Service!Next, Service!Vanish, Service!vars
<1>4. CASE wire' # wire
  <2>1. WriteBy("OK", Main) /\ pc' \in {"first", "read"}
    BY <1>4 DEF ReadProverType, InitSession, DeserializeForm, WriteOK, socketVars
  <2>2. Said' = Append(Said, [what |-> "OK", iters |-> 0])
    <3>1. 0 \in Nat /\ "OK" \in {"OK", "size", "body", "STOP"} /\ WriteBy("OK", 0)
      BY <2>1 DEF Main
    <3> QED BY <1>2, <3>1, SaidMore
  <2>3. Phase' = "serving"
    BY <1>0, <2>1, PhaseNext
  <2> QED BY <1>0, <1>1, <2>2, <2>3 DEF Service!Next, Service!Ready, Service!Say
<1> QED BY <1>3, <1>4

\* Requests.
LEMMA RequestSimulated ==
  ASSUME SafeInv, SafeInv', NEW i \in Iters,
         FirstIteration(i) \/ IterationFast(i) \/ IterationTwoWeso(i) \/ IgnoreOneWeso(i)
  PROVE  [Service!Next]_(Service!vars)
<1>0. TypeInv /\ MainInv /\ MainInv' /\ wire' = wire /\ Phase = "serving" /\ Alive
  <2>1. TypeInv /\ MainInv /\ MainInv' /\ wire' = wire /\ pc \in {"first", "read"}
    BY DEF SafeInv, FirstIteration, IterationFast, IterationTwoWeso, IgnoreOneWeso, socketVars
  <2> QED BY <2>1, PhaseNow DEF Alive, Ended
<1>1. CASE threads' = threads /\ pc' = "read"
  <2>1. ItersKept /\ Alive'
    BY <1>1 DEF ItersKept, Started, Alive, Ended
  <2>2. Said' = Said /\ Unanswered' = Unanswered /\ Phase' = "serving"
    BY <1>0, <1>1, <2>1, SaidSame, OpenSame, PhaseNext DEF Started
  <2> QED BY <1>0, <1>1, <2>2 DEF Service!vars
<1>2. CASE Launch(i) /\ pc' = "read"
  <2>1. /\ Len(threads) \in Nat /\ Len(threads') = Len(threads) + 1 /\ ItersKept /\ Alive'
    BY <1>0, <1>2, LaunchFacts, StartedIsInterval DEF ItersKept, Alive, Ended
  <2>2. Said' = Said /\ Unanswered' = [Unanswered EXCEPT ![i] = @ + 1] /\ Phase' = "serving"
    BY <1>0, <1>2, <2>1, SaidSame, OpenMore, PhaseNext
  <2> QED BY <1>0, <2>1, <2>2 DEF Service!Next, Service!Request
<1>3. CASE pc' = "undefined" /\ Len(threads) + 1 > kMaxProcessesAllowed
  <2>1. Phase' = "undefined"
    BY <1>0, <1>3, PhaseNext
  <2>2. Len(threads) >= kMaxProcessesAllowed
    BY <1>0, <1>3, StartedIsInterval, SessionAssumption
  <2> QED BY <1>0, <2>1, <2>2 DEF Service!Next, Service!Overload
<1>4. \/ threads' = threads /\ pc' = "read"
      \/ Launch(i) /\ pc' = "read"
      \/ pc' = "undefined" /\ Len(threads) + 1 > kMaxProcessesAllowed
  BY DEF FirstIteration, IterationFast, IterationTwoWeso, IgnoreOneWeso, threadVars
<1> QED BY <1>1, <1>2, <1>3, <1>4, Zenon

\* The stop and what follows it.
LEMMA StoppingSimulated ==
  ASSUME SafeInv, SafeInv',
         FirstStop \/ StopSignal \/ ReadFails \/ Join \/ FinishSession \/ ReadAck
  PROVE  [Service!Next]_(Service!vars)
<1>0. TypeInv /\ MainInv /\ MainInv' /\ threads' = threads /\ mode' = mode /\ ItersKept
      /\ Started' = Started /\ Len(threads') = Len(threads)
  BY DEF SafeInv, FirstStop, StopSignal, ReadFails, Join, FinishSession, ReadAck, threadVars,
         ItersKept, Started
<1>a. Alive' = Alive => Unanswered' = Unanswered
  BY <1>0, OpenSame
<1>b. ~Alive' => Unanswered' = [i \in Iters |-> 0]
  BY DEF Unanswered
<1>1. CASE FirstStop \/ StopSignal \/ Join
  <2>1. wire' = wire /\ wire # << >> /\ Alive' = Alive /\ Phase \in {"serving", "stopping"}
        /\ Phase' = "stopping"
    <3>1. wire' = wire /\ wire # << >> /\ pc \in {"first", "read", "join"} /\ pc' \in {"join", "finish"}
      BY <1>0, <1>1 DEF FirstStop, StopSignal, Join, socketVars, MainInv
    <3> QED BY <1>0, <3>1, PhaseNow, PhaseNext DEF Alive, Ended
  <2>2. Said' = Said
    BY <1>0, <2>1, SaidSame
  <2>3. CASE Phase = "serving"
    <3>1. Unanswered' = Unanswered /\ Said' = Said /\ Phase' = "stopping"
      BY <1>a, <2>1, <2>2, Zenon
    <3>2. Service!Stop
      BY <1>0, <2>3, <3>1 DEF Service!Stop
    <3> QED BY <3>2 DEF Service!Next
  <2>4. CASE Phase = "stopping"
    BY <1>0, <1>a, <2>1, <2>2, <2>4 DEF Service!vars
  <2>5. Phase = "serving" \/ Phase = "stopping"
    BY <2>1
  <2> QED BY <2>3, <2>4, <2>5, Zenon
<1>2. CASE ReadFails
  <2>1. wire' = wire /\ pc = "read" /\ pc' = "terminated" /\ ~Alive'
    BY <1>0, <1>2 DEF ReadFails, Unwind, MainInv, socketVars, Alive, Ended
  <2>2. Phase = "serving" /\ Phase' = "over" /\ Said' = Said
    BY <1>0, <2>1, PhaseNow, PhaseNext, SaidSame
  <2> QED BY <1>0, <1>b, <2>1, <2>2 DEF Service!Next, Service!Vanish
<1>3. CASE ReadAck
  <2>1. wire' = wire /\ pc = "ack" /\ pc' = "exit" /\ ~Alive'
    BY <1>3 DEF ReadAck, Alive, Ended
  <2>2. Phase = "over" /\ Phase' = "over" /\ Said' = Said
    BY <1>0, <2>1, PhaseNow, PhaseNext, SaidSame
  <2>3. Unanswered = [i \in Iters |-> 0]
    BY <1>0, <2>1, OpenNone DEF MainInv
  <2>4. Unanswered' = Unanswered
    BY <1>b, <2>1, <2>3, Zenon
  <2> QED BY <1>0, <2>2, <2>4 DEF Service!vars
<1>4. CASE FinishSession
  <2>1. pc = "finish" /\ Phase \in {"opening", "stopping"}
    BY <1>0, <1>4, PhaseNow DEF FinishSession
  <2>2. Unanswered = [i \in Iters |-> 0]
    BY <1>0, <2>1, OpenNone DEF MainInv
  <2>3. CASE wire' = wire /\ pc' = "exit"
    <3>1. Phase' = "over" /\ Said' = Said /\ Unanswered' = [i \in Iters |-> 0]
      BY <1>0, <1>b, <2>3, PhaseNext, SaidSame DEF Alive, Ended
    <3> QED BY <1>0, <2>1, <3>1 DEF Service!Next, Service!Vanish
  <2>4. CASE WriteBy("STOP", Main) /\ pc' = "ack"
    <3>1. Said' = Append(Said, [what |-> "STOP", iters |-> 0])
      <4>1. 0 \in Nat /\ "STOP" \in {"OK", "size", "body", "STOP"} /\ WriteBy("STOP", 0)
        BY <2>4 DEF Main
      <4> QED BY <1>0, <4>1, SaidMore
    <3>2. Phase' = "over" /\ Alive' = Alive
      BY <1>0, <2>1, <2>4, PhaseNext DEF Alive, Ended
    <3>3. \A i \in Iters : Unanswered[i] = 0
      BY <2>2
    <3> QED BY <1>0, <1>a, <2>1, <3>1, <3>2, <3>3
        DEF Service!Next, Service!SayStop, Service!Say, Service!NothingOpen
  <2> QED BY <1>4, <2>3, <2>4 DEF FinishSession
<1> QED BY <1>1, <1>2, <1>3, <1>4

\* Before the stop a session tells no thread to stop.
LEMMA NobodyToldToStop ==
  ASSUME SafeInv, FlagsInv, pc = "read", NEW t \in Started
  PROVE  ~Told(t)
BY DEF SafeInv, MainInv, FlagsInv, Told

\* The proving threads.
LEMMA ThreadSimulated ==
  ASSUME SafeInv, SafeInv', FlagsInv, Alive, NEW t \in Started,
         Proves(t) \/ Lock(t) \/ WriteSize(t) \/ WriteBody(t) \/ WriteThrows(t)
  PROVE  [Service!Next]_(Service!vars)
<1>0. /\ TypeInv /\ MainInv /\ MainInv' /\ t \in Nat
      /\ threads[t].pc # "done" /\ threads[t] \in Thread
      /\ pc \in {"read", "join"} /\ Phase = (IF pc = "read" THEN "serving" ELSE "stopping")
  <2>1. TypeInv /\ MainInv /\ MainInv'
    BY DEF SafeInv
  <2>2. threads[t].pc # "done"
    BY <2>1, ProvesGoto DEF Lock, WriteSize, WriteBody, WriteThrows
  <2>3. pc \in {"read", "join"}
    BY <2>2, ThreadRuns
  <2> QED BY <2>1, <2>2, <2>3, PhaseNow, StartedIsInterval
<1>1. CASE WriteThrows(t)
  <2>1. threads' = threads /\ wire' = wire /\ pc' = "terminated" /\ ~Alive' /\ ItersKept
    BY <1>1 DEF WriteThrows, threadVars, socketVars, Alive, Ended, ItersKept, Started
  <2>2. Phase' = "over" /\ Said' = Said /\ Unanswered' = [i \in Iters |-> 0]
    BY <1>0, <2>1, PhaseNext, SaidSame DEF Unanswered
  <2> QED BY <1>0, <2>1, <2>2 DEF Service!Next, Service!Vanish
<1>2. CASE ~WriteThrows(t)
  <2>0. PICK to \in ThreadPcs : Goto(t, to) /\ pc' = pc
    BY <1>0, <1>2, ProvesGoto DEF Lock, WriteSize, WriteBody, ThreadPcs, OutsideThreads
  <2>1. /\ Len(threads') = Len(threads) /\ Started' = Started /\ ItersKept
        /\ \A u \in Started : /\ threads'[u].iters = threads[u].iters
                              /\ threads'[u].pc = IF u = t THEN to ELSE threads[u].pc
    BY <1>0, <2>0, GotoFacts DEF ItersKept
  <2>2. Phase' = Phase /\ Alive'
    BY <1>0, <2>0, PhaseNext DEF Alive
  <2>3. CASE WriteBody(t)
    <3>1. Goto(t, "done") /\ WriteBy("body", t)
      BY <2>3 DEF WriteBody
    <3>2. Said' = Append(Said, [what |-> "proof", iters |-> threads[t].iters])
      BY <1>0, <2>1, <3>1, SaidMore
    <3>3. /\ threads[t].iters \in Iters /\ Unanswered[threads[t].iters] > 0
          /\ Unanswered' = [Unanswered EXCEPT ![threads[t].iters] = @ - 1]
      BY <1>0, <2>2, <3>1, OpenLess
    <3> QED BY <1>0, <2>1, <2>2, <3>2, <3>3 DEF Service!Next, Service!Answer, Service!Say
  <2>4. CASE Proves(t)
    <3>1. wire' = wire
      BY <1>0, <2>4, ProvesGoto DEF socketVars
    <3>2. Said' = Said
      BY <2>1, <3>1, SaidSame
    <3>3. PICK dest \in {"prove", "check", "poll", "done", "lock"} :
            Goto(t, dest) /\ (dest = "done" => Told(t))
      BY <1>0, <2>4, ProvesGoto
    <3>4. CASE dest = "done"
      <4>1. pc = "join" /\ Goto(t, "done")
        BY <1>0, <3>3, <3>4, NobodyToldToStop
      <4>2. /\ threads[t].iters \in Iters /\ Unanswered[threads[t].iters] > 0
            /\ Unanswered' = [Unanswered EXCEPT ![threads[t].iters] = @ - 1]
        BY <1>0, <2>2, <4>1, OpenLess
      <4> QED BY <1>0, <2>1, <2>2, <3>2, <4>1, <4>2 DEF Service!Next, Service!GiveUp
    <3>5. CASE dest # "done"
      <4>0. dest \in ThreadPcs /\ Goto(t, dest)
        BY <3>3, Zenon DEF ThreadPcs
      <4>1. \A u \in Started : /\ threads'[u].iters = threads[u].iters
                               /\ threads'[u].pc = IF u = t THEN dest ELSE threads[u].pc
        <5>1. TypeInv
          BY <1>0
        <5> QED BY <4>0, <5>1, GotoFacts, Zenon
      <4>2. Unanswered' = Unanswered
        BY <1>0, <2>1, <2>2, <3>5, <4>1, OpenSame
      <4> QED BY <2>1, <2>2, <3>2, <4>2 DEF Service!vars
    <3> QED BY <3>4, <3>5
  <2>5. CASE Lock(t) \/ WriteSize(t)
    <3>1. PICK dest \in {"size", "body"} : Goto(t, dest)
      BY <2>5 DEF Lock, WriteSize
    <3>2. \A u \in Started : /\ threads'[u].iters = threads[u].iters
                             /\ threads'[u].pc = IF u = t THEN dest ELSE threads[u].pc
      BY <1>0, <3>1, GotoFacts DEF ThreadPcs
    <3>3. Unanswered' = Unanswered
      BY <1>0, <2>1, <2>2, <3>2, OpenSame
    <3>4. Said' = Said
      BY <1>0, <2>1, <2>5, SaidSame, SaidMore DEF Lock, WriteSize
    <3> QED BY <2>1, <2>2, <3>3, <3>4 DEF Service!vars
  <2> QED BY <1>2, <2>3, <2>4, <2>5
<1> QED BY <1>1, <1>2

\* The squaring thread and the peer are not seen.
LEMMA UnseenSimulated ==
  ASSUME SafeInv, SafeInv', Square \/ WorkerEnds \/ PeerClose \/ UNCHANGED vars
  PROVE  UNCHANGED Service!vars
<1>0. UNCHANGED <<mode, pc, threads, wire>> /\ Alive' = Alive
  BY DEF Square, WorkerEnds, PeerClose, vars, threadVars, socketVars, Alive
<1>1. ItersKept /\ Started' = Started
  BY <1>0 DEF ItersKept, Started
<1>2. Said' = Said /\ Unanswered' = Unanswered
  BY <1>0, <1>1, SaidSame, OpenSame
<1>3. Phase' = Phase
  BY <1>0 DEF Phase
<1> QED BY <1>0, <1>2, <1>3 DEF Service!vars

LEMMA InitSimulated == Init => Service!Init
<1> SUFFICES ASSUME Init PROVE Service!Init
  OBVIOUS
<1>1. SafeInv /\ threads = << >> /\ wire = << >> /\ pc = "type" /\ mode = "none" /\ Started = {}
  BY InitSafe DEF Init, Started
<1>2. Phase = "opening"
  BY <1>1, PhaseNow DEF SafeInv
<1>3. Unanswered = [i \in Iters |-> 0]
  BY <1>1, OpenNone
<1>4. Len(threads) = 0
  BY <1>1, EmptySeq
<1>5. Said = << >>
  <2>1. Parts \in Seq(Seq(Word)) /\ Len(Parts) = 0
    BY <1>1, PartsType, EmptySeq
  <2>2. FlattenSeq(Parts) = << >>
    BY <2>1, FlattenIsSeq
  <2> QED BY <2>2 DEF Said, Parts
<1> QED BY <1>2, <1>3, <1>4, <1>5 DEF Service!Init

LEMMA NextSimulated ==
  ASSUME SafeInv, SafeInv', FlagsInv, [Next]_vars
  PROVE  [Service!Next]_(Service!vars)
<1>1. CASE UNCHANGED vars
  <2>1. UNCHANGED <<mode, pc, threads, wire>> /\ Alive' = Alive
    BY <1>1 DEF vars, threadVars, socketVars, Alive
  <2>2. ItersKept /\ Started' = Started
    BY <2>1 DEF ItersKept, Started
  <2>3. Said' = Said /\ Unanswered' = Unanswered
    BY <2>1, <2>2, SaidSame, OpenSame
  <2>4. Phase' = Phase
    BY <2>1 DEF Phase
  <2> QED BY <2>1, <2>3, <2>4 DEF Service!vars
<1>2. CASE \E i \in Iters : \/ FirstIteration(i) \/ IterationFast(i) \/ IterationTwoWeso(i)
                            \/ IgnoreOneWeso(i)
  BY <1>2, RequestSimulated
<1>3. CASE Square \/ WorkerEnds \/ PeerClose
  BY <1>3, UnseenSimulated
<1>4. CASE ReadProverType \/ InitSession \/ DeserializeForm \/ WriteOK
  BY <1>4, OpeningSimulated
<1>5. CASE FirstStop \/ StopSignal \/ ReadFails \/ Join \/ FinishSession \/ ReadAck
  BY <1>5, StoppingSimulated
<1>6. CASE \E t \in Started : ThreadStep(t) \/ (Alive /\ ProveFastStopped(t))
  BY <1>6, ThreadSimulated DEF ThreadStep, Proves
<1> QED BY <1>1, <1>2, <1>3, <1>4, <1>5, <1>6 DEF Next, MainStep, ReadStep

\* Every session, in each of its modes, implements VdfService: OK first, at most
\* one whole answer to a request, none given up before the stop, and STOP last,
\* when no thread can write any more; whatever the peer sends and whenever it goes.
THEOREM SessionImplementsService == Spec => ImplementsService
<1>1. Init => Service!Init
  BY InitSimulated
<1>2. SafeInv /\ SafeInv' /\ FlagsInv /\ [Next]_vars => [Service!Next]_(Service!vars)
  BY NextSimulated
<1> QED BY <1>1, <1>2, InitSafe, NextKeepsSafe, InitFlags, NextKeepsFlags, PTL
        DEF Spec, ImplementsService, Service!Spec

=============================================================================
