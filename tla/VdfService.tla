----------------------------- MODULE VdfService -----------------------------
(***************************************************************************)
(* What a session promises to the peer that ordered it, whatever the mode: *)
(* OK before anything else, for each accepted request at most one whole    *)
(* answer, and STOP as the last word, said only when nothing is left that  *)
(* could still answer.  A broken connection or a crash may end it early.   *)
(* Past its capacity of requests nothing is promised (see Overload).       *)
(***************************************************************************)
EXTENDS Naturals, Sequences

CONSTANTS
  Iters,      \* iteration numbers that may be asked for
  Capacity    \* how many requests a session is built for

VARIABLES
  phase,      \* "opening", "serving", "stopping", "over" or "undefined"
  open,       \* open[i]: requests for i that are neither answered nor given up
  taken,      \* requests accepted so far
  said        \* what the peer was told, in order

vars == <<phase, open, taken, said>>

Say(what, i) == Append(said, [what |-> what, iters |-> i])

NothingOpen == \A i \in Iters : open[i] = 0

Init ==
  /\ phase = "opening" /\ open = [i \in Iters |-> 0] /\ taken = 0
  /\ said = << >>

Ready ==
  /\ phase = "opening" /\ phase' = "serving" /\ said' = Say("OK", 0)
  /\ UNCHANGED <<open, taken>>

Request(i) ==
  /\ phase = "serving"
  /\ open' = [open EXCEPT ![i] = @ + 1] /\ taken' = taken + 1
  /\ UNCHANGED <<phase, said>>

\* One request more than the session is built for may break it.
Overload == taken >= Capacity /\ phase = "serving" /\ phase' = "undefined"

Answer(i) ==
  /\ phase \in {"serving", "stopping"} /\ open[i] > 0
  /\ open' = [open EXCEPT ![i] = @ - 1] /\ said' = Say("proof", i)
  /\ UNCHANGED <<phase, taken>>

\* Only the stop is a reason not to answer.
GiveUp(i) ==
  /\ phase = "stopping" /\ open[i] > 0
  /\ open' = [open EXCEPT ![i] = @ - 1]
  /\ UNCHANGED <<phase, taken, said>>

Stop ==
  /\ phase = "serving" /\ phase' = "stopping"
  /\ UNCHANGED <<open, taken, said>>

SayStop ==
  /\ phase \in {"opening", "serving", "stopping"} /\ NothingOpen
  /\ phase' = "over" /\ said' = Say("STOP", 0)
  /\ UNCHANGED <<open, taken>>

\* The session ends without a word.
Vanish ==
  /\ phase \in {"opening", "serving", "stopping"} /\ phase' = "over"
  /\ open' = [i \in Iters |-> 0]
  /\ UNCHANGED <<taken, said>>

Undefined == phase = "undefined" /\ phase' = "undefined"

Next ==
  \/ Ready \/ Stop \/ SayStop \/ Vanish \/ Overload \/ Undefined
  \/ \E i \in Iters : Request(i) \/ Answer(i) \/ GiveUp(i)

Spec == Init /\ [][Next]_vars

=============================================================================
