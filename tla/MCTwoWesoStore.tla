--------------------------- MODULE MCTwoWesoStore ---------------------------
(* TwoWesoStore with scaled-down distances: the strides stay 10 and 100.   *)
EXTENDS TwoWesoStore
=============================================================================
