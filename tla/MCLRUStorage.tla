---------------------------- MODULE MCLRUStorage ----------------------------
(* Values of length 0, 1 and 2, as for the FIFO storage.                   *)
EXTENDS LRUStorage

MCSize == [v \in Value |-> CASE v = "empty" -> 0 [] v = "short" -> 1 [] v = "long" -> 2]

MCLimits == {-1, 1, 3}
=============================================================================
