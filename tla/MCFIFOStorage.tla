--------------------------- MODULE MCFIFOStorage ---------------------------
(* Values of length 0, 1 and 2, so that a limit of 1 refuses one of them   *)
(* and lets two keys share what is left.                                   *)
EXTENDS FIFOStorage

MCSize == [v \in Value |-> CASE v = "empty" -> 0 [] v = "short" -> 1 [] v = "long" -> 2]

MCLimits == {-1, 0, 1, 3}

MCBothSigns == {-1, 1}
=============================================================================
