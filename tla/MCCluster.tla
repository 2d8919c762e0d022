----------------------------- MODULE MCCluster -----------------------------
(* Hashes for up to three nodes with two virtual nodes each, on a ring of  *)
(* eight values. The second points of n1 and n2 collide, at 1: they are    *)
(* equally close to the key k1, as nodes named n1 and n11 are to some. All *)
(* other keys have one closest node: k0, whose hash counts as missing, and *)
(* k5 and k7 in the arcs of n2 and n3.                                     *)
EXTENDS Cluster

MCHash == [p \in Point |->
    CASE p = <<"n1", 0>> -> 2 [] p = <<"n2", 0>> -> 4 [] p[1] = "n3" -> 6
      [] p \in {<<"n1", 1>>, <<"n2", 1>>} -> 1]

MCKeyHash == [k \in Key |-> CASE k = "k0" -> 0 [] k = "k1" -> 1 [] k = "k5" -> 5 [] k = "k7" -> 7]
=============================================================================
