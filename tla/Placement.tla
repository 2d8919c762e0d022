----------------------------- MODULE Placement -----------------------------
(***************************************************************************)
(* Where a key belongs: the placement rule behind the consistent hash ring *)
(* of consistent_hash_ring/index.go, stated over sets of virtual nodes and *)
(* without the sorted slice, its binary search or the order of insertion.  *)
(* HashRing shows that the slice computes this rule; Cluster builds on it. *)
(*                                                                         *)
(* Nothing is assumed of the hash. Name and index are joined without a     *)
(* separator, so the point 10 of "qad-node1" and the point 0 of            *)
(* "qad-node11" are hashed from one string: they collide, whatever the     *)
(* hash function. What holds only where no points collide says so.         *)
(***************************************************************************)
EXTENDS Integers, Sequences, FiniteSetsExt

CONSTANTS
    Node,           \* names of the processes that may ever be in the cluster
    NoNode,         \* the empty string an empty ring answers with
    VirtualNodes,   \* positions each node takes on the ring (150 in the code)
    HashSpace,      \* number of hash values (2^64 in the code)
    Hash            \* xxhash.Sum64String(name + fmt.Sprint(index)), external

\* A virtual node: the name of its owner and its index.
Point == Node \X (0 .. VirtualNodes - 1)

HashValue == 0 .. HashSpace - 1

ASSUME PlacementAssumption ==
    /\ NoNode \notin Node
    /\ VirtualNodes \in Nat \ {0}
    /\ HashSpace \in Nat \ {0}
    /\ Hash \in [Point -> HashValue]

PointsOf(n) == {n} \X (0 .. VirtualNodes - 1)

\* How far below h the point lies, going down from h and wrapping around at
\* zero. NodeOfDirect takes the largest hash that is not above h and, when
\* there is none, the largest of all: the point at the smallest distance.
Distance(p, h) == IF Hash[p] <= h THEN h - Hash[p] ELSE h - Hash[p] + HashSpace

Nearest(P, h) == {p \in P : \A q \in P : Distance(p, h) <= Distance(q, h)}

\* The nodes a lookup of h may answer when P is on the ring: exactly one,
\* unless points of several nodes collide.
Owners(P, h) == {p[1] : p \in Nearest(P, h)}

\* How far below h the closest point of a node lies.
Reach == [n \in Node |-> [h \in HashValue |-> Min({Distance(p, h) : p \in PointsOf(n)})]]

\* The node responsible for h when these nodes have joined, in this order (c.nodes):
\* of those with a nearest point the one that joined last.
Owner(order, h) ==
    LET nearest == {i \in DOMAIN order :
                        \A j \in DOMAIN order : Reach[order[i]][h] <= Reach[order[j]][h]}
    IN  IF order = <<>> THEN NoNode ELSE order[Max(nearest)]

\* m lies strictly closer to h than n, whatever other nodes are members.
Closer(m, n, h) == Reach[m][h] < Reach[n][h]

\* No two nodes are equally close to h, so the order of joins does not matter.
Undisputed(h) == \A m, n \in Node : Reach[m][h] = Reach[n][h] => m = n
=============================================================================
