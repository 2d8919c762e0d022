--------------------------- MODULE Cluster_proofs ---------------------------
(***************************************************************************)
(* Theorems about Cluster, for every set of nodes, keys and values, every  *)
(* hash function and every bound; first about the rule of placement: a     *)
(* hash has an owner in every non-empty sequence of members, the closest   *)
(* of them, and where no two nodes are equally close neither the order of  *)
(* joins nor who else is a member changes who is closer.                   *)
(***************************************************************************)
EXTENDS Cluster, KeyQueues

\* A distance is a natural number.
LEMMA DistanceType ==
    ASSUME NEW p \in Point, NEW h \in HashValue
    PROVE  Distance(p, h) \in Nat
<1>1. Hash[p] \in 0 .. HashSpace - 1 /\ h \in 0 .. HashSpace - 1 /\ HashSpace \in Nat
  BY PlacementAssumption DEF HashValue
<1> QED BY <1>1 DEF Distance

\* A node reaches as far as its closest point.
LEMMA ReachIs ==
    ASSUME NEW n \in Node, NEW h \in HashValue
    PROVE  /\ Reach[n][h] \in Nat
           /\ \E p \in PointsOf(n) : Reach[n][h] = Distance(p, h)
           /\ \A p \in PointsOf(n) : Reach[n][h] <= Distance(p, h)
<1>. DEFINE D == {Distance(p, h) : p \in PointsOf(n)}
<1>1. PointsOf(n) \subseteq Point /\ <<n, 0>> \in PointsOf(n)
  BY PlacementAssumption DEF PointsOf, Point
<1>2. D \in SUBSET Nat /\ D # {}
  BY <1>1, DistanceType
<1>3. Reach[n][h] = Min(D)
  BY DEF Reach
<1>. HIDE DEF D
<1>4. \E x \in D : \A y \in D : x <= y
  BY <1>2, LeastNumber
<1>5. Min(D) \in D /\ \A y \in D : Min(D) <= y
  BY <1>4 DEF Min
<1>. QED BY <1>2, <1>3, <1>5 DEF D

\* The owner is a member, and none of the members reaches closer.
THEOREM OwnerIsMember ==
    ASSUME NEW q \in Seq(Node), q # <<>>, NEW h \in HashValue
    PROVE  /\ Owner(q, h) \in Range(q)
           /\ \A n \in Range(q) : Reach[Owner(q, h)][h] <= Reach[n][h]
<1>. DEFINE nearest == {i \in DOMAIN q : \A j \in DOMAIN q : Reach[q[i]][h] <= Reach[q[j]][h]}
            R == {Reach[q[i]][h] : i \in DOMAIN q}
<1>1. DOMAIN q = 1 .. Len(q) /\ Len(q) \in Nat /\ Len(q) >= 1 /\ \A i \in DOMAIN q : q[i] \in Node
  OBVIOUS
<1>2. \A i \in DOMAIN q : Reach[q[i]][h] \in Nat
  BY <1>1, ReachIs
<1>3. nearest # {}
  <2>1. R \in SUBSET Nat /\ R # {}
    BY <1>1, <1>2
  <2>2. PICK r \in R : \A s \in R : r <= s
    BY <2>1, LeastNumber
  <2>3. PICK i \in DOMAIN q : r = Reach[q[i]][h]
    BY <2>2
  <2>. QED BY <2>2, <2>3
<1>. HIDE DEF nearest, R
<1>4. nearest \in SUBSET (1 .. Len(q))
  BY <1>1 DEF nearest
<1>5. Max(nearest) \in nearest
  BY <1>1, <1>3, <1>4, MaxPlace DEF Max
<1>6. Owner(q, h) = q[Max(nearest)]
  BY DEF Owner, nearest
<1>7. \A j \in DOMAIN q : Reach[Owner(q, h)][h] <= Reach[q[j]][h]
  BY <1>5, <1>6 DEF nearest
<1>8. Owner(q, h) \in Range(q)
  BY <1>1, <1>4, <1>5, <1>6 DEF Range
<1>. QED BY <1>7, <1>8 DEF Range

\* The names of a sequence of nodes are nodes.
LEMMA RangeType ==
    ASSUME NEW q \in Seq(Node)
    PROVE  Range(q) \in SUBSET Node
BY DEF Range

\* Where no two nodes are equally close the owner lies strictly closer than every
\* other member, whatever points collide elsewhere.
THEOREM OwnerIsCloser ==
    ASSUME NEW q \in Seq(Node), NEW h \in HashValue, Undisputed(h),
           NEW n \in Range(q), Owner(q, h) # n
    PROVE  Owner(q, h) \in Range(q) /\ Closer(Owner(q, h), n, h)
<1>1. q # <<>> /\ Range(q) \in SUBSET Node
  BY RangeType DEF Range
<1>2. Owner(q, h) \in Range(q) /\ Reach[Owner(q, h)][h] <= Reach[n][h]
  BY <1>1, OwnerIsMember
<1>3. Reach[Owner(q, h)][h] # Reach[n][h]
  BY <1>1, <1>2 DEF Undisputed
<1>4. Reach[Owner(q, h)][h] \in Nat /\ Reach[n][h] \in Nat
  BY <1>1, <1>2, ReachIs
<1> QED BY <1>2, <1>3, <1>4 DEF Closer

\* Two nodes that know the same members name the same owner, in whatever order
\* the members joined, unless two of them are equally close.
THEOREM OwnersAgree ==
    ASSUME NEW q \in Seq(Node), NEW r \in Seq(Node), Range(q) = Range(r),
           NEW h \in HashValue, Undisputed(h)
    PROVE  Owner(q, h) = Owner(r, h)
<1>1. CASE q = <<>>
  <2>1. r = <<>>
    <3>1. Range(r) = {}
      BY <1>1 DEF Range
    <3>. QED BY <3>1 DEF Range
  <2>. QED BY <1>1, <2>1
<1>2. CASE q # <<>>
  <2>1. r # <<>>
    <3>1. SUFFICES ASSUME r = <<>> PROVE FALSE
      OBVIOUS
    <3>2. Owner(q, h) \in Range(q)
      BY <1>2, OwnerIsMember
    <3>. QED BY <3>1, <3>2 DEF Range
  <2>2. /\ Owner(q, h) \in Range(q) /\ Owner(r, h) \in Range(q)
        /\ Reach[Owner(q, h)][h] <= Reach[Owner(r, h)][h]
        /\ Reach[Owner(r, h)][h] <= Reach[Owner(q, h)][h]
    BY <1>2, <2>1, OwnerIsMember
  <2>3. Owner(q, h) \in Node /\ Owner(r, h) \in Node
    BY <2>2, RangeType
  <2>4. Reach[Owner(q, h)][h] = Reach[Owner(r, h)][h]
    BY <2>2, <2>3, ReachIs
  <2>. QED BY <2>3, <2>4 DEF Undisputed
<1>. QED BY <1>1, <1>2

\* The owner is one of those that a lookup may answer by the rule that HashRing
\* computes, and where no two nodes are equally close there is no other.
THEOREM OwnerIsPlaced ==
    ASSUME NEW q \in Seq(Node), q # <<>>, NEW h \in HashValue
    PROVE  LET owners == Owners(UNION {PointsOf(n) : n \in Range(q)}, h)
           IN  /\ Owner(q, h) \in owners
               /\ Undisputed(h) => owners = {Owner(q, h)}
<1>. DEFINE P == UNION {PointsOf(n) : n \in Range(q)}
            o == Owner(q, h)
<1>1. Range(q) \in SUBSET Node /\ o \in Range(q) /\ \A n \in Range(q) : Reach[o][h] <= Reach[n][h]
  BY OwnerIsMember, RangeType
<1>2. \A n \in Node : PointsOf(n) \subseteq Point /\ \A p \in PointsOf(n) : p[1] = n
  BY DEF PointsOf, Point
<1>3. PICK p \in PointsOf(o) : Reach[o][h] = Distance(p, h)
  BY <1>1, ReachIs
<1>. HIDE DEF o
<1>4. ASSUME NEW r \in P PROVE Distance(p, h) <= Distance(r, h)
  <2>1. PICK n \in Range(q) : r \in PointsOf(n)
    OBVIOUS
  <2>2. Reach[n][h] <= Distance(r, h) /\ Reach[o][h] <= Reach[n][h]
    BY <1>1, <2>1, ReachIs
  <2>3. Reach[n][h] \in Nat /\ Reach[o][h] \in Nat /\ Distance(r, h) \in Nat
    BY <1>1, <1>2, <2>1, ReachIs, DistanceType
  <2>. QED BY <1>3, <2>2, <2>3
<1>5. p \in P /\ p[1] = o
  BY <1>1, <1>2, <1>3
<1>6. o \in Owners(P, h)
  BY <1>4, <1>5 DEF Owners, Nearest
<1>7. ASSUME Undisputed(h), NEW m \in Owners(P, h) PROVE m = o
  <2>1. PICK r \in P : m = r[1] /\ \A s \in P : Distance(r, h) <= Distance(s, h)
    BY DEF Owners, Nearest
  <2>2. PICK n \in Range(q) : r \in PointsOf(n)
    BY <2>1
  <2>3. m = n /\ n \in Node
    BY <1>1, <1>2, <2>1, <2>2
  <2>4. Distance(r, h) <= Reach[o][h] /\ Reach[n][h] <= Distance(r, h) /\ Reach[o][h] <= Reach[n][h]
    BY <1>1, <1>3, <1>5, <2>1, <2>2, ReachIs
  <2>5. Reach[n][h] \in Nat /\ Reach[o][h] \in Nat /\ Distance(r, h) \in Nat
    BY <1>1, <1>2, <2>2, ReachIs, DistanceType
  <2>6. Reach[n][h] = Reach[o][h]
    BY <2>4, <2>5
  <2>. QED BY <1>1, <1>7, <2>3, <2>6 DEF Undisputed
<1>. QED BY <1>6, <1>7 DEF o

\* No node lies closer than itself.
LEMMA CloserIrreflexive ==
    ASSUME NEW n \in Node, NEW h \in HashValue
    PROVE  ~ Closer(n, n, h)
BY ReachIs DEF Closer

\* Closer than a node that is closer than a third is closer than the third.
LEMMA CloserTransitive ==
    ASSUME NEW l \in Node, NEW m \in Node, NEW n \in Node, NEW h \in HashValue,
           Closer(l, m, h), Closer(m, n, h)
    PROVE  Closer(l, n, h)
BY ReachIs DEF Closer

-----------------------------------------------------------------------------
(* A ring's names in the order of joins.                                    *)

\* A sequence that names nodes once each, in the words of KeyQueues.
LEMMA OrderWords ==
    ASSUME NEW q \in Seq(Node)
    PROVE  /\ IsInjective(q) <=> Once(q)
           /\ \A n : n \in Range(q) <=> In(n, q)
           /\ Range(q) \in SUBSET Node
BY DEF IsInjective, Once, Range, In

\* A name that is not there is appended, one that is there is taken out.
LEMMA OrderFacts ==
    ASSUME NEW q \in Seq(Node), IsInjective(q), NEW n \in Node
    PROVE  /\ Range(q) \in SUBSET Node
           /\ n \notin Range(q) => /\ Append(q, n) \in Seq(Node) /\ IsInjective(Append(q, n))
                                   /\ Range(Append(q, n)) = Range(q) \cup {n}
           /\ n \in Range(q) => /\ RemoveFirst(q, n) \in Seq(Node) /\ IsInjective(RemoveFirst(q, n))
                                /\ Range(RemoveFirst(q, n)) = Range(q) \ {n}
<1>1. Once(q) /\ Range(q) \in SUBSET Node
  BY OrderWords
<1>2. ASSUME n \notin Range(q)
      PROVE  /\ Append(q, n) \in Seq(Node) /\ IsInjective(Append(q, n))
             /\ Range(Append(q, n)) = Range(q) \cup {n}
  <2>. DEFINE a == Append(q, n)
  <2>1. a \in Seq(Node) /\ Once(a) /\ \A m \in Node : In(m, a) <=> In(m, q) \/ m = n
    BY <1>1, <1>2, OrderWords, AppendOnce
  <2>. HIDE DEF a
  <2>2. IsInjective(a) /\ Range(a) = Range(q) \cup {n}
    BY <1>1, <2>1, OrderWords
  <2>. QED BY <2>1, <2>2 DEF a
<1>3. ASSUME n \in Range(q)
      PROVE  /\ RemoveFirst(q, n) \in Seq(Node) /\ IsInjective(RemoveFirst(q, n))
             /\ Range(RemoveFirst(q, n)) = Range(q) \ {n}
  <2>. DEFINE a == RemoveFirst(q, n)
  <2>1. a \in Seq(Node) /\ Once(a) /\ \A m \in Node : In(m, a) <=> (In(m, q) /\ m # n)
    BY <1>1, <1>3, OrderWords, RemoveFirstOnce
  <2>. HIDE DEF a
  <2>2. IsInjective(a) /\ Range(a) = Range(q) \ {n}
    BY <1>1, <2>1, OrderWords
  <2>. QED BY <2>1, <2>2 DEF a
<1>. QED BY <1>1, <1>2, <1>3

LEMMA EmptyOrder == <<>> \in Seq(Node) /\ IsInjective(<<>>) /\ Range(<<>>) = {}
BY DEF IsInjective, Range

\* The orders that the processes which run at first start with.
LEMMA InitialOrders ==
    ASSUME NEW q \in SetToSeqs(InitialMembers)
    PROVE  q \in Seq(Node) /\ IsInjective(q) /\ Range(q) = InitialMembers
<1>. DEFINE d == Cardinality(InitialMembers)
<1>1. InitialMembers \subseteq Node /\ IsFiniteSet(InitialMembers)
  BY ClusterAssumption
<1>2. d \in Nat
  BY <1>1, FS_CardinalityType
<1>3. q \in [1 .. d -> InitialMembers] /\ \A i, j \in 1 .. d : i # j => q[i] # q[j]
  BY DEF SetToSeqs
<1>4. IsInjective(q)
  BY <1>3 DEF IsInjective
<1>5. q \in Injection(1 .. d, InitialMembers)
  BY <1>3, <1>4 DEF Injection
<1>6. Cardinality(1 .. d) = d
  BY <1>2, FS_Interval
<1>7. q \in Surjection(1 .. d, InitialMembers)
  BY <1>1, <1>5, <1>6, FS_Injection
<1>. HIDE DEF d
<1>8. Range(q) = InitialMembers
  BY <1>3, <1>7 DEF Range, Surjection
<1>9. q \in Seq(Node)
  BY <1>1, <1>2, <1>3
<1>. QED BY <1>4, <1>8, <1>9

-----------------------------------------------------------------------------
(* The cluster.                                                             *)

\* What a node's ring has on it, and how that changes.
LEMMA RingFacts ==
    ASSUME TypeOK, NamedOnce, NEW n \in Node
    PROVE  /\ OnRing(n) \in SUBSET Node
           /\ \A m \in Node \ OnRing(n) :
                  LET q == Append(view[n], m)
                  IN  q \in Seq(Node) /\ IsInjective(q) /\ Range(q) = OnRing(n) \cup {m}
           /\ \A m \in OnRing(n) :
                  LET q == RemoveFirst(view[n], m)
                  IN  q \in Seq(Node) /\ IsInjective(q) /\ Range(q) = OnRing(n) \ {m}
<1>1. view[n] \in Seq(Node) /\ IsInjective(view[n])
  BY DEF TypeOK, NamedOnce
<1>. QED BY <1>1, OrderFacts, RangeType DEF OnRing

\* The owner that a node on its own ring computes for a key is a node.
LEMMA OwnerOnType ==
    ASSUME TypeOK, NEW n \in Node, NEW k \in Key, n \in OnRing(n)
    PROVE  OwnerOn(n, k) \in Node
<1>1. view[n] \in Seq(Node)
  BY DEF TypeOK
<1>2. view[n] # <<>>
  BY DEF OnRing, Range
<1>3. KeyHash[k] \in HashValue
  BY ClusterAssumption
<1>4. Owner(view[n], KeyHash[k]) \in Range(view[n])
  BY <1>1, <1>2, <1>3, OwnerIsMember
<1> QED BY <1>1, <1>4, RangeType DEF OwnerOn

\* The store after a write has the type of a store.
LEMMA StoreAfterWriteType ==
    ASSUME TypeOK, NEW n \in Node, NEW k \in Key, NEW v \in Value \cup {NoValue},
           NEW E \in Evictable
    PROVE  StoreAfterWrite(n, k, v, E) \in [Node -> [Key -> Value \cup {NoValue}]]
BY DEF TypeOK, StoreAfterWrite

\* The keys written while a handler walks are keys.
LEMMA FreshAfterWriteType ==
    ASSUME TypeOK, NEW n \in Node, NEW k \in Key
    PROVE  FreshAfterWrite(n, k) \in [Node -> SUBSET Key]
BY DEF TypeOK, FreshAfterWrite

\* Nothing but keys settles.
LEMMA SettleType ==
    ASSUME TypeOK, NEW k \in Key, NEW E \in Evictable
    PROVE  Settle(k, E) \subseteq Key
BY DEF TypeOK, Settle

\* The handlers keep their type when one of them goes on or returns.
LEMMA HandlerType ==
    ASSUME TypeOK, NEW n \in Node
    PROVE  /\ \A h \in Handler : Become(n, h) => handler' \in [Node -> Handler]
           /\ NoHandler \in Handler
           /\ Return(n) => handler' \in [Node -> Handler]
<1>1. NoHandler \in Handler
  BY DEF NoHandler, Handler
<1>2. ASSUME NEW h \in Handler, Become(n, h) PROVE handler' \in [Node -> Handler]
  BY <1>2 DEF TypeOK, Become
<1> QED BY <1>1, <1>2 DEF Return

\* Spending one unit of a bound stays within it.
LEMMA SpendType ==
    ASSUME TypeOK
    PROVE  /\ left.requests > 0 => [left EXCEPT !.requests = @ - 1] \in Bounds
           /\ left.stops > 0 => [left EXCEPT !.stops = @ - 1] \in Bounds
           /\ left.suspicions > 0 => [left EXCEPT !.suspicions = @ - 1] \in Bounds
           /\ left.drops > 0 => [left EXCEPT !.drops = @ - 1] \in Bounds
<1>1. MaxRequests \in Nat /\ MaxStops \in Nat /\ MaxSuspicions \in Nat /\ MaxDrops \in Nat
  BY ClusterAssumption
<1>2. left \in Bounds
  BY DEF TypeOK
<1>3. left.requests > 0 => [left EXCEPT !.requests = @ - 1] \in Bounds
  BY <1>1, <1>2 DEF Bounds
<1>4. left.stops > 0 => [left EXCEPT !.stops = @ - 1] \in Bounds
  BY <1>1, <1>2 DEF Bounds
<1>5. left.suspicions > 0 => [left EXCEPT !.suspicions = @ - 1] \in Bounds
  BY <1>1, <1>2 DEF Bounds
<1>6. left.drops > 0 => [left EXCEPT !.drops = @ - 1] \in Bounds
  BY <1>1, <1>2 DEF Bounds
<1> QED BY <1>3, <1>4, <1>5, <1>6

-----------------------------------------------------------------------------
\* The state keeps its shape in every step, given that a node that serves is
\* on its own ring and so has an owner for every key.
LEMMA TypeOKStep ==
    ASSUME TypeOK, NamedOnce, TargetIsCloser, PoolTracksRing, [Next]_vars
    PROVE  TypeOK'
<1> USE ClusterAssumption
<1>1. ASSUME NEW n \in Node, MainStep(n) PROVE TypeOK'
  <2>1. CASE Start(n)
    BY <2>1 DEF TypeOK, Start, SetPhase, Phase
  <2>2. CASE AddSelf(n)
    <3>1. Append(view[n], n) \in Seq(Node)
      BY DEF TypeOK
    <3>. QED BY <2>2, <3>1 DEF TypeOK, AddSelf, SetPhase, Phase
  <2>3. CASE ServeGrpc(n)
    BY <2>3 DEF TypeOK, ServeGrpc, SetPhase, Phase
  <2>4. CASE ServeHttp(n)
    BY <2>4 DEF TypeOK, ServeHttp, SetPhase, Phase
  <2>5. CASE ShutdownHttp(n)
    BY <2>5, SpendType DEF TypeOK, ShutdownHttp, SetPhase, Phase
  <2>6. CASE StopGrpc(n)
    BY <2>6 DEF TypeOK, StopGrpc, SetPhase, Phase
  <2>7. ASSUME Vanish(n), left' \in Bounds PROVE TypeOK'
    <3>1. handler' \in [Node -> Handler]
      BY <2>7, HandlerType DEF Vanish
    <3>2. store' \in [Node -> [Key -> Value \cup {NoValue}]]
      BY <2>7 DEF TypeOK, Vanish, EmptyStore
    <3>3. settled' \subseteq Key /\ fresh' \in [Node -> SUBSET Key]
      BY <2>7 DEF TypeOK, Vanish
    <3>4. tasks' \subseteq Post \cup Deletion
      BY <2>7 DEF TypeOK, Vanish
    <3>5. /\ phase' \in [Node -> Phase] /\ view' \in [Node -> Seq(Node)]
          /\ pool' \in [Node -> SUBSET Node]
      BY <2>7, EmptyOrder DEF TypeOK, Vanish, Phase
    <3> QED BY <2>7, <3>1, <3>2, <3>3, <3>4, <3>5 DEF TypeOK
  <2>8. CASE Leave(n)
    BY <2>7, <2>8 DEF Leave, TypeOK
  <2>9. CASE Crash(n)
    BY <2>7, <2>9, SpendType DEF Crash
  <2> QED
    BY <1>1, <2>1, <2>2, <2>3, <2>4, <2>5, <2>6, <2>8, <2>9 DEF MainStep
<1>2. ASSUME NEW n \in Node, HandlerStep(n) PROVE TypeOK'
  <2> handler[n] \in Handler
    BY DEF TypeOK
  <2>1. CASE AddConnection(n)
    <3>1. [handler[n] EXCEPT !.pc = "scan", !.listed = StoredKeys(n)] \in Handler
      BY DEF StoredKeys, Handler
    <3>2. handler' \in [Node -> Handler]
      BY <2>1, <3>1, HandlerType DEF AddConnection
    <3>3. handler[n].peer \in OnRing(n) /\ OnRing(n) \in SUBSET Node
      BY <2>1, RingFacts DEF AddConnection, PoolTracksRing
    <3>5. pool' \in [Node -> SUBSET Node]
      BY <2>1, <3>3 DEF AddConnection, TypeOK
    <3>4. fresh' \in [Node -> SUBSET Key]
      BY <2>1 DEF AddConnection, TypeOK
    <3> QED BY <2>1, <3>2, <3>4, <3>5 DEF AddConnection, TypeOK
  <2>2. CASE PickKey(n)
    <3> DEFINE next(k) == [handler[n] EXCEPT !.visited = @ \cup {k}]
               read(k) == [next(k) EXCEPT !.pc = "read", !.key = k, !.target = OwnerOn(n, k)]
    <3>1. PICK k \in Upcoming(n) :
              Become(n, IF OwnerOn(n, k) = n THEN next(k)
                        ELSE IF OwnerOn(n, k) \in pool[n] THEN read(k) ELSE NoHandler)
      BY <2>2 DEF PickKey
    <3>2. k \in Key
      BY DEF Upcoming, StoredKeys, TypeOK, Handler
    <3>3. next(k) \in Handler
      BY <3>2 DEF Handler
    <3>4. OwnerOn(n, k) \in pool[n] => OwnerOn(n, k) \in Node
      BY DEF TypeOK
    <3>5. OwnerOn(n, k) \in pool[n] => read(k) \in Handler
      BY <3>2, <3>3, <3>4 DEF Handler
    <3>6. handler' \in [Node -> Handler]
      BY <3>1, <3>3, <3>5, HandlerType
    <3> QED BY <2>2, <3>6 DEF PickKey, TypeOK
  <2>3. CASE EndScan(n)
    BY <2>3, HandlerType DEF TypeOK, EndScan
  <2>4. CASE Read(n)
    <3>1. handler[n].key \in Key
      BY <2>4 DEF Read, TargetIsCloser
    <3>2. store[n][handler[n].key] \in Value \cup {NoValue}
      BY <3>1 DEF TypeOK
    <3>3. [handler[n] EXCEPT !.pc = "send", !.val = store[n][handler[n].key]] \in Handler
      BY <3>2 DEF Handler
    <3> QED BY <2>4, <3>3, HandlerType DEF Read, TypeOK
  <2>5. ASSUME handler[n].pc = "send", NEW E \in Evictable,
               store' = StoreAfterWrite(handler[n].target, handler[n].key, handler[n].val, E),
               settled' = settled \ E,
               fresh' = FreshAfterWrite(handler[n].target, handler[n].key)
        PROVE  /\ store' \in [Node -> [Key -> Value \cup {NoValue}]]
               /\ settled' \subseteq Key
               /\ fresh' \in [Node -> SUBSET Key]
    <3>1. /\ handler[n].key \in Key /\ handler[n].target \in Node
          /\ handler[n].val \in Value \cup {NoValue}
      BY <2>5 DEF TargetIsCloser, TypeOK, Handler
    <3>2. settled' \subseteq Key
      BY <2>5 DEF TypeOK
    <3> QED BY <2>5, <3>1, <3>2, StoreAfterWriteType, FreshAfterWriteType
  <2>6. CASE SendOk(n)
    <3>1. [handler[n] EXCEPT !.pc = "delete"] \in Handler
      BY DEF Handler
    <3>2. handler' \in [Node -> Handler]
      BY <2>6, <3>1, HandlerType DEF SendOk
    <3> QED BY <2>5, <2>6, <3>2 DEF SendOk, TypeOK
  <2>7. CASE SendFails(n)
    BY <2>7, HandlerType, SpendType DEF SendFails, TypeOK
  <2>8. CASE SendLosesReply(n)
    BY <2>5, <2>8, HandlerType, SpendType DEF SendLosesReply, TypeOK
  <2>9. CASE Delete(n)
    <3>1. [handler[n] EXCEPT !.pc = "scan", !.key = NoKey, !.target = NoNode,
                             !.val = NoValue] \in Handler
      BY DEF Handler
    <3>2. store' \in [Node -> [Key -> Value \cup {NoValue}]]
      BY <2>9 DEF Delete, TypeOK
    <3>3. handler' \in [Node -> Handler]
      BY <2>9, <3>1, HandlerType DEF Delete
    <3> QED BY <2>9, <3>2, <3>3 DEF Delete, TypeOK
  <2>10. CASE RemoveConnection(n)
    <3>1. pool' \in [Node -> SUBSET Node]
      BY <2>10 DEF RemoveConnection, TypeOK
    <3> QED BY <2>10, <3>1, HandlerType DEF TypeOK, RemoveConnection
  <2> QED
    BY <1>2, <2>1, <2>2, <2>3, <2>4, <2>6, <2>7, <2>8, <2>9, <2>10 DEF HandlerStep
<1>3. ASSUME NEW n \in Node, NEW peer \in Node, NotifyJoin(n, peer) PROVE TypeOK'
  <2>1. [NoHandler EXCEPT !.pc = "connect", !.peer = peer] \in Handler
    BY DEF NoHandler, Handler
  <2>2. view' \in [Node -> Seq(Node)]
    <3>1. Append(view[n], peer) \in Seq(Node)
      BY DEF TypeOK
    <3>. QED BY <1>3, <3>1 DEF NotifyJoin, TypeOK
  <2> QED BY <1>3, <2>1, <2>2, HandlerType DEF NotifyJoin, TypeOK
<1>4. ASSUME NEW n \in Node, NEW peer \in Node, NotifyLeave(n, peer) PROVE TypeOK'
  <2>1. [NoHandler EXCEPT !.pc = "disconnect", !.peer = peer] \in Handler
    BY DEF NoHandler, Handler
  <2>2. view' \in [Node -> Seq(Node)]
    <3>1. RemoveFirst(view[n], peer) \in Seq(Node)
      BY <1>4, RingFacts DEF NotifyLeave
    <3>. QED BY <1>4, <3>1 DEF NotifyLeave, TypeOK
  <2> QED BY <1>4, <2>1, <2>2, HandlerType, SpendType DEF NotifyLeave, TypeOK
<1>5. ASSUME NEW n \in Node, NEW k \in Key, HttpUp(n), left.requests > 0
      PROVE  /\ OwnerOn(n, k) \in Node
             /\ left.requests \in 1 .. MaxRequests
  <2>1. OwnerOn(n, k) \in Node
    BY <1>5, OwnerOnType DEF NamedOnce, HttpUp
  <2> QED BY <1>5, <2>1 DEF TypeOK, Bounds
<1>6. ASSUME NEW t \in tasks, TaskStep(t) PROVE TypeOK'
  <2>1. /\ t.node \in Node /\ t.key \in Key /\ t.val \in Value \cup {NoValue}
        /\ t.target \in Node /\ t \in Post \cup Deletion
    BY DEF TypeOK, Post, Deletion
  <2>2. CASE writeValue(t)
    BY <2>1, <2>2, StoreAfterWriteType, FreshAfterWriteType, SettleType DEF writeValue, TypeOK
  <2>3. CASE deleteValue(t)
    BY <2>1, <2>3 DEF deleteValue, TypeOK
  <2>4. CASE forwardPost(t)
    <3>1. [t EXCEPT !.pc = "sent"] \in Post
      BY <2>1, <2>4 DEF forwardPost, Post, Deletion
    <3> QED BY <2>4, <3>1 DEF forwardPost, TypeOK
  <2>5. CASE Write(t)
    <3>1. /\ store' \in [Node -> [Key -> Value \cup {NoValue}]]
          /\ settled' \subseteq Key
          /\ fresh' \in [Node -> SUBSET Key]
      BY <2>1, <2>5, StoreAfterWriteType, FreshAfterWriteType, SettleType DEF Write, TypeOK
    <3> QED BY <2>5, <3>1 DEF Write, TypeOK
  <2>6. CASE WriteFails(t)
    BY <2>6, SpendType DEF WriteFails, TypeOK
  <2> QED BY <1>6, <2>2, <2>3, <2>4, <2>5, <2>6 DEF TaskStep
<1>7. CASE UNCHANGED vars
  BY <1>7 DEF vars, TypeOK
<1>8. ASSUME NEW n \in Node, NEW k \in Key, NEW v \in Value, handlePost(n, k, v) PROVE TypeOK'
  <2>1. tasks' \subseteq Post \cup Deletion
    BY <1>5, <1>8 DEF handlePost, Accept, TypeOK, Post
  <2> QED BY <1>8, <2>1, SpendType DEF handlePost, Accept, TypeOK
<1>9. ASSUME NEW n \in Node, NEW k \in Key, handleDelete(n, k) PROVE TypeOK'
  <2>1. tasks' \subseteq Post \cup Deletion
    BY <1>5, <1>9 DEF handleDelete, Accept, TypeOK, Deletion
  <2> QED BY <1>9, <2>1, SpendType DEF handleDelete, Accept, TypeOK
<1> QED BY <1>1, <1>2, <1>3, <1>4, <1>6, <1>7, <1>8, <1>9 DEF Next

-----------------------------------------------------------------------------
\* A node stays on its own ring, and no name gets on a ring twice.
LEMMA NamedOnceStep ==
    ASSUME TypeOK, NamedOnce, [Next]_vars
    PROVE  NamedOnce'
<1>. DEFINE Named(n, q, f) == IsInjective(q) /\ (n \in Range(q) <=> f \notin {"down", "created"})
<1>1. \A n \in Node : Named(n, view[n], phase[n])
  BY DEF NamedOnce, OnRing
<1>2. ASSUME \A n \in Node : Named(n, view'[n], phase'[n]) PROVE NamedOnce'
  BY <1>2 DEF NamedOnce, OnRing
<1>3. ASSUME NEW n \in Node, Named(n, view'[n], phase'[n]),
             \A m \in Node \ {n} : view'[m] = view[m] /\ phase'[m] = phase[m]
      PROVE  NamedOnce'
  <2>1. ASSUME NEW m \in Node, m # n PROVE Named(m, view'[m], phase'[m])
    <3>1. view'[m] = view[m] /\ phase'[m] = phase[m]
      BY <1>3, <2>1
    <3>. QED BY <1>1, <3>1
  <2>. HIDE DEF Named
  <2>. QED BY <1>2, <1>3, <2>1
<1>4. ASSUME UNCHANGED <<view, phase>> PROVE NamedOnce'
  BY <1>1, <1>2, <1>4
<1>5. ASSUME NEW n \in Node, MainStep(n) PROVE NamedOnce'
  <2>1. CASE Start(n) \/ ServeGrpc(n) \/ ServeHttp(n) \/ ShutdownHttp(n) \/ StopGrpc(n)
    <3>1. /\ view' = view
          /\ phase'[n] \in {"down", "created"} <=> phase[n] \in {"down", "created"}
          /\ \A m \in Node \ {n} : phase'[m] = phase[m]
      BY <2>1 DEF Start, ServeGrpc, ServeHttp, ShutdownHttp, StopGrpc, SetPhase, TypeOK
    <3>. QED BY <1>1, <1>3, <3>1
  <2>2. CASE AddSelf(n)
    <3>1. /\ phase[n] = "created" /\ phase'[n] = "member" /\ view'[n] = Append(view[n], n)
          /\ \A m \in Node \ {n} : view'[m] = view[m] /\ phase'[m] = phase[m]
      BY <2>2 DEF AddSelf, SetPhase, TypeOK
    <3>2. n \notin OnRing(n)
      BY <3>1 DEF NamedOnce
    <3>3. IsInjective(view'[n]) /\ n \in Range(view'[n])
      BY <3>1, <3>2, RingFacts
    <3>. QED BY <1>3, <3>1, <3>3
  <2>3. CASE Leave(n) \/ Crash(n)
    <3>1. /\ phase'[n] = "down" /\ view'[n] = <<>>
          /\ \A m \in Node \ {n} : view'[m] = view[m] /\ phase'[m] = phase[m]
      BY <2>3 DEF Leave, Crash, Vanish, TypeOK
    <3>. QED BY <1>3, <3>1, EmptyOrder
  <2> QED BY <1>5, <2>1, <2>2, <2>3 DEF MainStep
<1>6. ASSUME NEW n \in Node, HandlerStep(n) PROVE NamedOnce'
  BY <1>4, <1>6 DEF HandlerStep, AddConnection, PickKey, EndScan, Read, SendOk, SendFails,
                    SendLosesReply, Delete, RemoveConnection
<1>7. ASSUME NEW n \in Node, NEW peer \in Node, NotifyJoin(n, peer) \/ NotifyLeave(n, peer)
      PROVE  NamedOnce'
  <2>1. /\ phase' = phase /\ n # peer
        /\ \A m \in Node \ {n} : view'[m] = view[m]
    BY <1>7 DEF NotifyJoin, NotifyLeave, TypeOK
  <2>2. IsInjective(view'[n]) /\ (n \in Range(view'[n]) <=> n \in OnRing(n))
    <3>1. CASE NotifyJoin(n, peer)
      <4>1. peer \notin OnRing(n) /\ view'[n] = Append(view[n], peer)
        BY <3>1 DEF NotifyJoin, TypeOK
      <4>2. IsInjective(view'[n]) /\ Range(view'[n]) = OnRing(n) \cup {peer}
        BY <4>1, RingFacts
      <4>. QED BY <2>1, <4>2
    <3>2. CASE NotifyLeave(n, peer)
      <4>1. peer \in OnRing(n) /\ view'[n] = RemoveFirst(view[n], peer)
        BY <3>2 DEF NotifyLeave, TypeOK
      <4>2. IsInjective(view'[n]) /\ Range(view'[n]) = OnRing(n) \ {peer}
        BY <4>1, RingFacts
      <4>. QED BY <2>1, <4>2
    <3>. QED BY <1>7, <3>1, <3>2
  <2>3. Named(n, view'[n], phase'[n])
    BY <1>1, <2>1, <2>2 DEF OnRing
  <2>. HIDE DEF Named
  <2>. QED BY <1>3, <2>1, <2>3
<1>8. ASSUME NEW n \in Node, NEW k, NEW v, NEW op, Accept(n, op, k, v) PROVE NamedOnce'
  BY <1>4, <1>8 DEF Accept
<1>9. ASSUME NEW t \in tasks, TaskStep(t) PROVE NamedOnce'
  BY <1>4, <1>9 DEF TaskStep, writeValue, deleteValue, forwardPost, Write, WriteFails
<1>10. CASE UNCHANGED vars
  BY <1>4, <1>10 DEF vars
<1> QED BY <1>5, <1>6, <1>7, <1>8, <1>9, <1>10 DEF Next, handlePost, handleDelete

\* A store that a write does not name keeps its keys, and one that holds
\* nothing has nothing to list or to lose.
LEMMA StoreFacts ==
    ASSUME TypeOK
    PROVE  /\ \A m, n \in Node : \A k, v, E : m # n => StoreAfterWrite(n, k, v, E)[m] = store[m]
           /\ \A n \in Node : store[n] = EmptyStore => StoredKeys(n) = {}
           /\ \A k \in Key : [EmptyStore EXCEPT ![k] = NoValue] = EmptyStore
BY DEF TypeOK, StoreAfterWrite, StoredKeys, EmptyStore

\* Until its gRPC server listens a node has nothing to walk and to lose.
LEMMA NothingBeforeServingStep ==
    ASSUME TypeOK, NamedOnce, TargetIsCloser, NothingBeforeServing, [Next]_vars
    PROVE  NothingBeforeServing'
<1> DEFINE early == {"down", "created", "member"}
<1> USE DEF NothingBeforeServing
<1>1. ASSUME NEW n \in Node, MainStep(n) PROVE NothingBeforeServing'
  <2>1. CASE Start(n) \/ AddSelf(n) \/ ServeGrpc(n) \/ ServeHttp(n) \/ ShutdownHttp(n) \/ StopGrpc(n)
    <3>1. \A m \in Node : phase'[m] \in early => phase[m] \in early
      BY <2>1 DEF Start, AddSelf, ServeGrpc, ServeHttp, ShutdownHttp, StopGrpc, SetPhase, TypeOK
    <3>2. /\ UNCHANGED <<store, handler, tasks>>
          /\ \A t \in tasks : t.node \in Node
      BY <2>1 DEF Start, AddSelf, ServeGrpc, ServeHttp, ShutdownHttp, StopGrpc, TypeOK,
                  Post, Deletion
    <3> QED BY <3>1, <3>2 DEF EmptyStore
  <2>2. ASSUME Vanish(n) PROVE NothingBeforeServing'
    <3>1. \A m \in Node : phase'[m] \in early =>
              store'[m] = EmptyStore /\ handler'[m].listed = {}
      BY <2>2 DEF Vanish, Return, Become, NoHandler, TypeOK
    <3>2. \A t \in tasks' : t.pc = "queued" => phase'[t.node] \notin early
      BY <2>2 DEF Vanish, TypeOK
    <3> QED BY <3>1, <3>2 DEF EmptyStore
  <2>3. CASE Leave(n) \/ Crash(n)
    BY <2>2, <2>3 DEF Leave, Crash
  <2> QED BY <1>1, <2>1, <2>3 DEF MainStep
<1>2. ASSUME NEW n \in Node, HandlerStep(n) PROVE NothingBeforeServing'
  <2> handler[n] \in Handler
    BY DEF TypeOK
  <2>1. ASSUME NEW h, Become(n, h), h.listed \in {{}, handler[n].listed, StoredKeys(n)},
               UNCHANGED <<phase, tasks, store>>
        PROVE  NothingBeforeServing'
    <3>1. \A m \in Node : phase[m] \in early => handler'[m].listed = {}
      BY <2>1, StoreFacts DEF Become, TypeOK
    <3> QED BY <2>1, <3>1 DEF EmptyStore
  <2>2. ASSUME UNCHANGED <<phase, tasks, store>>, Return(n) PROVE NothingBeforeServing'
    BY <2>1, <2>2 DEF Return, NoHandler
  <2>3. CASE AddConnection(n)
    <3>1. Become(n, NoHandler) \/ Become(n, [handler[n] EXCEPT !.pc = "scan", !.listed = StoredKeys(n)])
      BY <2>3 DEF AddConnection
    <3>2. /\ NoHandler.listed = {}
          /\ [handler[n] EXCEPT !.pc = "scan", !.listed = StoredKeys(n)].listed = StoredKeys(n)
      BY DEF NoHandler, Handler
    <3> QED BY <2>1, <2>3, <3>1, <3>2 DEF AddConnection
  <2>4. CASE PickKey(n)
    <3> DEFINE next(k) == [handler[n] EXCEPT !.visited = @ \cup {k}]
               read(k) == [next(k) EXCEPT !.pc = "read", !.key = k, !.target = OwnerOn(n, k)]
    <3>1. PICK k : Become(n, next(k)) \/ Become(n, read(k)) \/ Become(n, NoHandler)
      BY <2>4 DEF PickKey
    <3>2. /\ next(k).listed = handler[n].listed /\ read(k).listed = handler[n].listed
          /\ NoHandler.listed = {}
      BY DEF Handler, NoHandler
    <3> HIDE DEF next, read
    <3> QED BY <2>1, <2>4, <3>1, <3>2 DEF PickKey
  <2>5. CASE EndScan(n) \/ SendFails(n) \/ RemoveConnection(n)
    BY <2>2, <2>5 DEF EndScan, SendFails, RemoveConnection
  <2>6. CASE Read(n)
    <3>1. [handler[n] EXCEPT !.pc = "send", !.val = store[n][handler[n].key]].listed
            = handler[n].listed
      BY DEF Handler
    <3> QED BY <2>1, <2>6, <3>1 DEF Read
  <2>7. CASE SendOk(n) \/ SendLosesReply(n)
    <3>1. handler[n].target \in Node /\ phase[handler[n].target] \notin early
      BY <2>7 DEF SendOk, SendLosesReply, GrpcUp, TargetIsCloser
    <3>2. \A m \in Node : phase[m] \in early => store'[m] = store[m]
      BY <2>7, <3>1, StoreFacts DEF SendOk, SendLosesReply
    <3>3. /\ NoHandler.listed = {}
          /\ [handler[n] EXCEPT !.pc = "delete"].listed = handler[n].listed
      BY DEF Handler, NoHandler
    <3>4. \A m \in Node : handler'[m].listed \in {{}, handler[m].listed}
      BY <2>7, <3>3 DEF SendOk, SendLosesReply, Return, Become, TypeOK
    <3> QED BY <2>7, <3>2, <3>4 DEF SendOk, SendLosesReply, EmptyStore
  <2>8. CASE Delete(n)
    <3> DEFINE h == [handler[n] EXCEPT !.pc = "scan", !.key = NoKey, !.target = NoNode,
                                       !.val = NoValue]
    <3>1. handler[n].key \in Key
      BY <2>8 DEF Delete, TargetIsCloser
    <3>2. \A m \in Node : store[m] = EmptyStore => store'[m] = EmptyStore
      BY <2>8, <3>1, StoreFacts DEF Delete, TypeOK
    <3>3. h.listed = handler[n].listed
      BY DEF Handler
    <3>4. \A m \in Node : handler'[m].listed = handler[m].listed
      BY <2>8, <3>3 DEF Delete, Become, TypeOK
    <3> QED BY <2>8, <3>2, <3>4 DEF Delete, EmptyStore
  <2> QED
    BY <1>2, <2>3, <2>4, <2>5, <2>6, <2>7, <2>8 DEF HandlerStep
<1>3. ASSUME NEW n \in Node, NEW peer \in Node, NotifyJoin(n, peer) \/ NotifyLeave(n, peer)
      PROVE  NothingBeforeServing'
  <2>1. /\ [NoHandler EXCEPT !.pc = "connect", !.peer = peer].listed = {}
        /\ [NoHandler EXCEPT !.pc = "disconnect", !.peer = peer].listed = {}
    BY DEF NoHandler
  <2>2. \A m \in Node : handler'[m].listed \in {{}, handler[m].listed}
    BY <1>3, <2>1 DEF NotifyJoin, NotifyLeave, Become, TypeOK
  <2> QED BY <1>3, <2>2 DEF NotifyJoin, NotifyLeave, EmptyStore
<1>4. ASSUME NEW n \in Node, NEW k, NEW v, NEW op, Accept(n, op, k, v)
      PROVE  NothingBeforeServing'
  BY <1>4 DEF Accept, HttpUp, EmptyStore
<1>5. ASSUME NEW t \in tasks, TaskStep(t) PROVE NothingBeforeServing'
  <2>1. t.node \in Node /\ t.target \in Node /\ t.key \in Key
    BY DEF TypeOK, Post, Deletion
  <2>2. CASE writeValue(t)
    <3>1. \A m \in Node : phase[m] \in early => store'[m] = store[m]
      BY <2>1, <2>2, StoreFacts DEF writeValue
    <3> QED BY <2>2, <3>1 DEF writeValue, EmptyStore
  <2>3. CASE deleteValue(t)
    <3>1. \A m \in Node : phase[m] \in early => store'[m] = store[m]
      BY <2>1, <2>3 DEF deleteValue, TypeOK
    <3> QED BY <2>3, <3>1 DEF deleteValue, EmptyStore
  <2>4. CASE forwardPost(t)
    <3>1. \A u \in tasks' : u.pc = "queued" => u \in tasks
      BY <2>4 DEF forwardPost, TypeOK, Post, Deletion
    <3> QED BY <2>4, <3>1 DEF forwardPost, EmptyStore
  <2>5. CASE Write(t)
    <3>1. \A m \in Node : phase[m] \in early => store'[m] = store[m]
      BY <2>1, <2>5, StoreFacts DEF Write, GrpcUp
    <3> QED BY <2>5, <3>1 DEF Write, EmptyStore
  <2>6. CASE WriteFails(t)
    BY <2>6 DEF WriteFails, EmptyStore
  <2> QED BY <1>5, <2>2, <2>3, <2>4, <2>5, <2>6 DEF TaskStep
<1>6. CASE UNCHANGED vars
  BY <1>6 DEF vars, EmptyStore
<1> QED BY <1>1, <1>2, <1>3, <1>4, <1>5, <1>6 DEF Next, handlePost, handleDelete

-----------------------------------------------------------------------------
\* A handler picks a key for another node only when that node is closer: it
\* serves, so it is on its own ring, and the ring names the closest member.
LEMMA TargetIsCloserStep ==
    ASSUME TypeOK, NamedOnce, NothingBeforeServing, TargetIsCloser, [Next]_vars
    PROVE  TargetIsCloser'
<1> DEFINE Good(n, h) ==
             /\ h.pc \in {"read", "send", "delete"} => h.key \in Key
             /\ h.pc \in {"read", "send"} =>
                    /\ h.target \in Node \ {n}
                    /\ h.key \in UndisputedKeys => Closer(h.target, n, KeyHash[h.key])
<1>1. ASSUME NEW n \in Node, NEW h, Good(n, h), Become(n, h) PROVE TargetIsCloser'
  BY <1>1 DEF TargetIsCloser, Become, TypeOK
<1>2. ASSUME NEW n \in Node, Return(n) PROVE TargetIsCloser'
  <2>1. Good(n, NoHandler)
    BY DEF NoHandler
  <2> QED BY <1>1, <1>2, <2>1 DEF Return
<1>3. ASSUME UNCHANGED handler PROVE TargetIsCloser'
  BY <1>3 DEF TargetIsCloser
<1>4. ASSUME NEW n \in Node, HandlerStep(n) PROVE TargetIsCloser'
  <2> handler[n] \in Handler
    BY DEF TypeOK
  <2>1. CASE AddConnection(n)
    <3> DEFINE h == [handler[n] EXCEPT !.pc = "scan", !.listed = StoredKeys(n)]
    <3>1. Return(n) \/ Become(n, h)
      BY <2>1 DEF AddConnection, Return
    <3>2. Good(n, h)
      BY DEF Handler
    <3> HIDE DEF h, Good
    <3> QED BY <1>1, <1>2, <3>1, <3>2
  <2>2. CASE PickKey(n)
    <3> DEFINE next(k) == [handler[n] EXCEPT !.visited = @ \cup {k}]
               read(k) == [next(k) EXCEPT !.pc = "read", !.key = k, !.target = OwnerOn(n, k)]
    <3>1. PICK k \in Upcoming(n) :
              Become(n, IF OwnerOn(n, k) = n THEN next(k)
                        ELSE IF OwnerOn(n, k) \in pool[n] THEN read(k) ELSE NoHandler)
      BY <2>2 DEF PickKey
    <3>2. k \in Key /\ (k \in StoredKeys(n) \/ k \in handler[n].listed)
      BY DEF Upcoming, StoredKeys, Handler
    <3>3. n \in OnRing(n)
      BY <3>2, StoreFacts DEF NothingBeforeServing, NamedOnce
    <3>4. view[n] \in Seq(Node) /\ KeyHash[k] \in HashValue
      BY <3>2, ClusterAssumption DEF TypeOK
    <3>5. /\ OwnerOn(n, k) \in Node
          /\ OwnerOn(n, k) # n /\ k \in UndisputedKeys => Closer(OwnerOn(n, k), n, KeyHash[k])
      BY <3>2, <3>3, <3>4, OwnerIsCloser, OwnerOnType DEF OwnerOn, OnRing, UndisputedKeys
    <3>6. handler[n].pc = "scan" => Good(n, next(k))
      BY DEF Handler
    <3>7. OwnerOn(n, k) # n => Good(n, read(k))
      <4>1. read(k).key = k /\ read(k).target = OwnerOn(n, k)
        BY DEF Handler
      <4> HIDE DEF read
      <4> QED BY <3>2, <3>5, <4>1
    <3>8. handler[n].pc = "scan"
      BY <2>2 DEF PickKey
    <3>9. Good(n, NoHandler)
      BY DEF NoHandler
    <3> HIDE DEF next, read, Good
    <3> QED BY <1>1, <3>1, <3>6, <3>7, <3>8, <3>9
  <2>3. CASE EndScan(n) \/ SendFails(n) \/ SendLosesReply(n) \/ RemoveConnection(n)
    BY <1>2, <2>3 DEF EndScan, SendFails, SendLosesReply, RemoveConnection
  <2>4. CASE Read(n)
    <3> DEFINE h == [handler[n] EXCEPT !.pc = "send", !.val = store[n][handler[n].key]]
    <3>1. h.key = handler[n].key /\ h.target = handler[n].target
      BY DEF Handler
    <3>2. Good(n, handler[n]) /\ handler[n].pc = "read"
      BY <2>4 DEF Read, TargetIsCloser
    <3>3. Good(n, h)
      <4> HIDE DEF h
      <4> QED BY <3>1, <3>2
    <3> HIDE DEF h, Good
    <3> QED BY <1>1, <2>4, <3>3 DEF Read, h
  <2>5. CASE SendOk(n)
    <3> DEFINE h == [handler[n] EXCEPT !.pc = "delete"]
    <3>1. Good(n, h)
      BY <2>5 DEF SendOk, TargetIsCloser, Handler
    <3> HIDE DEF h, Good
    <3> QED BY <1>1, <2>5, <3>1 DEF SendOk, h
  <2>6. CASE Delete(n)
    <3> DEFINE h == [handler[n] EXCEPT !.pc = "scan", !.key = NoKey, !.target = NoNode,
                                       !.val = NoValue]
    <3>1. Good(n, h)
      BY DEF Handler
    <3> HIDE DEF h, Good
    <3> QED BY <1>1, <2>6, <3>1 DEF Delete, h
  <2> QED BY <1>4, <2>1, <2>2, <2>3, <2>4, <2>5, <2>6 DEF HandlerStep
<1>5. ASSUME NEW n \in Node, NEW peer \in Node, NotifyJoin(n, peer) \/ NotifyLeave(n, peer)
      PROVE  TargetIsCloser'
  <2>1. /\ Good(n, [NoHandler EXCEPT !.pc = "connect", !.peer = peer])
        /\ Good(n, [NoHandler EXCEPT !.pc = "disconnect", !.peer = peer])
    BY DEF NoHandler
  <2> HIDE DEF Good
  <2> QED BY <1>1, <1>5, <2>1 DEF NotifyJoin, NotifyLeave
<1>6. ASSUME NEW n \in Node, MainStep(n) PROVE TargetIsCloser'
  BY <1>2, <1>3, <1>6 DEF MainStep, Start, AddSelf, ServeGrpc, ServeHttp, ShutdownHttp,
                          StopGrpc, Leave, Crash, Vanish
<1>7. ASSUME NEW n \in Node, NEW k, NEW v, NEW op, Accept(n, op, k, v)
      PROVE  TargetIsCloser'
  BY <1>3, <1>7 DEF Accept
<1>8. ASSUME NEW t \in tasks, TaskStep(t) PROVE TargetIsCloser'
  BY <1>3, <1>8 DEF TaskStep, writeValue, deleteValue, forwardPost, Write, WriteFails
<1>9. CASE UNCHANGED vars
  BY <1>3, <1>9 DEF vars
<1> QED BY <1>4, <1>5, <1>6, <1>7, <1>8, <1>9 DEF Next, handlePost, handleDelete

\* Ring and pool change together but for the two calls of one handler.
LEMMA PoolTracksRingStep ==
    ASSUME TypeOK, NamedOnce, PoolTracksRing, [Next]_vars
    PROVE  PoolTracksRing'
<1> DEFINE Agree(V, P, n, h) ==
             /\ h.pc = "connect" =>
                    h.peer \in V \ {n} /\ P = (V \ {n}) \ (Unaddressed \cup {h.peer})
             /\ h.pc = "disconnect" =>
                    h.peer \notin V \ {n} /\ P = ((V \ {n}) \cup {h.peer}) \ Unaddressed
             /\ h.pc \notin {"connect", "disconnect"} => P = (V \ {n}) \ Unaddressed
<1>1. \A n \in Node : Agree(OnRing(n), pool[n], n, handler[n])
  BY DEF PoolTracksRing
<1>2. ASSUME NEW n \in Node, Agree(Range(view'[n]), pool'[n], n, handler'[n]),
             \A m \in Node \ {n} : /\ view'[m] = view[m] /\ pool'[m] = pool[m]
                                   /\ handler'[m] = handler[m]
      PROVE  PoolTracksRing'
  <2>1. ASSUME NEW m \in Node, m # n PROVE Agree(Range(view'[m]), pool'[m], m, handler'[m])
    <3>1. view'[m] = view[m] /\ pool'[m] = pool[m] /\ handler'[m] = handler[m]
      BY <1>2, <2>1
    <3>. QED BY <1>1, <3>1 DEF OnRing
  <2>2. \A m \in Node : Agree(Range(view'[m]), pool'[m], m, handler'[m])
    <3>. HIDE DEF Agree
    <3>. QED BY <1>2, <2>1
  <2>. QED BY <2>2 DEF PoolTracksRing, OnRing
<1>3. ASSUME UNCHANGED <<view, pool, handler>> PROVE PoolTracksRing'
  BY <1>3 DEF PoolTracksRing, OnRing
<1>4. ASSUME NEW n \in Node, NEW h, Become(n, h)
      PROVE  handler'[n] = h /\ \A m \in Node \ {n} : handler'[m] = handler[m]
  BY <1>4 DEF Become, TypeOK
<1>5. ASSUME NEW n \in Node, Return(n), UNCHANGED <<view, pool>>,
             handler[n].pc \notin {"connect", "disconnect"}
      PROVE  PoolTracksRing'
  <2>1. handler'[n].pc = "idle" /\ \A m \in Node \ {n} : handler'[m] = handler[m]
    BY <1>4, <1>5 DEF Return, NoHandler
  <2>2. Agree(Range(view'[n]), pool'[n], n, handler'[n])
    BY <1>1, <1>5, <2>1 DEF OnRing
  <2>. HIDE DEF Agree
  <2>. QED BY <1>2, <1>5, <2>1, <2>2
<1>6. ASSUME NEW n \in Node, NEW h, Become(n, h), UNCHANGED <<view, pool>>,
             h.pc \notin {"connect", "disconnect"},
             handler[n].pc \notin {"connect", "disconnect"}
      PROVE  PoolTracksRing'
  <2>1. Agree(Range(view'[n]), pool'[n], n, h)
    BY <1>1, <1>6 DEF OnRing
  <2>. HIDE DEF Agree
  <2>. QED BY <1>2, <1>4, <1>6, <2>1
<1>7. ASSUME NEW n \in Node, HandlerStep(n) PROVE PoolTracksRing'
  <2> handler[n] \in Handler
    BY DEF TypeOK
  <2>1. CASE AddConnection(n)
    <3> DEFINE h == [handler[n] EXCEPT !.pc = "scan", !.listed = StoredKeys(n)]
    <3>1. Become(n, NoHandler) \/ Become(n, h)
      BY <2>1 DEF AddConnection
    <3>2. NoHandler.pc = "idle" /\ h.pc = "scan"
      BY DEF NoHandler, Handler
    <3>3. handler'[n].pc \notin {"connect", "disconnect"}
      <4> HIDE DEF h
      <4> QED BY <1>4, <3>1, <3>2
    <3>4. /\ pool'[n] = pool[n] \cup ({handler[n].peer} \ Unaddressed) /\ view' = view
          /\ \A m \in Node \ {n} : pool'[m] = pool[m]
      BY <2>1 DEF AddConnection, TypeOK
    <3>5. handler[n].pc = "connect"
      BY <2>1 DEF AddConnection
    <3>6. pool'[n] = (Range(view'[n]) \ {n}) \ Unaddressed
      BY <1>1, <3>4, <3>5 DEF OnRing
    <3>7. Agree(Range(view'[n]), pool'[n], n, handler'[n])
      BY <3>3, <3>6
    <3> HIDE DEF h, Agree
    <3> QED BY <1>2, <1>4, <3>1, <3>4, <3>7
  <2>2. CASE PickKey(n)
    <3> DEFINE next(k) == [handler[n] EXCEPT !.visited = @ \cup {k}]
               read(k) == [next(k) EXCEPT !.pc = "read", !.key = k, !.target = OwnerOn(n, k)]
    <3>1. PICK k : Become(n, next(k)) \/ Become(n, read(k)) \/ Become(n, NoHandler)
      BY <2>2 DEF PickKey
    <3>2. /\ next(k).pc = handler[n].pc /\ read(k).pc = "read" /\ NoHandler.pc = "idle"
          /\ handler[n].pc = "scan"
      BY <2>2 DEF PickKey, Handler, NoHandler
    <3> HIDE DEF next, read
    <3> QED BY <1>6, <2>2, <3>1, <3>2 DEF PickKey
  <2>3. CASE EndScan(n) \/ SendFails(n) \/ SendLosesReply(n)
    BY <1>5, <2>3 DEF EndScan, SendFails, SendLosesReply
  <2>4. CASE Read(n)
    <3> DEFINE h == [handler[n] EXCEPT !.pc = "send", !.val = store[n][handler[n].key]]
    <3>1. h.pc = "send"
      BY DEF Handler
    <3> HIDE DEF h
    <3> QED BY <1>6, <2>4, <3>1 DEF Read, h
  <2>5. CASE SendOk(n)
    <3> DEFINE h == [handler[n] EXCEPT !.pc = "delete"]
    <3>1. h.pc = "delete"
      BY DEF Handler
    <3> HIDE DEF h
    <3> QED BY <1>6, <2>5, <3>1 DEF SendOk, h
  <2>6. CASE Delete(n)
    <3> DEFINE h == [handler[n] EXCEPT !.pc = "scan", !.key = NoKey, !.target = NoNode,
                                       !.val = NoValue]
    <3>1. h.pc = "scan"
      BY DEF Handler
    <3> HIDE DEF h
    <3> QED BY <1>6, <2>6, <3>1 DEF Delete, h
  <2>7. CASE RemoveConnection(n)
    <3>1. /\ handler[n].pc = "disconnect" /\ pool'[n] = pool[n] \ {handler[n].peer}
          /\ view' = view /\ \A m \in Node \ {n} : pool'[m] = pool[m]
      BY <2>7 DEF RemoveConnection, TypeOK
    <3>2. pool'[n] = (Range(view'[n]) \ {n}) \ Unaddressed
      BY <1>1, <3>1 DEF OnRing
    <3>3. handler'[n].pc = "idle" /\ \A m \in Node \ {n} : handler'[m] = handler[m]
      BY <1>4, <2>7 DEF RemoveConnection, Return, NoHandler
    <3>4. Agree(Range(view'[n]), pool'[n], n, handler'[n])
      BY <3>2, <3>3
    <3> HIDE DEF Agree
    <3> QED BY <1>2, <3>1, <3>3, <3>4
  <2> QED BY <1>7, <2>1, <2>2, <2>3, <2>4, <2>5, <2>6, <2>7 DEF HandlerStep
<1>8. ASSUME NEW n \in Node, NEW peer \in Node, NotifyJoin(n, peer) PROVE PoolTracksRing'
  <2> DEFINE h == [NoHandler EXCEPT !.pc = "connect", !.peer = peer]
  <2>1. h.pc = "connect" /\ h.peer = peer /\ Become(n, h)
    BY <1>8 DEF NoHandler, NotifyJoin
  <2>2. /\ view'[n] = Append(view[n], peer) /\ peer # n /\ pool' = pool
        /\ peer \notin OnRing(n) /\ handler[n].pc = "idle"
        /\ \A m \in Node \ {n} : view'[m] = view[m]
    BY <1>8 DEF NotifyJoin, TypeOK, NoHandler
  <2>3. Range(view'[n]) = OnRing(n) \cup {peer}
    BY <2>2, RingFacts
  <2>4. pool[n] = (OnRing(n) \ {n}) \ Unaddressed
    BY <1>1, <2>2
  <2>5. Agree(Range(view'[n]), pool'[n], n, h)
    <3>1. pool'[n] = (Range(view'[n]) \ {n}) \ (Unaddressed \cup {peer}) /\ peer \in Range(view'[n]) \ {n}
      BY <2>2, <2>3, <2>4
    <3>. HIDE DEF h
    <3>. QED BY <2>1, <3>1
  <2> HIDE DEF h, Agree
  <2> QED BY <1>2, <1>4, <2>1, <2>2, <2>5
<1>9. ASSUME NEW n \in Node, NEW peer \in Node, NotifyLeave(n, peer) PROVE PoolTracksRing'
  <2> DEFINE h == [NoHandler EXCEPT !.pc = "disconnect", !.peer = peer]
  <2>1. h.pc = "disconnect" /\ h.peer = peer /\ Become(n, h)
    BY <1>9 DEF NoHandler, NotifyLeave
  <2>2. /\ view'[n] = RemoveFirst(view[n], peer) /\ peer # n /\ pool' = pool
        /\ peer \in OnRing(n) /\ handler[n].pc = "idle"
        /\ \A m \in Node \ {n} : view'[m] = view[m]
    BY <1>9 DEF NotifyLeave, TypeOK, NoHandler
  <2>3. Range(view'[n]) = OnRing(n) \ {peer}
    BY <2>2, RingFacts
  <2>4. pool[n] = (OnRing(n) \ {n}) \ Unaddressed
    BY <1>1, <2>2
  <2>5. Agree(Range(view'[n]), pool'[n], n, h)
    <3>1. /\ pool'[n] = ((Range(view'[n]) \ {n}) \cup {peer}) \ Unaddressed
          /\ peer \notin Range(view'[n]) \ {n}
      BY <2>2, <2>3, <2>4
    <3>. HIDE DEF h
    <3>. QED BY <2>1, <3>1
  <2> HIDE DEF h, Agree
  <2> QED BY <1>2, <1>4, <2>1, <2>2, <2>5
<1>10. ASSUME NEW n \in Node, MainStep(n) PROVE PoolTracksRing'
  <2>1. CASE AddSelf(n)
    <3>1. /\ view'[n] = Append(view[n], n) /\ UNCHANGED <<pool, handler>>
          /\ \A m \in Node \ {n} : view'[m] = view[m]
      BY <2>1 DEF AddSelf, TypeOK
    <3>2. n \notin OnRing(n)
      BY <2>1 DEF AddSelf, SetPhase, NamedOnce
    <3>3. Range(view'[n]) \ {n} = OnRing(n) \ {n}
      BY <3>1, <3>2, RingFacts
    <3>4. Agree(Range(view'[n]), pool'[n], n, handler'[n])
      BY <1>1, <3>1, <3>3
    <3> HIDE DEF Agree
    <3> QED BY <1>2, <3>1, <3>4
  <2>2. CASE Leave(n) \/ Crash(n)
    <3>1. /\ view'[n] = <<>> /\ pool'[n] = {} /\ Become(n, NoHandler)
          /\ \A m \in Node \ {n} : view'[m] = view[m] /\ pool'[m] = pool[m]
      BY <2>2 DEF Leave, Crash, Vanish, Return, TypeOK
    <3>2. handler'[n].pc = "idle" /\ Range(view'[n]) = {}
      BY <1>4, <3>1, EmptyOrder DEF NoHandler
    <3>3. Agree(Range(view'[n]), pool'[n], n, handler'[n])
      BY <3>1, <3>2
    <3> HIDE DEF Agree
    <3> QED BY <1>2, <1>4, <3>1, <3>3
  <2>3. CASE Start(n) \/ ServeGrpc(n) \/ ServeHttp(n) \/ ShutdownHttp(n) \/ StopGrpc(n)
    BY <1>3, <2>3 DEF Start, ServeGrpc, ServeHttp, ShutdownHttp, StopGrpc
  <2> QED BY <1>10, <2>1, <2>2, <2>3 DEF MainStep
<1>11. ASSUME NEW n \in Node, NEW k, NEW v, NEW op, Accept(n, op, k, v) PROVE PoolTracksRing'
  BY <1>3, <1>11 DEF Accept
<1>12. ASSUME NEW t \in tasks, TaskStep(t) PROVE PoolTracksRing'
  BY <1>3, <1>12 DEF TaskStep, writeValue, deleteValue, forwardPost, Write, WriteFails
<1>13. CASE UNCHANGED vars
  BY <1>3, <1>13 DEF vars
<1> QED BY <1>7, <1>8, <1>9, <1>10, <1>11, <1>12, <1>13 DEF Next, handlePost, handleDelete

-----------------------------------------------------------------------------
(* Survival. What a step does to the stores, to the settled keys and to the *)
(* handlers about to delete falls into four cases, one lemma each.          *)

\* Settled keys stay where they are, and no handler comes to delete a key.
LEMMA SurvivesKeeping ==
    ASSUME SentToCloserNode, KeySurvivesRebalancing,
           settled' \subseteq settled,
           \A m \in Node, k \in settled' : store[m][k] # NoValue => store'[m][k] # NoValue,
           \A m \in Node : handler'[m].pc = "delete" =>
                handler[m].pc = "delete" /\ handler'[m].key = handler[m].key
    PROVE  SentToCloserNode' /\ KeySurvivesRebalancing'
BY DEF SentToCloserNode, KeySurvivesRebalancing

\* What a write of v does to the store: the keys in E go, k has the value v.
LEMMA WriteFacts ==
    ASSUME TypeOK, NEW n \in Node, NEW k \in Key, NEW v \in Value, NEW E \in Evictable,
           store' = StoreAfterWrite(n, k, v, E)
    PROVE  /\ k \notin E => store'[n][k] # NoValue
           /\ \A m \in Node, j \in Key \ E : store[m][j] # NoValue => store'[m][j] # NoValue
BY ClusterAssumption DEF TypeOK, StoreAfterWrite

\* A client's write: the key that settles is in the store it was written to.
LEMMA SurvivesClientWrite ==
    ASSUME TypeOK, SentToCloserNode, KeySurvivesRebalancing,
           NEW n \in Node, NEW k \in Key, NEW v \in Value, NEW E \in Evictable,
           store' = StoreAfterWrite(n, k, v, E), settled' = Settle(k, E),
           UNCHANGED handler
    PROVE  SentToCloserNode' /\ KeySurvivesRebalancing'
<1>1. settled' \subseteq Key /\ settled' \cap E = {} /\ settled' \subseteq settled \cup {k}
  BY SettleType DEF Settle
<1>2. KeySurvivesRebalancing'
  BY <1>1, WriteFacts DEF KeySurvivesRebalancing
<1>3. ASSUME NEW m \in Node, handler[m].pc = "delete", handler[m].key \in settled'
      PROVE  handler[m].key \in settled
  BY <1>1, <1>3 DEF Settle
<1>4. SentToCloserNode'
  BY <1>1, <1>3, WriteFacts DEF SentToCloserNode
<1> QED BY <1>2, <1>4

\* A transfer: the new copy is on a node closer than the one that deletes next.
LEMMA SurvivesTransfer ==
    ASSUME TypeOK, TargetIsCloser, SentToCloserNode, KeySurvivesRebalancing,
           NEW n \in Node, SendOk(n)
    PROVE  SentToCloserNode' /\ KeySurvivesRebalancing'
<1> DEFINE h == handler[n]
<1>1. /\ h.key \in Key /\ h.target \in Node /\ h.val \in Value /\ h \in Handler
      /\ h.key \in UndisputedKeys => Closer(h.target, n, KeyHash[h.key])
  BY DEF SendOk, TargetIsCloser, TypeOK, Handler, Accepts
<1>2. PICK E \in Evictable : /\ store' = StoreAfterWrite(h.target, h.key, h.val, E)
                             /\ settled' = settled \ E
  BY DEF SendOk
<1>3. /\ h.key \notin E => store'[h.target][h.key] # NoValue
      /\ \A m \in Node, j \in Key \ E : store[m][j] # NoValue => store'[m][j] # NoValue
  BY <1>1, <1>2, WriteFacts
<1>4. settled \subseteq Key
  BY DEF TypeOK
<1>5. [h EXCEPT !.pc = "delete"].key = h.key
  BY <1>1 DEF Handler
<1>6. \A m \in Node \ {n} : handler'[m] = handler[m]
  BY DEF SendOk, Become, TypeOK
<1>7. handler'[n].key = h.key
  BY <1>5 DEF SendOk, Become, TypeOK
<1>8. KeySurvivesRebalancing'
  BY <1>2, <1>3, <1>4 DEF KeySurvivesRebalancing
<1>9. ASSUME NEW m \in Node, handler'[m].pc = "delete", handler'[m].key \in settled',
             handler'[m].key \in UndisputedKeys
      PROVE  \E i \in Node : /\ Closer(i, m, KeyHash[handler'[m].key])
                             /\ store'[i][handler'[m].key] # NoValue
  <2>1. CASE m = n
    <3>1. h.key \notin E
      BY <1>2, <1>7, <1>9, <2>1
    <3> HIDE DEF h
    <3> QED BY <1>1, <1>3, <1>7, <1>9, <2>1, <3>1
  <2>2. CASE m # n
    <3>1. handler'[m] = handler[m]
      BY <1>6, <2>2
    <3>2. handler[m].key \in settled \cap UndisputedKeys /\ handler[m].key \in Key \ E
      BY <1>2, <1>4, <1>9, <3>1
    <3>3. PICK i \in Node : /\ Closer(i, m, KeyHash[handler[m].key])
                            /\ store[i][handler[m].key] # NoValue
      BY <1>9, <3>1, <3>2 DEF SentToCloserNode
    <3> QED BY <1>3, <3>1, <3>2, <3>3
  <2> QED BY <2>1, <2>2
<1> QED BY <1>8, <1>9 DEF SentToCloserNode

\* The delete that ends a transfer. The node deleting may itself hold the copy
\* that another deletion relies on, but then the copy it relies on is closer.
LEMMA SurvivesDelete ==
    ASSUME TypeOK, TargetIsCloser, SentToCloserNode, KeySurvivesRebalancing,
           NEW n \in Node, Delete(n)
    PROVE  SentToCloserNode' /\ KeySurvivesRebalancing'
<1> DEFINE k == handler[n].key
<1>1. k \in Key /\ handler[n] \in Handler /\ settled' = settled /\ settled \subseteq Key
  BY DEF Delete, TargetIsCloser, TypeOK
<1>2. /\ \A m \in Node \ {n}, j \in Key : store'[m][j] = store[m][j]
      /\ \A j \in Key \ {k} : store'[n][j] = store[n][j]
  BY <1>1 DEF Delete, TypeOK
<1>3. ASSUME k \in settled \cap UndisputedKeys
      PROVE  \E m \in Node \ {n} : Closer(m, n, KeyHash[k]) /\ store'[m][k] # NoValue
  <2>1. PICK m \in Node : Closer(m, n, KeyHash[k]) /\ store[m][k] # NoValue
    BY <1>3 DEF SentToCloserNode, Delete
  <2>2. m # n
    BY <1>1, <2>1, ClusterAssumption, CloserIrreflexive
  <2> QED BY <1>1, <1>2, <2>1, <2>2
<1>4. KeySurvivesRebalancing'
  <2> SUFFICES ASSUME NEW j \in settled \cap UndisputedKeys PROVE \E m \in Node : store'[m][j] # NoValue
    BY <1>1 DEF KeySurvivesRebalancing
  <2>1. CASE j = k
    BY <1>3, <2>1
  <2>2. CASE j # k
    BY <1>1, <1>2, <2>2 DEF KeySurvivesRebalancing
  <2> QED BY <2>1, <2>2
<1>5. [handler[n] EXCEPT !.pc = "scan", !.key = NoKey, !.target = NoNode,
                         !.val = NoValue].pc = "scan"
  BY <1>1 DEF Handler
<1>6. handler'[n].pc = "scan" /\ \A m \in Node \ {n} : handler'[m] = handler[m]
  BY <1>5 DEF Delete, Become, TypeOK
<1>7. ASSUME NEW m \in Node, handler'[m].pc = "delete", handler'[m].key \in settled',
             handler'[m].key \in UndisputedKeys
      PROVE  \E i \in Node : /\ Closer(i, m, KeyHash[handler'[m].key])
                             /\ store'[i][handler'[m].key] # NoValue
  <2>1. /\ m # n /\ handler'[m] = handler[m]
        /\ handler[m].key \in settled \cap UndisputedKeys
    BY <1>1, <1>6, <1>7
  <2>2. PICK i \in Node : /\ Closer(i, m, KeyHash[handler[m].key])
                          /\ store[i][handler[m].key] # NoValue
    BY <1>7, <2>1 DEF SentToCloserNode
  <2>3. CASE i = n /\ handler[m].key = k
    <3>1. PICK l \in Node \ {n} : Closer(l, n, KeyHash[k]) /\ store'[l][k] # NoValue
      BY <1>3, <2>1, <2>3
    <3>2. Closer(l, m, KeyHash[k])
      BY <1>1, <2>2, <2>3, <3>1, ClusterAssumption, CloserTransitive
    <3> QED BY <2>1, <2>3, <3>1, <3>2
  <2>4. CASE ~ (i = n /\ handler[m].key = k)
    <3>1. store'[i][handler[m].key] = store[i][handler[m].key]
      BY <1>1, <1>2, <2>1, <2>4
    <3> QED BY <2>1, <2>2, <3>1
  <2> QED BY <2>3, <2>4
<1> QED BY <1>4, <1>7 DEF SentToCloserNode

\* No step loses a settled key.
LEMMA SurvivalStep ==
    ASSUME TypeOK, TargetIsCloser, SentToCloserNode, KeySurvivesRebalancing, [Next]_vars
    PROVE  SentToCloserNode' /\ KeySurvivesRebalancing'
<1> DEFINE Goal == SentToCloserNode' /\ KeySurvivesRebalancing'
<1>1. ASSUME NEW n \in Node, NEW h, Become(n, h), h.pc # "delete",
             settled' \subseteq settled,
             \A m \in Node, k \in settled' : store[m][k] # NoValue => store'[m][k] # NoValue
      PROVE  Goal
  <2>1. \A m \in Node : handler'[m].pc = "delete" =>
            handler[m].pc = "delete" /\ handler'[m].key = handler[m].key
    BY <1>1 DEF Become, TypeOK
  <2> QED BY <1>1, <2>1, SurvivesKeeping
<1>2. ASSUME UNCHANGED <<settled, store, handler>> PROVE Goal
  BY <1>2, SurvivesKeeping
<1>3. ASSUME NEW n \in Node, NEW h, Become(n, h), h.pc # "delete", UNCHANGED <<settled, store>>
      PROVE  Goal
  BY <1>1, <1>3
<1>4. NoHandler.pc = "idle"
  BY DEF NoHandler
<1>5. ASSUME NEW n \in Node, MainStep(n) PROVE Goal
  <2>1. CASE Leave(n) \/ Crash(n)
    <3>1. /\ Become(n, NoHandler) /\ settled' = settled \ StoredKeys(n)
          /\ store' = [store EXCEPT ![n] = EmptyStore] /\ settled \subseteq Key
      BY <2>1 DEF Leave, Crash, Vanish, Return, TypeOK
    <3>2. \A m \in Node, k \in settled' : store[m][k] # NoValue => store'[m][k] # NoValue
      BY <3>1 DEF StoredKeys, TypeOK
    <3> QED BY <1>1, <1>4, <3>1, <3>2
  <2>2. CASE ~ (Leave(n) \/ Crash(n))
    BY <1>2, <1>5, <2>2 DEF MainStep, Start, AddSelf, ServeGrpc, ServeHttp, ShutdownHttp, StopGrpc
  <2> QED BY <2>1, <2>2
<1>6. ASSUME NEW n \in Node, HandlerStep(n) PROVE Goal
  <2> handler[n] \in Handler
    BY DEF TypeOK
  <2> HIDE DEF Goal
  <2>1. CASE AddConnection(n)
    <3> DEFINE h == [handler[n] EXCEPT !.pc = "scan", !.listed = StoredKeys(n)]
    <3>1. h.pc = "scan" /\ (Become(n, NoHandler) \/ Become(n, h))
      BY <2>1 DEF AddConnection, Handler
    <3> HIDE DEF h
    <3> QED BY <1>3, <1>4, <2>1, <3>1 DEF AddConnection
  <2>2. CASE PickKey(n)
    <3> DEFINE next(k) == [handler[n] EXCEPT !.visited = @ \cup {k}]
               read(k) == [next(k) EXCEPT !.pc = "read", !.key = k, !.target = OwnerOn(n, k)]
    <3>1. PICK k : Become(n, next(k)) \/ Become(n, read(k)) \/ Become(n, NoHandler)
      BY <2>2 DEF PickKey
    <3>2. next(k).pc = "scan" /\ read(k).pc = "read"
      BY <2>2 DEF PickKey, Handler
    <3> HIDE DEF next, read
    <3> QED BY <1>3, <1>4, <2>2, <3>1, <3>2 DEF PickKey
  <2>3. CASE EndScan(n) \/ SendFails(n) \/ RemoveConnection(n)
    BY <1>3, <1>4, <2>3 DEF EndScan, SendFails, RemoveConnection, Return
  <2>4. CASE Read(n)
    <3> DEFINE h == [handler[n] EXCEPT !.pc = "send", !.val = store[n][handler[n].key]]
    <3>1. h.pc = "send"
      BY DEF Handler
    <3> HIDE DEF h
    <3> QED BY <1>3, <2>4, <3>1 DEF Read, h
  <2>5. CASE SendOk(n)
    BY <2>5, SurvivesTransfer DEF Goal
  <2>6. CASE SendLosesReply(n)
    <3>1. /\ handler[n].key \in Key /\ handler[n].target \in Node /\ handler[n].val \in Value
          /\ settled \subseteq Key
      BY <2>6 DEF SendLosesReply, TargetIsCloser, TypeOK, Handler, Accepts
    <3>2. PICK E \in Evictable :
              /\ store' = StoreAfterWrite(handler[n].target, handler[n].key, handler[n].val, E)
              /\ settled' = settled \ E
      BY <2>6 DEF SendLosesReply
    <3>3. \A m \in Node, k \in settled' : store[m][k] # NoValue => store'[m][k] # NoValue
      BY <3>1, <3>2, WriteFacts
    <3>4. Become(n, NoHandler)
      BY <2>6 DEF SendLosesReply, Return
    <3> QED BY <1>1, <1>4, <3>2, <3>3, <3>4
  <2>7. CASE Delete(n)
    BY <2>7, SurvivesDelete DEF Goal
  <2> QED BY <1>6, <2>1, <2>2, <2>3, <2>4, <2>5, <2>6, <2>7 DEF HandlerStep
<1>7. ASSUME NEW n \in Node, NEW peer \in Node, NotifyJoin(n, peer) \/ NotifyLeave(n, peer)
      PROVE  Goal
  <2>1. /\ [NoHandler EXCEPT !.pc = "connect", !.peer = peer].pc = "connect"
        /\ [NoHandler EXCEPT !.pc = "disconnect", !.peer = peer].pc = "disconnect"
    BY DEF NoHandler
  <2> HIDE DEF Goal
  <2> QED BY <1>3, <1>7, <2>1 DEF NotifyJoin, NotifyLeave
<1>8. ASSUME NEW n \in Node, NEW k, NEW v, NEW op, Accept(n, op, k, v) PROVE Goal
  BY <1>2, <1>8 DEF Accept
<1>9. ASSUME NEW t \in tasks, TaskStep(t) PROVE Goal
  <2>1. /\ t.node \in Node /\ t.key \in Key /\ t.target \in Node
        /\ t.op = "post" \/ t.pc = "sent" => t.val \in Value
    BY DEF TypeOK, Post, Deletion
  <2>2. CASE writeValue(t)
    BY <2>1, <2>2, SurvivesClientWrite DEF writeValue
  <2>3. CASE deleteValue(t)
    <3>1. \A m \in Node, k \in settled' : store[m][k] # NoValue => store'[m][k] # NoValue
      BY <2>1, <2>3 DEF deleteValue, TypeOK
    <3> QED BY <2>3, <3>1, SurvivesKeeping DEF deleteValue
  <2>4. CASE forwardPost(t) \/ WriteFails(t)
    BY <1>2, <2>4 DEF forwardPost, WriteFails
  <2>5. CASE Write(t)
    <3>1. CASE Accepts(t.key, t.val)
      BY <2>1, <2>5, <3>1, SurvivesClientWrite DEF Write
    <3>2. CASE ~ Accepts(t.key, t.val)
      BY <1>2, <2>5, <3>2 DEF Write
    <3> QED BY <3>1, <3>2
  <2> QED BY <1>9, <2>2, <2>3, <2>4, <2>5 DEF TaskStep
<1>10. CASE UNCHANGED vars
  BY <1>2, <1>10 DEF vars
<1> QED BY <1>5, <1>6, <1>7, <1>8, <1>9, <1>10 DEF Next, handlePost, handleDelete

-----------------------------------------------------------------------------
\* The processes that run at first satisfy the invariant.
LEMMA ClusterInvInit == Init => ClusterInv
<1> SUFFICES ASSUME Init PROVE ClusterInv
  OBVIOUS
<1> USE ClusterAssumption DEF Init
<1>1. NoHandler \in Handler /\ NoHandler.pc = "idle" /\ NoHandler.listed = {}
  BY DEF NoHandler, Handler
<1>0. \A n \in Node : /\ view[n] \in Seq(Node) /\ IsInjective(view[n])
                       /\ OnRing(n) = IF n \in InitialMembers THEN InitialMembers ELSE {}
  <2>. SUFFICES ASSUME NEW n \in Node
                PROVE  /\ view[n] \in Seq(Node) /\ IsInjective(view[n])
                       /\ OnRing(n) = IF n \in InitialMembers THEN InitialMembers ELSE {}
    OBVIOUS
  <2>1. /\ n \in InitialMembers => view[n] \in SetToSeqs(InitialMembers)
        /\ n \notin InitialMembers => view[n] = <<>>
    OBVIOUS
  <2>. QED BY <2>1, InitialOrders, EmptyOrder DEF OnRing
<1>2. EmptyStore \in [Key -> Value \cup {NoValue}]
  BY DEF EmptyStore
<1>3. TypeOK
  <2>1. left \in Bounds
    BY DEF Bounds
  <2>2. phase \in [Node -> Phase]
    BY DEF Phase
  <2>3. view \in [Node -> Seq(Node)] /\ pool \in [Node -> SUBSET Node]
    BY <1>0
  <2> QED BY <1>1, <1>2, <2>1, <2>2, <2>3 DEF TypeOK
<1>4. NamedOnce
  BY <1>0 DEF NamedOnce
<1>5. NothingBeforeServing
  BY <1>1 DEF NothingBeforeServing
<1>6. TargetIsCloser /\ SentToCloserNode /\ KeySurvivesRebalancing
  BY <1>1 DEF TargetIsCloser, SentToCloserNode, KeySurvivesRebalancing
<1>7. PoolTracksRing
  BY <1>0, <1>1 DEF PoolTracksRing
<1> QED BY <1>3, <1>4, <1>5, <1>6, <1>7 DEF ClusterInv

\* Every step keeps the invariant.
LEMMA ClusterInvStep == ClusterInv /\ [Next]_vars => ClusterInv'
BY TypeOKStep, NamedOnceStep, NothingBeforeServingStep, TargetIsCloserStep, PoolTracksRingStep,
   SurvivalStep DEF ClusterInv

\* The inductive invariant holds in every reachable state.
THEOREM ClusterInvariant == Spec => []ClusterInv
BY ClusterInvInit, ClusterInvStep, PTL DEF Spec

\* The state keeps its shape.
THEOREM TypeCorrect == Spec => []TypeOK
<1>1. ClusterInv => TypeOK
  BY DEF ClusterInv
<1> QED BY <1>1, ClusterInvariant, PTL

\* A node's ring and its pool name the same peers, but for the two calls of
\* the event handler that change first the one and then the other.
THEOREM PoolFollowsRing == Spec => []PoolTracksRing
<1>1. ClusterInv => PoolTracksRing
  BY DEF ClusterInv
<1> QED BY <1>1, ClusterInvariant, PTL

\* What a handler is about to delete has a copy on a node closer to the key, if no
\* two nodes are equally close: the handlers that move a key form a chain, whatever
\* rings they look at.
THEOREM TransfersAscend == Spec => []SentToCloserNode
<1>1. ClusterInv => SentToCloserNode
  BY DEF ClusterInv
<1> QED BY <1>1, ClusterInvariant, PTL

\* Rebalancing never loses a key that no two nodes are equally close to, however
\* events, transfers, requests and failures interleave, however much the nodes' rings
\* differ and whatever points collide.
THEOREM KeysSurvive == Spec => []KeySurvivesRebalancing
<1>1. ClusterInv => KeySurvivesRebalancing
  BY DEF ClusterInv
<1> QED BY <1>1, ClusterInvariant, PTL

-----------------------------------------------------------------------------
(* What a walk over the keys leaves behind.                                 *)

Walking == {"scan", "read", "send", "delete"}

\* What n stores and nobody has written since its handler asked for the list.
Old(n) == StoredKeys(n) \ fresh[n]

\* An old key was listed, and once it has been visited it belongs to n, or it is
\* the one under way.
Handed(n) ==
    /\ handler[n].pc = "connect" => handler[n].visited = {}
    /\ handler[n].pc \in Walking =>
            /\ Old(n) \subseteq handler[n].listed
            /\ \A k \in Old(n) \cap handler[n].visited :
                    OwnerOn(n, k) = n \/ (handler[n].pc # "scan" /\ k = handler[n].key)

WalkInv == \A n \in Node : Handed(n)

\* A walk whose node stores no more old keys than before, and which stays where
\* it was, comes from the read of its key to its deletion, or returns.
LEMMA WalkGoesOn ==
    ASSUME NEW n \in Node, Handed(n), view'[n] = view[n],
           handler[n].pc \in Walking => Old(n)' \subseteq Old(n),
           \/ handler'[n] = handler[n]
           \/ handler'[n].pc \notin Walking \cup {"connect"}
           \/ /\ handler[n].pc \in {"read", "send"} /\ handler'[n].pc \in {"send", "delete"}
              /\ handler'[n].listed = handler[n].listed /\ handler'[n].visited = handler[n].visited
              /\ handler'[n].key = handler[n].key
    PROVE  Handed(n)'
<1>1. \A k : OwnerOn(n, k)' = OwnerOn(n, k)
  BY DEF OwnerOn
<1>2. CASE handler'[n] = handler[n]
  BY <1>1, <1>2 DEF Handed
<1>3. CASE handler'[n].pc \notin Walking \cup {"connect"}
  BY <1>3 DEF Handed
<1>4. CASE /\ handler[n].pc \in {"read", "send"} /\ handler'[n].pc \in {"send", "delete"}
           /\ handler'[n].listed = handler[n].listed /\ handler'[n].visited = handler[n].visited
           /\ handler'[n].key = handler[n].key
  BY <1>1, <1>4 DEF Handed, Walking
<1>. QED BY <1>2, <1>3, <1>4

\* A write to a node that walks is news to the walk.
LEMMA WriteIsFresh ==
    ASSUME TypeOK, NEW m \in Node, NEW k \in Key, NEW v \in Value, NEW E \in Evictable,
           store' = StoreAfterWrite(m, k, v, E), fresh' = FreshAfterWrite(m, k)
    PROVE  \A n \in Node : handler[n].pc \in Walking => Old(n)' \subseteq Old(n)
<1>. SUFFICES ASSUME NEW n \in Node, handler[n].pc \in Walking, NEW j \in Old(n)'
              PROVE  j \in Old(n)
  OBVIOUS
<1>1. j \in Key /\ store'[n][j] # NoValue /\ j \notin fresh'[n]
  BY DEF Old, StoredKeys
<1>2. CASE n # m
  <2>1. store'[n] = store[n] /\ fresh'[n] = fresh[n]
    BY <1>2 DEF TypeOK, StoreAfterWrite, FreshAfterWrite
  <2>. QED BY <1>1, <2>1 DEF Old, StoredKeys
<1>3. CASE n = m
  <2>1. fresh'[n] = fresh[n] \cup {k}
    BY <1>3 DEF TypeOK, FreshAfterWrite, Walking
  <2>2. store'[n][j] = IF j \in E THEN NoValue ELSE IF j = k THEN v ELSE store[n][j]
    BY <1>1, <1>3 DEF TypeOK, StoreAfterWrite
  <2>. QED BY <1>1, <2>1, <2>2 DEF Old, StoredKeys
<1>. QED BY <1>2, <1>3

\* Deleting a key makes no other one old.
LEMMA DeletionKeepsOld ==
    ASSUME TypeOK, NEW m \in Node, NEW k \in Key,
           store' = [store EXCEPT ![m][k] = NoValue], fresh' = fresh
    PROVE  /\ \A n \in Node : Old(n)' \subseteq Old(n)
           /\ k \notin Old(m)'
<1>1. \A n \in Node, j \in Key : store'[n][j] = IF n = m /\ j = k THEN NoValue ELSE store[n][j]
  BY DEF TypeOK
<1>. QED BY <1>1 DEF Old, StoredKeys

LEMMA WalkStep ==
    ASSUME ClusterInv, WalkInv, [Next]_vars
    PROVE  WalkInv'
<1>. TypeOK
  BY DEF ClusterInv
<1>1. ASSUME view' = view, \A n \in Node : handler'[n] = handler[n],
             \A n \in Node : handler[n].pc \in Walking => Old(n)' \subseteq Old(n)
      PROVE  WalkInv'
  BY <1>1, WalkGoesOn DEF WalkInv
<1>2. ASSUME UNCHANGED <<view, handler, store, fresh>> PROVE WalkInv'
  BY <1>1, <1>2 DEF Old, StoredKeys
\* The steps of one handler; those of others go on.
<1>3. ASSUME NEW n \in Node, NEW h, Become(n, h), Handed(n)', view' = view,
             \A m \in Node : handler[m].pc \in Walking => m = n \/ Old(m)' \subseteq Old(m)
      PROVE  WalkInv'
  <2>1. \A m \in Node : m # n => handler'[m] = handler[m]
    BY <1>3 DEF Become, TypeOK
  <2>2. ASSUME NEW m \in Node, m # n PROVE Handed(m)'
    BY <1>3, <2>1, <2>2, WalkGoesOn DEF WalkInv
  <2>. QED BY <1>3, <2>2 DEF WalkInv
<1>4. ASSUME UNCHANGED <<store, fresh>> PROVE \A n \in Node : Old(n)' = Old(n)
  BY <1>4 DEF Old, StoredKeys
<1>5. ASSUME NEW n \in Node, MainStep(n) PROVE WalkInv'
  <2>1. CASE Start(n) \/ ServeGrpc(n) \/ ServeHttp(n) \/ ShutdownHttp(n) \/ StopGrpc(n)
    BY <1>2, <2>1 DEF Start, ServeGrpc, ServeHttp, ShutdownHttp, StopGrpc
  <2>2. CASE AddSelf(n)
    \* n stores nothing yet, so that its new view changes no owner of a key of its.
    <3>1. store[n] = EmptyStore /\ UNCHANGED <<store, fresh, handler>>
      BY <2>2 DEF AddSelf, SetPhase, ClusterInv, NothingBeforeServing
    <3>2. Old(n)' = {} /\ Old(n) = {}
      BY <1>4, <3>1, StoreFacts DEF Old
    <3>3. Handed(n)'
      BY <3>1, <3>2 DEF WalkInv, Handed
    <3>4. ASSUME NEW m \in Node, m # n PROVE Handed(m)'
      <4>1. view'[m] = view[m]
        BY <2>2, <3>4 DEF AddSelf, TypeOK
      <4>. QED BY <1>4, <3>1, <4>1, WalkGoesOn DEF WalkInv
    <3>. QED BY <3>3, <3>4 DEF WalkInv
  <2>3. ASSUME Vanish(n) PROVE WalkInv'
    <3>1. handler'[n] = NoHandler
      BY <2>3 DEF Vanish, Return, Become, TypeOK
    <3>2. Handed(n)'
      BY <3>1 DEF Handed, NoHandler, Walking
    <3>3. ASSUME NEW m \in Node, m # n PROVE Handed(m)'
      <4>1. /\ view'[m] = view[m] /\ handler'[m] = handler[m]
            /\ store'[m] = store[m] /\ fresh'[m] = fresh[m]
        BY <2>3, <3>3 DEF Vanish, Return, Become, TypeOK
      <4>2. Old(m)' = Old(m)
        BY <4>1 DEF Old, StoredKeys
      <4>. QED BY <4>1, <4>2, WalkGoesOn DEF WalkInv
    <3>. QED BY <3>2, <3>3 DEF WalkInv
  <2>. QED BY <1>5, <2>1, <2>2, <2>3 DEF MainStep, Leave, Crash
<1>6. ASSUME NEW n \in Node, HandlerStep(n) PROVE WalkInv'
  <2>. Handed(n) /\ handler[n] \in Handler
    BY DEF WalkInv, TypeOK
  <2>1. ASSUME Return(n), view' = view,
               \A m \in Node : handler[m].pc \in Walking => Old(m)' \subseteq Old(m)
        PROVE  WalkInv'
    <3>1. handler'[n].pc = "idle"
      BY <2>1 DEF Return, Become, TypeOK, NoHandler
    <3>2. Handed(n)'
      BY <3>1 DEF Handed, Walking
    <3>. QED BY <1>3, <2>1, <3>2 DEF Return
  <2>2. CASE AddConnection(n)
    <3>. DEFINE h == [handler[n] EXCEPT !.pc = "scan", !.listed = StoredKeys(n)]
    <3>1. /\ handler[n].pc = "connect" /\ fresh' = [fresh EXCEPT ![n] = {}]
          /\ UNCHANGED <<store, view>> /\ (Return(n) \/ Become(n, h))
      BY <2>2 DEF AddConnection, Return
    <3>2. \A m \in Node : m # n => Old(m)' = Old(m)
      BY <3>1 DEF Old, StoredKeys, TypeOK
    <3>3. CASE Become(n, h)
      <4>1. h.pc = "scan" /\ h.listed = StoredKeys(n) /\ h.visited = {}
        BY <3>1 DEF Handed, Handler
      <4>. HIDE DEF h
      <4>2. handler'[n] = h /\ Old(n)' \subseteq StoredKeys(n)
        BY <3>1, <3>3 DEF Become, TypeOK, Old, StoredKeys
      <4>3. Handed(n)'
        BY <4>1, <4>2 DEF Handed
      <4>. QED BY <1>3, <3>1, <3>2, <3>3, <4>3
    <3>4. CASE Return(n)
      BY <2>1, <3>1, <3>2, <3>4 DEF Walking
    <3>. QED BY <3>1, <3>3, <3>4
  <2>3. CASE PickKey(n)
    <3>. DEFINE next(k) == [handler[n] EXCEPT !.visited = @ \cup {k}]
                read(k) == [next(k) EXCEPT !.pc = "read", !.key = k, !.target = OwnerOn(n, k)]
    <3>1. PICK k \in Upcoming(n) :
              Become(n, IF OwnerOn(n, k) = n THEN next(k)
                        ELSE IF OwnerOn(n, k) \in pool[n] THEN read(k) ELSE NoHandler)
      BY <2>3 DEF PickKey
    <3>2. handler[n].pc = "scan" /\ UNCHANGED <<store, fresh, view>>
      BY <2>3 DEF PickKey
    <3>3. \A m \in Node : Old(m)' = Old(m) /\ \A j : OwnerOn(m, j)' = OwnerOn(m, j)
      BY <1>4, <3>2 DEF OwnerOn
    <3>4. /\ next(k).pc = "scan" /\ next(k).listed = handler[n].listed
          /\ next(k).visited = handler[n].visited \cup {k}
      BY <3>2 DEF Handler
    <3>5. /\ read(k).pc = "read" /\ read(k).key = k /\ read(k).listed = handler[n].listed
          /\ read(k).visited = handler[n].visited \cup {k}
      BY DEF Handler
    <3>. HIDE DEF next, read
    <3>6. CASE OwnerOn(n, k) = n
      <4>1. Become(n, next(k)) /\ handler'[n] = next(k)
        BY <3>1, <3>6 DEF Become, TypeOK
      <4>2. Handed(n)'
        BY <3>2, <3>3, <3>4, <3>6, <4>1 DEF Handed, Walking
      <4>. QED BY <1>3, <3>2, <3>3, <4>1, <4>2
    <3>7. CASE OwnerOn(n, k) # n /\ OwnerOn(n, k) \in pool[n]
      <4>1. Become(n, read(k)) /\ handler'[n] = read(k)
        BY <3>1, <3>7 DEF Become, TypeOK
      <4>2. Handed(n)'
        BY <3>2, <3>3, <3>5, <4>1 DEF Handed, Walking
      <4>. QED BY <1>3, <3>2, <3>3, <4>1, <4>2
    <3>8. CASE OwnerOn(n, k) # n /\ OwnerOn(n, k) \notin pool[n]
      <4>1. Return(n)
        BY <3>1, <3>8 DEF Return
      <4>. QED BY <2>1, <3>2, <3>3, <4>1
    <3>. QED BY <3>6, <3>7, <3>8
  <2>4. CASE EndScan(n) \/ SendFails(n)
    BY <1>4, <2>1, <2>4 DEF EndScan, SendFails
  <2>5. CASE Read(n)
    <3>. DEFINE h == [handler[n] EXCEPT !.pc = "send", !.val = store[n][handler[n].key]]
    <3>1. handler[n].pc = "read" /\ Become(n, h) /\ UNCHANGED <<store, fresh, view>>
      BY <2>5 DEF Read
    <3>2. /\ h.pc = "send" /\ h.listed = handler[n].listed /\ h.visited = handler[n].visited
          /\ h.key = handler[n].key
      BY DEF Handler
    <3>. HIDE DEF h
    <3>3. handler'[n] = h
      BY <3>1 DEF Become, TypeOK
    <3>4. Handed(n)'
      BY <1>4, <3>1, <3>2, <3>3, WalkGoesOn
    <3>. QED BY <1>3, <1>4, <3>1, <3>4
  \* What the peer has stored is news to the walk of the peer.
  <2>6. ASSUME SendOk(n) \/ SendLosesReply(n)
        PROVE  /\ handler[n].pc = "send" /\ view' = view
               /\ \A m \in Node : handler[m].pc \in Walking => Old(m)' \subseteq Old(m)
    <3>. DEFINE t == handler[n].target
                k == handler[n].key
                v == handler[n].val
    <3>1. /\ handler[n].pc = "send" /\ view' = view /\ Accepts(k, v)
          /\ fresh' = FreshAfterWrite(t, k)
          /\ \E E \in Evictable : store' = StoreAfterWrite(t, k, v, E)
      BY <2>6 DEF SendOk, SendLosesReply
    <3>2. t \in Node /\ k \in Key /\ v \in Value
      BY <3>1 DEF ClusterInv, TargetIsCloser, Accepts, Handler
    <3>. HIDE DEF t, k, v
    <3>. QED BY <3>1, <3>2, WriteIsFresh
  <2>7. CASE SendOk(n)
    <3>. DEFINE h == [handler[n] EXCEPT !.pc = "delete"]
    <3>1. Become(n, h)
      BY <2>7 DEF SendOk
    <3>2. /\ h.pc = "delete" /\ h.listed = handler[n].listed /\ h.visited = handler[n].visited
          /\ h.key = handler[n].key
      BY DEF Handler
    <3>. HIDE DEF h
    <3>3. handler'[n] = h
      BY <3>1 DEF Become, TypeOK
    <3>4. Handed(n)'
      BY <2>6, <2>7, <3>2, <3>3, WalkGoesOn
    <3>. QED BY <1>3, <2>6, <2>7, <3>1, <3>4
  <2>8. CASE SendLosesReply(n)
    BY <2>1, <2>6, <2>8 DEF SendLosesReply
  <2>9. CASE Delete(n)
    <3>. DEFINE k == handler[n].key
                h == [handler[n] EXCEPT !.pc = "scan", !.key = NoKey, !.target = NoNode, !.val = NoValue]
    <3>1. /\ handler[n].pc = "delete" /\ Become(n, h) /\ UNCHANGED <<fresh, view>>
          /\ store' = [store EXCEPT ![n][k] = NoValue]
      BY <2>9 DEF Delete
    <3>2. h.pc = "scan" /\ h.listed = handler[n].listed /\ h.visited = handler[n].visited
      BY DEF Handler
    <3>3. k \in Key
      BY <3>1 DEF ClusterInv, TargetIsCloser
    <3>. HIDE DEF h, k
    <3>4. handler'[n] = h
      BY <3>1 DEF Become, TypeOK
    <3>5. (\A m \in Node : Old(m)' \subseteq Old(m)) /\ k \notin Old(n)'
      BY <3>1, <3>3, DeletionKeepsOld
    <3>6. \A j : OwnerOn(n, j)' = OwnerOn(n, j)
      BY <3>1 DEF OwnerOn
    <3>7. Handed(n)'
      BY <3>1, <3>2, <3>4, <3>5, <3>6 DEF Handed, Walking, k
    <3>. QED BY <1>3, <3>1, <3>5, <3>7
  <2>10. CASE RemoveConnection(n)
    BY <1>4, <2>1, <2>10 DEF RemoveConnection
  <2>. QED BY <1>6, <2>2, <2>3, <2>4, <2>5, <2>7, <2>8, <2>9, <2>10 DEF HandlerStep
<1>7. ASSUME NEW n \in Node, NEW peer \in Node, NotifyJoin(n, peer) \/ NotifyLeave(n, peer)
      PROVE  WalkInv'
  <2>1. PICK pc \in {"connect", "disconnect"} :
            /\ Become(n, [NoHandler EXCEPT !.pc = pc, !.peer = peer])
            /\ \A m \in Node : m # n => view'[m] = view[m]
            /\ UNCHANGED <<store, fresh>>
    BY <1>7 DEF NotifyJoin, NotifyLeave, TypeOK
  <2>2. handler'[n].pc = pc /\ handler'[n].visited = {}
    BY <2>1 DEF Become, NoHandler, TypeOK
  <2>3. Handed(n)'
    BY <2>2 DEF Handed, Walking
  <2>4. ASSUME NEW m \in Node, m # n PROVE Handed(m)'
    <3>1. handler'[m] = handler[m]
      BY <2>1, <2>4 DEF Become, TypeOK
    <3>. QED BY <1>4, <2>1, <2>4, <3>1, WalkGoesOn DEF WalkInv
  <2>. QED BY <2>3, <2>4 DEF WalkInv
<1>8. ASSUME NEW n \in Node, NEW k, NEW v, NEW op, Accept(n, op, k, v) PROVE WalkInv'
  BY <1>2, <1>8 DEF Accept
<1>9. ASSUME NEW t \in tasks, TaskStep(t) PROVE WalkInv'
  <2>1. /\ t.node \in Node /\ t.key \in Key /\ t.target \in Node
        /\ t.op = "post" \/ t.pc = "sent" => t.val \in Value
    BY DEF TypeOK, Post, Deletion
  <2>2. CASE writeValue(t)
    BY <1>1, <2>1, <2>2, WriteIsFresh DEF writeValue
  <2>3. CASE deleteValue(t)
    BY <1>1, <2>1, <2>3, DeletionKeepsOld DEF deleteValue
  <2>4. CASE forwardPost(t) \/ WriteFails(t)
    BY <1>2, <2>4 DEF forwardPost, WriteFails
  <2>5. CASE Write(t)
    <3>1. CASE Accepts(t.key, t.val)
      BY <1>1, <2>1, <2>5, <3>1, WriteIsFresh DEF Write
    <3>2. CASE ~ Accepts(t.key, t.val)
      BY <1>2, <2>5, <3>2 DEF Write
    <3>. QED BY <3>1, <3>2
  <2>. QED BY <1>9, <2>2, <2>3, <2>4, <2>5 DEF TaskStep
<1>10. CASE UNCHANGED vars
  BY <1>2, <1>10 DEF vars
<1>. QED BY <1>5, <1>6, <1>7, <1>8, <1>9, <1>10 DEF Next, handlePost, handleDelete

\* What was visited and is not the node's own has gone, whatever clients and
\* other handlers did meanwhile.
LEMMA WalkInvariant == Spec => []WalkInv
<1>1. Init => WalkInv
  <2>. SUFFICES ASSUME Init, NEW n \in Node PROVE Handed(n)
    BY DEF WalkInv
  <2>1. handler[n] = NoHandler
    BY DEF Init
  <2>2. NoHandler.pc = "idle"
    BY DEF NoHandler
  <2>. QED BY <2>1, <2>2 DEF Handed, Walking
<1>2. ClusterInv /\ WalkInv /\ [Next]_vars => WalkInv'
  BY WalkStep
<1>. QED BY <1>1, <1>2, ClusterInvariant, PTL DEF Spec

\* A walk that comes to its end leaves no key of another node behind, but for those
\* that were written after the handler had asked for the list: for both kinds of
\* listing, with any number of nodes, keys, requests and failing calls.
THEOREM CompletedScansHandOver == Spec => CompletedScanHandsOver
<1>1. ASSUME WalkInv, NEW n \in Node, EndScan(n), NEW k \in StoredKeys(n)
      PROVE  OwnerOn(n, k) = n \/ k \in fresh[n]
  <2>. SUFFICES ASSUME k \notin fresh[n] PROVE OwnerOn(n, k) = n
    OBVIOUS
  <2>1. handler[n].pc = "scan" /\ k \in Old(n)
    BY <1>1 DEF EndScan, Old
  <2>2. k \in handler[n].listed
    BY <1>1, <2>1 DEF WalkInv, Handed, Walking
  <2>3. k \in handler[n].visited
    BY <1>1, <2>2 DEF EndScan, Upcoming
  <2>. QED BY <1>1, <2>1, <2>3 DEF WalkInv, Handed, Walking
<1>2. WalkInv /\ [Next]_vars =>
        [\A n \in Node : EndScan(n) =>
            \A k \in StoredKeys(n) : OwnerOn(n, k) = n \/ k \in fresh[n]]_vars
  BY <1>1
<1>. QED BY <1>2, WalkInvariant, PTL DEF Spec, CompletedScanHandsOver
=============================================================================
