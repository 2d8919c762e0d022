-------------------------- MODULE HashRing_proofs --------------------------
(***************************************************************************)
(* Proofs about the consistent hash ring, for any number of nodes, virtual *)
(* nodes and readers, and any hash function: what sortInto, DeleteFunc and *)
(* the lookup do to a slice, and that one caller of AddNode and RemoveNode *)
(* keeps it in order.                                                      *)
(***************************************************************************)
EXTENDS HashRing, KeyQueues

Sorted(slice) == \A i, j \in 1 .. Len(slice) : i < j => Hash[slice[i]] <= Hash[slice[j]]

-----------------------------------------------------------------------------
(* What sortInto and the search do to a slice.                              *)

LEMMA HashIsNatural == \A p \in Point : Hash[p] \in Nat /\ Hash[p] < HashSpace
  BY PlacementAssumption DEF HashValue

LEMMA FirstAboveEffect ==
    ASSUME NEW slice \in Seq(Point), NEW h \in Nat
    PROVE  /\ FirstAbove(slice, h) \in 1 .. Len(slice) + 1
           /\ \A j \in 1 .. FirstAbove(slice, h) - 1 : Hash[slice[j]] <= h
           /\ FirstAbove(slice, h) <= Len(slice) => Hash[slice[FirstAbove(slice, h)]] > h
<1>. DEFINE n == Len(slice)
            T == {i \in 1 .. n + 1 : i <= n => Hash[slice[i]] > h}
            Is(i) == /\ \A j \in 1 .. i - 1 : Hash[slice[j]] <= h
                     /\ i <= n => Hash[slice[i]] > h
<1>1. n \in Nat /\ \A i \in 1 .. n : Hash[slice[i]] \in Nat
  <2>1. \A i \in 1 .. n : slice[i] \in Point
    OBVIOUS
  <2>. QED BY <2>1, HashIsNatural
<1>2. n + 1 \in T /\ T \in SUBSET Nat
  BY <1>1
<1>3. PICK i \in T : \A j \in T : i <= j
  BY <1>2, LeastNumber
<1>4. i \in 1 .. n + 1 /\ (i <= n => Hash[slice[i]] > h)
  BY <1>3
<1>5. ASSUME NEW j \in 1 .. i - 1 PROVE Hash[slice[j]] <= h
  <2>1. j \in 1 .. n /\ j < i
    BY <1>1, <1>4
  <2>2. j \notin T
    BY <1>1, <1>3, <1>4, <2>1
  <2>3. ~ Hash[slice[j]] > h
    BY <1>1, <2>1, <2>2
  <2>. QED BY <1>1, <2>1, <2>3
<1>6. \E k \in 1 .. n + 1 : Is(k)
  BY <1>4, <1>5
<1>7. FirstAbove(slice, h) = CHOOSE k \in 1 .. n + 1 : Is(k)
  BY DEF FirstAbove
<1>. HIDE DEF Is, n
<1>8. FirstAbove(slice, h) \in 1 .. n + 1 /\ Is(FirstAbove(slice, h))
  BY <1>6, <1>7
<1>. QED BY <1>8 DEF Is, n

\* The point goes to a place of its own, the others keep their order.
LEMMA sortIntoEffect ==
    ASSUME NEW slice \in Seq(Point), Sorted(slice), Once(slice), NEW point \in Point,
           ~ In(point, slice)
    PROVE  LET after == sortInto(slice, point)
           IN  /\ after \in Seq(Point) /\ Len(after) = Len(slice) + 1
               /\ Sorted(after) /\ Once(after)
               /\ \A p \in Point : In(p, after) <=> In(p, slice) \/ p = point
<1>. DEFINE n == Len(slice)
            at == FirstAbove(slice, Hash[point])
            after == sortInto(slice, point)
<1>1. n \in Nat /\ \A i \in 1 .. n : slice[i] \in Point
  OBVIOUS
<1>2. Hash[point] \in Nat /\ \A i \in 1 .. n : Hash[slice[i]] \in Nat
  BY <1>1, HashIsNatural
<1>3. /\ at \in 1 .. n + 1
      /\ \A j \in 1 .. at - 1 : Hash[slice[j]] <= Hash[point]
      /\ at <= n => Hash[slice[at]] > Hash[point]
  BY <1>2, FirstAboveEffect
<1>4. after = [j \in 1 .. n + 1 |->
                  IF j < at THEN slice[j] ELSE IF j = at THEN point ELSE slice[j - 1]]
  BY DEF sortInto
<1>. HIDE DEF at, after, n
<1>5. after \in [1 .. n + 1 -> Point]
  BY <1>1, <1>3, <1>4
<1>6. after \in Seq(Point) /\ Len(after) = n + 1
  <2>1. n + 1 \in Nat
    BY <1>1
  <2>. QED BY <1>5, <2>1, SeqDef
\* Where the elements of the old slice have gone.
<1>. DEFINE to(i) == IF i < at THEN i ELSE i + 1
<1>7. after[at] = point /\ \A i \in 1 .. n : to(i) \in 1 .. n + 1 /\ after[to(i)] = slice[i]
  BY <1>1, <1>3, <1>4
<1>8. \A j \in 1 .. n + 1 : j = at \/ \E i \in 1 .. n : j = to(i)
  <2>. TAKE j \in 1 .. n + 1
  <2>1. CASE j < at
    BY <1>1, <1>3, <2>1
  <2>2. CASE j > at
    <3>1. j - 1 \in 1 .. n /\ ~ j - 1 < at /\ j = (j - 1) + 1
      BY <1>1, <1>3, <2>2
    <3>. QED BY <3>1
  <2>. QED BY <1>1, <1>3, <2>1, <2>2
<1>9. \A j \in 1 .. n : /\ j < at => Hash[slice[j]] <= Hash[point]
                        /\ ~ j < at => Hash[point] <= Hash[slice[j]]
  <2>. TAKE j \in 1 .. n
  <2>1. CASE j < at
    BY <1>1, <1>3, <2>1
  <2>2. CASE ~ j < at
    <3>1. at \in 1 .. n /\ Hash[slice[at]] > Hash[point]
      BY <1>1, <1>3, <2>2
    <3>2. Hash[slice[at]] <= Hash[slice[j]]
      <4>1. CASE j = at
        BY <1>2, <4>1
      <4>2. CASE at < j
        BY <3>1, <4>2 DEF Sorted, n
      <4>. QED BY <1>1, <1>3, <2>2, <4>1, <4>2
    <3>. QED BY <1>2, <2>2, <3>1, <3>2
  <2>. QED BY <2>1, <2>2
<1>10. Sorted(after)
  <2>1. ASSUME NEW i \in 1 .. n, NEW j \in 1 .. n, to(i) < to(j)
        PROVE  Hash[after[to(i)]] <= Hash[after[to(j)]]
    <3>1. i < j
      BY <1>1, <1>3, <2>1
    <3>. QED BY <1>7, <3>1 DEF Sorted, n
  <2>2. ASSUME NEW i \in 1 .. n, to(i) < at PROVE Hash[after[to(i)]] <= Hash[after[at]]
    <3>1. i < at
      BY <1>1, <1>3, <2>2
    <3>. QED BY <1>7, <1>9, <3>1
  <2>3. ASSUME NEW i \in 1 .. n, at < to(i) PROVE Hash[after[at]] <= Hash[after[to(i)]]
    <3>1. ~ i < at
      BY <1>1, <1>3, <2>3
    <3>. QED BY <1>7, <1>9, <3>1
  <2>. HIDE DEF to
  <2>4. ASSUME NEW i \in 1 .. n + 1, NEW j \in 1 .. n + 1, i < j PROVE Hash[after[i]] <= Hash[after[j]]
    <3>1. ~ (i = at /\ j = at)
      BY <1>3, <2>4
    <3>. QED BY <1>8, <2>1, <2>2, <2>3, <2>4, <3>1
  <2>. QED BY <1>6, <2>4 DEF Sorted
<1>11. Once(after)
  <2>1. \A i, j \in 1 .. n : slice[i] = slice[j] => to(i) = to(j)
    BY DEF Once, n
  <2>2. \A i \in 1 .. n : slice[i] # point
    BY DEF In, n
  <2>. HIDE DEF to
  <2>3. ASSUME NEW i \in 1 .. n + 1, NEW j \in 1 .. n + 1, after[i] = after[j] PROVE i = j
    BY <1>7, <1>8, <2>1, <2>2, <2>3
  <2>. QED BY <1>6, <2>3 DEF Once
<1>12. ASSUME NEW p \in Point PROVE In(p, after) <=> In(p, slice) \/ p = point
  <2>. HIDE DEF to
  <2>1. In(p, after) => In(p, slice) \/ p = point
    BY <1>6, <1>7, <1>8 DEF In, n
  <2>2. In(p, slice) => In(p, after)
    BY <1>6, <1>7 DEF In, n
  <2>3. In(point, after)
    BY <1>3, <1>6, <1>7 DEF In
  <2>. QED BY <2>1, <2>2, <2>3
<1>. QED BY <1>6, <1>10, <1>11, <1>12 DEF after, n

-----------------------------------------------------------------------------
(* What DeleteFunc does to a slice.                                         *)

Rank(stay, i) == Cardinality({j \in stay : j < i})

\* The elements that stay are numbered by how many of them come before.
LEMMA RankEffect ==
    ASSUME NEW n \in Nat, NEW stay \in SUBSET (1 .. n)
    PROVE  /\ IsFiniteSet(stay) /\ Cardinality(stay) \in Nat
           /\ \A i \in stay : Rank(stay, i) \in 0 .. Cardinality(stay) - 1
           /\ \A i, j \in stay : i < j => Rank(stay, i) < Rank(stay, j)
           /\ \A k \in 0 .. Cardinality(stay) - 1 : \E i \in stay : Rank(stay, i) = k
<1>. DEFINE c == Cardinality(stay)
            Below(i) == {j \in stay : j < i}
<1>1. IsFiniteSet(stay) /\ c \in Nat
  <2>1. IsFiniteSet(1 .. n)
    BY FS_Interval
  <2>2. IsFiniteSet(stay)
    BY <2>1, FS_Subset
  <2>. QED BY <2>2, FS_CardinalityType
<1>2. \A i \in stay : i \in Int
  OBVIOUS
<1>3. ASSUME NEW i \in stay
      PROVE  IsFiniteSet(Below(i)) /\ Cardinality(Below(i)) \in Nat /\ i \notin Below(i)
  <2>1. Below(i) \in SUBSET stay
    OBVIOUS
  <2>2. IsFiniteSet(Below(i))
    BY <1>1, <2>1, FS_Subset
  <2>. QED BY <1>2, <2>2, FS_CardinalityType
<1>4. ASSUME NEW i \in stay, NEW T \in SUBSET stay, Below(i) \cup {i} \subseteq T
      PROVE  Cardinality(Below(i)) + 1 <= Cardinality(T)
  <2>1. Cardinality(Below(i) \cup {i}) = Cardinality(Below(i)) + 1
    BY <1>3, FS_AddElement
  <2>2. IsFiniteSet(T)
    BY <1>1, FS_Subset
  <2>3. Cardinality(Below(i) \cup {i}) <= Cardinality(T)
    BY <1>4, <2>2, FS_Subset
  <2>. QED BY <2>1, <2>3
<1>5. ASSUME NEW i \in stay PROVE Rank(stay, i) \in 0 .. c - 1
  <2>1. Below(i) \cup {i} \subseteq stay
    OBVIOUS
  <2>2. Cardinality(Below(i)) + 1 <= c
    BY <1>4, <2>1
  <2>. QED BY <1>1, <1>3, <2>2 DEF Rank
<1>6. ASSUME NEW i \in stay, NEW j \in stay, i < j PROVE Rank(stay, i) < Rank(stay, j)
  <2>1. Below(j) \in SUBSET stay /\ Below(i) \cup {i} \subseteq Below(j)
    <3>1. \A k \in stay : k < i => k < j
      BY <1>2, <1>6
    <3>2. i \in Below(j) /\ Below(j) \in SUBSET stay
      BY <1>6
    <3>. QED BY <3>1, <3>2
  <2>2. Cardinality(Below(i)) + 1 <= Cardinality(Below(j))
    BY <1>4, <2>1
  <2>. QED BY <1>3, <2>2 DEF Rank
<1>7. ASSUME NEW k \in 0 .. c - 1 PROVE \E i \in stay : Rank(stay, i) = k
  <2>. DEFINE f == [i \in stay |-> Rank(stay, i)]
              T == 0 .. c - 1
  <2>1. f \in [stay -> T]
    BY <1>5
  <2>2. \A i, j \in stay : f[i] = f[j] => i = j
    <3>. SUFFICES ASSUME NEW i \in stay, NEW j \in stay, i # j PROVE f[i] # f[j]
      OBVIOUS
    <3>1. i < j \/ j < i
      BY <1>2
    <3>2. f[i] \in Int /\ f[j] \in Int /\ (f[i] < f[j] \/ f[j] < f[i])
      BY <1>1, <1>5, <1>6, <3>1
    <3>. QED BY <3>2
  <2>3. f \in Injection(stay, T)
    BY <2>1, <2>2 DEF Injection, IsInjective
  <2>4. IsFiniteSet(T) /\ Cardinality(T) = c
    BY <1>1, FS_Interval
  <2>5. f \in Surjection(stay, T)
    BY <2>3, <2>4, FS_Injection
  <2>6. \E i \in stay : f[i] = k
    BY <2>5 DEF Surjection
  <2>. QED BY <2>6
<1>. QED BY <1>1, <1>5, <1>6, <1>7

\* The kth slot holds the element from place at[k].
Moved(after, slice, stay, at) ==
    /\ at \in [1 .. Len(after) -> stay]
    /\ \A k \in 1 .. Len(after) : after[k] = slice[at[k]]
    /\ \A k, l \in 1 .. Len(after) : k < l => at[k] < at[l]
    /\ \A i \in stay : \E k \in 1 .. Len(after) : at[k] = i

LEMMA CompactEffect ==
    ASSUME NEW S, NEW slice \in Seq(S), NEW stay \in SUBSET (1 .. Len(slice))
    PROVE  /\ Compact(slice, stay) \in Seq(S)
           /\ \E at : Moved(Compact(slice, stay), slice, stay, at)
<1>. DEFINE n == Len(slice)
            c == Cardinality(stay)
            at == [k \in 1 .. c |-> CHOOSE i \in stay : Rank(stay, i) = k - 1]
            after == Compact(slice, stay)
<1>1. n \in Nat /\ stay \in SUBSET (1 .. n) /\ \A i \in 1 .. n : slice[i] \in S
  OBVIOUS
<1>2. /\ c \in Nat
      /\ \A i \in stay : Rank(stay, i) \in 0 .. c - 1
      /\ \A i, j \in stay : i < j => Rank(stay, i) < Rank(stay, j)
      /\ \A k \in 0 .. c - 1 : \E i \in stay : Rank(stay, i) = k
  BY <1>1, RankEffect
<1>3. after = [k \in 1 .. c |-> slice[at[k]]]
  BY DEF Compact, Rank
<1>. HIDE DEF c, n, after
<1>4. \A k \in 1 .. c : at[k] \in stay /\ Rank(stay, at[k]) = k - 1
  <2>. TAKE k \in 1 .. c
  <2>1. k - 1 \in 0 .. c - 1
    BY <1>2
  <2>2. \E i \in stay : Rank(stay, i) = k - 1
    BY <1>2, <2>1
  <2>. QED BY <2>2
<1>5. at \in [1 .. c -> stay]
  BY <1>4
<1>. HIDE DEF at
<1>6. \A i \in stay : i \in Int /\ slice[i] \in S
  BY <1>1
\* Places are in the order of their ranks.
<1>7. ASSUME NEW i \in stay, NEW j \in stay
       PROVE  /\ i \in Int /\ j \in Int /\ Rank(stay, i) \in Int /\ Rank(stay, j) \in Int
              /\ Rank(stay, i) < Rank(stay, j) => i < j
              /\ Rank(stay, i) = Rank(stay, j) => i = j
  <2>1. i \in Int /\ j \in Int /\ Rank(stay, i) \in Int /\ Rank(stay, j) \in Int
    BY <1>2, <1>6
  <2>2. /\ i < j => Rank(stay, i) < Rank(stay, j)
        /\ j < i => Rank(stay, j) < Rank(stay, i)
    BY <1>2
  <2>3. i < j \/ i = j \/ j < i
    BY <2>1
  <2>. HIDE DEF Rank
  <2>. QED BY <2>1, <2>2, <2>3
<1>8. ASSUME NEW k \in 1 .. c, NEW l \in 1 .. c, k < l PROVE at[k] < at[l]
  <2>1. at[k] \in stay /\ at[l] \in stay /\ Rank(stay, at[k]) < Rank(stay, at[l])
    BY <1>2, <1>4, <1>8
  <2>. QED BY <1>7, <2>1
<1>9. ASSUME NEW i \in stay PROVE \E k \in 1 .. c : at[k] = i
  <2>. DEFINE k == Rank(stay, i) + 1
  <2>1. k \in 1 .. c /\ Rank(stay, i) = k - 1
    BY <1>2
  <2>2. at[k] \in stay /\ Rank(stay, at[k]) = Rank(stay, i)
    BY <1>4, <2>1
  <2>3. at[k] = i
    BY <1>7, <2>2
  <2>. QED BY <2>1, <2>3
<1>10. after \in [1 .. c -> S]
  BY <1>3, <1>4, <1>6
<1>11. after \in Seq(S) /\ Len(after) = c
  BY <1>2, <1>10, SeqDef
<1>12. \A k \in 1 .. c : after[k] = slice[at[k]]
  BY <1>3
<1>13. Moved(after, slice, stay, at)
  BY <1>5, <1>8, <1>9, <1>11, <1>12 DEF Moved
<1>. QED BY <1>11, <1>13 DEF after

\* The virtual nodes of the others keep their order.
LEMMA DeletePointsOfEffect ==
    ASSUME NEW slice \in Seq(Point), Sorted(slice), Once(slice), NEW n
    PROVE  LET after == DeletePointsOf(slice, n)
           IN  /\ after \in Seq(Point) /\ Sorted(after) /\ Once(after)
               /\ \A p \in Point : In(p, after) <=> In(p, slice) /\ p[1] # n
<1>. DEFINE stay == {i \in 1 .. Len(slice) : slice[i][1] # n}
            after == DeletePointsOf(slice, n)
<1>1. Len(slice) \in Nat /\ stay \in SUBSET (1 .. Len(slice)) /\ after = Compact(slice, stay)
  BY DEF DeletePointsOf
<1>2. after \in Seq(Point)
  BY <1>1, CompactEffect
<1>3. PICK at : Moved(after, slice, stay, at)
  BY <1>1, CompactEffect
<1>. HIDE DEF after
<1>4. /\ \A k \in 1 .. Len(after) : /\ at[k] \in 1 .. Len(slice) /\ slice[at[k]][1] # n
                                   /\ after[k] = slice[at[k]]
      /\ \A k, l \in 1 .. Len(after) : k < l => at[k] < at[l]
      /\ \A i \in 1 .. Len(slice) : slice[i][1] # n => \E k \in 1 .. Len(after) : at[k] = i
  BY <1>3 DEF Moved
<1>5. Sorted(after)
  BY <1>4 DEF Sorted
<1>6. Once(after)
  <2>. SUFFICES ASSUME NEW k \in 1 .. Len(after), NEW l \in 1 .. Len(after), after[k] = after[l]
                PROVE  k = l
    BY DEF Once
  <2>1. at[k] = at[l]
    BY <1>4 DEF Once
  <2>2. ~ k < l /\ ~ l < k
    <3>1. at[k] \in Int /\ ~ at[k] < at[l] /\ ~ at[l] < at[k]
      BY <1>1, <1>4, <2>1
    <3>. QED BY <1>4, <3>1
  <2>3. Len(after) \in Nat
    BY <1>2
  <2>. QED BY <2>2, <2>3
<1>7. ASSUME NEW p \in Point PROVE In(p, after) <=> In(p, slice) /\ p[1] # n
  BY <1>4 DEF In
<1>. QED BY <1>2, <1>5, <1>6, <1>7 DEF after

LEMMA DeleteNameEffect ==
    ASSUME NEW slice \in Seq(Node), NEW n
    PROVE  /\ DeleteName(slice, n) \in Seq(Node)
           /\ \A m \in Node : In(m, DeleteName(slice, n)) <=> In(m, slice) /\ m # n
<1>. DEFINE stay == {i \in 1 .. Len(slice) : slice[i] # n}
            after == DeleteName(slice, n)
<1>1. stay \in SUBSET (1 .. Len(slice)) /\ after = Compact(slice, stay)
  BY DEF DeleteName
<1>2. after \in Seq(Node)
  BY <1>1, CompactEffect
<1>3. PICK at : Moved(after, slice, stay, at)
  BY <1>1, CompactEffect
<1>. HIDE DEF after
<1>4. /\ \A k \in 1 .. Len(after) : /\ at[k] \in 1 .. Len(slice) /\ slice[at[k]] # n
                                   /\ after[k] = slice[at[k]]
      /\ \A i \in 1 .. Len(slice) : slice[i] # n => \E k \in 1 .. Len(after) : at[k] = i
  BY <1>3 DEF Moved
<1>5. \A m \in Node : In(m, after) <=> In(m, slice) /\ m # n
  BY <1>4 DEF In
<1>. QED BY <1>2, <1>5 DEF after

-----------------------------------------------------------------------------
(* What a lookup finds in a slice.                                          *)

Slots(slice) == {slice[i] : i \in 1 .. Len(slice)}

\* The place of the last point that is not above h, or else the last place.
Answers(slice, h, i) ==
    /\ i \in 1 .. Len(slice)
    /\ \/ /\ \A j \in 1 .. i : Hash[slice[j]] <= h
          /\ \A j \in i + 1 .. Len(slice) : Hash[slice[j]] > h
       \/ /\ i = Len(slice)
          /\ \A j \in 1 .. Len(slice) : Hash[slice[j]] > h

\* Binary search and wrap-around arrive at the placement rule.
LEMMA AnswersEffect ==
    ASSUME NEW slice \in Seq(Point), Sorted(slice), NEW h \in HashValue, NEW i, Answers(slice, h, i)
    PROVE  slice[i][1] \in Owners(Slots(slice), h)
<1>. DEFINE n == Len(slice)
<1>1. n \in Nat /\ i \in 1 .. n /\ h \in Nat /\ h < HashSpace /\ HashSpace \in Nat
  BY PlacementAssumption DEF Answers, HashValue
<1>2. \A j \in 1 .. n : Hash[slice[j]] \in Nat /\ Hash[slice[j]] < HashSpace
  <2>1. \A j \in 1 .. n : slice[j] \in Point
    OBVIOUS
  <2>. QED BY <2>1, HashIsNatural
<1>3. \A j, k \in 1 .. n : j <= k => Hash[slice[j]] <= Hash[slice[k]]
  <2>. TAKE j, k \in 1 .. n
  <2>1. CASE j = k
    BY <1>2, <2>1
  <2>2. CASE j < k
    BY <2>2 DEF Sorted
  <2>. QED BY <1>1, <2>1, <2>2
<1>4. ASSUME NEW j \in 1 .. n PROVE Distance(slice[i], h) <= Distance(slice[j], h)
  <2>. DEFINE a == Hash[slice[i]]
              b == Hash[slice[j]]
  <2>1. a \in Nat /\ b \in Nat /\ a < HashSpace /\ b < HashSpace
    BY <1>1, <1>2
  <2>2. /\ Distance(slice[i], h) = IF a <= h THEN h - a ELSE h - a + HashSpace
        /\ Distance(slice[j], h) = IF b <= h THEN h - b ELSE h - b + HashSpace
    BY DEF Distance
  <2>3. \/ a <= h /\ b <= h /\ b <= a
        \/ a <= h /\ b > h
        \/ a > h /\ b > h /\ b <= a
    <3>1. CASE /\ \A k \in 1 .. i : Hash[slice[k]] <= h
               /\ \A k \in i + 1 .. n : Hash[slice[k]] > h
      <4>1. a <= h
        BY <1>1, <3>1
      <4>2. CASE j <= i
        BY <1>1, <1>3, <3>1, <4>1, <4>2
      <4>3. CASE i < j
        BY <1>1, <3>1, <4>1, <4>3
      <4>. QED BY <1>1, <4>2, <4>3
    <3>2. CASE i = n /\ \A k \in 1 .. n : Hash[slice[k]] > h
      BY <1>1, <1>3, <3>2
    <3>. QED BY <3>1, <3>2 DEF Answers
  <2>. HIDE DEF a, b
  <2>. QED BY <1>1, <2>1, <2>2, <2>3
<1>5. slice[i] \in Nearest(Slots(slice), h)
  BY <1>1, <1>4 DEF Nearest, Slots
<1>. QED BY <1>5 DEF Owners

\* The answer of a lookup that nothing interrupts, of any slice.
Answer(slice, h) ==
    IF slice = <<>> THEN NoNode
    ELSE LET i == FirstAbove(slice, h) - 1
         IN  slice[IF i < 1 THEN Len(slice) ELSE i][1]

LEMMA AnswerEffect ==
    ASSUME NEW slice \in Seq(Point), Sorted(slice), slice # <<>>, NEW h \in HashValue
    PROVE  \E k : Answers(slice, h, k) /\ Answer(slice, h) = slice[k][1]
<1>. DEFINE n == Len(slice)
            i == FirstAbove(slice, h)
            k == IF i - 1 < 1 THEN n ELSE i - 1
<1>1. n \in Nat /\ h \in Nat /\ n # 0
  BY DEF HashValue
<1>2. /\ i \in 1 .. n + 1
      /\ \A j \in 1 .. i - 1 : Hash[slice[j]] <= h
      /\ i <= n => Hash[slice[i]] > h
  BY <1>1, FirstAboveEffect
<1>3. Answer(slice, h) = slice[k][1]
  BY DEF Answer
<1>. HIDE DEF i
<1>4. \A j \in 1 .. n : Hash[slice[j]] \in Nat
  <2>1. \A j \in 1 .. n : slice[j] \in Point
    OBVIOUS
  <2>. QED BY <2>1, HashIsNatural
<1>5. ASSUME NEW j \in i .. n PROVE Hash[slice[j]] > h
  <2>1. i \in 1 .. n /\ j \in 1 .. n /\ Hash[slice[i]] > h
    BY <1>1, <1>2
  <2>2. Hash[slice[i]] <= Hash[slice[j]]
    <3>1. CASE i = j
      BY <1>4, <2>1, <3>1
    <3>2. CASE i < j
      BY <2>1, <3>2 DEF Sorted
    <3>. QED BY <2>1, <3>1, <3>2
  <2>. QED BY <1>1, <1>4, <2>1, <2>2
<1>6. Answers(slice, h, k)
  <2>1. CASE i = 1
    <3>1. k = n /\ n \in 1 .. n
      BY <1>1, <2>1
    <3>. QED BY <1>5, <2>1, <3>1 DEF Answers
  <2>2. CASE i > 1
    <3>1. k = i - 1 /\ k \in 1 .. n /\ k + 1 = i
      BY <1>1, <1>2, <2>2
    <3>. QED BY <1>2, <1>5, <3>1 DEF Answers
  <2>. QED BY <1>2, <2>1, <2>2
<1>. QED BY <1>3, <1>6

\* There is one place to answer from.
LEMMA OneAnswer ==
    ASSUME NEW slice \in Seq(Point), Sorted(slice), NEW h \in HashValue, NEW k, Answers(slice, h, k)
    PROVE  Answer(slice, h) = slice[k][1]
<1>. DEFINE n == Len(slice)
<1>1. n \in Nat /\ h \in Nat /\ k \in 1 .. n /\ slice # <<>>
  BY DEF Answers, HashValue
<1>2. \A j \in 1 .. n : Hash[slice[j]] \in Nat
  <2>1. \A j \in 1 .. n : slice[j] \in Point
    OBVIOUS
  <2>. QED BY <2>1, HashIsNatural
<1>3. PICK i : Answers(slice, h, i) /\ Answer(slice, h) = slice[i][1]
  BY <1>1, AnswerEffect
<1>4. i \in 1 .. n
  BY <1>3 DEF Answers
<1>. HIDE DEF n
\* Were one of two places before the other, the slot of the latter would lie on
\* both sides of h.
<1>5. ASSUME NEW a \in 1 .. n, NEW b \in 1 .. n, Answers(slice, h, a), Answers(slice, h, b), a < b
      PROVE  FALSE
  <2>1. /\ b \in a + 1 .. n /\ b \in 1 .. b /\ a # n /\ a \in 1 .. n
        /\ Hash[slice[b]] \in Nat /\ a \in 1 .. b /\ a \in 1 .. a /\ Hash[slice[a]] \in Nat
    BY <1>1, <1>2, <1>5
  <2>2. Hash[slice[a]] <= h /\ Hash[slice[b]] > h
    BY <1>5, <2>1 DEF Answers, n
  <2>3. Hash[slice[b]] <= h \/ Hash[slice[a]] > h
    BY <1>5, <2>1 DEF Answers, n
  <2>. QED BY <1>1, <2>1, <2>2, <2>3
<1>6. i = k
  <2>1. ~ i < k
    BY <1>1, <1>3, <1>4, <1>5
  <2>2. ~ k < i
    BY <1>1, <1>3, <1>4, <1>5
  <2>. QED BY <1>1, <1>4, <2>1, <2>2
<1>. QED BY <1>3, <1>6

\* A lookup that nothing interrupts follows the placement rule.
LEMMA NodeOfDirectEffect ==
    ASSUME ring \in Seq(Point), Sorted(ring), NEW h \in HashValue
    PROVE  IF Slots(ring) = {} THEN NodeOfDirect(h) = NoNode
           ELSE NodeOfDirect(h) \in Owners(Slots(ring), h)
<1>1. NodeOfDirect(h) = Answer(ring, h)
  BY DEF NodeOfDirect, Answer
<1>2. Len(ring) \in Nat /\ (ring = <<>> <=> Len(ring) = 0)
  OBVIOUS
<1>3. CASE ring = <<>>
  <2>1. Slots(ring) = {}
    BY <1>2, <1>3 DEF Slots
  <2>. QED BY <1>1, <1>3, <2>1 DEF Answer
<1>4. CASE ring # <<>>
  <2>1. PICK k : Answers(ring, h, k) /\ Answer(ring, h) = ring[k][1]
    BY <1>4, AnswerEffect
  <2>2. ring[k] \in Slots(ring)
    BY <2>1 DEF Answers, Slots
  <2>. QED BY <1>1, <2>1, <2>2, AnswersEffect
<1>. QED BY <1>3, <1>4

\* An insertion changes answers to the name that it inserts.
LEMMA InsertedAnswer ==
    ASSUME NEW slice \in Seq(Point), Sorted(slice), Once(slice), NEW point \in Point,
           ~ In(point, slice), NEW h \in HashValue
    PROVE  \/ Answer(sortInto(slice, point), h) = point[1]
           \/ Answer(sortInto(slice, point), h) = Answer(slice, h)
<1>. DEFINE n == Len(slice)
            at == FirstAbove(slice, Hash[point])
            after == sortInto(slice, point)
<1>1. n \in Nat /\ h \in Nat /\ Hash[point] \in Nat
  BY HashIsNatural DEF HashValue
<1>2. at \in 1 .. n + 1
  BY <1>1, FirstAboveEffect
<1>3. after \in Seq(Point) /\ Len(after) = n + 1 /\ Sorted(after)
  BY sortIntoEffect
<1>4. after = [j \in 1 .. n + 1 |->
                  IF j < at THEN slice[j] ELSE IF j = at THEN point ELSE slice[j - 1]]
  BY DEF sortInto
<1>. HIDE DEF at, after, n
<1>5. after # <<>>
  BY <1>1, <1>3
<1>6. PICK k : Answers(after, h, k) /\ Answer(after, h) = after[k][1]
  BY <1>3, <1>5, AnswerEffect
<1>7. k \in 1 .. n + 1
  BY <1>3, <1>6 DEF Answers
<1>8. \A j \in 1 .. n : /\ j < at => j \in 1 .. n + 1 /\ after[j] = slice[j]
                        /\ ~ j < at => j + 1 \in 1 .. n + 1 /\ after[j + 1] = slice[j]
  BY <1>1, <1>2, <1>4
<1>9. CASE k = at
  <2>1. after[k] = point
    BY <1>1, <1>2, <1>4, <1>9
  <2>. QED BY <1>6, <2>1 DEF after
<1>10. CASE k < at
  <2>1. k \in 1 .. n /\ after[k] = slice[k] /\ k # n + 1
    BY <1>1, <1>2, <1>7, <1>8, <1>10
  <2>2. /\ \A j \in 1 .. k : Hash[after[j]] <= h
        /\ \A j \in k + 1 .. n + 1 : Hash[after[j]] > h
    BY <1>3, <1>6, <2>1 DEF Answers
  <2>3. \A j \in 1 .. k : Hash[slice[j]] <= h
    BY <1>1, <1>2, <1>8, <1>10, <2>1, <2>2
  <2>4. ASSUME NEW j \in k + 1 .. n PROVE Hash[slice[j]] > h
    <3>1. j \in 1 .. n /\ j \in k + 1 .. n + 1 /\ j + 1 \in k + 1 .. n + 1
      BY <1>1, <1>7
    <3>. QED BY <1>8, <2>2, <3>1
  <2>5. Answers(slice, h, k)
    BY <2>1, <2>3, <2>4 DEF Answers, n
  <2>. QED BY <1>6, <2>1, <2>5, OneAnswer DEF after
<1>11. CASE k > at
  <2>. DEFINE l == k - 1
  <2>1. l \in 1 .. n /\ ~ l < at /\ l + 1 = k
    BY <1>1, <1>2, <1>7, <1>11
  <2>. HIDE DEF l
  <2>2. after[k] = slice[l]
    BY <1>8, <2>1
  <2>3. CASE /\ \A j \in 1 .. k : Hash[after[j]] <= h
             /\ \A j \in k + 1 .. n + 1 : Hash[after[j]] > h
    <3>1. ASSUME NEW j \in 1 .. l PROVE Hash[slice[j]] <= h
      <4>1. j \in 1 .. n /\ j \in 1 .. k /\ j + 1 \in 1 .. k
        BY <1>1, <2>1
      <4>. QED BY <1>8, <2>3, <4>1
    <3>2. ASSUME NEW j \in l + 1 .. n PROVE Hash[slice[j]] > h
      <4>1. j \in 1 .. n /\ ~ j < at /\ j + 1 \in k + 1 .. n + 1
        BY <1>1, <1>2, <2>1
      <4>. QED BY <1>8, <2>3, <4>1
    <3>3. Answers(slice, h, l)
      BY <2>1, <3>1, <3>2 DEF Answers, n
    <3>. QED BY <1>6, <2>2, <3>3, OneAnswer DEF after
  <2>4. CASE k = n + 1 /\ \A j \in 1 .. n + 1 : Hash[after[j]] > h
    <3>1. l = n
      BY <1>1, <2>1, <2>4
    <3>2. \A j \in 1 .. n : Hash[slice[j]] > h
      BY <1>8, <2>4
    <3>3. Answers(slice, h, l)
      BY <2>1, <3>1, <3>2 DEF Answers, n
    <3>. QED BY <1>6, <2>2, <3>3, OneAnswer DEF after
  <2>. QED BY <1>3, <1>6, <2>3, <2>4 DEF Answers
<1>. QED BY <1>1, <1>2, <1>7, <1>9, <1>10, <1>11

\* A deletion changes the answers that were the deleted name.
LEMMA DeletedAnswer ==
    ASSUME NEW slice \in Seq(Point), Sorted(slice), Once(slice), slice # <<>>,
           NEW n, NEW h \in HashValue
    PROVE  \/ Answer(slice, h) = n
           \/ Answer(DeletePointsOf(slice, n), h) = Answer(slice, h)
<1>. DEFINE stay == {i \in 1 .. Len(slice) : slice[i][1] # n}
            after == DeletePointsOf(slice, n)
<1>1. Len(slice) \in Nat /\ stay \in SUBSET (1 .. Len(slice)) /\ after = Compact(slice, stay)
  BY DEF DeletePointsOf
<1>2. after \in Seq(Point) /\ Sorted(after)
  BY DeletePointsOfEffect
<1>3. PICK at : Moved(after, slice, stay, at)
  BY <1>1, CompactEffect
<1>. HIDE DEF after
<1>4. PICK k : Answers(slice, h, k) /\ Answer(slice, h) = slice[k][1]
  BY AnswerEffect
<1>5. k \in 1 .. Len(slice)
  BY <1>4 DEF Answers
<1>. SUFFICES ASSUME slice[k][1] # n PROVE Answer(after, h) = Answer(slice, h)
  BY <1>4 DEF after
<1>6. Len(after) \in Nat
  BY <1>2
<1>7. /\ \A i \in 1 .. Len(after) : at[i] \in 1 .. Len(slice) /\ after[i] = slice[at[i]]
      /\ \A i, j \in 1 .. Len(after) : i < j => at[i] < at[j]
      /\ \E l \in 1 .. Len(after) : at[l] = k
  BY <1>3, <1>5 DEF Moved
<1>8. PICK l \in 1 .. Len(after) : at[l] = k
  BY <1>7
<1>9. CASE /\ \A j \in 1 .. k : Hash[slice[j]] <= h
           /\ \A j \in k + 1 .. Len(slice) : Hash[slice[j]] > h
  <2>1. ASSUME NEW j \in 1 .. l PROVE Hash[after[j]] <= h
    <3>1. j \in 1 .. Len(after) /\ (j = l \/ j < l)
      BY <1>6
    <3>2. at[j] \in 1 .. Len(slice) /\ (at[j] = k \/ at[j] < k) /\ after[j] = slice[at[j]]
      BY <1>7, <1>8, <3>1
    <3>3. at[j] \in 1 .. k
      BY <1>5, <3>2
    <3>. QED BY <1>9, <3>2, <3>3
  <2>2. ASSUME NEW j \in l + 1 .. Len(after) PROVE Hash[after[j]] > h
    <3>1. j \in 1 .. Len(after) /\ l < j
      BY <1>6
    <3>2. at[j] \in 1 .. Len(slice) /\ k < at[j] /\ after[j] = slice[at[j]]
      BY <1>7, <1>8, <3>1
    <3>3. at[j] \in k + 1 .. Len(slice)
      BY <1>1, <1>5, <3>2
    <3>. QED BY <1>9, <3>2, <3>3
  <2>3. Answers(after, h, l)
    BY <2>1, <2>2 DEF Answers
  <2>4. Answer(after, h) = after[l][1] /\ after[l] = slice[k]
    BY <1>2, <1>7, <1>8, <2>3, OneAnswer
  <2>. QED BY <1>4, <2>4
<1>10. CASE k = Len(slice) /\ \A j \in 1 .. Len(slice) : Hash[slice[j]] > h
  <2>1. \A j \in 1 .. Len(after) : Hash[after[j]] > h
    BY <1>7, <1>10
  <2>2. l = Len(after)
    <3>1. ~ l < Len(after)
      <4>. SUFFICES ASSUME l < Len(after) PROVE FALSE
        OBVIOUS
      <4>1. Len(after) \in 1 .. Len(after)
        BY <1>6
      <4>2. k < at[Len(after)] /\ at[Len(after)] \in 1 .. Len(slice)
        BY <1>7, <1>8, <4>1
      <4>. QED BY <1>1, <1>10, <4>2
    <3>. QED BY <1>6, <3>1
  <2>3. Answers(after, h, l)
    BY <2>1, <2>2 DEF Answers
  <2>4. Answer(after, h) = after[l][1] /\ after[l] = slice[k]
    BY <1>2, <1>7, <1>8, <2>3, OneAnswer
  <2>. QED BY <1>4, <2>4
<1>. QED BY <1>4, <1>9, <1>10 DEF Answers

-----------------------------------------------------------------------------
(* The invariant, when the events of memberlist are the only calls.         *)

caller == CHOOSE c \in Caller : TRUE
OneCaller == Caller = {caller}

CallState ==
    [op : {"idle", "add", "remove"}, name : Node \cup {NoNode},
     next : 0 .. VirtualNodes - 1, stage : {"none", "shift", "grown", "delete"},
     coming : Seq(Point)]

LookState ==
    [pc : {"idle", "measure", "probe", "wrap", "name", "empty", "done", "panic", "ended"},
     hash : HashValue, lo : Nat, hi : Nat, answer : Node \cup {NoNode, TornName},
     during : SUBSET {"shift", "grown", "delete"}, seen : SUBSET Node]

\* The point p belongs on the ring when M are the members and x is under way.
Belongs(p, M, x) ==
    \/ p[1] \in M /\ (x.op = "add" /\ x.name = p[1] => p[2] < x.next)
    \/ x.op = "remove" /\ x.name = p[1]

\* How far the operation x has come that writes to the slice.
Under(x, M, slice) ==
    /\ x \in CallState
    /\ x.op = "idle" => x.stage = "none"
    /\ x.op = "add" =>
            /\ x.name \in M /\ x.stage \in {"none", "shift", "grown"}
            /\ x.stage # "none" => x.coming = sortInto(slice, <<x.name, x.next>>)
    /\ x.op = "remove" =>
            /\ x.name \in Node \ M /\ x.stage \in {"none", "delete"}
            /\ x.stage # "none" => x.coming = DeletePointsOf(slice, x.name)

Slices ==
    /\ nodes \in Seq(Node)
    /\ ring \in Seq(Point) /\ Sorted(ring) /\ Once(ring)
    /\ \A p \in Point : In(p, ring) <=> Belongs(p, Members, call[caller])

Calls == call \in [Caller -> CallState] /\ Under(call[caller], Members, ring)

Looking(l) == l.pc \notin {"idle", "ended"}

\* How far a search has come in a slice that nobody writes to.
Search(l) ==
    /\ l.pc = "empty" => ring = <<>>
    /\ l.pc = "measure" => ring # <<>> /\ l.lo = 0
    /\ l.pc = "probe" =>
            /\ l.lo < l.hi /\ l.hi <= Len(ring)
            /\ \A j \in 1 .. l.lo : Hash[ring[j]] <= l.hash
            /\ \A j \in l.hi + 1 .. Len(ring) : Hash[ring[j]] > l.hash
    /\ l.pc = "wrap" => ring # <<>> /\ \A j \in 1 .. Len(ring) : Hash[ring[j]] > l.hash
    /\ l.pc = "name" => Answers(ring, l.hash, l.lo)
    /\ l.pc = "done" => ring # <<>> /\ l.answer \in Owners(Slots(ring), l.hash)
    /\ l.pc # "panic"

Quiet(l) == Looking(l) /\ l.during = {} => Writers = {} /\ Search(l)

\* Bounds and index of a search are in range while no slot has been cleared.
InRange(l) ==
    /\ LenSeen >= 1
    /\ l.pc = "measure" => l.lo = 0
    /\ l.pc = "probe" => l.lo < l.hi /\ l.hi <= LenSeen
    /\ l.pc = "name" => l.lo \in 1 .. LenSeen
    /\ l.pc # "panic"

\* The name was read in a slot of the ring, or a write explains it.
Told(name, during, seen) ==
    name \notin seen =>
        \/ "grown" \in during
        \/ "delete" \in during /\ name = NoNode
        \/ during # {} /\ name = TornName

\* The search knows of every slot there is, and of every write to them.
Aware(l) ==
    /\ Names(ring) \subseteq l.seen
    /\ \A c \in Writers : call[c].stage \in l.during /\ Names(call[c].coming) \subseteq l.seen

\* How far a search has come, whatever is written to the slice.
Safe(l) ==
    Looking(l) /\ l.pc # "empty" =>
        /\ Aware(l)
        /\ l.pc = "done" => Told(l.answer, l.during, l.seen)
        /\ "delete" \notin l.during => InRange(l)

Lookups ==
    /\ lookup \in [Reader -> LookState]
    /\ \A r \in Reader : Quiet(lookup[r]) /\ Safe(lookup[r])

RingInv == Slices /\ Calls /\ Lookups

-----------------------------------------------------------------------------
(* The steps of the caller.                                                 *)

LEMMA WritersIs ==
    ASSUME OneCaller
    PROVE  Writers = IF call[caller].stage = "none" THEN {} ELSE {caller}
  BY DEF OneCaller, Writers

\* The operation that caller has under way, as Expected sees it.
LEMMA ExpectedIs ==
    ASSUME OneCaller
    PROVE  Expected = {p \in Point : Belongs(p, Members, call[caller])}
  BY DEF OneCaller, Expected, Belongs

LEMMA WaitingEffect ==
    ASSUME NEW op \in {"idle", "add", "remove"}, NEW n \in Node \cup {NoNode},
           NEW next \in 0 .. VirtualNodes - 1
    PROVE  LET x == Waiting(op, n, next)
           IN  /\ x \in CallState
               /\ x.op = op /\ x.name = n /\ x.next = next /\ x.stage = "none"
<1>1. <<>> \in Seq(Point)
  OBVIOUS
<1>. QED BY <1>1 DEF Waiting, CallState

LEMMA IdleIs ==
    /\ Idle.op = "idle" /\ Idle.stage = "none" /\ Idle \in CallState
    /\ 0 \in 0 .. VirtualNodes - 1
<1>1. 0 \in 0 .. VirtualNodes - 1
  BY PlacementAssumption
<1>. QED BY <1>1, WaitingEffect DEF Idle

LEMMA AddNodeStep ==
    ASSUME OneCaller, RingInv, NEW n \in Node, AddNode(caller, n)
    PROVE  RingInv'
<1>. DEFINE x == Waiting("add", n, 0)
<1>1. call[caller] = Idle /\ n \notin Members /\ nodes' = Append(nodes, n)
      /\ ring' = ring /\ lookup' = lookup /\ call' = [call EXCEPT ![caller] = x]
  BY DEF AddNode
<1>2. x.op = "add" /\ x.name = n /\ x.next = 0 /\ x.stage = "none" /\ x \in CallState
  BY IdleIs, WaitingEffect
<1>3. call \in [Caller -> CallState] /\ nodes \in Seq(Node)
  BY DEF RingInv, Calls, Slices
<1>4. call'[caller] = x /\ call' \in [Caller -> CallState]
  BY <1>1, <1>2, <1>3 DEF OneCaller
<1>. HIDE DEF x
<1>5. Members' = Members \cup {n} /\ nodes' \in Seq(Node)
  <2>1. nodes' \in Seq(Node) /\ Len(nodes') = Len(nodes) + 1 /\ Len(nodes) \in Nat
        /\ nodes'[Len(nodes) + 1] = n /\ \A i \in 1 .. Len(nodes) : nodes'[i] = nodes[i]
    BY <1>1, <1>3
  <2>. QED BY <2>1 DEF Members
<1>6. \A p \in Point : Belongs(p, Members', x) <=> Belongs(p, Members, call[caller])
  <2>1. \A p \in Point : p[2] \in Nat
    BY DEF Point
  <2>2. call[caller].op = "idle"
    BY <1>1, IdleIs
  <2>. QED BY <1>1, <1>2, <1>5, <2>1, <2>2 DEF Belongs
<1>7. Slices'
  BY <1>1, <1>4, <1>5, <1>6 DEF RingInv, Slices
<1>8. Calls'
  BY <1>2, <1>4, <1>5 DEF Calls, Under
<1>9. Writers = {} /\ Writers' = {}
  BY <1>1, <1>2, <1>4, IdleIs DEF OneCaller, Writers
<1>10. Lookups'
  BY <1>1, <1>9 DEF RingInv, Lookups, Quiet, Safe, Aware, InRange, Search, LenSeen
<1>. QED BY <1>7, <1>8, <1>10 DEF RingInv

LEMMA RemoveNodeStep ==
    ASSUME OneCaller, RingInv, NEW n \in Node, RemoveNode(caller, n)
    PROVE  RingInv'
<1>. DEFINE x == Waiting("remove", n, 0)
<1>1. call[caller] = Idle /\ n \in Members /\ nodes' = DeleteName(nodes, n)
      /\ ring' = ring /\ lookup' = lookup /\ call' = [call EXCEPT ![caller] = x]
  BY DEF RemoveNode
<1>2. x.op = "remove" /\ x.name = n /\ x.stage = "none" /\ x \in CallState
  BY IdleIs, WaitingEffect
<1>3. call \in [Caller -> CallState] /\ nodes \in Seq(Node)
  BY DEF RingInv, Calls, Slices
<1>4. call'[caller] = x /\ call' \in [Caller -> CallState]
  BY <1>1, <1>2, <1>3 DEF OneCaller
<1>. HIDE DEF x
<1>5. nodes' \in Seq(Node) /\ \A m \in Node : m \in Members' <=> m \in Members /\ m # n
  <2>1. nodes' \in Seq(Node) /\ \A m \in Node : In(m, nodes') <=> In(m, nodes) /\ m # n
    BY <1>1, <1>3, DeleteNameEffect
  <2>. QED BY <2>1 DEF Members, In
<1>6. \A p \in Point : Belongs(p, Members', x) <=> Belongs(p, Members, call[caller])
  <2>1. \A p \in Point : p[1] \in Node
    BY DEF Point
  <2>2. call[caller].op = "idle"
    BY <1>1, IdleIs
  <2>. QED BY <1>1, <1>2, <1>5, <2>1, <2>2 DEF Belongs
<1>7. Slices'
  BY <1>1, <1>4, <1>5, <1>6 DEF RingInv, Slices
<1>8. Calls'
  BY <1>2, <1>4, <1>5 DEF Calls, Under
<1>9. Writers = {} /\ Writers' = {}
  BY <1>1, <1>2, <1>4, IdleIs DEF OneCaller, Writers
<1>10. Lookups'
  BY <1>1, <1>9 DEF RingInv, Lookups, Quiet, Safe, Aware, InRange, Search, LenSeen
<1>. QED BY <1>7, <1>8, <1>10 DEF RingInv

\* Lookups learn of a write, and have not been quiet since.
LEMMA WitnessedEffect ==
    ASSUME lookup \in [Reader -> LookState], NEW stage \in {"shift", "grown", "delete"},
           NEW slice \in Seq(Point), Witnessed(stage, slice)
    PROVE  /\ lookup' \in [Reader -> LookState]
           /\ \A r \in Reader :
                \/ ~ Looking(lookup'[r])
                \/ /\ Looking(lookup[r])
                   /\ lookup'[r].during = lookup[r].during \cup {stage}
                   /\ lookup'[r].seen = lookup[r].seen \cup Names(slice)
                   /\ lookup'[r].pc = lookup[r].pc /\ lookup'[r].lo = lookup[r].lo
                   /\ lookup'[r].hi = lookup[r].hi /\ lookup'[r].answer = lookup[r].answer
<1>. DEFINE L(r) == [lookup[r] EXCEPT !.during = @ \cup {stage}, !.seen = @ \cup Names(slice)]
<1>1. Names(slice) \subseteq Node
  <2>1. \A i \in 1 .. Len(slice) : slice[i] \in Point
    OBVIOUS
  <2>2. \A p \in Point : p[1] \in Node
    BY DEF Point
  <2>. QED BY <2>1, <2>2 DEF Names
<1>2. ASSUME NEW r \in Reader
      PROVE  /\ lookup'[r] = IF lookup[r] = Away THEN Away ELSE L(r)
             /\ lookup[r] \in LookState
             /\ L(r) \in LookState
             /\ L(r).during = lookup[r].during \cup {stage}
             /\ L(r).seen = lookup[r].seen \cup Names(slice)
             /\ L(r).pc = lookup[r].pc /\ L(r).lo = lookup[r].lo
             /\ L(r).hi = lookup[r].hi /\ L(r).answer = lookup[r].answer
  <2>1. lookup[r] \in LookState
    OBVIOUS
  <2>2. lookup'[r] = IF lookup[r] = Away THEN Away ELSE L(r)
    BY DEF Witnessed
  <2>3. L(r) \in LookState
    BY <1>1, <2>1 DEF LookState
  <2>. QED BY <2>1, <2>2, <2>3 DEF LookState
<1>3. lookup' = [r \in Reader |-> IF lookup[r] = Away THEN Away ELSE L(r)]
  BY DEF Witnessed
<1>. HIDE DEF L
<1>4. lookup' \in [Reader -> LookState]
  BY <1>2, <1>3
<1>5. Away.pc = "idle"
  BY DEF Away, Begun
<1>. QED BY <1>2, <1>4, <1>5 DEF Looking

\* The virtual node that is being added.
LEMMA CallingPoint ==
    ASSUME OneCaller, RingInv, call[caller].op = "add"
    PROVE  LET x == call[caller]
               point == <<x.name, x.next>>
           IN  /\ point \in Point /\ ~ In(point, ring)
               /\ x.name \in Node /\ x.next \in 0 .. VirtualNodes - 1
<1>. DEFINE x == call[caller]
            point == <<x.name, x.next>>
<1>1. x \in CallState /\ x.name \in Members
  BY DEF RingInv, Calls, Under, OneCaller
<1>2. x.name \in Node
  <2>1. nodes \in Seq(Node)
    BY DEF RingInv, Slices
  <2>. QED BY <1>1, <2>1 DEF Members
<1>3. x.next \in 0 .. VirtualNodes - 1
  BY <1>1 DEF CallState
<1>4. point \in Point /\ point[1] = x.name /\ point[2] = x.next
  BY <1>2, <1>3 DEF Point
<1>. HIDE DEF point
<1>5. ~ Belongs(point, Members, x)
  BY <1>3, <1>4, PlacementAssumption DEF Belongs
<1>. QED BY <1>2, <1>3, <1>4, <1>5 DEF RingInv, Slices, point

\* The write to the slice begins.
LEMMA BeginStep ==
    ASSUME OneCaller, RingInv, NEW stage \in {"shift", "grown", "delete"}, NEW slice \in Seq(Point),
           call[caller].op \in {"add", "remove"}, call[caller].stage = "none",
           Begin(caller, stage, slice),
           call[caller].op = "add" =>
               /\ stage # "delete" /\ slice = sortInto(ring, <<call[caller].name, call[caller].next>>),
           call[caller].op = "remove" =>
               stage = "delete" /\ slice = DeletePointsOf(ring, call[caller].name)
    PROVE  RingInv'
<1>. DEFINE x == [call[caller] EXCEPT !.stage = stage, !.coming = slice]
<1>1. call \in [Caller -> CallState] /\ lookup \in [Reader -> LookState] /\ caller \in Caller
      /\ ring \in Seq(Point)
  BY DEF RingInv, Calls, Lookups, Slices, OneCaller
<1>2. call' = [call EXCEPT ![caller] = x] /\ nodes' = nodes /\ ring' = ring /\ Members' = Members
  BY <1>1 DEF Begin, Members
<1>3. x \in CallState /\ x.op = call[caller].op /\ x.name = call[caller].name
      /\ x.next = call[caller].next /\ x.stage = stage /\ x.coming = slice
  <2>1. call[caller] \in CallState
    BY <1>1
  <2>. QED BY <2>1 DEF CallState
<1>. HIDE DEF x
<1>4. call'[caller] = x /\ call' \in [Caller -> CallState]
  BY <1>1, <1>2, <1>3
<1>5. Slices'
  BY <1>2, <1>3, <1>4 DEF RingInv, Slices, Belongs
<1>6. Calls'
  BY <1>2, <1>3, <1>4 DEF RingInv, Calls, Under
<1>7. Writers = {} /\ Writers' = {caller}
  BY <1>3, <1>4 DEF OneCaller, Writers
<1>8. Len(ring) \in Nat /\ LenSeen = Len(ring) /\ LenSeen' \in Nat /\ LenSeen' >= LenSeen
  BY <1>1, <1>2, <1>4, <1>7 DEF LenSeen
<1>9. /\ lookup' \in [Reader -> LookState]
      /\ \A r \in Reader :
            \/ ~ Looking(lookup'[r])
            \/ /\ Looking(lookup[r])
               /\ lookup'[r].during = lookup[r].during \cup {stage}
               /\ lookup'[r].seen = lookup[r].seen \cup Names(slice)
               /\ lookup'[r].pc = lookup[r].pc /\ lookup'[r].lo = lookup[r].lo
               /\ lookup'[r].hi = lookup[r].hi /\ lookup'[r].answer = lookup[r].answer
  BY <1>1, WitnessedEffect DEF Begin
<1>10. ASSUME NEW r \in Reader PROVE Quiet(lookup[r])' /\ Safe(lookup[r])'
  <2>1. Quiet(lookup[r])'
    BY <1>9 DEF Quiet
  <2>2. Safe(lookup[r])'
    <3>. SUFFICES ASSUME Looking(lookup'[r]), lookup'[r].pc # "empty" PROVE Safe(lookup[r])'
      BY DEF Safe
    <3>1. Looking(lookup[r]) /\ lookup[r].pc # "empty" /\ Safe(lookup[r])
      BY <1>9 DEF RingInv, Lookups
    <3>2. Aware(lookup[r])'
      <4>1. lookup'[r].during = lookup[r].during \cup {stage}
            /\ lookup'[r].seen = lookup[r].seen \cup Names(slice)
        BY <1>9
      <4>2. Names(ring) \subseteq lookup[r].seen /\ ring' = ring
        BY <1>2, <3>1 DEF Safe, Aware
      <4>3. Names(ring') \subseteq lookup'[r].seen
        BY <4>1, <4>2
      <4>4. \A c \in Writers' : call'[c].stage = stage /\ call'[c].coming = slice
        BY <1>3, <1>4, <1>7
      <4>5. \A c \in Writers' : call'[c].stage \in lookup'[r].during
                                /\ Names(call'[c].coming) \subseteq lookup'[r].seen
        BY <4>1, <4>4
      <4>. QED BY <4>3, <4>5 DEF Aware
    <3>3. lookup'[r].pc = "done" => Told(lookup'[r].answer, lookup'[r].during, lookup'[r].seen)
      BY <1>9, <3>1 DEF Safe, Told
    <3>4. ASSUME "delete" \notin lookup'[r].during PROVE InRange(lookup[r])'
      <4>1. InRange(lookup[r])
        BY <1>9, <3>1, <3>4 DEF Safe
      <4>2. lookup[r].hi \in Nat /\ lookup[r].lo \in Nat
        BY <1>1 DEF LookState
      <4>3. LenSeen' >= 1 /\ (lookup[r].hi <= LenSeen => lookup[r].hi <= LenSeen')
            /\ (lookup[r].lo \in 1 .. LenSeen => lookup[r].lo \in 1 .. LenSeen')
        BY <1>8, <4>1, <4>2 DEF InRange
      <4>. QED BY <1>9, <4>1, <4>3 DEF InRange
    <3>. QED BY <3>2, <3>3, <3>4 DEF Safe
  <2>. QED BY <2>1, <2>2
<1>11. Lookups'
  BY <1>9, <1>10 DEF Lookups
<1>. QED BY <1>5, <1>6, <1>11 DEF RingInv

LEMMA ShiftSlotsStep ==
    ASSUME OneCaller, RingInv, ShiftSlots(caller) \/ GrowArray(caller)
    PROVE  RingInv'
<1>. DEFINE x == call[caller]
            point == <<x.name, x.next>>
            after == sortInto(ring, point)
<1>1. /\ x.op = "add" /\ x.stage = "none"
      /\ Begin(caller, "shift", after) \/ Begin(caller, "grown", after)
  BY DEF ShiftSlots, GrowArray, Writers, OneCaller
<1>2. after \in Seq(Point)
  BY <1>1, CallingPoint, sortIntoEffect DEF RingInv, Slices
<1>. HIDE DEF after
<1>3. CASE Begin(caller, "shift", after)
  BY <1>1, <1>2, <1>3, BeginStep DEF after
<1>4. CASE Begin(caller, "grown", after)
  BY <1>1, <1>2, <1>4, BeginStep DEF after
<1>. QED BY <1>1, <1>3, <1>4

LEMMA DeleteSlotsStep ==
    ASSUME OneCaller, RingInv, DeleteSlots(caller)
    PROVE  RingInv'
<1>. DEFINE x == call[caller]
            after == DeletePointsOf(ring, x.name)
<1>1. x.op = "remove" /\ x.stage = "none" /\ Begin(caller, "delete", after)
  BY DEF DeleteSlots, Writers, OneCaller
<1>2. after \in Seq(Point)
  BY DeletePointsOfEffect DEF RingInv, Slices
<1>. HIDE DEF after
<1>. QED BY <1>1, <1>2, BeginStep DEF after

\* The assignment of c.ring: what lookups have learned holds of the new slice.
LEMMA AssignedLookups ==
    ASSUME OneCaller, RingInv, caller \in Writers, call'[caller].stage = "none", lookup' = lookup,
           ring' = call[caller].coming, ring' \in Seq(Point),
           call[caller].op # "remove" => Len(ring') = Len(ring) + 1
    PROVE  Lookups'
<1>1. Writers = {caller} /\ Writers' = {} /\ Len(ring) \in Nat /\ Len(ring') \in Nat
  BY DEF OneCaller, Writers, RingInv, Slices
<1>2. LenSeen' = Len(ring') /\ LenSeen \in {Len(ring), Len(ring) + 1}
  BY <1>1 DEF LenSeen
<1>3. ASSUME NEW r \in Reader PROVE Quiet(lookup[r])' /\ Safe(lookup[r])'
  <2>1. Quiet(lookup[r]) /\ Safe(lookup[r]) /\ lookup[r] \in LookState
    BY DEF RingInv, Lookups
  <2>2. Quiet(lookup[r])'
    BY <1>1, <2>1 DEF Quiet
  <2>3. Safe(lookup[r])'
    <3>. SUFFICES ASSUME Looking(lookup[r]), lookup[r].pc # "empty" PROVE Safe(lookup[r])'
      BY DEF Safe
    <3>1. Aware(lookup[r]) /\ (lookup[r].pc = "done" => Told(lookup[r].answer, lookup[r].during, lookup[r].seen))
      BY <2>1 DEF Safe
    <3>2. call[caller].stage \in lookup[r].during /\ Names(call[caller].coming) \subseteq lookup[r].seen
      BY <1>1, <3>1 DEF Aware
    <3>3. Aware(lookup[r])'
      BY <1>1, <3>2 DEF Aware, Names
    <3>4. ASSUME "delete" \notin lookup[r].during PROVE InRange(lookup[r])'
      <4>1. InRange(lookup[r])
        BY <2>1, <3>4 DEF Safe
      <4>2. call[caller].op # "remove"
        BY <1>1, <3>2, <3>4 DEF Writers, RingInv, Calls, Under
      <4>3. LenSeen' \in Nat /\ LenSeen' >= LenSeen /\ LenSeen \in Nat
        BY <1>1, <1>2, <4>2
      <4>4. lookup[r].hi \in Nat /\ lookup[r].lo \in Nat
        BY <2>1 DEF LookState
      <4>5. LenSeen' >= 1 /\ (lookup[r].hi <= LenSeen => lookup[r].hi <= LenSeen')
            /\ (lookup[r].lo \in 1 .. LenSeen => lookup[r].lo \in 1 .. LenSeen')
        BY <4>1, <4>3, <4>4 DEF InRange
      <4>. QED BY <4>1, <4>5 DEF InRange
    <3>. QED BY <3>1, <3>3, <3>4 DEF Safe
  <2>. QED BY <2>2, <2>3
<1>. QED BY <1>3 DEF RingInv, Lookups

LEMMA InsertVirtualNodeStep ==
    ASSUME OneCaller, RingInv, InsertVirtualNode(caller)
    PROVE  RingInv'
<1>. DEFINE x == call[caller]
            point == <<x.name, x.next>>
            y == IF x.next + 1 = VirtualNodes THEN Idle ELSE Waiting("add", x.name, x.next + 1)
<1>1. x.op = "add" /\ x.stage # "none" /\ caller \in Writers /\ nodes' = nodes /\ lookup' = lookup
      /\ ring' = x.coming /\ call' = [call EXCEPT ![caller] = y] /\ Members' = Members
  BY DEF InsertVirtualNode, Writers, Members
<1>2. x \in CallState /\ x.name \in Members /\ x.coming = sortInto(ring, point)
  BY <1>1 DEF RingInv, Calls, Under, OneCaller
<1>3. point \in Point /\ ~ In(point, ring) /\ x.name \in Node /\ x.next \in 0 .. VirtualNodes - 1
  BY <1>1, CallingPoint
<1>4. ring \in Seq(Point) /\ Sorted(ring) /\ Once(ring)
      /\ \A p \in Point : In(p, ring) <=> Belongs(p, Members, x)
  BY DEF RingInv, Slices
<1>5. /\ ring' \in Seq(Point) /\ Len(ring') = Len(ring) + 1 /\ Sorted(ring') /\ Once(ring')
      /\ \A p \in Point : In(p, ring') <=> In(p, ring) \/ p = point
  <2>1. ring' = sortInto(ring, point)
    BY <1>1, <1>2
  <2>. HIDE DEF point, x
  <2>. QED BY <1>3, <1>4, <2>1, sortIntoEffect
<1>6. y \in CallState /\ y.stage = "none" /\ y.op \in {"idle", "add"}
      /\ (y.op = "add" => y.name = x.name /\ y.next = x.next + 1)
      /\ (y.op = "idle" => x.next + 1 = VirtualNodes)
  <2>1. CASE x.next + 1 = VirtualNodes
    BY <2>1, IdleIs
  <2>2. CASE x.next + 1 # VirtualNodes
    <3>1. x.next + 1 \in 0 .. VirtualNodes - 1
      BY <1>3, <2>2, PlacementAssumption
    <3>. QED BY <1>3, <2>2, <3>1, WaitingEffect
  <2>. QED BY <2>1, <2>2
<1>7. \A p \in Point : Belongs(p, Members, y) <=> Belongs(p, Members, x) \/ p = point
  <2>. TAKE p \in Point
  <2>1. p = <<p[1], p[2]>> /\ p[2] \in 0 .. VirtualNodes - 1
    BY DEF Point
  <2>2. p = point <=> p[1] = x.name /\ p[2] = x.next
    BY <2>1
  <2>3. Belongs(p, Members, x) <=> p[1] \in Members /\ (p[1] = x.name => p[2] < x.next)
    BY <1>1 DEF Belongs
  <2>. HIDE DEF point
  <2>4. CASE y.op = "add"
    <3>1. Belongs(p, Members, y) <=> p[1] \in Members /\ (p[1] = x.name => p[2] < x.next + 1)
      BY <1>6, <2>4 DEF Belongs
    <3>2. p[2] < x.next + 1 <=> p[2] < x.next \/ p[2] = x.next
      BY <1>3, <2>1, PlacementAssumption
    <3>. QED BY <1>2, <2>2, <2>3, <3>1, <3>2
  <2>5. CASE y.op = "idle"
    <3>1. Belongs(p, Members, y) <=> p[1] \in Members
      BY <2>5 DEF Belongs
    <3>2. p[2] < x.next \/ p[2] = x.next
      BY <1>3, <1>6, <2>1, <2>5, PlacementAssumption
    <3>. QED BY <1>2, <2>2, <2>3, <3>1, <3>2
  <2>. QED BY <1>6, <2>4, <2>5
<1>. HIDE DEF y, point
<1>8. call'[caller] = y /\ call' \in [Caller -> CallState]
  BY <1>1, <1>6 DEF OneCaller, RingInv, Calls
<1>9. nodes' \in Seq(Node)
  BY <1>1 DEF RingInv, Slices
<1>10. \A p \in Point : In(p, ring') <=> Belongs(p, Members', call'[caller])
  BY <1>1, <1>4, <1>5, <1>7, <1>8
<1>11. Slices'
  BY <1>5, <1>9, <1>10 DEF Slices
<1>12. Calls'
  BY <1>1, <1>2, <1>6, <1>8 DEF Calls, Under
<1>13. Lookups'
  BY <1>1, <1>5, <1>6, <1>8, AssignedLookups
<1>. QED BY <1>11, <1>12, <1>13 DEF RingInv

LEMMA RemoveVirtualNodesStep ==
    ASSUME OneCaller, RingInv, RemoveVirtualNodes(caller)
    PROVE  RingInv'
<1>. DEFINE x == call[caller]
<1>1. x.op = "remove" /\ x.stage # "none" /\ caller \in Writers /\ nodes' = nodes /\ lookup' = lookup
      /\ ring' = x.coming /\ call' = [call EXCEPT ![caller] = Idle] /\ Members' = Members
  BY DEF RemoveVirtualNodes, Writers, Members
<1>2. x \in CallState /\ x.name \in Node \ Members /\ x.coming = DeletePointsOf(ring, x.name)
  BY <1>1 DEF RingInv, Calls, Under, OneCaller
<1>3. ring \in Seq(Point) /\ Sorted(ring) /\ Once(ring)
      /\ \A p \in Point : In(p, ring) <=> Belongs(p, Members, x)
  BY DEF RingInv, Slices
<1>4. /\ ring' \in Seq(Point) /\ Sorted(ring') /\ Once(ring')
      /\ \A p \in Point : In(p, ring') <=> In(p, ring) /\ p[1] # x.name
  BY <1>1, <1>2, <1>3, DeletePointsOfEffect
<1>5. call'[caller] = Idle /\ call' \in [Caller -> CallState]
  BY <1>1, IdleIs DEF OneCaller, RingInv, Calls
<1>6. \A p \in Point : In(p, ring') <=> Belongs(p, Members', call'[caller])
  BY <1>1, <1>2, <1>3, <1>4, <1>5, IdleIs DEF Belongs
<1>7. Slices'
  BY <1>1, <1>4, <1>6 DEF RingInv, Slices
<1>8. Calls'
  BY <1>5, IdleIs DEF Calls, Under
<1>9. Lookups'
  BY <1>1, <1>4, <1>5, IdleIs, AssignedLookups
<1>. QED BY <1>7, <1>8, <1>9 DEF RingInv

-----------------------------------------------------------------------------
(* The steps of a lookup.                                                   *)

\* A reader sees the length and the slots as they are, or are to be.
LEMMA LenSeenEffect ==
    ASSUME OneCaller, RingInv
    PROVE  /\ Len(ring) \in Nat /\ LenSeen \in Nat
           /\ Len(ring) <= LenSeen /\ LenSeen <= Len(ring) + 1
           /\ Writers = {} => LenSeen = Len(ring)
<1>1. Len(ring) \in Nat
  BY DEF RingInv, Slices
<1>. QED BY <1>1 DEF LenSeen

LEMMA SlotsSeenEffect ==
    ASSUME OneCaller, RingInv, NEW i \in 1 .. Len(ring)
    PROVE  /\ ring[i] \in Point /\ Hash[ring[i]] \in Nat
           /\ Writers = {} => SlotsSeen(i) = {ring[i]}
           /\ Writers = {} => \A h : AboveSeen(i, h) = {Hash[ring[i]] > h}
           /\ Writers = {} => NamesSeen(i) = {ring[i][1]}
           /\ ring[i][1] \in Names(ring)
<1>1. ring \in Seq(Point) /\ Len(ring) \in Nat
  BY DEF RingInv, Slices
<1>2. ring[i] \in Point
  BY <1>1
<1>3. Hash[ring[i]] \in Nat
  BY <1>2, HashIsNatural
<1>4. ASSUME Writers = {} PROVE SlotsSeen(i) = {ring[i]}
  BY <1>4 DEF SlotsSeen
<1>5. ASSUME Writers = {}, NEW h PROVE AboveSeen(i, h) = {Hash[ring[i]] > h}
  <2>1. ring[i] # NoPoint
    BY <1>2, PlacementAssumption DEF Point, NoPoint
  <2>2. AboveSeen(i, h) = {HashOf(p) > h : p \in SlotsSeen(i)}
    BY <1>1 DEF AboveSeen
  <2>. QED BY <1>4, <1>5, <2>1, <2>2 DEF HashOf
<1>6. ASSUME Writers = {} PROVE NamesSeen(i) = {ring[i][1]}
  <2>. DEFINE names == {p[1] : p \in SlotsSeen(i)}
  <2>1. names = {ring[i][1]}
    BY <1>4, <1>6
  <2>2. ~ i > Len(ring)
    BY <1>1
  <2>3. NamesSeen(i) = IF Cardinality(names) > 1 THEN names \cup {TornName} ELSE names
    BY <2>2 DEF NamesSeen
  <2>. HIDE DEF names
  <2>4. Cardinality(names) = 1
    BY <2>1, FS_Singleton
  <2>. QED BY <2>1, <2>3, <2>4
<1>7. ring[i][1] \in Names(ring)
  BY DEF Names
<1>. QED BY <1>2, <1>3, <1>4, <1>5, <1>6, <1>7

\* What a reader may see in a slot it has an explanation for.
LEMMA NamesSeenEffect ==
    ASSUME OneCaller, RingInv, NEW i \in 1 .. LenSeen, NEW l, Aware(l), NEW name \in NamesSeen(i)
    PROVE  Told(name, l.during, l.seen)
<1>1. i \in Nat /\ Len(ring) \in Nat
  BY LenSeenEffect
<1>2. CASE i > Len(ring)
  <2>1. LenSeen # Len(ring)
    BY <1>1, <1>2
  <2>2. \E c \in Writers : call[c].stage = "grown"
    BY <2>1 DEF LenSeen
  <2>. QED BY <2>2 DEF Aware, Told
<1>3. CASE ~ i > Len(ring)
  <2>1. i \in 1 .. Len(ring)
    BY <1>1, <1>3
  <2>2. ASSUME NEW c \in Writers, call[c].stage \in {"shift", "delete"}, ~ i <= Len(call[c].coming)
        PROVE  call[c].stage = "delete"
    <3>. SUFFICES ASSUME call[c].stage = "shift" PROVE FALSE
      BY <2>2
    <3>1. c = caller /\ call[caller].op = "add"
      BY DEF RingInv, Calls, Under, OneCaller, CallState, Writers
    <3>2. Len(call[caller].coming) = Len(ring) + 1
      <4>. DEFINE point == <<call[caller].name, call[caller].next>>
      <4>1. call[caller].coming = sortInto(ring, point)
        BY <3>1 DEF RingInv, Calls, Under
      <4>2. point \in Point /\ ~ In(point, ring)
        BY <3>1, CallingPoint
      <4>3. ring \in Seq(Point) /\ Sorted(ring) /\ Once(ring)
        BY DEF RingInv, Slices
      <4>. HIDE DEF point
      <4>. QED BY <4>1, <4>2, <4>3, sortIntoEffect
    <3>. QED BY <1>1, <2>1, <2>2, <3>1, <3>2
  <2>3. ASSUME NEW p \in SlotsSeen(i)
        PROVE  p[1] \in l.seen \/ (p[1] = NoNode /\ "delete" \in l.during)
    <3>1. CASE p = ring[i]
      BY <2>1, <3>1 DEF Names, Aware
    <3>2. ASSUME NEW c \in Writers, i <= Len(call[c].coming), p = call[c].coming[i]
          PROVE  p[1] \in l.seen
      <4>1. call[c].coming \in Seq(Point)
        BY DEF RingInv, Calls, CallState, Writers
      <4>2. i \in 1 .. Len(call[c].coming)
        BY <1>1, <2>1, <3>2, <4>1
      <4>. QED BY <3>2, <4>2 DEF Names, Aware
    <3>3. ASSUME NEW c \in Writers, call[c].stage \in {"shift", "delete"},
                 ~ i <= Len(call[c].coming), p = NoPoint
          PROVE  p[1] = NoNode /\ "delete" \in l.during
      BY <2>2, <3>3 DEF NoPoint, Aware
    <3>4. \/ p = ring[i]
          \/ \E c \in Writers : i <= Len(call[c].coming) /\ p = call[c].coming[i]
          \/ \E c \in Writers : /\ call[c].stage \in {"shift", "delete"}
                                /\ ~ i <= Len(call[c].coming) /\ p = NoPoint
      BY DEF SlotsSeen
    <3>. QED BY <3>1, <3>2, <3>3, <3>4
  <2>4. CASE Writers = {}
    BY <2>1, <2>4, SlotsSeenEffect DEF Aware, Told
  <2>5. CASE Writers # {}
    <3>1. l.during # {}
      BY <2>5 DEF Aware
    <3>2. name = TornName \/ \E p \in SlotsSeen(i) : name = p[1]
      BY <1>3 DEF NamesSeen
    <3>. QED BY <2>3, <3>1, <3>2 DEF Told
  <2>. QED BY <2>4, <2>5
<1>. QED BY <1>2, <1>3

\* Whatever a reader sees in a slot, it is a name, none, or a torn one.
LEMMA NamesSeenType ==
    ASSUME OneCaller, RingInv, NEW i \in 1 .. LenSeen
    PROVE  NamesSeen(i) \subseteq Node \cup {NoNode, TornName}
<1>1. i \in Nat /\ Len(ring) \in Nat /\ ring \in Seq(Point)
  BY LenSeenEffect DEF RingInv, Slices
<1>2. CASE i > Len(ring)
  BY <1>2 DEF NamesSeen
<1>3. CASE ~ i > Len(ring)
  <2>1. i \in 1 .. Len(ring)
    BY <1>1, <1>3
  <2>2. \A p \in Point : p[1] \in Node
    BY DEF Point
  <2>3. ring[i] \in Point /\ NoPoint[1] = NoNode
    BY <1>1, <2>1 DEF NoPoint
  <2>4. ASSUME NEW c \in Writers, i <= Len(call[c].coming) PROVE call[c].coming[i] \in Point
    <3>1. call[c].coming \in Seq(Point)
      BY DEF RingInv, Calls, CallState, Writers
    <3>2. i \in 1 .. Len(call[c].coming)
      BY <1>1, <2>1, <2>4, <3>1
    <3>. QED BY <3>1, <3>2
  <2>5. ASSUME NEW p \in SlotsSeen(i) PROVE p \in Point \/ p = NoPoint
    BY <2>3, <2>4 DEF SlotsSeen
  <2>6. ASSUME NEW p \in SlotsSeen(i) PROVE p[1] \in Node \cup {NoNode}
    BY <2>2, <2>3, <2>5
  <2>. QED BY <1>3, <2>6 DEF NamesSeen
<1>. QED BY <1>2, <1>3

LEMMA ProceedsStep ==
    ASSUME OneCaller, RingInv, NEW r \in Reader, NEW l \in LookState, Proceeds(r, l), Quiet(l), Safe(l)
    PROVE  RingInv'
<1>1. lookup \in [Reader -> LookState] /\ lookup' = [lookup EXCEPT ![r] = l]
      /\ nodes' = nodes /\ ring' = ring /\ call' = call
  BY DEF Proceeds, RingInv, Lookups
<1>2. lookup' \in [Reader -> LookState]
      /\ \A d \in Reader : lookup'[d] = l \/ lookup'[d] = lookup[d]
  BY <1>1
<1>3. Members' = Members /\ Writers' = Writers
  BY <1>1 DEF Members, Writers
<1>4. LenSeen' = LenSeen
  BY <1>1, <1>3 DEF LenSeen
<1>5. Slices' /\ Calls'
  BY <1>1, <1>3 DEF RingInv, Slices, Calls
<1>6. ASSUME NEW d \in Reader PROVE Quiet(lookup[d])' /\ Safe(lookup[d])'
  <2>1. Quiet(lookup'[d]) /\ Safe(lookup'[d])
    BY <1>2 DEF RingInv, Lookups
  <2>2. Search(lookup[d])' <=> Search(lookup'[d])
    BY <1>1 DEF Search, Slots, Answers
  <2>3. Quiet(lookup[d])'
    BY <1>3, <2>1, <2>2 DEF Quiet
  <2>4. Safe(lookup[d])'
    BY <1>1, <1>3, <1>4, <2>1 DEF Safe, Aware, InRange, Names
  <2>. QED BY <2>3, <2>4
<1>7. Lookups'
  BY <1>2, <1>6 DEF Lookups
<1>. QED BY <1>5, <1>7 DEF RingInv

LEMMA AwayEffect ==
    /\ Away \in LookState /\ ~ Looking(Away)
    /\ Quiet(Away) /\ Safe(Away)
<1>1. 0 \in HashValue
  BY PlacementAssumption DEF HashValue
<1>2. Away \in LookState /\ ~ Looking(Away)
  BY <1>1 DEF Away, Begun, LookState, Looking
<1>. QED BY <1>2 DEF Quiet, Safe

LEMMA BeginLookupStep ==
    ASSUME OneCaller, RingInv, NEW r \in Reader, NEW h \in HashValue, BeginLookup(r, h)
    PROVE  RingInv'
<1>. DEFINE pc == IF LenSeen = 0 THEN "empty" ELSE "measure"
            during == {call[c].stage : c \in Writers}
            seen == Names(ring) \cup UNION {Names(call[c].coming) : c \in Writers}
            l == Begun(pc, h, during, seen)
<1>1. Proceeds(r, l)
  BY DEF BeginLookup
<1>2. \A slice \in Seq(Point) : Names(slice) \subseteq Node
  <2>1. \A slice \in Seq(Point) : \A i \in 1 .. Len(slice) : slice[i] \in Point
    OBVIOUS
  <2>2. \A p \in Point : p[1] \in Node
    BY DEF Point
  <2>. QED BY <2>1, <2>2 DEF Names
<1>3. \A c \in Writers : call[c].stage \in {"shift", "grown", "delete"} /\ call[c].coming \in Seq(Point)
  BY DEF OneCaller, Writers, RingInv, Calls, Under, CallState
<1>4. seen \in SUBSET Node
  BY <1>2, <1>3 DEF RingInv, Slices
<1>5. during \in SUBSET {"shift", "grown", "delete"}
  BY <1>3
<1>6. pc \in {"empty", "measure"}
  OBVIOUS
<1>7. l = [pc |-> pc, hash |-> h, lo |-> 0, hi |-> 0, answer |-> NoNode, during |-> during, seen |-> seen]
  BY DEF Begun
<1>8. LenSeen \in Nat /\ (Writers = {} => LenSeen = Len(ring)) /\ (ring = <<>> <=> Len(ring) = 0)
  BY LenSeenEffect DEF RingInv, Slices
<1>. HIDE DEF l
<1>9. l.pc = pc /\ l.lo = 0 /\ l.during = during /\ l.seen = seen
  BY <1>7
<1>10. l \in LookState
  <2>. HIDE DEF pc, during, seen
  <2>. QED BY <1>4, <1>5, <1>6, <1>7 DEF LookState
<1>11. Quiet(l)
  <2>1. during = {} => Writers = {}
    OBVIOUS
  <2>2. Writers = {} => Search(l)
    BY <1>8, <1>9 DEF Search
  <2>. QED BY <1>9, <2>1, <2>2 DEF Quiet
<1>12. Safe(l)
  <2>1. Aware(l)
    BY <1>9 DEF Aware
  <2>2. l.pc # "empty" => l.pc = "measure" /\ LenSeen >= 1 /\ l.lo = 0
    BY <1>8, <1>9
  <2>3. l.pc # "empty" => InRange(l)
    BY <2>2 DEF InRange
  <2>. QED BY <2>1, <2>2, <2>3 DEF Safe
<1>. QED BY <1>1, <1>10, <1>11, <1>12, ProceedsStep

\* What Search asks for while the bounds are lo and hi.
Between(l) ==
    /\ l.lo <= l.hi /\ l.hi <= Len(ring)
    /\ \A j \in 1 .. l.lo : Hash[ring[j]] <= l.hash
    /\ \A j \in l.hi + 1 .. Len(ring) : Hash[ring[j]] > l.hash

LEMMA NarrowEffect ==
    ASSUME OneCaller, RingInv, NEW k \in LookState,
           k.during = {} => Writers = {} /\ ring # <<>> /\ Between(k),
           Aware(k), "delete" \notin k.during => LenSeen >= 1 /\ k.lo <= k.hi /\ k.hi <= LenSeen
    PROVE  Narrow(k) \in LookState /\ Quiet(Narrow(k)) /\ Safe(Narrow(k))
<1>. DEFINE pc == IF k.lo < k.hi THEN "probe" ELSE IF k.lo = 0 THEN "wrap" ELSE "name"
            l == [k EXCEPT !.pc = pc]
<1>1. k.lo \in Nat /\ k.hi \in Nat /\ k.during \in SUBSET {"shift", "grown", "delete"}
  BY DEF LookState
<1>2. l \in LookState
  BY DEF LookState
<1>3. /\ l.pc = pc /\ l.lo = k.lo /\ l.hi = k.hi /\ l.hash = k.hash
      /\ l.during = k.during /\ l.seen = k.seen
  BY DEF LookState
<1>4. Narrow(k) = l
  BY DEF Narrow
<1>. HIDE DEF l
<1>5. Len(ring) \in Nat /\ LenSeen \in Nat /\ (ring = <<>> <=> Len(ring) = 0)
  BY LenSeenEffect DEF RingInv, Slices
<1>6. ASSUME ring # <<>>, Between(k) PROVE Search(l)
  <2>1. /\ k.lo <= k.hi /\ k.hi <= Len(ring)
        /\ \A j \in 1 .. k.lo : Hash[ring[j]] <= k.hash
        /\ \A j \in k.hi + 1 .. Len(ring) : Hash[ring[j]] > k.hash
    BY <1>6 DEF Between
  <2>2. CASE k.lo < k.hi
    BY <1>3, <2>1, <2>2 DEF Search
  <2>3. CASE ~ k.lo < k.hi /\ k.lo = 0
    <3>1. k.hi + 1 = 1
      BY <1>1, <2>1, <2>3
    <3>. QED BY <1>3, <1>6, <2>1, <2>3, <3>1 DEF Search
  <2>4. CASE ~ k.lo < k.hi /\ k.lo # 0
    <3>1. k.lo = k.hi /\ k.lo \in 1 .. Len(ring)
      BY <1>1, <1>5, <2>1, <2>4
    <3>2. Answers(ring, k.hash, k.lo)
      BY <2>1, <3>1 DEF Answers
    <3>. QED BY <1>3, <2>4, <3>2 DEF Search
  <2>. QED BY <2>2, <2>3, <2>4
<1>7. Quiet(l)
  BY <1>3, <1>6 DEF Quiet
<1>8. Safe(l)
  <2>1. Aware(l) /\ l.pc # "done"
    BY <1>3 DEF Aware
  <2>2. ASSUME "delete" \notin k.during PROVE InRange(l)
    <3>1. pc = "name" => k.lo \in 1 .. LenSeen
      BY <1>1, <1>5, <2>2
    <3>2. pc \notin {"measure", "done", "panic"} /\ (pc = "probe" => k.lo < k.hi)
      OBVIOUS
    <3>. HIDE DEF pc
    <3>. QED BY <1>3, <2>2, <3>1, <3>2 DEF InRange
  <2>. QED BY <1>3, <2>1, <2>2 DEF Safe
<1>. QED BY <1>2, <1>4, <1>7, <1>8

LEMMA MeasureStep ==
    ASSUME OneCaller, RingInv, NEW r \in Reader, Measure(r)
    PROVE  RingInv'
<1>. DEFINE x == lookup[r]
            k == [x EXCEPT !.hi = LenSeen]
<1>1. x.pc = "measure" /\ Proceeds(r, Narrow(k))
  BY DEF Measure
<1>2. x \in LookState /\ Quiet(x) /\ Safe(x) /\ Looking(x)
  BY <1>1 DEF RingInv, Lookups, Looking
<1>3. /\ Len(ring) \in Nat /\ LenSeen \in Nat /\ (ring = <<>> <=> Len(ring) = 0)
      /\ Writers = {} => LenSeen = Len(ring)
  BY LenSeenEffect DEF RingInv, Slices
<1>4. k \in LookState
  BY <1>2, <1>3 DEF LookState
<1>5. k.lo = x.lo /\ k.hi = LenSeen /\ k.hash = x.hash /\ k.during = x.during /\ k.seen = x.seen
  BY <1>2 DEF LookState
<1>. HIDE DEF k, x
<1>6. k.during = {} => Writers = {} /\ ring # <<>> /\ Between(k)
  <2>. SUFFICES ASSUME k.during = {} PROVE Writers = {} /\ ring # <<>> /\ Between(k)
    OBVIOUS
  <2>1. Writers = {} /\ ring # <<>> /\ x.lo = 0
    BY <1>1, <1>2, <1>5 DEF Quiet, Search
  <2>. QED BY <1>3, <1>5, <2>1 DEF Between
<1>7. Aware(k) /\ ("delete" \notin k.during => LenSeen >= 1 /\ k.lo <= k.hi /\ k.hi <= LenSeen)
  BY <1>1, <1>2, <1>3, <1>5 DEF Safe, Aware, InRange
<1>8. Narrow(k) \in LookState /\ Quiet(Narrow(k)) /\ Safe(Narrow(k))
  BY <1>4, <1>6, <1>7, NarrowEffect
<1>. QED BY <1>1, <1>8, ProceedsStep

LEMMA ProbeStep ==
    ASSUME OneCaller, RingInv, NEW r \in Reader, Probe(r)
    PROVE  RingInv'
<1>. DEFINE x == lookup[r]
            m == (x.lo + x.hi) \div 2
<1>1. x.pc = "probe" /\ IF m + 1 > LenSeen THEN Panics(r)
         ELSE \E above \in AboveSeen(m + 1, x.hash) :
                  Proceeds(r, Narrow(IF above THEN [x EXCEPT !.hi = m] ELSE [x EXCEPT !.lo = m + 1]))
  BY DEF Probe
<1>2. x \in LookState /\ Quiet(x) /\ Safe(x) /\ Looking(x)
  BY <1>1 DEF RingInv, Lookups, Looking
<1>3. /\ Len(ring) \in Nat /\ LenSeen \in Nat /\ (ring = <<>> <=> Len(ring) = 0)
      /\ Writers = {} => LenSeen = Len(ring)
      /\ ring \in Seq(Point) /\ Sorted(ring)
  BY LenSeenEffect DEF RingInv, Slices
<1>4. x.lo \in Nat /\ x.hi \in Nat /\ x.hash \in Nat
  BY <1>2 DEF LookState, HashValue
<1>5. m \in Nat /\ (x.lo < x.hi => x.lo <= m /\ m < x.hi)
  BY <1>4
<1>. HIDE DEF m
<1>6. x.during = {} =>
        /\ Writers = {} /\ ring # <<>> /\ x.lo < x.hi /\ x.hi <= Len(ring)
        /\ \A j \in 1 .. x.lo : Hash[ring[j]] <= x.hash
        /\ \A j \in x.hi + 1 .. Len(ring) : Hash[ring[j]] > x.hash
  <2>. SUFFICES ASSUME x.during = {}
                PROVE  /\ Writers = {} /\ ring # <<>> /\ x.lo < x.hi /\ x.hi <= Len(ring)
                       /\ \A j \in 1 .. x.lo : Hash[ring[j]] <= x.hash
                       /\ \A j \in x.hi + 1 .. Len(ring) : Hash[ring[j]] > x.hash
    OBVIOUS
  <2>1. Writers = {} /\ Search(x)
    BY <1>2 DEF Quiet
  <2>2. x.lo < x.hi /\ x.hi <= Len(ring)
    BY <1>1, <2>1 DEF Search
  <2>3. ring # <<>>
    BY <1>3, <1>4, <2>2
  <2>. QED BY <1>1, <2>1, <2>2, <2>3 DEF Search
<1>7. Aware(x) /\ ("delete" \notin x.during => LenSeen >= 1 /\ x.lo < x.hi /\ x.hi <= LenSeen)
  BY <1>1, <1>2 DEF Safe, InRange
<1>8. CASE m + 1 > LenSeen
  <2>. DEFINE l == [x EXCEPT !.pc = "panic"]
  <2>1. Proceeds(r, l)
    BY <1>1, <1>8 DEF Panics
  <2>2. l \in LookState
    BY <1>2 DEF LookState
  <2>3. l.during = x.during /\ l.seen = x.seen /\ l.pc = "panic"
    BY <1>2 DEF LookState
  <2>4. "delete" \in x.during
    BY <1>3, <1>4, <1>5, <1>7, <1>8
  <2>. HIDE DEF l
  <2>5. Quiet(l) /\ Safe(l)
    BY <1>7, <2>3, <2>4 DEF Quiet, Safe, Aware
  <2>. QED BY <2>1, <2>2, <2>5, ProceedsStep
<1>9. CASE ~ m + 1 > LenSeen
  <2>1. PICK above \in AboveSeen(m + 1, x.hash) :
            Proceeds(r, Narrow(IF above THEN [x EXCEPT !.hi = m] ELSE [x EXCEPT !.lo = m + 1]))
    BY <1>1, <1>9
  \* Nothing is written: the slot tells on which side the hash lies.
  <2>2. ASSUME x.during = {}
        PROVE  /\ above => \A j \in m + 1 .. Len(ring) : Hash[ring[j]] > x.hash
               /\ ~ above => \A j \in 1 .. m + 1 : Hash[ring[j]] <= x.hash
    <3>1. m + 1 \in 1 .. Len(ring)
      BY <1>3, <1>4, <1>5, <1>6, <2>2
    <3>2. above = (Hash[ring[m + 1]] > x.hash) /\ Hash[ring[m + 1]] \in Nat
      BY <1>6, <2>1, <2>2, <3>1, SlotsSeenEffect
    <3>3. \A j \in 1 .. Len(ring) : Hash[ring[j]] \in Nat
      BY SlotsSeenEffect
    <3>4. \A j \in m + 1 .. Len(ring) : Hash[ring[m + 1]] <= Hash[ring[j]]
      <4>. TAKE j \in m + 1 .. Len(ring)
      <4>1. CASE j = m + 1
        BY <3>2, <4>1
      <4>2. CASE j # m + 1
        <5>1. m + 1 < j /\ j \in 1 .. Len(ring)
          BY <1>3, <1>5, <4>2
        <5>. QED BY <1>3, <3>1, <5>1 DEF Sorted
      <4>. QED BY <4>1, <4>2
    <3>5. \A j \in 1 .. m + 1 : Hash[ring[j]] <= Hash[ring[m + 1]]
      <4>. TAKE j \in 1 .. m + 1
      <4>1. CASE j = m + 1
        BY <3>2, <4>1
      <4>2. CASE j # m + 1
        <5>1. j < m + 1 /\ j \in 1 .. Len(ring)
          BY <1>3, <1>5, <3>1, <4>2
        <5>. QED BY <1>3, <3>1, <5>1 DEF Sorted
      <4>. QED BY <4>1, <4>2
    <3>6. \A j \in m + 1 .. Len(ring) : j \in 1 .. Len(ring)
      BY <1>5
    <3>7. \A j \in 1 .. m + 1 : j \in 1 .. Len(ring)
      BY <1>3, <1>5, <3>1
    <3>8. ASSUME above PROVE \A j \in m + 1 .. Len(ring) : Hash[ring[j]] > x.hash
      <4>1. Hash[ring[m + 1]] > x.hash
        BY <3>2, <3>8
      <4>. TAKE j \in m + 1 .. Len(ring)
      <4>2. Hash[ring[j]] \in Nat /\ Hash[ring[m + 1]] \in Nat /\ Hash[ring[m + 1]] <= Hash[ring[j]]
        BY <3>2, <3>3, <3>4, <3>6
      <4>. QED BY <1>4, <4>1, <4>2
    <3>9. ASSUME ~ above PROVE \A j \in 1 .. m + 1 : Hash[ring[j]] <= x.hash
      <4>1. ~ Hash[ring[m + 1]] > x.hash
        BY <3>2, <3>9
      <4>. TAKE j \in 1 .. m + 1
      <4>2. Hash[ring[j]] \in Nat /\ Hash[ring[m + 1]] \in Nat /\ Hash[ring[j]] <= Hash[ring[m + 1]]
        BY <3>2, <3>3, <3>5, <3>7
      <4>. QED BY <1>4, <4>1, <4>2
    <3>. QED BY <3>8, <3>9
  <2>3. CASE above
    <3>. DEFINE k == [x EXCEPT !.hi = m]
    <3>1. k \in LookState
      BY <1>2, <1>5 DEF LookState
    <3>2. k.lo = x.lo /\ k.hi = m /\ k.hash = x.hash /\ k.during = x.during /\ k.seen = x.seen
      BY <1>2 DEF LookState
    <3>3. Proceeds(r, Narrow(k))
      BY <2>1, <2>3
    <3>. HIDE DEF k, x
    <3>4. ASSUME k.during = {} PROVE Writers = {} /\ ring # <<>> /\ Between(k)
      <4>1. m <= Len(ring) /\ x.lo <= m
        BY <1>3, <1>4, <1>5, <1>6, <3>2, <3>4
      <4>. QED BY <1>6, <2>2, <2>3, <3>2, <3>4, <4>1 DEF Between
    <3>5. ASSUME "delete" \notin k.during PROVE LenSeen >= 1 /\ k.lo <= k.hi /\ k.hi <= LenSeen
      <4>1. m <= LenSeen /\ x.lo <= m
        BY <1>3, <1>4, <1>5, <1>7, <3>2, <3>5
      <4>. QED BY <1>7, <3>2, <3>5, <4>1
    <3>7. Aware(k)
      BY <1>7, <3>2 DEF Aware
    <3>6. Narrow(k) \in LookState /\ Quiet(Narrow(k)) /\ Safe(Narrow(k))
      BY <3>1, <3>4, <3>5, <3>7, NarrowEffect
    <3>. QED BY <3>3, <3>6, ProceedsStep
  <2>4. CASE ~ above
    <3>. DEFINE k == [x EXCEPT !.lo = m + 1]
    <3>1. k \in LookState
      BY <1>2, <1>5 DEF LookState
    <3>2. k.lo = m + 1 /\ k.hi = x.hi /\ k.hash = x.hash /\ k.during = x.during /\ k.seen = x.seen
      BY <1>2 DEF LookState
    <3>3. Proceeds(r, Narrow(k))
      BY <2>1, <2>4
    <3>. HIDE DEF k, x
    <3>4. ASSUME k.during = {} PROVE Writers = {} /\ ring # <<>> /\ Between(k)
      <4>1. m + 1 <= x.hi
        BY <1>4, <1>5, <1>6, <3>2, <3>4
      <4>. QED BY <1>6, <2>2, <2>4, <3>2, <3>4, <4>1 DEF Between
    <3>5. ASSUME "delete" \notin k.during PROVE LenSeen >= 1 /\ k.lo <= k.hi /\ k.hi <= LenSeen
      <4>1. m + 1 <= x.hi
        BY <1>4, <1>5, <1>7, <3>2, <3>5
      <4>. QED BY <1>7, <3>2, <3>5, <4>1
    <3>7. Aware(k)
      BY <1>7, <3>2 DEF Aware
    <3>6. Narrow(k) \in LookState /\ Quiet(Narrow(k)) /\ Safe(Narrow(k))
      BY <3>1, <3>4, <3>5, <3>7, NarrowEffect
    <3>. QED BY <3>3, <3>6, ProceedsStep
  <2>. QED BY <2>3, <2>4
<1>. QED BY <1>8, <1>9

LEMMA WrapStep ==
    ASSUME OneCaller, RingInv, NEW r \in Reader, Wrap(r)
    PROVE  RingInv'
<1>. DEFINE x == lookup[r]
            l == [x EXCEPT !.pc = "name", !.lo = LenSeen]
<1>1. x.pc = "wrap" /\ Proceeds(r, l)
  BY DEF Wrap
<1>2. x \in LookState /\ Quiet(x) /\ Safe(x) /\ Looking(x)
  BY <1>1 DEF RingInv, Lookups, Looking
<1>3. /\ Len(ring) \in Nat /\ LenSeen \in Nat /\ (ring = <<>> <=> Len(ring) = 0)
      /\ Writers = {} => LenSeen = Len(ring)
  BY LenSeenEffect DEF RingInv, Slices
<1>4. l \in LookState
  BY <1>2, <1>3 DEF LookState
<1>5. /\ l.pc = "name" /\ l.lo = LenSeen /\ l.hash = x.hash
      /\ l.during = x.during /\ l.seen = x.seen
  BY <1>2 DEF LookState
<1>. HIDE DEF l, x
<1>6. Quiet(l)
  <2>. SUFFICES ASSUME x.during = {} PROVE Writers = {} /\ Search(l)
    BY <1>5 DEF Quiet
  <2>1. Writers = {} /\ ring # <<>> /\ \A j \in 1 .. Len(ring) : Hash[ring[j]] > x.hash
    BY <1>1, <1>2 DEF Quiet, Search
  <2>2. Answers(ring, x.hash, LenSeen)
    BY <1>3, <2>1 DEF Answers
  <2>. QED BY <1>5, <2>1, <2>2 DEF Search
<1>7. Safe(l)
  BY <1>1, <1>2, <1>3, <1>5 DEF Safe, Aware, InRange
<1>. QED BY <1>1, <1>4, <1>6, <1>7, ProceedsStep

LEMMA ReadNameStep ==
    ASSUME OneCaller, RingInv, NEW r \in Reader, ReadName(r)
    PROVE  RingInv'
<1>. DEFINE x == lookup[r]
<1>1. x.pc = "name" /\ IF x.lo \notin 1 .. LenSeen THEN Panics(r)
         ELSE \E name \in NamesSeen(x.lo) : Proceeds(r, [x EXCEPT !.pc = "done", !.answer = name])
  BY DEF ReadName
<1>2. x \in LookState /\ Quiet(x) /\ Safe(x) /\ Looking(x)
  BY <1>1 DEF RingInv, Lookups, Looking
<1>3. /\ Len(ring) \in Nat /\ LenSeen \in Nat /\ (Writers = {} => LenSeen = Len(ring))
      /\ ring \in Seq(Point) /\ Sorted(ring)
  BY LenSeenEffect DEF RingInv, Slices
<1>4. x.during = {} => Writers = {} /\ Answers(ring, x.hash, x.lo)
  BY <1>1, <1>2 DEF Quiet, Search
<1>5. Aware(x) /\ ("delete" \notin x.during => LenSeen >= 1 /\ x.lo \in 1 .. LenSeen)
  BY <1>1, <1>2 DEF Safe, InRange
<1>6. CASE x.lo \notin 1 .. LenSeen
  <2>. DEFINE y == [x EXCEPT !.pc = "panic"]
  <2>1. Proceeds(r, y)
    BY <1>1, <1>6 DEF Panics
  <2>2. y \in LookState
    BY <1>2 DEF LookState
  <2>3. y.during = x.during /\ y.seen = x.seen /\ y.pc = "panic"
    BY <1>2 DEF LookState
  <2>4. "delete" \in x.during
    BY <1>5, <1>6
  <2>. HIDE DEF y
  <2>5. Quiet(y) /\ Safe(y)
    BY <1>5, <2>3, <2>4 DEF Quiet, Safe, Aware
  <2>. QED BY <2>1, <2>2, <2>5, ProceedsStep
<1>7. CASE x.lo \in 1 .. LenSeen
  <2>1. PICK name \in NamesSeen(x.lo) : Proceeds(r, [x EXCEPT !.pc = "done", !.answer = name])
    BY <1>1, <1>7
  <2>. DEFINE y == [x EXCEPT !.pc = "done", !.answer = name]
  <2>2. name \in Node \cup {NoNode, TornName}
    BY <1>7, NamesSeenType
  <2>3. y \in LookState
    BY <1>2, <2>2 DEF LookState
  <2>4. /\ y.pc = "done" /\ y.answer = name /\ y.hash = x.hash
        /\ y.during = x.during /\ y.seen = x.seen
    BY <1>2 DEF LookState
  <2>5. Proceeds(r, y)
    BY <2>1
  <2>. HIDE DEF y, x
  <2>6. Quiet(y)
    <3>. SUFFICES ASSUME x.during = {} PROVE Writers = {} /\ Search(y)
      BY <2>4 DEF Quiet
    <3>1. Writers = {} /\ Answers(ring, x.hash, x.lo)
      BY <1>4
    <3>2. x.lo \in 1 .. Len(ring)
      BY <3>1 DEF Answers
    <3>3. name = ring[x.lo][1]
      BY <2>1, <3>1, <3>2, SlotsSeenEffect
    <3>4. x.hash \in HashValue
      BY <1>2 DEF LookState
    <3>5. name \in Owners(Slots(ring), x.hash)
      BY <1>3, <3>1, <3>3, <3>4, AnswersEffect
    <3>6. ring # <<>>
      BY <3>2
    <3>. QED BY <2>4, <3>1, <3>5, <3>6 DEF Search
  <2>7. Safe(y)
    <3>1. Told(name, x.during, x.seen)
      BY <1>5, <1>7, <2>1, NamesSeenEffect
    <3>2. Aware(y)
      BY <1>5, <2>4 DEF Aware
    <3>3. "delete" \notin y.during => InRange(y)
      BY <1>5, <2>4 DEF InRange
    <3>. QED BY <2>4, <3>1, <3>2, <3>3 DEF Safe
  <2>. QED BY <2>3, <2>5, <2>6, <2>7, ProceedsStep
<1>. QED BY <1>6, <1>7

LEMMA FaultStep ==
    ASSUME OneCaller, RingInv, NEW r \in Reader, Fault(r)
    PROVE  RingInv'
<1>. DEFINE l == Begun("ended", 0, {}, {})
<1>1. nodes' = nodes /\ ring' = ring /\ call' = call /\ lookup' = [q \in Reader |-> l]
  BY DEF Fault
<1>2. l.pc = "ended" /\ l \in LookState
  BY PlacementAssumption DEF Begun, LookState, HashValue
<1>. HIDE DEF l
<1>3. Members' = Members
  BY <1>1 DEF Members
<1>4. Slices' /\ Calls'
  BY <1>1, <1>3 DEF RingInv, Slices, Calls
<1>5. Lookups'
  BY <1>1, <1>2 DEF Lookups, Quiet, Safe, Looking
<1>. QED BY <1>4, <1>5 DEF RingInv

LEMMA EndLookupStep ==
    ASSUME OneCaller, RingInv, NEW r \in Reader, EndLookup(r)
    PROVE  RingInv'
  BY AwayEffect, ProceedsStep DEF EndLookup

-----------------------------------------------------------------------------
(* The theorems. All of them are about the events of memberlist as the only *)
(* caller of AddNode and RemoveNode, and any number of lookups beside it.   *)

LEMMA RingInit ==
    ASSUME OneCaller, Init
    PROVE  RingInv
<1>1. nodes = <<>> /\ ring = <<>> /\ call[caller] = Idle /\ call \in [Caller -> CallState]
  BY IdleIs DEF Init, OneCaller
<1>2. Members = {} /\ \A p \in Point : ~ In(p, ring)
  BY <1>1 DEF Members, In
<1>3. Slices
  BY <1>1, <1>2, IdleIs DEF Slices, Sorted, Once, Belongs
<1>4. Calls
  BY <1>1, IdleIs DEF Calls, Under
<1>5. Lookups
  BY AwayEffect DEF Init, Lookups
<1>. QED BY <1>3, <1>4, <1>5 DEF RingInv

LEMMA RingStep ==
    ASSUME OneCaller, RingInv, [Next]_vars
    PROVE  RingInv'
<1>1. ASSUME NEW c \in Caller, Change(c) PROVE RingInv'
  <2>1. c = caller
    BY DEF OneCaller
  <2>2. CASE ShiftSlots(c) \/ GrowArray(c)
    BY <2>1, <2>2, ShiftSlotsStep
  <2>3. CASE InsertVirtualNode(c)
    BY <2>1, <2>3, InsertVirtualNodeStep
  <2>4. CASE DeleteSlots(c)
    BY <2>1, <2>4, DeleteSlotsStep
  <2>5. CASE RemoveVirtualNodes(c)
    BY <2>1, <2>5, RemoveVirtualNodesStep
  <2>6. ASSUME NEW n \in Node, AddNode(c, n) PROVE RingInv'
    BY <2>1, <2>6, AddNodeStep
  <2>7. ASSUME NEW n \in Node, RemoveNode(c, n) PROVE RingInv'
    BY <2>1, <2>7, RemoveNodeStep
  <2>. QED BY <1>1, <2>2, <2>3, <2>4, <2>5, <2>6, <2>7 DEF Change
<1>2. ASSUME NEW r \in Reader, Look(r) PROVE RingInv'
  <2>1. CASE \E h \in HashValue : BeginLookup(r, h)
    BY <2>1, BeginLookupStep
  <2>. QED BY <1>2, <2>1, MeasureStep, ProbeStep, WrapStep, ReadNameStep, FaultStep, EndLookupStep DEF Look
<1>3. ASSUME UNCHANGED vars PROVE RingInv'
  <2>1. nodes' = nodes /\ ring' = ring /\ call' = call /\ lookup' = lookup
    BY <1>3 DEF vars
  <2>2. Members' = Members /\ Writers' = Writers /\ LenSeen' = LenSeen
    BY <2>1 DEF Members, Writers, LenSeen
  <2>3. Slices' /\ Calls'
    BY <2>1, <2>2 DEF RingInv, Slices, Calls
  <2>4. ASSUME NEW r \in Reader PROVE Quiet(lookup[r])' /\ Safe(lookup[r])'
    <3>1. Quiet(lookup[r]) /\ Safe(lookup[r])
      BY DEF RingInv, Lookups
    <3>2. Search(lookup[r])' <=> Search(lookup[r])
      BY <2>1 DEF Search, Slots, Answers
    <3>3. Quiet(lookup[r])'
      BY <2>1, <2>2, <3>1, <3>2 DEF Quiet
    <3>4. Safe(lookup[r])'
      BY <2>1, <2>2, <3>1 DEF Safe, Aware, InRange, Names
    <3>. QED BY <3>3, <3>4
  <2>5. Lookups'
    BY <2>1, <2>4 DEF RingInv, Lookups
  <2>. QED BY <2>3, <2>5 DEF RingInv
<1>. QED BY <1>1, <1>2, <1>3 DEF Next

\* The inductive invariant: the slice is sorted and holds the points of the
\* members as far as the call under way has come, that call works towards the
\* slice that sortInto or DeleteFunc returns, and every search has the bounds
\* that its past allows (consistent_hash_ring/index.go 34-95).
THEOREM RingInvariant ==
    ASSUME OneCaller
    PROVE  Spec => []RingInv
<1>1. Init => RingInv
  BY RingInit
<1>2. RingInv /\ [Next]_vars => RingInv'
  BY RingStep
<1>. QED BY <1>1, <1>2, PTL DEF Spec

\* The state of the ring, of its caller and of all lookups keeps its shape.
THEOREM RingTypeCorrect ==
    ASSUME OneCaller
    PROVE  Spec => []TypeOK
<1>1. RingInv => TypeOK
  BY DEF RingInv, Slices, Calls, Lookups, TypeOK, CallState, LookState
<1>. QED BY <1>1, RingInvariant, PTL

\* What is on the ring is what belongs there.
LEMMA SlotsAreExpected ==
    ASSUME OneCaller, RingInv
    PROVE  Slots(ring) = Expected
<1>1. \A p \in Point : p \in Slots(ring) <=> p \in Expected
  BY ExpectedIs DEF RingInv, Slices, Slots, In
<1>2. Slots(ring) \subseteq Point /\ Expected \subseteq Point
  BY DEF RingInv, Slices, Slots, Expected
<1>. QED BY <1>1, <1>2

\* The slice stays sorted, with one slot for each virtual node that belongs on
\* the ring, through every insertion of sortInto and every DeleteFunc, for any
\* number of nodes and virtual nodes and any hash function (index.go 57-61,
\* 82-95).
THEOREM RingStaysSorted ==
    ASSUME OneCaller
    PROVE  Spec => []RingSorted
<1>1. ASSUME RingInv PROVE RingSorted
  <2>1. Sorted(ring) /\ Once(ring)
    BY <1>1 DEF RingInv, Slices
  <2>2. {ring[i] : i \in 1 .. Len(ring)} = Expected
    BY <1>1, SlotsAreExpected DEF Slots
  <2>. QED BY <2>1, <2>2 DEF RingSorted, Sorted, Once
<1>. QED BY <1>1, RingInvariant, PTL

\* Binary search and wrap-around over the slice compute the placement rule
\* (index.go 67-80), also between two insertions of AddNode.
THEOREM LookupsFollowPlacement ==
    ASSUME OneCaller
    PROVE  Spec => []LookupFollowsPlacement
<1>1. ASSUME RingInv PROVE LookupFollowsPlacement
  <2>1. Slots(ring) = Expected /\ ring \in Seq(Point) /\ Sorted(ring)
    BY <1>1, SlotsAreExpected DEF RingInv, Slices
  <2>2. \A h \in HashValue : IF Expected = {} THEN NodeOfDirect(h) = NoNode
                             ELSE NodeOfDirect(h) \in Owners(Expected, h)
    BY <2>1, NodeOfDirectEffect
  <2>. QED BY <2>2 DEF LookupFollowsPlacement
<1>. QED BY <1>1, RingInvariant, PTL

\* Taken slot by slot, the binary search of NodeOfDirect arrives at an owner of
\* the hash and never out of range, if nothing is written meanwhile.
THEOREM QuietLookupsCorrect ==
    ASSUME OneCaller
    PROVE  Spec => []QuietLookupsAreRight
<1>1. ASSUME RingInv PROVE QuietLookupsAreRight
  <2>1. Slots(ring) = Expected /\ (ring = <<>> <=> Slots(ring) = {})
    <3>1. ring \in Seq(Point)
      BY <1>1 DEF RingInv, Slices
    <3>2. ring = <<>> <=> Slots(ring) = {}
      <4>1. Len(ring) \in Nat /\ (ring = <<>> <=> Len(ring) = 0)
        BY <3>1
      <4>2. ring # <<>> => ring[1] \in Slots(ring)
        BY <4>1 DEF Slots
      <4>3. ring = <<>> => Slots(ring) = {}
        BY <4>1 DEF Slots
      <4>. QED BY <4>2, <4>3
    <3>. QED BY <1>1, <3>2, SlotsAreExpected
  <2>2. ASSUME NEW r \in Reader, lookup[r].pc \in {"empty", "done", "panic"}, lookup[r].during = {}
        PROVE  IF Expected = {} THEN lookup[r].pc = "empty"
               ELSE lookup[r].pc = "done" /\ lookup[r].answer \in Owners(Expected, lookup[r].hash)
    <3>1. Search(lookup[r])
      BY <1>1, <2>2 DEF RingInv, Lookups, Quiet, Looking
    <3>. QED BY <2>1, <2>2, <3>1 DEF Search
  <2>. QED BY <2>2 DEF QuietLookupsAreRight
<1>. QED BY <1>1, RingInvariant, PTL

\* What an unlocked lookup answers beside a write: a name that had a slot
\* meanwhile, unless that write explains another answer, and out of range it
\* runs only beside a RemoveNode (index.go 59 and 87-93 against 68-79).
THEOREM StrayLookupsExplained ==
    ASSUME OneCaller
    PROVE  Spec => []StrayLookupsHaveACause
<1>1. RingInv => StrayLookupsHaveACause
  BY DEF RingInv, Lookups, Safe, InRange, Told, Looking, StrayLookupsHaveACause
<1>. QED BY <1>1, RingInvariant, PTL

\* Adding a node takes hashes from others to it, removing one gives its hashes
\* away, and no hash moves between two others (index.go 34-61), whatever the
\* numbers of nodes and virtual nodes and the hash function, collisions included.
THEOREM MovementIsMinimal ==
    ASSUME OneCaller
    PROVE  Spec => MinimalMovement
<1>1. ASSUME RingInv, [Next]_vars, ring' # ring, NEW h \in HashValue,
             NodeOfDirect(h)' # NodeOfDirect(h)
      PROVE  \E c \in Caller :
                \/ call[c].op = "add" /\ NodeOfDirect(h)' = call[c].name
                \/ call[c].op = "remove" /\ NodeOfDirect(h) = call[c].name
  <2>1. NodeOfDirect(h) = Answer(ring, h) /\ NodeOfDirect(h)' = Answer(ring', h)
    BY DEF NodeOfDirect, Answer
  <2>2. ring \in Seq(Point) /\ Sorted(ring) /\ Once(ring)
    BY <1>1 DEF RingInv, Slices
  <2>3. PICK c \in Caller : InsertVirtualNode(c) \/ RemoveVirtualNodes(c)
    BY <1>1 DEF Next, Change, Look, vars, ShiftSlots, GrowArray, DeleteSlots, Begin, AddNode,
                RemoveNode, Fault, BeginLookup, Measure, Probe,
                Wrap, ReadName, EndLookup, Panics, Proceeds
  <2>4. c = caller /\ call[c].stage # "none" /\ Under(call[c], Members, ring)
    BY <1>1, <2>3 DEF OneCaller, InsertVirtualNode, RemoveVirtualNodes, Writers, RingInv, Calls
  <2>5. CASE InsertVirtualNode(c)
    <3>. DEFINE point == <<call[c].name, call[c].next>>
    <3>1. call[c].op = "add" /\ ring' = sortInto(ring, point)
      BY <2>4, <2>5 DEF InsertVirtualNode, Under
    <3>2. point \in Point /\ ~ In(point, ring) /\ point[1] = call[c].name
      BY <1>1, <2>4, <3>1, CallingPoint
    <3>. HIDE DEF point
    <3>3. Answer(ring', h) = point[1] \/ Answer(ring', h) = Answer(ring, h)
      BY <2>2, <3>1, <3>2, InsertedAnswer
    <3>. QED BY <1>1, <2>1, <3>1, <3>2, <3>3
  <2>6. CASE RemoveVirtualNodes(c)
    <3>1. call[c].op = "remove" /\ ring' = DeletePointsOf(ring, call[c].name)
      BY <2>4, <2>6 DEF RemoveVirtualNodes, Under
    <3>2. ring # <<>>
      <4>. SUFFICES ASSUME ring = <<>> PROVE FALSE
        OBVIOUS
      <4>1. ring' \in Seq(Point) /\ \A p \in Point : In(p, ring') => In(p, ring)
        BY <2>2, <3>1, DeletePointsOfEffect
      <4>2. \A p : ~ In(p, ring)
        BY DEF In
      <4>3. Len(ring') \in Nat /\ (Len(ring') # 0 => ring'[1] \in Point /\ In(ring'[1], ring'))
        BY <4>1 DEF In
      <4>4. Len(ring') = 0
        BY <4>1, <4>2, <4>3
      <4>. QED BY <1>1, <4>1, <4>4
    <3>3. Answer(ring, h) = call[c].name \/ Answer(ring', h) = Answer(ring, h)
      BY <2>2, <3>1, <3>2, DeletedAnswer
    <3>. QED BY <1>1, <2>1, <3>1, <3>3
  <2>. QED BY <2>3, <2>5, <2>6
<1>2. RingInv /\ [Next]_vars =>
        [ring' # ring =>
            \A h \in HashValue :
                NodeOfDirect(h)' # NodeOfDirect(h) =>
                    \E c \in Caller :
                        \/ call[c].op = "add" /\ NodeOfDirect(h)' = call[c].name
                        \/ call[c].op = "remove" /\ NodeOfDirect(h) = call[c].name]_vars
  BY <1>1
<1>. QED BY <1>2, RingInvariant, PTL DEF Spec, MinimalMovement

=============================================================================
