----------------------------- MODULE KeyQueues -----------------------------
(***************************************************************************)
(* Facts about queues in which every key has one place, the insertion      *)
(* order of storage/fifo.go and the list of storage/lru.go, about the sum  *)
(* of the lengths of what they name, and about the entries that such a     *)
(* queue and a map list together, which is what EvictingCache speaks of.   *)
(***************************************************************************)
EXTENDS Integers, Sequences, SequencesExt, FiniteSetsExt, SequenceTheorems,
        FiniteSetTheorems, WellFoundedInduction, TLAPS

In(k, queue) == \E i \in 1 .. Len(queue) : queue[i] = k
Once(queue) == \A i, j \in 1 .. Len(queue) : queue[i] = queue[j] => i = j

\* Appending a key that is not there.
LEMMA AppendOnce ==
    ASSUME NEW S, NEW q \in Seq(S), Once(q), NEW k \in S, ~ In(k, q)
    PROVE  /\ Append(q, k) \in Seq(S) /\ Once(Append(q, k))
           /\ \A l \in S : In(l, Append(q, k)) <=> In(l, q) \/ l = k
<1>. DEFINE a == Append(q, k)
<1>1. a \in Seq(S) /\ Len(a) = Len(q) + 1 /\ Len(q) \in Nat
  OBVIOUS
<1>2. a[Len(q) + 1] = k /\ \A i \in 1 .. Len(q) : a[i] = q[i]
  OBVIOUS
<1>. HIDE DEF a
<1>3. Once(a)
  BY <1>1, <1>2 DEF Once, In
<1>4. ASSUME NEW l \in S PROVE In(l, a) <=> In(l, q) \/ l = k
  BY <1>1, <1>2 DEF In
<1>. QED BY <1>1, <1>3, <1>4 DEF a

\* What is left when place i has been removed.
LEMMA RemoveAtPlaces ==
    ASSUME NEW S, NEW q \in Seq(S), NEW i \in 1 .. Len(q)
    PROVE  /\ RemoveAt(q, i) \in Seq(S) /\ Len(RemoveAt(q, i)) = Len(q) - 1
           /\ \A j \in 1 .. Len(q) - 1 : RemoveAt(q, i)[j] = q[IF j < i THEN j ELSE j + 1]
<1>. DEFINE a == SubSeq(q, 1, i - 1)
            b == SubSeq(q, i + 1, Len(q))
            c == RemoveAt(q, i)
<1>1. Len(q) \in Nat /\ i \in Nat /\ i >= 1 /\ i <= Len(q)
  OBVIOUS
<1>2. a \in Seq(S) /\ Len(a) = i - 1 /\ \A j \in 1 .. i - 1 : a[j] = q[j]
  BY <1>1
<1>3. b \in Seq(S) /\ Len(b) = Len(q) - i /\ \A j \in 1 .. Len(q) - i : b[j] = q[i + j]
  BY <1>1
<1>4. c = a \o b
  BY DEF RemoveAt
<1>. HIDE DEF a, b, c
<1>5. c \in Seq(S) /\ Len(c) = Len(a) + Len(b)
  BY <1>2, <1>3, <1>4, ConcatProperties
<1>6. \A j \in 1 .. Len(c) : c[j] = IF j <= Len(a) THEN a[j] ELSE b[j - Len(a)]
  BY <1>2, <1>3, <1>4, <1>5, ConcatProperties
<1>7. Len(c) = Len(q) - 1
  BY <1>1, <1>2, <1>3, <1>5
<1>8. \A j \in 1 .. Len(q) - 1 : c[j] = q[IF j < i THEN j ELSE j + 1]
  BY <1>1, <1>2, <1>3, <1>6, <1>7
<1>. QED BY <1>5, <1>7, <1>8 DEF c

\* Removing the key at place i.
LEMMA RemoveAtOnce ==
    ASSUME NEW S, NEW q \in Seq(S), Once(q), NEW i \in 1 .. Len(q)
    PROVE  /\ RemoveAt(q, i) \in Seq(S) /\ Once(RemoveAt(q, i))
           /\ \A l \in S : In(l, RemoveAt(q, i)) <=> In(l, q) /\ l # q[i]
<1>. DEFINE c == RemoveAt(q, i)
<1>1. Len(q) \in Nat /\ i \in Nat /\ i >= 1 /\ i <= Len(q)
  OBVIOUS
<1>2. c \in Seq(S) /\ Len(c) = Len(q) - 1
      /\ \A j \in 1 .. Len(q) - 1 : c[j] = q[IF j < i THEN j ELSE j + 1]
  BY RemoveAtPlaces
<1>. HIDE DEF c
<1>3. ASSUME NEW j \in 1 .. Len(c), NEW m \in 1 .. Len(c), c[j] = c[m] PROVE j = m
  <2>. DEFINE x == IF j < i THEN j ELSE j + 1
              y == IF m < i THEN m ELSE m + 1
  <2>1. x \in 1 .. Len(q) /\ y \in 1 .. Len(q) /\ (x = y => j = m)
    BY <1>1, <1>2
  <2>2. c[j] = q[x] /\ c[m] = q[y]
    BY <1>1, <1>2
  <2>. HIDE DEF x, y
  <2>. QED BY <1>3, <2>1, <2>2 DEF Once
<1>4. ASSUME NEW l \in S PROVE In(l, c) <=> In(l, q) /\ l # q[i]
  <2>1. ASSUME In(l, c) PROVE In(l, q) /\ l # q[i]
    BY <1>1, <1>2, <2>1 DEF In, Once
  <2>2. ASSUME NEW m \in 1 .. Len(q), q[m] = l, l # q[i] PROVE In(l, c)
    <3>1. CASE m < i
      BY <1>1, <1>2, <2>2, <3>1 DEF In
    <3>2. CASE m > i
      <4>1. m - 1 \in 1 .. Len(q) - 1 /\ c[m - 1] = l
        BY <1>1, <1>2, <2>2, <3>2
      <4>. QED BY <1>2, <4>1 DEF In
    <3>. QED BY <2>2, <3>1, <3>2, <1>1
  <2>. QED BY <2>1, <2>2 DEF In
<1>. QED BY <1>2, <1>3, <1>4 DEF c, Once

\* Where a key is removed.
LEMMA RemoveFirstAt ==
    ASSUME NEW q, Once(q), NEW i \in 1 .. Len(q)
    PROVE  RemoveFirst(q, q[i]) = RemoveAt(q, i)
<1>1. {j \in 1 .. Len(q) : q[j] = q[i]} = {i}
  BY DEF Once
<1>2. SelectInSeq(q, LAMBDA v : v = q[i]) = i
  BY <1>1 DEF SelectInSeq, Min
<1>. QED BY <1>2 DEF RemoveFirst

\* Removing a key that is there.
LEMMA RemoveFirstOnce ==
    ASSUME NEW S, NEW q \in Seq(S), Once(q), NEW k \in S, In(k, q)
    PROVE  /\ RemoveFirst(q, k) \in Seq(S) /\ Once(RemoveFirst(q, k))
           /\ \A l \in S : In(l, RemoveFirst(q, k)) <=> In(l, q) /\ l # k
<1>1. PICK i \in 1 .. Len(q) : q[i] = k
  BY DEF In
<1>2. RemoveFirst(q, k) = RemoveAt(q, i)
  BY <1>1, RemoveFirstAt
<1>. QED BY <1>1, <1>2, RemoveAtOnce

\* Removing the key in front.
LEMMA TailOnce ==
    ASSUME NEW S, NEW q \in Seq(S), Once(q), q # <<>>
    PROVE  /\ Head(q) \in S /\ In(Head(q), q)
           /\ Tail(q) \in Seq(S) /\ Once(Tail(q))
           /\ \A l \in S : In(l, Tail(q)) <=> In(l, q) /\ l # Head(q)
<1>. DEFINE c == Tail(q)
<1>1. Len(q) \in Nat /\ Len(q) >= 1 /\ Head(q) = q[1] /\ q[1] \in S
  OBVIOUS
<1>2. c \in Seq(S) /\ Len(c) = Len(q) - 1 /\ \A j \in 1 .. Len(q) - 1 : c[j] = q[j + 1]
  BY <1>1
<1>. HIDE DEF c
<1>3. Once(c)
  BY <1>1, <1>2 DEF Once
<1>4. ASSUME NEW l \in S PROVE In(l, c) <=> In(l, q) /\ l # q[1]
  <2>1. ASSUME In(l, c) PROVE In(l, q) /\ l # q[1]
    BY <1>1, <1>2, <2>1 DEF In, Once
  <2>2. ASSUME NEW m \in 1 .. Len(q), q[m] = l, l # q[1] PROVE In(l, c)
    <3>1. m - 1 \in 1 .. Len(q) - 1 /\ c[m - 1] = l
      BY <1>1, <1>2, <2>2
    <3>. QED BY <1>2, <3>1 DEF In
  <2>. QED BY <2>1, <2>2 DEF In
<1>. QED BY <1>1, <1>2, <1>3, <1>4 DEF c, In

\* What is left when the back has been removed.
LEMMA FrontPlaces ==
    ASSUME NEW S, NEW q \in Seq(S), q # <<>>
    PROVE  /\ Front(q) \in Seq(S) /\ Len(Front(q)) = Len(q) - 1
           /\ \A j \in 1 .. Len(q) - 1 : Front(q)[j] = q[j]
<1>. DEFINE c == Front(q)
            n == Len(q)
            m == n - 1
<1>1. n \in Nat /\ n >= 1
  OBVIOUS
<1>2. c = SubSeq(q, 1, m)
  BY DEF Front
<1>3. \A i \in 1 .. m : q[i] \in S
  BY <1>1
<1>. HIDE DEF c, n
<1>4. 1 \in Int /\ m \in Nat
  BY <1>1
<1>. HIDE DEF m
<1>5. c \in Seq(S) /\ Len(c) = (IF 1 <= m THEN m - 1 + 1 ELSE 0)
      /\ \A j \in 1 .. m - 1 + 1 : c[j] = q[1 + j - 1]
  BY <1>2, <1>3, <1>4, SubSeqProperties
<1>6. (IF 1 <= m THEN m - 1 + 1 ELSE 0) = m /\ m - 1 + 1 = m
  BY <1>4
<1>7. Len(c) = m
  BY <1>5, <1>6
<1>8. ASSUME NEW j \in 1 .. m PROVE c[j] = q[j]
  <2>1. 1 + j - 1 = j
    BY <1>4
  <2>. QED BY <1>5, <1>6, <2>1
<1>. QED BY <1>5, <1>7, <1>8 DEF c, m, n

\* Removing the key at the back.
LEMMA FrontOnce ==
    ASSUME NEW S, NEW q \in Seq(S), Once(q), q # <<>>
    PROVE  /\ Last(q) \in S /\ In(Last(q), q)
           /\ Front(q) \in Seq(S) /\ Once(Front(q))
           /\ \A l \in S : In(l, Front(q)) <=> In(l, q) /\ l # Last(q)
<1>1. Len(q) \in Nat /\ Len(q) >= 1
  OBVIOUS
<1>. DEFINE c == Front(q)
<1>2. c \in Seq(S) /\ Len(c) = Len(q) - 1 /\ \A j \in 1 .. Len(q) - 1 : c[j] = q[j]
  BY FrontPlaces
<1>3. Last(q) = q[Len(q)] /\ q[Len(q)] \in S
  BY <1>1 DEF Last
<1>. HIDE DEF c
<1>4. Once(c)
  BY <1>1, <1>2 DEF Once
<1>5. ASSUME NEW l \in S PROVE In(l, c) <=> In(l, q) /\ l # q[Len(q)]
  BY <1>1, <1>2 DEF In, Once
<1>. QED BY <1>1, <1>2, <1>3, <1>4, <1>5 DEF c, In

\* Putting a key that is not there to the front.
LEMMA PushFrontOnce ==
    ASSUME NEW S, NEW q \in Seq(S), Once(q), NEW k \in S, ~ In(k, q)
    PROVE  /\ <<k>> \o q \in Seq(S) /\ Once(<<k>> \o q)
           /\ \A l \in S : In(l, <<k>> \o q) <=> In(l, q) \/ l = k
<1>. DEFINE f == <<k>>
            c == f \o q
<1>1. Len(q) \in Nat /\ f \in Seq(S) /\ Len(f) = 1 /\ f[1] = k
  OBVIOUS
<1>. HIDE DEF f
<1>2. c \in Seq(S) /\ Len(c) = Len(f) + Len(q)
  BY <1>1, ConcatProperties
<1>3. \A i \in 1 .. Len(c) : c[i] = IF i <= Len(f) THEN f[i] ELSE q[i - Len(f)]
  BY <1>1, <1>2, ConcatProperties
<1>. HIDE DEF c
<1>4. Len(c) = Len(q) + 1 /\ c[1] = k
  BY <1>1, <1>2, <1>3
<1>5. \A i \in 1 .. Len(q) : i + 1 \in 1 .. Len(c) /\ c[i + 1] = q[i]
  BY <1>1, <1>3, <1>4
<1>6. \A i \in 1 .. Len(c) : i = 1 \/ (i - 1 \in 1 .. Len(q) /\ c[i] = q[i - 1])
  BY <1>1, <1>3, <1>4
<1>7. \A i \in 1 .. Len(c) : i # 1 => c[i] # k
  BY <1>6 DEF In
<1>8. ASSUME NEW i \in 1 .. Len(c), NEW j \in 1 .. Len(c), c[i] = c[j] PROVE i = j
  <2>1. CASE i = 1 \/ j = 1
    BY <1>4, <1>7, <1>8, <2>1
  <2>2. CASE i # 1 /\ j # 1
    <3>1. i - 1 = j - 1
      BY <1>6, <1>8, <2>2 DEF Once
    <3>. QED BY <1>4, <1>1, <3>1
  <2>. QED BY <2>1, <2>2
<1>9. ASSUME NEW l \in S PROVE In(l, c) <=> In(l, q) \/ l = k
  <2>1. ASSUME In(l, c) PROVE In(l, q) \/ l = k
    BY <1>4, <1>6, <2>1 DEF In
  <2>2. ASSUME In(l, q) PROVE In(l, c)
    BY <1>5, <2>2 DEF In
  <2>3. In(k, c)
    BY <1>1, <1>4 DEF In
  <2>. QED BY <2>1, <2>2, <2>3
<1>. QED BY <1>2, <1>8, <1>9 DEF c, f, Once

\* Looking at a queue from its other end.
LEMMA ReverseIn ==
    ASSUME NEW S, NEW q \in Seq(S)
    PROVE  /\ Reverse(q) \in Seq(S) /\ Len(Reverse(q)) = Len(q)
           /\ \A i \in 1 .. Len(q) : Reverse(q)[i] \in S /\ In(Reverse(q)[i], q)
<1>1. Len(q) \in Nat
  OBVIOUS
<1>2. Reverse(q) \in [1 .. Len(q) -> S]
  BY <1>1 DEF Reverse
<1>3. Reverse(q) \in Seq(S)
  <2>. DEFINE n == Len(q)
              r == Reverse(q)
  <2>1. n \in Nat /\ r \in [1 .. n -> S]
    BY <1>1, <1>2
  <2>. HIDE DEF n, r
  <2>2. r \in Seq(S)
    BY <2>1, SeqDef
  <2>. QED BY <2>2 DEF r
<1>4. Len(Reverse(q)) = Len(q)
  BY <1>1, <1>2, <1>3
<1>5. ASSUME NEW i \in 1 .. Len(q) PROVE Reverse(q)[i] \in S /\ In(Reverse(q)[i], q)
  <2>1. Len(q) - i + 1 \in 1 .. Len(q) /\ Reverse(q)[i] = q[Len(q) - i + 1]
    BY <1>1 DEF Reverse
  <2>. QED BY <1>2, <2>1 DEF In
<1>. QED BY <1>3, <1>4, <1>5

-----------------------------------------------------------------------------
(* Sums over finite sets.                                                   *)

\* A non-empty set of natural numbers has a least element.
LEMMA LeastNumber ==
    ASSUME NEW T \in SUBSET Nat, T # {}
    PROVE  \E x \in T : \A y \in T : x <= y
<1>. DEFINE R == OpToRel(<, Nat)
<1>1. IsWellFoundedOn(R, Nat)
  BY NatLessThanWellFounded
<1>2. \A x, y \in Nat : x < y => <<x, y>> \in R
  BY DEF OpToRel
<1>. HIDE DEF R
<1>3. PICK x \in T : \A y \in T : ~ (<<y, x>> \in R)
  BY <1>1, WFMin
<1>4. ASSUME NEW y \in T PROVE x <= y
  <2>1. x \in Nat /\ y \in Nat /\ ~ y < x
    BY <1>2, <1>3
  <2>. QED BY <2>1
<1>. QED BY <1>4

\* Of the subsets of a finite set that are in F, one is smallest: without any
\* of its elements it is not in F.
LEMMA SmallestSubset ==
    ASSUME NEW S, IsFiniteSet(S), NEW F \in SUBSET SUBSET S, F # {}
    PROVE  \E T \in F : \A x \in T : T \ {x} \notin F
<1>. DEFINE N == {Cardinality(T) : T \in F}
<1>1. \A T \in SUBSET S : IsFiniteSet(T) /\ Cardinality(T) \in Nat
  BY FS_Subset, FS_CardinalityType
<1>2. N \in SUBSET Nat /\ N # {}
  BY <1>1
<1>3. PICK n \in N : \A m \in N : n <= m
  BY <1>2, LeastNumber
<1>4. PICK T \in F : n = Cardinality(T)
  BY <1>3
<1>5. ASSUME NEW x \in T, T \ {x} \in F PROVE FALSE
  <2>1. Cardinality(T \ {x}) = n - 1
    BY <1>1, <1>4, FS_RemoveElement
  <2>2. n <= Cardinality(T \ {x})
    BY <1>3, <1>5
  <2>. QED BY <1>2, <2>1, <2>2
<1>. QED BY <1>5

\* f gives the sum of W over each subset of S.
Sums(f, W, S) ==
    /\ f \in [SUBSET S -> Int]
    /\ f[{}] = 0
    /\ \A T \in SUBSET S : \A x \in T : f[T] = W[x] + f[T \ {x}]

LEMMA SumsExist ==
    ASSUME NEW S, IsFiniteSet(S), NEW W, \A x \in S : W[x] \in Int
    PROVE  \E f : Sums(f, W, S)
<1>. DEFINE F == {T \in SUBSET S : ~ \E f : Sums(f, W, T)}
<1>1. SUFFICES ASSUME F # {} PROVE FALSE
  OBVIOUS
<1>2. PICK T \in F : \A x \in T : T \ {x} \notin F
  BY <1>1, SmallestSubset
<1>3. CASE T = {}
  <2>. DEFINE f == [s \in SUBSET T |-> 0]
  <2>1. Sums(f, W, T)
    BY <1>3 DEF Sums
  <2>. QED BY <1>2, <2>1
<1>4. ASSUME NEW y \in T PROVE FALSE
  <2>. DEFINE U == T \ {y}
  <2>1. PICK g : Sums(g, W, U)
    BY <1>2, <1>4
  <2>. DEFINE f == [s \in SUBSET T |-> IF y \in s THEN W[y] + g[s \ {y}] ELSE g[s]]
  <2>2. \A s \in SUBSET U : g[s] \in Int
    BY <2>1 DEF Sums
  <2>3. f \in [SUBSET T -> Int]
    BY <1>2, <2>2
  <2>4. f[{}] = 0
    BY <2>1 DEF Sums
  <2>5. ASSUME NEW s \in SUBSET T, NEW x \in s PROVE f[s] = W[x] + f[s \ {x}]
    <3>0. W[x] \in Int /\ W[y] \in Int
      BY <1>2, <2>5
    <3>1. CASE y \notin s
      <4>1. s \in SUBSET U /\ s \ {x} \in SUBSET T /\ y \notin s \ {x}
        BY <3>1
      <4>. QED BY <2>1, <3>1, <4>1 DEF Sums
    <3>2. CASE x = y
      <4>1. s \ {y} \in SUBSET T /\ y \notin s \ {y}
        OBVIOUS
      <4>. QED BY <3>2, <4>1
    <3>3. CASE x # y /\ y \in s
      <4>1. s \ {x} \in SUBSET T /\ y \in s \ {x} /\ s \ {y} \in SUBSET U /\ x \in s \ {y}
        BY <3>3
      <4>2. (s \ {x}) \ {y} = (s \ {y}) \ {x} /\ (s \ {y}) \ {x} \in SUBSET U
        BY <4>1
      <4>3. f[s] = W[y] + g[s \ {y}] /\ f[s \ {x}] = W[y] + g[(s \ {y}) \ {x}]
        BY <3>3, <4>1, <4>2
      <4>4. g[s \ {y}] = W[x] + g[(s \ {y}) \ {x}]
        BY <2>1, <4>1 DEF Sums
      <4>5. g[(s \ {y}) \ {x}] \in Int
        BY <2>2, <4>2
      <4>. HIDE DEF f
      <4>. QED BY <3>0, <4>3, <4>4, <4>5
    <3>. QED BY <3>1, <3>2, <3>3
  <2>. HIDE DEF f
  <2>6. Sums(f, W, T)
    BY <2>3, <2>4, <2>5 DEF Sums
  <2>. QED BY <1>2, <2>6
<1>. QED BY <1>3, <1>4

\* c names an element of every non-empty subset of S, and g takes it off.
Picks(c, S) == \A T \in SUBSET S : T # {} => c[T] \in T
TakeOff(g, W, c, S) == [T \in SUBSET S |-> IF T = {} THEN 0 ELSE W[c[T]] + g[T \ {c[T]}]]

\* Whatever it takes off first, it comes to the same sums.
LEMMA SumsUnique ==
    ASSUME NEW S, IsFiniteSet(S), NEW W, NEW f, Sums(f, W, S),
           NEW g, NEW c, Picks(c, S), g = TakeOff(g, W, c, S)
    PROVE  g[S] = f[S]
<1>. DEFINE F == {T \in SUBSET S : g[T] # f[T]}
<1>1. SUFFICES ASSUME F # {} PROVE FALSE
  <2>. S \in SUBSET S
    OBVIOUS
  <2>. QED OBVIOUS
<1>2. PICK T \in F : \A x \in T : T \ {x} \notin F
  BY <1>1, SmallestSubset
<1>3. \A U \in SUBSET S : g[U] = IF U = {} THEN 0 ELSE W[c[U]] + g[U \ {c[U]}]
  <2>. DEFINE h == TakeOff(g, W, c, S)
  <2>1. \A U \in SUBSET S : h[U] = IF U = {} THEN 0 ELSE W[c[U]] + g[U \ {c[U]}]
    BY DEF TakeOff
  <2>2. g = h
    OBVIOUS
  <2>. HIDE DEF h
  <2>. QED BY <2>1, <2>2
<1>4. T # {}
  BY <1>2, <1>3 DEF Sums
<1>5. c[T] \in T
  BY <1>2, <1>4 DEF Picks
<1>6. T \ {c[T]} \in SUBSET S /\ T \ {c[T]} \notin F
  BY <1>2, <1>5
<1>7. g[T] = W[c[T]] + g[T \ {c[T]}]
  BY <1>2, <1>3, <1>4
<1>8. f[T] = W[c[T]] + f[T \ {c[T]}]
  BY <1>2, <1>5 DEF Sums
<1>. QED BY <1>2, <1>6, <1>7, <1>8

LEMMA SumsTakeOff ==
    ASSUME NEW S, NEW W, NEW f, Sums(f, W, S), NEW c, Picks(c, S)
    PROVE  f = TakeOff(f, W, c, S)
<1>1. f = [T \in SUBSET S |-> f[T]]
  BY DEF Sums
<1>2. \A T \in SUBSET S : f[T] = IF T = {} THEN 0 ELSE W[c[T]] + f[T \ {c[T]}]
  BY DEF Sums, Picks
<1>. QED BY <1>1, <1>2 DEF TakeOff

\* The sum of W over S.
Total(W, S) == (CHOOSE f : Sums(f, W, S))[S]

LEMMA TotalIs ==
    ASSUME NEW S, IsFiniteSet(S), NEW W, NEW f, Sums(f, W, S)
    PROVE  Total(W, S) = f[S] /\ f[S] \in Int
<1>. DEFINE h == CHOOSE e : Sums(e, W, S)
            c == [T \in SUBSET S |-> CHOOSE x \in T : TRUE]
<1>1. Sums(h, W, S)
  OBVIOUS
<1>2. Picks(c, S)
  BY DEF Picks
<1>. HIDE DEF h, c
<1>3. h = TakeOff(h, W, c, S)
  BY <1>1, <1>2, SumsTakeOff
<1>4. h[S] = f[S]
  BY <1>2, <1>3, SumsUnique
<1>5. f[S] \in Int
  BY DEF Sums
<1>. QED BY <1>4, <1>5 DEF Total, h

\* What a function comes to that takes off one element at a time, and that there is one.
LEMMA FoldIsTotal ==
    ASSUME NEW S, IsFiniteSet(S), NEW W, \A x \in S : W[x] \in Int, NEW c, Picks(c, S)
    PROVE  /\ \A g : g = TakeOff(g, W, c, S) => g[S] = Total(W, S)
           /\ \E g : g = TakeOff(g, W, c, S)
<1>1. PICK f : Sums(f, W, S)
  BY SumsExist
<1>2. f = TakeOff(f, W, c, S)
  BY <1>1, SumsTakeOff
<1>3. ASSUME NEW g, g = TakeOff(g, W, c, S) PROVE g[S] = Total(W, S)
  <2>1. g[S] = f[S]
    BY <1>1, <1>3, SumsUnique
  <2>. QED BY <1>1, <2>1, TotalIs
<1>. QED BY <1>2, <1>3

LEMMA TotalEmpty == ASSUME NEW W PROVE Total(W, {}) = 0
<1>. DEFINE f == [T \in SUBSET {} |-> 0]
<1>1. Sums(f, W, {})
  BY DEF Sums
<1>2. f[{}] = 0
  OBVIOUS
<1>. HIDE DEF f
<1>. QED BY <1>1, <1>2, TotalIs, FS_EmptySet

LEMMA TotalType ==
    ASSUME NEW S, IsFiniteSet(S), NEW W, \A x \in S : W[x] \in Int
    PROVE  Total(W, S) \in Int
  BY SumsExist, TotalIs

LEMMA TotalWithout ==
    ASSUME NEW S, IsFiniteSet(S), NEW W, \A x \in S : W[x] \in Int, NEW x \in S
    PROVE  Total(W, S \ {x}) = Total(W, S) - W[x]
<1>1. PICK f : Sums(f, W, S)
  BY SumsExist
<1>. DEFINE U == S \ {x}
            g == [T \in SUBSET U |-> f[T]]
<1>2. \A T \in SUBSET U : T \in SUBSET S
  OBVIOUS
<1>3. Sums(g, W, U)
  <2>1. g \in [SUBSET U -> Int]
    BY <1>1, <1>2 DEF Sums
  <2>2. g[{}] = 0
    BY <1>1 DEF Sums
  <2>3. ASSUME NEW T \in SUBSET U, NEW y \in T PROVE g[T] = W[y] + g[T \ {y}]
    <3>1. g[T] = f[T] /\ g[T \ {y}] = f[T \ {y}] /\ T \in SUBSET S
      OBVIOUS
    <3>. QED BY <1>1, <3>1 DEF Sums
  <2>. HIDE DEF g
  <2>. QED BY <2>1, <2>2, <2>3 DEF Sums
<1>4. g[U] = f[U]
  OBVIOUS
<1>5. IsFiniteSet(U) /\ U \in SUBSET S
  BY FS_RemoveElement
<1>. HIDE DEF g
<1>6. Total(W, U) = f[U] /\ Total(W, S) = f[S]
  BY <1>1, <1>3, <1>4, <1>5, TotalIs
<1>7. f[S] = W[x] + f[U] /\ f[S] \in Int /\ f[U] \in Int
  BY <1>1, <1>5 DEF Sums
<1>. QED BY <1>6, <1>7

LEMMA TotalWith ==
    ASSUME NEW S, IsFiniteSet(S), NEW W, NEW x, x \notin S,
           \A y \in S \cup {x} : W[y] \in Int
    PROVE  Total(W, S \cup {x}) = Total(W, S) + W[x]
<1>. DEFINE U == S \cup {x}
<1>1. IsFiniteSet(U) /\ x \in U /\ U \ {x} = S
  BY FS_AddElement
<1>2. Total(W, U) \in Int /\ W[x] \in Int
  BY <1>1, TotalType
<1>. HIDE DEF U
<1>3. Total(W, U \ {x}) = Total(W, U) - W[x]
  <2>. \A y \in U : W[y] \in Int
    BY DEF U
  <2>. QED BY <1>1, TotalWithout
<1>. QED BY <1>1, <1>2, <1>3 DEF U

\* Only what W says of S counts.
LEMMA TotalSame ==
    ASSUME NEW S, IsFiniteSet(S), NEW W, NEW V, \A x \in S : W[x] \in Int /\ V[x] = W[x]
    PROVE  Total(V, S) = Total(W, S)
<1>1. PICK f : Sums(f, W, S)
  BY SumsExist
<1>2. Sums(f, V, S)
  BY <1>1 DEF Sums
<1>. QED BY <1>1, <1>2, TotalIs

\* Counting by another name: b numbers the elements of S.
LEMMA TotalByNumber ==
    ASSUME NEW S, IsFiniteSet(S), NEW I, IsFiniteSet(I), NEW b,
           \A i \in I : b[i] \in S, \A i, j \in I : b[i] = b[j] => i = j,
           \A x \in S : \E i \in I : b[i] = x,
           NEW W, \A x \in S : W[x] \in Int, NEW V, \A i \in I : V[i] = W[b[i]]
    PROVE  Total(V, I) = Total(W, S)
<1>1. PICK f : Sums(f, W, S)
  BY SumsExist
<1>. DEFINE Image(T) == {b[i] : i \in T}
            g == [T \in SUBSET I |-> f[Image(T)]]
<1>2. \A T \in SUBSET I : Image(T) \in SUBSET S
  OBVIOUS
<1>3. Sums(g, V, I)
  <2>1. g \in [SUBSET I -> Int]
    BY <1>1, <1>2 DEF Sums
  <2>2. g[{}] = 0
    <3>1. Image({}) = {}
      OBVIOUS
    <3>. QED BY <1>1, <3>1 DEF Sums
  <2>3. ASSUME NEW T \in SUBSET I, NEW i \in T PROVE g[T] = V[i] + g[T \ {i}]
    <3>1. b[i] \in Image(T) /\ Image(T \ {i}) = Image(T) \ {b[i]}
      OBVIOUS
    <3>2. g[T] = f[Image(T)] /\ g[T \ {i}] = f[Image(T \ {i})] /\ V[i] = W[b[i]]
      OBVIOUS
    <3>3. Image(T) \in SUBSET S
      BY <1>2
    <3>. HIDE DEF Image, g
    <3>4. f[Image(T)] = W[b[i]] + f[Image(T) \ {b[i]}]
      BY <1>1, <3>1, <3>3 DEF Sums
    <3>. QED BY <3>1, <3>2, <3>4
  <2>. HIDE DEF g
  <2>. QED BY <2>1, <2>2, <2>3 DEF Sums
<1>4. g[I] = f[S]
  <2>1. Image(I) = S
    OBVIOUS
  <2>. QED BY <2>1
<1>. HIDE DEF g
<1>. QED BY <1>1, <1>3, <1>4, TotalIs

-----------------------------------------------------------------------------
(* The folds that the storages are stated with.                             *)

\* The length of the values of the keys in S.
LengthOfKeys(size, value, S) == MapThenSumSet(LAMBDA k : size[value[k]], S)

LEMMA LengthOfKeysIsTotal ==
    ASSUME NEW S, IsFiniteSet(S), NEW size, NEW value,
           NEW W, \A k \in S : W[k] \in Int /\ W[k] = size[value[k]]
    PROVE  LengthOfKeys(size, value, S) = Total(W, S)
<1>. DEFINE c == [T \in SUBSET S |-> CHOOSE x \in T : TRUE]
            pick(T) == CHOOSE x \in T : TRUE
            Body(g) == [T \in SUBSET S |-> IF T = {} THEN 0
                           ELSE size[value[pick(T)]] + g[T \ {pick(T)}]]
            h == CHOOSE h : h = Body(h)
<1>1. LengthOfKeys(size, value, S) = h[S]
  BY DEF LengthOfKeys, MapThenSumSet, MapThenFoldSet
<1>2. Picks(c, S)
  BY DEF Picks
<1>3. \A x \in S : W[x] \in Int
  OBVIOUS
<1>4. \A T \in SUBSET S : T # {} =>
            c[T] = pick(T) /\ W[c[T]] = size[value[pick(T)]]
  OBVIOUS
<1>. HIDE DEF c, pick
<1>5. ASSUME NEW g PROVE Body(g) = TakeOff(g, W, c, S)
  BY <1>4 DEF TakeOff
<1>. HIDE DEF Body
<1>6. PICK g : g = TakeOff(g, W, c, S)
  BY <1>2, <1>3, FoldIsTotal
<1>7. g = Body(g)
  BY <1>5, <1>6
<1>8. h = Body(h)
  BY <1>7
<1>. HIDE DEF h
<1>9. h = TakeOff(h, W, c, S)
  BY <1>5, <1>8
<1>10. h[S] = Total(W, S)
  BY <1>2, <1>3, <1>9, FoldIsTotal
<1>. QED BY <1>1, <1>10

\* The largest of some places in a queue.
LEMMA MaxPlace ==
    ASSUME NEW n \in Nat, NEW T \in SUBSET (1 .. n), T # {}
    PROVE  Max(T) \in T
<1>. DEFINE D == {n - i : i \in T}
<1>1. D \in SUBSET Nat /\ D # {}
  <2>1. \A i \in T : i \in Nat /\ i <= n
    OBVIOUS
  <2>2. \A i \in T : n - i \in Nat
    BY <2>1
  <2>. QED BY <2>2
<1>2. PICK d \in D : \A e \in D : d <= e
  BY <1>1, LeastNumber
<1>3. PICK i \in T : d = n - i
  BY <1>2
<1>4. \A j \in T : i >= j
  <2>. SUFFICES ASSUME NEW j \in T PROVE i >= j
    OBVIOUS
  <2>1. n - j \in D /\ i \in Nat /\ j \in Nat
    OBVIOUS
  <2>. QED BY <1>2, <1>3, <2>1
<1>. QED BY <1>4 DEF Max

\* The length of the values in a queue of entries.
LengthOfEntries(size, q) == FoldLeft(LAMBDA w, e : w + size[e.val], 0, q)

LEMMA LengthOfEntriesIsTotal ==
    ASSUME NEW S, NEW q \in Seq(S), NEW size,
           NEW W, \A i \in 1 .. Len(q) : W[i] \in Int /\ W[i] = size[q[i].val]
    PROVE  LengthOfEntries(size, q) = Total(W, 1 .. Len(q))
<1>. DEFINE I == 1 .. Len(q)
            pick(T) == Max(T)
            Body(g) == [T \in SUBSET I |-> IF T = {} THEN 0
                           ELSE g[T \ {pick(T)}] + size[q[pick(T)].val]]
            h == CHOOSE h : h = Body(h)
<1>1. Len(q) \in Nat /\ IsFiniteSet(I)
  <2>1. Len(q) \in Nat
    OBVIOUS
  <2>2. IsFiniteSet(1 .. Len(q))
    BY <2>1, FS_Interval
  <2>. QED BY <2>1, <2>2
<1>2. LengthOfEntries(size, q) = h[I]
  <2>1. DOMAIN q = I
    OBVIOUS
  <2>. QED BY <2>1 DEF LengthOfEntries, FoldLeft, MapThenFoldSet
<1>3. \A T \in SUBSET I : T # {} => pick(T) \in T
  BY <1>1, MaxPlace
<1>4. \A i \in I : W[i] = size[q[i].val] /\ W[i] \in Int
  OBVIOUS
<1>. HIDE DEF I, pick
<1>5. PICK f : Sums(f, W, I)
  BY <1>1, <1>4, SumsExist
<1>6. \A T \in SUBSET I : T # {} => f[T] = f[T \ {pick(T)}] + size[q[pick(T)].val]
  <2>. SUFFICES ASSUME NEW T \in SUBSET I, T # {}
                PROVE  f[T] = f[T \ {pick(T)}] + size[q[pick(T)].val]
    OBVIOUS
  <2>1. pick(T) \in T /\ pick(T) \in I /\ T \ {pick(T)} \in SUBSET I
    BY <1>3
  <2>2. f[T] = W[pick(T)] + f[T \ {pick(T)}] /\ f[T \ {pick(T)}] \in Int
    BY <1>5, <2>1 DEF Sums
  <2>. QED BY <1>4, <2>1, <2>2
<1>7. f = Body(f)
  <2>1. f = [T \in SUBSET I |-> f[T]] /\ f[{}] = 0
    BY <1>5 DEF Sums
  <2>. QED BY <1>6, <2>1
<1>8. h = Body(h)
  <2>. HIDE DEF Body
  <2>. QED BY <1>7
<1>9. \A T \in SUBSET I : h[T] = IF T = {} THEN 0
                                 ELSE h[T \ {pick(T)}] + size[q[pick(T)].val]
  <2>. DEFINE b == Body(h)
  <2>1. \A T \in SUBSET I : b[T] = IF T = {} THEN 0
                                   ELSE h[T \ {pick(T)}] + size[q[pick(T)].val]
    BY DEF Body
  <2>2. h = b
    BY <1>8
  <2>. HIDE DEF b, h
  <2>. QED BY <2>1, <2>2
<1>. HIDE DEF h, Body
<1>10. h[I] = f[I]
  <2>. DEFINE F == {T \in SUBSET I : h[T] # f[T]}
  <2>1. SUFFICES ASSUME F # {} PROVE FALSE
    <3>. I \in SUBSET I
      OBVIOUS
    <3>. QED OBVIOUS
  <2>2. PICK T \in F : \A i \in T : T \ {i} \notin F
    BY <1>1, <2>1, SmallestSubset
  <2>3. T # {}
    BY <1>5, <1>9, <2>2 DEF Sums
  <2>4. pick(T) \in T /\ T \ {pick(T)} \in SUBSET I /\ T \ {pick(T)} \notin F
    BY <1>3, <2>2, <2>3
  <2>. QED BY <1>6, <1>9, <2>2, <2>3, <2>4
<1>. QED BY <1>1, <1>2, <1>5, <1>10, TotalIs DEF I

-----------------------------------------------------------------------------
(* The bytes of a storage: the map s gives a value, or none, for each key.  *)

Valued(s, none) == {k \in DOMAIN s : s[k] # none}
Bytes(s, none, size) == [k \in DOMAIN s |-> IF s[k] = none THEN 0 ELSE size[s[k]]]

\* One key apart from the others.
LEMMA BytesApart ==
    ASSUME NEW K, NEW V, NEW none, none \notin V, NEW size \in [V -> Nat],
           NEW s \in [K -> V \cup {none}], IsFiniteSet(Valued(s, none)), NEW k \in K
    PROVE  /\ Bytes(s, none, size)[k] \in Int
           /\ Total(Bytes(s, none, size), Valued(s, none) \ {k}) \in Int
           /\ Total(Bytes(s, none, size), Valued(s, none))
                = Total(Bytes(s, none, size), Valued(s, none) \ {k}) + Bytes(s, none, size)[k]
<1>. DEFINE W == Bytes(s, none, size)
            S == Valued(s, none)
<1>1. k \notin S => W[k] = 0
  BY DEF Bytes, Valued
<1>2. \A l \in K : W[l] \in Int
  BY DEF Bytes
<1>3. S \subseteq K /\ IsFiniteSet(S \ {k})
  BY FS_Subset DEF Valued
<1>. HIDE DEF W, S
<1>4. Total(W, S \ {k}) \in Int /\ Total(W, S) \in Int
  <2>1. \A l \in S : W[l] \in Int
    BY <1>2, <1>3
  <2>. QED BY <1>3, <2>1, TotalType DEF S
<1>5. CASE k \in S
  <2>1. \A l \in S : W[l] \in Int
    BY <1>2, <1>3
  <2>2. Total(W, S \ {k}) = Total(W, S) - W[k]
    BY <1>5, <2>1, TotalWithout DEF S
  <2>3. W[k] \in Int
    BY <1>2
  <2>4. Total(W, S) = Total(W, S \ {k}) + W[k]
    BY <1>4, <2>2, <2>3
  <2>. QED BY <1>4, <2>3, <2>4 DEF W, S
<1>6. CASE k \notin S
  <2>1. S \ {k} = S
    BY <1>6
  <2>2. Total(W, S) = Total(W, S \ {k}) + W[k]
    BY <1>1, <1>4, <1>6, <2>1
  <2>. QED BY <1>2, <1>4, <2>2 DEF W, S
<1>. QED BY <1>5, <1>6

\* What the map says of k changes nothing of the others.
LEMMA BytesOfOthers ==
    ASSUME NEW K, NEW V, NEW none, none \notin V, NEW size \in [V -> Nat],
           NEW s \in [K -> V \cup {none}], IsFiniteSet(Valued(s, none)),
           NEW t \in [K -> V \cup {none}], NEW k \in K, \A l \in K : l # k => t[l] = s[l]
    PROVE  /\ IsFiniteSet(Valued(t, none))
           /\ Total(Bytes(t, none, size), Valued(t, none) \ {k})
                = Total(Bytes(s, none, size), Valued(s, none) \ {k})
<1>. DEFINE U == Valued(s, none) \ {k}
            A == Bytes(s, none, size)
            B == Bytes(t, none, size)
<1>1. Valued(t, none) \ {k} = U /\ Valued(t, none) \subseteq Valued(s, none) \cup {k}
  BY DEF Valued
<1>2. IsFiniteSet(U) /\ IsFiniteSet(Valued(t, none))
  BY <1>1, FS_Subset, FS_AddElement
<1>3. \A l \in U : A[l] \in Int /\ B[l] = A[l]
  BY DEF Bytes, Valued
<1>. HIDE DEF A, B, U
<1>4. Total(B, U) = Total(A, U)
  BY <1>2, <1>3, TotalSame
<1>. QED BY <1>1, <1>2, <1>4 DEF A, B, U

\* The length that the two storages are stated with.
LEMMA BytesOfKeys ==
    ASSUME NEW K, NEW V, NEW none, none \notin V, NEW size \in [V -> Nat],
           NEW s \in [K -> V \cup {none}], IsFiniteSet(Valued(s, none)),
           NEW S \in SUBSET Valued(s, none)
    PROVE  LengthOfKeys(size, s, S) = Total(Bytes(s, none, size), S)
<1>1. IsFiniteSet(S) /\ \A k \in S : size[s[k]] \in Int
  BY FS_Subset DEF Valued
<1>2. \A k \in S : Bytes(s, none, size)[k] = size[s[k]]
  BY DEF Bytes, Valued
<1>. QED BY <1>1, <1>2, LengthOfKeysIsTotal

-----------------------------------------------------------------------------
(* What a queue of keys and a map say together: a queue of entries, as the  *)
(* evicting cache has it.                                                   *)

Entry(k, v) == [key |-> k, val |-> v]
EntriesOf(K, V) == [key : K, val : V]

Listing(q, s) == [i \in 1 .. Len(q) |-> Entry(q[i], s[q[i]])]

\* Every key of the queue q has one place, and a value in the map s.
Lists(q, s, K, V) == q \in Seq(K) /\ Once(q) /\ \A k \in K : In(k, q) => s[k] \in V

\* What e says at each place.
Written(e, q, s, K, V) ==
    /\ e \in Seq(EntriesOf(K, V)) /\ Len(e) = Len(q) /\ Len(q) \in Nat
    /\ \A i \in 1 .. Len(q) : q[i] \in K /\ s[q[i]] \in V /\ e[i] = Entry(q[i], s[q[i]])

WithoutKey(e, k) == RemoveFirstMatch(e, LAMBDA x : x.key = k)

LEMMA EntryEffect ==
    /\ \A k, v : Entry(k, v).key = k /\ Entry(k, v).val = v
    /\ \A K, V : \A k \in K, v \in V : Entry(k, v) \in EntriesOf(K, V)
  BY DEF Entry, EntriesOf

LEMMA ListingPlaces ==
    ASSUME NEW K, NEW V, NEW q, NEW s, Lists(q, s, K, V)
    PROVE  Written(Listing(q, s), q, s, K, V)
<1>. DEFINE E == EntriesOf(K, V)
            n == Len(q)
            e == Listing(q, s)
<1>1. n \in Nat /\ \A i \in 1 .. n : q[i] \in K /\ In(q[i], q)
  BY DEF Lists, In
<1>2. \A i \in 1 .. n : q[i] \in K /\ s[q[i]] \in V
  BY <1>1 DEF Lists
<1>3. \A i \in 1 .. n : e[i] = Entry(q[i], s[q[i]])
  BY DEF Listing
<1>4. \A i \in 1 .. n : e[i] \in E
  BY <1>2, <1>3, EntryEffect
<1>5. e = [i \in 1 .. n |-> e[i]]
  BY DEF Listing
<1>. HIDE DEF E, n, e
<1>6. e \in [1 .. n -> E]
  BY <1>4, <1>5
<1>7. e \in Seq(E)
  BY <1>1, <1>6, SeqDef
<1>8. Len(e) = n
  BY <1>1, <1>6, <1>7, LenProperties
<1>. QED BY <1>1, <1>2, <1>3, <1>7, <1>8 DEF E, n, e, Written

\* Two listings are the same when they are so at every place.
LEMMA ListingIs ==
    ASSUME NEW K, NEW V, NEW q, NEW s, Lists(q, s, K, V), NEW e, Written(e, q, s, K, V)
    PROVE  e = Listing(q, s)
<1>. DEFINE E == EntriesOf(K, V)
            f == Listing(q, s)
<1>1. Written(f, q, s, K, V)
  BY ListingPlaces
<1>. HIDE DEF f
<1>2. e \in Seq(E) /\ f \in Seq(E) /\ Len(e) = Len(f) /\ \A i \in 1 .. Len(e) : e[i] = f[i]
  BY <1>1 DEF Written
<1>. HIDE DEF E
<1>3. e = f
  BY <1>2, SeqEqual
<1>. QED BY <1>3 DEF f

\* A key leaves the queue, and the map may say of it what it likes.
LEMMA ListingWithout ==
    ASSUME NEW K, NEW V, NEW q, NEW s, Lists(q, s, K, V), NEW k \in K,
           NEW t, \A l \in K : l # k => t[l] = s[l]
    PROVE  /\ Lists(RemoveFirst(q, k), t, K, V) /\ ~ In(k, RemoveFirst(q, k))
           /\ WithoutKey(Listing(q, s), k) = Listing(RemoveFirst(q, k), t)
<1>. DEFINE e == Listing(q, s)
            E == EntriesOf(K, V)
<1>1. Written(e, q, s, K, V)
  BY ListingPlaces
<1>. HIDE DEF e
<1>2. e \in Seq(E) /\ Len(e) = Len(q) /\ Len(q) \in Nat
  BY <1>1 DEF Written
<1>3. \A i \in 1 .. Len(q) : q[i] \in K /\ s[q[i]] \in V /\ e[i] = Entry(q[i], s[q[i]])
                              /\ e[i].key = q[i]
  BY <1>1, EntryEffect DEF Written
<1>. HIDE DEF E
<1>4. CASE In(k, q)
  <2>1. PICK i \in 1 .. Len(q) : q[i] = k
    BY <1>4 DEF In
  <2>. DEFINE r == RemoveAt(q, i)
              f == RemoveAt(e, i)
  <2>2. RemoveFirst(q, k) = r
    BY <2>1, RemoveFirstAt DEF Lists
  <2>3. Lists(r, t, K, V) /\ ~ In(k, r)
    <3>1. r \in Seq(K) /\ Once(r) /\ \A l \in K : In(l, r) <=> In(l, q) /\ l # k
      BY <2>1, RemoveAtOnce DEF Lists
    <3>. HIDE DEF r
    <3>. QED BY <3>1 DEF Lists
  <2>4. WithoutKey(e, k) = f
    <3>1. \A j \in 1 .. Len(q) : q[j] = k <=> j = i
      BY <2>1 DEF Lists, Once
    <3>2. \A j \in 1 .. Len(e) : e[j].key = k <=> j = i
      BY <1>2, <1>3, <3>1
    <3>3. {j \in 1 .. Len(e) : e[j].key = k} = {i} /\ \E j \in 1 .. Len(e) : e[j].key = k
      BY <1>2, <3>2
    <3>4. SelectInSeq(e, LAMBDA x : x.key = k) = i
      BY <3>3 DEF SelectInSeq, Min
    <3>. QED BY <3>3, <3>4 DEF WithoutKey, RemoveFirstMatch
  <2>5. r \in Seq(K) /\ Len(r) = Len(q) - 1
        /\ \A j \in 1 .. Len(q) - 1 : r[j] = q[IF j < i THEN j ELSE j + 1]
    BY RemoveAtPlaces DEF Lists
  <2>6. f \in Seq(E) /\ Len(f) = Len(q) - 1
        /\ \A j \in 1 .. Len(q) - 1 : f[j] = e[IF j < i THEN j ELSE j + 1]
    BY <1>2, RemoveAtPlaces
  <2>. HIDE DEF r, f
  <2>7. ASSUME NEW j \in 1 .. Len(r)
        PROVE  r[j] \in K /\ t[r[j]] \in V /\ f[j] = Entry(r[j], t[r[j]])
    <3>. DEFINE m == IF j < i THEN j ELSE j + 1
    <3>1. m \in 1 .. Len(q) /\ f[j] = e[m] /\ r[j] = q[m]
      BY <1>2, <2>5, <2>6
    <3>2. r[j] \in K /\ r[j] # k
      BY <2>3, <2>5 DEF In
    <3>3. t[r[j]] = s[r[j]]
      BY <3>2
    <3>. HIDE DEF m
    <3>. QED BY <1>3, <3>1, <3>2, <3>3
  <2>8. Written(f, r, t, K, V)
    <3>1. Len(r) \in Nat
      BY <2>5
    <3>. QED BY <2>5, <2>6, <2>7, <3>1 DEF Written, E
  <2>9. f = Listing(r, t)
    BY <2>3, <2>8, ListingIs
  <2>. QED BY <2>2, <2>3, <2>4, <2>9 DEF e
<1>5. CASE ~ In(k, q)
  <2>1. RemoveFirst(q, k) = q
    BY <1>5 DEF RemoveFirst, In
  <2>2. WithoutKey(e, k) = e
    <3>1. \A j \in 1 .. Len(q) : q[j] # k
      BY <1>5 DEF In
    <3>2. \A j \in 1 .. Len(e) : e[j].key # k
      BY <1>2, <1>3, <3>1
    <3>3. ~ \E j \in 1 .. Len(e) : e[j].key = k
      BY <3>2
    <3>. QED BY <3>3 DEF WithoutKey, RemoveFirstMatch
  <2>3. Lists(q, t, K, V)
    BY <1>5 DEF Lists
  <2>4. \A i \in 1 .. Len(q) : t[q[i]] = s[q[i]]
    BY <1>3, <1>5 DEF In
  <2>5. Written(e, q, t, K, V)
    BY <1>1, <2>4 DEF Written
  <2>6. e = Listing(q, t)
    BY <2>3, <2>5, ListingIs
  <2>. QED BY <1>5, <2>1, <2>2, <2>3, <2>6 DEF e
<1>. QED BY <1>4, <1>5

\* A new key at the end of the queue.
LEMMA ListingAppend ==
    ASSUME NEW K, NEW V, NEW q, NEW s, Lists(q, s, K, V), NEW k \in K, ~ In(k, q), s[k] \in V
    PROVE  /\ Lists(Append(q, k), s, K, V)
           /\ Append(Listing(q, s), Entry(k, s[k])) = Listing(Append(q, k), s)
<1>. DEFINE e == Listing(q, s)
            E == EntriesOf(K, V)
            x == Entry(k, s[k])
            a == Append(q, k)
            f == Append(e, x)
<1>1. Written(e, q, s, K, V)
  BY ListingPlaces
<1>. HIDE DEF e
<1>2. e \in Seq(E) /\ Len(e) = Len(q) /\ Len(q) \in Nat
      /\ \A i \in 1 .. Len(q) : q[i] \in K /\ s[q[i]] \in V /\ e[i] = Entry(q[i], s[q[i]])
  BY <1>1 DEF Written
<1>3. x \in E
  BY EntryEffect
<1>4. Lists(a, s, K, V)
  <2>1. a \in Seq(K) /\ Once(a) /\ \A l \in K : In(l, a) <=> In(l, q) \/ l = k
    BY AppendOnce DEF Lists
  <2>. HIDE DEF a
  <2>. QED BY <2>1 DEF Lists
<1>5. Len(a) = Len(q) + 1 /\ a[Len(q) + 1] = k /\ \A i \in 1 .. Len(q) : a[i] = q[i]
  <2>1. q \in Seq(K)
    BY DEF Lists
  <2>. QED BY <2>1, AppendProperties
<1>. HIDE DEF E, x
<1>6. f \in Seq(E) /\ Len(f) = Len(e) + 1 /\ f[Len(e) + 1] = x /\ \A i \in 1 .. Len(e) : f[i] = e[i]
  BY <1>2, <1>3, AppendProperties
<1>. HIDE DEF a, f
<1>7. ASSUME NEW i \in 1 .. Len(a)
      PROVE  a[i] \in K /\ s[a[i]] \in V /\ f[i] = Entry(a[i], s[a[i]])
  <2>1. CASE i = Len(q) + 1
    BY <1>2, <1>5, <1>6, <2>1 DEF x
  <2>2. CASE i # Len(q) + 1
    <3>1. i \in 1 .. Len(q)
      BY <1>2, <1>5, <2>2
    <3>. QED BY <1>2, <1>5, <1>6, <3>1
  <2>. QED BY <2>1, <2>2
<1>8. Written(f, a, s, K, V)
  <2>1. Len(f) = Len(a) /\ Len(a) \in Nat
    BY <1>2, <1>5, <1>6
  <2>. QED BY <1>6, <1>7, <2>1 DEF Written, E
<1>9. f = Listing(a, s)
  BY <1>4, <1>8, ListingIs
<1>. QED BY <1>4, <1>9 DEF e, a, f, x

\* The queue e when v has been put for k, nothing evicted yet.
Renewed(e, k, v) == Append(WithoutKey(e, k), Entry(k, v))

\* Putting a value for k, whether k is there or not.
LEMMA ListingRenewed ==
    ASSUME NEW K, NEW V, NEW q, NEW s, Lists(q, s, K, V), NEW k \in K,
           NEW t, t[k] \in V, \A l \in K : l # k => t[l] = s[l]
    PROVE  /\ Lists(Append(RemoveFirst(q, k), k), t, K, V)
           /\ Renewed(Listing(q, s), k, t[k]) = Listing(Append(RemoveFirst(q, k), k), t)
<1>. DEFINE r == RemoveFirst(q, k)
<1>1. Lists(r, t, K, V) /\ ~ In(k, r) /\ WithoutKey(Listing(q, s), k) = Listing(r, t)
  BY ListingWithout
<1>. HIDE DEF r
<1>2. Lists(Append(r, k), t, K, V)
      /\ Append(Listing(r, t), Entry(k, t[k])) = Listing(Append(r, k), t)
  BY <1>1, ListingAppend
<1>. QED BY <1>1, <1>2 DEF Renewed, r

\* The key in front leaves the queue, and the map may say of it what it likes.
LEMMA ListingTail ==
    ASSUME NEW K, NEW V, NEW q, NEW s, Lists(q, s, K, V), q # <<>>,
           NEW t, \A l \in K : l # Head(q) => t[l] = s[l]
    PROVE  /\ Lists(Tail(q), t, K, V)
           /\ Listing(q, s) # <<>> /\ Tail(Listing(q, s)) = Listing(Tail(q), t)
<1>. DEFINE e == Listing(q, s)
            E == EntriesOf(K, V)
            r == Tail(q)
            f == Tail(e)
<1>1. Written(e, q, s, K, V)
  BY ListingPlaces
<1>. HIDE DEF e
<1>2. e \in Seq(E) /\ Len(e) = Len(q) /\ Len(q) \in Nat
      /\ \A i \in 1 .. Len(q) : q[i] \in K /\ s[q[i]] \in V /\ e[i] = Entry(q[i], s[q[i]])
  BY <1>1 DEF Written
<1>3. q \in Seq(K) /\ Once(q) /\ Len(q) >= 1
  BY DEF Lists
<1>4. r \in Seq(K) /\ Once(r) /\ \A l \in K : In(l, r) <=> In(l, q) /\ l # Head(q)
  BY <1>3, TailOnce
<1>5. Len(r) = Len(q) - 1 /\ \A i \in 1 .. Len(r) : r[i] = q[i + 1]
  BY <1>3, HeadTailProperties
<1>. HIDE DEF E, r
<1>6. Lists(r, t, K, V)
  BY <1>4 DEF Lists
<1>7. e # <<>>
  BY <1>2, <1>3
<1>8. f \in Seq(E) /\ Len(f) = Len(e) - 1 /\ \A i \in 1 .. Len(f) : f[i] = e[i + 1]
  BY <1>2, <1>7, HeadTailProperties
<1>. HIDE DEF f
<1>9. ASSUME NEW i \in 1 .. Len(r)
      PROVE  r[i] \in K /\ t[r[i]] \in V /\ f[i] = Entry(r[i], t[r[i]])
  <2>1. i + 1 \in 1 .. Len(q) /\ f[i] = e[i + 1] /\ r[i] = q[i + 1]
    BY <1>2, <1>5, <1>8
  <2>2. r[i] \in K /\ In(r[i], r)
    BY <1>4 DEF In
  <2>3. t[r[i]] = s[r[i]]
    BY <1>4, <2>2
  <2>. QED BY <1>2, <2>1, <2>2, <2>3
<1>10. Written(f, r, t, K, V)
  <2>1. Len(f) = Len(r) /\ Len(r) \in Nat
    BY <1>2, <1>3, <1>5, <1>8
  <2>. QED BY <1>8, <1>9, <2>1 DEF Written, E
<1>11. f = Listing(r, t)
  BY <1>6, <1>10, ListingIs
<1>. QED BY <1>6, <1>7, <1>11 DEF e, r, f

\* The length of a listing is that of the values in the map.
LEMMA ListingLength ==
    ASSUME NEW K, NEW V, NEW q, NEW s, Lists(q, s, K, V), NEW none, none \notin V,
           NEW size \in [V -> Nat], s \in [K -> V \cup {none}], IsFiniteSet(Valued(s, none)),
           \A k \in K : In(k, q) <=> s[k] # none
    PROVE  LengthOfEntries(size, Listing(q, s)) = Total(Bytes(s, none, size), Valued(s, none))
<1>. DEFINE e == Listing(q, s)
            E == EntriesOf(K, V)
            I == 1 .. Len(q)
            S == Valued(s, none)
            B == Bytes(s, none, size)
            W == [i \in I |-> size[s[q[i]]]]
<1>1. Written(e, q, s, K, V)
  BY ListingPlaces
<1>. HIDE DEF e
<1>2. e \in Seq(E) /\ Len(e) = Len(q) /\ Len(q) \in Nat
      /\ \A i \in 1 .. Len(q) : q[i] \in K /\ s[q[i]] \in V /\ e[i].val = s[q[i]]
  BY <1>1, EntryEffect DEF Written
<1>3. \A i \in I : W[i] \in Int /\ W[i] = size[e[i].val]
  BY <1>2
<1>4. IsFiniteSet(I)
  BY <1>2, FS_Interval
<1>5. \A k \in S : B[k] \in Int /\ k \in K /\ In(k, q)
  BY DEF Bytes, Valued
<1>6. \A i \in I : q[i] \in S /\ W[i] = B[q[i]]
  BY <1>2 DEF Bytes, Valued
<1>7. \A i, j \in I : q[i] = q[j] => i = j
  BY DEF Lists, Once
<1>8. \A k \in S : \E i \in I : q[i] = k
  BY <1>5 DEF In
<1>9. LengthOfEntries(size, e) = Total(W, I)
  <2>1. \A i \in 1 .. Len(e) : W[i] \in Int /\ W[i] = size[e[i].val]
    BY <1>2, <1>3
  <2>. HIDE DEF W, E
  <2>. e \in Seq(E)
    BY <1>2
  <2>2. LengthOfEntries(size, e) = Total(W, 1 .. Len(e))
    BY <2>1, LengthOfEntriesIsTotal
  <2>. QED BY <1>2, <2>2
<1>10. Total(W, I) = Total(B, S)
  <2>1. IsFiniteSet(S) /\ \A k \in S : B[k] \in Int
    BY <1>5
  <2>. HIDE DEF W, I, B, S
  <2>. QED BY <1>4, <1>6, <1>7, <1>8, <2>1, TotalByNumber
<1>. QED BY <1>9, <1>10 DEF e

\* The queue l is what is left of the queue e when the entries in front have
\* gone, one at a time, that the limit would not have.
Fits(l, size, limit) == LengthOfEntries(size, l) <= limit \/ l = <<>>
Trimmed(l, e, size, limit) ==
    \E i \in 0 .. Len(e) :
        /\ l = SubSeq(e, i + 1, Len(e))
        /\ \A j \in 0 .. i - 1 : ~ Fits(SubSeq(e, j + 1, Len(e)), size, limit)

LEMMA ListingFits ==
    ASSUME NEW K, NEW V, NEW q, NEW s, Lists(q, s, K, V), NEW none, none \notin V,
           NEW size \in [V -> Nat], s \in [K -> V \cup {none}], IsFiniteSet(Valued(s, none)),
           \A k \in K : In(k, q) <=> s[k] # none,
           NEW c, c = Total(Bytes(s, none, size), Valued(s, none)), NEW limit
    PROVE  Fits(Listing(q, s), size, limit) <=> c <= limit \/ q = <<>>
<1>1. LengthOfEntries(size, Listing(q, s)) = c
  BY ListingLength
<1>2. Listing(q, s) = <<>> <=> q = <<>>
  <2>1. Listing(q, s) \in Seq(EntriesOf(K, V)) /\ Len(Listing(q, s)) = Len(q) /\ q \in Seq(K)
    BY ListingPlaces DEF Written, Lists
  <2>. QED BY <2>1
<1>. QED BY <1>1, <1>2 DEF Fits

LEMMA TrimNone ==
    ASSUME NEW S, NEW e \in Seq(S), NEW size, NEW limit
    PROVE  Trimmed(e, e, size, limit)
<1>1. SubSeq(e, 0 + 1, Len(e)) = e /\ Len(e) \in Nat
  BY SubSeqFull
<1>2. 0 \in 0 .. Len(e) /\ \A j \in 0 .. 0 - 1 : FALSE
  BY <1>1
<1>. QED BY <1>1, <1>2 DEF Trimmed

LEMMA TrimOne ==
    ASSUME NEW S, NEW e \in Seq(S), NEW size, NEW limit, NEW l,
           Trimmed(l, e, size, limit), ~ Fits(l, size, limit)
    PROVE  Trimmed(Tail(l), e, size, limit)
<1>. DEFINE n == Len(e)
            R(j) == SubSeq(e, j + 1, n)
<1>1. n \in Nat
  OBVIOUS
<1>2. PICK i \in 0 .. n : l = R(i) /\ \A j \in 0 .. i - 1 : ~ Fits(R(j), size, limit)
  BY DEF Trimmed
<1>3. i < n
  <2>1. CASE i = n
    <3>1. R(i) = <<>>
      BY <1>1, <2>1, SubSeqEmpty
    <3>. QED BY <1>2, <3>1 DEF Fits
  <2>. QED BY <1>1, <2>1
<1>4. Tail(l) = R(i + 1)
  <2>1. i + 1 \in 1 .. n /\ n \in i + 1 .. n
    BY <1>1, <1>3
  <2>2. Tail(SubSeq(e, i + 1, n)) = SubSeq(e, i + 1 + 1, n)
    BY <2>1, HeadTailOfSubSeq
  <2>. QED BY <1>2, <2>2
<1>. HIDE DEF R
<1>5. \A j \in 0 .. i + 1 - 1 : ~ Fits(R(j), size, limit)
  <2>. SUFFICES ASSUME NEW j \in 0 .. i + 1 - 1 PROVE ~ Fits(R(j), size, limit)
    OBVIOUS
  <2>1. j = i \/ j \in 0 .. i - 1
    BY <1>1
  <2>. QED BY <1>2, <2>1
<1>6. i + 1 \in 0 .. n
  BY <1>1, <1>3
<1>. QED BY <1>4, <1>5, <1>6 DEF Trimmed, R

-----------------------------------------------------------------------------
(* Looking at a queue from its other end.                                   *)

LEMMA ReversePlaces ==
    ASSUME NEW S, NEW q \in Seq(S)
    PROVE  /\ Reverse(q) \in Seq(S) /\ Len(Reverse(q)) = Len(q) /\ Len(q) \in Nat
           /\ \A i \in 1 .. Len(q) :
                    Reverse(q)[i] = q[Len(q) - i + 1] /\ Len(q) - i + 1 \in 1 .. Len(q)
<1>1. Reverse(q) \in Seq(S) /\ Len(Reverse(q)) = Len(q) /\ Len(q) \in Nat
  BY ReverseIn
<1>. QED BY <1>1 DEF Reverse

\* A queue that has, from its other end, the places of q.
LEMMA ReverseIs ==
    ASSUME NEW S, NEW q \in Seq(S), NEW r \in Seq(S), Len(r) = Len(q),
           \A i \in 1 .. Len(q) : r[i] = q[Len(q) - i + 1]
    PROVE  Reverse(q) = r
<1>. DEFINE p == Reverse(q)
<1>1. p \in Seq(S) /\ Len(p) = Len(q) /\ \A i \in 1 .. Len(q) : p[i] = q[Len(q) - i + 1]
  BY ReversePlaces
<1>. HIDE DEF p
<1>2. p = r
  BY <1>1, SeqEqual
<1>. QED BY <1>2 DEF p

LEMMA ReverseOnce ==
    ASSUME NEW S, NEW q \in Seq(S)
    PROVE  /\ Once(q) => Once(Reverse(q))
           /\ \A k \in S : In(k, Reverse(q)) <=> In(k, q)
<1>. DEFINE p == Reverse(q)
            n == Len(q)
<1>1. Len(p) = n /\ n \in Nat
      /\ \A i \in 1 .. n : p[i] = q[n - i + 1] /\ n - i + 1 \in 1 .. n
  BY ReversePlaces
<1>. HIDE DEF p, n
<1>2. ASSUME Once(q), NEW i \in 1 .. n, NEW j \in 1 .. n, p[i] = p[j] PROVE i = j
  <2>1. n - i + 1 = n - j + 1
    BY <1>1, <1>2 DEF Once, n
  <2>. QED BY <1>1, <2>1
<1>3. ASSUME NEW k \in S PROVE In(k, p) <=> In(k, q)
  <2>1. ASSUME NEW i \in 1 .. n, q[i] = k PROVE In(k, p)
    <3>1. n - i + 1 \in 1 .. n /\ n - (n - i + 1) + 1 = i
      BY <1>1
    <3>2. p[n - i + 1] = q[n - (n - i + 1) + 1]
      BY <1>1, <3>1
    <3>. QED BY <1>1, <2>1, <3>1, <3>2 DEF In
  <2>. QED BY <1>1, <2>1 DEF In, n
<1>. QED BY <1>1, <1>2, <1>3 DEF Once, p, n

\* The back of a queue is the front of its reverse.
LEMMA ReverseFront ==
    ASSUME NEW S, NEW q \in Seq(S), q # <<>>
    PROVE  /\ Reverse(q) # <<>> /\ Head(Reverse(q)) = Last(q)
           /\ Reverse(Front(q)) = Tail(Reverse(q))
<1>. DEFINE p == Reverse(q)
            f == Front(q)
            t == Tail(p)
            n == Len(q)
<1>1. p \in Seq(S) /\ Len(p) = n /\ n \in Nat
      /\ \A i \in 1 .. n : p[i] = q[n - i + 1] /\ n - i + 1 \in 1 .. n
  BY ReversePlaces
<1>2. n >= 1
  OBVIOUS
<1>3. f \in Seq(S) /\ Len(f) = n - 1 /\ \A i \in 1 .. n - 1 : f[i] = q[i]
  BY FrontPlaces
<1>. HIDE DEF p, f, n
<1>4. p # <<>>
  BY <1>1, <1>2
<1>5. t \in Seq(S) /\ Len(t) = n - 1 /\ \A i \in 1 .. n - 1 : t[i] = p[i + 1]
  BY <1>1, <1>4, HeadTailProperties
<1>6. Head(p) = Last(q)
  <2>1. Head(p) = p[1]
    BY <1>1, <1>4
  <2>2. p[1] = q[n]
    BY <1>1, <1>2
  <2>. QED BY <2>1, <2>2 DEF Last, n
<1>. HIDE DEF t
<1>7. ASSUME NEW i \in 1 .. Len(f) PROVE t[i] = f[Len(f) - i + 1]
  <2>1. i + 1 \in 1 .. n /\ n - (i + 1) + 1 = Len(f) - i + 1 /\ Len(f) - i + 1 \in 1 .. n - 1
        /\ i \in 1 .. n - 1
    BY <1>1, <1>2, <1>3
  <2>2. t[i] = p[i + 1] /\ p[i + 1] = q[n - (i + 1) + 1]
    BY <1>1, <1>5, <2>1
  <2>. QED BY <1>3, <2>1, <2>2
<1>8. Reverse(f) = t
  BY <1>3, <1>5, <1>7, ReverseIs
<1>. QED BY <1>4, <1>6, <1>8 DEF p, f, t

\* The front of a queue is the back of its reverse.
LEMMA ReversePush ==
    ASSUME NEW S, NEW q \in Seq(S), NEW k \in S
    PROVE  Reverse(<<k>> \o q) = Append(Reverse(q), k)
<1>. DEFINE f == <<k>>
            c == f \o q
            p == Reverse(q)
            a == Append(p, k)
            n == Len(q)
<1>1. p \in Seq(S) /\ Len(p) = n /\ n \in Nat
      /\ \A i \in 1 .. n : p[i] = q[n - i + 1] /\ n - i + 1 \in 1 .. n
  BY ReversePlaces
<1>2. f \in Seq(S) /\ Len(f) = 1 /\ f[1] = k
  OBVIOUS
<1>. HIDE DEF f, p
<1>3. c \in Seq(S) /\ Len(c) = n + 1 /\ \A i \in 1 .. n + 1 : c[i] = IF i <= 1 THEN f[i] ELSE q[i - 1]
  <2>1. c \in Seq(S) /\ Len(c) = Len(f) + Len(q)
        /\ \A i \in 1 .. Len(f) + Len(q) : c[i] = IF i <= Len(f) THEN f[i] ELSE q[i - Len(f)]
    BY <1>2, ConcatProperties
  <2>2. Len(f) + Len(q) = n + 1
    BY <1>1, <1>2
  <2>. HIDE DEF c
  <2>. QED BY <1>2, <2>1, <2>2
<1>4. a \in Seq(S) /\ Len(a) = n + 1 /\ a[n + 1] = k /\ \A i \in 1 .. n : a[i] = p[i]
  BY <1>1, AppendProperties
<1>. HIDE DEF c, a, n
<1>5. ASSUME NEW i \in 1 .. n + 1 PROVE a[i] = c[n + 1 - i + 1]
  <2>1. CASE i = n + 1
    <3>1. n + 1 - i + 1 = 1 /\ 1 \in 1 .. n + 1
      BY <1>1, <2>1
    <3>2. c[1] = f[1]
      BY <1>3, <3>1
    <3>. QED BY <1>2, <1>4, <2>1, <3>1, <3>2
  <2>2. CASE i # n + 1
    <3>. DEFINE j == n + 1 - i + 1
    <3>1. i \in 1 .. n /\ j \in 1 .. n + 1 /\ ~ j <= 1 /\ j - 1 = n - i + 1
      <4>1. n \in Nat
        BY <1>1
      <4>2. i \in Nat /\ 1 <= i /\ i <= n
        BY <2>2, <4>1
      <4>. QED BY <4>1, <4>2
    <3>. HIDE DEF j
    <3>2. c[j] = q[j - 1]
      BY <1>3, <3>1
    <3>3. a[i] = c[j]
      BY <1>1, <1>4, <3>1, <3>2
    <3>. QED BY <3>3 DEF j
  <2>. QED BY <2>1, <2>2
<1>6. Len(a) = Len(c) /\ \A i \in 1 .. Len(c) : a[i] = c[Len(c) - i + 1]
  <2>1. Len(c) = n + 1 /\ Len(a) = n + 1 /\ n \in Nat
    BY <1>1, <1>3, <1>4
  <2>2. ASSUME NEW i \in 1 .. Len(c) PROVE a[i] = c[Len(c) - i + 1]
    <3>1. i \in 1 .. n + 1 /\ Len(c) - i + 1 = n + 1 - i + 1
      BY <2>1
    <3>. QED BY <1>5, <3>1
  <2>. QED BY <2>1, <2>2
<1>7. c \in Seq(S) /\ a \in Seq(S)
  BY <1>3, <1>4
<1>8. Reverse(c) = a
  BY <1>6, <1>7, ReverseIs
<1>. QED BY <1>8 DEF c, f, a, p

\* A key that leaves a queue leaves its reverse.
LEMMA ReverseWithout ==
    ASSUME NEW S, NEW q \in Seq(S), Once(q), NEW k \in S
    PROVE  Reverse(RemoveFirst(q, k)) = RemoveFirst(Reverse(q), k)
<1>. DEFINE p == Reverse(q)
            n == Len(q)
<1>1. p \in Seq(S) /\ Len(p) = n /\ n \in Nat
      /\ \A i \in 1 .. n : p[i] = q[n - i + 1] /\ n - i + 1 \in 1 .. n
  BY ReversePlaces
<1>2. Once(p) /\ (In(k, p) <=> In(k, q))
  BY ReverseOnce
<1>. HIDE DEF p
<1>3. CASE ~ In(k, q)
  <2>1. RemoveFirst(q, k) = q /\ RemoveFirst(p, k) = p
    BY <1>2, <1>3 DEF RemoveFirst, In
  <2>. QED BY <2>1 DEF p
<1>4. CASE In(k, q)
  <2>1. PICK i \in 1 .. n : q[i] = k
    BY <1>4 DEF In
  <2>. DEFINE m == n - i + 1
              r == RemoveAt(q, i)
              u == RemoveAt(p, m)
  <2>2. m \in 1 .. n /\ n - m + 1 = i
    BY <1>1
  <2>3. p[m] = k
    BY <1>1, <2>1, <2>2
  <2>4. RemoveFirst(q, k) = r
    BY <2>1, RemoveFirstAt
  <2>. HIDE DEF m
  <2>5. RemoveFirst(p, k) = u
    BY <1>1, <1>2, <2>2, <2>3, RemoveFirstAt
  <2>6. r \in Seq(S) /\ Len(r) = n - 1 /\ \A j \in 1 .. n - 1 : r[j] = q[IF j < i THEN j ELSE j + 1]
    BY RemoveAtPlaces
  <2>7. u \in Seq(S) /\ Len(u) = n - 1 /\ \A j \in 1 .. n - 1 : u[j] = p[IF j < m THEN j ELSE j + 1]
    BY <1>1, <2>2, RemoveAtPlaces
  <2>. HIDE DEF r, u, n
  <2>8. ASSUME NEW j \in 1 .. n - 1 PROVE u[j] = r[n - 1 - j + 1]
    <3>. DEFINE x == n - 1 - j + 1
    <3>1. x \in 1 .. n - 1 /\ (j < m => x >= i) /\ (~ j < m => x < i)
      BY <1>1, <2>2
    <3>2. CASE j < m
      <4>1. u[j] = p[j] /\ j \in 1 .. n
        BY <1>1, <2>7, <3>2
      <4>2. p[j] = q[n - j + 1]
        BY <1>1, <4>1
      <4>3. r[x] = q[x + 1] /\ x + 1 = n - j + 1
        BY <1>1, <2>6, <3>1, <3>2
      <4>. QED BY <4>1, <4>2, <4>3
    <3>3. CASE ~ j < m
      <4>1. u[j] = p[j + 1] /\ j + 1 \in 1 .. n
        BY <1>1, <2>7, <3>3
      <4>2. p[j + 1] = q[n - (j + 1) + 1]
        BY <1>1, <4>1
      <4>3. r[x] = q[x] /\ x = n - (j + 1) + 1
        BY <1>1, <2>6, <3>1, <3>3
      <4>. QED BY <4>1, <4>2, <4>3
    <3>. QED BY <3>2, <3>3
  <2>9. Reverse(r) = u
    BY <2>6, <2>7, <2>8, ReverseIs
  <2>. QED BY <2>4, <2>5, <2>9 DEF p
<1>. QED BY <1>3, <1>4
=============================================================================
