------------------------- MODULE LRUStorage_proofs -------------------------
(***************************************************************************)
(* Proofs about the LRU storage, its invariants and that it implements the *)
(* evicting cache, for any number of readers, keys and values, limits of   *)
(* either sign, and any capacity of the channel of promotions.             *)
(***************************************************************************)
EXTENDS LRUStorage, KeyQueues

Stored == [Key -> Value \cup {NoValue}]
ReadState == [pc : {"idle", "loaded", "kept", "torn"}, key : Key \cup {NoKey}]
Entries == Seq([key : Key, val : Value])

\* The list q has one element per entry of the map s.
Matches(q, s) ==
    /\ q \in Seq(Key) /\ Once(q) /\ s \in Stored
    /\ \A k \in Key : In(k, q) <=> s[k] # NoValue

\* What each Read has in its hand is a key.
Reads(R) ==
    /\ R \in [Reader -> ReadState]
    /\ \A r \in Reader : R[r].pc # "idle" => R[r].key \in Key

Rest ==
    /\ curSize \in Int /\ maxSize \in Limits
    /\ mu \in Key \cup {NoKey}
    /\ promoCh \in Seq(Key) /\ Len(promoCh) <= PromoCap
    /\ promoting \in Key \cup {NoKey}
    /\ committed.entries \in Entries

LRUInv == Matches(list, storage) /\ Reads(reader) /\ Rest

-----------------------------------------------------------------------------
(* What the operators of the model preserve.                                *)

LEMMA LengthEffect == ASSUME NEW s \in Stored, NEW k \in Key PROVE Length(s[k]) \in Int
<1>1. s[k] \in Value \cup {NoValue}
  BY DEF Stored
<1>. QED BY <1>1, LRUAssumption DEF Length

\* Removing a key, whether it is there or not.
LEMMA DropEffect ==
    ASSUME NEW q \in Seq(Key), Once(q), NEW k \in Key
    PROVE  /\ RemoveFirst(q, k) \in Seq(Key) /\ Once(RemoveFirst(q, k))
           /\ \A l \in Key : In(l, RemoveFirst(q, k)) <=> In(l, q) /\ l # k
<1>1. CASE In(k, q)
  BY <1>1, RemoveFirstOnce
<1>2. CASE ~ In(k, q)
  <2>1. RemoveFirst(q, k) = q
    BY <1>2 DEF RemoveFirst, In
  <2>. QED BY <1>2, <2>1
<1>. QED BY <1>1, <1>2

\* MoveToFront, and PushFront of a new key.
LEMMA FrontEffect ==
    ASSUME NEW q \in Seq(Key), Once(q), NEW k \in Key
    PROVE  /\ <<k>> \o RemoveFirst(q, k) \in Seq(Key) /\ Once(<<k>> \o RemoveFirst(q, k))
           /\ \A l \in Key : In(l, <<k>> \o RemoveFirst(q, k)) <=> In(l, q) \/ l = k
<1>. DEFINE d == RemoveFirst(q, k)
<1>1. d \in Seq(Key) /\ Once(d) /\ \A l \in Key : In(l, d) <=> In(l, q) /\ l # k
  BY DropEffect
<1>. HIDE DEF d
<1>2. /\ <<k>> \o d \in Seq(Key) /\ Once(<<k>> \o d)
      /\ \A l \in Key : In(l, <<k>> \o d) <=> In(l, d) \/ l = k
  BY <1>1, PushFrontOnce
<1>. QED BY <1>1, <1>2 DEF d

\* A change of the value or of the entry under a Read leaves it its key.
LEMMA ReadsEffect ==
    ASSUME Reads(reader), NEW k \in Key
    PROVE  /\ Reads(Detached(k))
           /\ \A R \in Overwritten(k) : Reads(R)
<1>1. \A r \in Reader :
        /\ reader[r] \in ReadState
        /\ reader[r].pc # "idle" => reader[r].key \in Key
        /\ [reader[r] EXCEPT !.pc = "kept"] \in ReadState
        /\ [reader[r] EXCEPT !.pc = "torn"] \in ReadState
        /\ [reader[r] EXCEPT !.pc = "kept"].key = reader[r].key
        /\ [reader[r] EXCEPT !.pc = "torn"].key = reader[r].key
  BY DEF Reads, ReadState
<1>2. ASSUME NEW r \in Reader, Reading(r, k) PROVE reader[r].key \in Key
  BY <1>2 DEF Reading
<1>3. Reads(Detached(k))
  <2>. DEFINE R == Detached(k)
  <2>1. \A r \in Reader : R[r] = IF Reading(r, k) THEN [reader[r] EXCEPT !.pc = "kept"] ELSE reader[r]
    BY DEF Detached
  <2>2. R = [r \in Reader |-> R[r]]
    BY DEF Detached
  <2>. HIDE DEF R
  <2>3. R \in [Reader -> ReadState]
    BY <1>1, <2>1, <2>2
  <2>4. \A r \in Reader : R[r].pc # "idle" => R[r].key \in Key
    BY <1>1, <1>2, <2>1
  <2>. QED BY <2>3, <2>4 DEF Reads, R
<1>4. ASSUME NEW R \in Overwritten(k) PROVE Reads(R)
  <2>1. PICK T \in SUBSET {r \in Reader : Reading(r, k)} :
            R = [r \in Reader |-> IF r \in T THEN [reader[r] EXCEPT !.pc = "torn"] ELSE reader[r]]
    BY DEF Overwritten
  <2>2. R \in [Reader -> ReadState]
    BY <1>1, <2>1
  <2>3. \A r \in Reader : R[r].pc # "idle" => R[r].key \in Key
    BY <1>1, <1>2, <2>1
  <2>. QED BY <2>2, <2>3 DEF Reads
<1>. QED BY <1>3, <1>4

\* What is committed at an unlock: every key of the list has a value.
LEMMA DoneEffect ==
    ASSUME NEW q \in Seq(Key), storage \in Stored,
           \A l \in Key : In(l, q) => storage[l] # NoValue, NEW op, NEW k
    PROVE  Done(op, k, q).entries \in Entries
<1>. DEFINE E == [key : Key, val : Value]
            n == Len(q)
            e == Done(op, k, q).entries
<1>1. n \in Nat /\ \A i \in 1 .. n : Reverse(q)[i] \in Key /\ In(Reverse(q)[i], q)
  BY ReverseIn
<1>2. e = [i \in 1 .. n |-> [key |-> Reverse(q)[i], val |-> storage[Reverse(q)[i]]]]
  BY DEF Done
<1>3. ASSUME NEW i \in 1 .. n
      PROVE  [key |-> Reverse(q)[i], val |-> storage[Reverse(q)[i]]] \in E
  <2>1. Reverse(q)[i] \in Key /\ In(Reverse(q)[i], q)
    BY <1>1
  <2>2. storage[Reverse(q)[i]] \in Value
    BY <2>1 DEF Stored
  <2>. QED BY <2>1, <2>2
<1>. HIDE DEF E, n, e
<1>4. e \in [1 .. n -> E]
  BY <1>2, <1>3
<1>5. e \in Seq(E)
  BY <1>1, <1>4, SeqDef
<1>. QED BY <1>5 DEF E, e, Entries

-----------------------------------------------------------------------------
(* The steps.                                                               *)

LEMMA WriteStep ==
    ASSUME LRUInv, NEW k \in Key, NEW v \in Value, Write(k, v)
    PROVE  LRUInv'
<1>1. list \in Seq(Key) /\ Once(list) /\ storage \in Stored
      /\ \A l \in Key : In(l, list) <=> storage[l] # NoValue
  BY DEF LRUInv, Matches
<1>2. list' \in Seq(Key) /\ Once(list') /\ \A l \in Key : In(l, list') <=> In(l, list) \/ l = k
  BY <1>1, FrontEffect DEF Write
<1>3. storage' \in Stored /\ storage'[k] = v /\ \A l \in Key : l # k => storage'[l] = storage[l]
  BY <1>1 DEF Write, Stored
<1>4. Matches(list', storage')
  BY <1>1, <1>2, <1>3, LRUAssumption DEF Matches
<1>5. Reads(reader')
  BY ReadsEffect DEF Write, LRUInv
<1>6. curSize' \in Int
  <2>1. Length(storage[k]) \in Int /\ Size[v] \in Int /\ curSize \in Int
    BY <1>1, LengthEffect, LRUAssumption DEF LRUInv, Rest
  <2>. QED BY <2>1 DEF Write
<1>7. Rest'
  BY <1>6 DEF LRUInv, Rest, Write
<1>. QED BY <1>4, <1>5, <1>7 DEF LRUInv

LEMMA EvictStep ==
    ASSUME LRUInv, Evict
    PROVE  LRUInv'
<1>. DEFINE b == Last(list)
<1>1. list \in Seq(Key) /\ Once(list) /\ storage \in Stored /\ list # <<>>
      /\ \A l \in Key : In(l, list) <=> storage[l] # NoValue
  BY DEF LRUInv, Matches, Evict
<1>2. b \in Key /\ Front(list) \in Seq(Key) /\ Once(Front(list))
      /\ \A l \in Key : In(l, Front(list)) <=> In(l, list) /\ l # b
  BY <1>1, FrontOnce
<1>3. list' = Front(list) /\ storage' = [storage EXCEPT ![b] = NoValue] /\ reader' = Detached(b)
      /\ curSize' = curSize - Length(storage[b])
  BY DEF Evict
<1>. HIDE DEF b
<1>4. storage' \in Stored /\ storage'[b] = NoValue
      /\ \A l \in Key : l # b => storage'[l] = storage[l]
  BY <1>1, <1>2, <1>3 DEF Stored
<1>5. Matches(list', storage')
  BY <1>1, <1>2, <1>3, <1>4 DEF Matches
<1>6. Reads(reader')
  BY <1>2, <1>3, ReadsEffect DEF LRUInv
<1>7. curSize' \in Int
  <2>1. Length(storage[b]) \in Int /\ curSize \in Int
    BY <1>1, <1>2, LengthEffect DEF LRUInv, Rest
  <2>. QED BY <1>3, <2>1
<1>8. Rest'
  BY <1>7 DEF LRUInv, Rest, Evict
<1>. QED BY <1>5, <1>6, <1>8 DEF LRUInv

LEMMA EndWriteStep ==
    ASSUME LRUInv, EndWrite
    PROVE  LRUInv'
<1>1. committed'.entries \in Entries
  BY DoneEffect DEF EndWrite, LRUInv, Matches
<1>2. Rest'
  BY <1>1 DEF LRUInv, Rest, EndWrite
<1>. QED BY <1>2 DEF LRUInv, EndWrite

LEMMA DeleteStep ==
    ASSUME LRUInv, NEW k \in Key, Delete(k)
    PROVE  LRUInv'
<1>1. list \in Seq(Key) /\ Once(list) /\ storage \in Stored
      /\ \A l \in Key : In(l, list) <=> storage[l] # NoValue
  BY DEF LRUInv, Matches
<1>2. list' \in Seq(Key) /\ Once(list') /\ \A l \in Key : In(l, list') <=> In(l, list) /\ l # k
  BY <1>1, DropEffect DEF Delete
<1>3. storage' \in Stored /\ storage'[k] = NoValue
      /\ \A l \in Key : l # k => storage'[l] = storage[l]
  BY <1>1 DEF Delete, Stored
<1>4. Matches(list', storage')
  BY <1>1, <1>2, <1>3 DEF Matches
<1>5. Reads(reader')
  BY ReadsEffect DEF Delete, LRUInv
<1>6. committed'.entries \in Entries
  BY <1>1, <1>2, DoneEffect DEF Delete
<1>7. curSize' \in Int
  <2>1. Length(storage[k]) \in Int /\ curSize \in Int
    BY <1>1, LengthEffect DEF LRUInv, Rest
  <2>. QED BY <2>1 DEF Delete
<1>8. Rest'
  BY <1>6, <1>7 DEF LRUInv, Rest, Delete
<1>. QED BY <1>4, <1>5, <1>8 DEF LRUInv

LEMMA LoadStep ==
    ASSUME LRUInv, NEW r \in Reader, NEW k \in Key, Load(r, k)
    PROVE  LRUInv'
<1>. DEFINE x == [pc |-> "loaded", key |-> k]
<1>1. x \in ReadState /\ x.key \in Key
  BY DEF ReadState
<1>2. reader' = [reader EXCEPT ![r] = x]
  BY DEF Load
<1>. HIDE DEF x
<1>3. Reads(reader')
  BY <1>1, <1>2 DEF LRUInv, Reads
<1>. QED BY <1>3 DEF LRUInv, Rest, Load

LEMMA ReturnStep ==
    ASSUME LRUInv, NEW r \in Reader, Return(r)
    PROVE  LRUInv'
<1>. DEFINE x == [pc |-> "idle", key |-> NoKey]
<1>1. x \in ReadState /\ x.pc = "idle"
  BY DEF ReadState
<1>2. reader' = [reader EXCEPT ![r] = x]
  BY DEF Return
<1>. HIDE DEF x
<1>3. Reads(reader')
  BY <1>1, <1>2 DEF LRUInv, Reads
<1>4. promoCh' \in Seq(Key) /\ Len(promoCh') <= PromoCap
  <2>1. reader[r].key \in Key /\ promoCh \in Seq(Key) /\ Len(promoCh) <= PromoCap
    BY DEF Return, LRUInv, Reads, Rest
  <2>. DEFINE l == reader[r].key
  <2>2. promoCh' = IF Len(promoCh) < PromoCap THEN Append(promoCh, l) ELSE promoCh
    BY DEF Return
  <2>. HIDE DEF l
  <2>3. l \in Key
    BY <2>1 DEF l
  <2>. QED BY <2>1, <2>2, <2>3, LRUAssumption
<1>. QED BY <1>3, <1>4 DEF LRUInv, Rest, Return

LEMMA ReceiveStep ==
    ASSUME LRUInv, Receive
    PROVE  LRUInv'
<1>1. promoCh \in Seq(Key) /\ promoCh # <<>> /\ Len(promoCh) <= PromoCap
  BY DEF LRUInv, Rest, Receive
<1>2. promoting' \in Key /\ promoCh' \in Seq(Key) /\ Len(promoCh') <= PromoCap
  <2>1. Head(promoCh) \in Key /\ Tail(promoCh) \in Seq(Key) /\ Len(Tail(promoCh)) = Len(promoCh) - 1
    BY <1>1
  <2>2. Len(promoCh) \in Nat
    BY <1>1
  <2>. QED BY <1>1, <2>1, <2>2, LRUAssumption DEF Receive
<1>. QED BY <1>2 DEF LRUInv, Rest, Receive

LEMMA promoterStep ==
    ASSUME LRUInv, promoter
    PROVE  LRUInv'
<1>1. list \in Seq(Key) /\ Once(list) /\ storage \in Stored
      /\ \A l \in Key : In(l, list) <=> storage[l] # NoValue
  BY DEF LRUInv, Matches
<1>2. promoting \in Key /\ storage' = storage /\ reader' = reader /\ promoting' = NoKey
  BY DEF promoter, LRUInv, Rest
<1>3. CASE storage[promoting] = NoValue
  <2>1. list' = list /\ committed' = committed
    BY <1>3 DEF promoter
  <2>. QED BY <1>2, <2>1 DEF LRUInv, Rest, promoter
<1>4. CASE storage[promoting] # NoValue
  <2>. DEFINE q == <<promoting>> \o RemoveFirst(list, promoting)
  <2>1. list' = q /\ committed' = Done("touch", promoting, list')
    BY <1>4 DEF promoter
  <2>2. q \in Seq(Key) /\ Once(q) /\ \A l \in Key : In(l, q) <=> In(l, list) \/ l = promoting
    BY <1>1, <1>2, FrontEffect
  <2>. HIDE DEF q
  <2>3. Matches(list', storage')
    BY <1>1, <1>2, <1>4, <2>1, <2>2 DEF Matches
  <2>4. committed'.entries \in Entries
    BY <1>1, <1>2, <1>4, <2>1, <2>2, DoneEffect
  <2>. QED BY <1>2, <2>3, <2>4 DEF LRUInv, Rest, promoter
<1>. QED BY <1>3, <1>4

-----------------------------------------------------------------------------
(* The results.                                                             *)

\* The list, the map, and the promotions on their way: inductive.
THEOREM LRUInvariant == Spec => []LRUInv
<1>1. Init => LRUInv
  <2>. SUFFICES ASSUME Init PROVE LRUInv
    OBVIOUS
  <2>1. Matches(list, storage)
    <3>1. list = <<>> /\ storage = [k \in Key |-> NoValue]
      BY DEF Init
    <3>. QED BY <3>1 DEF Matches, Stored, Once, In
  <2>2. Reads(reader)
    <3>1. [pc |-> "idle", key |-> NoKey] \in ReadState
      BY DEF ReadState
    <3>. QED BY <3>1 DEF Init, Reads
  <2>3. Rest
    <3>1. committed.entries = <<>>
      BY DEF Init
    <3>2. committed.entries \in Entries
      BY <3>1 DEF Entries
    <3>3. promoCh \in Seq(Key) /\ Len(promoCh) <= PromoCap
      BY LRUAssumption DEF Init
    <3>. QED BY <3>2, <3>3 DEF Init, Rest
  <2>. QED BY <2>1, <2>2, <2>3 DEF LRUInv
<1>2. LRUInv /\ [Next]_vars => LRUInv'
  <2>1. LRUInv /\ UNCHANGED vars => LRUInv'
    BY DEF vars, LRUInv, Rest
  <2>. QED BY <2>1, WriteStep, EvictStep, EndWriteStep, DeleteStep, LoadStep, ReturnStep,
              ReceiveStep, promoterStep DEF Next
<1>. QED BY <1>1, <1>2, PTL DEF Spec

\* The state keeps its shape.
THEOREM LRUTypeCorrect == Spec => []TypeOK
<1>1. LRUInv => TypeOK
  BY DEF LRUInv, Matches, Stored, Reads, ReadState, Rest, Entries, TypeOK
<1>. QED BY <1>1, LRUInvariant, PTL

\* No promotion, however late, brings back a key that Delete or an eviction has
\* dropped, or gives a key a second place (lru.go 43-51, 73-115).
THEOREM ListFollowsMap == Spec => []ListMatchesMap
<1>1. LRUInv => ListMatchesMap
  <2>. SUFFICES ASSUME LRUInv PROVE ListMatchesMap
    OBVIOUS
  <2>1. \A i, j \in 1 .. Len(list) : list[i] = list[j] => i = j
    BY DEF LRUInv, Matches, Once
  <2>2. \A i \in 1 .. Len(list) : list[i] \in Key
    BY DEF LRUInv, Matches
  <2>3. {list[i] : i \in 1 .. Len(list)} = StoredKeys
    BY <2>2 DEF LRUInv, Matches, In, StoredKeys
  <2>. QED BY <2>1, <2>3 DEF ListMatchesMap
<1>. QED BY <1>1, LRUInvariant, PTL

-----------------------------------------------------------------------------
(* The size, on top of the invariant.                                       *)

\* c is the length of all values in the map s.
Sized(s, c) ==
    /\ IsFiniteSet(Valued(s, NoValue))
    /\ c = Total(Bytes(s, NoValue, Size), Valued(s, NoValue))

SizeInv == Sized(storage, curSize)

LEMMA ApartEffect ==
    ASSUME NEW s \in Stored, IsFiniteSet(Valued(s, NoValue)), NEW k \in Key
    PROVE  /\ Bytes(s, NoValue, Size)[k] \in Int
           /\ Total(Bytes(s, NoValue, Size), Valued(s, NoValue) \ {k}) \in Int
           /\ Total(Bytes(s, NoValue, Size), Valued(s, NoValue))
                = Total(Bytes(s, NoValue, Size), Valued(s, NoValue) \ {k}) + Bytes(s, NoValue, Size)[k]
<1>1. Size \in [Value -> Nat] /\ NoValue \notin Value /\ s \in [Key -> Value \cup {NoValue}]
  BY LRUAssumption DEF Stored
<1>. QED BY <1>1, BytesApart

\* Another value, or none, for one key.
LEMMA ChangeEffect ==
    ASSUME NEW s \in Stored, NEW c, Sized(s, c), NEW k \in Key,
           NEW t \in Stored, \A l \in Key : l # k => t[l] = s[l]
    PROVE  Sized(t, c - Length(s[k]) + Length(t[k]))
<1>. DEFINE A == Bytes(s, NoValue, Size)
            B == Bytes(t, NoValue, Size)
            S == Valued(s, NoValue)
            T == Valued(t, NoValue)
<1>1. Size \in [Value -> Nat] /\ NoValue \notin Value
      /\ s \in [Key -> Value \cup {NoValue}] /\ t \in [Key -> Value \cup {NoValue}]
  BY LRUAssumption DEF Stored
<1>2. IsFiniteSet(S) /\ c = Total(A, S)
  BY DEF Sized
<1>3. IsFiniteSet(T) /\ Total(B, T \ {k}) = Total(A, S \ {k})
  BY <1>1, <1>2, BytesOfOthers
<1>4. A[k] = Length(s[k]) /\ B[k] = Length(t[k])
  BY <1>1 DEF Bytes, Length
<1>5. A[k] \in Int /\ Total(A, S \ {k}) \in Int /\ Total(A, S) = Total(A, S \ {k}) + A[k]
  BY <1>2, ApartEffect
<1>6. B[k] \in Int /\ Total(B, T) = Total(B, T \ {k}) + B[k]
  BY <1>3, ApartEffect
<1>. HIDE DEF A, B, S, T
<1>7. c - Length(s[k]) + Length(t[k]) = Total(B, T)
  BY <1>2, <1>3, <1>4, <1>5, <1>6
<1>. QED BY <1>3, <1>7 DEF Sized, B, T

LEMMA SizeStep ==
    ASSUME LRUInv, LRUInv', SizeInv, [Next]_vars
    PROVE  SizeInv'
<1>1. storage \in Stored /\ storage' \in Stored /\ curSize \in Int
  BY DEF LRUInv, Matches, Rest
<1>2. ASSUME NEW k \in Key, NEW v \in Value, Write(k, v) PROVE SizeInv'
  <2>1. storage' = [storage EXCEPT ![k] = v]
        /\ curSize' = curSize - Length(storage[k]) + Size[v]
    BY <1>2 DEF Write
  <2>2. storage'[k] = v /\ \A l \in Key : l # k => storage'[l] = storage[l]
    BY <1>1, <2>1 DEF Stored
  <2>3. Length(storage'[k]) = Size[v]
    BY <2>2, LRUAssumption DEF Length
  <2>. QED BY <1>1, <2>1, <2>2, <2>3, ChangeEffect DEF SizeInv
<1>3. ASSUME NEW k \in Key, storage' = [storage EXCEPT ![k] = NoValue],
             curSize' = curSize - Length(storage[k])
      PROVE  SizeInv'
  <2>1. storage'[k] = NoValue /\ \A l \in Key : l # k => storage'[l] = storage[l]
    BY <1>1, <1>3 DEF Stored
  <2>2. Length(storage'[k]) = 0 /\ Length(storage[k]) \in Int
    BY <1>1, <2>1, LengthEffect DEF Length
  <2>3. Sized(storage', curSize - Length(storage[k]) + Length(storage'[k]))
    BY <1>1, <2>1, ChangeEffect DEF SizeInv
  <2>4. curSize - Length(storage[k]) + Length(storage'[k]) = curSize'
    BY <1>1, <1>3, <2>2
  <2>. QED BY <2>3, <2>4 DEF SizeInv
<1>4. Evict => SizeInv'
  <2>1. list # <<>> => Last(list) \in Key
    BY FrontOnce DEF LRUInv, Matches
  <2>. QED BY <1>3, <2>1 DEF Evict
<1>5. \A k \in Key : Delete(k) => SizeInv'
  BY <1>3 DEF Delete
<1>6. UNCHANGED <<storage, curSize>> => SizeInv'
  BY DEF SizeInv
<1>. QED BY <1>2, <1>4, <1>5, <1>6
         DEF Next, vars, EndWrite, Receive, promoter, Load, Return

\* The size and the values that it counts: inductive, given the invariant.
LEMMA SizeInvariant == Spec => []SizeInv
<1>1. Init => SizeInv
  <2>. SUFFICES ASSUME Init PROVE SizeInv
    OBVIOUS
  <2>1. Valued(storage, NoValue) = {}
    BY DEF Init, Valued
  <2>. QED BY <2>1, TotalEmpty, FS_EmptySet DEF Init, Sized, SizeInv
<1>2. LRUInv /\ LRUInv' /\ SizeInv /\ [Next]_vars => SizeInv'
  BY SizeStep
<1>. QED BY <1>1, <1>2, LRUInvariant, PTL DEF Spec

\* curSize counts what the map holds, byte for byte, however overwrites,
\* deletions, evictions and promotions follow one another (lru.go 79, 88, 94,
\* 110), so the limit bounds the storage for as long as the process runs.
THEOREM SizeExact == Spec => []SizeIsExact
<1>1. LRUInv /\ SizeInv => SizeIsExact
  <2>. SUFFICES ASSUME LRUInv, SizeInv PROVE SizeIsExact
    OBVIOUS
  <2>1. storage \in [Key -> Value \cup {NoValue}] /\ StoredKeys = Valued(storage, NoValue)
    BY DEF LRUInv, Matches, Stored, StoredKeys, Valued
  <2>2. IsFiniteSet(Valued(storage, NoValue))
        /\ curSize = Total(Bytes(storage, NoValue, Size), StoredKeys)
    BY <2>1 DEF SizeInv, Sized
  <2>3. StoredKeys \in SUBSET Valued(storage, NoValue)
    BY <2>1
  <2>4. LengthOfKeys(Size, storage, StoredKeys) = Total(Bytes(storage, NoValue, Size), StoredKeys)
    BY <2>1, <2>2, <2>3, BytesOfKeys, LRUAssumption
  <2>5. curSize = LengthOfKeys(Size, storage, StoredKeys)
    BY <2>2, <2>4
  <2>. QED BY <2>5 DEF SizeIsExact, LengthOfKeys
<1>. QED BY <1>1, LRUInvariant, SizeInvariant, PTL

-----------------------------------------------------------------------------
(* The refinement: the list, from its back, is the queue of the evicting    *)
(* cache; a Write under way is at some point of its evictions.              *)

Shows(e, q, s) == Lists(Reverse(q), s, Key, Value) /\ e = Listing(Reverse(q), s)

\* What the Write of k has left of the contents e at the last unlock.
Evicting(k, e, q, s, limit) ==
    /\ k \in Key
    /\ Lists(Reverse(q), s, Key, Value)
    /\ \E v \in Value :
        /\ Renewed(e, k, v) \in Seq(EntriesOf(Key, Value))
        /\ Trimmed(Listing(Reverse(q), s), Renewed(e, k, v), Size, limit)

CacheInv ==
    /\ mu = NoKey => Shows(committed.entries, list, storage)
    /\ mu # NoKey => Evicting(mu, committed.entries, list, storage, maxSize)

\* A key that is written or promoted comes last.
LEMMA RenewEffect ==
    ASSUME NEW q \in Seq(Key), Once(q), NEW e, NEW s, Shows(e, q, s), NEW k \in Key,
           NEW t, t[k] \in Value, \A l \in Key : l # k => t[l] = s[l]
    PROVE  Shows(Renewed(e, k, t[k]), <<k>> \o RemoveFirst(q, k), t)
<1>1. Reverse(<<k>> \o RemoveFirst(q, k)) = Append(RemoveFirst(Reverse(q), k), k)
  <2>. DEFINE d == RemoveFirst(q, k)
  <2>1. d \in Seq(Key) /\ Reverse(d) = RemoveFirst(Reverse(q), k)
    BY DropEffect, ReverseWithout
  <2>. HIDE DEF d
  <2>2. Reverse(<<k>> \o d) = Append(Reverse(d), k)
    BY <2>1, ReversePush
  <2>. QED BY <2>1, <2>2 DEF d
<1>2. Lists(Reverse(q), s, Key, Value) /\ e = Listing(Reverse(q), s)
  BY DEF Shows
<1>3. Lists(Append(RemoveFirst(Reverse(q), k), k), t, Key, Value)
      /\ Renewed(Listing(Reverse(q), s), k, t[k]) = Listing(Append(RemoveFirst(Reverse(q), k), k), t)
  BY <1>2, ListingRenewed
<1>. QED BY <1>1, <1>2, <1>3 DEF Shows

\* A key that is deleted leaves.
LEMMA WithoutEffect ==
    ASSUME NEW q \in Seq(Key), Once(q), NEW e, NEW s, Shows(e, q, s), NEW k \in Key,
           NEW t, \A l \in Key : l # k => t[l] = s[l]
    PROVE  Shows(WithoutKey(e, k), RemoveFirst(q, k), t)
<1>1. Reverse(RemoveFirst(q, k)) = RemoveFirst(Reverse(q), k)
  BY ReverseWithout
<1>2. Lists(Reverse(q), s, Key, Value) /\ e = Listing(Reverse(q), s)
  BY DEF Shows
<1>3. Lists(RemoveFirst(Reverse(q), k), t, Key, Value)
      /\ WithoutKey(Listing(Reverse(q), s), k) = Listing(RemoveFirst(Reverse(q), k), t)
  BY <1>2, ListingWithout
<1>. QED BY <1>1, <1>2, <1>3 DEF Shows

\* The listing is as long as curSize says.
LEMMA FitsEffect ==
    ASSUME LRUInv, SizeInv, Lists(Reverse(list), storage, Key, Value), NEW limit
    PROVE  Fits(Listing(Reverse(list), storage), Size, limit) <=> curSize <= limit \/ list = <<>>
<1>1. Size \in [Value -> Nat] /\ NoValue \notin Value /\ storage \in [Key -> Value \cup {NoValue}]
      /\ IsFiniteSet(Valued(storage, NoValue))
      /\ curSize = Total(Bytes(storage, NoValue, Size), Valued(storage, NoValue))
  BY LRUAssumption DEF LRUInv, Matches, Stored, SizeInv, Sized
<1>2. list \in Seq(Key) /\ \A k \in Key : In(k, list) <=> storage[k] # NoValue
  BY DEF LRUInv, Matches
<1>3. \A k \in Key : In(k, Reverse(list)) <=> storage[k] # NoValue
  BY <1>2, ReverseOnce
<1>4. Fits(Listing(Reverse(list), storage), Size, limit) <=> curSize <= limit \/ Reverse(list) = <<>>
  BY <1>1, <1>3, ListingFits
<1>5. Reverse(list) = <<>> <=> list = <<>>
  <2>1. Reverse(list) \in Seq(Key) /\ Len(Reverse(list)) = Len(list)
    BY <1>2, ReverseIn
  <2>. QED BY <1>2, <2>1
<1>. QED BY <1>4, <1>5

LEMMA DoneEntries ==
    ASSUME NEW q \in Seq(Key), NEW op, NEW k
    PROVE  Done(op, k, q).entries = Listing(Reverse(q), storage) /\ Done(op, k, q).last = <<op, k>>
<1>1. Len(Reverse(q)) = Len(q)
  BY ReverseIn
<1>. QED BY <1>1 DEF Done, Listing, Entry

\* The end of a Delete is the whole of the cache's.
LEMMA DeleteEffect ==
    ASSUME LRUInv, CacheInv, NEW k \in Key, Delete(k)
    PROVE  /\ mu' = NoKey /\ maxSize' = maxSize
           /\ Shows(committed'.entries, list', storage')
           /\ committed'.entries = WithoutKey(committed.entries, k)
           /\ committed'.last = <<"forget", k>>
<1>1. mu = NoKey /\ mu' = mu /\ maxSize' = maxSize /\ list' = RemoveFirst(list, k)
      /\ storage' = [storage EXCEPT ![k] = NoValue]
  BY DEF Delete
<1>2. list \in Seq(Key) /\ Once(list) /\ storage \in Stored
      /\ \A l \in Key : In(l, list) <=> storage[l] # NoValue
  BY DEF LRUInv, Matches
<1>3. \A l \in Key : l # k => storage'[l] = storage[l]
  BY <1>1, <1>2 DEF Stored
<1>4. Shows(committed.entries, list, storage)
  BY <1>1 DEF CacheInv
<1>5. list' \in Seq(Key) /\ \A l \in Key : In(l, list') <=> In(l, list) /\ l # k
  BY <1>1, <1>2, DropEffect
<1>6. Shows(WithoutKey(committed.entries, k), list', storage')
  BY <1>1, <1>2, <1>3, <1>4, WithoutEffect
<1>7. Shows(WithoutKey(committed.entries, k), list', storage)
  BY <1>1, <1>2, <1>4, WithoutEffect
<1>8. committed'.entries = Listing(Reverse(list'), storage) /\ committed'.last = <<"forget", k>>
  BY <1>5, DoneEntries DEF Delete
<1>9. committed'.entries = WithoutKey(committed.entries, k)
  BY <1>7, <1>8 DEF Shows
<1>. QED BY <1>1, <1>6, <1>8, <1>9

\* A promotion moves the entry that the key has by now.
LEMMA promoterEffect ==
    ASSUME LRUInv, CacheInv, promoter, storage[promoting] # NoValue
    PROVE  /\ promoting \in Key /\ mu' = NoKey /\ maxSize' = maxSize
           /\ Shows(committed'.entries, list', storage')
           /\ committed'.entries = Renewed(committed.entries, promoting, storage[promoting])
           /\ \E i \in 1 .. Len(committed.entries) :
                    committed.entries[i] = Entry(promoting, storage[promoting])
           /\ committed'.last = <<"touch", promoting>>
<1>. DEFINE k == promoting
            e == committed.entries
            q == Reverse(list)
<1>1. k \in Key /\ mu = NoKey /\ mu' = mu /\ maxSize' = maxSize /\ storage' = storage
      /\ list' = <<k>> \o RemoveFirst(list, k) /\ committed' = Done("touch", k, list')
  BY DEF promoter, LRUInv, Rest
<1>2. list \in Seq(Key) /\ Once(list) /\ storage \in Stored
      /\ \A l \in Key : In(l, list) <=> storage[l] # NoValue
  BY DEF LRUInv, Matches
<1>3. storage[k] \in Value
  BY <1>1, <1>2 DEF Stored
<1>4. Shows(e, list, storage)
  BY <1>1 DEF CacheInv
<1>5. Shows(Renewed(e, k, storage[k]), list', storage)
  BY <1>1, <1>2, <1>3, <1>4, RenewEffect
<1>6. list' \in Seq(Key)
  BY <1>1, <1>2, FrontEffect
<1>7. committed'.entries = Listing(Reverse(list'), storage) /\ committed'.last = <<"touch", k>>
  BY <1>1, <1>6, DoneEntries
<1>8. committed'.entries = Renewed(e, k, storage[k])
  BY <1>5, <1>7 DEF Shows
<1>9. \E i \in 1 .. Len(e) : e[i] = Entry(k, storage[k])
  <2>1. In(k, q)
    BY <1>1, <1>2, ReverseOnce
  <2>2. PICK i \in 1 .. Len(q) : q[i] = k
    BY <2>1 DEF In
  <2>. HIDE DEF q
  <2>3. Written(e, q, storage, Key, Value)
    BY <1>4, ListingPlaces DEF Shows, q
  <2>. QED BY <2>2, <2>3 DEF Written
<1>. QED BY <1>1, <1>5, <1>7, <1>8, <1>9

LEMMA CacheStep ==
    ASSUME LRUInv, LRUInv', SizeInv, CacheInv, [Next]_vars
    PROVE  CacheInv'
<1>. DEFINE e == committed.entries
<1>1. list \in Seq(Key) /\ Once(list) /\ storage \in Stored
  BY DEF LRUInv, Matches
<1>2. ASSUME NEW k \in Key, NEW v \in Value, Write(k, v) PROVE CacheInv'
  <2>1. mu = NoKey /\ mu' = k /\ storage' = [storage EXCEPT ![k] = v]
        /\ list' = <<k>> \o RemoveFirst(list, k) /\ UNCHANGED <<maxSize, committed>>
    BY <1>2 DEF Write
  <2>2. storage'[k] = v /\ \A l \in Key : l # k => storage'[l] = storage[l]
    BY <1>1, <2>1 DEF Stored
  <2>3. Shows(e, list, storage)
    BY <2>1 DEF CacheInv
  <2>4. Shows(Renewed(e, k, v), list', storage')
    <3>1. storage'[k] \in Value
      BY <2>2
    <3>2. Shows(Renewed(e, k, storage'[k]), <<k>> \o RemoveFirst(list, k), storage')
      BY <1>1, <2>2, <2>3, <3>1, RenewEffect
    <3>. QED BY <2>1, <2>2, <3>2
  <2>5. Lists(Reverse(list'), storage', Key, Value) /\ Renewed(e, k, v) = Listing(Reverse(list'), storage')
    BY <2>4 DEF Shows
  <2>6. Renewed(e, k, v) \in Seq(EntriesOf(Key, Value))
    BY <2>5, ListingPlaces DEF Written
  <2>7. Trimmed(Renewed(e, k, v), Renewed(e, k, v), Size, maxSize)
    BY <2>6, TrimNone
  <2>8. Evicting(mu', committed'.entries, list', storage', maxSize')
    BY <2>1, <2>5, <2>6, <2>7 DEF Evicting
  <2>. QED BY <2>1, <2>8, LRUAssumption DEF CacheInv
<1>3. ASSUME Evict PROVE CacheInv'
  <2>. DEFINE b == Last(list)
              q == Reverse(list)
  <2>1. mu # NoKey /\ mu' = mu /\ storage' = [storage EXCEPT ![b] = NoValue]
        /\ list' = Front(list) /\ UNCHANGED <<maxSize, committed>>
        /\ ~ curSize <= maxSize /\ list # <<>>
    <3>1. curSize \in Int /\ maxSize \in Int
      BY LRUAssumption DEF LRUInv, Rest
    <3>. QED BY <1>3, <3>1 DEF Evict
  <2>2. mu \in Key /\ Lists(q, storage, Key, Value)
    BY <2>1 DEF CacheInv, Evicting
  <2>3. PICK v \in Value : Renewed(e, mu, v) \in Seq(EntriesOf(Key, Value))
                           /\ Trimmed(Listing(q, storage), Renewed(e, mu, v), Size, maxSize)
    BY <2>1 DEF CacheInv, Evicting
  <2>4. ~ Fits(Listing(q, storage), Size, maxSize)
    BY <2>1, <2>2, FitsEffect
  <2>5. Trimmed(Tail(Listing(q, storage)), Renewed(e, mu, v), Size, maxSize)
    BY <2>3, <2>4, TrimOne
  <2>6. q # <<>> /\ Head(q) = b /\ Reverse(list') = Tail(q)
    BY <1>1, <2>1, ReverseFront
  <2>7. \A l \in Key : l # Head(q) => storage'[l] = storage[l]
    BY <1>1, <2>1, <2>6 DEF Stored
  <2>8. Lists(Tail(q), storage', Key, Value)
        /\ Tail(Listing(q, storage)) = Listing(Tail(q), storage')
    <3>. HIDE DEF q
    <3>1. q # <<>> /\ Lists(q, storage, Key, Value)
      BY <2>2, <2>6
    <3>. QED BY <2>7, <3>1, ListingTail
  <2>9. Evicting(mu', committed'.entries, list', storage', maxSize')
    BY <2>1, <2>2, <2>3, <2>5, <2>6, <2>8 DEF Evicting
  <2>. QED BY <2>1, <2>9 DEF CacheInv
<1>4. ASSUME EndWrite PROVE CacheInv'
  <2>1. mu # NoKey /\ mu' = NoKey /\ UNCHANGED <<storage, list>>
        /\ committed'.entries = Listing(Reverse(list), storage)
    BY <1>1, <1>4, DoneEntries DEF EndWrite
  <2>. QED BY <2>1 DEF CacheInv, Evicting, Shows
<1>5. ASSUME NEW k \in Key, Delete(k) PROVE CacheInv'
  BY <1>5, DeleteEffect DEF CacheInv
<1>6. ASSUME promoter, storage[promoting] # NoValue PROVE CacheInv'
  BY <1>6, promoterEffect DEF CacheInv
<1>7. UNCHANGED <<storage, list, mu, maxSize, committed>> => CacheInv'
  BY DEF CacheInv
<1>. QED BY <1>2, <1>3, <1>4, <1>5, <1>6, <1>7
         DEF Next, vars, Receive, promoter, Load, Return

\* The operators of the evicting cache by their names here.
LEMMA CacheOperators ==
    /\ \A k : Cache!Without(k) = WithoutKey(committed.entries, k)
    /\ \A q : Cache!Weight(q) = LengthOfEntries(Size, q)
<1>1. ASSUME NEW k PROVE Cache!Without(k) = WithoutKey(committed.entries, k)
  BY DEF Cache!Without, Cache!RemoveFirstMatch, Cache!SelectInSeq, Cache!RemoveAt, Cache!Min,
         WithoutKey, RemoveFirstMatch, SelectInSeq, RemoveAt, Min
<1>2. ASSUME NEW q PROVE Cache!Weight(q) = LengthOfEntries(Size, q)
  BY DEF Cache!Weight, Cache!FoldLeft, Cache!MapThenFoldSet, Cache!Max,
         LengthOfEntries, FoldLeft, MapThenFoldSet, Max
<1>. QED BY <1>1, <1>2

\* The end of a Write is the whole of the cache's.
LEMMA EndWriteIsPut ==
    ASSUME LRUInv, SizeInv, CacheInv, EndWrite
    PROVE  Cache!Next
<1>. DEFINE e == committed.entries
            l == Listing(Reverse(list), storage)
<1>1. mu # NoKey /\ maxSize' = maxSize /\ (curSize <= maxSize \/ list = <<>>)
      /\ list \in Seq(Key) /\ committed' = Done("put", mu, list)
  BY DEF EndWrite, LRUInv, Matches
<1>2. mu \in Key /\ Lists(Reverse(list), storage, Key, Value)
  BY <1>1 DEF CacheInv, Evicting
<1>3. PICK v \in Value : Trimmed(l, Renewed(e, mu, v), Size, maxSize)
  BY <1>1 DEF CacheInv, Evicting
<1>4. Fits(l, Size, maxSize)
  BY <1>1, <1>2, FitsEffect
<1>5. committed'.entries = l /\ committed'.last = <<"put", mu>>
  BY <1>1, DoneEntries
<1>. HIDE DEF e, l
<1>6. Cache!Put(mu, v)
  <2>. DEFINE q == Renewed(e, mu, v)
  <2>1. Append(Cache!Without(mu), [key |-> mu, val |-> v]) = q
    BY CacheOperators DEF Renewed, Entry, e
  <2>2. PICK i \in 0 .. Len(q) : /\ l = SubSeq(q, i + 1, Len(q))
                                /\ \A j \in 0 .. i - 1 : ~ Fits(SubSeq(q, j + 1, Len(q)), Size, maxSize)
    BY <1>3 DEF Trimmed
  <2>. HIDE DEF q
  <2>3. \A j : Fits(SubSeq(q, j + 1, Len(q)), Size, maxSize)
                <=> Cache!Weight(SubSeq(q, j + 1, Len(q))) <= maxSize \/ SubSeq(q, j + 1, Len(q)) = <<>>
    BY CacheOperators DEF Fits
  <2>. QED BY <1>4, <1>5, <2>1, <2>2, <2>3 DEF Cache!Put
<1>. QED BY <1>1, <1>2, <1>6 DEF Cache!Next

LEMMA DeleteIsForget ==
    ASSUME LRUInv, CacheInv, NEW k \in Key, Delete(k)
    PROVE  Cache!Next
<1>1. maxSize' = maxSize /\ committed'.entries = WithoutKey(committed.entries, k)
      /\ committed'.last = <<"forget", k>>
  BY DeleteEffect
<1>2. Cache!Forget(k)
  BY <1>1, CacheOperators DEF Cache!Forget
<1>. QED BY <1>1, <1>2 DEF Cache!Next

LEMMA promoterIsTouch ==
    ASSUME LRUInv, CacheInv, promoter, storage[promoting] # NoValue
    PROVE  Cache!Next
<1>. DEFINE e == committed.entries
<1>1. promoting \in Key /\ maxSize' = maxSize /\ committed'.last = <<"touch", promoting>>
      /\ committed'.entries = Renewed(e, promoting, storage[promoting])
  BY promoterEffect
<1>2. PICK i \in 1 .. Len(e) : e[i] = Entry(promoting, storage[promoting])
  BY promoterEffect
<1>3. e[i].key = promoting /\ Append(Cache!Without(promoting), e[i]) = committed'.entries
  BY <1>1, <1>2, CacheOperators, EntryEffect DEF Renewed
<1>4. Cache!Touch(promoting)
  BY <1>1, <1>3 DEF Cache!Touch
<1>. QED BY <1>1, <1>4 DEF Cache!Next

\* Every Write, every Delete and every promotion is, at its unlock, one step of
\* the evicting cache, and nothing else changes what the storage holds: the least
\* recently used entries go first, no more of them than the limit asks for, and a
\* promotion, however late, moves an entry that is there (lru.go 43-115), for any
\* readers, values, limit and capacity of the channel.
THEOREM LRUImplementsCache == Spec => ImplementsCache
<1>1. Init => Cache!Init /\ CacheInv
  <2>. SUFFICES ASSUME Init PROVE Cache!Init /\ CacheInv
    OBVIOUS
  <2>. DEFINE q == Reverse(list)
  <2>1. committed.entries = <<>> /\ committed.last = <<>> /\ list = <<>> /\ list \in Seq(Key)
    BY DEF Init
  <2>2. q \in Seq(Key) /\ Len(q) = 0
    BY <2>1, ReverseIn
  <2>. HIDE DEF q
  <2>3. Lists(q, storage, Key, Value)
    BY <2>2 DEF Lists, Once, In
  <2>4. Listing(q, storage) = <<>>
    <3>1. Len(Listing(q, storage)) = 0 /\ Listing(q, storage) \in Seq(EntriesOf(Key, Value))
      BY <2>2, <2>3, ListingPlaces DEF Written
    <3>. QED BY <3>1
  <2>. QED BY <2>1, <2>3, <2>4 DEF Cache!Init, CacheInv, Shows, Init, q
<1>2. LRUInv /\ LRUInv' /\ SizeInv /\ CacheInv /\ [Next]_vars => CacheInv'
  BY CacheStep
<1>3. LRUInv /\ SizeInv /\ CacheInv /\ [Next]_vars => [Cache!Next]_(Cache!vars)
  <2>. SUFFICES ASSUME LRUInv, SizeInv, CacheInv, [Next]_vars PROVE [Cache!Next]_(Cache!vars)
    OBVIOUS
  <2>1. ASSUME UNCHANGED <<committed, maxSize>> PROVE [Cache!Next]_(Cache!vars)
    BY <2>1 DEF Cache!vars
  <2>2. EndWrite => Cache!Next
    BY EndWriteIsPut
  <2>3. \A k \in Key : Delete(k) => Cache!Next
    BY DeleteIsForget
  <2>4. promoter => Cache!Next \/ UNCHANGED <<committed, maxSize>>
    BY promoterIsTouch DEF promoter
  <2>. QED BY <2>1, <2>2, <2>3, <2>4 DEF Next, vars, Write, Evict, Receive, Load, Return
<1>. QED BY <1>1, <1>2, <1>3, LRUInvariant, SizeInvariant, PTL DEF Spec, ImplementsCache, Cache!Spec

=============================================================================
