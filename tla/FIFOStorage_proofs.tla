------------------------- MODULE FIFOStorage_proofs -------------------------
(***************************************************************************)
(* Proofs about the FIFO storage, its invariants and that it implements    *)
(* the evicting cache, for any number of threads, keys and values, and     *)
(* limits of either sign.                                                  *)
(***************************************************************************)
EXTENDS FIFOStorage, KeyQueues

ThreadState ==
    [pc : {"idle", "put", "hash", "evict", "unhash", "delete", "reading", "walking"},
     key : Key \cup {NoKey}, val : Value \cup {NoValue}, out : Key \cup {NoKey}]

\* What the thread in state r has in its hand is a key, and a value if it has one.
Hand(r) ==
    /\ r \in ThreadState
    /\ r.pc \in {"put", "hash", "delete"} => r.key \in Key
    /\ r.pc \in {"put", "hash"} => r.val \in Value
    /\ r.pc = "unhash" => r.out \in Key

\* The three collections agree about k,
Exact(q, s, h, k) == (In(k, q) <=> s[k] # NoValue) /\ (k \in h <=> s[k] # NoValue)

\* or k is in the hand of the thread in state r, which has got so far with it.
Held(r, q, s, h, k) ==
    IF r.pc = "put" /\ k = r.key THEN In(k, q)
    ELSE IF r.pc = "hash" /\ k = r.key THEN In(k, q) /\ s[k] # NoValue
    ELSE IF r.pc = "unhash" /\ k = r.out THEN ~ In(k, q) /\ s[k] = NoValue
    ELSE IF r.pc = "delete" /\ k = r.key THEN In(k, q) /\ s[k] = NoValue
    ELSE Exact(q, s, h, k)

Data ==
    /\ storage \in [Key -> Value \cup {NoValue}]
    /\ hashes \subseteq Key
    /\ order \in Seq(Key) /\ Once(order)
    /\ curSize \in Int /\ maxSize \in Limits
    /\ faulted \in BOOLEAN
    /\ committed.entries \in Seq([key : Key, val : Value])

Threads ==
    /\ mu \in Thread \cup {NoThread}
    /\ thread \in [Thread -> ThreadState]
    /\ \A t \in Thread : Hand(thread[t])
    /\ \A t \in Thread : thread[t].pc \in Inside <=> mu = t

Agreement ==
    \A k \in Key :
        /\ mu = NoThread => Exact(order, storage, hashes, k)
        /\ \A t \in Thread : mu = t => Held(thread[t], order, storage, hashes, k)

FIFOInv == Data /\ Threads /\ Agreement

-----------------------------------------------------------------------------
(* Who acts, and what is to be shown of a step.                             *)

LEMMA Acting ==
    ASSUME FIFOInv, NEW t \in Thread, thread[t].pc \in Inside
    PROVE  mu = t /\ Hand(thread[t]) /\ \A k \in Key : Held(thread[t], order, storage, hashes, k)
  BY DEF FIFOInv, Threads, Agreement

LEMMA Locking ==
    ASSUME FIFOInv, NEW t \in Thread, Lock(t)
    PROVE  mu = NoThread /\ \A k \in Key : Exact(order, storage, hashes, k)
  BY DEF FIFOInv, Agreement, Lock

\* The step of the thread t that has the mutex before or after it.
LEMMA OwnerStep ==
    ASSUME FIFOInv, Data', NEW t \in Thread, NEW r, Hand(r), thread' = [thread EXCEPT ![t] = r],
           mu \in {t, NoThread}, mu' \in {t, NoThread}, r.pc \in Inside <=> mu' = t,
           \A k \in Key : IF mu' = t THEN Held(r, order', storage', hashes', k)
                                     ELSE Exact(order', storage', hashes', k)
    PROVE  FIFOInv'
<1>1. t # NoThread /\ \A d \in Thread : d # NoThread
  BY FIFOAssumption
<1>2. thread \in [Thread -> ThreadState] /\ r \in ThreadState
  BY DEF FIFOInv, Threads, Hand
<1>3. thread'[t] = r /\ \A d \in Thread : d # t => thread'[d] = thread[d]
  BY <1>2
<1>4. thread' \in [Thread -> ThreadState]
  BY <1>2
<1>5. \A d \in Thread : Hand(thread'[d])
  BY <1>3 DEF FIFOInv, Threads
<1>6. ASSUME NEW d \in Thread PROVE thread'[d].pc \in Inside <=> mu' = d
  <2>1. CASE d = t
    BY <1>3, <2>1
  <2>2. CASE d # t
    BY <1>1, <1>3, <2>2 DEF FIFOInv, Threads
  <2>. QED BY <2>1, <2>2
<1>7. Threads'
  BY <1>4, <1>5, <1>6 DEF Threads
<1>8. Agreement'
  <2>1. ASSUME NEW k \in Key, mu' = NoThread PROVE Exact(order', storage', hashes', k)
    BY <1>1, <2>1
  <2>2. ASSUME NEW k \in Key, NEW d \in Thread, mu' = d
        PROVE  Held(thread'[d], order', storage', hashes', k)
    BY <1>1, <1>3, <2>2
  <2>. QED BY <2>1, <2>2 DEF Agreement
<1>. QED BY <1>7, <1>8 DEF FIFOInv

\* The step of a reader, beside whatever is under way.
LEMMA ReaderStep ==
    ASSUME FIFOInv, NEW t \in Thread, NEW pc \in {"idle", "reading", "walking"},
           thread[t].pc \notin Inside, Become(t, pc, NoKey, NoValue),
           UNCHANGED <<storage, hashes, order, curSize, maxSize, mu, faulted, committed>>
    PROVE  FIFOInv'
<1>. DEFINE r == [pc |-> pc, key |-> NoKey, val |-> NoValue, out |-> NoKey]
<1>1. r.pc = pc /\ r \in ThreadState /\ Hand(r) /\ r.pc \notin Inside
  BY DEF ThreadState, Hand, Inside
<1>2. thread' = [thread EXCEPT ![t] = r]
  BY DEF Become
<1>. HIDE DEF r
<1>3. thread \in [Thread -> ThreadState] /\ mu # t
  BY DEF FIFOInv, Threads
<1>4. thread'[t] = r /\ \A d \in Thread : d # t => thread'[d] = thread[d]
  BY <1>2, <1>3
<1>5. Threads'
  BY <1>1, <1>2, <1>3, <1>4 DEF FIFOInv, Threads
<1>6. Agreement'
  BY <1>3, <1>4 DEF FIFOInv, Agreement
<1>7. Data'
  BY DEF FIFOInv, Data
<1>. QED BY <1>5, <1>6, <1>7 DEF FIFOInv

\* Race leaves a truth value, and lengths are integers.
LEMMA RaceEffect == ASSUME NEW pc, Race(pc) PROVE faulted' \in BOOLEAN
  BY DEF Race

LEMMA LengthEffect == ASSUME NEW v \in Value \cup {NoValue} PROVE Length(v) \in Int
  BY FIFOAssumption DEF Length

\* The state that Become gives to a thread.
State(pc, k, v) == [pc |-> pc, key |-> k, val |-> v, out |-> NoKey]

LEMMA StateEffect ==
    ASSUME NEW pc \in {"idle", "put", "hash", "evict", "delete"},
           NEW k \in Key \cup {NoKey}, NEW v \in Value \cup {NoValue},
           pc \in {"put", "hash", "delete"} => k \in Key, pc \in {"put", "hash"} => v \in Value
    PROVE  /\ Hand(State(pc, k, v))
           /\ State(pc, k, v).pc = pc /\ State(pc, k, v).key = k /\ State(pc, k, v).val = v
  BY DEF State, Hand, ThreadState

-----------------------------------------------------------------------------
(* The steps.                                                               *)

LEMMA WriteStep ==
    ASSUME FIFOInv, NEW t \in Thread, NEW k \in Key, NEW v \in Value, Write(t, k, v)
    PROVE  FIFOInv'
<1>. DEFINE q == IF storage[k] = NoValue THEN order ELSE RemoveFirst(order, k)
            r == State("put", k, v)
<1>1. mu = NoThread /\ \A l \in Key : Exact(order, storage, hashes, l)
  BY Locking DEF Write
<1>2. order \in Seq(Key) /\ Once(order) /\ storage \in [Key -> Value \cup {NoValue}]
  BY DEF FIFOInv, Data
<1>3. q \in Seq(Key) /\ Once(q) /\ \A l \in Key : In(l, q) <=> In(l, order) /\ l # k
  <2>1. CASE storage[k] = NoValue
    BY <1>1, <1>2, <2>1 DEF Exact
  <2>2. CASE storage[k] # NoValue
    BY <1>1, <1>2, <2>2, RemoveFirstOnce DEF Exact
  <2>. QED BY <2>1, <2>2
<1>4. order' = Append(q, k) /\ storage' = storage /\ hashes' = hashes /\ mu' = t
      /\ thread' = [thread EXCEPT ![t] = r]
  BY DEF Write, Become, State
<1>. HIDE DEF q
<1>5. order' \in Seq(Key) /\ Once(order') /\ \A l \in Key : In(l, order') <=> In(l, q) \/ l = k
  BY <1>3, <1>4, AppendOnce
<1>6. Hand(r) /\ r.pc = "put" /\ r.key = k
  BY StateEffect
<1>7. Data'
  <2>1. curSize' \in Int
    BY <1>2, LengthEffect DEF Write, FIFOInv, Data
  <2>. QED BY <1>4, <1>5, <2>1 DEF Write, FIFOInv, Data
<1>. HIDE DEF r
<1>8. \A l \in Key : Held(r, order', storage', hashes', l)
  BY <1>1, <1>3, <1>4, <1>5, <1>6 DEF Held, Exact
<1>. QED BY <1>1, <1>4, <1>6, <1>7, <1>8, OwnerStep DEF Inside

LEMMA PutValueStep ==
    ASSUME FIFOInv, NEW t \in Thread, PutValue(t)
    PROVE  FIFOInv'
<1>. DEFINE k == thread[t].key
            v == thread[t].val
            r == State("hash", k, v)
<1>1. thread[t].pc = "put"
  BY DEF PutValue, Holds
<1>2. mu = t /\ k \in Key /\ v \in Value
      /\ \A l \in Key : Held(thread[t], order, storage, hashes, l)
  BY <1>1, Acting DEF Inside, Hand
<1>3. storage \in [Key -> Value \cup {NoValue}]
  BY DEF FIFOInv, Data
<1>4. storage' = [storage EXCEPT ![k] = v] /\ order' = order /\ hashes' = hashes /\ mu' = mu
      /\ thread' = [thread EXCEPT ![t] = r]
  BY DEF PutValue, Become, State
<1>5. storage'[k] = v /\ v # NoValue /\ \A l \in Key : l # k => storage'[l] = storage[l]
  BY <1>2, <1>3, <1>4, FIFOAssumption
<1>6. Data'
  BY <1>2, <1>3, <1>4, RaceEffect DEF PutValue, FIFOInv, Data
<1>7. Hand(r) /\ r.pc = "hash" /\ r.key = k
  BY <1>2, StateEffect
<1>. HIDE DEF r
<1>8. \A l \in Key : Held(r, order', storage', hashes', l)
  BY <1>1, <1>2, <1>4, <1>5, <1>7 DEF Held, Exact
<1>. QED BY <1>2, <1>4, <1>6, <1>7, <1>8, OwnerStep DEF Inside

LEMMA PutHashStep ==
    ASSUME FIFOInv, NEW t \in Thread, PutHash(t)
    PROVE  FIFOInv'
<1>. DEFINE k == thread[t].key
            r == State("evict", k, NoValue)
<1>1. thread[t].pc = "hash"
  BY DEF PutHash, Holds
<1>2. mu = t /\ k \in Key /\ thread[t].val \in Value
      /\ \A l \in Key : Held(thread[t], order, storage, hashes, l)
  BY <1>1, Acting DEF Inside, Hand
<1>3. hashes' = hashes \cup {k} /\ order' = order /\ storage' = storage /\ mu' = mu
      /\ thread' = [thread EXCEPT ![t] = r]
  BY DEF PutHash, Become, State
<1>4. Data'
  <2>1. curSize' \in Int
    BY <1>2, LengthEffect DEF PutHash, FIFOInv, Data
  <2>. QED BY <1>2, <1>3, <2>1, RaceEffect DEF PutHash, FIFOInv, Data
<1>5. Hand(r) /\ r.pc = "evict"
  BY <1>2, StateEffect
<1>. HIDE DEF r
<1>6. \A l \in Key : Held(r, order', storage', hashes', l)
  BY <1>1, <1>2, <1>3, <1>5 DEF Held, Exact
<1>. QED BY <1>2, <1>3, <1>4, <1>5, <1>6, OwnerStep DEF Inside

LEMMA EvictStep ==
    ASSUME FIFOInv, NEW t \in Thread, Evict(t)
    PROVE  FIFOInv'
<1>. DEFINE o == Head(order)
            r == [thread[t] EXCEPT !.pc = "unhash", !.out = o]
<1>1. thread[t].pc = "evict" /\ order # <<>>
  BY DEF Evict, Holds
<1>2. mu = t /\ Hand(thread[t]) /\ \A l \in Key : Held(thread[t], order, storage, hashes, l)
  BY <1>1, Acting DEF Inside
<1>3. order \in Seq(Key) /\ Once(order) /\ storage \in [Key -> Value \cup {NoValue}]
      /\ thread \in [Thread -> ThreadState]
  BY DEF FIFOInv, Data, Threads
<1>4. o \in Key /\ In(o, order) /\ Tail(order) \in Seq(Key) /\ Once(Tail(order))
      /\ \A l \in Key : In(l, Tail(order)) <=> In(l, order) /\ l # o
  BY <1>1, <1>3, TailOnce
<1>5. order' = Tail(order) /\ storage' = [storage EXCEPT ![o] = NoValue] /\ hashes' = hashes
      /\ mu' = mu
  BY DEF Evict
<1>6. thread' = [thread EXCEPT ![t] = r]
  BY <1>3 DEF Evict
<1>7. storage'[o] = NoValue /\ \A l \in Key : l # o => storage'[l] = storage[l]
  BY <1>3, <1>4, <1>5
<1>8. Data'
  <2>1. storage[o] \in Value \cup {NoValue}
    BY <1>3, <1>4
  <2>2. curSize' \in Int
    BY <2>1, LengthEffect DEF Evict, FIFOInv, Data
  <2>3. storage' \in [Key -> Value \cup {NoValue}]
    BY <1>3, <1>4, <1>5
  <2>. QED BY <1>4, <1>5, <2>2, <2>3, RaceEffect DEF Evict, FIFOInv, Data
<1>9. Hand(r) /\ r.pc = "unhash" /\ r.out = o
  <2>1. thread[t] \in ThreadState
    BY <1>3
  <2>. QED BY <1>4, <2>1 DEF Hand, ThreadState
<1>. HIDE DEF r, o
<1>10. \A l \in Key : Held(r, order', storage', hashes', l)
  BY <1>1, <1>2, <1>4, <1>5, <1>7, <1>9 DEF Held, Exact
<1>. QED BY <1>2, <1>5, <1>6, <1>8, <1>9, <1>10, OwnerStep DEF Inside

LEMMA UnhashStep ==
    ASSUME FIFOInv, NEW t \in Thread, Unhash(t)
    PROVE  FIFOInv'
<1>. DEFINE k == thread[t].key
            r == State("evict", k, NoValue)
<1>1. thread[t].pc = "unhash"
  BY DEF Unhash, Holds
<1>2. mu = t /\ Hand(thread[t]) /\ \A l \in Key : Held(thread[t], order, storage, hashes, l)
  BY <1>1, Acting DEF Inside
<1>3. hashes' = hashes \ {thread[t].out} /\ order' = order /\ storage' = storage /\ mu' = mu
      /\ thread' = [thread EXCEPT ![t] = r]
  BY DEF Unhash, Become, State
<1>4. Data'
  BY <1>3, RaceEffect DEF Unhash, FIFOInv, Data
<1>5. Hand(r) /\ r.pc = "evict"
  <2>1. k \in Key \cup {NoKey}
    BY <1>2 DEF Hand, ThreadState
  <2>. QED BY <2>1, StateEffect
<1>. HIDE DEF r
<1>6. \A l \in Key : Held(r, order', storage', hashes', l)
  BY <1>1, <1>2, <1>3, <1>5 DEF Held, Exact
<1>. QED BY <1>2, <1>3, <1>4, <1>5, <1>6, OwnerStep DEF Inside

\* What is committed at an unlock: every queued key has a value.
LEMMA DoneEffect ==
    ASSUME NEW q \in Seq(Key), storage \in [Key -> Value \cup {NoValue}],
           \A l \in Key : In(l, q) => storage[l] # NoValue, NEW op, NEW k
    PROVE  Done(op, k, q).entries \in Seq([key : Key, val : Value])
<1>. DEFINE e == [i \in 1 .. Len(q) |-> [key |-> q[i], val |-> storage[q[i]]]]
<1>1. Done(op, k, q).entries = e
  BY DEF Done
<1>2. ASSUME NEW i \in 1 .. Len(q) PROVE [key |-> q[i], val |-> storage[q[i]]] \in [key : Key, val : Value]
  <2>1. q[i] \in Key /\ In(q[i], q)
    BY DEF In
  <2>2. storage[q[i]] \in Value
    BY <2>1
  <2>. QED BY <2>1, <2>2
<1>3. e \in [1 .. Len(q) -> [key : Key, val : Value]] /\ Len(q) \in Nat
  BY <1>2
<1>. DEFINE E == [key : Key, val : Value]
            n == Len(q)
<1>4. e \in [1 .. n -> E] /\ n \in Nat
  BY <1>3
<1>. HIDE DEF e, E, n
<1>5. e \in Seq(E)
  BY <1>4, SeqDef
<1>. QED BY <1>1, <1>5 DEF E

LEMMA EndWriteStep ==
    ASSUME FIFOInv, NEW t \in Thread, EndWrite(t)
    PROVE  FIFOInv'
<1>. DEFINE r == State("idle", NoKey, NoValue)
<1>1. thread[t].pc = "evict"
  BY DEF EndWrite, Holds
<1>2. mu = t /\ \A l \in Key : Held(thread[t], order, storage, hashes, l)
  BY <1>1, Acting DEF Inside
<1>3. \A l \in Key : Exact(order, storage, hashes, l)
  BY <1>1, <1>2 DEF Held
<1>4. hashes' = hashes /\ order' = order /\ storage' = storage /\ mu' = NoThread
      /\ thread' = [thread EXCEPT ![t] = r]
  BY DEF EndWrite, Become, State
<1>5. committed'.entries \in Seq([key : Key, val : Value])
  BY <1>3, DoneEffect DEF EndWrite, FIFOInv, Data, Exact
<1>6. Data'
  BY <1>4, <1>5 DEF EndWrite, FIFOInv, Data
<1>7. Hand(r) /\ r.pc = "idle"
  BY StateEffect
<1>. HIDE DEF r
<1>. QED BY <1>2, <1>3, <1>4, <1>6, <1>7, OwnerStep, FIFOAssumption DEF Inside

LEMMA DeleteStep ==
    ASSUME FIFOInv, NEW t \in Thread, NEW k \in Key, Delete(t, k)
    PROVE  FIFOInv'
<1>. DEFINE r == State("delete", k, NoValue)
<1>1. mu = NoThread /\ \A l \in Key : Exact(order, storage, hashes, l)
  BY Locking DEF Delete
<1>2. storage \in [Key -> Value \cup {NoValue}] /\ storage[k] # NoValue
  BY DEF FIFOInv, Data, Delete
<1>3. storage' = [storage EXCEPT ![k] = NoValue] /\ order' = order /\ hashes' = hashes /\ mu' = t
      /\ thread' = [thread EXCEPT ![t] = r]
  BY DEF Delete, Become, State
<1>4. storage'[k] = NoValue /\ \A l \in Key : l # k => storage'[l] = storage[l]
  BY <1>2, <1>3
<1>5. Data'
  <2>1. curSize' \in Int
    BY <1>2, LengthEffect DEF Delete, FIFOInv, Data
  <2>. QED BY <1>2, <1>3, <2>1, RaceEffect DEF Delete, FIFOInv, Data
<1>6. Hand(r) /\ r.pc = "delete" /\ r.key = k
  BY StateEffect
<1>. HIDE DEF r
<1>7. \A l \in Key : Held(r, order', storage', hashes', l)
  BY <1>1, <1>2, <1>3, <1>4, <1>6 DEF Held, Exact
<1>. QED BY <1>1, <1>3, <1>5, <1>6, <1>7, OwnerStep DEF Inside

LEMMA EndDeleteStep ==
    ASSUME FIFOInv, NEW t \in Thread, EndDelete(t)
    PROVE  FIFOInv'
<1>. DEFINE k == thread[t].key
            r == State("idle", NoKey, NoValue)
<1>1. thread[t].pc = "delete"
  BY DEF EndDelete, Holds
<1>2. mu = t /\ k \in Key /\ \A l \in Key : Held(thread[t], order, storage, hashes, l)
  BY <1>1, Acting DEF Inside, Hand
<1>3. order \in Seq(Key) /\ Once(order) /\ storage \in [Key -> Value \cup {NoValue}]
  BY DEF FIFOInv, Data
<1>4. hashes' = hashes \ {k} /\ order' = RemoveFirst(order, k) /\ storage' = storage
      /\ mu' = NoThread /\ thread' = [thread EXCEPT ![t] = r]
  BY DEF EndDelete, Become, State
<1>5. order' \in Seq(Key) /\ Once(order') /\ \A l \in Key : In(l, order') <=> In(l, order) /\ l # k
  BY <1>1, <1>2, <1>3, <1>4, RemoveFirstOnce DEF Held
<1>6. \A l \in Key : Exact(order', storage', hashes', l)
  BY <1>1, <1>2, <1>4, <1>5 DEF Held, Exact
<1>7. committed'.entries \in Seq([key : Key, val : Value])
  BY <1>3, <1>4, <1>5, <1>6, DoneEffect DEF EndDelete, Exact
<1>8. Data'
  BY <1>4, <1>5, <1>7, RaceEffect DEF EndDelete, FIFOInv, Data
<1>9. Hand(r) /\ r.pc = "idle"
  BY StateEffect
<1>. HIDE DEF r
<1>. QED BY <1>2, <1>4, <1>6, <1>8, <1>9, OwnerStep, FIFOAssumption DEF Inside

-----------------------------------------------------------------------------
(* The results.                                                             *)

\* The mutex, the maps and the queue: inductive.
THEOREM FIFOInvariant == Spec => []FIFOInv
<1>1. Init => FIFOInv
  <2>. SUFFICES ASSUME Init PROVE FIFOInv
    OBVIOUS
  <2>1. Data
    <3>1. <<>> \in Seq(Key) /\ Once(<<>>) /\ <<>> \in Seq([key : Key, val : Value])
      BY DEF Once
    <3>2. committed.entries = <<>>
      BY DEF Init
    <3>3. storage \in [Key -> Value \cup {NoValue}]
      BY DEF Init
    <3>4. hashes \subseteq Key /\ curSize \in Int /\ maxSize \in Limits /\ order = <<>>
      BY DEF Init
    <3>5. faulted \in BOOLEAN
      BY DEF Init
    <3>. QED BY <3>1, <3>2, <3>3, <3>4, <3>5 DEF Data
  <2>2. Hand(NotBusy) /\ NotBusy.pc \notin Inside
    BY DEF NotBusy, Hand, ThreadState, Inside
  <2>3. Threads
    BY <2>2, FIFOAssumption DEF Init, Threads, Hand
  <2>4. ASSUME NEW k \in Key PROVE Exact(order, storage, hashes, k)
    BY DEF Init, Exact, In
  <2>. QED BY <2>1, <2>3, <2>4, FIFOAssumption DEF FIFOInv, Agreement, Init
<1>2. FIFOInv /\ [Next]_vars => FIFOInv'
  <2>. SUFFICES ASSUME FIFOInv, [Next]_vars PROVE FIFOInv'
    OBVIOUS
  <2>1. CASE UNCHANGED vars
    BY <2>1 DEF vars, FIFOInv, Data, Threads, Agreement
  <2>2. ASSUME NEW t \in Thread, Read(t) \/ ListKeys(t) PROVE FIFOInv'
    <3>1. thread[t].pc \notin Inside
      BY <2>2 DEF Read, ListKeys, Use, NotBusy, Inside
    <3>. QED BY <2>2, <3>1, ReaderStep DEF Read, ListKeys, Use
  <2>3. ASSUME NEW t \in Thread, EndUse(t) PROVE FIFOInv'
    <3>1. thread[t].pc \notin Inside
      BY <2>3 DEF EndUse, Holds, Inside
    <3>. QED BY <2>3, <3>1, ReaderStep DEF EndUse
  <2>. QED BY <2>1, <2>2, <2>3, WriteStep, PutValueStep, PutHashStep, EvictStep, UnhashStep,
              EndWriteStep, DeleteStep, EndDeleteStep DEF Next, GoOn
<1>. QED BY <1>1, <1>2, PTL DEF Spec

\* The state keeps its shape.
THEOREM FIFOTypeCorrect == Spec => []TypeOK
<1>1. FIFOInv => TypeOK
  BY DEF FIFOInv, Data, Threads, ThreadState, TypeOK
<1>. QED BY <1>1, FIFOInvariant, PTL

\* Write, Delete and eviction (fifo.go 40-91) never lose or double a key in one
\* of the two maps and the queue, for any sequence of operations of any threads,
\* and the mutex keeps their bodies apart.
THEOREM CollectionsAgree == Spec => []KeysAgree
<1>1. FIFOInv => KeysAgree
  <2>. SUFFICES ASSUME FIFOInv PROVE KeysAgree
    OBVIOUS
  <2>1. \A t \in Thread : thread[t].pc \in Inside <=> mu = t
    BY DEF FIFOInv, Threads
  <2>2. \A i, j \in 1 .. Len(order) : order[i] = order[j] => i = j
    BY DEF FIFOInv, Data, Once
  <2>3. ASSUME NEW k \in Key
        PROVE  /\ ~ At("put", k) /\ ~ At("delete", k) => (In(k, order) <=> storage[k] # NoValue)
               /\ At("put", k) \/ At("delete", k) => In(k, order)
               /\ ~ At("put", k) /\ ~ At("hash", k) /\ ~ At("unhash", k) /\ ~ At("delete", k) =>
                       (k \in hashes <=> storage[k] # NoValue)
    <3>1. CASE mu = NoThread
      <4>1. ~ At("put", k) /\ ~ At("delete", k)
        BY <2>1, <3>1, FIFOAssumption DEF At, Inside
      <4>. QED BY <3>1, <4>1 DEF FIFOInv, Agreement, Exact
    <3>2. ASSUME NEW t \in Thread, mu = t
          PROVE  /\ ~ At("put", k) /\ ~ At("delete", k) => (In(k, order) <=> storage[k] # NoValue)
                 /\ At("put", k) \/ At("delete", k) => In(k, order)
                 /\ ~ At("put", k) /\ ~ At("hash", k) /\ ~ At("unhash", k) /\ ~ At("delete", k) =>
                         (k \in hashes <=> storage[k] # NoValue)
      <4>1. Held(thread[t], order, storage, hashes, k)
        BY <3>2 DEF FIFOInv, Agreement
      <4>2. \A d \in Thread : thread[d].pc \in Inside => d = t
        BY <2>1, <3>2
      <4>3. /\ At("put", k) <=> thread[t].pc = "put" /\ k = thread[t].key
            /\ At("hash", k) <=> thread[t].pc = "hash" /\ k = thread[t].key
            /\ At("unhash", k) <=> thread[t].pc = "unhash" /\ k = thread[t].out
            /\ At("delete", k) <=> thread[t].pc = "delete" /\ k = thread[t].key
        BY <4>2 DEF At, Inside
      <4>. QED BY <4>1, <4>3 DEF Held, Exact
    <3>. QED BY <3>1, <3>2 DEF FIFOInv, Threads
  <2>. QED BY <2>1, <2>2, <2>3 DEF KeysAgree, In
<1>. QED BY <1>1, FIFOInvariant, PTL

-----------------------------------------------------------------------------
(* The size, on top of the invariant.                                       *)

\* c is the length of all values in s, but for those of the keys in hand.
Sized(s, hand, c) ==
    /\ IsFiniteSet(Valued(s, NoValue))
    /\ c = Total(Bytes(s, NoValue, Size), Valued(s, NoValue) \ hand)

\* The key whose value is not counted: it is on its way into the map, or there.
InHand(r) == IF r.pc \in {"put", "hash"} THEN {r.key} ELSE {}

SizeInv ==
    /\ mu = NoThread => Sized(storage, {}, curSize)
    /\ \A t \in Thread : mu = t =>
            /\ Sized(storage, InHand(thread[t]), curSize)
            /\ thread[t].pc = "hash" => storage[thread[t].key] = thread[t].val

StorageMap == [Key -> Value \cup {NoValue}]

\* Counting the value of k, or no longer.
LEMMA CountEffect ==
    ASSUME NEW s \in StorageMap, NEW k \in Key, NEW c
    PROVE  /\ Sized(s, {k}, c) => Sized(s, {}, c + Length(s[k]))
           /\ Sized(s, {}, c) => Sized(s, {k}, c - Length(s[k]))
<1>. DEFINE W == Bytes(s, NoValue, Size)
            S == Valued(s, NoValue)
<1>1. W[k] = Length(s[k])
  BY DEF StorageMap, Bytes, Length
<1>2. IsFiniteSet(S) => W[k] \in Int /\ Total(W, S \ {k}) \in Int
                        /\ Total(W, S) = Total(W, S \ {k}) + W[k]
  <2>. SUFFICES ASSUME IsFiniteSet(S)
                PROVE  W[k] \in Int /\ Total(W, S \ {k}) \in Int
                       /\ Total(W, S) = Total(W, S \ {k}) + W[k]
    OBVIOUS
  <2>1. Size \in [Value -> Nat] /\ NoValue \notin Value /\ s \in [Key -> Value \cup {NoValue}]
    BY FIFOAssumption DEF StorageMap
  <2>. QED BY <2>1, BytesApart
<1>3. S \ {} = S
  OBVIOUS
<1>. HIDE DEF W, S
<1>. QED BY <1>1, <1>2, <1>3 DEF Sized, W, S

\* Putting a value that is not counted.
LEMMA PutEffect ==
    ASSUME NEW s \in StorageMap, NEW k \in Key, NEW v \in Value \cup {NoValue}, NEW c, Sized(s, {k}, c)
    PROVE  Sized([s EXCEPT ![k] = v], {k}, c)
<1>1. Size \in [Value -> Nat] /\ NoValue \notin Value /\ s \in [Key -> Value \cup {NoValue}]
      /\ IsFiniteSet(Valued(s, NoValue))
  BY FIFOAssumption DEF StorageMap, Sized
<1>. DEFINE t == [s EXCEPT ![k] = v]
<1>2. t \in [Key -> Value \cup {NoValue}] /\ \A l \in Key : l # k => t[l] = s[l]
  BY <1>1
<1>. HIDE DEF t
<1>3. IsFiniteSet(Valued(t, NoValue))
      /\ Total(Bytes(t, NoValue, Size), Valued(t, NoValue) \ {k})
            = Total(Bytes(s, NoValue, Size), Valued(s, NoValue) \ {k})
  BY <1>1, <1>2, BytesOfOthers
<1>4. Sized(t, {k}, c)
  BY <1>3 DEF Sized
<1>. QED BY <1>4 DEF t

\* Removing a value, counted or not.
LEMMA RemoveEffect ==
    ASSUME NEW s \in StorageMap, NEW k \in Key, NEW c, Sized(s, {}, c)
    PROVE  Sized([s EXCEPT ![k] = NoValue], {}, c - Length(s[k]))
<1>. DEFINE t == [s EXCEPT ![k] = NoValue]
            d == c - Length(s[k])
<1>1. Sized(s, {k}, d)
  BY CountEffect
<1>2. t \in StorageMap /\ t[k] = NoValue
  BY DEF StorageMap
<1>. HIDE DEF d
<1>3. Sized(t, {k}, d)
  BY <1>1, PutEffect
<1>. HIDE DEF t
<1>4. Valued(t, NoValue) \ {k} = Valued(t, NoValue) \ {}
  BY <1>2 DEF Valued, StorageMap
<1>. QED BY <1>3, <1>4 DEF Sized, t, d

\* The step of the thread t that has the mutex before or after it.
LEMMA OwnerSize ==
    ASSUME NEW t \in Thread, mu' \in {t, NoThread},
           mu' = NoThread => Sized(storage', {}, curSize'),
           mu' = t => /\ Sized(storage', InHand(thread'[t]), curSize')
                      /\ thread'[t].pc = "hash" => storage'[thread'[t].key] = thread'[t].val
    PROVE  SizeInv'
<1>1. \A d \in Thread : d # NoThread
  BY FIFOAssumption
<1>. QED BY <1>1 DEF SizeInv

LEMMA SizeStep ==
    ASSUME FIFOInv, SizeInv, [Next]_vars
    PROVE  SizeInv'
<1>1. storage \in StorageMap /\ curSize \in Int /\ thread \in [Thread -> ThreadState]
  BY DEF FIFOInv, Data, Threads, StorageMap
<1>2. ASSUME NEW t \in Thread, thread[t].pc \in Inside
      PROVE  /\ mu = t /\ Hand(thread[t]) /\ Sized(storage, InHand(thread[t]), curSize)
             /\ thread[t].pc = "hash" => storage[thread[t].key] = thread[t].val
  BY <1>2, Acting DEF SizeInv
<1>3. ASSUME NEW t \in Thread, NEW pc, NEW k, NEW v, Become(t, pc, k, v)
      PROVE  thread'[t] = State(pc, k, v) /\ State(pc, k, v).pc = pc
             /\ State(pc, k, v).key = k /\ State(pc, k, v).val = v
  BY <1>1, <1>3 DEF Become, State
<1>4. CASE UNCHANGED vars
  BY <1>4 DEF vars, SizeInv
<1>5. ASSUME NEW t \in Thread, NEW k \in Key, NEW v \in Value, Write(t, k, v)
      PROVE  SizeInv'
  <2>1. Sized(storage, {}, curSize) /\ Sized(storage, {k}, curSize - Length(storage[k]))
    BY <1>1, <1>5, CountEffect DEF Write, Lock, SizeInv
  <2>2. mu' = t /\ storage' = storage /\ curSize' = curSize - Length(storage[k])
        /\ Become(t, "put", k, v)
    BY <1>5 DEF Write
  <2>3. InHand(thread'[t]) = {k} /\ thread'[t].pc = "put"
    BY <1>3, <2>2 DEF InHand
  <2>. QED BY <2>1, <2>2, <2>3, FIFOAssumption, OwnerSize
<1>6. ASSUME NEW t \in Thread, PutValue(t) PROVE SizeInv'
  <2>. DEFINE k == thread[t].key
              v == thread[t].val
  <2>1. thread[t].pc = "put" /\ mu' = mu /\ storage' = [storage EXCEPT ![k] = v]
        /\ curSize' = curSize /\ Become(t, "hash", k, v)
    BY <1>6 DEF PutValue, Holds
  <2>2. mu = t /\ k \in Key /\ v \in Value /\ Sized(storage, {k}, curSize)
    BY <1>2, <2>1 DEF Inside, Hand, InHand
  <2>3. Sized(storage', {k}, curSize') /\ storage'[k] = v
    BY <1>1, <2>1, <2>2, PutEffect DEF StorageMap
  <2>4. InHand(thread'[t]) = {k} /\ thread'[t].key = k /\ thread'[t].val = v
    BY <1>3, <2>1 DEF InHand
  <2>. QED BY <2>1, <2>2, <2>3, <2>4, FIFOAssumption, OwnerSize
<1>7. ASSUME NEW t \in Thread, PutHash(t) PROVE SizeInv'
  <2>. DEFINE k == thread[t].key
  <2>1. thread[t].pc = "hash" /\ mu' = mu /\ storage' = storage
        /\ curSize' = curSize + Length(thread[t].val) /\ Become(t, "evict", k, NoValue)
    BY <1>7 DEF PutHash, Holds
  <2>2. mu = t /\ k \in Key /\ Sized(storage, {k}, curSize) /\ storage[k] = thread[t].val
    BY <1>2, <2>1 DEF Inside, Hand, InHand
  <2>3. Sized(storage', {}, curSize')
    BY <1>1, <2>1, <2>2, CountEffect
  <2>4. InHand(thread'[t]) = {} /\ thread'[t].pc = "evict"
    BY <1>3, <2>1 DEF InHand
  <2>. QED BY <2>1, <2>2, <2>3, <2>4, FIFOAssumption, OwnerSize
<1>8. ASSUME NEW t \in Thread, Evict(t) PROVE SizeInv'
  <2>. DEFINE o == Head(order)
  <2>1. thread[t].pc = "evict" /\ mu' = mu /\ storage' = [storage EXCEPT ![o] = NoValue]
        /\ curSize' = curSize - Length(storage[o])
        /\ thread' = [thread EXCEPT ![t].pc = "unhash", ![t].out = o]
    BY <1>8 DEF Evict, Holds
  <2>2. mu = t /\ Sized(storage, {}, curSize)
    BY <1>2, <2>1 DEF Inside, InHand
  <2>3. o \in Key
    BY <1>8 DEF Evict, FIFOInv, Data
  <2>4. Sized(storage', {}, curSize')
    BY <1>1, <2>1, <2>2, <2>3, RemoveEffect
  <2>5. InHand(thread'[t]) = {} /\ thread'[t].pc = "unhash"
    BY <1>1, <2>1 DEF InHand, ThreadState
  <2>. QED BY <2>1, <2>2, <2>4, <2>5, FIFOAssumption, OwnerSize
<1>9. ASSUME NEW t \in Thread, Unhash(t) PROVE SizeInv'
  <2>1. thread[t].pc = "unhash" /\ mu' = mu /\ storage' = storage /\ curSize' = curSize
        /\ Become(t, "evict", thread[t].key, NoValue)
    BY <1>9 DEF Unhash, Holds
  <2>2. mu = t /\ Sized(storage, {}, curSize)
    BY <1>2, <2>1 DEF Inside, InHand
  <2>3. InHand(thread'[t]) = {} /\ thread'[t].pc = "evict"
    BY <1>3, <2>1 DEF InHand
  <2>. QED BY <2>1, <2>2, <2>3, FIFOAssumption, OwnerSize
<1>10. ASSUME NEW t \in Thread, EndWrite(t) PROVE SizeInv'
  <2>1. thread[t].pc = "evict" /\ mu' = NoThread /\ storage' = storage /\ curSize' = curSize
    BY <1>10 DEF EndWrite, Holds
  <2>2. Sized(storage, {}, curSize)
    BY <1>2, <2>1 DEF Inside, InHand
  <2>. QED BY <2>1, <2>2, FIFOAssumption, OwnerSize
<1>11. ASSUME NEW t \in Thread, NEW k \in Key, Delete(t, k) PROVE SizeInv'
  <2>1. mu = NoThread /\ mu' = t /\ storage' = [storage EXCEPT ![k] = NoValue]
        /\ curSize' = curSize - Length(storage[k]) /\ Become(t, "delete", k, NoValue)
    BY <1>11 DEF Delete, Lock
  <2>2. Sized(storage', {}, curSize')
    BY <1>1, <2>1, RemoveEffect DEF SizeInv
  <2>3. InHand(thread'[t]) = {} /\ thread'[t].pc = "delete"
    BY <1>3, <2>1 DEF InHand
  <2>. QED BY <2>1, <2>2, <2>3, FIFOAssumption, OwnerSize
<1>12. ASSUME NEW t \in Thread, EndDelete(t) PROVE SizeInv'
  <2>1. thread[t].pc = "delete" /\ mu' = NoThread /\ storage' = storage /\ curSize' = curSize
    BY <1>12 DEF EndDelete, Holds
  <2>2. Sized(storage, {}, curSize)
    BY <1>2, <2>1 DEF Inside, InHand
  <2>. QED BY <2>1, <2>2, FIFOAssumption, OwnerSize
<1>13. ASSUME NEW t \in Thread, Read(t) \/ ListKeys(t) \/ EndUse(t) PROVE SizeInv'
  <2>1. thread[t].pc \notin Inside
    BY <1>13 DEF Read, ListKeys, Use, EndUse, Holds, NotBusy, Inside
  <2>2. mu # t
    BY <2>1 DEF FIFOInv, Threads
  <2>3. UNCHANGED <<storage, curSize, mu>> /\ \E pc : Become(t, pc, NoKey, NoValue)
    BY <1>13 DEF Read, ListKeys, Use, EndUse
  <2>4. \A d \in Thread : d # t => thread'[d] = thread[d]
    BY <1>1, <2>3 DEF Become
  <2>. QED BY <2>2, <2>3, <2>4 DEF SizeInv
<1>. QED BY <1>4, <1>5, <1>6, <1>7, <1>8, <1>9, <1>10, <1>11, <1>12, <1>13 DEF Next, GoOn

\* The size and the values that it counts: inductive, given the invariant.
LEMMA SizeInvariant == Spec => []SizeInv
<1>1. Init => SizeInv
  <2>. SUFFICES ASSUME Init PROVE SizeInv
    OBVIOUS
  <2>1. Valued(storage, NoValue) = {} /\ Valued(storage, NoValue) \ {} = {}
    BY DEF Init, Valued
  <2>2. Sized(storage, {}, curSize)
    BY <2>1, TotalEmpty, FS_EmptySet DEF Init, Sized
  <2>. QED BY <2>2, FIFOAssumption DEF SizeInv, Init
<1>2. FIFOInv /\ SizeInv /\ [Next]_vars => SizeInv'
  BY SizeStep
<1>. QED BY <1>1, <1>2, FIFOInvariant, PTL DEF Spec

\* curSize counts what the map holds, byte for byte, for any sequence of
\* overwrites, evictions and deletions of any threads (fifo.go 46-59, 63-67 and
\* 79-81), so the limit bounds the storage for as long as the process runs.
THEOREM SizeExact == Spec => []SizeIsExact
<1>1. FIFOInv /\ SizeInv => SizeIsExact
  <2>. SUFFICES ASSUME FIFOInv, SizeInv PROVE SizeIsExact
    OBVIOUS
  <2>. DEFINE counted == {k \in StoredKeys : ~ At("put", k) /\ ~ At("hash", k)}
  <2>1. storage \in [Key -> Value \cup {NoValue}] /\ StoredKeys = Valued(storage, NoValue)
    BY DEF FIFOInv, Data, StoredKeys, Valued
  <2>2. \A t \in Thread : thread[t].pc \in Inside <=> mu = t
    BY DEF FIFOInv, Threads
  <2>3. IsFiniteSet(Valued(storage, NoValue))
        /\ curSize = Total(Bytes(storage, NoValue, Size), counted)
    <3>1. CASE mu = NoThread
      <4>1. \A k \in Key : ~ At("put", k) /\ ~ At("hash", k)
        BY <2>2, <3>1, FIFOAssumption DEF At, Inside
      <4>2. counted = Valued(storage, NoValue) \ {}
        BY <2>1, <4>1 DEF StoredKeys
      <4>. QED BY <3>1, <4>2 DEF SizeInv, Sized
    <3>2. ASSUME NEW t \in Thread, mu = t
          PROVE  IsFiniteSet(Valued(storage, NoValue))
                 /\ curSize = Total(Bytes(storage, NoValue, Size), counted)
      <4>1. \A d \in Thread : thread[d].pc \in Inside => d = t
        BY <2>2, <3>2
      <4>2. \A k \in Key : At("put", k) \/ At("hash", k) <=> k \in InHand(thread[t])
        BY <4>1 DEF At, Inside, InHand
      <4>3. counted = Valued(storage, NoValue) \ InHand(thread[t])
        BY <2>1, <4>2 DEF StoredKeys
      <4>. QED BY <3>2, <4>3 DEF SizeInv, Sized
    <3>. QED BY <3>1, <3>2 DEF FIFOInv, Threads
  <2>4. counted \in SUBSET Valued(storage, NoValue)
    BY <2>1
  <2>. HIDE DEF counted
  <2>5. LengthOfKeys(Size, storage, counted) = Total(Bytes(storage, NoValue, Size), counted)
    BY <2>1, <2>3, <2>4, BytesOfKeys, FIFOAssumption
  <2>6. curSize = LengthOfKeys(Size, storage, counted)
    BY <2>3, <2>5
  <2>. QED BY <2>6 DEF SizeIsExact, LengthOfKeys, counted
<1>. QED BY <1>1, FIFOInvariant, SizeInvariant, PTL

-----------------------------------------------------------------------------
(* The refinement: what is left of an operation, at each of its steps, of   *)
(* the one step that the evicting cache takes at its end.                   *)

Shows(e, q, s) == Lists(q, s, Key, Value) /\ e = Listing(q, s)

\* How far the thread in state r has got from the contents e at the last unlock.
Progress(r, e, q, s, limit) ==
    /\ r.key \in Key
    /\ r.pc = "put" => r.val \in Value /\ Shows(Renewed(e, r.key, r.val), q, [s EXCEPT ![r.key] = r.val])
    /\ r.pc = "hash" => r.val \in Value /\ Shows(Renewed(e, r.key, r.val), q, s)
    /\ r.pc \in {"evict", "unhash"} =>
            /\ Lists(q, s, Key, Value)
            /\ \E v \in Value :
                /\ Renewed(e, r.key, v) \in Seq(EntriesOf(Key, Value))
                /\ Trimmed(Listing(q, s), Renewed(e, r.key, v), Size, limit)
    /\ r.pc = "delete" => \E v \in Value : Shows(e, q, [s EXCEPT ![r.key] = v])

CacheInv ==
    /\ mu = NoThread => Shows(committed.entries, order, storage)
    /\ \A t \in Thread : mu = t => Progress(thread[t], committed.entries, order, storage, maxSize)

LEMMA OwnerProgress ==
    ASSUME NEW t \in Thread, mu' \in {t, NoThread},
           mu' = NoThread => Shows(committed'.entries, order', storage'),
           mu' = t => Progress(thread'[t], committed'.entries, order', storage', maxSize')
    PROVE  CacheInv'
<1>1. \A d \in Thread : d # NoThread
  BY FIFOAssumption
<1>. QED BY <1>1 DEF CacheInv

\* Putting v for k, whether k is there or not.
LEMMA RenewEffect ==
    ASSUME NEW e, NEW q, NEW s \in StorageMap, Shows(e, q, s), NEW k \in Key, NEW v \in Value
    PROVE  Shows(Renewed(e, k, v), Append(RemoveFirst(q, k), k), [s EXCEPT ![k] = v])
<1>. DEFINE u == [s EXCEPT ![k] = v]
<1>1. u[k] = v /\ \A l \in Key : l # k => u[l] = s[l]
  BY DEF StorageMap
<1>2. Lists(q, s, Key, Value) /\ e = Listing(q, s)
  BY DEF Shows
<1>. HIDE DEF u
<1>3. u[k] \in Value
  BY <1>1
<1>4. Lists(Append(RemoveFirst(q, k), k), u, Key, Value)
      /\ Renewed(Listing(q, s), k, u[k]) = Listing(Append(RemoveFirst(q, k), k), u)
  BY <1>1, <1>2, <1>3, ListingRenewed
<1>. QED BY <1>1, <1>2, <1>4 DEF Shows, u

LEMMA ShowsType == ASSUME NEW e, NEW q, NEW s, Shows(e, q, s) PROVE e \in Seq(EntriesOf(Key, Value))
  BY ListingPlaces DEF Shows, Written

\* With all its values counted, the queue is as long as curSize says.
LEMMA FitsEffect ==
    ASSUME NEW q, NEW s \in StorageMap, NEW c, NEW limit, Lists(q, s, Key, Value),
           Sized(s, {}, c), \A l \in Key : In(l, q) <=> s[l] # NoValue
    PROVE  Fits(Listing(q, s), Size, limit) <=> c <= limit \/ q = <<>>
<1>1. Size \in [Value -> Nat] /\ NoValue \notin Value /\ s \in [Key -> Value \cup {NoValue}]
      /\ IsFiniteSet(Valued(s, NoValue))
  BY FIFOAssumption DEF StorageMap, Sized
<1>2. Valued(s, NoValue) \ {} = Valued(s, NoValue)
  OBVIOUS
<1>3. c = Total(Bytes(s, NoValue, Size), Valued(s, NoValue))
  BY <1>2 DEF Sized
<1>. QED BY <1>1, <1>3, ListingFits

LEMMA DoneEntries == ASSUME NEW op, NEW k, NEW q PROVE Done(op, k, q).entries = Listing(q, storage)
  BY DEF Done, Listing, Entry

\* The end of a Delete is the whole of the cache's.
LEMMA EndDeleteEffect ==
    ASSUME FIFOInv, CacheInv, NEW t \in Thread, EndDelete(t)
    PROVE  /\ thread[t].key \in Key
           /\ mu' = NoThread /\ storage' = storage /\ maxSize' = maxSize
           /\ Lists(order', storage', Key, Value) /\ committed'.entries = Listing(order', storage')
           /\ committed'.entries = WithoutKey(committed.entries, thread[t].key)
           /\ committed'.last = <<"forget", thread[t].key>>
<1>. DEFINE k == thread[t].key
            e == committed.entries
<1>1. thread[t].pc = "delete" /\ mu' = NoThread /\ storage' = storage /\ maxSize' = maxSize
      /\ order' = RemoveFirst(order, k) /\ committed' = Done("forget", k, order')
  BY DEF EndDelete, Holds
<1>2. mu = t /\ Progress(thread[t], e, order, storage, maxSize)
  BY <1>1, Acting DEF Inside, CacheInv
<1>3. k \in Key
  BY <1>2 DEF Progress
<1>4. PICK v \in Value : Shows(e, order, [storage EXCEPT ![k] = v])
  BY <1>1, <1>2 DEF Progress
<1>. DEFINE u == [storage EXCEPT ![k] = v]
<1>5. \A l \in Key : l # k => storage[l] = u[l]
  BY DEF FIFOInv, Data
<1>. HIDE DEF u
<1>6. Lists(order, u, Key, Value) /\ e = Listing(order, u)
  BY <1>4 DEF Shows, u
<1>7. Lists(RemoveFirst(order, k), storage, Key, Value)
      /\ WithoutKey(e, k) = Listing(RemoveFirst(order, k), storage)
  BY <1>3, <1>5, <1>6, ListingWithout
<1>8. committed'.entries = Listing(order', storage) /\ committed'.last = <<"forget", k>>
  BY <1>1, DoneEntries DEF Done
<1>. QED BY <1>1, <1>3, <1>7, <1>8

LEMMA ProgressStep ==
    ASSUME FIFOInv, SizeInv, CacheInv, [Next]_vars
    PROVE  CacheInv'
<1>. DEFINE e == committed.entries
<1>1. storage \in StorageMap /\ thread \in [Thread -> ThreadState]
  BY DEF FIFOInv, Data, Threads, StorageMap
<1>2. ASSUME NEW t \in Thread, thread[t].pc \in Inside
      PROVE  /\ mu = t /\ Progress(thread[t], e, order, storage, maxSize)
             /\ Sized(storage, InHand(thread[t]), curSize)
             /\ \A l \in Key : Held(thread[t], order, storage, hashes, l)
  BY <1>2, Acting DEF CacheInv, SizeInv
<1>3. ASSUME NEW t \in Thread, NEW pc, NEW k, NEW v, Become(t, pc, k, v)
      PROVE  thread'[t].pc = pc /\ thread'[t].key = k /\ thread'[t].val = v
  BY <1>1, <1>3 DEF Become
<1>4. CASE UNCHANGED vars
  BY <1>4 DEF vars, CacheInv
<1>5. ASSUME NEW t \in Thread, NEW k \in Key, NEW v \in Value, Write(t, k, v)
      PROVE  CacheInv'
  <2>1. Shows(e, order, storage) /\ Exact(order, storage, hashes, k)
    BY <1>5, Locking DEF Write, Lock, CacheInv
  <2>2. order' = Append(RemoveFirst(order, k), k)
    <3>1. storage[k] = NoValue => RemoveFirst(order, k) = order
      BY <2>1 DEF RemoveFirst, Exact, In
    <3>. QED BY <1>5, <3>1 DEF Write
  <2>3. Shows(Renewed(e, k, v), order', [storage EXCEPT ![k] = v])
    BY <1>1, <2>1, <2>2, RenewEffect
  <2>4. mu' = t /\ storage' = storage /\ committed' = committed /\ maxSize' = maxSize
        /\ thread'[t].pc = "put" /\ thread'[t].key = k /\ thread'[t].val = v
    BY <1>3, <1>5 DEF Write
  <2>5. Progress(thread'[t], committed'.entries, order', storage', maxSize')
    BY <2>3, <2>4 DEF Progress
  <2>. QED BY <2>4, <2>5, FIFOAssumption, OwnerProgress
<1>6. ASSUME NEW t \in Thread, PutValue(t) PROVE CacheInv'
  <2>. DEFINE k == thread[t].key
              v == thread[t].val
  <2>1. thread[t].pc = "put" /\ mu' = mu /\ storage' = [storage EXCEPT ![k] = v]
        /\ UNCHANGED <<order, maxSize, committed>> /\ Become(t, "hash", k, v)
    BY <1>6 DEF PutValue, Holds
  <2>2. mu = t /\ k \in Key /\ v \in Value /\ Shows(Renewed(e, k, v), order, storage')
    BY <1>2, <2>1 DEF Inside, Progress
  <2>3. thread'[t].pc = "hash" /\ thread'[t].key = k /\ thread'[t].val = v
    BY <1>3, <2>1
  <2>4. Progress(thread'[t], committed'.entries, order', storage', maxSize')
    BY <2>1, <2>2, <2>3 DEF Progress
  <2>. QED BY <2>1, <2>2, <2>4, FIFOAssumption, OwnerProgress
<1>7. ASSUME NEW t \in Thread, PutHash(t) PROVE CacheInv'
  <2>. DEFINE k == thread[t].key
              v == thread[t].val
  <2>1. thread[t].pc = "hash" /\ mu' = mu
        /\ UNCHANGED <<storage, order, maxSize, committed>> /\ Become(t, "evict", k, NoValue)
    BY <1>7 DEF PutHash, Holds
  <2>2. mu = t /\ k \in Key /\ v \in Value /\ Shows(Renewed(e, k, v), order, storage)
    BY <1>2, <2>1 DEF Inside, Progress
  <2>3. Renewed(e, k, v) \in Seq(EntriesOf(Key, Value))
    BY <2>2, ShowsType
  <2>4. Trimmed(Renewed(e, k, v), Renewed(e, k, v), Size, maxSize)
    BY <2>3, TrimNone
  <2>5. Lists(order, storage, Key, Value) /\ Trimmed(Listing(order, storage), Renewed(e, k, v), Size, maxSize)
    BY <2>2, <2>4 DEF Shows
  <2>6. thread'[t].pc = "evict" /\ thread'[t].key = k
    BY <1>3, <2>1
  <2>7. Progress(thread'[t], committed'.entries, order', storage', maxSize')
    BY <2>1, <2>2, <2>3, <2>5, <2>6 DEF Progress
  <2>. QED BY <2>1, <2>2, <2>7, FIFOAssumption, OwnerProgress
<1>8. ASSUME NEW t \in Thread, Evict(t) PROVE CacheInv'
  <2>. DEFINE k == thread[t].key
              o == Head(order)
  <2>1. thread[t].pc = "evict" /\ mu' = mu /\ storage' = [storage EXCEPT ![o] = NoValue]
        /\ order' = Tail(order) /\ UNCHANGED <<maxSize, committed>>
        /\ ~ curSize <= maxSize /\ order # <<>>
        /\ thread' = [thread EXCEPT ![t].pc = "unhash", ![t].out = o]
    <3>1. curSize \in Int /\ maxSize \in Int
      BY FIFOAssumption DEF FIFOInv, Data
    <3>. QED BY <1>8, <3>1 DEF Evict, Holds
  <2>2. mu = t /\ k \in Key /\ Lists(order, storage, Key, Value) /\ Sized(storage, {}, curSize)
        /\ \A l \in Key : In(l, order) <=> storage[l] # NoValue
    BY <1>2, <2>1 DEF Inside, Progress, InHand, Held, Exact
  <2>3. PICK v \in Value : Renewed(e, k, v) \in Seq(EntriesOf(Key, Value))
                           /\ Trimmed(Listing(order, storage), Renewed(e, k, v), Size, maxSize)
    BY <1>2, <2>1 DEF Inside, Progress
  <2>4. ~ Fits(Listing(order, storage), Size, maxSize)
    BY <1>1, <2>1, <2>2, FitsEffect
  <2>5. Trimmed(Tail(Listing(order, storage)), Renewed(e, k, v), Size, maxSize)
    BY <2>3, <2>4, TrimOne
  <2>6. \A l \in Key : l # o => storage'[l] = storage[l]
    BY <1>1, <2>1 DEF StorageMap
  <2>7. Lists(order', storage', Key, Value) /\ Tail(Listing(order, storage)) = Listing(order', storage')
    <3>1. order # <<>> /\ Lists(order, storage, Key, Value)
      BY <2>1, <2>2
    <3>2. Lists(Tail(order), storage', Key, Value)
          /\ Tail(Listing(order, storage)) = Listing(Tail(order), storage')
      BY <2>6, <3>1, ListingTail
    <3>. QED BY <2>1, <3>2
  <2>8. thread'[t].pc = "unhash" /\ thread'[t].key = k
    BY <1>1, <2>1 DEF ThreadState
  <2>9. Progress(thread'[t], committed'.entries, order', storage', maxSize')
    BY <2>1, <2>2, <2>3, <2>5, <2>7, <2>8 DEF Progress
  <2>. QED BY <2>1, <2>2, <2>9, FIFOAssumption, OwnerProgress
<1>9. ASSUME NEW t \in Thread, Unhash(t) PROVE CacheInv'
  <2>1. thread[t].pc = "unhash" /\ mu' = mu /\ UNCHANGED <<storage, order, maxSize, committed>>
        /\ Become(t, "evict", thread[t].key, NoValue)
    BY <1>9 DEF Unhash, Holds
  <2>2. mu = t /\ Progress(thread[t], e, order, storage, maxSize)
    BY <1>2, <2>1 DEF Inside
  <2>3. thread'[t].pc = "evict" /\ thread'[t].key = thread[t].key
    BY <1>3, <2>1
  <2>4. Progress(thread'[t], committed'.entries, order', storage', maxSize')
    BY <2>1, <2>2, <2>3 DEF Progress
  <2>. QED BY <2>1, <2>2, <2>4, FIFOAssumption, OwnerProgress
<1>10. ASSUME NEW t \in Thread, EndWrite(t) PROVE CacheInv'
  <2>1. thread[t].pc = "evict" /\ mu' = NoThread /\ UNCHANGED <<storage, order>>
        /\ committed'.entries = Listing(order, storage)
    BY <1>10, DoneEntries DEF EndWrite, Holds
  <2>2. Shows(committed'.entries, order', storage')
    BY <1>2, <2>1 DEF Inside, Progress, Shows
  <2>. QED BY <2>1, <2>2, FIFOAssumption, OwnerProgress
<1>11. ASSUME NEW t \in Thread, NEW k \in Key, Delete(t, k) PROVE CacheInv'
  <2>1. mu = NoThread /\ mu' = t /\ storage' = [storage EXCEPT ![k] = NoValue]
        /\ storage[k] # NoValue /\ UNCHANGED <<order, maxSize, committed>>
        /\ Become(t, "delete", k, NoValue)
    BY <1>11 DEF Delete, Lock
  <2>2. storage[k] \in Value /\ [storage' EXCEPT ![k] = storage[k]] = storage
    BY <1>1, <2>1 DEF StorageMap
  <2>3. \E v \in Value : Shows(committed'.entries, order', [storage' EXCEPT ![k] = v])
    BY <2>1, <2>2 DEF CacheInv
  <2>4. thread'[t].pc = "delete" /\ thread'[t].key = k
    BY <1>3, <2>1
  <2>5. Progress(thread'[t], committed'.entries, order', storage', maxSize')
    BY <2>3, <2>4 DEF Progress
  <2>. QED BY <2>1, <2>5, FIFOAssumption, OwnerProgress
<1>12. ASSUME NEW t \in Thread, EndDelete(t) PROVE CacheInv'
  <2>1. mu' = NoThread /\ committed'.entries = Listing(order', storage')
        /\ Lists(order', storage', Key, Value)
    BY <1>12, EndDeleteEffect
  <2>. QED BY <2>1, FIFOAssumption, OwnerProgress DEF Shows
<1>13. ASSUME NEW t \in Thread, Read(t) \/ ListKeys(t) \/ EndUse(t) PROVE CacheInv'
  <2>1. thread[t].pc \notin Inside
    BY <1>13 DEF Read, ListKeys, Use, EndUse, Holds, NotBusy, Inside
  <2>2. mu # t
    BY <2>1 DEF FIFOInv, Threads
  <2>3. UNCHANGED <<storage, order, maxSize, committed, mu>> /\ \E pc : Become(t, pc, NoKey, NoValue)
    BY <1>13 DEF Read, ListKeys, Use, EndUse
  <2>4. \A d \in Thread : d # t => thread'[d] = thread[d]
    BY <1>1, <2>3 DEF Become
  <2>. QED BY <2>2, <2>3, <2>4 DEF CacheInv
<1>. QED BY <1>4, <1>5, <1>6, <1>7, <1>8, <1>9, <1>10, <1>11, <1>12, <1>13 DEF Next, GoOn

\* The operators of the evicting cache by their names here.
LEMMA CacheOperators ==
    /\ \A k : Cache!Without(k) = WithoutKey(committed.entries, k)
    /\ \A q : Cache!Weight(q) = LengthOfEntries(Size, q)
<1>1. ASSUME NEW k PROVE Cache!Without(k) = WithoutKey(committed.entries, k)
  BY DEF Cache!Without, Cache!RemoveFirstMatch, Cache!SelectInSeq, Cache!RemoveAt, Cache!Min,
         WithoutKey, RemoveFirstMatch, SelectInSeq, RemoveAt, Min
<1>2. ASSUME NEW q PROVE Cache!Weight(q) = LengthOfEntries(Size, q)
  BY DEF Cache!Weight, Cache!FoldLeft, Cache!MapThenFoldSet, Cache!Max,
         LengthOfEntries, FoldLeft, MapThenFoldSet, Max
<1>. QED BY <1>1, <1>2

\* The end of a Write is the whole of the cache's.
LEMMA EndWriteIsPut ==
    ASSUME FIFOInv, SizeInv, CacheInv, NEW t \in Thread, EndWrite(t)
    PROVE  Cache!Next
<1>. DEFINE k == thread[t].key
            e == committed.entries
            l == Listing(order, storage)
<1>1. thread[t].pc = "evict" /\ maxSize' = maxSize /\ (curSize <= maxSize \/ order = <<>>)
      /\ committed' = Done("put", k, order)
  BY DEF EndWrite, Holds
<1>2. mu = t /\ Progress(thread[t], e, order, storage, maxSize)
      /\ \A j \in Key : Held(thread[t], order, storage, hashes, j)
  BY <1>1, Acting DEF Inside, CacheInv
<1>3. k \in Key /\ Lists(order, storage, Key, Value)
  BY <1>1, <1>2 DEF Progress
<1>4. PICK v \in Value : Trimmed(l, Renewed(e, k, v), Size, maxSize)
  BY <1>1, <1>2 DEF Progress
<1>5. Fits(l, Size, maxSize)
  <2>1. storage \in StorageMap
    BY DEF FIFOInv, Data, StorageMap
  <2>2. Sized(storage, {}, curSize)
    BY <1>1, <1>2 DEF SizeInv, InHand
  <2>3. \A j \in Key : In(j, order) <=> storage[j] # NoValue
    BY <1>1, <1>2 DEF Held, Exact
  <2>. QED BY <1>1, <1>3, <2>1, <2>2, <2>3, FitsEffect
<1>6. committed'.entries = l /\ committed'.last = <<"put", k>>
  BY <1>1, DoneEntries DEF Done
<1>. HIDE DEF e, l
<1>7. Cache!Put(k, v)
  <2>. DEFINE q == Renewed(e, k, v)
  <2>1. Append(Cache!Without(k), [key |-> k, val |-> v]) = q
    BY CacheOperators DEF Renewed, Entry, e
  <2>2. PICK i \in 0 .. Len(q) : /\ l = SubSeq(q, i + 1, Len(q))
                                /\ \A j \in 0 .. i - 1 : ~ Fits(SubSeq(q, j + 1, Len(q)), Size, maxSize)
    BY <1>4 DEF Trimmed
  <2>. HIDE DEF q
  <2>3. \A j : Fits(SubSeq(q, j + 1, Len(q)), Size, maxSize)
                <=> Cache!Weight(SubSeq(q, j + 1, Len(q))) <= maxSize \/ SubSeq(q, j + 1, Len(q)) = <<>>
    BY CacheOperators DEF Fits
  <2>. QED BY <1>5, <1>6, <2>1, <2>2, <2>3 DEF Cache!Put
<1>. QED BY <1>1, <1>3, <1>7 DEF Cache!Next

\* The end of a Delete is the cache's.
LEMMA EndDeleteIsForget ==
    ASSUME FIFOInv, CacheInv, NEW t \in Thread, EndDelete(t)
    PROVE  Cache!Next
<1>. DEFINE k == thread[t].key
<1>1. k \in Key /\ maxSize' = maxSize /\ committed'.entries = WithoutKey(committed.entries, k)
      /\ committed'.last = <<"forget", k>>
  BY EndDeleteEffect
<1>2. Cache!Forget(k)
  BY <1>1, CacheOperators DEF Cache!Forget
<1>. QED BY <1>1, <1>2 DEF Cache!Next

\* Every Write and every Delete is, at its unlock, one step of the evicting
\* cache, and nothing else changes what the storage holds: an overwritten key is
\* refreshed, the oldest entries go first, and no more of them than the limit
\* asks for (fifo.go 40-91), for any threads, values and limit.
THEOREM FIFOImplementsCache == Spec => ImplementsCache
<1>1. Init => Cache!Init /\ CacheInv
  <2>. SUFFICES ASSUME Init PROVE Cache!Init /\ CacheInv
    OBVIOUS
  <2>1. committed.entries = <<>> /\ committed.last = <<>> /\ order = <<>>
    BY DEF Init
  <2>2. Lists(order, storage, Key, Value)
    BY <2>1 DEF Lists, Once, In
  <2>3. Listing(order, storage) = <<>>
    <3>1. Len(Listing(order, storage)) = 0 /\ Listing(order, storage) \in Seq(EntriesOf(Key, Value))
      BY <2>1, <2>2, ListingPlaces DEF Written
    <3>. QED BY <3>1
  <2>. QED BY <2>1, <2>2, <2>3, FIFOAssumption DEF Cache!Init, CacheInv, Shows, Init
<1>2. FIFOInv /\ SizeInv /\ CacheInv /\ [Next]_vars => CacheInv'
  BY ProgressStep
<1>3. FIFOInv /\ SizeInv /\ CacheInv /\ [Next]_vars => [Cache!Next]_(Cache!vars)
  <2>. SUFFICES ASSUME FIFOInv, SizeInv, CacheInv, [Next]_vars PROVE [Cache!Next]_(Cache!vars)
    OBVIOUS
  <2>1. ASSUME UNCHANGED <<committed, maxSize>> PROVE [Cache!Next]_(Cache!vars)
    BY <2>1 DEF Cache!vars
  <2>2. \A t \in Thread : EndWrite(t) \/ EndDelete(t) => Cache!Next
    BY EndWriteIsPut, EndDeleteIsForget
  <2>. QED BY <2>1, <2>2 DEF Next, GoOn, vars, Write, PutValue, PutHash, Evict, Unhash, Delete,
                             Read, ListKeys, Use, EndUse
<1>. QED BY <1>1, <1>2, <1>3, FIFOInvariant, SizeInvariant, PTL DEF Spec, ImplementsCache, Cache!Spec

=============================================================================
