---------------------------- MODULE FIFOStorage ----------------------------
(***************************************************************************)
(* storage/fifo.go: the two maps, the insertion order and the size of the  *)
(* FIFO storage. Write and Delete run under the mutex; Read looks into the *)
(* map of values, and the event handler walks the map of hashes, without   *)
(* it. So every change of one of the maps is a step of its own, and what   *)
(* lies between two of them goes with the step before.                     *)
(*                                                                         *)
(* Go detects some of the accesses of a map that race with a write and     *)
(* ends the process: a step that changes a map in use may be a fault.      *)
(***************************************************************************)
EXTENDS Integers, Sequences, SequencesExt, FiniteSetsExt

CONSTANTS
    Key, Value, NoValue, NoKey,
    Size,       \* len(value)
    Limits,     \* the maxSize to choose from: STORAGE_SIZE, of either sign
    Thread, NoThread

ASSUME FIFOAssumption ==
    /\ Size \in [Value -> Nat]
    /\ Limits \subseteq Int
    /\ NoValue \notin Value /\ NoKey \notin Key /\ NoThread \notin Thread

VARIABLES
    storage,    \* s.storage: a value or NoValue per key
    hashes,     \* the keys of s.hashes
    order,      \* s.order
    curSize,    \* s.curSize
    maxSize,    \* s.maxSize
    mu,         \* the thread that holds s.mu, or NoThread
    thread,     \* per thread: [pc, key, val], and out, the evicted key
    faulted,    \* the runtime has ended the process
    committed   \* at the last unlock, contents and operation (for the refinement)

vars == <<storage, hashes, order, curSize, maxSize, mu, thread, faulted, committed>>

NotBusy == [pc |-> "idle", key |-> NoKey, val |-> NoValue, out |-> NoKey]

StoredKeys == {k \in Key : storage[k] # NoValue}

\* len(s.storage[k]): the length of nil is 0.
Length(v) == IF v = NoValue THEN 0 ELSE Size[v]

Become(t, pc, k, v) ==
    thread' = [thread EXCEPT ![t] = [pc |-> pc, key |-> k, val |-> v, out |-> NoKey]]

\* What a step may do to the process that changes a map others may be using.
Race(pc) == faulted' \in {FALSE} \cup {\E t \in Thread : thread[t].pc = pc}

Lock(t) ==
    /\ ~ faulted /\ thread[t] = NotBusy
    /\ mu = NoThread

Holds(t, pc) == ~ faulted /\ thread[t].pc = pc

\* The contents in the order of insertion, and the operation that ends.
Done(op, k, queue) ==
    [entries |-> [i \in 1 .. Len(queue) |-> [key |-> queue[i], val |-> storage[queue[i]]]],
     last |-> <<op, k>>]

-----------------------------------------------------------------------------
Init ==
    /\ storage = [k \in Key |-> NoValue]
    /\ hashes = {}
    /\ order = <<>>
    /\ curSize = 0
    /\ maxSize \in Limits
    /\ mu = NoThread
    /\ thread = [t \in Thread |-> NotBusy]
    /\ faulted = FALSE
    /\ committed = [entries |-> <<>>, last |-> <<>>]

\* Mutant: the old length is not taken off.
WriteKeepsOldSize(t, k, v) ==
    /\ Lock(t)
    /\ mu' = t
    /\ order' = Append(RemoveFirst(order, k), k)
    /\ Become(t, "put", k, v)
    /\ UNCHANGED <<storage, hashes, curSize, maxSize, faulted, committed>>

\* Mutant: an overwritten key is queued a second time.
WriteKeepsOldPlace(t, k, v) ==
    /\ Lock(t)
    /\ mu' = t
    /\ curSize' = curSize - Length(storage[k])
    /\ order' = Append(order, k)
    /\ Become(t, "put", k, v)
    /\ UNCHANGED <<storage, hashes, maxSize, faulted, committed>>

\* Write up to the change of the map: an old entry of k is forgotten.
Write(t, k, v) ==
    /\ Lock(t)
    /\ mu' = t
    /\ curSize' = curSize - Length(storage[k])
    /\ order' = Append(IF storage[k] = NoValue THEN order ELSE RemoveFirst(order, k), k)
    /\ Become(t, "put", k, v)
    /\ UNCHANGED <<storage, hashes, maxSize, faulted, committed>>

PutValue(t) ==
    /\ Holds(t, "put")
    /\ storage' = [storage EXCEPT ![thread[t].key] = thread[t].val]
    /\ Race("reading")
    /\ Become(t, "hash", thread[t].key, thread[t].val)
    /\ UNCHANGED <<hashes, order, curSize, maxSize, mu, committed>>

PutHash(t) ==
    /\ Holds(t, "hash")
    /\ hashes' = hashes \cup {thread[t].key}
    /\ Race("walking")
    /\ curSize' = curSize + Length(thread[t].val)
    /\ Become(t, "evict", thread[t].key, NoValue)
    /\ UNCHANGED <<storage, order, maxSize, mu, committed>>

\* Mutant: the entry stays in the queue.
EvictKeepsOrder(t) ==
    LET oldest == Head(order)
    IN  /\ Holds(t, "evict")
        /\ curSize > maxSize /\ order # <<>>
        /\ curSize' = curSize - Length(storage[oldest])
        /\ storage' = [storage EXCEPT ![oldest] = NoValue]
        /\ Race("reading")
        /\ thread' = [thread EXCEPT ![t].pc = "unhash", ![t].out = oldest]
        /\ UNCHANGED <<hashes, order, maxSize, mu, committed>>

\* Mutant: the newest entry goes instead of the oldest.
EvictNewest(t) ==
    LET newest == Last(order)
    IN  /\ Holds(t, "evict")
        /\ curSize > maxSize /\ order # <<>>
        /\ order' = Front(order)
        /\ curSize' = curSize - Length(storage[newest])
        /\ storage' = [storage EXCEPT ![newest] = NoValue]
        /\ Race("reading")
        /\ thread' = [thread EXCEPT ![t].pc = "unhash", ![t].out = newest]
        /\ UNCHANGED <<hashes, maxSize, mu, committed>>

\* One round of the loop that evicts, up to the map of hashes.
Evict(t) ==
    LET oldest == Head(order)
    IN  /\ Holds(t, "evict")
        /\ curSize > maxSize /\ order # <<>>
        /\ order' = Tail(order)
        /\ curSize' = curSize - Length(storage[oldest])
        /\ storage' = [storage EXCEPT ![oldest] = NoValue]
        /\ Race("reading")
        /\ thread' = [thread EXCEPT ![t].pc = "unhash", ![t].out = oldest]
        /\ UNCHANGED <<hashes, maxSize, mu, committed>>

Unhash(t) ==
    /\ Holds(t, "unhash")
    /\ hashes' = hashes \ {thread[t].out}
    /\ Race("walking")
    /\ Become(t, "evict", thread[t].key, NoValue)
    /\ UNCHANGED <<storage, order, curSize, maxSize, mu, committed>>

EndWrite(t) ==
    /\ Holds(t, "evict")
    /\ curSize <= maxSize \/ order = <<>>
    /\ mu' = NoThread
    /\ committed' = Done("put", thread[t].key, order)
    /\ Become(t, "idle", NoKey, NoValue)
    /\ UNCHANGED <<storage, hashes, order, curSize, maxSize, faulted>>

\* Delete up to the map of hashes. A key that is not there changes nothing.
Delete(t, k) ==
    /\ Lock(t)
    /\ storage[k] # NoValue
    /\ mu' = t
    /\ curSize' = curSize - Length(storage[k])
    /\ storage' = [storage EXCEPT ![k] = NoValue]
    /\ Race("reading")
    /\ Become(t, "delete", k, NoValue)
    /\ UNCHANGED <<hashes, order, maxSize, committed>>

EndDelete(t) ==
    /\ Holds(t, "delete")
    /\ hashes' = hashes \ {thread[t].key}
    /\ Race("walking")
    /\ order' = RemoveFirst(order, thread[t].key)
    /\ mu' = NoThread
    /\ committed' = Done("forget", thread[t].key, order')
    /\ Become(t, "idle", NoKey, NoValue)
    /\ UNCHANGED <<storage, curSize, maxSize>>

\* A lookup in the map of values, and a walk over the live map of hashes that
\* ListKeys has returned: what they find is left out.
Use(t, pc) ==
    /\ ~ faulted /\ thread[t] = NotBusy
    /\ Become(t, pc, NoKey, NoValue)
    /\ UNCHANGED <<storage, hashes, order, curSize, maxSize, mu, faulted, committed>>

Read(t) == Use(t, "reading")
ListKeys(t) == Use(t, "walking")

EndUse(t) ==
    /\ Holds(t, "reading") \/ Holds(t, "walking")
    /\ Become(t, "idle", NoKey, NoValue)
    /\ UNCHANGED <<storage, hashes, order, curSize, maxSize, mu, faulted, committed>>

-----------------------------------------------------------------------------
\* What a thread in the middle of an operation does next.
GoOn(t) ==
    \/ PutValue(t) \/ PutHash(t) \/ Evict(t) \/ Unhash(t) \/ EndWrite(t)
    \/ EndDelete(t) \/ EndUse(t)

Next ==
    \E t \in Thread :
        \/ GoOn(t)
        \/ Read(t)
        \/ ListKeys(t)
        \/ \E k \in Key : Delete(t, k) \/ \E v \in Value : Write(t, k, v)

Spec == Init /\ [][Next]_vars

\* No step of an operation waits once it has the mutex.
FairSpec == Spec /\ \A t \in Thread : WF_vars(GoOn(t))

-----------------------------------------------------------------------------
\* The shape of the state.
TypeOK ==
    /\ storage \in [Key -> Value \cup {NoValue}]
    /\ hashes \subseteq Key
    /\ order \in Seq(Key)
    /\ curSize \in Int /\ maxSize \in Limits
    /\ mu \in Thread \cup {NoThread}
    /\ thread \in [Thread ->
          [pc : {"idle", "put", "hash", "evict", "unhash", "delete", "reading", "walking"},
           key : Key \cup {NoKey}, val : Value \cup {NoValue}, out : Key \cup {NoKey}]]
    /\ faulted \in BOOLEAN
    /\ committed.entries \in Seq([key : Key, val : Value])

\* The one who changes the storage, by what is left for it to do.
Inside == {"put", "hash", "evict", "unhash", "delete"}
At(pc, k) ==
    \E t \in Thread : thread[t].pc = pc /\ k = IF pc = "unhash" THEN thread[t].out ELSE thread[t].key

\* The mutex keeps writers apart, and the three collections of keys agree up
\* to the key in the hand of the one who holds it (fifo.go 46-58, 63-67 and
\* 79-88): a key that is queued once, valued and hashed, or in none of them.
KeysAgree ==
    /\ \A t \in Thread : thread[t].pc \in Inside <=> mu = t
    /\ \A i, j \in 1 .. Len(order) : order[i] = order[j] => i = j
    /\ \A k \in Key :
        LET queued == \E i \in 1 .. Len(order) : order[i] = k
        IN  /\ ~ At("put", k) /\ ~ At("delete", k) => (queued <=> storage[k] # NoValue)
            /\ At("put", k) \/ At("delete", k) => queued
            /\ ~ At("put", k) /\ ~ At("hash", k) /\ ~ At("unhash", k) /\ ~ At("delete", k) =>
                    (k \in hashes <=> storage[k] # NoValue)

\* curSize is the length of all values, but for the one that is being put
\* (fifo.go 47, 59, 65 and 80): an error of one byte would never go away, and
\* bound the storage wrongly for as long as the process runs.
SizeIsExact ==
    LET counted == {k \in StoredKeys : ~ At("put", k) /\ ~ At("hash", k)}
    IN  curSize = MapThenSumSet(LAMBDA k : Size[storage[k]], counted)

Cache == INSTANCE EvictingCache
    WITH entries <- committed.entries, last <- committed.last, limit <- maxSize,
         Promotes <- FALSE

\* Every Write and Delete does at its unlock what the evicting cache does in
\* one step: an overwritten key is refreshed, the oldest entries go first and
\* no more of them than the limit asks for (fifo.go 40-91).
ImplementsCache == Cache!Spec

\* Every operation ends, also when the storage is filled with one value that
\* is longer than the limit or when the limit is negative (fifo.go 62), so the
\* mutex is released.
OperationsEnd ==
    \A t \in Thread : thread[t].pc # "idle" ~> thread[t].pc = "idle" \/ faulted

-----------------------------------------------------------------------------
\* "No locking as concurrent writes are fine here" (fifo.go 30): a Read that
\* runs beside a Write does no harm. But Go's maps are not made for that.
ReadsNeedNoLock == ~ faulted
=============================================================================
