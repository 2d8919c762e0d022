----------------------------- MODULE LRUStorage -----------------------------
(***************************************************************************)
(* storage/lru.go: the sync.Map of entries, the list in the order of their *)
(* use, the size, and the promoter. Write, Delete and the promoter run     *)
(* under the mutex; Read does not. So every change that a Read can see is  *)
(* a step: a store into the map, a removal from it, and the new value of   *)
(* an entry that is there already.                                         *)
(***************************************************************************)
EXTENDS Integers, Sequences, SequencesExt, FiniteSetsExt

CONSTANTS
    Key, Value, NoValue, NoKey,
    Size,           \* len(value)
    Limits,         \* the maxSize to choose from: STORAGE_SIZE, of either sign
    Reader,         \* the threads that read
    PromoCap        \* bound: the capacity of promoCh, 512 in the code

ASSUME LRUAssumption ==
    /\ Size \in [Value -> Nat]
    /\ Limits \subseteq Int
    /\ NoValue \notin Value /\ NoKey \notin Key
    /\ PromoCap \in Nat

VARIABLES
    storage,    \* the value of the entry that s.storage has, or NoValue, per key
    list,       \* the keys of s.list, the front first
    curSize,    \* s.curSize
    maxSize,    \* s.maxSize
    mu,         \* the key whose Write is under way and holds s.mu, or NoKey
    promoCh,    \* the queue of s.promoCh
    promoting,  \* the key that the promoter has received
    reader,     \* per reader, its Read: [pc, key]
    committed   \* at the last unlock, contents and operation (for the refinement)

vars == <<storage, list, curSize, maxSize, mu, promoCh, promoting, reader, committed>>

StoredKeys == {k \in Key : storage[k] # NoValue}
Length(v) == IF v = NoValue THEN 0 ELSE Size[v]

\* A Read that has an entry in its hand may see the value change under it, as
\* two of the three words of a slice before and one after: "torn". Once the
\* entry is out of the map nobody changes it any more: "kept".
Reading(r, k) == reader[r].pc = "loaded" /\ reader[r].key = k
Overwritten(k) ==
    {[r \in Reader |-> IF r \in T THEN [reader[r] EXCEPT !.pc = "torn"] ELSE reader[r]] :
        T \in SUBSET {r \in Reader : Reading(r, k)}}
Detached(k) ==
    [r \in Reader |-> IF Reading(r, k) THEN [reader[r] EXCEPT !.pc = "kept"] ELSE reader[r]]

\* The contents, the least recently used first, and the operation that ends.
Done(op, k, uses) ==
    [entries |-> [i \in 1 .. Len(uses) |->
                    LET j == Reverse(uses)[i] IN [key |-> j, val |-> storage[j]]],
     last |-> <<op, k>>]

-----------------------------------------------------------------------------
Init ==
    /\ storage = [k \in Key |-> NoValue]
    /\ list = <<>>
    /\ curSize = 0
    /\ maxSize \in Limits
    /\ mu = NoKey
    /\ promoCh = <<>>
    /\ promoting = NoKey
    /\ reader = [r \in Reader |-> [pc |-> "idle", key |-> NoKey]]
    /\ committed = [entries |-> <<>>, last |-> <<>>]

\* Write up to its loop: MoveToFront of an old entry, PushFront of a new one.
Write(k, v) ==
    /\ mu = NoKey
    /\ mu' = k
    /\ storage' = [storage EXCEPT ![k] = v]
    /\ list' = <<k>> \o RemoveFirst(list, k)
    /\ curSize' = curSize - Length(storage[k]) + Size[v]
    /\ reader' \in IF storage[k] = NoValue THEN {reader} ELSE Overwritten(k)
    /\ UNCHANGED <<maxSize, promoCh, promoting, committed>>

Evict ==
    LET back == Last(list)
    IN  /\ mu # NoKey
        /\ curSize > maxSize /\ list # <<>>
        /\ curSize' = curSize - Length(storage[back])
        /\ storage' = [storage EXCEPT ![back] = NoValue]
        /\ list' = Front(list)
        /\ reader' = Detached(back)
        /\ UNCHANGED <<maxSize, mu, promoCh, promoting, committed>>

EndWrite ==
    /\ mu # NoKey
    /\ curSize <= maxSize \/ list = <<>>
    /\ mu' = NoKey
    /\ committed' = Done("put", mu, list)
    /\ UNCHANGED <<storage, list, curSize, maxSize, promoCh, promoting, reader>>

\* Mutant: the length of the deleted value is still counted.
DeleteKeepsSize(k) ==
    /\ mu = NoKey
    /\ storage[k] # NoValue
    /\ storage' = [storage EXCEPT ![k] = NoValue]
    /\ list' = RemoveFirst(list, k)
    /\ reader' = Detached(k)
    /\ committed' = Done("forget", k, list')
    /\ UNCHANGED <<curSize, maxSize, mu, promoCh, promoting>>

\* A Delete of a key that is not there changes nothing.
Delete(k) ==
    /\ mu = NoKey
    /\ storage[k] # NoValue
    /\ curSize' = curSize - Length(storage[k])
    /\ storage' = [storage EXCEPT ![k] = NoValue]
    /\ list' = RemoveFirst(list, k)
    /\ reader' = Detached(k)
    /\ committed' = Done("forget", k, list')
    /\ UNCHANGED <<maxSize, mu, promoCh, promoting>>

-----------------------------------------------------------------------------
\* Read up to the value: the entry is loaded. A miss changes nothing.
Load(r, k) ==
    /\ reader[r].pc = "idle"
    /\ storage[k] # NoValue
    /\ reader' = [reader EXCEPT ![r] = [pc |-> "loaded", key |-> k]]
    /\ UNCHANGED <<storage, list, curSize, maxSize, mu, promoCh, promoting, committed>>

\* The value is copied, and the key is offered to the promoter or not.
Return(r) ==
    /\ reader[r].pc # "idle"
    /\ promoCh' = IF Len(promoCh) < PromoCap THEN Append(promoCh, reader[r].key) ELSE promoCh
    /\ reader' = [reader EXCEPT ![r] = [pc |-> "idle", key |-> NoKey]]
    /\ UNCHANGED <<storage, list, curSize, maxSize, mu, promoting, committed>>

Receive ==
    /\ promoting = NoKey
    /\ promoCh # <<>>
    /\ promoting' = Head(promoCh)
    /\ promoCh' = Tail(promoCh)
    /\ UNCHANGED <<storage, list, curSize, maxSize, mu, reader, committed>>

\* Mutant: a key that has been dropped meanwhile is put into the list again.
promoterUnchecked ==
    /\ promoting # NoKey
    /\ mu = NoKey
    /\ list' = <<promoting>> \o RemoveFirst(list, promoting)
    /\ committed' = Done("touch", promoting, list')
    /\ promoting' = NoKey
    /\ UNCHANGED <<storage, curSize, maxSize, mu, promoCh, reader>>

\* Mutant: the promoter has no lock.
promoterUnlocked ==
    /\ promoting # NoKey
    /\ list' = IF storage[promoting] = NoValue THEN list
               ELSE <<promoting>> \o RemoveFirst(list, promoting)
    /\ committed' = IF storage[promoting] = NoValue THEN committed
                    ELSE Done("touch", promoting, list')
    /\ promoting' = NoKey
    /\ UNCHANGED <<storage, curSize, maxSize, mu, promoCh, reader>>

\* Mutant: a key without an entry is tried again.
promoterRetries ==
    /\ promoting # NoKey
    /\ mu = NoKey
    /\ list' = IF storage[promoting] = NoValue THEN list
               ELSE <<promoting>> \o RemoveFirst(list, promoting)
    /\ committed' = IF storage[promoting] = NoValue THEN committed
                    ELSE Done("touch", promoting, list')
    /\ promoting' = IF storage[promoting] = NoValue THEN promoting ELSE NoKey
    /\ UNCHANGED <<storage, curSize, maxSize, mu, promoCh, reader>>

\* MoveToFront of whatever entry the key has by now.
promoter ==
    /\ promoting # NoKey
    /\ mu = NoKey
    /\ list' = IF storage[promoting] = NoValue THEN list
               ELSE <<promoting>> \o RemoveFirst(list, promoting)
    /\ committed' = IF storage[promoting] = NoValue THEN committed
                    ELSE Done("touch", promoting, list')
    /\ promoting' = NoKey
    /\ UNCHANGED <<storage, curSize, maxSize, mu, promoCh, reader>>

-----------------------------------------------------------------------------
Next ==
    \/ \E k \in Key, v \in Value : Write(k, v)
    \/ Evict \/ EndWrite \/ Receive \/ promoter
    \/ \E k \in Key : Delete(k) \/ \E r \in Reader : Load(r, k)
    \/ \E r \in Reader : Return(r)

Spec == Init /\ [][Next]_vars

\* A Write goes on, and the promoter gets the mutex though writers contend
\* for it: Go hands a mutex to who has waited a millisecond.
FairSpec ==
    /\ Spec
    /\ WF_vars(Evict) /\ WF_vars(EndWrite) /\ WF_vars(Receive)
    /\ SF_vars(promoter)

-----------------------------------------------------------------------------
\* The shape of the state.
TypeOK ==
    /\ storage \in [Key -> Value \cup {NoValue}]
    /\ list \in Seq(Key)
    /\ curSize \in Int /\ maxSize \in Limits
    /\ mu \in Key \cup {NoKey}
    /\ promoCh \in Seq(Key) /\ Len(promoCh) <= PromoCap
    /\ promoting \in Key \cup {NoKey}
    /\ reader \in [Reader -> [pc : {"idle", "loaded", "kept", "torn"}, key : Key \cup {NoKey}]]
    /\ committed.entries \in Seq([key : Key, val : Value])

\* The list has one element per entry of the map, though promotions arrive for
\* keys that have been deleted, evicted or written again since their Read
\* (lru.go 43-51, 73-115).
ListMatchesMap ==
    /\ \A i, j \in 1 .. Len(list) : list[i] = list[j] => i = j
    /\ {list[i] : i \in 1 .. Len(list)} = StoredKeys

\* curSize counts each value once, through overwrites, evictions and deletions
\* (lru.go 79, 88, 94, 110).
SizeIsExact == curSize = MapThenSumSet(LAMBDA k : Size[storage[k]], StoredKeys)

Cache == INSTANCE EvictingCache
    WITH entries <- committed.entries, last <- committed.last, limit <- maxSize,
         Promotes <- TRUE

\* Every Write, Delete and promotion does what the evicting cache does in one
\* step, the promotion moving an entry that is there and never bringing one
\* back; Reads change nothing (lru.go 43-115).
ImplementsCache == Cache!Spec

\* The promoter applies or drops every key it has received, also while writers
\* take the mutex over and over (lru.go 43-51): it would else stop, fill its
\* channel, and turn the order of use into the order of writes.
PromoterGoesOn == promoting # NoKey ~> promoting = NoKey

-----------------------------------------------------------------------------
\* "entry.value is written atomically via atomic.Pointer, so readers always
\* see a consistent (though possibly stale) slice" (lru.go 20-22): no Read
\* sees a value half written. But value is a plain slice of three words that
\* Write assigns (81) while Read copies it (60).
ReadsAreConsistent == \A r \in Reader : reader[r].pc # "torn"
=============================================================================
