--------------------------- MODULE EvictingCache ---------------------------
(***************************************************************************)
(* What the two storages that evict (storage/fifo.go, storage/lru.go)      *)
(* promise of the interface Storage: a queue of entries, the next one to   *)
(* be evicted first, whose total length stays within a limit.              *)
(***************************************************************************)
EXTENDS Integers, Sequences, SequencesExt

CONSTANTS
    Key, Value,
    Size,       \* the length of each value
    Promotes    \* a read may move an entry to the back of the queue (LRU)

VARIABLES
    entries,    \* the entries [key, val] in the order of their eviction
    last,       \* the last operation: its name and its key
    limit       \* STORAGE_SIZE, of either sign

vars == <<entries, last, limit>>

Entry == [key : Key, val : Value]

Weight(queue) == FoldLeft(LAMBDA w, e : w + Size[e.val], 0, queue)

\* No key has two entries.
Without(k) == RemoveFirstMatch(entries, LAMBDA e : e.key = k)

Init == entries = <<>> /\ last = <<>>

\* The new entry comes last; as few of the oldest entries go as the limit
\* asks for, the new one among them when it alone is too long.
Put(k, v) ==
    LET queue == Append(Without(k), [key |-> k, val |-> v])
        Rest(i) == SubSeq(queue, i + 1, Len(queue))
        Fits(i) == Weight(Rest(i)) <= limit \/ Rest(i) = <<>>
    IN  /\ \E i \in 0 .. Len(queue) :
            /\ Fits(i)
            /\ \A j \in 0 .. i - 1 : ~ Fits(j)
            /\ entries' = Rest(i)
        /\ last' = <<"put", k>>

Forget(k) ==
    /\ entries' = Without(k)
    /\ last' = <<"forget", k>>

Touch(k) ==
    /\ Promotes
    /\ \E i \in 1 .. Len(entries) :
        /\ entries[i].key = k
        /\ entries' = Append(Without(k), entries[i])
    /\ last' = <<"touch", k>>

Next ==
    /\ \E k \in Key : Forget(k) \/ Touch(k) \/ \E v \in Value : Put(k, v)
    /\ UNCHANGED limit

Spec == Init /\ [][Next]_vars
=============================================================================
