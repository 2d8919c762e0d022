------------------------------ MODULE HashRing ------------------------------
(***************************************************************************)
(* The consistent hash ring of consistent_hash_ring/index.go: the slice of *)
(* node names, the slice of virtual nodes kept sorted by sortInto, and the *)
(* lookups. Nothing is locked: while AddNode or RemoveNode writes to the   *)
(* slice, lookups of HTTP handlers read it, one slot at a time, and each   *)
(* access loads the slice header anew.                                     *)
(*                                                                         *)
(* memberlist reports joins and leaves of a name in alternation, and what  *)
(* it says of the own name is skipped (event_handler.go 66 and 147): the   *)
(* panics of AddNode for a member (35-37) and of RemoveNode for a stranger *)
(* (52-54) are never reached, and no action stands for them.               *)
(*                                                                         *)
(* Stores become visible in the order of the program, as on amd64, where   *)
(* the length of a slice header is stored before its pointer.              *)
(***************************************************************************)
EXTENDS Placement, Sequences, FiniteSets

CONSTANTS
    Caller,     \* goroutines that call AddNode and RemoveNode
    CallsOf,    \* the names each of them adds and removes
    OwnName,    \* the name of the process, which is added and never removed
    Reader,     \* goroutines that look hashes up
    TornName    \* a string put together from the words of two, or from none

ASSUME RingAssumption ==
    /\ CallsOf \in [Caller -> SUBSET Node]
    /\ OwnName \in Node
    /\ TornName \notin Node \cup {NoNode}

VARIABLES
    nodes,  \* c.nodes
    ring,   \* c.ring, as its header says
    call,   \* per caller, the AddNode or RemoveNode under way
    lookup  \* per reader, the NodeOfDirect under way

vars == <<nodes, ring, call, lookup>>

\* stage "shift": sortInto moves the slots of the array in place; "grown": the
\* array is a new one, and its length has been published; "delete": DeleteFunc
\* moves slots and clears the rest. coming: what c.ring is going to be.
Waiting(op, n, next) ==
    [op |-> op, name |-> n, next |-> next, stage |-> "none", coming |-> <<>>]
Idle == Waiting("idle", NoNode, 0)

\* lo and hi are those of sort.Search, then lo is the index of the answer (from
\* 1). during: the stages of the writes to the ring meanwhile; seen: the nodes
\* with a slot meanwhile (both are histories).
Begun(pc, h, during, seen) ==
    [pc |-> pc, hash |-> h, lo |-> 0, hi |-> 0, answer |-> NoNode, during |-> during, seen |-> seen]
Away == Begun("idle", 0, {}, {})

Members == {nodes[i] : i \in 1 .. Len(nodes)}
Names(slice) == {slice[i][1] : i \in 1 .. Len(slice)}
Writers == {c \in Caller : call[c].stage # "none"}

-----------------------------------------------------------------------------
\* sort.Search over a slice sorted by hash, shifted to indices from 1: the
\* first index whose hash is above h, Len + 1 when there is none.
FirstAbove(slice, h) ==
    CHOOSE i \in 1 .. Len(slice) + 1 :
        /\ \A j \in 1 .. i - 1 : Hash[slice[j]] <= h
        /\ i <= Len(slice) => Hash[slice[i]] > h

\* Mutant: the search is not told to leave out the slot just appended, and
\* stops one short.
sortIntoShort(slice, point) ==
    LET i == FirstAbove(slice, Hash[point])
        at == IF i > 1 THEN i - 1 ELSE i
    IN  [j \in 1 .. Len(slice) + 1 |->
            IF j < at THEN slice[j] ELSE IF j = at THEN point ELSE slice[j - 1]]

\* Mutant: a point goes before those with the same hash.
sortIntoBeforeEquals(slice, point) ==
    LET i == Cardinality({j \in 1 .. Len(slice) : Hash[slice[j]] < Hash[point]}) + 1
    IN  [j \in 1 .. Len(slice) + 1 |->
            IF j < i THEN slice[j] ELSE IF j = i THEN point ELSE slice[j - 1]]

\* The point goes behind every point whose hash is not above its own.
sortInto(slice, point) ==
    LET i == FirstAbove(slice, Hash[point])
    IN  [j \in 1 .. Len(slice) + 1 |->
            IF j < i THEN slice[j] ELSE IF j = i THEN point ELSE slice[j - 1]]

\* Mutant: a hash below all points goes to the first of them.
NodeOfDirectNoWrap(h) ==
    IF ring = <<>> THEN NoNode
    ELSE LET i == FirstAbove(ring, h) - 1
         IN  ring[IF i < 1 THEN 1 ELSE i][1]

\* A lookup of h that nothing interrupts.
NodeOfDirect(h) ==
    IF ring = <<>> THEN NoNode
    ELSE LET i == FirstAbove(ring, h) - 1
         IN  ring[IF i < 1 THEN Len(ring) ELSE i][1]

\* slices.DeleteFunc: the slot k takes the kth of the elements that stay. (Not
\* SelectSeq, which recurses, so that the ring can be proved about.)
Compact(slice, stay) ==
    [k \in 1 .. Cardinality(stay) |->
        slice[CHOOSE i \in stay : Cardinality({j \in stay : j < i}) = k - 1]]
DeleteName(slice, n) == Compact(slice, {i \in 1 .. Len(slice) : slice[i] # n})
DeletePointsOf(slice, n) == Compact(slice, {i \in 1 .. Len(slice) : slice[i][1] # n})

-----------------------------------------------------------------------------
Init ==
    /\ nodes = <<>>
    /\ ring = <<>>
    /\ call = [c \in Caller |-> Idle]
    /\ lookup = [r \in Reader |-> Away]

\* Lookups learn that a write begins.
Witnessed(stage, slice) ==
    lookup' = [r \in Reader |->
        IF lookup[r] = Away THEN Away
        ELSE [lookup[r] EXCEPT !.during = @ \cup {stage}, !.seen = @ \cup Names(slice)]]

\* c writes, towards the given slice.
Begin(c, stage, slice) ==
    /\ call' = [call EXCEPT ![c].stage = stage, ![c].coming = slice]
    /\ Witnessed(stage, slice)
    /\ UNCHANGED <<nodes, ring>>

AddNode(c, n) ==
    /\ call[c] = Idle
    /\ n \in CallsOf[c] \ Members
    /\ nodes' = Append(nodes, n)
    /\ call' = [call EXCEPT ![c] = Waiting("add", n, 0)]
    /\ UNCHANGED <<ring, lookup>>

\* sortInto with room left in the array. That is shared: of two callers who
\* write at the same time the model has only those with an array each.
ShiftSlots(c) ==
    /\ call[c].op = "add" /\ Writers = {}
    /\ Begin(c, "shift", sortInto(ring, <<call[c].name, call[c].next>>))

\* sortInto on a full array: append copies the slots into a new one.
GrowArray(c) ==
    /\ call[c].op = "add" /\ call[c].stage = "none"
    /\ \A d \in Writers : call[d].stage = "grown"
    /\ Begin(c, "grown", sortInto(ring, <<call[c].name, call[c].next>>))

\* Mutant: the last virtual node is left out.
InsertVirtualNodeShort(c) ==
    /\ call[c].op = "add" /\ c \in Writers
    /\ ring' = IF call[c].next + 1 = VirtualNodes THEN ring ELSE call[c].coming
    /\ call' = [call EXCEPT ![c] =
            IF call[c].next + 1 = VirtualNodes THEN Idle
            ELSE Waiting("add", call[c].name, call[c].next + 1)]
    /\ UNCHANGED <<nodes, lookup>>

\* Mutant: the loop runs one index too far.
InsertVirtualNodeBeyond(c) ==
    /\ call[c].op = "add" /\ c \in Writers
    /\ ring' = call[c].coming
    /\ call' = [call EXCEPT ![c] =
            IF @.next = VirtualNodes THEN Idle
            ELSE Waiting("add", call[c].name, call[c].next + 1)]
    /\ UNCHANGED <<nodes, lookup>>

\* The virtual node is in its place, and c.ring is assigned.
InsertVirtualNode(c) ==
    /\ call[c].op = "add" /\ c \in Writers
    /\ ring' = call[c].coming
    /\ call' = [call EXCEPT ![c] =
            IF call[c].next + 1 = VirtualNodes THEN Idle
            ELSE Waiting("add", call[c].name, call[c].next + 1)]
    /\ UNCHANGED <<nodes, lookup>>

RemoveNode(c, n) ==
    /\ call[c] = Idle
    /\ n \in (CallsOf[c] \cap Members) \ {OwnName}
    /\ nodes' = DeleteName(nodes, n)
    /\ call' = [call EXCEPT ![c] = Waiting("remove", n, 0)]
    /\ UNCHANGED <<ring, lookup>>

\* DeleteFunc never leaves the array it works on.
DeleteSlots(c) ==
    /\ call[c].op = "remove" /\ Writers = {}
    /\ Begin(c, "delete", DeletePointsOf(ring, call[c].name))

RemoveVirtualNodes(c) ==
    /\ call[c].op = "remove" /\ c \in Writers
    /\ ring' = call[c].coming
    /\ call' = [call EXCEPT ![c] = Idle]
    /\ UNCHANGED <<nodes, lookup>>

-----------------------------------------------------------------------------
(* What a lookup reads. A slot that is being moved is the old or the new    *)
(* one; its name may be torn. With the new length and the old pointer it    *)
(* reads beyond the array: what is there may be an older ring array, zero,  *)
(* something else, or not mapped at all.                                    *)

NoPoint == <<NoNode, 0>>    \* virtualNode{}
HashOf(p) == IF p = NoPoint THEN 0 ELSE Hash[p]

LenSeen == IF \E c \in Writers : call[c].stage = "grown" THEN Len(ring) + 1 ELSE Len(ring)

\* Mutant: the slots that move are cleared first.
SlotsSeenCleared(i) ==
    {ring[i]} \cup {NoPoint : c \in {d \in Writers : call[d].stage \in {"shift", "delete"}}}

SlotsSeen(i) ==
    {ring[i]} \cup
    {IF i <= Len(call[c].coming) THEN call[c].coming[i] ELSE NoPoint :
        c \in {d \in Writers : call[d].stage \in {"shift", "delete"}}}

AboveSeen(i, h) == IF i > Len(ring) THEN BOOLEAN ELSE {HashOf(p) > h : p \in SlotsSeen(i)}

NamesSeen(i) ==
    LET names == {p[1] : p \in SlotsSeen(i)}
    IN  IF i > Len(ring) THEN Node \cup {NoNode, TornName}
        ELSE IF Cardinality(names) > 1 THEN names \cup {TornName} ELSE names

\* Reader r goes on as l.
Proceeds(r, l) ==
    /\ lookup' = [lookup EXCEPT ![r] = l]
    /\ UNCHANGED <<nodes, ring, call>>

\* The index sort.Search has come to is out of range: a panic, which net/http
\* recovers from.
Panics(r) == Proceeds(r, [lookup[r] EXCEPT !.pc = "panic"])

\* Mutant: an upper bound one too low.
NarrowEarly(l) ==
    IF l.lo + 1 < l.hi THEN [l EXCEPT !.pc = "probe"]
    ELSE [l EXCEPT !.pc = IF l.lo = 0 THEN "wrap" ELSE "name"]

\* The search of r is over when the bounds meet; nothing below h wraps around.
Narrow(l) ==
    IF l.lo < l.hi THEN [l EXCEPT !.pc = "probe"]
    ELSE [l EXCEPT !.pc = IF l.lo = 0 THEN "wrap" ELSE "name"]

\* NodeOfDirect up to its first use of the length.
BeginLookup(r, h) ==
    /\ lookup[r] = Away
    /\ Proceeds(r, Begun(IF LenSeen = 0 THEN "empty" ELSE "measure", h,
            {call[c].stage : c \in Writers},
            Names(ring) \cup UNION {Names(call[c].coming) : c \in Writers}))

\* The length that sort.Search is given.
Measure(r) ==
    /\ lookup[r].pc = "measure"
    /\ Proceeds(r, Narrow([lookup[r] EXCEPT !.hi = LenSeen]))

\* One call of the function that sort.Search is given.
Probe(r) ==
    LET m == (lookup[r].lo + lookup[r].hi) \div 2
    IN  /\ lookup[r].pc = "probe"
        /\ IF m + 1 > LenSeen THEN Panics(r)
           ELSE \E above \in AboveSeen(m + 1, lookup[r].hash) :
                    Proceeds(r, Narrow(IF above THEN [lookup[r] EXCEPT !.hi = m]
                                       ELSE [lookup[r] EXCEPT !.lo = m + 1]))

Wrap(r) ==
    /\ lookup[r].pc = "wrap"
    /\ Proceeds(r, [lookup[r] EXCEPT !.pc = "name", !.lo = LenSeen])

ReadName(r) ==
    /\ lookup[r].pc = "name"
    /\ IF lookup[r].lo \notin 1 .. LenSeen THEN Panics(r)
       ELSE \E name \in NamesSeen(lookup[r].lo) :
                Proceeds(r, [lookup[r] EXCEPT !.pc = "done", !.answer = name])

\* A read beyond the array hits memory that is not mapped. Go does not turn
\* that into a panic: the process ends.
Fault(r) ==
    LET beyond == Len(ring) + 1 .. LenSeen
    IN  /\ \/ lookup[r].pc = "probe" /\ (lookup[r].lo + lookup[r].hi) \div 2 + 1 \in beyond
           \/ lookup[r].pc = "name" /\ lookup[r].lo \in beyond
        /\ lookup' = [q \in Reader |-> Begun("ended", 0, {}, {})]
        /\ UNCHANGED <<nodes, ring, call>>

\* The caller of NodeOfDirect has its answer.
EndLookup(r) ==
    /\ lookup[r].pc \in {"empty", "done", "panic"}
    /\ Proceeds(r, Away)

-----------------------------------------------------------------------------
Change(c) ==
    \/ ShiftSlots(c) \/ GrowArray(c) \/ InsertVirtualNode(c)
    \/ DeleteSlots(c) \/ RemoveVirtualNodes(c)
    \/ \E n \in Node : AddNode(c, n) \/ RemoveNode(c, n)

Look(r) ==
    \/ Measure(r) \/ Probe(r) \/ Wrap(r) \/ ReadName(r) \/ Fault(r) \/ EndLookup(r)
    \/ \E h \in HashValue : BeginLookup(r, h)

Running == \A r \in Reader : lookup[r].pc # "ended"

Next ==
    /\ Running
    /\ (\E c \in Caller : Change(c)) \/ (\E r \in Reader : Look(r))

Spec == Init /\ [][Next]_vars

-----------------------------------------------------------------------------
\* The shape of the state: node names, virtual nodes, and what is under way.
TypeOK ==
    /\ nodes \in Seq(Node)
    /\ ring \in Seq(Point)
    /\ call \in [Caller ->
            [op : {"idle", "add", "remove"}, name : Node \cup {NoNode},
             next : 0 .. VirtualNodes - 1, stage : {"none", "shift", "grown", "delete"},
             coming : Seq(Point)]]
    /\ lookup \in [Reader ->
            [pc : {"idle", "measure", "probe", "wrap", "name", "empty", "done", "panic", "ended"},
             hash : HashValue, lo : Nat, hi : Nat, answer : Node \cup {NoNode, TornName},
             during : SUBSET {"shift", "grown", "delete"}, seen : SUBSET Node]]

\* The points that belong on the ring at this instant: all those of the
\* members, of a node that is being added those inserted so far, and those of
\* a node whose name is gone but whose points are not.
Expected ==
    {p \in Point :
        \/ /\ p[1] \in Members
           /\ \A c \in Caller : call[c].op = "add" /\ call[c].name = p[1] => p[2] < call[c].next
        \/ \E c \in Caller : call[c].op = "remove" /\ call[c].name = p[1]}

\* Every lookup that nothing interrupts, also one between two insertions of
\* AddNode, answers a node whose virtual node is nearest below the hash among those
\* that belong on the ring, and the empty name exactly when there is none:
\* the sorted insertion, the binary search and its wrap-around (index.go
\* 67-95) compute the placement rule whatever the order of joins and leaves.
LookupFollowsPlacement ==
    LET E == Expected
    IN  \A h \in HashValue :
            IF E = {} THEN NodeOfDirect(h) = NoNode ELSE NodeOfDirect(h) \in Owners(E, h)

\* A step moves a hash only to the node that is joining or away from the node
\* that is leaving (index.go 34-60): a membership change never shuffles keys
\* between two nodes that stay, so NotifyJoin has only keys for the new node.
MinimalMovement ==
    [][ring' # ring =>
          \A h \in HashValue :
              NodeOfDirect(h)' # NodeOfDirect(h) =>
                  \E c \in Caller :
                      \/ call[c].op = "add" /\ NodeOfDirect(h)' = call[c].name
                      \/ call[c].op = "remove" /\ NodeOfDirect(h) = call[c].name]_vars

\* One entry per virtual node, in the order of the hashes: nothing is lost or
\* doubled by the shifting in sortInto (index.go 85-95) and by DeleteFunc.
RingSorted ==
    /\ \A i, j \in 1 .. Len(ring) : i < j => Hash[ring[i]] <= Hash[ring[j]]
    /\ \A i, j \in 1 .. Len(ring) : ring[i] = ring[j] => i = j
    /\ {ring[i] : i \in 1 .. Len(ring)} = Expected

\* The steps of NodeOfDirect, its binary search slot by slot, arrive at an owner
\* of the hash if nothing is written to the ring meanwhile (index.go 67-80).
QuietLookupsAreRight ==
    \A r \in Reader :
        lookup[r].pc \in {"empty", "done", "panic"} /\ lookup[r].during = {} =>
            IF Expected = {} THEN lookup[r].pc = "empty"
            ELSE /\ lookup[r].pc = "done"
                 /\ lookup[r].answer \in Owners(Expected, lookup[r].hash)

\* What an unlocked lookup may answer beside a write that is under way: the name
\* of a node that had a slot meanwhile, unless the write explains another. Slots
\* that shift (index.go 92-93) show a torn name at worst; an array that grows (87),
\* whose new length is seen with the old array, any name or none; and only
\* a RemoveNode (59), which clears slots and shortens the slice, can
\* make a lookup run out of range (79).
StrayLookupsHaveACause ==
    \A r \in Reader :
        LET during == lookup[r].during
        IN  /\ lookup[r].pc = "panic" => "delete" \in during
            /\ lookup[r].pc = "done" /\ lookup[r].answer \notin lookup[r].seen =>
                  \/ "grown" \in during
                  \/ "delete" \in during /\ lookup[r].answer = NoNode
                  \/ during # {} /\ lookup[r].answer = TornName

\* Between two calls a lookup answers what the order of the joins decides: of
\* the nodes with a nearest point the one that joined last (sortInto puts a point
\* behind those with the same hash, index.go 90). So two rings on which the
\* same nodes joined in the same order name the same owners.
LatestJoinWinsTies ==
    (\A c \in Caller : call[c] = Idle) =>
        \A h \in HashValue : NodeOfDirect(h) = Owner(nodes, h)
-----------------------------------------------------------------------------
(* What the documentation says and the code does not do.                   *)

\* "Add ourselves to the hash ring immediately. This ensures the ring is never
\* empty and we can handle requests for our own keys" (cluster/membership.go
\* 85-86): a node whose AddNode has returned has all its points on the ring. But
\* memberlist has been running since line 80, and calls AddNode for peers.
AddedNodesStay ==
    \A n \in Members :
        (\A c \in Caller : call[c].name # n) => PointsOf(n) \subseteq {ring[i] : i \in 1 .. Len(ring)}
=============================================================================
