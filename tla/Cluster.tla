------------------------------ MODULE Cluster ------------------------------
(***************************************************************************)
(* The cluster: every node's view of the ring, its connection pool and its *)
(* store, the memberlist event handler that moves keys when a node joins   *)
(* (cluster/event_handler.go), the goroutines that POST and DELETE leave   *)
(* behind (http_server/index.go), the gRPC server that stores what peers   *)
(* send (grpc_server/index.go), and the start and the shutdown of main.go. *)
(*                                                                         *)
(* memberlist is not part of the repository. It calls NotifyJoin and       *)
(* NotifyLeave of one process one at a time, joins and leaves of one name  *)
(* in alternation; processes learn of a change in any order and after any  *)
(* delay, and may suspect a process that is alive.                         *)
(***************************************************************************)
EXTENDS Placement, FiniteSets, SequencesExt

CONSTANTS
    Key, Value,
    KeyHash,        \* xxhash.Sum64String(key), external
    UnsentKeys,     \* keys that are not UTF-8: no RPC can carry them
    RejectedValues, \* values no peer takes: of length zero, or above gRPC's 4 MiB
    NoKey, NoValue, \* the empty key, and nil
    InitialMembers, \* the processes that run, and know each other, at first
    UnparsedMeta,   \* nodes whose metadata peers cannot parse
    Unaddressed,    \* nodes whose metadata is read and names no gRPC address
    LiveListing,    \* ListKeys returns the live map (FIFO, none), not a copy (LRU)
    Evicting,       \* the storage drops keys over its limit (FIFO, LRU)
    MaxRequests,    \* bound: POSTs and DELETEs that HTTP servers accept
    MaxStops,       \* bound: crashes and shutdowns
    MaxSuspicions,  \* bound: leave events for a process that runs
    MaxDrops        \* bound: RPCs that fail though the peer serves

ASSUME ClusterAssumption ==
    /\ KeyHash \in [Key -> HashValue]
    /\ NoKey \notin Key
    /\ NoValue \notin Value
    /\ InitialMembers \subseteq Node /\ IsFiniteSet(InitialMembers)
    /\ UnparsedMeta \subseteq Node
    /\ Unaddressed \subseteq Node \ UnparsedMeta
    /\ LiveListing \in BOOLEAN
    /\ Evicting \in BOOLEAN
    /\ {MaxRequests, MaxStops, MaxSuspicions, MaxDrops} \subseteq Nat

VARIABLES
    phase,      \* how far main has come, per node
    view,       \* the names on the node's hash ring, in the order they joined
    pool,       \* the names in the node's gRPC pool
    store,      \* the node's storage: a value or NoValue per key
    handler,    \* the membership event being handled, per node
    fresh,      \* keys written to the store while the handler walks its keys
    tasks,      \* goroutines of accepted requests, and RPCs they have sent
    settled,    \* keys that must not get lost (a history: see Settle)
    left        \* what remains of the bounds

vars == <<phase, view, pool, store, handler, fresh, tasks, settled, left>>

-----------------------------------------------------------------------------
\* "created": memberlist runs but NewManager has not put the own name on the
\* ring; "member": on the ring, joining; "grpc": the gRPC server listens;
\* "serving": HTTP too; "draining": HTTP has stopped; "closing": gRPC too.
Phase == {"down", "created", "member", "grpc", "serving", "draining", "closing"}

Up(n) == phase[n] # "down"
HttpUp(n) == phase[n] = "serving"
GrpcUp(n) == phase[n] \in {"grpc", "serving", "draining"}

NoHandler == [pc |-> "idle", peer |-> NoNode, listed |-> {}, visited |-> {},
              key |-> NoKey, target |-> NoNode, val |-> NoValue]

Handler ==
    [pc : {"idle", "connect", "scan", "read", "send", "delete", "disconnect"},
     peer : Node \cup {NoNode}, listed : SUBSET Key, visited : SUBSET Key,
     key : Key \cup {NoKey}, target : Node \cup {NoNode}, val : Value \cup {NoValue}]

Post == [id : 1 .. MaxRequests, node : Node, op : {"post"}, key : Key, val : Value,
         target : Node, pc : {"queued", "sent"}]
Deletion == [id : 1 .. MaxRequests, node : Node, op : {"delete"}, key : Key, val : {NoValue},
             target : Node, pc : {"queued"}]

\* The event handler of n goes on with h, or returns.
Become(n, h) == handler' = [handler EXCEPT ![n] = h]
Return(n) == Become(n, NoHandler)

StoredKeys(n) == {k \in Key : store[n][k] # NoValue}
EmptyStore == [k \in Key |-> NoValue]

Bounds == [requests : 0 .. MaxRequests, stops : 0 .. MaxStops,
           suspicions : 0 .. MaxSuspicions, drops : 0 .. MaxDrops]

\* The nodes on n's ring.
OnRing(n) == Range(view[n])

\* The node that n's ring names for k.
OwnerOn(n, k) == Owner(view[n], KeyHash[k])

\* What a gRPC Write can store: the request must be encoded, be no longer than
\* a message may be, and pass the server's checks, where the hash 0 counts as
\* missing and protobuf delivers a value of length zero as nil.
Accepts(k, v) == k \notin UnsentKeys /\ KeyHash[k] # 0 /\ v \notin {NoValue} \cup RejectedValues

\* The keys a write may push out: any, the written one included.
Evictable == IF Evicting THEN SUBSET Key ELSE {{}}

\* storage.Write of k at n, after which the keys in E are gone.
StoreAfterWrite(n, k, v, E) ==
    [store EXCEPT ![n] =
        [j \in Key |-> IF j \in E THEN NoValue ELSE IF j = k THEN v ELSE @[j]]]

\* The handler of n walks the keys it listed, so writes to n are news to it.
FreshAfterWrite(n, k) ==
    IF handler[n].pc \in {"scan", "read", "send", "delete"}
    THEN [fresh EXCEPT ![n] = @ \cup {k}] ELSE fresh

\* A client's value for k has arrived in a store. From now on k must not get
\* lost, unless a handler has already sent k on and deletes it next.
Settle(k, E) ==
    (settled \cup {j \in {k} : ~ \E n \in Node : /\ handler[n].pc = "delete"
                                                 /\ handler[n].key = k}) \ E

-----------------------------------------------------------------------------
Init ==
    /\ phase = [n \in Node |-> IF n \in InitialMembers THEN "serving" ELSE "down"]
    /\ view \in [Node -> SetToSeqs(InitialMembers) \cup {<<>>}]
    /\ \A n \in Node : IF n \in InitialMembers THEN view[n] # <<>> /\ Head(view[n]) = n
                                               ELSE view[n] = <<>>
    /\ pool = [n \in Node |-> IF n \in InitialMembers
                              THEN InitialMembers \ ({n} \cup Unaddressed) ELSE {}]
    /\ store = [n \in Node |-> EmptyStore]
    /\ handler = [n \in Node |-> NoHandler]
    /\ fresh = [n \in Node |-> {}]
    /\ tasks = {}
    /\ settled = {}
    /\ left = [requests |-> MaxRequests, stops |-> MaxStops,
               suspicions |-> MaxSuspicions, drops |-> MaxDrops]

-----------------------------------------------------------------------------
(* main.go and NewManager: phases of a process.                            *)

SetPhase(n, from, to) ==
    /\ phase[n] = from
    /\ phase' = [phase EXCEPT ![n] = to]

Start(n) ==
    /\ SetPhase(n, "down", "created")
    /\ UNCHANGED <<view, pool, store, handler, fresh, tasks, settled, left>>

AddSelf(n) ==
    /\ SetPhase(n, "created", "member")
    /\ view' = [view EXCEPT ![n] = Append(@, n)]
    /\ UNCHANGED <<pool, store, handler, fresh, tasks, settled, left>>

ServeGrpc(n) ==
    /\ SetPhase(n, "member", "grpc")
    /\ UNCHANGED <<view, pool, store, handler, fresh, tasks, settled, left>>

ServeHttp(n) ==
    /\ SetPhase(n, "grpc", "serving")
    /\ UNCHANGED <<view, pool, store, handler, fresh, tasks, settled, left>>

\* Shutdown waits for requests being answered, not for their goroutines.
ShutdownHttp(n) ==
    /\ left.stops > 0
    /\ SetPhase(n, "serving", "draining")
    /\ left' = [left EXCEPT !.stops = @ - 1]
    /\ UNCHANGED <<view, pool, store, handler, fresh, tasks, settled>>

StopGrpc(n) ==
    /\ SetPhase(n, "draining", "closing")
    /\ UNCHANGED <<view, pool, store, handler, fresh, tasks, settled, left>>

\* The process is gone: its memory, the handler it ran and the goroutines that
\* had not sent their RPC. What it alone may have held is no longer settled.
Vanish(n) ==
    /\ phase' = [phase EXCEPT ![n] = "down"]
    /\ view' = [view EXCEPT ![n] = <<>>]
    /\ pool' = [pool EXCEPT ![n] = {}]
    /\ store' = [store EXCEPT ![n] = EmptyStore]
    /\ Return(n)
    /\ fresh' = [fresh EXCEPT ![n] = {}]
    /\ tasks' = {t \in tasks : t.node = n => t.pc = "sent"}
    /\ settled' = settled \ StoredKeys(n)

\* Manager.Leave and the end of main: nothing is handed over.
Leave(n) ==
    /\ phase[n] = "closing"
    /\ Vanish(n)
    /\ UNCHANGED left

Crash(n) ==
    /\ Up(n)
    /\ left.stops > 0
    /\ left' = [left EXCEPT !.stops = @ - 1]
    /\ Vanish(n)

-----------------------------------------------------------------------------
(* http_server/index.go: a request answered 202 leaves a goroutine that    *)
(* knows the owner its node's ring named when the request came in.         *)

Accept(n, op, k, v) ==
    /\ HttpUp(n)
    /\ left.requests > 0
    /\ tasks' = tasks \cup {[id |-> left.requests, node |-> n, op |-> op, key |-> k,
                             val |-> v, target |-> OwnerOn(n, k), pc |-> "queued"]}
    /\ left' = [left EXCEPT !.requests = @ - 1]
    /\ UNCHANGED <<phase, view, pool, store, handler, fresh, settled>>

\* Mutant: the body is lost on the way to the goroutine.
handlePostNoBody(n, k, v) == Accept(n, "post", k, NoValue)

handlePost(n, k, v) == Accept(n, "post", k, v)

\* A DELETE of a key that another node owns is answered 501.
handleDelete(n, k) ==
    /\ OwnerOn(n, k) = n
    /\ Accept(n, "delete", k, NoValue)

writeValue(t) ==
    /\ t.op = "post" /\ t.pc = "queued" /\ t.target = t.node
    /\ \E E \in Evictable :
        /\ store' = StoreAfterWrite(t.node, t.key, t.val, E)
        /\ settled' = Settle(t.key, E)
    /\ fresh' = FreshAfterWrite(t.node, t.key)
    /\ tasks' = tasks \ {t}
    /\ UNCHANGED <<phase, view, pool, handler, left>>

deleteValue(t) ==
    /\ t.op = "delete" /\ t.pc = "queued"
    /\ store' = [store EXCEPT ![t.node][t.key] = NoValue]
    /\ settled' = settled \ {t.key}
    /\ tasks' = tasks \ {t}
    /\ UNCHANGED <<phase, view, pool, handler, fresh, left>>

\* forwardPost up to its RPC; without a connection the write is dropped.
forwardPost(t) ==
    /\ t.op = "post" /\ t.pc = "queued" /\ t.target # t.node
    /\ tasks' = (tasks \ {t}) \cup
                {u \in {[t EXCEPT !.pc = "sent"]} : t.target \in pool[t.node]}
    /\ UNCHANGED <<phase, view, pool, store, handler, fresh, settled, left>>

\* The peer's gRPC Write of a forwarded POST. It may come after the sender
\* gave up or went down.
Write(t) ==
    /\ t.pc = "sent"
    /\ GrpcUp(t.target)
    /\ IF Accepts(t.key, t.val)
       THEN /\ \E E \in Evictable :
                /\ store' = StoreAfterWrite(t.target, t.key, t.val, E)
                /\ settled' = Settle(t.key, E)
            /\ fresh' = FreshAfterWrite(t.target, t.key)
       ELSE UNCHANGED <<store, settled, fresh>>
    /\ tasks' = tasks \ {t}
    /\ UNCHANGED <<phase, view, pool, handler, left>>

\* Mutant: an RPC to a peer that does not serve waits until it does.
WriteWaitsForReady(t) ==
    /\ t.pc = "sent"
    /\ GrpcUp(t.target)
    /\ left.drops > 0 /\ left' = [left EXCEPT !.drops = @ - 1]
    /\ tasks' = tasks \ {t}
    /\ UNCHANGED <<phase, view, pool, store, handler, fresh, settled>>

\* The RPC fails without reaching the store: refused, cancelled, timed out.
WriteFails(t) ==
    /\ t.pc = "sent"
    /\ IF GrpcUp(t.target)
       THEN left.drops > 0 /\ left' = [left EXCEPT !.drops = @ - 1]
       ELSE UNCHANGED left
    /\ tasks' = tasks \ {t}
    /\ UNCHANGED <<phase, view, pool, store, handler, fresh, settled>>

TaskStep(t) == writeValue(t) \/ deleteValue(t) \/ forwardPost(t) \/ Write(t) \/ WriteFails(t)

-----------------------------------------------------------------------------
(* cluster/event_handler.go. pc: "connect" and "disconnect" once the ring  *)
(* has changed and the pool has not, "scan" in the loop over the keys,     *)
(* "read", "send" and "delete" before those calls of one iteration.        *)

NotifyJoin(n, peer) ==
    /\ Up(n) /\ Up(peer) /\ n # peer
    /\ handler[n] = NoHandler
    /\ peer \notin OnRing(n)
    /\ view' = [view EXCEPT ![n] = Append(@, peer)]
    /\ Become(n, [NoHandler EXCEPT !.pc = "connect", !.peer = peer])
    /\ UNCHANGED <<phase, pool, store, fresh, tasks, settled, left>>

\* Mutant: the peer is not put into the pool and the handler goes on.
AddConnectionIgnored(n) ==
    /\ handler[n].pc = "connect"
    /\ fresh' = [fresh EXCEPT ![n] = {}]
    /\ Become(n, [handler[n] EXCEPT !.pc = "scan", !.listed = StoredKeys(n)])
    /\ UNCHANGED <<phase, view, pool, store, tasks, settled, left>>

\* A peer with unreadable metadata gets a connection and no keys. A peer without
\* an address gets an error instead of a connection, and the handler goes on.
AddConnection(n) ==
    /\ handler[n].pc = "connect"
    /\ pool' = [pool EXCEPT ![n] = @ \cup ({handler[n].peer} \ Unaddressed)]
    /\ fresh' = [fresh EXCEPT ![n] = {}]
    /\ Become(n, IF handler[n].peer \in UnparsedMeta THEN NoHandler
                 ELSE [handler[n] EXCEPT !.pc = "scan", !.listed = StoredKeys(n)])
    /\ UNCHANGED <<phase, view, store, tasks, settled, left>>

\* The keys the loop may come to next: of a live map the keys that are in it.
Upcoming(n) ==
    (IF LiveListing THEN StoredKeys(n) ELSE handler[n].listed) \ handler[n].visited

\* Mutant: keys of other nodes go to the node that joined, not to their owner.
PickKeyForPeer(n) ==
    /\ handler[n].pc = "scan"
    /\ \E k \in Upcoming(n) :
        LET next == [handler[n] EXCEPT !.visited = @ \cup {k}]
        IN  Become(n, IF OwnerOn(n, k) = n THEN next
                      ELSE [next EXCEPT !.pc = "read", !.key = k, !.target = handler[n].peer])
    /\ UNCHANGED <<phase, view, pool, store, fresh, tasks, settled, left>>

PickKey(n) ==
    /\ handler[n].pc = "scan"
    /\ \E k \in Upcoming(n) :
        LET owner == OwnerOn(n, k)
            next == [handler[n] EXCEPT !.visited = @ \cup {k}]
        IN  Become(n, IF owner = n THEN next
                      ELSE IF owner \in pool[n]
                      THEN [next EXCEPT !.pc = "read", !.key = k, !.target = owner]
                      ELSE NoHandler)
    /\ UNCHANGED <<phase, view, pool, store, fresh, tasks, settled, left>>

\* A loop over a live map may skip what was added to it meanwhile.
EndScan(n) ==
    /\ handler[n].pc = "scan"
    /\ IF LiveListing
       THEN Upcoming(n) \cap (handler[n].listed \ fresh[n]) = {}
       ELSE Upcoming(n) = {}
    /\ Return(n)
    /\ UNCHANGED <<phase, view, pool, store, fresh, tasks, settled, left>>

Read(n) ==
    /\ handler[n].pc = "read"
    /\ Become(n, [handler[n] EXCEPT !.pc = "send", !.val = store[n][handler[n].key]])
    /\ UNCHANGED <<phase, view, pool, store, fresh, tasks, settled, left>>

\* The peer stores the key and the handler learns of it.
SendOk(n) ==
    LET h == handler[n]
    IN  /\ h.pc = "send"
        /\ GrpcUp(h.target) /\ Accepts(h.key, h.val)
        /\ \E E \in Evictable :
            /\ store' = StoreAfterWrite(h.target, h.key, h.val, E)
            /\ settled' = settled \ E
        /\ fresh' = FreshAfterWrite(h.target, h.key)
        /\ Become(n, [h EXCEPT !.pc = "delete"])
        /\ UNCHANGED <<phase, view, pool, tasks, left>>

\* Mutant: after an error the handler continues with the next key.
SendFailsGoesOn(n) ==
    LET h == handler[n]
    IN  /\ h.pc = "send"
        /\ ~ (GrpcUp(h.target) /\ Accepts(h.key, h.val))
        /\ Become(n, [h EXCEPT !.pc = "scan"])
        /\ UNCHANGED <<phase, view, pool, store, fresh, tasks, settled, left>>

\* Mutant: after an error the key is deleted all the same.
SendFailsDeletes(n) ==
    LET h == handler[n]
    IN  /\ h.pc = "send"
        /\ ~ (GrpcUp(h.target) /\ Accepts(h.key, h.val))
        /\ Become(n, [h EXCEPT !.pc = "delete"])
        /\ UNCHANGED <<phase, view, pool, store, fresh, tasks, settled, left>>

\* Mutant: the RPC is tried again until the peer has stored the key.
SendFailsRetries(n) ==
    LET h == handler[n]
    IN  /\ h.pc = "send"
        /\ ~ (GrpcUp(h.target) /\ Accepts(h.key, h.val))
        /\ Become(n, [h EXCEPT !.val = store[n][h.key]])
        /\ UNCHANGED <<phase, view, pool, store, fresh, tasks, settled, left>>

\* The peer does not serve, rejects the value, or the RPC gets lost: the
\* handler returns, whatever keys remain.
SendFails(n) ==
    LET h == handler[n]
    IN  /\ h.pc = "send"
        /\ IF GrpcUp(h.target) /\ Accepts(h.key, h.val)
           THEN left.drops > 0 /\ left' = [left EXCEPT !.drops = @ - 1]
           ELSE UNCHANGED left
        /\ Return(n)
        /\ UNCHANGED <<phase, view, pool, store, fresh, tasks, settled>>

\* The peer stores the key but its answer gets lost.
SendLosesReply(n) ==
    LET h == handler[n]
    IN  /\ h.pc = "send"
        /\ GrpcUp(h.target) /\ Accepts(h.key, h.val)
        /\ left.drops > 0
        /\ left' = [left EXCEPT !.drops = @ - 1]
        /\ \E E \in Evictable :
            /\ store' = StoreAfterWrite(h.target, h.key, h.val, E)
            /\ settled' = settled \ E
        /\ fresh' = FreshAfterWrite(h.target, h.key)
        /\ Return(n)
        /\ UNCHANGED <<phase, view, pool, tasks>>

\* Whatever the store holds for the key by now.
Delete(n) ==
    /\ handler[n].pc = "delete"
    /\ store' = [store EXCEPT ![n][handler[n].key] = NoValue]
    /\ Become(n, [handler[n] EXCEPT !.pc = "scan", !.key = NoKey, !.target = NoNode,
                                    !.val = NoValue])
    /\ UNCHANGED <<phase, view, pool, fresh, tasks, settled, left>>

NotifyLeave(n, peer) ==
    /\ Up(n) /\ n # peer
    /\ handler[n] = NoHandler
    /\ peer \in OnRing(n)
    /\ IF Up(peer)
       THEN left.suspicions > 0 /\ left' = [left EXCEPT !.suspicions = @ - 1]
       ELSE UNCHANGED left
    /\ view' = [view EXCEPT ![n] = RemoveFirst(@, peer)]
    /\ Become(n, [NoHandler EXCEPT !.pc = "disconnect", !.peer = peer])
    /\ UNCHANGED <<phase, pool, store, fresh, tasks, settled>>

\* Of a peer that has no connection it is an error without an effect.
RemoveConnection(n) ==
    /\ handler[n].pc = "disconnect"
    /\ pool' = [pool EXCEPT ![n] = @ \ {handler[n].peer}]
    /\ Return(n)
    /\ UNCHANGED <<phase, view, store, fresh, tasks, settled, left>>

HandlerStep(n) ==
    \/ AddConnection(n) \/ PickKey(n) \/ EndScan(n) \/ Read(n) \/ SendOk(n)
    \/ SendFails(n) \/ SendLosesReply(n) \/ Delete(n) \/ RemoveConnection(n)

-----------------------------------------------------------------------------
MainStep(n) ==
    \/ Start(n) \/ AddSelf(n) \/ ServeGrpc(n) \/ ServeHttp(n)
    \/ ShutdownHttp(n) \/ StopGrpc(n) \/ Leave(n) \/ Crash(n)

Next ==
    \/ \E n \in Node : MainStep(n) \/ HandlerStep(n)
    \/ \E n, peer \in Node : NotifyJoin(n, peer) \/ NotifyLeave(n, peer)
    \/ \E n \in Node, k \in Key : handleDelete(n, k) \/ \E v \in Value : handlePost(n, k, v)
    \/ \E t \in tasks : TaskStep(t)

Spec == Init /\ [][Next]_vars

\* A goroutine that can go on does: handlers and accepted requests neither
\* wait for a lock that another of them holds nor for an answer that cannot
\* come (an RPC to a peer that does not serve fails).
Fairness ==
    /\ \A n \in Node : WF_vars(HandlerStep(n))
    /\ \A i \in 1 .. MaxRequests : WF_vars(\E t \in tasks : t.id = i /\ TaskStep(t))

FairSpec == Spec /\ Fairness

-----------------------------------------------------------------------------
\* The shape of the state.
TypeOK ==
    /\ phase \in [Node -> Phase]
    /\ view \in [Node -> Seq(Node)]
    /\ pool \in [Node -> SUBSET Node]
    /\ store \in [Node -> [Key -> Value \cup {NoValue}]]
    /\ handler \in [Node -> Handler]
    /\ fresh \in [Node -> SUBSET Key]
    /\ tasks \subseteq Post \cup Deletion
    /\ settled \subseteq Key
    /\ left \in Bounds

\* Keys that have one closest node in every set of members. Other keys exist,
\* and not by bad luck only: names such as n1 and n11 have points in common. Of
\* two such nodes each may name the other, and when both delete what they have
\* sent, the key is gone.
UndisputedKeys == {k \in Key : Undisputed(KeyHash[k])}

\* A key whose value reached a store stays in some store, however joins, leave
\* events and failing transfers interleave: only a DELETE, an eviction, or the
\* end of a process that held a copy may lose it (event_handler.go 108-138
\* deletes a key only after the new owner has confirmed it, and two nodes
\* whose rings differ never hand the same key to each other, unless it is
\* disputed).
KeySurvivesRebalancing ==
    \A k \in settled \cap UndisputedKeys : \E n \in Node : store[n][k] # NoValue

\* What is about to be deleted has a copy on a node closer to the key: the
\* handlers that move one key form a chain with an end, never a circle.
SentToCloserNode ==
    \A n \in Node :
        handler[n].pc = "delete" /\ handler[n].key \in settled \cap UndisputedKeys =>
            \E m \in Node : /\ Closer(m, n, KeyHash[handler[n].key])
                            /\ store[m][handler[n].key] # NoValue

\* A name is on a ring once, and a node on its own from AddNode of NewManager on:
\* AddNode of a name that is there would end the process.
NamedOnce ==
    \A n \in Node :
        /\ IsInjective(view[n])
        /\ n \in OnRing(n) <=> phase[n] \notin {"down", "created"}

\* Until its gRPC server listens, a node has no keys, a handler has none to
\* walk, and no request has been accepted.
NothingBeforeServing ==
    LET early == {"down", "created", "member"}
    IN  /\ \A n \in Node : phase[n] \in early => /\ store[n] = EmptyStore
                                                 /\ handler[n].listed = {}
        /\ \A t \in tasks : t.pc = "queued" => phase[t.node] \notin early

\* A handler sends a key only to another node, and to one that lies closer.
TargetIsCloser ==
    \A n \in Node :
        LET h == handler[n]
        IN  /\ h.pc \in {"read", "send", "delete"} => h.key \in Key
            /\ h.pc \in {"read", "send"} =>
                  /\ h.target \in Node \ {n}
                  /\ h.key \in UndisputedKeys => Closer(h.target, n, KeyHash[h.key])

\* Ring and pool hold the same peers, but for those without an address, except
\* between the two calls of the event handler that change first the one and then
\* the other (event_handler.go 77-99 and 156-158): neither an error of the second
\* call nor a handler that returns early leaves them apart.
PoolTracksRing ==
    \A n \in Node :
        LET peers == OnRing(n) \ {n}
            h == handler[n]
        IN  /\ h.pc = "connect" =>
                  h.peer \in peers /\ pool[n] = peers \ (Unaddressed \cup {h.peer})
            /\ h.pc = "disconnect" =>
                  h.peer \notin peers /\ pool[n] = (peers \cup {h.peer}) \ Unaddressed
            /\ h.pc \notin {"connect", "disconnect"} => pool[n] = peers \ Unaddressed

\* What makes KeySurvivesRebalancing inductive.
ClusterInv ==
    /\ TypeOK
    /\ NamedOnce
    /\ NothingBeforeServing
    /\ TargetIsCloser
    /\ PoolTracksRing
    /\ SentToCloserNode
    /\ KeySurvivesRebalancing

\* A handler that comes to the end of its loop (event_handler.go 108-138)
\* leaves no key of another node behind, but for those that writers brought
\* after it had asked for the list.
CompletedScanHandsOver ==
    [][\A n \in Node : EndScan(n) =>
          \A k \in StoredKeys(n) : OwnerOn(n, k) = n \/ k \in fresh[n]]_vars

\* memberlist is called back: whatever happens to the peers, an event handler
\* returns, else the process would never learn of another membership change.
HandlerReturns ==
    \A n \in Node : handler[n].pc # "idle" ~> handler[n].pc = "idle"

\* The goroutine of every accepted request ends, stored or given up.
RequestsEnd ==
    \A i \in 1 .. MaxRequests : (\E t \in tasks : t.id = i) ~> (\A t \in tasks : t.id # i)
-----------------------------------------------------------------------------
(* What the documentation says and the code does not do.                   *)

\* "Finding and transfering data that belongs to new node" (event_handler.go
\* 107): when the handler of a join has returned, no key the node held when it
\* asked for the list still belongs to the node that joined. But the new node
\* joins before its gRPC server listens (main.go 114 and 128), the first RPC
\* is refused, and the handler returns.
JoinHandsOver ==
    [][\A n \in Node :
          handler[n].pc \in {"scan", "send"} /\ handler'[n].pc = "idle" /\ Up(n)' =>
              \A k \in handler[n].listed \ fresh[n] :
                  store'[n][k] # NoValue => OwnerOn(n, k) # handler[n].peer]_vars

\* "Write value to new node and delete from local store" (event_handler.go
\* 117): the value that is deleted is the one that was sent. A write that
\* comes in between is deleted unsent.
DeletesWhatItSent ==
    [][\A n \in Node :
          Delete(n) => store[n][handler[n].key] \in {handler[n].val, NoValue}]_vars
=============================================================================
