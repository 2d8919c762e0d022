# QaD in TLA+

A verification development of QaD, a distributed cache in Go. Paths below are relative to the
repository's root. Line numbers of the code that each definition stands for are in `PROJECT.json`
under `map`.

## 1. The system

A QaD cluster is a set of equal processes. Each runs an HTTP server for clients, a gRPC server for
peers, an in-memory storage, a consistent hash ring that says which process owns a key, a pool of
gRPC connections, and hashicorp's memberlist, which tells it of peers that join and leave.

| Component | Source | State | Operations |
|---|---|---|---|
| hash ring | `consistent_hash_ring/index.go` | `nodes`, `ring` (virtual nodes sorted by hash); no lock | `AddNode`, `RemoveNode`, `NodeOf`, `NodeOfDirect`, `GetNodes` |
| FIFO storage | `storage/fifo.go` | `storage`, `hashes`, `order`, `curSize`; mutex for writers only | `Read`, `Write`, `Delete`, `ListKeys` (the live map) |
| LRU storage | `storage/lru.go` | `sync.Map` of entries, `list`, `curSize`, `promoCh`, a promoter goroutine | the same; `ListKeys` copies |
| storage without eviction | `storage/no_eviction.go` | two maps, no lock | the same |
| gRPC pool | `cluster/grpc_pool.go` | `connections`: name to entry; per entry a `sync.Once` and a `conn` | `AddConnection`, `GetConnection`, `UpdateConnection`, `RemoveConnection`, `Close` |
| event delegate | `cluster/event_handler.go` | none of its own: changes ring, pool and storage | `NotifyJoin` (adds the node, then moves keys), `NotifyLeave`, `NotifyUpdate` |
| manager | `cluster/membership.go` | memberlist, ring, pool | `NewManager`, `Join`, `Leave` |
| metadata | `cluster/node_meta.go`, `cluster/delegate.go` | name and gRPC address | `Marshal`, `Unmarshal`, `NodeMeta(limit)` |
| HTTP server | `http_server/` | goroutines left behind by POST and DELETE | `handleGet`, `handlePost`, `handleDelete`, `/health`, `/cluster` |
| gRPC server | `grpc_server/index.go` | none of its own | `Read`, `Write` |
| main | `main.go` | the phase of the process | start, graceful shutdown |
| configuration | `config/index.go` | none | `Load` |

How they interact: an HTTP handler asks the ring for the owner of a key. Its own keys it reads or
changes in the storage; for others it takes a connection from the pool and calls the peer's gRPC
server. POST and DELETE are answered 202 and done by a goroutine afterwards. memberlist calls the
event delegate, one event at a time: a join changes the ring, then the pool, and then walks all
stored keys, sending each that now belongs elsewhere to its owner and deleting it. A leave changes
ring and pool. Nothing is persisted and nothing is replicated.

What is hard here:

* **Interleaving.** Handlers, goroutines, gRPC calls and event callbacks share ring, pool and
  storage. The transfer of a key is three unsynchronised steps. Lock-free reads race with writers.
* **Disagreement.** Each process has its own view of the members. Two may transfer keys at the same
  time, over rings that differ.
* **Order.** A process joins before its gRPC server listens, and memberlist calls back before the
  process has added itself to its ring.
* **Partial failure.** RPCs fail, or succeed and lose their answer; the first error ends a transfer.
* **What an answer means.** A GET that finds nothing, one that cannot reach the owner and one whose
  owner fails come back through one error value.
* **Hand-kept bookkeeping.** The storages keep maps, queue and size in step by hand.

Per component, what makes it correct:

* ring: it is sorted, holds the points of its members, and a lookup follows the placement rule;
  a change of membership moves keys only to who joins and away from who leaves.
* storages: keys, queue and size agree; each is an evicting cache; operations end.
* pool: one dial per entry, no closed connection behind a name, calls return.
* event delegate: ring and pool agree; a transfer never loses the last copy of a key; handlers
  return.
* request path: an absence is reported only when it is one, a failure only when the owner could not
  be called or key or value fit no RPC, a refusal only when nothing changed; an accepted request comes
  to an end.
* start: a process listens where it was told to, peers call it there, and one that has been started
  with a mistake, also when it is started again, ends before peers hear of it.

Everything that is hard to test, with its line and the properties that cover it, is listed under
`hazards` in `PROJECT.json`.

## 2. Modules

| Module | Models | Checked by |
|---|---|---|
| `Placement` | the rule by which a set of members owns keys; no state | used by the two below |
| `HashRing` | the ring's slices, step by step, and lookups beside the changes | `MCHashRing` |
| `Cluster` | processes, event delegates, requests that change something, gRPC writes, start and shutdown | `MCCluster` |
| `EvictingCache` | abstract: what an evicting storage promises | refined by the two below |
| `FIFOStorage` | `storage/fifo.go` | `MCFIFOStorage` |
| `LRUStorage` | `storage/lru.go` | `MCLRUStorage` |
| `GRPCPool` | `cluster/grpc_pool.go` | composed into the next |
| `RequestPath` | one request from `ServeHTTP` to its answer, over the pool and a peer's gRPC server | `MCRequestPath` |
| `Startup` | configuration, the phases of `main`, the manager's start, metadata and the address peers use | `MCStartup` |
| `HashRing_proofs`, `Cluster_proofs`, `GRPCPool_proofs`, `RequestPath_proofs`, `FIFOStorage_proofs`, `LRUStorage_proofs`, `Startup_proofs` | theorems about the module they are named after; those about `Placement` are in `Cluster_proofs` | TLAPS |
| `KeyQueues` | lemmas about queues without repetition, sums of lengths and the entries a queue and a map list together, for the two storages | TLAPS |

**Placement** states over sets what the code computes with a sorted slice: a key belongs to the
node whose virtual node lies at the smallest distance below the key's hash, around the circle.
`Reach` is the distance of a node's closest point, and `Closer(m, n, h)` compares two nodes without
regard to the other members; this is what two rings that differ still agree on. Nothing is assumed of
the hash. Name and index are joined without a separator (`index.go:44`), so point 10 of `n1` and point 0
of `n11` are hashed from one string, and likewise for `qad-node1` and `qad-node11`: such names collide
whatever the hash function. Between nodes that are equally close the order of joins decides, which is why
`Owner(order, h)` takes the members as a sequence: the node that joined last has its point behind the
others. A hash is `Undisputed` if no two nodes are equally close to it.

**HashRing** has `nodes` and `ring` as sequences. A `Caller` is a goroutine that runs `AddNode` and
`RemoveNode`: memberlist's events, and at the start also `NewManager`. Each virtual node is inserted
in two steps. With `ShiftSlots` the slots begin to move in place, with `GrowArray` they are copied to a new
array, and with `InsertVirtualNode` the slice is as `sortInto` returns it and `c.ring` is assigned.
`DeleteSlots` and `RemoveVirtualNodes` are the same for `DeleteFunc`, whose result is `Compact`.
`coming` is the slice towards which a caller writes. A `Reader` runs `NodeOfDirect`, one access to
the slice per step: the test for an empty ring, the length for `sort.Search`, one slot per probe,
the length again to wrap around, the name. A slot that is moving shows its old or its new contents
(`SlotsSeen`), its name may be put together from two (`TornName`). When the array grows, a lookup may
see the new length with the old pointer and read beyond the old array: what is there is the name of any
node, none, a torn one (`NamesSeen`), or memory that is not mapped, which ends the process (`Fault`).
An index out of range is a panic that `net/http` recovers from. Go promises nothing about these races;
the outcomes are those on amd64, where stores become visible in program order and a slice header's
length is stored before its pointer. Two callers that write to one array are left out; two with an array
each are not. The append of the name to `c.nodes` is one step. The panics for a name that is there
already and for one that is not (`index.go:35`, `52`) have no action: memberlist reports join and leave
of a name in alternation, and both handlers skip the own name (`event_handler.go:66`, `147`).

**Cluster** has, per node, `phase` (how far `main` has come), `view` (the names on the ring, in the order
they joined), `pool` (the names in the pool), `store` and `handler` (the program counter and locals of
`NotifyJoin` / `NotifyLeave`). `tasks` are the goroutines of accepted requests and the RPCs they
have sent. A step is what runs between two points where others can get in: the ring change, the
pool change, each choice of a key, `Read`, the RPC, `Delete`. `AddConnection` of a peer whose metadata
names no address (`Unaddressed`) is an error after which the handler goes on without a connection; it
then returns at the first key of that peer. `SendOk`, `SendFails` and `SendLosesReply` are the three
ends of a transfer's RPC; `Accepts` says what a peer takes, so not a key that is not UTF-8
(`UnsentKeys`), not one whose hash is 0, and no value of length zero or above gRPC's 4 MiB
(`RejectedValues`). `LiveListing` says whether the walk goes
over the live map (FIFO, no eviction) or a copy (LRU); `Evicting` whether a write may push out keys.
`fresh` and `settled` are histories: keys written since the walk began, and keys whose value has
reached a store and must not get lost. memberlist is modelled from how it is used: one event at a
time per process, join and leave of one name in alternation, in any order and delay, with wrong
suspicions. The storage without eviction appears here as a map (`StoreAfterWrite`). A *disputed* key, to
which two nodes are equally close, is excepted from what the model says of survival
(`UndisputedKeys`): two such nodes, whose rings have another order, send each other their copies and
both delete what they have sent. Without the exception TLC finds `KeySurvivesRebalancing` violated.

**FIFOStorage** makes every change of a map a step of the thread that holds the mutex, because
`Read` and the walk over the listed keys use the maps without it. When a map changes while another
thread uses it, the step may be a fault, Go's "concurrent map read and map write". `thread` is the
program counter of each goroutine. `committed` records the contents at the last unlock, with the
operation that ended: this is what is mapped to `EvictingCache`.

**LRUStorage** makes the changes that a lock-free `Read` can see into steps. A `Read` has loaded an
entry and not yet copied its value; when `Write` assigns the value of that entry, the copy may be
torn. Reads offer their key to the bounded channel, the promoter takes it and moves the entry.

**GRPCPool** numbers the entries. What runs under the RWMutex is one step. `GetConnection` is a
sequence: look up under the read lock, `once.Do`, dial, look at `conn`, use. `AddConnection` replaces an
entry that is there and leaves its connection open, as in the code; `NotifyJoin`, its only caller, never
gets there for such a name, because `AddNode` of a name on the ring would have ended the process before,
and `PoolTracksRing` of `Cluster` says that a name with an entry is on the ring.

**RequestPath** EXTENDS `GRPCPool`: a `Handler` is one of the pool's callers, at work on a request;
the other callers use the pool on their own account, as a transfer does (`OtherCalls`,
`OtherGoesOn`). `request` holds where the request is, its method and key, the value it carries and the
first status written. `ServeHTTP` has its missing return: an unknown path writes 404 and goes on.
POST and DELETE are answered and go on as the goroutine they leave behind. A peer may be lost and
found (`LosePeer`, `FindPeer`). A connection that was refused backs off (`BackOff`, `TryAgain`): RPCs
over it fail with Unavailable though the peer may be back. Clients of the peer may store and delete
(`PeerStores`), and the entries of the pool come and go (`PoolChanges`), each with a connection that
has not been refused yet. `Serve` is the peer's gRPC `Read` or `Write`, whose answer may never
arrive, is too long (`HugeValue`: ResourceExhausted), or whose request cannot be encoded (`unsent`:
Internal). `held` and `troubled` are histories: what the owner stored for the key while a GET was under
way, and whether it could not be called meanwhile. The owner of a key does not change here; what a
changing ring does is in `HashRing` and `Cluster`. A hash of 0, which a peer's `Write` rejects, is in
`Cluster`.

**Startup** runs several processes on one host. `Load` decides each setting from flag, environment and
default, with the truncation of ports to 32 bits, flags of value zero and `-h`; an error ends the
process. `NewManager`, `Join`, `ListenGrpc` and `ListenHttp` are the phases of `main`, each of which
takes a port or ends the process, in every interleaving with the other processes. A process may stop or
crash at any time (`Stop`) and be started again under its name with other settings (`Restart`; `starts`
counts). `meta` is the metadata that a process's memberlist has of each other one and the start that
wrote it: `Join` and `Gossip` exchange it, the later start wins. `NotifyJoin` gives the address at which
a peer calls: that of the metadata, or, when these are longer than memberlist allows, the peer's own
gRPC port on the other's host. `NotifyUpdate` is what memberlist calls when metadata of a later start
arrive before a leave: the handler does nothing with them (`event_handler.go:167-183`), the action
changes nothing, and the peer keeps calling the port of the earlier start until it notices a leave.
That memberlist refuses a name which comes back at another cluster port until it has given up the old
one only removes behaviours, and is left out.

**EvictingCache** is a queue of entries: `Put` appends and drops the shortest prefix that brings the
length within the limit, `Forget` removes, `Touch` (LRU) moves an entry to the back. A key has one entry,
which `Without` takes away. `last` names the
last operation, so that an operation that has no effect is not taken for one that did not happen.

## 3. What the runs check

| Run | Bounds | Shows |
|---|---|---|
| `hash_ring` | 3 nodes, 2 virtual nodes each, 7 hashes, one collision, points on both sides of zero; 1 caller, 1 reader | the ring is sorted and complete, uninterrupted lookups follow the rule also in the middle of `AddNode`, movement is minimal, and the latest join decides ties; a lookup that runs beside a write strays only as that write explains |
| `cluster_rebalance` | 3 nodes, 2 serving and 1 starting, 1 peer without an address, colliding points, 4 keys (one with hash 0, one disputed), an empty and a non-empty value, 1 request, 1 wrong suspicion, 1 failing RPC | ring and pool agree; simultaneous transfers over different rings lose no undisputed key; a walk that comes to its end leaves no foreign key |
| `cluster_failures` | 2 nodes, 1 key, 2 requests, 1 crash or shutdown, 1 suspicion, 1 failing RPC, eviction, a copied listing, unparsed metadata | the inductive invariant `ClusterInv`; handlers return, requests end |
| `fifo` | 3 keys, values of length 0, 1, 2, limits -1, 0, 1, 3, 2 threads | bookkeeping, refinement, operations end |
| `lru` | 3 keys, lengths 1, 2, limits -1, 1, 3, 1 reader, a channel of 1 | bookkeeping, exact size and refinement with stale and dropped promotions; the promoter goes on |
| `request_path` | 1 peer, 1 handler, 1 other user of the pool, 2 entries, 1 key owned by the node or the peer, UTF-8 or not, an empty, a huge and another value, back-off | one dial per entry, connections in the pool work and none is left open, calls return; a GET reports what the owner held, and fails only with a cause; refused requests change nothing; requests are answered |
| `startup` | 2 processes on a host with 7 ports, 4-bit words, one unusual setting each: flags in and out of range, variables, seeds, name lengths on both sides of the metadata limit; stops at any time, 1 restart with the same settings, another port or a mistake | where processes listen, that mistakes stay private, that calls reach the node they are meant for, that starts end |

Why the bounds are enough. Three nodes are the fewest with two transfers of one key along different
edges of the order `Closer`, and with a key whose owner is neither the sender nor the node that
joined; on the ring they give points that collide, points that stay and points that go. Two virtual nodes
make an `AddNode` whose points are on the ring in part. One reader is enough for the lookups: readers write nothing, and each sees
only the ring. Two writes, in `cluster_failures` and
`cluster_lost_update`, are what an overwrite needs; a transfer whose answer is lost makes the second
copy of a key in `cluster_rebalance`. Three keys in a storage give an eviction that takes some and
leaves some. Two callers at one entry give a dialler and one that waits or comes late; two entries
give a name that is removed and added again under a call. Two processes suffice for a port that is
taken, a seed that does not listen yet and a call that reaches the wrong process. One restart is
enough to make an address stale, and to begin with a mistake that was not there before. `MaxRequests`,
`MaxStops`, `MaxSuspicions`, `MaxDrops`, `MaxEntries`, `MaxStarts` and `PromoCap` bound counters and the channel;
the theorems of section 5 hold for every value of them.

`CHECK_DEADLOCK FALSE` is set where a panic or a fault ends the process, where a process serves or has
gone and nothing is left to do, or where the bounds run out.

Every property has a mutant in `PROJECT.json`: a plausible error in one definition that makes TLC
find the property violated.

### Disagreements with the documentation

Five runs expect a violation. Each checks one statement that the repository makes about itself.

| Run | Statement | What the code does |
|---|---|---|
| `ring_boot_race` | `membership.go:85-86`, adding ourselves at once ensures that the ring is never empty and requests for our own keys are handled | memberlist has run since line 80 and calls `AddNode` for peers; one of two assignments of `c.ring` overwrites the other, and virtual nodes of the own name are gone for good (2 callers with an array each, no reader) |
| `cluster_join_refused` | `event_handler.go:107`, data that belongs to the new node is found and transferred | a node joins (`main.go:114`) before it listens (`main.go:128`); the first RPC is refused and the handler returns, the keys stay out of reach |
| `cluster_lost_update` | `event_handler.go:117`, write to the new node and delete locally | a write between `Read` and `Delete` is deleted unsent |
| `fifo_race` | `fifo.go:30`, no locking as concurrent writes are fine | a `Read` beside a `Write` is a race on a map |
| `lru_torn_read` | `lru.go:20-22`, values are written through `atomic.Pointer` | `value` is a plain slice, assigned while `Read` copies it |

More that the models have and no run states as a violated property:

* `README.md:9` of the repository says that POST answers 201; the code answers 202
  (`http_server/index.go:209`), before the value is stored anywhere.
* `config/index.go:65` says that the help flag exits; with `-h` the process starts, without the
  flags that follow. Nor does a port flag above 2^32 - 1 fail: it is cut off (line 74).
* An unknown path is answered 404 and carried out all the same (`http_server/index.go:59`).
  `RefusedRequestsChangeNothing` names the exception.
* A value of length zero is found by its owner and not through another node (line 122).
  `GetTellsWhatOwnerHeld` names the exception.
* A POST that is routed between `AddNode` and `AddConnection` (`event_handler.go:77` and `99`) is
  answered 202 and dropped (`forwardPost` of `Cluster`).
* A dial that ends after its entry has left the pool opens a connection that nobody can close
  (`EndDial` of `GRPCPool`).
* A node whose metadata do not fit is called at the caller's own gRPC port, on one host the wrong
  process; one that lets the kernel choose its port is called at port 0; one that comes back with
  another gRPC port before its leave is noticed is called at the old one.
  `ServingNodesAreReached` names all three. For the last, `event_handler_test.go:231` says that it
  "verifies that node updates refresh connections"; the test asserts only that a connection exists, and
  `NotifyUpdate` keeps the one it has.
* Two nodes whose names collide may each take the other for the owner of a key and lose it
  (`UndisputedKeys` of `Cluster`).

## 4. Fairness

* `Cluster`: weak fairness of each event handler and of each accepted request. Both are goroutines
  that hold no lock another one of them waits for. The step that is always possible for an RPC to a
  peer that does not serve is its failure (gRPC fails fast by default). An RPC to a peer that serves
  is answered or fails; the model has no peer that accepts a call and stays silent for ever, since
  the handler of the peer takes only the storage's mutex. Nothing is assumed of joins, leaves,
  crashes, clients or of the phases of `main`.
* `FIFOStorage`: weak fairness of each operation that has begun; none of its steps waits. That a
  waiting writer gets the mutex is not claimed.
* `LRUStorage`: weak fairness of a `Write` that has begun and of the receive, strong fairness of the
  promoter, which takes the mutex in competition with writers; Go's mutex passes to the first waiter
  after a millisecond.
* `RequestPath`: weak fairness of each handler and of each other call that is under way. Dials return
  (`grpc.NewClient` does not connect) and an RPC ends, at the latest after the five seconds of its
  context. Nothing is assumed of peers, clients or of changes of the pool.
* `Startup`: weak fairness of `main` of each process; the calls it makes return, `Join` also when no
  seed answers. Nothing is assumed of stops, restarts or of what memberlist tells.
* `HashRing`: none; no liveness is claimed.

## 5. What is proved

With TLAPS, for all values of the constants that satisfy the assumption of the module:
`PlacementAssumption`, `RingAssumption`, `ClusterAssumption`, `PoolAssumption`, `RequestAssumption`,
`FIFOAssumption`, `LRUAssumption`, `StartupAssumption` (what a process may be started with is a flag, a
variable and a default per setting, each of its kind, and no port is 0 by default). Each says of what
kind a constant is. None says anything of the hash function: nodes may collide.

`Cluster_proofs` begins with `Placement`: a lookup on a non-empty ring answers a member
(`OwnerIsMember`); no member is closer to the key than the owner, and of an undisputed key the owner is
closer than every other member (`OwnerIsCloser`); two rings with the same members name the same owner of
an undisputed key, in whatever order these joined (`OwnersAgree`); the owner that the order of joins
chooses is one of those `HashRing` allows (`OwnerIsPlaced`). `Closer` is a strict order. They rest on a
fact about distances: a finite non-empty set of points has a nearest one (least element of a set of
naturals).

`HashRing_proofs`: for any number of nodes, virtual nodes and readers and any hash function,
collisions included, if there is one caller of `AddNode` and `RemoveNode` (`OneCaller`: memberlist's
events; `ring_boot_race` shows what a second one does). First what the algorithms do to a slice:
`sortIntoEffect`, `DeletePointsOfEffect` (over `CompactEffect` and the ranks of the elements that
stay), `AnswersEffect` (the place the search arrives at is the placement rule's). Then `RingInv`,
which is inductive:

* `Slices`: the slice is sorted, without repetition, and holds what belongs on the ring, given the
  members and how far the call under way has come;
* `Calls`: a caller that writes works towards the slice that `sortInto` or `DeleteFunc` returns for
  the present one;
* `Lookups`: how far a search has come, `Quiet` for one beside which nothing was written (the usual
  invariant of binary search), `Safe` for every one: it knows of the writes that are under way and of
  the nodes with a slot (`Aware`), its bounds are within what it can see unless slots were deleted
  (`InRange`), and what it answers those writes explain (`Told`).

From it follow `RingStaysSorted`, `LookupsFollowPlacement`, `QuietLookupsCorrect`,
`StrayLookupsExplained`, `RingTypeCorrect`, and `MovementIsMinimal`: an insertion changes an answer only
to the inserted name, a deletion only from the deleted one (`InsertedAnswer`, `DeletedAnswer`, since
there is one place to answer from, `OneAnswer`). `Cluster` represents the ring by its members in the
order they joined, and `Owner`. That it may is proved but for ties (`LookupsFollowPlacement`,
`OwnerIsPlaced`); how ties are decided, `LatestJoinWinsTies`, is only model-checked.

`Cluster_proofs` then shows that `ClusterInv` is inductive, hence

* `KeysSurvive`: `KeySurvivesRebalancing`, for undisputed keys. Transfers delete a key only after its new owner has it.
  That alone is not enough: two nodes could each send their copy to the other and then delete it. What
  excludes it is that a transfer goes from a node to one that lies *closer* to the key
  (`TargetIsCloser`), which holds since a node is on its own ring (`OnOwnRing`) and the owner is
  closer than every other member. So what is about to be deleted has a copy closer by
  (`SentToCloserNode`). When `Delete` takes the copy of `n`, that
  copy may have been the witness of another handler, at `p`; but the witness of `n` itself is closer
  than `n`, so by transitivity closer than `p`, and is not the copy that goes. `NothingBeforeServing` is
  needed for a process that is not on its own ring yet: it has nothing to transfer.
* `PoolFollowsRing`: `PoolTracksRing`.
* `CompletedScansHandOver`: `CompletedScanHandsOver`. `WalkInv` says of a walk over the keys: what the
  node stores and nobody has written since the listing was listed, and once visited it belongs to the
  node on its own ring or is the key under way. It holds as the node's ring does not change while its
  handler walks, and what others delete only makes less of it.
* `TypeCorrect`, `TransfersAscend`: the other parts.

Each part of `ClusterInv` has a step lemma of its own, with one step per action. `cluster_failures`
checks `ClusterInv` with TLC.

`GRPCPool_proofs`: `PoolInv` says that entries are numbered in the order they were made (`Fresh`),
belong to one name (`Distinct`), are dialled by one caller (`OneDials`) and have a connection only
after their `Once` is used up (`DoneFirst`). Hence `OneDialPerEntry`, `ConnectionsWork`, and
`EntriesLeaveClosed` for the action property `NoneLeftOpen`.

`RequestPath_proofs`: every step of the composition is a step of the pool or leaves it alone
(`RequestsUseThePool`: `PathSpec` implies the pool's `Spec`), so that the pool's theorems hold under
requests (`PoolUnderRequests`). `PathInv` adds to `PoolInv` that a request is in agreement with its
method and owner (`Sound`), that what it has read was in the store meanwhile (`Watches`), that it is where its
pool caller is (`Linked`), and that it has failed only for a reason (`Excused`): the peer, its
connection or its entry at some time of the request, or a key or value that no RPC can carry. Hence
`GetsTellTheTruth`, `FailuresAreCaused`, `RefusalsAreKept`, `PathTypeCorrect`.

`FIFOStorage_proofs` and `LRUStorage_proofs` have three layers, each an invariant on top of the one
before, and rest on `KeyQueues`.

* The collections. `FIFOInv` strengthens `KeysAgree` by what the holder of the mutex has in hand
  at each of its steps (`Held`), key by key. `LRUInv` says that the list holds each key of the map once,
  and that what waits in the channel or in a reader's hand is a key. Hence `CollectionsAgree`,
  `ListFollowsMap`, and the type invariants.
* The size. `SizeInv`: `curSize` is the total of the lengths in the map, but for the key that a FIFO
  `Write` has in hand (`InHand`; `fifo.go` subtracts the old length first and adds the new one last).
  Hence `SizeExact`: `SizeIsExact` in both. The limit bounds nothing if this drifts, and no test runs
  long enough to see it drift.
* The cache. `CacheInv` says what is left, at each step, of the one step that the cache takes at the
  unlock: before the value is in the map, the queue shows the contents with the written key renewed,
  once it is; while entries are evicted, it shows a tail of those contents, and none before it fitted
  (`Trimmed`). For LRU the list is read from its back (`Reverse`), and a promotion that finds its key
  gone is the step that changes nothing. Hence `FIFOImplementsCache` and `LRUImplementsCache`: the
  storages implement `EvictingCache`, for any goroutines, values, limit of either sign, and length of
  the channel.

`curSize` and `Weight` are sums over sets and sequences, defined by folds. What is needed of them, that
one more element adds its length and that the two sums agree on a listing (`LengthOfKeysIsTotal`,
`LengthOfEntriesIsTotal`), is a statement for every finite set. Instead of an induction theorem, whose
operator parameter the provers cannot instantiate, the proofs take a smallest counterexample
(`SmallestSubset`, over the well-founded order of the naturals) and show that it has a smaller one.

`Startup_proofs`: `StartInv` says that a process holds the ports of the phases it has passed
(`Listening`) and the ones it asked for (`AsAsked`), that one which is alive has been configured from
what it was started with and nothing in that is rejected (`Configured`), that metadata are of a start
the process has had, and if of the present one, that it has passed `Load` and that they name its port
(`Known`), also if it has ended since, and that an address of the present start was made from
configurations that do not change any more (`Called`). Addresses of earlier starts may name any port.
Hence `ServersListenWhereTold`, `MistakesAreNotAnnounced`, `CallsArrive` and `StartTypeCorrect`, for
any number of processes, ports and restarts and any inputs. `PortAsTold` is the fact about `Load` they
rest on: which of flag, environment and default names a port, truncation included.

Only model-checked: liveness (`HandlerReturns`, `RequestsEnd`, `OperationsEnd`, `PromoterGoesOn`,
`CallsReturn`, `RequestsAreAnswered`, `StartEnds`), which is out of the prover's reach. Every
safety and action property of a passing run is a theorem, except `LatestJoinWinsTies`. The five
properties of section 3 that the code violates are refuted on one instance each.

## 6. What is not modelled

* The storage without eviction beyond its contents. It has no lock: any two accesses may end the
  process, the fault that `fifo_race` shows, reached in one step.
* Two `AddNode`s that shift slots of one array at the same time; what comes out depends on every
  single store. `ring_boot_race` has those with an array each.
* Clients that go away before they are answered, which cancels the RPC of their GET, and the 30 s limits
  of the shutdown: `GracefulStop` ends or is cut off.
* memberlist's refusal of a name that comes back at another cluster port.
* Getters, `HealthCheck`, and `/cluster`, which encodes the live slice of names that `GetNodes` has
  returned (`health.go:47`); nothing depends on the answer.
* The `MEMBER_i` list of `config/index.go`, which nothing reads; texts of errors; the log writer.
* Generated protobuf code, but for what it does to an empty value; deployment files, benchmarks.
* memberlist, gRPC, `net/http` and Go's runtime: external, from how the code uses them.
* Which of two writes of a key is the newer: the code has no versions and promises no order.

## 7. Plan

Done: all modules of section 2 and the theorems of section 5.

Left:

1. The part of liveness that is not temporal: for each kind of step that a liveness property rests on, a
   measure that it lessens and no other step of the model raises.
2. `LatestJoinWinsTies` as a theorem: of equal hashes those of the later joins are behind, an
   invariant of the slice that `sortInto` and `Compact` preserve.
3. The storage without eviction beyond its contents, step by step, and the `/cluster` handler over
   the live slice of names (`health.go:47`).
