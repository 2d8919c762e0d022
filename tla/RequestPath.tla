---------------------------- MODULE RequestPath ----------------------------
(***************************************************************************)
(* A request of a client at one node, from ServeHTTP to the answer         *)
(* (http_server/index.go): the key's owner is the node itself or a peer,   *)
(* whose connection comes from the pool (GRPCPool) and whose gRPC server   *)
(* (grpc_server/index.go) reads or writes its storage. Meanwhile entries   *)
(* of the pool come and go, peers stop, and clients of the peer use it.    *)
(*                                                                         *)
(* POST and DELETE are answered before they are done; the goroutine they   *)
(* leave behind goes on as the same caller. Who owns a key stays as it is: *)
(* what a changing ring does to requests is in Cluster and HashRing.       *)
(***************************************************************************)
EXTENDS GRPCPool

CONSTANTS
    Handler,        \* the callers whose requests are followed; the rest use the pool
    Self,           \* this node; Node are its peers
    Key, Value,
    EmptyValue,     \* the value of length zero
    HugeValue,      \* a value above the 4 MiB that a gRPC message may have
    NoKey, NoValue  \* the empty key, and nil

ASSUME RequestAssumption ==
    /\ Handler \subseteq Caller
    /\ Self \notin Node
    /\ NoKey \notin Key
    /\ NoValue \notin Value

VARIABLES
    request,    \* per caller, the request it works on
    store,      \* what the owner of each key stores for it
    ownerOf,    \* the node that the ring names for a key
    unsent,     \* the keys that are not UTF-8: no RPC can carry them
    reachable,  \* the peers whose gRPC server can be reached
    backoff     \* the peers whose connection was refused and waits to try again

pathVars == <<vars, request, store, ownerOf, unsent, reachable, backoff>>

\* pc: "local", the owner is this node; "connect", GetClient is called next;
\* "rpc", in GetClient or waiting for the peer; "reply", the peer has answered;
\* "answered", the client has read the answer. status: the first header written,
\* 0 before; known: the path is an endpoint. held and troubled are histories:
\* what the owner of the key stored, and that the peer could not be called, at some
\* time during the request.
NoRequest == [pc |-> "idle", op |-> "none", known |-> TRUE, key |-> NoKey, val |-> NoValue,
              status |-> 0, held |-> {}, troubled |-> FALSE]

Method == {"GET", "POST", "DELETE", "PUT"}
Status == {0, 200, 202, 400, 404, 405, 500, 501, 503, 504}

PoolUnchanged == UNCHANGED vars
PeersUnchanged == UNCHANGED <<ownerOf, unsent, reachable, backoff>>

\* What reaches the gRPC server's Write and passes its checks: protobuf delivers a
\* value of length zero as nil. (For keys of hash 0 see the module Cluster.)
Accepts(v) == v \notin {NoValue, EmptyValue, HugeValue}

-----------------------------------------------------------------------------
\* The peers that could not be called before the step, or cannot after it: they
\* do not serve, their connection waits after they did not, or their entry has
\* gone, changed, or failed to dial.
Unreachable ==
    {n \in Node :
        \/ n \notin reachable'
        \/ n \in backoff'
        \/ connections'[n] # connections[n]
        \/ connections'[n] = NoEntry
        \/ once'[connections'[n]] = "done" /\ conn'[connections'[n]] = "nil"}

\* What a GET under way sees of a step. One that has been answered 404 for its path
\* need not look.
Observe(r) ==
    IF r.op # "GET" \/ r.key = NoKey \/ ~ r.known THEN r
    ELSE [r EXCEPT !.held = @ \cup {store'[r.key]},
                   !.troubled = @ \/ ownerOf[r.key] \in Unreachable]

\* Requests go on while others take a step; that of c becomes r.
OthersGoOn ==
    request' = [c \in Handler |->
                    IF request[c].pc = "answered" THEN request[c] ELSE Observe(request[c])]
Becomes(c, r) ==
    request' = [d \in Handler |->
                    IF d = c THEN Observe(r)
                    ELSE IF request[d].pc = "answered" THEN request[d] ELSE Observe(request[d])]

\* http.Error and WriteHeader: the first status written is the one sent.
Say(r, code) == IF r.status = 0 THEN [r EXCEPT !.status = code] ELSE r
Ends(r) == [r EXCEPT !.pc = "answered"]
Drop(r) == [r EXCEPT !.val = NoValue]
Answer(r, code) == Ends(Say(r, code))

\* shouldRouteLocally.
Route(r) == [r EXCEPT !.pc = IF ownerOf[r.key] = Self THEN "local" ELSE "connect"]

-----------------------------------------------------------------------------
PathInit ==
    /\ Init
    /\ request = [c \in Handler |-> NoRequest]
    /\ store = [k \in Key |-> NoValue]
    /\ ownerOf \in [Key -> Node \cup {Self}]
    /\ unsent \in SUBSET Key
    /\ reachable \in SUBSET Node
    /\ backoff = {}

\* A request arrives at c and the handler of its method makes r of it.
Arrives(c, r) ==
    /\ request[c] = NoRequest
    /\ PoolUnchanged /\ PeersUnchanged /\ UNCHANGED store
    /\ Becomes(c, r)

\* ServeHTTP of "/health" and of "/cluster".
HealthHandler(c, method) ==
    Arrives(c, Answer(NoRequest, IF method = "GET" THEN 200 ELSE 405))

\* ServeHTTP of any other path: what is not below "api/" is answered 404 and,
\* for want of a return, handled all the same.
ServeHTTP(method, known, k) ==
    LET r == [NoRequest EXCEPT !.op = method, !.known = known, !.key = k]
    IN  IF known THEN r ELSE Say(r, 404)

handleGet(c, known, k) ==
    LET r == ServeHTTP("GET", known, k)
    IN  Arrives(c, IF k = NoKey THEN Answer(r, 400) ELSE Route(r))

\* The body is read after the key was checked and before the request is routed.
handlePost(c, known, k, v) ==
    LET r == ServeHTTP("POST", known, k)
    IN  Arrives(c, IF k = NoKey THEN Answer(r, 400)
                   ELSE Route(Say([r EXCEPT !.val = v], 202)))

FailToReadBody(c, known) == Arrives(c, Answer(ServeHTTP("POST", known, NoKey), 400))

\* Mutant: no return after the answer 501.
handleDeleteAnywhere(c, known, k) ==
    LET r == ServeHTTP("DELETE", known, k)
    IN  Arrives(c, IF k = NoKey THEN Answer(r, 400)
                   ELSE [Say(r, IF ownerOf[k] = Self THEN 202 ELSE 501) EXCEPT !.pc = "local"])

handleDelete(c, known, k) ==
    LET r == ServeHTTP("DELETE", known, k)
    IN  Arrives(c, IF k = NoKey THEN Answer(r, 400)
                   ELSE IF ownerOf[k] = Self THEN Route(Say(r, 202))
                   ELSE Answer(r, 501))

MethodNotAllowed(c, known) == Arrives(c, Answer(ServeHTTP("PUT", known, NoKey), 405))

-----------------------------------------------------------------------------
(* The owner is this node.                                                  *)

Local(c, op) ==
    /\ request[c].pc = "local" /\ request[c].op = op
    /\ PoolUnchanged /\ PeersUnchanged

ReadLocal(c) ==
    LET r == request[c]
        v == store[r.key]
    IN  /\ Local(c, "GET")
        /\ UNCHANGED store
        /\ Becomes(c, Answer([r EXCEPT !.val = v], IF v = NoValue THEN 404 ELSE 200))

writeValue(c) ==
    /\ Local(c, "POST")
    /\ store' = [store EXCEPT ![request[c].key] = request[c].val]
    /\ Becomes(c, Ends(Drop(request[c])))

deleteValue(c) ==
    /\ Local(c, "DELETE")
    /\ store' = [store EXCEPT ![request[c].key] = NoValue]
    /\ Becomes(c, Ends(request[c]))

-----------------------------------------------------------------------------
(* The owner is a peer: forwardGet and forwardPost.                         *)

Target(c) == ownerOf[request[c].key]

\* Mutant: what is not there and what cannot be reached is the same.
ErrorStatusAbsent(code) ==
    CASE code = "Unavailable" -> 404
      [] code = "DeadlineExceeded" -> 504
      [] code = "NotFound" -> 404
      [] OTHER -> 500

\* handleForwardError. An error without a gRPC status is 500 as well.
ErrorStatus(code) ==
    CASE code = "Unavailable" -> 503
      [] code = "DeadlineExceeded" -> 504
      [] code = "NotFound" -> 404
      [] OTHER -> 500

\* The request fails. That of a POST has been answered.
Fails(r, code) == Answer(Drop(r), ErrorStatus(code))

GetClient(c) ==
    /\ request[c].pc = "connect"
    /\ PeersUnchanged /\ UNCHANGED store
    /\ IF connections[Target(c)] = NoEntry
       THEN PoolUnchanged /\ Becomes(c, Fails(request[c], "none"))
       ELSE /\ GetConnection(c, Target(c))
            /\ Becomes(c, [request[c] EXCEPT !.pc = "rpc"])

\* The rest of GetConnection, which may end without a connection.
Dial(c) ==
    /\ request[c].pc = "rpc"
    /\ BeginDial(c) \/ FailDial(c) \/ EndDial(c) \/ AwaitDial(c)
    /\ PeersUnchanged /\ UNCHANGED store
    /\ IF caller'[c] = Away THEN Becomes(c, Fails(request[c], "none"))
                            ELSE Becomes(c, request[c])

\* The connection of an entry that has left the pool is not followed.
Waits(c) == connections[Target(c)] = caller[c].entry /\ Target(c) \in backoff

Connected(c) ==
    conn[caller[c].entry] = "open" /\ Target(c) \in reachable /\ ~ Waits(c)

Serve(c, op) ==
    /\ request[c].pc = "rpc" /\ request[c].op = op
    /\ caller[c].pc = "using" /\ Connected(c)
    /\ request[c].key \notin unsent
    /\ PoolUnchanged /\ PeersUnchanged

\* The peer's gRPC Read; nil becomes the error NotFound.
Read(c) ==
    /\ Serve(c, "GET")
    /\ UNCHANGED store
    /\ Becomes(c, [request[c] EXCEPT !.pc = "reply", !.val = store[request[c].key]])

\* The peer's gRPC Write.
Write(c) ==
    /\ Serve(c, "POST")
    /\ store' = IF Accepts(request[c].val)
                THEN [store EXCEPT ![request[c].key] = request[c].val] ELSE store
    /\ Becomes(c, [request[c] EXCEPT !.pc = "reply"])

\* forwardGet puts the chunks of the payload together: of none, or of empty
\* ones, there is nothing left but nil.
FullValue(v) == IF v = EmptyValue THEN NoValue ELSE v

Reply(c) ==
    LET r == request[c]
    IN  /\ r.pc = "reply"
        /\ Finish(c)
        /\ PeersUnchanged /\ UNCHANGED store
        /\ Becomes(c, IF r.op = "POST" THEN Ends(Drop(r))
                      ELSE IF r.val = NoValue THEN Fails(r, "NotFound")
                      ELSE IF r.val = HugeValue THEN Fails(r, "ResourceExhausted")
                      ELSE Answer(r, IF FullValue(r.val) = NoValue THEN 404 ELSE 200))

\* The five seconds are over, whether or not the peer has done its part; the
\* connection has been closed; the peer has stopped, or it was away when the
\* connection last tried and nothing is sent until it tries again; or the key
\* cannot be encoded.
RpcErrors(c) ==
    LET e == caller[c].entry
    IN  {"DeadlineExceeded"}
        \cup {x \in {"Canceled"} : conn[e] = "closed"}
        \cup {x \in {"Unavailable"} :
                   \/ Target(c) \notin reachable \ backoff
                   \/ connections[Target(c)] # e}
        \cup {x \in {"Internal"} : Connected(c) /\ request[c].key \in unsent}

RpcFails(c) ==
    /\ request[c].pc \in {"rpc", "reply"}
    /\ Finish(c)
    /\ PeersUnchanged /\ UNCHANGED store
    /\ \E code \in RpcErrors(c) : Becomes(c, Fails(request[c], code))

\* The client has read the answer.
EndRequest(c) ==
    /\ request[c].pc = "answered"
    /\ PoolUnchanged /\ PeersUnchanged /\ UNCHANGED store
    /\ Becomes(c, NoRequest)

-----------------------------------------------------------------------------
(* What goes on around the requests.                                        *)

\* Clients of a peer, which need not be cut off itself, write and delete a key
\* of its own.
PeerStores(k, v) ==
    /\ ownerOf[k] \in Node
    /\ store[k] # v
    /\ store' = [store EXCEPT ![k] = v]
    /\ PoolUnchanged /\ PeersUnchanged
    /\ OthersGoOn

\* A peer is cut off, or stops and takes along what it stores.
LosePeer(n) ==
    /\ n \in reachable
    /\ reachable' = reachable \ {n}
    /\ \/ UNCHANGED store
       \/ store' = [k \in Key |-> IF ownerOf[k] = n THEN NoValue ELSE store[k]]
    /\ PoolUnchanged /\ UNCHANGED <<ownerOf, unsent, backoff>>
    /\ OthersGoOn

FindPeer(n) ==
    /\ n \notin reachable
    /\ reachable' = reachable \cup {n}
    /\ UNCHANGED <<store, ownerOf, unsent, backoff>> /\ PoolUnchanged
    /\ OthersGoOn

\* A connection to a peer that is away is refused: until it tries again, RPCs
\* fail at once, also when the peer has come back meanwhile.
BackOff(n) ==
    /\ n \notin reachable \cup backoff
    /\ connections[n] # NoEntry /\ conn[connections[n]] = "open"
    /\ backoff' = backoff \cup {n}
    /\ UNCHANGED <<store, ownerOf, unsent, reachable>> /\ PoolUnchanged
    /\ OthersGoOn

TryAgain(n) ==
    /\ n \in backoff
    /\ backoff' = backoff \ {n}
    /\ UNCHANGED <<store, ownerOf, unsent, reachable>> /\ PoolUnchanged
    /\ OthersGoOn

Around == PeersUnchanged /\ UNCHANGED store /\ OthersGoOn

\* A transfer, or another request, uses the pool.
OtherCalls(c) ==
    /\ \E n \in Node : GetConnection(c, n)
    /\ Around

OtherGoesOn(c) == GoOn(c) /\ Around

\* The event delegate and the manager change the pool. A new entry has a new
\* connection, which waits for nothing.
PoolChanges ==
    /\ \/ \E n \in Node : NotifyJoin(n) \/ UpdateConnection(n) \/ RemoveConnection(n)
       \/ Close
    /\ backoff' = {n \in backoff : connections'[n] = connections[n]}
    /\ UNCHANGED <<store, ownerOf, unsent, reachable>>
    /\ OthersGoOn

-----------------------------------------------------------------------------
Receive(c) ==
    \/ \E method \in Method : HealthHandler(c, method)
    \/ \E known \in BOOLEAN, k \in Key :
        \/ handleGet(c, known, k)
        \/ \E v \in Value : handlePost(c, known, k, v)
        \/ handleDelete(c, known, k)
    \/ \E known \in BOOLEAN : FailToReadBody(c, known) \/ MethodNotAllowed(c, known)
    \* strings.Trim leaves no key empty but that of the path "/".
    \/ handleGet(c, FALSE, NoKey)
    \/ \E v \in Value : handlePost(c, FALSE, NoKey, v)
    \/ handleDelete(c, FALSE, NoKey)

Handle(c) ==
    \/ ReadLocal(c) \/ writeValue(c) \/ deleteValue(c)
    \/ GetClient(c) \/ Dial(c) \/ Read(c) \/ Write(c) \/ Reply(c) \/ RpcFails(c)
    \/ EndRequest(c)

PathNext ==
    \/ \E c \in Handler : Receive(c) \/ Handle(c)
    \/ \E c \in Caller \ Handler : OtherCalls(c) \/ OtherGoesOn(c)
    \/ \E k \in Key, v \in Value \cup {NoValue} : PeerStores(k, v)
    \/ \E n \in Node : LosePeer(n) \/ FindPeer(n) \/ BackOff(n) \/ TryAgain(n)
    \/ PoolChanges

PathSpec == PathInit /\ [][PathNext]_pathVars

\* A handler that need not wait goes on; an RPC ends after five seconds.
FairPathSpec ==
    /\ PathSpec
    /\ \A c \in Handler : WF_pathVars(Handle(c))
    /\ \A c \in Caller \ Handler : WF_pathVars(OtherGoesOn(c))

-----------------------------------------------------------------------------
\* The shape of the state. A request that uses the pool is where its caller is.
PathTypeOK ==
    /\ TypeOK
    /\ request \in [Handler ->
            [pc : {"idle", "local", "connect", "rpc", "reply", "answered"},
             op : Method \cup {"none"}, known : BOOLEAN, key : Key \cup {NoKey},
             val : Value \cup {NoValue}, status : Status,
             held : SUBSET (Value \cup {NoValue}), troubled : BOOLEAN]]
    /\ store \in [Key -> Value \cup {NoValue}]
    /\ reachable \subseteq Node
    /\ backoff \subseteq Node
    /\ ownerOf \in [Key -> Node \cup {Self}]
    /\ unsent \subseteq Key
    /\ \A c \in Handler :
        /\ caller[c] # Away <=> request[c].pc \in {"rpc", "reply"}
        /\ caller[c] # Away => caller[c].node = Target(c)
        /\ request[c].pc = "reply" => caller[c].pc = "using"

\* A GET that is answered with a value got one that the owner of the key held
\* while the request was under way, and one that is answered 404 could have
\* found nothing there (http_server/index.go 97-183): errors of the connection,
\* deletions and outages in between never pass for an absent key, nor for a value
\* long gone. The exception is a value of length 0, which only its owner finds.
GetTellsWhatOwnerHeld ==
    \A c \in Handler :
        LET r == request[c]
        IN  r.pc = "answered" /\ r.op = "GET" /\ r.key \in Key /\ r.known =>
                /\ r.status = 200 => r.val \in r.held \ {NoValue}
                /\ r.status = 404 =>
                        \/ NoValue \in r.held
                        \/ EmptyValue \in r.held /\ ownerOf[r.key] # Self

\* What no RPC can carry: the key, or what its owner, a peer, held for it.
Unfit(r) ==
    /\ r.key \in Key /\ ownerOf[r.key] # Self
    /\ r.key \in unsent \/ HugeValue \in r.held

\* A GET fails with 500 or 503 only if, at some time during the request, the peer
\* could not be called: it did not serve, its connection still waited after a time
\* when it did not (also of a peer whose join was told before it listened), its
\* entry changed or was missing, or had failed to dial. As long as ring and pool
\* agree (PoolTracksRing of the module Cluster) no interleaving with other callers'
\* dials makes one (grpc_pool.go 64-109, http_server/index.go 134-169). Otherwise
\* it is what no RPC can carry that fails, with 500.
FailuresHaveACause ==
    \A c \in Handler :
        LET r == request[c]
        IN  r.pc = "answered" =>
                /\ r.status = 503 => r.troubled
                /\ r.status = 500 => r.troubled \/ Unfit(r)

\* Only requests that were answered 202, or 404 because their path is not an
\* endpoint, change what is stored (http_server/index.go 45-74, 186-275): a client
\* that was refused need not fear that it was served.
RefusedRequestsChangeNothing ==
    [][\A c \in Handler :
          Handle(c) /\ store' # store =>
              request[c].status = IF request[c].known THEN 202 ELSE 404]_pathVars

\* GetConnection returns to everyone, also to those who wait for the dial of an
\* entry that another goroutine removes meanwhile, or that fails (grpc_pool.go
\* 68-109): here to transfers and other users of the pool.
CallsReturn ==
    \A c \in Caller \ Handler : caller[c].pc # "idle" ~> caller[c].pc = "idle"

\* Every request, and the goroutine it leaves behind, comes to an end, whatever
\* becomes of the peer, of the pool's entry, of its own dial and of the dial of
\* another goroutine it waits for.
RequestsAreAnswered ==
    \A c \in Handler : request[c].pc # "idle" ~> request[c].pc = "idle"
=============================================================================
