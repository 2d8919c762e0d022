------------------------- MODULE RequestPath_proofs -------------------------
(***************************************************************************)
(* Proofs about the requests at one node, for any number of handlers,      *)
(* peers, keys, values and entries of the pool.                            *)
(***************************************************************************)
EXTENDS RequestPath, GRPCPool_proofs

Stored == Value \cup {NoValue}

Request ==
    [pc : {"idle", "local", "connect", "rpc", "reply", "answered"},
     op : Method \cup {"none"}, known : BOOLEAN, key : Key \cup {NoKey},
     val : Stored, status : Status, held : SUBSET Stored, troubled : BOOLEAN]

UnderWay(r) == r.pc \in {"local", "connect", "rpc", "reply"}

\* A request under way has been routed by its key's owner o[key], its first
\* header is fixed unless it is a GET, and what a GET has read or answered has
\* been held by the owner.
Sound(r, o) ==
    /\ r \in Request
    /\ UnderWay(r) =>
        /\ r.key \in Key
        /\ r.op \in {"GET", "POST", "DELETE"}
        /\ r.pc = "local" <=> o[r.key] = Self
        /\ r.status = IF ~ r.known THEN 404 ELSE IF r.op = "GET" THEN 0 ELSE 202
        /\ r.op = "GET" /\ r.known /\ r.pc = "reply" => r.val \in r.held
    /\ r.pc = "answered" /\ r.op = "GET" /\ r.key \in Key /\ r.known =>
        /\ r.status = 200 => r.val \in r.held \ {NoValue}
        /\ r.status = 404 =>
            \/ NoValue \in r.held
            \/ EmptyValue \in r.held /\ o[r.key] # Self

\* A GET under way has seen what is stored now.
Watches(r, s) == UnderWay(r) /\ r.op = "GET" /\ r.known => s[r.key] \in r.held

\* Its peer cannot be called, in the step it takes or before.
Blamed(r) ==
    r.troubled \/ (r.op = "GET" /\ r.known /\ r.key \in Key /\ ownerOf[r.key] \in Unreachable)

\* A request is where its caller is.
Linked(c) ==
    /\ caller[c] # Away <=> request[c].pc \in {"rpc", "reply"}
    /\ caller[c] # Away => caller[c].node = Target(c)
    /\ request[c].pc = "reply" => caller[c].pc = "using"

\* The entry a GET works with is the one of its peer, unless it has changed.
Excused(c) ==
    /\ request[c].op = "GET" /\ request[c].known /\ request[c].pc \in {"rpc", "reply"} =>
            request[c].troubled \/ connections[Target(c)] = caller[c].entry
    /\ request[c].pc = "answered" =>
            /\ request[c].status = 503 => request[c].troubled
            /\ request[c].status = 500 => request[c].troubled \/ Unfit(request[c])

Shape ==
    /\ store \in [Key -> Stored]
    /\ reachable \subseteq Node
    /\ backoff \subseteq Node
    /\ ownerOf \in [Key -> Node \cup {Self}]
    /\ unsent \subseteq Key
    /\ request \in [Handler -> Request]

PathInv ==
    /\ PoolInv
    /\ Shape
    /\ \A c \in Handler : Sound(request[c], ownerOf) /\ Watches(request[c], store)
    /\ \A c \in Handler : Linked(c) /\ Excused(c)

-----------------------------------------------------------------------------
(* The operators on requests.                                               *)

LEMMA SayEffect ==
    ASSUME NEW r \in Request, NEW code \in Status
    PROVE  /\ Say(r, code) \in Request
           /\ Say(r, code).status = IF r.status = 0 THEN code ELSE r.status
           /\ Say(r, code).pc = r.pc /\ Say(r, code).op = r.op /\ Say(r, code).known = r.known
           /\ Say(r, code).key = r.key /\ Say(r, code).val = r.val
           /\ Say(r, code).held = r.held /\ Say(r, code).troubled = r.troubled
  BY DEF Say, Request

LEMMA EndsEffect ==
    ASSUME NEW r \in Request
    PROVE  /\ Ends(r) \in Request
           /\ Ends(r).pc = "answered" /\ Ends(r).op = r.op /\ Ends(r).known = r.known
           /\ Ends(r).key = r.key /\ Ends(r).val = r.val /\ Ends(r).status = r.status
           /\ Ends(r).held = r.held /\ Ends(r).troubled = r.troubled
  BY DEF Ends, Request

LEMMA DropEffect ==
    ASSUME NEW r \in Request
    PROVE  /\ Drop(r) \in Request
           /\ Drop(r).pc = r.pc /\ Drop(r).op = r.op /\ Drop(r).known = r.known
           /\ Drop(r).key = r.key /\ Drop(r).status = r.status
           /\ Drop(r).held = r.held /\ Drop(r).troubled = r.troubled
  BY DEF Drop, Request, Stored

LEMMA AnswerEffect ==
    ASSUME NEW r \in Request, NEW code \in Status
    PROVE  /\ Answer(r, code) \in Request
           /\ Answer(r, code).status = IF r.status = 0 THEN code ELSE r.status
           /\ Answer(r, code).pc = "answered" /\ Answer(r, code).op = r.op
           /\ Answer(r, code).known = r.known
           /\ Answer(r, code).key = r.key /\ Answer(r, code).val = r.val
           /\ Answer(r, code).held = r.held /\ Answer(r, code).troubled = r.troubled
<1>. DEFINE s == Say(r, code)
<1>1. s \in Request
  BY SayEffect
<1>2. Answer(r, code) = Ends(s)
  BY DEF Answer
<1>3. s.status = (IF r.status = 0 THEN code ELSE r.status) /\ s.op = r.op /\ s.known = r.known
      /\ s.key = r.key /\ s.val = r.val /\ s.held = r.held /\ s.troubled = r.troubled
  BY SayEffect
<1>. HIDE DEF s
<1>. QED BY <1>1, <1>2, <1>3, EndsEffect

\* Observe touches the histories only, which grow.
LEMMA ObserveEffect ==
    ASSUME NEW r \in Request, r.op = "GET" /\ r.key # NoKey => store'[r.key] \in Stored
    PROVE  /\ Observe(r) \in Request
           /\ Observe(r).pc = r.pc /\ Observe(r).op = r.op /\ Observe(r).known = r.known
           /\ Observe(r).key = r.key /\ Observe(r).val = r.val /\ Observe(r).status = r.status
           /\ r.held \subseteq Observe(r).held
           /\ r.troubled => Observe(r).troubled
           /\ r.op = "GET" /\ r.key # NoKey /\ r.known =>
                /\ store'[r.key] \in Observe(r).held
                /\ ownerOf[r.key] \in Unreachable => Observe(r).troubled
<1>1. CASE r.op # "GET" \/ r.key = NoKey \/ ~ r.known
  BY <1>1 DEF Observe
<1>2. CASE r.op = "GET" /\ r.key # NoKey /\ r.known
  <2>. DEFINE h == r.held \cup {store'[r.key]}
              t == r.troubled \/ ownerOf[r.key] \in Unreachable
  <2>1. Observe(r) = [r EXCEPT !.held = h, !.troubled = t]
    BY <1>2 DEF Observe
  <2>2. h \in SUBSET Stored /\ r.held \subseteq h /\ store'[r.key] \in h
    BY <1>2 DEF Request
  <2>3. t \in BOOLEAN /\ (r.troubled => t) /\ (ownerOf[r.key] \in Unreachable => t)
    BY DEF Request
  <2>. HIDE DEF h, t
  <2>4. /\ [r EXCEPT !.held = h, !.troubled = t] \in Request
        /\ [r EXCEPT !.held = h, !.troubled = t].held = h
        /\ [r EXCEPT !.held = h, !.troubled = t].troubled = t
    BY <2>2, <2>3 DEF Request
  <2>5. LET x == [r EXCEPT !.held = h, !.troubled = t]
        IN  /\ x.pc = r.pc /\ x.op = r.op /\ x.known = r.known
            /\ x.key = r.key /\ x.val = r.val /\ x.status = r.status
    BY DEF Request
  <2>. QED BY <2>1, <2>2, <2>3, <2>4, <2>5
<1>. QED BY <1>1, <1>2

\* So requests that are watched stay sound.
LEMMA ObserveSound ==
    ASSUME NEW r, NEW o, Sound(r, o), store' \in [Key -> Stored]
    PROVE  Sound(Observe(r), o) /\ Watches(Observe(r), store')
<1>1. r \in Request
  BY DEF Sound
<1>2. r.op = "GET" /\ r.key # NoKey => store'[r.key] \in Stored
  BY <1>1 DEF Request
<1>. DEFINE x == Observe(r)
<1>3. /\ x \in Request
      /\ x.pc = r.pc /\ x.op = r.op /\ x.known = r.known
      /\ x.key = r.key /\ x.val = r.val /\ x.status = r.status
      /\ r.held \subseteq x.held
      /\ r.op = "GET" /\ r.key # NoKey /\ r.known => store'[r.key] \in x.held
  BY <1>1, <1>2, ObserveEffect
<1>. HIDE DEF x
<1>4. Sound(x, o)
  BY <1>3 DEF Sound, UnderWay
<1>5. UnderWay(x) /\ x.op = "GET" => r.key # NoKey
  BY <1>3, RequestAssumption DEF Sound, UnderWay
<1>6. Watches(x, store')
  BY <1>3, <1>5 DEF Watches
<1>. QED BY <1>4, <1>6 DEF x

-----------------------------------------------------------------------------
(* The steps, request by request.                                           *)

\* What Becomes and OthersGoOn make of the requests.
Watched(d) == IF request[d].pc = "answered" THEN request[d] ELSE Observe(request[d])

LEMMA BecomesEffect ==
    ASSUME NEW c \in Handler, NEW r, Becomes(c, r)
    PROVE  request'[c] = Observe(r) /\ \A d \in Handler : d # c => request'[d] = Watched(d)
  BY DEF Becomes, Watched

LEMMA OthersEffect ==
    ASSUME NEW d \in Handler, OthersGoOn
    PROVE  request'[d] = Watched(d)
  BY DEF OthersGoOn, Watched

\* The request of a handler that takes no step itself stays as it should be.
LEMMA Bystander ==
    ASSUME PathInv, [Next]_vars, NEW d \in Handler, request'[d] = Watched(d),
           store' \in [Key -> Stored], ownerOf' = ownerOf, unsent' = unsent,
           caller'[d] = caller[d]
    PROVE  /\ Sound(request'[d], ownerOf') /\ Watches(request'[d], store')
           /\ Linked(d)' /\ Excused(d)' /\ request'[d] \in Request
<1>. DEFINE r == request[d]
            x == request'[d]
<1>1. Sound(r, ownerOf) /\ Watches(r, store) /\ Linked(d) /\ Excused(d)
  BY DEF PathInv
<1>2. r \in Request
  BY <1>1 DEF Sound
<1>3. CASE r.pc = "answered"
  <2>1. x = r
    BY <1>3 DEF Watched
  <2>2. Watches(x, store')
    BY <1>3, <2>1 DEF Watches, UnderWay
  <2>3. Linked(d)'
    BY <1>1, <1>3, <2>1 DEF Linked, Target
  <2>4. Excused(d)'
    BY <1>1, <1>3, <2>1 DEF Excused, Unfit
  <2>. QED BY <1>1, <1>2, <2>1, <2>2, <2>3, <2>4
<1>4. CASE r.pc # "answered"
  <2>1. x = Observe(r)
    BY <1>4 DEF Watched
  <2>2. r.op = "GET" /\ r.key # NoKey => store'[r.key] \in Stored
    BY <1>2 DEF Request
  <2>3. /\ x \in Request /\ x.pc = r.pc /\ x.op = r.op /\ x.key = r.key /\ x.status = r.status
        /\ x.known = r.known
        /\ r.troubled => x.troubled
        /\ r.op = "GET" /\ r.key # NoKey /\ r.known =>
                (ownerOf[r.key] \in Unreachable => x.troubled)
    BY <1>2, <2>1, <2>2, ObserveEffect
  <2>4. Sound(x, ownerOf) /\ Watches(x, store')
    BY <1>1, <2>1, ObserveSound
  <2>5. Linked(d)'
    BY <1>1, <2>3 DEF Linked, Target
  <2>6. Excused(d)'
    <3>1. ASSUME r.op = "GET", r.known, r.pc \in {"rpc", "reply"}
          PROVE  x.troubled \/ connections'[ownerOf[r.key]] = caller'[d].entry
      <4>1. r.key \in Key /\ r.key # NoKey /\ ownerOf[r.key] # Self
        BY <1>1, <3>1, RequestAssumption DEF Sound, UnderWay
      <4>2. ownerOf[r.key] \in Node
        BY <4>1 DEF PathInv, Shape
      <4>3. CASE connections'[ownerOf[r.key]] = connections[ownerOf[r.key]]
        BY <1>1, <2>3, <3>1, <4>3 DEF Excused, Target
      <4>4. CASE connections'[ownerOf[r.key]] # connections[ownerOf[r.key]]
        BY <2>3, <3>1, <4>1, <4>2, <4>4 DEF Unreachable
      <4>. QED BY <4>3, <4>4
    <3>. QED BY <1>4, <2>3, <3>1 DEF Excused, Target
  <2>. QED BY <2>3, <2>4, <2>5, <2>6
<1>. QED BY <1>3, <1>4

\* The step of a handler that makes r of its request: what r, its caller and
\* the pool must be afterwards.
LEMMA OwnStep ==
    ASSUME PathInv, [Next]_vars, NEW c \in Handler, NEW r, Becomes(c, r), Sound(r, ownerOf),
           store' \in [Key -> Stored], ownerOf' = ownerOf, unsent' = unsent,
           reachable' \subseteq Node, backoff' \subseteq Node,
           \A d \in Handler : d # c => caller'[d] = caller[d],
           caller'[c] # Away <=> r.pc \in {"rpc", "reply"},
           caller'[c] # Away => caller'[c].node = ownerOf[r.key],
           r.pc = "reply" => caller'[c].pc = "using",
           r.op = "GET" /\ r.known /\ r.pc \in {"rpc", "reply"} =>
                r.troubled \/ connections'[ownerOf[r.key]] = caller'[c].entry,
           r.pc = "answered" /\ r.status = 503 => Blamed(r),
           r.pc = "answered" /\ r.status = 500 => Blamed(r) \/ Unfit(r),
           PoolInv'
    PROVE  PathInv'
<1>. DEFINE x == request'[c]
<1>1. x = Observe(r) /\ \A d \in Handler : d # c => request'[d] = Watched(d)
  BY BecomesEffect
<1>2. r \in Request
  BY DEF Sound
<1>3. r.op = "GET" /\ r.key # NoKey => store'[r.key] \in Stored
  BY <1>2 DEF Request
<1>4. /\ x \in Request /\ x.pc = r.pc /\ x.op = r.op /\ x.key = r.key /\ x.status = r.status
      /\ x.known = r.known /\ r.held \subseteq x.held
      /\ r.troubled => x.troubled
      /\ r.op = "GET" /\ r.key # NoKey /\ r.known =>
              (ownerOf[r.key] \in Unreachable => x.troubled)
  BY <1>1, <1>2, <1>3, ObserveEffect
<1>5. Sound(x, ownerOf') /\ Watches(x, store')
  BY <1>1, ObserveSound
<1>6. Linked(c)'
  BY <1>4 DEF Linked, Target
<1>7. Excused(c)'
  <2>1. Blamed(r) => x.troubled
    BY <1>4, RequestAssumption DEF Blamed
  <2>2. Unfit(r) => Unfit(request[c])'
    BY <1>4 DEF Unfit
  <2>. QED BY <1>4, <2>1, <2>2 DEF Excused, Target
<1>8. ASSUME NEW d \in Handler
      PROVE  /\ Sound(request'[d], ownerOf') /\ Watches(request'[d], store')
             /\ Linked(d)' /\ Excused(d)' /\ request'[d] \in Request
  <2>1. CASE d = c
    BY <1>4, <1>5, <1>6, <1>7, <2>1
  <2>2. CASE d # c
    BY <1>1, <2>2, Bystander
  <2>. QED BY <2>1, <2>2
<1>9. Shape'
  <2>1. request' \in [Handler -> Request]
    BY <1>8 DEF Becomes
  <2>. QED BY <2>1 DEF Shape, PathInv
<1>. QED BY <1>8, <1>9 DEF PathInv

\* A step around the requests.
LEMMA AroundStep ==
    ASSUME PathInv, [Next]_vars, OthersGoOn,
           store' \in [Key -> Stored], ownerOf' = ownerOf, unsent' = unsent,
           reachable' \subseteq Node, backoff' \subseteq Node,
           \A d \in Handler : caller'[d] = caller[d],
           PoolInv'
    PROVE  PathInv'
<1>1. ASSUME NEW d \in Handler
      PROVE  /\ Sound(request'[d], ownerOf') /\ Watches(request'[d], store')
             /\ Linked(d)' /\ Excused(d)' /\ request'[d] \in Request
  BY OthersEffect, Bystander
<1>2. Shape'
  <2>1. request' \in [Handler -> Request]
    BY <1>1 DEF OthersGoOn
  <2>. QED BY <2>1 DEF Shape, PathInv
<1>. QED BY <1>1, <1>2 DEF PathInv

-----------------------------------------------------------------------------
(* Arrivals.                                                                *)

LEMMA NoRequestEffect ==
    /\ NoRequest \in Request
    /\ NoRequest.pc = "idle" /\ NoRequest.op = "none" /\ NoRequest.known = TRUE
    /\ NoRequest.key = NoKey /\ NoRequest.val = NoValue /\ NoRequest.status = 0
    /\ NoRequest.held = {} /\ NoRequest.troubled = FALSE
  BY DEF NoRequest, Request, Stored, Status

LEMMA RouteEffect ==
    ASSUME NEW r \in Request
    PROVE  /\ Route(r) \in Request
           /\ Route(r).pc = IF ownerOf[r.key] = Self THEN "local" ELSE "connect"
           /\ Route(r).op = r.op /\ Route(r).known = r.known
           /\ Route(r).key = r.key /\ Route(r).val = r.val /\ Route(r).status = r.status
           /\ Route(r).held = r.held /\ Route(r).troubled = r.troubled
  BY DEF Route, Request

LEMMA ServeHTTPEffect ==
    ASSUME NEW method \in Method, NEW known \in BOOLEAN, NEW k \in Key \cup {NoKey}
    PROVE  LET r == ServeHTTP(method, known, k)
           IN  /\ r \in Request /\ r.pc = "idle" /\ r.op = method /\ r.known = known /\ r.key = k
               /\ r.status = IF known THEN 0 ELSE 404
<1>. DEFINE n == NoRequest
            r == [n EXCEPT !.op = method, !.known = known, !.key = k]
<1>1. n \in Request /\ n.pc = "idle" /\ n.status = 0
  BY NoRequestEffect
<1>. HIDE DEF n
<1>2. r \in Request /\ r.pc = "idle" /\ r.op = method /\ r.known = known /\ r.key = k /\ r.status = 0
  BY <1>1 DEF Request
<1>3. ServeHTTP(method, known, k) = IF known THEN r ELSE Say(r, 404)
  BY DEF ServeHTTP, n
<1>4. 404 \in Status
  BY DEF Status
<1>. HIDE DEF r
<1>. QED BY <1>2, <1>3, <1>4, SayEffect

LEMMA ArrivesStep ==
    ASSUME PathInv, NEW c \in Handler, NEW r, Arrives(c, r), Sound(r, ownerOf),
           r.pc \in {"local", "connect", "answered"},
           r.pc = "answered" => r.status \notin {500, 503}
    PROVE  PathInv'
<1>1. /\ UNCHANGED vars /\ ownerOf' = ownerOf /\ unsent' = unsent /\ reachable' = reachable
      /\ backoff' = backoff /\ store' = store /\ Becomes(c, r) /\ request[c] = NoRequest
  BY DEF Arrives, PoolUnchanged, PeersUnchanged
<1>2. caller'[c] = Away
  <2>1. request[c].pc = "idle"
    BY <1>1, NoRequestEffect
  <2>. QED BY <1>1, <2>1 DEF PathInv, Linked, vars
<1>3. PoolInv'
  <2>1. PoolInv /\ [Next]_vars
    BY <1>1 DEF PathInv
  <2>. QED BY <2>1, PoolInvStep
<1>4. store' \in [Key -> Stored] /\ reachable' \subseteq Node /\ backoff' \subseteq Node
  BY <1>1 DEF PathInv, Shape
<1>5. \A d \in Handler : caller'[d] = caller[d]
  BY <1>1 DEF vars
<1>. QED BY <1>1, <1>2, <1>3, <1>4, <1>5, OwnStep

LEMMA ReceiveStep ==
    ASSUME PathInv, NEW c \in Handler, Receive(c)
    PROVE  PathInv'
<1>. DEFINE Fine(r) == /\ Sound(r, ownerOf) /\ r.pc \in {"local", "connect", "answered"}
                       /\ r.pc = "answered" => r.status \notin {500, 503}
\* Answered at once: not a GET of a key.
<1>1. ASSUME NEW r \in Request, NEW code \in {200, 400, 405, 501}, r.status \in {0, 404},
             r.op = "GET" => r.key = NoKey
      PROVE  Fine(Answer(r, code))
  <2>. DEFINE x == Answer(r, code)
  <2>1. code \in Status
    BY DEF Status
  <2>2. x \in Request /\ x.pc = "answered" /\ x.op = r.op /\ x.key = r.key
        /\ x.status = IF r.status = 0 THEN code ELSE r.status
    BY <2>1, AnswerEffect
  <2>. HIDE DEF x
  <2>3. Fine(x)
    BY <1>1, <2>2, RequestAssumption DEF Sound, UnderWay
  <2>. QED BY <2>3 DEF x
\* Routed.
<1>2. ASSUME NEW r \in Request, r.key \in Key, r.op \in {"GET", "POST", "DELETE"},
             r.status = IF ~ r.known THEN 404 ELSE IF r.op = "GET" THEN 0 ELSE 202
      PROVE  Fine(Route(r))
  <2>. DEFINE x == Route(r)
  <2>1. x \in Request /\ x.pc = (IF ownerOf[r.key] = Self THEN "local" ELSE "connect")
        /\ x.op = r.op /\ x.known = r.known /\ x.key = r.key /\ x.status = r.status
    BY RouteEffect
  <2>. HIDE DEF x
  <2>2. Fine(x)
    BY <1>2, <2>1 DEF Sound, UnderWay
  <2>. QED BY <2>2 DEF x
<1>3. 202 \in Status /\ {"GET", "POST", "DELETE", "PUT"} \subseteq Method
  BY DEF Status, Method
<1>4. ASSUME NEW method \in Method, HealthHandler(c, method) PROVE \E r : Arrives(c, r) /\ Fine(r)
  <2>1. Fine(Answer(NoRequest, IF method = "GET" THEN 200 ELSE 405))
    BY <1>1, NoRequestEffect
  <2>. QED BY <1>4, <2>1 DEF HealthHandler
<1>5. ASSUME NEW known \in BOOLEAN, NEW k \in Key \cup {NoKey}, handleGet(c, known, k)
      PROVE  \E r : Arrives(c, r) /\ Fine(r)
  <2>. DEFINE r == ServeHTTP("GET", known, k)
  <2>1. r \in Request /\ r.op = "GET" /\ r.known = known /\ r.key = k
        /\ r.status = IF known THEN 0 ELSE 404
    BY <1>3, ServeHTTPEffect
  <2>2. Arrives(c, IF k = NoKey THEN Answer(r, 400) ELSE Route(r))
    BY <1>5 DEF handleGet
  <2>. HIDE DEF r, Fine
  <2>3. CASE k = NoKey
    BY <1>1, <2>1, <2>2, <2>3
  <2>4. CASE k # NoKey
    BY <1>2, <2>1, <2>2, <2>4
  <2>. QED BY <2>3, <2>4
<1>6. ASSUME NEW known \in BOOLEAN, NEW k \in Key \cup {NoKey}, NEW v \in Value,
             handlePost(c, known, k, v)
      PROVE  \E r : Arrives(c, r) /\ Fine(r)
  <2>. DEFINE s == ServeHTTP("POST", known, k)
              r == [s EXCEPT !.val = v]
  <2>1. s \in Request /\ s.op = "POST" /\ s.known = known /\ s.key = k
        /\ s.status = IF known THEN 0 ELSE 404
    BY <1>3, ServeHTTPEffect
  <2>2. Arrives(c, IF k = NoKey THEN Answer(s, 400) ELSE Route(Say(r, 202)))
    BY <1>6 DEF handlePost
  <2>. HIDE DEF s
  <2>3. r \in Request /\ r.op = "POST" /\ r.known = known /\ r.key = k
        /\ r.status = IF known THEN 0 ELSE 404
    BY <2>1 DEF Request, Stored
  <2>. HIDE DEF r
  <2>. DEFINE x == Say(r, 202)
  <2>4. x \in Request /\ x.op = "POST" /\ x.known = known /\ x.key = k
        /\ x.status = IF known THEN 202 ELSE 404
    BY <1>3, <2>3, SayEffect
  <2>5. Arrives(c, IF k = NoKey THEN Answer(s, 400) ELSE Route(x))
    BY <2>2
  <2>. HIDE DEF x, Fine
  <2>6. CASE k = NoKey
    BY <1>1, <2>1, <2>5, <2>6
  <2>7. CASE k # NoKey
    BY <1>2, <2>4, <2>5, <2>7
  <2>. QED BY <2>6, <2>7
<1>7. ASSUME NEW known \in BOOLEAN, NEW k \in Key \cup {NoKey}, handleDelete(c, known, k)
      PROVE  \E r : Arrives(c, r) /\ Fine(r)
  <2>. DEFINE r == ServeHTTP("DELETE", known, k)
              x == Say(r, 202)
  <2>1. r \in Request /\ r.op = "DELETE" /\ r.known = known /\ r.key = k
        /\ r.status = IF known THEN 0 ELSE 404
    BY <1>3, ServeHTTPEffect
  <2>2. Arrives(c, IF k = NoKey THEN Answer(r, 400)
                   ELSE IF ownerOf[k] = Self THEN Route(x) ELSE Answer(r, 501))
    BY <1>7 DEF handleDelete
  <2>. HIDE DEF r
  <2>3. x \in Request /\ x.op = "DELETE" /\ x.known = known /\ x.key = k
        /\ x.status = IF known THEN 202 ELSE 404
    BY <1>3, <2>1, SayEffect
  <2>. HIDE DEF x, Fine
  <2>4. CASE k = NoKey
    BY <1>1, <2>1, <2>2, <2>4
  <2>5. CASE k # NoKey /\ ownerOf[k] = Self
    BY <1>2, <2>2, <2>3, <2>5
  <2>6. CASE k # NoKey /\ ownerOf[k] # Self
    BY <1>1, <2>1, <2>2, <2>6
  <2>. QED BY <2>4, <2>5, <2>6
<1>8. ASSUME NEW known \in BOOLEAN, FailToReadBody(c, known) \/ MethodNotAllowed(c, known)
      PROVE  \E r : Arrives(c, r) /\ Fine(r)
  <2>1. PICK method \in {"POST", "PUT"}, code \in {400, 405} :
            Arrives(c, Answer(ServeHTTP(method, known, NoKey), code))
    BY <1>8 DEF FailToReadBody, MethodNotAllowed
  <2>. DEFINE r == ServeHTTP(method, known, NoKey)
  <2>2. r \in Request /\ r.op = method /\ r.status = IF known THEN 0 ELSE 404
    BY <1>3, ServeHTTPEffect
  <2>3. Arrives(c, Answer(r, code))
    BY <2>1
  <2>. HIDE DEF r, Fine
  <2>. QED BY <1>1, <2>2, <2>3
<1>9. \E r : Arrives(c, r) /\ Fine(r)
  <2>. HIDE DEF Fine
  <2>1. FALSE \in BOOLEAN /\ NoKey \in Key \cup {NoKey} /\ \A k \in Key : k \in Key \cup {NoKey}
    OBVIOUS
  <2>. QED BY <1>4, <1>5, <1>6, <1>7, <1>8, <2>1 DEF Receive
<1>. QED BY <1>9, ArrivesStep

-----------------------------------------------------------------------------
(* Handlers at work.                                                        *)

\* What is known of the request of a handler.
LEMMA RequestFacts ==
    ASSUME PathInv, NEW c \in Handler
    PROVE  /\ c \in Caller /\ request[c] \in Request
           /\ Sound(request[c], ownerOf) /\ Watches(request[c], store)
           /\ Linked(c) /\ Excused(c)
           /\ UnderWay(request[c]) => Target(c) \in Node \cup {Self} /\ request[c].key \in Key
           /\ request[c].pc \in {"connect", "rpc", "reply"} => Target(c) \in Node
<1>1. Sound(request[c], ownerOf) /\ Watches(request[c], store) /\ Linked(c) /\ Excused(c)
  BY DEF PathInv
<1>2. UnderWay(request[c]) => request[c].key \in Key
  BY <1>1 DEF Sound
<1>3. UnderWay(request[c]) => Target(c) \in Node \cup {Self}
  BY <1>2 DEF Target, PathInv, Shape
<1>4. request[c].pc \in {"connect", "rpc", "reply"} => UnderWay(request[c]) /\ Target(c) # Self
  BY <1>1 DEF Sound, UnderWay, Target
<1>. QED BY <1>1, <1>2, <1>3, <1>4, RequestAssumption DEF Sound

\* Steps that leave the pool alone and end the request at once.
LEMMA AtHomeStep ==
    ASSUME PathInv, NEW c \in Handler, NEW r, Becomes(c, r), Sound(r, ownerOf),
           request[c].pc \notin {"rpc", "reply"}, UNCHANGED vars,
           store' \in [Key -> Stored], PeersUnchanged, r.pc \in {"idle", "answered"},
           r.pc = "answered" /\ r.status \in {500, 503} => Blamed(r)
    PROVE  PathInv'
<1>1. /\ ownerOf' = ownerOf /\ unsent' = unsent /\ reachable' = reachable /\ backoff' = backoff
      /\ caller' = caller /\ connections' = connections
  BY DEF PeersUnchanged, vars
<1>2. caller[c] = Away
  BY DEF PathInv, Linked
<1>3. PoolInv'
  <2>1. PoolInv /\ [Next]_vars
    BY DEF PathInv
  <2>. QED BY <2>1, PoolInvStep
<1>4. reachable' \subseteq Node /\ backoff' \subseteq Node
  BY <1>1 DEF PathInv, Shape
<1>. QED BY <1>1, <1>2, <1>3, <1>4, OwnStep

LEMMA LocalStep ==
    ASSUME PathInv, NEW c \in Handler, ReadLocal(c) \/ writeValue(c) \/ deleteValue(c)
    PROVE  PathInv'
<1>. DEFINE r == request[c]
<1>1. /\ r \in Request /\ Sound(r, ownerOf) /\ Watches(r, store)
      /\ r.pc = "local" /\ r.key \in Key /\ UNCHANGED vars /\ PeersUnchanged
  <2>1. r.pc = "local" /\ UNCHANGED vars /\ PeersUnchanged
    BY DEF ReadLocal, writeValue, deleteValue, Local, PoolUnchanged
  <2>. QED BY <2>1, RequestFacts DEF UnderWay
<1>2. store \in [Key -> Stored]
  BY DEF PathInv, Shape
<1>3. CASE ReadLocal(c)
  <2>. DEFINE v == store[r.key]
              s == [r EXCEPT !.val = v]
              code == IF v = NoValue THEN 404 ELSE 200
              x == Answer(s, code)
  <2>1. Becomes(c, x) /\ store' = store /\ r.op = "GET"
    BY <1>3 DEF ReadLocal, Local
  <2>2. v \in Stored /\ (r.known => v \in r.held)
    BY <1>1, <1>2, <2>1 DEF Watches, UnderWay
  <2>3. s \in Request /\ s.op = "GET" /\ s.known = r.known /\ s.key = r.key /\ s.val = v
        /\ s.status = r.status /\ s.held = r.held
    BY <1>1, <2>1, <2>2 DEF Request
  <2>4. code \in Status
    BY DEF Status
  <2>. HIDE DEF s
  <2>5. x \in Request /\ x.pc = "answered" /\ x.op = "GET" /\ x.known = r.known /\ x.key = r.key
        /\ x.val = v /\ x.held = r.held /\ x.status = IF r.status = 0 THEN code ELSE r.status
    BY <2>3, <2>4, AnswerEffect
  <2>6. r.status = IF r.known THEN 0 ELSE 404
    BY <1>1, <2>1 DEF Sound, UnderWay
  <2>. HIDE DEF x
  <2>7. Sound(x, ownerOf)
    BY <1>1, <2>2, <2>5, <2>6 DEF Sound, UnderWay
  <2>8. x.status \notin {500, 503}
    BY <2>5, <2>6
  <2>. QED BY <1>1, <1>2, <2>1, <2>5, <2>7, <2>8, AtHomeStep
<1>4. CASE writeValue(c) \/ deleteValue(c)
  <2>. DEFINE d == Drop(r)
  <2>1. PICK s \in {r, d} : Becomes(c, Ends(s)) /\ r.op \in {"POST", "DELETE"}
    BY <1>4 DEF writeValue, deleteValue, Local
  <2>2. s \in Request /\ s.op = r.op /\ s.status = r.status
    BY <1>1, <2>1, DropEffect
  <2>. DEFINE x == Ends(s)
  <2>3. x \in Request /\ x.pc = "answered" /\ x.op = r.op /\ x.status = r.status
    BY <2>2, EndsEffect
  <2>4. r.val \in Stored /\ NoValue \in Stored
    BY <1>1 DEF Request, Stored
  <2>5. store' \in [Key -> Stored]
    BY <1>1, <1>2, <1>4, <2>4 DEF writeValue, deleteValue
  <2>6. r.status \in {202, 404}
    BY <1>1, <2>1 DEF Sound, UnderWay
  <2>7. Becomes(c, x)
    BY <2>1
  <2>. HIDE DEF x
  <2>8. Sound(x, ownerOf)
    BY <2>1, <2>3 DEF Sound, UnderWay
  <2>. QED BY <1>1, <2>3, <2>5, <2>6, <2>7, <2>8, AtHomeStep
<1>. QED BY <1>3, <1>4

LEMMA EndRequestStep ==
    ASSUME PathInv, NEW c \in Handler, EndRequest(c)
    PROVE  PathInv'
<1>1. /\ request[c].pc = "answered" /\ UNCHANGED vars /\ PeersUnchanged /\ store' = store
      /\ Becomes(c, NoRequest)
  BY DEF EndRequest, PoolUnchanged
<1>2. Sound(NoRequest, ownerOf)
  BY NoRequestEffect DEF Sound, UnderWay
<1>3. store' \in [Key -> Stored]
  BY <1>1 DEF PathInv, Shape
<1>. QED BY <1>1, <1>2, <1>3, NoRequestEffect, AtHomeStep

\* A request that fails for the error code: 500 or 503 for a GET only.
LEMMA FailsSound ==
    ASSUME NEW r, NEW o, NEW code, Sound(r, o), UnderWay(r),
           code = "NotFound" /\ r.op = "GET" /\ r.known => NoValue \in r.held
    PROVE  LET x == Fails(r, code)
           IN  /\ Sound(x, o) /\ x.pc = "answered" /\ x.op = r.op /\ x.key = r.key
               /\ x.known = r.known /\ x.held = r.held /\ x.troubled = r.troubled
               /\ x.status \in {500, 503} =>
                      r.op = "GET" /\ r.known /\ code \notin {"NotFound", "DeadlineExceeded"}
               /\ x.status = 503 => code = "Unavailable"
<1>. DEFINE e == ErrorStatus(code)
            d == Drop(r)
            x == Fails(r, code)
<1>1. e \in {404, 500, 503, 504} /\ (e = 404 => code = "NotFound")
      /\ (e = 503 => code = "Unavailable")
      /\ (code = "NotFound" => e = 404) /\ (code = "DeadlineExceeded" => e = 504)
  BY DEF ErrorStatus
<1>2. e \in Status /\ r \in Request
  BY <1>1 DEF Status, Sound
<1>. HIDE DEF e
<1>3. x = Answer(d, e)
  BY DEF Fails, e
<1>3a. d \in Request /\ d.op = r.op /\ d.known = r.known /\ d.key = r.key /\ d.status = r.status
      /\ d.held = r.held /\ d.troubled = r.troubled
  BY <1>2, DropEffect
<1>. HIDE DEF d
<1>4. x \in Request /\ x.pc = "answered" /\ x.op = r.op /\ x.known = r.known /\ x.key = r.key
      /\ x.held = r.held /\ x.troubled = r.troubled
      /\ x.status = IF r.status = 0 THEN e ELSE r.status
  BY <1>2, <1>3, <1>3a, AnswerEffect
<1>. HIDE DEF x
<1>5. r.op \in {"GET", "POST", "DELETE"}
      /\ r.status = IF ~ r.known THEN 404 ELSE IF r.op = "GET" THEN 0 ELSE 202
  BY DEF Sound
<1>6. Sound(x, o)
  BY <1>1, <1>4, <1>5 DEF Sound, UnderWay
<1>7. /\ x.status \in {500, 503} =>
             r.op = "GET" /\ r.known /\ code \notin {"NotFound", "DeadlineExceeded"}
      /\ x.status = 503 => code = "Unavailable"
  BY <1>1, <1>4, <1>5
<1>. QED BY <1>4, <1>6, <1>7 DEF x

LEMMA GetClientStep ==
    ASSUME PathInv, NEW c \in Handler, GetClient(c)
    PROVE  PathInv'
<1>. DEFINE r == request[c]
            n == Target(c)
<1>1. r.pc = "connect" /\ PeersUnchanged /\ store' = store
  BY DEF GetClient
<1>2. /\ c \in Caller /\ r \in Request /\ Sound(r, ownerOf) /\ UnderWay(r) /\ n \in Node
      /\ n = ownerOf[r.key] /\ r.key \in Key
  BY <1>1, RequestFacts DEF UnderWay, Target
<1>3. /\ store' \in [Key -> Stored] /\ ownerOf' = ownerOf /\ unsent' = unsent
      /\ reachable' \subseteq Node /\ backoff' \subseteq Node
  BY <1>1 DEF PathInv, Shape, PeersUnchanged
<1>4. CASE connections[n] = NoEntry
  <2>. DEFINE x == Fails(r, "none")
  <2>1. Becomes(c, x) /\ UNCHANGED vars
    BY <1>4 DEF GetClient, PoolUnchanged
  <2>2. Sound(x, ownerOf) /\ x.pc = "answered" /\ x.op = r.op /\ x.key = r.key
        /\ x.known = r.known /\ (x.status \in {500, 503} => r.op = "GET" /\ r.known)
    <3>1. Sound(r, ownerOf) /\ UnderWay(r) /\ "none" # "NotFound"
      BY <1>2
    <3>. HIDE DEF r
    <3>. QED BY <3>1, FailsSound
  <2>3. n \in Unreachable
    BY <1>2, <1>4, <2>1 DEF Unreachable, vars
  <2>. HIDE DEF x
  <2>4. x.status \in {500, 503} => Blamed(x)
    BY <1>2, <2>2, <2>3 DEF Blamed
  <2>. QED BY <1>1, <1>2, <1>3, <2>1, <2>2, <2>4, AtHomeStep
<1>5. CASE connections[n] # NoEntry
  <2>. DEFINE x == [r EXCEPT !.pc = "rpc"]
  <2>1. GetConnection(c, n) /\ Becomes(c, x)
    BY <1>5 DEF GetClient
  <2>2. x \in Request /\ x.pc = "rpc" /\ x.op = r.op /\ x.known = r.known /\ x.key = r.key
        /\ x.status = r.status
    BY <1>2 DEF Request
  <2>. HIDE DEF x
  <2>3. Sound(x, ownerOf)
    BY <1>1, <1>2, <2>2 DEF Sound, UnderWay
  <2>4. TypeOK /\ PoolInv
    BY DEF PathInv, PoolInv
  <2>5. caller'[c].pc = "once" /\ caller'[c].node = n /\ caller'[c].entry = connections[n]
        /\ \A d \in Caller : d # c => caller'[d] = caller[d]
    BY <1>2, <2>1, <2>4, StartEffect
  <2>6. caller'[c] # Away
    <3>1. Away.pc = "idle"
      BY DEF Away
    <3>. QED BY <2>5, <3>1
  <2>7. connections' = connections
    BY <2>1 DEF GetConnection
  <2>8. [Next]_vars
    BY <1>2, <2>1 DEF Next
  <2>9. PoolInv'
    BY <2>4, <2>8, PoolInvStep
  <2>10. \A d \in Handler : d # c => caller'[d] = caller[d]
    BY <2>5, RequestAssumption
  <2>. QED BY <1>2, <1>3, <2>1, <2>2, <2>3, <2>5, <2>6, <2>7, <2>8, <2>9, <2>10, OwnStep
<1>. QED BY <1>4, <1>5

\* Steps of c's caller within GetConnection, and after it.
LEMMA CallEffect ==
    ASSUME PathInv, NEW c \in Handler,
           BeginDial(c) \/ FailDial(c) \/ EndDial(c) \/ AwaitDial(c) \/ Finish(c)
    PROVE  /\ [Next]_vars /\ PoolInv' /\ connections' = connections
           /\ \A d \in Handler : d # c => caller'[d] = caller[d]
           /\ \/ caller'[c] = Away
              \/ /\ caller'[c] # Away /\ caller'[c].pc \in {"dial", "using"} /\ ~ Finish(c)
                 /\ caller'[c].node = caller[c].node /\ caller'[c].entry = caller[c].entry
<1>1. c \in Caller /\ Handler \subseteq Caller
  BY RequestAssumption
<1>2. [Next]_vars /\ connections' = connections
  BY <1>1 DEF Next, GoOn, BeginDial, FailDial, EndDial, AwaitDial, Finish
<1>3. PoolInv /\ TypeOK
  BY DEF PathInv, PoolInv
<1>4. PoolInv'
  BY <1>2, <1>3, PoolInvStep
<1>5. CASE caller' = [caller EXCEPT ![c] = Away]
  BY <1>1, <1>2, <1>3, <1>4, <1>5, ReturnEffect
<1>6. ASSUME NEW pc \in {"dial", "using"}, Goes(c, pc), ~ Finish(c)
      PROVE  /\ \A d \in Handler : d # c => caller'[d] = caller[d]
             /\ caller'[c] # Away /\ caller'[c].pc \in {"dial", "using"}
             /\ caller'[c].node = caller[c].node /\ caller'[c].entry = caller[c].entry
  <2>1. Away.pc = "idle"
    BY DEF Away
  <2>. QED BY <1>1, <1>3, <1>6, <2>1, GoesEffect
<1>7. Finish(c) => caller' = [caller EXCEPT ![c] = Away]
  BY DEF Finish
<1>8. \/ caller' = [caller EXCEPT ![c] = Away]
      \/ \E pc \in {"dial", "using"} : Goes(c, pc)
  BY DEF BeginDial, FailDial, EndDial, AwaitDial, Finish
<1>. QED BY <1>2, <1>4, <1>5, <1>6, <1>7, <1>8

LEMMA DialStep ==
    ASSUME PathInv, NEW c \in Handler, Dial(c)
    PROVE  PathInv'
<1>. DEFINE r == request[c]
            n == Target(c)
            e == caller[c].entry
<1>1. /\ r.pc = "rpc" /\ PeersUnchanged /\ store' = store
      /\ BeginDial(c) \/ FailDial(c) \/ EndDial(c) \/ AwaitDial(c)
  BY DEF Dial
<1>2. /\ c \in Caller /\ r \in Request /\ Sound(r, ownerOf) /\ UnderWay(r) /\ n \in Node
      /\ n = ownerOf[r.key] /\ r.key \in Key /\ Linked(c) /\ Excused(c)
  BY <1>1, RequestFacts DEF UnderWay, Target
<1>3. /\ store' \in [Key -> Stored] /\ ownerOf' = ownerOf /\ unsent' = unsent
      /\ reachable' \subseteq Node /\ backoff' \subseteq Node
  BY <1>1 DEF PathInv, Shape, PeersUnchanged
<1>4. /\ [Next]_vars /\ PoolInv' /\ connections' = connections
      /\ \A d \in Handler : d # c => caller'[d] = caller[d]
  BY <1>1, CallEffect
<1>5. caller[c].node = n /\ (r.op = "GET" /\ r.known => r.troubled \/ connections[n] = e)
  BY <1>1, <1>2 DEF Linked, Excused
<1>6. CASE caller'[c] = Away
  <2>. DEFINE x == Fails(r, "none")
  <2>1. Becomes(c, x)
    BY <1>6 DEF Dial
  <2>2. Sound(x, ownerOf) /\ x.pc = "answered" /\ x.op = r.op /\ x.key = r.key
        /\ x.known = r.known /\ x.troubled = r.troubled
        /\ (x.status \in {500, 503} => r.op = "GET" /\ r.known)
    BY <1>2, FailsSound
  \* The dial of the entry has failed.
  <2>3. once'[e] = "done" /\ conn'[e] = "nil"
    <3>1. TypeOK /\ OneDials /\ DoneFirst
      BY DEF PathInv, PoolInv
    <3>2. ASSUME FailDial(c) PROVE once'[e] = "done" /\ conn'[e] = "nil"
      <4>1. e \in EntryId /\ Dials(c, e)
        BY <1>2, <3>1, <3>2, EntryMade DEF FailDial, Dials
      <4>2. once[e] = "running"
        BY <1>2, <3>1, <4>1 DEF OneDials
      <4>3. conn[e] = "nil"
        BY <3>1, <4>1, <4>2 DEF DoneFirst
      <4>. QED BY <3>1, <3>2, <4>1, <4>3 DEF FailDial, TypeOK
    <3>3. ASSUME AwaitDial(c), ~ Goes(c, "using") PROVE once'[e] = "done" /\ conn'[e] = "nil"
      BY <3>3 DEF AwaitDial
    <3>4. \A pc : pc # "idle" => ~ Goes(c, pc)
      <4>1. Away.pc = "idle"
        BY DEF Away
      <4>. QED BY <1>2, <1>6, <3>1, <4>1, GoesEffect
    <3>. QED BY <1>1, <3>2, <3>3, <3>4 DEF BeginDial, EndDial
  <2>4. connections[n] = e => n \in Unreachable
    BY <1>2, <1>4, <2>3 DEF Unreachable
  <2>. HIDE DEF x
  <2>5. x.status \in {500, 503} => Blamed(x)
    BY <1>2, <1>5, <2>2, <2>4 DEF Blamed
  <2>. QED BY <1>3, <1>4, <1>6, <2>1, <2>2, <2>5, OwnStep
<1>7. CASE caller'[c] # Away
  <2>1. Becomes(c, r)
    BY <1>7 DEF Dial
  <2>2. caller'[c].node = caller[c].node /\ caller'[c].entry = e
    BY <1>1, <1>7, CallEffect
  <2>. QED BY <1>1, <1>2, <1>3, <1>4, <1>5, <1>7, <2>1, <2>2, OwnStep
<1>. QED BY <1>6, <1>7

LEMMA ServeStep ==
    ASSUME PathInv, NEW c \in Handler, Read(c) \/ Write(c)
    PROVE  PathInv'
<1>. DEFINE r == request[c]
            v == IF Read(c) THEN store[r.key] ELSE r.val
            x == [r EXCEPT !.pc = "reply", !.val = v]
<1>1. /\ r.pc = "rpc" /\ caller[c].pc = "using" /\ UNCHANGED vars /\ PeersUnchanged
      /\ r.op \in {"GET", "POST"} /\ (Read(c) => r.op = "GET") /\ (r.op = "GET" => Read(c))
  BY DEF Read, Write, Serve, PoolUnchanged
<1>2. /\ r \in Request /\ Sound(r, ownerOf) /\ UnderWay(r) /\ Watches(r, store)
      /\ r.key \in Key /\ Linked(c) /\ Excused(c)
  BY <1>1, RequestFacts DEF UnderWay
<1>3. store \in [Key -> Stored]
  BY DEF PathInv, Shape
<1>4. v \in Stored /\ r.val \in Stored /\ (r.op = "GET" /\ r.known => v \in r.held)
  BY <1>1, <1>2, <1>3 DEF Request, Watches
<1>5. store' \in [Key -> Stored]
  BY <1>2, <1>3, <1>4 DEF Read, Write
<1>6. Becomes(c, x)
  <2>1. CASE Read(c)
    BY <2>1 DEF Read
  <2>2. CASE ~ Read(c)
    <3>1. Becomes(c, [r EXCEPT !.pc = "reply"])
      BY <2>2 DEF Write
    <3>2. [r EXCEPT !.pc = "reply"] = [r EXCEPT !.pc = "reply", !.val = r.val]
      BY <1>2 DEF Request
    <3>. QED BY <2>2, <3>1, <3>2
  <2>. QED BY <2>1, <2>2
<1>. HIDE DEF v
<1>7. /\ x \in Request /\ x.pc = "reply" /\ x.op = r.op /\ x.known = r.known /\ x.key = r.key
      /\ x.val = v /\ x.status = r.status /\ x.held = r.held /\ x.troubled = r.troubled
  BY <1>2, <1>4 DEF Request
<1>. HIDE DEF x
<1>8. Sound(x, ownerOf)
  BY <1>1, <1>2, <1>4, <1>7 DEF Sound, UnderWay
<1>9. /\ ownerOf' = ownerOf /\ unsent' = unsent /\ reachable' \subseteq Node
      /\ backoff' \subseteq Node /\ caller' = caller
      /\ connections' = connections /\ [Next]_vars
  BY <1>1 DEF PathInv, Shape, PeersUnchanged, vars
<1>10. PoolInv'
  BY <1>9, PoolInvStep DEF PathInv
<1>11. caller[c] # Away /\ caller[c].node = ownerOf[r.key]
       /\ (r.op = "GET" /\ r.known => r.troubled \/ connections[ownerOf[r.key]] = caller[c].entry)
  BY <1>1, <1>2 DEF Linked, Excused, Target
<1>. QED BY <1>1, <1>5, <1>6, <1>7, <1>8, <1>9, <1>10, <1>11, OwnStep

LEMMA ReplyStep ==
    ASSUME PathInv, NEW c \in Handler, Reply(c)
    PROVE  PathInv'
<1>. DEFINE r == request[c]
<1>1. r.pc = "reply" /\ Finish(c) /\ PeersUnchanged /\ store' = store
  BY DEF Reply
<1>2. /\ r \in Request /\ Sound(r, ownerOf) /\ UnderWay(r) /\ r.key \in Key
      /\ ownerOf[r.key] # Self
  BY <1>1, RequestFacts DEF UnderWay, Sound
<1>3. /\ store' \in [Key -> Stored] /\ ownerOf' = ownerOf /\ unsent' = unsent
      /\ reachable' \subseteq Node /\ backoff' \subseteq Node
  BY <1>1 DEF PathInv, Shape, PeersUnchanged
<1>4. /\ [Next]_vars /\ PoolInv' /\ caller'[c] = Away
      /\ \A d \in Handler : d # c => caller'[d] = caller[d]
  BY <1>1, CallEffect
<1>5. r.op \in {"GET", "POST", "DELETE"} /\ (r.op = "GET" /\ r.known => r.val \in r.held)
      /\ r.status = IF ~ r.known THEN 404 ELSE IF r.op = "GET" THEN 0 ELSE 202
  BY <1>1, <1>2 DEF Sound
\* Whatever the answer is, it is sound and a failure only of what no RPC can carry.
<1>6. ASSUME NEW x, Becomes(c, x), Sound(x, ownerOf), x.pc = "answered", x.status # 503,
             x.status = 500 => Unfit(x)
      PROVE  PathInv'
  BY <1>3, <1>4, <1>6, OwnStep
<1>7. CASE r.op = "POST"
  <2>. DEFINE d == Drop(r)
              x == Ends(d)
  <2>1. Becomes(c, x)
    BY <1>7 DEF Reply
  <2>0. d \in Request /\ d.op = r.op /\ d.status = r.status
    BY <1>2, DropEffect
  <2>. HIDE DEF d
  <2>2. x \in Request /\ x.pc = "answered" /\ x.op = "POST" /\ x.status = r.status
    BY <1>7, <2>0, EndsEffect
  <2>3. x.status \notin {500, 503}
    BY <1>5, <1>7, <2>2
  <2>. HIDE DEF x
  <2>4. Sound(x, ownerOf)
    BY <2>2 DEF Sound, UnderWay
  <2>. QED BY <1>6, <2>1, <2>2, <2>3, <2>4
<1>8. CASE r.op # "POST" /\ r.val = NoValue
  <2>. DEFINE x == Fails(r, "NotFound")
  <2>1. Becomes(c, x)
    BY <1>8 DEF Reply
  <2>2. Sound(x, ownerOf) /\ x.pc = "answered" /\ x.status \notin {500, 503}
    BY <1>2, <1>5, <1>8, FailsSound
  <2>. HIDE DEF x
  <2>. QED BY <1>6, <2>1, <2>2
<1>10. CASE r.op # "POST" /\ r.val # NoValue /\ r.val = HugeValue
  <2>. DEFINE x == Fails(r, "ResourceExhausted")
  <2>1. Becomes(c, x)
    BY <1>10 DEF Reply
  <2>2. /\ Sound(x, ownerOf) /\ x.pc = "answered" /\ x.key = r.key /\ x.held = r.held
        /\ x.status # 503 /\ (x.status = 500 => r.op = "GET" /\ r.known)
    <3>1. Sound(r, ownerOf) /\ UnderWay(r) /\ "ResourceExhausted" \notin {"NotFound", "Unavailable"}
      BY <1>2
    <3>. HIDE DEF r
    <3>. QED BY <3>1, FailsSound
  <2>. HIDE DEF x
  <2>3. x.status = 500 => Unfit(x)
    BY <1>2, <1>5, <1>10, <2>2 DEF Unfit
  <2>. QED BY <1>6, <2>1, <2>2, <2>3
<1>9. CASE r.op # "POST" /\ r.val # NoValue /\ r.val # HugeValue
  <2>. DEFINE code == IF FullValue(r.val) = NoValue THEN 404 ELSE 200
              x == Answer(r, code)
  <2>1. Becomes(c, x)
    BY <1>9 DEF Reply
  <2>2. code \in Status /\ code \in {200, 404} /\ (code = 404 => r.val = EmptyValue)
    BY <1>9 DEF Status, FullValue
  <2>. HIDE DEF code
  <2>3. /\ x \in Request /\ x.pc = "answered" /\ x.op = r.op /\ x.known = r.known
        /\ x.key = r.key /\ x.val = r.val /\ x.held = r.held
        /\ x.status = IF r.status = 0 THEN code ELSE r.status
    BY <1>2, <2>2, AnswerEffect
  <2>. HIDE DEF x
  <2>4. x.status \notin {500, 503}
    BY <1>5, <2>2, <2>3
  <2>5. Sound(x, ownerOf)
    BY <1>2, <1>5, <1>9, <2>2, <2>3 DEF Sound, UnderWay
  <2>. QED BY <1>6, <2>1, <2>3, <2>4, <2>5
<1>. QED BY <1>7, <1>8, <1>9, <1>10

LEMMA RpcFailsStep ==
    ASSUME PathInv, NEW c \in Handler, RpcFails(c)
    PROVE  PathInv'
<1>. DEFINE r == request[c]
            n == Target(c)
            e == caller[c].entry
<1>1. r.pc \in {"rpc", "reply"} /\ Finish(c) /\ PeersUnchanged /\ store' = store
  BY DEF RpcFails
<1>2. /\ c \in Caller /\ r \in Request /\ Sound(r, ownerOf) /\ UnderWay(r) /\ n \in Node
      /\ n = ownerOf[r.key] /\ r.key \in Key /\ Excused(c)
  BY <1>1, RequestFacts DEF UnderWay, Target
<1>3. /\ store' \in [Key -> Stored] /\ ownerOf' = ownerOf /\ unsent' = unsent
      /\ reachable' \subseteq Node /\ backoff' \subseteq Node
      /\ reachable' = reachable /\ backoff' = backoff
  BY <1>1 DEF PathInv, Shape, PeersUnchanged
<1>4. /\ [Next]_vars /\ PoolInv' /\ connections' = connections /\ caller'[c] = Away
      /\ \A d \in Handler : d # c => caller'[d] = caller[d]
  BY <1>1, CallEffect
<1>5. PICK code : /\ Becomes(c, Fails(r, code))
                  /\ \/ code = "DeadlineExceeded"
                     \/ code = "Canceled" /\ conn[e] = "closed"
                     \/ code = "Unavailable" /\ (n \notin reachable \/ n \in backoff \/ connections[n] # e)
                     \/ code = "Internal" /\ r.key \in unsent
  BY DEF RpcFails, RpcErrors
<1>. DEFINE x == Fails(r, code)
<1>6. /\ Sound(x, ownerOf) /\ x.pc = "answered" /\ x.op = r.op /\ x.key = r.key
      /\ x.known = r.known /\ x.troubled = r.troubled /\ x.held = r.held
      /\ x.status \in {500, 503} => r.op = "GET" /\ r.known /\ code # "DeadlineExceeded"
      /\ x.status = 503 => code = "Unavailable"
  <2>1. code # "NotFound"
    BY <1>5
  <2>2. Sound(r, ownerOf) /\ UnderWay(r)
    BY <1>2
  <2>. HIDE DEF r
  <2>. QED BY <2>1, <2>2, FailsSound
<1>. HIDE DEF x
<1>7. ASSUME x.status \in {500, 503}, code # "Internal" PROVE r.troubled \/ n \in Unreachable
  <2>1. r.op = "GET" /\ r.known /\ code # "DeadlineExceeded"
    BY <1>6, <1>7
  <2>2. CASE n \notin reachable \/ n \in backoff
    BY <1>2, <1>3, <2>2 DEF Unreachable
  <2>3. CASE connections[n] # e
    BY <1>1, <1>2, <2>1, <2>3 DEF Excused
  <2>4. CASE conn[e] = "closed"
    <3>1. TypeOK /\ PooledConnectionsWork
      BY DEF PathInv, PoolInv
    <3>2. caller[c].pc # "idle" /\ e # NoEntry
      BY <1>1, <1>2, <3>1, EntryMade DEF Finish, TypeOK
    <3>3. connections[n] # e
      BY <1>2, <2>4, <3>1, <3>2 DEF PooledConnectionsWork, Current
    <3>. QED BY <2>3, <3>3
  <2>. QED BY <1>5, <1>7, <2>1, <2>2, <2>3, <2>4
<1>8. Becomes(c, x)
  BY <1>5 DEF x
<1>9. r.key = x.key /\ r.key \in Key /\ n = ownerOf[r.key] /\ n # Self
  BY <1>2, <1>6, RequestAssumption
<1>10. x.status \in {500, 503} /\ code # "Internal" => Blamed(x)
  <2>. HIDE DEF r, n
  <2>. QED BY <1>6, <1>7, <1>9 DEF Blamed
<1>11. x.status = 500 /\ code = "Internal" => Unfit(x)
  <2>1. code = "Internal" => r.key \in unsent
    BY <1>5
  <2>. HIDE DEF r, n
  <2>. QED BY <1>9, <2>1 DEF Unfit
<1>12. x.status = 503 => code # "Internal"
  BY <1>6
<1>. QED BY <1>3, <1>4, <1>6, <1>8, <1>10, <1>11, <1>12, OwnStep

-----------------------------------------------------------------------------
(* What goes on around the handlers.                                        *)

LEMMA AroundPoolStep ==
    ASSUME PathInv, UNCHANGED <<store, ownerOf, unsent, reachable>>, OthersGoOn,
           backoff' \subseteq Node, [Next]_vars, \A d \in Handler : caller'[d] = caller[d]
    PROVE  PathInv'
<1>1. store' = store /\ ownerOf' = ownerOf /\ unsent' = unsent /\ reachable' = reachable
  OBVIOUS
<1>2. store' \in [Key -> Stored] /\ reachable' \subseteq Node
  BY <1>1 DEF PathInv, Shape
<1>3. PoolInv'
  BY PoolInvStep DEF PathInv
<1>. QED BY <1>1, <1>2, <1>3, AroundStep

LEMMA OtherStep ==
    ASSUME PathInv, NEW c \in Caller \ Handler, OtherCalls(c) \/ OtherGoesOn(c)
    PROVE  PathInv' /\ [Next]_vars
<1>1. /\ Around /\ c \in Caller /\ \A d \in Handler : d # c /\ d \in Caller
      /\ GoOn(c) \/ \E n \in Node : GetConnection(c, n)
  BY RequestAssumption DEF OtherCalls, OtherGoesOn
<1>2. TypeOK
  BY DEF PathInv, PoolInv
<1>3. \A d \in Caller : d # c => caller'[d] = caller[d]
  <2>1. CASE \E pc : Goes(c, pc)
    BY <1>1, <1>2, <2>1, GoesEffect
  <2>2. CASE caller' = [caller EXCEPT ![c] = Away]
    BY <1>1, <1>2, <2>2, ReturnEffect
  <2>3. CASE \E n \in Node : GetConnection(c, n)
    BY <1>1, <1>2, <2>3, StartEffect
  <2>. QED BY <1>1, <2>1, <2>2, <2>3
          DEF GoOn, BeginDial, FailDial, EndDial, AwaitDial, Finish
<1>4. [Next]_vars
  BY <1>1 DEF Next
<1>5. UNCHANGED <<store, ownerOf, unsent, reachable>> /\ OthersGoOn /\ backoff' \subseteq Node
  BY <1>1 DEF Around, PeersUnchanged, PathInv, Shape
<1>. QED BY <1>1, <1>3, <1>4, <1>5, AroundPoolStep

LEMMA PoolChangesStep ==
    ASSUME PathInv, PoolChanges
    PROVE  PathInv' /\ [Next]_vars
<1>1. /\ UNCHANGED <<store, ownerOf, unsent, reachable>> /\ OthersGoOn /\ backoff' \subseteq Node
      /\ [Next]_vars
  BY DEF PoolChanges, Next, PathInv, Shape
<1>2. caller' = caller
  BY DEF PoolChanges, NotifyJoin, AddConnection, UpdateConnection, RemoveConnection, Close
<1>. QED BY <1>1, <1>2, AroundPoolStep

LEMMA PeersStep ==
    ASSUME PathInv,
           \/ \E k \in Key, v \in Value \cup {NoValue} : PeerStores(k, v)
           \/ \E n \in Node : LosePeer(n) \/ FindPeer(n) \/ BackOff(n) \/ TryAgain(n)
    PROVE  PathInv' /\ [Next]_vars
<1>1. store \in [Key -> Stored] /\ reachable \subseteq Node /\ backoff \subseteq Node /\ PoolInv
  BY DEF PathInv, Shape
<1>2. UNCHANGED vars /\ OthersGoOn /\ ownerOf' = ownerOf /\ unsent' = unsent
  BY DEF PeerStores, LosePeer, FindPeer, BackOff, TryAgain, PoolUnchanged, PeersUnchanged
<1>3. store' \in [Key -> Stored]
  BY <1>1 DEF PeerStores, LosePeer, FindPeer, BackOff, TryAgain, Stored
<1>4. reachable' \subseteq Node /\ backoff' \subseteq Node
  BY <1>1 DEF PeerStores, LosePeer, FindPeer, BackOff, TryAgain, PeersUnchanged
<1>5. PoolInv' /\ [Next]_vars
  BY <1>1, <1>2, PoolInvStep
<1>6. caller' = caller
  BY <1>2 DEF vars
<1>. QED BY <1>2, <1>3, <1>4, <1>5, <1>6, AroundStep

\* Every step of a handler is one of the pool's, or none for it.
LEMMA HandlerUsesPool ==
    ASSUME PathInv, NEW c \in Handler, Receive(c) \/ Handle(c)
    PROVE  [Next]_vars
<1>1. c \in Caller
  BY RequestFacts
<1>2. CASE UNCHANGED vars
  BY <1>2
<1>3. CASE BeginDial(c) \/ FailDial(c) \/ EndDial(c) \/ AwaitDial(c) \/ Finish(c)
  BY <1>3, CallEffect
<1>4. CASE GetClient(c)
  <2>1. request[c].pc = "connect" => Target(c) \in Node
    BY RequestFacts
  <2>2. UNCHANGED vars \/ GetConnection(c, Target(c))
    BY <1>4 DEF GetClient, PoolUnchanged
  <2>. QED BY <1>1, <1>4, <2>1, <2>2 DEF GetClient, Next
<1>5. CASE Receive(c)
  BY <1>2, <1>5 DEF Receive, Arrives, PoolUnchanged, HealthHandler, handleGet, handlePost,
                    handleDelete, FailToReadBody, MethodNotAllowed
<1>6. CASE Handle(c)
  BY <1>2, <1>3, <1>4, <1>6 DEF Handle, ReadLocal, writeValue, deleteValue, Local, Dial, Read,
                                Write, Serve, Reply, RpcFails, EndRequest, PoolUnchanged
<1>. QED BY <1>5, <1>6

LEMMA InitPathInv == PathInit => PathInv
<1>. SUFFICES ASSUME PathInit PROVE PathInv
  OBVIOUS
<1>1. PoolInv
  BY InitPoolInv DEF PathInit
<1>2. Shape
  BY NoRequestEffect DEF PathInit, Shape, Stored
<1>3. ASSUME NEW c \in Handler
      PROVE  Sound(request[c], ownerOf) /\ Watches(request[c], store) /\ Linked(c) /\ Excused(c)
  <2>1. request[c] = NoRequest
    BY DEF PathInit
  <2>2. c \in Caller /\ caller[c] = Away
    BY RequestAssumption DEF PathInit, Init
  <2>. QED BY <2>1, <2>2, NoRequestEffect DEF Sound, Watches, UnderWay, Linked, Excused
<1>. QED BY <1>1, <1>2, <1>3 DEF PathInv

LEMMA PathInvStep ==
    ASSUME PathInv, [PathNext]_pathVars
    PROVE  PathInv' /\ [Next]_vars
<1>1. ASSUME NEW c \in Handler, Receive(c) \/ Handle(c) PROVE PathInv' /\ [Next]_vars
  BY <1>1, ReceiveStep, LocalStep, GetClientStep, DialStep, ServeStep, ReplyStep, RpcFailsStep,
     EndRequestStep, HandlerUsesPool DEF Handle
<1>2. CASE UNCHANGED pathVars
  <2>1. UNCHANGED vars /\ request' = request /\ store' = store /\ ownerOf' = ownerOf
        /\ unsent' = unsent /\ reachable' = reachable /\ backoff' = backoff
    BY <1>2 DEF pathVars
  <2>2. PoolInv' /\ [Next]_vars
    BY <2>1, PoolInvStep DEF PathInv
  <2>3. connections' = connections /\ caller' = caller
    BY <2>1 DEF vars
  <2>. QED BY <2>1, <2>2, <2>3 DEF PathInv, Shape, Linked, Excused, Unfit, Target
<1>. QED BY <1>1, <1>2, OtherStep, PeersStep, PoolChangesStep DEF PathNext

-----------------------------------------------------------------------------
(* The results.                                                             *)

\* The invariant of the requests and of the pool that they use.
THEOREM PathInvariant == PathSpec => []PathInv
<1>1. PathInv /\ [PathNext]_pathVars => PathInv'
  BY PathInvStep
<1>. QED BY <1>1, InitPathInv, PTL DEF PathSpec

\* The requests (http_server/index.go) use the pool as GRPCPool says that its
\* callers do: every behaviour of the handlers is one of the pool.
THEOREM RequestsUseThePool == PathSpec => Spec
<1>1. PathInit => Init
  BY DEF PathInit
<1>2. PathInv /\ [PathNext]_pathVars => [Next]_vars
  BY PathInvStep
<1>. QED BY <1>1, <1>2, PathInvariant, PTL DEF PathSpec, Spec

\* So what is proved of the pool holds under the requests: its shape, one dial
\* per entry, connections that work, and none left open.
THEOREM PoolUnderRequests ==
    PathSpec => []DialsOnce /\ []PooledConnectionsWork /\ NoneLeftOpen
  BY RequestsUseThePool, OneDialPerEntry, ConnectionsWork, EntriesLeaveClosed, PTL

\* The state keeps its shape, and a request is where its goroutine is.
THEOREM PathTypeCorrect == PathSpec => []PathTypeOK
<1>1. PathInv => PathTypeOK
  BY DEF PathInv, PoolInv, Shape, Request, Stored, Linked, PathTypeOK
<1>. QED BY <1>1, PathInvariant, PTL

\* A GET (http_server/index.go 97-183) answered 200 got a value, and one answered
\* 404 an absence, that the key's owner had while the request was under way.
THEOREM GetsTellTheTruth == PathSpec => []GetTellsWhatOwnerHeld
<1>1. PathInv => GetTellsWhatOwnerHeld
  BY DEF PathInv, Sound, GetTellsWhatOwnerHeld
<1>. QED BY <1>1, PathInvariant, PTL

\* A GET answered 500 or 503 had a peer that could not be called at some time
\* meanwhile, or it is of a key or a value that no RPC can carry.
THEOREM FailuresAreCaused == PathSpec => []FailuresHaveACause
<1>1. PathInv => FailuresHaveACause
  BY DEF PathInv, Excused, FailuresHaveACause
<1>. QED BY <1>1, PathInvariant, PTL

\* What a client was refused is not carried out behind its back (45-74, 186-275).
THEOREM RefusalsAreKept == PathSpec => RefusedRequestsChangeNothing
<1>. DEFINE Kept == \A c \in Handler :
                        Handle(c) /\ store' # store =>
                            request[c].status = IF request[c].known THEN 202 ELSE 404
<1>1. PathInv /\ [PathNext]_pathVars => [Kept]_pathVars
  <2>. SUFFICES ASSUME PathInv, NEW c \in Handler, Handle(c), store' # store
                PROVE  request[c].status = IF request[c].known THEN 202 ELSE 404
    OBVIOUS
  <2>1. Sound(request[c], ownerOf)
    BY DEF PathInv
  <2>2. writeValue(c) \/ deleteValue(c) \/ Write(c)
    BY DEF Handle, ReadLocal, GetClient, Dial, Read, Reply, RpcFails, EndRequest
  <2>3. UnderWay(request[c]) /\ request[c].op # "GET"
    BY <2>2 DEF writeValue, deleteValue, Local, Write, Serve, UnderWay
  <2>. QED BY <2>1, <2>3 DEF Sound
<1>. QED BY <1>1, PathInvariant, PTL DEF PathSpec, RefusedRequestsChangeNothing

=============================================================================
