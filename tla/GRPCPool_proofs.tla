--------------------------- MODULE GRPCPool_proofs ---------------------------
(***************************************************************************)
(* Invariance proofs about the connection pool, for any number of names,   *)
(* goroutines and entries.                                                 *)
(***************************************************************************)
EXTENDS GRPCPool, FiniteSetTheorems, TLAPS

Dials(c, e) == caller[c].pc = "dial" /\ caller[c].entry = e

\* What TypeOK leaves out: who is away from home calls for a name of the pool.
NamesKnown == \A c \in Caller : caller[c].pc # "idle" => caller[c].node \in Node

\* An entry not made yet has not been dialled for.
Fresh == \A e \in EntryId : e > made => once[e] = "new" /\ conn[e] = "nil"

\* No entry has two names.
Distinct ==
    \A m, n \in Node : connections[m] = connections[n] /\ connections[m] # NoEntry => m = n

\* DialsOnce without cardinalities.
OneDials ==
    \A e \in EntryId :
        /\ once[e] = "running" => \E c \in Caller : Dials(c, e)
        /\ once[e] # "running" => \A c \in Caller : ~ Dials(c, e)
        /\ \A c, d \in Caller : Dials(c, e) /\ Dials(d, e) => c = d

DoneFirst == \A e \in EntryId : conn[e] # "nil" => once[e] = "done"

PoolInv ==
    TypeOK /\ NamesKnown /\ Fresh /\ Distinct /\ OneDials /\ DoneFirst /\ PooledConnectionsWork

-----------------------------------------------------------------------------
(* Facts about states that satisfy the invariant.                           *)

\* Everyone's entry has been made.
LEMMA EntryMade ==
    ASSUME TypeOK, NEW c \in Caller, caller[c].pc # "idle"
    PROVE  caller[c].entry \in EntryId /\ caller[c].entry \in 1 .. made
<1>1. caller[c] \in [pc : {"idle", "once", "dial", "using"}, node : Node \cup {""}, entry : 0 .. made]
  BY DEF TypeOK
<1>2. caller[c].entry \in 0 .. made
  BY <1>1
<1>3. caller[c].entry # 0 /\ made \in 0 .. MaxEntries
  BY DEF TypeOK, NoEntry
<1>. QED BY <1>2, <1>3, PoolAssumption DEF EntryId

\* So has the entry of a name.
LEMMA CurrentMade ==
    ASSUME TypeOK, NEW n \in Node, connections[n] # NoEntry
    PROVE  connections[n] \in EntryId /\ connections[n] \in 1 .. made /\ connections[n] \in Current
<1>1. connections[n] \in 0 .. made /\ made \in 0 .. MaxEntries
  BY DEF TypeOK
<1>2. connections[n] \in Current
  BY DEF Current
<1>. QED BY <1>1, <1>2, PoolAssumption DEF EntryId, NoEntry

\* The number of goroutines that dial for an entry is 1 or 0.
LEMMA OneDialsIsDialsOnce == OneDials /\ DoneFirst => DialsOnce
<1>. SUFFICES ASSUME OneDials, DoneFirst PROVE DialsOnce
  OBVIOUS
<1>1. ASSUME NEW e \in EntryId
      PROVE  Cardinality({c \in Caller : caller[c].pc = "dial" /\ caller[c].entry = e})
                = IF once[e] = "running" THEN 1 ELSE 0
  <2>. DEFINE D == {c \in Caller : caller[c].pc = "dial" /\ caller[c].entry = e}
  <2>1. CASE once[e] = "running"
    <3>1. PICK c \in Caller : Dials(c, e)
      BY <2>1 DEF OneDials
    <3>2. D = {c}
      BY <3>1 DEF OneDials, Dials
    <3>. QED BY <2>1, <3>2, FS_Singleton
  <2>2. CASE once[e] # "running"
    <3>1. D = {}
      BY <2>2 DEF OneDials, Dials
    <3>. QED BY <2>2, <3>1, FS_EmptySet
  <2>. QED BY <2>1, <2>2
<1>. QED BY <1>1 DEF DialsOnce, DoneFirst

-----------------------------------------------------------------------------
LEMMA InitPoolInv == Init => PoolInv
<1>. SUFFICES ASSUME Init PROVE PoolInv
  OBVIOUS
<1>1. made = 0 /\ 0 \in 0 .. MaxEntries
  BY PoolAssumption DEF Init
<1>2. Current = {}
  BY DEF Init, Current
<1>3. TypeOK
  <2>1. connections \in [Node -> 0 .. made]
    BY <1>1 DEF Init, NoEntry
  <2>2. once \in [EntryId -> {"new", "running", "done"}] /\ conn \in [EntryId -> {"nil", "open", "closed"}]
    BY DEF Init
  <2>3. Away \in [pc : {"idle", "once", "dial", "using"}, node : Node \cup {""}, entry : 0 .. made]
    BY <1>1 DEF Away, NoEntry
  <2>4. \A c \in Caller : caller[c].pc = "idle"
    BY DEF Init, Away
  <2>. QED BY <1>1, <2>1, <2>2, <2>3, <2>4 DEF TypeOK, Init
<1>4. \A c \in Caller : caller[c].pc = "idle"
  BY DEF Init, Away
<1>5. \A e \in EntryId : once[e] = "new" /\ conn[e] = "nil"
  BY DEF Init
<1>6. \A n \in Node : connections[n] = NoEntry
  BY DEF Init
<1>. QED BY <1>2, <1>3, <1>4, <1>5, <1>6
        DEF PoolInv, NamesKnown, Fresh, Distinct, OneDials, Dials, DoneFirst, PooledConnectionsWork

-----------------------------------------------------------------------------
(* What the parts of the actions do, value by value.                        *)

LEMMA RegisterEffect ==
    ASSUME TypeOK, NEW n \in Node, Register(n)
    PROVE  /\ made \in Nat /\ made' = made + 1 /\ made' \in EntryId
           /\ connections'[n] = made'
           /\ \A m \in Node : m # n => connections'[m] = connections[m]
           /\ \A m \in Node : connections[m] \in 0 .. made
<1>1. made \in 0 .. MaxEntries /\ made < MaxEntries /\ made' = made + 1
  BY DEF TypeOK, Register
<1>2. connections \in [Node -> 0 .. made]
  BY DEF TypeOK
<1>3. connections' = [connections EXCEPT ![n] = made + 1]
  BY DEF Register
<1>. QED BY <1>1, <1>2, <1>3, PoolAssumption DEF EntryId

LEMMA CloseEffect ==
    ASSUME NEW E, CloseConns(E), NEW e \in EntryId
    PROVE  conn'[e] = IF e \in E /\ conn[e] = "open" THEN "closed" ELSE conn[e]
  BY DEF CloseConns

LEMMA GoesEffect ==
    ASSUME TypeOK, NEW c \in Caller, NEW pc, Goes(c, pc)
    PROVE  /\ caller'[c].pc = pc
           /\ caller'[c].node = caller[c].node
           /\ caller'[c].entry = caller[c].entry
           /\ \A d \in Caller : d # c => caller'[d] = caller[d]
<1>1. caller \in [Caller -> [pc : {"idle", "once", "dial", "using"}, node : Node \cup {""}, entry : 0 .. made]]
  BY DEF TypeOK
<1>2. caller' = [caller EXCEPT ![c] = [caller[c] EXCEPT !.pc = pc]]
  BY <1>1 DEF Goes
<1>3. caller'[c] = [caller[c] EXCEPT !.pc = pc]
  BY <1>1, <1>2
<1>4. caller[c] \in [pc : {"idle", "once", "dial", "using"}, node : Node \cup {""}, entry : 0 .. made]
  BY <1>1
<1>. QED BY <1>1, <1>2, <1>3, <1>4

LEMMA ReturnEffect ==
    ASSUME TypeOK, NEW c \in Caller, caller' = [caller EXCEPT ![c] = Away]
    PROVE  caller'[c] = Away /\ caller'[c].pc = "idle" /\ \A d \in Caller : d # c => caller'[d] = caller[d]
  BY DEF TypeOK, Away

LEMMA EntriesEffect ==
    ASSUME TypeOK, NEW c \in Caller, BeginDial(c) \/ FailDial(c) \/ EndDial(c)
    PROVE  \A e \in EntryId : e # caller[c].entry => once'[e] = once[e] /\ conn'[e] = conn[e]
<1>1. once \in [EntryId -> {"new", "running", "done"}] /\ conn \in [EntryId -> {"nil", "open", "closed"}]
  BY DEF TypeOK
<1>2. \/ once' = [once EXCEPT ![caller[c].entry] = "running"]
      \/ once' = [once EXCEPT ![caller[c].entry] = "done"]
  BY DEF BeginDial, FailDial, EndDial
<1>3. conn' = conn \/ conn' = [conn EXCEPT ![caller[c].entry] = "open"]
  BY DEF BeginDial, FailDial, EndDial
<1>. QED BY <1>1, <1>2, <1>3

LEMMA StartEffect ==
    ASSUME TypeOK, NEW c \in Caller, NEW n \in Node, GetConnection(c, n)
    PROVE  /\ caller[c].pc = "idle" /\ connections[n] # NoEntry
           /\ caller'[c] = [pc |-> "once", node |-> n, entry |-> connections[n]]
           /\ caller'[c].pc = "once" /\ caller'[c].node = n
           /\ caller'[c].entry = connections[n]
           /\ \A d \in Caller : d # c => caller'[d] = caller[d]
<1>1. caller[c] = Away /\ connections[n] # NoEntry
  BY DEF GetConnection
<1>2. caller[c].pc = "idle"
  <2>1. Away.pc = "idle"
    BY DEF Away
  <2>. QED BY <1>1, <2>1
<1>. DEFINE r == [pc |-> "once", node |-> n, entry |-> connections[n]]
<1>3. r.pc = "once" /\ r.node = n /\ r.entry = connections[n]
  OBVIOUS
<1>4. caller \in [Caller -> [pc : {"idle", "once", "dial", "using"}, node : Node \cup {""}, entry : 0 .. made]]
  BY DEF TypeOK
<1>5. caller' = [caller EXCEPT ![c] = r]
  BY DEF GetConnection
<1>6. caller'[c] = r /\ \A d \in Caller : d # c => caller'[d] = caller[d]
  <2>. HIDE DEF r
  <2>. QED BY <1>4, <1>5
<1>. QED BY <1>1, <1>2, <1>3, <1>6

\* Who dials after a step of c: c has begun to,
LEMMA BeginDials ==
    ASSUME TypeOK, NEW c \in Caller, BeginDial(c)
    PROVE  /\ ~ \E e \in EntryId : Dials(c, e)
           /\ \A d \in Caller, e \in EntryId :
                  Dials(d, e)' <=> Dials(d, e) \/ (d = c /\ e = caller[c].entry)
<1>1. caller[c].pc = "once" /\ Goes(c, "dial")
  BY DEF BeginDial
<1>2. caller'[c].pc = "dial" /\ caller'[c].entry = caller[c].entry
  BY <1>1, GoesEffect
<1>3. \A d \in Caller : d # c => caller'[d] = caller[d]
  BY <1>1, GoesEffect
<1>. QED BY <1>1, <1>2, <1>3 DEF Dials

\* has ended to,
LEMMA EndDials ==
    ASSUME TypeOK, NEW c \in Caller, FailDial(c) \/ EndDial(c)
    PROVE  /\ Dials(c, caller[c].entry)
           /\ \A d \in Caller, e \in EntryId : Dials(d, e)' <=> Dials(d, e) /\ d # c
<1>1. caller[c].pc = "dial" /\ (Goes(c, "using") \/ caller' = [caller EXCEPT ![c] = Away])
  BY DEF FailDial, EndDial
<1>2. caller'[c].pc # "dial" /\ \A d \in Caller : d # c => caller'[d] = caller[d]
  <2>1. CASE Goes(c, "using")
    BY <2>1, GoesEffect
  <2>2. CASE caller' = [caller EXCEPT ![c] = Away]
    BY <2>2, ReturnEffect
  <2>. QED BY <1>1, <2>1, <2>2
<1>. QED BY <1>1, <1>2 DEF Dials

\* or has nothing to do with it.
LEMMA SameDials ==
    ASSUME TypeOK, NEW c \in Caller,
           AwaitDial(c) \/ Finish(c) \/ \E n \in Node : GetConnection(c, n)
    PROVE  \A d \in Caller, e \in EntryId : Dials(d, e)' <=> Dials(d, e)
<1>1. CASE AwaitDial(c)
  <2>1. caller[c].pc = "once" /\ (Goes(c, "using") \/ caller' = [caller EXCEPT ![c] = Away])
    BY <1>1 DEF AwaitDial
  <2>2. CASE Goes(c, "using")
    BY <2>1, <2>2, GoesEffect DEF Dials
  <2>3. CASE caller' = [caller EXCEPT ![c] = Away]
    BY <2>1, <2>3, ReturnEffect DEF Dials
  <2>. QED BY <2>1, <2>2, <2>3
<1>2. CASE Finish(c)
  <2>1. caller[c].pc = "using" /\ caller' = [caller EXCEPT ![c] = Away]
    BY <1>2 DEF Finish
  <2>. QED BY <2>1, ReturnEffect DEF Dials
<1>3. ASSUME NEW n \in Node, GetConnection(c, n)
      PROVE  \A d \in Caller, e \in EntryId : Dials(d, e)' <=> Dials(d, e)
  BY <1>3, StartEffect DEF Dials
<1>. QED BY <1>1, <1>2, <1>3

-----------------------------------------------------------------------------
(* The steps.                                                               *)

\* Callers call for names of the pool.
LEMMA NamesKnownStep ==
    ASSUME TypeOK, NamesKnown, [Next]_vars
    PROVE  NamesKnown'
<1>1. ASSUME NEW c \in Caller, GoOn(c) PROVE NamesKnown'
  <2>1. CASE \E pc : Goes(c, pc) /\ caller[c].pc # "idle"
    BY <2>1, GoesEffect DEF NamesKnown
  <2>2. CASE caller' = [caller EXCEPT ![c] = Away]
    BY <2>2, ReturnEffect DEF NamesKnown
  <2>. QED BY <1>1, <2>1, <2>2 DEF GoOn, BeginDial, FailDial, EndDial, AwaitDial, Finish
<1>2. ASSUME NEW c \in Caller, NEW n \in Node, GetConnection(c, n) PROVE NamesKnown'
  BY <1>2, StartEffect DEF NamesKnown
<1>3. CASE caller' = caller
  BY <1>3 DEF NamesKnown
<1>. QED BY <1>1, <1>2, <1>3
        DEF Next, vars, NotifyJoin, AddConnection, UpdateConnection, RemoveConnection, Close

\* A new entry has a number of its own.
LEMMA DistinctStep ==
    ASSUME TypeOK, Distinct, [Next]_vars
    PROVE  Distinct'
<1>1. ASSUME NEW n \in Node, Register(n) PROVE Distinct'
  BY <1>1, RegisterEffect DEF Distinct
<1>2. ASSUME NEW n \in Node, RemoveConnection(n) PROVE Distinct'
  BY <1>2 DEF Distinct, RemoveConnection, TypeOK
<1>3. CASE Close
  BY <1>3 DEF Distinct, Close
<1>4. CASE connections' = connections
  BY <1>4 DEF Distinct
<1>. QED BY <1>1, <1>2, <1>3, <1>4
        DEF Next, vars, NotifyJoin, AddConnection, UpdateConnection, GoOn, GetConnection, BeginDial, FailDial,
            EndDial, AwaitDial, Finish

\* What changes about the entries, made ones only.
LEMMA FreshStep ==
    ASSUME TypeOK, Fresh, [Next]_vars
    PROVE  Fresh'
<1>1. ASSUME NEW E, CloseConns(E), once' = once, made' = made PROVE Fresh'
  BY <1>1, CloseEffect DEF Fresh
<1>2. ASSUME NEW n \in Node, Register(n), once' = once,
             conn' = conn \/ CloseConns({connections[n]})
      PROVE  Fresh'
  <2>1. \A e \in EntryId : e > made' => e > made
    BY <1>2, RegisterEffect DEF EntryId
  <2>. QED BY <1>2, <2>1, CloseEffect DEF Fresh
<1>3. ASSUME NEW c \in Caller, caller[c].pc = "once" \/ caller[c].pc = "dial", made' = made,
             \A e \in EntryId : e # caller[c].entry => once'[e] = once[e] /\ conn'[e] = conn[e]
      PROVE  Fresh'
  <2>1. caller[c].pc # "idle"
    BY <1>3
  <2>2. caller[c].entry \in 1 .. made
    BY <2>1, EntryMade
  <2>3. made \in 0 .. MaxEntries
    BY DEF TypeOK
  <2>. QED BY <1>3, <2>2, <2>3, PoolAssumption DEF Fresh, EntryId
<1>4. CASE made' = made /\ once' = once /\ conn' = conn
  BY <1>4 DEF Fresh
<1>5. ASSUME NEW n \in Node, NotifyJoin(n) \/ UpdateConnection(n) PROVE Fresh'
  BY <1>2, <1>5 DEF NotifyJoin, AddConnection, UpdateConnection
<1>6. ASSUME NEW n \in Node, RemoveConnection(n) PROVE Fresh'
  BY <1>1, <1>6 DEF RemoveConnection
<1>7. CASE Close
  BY <1>1, <1>7 DEF Close
<1>8. ASSUME NEW c \in Caller, BeginDial(c) \/ FailDial(c) \/ EndDial(c) PROVE Fresh'
  <2>1. made' = made /\ (caller[c].pc = "once" \/ caller[c].pc = "dial")
    BY <1>8 DEF BeginDial, FailDial, EndDial
  <2>2. \A e \in EntryId : e # caller[c].entry => once'[e] = once[e] /\ conn'[e] = conn[e]
    BY <1>8, EntriesEffect
  <2>. QED BY <1>3, <2>1, <2>2
<1>9. ASSUME NEW c \in Caller, AwaitDial(c) \/ Finish(c) \/ \E n \in Node : GetConnection(c, n)
      PROVE  Fresh'
  BY <1>4, <1>9 DEF AwaitDial, Finish, GetConnection
<1>. QED BY <1>4, <1>5, <1>6, <1>7, <1>8, <1>9 DEF Next, GoOn, vars

\* Only who has begun dials, and ends the Once with the dial.
LEMMA OneDialsStep ==
    ASSUME TypeOK, OneDials, [Next]_vars
    PROVE  OneDials'
<1>1. CASE caller' = caller /\ once' = once
  BY <1>1 DEF OneDials, Dials
<1>2. ASSUME NEW c \in Caller, BeginDial(c) PROVE OneDials'
  <2>1. caller[c].entry \in EntryId /\ once[caller[c].entry] = "new"
    BY <1>2, EntryMade DEF BeginDial
  <2>2. once'[caller[c].entry] = "running"
    BY <1>2, <2>1 DEF BeginDial, TypeOK
  <2>3. \A e \in EntryId : e # caller[c].entry => once'[e] = once[e]
    BY <1>2, EntriesEffect
  <2>4. \A d \in Caller : ~ Dials(d, caller[c].entry)
    BY <2>1 DEF OneDials
  <2>5. \A d \in Caller, e \in EntryId :
            Dials(d, e)' <=> Dials(d, e) \/ (d = c /\ e = caller[c].entry)
    BY <1>2, BeginDials
  <2>. HIDE DEF Dials
  <2>. QED BY <2>1, <2>2, <2>3, <2>4, <2>5 DEF OneDials
<1>3. ASSUME NEW c \in Caller, FailDial(c) \/ EndDial(c) PROVE OneDials'
  <2>1. caller[c].entry \in EntryId
    BY <1>3, EntryMade DEF FailDial, EndDial
  <2>2. once'[caller[c].entry] = "done"
    BY <1>3, <2>1 DEF FailDial, EndDial, TypeOK
  <2>3. \A e \in EntryId : e # caller[c].entry => once'[e] = once[e]
    BY <1>3, EntriesEffect
  <2>4. Dials(c, caller[c].entry)
    BY <1>3, EndDials
  <2>5. \A d \in Caller, e \in EntryId : Dials(d, e)' <=> Dials(d, e) /\ d # c
    BY <1>3, EndDials
  <2>6. \A e \in EntryId : Dials(c, e) => e = caller[c].entry
    BY DEF Dials
  <2>. HIDE DEF Dials
  <2>. QED BY <2>1, <2>2, <2>3, <2>4, <2>5, <2>6 DEF OneDials
<1>4. ASSUME NEW c \in Caller, AwaitDial(c) \/ Finish(c) \/ \E n \in Node : GetConnection(c, n)
      PROVE  OneDials'
  <2>1. \A d \in Caller, e \in EntryId : Dials(d, e)' <=> Dials(d, e)
    BY <1>4, SameDials
  <2>2. once' = once
    BY <1>4 DEF AwaitDial, Finish, GetConnection
  <2>. HIDE DEF Dials
  <2>. QED BY <2>1, <2>2 DEF OneDials
<1>. QED BY <1>1, <1>2, <1>3, <1>4
        DEF Next, GoOn, vars, NotifyJoin, AddConnection, UpdateConnection, RemoveConnection, Close

\* A connection comes with the end of its entry's Once.
LEMMA DoneFirstStep ==
    ASSUME TypeOK, OneDials, DoneFirst, [Next]_vars
    PROVE  DoneFirst'
<1>1. ASSUME once' = once, \A e \in EntryId : conn[e] = "nil" => conn'[e] = "nil"
      PROVE  DoneFirst'
  BY <1>1 DEF DoneFirst
<1>2. ASSUME NEW E, CloseConns(E), once' = once PROVE DoneFirst'
  BY <1>1, <1>2, CloseEffect
<1>3. ASSUME NEW c \in Caller, BeginDial(c) PROVE DoneFirst'
  <2>1. caller[c].entry \in EntryId /\ once[caller[c].entry] = "new" /\ conn' = conn
    BY <1>3, EntryMade DEF BeginDial
  <2>2. conn[caller[c].entry] = "nil"
    BY <2>1 DEF DoneFirst
  <2>3. \A e \in EntryId : e # caller[c].entry => once'[e] = once[e]
    BY <1>3, EntriesEffect
  <2>. QED BY <2>1, <2>2, <2>3 DEF DoneFirst
<1>4. ASSUME NEW c \in Caller, FailDial(c) \/ EndDial(c) PROVE DoneFirst'
  <2>1. caller[c].entry \in EntryId
    BY <1>4, EntryMade DEF FailDial, EndDial
  <2>2. once'[caller[c].entry] = "done"
    BY <1>4, <2>1 DEF FailDial, EndDial, TypeOK
  <2>3. \A e \in EntryId : e # caller[c].entry => once'[e] = once[e] /\ conn'[e] = conn[e]
    BY <1>4, EntriesEffect
  <2>. QED BY <2>2, <2>3 DEF DoneFirst
<1>5. CASE conn' = conn /\ once' = once
  BY <1>1, <1>5
<1>6. ASSUME NEW n \in Node, UpdateConnection(n) \/ RemoveConnection(n) PROVE DoneFirst'
  BY <1>2, <1>6 DEF UpdateConnection, RemoveConnection
<1>7. CASE Close
  BY <1>2, <1>7 DEF Close
<1>. QED BY <1>3, <1>4, <1>5, <1>6, <1>7
        DEF Next, GoOn, vars, NotifyJoin, AddConnection, AwaitDial, Finish, GetConnection

\* Whatever closes a connection takes its entry out of the map.
LEMMA WorkStep ==
    ASSUME PoolInv, [Next]_vars
    PROVE  PooledConnectionsWork'
<1>. USE DEF PoolInv
\* An entry that is taken out of the map, its connection closed, under no name any more.
<1>1. ASSUME NEW n \in Node, CloseConns({connections[n]}), caller' = caller,
             connections'[n] # connections[n],
             \A m \in Node : m # n => connections'[m] = connections[m],
             connections'[n] # NoEntry => connections'[n] \in EntryId /\ connections'[n] > made
      PROVE  PooledConnectionsWork'
  <2>1. ASSUME NEW m \in Node, connections'[m] # NoEntry
        PROVE  conn'[connections'[m]] # "closed"
    <3>1. CASE m = n
      <4>1. conn[connections'[n]] = "nil"
        BY <1>1, <2>1, <3>1 DEF Fresh
      <4>. QED BY <1>1, <2>1, <3>1, <4>1, CloseEffect
    <3>2. CASE m # n
      <4>1. connections'[m] = connections[m] /\ connections[m] \in EntryId /\ connections[m] \in Current
        BY <1>1, <2>1, <3>2, CurrentMade
      <4>2. connections[m] # connections[n]
        BY <2>1, <3>2, <4>1 DEF Distinct
      <4>3. conn'[connections[m]] = conn[connections[m]]
        BY <1>1, <4>1, <4>2, CloseEffect
      <4>. QED BY <4>1, <4>3 DEF PooledConnectionsWork
    <3>. QED BY <3>1, <3>2
  <2>2. ASSUME NEW c \in Caller, caller'[c].pc = "using"
        PROVE  /\ conn'[caller'[c].entry] # "nil"
               /\ connections'[caller'[c].node] = caller'[c].entry => conn'[caller'[c].entry] = "open"
    <3>1. caller[c].pc # "idle" /\ caller'[c] = caller[c]
      BY <1>1, <2>2
    <3>2. caller[c].entry \in EntryId /\ caller[c].entry \in 1 .. made /\ caller[c].node \in Node
      BY <3>1, EntryMade DEF NamesKnown
    <3>3. conn[caller[c].entry] # "nil"
      BY <1>1, <2>2 DEF PooledConnectionsWork
    <3>4. conn'[caller[c].entry] # "nil"
      BY <1>1, <3>2, <3>3, CloseEffect
    <3>5. ASSUME connections'[caller[c].node] = caller[c].entry
          PROVE  conn'[caller[c].entry] = "open"
      <4>1. caller[c].node # n
        <5>1. made \in 0 .. MaxEntries
          BY DEF TypeOK
        <5>. QED BY <1>1, <3>2, <3>5, <5>1, PoolAssumption DEF NoEntry
      <4>2. connections[caller[c].node] = caller[c].entry
        BY <1>1, <3>2, <3>5, <4>1
      <4>3. conn[caller[c].entry] = "open"
        BY <1>1, <2>2, <4>2 DEF PooledConnectionsWork
      <4>4. caller[c].entry # connections[n]
        BY <3>2, <4>1, <4>2 DEF Distinct, NoEntry
      <4>. QED BY <1>1, <3>2, <4>3, <4>4, CloseEffect
    <3>. QED BY <3>1, <3>4, <3>5
  <2>. QED BY <2>1, <2>2 DEF PooledConnectionsWork, Current
<1>2. ASSUME NEW n \in Node, NotifyJoin(n) PROVE PooledConnectionsWork'
  <2>1. /\ Register(n) /\ conn' = conn /\ caller' = caller
    BY <1>2 DEF NotifyJoin, AddConnection
  <2>2. connections'[n] = made' /\ made' = made + 1 /\ made \in Nat /\ made' \in EntryId
    BY <2>1, RegisterEffect
  <2>3. \A m \in Node : m # n => connections'[m] = connections[m]
    BY <2>1, RegisterEffect
  <2>4. conn[made'] = "nil"
    BY <2>2 DEF Fresh
  <2>5. ASSUME NEW m \in Node, connections'[m] # NoEntry PROVE conn'[connections'[m]] # "closed"
    <3>1. CASE m = n
      BY <2>1, <2>2, <2>4, <3>1
    <3>2. CASE m # n
      BY <2>1, <2>3, <2>5, <3>2 DEF PooledConnectionsWork, Current
    <3>. QED BY <3>1, <3>2
  <2>6. ASSUME NEW c \in Caller, caller'[c].pc = "using",
               connections'[caller'[c].node] = caller'[c].entry
        PROVE  connections[caller[c].node] = caller[c].entry
    <3>1. caller[c].pc # "idle" /\ caller'[c] = caller[c]
      BY <2>1, <2>6
    <3>2. caller[c].entry \in 1 .. made /\ caller[c].node \in Node
      BY <3>1, EntryMade DEF NamesKnown
    <3>. QED BY <2>2, <2>3, <2>6, <3>1, <3>2
  <2>. QED BY <2>1, <2>5, <2>6 DEF PooledConnectionsWork, Current
<1>3. ASSUME NEW n \in Node, UpdateConnection(n) PROVE PooledConnectionsWork'
  <2>1. Register(n) /\ CloseConns({connections[n]}) /\ caller' = caller
    BY <1>3 DEF UpdateConnection
  <2>2. connections'[n] = made' /\ made' = made + 1 /\ made \in Nat /\ made' \in EntryId
    BY <2>1, RegisterEffect
  <2>3. (\A m \in Node : m # n => connections'[m] = connections[m]) /\ connections[n] \in 0 .. made
    BY <2>1, RegisterEffect
  <2>. QED BY <1>1, <2>1, <2>2, <2>3
<1>4. ASSUME NEW n \in Node, RemoveConnection(n) PROVE PooledConnectionsWork'
  <2>1. CloseConns({connections[n]}) /\ caller' = caller /\ connections[n] # NoEntry
    BY <1>4 DEF RemoveConnection
  <2>2. connections'[n] = NoEntry /\ \A m \in Node : m # n => connections'[m] = connections[m]
    BY <1>4 DEF RemoveConnection, TypeOK
  <2>. QED BY <1>1, <2>1, <2>2
<1>5. CASE Close
  <2>1. CloseConns(Current) /\ caller' = caller /\ \A n \in Node : connections'[n] = NoEntry
    BY <1>5 DEF Close
  <2>2. ASSUME NEW c \in Caller, caller'[c].pc = "using"
        PROVE  /\ conn'[caller'[c].entry] # "nil"
               /\ connections'[caller'[c].node] # caller'[c].entry
    <3>1. caller[c].pc # "idle" /\ caller'[c] = caller[c]
      BY <2>1, <2>2
    <3>2. caller[c].entry \in EntryId /\ caller[c].entry \in 1 .. made /\ caller[c].node \in Node
      BY <3>1, EntryMade DEF NamesKnown
    <3>3. conn[caller[c].entry] # "nil"
      BY <2>1, <2>2 DEF PooledConnectionsWork
    <3>4. conn'[caller[c].entry] # "nil"
      BY <2>1, <3>2, <3>3, CloseEffect
    <3>. QED BY <2>1, <3>1, <3>2, <3>4 DEF NoEntry
  <2>. QED BY <2>1, <2>2 DEF PooledConnectionsWork, Current
\* A goroutine that comes to use a connection has one, open if its entry is there.
<1>6. ASSUME NEW c \in Caller, connections' = connections,
             \A e \in EntryId : conn'[e] = conn[e] \/ conn'[e] = "open",
             \A d \in Caller : d # c => caller'[d] = caller[d],
             caller'[c].pc = "using" =>
                /\ caller'[c].entry = caller[c].entry /\ caller[c].pc # "idle"
                /\ caller'[c].node = caller[c].node
                /\ conn'[caller[c].entry] # "nil"
      PROVE  PooledConnectionsWork'
  <2>1. Current' = Current
    BY <1>6 DEF Current
  <2>2. \A e \in Current : e \in EntryId
    BY CurrentMade DEF Current
  <2>3. \A e \in Current : conn'[e] # "closed"
    BY <1>6, <2>2 DEF PooledConnectionsWork
  <2>4. ASSUME NEW d \in Caller, caller'[d].pc = "using"
        PROVE  /\ caller'[d].entry = caller[d].entry /\ caller'[d].node = caller[d].node
               /\ caller[d].pc # "idle"
               /\ conn'[caller[d].entry] # "nil"
    <3>1. CASE d = c
      BY <1>6, <2>4, <3>1
    <3>2. CASE d # c
      <4>1. caller'[d] = caller[d] /\ caller[d].pc = "using"
        BY <1>6, <2>4, <3>2
      <4>2. caller[d].entry \in EntryId
        <5>1. caller[d].pc # "idle"
          BY <4>1
        <5>. QED BY <5>1, EntryMade
      <4>. QED BY <1>6, <4>1, <4>2 DEF PooledConnectionsWork
    <3>. QED BY <3>1, <3>2
  <2>5. ASSUME NEW d \in Caller, caller'[d].pc = "using",
               connections'[caller'[d].node] = caller'[d].entry
        PROVE  conn'[caller'[d].entry] = "open"
    <3>1. caller[d].entry \in EntryId /\ caller[d].entry # NoEntry /\ caller[d].node \in Node
      BY <2>4, <2>5, EntryMade DEF NamesKnown, TypeOK
    <3>2. caller[d].entry \in Current
      BY <1>6, <2>4, <2>5, <3>1 DEF Current
    <3>3. conn[caller[d].entry] \in {"nil", "open", "closed"}
      BY <3>1 DEF TypeOK
    <3>. QED BY <1>6, <2>3, <2>4, <2>5, <3>1, <3>2, <3>3
  <2>. QED BY <2>1, <2>3, <2>4, <2>5 DEF PooledConnectionsWork
<1>7. ASSUME NEW c \in Caller, BeginDial(c) \/ FailDial(c) \/ Finish(c)
                               \/ \E n \in Node : GetConnection(c, n)
      PROVE  PooledConnectionsWork'
  <2>1. connections' = connections /\ conn' = conn
    BY <1>7 DEF BeginDial, FailDial, Finish, GetConnection
  <2>2. caller'[c].pc # "using" /\ \A d \in Caller : d # c => caller'[d] = caller[d]
    <3>1. CASE BeginDial(c)
      BY <3>1, GoesEffect DEF BeginDial
    <3>2. CASE FailDial(c) \/ Finish(c)
      BY <3>2, ReturnEffect DEF FailDial, Finish
    <3>3. CASE \E n \in Node : GetConnection(c, n)
      BY <3>3, StartEffect
    <3>. QED BY <1>7, <3>1, <3>2, <3>3
  <2>. QED BY <1>6, <2>1, <2>2
<1>8. ASSUME NEW c \in Caller, EndDial(c) PROVE PooledConnectionsWork'
  <2>1. connections' = connections /\ caller[c].pc = "dial" /\ Goes(c, "using")
    BY <1>8 DEF EndDial
  <2>2. caller[c].entry \in EntryId
    BY <2>1, EntryMade
  <2>3. conn'[caller[c].entry] = "open" /\ \A e \in EntryId : conn'[e] = conn[e] \/ conn'[e] = "open"
    BY <1>8, <2>2 DEF EndDial, TypeOK
  <2>. QED BY <1>6, <2>1, <2>3, GoesEffect
<1>9. ASSUME NEW c \in Caller, AwaitDial(c) PROVE PooledConnectionsWork'
  <2>1. connections' = connections /\ conn' = conn /\ caller[c].pc = "once"
    BY <1>9 DEF AwaitDial
  <2>2. CASE caller' = [caller EXCEPT ![c] = Away]
    BY <1>6, <2>1, <2>2, ReturnEffect
  <2>3. CASE conn[caller[c].entry] # "nil" /\ Goes(c, "using")
    BY <1>6, <2>1, <2>3, GoesEffect
  <2>. QED BY <1>9, <2>2, <2>3 DEF AwaitDial
<1>10. CASE UNCHANGED vars
  BY <1>10 DEF vars, PooledConnectionsWork, Current
<1>. QED BY <1>2, <1>3, <1>4, <1>5, <1>7, <1>8, <1>9, <1>10 DEF Next, GoOn

-----------------------------------------------------------------------------
(* The shape of the state.                                                  *)

Call(k) == [pc : {"idle", "once", "dial", "using"}, node : Node \cup {""}, entry : 0 .. k]

LEMMA ConnectionsType ==
    ASSUME TypeOK, [Next]_vars
    PROVE  /\ made \in Nat /\ made' \in 0 .. MaxEntries /\ made <= made'
           /\ connections' \in [Node -> 0 .. made']
<1>1. made \in 0 .. MaxEntries /\ connections \in [Node -> 0 .. made]
  BY DEF TypeOK
<1>2. ASSUME NEW n \in Node, Register(n)
      PROVE  made' \in 0 .. MaxEntries /\ made <= made' /\ connections' \in [Node -> 0 .. made']
  <2>1. made < MaxEntries /\ made' = made + 1 /\ connections' = [connections EXCEPT ![n] = made + 1]
    BY <1>2 DEF Register
  <2>2. made' \in 0 .. MaxEntries /\ made <= made' /\ made + 1 \in 0 .. made'
    BY <1>1, <2>1, PoolAssumption
  <2>3. connections \in [Node -> 0 .. made']
    BY <1>1, <2>1, PoolAssumption
  <2>. QED BY <2>1, <2>2, <2>3
<1>3. CASE made' = made /\ connections' \in [Node -> 0 .. made]
  BY <1>1, <1>3, PoolAssumption
<1>4. ASSUME NEW n \in Node, RemoveConnection(n) PROVE made' = made /\ connections' \in [Node -> 0 .. made]
  <2>1. NoEntry \in 0 .. made
    BY <1>1, PoolAssumption DEF NoEntry
  <2>. QED BY <1>1, <1>4, <2>1 DEF RemoveConnection
<1>5. ASSUME Close PROVE made' = made /\ connections' \in [Node -> 0 .. made]
  <2>1. NoEntry \in 0 .. made
    BY <1>1, PoolAssumption DEF NoEntry
  <2>. QED BY <1>5, <2>1 DEF Close
<1>6. CASE made' = made /\ connections' = connections
  BY <1>1, <1>3, <1>6
<1>7. made \in Nat
  BY <1>1, PoolAssumption
<1>. QED BY <1>2, <1>3, <1>4, <1>5, <1>6, <1>7
        DEF Next, vars, NotifyJoin, AddConnection, UpdateConnection, GoOn, GetConnection, BeginDial, FailDial,
            EndDial, AwaitDial, Finish

LEMMA EntriesType ==
    ASSUME TypeOK, [Next]_vars
    PROVE  /\ once' \in [EntryId -> {"new", "running", "done"}]
           /\ conn' \in [EntryId -> {"nil", "open", "closed"}]
<1>1. /\ once \in [EntryId -> {"new", "running", "done"}]
      /\ conn \in [EntryId -> {"nil", "open", "closed"}]
  BY DEF TypeOK
<1>2. ASSUME NEW E, CloseConns(E) PROVE conn' \in [EntryId -> {"nil", "open", "closed"}]
  BY <1>1, <1>2 DEF CloseConns
<1>3. ASSUME NEW n \in Node, NotifyJoin(n) \/ UpdateConnection(n) \/ RemoveConnection(n)
      PROVE  /\ once' = once
             /\ conn' = conn \/ CloseConns({connections[n]})
  BY <1>3 DEF NotifyJoin, AddConnection, UpdateConnection, RemoveConnection
<1>4. ASSUME Close PROVE once' = once /\ CloseConns(Current)
  BY <1>4 DEF Close
<1>5. ASSUME NEW c \in Caller, BeginDial(c) \/ FailDial(c) \/ EndDial(c)
      PROVE  /\ once' \in [EntryId -> {"new", "running", "done"}]
             /\ conn' \in [EntryId -> {"nil", "open", "closed"}]
  BY <1>1, <1>5 DEF BeginDial, FailDial, EndDial
<1>6. ASSUME NEW c \in Caller, AwaitDial(c) \/ Finish(c) \/ \E n \in Node : GetConnection(c, n)
      PROVE  once' = once /\ conn' = conn
  BY <1>6 DEF AwaitDial, Finish, GetConnection
<1>. QED BY <1>1, <1>2, <1>3, <1>4, <1>5, <1>6 DEF Next, GoOn, vars

\* One goroutine's call at a time.
LEMMA CallersType ==
    ASSUME TypeOK, [Next]_vars
    PROVE  /\ caller' \in [Caller -> Call(made')]
           /\ \A c \in Caller : caller'[c].pc # "idle" => caller'[c].entry # NoEntry
<1>1. /\ caller \in [Caller -> Call(made)]
      /\ \A c \in Caller : caller[c].pc # "idle" => caller[c].entry # NoEntry
  BY DEF TypeOK, Call
<1>2. made \in Nat /\ made' \in Nat /\ made <= made'
  BY ConnectionsType, PoolAssumption
<1>3. ASSUME NEW r \in Call(made) PROVE r \in Call(made')
  <2>1. 0 .. made \subseteq 0 .. made'
    BY <1>2
  <2>. QED BY <2>1 DEF Call
<1>4. Away \in Call(made) /\ Away.pc = "idle"
  BY <1>2 DEF Away, Call, NoEntry
\* The call of c becomes r.
<1>5. ASSUME NEW c \in Caller, NEW r \in Call(made), caller' = [caller EXCEPT ![c] = r],
             r.pc # "idle" => r.entry # NoEntry
      PROVE  /\ caller' \in [Caller -> Call(made')]
             /\ \A d \in Caller : caller'[d].pc # "idle" => caller'[d].entry # NoEntry
  BY <1>1, <1>3, <1>5
<1>6. ASSUME NEW c \in Caller, NEW pc \in {"once", "dial", "using"}, caller[c].pc # "idle", Goes(c, pc)
      PROVE  /\ caller' \in [Caller -> Call(made')]
             /\ \A d \in Caller : caller'[d].pc # "idle" => caller'[d].entry # NoEntry
  <2>. DEFINE r == [caller[c] EXCEPT !.pc = pc]
  <2>1. caller[c] \in Call(made) /\ caller[c].entry # NoEntry
    BY <1>1, <1>6
  <2>2. r \in Call(made) /\ r.entry # NoEntry
    BY <2>1 DEF Call
  <2>3. caller' = [caller EXCEPT ![c] = r]
    BY <1>1, <1>6 DEF Goes
  <2>. HIDE DEF r
  <2>. QED BY <1>5, <2>2, <2>3
<1>7. ASSUME NEW c \in Caller, GoOn(c)
      PROVE  \/ \E pc \in {"once", "dial", "using"} : caller[c].pc # "idle" /\ Goes(c, pc)
             \/ caller' = [caller EXCEPT ![c] = Away]
  BY <1>7 DEF GoOn, BeginDial, FailDial, EndDial, AwaitDial, Finish
<1>8. ASSUME NEW c \in Caller, NEW n \in Node, GetConnection(c, n)
      PROVE  \E r \in Call(made) : caller' = [caller EXCEPT ![c] = r] /\ r.entry # NoEntry
  <2>. DEFINE r == [pc |-> "once", node |-> n, entry |-> connections[n]]
  <2>1. connections[n] \in 0 .. made /\ connections[n] # NoEntry
    BY <1>8 DEF GetConnection, TypeOK
  <2>2. r \in Call(made) /\ r.entry # NoEntry
    BY <2>1 DEF Call
  <2>3. caller' = [caller EXCEPT ![c] = r]
    BY <1>8 DEF GetConnection
  <2>. HIDE DEF r
  <2>. QED BY <2>2, <2>3
<1>9. CASE caller' = caller
  BY <1>1, <1>3, <1>9
<1>10. ASSUME NEW c \in Caller, caller' = [caller EXCEPT ![c] = Away]
       PROVE  /\ caller' \in [Caller -> Call(made')]
              /\ \A d \in Caller : caller'[d].pc # "idle" => caller'[d].entry # NoEntry
  BY <1>4, <1>5, <1>10
<1>. QED BY <1>5, <1>6, <1>7, <1>8, <1>9, <1>10
        DEF Next, vars, NotifyJoin, AddConnection, UpdateConnection, RemoveConnection, Close

LEMMA TypeOKStep ==
    ASSUME TypeOK, [Next]_vars
    PROVE  TypeOK'
  BY ConnectionsType, EntriesType, CallersType DEF TypeOK, Call

LEMMA PoolInvStep ==
    ASSUME PoolInv, [Next]_vars
    PROVE  PoolInv'
<1>1. TypeOK /\ NamesKnown /\ Fresh /\ Distinct /\ OneDials /\ DoneFirst
  BY DEF PoolInv
<1>. QED BY <1>1, TypeOKStep, NamesKnownStep, FreshStep, DistinctStep, OneDialsStep,
            DoneFirstStep, WorkStep DEF PoolInv

-----------------------------------------------------------------------------
(* The results.                                                             *)

\* The pool's invariant: the state has its shape, the entries in the map are
\* distinct, and each is dialled for by one goroutine at a time and once.
THEOREM PoolInvariant == Spec => []PoolInv
<1>1. PoolInv /\ [Next]_vars => PoolInv'
  BY PoolInvStep
<1>. QED BY <1>1, InitPoolInv, PTL DEF Spec

\* The state keeps its shape.
THEOREM PoolTypeCorrect == Spec => []TypeOK
<1>1. PoolInv => TypeOK
  BY DEF PoolInv
<1>. QED BY <1>1, PoolInvariant, PTL

\* GetConnection (grpc_pool.go 68-108) dials for an entry at most once, in one
\* goroutine, however many goroutines ask for it at the same time.
THEOREM OneDialPerEntry == Spec => []DialsOnce
<1>1. PoolInv => DialsOnce
  BY OneDialsIsDialsOnce DEF PoolInv
<1>. QED BY <1>1, PoolInvariant, PTL

\* No name of the pool leads to a closed connection, and the connection
\* somebody uses is open as long as its entry is in the map.
THEOREM ConnectionsWork == Spec => []PooledConnectionsWork
<1>1. PoolInv => PooledConnectionsWork
  BY DEF PoolInv
<1>. QED BY <1>1, PoolInvariant, PTL

\* RemoveConnection, UpdateConnection and Close (grpc_pool.go 111-189) leave no
\* connection open whose entry they take out of the map.
THEOREM EntriesLeaveClosed == Spec => NoneLeftOpen
<1>. DEFINE Left == \A e \in Current : e \notin Current' => conn'[e] # "open"
<1>1. PoolInv /\ [Next]_vars => [Left]_vars
  <2>. SUFFICES ASSUME PoolInv, Next, NEW e \in Current, e \notin Current'
                PROVE  conn'[e] # "open"
    OBVIOUS
  <2>1. TypeOK
    BY DEF PoolInv
  <2>2. PICK m \in Node : connections[m] = e /\ e # NoEntry
    BY DEF Current
  <2>3. e \in EntryId /\ connections'[m] # e
    BY <2>1, <2>2, CurrentMade DEF Current
  <2>4. ASSUME NEW E, CloseConns(E), e \in E PROVE conn'[e] # "open"
    BY <2>3, <2>4, CloseEffect
  <2>5. CASE Close
    BY <2>4, <2>5 DEF Close
  <2>6. ASSUME NEW n \in Node, NotifyJoin(n) PROVE FALSE
    BY <2>1, <2>2, <2>3, <2>6, RegisterEffect DEF NotifyJoin, AddConnection
  <2>7. ASSUME NEW n \in Node, UpdateConnection(n) PROVE conn'[e] # "open"
    <3>1. m = n
      BY <2>1, <2>2, <2>3, <2>7, RegisterEffect DEF UpdateConnection
    <3>. QED BY <2>2, <2>4, <2>7, <3>1 DEF UpdateConnection
  <2>8. ASSUME NEW n \in Node, RemoveConnection(n) PROVE conn'[e] # "open"
    <3>1. m = n
      BY <2>1, <2>2, <2>3, <2>8 DEF RemoveConnection, TypeOK
    <3>. QED BY <2>2, <2>4, <2>8, <3>1 DEF RemoveConnection
  <2>9. ASSUME NEW c \in Caller, GoOn(c) \/ \E n \in Node : GetConnection(c, n) PROVE FALSE
    BY <2>2, <2>3, <2>9 DEF GoOn, BeginDial, FailDial, EndDial, AwaitDial, Finish, GetConnection
  <2>. QED BY <2>5, <2>6, <2>7, <2>8, <2>9 DEF Next
<1>. QED BY <1>1, PoolInvariant, PTL DEF Spec, NoneLeftOpen

=============================================================================
