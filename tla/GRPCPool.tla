------------------------------ MODULE GRPCPool ------------------------------
(***************************************************************************)
(* cluster/grpc_pool.go: the map from node names to entries, and the lazy  *)
(* connections behind them. What holds the RWMutex is one step. But        *)
(* GetConnection gives the mutex back once it has the entry, dials in the  *)
(* entry's sync.Once, and reads the entry's conn: the entry may have left  *)
(* the map, and its connection been closed, in between.                    *)
(*                                                                         *)
(* An entry is made by AddConnection or UpdateConnection and numbered.     *)
(* Addresses are left out but for whether grpc.NewClient accepts them.     *)
(***************************************************************************)
EXTENDS Integers, FiniteSets

CONSTANTS
    Node,
    Caller,         \* the goroutines that use the pool
    MaxEntries      \* bound: AddConnections and UpdateConnections

ASSUME PoolAssumption == MaxEntries \in Nat

NoEntry == 0

VARIABLES
    connections,    \* p.connections: the entry of each name, or NoEntry
    made,           \* the number of entries made so far
    once,           \* per entry, the state of its sync.Once
    conn,           \* per entry, its conn, and what became of that connection
    caller          \* per goroutine, its GetConnection: [pc, node, entry]

vars == <<connections, made, once, conn, caller>>

EntryId == 1 .. MaxEntries
Current == {connections[n] : n \in Node} \ {NoEntry}
Away == [pc |-> "idle", node |-> "", entry |-> NoEntry]

\* entry.conn.Close(), for entries whose conn is not nil.
CloseConns(E) ==
    conn' = [e \in EntryId |-> IF e \in E /\ conn[e] = "open" THEN "closed" ELSE conn[e]]

\* A new entry for n. Its connection is dialled later.
Register(n) ==
    /\ made < MaxEntries
    /\ made' = made + 1
    /\ connections' = [connections EXCEPT ![n] = made + 1]

-----------------------------------------------------------------------------
Init ==
    /\ connections = [n \in Node |-> NoEntry]
    /\ made = 0
    /\ once = [e \in EntryId |-> "new"]
    /\ conn = [e \in EntryId |-> "nil"]
    /\ caller = [c \in Caller |-> Away]

\* An entry that is there is replaced, its connection left as it is.
AddConnection(n) ==
    /\ Register(n)
    /\ UNCHANGED <<once, conn, caller>>

\* The only caller of AddConnection. It has put the name on the ring before, and
\* AddNode ends the process for a name that is there; a name with an entry is
\* there (PoolTracksRing of the module Cluster).
NotifyJoin(n) ==
    /\ connections[n] = NoEntry
    /\ AddConnection(n)

\* Mutant: the old connection stays open.
UpdateConnectionUnclosed(n) ==
    /\ connections[n] # NoEntry
    /\ Register(n)
    /\ UNCHANGED <<once, conn, caller>>

UpdateConnection(n) ==
    /\ connections[n] # NoEntry
    /\ Register(n)
    /\ CloseConns({connections[n]})
    /\ UNCHANGED <<once, caller>>

\* Mutant: the entry stays in the map.
RemoveConnectionKept(n) ==
    /\ connections[n] # NoEntry
    /\ CloseConns({connections[n]})
    /\ UNCHANGED <<connections, made, once, caller>>

RemoveConnection(n) ==
    /\ connections[n] # NoEntry
    /\ CloseConns({connections[n]})
    /\ connections' = [connections EXCEPT ![n] = NoEntry]
    /\ UNCHANGED <<made, once, caller>>

\* At the end of Manager.Leave. Callbacks and requests may still come.
Close ==
    /\ CloseConns(Current)
    /\ connections' = [n \in Node |-> NoEntry]
    /\ UNCHANGED <<made, once, caller>>

-----------------------------------------------------------------------------
\* Mutant: a name without an entry is looked up all the same.
GetConnectionUnchecked(c, n) ==
    /\ caller[c] = Away
    /\ caller' = [caller EXCEPT ![c] = [pc |-> "once", node |-> n, entry |-> connections[n]]]
    /\ UNCHANGED <<connections, made, once, conn>>

\* GetConnection under the read lock. A name without an entry is an error.
GetConnection(c, n) ==
    /\ caller[c] = Away
    /\ connections[n] # NoEntry
    /\ caller' = [caller EXCEPT ![c] = [pc |-> "once", node |-> n, entry |-> connections[n]]]
    /\ UNCHANGED <<connections, made, once, conn>>

Goes(c, pc) == caller' = [caller EXCEPT ![c].pc = pc]

\* Mutant: nothing keeps a second caller from dialling.
BeginDialUnguarded(c) ==
    /\ caller[c].pc = "once"
    /\ once[caller[c].entry] \in {"new", "running"}
    /\ once' = [once EXCEPT ![caller[c].entry] = "running"]
    /\ Goes(c, "dial")
    /\ UNCHANGED <<connections, made, conn>>

\* once.Do: the first caller runs the function.
BeginDial(c) ==
    /\ caller[c].pc = "once"
    /\ once[caller[c].entry] = "new"
    /\ once' = [once EXCEPT ![caller[c].entry] = "running"]
    /\ Goes(c, "dial")
    /\ UNCHANGED <<connections, made, conn>>

\* Mutant: after an error the Once is never finished.
FailDialForever(c) ==
    /\ caller[c].pc = "dial"
    /\ caller' = [caller EXCEPT ![c] = Away]
    /\ UNCHANGED <<connections, made, once, conn>>

\* grpc.NewClient rejects the address. The Once is done for good: the entry
\* has no connection until the name is added or updated again.
FailDial(c) ==
    /\ caller[c].pc = "dial"
    /\ once' = [once EXCEPT ![caller[c].entry] = "done"]
    /\ caller' = [caller EXCEPT ![c] = Away]
    /\ UNCHANGED <<connections, made, conn>>

EndDial(c) ==
    /\ caller[c].pc = "dial"
    /\ once' = [once EXCEPT ![caller[c].entry] = "done"]
    /\ conn' = [conn EXCEPT ![caller[c].entry] = "open"]
    /\ Goes(c, "using")
    /\ UNCHANGED <<connections, made>>

\* Mutant: a dial that runs is not waited for.
AwaitDialEarly(c) ==
    /\ caller[c].pc = "once"
    /\ once[caller[c].entry] # "new"
    /\ IF conn[caller[c].entry] = "nil" THEN caller' = [caller EXCEPT ![c] = Away]
                                        ELSE Goes(c, "using")
    /\ UNCHANGED <<connections, made, once, conn>>

\* once.Do: everyone else waits for the first to end. No connection then is an
\* error.
AwaitDial(c) ==
    /\ caller[c].pc = "once"
    /\ once[caller[c].entry] = "done"
    /\ IF conn[caller[c].entry] = "nil" THEN caller' = [caller EXCEPT ![c] = Away]
                                        ELSE Goes(c, "using")
    /\ UNCHANGED <<connections, made, once, conn>>

\* The RPC has returned.
Finish(c) ==
    /\ caller[c].pc = "using"
    /\ caller' = [caller EXCEPT ![c] = Away]
    /\ UNCHANGED <<connections, made, once, conn>>

-----------------------------------------------------------------------------
GoOn(c) == BeginDial(c) \/ FailDial(c) \/ EndDial(c) \/ AwaitDial(c) \/ Finish(c)

Next ==
    \/ \E n \in Node : NotifyJoin(n) \/ UpdateConnection(n) \/ RemoveConnection(n)
    \/ Close
    \/ \E c \in Caller : GoOn(c) \/ \E n \in Node : GetConnection(c, n)

Spec == Init /\ [][Next]_vars

-----------------------------------------------------------------------------
\* The shape of the state.
TypeOK ==
    /\ connections \in [Node -> 0 .. made]
    /\ made \in 0 .. MaxEntries
    /\ once \in [EntryId -> {"new", "running", "done"}]
    /\ conn \in [EntryId -> {"nil", "open", "closed"}]
    /\ caller \in [Caller -> [pc : {"idle", "once", "dial", "using"},
                              node : Node \cup {""}, entry : 0 .. made]]
    /\ \A c \in Caller : caller[c].pc # "idle" => caller[c].entry # NoEntry

\* One goroutine dials for an entry, while and only while its Once runs, and
\* an entry is dialled at most once: "connection is created exactly once"
\* (grpc_pool.go 76), whatever Remove, Update and Close do meanwhile.
DialsOnce ==
    /\ \A e \in EntryId :
        LET dialling == {c \in Caller : caller[c].pc = "dial" /\ caller[c].entry = e}
        IN  Cardinality(dialling) = IF once[e] = "running" THEN 1 ELSE 0
    /\ \A e \in EntryId : conn[e] # "nil" => once[e] = "done"

\* No name leads to a closed connection, and what GetConnection has returned
\* is a connection, open as long as its entry stays in the map (grpc_pool.go
\* 68-108, 122-137, 157-168): a goroutine fails only when its peer has left.
PooledConnectionsWork ==
    /\ \A e \in Current : conn[e] # "closed"
    /\ \A c \in Caller : caller[c].pc = "using" =>
            LET e == caller[c].entry
            IN  conn[e] # "nil" /\ (connections[caller[c].node] = e => conn[e] = "open")

\* An entry never leaves the map with an open connection: "Close closes all
\* gRPC connections in the pool" (grpc_pool.go 177), RemoveConnection (146) and
\* UpdateConnection (111) that of their node. So the connections that nobody
\* can close any more are those of dials that end after their entry has left.
NoneLeftOpen ==
    [][\A e \in Current : e \notin Current' => conn'[e] # "open"]_vars
=============================================================================
