------------------------------ MODULE Startup ------------------------------
(***************************************************************************)
(* How a process starts: the configuration from flags, environment and     *)
(* defaults (config/index.go), the phases of main (main.go), the manager   *)
(* and the metadata it announces (cluster/membership.go, node_meta.go,     *)
(* delegate.go), and the address at which a peer then calls the process    *)
(* (cluster/event_handler.go). The processes share one host, its address   *)
(* and its ports: the hard case, and that of start-cluster.sh.             *)
(*                                                                         *)
(* The steps of a process interleave with those of the others: between     *)
(* memberlist.Create and the listeners it is known, and not yet served. A  *)
(* process ends at the first error, log.Fatal, or at any time from outside,*)
(* and may be started again under its name with other settings before its  *)
(* peers have noticed. Values are numbers and names; texts are left out    *)
(* but for those that cannot be parsed.                                    *)
(***************************************************************************)
EXTENDS Integers, FiniteSets

CONSTANTS
    Proc,
    Input,          \* per process, what it may be started with: see InputType
    Again,          \* and what it may be started with again, but for its name
    MaxStarts,      \* bound: how often a process is started
    Default,        \* the default of each setting
    Word,           \* 2^32
    MaxPort,        \* 65535
    AddressLength,  \* of "host:port", in bytes
    MetaMaxSize,    \* memberlist's limit on metadata
    Malformed,      \* a text that is no number, or none of the names allowed
    Unset,          \* a variable that is not in the environment, or empty
    Rejected        \* a setting that Load returns an error for

Setting == {"HTTP_PORT", "GRPC_PORT", "CLUSTER_PORT", "STORAGE_SIZE", "EVICTION_ALGORITHM",
            "LOG_LEVEL"}
Uint32 == {"HTTP_PORT", "GRPC_PORT"}
Named == {"EVICTION_ALGORITHM", "LOG_LEVEL"}
Algorithm == {"FIFO", "LRU", "NONE"}
Level == {"debug", "info"} \* two of zerolog's

Legal(s) ==
    CASE s = "EVICTION_ALGORITHM" -> Algorithm
      [] s = "LOG_LEVEL" -> Level
      [] s \in Uint32 -> 0 .. Word - 1
      [] OTHER -> Int

\* What a flag holds that is not given.
Zero(s) == IF s \in Named THEN "" ELSE 0

\* read: the flags are parsed. They are not if the program's path looks like a
\* test's, and not after -h, which Load lets pass. name: the length of the
\* node's name. seeds: the cluster ports it is told to contact. Every text that
\* is none of the names allowed is Malformed.
InputType(in) ==
    /\ DOMAIN in = {"flag", "env", "read", "name", "seeds"}
    /\ DOMAIN in.flag = Setting /\ DOMAIN in.env = Setting
    /\ \A s \in Setting : in.flag[s] \in (IF s \in Named THEN Legal(s) ELSE Int)
                                            \cup {Zero(s), Malformed}
    /\ in.read \in BOOLEAN /\ in.name \in Nat /\ in.seeds \subseteq Nat

\* No port is 0 by default (config/index.go 188-194).
ASSUME StartupAssumption ==
    /\ \A p \in Proc : \A in \in Input[p] \cup Again[p] : InputType(in)
    /\ \A s \in Setting : Default[s] \in Legal(s)
    /\ \A s \in Uint32 : Default[s] # 0
    /\ \A s \in Setting : Unset \notin Legal(s)
    /\ {Word, MaxPort, AddressLength, MetaMaxSize} \subseteq Nat /\ MaxStarts \in Nat \ {0}
    /\ MaxPort < Word

VARIABLES
    input,      \* what each process has been started with
    starts,     \* how often each process has been started
    phase,      \* how far main has come
    cfg,        \* its configuration, once it is loaded
    bound,      \* its ports: of memberlist, of gRPC and of HTTP, or NoPort
    meta,       \* [p][q]: the metadata of q that p's memberlist has, or Nothing
    address     \* [p][q]: the port at which p calls q, or Nowhere

vars == <<input, starts, phase, cfg, bound, meta, address>>

NoPort == -1

\* The start that wrote the metadata, and its gRPC port or, if it cannot be read,
\* NoPort. Of an address, start is a history variable: the code keeps the port only.
Nothing == [start |-> 0, grpc |-> NoPort]
Nowhere == [start |-> 0, port |-> NoPort]
Unbound == [cluster |-> NoPort, grpc |-> NoPort, http |-> NoPort]
Phase == {"load", "create", "join", "grpc", "http", "serving", "dead"}

-----------------------------------------------------------------------------
(* config.Load                                                              *)

FlagOf(in, s) == IF in.read THEN in.flag[s] ELSE Zero(s)

\* The value of a flag that is given. uint32(...) cuts it off.
FromFlag(s, v) ==
    IF s \in Uint32 THEN v % Word
    ELSE IF s \in Named /\ v = Malformed THEN Rejected ELSE v

\* Mutant: only what is no number is rejected.
FromEnvUnchecked(s, v) == IF v = Malformed /\ s \notin Named THEN Rejected ELSE v

\* strconv.ParseUint(v, 10, 32), strconv.Atoi, or the names allowed.
FromEnv(s, v) == IF v = Malformed THEN Rejected ELSE IF v \in Legal(s) THEN v ELSE Rejected

\* Mutant: the environment goes first.
SettingOfEnvFirst(in, s) ==
    IF in.env[s] # Unset THEN FromEnv(s, in.env[s])
    ELSE IF FlagOf(in, s) # Zero(s) THEN FromFlag(s, FlagOf(in, s))
    ELSE Default[s]

\* "Command-line flags take precedence": those that are not zero or empty.
SettingOf(in, s) ==
    IF FlagOf(in, s) # Zero(s) THEN FromFlag(s, FlagOf(in, s))
    ELSE IF in.env[s] # Unset THEN FromEnv(s, in.env[s])
    ELSE Default[s]

\* A number that fs.Parse cannot read is an error, whatever the rest says.
ParseFails(in) == \E s \in Setting \ Named : FlagOf(in, s) = Malformed

Rejects(in) == ParseFails(in) \/ \E s \in Setting : SettingOf(in, s) = Rejected

-----------------------------------------------------------------------------
(* Ports, and the end of a process                                          *)

Alive(p) == phase[p] \notin {"load", "dead"}
Taken == UNION {{bound[p].cluster, bound[p].grpc, bound[p].http} : p \in Proc} \ {NoPort}

\* The ports that net.Listen may give to who asks for n. For 0 it picks one.
Ports(n) == {a \in (1 .. MaxPort) \ Taken : n \in {0, a}}

Goes(p, next) == phase' = [phase EXCEPT ![p] = next]

\* log.Fatal: the process is gone, and with it its listeners and what it knew.
Fatal(p) ==
    /\ Goes(p, "dead")
    /\ bound' = [bound EXCEPT ![p] = Unbound]
    /\ address' = [address EXCEPT ![p] = [q \in Proc |-> Nowhere]]
    /\ meta' = [meta EXCEPT ![p] = [q \in Proc |-> Nothing]]

Bind(p, listener, port, next) ==
    /\ bound' = [bound EXCEPT ![p][listener] = port]
    /\ Goes(p, next)
    /\ UNCHANGED <<meta, address>>

-----------------------------------------------------------------------------
Init ==
    /\ input \in {f \in [Proc -> UNION {Input[p] : p \in Proc}] : \A p \in Proc : f[p] \in Input[p]}
    /\ starts = [p \in Proc |-> 1]
    /\ phase = [p \in Proc |-> "load"]
    /\ cfg = [p \in Proc |-> Default]
    /\ bound = [p \in Proc |-> Unbound]
    /\ meta = [p \in Proc |-> [q \in Proc |-> Nothing]]
    /\ address = [p \in Proc |-> [q \in Proc |-> Nowhere]]

Load(p) ==
    /\ phase[p] = "load"
    /\ UNCHANGED <<input, starts>>
    /\ IF Rejects(input[p])
       THEN Fatal(p) /\ UNCHANGED cfg
       ELSE /\ cfg' = [cfg EXCEPT ![p] = [s \in Setting |-> SettingOf(input[p], s)]]
            /\ Goes(p, "create")
            /\ UNCHANGED <<bound, meta, address>>

\* main chooses the storage, and NewManager calls memberlist.Create: peers can
\* reach memberlist from now on.
NewManager(p) ==
    /\ phase[p] = "create"
    /\ UNCHANGED <<input, starts, cfg>>
    /\ LET free == Ports(cfg[p].CLUSTER_PORT)
       IN  IF cfg[p].EVICTION_ALGORITHM \notin Algorithm \/ free = {}
           THEN Fatal(p)
           ELSE \E a \in free : Bind(p, "cluster", a, "join")

\* The JSON text around name and address has 31 bytes.
MetaSize(q) == 31 + input[q].name + AddressLength

\* Mutant: a limit that is not the one of memberlist.
MarshalTight(q) == MetaSize(q) < MetaMaxSize

\* NodeMeta.Marshal gives the metadata, and not an error for its length. Only then
\* a peer can read it, and NodeMeta(limit) cuts nothing off.
Marshal(q) == MetaSize(q) <= MetaMaxSize

\* What p can say of q: of itself the metadata it has made, of others what it has.
Says(p, q) ==
    IF p # q THEN meta[p][q]
    ELSE [start |-> starts[q], grpc |-> IF Marshal(q) THEN cfg[q].GRPC_PORT ELSE NoPort]

\* memberlist tells the word of a later start by its incarnation.
Later(m, n) == IF n.start > m.start THEN n ELSE m

\* p and q tell each other of everyone they know.
Exchange(p, q) ==
    meta' = [r \in Proc |-> [s \in Proc |->
                IF r \in {p, q} /\ s # r THEN Later(Says(p, s), Says(q, s)) ELSE meta[r][s]]]

\* The seeds that answer p.
Answering(p) == {q \in Proc : Alive(q) /\ bound[q].cluster \in input[p].seeds}

\* Mutant: a seed that does not answer is waited for.
JoinWaits(p) ==
    /\ phase[p] = "join"
    /\ UNCHANGED <<input, starts, cfg, bound, address>>
    /\ Goes(p, "grpc")
    /\ IF input[p].seeds = {} THEN UNCHANGED meta ELSE \E q \in Answering(p) : Exchange(p, q)

\* Manager.Join: without seeds a cluster of its own, else one seed that answers
\* is enough. What others tell comes by Gossip.
Join(p) ==
    /\ phase[p] = "join"
    /\ UNCHANGED <<input, starts, cfg>>
    /\ IF input[p].seeds # {} /\ Answering(p) = {} THEN Fatal(p)
       ELSE /\ Goes(p, "grpc")
            /\ UNCHANGED <<bound, address>>
            /\ IF input[p].seeds = {} THEN UNCHANGED meta
               ELSE \E q \in Answering(p) : Exchange(p, q)

\* Mutant: a port that cannot be had is logged, and main goes on.
ListenGrpcGoesOn(p) ==
    /\ phase[p] = "grpc"
    /\ UNCHANGED <<input, starts, cfg>>
    /\ LET free == Ports(cfg[p].GRPC_PORT)
       IN  IF free = {} THEN Goes(p, "http") /\ UNCHANGED <<bound, meta, address>>
           ELSE \E a \in free : Bind(p, "grpc", a, "http")

ListenGrpc(p) ==
    /\ phase[p] = "grpc"
    /\ UNCHANGED <<input, starts, cfg>>
    /\ LET free == Ports(cfg[p].GRPC_PORT)
       IN  IF free = {} THEN Fatal(p) ELSE \E a \in free : Bind(p, "grpc", a, "http")

\* A goroutine of main's. The process has been serving its peers.
ListenHttp(p) ==
    /\ phase[p] = "http"
    /\ UNCHANGED <<input, starts, cfg>>
    /\ LET free == Ports(cfg[p].HTTP_PORT)
       IN  IF free = {} THEN Fatal(p) ELSE \E a \in free : Bind(p, "http", a, "serving")

-----------------------------------------------------------------------------
(* What peers learn                                                         *)

\* memberlist goes on telling members of each other.
Gossip(p, q) ==
    /\ Alive(p) /\ Alive(q)
    /\ meta[p][q] # Nothing \/ (phase[p] = "join" /\ q \in Answering(p))
    /\ Exchange(p, q)
    /\ UNCHANGED <<input, starts, phase, cfg, bound, address>>

\* NotifyJoin at p: q's own word for its port, or else the port of p.
NotifyJoin(p, q) ==
    LET m == meta[p][q]
        port == IF m.grpc # NoPort THEN m.grpc ELSE cfg[p].GRPC_PORT
    IN  /\ m # Nothing
        /\ address[p][q] = Nowhere
        /\ address' = [address EXCEPT ![p][q] = [start |-> m.start, port |-> port]]
        /\ UNCHANGED <<input, starts, phase, cfg, bound, meta>>

\* q is back with metadata of another start. The handler keeps the address it has.
NotifyUpdate(p, q) ==
    /\ address[p][q] # Nowhere
    /\ meta[p][q].start # address[p][q].start
    /\ UNCHANGED vars

\* memberlist has noticed that q is gone, or that the one it has known is.
NotifyLeave(p, q) ==
    /\ meta[p][q] # Nothing
    /\ phase[q] = "dead" \/ meta[p][q].start # starts[q]
    /\ meta' = [meta EXCEPT ![p][q] = Nothing]
    /\ address' = [address EXCEPT ![p][q] = Nowhere]
    /\ UNCHANGED <<input, starts, phase, cfg, bound>>

-----------------------------------------------------------------------------
(* The world outside                                                        *)

\* A signal, or a crash.
Stop(p) == phase[p] # "dead" /\ Fatal(p) /\ UNCHANGED <<input, starts, cfg>>

\* p is started again under its name. Peers that have not noticed keep what they
\* have of it.
Restart(p) ==
    /\ phase[p] = "dead"
    /\ starts[p] < MaxStarts
    /\ starts' = [starts EXCEPT ![p] = @ + 1]
    /\ \E in \in Again[p] : input' = [input EXCEPT ![p] = [in EXCEPT !.name = input[p].name]]
    /\ Goes(p, "load")
    /\ UNCHANGED <<cfg, bound, meta, address>>

-----------------------------------------------------------------------------
Main(p) == Load(p) \/ NewManager(p) \/ Join(p) \/ ListenGrpc(p) \/ ListenHttp(p)

Next ==
    \/ \E p \in Proc : Main(p) \/ Stop(p) \/ Restart(p)
    \/ \E p, q \in Proc : Gossip(p, q) \/ NotifyJoin(p, q) \/ NotifyUpdate(p, q) \/ NotifyLeave(p, q)

Spec == Init /\ [][Next]_vars

\* main goes on; its calls return.
FairSpec == Spec /\ \A p \in Proc : WF_vars(Main(p))

-----------------------------------------------------------------------------
\* The shape of the state. A process holds the ports of the phases it has passed.
TypeOK ==
    /\ \A p \in Proc : InputType(input[p])
    /\ starts \in [Proc -> 1 .. MaxStarts]
    /\ phase \in [Proc -> Phase]
    /\ \A p \in Proc, s \in Setting : cfg[p][s] \in Legal(s)
    /\ \A p \in Proc :
        /\ DOMAIN bound[p] = DOMAIN Unbound
        /\ bound[p].cluster # NoPort <=> phase[p] \in {"join", "grpc", "http", "serving"}
        /\ bound[p].grpc # NoPort <=> phase[p] \in {"http", "serving"}
        /\ bound[p].http # NoPort <=> phase[p] = "serving"
    /\ meta \in [Proc -> [Proc -> [start : 0 .. MaxStarts, grpc : NoPort .. Word - 1]]]
    /\ address \in [Proc -> [Proc -> [start : 0 .. MaxStarts, port : NoPort .. Word - 1]]]

\* A process that serves listens where it was told to: at the port of its flag, if
\* that was given and read, else at that of the environment, else at the default
\* (config/index.go 73-91), whatever other processes took or freed meanwhile. Not
\* so for a flag above 2^32 - 1, which is cut off, and for port 0.
ListensWhereTold ==
    \A p \in Proc, l \in {"HTTP_PORT", "GRPC_PORT"} :
        LET in == input[p]
            port == IF l = "HTTP_PORT" THEN bound[p].http ELSE bound[p].grpc
        IN  phase[p] = "serving" =>
                /\ in.read /\ in.flag[l] \in 1 .. Word - 1 => port = in.flag[l]
                /\ (~ in.read \/ in.flag[l] = 0) /\ in.env[l] \in 1 .. Word - 1 =>
                        port = in.env[l]
                /\ (~ in.read \/ in.flag[l] = 0) /\ in.env[l] = Unset => port = Default[l]

\* A process whose metadata a peer has was started with settings that Load accepts
\* and main has a storage for: a mistake in a setting, also one made at a restart,
\* never leaves a trace in the rings of others (main.go 46-102). Ports are the
\* exception: that one cannot be had shows after the join (main.go 128, 164).
MistakesStayPrivate ==
    \A p, q \in Proc : meta[p][q].start = starts[q] =>
        /\ ~ Rejects(input[q])
        /\ \A s \in Setting : cfg[q][s] \in Legal(s) /\ cfg[q][s] = SettingOf(input[q], s)

\* Between two nodes that serve, calls reach the node they are meant for, even if
\* others on the host were given the same port: the second to listen there ends. The
\* name must leave room for the address in the metadata, or both use one port number
\* anyway (event_handler.go 79-105, node_meta.go 21); a node that listens at a port
\* the kernel chose is called at port 0 (membership.go 70); and the address must be
\* one that this start of the node has announced: a peer that took it from an earlier
\* start keeps it when the new one's metadata arrives (event_handler.go 167-183).
ServingNodesAreReached ==
    \A p, q \in Proc :
        /\ phase[p] = "serving" /\ phase[q] = "serving"
        /\ address[p][q].start = starts[q]
        /\ cfg[q].GRPC_PORT # 0
        /\ 31 + input[q].name + AddressLength <= MetaMaxSize
        => bound[q].grpc = address[p][q].port

\* A start ends: the process serves or has gone, also if processes name each other as
\* seeds, or a seed that never comes, and whenever they are started again.
StartEnds == \A p \in Proc : phase[p] = "load" ~> phase[p] \in {"serving", "dead"}
=============================================================================
