--------------------------- MODULE Startup_proofs ---------------------------
(***************************************************************************)
(* Invariance proofs about the start of processes, for any number of them, *)
(* whatever they are started with, on a host with any number of ports.     *)
(***************************************************************************)
EXTENDS Startup, TLAPS

\* Load has taken what p was started with, and found nothing wrong with it.
Loaded(p) ==
    /\ ~ Rejects(input[p])
    /\ \A s \in Setting : cfg[p][s] = SettingOf(input[p], s)

Metadata == [start : 0 .. MaxStarts, grpc : NoPort .. Word - 1]
Address == [start : 0 .. MaxStarts, port : NoPort .. Word - 1]

Shape ==
    /\ DOMAIN input = Proc
    /\ \A p \in Proc : InputType(input[p])
    /\ starts \in [Proc -> 1 .. MaxStarts]
    /\ phase \in [Proc -> Phase]
    /\ DOMAIN cfg = Proc
    /\ \A p \in Proc, s \in Setting : cfg[p][s] \in Legal(s)
    /\ bound \in [Proc -> [cluster : Int, grpc : Int, http : Int]]
    /\ meta \in [Proc -> [Proc -> Metadata]]
    /\ address \in [Proc -> [Proc -> Address]]

\* A process holds the ports of the phases it has passed,
Listening ==
    \A p \in Proc :
        /\ bound[p].cluster # NoPort <=> phase[p] \in {"join", "grpc", "http", "serving"}
        /\ bound[p].grpc # NoPort <=> phase[p] \in {"http", "serving"}
        /\ bound[p].http # NoPort <=> phase[p] = "serving"

\* and they are the ones it asked for, if it asked for one.
AsAsked ==
    \A p \in Proc :
        /\ bound[p].grpc # NoPort /\ cfg[p].GRPC_PORT # 0 => bound[p].grpc = cfg[p].GRPC_PORT
        /\ bound[p].http # NoPort /\ cfg[p].HTTP_PORT # 0 => bound[p].http = cfg[p].HTTP_PORT

Configured == \A p \in Proc : Alive(p) => Loaded(p)

\* What p has of q was written by a start of q that has passed Load. If it is the
\* last one, then it is what q would still say.
Known ==
    \A p, q \in Proc :
        /\ meta[p][q] # Nothing => Alive(p)
        /\ meta[p][q].start <= starts[q]
        /\ meta[p][q].start = starts[q] =>
                phase[q] # "load" /\ Loaded(q) /\ meta[p][q] = Says(q, q)

\* An address that this start of q has announced was made from configurations that
\* do not change any more.
Called ==
    \A p, q \in Proc :
        /\ address[p][q] # Nowhere => Alive(p)
        /\ address[p][q].start <= starts[q]
        /\ address[p][q].start = starts[q] =>
                /\ phase[q] # "load"
                /\ address[p][q].port = IF Marshal(q) THEN cfg[q].GRPC_PORT ELSE cfg[p].GRPC_PORT

StartInv == Shape /\ Listening /\ AsAsked /\ Configured /\ Known /\ Called

-----------------------------------------------------------------------------
(* What is loaded and what is bound.                                        *)

\* A setting that Load does not return an error for is one that main can use.
LEMMA SettingIsLegal ==
    ASSUME NEW in, InputType(in), ~ Rejects(in), NEW s \in Setting
    PROVE  SettingOf(in, s) \in Legal(s)
<1>1. Word \in Nat /\ Word > 0
  BY StartupAssumption
<1>2. SettingOf(in, s) # Rejected /\ (s \notin Named => FlagOf(in, s) # Malformed)
  BY DEF Rejects, ParseFails
<1>3. CASE FlagOf(in, s) # Zero(s)
  <2>. DEFINE v == in.flag[s]
  <2>1. FlagOf(in, s) = v /\ v # Zero(s)
    BY <1>3 DEF FlagOf
  <2>2. v \in (IF s \in Named THEN Legal(s) ELSE Int) \cup {Zero(s), Malformed}
    BY DEF InputType
  <2>3. SettingOf(in, s) = FromFlag(s, v)
    BY <1>3, <2>1 DEF SettingOf
  <2>. HIDE DEF v
  <2>4. CASE s \in Uint32
    <3>1. v \in Int /\ s \notin Named
      BY <1>2, <2>1, <2>2, <2>4 DEF Uint32, Named
    <3>2. v % Word \in 0 .. Word - 1
      BY <1>1, <3>1
    <3>3. Legal(s) = 0 .. Word - 1
      BY <2>4 DEF Legal, Uint32
    <3>. QED BY <2>3, <2>4, <3>2, <3>3 DEF FromFlag
  <2>5. CASE s \in Named
    <3>1. s \notin Uint32
      BY <2>5 DEF Uint32, Named
    <3>. QED BY <1>2, <2>1, <2>2, <2>3, <2>5, <3>1 DEF FromFlag
  <2>6. CASE s \notin Uint32 \cup Named
    <3>1. v \in Int /\ Legal(s) = Int
      BY <1>2, <2>1, <2>2, <2>6 DEF Legal, Uint32, Named
    <3>. QED BY <2>3, <2>6, <3>1 DEF FromFlag
  <2>. QED BY <2>4, <2>5, <2>6
<1>4. CASE FlagOf(in, s) = Zero(s) /\ in.env[s] # Unset
  BY <1>2, <1>4 DEF SettingOf, FromEnv
<1>5. CASE FlagOf(in, s) = Zero(s) /\ in.env[s] = Unset
  BY <1>5, StartupAssumption DEF SettingOf
<1>. QED BY <1>3, <1>4, <1>5

\* net.Listen gives a port, and the one asked for.
LEMMA PortsEffect ==
    ASSUME NEW n \in Int, NEW a \in Ports(n)
    PROVE  a \in Int /\ a # NoPort /\ (n # 0 => a = n)
<1>1. MaxPort \in Nat /\ a \in 1 .. MaxPort /\ n \in {0, a}
  BY StartupAssumption DEF Ports
<1>. QED BY <1>1 DEF NoPort

LEMMA PortSettings ==
    ASSUME Shape, NEW p \in Proc
    PROVE  /\ cfg[p].GRPC_PORT \in 0 .. Word - 1
           /\ cfg[p].HTTP_PORT \in 0 .. Word - 1
           /\ cfg[p].CLUSTER_PORT \in Int
<1>1. Legal("GRPC_PORT") = 0 .. Word - 1 /\ Legal("HTTP_PORT") = 0 .. Word - 1
      /\ Legal("CLUSTER_PORT") = Int
  BY DEF Legal, Uint32
<1>2. {"GRPC_PORT", "HTTP_PORT", "CLUSTER_PORT"} \subseteq Setting
  BY DEF Setting
<1>. QED BY <1>1, <1>2 DEF Shape

-----------------------------------------------------------------------------
(* The steps.                                                               *)

\* What is loaded stays loaded, and what a process says of itself.
LEMMA LoadedStays ==
    ASSUME input' = input, cfg' = cfg, starts' = starts
    PROVE  \A p \in Proc : /\ Loaded(p)' <=> Loaded(p)
                           /\ Says(p, p)' = Says(p, p)
                           /\ Marshal(p)' <=> Marshal(p)
  BY DEF Loaded, Says, Marshal, MetaSize

\* No process has been started 0 times.
LEMMA Unknown ==
    ASSUME Shape, NEW q \in Proc
    PROVE  starts[q] \in Nat /\ 0 <= starts[q] /\ Nothing.start # starts[q] /\ Nowhere.start # starts[q]
<1>1. starts[q] \in 1 .. MaxStarts
  BY DEF Shape
<1>2. MaxStarts \in Nat
  BY StartupAssumption
<1>3. Nothing.start = 0 /\ Nowhere.start = 0
  BY DEF Nothing, Nowhere
<1>. QED BY <1>1, <1>2, <1>3

LEMMA NothingHasShape == Nothing \in Metadata /\ Nowhere \in Address
<1>1. Word \in Nat /\ MaxStarts \in Nat /\ Word > 0
  BY StartupAssumption
<1>2. 0 \in 0 .. MaxStarts /\ NoPort \in NoPort .. Word - 1
  BY <1>1 DEF NoPort
<1>. QED BY <1>2 DEF Nothing, Nowhere, Metadata, Address

LEMMA FatalStep ==
    ASSUME StartInv, NEW p \in Proc, Fatal(p), input' = input, cfg' = cfg, starts' = starts
    PROVE  StartInv'
<1>1. phase \in [Proc -> Phase] /\ DOMAIN cfg = Proc
      /\ meta \in [Proc -> [Proc -> Metadata]]
      /\ bound \in [Proc -> [cluster : Int, grpc : Int, http : Int]]
      /\ address \in [Proc -> [Proc -> Address]]
  BY DEF StartInv, Shape
<1>2. \A q \in Proc : phase'[q] = IF q = p THEN "dead" ELSE phase[q]
  BY <1>1 DEF Fatal, Goes
<1>3. \A q \in Proc : bound'[q] = IF q = p THEN Unbound ELSE bound[q]
  BY <1>1 DEF Fatal
<1>4. \A q, r \in Proc : address'[q][r] = IF q = p THEN Nowhere ELSE address[q][r]
  BY <1>1 DEF Fatal
<1>5. \A q, r \in Proc : meta'[q][r] = IF q = p THEN Nothing ELSE meta[q][r]
  BY <1>1 DEF Fatal
<1>6. Shape'
  <2>1. phase' \in [Proc -> Phase]
    BY <1>1 DEF Fatal, Goes, Phase
  <2>2. bound' \in [Proc -> [cluster : Int, grpc : Int, http : Int]]
    <3>1. Unbound \in [cluster : Int, grpc : Int, http : Int]
      BY DEF Unbound, NoPort
    <3>. QED BY <1>1, <3>1 DEF Fatal
  <2>3. address' \in [Proc -> [Proc -> Address]]
    BY <1>1, NothingHasShape DEF Fatal
  <2>4. meta' \in [Proc -> [Proc -> Metadata]]
    BY <1>1, NothingHasShape DEF Fatal
  <2>. QED BY <2>1, <2>2, <2>3, <2>4 DEF StartInv, Shape
<1>7. Listening'
  <2>1. Unbound.cluster = NoPort /\ Unbound.grpc = NoPort /\ Unbound.http = NoPort
    BY DEF Unbound
  <2>. QED BY <1>2, <1>3, <2>1 DEF StartInv, Listening
<1>8. AsAsked'
  <2>1. Unbound.grpc = NoPort /\ Unbound.http = NoPort
    BY DEF Unbound
  <2>. QED BY <1>3, <2>1 DEF StartInv, AsAsked
<1>9. Configured'
  BY <1>2, LoadedStays DEF StartInv, Configured, Alive
<1>10. Known'
  <2>. SUFFICES ASSUME NEW q \in Proc, NEW r \in Proc
                PROVE  /\ meta'[q][r] # Nothing => Alive(q)'
                       /\ meta'[q][r].start <= starts[r]
                       /\ meta'[q][r].start = starts[r] =>
                            phase'[r] # "load" /\ Loaded(r) /\ meta'[q][r] = Says(r, r)
    BY LoadedStays DEF Known
  <2>1. CASE q = p
    <3>1. meta'[q][r] = Nothing /\ Nothing.start = 0
      BY <1>5, <2>1 DEF Nothing
    <3>. QED BY <3>1, Unknown DEF StartInv
  <2>2. CASE q # p
    BY <1>2, <1>5, <2>2 DEF StartInv, Known, Alive
  <2>. QED BY <2>1, <2>2
<1>11. Called'
  <2>. SUFFICES ASSUME NEW q \in Proc, NEW r \in Proc
                PROVE  /\ address'[q][r] # Nowhere => Alive(q)'
                       /\ address'[q][r].start <= starts[r]
                       /\ address'[q][r].start = starts[r] =>
                            /\ phase'[r] # "load"
                            /\ address'[q][r].port =
                                IF Marshal(r) THEN cfg[r].GRPC_PORT ELSE cfg[q].GRPC_PORT
    BY LoadedStays DEF Called
  <2>1. CASE q = p
    <3>1. address'[q][r] = Nowhere /\ Nowhere.start = 0
      BY <1>4, <2>1 DEF Nowhere
    <3>. QED BY <3>1, Unknown DEF StartInv
  <2>2. CASE q # p
    BY <1>2, <1>4, <2>2 DEF StartInv, Called, Alive
  <2>. QED BY <2>1, <2>2
<1>. QED BY <1>6, <1>7, <1>8, <1>9, <1>10, <1>11 DEF StartInv

\* A listener gets its port, and main goes on.
LEMMA BindStep ==
    ASSUME StartInv, NEW p \in Proc, input' = input, cfg' = cfg, starts' = starts,
           NEW a \in Int, a # NoPort,
           \/ phase[p] = "create" /\ Bind(p, "cluster", a, "join")
           \/ phase[p] = "grpc" /\ Bind(p, "grpc", a, "http")
              /\ (cfg[p].GRPC_PORT # 0 => a = cfg[p].GRPC_PORT)
           \/ phase[p] = "http" /\ Bind(p, "http", a, "serving")
              /\ (cfg[p].HTTP_PORT # 0 => a = cfg[p].HTTP_PORT)
    PROVE  StartInv'
<1>1. phase \in [Proc -> Phase] /\ bound \in [Proc -> [cluster : Int, grpc : Int, http : Int]]
  BY DEF StartInv, Shape
<1>2. meta' = meta /\ address' = address
  BY DEF Bind
<1>3. PICK l \in {"cluster", "grpc", "http"}, next \in {"join", "http", "serving"} :
          /\ phase[p] \in {"create", "grpc", "http"}
          /\ phase' = [phase EXCEPT ![p] = next]
          /\ bound' = [bound EXCEPT ![p][l] = a]
          /\ l = "cluster" => phase[p] = "create" /\ next = "join"
          /\ l = "grpc" => phase[p] = "grpc" /\ next = "http"
                            /\ (cfg[p].GRPC_PORT # 0 => a = cfg[p].GRPC_PORT)
          /\ l = "http" => phase[p] = "http" /\ next = "serving"
                            /\ (cfg[p].HTTP_PORT # 0 => a = cfg[p].HTTP_PORT)
  BY DEF Bind, Goes
<1>4. \A q \in Proc : phase'[q] = IF q = p THEN next ELSE phase[q]
  BY <1>1, <1>3
<1>5. \A q \in Proc :
        /\ bound'[q].cluster = IF q = p /\ l = "cluster" THEN a ELSE bound[q].cluster
        /\ bound'[q].grpc = IF q = p /\ l = "grpc" THEN a ELSE bound[q].grpc
        /\ bound'[q].http = IF q = p /\ l = "http" THEN a ELSE bound[q].http
  BY <1>1, <1>3
<1>6. Shape'
  <2>1. phase' \in [Proc -> Phase]
    BY <1>1, <1>3 DEF Phase
  <2>2. bound' \in [Proc -> [cluster : Int, grpc : Int, http : Int]]
    BY <1>1, <1>3
  <2>. QED BY <1>2, <2>1, <2>2 DEF StartInv, Shape
<1>7. Listening'
  BY <1>3, <1>4, <1>5 DEF StartInv, Listening
<1>8. AsAsked'
  BY <1>3, <1>5 DEF StartInv, AsAsked
<1>9. ASSUME NEW q \in Proc PROVE /\ Alive(q)' <=> Alive(q)
                                  /\ phase[q] # "load" => phase'[q] # "load"
  BY <1>3, <1>4 DEF Alive
<1>10. Configured'
  BY <1>9, LoadedStays DEF StartInv, Configured
<1>11. Known'
  BY <1>2, <1>9, LoadedStays DEF StartInv, Known
<1>12. Called'
  BY <1>2, <1>9, LoadedStays DEF StartInv, Called
<1>. QED BY <1>6, <1>7, <1>8, <1>10, <1>11, <1>12 DEF StartInv

LEMMA LoadStep ==
    ASSUME StartInv, NEW p \in Proc, Load(p)
    PROVE  StartInv'
<1>1. CASE Rejects(input[p])
  BY <1>1, FatalStep DEF Load
<1>2. CASE ~ Rejects(input[p])
  <2>. DEFINE c == [s \in Setting |-> SettingOf(input[p], s)]
  <2>1. /\ phase[p] = "load" /\ input' = input /\ starts' = starts
        /\ cfg' = [cfg EXCEPT ![p] = c] /\ Goes(p, "create")
        /\ bound' = bound /\ meta' = meta /\ address' = address
    BY <1>2 DEF Load
  <2>2. phase \in [Proc -> Phase] /\ DOMAIN cfg = Proc
    BY DEF StartInv, Shape
  <2>3. \A q \in Proc : phase'[q] = IF q = p THEN "create" ELSE phase[q]
    BY <2>1, <2>2 DEF Goes
  <2>4. DOMAIN cfg' = Proc /\ \A q \in Proc : cfg'[q] = IF q = p THEN c ELSE cfg[q]
    BY <2>1, <2>2
  <2>5. \A s \in Setting : c[s] = SettingOf(input[p], s) /\ c[s] \in Legal(s)
    <3>1. InputType(input[p])
      BY DEF StartInv, Shape
    <3>. QED BY <1>2, <3>1, SettingIsLegal
  <2>. HIDE DEF c
  <2>6. \A q \in Proc : Loaded(q) \/ q = p => Loaded(q)'
    BY <1>2, <2>1, <2>4, <2>5 DEF Loaded
  <2>7. Shape'
    <3>1. phase' \in [Proc -> Phase]
      BY <2>1, <2>2 DEF Goes, Phase
    <3>. QED BY <2>1, <2>4, <2>5, <3>1 DEF StartInv, Shape
  <2>8. Listening'
    BY <2>1, <2>3 DEF StartInv, Listening
  <2>9. AsAsked'
    <3>1. bound[p].grpc = NoPort /\ bound[p].http = NoPort
      BY <2>1 DEF StartInv, Listening
    <3>. QED BY <2>1, <2>4, <3>1 DEF StartInv, AsAsked
  <2>10. Configured'
    BY <2>3, <2>6 DEF StartInv, Configured, Alive
  <2>11. ASSUME NEW q \in Proc PROVE /\ Alive(q) => Alive(q)' /\ q # p
                                     /\ phase[q] # "load" => phase'[q] # "load" /\ q # p
    BY <2>1, <2>3 DEF Alive
  <2>12. \A q \in Proc : q # p => Says(q, q)' = Says(q, q)
    BY <2>1, <2>4 DEF Says, Marshal, MetaSize
  <2>13. Known'
    <3>. SUFFICES ASSUME NEW q \in Proc, NEW r \in Proc
                  PROVE  /\ meta[q][r] # Nothing => Alive(q)'
                         /\ meta[q][r].start <= starts[r]
                         /\ meta[q][r].start = starts[r] =>
                                phase'[r] # "load" /\ Loaded(r)' /\ meta[q][r] = Says(r, r)'
      BY <2>1 DEF Known
    <3>. QED BY <2>6, <2>11, <2>12 DEF StartInv, Known
  <2>14. Called'
    <3>. SUFFICES ASSUME NEW q \in Proc, NEW r \in Proc
                  PROVE  /\ address[q][r] # Nowhere => Alive(q)'
                         /\ address[q][r].start <= starts[r]
                         /\ address[q][r].start = starts[r] =>
                              /\ phase'[r] # "load"
                              /\ address[q][r].port =
                                    IF Marshal(r) THEN cfg'[r].GRPC_PORT ELSE cfg'[q].GRPC_PORT
      BY <2>1 DEF Called, Marshal, MetaSize
    <3>1. address[q][r] # Nowhere => Alive(q)' /\ q # p
      BY <2>11 DEF StartInv, Called
    <3>2. address[q][r].start <= starts[r]
      BY DEF StartInv, Called
    <3>3. ASSUME address[q][r].start = starts[r]
          PROVE  /\ phase'[r] # "load"
                 /\ address[q][r].port = IF Marshal(r) THEN cfg'[r].GRPC_PORT ELSE cfg'[q].GRPC_PORT
      <4>1. address[q][r] # Nowhere
        BY <3>3, Unknown DEF StartInv
      <4>2. r # p /\ q # p /\ phase'[r] # "load"
        BY <2>11, <3>1, <3>3, <4>1 DEF StartInv, Called
      <4>3. cfg'[r] = cfg[r] /\ cfg'[q] = cfg[q]
        BY <2>4, <4>2
      <4>. QED BY <3>3, <4>2, <4>3 DEF StartInv, Called
    <3>. QED BY <3>1, <3>2, <3>3
  <2>. QED BY <2>7, <2>8, <2>9, <2>10, <2>13, <2>14 DEF StartInv
<1>. QED BY <1>1, <1>2

LEMMA ListenerStep ==
    ASSUME StartInv, NEW p \in Proc, NewManager(p) \/ ListenGrpc(p) \/ ListenHttp(p)
    PROVE  StartInv'
<1>. Shape
  BY DEF StartInv
<1>0. Word \in Nat
  BY StartupAssumption
<1>1. CASE NewManager(p)
  <2>1. ASSUME NEW a \in Ports(cfg[p].CLUSTER_PORT), Bind(p, "cluster", a, "join") PROVE StartInv'
    BY <1>1, <2>1, PortSettings, PortsEffect, BindStep DEF NewManager
  <2>. QED BY <1>1, <2>1, FatalStep DEF NewManager
<1>2. CASE ListenGrpc(p)
  <2>1. ASSUME NEW a \in Ports(cfg[p].GRPC_PORT), Bind(p, "grpc", a, "http") PROVE StartInv'
    BY <1>0, <1>2, <2>1, PortSettings, PortsEffect, BindStep DEF ListenGrpc
  <2>. QED BY <1>2, <2>1, FatalStep DEF ListenGrpc
<1>3. CASE ListenHttp(p)
  <2>1. ASSUME NEW a \in Ports(cfg[p].HTTP_PORT), Bind(p, "http", a, "serving") PROVE StartInv'
    BY <1>0, <1>3, <2>1, PortSettings, PortsEffect, BindStep DEF ListenHttp
  <2>. QED BY <1>3, <2>1, FatalStep DEF ListenHttp
<1>. QED BY <1>1, <1>2, <1>3

\* A word about q that Known allows.
Right(w, q) ==
    /\ w \in Metadata
    /\ w.start <= starts[q]
    /\ w.start = starts[q] => phase[q] # "load" /\ Loaded(q) /\ w = Says(q, q)

\* Whoever lives says only such words.
LEMMA SaysRight ==
    ASSUME StartInv, NEW p \in Proc, Alive(p), NEW q \in Proc
    PROVE  Right(Says(p, q), q)
<1>1. CASE p # q
  <2>1. Says(p, q) = meta[p][q]
    BY <1>1 DEF Says
  <2>. QED BY <2>1 DEF StartInv, Shape, Known, Right
<1>2. CASE p = q
  <2>. DEFINE port == IF Marshal(q) THEN cfg[q].GRPC_PORT ELSE NoPort
  <2>1. Says(p, q) = [start |-> starts[q], grpc |-> port]
    BY <1>2 DEF Says
  <2>2. starts[q] \in 1 .. MaxStarts /\ MaxStarts \in Nat /\ Word \in Nat /\ Word > 0
    BY StartupAssumption DEF StartInv, Shape
  <2>3. cfg[q].GRPC_PORT \in 0 .. Word - 1
    BY PortSettings DEF StartInv
  <2>4. port \in NoPort .. Word - 1
    BY <2>2, <2>3 DEF NoPort
  <2>. HIDE DEF port
  <2>5. Says(p, q) \in Metadata
    BY <2>1, <2>2, <2>4 DEF Metadata
  <2>6. phase[q] # "load" /\ Loaded(q)
    BY <1>2 DEF StartInv, Configured, Alive
  <2>7. Says(p, q).start = starts[q]
    BY <2>1
  <2>. QED BY <1>2, <2>2, <2>5, <2>6, <2>7 DEF Right
<1>. QED BY <1>1, <1>2

\* Two that live tell each other what they know, and one of them may go on.
LEMMA ExchangeStep ==
    ASSUME StartInv, NEW p \in Proc, NEW q \in Proc, Alive(p), Alive(q), Exchange(p, q),
           \/ phase' = phase
           \/ phase[p] = "join" /\ Goes(p, "grpc"),
           UNCHANGED <<input, starts, cfg, bound, address>>
    PROVE  StartInv'
<1>1. phase \in [Proc -> Phase] /\ meta \in [Proc -> [Proc -> Metadata]]
  BY DEF StartInv, Shape
<1>2. ASSUME NEW r \in Proc PROVE /\ Alive(r)' <=> Alive(r)
                                  /\ phase[r] # "load" <=> phase'[r] # "load"
  BY <1>1 DEF Goes, Alive
<1>3. ASSUME NEW r \in Proc, NEW s \in Proc
      PROVE  /\ Right(meta'[r][s], s)
             /\ meta'[r][s] = meta[r][s] \/ Alive(r)
  <2>1. Right(meta[r][s], s) /\ Right(Says(p, s), s) /\ Right(Says(q, s), s)
    BY SaysRight DEF StartInv, Shape, Known, Right
  <2>2. meta'[r][s] = IF r \in {p, q} /\ s # r THEN Later(Says(p, s), Says(q, s)) ELSE meta[r][s]
    BY DEF Exchange
  <2>. QED BY <2>1, <2>2 DEF Later
<1>4. Shape'
  <2>1. phase' \in [Proc -> Phase]
    BY <1>1 DEF Goes, Phase
  <2>2. meta' \in [Proc -> [Proc -> Metadata]]
    <3>1. \A r, s \in Proc : meta'[r][s] \in Metadata
      BY <1>3 DEF Right
    <3>2. meta' = [r \in Proc |-> [s \in Proc |-> meta'[r][s]]]
      BY DEF Exchange
    <3>. QED BY <3>1, <3>2
  <2>. QED BY <2>1, <2>2 DEF StartInv, Shape
<1>5. Listening'
  BY <1>1 DEF StartInv, Listening, Goes
<1>6. AsAsked'
  BY DEF StartInv, AsAsked
<1>7. Configured'
  BY <1>2, LoadedStays DEF StartInv, Configured
<1>8. Known'
  <2>. SUFFICES ASSUME NEW r \in Proc, NEW s \in Proc
                PROVE  /\ meta'[r][s] # Nothing => Alive(r)'
                       /\ meta'[r][s].start <= starts[s]
                       /\ meta'[r][s].start = starts[s] =>
                            phase'[s] # "load" /\ Loaded(s) /\ meta'[r][s] = Says(s, s)
    BY LoadedStays DEF Known
  <2>. QED BY <1>2, <1>3 DEF StartInv, Known, Right
<1>9. Called'
  BY <1>2, LoadedStays DEF StartInv, Called
<1>. QED BY <1>4, <1>5, <1>6, <1>7, <1>8, <1>9 DEF StartInv

LEMMA JoinStep ==
    ASSUME StartInv, NEW p \in Proc, Join(p)
    PROVE  StartInv'
<1>1. phase[p] = "join" /\ UNCHANGED <<input, starts, cfg>> /\ Alive(p)
  BY DEF Join, Alive
<1>2. CASE input[p].seeds # {} /\ Answering(p) = {}
  BY <1>1, <1>2, FatalStep DEF Join
<1>3. CASE input[p].seeds # {} /\ Answering(p) # {}
  <2>1. PICK q \in Answering(p) : Exchange(p, q) /\ Goes(p, "grpc") /\ UNCHANGED <<bound, address>>
    BY <1>3 DEF Join
  <2>2. q \in Proc /\ Alive(q)
    BY DEF Answering
  <2>. QED BY <1>1, <2>1, <2>2, ExchangeStep
<1>4. CASE input[p].seeds = {}
  <2>1. Goes(p, "grpc") /\ UNCHANGED <<bound, address, meta>>
    BY <1>4 DEF Join
  <2>2. phase \in [Proc -> Phase]
    BY DEF StartInv, Shape
  <2>3. \A q \in Proc : phase'[q] = IF q = p THEN "grpc" ELSE phase[q]
    BY <2>1, <2>2 DEF Goes
  <2>4. Shape'
    <3>1. phase' \in [Proc -> Phase]
      BY <2>1, <2>2 DEF Goes, Phase
    <3>. QED BY <1>1, <2>1, <3>1 DEF StartInv, Shape
  <2>5. Listening' /\ AsAsked'
    BY <1>1, <2>1, <2>3 DEF StartInv, Listening, AsAsked
  <2>6. ASSUME NEW q \in Proc PROVE /\ Alive(q)' <=> Alive(q)
                                    /\ phase[q] # "load" => phase'[q] # "load"
    BY <1>1, <2>3 DEF Alive
  <2>7. Configured'
    BY <1>1, <2>6, LoadedStays DEF StartInv, Configured
  <2>8. Known'
    BY <1>1, <2>1, <2>6, LoadedStays DEF StartInv, Known
  <2>9. Called'
    BY <1>1, <2>1, <2>6, LoadedStays DEF StartInv, Called
  <2>. QED BY <2>4, <2>5, <2>7, <2>8, <2>9 DEF StartInv
<1>. QED BY <1>2, <1>3, <1>4

LEMMA GossipStep ==
    ASSUME StartInv, NEW p \in Proc, NEW q \in Proc, Gossip(p, q)
    PROVE  StartInv'
  BY ExchangeStep DEF Gossip

LEMMA NotifyStep ==
    ASSUME StartInv, NEW p \in Proc, NEW q \in Proc, NotifyJoin(p, q) \/ NotifyLeave(p, q)
    PROVE  StartInv'
<1>1. UNCHANGED <<input, starts, phase, cfg, bound>> /\ meta[p][q] # Nothing
  BY DEF NotifyJoin, NotifyLeave
<1>2. address \in [Proc -> [Proc -> Address]] /\ meta \in [Proc -> [Proc -> Metadata]]
  BY DEF StartInv, Shape
<1>. DEFINE port == IF meta[p][q].grpc # NoPort THEN meta[p][q].grpc ELSE cfg[p].GRPC_PORT
            new == [start |-> meta[p][q].start, port |-> port]
<1>3. PICK a : /\ address' = [address EXCEPT ![p][q] = a]
               /\ a \in {Nowhere, new}
  BY DEF NotifyJoin, NotifyLeave
<1>4. meta' \in [Proc -> [Proc -> Metadata]]
      /\ \A r, s \in Proc : meta'[r][s] \in {meta[r][s], Nothing}
  <2>1. meta' = meta \/ meta' = [meta EXCEPT ![p][q] = Nothing]
    BY DEF NotifyJoin, NotifyLeave
  <2>2. CASE meta' = meta
    BY <1>2, <2>2
  <2>3. CASE meta' = [meta EXCEPT ![p][q] = Nothing]
    <3>1. meta' \in [Proc -> [Proc -> Metadata]]
      BY <1>2, <2>3, NothingHasShape
    <3>. QED BY <1>2, <2>3, <3>1
  <2>. QED BY <2>1, <2>2, <2>3
<1>5. meta[p][q].start \in 0 .. MaxStarts /\ meta[p][q].grpc \in NoPort .. Word - 1
  BY <1>2 DEF Metadata
<1>6. port \in NoPort .. Word - 1
  <2>1. cfg[p].GRPC_PORT \in 0 .. Word - 1 /\ Word \in Nat
    BY PortSettings, StartupAssumption DEF StartInv
  <2>. QED BY <1>5, <2>1 DEF NoPort
<1>7. new.start = meta[p][q].start /\ new.port = port
  OBVIOUS
<1>8. a \in Address
  <2>1. new \in Address
    BY <1>5, <1>6 DEF Address
  <2>. QED BY <1>3, <2>1, NothingHasShape
<1>9. \A i, j \in Proc : address'[i][j] = IF i = p /\ j = q THEN a ELSE address[i][j]
  BY <1>2, <1>3
<1>10. Shape'
  <2>1. address' \in [Proc -> [Proc -> Address]]
    BY <1>2, <1>3, <1>8
  <2>. QED BY <1>1, <1>4, <2>1 DEF StartInv, Shape
<1>11. Listening' /\ AsAsked'
  BY <1>1 DEF StartInv, Listening, AsAsked
<1>12. Configured'
  BY <1>1, LoadedStays DEF StartInv, Configured, Alive
<1>13. Known'
  <2>. SUFFICES ASSUME NEW r \in Proc, NEW s \in Proc
                PROVE  /\ meta'[r][s] # Nothing => Alive(r)
                       /\ meta'[r][s].start <= starts[s]
                       /\ meta'[r][s].start = starts[s] =>
                            phase[s] # "load" /\ Loaded(s) /\ meta'[r][s] = Says(s, s)
    BY <1>1, LoadedStays DEF Known, Alive
  <2>1. Nothing.start = 0
    BY DEF Nothing
  <2>. QED BY <1>4, <2>1, Unknown DEF StartInv, Known
\* The new address is what q would still say, if it is q's last start that said it.
<1>14. /\ a # Nowhere => Alive(p)
       /\ a.start <= starts[q]
       /\ a.start = starts[q] =>
            /\ phase[q] # "load"
            /\ a.port = IF Marshal(q) THEN cfg[q].GRPC_PORT ELSE cfg[p].GRPC_PORT
  <2>1. CASE a = Nowhere
    <3>1. Nowhere.start = 0
      BY DEF Nowhere
    <3>. QED BY <2>1, <3>1, Unknown DEF StartInv
  <2>2. CASE a = new
    <3>1. Alive(p) /\ a.start <= starts[q]
      BY <1>1, <1>7, <2>2 DEF StartInv, Known
    <3>2. ASSUME a.start = starts[q]
          PROVE  /\ phase[q] # "load"
                 /\ port = IF Marshal(q) THEN cfg[q].GRPC_PORT ELSE cfg[p].GRPC_PORT
      <4>1. phase[q] # "load" /\ meta[p][q] = Says(q, q)
        BY <1>7, <2>2, <3>2 DEF StartInv, Known
      <4>2. Says(q, q).grpc = IF Marshal(q) THEN cfg[q].GRPC_PORT ELSE NoPort
        BY DEF Says
      <4>3. cfg[q].GRPC_PORT # NoPort
        <5>1. cfg[q].GRPC_PORT \in 0 .. Word - 1 /\ Word \in Nat
          BY PortSettings, StartupAssumption DEF StartInv
        <5>. QED BY <5>1 DEF NoPort
      <4>. QED BY <4>1, <4>2, <4>3
    <3>. QED BY <1>7, <2>2, <3>1, <3>2
  <2>. QED BY <1>3, <2>1, <2>2
<1>. HIDE DEF new, port
<1>15. Called'
  <2>. SUFFICES ASSUME NEW r \in Proc, NEW s \in Proc
                PROVE  /\ address'[r][s] # Nowhere => Alive(r)
                       /\ address'[r][s].start <= starts[s]
                       /\ address'[r][s].start = starts[s] =>
                            /\ phase[s] # "load"
                            /\ address'[r][s].port =
                                IF Marshal(s) THEN cfg[s].GRPC_PORT ELSE cfg[r].GRPC_PORT
    BY <1>1, LoadedStays DEF Called, Alive
  <2>1. CASE r = p /\ s = q
    BY <1>9, <1>14, <2>1
  <2>2. CASE ~ (r = p /\ s = q)
    <3>1. address'[r][s] = address[r][s]
      BY <1>9, <2>2
    <3>. QED BY <3>1 DEF StartInv, Called
  <2>. QED BY <2>1, <2>2
<1>. QED BY <1>10, <1>11, <1>12, <1>13, <1>15 DEF StartInv

\* Another start of p, of which nobody can know yet.
LEMMA RestartStep ==
    ASSUME StartInv, NEW p \in Proc, Restart(p)
    PROVE  StartInv'
<1>1. PICK in \in Again[p] : input' = [input EXCEPT ![p] = [in EXCEPT !.name = input[p].name]]
  BY DEF Restart
<1>2. /\ phase[p] = "dead" /\ Goes(p, "load")
      /\ starts[p] < MaxStarts /\ starts' = [starts EXCEPT ![p] = @ + 1]
      /\ cfg' = cfg /\ bound' = bound /\ meta' = meta /\ address' = address
  BY DEF Restart
<1>3. phase \in [Proc -> Phase] /\ starts \in [Proc -> 1 .. MaxStarts] /\ MaxStarts \in Nat
      /\ DOMAIN input = Proc
  BY StartupAssumption DEF StartInv, Shape
<1>4. \A q \in Proc : phase'[q] = IF q = p THEN "load" ELSE phase[q]
  BY <1>2, <1>3 DEF Goes
<1>5. \A q \in Proc : starts'[q] = IF q = p THEN starts[q] + 1 ELSE starts[q]
  BY <1>2, <1>3
<1>6. \A q \in Proc : q # p => input'[q] = input[q]
  BY <1>1, <1>3
<1>7. InputType(input'[p])
  <2>1. InputType(in) /\ InputType(input[p])
    BY StartupAssumption DEF StartInv, Shape
  <2>2. input'[p] = [in EXCEPT !.name = input[p].name]
    BY <1>1, <1>3
  <2>3. /\ DOMAIN input'[p] = DOMAIN in
        /\ input'[p].flag = in.flag /\ input'[p].env = in.env /\ input'[p].read = in.read
        /\ input'[p].seeds = in.seeds
        /\ input'[p].name = input[p].name
    BY <2>1, <2>2 DEF InputType
  <2>. QED BY <2>1, <2>3 DEF InputType
<1>8. Shape'
  <2>1. phase' \in [Proc -> Phase]
    BY <1>2, <1>3 DEF Goes, Phase
  <2>2. starts' \in [Proc -> 1 .. MaxStarts]
    BY <1>2, <1>3
  <2>3. DOMAIN input' = Proc
    BY <1>1, <1>3
  <2>4. \A q \in Proc : InputType(input'[q])
    BY <1>6, <1>7 DEF StartInv, Shape
  <2>. QED BY <1>2, <2>1, <2>2, <2>3, <2>4 DEF StartInv, Shape
<1>9. Listening'
  BY <1>2, <1>4 DEF StartInv, Listening
<1>10. AsAsked'
  BY <1>2 DEF StartInv, AsAsked
<1>11. ASSUME NEW q \in Proc
       PROVE  /\ Alive(q)' <=> Alive(q)
              /\ Alive(q) => q # p
              /\ q # p => /\ Loaded(q)' <=> Loaded(q)
                          /\ Says(q, q)' = Says(q, q)
                          /\ Marshal(q)' <=> Marshal(q)
                          /\ phase'[q] = phase[q] /\ starts'[q] = starts[q]
  BY <1>2, <1>4, <1>5, <1>6 DEF Alive, Loaded, Says, Marshal, MetaSize
<1>12. Configured'
  BY <1>11 DEF StartInv, Configured
\* The words about p and the addresses of it are those of an earlier start.
<1>13. ASSUME NEW n \in Nat, n <= starts[p] PROVE n <= starts'[p] /\ n # starts'[p]
  BY <1>3, <1>5, <1>13
<1>14. \A r, s \in Proc : meta[r][s].start \in Nat /\ address[r][s].start \in Nat
  BY <1>3 DEF StartInv, Shape, Metadata, Address
<1>15. Known'
  <2>. SUFFICES ASSUME NEW r \in Proc, NEW s \in Proc
                PROVE  /\ meta[r][s] # Nothing => Alive(r)
                       /\ meta[r][s].start <= starts'[s]
                       /\ meta[r][s].start = starts'[s] =>
                            phase'[s] # "load" /\ Loaded(s)' /\ meta[r][s] = Says(s, s)'
    BY <1>2, <1>11 DEF Known
  <2>. QED BY <1>11, <1>13, <1>14 DEF StartInv, Known
<1>16. Called'
  <2>. SUFFICES ASSUME NEW r \in Proc, NEW s \in Proc
                PROVE  /\ address[r][s] # Nowhere => Alive(r)
                       /\ address[r][s].start <= starts'[s]
                       /\ address[r][s].start = starts'[s] =>
                            /\ phase'[s] # "load"
                            /\ address[r][s].port =
                                IF Marshal(s)' THEN cfg[s].GRPC_PORT ELSE cfg[r].GRPC_PORT
    BY <1>2, <1>11 DEF Called
  <2>. QED BY <1>11, <1>13, <1>14 DEF StartInv, Called
<1>. QED BY <1>8, <1>9, <1>10, <1>12, <1>15, <1>16 DEF StartInv

-----------------------------------------------------------------------------
(* The theorems.                                                            *)

\* What a process has passed, holds, knows and calls fits together, for any number of
\* processes, inputs and ports.
THEOREM StartInvariant == Spec => []StartInv
<1>1. ASSUME Init PROVE StartInv
  <2>1. Shape
    <3>1. DOMAIN input = Proc /\ \A p \in Proc : InputType(input[p])
      BY <1>1, StartupAssumption DEF Init
    <3>2. phase \in [Proc -> Phase]
      BY <1>1 DEF Init, Phase
    <3>3. DOMAIN cfg = Proc /\ \A p \in Proc, s \in Setting : cfg[p][s] \in Legal(s)
      BY <1>1, StartupAssumption DEF Init
    <3>4. bound \in [Proc -> [cluster : Int, grpc : Int, http : Int]]
      BY <1>1 DEF Init, Unbound, NoPort
    <3>5. address \in [Proc -> [Proc -> Address]] /\ meta \in [Proc -> [Proc -> Metadata]]
      BY <1>1, NothingHasShape DEF Init
    <3>6. starts \in [Proc -> 1 .. MaxStarts]
      BY <1>1, StartupAssumption DEF Init
    <3>. QED BY <3>1, <3>2, <3>3, <3>4, <3>5, <3>6 DEF Shape
  <2>2. \A p \in Proc : phase[p] = "load" /\ bound[p] = Unbound
    BY <1>1 DEF Init
  <2>3. Unbound.cluster = NoPort /\ Unbound.grpc = NoPort /\ Unbound.http = NoPort
    BY DEF Unbound
  <2>4. Listening /\ AsAsked
    BY <2>2, <2>3 DEF Listening, AsAsked
  <2>5. \A p, q \in Proc : meta[p][q] = Nothing /\ address[p][q] = Nowhere
    BY <1>1 DEF Init
  <2>6. Nothing.start = 0 /\ Nowhere.start = 0
    BY DEF Nothing, Nowhere
  <2>7. Configured /\ Known /\ Called
    BY <2>1, <2>2, <2>5, <2>6, Unknown DEF Configured, Known, Called, Alive
  <2>. QED BY <2>1, <2>4, <2>7 DEF StartInv
<1>2. ASSUME StartInv, [Next]_vars PROVE StartInv'
  <2>1. CASE \E p \in Proc : Main(p) \/ Stop(p) \/ Restart(p)
    BY <1>2, <2>1, LoadStep, ListenerStep, JoinStep, FatalStep, RestartStep DEF Main, Stop
  <2>2. CASE UNCHANGED vars
    <3>1. Shape' /\ Listening' /\ AsAsked'
      BY <1>2, <2>2 DEF vars, StartInv, Shape, Listening, AsAsked
    <3>2. Configured' /\ Known' /\ Called'
      BY <1>2, <2>2, LoadedStays DEF vars, StartInv, Configured, Known, Called, Alive
    <3>. QED BY <3>1, <3>2 DEF StartInv
  <2>3. CASE \E p, q \in Proc : \/ Gossip(p, q) \/ NotifyJoin(p, q)
                                \/ NotifyUpdate(p, q) \/ NotifyLeave(p, q)
    BY <1>2, <2>2, <2>3, GossipStep, NotifyStep DEF NotifyUpdate
  <2>. QED BY <1>2, <2>1, <2>2, <2>3 DEF Next
<1>. QED BY <1>1, <1>2, PTL DEF Spec

\* The state keeps its shape, and the ports of a process follow its phase.
THEOREM StartTypeCorrect == Spec => []TypeOK
<1>1. StartInv => TypeOK
  BY DEF StartInv, Shape, Listening, TypeOK, Unbound, Metadata, Address
<1>. QED BY <1>1, StartInvariant, PTL

\* A flag that is given decides, else the environment, else the default.
LEMMA PortAsTold ==
    ASSUME NEW in, InputType(in), NEW l \in Uint32
    PROVE  /\ in.read /\ in.flag[l] \in 1 .. Word - 1 => SettingOf(in, l) = in.flag[l]
           /\ (~ in.read \/ in.flag[l] = 0) /\ in.env[l] \in 1 .. Word - 1 =>
                    SettingOf(in, l) \in {in.env[l], Rejected}
           /\ (~ in.read \/ in.flag[l] = 0) /\ in.env[l] = Unset => SettingOf(in, l) = Default[l]
<1>1. Word \in Nat /\ l \in Setting /\ l \notin Named
  BY StartupAssumption DEF Uint32, Setting, Named
<1>2. Zero(l) = 0 /\ Legal(l) = 0 .. Word - 1 /\ Unset \notin Legal(l)
  BY <1>1, StartupAssumption DEF Zero, Legal, Named, Uint32
<1>3. ASSUME in.read, in.flag[l] \in 1 .. Word - 1 PROVE SettingOf(in, l) = in.flag[l]
  <2>1. FlagOf(in, l) = in.flag[l] /\ FlagOf(in, l) # Zero(l)
    BY <1>1, <1>2, <1>3 DEF FlagOf
  <2>2. in.flag[l] % Word = in.flag[l]
    BY <1>1, <1>3
  <2>. QED BY <2>1, <2>2 DEF SettingOf, FromFlag
<1>4. ASSUME ~ in.read \/ in.flag[l] = 0 PROVE FlagOf(in, l) = Zero(l)
  BY <1>2, <1>4 DEF FlagOf
<1>5. ASSUME in.env[l] \in 1 .. Word - 1, ~ in.read \/ in.flag[l] = 0
      PROVE  SettingOf(in, l) \in {in.env[l], Rejected}
  <2>1. in.env[l] \in Legal(l)
    BY <1>1, <1>2, <1>5
  <2>. QED BY <1>2, <1>4, <1>5, <2>1 DEF SettingOf, FromEnv
<1>. QED BY <1>3, <1>4, <1>5 DEF SettingOf

\* A process that serves listens where it was told to, whatever flags, variables and
\* defaults say and whatever ports others take.
THEOREM ServersListenWhereTold == Spec => []ListensWhereTold
<1>1. ASSUME StartInv PROVE ListensWhereTold
  <2>. SUFFICES ASSUME NEW p \in Proc, NEW l \in Uint32, phase[p] = "serving"
                PROVE  LET in == input[p]
                           port == IF l = "HTTP_PORT" THEN bound[p].http ELSE bound[p].grpc
                       IN  /\ in.read /\ in.flag[l] \in 1 .. Word - 1 => port = in.flag[l]
                           /\ (~ in.read \/ in.flag[l] = 0) /\ in.env[l] \in 1 .. Word - 1 =>
                                    port = in.env[l]
                           /\ (~ in.read \/ in.flag[l] = 0) /\ in.env[l] = Unset =>
                                    port = Default[l]
    BY DEF ListensWhereTold, Uint32
  <2>. DEFINE port == IF l = "HTTP_PORT" THEN bound[p].http ELSE bound[p].grpc
  <2>1. Loaded(p) /\ InputType(input[p]) /\ l \in Setting
    BY <1>1 DEF StartInv, Configured, Alive, Shape, Uint32, Setting
  <2>2. cfg[p][l] = SettingOf(input[p], l) /\ SettingOf(input[p], l) # Rejected
    BY <2>1 DEF Loaded, Rejects
  <2>3. cfg[p][l] # 0 => port = cfg[p][l]
    BY <1>1 DEF StartInv, Listening, AsAsked, Uint32
  <2>4. Default[l] # 0 /\ Word \in Nat
    BY StartupAssumption
  <2>. HIDE DEF port
  <2>5. 0 \notin 1 .. Word - 1
    BY <2>4
  <2>6. /\ input[p].read /\ input[p].flag[l] \in 1 .. Word - 1 => port = input[p].flag[l]
        /\ (~ input[p].read \/ input[p].flag[l] = 0) /\ input[p].env[l] \in 1 .. Word - 1 =>
                port = input[p].env[l]
        /\ (~ input[p].read \/ input[p].flag[l] = 0) /\ input[p].env[l] = Unset =>
                port = Default[l]
    BY <2>1, <2>2, <2>3, <2>4, <2>5, PortAsTold
  <2>. QED BY <2>6 DEF port
<1>. QED BY <1>1, StartInvariant, PTL

\* Whom peers have been told of was started without a mistake in its settings.
THEOREM MistakesAreNotAnnounced == Spec => []MistakesStayPrivate
<1>1. StartInv => MistakesStayPrivate
  BY DEF StartInv, Shape, Known, Loaded, MistakesStayPrivate
<1>. QED BY <1>1, StartInvariant, PTL

\* Between nodes that serve, the address a peer has made up is where the node listens,
\* however often the two have been started, if this start of the node has announced it.
THEOREM CallsArrive == Spec => []ServingNodesAreReached
<1>1. StartInv => ServingNodesAreReached
  BY DEF StartInv, Listening, AsAsked, Called, Marshal, MetaSize, ServingNodesAreReached
<1>. QED BY <1>1, StartInvariant, PTL
=============================================================================
