----------------------------- MODULE MCStartup -----------------------------
(* Two processes, "a" at the ports 1, 2, 3 and "b" at 4, 5, 6 of a host      *)
(* with seven, one unusual thing about each: a flag, a variable, the length *)
(* of the name, or the seeds. Ports have four bits: 8 to 15 do not exist,   *)
(* 18 is cut off to 2. "a" may be started again once, at another gRPC port, *)
(* with a mistake, or as before.                                            *)
EXTENDS Startup

MCDefault == [HTTP_PORT |-> 1, GRPC_PORT |-> 2, CLUSTER_PORT |-> 3, STORAGE_SIZE |-> 1,
              EVICTION_ALGORITHM |-> "FIFO", LOG_LEVEL |-> "info"]

NoFlags == [s \in Setting |-> Zero(s)]
NoEnv == [s \in Setting |-> Unset]
Env(p) == IF p = "a" THEN NoEnv
          ELSE [NoEnv EXCEPT !["HTTP_PORT"] = 4, !["GRPC_PORT"] = 5, !["CLUSTER_PORT"] = 6]

Usual(p) == [flag |-> NoFlags, env |-> Env(p), read |-> TRUE, name |-> 4,
             seeds |-> IF p = "a" THEN {} ELSE {3}]

\* What a setting may be given as.
Flags(s) == IF s \in Named THEN {"LRU", Malformed} \ (IF s = "LOG_LEVEL" THEN {"LRU"} ELSE {})
            ELSE IF s \in Uint32 THEN {2, 7, 9, 16, 18, Malformed}
            ELSE IF s = "CLUSTER_PORT" THEN {-1, 2, 7, Malformed} ELSE {-1, Malformed}
Envs(s) == IF s = "LOG_LEVEL" THEN {"debug", Malformed}
           ELSE IF s = "EVICTION_ALGORITHM" THEN {"NONE", Malformed}
           ELSE IF s = "STORAGE_SIZE" THEN {0, Malformed} ELSE {0, 2, 9, 16, Malformed}

Unusual(p) ==
    LET u == Usual(p)
    IN  {u} \cup UNION {{[u EXCEPT !.flag[s] = f] : f \in Flags(s)} : s \in Setting}
            \cup UNION {{[u EXCEPT !.flag[s] = f, !.read = FALSE] : f \in {2, Malformed}} : s \in Uint32}
            \cup UNION {{[u EXCEPT !.env[s] = e] : e \in Envs(s)} : s \in Setting}
            \cup {[u EXCEPT !.name = n] : n \in {5, 6}}
            \cup {[u EXCEPT !.seeds = n] : n \in {{}, {3, 7}, {6}, {7}}}

MCAgain == [p \in {"a", "b"} |->
    IF p = "b" THEN {} ELSE {Usual(p), [Usual(p) EXCEPT !.flag["GRPC_PORT"] = 7],
                             [Usual(p) EXCEPT !.env["LOG_LEVEL"] = Malformed]}]

MCInput == [p \in {"a", "b"} |-> Unusual(p)]
=============================================================================
