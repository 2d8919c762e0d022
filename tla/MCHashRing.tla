----------------------------- MODULE MCHashRing -----------------------------
(* Three nodes with two virtual nodes each. The points lie on both sides of *)
(* the wrap-around, and n1 and n3 collide at 4.                             *)
EXTENDS HashRing

MCHash == [p \in Point |->
    CASE p = <<"n1", 0>> -> 1
      [] p = <<"n1", 1>> -> 4
      [] p = <<"n2", 0>> -> 2
      [] p = <<"n2", 1>> -> 5
      [] p = <<"n3", 0>> -> 0
      [] p = <<"n3", 1>> -> 4]

\* memberlist calls the event delegate one event at a time.
MCEvents == [c \in {"events"} |-> Node]

\* NewManager adds the own name, n1, while events of peers may come.
MCBoot == [c \in {"main", "events"} |-> IF c = "main" THEN {"n1"} ELSE {"n2", "n3"}]
=============================================================================
