----------------------------- MODULE MCRTDumps -----------------------------
(* RTDumps for TLC                                                         *)
EXTENDS RTDumps, TLC

CONSTANTS c1, c2, p1, p2, Kinds

OneCollector == [p \in Peers |-> c1]
OneStream == {[first |-> FirstTime, kinds |-> Kinds]}
TwoCollectors == [p \in Peers |-> IF p = p1 THEN c1 ELSE c2]

\* The two collectors, each with its peer, are interchangeable
Swap == {(p1 :> p2) @@ (p2 :> p1) @@ (c1 :> c2) @@ (c2 :> c1)}
=============================================================================
