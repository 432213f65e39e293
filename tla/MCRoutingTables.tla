-------------------------- MODULE MCRoutingTables --------------------------
(* RoutingTables for TLC                                                   *)
EXTENDS RoutingTables, TLC

CONSTANTS c1, Kinds

OneCollector == [p \in Peers |-> c1]
OneStream == {[first |-> FirstTime, kinds |-> Kinds]}
=============================================================================
