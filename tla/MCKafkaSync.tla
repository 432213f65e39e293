----------------------------- MODULE MCKafkaSync -----------------------------
EXTENDS KafkaSync

(* Two prefixes of IPv4 and one of IPv6; full feed is both IPv4 prefixes,  *)
(* or the IPv6 one.  Between these views a path changes, a peer drops      *)
(* below full feed and comes back, a cell, a peer and a prefix disappear.  *)
MCViews == {
  {<<"a", "p", "x">>, <<"b", "p", "x">>, <<"s", "q", "x">>},
  {<<"a", "p", "y">>, <<"b", "p", "x">>, <<"a", "q", "x">>, <<"b", "q", "x">>},
  {<<"a", "p", "x">>, <<"a", "q", "x">>, <<"s", "q", "y">>} }
MCV6 == {"s"}
==============================================================================
