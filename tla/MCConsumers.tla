---------------------------- MODULE MCConsumers ----------------------------
(***************************************************************************)
(* Small address plan, tables and command lines for ConsumerHistory.       *)
(***************************************************************************)
EXTENDS ConsumerHistory

MCPfx == {"dflt", "a", "a1", "a2", "a11", "b", "c", "s"}

MCMaskLen ==
    [p \in MCPfx |-> CASE p = "dflt" -> 0 [] p = "a" -> 16 [] p \in {"a1", "a2", "c"} -> 24
                       [] p = "a11" -> 28 [] p = "b" -> 4 [] p = "s" -> 32]

MCCovers ==
    {<<"dflt", p>> : p \in MCPfx \ {"dflt", "s"}}
      \cup {<<"a", "a1">>, <<"a", "a2">>, <<"a", "a11">>, <<"a1", "a11">>}

MCPeers == 1 .. 3

MCPeerAsn == <<1, 2, 2>>

MCPeerId == <<11, 12, 13>>

MCFullFeedSize == [ver \in {4, 6} |-> IF ver = 4 THEN 2 ELSE 1]

(* 9 is an AS set; 71, 72 and 73 stand for AS numbers of seven digits.     *)
MCSetSegs == {9}

MCAsnDigits == [n \in 0 .. 99 |-> IF n \in 71 .. 73 THEN 7 ELSE 1]

(* Tables are written as rows; b and c keep peers 1 and 2 full-feed.       *)
Rows(r) == [p \in MCPfx |-> IF p \in DOMAIN r THEN r[p] ELSE [q \in {} |-> <<>>]]

Feed == <<<<1, 5>>, <<2, 5>>>>

Both(x, y) == <<x, y>>

Only(q, path) == [r \in {q} |-> path]

EventRibs ==
    {Rows([b |-> Feed, c |-> Feed, a |-> Both(<<1, 3, 4>>, <<2, 3, 6>>)]),
     Rows([b |-> Feed, c |-> Feed, a |-> Both(<<1, 3, 4>>, <<2, 3, 4>>)]),
     Rows([b |-> Feed, c |-> Feed]),
     Rows([b |-> Feed, c |-> Feed, dflt |-> Both(<<1, 7>>, <<2, 8>>),
           a |-> <<<<1, 3, 3, 9, 4>>, <<2, 9>>, <<3, 8>>>>]),
     Rows([b |-> Feed, c |-> Feed, a |-> Both(<<71, 72, 73>>, <<2, 6>>)]),
     Rows([b |-> Feed, c |-> Feed, a |-> Both(<<>>, <<2, 6>>)])}

OriginRibs ==
    {Rows([b |-> Feed, c |-> Feed, a |-> Only(1, <<1, 4>>), a1 |-> Only(3, <<2, 7>>),
           s |-> Only(2, <<2, 4>>)]),
     Rows([b |-> Feed, c |-> Feed, a |-> Both(<<1, 4>>, <<2, 6>>)]),
     Rows([s |-> Only(3, <<2, 4>>)]),
     Rows([b |-> Feed, c |-> Feed, a |-> [q \in {1, 3} |-> IF q = 1 THEN <<1, 5, 4>> ELSE <<2, 4>>]]),
     Rows([a |-> Only(2, <<2, 6>>)])}

SpaceRibs ==
    {Rows([b |-> Feed, c |-> Feed]),
     Rows([b |-> Feed, c |-> Feed, a |-> Feed, a1 |-> Only(1, <<1, 6>>)]),
     Rows([b |-> Feed, c |-> Feed, a1 |-> Only(1, <<1, 6>>), a2 |-> Only(1, <<1, 6>>)]),
     Rows([b |-> Feed, c |-> Feed, a |-> Feed, a1 |-> Feed, a11 |-> Only(2, <<2, 6>>), dflt |-> Feed]),
     Rows([b |-> Feed, a2 |-> Feed, a11 |-> Only(2, <<2, 6>>)])}

CountRibs ==
    {Rows([b |-> Feed, c |-> Feed, a |-> Both(<<1, 4>>, <<2, 6>>)]),
     Rows([b |-> Feed, c |-> Feed, a |-> Only(1, <<1, 3, 4>>)]),
     Rows([b |-> Feed, c |-> Feed, a |-> [q \in {2, 3} |-> <<2, 6>>]]),
     Rows([s |-> Only(3, <<2, 6>>), a |-> Only(3, <<2, 4>>)])}

GeoRibs ==
    {Rows([b |-> Feed, c |-> Feed, a |-> Feed]),
     Rows([b |-> Feed, c |-> Feed, a1 |-> Feed]),
     Rows([b |-> Feed, c |-> Feed]),
     Rows([a |-> Only(1, <<1, 4>>)])}

FileRibs ==
    {Rows([a |-> Both(<<1, 4>>, <<2, 6>>), c |-> Only(2, <<2, 6>>)]),
     Rows([s |-> Only(3, <<>>)])}

UpOrder == <<"a11", "a1", "a2", "a", "b", "c", "s", "dflt">>

Job(cmds, ribs, gaps, views) ==
    [cmds |-> cmds, ribs |-> ribs, gaps |-> gaps, views |-> views, orders |-> {UpOrder},
     rot |-> [interval |-> 10, align |-> TRUE], lives |-> 1, faults |-> FALSE]

MCJobs ==
    <<Job(<<"visibility", "moas", "edges", "triplets">>, EventRibs, {5, 15}, 4),
      Job(<<"visibility", "announcedpfxs", "pfxorigins", "perasvisibility", "pathchange",
            "peerpfxorigins">>, OriginRibs, {5, 10}, 4),
      [Job(<<"visibility", "subpfx", "routedspace">>, SpaceRibs, {10}, 4)
          EXCEPT !.orders = {UpOrder, Reverse(UpOrder)}],
      Job(<<"visibility", "pfx2as">>, CountRibs, {5, 10}, 5),
      Job(<<"visibility", "pergeovisibility">>, GeoRibs, {5, 10}, 4),
      [Job(<<"archiver">>, FileRibs, {5}, 3) EXCEPT !.lives = 2],
      [Job(<<"archiver">>, {CHOOSE r \in FileRibs : TRUE}, {5, 10}, 3)
          EXCEPT !.rot.align = FALSE, !.lives = 2],
      [Job(<<"archiver">>, {CHOOSE r \in FileRibs : TRUE}, {5, 10}, 2)
          EXCEPT !.rot.interval = 0, !.lives = 2],
      [Job(<<"visibility", "edges", "moas", "visibility", "archiver", "pathchange",
             "announcedpfxs">>, {CHOOSE r \in CountRibs : TRUE}, {5, 10}, 3) EXCEPT !.faults = TRUE],
      Job(<<"moas">>, EventRibs, {5}, 1),
      Job(<<"edges", "subpfx">>, EventRibs, {5}, 2)>>

=============================================================================
