------------------------------ MODULE ViewOps ------------------------------
(***************************************************************************)
(* The operations of lib/bgpview.c as operators from a view to a view.     *)
(*                                                                         *)
(* A view is the three tables of a bgpview_t (peers, prefixes and the      *)
(* pfx-peers of each prefix) together with the counters that the code      *)
(* maintains beside them and the flags that tell bgpview_gc where to look. *)
(* AS paths and user pointers are carried by the entries but never read    *)
(* by these operations; they are left out.                                 *)
(*                                                                         *)
(* An iterator argument becomes the prefix x and the peer p it points at.  *)
(* Where the code walks the whole view, the order in which the hash tables *)
(* present the prefixes is the argument ord.                               *)
(***************************************************************************)
EXTENDS Integers, FiniteSets

CONSTANTS
    Peers,      \* peer ids (bgpstream_peer_id_t)
    V4Pfxs,     \* IPv4 prefixes
    V6Pfxs      \* IPv6 prefixes

Pfxs == V4Pfxs \cup V6Pfxs

ASSUME ConstantsAssumption ==
    /\ IsFiniteSet(Peers)
    /\ IsFiniteSet(V4Pfxs)
    /\ IsFiniteSet(V6Pfxs)
    /\ V4Pfxs \cap V6Pfxs = {}

-----------------------------------------------------------------------------
(* Field states.  "ABSENT" is a key that is not in the table at all; the   *)
(* code treats a pfx-peer that is absent and one that is INVALID alike, so *)
(* pfx-peers only have INVALID.                                            *)

Valid == {"INACTIVE", "ACTIVE"}                 \* BGPVIEW_FIELD_ALL_VALID
FieldState == {"INVALID"} \cup Valid
EntryState == {"ABSENT"} \cup FieldState
Versions == {"v4", "v6"}
Tables == Versions \cup {"peerinfo"}

PfxsOf(ver) == IF ver = "v4" THEN V4Pfxs ELSE V6Pfxs
Version(x) == IF x \in V4Pfxs THEN "v4" ELSE "v6"

Counter == [Valid -> Int]
ZeroCnt == [s \in Valid |-> 0]
Total(c) == c["ACTIVE"] + c["INACTIVE"]

\* n entries go from one state to another: ACTIVATE_FIELD_CNT (from INACTIVE
\* to ACTIVE), DEACTIVATE_FIELD_CNT, and the ++ and -- of the INACTIVE counter
\* (from and to INVALID, which nobody counts), n times over.
Moved(c, from, to, n) ==
    [s \in Valid |-> CASE s = from -> c[s] - n
                       [] s = to -> c[s] + n
                       [] OTHER -> c[s]]

View == [peer         : [Peers -> EntryState],
         pfx          : [Pfxs -> EntryState],
         pp           : [Pfxs -> [Peers -> FieldState]],
         peers_cnt    : [Pfxs -> Counter],
         pfx_cnt      : [Peers -> [Versions -> Counter]],
         pfxs_cnt     : [Versions -> Counter],
         peerinfo_cnt : Counter,
         need_gc      : [Tables -> BOOLEAN]]

\* bgpview_create
EmptyView ==
    [peer         |-> [p \in Peers |-> "ABSENT"],
     pfx          |-> [x \in Pfxs |-> "ABSENT"],
     pp           |-> [x \in Pfxs |-> [p \in Peers |-> "INVALID"]],
     peers_cnt    |-> [x \in Pfxs |-> ZeroCnt],
     pfx_cnt      |-> [p \in Peers |-> [ver \in Versions |-> ZeroCnt]],
     pfxs_cnt     |-> [ver \in Versions |-> ZeroCnt],
     peerinfo_cnt |-> ZeroCnt,
     need_gc      |-> [t \in Tables |-> FALSE]]

-----------------------------------------------------------------------------
(* Walking the whole view                                                  *)

\* Positions in which the tables may present the prefixes: the order inside a
\* hash table is arbitrary, the IPv4 table is walked before the IPv6 one.
Orders == {ord \in [Pfxs -> 1..Cardinality(Pfxs)] :
              /\ \A x, y \in Pfxs : x # y => ord[x] # ord[y]
              /\ \A x \in V4Pfxs, y \in V6Pfxs : ord[x] < ord[y]}

Matching(v, pfx_mask) == {x \in Pfxs : v.pfx[x] \in pfx_mask}
HasPeer(v, x, peer_mask) == \E p \in Peers : v.pp[x][p] \in peer_mask

\* The prefixes whose pfx-peers a loop of first_pfx_peer and next_pfx_peer
\* visits.  first_pfx_peer skips prefixes without a matching pfx-peer;
\* next_pfx_peer does not: it stops the walk at the first one it meets.
Walked(v, pfx_mask, peer_mask, ord) ==
    {x \in Matching(v, pfx_mask) :
        /\ HasPeer(v, x, peer_mask)
        /\ \A y, z \in Matching(v, pfx_mask) :
              ord[z] < ord[y] /\ ord[y] < ord[x] /\ HasPeer(v, z, peer_mask)
                 => HasPeer(v, y, peer_mask)}

-----------------------------------------------------------------------------
(* Changing the state of entries together with the counters over them      *)

\* A peer and peerinfo_cnt of the view
MovePeer(v, p, to) ==
    [v EXCEPT !.peer = [q \in Peers |-> IF q = p THEN to ELSE v.peer[q]],
              !.peerinfo_cnt = Moved(@, v.peer[p], to, 1)]

\* The prefixes G, all in state from, and v4pfxs_cnt, v6pfxs_cnt of the view
MovePfxs(v, G, from, to) ==
    [v EXCEPT
       !.pfx = [x \in Pfxs |-> IF x \in G THEN to ELSE v.pfx[x]],
       !.pfxs_cnt = [ver \in Versions |->
                        Moved(v.pfxs_cnt[ver], from, to,
                              Cardinality(G \cap PfxsOf(ver)))]]

\* The pfx-peers of X \X Q, all in state from, with peers_cnt of the prefixes
\* and v4_pfx_cnt, v6_pfx_cnt of the peers.  X or Q is a singleton: this is
\* what a loop over the prefixes of a peer, or over the peers of a prefix,
\* has done when it ends.
MovePairs(v, X, Q, from, to) ==
    [v EXCEPT
       !.pp = [x \in Pfxs |-> [p \in Peers |->
                  IF x \in X /\ p \in Q THEN to ELSE v.pp[x][p]]],
       !.peers_cnt = [x \in Pfxs |->
                         IF x \in X
                         THEN Moved(v.peers_cnt[x], from, to, Cardinality(Q))
                         ELSE v.peers_cnt[x]],
       !.pfx_cnt = [p \in Peers |-> [ver \in Versions |->
                       IF p \in Q
                       THEN Moved(v.pfx_cnt[p][ver], from, to,
                                  Cardinality(X \cap PfxsOf(ver)))
                       ELSE v.pfx_cnt[p][ver]]]]

-----------------------------------------------------------------------------
(* Adding                                                                  *)

\* bgpview_iter_add_peer
AddPeer(v, p) ==
    IF v.peer[p] \in Valid THEN v ELSE MovePeer(v, p, "INACTIVE")

\* add_pfx
AddPfx(v, x) ==
    IF v.pfx[x] \in Valid THEN v ELSE MovePfxs(v, {x}, v.pfx[x], "INACTIVE")

\* Mutant: the test for a pfx-peer that is already there is missing
PfxAddPeerTwice(v, x, p) == MovePairs(v, {x}, {p}, "INVALID", "INACTIVE")

\* peerid_pfxinfo_insert
PfxAddPeer(v, x, p) ==
    IF v.pp[x][p] \in Valid
    THEN v
    ELSE MovePairs(v, {x}, {p}, "INVALID", "INACTIVE")

\* bgpview_iter_add_pfx_peer: the prefix is added before the peer is looked
\* up, and the look-up does not look at the state of the peer it finds.
AddPfxPeer(v, x, p) ==
    IF v.peer[p] = "ABSENT"
    THEN AddPfx(v, x)
    ELSE PfxAddPeer(AddPfx(v, x), x, p)

\* bgpview_iter_add_pfx_peer_by_id: the peer is looked up first
AddPfxPeerById(v, x, p) ==
    IF v.peer[p] \in Valid
    THEN PfxAddPeer(AddPfx(v, x), x, p)
    ELSE v

-----------------------------------------------------------------------------
(* Activating and deactivating                                             *)

\* bgpview_iter_activate_peer
ActivatePeer(v, p) ==
    IF v.peer[p] # "INACTIVE" THEN v ELSE MovePeer(v, p, "ACTIVE")

\* activate_pfx
ActivatePfx(v, x) ==
    IF v.pfx[x] # "INACTIVE" THEN v ELSE MovePfxs(v, {x}, "INACTIVE", "ACTIVE")

\* Mutant: the first active pfx-peer does not activate its prefix
PfxActivatePeerOnly(v, x, p) ==
    IF v.pp[x][p] # "INACTIVE" THEN v
    ELSE MovePairs(v, {x}, {p}, "INACTIVE", "ACTIVE")

\* bgpview_iter_pfx_activate_peer.  The code asserts that p is ACTIVE.
PfxActivatePeer(v, x, p) ==
    LET w == MovePairs(v, {x}, {p}, "INACTIVE", "ACTIVE")
    IN IF v.pp[x][p] # "INACTIVE" THEN v
       ELSE IF w.peers_cnt[x]["ACTIVE"] = 1 THEN ActivatePfx(w, x)
       ELSE w

\* bgpview_iter_pfx_deactivate_peer on every pfx-peer of X \X Q, all ACTIVE:
\* a prefix whose last active pfx-peer goes is deactivated with it.
DeactivatePairs(v, X, Q) ==
    LET w == MovePairs(v, X, Q, "ACTIVE", "INACTIVE")
        G == {x \in X : w.pfx[x] = "ACTIVE" /\ w.peers_cnt[x]["ACTIVE"] = 0}
    IN MovePfxs(w, G, "ACTIVE", "INACTIVE")

\* Mutant: the last active pfx-peer goes without its prefix
PfxDeactivatePeerOnly(v, x, p) ==
    IF v.pp[x][p] # "ACTIVE" THEN v
    ELSE MovePairs(v, {x}, {p}, "ACTIVE", "INACTIVE")

\* bgpview_iter_pfx_deactivate_peer
PfxDeactivatePeer(v, x, p) ==
    IF v.pp[x][p] # "ACTIVE" THEN v ELSE DeactivatePairs(v, {x}, {p})

\* bgpview_iter_deactivate_pfx
DeactivatePfx(v, x) ==
    IF v.pfx[x] # "ACTIVE"
    THEN v
    ELSE MovePairs(MovePfxs(v, {x}, "ACTIVE", "INACTIVE"),
                   {x}, {p \in Peers : v.pp[x][p] = "ACTIVE"},
                   "ACTIVE", "INACTIVE")

\* Mutant: the peer goes down without its pfx-peers
DeactivatePeerOnly(v, p, ord) ==
    IF v.peer[p] # "ACTIVE" THEN v ELSE MovePeer(v, p, "INACTIVE")

\* bgpview_iter_deactivate_peer
DeactivatePeer(v, p, ord) ==
    LET X == {x \in Walked(v, {"ACTIVE"}, {"ACTIVE"}, ord) :
                 v.pp[x][p] = "ACTIVE"}
        cnt == v.pfx_cnt[p]["v4"]["ACTIVE"] + v.pfx_cnt[p]["v6"]["ACTIVE"]
        w == IF cnt > 0 THEN DeactivatePairs(v, X, {p}) ELSE v
    IN IF v.peer[p] # "ACTIVE" THEN v ELSE MovePeer(w, p, "INACTIVE")

-----------------------------------------------------------------------------
(* Removing                                                                *)

\* Mutant: the flag for the collector is not set
RemovePfxsUnflagged(v, G) == MovePfxs(v, G, "INACTIVE", "INVALID")

\* The end of bgpview_iter_remove_pfx for the prefixes G, all INACTIVE
RemovePfxs(v, G) ==
    [MovePfxs(v, G, "INACTIVE", "INVALID") EXCEPT
       !.need_gc = [t \in Tables |->
                       @[t] \/ (t \in Versions /\ G \cap PfxsOf(t) # {})]]

\* bgpview_iter_remove_pfx
RemovePfx(v, x) ==
    LET w == DeactivatePfx(v, x)
    IN MovePairs(RemovePfxs(w, {x}),
                 {x}, {p \in Peers : w.pp[x][p] \in Valid},
                 "INACTIVE", "INVALID")

\* bgpview_iter_pfx_remove_peer on every pfx-peer of X \X Q, all INACTIVE: a
\* prefix that loses its last pfx-peer is removed with it.
RemovePairs(v, X, Q) ==
    LET w == MovePairs(v, X, Q, "INACTIVE", "INVALID")
    IN RemovePfxs(w, {x \in X : w.pfx[x] # "INVALID" /\ Total(w.peers_cnt[x]) = 0})

\* bgpview_iter_pfx_remove_peer
PfxRemovePeer(v, x, p) == RemovePairs(PfxDeactivatePeer(v, x, p), {x}, {p})

\* Mutant: the pfx-peers of the peer are deactivated but not removed
RemovePeerOnly(v, p, ord) == MovePeer(DeactivatePeer(v, p, ord), p, "INVALID")

\* bgpview_iter_remove_peer
RemovePeer(v, p, ord) ==
    LET w == DeactivatePeer(v, p, ord)
        X == {x \in Walked(w, Valid, Valid, ord) : w.pp[x][p] \in Valid}
        cnt == Total(w.pfx_cnt[p]["v4"]) + Total(w.pfx_cnt[p]["v6"])
        u == IF cnt > 0 THEN RemovePairs(w, X, {p}) ELSE w
    IN [MovePeer(u, p, "INVALID") EXCEPT
          !.pfx_cnt = [@ EXCEPT ![p] = [ver \in Versions |-> ZeroCnt]],
          !.need_gc = [@ EXCEPT !["peerinfo"] = TRUE]]

-----------------------------------------------------------------------------
(* Emptying and collecting                                                 *)

\* bgpview_clear
Clear(v) ==
    [v EXCEPT
       !.peer = [p \in Peers |->
                    IF v.peer[p] \in Valid THEN "INVALID" ELSE v.peer[p]],
       !.pfx = [x \in Pfxs |->
                   IF v.pfx[x] \in Valid THEN "INVALID" ELSE v.pfx[x]],
       !.pp = [x \in Pfxs |-> IF v.pfx[x] \in Valid
                              THEN [p \in Peers |-> "INVALID"]
                              ELSE v.pp[x]],
       !.peers_cnt = [x \in Pfxs |-> IF v.pfx[x] \in Valid
                                     THEN ZeroCnt
                                     ELSE v.peers_cnt[x]],
       !.pfx_cnt = [p \in Peers |-> IF v.peer[p] \in Valid
                                    THEN [ver \in Versions |-> ZeroCnt]
                                    ELSE v.pfx_cnt[p]],
       !.pfxs_cnt = [ver \in Versions |-> ZeroCnt],
       !.peerinfo_cnt = ZeroCnt,
       !.need_gc = [t \in Tables |->
                       IF t = "peerinfo"
                       THEN \E p \in Peers : v.peer[p] # "ABSENT"
                       ELSE \E x \in PfxsOf(t) : v.pfx[x] # "ABSENT"]]

\* bgpview_gc: a deleted entry takes its counters and its pfx-peers along
Gc(v) ==
    LET pfxGone(x) == v.need_gc[Version(x)] /\ v.pfx[x] = "INVALID"
        peerGone(p) == v.need_gc["peerinfo"] /\ v.peer[p] = "INVALID"
    IN [v EXCEPT
          !.pfx = [x \in Pfxs |-> IF pfxGone(x) THEN "ABSENT" ELSE v.pfx[x]],
          !.pp = [x \in Pfxs |-> IF pfxGone(x)
                                 THEN [p \in Peers |-> "INVALID"]
                                 ELSE v.pp[x]],
          !.peers_cnt = [x \in Pfxs |-> IF pfxGone(x)
                                        THEN ZeroCnt
                                        ELSE v.peers_cnt[x]],
          !.peer = [p \in Peers |-> IF peerGone(p) THEN "ABSENT" ELSE v.peer[p]],
          !.pfx_cnt = [p \in Peers |-> IF peerGone(p)
                                       THEN [ver \in Versions |-> ZeroCnt]
                                       ELSE v.pfx_cnt[p]],
          !.need_gc = [t \in Tables |-> FALSE]]
=============================================================================
