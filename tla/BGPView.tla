------------------------------ MODULE BGPView ------------------------------
(***************************************************************************)
(* A view and the calls its single-threaded users make on it               *)
(* (lib/bgpview.h), one action per call that changes the view.             *)
(*                                                                         *)
(* A guard is what the call demands of the iterator it is given: that the  *)
(* seek that positioned it succeeded, and the asserts at its head.         *)
(***************************************************************************)
EXTENDS ViewOps

VARIABLE view

Init == view = EmptyView

IterAddPeer(p) == view' = AddPeer(view, p)

IterRemovePeer(p) ==
    /\ view.peer[p] \in Valid
    /\ \E ord \in Orders : view' = RemovePeer(view, p, ord)

IterActivatePeer(p) ==
    /\ view.peer[p] \in Valid
    /\ view' = ActivatePeer(view, p)

IterDeactivatePeer(p) ==
    /\ view.peer[p] \in Valid
    /\ \E ord \in Orders : view' = DeactivatePeer(view, p, ord)

\* "the peer must exist (it can be either active or inactive)", bgpview.h
IterAddPfxPeer(x, p) ==
    /\ view.peer[p] \in Valid
    /\ view' = AddPfxPeer(view, x, p)

IterAddPfxPeerById(x, p) == view' = AddPfxPeerById(view, x, p)

IterPfxAddPeer(x, p) ==
    /\ view.pfx[x] \in Valid
    /\ view.peer[p] \in Valid
    /\ view' = PfxAddPeer(view, x, p)

IterRemovePfx(x) ==
    /\ view.pfx[x] \in Valid
    /\ view' = RemovePfx(view, x)

IterDeactivatePfx(x) ==
    /\ view.pfx[x] \in Valid
    /\ view' = DeactivatePfx(view, x)

IterPfxRemovePeer(x, p) ==
    /\ view.pp[x][p] \in Valid
    /\ view' = PfxRemovePeer(view, x, p)

IterPfxActivatePeer(x, p) ==
    /\ view.pp[x][p] \in Valid
    /\ view.peer[p] = "ACTIVE"
    /\ view' = PfxActivatePeer(view, x, p)

IterPfxDeactivatePeer(x, p) ==
    /\ view.pp[x][p] \in Valid
    /\ view' = PfxDeactivatePeer(view, x, p)

ClearView == view' = Clear(view)

GcView == view' = Gc(view)

Next ==
    \/ \E p \in Peers :
          \/ IterAddPeer(p)
          \/ IterRemovePeer(p)
          \/ IterActivatePeer(p)
          \/ IterDeactivatePeer(p)
    \/ \E x \in Pfxs :
          \/ IterRemovePfx(x)
          \/ IterDeactivatePfx(x)
    \/ \E x \in Pfxs, p \in Peers :
          \/ IterAddPfxPeer(x, p)
          \/ IterAddPfxPeerById(x, p)
          \/ IterPfxAddPeer(x, p)
          \/ IterPfxRemovePeer(x, p)
          \/ IterPfxActivatePeer(x, p)
          \/ IterPfxDeactivatePeer(x, p)
    \/ ClearView
    \/ GcView

Spec == Init /\ [][Next]_view

\* A call of add_pfx_peer that the header forbids and the code answers with
\* an error: the peer is not in the table.
AddPfxPeerUnknown(x, p) ==
    /\ view.peer[p] = "ABSENT"
    /\ view' = AddPfxPeer(view, x, p)

SpecUnknown ==
    Init /\ [][Next \/ \E x \in Pfxs, p \in Peers : AddPfxPeerUnknown(x, p)]_view

-----------------------------------------------------------------------------
(* Properties                                                              *)

\* Every field of the view has its type; in particular no counter that
\* bgpview.c decrements has wrapped below zero.
CntOK(c) == c["ACTIVE"] >= 0 /\ c["INACTIVE"] >= 0

TypeOK ==
    /\ view \in View
    /\ \A x \in Pfxs : CntOK(view.peers_cnt[x])
    /\ \A p \in Peers, ver \in Versions : CntOK(view.pfx_cnt[p][ver])
    /\ \A ver \in Versions : CntOK(view.pfxs_cnt[ver])
    /\ CntOK(view.peerinfo_cnt)

\* Each of the four families of counters that bgpview.c increments and
\* decrements (peers_cnt of a prefix, v4/v6_pfx_cnt of a peer, v4/v6pfxs_cnt
\* and peerinfo_cnt of the view) equals the number of entries in that state.
Count(S, f, s) == Cardinality({e \in S : f[e] = s})

\* The states of the pfx-peers of one peer
Column(v, p) == [x \in Pfxs |-> v.pp[x][p]]

\* Counter c counts the entries S of table f
Exact(c, S, f) == \A s \in Valid : c[s] = Count(S, f, s)

PeersCntExact(v) == \A x \in Pfxs : Exact(v.peers_cnt[x], Peers, v.pp[x])

PfxCntExact(v) ==
    \A p \in Peers, ver \in Versions :
        Exact(v.pfx_cnt[p][ver], PfxsOf(ver), Column(v, p))

PfxsCntExact(v) ==
    \A ver \in Versions : Exact(v.pfxs_cnt[ver], PfxsOf(ver), v.pfx)

PeerinfoCntExact(v) == Exact(v.peerinfo_cnt, Peers, v.peer)

CountersExact ==
    /\ PeersCntExact(view)
    /\ PfxCntExact(view)
    /\ PfxsCntExact(view)
    /\ PeerinfoCntExact(view)

\* A prefix is active exactly when one of its pfx-peers is ("if active <==>
\* peers_cnt >0", bgpview.c), and is in the view exactly when it has a
\* pfx-peer: removal cascades to prefixes that would be left empty.
PfxFollowsPeers(v) ==
    \A x \in Pfxs :
        /\ v.pfx[x] = "ACTIVE" <=> HasPeer(v, x, {"ACTIVE"})
        /\ v.pfx[x] \in Valid <=> HasPeer(v, x, Valid)

PfxStateFollowsPeers == PfxFollowsPeers(view)

\* A pfx-peer is in the view only while its peer is, and active only while
\* its peer is active, through every cascade of remove_peer, deactivate_peer
\* and clear.  bgpview_copy and the serializers rely on it: they look the
\* peer of an active pfx-peer up among the active peers only.
PairsHavePeer(v) ==
    \A x \in Pfxs, p \in Peers :
        /\ v.pp[x][p] = "ACTIVE" => v.peer[p] = "ACTIVE"
        /\ v.pp[x][p] \in Valid => v.peer[p] \in Valid

PfxPeersHavePeer == PairsHavePeer(view)

\* What remove_peer says of itself ("remove all the peer-pfx associated with
\* the peer", bgpview.c): a peer that has been removed has no pfx-peers left.
RemovedPeerHasNoPfxPeers ==
    \A x \in Pfxs, p \in Peers :
        view.peer[p] = "INVALID" => view.pp[x][p] \notin Valid

\* bgpview_gc looks into a table only when its need_gc flag is set: a table
\* that holds an INVALID entry always has its flag set, so that one call
\* frees every one of them.
FlagsCoverInvalid(v) ==
    /\ \A x \in Pfxs : v.pfx[x] = "INVALID" => v.need_gc[Version(x)]
    /\ \A p \in Peers : v.peer[p] = "INVALID" => v.need_gc["peerinfo"]

GcFindsInvalid == FlagsCoverInvalid(view)

\* The inductive invariant: all of them together
ViewOK(v) ==
    /\ v \in View
    /\ PeersCntExact(v)
    /\ PfxCntExact(v)
    /\ PfxsCntExact(v)
    /\ PeerinfoCntExact(v)
    /\ PfxFollowsPeers(v)
    /\ PairsHavePeer(v)
    /\ FlagsCoverInvalid(v)

ViewInv == ViewOK(view)

\* The whole-view walks of deactivate_peer and remove_peer end early when
\* they meet a prefix without a matching pfx-peer.  They never do: whatever
\* the order of the tables, the walks reach every matching prefix.
WalksComplete ==
    \A mask \in {{"ACTIVE"}, Valid}, ord \in Orders :
        Walked(view, mask, mask, ord) = Matching(view, mask)

\* The view implements the relation that bgpview.h describes.  A collection
\* is a step that changes nothing: no user of the view can tell it happened.
Abs == INSTANCE BGPViewAbs WITH
    known <- {p \in Peers : view.peer[p] \in Valid},
    up    <- {p \in Peers : view.peer[p] = "ACTIVE"},
    rib   <- {e \in Pfxs \X Peers : view.pp[e[1]][e[2]] \in Valid},
    live  <- {e \in Pfxs \X Peers : view.pp[e[1]][e[2]] = "ACTIVE"}

ImplementsAbs == Abs!AbsSpec
=============================================================================
