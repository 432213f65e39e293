----------------------------- MODULE ViewCopy ------------------------------
(***************************************************************************)
(* bgpview_copy and bgpview_dup, as bvc_viewsender.c and bvc_pathchange.c  *)
(* use them: after each interval the view is saved as the parent of the    *)
(* next one.  The parent is cleared and filled again without ever being    *)
(* collected, so it holds the INVALID entries of all earlier intervals.    *)
(*                                                                         *)
(* The two views share their peer signatures, so a peer has the same id in *)
(* both (dstids of bgpview_copy is the identity).                          *)
(***************************************************************************)
EXTENDS BGPView, SequencesExt

VARIABLE parent_view

vars == <<view, parent_view>>

ActivePeers(v) == {p \in Peers : v.peer[p] = "ACTIVE"}
ActivePairs(v) == {e \in Pfxs \X Peers : /\ v.pfx[e[1]] = "ACTIVE"
                                         /\ v.pp[e[1]][e[2]] = "ACTIVE"}

\* One peer, added and activated
CopyPeer(dst, p) == ActivatePeer(AddPeer(dst, p), p)

\* One pfx-peer, found by its prefix and id, added and activated
CopyPair(dst, e) ==
    PfxActivatePeer(AddPfxPeerById(dst, e[1], e[2]), e[1], e[2])

\* A walk goes prefix by prefix, IPv4 first
IsWalk(pairs) ==
    \A i, j \in DOMAIN pairs : i < j =>
        /\ pairs[j][1] \in V4Pfxs => pairs[i][1] \in V4Pfxs
        /\ pairs[i][1] = pairs[j][1] =>
              \A k \in i .. j : pairs[k][1] = pairs[i][1]

\* bgpview_copy of the view into dst: its active peers, then its active
\* pfx-peers, in any order the tables may have
Copies(dst) ==
    {FoldLeft(CopyPair, FoldLeft(CopyPeer, dst, peers), pairs) :
        peers \in SetToSeqs(ActivePeers(view)),
        pairs \in {s \in SetToSeqs(ActivePairs(view)) : IsWalk(s)}}

\* Mutant: the destination is not cleared first
SaveViewUncleared == parent_view' \in Copies(parent_view) /\ UNCHANGED view

\* The end of an interval.  The first time there is no parent and bgpview_dup
\* copies into a new view; clearing an empty view changes nothing.
SaveView == parent_view' \in Copies(Clear(parent_view)) /\ UNCHANGED view

CopyInit == Init /\ parent_view = EmptyView

CopyNext == SaveView \/ (Next /\ UNCHANGED parent_view)

CopySpec == CopyInit /\ [][CopyNext]_vars

-----------------------------------------------------------------------------
\* What the diff of the next interval is computed against is exactly what was
\* active in the view: nothing of an earlier interval, and nothing inactive.
\* Its counters and flags are those of a view, though it is never collected.
SnapshotStep ==
    parent_view' # parent_view =>
        /\ {p \in Peers : parent_view'.peer[p] \in Valid} = ActivePeers(view)
        /\ {e \in Pfxs \X Peers : parent_view'.pp[e[1]][e[2]] \in Valid}
              = ActivePairs(view)
        /\ ActivePeers(parent_view') = ActivePeers(view)
        /\ ActivePairs(parent_view') = ActivePairs(view)
        /\ ViewOK(parent_view')

ParentIsSnapshot == [][SnapshotStep]_vars
=============================================================================
