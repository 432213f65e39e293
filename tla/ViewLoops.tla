----------------------------- MODULE ViewLoops -----------------------------
(***************************************************************************)
(* The loops of lib/bgpview.c written as loops.  ViewOps states the net    *)
(* effect of a cascade on all the pfx-peers of a set at once; here the     *)
(* cascade is the code's: one call after another, each on the view the     *)
(* previous one left, in the order the table happens to have.              *)
(***************************************************************************)
EXTENDS BGPView, SequencesExt, TLC

\* The loop of bgpview_iter_deactivate_peer over the prefixes s
DeactivatePeerLoop(v, s, p) ==
    FoldLeft(LAMBDA w, x : PfxDeactivatePeer(w, x, p), v, s)

\* bgpview_iter_deactivate_pfx: the prefix is marked first, so that the last
\* call of pfx_deactivate_peer finds it inactive and does not come back here;
\* its counter is moved after the loop.
DeactivatePfxLoop(v, x, s) ==
    LET marked == [v EXCEPT !.pfx = [@ EXCEPT ![x] = "INACTIVE"]]
        w == FoldLeft(LAMBDA u, p : PfxDeactivatePeer(u, x, p), marked, s)
    IN [w EXCEPT !.pfxs_cnt =
                    [@ EXCEPT ![Version(x)] = Moved(@, "ACTIVE", "INACTIVE", 1)]]

\* The loop of bgpview_iter_remove_peer over the prefixes s
RemovePeerLoop(v, s, p) ==
    FoldLeft(LAMBDA w, x : PfxRemovePeer(w, x, p), v, s)

\* bgpview_iter_remove_pfx after its deactivation: the prefix is INVALID
\* while its pfx-peers go, so that the last pfx_remove_peer does not remove
\* the prefix a second time.
RemovePfxLoop(v, x, s) ==
    LET marked == [v EXCEPT !.pfx = [@ EXCEPT ![x] = "INVALID"]]
        w == FoldLeft(LAMBDA u, p : PfxRemovePeer(u, x, p), marked, s)
    IN [w EXCEPT !.pfxs_cnt =
                    [@ EXCEPT ![Version(x)] = Moved(@, "INACTIVE", "INVALID", 1)],
                 !.need_gc = [@ EXCEPT ![Version(x)] = TRUE]]

-----------------------------------------------------------------------------
\* In every reachable view and in every order of the tables, the loop of
\* deactivate_peer leaves the view that ViewOps gives in one step.
DeactivatePeerLoopAgrees ==
    \A p \in Peers :
        LET X == {x \in Pfxs : view.pp[x][p] = "ACTIVE"}
        IN \A s \in SetToSeqs(X) :
              DeactivatePeerLoop(view, s, p) =
                  DeactivatePairs(view, X, {p})

\* The mutual recursion of deactivate_pfx and pfx_deactivate_peer ends with
\* the prefix and every counter moved exactly once.
DeactivatePfxLoopAgrees ==
    \A x \in Pfxs : view.pfx[x] = "ACTIVE" =>
        \A s \in SetToSeqs({p \in Peers : view.pp[x][p] = "ACTIVE"}) :
            DeactivatePfxLoop(view, x, s) = DeactivatePfx(view, x)

\* The loop of remove_peer, for an inactive peer, removes the prefixes that
\* are left without a pfx-peer, and each of them once.
RemovePeerLoopAgrees ==
    \A p \in Peers : view.peer[p] = "INACTIVE" =>
        LET X == {x \in Pfxs : view.pp[x][p] \in Valid}
        IN \A s \in SetToSeqs(X) :
              RemovePeerLoop(view, s, p) =
                  RemovePairs(view, X, {p})

\* The mutual recursion of remove_pfx and pfx_remove_peer removes an inactive
\* prefix and counts it out exactly once.
RemovePfxLoopAgrees ==
    \A x \in Pfxs : view.pfx[x] = "INACTIVE" =>
        \A s \in SetToSeqs({p \in Peers : view.pp[x][p] \in Valid}) :
            RemovePfxLoop(view, x, s) = RemovePfx(view, x)

\* All cascades of bgpview.c, in every reachable view and table order: the
\* loops and the functions that call each other have the net effect that the
\* operators of ViewOps state.
LoopsAgree ==
    /\ DeactivatePeerLoopAgrees /\ DeactivatePfxLoopAgrees
    /\ RemovePeerLoopAgrees /\ RemovePfxLoopAgrees
=============================================================================
