------------------------------- MODULE MCView -------------------------------
(***************************************************************************)
(* The models of lib/bgpview.c for TLC, side by side: the view and its     *)
(* loops (BGPView, ViewLoops), the copy (ViewCopy) and the iterator        *)
(* (ViewIter).  A behaviour is one of one of them; part says which.        *)
(*                                                                         *)
(* Every table order is explored in the view and in the copy, so peers are *)
(* interchangeable.                                                        *)
(***************************************************************************)
EXTENDS ViewLoops

CONSTANTS
    CopyV4Pfxs,         \* the IPv4 prefixes of the copy
    N4, N6, NPeers      \* the slots and the peers of the iterator

VARIABLES
    part,               \* "view", "copy" or "iter"
    src, parent_view,   \* the view that is copied, and its copy
    pfx, pp, iter, body, start, seen, pc

copied == <<src, parent_view>>

walk == <<pfx, pp, iter, body, start, seen, pc>>

vars == <<part, view, copied, walk>>

C == INSTANCE ViewCopy WITH view <- src, V4Pfxs <- CopyV4Pfxs

I == INSTANCE ViewIter

MCInit ==
    \/ part = "view" /\ Init /\ src = 0 /\ parent_view = 0
         /\ pfx = 0 /\ pp = 0 /\ iter = 0 /\ body = 0 /\ start = 0 /\ seen = 0 /\ pc = 0
    \/ part = "copy" /\ C!CopyInit /\ view = EmptyView
         /\ pfx = 0 /\ pp = 0 /\ iter = 0 /\ body = 0 /\ start = 0 /\ seen = 0 /\ pc = 0
    \/ part = "iter" /\ I!Init /\ view = EmptyView /\ src = 0 /\ parent_view = 0

MCNext ==
    \/ part = "view" /\ Next /\ UNCHANGED <<part, copied, walk>>
    \/ part = "copy" /\ C!CopyNext /\ UNCHANGED <<part, view, walk>>
    \/ part = "iter" /\ I!Next /\ UNCHANGED <<part, view, copied>>

MCSpec == MCInit /\ [][MCNext]_vars

Symmetry == Permutations(Peers)

(* ViewCopy: what the next interval is compared with is exactly what was   *)
(* active in the view when bgpview_copy was called.                        *)
ParentIsSnapshot == [][part = "copy" => C!SnapshotStep]_vars

(* ViewIter: a walk of the iterator visits a pfx-peer at most once, only   *)
(* matching ones, and all of them when its two masks agree.                *)
VisitsOnceAndOnlyMatches == part = "iter" => I!VisitsOnceAndOnlyMatches

(* ViewIter: the prefixes a walk of the iterator visits are those that     *)
(* Walked, which the cascades of ViewOps use, says it visits.              *)
WalkIsWalked == part = "iter" => I!WalkIsWalked

=============================================================================
