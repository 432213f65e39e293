------------------------------ MODULE ViewIter -----------------------------
(***************************************************************************)
(* The iterator of lib/bgpview.c walking a view:                           *)
(*                                                                         *)
(*   for (first_pfx_peer(it, version, pfx_mask, peer_mask);                *)
(*        has_more_pfx_peer(it); next_pfx_peer(it)) body                   *)
(*                                                                         *)
(* A table is its slots: prefix <<ver, i>> sits in slot i of the table of  *)
(* its version, peer k in slot k of the pfx-peer table of a prefix.  Every *)
(* content of the tables is an initial state, so the order of the slots    *)
(* loses nothing.  The body leaves the pfx-peer alone, deactivates it or   *)
(* removes it, as the loops of this repository do.                         *)
(***************************************************************************)
EXTENDS Integers, Sequences, FiniteSetsExt, SequencesExt

CONSTANTS N4, N6, NPeers   \* slots of the two prefix tables, peers

Slots == [v4 |-> N4, v6 |-> N6]

PeerSlots == 1..NPeers
V4Slots == {"v4"} \X (1..N4)
V6Slots == {"v6"} \X (1..N6)

V == INSTANCE ViewOps WITH Peers <- PeerSlots, V4Pfxs <- V4Slots, V6Pfxs <- V6Slots

Masks == {{"ACTIVE"}, {"INACTIVE"}, V!Valid}
Filters == {"all", "v4", "v6"}
Bodies == {"look", "deactivate", "remove"}

VARIABLES
    pfx, pp,        \* the tables, as in ViewOps
    iter,           \* bgpview_iter_t
    body,           \* what the caller does at each stop
    start,          \* the tables when the walk starts
    seen,           \* the pfx-peers the body was given, in order of arrival
    pc

vars == <<pfx, pp, iter, body, start, seen, pc>>

-----------------------------------------------------------------------------
(* Iterators over prefixes                                                 *)

\* WHILE_NOT_MATCHED_PFX from slot i on; one past the last slot is kh_end
SeekSlot(ver, i, mask) ==
    Min({j \in i..Slots[ver] : pfx[<<ver, j>>] \in mask} \cup {Slots[ver] + 1})

HasMorePfx(it) == it.pfx_it <= Slots[it.version_ptr]

\* bgpview_iter_first_pfx
FirstPfx(it, filter, mask) ==
    LET i4 == SeekSlot("v4", 1, mask)
        at == [it EXCEPT !.version_filter = filter, !.pfx_state_mask = mask,
                         !.pfx_peer_it_valid = FALSE]
    IN IF filter = "v4" \/ (filter = "all" /\ i4 <= N4)
       THEN [at EXCEPT !.version_ptr = "v4", !.pfx_it = i4]
       ELSE [at EXCEPT !.version_ptr = "v6",
                       !.pfx_it = SeekSlot("v6", 1, mask)]

\* __iter_next_pfx: past the last IPv4 prefix the walk is set up anew for
\* IPv6 alone
NextPfx(it) ==
    LET j == SeekSlot(it.version_ptr, it.pfx_it + 1, it.pfx_state_mask)
        at == [it EXCEPT !.pfx_it = j, !.pfx_peer_it_valid = FALSE]
    IN IF it.version_ptr = "v4" /\ j > N4 /\ it.version_filter = "all"
       THEN FirstPfx(at, "v6", it.pfx_state_mask)
       ELSE at

-----------------------------------------------------------------------------
(* Iterators over the pfx-peers of a prefix                                *)

Current(it) == <<it.version_ptr, it.pfx_it>>

\* SCAN_FOR_MATCHING_PFX_PEER from slot k on
ScanPeer(it, k) ==
    LET j == Min({i \in k..NPeers : pp[Current(it)][i] \in it.pfx_peer_state_mask}
                    \cup {NPeers + 1})
    IN [it EXCEPT !.pfx_peer_it = j, !.pfx_peer_it_valid = j <= NPeers]

PfxFirstPeer(it, mask) == ScanPeer([it EXCEPT !.pfx_peer_state_mask = mask], 1)

\* Mutant: the scan starts at the slot it should leave
PfxNextPeerSame(it) == ScanPeer(it, it.pfx_peer_it)

PfxNextPeer(it) == ScanPeer(it, it.pfx_peer_it + 1)

-----------------------------------------------------------------------------
(* Iterators over all pfx-peers                                            *)

HasMorePfxPeer(it) == HasMorePfx(it) /\ it.pfx_peer_it_valid

\* Mutant: the next prefix is taken, but not its first pfx-peer
NextPfxPeerUnplaced(it) ==
    LET same == PfxNextPeer(it)
    IN IF same.pfx_peer_it_valid THEN same ELSE NextPfx(same)

\* __iter_next_pfx_peer: when the prefix has no more pfx-peers, the first one
\* of the next prefix is taken if there is one, and the loop is left in
\* either case
NextPfxPeer(it) ==
    LET same == PfxNextPeer(it)
        next == NextPfx(same)
    IN IF same.pfx_peer_it_valid THEN same
       ELSE IF HasMorePfx(next)
            THEN PfxFirstPeer(next, next.pfx_peer_state_mask)
            ELSE next

\* The first call: bgpview_iter_first_pfx_peer enters its loop
Start ==
    /\ pc = "start"
    /\ iter' = FirstPfx(iter, iter.version_filter, iter.pfx_state_mask)
    /\ pc' = "first"
    /\ UNCHANGED <<pfx, pp, body, start, seen>>

\* One turn of that loop
FirstTurn ==
    LET at == PfxFirstPeer(iter, iter.pfx_peer_state_mask)
    IN /\ pc = "first"
       /\ HasMorePfx(iter)
       /\ IF at.pfx_peer_it_valid
          THEN iter' = at /\ pc' = "body"
          ELSE iter' = NextPfx(at) /\ pc' = "first"
       /\ UNCHANGED <<pfx, pp, body, start, seen>>

FirstEnd ==
    /\ pc = "first"
    /\ ~HasMorePfx(iter)
    /\ pc' = "done"
    /\ UNCHANGED <<pfx, pp, iter, body, start, seen>>

\* What the body leaves of the pfx-peer and of its prefix
\* (bgpview_iter_pfx_deactivate_peer, bgpview_iter_pfx_remove_peer)
AfterBody(s) == CASE body = "look" -> s
                  [] body = "deactivate" -> "INACTIVE"
                  [] body = "remove" -> "INVALID"

PfxState(peers) ==
    LET has(s) == \E k \in PeerSlots : peers[k] = s
    IN IF has("ACTIVE") THEN "ACTIVE"
       ELSE IF has("INACTIVE") THEN "INACTIVE" ELSE "INVALID"

Body ==
    LET x == Current(iter)
        k == iter.pfx_peer_it
        peers == [pp[x] EXCEPT ![k] = AfterBody(@)]
    IN /\ pc = "body"
       /\ seen' = Append(seen, <<x, k>>)
       /\ pp' = [pp EXCEPT ![x] = peers]
       /\ pfx' = [pfx EXCEPT ![x] = PfxState(peers)]
       /\ pc' = "next"
       /\ UNCHANGED <<iter, body, start>>

Advance ==
    /\ pc = "next"
    /\ iter' = NextPfxPeer(iter)
    /\ pc' = IF HasMorePfxPeer(iter') THEN "body" ELSE "done"
    /\ UNCHANGED <<pfx, pp, body, start, seen>>

Finished == pc = "done" /\ UNCHANGED vars

Init ==
    /\ pp \in [V!Pfxs -> [PeerSlots -> V!FieldState]]
    /\ pfx = [x \in V!Pfxs |-> PfxState(pp[x])]
    /\ \E filter \in Filters, pfx_mask, peer_mask \in Masks :
          iter = [version_filter |-> filter, version_ptr |-> "v4",
                  pfx_it |-> 1, pfx_state_mask |-> pfx_mask,
                  pfx_peer_it |-> 1, pfx_peer_it_valid |-> FALSE,
                  pfx_peer_state_mask |-> peer_mask]
    /\ body \in Bodies
    /\ start = [pfx |-> pfx, pp |-> pp, filter |-> iter.version_filter]
    /\ seen = <<>>
    /\ pc = "start"

Next == Start \/ FirstTurn \/ FirstEnd \/ Body \/ Advance \/ Finished

Spec == Init /\ [][Next]_vars

-----------------------------------------------------------------------------
(* Properties                                                              *)

\* The slot order of the walk, IPv4 before IPv6
Position == [x \in V!Pfxs |-> IF x[1] = "v4" THEN x[2] ELSE N4 + x[2]]

InFilter(x) == start.filter = "all" \/ x[1] = start.filter

Matches(x, k) ==
    /\ InFilter(x)
    /\ start.pfx[x] \in iter.pfx_state_mask
    /\ start.pp[x][k] \in iter.pfx_peer_state_mask

\* Whatever the body does to the pfx-peer it is given (bgpview.h allows
\* removal of pfx-peers while iterating), the walk gives it only pfx-peers
\* that matched when the walk began, each at most once; and all of them, if it
\* asks for the same states of prefixes and of pfx-peers, as every whole-view
\* walk of this repository does.
VisitsOnceAndOnlyMatches ==
    /\ IsInjective(seen)
    /\ \A e \in Range(seen) : Matches(e[1], e[2])
    /\ pc = "done" /\ iter.pfx_state_mask = iter.pfx_peer_state_mask =>
         \A x \in V!Pfxs, k \in PeerSlots : Matches(x, k) => <<x, k>> \in Range(seen)

\* When the walk over both versions ends it has visited the pfx-peers of
\* exactly the prefixes that ViewOps says it walks.
WalkIsWalked ==
    pc = "done" /\ start.filter = "all" =>
        {e[1] : e \in Range(seen)} =
            V!Walked(start, iter.pfx_state_mask, iter.pfx_peer_state_mask, Position)

=============================================================================
