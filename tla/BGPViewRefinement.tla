------------------------- MODULE BGPViewRefinement -------------------------
(***************************************************************************)
(* For any finite sets of peers and prefixes, BGPView implements           *)
(* BGPViewAbs: a call of bgpview.h changes the peers and the relation of   *)
(* prefixes and peers as its header says, whatever the cascades between    *)
(* the tables do on the way, and a collection changes neither.             *)
(***************************************************************************)
EXTENDS BGPViewProofs

\* The abstract state of a view
Known(v) == {p \in Peers : v.peer[p] \in Valid}
Up(v) == {p \in Peers : v.peer[p] = "ACTIVE"}
Rib(v) == {e \in Pfxs \X Peers : v.pp[e[1]][e[2]] \in Valid}
Live(v) == {e \in Pfxs \X Peers : v.pp[e[1]][e[2]] = "ACTIVE"}

-----------------------------------------------------------------------------
(* What each call does to the states of peers and pfx-peers                *)

\* bgpview_iter_add_peer and bgpview_iter_activate_peer change one peer and
\* no pfx-peer
LEMMA PeerMovedEffect ==
    ASSUME NEW v \in View, NEW p \in Peers, NEW to \in EntryState
    PROVE  LET w == MovePeer(v, p, to)
           IN /\ \A q \in Peers : w.peer[q] = IF q = p THEN to ELSE v.peer[q]
              /\ w.pp = v.pp
<1>1. PeerMoved(v, MovePeer(v, p, to), p, to)
  BY MovePeerFields
<1> QED
  BY <1>1 DEF PeerMoved, View

\* bgpview_iter_deactivate_peer takes down the peer and exactly its active
\* pfx-peers
LEMMA DeactivatePeerEffect ==
    ASSUME NEW v, ViewOK(v), NEW p \in Peers, NEW ord
    PROVE  LET w == DeactivatePeer(v, p, ord)
           IN /\ \A q \in Peers :
                    w.peer[q] = IF q = p /\ v.peer[q] = "ACTIVE"
                                THEN "INACTIVE" ELSE v.peer[q]
              /\ \A x \in Pfxs, q \in Peers :
                    w.pp[x][q] = IF q = p /\ v.pp[x][q] = "ACTIVE"
                                 THEN "INACTIVE" ELSE v.pp[x][q]
<1>1. v \in View /\ Counts(v) /\ Shape(v)
  BY ViewOKParts DEF Counts
<1>2. CASE v.peer[p] # "ACTIVE"
  <2>1. \A x \in Pfxs : v.pp[x][p] # "ACTIVE"
    BY <1>1, <1>2 DEF Shape, PairsHavePeer
  <2>2. DeactivatePeer(v, p, ord) = v
    BY <1>2 DEF DeactivatePeer
  <2> QED
    BY <1>2, <2>1, <2>2
<1>3. CASE v.peer[p] = "ACTIVE"
  <2> DEFINE X == {x \in Walked(v, {"ACTIVE"}, {"ACTIVE"}, ord) :
                      v.pp[x][p] = "ACTIVE"}
             cnt == v.pfx_cnt[p]["v4"]["ACTIVE"] + v.pfx_cnt[p]["v6"]["ACTIVE"]
             d == IF cnt > 0 THEN DeactivatePairs(v, X, {p}) ELSE v
             w == MovePeer(d, p, "INACTIVE")
  <2>1. DeactivatePeer(v, p, ord) = w
    BY <1>3 DEF DeactivatePeer
  <2>2. X = {x \in Pfxs : v.pp[x][p] = "ACTIVE"}
    <3>1. Walked(v, {"ACTIVE"}, {"ACTIVE"}, ord) = {x \in Pfxs : v.pfx[x] = "ACTIVE"}
      BY <1>1, WalkAll DEF Shape, Matching
    <3>2. \A x \in Pfxs : v.pp[x][p] = "ACTIVE" => v.pfx[x] = "ACTIVE"
      BY <1>1 DEF Shape, PfxFollowsPeers, HasPeer
    <3> QED
      BY <3>1, <3>2
  <2> HIDE DEF X
  <2>3. /\ d \in View
        /\ d.peer = v.peer
        /\ \A x \in Pfxs, q \in Peers :
              d.pp[x][q] = IF q = p /\ v.pp[x][q] = "ACTIVE"
                           THEN "INACTIVE" ELSE v.pp[x][q]
    <3>1. CASE cnt > 0
      <4>1. LET u == DeactivatePairs(v, X, {p})
            IN /\ ViewOK(u)
               /\ u.peer = v.peer
               /\ u.pp = [x \in Pfxs |-> [q \in Peers |->
                            IF x \in X /\ q \in {p} THEN "INACTIVE" ELSE v.pp[x][q]]]
        BY <2>2, DeactivatePairsOK
      <4>2. d = DeactivatePairs(v, X, {p})
        BY <3>1
      <4> HIDE DEF d
      <4>3. d \in View /\ d.peer = v.peer
        BY <4>1, <4>2 DEF ViewOK
      <4>4. \A x \in Pfxs, q \in Peers :
               d.pp[x][q] = IF x \in X /\ q = p THEN "INACTIVE" ELSE v.pp[x][q]
        BY <4>1, <4>2
      <4> QED
        BY <2>2, <4>3, <4>4
    <3>2. CASE ~(cnt > 0)
      <4>1. \A x \in Pfxs : v.pp[x][p] # "ACTIVE"
        BY <1>1, <3>2, PfxCntZero
      <4> QED
        BY <1>1, <3>2, <4>1
    <3> QED
      BY <3>1, <3>2, Zenon
  <2> HIDE DEF d
  <2>4. /\ \A q \in Peers : w.peer[q] = IF q = p THEN "INACTIVE" ELSE d.peer[q]
        /\ w.pp = d.pp
    BY <2>3, PeerMovedEffect DEF EntryState, FieldState, Valid
  <2> HIDE DEF w
  <2> QED
    BY <1>3, <2>1, <2>3, <2>4
<1> QED
  BY <1>2, <1>3

\* bgpview_iter_remove_peer takes along exactly the peer's pfx-peers
LEMMA RemovePeerEffect ==
    ASSUME NEW v, ViewOK(v), NEW p \in Peers, v.peer[p] \in Valid, NEW ord
    PROVE  LET w == RemovePeer(v, p, ord)
           IN /\ \A q \in Peers : w.peer[q] = IF q = p THEN "INVALID" ELSE v.peer[q]
              /\ \A x \in Pfxs, q \in Peers :
                    IF q = p THEN w.pp[x][q] \notin Valid
                             ELSE w.pp[x][q] = v.pp[x][q]
<1> DEFINE w == DeactivatePeer(v, p, ord)
           X == {x \in Walked(w, Valid, Valid, ord) : w.pp[x][p] \in Valid}
           cnt == Total(w.pfx_cnt[p]["v4"]) + Total(w.pfx_cnt[p]["v6"])
           d == IF cnt > 0 THEN RemovePairs(w, X, {p}) ELSE w
           m == MovePeer(d, p, "INVALID")
           u == RemovePeer(v, p, ord)
<1>1. ViewOK(w) /\ w.peer[p] = "INACTIVE"
  BY DeactivatePeerOK
<1>2. /\ \A q \in Peers : q # p => w.peer[q] = v.peer[q]
      /\ \A x \in Pfxs, q \in Peers : q # p => w.pp[x][q] = v.pp[x][q]
  BY DeactivatePeerEffect
<1>3. u.peer = m.peer /\ u.pp = m.pp
  BY DEF RemovePeer, MovePeer
<1> HIDE DEF w, u
<1>4. w \in View /\ Counts(w) /\ Shape(w)
  BY <1>1, ViewOKParts DEF Counts
<1>5. X = {x \in Pfxs : w.pp[x][p] \in Valid}
  <2>1. Walked(w, Valid, Valid, ord) = {x \in Pfxs : w.pfx[x] \in Valid}
    BY <1>4, WalkAll DEF Shape, Matching
  <2>2. \A x \in Pfxs : w.pp[x][p] \in Valid => w.pfx[x] \in Valid
    BY <1>4 DEF Shape, PfxFollowsPeers, HasPeer
  <2> QED
    BY <2>1, <2>2
<1>6. \A x \in X : w.pp[x][p] = "INACTIVE"
  BY <1>1, <1>4, <1>5 DEF Shape, PairsHavePeer, Valid
<1> HIDE DEF X
<1>7. /\ d \in View
      /\ d.peer = w.peer
      /\ \A x \in Pfxs, q \in Peers :
            IF q = p THEN d.pp[x][q] \notin Valid ELSE d.pp[x][q] = w.pp[x][q]
  <2>1. CASE cnt > 0
    <3> DEFINE Q == {p}
    <3>1. /\ X \in SUBSET Pfxs
          /\ Q \in SUBSET Peers
          /\ Q # {}
          /\ \A x \in X, q \in Q : w.pp[x][q] = "INACTIVE"
      BY <1>5, <1>6
    <3>2. d = RemovePairs(w, X, Q)
      BY <2>1
    <3>3. \A q : q \in Q <=> q = p
      OBVIOUS
    <3> HIDE DEF Q, d
    <3>4. LET r == RemovePairs(w, X, Q)
          IN /\ ViewOK(r)
             /\ r.peer = w.peer
             /\ r.pp = [x \in Pfxs |-> [q \in Peers |->
                          IF x \in X /\ q \in Q THEN "INVALID" ELSE w.pp[x][q]]]
      BY <1>1, <3>1, RemovePairsOK
    <3>5. d \in View /\ d.peer = w.peer
      BY <3>2, <3>4 DEF ViewOK
    <3>6. \A x \in Pfxs, q \in Peers :
             d.pp[x][q] = IF x \in X /\ q = p THEN "INVALID" ELSE w.pp[x][q]
      BY <3>2, <3>3, <3>4
    <3> QED
      BY <1>5, <3>5, <3>6 DEF Valid
  <2>2. CASE ~(cnt > 0)
    <3>1. \A x \in Pfxs : w.pp[x][p] \notin Valid
      BY <1>4, <2>2, PfxCntZero
    <3> QED
      BY <1>4, <2>2, <3>1
  <2> QED
    BY <2>1, <2>2, Zenon
<1> HIDE DEF d
<1>8. /\ \A q \in Peers : m.peer[q] = IF q = p THEN "INVALID" ELSE d.peer[q]
      /\ m.pp = d.pp
  BY <1>7, PeerMovedEffect DEF EntryState, FieldState, Valid
<1> HIDE DEF m
<1>9. \A q \in Peers : u.peer[q] = IF q = p THEN "INVALID" ELSE v.peer[q]
  BY <1>2, <1>3, <1>7, <1>8
<1>10. \A x \in Pfxs, q \in Peers :
          IF q = p THEN u.pp[x][q] \notin Valid ELSE u.pp[x][q] = v.pp[x][q]
  BY <1>2, <1>3, <1>7, <1>8
<1> QED
  BY <1>9, <1>10 DEF u

\* Adding a pfx-peer, with its prefix if need be, adds nothing else
LEMMA AddPfxPeerEffect ==
    ASSUME NEW v \in View, NEW x \in Pfxs, NEW p \in Peers
    PROVE  LET w == PfxAddPeer(AddPfx(v, x), x, p)
           IN /\ w.peer = v.peer
              /\ \A y \in Pfxs, q \in Peers :
                    w.pp[y][q] = IF y = x /\ q = p /\ v.pp[y][q] \notin Valid
                                 THEN "INACTIVE" ELSE v.pp[y][q]
<1> DEFINE a == AddPfx(v, x)
           w == PfxAddPeer(a, x, p)
<1>1. a \in View /\ a.peer = v.peer /\ a.pp = v.pp
  <2>1. CASE v.pfx[x] \in Valid
    BY <2>1 DEF AddPfx
  <2>2. CASE v.pfx[x] \notin Valid
    <3>1. PfxsMoved(v, MovePfxs(v, {x}, v.pfx[x], "INACTIVE"), {x}, v.pfx[x],
                    "INACTIVE")
      BY MovePfxsFields DEF EntryState, FieldState, Valid
    <3> QED
      BY <2>2, <3>1 DEF AddPfx, PfxsMoved
  <2> QED
    BY <2>1, <2>2, Zenon
<1> HIDE DEF a
<1>2. CASE v.pp[x][p] \in Valid
  <2>1. w = a
    BY <1>1, <1>2 DEF PfxAddPeer
  <2> QED
    BY <1>1, <1>2, <2>1 DEF a
<1>3. CASE v.pp[x][p] \notin Valid
  <2>1. w = MovePairs(a, {x}, {p}, "INVALID", "INACTIVE")
    BY <1>1, <1>3 DEF PfxAddPeer
  <2>2. PairsMoved(a, w, {x}, {p}, "INVALID", "INACTIVE")
    BY <1>1, <2>1, MovePairsFields DEF FieldState, Valid
  <2> HIDE DEF w
  <2>3. w.peer = v.peer
    BY <1>1, <2>2 DEF PairsMoved
  <2>4. \A y \in Pfxs, q \in Peers :
           w.pp[y][q] = IF y = x /\ q = p THEN "INACTIVE" ELSE v.pp[y][q]
    BY <1>1, <2>2 DEF PairsMoved
  <2> QED
    BY <1>3, <2>3, <2>4 DEF w, a
<1> QED
  BY <1>2, <1>3, Zenon

\* bgpview_iter_pfx_activate_peer activates one pfx-peer; that its prefix may
\* follow shows in no peer and no pfx-peer
LEMMA PfxActivatePeerEffect ==
    ASSUME NEW v \in View, NEW x \in Pfxs, NEW p \in Peers
    PROVE  LET w == PfxActivatePeer(v, x, p)
           IN /\ w.peer = v.peer
              /\ \A y \in Pfxs, q \in Peers :
                    w.pp[y][q] = IF y = x /\ q = p /\ v.pp[y][q] = "INACTIVE"
                                 THEN "ACTIVE" ELSE v.pp[y][q]
<1>1. CASE v.pp[x][p] # "INACTIVE"
  BY <1>1 DEF PfxActivatePeer
<1>2. CASE v.pp[x][p] = "INACTIVE"
  <2> DEFINE w == MovePairs(v, {x}, {p}, "INACTIVE", "ACTIVE")
             u == IF w.peers_cnt[x]["ACTIVE"] = 1 THEN ActivatePfx(w, x) ELSE w
  <2>1. PfxActivatePeer(v, x, p) = u
    BY <1>2 DEF PfxActivatePeer
  <2>2. PairsMoved(v, w, {x}, {p}, "INACTIVE", "ACTIVE")
    BY MovePairsFields DEF FieldState, Valid
  <2> HIDE DEF w
  <2>3. w \in View /\ w.peer = v.peer
    BY <2>2 DEF PairsMoved
  <2>4. \A y \in Pfxs, q \in Peers :
           w.pp[y][q] = IF y = x /\ q = p THEN "ACTIVE" ELSE v.pp[y][q]
    BY <2>2 DEF PairsMoved
  <2>5. u.peer = w.peer /\ u.pp = w.pp
    <3>1. PfxsMoved(w, MovePfxs(w, {x}, "INACTIVE", "ACTIVE"), {x}, "INACTIVE",
                    "ACTIVE")
      BY <2>3, MovePfxsFields DEF EntryState, FieldState, Valid
    <3> QED
      BY <3>1 DEF ActivatePfx, PfxsMoved
  <2> HIDE DEF u
  <2> QED
    BY <1>2, <2>1, <2>3, <2>4, <2>5
<1> QED
  BY <1>1, <1>2, Zenon

\* bgpview_iter_pfx_deactivate_peer takes down one pfx-peer
LEMMA PfxDeactivatePeerEffect ==
    ASSUME NEW v, ViewOK(v), NEW x \in Pfxs, NEW p \in Peers
    PROVE  LET w == PfxDeactivatePeer(v, x, p)
           IN /\ w.peer = v.peer
              /\ \A y \in Pfxs, q \in Peers :
                    w.pp[y][q] = IF y = x /\ q = p /\ v.pp[y][q] = "ACTIVE"
                                 THEN "INACTIVE" ELSE v.pp[y][q]
<1>1. CASE v.pp[x][p] # "ACTIVE"
  BY <1>1 DEF PfxDeactivatePeer
<1>2. CASE v.pp[x][p] = "ACTIVE"
  <2> DEFINE w == DeactivatePairs(v, {x}, {p})
  <2>1. PfxDeactivatePeer(v, x, p) = w
    BY <1>2 DEF PfxDeactivatePeer
  <2>2. /\ w.peer = v.peer
        /\ w.pp = [y \in Pfxs |-> [q \in Peers |->
                      IF y \in {x} /\ q \in {p} THEN "INACTIVE" ELSE v.pp[y][q]]]
    BY <1>2, DeactivatePairsOK
  <2> HIDE DEF w
  <2> QED
    BY <1>2, <2>1, <2>2
<1> QED
  BY <1>1, <1>2, Zenon

\* bgpview_iter_pfx_remove_peer removes one pfx-peer
LEMMA PfxRemovePeerEffect ==
    ASSUME NEW v, ViewOK(v), NEW x \in Pfxs, NEW p \in Peers, v.pp[x][p] \in Valid
    PROVE  LET w == PfxRemovePeer(v, x, p)
           IN /\ w.peer = v.peer
              /\ \A y \in Pfxs, q \in Peers :
                    w.pp[y][q] = IF y = x /\ q = p THEN "INVALID" ELSE v.pp[y][q]
<1> DEFINE d == PfxDeactivatePeer(v, x, p)
           X == {x}
           Q == {p}
           w == RemovePairs(d, X, Q)
<1>1. ViewOK(d) /\ d.pp[x][p] = "INACTIVE"
  BY PfxDeactivatePeerOK
<1>2. /\ d.peer = v.peer
      /\ \A y \in Pfxs, q \in Peers : y # x \/ q # p => d.pp[y][q] = v.pp[y][q]
  BY PfxDeactivatePeerEffect
<1>3. PfxRemovePeer(v, x, p) = w
  BY DEF PfxRemovePeer
<1> HIDE DEF d
<1>4. /\ X \in SUBSET Pfxs
      /\ Q \in SUBSET Peers
      /\ Q # {}
      /\ \A y \in X, q \in Q : d.pp[y][q] = "INACTIVE"
      /\ \A y : y \in X <=> y = x
      /\ \A q : q \in Q <=> q = p
  BY <1>1
<1> HIDE DEF X, Q
<1>5. /\ w.peer = d.peer
      /\ w.pp = [y \in Pfxs |-> [q \in Peers |->
                    IF y \in X /\ q \in Q THEN "INVALID" ELSE d.pp[y][q]]]
  BY <1>1, <1>4, RemovePairsOK
<1> HIDE DEF w
<1>6. \A y \in Pfxs, q \in Peers :
         w.pp[y][q] = IF y = x /\ q = p THEN "INVALID" ELSE v.pp[y][q]
  BY <1>2, <1>4, <1>5, SMTT(20)
<1> QED
  BY <1>2, <1>3, <1>5, <1>6

\* bgpview_iter_deactivate_pfx takes down exactly the active pfx-peers of the
\* prefix
LEMMA DeactivatePfxEffect ==
    ASSUME NEW v, ViewOK(v), NEW x \in Pfxs
    PROVE  LET w == DeactivatePfx(v, x)
           IN /\ w.peer = v.peer
              /\ \A y \in Pfxs, q \in Peers :
                    w.pp[y][q] = IF y = x /\ v.pp[y][q] = "ACTIVE"
                                 THEN "INACTIVE" ELSE v.pp[y][q]
<1>1. v \in View /\ Shape(v)
  BY ViewOKParts DEF Counts
<1>2. CASE v.pfx[x] # "ACTIVE"
  <2>1. \A q \in Peers : v.pp[x][q] # "ACTIVE"
    BY <1>1, <1>2 DEF Shape, PfxFollowsPeers, HasPeer
  <2>2. DeactivatePfx(v, x) = v
    BY <1>2 DEF DeactivatePfx
  <2> QED
    BY <2>1, <2>2
<1>3. CASE v.pfx[x] = "ACTIVE"
  <2> DEFINE Q == {p \in Peers : v.pp[x][p] = "ACTIVE"}
             d == MovePfxs(v, {x}, "ACTIVE", "INACTIVE")
             w == MovePairs(d, {x}, Q, "ACTIVE", "INACTIVE")
  <2>1. DeactivatePfx(v, x) = w
    BY <1>3 DEF DeactivatePfx
  <2>2. PfxsMoved(v, d, {x}, "ACTIVE", "INACTIVE")
    BY <1>1, MovePfxsFields DEF EntryState, FieldState, Valid
  <2> HIDE DEF d
  <2>3. PairsMoved(d, w, {x}, Q, "ACTIVE", "INACTIVE")
    BY <2>2, MovePairsFields DEF FieldState, Valid, PfxsMoved
  <2> HIDE DEF w
  <2>4. w.peer = v.peer
    BY <2>2, <2>3 DEF PairsMoved, PfxsMoved
  <2>5. \A y \in Pfxs, q \in Peers :
           w.pp[y][q] = IF y = x /\ q \in Q THEN "INACTIVE" ELSE v.pp[y][q]
    BY <2>2, <2>3 DEF PairsMoved, PfxsMoved
  <2> QED
    BY <2>1, <2>4, <2>5
<1> QED
  BY <1>2, <1>3, Zenon

\* bgpview_iter_remove_pfx takes along exactly the pfx-peers of the prefix
LEMMA RemovePfxEffect ==
    ASSUME NEW v, ViewOK(v), NEW x \in Pfxs, v.pfx[x] \in Valid
    PROVE  LET w == RemovePfx(v, x)
           IN /\ w.peer = v.peer
              /\ \A y \in Pfxs, q \in Peers :
                    IF y = x THEN w.pp[y][q] \notin Valid
                             ELSE w.pp[y][q] = v.pp[y][q]
<1> DEFINE d == DeactivatePfx(v, x)
           Q == {p \in Peers : d.pp[x][p] \in Valid}
           r == RemovePfxs(d, {x})
           w == MovePairs(r, {x}, Q, "INACTIVE", "INVALID")
<1>1. ViewOK(d) /\ d.pfx[x] = "INACTIVE"
  BY DeactivatePfxOK
<1>2. /\ d.peer = v.peer
      /\ \A y \in Pfxs, q \in Peers : y # x => d.pp[y][q] = v.pp[y][q]
  BY DeactivatePfxEffect
<1>3. RemovePfx(v, x) = w
  BY DEF RemovePfx
<1> HIDE DEF d
<1>4. Counts(d)
  BY <1>1, ViewOKParts
<1>5. r \in View /\ r.peer = d.peer /\ r.pp = d.pp
  <2>1. {x} \in SUBSET Pfxs /\ \A y \in {x} : d.pfx[y] = "INACTIVE"
    BY <1>1
  <2> QED
    BY <1>4, <2>1, RemovePfxsFields, Zenon
<1> HIDE DEF r
<1>6. PairsMoved(r, w, {x}, Q, "INACTIVE", "INVALID")
  BY <1>5, MovePairsFields DEF FieldState, Valid
<1> HIDE DEF w
<1>7. w.peer = v.peer
  BY <1>2, <1>5, <1>6 DEF PairsMoved
<1>8. \A y \in Pfxs, q \in Peers :
         w.pp[y][q] = IF y = x /\ q \in Q THEN "INVALID" ELSE d.pp[y][q]
  BY <1>5, <1>6 DEF PairsMoved
<1> QED
  BY <1>2, <1>3, <1>7, <1>8 DEF Valid

\* bgpview_clear leaves neither a peer nor a pfx-peer, those of prefixes that
\* it passes over included
LEMMA ClearEffect ==
    ASSUME NEW v, ViewOK(v)
    PROVE  LET w == Clear(v)
           IN /\ \A q \in Peers : w.peer[q] \notin Valid
              /\ \A y \in Pfxs, q \in Peers : w.pp[y][q] \notin Valid
<1>1. v \in View /\ Shape(v)
  BY ViewOKParts DEF Counts
<1>2. /\ Clear(v).peer = [p \in Peers |->
                             IF v.peer[p] \in Valid THEN "INVALID" ELSE v.peer[p]]
      /\ Clear(v).pp = [x \in Pfxs |-> IF v.pfx[x] \in Valid
                                       THEN [p \in Peers |-> "INVALID"]
                                       ELSE v.pp[x]]
  BY <1>1, Zenon DEF Clear, View
<1>3. \A y \in Pfxs, q \in Peers : v.pfx[y] \notin Valid => v.pp[y][q] \notin Valid
  BY <1>1 DEF Shape, PfxFollowsPeers, HasPeer
<1> QED
  BY <1>2, <1>3 DEF Valid

\* bgpview_gc is not visible: what it frees was in no set
LEMMA GcEffect ==
    ASSUME NEW v, ViewOK(v)
    PROVE  LET w == Gc(v)
           IN /\ \A q \in Peers, s \in Valid : w.peer[q] = s <=> v.peer[q] = s
              /\ \A y \in Pfxs, q \in Peers, s \in Valid :
                    w.pp[y][q] = s <=> v.pp[y][q] = s
<1>1. v \in View /\ Shape(v)
  BY ViewOKParts DEF Counts
<1> DEFINE pfxGone(x) == v.need_gc[Version(x)] /\ v.pfx[x] = "INVALID"
           peerGone(p) == v.need_gc["peerinfo"] /\ v.peer[p] = "INVALID"
<1>2. /\ Gc(v).peer = [p \in Peers |-> IF peerGone(p) THEN "ABSENT" ELSE v.peer[p]]
      /\ Gc(v).pp = [x \in Pfxs |-> IF pfxGone(x)
                                    THEN [p \in Peers |-> "INVALID"]
                                    ELSE v.pp[x]]
  BY <1>1, Zenon DEF Gc, View
<1>3. \A y \in Pfxs, q \in Peers : pfxGone(y) => v.pp[y][q] \notin Valid
  BY <1>1 DEF Shape, PfxFollowsPeers, HasPeer, Valid
<1>4. \A q \in Peers : peerGone(q) => v.peer[q] \notin Valid
  BY DEF Valid
<1> HIDE DEF pfxGone, peerGone
<1> QED
  BY <1>2, <1>3, <1>4 DEF Valid

-----------------------------------------------------------------------------
(* From states of entries to the sets of the abstract specification        *)

\* A pair of the relation is given by its prefix and its peer
LEMMA PairFacts ==
    ASSUME NEW e \in Pfxs \X Peers
    PROVE  /\ e[1] \in Pfxs /\ e[2] \in Peers
           /\ \A p : e \in Pfxs \X {p} <=> e[2] = p
           /\ \A x : e \in {x} \X Peers <=> e[1] = x
           /\ \A x, p : e = <<x, p>> <=> e[1] = x /\ e[2] = p
  OBVIOUS

\* Two views with the same pfx-peers have the same relation
LEMMA SamePairs ==
    ASSUME NEW v, NEW w,
           \A y \in Pfxs, q \in Peers, s \in Valid : w.pp[y][q] = s <=> v.pp[y][q] = s
    PROVE  Rib(w) = Rib(v) /\ Live(w) = Live(v)
<1>1. \A e \in Pfxs \X Peers : e[1] \in Pfxs /\ e[2] \in Peers
  BY PairFacts
<1>2. \A e \in Pfxs \X Peers : w.pp[e[1]][e[2]] \in Valid <=> v.pp[e[1]][e[2]] \in Valid
  BY <1>1
<1>3. \A e \in Pfxs \X Peers :
         w.pp[e[1]][e[2]] = "ACTIVE" <=> v.pp[e[1]][e[2]] = "ACTIVE"
  BY <1>1 DEF Valid
<1> QED
  BY <1>2, <1>3, Zenon DEF Rib, Live

\* Two views with the same peers have the same known and active ones
LEMMA SamePeers ==
    ASSUME NEW v, NEW w,
           \A q \in Peers, s \in Valid : w.peer[q] = s <=> v.peer[q] = s
    PROVE  Known(w) = Known(v) /\ Up(w) = Up(v)
  BY DEF Known, Up, Valid

\* From v to w the pfx-peers of D stop being active, and those of S leave
Down(v, w, D, S) ==
    \A e \in Pfxs \X Peers :
        /\ w.pp[e[1]][e[2]] = "ACTIVE" <=> v.pp[e[1]][e[2]] = "ACTIVE" /\ e \notin D
        /\ w.pp[e[1]][e[2]] \in Valid <=> v.pp[e[1]][e[2]] \in Valid /\ e \notin S

\* Down is the difference of the relations
LEMMA PairsDown ==
    ASSUME NEW v, NEW w, NEW D, NEW S, Down(v, w, D, S)
    PROVE  Live(w) = Live(v) \ D /\ Rib(w) = Rib(v) \ S
<1>1. Live(w) = Live(v) \ D
  BY Zenon DEF Live, Down
<1>2. Rib(w) = Rib(v) \ S
  BY ZenonT(30) DEF Rib, Down
<1> QED
  BY <1>1, <1>2

-----------------------------------------------------------------------------
(* Every call is a step of the abstract specification                      *)

\* bgpview_iter_add_peer: a peer appears
LEMMA AddPeerStep ==
    ASSUME ViewOK(view), NEW p \in Peers, IterAddPeer(p)
    PROVE  Abs!AbsAddPeer(p)
<1>1. view \in View
  BY DEF ViewOK
<1>2. CASE view.peer[p] \in Valid
  <2>1. view' = view
    BY <1>2 DEF IterAddPeer, AddPeer
  <2> QED
    BY <1>2, <2>1 DEF Abs!AbsAddPeer
<1>3. CASE view.peer[p] \notin Valid
  <2>1. view' = MovePeer(view, p, "INACTIVE")
    BY <1>3 DEF IterAddPeer, AddPeer
  <2>2. /\ \A q \in Peers : view'.peer[q] = IF q = p THEN "INACTIVE" ELSE view.peer[q]
        /\ view'.pp = view.pp
    BY <1>1, <2>1, PeerMovedEffect DEF EntryState, FieldState, Valid
  <2>3. Known(view') = Known(view) \cup {p} /\ Up(view') = Up(view)
    BY <1>3, <2>2 DEF Known, Up, Valid
  <2>4. Rib(view') = Rib(view) /\ Live(view') = Live(view)
    BY <2>2 DEF Rib, Live
  <2> QED
    BY <2>3, <2>4 DEF Abs!AbsAddPeer, Known, Up, Rib, Live
<1> QED
  BY <1>2, <1>3

\* bgpview_iter_activate_peer: a known peer becomes active
LEMMA ActivatePeerStep ==
    ASSUME ViewOK(view), NEW p \in Peers, IterActivatePeer(p)
    PROVE  Abs!AbsActivatePeer(p)
<1>1. view \in View /\ view.peer[p] \in Valid
  BY DEF ViewOK, IterActivatePeer
<1>2. CASE view.peer[p] = "ACTIVE"
  <2>1. view' = view
    BY <1>2 DEF IterActivatePeer, ActivatePeer
  <2> QED
    BY <1>1, <1>2, <2>1 DEF Abs!AbsActivatePeer
<1>3. CASE view.peer[p] = "INACTIVE"
  <2>1. view' = MovePeer(view, p, "ACTIVE")
    BY <1>3 DEF IterActivatePeer, ActivatePeer
  <2>2. /\ \A q \in Peers : view'.peer[q] = IF q = p THEN "ACTIVE" ELSE view.peer[q]
        /\ view'.pp = view.pp
    BY <1>1, <2>1, PeerMovedEffect DEF EntryState, FieldState, Valid
  <2>3. Known(view') = Known(view) /\ Up(view') = Up(view) \cup {p} /\ p \in Known(view)
    BY <1>1, <1>3, <2>2 DEF Known, Up, Valid
  <2>4. Rib(view') = Rib(view) /\ Live(view') = Live(view)
    BY <2>2 DEF Rib, Live
  <2> QED
    BY <2>3, <2>4 DEF Abs!AbsActivatePeer, Known, Up, Rib, Live
<1> QED
  BY <1>1, <1>2, <1>3 DEF Valid

\* bgpview_iter_deactivate_peer: a peer goes down with its own pfx-peers
LEMMA DeactivatePeerStep ==
    ASSUME ViewOK(view), NEW p \in Peers, IterDeactivatePeer(p)
    PROVE  Abs!AbsDeactivatePeer(p)
<1>1. PICK ord \in Orders : view' = DeactivatePeer(view, p, ord)
  BY DEF IterDeactivatePeer
<1>2. /\ \A q \in Peers :
            view'.peer[q] = IF q = p /\ view.peer[q] = "ACTIVE"
                            THEN "INACTIVE" ELSE view.peer[q]
      /\ \A x \in Pfxs, q \in Peers :
            view'.pp[x][q] = IF q = p /\ view.pp[x][q] = "ACTIVE"
                             THEN "INACTIVE" ELSE view.pp[x][q]
  BY <1>1, DeactivatePeerEffect
<1>3. Known(view') = Known(view) /\ Up(view') = Up(view) \ {p}
  BY <1>2 DEF Known, Up, Valid
<1>4. Down(view, view', Pfxs \X {p}, {})
  <2>1. \A e \in Pfxs \X Peers : /\ e[1] \in Pfxs /\ e[2] \in Peers
                                /\ e \in Pfxs \X {p} <=> e[2] = p
    BY PairFacts
  <2> QED
    BY <1>2, <2>1 DEF Down, Valid
<1>5. Live(view') = Live(view) \ (Pfxs \X {p}) /\ Rib(view') = Rib(view) \ {}
  BY <1>4, PairsDown
<1> QED
  BY <1>3, <1>5 DEF Abs!AbsDeactivatePeer, Abs!OfPeer, Known, Up, Rib, Live

\* bgpview_iter_remove_peer: a peer leaves with its own pfx-peers
LEMMA RemovePeerStep ==
    ASSUME ViewOK(view), NEW p \in Peers, IterRemovePeer(p)
    PROVE  Abs!AbsRemovePeer(p)
<1>1. PICK ord \in Orders : view' = RemovePeer(view, p, ord)
  BY DEF IterRemovePeer
<1>2. /\ \A q \in Peers : view'.peer[q] = IF q = p THEN "INVALID" ELSE view.peer[q]
      /\ \A x \in Pfxs, q \in Peers :
            IF q = p THEN view'.pp[x][q] \notin Valid
                     ELSE view'.pp[x][q] = view.pp[x][q]
  BY <1>1, RemovePeerEffect DEF IterRemovePeer
<1>3. Known(view') = Known(view) \ {p} /\ Up(view') = Up(view) \ {p}
  BY <1>2 DEF Known, Up, Valid
<1>4. Down(view, view', Pfxs \X {p}, Pfxs \X {p})
  <2>1. \A e \in Pfxs \X Peers : /\ e[1] \in Pfxs /\ e[2] \in Peers
                                /\ e \in Pfxs \X {p} <=> e[2] = p
    BY PairFacts
  <2> QED
    BY <1>2, <2>1 DEF Down, Valid
<1>5. /\ Live(view') = Live(view) \ (Pfxs \X {p})
      /\ Rib(view') = Rib(view) \ (Pfxs \X {p})
  BY <1>4, PairsDown
<1> QED
  BY <1>3, <1>5 DEF Abs!AbsRemovePeer, Abs!OfPeer, Known, Up, Rib, Live

\* The three calls that add a pfx-peer: one appears, for a known peer
LEMMA AddPfxPeerStep ==
    ASSUME ViewOK(view), NEW x \in Pfxs, NEW p \in Peers, view.peer[p] \in Valid,
           view' = PfxAddPeer(AddPfx(view, x), x, p)
    PROVE  Abs!AbsAddPfxPeer(x, p)
<1>1. view \in View
  BY DEF ViewOK
<1>2. /\ view'.peer = view.peer
      /\ \A y \in Pfxs, q \in Peers :
            view'.pp[y][q] = IF y = x /\ q = p /\ view.pp[y][q] \notin Valid
                             THEN "INACTIVE" ELSE view.pp[y][q]
  BY <1>1, AddPfxPeerEffect
<1>3. Known(view') = Known(view) /\ Up(view') = Up(view) /\ p \in Known(view)
  BY <1>2 DEF Known, Up
<1>4. \A e \in Pfxs \X Peers : /\ e[1] \in Pfxs /\ e[2] \in Peers
                              /\ e = <<x, p>> <=> e[1] = x /\ e[2] = p
  BY PairFacts
<1>5. \A e \in Pfxs \X Peers :
         /\ view'.pp[e[1]][e[2]] = "ACTIVE" <=> view.pp[e[1]][e[2]] = "ACTIVE"
         /\ view'.pp[e[1]][e[2]] \in Valid
               <=> view.pp[e[1]][e[2]] \in Valid \/ e = <<x, p>>
  BY <1>2, <1>4 DEF Valid
<1>6. Live(view') = Live(view)
  BY <1>5, Zenon DEF Live
<1>7. Rib(view') = Rib(view) \cup {<<x, p>>}
  BY <1>5 DEF Rib
<1> QED
  BY <1>3, <1>6, <1>7 DEF Abs!AbsAddPfxPeer, Known, Up, Rib, Live

\* bgpview_iter_pfx_activate_peer: a pfx-peer of an active peer becomes active
LEMMA PfxActivatePeerStep ==
    ASSUME ViewOK(view), NEW x \in Pfxs, NEW p \in Peers, IterPfxActivatePeer(x, p)
    PROVE  Abs!AbsPfxActivatePeer(x, p)
<1>1. /\ view \in View
      /\ view.peer[p] = "ACTIVE"
      /\ view.pp[x][p] \in Valid
      /\ view' = PfxActivatePeer(view, x, p)
  BY DEF ViewOK, IterPfxActivatePeer
<1>2. /\ view'.peer = view.peer
      /\ \A y \in Pfxs, q \in Peers :
            view'.pp[y][q] = IF y = x /\ q = p /\ view.pp[y][q] = "INACTIVE"
                             THEN "ACTIVE" ELSE view.pp[y][q]
  BY <1>1, PfxActivatePeerEffect
<1>3. Known(view') = Known(view) /\ Up(view') = Up(view) /\ p \in Up(view)
  BY <1>1, <1>2 DEF Known, Up
<1>4. \A e \in Pfxs \X Peers : /\ e[1] \in Pfxs /\ e[2] \in Peers
                              /\ e = <<x, p>> <=> e[1] = x /\ e[2] = p
  BY PairFacts
<1>5. \A e \in Pfxs \X Peers :
         /\ view'.pp[e[1]][e[2]] \in Valid <=> view.pp[e[1]][e[2]] \in Valid
         /\ view'.pp[e[1]][e[2]] = "ACTIVE"
               <=> view.pp[e[1]][e[2]] = "ACTIVE" \/ e = <<x, p>>
  BY <1>1, <1>2, <1>4 DEF Valid
<1>6. Rib(view') = Rib(view)
  BY <1>5, Zenon DEF Rib
<1>7. Live(view') = Live(view) \cup {<<x, p>>}
  BY <1>5 DEF Live
<1>8. <<x, p>> \in Rib(view)
  BY <1>1 DEF Rib
<1> QED
  BY <1>3, <1>6, <1>7, <1>8 DEF Abs!AbsPfxActivatePeer, Known, Up, Rib, Live

\* The calls on one prefix take down D and remove S
LEMMA PfxDownStep ==
    ASSUME NEW x \in Pfxs, NEW D, NEW S,
           view'.peer = view.peer, Down(view, view', D, S),
           D \subseteq {x} \X Peers, S \subseteq D
    PROVE  Abs!AbsPfxDown(x, D, S)
<1>1. Known(view') = Known(view) /\ Up(view') = Up(view)
  BY DEF Known, Up
<1>2. Live(view') = Live(view) \ D /\ Rib(view') = Rib(view) \ S
  BY PairsDown
<1> QED
  BY <1>1, <1>2 DEF Abs!AbsPfxDown, Abs!OfPfx, Known, Up, Rib, Live

\* bgpview_iter_pfx_deactivate_peer: one pfx-peer goes down
LEMMA PfxDeactivatePeerStep ==
    ASSUME ViewOK(view), NEW x \in Pfxs, NEW p \in Peers, IterPfxDeactivatePeer(x, p)
    PROVE  Abs!AbsPfxDown(x, {<<x, p>>}, {})
<1>1. /\ view'.peer = view.peer
      /\ \A y \in Pfxs, q \in Peers :
            view'.pp[y][q] = IF y = x /\ q = p /\ view.pp[y][q] = "ACTIVE"
                             THEN "INACTIVE" ELSE view.pp[y][q]
  BY PfxDeactivatePeerEffect DEF IterPfxDeactivatePeer
<1>2. \A e \in Pfxs \X Peers : /\ e[1] \in Pfxs /\ e[2] \in Peers
                              /\ e = <<x, p>> <=> e[1] = x /\ e[2] = p
  BY PairFacts
<1>3. Down(view, view', {<<x, p>>}, {})
  BY <1>1, <1>2 DEF Down, Valid
<1> QED
  BY <1>1, <1>3, PfxDownStep

\* bgpview_iter_pfx_remove_peer: one pfx-peer leaves
LEMMA PfxRemovePeerStep ==
    ASSUME ViewOK(view), NEW x \in Pfxs, NEW p \in Peers, IterPfxRemovePeer(x, p)
    PROVE  Abs!AbsPfxDown(x, {<<x, p>>}, {<<x, p>>})
<1>1. /\ view'.peer = view.peer
      /\ \A y \in Pfxs, q \in Peers :
            view'.pp[y][q] = IF y = x /\ q = p THEN "INVALID" ELSE view.pp[y][q]
  BY PfxRemovePeerEffect DEF IterPfxRemovePeer
<1>2. \A e \in Pfxs \X Peers : /\ e[1] \in Pfxs /\ e[2] \in Peers
                              /\ e = <<x, p>> <=> e[1] = x /\ e[2] = p
  BY PairFacts
<1>3. Down(view, view', {<<x, p>>}, {<<x, p>>})
  BY <1>1, <1>2 DEF Down, Valid
<1> QED
  BY <1>1, <1>3, PfxDownStep

\* bgpview_iter_deactivate_pfx: all pfx-peers of the prefix go down
LEMMA DeactivatePfxStep ==
    ASSUME ViewOK(view), NEW x \in Pfxs, IterDeactivatePfx(x)
    PROVE  Abs!AbsPfxDown(x, {x} \X Peers, {})
<1>1. /\ view'.peer = view.peer
      /\ \A y \in Pfxs, q \in Peers :
            view'.pp[y][q] = IF y = x /\ view.pp[y][q] = "ACTIVE"
                             THEN "INACTIVE" ELSE view.pp[y][q]
  BY DeactivatePfxEffect DEF IterDeactivatePfx
<1>2. \A e \in Pfxs \X Peers : /\ e[1] \in Pfxs /\ e[2] \in Peers
                              /\ e \in {x} \X Peers <=> e[1] = x
  BY PairFacts
<1>3. Down(view, view', {x} \X Peers, {})
  BY <1>1, <1>2 DEF Down, Valid
<1> QED
  BY <1>1, <1>3, PfxDownStep

\* bgpview_iter_remove_pfx: all pfx-peers of the prefix leave
LEMMA RemovePfxStep ==
    ASSUME ViewOK(view), NEW x \in Pfxs, IterRemovePfx(x)
    PROVE  Abs!AbsPfxDown(x, {x} \X Peers, {x} \X Peers)
<1>1. /\ view'.peer = view.peer
      /\ \A y \in Pfxs, q \in Peers :
            IF y = x THEN view'.pp[y][q] \notin Valid
                     ELSE view'.pp[y][q] = view.pp[y][q]
  BY RemovePfxEffect DEF IterRemovePfx
<1>2. \A e \in Pfxs \X Peers : /\ e[1] \in Pfxs /\ e[2] \in Peers
                              /\ e \in {x} \X Peers <=> e[1] = x
  BY PairFacts
<1>3. Down(view, view', {x} \X Peers, {x} \X Peers)
  BY <1>1, <1>2 DEF Down, Valid
<1> QED
  BY <1>1, <1>3, PfxDownStep

\* bgpview_clear: everything leaves
LEMMA ClearStep ==
    ASSUME ViewOK(view), ClearView
    PROVE  Abs!AbsClear
<1>1. /\ \A q \in Peers : view'.peer[q] \notin Valid
      /\ \A y \in Pfxs, q \in Peers : view'.pp[y][q] \notin Valid
  BY ClearEffect DEF ClearView
<1>2. \A e \in Pfxs \X Peers : e[1] \in Pfxs /\ e[2] \in Peers
  BY PairFacts
<1>3. Known(view') = {} /\ Up(view') = {}
  BY <1>1 DEF Known, Up, Valid
<1>4. Rib(view') = {} /\ Live(view') = {}
  BY <1>1, <1>2 DEF Rib, Live, Valid
<1> QED
  BY <1>3, <1>4 DEF Abs!AbsClear, Known, Up, Rib, Live

\* bgpview_gc: nothing that a user can see happens
LEMMA GcStep ==
    ASSUME ViewOK(view), GcView
    PROVE  UNCHANGED Abs!absVars
<1>1. /\ \A q \in Peers, s \in Valid : view'.peer[q] = s <=> view.peer[q] = s
      /\ \A y \in Pfxs, q \in Peers, s \in Valid :
            view'.pp[y][q] = s <=> view.pp[y][q] = s
  BY GcEffect DEF GcView
<1>2. Known(view') = Known(view) /\ Up(view') = Up(view)
  BY <1>1, SamePeers
<1>3. Rib(view') = Rib(view) /\ Live(view') = Live(view)
  BY <1>1, SamePairs
<1> QED
  BY <1>2, <1>3 DEF Abs!absVars, Known, Up, Rib, Live

-----------------------------------------------------------------------------
(* The theorem                                                             *)

\* Every call of bgpview.h, on a view that satisfies the invariant, is a step
\* of the abstract specification or changes nothing it speaks of.
LEMMA NextStep ==
    ASSUME ViewOK(view), [Next]_view
    PROVE  [Abs!AbsNext]_(Abs!absVars)
<1>1. ASSUME NEW p \in Peers, IterAddPeer(p)
      PROVE  Abs!AbsNext
  BY <1>1, AddPeerStep, Zenon DEF Abs!AbsNext
<1>2. ASSUME NEW p \in Peers, IterRemovePeer(p)
      PROVE  Abs!AbsNext
  BY <1>2, RemovePeerStep, Zenon DEF Abs!AbsNext
<1>3. ASSUME NEW p \in Peers, IterActivatePeer(p)
      PROVE  Abs!AbsNext
  BY <1>3, ActivatePeerStep, Zenon DEF Abs!AbsNext
<1>4. ASSUME NEW p \in Peers, IterDeactivatePeer(p)
      PROVE  Abs!AbsNext
  BY <1>4, DeactivatePeerStep, Zenon DEF Abs!AbsNext
<1>5. ASSUME NEW x \in Pfxs, IterRemovePfx(x)
      PROVE  Abs!AbsNext
  BY <1>5, RemovePfxStep, Zenon DEF Abs!AbsNext, Abs!OfPfx
<1>6. ASSUME NEW x \in Pfxs, IterDeactivatePfx(x)
      PROVE  Abs!AbsNext
  BY <1>6, DeactivatePfxStep, Zenon DEF Abs!AbsNext, Abs!OfPfx
<1>7. ASSUME NEW x \in Pfxs, NEW p \in Peers, view.peer[p] \in Valid,
             view' = PfxAddPeer(AddPfx(view, x), x, p)
      PROVE  Abs!AbsNext
  BY <1>7, AddPfxPeerStep, Zenon DEF Abs!AbsNext
<1>8. ASSUME NEW x \in Pfxs, NEW p \in Peers, IterAddPfxPeer(x, p)
      PROVE  Abs!AbsNext
  <2>1. view.peer[p] \in Valid /\ view' = PfxAddPeer(AddPfx(view, x), x, p)
    BY <1>8 DEF IterAddPfxPeer, AddPfxPeer, Valid
  <2> QED
    BY <1>7, <2>1
<1>9. ASSUME NEW x \in Pfxs, NEW p \in Peers, IterAddPfxPeerById(x, p)
      PROVE  Abs!AbsNext \/ view' = view
  BY <1>7, <1>9 DEF IterAddPfxPeerById, AddPfxPeerById
<1>10. ASSUME NEW x \in Pfxs, NEW p \in Peers, IterPfxAddPeer(x, p)
       PROVE  Abs!AbsNext
  <2>1. view.peer[p] \in Valid /\ view' = PfxAddPeer(AddPfx(view, x), x, p)
    BY <1>10, Zenon DEF IterPfxAddPeer, AddPfx
  <2> QED
    BY <1>7, <2>1
<1>11. ASSUME NEW x \in Pfxs, NEW p \in Peers, IterPfxRemovePeer(x, p)
       PROVE  Abs!AbsNext
  BY <1>11, PfxRemovePeerStep, Zenon DEF Abs!AbsNext
<1>12. ASSUME NEW x \in Pfxs, NEW p \in Peers, IterPfxActivatePeer(x, p)
       PROVE  Abs!AbsNext
  BY <1>12, PfxActivatePeerStep, Zenon DEF Abs!AbsNext
<1>13. ASSUME NEW x \in Pfxs, NEW p \in Peers, IterPfxDeactivatePeer(x, p)
       PROVE  Abs!AbsNext
  BY <1>13, PfxDeactivatePeerStep, Zenon DEF Abs!AbsNext
<1>14. ASSUME ClearView
       PROVE  Abs!AbsNext
  BY <1>14, ClearStep, Zenon DEF Abs!AbsNext
<1>15. ASSUME GcView
       PROVE  UNCHANGED Abs!absVars
  BY <1>15, GcStep
<1>16. ASSUME view' = view
       PROVE  UNCHANGED Abs!absVars
  BY <1>16 DEF Abs!absVars
<1> QED
  BY <1>1, <1>2, <1>3, <1>4, <1>5, <1>6, <1>8, <1>9, <1>10, <1>11, <1>12, <1>13,
     <1>14, <1>15, <1>16, Zenon DEF Next

\* The view implements what bgpview.h promises: its peers and its relation of
\* prefixes and peers change as the abstract specification allows.
THEOREM ViewImplementsAbs == Spec => ImplementsAbs
<1>1. Init => Abs!AbsInit
  <2> SUFFICES ASSUME view = EmptyView
               PROVE  Abs!AbsInit
    BY DEF Init
  <2>1. \A q \in Peers : view.peer[q] \notin Valid
    BY DEF EmptyView, Valid
  <2>2. \A y \in Pfxs, q \in Peers : view.pp[y][q] \notin Valid
    BY DEF EmptyView, Valid
  <2>3. \A e \in Pfxs \X Peers : e[1] \in Pfxs /\ e[2] \in Peers
    BY PairFacts
  <2>4. Known(view) = {} /\ Up(view) = {}
    BY <2>1 DEF Known, Up, Valid
  <2>5. Rib(view) = {} /\ Live(view) = {}
    BY <2>2, <2>3 DEF Rib, Live, Valid
  <2> QED
    BY <2>4, <2>5 DEF Abs!AbsInit, Known, Up, Rib, Live
<1>2. ViewInv /\ [Next]_view => [Abs!AbsNext]_(Abs!absVars)
  BY NextStep DEF ViewInv
<1> QED
  BY <1>1, <1>2, Invariance, PTL DEF Spec, ImplementsAbs, Abs!AbsSpec
==============================================================================
