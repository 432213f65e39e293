--------------------------- MODULE BGPViewProofs ---------------------------
(***************************************************************************)
(* For any finite sets of peers and prefixes, every call on a view keeps   *)
(* the counters equal to what they count, the state of a prefix in step    *)
(* with its pfx-peers, and pfx-peers only of peers in the view.            *)
(***************************************************************************)
EXTENDS BGPView, FiniteSetTheorems, TLAPS

-----------------------------------------------------------------------------
(* Counting                                                                *)

\* The entries D of table f, all in state a, are in state b in table g
Moves(S, f, g, D, a, b) ==
    /\ IsFiniteSet(S)
    /\ D \in SUBSET S
    /\ a # b
    /\ \A i \in D : f[i] = a
    /\ \A i \in S : g[i] = IF i \in D THEN b ELSE f[i]

\* When the entries D of a table, all in state a, move to state b, the
\* number of entries in a falls by |D|, the number in b rises by |D|, and no
\* other number changes.
LEMMA CountMove ==
    ASSUME NEW S, NEW D, NEW f, NEW g, NEW a, NEW b, Moves(S, f, g, D, a, b)
    PROVE  /\ Cardinality(D) \in Nat
           /\ \A s : /\ Count(S, f, s) \in Nat
                     /\ Count(S, g, s) =
                          CASE s = a -> Count(S, f, s) - Cardinality(D)
                            [] s = b -> Count(S, f, s) + Cardinality(D)
                            [] OTHER -> Count(S, f, s)
<1> USE DEF Moves
<1> DEFINE F(s) == {i \in S : f[i] = s}
           G(s) == {i \in S : g[i] = s}
<1>1. /\ IsFiniteSet(D)
      /\ Cardinality(D) \in Nat
  BY FS_Subset, FS_CardinalityType
<1>2. ASSUME NEW s
      PROVE  /\ IsFiniteSet(F(s))
             /\ Cardinality(F(s)) \in Nat
             /\ IsFiniteSet(G(s))
             /\ Cardinality(G(s)) \in Nat
  <2>1. F(s) \in SUBSET S /\ G(s) \in SUBSET S
    OBVIOUS
  <2> QED
    BY <2>1, FS_Subset, FS_CardinalityType
<1>3. Cardinality(G(a)) = Cardinality(F(a)) - Cardinality(D)
  <2>1. G(a) \cup D = F(a) /\ G(a) \cap D = {}
    OBVIOUS
  <2>2. IsFiniteSet(G(a)) /\ Cardinality(G(a)) \in Nat
    BY <1>2, Zenon
  <2> HIDE DEF F, G
  <2>3. Cardinality(F(a)) = Cardinality(G(a)) + Cardinality(D) - Cardinality({})
    BY <1>1, <2>1, <2>2, FS_Union, Zenon
  <2> QED
    BY <1>1, <2>2, <2>3, FS_EmptySet
<1>4. Cardinality(G(b)) = Cardinality(F(b)) + Cardinality(D)
  <2>1. F(b) \cup D = G(b) /\ F(b) \cap D = {}
    OBVIOUS
  <2>2. IsFiniteSet(F(b)) /\ Cardinality(F(b)) \in Nat
    BY <1>2, Zenon
  <2> HIDE DEF F, G
  <2>3. Cardinality(G(b)) = Cardinality(F(b)) + Cardinality(D) - Cardinality({})
    BY <1>1, <2>1, <2>2, FS_Union, Zenon
  <2> QED
    BY <1>1, <2>2, <2>3, FS_EmptySet
<1>5. ASSUME NEW s, s # a, s # b
      PROVE  Cardinality(G(s)) = Cardinality(F(s))
  <2>1. G(s) = F(s)
    BY <1>5
  <2> QED
    BY <2>1
<1>6. \A s : Count(S, f, s) = Cardinality(F(s)) /\ Count(S, g, s) = Cardinality(G(s))
  BY DEF Count
<1> HIDE DEF F, G
<1> QED
  BY <1>1, <1>2, <1>3, <1>4, <1>5, <1>6

\* So Moved keeps a counter that was exact exact
LEMMA ExactMoved ==
    ASSUME NEW S, NEW D, NEW f, NEW g, NEW a, NEW b, Moves(S, f, g, D, a, b),
           NEW c, Exact(c, S, f)
    PROVE  Exact(Moved(c, a, b, Cardinality(D)), S, g)
<1>1. \A s : Count(S, g, s) =
                  CASE s = a -> Count(S, f, s) - Cardinality(D)
                    [] s = b -> Count(S, f, s) + Cardinality(D)
                    [] OTHER -> Count(S, f, s)
  BY CountMove
<1> QED
  BY <1>1 DEF Moved, Exact

\* The prefixes of one version are prefixes of that version, finitely many
LEMMA VersionFacts ==
    /\ \A x \in Pfxs : Version(x) \in Versions /\ x \in PfxsOf(Version(x))
    /\ \A ver \in Versions : \A x \in PfxsOf(ver) : x \in Pfxs /\ Version(x) = ver
    /\ \A ver \in Versions : IsFiniteSet(PfxsOf(ver)) /\ PfxsOf(ver) \subseteq Pfxs
    /\ IsFiniteSet(Peers)
  BY ConstantsAssumption DEF Pfxs, Version, Versions, PfxsOf

-----------------------------------------------------------------------------
(* The three operators that change entries together with their counters    *)

\* The counters are exact
Counts(v) ==
    /\ v \in View
    /\ PeersCntExact(v)
    /\ PfxCntExact(v)
    /\ PfxsCntExact(v)
    /\ PeerinfoCntExact(v)

\* What the three operators do to the fields of a view
PeerMoved(v, w, p, to) ==
    /\ w \in View
    /\ w.peer = [v.peer EXCEPT ![p] = to]
    /\ w.peerinfo_cnt = Moved(v.peerinfo_cnt, v.peer[p], to, 1)
    /\ w.pfx = v.pfx
    /\ w.pp = v.pp
    /\ w.peers_cnt = v.peers_cnt
    /\ w.pfx_cnt = v.pfx_cnt
    /\ w.pfxs_cnt = v.pfxs_cnt
    /\ w.need_gc = v.need_gc

PfxsMoved(v, w, G, from, to) ==
    /\ w \in View
    /\ w.pfx = [x \in Pfxs |-> IF x \in G THEN to ELSE v.pfx[x]]
    /\ w.pfxs_cnt = [ver \in Versions |->
                        Moved(v.pfxs_cnt[ver], from, to,
                              Cardinality(G \cap PfxsOf(ver)))]
    /\ w.peer = v.peer
    /\ w.pp = v.pp
    /\ w.peers_cnt = v.peers_cnt
    /\ w.pfx_cnt = v.pfx_cnt
    /\ w.peerinfo_cnt = v.peerinfo_cnt
    /\ w.need_gc = v.need_gc

PairsMoved(v, w, X, Q, from, to) ==
    /\ w \in View
    /\ w.pp = [x \in Pfxs |-> [p \in Peers |->
                  IF x \in X /\ p \in Q THEN to ELSE v.pp[x][p]]]
    /\ w.peers_cnt = [x \in Pfxs |->
          IF x \in X THEN Moved(v.peers_cnt[x], from, to, Cardinality(Q))
                     ELSE v.peers_cnt[x]]
    /\ w.pfx_cnt = [p \in Peers |-> [ver \in Versions |->
          IF p \in Q THEN Moved(v.pfx_cnt[p][ver], from, to,
                                Cardinality(X \cap PfxsOf(ver)))
                     ELSE v.pfx_cnt[p][ver]]]
    /\ w.peer = v.peer
    /\ w.pfx = v.pfx
    /\ w.pfxs_cnt = v.pfxs_cnt
    /\ w.peerinfo_cnt = v.peerinfo_cnt
    /\ w.need_gc = v.need_gc

\* Moved keeps a counter a counter
LEMMA MovedType ==
    ASSUME NEW c \in Counter, NEW from, NEW to, NEW n \in Int
    PROVE  Moved(c, from, to, n) \in Counter
  BY DEF Moved, Counter

\* Moving one peer: only the state of that peer and peerinfo_cnt change
LEMMA MovePeerFields ==
    ASSUME NEW v \in View, NEW p \in Peers, NEW to \in EntryState
    PROVE  PeerMoved(v, MovePeer(v, p, to), p, to)
<1>1. Moved(v.peerinfo_cnt, v.peer[p], to, 1) \in Counter
  BY MovedType DEF View
<1> QED
  BY <1>1, Zenon DEF MovePeer, View, PeerMoved

\* Moving one peer keeps every counter exact
LEMMA MovePeerCounts ==
    ASSUME NEW v, Counts(v), NEW p \in Peers, NEW to \in EntryState,
           v.peer[p] # to
    PROVE  Counts(MovePeer(v, p, to))
<1> DEFINE w == MovePeer(v, p, to)
<1>1. v \in View
  BY DEF Counts
<1>2. PeerMoved(v, w, p, to)
  BY <1>1, MovePeerFields
<1> HIDE DEF w
<1>3. PeersCntExact(w) /\ PfxCntExact(w) /\ PfxsCntExact(w)
  BY <1>2 DEF Counts, PeersCntExact, PfxCntExact, PfxsCntExact, Column, PeerMoved
<1>4. PeerinfoCntExact(w)
  <2>1. Moves(Peers, v.peer, w.peer, {p}, v.peer[p], to)
    BY <1>1, <1>2, VersionFacts DEF View, Moves, PeerMoved
  <2>2. Exact(v.peerinfo_cnt, Peers, v.peer)
    BY DEF Counts, PeerinfoCntExact
  <2>3. Exact(Moved(v.peerinfo_cnt, v.peer[p], to, Cardinality({p})), Peers, w.peer)
    BY <2>1, <2>2, ExactMoved
  <2>4. Cardinality({p}) = 1
    BY FS_Singleton, Zenon
  <2> QED
    BY <1>2, <2>3, <2>4 DEF PeerinfoCntExact, PeerMoved
<1> QED
  BY <1>2, <1>3, <1>4 DEF Counts, w, PeerMoved

\* Moving prefixes: only their states and v4pfxs_cnt, v6pfxs_cnt change
LEMMA MovePfxsFields ==
    ASSUME NEW v \in View, NEW G \in SUBSET Pfxs, NEW from, NEW to \in EntryState
    PROVE  PfxsMoved(v, MovePfxs(v, G, from, to), G, from, to)
<1>1. \A ver \in Versions : Cardinality(G \cap PfxsOf(ver)) \in Int
  <2> SUFFICES ASSUME NEW ver \in Versions
               PROVE  Cardinality(G \cap PfxsOf(ver)) \in Nat
    OBVIOUS
  <2>1. G \cap PfxsOf(ver) \in SUBSET PfxsOf(ver)
    OBVIOUS
  <2> QED
    BY <2>1, VersionFacts, FS_Subset, FS_CardinalityType
<1>2. \A ver \in Versions : v.pfxs_cnt[ver] \in Counter
  BY DEF View
<1>3. [ver \in Versions |-> Moved(v.pfxs_cnt[ver], from, to,
                                  Cardinality(G \cap PfxsOf(ver)))]
         \in [Versions -> Counter]
  BY <1>1, <1>2, MovedType
<1>4. [x \in Pfxs |-> IF x \in G THEN to ELSE v.pfx[x]] \in [Pfxs -> EntryState]
  BY DEF View
<1> QED
  BY <1>3, <1>4, Zenon DEF MovePfxs, View, PfxsMoved

\* Moving prefixes that are all in one state keeps every counter exact
LEMMA MovePfxsCounts ==
    ASSUME NEW v, Counts(v), NEW G \in SUBSET Pfxs,
           NEW from, NEW to \in EntryState, from # to,
           \A x \in G : v.pfx[x] = from
    PROVE  Counts(MovePfxs(v, G, from, to))
<1> DEFINE w == MovePfxs(v, G, from, to)
<1>1. v \in View
  BY DEF Counts
<1>2. PfxsMoved(v, w, G, from, to)
  BY <1>1, MovePfxsFields
<1> HIDE DEF w
<1>3. PeersCntExact(w) /\ PfxCntExact(w) /\ PeerinfoCntExact(w)
  BY <1>2 DEF Counts, PeersCntExact, PfxCntExact, PeerinfoCntExact, Column, PfxsMoved
<1>4. PfxsCntExact(w)
  <2> SUFFICES ASSUME NEW ver \in Versions
               PROVE  Exact(w.pfxs_cnt[ver], PfxsOf(ver), w.pfx)
    BY DEF PfxsCntExact
  <2>1. Moves(PfxsOf(ver), v.pfx, w.pfx, G \cap PfxsOf(ver), from, to)
    BY <1>2, VersionFacts DEF Moves, PfxsMoved
  <2>2. Exact(v.pfxs_cnt[ver], PfxsOf(ver), v.pfx)
    BY DEF Counts, PfxsCntExact
  <2>3. Exact(Moved(v.pfxs_cnt[ver], from, to, Cardinality(G \cap PfxsOf(ver))),
              PfxsOf(ver), w.pfx)
    BY <2>1, <2>2, ExactMoved
  <2> QED
    BY <1>2, <2>3 DEF PfxsMoved
<1> QED
  BY <1>2, <1>3, <1>4 DEF Counts, w, PfxsMoved

\* Moving pfx-peers: only their states and the counters of their prefixes and
\* of their peers change
LEMMA MovePairsFields ==
    ASSUME NEW v \in View, NEW X \in SUBSET Pfxs, NEW Q \in SUBSET Peers,
           NEW from, NEW to \in FieldState
    PROVE  PairsMoved(v, MovePairs(v, X, Q, from, to), X, Q, from, to)
<1> DEFINE pp == [x \in Pfxs |-> [p \in Peers |->
                     IF x \in X /\ p \in Q THEN to ELSE v.pp[x][p]]]
           pc == [x \in Pfxs |->
                     IF x \in X THEN Moved(v.peers_cnt[x], from, to, Cardinality(Q))
                                ELSE v.peers_cnt[x]]
           xc == [p \in Peers |-> [ver \in Versions |->
                     IF p \in Q THEN Moved(v.pfx_cnt[p][ver], from, to,
                                           Cardinality(X \cap PfxsOf(ver)))
                                ELSE v.pfx_cnt[p][ver]]]
<1>1. Cardinality(Q) \in Int
  BY VersionFacts, FS_Subset, FS_CardinalityType
<1>2. \A ver \in Versions : Cardinality(X \cap PfxsOf(ver)) \in Int
  <2> SUFFICES ASSUME NEW ver \in Versions
               PROVE  Cardinality(X \cap PfxsOf(ver)) \in Nat
    OBVIOUS
  <2>1. X \cap PfxsOf(ver) \in SUBSET PfxsOf(ver)
    OBVIOUS
  <2> QED
    BY <2>1, VersionFacts, FS_Subset, FS_CardinalityType
<1>3. pc \in [Pfxs -> Counter]
  <2>1. \A x \in Pfxs : v.peers_cnt[x] \in Counter
    BY DEF View
  <2> QED
    BY <1>1, <2>1, MovedType
<1>4. xc \in [Peers -> [Versions -> Counter]]
  <2>1. \A p \in Peers, ver \in Versions : v.pfx_cnt[p][ver] \in Counter
    BY DEF View
  <2>2. \A p \in Peers, ver \in Versions :
           Moved(v.pfx_cnt[p][ver], from, to, Cardinality(X \cap PfxsOf(ver)))
              \in Counter
    BY <1>2, <2>1, MovedType
  <2> QED
    BY <2>1, <2>2
<1>5. pp \in [Pfxs -> [Peers -> FieldState]]
  BY DEF View
<1>6. MovePairs(v, X, Q, from, to) =
         [v EXCEPT !.pp = pp, !.peers_cnt = pc, !.pfx_cnt = xc]
  BY DEF MovePairs
<1> HIDE DEF pp, pc, xc
<1>7. LET w == [v EXCEPT !.pp = pp, !.peers_cnt = pc, !.pfx_cnt = xc]
      IN /\ w \in View
         /\ w.pp = pp
         /\ w.peers_cnt = pc
         /\ w.pfx_cnt = xc
         /\ w.peer = v.peer
         /\ w.pfx = v.pfx
         /\ w.pfxs_cnt = v.pfxs_cnt
         /\ w.peerinfo_cnt = v.peerinfo_cnt
         /\ w.need_gc = v.need_gc
  BY <1>3, <1>4, <1>5, Zenon DEF View
<1> QED
  BY <1>6, <1>7 DEF PairsMoved, pp, pc, xc

\* Moving pfx-peers that are all in one state keeps every counter exact
LEMMA MovePairsCounts ==
    ASSUME NEW v, Counts(v), NEW X \in SUBSET Pfxs, NEW Q \in SUBSET Peers,
           NEW from, NEW to \in FieldState, from # to,
           \A x \in X, p \in Q : v.pp[x][p] = from
    PROVE  Counts(MovePairs(v, X, Q, from, to))
<1> DEFINE w == MovePairs(v, X, Q, from, to)
<1>1. v \in View
  BY DEF Counts
<1>2. PairsMoved(v, w, X, Q, from, to)
  BY <1>1, MovePairsFields
<1> HIDE DEF w
<1>3. PfxsCntExact(w) /\ PeerinfoCntExact(w)
  BY <1>2 DEF Counts, PfxsCntExact, PeerinfoCntExact, PairsMoved
<1>4. PeersCntExact(w)
  <2> SUFFICES ASSUME NEW x \in Pfxs
               PROVE  Exact(w.peers_cnt[x], Peers, w.pp[x])
    BY DEF PeersCntExact
  <2>1. Exact(v.peers_cnt[x], Peers, v.pp[x])
    BY DEF Counts, PeersCntExact
  <2>2. CASE x \in X
    <3>1. Moves(Peers, v.pp[x], w.pp[x], Q, from, to)
      BY <1>2, <2>2, VersionFacts DEF Moves, PairsMoved
    <3>2. Exact(Moved(v.peers_cnt[x], from, to, Cardinality(Q)), Peers, w.pp[x])
      BY <2>1, <3>1, ExactMoved
    <3> QED
      BY <1>2, <2>2, <3>2 DEF PairsMoved
  <2>3. CASE x \notin X
    <3>1. w.pp[x] = v.pp[x]
      BY <1>1, <1>2, <2>3 DEF View, PairsMoved
    <3> QED
      BY <1>2, <2>1, <2>3, <3>1 DEF PairsMoved
  <2> QED
    BY <2>2, <2>3
<1>5. PfxCntExact(w)
  <2> SUFFICES ASSUME NEW p \in Peers, NEW ver \in Versions
               PROVE  Exact(w.pfx_cnt[p][ver], PfxsOf(ver), Column(w, p))
    BY DEF PfxCntExact
  <2>1. Exact(v.pfx_cnt[p][ver], PfxsOf(ver), Column(v, p))
    BY DEF Counts, PfxCntExact
  <2>2. CASE p \in Q
    <3>1. Moves(PfxsOf(ver), Column(v, p), Column(w, p), X \cap PfxsOf(ver), from, to)
      BY <1>2, <2>2, VersionFacts DEF Moves, Column, PairsMoved
    <3>2. Exact(Moved(v.pfx_cnt[p][ver], from, to, Cardinality(X \cap PfxsOf(ver))),
                PfxsOf(ver), Column(w, p))
      BY <2>1, <3>1, ExactMoved
    <3> QED
      BY <1>2, <2>2, <3>2 DEF PairsMoved
  <2>3. CASE p \notin Q
    <3>1. Column(w, p) = Column(v, p)
      BY <1>2, <2>3 DEF Column, PairsMoved
    <3> QED
      BY <1>2, <2>1, <2>3, <3>1 DEF PairsMoved
  <2> QED
    BY <2>2, <2>3
<1> QED
  BY <1>2, <1>3, <1>4, <1>5 DEF Counts, w, PairsMoved

-----------------------------------------------------------------------------
(* Reading the counters                                                    *)

\* A count is zero exactly when nothing is counted, and never negative
LEMMA CountZero ==
    ASSUME NEW S, IsFiniteSet(S), NEW f, NEW s
    PROVE  /\ Count(S, f, s) \in Nat
           /\ Count(S, f, s) = 0 <=> \A e \in S : f[e] # s
<1> DEFINE T == {e \in S : f[e] = s}
<1>1. T \in SUBSET S
  OBVIOUS
<1>2. IsFiniteSet(T) /\ Cardinality(T) \in Nat
  BY <1>1, FS_Subset, FS_CardinalityType
<1>3. T = {} <=> \A e \in S : f[e] # s
  OBVIOUS
<1>4. Count(S, f, s) = Cardinality(T)
  BY DEF Count
<1> HIDE DEF T
<1> QED
  BY <1>2, <1>3, <1>4, FS_EmptySet

\* The zero counter counts a table without valid entries
LEMMA NothingCounted ==
    \A S, f : IsFiniteSet(S) /\ (\A i \in S : f[i] \notin Valid)
                => Exact(ZeroCnt, S, f)
  BY CountZero DEF Exact, ZeroCnt

\* A counter does not tell apart two tables with the same valid entries
LEMMA SameCounted ==
    \A c, S, f, g :
        Exact(c, S, f) /\ (\A i \in S, s \in Valid : f[i] = s <=> g[i] = s)
           => Exact(c, S, g)
<1> SUFFICES ASSUME NEW c, NEW S, NEW f, NEW g, Exact(c, S, f),
                    \A i \in S, s \in Valid : f[i] = s <=> g[i] = s,
                    NEW s \in Valid
             PROVE  c[s] = Count(S, g, s)
  BY DEF Exact
<1>1. {i \in S : f[i] = s} = {i \in S : g[i] = s}
  OBVIOUS
<1> QED
  BY <1>1 DEF Exact, Count

\* peers_cnt of a prefix is zero exactly when it has no such pfx-peer
LEMMA PeersCntZero ==
    ASSUME NEW v, Counts(v), NEW x \in Pfxs
    PROVE  /\ \A s \in Valid : v.peers_cnt[x][s] \in Nat
           /\ v.peers_cnt[x]["ACTIVE"] = 0 <=> ~HasPeer(v, x, {"ACTIVE"})
           /\ Total(v.peers_cnt[x]) = 0 <=> ~HasPeer(v, x, Valid)
<1>1. \A s \in Valid : v.peers_cnt[x][s] = Count(Peers, v.pp[x], s)
  BY DEF Counts, PeersCntExact, Exact
<1>2. \A s : /\ Count(Peers, v.pp[x], s) \in Nat
             /\ Count(Peers, v.pp[x], s) = 0 <=> \A p \in Peers : v.pp[x][p] # s
  BY CountZero, VersionFacts
<1>3. \A s \in Valid : /\ v.peers_cnt[x][s] \in Nat
                       /\ v.peers_cnt[x][s] = 0 <=> \A p \in Peers : v.pp[x][p] # s
  BY <1>1, <1>2
<1> QED
  BY <1>3 DEF HasPeer, Total, Valid

\* The sums that deactivate_peer and remove_peer test before they walk the view
\* are positive exactly when the peer has such a pfx-peer
LEMMA PfxCntZero ==
    ASSUME NEW v, Counts(v), NEW p \in Peers
    PROVE  /\ v.pfx_cnt[p]["v4"]["ACTIVE"] + v.pfx_cnt[p]["v6"]["ACTIVE"] > 0
                <=> \E x \in Pfxs : v.pp[x][p] = "ACTIVE"
           /\ Total(v.pfx_cnt[p]["v4"]) + Total(v.pfx_cnt[p]["v6"]) > 0
                <=> \E x \in Pfxs : v.pp[x][p] \in Valid
<1>1. \A ver \in Versions, s \in Valid :
         v.pfx_cnt[p][ver][s] = Count(PfxsOf(ver), Column(v, p), s)
  BY DEF Counts, PfxCntExact, Exact
<1>2. \A ver \in Versions, s \in Valid :
         /\ Count(PfxsOf(ver), Column(v, p), s) \in Nat
         /\ Count(PfxsOf(ver), Column(v, p), s) = 0
               <=> \A x \in PfxsOf(ver) : Column(v, p)[x] # s
  BY CountZero, VersionFacts
<1>3. \A ver \in Versions : \A x \in PfxsOf(ver) : Column(v, p)[x] = v.pp[x][p]
  BY VersionFacts DEF Column
<1>4. \A ver \in Versions, s \in Valid :
         /\ v.pfx_cnt[p][ver][s] \in Nat
         /\ v.pfx_cnt[p][ver][s] = 0 <=> \A x \in PfxsOf(ver) : v.pp[x][p] # s
  BY <1>1, <1>2, <1>3
<1>5. ASSUME NEW s \in Valid
      PROVE  /\ v.pfx_cnt[p]["v4"][s] \in Nat
             /\ v.pfx_cnt[p]["v6"][s] \in Nat
             /\ v.pfx_cnt[p]["v4"][s] + v.pfx_cnt[p]["v6"][s] > 0
                  <=> \E x \in Pfxs : v.pp[x][p] = s
  <2>1. /\ v.pfx_cnt[p]["v4"][s] \in Nat
        /\ v.pfx_cnt[p]["v4"][s] = 0 <=> \A x \in V4Pfxs : v.pp[x][p] # s
    BY <1>4 DEF Versions, PfxsOf
  <2>2. /\ v.pfx_cnt[p]["v6"][s] \in Nat
        /\ v.pfx_cnt[p]["v6"][s] = 0 <=> \A x \in V6Pfxs : v.pp[x][p] # s
    BY <1>4 DEF Versions, PfxsOf
  <2>3. (\E x \in Pfxs : v.pp[x][p] = s)
           <=> ~(v.pfx_cnt[p]["v4"][s] = 0 /\ v.pfx_cnt[p]["v6"][s] = 0)
    BY <2>1, <2>2 DEF Pfxs
  <2> QED
    BY <2>1, <2>2, <2>3
<1>6. "ACTIVE" \in Valid /\ "INACTIVE" \in Valid
  BY DEF Valid
<1>9. (\E x \in Pfxs : v.pp[x][p] \in Valid)
         <=> \/ \E x \in Pfxs : v.pp[x][p] = "ACTIVE"
             \/ \E x \in Pfxs : v.pp[x][p] = "INACTIVE"
  BY DEF Valid
<1> QED
  BY <1>5, <1>6, <1>9 DEF Total

-----------------------------------------------------------------------------
(* Every call preserves the invariant                                      *)

\* The part of the invariant that is not about counters
Shape(v) == PfxFollowsPeers(v) /\ PairsHavePeer(v) /\ FlagsCoverInvalid(v)

\* The invariant is the exactness of the counters and the shape of the tables
LEMMA ViewOKParts ==
    ASSUME NEW v
    PROVE  ViewOK(v) <=> Counts(v) /\ Shape(v)
  BY DEF ViewOK, Counts, Shape

\* bgpview_create: the empty view satisfies the invariant
LEMMA EmptyViewOK == ViewOK(EmptyView)
<1> DEFINE e == EmptyView
<1>1. e \in View
  BY DEF EmptyView, View, Counter, ZeroCnt, EntryState, FieldState
<1>3. PeersCntExact(e)
  BY NothingCounted, VersionFacts DEF PeersCntExact, EmptyView, Valid
<1>4. PfxCntExact(e)
  BY NothingCounted, VersionFacts DEF PfxCntExact, EmptyView, Valid, Column
<1>5. PfxsCntExact(e)
  BY NothingCounted, VersionFacts DEF PfxsCntExact, EmptyView, Valid
<1>6. PeerinfoCntExact(e)
  BY NothingCounted, VersionFacts DEF PeerinfoCntExact, EmptyView, Valid
<1>7. Shape(e)
  BY DEF Shape, PfxFollowsPeers, PairsHavePeer, FlagsCoverInvalid, EmptyView,
         HasPeer, Valid
<1> QED
  BY <1>1, <1>3, <1>4, <1>5, <1>6, <1>7 DEF ViewOK, Shape

\* bgpview_iter_add_peer preserves the invariant
LEMMA AddPeerOK ==
    ASSUME NEW v, ViewOK(v), NEW p \in Peers
    PROVE  ViewOK(AddPeer(v, p))
<1> SUFFICES ASSUME v.peer[p] \notin Valid
             PROVE  ViewOK(MovePeer(v, p, "INACTIVE"))
  BY DEF AddPeer
<1> DEFINE w == MovePeer(v, p, "INACTIVE")
<1>1. v \in View /\ Counts(v) /\ Shape(v)
  BY ViewOKParts DEF Counts
<1>2. PeerMoved(v, w, p, "INACTIVE")
  BY <1>1, MovePeerFields DEF EntryState, FieldState, Valid
<1>3. Counts(w)
  BY <1>1, MovePeerCounts DEF EntryState, FieldState, Valid
<1> HIDE DEF w
<1>4. Shape(w)
  BY <1>1, <1>2 DEF Shape, PfxFollowsPeers, PairsHavePeer, FlagsCoverInvalid,
                    HasPeer, PeerMoved, View, Valid
<1> QED
  BY <1>3, <1>4, ViewOKParts DEF w

\* bgpview_iter_activate_peer preserves the invariant
LEMMA ActivatePeerOK ==
    ASSUME NEW v, ViewOK(v), NEW p \in Peers
    PROVE  ViewOK(ActivatePeer(v, p))
<1> SUFFICES ASSUME v.peer[p] = "INACTIVE"
             PROVE  ViewOK(MovePeer(v, p, "ACTIVE"))
  BY DEF ActivatePeer
<1> DEFINE w == MovePeer(v, p, "ACTIVE")
<1>1. v \in View /\ Counts(v) /\ Shape(v)
  BY ViewOKParts DEF Counts
<1>2. PeerMoved(v, w, p, "ACTIVE")
  BY <1>1, MovePeerFields DEF EntryState, FieldState, Valid
<1>3. Counts(w)
  BY <1>1, MovePeerCounts DEF EntryState, FieldState, Valid
<1> HIDE DEF w
<1>4. Shape(w)
  BY <1>1, <1>2 DEF Shape, PfxFollowsPeers, PairsHavePeer, FlagsCoverInvalid,
                    HasPeer, PeerMoved, View, Valid
<1> QED
  BY <1>3, <1>4, ViewOKParts DEF w

\* Adding a pfx-peer of a peer in the view, with its prefix if need be
LEMMA AddPfxPeerOK ==
    ASSUME NEW v, ViewOK(v), NEW x \in Pfxs, NEW p \in Peers, v.peer[p] \in Valid
    PROVE  ViewOK(PfxAddPeer(AddPfx(v, x), x, p))
<1> DEFINE w == AddPfx(v, x)
           u == PfxAddPeer(w, x, p)
<1> SUFFICES ViewOK(u)
  OBVIOUS
<1>1. v \in View /\ Counts(v) /\ Shape(v)
  BY ViewOKParts DEF Counts
<1>2. /\ Counts(w)
      /\ w \in View
      /\ w.pfx[x] \in Valid
      /\ \A y \in Pfxs : y # x => w.pfx[y] = v.pfx[y]
      /\ v.pfx[x] \in Valid => w.pfx[x] = v.pfx[x]
      /\ v.pfx[x] \notin Valid => w.pfx[x] = "INACTIVE"
      /\ w.peer = v.peer
      /\ w.pp = v.pp
      /\ w.need_gc = v.need_gc
  <2>1. CASE v.pfx[x] \in Valid
    BY <1>1, <2>1 DEF AddPfx
  <2>2. CASE v.pfx[x] \notin Valid
    <3>1. w = MovePfxs(v, {x}, v.pfx[x], "INACTIVE")
      BY <2>2 DEF AddPfx
    <3>2. "INACTIVE" \in EntryState /\ v.pfx[x] # "INACTIVE"
      BY <2>2 DEF EntryState, FieldState, Valid
    <3>3. Counts(w)
      BY <1>1, <3>1, <3>2, MovePfxsCounts
    <3>4. PfxsMoved(v, w, {x}, v.pfx[x], "INACTIVE")
      BY <1>1, <3>1, <3>2, MovePfxsFields
    <3> HIDE DEF w
    <3> QED
      BY <2>2, <3>3, <3>4 DEF PfxsMoved, Valid
  <2> QED
    BY <2>1, <2>2
<1> HIDE DEF w
<1>3. CASE v.pp[x][p] \in Valid
  <2>1. u = w
    BY <1>2, <1>3 DEF PfxAddPeer
  <2>2. Shape(w)
    BY <1>1, <1>2, <1>3 DEF Shape, PfxFollowsPeers, PairsHavePeer,
                            FlagsCoverInvalid, HasPeer, Valid
  <2> QED
    BY <1>2, <2>1, <2>2, ViewOKParts
<1>4. CASE v.pp[x][p] \notin Valid
  <2>1. u = MovePairs(w, {x}, {p}, "INVALID", "INACTIVE")
    BY <1>2, <1>4 DEF PfxAddPeer
  <2>2. w.pp[x][p] = "INVALID" /\ "INACTIVE" \in FieldState
    BY <1>1, <1>2, <1>4 DEF View, FieldState, Valid
  <2>3. Counts(u)
    BY <1>2, <2>1, <2>2, MovePairsCounts
  <2>4. PairsMoved(w, u, {x}, {p}, "INVALID", "INACTIVE")
    BY <1>2, <2>1, <2>2, MovePairsFields
  <2> HIDE DEF u
  <2>5. /\ u.pp = [y \in Pfxs |-> [q \in Peers |->
                      IF y = x /\ q = p THEN "INACTIVE" ELSE v.pp[y][q]]]
        /\ u.peer = v.peer
        /\ u.pfx = w.pfx
        /\ u.need_gc = v.need_gc
    BY <1>2, <2>4 DEF PairsMoved
  <2>6. PfxFollowsPeers(u)
    <3> SUFFICES ASSUME NEW y \in Pfxs
                 PROVE  /\ u.pfx[y] = "ACTIVE" <=> HasPeer(u, y, {"ACTIVE"})
                        /\ u.pfx[y] \in Valid <=> HasPeer(u, y, Valid)
      BY DEF PfxFollowsPeers
    <3>1. CASE y # x
      BY <1>1, <1>2, <2>5, <3>1 DEF Shape, PfxFollowsPeers, HasPeer
    <3>2. CASE y = x
      BY <1>1, <1>2, <1>4, <2>5, <3>2 DEF Shape, PfxFollowsPeers, HasPeer, Valid
    <3> QED
      BY <3>1, <3>2
  <2>7. PairsHavePeer(u) /\ FlagsCoverInvalid(u)
    BY <1>1, <1>2, <2>5 DEF Shape, PairsHavePeer, FlagsCoverInvalid, Valid
  <2> QED
    BY <2>3, <2>6, <2>7, ViewOKParts DEF Shape
<1> QED
  BY <1>3, <1>4

\* bgpview_iter_pfx_activate_peer preserves the invariant: the prefix follows its
\* first active pfx-peer
LEMMA PfxActivatePeerOK ==
    ASSUME NEW v, ViewOK(v), NEW x \in Pfxs, NEW p \in Peers,
           v.peer[p] = "ACTIVE"
    PROVE  ViewOK(PfxActivatePeer(v, x, p))
<1> SUFFICES ASSUME v.pp[x][p] = "INACTIVE"
             PROVE  ViewOK(PfxActivatePeer(v, x, p))
  BY DEF PfxActivatePeer
<1> DEFINE w == MovePairs(v, {x}, {p}, "INACTIVE", "ACTIVE")
           u == IF w.peers_cnt[x]["ACTIVE"] = 1 THEN ActivatePfx(w, x) ELSE w
<1> SUFFICES ViewOK(u)
  BY DEF PfxActivatePeer
<1>1. v \in View /\ Counts(v) /\ Shape(v)
  BY ViewOKParts DEF Counts
<1>2. Counts(w)
  BY <1>1, MovePairsCounts DEF FieldState, Valid
<1>3. PairsMoved(v, w, {x}, {p}, "INACTIVE", "ACTIVE")
  BY <1>1, MovePairsFields DEF FieldState, Valid
<1> HIDE DEF w
<1>4. v.pfx[x] \in Valid
  BY <1>1 DEF Shape, PfxFollowsPeers, HasPeer, Valid
<1>5. w.peers_cnt[x]["ACTIVE"] = 1 <=> v.pfx[x] = "INACTIVE"
  <2>1. w.peers_cnt[x]["ACTIVE"] = v.peers_cnt[x]["ACTIVE"] + Cardinality({p})
    BY <1>3 DEF PairsMoved, Moved, Valid
  <2>2. Cardinality({p}) = 1
    BY FS_Singleton
  <2>3. /\ v.peers_cnt[x]["ACTIVE"] \in Nat
        /\ v.peers_cnt[x]["ACTIVE"] = 0 <=> ~HasPeer(v, x, {"ACTIVE"})
    BY <1>1, PeersCntZero DEF Valid
  <2>4. v.pfx[x] = "ACTIVE" <=> HasPeer(v, x, {"ACTIVE"})
    BY <1>1 DEF Shape, PfxFollowsPeers
  <2>5. w.peers_cnt[x]["ACTIVE"] = 1 <=> v.peers_cnt[x]["ACTIVE"] = 0
    BY <2>1, <2>2, <2>3
  <2> QED
    BY <1>4, <2>3, <2>4, <2>5 DEF Valid
<1>6. /\ Counts(u)
      /\ u.pp = w.pp
      /\ u.peer = v.peer
      /\ u.need_gc = v.need_gc
      /\ u.pfx[x] = "ACTIVE"
      /\ \A y \in Pfxs : y # x => u.pfx[y] = v.pfx[y]
  <2>1. CASE v.pfx[x] = "INACTIVE"
    <3>1. u = MovePfxs(w, {x}, "INACTIVE", "ACTIVE")
      BY <1>3, <1>5, <2>1 DEF ActivatePfx, PairsMoved
    <3>2. Counts(u)
      BY <1>2, <1>3, <2>1, <3>1, MovePfxsCounts DEF EntryState, FieldState, Valid, PairsMoved
    <3>3. PfxsMoved(w, u, {x}, "INACTIVE", "ACTIVE")
      BY <1>3, <3>1, MovePfxsFields DEF EntryState, FieldState, Valid, PairsMoved
    <3> HIDE DEF u
    <3> QED
      BY <1>3, <3>2, <3>3 DEF PfxsMoved, PairsMoved
  <2>2. CASE v.pfx[x] # "INACTIVE"
    <3>1. u = w
      BY <1>5, <2>2
    <3> QED
      BY <1>2, <1>3, <1>4, <2>2, <3>1, Zenon DEF PairsMoved, Valid
  <2> QED
    BY <2>1, <2>2
<1> HIDE DEF u
<1>7. u.pp = [y \in Pfxs |-> [q \in Peers |->
                 IF y = x /\ q = p THEN "ACTIVE" ELSE v.pp[y][q]]]
  BY <1>3, <1>6 DEF PairsMoved
<1>8. PfxFollowsPeers(u)
  <2> SUFFICES ASSUME NEW y \in Pfxs
               PROVE  /\ u.pfx[y] = "ACTIVE" <=> HasPeer(u, y, {"ACTIVE"})
                      /\ u.pfx[y] \in Valid <=> HasPeer(u, y, Valid)
    BY DEF PfxFollowsPeers
  <2>1. CASE y # x
    BY <1>1, <1>6, <1>7, <2>1 DEF Shape, PfxFollowsPeers, HasPeer
  <2>2. CASE y = x
    BY <1>6, <1>7, <2>2 DEF HasPeer, Valid
  <2> QED
    BY <2>1, <2>2
<1>9. PairsHavePeer(u) /\ FlagsCoverInvalid(u)
  BY <1>1, <1>6, <1>7 DEF Shape, PairsHavePeer, FlagsCoverInvalid, Valid
<1> QED
  BY <1>6, <1>8, <1>9, ViewOKParts DEF Shape

\* Deactivating the active pfx-peers X \X Q keeps the invariant, and changes
\* no other pfx-peer and no peer
LEMMA DeactivatePairsOK ==
    ASSUME NEW v, ViewOK(v), NEW X \in SUBSET Pfxs, NEW Q \in SUBSET Peers,
           \A x \in X, p \in Q : v.pp[x][p] = "ACTIVE"
    PROVE  LET u == DeactivatePairs(v, X, Q)
           IN /\ ViewOK(u)
              /\ u.peer = v.peer
              /\ u.pp = [x \in Pfxs |-> [p \in Peers |->
                            IF x \in X /\ p \in Q THEN "INACTIVE" ELSE v.pp[x][p]]]
<1> DEFINE w == MovePairs(v, X, Q, "ACTIVE", "INACTIVE")
           G == {x \in X : w.pfx[x] = "ACTIVE" /\ w.peers_cnt[x]["ACTIVE"] = 0}
           u == MovePfxs(w, G, "ACTIVE", "INACTIVE")
<1>1. v \in View /\ Counts(v) /\ Shape(v)
  BY ViewOKParts DEF Counts
<1>2. Counts(w)
  BY <1>1, MovePairsCounts DEF FieldState, Valid
<1>3. PairsMoved(v, w, X, Q, "ACTIVE", "INACTIVE")
  BY <1>1, MovePairsFields DEF FieldState, Valid
<1>4. DeactivatePairs(v, X, Q) = u
  BY DEF DeactivatePairs
<1> HIDE DEF w
<1>5. /\ G \in SUBSET Pfxs
      /\ \A x \in G : w.pfx[x] = "ACTIVE"
      /\ "INACTIVE" \in EntryState
  BY DEF EntryState, FieldState, Valid
<1>6. \A x \in X : x \in G <=> v.pfx[x] = "ACTIVE" /\ ~HasPeer(w, x, {"ACTIVE"})
  BY <1>2, <1>3, PeersCntZero DEF PairsMoved
<1>7. G \subseteq X
  OBVIOUS
<1> HIDE DEF G
<1>8. Counts(u)
  BY <1>2, <1>5, MovePfxsCounts
<1>9. PfxsMoved(w, u, G, "ACTIVE", "INACTIVE")
  BY <1>3, <1>5, MovePfxsFields DEF PairsMoved
<1> HIDE DEF u
<1>10. /\ u.pp = w.pp
       /\ u.pp = [x \in Pfxs |-> [p \in Peers |->
                     IF x \in X /\ p \in Q THEN "INACTIVE" ELSE v.pp[x][p]]]
       /\ u.peer = v.peer
       /\ u.need_gc = v.need_gc
       /\ u.pfx = [x \in Pfxs |-> IF x \in G THEN "INACTIVE" ELSE v.pfx[x]]
  BY <1>3, <1>9 DEF PairsMoved, PfxsMoved
<1>11. PfxFollowsPeers(u)
  <2> SUFFICES ASSUME NEW x \in Pfxs
               PROVE  /\ u.pfx[x] = "ACTIVE" <=> HasPeer(u, x, {"ACTIVE"})
                      /\ u.pfx[x] \in Valid <=> HasPeer(u, x, Valid)
    BY DEF PfxFollowsPeers
  <2>1. /\ v.pfx[x] = "ACTIVE" <=> HasPeer(v, x, {"ACTIVE"})
        /\ v.pfx[x] \in Valid <=> HasPeer(v, x, Valid)
    BY <1>1 DEF Shape, PfxFollowsPeers
  <2>2. HasPeer(u, x, Valid) <=> HasPeer(v, x, Valid)
    BY <1>10 DEF HasPeer, Valid
  <2>3. HasPeer(u, x, {"ACTIVE"}) => HasPeer(v, x, {"ACTIVE"})
    BY <1>10 DEF HasPeer
  <2>4. HasPeer(u, x, {"ACTIVE"}) <=> HasPeer(w, x, {"ACTIVE"})
    BY <1>10 DEF HasPeer
  <2>5. x \notin X => (HasPeer(u, x, {"ACTIVE"}) <=> HasPeer(v, x, {"ACTIVE"}))
    BY <1>10 DEF HasPeer
  <2> QED
    BY <1>6, <1>7, <1>10, <2>1, <2>2, <2>3, <2>4, <2>5 DEF Valid
<1>12. PairsHavePeer(u)
  BY <1>1, <1>10 DEF Shape, PairsHavePeer, Valid
<1>13. FlagsCoverInvalid(u)
  BY <1>1, <1>10 DEF Shape, FlagsCoverInvalid
<1> QED
  BY <1>4, <1>8, <1>10, <1>11, <1>12, <1>13, ViewOKParts DEF Shape

\* bgpview_iter_pfx_deactivate_peer preserves the invariant
LEMMA PfxDeactivatePeerOK ==
    ASSUME NEW v, ViewOK(v), NEW x \in Pfxs, NEW p \in Peers
    PROVE  LET u == PfxDeactivatePeer(v, x, p)
           IN /\ ViewOK(u)
              /\ u.peer = v.peer
              /\ v.pp[x][p] \in Valid => u.pp[x][p] = "INACTIVE"
<1>1. CASE v.pp[x][p] = "ACTIVE"
  <2>1. PfxDeactivatePeer(v, x, p) = DeactivatePairs(v, {x}, {p})
    BY <1>1 DEF PfxDeactivatePeer
  <2>2. LET u == DeactivatePairs(v, {x}, {p})
        IN /\ ViewOK(u)
           /\ u.peer = v.peer
           /\ u.pp = [y \in Pfxs |-> [q \in Peers |->
                         IF y \in {x} /\ q \in {p} THEN "INACTIVE" ELSE v.pp[y][q]]]
    BY <1>1, DeactivatePairsOK
  <2> QED
    BY <2>1, <2>2
<1>2. CASE v.pp[x][p] # "ACTIVE"
  BY <1>2 DEF PfxDeactivatePeer, Valid
<1> QED
  BY <1>1, <1>2

\* deactivate_pfx: the prefix is marked before its pfx-peers
LEMMA DeactivatePfxOK ==
    ASSUME NEW v, ViewOK(v), NEW x \in Pfxs
    PROVE  LET u == DeactivatePfx(v, x)
           IN /\ ViewOK(u)
              /\ v.pfx[x] \in Valid => u.pfx[x] = "INACTIVE"
<1>1. CASE v.pfx[x] # "ACTIVE"
  BY <1>1 DEF DeactivatePfx, Valid
<1>2. CASE v.pfx[x] = "ACTIVE"
  <2> DEFINE Q == {p \in Peers : v.pp[x][p] = "ACTIVE"}
             w == MovePfxs(v, {x}, "ACTIVE", "INACTIVE")
             u == MovePairs(w, {x}, Q, "ACTIVE", "INACTIVE")
  <2>1. v \in View /\ Counts(v) /\ Shape(v)
    BY ViewOKParts DEF Counts
  <2>2. Counts(w)
    BY <1>2, <2>1, MovePfxsCounts DEF EntryState, FieldState, Valid
  <2>3. PfxsMoved(v, w, {x}, "ACTIVE", "INACTIVE")
    BY <2>1, MovePfxsFields DEF EntryState, FieldState, Valid
  <2>4. DeactivatePfx(v, x) = u
    BY <1>2 DEF DeactivatePfx
  <2> HIDE DEF w
  <2>5. Counts(u)
    BY <2>2, <2>3, MovePairsCounts DEF FieldState, Valid, PfxsMoved
  <2>6. PairsMoved(w, u, {x}, Q, "ACTIVE", "INACTIVE")
    BY <2>3, MovePairsFields DEF FieldState, Valid, PfxsMoved
  <2> HIDE DEF u
  <2>7. /\ u.pp = [y \in Pfxs |-> [q \in Peers |->
                      IF y = x /\ q \in Q THEN "INACTIVE" ELSE v.pp[y][q]]]
        /\ u.peer = v.peer
        /\ u.need_gc = v.need_gc
        /\ u.pfx = [y \in Pfxs |-> IF y = x THEN "INACTIVE" ELSE v.pfx[y]]
    BY <2>3, <2>6 DEF PairsMoved, PfxsMoved
  <2>8. PfxFollowsPeers(u)
    <3> SUFFICES ASSUME NEW y \in Pfxs
                 PROVE  /\ u.pfx[y] = "ACTIVE" <=> HasPeer(u, y, {"ACTIVE"})
                        /\ u.pfx[y] \in Valid <=> HasPeer(u, y, Valid)
      BY DEF PfxFollowsPeers
    <3>1. /\ v.pfx[y] = "ACTIVE" <=> HasPeer(v, y, {"ACTIVE"})
          /\ v.pfx[y] \in Valid <=> HasPeer(v, y, Valid)
      BY <2>1 DEF Shape, PfxFollowsPeers
    <3>2. HasPeer(u, y, Valid) <=> HasPeer(v, y, Valid)
      BY <2>7 DEF HasPeer, Valid
    <3>3. y # x => (HasPeer(u, y, {"ACTIVE"}) <=> HasPeer(v, y, {"ACTIVE"}))
      BY <2>7 DEF HasPeer
    <3>4. ~HasPeer(u, x, {"ACTIVE"})
      BY <2>7 DEF HasPeer
    <3> QED
      BY <1>2, <2>7, <3>1, <3>2, <3>3, <3>4 DEF Valid
  <2>9. PairsHavePeer(u)
    BY <2>1, <2>7 DEF Shape, PairsHavePeer, Valid
  <2>10. FlagsCoverInvalid(u)
    BY <2>1, <2>7 DEF Shape, FlagsCoverInvalid
  <2>11. u.pfx[x] = "INACTIVE"
    BY <2>7
  <2> QED
    BY <2>4, <2>5, <2>8, <2>9, <2>10, <2>11, ViewOKParts DEF Shape
<1> QED
  BY <1>1, <1>2

\* A walk that asks for the same states of prefixes and pfx-peers never meets
\* a prefix without a match, so it reaches all of them
LEMMA WalkAll ==
    ASSUME NEW v, PfxFollowsPeers(v), NEW mask \in {{"ACTIVE"}, Valid}, NEW ord
    PROVE  Walked(v, mask, mask, ord) = Matching(v, mask)
<1>1. \A x \in Matching(v, mask) : HasPeer(v, x, mask)
  BY DEF PfxFollowsPeers, Matching
<1> QED
  BY <1>1 DEF Walked

\* bgpview_iter_deactivate_peer preserves the invariant: its walk misses no
\* active pfx-peer of the peer
LEMMA DeactivatePeerOK ==
    ASSUME NEW v, ViewOK(v), NEW p \in Peers, NEW ord
    PROVE  LET u == DeactivatePeer(v, p, ord)
           IN /\ ViewOK(u)
              /\ v.peer[p] \in Valid => u.peer[p] = "INACTIVE"
<1>1. CASE v.peer[p] # "ACTIVE"
  BY <1>1 DEF DeactivatePeer, Valid
<1>2. CASE v.peer[p] = "ACTIVE"
  <2> DEFINE X == {x \in Walked(v, {"ACTIVE"}, {"ACTIVE"}, ord) :
                      v.pp[x][p] = "ACTIVE"}
             cnt == v.pfx_cnt[p]["v4"]["ACTIVE"] + v.pfx_cnt[p]["v6"]["ACTIVE"]
             w == IF cnt > 0 THEN DeactivatePairs(v, X, {p}) ELSE v
             u == MovePeer(w, p, "INACTIVE")
  <2>1. DeactivatePeer(v, p, ord) = u
    BY <1>2 DEF DeactivatePeer
  <2>2. v \in View /\ Counts(v) /\ Shape(v)
    BY ViewOKParts DEF Counts
  <2>3. X = {x \in Pfxs : v.pp[x][p] = "ACTIVE"}
    <3>1. Walked(v, {"ACTIVE"}, {"ACTIVE"}, ord) = {x \in Pfxs : v.pfx[x] = "ACTIVE"}
      BY <2>2, WalkAll DEF Shape, Matching
    <3>2. \A x \in Pfxs : v.pp[x][p] = "ACTIVE" => v.pfx[x] = "ACTIVE"
      BY <2>2 DEF Shape, PfxFollowsPeers, HasPeer
    <3> QED
      BY <3>1, <3>2
  <2>4. /\ ViewOK(w)
        /\ w.peer = v.peer
        /\ \A x \in Pfxs : w.pp[x][p] # "ACTIVE"
    <3>1. CASE cnt > 0
      <4>1. LET d == DeactivatePairs(v, X, {p})
            IN /\ ViewOK(d)
               /\ d.peer = v.peer
               /\ d.pp = [x \in Pfxs |-> [q \in Peers |->
                            IF x \in X /\ q \in {p} THEN "INACTIVE" ELSE v.pp[x][q]]]
        BY <2>3, DeactivatePairsOK
      <4>2. w = DeactivatePairs(v, X, {p})
        BY <3>1
      <4>3. \A x \in Pfxs : w.pp[x][p] = IF x \in X THEN "INACTIVE" ELSE v.pp[x][p]
        BY <4>1, <4>2
      <4> QED
        BY <2>3, <4>1, <4>2, <4>3, Zenon
    <3>2. CASE ~(cnt > 0)
      BY <2>2, <3>2, PfxCntZero
    <3> QED
      BY <3>1, <3>2, Zenon
  <2> HIDE DEF w
  <2>5. w \in View /\ Counts(w) /\ Shape(w)
    BY <2>4, ViewOKParts DEF Counts
  <2>6. Counts(u)
    BY <1>2, <2>4, <2>5, MovePeerCounts DEF EntryState, FieldState, Valid
  <2>7. PeerMoved(w, u, p, "INACTIVE")
    BY <2>5, MovePeerFields DEF EntryState, FieldState, Valid
  <2> HIDE DEF u
  <2>8. Shape(u)
    BY <1>2, <2>4, <2>5, <2>7 DEF Shape, PfxFollowsPeers, PairsHavePeer,
          FlagsCoverInvalid, HasPeer, PeerMoved, View, Valid
  <2>9. u.peer[p] = "INACTIVE"
    BY <2>5, <2>7 DEF PeerMoved, View
  <2> QED
    BY <2>1, <2>6, <2>8, <2>9, ViewOKParts
<1> QED
  BY <1>1, <1>2

\* Removing prefixes: as MovePfxs, and their tables are flagged for collection
LEMMA RemovePfxsFields ==
    ASSUME NEW v, Counts(v), NEW G \in SUBSET Pfxs,
           \A x \in G : v.pfx[x] = "INACTIVE"
    PROVE  LET u == RemovePfxs(v, G)
           IN /\ Counts(u)
              /\ u \in View
              /\ u.pfx = [x \in Pfxs |-> IF x \in G THEN "INVALID" ELSE v.pfx[x]]
              /\ u.pp = v.pp
              /\ u.peer = v.peer
              /\ u.peers_cnt = v.peers_cnt
              /\ \A t \in Tables : v.need_gc[t] => u.need_gc[t]
              /\ \A x \in G : u.need_gc[Version(x)]
<1> DEFINE w == MovePfxs(v, G, "INACTIVE", "INVALID")
           gc == [t \in Tables |->
                     w.need_gc[t] \/ (t \in Versions /\ G \cap PfxsOf(t) # {})]
           u == [w EXCEPT !.need_gc = gc]
<1>1. RemovePfxs(v, G) = u
  BY DEF RemovePfxs
<1>2. v \in View
  BY DEF Counts
<1>3. Counts(w)
  BY MovePfxsCounts DEF EntryState, FieldState, Valid
<1>4. PfxsMoved(v, w, G, "INACTIVE", "INVALID")
  BY <1>2, MovePfxsFields DEF EntryState, FieldState, Valid
<1> HIDE DEF w
<1>5. w \in View
  BY <1>4 DEF PfxsMoved
<1>6. gc \in [Tables -> BOOLEAN]
  OBVIOUS
<1>7. \A t \in Tables : v.need_gc[t] => gc[t]
  BY <1>4, Zenon DEF PfxsMoved
<1>8. \A x \in G : gc[Version(x)]
  BY VersionFacts, Zenon DEF Tables
<1> HIDE DEF gc
<1>9. /\ u \in View
      /\ u.need_gc = gc
      /\ u.peer = w.peer
      /\ u.pfx = w.pfx
      /\ u.pp = w.pp
      /\ u.peers_cnt = w.peers_cnt
      /\ u.pfx_cnt = w.pfx_cnt
      /\ u.pfxs_cnt = w.pfxs_cnt
      /\ u.peerinfo_cnt = w.peerinfo_cnt
  BY <1>5, <1>6, Zenon DEF View
<1> HIDE DEF u
<1>10. Counts(u)
  BY <1>3, <1>9 DEF Counts, PeersCntExact, PfxCntExact, PfxsCntExact,
                    PeerinfoCntExact, Column
<1> QED
  BY <1>1, <1>4, <1>7, <1>8, <1>9, <1>10 DEF PfxsMoved

\* Removing the inactive pfx-peers X \X Q keeps the invariant, and changes no
\* other pfx-peer and no peer
LEMMA RemovePairsOK ==
    ASSUME NEW v, ViewOK(v), NEW X \in SUBSET Pfxs, NEW Q \in SUBSET Peers,
           Q # {}, \A x \in X, p \in Q : v.pp[x][p] = "INACTIVE"
    PROVE  LET u == RemovePairs(v, X, Q)
           IN /\ ViewOK(u)
              /\ u.peer = v.peer
              /\ u.pp = [x \in Pfxs |-> [p \in Peers |->
                            IF x \in X /\ p \in Q THEN "INVALID" ELSE v.pp[x][p]]]
<1> DEFINE w == MovePairs(v, X, Q, "INACTIVE", "INVALID")
           E == {x \in X : w.pfx[x] # "INVALID" /\ Total(w.peers_cnt[x]) = 0}
           u == RemovePfxs(w, E)
<1>1. v \in View /\ Counts(v) /\ Shape(v)
  BY ViewOKParts DEF Counts
<1>2. Counts(w)
  BY <1>1, MovePairsCounts DEF FieldState, Valid
<1>3. PairsMoved(v, w, X, Q, "INACTIVE", "INVALID")
  BY <1>1, MovePairsFields DEF FieldState, Valid
<1>4. RemovePairs(v, X, Q) = u
  BY DEF RemovePairs
<1> HIDE DEF w
<1>5. \A x \in Pfxs : HasPeer(w, x, {"ACTIVE"}) <=> HasPeer(v, x, {"ACTIVE"})
  BY <1>3 DEF PairsMoved, HasPeer
<1>6. \A x \in X : x \in E <=> w.pfx[x] # "INVALID" /\ ~HasPeer(w, x, Valid)
  BY <1>2, PeersCntZero
<1>7. \A x \in Pfxs : HasPeer(w, x, Valid) => HasPeer(v, x, Valid)
  BY <1>3 DEF PairsMoved, HasPeer, Valid
<1>8. \A x \in X : v.pfx[x] \in Valid
  BY <1>1 DEF Shape, PfxFollowsPeers, HasPeer, Valid
<1>9. \A x \in E : w.pfx[x] = "INACTIVE"
  <2> SUFFICES ASSUME NEW x \in E
               PROVE  v.pfx[x] = "INACTIVE"
    BY <1>3, Zenon DEF PairsMoved
  <2>1. x \in X /\ ~HasPeer(w, x, Valid)
    BY <1>6
  <2>2. ~HasPeer(w, x, {"ACTIVE"})
    BY <2>1 DEF HasPeer, Valid
  <2>3. v.pfx[x] # "ACTIVE"
    BY <1>1, <1>5, <2>1, <2>2 DEF Shape, PfxFollowsPeers
  <2> QED
    BY <1>8, <2>1, <2>3 DEF Valid
<1>10. E \in SUBSET Pfxs /\ E \subseteq X
  OBVIOUS
<1> HIDE DEF E
<1>11. /\ Counts(u)
       /\ u.pfx = [x \in Pfxs |-> IF x \in E THEN "INVALID" ELSE w.pfx[x]]
       /\ u.pp = w.pp
       /\ u.peer = w.peer
       /\ \A t \in Tables : w.need_gc[t] => u.need_gc[t]
       /\ \A x \in E : u.need_gc[Version(x)]
  BY <1>2, <1>9, <1>10, RemovePfxsFields
<1> HIDE DEF u
<1>12. /\ u.pp = [x \in Pfxs |-> [p \in Peers |->
                     IF x \in X /\ p \in Q THEN "INVALID" ELSE v.pp[x][p]]]
       /\ u.peer = v.peer
       /\ w.need_gc = v.need_gc
       /\ w.pfx = v.pfx
  BY <1>3, <1>11 DEF PairsMoved
<1>13. PfxFollowsPeers(u)
  <2> SUFFICES ASSUME NEW x \in Pfxs
               PROVE  /\ u.pfx[x] = "ACTIVE" <=> HasPeer(u, x, {"ACTIVE"})
                      /\ u.pfx[x] \in Valid <=> HasPeer(u, x, Valid)
    BY DEF PfxFollowsPeers
  <2>1. /\ v.pfx[x] = "ACTIVE" <=> HasPeer(v, x, {"ACTIVE"})
        /\ v.pfx[x] \in Valid <=> HasPeer(v, x, Valid)
    BY <1>1 DEF Shape, PfxFollowsPeers
  <2>2. \A mask : HasPeer(u, x, mask) <=> HasPeer(w, x, mask)
    BY <1>11 DEF HasPeer
  <2>3. CASE x \in E
    <3>1. u.pfx[x] = "INVALID" /\ ~HasPeer(u, x, Valid)
      BY <1>6, <1>10, <1>11, <2>2, <2>3
    <3> QED
      BY <3>1 DEF HasPeer, Valid
  <2>4. CASE x \in X /\ x \notin E
    <3>1. u.pfx[x] = v.pfx[x] /\ v.pfx[x] \in Valid /\ HasPeer(w, x, Valid)
      BY <1>6, <1>8, <1>11, <1>12, <2>4 DEF Valid
    <3> QED
      BY <1>5, <2>1, <2>2, <3>1
  <2>5. CASE x \notin X
    <3>1. u.pfx[x] = v.pfx[x]
      BY <1>10, <1>11, <1>12, <2>5
    <3>2. \A mask : HasPeer(u, x, mask) <=> HasPeer(v, x, mask)
      BY <1>12, <2>5 DEF HasPeer
    <3> QED
      BY <2>1, <3>1, <3>2
  <2> QED
    BY <1>10, <2>3, <2>4, <2>5
<1>14. PairsHavePeer(u)
  BY <1>1, <1>12 DEF Shape, PairsHavePeer, Valid
<1>15. FlagsCoverInvalid(u)
  BY <1>1, <1>11, <1>12, VersionFacts DEF Shape, FlagsCoverInvalid, Tables
<1> QED
  BY <1>4, <1>11, <1>12, <1>13, <1>14, <1>15, ViewOKParts DEF Shape

\* bgpview_iter_pfx_remove_peer preserves the invariant
LEMMA PfxRemovePeerOK ==
    ASSUME NEW v, ViewOK(v), NEW x \in Pfxs, NEW p \in Peers, v.pp[x][p] \in Valid
    PROVE  ViewOK(PfxRemovePeer(v, x, p))
<1> DEFINE w == PfxDeactivatePeer(v, x, p)
<1>1. ViewOK(w) /\ w.pp[x][p] = "INACTIVE"
  BY PfxDeactivatePeerOK
<1> HIDE DEF w
<1>2. ViewOK(RemovePairs(w, {x}, {p}))
  BY <1>1, RemovePairsOK, Zenon
<1> QED
  BY <1>2 DEF PfxRemovePeer, w

\* remove_pfx: the prefix is marked INVALID before its pfx-peers go
LEMMA RemovePfxOK ==
    ASSUME NEW v, ViewOK(v), NEW x \in Pfxs, v.pfx[x] \in Valid
    PROVE  ViewOK(RemovePfx(v, x))
<1> DEFINE w == DeactivatePfx(v, x)
           Q == {p \in Peers : w.pp[x][p] \in Valid}
           d == RemovePfxs(w, {x})
           u == MovePairs(d, {x}, Q, "INACTIVE", "INVALID")
<1>1. ViewOK(w) /\ w.pfx[x] = "INACTIVE"
  BY DeactivatePfxOK
<1>2. RemovePfx(v, x) = u
  BY DEF RemovePfx
<1> HIDE DEF w
<1>3. w \in View /\ Counts(w) /\ Shape(w)
  BY <1>1, ViewOKParts DEF Counts
<1>4. \A p \in Q : w.pp[x][p] = "INACTIVE"
  BY <1>1, <1>3 DEF Shape, PfxFollowsPeers, HasPeer, Valid
<1>5. /\ Counts(d)
      /\ d \in View
      /\ d.pfx = [y \in Pfxs |-> IF y \in {x} THEN "INVALID" ELSE w.pfx[y]]
      /\ d.pp = w.pp
      /\ d.peer = w.peer
      /\ \A t \in Tables : w.need_gc[t] => d.need_gc[t]
      /\ d.need_gc[Version(x)]
  BY <1>1, <1>3, RemovePfxsFields
<1> HIDE DEF d
<1>6. Counts(u)
  BY <1>4, <1>5, MovePairsCounts DEF FieldState, Valid
<1>7. PairsMoved(d, u, {x}, Q, "INACTIVE", "INVALID")
  BY <1>5, MovePairsFields DEF FieldState, Valid
<1> HIDE DEF u
<1>8. /\ u.pp = [y \in Pfxs |-> [p \in Peers |->
                    IF y = x /\ p \in Q THEN "INVALID" ELSE w.pp[y][p]]]
      /\ u.pfx = d.pfx
      /\ u.peer = w.peer
      /\ u.need_gc = d.need_gc
  BY <1>5, <1>7 DEF PairsMoved
<1>9. PfxFollowsPeers(u)
  <2> SUFFICES ASSUME NEW y \in Pfxs
               PROVE  /\ u.pfx[y] = "ACTIVE" <=> HasPeer(u, y, {"ACTIVE"})
                      /\ u.pfx[y] \in Valid <=> HasPeer(u, y, Valid)
    BY DEF PfxFollowsPeers
  <2>1. CASE y = x
    BY <1>5, <1>8, <2>1 DEF HasPeer, Valid
  <2>2. CASE y # x
    BY <1>3, <1>5, <1>8, <2>2 DEF Shape, PfxFollowsPeers, HasPeer
  <2> QED
    BY <2>1, <2>2
<1>10. PairsHavePeer(u)
  BY <1>3, <1>8 DEF Shape, PairsHavePeer, Valid
<1>11. FlagsCoverInvalid(u)
  BY <1>3, <1>5, <1>8, VersionFacts DEF Shape, FlagsCoverInvalid, Tables
<1> QED
  BY <1>2, <1>6, <1>9, <1>10, <1>11, ViewOKParts DEF Shape

\* remove_peer: deactivated, then stripped of its pfx-peers, then removed
LEMMA RemovePeerOK ==
    ASSUME NEW v, ViewOK(v), NEW p \in Peers, v.peer[p] \in Valid, NEW ord
    PROVE  ViewOK(RemovePeer(v, p, ord))
<1> DEFINE w == DeactivatePeer(v, p, ord)
           X == {x \in Walked(w, Valid, Valid, ord) : w.pp[x][p] \in Valid}
           cnt == Total(w.pfx_cnt[p]["v4"]) + Total(w.pfx_cnt[p]["v6"])
           d == IF cnt > 0 THEN RemovePairs(w, X, {p}) ELSE w
           m == MovePeer(d, p, "INVALID")
           pc == [m.pfx_cnt EXCEPT ![p] = [ver \in Versions |-> ZeroCnt]]
           gc == [m.need_gc EXCEPT !["peerinfo"] = TRUE]
           u == [m EXCEPT !.pfx_cnt = pc, !.need_gc = gc]
<1> SUFFICES ViewOK(u)
  BY DEF RemovePeer
<1>1. ViewOK(w) /\ w.peer[p] = "INACTIVE"
  BY DeactivatePeerOK
<1> HIDE DEF w
<1>2. Counts(w) /\ Shape(w)
  BY <1>1, ViewOKParts
<1>3. X = {x \in Pfxs : w.pp[x][p] \in Valid}
  <2>1. Walked(w, Valid, Valid, ord) = {x \in Pfxs : w.pfx[x] \in Valid}
    BY <1>2, WalkAll DEF Shape, Matching
  <2>2. \A x \in Pfxs : w.pp[x][p] \in Valid => w.pfx[x] \in Valid
    BY <1>2 DEF Shape, PfxFollowsPeers, HasPeer
  <2> QED
    BY <2>1, <2>2
<1>4. \A x \in X : w.pp[x][p] = "INACTIVE"
  BY <1>1, <1>2, <1>3 DEF Shape, PairsHavePeer, Valid
<1> HIDE DEF X
<1>5. /\ ViewOK(d)
      /\ d.peer = w.peer
      /\ \A x \in Pfxs : d.pp[x][p] \notin Valid
  <2>1. CASE cnt > 0
    <3> DEFINE Q == {p}
    <3>2. /\ X \in SUBSET Pfxs
          /\ Q \in SUBSET Peers
          /\ Q # {}
          /\ \A x \in X, q \in Q : w.pp[x][q] = "INACTIVE"
      BY <1>3, <1>4
    <3> HIDE DEF Q
    <3>1. LET r == RemovePairs(w, X, Q)
          IN /\ ViewOK(r)
             /\ r.peer = w.peer
             /\ r.pp = [x \in Pfxs |-> [q \in Peers |->
                          IF x \in X /\ q \in Q THEN "INVALID" ELSE w.pp[x][q]]]
      BY <1>1, <3>2, RemovePairsOK
    <3> QED
      BY <1>3, <2>1, <3>1, Zenon DEF Valid, Q
  <2>2. CASE ~(cnt > 0)
    BY <1>1, <1>2, <2>2, PfxCntZero
  <2> QED
    BY <2>1, <2>2, Zenon
<1> HIDE DEF d
<1>6. d \in View /\ Counts(d) /\ Shape(d)
  BY <1>5, ViewOKParts DEF Counts
<1>7. Counts(m)
  BY <1>1, <1>5, <1>6, MovePeerCounts DEF EntryState, FieldState, Valid
<1>8. PeerMoved(d, m, p, "INVALID")
  BY <1>6, MovePeerFields DEF EntryState, FieldState, Valid
<1> HIDE DEF m
<1>9. m \in View
  BY <1>7 DEF Counts
<1>10. pc \in [Peers -> [Versions -> Counter]] /\ gc \in [Tables -> BOOLEAN]
  <2>1. [ver \in Versions |-> ZeroCnt] \in [Versions -> Counter]
    BY DEF ZeroCnt, Counter
  <2>2. m.pfx_cnt \in [Peers -> [Versions -> Counter]]
    BY <1>9 DEF View
  <2>3. m.need_gc \in [Tables -> BOOLEAN]
    BY <1>9 DEF View
  <2> QED
    BY <2>1, <2>2, <2>3, Zenon
<1>11. \A q \in Peers :
          pc[q] = IF q = p THEN [ver \in Versions |-> ZeroCnt] ELSE m.pfx_cnt[q]
  BY <1>9 DEF View
<1>12. gc["peerinfo"] /\ \A t \in Tables : m.need_gc[t] => gc[t]
  BY <1>9 DEF View, Tables
<1> HIDE DEF pc, gc
<1>13. /\ u \in View
       /\ u.pfx_cnt = pc
       /\ u.need_gc = gc
       /\ u.peer = m.peer
       /\ u.pfx = m.pfx
       /\ u.pp = m.pp
       /\ u.peers_cnt = m.peers_cnt
       /\ u.pfxs_cnt = m.pfxs_cnt
       /\ u.peerinfo_cnt = m.peerinfo_cnt
  BY <1>9, <1>10, Zenon DEF View
<1> HIDE DEF u
<1>14. PfxCntExact(u)
  <2> SUFFICES ASSUME NEW q \in Peers, NEW ver \in Versions
               PROVE  Exact(u.pfx_cnt[q][ver], PfxsOf(ver), Column(u, q))
    BY DEF PfxCntExact
  <2>1. Column(u, q) = Column(m, q)
    BY <1>13 DEF Column
  <2>2. CASE q = p
    <3>1. \A x \in PfxsOf(ver) : Column(m, p)[x] \notin Valid
      BY <1>5, <1>8, VersionFacts DEF Column, PeerMoved
    <3>2. Exact(ZeroCnt, PfxsOf(ver), Column(m, p))
      BY <3>1, NothingCounted, VersionFacts
    <3> QED
      BY <1>11, <1>13, <2>1, <2>2, <3>2
  <2>3. CASE q # p
    BY <1>7, <1>11, <1>13, <2>1, <2>3 DEF Counts, PfxCntExact
  <2> QED
    BY <2>2, <2>3
<1>15. Counts(u)
  BY <1>7, <1>13, <1>14 DEF Counts, PeersCntExact, PfxsCntExact, PeerinfoCntExact
<1>16. PfxFollowsPeers(u)
  BY <1>6, <1>8, <1>13, SMTT(20) DEF Shape, PfxFollowsPeers, HasPeer, PeerMoved
<1>17. PairsHavePeer(u)
  BY <1>5, <1>6, <1>8, <1>13 DEF Shape, PairsHavePeer, PeerMoved, View, Valid
<1>18. FlagsCoverInvalid(u)
  <2>1. \A t \in Tables : d.need_gc[t] => u.need_gc[t]
    BY <1>8, <1>12, <1>13 DEF PeerMoved
  <2>2. \A x \in Pfxs : u.pfx[x] = "INVALID" => u.need_gc[Version(x)]
    BY <1>6, <1>8, <1>13, <2>1, VersionFacts DEF Shape, FlagsCoverInvalid,
          PeerMoved, Tables
  <2> QED
    BY <1>12, <1>13, <2>2 DEF FlagsCoverInvalid
<1> QED
  BY <1>15, <1>16, <1>17, <1>18, ViewOKParts DEF Shape

\* clear: nothing valid is left, and the kept counters were zero already
LEMMA ClearOK ==
    ASSUME NEW v, ViewOK(v)
    PROVE  ViewOK(Clear(v))
<1> DEFINE u == Clear(v)
<1> SUFFICES ViewOK(u)
  OBVIOUS
<1>1. v \in View /\ Counts(v) /\ Shape(v)
  BY ViewOKParts DEF Counts
<1>2. ZeroCnt \in Counter /\ [ver \in Versions |-> ZeroCnt] \in [Versions -> Counter]
  BY DEF ZeroCnt, Counter
<1>3. u \in View
  BY <1>1, <1>2, Zenon DEF Clear, View, EntryState, FieldState
<1>4. /\ \A p \in Peers : u.peer[p] =
             IF v.peer[p] \in Valid THEN "INVALID" ELSE v.peer[p]
      /\ \A x \in Pfxs : u.pfx[x] =
             IF v.pfx[x] \in Valid THEN "INVALID" ELSE v.pfx[x]
      /\ \A x \in Pfxs, p \in Peers : u.pp[x][p] =
             IF v.pfx[x] \in Valid THEN "INVALID" ELSE v.pp[x][p]
      /\ \A x \in Pfxs : u.peers_cnt[x] =
             IF v.pfx[x] \in Valid THEN ZeroCnt ELSE v.peers_cnt[x]
      /\ \A p \in Peers, ver \in Versions : u.pfx_cnt[p][ver] =
             IF v.peer[p] \in Valid THEN ZeroCnt ELSE v.pfx_cnt[p][ver]
      /\ \A ver \in Versions : u.pfxs_cnt[ver] = ZeroCnt
      /\ u.peerinfo_cnt = ZeroCnt
      /\ u.need_gc = [t \in Tables |->
             IF t = "peerinfo"
             THEN \E p \in Peers : v.peer[p] # "ABSENT"
             ELSE \E x \in PfxsOf(t) : v.pfx[x] # "ABSENT"]
  BY <1>1 DEF Clear, View
<1> HIDE DEF u
<1>5. /\ \A p \in Peers : u.peer[p] \notin Valid
      /\ \A x \in Pfxs : u.pfx[x] \notin Valid
      /\ \A x \in Pfxs, p \in Peers : u.pp[x][p] \notin Valid
  BY <1>1, <1>4 DEF Shape, PfxFollowsPeers, HasPeer, Valid
<1>6. PeersCntExact(u)
  <2> SUFFICES ASSUME NEW x \in Pfxs
               PROVE  Exact(u.peers_cnt[x], Peers, u.pp[x])
    BY DEF PeersCntExact
  <2>1. CASE v.pfx[x] \in Valid
    BY <1>4, <1>5, <2>1, NothingCounted, VersionFacts
  <2>2. CASE v.pfx[x] \notin Valid
    <3>1. Exact(v.peers_cnt[x], Peers, v.pp[x])
      BY <1>1 DEF Counts, PeersCntExact
    <3>2. \A p \in Peers : u.pp[x][p] = v.pp[x][p]
      BY <1>4, <2>2
    <3> QED
      BY <1>4, <2>2, <3>1, <3>2, SameCounted
  <2> QED
    BY <2>1, <2>2
<1>7. PfxCntExact(u)
  <2> SUFFICES ASSUME NEW p \in Peers, NEW ver \in Versions
               PROVE  Exact(u.pfx_cnt[p][ver], PfxsOf(ver), Column(u, p))
    BY DEF PfxCntExact
  <2>1. \A x \in PfxsOf(ver) : Column(u, p)[x] \notin Valid
    BY <1>5, VersionFacts DEF Column
  <2>2. CASE v.peer[p] \in Valid
    BY <1>4, <2>1, <2>2, NothingCounted, VersionFacts
  <2>3. CASE v.peer[p] \notin Valid
    <3>1. Exact(v.pfx_cnt[p][ver], PfxsOf(ver), Column(v, p))
      BY <1>1 DEF Counts, PfxCntExact
    <3>2. \A x \in PfxsOf(ver) : Column(v, p)[x] \notin Valid
      BY <1>1, <2>3, VersionFacts DEF Column, Shape, PairsHavePeer
    <3> QED
      BY <1>4, <2>1, <2>3, <3>1, <3>2, SameCounted
  <2> QED
    BY <2>2, <2>3
<1>8. PfxsCntExact(u)
  BY <1>4, <1>5, NothingCounted, VersionFacts DEF PfxsCntExact
<1>9. PeerinfoCntExact(u)
  BY <1>4, <1>5, NothingCounted, VersionFacts DEF PeerinfoCntExact
<1>10. PfxFollowsPeers(u) /\ PairsHavePeer(u)
  BY <1>5 DEF PfxFollowsPeers, PairsHavePeer, HasPeer, Valid
<1>11. FlagsCoverInvalid(u)
  <2>1. \A x \in Pfxs : u.pfx[x] = "INVALID" => u.need_gc[Version(x)]
    <3>1. \A x \in Pfxs : u.pfx[x] = "INVALID" => v.pfx[x] # "ABSENT"
      BY <1>4 DEF Valid
    <3>2. \A ver \in Versions : u.need_gc[ver] = \E x \in PfxsOf(ver) : v.pfx[x] # "ABSENT"
      <4>1. u.need_gc = [t \in Tables |->
               IF t = "peerinfo"
               THEN \E p \in Peers : v.peer[p] # "ABSENT"
               ELSE \E x \in PfxsOf(t) : v.pfx[x] # "ABSENT"]
        BY <1>4, Zenon
      <4>2. \A ver \in Versions : ver \in Tables /\ ver # "peerinfo"
        BY DEF Versions, Tables
      <4> QED
        BY <4>1, <4>2, Zenon
    <3> QED
      BY <3>1, <3>2, VersionFacts, Zenon
  <2>2. \A p \in Peers : u.peer[p] = "INVALID" => u.need_gc["peerinfo"]
    BY <1>4 DEF Tables, Valid
  <2> QED
    BY <2>1, <2>2 DEF FlagsCoverInvalid
<1> QED
  BY <1>3, <1>6, <1>7, <1>8, <1>9, <1>10, <1>11 DEF ViewOK

\* gc: only entries that count for nothing go, and none of them stays
LEMMA GcOK ==
    ASSUME NEW v, ViewOK(v)
    PROVE  ViewOK(Gc(v))
<1> DEFINE u == Gc(v)
<1> SUFFICES ViewOK(u)
  OBVIOUS
<1>1. v \in View /\ Counts(v) /\ Shape(v)
  BY ViewOKParts DEF Counts
<1>2. ZeroCnt \in Counter /\ [ver \in Versions |-> ZeroCnt] \in [Versions -> Counter]
  BY DEF ZeroCnt, Counter
<1>3. u \in View
  BY <1>1, <1>2, Zenon DEF Gc, View, EntryState, FieldState
<1>4. /\ \A p \in Peers : u.peer[p] =
             IF v.peer[p] = "INVALID" THEN "ABSENT" ELSE v.peer[p]
      /\ \A x \in Pfxs : u.pfx[x] =
             IF v.pfx[x] = "INVALID" THEN "ABSENT" ELSE v.pfx[x]
      /\ \A x \in Pfxs, p \in Peers : u.pp[x][p] =
             IF v.pfx[x] = "INVALID" THEN "INVALID" ELSE v.pp[x][p]
      /\ \A x \in Pfxs : u.peers_cnt[x] =
             IF v.pfx[x] = "INVALID" THEN ZeroCnt ELSE v.peers_cnt[x]
      /\ \A p \in Peers, ver \in Versions : u.pfx_cnt[p][ver] =
             IF v.peer[p] = "INVALID" THEN ZeroCnt ELSE v.pfx_cnt[p][ver]
      /\ u.pfxs_cnt = v.pfxs_cnt
      /\ u.peerinfo_cnt = v.peerinfo_cnt
  BY <1>1 DEF Gc, View, Shape, FlagsCoverInvalid
<1> HIDE DEF u
<1>5. \A s \in Valid :
         /\ \A p \in Peers : v.peer[p] = s <=> u.peer[p] = s
         /\ \A x \in Pfxs : v.pfx[x] = s <=> u.pfx[x] = s
         /\ \A x \in Pfxs, p \in Peers : v.pp[x][p] = s <=> u.pp[x][p] = s
  BY <1>1, <1>4 DEF Shape, PfxFollowsPeers, HasPeer, Valid
<1>6. PeersCntExact(u)
  <2> SUFFICES ASSUME NEW x \in Pfxs
               PROVE  Exact(u.peers_cnt[x], Peers, u.pp[x])
    BY DEF PeersCntExact
  <2>1. CASE v.pfx[x] = "INVALID"
    BY <1>4, <2>1, NothingCounted, VersionFacts DEF Valid
  <2>2. CASE v.pfx[x] # "INVALID"
    <3>1. Exact(v.peers_cnt[x], Peers, v.pp[x])
      BY <1>1 DEF Counts, PeersCntExact
    <3> QED
      BY <1>4, <1>5, <2>2, <3>1, SameCounted
  <2> QED
    BY <2>1, <2>2
<1>7. PfxCntExact(u)
  <2> SUFFICES ASSUME NEW p \in Peers, NEW ver \in Versions
               PROVE  Exact(u.pfx_cnt[p][ver], PfxsOf(ver), Column(u, p))
    BY DEF PfxCntExact
  <2>1. \A x \in PfxsOf(ver), s \in Valid : Column(v, p)[x] = s <=> Column(u, p)[x] = s
    BY <1>5, VersionFacts DEF Column
  <2>2. Exact(v.pfx_cnt[p][ver], PfxsOf(ver), Column(v, p))
    BY <1>1 DEF Counts, PfxCntExact
  <2>3. Exact(v.pfx_cnt[p][ver], PfxsOf(ver), Column(u, p))
    BY <2>1, <2>2, SameCounted
  <2>4. CASE v.peer[p] = "INVALID"
    <3>1. \A x \in PfxsOf(ver) : Column(u, p)[x] \notin Valid
      BY <1>1, <1>5, <2>4, VersionFacts DEF Column, Shape, PairsHavePeer, Valid
    <3> QED
      BY <1>4, <2>4, <3>1, NothingCounted, VersionFacts
  <2>5. CASE v.peer[p] # "INVALID"
    BY <1>4, <2>3, <2>5, SMTT(20)
  <2> QED
    BY <2>4, <2>5
<1>8. PfxsCntExact(u)
  BY <1>1, <1>4, <1>5, SameCounted, VersionFacts, SMTT(20) DEF Counts, PfxsCntExact
<1>9. PeerinfoCntExact(u)
  BY <1>1, <1>4, <1>5, SameCounted DEF Counts, PeerinfoCntExact
<1>10. PfxFollowsPeers(u)
  BY <1>1, <1>5 DEF Shape, PfxFollowsPeers, HasPeer, Valid
<1>11. PairsHavePeer(u)
  BY <1>1, <1>5 DEF Shape, PairsHavePeer, Valid
<1>12. FlagsCoverInvalid(u)
  BY <1>4 DEF FlagsCoverInvalid
<1> QED
  BY <1>3, <1>6, <1>7, <1>8, <1>9, <1>10, <1>11, <1>12 DEF ViewOK

-----------------------------------------------------------------------------
(* The theorems                                                            *)

\* Every call of bgpview.h, made on an iterator that its seek has positioned,
\* preserves the invariant.
LEMMA NextOK ==
    ASSUME ViewOK(view), [Next]_view
    PROVE  ViewOK(view')
<1>1. ASSUME NEW p \in Peers, IterAddPeer(p)
      PROVE  ViewOK(view')
  BY <1>1, AddPeerOK DEF IterAddPeer
<1>2. ASSUME NEW p \in Peers, IterRemovePeer(p)
      PROVE  ViewOK(view')
  BY <1>2, RemovePeerOK DEF IterRemovePeer
<1>3. ASSUME NEW p \in Peers, IterActivatePeer(p)
      PROVE  ViewOK(view')
  BY <1>3, ActivatePeerOK DEF IterActivatePeer
<1>4. ASSUME NEW p \in Peers, IterDeactivatePeer(p)
      PROVE  ViewOK(view')
  BY <1>4, DeactivatePeerOK DEF IterDeactivatePeer
<1>5. ASSUME NEW x \in Pfxs, IterRemovePfx(x)
      PROVE  ViewOK(view')
  BY <1>5, RemovePfxOK DEF IterRemovePfx
<1>6. ASSUME NEW x \in Pfxs, IterDeactivatePfx(x)
      PROVE  ViewOK(view')
  BY <1>6, DeactivatePfxOK DEF IterDeactivatePfx
<1>7. ASSUME NEW x \in Pfxs, NEW p \in Peers, IterAddPfxPeer(x, p)
      PROVE  ViewOK(view')
  BY <1>7, AddPfxPeerOK DEF IterAddPfxPeer, AddPfxPeer, Valid
<1>8. ASSUME NEW x \in Pfxs, NEW p \in Peers, IterAddPfxPeerById(x, p)
      PROVE  ViewOK(view')
  BY <1>8, AddPfxPeerOK DEF IterAddPfxPeerById, AddPfxPeerById
<1>9. ASSUME NEW x \in Pfxs, NEW p \in Peers, IterPfxAddPeer(x, p)
      PROVE  ViewOK(view')
  BY <1>9, AddPfxPeerOK, Zenon DEF IterPfxAddPeer, AddPfx
<1>10. ASSUME NEW x \in Pfxs, NEW p \in Peers, IterPfxRemovePeer(x, p)
       PROVE  ViewOK(view')
  BY <1>10, PfxRemovePeerOK DEF IterPfxRemovePeer
<1>11. ASSUME NEW x \in Pfxs, NEW p \in Peers, IterPfxActivatePeer(x, p)
       PROVE  ViewOK(view')
  BY <1>11, PfxActivatePeerOK DEF IterPfxActivatePeer
<1>12. ASSUME NEW x \in Pfxs, NEW p \in Peers, IterPfxDeactivatePeer(x, p)
       PROVE  ViewOK(view')
  BY <1>12, PfxDeactivatePeerOK DEF IterPfxDeactivatePeer
<1>13. ASSUME ClearView
       PROVE  ViewOK(view')
  BY <1>13, ClearOK DEF ClearView
<1>14. ASSUME GcView
       PROVE  ViewOK(view')
  BY <1>14, GcOK DEF GcView
<1>15. ASSUME UNCHANGED view
       PROVE  ViewOK(view')
  BY <1>15
<1> QED
  BY <1>1, <1>2, <1>3, <1>4, <1>5, <1>6, <1>7, <1>8, <1>9, <1>10, <1>11, <1>12,
     <1>13, <1>14, <1>15 DEF Next

\* The inductive invariant holds of every view that the calls can build,
\* however many peers and prefixes there are.
THEOREM Invariance == Spec => []ViewInv
<1>1. Init => ViewInv
  BY EmptyViewOK DEF Init, ViewInv
<1>2. ViewInv /\ [Next]_view => ViewInv'
  BY NextOK DEF ViewInv
<1> QED
  BY <1>1, <1>2, PTL DEF Spec

\* Every counter of bgpview.c always equals the number of entries it counts.
THEOREM CountersAreExact == Spec => []CountersExact
<1>1. ViewInv => CountersExact
  BY DEF ViewInv, ViewOK, CountersExact
<1> QED
  BY <1>1, Invariance, PTL

\* A prefix is active exactly when it has an active pfx-peer and is in the
\* view exactly when it has a pfx-peer.
THEOREM PfxStateIsDetermined == Spec => []PfxStateFollowsPeers
<1>1. ViewInv => PfxStateFollowsPeers
  BY DEF ViewInv, ViewOK, PfxStateFollowsPeers
<1> QED
  BY <1>1, Invariance, PTL

\* No pfx-peer outlives its peer, and no active one its peer's activity.
THEOREM NoOrphanedPfxPeers == Spec => []PfxPeersHavePeer
<1>1. ViewInv => PfxPeersHavePeer
  BY DEF ViewInv, ViewOK, PfxPeersHavePeer
<1> QED
  BY <1>1, Invariance, PTL

\* bgpview_gc finds every entry that is to be collected.
THEOREM GcIsComplete == Spec => []GcFindsInvalid
<1>1. ViewInv => GcFindsInvalid
  BY DEF ViewInv, ViewOK, GcFindsInvalid
<1> QED
  BY <1>1, Invariance, PTL

\* The whole-view walks inside deactivate_peer and remove_peer never stop
\* early, whatever the order of the hash tables.
THEOREM WalksAreComplete == Spec => []WalksComplete
<1>1. ViewInv => WalksComplete
  BY WalkAll DEF ViewInv, ViewOK, WalksComplete
<1> QED
  BY <1>1, Invariance, PTL

\* Every field of the view has its type, and no counter falls below zero.
THEOREM TypeCorrectness == Spec => []TypeOK
<1>1. ViewInv => TypeOK
  <2> SUFFICES ASSUME ViewOK(view)
               PROVE  TypeOK
    BY DEF ViewInv
  <2>1. \A c, S, f : IsFiniteSet(S) /\ Exact(c, S, f) => CntOK(c)
    BY CountZero DEF Exact, CntOK, Valid
  <2>2. view \in View /\ Counts(view)
    BY ViewOKParts DEF Counts
  <2>3. \A x \in Pfxs : CntOK(view.peers_cnt[x])
    BY <2>1, <2>2, VersionFacts DEF Counts, PeersCntExact
  <2>4. \A p \in Peers, ver \in Versions : CntOK(view.pfx_cnt[p][ver])
    BY <2>1, <2>2, VersionFacts DEF Counts, PfxCntExact
  <2>5. \A ver \in Versions : CntOK(view.pfxs_cnt[ver])
    BY <2>1, <2>2, VersionFacts DEF Counts, PfxsCntExact
  <2>6. CntOK(view.peerinfo_cnt)
    BY <2>1, <2>2, VersionFacts DEF Counts, PeerinfoCntExact
  <2> QED
    BY <2>2, <2>3, <2>4, <2>5, <2>6 DEF TypeOK
<1> QED
  BY <1>1, Invariance, PTL
=============================================================================
