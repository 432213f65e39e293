--------------------------- MODULE SpaceConsumers ---------------------------
(***************************************************************************)
(* The consumers about the address space: subpfx, routedspace and the      *)
(* per-prefix cache of pergeovisibility.                                   *)
(***************************************************************************)
EXTENDS OriginConsumers

CONSTANTS
    SubpfxMode,     \* "submoas" or "defcon"
    RoutedWindow,   \* routedspace: the window, in seconds
    ReloadFreq      \* pergeovisibility: seconds between two database reloads, 0 for none

(***************************************************************************)
(* subpfx: the prefixes with a super-prefix in the view, and it.  Two maps *)
(* take turns as the current and the previous one.                         *)
(***************************************************************************)
NoSubpfxs == [maps |-> <<{}, {}>>, cur |-> 1]

(* The prefixes put in the Patricia tree: some full-feed peer announces    *)
(* them with a plain origin.                                               *)
InTree(v, chain) == {p \in ActivePfx(v) \ DefaultRoutes : FFAsnOrigins(v, chain, p) # {}}

(* The longest prefix of the tree that covers p (none, or one).            *)
MinCovering(tree, p) ==
    {q \in tree : <<q, p>> \in Covers /\ \A r \in tree : <<r, p>> \in Covers /\ r # q => <<r, q>> \in Covers}

IsWanted(sub, super) ==
    IF SubpfxMode = "submoas" THEN ~(sub \subseteq super) ELSE sub = super

(* find_subpfxs over the tree *)
FindSubpfxs(v, chain) ==
    LET tree == InTree(v, chain)
    IN  {x \in tree \X tree : /\ x[2] \in MinCovering(tree, x[1])
                              /\ IsWanted(FFAsnOrigins(v, chain, x[1]), FFAsnOrigins(v, chain, x[2]))}

(* The map just filled becomes the previous one, the other is cleared.     *)
Rotated(s, found) ==
    [maps |-> [s.maps EXCEPT ![s.cur] = @ \cup found, ![3 - s.cur] = {}], cur |-> 3 - s.cur]

SubpfxProcess(s, v, chain) ==
    LET found == FindSubpfxs(v, chain)
        cur   == s.maps[s.cur] \cup found
        prev  == s.maps[3 - s.cur]
    IN  [st  |-> Rotated(s, found),
         out |-> [new |-> cur \ prev, finished |-> prev \ cur],
         ok  |-> ~Originless(v, chain, ActivePfx(v) \ DefaultRoutes)]

(***************************************************************************)
(* routedspace: the prefixes routed within the window, and whether a       *)
(* prefix of the view is newly routed: it was not in the tree and overlaps *)
(* nothing in it.  The tree grows while the view is walked, in the order   *)
(* of the view's hash table.                                               *)
(***************************************************************************)
NoRouted == [first |-> 0, tree |-> <<>>]

(* remove_old_prefixes *)
StaleRouted(ts, now) == ts + RoutedWindow < now

RoutedStep(acc, p, now, isFirst) ==
    [tree |-> [q \in DOMAIN acc.tree \cup {p} |-> IF q = p THEN now ELSE acc.tree[q]],
     new  |-> IF isFirst \/ (p \notin DOMAIN acc.tree /\ \A q \in DOMAIN acc.tree : ~Overlaps(p, q))
              THEN acc.new \cup {p} ELSE acc.new]

RoutedProcess(s, v, order) ==
    LET first == IF s.first = 0 THEN v.time ELSE s.first
        old   == {p \in DOMAIN s.tree : ~StaleRouted(s.tree[p], v.time)}
        pfxs  == ActivePfx(v) \ DefaultRoutes
        acc   == FoldLeft(LAMBDA a, p : RoutedStep(a, p, v.time, first = v.time),
                          [tree |-> [p \in old |-> s.tree[p]], new |-> {}],
                          SelectSeq(order, LAMBDA p : p \in pfxs))
    IN  [st  |-> [first |-> first, tree |-> acc.tree],
         out |-> [routed |-> pfxs, new |-> acc.new],
         ok  |-> TRUE]

(***************************************************************************)
(* pergeovisibility: the geolocation of a prefix is looked up once and     *)
(* cached in the user pointer of the prefix in the view.  The cache of a   *)
(* prefix is represented by the number of the database it was looked up    *)
(* in, 0 for none.  Receiving a view clears the view object, which leaves  *)
(* the user pointers of its prefixes in place.                             *)
(***************************************************************************)
NoGeo == [last |-> 0, db |-> 1, cache |-> [p \in Pfx |-> 0]]

(* clear_geocache: only the prefixes that are valid in the view at hand    *)
ClearGeocache(cache, v) == [p \in Pfx |-> IF p \in ActivePfx(v) THEN 0 ELSE cache[p]]

Reloads(s, v) == s.last # 0 /\ ReloadFreq > 0 /\ v.time >= s.last + ReloadFreq

GeoLocated(v, chain) ==
    {p \in ActivePfx(v) : Version(p) = 4 /\ MaskLen[p] >= VisMaskLen /\ FFAsnOrigins(v, chain, p) # {}}

(* The reload comes before the check that the view is usable.              *)
GeoProcess(s, v, chain) ==
    LET reload == Reloads(s, v)
        db     == IF reload THEN s.db + 1 ELSE s.db
        kept   == IF reload THEN ClearGeocache(s.cache, v) ELSE s.cache
        used   == IF chain.usable[4] THEN GeoLocated(v, chain) ELSE {}
        cache  == [p \in Pfx |-> IF p \in used /\ kept[p] = 0 THEN db ELSE kept[p]]
    IN  [st  |-> [last |-> IF s.last = 0 \/ reload THEN v.time ELSE s.last, db |-> db, cache |-> cache],
         out |-> [p \in used |-> cache[p]],
         ok  |-> TRUE]

=============================================================================
