-------------------------- MODULE OriginConsumers --------------------------
(***************************************************************************)
(* The consumers about who originates what: announcedpfxs, pfxorigins,     *)
(* perasvisibility, peerpfxorigins and pfx2as.                             *)
(*                                                                         *)
(* As in EventConsumers, a process operator gives the new state, what is   *)
(* written for the view and whether process_view returns 0.                *)
(***************************************************************************)
EXTENDS ConsumerViews

CONSTANTS
    PfxWindow,      \* announcedpfxs: the window, in seconds
    OutInterval,    \* announcedpfxs and pfx2as: the output interval, in seconds
    MinPfx4Len,     \* announcedpfxs: shortest and longest masks it considers
    MaxPfx4Len,
    VisMaskLen      \* the shortest mask perasvisibility and pergeovisibility count

(* out when a view writes nothing *)
Nothing == <<>>

(***************************************************************************)
(* announcedpfxs: the IPv4 prefixes that a full-feed peer announced within *)
(* the window, written every OutInterval seconds.                          *)
(***************************************************************************)
NoAnnounced == [ts |-> <<>>, first |-> 0, next |-> 0]

Announceable(p) ==
    /\ Version(p) = 4 /\ p \notin DefaultRoutes
    /\ MaskLen[p] \in MinPfx4Len .. MaxPfx4Len

Fresh(ts, now) == ts >= now - PfxWindow

AnnouncedProcess(s, v, chain) ==
    LET pfxs == {p \in ActivePfx(v) : Announceable(p)}
        ts   == [p \in DOMAIN s.ts \cup pfxs |->
                    IF p \in pfxs /\ FFPeers(v, chain, p) # {} THEN v.time
                    ELSE IF p \in DOMAIN s.ts THEN s.ts[p] ELSE 0]
        kept == {p \in DOMAIN ts : Fresh(ts[p], v.time)}
        next == IF s.next = 0 THEN v.time + OutInterval - (v.time % OutInterval) ELSE s.next
        due  == next <= v.time
    IN  [st  |-> [ts    |-> [p \in kept |-> ts[p]],
                  first |-> IF s.first = 0 THEN v.time ELSE s.first,
                  next  |-> IF due THEN next + OutInterval ELSE next],
         out |-> [due |-> due, pfxs |-> IF due THEN kept ELSE {}],
         ok  |-> TRUE]

(***************************************************************************)
(* pfxorigins: how the origin segments of a prefix differ from those of    *)
(* the view before.                                                        *)
(***************************************************************************)
OriginStatus(prev, cur) ==
    IF prev = cur THEN "STABLE"
    ELSE IF cur = {} THEN "REMOVED"
    ELSE IF prev = {} THEN "NEWROUTED" ELSE "CHANGED"

OriginsKept(prev, cur) == cur

PfxOriginsProcess(s, v, chain) ==
    LET pfxs  == ActivePfx(v) \ DefaultRoutes
        cur   == [p \in pfxs |-> FFOrigins(v, chain, p)]
        known == DOMAIN s \cup {p \in pfxs : cur[p] # {}}
        Prev(p) == IF p \in DOMAIN s THEN s[p] ELSE {}
        Cur(p)  == IF p \in pfxs THEN cur[p] ELSE {}
        kept  == {p \in known : OriginsKept(Prev(p), Cur(p)) # {}}
    IN  [st  |-> [p \in kept |-> OriginsKept(Prev(p), Cur(p))],
         out |-> {<<p, Prev(p), Cur(p), OriginStatus(Prev(p), Cur(p))>> : p \in known},
         ok  |-> ~Originless(v, chain, pfxs)]

(***************************************************************************)
(* perasvisibility: for every origin AS, the prefixes that at least a      *)
(* quarter, half, ... of the full-feed AS numbers see.  A prefix goes to   *)
(* the highest threshold it reaches; the trees are merged downwards when   *)
(* the metrics are written, then cleared, and the ASes stay known.         *)
(***************************************************************************)
Thresholds == 0 .. 4      \* a single AS, 25%, 50%, 75%, 100%

Reaches(cnt, total, i) == 4 * cnt >= i * total

Highest(cnt, total) == Max({i \in Thresholds : Reaches(cnt, total, i)})

Visible(v, p) == p \in ActivePfx(v) /\ (Version(p) = 4 => MaskLen[p] >= VisMaskLen)

(* compute_origin_pfx_visibility, update_pfx_asns_information              *)
PerAsTree(v, chain, a, i) ==
    {p \in Pfx : /\ Visible(v, p)
                 /\ a \in FFAsnOrigins(v, chain, p)
                 /\ Highest(Cardinality(FFAsns(v, chain, p)), chain.asns[Version(p)]) = i}

(* output_metrics_and_reset: merged from the top                           *)
Merged(v, chain, a, i) == UNION {PerAsTree(v, chain, a, j) : j \in i .. 4}

PerAsProcess(known, v, chain) ==
    IF \A ver \in Versions : ~chain.usable[ver]
    THEN [st |-> known, out |-> Nothing, ok |-> TRUE]
    ELSE LET seen == UNION {FFAsnOrigins(v, chain, p) : p \in {q \in Pfx : Visible(v, q)}}
             ases == known \cup seen
         IN  [st  |-> ases,
              out |-> [a \in ases |-> [i \in Thresholds |-> Merged(v, chain, a, i)]],
              ok  |-> TRUE]

(***************************************************************************)
(* peerpfxorigins: for every active prefix and origin segment, the peers   *)
(* that announce it; every peer counts, whatever its feed.                 *)
(***************************************************************************)
PeerPfxOriginsProcess(s, v) ==
    LET Origins(p) == {Last(v.rib[p][q]) : q \in DOMAIN v.rib[p]}
    IN  [st  |-> s,
         out |-> UNION {{<<p, o, {q \in DOMAIN v.rib[p] : Last(v.rib[p][q]) = o}>> :
                            o \in Origins(p)} : p \in ActivePfx(v)},
         ok  |-> TRUE]

(***************************************************************************)
(* pfx2as: over an output interval, in how many views each origin of each  *)
(* prefix was seen, by full-feed peers, by others and by each peer.  A     *)
(* prefix has slots, one for each origin; at the end of an interval the    *)
(* prefixes with a single slot keep it for reuse and the others are freed. *)
(***************************************************************************)
NoPfx2as == [prev |-> 0, gap |-> 0, start |-> 0, next |-> 0, views |-> 0, pfxs |-> <<>>]

NoInfo == [cnt |-> 0, slots |-> <<>>]

(* The slot of an origin not yet seen in the interval.                     *)
EmptySlot(o) == [origin |-> o, full |-> 0, partial |-> 0, peers |-> <<>>]

\* Mutant: a slot taken up again keeps the peers of the interval before
NewSlotReused(info, o) ==
    LET n == info.cnt + 1
    IN  IF n <= Len(info.slots)
        THEN [info EXCEPT !.cnt = n, !.slots[n].origin = o, !.slots[n].full = 0, !.slots[n].partial = 0]
        ELSE [cnt |-> n, slots |-> Append(info.slots, EmptySlot(o))]

NewSlot(info, o) ==
    LET n == info.cnt + 1
    IN  IF n <= Len(info.slots)
        THEN [info EXCEPT !.cnt = n, !.slots[n] = EmptySlot(o)]
        ELSE [cnt |-> n, slots |-> Append(info.slots, EmptySlot(o))]

(* One peer of one prefix: acc.full and acc.partial hold the slots already *)
(* counted in this view (originflags).                                     *)
CountPeer(acc, q, path, isFull) ==
    LET o    == Last(path)
        old  == {i \in 1 .. acc.info.cnt : acc.info.slots[i].origin = o}
        info == IF old = {} THEN NewSlot(acc.info, o) ELSE acc.info
        i    == IF old = {} THEN info.cnt ELSE CHOOSE j \in old : TRUE
        sl   == info.slots[i]
        was  == IF q \in DOMAIN sl.peers THEN sl.peers[q] ELSE [full |-> 0, partial |-> 0]
        now  == IF isFull THEN [was EXCEPT !.full = @ + 1] ELSE [was EXCEPT !.partial = @ + 1]
        new  == [sl EXCEPT
                   !.peers   = [r \in DOMAIN @ \cup {q} |-> IF r = q THEN now ELSE @[r]],
                   !.full    = IF isFull /\ i \notin acc.full THEN @ + 1 ELSE @,
                   !.partial = IF ~isFull /\ i \notin acc.partial THEN @ + 1 ELSE @]
    IN  [info    |-> [info EXCEPT !.slots[i] = new],
         full    |-> IF isFull THEN acc.full \cup {i} ELSE acc.full,
         partial |-> IF isFull THEN acc.partial ELSE acc.partial \cup {i}]

CountPfx(info, v, chain, p) ==
    FoldLeft(LAMBDA acc, q : CountPeer(acc, q, v.rib[p][q], q \in chain.ff[Version(p)]),
             [info |-> info, full |-> {}, partial |-> {}],
             SetToSeq(DOMAIN v.rib[p])).info

(* dump_results: one line for each prefix and origin, with the numbers of  *)
(* full-feed and other peers, the durations and each peer's duration.      *)
Pfx2asLine(p, sl, gap) ==
    <<p, sl.origin,
      Cardinality({q \in DOMAIN sl.peers : sl.peers[q].full > 0}),
      Cardinality({q \in DOMAIN sl.peers : sl.peers[q].partial > 0}),
      sl.full * gap, sl.partial * gap,
      {<<q, gap * (sl.peers[q].full + sl.peers[q].partial)>> : q \in DOMAIN sl.peers}>>

Pfx2asLines(pfxs, gap) ==
    UNION {{Pfx2asLine(p, pfxs[p].slots[i], gap) : i \in 1 .. pfxs[p].cnt} : p \in DOMAIN pfxs}

(* CLEAR_PFX_MAP *)
Pfx2asCleared(pfxs) ==
    [p \in {r \in DOMAIN pfxs : pfxs[r].cnt = 1} |-> [pfxs[p] EXCEPT !.cnt = 0]]

(* end_output_interval; nothing is written when no peer saw anything.      *)
EndOutputInterval(s, v, gap) ==
    LET lines == Pfx2asLines(s.pfxs, gap)
    IN  [st  |-> [s EXCEPT !.views = 0, !.start = v.time, !.next = @ + OutInterval,
                           !.pfxs = Pfx2asCleared(@)],
         out |-> IF lines = {} THEN Nothing
                 ELSE [start |-> s.start, duration |-> s.views * gap, lines |-> lines]]

Pfx2asFirst(v) == [NoPfx2as EXCEPT !.start = v.time, !.next = v.time + OutInterval]

(* The interval ends before the view is counted; from the third view on    *)
(* the time between views must not change.                                 *)
Pfx2asProcess(s, v, chain) ==
    LET gap   == IF s.prev = 0 THEN 0 ELSE v.time - s.prev
        ended == IF s.prev = 0 THEN [st |-> Pfx2asFirst(v), out |-> Nothing]
                 ELSE IF v.time >= s.next THEN EndOutputInterval(s, v, gap)
                 ELSE [st |-> s, out |-> Nothing]
        pfxs  == ended.st.pfxs
        Info(p) == IF p \in DOMAIN pfxs THEN pfxs[p] ELSE NoInfo
    IN  [st  |-> [ended.st EXCEPT
                    !.views = @ + 1, !.prev = v.time, !.gap = gap,
                    !.pfxs  = [p \in DOMAIN pfxs \cup ActivePfx(v) |->
                                  IF p \in ActivePfx(v) THEN CountPfx(Info(p), v, chain, p)
                                  ELSE pfxs[p]]],
         out |-> ended.out,
         ok  |-> s.gap = 0 \/ s.gap = gap]

=============================================================================
