-------------------------- MODULE ConsumerHistory --------------------------
(***************************************************************************)
(* What the consumers promise, stated from the views received so far: the  *)
(* consumers keep maps, windows, marks and rotations that they update view *)
(* by view, and each property says what must come out of them for the last *)
(* view in terms of the whole history.                                     *)
(***************************************************************************)
EXTENDS ConsumerChain

N == Len(hist)

Now == hist[N].time

T(i) == hist[i].time

(* The full-feed peers and the rest of the chain state, at the i-th view.  *)
ChainAt(i) == IF "visibility" \in enabled THEN VisibilityProcess(hist[i]) ELSE NoChain

(* The last view before this one with k in it, 0 for none.                 *)
LastSeen(Seen, k) == Max({0} \cup {i \in 1 .. N - 1 : k \in Seen[i]})

(* The consumers that ask for visibility at init see the full-feed peers   *)
(* of the view they process, whatever the order of the command line.       *)
ChainIsOfThisView ==
    ran \cap NeedsVisibility # {} =>
        /\ "visibility" \in ran
        /\ chain.ff = [ver \in Versions |->
              {q \in Peers : FullFeedSize[ver] <=
                  Cardinality({p \in ActivePfx(hist[N]) : /\ Version(p) = ver
                                                         /\ q \in DOMAIN hist[N].rib[p]})}]

(* moas: a set of origins is NEW when it was never seen, or last seen      *)
(* before the window; ONGOING when it was in the view before; NEWREC when  *)
(* it comes back within the window; and FINISHED once, in the first view   *)
(* without it, unless that view comes too late.                            *)
MoasHistory ==
    "moas" \in ran =>
        LET Seen    == [i \in 1 .. N |-> MoasSeen(hist[i], ChainAt(i))]
            L(k)    == LastSeen(Seen, k)
            Recent(k) == T(L(k)) >= Now - WindowSize
            Cat(k)  == IF L(k) = 0 THEN "NEW"
                       ELSE IF L(k) = N - 1 THEN "ONGOING"
                       ELSE IF Recent(k) THEN "NEWREC" ELSE "NEW"
        IN  out["moas"] =
              {<<k, Cat(k)>> : k \in Seen[N]}
                \cup {<<k, "FINISHED">> :
                        k \in {j \in UNION {Seen[i] : i \in 1 .. N - 1} \ Seen[N] :
                                 L(j) = N - 1 /\ Recent(j)}}

(* edges: an edge is FINISHED in the first view that comes more than a     *)
(* window after the last view with it; then, and only then, it starts      *)
(* again when it comes back, as NEWREC within a window of its end.  Edges  *)
(* of the first view are not written.                                      *)
EdgesHistory ==
    "edges" \in ran =>
        LET Seen    == [i \in 1 .. N |-> EdgesSeen(hist[i], ChainAt(i))]
            L(e)    == LastSeen(Seen, e)
            Late(e, i) == i > L(e) /\ T(i) > T(L(e)) + WindowSize
            (* the views in which the last stretch of e could have ended *)
            Ends(e) == IF L(e) = 0 THEN {} ELSE {i \in 1 .. N - 1 : Late(e, i)}
            Starts(e) == L(e) = 0 \/ Ends(e) # {}
            Cat(e)  == IF L(e) # 0 /\ T(Min(Ends(e))) + WindowSize > Now THEN "NEWREC" ELSE "NEW"
            Lines   == {<<e, Cat(e), p>> : <<e, p>> \in
                          {x \in Seen[N] \X (ActivePfx(hist[N]) \ DefaultRoutes) :
                              Starts(x[1]) /\ x[1] \in PfxEdges(hist[N], ChainAt(N), x[2])}}
        IN  /\ out["edges"].lines = IF N = 1 THEN {} ELSE Lines
            /\ out["edges"].finished =
                  {e \in UNION {Seen[i] : i \in 1 .. N - 1} \ Seen[N] :
                      Ends(e) = {} /\ Late(e, N)}

(* triplets: the ongoing ones are those of the view before, a triplet is   *)
(* FINISHED in the first view without it, and one that comes back is       *)
(* NEWREC when its last stretch began less than a window ago.              *)
TripletsHistory ==
    "triplets" \in ran =>
        LET Seen    == [i \in 1 .. N |-> TripletsSeen(hist[i], ChainAt(i))]
            Before  == IF N = 1 THEN {} ELSE Seen[N - 1]
            L(t)    == LastSeen(Seen, t)
            Began(t) == Min({b \in 1 .. L(t) : \A i \in b .. L(t) : t \in Seen[i]})
            Cat(t)  == IF L(t) # 0 /\ T(Began(t)) + WindowSize > Now THEN "NEWREC" ELSE "NEW"
        IN  out["triplets"] = [ongoing  |-> Before,
                               starts   |-> {<<t, Cat(t)>> : t \in Seen[N] \ Before},
                               finished |-> Before \ Seen[N]]

(* The comment in remove_stale_link of bvc_edges.c: "if last_seen is       *)
(* different from current time then declare it dead", so that an edge is   *)
(* FINISHED in the first view without it.                                  *)
EdgesEndAsCommented ==
    "edges" \in ran /\ N > 1 =>
        EdgesSeen(hist[N - 1], ChainAt(N - 1)) \ EdgesSeen(hist[N], ChainAt(N))
            \subseteq out["edges"].finished

(* The comment in insert_update_triplet of bvc_triplets.c: a triplet that  *)
(* comes back is NEWREC "if last end is within the current window".        *)
TripletsRecurAsCommented ==
    "triplets" \in ran =>
        LET Seen == [i \in 1 .. N |-> TripletsSeen(hist[i], ChainAt(i))]
        IN  \A x \in out["triplets"].starts :
               LET l == LastSeen(Seen, x[1])
               IN  (x[2] = "NEWREC") <=> (l # 0 /\ T(l + 1) + WindowSize > Now)

(* announcedpfxs: a file lists exactly the prefixes that some full-feed    *)
(* peer announced in a view of the window, however often they went away.   *)
AnnouncedInWindow ==
    ("announcedpfxs" \in ran /\ out["announcedpfxs"].due) =>
        out["announcedpfxs"].pfxs =
            {p \in Pfx : /\ Announceable(p)
                         /\ \E i \in 1 .. N : /\ T(i) >= Now - PfxWindow
                                              /\ FFPeers(hist[i], ChainAt(i), p) # {}}

(* pfxorigins: every prefix with an origin in this view or in the one      *)
(* before is reported with the origins of exactly these two views.         *)
OriginsOfTwoViews ==
    "pfxorigins" \in ran =>
        LET O(i, p) == IF i = 0 \/ p \in DefaultRoutes THEN {}
                       ELSE FFOrigins(hist[i], ChainAt(i), p)
        IN  out["pfxorigins"] =
              {<<p, O(N - 1, p), O(N, p), OriginStatus(O(N - 1, p), O(N, p))>> :
                 p \in {q \in Pfx : O(N - 1, q) \cup O(N, q) # {}}}

(* perasvisibility: for every AS that ever originated a prefix, in a view  *)
(* that was usable, the i-th number counts the prefixes of this view that  *)
(* at least i quarters of the full-feed AS numbers see with that origin.   *)
PerAsCounts ==
    ("perasvisibility" \in ran /\ \E ver \in Versions : ChainAt(N).usable[ver]) =>
        LET Of(i) == UNION {FFAsnOrigins(hist[i], ChainAt(i), p) :
                              p \in {q \in Pfx : Visible(hist[i], q)}}
            C == ChainAt(N)
        IN  out["perasvisibility"] =
              [a \in UNION {Of(i) : i \in 1 .. N} |->
                 [i \in Thresholds |->
                    {p \in Pfx : /\ Visible(hist[N], p)
                                 /\ a \in FFAsnOrigins(hist[N], C, p)
                                 /\ 4 * Cardinality(FFAsns(hist[N], C, p)) >= i * C.asns[Version(p)]}]]

(* pfx2as: a dump covers the views of its interval and no other: for each  *)
(* prefix and origin the peers that saw it, and the time they, full-feed   *)
(* peers and others saw it, counting each view once.                       *)
Pfx2asCounts ==
    ("pfx2as" \in ran /\ out["pfx2as"] # Nothing) =>
        LET dump == out["pfx2as"]
            gap  == Now - T(N - 1)
            I    == {i \in 1 .. N - 1 : T(i) >= dump.start}
            Of(i, p, o) == {q \in DOMAIN hist[i].rib[p] : Last(hist[i].rib[p][q]) = o}
            Full(i, p, o) == Of(i, p, o) \cap ChainAt(i).ff[Version(p)]
            Part(i, p, o) == Of(i, p, o) \ ChainAt(i).ff[Version(p)]
            Cnt(S) == Cardinality(S)
            Line(p, o) ==
              <<p, o, Cnt(UNION {Full(i, p, o) : i \in I}), Cnt(UNION {Part(i, p, o) : i \in I}),
                gap * Cnt({i \in I : Full(i, p, o) # {}}),
                gap * Cnt({i \in I : Part(i, p, o) # {}}),
                {<<q, gap * Cnt({i \in I : q \in Of(i, p, o)})>> :
                    q \in UNION {Of(i, p, o) : i \in I}}>>
            Origins(p) == UNION {{Last(hist[i].rib[p][q]) : q \in DOMAIN hist[i].rib[p]} : i \in I}
        IN  /\ dump.lines = UNION {{Line(p, o) : o \in Origins(p)} : p \in Pfx}
            /\ dump.duration = gap * Cnt(I)

(* subpfx: NEW and FINISHED are the difference between the sub-prefixes of *)
(* this view and those of the one before.                                  *)
SubpfxDifference ==
    "subpfx" \in ran =>
        LET F(i) == IF i = 0 THEN {} ELSE FindSubpfxs(hist[i], ChainAt(i))
        IN  out["subpfx"] = [new |-> F(N) \ F(N - 1), finished |-> F(N - 1) \ F(N)]

(* routedspace: after the first view, a prefix is newly routed only if no  *)
(* prefix routed within the window shares addresses with it; no two newly  *)
(* routed prefixes overlap; and newly routed space is always reported, by  *)
(* one of the prefixes that cover it or that it covers.                    *)
RoutedSpace ==
    ("routedspace" \in ran /\ N > 1) =>
        LET Old == {p \in Pfx \ DefaultRoutes :
                      \E i \in 1 .. N - 1 : p \in ActivePfx(hist[i]) /\ T(i) + RoutedWindow >= Now}
            Touches(p, q) == p = q \/ Overlaps(p, q)
            Fresh1 == {p \in ActivePfx(hist[N]) \ DefaultRoutes : \A q \in Old : ~Touches(p, q)}
            New == out["routedspace"].new
        IN  /\ New \subseteq Fresh1
            /\ \A p, q \in New : p # q => ~Overlaps(p, q)
            /\ \A p \in Fresh1 : \E q \in New : Touches(p, q)

(* pathchange: exactly the cells of this view that were in the view before *)
(* with another path.                                                      *)
PathChanges ==
    "pathchange" \in ran =>
        out["pathchange"] =
            {x \in Pfx \X Peers :
                /\ N > 1
                /\ x[2] \in DOMAIN hist[N].rib[x[1]] /\ x[2] \in DOMAIN hist[N - 1].rib[x[1]]
                /\ hist[N].rib[x[1]][x[2]] # hist[N - 1].rib[x[1]][x[2]]}

(* pergeovisibility: a location from an older database is used only for a  *)
(* prefix that was in an earlier view and not in the one the database was  *)
(* reloaded with.                                                          *)
StaleOnlyIfAbsent ==
    ("pergeovisibility" \in ran /\ phase = "running") =>
        \A p \in DOMAIN out["pergeovisibility"] :
            out["pergeovisibility"][p] # st["pergeovisibility"].db =>
                LET k == CHOOSE i \in 1 .. N : T(i) = st["pergeovisibility"].last
                IN  /\ p \notin ActivePfx(hist[k])
                    /\ \E i \in 1 .. k - 1 : p \in ActivePfx(hist[i])

(* The comment in bvc_pergeovisibility_process_view: when the database is  *)
(* reloaded, "clear our cache", so that every location comes from it.      *)
GeoCurrent ==
    ("pergeovisibility" \in ran /\ phase = "running") =>
        \A p \in DOMAIN out["pergeovisibility"] :
            out["pergeovisibility"][p] = st["pergeovisibility"].db

(* moas, edges and triplets: the categories they report follow from the    *)
(* views, whatever their maps and windows went through.                    *)
EventsFollowHistory == MoasHistory /\ EdgesHistory /\ TripletsHistory

(* The other consumers: their lists, counts and differences are those of   *)
(* the views they stand for.                                               *)
ReportsFollowHistory ==
    /\ AnnouncedInWindow /\ OriginsOfTwoViews /\ PerAsCounts /\ Pfx2asCounts
    /\ SubpfxDifference /\ RoutedSpace /\ PathChanges /\ StaleOnlyIfAbsent

(***************************************************************************)
(* The archive                                                             *)
(***************************************************************************)
(* The files this process wrote: times only grow, so do the names.         *)
Mine == {f \in DOMAIN disk.files : f >= FileTime(T(1), J.rot)}

ReadBack(f) == ReadAll(disk.files[f].items)

(* Reading the files of this process in the order of their names gives     *)
(* back every view it received, each once and unchanged, unless the disk   *)
(* refused a part of them.                                                 *)
ArchiveHoldsAll ==
    "archiver" \in ran /\ phase # "dead" /\ (\A f \in Mine : ~disk.files[f].broken) =>
        LET fs == SetToSortSeq(Mine, <)
        IN  /\ \A f \in Mine : ReadBack(f).at = "view"
            /\ FlattenSeq([i \in 1 .. Len(fs) |-> ReadBack(fs[i]).views]) = hist

(* Each view is in the file of its interval, and aligned files are named   *)
(* by the start of an interval.                                            *)
FilesCoverIntervals ==
    "archiver" \in ran /\ phase # "dead" /\ J.rot.interval > 0 =>
        \A f \in Mine :
            /\ J.rot.align => f % J.rot.interval = 0
            /\ \A v \in Range(ReadBack(f).views) : v.time \in f .. f + J.rot.interval - 1

(* Whatever a crash or a failing disk cut off, the views that reading a    *)
(* file returns are views that were received, unchanged, in order and      *)
(* without one missing in between.                                         *)
CutFilesReadBack ==
    \A f \in DOMAIN disk.files :
        LET views == ReadBack(f).views
        IN  \E i \in 0 .. Len(Received) :
               /\ i + Len(views) <= Len(Received)
               /\ views = SubSeq(Received, i + 1, i + Len(views))

(* The file "latest" names was closed; only a process started again in the *)
(* same interval may have opened it anew.  A process that runs has named   *)
(* the newest file it closed, unless the latest file could not be written; *)
(* each process that ended leaves at most one closed file newer than the   *)
(* one named, the file it was completing.                                  *)
LatestIsClosed ==
    LET newer == {f \in DOMAIN disk.files : disk.files[f].closed /\ f > disk.latest}
        ended == IF phase \in {"enabling", "running"} THEN life - 1 ELSE life
    IN  /\ disk.latest # NoFile =>
             /\ disk.files[disk.latest].closed \/ (life > 1 /\ disk.latest = FileTime(T(1), J.rot))
             /\ phase = "running" => \A f \in newer : hist = <<>> \/ f \notin Mine
             /\ Cardinality(newer) <= ended
        /\ (~J.faults /\ phase \in {"running", "done"} /\ hist # <<>>) => newer \cap Mine = {}

(* The usage text of the archiver: the file named is "the latest complete  *)
(* output file", one that reading goes through to its end.                 *)
LatestIsComplete ==
    disk.latest # NoFile /\ disk.files[disk.latest].closed => ReadBack(disk.latest).at = "view"

(* Through rotation, failures, crashes and restarts the archive is what    *)
(* its readers take it for.                                                *)
ArchiveIsWhole ==
    ArchiveHoldsAll /\ FilesCoverIntervals /\ CutFilesReadBack /\ LatestIsClosed

=============================================================================
