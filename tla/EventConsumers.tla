--------------------------- MODULE EventConsumers ---------------------------
(***************************************************************************)
(* The consumers that turn views into events with a history: moas,         *)
(* edges and triplets (bvc_moas.c, bvc_edges.c, bvc_triplets.c).           *)
(*                                                                         *)
(* Each keeps a map from what it observes to the times it was observed,    *)
(* and reports NEW, NEWREC (again, within a window) and FINISHED.  A       *)
(* process operator takes the consumer's state, the view and the chain     *)
(* state, and gives the new state, what is written for this view and       *)
(* whether process_view returns 0.                                         *)
(***************************************************************************)
EXTENDS ConsumerViews

CONSTANTS
    WindowSize,     \* the -w option of the three consumers, in seconds
    AsnDigits       \* the number of decimal digits of each AS number

NoEvents == <<>>

(***************************************************************************)
(* moas: a prefix and the set of its origin ASes.                          *)
(***************************************************************************)
MoasSeen(v, chain) ==
    {k \in {<<p, FFAsnOrigins(v, chain, p)>> : p \in ActivePfx(v) \ DefaultRoutes} :
        Cardinality(k[2]) > 1}

MoasCategory(s, k, lastValid) ==
    IF k \notin DOMAIN s THEN "NEW"
    ELSE IF s[k].start # 0 THEN "ONGOING"
    ELSE IF s[k].end < lastValid THEN "NEW" ELSE "NEWREC"

(* add_moas *)
AddMoas(s, k, cat, now) ==
    IF cat = "ONGOING" THEN [s[k] EXCEPT !.end = now] ELSE [start |-> now, end |-> now]

MoasEnded(m) == [m EXCEPT !.start = 0]

(* clean_moas runs after every MOAS of the view was added: what was last   *)
(* seen before the window is dropped without a word.                       *)
MoasProcess(s, v, chain) ==
    LET lastValid == v.time - WindowSize
        seen  == MoasSeen(v, chain)
        cat   == [k \in seen |-> MoasCategory(s, k, lastValid)]
        added == [k \in DOMAIN s \cup seen |->
                    IF k \in seen THEN AddMoas(s, k, cat[k], v.time) ELSE s[k]]
        kept  == {k \in DOMAIN added : added[k].end >= lastValid}
        ended == {k \in kept : added[k].end < v.time /\ added[k].start > 0}
    IN  [st  |-> [k \in kept |-> IF k \in ended THEN MoasEnded(added[k]) ELSE added[k]],
         out |-> {<<k, cat[k]>> : k \in seen} \cup {<<k, "FINISHED">> : k \in ended},
         ok  |-> ~Originless(v, chain, ActivePfx(v) \ DefaultRoutes)]

(***************************************************************************)
(* edges: two AS numbers next to each other on a path whose origin is a    *)
(* plain AS number.  A segment of another type breaks the path.            *)
(***************************************************************************)
EdgesOf(path) ==
    {e \in {{path[i], path[i + 1]} : i \in 1 .. Len(path) - 1} :
        e \cap SetSegs = {} /\ Cardinality(e) = 2}

PathsOfPlainOrigin(v, chain, p) ==
    {path \in {v.rib[p][q] : q \in FFPeers(v, chain, p)} :
        HasOrigin(path) /\ Last(path) \notin SetSegs}

PfxEdges(v, chain, p) == UNION {EdgesOf(path) : path \in PathsOfPlainOrigin(v, chain, p)}

EdgesSeen(v, chain) == UNION {PfxEdges(v, chain, p) : p \in ActivePfx(v) \ DefaultRoutes}

EdgeStarts(s, e) == e \notin DOMAIN s \/ ~s[e].ongoing

EdgeCategory(s, e, now) ==
    IF e \in DOMAIN s /\ s[e].end + WindowSize > now THEN "NEWREC" ELSE "NEW"

(* insert_update_edges *)
InsertUpdateEdge(s, e, now) ==
    [last    |-> now,
     start   |-> IF EdgeStarts(s, e) THEN now ELSE s[e].start,
     end     |-> IF e \in DOMAIN s THEN s[e].end ELSE 0,
     ongoing |-> TRUE]

\* Mutant: an edge last seen exactly a window ago is stale
StaleEdgeAtWindow(i, now) == i.ongoing /\ i.last + WindowSize <= now

StaleEdge(i, now) == i.ongoing /\ i.last + WindowSize < now

(* An edge that starts is written once for each prefix it is found in, and *)
(* not in the first view; FINISHED edges are written in any view.          *)
EdgesProcess(s, v, chain) ==
    LET pfxs  == ActivePfx(v) \ DefaultRoutes
        seen  == EdgesSeen(v, chain)
        upd   == [e \in DOMAIN s.edges \cup seen |->
                    IF e \in seen THEN InsertUpdateEdge(s.edges, e, v.time) ELSE s.edges[e]]
        ended == {e \in DOMAIN upd : StaleEdge(upd[e], v.time)}
        lines == {<<e, EdgeCategory(s.edges, e, v.time), p>> :
                    <<e, p>> \in {x \in seen \X pfxs : /\ x[1] \in PfxEdges(v, chain, x[2])
                                                      /\ EdgeStarts(s.edges, x[1])}}
    IN  [st  |-> [first |-> FALSE,
                  edges |-> [e \in DOMAIN upd |->
                                IF e \in ended THEN [upd[e] EXCEPT !.end = v.time, !.ongoing = FALSE]
                                               ELSE upd[e]]],
         out |-> [lines    |-> IF s.first THEN {} ELSE lines,
                  finished |-> ended],
         ok  |-> ~Originless(v, chain, pfxs)]

NoEdges == [first |-> TRUE, edges |-> <<>>]

(***************************************************************************)
(* triplets: three AS numbers in a row on a path.  The loop of             *)
(* process_view keeps the last two AS numbers; a repeated one is skipped,  *)
(* and a segment of another type resets the last one only, so the AS       *)
(* before it and the AS after it still make a triplet, with 0 between.     *)
(***************************************************************************)
TripletStep(acc, seg) ==
    IF seg \in SetSegs THEN [acc EXCEPT !.prev = 0]
    ELSE IF seg = acc.prev THEN acc
    ELSE [prev     |-> seg,
          prevprev |-> acc.prev,
          found    |-> IF acc.prevprev = 0 THEN acc.found
                       ELSE acc.found \cup {<<acc.prevprev, acc.prev, seg>>}]

TripletsOf(path) ==
    FoldLeft(TripletStep, [prev |-> 0, prevprev |-> 0, found |-> {}], path).found

TripletsSeen(v, chain) ==
    UNION {UNION {TripletsOf(v.rib[p][q]) : q \in FFPeers(v, chain, p)} : p \in ActivePfx(v)}

(* The triplet and its separators must fit the buffer of 25 characters.    *)
TripletFits(t) == AsnDigits[t[1]] + AsnDigits[t[2]] + AsnDigits[t[3]] + 3 < 24

TripletCategory(s, t, now) ==
    IF t \in DOMAIN s /\ s[t].start + WindowSize > now THEN "NEWREC" ELSE "NEW"

(* insert_update_triplet *)
InsertUpdateTriplet(s, t, now) ==
    [last    |-> now,
     start   |-> IF t \notin DOMAIN s \/ ~s[t].ongoing THEN now ELSE s[t].start,
     ongoing |-> TRUE]

(* The triplets ongoing from the views before are listed first.            *)
TripletsProcess(s, v, chain) ==
    LET seen   == TripletsSeen(v, chain)
        starts == {t \in seen : t \notin DOMAIN s \/ ~s[t].ongoing}
        upd    == [t \in DOMAIN s \cup seen |->
                     IF t \in seen THEN InsertUpdateTriplet(s, t, v.time) ELSE s[t]]
        ended  == {t \in DOMAIN upd : upd[t].ongoing /\ upd[t].last < v.time}
    IN  [st  |-> [t \in DOMAIN upd |-> [upd[t] EXCEPT !.ongoing = @ /\ t \notin ended]],
         out |-> [ongoing  |-> {t \in DOMAIN s : s[t].ongoing},
                  starts   |-> {<<t, TripletCategory(s, t, v.time)>> : t \in starts},
                  finished |-> ended],
         ok  |-> \A t \in seen : TripletFits(t)]

=============================================================================
