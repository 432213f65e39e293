--------------------------- MODULE RoutingTables ---------------------------
(***************************************************************************)
(* The routing tables of the BGPStream producer: libroutingtables, which   *)
(* turns the records of many collectors into one view, driven interval by  *)
(* interval by libbgpcorsaro.                                              *)
(*                                                                         *)
(* A RIB dump of a collector is built "under construction" (uc) beside the *)
(* tables in use.  Its last record only sets eovrib; the dump is merged    *)
(* into the tables, pfx-peer by pfx-peer and by timestamp, when the        *)
(* interval ends, or earlier when a peer goes down.                        *)
(*                                                                         *)
(* A record holds at most one elem: the elems of a record are handled one  *)
(* after the other, as those of successive records are.  AS paths, the     *)
(* end times of the RIBs, the wall clock and what only feeds the metrics   *)
(* (counters, collector state, publish_flag) are left out.                 *)
(***************************************************************************)
EXTENDS ViewOps, FiniteSetsExt

CONSTANTS
    Collectors,
    CollectorOf,    \* the collector of each peer: part of its signature
    DownStates,     \* the FSM states that are neither UNKNOWN nor ESTABLISHED
    Backlog,        \* RT_RIB_BACKLOG_TIME
    MaxInactive,    \* RT_MAX_INACTIVE_TIME
    Deprecated,     \* RT_DEPRECATED_INFO_INTERVAL
    Interval,       \* length of an interval
    FirstTime,      \* bound: no record is earlier
    LastTime,       \* bound: no record is later
    MaxLag,         \* bound: how far a record may be behind the latest one
    Streams         \* bound: the streams, each [first, kinds]: the time it
                    \* starts at (minimum_time) and the kinds of records in it

\* 60 s, one hour and one day in the code.  Times are seconds since 1970, so
\* that subtracting one of them never goes below zero.
ASSUME RTConstantsAssumption ==
    /\ {Backlog, MaxInactive, Deprecated, Interval, FirstTime, LastTime, MaxLag}
          \subseteq Nat
    /\ 0 < Backlog /\ 0 < MaxInactive /\ MaxInactive <= Deprecated
    /\ Deprecated < FirstTime /\ FirstTime <= LastTime /\ 0 < Interval
    /\ CollectorOf \in [Peers -> Collectors]
    /\ DownStates \cap {"UNKNOWN", "ESTABLISHED"} = {}
    /\ Streams \subseteq
          [first : FirstTime..LastTime,
           kinds : SUBSET {"RIB", "PREFIX", "STATE", "CORRUPTED", "EMPTY"}]

VARIABLES
    rt,             \* routingtables_t
    interval,       \* bgp_time_interval_start
    clock,          \* time of the latest record
    phase,          \* of the driver: before the first record, in an interval,
                    \* between two, or a record ahead, at the end
    end_needed,     \* interval_end_needed
    stream          \* the stream that is read

vars == <<rt, interval, clock, phase, end_needed, stream>>

Times == FirstTime..LastTime
FsmStates == {"UNKNOWN", "ESTABLISHED"} \cup DownStates

-----------------------------------------------------------------------------
(* routingtables_t: the view, the per-peer and per-pfx-peer information    *)
(* that the user pointers of the view lead to, and the collectors.  A user *)
(* pointer that is NULL, and one to what *_info_create returns, are not    *)
(* told apart.  A time of 0 is "not set".                                  *)

\* perpfx_perpeer_info_t; ann and uc are the two bits of pfx_status
NoInfo == [delta |-> 0, last |-> 0, ann |-> FALSE, uc |-> FALSE]

\* perpeer_info_create
NewPeer == [fsm |-> "UNKNOWN", ref |-> 0, uc_start |-> 0, last |-> 0]

\* get_collector_data
NewCollector == [peers |-> {}, last |-> 0, ref_start |-> 0, uc_dump |-> 0,
                 uc_start |-> 0, eovrib |-> FALSE]

\* routingtables_create
EmptyTables == [view |-> EmptyView,
                peer |-> [p \in Peers |-> NewPeer],
                pp   |-> [x \in Pfxs |-> [p \in Peers |-> NoInfo]],
                col  |-> [c \in Collectors |-> NewCollector]]

\* The values of bgp_time_uc_delta_ts
DeltaSize == 2^16

ValidPairs(r) == {e \in Pfxs \X Peers : r.view.pp[e[1]][e[2]] \in Valid}

\* The view's walks reach every prefix, in whichever order (theorem
\* WalksAreComplete of BGPViewProofs).
AnyOrder == CHOOSE ord \in Orders : TRUE

SetView(r, v) == [r EXCEPT !.view = v]

\* The information of the pfx-peers S is mapped by f
MapPairs(r, S, f(_)) ==
    [r EXCEPT !.pp = [x \in Pfxs |-> [p \in Peers |->
        IF <<x, p>> \in S THEN f(r.pp[x][p]) ELSE r.pp[x][p]]]]

\* The information of the peers Q is mapped by f
MapPeers(r, Q, f(_)) ==
    [r EXCEPT !.peer = [p \in Peers |->
        IF p \in Q THEN f(r.peer[p]) ELSE r.peer[p]]]

ClearUc(i) == [i EXCEPT !.delta = 0, !.uc = FALSE]
ClearUcStart(i) == [i EXCEPT !.uc_start = 0]

\* Mutant: the peer itself is not activated
EstablishFsmOnly(r, p, t) ==
    LET up(i) == [i EXCEPT !.fsm = "ESTABLISHED", !.ref = t]
    IN MapPeers(r, {p}, up)

\* The peer is up since t
Establish(r, p, t) ==
    LET up(i) == [i EXCEPT !.fsm = "ESTABLISHED", !.ref = t]
    IN SetView(MapPeers(r, {p}, up), ActivatePeer(r.view, p))

-----------------------------------------------------------------------------
(* RIBs under construction                                                 *)

\* Mutant: the pfx-peers keep what the abandoned dump said of them
StopUcProcessPeersOnly(r, c) ==
    [MapPeers(r, r.col[c].peers, ClearUcStart) EXCEPT
        !.col[c].uc_dump = 0, !.col[c].uc_start = 0]

\* stop_uc_process
StopUcProcess(r, c) ==
    LET Q == r.col[c].peers
        S == {e \in ValidPairs(r) : e[2] \in Q}
    IN [MapPeers(MapPairs(r, S, ClearUc), Q, ClearUcStart) EXCEPT
           !.col[c].uc_dump = 0, !.col[c].uc_start = 0]

\* reset_peerpfxdata
ResetPeerPfxData(r, p, reset_uc) ==
    LET S == {e \in ValidPairs(r) : e[2] = p}
        X == {x \in Pfxs : r.view.pp[x][p] = "ACTIVE"}
        reset(i) == IF reset_uc THEN NoInfo
                    ELSE [i EXCEPT !.ann = FALSE, !.last = 0]
    IN SetView(MapPairs(r, S, reset),
               IF X = {} THEN r.view ELSE DeactivatePairs(r.view, X, {p}))

\* Mutant: the pfx-peers of the peer keep their part of the dump
TakeDownKeepsUc(r, p, reset_uc) ==
    LET s == ResetPeerPfxData(r, p, FALSE)
    IN SetView(s, DeactivatePeer(s.view, p, AnyOrder))

\* The peer goes down: reset_peerpfxdata and bgpview_iter_deactivate_peer
TakeDown(r, p, reset_uc) ==
    LET s == ResetPeerPfxData(r, p, reset_uc)
    IN SetView(s, DeactivatePeer(s.view, p, AnyOrder))

\* Mutant: updates that may still be queued when the dump begins are not spared
RibIsNewerNoBacklog(r, x, p) ==
    r.pp[x][p].delta + r.peer[p].uc_start > r.pp[x][p].last

\* The RIB knows more of a pfx-peer than the updates do: it is later than the
\* last one, and that one came well before the dump began.
RibIsNewer(r, x, p) ==
    LET i == r.pp[x][p]
        start == r.peer[p].uc_start
    IN i.delta + start > i.last /\ ~(i.last > start - Backlog)

\* The pfx-peer is in use, and its peer is up since the dump
BringUp(r, x, p) ==
    LET u == Establish(r, p, r.peer[p].uc_start)
    IN SetView(u, PfxActivatePeer(u.view, x, p))

\* The pfx-peer is not in the dump
Drop(r, x, p) ==
    SetView(MapPairs(r, {<<x, p>>}, LAMBDA i : NoInfo),
            PfxDeactivatePeer(r.view, x, p))

\* One pfx-peer of a peer in the dump: the RIB's word is taken, or that of the
\* updates, and the uc fields are reset.
MergePair(r, x, p) ==
    LET i == r.pp[x][p]
        promote(j) == [ClearUc(j) EXCEPT
                          !.ann = TRUE, !.last = j.delta + r.peer[p].uc_start]
    IN CASE RibIsNewer(r, x, p) /\ i.uc ->
              BringUp(MapPairs(r, {<<x, p>>}, promote), x, p)
         [] RibIsNewer(r, x, p) /\ ~i.uc ->
              Drop(r, x, p)
         [] ~RibIsNewer(r, x, p) /\ i.ann ->
              BringUp(MapPairs(r, {<<x, p>>}, ClearUc), x, p)
         [] OTHER -> MapPairs(r, {<<x, p>>}, ClearUc)

\* A pfx-peer that is inactive and old is removed, whoever's it is.  Its
\* information stays behind until the prefix is collected.
RemoveDeprecated(r, x, p) ==
    IF /\ r.view.pp[x][p] = "INACTIVE"
       /\ r.pp[x][p].last < interval - Deprecated
    THEN SetView(r, PfxRemovePeer(r.view, x, p))
    ELSE r

\* A peer that is not in the dump and has been silent goes down; the others
\* are done with the dump.
MergePeer(r, p) ==
    LET i == r.peer[p]
        unknown(j) == [j EXCEPT !.fsm = "UNKNOWN"]
    IN IF i.uc_start = 0 /\ i.last < r.col[CollectorOf[p]].last - MaxInactive
       THEN IF i.fsm = "ESTABLISHED"
            THEN TakeDown(MapPeers(r, {p}, unknown), p, FALSE)
            ELSE r
       ELSE MapPeers(r, {p}, ClearUcStart)

\* bgpview_gc frees the information of the pfx-peers it deletes
Collect(r) ==
    LET v == Gc(r.view)
    IN MapPairs(SetView(r, v), {e \in Pfxs \X Peers : v.pfx[e[1]] = "ABSENT"},
                LAMBDA i : NoInfo)

\* apply_end_of_valid_rib_operations
ApplyEndOfValidRib(r) ==
    LET flagged == {c \in Collectors : r.col[c].eovrib}
        eorib == UNION {r.col[c].peers : c \in flagged}
        pair(e, s) == RemoveDeprecated(
                         IF e[2] \in eorib /\ s.peer[e[2]].uc_start # 0
                         THEN MergePair(s, e[1], e[2])
                         ELSE s, e[1], e[2])
        peer(p, s) == MergePeer(s, p)
        merged == IF eorib = {} THEN r
                  ELSE FoldSet(peer, FoldSet(pair, r, ValidPairs(r)), eorib)
        done == [c \in Collectors |->
                    IF c \in flagged
                    THEN [r.col[c] EXCEPT !.eovrib = FALSE,
                                          !.ref_start = r.col[c].uc_start,
                                          !.uc_dump = 0, !.uc_start = 0]
                    ELSE r.col[c]]
    IN Collect([merged EXCEPT !.col = done])

-----------------------------------------------------------------------------
(* Elems                                                                   *)

\* The update is taken: prior is what was known of the pfx-peer before
TakeUpdate(r, p, x, ann, ts, prior) ==
    LET set(i) == [prior EXCEPT !.last = ts, !.ann = ann]
        s == SetView(MapPairs(r, {<<x, p>>}, set), AddPfxPeer(r.view, x, p))
        u == Establish(s, p, ts)
        status(w) == SetView(w, IF ann THEN PfxActivatePeer(w.view, x, p)
                                ELSE PfxDeactivatePeer(w.view, x, p))
    IN CASE s.view.peer[p] = "ACTIVE" -> status(s)
         [] s.view.peer[p] # "ACTIVE" /\ s.peer[p].fsm = "UNKNOWN" -> s
         [] OTHER -> IF ann THEN status(u) ELSE u

\* Mutant: the age of the update is not looked at
ApplyPrefixUpdateAnyAge(r, p, x, ann, ts) ==
    TakeUpdate(r, p, x, ann, ts,
               IF r.view.pp[x][p] \in Valid THEN r.pp[x][p] ELSE NoInfo)

\* apply_prefix_update.  Updates of a peer whose state is unknown are stored
\* in case a RIB confirms it; one of a peer that went down brings it up.
ApplyPrefixUpdate(r, p, x, ann, ts) ==
    CASE r.view.pp[x][p] \notin Valid -> TakeUpdate(r, p, x, ann, ts, NoInfo)
      [] r.view.pp[x][p] \in Valid /\ ts < r.pp[x][p].last -> r
      [] OTHER -> TakeUpdate(r, p, x, ann, ts, r.pp[x][p])

\* apply_state_update
ApplyStateUpdate(r, c, p, new_state, ts) ==
    LET i == r.peer[p]
        reset_uc == ts >= i.uc_start
        early == IF reset_uc /\ r.col[c].eovrib
                 THEN ApplyEndOfValidRib(r) ELSE r
        set(j) == [j EXCEPT !.fsm = new_state, !.ref = ts]
        down(j) == IF reset_uc THEN ClearUcStart(set(j)) ELSE set(j)
    IN CASE i.fsm = new_state -> r
         [] i.fsm = "ESTABLISHED" ->
              TakeDown(MapPeers(early, {p}, down), p, reset_uc)
         [] new_state = "ESTABLISHED" -> Establish(r, p, ts)
         [] OTHER -> MapPeers(r, {p}, set)

\* bgp_time_uc_delta_ts is 16 bits wide
Offset(ts, start) == (ts - start) % DeltaSize

\* apply_rib_message.  The information of a pfx-peer that was removed and is
\* added again is found where it was left.
ApplyRibMessage(r, p, x, ts) ==
    LET start == IF r.peer[p].uc_start = 0 THEN ts ELSE r.peer[p].uc_start
        started(i) == [i EXCEPT !.uc_start = start]
        seen(i) == [i EXCEPT !.delta = Offset(ts, start), !.uc = TRUE]
    IN SetView(MapPairs(MapPeers(r, {p}, started), {<<x, p>>}, seen),
               AddPfxPeer(r.view, x, p))

-----------------------------------------------------------------------------
(* Records                                                                 *)

NoElem == [type |-> "NONE"]

PeersOf(c) == {p \in Peers : CollectorOf[p] = c}

RibElems(c) ==
    [type : {"RIB"}, peer : PeersOf(c), pfx : Pfxs] \cup {NoElem}

UpdateElems(c) ==
    [type : {"PREFIX"}, peer : PeersOf(c), pfx : Pfxs, ann : BOOLEAN]
    \cup
    [type : {"STATE"}, peer : PeersOf(c),
     new_state : {"ESTABLISHED"} \cup DownStates]

\* bgpstream_record_t: the first record of a dump bears the dump's time.  Of a
\* dump that is not being built only the time of the record is used: a MIDDLE
\* record of a dump from before the stream stands for all of them.
Records(c, t) ==
    [status : {"VALID"}, type : {"RIB"} \cap stream.kinds, time : {t},
     pos : {"START"}, dump : {t}, elem : RibElems(c)]
    \cup
    [status : {"VALID"}, type : {"RIB"} \cap stream.kinds, time : {t},
     pos : {"MIDDLE", "END"}, dump : {rt.col[c].uc_dump} \cap FirstTime..t,
     elem : RibElems(c)]
    \cup
    [status : {"VALID"}, type : {"RIB"} \cap stream.kinds, time : {t},
     pos : {"MIDDLE"}, dump : {FirstTime - 1}, elem : {NoElem}]
    \cup
    [status : {"VALID"}, type : {"UPDATE"}, time : {t},
     elem : {e \in UpdateElems(c) : e.type \in stream.kinds}]
    \cup
    [status : {"CORRUPTED"} \cap stream.kinds, type : {"RIB", "UPDATE"}, time : {t}]
    \cup
    [status : {"EMPTY"} \cap stream.kinds, time : {t}]

\* The elem of a record, after its peer has been added to the view and to the
\* collector
ProcessElem(r, c, rec) ==
    LET p == rec.elem.peer
        heard(i) == [i EXCEPT !.last = rec.time]
        s == [MapPeers(SetView(r, AddPeer(r.view, p)), {p}, heard) EXCEPT
                 !.col[c].peers = @ \cup {p}]
    IN CASE rec.elem.type = "NONE" -> r
         [] rec.elem.type = "RIB" ->
              ApplyRibMessage(s, p, rec.elem.pfx, rec.time)
         [] rec.elem.type = "PREFIX" ->
              ApplyPrefixUpdate(s, p, rec.elem.pfx, rec.elem.ann, rec.time)
         [] rec.elem.type = "STATE" ->
              ApplyStateUpdate(s, c, p, rec.elem.new_state, rec.time)

\* collector_process_valid_bgpinfo
ProcessValid(r, c, rec) ==
    LET stopped == IF r.col[c].uc_dump # 0 THEN StopUcProcess(r, c) ELSE r
        s == IF rec.type = "RIB" /\ rec.pos = "START"
             THEN [stopped EXCEPT !.col[c].uc_dump = rec.dump,
                                  !.col[c].uc_start = rec.time]
             ELSE r
        u == ProcessElem(s, c, rec)
    IN CASE rec.type = "UPDATE" -> u
         [] rec.type = "RIB" /\ rec.dump # s.col[c].uc_dump -> s
         [] OTHER -> IF rec.pos = "END" THEN [u EXCEPT !.col[c].eovrib = TRUE]
                     ELSE u

\* Mutant: the pfx-peer is inactive but keeps what the updates said
ForgetNothing(i) == i

\* The active information of a pfx-peer is reset
Forget(i) == [i EXCEPT !.last = 0, !.ann = FALSE]

\* The view without the pfx-peers and the peers that a corrupted update hits
Distrust(v, lost, hit) ==
    LET off(e, w) == PfxDeactivatePeer(w, e[1], e[2])
        down(p, w) == DeactivatePeer(w, p, AnyOrder)
    IN FoldSet(down, FoldSet(off, v, lost), hit)

\* collector_process_corrupted_message
ProcessCorrupted(r, c, rec) ==
    LET hit == {p \in r.col[c].peers : /\ rec.type = "UPDATE"
                                       /\ r.peer[p].ref # 0
                                       /\ rec.time >= r.peer[p].ref}
        uc_hit == {p \in r.col[c].peers : /\ r.peer[p].uc_start # 0
                                          /\ rec.time >= r.peer[p].uc_start}
        lost == {e \in ValidPairs(r) :
                    e[2] \in hit /\ r.pp[e[1]][e[2]].last \in 1..rec.time}
        uc_lost == {e \in ValidPairs(r) : e[2] \in uc_hit}
        unknown(i) == [i EXCEPT !.fsm = "UNKNOWN", !.ref = 0]
        s == MapPairs(MapPairs(r, lost, Forget), uc_lost, ClearUc)
        u == MapPeers(MapPeers(s, hit, unknown), uc_hit, ClearUcStart)
    IN [u EXCEPT !.view = Distrust(r.view, lost, hit),
                 !.col[c].eovrib = @ /\ uc_hit = {}]

\* The switch of routingtables_process_record.  An empty or filtered source
\* only moves the collector's time, backwards.
ProcessByStatus(r, c, rec) ==
    CASE rec.status = "VALID" -> ProcessValid(r, c, rec)
      [] rec.status = "CORRUPTED" -> ProcessCorrupted(r, c, rec)
      [] rec.status = "EMPTY" ->
           [r EXCEPT !.col[c].last = IF rec.time < @ THEN rec.time ELSE @]

\* routingtables_process_record
RoutingtablesProcessRecord(r, c, rec) ==
    LET s == ProcessByStatus(r, c, rec)
    IN IF rec.time < r.col[c].ref_start /\ r.col[c].uc_dump # 0
       THEN r
       ELSE [s EXCEPT !.col[c].last = IF rec.time > @ THEN rec.time ELSE @]

-----------------------------------------------------------------------------
(* The driver, bgpcorsaro_process_interval, which reads one record ahead:  *)
(* an interval ends when the record read lies past it, and that record is  *)
(* the first one of a later interval.                                      *)

\* With align_intervals: the first record decides where the intervals begin
Init ==
    /\ rt = EmptyTables
    /\ stream \in Streams
    /\ interval = (stream.first \div Interval) * Interval
    /\ clock = stream.first
    /\ phase = "first"
    /\ end_needed = FALSE

\* The record may be of the current interval or, once that has begun, earlier
Readable(t) ==
    /\ stream.first <= t /\ t < interval + Interval
    /\ t >= IF phase = "in" THEN clock - MaxLag ELSE clock

\* bgpcorsaro_start_record sets interval_end_needed when a record is read: for
\* the record read ahead that was before the interval ended.
ProcessRecord(c, rec) ==
    /\ phase \in {"first", "ahead", "in"}
    /\ Readable(rec.time)
    /\ rt' = RoutingtablesProcessRecord(rt, c, rec)
    /\ clock' = IF rec.time > clock THEN rec.time ELSE clock
    /\ phase' = "in"
    /\ end_needed' = (phase # "ahead")
    /\ UNCHANGED <<interval, stream>>

\* The record read is past the interval: the interval ends, and the view is
\* the caller's until it asks for the next one
EndInterval ==
    /\ phase \in {"ahead", "in"}
    /\ interval + Interval <= LastTime
    /\ rt' = ApplyEndOfValidRib(rt)
    /\ clock' = interval + Interval
    /\ phase' = "between"
    /\ end_needed' = FALSE
    /\ UNCHANGED <<interval, stream>>

StartInterval ==
    /\ phase = "between"
    /\ interval' = interval + Interval
    /\ phase' = "ahead"
    /\ UNCHANGED <<rt, clock, end_needed, stream>>

\* Mutant: the last interval is not ended
EndOfStreamUnfinished ==
    /\ phase = "in"
    /\ phase' = "eof" /\ end_needed' = FALSE
    /\ UNCHANGED <<rt, interval, clock, stream>>

\* The stream ends, and with it the last interval if interval_end_needed says
\* so.  bgpcorsaro_finalize_output asks the same flag.
EndOfStream ==
    /\ phase = "in"
    /\ rt' = IF end_needed THEN ApplyEndOfValidRib(rt) ELSE rt
    /\ phase' = "eof" /\ end_needed' = FALSE
    /\ UNCHANGED <<interval, clock, stream>>

Next ==
    \/ \E c \in Collectors, t \in {s \in Times : Readable(s)} :
          \E rec \in Records(c, t) : ProcessRecord(c, rec)
    \/ EndInterval
    \/ StartInterval
    \/ EndOfStream

Spec == Init /\ [][Next]_vars

-----------------------------------------------------------------------------
(* Properties                                                              *)

V == INSTANCE BGPView WITH view <- rt.view

\* Every field has its type; the offset into a dump fits its 16 bits.
TypeOK ==
    /\ DOMAIN rt = DOMAIN EmptyTables
    /\ rt.view \in View
    /\ rt.peer \in [Peers -> [fsm : FsmStates, ref : Nat, uc_start : Nat,
                              last : Nat]]
    /\ rt.pp \in [Pfxs -> [Peers -> [delta : 0..(DeltaSize - 1), last : Nat,
                                     ann : BOOLEAN, uc : BOOLEAN]]]
    /\ rt.col \in [Collectors -> [peers : SUBSET Peers, last : Nat,
                                  ref_start : Nat, uc_dump : Nat,
                                  uc_start : Nat, eovrib : BOOLEAN]]
    /\ interval \in Nat
    /\ clock \in Times
    /\ phase \in {"first", "in", "between", "ahead", "eof"}
    /\ end_needed \in BOOLEAN
    /\ stream \in Streams

\* Whatever the records, the handlers of routingtables.c use the view as
\* bgpview.h demands: its counters stay exact, no pfx-peer is active under an
\* inactive peer (the assert of bgpview_iter_pfx_activate_peer and of
\* apply_prefix_update), and every walk over it is complete.
ViewConsistent == V!ViewInv

\* The asserts at the end of apply_state_update, of every state and not only
\* after a state message: the FSM state of a peer is ESTABLISHED exactly while
\* the view has the peer active, through merges, corrupted records and peers
\* that fall silent.
FsmMatchesPeer ==
    \A p \in Peers :
        rt.peer[p].fsm = "ESTABLISHED" <=> rt.view.peer[p] = "ACTIVE"

\* The two places that say a route is in use agree: a pfx-peer that the view
\* shows as active has the ANNOUNCED bit and the time it was announced at.
\* Without them the next merge would take it for one nobody announced.
ActiveIsAnnounced ==
    \A x \in Pfxs, p \in Peers :
        rt.view.pp[x][p] = "ACTIVE" => rt.pp[x][p].ann /\ rt.pp[x][p].last # 0

\* What a RIB says of a pfx-peer is held only while its peer is in that RIB,
\* and a peer is in a RIB only while its collector is building one.  A merge
\* skips the pfx-peers of a peer without uc_start, so what is left behind
\* there would surface in the merge of a later dump.
UcIsScoped ==
    /\ \A e \in ValidPairs(rt) :
          rt.pp[e[1]][e[2]].uc \/ rt.pp[e[1]][e[2]].delta # 0
             => rt.peer[e[2]].uc_start # 0
    /\ \A p \in Peers :
          rt.peer[p].uc_start # 0 => rt.col[CollectorOf[p]].uc_dump # 0

\* The tables, the view they own and the RIBs in construction agree, through
\* every handler of routingtables.c.
TablesAgree ==
    /\ TypeOK /\ ViewConsistent
    /\ FsmMatchesPeer /\ ActiveIsAnnounced /\ UcIsScoped

\* A merge that was scheduled when the last record of a dump came in is carried
\* out or called off before the view is handed out.  None is pending in the view
\* that bgpcorsaro_process_interval returns, and when the stream has ended only
\* that of a dump from an earlier interval, of which nothing but the last record
\* was still to come: that record was read ahead, no other one came after it, and
\* interval_end_needed had been cleared in between.
NoMergeForgotten ==
    \A c \in Collectors :
        rt.col[c].eovrib /\ phase \in {"between", "eof"} =>
            phase = "eof" /\ rt.col[c].uc_start < interval

\* bgpcorsaro_finalize_output "Write[s] the final interval" (bgpcorsaro.h): when
\* the stream has ended, no merge is left undone.
FinalIntervalIsWritten ==
    phase = "eof" => \A c \in Collectors : ~rt.col[c].eovrib

\* What routingtables_process_record says ("if a record refer to a time prior
\* to the current reference time, then we discard it, unless we are in the
\* process of building a new rib"): when no RIB is being built, a record older
\* than the reference RIB changes nothing.
OldRecordsDiscarded ==
    [][\A c \in Collectors, t \in Times : \A rec \in Records(c, t) :
          /\ ProcessRecord(c, rec)
          /\ t < rt.col[c].ref_start /\ rt.col[c].uc_dump = 0
          => rt' = rt]_vars

\* What apply_state_update says ("check whether the state message affects the
\* uc process ... anticipate it so that we can deal correctly with a state
\* change"): a RIB does not bring up a peer that went down after the RIB was
\* dumped.
DownPeerStaysDown ==
    [][phase = "in" /\ phase' # "in" =>
          \A p \in Peers :
             /\ rt.peer[p].fsm \in DownStates
             /\ rt'.peer[p].fsm = "ESTABLISHED"
             => rt.peer[p].uc_start >= rt.peer[p].ref]_vars
=============================================================================
