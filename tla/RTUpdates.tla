----------------------------- MODULE RTUpdates -----------------------------
(***************************************************************************)
(* RoutingTables with a history of the updates in each peer's session, to  *)
(* compare what a merge of a RIB leaves in the tables with what they said. *)
(***************************************************************************)
EXTENDS RoutingTables

VARIABLES
    upd,        \* the latest update of each pfx-peer in the current session
    since       \* the oldest record since a corrupted update hit the peer

uvars == <<rt, interval, clock, phase, end_needed, stream, upd, since>>

NoUpdate == [time |-> 0, ann |-> FALSE]

IsUpdate(rec) ==
    rec.status = "VALID" /\ rec.type = "UPDATE" /\ rec.elem.type = "PREFIX"

\* The session of a peer ends when the peer goes down
GoesDown(p) ==
    rt.peer[p].fsm = "ESTABLISHED" /\ rt'.peer[p].fsm # "ESTABLISHED"

Discarded(c, rec) == rec.time < rt.col[c].ref_start /\ rt.col[c].uc_dump # 0

\* A corrupted update of the peer's collector, from the peer's session
Hits(p, c, rec) ==
    /\ rec.status = "CORRUPTED" /\ rec.type = "UPDATE"
    /\ p \in rt.col[c].peers
    /\ rt.peer[p].ref \in 1..rec.time
    /\ ~Discarded(c, rec)

UpdAfter(c, rec) ==
    [x \in Pfxs |-> [p \in Peers |->
        CASE \/ rec.status # "CORRUPTED" /\ GoesDown(p)
             \/ Hits(p, c, rec) /\ upd[x][p].time <= rec.time -> NoUpdate
          [] /\ IsUpdate(rec) /\ rec.elem.pfx = x /\ rec.elem.peer = p
             /\ rec.time >= upd[x][p].time
             /\ ~Discarded(c, rec) ->
                [time |-> rec.time, ann |-> rec.elem.ann]
          [] OTHER -> upd[x][p]]]

SinceAfter(c, rec) ==
    [p \in Peers |->
        IF \/ Hits(p, c, rec)
           \/ rec.status = "VALID" /\ CollectorOf[p] = c /\ rec.time < since[p]
        THEN rec.time ELSE since[p]]

UInit ==
    /\ Init
    /\ upd = [x \in Pfxs |-> [p \in Peers |-> NoUpdate]]
    /\ since = [p \in Peers |-> 0]

UNext ==
    \/ \E c \in Collectors, t \in {s \in Times : Readable(s)} :
       \E rec \in Records(c, t) :
          /\ ProcessRecord(c, rec)
          /\ upd' = UpdAfter(c, rec)
          /\ since' = SinceAfter(c, rec)
    \/ /\ EndInterval \/ EndOfStream
       /\ upd' = [x \in Pfxs |-> [p \in Peers |->
                     IF GoesDown(p) THEN NoUpdate ELSE upd[x][p]]]
       /\ UNCHANGED since
    \/ StartInterval /\ UNCHANGED <<upd, since>>

USpec == UInit /\ [][UNext]_uvars

-----------------------------------------------------------------------------
(* Properties                                                              *)

\* The rule of RT_RIB_BACKLOG_TIME (routingtables.c): an update that came
\* after a peer's RIB began, or less than the backlog before, "is considered
\* the more consistent (and therefore it should remain in the routing table
\* after the end_of_rib process)".  After the merge the pfx-peer is active if
\* that update announced it and inactive if it withdrew it, whatever the RIB
\* said, and also if the peer's state was unknown until then.  Routes
\* dated ahead of the clock are left out: a row older than the first one of its
\* peer gets a 16-bit offset that wraps, and no update is newer than it.
BacklogRule ==
    [][phase = "in" /\ phase' # "in" =>
          \A x \in Pfxs, p \in Peers :
             /\ rt.col[CollectorOf[p]].eovrib /\ ~rt'.col[CollectorOf[p]].eovrib
             /\ rt.peer[p].uc_start # 0
             /\ upd[x][p].time > rt.peer[p].uc_start - Backlog
             /\ rt.pp[x][p].delta + rt.peer[p].uc_start <= clock
             /\ rt.pp[x][p].last <= clock
             => (rt'.view.pp[x][p] = "ACTIVE" <=> upd[x][p].ann)]_uvars

\* Records of different sources reach apply_prefix_update out of order ("the
\* update is old and it does not change the state"): a pfx-peer is never
\* active against a withdrawal of the same session unless something later than
\* that withdrawal made it so, be it an update or a RIB.
WithdrawalStands ==
    \A x \in Pfxs, p \in Peers :
        /\ rt.view.pp[x][p] = "ACTIVE"
        /\ upd[x][p].time # 0 /\ ~upd[x][p].ann
        => rt.pp[x][p].last > upd[x][p].time

\* "The peer goes down iff we receive a corrupted update"
\* (collector_process_corrupted_message), and with it everything that was known
\* up to then: after it no route is active on the word of an older update or
\* dump, also when the peer comes back or a dump that had begun is merged.
\* Records that come late may be older; a route is as new as the oldest of
\* those that came since.
NothingOutlivesCorruption ==
    \A x \in Pfxs, p \in Peers :
        rt.view.pp[x][p] = "ACTIVE" => rt.pp[x][p].last >= since[p]
=============================================================================
