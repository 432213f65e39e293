------------------------------ MODULE RTDumps ------------------------------
(***************************************************************************)
(* RoutingTables with a history of each collector's RIB dump, to compare   *)
(* what the tables hold under construction with what the dump contained.   *)
(***************************************************************************)
EXTENDS RoutingTables

VARIABLE dump   \* of each collector, since the START of its current dump:
                \*   pairs  the pfx-peers seen in it
                \*   ended  its END has been seen
                \*   hit    a corrupted record fell into it

dvars == <<rt, interval, clock, phase, end_needed, stream, dump>>

NoDump == [pairs |-> {}, ended |-> FALSE, hit |-> FALSE]

Accepted(c, rec) == ~(rec.time < rt.col[c].ref_start /\ rt.col[c].uc_dump # 0)

\* The record belongs to the collector's current dump, or starts one
OfDump(c, rec) ==
    /\ rec.status = "VALID" /\ rec.type = "RIB"
    /\ rec.pos = "START" \/ rec.dump = rt.col[c].uc_dump

HitsDump(c, rec) ==
    /\ rec.status = "CORRUPTED"
    /\ \E p \in rt.col[c].peers : rt.peer[p].uc_start \in 1..rec.time

After(d, c, rec) ==
    LET base == IF rec.pos = "START" THEN NoDump ELSE d
        seen == IF rec.elem = NoElem THEN {}
                ELSE {<<rec.elem.pfx, rec.elem.peer>>}
    IN CASE OfDump(c, rec) ->
              [base EXCEPT !.pairs = @ \cup seen, !.ended = rec.pos = "END"]
         [] HitsDump(c, rec) -> [d EXCEPT !.hit = TRUE]
         [] OTHER -> d

\* What the code itself gives up: the dump of a collector that has been merged,
\* the part of it on a peer that went down or was hit by a corrupted record
Kept(d, c) ==
    IF rt'.col[c].uc_dump = 0 THEN NoDump
    ELSE [d EXCEPT !.pairs = {e \in @ : rt'.peer[e[2]].uc_start # 0}]

DInit == Init /\ dump = [c \in Collectors |-> NoDump]

DNext ==
    \/ \E c \in Collectors, t \in {s \in Times : Readable(s)} :
       \E rec \in Records(c, t) :
          /\ ProcessRecord(c, rec)
          /\ dump' = [k \in Collectors |->
                         Kept(IF k = c /\ Accepted(c, rec)
                              THEN After(dump[k], c, rec)
                              ELSE dump[k], k)]
    \/ /\ EndInterval \/ StartInterval \/ EndOfStream
       /\ dump' = [k \in Collectors |-> Kept(dump[k], k)]

DSpec == DInit /\ [][DNext]_dvars

-----------------------------------------------------------------------------
(* Properties                                                              *)

\* A RIB never takes in what an earlier dump, abandoned when its successor
\* started, said: every pfx-peer marked UC_ANNOUNCED was seen in the
\* collector's current dump ("if there is already another under construction
\* process going on, then we have to reset the process", routingtables.c).
NoMixedRibs ==
    \A e \in ValidPairs(rt) :
        rt.pp[e[1]][e[2]].uc => e \in dump[CollectorOf[e[2]]].pairs

\* What routingtables_int.h says of RT_DEPRECATED_INFO_INTERVAL ("If an
\* information is inactive and not been seen in the last X hours, it
\* definetely means that it has not been seen by any RIB in the last X
\* hours, therefore, if inactive it can be removed from the view"): no
\* pfx-peer of a dump in progress is removed.
DumpIsKept ==
    \A c \in Collectors : \A e \in dump[c].pairs :
        e \in ValidPairs(rt) /\ rt.pp[e[1]][e[2]].uc

\* What collector_process_corrupted_message says of a dump that a corrupted
\* record falls into ("we reset the under construction process at all times",
\* "if an end of valid rib operation was scheduled for this collector now it
\* is not happening anymore"): what is left of that dump is not merged.
CorruptedDumpIsDropped ==
    \A c \in Collectors : rt.col[c].eovrib => ~dump[c].hit

\* What collector_process_valid_bgpinfo says of the merge ("if we just
\* processed the end of a rib file ... promote the current uc information to
\* active information"): it is only scheduled for a dump that has ended.
OnlyWholeDumps ==
    \A c \in Collectors : rt.col[c].eovrib => dump[c].ended
=============================================================================
