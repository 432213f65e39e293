----------------------------- MODULE ZmqExpired ----------------------------
(***************************************************************************)
(* ZmqServer with a history of the times whose views have expired.         *)
(***************************************************************************)
EXTENDS MCZmqServer

VARIABLE gone   \* times of the views that a timeout or the window removed

Forced(p) == p.trigger \in {"WDW_EXCEEDED", "TIMEOUT_EXPIRED"}

ExpiredInit == Init /\ gone = {}

ExpiredNext ==
    /\ Next
    /\ gone' = gone \cup {store'.pubs[k].time :
                            k \in {j \in DOMAIN store'.pubs :
                                     Forced(store'.pubs[j])}}

ExpiredSpec == ExpiredInit /\ [][ExpiredNext]_<<vars, gone>>

\* The comment on the triggers in completion_check: a view that a timeout or
\* the window removes "is passed to the dispatcher and never processed again".
NeverProcessedAgain ==
    [][\A k \in DOMAIN store'.pubs : store'.pubs[k].time \notin gone]_<<vars, gone>>
=============================================================================
