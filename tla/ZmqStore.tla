------------------------------ MODULE ZmqStore -----------------------------
(***************************************************************************)
(* lib/io/zmq/bgpview_io_zmq_store.c: the circular window of views that    *)
(* the server fills with the tables of its producers, as operators from a  *)
(* store to a store.                                                       *)
(*                                                                         *)
(* A table is <<client, time>>; the contents of a view are the tables that *)
(* were merged into it since it was last cleared.  The wall clock only     *)
(* enters through the age of a view (now - time_created), which stops      *)
(* counting once it has passed the timeout.  What only feeds the metrics   *)
(* (reuse_cnt, pub_cnt, dis_status.sent) is left out; a publication is     *)
(* recorded in pubs, which the caller empties.                             *)
(***************************************************************************)
EXTENDS Integers, SequencesExt, FiniteSetsExt

CONSTANTS
    Clients,    \* names of clients
    WdwLen,     \* number of views in the window (sviews_cnt)
    ItemTime,   \* WDW_ITEM_TIME
    Timeout     \* BGPVIEW_IO_ZMQ_STORE_BGPVIEW_TIMEOUT, in ticks

ASSUME StoreAssumption ==
    /\ WdwLen \in Nat \ {0}
    /\ ItemTime \in Nat \ {0}
    /\ Timeout \in Nat

Slots == 0 .. WdwLen - 1
WdwDuration == WdwLen * ItemTime

States == {"UNUSED", "UNKNOWN", "PARTIAL", "FULL"}
\* The states a view is published in; the entries of dis_status that are read
Sendable == {"PARTIAL", "FULL"}

-----------------------------------------------------------------------------
(* One view of the window                                                  *)

\* store_view_create
NewView ==
    [state |-> "UNUSED", time |-> 0, age |-> 0, reuse_remaining |-> WdwLen - 1,
     modified |-> [s \in Sendable |-> FALSE], done |-> {}, tables |-> {}]

\* Mutant: the list of clients that are done survives a soft clear
ClearedKeepDone(v) ==
    IF v.reuse_remaining = 0 THEN NewView
    ELSE [NewView EXCEPT !.reuse_remaining = v.reuse_remaining - 1,
                         !.done = v.done]

\* store_view_clear: reset in place, or destroyed and created anew when it has
\* been reused often enough.
Cleared(v) ==
    IF v.reuse_remaining = 0 THEN NewView
    ELSE [NewView EXCEPT !.reuse_remaining = v.reuse_remaining - 1]

-----------------------------------------------------------------------------
(* Completion                                                              *)

\* bgpview_io_zmq_store_create; hard clears are staggered
EmptyStore ==
    [sviews     |-> [i \in Slots |->
                        [NewView EXCEPT !.reuse_remaining = WdwLen - 1 + i]],
     first_idx  |-> 0,
     first_time |-> 0,
     active     |-> {},         \* clients that are connected
     producers  |-> {},         \* those with BGPVIEW_PRODUCER_INTENT_PREFIX
     pubs       |-> <<>>]

\* store_view_completion_check
CompletionState(st, v) ==
    IF st.producers \subseteq v.done THEN "FULL" ELSE "PARTIAL"

\* dispatcher_run and bgpview_io_zmq_server_publish_view: publish the view
\* unless it was published in this state and has not changed since.
DispatcherRun(st, i, trigger) ==
    LET v == st.sviews[i] IN
    IF v.state \notin Sendable \/ ~v.modified[v.state] THEN st
    ELSE [st EXCEPT !.sviews[i].modified[v.state] = FALSE,
                    !.pubs = Append(@, [time |-> v.time, state |-> v.state,
                                        trigger |-> trigger,
                                        tables |-> v.tables,
                                        producers |-> st.producers])]

\* store_view_remove: the window slides if its oldest view goes
StoreViewRemove(st, i) ==
    IF st.sviews[i].time = st.first_time
    THEN [st EXCEPT !.first_time = @ + ItemTime,
                    !.first_idx = (@ + 1) % WdwLen,
                    !.sviews[i] = Cleared(@)]
    ELSE [st EXCEPT !.sviews[i] = Cleared(@)]

\* Mutant: an expired view is removed but not passed to the dispatcher
CompletionCheckSilent(st, i, trigger) ==
    IF trigger \in {"WDW_EXCEEDED", "TIMEOUT_EXPIRED"}
    THEN StoreViewRemove(st, i)
    ELSE DispatcherRun(
            [st EXCEPT !.sviews[i].state = CompletionState(st, st.sviews[i])],
            i, trigger)

\* completion_check: a view that has to go is published whatever is missing
CompletionCheck(st, i, trigger) ==
    LET forced == trigger \in {"WDW_EXCEEDED", "TIMEOUT_EXPIRED"}
        state == IF forced THEN "FULL" ELSE CompletionState(st, st.sviews[i])
        sent == DispatcherRun([st EXCEPT !.sviews[i].state = state], i, trigger)
    IN IF forced THEN StoreViewRemove(sent, i) ELSE sent

-----------------------------------------------------------------------------
(* Finding the view of a time                                              *)

\* The slot of a time inside the window, also VIEW_GET_SVIEW
SlotOf(st, t) == (st.first_idx + (t - st.first_time) \div ItemTime) % WdwLen

\* The special case of a new time that clears the whole window
JumpTo(st, min) == [st EXCEPT !.first_time = Max({@, min})]

\* The loop of store_view_get that makes room for new_time: the head moves
\* over the slots that fall out of the window and expires their views.  If
\* all of them fall out, the head is moved on to where it has to be.
Slide(st, new_time) ==
    LET min == new_time - WdwDuration + ItemTime
        passed == Min({WdwLen, (min - st.first_time) \div ItemTime})
        HeadAt(s, i) ==
            [s EXCEPT !.first_idx = (i + st.first_idx) % WdwLen,
                      !.first_time = i * ItemTime + st.first_time]
        Pass(s, i) ==
            LET head == HeadAt(s, i) IN
            IF head.sviews[head.first_idx].state = "UNUSED" THEN head
            ELSE CompletionCheck(head, head.first_idx, "WDW_EXCEEDED")
        slid == FoldLeft(Pass, st, [k \in 1 .. passed |-> k - 1])
    IN IF passed < WdwLen THEN HeadAt(slid, passed)
       ELSE JumpTo(slid, min)

\* store_view_get for a time that the window has not passed
StoreViewGet(st, new_time) ==
    LET room == IF new_time < st.first_time + WdwDuration THEN st
                ELSE Slide(st, new_time)
        i == SlotOf(room, new_time)
    IN [room EXCEPT !.sviews[i].state = "UNKNOWN",
                    !.sviews[i].time = new_time]

-----------------------------------------------------------------------------
(* What the server calls                                                   *)

\* bgpview_io_zmq_store_client_connect
ClientConnect(st, c, producer) ==
    [st EXCEPT !.active = @ \cup {c},
               !.producers = IF producer THEN @ \cup {c} ELSE @ \ {c}]

\* Mutant: a disconnect does not complete the views that wait for the client
ClientDisconnectSilent(st, c) ==
    [st EXCEPT !.active = @ \ {c}, !.producers = @ \ {c}]

\* bgpview_io_zmq_store_client_disconnect: all the used views are checked
ClientDisconnect(st, c) ==
    LET Check(s, i) == IF s.sviews[i].state = "UNUSED" THEN s
                       ELSE CompletionCheck(s, i, "CLIENT_DISCONNECT")
    IN FoldLeft(Check, [st EXCEPT !.active = @ \ {c}, !.producers = @ \ {c}],
                [k \in 1 .. WdwLen |-> k - 1])

\* handle_recv_view with bgpview_io_zmq_store_get_view and _view_updated: a
\* table for a time before the window is read and thrown away; another one is
\* merged into its view, which goes back to the truncated time and is found
\* by it.
RecvView(st, c, t) ==
    LET truncated == (t \div ItemTime) * ItemTime IN
    IF truncated < st.first_time THEN st
    ELSE LET got == StoreViewGet(st, truncated)
             i == SlotOf(got, truncated)
             filled == [got EXCEPT !.sviews[i].tables = @ \cup {<<c, t>>},
                                   !.sviews[i].done = @ \cup {c},
                                   !.sviews[i].modified =
                                        [s \in Sendable |-> TRUE]]
         IN CompletionCheck(filled, i, "TABLE_END")

\* Mutant: the timeouts are only checked for the oldest view
CheckTimeoutsFirst(st) ==
    LET v == st.sviews[st.first_idx] IN
    IF v.state = "UNUSED" \/ v.age <= Timeout THEN st
    ELSE CompletionCheck(st, st.first_idx, "TIMEOUT_EXPIRED")

\* bgpview_io_zmq_store_check_timeouts: the slots are counted from the head
\* of the window, which an expiring view may move meanwhile.
CheckTimeouts(st) ==
    LET Check(s, i) ==
            LET idx == (i + s.first_idx) % WdwLen IN
            IF s.sviews[idx].state = "UNUSED" \/ s.sviews[idx].age <= Timeout
            THEN s
            ELSE CompletionCheck(s, idx, "TIMEOUT_EXPIRED")
    IN FoldLeft(Check, st, [k \in 1 .. WdwLen |-> k - 1])

\* A tick of the wall clock
Older(st) ==
    [st EXCEPT !.sviews = [i \in Slots |->
        [@[i] EXCEPT !.age = IF @ > Timeout THEN @ ELSE @ + 1]]]
=============================================================================
