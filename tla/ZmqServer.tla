----------------------------- MODULE ZmqServer -----------------------------
(***************************************************************************)
(* lib/io/zmq/bgpview_io_zmq_server.c in front of the store.               *)
(*                                                                         *)
(* The server is one thread.  A turn of run_server handles a message of a  *)
(* client, or none if the receive times out, then sends heartbeats and     *)
(* asks the store to check its timeouts if it is time, then removes the    *)
(* clients it has not heard from.  The clients are the environment: they   *)
(* send what they like in any order, so late, repeated and reordered views *)
(* and silent clients are all there.  What the server sends to a client    *)
(* (heartbeats, replies) is in ZmqBroker.                                  *)
(*                                                                         *)
(* Times are in ticks of a clock.  Expiry and the next heartbeat are kept  *)
(* as the ticks left until then.                                           *)
(***************************************************************************)
EXTENDS ZmqStore

CONSTANTS
    Times,          \* times of the views that clients send (bound)
    Interval,       \* heartbeat_interval
    Liveness,       \* heartbeat_liveness
    TimeoutBeats    \* STORE_HEARTBEATS_PER_TIMEOUT

VARIABLES
    store,              \* the store, with the publications of the last step
    clients,            \* clients[c].ttl: ticks until c expires
    order,              \* the order in which the hash table presents them
    heartbeat_next,     \* ticks until the next heartbeat
    store_timeout_cnt,  \* heartbeats since the timeouts were checked
    shutdown,
    unsent,             \* history: tables no FULL publication has held yet
    spared              \* history: how many checks of the timeouts each view
                        \* has survived that was past its timeout

vars == <<store, clients, order, heartbeat_next, store_timeout_cnt, shutdown,
          unsent, spared>>

\* The intents in a READY or VIEW message: BGPVIEW_PRODUCER_INTENT_PREFIX or 0
Intents == {"NONE", "PREFIX"}
Expiry == Interval * Liveness

Unknown == [known |-> FALSE, ttl |-> 0, intents |-> "NONE"]

\* bgpview_io_zmq_server_init and _start
Init ==
    /\ store = EmptyStore
    /\ clients = [c \in Clients |-> Unknown]
    /\ order \in SetToSeqs(Clients)
    /\ heartbeat_next = Interval
    /\ store_timeout_cnt = 0
    /\ shutdown = FALSE
    /\ unsent = {}
    /\ spared = [i \in Slots |-> 0]

-----------------------------------------------------------------------------
(* Handlers, from the pair of client table and store to the next one       *)

\* client_get, or client_init for a client that is not known: any message
\* shows that the client is alive.
Touch(cl, c) == [cl EXCEPT ![c].known = TRUE, ![c].ttl = Expiry]

\* handle_ready_message: the store hears of intents that are new
HandleReady(s, c, intents) ==
    IF s.cl[c].intents = intents THEN s
    ELSE [cl |-> [s.cl EXCEPT ![c].intents = intents],
          st |-> ClientConnect(s.st, c, intents = "PREFIX")]

\* handle_message for VIEW; the reply is sent before the view is read
HandleView(s, c, intents, t) ==
    LET ready == HandleReady(s, c, intents)
    IN [ready EXCEPT !.st = RecvView(@, c, t)]

\* handle_message for TERM; also what clients_purge does to a dead client
HandleTerm(s, c) ==
    [cl |-> [s.cl EXCEPT ![c] = Unknown], st |-> ClientDisconnect(s.st, c)]

\* clients_purge: removes the dead clients up to the first one that is alive
Purge(s) ==
    LET known == SelectSeq(order, LAMBDA c : s.cl[c].known)
        alive == {k \in DOMAIN known : s.cl[known[k]].ttl > 0}
        dead == IF alive = {} THEN known ELSE SubSeq(known, 1, Min(alive) - 1)
    IN FoldLeft(HandleTerm, s, dead)

-----------------------------------------------------------------------------
Overdue(v) == v.state # "UNUSED" /\ v.age > Timeout

\* The rest of a turn: the heartbeats that are due, with the timeouts of the
\* store after every so many of them, then the purge.
EndOfTurn(s) ==
    LET due == heartbeat_next = 0
        check == due /\ store_timeout_cnt = TimeoutBeats
        checked == IF check THEN [s EXCEPT !.st = CheckTimeouts(@)] ELSE s
        purged == Purge(checked)
        sent == UNION {purged.st.pubs[k].tables :
                         k \in {j \in DOMAIN purged.st.pubs :
                                  purged.st.pubs[j].state = "FULL"}}
        new == UNION {s.st.sviews[i].tables : i \in Slots}
                \ UNION {store.sviews[i].tables : i \in Slots}
    IN /\ heartbeat_next' = IF due THEN Interval ELSE heartbeat_next
       /\ store_timeout_cnt' = CASE check -> 0
                                 [] due /\ ~check -> store_timeout_cnt + 1
                                 [] OTHER -> store_timeout_cnt
       /\ store' = purged.st
       /\ clients' = purged.cl
       /\ unsent' = (unsent \cup new) \ sent
       /\ spared' = [i \in Slots |->
                      IF ~Overdue(purged.st.sviews[i]) THEN 0
                      ELSE IF check THEN spared[i] + 1 ELSE spared[i]]

\* A turn begins: nothing has been published in it
Now == [cl |-> clients, st |-> [store EXCEPT !.pubs = <<>>]]
From(c) == [Now EXCEPT !.cl = Touch(@, c)]

Turn(s) == ~shutdown /\ EndOfTurn(s) /\ UNCHANGED <<order, shutdown>>

RecvNothing == Turn(Now)
RecvHeartbeat(c) == Turn(From(c))
RecvReady(c) == \E i \in Intents : Turn(HandleReady(From(c), c, i))
RecvViewMsg(c) ==
    \E i \in Intents, t \in Times : Turn(HandleView(From(c), c, i, t))
RecvTerm(c) == Turn(HandleTerm(From(c), c))

\* bgpview_io_zmq_server_stop from the signal handler, or a message that
\* cannot be read: no further turn is begun.
Stop ==
    /\ ~shutdown
    /\ shutdown' = TRUE
    /\ store' = [store EXCEPT !.pubs = <<>>]
    /\ UNCHANGED <<clients, order, heartbeat_next, store_timeout_cnt,
                   unsent, spared>>

Less(n) == IF n = 0 THEN 0 ELSE n - 1

Tick ==
    /\ ~shutdown
    /\ store' = Older([store EXCEPT !.pubs = <<>>])
    /\ clients' = [c \in Clients |-> [clients[c] EXCEPT !.ttl = Less(@)]]
    /\ heartbeat_next' = Less(heartbeat_next)
    /\ UNCHANGED <<order, store_timeout_cnt, shutdown, unsent, spared>>

Next ==
    \/ RecvNothing
    \/ \E c \in Clients : \/ RecvHeartbeat(c)
                          \/ RecvReady(c)
                          \/ RecvViewMsg(c)
                          \/ RecvTerm(c)
    \/ Stop
    \/ Tick

Spec == Init /\ [][Next]_vars

-----------------------------------------------------------------------------
Used(i) == store.sviews[i].state # "UNUSED"
Offset(i) == (i - store.first_idx + WdwLen) % WdwLen

TypeOK ==
    /\ store.sviews \in [Slots ->
          [state : States \ {"UNKNOWN"}, time : Nat, age : 0 .. Timeout + 1,
           reuse_remaining : 0 .. 2 * WdwLen - 2,
           modified : [Sendable -> BOOLEAN], done : SUBSET Clients,
           tables : SUBSET (Clients \X Times)]]
    /\ store.first_idx \in Slots
    /\ store.first_time \in Nat
    /\ clients \in [Clients -> [known : BOOLEAN, ttl : 0 .. Expiry,
                                intents : Intents]]
    /\ heartbeat_next \in 0 .. Interval
    /\ store_timeout_cnt \in 0 .. TimeoutBeats

\* A view in use stands for the time of its slot counted from the head of the
\* window, so that it is found again by its time, and holds tables of its own
\* period only; a view that is not in use is empty.  Timeouts and jumps of the
\* clients' times move the head over slots in use and unused ones.
WindowAligned ==
    \A i \in Slots : LET v == store.sviews[i] IN
        IF Used(i)
        THEN /\ v.time = store.first_time + ItemTime * Offset(i)
             /\ \A tb \in v.tables : (tb[2] \div ItemTime) * ItemTime = v.time
        ELSE v.tables = {} /\ v.done = {} /\ \A s \in Sendable : ~v.modified[s]

\* The store waits for exactly the clients that the server knows to produce
\* prefix tables: a producer that was purged, left or changed its intents is
\* not waited for, one that came back is.
ProducersAreKnown ==
    store.producers = {c \in Clients : clients[c].known
                                        /\ clients[c].intents = "PREFIX"}

\* A view published as FULL because it is complete holds a table of every
\* producer known then; one published as PARTIAL lacks one.
CompleteWhenFull ==
    \A k \in DOMAIN store.pubs : LET p == store.pubs[k] IN
        p.trigger \in {"TABLE_END", "CLIENT_DISCONNECT"} =>
            (p.state = "FULL" <=> p.producers \subseteq {tb[1] : tb \in p.tables})

\* The window, the table of clients and what was published agree.
StoreAgrees ==
    /\ TypeOK /\ WindowAligned
    /\ ProducersAreKnown /\ CompleteWhenFull

\* No table is lost: one that no FULL publication has held yet is still in a
\* view of the window, whatever made views expire and whichever of them had
\* been published as PARTIAL before.
NoTableLost ==
    \A tb \in unsent : \E i \in Slots : Used(i) /\ tb \in store.sviews[i].tables

\* A view that is complete is not left unpublished when a producer it waited
\* for goes away: after a turn, a view whose producers are all done has been
\* published as FULL unless a producer has come since it was last looked at.
NothingWaitsForTheGone ==
    [][\A i \in Slots :
         /\ \E c \in Clients : clients[c].known /\ ~clients'[c].known
         /\ store'.sviews[i].state # "UNUSED"
         => ~(store'.sviews[i].modified["FULL"]
              /\ store'.producers \subseteq store'.sviews[i].done)]_vars

\* A view past its timeout is published and removed at the next check, or at the
\* one after it: while the check walks over the window an expiring view moves
\* the head it counts from, and the view behind it is passed over.
SparedOnce == \A i \in Slots : spared[i] <= 1
=============================================================================
