----------------------------- MODULE ZmqBroker -----------------------------
(***************************************************************************)
(* The ZeroMQ client: lib/io/zmq/bgpview_io_zmq_client.c, the thread of    *)
(* the caller, and bgpview_io_zmq_client_broker.c, a reactor in a thread   *)
(* of its own that keeps the views sent to the server until the server has *)
(* replied, and the connection over which it sends them.                   *)
(*                                                                         *)
(* The reactor runs one handler at a time, so a handler is an action.  The *)
(* server of ZmqServer is reduced to what the broker can see of it: it     *)
(* reads, replies, sends heartbeats, publishes, dies and comes back.  What *)
(* was on its way to a server that dies, or over a connection the broker   *)
(* gives up, may be lost.                                                  *)
(*                                                                         *)
(* A tick is a heartbeat interval.  Points in time are kept as the ticks   *)
(* left until then.                                                        *)
(***************************************************************************)
EXTENDS Integers, Sequences, FiniteSets

CONSTANTS
    MaxOutstanding,     \* MAX_OUTSTANDING_REQ
    RequestRetries,     \* request_retries
    RequestTimeout,     \* request_timeout
    Interval,           \* heartbeat_interval
    Liveness,           \* heartbeat_liveness
    ReconnectMin,       \* reconnect_interval_min
    ReconnectMax,       \* reconnect_interval_max
    Linger,             \* shutdown_linger
    MaxViews,           \* views the caller sends (bound)
    MaxPubs,            \* views the server publishes (bound)
    MaxCrashes,         \* times the server dies (bound)
    MaxWire             \* messages that wait at a live server (bound)

ASSUME BrokerAssumption ==
    /\ MaxOutstanding \in Nat \ {0}
    /\ RequestRetries \in Nat
    /\ RequestTimeout \in Nat /\ Linger \in Nat
    /\ Interval \in Nat /\ Liveness \in Nat \ {0}
    /\ ReconnectMin \in Nat /\ ReconnectMax \in Nat
    /\ MaxViews \in Nat /\ MaxPubs \in Nat
    /\ MaxCrashes \in Nat /\ MaxWire \in Nat \ {0}

VARIABLES
    seq_num,    \* client->seq_num
    pipe,       \* the master pipe, from the caller to the broker
    inbox,      \* the master pipe, from the broker to the caller
    signal,     \* the caller has told the broker to stop: No, Sent or Read
    broker,     \* the fields of bgpview_io_zmq_client_broker_t
    due,        \* the timer of the reactor has gone off
    running,    \* the reactor runs
    down,       \* from the server to server_socket
    sub,        \* from the server to server_sub_socket
    alive,      \* the server runs
    known,      \* the server knows the client
    crashes,
    pubs,       \* views the server has published
    got,        \* history: sequence numbers that reached the server
    sends,      \* history: how often each view was sent
    dropped     \* history: the views that were abandoned

client == <<seq_num, pipe, inbox, signal>>
reactor == <<broker, due, running>>
server == <<down, sub, alive, known, crashes, pubs, got>>
history == <<sends, dropped>>
vars == <<client, reactor, server, history>>

Seqs == 0 .. MaxViews - 1
Indexes == 0 .. MaxOutstanding - 1
Free == [in_use |-> FALSE]
Never == -1
Bye == 0        \* the $TERM from the broker to the caller
Byte == 256

Request(s) == [type |-> "VIEW", seq_num |-> s]
Reply(s) == [type |-> "REPLY", seq_num |-> s]
Beat == [type |-> "HEARTBEAT"]

\* An entry of req_list that is not in use is not read: its old contents are
\* left out.  The frames of a request are its sequence number.
Req(s, ttl, left) ==
    [in_use |-> TRUE, seq_num |-> s, retry_at |-> ttl,
     retries_remaining |-> left]

\* broker_init and server_connect
Connected(b) ==
    [b EXCEPT !.heartbeat_next = Interval,
              !.server_socket = <<[type |-> "READY"]>>]

Init ==
    /\ seq_num = 0 /\ pipe = <<>> /\ inbox = <<>> /\ signal = "No"
    /\ broker = Connected([req_list |-> [i \in Indexes |-> Free],
                           req_count |-> 0,
                           master_removed |-> FALSE,
                           heartbeat_next |-> 0,
                           liveness_remaining |-> Liveness,
                           reconnect_next |-> ReconnectMin,
                           shutdown_time |-> Never,
                           server_socket |-> <<>>])
    /\ due = FALSE /\ running = TRUE
    /\ down = <<>> /\ sub = <<>> /\ alive \in BOOLEAN /\ known = FALSE
    /\ crashes = 0 /\ pubs = 0 /\ got = {}
    /\ sends = [s \in Seqs |-> 0] /\ dropped = {}

-----------------------------------------------------------------------------
(* The operations of the broker                                            *)

InUse(b) == {i \in Indexes : b.req_list[i].in_use}
Outstanding(b) == {b.req_list[i].seq_num : i \in InUse(b)}

Send(b, m) == [b EXCEPT !.server_socket = Append(@, m)]

\* Mutant: the request is only marked as unused
MarkUnusedUncounted(b, i) == [b EXCEPT !.req_list[i] = Free]

\* req_mark_unused
ReqMarkUnused(b, i) ==
    [b EXCEPT !.req_list[i] = Free, !.req_count = @ - 1]

\* The first of some entries of req_list
First(S) == CHOOSE i \in S : \A j \in S : i <= j

\* A view from the caller takes the first free entry and is sent
Stored(b, s) ==
    LET req == Req(s, RequestTimeout, RequestRetries % Byte)
    IN Send([b EXCEPT !.req_count = @ + 1,
                      !.req_list[First(Indexes \ InUse(b))] = req],
            Request(s))

\* Mutant: the reply is taken for one to the oldest request
HandleReplyAny(b, s) ==
    IF InUse(b) = {} THEN b
    ELSE ReqMarkUnused(b, First(InUse(b)))

\* handle_reply: a reply to a request that is not known (any more) is ignored
HandleReply(b, s) ==
    LET found == {i \in InUse(b) : b.req_list[i].seq_num = s}
    IN IF found = {} THEN b
       ELSE ReqMarkUnused(b, First(found))

\* is_shutdown_time
IsShutdownTime(b) ==
    b.shutdown_time # Never /\ (b.req_count = 0 \/ b.shutdown_time = 0)

\* retries_remaining is a uint8_t
Decremented(n) == (n + Byte - 1) % Byte

\* The requests whose time for a reply is over
Expired(b) == {i \in InUse(b) : b.req_list[i].retry_at = 0}

\* Mutant: the last retry is sent again and again
AbandonedNever(b) == {}

\* Of these, the ones that were sent for the last time
Abandoned(b) ==
    {i \in Expired(b) : Decremented(b.req_list[i].retries_remaining) = 0}

\* ... and the ones to send again
Resent(b) == Expired(b) \ Abandoned(b)

\* Their messages, in the order of req_list
ResentMsgs(b) ==
    LET again == SelectSeq([k \in 1 .. MaxOutstanding |-> k - 1],
                           LAMBDA i : i \in Resent(b))
    IN [k \in DOMAIN again |-> Request(b.req_list[again[k]].seq_num)]

\* handle_timeouts: a request that has waited for its reply long enough is
\* sent again or, if that was its last chance, forgotten.
HandleTimeouts(b) ==
    [b EXCEPT
       !.req_list = [i \in Indexes |->
          IF i \in Abandoned(b) THEN Free
          ELSE IF i \in Resent(b)
          THEN Req(@[i].seq_num, RequestTimeout,
                   Decremented(@[i].retries_remaining))
          ELSE @[i]],
       !.req_count = @ - Cardinality(Abandoned(b)),
       !.server_socket = @ \o ResentMsgs(b)]

\* Time passes
Less(n, k) == IF n = Never THEN Never ELSE IF n < k THEN 0 ELSE n - k
Aged(e, k) == IF e.in_use THEN [e EXCEPT !.retry_at = Less(@, k)] ELSE e
Elapse(b, k) ==
    [b EXCEPT !.req_list = [i \in Indexes |-> Aged(@[i], k)],
              !.shutdown_time = Less(@, k)]

\* History: what handle_timeouts did to b, h being the sends before it
Timed(h, b) ==
    /\ sends' = [s \in Seqs |->
         h[s] + Cardinality({i \in Resent(b) : b.req_list[i].seq_num = s})]
    /\ dropped' = dropped \cup {b.req_list[i].seq_num : i \in Abandoned(b)}

-----------------------------------------------------------------------------
(* The caller                                                              *)

\* bgpview_io_zmq_client_send_view
ClientSendView ==
    /\ signal = "No" /\ seq_num < MaxViews
    /\ pipe' = Append(pipe, seq_num)
    /\ seq_num' = seq_num + 1
    /\ UNCHANGED <<inbox, signal, reactor, server, history>>

\* bgpview_io_zmq_client_recv_view; fails on the $TERM of the broker
ClientRecvView ==
    /\ signal = "No" /\ inbox # <<>>
    /\ inbox' = Tail(inbox)
    /\ UNCHANGED <<seq_num, pipe, signal, reactor, server, history>>

\* bgpview_io_zmq_client_stop: zactor_destroy sends $TERM, then waits
ClientStop ==
    /\ signal = "No"
    /\ signal' = "Sent"
    /\ UNCHANGED <<seq_num, pipe, inbox, reactor, server, history>>

-----------------------------------------------------------------------------
(* The handlers of the reactor                                             *)

\* A handler returned -1: zloop_start returns, bgpview_io_zmq_client_broker_run
\* says goodbye to the server and to the caller and frees the broker.
Quit(b) ==
    /\ running' = FALSE
    /\ broker' = Send(b, [type |-> "TERM"])
    /\ inbox' = Append(inbox, Bye)

Resume(b) == running' = TRUE /\ broker' = b /\ inbox' = inbox

\* Mutant: once the pipe is closed it stays closed
ReopenedNever(b) == b

\* The pipe is read again when there is room for a request
Reopened(b) ==
    [b EXCEPT !.master_removed = @ /\ b.req_count = MaxOutstanding]

\* A new connection: server_disconnect and server_connect, after a sleep
\* that is twice as long the next time
Renewed(b) ==
    Connected([b EXCEPT !.reconnect_next = IF @ < ReconnectMax THEN 2 * @ ELSE @,
                        !.liveness_remaining = Liveness])

\* handle_master_msg: a view from the caller.  With no entry of req_list left
\* the pipe is not read any more.
HandleMaster ==
    /\ running /\ ~broker.master_removed /\ pipe # <<>>
    /\ \/ /\ IsShutdownTime(broker)
          /\ Quit(broker)
          /\ UNCHANGED <<pipe, history>>
       \/ /\ ~IsShutdownTime(broker)
          /\ LET sent == Stored(broker, Head(pipe))
                 timed == HandleTimeouts(sent)
             IN /\ Resume([timed EXCEPT
                      !.master_removed = timed.req_count = MaxOutstanding])
                /\ Timed([sends EXCEPT ![Head(pipe)] = @ + 1], sent)
          /\ pipe' = Tail(pipe)
    /\ UNCHANGED <<seq_num, signal, due, server>>

\* handle_server_msg, one turn of its loop: a reply or a heartbeat.  Between
\* two turns time may pass, and nothing keeps the reactor from calling the
\* handler again, so the limit on the number of turns shows nowhere.
HandleServerMsg ==
    /\ running /\ down # <<>>
    /\ \/ /\ IsShutdownTime(broker)
          /\ Quit(broker)
          /\ UNCHANGED <<down, history>>
       \/ /\ ~IsShutdownTime(broker)
          /\ LET m == Head(down)
                 heard == [broker EXCEPT !.liveness_remaining = Liveness]
                 replied == IF m.type = "REPLY" THEN HandleReply(heard, m.seq_num)
                                                ELSE heard
                 b == [replied EXCEPT !.reconnect_next = ReconnectMin]
             IN IF IsShutdownTime(b) THEN Quit(b) /\ UNCHANGED history
                ELSE Resume(Reopened(HandleTimeouts(b))) /\ Timed(sends, b)
          /\ down' = Tail(down)
    /\ UNCHANGED <<seq_num, pipe, signal, due,
                   sub, alive, known, crashes, pubs, got>>

\* handle_server_sub_msg: a published view is passed on to the caller
HandleServerSubMsg ==
    /\ running /\ sub # <<>>
    /\ inbox' = Append(inbox, Head(sub))
    /\ sub' = Tail(sub)
    /\ UNCHANGED <<seq_num, pipe, signal, reactor, history,
                   down, alive, known, crashes, pubs, got>>

\* Mutant: a signal that comes while requests are outstanding is forgotten
HandleSignalIdle ==
    /\ running /\ signal = "Sent"
    /\ IF broker.req_count = 0 THEN Quit(broker) ELSE Resume(broker)
    /\ signal' = "Read"
    /\ UNCHANGED <<seq_num, pipe, due, server, history>>

\* handle_signal_msg
HandleSignal ==
    /\ running /\ signal = "Sent"
    /\ LET told == [broker EXCEPT !.shutdown_time =
                                     IF @ = Never THEN Linger ELSE @]
       IN IF IsShutdownTime(told) THEN Quit(told) /\ UNCHANGED history
          ELSE Resume(HandleTimeouts(told)) /\ Timed(sends, told)
    /\ signal' = "Read"
    /\ UNCHANGED <<seq_num, pipe, due, server>>

\* handle_heartbeat_timer.  A server that was silent for too long is given
\* up: after a sleep both sockets are closed, with what waits in them, and
\* opened again.  The clock was read before the sleep, so a request that is
\* sent again has the sleep taken off its time.  The timer may have gone off
\* during the sleep.
HandleTimer ==
    /\ running /\ due
    /\ LET beat == [broker EXCEPT !.liveness_remaining = @ - 1]
           slept == broker.reconnect_next
           timely == IF beat.heartbeat_next < 0
                     THEN [Send(beat, Beat) EXCEPT !.heartbeat_next = Interval]
                     ELSE beat
           renewed == Renewed(beat)
       IN \/ /\ IsShutdownTime(broker)
             /\ Quit(broker)
             /\ due' = FALSE
             /\ UNCHANGED <<down, sub, history>>
          \/ /\ ~IsShutdownTime(broker) /\ beat.liveness_remaining > 0
             /\ Resume(HandleTimeouts(timely)) /\ Timed(sends, timely)
             /\ due' = FALSE
             /\ UNCHANGED <<down, sub>>
          \/ /\ ~IsShutdownTime(broker) /\ beat.liveness_remaining = 0
             /\ Resume(Elapse(HandleTimeouts(renewed), slept))
             /\ Timed(sends, renewed)
             /\ due' \in BOOLEAN
             /\ down' = <<>> /\ sub' = <<>>
    /\ UNCHANGED <<seq_num, pipe, signal, alive, known, crashes, pubs, got>>

-----------------------------------------------------------------------------
(* The server and the wire, while there is a broker to see them            *)

\* run_server on a message of the client.  A view is answered before it is
\* read; every message but TERM makes the client known.
ServerRecv ==
    /\ running /\ alive /\ broker.server_socket # <<>> /\ Len(down) < MaxWire
    /\ LET m == Head(broker.server_socket)
       IN /\ known' = (m.type # "TERM")
          /\ down' = IF m.type = "VIEW" THEN Append(down, Reply(m.seq_num))
                                        ELSE down
          /\ got' = IF m.type = "VIEW" THEN got \cup {m.seq_num} ELSE got
    /\ broker' = [broker EXCEPT !.server_socket = Tail(@)]
    /\ UNCHANGED <<client, due, running, history, sub, alive, crashes, pubs>>

\* The heartbeats of run_server, in a turn that has nothing to read
ServerBeat ==
    /\ running /\ alive /\ known /\ Len(down) < MaxWire
    /\ broker.server_socket = <<>>
    /\ down' = Append(down, Beat)
    /\ UNCHANGED <<client, reactor, history,
                   sub, alive, known, crashes, pubs, got>>

\* bgpview_io_zmq_server_publish_view
ServerPublish ==
    /\ running /\ alive /\ pubs < MaxPubs
    /\ pubs' = pubs + 1
    /\ sub' = Append(sub, pubs')
    /\ UNCHANGED <<client, reactor, history, down, alive, known, crashes, got>>

\* The server dies; some of what was on its way to it is lost with it, what
\* it had sent may still arrive.
ServerCrash ==
    /\ running /\ alive /\ crashes < MaxCrashes
    /\ alive' = FALSE /\ known' = FALSE
    /\ crashes' = crashes + 1
    /\ \E n \in 0 .. Len(broker.server_socket) :
         broker' = [broker EXCEPT !.server_socket = SubSeq(@, n + 1, Len(@))]
    /\ \E n \in 0 .. Len(down) : down' = SubSeq(down, 1, n)
    /\ UNCHANGED <<client, due, running, history, sub, pubs, got>>

ServerStart ==
    /\ running /\ ~alive
    /\ alive' = TRUE
    /\ UNCHANGED <<client, reactor, history,
                   down, sub, known, crashes, pubs, got>>

\* A tick.  The timer does not stay due for a whole tick, and a server that
\* is alive does not let more than MaxWire messages wait.
Tick ==
    /\ running /\ ~due
    /\ alive => Len(broker.server_socket) < MaxWire
    /\ due' = TRUE
    /\ broker' = [Elapse(broker, 1) EXCEPT
                    !.heartbeat_next = IF @ < 0 THEN @ ELSE @ - 1]
    /\ UNCHANGED <<client, running, server, history>>

-----------------------------------------------------------------------------
Next ==
    \/ ClientSendView \/ ClientRecvView \/ ClientStop
    \/ HandleMaster \/ HandleServerMsg \/ HandleServerSubMsg
    \/ HandleSignal \/ HandleTimer
    \/ ServerRecv \/ ServerBeat \/ ServerPublish \/ ServerCrash \/ ServerStart
    \/ Tick

\* The reactor calls every handler whose socket or timer is ready, and time
\* passes.  Nothing is asked of the caller and of the server, except that a
\* server that runs reads what waits for it, or time would stop.
Fairness ==
    /\ WF_vars(HandleMaster) /\ WF_vars(HandleServerMsg)
    /\ WF_vars(HandleServerSubMsg) /\ WF_vars(HandleSignal)
    /\ WF_vars(HandleTimer) /\ WF_vars(Tick) /\ WF_vars(ServerRecv)

Spec == Init /\ [][Next]_vars /\ Fairness

-----------------------------------------------------------------------------
(* Properties                                                              *)

\* The assert of handle_master_msg ("there is guaranteed to be an empty
\* request") holds whenever the reactor still listens to the caller: req_count
\* is the number of entries in use, whichever handler frees them, and the
\* pipe is not read while it is at its limit.
RoomForMaster ==
    /\ broker.req_count = Cardinality(InUse(broker))
    /\ running /\ ~broker.master_removed => InUse(broker) # Indexes

\* How often handle_timeouts lets a request be sent: retries_remaining starts
\* at request_retries, loses one before it is compared with 0, and has 8 bits.
SendLimit ==
    IF RequestRetries % Byte = 0 THEN Byte ELSE RequestRetries % Byte

\* Retransmission neither loses a view silently nor loses track of it: a view
\* the broker took from the pipe is in req_list, or reached the server, or was
\* abandoned after SendLimit sends, or the broker has stopped.
NoneForgotten ==
    running =>
      \A s \in Seqs : sends[s] > 0 =>
        \/ s \in Outstanding(broker)
        \/ s \in got
        \/ s \in dropped /\ sends[s] = SendLimit

\* The sends of a request are bounded over all reconnects, by request_retries
\* or, if that is a multiple of 256, by 256; and a request is abandoned only
\* when it was sent that often.
BoundedSends ==
    \A s \in Seqs : sends[s] <= SendLimit /\ (s \in dropped => sends[s] = SendLimit)

\* What bgpview_io_zmq_client.h says of request_retries ("number of times to
\* retry a request before giving up"): a request is sent once, then retried
\* that often at most, and given up only after that many retries.
RetriesAsDocumented ==
    \A s \in Seqs :
        /\ sends[s] <= 1 + RequestRetries
        /\ s \in dropped => sends[s] = 1 + RequestRetries

\* bgpview_io_zmq_client_stop returns: a broker that was told to stop stops,
\* whether the server replies or not, once the linger time is over.  (It is
\* told once: signal is never "No" again.)
StopReturns == []<>(signal = "No" \/ ~running)

\* Every request is settled: answered, or abandoned.
Settled == \A s \in Seqs : []<>(s \notin Outstanding(broker) \/ ~running)

\* Nothing waits for a server that stays silent: neither the caller that stops
\* the broker, nor a request.
NothingHangs == StopReturns /\ Settled

\* Rate limiting ends: as long as the broker keeps hearing from the server,
\* a view that waits in the pipe is taken.
Waits(s) == \E k \in DOMAIN pipe : pipe[k] = s
HearsFromServer == []<><<HandleServerMsg>>_vars
PipeDrains ==
    HearsFromServer => \A s \in Seqs : []<>(~Waits(s) \/ ~running)
=============================================================================
