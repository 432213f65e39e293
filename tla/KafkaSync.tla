------------------------------ MODULE KafkaSync ------------------------------
(***************************************************************************)
(* Views over Kafka: the viewsender consumer and the producer side of      *)
(* io/kafka write sync and diff frames to a peers topic, a prefixes topic  *)
(* and the metadata topic all producers share; a direct consumer reads the *)
(* metadata and rebuilds the view.                                         *)
(*                                                                         *)
(* A view is the set of its active cells <<pfx, peer, path>>.  A topic is  *)
(* the sequence of its delivered messages; offset o is the message at      *)
(* index o + 1.  librdkafka (external) delivers what a producer has queued *)
(* in order within a topic, in no order between topics.                    *)
(***************************************************************************)
EXTENDS Integers, Sequences, SequencesExt, FiniteSets, FiniteSetsExt

CONSTANTS
  Views,         \* the views the sender may be given
  V6,            \* the prefixes of IPv6
  FilterV4,      \* filter_ff_v4cnt
  FilterV6,      \* filter_ff_v6cnt
  SyncInterval,  \* sync_interval
  FirstTime,     \* bound: views have times FirstTime..MaxTime
  MaxTime,
  MaxFaults,     \* bound: restarts, and frames of another producer, in all
  LosesQueue     \* may a sender die with messages still queued?

VARIABLES
  topic,   \* the delivered messages of the three topics
  outq,    \* the messages the producer has queued, by topic
  sender,  \* viewsender's state and the producer's last_sync_offset
  client,  \* the direct consumer and the view it fills
  aborted, \* has an assertion of the consumer failed?
  sent,    \* history: the filtered view of each published time
  faults   \* restarts and frames of another producer still to come

vars == <<topic, outq, sender, client, aborted, sent, faults>>

Times == FirstTime .. MaxTime
NoView == {<<>>}
NoMeta == [id |-> "none"]

(* filter_ff: is the peer a full-feed peer of view v? *)
Cnt(v, p, six) == Cardinality({c \in v : c[2] = p /\ (c[1] \in V6) = six})
FullFeed(v, p) == Cnt(v, p, FALSE) >= FilterV4 \/ Cnt(v, p, TRUE) >= FilterV6

Filtered(v) == {c \in v : FullFeed(v, c[2])}
PeersOf(v) == {c[2] : c \in v}
PfxsOf(v) == {c[1] : c \in v}
On(v, x) == {c \in v : c[1] = x}

(* send_peers: a message for each peer that is sent, then the end message. *)
PeerMsgs(v, t) ==
  LET ps == PeersOf(Filtered(v))
  IN  SetToSeq({[type |-> "P", peer |-> p] : p \in ps})
        \o <<[type |-> "E", time |-> t, cnt |-> Cardinality(ps)]>>

(* The cells of the update row and of the remove row of prefix x in a diff *)
(* of v against w: send_cells where both views have the prefix, whole rows *)
(* where only one of them has it.                                          *)
Updated(v, w, x) ==
  {c \in On(v, x) : FullFeed(v, c[2]) /\ ~(FullFeed(w, c[2]) /\ c \in w)}

\* Mutant: a peer that stopped being full-feed is not removed
RemovedUnfiltered(v, w, x) ==
  {d \in On(w, x) : FullFeed(w, d[2]) /\ d[2] \notin PeersOf(On(v, x))}

Removed(v, w, x) ==
  {d \in On(w, x) : FullFeed(w, d[2])
                      /\ d[2] \notin PeersOf(On(Filtered(v), x))}

Row(op, cells) == [type |-> op, cells |-> cells]

SyncRows(v) == {Row("S", On(Filtered(v), x)) : x \in PfxsOf(Filtered(v))}

DiffRows(v, w) ==
  {r \in {Row("U", Updated(v, w, x)) : x \in PfxsOf(v)}
           \cup {Row("R", Removed(v, w, x)) : x \in PfxsOf(w)} : r.cells # {}}

(* send_pfxs: a buffer of rows, sent when there are any, and the end       *)
(* message, which counts them.                                             *)
PfxMsgs(rows, t) ==
  (IF rows = {} THEN <<>> ELSE <<[type |-> "rows", rows |-> rows]>>)
    \o <<[type |-> "E", time |-> t, cnt |-> Cardinality(rows)]>>

Init ==
  /\ topic = [peers |-> <<>>, pfxs |-> <<>>, meta |-> <<>>]
  /\ outq = [pfxs |-> <<>>, meta |-> <<>>]
  /\ sender = [time |-> FirstTime - 1, view |-> NoView, parent |-> NoView,
               parent_time |-> 0, last_sync_offset |-> 0]
  /\ client = [view |-> {}, active |-> {}, idmap |-> {}, time |-> 0, at |-> 0,
               need_sync |-> FALSE, meta |-> NoMeta, pc |-> "meta"]
  /\ aborted = FALSE
  /\ sent = [t \in Times |-> {}]
  /\ faults = MaxFaults

------------------------------------------------------------------------------
\* Mutant: the offset of the last message is announced
OffsetBehind(k) == IF topic[k] = <<>> THEN 0 ELSE Len(topic[k]) - 1

(* get_offset: the offset of the next message of a topic. *)
Offset(k) == Len(topic[k])

(* The sender.  It is idle when it has no view in hand. *)
Idle == sender.view = NoView
Aligned(t) == t % SyncInterval = 0

(* process_view of a view out of step with the sync interval before the    *)
(* first sync frame: nothing is published.                                 *)
SkipView(t) ==
  /\ sender.parent = NoView /\ ~Aligned(t)
  /\ sender' = [sender EXCEPT !.time = t]
  /\ UNCHANGED <<topic, outq, client, aborted, sent, faults>>

(* send_metadata: where the frame is, and where the last sync frame is. *)
Metadata(t, sync) ==
  [id |-> "us", time |-> t, type |-> IF sync THEN "S" ELSE "D",
   peers_offset |-> Offset("peers"), pfxs_offset |-> Offset("pfxs"),
   parent_time |-> IF sync THEN t ELSE sender.parent_time,
   sync_md_offset |-> sender.last_sync_offset]

(* process_view up to the wait in send_metadata: a sync frame on a time of *)
(* the sync interval, else a diff against the parent.  send_peers waits    *)
(* for delivery; the prefixes and the metadata are queued one after the    *)
(* other and waited for together.                                          *)
SendView(t, v) ==
  LET sync == Aligned(t)
      rows == IF sync THEN SyncRows(v) ELSE DiffRows(v, sender.parent)
  IN  /\ sync \/ sender.parent # NoView
      /\ topic' = [topic EXCEPT !.peers = @ \o PeerMsgs(v, t)]
      /\ outq' = [pfxs |-> PfxMsgs(rows, t), meta |-> <<Metadata(t, sync)>>]
      /\ sender' = [sender EXCEPT !.time = t, !.view = v,
                      !.last_sync_offset = IF sync THEN Offset("meta") ELSE @]
      /\ sent' = [sent EXCEPT ![t] = Filtered(v)]
      /\ UNCHANGED <<client, aborted, faults>>

(* The next view: of the next time, or of the one after when one is missed. *)
ProcessView ==
  /\ Idle
  /\ \E t \in {sender.time + 1, sender.time + 2} \cap Times :
       SkipView(t) \/ \E v \in Views : SendView(t, v)

(* librdkafka delivers the oldest queued message of a topic. *)
Deliver(k) ==
  /\ outq[k] # <<>>
  /\ topic' = [topic EXCEPT ![k] = Append(@, Head(outq[k]))]
  /\ outq' = [outq EXCEPT ![k] = Tail(@)]
  /\ UNCHANGED <<sender, client, aborted, sent, faults>>

\* Mutant: the time of the parent is set once
CopyKeepsTime ==
  /\ ~Idle /\ outq.pfxs = <<>> /\ outq.meta = <<>>
  /\ sender' = [sender EXCEPT !.view = NoView, !.parent = sender.view,
                  !.parent_time = IF @ = 0 THEN sender.time ELSE @]
  /\ UNCHANGED <<topic, outq, client, aborted, sent, faults>>

(* The queue has drained: process_view copies the view into the parent. *)
CopyToParent ==
  /\ ~Idle /\ outq.pfxs = <<>> /\ outq.meta = <<>>
  /\ sender' = [sender EXCEPT !.view = NoView, !.parent = sender.view,
                              !.parent_time = sender.time]
  /\ UNCHANGED <<topic, outq, client, aborted, sent, faults>>

(* The sender dies and starts again, with no parent and an empty queue. *)
SenderRestart ==
  /\ faults > 0 /\ faults' = faults - 1
  /\ LosesQueue \/ (outq.pfxs = <<>> /\ outq.meta = <<>>)
  /\ sender' = [sender EXCEPT !.view = NoView, !.parent = NoView,
                              !.parent_time = 0, !.last_sync_offset = 0]
  /\ outq' = [pfxs |-> <<>>, meta |-> <<>>]
  /\ UNCHANGED <<topic, client, aborted, sent>>

(* Another producer of the namespace announces a frame. *)
OtherProducer ==
  /\ faults > 0 /\ faults' = faults - 1
  /\ topic' = [topic EXCEPT !.meta = Append(@, [id |-> "other"])]
  /\ UNCHANGED <<outq, sender, client, aborted, sent>>

------------------------------------------------------------------------------
(* The direct consumer. *)

(* A consumer starts on the last message of the metadata topic. *)
ClientRestart ==
  /\ faults > 0 /\ faults' = faults - 1
  /\ client' = [view |-> {}, active |-> {}, idmap |-> {}, time |-> 0,
                at |-> IF topic.meta = <<>> THEN 0 ELSE Len(topic.meta) - 1,
                need_sync |-> FALSE, meta |-> NoMeta, pc |-> "meta"]
  /\ aborted' = FALSE
  /\ UNCHANGED <<topic, outq, sender, sent>>

(* The metadata can be used; a sync frame clears the view and the peer map. *)
Accept(m) ==
  client' = [client EXCEPT
    !.at = @ + 1, !.meta = m, !.pc = "peers",
    !.view = IF m.type = "S" THEN {} ELSE @,
    !.active = IF m.type = "S" THEN {} ELSE @,
    !.idmap = IF m.type = "S" THEN {} ELSE @,
    !.time = IF m.type = "S" THEN 0 ELSE @]

\* Mutant: the seek to the sync frame has no effect
RewoundInPlace(m) == client

Rewound(m) == [client EXCEPT !.at = m.sync_md_offset]

(* recv_direct_metadata, one message: another producer's frame, or a diff  *)
(* when a sync frame is needed, is skipped; a diff against another time    *)
(* goes back to the sync frame it names.                                   *)
RecvMetadata ==
  /\ client.pc = "meta" /\ ~aborted
  /\ client.at < Len(topic.meta)
  /\ LET m == topic.meta[client.at + 1]
     IN  IF m.id # "us" \/ (m.type = "D" /\ client.need_sync)
         THEN client' = [client EXCEPT !.at = @ + 1]
         ELSE IF m.type = "D" /\ m.parent_time # client.time
         THEN client' = Rewound(m)
         ELSE Accept(m)
  /\ UNCHANGED <<topic, outq, sender, aborted, sent, faults>>

(* The messages from offset o to the first end message, if there is one. *)
Ends(log, o) == {i \in (o + 1) .. Len(log) : log[i].type = "E"}
Frame(log, o) ==
  SubSeq(log, o + 1, IF Ends(log, o) = {} THEN Len(log) ELSE Min(Ends(log, o)))

(* recv_peers: each peer is added, activated and mapped; the end message   *)
(* must be of the frame's time and count them (assertions).                *)
RecvPeers ==
  /\ client.pc = "peers" /\ ~aborted
  /\ LET f == Frame(topic.peers, client.meta.peers_offset)
         e == Last(f)
         ps == {f[i].peer : i \in 1 .. Len(f) - 1}
     IN  /\ client' = [client EXCEPT !.pc = "pfxs", !.idmap = @ \cup ps,
                                     !.active = @ \cup ps]
         /\ aborted' = (e.time # client.meta.time \/ e.cnt # Len(f) - 1)
  /\ UNCHANGED <<topic, outq, sender, sent, faults>>

Pairs(cells) == {<<c[1], c[2]>> : c \in cells}

(* bgpview_io_deserialize_pfx_row, of rows for different cells: a cell is  *)
(* set, or made inactive.                                                  *)
Apply(view, rows) ==
  {c \in view : \A r \in rows : <<c[1], c[2]>> \notin Pairs(r.cells)}
    \cup UNION {r.cells : r \in {q \in rows : q.type # "R"}}

(* A cell of a peer the map does not know cannot be added. *)
Known(rows, idmap) ==
  \A r \in rows : r.type = "R" \/ PeersOf(r.cells) \subseteq idmap

(* consumer_recv's last loop: peers left without prefixes are deactivated. *)
Quiet(c) == [c EXCEPT !.active = @ \cap PeersOf(c.view)]

(* recv_pfxs: the rows from the frame's offset on.  At the end of what has *)
(* been delivered, without an end message, the receive fails with its rows *)
(* already applied, and the consumer needs a sync frame.  Otherwise the    *)
(* view takes the end message's time, which must be the frame's.           *)
RecvPfxs ==
  /\ client.pc = "pfxs" /\ ~aborted
  /\ LET f == Frame(topic.pfxs, client.meta.pfxs_offset)
         done == f # <<>> /\ Last(f).type = "E"
         rows == UNION {f[i].rows : i \in {j \in DOMAIN f : f[j].type = "rows"}}
         next == [client EXCEPT !.pc = "meta", !.meta = NoMeta,
                                !.view = Apply(@, rows),
                                !.time = IF done THEN Last(f).time ELSE @]
         ok == done /\ Known(rows, client.idmap) /\ Last(f).cnt = Cardinality(rows)
     IN  /\ client' = IF ok THEN Quiet([next EXCEPT !.need_sync = FALSE])
                            ELSE [next EXCEPT !.need_sync = TRUE]
         /\ aborted' = (done /\ Last(f).time # client.meta.time)
  /\ UNCHANGED <<topic, outq, sender, sent, faults>>

ClientStep == RecvMetadata \/ RecvPeers \/ RecvPfxs

Next ==
  \/ ProcessView \/ Deliver("pfxs") \/ Deliver("meta") \/ CopyToParent
  \/ SenderRestart \/ OtherProducer \/ ClientRestart
  \/ RecvMetadata \/ RecvPeers \/ RecvPfxs

(* The consumer's loop keeps running. *)
Spec == Init /\ [][Next]_vars /\ WF_vars(ClientStep)

------------------------------------------------------------------------------
(* Every view bgpview_io_kafka_consumer_recv hands out is the sender's     *)
(* filtered view of that time, however many diffs it was put together      *)
(* from, and its active peers are the peers with prefixes.  A consumer     *)
(* that has read all the metadata is at the last published frame.          *)
Ours == {i \in DOMAIN topic.meta : topic.meta[i].id = "us"}
ReceivedIsSent ==
  (client.pc = "meta" /\ client.time # 0 /\ ~client.need_sync) =>
    /\ client.view = sent[client.time]
    /\ client.active = PeersOf(client.view)
    /\ client.at = Len(topic.meta) => client.time = topic.meta[Max(Ours)].time

(* The assertions of recv_peers and recv_pfxs: the messages at a frame's   *)
(* offsets are that frame's.                                               *)
FramesAsAnnounced == ~aborted

(* Rewinding never takes a running consumer back: a frame it accepts is    *)
(* newer than the view it is for.                                          *)
FramesAreNewer ==
  [][(client'.meta # client.meta /\ client'.meta # NoMeta)
       => client'.meta.time > client.time]_vars

(* A sync frame that is complete before the consumer gets to its metadata  *)
(* is received, also by a consumer that lost a frame or started late.      *)
Ahead(t) ==
  \E i \in Ours : /\ topic.meta[i].time = t /\ topic.meta[i].type = "S"
                  /\ i > client.at /\ outq.pfxs = <<>>
SyncFramesArrive ==
  \A t \in {u \in Times : Aligned(u)} :
    (Ahead(t) /\ faults = 0) ~> client.time >= t
==============================================================================
