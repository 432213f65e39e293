# A TLA+ development of BGPView

BGPView keeps tables of which BGP peer announces which prefix ("views"), builds
them from RIB dumps and update streams, ships them between processes over ZMQ
and Kafka, and runs analyses ("consumers") over them. This directory models
those parts, checks them with TLC on small instances and proves properties of
three of them (the view, the ZMQ broker, the threads of the global Kafka consumer)
with TLAPS for instances of any size.

## The system

| part | source | state | operations |
|---|---|---|---|
| view | `lib/bgpview.c` | peers, prefixes, pfx-peers, each ACTIVE, INACTIVE or INVALID; four families of counters; flags for the collector | add, activate, deactivate, remove of each; clear, gc, copy, dup |
| iterators | `lib/bgpview.c` | a version, a slot in each table, masks | first, next, seek over peers, prefixes, pfx-peers of a prefix, all pfx-peers |
| routing tables | `lib/io/bsrt/.../routingtables.c` | collectors, per-peer FSM and RIB-under-construction times, per-pfx-peer times and flags, a view | RIB row, update, state message, corrupted record, start and end of interval |
| bgpcorsaro, bsrt | `lib/io/bsrt/` | interval boundaries, plugin state | per record, per interval |
| ZMQ store | `lib/io/zmq/bgpview_io_zmq_store.c` | a window of views, the clients each one has heard from | connect, disconnect, view received, completion, timeout |
| ZMQ server, client, broker | `lib/io/zmq/` | client table, heartbeats, outstanding requests | requests, replies, retries, expiry, reconnection |
| Kafka producer, consumer | `lib/io/kafka/` | topics, offsets, parent times, worker jobs | sync, diff, seek, merge, worker threads |
| serialization, files | `lib/io/bgpview_io.c`, `lib/io/file/` | none between calls | rows, markers |
| consumers | `lib/consumers/` | chain state, windows, parent views | one call per view |
| tools | `tools/` | none of their own | main loops |

How they meet: the routing tables own a view and change it through the calls of
`bgpview.h`; a transport (ZMQ, Kafka, file) turns a view into messages and back
into another view through the same calls; the consumer manager hands each
received view to every enabled consumer in turn; the view sender keeps a copy of
the previous view to send differences. A view has one owner and no locks; the
only threads are the workers of the Kafka global consumer and the broker of the
ZMQ client.

What is hard to test here: cascades between the three tables and their counters
over long call sequences; walks that change what they stand on; hash order;
entries that are removed but not yet collected; RIB dumps interleaved with
updates and session state; several producers filling the same window while
others time out; lost, repeated and late messages; threads that wait for each
other. `PROJECT.json` lists the hazards at their lines.

## Modules

| module | models |
|---|---|
| `ViewOps` | the calls of `bgpview.c` as operators from a view to a view |
| `BGPView` | a view as a state machine, one action per call, and its properties |
| `BGPViewAbs` | what a view promises: known and active peers, a relation and its active part |
| `ViewLoops` | the cascades of `bgpview.c` written as the loops they are |
| `ViewIter` | the iterator over all pfx-peers, slot by slot |
| `ViewCopy` | `bgpview_copy` between a view and the parent view kept of it |
| `RoutingTables` | `routingtables.c` on top of `ViewOps`, and the interval driver of `bgpcorsaro.c` |
| `RTDumps`, `RTUpdates` | `RoutingTables` with a history of each collector's dump, of each session's updates |
| `ZmqStore` | `bgpview_io_zmq_store.c` as operators from a store to a store |
| `ZmqServer` | `bgpview_io_zmq_server.c` in front of the store, with clients that do as they like |
| `ZmqExpired` | `ZmqServer` with a history of the times that expired |
| `ZmqBroker` | the ZMQ client: the caller, the broker thread, and a server that replies, dies and comes back |
| `KafkaSync` | the view sender, the Kafka producer, the topics and a direct consumer |
| `KafkaGlobal` | the global Kafka consumer: the caller's thread and a worker thread per member |
| `ConsumerViews` | the view and the chain state as the consumers read them |
| `EventConsumers`, `OriginConsumers`, `SpaceConsumers` | eleven of the view consumers, grouped by what they report |
| `FileFormat`, `Archiver` | the file format with its reader, and the consumers that rotate files |
| `ConsumerChain` | the consumer tool and the consumer manager, which run them |
| `ConsumerHistory` | `ConsumerChain`'s properties, stated over all views received so far |
| `MCView` | the three views of `ViewLoops`, `ViewCopy` and `ViewIter` side by side, one of them moving |
| the other `MC...` | constants of the runs |
| `BGPViewProofs`, `BGPViewRefinement` | the invariants of `BGPView`; that it implements `BGPViewAbs` |
| `ZmqBrokerProofs`, `KafkaGlobalProofs` | the theorems about `ZmqBroker` and `KafkaGlobal` |

### The view

A view is a record. `peer` and `pfx` give the state of each entry of the two
main tables; `"ABSENT"` is a key that is not in the table, `"INVALID"` one that
was removed and waits for the collector. `pp[x][p]` is the state of the pfx-peer
of prefix `x` and peer `p`; the code treats an absent pfx-peer and an INVALID one
alike. `peers_cnt`, `pfx_cnt` (v4_pfx_cnt and v6_pfx_cnt), `pfxs_cnt` (v4pfxs_cnt
and v6pfxs_cnt) and `peerinfo_cnt` are the counters, `need_gc` the three flags.
Counters are integers and not unsigned: `TypeOK` says that none goes below zero,
so none wraps.

`MovePeer`, `MovePfxs` and `MovePairs` change the state of entries together with
the counters over them. A cascade (a peer that takes its pfx-peers along, which
may take prefixes along) is stated as its net effect on a set of pfx-peers;
`ViewLoops` shows that the loops of the code, with `deactivate_pfx` and
`pfx_deactivate_peer` (and `remove_pfx` and `pfx_remove_peer`) calling each other,
have that effect in every table order and from every reachable view.

Two walks over the whole view are inside `deactivate_peer` and `remove_peer`.
`bgpview_iter_next_pfx_peer` ends such a walk at the first prefix that has no
matching pfx-peer. `Walked` is what a walk reaches under that rule, for a table
order `ord`; `ViewIter` derives it from the iterator code, and the operators of
`ViewOps` use it, so that the effect of the early end is part of the model.

The guards of the actions of `BGPView` are what the calls demand: that the seek
before them succeeded, and the asserts at their heads (the build does not define
NDEBUG). `bgpview_iter_pfx_activate_peer` asserts that the peer is active,
although the header says that it activates the peer; callers do activate it
first.

Left out: AS paths (an entry carries a path id that the operations store and
never read), user pointers and their destructors, `disable_extended` (the same
operations on a smaller entry) and failures of memory allocation.

### The routing tables

`rt` is `routingtables_t`: the view, `peer` (perpeer_info_t), `pp`
(perpfx_perpeer_info_t) and `col` (collector_t). A user pointer that is NULL and
one to a fresh structure are not told apart. A pfx-peer that is removed keeps its
structure until the prefix is collected, as `bgpview.c` does; a RIB row finds it
again, an update replaces it.

Each handler of `routingtables.c` is an operator from tables to tables of the same
name: `ApplyRibMessage`, `ApplyPrefixUpdate`, `ApplyStateUpdate`,
`ProcessCorrupted`, `ApplyEndOfValidRib` (the merge) and what they call. The merge
walks the view in some order; every pfx-peer is treated alone and a peer gets the
same values from each of its pfx-peers, so the order does not matter and the walk
is a fold over a set. That the walks reach everything is `WalksComplete`.

The driver reads one record ahead. Its steps are `ProcessRecord`, `EndInterval`
(the record read lies past the interval), `StartInterval` and `EndOfStream`.
`phase` says where it stands; in phase `"ahead"` the next record is the one that
ended the interval before and cannot be an older one. `end_needed` is
`interval_end_needed`: it is set when a record is read and reset when an interval
ends, so it is already reset when the record that was read ahead is processed.
`stream` says at which second the stream begins. Intervals are aligned and enabled. A record holds at most one elem, since elems are handled one by one.

BGPStream is external. It is modelled from what the code reads of a record: any
sequence of valid RIB records (START, MIDDLE, END of any dump), updates, state
messages, corrupted and empty records of each collector, none more than `MaxLag`
behind the latest. Elems that the code skips (no AS path, a path that does not
start at the peer) are elems that never come.

Left out: AS paths, the end times of RIBs, the collector state, `publish_flag` and
the counters, none of which decides anything above; the wall clock; errors, after
which the driver stops. Times are small, with the constants in the order they have
in the code: backlog (60 s), longest silence (1 h), deprecation (1 day). The
16-bit offset into a dump wraps as it does in the code.

`RTDumps` and `RTUpdates` add a history variable and no behaviour: which pfx-peers
the current dump of a collector held and whether a corrupted record fell into it;
the latest update of each pfx-peer since its peer came up, and the oldest record
since a corrupted update hit the peer.

### ZMQ: the store and the server

`ZmqStore` has the window of `bgpview_io_zmq_store.c` as it is laid out: `WdwLen`
slots in a ring, `first_idx`, `first_ts` and per slot the state, the producers it has
heard from, the flags `modified` and the contents. A view's contents are the tables
`<<client, time>>` merged into it since it was last cleared. `ZmqServer` puts the
reactor of `bgpview_io_zmq_server.c` in front of it: one action is one turn of
`run_server` with the message it handles (`READY`, a view, a heartbeat, `TERM`) or
none, then the heartbeat timer with the store's timeout check, then `clients_purge`,
which walks the clients in some order and stops at the first live one. The clients
are the environment; they send any view at any time, repeat it, change intents,
fall silent and return. Frames, options, metrics and log messages are left out.

### ZMQ: the client and its broker

`ZmqBroker` has two threads: the caller (send a view, stop) and the broker's reactor,
whose handlers (`HandleMaster`, `HandleServerMsg`, `HandleServerSubMsg`,
`HandleSignal`, `HandleTimer`) run one at a time. `broker` holds the fields of
`bgpview_io_zmq_client_broker_t`: `req_list` with sequence number, retries and expiry
of each entry, `req_count`, the heartbeat and reconnection state, `master_removed`.
Sequence numbers name the views. The server is reduced to what the broker sees of it:
it reads and replies, sends heartbeats, publishes, dies and comes back without memory.
What is on a connection that the broker or the server gives up may be lost. `got`,
`sends` and `dropped` are histories. `retries_remaining` keeps its eight bits.

### Kafka: one producer, one consumer

`KafkaSync` composes the view sender (`bvc_viewsender.c`: the parent view, sync or
diff, the full-feed filter), the producer (`bgpview_io_kafka_producer.c`: the peers,
prefixes and metadata of a frame, in that order, with the offsets the metadata
carries) and a direct consumer (`bgpview_io_kafka_consumer.c`: `recv_direct_metadata`,
the rewind to the last sync frame, `recv_peers`, `recv_pfxs`, the sweep of peers
without prefixes, the failures half way). A view is the set of its active cells, with
a path each; a row is one message. librdkafka is external: it delivers what was
queued in order within a topic and in no order between topics, so the metadata of a
frame may be visible before its prefixes.

### Kafka: the global consumer

`KafkaGlobal` is the build with threads: the thread that calls
`bgpview_io_kafka_recv_view` and one worker per member of the global metadata, with
the one mutex and the two conditions of each worker. An action is a critical section,
or a stretch of code between two of them; a wait releases the mutex and may be woken
only by a signal sent while it waits. That goes for the worker on `job_state_cond`
(`pc`) and for the main thread on `worker_state_cond` (`waiter`). A topic that cannot be
connected ends the receive with an error (`main.pc = "error"`) while other workers are
still busy, and after it only `bgpview_io_kafka_destroy` is called. What they then read
was freed: such a read gives anything, or the process dies (`Crash`); so does the join of
a thread that was never started. `job` and `worker` states are those of the
code, and each assertion on them sets `aborted` when it fails. A member's part of the
view is its peers, and the times of the frames that its cells come from. The server
that writes the global metadata is not in the repository; `Publish` is what
`recv_global_metadata` accepts.

### The consumers

`ConsumerChain` is the main loop of `bgpview-consumer.c` and the consumer manager:
enabling in command-line order, processing in the order of ids, the chain state that
one consumer leaves for the next, the first failure, the destructors. A *job* is a
command line with the tables its source may deliver. The consumers are operators from
their state, the view and the chain state to a new state, what they write and whether
they succeed: `moas`, `edges`, `triplets` (`EventConsumers`); `announcedpfxs`,
`pfxorigins`, `perasvisibility`, `peerpfxorigins`, `pfx2as` (`OriginConsumers`);
`subpfx`, `routedspace`, `pergeovisibility` (`SpaceConsumers`); `archiver`,
`pathchange` (`Archiver`); `visibility` (`ConsumerViews`). The view sender is in
`KafkaSync`. A view is a table of AS paths, since origins, edges and triplets are read
from them. `FileFormat` is the view file as the sequence of groups that the code
writes, and its reader, which also meets files that were cut: a read that runs into the
end of the file inside a view has one outcome, `"cut"`, since `READ_VAL` goes on with what
its variable held and the view is never returned. Only some of the writes are checked,
so a write can fail and be reported, or fail and not be (`WriteFails`). `complete_file`
closes the file and then names it in the latest file; that file can stay as it was, or be
created and stay empty, and the process can die in between. The disk outlives the process.

`ConsumerHistory` states what every consumer has to write from the whole sequence of
views received, without the maps, windows and marks that the code maintains: an edge
is NEW if no view before held it, a MOAS is NEWREC if its last view lies within the
window, and so on.

## Runs

| run | bounds | what it shows |
|---|---|---|
| `view` | 2 peers, 2 IPv4 and 1 IPv6 prefixes; for the copy 1 of each; for the iterator 2 and 1 slots, 2 peers, every table content, every pair of masks, three bodies | counters are exact, prefixes follow pfx-peers, none is orphaned, the collector finds all; the loops agree with the operators (`LoopsAgree`); `BGPView` implements `BGPViewAbs` (`ImplementsAbs`); the parent is a consistent, exact snapshot (`ParentIsSnapshot`); a walk visits each match once, all of them if the masks agree, and reaches what `Walked` says |
| `rt_updates` | 1 peer, 2 prefixes, lag 1, 2 intervals: 3 seconds of RIBs, updates and state messages, or the last 2 of them with corrupted records too | view and bookkeeping agree, scheduled merges are done, updates in the backlog win, withdrawals stand, nothing from before a corrupted update comes back |
| `rt_collectors` | 2 collectors with a peer each, 1 prefix, 2 intervals of 1 second, no lag | what is under construction is the current dump only |
| `rt_removed_dump` | as small as shows the case | violated, see below |
| `zmq_server` | 2 clients, a window of 2, times in, before and beyond it, all timers 1 | the window, its clients and its publications agree; no table is lost; nothing waits for a client that left; a view past its timeout is passed over once at most |
| `zmq_broker` | 1 outstanding request, 2 views, 2 sends each, 2 publications, 1 crash, 1 message on the wire | the assertion on a free entry holds; no view is forgotten, sent too often or given up too early; requests settle, stopping returns, the pipe drains |
| `broker_retries` | 1 view, no retries asked for | violated, see below |
| `kafka_sync` | 3 views over 3 prefixes and 2 peers, 5 frames, a sync frame every 3, 1 fault | what is handed out is what was sent; the assertions on frames hold; the consumer never goes back and gets to each complete sync frame |
| `kafka_global` | 2 members, 4 frames, a sync frame every 2, 1 failure | the assertions on job and worker states hold; no worker runs while the caller has the view; its parts are those that arrived; a receive returns |
| `kafka_shutdown` | 2 members, 1 frame, 1 failure | violated, see below |
| `consumers` | 11 command lines, 8 prefixes, 3 peers, up to 5 views, 2 lives of an archiver | chain state, events, reports and archive are what the history of the views says |
| `edges` | as `consumers` | violated, see below |

Why the bounds are enough:

- View: a prefix has one and two pfx-peers in any mix of states; a peer has prefixes
  in one and in both tables; a prefix lies before, between and after others in a walk;
  entries are removed, collected or not, and added again. The state spaces are finite
  without further bounds. Peers are interchangeable, because every table order is
  explored; `view` uses that.
- Routing tables: two intervals let a dump begin in one and end in the next, be
  merged, and be followed by another; two prefixes let a dump hold one and lack the
  other, the only way a merge withdraws a route; three seconds put an update before
  the backlog, inside it and after the start of a dump; a lag of one second puts any
  record behind a later one. `Streams` bounds the streams by their first second and
  kinds of records: one with corrupted records begins a second before the end of the
  first interval, and empty ones are in `rt_collectors`. The backlog is two seconds, so
  that an update can lie inside it and before the dump. `BacklogRule` leaves out routes
  dated ahead of the clock: a RIB row older than the first one of its peer gets an
  offset that wraps to 18 hours in its 16 bits, after which updates are too old for it.
- ZMQ store: with two slots a time can fall before the window, into it, one slot beyond
  it and beyond it altogether; a second client is what a view can wait for, and what
  can leave. Clients are interchangeable.
- ZMQ broker: one entry with two views makes the pipe wait at the limit; two sends
  are a send and a retry; one crash and reconnection is one loss of everything on its
  way. The safety properties are also proved for any bounds.
- Kafka: five frames have two sync frames with diffs before, between and after; one
  fault is a restart of the consumer at any point, a restart of the producer once its
  queue is drained, as `bgpview_io_kafka_destroy` does (a producer that dies without
  that is `KafkaCrash.cfg`, below), or another producer's frame; views are missed
  freely. Two members are two workers on one view, one with a job and one without.
  What concerns the safety of the threads is also proved for any number of them.
- Consumers: each job has the tables that tell its consumers' cases apart (an event
  that starts, stops, returns inside and outside the window; overlapping prefixes in
  two walk orders; prefixes that come and go around a reload) and gaps between views on
  both sides of each window; one job enables consumers twice and in the wrong order,
  fails at each of them, and loses any tail of what the archiver writes.

Runs of systems that may stop (the stream ends, all views are sent, the client is
destroyed) do not check for deadlock.

### Fairness

- `ZmqBroker`: weak fairness of each handler of the reactor (the poll loop serves every
  ready socket and timer), of the clock and of a live server's read. Nothing is assumed
  of the caller, of crashes, or of replies arriving. `PipeDrains` is stated under the
  premise that the broker hears from the server again and again, because only
  `HandleServerMsg` gives the pipe its reader back.
- `KafkaSync`: weak fairness of the consumer's steps; its caller polls. Nothing is
  assumed of the producer: `SyncFramesArrive` starts from a frame that is complete.
- `KafkaGlobal`: weak fairness of the calling thread and of each worker: the scheduler
  runs every thread that is not blocked. Weak fairness suffices for the mutex: a
  worker that has released it does not take it again for ever without the main thread's
  giving it another job.
- No other property needs fairness. That a finished dump is merged is a safety
  property: the merge belongs to the end of the interval, and `NoMergeForgotten` says
  that no interval ends with a merge still scheduled, and no stream either, but for a
  dump whose end was the record read ahead (`RTLastInterval.cfg`, below).

## Where the code and its documentation disagree

Four runs of the project show such a disagreement:

- `rt_removed_dump`: a merge removes every inactive pfx-peer whose last update is older
  than a day (`routingtables_int.h:54`), those of other collectors included. A row of a
  dump in progress has no update time yet, so it is removed, and lost for its own merge.
- `broker_retries`: `client.h:253` says "number of times to retry a request before giving
  up". The eight-bit counter is decremented before it is compared with 0: with 0 retries a
  request is sent 256 times, with any other number it is given up one retry early.
- `kafka_shutdown`: `free_gc_topics` is to "clean up the worker thread"
  (`bgpview_io_kafka.c:76`). It sets `shutdown` and signals without the mutex. After a
  receive that failed half way a worker may still be busy; one that looks at `shutdown`
  just before and waits just after never wakes, and `pthread_join` does not return.
- `edges`: "if last_seen is different from current time then declare it dead"
  (`bvc_edges.c:642`); the test adds the window, so an edge that is gone stays ongoing
  until it was last seen more than a window ago. `EventsFollowHistory` is stated with the
  windows of the code.

The others have a configuration that reproduces them (TLC reports a violation) and no
run:

| configuration, module | what it shows |
|---|---|
| `ViewUnknown.cfg`, `BGPView` | `bgpview_iter_add_pfx_peer` adds the prefix, then fails if the peer does not exist, and leaves a prefix without pfx-peers. A later `remove_peer` ends its walk there and leaves pfx-peers of the removed peer behind. No caller in this repository passes an unknown peer. |
| `RTDumpsCorrupted.cfg`, `MCRTDumps` | A corrupted record clears what the peers have of the dump, but the collector takes the rest of it and merges that as the RIB. |
| `RTDumpsTwice.cfg`, `MCRTDumps` | A dump that begins after the end of another, in the same interval, discards the finished one and leaves its merge scheduled; the unfinished one is merged. |
| `RTOldRecords.cfg`, `MCRoutingTables` | The test for records older than the reference RIB is the reverse of its comment: they are dropped only while a RIB is being built. |
| `RTDownPeer.cfg`, `MCRoutingTables` | A peer-down message ends a peer's part in a dump only if the peer was up. One that was unknown until that dump is brought up by the merge although it went down in between. |
| `RTLastInterval.cfg`, `MCRoutingTables` | "Write the final interval" (`bgpcorsaro.h:231`): `interval_end_needed` is set when a record is read and reset when an interval ends. The record read ahead was read before that reset, so a last interval that holds this record alone is never ended, and a dump that ends with it is not merged. |
| `ZmqExpired.cfg`, `ZmqExpired` | "never processed again" (`bgpview_io_zmq_store.c:424`): a view for a time that has expired is taken up as a new one when the window still spans that time. |
| `KafkaCrash.cfg`, `MCKafkaSync` | A producer that dies with part of a frame queued leaves rows without an end. The next frame is announced at the offset behind them and the consumer's `assert(view_time == exp_time)` (`consumer.c:635`) fails. |
| `KafkaGap.cfg`, `KafkaGlobal` | "Found inconsistent global metadata. Skipping": after it the next diff has an unknown parent, and the rewind goes to the sync frame before the inconsistent one. The consumer goes round, also past later sync frames. |
| `GeoCache.cfg`, `MCConsumers` | The geolocation cache is cleared on a reload by walking the valid prefixes. A prefix that is absent then keeps its entry of the old database and uses it when it is back. |
| `TripletsComment.cfg`, `MCConsumers` | "Make it newrec if last end is within the current window" (`bvc_triplets.c:500`): the test is on the start of the triplet. |
| `ArchiveLatest.cfg`, `MCConsumers` | "the latest complete output file" (`bvc_archiver.c:108`): writes that failed are mostly not noticed, and `complete_file` names the file all the same. |

Met while modelling, without a configuration:

- View: `bgpview_iter_add_pfx_peer` succeeds for a peer that was removed and not yet
  collected, although `bgpview.h:668` demands an active or inactive one
  (`__iter_seek_peer` stores the mask and does not apply it). With different masks for
  prefixes and pfx-peers `bgpview_iter_next_pfx_peer` misses matches behind a prefix
  that has none (`bgpview.h:576`); every walk in this repository uses equal masks.
- Routing tables: an empty source that comes late moves the time of its collector
  back, which `routingtables_int.h` calls the last time the collector was involved.
- ZMQ: the reply is sent before the view is read, so a view that was answered can still
  be lost with the server. The timer path that abandons a request does not give the pipe
  its reader back. On stopping with nothing outstanding the broker leaves at once, also with a
  view in the pipe.
- Kafka: `send_peers` counts one byte less than it writes of each peer. The error path
  of `recv_global_view` frees metadata that a busy worker may still read, and leaves an
  entry without a worker, which `free_gc_topics` then joins. The usage text of `viewsender` says that a
  full feed has more than N prefixes; the test is `>=`.
- Consumers: `edges` and `subpfx` read the full-feed sets without testing
  `visibility_computed`. The header line of `pfx2as` (434) names its columns in another
  order than they are printed (470). The archiver's `latest` may name a file that a
  restart within its interval empties. `bgpview_io_file.h` documents 1 for a view read
  and 0 for the end of the file; the loop of `bgpview-consumer.c:759` goes on while it
  gets 0, so a view file ends it at the first view.

## Proofs

All theorems hold for every value of the constants that the assumptions allow.

### The view: `BGPViewProofs`

For any finite sets of peers and prefixes, `Spec` implies `CountersExact`,
`PfxStateFollowsPeers`, `PfxPeersHavePeer`, `GcFindsInvalid`, and also `TypeOK` and
`WalksComplete`. The assumptions are those of `ViewOps`: the sets are finite and no
prefix is of both versions.

No invariant is inductive alone. The exactness of the counters needs the states of
prefixes: `clear` resets the counters of valid prefixes only, which is right because
the others have no pfx-peers. The states of prefixes need the counters: the code tests
`peers_cnt` to decide whether a prefix follows its last pfx-peer. That no pfx-peer
outlives its peer needs the walks to be complete, which needs every valid prefix to
have a pfx-peer; and `gc` frees entries without touching the counters, which is right
only if pfx-peers of an INVALID peer are gone. `ViewOK` is the conjunction of all of
them, and it is inductive.

The argument has three layers. `CountMove` is the arithmetic: when the entries of a set
move from one state to another, the two counts change by the size of the set.
`MovePeerCounts`, `MovePfxsCounts` and `MovePairsCounts` lift it to the three operators,
so that every call preserves exact counters by construction. One lemma per call then
shows that the states of the three tables stay in step, with `PeersCntZero` and
`PfxCntZero` turning the tests on counters into facts about the tables and `WalkAll`
turning a walk into the set of all matches.

### The view and its promise: `BGPViewRefinement`

`Spec => ImplementsAbs`: the initial view maps to the empty relation, and every call on
a view that satisfies `ViewOK` is a step of `BGPViewAbs`, or leaves its four sets alone
(a collection always does). One lemma per call says what it does to the states of
single peers and pfx-peers (`DeactivatePeerEffect`, ...), another turns that into the
step (`DeactivatePeerStep`, ...). The invariant is needed because the code acts on what
its counters and its walks tell it: that `deactivate_peer` takes down all pfx-peers of
its peer follows from exact counters and complete walks, that `clear` leaves none behind
the prefixes it passes over from the states of prefixes.

### The ZMQ broker: `ZmqBrokerProofs`

For a request list of any size, any settings, and any number of views, crashes and
reconnections: `RoomForMaster`, `BoundedSends` and `NoneForgotten`. `request_retries` is any
natural number; `SendLimit` is the number of sends that an eight-bit counter makes of it.

`IInv` says that `req_count` is the number of used entries and the pipe is not read
while it is at the limit (`Counted`, `Room`); that used entries have distinct sequence
numbers, all of them taken from the pipe, and that the sends of each and those its counter
still allows, 256 of them if it is about to wrap, add up to `SendLimit + 1` (`Tracked`,
`Chances`); that the pipe holds the numbers not
yet taken, in order (`Piped`); and that a reply on the wire is for a view that the
server got (`Wire`). `RoomForMaster` alone is not inductive: a reply to a request that
was sent twice comes twice, and the second must not find the number in another entry.
`BoundedSends` needs the sum, and `NoneForgotten` needs both that sum and `Wire`. There
is a lemma for each operator that changes the request list and one for each handler.

### The threads of the global consumer: `KafkaGlobalProofs`

For any set of members, any contents of the topics and any schedule:
`WorkersAsAsserted`, `ViewIsQuiet` and `Contributors`.

`IInv` relates the place of each worker to the place of the main thread. `ThreadOK`
says for each member which of four situations holds (absent, starting, parked, working)
and what job state, worker state and place of the worker go with it. Once a receive has
failed or the client is being destroyed (`Ended`) none of them is sure to hold; `Sane`, all
that remains, says that a worker with a job does not declare itself idle. `FrameOK`
says what the main thread knows at its own place; `DataOK` says of the member's part of
the view whether it is out, in, old, or being filled. The hard case is the worker that
has reported its job complete and has not yet gone idle when the main thread comes
round with the next one.

## Only model-checked

- Liveness, everywhere: `NothingHangs`, `PipeDrains`, `SyncFramesArrive`,
  `ReceiveReturns`.
- The agreement of loops and operators (`LoopsAgree`), the copy, and the iterator.
- The routing tables, whose merge is a fold, and the consumers, whose reports are
  folds over views: what a fold yields for every set is an induction over data.
- The ZMQ store and `KafkaSync`, whose properties compare contents over a history.

## Not modelled

- `bsrt/bgpview_io_bsrt.c`, `bgpcorsaro_io.c`, `bgpcorsaro_routingtables.c`,
  `routingtables_metrics.c`: options, output files and metrics around what
  `RoutingTables` models.
- `bgpview_io_zmq.c` message frames, `bgpview_io.c` byte layout, the grouping of rows
  into Kafka messages: conversions without state of their own. The file format is
  modelled, without the filters of its writer.
- `bgpview_debug.c`, `io/test`, `bvc_test`, `bvc_myviewprocess`, `bvc_perfmonitor`: debug
  output, generators, an example and a monitor, with no state that outlives a view.
- User pointers and their destructors, path stores, allocation failures.
- Percentiles over peers, the split of `pfx2as` by IP version, blacklists, the text of
  output files, the filters of the consumer tool. Views with paths without origin are
  not fed to `pfx2as` and `peerpfxorigins`.
- The members topic of the Kafka producer (`send_members_update`), which no code here
  reads, and the ZMQ branch of the view sender, one call of the client whose broker is
  `ZmqBroker`.
- The ASCII output of the archiver.
- The Kafka build without threads, the retries of `kafka_start`, the peer filter of the
  receiver (which leaves peers unmapped).
- The settings calls of the ZMQ client and the receive side, which reads a socket.
