----------------------------- MODULE KafkaGlobal -----------------------------
(***************************************************************************)
(* The global consumer of io/kafka: recv_global_view hands the frames that *)
(* one global metadata message names to a worker thread per member, and    *)
(* puts their partial views together.  The actions Main... are the thread  *)
(* that called bgpview_io_kafka_recv_view, the actions W... the workers.   *)
(*                                                                         *)
(* The server that writes the global metadata is not in the repository;    *)
(* Publish models what recv_global_metadata accepts from it.  A member's   *)
(* part of the view is its peers, active or not, and the time of the       *)
(* frames its cells were put together from.                                *)
(***************************************************************************)
EXTENDS Integers, Sequences, FiniteSets

CONSTANTS
  Members,       \* the producers' identities
  SyncInterval,
  FirstTime, MaxTime,  \* bound: times of the global metadata
  MaxErrors,     \* bound: frames not received and topics not connected to
  Gaps           \* may inconsistent metadata be followed by a diff frame?

(* Time 0 is the time of a view that was never received. *)
ASSUME GlobalAssumption ==
  /\ SyncInterval \in Nat \ {0}
  /\ FirstTime \in Nat \ {0} /\ MaxTime \in Nat
  /\ MaxErrors \in Nat

VARIABLES
  gmeta,    \* the global metadata topic
  main,     \* where the main thread is, and its position in gmeta
  gct,      \* gc_topics, by member
  view,     \* the view that is filled
  good,     \* history: the members this frame was received from
  aborted,  \* has an assertion failed?
  errors    \* failures still to come

vars == <<gmeta, main, gct, view, good, aborted, errors>>

Times == FirstTime .. MaxTime
Never == -1
NoFrame == [time |-> 0, type |-> "none", parent_time |-> 0, members |-> {},
            last_sync_offset |-> -1]
Aligned(t) == t % SyncInterval = 0

NewTopics == [exists |-> FALSE, job |-> "IDLE", worker |-> "BUSY",
              view_state |-> "EMPTY", recv_error |-> FALSE,
              parent_view_time |-> 0, idmap |-> FALSE, mutex |-> "free",
              shutdown |-> FALSE, fresh |-> TRUE, pc |-> "none",
              waiter |-> "none"]

Init ==
  /\ gmeta = <<>>
  /\ main = [pc |-> "off", todo |-> {}, at |-> 0, frame |-> NoFrame]
  /\ gct = [m \in Members |-> NewTopics]
  /\ view = [time |-> 0, active |-> {},
             content |-> [m \in Members |-> 0]]
  /\ good = {} /\ aborted = FALSE /\ errors = MaxErrors

------------------------------------------------------------------------------
(* The metadata server: a frame of all the members that agree on it, or,   *)
(* when they do not, one that deserialize_global_metadata finds            *)
(* inconsistent.  The topic is read in MainStart and MainRecv only, so it  *)
(* need grow only where they are.                                          *)
LastTime == IF gmeta = <<>> THEN FirstTime - 1 ELSE gmeta[Len(gmeta)].time

SyncOffset ==
  LET s == {i \in DOMAIN gmeta : gmeta[i].type = "S"}
  IN  IF s = {} THEN -1 ELSE CHOOSE i \in {j - 1 : j \in s} : \A j \in s : j - 1 <= i

Publish ==
  /\ main.pc \in {"off", "recv"}
  /\ LET t == LastTime + 1
     IN  /\ t \in Times
         /\ \/ \E ms \in SUBSET Members \ {{}} :
                 gmeta' = Append(gmeta,
                   [time |-> t, type |-> IF Aligned(t) THEN "S" ELSE "D",
                    parent_time |-> IF Aligned(t) THEN t ELSE t - 1,
                    members |-> ms, last_sync_offset |-> SyncOffset])
            \/ /\ Gaps \/ Aligned(t + 1)
               /\ gmeta' = Append(gmeta, [NoFrame EXCEPT !.time = t])
  /\ UNCHANGED <<main, gct, view, good, aborted, errors>>

------------------------------------------------------------------------------
(* The consumer starts on the last message of the topic. *)
MainStart ==
  /\ main.pc = "off"
  /\ main' = [main EXCEPT !.pc = "recv",
                          !.at = IF gmeta = <<>> THEN 0 ELSE Len(gmeta) - 1]
  /\ UNCHANGED <<gmeta, gct, view, good, aborted, errors>>

(* recv_global_metadata, one message: inconsistent metadata is skipped, a  *)
(* diff against another time goes back to the last sync frame, if the      *)
(* server knows one; a sync frame clears the view.  The view has the       *)
(* frame's time from here on.                                              *)
Begin(f) ==
  /\ main' = [main EXCEPT !.pc = "assign", !.todo = f.members,
                          !.at = @ + 1, !.frame = f]
  /\ view' = IF f.type = "S"
             THEN [time |-> f.time, active |-> {},
                   content |-> [m \in Members |-> 0]]
             ELSE [view EXCEPT !.time = f.time]
  /\ good' = {}

MainRecv ==
  /\ main.pc = "recv" /\ ~aborted
  /\ main.at < Len(gmeta)
  /\ LET f == gmeta[main.at + 1]
         back == f.type = "D" /\ f.parent_time # view.time
     IN  \/ /\ f.type = "none" \/ (back /\ f.last_sync_offset = -1)
            /\ main' = [main EXCEPT !.at = @ + 1]
            /\ UNCHANGED <<view, good>>
         \/ /\ back /\ f.last_sync_offset # -1
            /\ main' = [main EXCEPT !.at = f.last_sync_offset]
            /\ UNCHANGED <<view, good>>
         \/ /\ f.type # "none" /\ ~back
            /\ Begin(f)
  /\ UNCHANGED <<gmeta, gct, aborted, errors>>

(* The main thread waits on a worker's worker_state_cond ("waits"), or has *)
(* begun with the worker and will look at its state ("here"); it deals     *)
(* with one worker at a time.                                              *)
At(m) == \A n \in Members \ {m} : gct[n].waiter = "none"

(* get_gc_topics for a member that is new: its worker is started; it is    *)
(* waited for before the member is assigned its job.                       *)
MainCreate(m) ==
  /\ main.pc = "assign" /\ m \in main.todo /\ At(m) /\ ~gct[m].exists
  /\ gct' = [gct EXCEPT ![m].exists = TRUE, ![m].pc = "start",
                        ![m].waiter = "here"]
  /\ UNCHANGED <<gmeta, main, view, good, aborted, errors>>

(* A topic of the member cannot be connected to: the entry stays in        *)
(* gc_state.topics without a worker, and recv_global_view returns -1 while *)
(* other workers are still busy with its metas, which it frees.            *)
MainConnectFails(m) ==
  /\ main.pc = "assign" /\ m \in main.todo /\ At(m) /\ ~gct[m].exists
  /\ errors > 0 /\ errors' = errors - 1
  /\ gct' = [gct EXCEPT ![m].exists = TRUE]
  /\ main' = [main EXCEPT !.pc = "error"]
  /\ UNCHANGED <<gmeta, view, good, aborted>>

(* pthread_cond_wait of worker_state_cond, in get_gc_topics for a new      *)
(* worker and in the third loop for one that has a job.                    *)
MainWait(m) ==
  /\ m \in main.todo /\ At(m) /\ ~aborted
  /\ \/ main.pc = "assign" /\ gct[m].exists /\ gct[m].fresh
     \/ main.pc = "collect" /\ gct[m].job # "IDLE"
  /\ gct[m].waiter # "waits"
  /\ gct[m].mutex = "free" /\ gct[m].worker # "IDLE"
  /\ gct' = [gct EXCEPT ![m].waiter = "waits"]
  /\ UNCHANGED <<gmeta, main, view, good, aborted, errors>>

(* pthread_cond_signal of job_state_cond: wakes the worker if it sleeps. *)
Signal(g) == IF g.pc = "sleep" THEN [g EXCEPT !.pc = "woken"] ELSE g

(* The worker gets the job. *)
Assigned(g, f) ==
  Signal([g EXCEPT !.parent_view_time = f.time,
                   !.idmap = IF f.type = "S" THEN FALSE ELSE @,
                   !.view_state = IF f.type = "S" THEN "EMPTY" ELSE @,
                   !.worker = "BUSY", !.job = "ASSIGNED", !.fresh = FALSE])

(* A member's frame is skipped when it is a diff against a view the worker *)
(* does not have.                                                          *)
Missing(g, f) == f.type = "D" /\ f.parent_time # g.parent_view_time

Assign(m) ==
  /\ gct' = [gct EXCEPT ![m] =
               [IF Missing(gct[m], main.frame) THEN [gct[m] EXCEPT !.fresh = FALSE]
                ELSE Assigned(gct[m], main.frame) EXCEPT !.waiter = "none"]]
  /\ aborted' = (\/ gct[m].job # "IDLE"
                 \/ ~Missing(gct[m], main.frame) /\ gct[m].worker # "IDLE")

MainAssign(m) ==
  /\ main.pc = "assign" /\ m \in main.todo /\ At(m) /\ ~aborted
  /\ gct[m].exists /\ gct[m].mutex = "free" /\ gct[m].waiter # "waits"
  /\ gct[m].fresh => gct[m].worker = "IDLE"
  /\ Assign(m)
  /\ main' = [main EXCEPT !.todo = @ \ {m}]
  /\ UNCHANGED <<gmeta, view, good, errors>>

Known == {m \in Members : gct[m].exists}

MainSweepStart ==
  /\ main.pc = "assign" /\ main.todo = {}
  /\ main' = [main EXCEPT !.pc = "sweep", !.todo = Known]
  /\ UNCHANGED <<gmeta, gct, view, good, aborted, errors>>

(* deactivate_worker: the peers of the worker's map are deactivated. *)
Deactivated(g) == [g EXCEPT !.parent_view_time = Never, !.view_state = "EMPTY"]
Without(v, m) == IF gct[m].idmap THEN [v EXCEPT !.active = @ \ {m}] ELSE v

\* Mutant: workers without a job are left as they are
StaleNever(g) == FALSE

Stale(g) == g.job = "IDLE" /\ g.view_state = "READY"

(* The second loop: peers of workers that contributed before and have no   *)
(* job now are deactivated.                                                *)
MainSweep(m) ==
  /\ main.pc = "sweep" /\ m \in main.todo /\ ~aborted
  /\ gct[m].mutex = "free"
  /\ gct' = IF Stale(gct[m]) THEN [gct EXCEPT ![m] = Deactivated(@)] ELSE gct
  /\ view' = IF Stale(gct[m]) THEN Without(view, m) ELSE view
  /\ aborted' = (gct[m].job = "IDLE" /\ gct[m].worker # "IDLE")
  /\ main' = [main EXCEPT !.todo = @ \ {m}]
  /\ UNCHANGED <<gmeta, good, errors>>

MainCollectStart ==
  /\ main.pc = "sweep" /\ main.todo = {}
  /\ main' = [main EXCEPT !.pc = "collect", !.todo = main.frame.members]
  /\ UNCHANGED <<gmeta, gct, view, good, aborted, errors>>

\* Mutant: the worker is not waited for
FinishedEarly(g) == g.mutex = "free"

\* Mutant: the state of the worker is read without its mutex
FinishedUnlocked(g) == g.job = "IDLE" \/ g.worker = "IDLE"

(* The main thread has the mutex, and the worker has no job or is idle     *)
(* again.                                                                  *)
Finished(g) == g.mutex = "free" /\ (g.job = "IDLE" \/ g.worker = "IDLE")

(* The third loop: a member without a job is passed over; a worker that    *)
(* failed is deactivated.                                                  *)
MainCollect(m) ==
  /\ main.pc = "collect" /\ m \in main.todo /\ At(m) /\ ~aborted
  /\ gct[m].waiter # "waits" /\ Finished(gct[m])
  /\ LET g == gct[m]
         failed == g.job # "IDLE" /\ g.recv_error
     IN  /\ gct' = [gct EXCEPT ![m] =
                      [IF failed THEN Deactivated(g) ELSE g
                         EXCEPT !.job = "IDLE", !.waiter = "none"]]
         /\ view' = IF failed THEN Without(view, m) ELSE view
         /\ aborted' = (g.job # "IDLE" /\ ~(g.job = "COMPLETE"
                          /\ (g.recv_error \/ g.view_state = "READY")))
  /\ main' = [main EXCEPT !.todo = @ \ {m}]
  /\ UNCHANGED <<gmeta, good, errors>>

(* recv_global_view returns. *)
MainReturn ==
  /\ main.pc = "collect" /\ main.todo = {}
  /\ main' = [main EXCEPT !.pc = "recv", !.frame = NoFrame]
  /\ UNCHANGED <<gmeta, gct, view, good, aborted, errors>>

(* bgpview_io_kafka_destroy, between two receives or after one that        *)
(* failed.                                                                 *)
MainDestroy ==
  /\ main.pc \in {"recv", "error"} /\ ~aborted
  /\ main' = [main EXCEPT !.pc = "destroy", !.todo = Known]
  /\ UNCHANGED <<gmeta, gct, view, good, aborted, errors>>

(* free_gc_topics sets shutdown and signals, without the mutex, and joins  *)
(* the worker.  The join of a worker that was never started is undefined:  *)
(* it comes back or the process is killed.                                 *)
Stop(g) == Signal([g EXCEPT !.shutdown = TRUE])
Joined(g) == g.pc \in {"exited", "none"}

MainFree(m) ==
  /\ main.pc = "destroy" /\ m \in main.todo
  /\ \A n \in Known : gct[n].shutdown => Joined(gct[n])
  /\ gct' = [gct EXCEPT ![m] = Stop(@)]
  /\ \/ main' = [main EXCEPT !.todo = @ \ {m}]
     \/ gct[m].pc = "none" /\ main' = [main EXCEPT !.pc = "crashed"]
  /\ UNCHANGED <<gmeta, view, good, aborted, errors>>

(* A worker that still receives reads the metas that were freed: the read  *)
(* gives something, or the process is killed.                              *)
Orphaned(m) == main.pc \in {"error", "destroy"} /\ gct[m].pc \in {"peers", "pfxs"}

Crash ==
  /\ \E m \in Members : Orphaned(m)
  /\ main' = [main EXCEPT !.pc = "crashed"]
  /\ UNCHANGED <<gmeta, gct, view, good, aborted, errors>>

------------------------------------------------------------------------------
(* thread_worker *)
Go(m, g) ==
  /\ gct' = [gct EXCEPT ![m] = g]
  /\ aborted' = (aborted \/ (g.pc = "peers" /\ g.worker # "BUSY"))
  /\ UNCHANGED <<gmeta, main>>

WLock(m) ==
  /\ gct[m].pc \in {"start", "woken"} /\ gct[m].mutex = "free"
  /\ Go(m, [gct[m] EXCEPT !.mutex = "worker",
              !.pc = IF @ = "start" THEN "top" ELSE "check"])
  /\ UNCHANGED <<view, good, errors>>

Exit(g) == [g EXCEPT !.pc = "exited", !.shutdown = TRUE, !.mutex = "free"]

\* Mutant: worker_state_cond is not signalled
IdleQuietly(g) == [g EXCEPT !.worker = "IDLE", !.pc = "check"]

(* The worker is idle, and signals worker_state_cond. *)
Idle(g) == [g EXCEPT !.worker = "IDLE", !.pc = "check",
                     !.waiter = IF @ = "waits" THEN "here" ELSE @]

WTop(m) ==
  /\ gct[m].pc = "top"
  /\ Go(m, IF gct[m].shutdown THEN Exit(gct[m]) ELSE Idle(gct[m]))
  /\ UNCHANGED <<view, good, errors>>

(* The wait for a job; between the check and the sleep the mutex is held. *)
WCheck(m) ==
  /\ gct[m].pc = "check"
  /\ Go(m, IF gct[m].shutdown THEN Exit(gct[m])
           ELSE IF gct[m].job = "ASSIGNED"
           THEN [gct[m] EXCEPT !.recv_error = FALSE, !.mutex = "free",
                               !.pc = "peers"]
           ELSE [gct[m] EXCEPT !.pc = "wait"])
  /\ UNCHANGED <<view, good, errors>>

WSleep(m) ==
  /\ gct[m].pc = "wait"
  /\ Go(m, [gct[m] EXCEPT !.pc = "sleep", !.mutex = "free"])
  /\ UNCHANGED <<view, good, errors>>

(* recv_view: the peers are added and mapped, then the prefixes; either    *)
(* may fail.                                                               *)
WPeers(m) ==
  /\ gct[m].pc = "peers"
  /\ Go(m, [gct[m] EXCEPT !.idmap = TRUE, !.pc = "pfxs"])
  /\ view' = [view EXCEPT !.active = @ \cup {m}]
  /\ UNCHANGED <<good, errors>>

WPfxs(m) ==
  /\ gct[m].pc = "pfxs"
  /\ Go(m, [gct[m] EXCEPT !.pc = "done"])
  /\ view' = [view EXCEPT !.content[m] =
       IF main.frame.type = "S" \/ @ = main.frame.parent_time
       THEN main.frame.time ELSE Never]
  /\ good' = good \cup {m}
  /\ UNCHANGED errors

WFail(m) ==
  /\ gct[m].pc \in {"peers", "pfxs"}
  /\ \/ errors > 0 /\ errors' = errors - 1
     \/ Orphaned(m) /\ UNCHANGED errors
  /\ Go(m, [gct[m] EXCEPT !.pc = "failed"])
  /\ view' = [view EXCEPT !.content[m] = Never]
  /\ UNCHANGED good

WError(m) ==
  /\ gct[m].pc = "failed" /\ gct[m].mutex = "free"
  /\ Go(m, [gct[m] EXCEPT !.recv_error = TRUE, !.pc = "done"])
  /\ UNCHANGED <<view, good, errors>>

WDone(m) ==
  /\ gct[m].pc = "done" /\ gct[m].mutex = "free"
  /\ Go(m, [gct[m] EXCEPT !.mutex = "worker", !.view_state = "READY",
                          !.job = "COMPLETE", !.pc = "top"])
  /\ UNCHANGED <<view, good, errors>>

Worker(m) ==
  /\ main.pc # "crashed"
  /\ \/ WLock(m) \/ WTop(m) \/ WCheck(m) \/ WSleep(m) \/ WPeers(m) \/ WPfxs(m)
     \/ WFail(m) \/ WError(m) \/ WDone(m)

MainStep ==
  \/ MainStart \/ MainRecv \/ MainSweepStart \/ MainCollectStart \/ MainReturn
  \/ \E m \in Members : \/ MainCreate(m) \/ MainConnectFails(m) \/ MainWait(m)
                         \/ MainAssign(m) \/ MainSweep(m) \/ MainCollect(m)
                         \/ MainFree(m)

Next == Publish \/ MainStep \/ MainDestroy \/ Crash \/ \E m \in Members : Worker(m)

(* Threads are scheduled: each takes a step it can take. *)
Spec == Init /\ [][Next]_vars /\ WF_vars(MainStep)
          /\ \A m \in Members : WF_vars(Worker(m))

------------------------------------------------------------------------------
(* The assertions of recv_global_view and thread_worker on job, worker and *)
(* view state hold, whatever the threads' order.                           *)
WorkersAsAsserted == ~aborted

(* While the caller has the view, no worker is touching it: each sleeps.   *)
ViewIsQuiet ==
  main.pc = "recv" => \A m \in Known : gct[m].pc = "sleep"

(* A view that is handed out has the peers of exactly the members whose    *)
(* frame was received, and their cells are those of the view's time.       *)
Contributors ==
  main.pc = "recv" =>
    /\ view.active = good
    /\ \A m \in good : view.content[m] = view.time

(* A receive that has a usable frame comes back, with a view or an error:  *)
(* no wait of recv_global_view or of a worker on a condition is for ever,  *)
(* so no signal of job_state_cond or worker_state_cond is lost.            *)
ReceiveReturns == (main.pc = "assign") ~> (main.pc \in {"recv", "error"})

(* free_gc_topics, io/kafka/bgpview_io_kafka.c:76, cleans up the worker    *)
(* threads: bgpview_io_kafka_destroy joins each of them, whatever it was   *)
(* doing.                                                                  *)
WorkersJoined ==
  (main.pc = "destroy")
    ~> (main.pc = "crashed" \/ \A m \in Known : Joined(gct[m]))

(* Inconsistent metadata is skipped: the consumer gets to a sync frame     *)
(* that follows it.                                                        *)
Skipped ==
  \A i \in 1 .. Cardinality(Times) :
    (i <= Len(gmeta) /\ main.at < i /\ gmeta[i].type = "S")
      ~> (main.at >= i \/ main.pc \in {"error", "destroy"})
==============================================================================
