-------------------------- MODULE KafkaGlobalProofs --------------------------
(***************************************************************************)
(* For any set of members and any order of the threads: the assertions of  *)
(* recv_global_view and thread_worker hold, the workers sleep while the    *)
(* caller has the view, and the view holds the parts of exactly the        *)
(* members that were received.                                             *)
(***************************************************************************)
EXTENDS KafkaGlobal, WellFoundedInduction, TLAPS

Frame == [time : Nat, type : {"S", "D", "none"}, parent_time : Nat,
          members : SUBSET Members, last_sync_offset : Nat \cup {-1}]

Topics == [exists : BOOLEAN, job : {"IDLE", "ASSIGNED", "COMPLETE"},
           worker : {"IDLE", "BUSY"}, view_state : {"EMPTY", "READY"},
           recv_error : BOOLEAN, parent_view_time : Nat \cup {Never},
           idmap : BOOLEAN, mutex : {"free", "worker"},
           shutdown : BOOLEAN, fresh : BOOLEAN,
           pc : {"none", "start", "top", "check", "wait", "sleep", "woken",
                 "peers", "pfxs", "failed", "done", "exited"},
           waiter : {"none", "here", "waits"}]

(* The main thread after an error or on its way out *)
Ended == {"error", "destroy", "crashed"}

MainType == [pc : {"off", "recv", "assign", "sweep", "collect"} \cup Ended,
             todo : SUBSET Members, at : Nat, frame : Frame]

ViewType == [time : Nat, active : SUBSET Members,
             content : [Members -> Nat \cup {Never}]]

Typed ==
  /\ gmeta \in Seq(Frame) /\ main \in MainType /\ gct \in [Members -> Topics]
  /\ view \in ViewType /\ good \in SUBSET Members
  /\ aborted \in BOOLEAN /\ errors \in Nat

------------------------------------------------------------------------------
(* Where a worker is.  It does not exist; it was created and not given a   *)
(* job yet; it sleeps without a job; it has a job, or has finished one     *)
(* that was not collected.                                                 *)
Absent(g) ==
  /\ g.fresh /\ g.job = "IDLE" /\ ~g.shutdown
  /\ g.pc = "none" /\ g.worker = "BUSY"

Starting(g) ==
  /\ g.fresh /\ g.job = "IDLE" /\ ~g.shutdown
  /\ \/ g.pc \in {"start", "top"} /\ g.worker = "BUSY"
     \/ g.pc \in {"check", "wait", "sleep"} /\ g.worker = "IDLE"

Parked(g) ==
  /\ ~g.fresh /\ g.job = "IDLE" /\ ~g.shutdown
  /\ g.pc = "sleep" /\ g.worker = "IDLE"

Working(g) ==
  /\ ~g.fresh /\ ~g.shutdown
  /\ \/ /\ g.job = "ASSIGNED" /\ g.worker = "BUSY"
        /\ g.pc \in {"woken", "check", "peers", "pfxs", "failed", "done"}
     \/ /\ g.job = "COMPLETE" /\ g.view_state = "READY"
        /\ \/ g.pc = "top" /\ g.worker = "BUSY"
           \/ g.pc \in {"check", "wait", "sleep"} /\ g.worker = "IDLE"

(* Once the main thread is out of recv_global_view with an error, or on    *)
(* its way out, all that is known of a worker is that it does not declare  *)
(* itself idle before it has dealt with its job.                           *)
Sane(g) == g.job = "ASSIGNED" => g.worker = "BUSY" /\ g.pc \notin {"start", "top"}

(* The mutex is the worker's in the three places where it holds it. *)
Locked(g) ==
  /\ g.mutex = IF g.pc \in {"top", "check", "wait"} THEN "worker" ELSE "free"
  /\ g.exists = (g.pc # "none")

(* The workers of a frame's members have jobs from the assignment to the   *)
(* collection; all others are parked.                                      *)
ThreadOK(mn, m, g) ==
  /\ IF mn.pc \in Ended THEN Sane(g) ELSE Locked(g)
  /\ mn.pc = "off" => Absent(g)
  /\ mn.pc = "recv" => Absent(g) \/ Parked(g)
  /\ mn.pc = "assign" =>
       IF m \in mn.todo THEN Absent(g) \/ Starting(g) \/ Parked(g)
       ELSE IF m \in mn.frame.members THEN Parked(g) \/ Working(g)
       ELSE Absent(g) \/ Parked(g)
  /\ mn.pc = "sweep" =>
       IF m \in mn.frame.members THEN Parked(g) \/ Working(g)
       ELSE Absent(g) \/ Parked(g)
  /\ mn.pc = "collect" =>
       IF m \in mn.todo THEN Parked(g) \/ Working(g)
       ELSE Absent(g) \/ Parked(g)
  /\ mn.pc = "sweep" /\ m \in mn.todo => ~Absent(g)

------------------------------------------------------------------------------
(* What the view has of a member: nothing, and a diff will not be asked    *)
(* for (Out); the part of the frame being received (In); what it had when  *)
(* this frame began (Old); a part that is being received (Part).           *)
Out(v, gd, m, g) ==
  /\ m \notin v.active /\ m \notin gd
  /\ g.view_state = "EMPTY" /\ g.parent_view_time \in {Never, 0}
  /\ g.parent_view_time = 0 => v.content[m] = 0

In(v, gd, m, g) ==
  /\ m \in v.active /\ m \in gd /\ g.idmap /\ g.view_state = "READY"
  /\ g.parent_view_time = v.time /\ v.content[m] = v.time

Base(f, v, m) == f.type = "S" \/ v.content[m] = f.parent_time

Old(f, v, gd, m, g) ==
  /\ m \notin gd /\ g.view_state = "READY"
  /\ m \in v.active => g.idmap /\ f.type # "S"
  /\ f.type # "S" => g.parent_view_time = f.parent_time /\ Base(f, v, m)

Part(f, v, gd, m, g) ==
  /\ g.parent_view_time = v.time
  /\ m \in v.active => g.idmap
  /\ g.job = "ASSIGNED" /\ g.pc # "done" => m \notin gd
  /\ g.job = "ASSIGNED" /\ g.pc \in {"woken", "check", "peers", "pfxs"} => Base(f, v, m)
  /\ g.job = "ASSIGNED" /\ g.pc \in {"peers", "pfxs"} => ~g.recv_error
  /\ g.job = "ASSIGNED" /\ g.pc = "pfxs" => m \in v.active
  /\ g.job = "COMPLETE" \/ g.pc = "done" =>
       IF g.recv_error THEN m \notin gd
       ELSE m \in gd /\ m \in v.active /\ v.content[m] = v.time

DataOK(mn, v, gd, m, g) ==
  /\ mn.pc = "off" => Out(v, gd, m, g)
  /\ mn.pc = "recv" => Out(v, gd, m, g) \/ (Parked(g) /\ In(v, gd, m, g))
  /\ mn.pc = "assign" =>
       \/ Out(v, gd, m, g) /\ ~Working(g)
       \/ /\ Parked(g) /\ Old(mn.frame, v, gd, m, g)
          /\ m \in mn.todo \/ m \notin mn.frame.members
       \/ Working(g) /\ Part(mn.frame, v, gd, m, g)
  /\ mn.pc = "sweep" =>
       \/ Out(v, gd, m, g) /\ ~Working(g)
       \/ /\ Parked(g) /\ Old(mn.frame, v, gd, m, g)
          /\ m \in mn.todo /\ m \notin mn.frame.members
       \/ Working(g) /\ Part(mn.frame, v, gd, m, g)
  /\ mn.pc = "collect" =>
       \/ Out(v, gd, m, g) /\ ~Working(g)
       \/ Parked(g) /\ In(v, gd, m, g)
       \/ Working(g) /\ Part(mn.frame, v, gd, m, g)

(* What the main thread keeps of the frame. *)
FrameOK(mn, v) ==
  /\ mn.pc \in {"assign", "collect"} => mn.todo \subseteq mn.frame.members
  /\ mn.pc \in {"assign", "sweep", "collect"} =>
       v.time = mn.frame.time /\ mn.frame.type \in {"S", "D"}
  /\ mn.pc = "off" => v.time = 0

IInv ==
  /\ Typed /\ ~aborted /\ FrameOK(main, view)
  /\ \A m \in Members : /\ ThreadOK(main, m, gct[m])
                         /\ DataOK(main, view, good, m, gct[m])

------------------------------------------------------------------------------
(* Typing *)

\* A set of numbers up to n that is not empty has a greatest one
LEMMA Greatest ==
  ASSUME NEW n \in Nat, NEW S \in SUBSET (0 .. n), S # {}
  PROVE  \E i \in S : \A j \in S : j <= i
<1> DEFINE R == OpToRel(<, Nat)
           T == {n - i : i \in S}
<1>0. IsWellFoundedOn(R, Nat)
  BY NatLessThanWellFounded, Zenon
<1>r. \A x, y \in Nat : x < y => <<x, y>> \in R
  BY Zenon DEF OpToRel
<1> HIDE DEF R
<1>1. T \subseteq Nat /\ T # {}
  <2>1. ASSUME NEW i \in S
        PROVE  n - i \in Nat /\ n - i \in T
    <3>1. i \in 0 .. n
      OBVIOUS
    <3> QED
      BY <3>1
  <2>2. PICK i \in S : TRUE
    BY Zenon
  <2> QED
    BY <2>1, <2>2, Zenon
<1>2. PICK x \in T : \A y \in T : ~(<<y, x>> \in R)
  BY <1>0, <1>1, WFMin, Zenon
<1>3. PICK i \in S : x = n - i
  OBVIOUS
<1>4. ASSUME NEW j \in S
      PROVE  j <= i
  <2>1. ~(<<n - j, n - i>> \in R)
    BY <1>2, <1>3
  <2>2. n - j \in Nat /\ n - i \in Nat /\ i \in Int /\ j \in Int
    <3>1. i \in 0 .. n /\ j \in 0 .. n
      BY Zenon
    <3> QED
      BY <3>1
  <2> QED
    BY <1>r, <2>1, <2>2
<1> QED
  BY <1>4

\* The offset of the last sync frame is -1 or an offset
LEMMA SyncOffsetType ==
  ASSUME gmeta \in Seq(Frame)
  PROVE  SyncOffset \in Nat \cup {-1}
<1> DEFINE s == {i \in DOMAIN gmeta : gmeta[i].type = "S"}
           o == {j - 1 : j \in s}
<1>1. CASE s = {}
  BY <1>1 DEF SyncOffset
<1>2. CASE s # {}
  <2>1. Len(gmeta) \in Nat /\ o \in SUBSET (0 .. Len(gmeta)) /\ o # {}
    BY <1>2
  <2>2. PICK i \in o : \A j \in o : j <= i
    BY <2>1, Greatest, Zenon
  <2>3. \A j \in s : j - 1 <= i
    BY <2>2
  <2>4. SyncOffset \in o
    BY <1>2, <2>3 DEF SyncOffset
  <2> QED
    BY <2>1, <2>4
<1> QED
  BY <1>1, <1>2

\* Every step is one of the actions
LEMMA Steps ==
  ASSUME [Next]_vars
  PROVE  \/ Publish \/ MainStart \/ MainRecv \/ MainSweepStart
         \/ MainCollectStart \/ MainReturn \/ MainDestroy \/ Crash
         \/ UNCHANGED vars
         \/ \E m \in Members :
              \/ MainCreate(m) \/ MainConnectFails(m) \/ MainWait(m)
              \/ MainAssign(m) \/ MainSweep(m) \/ MainCollect(m) \/ MainFree(m)
              \/ WLock(m) \/ WTop(m) \/ WCheck(m) \/ WSleep(m) \/ WPeers(m)
              \/ WPfxs(m) \/ WFail(m) \/ WError(m) \/ WDone(m)
  BY Zenon DEF Next, MainStep, Worker

------------------------------------------------------------------------------
(* The steps of a worker *)

\* A step of a worker that is somewhere between its creation and its exit
\* leaves it where it was in the terms of ThreadOK, and keeps what the view
\* has of its member.
Keeps(f, v, gd, m, g, h) ==
  /\ h \in Topics /\ Locked(h)
  /\ ~Absent(g) /\ ~Parked(g) /\ ~Absent(h)
  /\ Starting(g) => /\ Starting(h)
                    /\ Out(v, gd, m, g) => Out(v, gd, m, h)
  /\ Working(g) => /\ Working(h)
                   /\ Part(f, v, gd, m, g) => Part(f, v, gd, m, h)

\* The steps in which a worker does not touch the view
LEMMA QuietSteps ==
  ASSUME NEW f, NEW v, NEW gd, NEW m, NEW g \in Topics, Locked(g)
  PROVE
    /\ g.pc \in {"start", "woken"} => Keeps(f, v, gd, m, g,
         [g EXCEPT !.mutex = "worker",
                 !.pc = IF @ = "start" THEN "top" ELSE "check"])
    /\ g.pc = "top" /\ ~g.shutdown => Keeps(f, v, gd, m, g, Idle(g))
    /\ g.pc = "check" /\ ~g.shutdown /\ g.job = "ASSIGNED" => Keeps(f, v, gd, m, g,
         [g EXCEPT !.recv_error = FALSE, !.mutex = "free",
                 !.pc = "peers"])
    /\ g.pc = "check" /\ ~g.shutdown /\ g.job # "ASSIGNED" => Keeps(f, v, gd, m, g,
         [g EXCEPT !.pc = "wait"])
    /\ g.pc = "wait" => Keeps(f, v, gd, m, g,
         [g EXCEPT !.pc = "sleep", !.mutex = "free"])
    /\ g.pc = "failed" => Keeps(f, v, gd, m, g,
         [g EXCEPT !.recv_error = TRUE, !.pc = "done"])
    /\ g.pc = "done" => Keeps(f, v, gd, m, g,
         [g EXCEPT !.mutex = "worker", !.view_state = "READY",
                 !.job = "COMPLETE", !.pc = "top"])
<1> USE DEF Keeps, Locked, Absent, Parked, Starting, Working, Out, Part
<1>1. ASSUME g.pc \in {"start", "woken"}
      PROVE  Keeps(f, v, gd, m, g,
               [g EXCEPT !.mutex = "worker",
                       !.pc = IF @ = "start" THEN "top" ELSE "check"])
  <2> DEFINE h == [g EXCEPT !.mutex = "worker",
                         !.pc = IF @ = "start" THEN "top" ELSE "check"]
  <2>1. /\ h \in Topics
        /\ h.mutex = "worker"
        /\ h.pc = IF g.pc = "start" THEN "top" ELSE "check"
        /\ h.exists = g.exists /\ h.job = g.job /\ h.worker = g.worker
        /\ h.view_state = g.view_state /\ h.recv_error = g.recv_error
        /\ h.parent_view_time = g.parent_view_time /\ h.idmap = g.idmap
        /\ h.shutdown = g.shutdown /\ h.fresh = g.fresh
    BY <1>1, Zenon DEF Topics
  <2> SUFFICES Keeps(f, v, gd, m, g, h)
    OBVIOUS
  <2> HIDE DEF h
  <2> QED
    BY <1>1, <2>1
<1>3. ASSUME g.pc = "top", ~g.shutdown
      PROVE  Keeps(f, v, gd, m, g, Idle(g))
  <2> DEFINE h == Idle(g)
  <2>1. /\ h \in Topics
        /\ h.worker = "IDLE"
        /\ h.pc = "check"
        /\ h.exists = g.exists /\ h.job = g.job
        /\ h.view_state = g.view_state /\ h.recv_error = g.recv_error
        /\ h.parent_view_time = g.parent_view_time /\ h.idmap = g.idmap
        /\ h.mutex = g.mutex /\ h.shutdown = g.shutdown /\ h.fresh = g.fresh
    BY <1>3, Zenon DEF Topics, Idle
  <2> SUFFICES Keeps(f, v, gd, m, g, h)
    OBVIOUS
  <2> HIDE DEF h
  <2> QED
    BY <1>3, <2>1
<1>4. ASSUME g.pc = "check", ~g.shutdown, g.job = "ASSIGNED"
      PROVE  Keeps(f, v, gd, m, g,
               [g EXCEPT !.recv_error = FALSE, !.mutex = "free",
                       !.pc = "peers"])
  <2> DEFINE h == [g EXCEPT !.recv_error = FALSE, !.mutex = "free",
                         !.pc = "peers"]
  <2>1. /\ h \in Topics
        /\ h.recv_error = FALSE
        /\ h.mutex = "free"
        /\ h.pc = "peers"
        /\ h.exists = g.exists /\ h.job = g.job /\ h.worker = g.worker
        /\ h.view_state = g.view_state
        /\ h.parent_view_time = g.parent_view_time /\ h.idmap = g.idmap
        /\ h.shutdown = g.shutdown /\ h.fresh = g.fresh
    BY <1>4, Zenon DEF Topics
  <2> SUFFICES Keeps(f, v, gd, m, g, h)
    OBVIOUS
  <2> HIDE DEF h
  <2> QED
    BY <1>4, <2>1
<1>5. ASSUME g.pc = "check", ~g.shutdown, g.job # "ASSIGNED"
      PROVE  Keeps(f, v, gd, m, g,
               [g EXCEPT !.pc = "wait"])
  <2> DEFINE h == [g EXCEPT !.pc = "wait"]
  <2>1. /\ h \in Topics
        /\ h.pc = "wait"
        /\ h.exists = g.exists /\ h.job = g.job /\ h.worker = g.worker
        /\ h.view_state = g.view_state /\ h.recv_error = g.recv_error
        /\ h.parent_view_time = g.parent_view_time /\ h.idmap = g.idmap
        /\ h.mutex = g.mutex /\ h.shutdown = g.shutdown /\ h.fresh = g.fresh
    BY <1>5 DEF Topics
  <2> SUFFICES Keeps(f, v, gd, m, g, h)
    OBVIOUS
  <2> HIDE DEF h
  <2> QED
    BY <1>5, <2>1
<1>6. ASSUME g.pc = "wait"
      PROVE  Keeps(f, v, gd, m, g,
               [g EXCEPT !.pc = "sleep", !.mutex = "free"])
  <2> DEFINE h == [g EXCEPT !.pc = "sleep", !.mutex = "free"]
  <2>1. /\ h \in Topics
        /\ h.pc = "sleep"
        /\ h.mutex = "free"
        /\ h.exists = g.exists /\ h.job = g.job /\ h.worker = g.worker
        /\ h.view_state = g.view_state /\ h.recv_error = g.recv_error
        /\ h.parent_view_time = g.parent_view_time /\ h.idmap = g.idmap
        /\ h.shutdown = g.shutdown /\ h.fresh = g.fresh
    BY <1>6, Zenon DEF Topics
  <2> SUFFICES Keeps(f, v, gd, m, g, h)
    OBVIOUS
  <2> HIDE DEF h
  <2> QED
    BY <1>6, <2>1
<1>7. ASSUME g.pc = "failed"
      PROVE  Keeps(f, v, gd, m, g,
               [g EXCEPT !.recv_error = TRUE, !.pc = "done"])
  <2> DEFINE h == [g EXCEPT !.recv_error = TRUE, !.pc = "done"]
  <2>1. /\ h \in Topics
        /\ h.recv_error = TRUE
        /\ h.pc = "done"
        /\ h.exists = g.exists /\ h.job = g.job /\ h.worker = g.worker
        /\ h.view_state = g.view_state
        /\ h.parent_view_time = g.parent_view_time /\ h.idmap = g.idmap
        /\ h.mutex = g.mutex /\ h.shutdown = g.shutdown /\ h.fresh = g.fresh
    BY <1>7, Zenon DEF Topics
  <2> SUFFICES Keeps(f, v, gd, m, g, h)
    OBVIOUS
  <2> HIDE DEF h
  <2> QED
    BY <1>7, <2>1
<1>8. ASSUME g.pc = "done"
      PROVE  Keeps(f, v, gd, m, g,
               [g EXCEPT !.mutex = "worker", !.view_state = "READY",
                       !.job = "COMPLETE", !.pc = "top"])
  <2> DEFINE h == [g EXCEPT !.mutex = "worker", !.view_state = "READY",
                         !.job = "COMPLETE", !.pc = "top"]
  <2>1. /\ h \in Topics
        /\ h.mutex = "worker"
        /\ h.view_state = "READY"
        /\ h.job = "COMPLETE"
        /\ h.pc = "top"
        /\ h.exists = g.exists /\ h.worker = g.worker
        /\ h.recv_error = g.recv_error
        /\ h.parent_view_time = g.parent_view_time /\ h.idmap = g.idmap
        /\ h.shutdown = g.shutdown /\ h.fresh = g.fresh
    BY <1>8, Zenon DEF Topics
  <2> SUFFICES Keeps(f, v, gd, m, g, h)
    OBVIOUS
  <2> HIDE DEF h
  <2> QED
    BY <1>8, <2>1
<1> QED
  BY <1>1, <1>3, <1>4, <1>5, <1>6, <1>7, <1>8, ZenonT(40)

\* The steps in which a worker fills the view, or fails to
LEMMA LoudSteps ==
  ASSUME NEW f \in Frame, NEW v \in ViewType, NEW gd, NEW m \in Members,
         NEW g \in Topics, Locked(g), Working(g), Part(f, v, gd, m, g),
         v.time = f.time
  PROVE
    /\ g.pc = "peers" =>
         LET h == [g EXCEPT !.idmap = TRUE, !.pc = "pfxs"]
             w == [v EXCEPT !.active = @ \cup {m}]
         IN  h \in Topics /\ Locked(h) /\ Working(h) /\ Part(f, w, gd, m, h)
    /\ g.pc = "pfxs" =>
         LET h == [g EXCEPT !.pc = "done"]
             w == [v EXCEPT !.content[m] =
                     IF f.type = "S" \/ @ = f.parent_time THEN f.time ELSE Never]
         IN  h \in Topics /\ Locked(h) /\ Working(h) /\ Part(f, w, gd \cup {m}, m, h)
    /\ g.pc \in {"peers", "pfxs"} =>
         LET h == [g EXCEPT !.pc = "failed"]
             w == [v EXCEPT !.content[m] = Never]
         IN  h \in Topics /\ Locked(h) /\ Working(h) /\ Part(f, w, gd, m, h)
<1> USE DEF Locked, Working, Part, Base
<1>1. ASSUME g.pc = "peers"
      PROVE  LET h == [g EXCEPT !.idmap = TRUE, !.pc = "pfxs"]
                 w == [v EXCEPT !.active = @ \cup {m}]
             IN  h \in Topics /\ Locked(h) /\ Working(h) /\ Part(f, w, gd, m, h)
  <2> DEFINE h == [g EXCEPT !.idmap = TRUE, !.pc = "pfxs"]
             w == [v EXCEPT !.active = @ \cup {m}]
  <2>1. /\ h \in Topics /\ h.idmap = TRUE /\ h.pc = "pfxs"
        /\ h.exists = g.exists /\ h.job = g.job /\ h.worker = g.worker
        /\ h.recv_error = g.recv_error /\ h.view_state = g.view_state
        /\ h.parent_view_time = g.parent_view_time /\ h.mutex = g.mutex
        /\ h.shutdown = g.shutdown /\ h.fresh = g.fresh
    BY <1>1, Zenon DEF Topics
  <2>2. /\ w.active = v.active \cup {m} /\ w.time = v.time
        /\ w.content = v.content
    BY DEF ViewType
  <2> SUFFICES h \in Topics /\ Locked(h) /\ Working(h) /\ Part(f, w, gd, m, h)
    OBVIOUS
  <2> HIDE DEF h, w
  <2> QED
    BY <1>1, <2>1, <2>2
<1>2. ASSUME g.pc = "pfxs"
      PROVE  LET h == [g EXCEPT !.pc = "done"]
                 w == [v EXCEPT !.content[m] =
                     IF f.type = "S" \/ @ = f.parent_time THEN f.time ELSE Never]
             IN  /\ h \in Topics /\ Locked(h) /\ Working(h)
                 /\ Part(f, w, gd \cup {m}, m, h)
  <2> DEFINE h == [g EXCEPT !.pc = "done"]
             w == [v EXCEPT !.content[m] =
                     IF f.type = "S" \/ @ = f.parent_time THEN f.time ELSE Never]
  <2>1. /\ h \in Topics /\ h.idmap = g.idmap /\ h.pc = "done"
        /\ h.exists = g.exists /\ h.job = g.job /\ h.worker = g.worker
        /\ h.recv_error = g.recv_error /\ h.view_state = g.view_state
        /\ h.parent_view_time = g.parent_view_time /\ h.mutex = g.mutex
        /\ h.shutdown = g.shutdown /\ h.fresh = g.fresh
    BY <1>2 DEF Topics
  <2>2. w.active = v.active /\ w.time = v.time /\ w.content[m] = f.time
    BY <1>2 DEF ViewType
  <2> SUFFICES h \in Topics /\ Locked(h) /\ Working(h) /\ Part(f, w, gd \cup {m}, m, h)
    OBVIOUS
  <2> HIDE DEF h, w
  <2> QED
    BY <1>2, <2>1, <2>2
<1>3. ASSUME g.pc \in {"peers", "pfxs"}
      PROVE  LET h == [g EXCEPT !.pc = "failed"]
                 w == [v EXCEPT !.content[m] = Never]
             IN  h \in Topics /\ Locked(h) /\ Working(h) /\ Part(f, w, gd, m, h)
  <2> DEFINE h == [g EXCEPT !.pc = "failed"]
             w == [v EXCEPT !.content[m] = Never]
  <2>1. /\ h \in Topics /\ h.idmap = g.idmap /\ h.pc = "failed"
        /\ h.exists = g.exists /\ h.job = g.job /\ h.worker = g.worker
        /\ h.recv_error = g.recv_error /\ h.view_state = g.view_state
        /\ h.parent_view_time = g.parent_view_time /\ h.mutex = g.mutex
        /\ h.shutdown = g.shutdown /\ h.fresh = g.fresh
    BY <1>3 DEF Topics
  <2>2. w.active = v.active /\ w.time = v.time
    BY DEF ViewType
  <2> SUFFICES h \in Topics /\ Locked(h) /\ Working(h) /\ Part(f, w, gd, m, h)
    OBVIOUS
  <2> HIDE DEF h, w
  <2> QED
    BY <1>3, <2>1, <2>2
<1> QED
  BY <1>1, <1>2, <1>3, Zenon

\* A step of the worker of m, or of the main thread on m, changes nothing
\* of another member.
LEMMA OtherMember ==
  ASSUME NEW mn, NEW mx, NEW v, NEW w, NEW gd, NEW ge, NEW n, NEW g,
         mx.pc = mn.pc, mx.frame = mn.frame, n \in mx.todo <=> n \in mn.todo,
         w.time = v.time, n \in w.active <=> n \in v.active,
         w.content[n] = v.content[n], n \in ge <=> n \in gd,
         ThreadOK(mn, n, g), DataOK(mn, v, gd, n, g)
  PROVE  ThreadOK(mx, n, g) /\ DataOK(mx, w, ge, n, g)
<1>1. /\ Out(v, gd, n, g) => Out(w, ge, n, g)
      /\ In(v, gd, n, g) => In(w, ge, n, g)
      /\ Old(mn.frame, v, gd, n, g) => Old(mx.frame, w, ge, n, g)
      /\ Part(mn.frame, v, gd, n, g) => Part(mx.frame, w, ge, n, g)
  BY DEF Out, In, Old, Part, Base
<1>2. ThreadOK(mx, n, g)
  BY DEF ThreadOK
<1>3. DataOK(mx, w, ge, n, g)
  BY <1>1 DEF DataOK
<1> QED
  BY <1>2, <1>3

\* So the invariant need only be shown for that member.
LEMMA OneMember ==
  ASSUME IInv, NEW m \in Members, NEW h \in Topics,
         gct' = [gct EXCEPT ![m] = h],
         main' \in MainType, view' \in ViewType, good' \in SUBSET Members,
         gmeta' = gmeta, errors' \in Nat, aborted' = FALSE,
         main'.pc = main.pc, main'.frame = main.frame,
         main'.todo \cup {m} = main.todo \cup {m},
         view'.time = view.time, view'.active \cup {m} = view.active \cup {m},
         \A n \in Members \ {m} : view'.content[n] = view.content[n],
         good' \cup {m} = good \cup {m},
         main'.todo \subseteq main.todo,
         ThreadOK(main', m, h), DataOK(main', view', good', m, h)
  PROVE  IInv'
<1>1. /\ gct' \in [Members -> Topics] /\ gct'[m] = h
      /\ \A n \in Members \ {m} : gct'[n] = gct[n]
  BY DEF IInv, Typed
<1>2. Typed'
  BY <1>1, Zenon DEF IInv, Typed
<1>3. FrameOK(main', view')
  BY DEF IInv, FrameOK
<1>4. ASSUME NEW n \in Members
      PROVE  ThreadOK(main', n, gct'[n]) /\ DataOK(main', view', good', n, gct'[n])
  <2>1. CASE n = m
    BY <1>1, <2>1
  <2>2. CASE n # m
    <3>1. ThreadOK(main, n, gct[n]) /\ DataOK(main, view, good, n, gct[n])
      BY DEF IInv
    <3>2. /\ n \in main'.todo <=> n \in main.todo
          /\ n \in view'.active <=> n \in view.active
          /\ n \in good' <=> n \in good
          /\ view'.content[n] = view.content[n]
          /\ gct'[n] = gct[n]
      BY <1>1, <2>2
    <3> QED
      BY <3>1, <3>2, OtherMember
  <2> QED
    BY <2>1, <2>2
<1> QED
  BY <1>2, <1>3, <1>4 DEF IInv

\* A step of a worker keeps the invariant while the main thread is in
\* recv_global_view or with the caller
LEMMA WorkerStep ==
  ASSUME IInv, NEW m \in Members, Worker(m), main.pc \notin Ended
  PROVE  IInv'
<1> DEFINE g == gct[m]
           f == main.frame
<1>1. /\ g \in Topics /\ main \in MainType /\ f \in Frame /\ view \in ViewType
      /\ good \in SUBSET Members /\ errors \in Nat /\ ~aborted
      /\ gct \in [Members -> Topics]
  BY DEF IInv, Typed, MainType
<1>2. /\ ThreadOK(main, m, g) /\ DataOK(main, view, good, m, g)
      /\ Locked(g) /\ FrameOK(main, view)
  BY DEF IInv, ThreadOK
<1>3. main' = main /\ gmeta' = gmeta
  BY ZenonT(40) DEF Worker, WLock, WTop, WCheck, WSleep, WPeers, WPfxs, WFail, WError, WDone, Go
<1>a. ASSUME NEW h \in Topics, Keeps(f, view, good, m, g, h)
      PROVE  ThreadOK(main, m, h) /\ DataOK(main, view, good, m, h)
  <2>1. /\ Starting(g) \/ Working(g)
        /\ ThreadOK(main, m, h)
    BY <1>1, <1>2, <1>a DEF Keeps, ThreadOK, MainType
  <2>2. ~(Starting(h) /\ Working(h)) /\ ~(Starting(g) /\ Working(g))
    BY DEF Starting, Working
  <2> QED
    BY <1>1, <1>2, <1>a, <2>1, <2>2 DEF Keeps, ThreadOK, DataOK, MainType
<1>b. ASSUME NEW h \in Topics, Keeps(f, view, good, m, g, h),
             gct' = [gct EXCEPT ![m] = h], aborted' = FALSE,
             UNCHANGED <<view, good, errors>>
      PROVE  IInv'
  BY <1>1, <1>3, <1>a, <1>b, OneMember, Zenon
<1>4. CASE WLock(m)
  <2> DEFINE h == [g EXCEPT !.mutex = "worker",
                            !.pc = IF @ = "start" THEN "top" ELSE "check"]
  <2>1. g.pc \in {"start", "woken"}
    BY <1>4 DEF WLock
  <2>2. Keeps(f, view, good, m, g, h)
    BY <1>1, <1>2, <2>1, QuietSteps, Zenon
  <2>3. h \in Topics
    BY <2>2 DEF Keeps
  <2>4. h.pc # "peers"
    BY <1>1, <2>1 DEF Topics
  <2>5. gct' = [gct EXCEPT ![m] = h] /\ aborted' = FALSE /\ UNCHANGED <<view, good, errors>>
    BY <1>1, <1>4, <2>4, Zenon DEF WLock, Go
  <2> QED
    BY <1>b, <2>2, <2>3, <2>5, Zenon
<1>5. CASE WTop(m) \/ WCheck(m)
  <2>1. ~g.shutdown
    BY <1>1, <1>2 DEF ThreadOK, MainType, Absent, Starting, Parked, Working
  <2>2. CASE WTop(m) /\ ~g.shutdown
    <3> DEFINE h == Idle(g)
    <3>1. Keeps(f, view, good, m, g, h)
      BY <1>1, <1>2, <2>2, QuietSteps, Zenon DEF WTop
    <3>2. h \in Topics /\ h.pc # "peers"
      BY <1>1, <3>1 DEF Keeps, Topics, Idle
    <3>3. gct' = [gct EXCEPT ![m] = h] /\ aborted' = FALSE /\ UNCHANGED <<view, good, errors>>
      BY <1>1, <2>2, <3>2, Zenon DEF WTop, Go
    <3> QED
      BY <1>b, <3>1, <3>2, <3>3, Zenon
  <2>3. CASE WCheck(m) /\ ~g.shutdown /\ g.job = "ASSIGNED"
    <3> DEFINE h == [g EXCEPT !.recv_error = FALSE, !.mutex = "free", !.pc = "peers"]
    <3>1. Keeps(f, view, good, m, g, h)
      BY <1>1, <1>2, <2>3, QuietSteps, Zenon DEF WCheck
    <3>2. Working(g)
      BY <1>1, <1>2, <2>3, <3>1 DEF ThreadOK, MainType, Keeps, Starting
    <3>3. h \in Topics /\ h.worker = "BUSY"
      BY <1>1, <2>3, <3>1, <3>2 DEF Keeps, Topics, Working
    <3>4. gct' = [gct EXCEPT ![m] = h] /\ aborted' = FALSE /\ UNCHANGED <<view, good, errors>>
      BY <1>1, <2>3, <3>3, Zenon DEF WCheck, Go
    <3> QED
      BY <1>b, <3>1, <3>3, <3>4, Zenon
  <2>4. CASE WCheck(m) /\ ~g.shutdown /\ g.job # "ASSIGNED"
    <3> DEFINE h == [g EXCEPT !.pc = "wait"]
    <3>1. Keeps(f, view, good, m, g, h)
      BY <1>1, <1>2, <2>4, QuietSteps, Zenon DEF WCheck
    <3>2. h \in Topics /\ h.pc # "peers"
      BY <1>1, <3>1 DEF Keeps, Topics
    <3>3. gct' = [gct EXCEPT ![m] = h] /\ aborted' = FALSE /\ UNCHANGED <<view, good, errors>>
      BY <1>1, <2>4, <3>2, Zenon DEF WCheck, Go
    <3> QED
      BY <1>b, <3>1, <3>2, <3>3, Zenon
  <2> QED
    BY <1>5, <2>1, <2>2, <2>3, <2>4
<1>6. CASE WSleep(m)
  <2> DEFINE h == [g EXCEPT !.pc = "sleep", !.mutex = "free"]
  <2>1. Keeps(f, view, good, m, g, h)
    BY <1>1, <1>2, <1>6, QuietSteps, Zenon DEF WSleep
  <2>2. h \in Topics /\ h.pc # "peers"
    BY <1>1, <2>1 DEF Keeps, Topics
  <2>3. gct' = [gct EXCEPT ![m] = h] /\ aborted' = FALSE /\ UNCHANGED <<view, good, errors>>
    BY <1>1, <1>6, <2>2, Zenon DEF WSleep, Go
  <2> QED
    BY <1>b, <2>1, <2>2, <2>3, Zenon
<1>7. CASE WError(m)
  <2> DEFINE h == [g EXCEPT !.recv_error = TRUE, !.pc = "done"]
  <2>1. Keeps(f, view, good, m, g, h)
    BY <1>1, <1>2, <1>7, QuietSteps, Zenon DEF WError
  <2>2. h \in Topics /\ h.pc # "peers"
    BY <1>1, <2>1 DEF Keeps, Topics
  <2>3. gct' = [gct EXCEPT ![m] = h] /\ aborted' = FALSE /\ UNCHANGED <<view, good, errors>>
    BY <1>1, <1>7, <2>2, Zenon DEF WError, Go
  <2> QED
    BY <1>b, <2>1, <2>2, <2>3, Zenon
<1>8. CASE WDone(m)
  <2> DEFINE h == [g EXCEPT !.mutex = "worker", !.view_state = "READY",
                            !.job = "COMPLETE", !.pc = "top"]
  <2>1. Keeps(f, view, good, m, g, h)
    BY <1>1, <1>2, <1>8, QuietSteps, Zenon DEF WDone
  <2>2. h \in Topics /\ h.pc # "peers"
    BY <1>1, <2>1 DEF Keeps, Topics
  <2>3. gct' = [gct EXCEPT ![m] = h] /\ aborted' = FALSE /\ UNCHANGED <<view, good, errors>>
    BY <1>1, <1>8, <2>2, Zenon DEF WDone, Go
  <2> QED
    BY <1>b, <2>1, <2>2, <2>3, Zenon
<1>c. ASSUME g.pc \in {"peers", "pfxs"}
      PROVE  /\ Working(g) /\ Part(f, view, good, m, g)
             /\ main.pc \in {"assign", "sweep", "collect"} /\ view.time = f.time
  <2>1. ~Absent(g) /\ ~Parked(g) /\ ~Starting(g)
    BY <1>c DEF Absent, Parked, Starting
  <2>2. Working(g) /\ main.pc \in {"assign", "sweep", "collect"}
    BY <1>1, <1>2, <2>1 DEF ThreadOK, MainType
  <2> QED
    BY <1>2, <2>1, <2>2 DEF DataOK, FrameOK
<1>d. ASSUME NEW h \in Topics, NEW w \in ViewType, NEW ge \in SUBSET Members,
             Locked(h), Working(h), Part(f, w, ge, m, h),
             g.pc \in {"peers", "pfxs"}, ge \cup {m} = good \cup {m},
             w.time = view.time, w.active \cup {m} = view.active \cup {m},
             \A n \in Members \ {m} : w.content[n] = view.content[n],
             gct' = [gct EXCEPT ![m] = h], aborted' = FALSE,
             view' = w, good' = ge, errors' \in Nat
      PROVE  IInv'
  <2>1. ~Absent(g) /\ ~Parked(g) /\ ~Starting(g)
    BY <1>d DEF Absent, Parked, Starting
  <2>2. main.pc \in {"assign", "sweep", "collect"}
    BY <1>c, <1>d
  <2>a. ~Absent(h)
    BY <1>d DEF Absent, Working
  <2>3. ThreadOK(main, m, h)
    BY <1>2, <1>d, <2>1, <2>2, <2>a, SMTT(20) DEF ThreadOK
  <2>4. DataOK(main, w, ge, m, h)
    BY <1>d, <2>2 DEF DataOK
  <2> QED
    BY <1>1, <1>3, <1>d, <2>3, <2>4, OneMember, Zenon
<1>9. CASE WPeers(m)
  <2> DEFINE h == [g EXCEPT !.idmap = TRUE, !.pc = "pfxs"]
             w == [view EXCEPT !.active = @ \cup {m}]
  <2>1. g.pc = "peers"
    BY <1>9 DEF WPeers
  <2>2. h \in Topics /\ Locked(h) /\ Working(h) /\ Part(f, w, good, m, h)
    BY <1>1, <1>2, <1>c, <2>1, LoudSteps, Zenon
  <2>3. /\ w \in ViewType /\ w.time = view.time /\ w.content = view.content
        /\ w.active = view.active \cup {m}
    BY <1>1 DEF ViewType
  <2>4. gct' = [gct EXCEPT ![m] = h] /\ aborted' = FALSE /\ view' = w
        /\ good' = good /\ errors' = errors
    <3>1. h.pc # "peers"
      BY <1>1 DEF Topics
    <3> QED
      BY <1>1, <1>9, <3>1, Zenon DEF WPeers, Go
  <2> HIDE DEF h, w
  <2> QED
    BY <1>1, <1>d, <2>1, <2>2, <2>3, <2>4, Zenon
<1>10. CASE WPfxs(m)
  <2> DEFINE h == [g EXCEPT !.pc = "done"]
             w == [view EXCEPT !.content[m] =
                     IF f.type = "S" \/ @ = f.parent_time THEN f.time ELSE Never]
  <2>1. g.pc = "pfxs"
    BY <1>10 DEF WPfxs
  <2>2. h \in Topics /\ Locked(h) /\ Working(h) /\ Part(f, w, good \cup {m}, m, h)
    BY <1>1, <1>2, <1>c, <2>1, LoudSteps, Zenon
  <2>3. /\ w \in ViewType /\ w.time = view.time /\ w.active = view.active
        /\ \A n \in Members \ {m} : w.content[n] = view.content[n]
    BY <1>1 DEF ViewType, Frame
  <2>4. gct' = [gct EXCEPT ![m] = h] /\ aborted' = FALSE /\ view' = w
        /\ good' = good \cup {m} /\ errors' = errors
    <3>1. h.pc # "peers"
      BY <1>1 DEF Topics
    <3> QED
      BY <1>1, <1>10, <3>1, Zenon DEF WPfxs, Go
  <2> HIDE DEF h, w
  <2> DEFINE ge == good \cup {m}
  <2>5. ge \in SUBSET Members /\ ge \cup {m} = good \cup {m}
    BY <1>1
  <2>6. Part(f, w, ge, m, h) /\ good' = ge
    BY <2>2, <2>4
  <2> HIDE DEF ge
  <2> QED
    BY <1>1, <1>d, <2>1, <2>2, <2>3, <2>4, <2>5, <2>6, Zenon
<1>11. CASE WFail(m)
  <2> DEFINE h == [g EXCEPT !.pc = "failed"]
             w == [view EXCEPT !.content[m] = Never]
  <2>1. g.pc \in {"peers", "pfxs"}
    BY <1>11 DEF WFail
  <2>2. h \in Topics /\ Locked(h) /\ Working(h) /\ Part(f, w, good, m, h)
    BY <1>1, <1>2, <1>c, <2>1, LoudSteps, Zenon
  <2>3. /\ w \in ViewType /\ w.time = view.time /\ w.active = view.active
        /\ \A n \in Members \ {m} : w.content[n] = view.content[n]
    BY <1>1 DEF ViewType
  <2>4. gct' = [gct EXCEPT ![m] = h] /\ aborted' = FALSE /\ view' = w
        /\ good' = good
    <3>1. h.pc # "peers"
      BY <1>1 DEF Topics
    <3> QED
      BY <1>1, <1>11, <3>1, Zenon DEF WFail, Go
  <2>5. errors' \in Nat
    <3>1. (errors > 0 /\ errors' = errors - 1) \/ errors' = errors
      BY <1>11 DEF WFail
    <3> QED
      BY <1>1, <3>1
  <2> HIDE DEF h, w
  <2> QED
    BY <1>1, <1>d, <2>1, <2>2, <2>3, <2>4, <2>5, Zenon
<1> QED
  BY <1>4, <1>5, <1>6, <1>7, <1>8, <1>9, <1>10, <1>11 DEF Worker

------------------------------------------------------------------------------
(* After an error, and on the way out *)

\* Nothing is asked of the view any more.
LEMMA EndedState ==
  ASSUME gmeta' \in Seq(Frame), main' \in MainType, main'.pc \in Ended,
         gct' \in [Members -> Topics], view' \in ViewType,
         good' \in SUBSET Members, aborted' = FALSE, errors' \in Nat,
         \A m \in Members : Sane(gct'[m])
  PROVE  IInv'
<1>1. FrameOK(main', view')
  BY Zenon DEF FrameOK, Ended
<1>2. \A m \in Members : /\ ThreadOK(main', m, gct'[m])
                         /\ DataOK(main', view', good', m, gct'[m])
  BY ZenonT(20) DEF ThreadOK, DataOK, Ended
<1> QED
  BY <1>1, <1>2, Zenon DEF IInv, Typed

\* Wherever the threads are, a worker is sane.
LEMMA Sanity ==
  ASSUME IInv, NEW m \in Members
  PROVE  Sane(gct[m])
<1>1. ThreadOK(main, m, gct[m]) /\ main \in MainType
  BY DEF IInv, Typed
<1>2. CASE main.pc \in Ended
  BY <1>1, <1>2 DEF ThreadOK
<1>3. CASE main.pc \notin Ended
  <2>1. Absent(gct[m]) \/ Starting(gct[m]) \/ Parked(gct[m]) \/ Working(gct[m])
    BY <1>1, <1>3 DEF ThreadOK, MainType
  <2> QED
    BY <2>1 DEF Absent, Starting, Parked, Working, Sane
<1> QED
  BY <1>2, <1>3

\* A step on one worker keeps it sane.
LEMMA EndedMember ==
  ASSUME IInv, NEW m \in Members, NEW h \in Topics, Sane(h),
         gct' = [gct EXCEPT ![m] = h], gmeta' = gmeta, aborted' = FALSE,
         main' \in MainType, main'.pc \in Ended, view' \in ViewType,
         good' \in SUBSET Members, errors' \in Nat
  PROVE  IInv'
<1>1. gct \in [Members -> Topics] /\ gmeta \in Seq(Frame)
  BY DEF IInv, Typed
<1>2. /\ gct' \in [Members -> Topics] /\ gct'[m] = h
      /\ \A n \in Members \ {m} : gct'[n] = gct[n]
  BY <1>1
<1>3. \A n \in Members : Sane(gct'[n])
  BY <1>2, Sanity, Zenon
<1> QED
  BY <1>1, <1>2, <1>3, EndedState, Zenon

\* A worker that goes on after an error keeps the invariant.
LEMMA OrphanStep ==
  ASSUME IInv, NEW m \in Members, Worker(m), main.pc \in Ended
  PROVE  IInv'
<1> DEFINE g == gct[m]
<1>1. /\ g \in Topics /\ main \in MainType /\ view \in ViewType
      /\ good \in SUBSET Members /\ errors \in Nat /\ ~aborted
      /\ gct \in [Members -> Topics] /\ main.frame \in Frame
  BY DEF IInv, Typed, MainType
<1>2. Sane(g)
  BY Sanity
<1>3. main' = main /\ gmeta' = gmeta
  BY ZenonT(40) DEF Worker, WLock, WTop, WCheck, WSleep, WPeers, WPfxs, WFail, WError, WDone, Go
<1>4. view' \in ViewType /\ good' \in SUBSET Members /\ errors' \in Nat
  <2>1. CASE WPeers(m)
    BY <1>1, <2>1 DEF WPeers, ViewType
  <2>2. CASE WPfxs(m)
    <3> DEFINE c == IF main.frame.type = "S" \/ view.content[m] = main.frame.parent_time
                    THEN main.frame.time ELSE Never
    <3>1. c \in Nat \cup {Never}
      BY <1>1 DEF Frame
    <3>2. view' = [view EXCEPT !.content[m] = c] /\ good' = good \cup {m}
          /\ errors' = errors
      BY <1>1, <2>2, Zenon DEF WPfxs
    <3> HIDE DEF c
    <3> QED
      BY <1>1, <3>1, <3>2 DEF ViewType
  <2>3. CASE WFail(m)
    <3>1. /\ view' = [view EXCEPT !.content[m] = Never] /\ good' = good
          /\ (errors > 0 /\ errors' = errors - 1) \/ errors' = errors
      BY <2>3 DEF WFail
    <3> QED
      BY <1>1, <3>1 DEF ViewType
  <2>4. CASE UNCHANGED <<view, good, errors>>
    BY <1>1, <2>4
  <2> QED
    BY <2>1, <2>2, <2>3, <2>4, ZenonT(20)
       DEF Worker, WLock, WTop, WCheck, WSleep, WError, WDone
<1>5. ASSUME NEW h \in Topics, Sane(h), h.pc = "peers" => h.worker = "BUSY", Go(m, h)
      PROVE  IInv'
  <2>1. gct' = [gct EXCEPT ![m] = h] /\ aborted' = FALSE
    BY <1>1, <1>5, Zenon DEF Go
  <2> QED
    BY <1>1, <1>3, <1>4, <1>5, <2>1, EndedMember, Zenon
<1>6. CASE WLock(m)
  <2> DEFINE h == [g EXCEPT !.mutex = "worker",
                            !.pc = IF @ = "start" THEN "top" ELSE "check"]
  <2>1. Go(m, h) /\ g.pc \in {"start", "woken"}
    BY <1>6 DEF WLock
  <2>2. /\ h \in Topics /\ h.job = g.job /\ h.worker = g.worker
        /\ h.pc = IF g.pc = "start" THEN "top" ELSE "check"
    BY <1>1, Zenon DEF Topics
  <2> HIDE DEF h
  <2>3. Sane(h) /\ h.pc # "peers"
    BY <1>2, <2>1, <2>2 DEF Sane
  <2> QED
    BY <1>5, <2>1, <2>2, <2>3, Zenon
<1>7. CASE (WTop(m) \/ WCheck(m)) /\ g.shutdown
  <2>1. Go(m, Exit(g))
    BY <1>7, Zenon DEF WTop, WCheck
  <2>2. /\ Exit(g) \in Topics /\ Exit(g).job = g.job
        /\ Exit(g).worker = g.worker /\ Exit(g).pc = "exited"
    BY <1>1, Zenon DEF Topics, Exit
  <2>3. Sane(Exit(g)) /\ Exit(g).pc # "peers"
    BY <1>2, <2>2 DEF Sane
  <2> QED
    BY <1>5, <2>1, <2>2, <2>3, Zenon
<1>8. CASE WTop(m) /\ ~g.shutdown
  <2>1. Go(m, Idle(g)) /\ g.pc = "top"
    BY <1>8, Zenon DEF WTop
  <2>2. Idle(g) \in Topics /\ Idle(g).job = g.job /\ Idle(g).pc = "check"
    BY <1>1, Zenon DEF Topics, Idle
  <2>3. Sane(Idle(g)) /\ Idle(g).pc # "peers"
    BY <1>2, <2>1, <2>2 DEF Sane
  <2> QED
    BY <1>5, <2>1, <2>2, <2>3, Zenon
<1>9. CASE WCheck(m) /\ ~g.shutdown
  <2> DEFINE h == IF g.job = "ASSIGNED"
                  THEN [g EXCEPT !.recv_error = FALSE, !.mutex = "free",
                                 !.pc = "peers"]
                  ELSE [g EXCEPT !.pc = "wait"]
  <2>1. Go(m, h)
    BY <1>9, Zenon DEF WCheck
  <2>2. /\ h \in Topics /\ h.job = g.job /\ h.worker = g.worker
        /\ h.pc = IF g.job = "ASSIGNED" THEN "peers" ELSE "wait"
    BY <1>1, Zenon DEF Topics
  <2> HIDE DEF h
  <2>3. Sane(h) /\ (h.pc = "peers" => h.worker = "BUSY")
    BY <1>2, <2>2 DEF Sane
  <2> QED
    BY <1>5, <2>1, <2>2, <2>3, Zenon
<1>10. CASE WDone(m)
  <2> DEFINE h == [g EXCEPT !.mutex = "worker", !.view_state = "READY",
                            !.job = "COMPLETE", !.pc = "top"]
  <2>1. Go(m, h)
    BY <1>10 DEF WDone
  <2>2. h \in Topics /\ h.job = "COMPLETE" /\ h.pc = "top"
    BY <1>1, Zenon DEF Topics
  <2> HIDE DEF h
  <2>3. Sane(h) /\ h.pc # "peers"
    BY <2>2 DEF Sane
  <2> QED
    BY <1>5, <2>1, <2>2, <2>3, Zenon
<1>11. ASSUME NEW h \in Topics, Go(m, h), h.job = g.job, h.worker = g.worker,
              h.pc \in {"sleep", "pfxs", "done", "failed"}
       PROVE  IInv'
  <2>1. Sane(h) /\ h.pc # "peers"
    BY <1>2, <1>11 DEF Sane
  <2> QED
    BY <1>5, <1>11, <2>1, Zenon
<1>12. CASE WSleep(m)
  <2> DEFINE h == [g EXCEPT !.pc = "sleep", !.mutex = "free"]
  <2>1. Go(m, h) /\ h \in Topics /\ h.job = g.job /\ h.worker = g.worker
        /\ h.pc = "sleep"
    BY <1>1, <1>12, Zenon DEF WSleep, Topics
  <2> QED
    BY <1>11, <2>1, Zenon
<1>13. CASE WPeers(m)
  <2> DEFINE h == [g EXCEPT !.idmap = TRUE, !.pc = "pfxs"]
  <2>1. Go(m, h) /\ h \in Topics /\ h.job = g.job /\ h.worker = g.worker
        /\ h.pc = "pfxs"
    BY <1>1, <1>13, Zenon DEF WPeers, Topics
  <2> QED
    BY <1>11, <2>1, Zenon
<1>14. CASE WPfxs(m)
  <2> DEFINE h == [g EXCEPT !.pc = "done"]
  <2>1. Go(m, h) /\ h \in Topics /\ h.job = g.job /\ h.worker = g.worker
        /\ h.pc = "done"
    BY <1>1, <1>14, Zenon DEF WPfxs, Topics
  <2> QED
    BY <1>11, <2>1, Zenon
<1>15. CASE WFail(m)
  <2> DEFINE h == [g EXCEPT !.pc = "failed"]
  <2>1. Go(m, h) /\ h \in Topics /\ h.job = g.job /\ h.worker = g.worker
        /\ h.pc = "failed"
    BY <1>1, <1>15, Zenon DEF WFail, Topics
  <2> QED
    BY <1>11, <2>1, Zenon
<1>16. CASE WError(m)
  <2> DEFINE h == [g EXCEPT !.recv_error = TRUE, !.pc = "done"]
  <2>1. Go(m, h) /\ h \in Topics /\ h.job = g.job /\ h.worker = g.worker
        /\ h.pc = "done"
    BY <1>1, <1>16, Zenon DEF WError, Topics
  <2> QED
    BY <1>11, <2>1, Zenon
<1> QED
  BY <1>6, <1>7, <1>8, <1>9, <1>10, <1>12, <1>13, <1>14, <1>15, <1>16 DEF Worker

\* get_gc_topics fails, and the receive with it.
LEMMA ConnectFailsStep ==
  ASSUME IInv, NEW m \in Members, MainConnectFails(m)
  PROVE  IInv'
<1> DEFINE h == [gct[m] EXCEPT !.exists = TRUE]
           mn == [main EXCEPT !.pc = "error"]
<1>1. /\ gct[m] \in Topics /\ main \in MainType /\ view \in ViewType
      /\ good \in SUBSET Members /\ errors \in Nat /\ aborted = FALSE
      /\ gct \in [Members -> Topics]
  BY DEF IInv, Typed
<1>2. /\ main' = mn /\ errors > 0 /\ errors' = errors - 1
      /\ UNCHANGED <<gmeta, view, good, aborted>>
  BY DEF MainConnectFails
<1>3. gct' = [gct EXCEPT ![m] = h]
  BY <1>1, Zenon DEF MainConnectFails
<1>4. /\ h \in Topics /\ h.job = gct[m].job /\ h.worker = gct[m].worker
      /\ h.pc = gct[m].pc
  BY <1>1, Zenon DEF Topics
<1> HIDE DEF h
<1>5. Sane(h)
  BY <1>4, Sanity, Zenon DEF Sane
<1>6. mn \in MainType /\ mn.pc \in Ended
  BY <1>1, Zenon DEF MainType, Ended
<1> HIDE DEF mn
<1>7. errors' \in Nat
  BY <1>1, <1>2
<1> QED
  BY <1>1, <1>2, <1>3, <1>4, <1>5, <1>6, <1>7, EndedMember, Zenon

\* The main thread goes from one place outside recv_global_view to another.
LEMMA EndedMove ==
  ASSUME IInv, main' \in MainType, main'.pc \in Ended,
         UNCHANGED <<gmeta, gct, view, good, aborted, errors>>
  PROVE  IInv'
<1>1. Typed /\ ~aborted
  BY DEF IInv
<1>2. \A m \in Members : Sane(gct'[m])
  BY Sanity, Zenon
<1> QED
  BY <1>1, <1>2, EndedState, Zenon DEF Typed

\* bgpview_io_kafka_destroy begins.
LEMMA DestroyStep ==
  ASSUME IInv, MainDestroy
  PROVE  IInv'
<1>1. [main EXCEPT !.pc = "destroy", !.todo = Known] \in MainType
      /\ [main EXCEPT !.pc = "destroy", !.todo = Known].pc \in Ended
  BY Zenon DEF IInv, Typed, MainType, Known, Ended
<1> QED
  BY <1>1, EndedMove, Zenon DEF MainDestroy

\* The process is killed.
LEMMA CrashStep ==
  ASSUME IInv, Crash
  PROVE  IInv'
<1>1. [main EXCEPT !.pc = "crashed"] \in MainType
      /\ [main EXCEPT !.pc = "crashed"].pc \in Ended
  BY Zenon DEF IInv, Typed, MainType, Ended
<1> QED
  BY <1>1, EndedMove, Zenon DEF Crash

\* free_gc_topics tells a worker to stop
LEMMA FreeStep ==
  ASSUME IInv, NEW m \in Members, MainFree(m)
  PROVE  IInv'
<1> DEFINE g == gct[m]
           k == [g EXCEPT !.shutdown = TRUE]
           h == IF g.pc = "sleep" THEN [k EXCEPT !.pc = "woken"] ELSE k
<1>1. /\ g \in Topics /\ main \in MainType /\ view \in ViewType
      /\ good \in SUBSET Members /\ errors \in Nat /\ aborted = FALSE
      /\ gct \in [Members -> Topics] /\ Sane(g)
  BY Sanity DEF IInv, Typed
<1>2. /\ main.pc = "destroy" /\ m \in main.todo
      /\ gct' = [gct EXCEPT ![m] = Stop(g)]
      /\ \/ main' = [main EXCEPT !.todo = @ \ {m}]
         \/ main' = [main EXCEPT !.pc = "crashed"]
      /\ UNCHANGED <<gmeta, view, good, aborted, errors>>
  BY Zenon DEF MainFree
<1>3. main' \in MainType /\ main'.pc \in Ended
  BY <1>1, <1>2 DEF MainType, Ended
<1>4. /\ k \in Topics /\ k.pc = g.pc /\ k.job = g.job /\ k.worker = g.worker
  BY <1>1, Zenon DEF Topics
<1>5. Stop(g) = h
  BY <1>4, Zenon DEF Stop, Signal
<1> HIDE DEF k
<1>6. /\ h \in Topics /\ h.pc = IF g.pc = "sleep" THEN "woken" ELSE g.pc
      /\ h.job = g.job /\ h.worker = g.worker
  BY <1>4 DEF Topics
<1> HIDE DEF h
<1>7. Sane(h)
  BY <1>1, <1>6 DEF Sane
<1> QED
  BY <1>1, <1>2, <1>3, <1>5, <1>6, <1>7, EndedMember, Zenon

------------------------------------------------------------------------------
(* The steps of the main thread on one member *)

\* The main thread waits for a worker, whose state it leaves alone.
LEMMA WaitStep ==
  ASSUME IInv, NEW m \in Members, MainWait(m)
  PROVE  IInv'
<1> DEFINE g == gct[m]
           h == [g EXCEPT !.waiter = "waits"]
<1>1. /\ g \in Topics /\ main \in MainType /\ view \in ViewType
      /\ good \in SUBSET Members /\ errors \in Nat /\ aborted = FALSE
      /\ gct \in [Members -> Topics]
      /\ ThreadOK(main, m, g) /\ DataOK(main, view, good, m, g)
  BY DEF IInv, Typed
<1>2. /\ main.pc \in {"assign", "collect"}
      /\ UNCHANGED <<gmeta, main, view, good, aborted, errors>>
  BY DEF MainWait
<1>3. gct' = [gct EXCEPT ![m] = h]
  BY <1>1, Zenon DEF MainWait
<1>4. /\ h \in Topics /\ h.exists = g.exists /\ h.pc = g.pc /\ h.mutex = g.mutex
      /\ h.fresh = g.fresh /\ h.job = g.job /\ h.shutdown = g.shutdown
      /\ h.worker = g.worker /\ h.view_state = g.view_state
      /\ h.parent_view_time = g.parent_view_time /\ h.idmap = g.idmap
      /\ h.recv_error = g.recv_error
  BY <1>1, Zenon DEF Topics
<1> HIDE DEF h
<1>5. /\ Locked(g) => Locked(h)
      /\ Absent(g) <=> Absent(h)
      /\ Starting(g) <=> Starting(h)
      /\ Parked(g) <=> Parked(h)
      /\ Working(g) <=> Working(h)
      /\ Sane(g) => Sane(h)
  BY <1>4, Zenon DEF Locked, Absent, Starting, Parked, Working, Sane
<1>6. /\ Out(view, good, m, g) => Out(view, good, m, h)
      /\ In(view, good, m, g) => In(view, good, m, h)
      /\ Old(main.frame, view, good, m, g) => Old(main.frame, view, good, m, h)
      /\ Part(main.frame, view, good, m, g) => Part(main.frame, view, good, m, h)
  BY <1>4 DEF Out, In, Old, Part
<1>7. ThreadOK(main, m, h) /\ DataOK(main, view, good, m, h)
  BY <1>1, <1>2, <1>5, <1>6 DEF ThreadOK, DataOK
<1> QED
  BY <1>1, <1>2, <1>3, <1>4, <1>7, OneMember, Zenon

\* get_gc_topics
LEMMA CreateStep ==
  ASSUME IInv, NEW m \in Members, MainCreate(m)
  PROVE  IInv'
<1> DEFINE g == gct[m]
           h == [g EXCEPT !.exists = TRUE, !.pc = "start", !.waiter = "here"]
<1>1. /\ g \in Topics /\ main \in MainType /\ view \in ViewType
      /\ good \in SUBSET Members /\ errors \in Nat /\ aborted = FALSE
      /\ gct \in [Members -> Topics]
      /\ ThreadOK(main, m, g) /\ DataOK(main, view, good, m, g)
  BY DEF IInv, Typed
<1>2. /\ main.pc = "assign" /\ m \in main.todo /\ ~g.exists
      /\ UNCHANGED <<gmeta, main, view, good, aborted, errors>>
  BY DEF MainCreate
<1>3. gct' = [gct EXCEPT ![m] = h]
  BY <1>1, Zenon DEF MainCreate
<1>4. /\ h \in Topics /\ h.exists = TRUE /\ h.pc = "start" /\ h.mutex = g.mutex
      /\ h.fresh = g.fresh /\ h.job = g.job /\ h.shutdown = g.shutdown
      /\ h.worker = g.worker /\ h.view_state = g.view_state
      /\ h.parent_view_time = g.parent_view_time
  BY <1>1, Zenon DEF Topics
<1> HIDE DEF h
<1>5. Absent(g) /\ ~Parked(g) /\ ~Working(g)
  BY <1>1, <1>2, Zenon DEF ThreadOK, Ended, Locked, Absent, Starting, Parked, Working
<1>6. Starting(h) /\ Locked(h) /\ ~Working(h)
  BY <1>1, <1>2, <1>4, <1>5, Zenon DEF Absent, Starting, Locked, Working, ThreadOK, Ended
<1>7. Out(view, good, m, h)
  BY <1>1, <1>2, <1>4, <1>5 DEF DataOK, Out
<1>8. ThreadOK(main, m, h) /\ DataOK(main, view, good, m, h)
  BY <1>2, <1>6, <1>7 DEF ThreadOK, Ended, DataOK
<1> QED
  BY <1>1, <1>2, <1>3, <1>4, <1>8, OneMember, Zenon

\* The assignment of a job, or of none, to a worker that waits for one
LEMMA AssignStep ==
  ASSUME IInv, NEW m \in Members, MainAssign(m)
  PROVE  IInv'
<1> DEFINE g == gct[m]
           f == main.frame
           mn == [main EXCEPT !.todo = @ \ {m}]
<1>1. /\ g \in Topics /\ main \in MainType /\ f \in Frame /\ view \in ViewType
      /\ good \in SUBSET Members /\ errors \in Nat /\ aborted = FALSE
      /\ gct \in [Members -> Topics]
      /\ ThreadOK(main, m, g) /\ DataOK(main, view, good, m, g)
      /\ FrameOK(main, view)
  BY DEF IInv, Typed, MainType
<1>2. /\ main.pc = "assign" /\ m \in main.todo /\ g.exists /\ g.mutex = "free"
      /\ g.fresh => g.worker = "IDLE"
      /\ main' = mn /\ UNCHANGED <<gmeta, view, good, errors>>
      /\ Assign(m)
  BY Zenon DEF MainAssign
<1>3. /\ mn \in MainType /\ mn.pc = "assign" /\ mn.frame = f
      /\ mn.todo = main.todo \ {m}
  BY <1>1, <1>2 DEF MainType
<1>4. /\ m \in f.members /\ view.time = f.time /\ f.type \in {"S", "D"}
      /\ m \notin mn.todo
  BY <1>1, <1>2, <1>3 DEF FrameOK
<1>5. /\ g.pc = "sleep" /\ g.job = "IDLE" /\ g.worker = "IDLE" /\ ~g.shutdown
      /\ ~Working(g) /\ Locked(g)
  BY <1>1, <1>2, Zenon DEF ThreadOK, Ended, Locked, Absent, Starting, Parked, Working
<1>6. aborted' = FALSE
  BY <1>2, <1>5, Zenon DEF Assign
<1>7. \/ Out(view, good, m, g)
      \/ Old(f, view, good, m, g)
  BY <1>1, <1>2, <1>5 DEF DataOK
<1> HIDE DEF mn
<1>8. ASSUME NEW h \in Topics, gct' = [gct EXCEPT ![m] = h],
             Locked(h),
             \/ Parked(h) /\ ~Working(h) /\ Out(view, good, m, h)
             \/ Working(h) /\ Part(f, view, good, m, h)
      PROVE  IInv'
  <2>1. ThreadOK(main', m, h) /\ DataOK(main', view', good', m, h)
    BY <1>2, <1>3, <1>4, <1>8 DEF ThreadOK, Ended, DataOK
  <2>2. /\ main' \in MainType /\ main'.pc = main.pc /\ main'.frame = main.frame
        /\ main'.todo \subseteq main.todo /\ main'.todo \cup {m} = main.todo \cup {m}
    BY <1>2, <1>3
  <2> QED
    BY <1>1, <1>2, <1>6, <1>8, <2>1, <2>2, OneMember, Zenon
<1>9. CASE Missing(g, f)
  <2> DEFINE h == [[g EXCEPT !.fresh = FALSE] EXCEPT !.waiter = "none"]
  <2>1. gct' = [gct EXCEPT ![m] = h]
    BY <1>1, <1>2, <1>9, Zenon DEF Assign
  <2>2. /\ h \in Topics /\ h.exists = g.exists /\ h.pc = g.pc
        /\ h.mutex = g.mutex /\ h.fresh = FALSE /\ h.job = g.job
        /\ h.shutdown = g.shutdown /\ h.worker = g.worker
        /\ h.view_state = g.view_state /\ h.parent_view_time = g.parent_view_time
    BY <1>1, Zenon DEF Topics
  <2> HIDE DEF h
  <2>3. Locked(h) /\ Parked(h) /\ ~Working(h)
    BY <1>5, <2>2 DEF Locked, Parked, Working
  <2>4. Out(view, good, m, h)
    BY <1>7, <1>9, <2>2 DEF Out, Old, Missing
  <2> QED
    BY <1>8, <2>1, <2>2, <2>3, <2>4, Zenon
<1>10. CASE ~Missing(g, f)
  <2> DEFINE k == [g EXCEPT !.parent_view_time = f.time,
                     !.idmap = IF f.type = "S" THEN FALSE ELSE @,
                     !.view_state = IF f.type = "S" THEN "EMPTY" ELSE @,
                     !.worker = "BUSY", !.job = "ASSIGNED", !.fresh = FALSE]
             h == [[k EXCEPT !.pc = "woken"] EXCEPT !.waiter = "none"]
  <2>1. k \in Topics /\ k.pc = "sleep"
    BY <1>1, <1>5, Zenon DEF Topics, Frame
  <2>2. /\ k.exists = g.exists /\ k.mutex = g.mutex /\ k.fresh = FALSE
        /\ k.job = "ASSIGNED" /\ k.shutdown = g.shutdown /\ k.worker = "BUSY"
        /\ k.parent_view_time = f.time
        /\ k.idmap = IF f.type = "S" THEN FALSE ELSE g.idmap
    BY <1>1 DEF Topics
  <2>3. gct' = [gct EXCEPT ![m] = [Signal(k) EXCEPT !.waiter = "none"]]
    BY <1>2, <1>10, Zenon DEF Assign, Assigned
  <2> HIDE DEF k
  <2>4. [Signal(k) EXCEPT !.waiter = "none"] = h
    BY <2>1 DEF Signal
  <2>5. /\ h \in Topics /\ h.exists = k.exists /\ h.pc = "woken"
        /\ h.mutex = k.mutex /\ h.fresh = k.fresh /\ h.job = k.job
        /\ h.shutdown = k.shutdown /\ h.worker = k.worker /\ h.idmap = k.idmap
        /\ h.parent_view_time = k.parent_view_time
    BY <2>1, Zenon DEF Topics
  <2> HIDE DEF h
  <2>6. Locked(h) /\ Working(h)
    BY <1>2, <1>5, <2>2, <2>5 DEF Locked, Working
  <2>7. m \notin good /\ (m \in view.active => f.type = "D" /\ g.idmap)
    BY <1>4, <1>7 DEF Out, Old
  <2>8. Base(f, view, m)
    BY <1>1, <1>4, <1>7, <1>10 DEF Out, Old, Base, Frame, Never, Missing
  <2>9. Part(f, view, good, m, h)
    BY <1>4, <2>2, <2>5, <2>7, <2>8 DEF Part
  <2> QED
    BY <1>8, <2>3, <2>4, <2>5, <2>6, <2>9, Zenon
<1> QED
  BY <1>9, <1>10

\* The sweep over a worker: only one without a job that had filled the view
\* is deactivated
LEMMA SweepStep ==
  ASSUME IInv, NEW m \in Members, MainSweep(m)
  PROVE  IInv'
<1> DEFINE g == gct[m]
           f == main.frame
           mn == [main EXCEPT !.todo = @ \ {m}]
<1>1. /\ g \in Topics /\ main \in MainType /\ f \in Frame /\ view \in ViewType
      /\ good \in SUBSET Members /\ errors \in Nat /\ aborted = FALSE
      /\ gct \in [Members -> Topics]
      /\ ThreadOK(main, m, g) /\ DataOK(main, view, good, m, g)
  BY DEF IInv, Typed, MainType
<1>2. /\ main.pc = "sweep" /\ m \in main.todo /\ main' = mn
      /\ UNCHANGED <<gmeta, good, errors>>
      /\ aborted' = (g.job = "IDLE" /\ g.worker # "IDLE")
  BY Zenon DEF MainSweep
<1>3. /\ mn \in MainType /\ mn.pc = "sweep" /\ mn.frame = f
      /\ mn.todo = main.todo \ {m}
  BY <1>1, <1>2 DEF MainType
<1> HIDE DEF mn
<1>4. /\ Locked(g) /\ ~Absent(g) /\ (Parked(g) \/ Working(g))
      /\ m \in f.members \/ Parked(g)
  BY <1>1, <1>2 DEF ThreadOK, Ended
<1>5. ~(Parked(g) /\ Working(g)) /\ aborted' = FALSE
  BY <1>2, <1>4, Zenon DEF Parked, Working
<1>6. ASSUME NEW h \in Topics, gct' = [gct EXCEPT ![m] = h], Locked(h), ~Absent(h),
             Parked(g) => Parked(h), Working(g) => Working(h),
             view' \in ViewType, view'.time = view.time, view'.content = view.content,
             view'.active \cup {m} = view.active \cup {m},
             \/ ~Working(h) /\ Out(view', good, m, h)
             \/ Working(h) /\ Part(f, view', good, m, h)
      PROVE  IInv'
  <2>1. ThreadOK(main', m, h) /\ DataOK(main', view', good', m, h)
    BY <1>2, <1>3, <1>4, <1>6, SMTT(20) DEF ThreadOK, Ended, DataOK
  <2>2. /\ main' \in MainType /\ main'.pc = main.pc /\ main'.frame = main.frame
        /\ main'.todo \subseteq main.todo /\ main'.todo \cup {m} = main.todo \cup {m}
    BY <1>2, <1>3
  <2> QED
    BY <1>1, <1>2, <1>5, <1>6, <2>1, <2>2, OneMember, Zenon
<1>7. CASE Stale(g)
  <2> DEFINE h == Deactivated(g)
  <2>1. /\ h \in Topics /\ h.exists = g.exists /\ h.pc = g.pc
        /\ h.mutex = g.mutex /\ h.fresh = g.fresh /\ h.job = g.job
        /\ h.shutdown = g.shutdown /\ h.worker = g.worker
        /\ h.view_state = "EMPTY" /\ h.parent_view_time = Never
    BY <1>1, Zenon DEF Topics, Deactivated
  <2>2. gct' = [gct EXCEPT ![m] = h] /\ view' = Without(view, m)
    BY <1>7, Zenon DEF MainSweep
  <2> HIDE DEF h
  <2>3. Parked(g) /\ ~Working(g)
    BY <1>4, <1>7 DEF Stale, Working
  <2>4. Locked(h) /\ Parked(h) /\ ~Working(h) /\ ~Absent(h)
    BY <1>4, <2>1, <2>3, SMTT(20) DEF Locked, Parked, Working, Absent
  <2>5. Old(f, view, good, m, g)
    BY <1>1, <1>2, <1>7, <2>3 DEF DataOK, Out, Stale
  <2>6. /\ view' \in ViewType /\ view'.time = view.time
        /\ view'.content = view.content
        /\ view'.active \cup {m} = view.active \cup {m}
        /\ m \notin view'.active
    <3>1. CASE g.idmap
      <4>1. view' = [view EXCEPT !.active = @ \ {m}]
        BY <2>2, <3>1 DEF Without
      <4> QED
        BY <1>1, <4>1 DEF ViewType
    <3>2. CASE ~g.idmap
      <4>1. view' = view /\ m \notin view.active
        BY <2>2, <2>5, <3>2 DEF Without, Old
      <4> QED
        BY <1>1, <4>1
    <3> QED
      BY <3>1, <3>2
  <2>7. Out(view', good, m, h)
    BY <2>1, <2>5, <2>6 DEF Out, Old, Never
  <2> QED
    BY <1>6, <2>1, <2>2, <2>3, <2>4, <2>6, <2>7, Zenon
<1>8. CASE ~Stale(g)
  <2>1. gct' = gct /\ view' = view
    BY <1>8, Zenon DEF MainSweep
  <2>2. gct' = [gct EXCEPT ![m] = g]
    BY <1>1, <2>1, Zenon
  <2>3. \/ ~Working(g) /\ Out(view, good, m, g)
        \/ Working(g) /\ Part(f, view, good, m, g)
    BY <1>1, <1>2, <1>8 DEF DataOK, Old, Parked, Stale
  <2> QED
    BY <1>1, <1>4, <1>6, <2>1, <2>2, <2>3, Zenon
<1> QED
  BY <1>7, <1>8

\* The collection of a worker's result
LEMMA CollectStep ==
  ASSUME IInv, NEW m \in Members, MainCollect(m)
  PROVE  IInv'
<1> DEFINE g == gct[m]
           f == main.frame
           mn == [main EXCEPT !.todo = @ \ {m}]
           failed == g.job # "IDLE" /\ g.recv_error
<1>1. /\ g \in Topics /\ main \in MainType /\ f \in Frame /\ view \in ViewType
      /\ good \in SUBSET Members /\ errors \in Nat /\ aborted = FALSE
      /\ gct \in [Members -> Topics]
      /\ ThreadOK(main, m, g) /\ DataOK(main, view, good, m, g)
      /\ FrameOK(main, view)
  BY DEF IInv, Typed, MainType
<1>2. /\ main.pc = "collect" /\ m \in main.todo /\ main' = mn /\ Finished(g)
      /\ UNCHANGED <<gmeta, good, errors>>
      /\ aborted' = (g.job # "IDLE" /\ ~(g.job = "COMPLETE"
                       /\ (g.recv_error \/ g.view_state = "READY")))
  BY Zenon DEF MainCollect
<1>3. /\ mn \in MainType /\ mn.pc = "collect" /\ mn.frame = f
      /\ mn.todo = main.todo \ {m}
  BY <1>1, <1>2, SMTT(20) DEF MainType
<1> HIDE DEF mn
<1>4. Locked(g) /\ (Parked(g) \/ Working(g))
  BY <1>1, <1>2 DEF ThreadOK, Ended
<1>5. /\ g.pc = "sleep" /\ g.worker = "IDLE" /\ ~g.fresh /\ ~g.shutdown
      /\ Working(g) => g.job = "COMPLETE" /\ g.view_state = "READY"
  BY <1>2, <1>4 DEF Parked, Working, Finished, Locked
<1>6. aborted' = FALSE /\ ~(Parked(g) /\ Working(g)) /\ (Parked(g) => ~failed)
  BY <1>2, <1>4, <1>5, Zenon DEF Parked, Working
<1>7. ASSUME NEW h \in Topics, gct' = [gct EXCEPT ![m] = h], Locked(h), Parked(h),
             view' \in ViewType, view'.time = view.time, view'.content = view.content,
             view'.active \cup {m} = view.active \cup {m},
             Out(view', good, m, h) \/ In(view', good, m, h)
      PROVE  IInv'
  <2>0. ~Working(h)
    BY <1>7, Zenon DEF Parked, Working
  <2>1. ThreadOK(main', m, h) /\ DataOK(main', view', good', m, h)
    BY <1>2, <1>3, <1>7, <2>0, SMTT(20) DEF ThreadOK, Ended, DataOK
  <2>2. /\ main' \in MainType /\ main'.pc = main.pc /\ main'.frame = main.frame
        /\ main'.todo \subseteq main.todo /\ main'.todo \cup {m} = main.todo \cup {m}
    BY <1>2, <1>3
  <2> QED
    BY <1>1, <1>2, <1>6, <1>7, <2>1, <2>2, OneMember, Zenon
<1>8. CASE failed
  <2> DEFINE h == [Deactivated(g) EXCEPT !.job = "IDLE", !.waiter = "none"]
  <2>1. /\ h \in Topics /\ h.exists = g.exists /\ h.pc = g.pc
        /\ h.mutex = g.mutex /\ h.fresh = g.fresh /\ h.job = "IDLE"
        /\ h.shutdown = g.shutdown /\ h.worker = g.worker
        /\ h.view_state = "EMPTY" /\ h.parent_view_time = Never
    BY <1>1, Zenon DEF Topics, Deactivated
  <2>2. gct' = [gct EXCEPT ![m] = h] /\ view' = Without(view, m)
    BY <1>8, Zenon DEF MainCollect
  <2> HIDE DEF h
  <2>3. Locked(h) /\ Parked(h)
    BY <1>4, <1>5, <2>1, Zenon DEF Locked, Parked
  <2>4. Working(g) /\ Part(f, view, good, m, g) /\ m \notin good
    BY <1>1, <1>2, <1>4, <1>5, <1>6, <1>8, Zenon DEF DataOK, Part
  <2>5. /\ view' \in ViewType /\ view'.time = view.time
        /\ view'.content = view.content
        /\ view'.active \cup {m} = view.active \cup {m}
        /\ m \notin view'.active
    <3>1. CASE g.idmap
      <4>1. view' = [view EXCEPT !.active = @ \ {m}]
        BY <2>2, <3>1 DEF Without
      <4> QED
        BY <1>1, <4>1, SMTT(20) DEF ViewType
    <3>2. CASE ~g.idmap
      <4>1. view' = view /\ m \notin view.active
        BY <2>2, <2>4, <3>2 DEF Without, Part
      <4> QED
        BY <1>1, <4>1
    <3> QED
      BY <3>1, <3>2
  <2>6. Out(view', good, m, h)
    BY <2>1, <2>4, <2>5 DEF Out, Never
  <2> QED
    BY <1>7, <2>1, <2>2, <2>3, <2>5, <2>6, Zenon
<1>9. CASE ~failed
  <2> DEFINE h == [g EXCEPT !.job = "IDLE", !.waiter = "none"]
  <2>1. /\ h \in Topics /\ h.exists = g.exists /\ h.pc = g.pc
        /\ h.mutex = g.mutex /\ h.fresh = g.fresh /\ h.job = "IDLE"
        /\ h.shutdown = g.shutdown /\ h.worker = g.worker /\ h.idmap = g.idmap
        /\ h.view_state = g.view_state /\ h.parent_view_time = g.parent_view_time
    BY <1>1, Zenon DEF Topics
  <2>2. gct' = [gct EXCEPT ![m] = h] /\ view' = view
    BY <1>9, Zenon DEF MainCollect
  <2> HIDE DEF h
  <2>3. Locked(h) /\ Parked(h)
    BY <1>4, <1>5, <2>1 DEF Locked, Parked
  <2>4. CASE Working(g)
    <3>1. Part(f, view, good, m, g) /\ ~g.recv_error
      BY <1>1, <1>2, <1>5, <1>6, <1>9, <2>4, SMTT(20) DEF DataOK
    <3>2. In(view, good, m, h)
      BY <1>5, <2>1, <2>4, <3>1 DEF In, Part
    <3> QED
      BY <1>1, <1>7, <2>1, <2>2, <2>3, <3>2, Zenon
  <2>5. CASE Parked(g)
    <3>1. Out(view, good, m, g) \/ In(view, good, m, g)
      BY <1>1, <1>2, <1>6, <2>5 DEF DataOK
    <3>2. Out(view, good, m, h) \/ In(view, good, m, h)
      BY <2>1, <3>1 DEF In, Out
    <3> QED
      BY <1>1, <1>7, <2>1, <2>2, <2>3, <3>2, Zenon
  <2> QED
    BY <1>4, <2>4, <2>5
<1> QED
  BY <1>8, <1>9

------------------------------------------------------------------------------
(* The steps of the main thread between its loops *)

\* These leave the workers alone, so the invariant is shown for the new state
\* of the main thread and of the view.
LEMMA NoMember ==
  ASSUME IInv, gct' = gct, main' \in MainType, view' \in ViewType,
         good' \in SUBSET Members, gmeta' \in Seq(Frame),
         errors' = errors, aborted' = aborted, FrameOK(main', view'),
         \A m \in Members : /\ ThreadOK(main', m, gct[m])
                            /\ DataOK(main', view', good', m, gct[m])
  PROVE  IInv'
  BY Zenon DEF IInv, Typed

\* A message of the topic: skipped, the reason to go back, or the beginning
\* of a frame
LEMMA RecvStep ==
  ASSUME IInv, MainRecv
  PROVE  IInv'
<1> DEFINE f == gmeta[main.at + 1]
<1>1. /\ main \in MainType /\ view \in ViewType /\ good \in SUBSET Members
      /\ gmeta \in Seq(Frame) /\ main.at \in Nat
  BY DEF IInv, Typed, MainType
<1>2. /\ main.pc = "recv" /\ main.at < Len(gmeta)
      /\ UNCHANGED <<gmeta, gct, aborted, errors>>
  BY DEF MainRecv
<1>3. f \in Frame
  BY <1>1, <1>2
<1>4. ASSUME NEW n \in Nat, main' = [main EXCEPT !.at = n], UNCHANGED <<view, good>>
      PROVE  IInv'
  <2> DEFINE mn == [main EXCEPT !.at = n]
  <2>1. /\ mn \in MainType /\ mn.pc = main.pc /\ mn.frame = main.frame
        /\ mn.todo = main.todo
    BY <1>1 DEF MainType
  <2> HIDE DEF mn
  <2>2. main' = mn
    BY <1>4 DEF mn
  <2>3. FrameOK(mn, view)
    BY <2>1 DEF IInv, FrameOK
  <2>4. \A m \in Members : ThreadOK(mn, m, gct[m]) /\ DataOK(mn, view, good, m, gct[m])
    BY <2>1, OtherMember DEF IInv
  <2> QED
    BY <1>1, <1>2, <1>4, <2>1, <2>2, <2>3, <2>4, NoMember, Zenon
<1>5. ASSUME Begin(f), f.type # "none", f.type = "D" => f.parent_time = view.time
      PROVE  IInv'
  <2> DEFINE mn == [main EXCEPT !.pc = "assign", !.todo = f.members,
                                !.at = @ + 1, !.frame = f]
             w == IF f.type = "S"
                  THEN [time |-> f.time, active |-> {},
                        content |-> [m \in Members |-> 0]]
                  ELSE [view EXCEPT !.time = f.time]
  <2>a. f.members \in SUBSET Members
    BY <1>3, Zenon DEF Frame
  <2>b. main.at + 1 \in Nat
    BY <1>1
  <2> HIDE DEF f
  <2>1. /\ mn \in MainType /\ mn.pc = "assign" /\ mn.todo = f.members
        /\ mn.frame = f
    BY <1>1, <1>3, <2>a, <2>b, Zenon DEF MainType
  <2>2. /\ w \in ViewType /\ w.time = f.time
        /\ f.type = "S" => w.active = {} /\ \A m \in Members : w.content[m] = 0
        /\ f.type # "S" => w.active = view.active /\ w.content = view.content
    BY <1>1, <1>3, Zenon DEF ViewType, Frame
  <2>3. main' = mn /\ view' = w /\ good' = {}
    BY <1>5, Zenon DEF Begin
  <2> HIDE DEF mn, w
  <2>4. FrameOK(mn, w)
    BY <1>3, <1>5, <2>1, <2>2 DEF FrameOK, Frame
  <2>5. ASSUME NEW m \in Members
        PROVE  ThreadOK(mn, m, gct[m]) /\ DataOK(mn, w, {}, m, gct[m])
    <3> DEFINE g == gct[m]
    <3>1. ThreadOK(main, m, g) /\ DataOK(main, view, good, m, g)
      BY DEF IInv
    <3>2. Locked(g) /\ (Absent(g) \/ Parked(g))
      BY <1>2, <3>1 DEF ThreadOK, Ended
    <3>3. ~Working(g)
      BY <3>2 DEF Absent, Parked, Working
    <3>4. ThreadOK(mn, m, g)
      BY <2>1, <3>2, SMTT(20) DEF ThreadOK, Ended
    <3>5. Out(view, good, m, g) \/ (Parked(g) /\ In(view, good, m, g))
      BY <1>2, <3>1, SMTT(20) DEF DataOK
    <3>6. CASE Out(view, good, m, g)
      <4>1. Out(w, {}, m, g)
        BY <2>2, <3>6, SMTT(20) DEF Out
      <4> QED
        BY <2>1, <3>3, <3>4, <4>1 DEF DataOK
    <3>7. CASE Parked(g) /\ In(view, good, m, g)
      <4>1. Old(f, w, {}, m, g)
        BY <1>3, <1>5, <2>2, <3>7 DEF In, Old, Base, Frame
      <4> QED
        BY <2>1, <3>4, <3>7, <4>1 DEF DataOK
    <3> QED
      BY <3>5, <3>6, <3>7
  <2> QED
    BY <1>1, <1>2, <2>1, <2>2, <2>3, <2>4, <2>5, NoMember
<1>6. main.at + 1 \in Nat /\ (f.last_sync_offset # -1 => f.last_sync_offset \in Nat)
  <2>1. f.last_sync_offset \in Nat \cup {-1}
    BY <1>3, Zenon DEF Frame
  <2> QED
    BY <1>1, <2>1
<1> QED
  BY <1>4, <1>5, <1>6 DEF MainRecv

\* The metadata server appends a frame.
LEMMA PublishStep ==
  ASSUME IInv, Publish
  PROVE  IInv'
<1>1. /\ main \in MainType /\ view \in ViewType /\ good \in SUBSET Members
      /\ gmeta \in Seq(Frame)
  BY DEF IInv, Typed
<1>2. UNCHANGED <<main, gct, view, good, aborted, errors>>
  BY DEF Publish
<1>3. PICK t \in Nat \ {0} :
        \/ \E ms \in SUBSET Members \ {{}} :
             gmeta' = Append(gmeta,
               [time |-> t, type |-> IF Aligned(t) THEN "S" ELSE "D",
                parent_time |-> IF Aligned(t) THEN t ELSE t - 1,
                members |-> ms, last_sync_offset |-> SyncOffset])
        \/ gmeta' = Append(gmeta, [NoFrame EXCEPT !.time = t])
  <2> DEFINE t == LastTime + 1
  <2>1. t \in Times
    BY DEF Publish
  <2>2. t \in Nat \ {0}
    <3> HIDE DEF t
    <3> QED
      BY <2>1, GlobalAssumption DEF Times
  <2> QED
    BY <2>2, Zenon DEF Publish
<1>4. t - 1 \in Nat
  OBVIOUS
<1>5. SyncOffset \in Nat \cup {-1}
  BY <1>1, SyncOffsetType
<1>6. [NoFrame EXCEPT !.time = t] \in Frame
  BY DEF NoFrame, Frame
<1>7. ASSUME NEW ms \in SUBSET Members
      PROVE  [time |-> t, type |-> IF Aligned(t) THEN "S" ELSE "D",
              parent_time |-> IF Aligned(t) THEN t ELSE t - 1,
              members |-> ms, last_sync_offset |-> SyncOffset] \in Frame
  BY <1>4, <1>5, Zenon DEF Frame
<1>8. PICK x \in Frame : gmeta' = Append(gmeta, x)
  BY <1>3, <1>6, <1>7, Zenon
<1>9. gmeta' \in Seq(Frame)
  BY <1>1, <1>8
<1>10. FrameOK(main, view)
  BY DEF IInv
<1>11. \A m \in Members : ThreadOK(main, m, gct[m]) /\ DataOK(main, view, good, m, gct[m])
  BY DEF IInv
<1> QED
  BY <1>1, <1>2, <1>9, <1>10, <1>11, NoMember, Zenon

\* A step that takes the main thread to its next loop, or that leaves it
\* where it is
LEMMA MoveStep ==
  ASSUME IInv, UNCHANGED <<gmeta, gct, view, good, aborted, errors>>,
         main' \in MainType, FrameOK(main', view),
         \A m \in Members : /\ ThreadOK(main', m, gct[m])
                            /\ DataOK(main', view, good, m, gct[m])
  PROVE  IInv'
  BY NoMember, Zenon DEF IInv, Typed

\* The consumer is started.
LEMMA StartStep ==
  ASSUME IInv, MainStart
  PROVE  IInv'
<1> DEFINE n == IF gmeta = <<>> THEN 0 ELSE Len(gmeta) - 1
           mn == [main EXCEPT !.pc = "recv", !.at = n]
<1>1. main \in MainType /\ gmeta \in Seq(Frame) /\ main.pc = "off" /\ main' = mn
  BY Zenon DEF IInv, Typed, MainStart
<1>2. n \in Nat
  BY <1>1
<1> HIDE DEF n
<1>3. mn \in MainType /\ mn.pc = "recv"
  BY <1>1, <1>2, Zenon DEF MainType
<1> HIDE DEF mn
<1>4. FrameOK(mn, view)
  BY <1>3, Zenon DEF FrameOK
<1>5. ASSUME NEW m \in Members
      PROVE  ThreadOK(mn, m, gct[m]) /\ DataOK(mn, view, good, m, gct[m])
  BY <1>1, <1>3, Zenon DEF IInv, ThreadOK, Ended, DataOK
<1> QED
  BY <1>1, <1>3, <1>4, <1>5, MoveStep, Zenon DEF MainStart

\* The second loop goes over the workers there are.
LEMMA SweepStartStep ==
  ASSUME IInv, MainSweepStart
  PROVE  IInv'
<1> DEFINE mn == [main EXCEPT !.pc = "sweep", !.todo = Known]
<1>1. main \in MainType /\ main.pc = "assign" /\ main.todo = {} /\ main' = mn
  BY Zenon DEF IInv, Typed, MainSweepStart
<1>2. mn \in MainType /\ mn.pc = "sweep" /\ mn.todo = Known /\ mn.frame = main.frame
  BY <1>1, Zenon DEF MainType, Known
<1> HIDE DEF mn
<1>3. FrameOK(mn, view)
  BY <1>1, <1>2 DEF IInv, FrameOK
<1>4. ASSUME NEW m \in Members
      PROVE  ThreadOK(mn, m, gct[m]) /\ DataOK(mn, view, good, m, gct[m])
  <2> DEFINE g == gct[m]
  <2>1. /\ Locked(g)
        /\ IF m \in main.frame.members THEN Parked(g) \/ Working(g)
           ELSE Absent(g) \/ Parked(g)
    BY <1>1 DEF IInv, ThreadOK, Ended
  <2>2. /\ m \in mn.todo <=> g.exists
        /\ m \in mn.todo <=> g.pc # "none"
    BY <1>2, <2>1, Zenon DEF Known, Locked
  <2>3. ThreadOK(mn, m, g)
    BY <1>2, <2>1, <2>2, SMTT(20) DEF ThreadOK, Ended, Absent
  <2>4. \/ Out(view, good, m, g) /\ ~Working(g)
        \/ /\ Parked(g) /\ Old(mn.frame, view, good, m, g)
           /\ m \notin mn.frame.members
        \/ Working(g) /\ Part(mn.frame, view, good, m, g)
    BY <1>1, <1>2, SMTT(20) DEF IInv, DataOK
  <2>5. DataOK(mn, view, good, m, g)
    BY <1>2, <2>2, <2>4 DEF DataOK, Parked
  <2> QED
    BY <2>3, <2>5, Zenon
<1> QED
  BY <1>1, <1>2, <1>3, <1>4, MoveStep, Zenon DEF MainSweepStart

\* The third loop goes over the frame's members.
LEMMA CollectStartStep ==
  ASSUME IInv, MainCollectStart
  PROVE  IInv'
<1> DEFINE mn == [main EXCEPT !.pc = "collect", !.todo = main.frame.members]
<1>1. main \in MainType /\ main.pc = "sweep" /\ main.todo = {} /\ main' = mn
  BY Zenon DEF IInv, Typed, MainCollectStart
<1>2. main.frame.members \in SUBSET Members
  BY <1>1, Zenon DEF MainType, Frame
<1>3. /\ mn \in MainType /\ mn.pc = "collect" /\ mn.todo = main.frame.members
      /\ mn.frame = main.frame
  BY <1>1, <1>2, Zenon DEF MainType
<1> HIDE DEF mn
<1>4. FrameOK(mn, view)
  BY <1>1, <1>3, Zenon DEF IInv, FrameOK
<1>5. ASSUME NEW m \in Members
      PROVE  ThreadOK(mn, m, gct[m]) /\ DataOK(mn, view, good, m, gct[m])
  BY <1>1, <1>3, Zenon DEF IInv, ThreadOK, Ended, DataOK
<1> QED
  BY <1>1, <1>3, <1>4, <1>5, MoveStep, Zenon DEF MainCollectStart

\* recv_global_view returns: every worker was collected.
LEMMA ReturnStep ==
  ASSUME IInv, MainReturn
  PROVE  IInv'
<1> DEFINE mn == [main EXCEPT !.pc = "recv", !.frame = NoFrame]
<1>1. main \in MainType /\ main.pc = "collect" /\ main.todo = {} /\ main' = mn
  BY Zenon DEF IInv, Typed, MainReturn
<1>2. NoFrame \in Frame
  BY DEF NoFrame, Frame
<1>3. mn \in MainType /\ mn.pc = "recv"
  BY <1>1, <1>2, Zenon DEF MainType
<1> HIDE DEF mn
<1>4. FrameOK(mn, view)
  BY <1>3, SMTT(20) DEF FrameOK
<1>5. ASSUME NEW m \in Members
      PROVE  ThreadOK(mn, m, gct[m]) /\ DataOK(mn, view, good, m, gct[m])
  <2> DEFINE g == gct[m]
  <2>1. Locked(g) /\ (Absent(g) \/ Parked(g))
    BY <1>1, SMTT(20) DEF IInv, ThreadOK, Ended
  <2>2. ~Working(g)
    BY <2>1 DEF Absent, Parked, Working
  <2>3. Out(view, good, m, g) \/ (Parked(g) /\ In(view, good, m, g))
    BY <1>1, <2>2 DEF IInv, DataOK
  <2> QED
    BY <1>3, <2>1, <2>3, SMTT(20) DEF ThreadOK, Ended, DataOK
<1> QED
  BY <1>1, <1>3, <1>4, <1>5, MoveStep, Zenon DEF MainReturn

------------------------------------------------------------------------------
(* The invariant *)

\* It holds before the consumer is started.
LEMMA Initially ==
  ASSUME Init
  PROVE  IInv
<1>1. NoFrame \in Frame /\ MaxErrors \in Nat
  BY GlobalAssumption DEF NoFrame, Frame
<1>2. main \in MainType /\ main.pc = "off"
  BY <1>1, Zenon DEF Init, MainType
<1>3. /\ NewTopics \in Topics /\ NewTopics.fresh /\ NewTopics.job = "IDLE"
      /\ NewTopics.shutdown = FALSE /\ NewTopics.pc = "none"
      /\ NewTopics.worker = "BUSY" /\ NewTopics.mutex = "free"
      /\ NewTopics.exists = FALSE /\ NewTopics.view_state = "EMPTY"
      /\ NewTopics.parent_view_time = 0
  BY Zenon DEF NewTopics, Topics
<1>4. \A m \in Members : gct[m] = NewTopics
  BY Zenon DEF Init
<1>5. /\ view \in ViewType /\ view.time = 0 /\ view.active = {}
      /\ \A m \in Members : view.content[m] = 0
  BY Zenon DEF Init, ViewType
<1>6. Typed /\ ~aborted
  <2>1. gct \in [Members -> Topics]
    BY <1>3, Zenon DEF Init
  <2>2. gmeta \in Seq(Frame)
    BY DEF Init
  <2> QED
    BY <1>1, <1>2, <1>5, <2>1, <2>2, Zenon DEF Init, Typed
<1>7. FrameOK(main, view)
  BY <1>2, <1>5, Zenon DEF FrameOK
<1>8. ASSUME NEW m \in Members
      PROVE  ThreadOK(main, m, gct[m]) /\ DataOK(main, view, good, m, gct[m])
  <2>1. good = {}
    BY DEF Init
  <2>2. Locked(NewTopics) /\ Absent(NewTopics) /\ Out(view, good, m, NewTopics)
    BY <1>3, <1>5, <2>1, Zenon DEF Locked, Absent, Out
  <2> QED
    BY <1>2, <1>4, <2>2 DEF ThreadOK, Ended, DataOK
<1> QED
  BY <1>6, <1>7, <1>8 DEF IInv

\* Every step of every thread, and of the metadata server, preserves it.
LEMMA Inductive ==
  ASSUME IInv, [Next]_vars
  PROVE  IInv'
<1>1. ASSUME UNCHANGED vars
      PROVE  IInv'
  <2>1. /\ main \in MainType /\ FrameOK(main, view)
        /\ \A m \in Members : /\ ThreadOK(main, m, gct[m])
                              /\ DataOK(main, view, good, m, gct[m])
    BY DEF IInv, Typed
  <2> QED
    BY <1>1, <2>1, MoveStep, Zenon DEF vars
<1>2. ASSUME NEW m \in Members, Worker(m)
      PROVE  IInv'
  BY <1>2, WorkerStep, OrphanStep
<1>3. ASSUME NEW m \in Members,
             \/ MainCreate(m) \/ MainConnectFails(m) \/ MainWait(m)
             \/ MainAssign(m) \/ MainSweep(m) \/ MainCollect(m) \/ MainFree(m)
      PROVE  IInv'
  BY <1>3, CreateStep, ConnectFailsStep, WaitStep, AssignStep, SweepStep,
     CollectStep, FreeStep, Zenon
<1> QED
  BY <1>1, <1>2, <1>3, PublishStep, StartStep, RecvStep, SweepStartStep,
     CollectStartStep, ReturnStep, DestroyStep, CrashStep, Zenon DEF Next, MainStep

\* The invariant, in every reachable state
LEMMA Invariant == Spec => []IInv
<1>1. Init => IInv
  BY Initially
<1>2. IInv /\ [Next]_vars => IInv'
  BY Inductive
<1> QED
  BY <1>1, <1>2, PTL DEF Spec

\* The assertions of recv_global_view and thread_worker on the job, worker
\* and view states hold for any number of members and any schedule.
THEOREM AssertionsHold == Spec => []WorkersAsAsserted
<1>1. IInv => WorkersAsAsserted
  BY DEF IInv, WorkersAsAsserted
<1> QED
  BY <1>1, Invariant, PTL

\* While the caller of bgpview_io_kafka_recv_view has the view, every worker
\* sleeps on its condition, for any number of members and any schedule.
THEOREM WorkersSleep == Spec => []ViewIsQuiet
<1>1. ASSUME IInv, main.pc = "recv", NEW m \in Known
      PROVE  gct[m].pc = "sleep"
  <2>1. m \in Members /\ gct[m].exists
    BY DEF Known
  <2>2. Locked(gct[m]) /\ (Absent(gct[m]) \/ Parked(gct[m]))
    BY <1>1, <2>1 DEF IInv, ThreadOK, Ended
  <2> QED
    BY <2>1, <2>2, Zenon DEF Locked, Absent, Parked
<1>2. IInv => ViewIsQuiet
  BY <1>1 DEF ViewIsQuiet
<1> QED
  BY <1>2, Invariant, PTL

\* A view that recv_global_view hands out has the peers of exactly the members
\* whose frame was received, with the cells of the view's time, whatever
\* failed before and in whatever order the threads ran.
THEOREM PartsAreOfTheView == Spec => []Contributors
<1>1. ASSUME IInv, main.pc = "recv"
      PROVE  /\ view.active = good
             /\ \A m \in good : view.content[m] = view.time
  <2>1. view.active \subseteq Members /\ good \subseteq Members
    BY <1>1 DEF IInv, Typed, ViewType
  <2>2. ASSUME NEW m \in Members
        PROVE  /\ m \in view.active <=> m \in good
               /\ m \in good => view.content[m] = view.time
    <3>1. Out(view, good, m, gct[m]) \/ In(view, good, m, gct[m])
      BY <1>1 DEF IInv, DataOK
    <3> QED
      BY <3>1, Zenon DEF Out, In
  <2> QED
    BY <2>1, <2>2
<1>2. IInv => Contributors
  BY <1>1 DEF Contributors
<1> QED
  BY <1>2, Invariant, PTL
==============================================================================
