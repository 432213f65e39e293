--------------------------- MODULE ConsumerChain ---------------------------
(***************************************************************************)
(* The consumer tool and the consumer manager: bgpview-consumer.c and      *)
(* bgpview_consumer_manager.c, with the consumers they run.                *)
(*                                                                         *)
(* The tool enables the consumers of the command line in the order given,  *)
(* configures its view source, and hands every view to the manager, which  *)
(* runs the enabled consumers in the order of their ids.  The first that   *)
(* fails ends the process, through the same destructors as a normal end.   *)
(* A crash runs no destructor; what is on disk survives it and the tool is *)
(* started again with the same command line.                               *)
(*                                                                         *)
(* A job is a command line and what its source delivers: the tables a view *)
(* may hold, the seconds between views and the orders in which the view's  *)
(* prefixes may be walked.                                                 *)
(***************************************************************************)
EXTENDS EventConsumers, SpaceConsumers, Archiver

CONSTANTS
    Jobs,           \* a sequence of jobs, records:
                    \*   cmds    the consumers of the command line, a sequence
                    \*   ribs    the tables a view may hold
                    \*   gaps    the seconds between two views
                    \*   orders  orders of Pfx
                    \*   rot     the rotation options [interval, align]
                    \*   views   bound: the views of one process
                    \*   lives   bound: the processes, one after a crash of the other
                    \*   faults  whether init, I/O configuration and files may fail
    FirstTime       \* the time of the first view

ASSUME ChainAssumption == FirstTime \in Nat /\ FirstTime > WindowSize + PfxWindow + RoutedWindow

VARIABLES
    job,        \* which job
    phase,      \* "enabling", "running", "done" (main returned 0), "failed", "dead"
    nxt,        \* the next consumer of the command line to enable
    enabled,    \* the enabled consumers
    chain,      \* the chain state of the manager
    st,         \* the state of each consumer
    out,        \* what each consumer wrote for the last view it processed
    ran,        \* the consumers that processed the last view without failing
    hist,       \* the views received by this process
    disk,       \* the archiver's files
    log,        \* the views received by the processes before
    life        \* the number of this process

vars == <<job, phase, nxt, enabled, chain, st, out, ran, hist, disk, log, life>>

J == Jobs[job]

(* The consumers by id (consumer_alloc_functions).                         *)
Order == <<"visibility", "perasvisibility", "pergeovisibility", "announcedpfxs", "moas",
           "archiver", "edges", "triplets", "pfxorigins", "routedspace", "pathchange",
           "subpfx", "peerpfxorigins", "pfx2as">>

Consumers == Range(Order)

(* init fails unless visibility was enabled before.                        *)
NeedsVisibility == {"perasvisibility", "pergeovisibility", "announcedpfxs", "moas",
                    "triplets", "pfxorigins", "pfx2as"}

(* These open a file for every view.                                       *)
OpensEveryTime == {"moas", "edges", "triplets", "pfxorigins", "routedspace", "subpfx",
                   "peerpfxorigins"}

FreshState(c) ==
    CASE c \in {"moas", "triplets"} -> NoEvents
      [] c = "edges" -> NoEdges
      [] c = "announcedpfxs" -> NoAnnounced
      [] c = "pfxorigins" -> <<>>
      [] c = "perasvisibility" -> {}
      [] c = "pfx2as" -> NoPfx2as
      [] c = "subpfx" -> NoSubpfxs
      [] c = "routedspace" -> NoRouted
      [] c = "pergeovisibility" -> NoGeo
      [] c = "archiver" -> NoArchiver
      [] c = "pathchange" -> NoPathChange
      [] OTHER -> Nothing

Fresh0 == [c \in Consumers |-> FreshState(c)]

Init ==
    /\ job \in 1 .. Len(Jobs)
    /\ phase = "enabling" /\ nxt = 1
    /\ enabled = {} /\ chain = NoChain
    /\ st = Fresh0 /\ out = [c \in Consumers |-> Nothing]
    /\ ran = {} /\ hist = <<>>
    /\ disk = NoDisk /\ log = <<>> /\ life = 1

(***************************************************************************)
(* Start of the process                                                    *)
(***************************************************************************)
\* Mutant: the consumers do not ask whether visibility is computed
InitializesUnchecked(c) == TRUE

Initializes(c) == c \in NeedsVisibility => chain.computed

(* What becomes of the latest file when the process ends.                  *)
ExitNamings == IF J.faults THEN Namings ELSE {"named"}

(* bgpview_consumer_manager_destroy, on the normal and on the error path:  *)
(* only the archiver's destructor leaves a trace.                          *)
Exit(p, states, d, naming) ==
    /\ phase' = p
    /\ disk' = ArchiverDestroy(states["archiver"], d, naming)
    /\ st' = Fresh0

EnableConsumer ==
    /\ phase = "enabling" /\ nxt <= Len(J.cmds)
    /\ LET c == J.cmds[nxt] IN
       \/ /\ c \in enabled \/ Initializes(c)
          /\ nxt' = nxt + 1
          /\ enabled' = enabled \cup {c}
          /\ chain' = [chain EXCEPT !.computed = @ \/ c = "visibility"]
          /\ UNCHANGED <<phase, st, disk>>
       \/ /\ c \notin enabled /\ (~Initializes(c) \/ J.faults)
          /\ Exit("failed", st, disk, "named")
          /\ UNCHANGED <<nxt, enabled, chain>>
    /\ UNCHANGED <<job, out, ran, hist, log, life>>

(* configure_io, and the creation of the view *)
ConfigureIo ==
    /\ phase = "enabling" /\ nxt > Len(J.cmds)
    /\ \/ phase' = "running" /\ UNCHANGED <<st, disk>>
       \/ J.faults /\ Exit("failed", st, disk, "named")
    /\ UNCHANGED <<job, nxt, enabled, chain, out, ran, hist, log, life>>

(***************************************************************************)
(* bgpview_consumer_manager_process_view.  acc holds the chain state, the  *)
(* states and outputs of the consumers and the disk while the consumers    *)
(* run; fault is what goes wrong with a file, if anything: the consumer    *)
(* that cannot open its file, and the faults of the archiver.              *)
(***************************************************************************)
Process(c, acc, v, order) ==
    CASE c = "perasvisibility"  -> PerAsProcess(acc.st[c], v, acc.chain)
      [] c = "pergeovisibility" -> GeoProcess(acc.st[c], v, acc.chain)
      [] c = "announcedpfxs"    -> AnnouncedProcess(acc.st[c], v, acc.chain)
      [] c = "moas"             -> MoasProcess(acc.st[c], v, acc.chain)
      [] c = "edges"            -> EdgesProcess(acc.st[c], v, acc.chain)
      [] c = "triplets"         -> TripletsProcess(acc.st[c], v, acc.chain)
      [] c = "pfxorigins"       -> PfxOriginsProcess(acc.st[c], v, acc.chain)
      [] c = "routedspace"      -> RoutedProcess(acc.st[c], v, order)
      [] c = "pathchange"       -> PathChangeProcess(acc.st[c], v, J.rot)
      [] c = "subpfx"           -> SubpfxProcess(acc.st[c], v, acc.chain)
      [] c = "peerpfxorigins"   -> PeerPfxOriginsProcess(acc.st[c], v)
      [] c = "pfx2as"           -> Pfx2asProcess(acc.st[c], v, acc.chain)
      [] OTHER -> [st |-> acc.st[c], out |-> Nothing, ok |-> TRUE]

(* The consumer opens a file for the view; r is what it makes of the view. *)
OpensFile(c, acc, v, r) ==
    \/ c \in OpensEveryTime
    \/ c = "announcedpfxs" /\ r.out.due
    \/ c = "pfx2as" /\ r.out # Nothing
    \/ c = "pathchange" /\ NeedsFile(acc.st[c].file, v.time, J.rot)

(* The paths of the view's path store, which only grows.                   *)
PathStore(views) == SetToSeq(UNION {PathsIn(views[i]) : i \in 1 .. Len(views)})

Items(v) == WriteView(v, PathStore(Append(hist, v)))

Fault(c, naming, lost) == [at |-> c, naming |-> naming, lost |-> lost]

Faults(v) ==
    {Fault("none", "named", 0)}
      \cup (IF ~J.faults THEN {} ELSE {Fault(c, "named", 0) : c \in enabled})
      \cup (IF ~J.faults \/ "archiver" \notin enabled THEN {}
            ELSE {Fault("none", x, 0) : x \in Namings}
                   \cup {Fault("none", "named", k) : k \in 1 .. Len(Items(v))})

Archive(acc, v, fault) ==
    LET r == ArchiverProcess(acc.st["archiver"], acc.disk, v, Items(v), J.rot, fault)
    IN  [acc EXCEPT !.st["archiver"] = r.st, !.disk = r.disk, !.ok = r.ok,
                    !.ran = IF r.ok THEN @ \cup {"archiver"} ELSE @]

RunConsumer(acc, c, v, order, fault) ==
    IF ~acc.ok THEN acc
    ELSE IF c = "archiver" THEN Archive(acc, v, fault)
    ELSE IF c = "visibility"
    THEN [acc EXCEPT !.chain = VisibilityProcess(v), !.ran = @ \cup {c}]
    ELSE LET r == Process(c, acc, v, order)
         IN  IF (c = fault.at /\ OpensFile(c, acc, v, r)) \/ ~r.ok THEN [acc EXCEPT !.ok = FALSE]
             ELSE [acc EXCEPT !.st[c] = r.st, !.out[c] = r.out, !.ran = @ \cup {c}]

ManagerProcess(v, order, fault) ==
    FoldLeft(LAMBDA acc, c : RunConsumer(acc, c, v, order, fault),
             [chain |-> chain, st |-> st, out |-> out, disk |-> disk, ran |-> {}, ok |-> TRUE],
             SelectSeq(Order, LAMBDA c : c \in enabled))

Received == log \o hist

NextTime(gap) == IF Received = <<>> THEN FirstTime ELSE Last(Received).time + gap

(* One turn of the loop of main: a view arrives, all consumers see it.     *)
ProcessView ==
    /\ phase = "running" /\ Len(hist) < J.views
    /\ \E rib \in J.ribs, gap \in J.gaps, order \in J.orders, naming \in ExitNamings :
          LET v == [time |-> NextTime(gap), rib |-> rib] IN
          \E fault \in Faults(v) :
             LET r == ManagerProcess(v, order, fault)
             IN  /\ hist' = Append(hist, v)
                 /\ chain' = r.chain /\ out' = r.out /\ ran' = r.ran
                 /\ IF r.ok THEN st' = r.st /\ disk' = r.disk /\ UNCHANGED phase
                            ELSE Exit("failed", r.st, r.disk, naming)
    /\ UNCHANGED <<job, nxt, enabled, log, life>>

(* The source has no more views, or the limit on views is reached.         *)
EndOfViews ==
    /\ phase = "running"
    /\ \E naming \in ExitNamings : Exit("done", st, disk, naming)
    /\ UNCHANGED <<job, nxt, enabled, chain, out, ran, hist, log, life>>

(***************************************************************************)
(* The process dies, with the archiver anywhere in its writing.            *)
(***************************************************************************)
Crash ==
    /\ phase \in {"enabling", "running"} /\ life < J.lives
    /\ phase' = "dead"
    /\ \E d \in ArchiverCut(st["archiver"], disk) : disk' = d
    /\ st' = Fresh0
    /\ UNCHANGED <<job, nxt, enabled, chain, out, ran, hist, log, life>>

Restart ==
    /\ phase \in {"dead", "done"} /\ life < J.lives
    /\ phase' = "enabling" /\ nxt' = 1
    /\ enabled' = {} /\ chain' = NoChain
    /\ out' = [c \in Consumers |-> Nothing] /\ ran' = {}
    /\ log' = Received /\ hist' = <<>>
    /\ life' = life + 1
    /\ UNCHANGED <<job, st, disk>>

Next == EnableConsumer \/ ConfigureIo \/ ProcessView \/ EndOfViews \/ Crash \/ Restart

Spec == Init /\ [][Next]_vars

=============================================================================
