----------------------------- MODULE FileFormat -----------------------------
(***************************************************************************)
(* The binary view format of bgpview_io_file.c: what is written for a      *)
(* view, and what a reader makes of it.                                    *)
(*                                                                         *)
(* A file is a sequence of items, one for each group of values the code    *)
(* writes together: the start of a view and its time, a peer, a path, a    *)
(* prefix, a cell of a prefix, and the magic numbers that close a section, *)
(* followed by the number of its entries.  Cells name their peer by the    *)
(* writer's peer id and their path by the index in the writer's path       *)
(* store; the reader translates both through the tables before them.       *)
(***************************************************************************)
EXTENDS ConsumerViews

CONSTANT
    PeerId          \* the peer ids in the writer's view

PathsIn(v) == UNION {{v.rib[p][q] : q \in DOMAIN v.rib[p]} : p \in Pfx}

AnnouncingPeers(v) == UNION {DOMAIN v.rib[p] : p \in Pfx}

WritePeers(v) ==
    LET qs == SetToSeq(AnnouncingPeers(v))
    IN  [i \in 1 .. Len(qs) |-> <<"peer", PeerId[qs[i]], qs[i]>>] \o <<<<"PEND", Len(qs)>>>>

(* Every path of the store is written, used by the view or not.            *)
WritePaths(store) ==
    [i \in 1 .. Len(store) |-> <<"path", i - 1, store[i]>>] \o <<<<"PATH", Len(store)>>>>

IndexIn(store, path) == (CHOOSE i \in 1 .. Len(store) : store[i] = path) - 1

WritePfxPeers(v, p, store) ==
    LET qs == SetToSeq(DOMAIN v.rib[p])
    IN  [i \in 1 .. Len(qs) |-> <<"cell", PeerId[qs[i]], IndexIn(store, v.rib[p][qs[i]])>>]

WritePfxs(v, store) ==
    LET ps == SetToSeq(ActivePfx(v))
        Row(p) == LET cells == WritePfxPeers(v, p, store)
                  IN  <<<<"pfx", p>>>> \o cells \o <<<<"PEND", Len(cells)>>>>
    IN  FlattenSeq([i \in 1 .. Len(ps) |-> Row(ps[i])]) \o <<<<"XEND", Len(ps)>>>>

(* bgpview_io_file_write *)
WriteView(v, store) ==
    <<<<"STRT", v.time>>>> \o WritePeers(v) \o WritePaths(store) \o WritePfxs(v, store)
      \o <<<<"VEND", 0>>>>

(* Only these items hold a value whose write is checked: WRITE_VAL, which  *)
(* writes all the rest, prints a message and goes on.  A failure in the    *)
(* unchecked rest of an item counts as one of the item after it.           *)
Checked(item) == item[1] \in {"peer", "path", "pfx"}

(* The write reports a failure of the last lost items.                     *)
WriteFails(items, lost) == \E i \in Len(items) - lost + 1 .. Len(items) : Checked(items[i])

(***************************************************************************)
(* The reader goes through the items; the state says which section comes   *)
(* next and holds the translation tables of the view.  An item that does   *)
(* not belong there, or a section whose count is wrong, stops it.          *)
(***************************************************************************)
NoRow == [q \in {} |-> <<>>]

ReaderStart == [at |-> "view", n |-> 0, time |-> 0, peer |-> <<>>, path |-> <<>>,
                pfx |-> 0, pfxs |-> 0, rib |-> [p \in Pfx |-> NoRow], views |-> <<>>]

With(f, k, x) == [j \in DOMAIN f \cup {k} |-> IF j = k THEN x ELSE f[j]]

ReadStart(r, x) ==
    [ReaderStart EXCEPT !.at = "peers", !.time = x[2], !.views = r.views]

(* read_peers *)
ReadPeers(r, x) ==
    CASE x[1] = "peer" -> [r EXCEPT !.n = @ + 1, !.peer = With(@, x[2], x[3])]
      [] x[1] = "PEND" /\ x[2] = r.n -> [r EXCEPT !.at = "paths", !.n = 0]
      [] OTHER -> [r EXCEPT !.at = "error"]

(* read_paths *)
ReadPaths(r, x) ==
    CASE x[1] = "path" -> [r EXCEPT !.n = @ + 1, !.path = With(@, x[2], x[3])]
      [] x[1] = "PATH" /\ x[2] = r.n -> [r EXCEPT !.at = "pfxs", !.n = 0]
      [] OTHER -> [r EXCEPT !.at = "error"]

\* Mutant: the cells of a prefix are not counted from zero
ReadPfxRunningCount(r, x) == [r EXCEPT !.at = "cells", !.pfx = x[2], !.pfxs = @ + 1]

ReadPfx(r, x) == [r EXCEPT !.at = "cells", !.pfx = x[2], !.pfxs = @ + 1, !.n = 0]

(* read_pfxs, with the peers of each prefix                                *)
ReadPfxs(r, x) ==
    CASE r.at = "pfxs" /\ x[1] = "pfx" -> ReadPfx(r, x)
      [] r.at = "pfxs" /\ x[1] = "XEND" /\ x[2] = r.pfxs ->
            [r EXCEPT !.at = "end", !.views = Append(@, [time |-> r.time, rib |-> r.rib])]
      [] /\ r.at = "cells" /\ x[1] = "cell"
         /\ x[2] \in DOMAIN r.peer /\ x[3] \in DOMAIN r.path ->
            [r EXCEPT !.n = @ + 1, !.rib[r.pfx] = With(@, r.peer[x[2]], r.path[x[3]])]
      [] r.at = "cells" /\ x[1] = "PEND" /\ x[2] = r.n -> [r EXCEPT !.at = "pfxs"]
      [] OTHER -> [r EXCEPT !.at = "error"]

(* A missing end-of-view magic is reported and the view is kept.           *)
ReadItem(r, x) ==
    CASE r.at \in {"view", "end"} /\ x[1] = "STRT" -> ReadStart(r, x)
      [] r.at = "peers" -> ReadPeers(r, x)
      [] r.at = "paths" -> ReadPaths(r, x)
      [] r.at \in {"pfxs", "cells"} -> ReadPfxs(r, x)
      [] r.at = "end" /\ x[1] = "VEND" -> [r EXCEPT !.at = "view"]
      [] OTHER -> [r EXCEPT !.at = "error"]

(* The end of the file.  Between views the read returns 0.  Inside one it  *)
(* never returns the view: READ_VAL goes on with what its variable held,   *)
(* so that the read fails, stops at an assertion or repeats the last entry *)
(* until its loop runs out; "cut" stands for all of these.                 *)
ReadEof(r) == IF r.at \in {"view", "end", "error"} THEN r ELSE [r EXCEPT !.at = "cut"]

(* bgpview_io_file_read, called until it returns something other than 1.   *)
ReadAll(items) ==
    LET read[n \in 0 .. Len(items)] ==
            IF n = 0 THEN ReaderStart ELSE ReadItem(read[n - 1], items[n])
    IN  ReadEof(read[Len(items)])

=============================================================================
