------------------------------ MODULE Archiver ------------------------------
(***************************************************************************)
(* The consumers that write rotated files: archiver, which archives every  *)
(* view (bvc_archiver.c), and pathchange, which reports the paths that     *)
(* changed since the view before (bvc_pathchange.c).                       *)
(*                                                                         *)
(* A file is named by its time (the %s of the file pattern).  The disk     *)
(* outlives the process: it maps each file to the items written to it,     *)
(* with flags for a file that was closed and for one that takes no more    *)
(* items since a write failed, and holds the name in the "latest" file (0  *)
(* when there is none).                                                    *)
(***************************************************************************)
EXTENDS FileFormat

NoFile == 0

NoDisk == [files |-> <<>>, latest |-> NoFile]

NewFile == [items |-> <<>>, closed |-> FALSE, broken |-> FALSE]

NoArchiver == [open |-> NoFile, next |-> 0]

(* SHOULD_ROTATE, and the first view of the process                        *)
NeedsFile(a, t, rot) == a.open = NoFile \/ (rot.interval > 0 /\ t >= a.next)

FileTime(t, rot) ==
    IF rot.interval > 0 /\ rot.align THEN (t \div rot.interval) * rot.interval ELSE t

(* What can become of the latest file: it holds the name, it is created    *)
(* and the name is not written, or it cannot be created.                   *)
Namings == {"named", "empty", "failed"}

(* complete_file: the file is closed, then named in the latest file.       *)
CompleteFile(disk, f, naming) ==
    IF f = NoFile THEN disk
    ELSE LET d == [disk EXCEPT !.files[f].closed = TRUE]
         IN  CASE naming = "named"  -> [d EXCEPT !.latest = f]
               [] naming = "empty"  -> [d EXCEPT !.latest = NoFile]
               [] naming = "failed" -> d

(* Opening creates the file or empties the one of that name.               *)
Opened(disk, f) == [disk EXCEPT !.files = With(@, f, NewFile)]

(* All items but the last lost ones reach the file.                        *)
Written(disk, f, items, lost) ==
    IF disk.files[f].broken THEN disk
    ELSE [disk EXCEPT !.files[f].items = @ \o SubSeq(items, 1, Len(items) - lost),
                      !.files[f].broken = lost > 0]

(* The file and the rotation time after the test at the top of             *)
(* process_view, which archiver and pathchange share.                      *)
Rotate(a, t, rot) ==
    IF ~NeedsFile(a, t, rot) THEN a
    ELSE LET f == FileTime(t, rot)
         IN  [a EXCEPT !.open = f, !.next = IF rot.interval > 0 THEN f + rot.interval ELSE @]

(* bvc_archiver_process_view; items is what the format makes of the view.  *)
(* The fault of the call, if any: the name of the completed file is not    *)
(* written, the new file cannot be opened, or items are lost.              *)
ArchiverProcess(a, disk, v, items, rot, fault) ==
    LET needs == NeedsFile(a, v.time, rot)
        b     == Rotate(a, v.time, rot)
        d     == IF needs THEN CompleteFile(disk, a.open, fault.naming) ELSE disk
        lost  == IF ~needs /\ disk.files[b.open].broken THEN Len(items) ELSE fault.lost
    IN  IF needs /\ a.open # NoFile /\ fault.naming = "failed"
        THEN [st |-> [a EXCEPT !.open = NoFile], disk |-> d, ok |-> FALSE]
        ELSE IF needs /\ fault.at = "archiver"
        THEN [st |-> [b EXCEPT !.open = NoFile], disk |-> d, ok |-> FALSE]
        ELSE [st   |-> b,
              disk |-> Written(IF needs THEN Opened(d, b.open) ELSE d, b.open, items, lost),
              ok   |-> ~WriteFails(items, lost)]

(* archiver_destroy: a failure to name the file is only reported.          *)
ArchiverDestroy(a, disk, naming) == CompleteFile(disk, a.open, naming)

(* The process dies: a prefix of what it wrote to the open file is left,   *)
(* or it was in complete_file and the file is closed, named or not.        *)
ArchiverCut(a, disk) ==
    IF a.open = NoFile THEN {disk}
    ELSE {[disk EXCEPT !.files[a.open].items = SubSeq(@, 1, n)] :
            n \in 0 .. Len(disk.files[a.open].items)}
           \cup {CompleteFile(disk, a.open, naming) : naming \in Namings}

(***************************************************************************)
(* pathchange                                                              *)
(***************************************************************************)
NoPathChange == [file |-> NoArchiver, parent |-> <<>>]

(* The view is copied over the parent.                                     *)
ParentOf(s, v) == <<v>>

(* diff_paths: the cells of both views whose path changed                  *)
DiffPaths(old, new) ==
    {x \in Pfx \X Peers : /\ x[2] \in DOMAIN old.rib[x[1]] \cap DOMAIN new.rib[x[1]]
                          /\ old.rib[x[1]][x[2]] # new.rib[x[1]][x[2]]}

PathChangeProcess(s, v, rot) ==
    [st  |-> [file |-> Rotate(s.file, v.time, rot), parent |-> ParentOf(s, v)],
     out |-> IF s.parent = <<>> THEN {} ELSE DiffPaths(s.parent[1], v),
     ok  |-> TRUE]

=============================================================================
