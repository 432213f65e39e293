---------------------------- MODULE MCZmqServer ----------------------------
(* Small instances of ZmqServer for TLC.                                   *)
EXTENDS ZmqServer, TLC

\* Two neighbouring slots, the slide by one that makes room for the second, and a
\* jump past the window.  The first time is not a multiple of ItemTime.
MCTimes == {3, 4, 8}

MCSymmetry == Permutations(Clients)
=============================================================================
