----------------------------- MODULE MCRTUpdates -----------------------------
(* RTUpdates for TLC                                                         *)
EXTENDS RTUpdates, TLC

CONSTANT c1

OneCollector == [p \in Peers |-> c1]

\* Three seconds of updates and RIBs; corrupted records too around the end of an
\* interval
UpdatesAndRecords ==
    {[first |-> FirstTime, kinds |-> {"RIB", "PREFIX", "STATE"}],
     [first |-> FirstTime + 1,
      kinds |-> {"RIB", "PREFIX", "STATE", "CORRUPTED"}]}

\* No walk depends on the order it takes the prefixes in
PfxSymmetry == Permutations(Pfxs)
=============================================================================
