---------------------------- MODULE BGPViewAbs -----------------------------
(***************************************************************************)
(* What a view promises its users (lib/bgpview.h): a set of peers, some of *)
(* them active, and a relation between prefixes and peers, part of it      *)
(* active.  Everything else (the state of a prefix, the counters, what is  *)
(* still allocated) is either determined by these or not visible.          *)
(***************************************************************************)
CONSTANTS Peers, Pfxs

VARIABLES
    known,      \* peers in the view, active or not
    up,         \* active peers
    rib,        \* pfx-peers in the view, active or not
    live        \* active pfx-peers

absVars == <<known, up, rib, live>>

OfPeer(p) == Pfxs \X {p}
OfPfx(x) == {x} \X Peers

AbsInit == known = {} /\ up = {} /\ rib = {} /\ live = {}

\* A peer appears, inactive
AbsAddPeer(p) ==
    /\ known' = known \cup {p}
    /\ UNCHANGED <<up, rib, live>>

AbsActivatePeer(p) ==
    /\ p \in known
    /\ up' = up \cup {p}
    /\ UNCHANGED <<known, rib, live>>

\* A peer that goes down takes exactly its own pfx-peers down with it
AbsDeactivatePeer(p) ==
    /\ up' = up \ {p}
    /\ live' = live \ OfPeer(p)
    /\ UNCHANGED <<known, rib>>

\* A peer that is removed takes exactly its own pfx-peers along
AbsRemovePeer(p) ==
    /\ known' = known \ {p}
    /\ up' = up \ {p}
    /\ rib' = rib \ OfPeer(p)
    /\ live' = live \ OfPeer(p)

\* A pfx-peer appears, inactive, for a known peer
AbsAddPfxPeer(x, p) ==
    /\ p \in known
    /\ rib' = rib \cup {<<x, p>>}
    /\ UNCHANGED <<known, up, live>>

\* Only a pfx-peer of an active peer becomes active
AbsPfxActivatePeer(x, p) ==
    /\ p \in up
    /\ <<x, p>> \in rib
    /\ live' = live \cup {<<x, p>>}
    /\ UNCHANGED <<known, up, rib>>

\* Some pfx-peers of one prefix go down, S those that leave the view as well
AbsPfxDown(x, D, S) ==
    /\ D \subseteq OfPfx(x)
    /\ S \subseteq D
    /\ live' = live \ D
    /\ rib' = rib \ S
    /\ UNCHANGED <<known, up>>

AbsClear == known' = {} /\ up' = {} /\ rib' = {} /\ live' = {}

AbsNext ==
    \/ \E p \in Peers : \/ AbsAddPeer(p)
                        \/ AbsActivatePeer(p)
                        \/ AbsDeactivatePeer(p)
                        \/ AbsRemovePeer(p)
    \/ \E x \in Pfxs, p \in Peers :
          \/ AbsAddPfxPeer(x, p)
          \/ AbsPfxActivatePeer(x, p)
          \/ AbsPfxDown(x, {<<x, p>>}, {})            \* one, deactivated
          \/ AbsPfxDown(x, {<<x, p>>}, {<<x, p>>})    \* one, removed
    \/ \E x \in Pfxs : \/ AbsPfxDown(x, OfPfx(x), {})
                       \/ AbsPfxDown(x, OfPfx(x), OfPfx(x))
    \/ AbsClear

AbsSpec == AbsInit /\ [][AbsNext]_absVars
=============================================================================
