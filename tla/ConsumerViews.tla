--------------------------- MODULE ConsumerViews ---------------------------
(***************************************************************************)
(* What the view consumers read: the view under process, and the chain     *)
(* state that the visibility consumer leaves for the consumers after it    *)
(* (bvc_visibility.c, bvc_chain_state in bgpview_consumer_manager.h).      *)
(*                                                                         *)
(* A view is a time and a table: for every prefix, the AS path of each     *)
(* active peer that announces it.  A prefix is active when some active     *)
(* peer announces it, so the active prefixes are those with a nonempty     *)
(* row.  A path is a sequence of segments, numbers; those in SetSegs stand *)
(* for AS sets and confederations, the others are plain AS numbers.  The   *)
(* empty path is the one without an origin segment.                        *)
(***************************************************************************)
EXTENDS Integers, Sequences, FiniteSets, FiniteSetsExt, SequencesExt

CONSTANTS
    Pfx,            \* the prefixes
    Peers,          \* the peers (peer ids)
    V6,             \* the prefixes of IPv6; the others are of IPv4
    DefaultRoutes,  \* 0.0.0.0/0 and ::/0
    Covers,         \* <<p, q>>: p is a strictly less specific prefix than q
    MaskLen,        \* the mask length of each prefix
    PeerAsn,        \* the AS number of each peer
    SetSegs,        \* the segments that are not plain AS numbers
    FullFeedSize    \* for each IP version, the prefixes of a full-feed peer

ASSUME ViewAssumption ==
    /\ V6 \subseteq Pfx /\ DefaultRoutes \subseteq Pfx
    /\ Covers \subseteq Pfx \X Pfx
    /\ MaskLen \in [Pfx -> Nat]
    /\ DOMAIN PeerAsn = Peers
    /\ FullFeedSize \in [{4, 6} -> Nat \ {0}]

Versions == {4, 6}

Version(p) == IF p \in V6 THEN 6 ELSE 4

ActivePfx(v) == {p \in Pfx : DOMAIN v.rib[p] # {}}

(* Two prefixes that share addresses.                                      *)
Overlaps(p, q) == <<p, q>> \in Covers \/ <<q, p>> \in Covers

(***************************************************************************)
(* bvc_visibility: the peers that announce something, the full-feed peers  *)
(* and the number of their distinct AS numbers, for each IP version.       *)
(***************************************************************************)
PfxCnt(v, q, ver) ==
    Cardinality({p \in Pfx : Version(p) = ver /\ q \in DOMAIN v.rib[p]})

(* The chain state of a manager no view went through.                      *)
NoChain == [computed |-> FALSE,
            peers    |-> [ver \in Versions |-> 0],
            ff       |-> [ver \in Versions |-> {}],
            asns     |-> [ver \in Versions |-> 0],
            usable   |-> [ver \in Versions |-> FALSE]]

FindFFPeers(v) ==
    [ver \in Versions |-> {q \in Peers : PfxCnt(v, q, ver) >= FullFeedSize[ver]}]

VisibilityProcess(v) ==
    LET ff == FindFFPeers(v)
        asns == [ver \in Versions |-> Cardinality({PeerAsn[q] : q \in ff[ver]})]
    IN  [computed |-> TRUE,
         peers    |-> [ver \in Versions |-> Cardinality({q \in Peers : PfxCnt(v, q, ver) > 0})],
         ff       |-> ff,
         asns     |-> asns,
         usable   |-> [ver \in Versions |-> asns[ver] > 0]]

(***************************************************************************)
(* What the consumers extract from the rows of the full-feed peers.        *)
(***************************************************************************)
FFPeers(v, chain, p) == DOMAIN v.rib[p] \cap chain.ff[Version(p)]

HasOrigin(path) == path # <<>>

FFOrigins(v, chain, p) ==
    {Last(v.rib[p][q]) : q \in {r \in FFPeers(v, chain, p) : HasOrigin(v.rib[p][r])}}

FFAsnOrigins(v, chain, p) == FFOrigins(v, chain, p) \ SetSegs

(* A full-feed peer announces one of the prefixes without an origin.       *)
Originless(v, chain, S) ==
    \E p \in S : \E q \in FFPeers(v, chain, p) : ~HasOrigin(v.rib[p][q])

(* The distinct AS numbers of the full-feed peers that announce p.         *)
FFAsns(v, chain, p) == {PeerAsn[q] : q \in FFPeers(v, chain, p)}

=============================================================================
