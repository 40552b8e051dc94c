----------------------------- MODULE MCTunnel -----------------------------
(* Instances of Tunnel for TLC.                                            *)
EXTENDS Tunnel, TLC

Symmetry == Permutations(Procs)

Interface == <<Section("interface"), Pair("privatekey", "k"), Pair("address", "v4")>>
OnePeer == Interface \o <<Section("peer"), Pair("publickey", "one")>>

TwoPeers ==
    Interface \o <<Section("peer"), Pair("postup", "cmd"), Pair("publickey", "one"),
                   Pair("endpoint", "one"), Section("peer"),
                   Pair("publickey", "two"), Pair("endpoint", "two")>>

\* A plain configuration, one with two peers and a hook, and two that are
\* refused
MCTexts ==
    {OnePeer, TwoPeers,
     Interface \o <<Section("peer"), Pair("endpoint", "one")>>,
     <<Pair("mtu", "v4")>> \o OnePeer}

MCOnePeer == {OnePeer}
\* What a kill during an import has left, and two imports at once
MCSpoilt == {SubSeq(TwoPeers, 1, 9), Over(OnePeer, TwoPeers)}
MCAbsent == {Absent}
===========================================================================
