------------------------------- MODULE WgConf -------------------------------
(***************************************************************************)
(* WireGuard configurations as crates/dns-helper/src/tunnel.rs reads them: *)
(* WgConfig::parse, with_endpoint and what `up' hands to `wg setconf'.     *)
(*                                                                         *)
(* A text is the sequence of its lines without comments and blank lines: a *)
(* section, a key with a value, or something else.  Keys are lower case.   *)
(***************************************************************************)
EXTENDS Naturals, Sequences

Section(s)   == [section |-> s]
Pair(k, v)   == [key |-> k, value |-> v]
Malformed    == [malformed |-> TRUE]
Half         == "half"                  \* in place of a value: half of one
Absent       == <<[absent |-> TRUE]>>   \* in place of a text: no file

IsSection(l) == "section" \in DOMAIN l
IsPair(l)    == "key" \in DOMAIN l

Line == [section : STRING] \cup [key : STRING, value : STRING \cup {Half}]
          \cup {Malformed, Absent[1]}

InterfaceKeys == {"privatekey", "listenport", "fwmark"}
PeerKeys == {"publickey", "presharedkey", "allowedips", "endpoint",
             "persistentkeepalive"}

NoEndpoint == "none"
Invalid == [ok |-> FALSE]

\* Values that parse: is_ipv4_cidr of one of the addresses, u32 of the MTU
CONSTANTS V4Addresses, Mtus

---------------------------------------------------------------------------
(* parse: one line after the other.                                        *)

Start == [ok |-> TRUE, section |-> "", setconf |-> <<>>, v4 |-> {},
          mtu |-> "", endpoint |-> NoEndpoint, private |-> FALSE,
          peers |-> <<>>]

OnSection(c, l) ==
    IF l.section \notin {"interface", "peer"}
    THEN Invalid
    ELSE [c EXCEPT !.section = l.section,
                   !.setconf = Append(@, l),
                   !.peers = IF l.section = "peer" THEN Append(@, FALSE) ELSE @]

\* Addresses and the MTU are for `ip'; other keys, hooks included, are left.
OnInterface(c, l) ==
    CASE l.key = "address" ->
           [c EXCEPT !.v4 = IF l.value \in V4Addresses THEN @ \cup {l.value}
                            ELSE @]
      [] l.key = "mtu" ->
           IF l.value \in Mtus THEN [c EXCEPT !.mtu = l.value] ELSE Invalid
      [] l.key \in InterfaceKeys ->
           [c EXCEPT !.private = @ \/ l.key = "privatekey",
                     !.setconf = Append(@, l)]
      [] OTHER -> c

\* Mutant: every key of a peer goes on to wg.
OnPeerAnyKey(c, l) ==
    [c EXCEPT !.setconf = Append(@, l),
              !.peers = IF l.key = "publickey" THEN [@ EXCEPT ![Len(@)] = TRUE]
                        ELSE @]

\* The first endpoint is the one that is kept apart.
OnPeer(c, l) ==
    IF l.key \notin PeerKeys
    THEN c
    ELSE [c EXCEPT
            !.setconf = Append(@, l),
            !.peers = IF l.key = "publickey" THEN [@ EXCEPT ![Len(@)] = TRUE]
                      ELSE @,
            !.endpoint = IF l.key = "endpoint" /\ @ = NoEndpoint THEN l.value
                         ELSE @]

OnLine(c, l) ==
    CASE ~c.ok                   -> c
      [] c.ok /\ IsSection(l)    -> OnSection(c, l)
      [] c.ok /\ IsPair(l)       ->
           CASE c.section = "interface" -> OnInterface(c, l)
             [] c.section = "peer"      -> OnPeer(c, l)
             [] OTHER                   -> Invalid
      [] OTHER                   -> Invalid

Parse(text) ==
    LET after[n \in 0..Len(text)] ==
          IF n = 0 THEN Start ELSE OnLine(after[n - 1], text[n])
        c == after[Len(text)]
    IN  IF c.ok /\ c.private /\ c.peers # <<>> /\ c.v4 # {}
             /\ \A i \in DOMAIN c.peers : c.peers[i]
        THEN c ELSE Invalid

\* What is on disk of a text whose writing stopped short: whole lines, then
\* nothing, half a line or a key with half its value.
CutShort(text) ==
    LET last(l) == {<<>>, <<Malformed>>} \cup
                     (IF IsPair(l) THEN {<<[l EXCEPT !.value = Half]>>} ELSE {})
    IN UNION {{SubSeq(text, 1, n) \o end : end \in last(text[n + 1])} :
                n \in 0..Len(text) - 1}

---------------------------------------------------------------------------
(* with_endpoint, and the file up writes; resolve_endpoint_v4 gives v4 for *)
(* the first endpoint.                                                     *)

WithEndpoint(setconf, v4) ==
    [i \in DOMAIN setconf |->
        IF IsPair(setconf[i]) /\ setconf[i].key = "endpoint"
        THEN Pair("endpoint", v4) ELSE setconf[i]]

HandedToWg(c, v4) ==
    IF c.endpoint = NoEndpoint THEN c.setconf ELSE WithEndpoint(c.setconf, v4)

=============================================================================
