------------------------------- MODULE Policy -------------------------------
(***************************************************************************)
(* The routing policy: which names go to DoH and which stay on the         *)
(* network's own resolver (crates/dns-core/src/policy.rs).                 *)
(*                                                                         *)
(* A text is the sequence of its labels, split at the dots, so a trailing  *)
(* dot is a last label that is empty and "." is two of them.  Comparing    *)
(* ends of strings at a dot is comparing ends of these sequences.          *)
(***************************************************************************)
EXTENDS Integers, Sequences, SequencesExt

CONSTANTS
    LowerCase,  \* the labels with capitals, and what to_ascii_lowercase gives
    U8          \* the labels that parse::<u8> accepts, and their numbers

\* The labels of policy.rs itself
Literals == {"local", "lan", "home", "internal", "intranet", "localdomain",
             "localhost", "in-addr", "ip6", "arpa", "*", ""}

\* True of every literal, but not known to the provers
ASSUME LiteralsAssumption == Literals \subseteq STRING
ASSUME LowerAssumption ==
    /\ DOMAIN LowerCase \subseteq STRING \ Literals
    /\ \A l \in DOMAIN LowerCase :
         LowerCase[l] \in STRING \ (DOMAIN LowerCase \cup {""})
ASSUME U8Assumption ==
    \A l \in DOMAIN U8 :
        /\ l \in STRING \ (DOMAIN LowerCase \cup {""})
        /\ U8[l] \in 0..255

ToLower(l) == IF l \in DOMAIN LowerCase THEN LowerCase[l] ELSE l
NotU8 == -1
ParseU8(l) == IF l \in DOMAIN U8 THEN U8[l] ELSE NotU8

\* Trailing dots off, lower case
NormaliseStr(text) ==
    [i \in 1..SelectLastInSeq(text, LAMBDA l : l # "") |-> ToLower(text[i])]

\* A leading wildcard means subdomains only; an empty suffix matches nothing.
SuffixMatches(name, suffix) ==
    LET s == NormaliseStr(suffix) IN
        /\ s # <<>>
        /\ IF Len(s) > 1 /\ Head(s) = "*"
           THEN IsStrictSuffix(Tail(s), name)
           ELSE IsSuffix(s, name)

LocalSuffixes ==
    {<<"local">>, <<"lan">>, <<"home">>, <<"home", "arpa">>, <<"internal">>,
     <<"intranet">>, <<"localdomain">>, <<"localhost">>}

\* Mutant: the second octet of 172.16/12 runs one too far.
PrivateOctetsWide(a, b) ==
    \/ a \in {10, 127}
    \/ a = 192 /\ b = 168
    \/ a = 172 /\ b \in 16..32
    \/ a = 169 /\ b = 254

PrivateOctets(a, b) ==
    \/ a \in {10, 127}
    \/ a = 192 /\ b = 168
    \/ a = 172 /\ b \in 16..31
    \/ a = 169 /\ b = 254

\* What prefix.starts_with is asked for, character by character
PrivateNibbles ==
    {<<"f", "c">>, <<"f", "d">>, <<"f", "e", "8">>, <<"f", "e", "9">>,
     <<"f", "e", "a">>, <<"f", "e", "b">>}

\* The labels before the zone are reversed: the last is the first octet, or
\* the first nibble.  prefix is put together from two nibble labels.
IsPrivateReverse(name) ==
    LET z == Len(name) - 2
        second == IF z > 1 THEN name[z - 1] ELSE ""
    IN \/ /\ IsStrictSuffix(<<"in-addr", "arpa">>, name)
          /\ PrivateOctets(ParseU8(name[z]), ParseU8(second))
       \/ /\ IsStrictSuffix(<<"ip6", "arpa">>, name)
          /\ z > 1
          /\ \E p \in PrivateNibbles : IsPrefix(p, <<name[z], second>>)

IsBuiltinLocal(name) ==
    \/ \E s \in LocalSuffixes : SuffixMatches(name, s)
    \/ Len(name) <= 1
    \/ IsPrivateReverse(name)

\* Mutant: explicit DoH is looked at before explicit local.
RouteDohFirst(policy, text) ==
    LET name == NormaliseStr(text) IN
        IF \/ IsBuiltinLocal(name)
           \/ /\ ~\E s \in policy.force_doh : SuffixMatches(name, s)
              /\ \/ \E s \in policy.force_local : SuffixMatches(name, s)
                 \/ ~policy.default_doh
        THEN "system" ELSE "doh"

\* Policy::route: explicit local, built-in local, explicit DoH, the default
Route(policy, text) ==
    LET name == NormaliseStr(text) IN
        IF \/ \E s \in policy.force_local : SuffixMatches(name, s)
           \/ IsBuiltinLocal(name)
        THEN "system"
        ELSE IF \/ \E s \in policy.force_doh : SuffixMatches(name, s)
                \/ policy.default_doh
             THEN "doh" ELSE "system"

DefaultPolicy == [default_doh |-> TRUE, force_doh |-> {}, force_local |-> {}]

\* set_force_doh
WithForceDoh(policy, domains) ==
    [policy EXCEPT !.force_doh = {NormaliseStr(d) : d \in domains}]

=============================================================================
