------------------------------ MODULE MCProxy ------------------------------
(* Instances of Proxy for TLC.                                             *)
EXTENDS Proxy

\* A public name, a local one, and a query that does not parse; ids differ,
\* and the payload sizes lie below and above the limits.
MCQueries ==
    {[via |-> "udp", parse |-> "ok", id |-> 1, name |-> <<"Example", "com", "">>,
      edns |-> 5000],
     [via |-> "udp", parse |-> "ok", id |-> 2, name |-> <<"nas", "LAN", "">>, edns |-> 100],
     [via |-> "tcp", parse |-> "ok", id |-> 4, name |-> <<"tv", "LAN", "">>, edns |-> 0],
     [via |-> "tcp", parse |-> "short", id |-> 3, name |-> <<>>, edns |-> 0]}
MCLowerCase == [l \in {"Example", "LAN"} |->
                  IF l = "LAN" THEN "lan" ELSE "example"]
MCU8 == [l \in {} |-> 0]
MCRules == DefaultPolicy
MCSizes == {512, 513, 4096, 4097}

=============================================================================
