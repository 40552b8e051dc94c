------------------------------ MODULE Diagnose ------------------------------
(***************************************************************************)
(* The verdict of a diagnosis: via_isp, via_doh, check and conclude of     *)
(* crates/dns-helper/src/diagnose.rs, over what the resolvers answer and   *)
(* which addresses accept a connection.                                    *)
(***************************************************************************)
EXTENDS FiniteSets

CONSTANTS
    Addresses,  \* what a resolver may answer
    Restricted  \* RESTRICTION_TARGETS

\* Mutant: an ISP that answers is an ISP that works.
WorksIfAnswered(answers, reachable) == answers # {}

Works(answers, reachable) == answers \cap reachable # {}

Conclude(isp, doh, reachable) ==
    CASE isp = {} /\ doh = {} -> "ResolutionFailed"
      [] isp \cup doh # {} /\ reachable = {} -> "BlockedBeyondDns"
      [] OTHER ->
           CASE ~Works(isp, reachable) /\ Works(doh, reachable) ->
                  "DnsInterference"
             [] Works(isp, reachable) /\ Works(doh, reachable) ->
                  IF isp = doh THEN "Healthy" ELSE "DivergentButHealthy"
             [] Works(isp, reachable) /\ ~Works(doh, reachable) -> "Healthy"
             [] OTHER -> "BlockedBeyondDns"

\* check: the union is probed; a restriction address decides on its own.
Verdict(isp, doh, live) ==
    IF (isp \cup doh) \cap Restricted # {}
    THEN "ContentRestrictionForced"
    ELSE Conclude(isp, doh, (isp \cup doh) \cap live)

=============================================================================
