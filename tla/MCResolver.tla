---------------------------- MODULE MCResolver ----------------------------
(* Instances of Resolver for TLC.                                          *)
EXTENDS Resolver

CONSTANTS x, y, z

Lower(h) == [host |-> h, upper |-> FALSE]
Upper(h) == [host |-> h, upper |-> TRUE]

ThreeNames == {Lower(x), Lower(y), Lower(z)}
CaseNames  == {Lower(x), Upper(x), Lower(y)}

Ok(an, ns, ar) == [rcode |-> "NoError", an |-> an, ns |-> ns, ar |-> ar]
Bad(rcode)     == [rcode |-> rcode, an |-> {}, ns |-> {}, ar |-> {}]

\* A TTL below the floor, several records, one above the ceiling, an empty
\* answer, an alias to a name that does not exist, and each kind of failure.
AllAnswers == {Ok({0}, {}, {}), Ok({2, 4}, {3}, {4}), Ok({9}, {}, {}),
               Ok({}, {4}, {}), [Bad("NXDomain") EXCEPT !.an = {1}],
               Bad("ServFail"), Bad("Refused")}
FewAnswers == {Ok({0}, {}, {}), Ok({3}, {}, {}), Bad("ServFail")}

===========================================================================
