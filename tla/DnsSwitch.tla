----------------------------- MODULE DnsSwitch -----------------------------
(***************************************************************************)
(* What the takeover of resolv.conf promises to the rest of the system: a  *)
(* switch between the resolvers the system chose and the local proxy that  *)
(* can always be thrown back.  Nothing is said of processes, crashes or    *)
(* the files that make it possible.                                        *)
(***************************************************************************)

CONSTANTS
    Contents,   \* what resolv.conf may say when the system has chosen
    Redirect,   \* what it says when the proxy answers
    Absent      \* it is not there

VARIABLES
    chosen,     \* what the system chose
    conf,       \* what a program that reads resolv.conf finds
    undo        \* the way back is recorded on disk

vars == <<chosen, conf, undo>>

Init ==
    /\ chosen \in Contents
    /\ conf = chosen
    /\ undo = FALSE

\* The way back is recorded, or forgotten, only while the choice is in force.
Record ==
    /\ conf = chosen
    /\ undo' = ~undo
    /\ UNCHANGED <<chosen, conf>>

Take ==
    /\ undo
    /\ conf = chosen
    /\ conf' = Redirect
    /\ UNCHANGED <<chosen, undo>>

\* A symbolic link cannot be replaced in one step.
Lose ==
    /\ undo
    /\ conf' = Absent
    /\ UNCHANGED <<chosen, undo>>

GiveBack ==
    /\ undo
    /\ conf' = chosen
    /\ UNCHANGED <<chosen, undo>>

Next == Record \/ Take \/ Lose \/ GiveBack

Spec == Init /\ [][Next]_vars

===========================================================================
