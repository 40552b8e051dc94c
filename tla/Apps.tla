-------------------------------- MODULE Apps --------------------------------
(***************************************************************************)
(* One application and the tunnel's slice: launching it inside, sweeping a *)
(* Flatpak's scope into a holding scope (launch_in_tunnel and              *)
(* capture_flatpak), moving one that already runs (attach_to_tunnel and    *)
(* the helper's attach), and stopping holding scopes that are idle.        *)
(*                                                                         *)
(* The application forks, exits and connects between any two steps of a    *)
(* command; a socket keeps the cgroup it was created in.  The launch of    *)
(* another application, which stops idle holding scopes too, may run       *)
(* beside a command for this one.                                          *)
(***************************************************************************)
EXTENDS Integers, FiniteSets

CONSTANTS
    MaxProcs,   \* bound: the application's processes, over the whole run
    Socks,      \* the sockets it may create
    Rounds,     \* how often attach looks for fresh processes: 5
    Faults      \* what the environment may do, a subset of AllFaults

\* "orphan":   while a launch captures a Flatpak, too, a process may exit before
\*             its children, which init adopts
\* "reaper":   a process may exit before its children, and an ancestor in the
\*             application adopts them (a Flatpak's bwrap, or any that called
\*             PR_SET_CHILD_SUBREAPER)
\* "setuid":   a process may change its user while it runs, or be started as
\*             another user than its parent
\* "regain":   one that is not the user's may become the user's again
\* "handover": while a command runs, a process may pass a connection on, or
\*             leave one to another that has it open, too
\* "overlap":  another launch may prune while a command runs
\* "slow":     a Flatpak may take longer than a launch waits for it, or still
\*             fill its scope after that
\* "ssfail":   ss may fail
\* "silent":   the application has sockets that are not connected
AllFaults == {"orphan", "reaper", "setuid", "regain", "handover", "overlap",
              "slow", "ssfail", "silent"}

ASSUME AppsAssumption ==
    /\ MaxProcs \in Nat \ {0}
    /\ Rounds \in Nat \ {0}
    /\ Faults \subseteq AllFaults

VARIABLES
    procs,      \* each process: its cgroup, its parent, its user
    socks,      \* each socket: its kind, its cgroup, who has it open
    hold,       \* the holding scope exists
    cmd,        \* the command for this application
    prune,      \* the launch of another one found the holding scope idle
    flatpak     \* the application is a Flatpak, for good

app == <<flatpak, procs, socks>>
vars == <<app, hold, cmd, prune>>

Procs == 1..MaxProcs
Nobody == 0

Places == {"start", "outside", "hold", "slice"}

\* "none" before a process is born and "gone" after it; else the cgroup
Alive(p) == procs[p].at \notin {"none", "gone"}
In(at) == {p \in Procs : procs[p].at = at}
Inside == In("hold") \cup In("slice")
Mine(p) == Alive(p) /\ procs[p].own

NoSock == [kind |-> "none", at |-> "none", by |-> {}]
NoTable == [p \in Procs |-> Nobody]
NoCmd == [do |-> "free", roots |-> {}, round |-> 0, table |-> NoTable,
          unread |-> {}, fresh |-> {}, moved |-> {}, swept |-> {}, listed |-> {}]

\* The user has it open already, outside, with one process or two; or not.
Init ==
    /\ \E n \in {0, 1, 2} :
         procs = [p \in Procs |->
                    [at |-> IF p <= n THEN "outside" ELSE "none",
                     parent |-> Nobody, own |-> TRUE]]
    /\ socks = [s \in Socks |-> NoSock]
    /\ hold = FALSE
    /\ cmd = NoCmd
    /\ prune = FALSE
    /\ flatpak \in BOOLEAN

Idle == cmd.do = "free"
Begins == Idle /\ ("overlap" \in Faults \/ ~prune)

Fails == cmd' = NoCmd

Newborn(p) == procs[p].at = "none" /\ \A q \in 1..p - 1 : procs[q].at # "none"

\* What migrate and attach write to cgroup.procs; ESRCH is no error.
MovesTo(p) ==
    procs' = IF Alive(p) THEN [procs EXCEPT ![p].at = "hold"] ELSE procs

---------------------------------------------------------------------------
(* attach_to_tunnel and the helper's attach.                               *)

\* descendants: the least set that has the roots and what the table says are
\* children of its members
Descendants(roots, table) ==
    LET Closed == {D \in SUBSET Procs :
                     roots \subseteq D /\ \A p \in Procs : table[p] \in D => p \in D}
    IN {p \in Procs : \A D \in Closed : p \in D}

\* pgrep, or the Flatpak's scopes; then the holding scope is ensured.  A
\* native application's children have other names; they are found as
\* descendants.
AttachStarts ==
    LET roots == IF flatpak THEN In("outside")
                 ELSE {p \in In("outside") : procs[p].parent = Nobody}
    IN /\ Begins
       /\ roots # {}
       /\ hold' = TRUE
       /\ cmd' = [NoCmd EXCEPT !.do = "auth", !.roots = roots]
       /\ UNCHANGED <<app, prune>>

\* pkexec runs the helper, or does not; hold.canonicalize and the owners of
\* the roots are checked before anything is moved.
AttachRuns ==
    /\ cmd.do = "auth"
    /\ \/ /\ hold
          /\ \A p \in cmd.roots : Mine(p)
          /\ cmd' = [cmd EXCEPT !.do = "scan"]
       \/ Fails
    /\ UNCHANGED <<app, hold, prune>>

\* The next round of the loop, if there is one, with process_table.
AttachScans ==
    /\ cmd.do = "scan"
    /\ cmd' = IF cmd.round < Rounds
              THEN [cmd EXCEPT !.do = "table", !.unread = Procs, !.round = @ + 1]
              ELSE [cmd EXCEPT !.do = "list", !.round = Rounds + 1]
    /\ UNCHANGED <<app, hold, prune>>

\* process_table comes past the entry of p, in any order; a process that is born
\* or ends meanwhile may have none.
ReadsStat(p) ==
    /\ cmd.do = "table"
    /\ p \in cmd.unread
    /\ cmd' = [cmd EXCEPT !.unread = @ \ {p},
                          !.table[p] = IF Alive(p) THEN procs[p].parent ELSE Nobody]
    /\ UNCHANGED <<app, hold, prune>>

\* Mutant: only the roots are moved.
FindsRoots ==
    /\ cmd.do = "table"
    /\ cmd.unread = {}
    /\ cmd' = [cmd EXCEPT !.do = "owners", !.unread = cmd.roots \ cmd.moved]
    /\ UNCHANGED <<app, hold, prune>>

\* The tree, without what was moved already
FindsTree ==
    /\ cmd.do = "table"
    /\ cmd.unread = {}
    /\ cmd' = [cmd EXCEPT !.do = "owners",
                          !.unread = Descendants(cmd.roots, cmd.table) \ cmd.moved]
    /\ UNCHANGED <<app, hold, prune>>

\* process_uid, for one process of the tree after the other
ReadsOwner(p) ==
    /\ cmd.do = "owners"
    /\ p \in cmd.unread
    /\ cmd' = [cmd EXCEPT !.unread = @ \ {p},
                          !.fresh = IF Mine(p) THEN @ \cup {p} ELSE @]
    /\ UNCHANGED <<app, hold, prune>>

\* No fresh process ends the loop.
FindsFresh ==
    /\ cmd.do = "owners"
    /\ cmd.unread = {}
    /\ cmd' = IF cmd.fresh = {} THEN [cmd EXCEPT !.do = "list", !.table = NoTable]
              ELSE [cmd EXCEPT !.do = "move"]
    /\ UNCHANGED <<app, hold, prune>>

\* Parents come first in the list.
AttachMoves(p) ==
    /\ cmd.do = "move"
    /\ p \in cmd.fresh
    /\ cmd.table[p] \notin cmd.fresh
    /\ IF hold
       THEN /\ MovesTo(p)
            /\ cmd' = [cmd EXCEPT
                         !.fresh = @ \ {p},
                         !.moved = IF Alive(p) THEN @ \cup {p} ELSE @,
                         !.do = IF cmd.fresh = {p} THEN "scan" ELSE "move",
                         !.table = IF cmd.fresh = {p} THEN NoTable ELSE @]
       ELSE Fails /\ UNCHANGED procs
    /\ UNCHANGED <<flatpak, socks, hold, prune>>

\* Mutant: what the processes found first had open is enough.
ListRoots == {s \in Socks : socks[s].kind = "remote" /\ socks[s].by \cap cmd.roots # {}}

\* ss -tunpH shows connected sockets; those of moved processes that go
\* beyond the local network are reset.
Listed == {s \in Socks : socks[s].kind = "remote" /\ socks[s].by \cap cmd.moved # {}}

\* If ss ends with an error its list is empty.
AttachLists ==
    /\ cmd.do = "list"
    /\ \/ cmd' = [cmd EXCEPT !.do = "reset", !.listed = Listed]
       \/ "ssfail" \in Faults /\ cmd' = [cmd EXCEPT !.do = "reset", !.listed = {}]
       \/ "ssfail" \in Faults /\ Fails
    /\ UNCHANGED <<app, hold, prune>>

AttachResets(s) ==
    /\ cmd.do = "reset"
    /\ s \in cmd.listed
    /\ \/ socks' = [socks EXCEPT ![s] = [NoSock EXCEPT !.kind = "closed"]]
       \/ "ssfail" \in Faults /\ UNCHANGED socks
    /\ cmd' = [cmd EXCEPT !.listed = @ \ {s}]
    /\ UNCHANGED <<flatpak, procs, hold, prune>>

AttachEnds ==
    /\ cmd.do = "reset"
    /\ cmd.listed = {}
    /\ cmd' = NoCmd
    /\ UNCHANGED <<app, hold, prune>>

---------------------------------------------------------------------------
(* launch_in_tunnel.                                                       *)

\* The application's presence, prune_idle_holds, ensure_hold, the spawn.  A
\* native one starts in a scope of the slice.
LaunchStarts(p) ==
    /\ Begins
    /\ In("outside") = {}
    /\ Inside = {}
    /\ "slow" \in Faults \/ In("start") = {}
    /\ Newborn(p)
    /\ procs' = [procs EXCEPT ![p].at = IF flatpak THEN "start" ELSE "slice"]
    /\ hold' = flatpak
    /\ cmd' = IF flatpak THEN [NoCmd EXCEPT !.do = "capture"]
              ELSE [NoCmd EXCEPT !.do = "launched"]
    /\ UNCHANGED <<flatpak, socks, prune>>

\* Mutant: the sweep ends with the first processes it moved.
SettlesAtOnce == cmd.swept # {} \/ cmd.moved # {}

\* Nothing was moved for a while: at least the last sweep found nothing.
Settled == cmd.moved # {} /\ cmd.swept = {}

\* A sweep of capture_flatpak begins.
CaptureSweeps ==
    /\ cmd.do = "capture"
    /\ cmd' = [cmd EXCEPT !.do = "sweep", !.fresh = In("outside"), !.swept = {}]
    /\ UNCHANGED <<app, hold, prune>>

CaptureMoves(p) ==
    /\ cmd.do = "sweep"
    /\ p \in cmd.fresh
    /\ IF hold
       THEN /\ MovesTo(p)
            /\ cmd' = [cmd EXCEPT !.fresh = @ \ {p},
                                  !.swept = IF Alive(p) THEN @ \cup {p} ELSE @,
                                  !.moved = IF Alive(p) THEN @ \cup {p} ELSE @]
       ELSE Fails /\ UNCHANGED procs
    /\ UNCHANGED <<flatpak, socks, hold, prune>>

\* Another sweep, or the loop is over: settled, or its 20 seconds are, which
\* is an error only if nothing was moved.
SweepEnds ==
    /\ cmd.do = "sweep"
    /\ cmd.fresh = {}
    /\ \/ cmd' = [cmd EXCEPT !.do = "capture"]
       \/ Settled /\ cmd' = [NoCmd EXCEPT !.do = "captured"]
       \/ cmd.moved = {} /\ Fails
       \/ /\ "slow" \in Faults
          /\ cmd.moved # {}
          /\ cmd' = [NoCmd EXCEPT !.do = "captured"]
    /\ UNCHANGED <<app, hold, prune>>

\* "Launched ... inside the tunnel."
LaunchEnds ==
    /\ cmd.do \in {"captured", "launched"}
    /\ cmd' = NoCmd
    /\ UNCHANGED <<app, hold, prune>>

---------------------------------------------------------------------------
(* prune_idle_holds, in the launch of another application.                 *)

\* idle_holds: only the placeholder is left in it.
IdleHold == hold /\ In("hold") = {}

PruneLists ==
    /\ IdleHold
    /\ "overlap" \in Faults \/ Idle
    /\ ~prune
    /\ prune' = TRUE
    /\ UNCHANGED <<app, hold, cmd>>

\* systemctl stop ends whatever the scope holds by then.
PruneStops ==
    /\ prune
    /\ prune' = FALSE
    /\ hold' = FALSE
    /\ procs' = [p \in Procs |-> IF procs[p].at = "hold"
                                 THEN [procs[p] EXCEPT !.at = "gone"] ELSE procs[p]]
    /\ socks' = [s \in Socks |-> [socks[s] EXCEPT !.by = @ \ In("hold")]]
    /\ UNCHANGED <<flatpak, cmd>>

---------------------------------------------------------------------------
(* The application.                                                        *)

\* The user starts it, outside; a Flatpak's scope counts as outside, too.
OpensOutside(p) ==
    /\ Idle
    /\ \A q \in Procs : ~Alive(q)
    /\ Newborn(p)
    /\ procs' = [procs EXCEPT ![p].at = "outside"]
    /\ UNCHANGED <<flatpak, socks, hold, cmd, prune>>

\* flatpak run moves itself into its own scope before it starts anything.
EntersScope(p) ==
    /\ procs[p].at = "start"
    /\ procs' = [procs EXCEPT ![p].at = "outside"]
    /\ UNCHANGED <<flatpak, socks, hold, cmd, prune>>

\* A child is in its parent's cgroup and has its sockets; sudo's is root's, and
\* what that starts may be the user's again.
Fork(p, q, own) ==
    /\ Alive(p) /\ procs[p].at # "start"
    /\ Newborn(q)
    /\ own = procs[p].own \/ "setuid" \in Faults
    /\ procs' = [procs EXCEPT ![q] = [at |-> procs[p].at, parent |-> p, own |-> own]]
    /\ socks' = [s \in Socks |->
                   IF p \in socks[s].by THEN [socks[s] EXCEPT !.by = @ \cup {q}]
                   ELSE socks[s]]
    /\ UNCHANGED <<flatpak, hold, cmd, prune>>

\* Who is whose child
Parents == [p \in Procs |-> IF Alive(p) THEN procs[p].parent ELSE Nobody]

Capturing == cmd.do \in {"capture", "sweep", "captured"}

\* Who adopts the children of p: init, or an ancestor
Heirs(p) ==
    {h \in Procs \cup {Nobody} :
        \/ /\ h = Nobody
           /\ \/ "orphan" \in Faults \/ ~Capturing
              \/ \A q \in Procs : Alive(q) => procs[q].parent # p
        \/ /\ "reaper" \in Faults
           /\ h \in Procs \ {p} /\ Alive(h) /\ p \in Descendants({h}, Parents)}

\* One end of it: a connection is closed with the last.
Leaves(p, s) ==
    IF socks[s].by = {p} THEN [NoSock EXCEPT !.kind = "closed"]
    ELSE [socks[s] EXCEPT !.by = @ \ {p}]

Exit(p) ==
    /\ Alive(p)
    /\ \E heir \in Heirs(p) :
         procs' = [q \in Procs |->
                     IF q = p THEN [procs[q] EXCEPT !.at = "gone"]
                     ELSE IF procs[q].parent = p
                     THEN [procs[q] EXCEPT !.parent = heir] ELSE procs[q]]
    /\ socks' = [s \in Socks |-> Leaves(p, s)]
    /\ UNCHANGED <<flatpak, hold, cmd, prune>>

Setuid(p) ==
    /\ "setuid" \in Faults
    /\ Alive(p)
    /\ procs[p].own \/ "regain" \in Faults
    /\ procs' = [procs EXCEPT ![p].own = ~@]
    /\ UNCHANGED <<flatpak, socks, hold, cmd, prune>>

Kinds == {"local", "remote"} \cup (IF "silent" \in Faults THEN {"unconnected"} ELSE {})

Connect(p, s, kind) ==
    /\ Mine(p) /\ procs[p].at # "start"
    /\ socks[s] = NoSock
    /\ socks' = [socks EXCEPT ![s] = [kind |-> kind, at |-> procs[p].at, by |-> {p}]]
    /\ UNCHANGED <<flatpak, procs, hold, cmd, prune>>

Close(p, s) ==
    /\ p \in socks[s].by
    /\ socks[s].by = {p} \/ "handover" \in Faults \/ Idle
    /\ socks' = [socks EXCEPT ![s] = Leaves(p, s)]
    /\ UNCHANGED <<flatpak, procs, hold, cmd, prune>>

\* p passes a connection on and may close its own end of it.
HandsOver(p, q, s) ==
    /\ "handover" \in Faults \/ Idle
    /\ p \in socks[s].by /\ Alive(q) /\ q # p
    /\ \E kept \in {{}, {p}} :
         socks' = [socks EXCEPT ![s].by = (@ \ {p}) \cup kept \cup {q}]
    /\ UNCHANGED <<flatpak, procs, hold, cmd, prune>>

Next ==
    \/ AttachStarts
    \/ AttachRuns
    \/ AttachScans
    \/ FindsTree
    \/ FindsFresh
    \/ AttachLists
    \/ AttachEnds
    \/ \E p \in Procs :
         \/ ReadsStat(p) \/ ReadsOwner(p) \/ AttachMoves(p)
         \/ CaptureMoves(p) \/ LaunchStarts(p)
         \/ OpensOutside(p) \/ EntersScope(p) \/ Exit(p) \/ Setuid(p)
    \/ \E s \in Socks : AttachResets(s)
    \/ CaptureSweeps
    \/ SweepEnds
    \/ LaunchEnds
    \/ PruneLists
    \/ PruneStops
    \/ \E p, q \in Procs, own \in BOOLEAN : Fork(p, q, own)
    \/ \E p \in Procs, s \in Socks, kind \in Kinds : Connect(p, s, kind)
    \/ \E p \in Procs, s \in Socks : Close(p, s)
    \/ \E p, q \in Procs, s \in Socks : HandsOver(p, q, s)

Spec == Init /\ [][Next]_vars

---------------------------------------------------------------------------
(* Properties.                                                             *)

\* The variables have their types.
TypeOK ==
    /\ procs \in [Procs -> [at : Places \cup {"none", "gone"},
                           parent : Procs \cup {Nobody}, own : BOOLEAN]]
    /\ socks \in [Socks ->
         [kind : {"none", "closed", "local", "remote", "unconnected"},
          at : Places \cup {"none"}, by : SUBSET Procs]]
    /\ cmd \in [do : {"free", "auth", "scan", "table", "owners", "move", "list",
                     "reset", "capture", "sweep", "captured", "launched"},
                roots : SUBSET Procs, round : 0..Rounds + 1,
                table : [Procs -> Procs \cup {Nobody}],
                unread : SUBSET Procs, fresh : SUBSET Procs, moved : SUBSET Procs,
                swept : SUBSET Procs, listed : SUBSET Socks]
    /\ hold \in BOOLEAN /\ prune \in BOOLEAN /\ flatpak \in BOOLEAN

\* The application as the user's: the roots, and the children of its processes,
\* as far as they are the user's.  What init adopted is not in it, nor what
\* root's processes start.
OwnRoots == {p \in cmd.roots : Mine(p)}
OwnParents == [p \in Procs |-> IF Mine(p) THEN procs[p].parent ELSE Nobody]
OwnTree == Descendants(OwnRoots, OwnParents)

\* Once attach has found nothing fresh, every process of the application that
\* is the user's is in the tunnel, however it forked while the table and the
\* owners were read and its siblings moved, and stays there
\* (dns-helper/src/main.rs, 146-165).
WholeTreeMoved ==
    cmd.do \in {"list", "reset"} /\ cmd.round <= Rounds => OwnTree \subseteq Inside

\* Attach is through, and did not run out of rounds.
ResetDone == cmd.do = "reset" /\ cmd.listed = {} /\ cmd.round <= Rounds

\* When it is through, no connection of the application to the outside was
\* created outside the tunnel: "Reset exactly those; the app reconnects, and
\* the new sockets are marked for the tunnel" (dns-helper/src/main.rs, 173-174).
OldConnectionsReset ==
    ResetDone =>
        \A s \in Socks :
            socks[s].kind = "remote" /\ socks[s].by \cap OwnTree # {} =>
                socks[s].at # "outside"

\* A sweep that has settled has caught the whole Flatpak: nothing of it is left
\* in its own scope, wherever it forked during the sweeps (apps.rs, 96-125).
CaptureSettled == cmd.do = "captured" => In("outside") = {}

\* "Stop holding scopes whose app has exited. Never touches one that still
\* holds a real process." (main.rs of the window, 780-781)
PruneSpares == prune => In("hold") = {}

---------------------------------------------------------------------------
(* Statements of the repository that some behaviour of the code refutes.   *)

\* "only ever touches processes owned by `uid`" (dns-helper/src/main.rs, 122)
OwnProcessesOnly ==
    [][\A p \in Procs : AttachMoves(p) /\ Alive(p) => procs[p].own]_vars

\* "Repeat until the tree stops growing" (dns-helper/src/main.rs, 146): then
\* all of the application is inside.
AllMoved ==
    cmd.do = "list" => \A p \in Procs : Mine(p) => p \in Inside

\* "the app's existing connections would stay on the normal path. Reset
\* exactly those" (dns-helper/src/main.rs, 172-173)
NothingOutside ==
    ResetDone =>
        \A s \in Socks : socks[s].kind \in {"none", "closed", "local"} \/ socks[s].at # "outside"

=============================================================================
