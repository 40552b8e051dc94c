----------------------------- MODULE AppsProofs -----------------------------
(* Proofs about Apps: what attach and capture_flatpak leave outside the    *)
(* tunnel, for any number of processes, sockets and rounds.                *)
EXTENDS Apps, NaturalsInduction, WellFoundedInduction, TLAPS

\* A set of processes that is not empty has a first, by birth.
LEMMA FirstBorn ==
    ASSUME NEW S \in SUBSET Procs, S # {}
    PROVE  \E p \in S : \A q \in S : ~(q < p)
<1> DEFINE R == OpToRel(<, Nat)
<1>1. S \subseteq Nat
  BY AppsAssumption DEF Procs
<1>2. IsWellFoundedOn(R, Nat)
  BY NatLessThanWellFounded
<1>3. PICK p \in S : \A q \in S : ~(<<q, p>> \in R)
  BY <1>1, <1>2, WFMin
<1> QED BY <1>1, <1>3 DEF OpToRel

---------------------------------------------------------------------------
(* Types.                                                                  *)

Shapes == [at : Places \cup {"none", "gone"},
           parent : Procs \cup {Nobody}, own : BOOLEAN]
Handles == [kind : {"none", "closed", "local", "remote", "unconnected"},
            at : Places \cup {"none"}, by : SUBSET Procs]
Tables == [Procs -> Procs \cup {Nobody}]
Commands == [do : {"free", "auth", "scan", "table", "owners", "move", "list",
                   "reset", "capture", "sweep", "captured", "launched"},
             roots : SUBSET Procs, round : 0..Rounds + 1,
             table : Tables, unread : SUBSET Procs, fresh : SUBSET Procs, moved : SUBSET Procs,
             swept : SUBSET Procs, listed : SUBSET Socks]

\* The rounds of attach are counted up to their bound before it lists.
InCount(c) == c.do \notin {"list", "reset"} => c.round \in 0..Rounds

TypeInv == TypeOK /\ InCount(cmd)

\* No command is one,
LEMMA NoCmdTypes ==
    NoCmd \in Commands /\ InCount(NoCmd) /\ NoCmd.round \in 0..Rounds
BY AppsAssumption DEF NoCmd, NoTable, Commands, Tables, InCount

\* no table is one,
LEMMA NoTableTypes == NoTable \in Tables
BY DEF NoTable, Tables

\* and no socket is one.
LEMMA NoSockTypes == NoSock \in Handles
BY DEF NoSock, Handles

\* Init has the types.
LEMMA TypeInit == Init => TypeInv
<1>1. SUFFICES ASSUME Init PROVE TypeInv
  OBVIOUS
<1>2. procs \in [Procs -> Shapes]
  BY <1>1 DEF Init, Shapes, Places
<1>3. socks \in [Socks -> Handles]
  BY <1>1, NoSockTypes DEF Init
<1> QED BY <1>1, <1>2, <1>3, NoCmdTypes DEF Init, TypeInv, TypeOK, Shapes, Handles, Commands, Tables

\* Every step keeps them.
LEMMA TypeStep == TypeInv /\ [Next]_vars => TypeInv'
<1>1. SUFFICES ASSUME TypeInv, [Next]_vars PROVE TypeInv'
  OBVIOUS
<1>2. /\ procs \in [Procs -> Shapes] /\ socks \in [Socks -> Handles]
      /\ cmd \in Commands /\ InCount(cmd)
      /\ hold \in BOOLEAN /\ prune \in BOOLEAN /\ flatpak \in BOOLEAN
  BY <1>1 DEF TypeInv, TypeOK, Shapes, Handles, Commands, Tables
<1> DEFINE P == procs' \in [Procs -> Shapes]
           S == socks' \in [Socks -> Handles]
           C == cmd' \in Commands /\ InCount(cmd')
           B == hold' \in BOOLEAN /\ prune' \in BOOLEAN /\ flatpak' \in BOOLEAN
<1>3. P /\ S /\ C /\ B => TypeInv'
  BY DEF TypeInv, TypeOK, Shapes, Handles, Commands, Tables
<1>4. ASSUME NEW p \in Procs PROVE MovesTo(p) => P
  BY <1>2 DEF MovesTo, Shapes, Places
<1>5. CASE AttachStarts
  <2>1. PICK r \in SUBSET Procs : cmd' = [NoCmd EXCEPT !.do = "auth", !.roots = r]
    BY <1>5 DEF AttachStarts, In
  <2>2. C
    BY <2>1, NoCmdTypes DEF Commands, InCount
  <2> QED BY <1>2, <1>3, <1>5, <2>2 DEF AttachStarts, app
<1>6. CASE AttachRuns
  <2>1. C
    BY <1>2, <1>6, NoCmdTypes DEF AttachRuns, Commands, InCount, Fails
  <2> QED BY <1>2, <1>3, <1>6, <2>1 DEF AttachRuns, app
<1>7. CASE AttachScans \/ FindsTree \/ FindsFresh
  <2>1. CASE AttachScans
    <3>1. /\ cmd.round \in 0..Rounds /\ Rounds + 1 \in 0..Rounds + 1
          /\ cmd.round < Rounds
             => cmd.round + 1 \in 0..Rounds /\ cmd.round + 1 \in 0..Rounds + 1
      BY <1>2, <2>1, AppsAssumption DEF AttachScans, InCount
    <3>2. C
      BY <1>2, <2>1, <3>1 DEF AttachScans, Commands, InCount
    <3> QED BY <1>2, <1>3, <2>1, <3>2 DEF AttachScans, app
  <2>2. CASE FindsTree
    <3>1. Descendants(cmd.roots, cmd.table) \ cmd.moved \in SUBSET Procs
      BY DEF Descendants
    <3>2. C
      BY <1>2, <2>2, <3>1 DEF FindsTree, Commands, InCount
    <3> QED BY <1>2, <1>3, <2>2, <3>2 DEF FindsTree, app
  <2>3. CASE FindsFresh
    <3>1. C
      BY <1>2, <2>3, NoTableTypes DEF FindsFresh, Commands, InCount
    <3> QED BY <1>2, <1>3, <2>3, <3>1 DEF FindsFresh, app
  <2> QED BY <1>7, <2>1, <2>2, <2>3
<1>24. ASSUME NEW p \in Procs, ReadsStat(p) \/ ReadsOwner(p) PROVE TypeInv'
  <2>1. CASE ReadsStat(p)
    <3> DEFINE r == IF Alive(p) THEN procs[p].parent ELSE Nobody
    <3>1. r \in Procs \cup {Nobody} /\ cmd.do = "table"
      BY <1>2, <2>1 DEF ReadsStat, Shapes
    <3>2. cmd' = [cmd EXCEPT !.unread = @ \ {p}, !.table[p] = r]
      BY <2>1 DEF ReadsStat
    <3> HIDE DEF r
    <3>3. C
      BY <1>2, <3>1, <3>2 DEF Commands, Tables, InCount
    <3> QED BY <1>2, <1>3, <2>1, <3>3 DEF ReadsStat, app
  <2>2. CASE ReadsOwner(p)
    <3>1. C
      BY <1>2, <2>2 DEF ReadsOwner, Commands, InCount
    <3> QED BY <1>2, <1>3, <2>2, <3>1 DEF ReadsOwner, app
  <2> QED BY <1>24, <2>1, <2>2
<1>8. ASSUME NEW p \in Procs, AttachMoves(p) PROVE TypeInv'
  <2>1. P
    BY <1>2, <1>4, <1>8 DEF AttachMoves
  <2>2. C
    <3>1. CASE hold
      <4> DEFINE m == IF Alive(p) THEN cmd.moved \cup {p} ELSE cmd.moved
                 d == IF cmd.fresh = {p} THEN "scan" ELSE "move"
                 t == IF cmd.fresh = {p} THEN NoTable ELSE cmd.table
      <4>1. /\ m \in SUBSET Procs /\ d \in {"scan", "move"} /\ cmd.round \in 0..Rounds
            /\ t \in Tables
        BY <1>2, <1>8, NoTableTypes DEF AttachMoves, Commands, InCount
      <4>2. cmd' = [cmd EXCEPT !.fresh = @ \ {p}, !.moved = m, !.do = d, !.table = t]
        BY <1>8, <3>1 DEF AttachMoves
      <4> HIDE DEF m, d, t
      <4> QED BY <1>2, <4>1, <4>2 DEF Commands, InCount
    <3>2. CASE ~hold
      BY <1>8, <3>2, NoCmdTypes DEF AttachMoves, Fails
    <3> QED BY <3>1, <3>2
  <2> QED BY <1>2, <1>3, <1>8, <2>1, <2>2 DEF AttachMoves
<1>9. CASE AttachLists
  <2>1. C
    <3>1. CASE cmd' = NoCmd
      BY <3>1, NoCmdTypes
    <3>2. CASE cmd' = [cmd EXCEPT !.do = "reset", !.listed = Listed]
      BY <1>2, <1>9, <3>2 DEF AttachLists, Commands, InCount, Listed
    <3>3. CASE cmd' = [cmd EXCEPT !.do = "reset", !.listed = {}]
      BY <1>2, <1>9, <3>3 DEF AttachLists, Commands, InCount
    <3> QED BY <1>9, <3>1, <3>2, <3>3 DEF AttachLists, Fails
  <2> QED BY <1>2, <1>3, <1>9, <2>1 DEF AttachLists, app
<1>10. ASSUME NEW s \in Socks, AttachResets(s) PROVE TypeInv'
  <2>1. C
    BY <1>2, <1>10 DEF AttachResets, Commands, InCount
  <2>2. S
    BY <1>2, <1>10 DEF AttachResets, Handles, NoSock
  <2> QED BY <1>2, <1>3, <1>10, <2>1, <2>2 DEF AttachResets
<1>11. CASE AttachEnds
  BY <1>2, <1>3, <1>11, NoCmdTypes DEF AttachEnds, app
<1>12. ASSUME NEW p \in Procs, LaunchStarts(p) PROVE TypeInv'
  <2>1. P
    BY <1>2, <1>12 DEF LaunchStarts, Shapes, Places
  <2>2. C
    BY <1>2, <1>12, NoCmdTypes DEF LaunchStarts, Commands, InCount
  <2> QED BY <1>2, <1>3, <1>12, <2>1, <2>2 DEF LaunchStarts
<1>13. CASE CaptureSweeps
  <2>1. C
    BY <1>2, <1>13 DEF CaptureSweeps, Commands, InCount, In
  <2> QED BY <1>2, <1>3, <1>13, <2>1 DEF CaptureSweeps, app
<1>14. ASSUME NEW p \in Procs, CaptureMoves(p) PROVE TypeInv'
  <2>1. P
    BY <1>2, <1>4, <1>14 DEF CaptureMoves
  <2>2. C
    <3>1. CASE hold
      <4> DEFINE m == IF Alive(p) THEN cmd.moved \cup {p} ELSE cmd.moved
                 w == IF Alive(p) THEN cmd.swept \cup {p} ELSE cmd.swept
      <4>1. /\ m \in SUBSET Procs /\ w \in SUBSET Procs
            /\ cmd.do = "sweep" /\ cmd.round \in 0..Rounds
        BY <1>2, <1>14 DEF CaptureMoves, Commands, InCount
      <4>2. cmd' = [cmd EXCEPT !.fresh = @ \ {p}, !.swept = w, !.moved = m]
        BY <1>14, <3>1 DEF CaptureMoves
      <4> HIDE DEF m, w
      <4> QED BY <1>2, <4>1, <4>2 DEF Commands, InCount
    <3>2. CASE ~hold
      BY <1>14, <3>2, NoCmdTypes DEF CaptureMoves, Fails
    <3> QED BY <3>1, <3>2
  <2> QED BY <1>2, <1>3, <1>14, <2>1, <2>2 DEF CaptureMoves
<1>15. CASE SweepEnds
  <2>1. C
    BY <1>2, <1>15, NoCmdTypes DEF SweepEnds, Commands, InCount, Fails
  <2> QED BY <1>2, <1>3, <1>15, <2>1 DEF SweepEnds, app
<1>16. CASE LaunchEnds
  BY <1>2, <1>3, <1>16, NoCmdTypes DEF LaunchEnds, app
<1>17. CASE PruneLists
  BY <1>2, <1>3, <1>17 DEF PruneLists, app
<1>18. CASE PruneStops
  <2>1. P
    BY <1>2, <1>18 DEF PruneStops, Shapes
  <2>2. S
    BY <1>2, <1>18 DEF PruneStops, Handles
  <2> QED BY <1>2, <1>3, <1>18, <2>1, <2>2 DEF PruneStops
<1>19. ASSUME NEW p \in Procs, OpensOutside(p) \/ EntersScope(p) \/ Setuid(p)
       PROVE TypeInv'
  <2>1. P
    <3>1. CASE OpensOutside(p) \/ EntersScope(p)
      BY <1>2, <3>1 DEF OpensOutside, EntersScope, Shapes, Places
    <3>2. CASE Setuid(p)
      <4>1. (~procs[p].own) \in BOOLEAN
        BY <1>2 DEF Shapes
      <4>2. procs' = [procs EXCEPT ![p] = [@ EXCEPT !.own = ~procs[p].own]]
        BY <1>2, <3>2 DEF Setuid, Shapes
      <4> QED BY <1>2, <4>1, <4>2 DEF Shapes
    <3> QED BY <1>19, <3>1, <3>2
  <2> QED BY <1>2, <1>3, <1>19, <2>1 DEF OpensOutside, EntersScope, Setuid
<1>20. ASSUME NEW p \in Procs, NEW q \in Procs, NEW own \in BOOLEAN, Fork(p, q, own)
       PROVE TypeInv'
  <2>1. P
    BY <1>2, <1>20 DEF Fork, Shapes
  <2>2. S
    BY <1>2, <1>20 DEF Fork, Handles
  <2> QED BY <1>2, <1>3, <1>20, <2>1, <2>2 DEF Fork
<1>21. ASSUME NEW p \in Procs, Exit(p) PROVE TypeInv'
  <2>1. PICK heir \in Procs \cup {Nobody} :
          procs' = [q \in Procs |->
                      IF q = p THEN [procs[q] EXCEPT !.at = "gone"]
                      ELSE IF procs[q].parent = p
                      THEN [procs[q] EXCEPT !.parent = heir] ELSE procs[q]]
    BY <1>21 DEF Exit, Heirs
  <2>3. P
    BY <1>2, <2>1 DEF Shapes
  <2>2. S
    BY <1>2, <1>21, NoSockTypes DEF Exit, Leaves, Handles
  <2> QED BY <1>2, <1>3, <1>21, <2>2, <2>3 DEF Exit
<1>22. ASSUME NEW p \in Procs, NEW s \in Socks, NEW kind \in Kinds, Connect(p, s, kind)
       PROVE TypeInv'
  <2>1. S
    BY <1>2, <1>22 DEF Connect, Mine, Alive, Kinds, Handles, Shapes, Places
  <2> QED BY <1>2, <1>3, <1>22, <2>1 DEF Connect
<1>23. CASE UNCHANGED vars
  BY <1>2, <1>3, <1>23 DEF vars, app
<1>25. ASSUME NEW p \in Procs, NEW s \in Socks, Close(p, s) PROVE TypeInv'
  <2>1. S
    BY <1>2, <1>25, NoSockTypes DEF Close, Leaves, Handles
  <2> QED BY <1>2, <1>3, <1>25, <2>1 DEF Close
<1>26. ASSUME NEW p \in Procs, NEW q \in Procs, NEW s \in Socks, HandsOver(p, q, s)
       PROVE TypeInv'
  <2>1. PICK kept \in {{}, {p}} :
          socks' = [socks EXCEPT ![s].by = (@ \ {p}) \cup kept \cup {q}]
    BY <1>26 DEF HandsOver
  <2>2. S
    BY <1>2, <2>1 DEF Handles
  <2> QED BY <1>2, <1>3, <1>26, <2>2 DEF HandsOver
<1> QED BY <1>1, <1>5, <1>6, <1>7, <1>8, <1>9, <1>10, <1>11, <1>12, <1>13, <1>14,
           <1>15, <1>16, <1>17, <1>18, <1>19, <1>20, <1>21, <1>22, <1>23, <1>24,
           <1>25, <1>26 DEF Next

\* The processes, the sockets and the commands of every behaviour have their
\* types.
THEOREM TypeCorrect == Spec => []TypeOK
<1>1. TypeInv => TypeOK
  BY DEF TypeInv
<1> QED BY <1>1, TypeInit, TypeStep, PTL DEF Spec

---------------------------------------------------------------------------
(* Births.                                                                 *)

\* Processes are born in their order, each after its parent,
BirthOrder ==
    \A p \in Procs :
        /\ procs[p].at \in {"none", "start"} => procs[p].parent = Nobody
        /\ procs[p].at # "none" =>
             /\ \A q \in Procs : q < p => procs[q].at # "none"
             /\ procs[p].parent < p

\* and only those that live have a socket open.
Holders == \A s \in Socks : \A p \in socks[s].by : Alive(p)

BornInv == TypeInv /\ BirthOrder /\ Holders

\* A step that bears none changes no parent but to init, where no other
\* process adopts it; what lives has lived.
Kept ==
    \A p \in Procs :
        /\ procs'[p].at = "none" <=> procs[p].at = "none"
        /\ procs'[p].at = "start" => procs[p].at = "start"
        /\ procs'[p].parent \in {procs[p].parent, Nobody}
        /\ Alive(p)' => Alive(p)

\* It leaves the order as it is,
LEMMA KeptOrder ==
    ASSUME BornInv, Kept
    PROVE  BirthOrder'
<1>1. /\ Procs \subseteq Nat /\ Nobody = 0
      /\ \A p \in Procs : p > 0 /\ procs[p].parent \in Nat
  BY AppsAssumption DEF BornInv, TypeInv, TypeOK, Procs, Nobody
<1>2. ASSUME NEW p \in Procs, procs'[p].at # "none" PROVE procs'[p].parent < p
  <2>1. procs[p].parent < p /\ Nobody < p
    BY <1>1, <1>2 DEF BornInv, BirthOrder, Kept
  <2> QED BY <2>1 DEF Kept
<1> QED BY <1>2 DEF BornInv, BirthOrder, Kept

\* and so does one that bears one process of an older parent.
LEMMA NewbornOrder ==
    ASSUME BornInv, NEW q \in Procs, Newborn(q),
           procs'[q].at # "none", procs'[q].parent < q,
           procs'[q].at = "start" => procs'[q].parent = Nobody,
           \A p \in Procs : p # q => procs'[p] = procs[p]
    PROVE  BirthOrder'
<1>1. Procs \subseteq Nat /\ \A p \in Procs : p > 0
  BY AppsAssumption DEF Procs
<1>2. ASSUME NEW p \in Procs, p < q PROVE procs[p].at # "none" /\ p # q
  <2>1. p \in 1..q - 1 /\ p # q
    BY <1>1, <1>2
  <2> QED BY <2>1 DEF Newborn
<1>3. ASSUME NEW p \in Procs, NEW o \in Procs, procs'[p].at # "none", o < p
      PROVE  procs'[o].at # "none"
  <2>1. CASE o = q
    BY <2>1
  <2>2. CASE o # q /\ p = q
    BY <1>2, <1>3, <2>2
  <2>3. CASE o # q /\ p # q
    BY <1>3, <2>3 DEF BornInv, BirthOrder
  <2> QED BY <2>1, <2>2, <2>3
<1> QED BY <1>3 DEF BornInv, BirthOrder

\* Which steps bear none.
LEMMA KeptStep ==
    ASSUME "reaper" \notin Faults, BornInv, [Next]_vars,
           ~\E p \in Procs : LaunchStarts(p) \/ OpensOutside(p),
           ~\E p, q \in Procs, own \in BOOLEAN : Fork(p, q, own)
    PROVE  Kept
<1>1. procs \in [Procs -> Shapes]
  BY DEF BornInv, TypeInv, TypeOK, Shapes
<1>2. UNCHANGED procs => Kept
  BY DEF Kept, Alive
<1>3. ASSUME NEW p \in Procs, MovesTo(p) PROVE Kept
  BY <1>1, <1>3 DEF MovesTo, Kept, Alive, Shapes
<1>4. ASSUME NEW p \in Procs, AttachMoves(p) \/ CaptureMoves(p) PROVE Kept
  BY <1>2, <1>3, <1>4 DEF AttachMoves, CaptureMoves
<1>5. ASSUME NEW p \in Procs, EntersScope(p) PROVE Kept
  BY <1>1, <1>5 DEF EntersScope, Kept, Alive, Shapes
<1>6. ASSUME NEW p \in Procs, Exit(p) PROVE Kept
  BY <1>1, <1>6 DEF Exit, Heirs, Kept, Alive, Shapes
<1>7. ASSUME NEW p \in Procs, Setuid(p) PROVE Kept
  BY <1>1, <1>7 DEF Setuid, Kept, Alive, Shapes
<1>8. CASE PruneStops
  BY <1>1, <1>8 DEF PruneStops, Kept, Alive, Shapes
<1>9. CASE \/ AttachStarts \/ AttachRuns \/ AttachScans \/ FindsTree \/ FindsFresh
           \/ AttachLists \/ AttachEnds
           \/ CaptureSweeps \/ SweepEnds \/ LaunchEnds \/ PruneLists
           \/ UNCHANGED vars
  BY <1>2, <1>9 DEF AttachStarts, AttachRuns, AttachScans, FindsTree, FindsFresh,
     AttachLists, AttachEnds,
     CaptureSweeps, SweepEnds, LaunchEnds, PruneLists, vars, app
<1>10. ASSUME NEW s \in Socks, AttachResets(s) PROVE Kept
  BY <1>2, <1>10 DEF AttachResets
<1>11. ASSUME NEW p \in Procs, NEW s \in Socks, NEW kind \in Kinds, Connect(p, s, kind)
       PROVE Kept
  BY <1>2, <1>11 DEF Connect
<1>12. ASSUME NEW p \in Procs, ReadsStat(p) \/ ReadsOwner(p) PROVE Kept
  BY <1>2, <1>12 DEF ReadsStat, ReadsOwner, app
<1>13. ASSUME NEW p \in Procs, NEW s \in Socks,
              Close(p, s) \/ \E q \in Procs : HandsOver(p, q, s)
       PROVE Kept
  BY <1>2, <1>13 DEF Close, HandsOver
<1> QED BY <1>4, <1>5, <1>6, <1>7, <1>8, <1>9, <1>10, <1>11, <1>12, <1>13 DEF Next

\* Which steps change a socket, and how they leave only the living with it.
LEMMA HoldersStep ==
    ASSUME BornInv, [Next]_vars
    PROVE  Holders'
<1>1. /\ procs \in [Procs -> Shapes] /\ socks \in [Socks -> Handles]
      /\ \A s \in Socks : socks[s].by \in SUBSET Procs
      /\ \A s \in Socks : \A p \in socks[s].by : Alive(p)
  BY DEF BornInv, TypeInv, TypeOK, Shapes, Handles, Holders
<1>2. ASSUME UNCHANGED socks, \A p \in Procs : Alive(p) => Alive(p)' PROVE Holders'
  BY <1>1, <1>2 DEF Holders
<1>3. UNCHANGED procs => \A p \in Procs : Alive(p) <=> Alive(p)'
  BY DEF Alive
<1>4. ASSUME NEW p \in Procs, MovesTo(p) PROVE \A q \in Procs : Alive(q) => Alive(q)'
  BY <1>1, <1>4 DEF MovesTo, Alive, Shapes
<1>5. ASSUME NEW p \in Procs, AttachMoves(p) \/ CaptureMoves(p) PROVE Holders'
  BY <1>2, <1>3, <1>4, <1>5 DEF AttachMoves, CaptureMoves
<1>6. ASSUME NEW p \in Procs, LaunchStarts(p) \/ OpensOutside(p) \/ EntersScope(p) \/ Setuid(p)
      PROVE Holders'
  <2>1. \A q \in Procs : Alive(q) => Alive(q)'
    BY <1>1, <1>6 DEF LaunchStarts, OpensOutside, EntersScope, Setuid, Alive, Newborn, Shapes
  <2>2. UNCHANGED socks
    BY <1>6 DEF LaunchStarts, OpensOutside, EntersScope, Setuid
  <2> QED BY <1>2, <2>1, <2>2
<1>7. ASSUME NEW p \in Procs, Exit(p) PROVE Holders'
  <2>1. \A q \in Procs : q # p /\ Alive(q) => Alive(q)'
    BY <1>1, <1>7 DEF Exit, Alive, Shapes
  <2>2. \A s \in Socks : socks'[s].by \subseteq socks[s].by \ {p}
    BY <1>1, <1>7 DEF Exit, Leaves, NoSock, Handles
  <2> QED BY <1>1, <2>1, <2>2 DEF Holders
<1>8. CASE PruneStops
  <2>1. \A q \in Procs : q \notin In("hold") /\ Alive(q) => Alive(q)'
    BY <1>1, <1>8 DEF PruneStops, In, Alive, Shapes
  <2>2. \A s \in Socks : socks'[s].by = socks[s].by \ In("hold")
    BY <1>1, <1>8 DEF PruneStops, Handles
  <2> QED BY <1>1, <2>1, <2>2 DEF Holders
<1>9. ASSUME NEW p \in Procs, NEW q \in Procs, NEW own \in BOOLEAN, Fork(p, q, own)
      PROVE Holders'
  <2>1. \A o \in Procs : Alive(o) \/ o = q => Alive(o)'
    BY <1>1, <1>9 DEF Fork, Alive, Shapes
  <2>2. \A s \in Socks : socks'[s].by \subseteq socks[s].by \cup {q}
    BY <1>1, <1>9 DEF Fork, Handles
  <2> QED BY <1>1, <2>1, <2>2 DEF Holders
<1>10. ASSUME NEW s \in Socks, AttachResets(s) PROVE Holders'
  <2>1. \A o \in Procs : Alive(o) <=> Alive(o)'
    BY <1>3, <1>10 DEF AttachResets
  <2>2. \A t \in Socks : socks'[t].by \subseteq socks[t].by
    BY <1>1, <1>10 DEF AttachResets, NoSock, Handles
  <2> QED BY <1>1, <2>1, <2>2 DEF Holders
<1>11. ASSUME NEW p \in Procs, NEW s \in Socks, NEW kind \in Kinds, Connect(p, s, kind)
       PROVE Holders'
  <2>1. \A o \in Procs : Alive(o) <=> Alive(o)'
    BY <1>3, <1>11 DEF Connect
  <2>2. \A t \in Socks : socks'[t].by \subseteq socks[t].by \cup {p}
    BY <1>1, <1>11 DEF Connect, Handles
  <2>3. Alive(p)
    BY <1>11 DEF Connect, Mine
  <2> QED BY <1>1, <2>1, <2>2, <2>3 DEF Holders
<1>12. CASE \/ AttachStarts \/ AttachRuns \/ AttachScans \/ FindsTree \/ FindsFresh
            \/ AttachLists \/ AttachEnds
            \/ CaptureSweeps \/ SweepEnds \/ LaunchEnds \/ PruneLists
            \/ UNCHANGED vars
  BY <1>2, <1>3, <1>12 DEF AttachStarts, AttachRuns, AttachScans, FindsTree, FindsFresh,
     AttachLists, AttachEnds, CaptureSweeps, SweepEnds, LaunchEnds, PruneLists, vars, app
<1>13. ASSUME NEW p \in Procs, ReadsStat(p) \/ ReadsOwner(p) PROVE Holders'
  BY <1>2, <1>3, <1>13 DEF ReadsStat, ReadsOwner, app
<1>14. ASSUME NEW p \in Procs, NEW s \in Socks, Close(p, s) PROVE Holders'
  <2>1. \A o \in Procs : Alive(o) <=> Alive(o)'
    BY <1>3, <1>14 DEF Close
  <2>2. \A t \in Socks : socks'[t].by \subseteq socks[t].by
    BY <1>1, <1>14 DEF Close, Leaves, NoSock, Handles
  <2> QED BY <1>1, <2>1, <2>2 DEF Holders
<1>15. ASSUME NEW p \in Procs, NEW q \in Procs, NEW s \in Socks, HandsOver(p, q, s)
       PROVE Holders'
  <2>1. Alive(q) /\ \A o \in Procs : Alive(o) <=> Alive(o)'
    BY <1>3, <1>15 DEF HandsOver
  <2>2. \A t \in Socks : socks'[t].by \subseteq socks[t].by \cup {q}
    BY <1>1, <1>15 DEF HandsOver, Handles
  <2> QED BY <1>1, <2>1, <2>2 DEF Holders
<1> QED BY <1>5, <1>6, <1>7, <1>8, <1>9, <1>10, <1>11, <1>12, <1>13, <1>14, <1>15 DEF Next

\* Every state of every behaviour has them.
LEMMA BornAlways ==
    ASSUME "reaper" \notin Faults
    PROVE  Spec => []BornInv
<1>1. Init => BornInv
  <2>1. SUFFICES ASSUME Init PROVE BirthOrder /\ Holders
    BY TypeInit DEF BornInv
  <2>2. PICK n \in {0, 1, 2} :
          procs = [p \in Procs |->
                     [at |-> IF p <= n THEN "outside" ELSE "none",
                      parent |-> Nobody, own |-> TRUE]]
    BY <2>1 DEF Init
  <2>3. \A p \in Procs : /\ p > 0 /\ procs[p].parent = Nobody
                         /\ procs[p].at # "none" <=> p <= n
    BY <2>2 DEF Procs
  <2>4. \A p, q \in Procs : p <= n /\ q < p => q <= n
    BY <2>2 DEF Procs
  <2>5. BirthOrder
    BY <2>3, <2>4 DEF BirthOrder, Nobody
  <2> QED BY <2>1, <2>5 DEF Init, Holders, NoSock
<1>2. ASSUME BornInv, [Next]_vars PROVE BornInv'
  <2>1. procs \in [Procs -> Shapes]
    BY <1>2 DEF BornInv, TypeInv, TypeOK, Shapes
  <2>2. \A p \in Procs : Nobody < p
    BY DEF Procs, Nobody
  <2>3. BirthOrder'
    <3>1. ASSUME NEW p \in Procs, LaunchStarts(p) \/ OpensOutside(p) PROVE BirthOrder'
      <4>1. /\ Newborn(p) /\ procs'[p].at # "none" /\ procs'[p].parent = Nobody
            /\ \A q \in Procs : q # p => procs'[q] = procs[q]
        BY <1>2, <2>1, <3>1
           DEF LaunchStarts, OpensOutside, Shapes, BornInv, BirthOrder, Newborn
      <4> QED BY <1>2, <2>2, <4>1, NewbornOrder
    <3>2. ASSUME NEW p \in Procs, NEW q \in Procs, NEW own \in BOOLEAN, Fork(p, q, own)
          PROVE BirthOrder'
      <4>1. /\ Newborn(q) /\ procs'[q].at \notin {"none", "start"} /\ procs'[q].parent = p
            /\ \A o \in Procs : o # q => procs'[o] = procs[o]
        BY <2>1, <3>2 DEF Fork, Shapes, Alive
      <4>2. p < q
        <5>1. procs[p].at # "none" /\ procs[q].at = "none"
          BY <3>2 DEF Fork, Alive, Newborn
        <5>2. ~(q < p) /\ q # p
          BY <1>2, <5>1 DEF BornInv, BirthOrder
        <5> QED BY <5>2, AppsAssumption DEF Procs
      <4> QED BY <1>2, <4>1, <4>2, NewbornOrder
    <3> QED BY <1>2, <3>1, <3>2, KeptStep, KeptOrder
  <2> QED BY <1>2, <2>3, TypeStep, HoldersStep DEF BornInv
<1> QED BY <1>1, <1>2, PTL DEF Spec

---------------------------------------------------------------------------
(* The descendants of a set of roots.                                      *)

\* They have the roots and the children of their members,
LEMMA TreeHas ==
    ASSUME NEW roots \in SUBSET Procs, NEW t
    PROVE  /\ Descendants(roots, t) \in SUBSET Procs
           /\ roots \subseteq Descendants(roots, t)
           /\ \A q \in Procs : t[q] \in Descendants(roots, t)
                               => q \in Descendants(roots, t)
BY DEF Descendants

\* are in every set that has them,
LEMMA TreeLeast ==
    ASSUME NEW roots \in SUBSET Procs, NEW t,
           NEW D \in SUBSET Procs, roots \subseteq D,
           \A q \in Procs : t[q] \in D => q \in D
    PROVE  Descendants(roots, t) \subseteq D
BY DEF Descendants

\* and have nothing else.
LEMMA TreeParent ==
    ASSUME NEW roots \in SUBSET Procs, NEW t,
           NEW p \in Descendants(roots, t), p \notin roots
    PROVE  t[p] \in Descendants(roots, t)
<1> DEFINE T == Descendants(roots, t)
           D == T \ {p}
<1>1. T \in SUBSET Procs /\ D \in SUBSET Procs
  BY TreeHas
<1>2. SUFFICES ASSUME t[p] \notin T PROVE FALSE
  OBVIOUS
<1>3. ASSUME NEW q \in Procs, t[q] \in D PROVE q \in D
  BY <1>2, <1>3, TreeHas
<1>4. roots \subseteq D
  BY TreeHas
<1> HIDE DEF D
<1>5. T \subseteq D
  BY <1>1, <1>3, <1>4, TreeLeast
<1> QED BY <1>5 DEF D

\* The tree of the user's own: its processes live and are the user's, a root
\* of it that is the user's is in it, and so is the parent of any other.
OwnLives ==
    \A p \in OwnTree : /\ p \in Procs /\ Mine(p) /\ Alive(p)
                       /\ p \notin cmd.roots => procs[p].parent \in OwnTree

LEMMA OwnTreeHas == TypeInv => OwnLives
<1> SUFFICES ASSUME TypeInv PROVE OwnLives
  OBVIOUS
<1>1. cmd.roots \in SUBSET Procs /\ OwnRoots \in SUBSET Procs
  BY DEF TypeInv, TypeOK, OwnRoots
<1>2. OwnTree \in SUBSET Procs /\ Nobody \notin Procs
  BY <1>1, TreeHas DEF OwnTree, Procs, Nobody
<1>3. ASSUME NEW p \in OwnTree PROVE Mine(p) /\ (p \notin cmd.roots => procs[p].parent \in OwnTree)
  <2>1. p \in Procs
    BY <1>2
  <2>2. CASE p \in OwnRoots
    BY <2>2 DEF OwnRoots
  <2>3. CASE p \notin OwnRoots
    <3>1. OwnParents[p] \in OwnTree
      BY <1>1, <1>3, <2>3, TreeParent DEF OwnTree
    <3>2. Mine(p)
      BY <1>2, <2>1, <3>1 DEF OwnParents
    <3> QED BY <2>1, <3>1, <3>2 DEF OwnParents
  <2> QED BY <2>2, <2>3
<1> QED BY <1>2, <1>3 DEF Mine, OwnLives

\* A step that bears no process, and gives none to the user, makes it no
\* larger and leaves the parents in it,
LEMMA OwnKept ==
    ASSUME TypeInv, TypeInv', Kept, cmd'.roots = cmd.roots,
           \A p \in Procs : Mine(p)' => Mine(p)
    PROVE  /\ OwnTree' \subseteq OwnTree
           /\ \A p \in OwnTree' \ cmd.roots : procs'[p].parent = procs[p].parent
<1>1. /\ cmd.roots \in SUBSET Procs /\ OwnRoots \in SUBSET Procs
      /\ OwnRoots' \in SUBSET Procs /\ Nobody \notin Procs
  BY DEF TypeInv, TypeOK, OwnRoots, Procs, Nobody
<1>2. OwnTree \in SUBSET Procs /\ OwnRoots \subseteq OwnTree
  BY <1>1, TreeHas DEF OwnTree
<1>3. OwnRoots' \subseteq OwnTree
  BY <1>1, <1>2 DEF OwnRoots
<1>4. ASSUME NEW q \in Procs, OwnParents'[q] \in OwnTree PROVE q \in OwnTree
  <2>1. Mine(q)' /\ procs'[q].parent \in OwnTree
    BY <1>1, <1>2, <1>4 DEF OwnParents
  <2>2. OwnParents[q] \in OwnTree
    BY <1>1, <1>2, <2>1 DEF Kept, OwnParents
  <2> QED BY <1>1, <2>2, TreeHas DEF OwnTree
<1>5. OwnTree' \subseteq OwnTree
  <2>1. OwnTree' = Descendants(OwnRoots', OwnParents')
    BY DEF OwnTree
  <2> HIDE DEF OwnTree
  <2> QED BY <1>1, <1>2, <1>3, <1>4, <2>1, TreeLeast
<1>6. ASSUME NEW p \in OwnTree', p \notin cmd.roots PROVE procs'[p].parent = procs[p].parent
  <2>1. OwnLives'
    BY OwnTreeHas, PTL
  <2>2. procs'[p].parent \in Procs /\ p \in Procs
    BY <1>2, <1>5, <1>6, <2>1 DEF OwnLives
  <2> QED BY <1>1, <2>2 DEF Kept
<1> QED BY <1>5, <1>6

\* and a birth makes it larger by no more than the newborn of one in it.
LEMMA OwnFork ==
    ASSUME BornInv, TypeInv', NEW p \in Procs, NEW q \in Procs, NEW own \in BOOLEAN,
           Fork(p, q, own), q \notin cmd.roots
    PROVE  \A o \in OwnTree' : IF o = q THEN p \in OwnTree ELSE o \in OwnTree
<1> DEFINE D == IF p \in OwnTree THEN OwnTree \cup {q} ELSE OwnTree
<1>1. /\ procs \in [Procs -> Shapes] /\ cmd' = cmd
      /\ procs[q].at = "none" /\ p # q
      /\ procs'[q].parent = p
      /\ \A o \in Procs : o # q => procs'[o] = procs[o]
  BY DEF Fork, BornInv, TypeInv, TypeOK, Shapes, Newborn, Alive
<1>2. /\ cmd.roots \in SUBSET Procs /\ OwnRoots \in SUBSET Procs
      /\ OwnRoots' \in SUBSET Procs /\ Nobody \notin Procs
  BY DEF BornInv, TypeInv, TypeOK, OwnRoots, Procs, Nobody
<1>3. OwnTree \in SUBSET Procs /\ OwnRoots \subseteq OwnTree
  BY <1>2, TreeHas DEF OwnTree
<1>4. q \notin OwnTree
  BY <1>1, OwnTreeHas DEF BornInv, OwnLives, Alive
<1>5. \A o \in Procs : o # q => (Mine(o)' <=> Mine(o))
  BY <1>1 DEF Mine, Alive
<1>6. OwnRoots' \subseteq OwnTree
  <2>1. OwnRoots' \subseteq OwnRoots
    BY <1>1, <1>2, <1>5 DEF OwnRoots
  <2> QED BY <1>3, <2>1
<1>7. ASSUME NEW o \in Procs, OwnParents'[o] \in D PROVE o \in D
  <2>1. OwnParents'[o] \in Procs
    BY <1>3, <1>7
  <2>2. Mine(o)' /\ OwnParents'[o] = procs'[o].parent
    BY <1>2, <1>7, <2>1 DEF OwnParents
  <2>3. CASE o = q
    <3>1. p \in D
      BY <1>1, <1>7, <2>2, <2>3
    <3> QED BY <1>1, <2>3, <3>1
  <2>4. CASE o # q
    <3>1. Mine(o) /\ procs'[o] = procs[o]
      BY <1>1, <1>5, <2>2, <2>4
    <3>2. procs[o].parent # q
      <4>1. procs[o].at # "none"
        BY <3>1 DEF Mine, Alive
      <4>2. ~(q < o) /\ procs[o].parent < o
        BY <1>1, <4>1 DEF BornInv, BirthOrder
      <4> QED BY <4>2
    <3>3. OwnParents[o] = procs[o].parent
      BY <3>1 DEF OwnParents
    <3>4. OwnParents[o] \in OwnTree
      BY <1>7, <2>2, <3>1, <3>2, <3>3
    <3>5. o \in OwnTree
      BY <1>2, <3>4, TreeHas DEF OwnTree
    <3> QED BY <3>5
  <2> QED BY <2>3, <2>4
<1>8. D \in SUBSET Procs /\ OwnRoots' \subseteq D
  BY <1>3, <1>6
<1> HIDE DEF D
<1>9. OwnTree' \subseteq D
  <2>1. OwnTree' = Descendants(OwnRoots', OwnParents')
    BY DEF OwnTree
  <2> QED BY <1>2, <1>7, <1>8, <2>1, TreeLeast
<1> QED BY <1>4, <1>9 DEF D

---------------------------------------------------------------------------
(* Attach.                                                                 *)

Attaching == cmd.do \in {"auth", "scan", "table", "owners", "move", "list", "reset"}
Scanning == cmd.do \in {"table", "owners"}

\* The loop has ended with nothing fresh.
Found == cmd.do \in {"list", "reset"} /\ cmd.round <= Rounds

\* A root is where it was found, has exited, or was moved,
RootsKnown ==
    Attaching => \A p \in cmd.roots :
                    procs[p].at \in {"outside", "gone"} \/ p \in cmd.moved

\* and what was moved is in the holding scope or has exited.
MovedIn == Attaching => \A p \in cmd.moved : procs[p].at \in {"hold", "gone"}

\* A connection from before the tunnel
Old(s) == socks[s].kind = "remote" /\ socks[s].at = "outside"

\* What p has open from before it has from its parent, which has it open, too.
Inherits(p) ==
    \A s \in Socks : Old(s) /\ p \in socks[s].by => procs[p].parent \in socks[s].by

\* B: the processes that were born when the scan began.  One of the tree that
\* is born later is where its parent is.
Born(B) ==
    /\ cmd.roots \subseteq B
    /\ \A p \in B : procs[p].at # "none" /\ procs[p].parent \in B \cup {Nobody}
    /\ \A p \in OwnTree \ B :
         /\ procs[p].at = procs[procs[p].parent].at
         /\ procs[p].at = "hold" /\ "handover" \notin Faults => Inherits(p)

\* What is not in the table, or was not found fresh, is still to be read.
Read(B) ==
    /\ cmd.do = "table" =>
         \A p \in (OwnTree \cap B) \ cmd.roots :
            p \in cmd.unread \/ cmd.table[p] = procs[p].parent
    /\ cmd.do = "owners" =>
         OwnTree \cap B \subseteq cmd.moved \cup cmd.unread \cup cmd.fresh

Scan == Scanning => \E B \in SUBSET Procs : Born(B) /\ Read(B)

\* When nothing fresh is found, all of the tree is in the holding scope,
TreeIn == Found => \A p \in OwnTree : procs[p].at = "hold"

\* its roots were moved, and so was whoever has a connection from before, or
\* it has it from its parent.
Known ==
    Found /\ cmd.do = "list" =>
        /\ OwnTree \cap cmd.roots \subseteq cmd.moved
        /\ "handover" \notin Faults => \A p \in OwnTree \ cmd.moved : Inherits(p)

\* What is still to be reset when they are listed, if ss does what it is asked
Reliable == "handover" \notin Faults /\ "ssfail" \notin Faults
Pending ==
    Found /\ cmd.do = "reset" /\ Reliable =>
        \A s \in Socks : Old(s) /\ socks[s].by \cap OwnTree # {} => s \in cmd.listed

AttachInv == BornInv /\ RootsKnown /\ MovedIn /\ Scan /\ TreeIn /\ Known /\ Pending

\* Where no command for the application attaches there is nothing to keep.
LEMMA NotAttaching ==
    ASSUME BornInv', ~Attaching' PROVE AttachInv'
BY DEF AttachInv, RootsKnown, MovedIn, Scan, TreeIn, Known, Pending, Attaching,
       Scanning, Found

\* A step that bears no process, opens no connection and is not one of a
\* command: processes exit, lose their user or are stopped with their scope.
\* One that still lives in the holding scope, and has its parent, leaves it
\* what it had open.
Calm ==
    /\ UNCHANGED cmd
    /\ Kept
    /\ \A p \in Procs : /\ Mine(p)' => Mine(p)
                        /\ procs'[p].at \in {procs[p].at, "gone"} \/ procs[p].at = "start"
    /\ "handover" \notin Faults =>
         /\ \A s \in Socks : /\ Old(s)' => Old(s)
                             /\ socks'[s].by \subseteq socks[s].by
         /\ \A s \in Socks, p \in Procs :
              /\ Old(s)' /\ Mine(p)' /\ procs[p].at = "hold"
              /\ p \in socks'[s].by
              /\ procs'[p].parent # Nobody
              /\ procs[p].parent \in socks[s].by
              => procs[p].parent \in socks'[s].by

\* It keeps the invariant.
LEMMA CalmKeeps ==
    ASSUME AttachInv, BornInv', Calm
    PROVE  AttachInv'
<1>1. /\ cmd' = cmd /\ cmd.roots \in SUBSET Procs /\ cmd.moved \in SUBSET Procs
      /\ \A s \in Socks : socks[s].by \in SUBSET Procs
      /\ Nobody \notin Procs
  BY DEF AttachInv, BornInv, TypeInv, TypeOK, Calm, Procs, Nobody
<1>2. /\ OwnTree' \subseteq OwnTree
      /\ \A p \in OwnTree' \ cmd.roots : procs'[p].parent = procs[p].parent
  BY <1>1, OwnKept DEF AttachInv, BornInv, Calm
<1>3. OwnLives /\ OwnLives'
  <2>1. TypeInv /\ TypeInv'
    BY DEF AttachInv, BornInv
  <2> QED BY <2>1, OwnTreeHas, PTL
<1>4. \A p \in OwnTree' : /\ p \in Procs /\ p \in OwnTree /\ Alive(p)' /\ Mine(p)'
                          /\ p \notin cmd.roots => /\ procs[p].parent \in OwnTree'
                                                   /\ procs'[p].parent = procs[p].parent
                                                   /\ procs[p].parent \in Procs
  BY <1>1, <1>2, <1>3 DEF OwnLives
<1>5. \A p \in Procs : Alive(p)' /\ procs[p].at # "start" => procs'[p].at = procs[p].at
  BY DEF Calm, Alive
<1>6. RootsKnown'
  <2>1. ASSUME NEW p \in cmd.roots, Attaching
        PROVE  procs'[p].at \in {"outside", "gone"} \/ p \in cmd.moved
    <3>1. procs[p].at \in {"outside", "gone"} \/ p \in cmd.moved
      BY <2>1 DEF AttachInv, RootsKnown
    <3>2. p \in Procs
      BY <1>1, <2>1
    <3> QED BY <3>1, <3>2 DEF Calm
  <2> QED BY <1>1, <2>1 DEF RootsKnown, Attaching
<1>7. MovedIn'
  <2>1. \A p \in Procs : procs[p].at \in {"hold", "gone"} => procs'[p].at \in {"hold", "gone"}
    BY DEF Calm
  <2> QED BY <1>1, <2>1 DEF AttachInv, MovedIn, Attaching
<1>8. ASSUME "handover" \notin Faults, NEW p \in OwnTree', p \notin cmd.roots,
             procs[p].at = "hold", Inherits(p)
      PROVE  Inherits(p)'
  <2>1. SUFFICES ASSUME NEW s \in Socks, Old(s)', p \in socks'[s].by
                 PROVE  procs'[p].parent \in socks'[s].by
    BY DEF Inherits
  <2>2. Old(s) /\ p \in socks[s].by
    BY <1>8, <2>1 DEF Calm
  <2>3. procs[p].parent \in socks[s].by
    BY <1>8, <2>1, <2>2 DEF Inherits
  <2>4. /\ procs'[p].parent = procs[p].parent /\ procs'[p].parent # Nobody
        /\ Mine(p)' /\ p \in Procs
    BY <1>1, <1>4, <1>8
  <2> QED BY <1>8, <2>1, <2>3, <2>4 DEF Calm
<1>9. Scan'
  <2>1. SUFFICES ASSUME Scanning PROVE \E B \in SUBSET Procs : Born(B)' /\ Read(B)'
    BY <1>1 DEF Scan, Scanning
  <2>2. PICK B \in SUBSET Procs : Born(B) /\ Read(B)
    BY <2>1 DEF AttachInv, Scan
  <2>3. \A p \in B : procs'[p].at # "none" /\ procs'[p].parent \in B \cup {Nobody}
    BY <2>2 DEF Born, Calm, Kept
  <2>4. ASSUME NEW p \in OwnTree', p \notin B
        PROVE  /\ procs'[p].at = procs'[procs'[p].parent].at
               /\ procs'[p].at = "hold" /\ "handover" \notin Faults => Inherits(p)'
    <3> DEFINE o == procs[p].parent
    <3>1. /\ p \in Procs /\ p \notin cmd.roots /\ p \in OwnTree
          /\ procs'[p].parent = o /\ o \in OwnTree' /\ o \in Procs
          /\ Alive(p)' /\ Alive(o)'
      BY <1>4, <2>2, <2>4 DEF Born
    <3>2. procs[p].at = procs[o].at
      BY <2>2, <2>4, <3>1 DEF Born
    <3>3. procs[p].at # "start"
      BY <1>1, <3>1 DEF AttachInv, BornInv, BirthOrder
    <3>4. procs'[p].at = procs[p].at /\ procs'[o].at = procs[o].at
      BY <1>5, <3>1, <3>2, <3>3
    <3>5. procs[p].at = "hold" /\ "handover" \notin Faults => Inherits(p)
      BY <2>2, <2>4, <3>1 DEF Born
    <3> QED BY <1>8, <2>4, <3>1, <3>2, <3>4, <3>5
  <2>5. Born(B)'
    BY <1>1, <2>2, <2>3, <2>4 DEF Born
  <2>6. Read(B)'
    <3>1. ASSUME cmd.do = "table", NEW p \in (OwnTree' \cap B) \ cmd.roots
          PROVE  p \in cmd.unread \/ cmd.table[p] = procs'[p].parent
      BY <1>2, <2>2, <3>1 DEF Read
    <3> QED BY <1>1, <1>2, <2>2, <3>1 DEF Read
  <2> QED BY <2>5, <2>6
<1>10. TreeIn'
  <2>1. SUFFICES ASSUME Found, NEW p \in OwnTree' PROVE procs'[p].at = "hold"
    BY <1>1 DEF TreeIn, Found
  <2>2. procs[p].at = "hold"
    BY <1>2, <2>1 DEF AttachInv, TreeIn
  <2> QED BY <1>4, <1>5, <2>1, <2>2
<1>11. Known'
  <2>1. SUFFICES ASSUME Found, cmd.do = "list"
                 PROVE  /\ OwnTree' \cap cmd.roots \subseteq cmd.moved
                        /\ "handover" \notin Faults =>
                             \A p \in OwnTree' \ cmd.moved : Inherits(p)'
    BY <1>1 DEF Known, Found
  <2>2. OwnTree' \cap cmd.roots \subseteq cmd.moved
    BY <1>2, <2>1 DEF AttachInv, Known
  <2>3. ASSUME "handover" \notin Faults, NEW p \in OwnTree', p \notin cmd.moved
        PROVE  Inherits(p)'
    <3>1. p \in OwnTree /\ p \notin cmd.roots
      BY <1>2, <2>2, <2>3
    <3>2. procs[p].at = "hold" /\ Inherits(p)
      BY <2>1, <2>3, <3>1 DEF AttachInv, TreeIn, Known
    <3> QED BY <1>8, <2>3, <3>1, <3>2
  <2> QED BY <2>2, <2>3
<1>12. Pending'
  <2>1. SUFFICES ASSUME Found, cmd.do = "reset", Reliable, NEW s \in Socks, Old(s)',
                        socks'[s].by \cap OwnTree' # {}
                 PROVE  s \in cmd.listed
    BY <1>1 DEF Pending, Found
  <2>2. Old(s) /\ socks[s].by \cap OwnTree # {}
    BY <1>2, <2>1 DEF Calm, Reliable
  <2> QED BY <2>1, <2>2 DEF AttachInv, Pending
<1> QED BY <1>6, <1>7, <1>9, <1>10, <1>11, <1>12 DEF AttachInv

\* Which steps are calm.
LEMMA CalmStep ==
    ASSUME "reaper" \notin Faults, "regain" \notin Faults, BornInv, Attaching
    PROVE  \/ PruneLists \/ PruneStops \/ UNCHANGED vars
           \/ \E p \in Procs : EntersScope(p) \/ Exit(p) \/ Setuid(p)
           \/ \E p \in Procs, s \in Socks : Close(p, s)
           \/ \E p, q \in Procs, s \in Socks : HandsOver(p, q, s)
           => Calm
<1>1. /\ procs \in [Procs -> Shapes] /\ socks \in [Socks -> Handles]
      /\ \A s \in Socks : \A p \in socks[s].by : p \in Procs /\ Alive(p)
  BY DEF BornInv, TypeInv, TypeOK, Shapes, Handles, Holders
<1>2. ~Idle
  BY DEF Attaching, Idle
<1>10. \A s \in Socks : socks[s] \in Handles
  BY <1>1
<1>3. CASE UNCHANGED <<procs, socks, cmd>>
  BY <1>3 DEF Calm, Kept, Alive, Mine, Old
<1>4. CASE PruneLists \/ UNCHANGED vars
  BY <1>3, <1>4 DEF PruneLists, vars, app
<1>5. CASE PruneStops
  <2>1. UNCHANGED cmd
    BY <1>5 DEF PruneStops
  <2>2. \A p \in Procs : procs'[p] = IF procs[p].at = "hold"
                                     THEN [procs[p] EXCEPT !.at = "gone"] ELSE procs[p]
    BY <1>1, <1>5 DEF PruneStops
  <2>3. Kept /\ \A p \in Procs : /\ procs'[p].at \in {procs[p].at, "gone"}
                                 /\ Mine(p)' => Mine(p)
                                 /\ procs[p].at = "hold" => ~Mine(p)'
    BY <1>1, <2>2 DEF Kept, Mine, Alive, Shapes
  <2>4. \A s \in Socks : socks'[s] = [socks[s] EXCEPT !.by = @ \ In("hold")]
    BY <1>1, <1>5 DEF PruneStops
  <2>5. \A s \in Socks : /\ socks'[s].kind = socks[s].kind
                         /\ socks'[s].at = socks[s].at
                         /\ socks'[s].by = socks[s].by \ In("hold")
    BY <1>10, <2>4 DEF Handles
  <2> QED BY <2>1, <2>3, <2>5 DEF Calm, Old
<1>6. ASSUME NEW p \in Procs, EntersScope(p) \/ Setuid(p) PROVE Calm
  <2>1. UNCHANGED <<socks, cmd>>
    BY <1>6 DEF EntersScope, Setuid
  <2>2. /\ Kept
        /\ \A q \in Procs : /\ procs'[q].at = procs[q].at \/ procs[q].at = "start"
                            /\ Mine(q)' => Mine(q)
    <3>1. CASE EntersScope(p)
      BY <1>1, <3>1 DEF EntersScope, Kept, Alive, Mine, Shapes
    <3>2. CASE Setuid(p)
      <4>1. /\ procs[p].own
            /\ procs' = [procs EXCEPT ![p] = [@ EXCEPT !.own = ~procs[p].own]]
        BY <1>1, <3>2 DEF Setuid, Shapes
      <4>2. \A q \in Procs : /\ procs'[q].at = procs[q].at
                             /\ procs'[q].parent = procs[q].parent
                             /\ procs'[q].own => procs[q].own
        BY <1>1, <4>1 DEF Shapes
      <4> QED BY <4>2 DEF Kept, Alive, Mine
    <3> QED BY <1>6, <3>1, <3>2
  <2> QED BY <2>1, <2>2 DEF Calm, Old
<1>7. ASSUME NEW p \in Procs, Exit(p) PROVE Calm
  <2>1. UNCHANGED cmd
    BY <1>7 DEF Exit
  <2>2. \A q \in Procs :
          procs'[q] = IF q = p THEN [procs[q] EXCEPT !.at = "gone"]
                      ELSE IF procs[q].parent = p
                      THEN [procs[q] EXCEPT !.parent = Nobody] ELSE procs[q]
    BY <1>1, <1>7 DEF Exit, Heirs
  <2>7. \A q \in Procs :
          /\ procs'[q].at = IF q = p THEN "gone" ELSE procs[q].at
          /\ procs'[q].parent = IF q # p /\ procs[q].parent = p
                                THEN Nobody ELSE procs[q].parent
          /\ procs'[q].own = procs[q].own
    BY <1>1, <2>2 DEF Shapes
  <2>8. procs[p].at \notin {"none", "gone"}
    BY <1>7 DEF Exit, Alive
  <2>3. /\ Kept
        /\ \A q \in Procs : /\ procs'[q].at \in {procs[q].at, "gone"}
                            /\ Mine(q)' => Mine(q)
    BY <2>7, <2>8 DEF Kept, Alive, Mine
  <2>4. \A s \in Socks :
          socks'[s] = IF socks[s].by = {p} THEN [NoSock EXCEPT !.kind = "closed"]
                      ELSE [socks[s] EXCEPT !.by = @ \ {p}]
    BY <1>1, <1>7 DEF Exit, Leaves
  <2>5. \A s \in Socks : /\ Old(s)' => Old(s)
                         /\ socks'[s].by = socks[s].by \ {p}
    <3>1. ASSUME NEW s \in Socks PROVE (Old(s)' => Old(s)) /\ socks'[s].by = socks[s].by \ {p}
      <4>1. CASE socks[s].by = {p}
        BY <2>4, <4>1 DEF Old, NoSock
      <4>2. CASE socks[s].by # {p}
        BY <1>10, <2>4, <4>2 DEF Old, Handles
      <4> QED BY <4>1, <4>2
    <3> QED BY <3>1
  <2>6. ASSUME NEW q \in Procs, Mine(q)', procs'[q].parent # Nobody
        PROVE  procs[q].parent # p
    BY <2>6, <2>7 DEF Mine, Alive
  <2> QED BY <2>1, <2>3, <2>5, <2>6 DEF Calm
<1>8. ASSUME NEW p \in Procs, NEW t \in Socks, Close(p, t) PROVE Calm
  <2>1. UNCHANGED <<procs, cmd>>
    BY <1>8 DEF Close
  <2>2. /\ \A s \in Socks : s # t => socks'[s] = socks[s]
        /\ "handover" \notin Faults => socks'[t].kind = "closed" /\ socks'[t].by = {}
    BY <1>1, <1>2, <1>8 DEF Close, Leaves, NoSock, Handles
  <2> QED BY <2>1, <2>2 DEF Calm, Kept, Alive, Mine, Old
<1>9. ASSUME NEW p \in Procs, NEW q \in Procs, NEW t \in Socks, HandsOver(p, q, t) PROVE Calm
  <2>1. UNCHANGED <<procs, cmd>> /\ "handover" \in Faults
    BY <1>2, <1>9 DEF HandsOver
  <2> QED BY <2>1 DEF Calm, Kept, Alive, Mine
<1> QED BY <1>4, <1>5, <1>6, <1>7, <1>8, <1>9

\* A connection is opened where its process is,
LEMMA ConnectKeeps ==
    ASSUME AttachInv, BornInv',
           NEW p \in Procs, NEW t \in Socks, NEW kind \in Kinds, Connect(p, t, kind)
    PROVE  AttachInv'
<1>1. /\ socks \in [Socks -> Handles] /\ UNCHANGED <<procs, cmd>>
      /\ socks'[t].by = {p} /\ socks'[t].at = procs[p].at
      /\ \A s \in Socks : s # t => socks'[s] = socks[s]
      /\ OwnLives
  BY OwnTreeHas DEF Connect, AttachInv, BornInv, TypeInv, TypeOK, Handles
<1>2. OwnTree' = OwnTree
  BY <1>1 DEF OwnTree, OwnRoots, OwnParents, Descendants, Mine, Alive
<1>3. RootsKnown' /\ MovedIn' /\ TreeIn'
  BY <1>1, <1>2 DEF AttachInv, RootsKnown, MovedIn, TreeIn, Attaching, Found
<1>4. \A s \in Socks : s # t => (Old(s)' <=> Old(s))
  BY <1>1 DEF Old
<1>5. Old(t)' => procs[p].at = "outside"
  BY <1>1 DEF Old
<1>6. ASSUME NEW q \in Procs, procs[q].at = "hold", Inherits(q)
      PROVE  Inherits(q)'
  <2>1. SUFFICES ASSUME NEW s \in Socks, Old(s)', q \in socks'[s].by
                 PROVE  procs'[q].parent \in socks'[s].by
    BY DEF Inherits
  <2>2. s # t
    BY <1>1, <1>5, <1>6, <2>1
  <2> QED BY <1>1, <1>4, <1>6, <2>1, <2>2 DEF Inherits
<1>7. Scan'
  <2>1. SUFFICES ASSUME Scanning PROVE \E B \in SUBSET Procs : Born(B)' /\ Read(B)'
    BY <1>1 DEF Scan, Scanning
  <2>2. PICK B \in SUBSET Procs : Born(B) /\ Read(B)
    BY <2>1 DEF AttachInv, Scan
  <2>3. \A q \in OwnTree \ B :
           procs[q].at = "hold" /\ "handover" \notin Faults => Inherits(q)'
    BY <1>1, <1>6, <2>2 DEF Born, OwnLives
  <2>4. Born(B)'
    BY <1>1, <1>2, <2>2, <2>3 DEF Born
  <2>5. Read(B)'
    BY <1>1, <1>2, <2>2 DEF Read
  <2> QED BY <2>4, <2>5
<1>8. Known'
  <2>1. ASSUME Found, cmd.do = "list", "handover" \notin Faults, NEW q \in OwnTree \ cmd.moved
        PROVE  Inherits(q)'
    <3>1. procs[q].at = "hold" /\ Inherits(q) /\ q \in Procs
      BY <1>1, <2>1 DEF AttachInv, TreeIn, Known, OwnLives
    <3> QED BY <1>6, <3>1
  <2> QED BY <1>1, <1>2, <2>1 DEF AttachInv, Known, Found
<1>9. Pending'
  <2>1. SUFFICES ASSUME Found, cmd.do = "reset", Reliable, NEW s \in Socks, Old(s)',
                        NEW q \in socks'[s].by \cap OwnTree
                 PROVE  s \in cmd.listed
    BY <1>1, <1>2 DEF Pending, Found
  <2>2. procs[q].at = "hold"
    BY <2>1 DEF AttachInv, TreeIn
  <2>3. s # t
    BY <1>1, <1>5, <2>1, <2>2
  <2> QED BY <1>1, <1>4, <2>1, <2>3 DEF AttachInv, Pending
<1> QED BY <1>3, <1>7, <1>8, <1>9 DEF AttachInv

\* and a child has what its parent has, where its parent is.
LEMMA ForkKeeps ==
    ASSUME AttachInv, BornInv', Attaching,
           NEW p \in Procs, NEW q \in Procs, NEW own \in BOOLEAN, Fork(p, q, own)
    PROVE  AttachInv'
<1>1. /\ procs \in [Procs -> Shapes] /\ socks \in [Socks -> Handles]
      /\ cmd.roots \in SUBSET Procs /\ cmd.moved \in SUBSET Procs
      /\ \A s \in Socks : \A o \in socks[s].by : o \in Procs /\ Alive(o)
      /\ OwnLives /\ Nobody \notin Procs
  BY OwnTreeHas DEF AttachInv, BornInv, TypeInv, TypeOK, Shapes, Handles, Holders, Procs, Nobody
<1>2. /\ UNCHANGED cmd /\ p # q /\ Alive(p)
      /\ procs[q].at = "none"
      /\ procs'[q].at = procs[p].at /\ procs'[q].parent = p
      /\ \A o \in Procs : o # q => procs'[o] = procs[o]
  BY <1>1 DEF Fork, Shapes, Alive, Newborn
<1>3. \A s \in Socks :
        /\ Old(s)' <=> Old(s)
        /\ socks'[s].by = IF p \in socks[s].by THEN socks[s].by \cup {q} ELSE socks[s].by
        /\ q \notin socks[s].by
  <2>1. \A s \in Socks :
          socks'[s] = IF p \in socks[s].by THEN [socks[s] EXCEPT !.by = @ \cup {q}]
                      ELSE socks[s]
    BY DEF Fork
  <2>2. \A s \in Socks :
          /\ socks'[s].kind = socks[s].kind /\ socks'[s].at = socks[s].at
          /\ socks'[s].by = IF p \in socks[s].by THEN socks[s].by \cup {q} ELSE socks[s].by
    BY <1>1, <2>1 DEF Handles
  <2>3. ~Alive(q)
    BY <1>2 DEF Alive
  <2> QED BY <1>1, <2>2, <2>3 DEF Old
<1>4. q \notin cmd.roots /\ q \notin cmd.moved
  BY <1>2 DEF AttachInv, RootsKnown, MovedIn
<1>5. \A o \in OwnTree' : IF o = q THEN p \in OwnTree ELSE o \in OwnTree
  BY <1>4, OwnFork DEF AttachInv, BornInv
<1>6. RootsKnown' /\ MovedIn'
  BY <1>1, <1>2, <1>4 DEF AttachInv, RootsKnown, MovedIn, Attaching
<1>7. /\ \A o \in OwnTree : o \in Procs /\ o # q /\ procs'[o] = procs[o]
      /\ Inherits(q)'
      /\ \A o \in OwnTree : Inherits(o) => Inherits(o)'
  <2>1. \A o \in OwnTree : o \in Procs /\ o # q /\ procs'[o] = procs[o]
    BY <1>1, <1>2 DEF OwnLives, Alive
  <2> QED BY <1>2, <1>3, <2>1 DEF Inherits
<1>8. Scan'
  <2>1. SUFFICES ASSUME Scanning PROVE \E B \in SUBSET Procs : Born(B)' /\ Read(B)'
    BY <1>2 DEF Scan, Scanning
  <2>2. PICK B \in SUBSET Procs : Born(B) /\ Read(B)
    BY <2>1 DEF AttachInv, Scan
  <2>3. q \notin B /\ \A o \in B : procs'[o] = procs[o]
    BY <1>2, <2>2 DEF Born
  <2>4. ASSUME NEW o \in OwnTree', o \notin B
        PROVE  /\ procs'[o].at = procs'[procs'[o].parent].at
               /\ procs'[o].at = "hold" /\ "handover" \notin Faults => Inherits(o)'
    <3>1. CASE o = q
      BY <1>2, <1>7, <3>1
    <3>2. CASE o # q
      <4>1. /\ o \in OwnTree /\ o \notin cmd.roots
            /\ procs[o].at = procs[procs[o].parent].at
            /\ procs[o].at = "hold" /\ "handover" \notin Faults => Inherits(o)
        BY <1>5, <2>2, <2>4, <3>2 DEF Born
      <4>2. procs[o].parent \in OwnTree
        BY <1>1, <4>1 DEF OwnLives
      <4> QED BY <1>7, <4>1, <4>2
    <3> QED BY <3>1, <3>2
  <2>5. Born(B)'
    BY <1>2, <2>2, <2>3, <2>4 DEF Born
  <2>6. Read(B)'
    <3>1. OwnTree' \cap B \subseteq OwnTree \cap B
      BY <1>5, <2>3
    <3> QED BY <1>2, <2>2, <2>3, <3>1 DEF Read
  <2> QED BY <2>5, <2>6
<1>9. TreeIn'
  <2>1. SUFFICES ASSUME Found, NEW o \in OwnTree' PROVE procs'[o].at = "hold"
    BY <1>2 DEF TreeIn, Found
  <2> QED BY <1>2, <1>5, <1>7, <2>1 DEF AttachInv, TreeIn
<1>10. Known'
  <2>1. SUFFICES ASSUME Found, cmd.do = "list"
                 PROVE  /\ OwnTree' \cap cmd.roots \subseteq cmd.moved
                        /\ "handover" \notin Faults =>
                             \A o \in OwnTree' \ cmd.moved : Inherits(o)'
    BY <1>2 DEF Known, Found
  <2> QED BY <1>4, <1>5, <1>7, <2>1 DEF AttachInv, Known
<1>11. Pending'
  <2>1. SUFFICES ASSUME Found, cmd.do = "reset", Reliable, NEW s \in Socks, Old(s)',
                        NEW o \in socks'[s].by \cap OwnTree'
                 PROVE  s \in cmd.listed
    BY <1>2 DEF Pending, Found
  <2>2. socks[s].by \cap OwnTree # {}
    <3>1. CASE o = q
      BY <1>3, <1>5, <2>1, <3>1
    <3>2. CASE o # q
      BY <1>3, <1>5, <2>1, <3>2
    <3> QED BY <3>1, <3>2
  <2> QED BY <1>3, <2>1, <2>2 DEF AttachInv, Pending
<1> QED BY <1>6, <1>8, <1>9, <1>10, <1>11 DEF AttachInv

\* What descends from the roots by the table, when all of it was read: of the
\* tree, at least what was born when the scan began.
LEMMA TableHas ==
    ASSUME TypeInv, NEW B \in SUBSET Procs, Born(B), Read(B),
           cmd.do = "table", cmd.unread = {}
    PROVE  OwnTree \cap B \subseteq Descendants(cmd.roots, cmd.table)
<1> DEFINE T == Descendants(cmd.roots, cmd.table)
           D == {p \in Procs : p \in OwnTree \cap B => p \in T}
<1>1. /\ cmd.roots \in SUBSET Procs /\ OwnRoots \in SUBSET Procs
      /\ Nobody \notin Procs /\ OwnLives
  BY OwnTreeHas DEF TypeInv, TypeOK, OwnRoots, Procs, Nobody
<1>6. cmd.roots \subseteq T /\ \A q \in Procs : cmd.table[q] \in T => q \in T
  BY <1>1, TreeHas
<1>2. OwnRoots \subseteq D
  BY <1>1, <1>6 DEF OwnRoots
<1>3. ASSUME NEW q \in Procs, OwnParents[q] \in D PROVE q \in D
  <2>1. SUFFICES ASSUME q \in OwnTree, q \in B, q \notin cmd.roots PROVE q \in T
    BY <1>6
  <2>2. procs[q].parent \in OwnTree /\ Mine(q)
    BY <1>1, <2>1 DEF OwnLives
  <2>3. OwnParents[q] = procs[q].parent
    BY <2>2 DEF OwnParents
  <2>4. procs[q].parent \in B
    <3>1. procs[q].parent \in Procs
      BY <1>1, <2>2 DEF OwnLives
    <3> QED BY <1>1, <2>1, <3>1 DEF Born
  <2>5. procs[q].parent \in T
    BY <1>3, <2>2, <2>3, <2>4
  <2>6. cmd.table[q] = procs[q].parent
    BY <2>1 DEF Read
  <2> QED BY <1>6, <2>5, <2>6
<1>4. D \in SUBSET Procs
  OBVIOUS
<1> HIDE DEF D
<1>5. OwnTree \subseteq D
  BY <1>1, <1>2, <1>3, <1>4, TreeLeast DEF OwnTree
<1> QED BY <1>5 DEF D

\* Each step of a scan keeps the invariant,
LEMMA ScanStep ==
    ASSUME AttachInv, BornInv'
    PROVE  \/ AttachScans \/ FindsTree \/ FindsFresh
           \/ \E p \in Procs : ReadsStat(p) \/ ReadsOwner(p)
           => AttachInv'
<1>1. /\ cmd \in Commands /\ TypeInv /\ OwnLives
      /\ cmd.roots \in SUBSET Procs /\ cmd.moved \in SUBSET Procs
      /\ Nobody \notin Procs
  BY OwnTreeHas DEF AttachInv, BornInv, TypeInv, TypeOK, Commands, Tables, Procs, Nobody
<1> DEFINE Same == /\ UNCHANGED <<procs, socks>>
                   /\ cmd'.roots = cmd.roots /\ cmd'.moved = cmd.moved
<1>2. ASSUME Same, Attaching
      PROVE  /\ RootsKnown' /\ MovedIn'
             /\ OwnTree' = OwnTree
             /\ \A p : Inherits(p)' <=> Inherits(p)
             /\ \A B \in SUBSET Procs : Born(B) => Born(B)'
  <2>1. RootsKnown' /\ MovedIn'
    BY <1>2 DEF AttachInv, RootsKnown, MovedIn, Attaching
  <2>2. OwnTree' = OwnTree
    BY <1>2 DEF OwnTree, OwnRoots, OwnParents, Descendants, Mine, Alive
  <2>3. \A p : Inherits(p)' <=> Inherits(p)
    BY <1>2 DEF Inherits, Old
  <2> QED BY <1>2, <2>1, <2>2, <2>3 DEF Born
<1>3. ASSUME Same, Attaching, cmd'.do \in {"table", "owners", "move"},
             NEW B \in SUBSET Procs, Born(B), Read(B)'
      PROVE  AttachInv'
  <2>1. Born(B)' /\ Read(B)'
    BY <1>2, <1>3
  <2>2. Scan'
    BY <2>1 DEF Scan
  <2> QED BY <1>2, <1>3, <2>2 DEF AttachInv, TreeIn, Known, Pending, Found
<1>4. CASE AttachScans
  <2>1. Same /\ Attaching
    BY <1>1, <1>4 DEF AttachScans, Attaching, Commands, app
  <2>2. CASE cmd.round < Rounds
    <3>1. cmd'.do = "table" /\ cmd'.unread = Procs
      BY <1>1, <1>4, <2>2 DEF AttachScans, Commands
    <3>7. PICK B \in SUBSET Procs : B = {p \in Procs : procs[p].at # "none"}
      OBVIOUS
    <3>2. cmd.roots \subseteq B
      BY <1>1, <2>1, <3>7 DEF AttachInv, RootsKnown, MovedIn
    <3>3. ASSUME NEW p \in B PROVE procs[p].parent \in B \cup {Nobody}
      <4>1. procs[p].parent \in Procs \cup {Nobody}
        BY <1>1, <3>7 DEF TypeInv, TypeOK
      <4>2. procs[p].parent < p /\ \A q \in Procs : q < p => procs[q].at # "none"
        BY <3>7 DEF AttachInv, BornInv, BirthOrder
      <4> QED BY <3>7, <4>1, <4>2
    <3>4. OwnTree \subseteq B
      BY <1>1, <3>7 DEF OwnLives, Alive
    <3>5. Born(B)
      BY <3>2, <3>3, <3>4, <3>7 DEF Born
    <3>6. Read(B)'
      <4>1. OwnTree \subseteq Procs
        BY <1>1 DEF OwnLives
      <4> QED BY <1>2, <2>1, <3>1, <4>1 DEF Read
    <3> QED BY <1>3, <2>1, <3>1, <3>5, <3>6
  <2>3. CASE ~(cmd.round < Rounds)
    <3>1. cmd'.do = "list" /\ cmd'.round = Rounds + 1
      BY <1>1, <1>4, <2>3 DEF AttachScans, Commands
    <3>2. ~Found' /\ ~Scanning'
      BY <3>1, AppsAssumption DEF Found, Scanning
    <3> QED BY <1>2, <2>1, <3>2 DEF AttachInv, Scan, TreeIn, Known, Pending
  <2> QED BY <2>2, <2>3
<1>5. ASSUME NEW p \in Procs, ReadsStat(p) PROVE AttachInv'
  <2> DEFINE r == IF Alive(p) THEN procs[p].parent ELSE Nobody
  <2>1. /\ cmd.do = "table" /\ p \in cmd.unread
        /\ cmd' = [cmd EXCEPT !.unread = @ \ {p}, !.table[p] = r]
        /\ UNCHANGED <<procs, socks>>
    BY <1>5 DEF ReadsStat, app
  <2>2. p \in OwnTree => r = procs[p].parent
    BY <1>1 DEF OwnLives
  <2> HIDE DEF r
  <2>3. /\ cmd'.do = "table" /\ cmd'.roots = cmd.roots /\ cmd'.moved = cmd.moved
        /\ cmd'.unread = cmd.unread \ {p}
        /\ \A q \in Procs : cmd'.table[q] = IF q = p THEN r ELSE cmd.table[q]
    BY <1>1, <2>1 DEF Commands, Tables
  <2>4. PICK B \in SUBSET Procs : Born(B) /\ Read(B)
    BY <2>1 DEF AttachInv, Scan, Scanning
  <2>5. Same /\ Attaching
    BY <2>1, <2>3 DEF Attaching
  <2>6. Read(B)'
    <3>1. SUFFICES ASSUME NEW q \in (OwnTree \cap B) \ cmd.roots
                   PROVE  q \in cmd'.unread \/ cmd'.table[q] = procs[q].parent
      BY <1>2, <2>3, <2>5 DEF Read
    <3>2. q \in cmd.unread \/ cmd.table[q] = procs[q].parent
      BY <2>1, <2>4, <3>1 DEF Read
    <3> QED BY <2>2, <2>3, <3>1, <3>2
  <2> QED BY <1>3, <2>3, <2>4, <2>5, <2>6
<1>6. CASE FindsTree
  <2>1. /\ cmd.do = "table" /\ cmd.unread = {} /\ UNCHANGED <<procs, socks>>
        /\ cmd'.do = "owners" /\ cmd'.roots = cmd.roots /\ cmd'.moved = cmd.moved
        /\ cmd'.unread = Descendants(cmd.roots, cmd.table) \ cmd.moved
    BY <1>1, <1>6 DEF FindsTree, Commands, app
  <2>2. PICK B \in SUBSET Procs : Born(B) /\ Read(B)
    BY <2>1 DEF AttachInv, Scan, Scanning
  <2>3. Same /\ Attaching
    BY <2>1 DEF Attaching
  <2>4. OwnTree \cap B \subseteq Descendants(cmd.roots, cmd.table)
    BY <1>1, <2>1, <2>2, TableHas
  <2>5. Read(B)'
    BY <1>2, <2>1, <2>3, <2>4 DEF Read
  <2> QED BY <1>3, <2>1, <2>2, <2>3, <2>5
<1>7. ASSUME NEW p \in Procs, ReadsOwner(p) PROVE AttachInv'
  <2>1. /\ cmd.do = "owners" /\ p \in cmd.unread /\ UNCHANGED <<procs, socks>>
        /\ cmd'.do = "owners" /\ cmd'.roots = cmd.roots /\ cmd'.moved = cmd.moved
        /\ cmd'.unread = cmd.unread \ {p}
        /\ cmd'.fresh = IF Mine(p) THEN cmd.fresh \cup {p} ELSE cmd.fresh
    BY <1>1, <1>7 DEF ReadsOwner, Commands, app
  <2>2. PICK B \in SUBSET Procs : Born(B) /\ Read(B)
    BY <2>1 DEF AttachInv, Scan, Scanning
  <2>3. Same /\ Attaching
    BY <2>1 DEF Attaching
  <2>4. p \in OwnTree => Mine(p)
    BY <1>1 DEF OwnLives
  <2>5. Read(B)'
    BY <1>2, <2>1, <2>2, <2>3, <2>4 DEF Read
  <2> QED BY <1>3, <2>1, <2>2, <2>3, <2>5
<1>8. CASE FindsFresh
  <2>1. cmd.do = "owners" /\ cmd.unread = {} /\ Same /\ Attaching
    <3>1. cmd.do = "owners" /\ cmd.unread = {} /\ UNCHANGED <<procs, socks>>
      BY <1>8 DEF FindsFresh, app
    <3>2. cmd'.roots = cmd.roots /\ cmd'.moved = cmd.moved
      BY <1>1, <1>8 DEF FindsFresh, Commands
    <3> QED BY <3>1, <3>2 DEF Attaching
  <2>2. PICK B \in SUBSET Procs : Born(B) /\ Read(B)
    BY <2>1 DEF AttachInv, Scan, Scanning
  <2>3. CASE cmd.fresh # {}
    <3>1. cmd'.do = "move"
      BY <1>1, <1>8, <2>3 DEF FindsFresh, Commands
    <3>2. Read(B)'
      BY <3>1 DEF Read
    <3> QED BY <1>3, <2>1, <2>2, <3>1, <3>2
  <2>4. CASE cmd.fresh = {}
    <3>1. cmd'.do = "list"
      BY <1>1, <1>8, <2>4 DEF FindsFresh, Commands
    <3>2. OwnTree \cap B \subseteq cmd.moved
      BY <2>1, <2>2, <2>4 DEF Read
    <3>3. \A p \in OwnTree \cap B : procs[p].at = "hold"
      BY <1>1, <2>1, <3>2 DEF AttachInv, MovedIn, OwnLives, Alive
    <3>4. \A p \in OwnTree : procs[p].at = "hold"
      <4> DEFINE S == {p \in OwnTree : procs[p].at # "hold"}
      <4>1. SUFFICES ASSUME S # {} PROVE FALSE
        OBVIOUS
      <4>2. S \in SUBSET Procs
        BY <1>1 DEF OwnLives
      <4>3. PICK f \in S : \A q \in S : ~(q < f)
        BY <4>1, <4>2, FirstBorn
      <4>4. f \notin B /\ f \notin cmd.roots
        BY <2>2, <3>3 DEF Born
      <4>5. /\ procs[f].parent \in OwnTree
            /\ procs[f].at = procs[procs[f].parent].at
            /\ f \in Procs /\ Alive(f)
        BY <1>1, <2>2, <4>4 DEF Born, OwnLives
      <4>6. procs[f].parent < f
        BY <4>5 DEF AttachInv, BornInv, BirthOrder, Alive
      <4> QED BY <4>3, <4>5, <4>6
    <3>5. OwnTree \cap cmd.roots \subseteq cmd.moved
      BY <2>2, <3>2 DEF Born
    <3>6. "handover" \notin Faults => \A p \in OwnTree \ cmd.moved : Inherits(p)
      BY <2>2, <3>2, <3>4 DEF Born
    <3>7. TreeIn' /\ Known'
      BY <1>2, <2>1, <3>4, <3>5, <3>6 DEF TreeIn, Known
    <3> QED BY <1>2, <2>1, <3>1, <3>7 DEF AttachInv, Scan, Scanning, Pending
  <2> QED BY <2>3, <2>4
<1> QED BY <1>4, <1>5, <1>6, <1>7, <1>8

\* each other step of attach does,
LEMMA AttachStep ==
    ASSUME AttachInv, BornInv'
    PROVE  \/ AttachStarts \/ AttachRuns \/ AttachLists \/ AttachEnds
           \/ \E p \in Procs : AttachMoves(p)
           \/ \E s \in Socks : AttachResets(s)
           => AttachInv'
<1>1. /\ procs \in [Procs -> Shapes] /\ socks \in [Socks -> Handles]
      /\ cmd \in Commands /\ TypeInv /\ OwnLives
      /\ cmd.roots \in SUBSET Procs /\ cmd.moved \in SUBSET Procs
      /\ \A s \in Socks : socks[s].by \in SUBSET Procs
  BY OwnTreeHas DEF AttachInv, BornInv, TypeInv, TypeOK, Shapes, Handles, Commands, Tables
<1>2. ASSUME cmd'.do = "free" PROVE AttachInv'
  BY <1>2, NotAttaching DEF Attaching
<1>3. cmd' = NoCmd => cmd'.do = "free"
  BY DEF NoCmd
<1>4. CASE AttachStarts
  <2>1. /\ cmd'.do = "auth" /\ cmd'.moved = {}
        /\ cmd'.roots \subseteq In("outside") /\ UNCHANGED procs
    BY <1>4 DEF AttachStarts, NoCmd, In, app
  <2>2. RootsKnown' /\ MovedIn'
    BY <2>1 DEF RootsKnown, MovedIn, In
  <2> QED BY <2>1, <2>2 DEF AttachInv, Scan, Scanning, TreeIn, Known, Pending, Found
<1>5. CASE AttachRuns
  <2>1. CASE cmd' = [cmd EXCEPT !.do = "scan"]
    <3>1. /\ cmd'.do = "scan" /\ cmd.do = "auth" /\ UNCHANGED procs
          /\ cmd'.roots = cmd.roots /\ cmd'.moved = cmd.moved
      BY <1>1, <1>5, <2>1 DEF AttachRuns, Commands, app
    <3>2. RootsKnown' /\ MovedIn'
      BY <3>1 DEF AttachInv, RootsKnown, MovedIn, Attaching
    <3> QED BY <3>1, <3>2 DEF AttachInv, Scan, Scanning, TreeIn, Known, Pending, Found
  <2>2. CASE cmd' = NoCmd
    BY <1>2, <1>3, <2>2
  <2> QED BY <1>5, <2>1, <2>2 DEF AttachRuns, Fails
<1>6. ASSUME NEW p \in Procs, AttachMoves(p) PROVE AttachInv'
  <2>1. CASE hold
    <3>1. /\ cmd.do = "move" /\ cmd'.do \in {"scan", "move"}
          /\ cmd'.roots = cmd.roots
          /\ cmd'.moved = IF Alive(p) THEN cmd.moved \cup {p} ELSE cmd.moved
          /\ MovesTo(p)
      <4> DEFINE m == IF Alive(p) THEN cmd.moved \cup {p} ELSE cmd.moved
                 d == IF cmd.fresh = {p} THEN "scan" ELSE "move"
                 t == IF cmd.fresh = {p} THEN NoTable ELSE cmd.table
      <4>1. cmd' = [cmd EXCEPT !.fresh = @ \ {p}, !.moved = m, !.do = d, !.table = t]
        BY <1>6, <2>1 DEF AttachMoves
      <4>2. d \in {"scan", "move"}
        OBVIOUS
      <4> HIDE DEF m, d, t
      <4>3. cmd'.do = d /\ cmd'.roots = cmd.roots /\ cmd'.moved = m
        BY <1>1, <4>1 DEF Commands
      <4> QED BY <1>6, <2>1, <4>2, <4>3 DEF AttachMoves, m
    <3>2. \A q \in Procs : procs'[q].at = IF q = p /\ Alive(p) THEN "hold" ELSE procs[q].at
      BY <1>1, <3>1 DEF MovesTo, Shapes
    <3>3. RootsKnown' /\ MovedIn'
      BY <1>1, <3>1, <3>2 DEF AttachInv, RootsKnown, MovedIn, Attaching
    <3> QED BY <3>1, <3>3 DEF AttachInv, Scan, Scanning, TreeIn, Known, Pending, Found
  <2>2. CASE ~hold
    BY <1>2, <1>3, <1>6, <2>2 DEF AttachMoves, Fails
  <2> QED BY <2>1, <2>2
<1>7. CASE AttachLists
  <2>1. CASE cmd' = NoCmd
    BY <1>2, <1>3, <2>1
  <2>2. CASE cmd' # NoCmd
    <3>1. /\ cmd.do = "list" /\ UNCHANGED <<procs, socks>>
          /\ cmd'.do = "reset" /\ cmd'.roots = cmd.roots /\ cmd'.moved = cmd.moved
          /\ cmd'.round = cmd.round
          /\ Reliable => cmd'.listed = Listed
      BY <1>1, <1>7, <2>2 DEF AttachLists, Fails, Reliable, Commands, app
    <3>2. OwnTree' = OwnTree
      BY <3>1 DEF OwnTree, OwnRoots, OwnParents, Descendants, Mine, Alive
    <3>3. RootsKnown' /\ MovedIn' /\ Scan' /\ TreeIn' /\ Known'
      BY <3>1, <3>2 DEF AttachInv, RootsKnown, MovedIn, Scan, Scanning, TreeIn, Known,
         Attaching, Found
    <3>4. Pending'
      <4>1. SUFFICES ASSUME Found, Reliable, NEW s \in Socks, Old(s),
                            socks[s].by \cap OwnTree # {}
                     PROVE  s \in Listed
        BY <3>1, <3>2 DEF Pending, Found, Old
      <4> DEFINE W == socks[s].by \cap OwnTree
      <4>2. W \in SUBSET Procs /\ W # {}
        BY <1>1, <4>1
      <4>3. PICK f \in W : \A q \in W : ~(q < f)
        BY <4>2, FirstBorn
      <4>4. f \in cmd.moved
        <5>1. SUFFICES ASSUME f \notin cmd.moved PROVE FALSE
          OBVIOUS
        <5>2. Inherits(f) /\ f \notin cmd.roots
          BY <3>1, <4>1, <4>3, <5>1 DEF AttachInv, Known, Reliable
        <5>3. procs[f].parent \in socks[s].by
          BY <4>1, <4>3, <5>2 DEF Inherits
        <5>4. procs[f].parent \in OwnTree /\ Alive(f) /\ f \in Procs
          BY <1>1, <4>3, <5>2 DEF OwnLives
        <5>5. procs[f].parent < f
          BY <5>4 DEF AttachInv, BornInv, BirthOrder, Alive
        <5> QED BY <4>3, <5>3, <5>4, <5>5
      <4> QED BY <4>1, <4>3, <4>4 DEF Listed, Old
    <3> QED BY <3>3, <3>4 DEF AttachInv
  <2> QED BY <2>1, <2>2
<1>8. ASSUME NEW t \in Socks, AttachResets(t) PROVE AttachInv'
  <2>1. /\ cmd.do = "reset" /\ UNCHANGED procs
        /\ cmd'.do = "reset" /\ cmd'.roots = cmd.roots /\ cmd'.moved = cmd.moved
        /\ cmd'.round = cmd.round /\ cmd'.listed = cmd.listed \ {t}
    BY <1>1, <1>8 DEF AttachResets, Commands
  <2>2. OwnTree' = OwnTree
    BY <2>1 DEF OwnTree, OwnRoots, OwnParents, Descendants, Mine, Alive
  <2>3. RootsKnown' /\ MovedIn' /\ Scan' /\ TreeIn' /\ Known'
    BY <2>1, <2>2 DEF AttachInv, RootsKnown, MovedIn, Scan, Scanning, TreeIn, Known,
       Attaching, Found
  <2>4. /\ Reliable => ~Old(t)'
        /\ \A s \in Socks : s # t => socks'[s] = socks[s]
    BY <1>1, <1>8 DEF AttachResets, Old, NoSock, Reliable
  <2>5. Pending'
    <3>1. SUFFICES ASSUME Found, Reliable, NEW s \in Socks, Old(s)',
                          socks'[s].by \cap OwnTree # {}
                   PROVE  s \in cmd.listed \ {t}
      BY <2>1, <2>2 DEF Pending, Found
    <3>2. s # t /\ Old(s) /\ socks[s].by \cap OwnTree # {}
      BY <2>4, <3>1 DEF Old
    <3> QED BY <1>1, <2>1, <2>2, <3>1, <3>2 DEF AttachInv, Pending
  <2> QED BY <2>3, <2>5 DEF AttachInv
<1>9. CASE AttachEnds
  BY <1>2, <1>3, <1>9 DEF AttachEnds
<1> QED BY <1>4, <1>5, <1>6, <1>7, <1>8, <1>9

\* and the steps of a launch are none of an attach.
LEMMA LaunchNoAttach ==
    ASSUME AttachInv, BornInv'
    PROVE  \/ CaptureSweeps \/ SweepEnds \/ LaunchEnds
           \/ \E p \in Procs : CaptureMoves(p) \/ LaunchStarts(p) \/ OpensOutside(p)
           => AttachInv'
<1>1. cmd \in Commands /\ NoCmd \in Commands
  BY NoCmdTypes DEF AttachInv, BornInv, TypeInv, TypeOK, Commands, Tables
<1> DEFINE Other == cmd'.do \in {"free", "capture", "sweep", "captured", "launched"}
<1>2. Other => AttachInv'
  BY NotAttaching DEF Attaching
<1>3. CASE CaptureSweeps \/ LaunchEnds
  BY <1>1, <1>2, <1>3 DEF CaptureSweeps, LaunchEnds, NoCmd, Commands
<1>4. CASE SweepEnds
  BY <1>1, <1>2, <1>4 DEF SweepEnds, Fails, NoCmd, Commands
<1>5. ASSUME NEW p \in Procs, CaptureMoves(p) PROVE AttachInv'
  BY <1>1, <1>2, <1>5 DEF CaptureMoves, Fails, NoCmd, Commands
<1>6. ASSUME NEW p \in Procs, LaunchStarts(p) PROVE AttachInv'
  BY <1>1, <1>2, <1>6 DEF LaunchStarts, NoCmd, Commands
<1>7. ASSUME NEW p \in Procs, OpensOutside(p) PROVE AttachInv'
  BY <1>2, <1>7 DEF OpensOutside, Idle
<1> QED BY <1>3, <1>4, <1>5, <1>6, <1>7

\* Every state of every behaviour has it.
LEMMA AttachAlways ==
    ASSUME "reaper" \notin Faults, "regain" \notin Faults
    PROVE  Spec => []AttachInv
<1>1. Init /\ BornInv => AttachInv
  BY DEF Init, NoCmd, AttachInv, RootsKnown, MovedIn, Scan, Scanning, TreeIn, Known,
         Pending, Attaching, Found
<1>2. ASSUME AttachInv, BornInv', [Next]_vars PROVE AttachInv'
  <2>1. ASSUME ~Attaching, UNCHANGED cmd PROVE AttachInv'
    BY <1>2, <2>1, NotAttaching DEF Attaching
  <2>2. CASE \/ AttachStarts \/ AttachRuns \/ AttachLists \/ AttachEnds
             \/ \E p \in Procs : AttachMoves(p)
             \/ \E s \in Socks : AttachResets(s)
    BY <1>2, <2>2, AttachStep
  <2>3. CASE \/ AttachScans \/ FindsTree \/ FindsFresh
             \/ \E p \in Procs : ReadsStat(p) \/ ReadsOwner(p)
    BY <1>2, <2>3, ScanStep
  <2>4. CASE \/ CaptureSweeps \/ SweepEnds \/ LaunchEnds
             \/ \E p \in Procs : CaptureMoves(p) \/ LaunchStarts(p) \/ OpensOutside(p)
    BY <1>2, <2>4, LaunchNoAttach
  <2> DEFINE Quieter == \/ PruneLists \/ PruneStops \/ UNCHANGED vars
                        \/ \E p \in Procs : EntersScope(p) \/ Exit(p) \/ Setuid(p)
                        \/ \E p \in Procs, s \in Socks : Close(p, s)
                        \/ \E p, q \in Procs, s \in Socks : HandsOver(p, q, s)
  <2>5. CASE Quieter
    <3>1. UNCHANGED cmd
      BY <2>5 DEF PruneLists, PruneStops, EntersScope, Exit, Setuid, Close, HandsOver, vars
    <3>2. ASSUME Attaching PROVE AttachInv'
      <4>1. Calm
        BY <1>2, <2>5, <3>2, CalmStep DEF AttachInv
      <4> QED BY <1>2, <4>1, CalmKeeps
    <3> QED BY <2>1, <3>1, <3>2
  <2>6. ASSUME NEW p \in Procs, NEW q \in Procs, NEW own \in BOOLEAN, Fork(p, q, own)
        PROVE AttachInv'
    <3>1. UNCHANGED cmd
      BY <2>6 DEF Fork
    <3>2. ASSUME Attaching PROVE AttachInv'
      BY <1>2, <2>6, <3>2, ForkKeeps
    <3> QED BY <2>1, <3>1, <3>2
  <2>7. CASE \E p \in Procs, s \in Socks, kind \in Kinds : Connect(p, s, kind)
    BY <1>2, <2>7, ConnectKeeps
  <2> QED BY <1>2, <2>2, <2>3, <2>4, <2>5, <2>6, <2>7 DEF Next
<1> QED BY <1>1, <1>2, BornAlways, PTL DEF Spec

\* When the rounds of attach end with nothing fresh, every process of the
\* user's tree is in the tunnel and stays there, whatever forks, exits, loses
\* its user or is stopped while /proc is read and beside it.  It takes that no
\* process adopts another's children and none becomes the user's again.
THEOREM TreeMoved ==
    ASSUME "reaper" \notin Faults, "regain" \notin Faults
    PROVE  Spec => []WholeTreeMoved
<1>1. AttachInv => WholeTreeMoved
  <2>1. SUFFICES ASSUME AttachInv, Found, NEW p \in OwnTree
                 PROVE  p \in Inside
    BY DEF WholeTreeMoved, Found
  <2>2. p \in Procs
    BY <2>1, OwnTreeHas DEF AttachInv, BornInv, OwnLives
  <2> QED BY <2>1, <2>2 DEF AttachInv, TreeIn, Inside, In
<1> QED BY <1>1, AttachAlways, PTL

\* When attach is through, no process of the user's tree has a connection from
\* before the tunnel open, not even one that it inherited after the sockets
\* were listed.  It takes, beside the above, that no process passes a
\* connection on meanwhile, or leaves one to another, and that ss works.
THEOREM ConnectionsReset ==
    ASSUME "reaper" \notin Faults, "regain" \notin Faults,
           "handover" \notin Faults, "ssfail" \notin Faults
    PROVE  Spec => []OldConnectionsReset
<1>1. AttachInv => OldConnectionsReset
  <2>1. SUFFICES ASSUME AttachInv, ResetDone, NEW s \in Socks, socks[s].kind = "remote",
                        socks[s].by \cap OwnTree # {}
                 PROVE  socks[s].at # "outside"
    BY DEF OldConnectionsReset
  <2>2. Found /\ cmd.do = "reset" /\ cmd.listed = {} /\ Reliable
    BY <2>1 DEF ResetDone, Found, Reliable
  <2> QED BY <2>1, <2>2 DEF AttachInv, Pending, Old
<1> QED BY <1>1, AttachAlways, PTL


---------------------------------------------------------------------------
(* The capture of a Flatpak.                                               *)

\* A Flatpak that is launched has one process that is not in its scope yet,
OneStart == \A p, q \in In("start") : p = q

\* and nothing is found before that process has entered it.
StartFirst ==
    cmd.do \in {"capture", "sweep"} /\ In("start") # {} =>
        /\ In("outside") = {} /\ cmd.moved = {}
        /\ cmd.do = "sweep" => cmd.fresh = {}

\* While a sweep has moved nothing, what is in the Flatpak's scope was found
\* when the sweep began, or is a child of what is.
Unswept ==
    cmd.do = "sweep" /\ cmd.swept = {} /\ cmd.moved # {} =>
        \A q \in In("outside") :
            q \in cmd.fresh \/ procs[q].parent \in In("outside")

Caught == cmd.do = "captured" => In("outside") = {} /\ In("start") = {}

CaptureInv == BornInv /\ OneStart /\ StartFirst /\ Unswept /\ Caught

\* A step that starts nothing in the scope, and after which no capture runs,
\* or one does in which the parents of what is there stay there
Quiet ==
    /\ In("start")' \subseteq In("start")
    /\ \/ cmd'.do \notin {"capture", "sweep", "captured"}
       \/ /\ UNCHANGED cmd
          /\ In("outside")' \subseteq In("outside")
          /\ \A q \in In("outside")' :
               /\ procs'[q].parent = procs[q].parent
               /\ procs[q].parent \in In("outside")
                  => procs[q].parent \in In("outside")'

\* keeps the invariant.
LEMMA QuietKeeps ==
    ASSUME CaptureInv, BornInv', Quiet
    PROVE  CaptureInv'
<1>1. OneStart'
  BY DEF CaptureInv, OneStart, Quiet
<1>2. CASE cmd'.do \in {"capture", "sweep", "captured"}
  <2>1. StartFirst' /\ Caught'
    BY <1>2 DEF CaptureInv, StartFirst, Caught, Quiet
  <2>2. Unswept'
    BY <1>2 DEF CaptureInv, Unswept, Quiet
  <2> QED BY <1>1, <2>1, <2>2 DEF CaptureInv
<1>3. CASE cmd'.do \notin {"capture", "sweep", "captured"}
  BY <1>1, <1>3 DEF CaptureInv, StartFirst, Unswept, Caught
<1> QED BY <1>2, <1>3

\* Which steps are quiet, where none exits before its children in a capture.
LEMMA QuietStep ==
    ASSUME "orphan" \notin Faults, "reaper" \notin Faults, BornInv
    PROVE  \/ AttachStarts \/ AttachRuns \/ AttachScans \/ FindsTree \/ FindsFresh
           \/ AttachLists \/ AttachEnds
           \/ LaunchEnds \/ PruneLists \/ PruneStops \/ UNCHANGED vars
           \/ \E p \in Procs : \/ ReadsStat(p) \/ ReadsOwner(p) \/ AttachMoves(p)
                               \/ Exit(p) \/ Setuid(p)
           \/ \E s \in Socks : AttachResets(s)
           \/ \E p \in Procs, s \in Socks, kind \in Kinds : Connect(p, s, kind)
           \/ \E p \in Procs, s \in Socks : Close(p, s)
           \/ \E p, q \in Procs, s \in Socks : HandsOver(p, q, s)
           => Quiet
<1>1. procs \in [Procs -> Shapes] /\ cmd \in Commands
  BY DEF BornInv, TypeInv, TypeOK, Shapes, Commands, Tables
<1> DEFINE Other == cmd'.do \notin {"capture", "sweep", "captured"}
<1>2. ASSUME UNCHANGED procs, UNCHANGED cmd \/ Other PROVE Quiet
  BY <1>2 DEF Quiet, In
<1>3. NoCmd.do = "free"
  BY DEF NoCmd
<1>4. CASE AttachStarts \/ AttachEnds \/ LaunchEnds
  <2>1. CASE AttachStarts
    <3>1. cmd'.do = "auth"
      BY <2>1 DEF AttachStarts, NoCmd
    <3> QED BY <1>2, <2>1, <3>1 DEF AttachStarts, app
  <2>2. CASE AttachEnds \/ LaunchEnds
    BY <1>2, <1>3, <2>2 DEF AttachEnds, LaunchEnds, app
  <2> QED BY <1>4, <2>1, <2>2
<1>5. CASE AttachRuns \/ AttachScans \/ FindsTree \/ FindsFresh \/ AttachLists
  <2>1. Other /\ UNCHANGED procs
    <3>1. CASE AttachRuns \/ AttachScans
      BY <1>1, <1>3, <3>1 DEF AttachRuns, AttachScans, Fails, Commands, app
    <3>2. CASE FindsTree \/ FindsFresh
      BY <1>1, <3>2 DEF FindsTree, FindsFresh, Commands, app
    <3>3. CASE AttachLists
      BY <1>1, <1>3, <3>3 DEF AttachLists, Fails, Commands, app
    <3> QED BY <1>5, <3>1, <3>2, <3>3
  <2> QED BY <1>2, <2>1
<1>6. ASSUME NEW s \in Socks, AttachResets(s) PROVE Quiet
  <2>1. Other /\ UNCHANGED procs
    BY <1>1, <1>6 DEF AttachResets, Commands
  <2> QED BY <1>2, <2>1
<1>7. ASSUME NEW p \in Procs, AttachMoves(p) PROVE Quiet
  <2>1. CASE hold
    <3> DEFINE m == IF Alive(p) THEN cmd.moved \cup {p} ELSE cmd.moved
               d == IF cmd.fresh = {p} THEN "scan" ELSE "move"
               t == IF cmd.fresh = {p} THEN NoTable ELSE cmd.table
    <3>1. cmd' = [cmd EXCEPT !.fresh = @ \ {p}, !.moved = m, !.do = d, !.table = t]
      BY <1>7, <2>1 DEF AttachMoves
    <3>2. d \notin {"capture", "sweep", "captured"}
      OBVIOUS
    <3> HIDE DEF m, d, t
    <3>3. Other
      BY <1>1, <3>1, <3>2 DEF Commands
    <3>4. MovesTo(p)
      BY <1>7, <2>1 DEF AttachMoves
    <3>5. In("start")' \subseteq In("start")
      BY <1>1, <3>4 DEF MovesTo, In, Shapes
    <3> QED BY <3>3, <3>5 DEF Quiet
  <2>2. CASE ~hold
    BY <1>2, <1>3, <1>7, <2>2 DEF AttachMoves, Fails
  <2> QED BY <2>1, <2>2
<1>8. CASE PruneLists \/ UNCHANGED vars
  BY <1>2, <1>8 DEF PruneLists, vars, app
<1>9. CASE PruneStops
  <2>1. \A p \in Procs : procs'[p] = IF procs[p].at = "hold"
                                     THEN [procs[p] EXCEPT !.at = "gone"] ELSE procs[p]
    BY <1>1, <1>9 DEF PruneStops
  <2>2. \A p \in Procs : /\ procs'[p].parent = procs[p].parent
                         /\ procs'[p].at = "outside" <=> procs[p].at = "outside"
                         /\ procs'[p].at = "start" <=> procs[p].at = "start"
    BY <1>1, <2>1 DEF Shapes
  <2> QED BY <1>9, <2>2 DEF PruneStops, Quiet, In
<1>10. ASSUME NEW p \in Procs, Setuid(p) PROVE Quiet
  <2>1. \A q \in Procs : /\ procs'[q].parent = procs[q].parent
                         /\ procs'[q].at = procs[q].at
    <3>1. procs' = [procs EXCEPT ![p] = [@ EXCEPT !.own = ~procs[p].own]]
      BY <1>1, <1>10 DEF Setuid, Shapes
    <3> QED BY <1>1, <3>1 DEF Shapes
  <2> QED BY <1>10, <2>1 DEF Setuid, Quiet, In
<1>11. ASSUME NEW p \in Procs, Exit(p) PROVE Quiet
  <2>1. \A q \in Procs :
          procs'[q] = IF q = p THEN [procs[q] EXCEPT !.at = "gone"]
                      ELSE IF procs[q].parent = p
                      THEN [procs[q] EXCEPT !.parent = Nobody] ELSE procs[q]
    BY <1>1, <1>11 DEF Exit, Heirs
  <2>2. Capturing => \A q \in Procs : Alive(q) => procs[q].parent # p
    BY <1>11 DEF Exit, Heirs
  <2>3. \A q \in Procs :
          /\ procs'[q].at = IF q = p THEN "gone" ELSE procs[q].at
          /\ Capturing /\ Alive(q) => procs'[q].parent = procs[q].parent
    BY <1>1, <2>1, <2>2 DEF Shapes
  <2>4. \A q \in Procs : procs'[q].at = "outside" => q # p /\ Alive(q)
    BY <2>3 DEF Alive
  <2>5. In("start")' \subseteq In("start") /\ UNCHANGED cmd
    BY <1>11, <2>3 DEF Exit, In
  <2>6. CASE Capturing
    BY <2>2, <2>3, <2>4, <2>5, <2>6 DEF Quiet, In
  <2>7. CASE ~Capturing
    BY <2>5, <2>7 DEF Quiet, Capturing
  <2> QED BY <2>6, <2>7
<1>12. ASSUME NEW p \in Procs, NEW s \in Socks, NEW kind \in Kinds, Connect(p, s, kind)
       PROVE Quiet
  BY <1>2, <1>12 DEF Connect
<1>13. ASSUME NEW p \in Procs, ReadsStat(p) \/ ReadsOwner(p) PROVE Quiet
  <2>1. Other /\ UNCHANGED procs
    BY <1>1, <1>13 DEF ReadsStat, ReadsOwner, Commands, app
  <2> QED BY <1>2, <2>1
<1>14. ASSUME NEW p \in Procs, NEW s \in Socks,
              Close(p, s) \/ \E q \in Procs : HandsOver(p, q, s)
       PROVE Quiet
  BY <1>2, <1>14 DEF Close, HandsOver
<1> QED BY <1>4, <1>5, <1>6, <1>7, <1>8, <1>9, <1>10, <1>11, <1>12, <1>13, <1>14


\* A step of a launch keeps it, where none exits before its children and a
\* Flatpak is in its scope in time.
LEMMA LaunchStep ==
    ASSUME "slow" \notin Faults, CaptureInv, BornInv',
           \/ CaptureSweeps \/ SweepEnds
           \/ \E p \in Procs : \/ CaptureMoves(p) \/ LaunchStarts(p)
                               \/ OpensOutside(p) \/ EntersScope(p)
    PROVE  CaptureInv'
<1>1. procs \in [Procs -> Shapes] /\ cmd \in Commands
  BY DEF CaptureInv, BornInv, TypeInv, TypeOK, Shapes, Commands, Tables
<1>2. /\ OneStart /\ StartFirst /\ Unswept /\ Caught /\ BirthOrder
  BY DEF CaptureInv, BornInv
<1>3. CASE CaptureSweeps
  <2>1. /\ cmd.do = "capture" /\ UNCHANGED procs
        /\ cmd'.do = "sweep" /\ cmd'.fresh = In("outside") /\ cmd'.moved = cmd.moved
    BY <1>1, <1>3 DEF CaptureSweeps, Commands, app
  <2>2. In("outside")' = In("outside") /\ In("start")' = In("start")
    BY <2>1 DEF In
  <2> QED BY <1>2, <2>1, <2>2 DEF CaptureInv, OneStart, StartFirst, Unswept, Caught
<1>4. CASE SweepEnds
  <2>1. UNCHANGED procs /\ cmd.do = "sweep" /\ cmd.fresh = {}
    BY <1>4 DEF SweepEnds, app
  <2>2. In("outside")' = In("outside") /\ In("start")' = In("start")
    BY <2>1 DEF In
  <2>3. CASE cmd' = [cmd EXCEPT !.do = "capture"]
    <3>1. cmd'.do = "capture" /\ cmd'.moved = cmd.moved
      BY <1>1, <2>3 DEF Commands
    <3> QED BY <1>2, <2>1, <2>2, <3>1
            DEF CaptureInv, OneStart, StartFirst, Unswept, Caught
  <2>4. CASE Settled /\ cmd' = [NoCmd EXCEPT !.do = "captured"]
    <3>1. cmd'.do = "captured"
      BY <2>4 DEF NoCmd
    <3>2. In("start") = {}
      BY <1>2, <2>1, <2>4 DEF Settled, StartFirst
    <3>3. \A q \in In("outside") : procs[q].parent \in In("outside")
      BY <1>2, <2>1, <2>4 DEF Settled, Unswept
    <3>4. In("outside") = {}
      <4>1. SUFFICES ASSUME In("outside") # {} PROVE FALSE
        OBVIOUS
      <4>2. PICK f \in In("outside") : \A q \in In("outside") : ~(q < f)
        BY <4>1, FirstBorn DEF In
      <4>3. procs[f].parent < f
        BY <1>2, <4>2 DEF BirthOrder, In
      <4> QED BY <3>3, <4>2, <4>3
    <3> QED BY <1>2, <2>2, <3>1, <3>2, <3>4
            DEF CaptureInv, OneStart, StartFirst, Unswept, Caught
  <2>5. CASE cmd' = NoCmd
    <3>1. cmd'.do = "free"
      BY <2>5 DEF NoCmd
    <3> QED BY <1>2, <2>2, <3>1 DEF CaptureInv, OneStart, StartFirst, Unswept, Caught
  <2> QED BY <1>4, <2>3, <2>4, <2>5 DEF SweepEnds, Fails
<1>5. ASSUME NEW p \in Procs, CaptureMoves(p) PROVE CaptureInv'
  <2>1. CASE hold
    <3> DEFINE m == IF Alive(p) THEN cmd.moved \cup {p} ELSE cmd.moved
               w == IF Alive(p) THEN cmd.swept \cup {p} ELSE cmd.swept
    <3>1. cmd.do = "sweep" /\ p \in cmd.fresh /\ MovesTo(p)
      BY <1>5, <2>1 DEF CaptureMoves
    <3>2. /\ cmd'.do = "sweep" /\ cmd'.fresh = cmd.fresh \ {p}
          /\ cmd'.swept = w /\ cmd'.moved = m
      <4>1. cmd' = [cmd EXCEPT !.fresh = @ \ {p}, !.swept = w, !.moved = m]
        BY <1>5, <2>1 DEF CaptureMoves
      <4> HIDE DEF m, w
      <4> QED BY <1>1, <3>1, <4>1 DEF Commands
    <3>3. In("start") = {}
      BY <1>2, <3>1 DEF StartFirst
    <3>4. In("start")' = {}
      BY <1>1, <3>1, <3>3 DEF MovesTo, In, Shapes
    <3>5. Unswept'
      <4>1. CASE Alive(p)
        BY <3>2, <4>1 DEF Unswept
      <4>2. CASE ~Alive(p)
        <5>1. UNCHANGED procs /\ p \notin In("outside")
          BY <3>1, <4>2 DEF MovesTo, In, Alive
        <5>2. In("outside")' = In("outside")
          BY <5>1 DEF In
        <5> QED BY <1>2, <3>1, <3>2, <4>2, <5>1, <5>2 DEF Unswept
      <4> QED BY <4>1, <4>2
    <3> QED BY <3>2, <3>4, <3>5 DEF CaptureInv, OneStart, StartFirst, Caught
  <2>2. CASE ~hold
    <3>1. UNCHANGED procs /\ cmd'.do = "free"
      BY <1>5, <2>2 DEF CaptureMoves, Fails, NoCmd
    <3>2. In("start")' = In("start")
      BY <3>1 DEF In
    <3> QED BY <1>2, <3>1, <3>2 DEF CaptureInv, OneStart, StartFirst, Unswept, Caught
  <2> QED BY <2>1, <2>2
<1>6. ASSUME NEW p \in Procs, LaunchStarts(p) PROVE CaptureInv'
  <2>1. /\ In("outside") = {} /\ In("start") = {}
        /\ \A q \in Procs : procs'[q].at = IF q = p
                                           THEN IF flatpak THEN "start" ELSE "slice"
                                           ELSE procs[q].at
        /\ cmd'.do \in {"capture", "launched"} /\ cmd'.moved = {}
    BY <1>1, <1>6 DEF LaunchStarts, Shapes, NoCmd
  <2>2. In("outside")' = {} /\ In("start")' \subseteq {p}
    BY <2>1 DEF In
  <2> QED BY <2>1, <2>2 DEF CaptureInv, OneStart, StartFirst, Unswept, Caught
<1>7. ASSUME NEW p \in Procs, OpensOutside(p) PROVE CaptureInv'
  <2>1. cmd' = cmd /\ cmd.do = "free"
    BY <1>7 DEF OpensOutside, Idle
  <2>2. \A q \in Procs : procs'[q].at = IF q = p THEN "outside" ELSE procs[q].at
    BY <1>1, <1>7 DEF OpensOutside, Shapes
  <2>3. In("start")' \subseteq In("start")
    BY <2>2 DEF In
  <2> QED BY <1>2, <2>1, <2>3 DEF CaptureInv, OneStart, StartFirst, Unswept, Caught
<1>8. ASSUME NEW p \in Procs, EntersScope(p) PROVE CaptureInv'
  <2>1. UNCHANGED cmd /\ p \in In("start")
    BY <1>8 DEF EntersScope, In
  <2>2. \A q \in Procs : procs'[q].at = IF q = p THEN "outside" ELSE procs[q].at
    BY <1>1, <1>8 DEF EntersScope, Shapes
  <2>3. In("start")' = {}
    BY <1>2, <2>1, <2>2 DEF In, OneStart
  <2>4. Unswept'
    BY <1>2, <2>1 DEF StartFirst, Unswept
  <2>5. Caught'
    BY <1>2, <2>1 DEF Caught
  <2> QED BY <2>3, <2>4, <2>5 DEF CaptureInv, OneStart, StartFirst
<1> QED BY <1>3, <1>4, <1>5, <1>6, <1>7, <1>8

\* A child is where its parent is.
LEMMA ForkCaptured ==
    ASSUME CaptureInv, BornInv',
           NEW p \in Procs, NEW q \in Procs, NEW own \in BOOLEAN, Fork(p, q, own)
    PROVE  CaptureInv'
<1>1. procs \in [Procs -> Shapes]
  BY DEF CaptureInv, BornInv, TypeInv, TypeOK, Shapes
<1>2. /\ UNCHANGED cmd /\ procs[p].at # "start"
      /\ procs[q].at = "none"
      /\ \A o \in Procs :
           /\ procs'[o].at = IF o = q THEN procs[p].at ELSE procs[o].at
           /\ procs'[o].parent = IF o = q THEN p ELSE procs[o].parent
  BY <1>1 DEF Fork, Shapes, Newborn
<1>3. /\ In("start")' = In("start")
      /\ In("outside")' = IF p \in In("outside") THEN In("outside") \cup {q}
                          ELSE In("outside")
  BY <1>2 DEF In
<1>4. \A o \in In("outside") : procs'[o].parent = procs[o].parent
  BY <1>2 DEF In
<1>5. Unswept'
  <2>1. SUFFICES ASSUME cmd.do = "sweep", cmd.swept = {}, cmd.moved # {},
                        NEW o \in In("outside")'
                 PROVE  o \in cmd.fresh \/ procs'[o].parent \in In("outside")'
    BY <1>2 DEF Unswept
  <2>2. CASE o \in In("outside")
    BY <1>3, <1>4, <2>1, <2>2 DEF CaptureInv, Unswept
  <2>3. CASE o \notin In("outside")
    BY <1>2, <1>3, <2>1, <2>3 DEF In
  <2> QED BY <2>2, <2>3
<1> QED BY <1>2, <1>3, <1>5 DEF CaptureInv, OneStart, StartFirst, Caught

\* Where no process of it exits before its children, none adopts another's, and
\* a Flatpak is in its scope in time, a sweep that has settled has left nothing
\* of it there.
THEOREM CaptureComplete ==
    ASSUME "orphan" \notin Faults, "reaper" \notin Faults, "slow" \notin Faults
    PROVE  Spec => []CaptureSettled
<1>1. Init /\ BornInv => CaptureInv
  BY DEF Init, NoCmd, In, CaptureInv, OneStart, StartFirst, Unswept, Caught
<1>2. ASSUME CaptureInv, BornInv', [Next]_vars PROVE CaptureInv'
  <2>1. CASE \/ CaptureSweeps \/ SweepEnds
             \/ \E p \in Procs : \/ CaptureMoves(p) \/ LaunchStarts(p)
                                 \/ OpensOutside(p) \/ EntersScope(p)
    BY <1>2, <2>1, LaunchStep
  <2>2. CASE \E p, q \in Procs, own \in BOOLEAN : Fork(p, q, own)
    BY <1>2, <2>2, ForkCaptured
  <2>3. CASE \/ AttachStarts \/ AttachRuns \/ AttachScans \/ FindsTree \/ FindsFresh
             \/ AttachLists \/ AttachEnds
             \/ LaunchEnds \/ PruneLists \/ PruneStops \/ UNCHANGED vars
             \/ \E p \in Procs : \/ ReadsStat(p) \/ ReadsOwner(p) \/ AttachMoves(p)
                                 \/ Exit(p) \/ Setuid(p)
             \/ \E s \in Socks : AttachResets(s)
             \/ \E p \in Procs, s \in Socks, kind \in Kinds : Connect(p, s, kind)
             \/ \E p \in Procs, s \in Socks : Close(p, s)
             \/ \E p, q \in Procs, s \in Socks : HandsOver(p, q, s)
    <3>1. Quiet
      BY <1>2, <2>3, QuietStep DEF CaptureInv
    <3> QED BY <1>2, <3>1, QuietKeeps
  <2> QED BY <1>2, <2>1, <2>2, <2>3 DEF Next
<1>3. CaptureInv => CaptureSettled
  BY DEF CaptureInv, Caught, CaptureSettled
<1> QED BY <1>1, <1>2, <1>3, BornAlways, PTL DEF Spec

===========================================================================
