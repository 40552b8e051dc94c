---------------------------- MODULE FilterProofs ----------------------------
(* Proofs about Filter: the listeners and the commands that start and stop *)
(* them, for any number of starts, runs of filter_route_on and flights; and *)
(* what a server is sent of a cut ClientHello, for hellos of any length.   *)
EXTENDS Filter, FiniteSetTheorems, SequenceTheorems, WellFoundedInduction, TLAPS

---------------------------------------------------------------------------
(* Types.                                                                  *)

TaskRecords ==
    [stage : {"none", "binding", "serving", "ending", "done"},
     ports : SUBSET Ports, aborted : BOOLEAN]

ListenerTypes ==
    /\ tasks \in [Tasks -> TaskRecords]
    /\ handle \in 0..MaxStarts
    /\ running \in BOOLEAN /\ late \in BOOLEAN

\* The runs of filter_route_on that have deleted the rules and not yet added
\* their own
Adding == {r \in Routers : routers[r] = "deleted"}

\* Where the deletions succeed, each rule there is was added by a run of its own.
RulesInv ==
    /\ routers \in [Routers -> {"off", "asked", "deleted"}]
    /\ rules \in Nat
    /\ "undeleted" \notin Faults =>
         rules + Cardinality(Adding) <= Cardinality(Routers)

\* The one connection is counted when it opens, before it can be cut.
ConnInv ==
    /\ browser \in {"none", "plain", "inside", "filtered", "claimed"}
    /\ DOMAIN conn = DOMAIN NoConn
    /\ conn.reply \in {0, 200, 405, 502}
    /\ stats \in [connections : Nat, fragmented : Nat]
    /\ stats.fragmented <= stats.connections
    /\ conn.stage = "open" => stats.fragmented < stats.connections

TypeInv == ListenerTypes /\ RulesInv /\ ConnInv

\* At first nothing runs.
LEMMA ListenersStart == Init => ListenerTypes
<1> SUFFICES ASSUME Init PROVE ListenerTypes
  OBVIOUS
<1>1. handle \in 0..MaxStarts
  BY FilterAssumption DEF Init
<1>2. NoTask \in TaskRecords
  BY DEF NoTask, TaskRecords
<1> QED BY <1>1, <1>2 DEF Init, ListenerTypes

\* A start, a bind, a stop or an end is a step of the listeners.
ListenerMoves ==
    /\ \/ \E t \in Tasks : FilterStart(t) \/ TaskEnds(t) \/ TaskDropped(t)
       \/ \E t \in Tasks, port \in Ports : Bind(t, port)
       \/ FilterStop

\* Those of the redirect
RouteMoves ==
    \/ \E r \in Routers :
         RouteOn(r) \/ RouteDeletes(r) \/ RouteCancelled(r) \/ RouteInstalls(r)
    \/ RouteOff

\* and those of the browser and the connection
ConnMoves ==
    \/ BrowserMoves
    \/ LaunchWithFilter
    \/ \E f \in Flights :
         \/ \E req \in Requests : Browser(req, f)
         \/ \E target \in {"site", "dead"} \cup Bypass : Redirected(target, f)
         \/ Direct(f)
    \/ Dial
    \/ \E n \in Reads : FirstRead(n)
    \/ Copy

\* Each step of the system is one of these, and leaves the others' state alone.
LEMMA WhoMoves ==
    ASSUME [Next]_vars
    PROVE  \/ ListenerMoves /\ UNCHANGED <<stats, redirect, browser, conn>>
           \/ RouteMoves /\ UNCHANGED <<listeners, stats, browser, conn>>
           \/ ConnMoves /\ UNCHANGED <<listeners, redirect>>
           \/ UNCHANGED vars
<1>1. ListenerMoves => UNCHANGED <<stats, redirect, browser, conn>>
  BY DEF ListenerMoves, FilterStart, TaskEnds, TaskDropped, Bind, FilterStop
<1>2. RouteMoves => UNCHANGED <<listeners, stats, browser, conn>>
  BY DEF RouteMoves, RouteOn, RouteDeletes, RouteCancelled, RouteInstalls,
         RouteOff
<1>3. ConnMoves => UNCHANGED <<listeners, redirect>>
  BY DEF ConnMoves, BrowserMoves, LaunchWithFilter, Browser, Redirected,
         Direct, OpenConn, Dial, FirstRead, Copy
<1>4. Next => ListenerMoves \/ RouteMoves \/ ConnMoves
  BY DEF Next, ListenerMoves, RouteMoves, ConnMoves
<1> QED BY <1>1, <1>2, <1>3, <1>4

\* The listeners' variables keep their types.
LEMMA ListenersTyped ==
    ASSUME ListenerTypes, ListenerMoves
    PROVE  ListenerTypes'
<1>0. MaxStarts \in Nat \ {0}
  BY FilterAssumption
<1>1. ASSUME NEW t \in Tasks, FilterStart(t) PROVE ListenerTypes'
  BY <1>0, <1>1 DEF FilterStart, ListenerTypes, TaskRecords, Tasks
<1>2. ASSUME NEW t \in Tasks, TaskEnds(t) PROVE ListenerTypes'
  BY <1>2 DEF TaskEnds, ListenerTypes, TaskRecords, NoTask
<1>3. ASSUME NEW t \in Tasks, TaskDropped(t) PROVE ListenerTypes'
  BY <1>3 DEF TaskDropped, ListenerTypes, TaskRecords, NoTask
<1>4. ASSUME NEW t \in Tasks, NEW port \in Ports, Bind(t, port)
      PROVE  ListenerTypes'
  <2> DEFINE s == tasks[t]
             z == IF port \in Held
                  THEN [s EXCEPT !.stage = "ending", !.ports = {}]
                  ELSE [s EXCEPT !.ports = s.ports \cup {port},
                                 !.stage = IF s.ports = {} THEN "binding"
                                           ELSE "serving"]
  <2>1. s \in TaskRecords
    BY DEF ListenerTypes
  <2>2. z \in TaskRecords
    BY <2>1 DEF TaskRecords
  <2>3. tasks' = [tasks EXCEPT ![t] = z] /\ UNCHANGED <<handle, running, late>>
    BY <1>4 DEF Bind
  <2> HIDE DEF z
  <2> QED BY <2>2, <2>3 DEF ListenerTypes
<1>5. CASE FilterStop
  <2>1. ASSUME NEW t \in Tasks PROVE tasks'[t] \in TaskRecords
    BY <1>5 DEF FilterStop, ListenerTypes, TaskRecords
  <2>2. tasks' \in [Tasks -> TaskRecords]
    BY <1>5, <2>1 DEF FilterStop
  <2>3. handle' \in 0..MaxStarts /\ running' \in BOOLEAN /\ late' \in BOOLEAN
    <3>1. handle' = 0 /\ running' = FALSE /\ late' \in BOOLEAN
      BY <1>5 DEF FilterStop, ListenerTypes
    <3>2. handle' \in 0..MaxStarts
      BY <1>0, <3>1
    <3> QED BY <3>1, <3>2
  <2> QED BY <2>2, <2>3 DEF ListenerTypes
<1> QED BY <1>1, <1>2, <1>3, <1>4, <1>5 DEF ListenerMoves

\* A run that adds its rule is one fewer of those about to.
LEMMA RulesKept ==
    ASSUME RulesInv, RouteMoves
    PROVE  RulesInv'
<1>0. /\ IsFiniteSet(Routers) /\ Cardinality(Routers) \in Nat
      /\ \A S \in SUBSET Routers :
           /\ IsFiniteSet(S) /\ Cardinality(S) \in Nat
           /\ Cardinality(S) <= Cardinality(Routers)
  BY FilterAssumption, FS_CardinalityType, FS_Subset
<1>1. Adding \in SUBSET Routers /\ Adding' \in SUBSET Routers
  BY DEF Adding
<1>2. ASSUME NEW r \in Routers, NEW to \in {"off", "asked"},
             NEW from \in {"off", "asked"}, RouteGoes(r, from, to),
             UNCHANGED rules
      PROVE  RulesInv'
  <2>1. Adding' = Adding /\ routers' \in [Routers -> {"off", "asked", "deleted"}]
    BY <1>2 DEF RouteGoes, Adding, RulesInv
  <2> QED BY <1>2, <2>1 DEF RulesInv
<1>3. ASSUME NEW r \in Routers, RouteDeletes(r) PROVE RulesInv'
  <2>1. routers' \in [Routers -> {"off", "asked", "deleted"}]
    BY <1>3 DEF RouteDeletes, RouteGoes, RulesInv
  <2>2. rules' \in Nat /\ ("undeleted" \notin Faults => rules' = 0)
    BY <1>3 DEF RouteDeletes, Deleted, RulesInv
  <2> QED BY <1>0, <1>1, <2>1, <2>2 DEF RulesInv
<1>4. ASSUME NEW r \in Routers, RouteInstalls(r) PROVE RulesInv'
  <2>1. /\ routers' \in [Routers -> {"off", "asked", "deleted"}]
        /\ r \in Adding /\ Adding' = Adding \ {r}
    BY <1>4 DEF RouteInstalls, RouteGoes, RulesInv, Adding
  <2>2. Cardinality(Adding') = Cardinality(Adding) - 1
    BY <1>0, <1>1, <2>1, FS_RemoveElement
  <2>3. rules' \in {0, rules, rules + 1} /\ rules \in Nat
    BY <1>4 DEF RouteInstalls, Deleted, RulesInv
  <2>4. Cardinality(Adding) \in Nat /\ Cardinality(Adding') <= Cardinality(Routers)
    BY <1>0, <1>1
  <2> QED BY <1>0, <2>1, <2>2, <2>3, <2>4 DEF RulesInv
<1>5. CASE RouteOff
  <2>1. Adding' = Adding /\ rules' \in {0, rules}
    BY <1>5 DEF RouteOff, Adding, Deleted
  <2> QED BY <1>0, <1>1, <1>5, <2>1 DEF RouteOff, RulesInv
<1>6. ASSUME NEW r \in Routers, RouteOn(r) \/ RouteCancelled(r) PROVE RulesInv'
  BY <1>2, <1>6 DEF RouteOn, RouteCancelled
<1> QED BY <1>3, <1>4, <1>5, <1>6 DEF RouteMoves

\* The counters keep their order.
LEMMA ConnKept ==
    ASSUME ConnInv, ConnMoves
    PROVE  ConnInv'
<1>1. CASE BrowserMoves
  BY <1>1 DEF BrowserMoves, ConnInv
<1>2. CASE LaunchWithFilter
  BY <1>2 DEF LaunchWithFilter, ConnInv
<1>3. ASSUME NEW via, NEW target, NEW f, OpenConn(via, target, f)
      PROVE  ConnInv'
  <2>1. conn' = [NoConn EXCEPT !.stage = "accepted", !.via = via,
                               !.target = target, !.flight = f.data,
                               !.name = f.name]
        /\ UNCHANGED <<stats, browser>>
    BY <1>3 DEF OpenConn
  <2>2. DOMAIN conn' = DOMAIN NoConn /\ conn'.reply = 0 /\ conn'.stage = "accepted"
    BY <2>1 DEF NoConn
  <2> QED BY <2>1, <2>2 DEF ConnInv
<1>4. CASE Dial
  <2>1. /\ DOMAIN conn' = DOMAIN conn /\ UNCHANGED browser
        /\ conn'.reply \in {0, 200, 405, 502}
        /\ \/ conn'.stage # "open" /\ UNCHANGED stats
           \/ stats' = [stats EXCEPT !.connections = @ + 1]
    <3>1. /\ {"stage", "reply"} \subseteq DOMAIN conn
          /\ conn.reply \in {0, 200, 405, 502}
      BY DEF ConnInv, NoConn
    <3>2. UNCHANGED browser
      BY <1>4 DEF Dial
    <3>4. CASE conn' = [conn EXCEPT !.stage = "closed"] /\ UNCHANGED stats
      BY <3>1, <3>2, <3>4
    <3>5. CASE conn' = [conn EXCEPT !.stage = "closed", !.reply = 405]
               /\ UNCHANGED stats
      BY <3>1, <3>2, <3>5
    <3>6. CASE /\ conn' = [conn EXCEPT
                             !.stage = "closed",
                             !.reply = IF conn.via = "connect" THEN 502 ELSE 0]
               /\ UNCHANGED stats
      BY <3>1, <3>2, <3>6
    <3>7. CASE /\ conn' = [conn EXCEPT
                             !.stage = IF "inslice" \in Faults /\ rules > 0
                                       THEN "loops" ELSE "open",
                             !.reply = IF conn.via = "connect" THEN 200 ELSE 0]
               /\ stats' = [stats EXCEPT !.connections = @ + 1]
      BY <3>1, <3>2, <3>7
    <3> QED BY <1>4, <3>4, <3>5, <3>6, <3>7 DEF Dial, ConnGoes
  <2> QED BY <2>1 DEF ConnInv
<1>5. ASSUME NEW n \in Reads, FirstRead(n) PROVE ConnInv'
  <2>1. /\ DOMAIN conn' = DOMAIN conn /\ UNCHANGED browser
        /\ conn'.reply = conn.reply /\ conn'.stage # "open"
        /\ conn.stage = "open"
        /\ \/ UNCHANGED stats
           \/ stats' = [stats EXCEPT !.fragmented = @ + 1]
    BY <1>5 DEF FirstRead, ConnInv, NoConn
  <2> QED BY <2>1 DEF ConnInv
<1>6. CASE Copy
  <2>1. /\ DOMAIN conn' = DOMAIN conn /\ UNCHANGED <<stats, browser>>
        /\ conn'.reply = conn.reply /\ conn'.stage = "done"
    BY <1>6 DEF Copy, ConnInv, NoConn
  <2> QED BY <2>1 DEF ConnInv
<1> QED BY <1>1, <1>2, <1>3, <1>4, <1>5, <1>6
        DEF ConnMoves, Browser, Redirected, Direct

\* The variables have their types; in particular, where the table can be
\* deleted, the runs of filter_route_on that overlap leave at most one rule each
\* in it, and no cut is counted without its connection.
THEOREM TypeCorrect == Spec => []TypeOK
<1>1. Init => TypeInv
  <2> SUFFICES ASSUME Init PROVE TypeInv
    OBVIOUS
  <2>1. ListenerTypes
    BY ListenersStart
  <2>2. Adding = {} /\ Cardinality(Routers) \in Nat
    BY FilterAssumption, FS_CardinalityType DEF Init, Adding
  <2>3. RulesInv
    BY <2>2, FS_EmptySet DEF Init, RulesInv
  <2>4. ConnInv
    <3>1. conn = NoConn /\ browser = "none"
      BY DEF Init
    <3>2. conn.reply = 0 /\ conn.stage = "none"
      BY <3>1 DEF NoConn
    <3>3. stats = [connections |-> 0, fragmented |-> 0]
      BY DEF Init
    <3> QED BY <3>1, <3>2, <3>3 DEF ConnInv
  <2> QED BY <2>1, <2>3, <2>4 DEF TypeInv
<1>2. TypeInv /\ [Next]_vars => TypeInv'
  <2> SUFFICES ASSUME TypeInv, [Next]_vars PROVE TypeInv'
    OBVIOUS
  <2>1. ListenerTypes'
    <3>1. UNCHANGED listeners => ListenerTypes'
      BY DEF TypeInv, ListenerTypes, listeners
    <3> QED BY <3>1, WhoMoves, ListenersTyped DEF TypeInv, vars
  <2>2. RulesInv'
    <3>1. UNCHANGED redirect => RulesInv'
      BY DEF TypeInv, RulesInv, Adding, redirect
    <3> QED BY <3>1, WhoMoves, RulesKept DEF TypeInv, vars
  <2>3. ConnInv'
    <3>1. UNCHANGED <<stats, browser, conn>> => ConnInv'
      BY DEF TypeInv, ConnInv
    <3> QED BY <3>1, WhoMoves, ConnKept DEF TypeInv, vars
  <2> QED BY <2>1, <2>2, <2>3 DEF TypeInv
<1>3. TypeInv => TypeOK
  <2> SUFFICES ASSUME TypeInv PROVE TypeOK
    OBVIOUS
  <2>1. /\ rules \in Nat
        /\ "undeleted" \notin Faults => rules <= Cardinality(Routers)
    <3>1. Cardinality(Adding) \in Nat /\ Cardinality(Routers) \in Nat
      BY FilterAssumption, FS_CardinalityType, FS_Subset DEF Adding
    <3> QED BY <3>1 DEF TypeInv, RulesInv
  <2> QED BY <2>1 DEF TypeInv, ListenerTypes, TaskRecords, ConnInv, TypeOK
<1> QED BY <1>1, <1>2, <1>3, PTL DEF Spec

---------------------------------------------------------------------------
(* What the page shows.                                                    *)

\* A task that was not spawned is as at first, and one that has ended holds no
\* port; one that has not ended was aborted or is the
\* one filter_stop will abort, and the flag is set, unless a store came late.
TaskOf(t) ==
    /\ tasks[t].stage = "none" => tasks[t] = NoTask
    /\ Gone(t) => tasks[t].ports = {}
    /\ ~Gone(t) => tasks[t].aborted \/ (handle = t /\ running) \/ late

\* While the flag is set, filter_stop has something to abort.
FlagInv ==
    running => handle \in Tasks /\ ~Gone(handle) /\ ~tasks[handle].aborted

ListenersInv == ListenerTypes /\ FlagInv /\ \A t \in Tasks : TaskOf(t)

\* Every step of the filter's commands and of its tasks keeps the invariant:
\* before a start the flag is not set, so the tasks there are were aborted.
LEMMA ListenersKept ==
    ASSUME ListenersInv, ListenerMoves
    PROVE  ListenersInv'
<1>0. ListenerTypes /\ ListenerTypes' /\ FlagInv /\ \A t \in Tasks : TaskOf(t)
  BY ListenersTyped DEF ListenersInv
<1>1. ASSUME NEW t \in Tasks, FilterStart(t) PROVE ListenersInv'
  <2>1. /\ tasks' = [tasks EXCEPT ![t].stage = "binding"]
        /\ handle' = t /\ running' = TRUE /\ ~running /\ late' = late
        /\ tasks[t].stage = "none"
    BY <1>1 DEF FilterStart
  <2>2. tasks'[t].stage = "binding" /\ tasks'[t].aborted = tasks[t].aborted
    BY <1>0, <2>1 DEF ListenerTypes, TaskRecords
  <2>3. \A u \in Tasks \ {t} : tasks'[u] = tasks[u]
    BY <1>0, <2>1 DEF ListenerTypes
  <2>4. FlagInv'
    BY <1>0, <2>1, <2>2 DEF FlagInv, Gone, TaskOf, NoTask
  <2>5. ASSUME NEW u \in Tasks PROVE TaskOf(u)'
    <3>1. CASE u = t
      BY <2>1, <2>2, <3>1 DEF TaskOf, Gone
    <3>2. CASE u # t
      BY <1>0, <2>1, <2>3, <3>2 DEF TaskOf, Gone
    <3> QED BY <3>1, <3>2
  <2> QED BY <1>0, <2>4, <2>5 DEF ListenersInv
<1>2. ASSUME NEW t \in Tasks, TaskEnds(t) \/ TaskDropped(t) PROVE ListenersInv'
  <2>1. /\ tasks' = [tasks EXCEPT ![t] = [NoTask EXCEPT !.stage = "done"]]
        /\ handle' = handle /\ ~Gone(t)
    BY <1>2 DEF TaskEnds, TaskDropped, Gone
  <2>2. /\ tasks'[t].stage = "done" /\ tasks'[t].ports = {}
        /\ \A u \in Tasks \ {t} : tasks'[u] = tasks[u]
    BY <1>0, <2>1 DEF ListenerTypes, NoTask
  <2>3. \/ ~running' /\ (late' <=> late \/ (running /\ handle # t))
        \/ running' = running /\ late' = late /\ tasks[t].aborted
    BY <1>2 DEF TaskEnds, TaskDropped
  <2>4. FlagInv'
    BY <1>0, <2>1, <2>2, <2>3 DEF FlagInv, Gone
  <2>5. ASSUME NEW u \in Tasks PROVE TaskOf(u)'
    <3>1. CASE u = t
      BY <2>2, <3>1 DEF TaskOf, Gone
    <3>2. CASE u # t
      BY <1>0, <2>1, <2>2, <2>3, <3>2 DEF TaskOf, Gone
    <3> QED BY <3>1, <3>2
  <2> QED BY <1>0, <2>4, <2>5 DEF ListenersInv
<1>3. ASSUME NEW t \in Tasks, NEW port \in Ports, Bind(t, port)
      PROVE  ListenersInv'
  <2>1. /\ handle' = handle /\ running' = running /\ late' = late
        /\ ~Gone(t)
        /\ \A u \in Tasks \ {t} : tasks'[u] = tasks[u]
    BY <1>0, <1>3 DEF Bind, Gone, ListenerTypes
  <2>2. /\ tasks'[t].stage \in {"binding", "serving", "ending"}
        /\ tasks'[t].aborted = tasks[t].aborted
    <3>1. tasks[t] \in TaskRecords
      BY <1>0 DEF ListenerTypes
    <3> QED BY <1>0, <1>3, <3>1 DEF Bind, ListenerTypes, TaskRecords
  <2>3. FlagInv'
    BY <1>0, <2>1, <2>2 DEF FlagInv, Gone
  <2>4. ASSUME NEW u \in Tasks PROVE TaskOf(u)'
    <3>1. CASE u = t
      BY <1>0, <2>1, <2>2, <3>1 DEF TaskOf, Gone
    <3>2. CASE u # t
      BY <1>0, <2>1, <3>2 DEF TaskOf, Gone
    <3> QED BY <3>1, <3>2
  <2> QED BY <1>0, <2>3, <2>4 DEF ListenersInv
<1>4. CASE FilterStop
  <2>1. ~running' /\ late' = late
    BY <1>4 DEF FilterStop
  <2>2. ASSUME NEW t \in Tasks
        PROVE  /\ tasks'[t].stage = tasks[t].stage
               /\ Gone(t) => tasks'[t] = tasks[t]
               /\ handle = t /\ ~Gone(t) => tasks'[t].aborted
               /\ tasks[t].aborted => tasks'[t].aborted
    BY <1>0, <1>4 DEF FilterStop, ListenerTypes, TaskRecords
  <2>3. ASSUME NEW t \in Tasks PROVE TaskOf(t)'
    BY <1>0, <2>1, <2>2 DEF TaskOf, Gone
  <2> QED BY <1>0, <2>1, <2>3 DEF ListenersInv, FlagInv
<1> QED BY <1>1, <1>2, <1>3, <1>4 DEF ListenerMoves

\* The flag tells whether the filter runs: while it is set, there is a task that
\* filter_stop will abort, and whatever listens was aborted or is that task,
\* whatever binds fail, whatever is aborted and however soon it is started
\* again, as long as no ended task stores its FALSE after the next start.
THEOREM ListenersOwned == Spec => []RunningTruthful
<1>1. Init => ListenersInv
  <2> SUFFICES ASSUME Init PROVE ListenersInv
    OBVIOUS
  <2>1. ListenerTypes
    BY ListenersStart
  <2>2. ~running /\ \A t \in Tasks : tasks[t] = NoTask
    BY DEF Init
  <2>3. NoTask.stage = "none" /\ NoTask.ports = {}
    BY DEF NoTask
  <2> QED BY <2>1, <2>2, <2>3 DEF ListenersInv, FlagInv, TaskOf, Gone
<1>2. ListenersInv /\ [Next]_vars => ListenersInv'
  <2> SUFFICES ASSUME ListenersInv, [Next]_vars PROVE ListenersInv'
    OBVIOUS
  <2>1. UNCHANGED listeners => ListenersInv'
    BY DEF ListenersInv, ListenerTypes, FlagInv, TaskOf, Gone, listeners
  <2> QED BY <2>1, WhoMoves, ListenersKept DEF vars
<1>3. ListenersInv => RunningTruthful
  <2> SUFFICES ASSUME ListenersInv PROVE RunningTruthful
    OBVIOUS
  <2>1. \A t \in Tasks : TaskOf(t)
    BY DEF ListenersInv
  <2>2. FlagInv
    BY DEF ListenersInv
  <2> QED BY <2>1, <2>2 DEF RunningTruthful, FlagInv, TaskOf
<1> QED BY <1>1, <1>2, <1>3, PTL DEF Spec

---------------------------------------------------------------------------
(* What cutting a hello does to the messages its records carry.  Bodies is *)
(* a recursive function: it has a solution, and what it gives from a place *)
(* on depends on the bytes from there on only; each is shown by the least  *)
(* place that would be a counterexample.                                   *)

\* A set of numbers that is not empty has a least one.
LEMMA LeastExists ==
    ASSUME NEW S \in SUBSET Nat, S # {}
    PROVE  \E x \in S : \A y \in S : x <= y
<1>1. PICK x \in S : \A y \in S : ~(<<y, x>> \in OpToRel(<, Nat))
  BY NatLessThanWellFounded, WFMin
<1>2. \A y \in S : ~(y < x)
  BY <1>1 DEF OpToRel
<1> QED BY <1>2

\* One step of the definition of Bodies
Unfold(s, i, f) ==
    IF IsWhole(s, i)
    THEN SubSeq(s, i + 5, RecordEnd(s, i)) \o f[RecordEnd(s, i) + 1]
    ELSE <<>>

\* f is a solution of the definition.
Fits(f, s) == \A i \in 1..Len(s) + 1 : f[i] = Unfold(s, i, f)

\* f is what the definition asks for, from position k on.
Solves(f, s, k) ==
    /\ f \in [k..Len(s) + 1 -> Seq(Nat)]
    /\ \A i \in k..Len(s) + 1 : f[i] = Unfold(s, i, f)

\* A whole record ends within the stream, where its length says.
LEMMA WholeIs ==
    ASSUME NEW s \in Seq(Nat), NEW i \in 1..Len(s) + 1
    PROVE  /\ i + 4 <= Len(s) =>
                RecordEnd(s, i) = i + 4 + (s[i + 3] * 256 + s[i + 4])
           /\ IsWhole(s, i) =>
                /\ i + 4 <= Len(s) /\ RecordEnd(s, i) \in i + 4..Len(s)
                /\ SubSeq(s, i + 5, RecordEnd(s, i)) \in Seq(Nat)
<1>0. Len(s) \in Nat /\ i \in Nat /\ i >= 1 /\ DOMAIN s = 1..Len(s)
      /\ \A j \in 1..Len(s) : s[j] \in Nat
  OBVIOUS
<1>1. SUFFICES ASSUME i + 4 <= Len(s)
      PROVE  /\ RecordEnd(s, i) = i + 4 + (s[i + 3] * 256 + s[i + 4])
             /\ IsWhole(s, i) =>
                /\ RecordEnd(s, i) \in i + 4..Len(s)
                /\ SubSeq(s, i + 5, RecordEnd(s, i)) \in Seq(Nat)
  BY DEF IsWhole
<1>2. i + 3 \in DOMAIN s /\ i + 4 \in DOMAIN s /\ i + 3 + 1 = i + 4
  BY <1>0, <1>1
<1> DEFINE n == s[i + 3] * 256 + s[i + 4]
<1>3. n \in Nat
  <2>1. s[i + 3] \in Nat /\ s[i + 4] \in Nat
    BY <1>0, <1>2
  <2> QED BY <2>1
<1>4. U16be(s, i + 3) = n
  BY <1>2 DEF U16be
<1> HIDE DEF n
<1>5. RecordEnd(s, i) = i + 4 + n
  BY <1>4 DEF RecordEnd
<1>6. ASSUME IsWhole(s, i)
      PROVE  /\ RecordEnd(s, i) \in i + 4..Len(s)
             /\ SubSeq(s, i + 5, RecordEnd(s, i)) \in Seq(Nat)
  <2> DEFINE e == RecordEnd(s, i)
  <2>1. e \in i + 4..Len(s)
    BY <1>0, <1>3, <1>5, <1>6 DEF IsWhole
  <2> HIDE DEF e
  <2>2. \A j \in i + 5..e : s[j] \in Nat
    BY <1>0, <2>1
  <2>3. i + 5 \in Int /\ e \in Int
    BY <1>0, <2>1
  <2>4. SubSeq(s, i + 5, e) \in Seq(Nat)
    BY <2>2, <2>3, SubSeqProperties
  <2> QED BY <2>1, <2>4 DEF e
<1> QED BY <1>5, <1>6 DEF n

\* What solves the definition from k + 1 on can be had from k on,
LEMMA OneMore ==
    ASSUME NEW s \in Seq(Nat), NEW k \in 1..Len(s), NEW f, Solves(f, s, k + 1)
    PROVE  \E g : Solves(g, s, k)
<1> DEFINE g == [i \in k..Len(s) + 1 |-> IF i = k THEN Unfold(s, k, f) ELSE f[i]]
<1>0. Len(s) \in Nat
  OBVIOUS
<1>1. Unfold(s, k, f) \in Seq(Nat)
  <2>1. CASE IsWhole(s, k)
    <3>1. f[RecordEnd(s, k) + 1] \in Seq(Nat)
      BY <1>0, <2>1, WholeIs DEF Solves
    <3> QED BY <2>1, <3>1, WholeIs, ConcatProperties DEF Unfold
  <2>2. CASE ~IsWhole(s, k)
    BY <2>2, EmptySeq DEF Unfold
  <2> QED BY <2>1, <2>2
<1>2. \A i \in k + 1..Len(s) + 1 : f[i] \in Seq(Nat)
  BY DEF Solves
<1>3. \A i \in k..Len(s) + 1 : g[i] = IF i = k THEN Unfold(s, k, f) ELSE f[i]
  OBVIOUS
<1>4. g \in [k..Len(s) + 1 -> Seq(Nat)]
  BY <1>0, <1>1, <1>2
<1> HIDE DEF g
<1>5. ASSUME NEW i \in k..Len(s) + 1 PROVE Unfold(s, i, g) = Unfold(s, i, f)
  <2>1. CASE IsWhole(s, i)
    <3>1. RecordEnd(s, i) + 1 \in k + 1..Len(s) + 1
      BY <1>0, <2>1, WholeIs
    <3>2. g[RecordEnd(s, i) + 1] = f[RecordEnd(s, i) + 1]
      BY <1>0, <1>3, <3>1
    <3> QED BY <3>2 DEF Unfold
  <2>2. CASE ~IsWhole(s, i)
    BY <2>2 DEF Unfold
  <2> QED BY <2>1, <2>2
<1>6. ASSUME NEW i \in k..Len(s) + 1 PROVE g[i] = Unfold(s, i, g)
  <2>1. CASE i = k
    BY <1>3, <1>5, <2>1
  <2>2. CASE i # k
    <3>1. i \in k + 1..Len(s) + 1
      BY <1>0, <2>2
    <3> QED BY <1>3, <1>5, <2>2, <3>1 DEF Solves
  <2> QED BY <2>1, <2>2
<1> QED BY <1>4, <1>6 DEF Solves

\* so the definition has a solution: a record is followed by fewer bytes.
LEMMA SolutionExists ==
    ASSUME NEW s \in Seq(Nat)
    PROVE  \E f : Solves(f, s, 1)
<1> DEFINE Has(j) == \E f : Solves(f, s, Len(s) + 1 - j)
           Bad == {j \in 0..Len(s) : ~Has(j)}
<1>0. Len(s) \in Nat
  OBVIOUS
<1>1. SUFFICES ASSUME Bad # {} PROVE FALSE
  <2>1. Has(Len(s))
    BY <1>0
  <2>2. Len(s) + 1 - Len(s) = 1
    BY <1>0
  <2> QED BY <2>1, <2>2
<1>2. PICK j \in Bad : \A i \in Bad : j <= i
  <2>1. Bad \in SUBSET Nat
    OBVIOUS
  <2> HIDE DEF Bad
  <2> QED BY <1>1, <2>1, LeastExists
<1>3. j \in 0..Len(s) /\ ~Has(j) /\ \A i \in 0..Len(s) : i < j => Has(i)
  <2> HIDE DEF Has
  <2> QED BY <1>0, <1>2
<1>4. CASE j = 0
  <2> DEFINE f == [i \in Len(s) + 1..Len(s) + 1 |-> <<>>]
  <2>1. f \in [Len(s) + 1..Len(s) + 1 -> Seq(Nat)]
    BY EmptySeq
  <2>2. \A i \in Len(s) + 1..Len(s) + 1 : f[i] = Unfold(s, i, f)
    BY <1>0 DEF Unfold, IsWhole
  <2>3. Solves(f, s, Len(s) + 1)
    BY <2>1, <2>2 DEF Solves
  <2> HIDE DEF f
  <2>4. Len(s) + 1 - j = Len(s) + 1
    BY <1>0, <1>4
  <2> QED BY <1>3, <2>3, <2>4
<1>5. CASE j # 0
  <2> DEFINE k == Len(s) + 1 - j
  <2>1. k \in 1..Len(s) /\ Len(s) + 1 - (j - 1) = k + 1 /\ j - 1 \in 0..Len(s) /\ j - 1 < j
    BY <1>0, <1>3, <1>5
  <2>2. \E f : Solves(f, s, k + 1)
    BY <1>3, <2>1
  <2>3. \E f : Solves(f, s, k)
    <3> HIDE DEF k
    <3> QED BY <2>1, <2>2, OneMore
  <2> QED BY <1>3, <2>3
<1> QED BY <1>4, <1>5

\* Two streams go on alike from i and from k.
Alike(s, i, t, k) ==
    /\ Len(s) - i = Len(t) - k
    /\ \A x \in 0..Len(s) - i : s[i + x] = t[k + x]

\* A place of one is a place of the other,
LEMMA AlikeAt ==
    ASSUME NEW s \in Seq(Nat), NEW t \in Seq(Nat),
           NEW i \in 1..Len(s) + 1, NEW k \in 1..Len(t) + 1, Alike(s, i, t, k),
           NEW x \in 0..Len(s) - i
    PROVE  i + x \in 1..Len(s) /\ k + x \in 1..Len(t) /\ s[i + x] = t[k + x]
<1>0. Len(s) \in Nat /\ Len(t) \in Nat
  BY LenProperties
<1>1. Len(s) - i = Len(t) - k
  BY DEF Alike
<1>2. s[i + x] = t[k + x]
  BY DEF Alike
<1> QED BY <1>0, <1>1, <1>2

\* being alike goes both ways, and goes on.
LEMMA AlikeOn ==
    ASSUME NEW s \in Seq(Nat), NEW t \in Seq(Nat),
           NEW i \in 1..Len(s) + 1, NEW k \in 1..Len(t) + 1, Alike(s, i, t, k)
    PROVE  /\ Alike(t, k, s, i)
           /\ \A d \in 0..Len(s) + 1 - i : Alike(s, i + d, t, k + d)
<1>0. Len(s) \in Nat /\ Len(t) \in Nat
  BY LenProperties
<1>1. Len(s) - i = Len(t) - k
  BY DEF Alike
<1>2. \A x \in 0..Len(s) - i : s[i + x] = t[k + x]
  BY DEF Alike
<1>3. Alike(t, k, s, i)
  BY <1>1, <1>2 DEF Alike
<1>4. ASSUME NEW d \in 0..Len(s) + 1 - i PROVE Alike(s, i + d, t, k + d)
  <2>1. Len(s) - (i + d) = Len(t) - (k + d)
    BY <1>0, <1>1
  <2>2. ASSUME NEW x \in 0..Len(s) - (i + d) PROVE s[i + d + x] = t[k + d + x]
    <3>1. d + x \in 0..Len(s) - i /\ i + (d + x) = i + d + x /\ k + (d + x) = k + d + x
      BY <1>0
    <3>2. s[i + (d + x)] = t[k + (d + x)]
      BY <1>2, <3>1
    <3> QED BY <3>1, <3>2
  <2> QED BY <2>1, <2>2 DEF Alike
<1> QED BY <1>3, <1>4

\* The two bytes of a length
LEMMA TwoBytes == ASSUME NEW a \in Nat, NEW b \in Nat PROVE a * 256 + b \in Nat
OBVIOUS

\* There is a whole record at k in t, and it is the one at i in s.
SameThere(s, i, t, k) ==
    /\ IsWhole(t, k)
    /\ RecordEnd(t, k) - k = RecordEnd(s, i) - i
    /\ SubSeq(s, i + 5, RecordEnd(s, i)) = SubSeq(t, k + 5, RecordEnd(t, k))

\* Streams that go on alike have the same record there.
LEMMA SameRecord ==
    ASSUME NEW s \in Seq(Nat), NEW t \in Seq(Nat),
           NEW i \in 1..Len(s) + 1, NEW k \in 1..Len(t) + 1, Alike(s, i, t, k),
           IsWhole(s, i)
    PROVE  SameThere(s, i, t, k)
<1>0. Len(s) \in Nat /\ Len(t) \in Nat /\ i \in Nat /\ k \in Nat /\ Len(s) - i = Len(t) - k
  BY LenProperties DEF Alike
<1>1. i + 4 <= Len(s) /\ RecordEnd(s, i) \in i + 4..Len(s)
  BY WholeIs
<1>2. k + 4 <= Len(t)
  BY <1>0, <1>1
<1>3. s[i + 3] = t[k + 3] /\ s[i + 4] = t[k + 4]
  <2>1. 3 \in 0..Len(s) - i /\ 4 \in 0..Len(s) - i
    BY <1>0, <1>1
  <2> QED BY <2>1, AlikeAt
<1> DEFINE n == s[i + 3] * 256 + s[i + 4]
<1>4. n \in Nat
  <2>1. i + 3 \in 1..Len(s) /\ i + 4 \in 1..Len(s)
    BY <1>0, <1>1
  <2>2. s[i + 3] \in Nat /\ s[i + 4] \in Nat
    BY <2>1, ElementOfSeq
  <2> QED BY <2>2, TwoBytes
<1>5. RecordEnd(s, i) = i + 4 + n
  BY <1>1, WholeIs
<1>6. RecordEnd(t, k) = k + 4 + n
  BY <1>2, <1>3, WholeIs
<1> HIDE DEF n
<1>7. i + 4 + n <= Len(s) /\ k + 4 + n <= Len(t)
  BY <1>0, <1>1, <1>4, <1>5
<1>8. IsWhole(t, k)
  BY <1>2, <1>6, <1>7 DEF IsWhole
<1>9. SubSeq(s, i + 5, i + 4 + n) = SubSeq(t, k + 5, k + 4 + n)
  <2>1. /\ i + 5 \in Int /\ i + 4 + n \in Int /\ k + 5 \in Int /\ k + 4 + n \in Int
        /\ (i + 4 + n) - (i + 5) + 1 = n /\ (k + 4 + n) - (k + 5) + 1 = n
        /\ i + 5 <= i + 4 + n + 1 /\ k + 5 <= k + 4 + n + 1
    BY <1>0, <1>4
  <2>2. \A j \in i + 5..i + 4 + n : s[j] \in Nat
    <3>1. TAKE j \in i + 5..i + 4 + n
    <3>2. j \in 1..Len(s)
      BY <1>0, <1>4, <1>7
    <3> QED BY <3>2, ElementOfSeq
  <2>3. \A j \in k + 5..k + 4 + n : t[j] \in Nat
    <3>1. TAKE j \in k + 5..k + 4 + n
    <3>2. j \in 1..Len(t)
      BY <1>0, <1>4, <1>7
    <3> QED BY <3>2, ElementOfSeq
  <2> DEFINE S == SubSeq(s, i + 5, i + 4 + n)
             T == SubSeq(t, k + 5, k + 4 + n)
  <2>4. /\ S \in Seq(Nat) /\ Len(S) = n
        /\ \A j \in 1..n : S[j] = s[i + 5 + j - 1]
    BY <1>4, <2>1, <2>2, SubSeqProperties
  <2>5. /\ T \in Seq(Nat) /\ Len(T) = n
        /\ \A j \in 1..n : T[j] = t[k + 5 + j - 1]
    BY <1>4, <2>1, <2>3, SubSeqProperties
  <2> HIDE DEF S, T
  <2>6. ASSUME NEW j \in 1..n PROVE S[j] = T[j]
    <3>1. /\ 4 + j \in 0..Len(s) - i /\ i + 5 + j - 1 = i + (4 + j)
          /\ k + 5 + j - 1 = k + (4 + j)
      BY <1>0, <1>4, <1>7
    <3>2. s[i + (4 + j)] = t[k + (4 + j)]
      BY <3>1, AlikeAt
    <3> QED BY <2>4, <2>5, <3>1, <3>2
  <2>7. S = T
    BY <2>4, <2>5, <2>6, SeqEqual
  <2> QED BY <2>7 DEF S, T
<1>10. RecordEnd(t, k) - k = RecordEnd(s, i) - i
  BY <1>0, <1>4, <1>5, <1>6
<1> QED BY <1>5, <1>6, <1>8, <1>9, <1>10 DEF SameThere

\* f after i is g after k, for m places.
Agree(f, i, g, k, m) == \A e \in 1..m : f[i + e] = g[k + e]

\* One step of the definition gives the same for both if the rest does,
LEMMA SameStep ==
    ASSUME NEW s \in Seq(Nat), NEW t \in Seq(Nat), NEW f, NEW g,
           NEW i \in 1..Len(s) + 1, NEW k \in 1..Len(t) + 1, Alike(s, i, t, k),
           Agree(f, i, g, k, Len(s) + 1 - i)
    PROVE  Unfold(s, i, f) = Unfold(t, k, g)
<1>0. Len(s) \in Nat /\ Len(t) \in Nat /\ i \in Nat /\ k \in Nat
  BY LenProperties
<1>1. CASE IsWhole(s, i)
  <2>1. /\ IsWhole(t, k) /\ RecordEnd(t, k) - k = RecordEnd(s, i) - i
        /\ SubSeq(s, i + 5, RecordEnd(s, i)) = SubSeq(t, k + 5, RecordEnd(t, k))
    <3>1. SameThere(s, i, t, k)
      BY <1>1, SameRecord
    <3> QED BY <3>1 DEF SameThere
  <2> DEFINE p == RecordEnd(s, i)
             q == RecordEnd(t, k)
             e == p + 1 - i
  <2>2. p \in Int /\ q \in Int /\ i + 4 <= p /\ p <= Len(s)
    <3>1. p \in i + 4..Len(s)
      BY <1>1, WholeIs
    <3>2. q \in k + 4..Len(t)
      BY <2>1, WholeIs
    <3> QED BY <1>0, <3>1, <3>2
  <2>3. q - k = p - i
    BY <2>1
  <2> HIDE DEF p, q
  <2>4. e \in 1..Len(s) + 1 - i /\ i + e = p + 1 /\ k + e = q + 1
    BY <1>0, <2>2, <2>3
  <2>5. f[p + 1] = g[q + 1]
    <3>1. f[i + e] = g[k + e]
      <4> HIDE DEF e
      <4> QED BY <2>4 DEF Agree
    <3> HIDE DEF e
    <3> QED BY <2>4, <3>1
  <2> QED BY <1>1, <2>1, <2>5 DEF Unfold, p, q
<1>2. CASE ~IsWhole(s, i)
  <2>1. Alike(t, k, s, i)
    BY AlikeOn
  <2>2. ~IsWhole(t, k)
    BY <1>2, <2>1, SameRecord DEF SameThere
  <2> QED BY <1>2, <2>2 DEF Unfold
<1> QED BY <1>1, <1>2

\* so the definition gives the same for the rest of both.
LEMMA SameRest ==
    ASSUME NEW s \in Seq(Nat), NEW t \in Seq(Nat), NEW f, NEW g,
           Fits(f, s), Fits(g, t),
           NEW a \in 1..Len(s) + 1, NEW b \in 1..Len(t) + 1, Alike(s, a, t, b)
    PROVE  f[a] = g[b]
<1> DEFINE Same(d) == f[a + d] = g[b + d]
           m == Len(s) + 1 - a
           Bad == {j \in 0..m : ~Same(m - j)}
<1>0. /\ Len(s) \in Nat /\ Len(t) \in Nat /\ a \in Nat /\ b \in Nat
      /\ Len(s) - a = Len(t) - b /\ m \in Nat
  BY LenProperties DEF Alike
<1>1. SUFFICES ASSUME Bad # {} PROVE FALSE
  <2>1. m \in 0..m /\ m - m = 0
    BY <1>0
  <2>2. Same(0)
    BY <2>1
  <2>3. a + 0 = a /\ b + 0 = b
    BY <1>0
  <2> QED BY <2>2, <2>3
<1>2. PICK j \in Bad : \A i \in Bad : j <= i
  <2>1. Bad \in SUBSET Nat
    BY <1>0
  <2> HIDE DEF Bad
  <2> QED BY <1>1, <2>1, LeastExists
<1>3. j \in 0..m /\ ~Same(m - j) /\ \A i \in 0..m : i < j => Same(m - i)
  <2> HIDE DEF Same, m
  <2> QED BY <1>0, <1>2
<1> DEFINE d == m - j
           i == a + d
           k == b + d
<1>4. d \in 0..m /\ i \in 1..Len(s) + 1 /\ k \in 1..Len(t) + 1
  BY <1>0, <1>3
<1>5. f[i] # g[k]
  BY <1>3
<1>6. ASSUME NEW e \in 1..m - d PROVE f[i + e] = g[k + e]
  <2>1. j - e \in 0..m /\ j - e < j /\ m - (j - e) = d + e
    BY <1>0, <1>3
  <2>2. Same(d + e)
    <3> HIDE DEF Same, d, m
    <3> QED BY <1>3, <2>1
  <2>3. a + (d + e) = i + e /\ b + (d + e) = k + e
    BY <1>0, <1>4
  <2> QED BY <2>2, <2>3
<1>7. Alike(s, i, t, k)
  <2>1. d \in 0..Len(s) + 1 - a
    BY <1>4
  <2> HIDE DEF d
  <2> QED BY <2>1, AlikeOn
<1>8. f[i] = Unfold(s, i, f) /\ g[k] = Unfold(t, k, g)
  BY <1>4 DEF Fits
<1>9. i + (m - d) = Len(s) + 1
  BY <1>0, <1>4
<1>10. m - d = Len(s) + 1 - i
  BY <1>0, <1>4, <1>9
<1> HIDE DEF d, i, k, m, Same, Bad
<1>11. Unfold(s, i, f) = Unfold(t, k, g)
  <2>1. Agree(f, i, g, k, Len(s) + 1 - i)
    BY <1>6, <1>10 DEF Agree
  <2> QED BY <1>4, <1>7, <2>1, SameStep
<1> QED BY <1>5, <1>8, <1>11

\* What Bodies is: the one function the definition asks for, at the start.
LEMMA BodiesAre ==
    ASSUME NEW s \in Seq(Nat)
    PROVE  \E f : Solves(f, s, 1) /\ Bodies(s) = f[1]
<1> DEFINE Is(f) == f = [i \in 1..Len(s) + 1 |-> Unfold(s, i, f)]
           from == CHOOSE f : Is(f)
<1>0. Len(s) \in Nat /\ 1 \in 1..Len(s) + 1
  OBVIOUS
<1>1. Bodies(s) = from[1]
  BY DEF Bodies, Unfold
<1>2. PICK g : Solves(g, s, 1)
  BY SolutionExists
<1>3. Is(g)
  BY <1>2 DEF Solves
<1>4. Is(from)
  <2> HIDE DEF Is
  <2> QED BY <1>3
<1>5. Fits(from, s) /\ Fits(g, s)
  <2> HIDE DEF from
  <2> QED BY <1>3, <1>4 DEF Fits
<1>6. from[1] = g[1]
  <2>1. Alike(s, 1, s, 1)
    BY DEF Alike
  <2> HIDE DEF from
  <2> QED BY <1>0, <1>5, <2>1, SameRest
<1> QED BY <1>1, <1>2, <1>6

\* A record that is whole, whatever follows it
Framed(h) == Len(h) >= 5 /\ Len(h) = 5 + (h[4] * 256 + h[5])

\* The first record, if it is whole, ends where the first five bytes say.
LEMMA FirstRecord ==
    ASSUME NEW w \in Seq(Nat), NEW n \in Nat, 5 + n <= Len(w), n = w[4] * 256 + w[5]
    PROVE  IsWhole(w, 1) /\ RecordEnd(w, 1) = 5 + n
<1>0. Len(w) \in Nat
  BY LenProperties
<1>1. 1 \in 1..Len(w) + 1 /\ 1 + 4 <= Len(w) /\ 1 + 3 = 4 /\ 1 + 4 = 5 /\ 1 + 4 + n = 5 + n
  BY <1>0
<1>2. RecordEnd(w, 1) = 1 + 4 + (w[1 + 3] * 256 + w[1 + 4])
  BY <1>1, WholeIs
<1>3. RecordEnd(w, 1) = 5 + n
  BY <1>1, <1>2
<1> QED BY <1>1, <1>3 DEF IsWhole

\* A whole record h in front of u is the first record, and u follows it.
InFront(h, u) ==
    LET w == h \o u IN
        /\ w \in Seq(Nat) /\ Len(w) = Len(h) + Len(u)
        /\ IsWhole(w, 1) /\ RecordEnd(w, 1) = Len(h)
        /\ SubSeq(w, 6, Len(h)) = SubSeq(h, 6, Len(h))
        /\ Alike(w, Len(h) + 1, u, 1)

\* So it is whatever follows.
LEMMA WholeInFront ==
    ASSUME NEW h \in Seq(Nat), Framed(h), NEW u \in Seq(Nat)
    PROVE  InFront(h, u)
<1> DEFINE w == h \o u
           n == h[4] * 256 + h[5]
<1>0. /\ w \in Seq(Nat) /\ Len(w) = Len(h) + Len(u)
      /\ \A i \in 1..Len(h) + Len(u) : w[i] = IF i <= Len(h) THEN h[i] ELSE u[i - Len(h)]
  BY ConcatProperties
<1>1. Len(h) \in Nat /\ Len(u) \in Nat /\ Len(w) \in Nat
  BY <1>0, LenProperties
<1>2. Len(h) = 5 + n /\ n \in Nat
  <2>1. Len(h) >= 5 /\ Len(h) = 5 + n
    BY DEF Framed
  <2>2. 4 \in 1..Len(h) /\ 5 \in 1..Len(h)
    BY <1>1, <2>1
  <2>3. h[4] \in Nat /\ h[5] \in Nat
    BY <2>2, ElementOfSeq
  <2> QED BY <2>1, <2>3, TwoBytes
<1>3. n = w[4] * 256 + w[5]
  <2>1. /\ 4 \in 1..Len(h) + Len(u) /\ 4 <= Len(h)
        /\ 5 \in 1..Len(h) + Len(u) /\ 5 <= Len(h)
    <3> HIDE DEF n
    <3> QED BY <1>1, <1>2
  <2> HIDE DEF w
  <2>2. w[4] = h[4] /\ w[5] = h[5]
    BY <1>0, <2>1
  <2> QED BY <2>2
<1> HIDE DEF w, n
<1>4. IsWhole(w, 1) /\ RecordEnd(w, 1) = Len(h)
  <2>1. 5 + n <= Len(w)
    BY <1>0, <1>1, <1>2
  <2>2. IsWhole(w, 1) /\ RecordEnd(w, 1) = 5 + n
    BY <1>0, <1>2, <1>3, <2>1, FirstRecord
  <2> QED BY <1>2, <2>2
<1>5. Alike(w, Len(h) + 1, u, 1)
  <2>1. Len(w) - (Len(h) + 1) = Len(u) - 1
    BY <1>0, <1>1
  <2>2. ASSUME NEW x \in 0..Len(w) - (Len(h) + 1)
        PROVE  w[Len(h) + 1 + x] = u[1 + x]
    <3>1. /\ Len(h) + 1 + x \in 1..Len(h) + Len(u) /\ ~(Len(h) + 1 + x <= Len(h))
          /\ Len(h) + 1 + x - Len(h) = 1 + x
      BY <1>0, <1>1
    <3>2. w[Len(h) + 1 + x] = u[Len(h) + 1 + x - Len(h)]
      BY <1>0, <3>1
    <3> QED BY <3>1, <3>2
  <2> QED BY <2>1, <2>2 DEF Alike
<1>6. SubSeq(w, 6, Len(h)) = SubSeq(h, 6, Len(h))
  <2>1. CASE n = 0
    BY <1>2, <2>1, SubSeqEmpty
  <2>2. CASE n > 0
    <3>1. 6 \in 1..Len(h) /\ Len(h) \in 1..Len(h)
      BY <1>2, <2>2
    <3> QED BY <3>1, SubSeqOfConcat1 DEF w
  <2> QED BY <1>2, <2>1, <2>2
<1> QED BY <1>0, <1>4, <1>5, <1>6 DEF InFront, w

\* What follows a whole record h gives what it gives by itself.
LEMMA BodiesFirst ==
    ASSUME NEW h \in Seq(Nat), Framed(h), NEW u \in Seq(Nat)
    PROVE  /\ Bodies(h \o u) = SubSeq(h, 6, Len(h)) \o Bodies(u)
           /\ Bodies(u) \in Seq(Nat)
<1> DEFINE w == h \o u
<1>1. InFront(h, u)
  BY WholeInFront
<1>2. /\ w \in Seq(Nat) /\ Len(w) = Len(h) + Len(u)
      /\ IsWhole(w, 1) /\ RecordEnd(w, 1) = Len(h)
      /\ SubSeq(w, 6, Len(h)) = SubSeq(h, 6, Len(h))
      /\ Alike(w, Len(h) + 1, u, 1)
  BY <1>1 DEF InFront
<1> HIDE DEF w
<1>3. PICK f : Solves(f, w, 1) /\ Bodies(w) = f[1]
  BY <1>2, BodiesAre
<1>4. PICK g : Solves(g, u, 1) /\ Bodies(u) = g[1]
  BY BodiesAre
<1>5. /\ Len(w) \in Nat /\ 1 \in 1..Len(w) + 1 /\ 1 \in 1..Len(u) + 1
      /\ Len(h) + 1 \in 1..Len(w) + 1 /\ 1 + 5 = 6
  BY <1>2, LenProperties
<1>6. f[1] = SubSeq(h, 6, Len(h)) \o f[Len(h) + 1]
  <2>1. f[1] = Unfold(w, 1, f)
    BY <1>3, <1>5 DEF Solves
  <2>2. f[1] = SubSeq(w, 6, Len(h)) \o f[Len(h) + 1]
    BY <1>2, <1>5, <2>1 DEF Unfold
  <2> QED BY <1>2, <2>2
<1>7. f[Len(h) + 1] = g[1]
  <2>1. Fits(f, w) /\ Fits(g, u)
    BY <1>3, <1>4 DEF Solves, Fits
  <2>2. /\ w \in Seq(Nat) /\ Len(h) + 1 \in 1..Len(w) + 1 /\ 1 \in 1..Len(u) + 1
        /\ Alike(w, Len(h) + 1, u, 1)
    BY <1>2, <1>5
  <2> QED BY <2>1, <2>2, SameRest
<1>8. Bodies(u) \in Seq(Nat)
  BY <1>4, <1>5 DEF Solves
<1> QED BY <1>3, <1>4, <1>6, <1>7, <1>8 DEF w

\* One sequence of bytes behind another
LEMMA Joined ==
    ASSUME NEW s \in Seq(Nat), NEW t \in Seq(Nat)
    PROVE  /\ s \o t \in Seq(Nat)
           /\ Len(s \o t) = Len(s) + Len(t)
           /\ \A i \in 1..Len(s) + Len(t) :
                (s \o t)[i] = IF i <= Len(s) THEN s[i] ELSE t[i - Len(s)]
BY ConcatProperties

\* A piece of a sequence of bytes
LEMMA Piece ==
    ASSUME NEW s \in Seq(Nat), NEW m \in 1..Len(s) + 1, NEW n \in m - 1..Len(s)
    PROVE  /\ SubSeq(s, m, n) \in Seq(Nat) /\ Len(SubSeq(s, m, n)) = n + 1 - m
           /\ \A j \in 1..n + 1 - m : SubSeq(s, m, n)[j] = s[m + j - 1]
<1>0. Len(s) \in Nat
  BY LenProperties
<1>1. \A j \in m..n : s[j] \in Nat
  <2>1. TAKE j \in m..n
  <2>2. j \in 1..Len(s)
    BY <1>0
  <2> QED BY <2>2, ElementOfSeq
<1>2. m \in Int /\ n \in Int /\ m <= n + 1 /\ n - m + 1 = n + 1 - m
  BY <1>0
<1>3. /\ SubSeq(s, m, n) \in Seq(Nat)
      /\ Len(SubSeq(s, m, n)) = IF m <= n THEN n - m + 1 ELSE 0
      /\ \A j \in 1..n - m + 1 : SubSeq(s, m, n)[j] = s[m + j - 1]
  BY <1>1, <1>2, SubSeqProperties
<1>4. (IF m <= n THEN n - m + 1 ELSE 0) = n + 1 - m
  BY <1>2
<1> QED BY <1>2, <1>3, <1>4

\* Cut anywhere, a sequence of bytes is its two pieces one behind the other.
LEMMA FirstAndRest ==
    ASSUME NEW s \in Seq(Nat), NEW n \in 0..Len(s)
    PROVE  /\ SubSeq(s, 1, n) \in Seq(Nat) /\ SubSeq(s, n + 1, Len(s)) \in Seq(Nat)
           /\ SubSeq(s, 1, n) \o SubSeq(s, n + 1, Len(s)) = s
<1>0. Len(s) \in Nat /\ n \in Nat
  BY LenProperties
<1>1. /\ 1 \in 1..Len(s) + 1 /\ n \in 1 - 1..Len(s) /\ n + 1 \in 1..Len(s) + 1
      /\ Len(s) \in n + 1 - 1..Len(s) /\ Len(s) \in n..Len(s)
  BY <1>0
<1>2. SubSeq(s, 1, n) \in Seq(Nat)
  BY <1>1, Piece
<1>3. SubSeq(s, n + 1, Len(s)) \in Seq(Nat)
  BY <1>1, Piece
<1>4. SubSeq(s, 1, n) \o SubSeq(s, n + 1, Len(s)) = SubSeq(s, 1, Len(s))
  BY <1>1, ConcatAdjacentSubSeq
<1>5. SubSeq(s, 1, Len(s)) = s
  BY SubSeqFull
<1> QED BY <1>2, <1>3, <1>4, <1>5

\* A record Record makes is whole, and its body is the part it was given.
LEMMA RecordIs ==
    ASSUME NEW v \in Seq(Nat), Len(v) = 2, NEW part \in Seq(Nat)
    PROVE  /\ Record(v, part) \in Seq(Nat) /\ Framed(Record(v, part))
           /\ SubSeq(Record(v, part), 6, Len(Record(v, part))) = part
<1> DEFINE n == Len(part)
           len == <<n \div 256, n % 256>>
           ver == <<CONTENT_HANDSHAKE>> \o v
           h == ver \o len
           r == Record(v, part)
<1>1. n \in Nat /\ n \div 256 \in Nat /\ n % 256 \in Nat
      /\ n = (n \div 256) * 256 + (n % 256)
  <2>1. n \in Nat
    BY LenProperties
  <2> HIDE DEF n
  <2> QED BY <2>1
<1>2. /\ len \in Seq(Nat) /\ Len(len) = 2 /\ len[1] = n \div 256 /\ len[2] = n % 256
  <2> HIDE DEF n
  <2> QED BY <1>1
<1>3. ver \in Seq(Nat) /\ Len(ver) = 3
  <2> DEFINE ct == <<CONTENT_HANDSHAKE>>
  <2>1. ct \in Seq(Nat) /\ Len(ct) = 1
    BY DEF CONTENT_HANDSHAKE
  <2> HIDE DEF ct
  <2>2. ct \o v \in Seq(Nat) /\ Len(ct \o v) = Len(ct) + Len(v)
    BY <2>1, Joined
  <2>3. ct \o v \in Seq(Nat) /\ Len(ct \o v) = 3
    BY <2>1, <2>2
  <2> QED BY <2>3 DEF ct
<1> HIDE DEF len, ver
<1>4. /\ h \in Seq(Nat) /\ Len(h) = 5 /\ h[4] = n \div 256 /\ h[5] = n % 256
  <2>1. h \in Seq(Nat) /\ Len(h) = Len(ver) + Len(len)
        /\ \A i \in 1..Len(ver) + Len(len) : h[i] = IF i <= Len(ver) THEN ver[i] ELSE len[i - Len(ver)]
    BY <1>2, <1>3, Joined
  <2> HIDE DEF n, h
  <2> QED BY <1>2, <1>3, <2>1
<1>5. r = h \o part
  BY DEF Record, h, ver, len
<1> HIDE DEF h, r
<1>6. /\ r \in Seq(Nat) /\ Len(r) = 5 + n
      /\ \A i \in 1..5 + n : r[i] = IF i <= 5 THEN h[i] ELSE part[i - 5]
  <2>1. /\ r \in Seq(Nat) /\ Len(r) = Len(h) + Len(part)
        /\ \A i \in 1..Len(h) + Len(part) : r[i] = IF i <= Len(h) THEN h[i] ELSE part[i - Len(h)]
    BY <1>4, <1>5, Joined
  <2> QED BY <1>4, <2>1
<1> HIDE DEF n
<1>7. Framed(r)
  <2>1. r[4] = h[4] /\ r[5] = h[5]
    BY <1>1, <1>6
  <2>2. r[4] * 256 + r[5] = n
    BY <1>1, <1>4, <2>1
  <2> QED BY <1>1, <1>6, <2>2 DEF Framed
<1>8. SubSeq(r, 6, 5 + n) = part
  <2> DEFINE S == SubSeq(r, 6, 5 + n)
  <2>1. 6 \in 1..Len(r) + 1 /\ 5 + n \in 6 - 1..Len(r) /\ (5 + n) + 1 - 6 = n
    <3>1. n \in Nat /\ Len(r) = 5 + n
      BY <1>1, <1>6
    <3> QED BY <3>1
  <2>2. /\ S \in Seq(Nat) /\ Len(S) = (5 + n) + 1 - 6
        /\ \A j \in 1..(5 + n) + 1 - 6 : S[j] = r[6 + j - 1]
    BY <1>6, <2>1, Piece
  <2>3. S \in Seq(Nat) /\ Len(S) = n /\ \A j \in 1..n : S[j] = r[6 + j - 1]
    BY <2>1, <2>2
  <2> HIDE DEF S
  <2>4. ASSUME NEW j \in 1..n PROVE S[j] = part[j]
    <3>1. 6 + j - 1 \in 1..5 + n /\ ~(6 + j - 1 <= 5) /\ 6 + j - 1 - 5 = j
      BY <1>1
    <3>2. r[6 + j - 1] = part[6 + j - 1 - 5]
      BY <1>6, <3>1
    <3> QED BY <2>3, <3>1, <3>2
  <2>5. S = part
    BY <2>3, <2>4, SeqEqual DEF n
  <2> QED BY <2>5 DEF S
<1> QED BY <1>6, <1>7, <1>8 DEF r

\* Three sequences joined
Associates(s, t, u) == (s \o t) \o u = s \o (t \o u)

\* Joining is associative.
LEMMA JoinedTwice ==
    ASSUME NEW s \in Seq(Nat), NEW t \in Seq(Nat), NEW u \in Seq(Nat)
    PROVE  Associates(s, t, u)
BY ConcatAssociative DEF Associates

\* Two records give what they hold, and then what follows.
GiveBoth(R, T, p, q, u) == Bodies((R \o T) \o u) = (p \o q) \o Bodies(u)

\* Two whole records and what follows them
LEMMA BodiesOfTwo ==
    ASSUME NEW R \in Seq(Nat), Framed(R), NEW T \in Seq(Nat), Framed(T),
           NEW p \in Seq(Nat), SubSeq(R, 6, Len(R)) = p,
           NEW q \in Seq(Nat), SubSeq(T, 6, Len(T)) = q, NEW u \in Seq(Nat)
    PROVE  GiveBoth(R, T, p, q, u)
<1> DEFINE w == T \o u
           b == Bodies(u)
<1>1. w \in Seq(Nat)
  BY Joined
<1>2. b \in Seq(Nat)
  BY BodiesFirst
<1>3. Bodies(w) = q \o b
  BY BodiesFirst
<1>4. (R \o T) \o u = R \o w
  <2>1. Associates(R, T, u)
    BY JoinedTwice
  <2> QED BY <2>1 DEF Associates
<1> HIDE DEF w
<1>5. Bodies(R \o w) = SubSeq(R, 6, Len(R)) \o Bodies(w)
  BY <1>1, BodiesFirst
<1> HIDE DEF b
<1>6. p \o (q \o b) = (p \o q) \o b
  <2>1. Associates(p, q, b)
    BY <1>2, JoinedTwice
  <2> QED BY <2>1 DEF Associates
<1>7. Bodies((R \o T) \o u) = (p \o q) \o b
  BY <1>3, <1>4, <1>5, <1>6
<1> QED BY <1>7 DEF b, GiveBoth

\* A hello s leaves as the records R and T, which hold its two pieces.
CutInTwo(s, R, T) ==
    LET payload == SubSeq(s, 6, Len(s))
        cut == CutOf(payload)
        p == SubSeq(payload, 1, cut)
        q == SubSeq(payload, cut + 1, Len(payload))
    IN  /\ FragmentClientHello(s) = R \o T
        /\ R \in Seq(Nat) /\ Framed(R) /\ SubSeq(R, 6, Len(R)) = p
        /\ T \in Seq(Nat) /\ Framed(T) /\ SubSeq(T, 6, Len(T)) = q
        /\ p \in Seq(Nat) /\ q \in Seq(Nat) /\ p \o q = payload

\* A whole record of two bytes or more does.
LEMMA FragmentIs ==
    ASSUME NEW s \in Seq(Nat), IsOneRecord(s), Len(SubSeq(s, 6, Len(s))) >= 2
    PROVE  (\E R, T : CutInTwo(s, R, T)) /\ Framed(s)
<1> DEFINE payload == SubSeq(s, 6, Len(s))
           L == Len(payload)
           cut == CutOf(payload)
           v == SubSeq(s, 2, 3)
           p == SubSeq(payload, 1, cut)
           q == SubSeq(payload, cut + 1, L)
<1>0. Len(s) \in Nat /\ Len(s) > 5
  BY LenProperties DEF IsOneRecord, TLS_HEADER
<1>1. Framed(s)
  <2>1. 4 \in DOMAIN s /\ 4 + 1 \in DOMAIN s /\ 4 + 1 = 5
    BY <1>0
  <2>2. U16be(s, 4) = s[4] * 256 + s[5]
    BY <2>1 DEF U16be
  <2> QED BY <1>0, <2>2 DEF IsOneRecord, TLS_HEADER, Framed
<1>2. payload \in Seq(Nat) /\ L \in Nat
  <2>1. 6 \in 1..Len(s) + 1 /\ Len(s) \in 6 - 1..Len(s)
    BY <1>0
  <2>2. payload \in Seq(Nat)
    BY <2>1, Piece
  <2> QED BY <2>2, LenProperties
<1>3. v \in Seq(Nat) /\ Len(v) = 2
  <2>1. 2 \in 1..Len(s) + 1 /\ 3 \in 2 - 1..Len(s) /\ 3 + 1 - 2 = 2
    BY <1>0
  <2>2. v \in Seq(Nat) /\ Len(v) = 3 + 1 - 2
    BY <2>1, Piece
  <2> QED BY <2>1, <2>2
<1>4. L >= 2
  OBVIOUS
<1> HIDE DEF payload
<1>5. cut \in 0..L
  <2> DEFINE c == SniSplitOffset(payload)
  <2>1. cut = IF c \in 1..L - 1 THEN c ELSE L \div 2
    BY DEF CutOf
  <2> HIDE DEF c, L, cut
  <2> QED BY <1>2, <2>1
<1> HIDE DEF cut
<1>6. p \in Seq(Nat) /\ q \in Seq(Nat) /\ p \o q = payload
  BY <1>2, <1>5, FirstAndRest
<1> DEFINE R == Record(v, p)
           T == Record(v, q)
<1>7. /\ R \in Seq(Nat) /\ Framed(R) /\ SubSeq(R, 6, Len(R)) = p
      /\ T \in Seq(Nat) /\ Framed(T) /\ SubSeq(T, 6, Len(T)) = q
  <2> HIDE DEF v, p, q
  <2> QED BY <1>3, <1>6, RecordIs
<1>8. FragmentClientHello(s) = R \o T
  <2>1. FragmentClientHello(s) = IF ~IsOneRecord(s) \/ L < 2 THEN s ELSE R \o T
    BY DEF FragmentClientHello, payload, cut
  <2> HIDE DEF L, R, T
  <2> QED BY <1>2, <1>4, <2>1
<1> HIDE DEF R, T
<1>9. CutInTwo(s, R, T)
  BY <1>6, <1>7, <1>8 DEF CutInTwo, payload, cut
<1> QED BY <1>1, <1>9

\* However a hello is cut, what follows its two records and what they hold is
\* what the one held.
LEMMA FragmentKeeps ==
    ASSUME NEW s \in Seq(Nat), NEW u \in Seq(Nat)
    PROVE  Bodies(FragmentClientHello(s) \o u) = Bodies(s \o u)
<1> DEFINE payload == SubSeq(s, 6, Len(s))
           L == Len(payload)
           p == SubSeq(payload, 1, CutOf(payload))
           q == SubSeq(payload, CutOf(payload) + 1, L)
<1>1. CASE ~IsOneRecord(s) \/ L < 2
  BY <1>1 DEF FragmentClientHello
<1>2. CASE IsOneRecord(s) /\ L >= 2
  <2>1. Framed(s)
    BY <1>2, FragmentIs
  <2>2. PICK R, T : CutInTwo(s, R, T)
    BY <1>2, FragmentIs
  <2>3. /\ FragmentClientHello(s) = R \o T
        /\ R \in Seq(Nat) /\ Framed(R) /\ SubSeq(R, 6, Len(R)) = p
        /\ T \in Seq(Nat) /\ Framed(T) /\ SubSeq(T, 6, Len(T)) = q
        /\ p \in Seq(Nat) /\ q \in Seq(Nat) /\ p \o q = payload
    BY <2>2 DEF CutInTwo
  <2> HIDE DEF payload, p, q
  <2>4. Bodies((R \o T) \o u) = (p \o q) \o Bodies(u)
    <3>1. GiveBoth(R, T, p, q, u)
      BY <2>3, BodiesOfTwo
    <3> QED BY <3>1 DEF GiveBoth
  <2>5. Bodies(s \o u) = payload \o Bodies(u)
    BY <2>1, BodiesFirst DEF payload
  <2> QED BY <2>3, <2>4, <2>5
<1>3. IsOneRecord(s) /\ ~(L < 2) => L >= 2
  <2>1. ASSUME IsOneRecord(s) PROVE L \in Nat
    <3>1. Len(s) \in Nat /\ Len(s) > 5
      BY <2>1, LenProperties DEF IsOneRecord, TLS_HEADER
    <3>2. 6 \in 1..Len(s) + 1 /\ Len(s) \in 6 - 1..Len(s)
      BY <3>1
    <3>3. payload \in Seq(Nat)
      BY <3>2, Piece
    <3> QED BY <3>3, LenProperties
  <2> HIDE DEF L
  <2> QED BY <2>1
<1> QED BY <1>1, <1>2, <1>3

---------------------------------------------------------------------------
(* A connection carries the handshake it was given.                        *)

\* What went up is the first read, cut, and then also the rest.
HandshakeInv ==
    /\ DOMAIN conn = DOMAIN NoConn
    /\ conn.flight \in Seq(Nat)
    /\ conn.stage = "spliced" =>
         /\ conn.sent \in 0..Len(conn.flight)
         /\ conn.up = FragmentClientHello(SubSeq(conn.flight, 1, conn.sent))
    /\ SameHandshake

\* A flight is a sequence of bytes.
LEMMA FlightBytes == ASSUME NEW f \in Flights PROVE f.data \in Seq(Nat)
<1> DEFINE d == f.data
<1>1. d \in Seq(0..255)
  BY FilterAssumption
<1> HIDE DEF d
<1>2. Len(d) \in Nat /\ \A i \in 1..Len(d) : d[i] \in 0..255
  BY <1>1, LenProperties, ElementOfSeq
<1>3. \A i \in 1..Len(d) : d[i] \in Nat
  <2>1. TAKE i \in 1..Len(d)
  <2>2. d[i] \in 0..255
    BY <1>2
  <2>3. \A b \in 0..255 : b \in Nat
    OBVIOUS
  <2> QED BY <2>2, <2>3, Zenon
<1>4. SubSeq(d, 1, Len(d)) \in Seq(Nat)
  BY <1>2, <1>3, SubSeqProperties
<1>5. d \in Seq(Nat)
  BY <1>1, <1>4, SubSeqFull
<1> QED BY <1>5 DEF d

\* The connection's steps keep the handshake.
LEMMA HandshakeKept ==
    ASSUME HandshakeInv, ConnMoves
    PROVE  HandshakeInv'
<1>0. {"stage", "flight", "sent", "up", "reply"} \subseteq DOMAIN conn
  BY DEF HandshakeInv, NoConn
<1>1. ASSUME conn' = conn PROVE HandshakeInv'
  BY <1>1 DEF HandshakeInv, SameHandshake
<1>2. ASSUME NEW via, NEW target, NEW f \in Flights, OpenConn(via, target, f)
      PROVE  HandshakeInv'
  <2>1. conn' = [NoConn EXCEPT !.stage = "accepted", !.via = via,
                               !.target = target, !.flight = f.data,
                               !.name = f.name]
    BY <1>2 DEF OpenConn
  <2>2. DOMAIN conn' = DOMAIN NoConn /\ conn'.stage = "accepted" /\ conn'.flight = f.data
    BY <2>1 DEF NoConn
  <2> QED BY <2>2, FlightBytes DEF HandshakeInv, SameHandshake
<1>3. CASE Dial
  <2>1. /\ DOMAIN conn' = DOMAIN conn /\ conn'.flight = conn.flight
        /\ conn'.stage \in {"closed", "loops", "open"}
    BY <1>0, <1>3 DEF Dial, ConnGoes
  <2> QED BY <2>1 DEF HandshakeInv, SameHandshake
<1>4. ASSUME NEW n \in Reads, FirstRead(n) PROVE HandshakeInv'
  <2>1. /\ DOMAIN conn' = DOMAIN conn /\ conn'.flight = conn.flight
        /\ conn'.stage \in {"closed", "spliced"} /\ conn'.sent = n
        /\ conn'.up = FragmentClientHello(SubSeq(conn.flight, 1, n))
        /\ n <= Len(conn.flight)
    BY <1>0, <1>4 DEF FirstRead
  <2>2. n \in 0..Len(conn.flight)
    <3>1. n \in Nat /\ Len(conn.flight) \in Nat
      BY FilterAssumption, LenProperties DEF HandshakeInv
    <3> QED BY <2>1, <3>1
  <2> QED BY <2>1, <2>2 DEF HandshakeInv, SameHandshake
<1>5. CASE Copy
  <2> DEFINE s == conn.flight
             n == conn.sent
             first == SubSeq(s, 1, n)
             rest == SubSeq(s, n + 1, Len(s))
  <2>1. /\ DOMAIN conn' = DOMAIN conn /\ conn'.flight = s
        /\ conn'.stage = "done" /\ conn'.up = conn.up \o rest /\ conn.stage = "spliced"
    BY <1>0, <1>5 DEF Copy
  <2>2. s \in Seq(Nat) /\ n \in 0..Len(s) /\ conn.up = FragmentClientHello(first)
    BY <2>1 DEF HandshakeInv
  <2> HIDE DEF s, n
  <2>3. first \in Seq(Nat) /\ rest \in Seq(Nat) /\ first \o rest = s
    BY <2>2, FirstAndRest
  <2> HIDE DEF first, rest
  <2>4. Bodies(FragmentClientHello(first) \o rest) = Bodies(first \o rest)
    BY <2>3, FragmentKeeps
  <2>5. Bodies(conn'.up) = Bodies(conn'.flight)
    BY <2>1, <2>2, <2>3, <2>4
  <2>6. DOMAIN conn = DOMAIN NoConn
    BY DEF HandshakeInv
  <2> QED BY <2>1, <2>2, <2>5, <2>6 DEF HandshakeInv, SameHandshake
<1>6. CASE BrowserMoves
  BY <1>1, <1>6 DEF BrowserMoves
<1>7. CASE LaunchWithFilter
  BY <1>1, <1>7 DEF LaunchWithFilter
<1> QED BY <1>2, <1>3, <1>4, <1>5, <1>6, <1>7
        DEF ConnMoves, Browser, Redirected, Direct

\* Whatever the application sends, however the network cuts it up and
\* wherever the hello is cut, the server gets the same messages, complete and
\* once: fragmentation changes the records and nothing they carry.
THEOREM HandshakeIntact == Spec => []SameHandshake
<1>1. Init => HandshakeInv
  <2> SUFFICES ASSUME Init PROVE HandshakeInv
    OBVIOUS
  <2>1. conn = NoConn /\ NoConn.flight = <<>> /\ NoConn.stage = "none"
    BY DEF Init, NoConn
  <2>2. <<>> \in Seq(Nat)
    OBVIOUS
  <2> QED BY <2>1, <2>2 DEF HandshakeInv, SameHandshake
<1>2. HandshakeInv /\ [Next]_vars => HandshakeInv'
  <2> SUFFICES ASSUME HandshakeInv, [Next]_vars PROVE HandshakeInv'
    OBVIOUS
  <2>1. ConnMoves => HandshakeInv'
    BY HandshakeKept
  <2>2. UNCHANGED conn => HandshakeInv'
    BY DEF HandshakeInv, SameHandshake
  <2> QED BY <2>1, <2>2, WhoMoves DEF vars
<1>3. HandshakeInv => SameHandshake
  BY DEF HandshakeInv
<1> QED BY <1>1, <1>2, <1>3, PTL DEF Spec

---------------------------------------------------------------------------
(* Recursion towards the end of a sequence.  A table r says for each       *)
(* position where to stop and with what, where else to go on, and what to  *)
(* make of what is found there.                                            *)

\* What the table makes of position i, by what f gives for later ones
Step(r, i, f) == IF r.stop[i] THEN r.val[i] ELSE r.make[i][f[r.next[i]]]

\* It goes on to a later position, if at all, and never leaves V.
Forward(r, n, V) ==
    \A i \in 1..n :
        IF r.stop[i] THEN r.val[i] \in V
        ELSE r.next[i] \in i + 1..n /\ \A v \in V : r.make[i][v] \in V

\* f is what the table asks for, from position k on.
Runs(f, r, n, V, k) ==
    /\ f \in [k..n -> V]
    /\ \A i \in k..n : f[i] = Step(r, i, f)

\* From one position more it can be had,
LEMMA RunsFurther ==
    ASSUME NEW r, NEW n \in Nat, NEW V, Forward(r, n, V), NEW k \in 1..n,
           NEW f, Runs(f, r, n, V, k + 1)
    PROVE  \E g : Runs(g, r, n, V, k)
<1> DEFINE g == [i \in k..n |-> IF i = k THEN Step(r, k, f) ELSE f[i]]
<1>1. ASSUME NEW i \in 1..n, ~r.stop[i] PROVE r.next[i] \in i + 1..n
  BY <1>1 DEF Forward
<1>2. Step(r, k, f) \in V
  <2>1. CASE r.stop[k]
    BY <2>1 DEF Forward, Step
  <2>2. CASE ~r.stop[k]
    <3>1. f[r.next[k]] \in V
      BY <1>1, <2>2 DEF Runs
    <3> QED BY <2>2, <3>1 DEF Forward, Step
  <2> QED BY <2>1, <2>2
<1>3. \A i \in k + 1..n : f[i] \in V
  BY DEF Runs
<1>4. \A i \in k..n : g[i] = IF i = k THEN Step(r, k, f) ELSE f[i]
  OBVIOUS
<1>5. g \in [k..n -> V]
  <2>1. ASSUME NEW i \in k..n PROVE (IF i = k THEN Step(r, k, f) ELSE f[i]) \in V
    BY <1>2, <1>3
  <2> QED BY <2>1
<1> HIDE DEF g
<1>6. ASSUME NEW i \in k..n PROVE Step(r, i, g) = Step(r, i, f)
  <2>1. CASE r.stop[i]
    BY <2>1 DEF Step
  <2>2. CASE ~r.stop[i]
    <3>1. r.next[i] \in k..n /\ r.next[i] # k
      BY <1>1, <2>2
    <3>2. g[r.next[i]] = f[r.next[i]]
      BY <1>4, <3>1
    <3> QED BY <2>2, <3>2 DEF Step
  <2> QED BY <2>1, <2>2
<1>7. ASSUME NEW i \in k..n PROVE g[i] = Step(r, i, g)
  <2>1. CASE i = k
    BY <1>4, <1>6, <2>1
  <2>2. CASE i # k
    <3>1. i \in k + 1..n
      BY <2>2
    <3> QED BY <1>4, <1>6, <2>2, <3>1 DEF Runs
  <2> QED BY <2>1, <2>2
<1> QED BY <1>5, <1>7 DEF Runs

\* so it can be had from the first.
LEMMA RunExists ==
    ASSUME NEW r, NEW n \in Nat, NEW V, Forward(r, n, V)
    PROVE  \E f : Runs(f, r, n, V, 1)
<1> DEFINE Has(j) == \E f : Runs(f, r, n, V, n + 1 - j)
           Bad == {j \in 0..n : ~Has(j)}
<1>1. SUFFICES ASSUME Bad # {} PROVE FALSE
  <2>1. n + 1 - n = 1 /\ n \in 0..n
    OBVIOUS
  <2> HIDE DEF Has
  <2>2. Has(n)
    BY <1>1, <2>1
  <2> QED BY <2>1, <2>2 DEF Has
<1>2. PICK j \in Bad : \A i \in Bad : j <= i
  <2>1. Bad \in SUBSET Nat
    OBVIOUS
  <2> HIDE DEF Bad
  <2> QED BY <1>1, <2>1, LeastExists
<1>3. j \in 0..n /\ ~Has(j) /\ \A i \in 0..n : i < j => Has(i)
  <2> HIDE DEF Has
  <2> QED BY <1>2
<1>4. CASE j = 0
  <2> DEFINE f == [i \in n + 1..n |-> TRUE]
  <2>0. \A i \in n + 1..n : FALSE
    OBVIOUS
  <2>1. f \in [n + 1..n -> V]
    BY <2>0
  <2> HIDE DEF f
  <2>3. Runs(f, r, n, V, n + 1)
    BY <2>0, <2>1 DEF Runs
  <2>2. n + 1 - j = n + 1
    BY <1>4
  <2> QED BY <1>3, <2>2, <2>3
<1>5. CASE j # 0
  <2> DEFINE k == n + 1 - j
  <2>1. k \in 1..n /\ n + 1 - (j - 1) = k + 1 /\ j - 1 \in 0..n /\ j - 1 < j
    BY <1>3, <1>5
  <2>2. \E f : Runs(f, r, n, V, k + 1)
    BY <1>3, <2>1
  <2>3. \E f : Runs(f, r, n, V, k)
    <3> HIDE DEF k
    <3> QED BY <2>1, <2>2, RunsFurther
  <2> QED BY <1>3, <2>3
<1> QED BY <1>4, <1>5

---------------------------------------------------------------------------
(* The walk to the name.                                                   *)

\* One step of the walk
WalkOn(p, e, walk) ==
    IF e + 3 > Len(p) THEN None
    ELSE IF U16be(p, e) = EXT_SNI THEN MiddleOfName(p, e)
    ELSE LET next == e + 4 + U16be(p, e + 2) IN
           IF next > Len(p) THEN None ELSE walk[next]

\* walk is what SniSplitOffset defines.
Walks(walk, p) ==
    /\ walk = [e \in 1..Len(p) + 1 |-> walk[e]]
    /\ \A e \in 1..Len(p) + 1 : walk[e] = WalkOn(p, e, walk)

\* Two bytes that are there are a number.
LEMMA U16beIs ==
    ASSUME NEW p \in Seq(Nat), NEW i \in Nat, i >= 1
    PROVE  /\ i + 1 <= Len(p) => U16be(p, i) \in Nat
           /\ U16be(p, i) \in Int /\ U16be(p, i) >= -1
<1>1. Len(p) \in Nat /\ DOMAIN p = 1..Len(p)
  BY LenProperties
<1>2. CASE i + 1 <= Len(p)
  <2>1. i \in 1..Len(p) /\ i + 1 \in 1..Len(p)
    BY <1>1, <1>2
  <2>2. U16be(p, i) = p[i] * 256 + p[i + 1]
    BY <1>1, <2>1 DEF U16be
  <2>3. p[i] \in Nat /\ p[i + 1] \in Nat
    BY <2>1, ElementOfSeq
  <2>4. p[i] * 256 + p[i + 1] \in Nat
    BY <2>3, TwoBytes
  <2> QED BY <2>2, <2>4
<1>3. CASE ~(i + 1 <= Len(p))
  <2>1. i + 1 \notin 1..Len(p)
    BY <1>1, <1>3
  <2>2. U16be(p, i) = -1
    BY <1>1, <2>1 DEF U16be, None
  <2> QED BY <1>3, <2>2
<1> QED BY <1>2, <1>3

\* There is such a walk: every extension is followed by fewer bytes.
LEMMA WalkExists ==
    ASSUME NEW p \in Seq(Nat)
    PROVE  \E walk : Walks(walk, p)
<1> DEFINE n == Len(p) + 1
           next(e) == e + 4 + U16be(p, e + 2)
           ends(e) == e + 3 > Len(p) \/ U16be(p, e) = EXT_SNI \/ next(e) > Len(p)
           val(e) == IF e + 3 > Len(p) THEN None
                     ELSE IF U16be(p, e) = EXT_SNI THEN MiddleOfName(p, e) ELSE None
           V == {val(e) : e \in 1..n}
           r == [stop |-> [e \in 1..n |-> ends(e)],
                 val  |-> [e \in 1..n |-> val(e)],
                 next |-> [e \in 1..n |-> next(e)],
                 make |-> [e \in 1..n |-> [v \in V |-> v]]]
<1>0. n \in Nat /\ Len(p) \in Nat
  BY LenProperties
<1>1. /\ \A e \in 1..n : r.stop[e] = ends(e)
      /\ \A e \in 1..n : r.val[e] = val(e)
      /\ \A e \in 1..n : r.next[e] = next(e)
      /\ \A e \in 1..n : \A v \in V : r.make[e][v] = v
  <2> HIDE DEF ends, val, next, V, n
  <2> QED OBVIOUS
<1>2. \A e \in 1..n : val(e) \in V
  <2> HIDE DEF val
  <2> QED OBVIOUS
<1> HIDE DEF r, V
<1>3. ASSUME NEW e \in 1..n, ~ends(e) PROVE next(e) \in e + 1..n
  <2>1. e + 2 \in Nat /\ e + 2 >= 1 /\ (e + 2) + 1 <= Len(p)
    BY <1>0, <1>3
  <2>2. U16be(p, e + 2) \in Nat
    BY <2>1, U16beIs
  <2>3. ~(next(e) > Len(p))
    BY <1>3
  <2> QED BY <1>0, <2>2, <2>3
<1>4. Forward(r, n, V)
  <2>1. ASSUME NEW e \in 1..n
        PROVE  IF r.stop[e] THEN r.val[e] \in V
               ELSE r.next[e] \in e + 1..n /\ \A v \in V : r.make[e][v] \in V
    <3> HIDE DEF ends, val, next, n
    <3>1. CASE ends(e)
      BY <1>1, <1>2, <3>1
    <3>2. CASE ~ends(e)
      BY <1>1, <1>3, <3>2
    <3> QED BY <3>1, <3>2
  <2> HIDE DEF n
  <2> QED BY <2>1 DEF Forward
<1>5. PICK walk : Runs(walk, r, n, V, 1)
  <2> HIDE DEF n
  <2> QED BY <1>0, <1>4, RunExists
<1>6. walk = [e \in 1..n |-> walk[e]] /\ \A e \in 1..n : walk[e] \in V
  BY <1>5 DEF Runs
<1>7. ASSUME NEW e \in 1..n PROVE walk[e] = WalkOn(p, e, walk)
  <2>1. walk[e] = Step(r, e, walk)
    BY <1>5 DEF Runs
  <2>2. CASE ends(e)
    <3>1. r.stop[e] /\ r.val[e] = val(e)
      <4> HIDE DEF ends, val
      <4> QED BY <1>1, <2>2
    <3>2. walk[e] = val(e)
      <4> HIDE DEF val
      <4> QED BY <2>1, <3>1 DEF Step
    <3> QED BY <2>2, <3>2 DEF WalkOn
  <2>3. CASE ~ends(e)
    <3>1. next(e) \in 1..n
      <4>1. next(e) \in e + 1..n
        BY <1>3, <2>3
      <4> HIDE DEF next
      <4> QED BY <1>0, <4>1
    <3>2. ~r.stop[e] /\ r.next[e] = next(e)
      <4> HIDE DEF ends, next
      <4> QED BY <1>1, <2>3
    <3>3. walk[e] = walk[next(e)]
      <4> HIDE DEF next, n
      <4>1. walk[next(e)] \in V
        BY <1>6, <3>1
      <4>2. walk[e] = r.make[e][walk[next(e)]]
        BY <2>1, <3>2 DEF Step
      <4> QED BY <1>1, <4>1, <4>2
    <3> QED BY <2>3, <3>3 DEF WalkOn
  <2> QED BY <2>2, <2>3
<1>8. Walks(walk, p)
  BY <1>6, <1>7 DEF Walks
<1> QED BY <1>8

\* The extensions before the name's: each is passed over, so that from every
\* one of them the walk gives the middle of the name.
LEMMA WalkToName ==
    ASSUME NEW p \in Seq(Nat), NEW name, Len(name) \in Nat, Len(name) > 1,
           NEW exts, NamedAt(p, name, exts), NEW walk, Walks(walk, p)
    PROVE  /\ walk[exts[1]] = exts[Len(exts)] + 8 + Len(name) \div 2
           /\ exts[1] \in 1..Len(p) /\ exts[Len(exts)] \in 1..Len(p)
<1> DEFINE m == Len(exts)
           last == exts[m]
           n == Len(name)
           middle == last + 8 + n \div 2
           Leads(k) == walk[exts[k]] = middle /\ exts[k] <= last
           Bad == {j \in 0..m - 1 : ~Leads(m - j)}
<1>0. Len(p) \in Nat /\ DOMAIN p = 1..Len(p)
  BY LenProperties
<1>1. exts \in Seq(1..Len(p)) /\ exts # <<>>
  BY <1>0 DEF NamedAt
<1>2. m \in Nat /\ m >= 1 /\ \A k \in 1..m : exts[k] \in 1..Len(p)
  <2>1. m \in Nat /\ m # 0
    BY <1>1, EmptySeq, LenProperties
  <2>2. \A k \in 1..m : exts[k] \in 1..Len(p)
    BY <1>1, ElementOfSeq
  <2> QED BY <2>1, <2>2
<1>3. last \in 1..Len(p)
  BY <1>2
<1>4. /\ U16be(p, last) = EXT_SNI /\ Byte(p, last + 6) = 0 /\ U16be(p, last + 7) = n
      /\ last + 8 + n <= Len(p)
      /\ \A k \in 1..m - 1 :
           /\ U16be(p, exts[k]) # EXT_SNI
           /\ exts[k + 1] = exts[k] + 4 + U16be(p, exts[k] + 2)
  BY DEF NamedAt
<1> HIDE DEF m, n
<1>5. n \in Nat /\ n > 1
  BY DEF n
<1>6. \A e \in 1..Len(p) : walk[e] = WalkOn(p, e, walk)
  BY <1>0 DEF Walks
<1>7. Leads(m)
  <2> HIDE DEF last
  <2>1. ~(last + 3 > Len(p))
    BY <1>0, <1>3, <1>4, <1>5
  <2>2. MiddleOfName(p, last) = last + 8 + n \div 2
    <3>1. ~(Byte(p, last + 6) # 0 \/ U16be(p, last + 7) < 2 \/ last + 8 + U16be(p, last + 7) > Len(p))
      BY <1>0, <1>3, <1>4, <1>5
    <3> QED BY <1>4, <3>1 DEF MiddleOfName
  <2>3. walk[last] = middle
    BY <1>3, <1>4, <1>6, <2>1, <2>2 DEF WalkOn
  <2>4. last <= last
    BY <1>3
  <2> QED BY <2>3, <2>4 DEF last
<1>8. ASSUME NEW k \in 1..m - 1, Leads(k + 1) PROVE Leads(k)
  <2> DEFINE e == exts[k]
             next == exts[k + 1]
  <2>1. e \in 1..Len(p) /\ next \in 1..Len(p)
    <3>1. k \in 1..m /\ k + 1 \in 1..m
      BY <1>2
    <3> QED BY <1>2, <3>1
  <2>2. U16be(p, e) # EXT_SNI /\ next = e + 4 + U16be(p, e + 2)
    BY <1>4
  <2>3. walk[next] = middle /\ next <= last
    BY <1>8
  <2> HIDE DEF e, next, last, middle
  <2>4. U16be(p, e + 2) \in Int /\ U16be(p, e + 2) >= -1
    <3>1. e + 2 \in Nat /\ e + 2 >= 1
      BY <2>1
    <3> QED BY <3>1, U16beIs
  <2>5. ~(e + 3 > Len(p)) /\ ~(next > Len(p)) /\ e <= last
    BY <1>0, <1>3, <2>1, <2>2, <2>3, <2>4
  <2>6. walk[e] = walk[next]
    BY <1>6, <2>1, <2>2, <2>5 DEF WalkOn
  <2>7. walk[e] = middle /\ e <= last
    BY <2>3, <2>5, <2>6
  <2> QED BY <2>7 DEF e, last, middle
<1> HIDE DEF Leads
<1>9. Bad = {}
  <2>1. SUFFICES ASSUME Bad # {} PROVE FALSE
    OBVIOUS
  <2>2. PICK j \in Bad : \A i \in Bad : j <= i
    <3>1. Bad \in SUBSET Nat
      BY <1>2
    <3> HIDE DEF Bad
    <3> QED BY <2>1, <3>1, LeastExists
  <2>3. j \in 0..m - 1 /\ ~Leads(m - j) /\ \A i \in 0..m - 1 : i < j => Leads(m - i)
    BY <1>2, <2>2
  <2>4. CASE j = 0
    <3>1. m - j = m
      BY <1>2, <2>4
    <3> QED BY <1>7, <2>3, <3>1
  <2>5. CASE j # 0
    <3>1. /\ j - 1 \in 0..m - 1 /\ j - 1 < j
          /\ m - j \in 1..m - 1 /\ (m - j) + 1 = m - (j - 1)
      BY <1>2, <2>3, <2>5
    <3>2. Leads((m - j) + 1)
      BY <2>3, <3>1
    <3> QED BY <1>8, <2>3, <3>1, <3>2
  <2> QED BY <2>4, <2>5
<1>10. Leads(1)
  <2>1. m - 1 \in 0..m - 1 /\ m - (m - 1) = 1
    BY <1>2
  <2> QED BY <1>9, <2>1
<1>11. walk[exts[1]] = middle
  BY <1>10 DEF Leads
<1>12. exts[1] \in 1..Len(p)
  BY <1>2
<1> QED BY <1>3, <1>11, <1>12 DEF n, m

\* So the hello is cut inside its name.
LEMMA CutInName ==
    ASSUME NEW p \in Seq(Nat), NEW name, Len(name) \in Nat, Len(name) > 1,
           NEW exts, NamedAt(p, name, exts)
    PROVE  /\ CutOf(p) = exts[Len(exts)] + 8 + Len(name) \div 2
           /\ CutOf(p) \in 1..Len(p) - 1
           /\ exts[Len(exts)] \in 1..Len(p)
<1> DEFINE Is(f) == f = [e \in 1..Len(p) + 1 |-> WalkOn(p, e, f)]
           walk == CHOOSE f : Is(f)
           last == exts[Len(exts)]
           n == Len(name)
<1>0. Len(p) \in Nat /\ DOMAIN p = 1..Len(p)
  BY LenProperties
<1>1. PICK g : Walks(g, p)
  BY WalkExists
<1>2. Is(g)
  BY <1>1 DEF Walks
<1>3. Is(walk)
  <2> HIDE DEF Is
  <2> QED BY <1>2
<1>4. SniSplitOffset(p) =
        IF Byte(p, 1) # HANDSHAKE_CLIENT_HELLO \/ Extensions(p) \notin 1..Len(p) + 1
        THEN None ELSE walk[Extensions(p)]
  BY DEF SniSplitOffset, WalkOn
<1>5. Walks(walk, p)
  <2> HIDE DEF walk
  <2>1. \A e \in 1..Len(p) + 1 : walk[e] = WalkOn(p, e, walk)
    BY <1>3
  <2>2. walk = [e \in 1..Len(p) + 1 |-> walk[e]]
    BY <1>3
  <2> QED BY <2>1, <2>2 DEF Walks
<1> HIDE DEF walk
<1>6. /\ walk[exts[1]] = last + 8 + n \div 2
      /\ exts[1] \in 1..Len(p) /\ last \in 1..Len(p)
  BY <1>5, WalkToName
<1>7. p[1] = HANDSHAKE_CLIENT_HELLO /\ exts[1] = Extensions(p) /\ last + 8 + n <= Len(p)
  BY DEF NamedAt
<1>8. Byte(p, 1) = HANDSHAKE_CLIENT_HELLO
  <2>1. 1 \in DOMAIN p
    BY <1>0, <1>6
  <2> QED BY <1>7, <2>1 DEF Byte
<1>9. Extensions(p) \in 1..Len(p) + 1
  BY <1>0, <1>6, <1>7
<1>10. SniSplitOffset(p) = last + 8 + n \div 2
  BY <1>4, <1>6, <1>7, <1>8, <1>9
<1> HIDE DEF last, n
<1>11. last + 8 + n \div 2 \in 1..Len(p) - 1
  <2>1. n \in Nat /\ n > 1
    BY DEF n
  <2> QED BY <1>0, <1>6, <1>7, <2>1
<1>12. CutOf(p) = last + 8 + n \div 2
  BY <1>10, <1>11 DEF CutOf
<1> QED BY <1>6, <1>11, <1>12 DEF last, n

---------------------------------------------------------------------------
(* The records of a cut hello.                                             *)

\* One step of the definition of Records
List(s, i, f) ==
    IF IsWhole(s, i)
    THEN <<SubSeq(s, i + 5, RecordEnd(s, i))>> \o f[RecordEnd(s, i) + 1]
    ELSE <<>>

\* f is what Records defines.
Lists(f, s) ==
    /\ f = [i \in 1..Len(s) + 1 |-> f[i]]
    /\ \A i \in 1..Len(s) + 1 : f[i] = List(s, i, f)

\* There is such a list: a record is followed by fewer bytes.
LEMMA ListExists ==
    ASSUME NEW s \in Seq(Nat)
    PROVE  \E f : Lists(f, s)
<1> DEFINE n == Len(s) + 1
           V == Seq(Seq(Nat))
           body(i) == SubSeq(s, i + 5, RecordEnd(s, i))
           r == [stop |-> [i \in 1..n |-> ~IsWhole(s, i)],
                 val  |-> [i \in 1..n |-> <<>>],
                 next |-> [i \in 1..n |-> RecordEnd(s, i) + 1],
                 make |-> [i \in 1..n |-> [v \in V |-> <<body(i)>> \o v]]]
<1>0. n \in Nat /\ Len(s) \in Nat
  BY LenProperties
<1>1. /\ \A i \in 1..n : r.stop[i] <=> ~IsWhole(s, i)
      /\ \A i \in 1..n : r.val[i] = <<>>
      /\ \A i \in 1..n : r.next[i] = RecordEnd(s, i) + 1
      /\ \A i \in 1..n : \A v \in V : r.make[i][v] = <<body(i)>> \o v
  <2> HIDE DEF V, n, body
  <2> QED OBVIOUS
<1> HIDE DEF r
<1>2. ASSUME NEW i \in 1..n, IsWhole(s, i)
      PROVE  RecordEnd(s, i) + 1 \in i + 1..n /\ body(i) \in Seq(Nat)
  BY <1>0, <1>2, WholeIs
<1> HIDE DEF body
<1>3. ASSUME NEW i \in 1..n, IsWhole(s, i), NEW v \in V PROVE <<body(i)>> \o v \in V
  <2> DEFINE b == body(i)
             one == <<b>>
  <2>1. b \in Seq(Nat)
    BY <1>2, <1>3
  <2> HIDE DEF b
  <2>2. one \in Seq(Seq(Nat))
    BY <2>1
  <2> HIDE DEF one
  <2>3. one \o v \in Seq(Seq(Nat))
    BY <2>2, ConcatProperties
  <2> QED BY <2>3 DEF one, b
<1>4. Forward(r, n, V)
  <2>0. <<>> \in V
    BY EmptySeq
  <2> HIDE DEF n, V
  <2>1. ASSUME NEW i \in 1..n
        PROVE  IF r.stop[i] THEN r.val[i] \in V
               ELSE r.next[i] \in i + 1..n /\ \A v \in V : r.make[i][v] \in V
    <3>1. CASE IsWhole(s, i)
      <4>1. ~r.stop[i] /\ r.next[i] \in i + 1..n
        BY <1>1, <1>2, <3>1
      <4>2. \A v \in V : r.make[i][v] \in V
        BY <1>1, <1>3, <3>1
      <4> QED BY <4>1, <4>2
    <3>2. CASE ~IsWhole(s, i)
      BY <1>1, <2>0, <3>2
    <3> QED BY <3>1, <3>2
  <2> QED BY <2>1 DEF Forward
<1>5. PICK f : Runs(f, r, n, V, 1)
  <2> HIDE DEF n, V
  <2> QED BY <1>0, <1>4, RunExists
<1>6. f = [i \in 1..n |-> f[i]] /\ \A i \in 1..n : f[i] \in V
  BY <1>5 DEF Runs
<1>7. ASSUME NEW i \in 1..n PROVE f[i] = List(s, i, f)
  <2> DEFINE e == RecordEnd(s, i) + 1
  <2>1. f[i] = Step(r, i, f)
    BY <1>5 DEF Runs
  <2>2. CASE IsWhole(s, i)
    <3>1. e \in 1..n
      <4>1. e \in i + 1..n
        BY <1>2, <2>2
      <4> HIDE DEF e, n
      <4> QED BY <1>0, <4>1
    <3>2. f[e] \in V
      <4> HIDE DEF V, e, n
      <4> QED BY <1>6, <3>1
    <3>3. ~r.stop[i] /\ r.next[i] = e
      <4> HIDE DEF n
      <4> QED BY <1>1, <2>2
    <3>4. f[i] = r.make[i][f[e]]
      BY <2>1, <3>3 DEF Step
    <3>5. f[i] = <<body(i)>> \o f[e]
      <4> HIDE DEF V, e, n
      <4> QED BY <1>1, <3>2, <3>4
    <3> QED BY <2>2, <3>5 DEF List, body
  <2>3. CASE ~IsWhole(s, i)
    <3>1. r.stop[i] /\ r.val[i] = <<>>
      <4> HIDE DEF n
      <4> QED BY <1>1, <2>3
    <3>2. f[i] = <<>>
      BY <2>1, <3>1 DEF Step
    <3> QED BY <2>3, <3>2 DEF List
  <2> QED BY <2>2, <2>3
<1>8. Lists(f, s)
  BY <1>6, <1>7 DEF Lists
<1> QED BY <1>8

\* The records of a stream are the bodies p and q.
AreBoth(s, p, q) == Records(s) = <<p, q>>

\* One and one are two.
LEMMA OneAndOne == ASSUME NEW x, NEW y PROVE <<x>> \o <<y>> = <<x, y>>
<1> DEFINE X == <<x>>
           Y == <<y>>
           d == <<x, y>>
           V == {x, y}
<1>1. X \in Seq(V) /\ Len(X) = 1 /\ X[1] = x
  OBVIOUS
<1>2. Y \in Seq(V) /\ Len(Y) = 1 /\ Y[1] = y
  OBVIOUS
<1>3. d \in Seq(V) /\ Len(d) = 2 /\ d[1] = x /\ d[2] = y
  OBVIOUS
<1> HIDE DEF X, Y, d, V
<1> DEFINE c == X \o Y
<1>4. /\ c \in Seq(V) /\ Len(c) = Len(X) + Len(Y)
      /\ \A i \in 1..Len(X) + Len(Y) : c[i] = IF i <= Len(X) THEN X[i] ELSE Y[i - Len(X)]
  BY <1>1, <1>2, ConcatProperties
<1> HIDE DEF c
<1>5. c[1] = x /\ c[2] = y /\ Len(c) = 2
  BY <1>1, <1>2, <1>4
<1>6. \A i \in 1..2 : c[i] = d[i]
  <2>1. TAKE i \in 1..2
  <2>2. i = 1 \/ i = 2
    OBVIOUS
  <2> QED BY <1>3, <1>5, <2>2
<1>7. c = d
  BY <1>3, <1>4, <1>5, <1>6, SeqEqual
<1> QED BY <1>7 DEF c, d, X, Y

\* Two whole records, and nothing more, are two records.
LEMMA RecordsOfTwo ==
    ASSUME NEW R \in Seq(Nat), Framed(R), NEW T \in Seq(Nat), Framed(T),
           NEW p \in Seq(Nat), SubSeq(R, 6, Len(R)) = p,
           NEW q \in Seq(Nat), SubSeq(T, 6, Len(T)) = q
    PROVE  AreBoth(R \o T, p, q)
<1> DEFINE s == R \o T
           Is(f) == f = [i \in 1..Len(s) + 1 |-> List(s, i, f)]
           from == CHOOSE f : Is(f)
           a == Len(R)
           b == Len(T)
           n == T[4] * 256 + T[5]
<1>0. InFront(R, T)
  BY WholeInFront
<1>1. /\ s \in Seq(Nat) /\ Len(s) = a + b
      /\ IsWhole(s, 1) /\ RecordEnd(s, 1) = a
      /\ SubSeq(s, 6, a) = p
      /\ Alike(s, a + 1, T, 1)
  BY <1>0 DEF InFront
<1>2. Records(s) = from[1]
  BY DEF Records, List
<1> HIDE DEF s
<1>3. PICK g : Lists(g, s)
  BY <1>1, ListExists
<1>4. Is(from)
  <2>1. Is(g)
    BY <1>3 DEF Lists
  <2> HIDE DEF Is
  <2> QED BY <2>1
<1>5. \A i \in 1..Len(s) + 1 : from[i] = List(s, i, from)
  <2> HIDE DEF from
  <2> QED BY <1>4
<1> HIDE DEF from
<1>6. b >= 5 /\ b = 5 + n
  BY DEF Framed
<1>7. a \in Nat /\ b \in Nat
  BY LenProperties
<1>8. n \in Nat
  <2>1. 4 \in 1..Len(T) /\ 5 \in 1..Len(T)
    <3> HIDE DEF n
    <3> QED BY <1>6, <1>7
  <2>2. T[4] \in Nat /\ T[5] \in Nat
    BY <2>1, ElementOfSeq
  <2> QED BY <2>2, TwoBytes
<1>9. IsWhole(T, 1) /\ RecordEnd(T, 1) = b
  <2>1. 5 + n <= Len(T) /\ n = T[4] * 256 + T[5]
    <3>1. 5 + n <= Len(T)
      <4> HIDE DEF n
      <4> QED BY <1>6, <1>7, <1>8
    <3> QED BY <3>1
  <2>2. IsWhole(T, 1) /\ RecordEnd(T, 1) = 5 + n
    <3> HIDE DEF n
    <3> QED BY <1>8, <2>1, FirstRecord
  <2> QED BY <1>6, <2>2
<1> HIDE DEF a, b, n
<1>10. /\ 1 \in 1..Len(s) + 1 /\ 1 \in 1..Len(T) + 1 /\ a + 1 \in 1..Len(s) + 1
       /\ a + b + 1 \in 1..Len(s) + 1 /\ a + b + 1 > Len(s)
  BY <1>1, <1>7 DEF b
<1>11. /\ IsWhole(s, a + 1) /\ RecordEnd(s, a + 1) = a + b
       /\ SubSeq(s, (a + 1) + 5, RecordEnd(s, a + 1)) = q
  <2>1. Alike(T, 1, s, a + 1)
    BY <1>1, <1>10, AlikeOn
  <2>2. SameThere(T, 1, s, a + 1)
    BY <1>1, <1>9, <1>10, <2>1, SameRecord
  <2>3. /\ IsWhole(s, a + 1)
        /\ RecordEnd(s, a + 1) - (a + 1) = b - 1
        /\ SubSeq(T, 1 + 5, b) = SubSeq(s, (a + 1) + 5, RecordEnd(s, a + 1))
    BY <1>9, <2>2 DEF SameThere
  <2>4. RecordEnd(s, a + 1) \in (a + 1) + 4..Len(s)
    BY <1>1, <1>10, <2>3, WholeIs
  <2>5. RecordEnd(s, a + 1) = a + b
    <3> DEFINE e == RecordEnd(s, a + 1)
    <3>1. e \in (a + 1) + 4..Len(s) /\ e - (a + 1) = b - 1
      BY <2>3, <2>4
    <3> HIDE DEF e
    <3>2. e \in Int
      BY <3>1
    <3>3. e = a + b
      BY <1>7, <3>1, <3>2
    <3> QED BY <3>3 DEF e
  <2>6. SubSeq(T, 1 + 5, b) = q
    <3>1. 1 + 5 = 6
      OBVIOUS
    <3> QED BY <3>1 DEF b
  <2> QED BY <2>3, <2>5, <2>6
<1>12. from[a + b + 1] = <<>>
  <2>1. ~IsWhole(s, a + b + 1)
    BY <1>1, <1>7, <1>10 DEF IsWhole
  <2> QED BY <1>5, <1>10, <2>1 DEF List
<1>13. from[a + 1] = <<q>>
  <2>1. from[a + 1] = <<q>> \o from[a + b + 1]
    BY <1>5, <1>10, <1>11 DEF List
  <2>2. <<q>> \in Seq(Seq(Nat))
    OBVIOUS
  <2>3. <<q>> \o << >> = <<q>>
    BY <2>2, ConcatEmptySeq
  <2> QED BY <1>12, <2>1, <2>3
<1>14. from[1] = <<p, q>>
  <2>1. 1 + 5 = 6
    OBVIOUS
  <2>2. from[1] = <<p>> \o from[a + 1]
    BY <1>1, <1>5, <1>10, <2>1 DEF List
  <2>3. <<p>> \o <<q>> = <<p, q>>
    BY OneAndOne
  <2> QED BY <1>13, <2>2, <2>3
<1> QED BY <1>2, <1>14 DEF AreBoth, s

---------------------------------------------------------------------------
(* What a filter sees of the name.                                         *)

\* A piece of a piece is a piece.
LEMMA PieceOfPiece ==
    ASSUME NEW s \in Seq(Nat), NEW m \in 1..Len(s) + 1, NEW n \in m - 1..Len(s),
           NEW i \in Nat, NEW j \in Nat, i + j <= n + 1 - m
    PROVE  SubSeq(SubSeq(s, m, n), i + 1, i + j) = SubSeq(s, (m - 1 + i) + 1, (m - 1 + i) + j)
<1> DEFINE t == SubSeq(s, m, n)
           k == m - 1 + i
           A == SubSeq(t, i + 1, i + j)
           B == SubSeq(s, k + 1, k + j)
<1>0. Len(s) \in Nat
  BY LenProperties
<1>1. t \in Seq(Nat) /\ Len(t) = n + 1 - m /\ \A x \in 1..n + 1 - m : t[x] = s[m + x - 1]
  BY Piece
<1> HIDE DEF t
<1>2. A \in Seq(Nat) /\ Len(A) = j /\ \A x \in 1..j : A[x] = t[(i + 1) + x - 1]
  <2>1. i + 1 \in 1..Len(t) + 1 /\ i + j \in (i + 1) - 1..Len(t) /\ (i + j) + 1 - (i + 1) = j
    BY <1>0, <1>1
  <2>2. /\ A \in Seq(Nat) /\ Len(A) = (i + j) + 1 - (i + 1)
        /\ \A x \in 1..(i + j) + 1 - (i + 1) : A[x] = t[(i + 1) + x - 1]
    BY <1>1, <2>1, Piece
  <2> QED BY <2>1, <2>2
<1>3. B \in Seq(Nat) /\ Len(B) = j /\ \A x \in 1..j : B[x] = s[(k + 1) + x - 1]
  <2>1. k + 1 \in 1..Len(s) + 1 /\ k + j \in (k + 1) - 1..Len(s) /\ (k + j) + 1 - (k + 1) = j
    BY <1>0
  <2> HIDE DEF k
  <2>2. /\ B \in Seq(Nat) /\ Len(B) = (k + j) + 1 - (k + 1)
        /\ \A x \in 1..(k + j) + 1 - (k + 1) : B[x] = s[(k + 1) + x - 1]
    BY <2>1, Piece
  <2> QED BY <2>1, <2>2
<1> HIDE DEF A, B
<1>4. ASSUME NEW x \in 1..j PROVE A[x] = B[x]
  <2>1. /\ (i + 1) + x - 1 \in 1..n + 1 - m
        /\ m + ((i + 1) + x - 1) - 1 = (k + 1) + x - 1
    BY <1>0
  <2>2. t[(i + 1) + x - 1] = s[m + ((i + 1) + x - 1) - 1]
    BY <1>1, <2>1
  <2> HIDE DEF k
  <2> QED BY <1>2, <1>3, <2>1, <2>2
<1>5. A = B
  BY <1>2, <1>3, <1>4, SeqEqual
<1> QED BY <1>5 DEF A, B, t, k

\* Neither piece has the name in it.
LEMMA NeitherHasIt ==
    ASSUME NEW p \in Seq(Nat), NEW name, Len(name) \in Nat, Len(name) > 1,
           NEW exts, NamedAt(p, name, exts)
    PROVE  /\ ~Contains(SubSeq(p, 1, CutOf(p)), name)
           /\ ~Contains(SubSeq(p, CutOf(p) + 1, Len(p)), name)
<1> DEFINE c == CutOf(p)
           n == Len(name)
           m == Len(p)
           last == exts[Len(exts)]
           at == last + 8
           P == SubSeq(p, 1, c)
           Q == SubSeq(p, c + 1, m)
<1>0. c = last + 8 + n \div 2 /\ c \in 1..m - 1 /\ last \in 1..m
  BY CutInName
<1>2. \A i \in 0..m - n : SubSeq(p, i + 1, i + n) = name => i = at
  BY DEF NamedAt
<1>3. m \in Nat /\ n \in Nat /\ n > 1
  BY LenProperties
<1> HIDE DEF c, n, m, last
<1>1. c = at + n \div 2 /\ c \in 1..m - 1 /\ c \in Nat
  BY <1>0, <1>3
<1>4. at \in Nat
  BY <1>0, <1>3
<1> HIDE DEF at
<1>5. P \in Seq(Nat) /\ Len(P) = c
  <2>1. 1 \in 1..Len(p) + 1 /\ c \in 1 - 1..Len(p) /\ c + 1 - 1 = c
    BY <1>1, <1>3 DEF m
  <2>2. P \in Seq(Nat) /\ Len(P) = c + 1 - 1
    BY <2>1, Piece
  <2> QED BY <2>1, <2>2
<1>6. Q \in Seq(Nat) /\ Len(Q) = m - c
  <2>1. c + 1 \in 1..Len(p) + 1 /\ m \in (c + 1) - 1..Len(p) /\ m + 1 - (c + 1) = m - c
    BY <1>1, <1>3 DEF m
  <2>2. Q \in Seq(Nat) /\ Len(Q) = m + 1 - (c + 1)
    BY <2>1, Piece
  <2> QED BY <2>1, <2>2
<1>7. ASSUME NEW i \in 0..c - n, SubSeq(P, i + 1, i + n) = name PROVE FALSE
  <2>1. /\ 1 \in 1..Len(p) + 1 /\ c \in 1 - 1..Len(p) /\ i \in Nat /\ i + n <= c + 1 - 1
        /\ 1 - 1 + i = i
    BY <1>1, <1>3, <1>7 DEF m
  <2>2. SubSeq(P, i + 1, i + n) = SubSeq(p, (1 - 1 + i) + 1, (1 - 1 + i) + n)
    BY <1>3, <2>1, PieceOfPiece
  <2>3. SubSeq(p, i + 1, i + n) = name
    BY <1>7, <2>1, <2>2
  <2>4. i \in 0..m - n
    BY <1>1, <1>3
  <2>5. i = at
    BY <1>2, <2>3, <2>4
  <2>6. n \div 2 < n
    BY <1>3
  <2> QED BY <1>1, <1>3, <1>4, <2>1, <2>5, <2>6
<1>8. ASSUME NEW i \in 0..(m - c) - n, SubSeq(Q, i + 1, i + n) = name PROVE FALSE
  <2>0. i \in Nat /\ i + n <= m + 1 - (c + 1) /\ (c + 1) - 1 + i = c + i
    BY <1>1, <1>3, <1>8
  <2>1. c + 1 \in 1..Len(p) + 1 /\ m \in (c + 1) - 1..Len(p)
    BY <1>1, <1>3 DEF m
  <2>2. SubSeq(Q, i + 1, i + n) = SubSeq(p, ((c + 1) - 1 + i) + 1, ((c + 1) - 1 + i) + n)
    BY <1>3, <2>0, <2>1, PieceOfPiece
  <2>3. SubSeq(p, (c + i) + 1, (c + i) + n) = name
    BY <1>8, <2>0, <2>2
  <2>4. c + i \in 0..m - n
    BY <1>1, <1>3
  <2>5. c + i = at
    BY <1>2, <2>3, <2>4
  <2>6. n \div 2 >= 1
    BY <1>3
  <2> QED BY <1>1, <1>3, <1>4, <2>0, <2>5, <2>6
<1> HIDE DEF P, Q
<1>9. ~Contains(P, name)
  BY <1>5, <1>7 DEF Contains, n
<1>10. ~Contains(Q, name)
  BY <1>6, <1>8 DEF Contains, n
<1> QED BY <1>9, <1>10 DEF P, Q, c, m

\* No record of these bytes shows the name.
Severed(bytes, name) ==
    \A i \in DOMAIN Records(bytes) : ~Contains(Records(bytes)[i], name)

\* A hello with a name comes out longer, and no record of it shows the name.
LEMMA FragmentSevers ==
    ASSUME NEW f \in Flights, Len(f.name) > 1
    PROVE  /\ Len(FragmentClientHello(f.data)) # Len(f.data)
           /\ FragmentClientHello(f.data) \in Seq(Nat)
           /\ Severed(FragmentClientHello(f.data), f.name)
<1> DEFINE s == f.data
           name == f.name
           payload == SubSeq(s, 6, Len(s))
           p == SubSeq(payload, 1, CutOf(payload))
           q == SubSeq(payload, CutOf(payload) + 1, Len(payload))
<1>1. s \in Seq(Nat)
  BY FlightBytes
<1>2. Len(name) \in Nat /\ Len(name) > 1
  BY FilterAssumption, LenProperties
<1>3. IsOneRecord(s) /\ NamedAt(payload, name, f.exts)
  BY HelloAssumption
<1> HIDE DEF s, name
<1>4. payload \in Seq(Nat) /\ Len(s) \in Nat /\ Len(payload) = Len(s) - 5 /\ Len(payload) \in Nat
  <2>1. Len(s) \in Nat /\ Len(s) > 5
    BY <1>1, <1>3, LenProperties DEF IsOneRecord, TLS_HEADER
  <2>2. 6 \in 1..Len(s) + 1 /\ Len(s) \in 6 - 1..Len(s) /\ Len(s) + 1 - 6 = Len(s) - 5
        /\ Len(s) - 5 \in Nat
    BY <2>1
  <2>3. payload \in Seq(Nat) /\ Len(payload) = Len(s) + 1 - 6
    BY <1>1, <2>2, Piece
  <2> QED BY <2>1, <2>2, <2>3
<1> HIDE DEF payload
<1>5. /\ ~Contains(p, name) /\ ~Contains(q, name)
      /\ CutOf(payload) \in 1..Len(payload) - 1
  BY <1>2, <1>3, <1>4, NeitherHasIt, CutInName
<1>6. Len(payload) >= 2
  BY <1>4, <1>5
<1>7. PICK R, T : CutInTwo(s, R, T)
  BY <1>1, <1>3, <1>6, FragmentIs DEF payload
<1>8. /\ FragmentClientHello(s) = R \o T
      /\ R \in Seq(Nat) /\ Framed(R) /\ SubSeq(R, 6, Len(R)) = p
      /\ T \in Seq(Nat) /\ Framed(T) /\ SubSeq(T, 6, Len(T)) = q
      /\ p \in Seq(Nat) /\ q \in Seq(Nat) /\ p \o q = payload
  BY <1>7 DEF CutInTwo, payload
<1> HIDE DEF p, q
<1>9. Len(R \o T) = Len(s) + 5 /\ R \o T \in Seq(Nat)
  <2>1. ASSUME NEW r \in Seq(Nat), Framed(r) PROVE Len(r) \in Nat /\ Len(r) = Len(SubSeq(r, 6, Len(r))) + 5
    <3>1. Len(r) \in Nat /\ Len(r) >= 5
      BY <2>1, LenProperties DEF Framed
    <3>2. 6 \in 1..Len(r) + 1 /\ Len(r) \in 6 - 1..Len(r) /\ Len(r) + 1 - 6 = Len(r) - 5
      BY <3>1
    <3>3. Len(SubSeq(r, 6, Len(r))) = Len(r) + 1 - 6
      BY <2>1, <3>2, Piece
    <3> QED BY <3>1, <3>2, <3>3
  <2>2. Len(R) \in Nat /\ Len(T) \in Nat /\ Len(R) = Len(p) + 5 /\ Len(T) = Len(q) + 5
    BY <1>8, <2>1
  <2>3. Len(payload) = Len(p) + Len(q) /\ Len(p) \in Nat /\ Len(q) \in Nat
    BY <1>8, Joined, LenProperties
  <2>4. Len(R \o T) = Len(R) + Len(T) /\ R \o T \in Seq(Nat)
    BY <1>8, Joined
  <2> DEFINE x == Len(p)
             y == Len(q)
             z == Len(payload)
             l == Len(s)
             r == Len(R)
             t == Len(T)
  <2>5. /\ x \in Nat /\ y \in Nat /\ z \in Nat /\ l \in Nat /\ r \in Nat /\ t \in Nat
        /\ r = x + 5 /\ t = y + 5 /\ z = x + y /\ z = l - 5
    BY <1>4, <2>2, <2>3
  <2>6. Len(R \o T) = r + t
    BY <2>4
  <2>7. R \o T \in Seq(Nat)
    BY <2>4
  <2> HIDE DEF x, y, z, l, r, t
  <2>8. r + t = l + 5
    BY <2>5
  <2>9. Len(R \o T) = l + 5
    BY <2>6, <2>8
  <2> QED BY <2>7, <2>9 DEF l
<1>10. Records(R \o T) = <<p, q>>
  <2>1. AreBoth(R \o T, p, q)
    BY <1>8, RecordsOfTwo
  <2> QED BY <2>1 DEF AreBoth
<1>11. Severed(R \o T, name)
  <2>1. ASSUME NEW i \in DOMAIN <<p, q>> PROVE ~Contains(<<p, q>>[i], name)
    <3>1. i = 1 \/ i = 2
      OBVIOUS
    <3> QED BY <1>5, <3>1
  <2> QED BY <1>10, <2>1 DEF Severed
<1>12. Len(s) + 5 # Len(s)
  BY <1>4
<1> QED BY <1>8, <1>9, <1>11, <1>12 DEF s, name

\* A hello that came in one piece went up as it was cut, and was counted.
SeveredInv ==
    /\ DOMAIN conn = DOMAIN NoConn
    /\ DOMAIN stats = {"connections", "fragmented"}
    /\ conn.stage \in {"none", "accepted", "open"} => stats.fragmented = 0
    /\ conn.stage # "none" =>
         \E f \in Flights : conn.flight = f.data /\ conn.name = f.name
    /\ conn.stage \in {"spliced", "done"}
         /\ conn.sent = Len(conn.flight) /\ Len(conn.name) > 1 =>
           conn.up = FragmentClientHello(conn.flight) /\ stats.fragmented = 1

\* The connection's steps keep it so.
LEMMA SeveredKept ==
    ASSUME SeveredInv, ConnMoves
    PROVE  SeveredInv'
<1>0. /\ {"stage", "flight", "name", "sent", "up", "reply"} \subseteq DOMAIN conn
      /\ {"connections", "fragmented"} \subseteq DOMAIN stats
  BY DEF SeveredInv, NoConn
<1>1. ASSUME UNCHANGED <<conn, stats>> PROVE SeveredInv'
  BY <1>1 DEF SeveredInv
<1>2. ASSUME NEW via, NEW target, NEW f \in Flights, OpenConn(via, target, f)
      PROVE  SeveredInv'
  <2>1. /\ conn' = [NoConn EXCEPT !.stage = "accepted", !.via = via,
                                  !.target = target, !.flight = f.data,
                                  !.name = f.name]
        /\ UNCHANGED stats /\ conn.stage = "none"
    BY <1>2 DEF OpenConn
  <2>2. /\ DOMAIN conn' = DOMAIN NoConn /\ conn'.stage = "accepted"
        /\ conn'.flight = f.data /\ conn'.name = f.name
    BY <2>1 DEF NoConn
  <2> QED BY <2>1, <2>2 DEF SeveredInv
<1>3. CASE Dial
  <2>1. /\ DOMAIN conn' = DOMAIN conn /\ conn'.flight = conn.flight /\ conn'.name = conn.name
        /\ conn'.stage \in {"closed", "loops", "open"} /\ conn.stage = "accepted"
    BY <1>0, <1>3 DEF Dial, ConnGoes
  <2>2. DOMAIN stats' = DOMAIN stats /\ stats'.fragmented = stats.fragmented
    BY <1>0, <1>3 DEF Dial, ConnGoes
  <2> QED BY <2>1, <2>2 DEF SeveredInv
<1>4. ASSUME NEW n \in Reads, FirstRead(n) PROVE SeveredInv'
  <2> DEFINE s == conn.flight
             framed == FragmentClientHello(SubSeq(s, 1, n))
  <2>1. /\ DOMAIN conn' = DOMAIN conn /\ conn'.flight = s /\ conn'.name = conn.name
        /\ conn'.stage \in {"closed", "spliced"} /\ conn'.sent = n /\ conn'.up = framed
        /\ conn.stage = "open"
    BY <1>0, <1>4 DEF FirstRead
  <2>2. /\ stats' = IF Len(framed) # n
                    THEN [stats EXCEPT !.fragmented = stats.fragmented + 1] ELSE stats
        /\ DOMAIN stats' = DOMAIN stats
    <3> HIDE DEF framed
    <3>1. stats' = IF Len(framed) # n
                   THEN [stats EXCEPT !.fragmented = stats.fragmented + 1] ELSE stats
      BY <1>4 DEF FirstRead, framed
    <3> QED BY <3>1
  <2>3. PICK f \in Flights : s = f.data /\ conn.name = f.name
    BY <2>1 DEF SeveredInv
  <2> HIDE DEF framed
  <2>4. ASSUME n = Len(s), Len(conn.name) > 1
        PROVE  framed = FragmentClientHello(s) /\ stats'.fragmented = 1
    <3>1. SubSeq(s, 1, n) = s
      <4>1. f.data \in Seq(Nat)
        BY FlightBytes
      <4> QED BY <2>3, <2>4, <4>1, SubSeqFull
    <3>2. framed = FragmentClientHello(s)
      BY <3>1 DEF framed
    <3>3. Len(framed) # n
      BY <2>3, <2>4, <3>2, FragmentSevers
    <3>4. stats.fragmented = 0
      BY <2>1 DEF SeveredInv
    <3>5. stats'.fragmented = 1
      BY <1>0, <2>2, <3>3, <3>4
    <3> QED BY <3>2, <3>5
  <2> QED BY <2>1, <2>2, <2>3, <2>4 DEF SeveredInv
<1>5. CASE Copy
  <2> DEFINE s == conn.flight
             rest == SubSeq(s, conn.sent + 1, Len(s))
  <2>1. /\ DOMAIN conn' = DOMAIN conn /\ conn'.flight = s /\ conn'.name = conn.name
        /\ conn'.stage = "done" /\ conn'.sent = conn.sent /\ conn'.up = conn.up \o rest
        /\ conn.stage = "spliced" /\ UNCHANGED stats
    BY <1>0, <1>5 DEF Copy
  <2>2. PICK f \in Flights : s = f.data /\ conn.name = f.name
    BY <2>1 DEF SeveredInv
  <2>3. ASSUME conn.sent = Len(s), Len(conn.name) > 1
        PROVE  conn.up \o rest = FragmentClientHello(s) /\ stats.fragmented = 1
    <3>1. conn.up = FragmentClientHello(s) /\ stats.fragmented = 1
      BY <2>1, <2>3 DEF SeveredInv
    <3>2. conn.up \in Seq(Nat)
      BY <2>2, <2>3, <3>1, FragmentSevers
    <3>3. rest = << >>
      <4>1. Len(s) \in Nat
        <5>1. f.data \in Seq(Nat)
          BY FlightBytes
        <5> QED BY <2>2, <5>1, LenProperties
      <4>2. Len(s) + 1 > Len(s)
        BY <4>1
      <4> QED BY <2>3, <4>1, <4>2, SubSeqEmpty
    <3>4. conn.up \o << >> = conn.up
      BY <3>2, ConcatEmptySeq
    <3> QED BY <3>1, <3>3, <3>4
  <2> HIDE DEF rest
  <2> QED BY <2>1, <2>2, <2>3 DEF SeveredInv
<1>6. CASE BrowserMoves \/ LaunchWithFilter
  BY <1>1, <1>6 DEF BrowserMoves, LaunchWithFilter
<1> QED BY <1>2, <1>3, <1>4, <1>5, <1>6
        DEF ConnMoves, Browser, Redirected, Direct

\* A hello whose name is in its server name extension, wherever among the
\* extensions that is, and nowhere else, leaves as two records, neither of which
\* shows the name, and is counted once.
THEOREM NameNeverShown == Spec => []NameSevered
<1>1. Init => SeveredInv
  <2> SUFFICES ASSUME Init PROVE SeveredInv
    OBVIOUS
  <2>1. conn = NoConn /\ NoConn.stage = "none"
    BY DEF Init, NoConn
  <2>2. stats.fragmented = 0 /\ DOMAIN stats = {"connections", "fragmented"}
    BY DEF Init
  <2> QED BY <2>1, <2>2 DEF SeveredInv
<1>2. SeveredInv /\ [Next]_vars => SeveredInv'
  <2> SUFFICES ASSUME SeveredInv, [Next]_vars PROVE SeveredInv'
    OBVIOUS
  <2>1. ConnMoves => SeveredInv'
    BY SeveredKept
  <2>2. UNCHANGED <<conn, stats>> => SeveredInv'
    BY DEF SeveredInv
  <2> QED BY <2>1, <2>2, WhoMoves DEF vars
<1>3. SeveredInv => NameSevered
  <2> SUFFICES ASSUME SeveredInv, conn.stage \in {"spliced", "done"},
                      conn.sent = Len(conn.flight), Len(conn.name) > 1
               PROVE  Severed(conn.up, conn.name) /\ stats.fragmented = 1
    BY DEF NameSevered, Severed
  <2>1. PICK f \in Flights : conn.flight = f.data /\ conn.name = f.name
    BY DEF SeveredInv
  <2>2. conn.up = FragmentClientHello(conn.flight) /\ stats.fragmented = 1
    BY DEF SeveredInv
  <2> QED BY <2>1, <2>2, FragmentSevers
<1> QED BY <1>1, <1>2, <1>3, PTL DEF Spec

===========================================================================
