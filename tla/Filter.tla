------------------------------- MODULE Filter -------------------------------
(***************************************************************************)
(* The filter bypass: the window's listeners and the commands that start   *)
(* and stop them (src-tauri/src/main.rs), the connections they carry       *)
(* (crates/dns-helper/src/dpi_proxy.rs), and the nftables redirect of the  *)
(* tunnel slice that `dns-helper filter-route' installs (filter_route.rs). *)
(*                                                                         *)
(* filter_start and filter_stop run one after the other on the window's    *)
(* main thread.  The listeners' tasks, the connections and the commands    *)
(* for the redirect run beside them, on the runtime's threads.             *)
(***************************************************************************)
EXTENDS Dpi, FiniteSets

CONSTANTS
    Flights,    \* what applications send first: the bytes, a name in them, and
                \* where the extensions up to the name's start
    Requests,   \* what browsers send to the CONNECT port, and its target
    Reads,      \* how many bytes a first read may return
    Routers,    \* the runs of filter_route_on that may be under way
    MaxStarts,  \* bound: how often filter_start starts listeners
    MaxRules,   \* bound: how many rules the table gets
    Foreign,    \* the sets of ports another program may hold
    Faults      \* what the environment may do, a subset of AllFaults

\* "nft":       nft -f fails
\* "nofile":    the file for nft cannot be written
\* "undeleted": nft delete table fails
\* "inslice":   the window itself runs in the tunnel slice
\* "inside":    the browser may be opened in the tunnel slice
AllFaults == {"nft", "nofile", "undeleted", "inslice", "inside"}

ASSUME FilterAssumption ==
    /\ MaxStarts \in Nat \ {0} /\ MaxRules \in Nat
    /\ IsFiniteSet(Routers)
    /\ Faults \subseteq AllFaults
    /\ \A f \in Flights : f.data # <<>> /\ {f.data, f.name} \subseteq Seq(0..255)
    /\ Reads \subseteq Nat

\* The hello p has extensions at exts, of which the last gives the name, and
\* the name is there and nowhere else.
NamedAt(p, name, exts) ==
    LET e == exts[Len(exts)]
        n == Len(name)
    IN  /\ exts # <<>> /\ exts \in Seq(DOMAIN p)
        /\ p[1] = HANDSHAKE_CLIENT_HELLO /\ exts[1] = Extensions(p)
        /\ \A k \in 1..Len(exts) - 1 :
             /\ U16be(p, exts[k]) # EXT_SNI
             /\ exts[k + 1] = exts[k] + 4 + U16be(p, exts[k] + 2)
        /\ U16be(p, e) = EXT_SNI /\ Byte(p, e + 6) = 0 /\ U16be(p, e + 7) = n
        /\ e + 8 + n <= Len(p)
        /\ \A i \in 0..Len(p) - n : SubSeq(p, i + 1, i + n) = name <=> i = e + 8

ASSUME HelloAssumption ==
    \A f \in Flights :
        Len(f.name) > 1 =>
            /\ IsOneRecord(f.data)
            /\ NamedAt(SubSeq(f.data, 6, Len(f.data)), f.name, f.exts)

VARIABLES
    tasks,      \* the spawned tasks: their stage, their ports, aborted or not
    handle,     \* FilterState.task, 0 for None
    running,    \* FilterState.running
    late,       \* a task has stored running = FALSE after a newer one's start
    stats,      \* FilterState.stats
    taken,      \* the ports another program holds
    routers,    \* where each filter_route_on is
    rules,      \* the redirect rules in the table detour_filter
    browser,    \* where a browser runs, and whether with --proxy-server
    conn        \* one connection

listeners == <<tasks, handle, running, late>>
redirect == <<routers, rules>>
vars == <<listeners, stats, taken, redirect, browser, conn>>

Ports == {"connect", "transparent"}
Tasks == 1..MaxStarts
NoTask == [stage |-> "none", ports |-> {}, aborted |-> FALSE]
NoConn == [stage |-> "none", via |-> "connect", target |-> "", flight |-> <<>>,
           name |-> <<>>, sent |-> 0, reply |-> 0, up |-> <<>>]

Init ==
    /\ tasks = [t \in Tasks |-> NoTask]
    /\ handle = 0
    /\ running = FALSE
    /\ late = FALSE
    /\ stats = [connections |-> 0, fragmented |-> 0]
    /\ taken \in Foreign
    /\ routers = [r \in Routers |-> "off"]
    /\ rules = 0
    /\ browser = "none"
    /\ conn = NoConn

Held == taken \cup UNION {tasks[t].ports : t \in Tasks}
Serves(port) == \E t \in Tasks : port \in tasks[t].ports /\ tasks[t].stage = "serving"

---------------------------------------------------------------------------
(* The listeners.                                                          *)

Gone(t) == tasks[t].stage \in {"none", "done"}

\* Mutant: the flag is not looked at.
StartAnyway(t) ==
    /\ tasks[t].stage = "none"
    /\ \A u \in 1..t - 1 : tasks[u].stage # "none"
    /\ running' = TRUE
    /\ tasks' = [tasks EXCEPT ![t].stage = "binding"]
    /\ handle' = t
    /\ UNCHANGED <<late, stats, taken, redirect, browser, conn>>

\* filter_start: the flag is set, the task is spawned and its handle replaces
\* the last one's, whose task may not be gone yet.
FilterStart(t) ==
    /\ tasks[t].stage = "none"
    /\ \A u \in 1..t - 1 : tasks[u].stage # "none"
    /\ ~running
    /\ running' = TRUE
    /\ tasks' = [tasks EXCEPT ![t].stage = "binding"]
    /\ handle' = t
    /\ UNCHANGED <<late, stats, taken, redirect, browser, conn>>

\* Mutant: the handle is dropped, which only detaches the task.
StopDetaches ==
    /\ running \/ handle # 0
    /\ handle' = 0
    /\ running' = FALSE
    /\ UNCHANGED <<tasks, late, stats, taken, redirect, browser, conn>>

\* filter_stop: abort takes effect when the task is next polled.
FilterStop ==
    /\ running \/ handle # 0
    /\ tasks' = [t \in Tasks |->
                   IF t = handle /\ ~Gone(t)
                   THEN [tasks[t] EXCEPT !.aborted = TRUE] ELSE tasks[t]]
    /\ handle' = 0
    /\ running' = FALSE
    /\ UNCHANGED <<late, stats, taken, redirect, browser, conn>>

\* The first poll: select! polls serve and serve_transparent, in either order,
\* and each binds its port or ends both.
Bind(t, port) ==
    /\ tasks[t].stage = "binding"
    /\ port \notin tasks[t].ports
    /\ LET was == tasks[t]
           is == IF port \in Held
                 THEN [was EXCEPT !.stage = "ending", !.ports = {}]
                 ELSE [was EXCEPT !.ports = was.ports \cup {port},
                                  !.stage = IF was.ports = {}
                                            THEN "binding" ELSE "serving"]
       IN tasks' = [tasks EXCEPT ![t] = is]
    /\ UNCHANGED <<handle, running, late, stats, taken, redirect, browser, conn>>

\* The task's last line; an abort that comes after the select! is too late.
TaskEnds(t) ==
    /\ tasks[t].stage = "ending"
    /\ running' = FALSE
    /\ late' \in BOOLEAN /\ (late' <=> late \/ (running /\ handle # t))
    /\ tasks' = [tasks EXCEPT ![t] = [NoTask EXCEPT !.stage = "done"]]
    /\ UNCHANGED <<handle, stats, taken, redirect, browser, conn>>

\* The runtime drops the future of an aborted task between two polls.
TaskDropped(t) ==
    /\ tasks[t].aborted
    /\ \/ tasks[t].stage = "serving"
       \/ tasks[t].stage = "binding" /\ tasks[t].ports = {}
    /\ tasks' = [tasks EXCEPT ![t] = [NoTask EXCEPT !.stage = "done"]]
    /\ UNCHANGED <<handle, running, late, stats, taken, redirect, browser, conn>>

---------------------------------------------------------------------------
(* The redirect.                                                           *)

RouteGoes(r, from, to) ==
    /\ routers[r] = from
    /\ routers' = [routers EXCEPT ![r] = to]

\* filter_route_on, up to pkexec
RouteOn(r) ==
    /\ RouteGoes(r, "off", "asked")
    /\ running
    /\ UNCHANGED <<listeners, stats, taken, rules, browser, conn>>

\* What down_steps leave: that the command fails is ignored.
Deleted == {0} \cup (IF "undeleted" \in Faults THEN {rules} ELSE {})

\* Authorised: down_steps come first.
RouteDeletes(r) ==
    /\ RouteGoes(r, "asked", "deleted")
    /\ rules' \in Deleted
    /\ UNCHANGED <<listeners, stats, taken, browser, conn>>

RouteCancelled(r) ==
    /\ RouteGoes(r, "asked", "off")
    /\ UNCHANGED <<listeners, stats, taken, rules, browser, conn>>

\* nft -f adds the file's rule to the table, at once; if it fails, down_steps
\* are run again; without the file they are not.
RouteInstalls(r) ==
    /\ RouteGoes(r, "deleted", "off")
    /\ \/ rules < MaxRules /\ rules' = rules + 1
       \/ "nft" \in Faults /\ rules' \in Deleted
       \/ "nofile" \in Faults /\ UNCHANGED rules
    /\ UNCHANGED <<listeners, stats, taken, browser, conn>>

\* filter_route_off, from pkexec to its end
RouteOff ==
    /\ rules > 0
    /\ rules' \in Deleted
    /\ UNCHANGED <<listeners, stats, taken, routers, browser, conn>>

---------------------------------------------------------------------------
(* A connection.                                                           *)

Bypass == {"loopback", "private"}   \* BYPASS_V4

OpenConn(via, target, f) ==
    /\ conn.stage = "none"
    /\ conn' = [NoConn EXCEPT !.stage = "accepted", !.via = via,
                              !.target = target, !.flight = f.data,
                              !.name = f.name]
    /\ UNCHANGED <<listeners, stats, taken, redirect, browser>>

\* The user opens the browser, or quits it.
BrowserMoves ==
    /\ \/ browser = "none" /\ browser' = "plain"
       \/ browser = "none" /\ "inside" \in Faults /\ browser' = "inside"
       \/ browser # "none" /\ browser' = "none"
    /\ UNCHANGED <<listeners, stats, taken, redirect, conn>>

\* launch_with_filter: one that runs outside the slice refuses it; one that
\* runs inside takes the new window without the flag, whatever the page says.
LaunchWithFilter ==
    /\ running
    /\ browser # "plain"
    /\ browser' = CASE browser = "none" -> "filtered"
                    [] browser = "inside" -> "claimed"
                    [] OTHER -> browser
    /\ UNCHANGED <<listeners, stats, taken, redirect, conn>>

\* A browser launched with the flag sends req to the CONNECT port.
Browser(req, f) ==
    /\ browser = "filtered"
    /\ Serves("connect")
    /\ OpenConn("connect", req, f)

\* An application of the slice connects to port 443 of target, and the rule
\* sends it to the transparent port.
Redirected(target, f) ==
    /\ rules > 0
    /\ target \notin Bypass
    /\ Serves("transparent")
    /\ OpenConn("transparent", target, f)

\* Something connects to the transparent port itself: the original
\* destination is that port.
Direct(f) ==
    /\ Serves("transparent")
    /\ OpenConn("transparent", "loopback", f)

ConnGoes(to) == conn' = [conn EXCEPT !.stage = to]

\* handle and handle_transparent, up to splice.  A head that is no CONNECT
\* with a host and a port gets 405, one that ends early or a loopback target
\* nothing; an upstream that does not answer gets a browser 502.  (Heads of
\* more than 8192 bytes, which are read no further, are left out.)
Dial ==
    /\ conn.stage = "accepted"
    /\ \/ /\ conn.via = "connect" /\ conn.target = "malformed"
          /\ conn' = [conn EXCEPT !.stage = "closed", !.reply = 405]
          /\ UNCHANGED stats
       \/ /\ \/ conn.via = "connect" /\ conn.target = "eof"
             \/ conn.via = "transparent" /\ conn.target = "loopback"
          /\ ConnGoes("closed")
          /\ UNCHANGED stats
       \/ /\ conn.target = "dead"
          /\ conn' = [conn EXCEPT !.stage = "closed",
                                  !.reply = IF conn.via = "connect" THEN 502 ELSE 0]
          /\ UNCHANGED stats
       \/ /\ conn.target = "site"
          /\ conn' = [conn EXCEPT
                        !.stage = IF "inslice" \in Faults /\ rules > 0
                                  THEN "loops" ELSE "open",
                        !.reply = IF conn.via = "connect" THEN 200 ELSE 0]
          /\ stats' = [stats EXCEPT !.connections = @ + 1]
    /\ UNCHANGED <<listeners, taken, redirect, browser>>

\* The first read of splice gets n bytes, or the end of the stream.
FirstRead(n) ==
    /\ conn.stage = "open"
    /\ n <= Len(conn.flight)
    /\ LET first == SubSeq(conn.flight, 1, n)
           framed == FragmentClientHello(first)
       IN /\ conn' = [conn EXCEPT
                        !.stage = IF n = 0 THEN "closed" ELSE "spliced",
                        !.sent = n, !.up = framed]
          /\ stats' = IF Len(framed) # n
                      THEN [stats EXCEPT !.fragmented = @ + 1] ELSE stats
    /\ UNCHANGED <<listeners, taken, redirect, browser>>

\* Mutant: what the first read took in is copied again.
CopyAgain ==
    /\ conn.stage = "spliced"
    /\ conn' = [conn EXCEPT !.stage = "done", !.up = @ \o conn.flight]
    /\ UNCHANGED <<listeners, stats, taken, redirect, browser>>

\* io::copy: the rest, as it is
Copy ==
    /\ conn.stage = "spliced"
    /\ conn' = [conn EXCEPT
                  !.stage = "done",
                  !.up = @ \o SubSeq(conn.flight, conn.sent + 1, Len(conn.flight))]
    /\ UNCHANGED <<listeners, stats, taken, redirect, browser>>

Next ==
    \/ \E t \in Tasks : FilterStart(t) \/ TaskEnds(t) \/ TaskDropped(t)
    \/ \E t \in Tasks, port \in Ports : Bind(t, port)
    \/ FilterStop
    \/ \E r \in Routers :
         RouteOn(r) \/ RouteDeletes(r) \/ RouteCancelled(r) \/ RouteInstalls(r)
    \/ RouteOff
    \/ BrowserMoves
    \/ LaunchWithFilter
    \/ \E f \in Flights :
         \/ \E req \in Requests : Browser(req, f)
         \/ \E target \in {"site", "dead"} \cup Bypass : Redirected(target, f)
         \/ Direct(f)
    \/ Dial
    \/ \E n \in Reads : FirstRead(n)
    \/ Copy

Spec == Init /\ [][Next]_vars

\* The runtime polls a task that is ready, and one that was aborted.
Fairness ==
    \A t \in Tasks :
        /\ WF_vars(TaskEnds(t))
        /\ WF_vars(TaskDropped(t))
        /\ WF_vars(\E port \in Ports : Bind(t, port))

FairSpec == Spec /\ Fairness

---------------------------------------------------------------------------
(* Properties.                                                             *)

\* Where the record at i ends, and whether it is there in full
RecordEnd(bytes, i) == i + 4 + U16be(bytes, i + 3)
IsWhole(bytes, i) == i + 4 <= Len(bytes) /\ RecordEnd(bytes, i) <= Len(bytes)

\* The records of a stream of bytes that are there in full, by their bodies
Records(bytes) ==
    LET from[i \in 1..Len(bytes) + 1] ==
          IF IsWhole(bytes, i)
          THEN <<SubSeq(bytes, i + 5, RecordEnd(bytes, i))>>
                 \o from[RecordEnd(bytes, i) + 1]
          ELSE <<>>
    IN from[1]

\* The messages they carry: the bodies one behind the other
Bodies(bytes) ==
    LET from[i \in 1..Len(bytes) + 1] ==
          IF IsWhole(bytes, i)
          THEN SubSeq(bytes, i + 5, RecordEnd(bytes, i))
                 \o from[RecordEnd(bytes, i) + 1]
          ELSE <<>>
    IN from[1]

Contains(seq, part) ==
    \E i \in 0..Len(seq) - Len(part) : SubSeq(seq, i + 1, i + Len(part)) = part

\* The variables have their types.
TypeOK ==
    /\ \A t \in Tasks :
         /\ tasks[t].stage \in {"none", "binding", "serving", "ending", "done"}
         /\ tasks[t].ports \subseteq Ports
         /\ tasks[t].aborted \in BOOLEAN
    /\ handle \in 0..MaxStarts
    /\ {running, late} \subseteq BOOLEAN
    /\ rules \in Nat
    /\ "undeleted" \notin Faults => rules <= Cardinality(Routers)
    /\ browser \in {"none", "plain", "inside", "filtered", "claimed"}
    /\ conn.reply \in {0, 200, 405, 502}
    /\ stats.fragmented <= stats.connections

\* However the first flight is cut up by the network, and whatever it is, the
\* server gets the handshake the application sent: the same messages in other
\* records, and nothing twice (dpi.rs, 77-109; dpi_proxy.rs, 108-136): "the
\* real server reassembles it and completes the handshake" (dpi.rs, 10).
SameHandshake ==
    conn.stage = "done" => Bodies(conn.up) = Bodies(conn.flight)

\* A hello that arrives in one piece never shows its name to a filter that
\* reads single records (dpi.rs, 8-12), and is counted once; a name of one
\* byte cannot be cut (dpi.rs, 64).
NameSevered ==
    conn.stage \in {"spliced", "done"}
        /\ conn.sent = Len(conn.flight) /\ Len(conn.name) > 1 =>
      /\ \A i \in DOMAIN Records(conn.up) : ~Contains(Records(conn.up)[i], conn.name)
      /\ stats.fragmented = 1

\* Between commands, what the page shows is so, both ways: the flag is set only
\* while the task that filter_stop would abort is there, about to bind, serving
\* or about to say that it could not; and whatever listens was aborted or is
\* that task, with the flag set, however early or often the filter is started
\* and whatever binds fail (main.rs of the window, 391-436).  Only a task that
\* ended by itself, was told to stop, and stores its FALSE after the next start
\* breaks the second half: FlagExact below.
RunningTruthful ==
    /\ running => \E t \in Tasks :
                    handle = t /\ ~Gone(t) /\ ~tasks[t].aborted
    /\ \A t \in Tasks :
         tasks[t].ports # {} =>
            tasks[t].aborted \/ (handle = t /\ running) \/ late

\* Once it is stopped, or could not start, the ports come free, unless it is
\* started again or a store came late: abort takes effect later, and a failed
\* bind ends both listeners (main.rs of the window, 418-436).
StopFrees ==
    ~running ~> running \/ late \/ \A t \in Tasks : tasks[t].ports = {}

---------------------------------------------------------------------------
(* Statements of the repository that some behaviour of the code refutes.   *)

\* "Refuse to connect back to ourselves: without this a misplaced rule would
\* make the proxy loop forever on its own traffic." (dpi_proxy.rs, 92-93)
NoLoop == conn.stage # "loops"

\* "Filter bypass running" (main.rs of the window, 426): filter_status says so
\* of whatever listens and was not told to stop.
FlagExact ==
    \A t \in Tasks :
        tasks[t].ports # {} => tasks[t].aborted \/ (handle = t /\ running)

\* "Filter bypass running" (main.rs of the window, 426): as long as nobody
\* stops it, or the ports are taken.
StartLasts ==
    \A t \in Tasks :
        tasks[t].stage = "ending" => tasks[t].aborted \/ taken # {}

\* "Launched ... through the filter bypass." (main.rs of the window, 508)
LaunchedFiltered == browser # "claimed"

\* "Apps in ... now have their HTTPS routed through the filter bypass"
\* (dns-helper/src/main.rs, 262): where the rule sends it, somebody listens.
RedirectServed == rules > 0 => running

\* One rule redirects at most: "Replace any previous rule set rather
\* than stacking." (dns-helper/src/main.rs, 238)
OneRule == rules <= 1

\* "If `data` is not a single handshake record, or has no SNI, it is returned
\* unchanged" (dpi.rs, 72-73)
Unchanged ==
    conn.stage = "spliced" /\ conn.name = <<>> =>
        conn.up = SubSeq(conn.flight, 1, conn.sent)

=============================================================================
