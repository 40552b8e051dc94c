----------------------------- MODULE Forwarder -----------------------------
(***************************************************************************)
(* Forwarding to the system's own resolvers: Forwarder::forward and        *)
(* try_one of crates/dns-helper/src/upstream.rs, called by Proxy::handle   *)
(* for the names the policy keeps off DoH.                                 *)
(*                                                                         *)
(* Every attempt binds a fresh UDP socket, connects it to one server,      *)
(* sends the client's bytes and returns the first datagram that arrives,   *)
(* unread, or gives up after UPSTREAM_TIMEOUT.  A packet may be lost,      *)
(* delayed past the timeout, or duplicated.                                *)
(***************************************************************************)
EXTENDS Naturals, FiniteSets

CONSTANTS
    Tasks,      \* concurrent calls of Proxy::handle
    Queries,    \* the clients' queries, id and question
    Ports,      \* ephemeral UDP ports
    NServers,   \* the number of upstream servers
    Servfail,   \* the answer when every server failed
    PortReuse   \* the kernel may give a port again while a reply to its last
                \* owner is still on the way

NoPort == "noport"

ASSUME ServersAssumption == NServers \in Nat
ASSUME PortsAssumption == NoPort \notin Ports
ASSUME QueriesAssumption == Servfail \notin Queries /\ Queries # {}
ASSUME ReuseAssumption == PortReuse \in BOOLEAN

VARIABLES
    pc,     \* where each task stands
    ask,    \* the query it forwards
    at,     \* the server it tries
    sock,   \* the port of its socket
    reply,  \* what handle answers: the query the bytes reply to, or Servfail
    net,    \* packets on the way: queries and replies
    failed  \* ghost: the servers that failed in this lookup

forwarderVars == <<pc, ask, at, sock, reply, net, failed>>

Servers == 1..NServers
Packet == [kind : {"query", "reply"}, port : Ports, server : Servers,
           q : Queries]

ForwarderInit ==
    /\ pc = [t \in Tasks |-> "idle"]
    /\ ask \in [Tasks -> {CHOOSE q \in Queries : TRUE}]
    /\ at = [t \in Tasks |-> 1]
    /\ sock = [t \in Tasks |-> NoPort]
    /\ reply = [t \in Tasks |-> Servfail]
    /\ net = {}
    /\ failed = [t \in Tasks |-> {}]

\* handle: Route::SystemUpstream; forward, Err(NoUpstreams) without servers
Forward(t, q) ==
    /\ pc[t] = "idle"
    /\ pc' = [pc EXCEPT ![t] = IF NServers = 0 THEN "reply" ELSE "open"]
    /\ ask' = [ask EXCEPT ![t] = q]
    /\ at' = [at EXCEPT ![t] = 1]
    /\ UNCHANGED <<sock, reply, net, failed>>

Bound(p) == \E t \in Tasks : sock[t] = p
Expected(p) == \E m \in net : m.port = p

\* Mutant: one socket is shared by all lookups.
SharedPort(p) == TRUE

\* The kernel's choice of an ephemeral port
FreePort(p) == ~Bound(p) /\ (PortReuse \/ ~Expected(p))

\* bind, connect, send
Open(t) ==
    /\ pc[t] = "open"
    /\ \E p \in Ports :
         /\ FreePort(p)
         /\ sock' = [sock EXCEPT ![t] = p]
         /\ net' = net \cup {[kind |-> "query", port |-> p,
                              server |-> at[t], q |-> ask[t]]}
    /\ pc' = [pc EXCEPT ![t] = "wait"]
    /\ UNCHANGED <<ask, at, reply, failed>>

\* Mutant: an error ends the loop.
GiveUp(t) ==
    pc' = [pc EXCEPT ![t] = "reply"] /\ UNCHANGED at

\* The next server, or Err(AllFailed)
TryNext(t) ==
    IF at[t] < NServers
    THEN /\ at' = [at EXCEPT ![t] = @ + 1]
         /\ pc' = [pc EXCEPT ![t] = "open"]
    ELSE pc' = [pc EXCEPT ![t] = "reply"] /\ UNCHANGED at

\* Mutant: recv waits for as long as it takes.
WaitOn(t) == FALSE

\* No reply within UPSTREAM_TIMEOUT, or an error (a closed port at the
\* server); dropping the socket closes it
TimeOut(t) ==
    /\ pc[t] = "wait"
    /\ sock' = [sock EXCEPT ![t] = NoPort]
    /\ failed' = [failed EXCEPT ![t] = @ \cup {at[t]}]
    /\ TryNext(t)
    /\ UNCHANGED <<ask, reply, net>>

\* bind, connect or send fails
OpenFails(t) ==
    /\ pc[t] = "open"
    /\ failed' = [failed EXCEPT ![t] = @ \cup {at[t]}]
    /\ TryNext(t)
    /\ UNCHANGED <<ask, sock, reply, net>>

\* recv: any datagram from the connected server to this port
Recv(t) ==
    /\ pc[t] = "wait"
    /\ \E m \in net :
         /\ m.kind = "reply"
         /\ m.port = sock[t]
         /\ m.server = at[t]
         /\ reply' = [reply EXCEPT ![t] = m.q]
         /\ net' = net \ {m}
    /\ sock' = [sock EXCEPT ![t] = NoPort]
    /\ pc' = [pc EXCEPT ![t] = "reply"]
    /\ UNCHANGED <<ask, at, failed>>

\* handle returns the bytes, or its own SERVFAIL.
Reply(t) ==
    /\ pc[t] = "reply"
    /\ pc' = [pc EXCEPT ![t] = "idle"]
    /\ ask' = [ask EXCEPT ![t] = CHOOSE q \in Queries : TRUE]
    /\ at' = [at EXCEPT ![t] = 1]
    /\ reply' = [reply EXCEPT ![t] = Servfail]
    /\ failed' = [failed EXCEPT ![t] = {}]
    /\ UNCHANGED <<sock, net>>

---------------------------------------------------------------------------
(* The servers and the network.                                            *)

\* A server answers a query; the query may have been duplicated on the way.
ServerReplies ==
    /\ \E m \in net, dup \in BOOLEAN :
         /\ m.kind = "query"
         /\ net' = (IF dup THEN net ELSE net \ {m})
                     \cup {[m EXCEPT !.kind = "reply"]}
         /\ net' # net
    /\ UNCHANGED <<pc, ask, at, sock, reply, failed>>

\* A packet is lost, or reaches a port nobody listens on.
Lose ==
    /\ \E m \in net : net' = net \ {m}
    /\ UNCHANGED <<pc, ask, at, sock, reply, failed>>

Network == ServerReplies \/ Lose

TryOne(t) ==
    \/ Open(t)
    \/ OpenFails(t)
    \/ Recv(t)
    \/ TimeOut(t)

Serve(t) == TryOne(t) \/ Reply(t)

ForwarderNext ==
    \/ \E t \in Tasks : Serve(t) \/ \E q \in Queries : Forward(t, q)
    \/ Network

ForwarderSpec == ForwarderInit /\ [][ForwarderNext]_forwarderVars

\* A spawned task is polled until it ends; tokio's timer fires.  Nothing is
\* assumed of the network.
FairForwarder ==
    ForwarderSpec /\ \A t \in Tasks : WF_forwarderVars(Serve(t))

---------------------------------------------------------------------------
(* Properties.                                                             *)

\* The tasks, their sockets and the packets on the way have their types.
ForwarderTyped ==
    /\ pc \in [Tasks -> {"idle", "open", "wait", "reply"}]
    /\ ask \in [Tasks -> Queries]
    /\ at \in [Tasks -> 1..(IF NServers = 0 THEN 1 ELSE NServers)]
    /\ sock \in [Tasks -> Ports \cup {NoPort}]
    /\ reply \in [Tasks -> Queries \cup {Servfail}]
    /\ net \subseteq Packet
    /\ failed \in [Tasks -> SUBSET Servers]

\* The bytes a client is given reply to its own query, although the reply is
\* not looked at: as long as no port is given out again while a reply to its
\* last owner is on the way (upstream.rs, 61-62).
OwnReply ==
    \A t \in Tasks :
        pc[t] = "reply" /\ reply[t] # Servfail => reply[t] = ask[t]

\* A client is told SERVFAIL only after every server has failed it in this
\* very lookup (upstream.rs, 43).
AllServersTried ==
    \A t \in Tasks :
        pc[t] = "reply" /\ reply[t] = Servfail => failed[t] = Servers

\* Every forwarded query is answered, even when every packet is lost: "a
\* client waiting on a dropped packet is worse than a client told the lookup
\* failed" (proxy.rs, 174-175).
ForwardAnswered ==
    \A t \in Tasks : (pc[t] = "open") ~> (pc[t] = "idle")

---------------------------------------------------------------------------
(* A statement of the repository that the code refutes.                    *)

\* "Bind a fresh ephemeral socket per query so replies cannot be
\* cross-matched between concurrent lookups." (upstream.rs, 61-62)
NeverCrossMatched ==
    \A t, u \in Tasks :
        /\ pc[t] = "reply" /\ pc[u] \in {"open", "wait"}
        /\ ask[t] # ask[u]
        => reply[t] # ask[u]

============================================================================
