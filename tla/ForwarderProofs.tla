-------------------------- MODULE ForwarderProofs --------------------------
(* Proofs about Forwarder, for every set of tasks, of queries and of ports *)
(* and any number of servers.                                              *)
EXTENDS Forwarder, TLAPS

\* A task that asks a server has one to ask, and only a task that waits has a
\* socket.
Asks ==
    \A t \in Tasks :
        /\ pc[t] \in {"open", "wait"} => at[t] \in Servers
        /\ sock[t] # NoPort <=> pc[t] = "wait"

\* There is a query to stand for none.
LEMMA NoQueryIsQuery == (CHOOSE q \in Queries : TRUE) \in Queries
BY QueriesAssumption

\* The next server is a server; past the last one the lookup is over.
LEMMA TryNextTypes ==
    ASSUME NEW t \in Tasks, ForwarderTyped, Asks, TryNext(t),
           pc[t] \in {"open", "wait"}
    PROVE  /\ pc' \in [Tasks -> {"idle", "open", "wait", "reply"}]
           /\ at' \in [Tasks -> 1..(IF NServers = 0 THEN 1 ELSE NServers)]
           /\ pc'[t] = "open" => at'[t] \in Servers
           /\ pc'[t] \in {"open", "reply"}
           /\ \A u \in Tasks \ {t} : pc'[u] = pc[u] /\ at'[u] = at[u]
BY ServersAssumption DEF ForwarderTyped, Asks, TryNext, Servers

\* Every step of a lookup and of the network keeps both.
LEMMA ForwarderTypes ==
    ForwarderTyped /\ Asks /\ [ForwarderNext]_forwarderVars
        => ForwarderTyped' /\ Asks'
<1> SUFFICES ASSUME ForwarderTyped, Asks, [ForwarderNext]_forwarderVars
             PROVE  ForwarderTyped' /\ Asks'
  OBVIOUS
<1> USE NoQueryIsQuery, ServersAssumption, PortsAssumption
    DEF ForwarderTyped, Asks, Servers, Packet
<1>1. ASSUME NEW t \in Tasks, NEW q \in Queries, Forward(t, q)
      PROVE  ForwarderTyped' /\ Asks'
  BY <1>1 DEF Forward
<1>2. ASSUME NEW t \in Tasks, Open(t) PROVE ForwarderTyped' /\ Asks'
  BY <1>2 DEF Open
<1>3. ASSUME NEW t \in Tasks, OpenFails(t) PROVE ForwarderTyped' /\ Asks'
  BY <1>3, TryNextTypes DEF OpenFails
<1>4. ASSUME NEW t \in Tasks, Recv(t) PROVE ForwarderTyped' /\ Asks'
  BY <1>4 DEF Recv
<1>5. ASSUME NEW t \in Tasks, TimeOut(t) PROVE ForwarderTyped' /\ Asks'
  BY <1>5, TryNextTypes DEF TimeOut
<1>6. ASSUME NEW t \in Tasks, Reply(t) PROVE ForwarderTyped' /\ Asks'
  BY <1>6 DEF Reply
<1>7. ASSUME ServerReplies PROVE ForwarderTyped' /\ Asks'
  BY <1>7 DEF ServerReplies
<1>8. ASSUME Lose PROVE ForwarderTyped' /\ Asks'
  BY <1>8 DEF Lose
<1>9. CASE UNCHANGED forwarderVars
  BY <1>9 DEF forwarderVars
<1> QED
  BY <1>1, <1>2, <1>3, <1>4, <1>5, <1>6, <1>7, <1>8, <1>9
     DEF ForwarderNext, Serve, TryOne, Network

\* No lookup is under way at first.
LEMMA ForwarderStarts == ForwarderInit => ForwarderTyped /\ Asks
BY NoQueryIsQuery, ServersAssumption, PortsAssumption
   DEF ForwarderInit, ForwarderTyped, Asks, Servers, Packet

---------------------------------------------------------------------------
(* Which servers were tried.                                               *)

\* The failures of a lookup are the servers before the one it tries, and it
\* has no answer before it is over.
Tried ==
    \A t \in Tasks :
        /\ pc[t] = "idle" => failed[t] = {}
        /\ pc[t] \in {"open", "wait"} => failed[t] = 1..(at[t] - 1)
        /\ pc[t] # "reply" => reply[t] = Servfail
        /\ pc[t] = "reply" /\ reply[t] = Servfail => failed[t] = Servers

\* A failed attempt adds its server; after the last one all have failed.
LEMMA FailTried ==
    ASSUME NEW t \in Tasks, ForwarderTyped, Asks, Tried, TryNext(t),
           pc[t] \in {"open", "wait"},
           failed' = [failed EXCEPT ![t] = @ \cup {at[t]}],
           UNCHANGED reply
    PROVE  Tried'
<1>1. failed'[t] = 1..at[t]
  BY ServersAssumption DEF ForwarderTyped, Asks, Tried, Servers
<1>2. \A u \in Tasks \ {t} :
        /\ pc'[u] = pc[u] /\ at'[u] = at[u]
        /\ failed'[u] = failed[u] /\ reply'[u] = reply[u]
  BY TryNextTypes DEF ForwarderTyped
<1>3. CASE at[t] < NServers
  <2>1. at'[t] = at[t] + 1 /\ pc'[t] = "open"
    BY <1>3 DEF TryNext, ForwarderTyped
  <2>2. failed'[t] = 1..(at'[t] - 1)
    BY <1>1, <2>1, ServersAssumption DEF ForwarderTyped, Asks, Servers
  <2> QED BY <1>2, <2>1, <2>2 DEF Tried
<1>4. CASE ~(at[t] < NServers)
  <2>1. at[t] = NServers /\ pc'[t] = "reply"
    BY <1>4, ServersAssumption DEF TryNext, ForwarderTyped, Asks, Servers
  <2> QED BY <1>1, <1>2, <2>1 DEF Tried, Servers
<1> QED BY <1>3, <1>4

\* Every step keeps the account of the servers that failed.
LEMMA TriedStep ==
    ForwarderTyped /\ Asks /\ Tried /\ [ForwarderNext]_forwarderVars => Tried'
<1> SUFFICES ASSUME ForwarderTyped, Asks, Tried, [ForwarderNext]_forwarderVars
             PROVE  Tried'
  OBVIOUS
<1> USE DEF ForwarderTyped, Tried
<1>1. ASSUME NEW t \in Tasks, NEW q \in Queries, Forward(t, q) PROVE Tried'
  <2>1. CASE NServers = 0
    <3>1. Servers = {}
      BY <2>1 DEF Servers
    <3> QED BY <1>1, <2>1, <3>1 DEF Forward
  <2>2. CASE NServers # 0
    <3>1. 1..(1 - 1) = {}
      OBVIOUS
    <3> QED BY <1>1, <2>2, <3>1 DEF Forward
  <2> QED BY <2>1, <2>2
<1>2. ASSUME NEW t \in Tasks, Open(t) PROVE Tried'
  BY <1>2 DEF Open
<1>3. ASSUME NEW t \in Tasks, OpenFails(t) PROVE Tried'
  BY <1>3, FailTried DEF OpenFails
<1>4. ASSUME NEW t \in Tasks, Recv(t) PROVE Tried'
  BY <1>4, QueriesAssumption DEF Recv, Packet
<1>5. ASSUME NEW t \in Tasks, TimeOut(t) PROVE Tried'
  BY <1>5, FailTried DEF TimeOut
<1>6. ASSUME NEW t \in Tasks, Reply(t) PROVE Tried'
  BY <1>6 DEF Reply
<1>7. ASSUME Network PROVE Tried'
  BY <1>7 DEF Network, ServerReplies, Lose
<1>8. CASE UNCHANGED forwarderVars
  BY <1>8 DEF forwarderVars
<1> QED
  BY <1>1, <1>2, <1>3, <1>4, <1>5, <1>6, <1>7, <1>8
     DEF ForwarderNext, Serve, TryOne

\* Whatever is lost or late, forward gives up only after every server has
\* failed.
THEOREM TriesAllServers == ForwarderSpec => []AllServersTried
<1>1. ForwarderInit => Tried
  BY DEF ForwarderInit, Tried
<1>2. Tried => AllServersTried
  BY DEF Tried, AllServersTried
<1> QED
  BY <1>1, <1>2, ForwarderStarts, ForwarderTypes, TriedStep, PTL
     DEF ForwarderSpec

---------------------------------------------------------------------------
(* Whose reply it is.                                                      *)

\* No two tasks have one port, and what is on the way to a task's port is
\* about its query.
Owned ==
    /\ \A t, u \in Tasks : sock[t] # NoPort /\ sock[t] = sock[u] => t = u
    /\ \A t \in Tasks, m \in net : m.port = sock[t] => m.q = ask[t]
    /\ OwnReply

\* A fresh socket has a port nobody holds and no packet is on its way to.
LEMMA OwnedStep ==
    ASSUME ~PortReuse
    PROVE  ForwarderTyped /\ Asks /\ Tried /\ Owned
             /\ [ForwarderNext]_forwarderVars => Owned'
<1> SUFFICES ASSUME ForwarderTyped, Asks, Tried, Owned,
                    [ForwarderNext]_forwarderVars
             PROVE  Owned'
  OBVIOUS
<1> USE PortsAssumption DEF ForwarderTyped, Asks, Owned, OwnReply, Packet
<1>1. ASSUME NEW t \in Tasks, NEW q \in Queries, Forward(t, q) PROVE Owned'
  <2>1. sock[t] = NoPort /\ reply[t] = Servfail
    BY <1>1 DEF Forward, Tried
  <2> QED BY <1>1, <2>1 DEF Forward
<1>2. ASSUME NEW t \in Tasks, Open(t) PROVE Owned'
  <2>1. PICK p \in Ports :
          /\ FreePort(p)
          /\ sock' = [sock EXCEPT ![t] = p]
          /\ net' = net \cup {[kind |-> "query", port |-> p,
                               server |-> at[t], q |-> ask[t]]}
    BY <1>2 DEF Open
  <2>2. \A u \in Tasks : sock[u] # p
    BY <2>1 DEF FreePort, Bound
  <2>3. \A m \in net : m.port # p
    BY <2>1 DEF FreePort, Expected
  <2>4. ask' = ask /\ reply' = reply /\ pc' = [pc EXCEPT ![t] = "wait"]
    BY <1>2 DEF Open
  <2>5. \A u, v \in Tasks : sock'[u] # NoPort /\ sock'[u] = sock'[v] => u = v
    BY <2>1, <2>2
  <2>6. \A u \in Tasks, m \in net' : m.port = sock'[u] => m.q = ask'[u]
    BY <2>1, <2>2, <2>3, <2>4
  <2>7. OwnReply'
    BY <2>4
  <2> QED BY <2>5, <2>6, <2>7
<1>3. ASSUME NEW t \in Tasks, OpenFails(t) PROVE Owned'
  BY <1>3 DEF OpenFails, TryNext, Tried
<1>4. ASSUME NEW t \in Tasks, Recv(t) PROVE Owned'
  BY <1>4 DEF Recv
<1>5. ASSUME NEW t \in Tasks, TimeOut(t) PROVE Owned'
  BY <1>5 DEF TimeOut, TryNext, Tried
<1>6. ASSUME NEW t \in Tasks, Reply(t) PROVE Owned'
  BY <1>6 DEF Reply
<1>7. ASSUME ServerReplies PROVE Owned'
  BY <1>7 DEF ServerReplies
<1>8. ASSUME Lose PROVE Owned'
  BY <1>8 DEF Lose
<1>9. CASE UNCHANGED forwarderVars
  BY <1>9 DEF forwarderVars
<1> QED
  BY <1>1, <1>2, <1>3, <1>4, <1>5, <1>6, <1>7, <1>8, <1>9
     DEF ForwarderNext, Serve, TryOne, Network

\* forward_one_udp does not look at the reply's id, but the reply is to its own
\* query, unless the kernel gives out a port that a packet is still on its way
\* to.
THEOREM RepliesAreOwn ==
    ASSUME ~PortReuse
    PROVE  ForwarderSpec => []OwnReply
<1>1. ForwarderInit => Owned
  BY DEF ForwarderInit, Owned, OwnReply
<1>2. Owned => OwnReply
  BY DEF Owned
<1>3. ForwarderInit => Tried
  BY DEF ForwarderInit, Tried
<1> QED
  BY <1>1, <1>2, <1>3, ForwarderStarts, ForwarderTypes, TriedStep, OwnedStep,
     PTL
     DEF ForwarderSpec

============================================================================
