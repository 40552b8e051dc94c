------------------------------- MODULE Proxy -------------------------------
(***************************************************************************)
(* The local DNS proxy: Proxy::handle, the UDP and TCP loops, truncation   *)
(* and the query log of crates/dns-helper/src/proxy.rs, with the status    *)
(* writer of status.rs reading that log.                                   *)
(*                                                                         *)
(* A task of the runtime serves one query.  What goes to the system's      *)
(* resolvers goes through the Forwarder, step by step; what goes to DoH    *)
(* ends as Resolver says it does, in a message or an error.                *)
(***************************************************************************)
EXTENDS Forwarder, Policy

CONSTANTS
    Rules,          \* the policy this helper runs with
    Sizes,          \* the lengths a reply may have
    LogCapacity,    \* LOG_CAPACITY
    LogSlice,       \* LOG_SLICE
    MaxQueries      \* bound: queries that arrive

\* A query as the code sees it: the transport it comes over, whether it
\* parses, its id and name, and the payload size its EDNS record advertises.
NoEdns == 0
Parses == {"ok", "noquestion", "garbage", "short"}

ASSUME ProxyAssumption ==
    /\ \A q \in Queries :
          /\ q.via \in {"udp", "tcp"} /\ q.parse \in Parses
          /\ q.id \in Nat \ {0} /\ q.edns \in Nat
    /\ LogCapacity \in Nat \ {0} /\ LogSlice \in Nat /\ MaxQueries \in Nat

VARIABLES
    stage,      \* where each task stands in serve_udp, serve_tcp and handle
    query,      \* the query it serves
    out,        \* its response: what it is, and the id the bytes carry
    entries,    \* QueryLog.entries, oldest first: the route each query took
    total,      \* QueryLog.total
    writer,     \* the status writer: its next read, and what it has read
    arrived     \* ghost: the queries that have come

proxyVars == <<stage, query, out, entries, total, writer, arrived>>
vars == <<forwarderVars, proxyVars>>

NoQuery == CHOOSE q \in Queries : TRUE
Asleep == [at |-> 1, recent |-> <<>>, total |-> 0]
NoResponse == [kind |-> "none", id |-> 0]
FormErr(id) == [kind |-> "formerr", id |-> id]
ServFail(id) == [kind |-> "servfail", id |-> id]

Init ==
    /\ ForwarderInit
    /\ stage = [t \in Tasks |-> "idle"]
    /\ query = [t \in Tasks |-> NoQuery]
    /\ out = [t \in Tasks |-> NoResponse]
    /\ entries = <<>>
    /\ total = 0
    /\ writer = Asleep
    /\ arrived = {}

---------------------------------------------------------------------------
(* handle.                                                                 *)

\* policy.route(&name), of each query that has a question
RouteOf == [q \in {r \in Queries : r.parse = "ok"} |-> Route(Rules, q.name)]

\* servfail_from_raw: the first two bytes are the id, if there are two.
SalvagedId(q) == IF q.parse = "short" THEN 0 ELSE q.id

\* recv_from or accept and read_exact: the loop spawns a task.  The policy is
\* asked; a query without a question, or none at all, is refused at once.
\* MaxQueries of the queries come, each once, in any order.
Accept(t, q) ==
    /\ stage[t] = "idle"
    /\ q \notin arrived /\ Cardinality(arrived) < MaxQueries
    /\ arrived' = arrived \cup {q}
    /\ query' = [query EXCEPT ![t] = q]
    /\ \/ /\ q.parse # "ok"
          /\ stage' = [stage EXCEPT ![t] = "send"]
          /\ out' = [out EXCEPT ![t] = FormErr(SalvagedId(q))]
          /\ UNCHANGED forwarderVars
       \/ /\ q.parse = "ok" /\ RouteOf[q] = "doh"
          /\ stage' = [stage EXCEPT ![t] = "doh"]
          /\ UNCHANGED <<out, forwarderVars>>
       \/ /\ q.parse = "ok" /\ RouteOf[q] = "system"
          /\ stage' = [stage EXCEPT ![t] = "forward"]
          /\ Forward(t, q)
          /\ UNCHANGED out
    /\ UNCHANGED <<entries, total, writer>>

\* Mutant: the message goes out as it came from the cache.
DohKeepsId(t) ==
    /\ stage[t] = "doh"
    /\ out' = [out EXCEPT ![t] = [kind |-> "doh", id |-> 0]]
    /\ stage' = [stage EXCEPT ![t] = "count"]
    /\ UNCHANGED <<forwarderVars, query, entries, total, writer, arrived>>

\* resolve returned: set_id and encode, or an error of either
Doh(t) ==
    /\ stage[t] = "doh"
    /\ \E r \in {[kind |-> "doh", id |-> query[t].id], ServFail(query[t].id)} :
          out' = [out EXCEPT ![t] = r]
    /\ stage' = [stage EXCEPT ![t] = "count"]
    /\ UNCHANGED <<forwarderVars, query, entries, total, writer, arrived>>

\* forward returned: its bytes as they are, or an error
Forwarded(t) ==
    /\ stage[t] = "forward"
    /\ Reply(t)
    /\ out' = [out EXCEPT ![t] =
                 IF reply[t] = Servfail
                 THEN ServFail(query[t].id)
                 ELSE [kind |-> "forwarded", id |-> reply[t].id]]
    /\ stage' = [stage EXCEPT ![t] = "count"]
    /\ UNCHANGED <<query, entries, total, writer, arrived>>

\* QueryLog::push, first half: fetch_add
Count(t) ==
    /\ stage[t] = "count"
    /\ total' = total + 1
    /\ stage' = [stage EXCEPT ![t] = "push"]
    /\ UNCHANGED <<forwarderVars, query, out, entries, writer, arrived>>

\* Mutant: the new entry is there before the oldest one is dropped.
RoomForOneMore(log) == IF Len(log) > LogCapacity THEN Tail(log) ELSE log

LogRoom(log) == IF Len(log) >= LogCapacity THEN Tail(log) ELSE log

\* QueryLog::push, second half, under the mutex
Push(t) ==
    /\ stage[t] = "push"
    /\ entries' = Append(LogRoom(entries), RouteOf[query[t]])
    /\ stage' = [stage EXCEPT ![t] = "send"]
    /\ UNCHANGED <<forwarderVars, query, out, total, writer, arrived>>

\* send_to or write_all; a failure is only logged
Send(t) ==
    /\ stage[t] = "send"
    /\ stage' = [stage EXCEPT ![t] = "idle"]
    /\ query' = [query EXCEPT ![t] = NoQuery]
    /\ out' = [out EXCEPT ![t] = NoResponse]
    /\ UNCHANGED <<forwarderVars, entries, total, writer, arrived>>

---------------------------------------------------------------------------
(* truncate_if_needed.                                                     *)

MinUdp == 512
MaxUdp == 4096
HeaderSize == 12    \* a message with no records
MaxQuestion == 259  \* the longest name, a type and a class

\* Mutant: what the client advertises is taken as it is.
AdvertisedAsIs(q) == q.edns

\* No EDNS, or no query at all, is 512; clamp(512, MAX_UDP)
Advertised(q) ==
    LET size == IF q.parse \in {"ok", "noquestion"} /\ q.edns # NoEdns
                THEN q.edns ELSE MinUdp
    IN Min({Max({size, MinUdp}), MaxUdp})

\* A response that does not decode, or whose questions do not encode again, is
\* passed through as it is; any other is cut down to its header and its
\* questions, with the same id.
TruncateIfNeeded(r, q) ==
    IF r.size <= Advertised(q) \/ ~r.decodes
    THEN r
    ELSE [r EXCEPT !.size = HeaderSize + r.questions, !.tc = TRUE]

\* The bytes a response of this task, and its question, may come to; the
\* resolver's and our own messages decode, another server's may not.  Nobody
\* answers more than one question.
Responses(t) ==
    [id : {out[t].id}, tc : {FALSE},
     size : IF out[t].kind \in {"formerr", "servfail"}
            THEN {HeaderSize} ELSE Sizes,
     questions : {0, MaxQuestion},
     decodes : {TRUE} \cup (IF out[t].kind = "forwarded" THEN {FALSE} ELSE {})]

---------------------------------------------------------------------------
(* The status writer.                                                      *)

\* recent(limit): newest first
Recent(limit) == SubSeq(Reverse(entries), 1, Min({limit, Len(entries)}))

\* Mutant: the counter is read first.
TotalFirst == <<"total", "recent">>

\* The order of snapshot()'s reads of the log
SnapshotReads == <<"recent", "total">>

SnapshotRead ==
    /\ writer.at <= Len(SnapshotReads)
    /\ LET field == SnapshotReads[writer.at] IN
         writer' = [writer EXCEPT
                      !.at = @ + 1,
                      ![field] = IF field = "total" THEN total
                                 ELSE Recent(LogSlice)]
    /\ UNCHANGED <<forwarderVars, stage, query, out, entries, total, arrived>>

\* write_snapshot renames what was read into place; the writer sleeps
SnapshotWrite ==
    /\ writer.at > Len(SnapshotReads)
    /\ writer' = Asleep
    /\ UNCHANGED <<forwarderVars, stage, query, out, entries, total, arrived>>

---------------------------------------------------------------------------
Handle(t) ==
    \/ Doh(t)
    \/ stage[t] = "forward" /\ TryOne(t) /\ UNCHANGED proxyVars
    \/ Forwarded(t)
    \/ Count(t)
    \/ Push(t)
    \/ Send(t)

Next ==
    \/ \E t \in Tasks :
         \/ \E q \in Queries : Accept(t, q)
         \/ Handle(t)
    \/ Network /\ UNCHANGED proxyVars
    \/ SnapshotRead
    \/ SnapshotWrite

Spec == Init /\ [][Next]_vars

\* A spawned task is polled until it ends, and timers fire; nothing is assumed
\* of the network.
FairSpec == Spec /\ \A t \in Tasks : WF_vars(Handle(t))

---------------------------------------------------------------------------
(* Properties.                                                             *)

\* The tasks, their sockets, the log and the snapshot have their types.
TypeOK ==
    /\ ForwarderTyped
    /\ stage \in [Tasks -> {"idle", "doh", "forward", "count", "push", "send"}]
    /\ query \in [Tasks -> Queries]
    /\ \A t \in Tasks :
         /\ out[t].kind \in {"none", "formerr", "servfail", "doh", "forwarded"}
         /\ out[t].id \in Nat
    /\ entries \in Seq({"doh", "system"})
    /\ total \in 0..MaxQueries
    /\ writer.at \in 1..3
    /\ writer.total \in 0..MaxQueries
    /\ writer.recent \in Seq({"doh", "system"})
    /\ arrived \subseteq Queries

\* Whatever happened to a query, the response sent back carries the client's
\* own id: salvaged from a query that does not parse, put into the shared
\* cached message, passed through in forwarded bytes (proxy.rs, 199-201,
\* 254-255).
OwnId ==
    \A t \in Tasks :
        stage[t] = "send" => out[t].id = SalvagedId(query[t])

\* A UDP reply fits what the client said it accepts, 512 bytes if it said
\* nothing or less, unless it does not decode; one that fits what both sides
\* accept goes out whole, and a truncated one keeps the id and says so
\* (proxy.rs, 278-279).
FitsClient ==
    \A t \in Tasks : stage[t] = "send" /\ query[t].via = "udp" =>
        LET q == query[t]
            limit == Max({q.edns, MinUdp})
        IN \A r \in Responses(t) :
             LET sent == TruncateIfNeeded(r, q) IN
               /\ sent.size <= limit \/ ~r.decodes
               /\ sent.id = r.id
               /\ sent.tc \/ sent = r
               /\ r.size <= limit /\ r.size <= MaxUdp => ~sent.tc

\* The log holds the newest entries and only they are counted: what total
\* counts is in the log, about to be pushed, or evicted from a full log
\* (proxy.rs, 42-49).
LogAccounts ==
    LET pending == Cardinality({t \in Tasks : stage[t] = "push"}) IN
        Len(entries) = Min({LogCapacity, total - pending})

\* The status file never lists more queries than it says were served, however
\* the writer's two reads fall between the steps of the tasks (status.rs,
\* 80-81; proxy.rs, 43-48).
SnapshotCounts ==
    writer.at > Len(SnapshotReads) => Len(writer.recent) <= writer.total

\* Every query that was read is answered, even when providers and packets
\* fail: "a client waiting on a dropped packet is worse than a client told
\* the lookup failed" (proxy.rs, 174-175).
EveryQueryAnswered ==
    \A t \in Tasks : (stage[t] # "idle") ~> (stage[t] = "send")

=============================================================================
