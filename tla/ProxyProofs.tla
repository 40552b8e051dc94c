---------------------------- MODULE ProxyProofs ----------------------------
(* Proofs about Proxy, for every set of tasks and of queries, every policy *)
(* and every size of the log.                                              *)
EXTENDS Proxy, ForwarderProofs, FiniteSetTheorems, SequenceTheorems

\* The proxy uses the forwarder as the forwarder's own specification allows.
LEMMA ProxyForwards == [Next]_vars => [ForwarderNext]_forwarderVars
<1> SUFFICES ASSUME [Next]_vars PROVE [ForwarderNext]_forwarderVars
  OBVIOUS
<1>1. ASSUME NEW t \in Tasks, NEW q \in Queries, Accept(t, q)
      PROVE  [ForwarderNext]_forwarderVars
  BY <1>1 DEF Accept, ForwarderNext
<1>2. ASSUME NEW t \in Tasks, Handle(t)
      PROVE  [ForwarderNext]_forwarderVars
  BY <1>2 DEF Handle, Doh, Forwarded, Count, Push, Send, ForwarderNext, Serve
<1>3. ASSUME Network PROVE [ForwarderNext]_forwarderVars
  BY <1>3 DEF ForwarderNext
<1>4. ASSUME SnapshotRead \/ SnapshotWrite PROVE UNCHANGED forwarderVars
  BY <1>4 DEF SnapshotRead, SnapshotWrite
<1>5. CASE UNCHANGED vars
  BY <1>5 DEF vars
<1> QED BY <1>1, <1>2, <1>3, <1>4, <1>5 DEF Next

\* Every behaviour of the proxy is one of the forwarder: handle calls forward
\* only for a task that serves nothing else, and takes each result once.
THEOREM ImplementsForwarder == Spec => ForwarderSpec
<1>1. Init => ForwarderInit
  BY DEF Init
<1> QED BY <1>1, ProxyForwards, PTL DEF Spec, ForwarderSpec

\* What handle passes through is the reply to the client's own query, although
\* forward_one_udp checks no id.
THEOREM ProxyOwnReply ==
    ASSUME ~PortReuse
    PROVE  Spec => []OwnReply
BY ImplementsForwarder, RepliesAreOwn, PTL

\* handle answers SERVFAIL for a forwarded query only after forward has failed
\* at every server.
THEOREM ProxyTriesAll == Spec => []AllServersTried
BY ImplementsForwarder, TriesAllServers, PTL

---------------------------------------------------------------------------
(* Ids.                                                                    *)

\* The tasks, their queries and their responses have their types.
Responding ==
    /\ stage \in [Tasks -> {"idle", "doh", "forward", "count", "push", "send"}]
    /\ query \in [Tasks -> Queries]
    /\ out \in [Tasks -> [kind : {"none", "formerr", "servfail", "doh",
                                  "forwarded"}, id : Nat]]

\* What a task serves is what it forwards, what it counts has a question, and
\* what it is about to send has that query's id.
Serving ==
    \A t \in Tasks :
        /\ stage[t] = "forward" => pc[t] # "idle" /\ ask[t] = query[t]
        /\ stage[t] # "forward" => pc[t] = "idle"
        /\ stage[t] \in {"doh", "forward", "count", "push"} => query[t].parse = "ok"
        /\ stage[t] \in {"count", "push"} => out[t].id = query[t].id
        /\ stage[t] = "send" => out[t].id = SalvagedId(query[t])
        /\ stage[t] = "send" /\ query[t].parse # "ok" => out[t].kind = "formerr"

\* No step of a task, of the network or of the writer breaks either.
LEMMA ServingStep ==
    /\ ForwarderTyped /\ OwnReply /\ Responding /\ Serving
    /\ [Next]_vars
    => Responding' /\ Serving'
<1> SUFFICES ASSUME ForwarderTyped, OwnReply, Responding, Serving, [Next]_vars
             PROVE  Responding' /\ Serving'
  OBVIOUS
<1>0. /\ NoQuery \in Queries
      /\ \A q \in Queries : q.id \in Nat
  BY QueriesAssumption, ProxyAssumption DEF NoQuery
<1> USE <1>0 DEF ForwarderTyped, OwnReply, Responding, Serving, SalvagedId
<1>1. ASSUME NEW t \in Tasks, NEW q \in Queries, Accept(t, q)
      PROVE  Responding' /\ Serving'
  <2>1. CASE q.parse # "ok"
    <3>1. out' = [out EXCEPT ![t] = FormErr(SalvagedId(q))]
      BY <1>1, <2>1 DEF Accept
    <3>2. stage' = [stage EXCEPT ![t] = "send"]
      BY <1>1, <2>1 DEF Accept
    <3>3. FormErr(SalvagedId(q)) \in
            [kind : {"none", "formerr", "servfail", "doh", "forwarded"}, id : Nat]
      BY DEF FormErr
    <3>4. out'[t].id = SalvagedId(q) /\ out'[t].kind = "formerr"
      BY <3>1 DEF FormErr
    <3>5. pc' = pc /\ ask' = ask /\ query' = [query EXCEPT ![t] = q]
      BY <1>1, <2>1 DEF Accept, forwarderVars
    <3>6. pc[t] = "idle"
      BY <1>1 DEF Accept
    <3>7. Responding'
      BY <3>1, <3>2, <3>3, <3>5
    <3> HIDE DEF SalvagedId
    <3>8. \A u \in Tasks \ {t} : /\ stage'[u] = stage[u] /\ pc'[u] = pc[u]
                                 /\ ask'[u] = ask[u] /\ out'[u] = out[u]
                                 /\ query'[u] = query[u]
      BY <3>1, <3>2, <3>5
    <3>9. stage'[t] = "send" /\ query'[t] = q /\ pc'[t] = "idle"
      BY <3>2, <3>5, <3>6
    <3> QED BY <2>1, <3>4, <3>7, <3>8, <3>9
  <2>2. CASE q.parse = "ok" /\ RouteOf[q] = "doh"
    BY <1>1, <2>2 DEF Accept, forwarderVars
  <2>3. CASE q.parse = "ok" /\ RouteOf[q] = "system"
    BY <1>1, <2>3 DEF Accept, Forward
  <2> QED BY <1>1, <2>1, <2>2, <2>3 DEF Accept
<1>2. ASSUME NEW t \in Tasks, Doh(t) PROVE Responding' /\ Serving'
  BY <1>2 DEF Doh, ServFail, forwarderVars
<1>3. ASSUME NEW t \in Tasks, stage[t] = "forward", TryOne(t),
             UNCHANGED proxyVars
      PROVE  Responding' /\ Serving'
  <2>1. ask' = ask /\ pc'[t] # "idle" /\ \A u \in Tasks \ {t} : pc'[u] = pc[u]
    BY <1>3 DEF TryOne, Open, OpenFails, Recv, TimeOut, TryNext
  <2> QED BY <1>3, <2>1 DEF proxyVars
<1>4. ASSUME NEW t \in Tasks, Forwarded(t) PROVE Responding' /\ Serving'
  <2>1. reply[t] # Servfail => reply[t] = query[t]
    BY <1>4 DEF Forwarded, Reply
  <2>2. out'[t].id = query[t].id /\ out' \in [Tasks -> [kind : {"none",
          "formerr", "servfail", "doh", "forwarded"}, id : Nat]]
    BY <1>4, <2>1 DEF Forwarded, ServFail
  <2> QED BY <1>4, <2>2 DEF Forwarded, Reply
<1>5. ASSUME NEW t \in Tasks, Count(t) \/ Push(t)
      PROVE  Responding' /\ Serving'
  <2>1. stage[t] \in {"count", "push"}
    BY <1>5 DEF Count, Push
  <2>2. query[t].parse = "ok" /\ out[t].id = SalvagedId(query[t])
    BY <2>1
  <2>3. UNCHANGED <<pc, ask, query, out>>
    BY <1>5 DEF Count, Push, forwarderVars
  <2>4. /\ stage' \in [Tasks -> {"idle", "doh", "forward", "count", "push", "send"}]
        /\ stage'[t] \in {"push", "send"}
        /\ \A u \in Tasks \ {t} : stage'[u] = stage[u]
    BY <1>5 DEF Count, Push
  <2> QED BY <2>1, <2>2, <2>3, <2>4
<1>6. ASSUME NEW t \in Tasks, Send(t) PROVE Responding' /\ Serving'
  BY <1>6 DEF Send, NoResponse, forwarderVars
<1>7. ASSUME Network, UNCHANGED proxyVars PROVE Responding' /\ Serving'
  BY <1>7 DEF Network, ServerReplies, Lose, proxyVars
<1>8. ASSUME SnapshotRead \/ SnapshotWrite PROVE Responding' /\ Serving'
  BY <1>8 DEF SnapshotRead, SnapshotWrite, forwarderVars
<1>9. CASE UNCHANGED vars
  BY <1>9 DEF vars, forwarderVars, proxyVars
<1> QED
  BY <1>1, <1>2, <1>3, <1>4, <1>5, <1>6, <1>7, <1>8, <1>9 DEF Next, Handle

\* Nothing is served at first.
LEMMA ServingStarts == Init => Responding /\ Serving
BY QueriesAssumption DEF Init, ForwarderInit, Responding, Serving, NoQuery, NoResponse

\* Types of the forwarder, own replies and what the tasks are at: always.
LEMMA AlwaysServing ==
    ASSUME ~PortReuse
    PROVE  Spec => [](Responding /\ Serving)
<1>1. ForwarderSpec => []ForwarderTyped
  BY ForwarderStarts, ForwarderTypes, PTL DEF ForwarderSpec
<1>2. Spec => [](ForwarderTyped /\ OwnReply)
  BY <1>1, ImplementsForwarder, RepliesAreOwn, PTL
<1> QED BY <1>2, ServingStarts, ServingStep, PTL DEF Spec

\* Every response serve_udp and serve_tcp send carries its client's id,
\* forwarded bytes and queries that do not parse included.
THEOREM ProxyOwnId ==
    ASSUME ~PortReuse
    PROVE  Spec => []OwnId
<1>1. Serving => OwnId
  BY DEF Serving, OwnId
<1> QED BY <1>1, AlwaysServing, PTL

---------------------------------------------------------------------------
(* Sizes.                                                                  *)

\* What the library's Min and Max are of two numbers.
LEMMA MinOfTwo ==
    ASSUME NEW a \in Int, NEW b \in Int
    PROVE  Min({a, b}) = IF a <= b THEN a ELSE b
<1>1. \E x \in {a, b} : \A y \in {a, b} : x <= y
  OBVIOUS
<1>2. Min({a, b}) \in {a, b} /\ \A y \in {a, b} : Min({a, b}) <= y
  BY <1>1 DEF Min
<1> QED BY <1>2

\* The same of Max.
LEMMA MaxOfTwo ==
    ASSUME NEW a \in Int, NEW b \in Int
    PROVE  Max({a, b}) = IF a <= b THEN b ELSE a
<1>1. \E x \in {a, b} : \A y \in {a, b} : x >= y
  OBVIOUS
<1>2. Max({a, b}) \in {a, b} /\ \A y \in {a, b} : Max({a, b}) >= y
  BY <1>1 DEF Max
<1> QED BY <1>2

\* What a query is answered with is between MinUdp and MaxUdp, and no more
\* than what the client takes.
LEMMA AdvertisedIs ==
    ASSUME NEW q \in Queries
    PROVE  LET limit == Max({q.edns, MinUdp}) IN
             /\ limit \in Nat /\ limit >= MinUdp
             /\ Advertised(q) \in Nat
             /\ Advertised(q) >= MinUdp
             /\ Advertised(q) <= limit
             /\ q.parse = "ok" => Advertised(q) = Min({limit, MaxUdp})
<1> DEFINE limit == Max({q.edns, MinUdp})
           size == IF q.parse \in {"ok", "noquestion"} /\ q.edns # NoEdns
                   THEN q.edns ELSE MinUdp
<1>1. q.edns \in Nat /\ MinUdp = 512 /\ MaxUdp = 4096 /\ NoEdns = 0
  BY ProxyAssumption DEF MinUdp, MaxUdp, NoEdns
<1>2. limit = IF q.edns <= 512 THEN 512 ELSE q.edns
  BY <1>1, MaxOfTwo
<1>3. size \in Nat /\ (q.parse = "ok" => size = q.edns \/ (q.edns = 0 /\ size = 512))
  BY <1>1
<1>4. size = q.edns \/ size = 512
  BY <1>1
<1>5. Max({size, MinUdp}) = IF size <= 512 THEN 512 ELSE size
  BY <1>1, <1>3, MaxOfTwo
<1>6. Advertised(q) = Min({Max({size, MinUdp}), MaxUdp})
  BY DEF Advertised
<1> HIDE DEF size, limit
<1>7. Advertised(q) = IF Max({size, MinUdp}) <= 4096
                      THEN Max({size, MinUdp}) ELSE 4096
  BY <1>1, <1>3, <1>5, <1>6, MinOfTwo
<1>8. Min({limit, MaxUdp}) = IF limit <= 4096 THEN limit ELSE 4096
  BY <1>1, <1>2, MinOfTwo
<1>9. /\ limit \in Nat /\ limit >= MinUdp
      /\ Advertised(q) \in Nat
      /\ Advertised(q) >= MinUdp
      /\ Advertised(q) <= limit
      /\ q.parse = "ok" => Advertised(q) = Min({limit, MaxUdp})
  BY <1>1, <1>2, <1>3, <1>4, <1>5, <1>7, <1>8
<1> QED BY <1>9 DEF limit

\* truncate_if_needed leaves alone what fits and what does not decode.
LEMMA FitsAsIs ==
    ASSUME NEW q, NEW r, r.size <= Advertised(q) \/ ~r.decodes
    PROVE  TruncateIfNeeded(r, q) = r
<1> DEFINE fits == r.size <= Advertised(q) \/ ~r.decodes
           cut == [r EXCEPT !.size = HeaderSize + r.questions, !.tc = TRUE]
<1>1. TruncateIfNeeded(r, q) = IF fits THEN r ELSE cut
  BY DEF TruncateIfNeeded
<1>2. fits
  OBVIOUS
<1> HIDE DEF fits, cut
<1> QED BY <1>1, <1>2

\* What truncate_if_needed lets out over UDP is no larger than the client
\* takes, and is only cut when it has to be.
THEOREM ProxyFitsClient ==
    ASSUME ~PortReuse, Sizes \subseteq Nat
    PROVE  Spec => []FitsClient
<1>1. Responding /\ Serving => FitsClient
  <2> SUFFICES ASSUME Responding, Serving, NEW t \in Tasks, stage[t] = "send",
                      NEW r \in Responses(t)
               PROVE  LET q == query[t]
                          limit == Max({q.edns, MinUdp})
                          sent == TruncateIfNeeded(r, q)
                      IN /\ sent.size <= limit \/ ~r.decodes
                         /\ sent.id = r.id
                         /\ sent.tc \/ sent = r
                         /\ r.size <= limit /\ r.size <= MaxUdp => ~sent.tc
    BY DEF FitsClient
  <2> DEFINE q == query[t]
             limit == Max({q.edns, MinUdp})
             sent == TruncateIfNeeded(r, q)
  <2>1. q \in Queries
    BY DEF Responding
  <2>2. /\ limit \in Nat /\ limit >= 512
        /\ Advertised(q) \in Nat /\ Advertised(q) >= 512
        /\ Advertised(q) <= limit
        /\ q.parse = "ok" => Advertised(q) = Min({limit, MaxUdp})
    <3>1. MinUdp = 512
      BY DEF MinUdp
    <3>2. /\ limit \in Nat /\ limit >= MinUdp
          /\ Advertised(q) \in Nat /\ Advertised(q) >= MinUdp
          /\ Advertised(q) <= limit
          /\ q.parse = "ok" => Advertised(q) = Min({limit, MaxUdp})
      BY ONLY <2>1, AdvertisedIs
    <3> HIDE DEF q, limit
    <3> QED BY <3>1, <3>2
  <2>3. /\ r.size \in Nat /\ r.decodes \in BOOLEAN /\ r.tc = FALSE
        /\ r.questions \in 0..259
        /\ r = [id |-> r.id, tc |-> r.tc, size |-> r.size,
                questions |-> r.questions, decodes |-> r.decodes]
        /\ q.parse # "ok" => r.size = 12
    <3> DEFINE sizes == IF out[t].kind \in {"formerr", "servfail"}
                        THEN {HeaderSize} ELSE Sizes
               outcomes == {TRUE} \cup
                 (IF out[t].kind = "forwarded" THEN {FALSE} ELSE {})
    <3>1. sizes \subseteq Nat /\ outcomes \subseteq BOOLEAN
      <4>1. HeaderSize \in Nat
        BY DEF HeaderSize
      <4>2. sizes \subseteq Nat
        <5>1. CASE out[t].kind \in {"formerr", "servfail"}
          BY <4>1, <5>1
        <5>2. CASE ~(out[t].kind \in {"formerr", "servfail"})
          BY <5>2
        <5> QED BY <5>1, <5>2
      <4>3. outcomes \subseteq BOOLEAN
        BY ZenonT(20)
      <4> QED BY <4>2, <4>3
    <3>2. q.parse # "ok" => sizes = {12}
      BY DEF HeaderSize, Serving
    <3>3. r \in [id : {out[t].id}, tc : {FALSE}, size : sizes,
                 questions : {0, MaxQuestion}, decodes : outcomes]
      BY DEF Responses
    <3>4. {0, MaxQuestion} \subseteq 0..259
      BY DEF MaxQuestion
    <3> HIDE DEF sizes, outcomes, q
    <3> QED BY <3>1, <3>2, <3>3, <3>4
  <2>4. CASE r.size <= Advertised(q) \/ ~r.decodes
    <3>1. sent = r
      BY <2>4, FitsAsIs
    <3>2. sent.size <= limit \/ ~r.decodes
      BY <2>2, <2>3, <2>4, <3>1
    <3> QED BY <2>3, <3>1, <3>2
  <2>5. CASE ~(r.size <= Advertised(q) \/ ~r.decodes)
    <3>1. sent = [r EXCEPT !.size = HeaderSize + r.questions, !.tc = TRUE]
      BY <2>5 DEF TruncateIfNeeded
    <3>2. sent.size \in 0..271 /\ sent.tc = TRUE /\ sent.id = r.id
      BY <2>3, <3>1 DEF HeaderSize
    <3>3. q.parse = "ok"
      BY <2>2, <2>3, <2>5
    <3>4. limit \in Int /\ MaxUdp \in Int
      BY <2>2 DEF MaxUdp
    <3>5. Min({limit, MaxUdp}) = IF limit <= MaxUdp THEN limit ELSE MaxUdp
      <4> HIDE DEF limit
      <4> QED BY <3>4, MinOfTwo
    <3>6. ~(r.size <= limit /\ r.size <= MaxUdp)
      BY <2>2, <2>3, <2>5, <3>3, <3>4, <3>5
    <3>7. sent.size <= limit
      <4> HIDE DEF sent, limit
      <4> QED BY <2>2, <3>2
    <3> QED BY <3>2, <3>6, <3>7
  <2> QED BY <2>4, <2>5
<1> QED BY <1>1, AlwaysServing, PTL

---------------------------------------------------------------------------
(* The query log.                                                          *)

\* The tasks between the two halves of QueryLog::push.
Pending == {t \in Tasks : stage[t] = "push"}

\* The log has its type, its entries have a route, and whoever is about to
\* push has been counted.
Logging ==
    /\ stage \in [Tasks -> {"idle", "doh", "forward", "count", "push", "send"}]
    /\ query \in [Tasks -> Queries]
    /\ \A t \in Tasks :
         stage[t] \in {"doh", "forward", "count", "push"} => query[t].parse = "ok"
    /\ entries \in Seq({"doh", "system"})
    /\ total \in Nat
    /\ Cardinality(Pending) <= total
    /\ LogAccounts

\* Steps that neither count nor push leave the log's account alone.
LEMMA LogUntouched ==
    ASSUME Logging, UNCHANGED <<entries, total>>, Pending' = Pending
    PROVE  /\ Cardinality(Pending)' <= total'
           /\ LogAccounts'
<1>1. Cardinality(Pending)' = Cardinality(Pending)
  OBVIOUS
<1> QED BY <1>1 DEF Logging, LogAccounts, Pending

\* Counting raises the total and the pending tasks alike; a push takes one of
\* them and makes room for it first.
LEMMA LogStep ==
    ASSUME IsFiniteSet(Tasks)
    PROVE  Logging /\ [Next]_vars => Logging'
<1> SUFFICES ASSUME Logging, [Next]_vars PROVE Logging'
  OBVIOUS
<1>0. /\ NoQuery \in Queries
      /\ LogCapacity \in Nat \ {0}
      /\ IsFiniteSet(Pending) /\ Cardinality(Pending) \in Nat
  <2>1. Pending \subseteq Tasks
    BY DEF Pending
  <2> QED BY <2>1, FS_Subset, FS_CardinalityType, QueriesAssumption,
             ProxyAssumption DEF NoQuery
<1> DEFINE Others == /\ UNCHANGED <<entries, total>>
                     /\ Pending' = Pending
                     /\ stage' \in [Tasks -> {"idle", "doh", "forward", "count",
                                              "push", "send"}]
                     /\ query' \in [Tasks -> Queries]
                     /\ \A t \in Tasks :
                          stage'[t] \in {"doh", "forward", "count", "push"}
                            => query'[t].parse = "ok"
<1>1. Others => Logging'
  BY LogUntouched DEF Logging
<1>2. ASSUME NEW t \in Tasks, NEW q \in Queries, Accept(t, q) PROVE Others
  <2>1. stage[t] = "idle" /\ query' = [query EXCEPT ![t] = q]
    BY <1>2 DEF Accept
  <2>2. stage' = [stage EXCEPT ![t] = "send"]
          \/ /\ q.parse = "ok"
             /\ \/ stage' = [stage EXCEPT ![t] = "doh"]
                \/ stage' = [stage EXCEPT ![t] = "forward"]
    BY <1>2 DEF Accept
  <2> QED BY <1>2, <2>1, <2>2 DEF Accept, Logging, Pending
<1>3. ASSUME NEW t \in Tasks, Doh(t) \/ Forwarded(t) PROVE Others
  BY <1>3 DEF Doh, Forwarded, Logging, Pending
<1>4. ASSUME NEW t \in Tasks, Send(t) PROVE Others
  BY <1>0, <1>4 DEF Send, Logging, Pending
<1>5. ASSUME NEW t \in Tasks, Count(t) PROVE Logging'
  <2>1. Pending' = Pending \cup {t} /\ t \notin Pending
    BY <1>5 DEF Count, Pending, Logging
  <2>2. Cardinality(Pending)' = Cardinality(Pending) + 1
    BY <1>0, <2>1, FS_AddElement
  <2>3. total' = total + 1 /\ total' - Cardinality(Pending)' = total - Cardinality(Pending)
    BY <1>0, <1>5, <2>2 DEF Count, Logging
  <2>4. LogAccounts'
    BY <1>5, <2>3 DEF Count, Logging, LogAccounts, Pending
  <2> QED BY <1>0, <1>5, <2>2, <2>3, <2>4 DEF Count, Logging
<1>6. ASSUME NEW t \in Tasks, Push(t) PROVE Logging'
  <2> DEFINE n == total - Cardinality(Pending)
             e == RouteOf[query[t]]
  <2>1. Pending' = Pending \ {t} /\ t \in Pending
    BY <1>6 DEF Push, Pending, Logging
  <2>2. Cardinality(Pending)' = Cardinality(Pending) - 1
    BY <1>0, <2>1, FS_RemoveElement
  <2>3. n \in Nat /\ total' = total /\ total' - Cardinality(Pending)' = n + 1
    BY <1>0, <1>6, <2>2 DEF Push, Logging
  <2>4. e \in {"doh", "system"}
    <3>1. query[t] \in {q \in Queries : q.parse = "ok"}
      BY <1>6 DEF Push, Logging
    <3> QED BY <3>1 DEF RouteOf, Route
  <2>5. Len(entries) = IF LogCapacity <= n THEN LogCapacity ELSE n
    BY <1>0, <2>3, MinOfTwo DEF Logging, LogAccounts, Pending
  <2>6. /\ LogRoom(entries) \in Seq({"doh", "system"})
        /\ Len(LogRoom(entries)) =
             IF LogCapacity <= n THEN LogCapacity - 1 ELSE n
    <3>1. CASE Len(entries) >= LogCapacity
      <4>1. entries # <<>> /\ n >= LogCapacity
        BY <1>0, <2>3, <2>5, <3>1 DEF Logging
      <4>2. /\ Tail(entries) \in Seq({"doh", "system"})
            /\ Len(Tail(entries)) = Len(entries) - 1
        BY <4>1, HeadTailProperties DEF Logging
      <4> QED BY <2>5, <3>1, <4>1, <4>2 DEF LogRoom
    <3>2. CASE ~(Len(entries) >= LogCapacity)
      BY <1>0, <2>3, <2>5, <3>2 DEF LogRoom, Logging
    <3> QED BY <3>1, <3>2
  <2>7. /\ entries' \in Seq({"doh", "system"})
        /\ Len(entries') = Len(LogRoom(entries)) + 1
    <3>1. entries' = Append(LogRoom(entries), e)
      BY <1>6 DEF Push
    <3> QED BY <2>4, <2>6, <3>1, AppendProperties
  <2>8. Len(entries') = Min({LogCapacity, n + 1})
    <3>1. Min({LogCapacity, n + 1}) =
            IF LogCapacity <= n + 1 THEN LogCapacity ELSE n + 1
      <4>1. LogCapacity \in Int /\ n + 1 \in Int
        BY <1>0, <2>3
      <4> HIDE DEF n
      <4> QED BY <4>1, MinOfTwo
    <3> QED BY <1>0, <2>3, <2>6, <2>7, <3>1
  <2>9. LogAccounts'
    BY <2>3, <2>8 DEF LogAccounts, Pending
  <2> QED BY <1>0, <1>6, <2>2, <2>3, <2>7, <2>9 DEF Push, Logging
<1>7. ASSUME UNCHANGED proxyVars \/ SnapshotRead \/ SnapshotWrite PROVE Others
  BY <1>7 DEF proxyVars, SnapshotRead, SnapshotWrite, Logging, Pending
<1>8. CASE UNCHANGED vars
  BY <1>1, <1>7, <1>8 DEF vars, proxyVars
<1> HIDE DEF Others
<1> QED
  BY <1>1, <1>2, <1>3, <1>4, <1>5, <1>6, <1>7, <1>8 DEF Next, Handle

\* The log starts empty.
LEMMA LogStarts == Init => Logging
<1> SUFFICES ASSUME Init PROVE Logging
  OBVIOUS
<1>1. Pending = {}
  BY DEF Init, Pending
<1>2. Cardinality(Pending) = 0 /\ total = 0 /\ entries = <<>>
  BY <1>1, FS_EmptySet DEF Init
<1>3. Min({LogCapacity, 0}) = 0
  BY ProxyAssumption, MinOfTwo
<1>4. LogAccounts
  BY <1>2, <1>3 DEF LogAccounts, Pending
<1> QED BY <1>2, <1>4, QueriesAssumption DEF Init, Logging, NoQuery

\* What QueryLog::push has counted is in the log, about to be, or evicted from
\* a full one, however many tasks push at once.
THEOREM ProxyLogAccounts ==
    ASSUME IsFiniteSet(Tasks)
    PROVE  Spec => []LogAccounts
<1>1. Logging => LogAccounts
  BY DEF Logging
<1> QED BY <1>1, LogStarts, LogStep, PTL DEF Spec

---------------------------------------------------------------------------
(* The snapshot.                                                           *)

\* The writer has read no more entries than have been counted so far.
Reading ==
    /\ DOMAIN writer = {"at", "recent", "total"}
    /\ writer.at \in 1..3
    /\ Len(writer.recent) \in Nat
    /\ writer.at = 2 => Len(writer.recent) <= total
    /\ writer.at = 3 => Len(writer.recent) <= writer.total

\* recent(limit) returns no more than the log holds.
LEMMA RecentLength ==
    ASSUME Logging
    PROVE  /\ Len(Recent(LogSlice)) \in Nat
           /\ Len(Recent(LogSlice)) <= Len(entries)
<1> DEFINE n == Min({LogSlice, Len(entries)})
           r == Reverse(entries)
<1>1. Len(entries) \in Nat /\ LogSlice \in Nat
  BY ProxyAssumption DEF Logging
<1>2. n \in Nat /\ n <= Len(entries)
  BY <1>1, MinOfTwo
<1>3. \A i \in 1..n : r[i] \in {"doh", "system"}
  <2>1. r = [i \in 1..Len(entries) |-> entries[(Len(entries) - i) + 1]]
    BY DEF Reverse
  <2>2. \A i \in 1..Len(entries) : entries[i] \in {"doh", "system"}
    BY DEF Logging
  <2> HIDE DEF n, r
  <2> QED BY <1>1, <1>2, <2>1, <2>2
<1>4. Len(SubSeq(r, 1, n)) = n
  <2> HIDE DEF n, r
  <2> QED BY <1>2, <1>3, SubSeqProperties
<1> QED BY <1>2, <1>4 DEF Recent

\* The log is never longer than what has been counted.
LEMMA LogCounted == Logging /\ IsFiniteSet(Tasks) => Len(entries) <= total
<1> SUFFICES ASSUME Logging, IsFiniteSet(Tasks) PROVE Len(entries) <= total
  OBVIOUS
<1>1. Cardinality(Pending) \in Nat
  <2>1. Pending \subseteq Tasks
    BY DEF Pending
  <2> QED BY <2>1, FS_Subset, FS_CardinalityType
<1>2. Len(entries) = Min({LogCapacity, total - Cardinality(Pending)})
  BY DEF Logging, LogAccounts, Pending
<1> QED BY <1>1, <1>2, MinOfTwo, ProxyAssumption DEF Logging

\* The total is read after the entries and never goes down in between.
LEMMA ReadingStep ==
    ASSUME IsFiniteSet(Tasks)
    PROVE  Logging /\ Reading /\ [Next]_vars => Reading'
<1> SUFFICES ASSUME Logging, Reading, [Next]_vars PROVE Reading'
  OBVIOUS
<1>1. ASSUME UNCHANGED <<writer, total>> PROVE Reading'
  BY <1>1 DEF Reading
<1>2. ASSUME NEW t \in Tasks, Count(t) PROVE Reading'
  BY <1>2 DEF Count, Reading, Logging
<1>3. ASSUME SnapshotRead PROVE Reading'
  <2> DEFINE field == SnapshotReads[writer.at]
             read == IF field = "total" THEN total ELSE Recent(LogSlice)
  <2>0. /\ SnapshotReads = <<"recent", "total">> /\ Len(SnapshotReads) = 2
        /\ total' = total
        /\ writer' = [writer EXCEPT !.at = @ + 1, ![field] = read]
    BY <1>3 DEF SnapshotRead, SnapshotReads
  <2>1. CASE writer.at = 1
    <3>1. field = "recent" /\ read = Recent(LogSlice)
      BY <2>0, <2>1
    <3>2. Len(read) \in Nat /\ Len(read) <= total
      <4>1. Len(entries) \in Nat /\ total \in Nat
        BY DEF Logging
      <4>2. /\ Len(Recent(LogSlice)) \in Nat
            /\ Len(Recent(LogSlice)) <= Len(entries)
            /\ Len(entries) <= total
        BY RecentLength, LogCounted
      <4> HIDE DEF read
      <4> QED BY <3>1, <4>1, <4>2
    <3> HIDE DEF field, read
    <3>3. /\ DOMAIN writer' = {"at", "recent", "total"}
          /\ writer'.at = 2 /\ writer'.recent = read
      BY <2>0, <2>1, <3>1 DEF Reading
    <3> QED BY <2>0, <3>2, <3>3 DEF Reading
  <2>2. CASE writer.at = 2
    <3>1. field = "total" /\ read = total
      BY <2>0, <2>2
    <3> HIDE DEF field, read
    <3>2. /\ DOMAIN writer' = {"at", "recent", "total"}
          /\ writer'.at = 3 /\ writer'.total = total
          /\ writer'.recent = writer.recent
      BY <2>0, <2>2, <3>1 DEF Reading
    <3> QED BY <2>2, <3>2 DEF Reading
  <2>3. writer.at <= 2
    BY <1>3, <2>0 DEF SnapshotRead
  <2> QED BY <2>1, <2>2, <2>3 DEF Reading
<1>4. ASSUME SnapshotWrite PROVE Reading'
  BY <1>4 DEF SnapshotWrite, Asleep, Reading
<1>5. CASE UNCHANGED vars
  BY <1>1, <1>5 DEF vars, proxyVars
<1>6. ASSUME NEW t \in Tasks, Handle(t), ~Count(t) PROVE UNCHANGED <<writer, total>>
  BY <1>6 DEF Handle, Doh, Forwarded, Push, Send, proxyVars
<1>7. ASSUME NEW t \in Tasks, NEW q \in Queries, Accept(t, q)
      PROVE  UNCHANGED <<writer, total>>
  BY <1>7 DEF Accept
<1>8. ASSUME UNCHANGED proxyVars PROVE UNCHANGED <<writer, total>>
  BY <1>8 DEF proxyVars
<1> QED
  BY <1>1, <1>2, <1>3, <1>4, <1>5, <1>6, <1>7, <1>8 DEF Next

\* The status file write_snapshot leaves never lists more queries than it says
\* were served.
THEOREM ProxySnapshotCounts ==
    ASSUME IsFiniteSet(Tasks)
    PROVE  Spec => []SnapshotCounts
<1>1. Init => Reading
  BY DEF Init, Reading, Asleep
<1>2. Reading => SnapshotCounts
  BY DEF Reading, SnapshotCounts, SnapshotReads
<1> QED BY <1>1, <1>2, LogStarts, LogStep, ReadingStep, PTL DEF Spec

============================================================================
