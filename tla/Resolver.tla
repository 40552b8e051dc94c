----------------------------- MODULE Resolver -----------------------------
(***************************************************************************)
(* The caching DoH resolver: DohResolver::resolve of                       *)
(* crates/dns-core/src/resolver.rs over the Cache of cache.rs, as called   *)
(* by the tasks that Proxy::handle runs in (dns-helper/src/proxy.rs).      *)
(*                                                                         *)
(* Each task looks a name up under the cache's mutex, releases it, waits   *)
(* for the providers in order, and takes the mutex again to store the      *)
(* answer; tasks, the purge loop and the clock interleave in between.      *)
(* Time is kept as the age of each entry, in ticks of 1/Ticks second; an   *)
(* age stops growing at the entry's lifetime, past which nothing in the    *)
(* code tells two ages apart.                                              *)
(***************************************************************************)
EXTENDS Naturals, FiniteSets, FiniteSetsExt, Functions

CONSTANTS
    Tasks,       \* concurrent calls of Proxy::handle
    Names,       \* names asked for: records [host, upper]
    Types,       \* record types asked for
    Answers,     \* what a provider may answer: records [rcode, an, ns, ar]
    NProviders,  \* the number of configured providers
    Capacity,    \* the cache's capacity
    MinTtl, MaxTtl, NegativeTtl,  \* in seconds
    Ticks        \* ticks of the clock per second

ASSUME QuestionsAssumption ==
    /\ Names # {} /\ Types # {}
    /\ Names \subseteq [host : {n.host : n \in Names}, upper : BOOLEAN]
ASSUME ProvidersAssumption == NProviders \in Nat \ {0}
ASSUME CapacityAssumption == Capacity \in Nat \ {0}
ASSUME TtlAssumption ==
    /\ MinTtl \in Nat \ {0} /\ MaxTtl \in Nat /\ MinTtl <= MaxTtl
    /\ NegativeTtl \in Nat \ {0}
    /\ Ticks \in Nat \ {0}
\* A message.  A section is the set of the TTLs of its records.
Messages == [rcode : {"NoError", "NXDomain", "ServFail", "Refused"},
             an : SUBSET Nat, ns : SUBSET Nat, ar : SUBSET Nat]

ASSUME AnswersAssumption == Answers \subseteq Messages

VARIABLES
    entries,    \* Cache.entries: a function from the keys that are present
    pc,         \* where each task stands
    ask,        \* the question it was given
    at,         \* the provider it is waiting for
    got,        \* the response it received
    reply,      \* what resolve returned, with the cached message and its age
    failed      \* ghost: the providers that failed in this lookup

vars == <<entries, pc, ask, at, got, reply, failed>>

---------------------------------------------------------------------------
(* Questions and messages.                                                 *)

Questions == [name : Names, type : Types]
NoQuestion == CHOOSE q \in Questions : TRUE  \* in a task that has ended
Empty(rcode) == [rcode |-> rcode, an |-> {}, ns |-> {}, ar |-> {}]
Servfail == Empty("ServFail")
NoReply == [msg |-> Servfail, src |-> Servfail, q |-> NoQuestion, age |-> 0]

\* What query_one may return: a message, or Err (transport, HTTP status,
\* content type or decoding).
Outcomes == Answers \cup {Empty("Err")}

\* Mutant: the record type is not part of the key.
KeyOfName(q) == [name |-> [q.name EXCEPT !.upper = FALSE], type |-> "any"]

\* Key::new, with the name in lower case
Key(q) == [name |-> [q.name EXCEPT !.upper = FALSE], type |-> q.type]

\* Mutant: the longest-lived record decides.
TtlOfLongest(m) ==
    IF m.rcode # "NoError" \/ m.an = {} THEN NegativeTtl
    ELSE Max({MinTtl, Min({MaxTtl, Max(m.an)})})

\* cacheable_ttl; 0 stands for None
CacheableTtl(m) ==
    CASE m.rcode = "NXDomain"               -> NegativeTtl
      [] m.rcode = "NoError" /\ m.an = {}   -> NegativeTtl
      [] m.rcode = "NoError" /\ m.an # {}   ->
           Max({MinTtl, Min({MaxTtl, Min(m.an)})})
      [] OTHER                              -> 0

---------------------------------------------------------------------------
(* The cache.                                                              *)

\* ttl - elapsed, saturating at zero
Remaining(e) ==
    IF e.age < e.ttl * Ticks THEN e.ttl * Ticks - e.age ELSE 0

Present == DOMAIN entries
Live(k) == k \in Present /\ Remaining(entries[k]) > 0

CountDown(ttls, spent) == {IF x > spent THEN x - spent ELSE 0 : x \in ttls}

\* Mutant: the message leaves the cache as it came.
AsStored(e) == e.msg

\* get_at: the stored message, its answer and authority TTLs counted down by
\* whole seconds
Aged(e) ==
    LET spent == e.age \div Ticks
    IN [e.msg EXCEPT !.an = CountDown(@, spent), !.ns = CountDown(@, spent)]

\* Mutant: any entry will do.
AnyVictim == Present

\* evict_one: an entry with the least time left
Victims ==
    {k \in Present :
        \A j \in Present : Remaining(entries[k]) <= Remaining(entries[j])}

\* Mutant: one entry too many is let in.
RoomOffByOne(k) ==
    IF Cardinality(Present) > Capacity /\ k \notin Present
    THEN {Restrict(entries, Present \ {v}) : v \in Victims}
    ELSE {entries}

\* The caches insert_at may store k in, after making room for it
Room(k) ==
    IF Cardinality(Present) >= Capacity /\ k \notin Present
    THEN {Restrict(entries, Present \ {v}) : v \in Victims}
    ELSE {entries}

\* insert_at
InsertAt(k, q, m) ==
    \/ /\ CacheableTtl(m) = 0
       /\ UNCHANGED entries
    \/ /\ CacheableTtl(m) # 0
       /\ \E room \in Room(k) :
            entries' = [j \in {k} \cup DOMAIN room |->
                          IF j = k
                          THEN [msg |-> m, q |-> q, age |-> 0,
                                ttl |-> CacheableTtl(m)]
                          ELSE room[j]]

\* purge_expired
PurgeExpired ==
    entries' = Restrict(entries, {k \in Present : Remaining(entries[k]) > 0})

---------------------------------------------------------------------------
Init ==
    /\ entries = << >>
    /\ pc = [t \in Tasks |-> "idle"]
    /\ ask = [t \in Tasks |-> NoQuestion]
    /\ at = [t \in Tasks |-> 1]
    /\ got = [t \in Tasks |-> Servfail]
    /\ reply = [t \in Tasks |-> NoReply]
    /\ failed = [t \in Tasks |-> {}]

\* handle calls resolve for a question that the policy sends to DoH.
Ask(t, q) ==
    /\ pc[t] = "idle"
    /\ pc' = [pc EXCEPT ![t] = "lookup"]
    /\ ask' = [ask EXCEPT ![t] = q]
    /\ UNCHANGED <<entries, at, got, reply, failed>>

Return(t, r) ==
    /\ pc' = [pc EXCEPT ![t] = "reply"]
    /\ reply' = [reply EXCEPT ![t] = r]

\* cache.lock().get(&key), released before anything is awaited
Lookup(t) ==
    LET k == Key(ask[t]) IN
    /\ pc[t] = "lookup"
    /\ \/ /\ Live(k)
          /\ Return(t, [msg |-> Aged(entries[k]), src |-> entries[k].msg,
                        q |-> entries[k].q, age |-> entries[k].age])
          /\ UNCHANGED at
       \/ /\ ~Live(k)
          /\ pc' = [pc EXCEPT ![t] = "query"]
          /\ at' = [at EXCEPT ![t] = 1]
          /\ UNCHANGED reply
    /\ UNCHANGED <<entries, ask, got, failed>>

\* Mutant: after the last provider the loop starts over.
StartOver(t) ==
    /\ at' = [at EXCEPT ![t] = IF @ < NProviders THEN @ + 1 ELSE 1]
    /\ UNCHANGED <<pc, reply>>

\* Mutant: the first failure is final.
GiveUp(t) ==
    /\ Return(t, [NoReply EXCEPT !.q = ask[t]])
    /\ at' = [at EXCEPT ![t] = 1]

\* The next provider, or AllProvidersFailed, which handle answers SERVFAIL
TryNext(t) ==
    IF at[t] < NProviders
    THEN /\ at' = [at EXCEPT ![t] = @ + 1]
         /\ UNCHANGED <<pc, reply>>
    ELSE /\ Return(t, [NoReply EXCEPT !.q = ask[t]])
         /\ at' = [at EXCEPT ![t] = 1]

\* One turn of the loop of resolve_uncached: query_one has returned r
QueryOne(t, r) ==
    /\ pc[t] = "query"
    /\ \/ /\ r.rcode \notin {"ServFail", "Err"}
          /\ got' = [got EXCEPT ![t] = r]
          /\ pc' = [pc EXCEPT ![t] = "insert"]
          /\ at' = [at EXCEPT ![t] = 1]
          /\ UNCHANGED <<reply, failed>>
       \/ /\ r.rcode \in {"ServFail", "Err"}
          /\ failed' = [failed EXCEPT ![t] = @ \cup {at[t]}]
          /\ TryNext(t)
          /\ UNCHANGED got
    /\ UNCHANGED <<entries, ask>>

\* cache.lock().insert(key, response.clone()); Ok(response)
Insert(t) ==
    /\ pc[t] = "insert"
    /\ InsertAt(Key(ask[t]), ask[t], got[t])
    /\ Return(t, [msg |-> got[t], src |-> got[t], q |-> ask[t], age |-> 0])
    /\ got' = [got EXCEPT ![t] = Servfail]
    /\ UNCHANGED <<ask, at, failed>>

\* handle sets the client's id, encodes, and the task sends the bytes and
\* ends.  (Bytes are not modelled, so neither is a failure to encode them.)
Reply(t) ==
    /\ pc[t] = "reply"
    /\ pc' = [pc EXCEPT ![t] = "idle"]
    /\ reply' = [reply EXCEPT ![t] = NoReply]
    /\ failed' = [failed EXCEPT ![t] = {}]
    /\ ask' = [ask EXCEPT ![t] = NoQuestion]
    /\ UNCHANGED <<entries, at, got>>

\* purge_loop, every CACHE_PURGE_INTERVAL
Purge ==
    /\ PurgeExpired
    /\ UNCHANGED <<pc, ask, at, got, reply, failed>>

Tick ==
    /\ Present # {}
    /\ entries' = [k \in Present |->
                     [entries[k] EXCEPT !.age =
                        IF Remaining(entries[k]) > 0 THEN @ + 1 ELSE @]]
    /\ UNCHANGED <<pc, ask, at, got, reply, failed>>

Serve(t) ==
    \/ Lookup(t)
    \/ \E r \in Outcomes : QueryOne(t, r)
    \/ Insert(t)
    \/ Reply(t)

Next ==
    \/ \E t \in Tasks : Serve(t) \/ \E q \in Questions : Ask(t, q)
    \/ Purge
    \/ Tick

Spec == Init /\ [][Next]_vars

\* A spawned task is polled until it ends; query_one ends because the HTTP
\* client has a timeout.
FairSpec == Spec /\ \A t \in Tasks : WF_vars(Serve(t))

---------------------------------------------------------------------------
(* Properties.                                                             *)

\* The type of the cache and of each task's memory; a cached message is one
\* that cacheable_ttl gives a lifetime.
TypeOK ==
    /\ \A k \in Present :
         /\ entries[k].msg \in Answers
         /\ entries[k].msg.rcode \in {"NoError", "NXDomain"}
         /\ entries[k].q \in Questions
         /\ entries[k].ttl \in 1..Max({MaxTtl, NegativeTtl})
         /\ entries[k].age \in 0..(entries[k].ttl * Ticks)
    /\ pc \in [Tasks -> {"idle", "lookup", "query", "insert", "reply"}]
    /\ ask \in [Tasks -> Questions]
    /\ at \in [Tasks -> 1..NProviders]
    /\ got \in [Tasks -> Answers \cup {Servfail}]
    /\ reply \in [Tasks -> [msg : Messages, src : Messages, q : Questions,
                             age : Nat]]
    /\ failed \in [Tasks -> SUBSET (1..NProviders)]

Replying(t) == pc[t] = "reply"

\* No record is handed out once its own TTL has run out, the documented floor
\* aside, nor past the ceiling, and a negative answer (NXDOMAIN, with or
\* without the aliases that led to it, or no records) is not repeated past
\* NEGATIVE_TTL: whichever tasks filled, overwrote and purged the entry in
\* between (cache.rs, 13-19; README.md, 90).
ServedInTime ==
    \A t \in Tasks : Replying(t) =>
        LET m == reply[t].src
        IN  IF m.rcode = "NXDomain" \/ m.an = {}
            THEN reply[t].age < NegativeTtl * Ticks
            ELSE /\ reply[t].age < MaxTtl * Ticks
                 /\ \A r \in m.an : reply[t].age < Max({r, MinTtl}) * Ticks

\* A cached answer does not look fresher than it is: no answer or authority
\* record shows more than its original TTL less the whole seconds it spent in
\* the cache (cache.rs, 3-5).
CountedDown ==
    \A t \in Tasks : Replying(t) =>
        \A s \in {"an", "ns"} : \A y \in reply[t].msg[s] :
            y = 0 \/ \E x \in reply[t].src[s] : y * Ticks + reply[t].age < (x + 1) * Ticks

\* The answer is about the name, up to case, and the type that were asked.
AnswersQuestion ==
    \A t \in Tasks : Replying(t) =>
        /\ reply[t].q.name.host = ask[t].name.host
        /\ reply[t].q.type = ask[t].type

\* A client is told SERVFAIL only after every provider has failed it in this
\* very lookup: a failure is never cached and never passed on while another
\* provider is left ("a momentary blip becomes a sticky outage", cache.rs,
\* 133-134; resolver.rs, 155-157).
LastResort ==
    \A t \in Tasks : Replying(t) /\ reply[t].msg.rcode = "ServFail" =>
        failed[t] = 1..NProviders

\* The cache never outgrows its capacity, however many misses are in flight.
Bounded == Cardinality(Present) <= Capacity

\* An answer that is still good leaves the cache only to make room in a full
\* one, and then only when no other entry would have expired sooner
\* (cache.rs, 94-95, 107).
LiveKept ==
    [][\A k \in Present :
         Live(k) /\ k \notin DOMAIN entries' =>
            /\ Cardinality(Present) >= Capacity
            /\ \A j \in Present :
                 Remaining(entries[j]) >= Remaining(entries[k])]_vars

\* Every question is answered: the client is never left to its own timeout
\* (proxy.rs, 173-175).
Answered == \A t \in Tasks : (pc[t] = "lookup") ~> (pc[t] = "idle")

---------------------------------------------------------------------------
(* A statement of the repository that the code refutes.                    *)

\* "Look up a cached response, with all TTLs decremented by the time spent
\* here." (cache.rs, 53-54): the additional section too.
AllCountedDown ==
    \A t \in Tasks : Replying(t) =>
        \A y \in reply[t].msg.ar :
            y = 0 \/ \E x \in reply[t].src.ar : y * Ticks + reply[t].age < (x + 1) * Ticks

===========================================================================
