-------------------------- MODULE ResolverProofs --------------------------
(* Proofs about Resolver, for every set of tasks, names and answers and    *)
(* every capacity, number of providers and set of TTLs.                    *)
EXTENDS Resolver, FiniteSetTheorems, WellFoundedInduction, TLAPS

---------------------------------------------------------------------------
(* Numbers.                                                                *)

\* Every set of TTLs that is not empty has a least one.
LEMMA LeastExists ==
    ASSUME NEW S \in SUBSET Nat, S # {}
    PROVE  \E x \in S : \A y \in S : x <= y
<1>1. \E x \in S : \A y \in S : ~(<<y, x>> \in OpToRel(<, Nat))
  BY NatLessThanWellFounded, WFMin
<1>2. PICK x \in S : \A y \in S : ~(<<y, x>> \in OpToRel(<, Nat))
  BY <1>1
<1>3. \A y \in S : ~(y < x)
  BY <1>2 DEF OpToRel
<1> QED BY <1>3

\* so Min is what its name says,
LEMMA MinIsLeast ==
    ASSUME NEW S \in SUBSET Nat, S # {}
    PROVE  Min(S) \in S /\ \A y \in S : Min(S) <= y
<1>1. PICK x \in S : \A y \in S : x <= y
  BY LeastExists
<1> QED BY <1>1 DEF Min

\* of two as well,
LEMMA MinOfTwo ==
    ASSUME NEW a \in Nat, NEW b \in Nat
    PROVE  Min({a, b}) = IF a <= b THEN a ELSE b
<1>1. Min({a, b}) \in {a, b} /\ \A y \in {a, b} : Min({a, b}) <= y
  BY MinIsLeast
<1> QED BY <1>1

\* and so is Max of two.
LEMMA MaxOfTwo ==
    ASSUME NEW a \in Nat, NEW b \in Nat
    PROVE  Max({a, b}) = IF a <= b THEN b ELSE a
<1>1. \E x \in {a, b} : \A y \in {a, b} : x >= y
  OBVIOUS
<1>2. Max({a, b}) \in {a, b} /\ \A y \in {a, b} : Max({a, b}) >= y
  BY <1>1 DEF Max
<1> QED BY <1>2

\* More seconds are no fewer ticks.
LEMMA TicksGrow ==
    ASSUME NEW a \in Nat, NEW b \in Nat, a <= b
    PROVE  a * Ticks \in Nat /\ a * Ticks <= b * Ticks
BY TtlAssumption

\* What is left of the whole seconds spent is less than a second.
LEMMA SpentSeconds ==
    ASSUME NEW age \in Nat
    PROVE  /\ age \div Ticks \in Nat
           /\ age < (age \div Ticks) * Ticks + Ticks
BY TtlAssumption

\* A TTL counted down by whole seconds does not outlive the record.
LEMMA CountedDownTtl ==
    ASSUME NEW x \in Nat, NEW spent \in Nat, NEW age \in Nat, x > spent,
           age < spent * Ticks + Ticks
    PROVE  (x - spent) * Ticks + age < (x + 1) * Ticks
<1>1. (x - spent) * Ticks = x * Ticks - spent * Ticks
  BY TtlAssumption
<1>2. (x + 1) * Ticks = x * Ticks + Ticks
  BY TtlAssumption
<1>3. x * Ticks \in Nat /\ spent * Ticks \in Nat /\ Ticks \in Nat
  BY TtlAssumption
<1> QED BY <1>1, <1>2, <1>3

---------------------------------------------------------------------------
(* Messages.                                                               *)

\* What handle answers when every provider has failed carries no record.
LEMMA ServfailMessage ==
    /\ Servfail \in Messages
    /\ Servfail.rcode = "ServFail" /\ Servfail.an = {} /\ Servfail.ns = {}
BY DEF Servfail, Empty, Messages

\* There is something to ask.
LEMMA NoQuestionAsked == NoQuestion \in Questions
<1>1. PICK n \in Names, r \in Types : TRUE
  BY QuestionsAssumption
<1>2. [name |-> n, type |-> r] \in Questions
  BY DEF Questions
<1>3. \E q \in Questions : TRUE
  BY <1>2
<1> QED BY <1>3 DEF NoQuestion

\* The key keeps the name, but for its case, and the type.
LEMMA KeyKeeps ==
    ASSUME NEW q \in Questions, NEW r \in Questions, Key(q) = Key(r)
    PROVE  q.name.host = r.name.host /\ q.type = r.type
<1> DEFINE H == {n.host : n \in Names}
<1>1. q.name \in [host : H, upper : BOOLEAN] /\ r.name \in [host : H, upper : BOOLEAN]
  BY QuestionsAssumption DEF Questions
<1> HIDE DEF H
<1>2. /\ [q.name EXCEPT !.upper = FALSE].host = q.name.host
      /\ [r.name EXCEPT !.upper = FALSE].host = r.name.host
  BY <1>1
<1>3. Key(q).name = Key(r).name /\ Key(q).type = Key(r).type
  OBVIOUS
<1> QED BY <1>2, <1>3 DEF Key

\* cacheable_ttl gives no lifetime to a failure, the fixed one to a negative
\* answer, and to others one between the floor and the ceiling that no record
\* exceeds unless the floor does.
LEMMA LifetimeOf ==
    ASSUME NEW m \in Messages
    PROVE  LET ttl == CacheableTtl(m) IN
           /\ ttl \in Nat
           /\ ttl # 0 => m.rcode \in {"NoError", "NXDomain"}
           /\ ttl \in 0..Max({MaxTtl, NegativeTtl})
           /\ ttl # 0 =>
                IF m.rcode = "NXDomain" \/ m.an = {}
                THEN ttl = NegativeTtl
                ELSE /\ ttl <= MaxTtl
                     /\ \A r \in m.an : ttl <= Max({r, MinTtl})
<1> DEFINE ttl == CacheableTtl(m)
<1>0. /\ MinTtl \in Nat /\ MaxTtl \in Nat /\ NegativeTtl \in Nat
      /\ MinTtl <= MaxTtl
      /\ Max({MaxTtl, NegativeTtl}) =
           IF MaxTtl <= NegativeTtl THEN NegativeTtl ELSE MaxTtl
  BY TtlAssumption, MaxOfTwo
<1>1. CASE m.rcode = "NXDomain"
  BY <1>0, <1>1 DEF CacheableTtl
<1>2. CASE m.rcode = "NoError" /\ m.an = {}
  BY <1>0, <1>2 DEF CacheableTtl
<1>3. CASE m.rcode = "NoError" /\ m.an # {}
  <2> DEFINE least == Min(m.an)
             held == Min({MaxTtl, least})
  <2>1. least \in Nat /\ \A r \in m.an : r \in Nat /\ least <= r
    BY <1>3, MinIsLeast DEF Messages
  <2>2. ttl = Max({MinTtl, held})
    BY <1>3 DEF CacheableTtl
  <2> HIDE DEF least, ttl
  <2>3. held = IF MaxTtl <= least THEN MaxTtl ELSE least
    BY <1>0, <2>1, MinOfTwo
  <2> HIDE DEF held
  <2>4. ttl = IF MinTtl <= held THEN held ELSE MinTtl
    BY <1>0, <2>1, <2>2, <2>3, MaxOfTwo
  <2>5. ASSUME NEW r \in m.an PROVE ttl <= Max({r, MinTtl})
    <3>1. r \in Nat /\ least <= r
      BY <2>1
    <3>2. Max({r, MinTtl}) = IF r <= MinTtl THEN MinTtl ELSE r
      BY <1>0, <3>1, MaxOfTwo
    <3> QED BY <1>0, <2>1, <2>3, <2>4, <3>1, <3>2
  <2>6. ttl \in Nat /\ ttl <= MaxTtl
    BY <1>0, <2>1, <2>3, <2>4
  <2> QED BY <1>0, <1>3, <2>5, <2>6 DEF ttl
<1>4. CASE m.rcode \notin {"NoError", "NXDomain"}
  BY <1>0, <1>4 DEF CacheableTtl
<1> QED BY <1>1, <1>2, <1>3, <1>4

---------------------------------------------------------------------------
(* The inductive invariant.                                                *)

\* A stored message is filed under its question's key, with the lifetime that
\* cacheable_ttl gives it, and is not older than that.
Sound(e, k) ==
    /\ e \in [msg : Answers, q : Questions, age : Nat, ttl : Nat]
    /\ Key(e.q) = k
    /\ e.ttl = CacheableTtl(e.msg)
    /\ e.ttl # 0
    /\ e.age <= e.ttl * Ticks

CacheInv ==
    /\ IsFiniteSet(Present)
    /\ Cardinality(Present) <= Capacity
    /\ \A k \in Present : Sound(entries[k], k)

InTime(r) ==
    IF r.src.rcode = "NXDomain" \/ r.src.an = {}
    THEN r.age < NegativeTtl * Ticks
    ELSE /\ r.age < MaxTtl * Ticks
         /\ \A x \in r.src.an : r.age < Max({x, MinTtl}) * Ticks

Counted(r) ==
    \A s \in {"an", "ns"} : \A y \in r.msg[s] :
        y = 0 \/ \E x \in r.src[s] : y * Ticks + r.age < (x + 1) * Ticks

\* A lookup has been failed by the providers before the one it waits for; what
\* it stores is not a failure; what it returns is what the properties say.
TaskOf(t) ==
    /\ pc[t] \in {"idle", "lookup"} => failed[t] = {}
    /\ pc[t] = "query" => failed[t] = 1..(at[t] - 1)
    /\ pc[t] = "insert" => got[t] \in Answers /\ got[t].rcode # "ServFail"
    /\ pc[t] = "reply" =>
         /\ Key(reply[t].q) = Key(ask[t])
         /\ InTime(reply[t])
         /\ Counted(reply[t])
         /\ reply[t].msg.rcode = "ServFail" => failed[t] = 1..NProviders

TaskTypes ==
    /\ pc \in [Tasks -> {"idle", "lookup", "query", "insert", "reply"}]
    /\ ask \in [Tasks -> Questions]
    /\ at \in [Tasks -> 1..NProviders]
    /\ got \in [Tasks -> Answers \cup {Servfail}]
    /\ reply \in [Tasks -> [msg : Messages, src : Messages, q : Questions,
                             age : Nat]]
    /\ failed \in [Tasks -> SUBSET (1..NProviders)]

ResolverInv == CacheInv /\ TaskTypes /\ \A t \in Tasks : TaskOf(t)

---------------------------------------------------------------------------
(* Entries.                                                                *)

\* A sound entry has the lifetime its message deserves.
LEMMA SoundEntry ==
    ASSUME NEW e, NEW k, Sound(e, k)
    PROVE  /\ e.msg \in Answers /\ e.msg \in Messages
           /\ e.q \in Questions /\ e.age \in Nat /\ e.ttl \in Nat
           /\ e.msg.rcode \in {"NoError", "NXDomain"}
           /\ e.ttl \in 1..Max({MaxTtl, NegativeTtl})
           /\ e.ttl * Ticks \in Nat
           /\ e.age \in 0..(e.ttl * Ticks)
           /\ Remaining(e) = e.ttl * Ticks - e.age
           /\ Remaining(e) \in Nat
<1>1. /\ e.msg \in Answers /\ e.msg \in Messages
      /\ e.q \in Questions /\ e.age \in Nat /\ e.ttl \in Nat
  BY AnswersAssumption DEF Sound
<1>2. /\ e.msg.rcode \in {"NoError", "NXDomain"}
      /\ e.ttl \in 0..Max({MaxTtl, NegativeTtl}) /\ e.ttl # 0
  BY <1>1, LifetimeOf DEF Sound
<1>3. e.ttl \in 1..Max({MaxTtl, NegativeTtl})
  <2>1. Max({MaxTtl, NegativeTtl}) \in Nat
    BY TtlAssumption, MaxOfTwo
  <2> QED BY <1>2, <2>1
<1>4. e.ttl * Ticks \in Nat
  BY <1>1, TicksGrow
<1>5. e.age <= e.ttl * Ticks
  BY DEF Sound
<1> DEFINE L == e.ttl * Ticks
<1> HIDE DEF L
<1>6. Remaining(e) = IF e.age < L THEN L - e.age ELSE 0
  BY DEF Remaining, L
<1>7. L \in Nat /\ e.age <= L
  BY <1>4, <1>5 DEF L
<1>8. Remaining(e) = L - e.age /\ Remaining(e) \in Nat /\ e.age \in 0..L
  BY <1>1, <1>6, <1>7
<1> QED BY <1>1, <1>2, <1>3, <1>4, <1>8 DEF L

\* An answer that has not expired is in time.
LEMMA LiveInTime ==
    ASSUME NEW e, NEW k, Sound(e, k), Remaining(e) > 0,
           NEW r, r.src = e.msg, r.age = e.age
    PROVE  InTime(r)
<1> DEFINE m == e.msg
<1>1. /\ m \in Messages /\ e.age \in Nat /\ e.ttl \in Nat
      /\ e.ttl * Ticks \in Nat /\ Remaining(e) = e.ttl * Ticks - e.age
  BY SoundEntry
<1>2. e.age < e.ttl * Ticks
  BY <1>1
<1>3. IF m.rcode = "NXDomain" \/ m.an = {}
      THEN e.ttl = NegativeTtl
      ELSE e.ttl <= MaxTtl /\ \A x \in m.an : e.ttl <= Max({x, MinTtl})
  BY <1>1, LifetimeOf DEF Sound
<1>4. ASSUME NEW n \in Nat, e.ttl <= n PROVE e.age < n * Ticks
  <2>1. e.ttl * Ticks <= n * Ticks /\ n * Ticks \in Nat
    BY <1>1, <1>4, TicksGrow
  <2> QED BY <1>1, <1>2, <2>1
<1>5. CASE m.rcode = "NXDomain" \/ m.an = {}
  BY <1>2, <1>3, <1>5 DEF InTime
<1>6. CASE ~(m.rcode = "NXDomain" \/ m.an = {})
  <2>1. e.age < MaxTtl * Ticks
    BY <1>3, <1>4, <1>6, TtlAssumption
  <2>2. ASSUME NEW x \in m.an PROVE e.age < Max({x, MinTtl}) * Ticks
    <3>1. x \in Nat
      BY <1>1 DEF Messages
    <3>2. Max({x, MinTtl}) \in Nat
      BY <3>1, TtlAssumption, MaxOfTwo
    <3> QED BY <1>3, <1>4, <1>6, <3>2
  <2> QED BY <1>6, <2>1, <2>2 DEF InTime
<1> QED BY <1>5, <1>6

\* get_at hands out a message whose TTLs are counted down, and no failure.
LEMMA AgedMessage ==
    ASSUME NEW e, NEW k, Sound(e, k)
    PROVE  /\ Aged(e) \in Messages
           /\ Aged(e).rcode = e.msg.rcode
           /\ \A r : r.msg = Aged(e) /\ r.src = e.msg /\ r.age = e.age
                       => Counted(r)
<1> DEFINE spent == e.age \div Ticks
           m == e.msg
<1>1. m \in Messages /\ e.age \in Nat
  BY SoundEntry
<1>2. spent \in Nat /\ e.age < spent * Ticks + Ticks
  BY <1>1, SpentSeconds
<1>3. Aged(e) = [m EXCEPT !.an = CountDown(m.an, spent),
                          !.ns = CountDown(m.ns, spent)]
  BY DEF Aged
<1> HIDE DEF spent
<1>4. ASSUME NEW S \in SUBSET Nat
      PROVE  /\ CountDown(S, spent) \in SUBSET Nat
             /\ \A y \in CountDown(S, spent) :
                  y = 0 \/ \E x \in S : y * Ticks + e.age < (x + 1) * Ticks
  <2>1. CountDown(S, spent) \in SUBSET Nat
    BY <1>2 DEF CountDown
  <2>2. ASSUME NEW y \in CountDown(S, spent), y # 0
        PROVE  \E x \in S : y * Ticks + e.age < (x + 1) * Ticks
    <3>1. PICK x \in S : y = IF x > spent THEN x - spent ELSE 0
      BY DEF CountDown
    <3>2. x \in Nat /\ x > spent /\ y = x - spent
      BY <2>2, <3>1
    <3>3. (x - spent) * Ticks + e.age < (x + 1) * Ticks
      BY <1>1, <1>2, <3>2, CountedDownTtl
    <3> QED BY <3>2, <3>3
  <2> QED BY <2>1, <2>2
<1>5. m.an \in SUBSET Nat /\ m.ns \in SUBSET Nat
  BY <1>1 DEF Messages
<1>6. /\ Aged(e).rcode = m.rcode
      /\ Aged(e).an = CountDown(m.an, spent)
      /\ Aged(e).ns = CountDown(m.ns, spent)
  BY <1>1, <1>3 DEF Messages
<1>7. Aged(e) \in Messages
  <2>1. CountDown(m.an, spent) \in SUBSET Nat /\ CountDown(m.ns, spent) \in SUBSET Nat
    BY <1>4, <1>5
  <2> QED BY <1>1, <1>3, <2>1 DEF Messages
<1>8. ASSUME NEW r, r.msg = Aged(e), r.src = m, r.age = e.age
      PROVE  Counted(r)
  <2>1. r.msg["an"] = CountDown(m.an, spent) /\ r.src["an"] = m.an
    BY <1>6, <1>8
  <2>2. r.msg["ns"] = CountDown(m.ns, spent) /\ r.src["ns"] = m.ns
    BY <1>6, <1>8
  <2> QED BY <1>4, <1>5, <1>8, <2>1, <2>2 DEF Counted
<1> QED BY <1>6, <1>7, <1>8

\* An answer that was not kept at all is in time and shows its own TTLs.
LEMMA FreshReply ==
    ASSUME NEW r, r.msg \in Messages, r.src = r.msg, r.age = 0
    PROVE  InTime(r) /\ Counted(r)
<1>1. ASSUME NEW n \in Nat \ {0} PROVE 0 < n * Ticks
  BY TtlAssumption
<1>2. r.src.an \in SUBSET Nat /\ r.src.ns \in SUBSET Nat
  BY DEF Messages
<1>3. NegativeTtl \in Nat \ {0} /\ MaxTtl \in Nat \ {0}
  BY TtlAssumption
<1>4. ASSUME NEW x \in r.src.an PROVE Max({x, MinTtl}) \in Nat \ {0}
  BY <1>2, TtlAssumption, MaxOfTwo
<1>5. InTime(r)
  BY <1>1, <1>3, <1>4 DEF InTime
<1>6. ASSUME NEW y \in Nat PROVE y * Ticks + 0 < (y + 1) * Ticks
  BY TtlAssumption
<1>7. Counted(r)
  BY <1>2, <1>6 DEF Counted
<1> QED BY <1>5, <1>7

---------------------------------------------------------------------------
(* The cache.                                                              *)

\* What is left of the cache when the keys outside S are dropped
LEMMA RestrictOf ==
    ASSUME NEW S \in SUBSET Present
    PROVE  /\ DOMAIN Restrict(entries, S) = S
           /\ \A k \in S : Restrict(entries, S)[k] = entries[k]
BY DEF Restrict

\* Making room leaves a place for the key, and what stays is what was there.
LEMMA RoomFor ==
    ASSUME CacheInv, NEW k, NEW room \in Room(k)
    PROVE  /\ DOMAIN room \subseteq Present
           /\ \A j \in DOMAIN room : room[j] = entries[j]
           /\ k \in Present => DOMAIN room = Present
           /\ k \notin Present => Cardinality(DOMAIN room) < Capacity
           /\ \A j \in Present \ DOMAIN room :
                j \in Victims /\ Cardinality(Present) >= Capacity
<1>0. /\ Capacity \in Nat \ {0} /\ IsFiniteSet(Present)
      /\ Cardinality(Present) \in Nat /\ Cardinality(Present) <= Capacity
  BY CapacityAssumption, FS_CardinalityType DEF CacheInv
<1>1. CASE Cardinality(Present) >= Capacity /\ k \notin Present
  <2>1. PICK v \in Victims : room = Restrict(entries, Present \ {v})
    BY <1>1 DEF Room
  <2>2. v \in Present
    BY DEF Victims
  <2>3. DOMAIN room = Present \ {v} /\ \A j \in DOMAIN room : room[j] = entries[j]
    BY <2>1, RestrictOf
  <2>4. Cardinality(Present \ {v}) = Cardinality(Present) - 1
    BY <1>0, <2>2, FS_RemoveElement
  <2> QED BY <1>0, <1>1, <2>2, <2>3, <2>4
<1>2. CASE ~(Cardinality(Present) >= Capacity /\ k \notin Present)
  <2>1. room = entries
    BY <1>2 DEF Room
  <2> QED BY <1>0, <1>2, <2>1 DEF Present
<1> QED BY <1>1, <1>2

\* insert_at
LEMMA InsertKeeps ==
    ASSUME CacheInv, NEW q \in Questions, NEW m \in Answers,
           InsertAt(Key(q), q, m)
    PROVE  CacheInv'
<1> DEFINE k == Key(q)
           e == [msg |-> m, q |-> q, age |-> 0, ttl |-> CacheableTtl(m)]
<1>1. CASE UNCHANGED entries
  BY <1>1 DEF CacheInv, Present
<1>2. ASSUME CacheableTtl(m) # 0, NEW room \in Room(k),
             entries' = [j \in {k} \cup DOMAIN room |->
                           IF j = k THEN e ELSE room[j]]
      PROVE  CacheInv'
  <2>1. /\ DOMAIN room \subseteq Present
        /\ \A j \in DOMAIN room : room[j] = entries[j]
        /\ k \in Present => DOMAIN room = Present
        /\ k \notin Present => Cardinality(DOMAIN room) < Capacity
    BY RoomFor
  <2>2. Sound(e, k)
    <3>1. CacheableTtl(m) \in Nat
      BY AnswersAssumption, LifetimeOf
    <3>2. CacheableTtl(m) * Ticks \in Nat
      BY <3>1, TicksGrow
    <3> QED BY <1>2, <3>1, <3>2 DEF Sound
  <2> HIDE DEF e, k
  <2>3. /\ Present' = {k} \cup DOMAIN room
        /\ entries'[k] = e
        /\ \A j \in DOMAIN room : j # k => entries'[j] = room[j]
    BY <1>2 DEF Present
  <2>4. IsFiniteSet(DOMAIN room) /\ Cardinality(DOMAIN room) \in Nat
    BY <2>1, FS_Subset, FS_CardinalityType DEF CacheInv
  <2>5. IsFiniteSet(Present') /\ Cardinality(Present') <= Capacity
    <3>1. CASE k \in Present
      BY <2>1, <2>3, <3>1 DEF CacheInv
    <3>2. CASE k \notin Present
      <4>1. k \notin DOMAIN room
        BY <2>1, <3>2
      <4>2. Cardinality(Present') = Cardinality(DOMAIN room) + 1
            /\ IsFiniteSet(Present')
        <5>1. Present' = DOMAIN room \cup {k}
          BY <2>3
        <5> HIDE DEF k
        <5> QED BY <2>4, <4>1, <5>1, FS_AddElement
      <4> QED BY <2>1, <2>4, <3>2, <4>2, CapacityAssumption
    <3> QED BY <3>1, <3>2
  <2>6. ASSUME NEW j \in Present' PROVE Sound(entries'[j], j)
    <3>1. CASE j = k
      BY <2>2, <2>3, <3>1
    <3>2. CASE j # k
      BY <2>1, <2>3, <3>2 DEF CacheInv
    <3> QED BY <3>1, <3>2
  <2> QED BY <2>5, <2>6 DEF CacheInv
<1> QED BY <1>1, <1>2 DEF InsertAt

\* purge_expired
LEMMA PurgeKeeps ==
    ASSUME CacheInv, PurgeExpired
    PROVE  CacheInv'
<1> DEFINE S == {k \in Present : Remaining(entries[k]) > 0}
<1>1. S \in SUBSET Present /\ Present' = S /\ \A k \in S : entries'[k] = entries[k]
  BY RestrictOf DEF PurgeExpired, Present
<1> HIDE DEF S
<1>2. IsFiniteSet(S) /\ Cardinality(S) <= Cardinality(Present)
      /\ Cardinality(S) \in Nat /\ Cardinality(Present) \in Nat
  BY <1>1, FS_Subset, FS_CardinalityType DEF CacheInv
<1>3. IsFiniteSet(Present') /\ Cardinality(Present') <= Capacity
  BY <1>1, <1>2, CapacityAssumption DEF CacheInv
<1>4. \A k \in Present' : Sound(entries'[k], k)
  BY <1>1 DEF CacheInv
<1> QED BY <1>3, <1>4 DEF CacheInv

\* The clock
LEMMA TickKeeps ==
    ASSUME CacheInv, Tick
    PROVE  CacheInv'
<1>1. Present' = Present
  BY DEF Tick, Present
<1>2. ASSUME NEW k \in Present PROVE Sound(entries'[k], k)
  <2> DEFINE e == entries[k]
             a == IF Remaining(e) > 0 THEN e.age + 1 ELSE e.age
             L == e.ttl * Ticks
  <2>1. Sound(e, k)
    BY DEF CacheInv
  <2>2. entries'[k] = [e EXCEPT !.age = a]
    BY DEF Tick
  <2>3. L \in Nat /\ e.age \in Nat /\ e.age <= L /\ Remaining(e) = L - e.age
    BY <2>1, SoundEntry
  <2> HIDE DEF L
  <2>4. a \in Nat /\ a <= L
    BY <2>3
  <2> HIDE DEF a
  <2>5. /\ entries'[k] \in [msg : Answers, q : Questions, age : Nat, ttl : Nat]
        /\ entries'[k].q = e.q /\ entries'[k].msg = e.msg
        /\ entries'[k].ttl = e.ttl /\ entries'[k].age = a
    BY <2>1, <2>2, <2>4 DEF Sound
  <2> HIDE DEF e
  <2> QED BY <2>1, <2>4, <2>5 DEF Sound, L
<1> QED BY <1>1, <1>2 DEF CacheInv

---------------------------------------------------------------------------
(* Tasks.                                                                  *)

\* What a task that ends its lookup leaves to prove: the reply it returns.
LEMMA Returned ==
    ASSUME TaskTypes, NEW t \in Tasks,
           NEW r \in [msg : Messages, src : Messages, q : Questions, age : Nat],
           Return(t, r)
    PROVE  /\ pc' \in [Tasks -> {"idle", "lookup", "query", "insert", "reply"}]
           /\ reply' \in [Tasks -> [msg : Messages, src : Messages,
                                    q : Questions, age : Nat]]
           /\ pc'[t] = "reply" /\ reply'[t] = r
           /\ \A u \in Tasks \ {t} : pc'[u] = pc[u] /\ reply'[u] = reply[u]
BY DEF TaskTypes, Return

\* A task's memory is its own.
Elsewhere(t) ==
    \A u \in Tasks \ {t} :
        /\ pc'[u] = pc[u] /\ ask'[u] = ask[u] /\ at'[u] = at[u]
        /\ got'[u] = got[u] /\ reply'[u] = reply[u] /\ failed'[u] = failed[u]

\* So a step of one keeps the invariant if it does for that task.
LEMMA OneTask ==
    ASSUME ResolverInv, NEW t \in Tasks, Elsewhere(t), CacheInv', TaskTypes',
           TaskOf(t)'
    PROVE  ResolverInv'
<1>1. ASSUME NEW u \in Tasks, u # t PROVE TaskOf(u)'
  <2>1. TaskOf(u)
    BY DEF ResolverInv
  <2>2. /\ pc'[u] = pc[u] /\ ask'[u] = ask[u] /\ at'[u] = at[u]
        /\ got'[u] = got[u] /\ reply'[u] = reply[u] /\ failed'[u] = failed[u]
    BY <1>1 DEF Elsewhere
  <2> QED BY <2>1, <2>2 DEF TaskOf
<1> QED BY <1>1 DEF ResolverInv

\* handle calls resolve
LEMMA AskKeeps ==
    ASSUME ResolverInv, NEW t \in Tasks, NEW q \in Questions, Ask(t, q)
    PROVE  ResolverInv'
<1>1. TaskTypes /\ TaskOf(t)
  BY DEF ResolverInv
<1>2. TaskTypes' /\ Elsewhere(t)
  BY <1>1 DEF TaskTypes, Elsewhere, Ask
<1>3. pc[t] = "idle" /\ pc'[t] = "lookup" /\ failed'[t] = failed[t]
  BY <1>1 DEF TaskTypes, Ask
<1>4. TaskOf(t)'
  BY <1>1, <1>3 DEF TaskOf
<1>5. CacheInv'
  BY DEF ResolverInv, CacheInv, Present, Ask
<1> QED BY <1>2, <1>4, <1>5, OneTask

\* A hit is the live entry of the question's key, counted down; a miss goes to
\* the first provider.
LEMMA LookupKeeps ==
    ASSUME ResolverInv, NEW t \in Tasks, Lookup(t)
    PROVE  ResolverInv'
<1> DEFINE k == Key(ask[t])
<1>1. TaskTypes /\ TaskOf(t)
  BY DEF ResolverInv
<1>2. CacheInv' /\ CacheInv
  BY DEF ResolverInv, CacheInv, Present, Lookup
<1>3. pc[t] = "lookup" /\ failed[t] = {} /\ UNCHANGED <<ask, got, failed>>
  BY <1>1 DEF Lookup, TaskOf
<1>4. CASE /\ Live(k)
           /\ Return(t, [msg |-> Aged(entries[k]), src |-> entries[k].msg,
                         q |-> entries[k].q, age |-> entries[k].age])
           /\ UNCHANGED at
  <2> DEFINE e == entries[k]
             r == [msg |-> Aged(e), src |-> e.msg, q |-> e.q, age |-> e.age]
  <2>1. Sound(e, k) /\ Remaining(e) > 0
    BY <1>2, <1>4 DEF CacheInv, Live
  <2>2. /\ e.msg \in Messages /\ e.q \in Questions /\ e.age \in Nat
        /\ e.msg.rcode # "ServFail"
    BY <2>1, SoundEntry
  <2>3. Aged(e) \in Messages /\ Aged(e).rcode # "ServFail"
    BY <2>1, <2>2, AgedMessage
  <2>4. r \in [msg : Messages, src : Messages, q : Questions, age : Nat]
    BY <2>2, <2>3
  <2>5. InTime(r)
    BY <2>1, LiveInTime
  <2>6. Counted(r)
    BY <2>1, AgedMessage
  <2>7. Key(r.q) = Key(ask[t]) /\ r.msg.rcode # "ServFail"
    BY <2>1, <2>3 DEF Sound
  <2>8. Return(t, r)
    BY <1>4
  <2> HIDE DEF r, k
  <2>9. /\ TaskTypes' /\ Elsewhere(t)
        /\ pc'[t] = "reply" /\ reply'[t] = r
    BY <1>1, <1>3, <1>4, <2>4, <2>8, Returned DEF TaskTypes, Elsewhere
  <2>10. TaskOf(t)'
    BY <1>3, <2>5, <2>6, <2>7, <2>9 DEF TaskOf
  <2> QED BY <1>2, <2>9, <2>10, OneTask
<1>5. CASE /\ pc' = [pc EXCEPT ![t] = "query"]
           /\ at' = [at EXCEPT ![t] = 1]
           /\ UNCHANGED reply
  <2>1. TaskTypes' /\ Elsewhere(t)
    BY <1>1, <1>3, <1>5, ProvidersAssumption DEF TaskTypes, Elsewhere
  <2>2. pc'[t] = "query" /\ at'[t] = 1 /\ failed'[t] = {}
    BY <1>1, <1>3, <1>5 DEF TaskTypes
  <2>3. TaskOf(t)'
    BY <2>2 DEF TaskOf
  <2> QED BY <1>2, <2>1, <2>3, OneTask
<1> QED BY <1>4, <1>5 DEF Lookup

\* The reply that stands for AllProvidersFailed
LEMMA FailedReply ==
    ASSUME NEW q \in Questions
    PROVE  LET r == [NoReply EXCEPT !.q = q] IN
           /\ r \in [msg : Messages, src : Messages, q : Questions, age : Nat]
           /\ r.q = q
           /\ InTime(r) /\ Counted(r)
<1> DEFINE r == [NoReply EXCEPT !.q = q]
<1>1. r = [msg |-> Servfail, src |-> Servfail, q |-> q, age |-> 0]
  BY DEF NoReply
<1> HIDE DEF r
<1>2. /\ r.msg = Servfail /\ r.src = Servfail /\ r.q = q /\ r.age = 0
      /\ r \in [msg : Messages, src : Messages, q : Questions, age : Nat]
  BY <1>1, ServfailMessage
<1>3. InTime(r) /\ Counted(r)
  BY <1>2, ServfailMessage, FreshReply
<1> QED BY <1>2, <1>3 DEF r

\* One turn of the loop over the providers: the lookup is over with the first
\* answer that is not a failure, or once the last has failed.
LEMMA QueryKeeps ==
    ASSUME ResolverInv, NEW t \in Tasks, NEW r \in Outcomes, QueryOne(t, r)
    PROVE  ResolverInv'
<1>1. TaskTypes /\ TaskOf(t)
  BY DEF ResolverInv
<1>2. CacheInv'
  BY DEF ResolverInv, CacheInv, Present, QueryOne
<1>3. pc[t] = "query" /\ failed[t] = 1..(at[t] - 1) /\ UNCHANGED ask
  BY <1>1 DEF QueryOne, TaskOf
<1>4. at[t] \in 1..NProviders /\ NProviders \in Nat \ {0}
  BY <1>1, ProvidersAssumption DEF TaskTypes
<1>5. CASE /\ r.rcode \notin {"ServFail", "Err"}
           /\ got' = [got EXCEPT ![t] = r]
           /\ pc' = [pc EXCEPT ![t] = "insert"]
           /\ at' = [at EXCEPT ![t] = 1]
           /\ UNCHANGED <<reply, failed>>
  <2>1. r \in Answers
    BY <1>5 DEF Outcomes, Empty
  <2>2. TaskTypes' /\ Elsewhere(t)
    BY <1>1, <1>3, <1>4, <1>5, <2>1 DEF TaskTypes, Elsewhere
  <2>3. pc'[t] = "insert" /\ got'[t] = r
    BY <1>1, <1>5 DEF TaskTypes
  <2>4. TaskOf(t)'
    BY <1>5, <2>1, <2>3 DEF TaskOf
  <2> QED BY <1>2, <2>2, <2>4, OneTask
<1>6. CASE /\ failed' = [failed EXCEPT ![t] = @ \cup {at[t]}]
           /\ TryNext(t)
           /\ UNCHANGED got
  <2>1. /\ failed' \in [Tasks -> SUBSET (1..NProviders)]
        /\ failed'[t] = 1..at[t]
        /\ \A u \in Tasks \ {t} : failed'[u] = failed[u]
    BY <1>1, <1>3, <1>4, <1>6 DEF TaskTypes
  <2>2. CASE at[t] < NProviders
    <3>1. at' = [at EXCEPT ![t] = at[t] + 1] /\ UNCHANGED <<pc, reply>>
      BY <1>6, <2>2 DEF TryNext
    <3>2. at[t] + 1 \in 1..NProviders
      BY <1>4, <2>2
    <3>3. TaskTypes' /\ Elsewhere(t)
      BY <1>1, <1>3, <1>6, <2>1, <3>1, <3>2 DEF TaskTypes, Elsewhere
    <3>4. pc'[t] = "query" /\ at'[t] = at[t] + 1
      BY <1>1, <1>3, <3>1 DEF TaskTypes
    <3>5. 1..(at'[t] - 1) = 1..at[t]
      BY <1>4, <3>4
    <3>6. TaskOf(t)'
      BY <2>1, <3>4, <3>5 DEF TaskOf
    <3> QED BY <1>2, <3>3, <3>6, OneTask
  <2>3. CASE ~(at[t] < NProviders)
    <3> DEFINE s == [NoReply EXCEPT !.q = ask[t]]
    <3>1. ask[t] \in Questions
      BY <1>1 DEF TaskTypes
    <3>2. Return(t, s) /\ at' = [at EXCEPT ![t] = 1]
      BY <1>6, <2>3 DEF TryNext
    <3>3. /\ s \in [msg : Messages, src : Messages, q : Questions, age : Nat]
          /\ s.q = ask[t] /\ InTime(s) /\ Counted(s)
      BY <3>1, FailedReply
    <3> HIDE DEF s
    <3>4. /\ TaskTypes' /\ Elsewhere(t)
          /\ pc'[t] = "reply" /\ reply'[t] = s
      BY <1>1, <1>3, <1>4, <1>6, <2>1, <3>2, <3>3, Returned
         DEF TaskTypes, Elsewhere
    <3>5. failed'[t] = 1..NProviders
      BY <1>4, <2>1, <2>3
    <3>6. TaskOf(t)'
      BY <1>3, <3>3, <3>4, <3>5 DEF TaskOf
    <3> QED BY <1>2, <3>4, <3>6, OneTask
  <2> QED BY <2>2, <2>3
<1> QED BY <1>5, <1>6 DEF QueryOne

\* The answer is stored and returned.
LEMMA InsertStep ==
    ASSUME ResolverInv, NEW t \in Tasks, Insert(t)
    PROVE  ResolverInv'
<1> DEFINE m == got[t]
           r == [msg |-> m, src |-> m, q |-> ask[t], age |-> 0]
<1>1. TaskTypes /\ TaskOf(t) /\ CacheInv
  BY DEF ResolverInv
<1>2. pc[t] = "insert" /\ m \in Answers /\ m.rcode # "ServFail"
  BY <1>1 DEF Insert, TaskOf
<1>3. ask[t] \in Questions /\ m \in Messages
  BY <1>1, <1>2, AnswersAssumption DEF TaskTypes
<1>4. CacheInv'
  BY <1>1, <1>2, <1>3, InsertKeeps DEF Insert
<1>5. /\ r \in [msg : Messages, src : Messages, q : Questions, age : Nat]
      /\ r.q = ask[t] /\ r.msg = m /\ r.src = r.msg /\ r.age = 0
  BY <1>3
<1>6. Return(t, r) /\ got' = [got EXCEPT ![t] = Servfail]
      /\ UNCHANGED <<ask, at, failed>>
  BY DEF Insert
<1> HIDE DEF r
<1>7. InTime(r) /\ Counted(r)
  BY <1>3, <1>5, FreshReply
<1>8. /\ TaskTypes' /\ Elsewhere(t)
      /\ pc'[t] = "reply" /\ reply'[t] = r
  BY <1>1, <1>5, <1>6, Returned DEF TaskTypes, Elsewhere
<1>9. TaskOf(t)'
  BY <1>2, <1>5, <1>6, <1>7, <1>8 DEF TaskOf
<1> QED BY <1>4, <1>8, <1>9, OneTask

\* The bytes are sent and the task ends.
LEMMA ReplyKeeps ==
    ASSUME ResolverInv, NEW t \in Tasks, Reply(t)
    PROVE  ResolverInv'
<1>1. TaskTypes /\ TaskOf(t)
  BY DEF ResolverInv
<1>2. CacheInv'
  BY DEF ResolverInv, CacheInv, Present, Reply
<1>3. NoReply \in [msg : Messages, src : Messages, q : Questions, age : Nat]
  BY ServfailMessage, NoQuestionAsked DEF NoReply
<1> HIDE DEF NoReply
<1>4. TaskTypes' /\ Elsewhere(t)
  BY <1>1, <1>3, NoQuestionAsked DEF TaskTypes, Elsewhere, Reply
<1>5. pc'[t] = "idle" /\ failed'[t] = {}
  BY <1>1 DEF TaskTypes, Reply
<1>6. TaskOf(t)'
  BY <1>5 DEF TaskOf
<1> QED BY <1>2, <1>4, <1>6, OneTask

\* purge_loop and the clock change nothing in a task.
LEMMA TasksRest ==
    ASSUME ResolverInv, CacheInv', UNCHANGED <<pc, ask, at, got, reply, failed>>
    PROVE  ResolverInv'
<1>1. TaskTypes'
  BY DEF ResolverInv, TaskTypes
<1>2. ASSUME NEW t \in Tasks PROVE TaskOf(t)'
  <2>1. TaskOf(t)
    BY DEF ResolverInv
  <2> QED BY <2>1 DEF TaskOf
<1> QED BY <1>1, <1>2 DEF ResolverInv

\* At first the cache is empty and no task has begun.
LEMMA ResolverStart == Init => ResolverInv
<1> SUFFICES ASSUME Init PROVE ResolverInv
  OBVIOUS
<1>1. CacheInv
  <2>1. Present = {}
    BY DEF Init, Present
  <2>2. IsFiniteSet({}) /\ Cardinality({}) = 0
    BY FS_EmptySet
  <2> QED BY <2>1, <2>2, CapacityAssumption DEF CacheInv
<1>2. NoReply \in [msg : Messages, src : Messages, q : Questions, age : Nat]
  BY ServfailMessage, NoQuestionAsked DEF NoReply
<1>3. TaskTypes
  BY <1>2, NoQuestionAsked, ProvidersAssumption DEF Init, TaskTypes
<1>4. \A t \in Tasks : TaskOf(t)
  BY DEF Init, TaskOf
<1> QED BY <1>1, <1>3, <1>4 DEF ResolverInv

\* Every step of a task, the purge loop or the clock keeps the invariant.
LEMMA ResolverStep == ResolverInv /\ [Next]_vars => ResolverInv'
<1> SUFFICES ASSUME ResolverInv, [Next]_vars PROVE ResolverInv'
  OBVIOUS
<1>0. CacheInv
  BY DEF ResolverInv
<1>1. ASSUME NEW t \in Tasks, NEW q \in Questions, Ask(t, q) PROVE ResolverInv'
  BY <1>1, AskKeeps
<1>2. ASSUME NEW t \in Tasks, Lookup(t) PROVE ResolverInv'
  BY <1>2, LookupKeeps
<1>3. ASSUME NEW t \in Tasks, NEW r \in Outcomes, QueryOne(t, r) PROVE ResolverInv'
  BY <1>3, QueryKeeps
<1>4. ASSUME NEW t \in Tasks, Insert(t) PROVE ResolverInv'
  BY <1>4, InsertStep
<1>5. ASSUME NEW t \in Tasks, Reply(t) PROVE ResolverInv'
  BY <1>5, ReplyKeeps
<1>6. CASE Purge
  BY <1>0, <1>6, PurgeKeeps, TasksRest DEF Purge
<1>7. CASE Tick
  <2>1. CacheInv'
    BY <1>0, <1>7, TickKeeps
  <2> QED BY <1>7, <2>1, TasksRest DEF Tick
<1>8. CASE UNCHANGED vars
  <2>1. CacheInv'
    BY <1>0, <1>8 DEF CacheInv, Present, vars
  <2> QED BY <1>8, <2>1, TasksRest DEF vars
<1> QED BY <1>1, <1>2, <1>3, <1>4, <1>5, <1>6, <1>7, <1>8 DEF Next, Serve

\* So it holds throughout.
LEMMA ResolverAlways == Spec => []ResolverInv
<1> QED BY ResolverStart, ResolverStep, PTL DEF Spec

---------------------------------------------------------------------------
(* What it promises.                                                       *)

\* The cache holds what cacheable_ttl gave a lifetime, and each task's memory
\* has its type.
THEOREM TypeCorrect == Spec => []TypeOK
<1>1. ResolverInv => TypeOK
  <2> SUFFICES ASSUME ResolverInv PROVE TypeOK
    OBVIOUS
  <2>1. ASSUME NEW k \in Present
        PROVE  /\ entries[k].msg \in Answers
               /\ entries[k].msg.rcode \in {"NoError", "NXDomain"}
               /\ entries[k].q \in Questions
               /\ entries[k].ttl \in 1..Max({MaxTtl, NegativeTtl})
               /\ entries[k].age \in 0..(entries[k].ttl * Ticks)
    <3>1. Sound(entries[k], k)
      BY DEF ResolverInv, CacheInv
    <3> QED BY <3>1, SoundEntry
  <2>2. TaskTypes
    BY DEF ResolverInv
  <2> QED BY <2>1, <2>2 DEF TypeOK, TaskTypes
<1> QED BY <1>1, ResolverAlways, PTL

\* Cache::insert_at evicts before it inserts, under the mutex, so the cache
\* does not outgrow its capacity.
THEOREM CacheBounded == Spec => []Bounded
<1>1. ResolverInv => Bounded
  BY DEF ResolverInv, CacheInv, Bounded
<1> QED BY <1>1, ResolverAlways, PTL

\* A hit is an answer to the question asked, up to the case of the name.
THEOREM AnswersTheQuestion == Spec => []AnswersQuestion
<1>1. ASSUME ResolverInv, NEW t \in Tasks, Replying(t)
      PROVE  /\ reply[t].q.name.host = ask[t].name.host
             /\ reply[t].q.type = ask[t].type
  <2>1. Key(reply[t].q) = Key(ask[t])
    BY <1>1 DEF ResolverInv, TaskOf, Replying
  <2>2. reply[t].q \in Questions /\ ask[t] \in Questions
    BY <1>1 DEF ResolverInv, TaskTypes
  <2> QED BY <2>1, <2>2, KeyKeeps
<1>2. ResolverInv => AnswersQuestion
  BY <1>1 DEF AnswersQuestion
<1> QED BY <1>2, ResolverAlways, PTL

\* No record is handed out past its time, whichever tasks filled, overwrote
\* and purged the entry since it was stored.
THEOREM NeverStale == Spec => []ServedInTime
<1>1. ResolverInv => ServedInTime
  BY DEF ResolverInv, TaskOf, InTime, ServedInTime, Replying
<1> QED BY <1>1, ResolverAlways, PTL

\* Nor does a cached record look fresher than it is.
THEOREM NeverFresher == Spec => []CountedDown
<1>1. ASSUME ResolverInv, NEW t \in Tasks, Replying(t) PROVE Counted(reply[t])
  BY <1>1 DEF ResolverInv, TaskOf, Replying
<1>2. ResolverInv => CountedDown
  BY <1>1 DEF Counted, CountedDown
<1> QED BY <1>2, ResolverAlways, PTL

\* SERVFAIL is what is left once every provider has failed this lookup.
THEOREM FailureIsLast == Spec => []LastResort
<1>1. ResolverInv => LastResort
  BY DEF ResolverInv, TaskOf, LastResort, Replying
<1> QED BY <1>1, ResolverAlways, PTL

\* evict_one takes the entry with the least time left, and only from a full
\* cache; nothing else removes an answer that has not expired.
THEOREM LiveStays == Spec => LiveKept
<1> DEFINE Kept ==
      \A k \in Present :
         Live(k) /\ k \notin DOMAIN entries' =>
            /\ Cardinality(Present) >= Capacity
            /\ \A j \in Present :
                 Remaining(entries[j]) >= Remaining(entries[k])
<1>1. ASSUME ResolverInv, [Next]_vars PROVE Kept
  <2>1. CASE UNCHANGED entries
    BY <2>1 DEF Present
  <2>2. ASSUME NEW t \in Tasks, Insert(t), ~UNCHANGED entries
        PROVE  Kept
    <3> DEFINE k == Key(ask[t])
    <3>1. PICK room \in Room(k) : Present' = {k} \cup DOMAIN room
      BY <2>2 DEF Insert, InsertAt, Present
    <3>2. /\ CacheInv
          /\ \A j \in Present \ DOMAIN room :
               j \in Victims /\ Cardinality(Present) >= Capacity
      BY <1>1, <3>1, RoomFor DEF ResolverInv
    <3>3. ASSUME NEW i \in Present
          PROVE  Remaining(entries[i]) \in Nat
      <4>1. Sound(entries[i], i)
        BY <3>2 DEF CacheInv
      <4> QED BY <4>1, SoundEntry
    <3>4. ASSUME NEW i \in Present, i \notin Present', NEW j \in Present
          PROVE  /\ Cardinality(Present) >= Capacity
                 /\ Remaining(entries[j]) >= Remaining(entries[i])
      <4>1. i \in Victims /\ Cardinality(Present) >= Capacity
        BY <3>1, <3>2, <3>4
      <4>2. Remaining(entries[i]) <= Remaining(entries[j])
        BY <3>4, <4>1 DEF Victims
      <4>3. Remaining(entries[i]) \in Nat /\ Remaining(entries[j]) \in Nat
        BY <3>3
      <4> QED BY <4>1, <4>2, <4>3
    <3> QED BY <3>4 DEF Present
  <2>3. CASE Purge
    BY <2>3, RestrictOf DEF Purge, PurgeExpired, Live, Present
  <2>4. CASE Tick
    BY <2>4 DEF Tick, Present
  <2>5. CASE \E t \in Tasks : \/ \E q \in Questions : Ask(t, q)
                              \/ Lookup(t)
                              \/ \E r \in Outcomes : QueryOne(t, r)
                              \/ Reply(t)
    BY <2>1, <2>5 DEF Ask, Lookup, QueryOne, Reply
  <2> HIDE DEF Kept
  <2> QED
    BY <1>1, <2>1, <2>2, <2>3, <2>4, <2>5 DEF Next, Serve, vars
<1>2. ResolverInv /\ [Next]_vars => [Kept]_vars
  BY <1>1
<1>3. Spec => [][Kept]_vars
  BY <1>2, ResolverAlways, PTL DEF Spec
<1> QED BY <1>3 DEF LiveKept

===========================================================================
