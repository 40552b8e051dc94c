---------------------------- MODULE WindowProofs ----------------------------
(* Proofs about Window: the routing policy a helper runs with, the         *)
(* settings file it is loaded from, and the diagnosis beside it, for every *)
(* set of settings, profiles and names.                                    *)
EXTENDS Window, FiniteSetTheorems, SequenceTheorems, WellFoundedInduction, TLAPS

---------------------------------------------------------------------------
(* Numbers.                                                                *)

\* A set of naturals that is not empty has a least one;
LEMMA LeastExists ==
    ASSUME NEW S \in SUBSET Nat, S # {}
    PROVE  \E x \in S : \A y \in S : x <= y
<1>1. PICK x \in S : \A y \in S : ~(<<y, x>> \in OpToRel(<, Nat))
  BY NatLessThanWellFounded, WFMin
<1>2. \A y \in S : ~(y < x)
  BY <1>1 DEF OpToRel
<1> QED BY <1>2

\* one with a bound has a greatest, and that is what Max gives.
LEMMA MaxIsGreatest ==
    ASSUME NEW n \in Nat, NEW S \in SUBSET (1..n), S # {}
    PROVE  Max(S) \in S /\ \A y \in S : y <= Max(S)
<1> DEFINE U == {m \in Nat : \A y \in S : y <= m}
<1>1. n \in U /\ U \in SUBSET Nat
  OBVIOUS
<1>2. PICK m \in U : \A y \in U : m <= y
  BY <1>1, LeastExists
<1>3. m \in S
  <2>1. SUFFICES ASSUME m \notin S PROVE FALSE
    OBVIOUS
  <2>2. PICK x \in S : TRUE
    OBVIOUS
  <2>3. m \in Nat /\ x \in 1..n /\ x <= m
    BY <1>2
  <2>4. m - 1 \in Nat
    BY <2>1, <2>3
  <2>5. \A y \in S : y <= m - 1
    BY <1>2, <2>1
  <2>6. m - 1 \in U
    BY <2>4, <2>5
  <2> QED BY <1>2, <2>3, <2>6
<1>4. \E x \in S : \A y \in S : x >= y
  BY <1>2, <1>3
<1>5. Max(S) \in S /\ \A y \in S : Max(S) >= y
  BY <1>4 DEF Max
<1> QED BY <1>5

---------------------------------------------------------------------------
(* Texts.                                                                  *)

\* The labels that are left when the trailing dots are off
Kept(t) == SelectLastInSeq(t, LAMBDA l : l # "")
Says(l) == l # ""

\* A text is a sequence of labels,
LEMMA TextIs ==
    ASSUME NEW t \in Texts
    PROVE  Len(t) \in Nat /\ \A i \in 1..Len(t) : t[i] \in STRING
BY DEF Texts

\* and what is kept of it ends with the last that is not empty.
LEMMA KeptLabels ==
    ASSUME NEW t \in Texts
    PROVE  /\ Kept(t) \in Nat /\ Kept(t) <= Len(t)
           /\ Kept(t) > 0 => Says(t[Kept(t)])
           /\ \A i \in 1..Len(t) : Says(t[i]) => i <= Kept(t)
<1> DEFINE I == {i \in 1..Len(t) : t[i] # ""}
<1>1. Kept(t) = IF I # {} THEN Max(I) ELSE 0
  BY DEF Kept, SelectLastInSeq
<1>2. Len(t) \in Nat
  BY TextIs
<1>3. /\ I \in SUBSET (1..Len(t))
      /\ \A i \in I : Says(t[i])
      /\ \A i \in 1..Len(t) : Says(t[i]) => i \in I
  BY DEF Says
<1> HIDE DEF I
<1>4. CASE I = {}
  <2>1. Kept(t) = 0
    BY <1>1, <1>4
  <2> QED BY <1>2, <1>3, <1>4, <2>1
<1>5. CASE I # {}
  <2>1. Max(I) \in I /\ \A y \in I : y <= Max(I)
    BY <1>2, <1>3, <1>5, MaxIsGreatest
  <2>2. Kept(t) = Max(I)
    BY <1>1, <1>5
  <2>3. Kept(t) \in 1..Len(t) /\ Says(t[Kept(t)])
    BY <1>3, <2>1, <2>2
  <2> QED BY <1>2, <1>3, <2>1, <2>2, <2>3
<1> QED BY <1>4, <1>5

\* to_ascii_lowercase keeps a label that has no capitals, and what it gives
\* has none.
LEMMA LowerLabel ==
    ASSUME NEW l \in STRING
    PROVE  /\ ToLower(l) \in STRING
           /\ ToLower(ToLower(l)) = ToLower(l)
           /\ Says(l) => Says(ToLower(l))
           /\ l \in Literals \cup DOMAIN U8 => ToLower(l) = l
BY LowerAssumption, U8Assumption DEF ToLower, Says

\* What normalise_str makes of a name: the labels it keeps, in lower case.
LEMMA NormalText ==
    ASSUME NEW t \in Texts
    PROVE  /\ NormaliseStr(t) \in Texts
           /\ Len(NormaliseStr(t)) = Kept(t)
           /\ \A i \in 1..Kept(t) : NormaliseStr(t)[i] = ToLower(t[i])
<1>1. NormaliseStr(t) = [i \in 1..Kept(t) |-> ToLower(t[i])]
  BY DEF NormaliseStr, Kept
<1>2. Kept(t) \in Nat /\ Kept(t) <= Len(t) /\ Len(t) \in Nat
  BY KeptLabels, TextIs
<1>3. \A i \in 1..Kept(t) : t[i] \in STRING
  BY <1>2, TextIs
<1>4. \A i \in 1..Kept(t) : ToLower(t[i]) \in STRING
  BY <1>3, LowerLabel
<1>5. NormaliseStr(t) \in Seq(STRING)
  BY <1>1, <1>2, <1>4
<1> QED BY <1>1, <1>2, <1>5 DEF Texts

\* So what is normalised once is normalised for good: set_force_doh stores a
\* domain that matches what the domain itself would.
LEMMA NormalisedOnce ==
    ASSUME NEW t \in Texts
    PROVE  NormaliseStr(NormaliseStr(t)) = NormaliseStr(t)
<1> DEFINE n == NormaliseStr(t)
           k == Kept(t)
<1>1. n \in Texts /\ Len(n) = k /\ \A i \in 1..k : n[i] = ToLower(t[i])
  BY NormalText
<1>2. /\ k \in Nat /\ k <= Len(t) /\ Len(t) \in Nat
      /\ k > 0 => Says(t[k])
  BY KeptLabels, TextIs
<1>3. \A i \in 1..k : t[i] \in STRING
  BY <1>2, TextIs
<1> HIDE DEF n, k
<1>4. k > 0 => Says(n[k])
  <2>1. SUFFICES ASSUME k > 0 PROVE Says(n[k])
    OBVIOUS
  <2>2. k \in 1..k
    BY <1>2, <2>1
  <2> QED BY <1>1, <1>2, <1>3, <2>1, <2>2, LowerLabel
<1>5. Kept(n) = k
  <2>1. Kept(n) \in Nat /\ Kept(n) <= k
        /\ \A i \in 1..k : Says(n[i]) => i <= Kept(n)
    BY <1>1, KeptLabels
  <2> QED BY <1>2, <1>4, <2>1
<1>6. /\ NormaliseStr(n) \in Texts /\ Len(NormaliseStr(n)) = k
      /\ \A i \in 1..k : NormaliseStr(n)[i] = ToLower(n[i])
  BY <1>1, <1>5, NormalText
<1>7. ASSUME NEW i \in 1..k PROVE ToLower(n[i]) = n[i]
  <2>1. t[i] \in STRING /\ n[i] = ToLower(t[i])
    BY <1>1, <1>3
  <2> QED BY <2>1, LowerLabel
<1>8. NormaliseStr(n) = n
  BY <1>1, <1>6, <1>7 DEF Texts
<1> QED BY <1>8 DEF n

\* A suffix that is stored normalised matches what it matched as it was typed.
LEMMA MatchesOnce ==
    ASSUME NEW n, NEW t \in Texts
    PROVE  SuffixMatches(n, NormaliseStr(t)) = SuffixMatches(n, t)
BY NormalisedOnce DEF SuffixMatches

---------------------------------------------------------------------------
(* Policies.                                                               *)

\* The domains of a profile are texts.
LEMMA DomainTexts ==
    ASSUME NEW c \in Settings, NEW id
    PROVE  Domains(c, id) \in SUBSET Texts
<1>1. \A i \in DOMAIN c.profiles : c.profiles[i] \in ProfileRecords
  BY DEF Settings
<1>2. \A i \in DOMAIN c.profiles : c.profiles[i].domains \in SUBSET Texts
  BY <1>1 DEF ProfileRecords
<1> QED BY <1>2 DEF Domains

\* policy_for changes no list but force_doh, to which it adds.
LEMMA PolicyForAdds ==
    ASSUME NEW c \in Settings, NEW id
    PROVE  LET own == c.policy
               now == PolicyFor(c, id)
           IN /\ now \in Policies
              /\ now.default_doh = own.default_doh
              /\ now.force_local = own.force_local
              /\ \A n : (\E s \in own.force_doh : SuffixMatches(n, s))
                          => \E s \in now.force_doh : SuffixMatches(n, s)
              /\ \A n : (\E s \in now.force_doh : SuffixMatches(n, s))
                          => \E s \in own.force_doh \cup Domains(c, id) :
                               SuffixMatches(n, s)
<1> DEFINE own == c.policy
           now == PolicyFor(c, id)
           D == own.force_doh \cup Domains(c, id)
<1>1. own \in Policies /\ D \in SUBSET Texts
  BY DomainTexts DEF Settings, Policies
<1>2. CASE ~\E i \in DOMAIN c.profiles : c.profiles[i].id = id
  BY <1>1, <1>2 DEF PolicyFor
<1>3. CASE \E i \in DOMAIN c.profiles : c.profiles[i].id = id
  <2>1. now = [own EXCEPT !.force_doh = {NormaliseStr(d) : d \in D}]
    BY <1>3 DEF PolicyFor, WithForceDoh
  <2> HIDE DEF now
  <2>2. {NormaliseStr(d) : d \in D} \in SUBSET Texts
    BY <1>1, NormalText
  <2>3. /\ now \in Policies
        /\ now.default_doh = own.default_doh
        /\ now.force_local = own.force_local
        /\ now.force_doh = {NormaliseStr(d) : d \in D}
    BY <1>1, <2>1, <2>2 DEF Policies
  <2>4. ASSUME NEW n, NEW s \in own.force_doh, SuffixMatches(n, s)
        PROVE  \E r \in now.force_doh : SuffixMatches(n, r)
    <3>1. s \in D /\ s \in Texts
      BY <1>1, <2>4
    <3>2. SuffixMatches(n, NormaliseStr(s))
      BY <2>4, <3>1, MatchesOnce
    <3> QED BY <2>3, <3>1, <3>2
  <2>5. ASSUME NEW n, NEW s \in now.force_doh, SuffixMatches(n, s)
        PROVE  \E r \in D : SuffixMatches(n, r)
    <3>1. PICK d \in D : s = NormaliseStr(d)
      BY <2>3
    <3>2. d \in Texts
      BY <1>1
    <3>3. SuffixMatches(n, d)
      BY <2>5, <3>1, <3>2, MatchesOnce
    <3> QED BY <3>3
  <2> QED BY <2>3, <2>4, <2>5 DEF now
<1> QED BY <1>2, <1>3

\* So a name that goes elsewhere with the profile than without goes to DoH, a
\* domain of the profile matches it, and no local name of the user's does.
LEMMA ProfileRoutes ==
    ASSUME NEW c \in Settings, NEW id, NEW n
    PROVE  LET own == Route(c.policy, n)
               now == Route(PolicyFor(c, id), n)
           IN own # now =>
                /\ own = "system" /\ now = "doh"
                /\ \E d \in Domains(c, id) : SuffixMatches(NormaliseStr(n), d)
                /\ ~\E s \in c.policy.force_local :
                      SuffixMatches(NormaliseStr(n), s)
<1> DEFINE p == c.policy
           q == PolicyFor(c, id)
           l == NormaliseStr(n)
           P == \E s \in p.force_doh : SuffixMatches(l, s)
           Q == \E s \in q.force_doh : SuffixMatches(l, s)
           F == \E s \in p.force_local : SuffixMatches(l, s)
           L == F \/ IsBuiltinLocal(l)
<1>1. /\ q.default_doh = p.default_doh /\ q.force_local = p.force_local
      /\ P => Q
      /\ Q => P \/ \E s \in Domains(c, id) : SuffixMatches(l, s)
  BY PolicyForAdds
<1>2. /\ Route(p, n) = IF L THEN "system"
                       ELSE IF P \/ p.default_doh THEN "doh" ELSE "system"
      /\ Route(q, n) = IF L THEN "system"
                       ELSE IF Q \/ p.default_doh THEN "doh" ELSE "system"
  BY <1>1 DEF Route
<1>3. F => L
  OBVIOUS
<1> HIDE DEF F, P, Q, L, p, q, l
<1>4. Route(p, n) # Route(q, n) =>
        /\ Route(p, n) = "system" /\ Route(q, n) = "doh"
        /\ \E s \in Domains(c, id) : SuffixMatches(l, s)
        /\ ~F
  BY <1>1, <1>2, <1>3
<1> QED BY <1>4 DEF F, p, q, l

---------------------------------------------------------------------------
(* Diagnosis.                                                              *)

\* For every answer and every set of addresses that connect, the verdict is
\* the one of the table, if what was heard is what the network's resolver said.
LEMMA Verdicts == diag.asks = "isp" => VerdictTable
<1> SUFFICES ASSUME diag.asks = "isp",
                    NEW isp \in SUBSET Addresses, NEW doh \in SUBSET Addresses,
                    NEW live \in SUBSET Addresses
             PROVE
        LET v == Verdict(Heard(diag.asks, isp, doh), doh, live)
            ispLive == \E a \in isp : a \in live
            dohLive == \E a \in doh : a \in live
        IN IF \E a \in Restricted : a \in isp \cup doh
           THEN v = "ContentRestrictionForced"
           ELSE /\ v = "ResolutionFailed" <=> isp = {} /\ doh = {}
                /\ v = "DnsInterference" <=> dohLive /\ ~ispLive
                /\ v = "BlockedBeyondDns" <=>
                     isp \cup doh # {} /\ ~dohLive /\ ~ispLive
                /\ v = "DivergentButHealthy" <=>
                     ispLive /\ dohLive /\ isp # doh
                /\ v = "Healthy" <=> ispLive /\ (isp = doh \/ ~dohLive)
  BY DEF VerdictTable
<1>0. Heard(diag.asks, isp, doh) = isp
  BY DEF Heard
<1> DEFINE v == Verdict(isp, doh, live)
           reached == (isp \cup doh) \cap live
           I == \E a \in isp : a \in live
           D == \E a \in doh : a \in live
<1>1. /\ Works(isp, reached) <=> I
      /\ Works(doh, reached) <=> D
      /\ reached = {} <=> ~I /\ ~D
      /\ I => isp # {}
      /\ D => doh # {}
      /\ isp \cup doh = {} <=> isp = {} /\ doh = {}
      /\ isp = doh => (I <=> D)
  BY DEF Works
<1>2. CASE \E a \in Restricted : a \in isp \cup doh
  BY <1>0, <1>2 DEF Verdict
<1>3. CASE ~\E a \in Restricted : a \in isp \cup doh
  <2>1. v = Conclude(isp, doh, reached)
    BY <1>3 DEF Verdict
  <2> HIDE DEF v, reached, I, D
  <2> SUFFICES /\ v = "ResolutionFailed" <=> isp = {} /\ doh = {}
               /\ v = "DnsInterference" <=> D /\ ~I
               /\ v = "BlockedBeyondDns" <=> isp \cup doh # {} /\ ~D /\ ~I
               /\ v = "DivergentButHealthy" <=> I /\ D /\ isp # doh
               /\ v = "Healthy" <=> I /\ (isp = doh \/ ~D)
    BY <1>0, <1>3 DEF v, I, D
  <2>2. CASE isp = {} /\ doh = {}
    BY <1>1, <2>1, <2>2 DEF Conclude
  <2>3. CASE ~(isp = {} /\ doh = {}) /\ reached = {}
    BY <1>1, <2>1, <2>3 DEF Conclude
  <2>4. CASE ~(isp = {} /\ doh = {}) /\ reached # {}
    BY <1>1, <2>1, <2>4 DEF Conclude
  <2> QED BY <2>2, <2>3, <2>4
<1> QED BY <1>2, <1>3

---------------------------------------------------------------------------
(* The settings file.                                                      *)

Complete == [name |-> TRUE, https |-> TRUE, bootstrap |-> TRUE]

\* What validate asks of a Config
Usable(c) ==
    /\ c.listen # "bad"
    /\ c.providers # <<>>
    /\ \A i \in DOMAIN c.providers : c.providers[i] = Complete

\* An item holds, for a key, a value of that key.
LEMMA ItemSays ==
    ASSUME NEW e \in Items
    PROVE  /\ "listen" \in DOMAIN e => e["listen"] \in Listens
           /\ "provider" \in DOMAIN e => e["provider"] \in ProviderRecords
           /\ "providers" \in DOMAIN e => e["providers"] \in {<<>>}
           /\ "default_doh" \in DOMAIN e => e["default_doh"] \in BOOLEAN
           /\ "force_doh" \in DOMAIN e => e["force_doh"] \in SUBSET Texts
           /\ "force_local" \in DOMAIN e => e["force_local"] \in SUBSET Texts
           /\ "profile" \in DOMAIN e => e["profile"] \in ProfileRecords
           /\ "profile" \in DOMAIN e => e \in ItemsOf("profile", ProfileRecords)
<1>1. CASE e \in ItemsOf("listen", Listens)
  BY <1>1 DEF ItemsOf
<1>2. CASE e \in ItemsOf("provider", ProviderRecords)
  BY <1>2 DEF ItemsOf
<1>3. CASE e \in ItemsOf("default_doh", BOOLEAN)
  BY <1>3 DEF ItemsOf
<1>4. CASE e \in ItemsOf("force_doh", SUBSET Texts)
  BY <1>4 DEF ItemsOf
<1>5. CASE e \in ItemsOf("force_local", SUBSET Texts)
  BY <1>5 DEF ItemsOf
<1>6. CASE e \in ItemsOf("profile", ProfileRecords)
  BY <1>6 DEF ItemsOf
<1>7. CASE e \in {Torn, [absent |-> TRUE]}
  BY <1>7 DEF Torn
<1>8. CASE e \in ItemsOf("providers", {<<>>})
  BY <1>8 DEF ItemsOf
<1> QED BY <1>1, <1>2, <1>3, <1>4, <1>5, <1>6, <1>7, <1>8 DEF Items

\* What an item says that save_config let through, whole or cut short, and what
\* stands for a file that is not there
Sound(e) ==
    /\ "listen" \in DOMAIN e => e["listen"] # "bad"
    /\ "provider" \in DOMAIN e => e["provider"] = Complete
    /\ "providers" \notin DOMAIN e
Saved == {e \in Items : Sound(e)}

\* An item written for a key is one of that key's.
LEMMA ItemIn ==
    ASSUME NEW k, NEW values, NEW v \in values
    PROVE  /\ Item(k, v) \in ItemsOf(k, values)
           /\ DOMAIN Item(k, v) = {k} /\ Item(k, v)[k] = v
BY DEF Item, ItemsOf

\* and is sound if its value is.
LEMMA ItemSaved ==
    ASSUME NEW k, NEW values, NEW v \in values, ItemsOf(k, values) \subseteq Items,
           k = "listen" => v # "bad", k = "provider" => v = Complete,
           k # "providers"
    PROVE  Item(k, v) \in Saved
<1> DEFINE e == Item(k, v)
<1>1. e \in Items /\ DOMAIN e = {k} /\ e[k] = v
  BY ItemIn
<1> HIDE DEF e
<1>2. Sound(e)
  BY <1>1 DEF Sound
<1> QED BY <1>1, <1>2 DEF Saved, e

\* Every key's values may be written.
LEMMA ItemKeys ==
    /\ ItemsOf("listen", Listens) \subseteq Items
    /\ ItemsOf("provider", ProviderRecords) \subseteq Items
    /\ ItemsOf("default_doh", BOOLEAN) \subseteq Items
    /\ ItemsOf("force_doh", SUBSET Texts) \subseteq Items
    /\ ItemsOf("force_local", SUBSET Texts) \subseteq Items
    /\ ItemsOf("profile", ProfileRecords) \subseteq Items
BY DEF Items

\* What Config::save writes of a Config that validate accepts
LEMMA SavedItems ==
    ASSUME NEW c \in Settings, Validate(c)
    PROVE  ToToml(c) \in Seq(Saved)
<1>1. /\ c.listen \in Listens /\ c.listen # "bad"
      /\ c.providers \in Seq(ProviderRecords)
      /\ \A i \in DOMAIN c.providers : c.providers[i] = Complete
      /\ c.policy \in Policies /\ c.profiles \in Seq(ProfileRecords)
  <2>1. /\ c.listen \in Listens /\ c.listen # "bad"
        /\ c.providers \in Seq(ProviderRecords)
        /\ c.policy \in Policies /\ c.profiles \in Seq(ProfileRecords)
    BY DEF Settings, Validate
  <2>2. ASSUME NEW i \in DOMAIN c.providers PROVE c.providers[i] = Complete
    <3>1. c.providers[i] \in ProviderRecords
      BY <2>1
    <3>2. c.providers[i].name /\ c.providers[i].https /\ c.providers[i].bootstrap
      BY DEF Validate
    <3> QED BY <3>1, <3>2 DEF ProviderRecords, Complete
  <2> QED BY <2>1, <2>2
<1> DEFINE A == <<Item("listen", c.listen)>>
           B == [i \in DOMAIN c.providers |-> Item("provider", c.providers[i])]
           C == <<Item("default_doh", c.policy.default_doh),
                  Item("force_doh", c.policy.force_doh),
                  Item("force_local", c.policy.force_local)>>
           D == [i \in DOMAIN c.profiles |-> Item("profile", c.profiles[i])]
<1>2. A \in Seq(Saved)
  <2>1. Item("listen", c.listen) \in Saved
    BY <1>1, ItemKeys, ItemSaved
  <2> QED BY <2>1
<1>3. B \in Seq(Saved)
  <2>1. DOMAIN c.providers = 1..Len(c.providers) /\ Len(c.providers) \in Nat
    BY <1>1
  <2>2. ASSUME NEW i \in 1..Len(c.providers)
        PROVE  Item("provider", c.providers[i]) \in Saved
    <3>1. c.providers[i] = Complete /\ Complete \in ProviderRecords
      BY <1>1, <2>1 DEF Complete, ProviderRecords
    <3> QED BY <3>1, ItemKeys, ItemSaved
  <2> QED BY <2>1, <2>2
<1>4. C \in Seq(Saved)
  <2>1. /\ c.policy.default_doh \in BOOLEAN
        /\ c.policy.force_doh \in SUBSET Texts
        /\ c.policy.force_local \in SUBSET Texts
    BY <1>1 DEF Policies
  <2>2. Item("default_doh", c.policy.default_doh) \in Saved
    BY <2>1, ItemKeys, ItemSaved
  <2>3. Item("force_doh", c.policy.force_doh) \in Saved
    BY <2>1, ItemKeys, ItemSaved
  <2>4. Item("force_local", c.policy.force_local) \in Saved
    BY <2>1, ItemKeys, ItemSaved
  <2> QED BY <2>2, <2>3, <2>4
<1>5. D \in Seq(Saved)
  <2>1. DOMAIN c.profiles = 1..Len(c.profiles) /\ Len(c.profiles) \in Nat
    BY <1>1
  <2>2. ASSUME NEW i \in 1..Len(c.profiles)
        PROVE  Item("profile", c.profiles[i]) \in Saved
    <3>1. c.profiles[i] \in ProfileRecords
      BY <1>1, <2>1
    <3> QED BY <3>1, ItemKeys, ItemSaved
  <2> QED BY <2>1, <2>2
<1>6. ToToml(c) = ((A \o B) \o C) \o D
  BY DEF ToToml
<1> HIDE DEF A, B, C, D
<1> QED BY <1>2, <1>3, <1>4, <1>5, <1>6, ConcatProperties

\* and what a write of it that stopped short leaves
LEMMA ShortItems ==
    ASSUME NEW text \in Seq(Saved), NEW s \in Short(text)
    PROVE  s \in Seq(Saved)
<1>0. PICK n \in 0..Len(text) - 1 :
        \E last :
            /\ s = SubSeq(text, 1, n) \o last
            /\ \/ last = <<>>
               \/ last = <<Torn>>
               \/ /\ "profile" \in DOMAIN text[n + 1]
                  /\ last = <<[text[n + 1] EXCEPT !.profile.domains = {}]>>
  BY DEF Short
<1>1. PICK last :
        /\ s = SubSeq(text, 1, n) \o last
        /\ \/ last = <<>>
           \/ last = <<Torn>>
           \/ /\ "profile" \in DOMAIN text[n + 1]
              /\ last = <<[text[n + 1] EXCEPT !.profile.domains = {}]>>
  BY <1>0
<1>2. Len(text) \in Nat /\ \A i \in 1..Len(text) : text[i] \in Saved
  OBVIOUS
<1>3. SubSeq(text, 1, n) \in Seq(Saved)
  <2>1. n \in Int /\ 1 \in Int /\ \A i \in 1..n : text[i] \in Saved
    BY <1>2
  <2> QED BY <2>1, SubSeqProperties
<1>4. last \in Seq(Saved)
  <2>1. CASE last = <<>>
    BY <2>1, EmptySeq
  <2>2. CASE last = <<Torn>>
    <3>1. Torn \in Saved
      BY DEF Items, Torn, Saved, Sound
    <3> QED BY <2>2, <3>1
  <2>3. CASE /\ "profile" \in DOMAIN text[n + 1]
             /\ last = <<[text[n + 1] EXCEPT !.profile.domains = {}]>>
    <3> DEFINE e == text[n + 1]
               p == [e["profile"] EXCEPT !.domains = {}]
    <3>1. e \in Items
      BY <1>2 DEF Saved
    <3> HIDE DEF e
    <3>2. e \in ItemsOf("profile", ProfileRecords) /\ e["profile"] \in ProfileRecords
      BY <2>3, <3>1, ItemSays DEF e
    <3>3. p \in ProfileRecords
      BY <3>2 DEF ProfileRecords
    <3>4. last = <<[e EXCEPT !["profile"] = p]>>
      BY <2>3 DEF e
    <3> HIDE DEF p
    <3>5. [e EXCEPT !["profile"] = p] \in ItemsOf("profile", ProfileRecords)
      BY <3>2, <3>3 DEF ItemsOf
    <3>6. [e EXCEPT !["profile"] = p] \in Saved
      <4>1. DOMAIN [e EXCEPT !["profile"] = p] = {"profile"}
        BY <3>5 DEF ItemsOf
      <4> QED BY <3>5, <4>1 DEF Items, Saved, Sound
    <3> QED BY <3>4, <3>6
  <2> QED BY <1>1, <2>1, <2>2, <2>3
<1> QED BY <1>1, <1>3, <1>4, ConcatProperties

---------------------------------------------------------------------------
(* Reading it.                                                             *)

\* A finite set of positions has an n-th one, for each n up to its size.
LEMMA NthExists ==
    ASSUME NEW m \in Nat, NEW P \in SUBSET (1..m), NEW n \in 1..Cardinality(P)
    PROVE  \E i \in P : Cardinality({j \in P : j < i}) = n - 1
<1> DEFINE below(i) == {j \in P : j < i}
           T == {i \in Nat : Cardinality(below(i)) >= n}
<1>1. /\ IsFiniteSet(P) /\ Cardinality(P) \in Nat
      /\ n \in Nat \ {0} /\ n <= Cardinality(P)
      /\ \A j \in P : j \in Nat /\ 0 < j /\ j <= m
  <2>1. IsFiniteSet(1..m)
    BY FS_Interval
  <2>2. IsFiniteSet(P) /\ Cardinality(P) \in Nat
    BY <2>1, FS_Subset, FS_CardinalityType
  <2> QED BY <2>2
<1>2. \A i : IsFiniteSet(below(i)) /\ Cardinality(below(i)) \in Nat
  <2>1. \A i : below(i) \in SUBSET P
    OBVIOUS
  <2> QED BY <1>1, <2>1, FS_Subset, FS_CardinalityType
<1>3. m + 1 \in T
  <2>1. \A j \in P : j < m + 1
    BY <1>1
  <2>2. below(m + 1) = P
    BY <2>1
  <2>3. Cardinality(below(m + 1)) >= n
    BY <1>1, <2>2
  <2> QED BY <2>3
<1>4. PICK t \in T : \A i \in T : t <= i
  BY <1>3, LeastExists
<1> DEFINE i == t - 1
<1>5. t # 0 /\ t \in Nat /\ Cardinality(below(t)) >= n
  <2>1. \A j \in P : ~(j < 0)
    BY <1>1
  <2>2. below(0) = {}
    BY <2>1
  <2>3. Cardinality({}) = 0
    BY FS_EmptySet
  <2> QED BY <1>1, <1>4, <2>2, <2>3
<1>6. i \in Nat /\ t = i + 1
  BY <1>5
<1> HIDE DEF i
<1>7. Cardinality(below(i)) < n
  <2>1. i \notin T
    BY <1>4, <1>6
  <2> QED BY <1>1, <1>2, <1>6, <2>1
<1>8. i \in P /\ below(t) = below(i) \cup {i}
  <2>1. \A j \in P : j < t <=> j < i \/ j = i
    BY <1>1, <1>6
  <2>2. CASE i \notin P
    <3>1. below(t) = below(i)
      BY <2>1, <2>2
    <3> QED BY <1>1, <1>2, <1>5, <1>7, <3>1
  <2>3. CASE i \in P
    BY <2>1, <2>3
  <2> QED BY <2>2, <2>3
<1>9. Cardinality(below(t)) = Cardinality(below(i)) + 1
  <2>1. i \notin below(i)
    BY <1>6
  <2> QED BY <1>2, <1>8, <2>1, FS_AddElement
<1>10. Cardinality(below(i)) = n - 1
  <2>1. Cardinality(below(i)) \in Nat
    BY <1>2
  <2> HIDE DEF below
  <2> QED BY <1>1, <1>5, <1>7, <1>9, <2>1
<1> QED BY <1>8, <1>10

\* So what is read of a field is what its items say.
LEMMA AllSays ==
    ASSUME NEW E, NEW text \in Seq(E), NEW k, NEW values,
           \A e \in E : k \in DOMAIN e => e[k] \in values
    PROVE  All(text, k) \in Seq(values)
<1> DEFINE P == Positions(text, k)
           nth(n) == CHOOSE i \in P : Cardinality({j \in P : j < i}) = n - 1
<1>1. Len(text) \in Nat /\ P \in SUBSET (1..Len(text))
  BY DEF Positions
<1>2. Cardinality(P) \in Nat
  <2>1. IsFiniteSet(1..Len(text))
    BY <1>1, FS_Interval
  <2> QED BY <1>1, <2>1, FS_Subset, FS_CardinalityType
<1>3. ASSUME NEW n \in 1..Cardinality(P) PROVE text[nth(n)][k] \in values
  <2>1. \E i \in P : Cardinality({j \in P : j < i}) = n - 1
    BY <1>1, NthExists
  <2>2. nth(n) \in P
    BY <2>1
  <2> HIDE DEF nth
  <2>3. text[nth(n)] \in E /\ k \in DOMAIN text[nth(n)]
    BY <2>2 DEF Positions
  <2> QED BY <2>3
<1>4. All(text, k) = [n \in 1..Cardinality(P) |-> text[nth(n)][k]]
  BY DEF All
<1> HIDE DEF P, nth
<1> QED BY <1>2, <1>3, <1>4

\* Reading a field yields one of the values written for it, or the default.
LEMMA FieldSays ==
    ASSUME NEW E, NEW text \in Seq(E), NEW k, NEW values, NEW default \in values,
           \A e \in E : k \in DOMAIN e => e[k] \in values
    PROVE  Field(text, k, default) \in values
<1>1. All(text, k) \in Seq(values)
  BY AllSays
<1>2. CASE All(text, k) = <<>>
  BY <1>2 DEF Field
<1>3. CASE All(text, k) # <<>>
  <2>1. Len(All(text, k)) \in Nat \ {0}
    BY <1>1, <1>3, EmptySeq
  <2>2. All(text, k)[1] \in values
    BY <1>1, <2>1
  <2> QED BY <1>3, <2>2 DEF Field
<1> QED BY <1>2, <1>3

\* The default settings are of use,
LEMMA DefaultUsable == Default \in Settings /\ Usable(Default)
<1>1. Default \in Settings
  BY SettingsAssumption
<1>2. Default.listen # "bad" /\ Default.providers # <<>>
  BY <1>1, DefaultAssumption DEF Validate, Settings
<1>3. ASSUME NEW i \in DOMAIN Default.providers
      PROVE  Default.providers[i] = Complete
  <2>1. Default.providers[i] \in ProviderRecords
    BY <1>1 DEF Settings
  <2>2. /\ Default.providers[i].name /\ Default.providers[i].https
        /\ Default.providers[i].bootstrap
    BY DefaultAssumption DEF Validate
  <2> QED BY <2>1, <2>2 DEF ProviderRecords, Complete
<1> QED BY <1>1, <1>2, <1>3 DEF Usable

\* Whatever is read of a file has the type of settings,
LEMMA LoadTyped ==
    ASSUME NEW text \in Seq(Items)
    PROVE  Load(text) \in Settings
<1>1. CASE text = Absent
  BY <1>1, DefaultUsable DEF Load
<1>2. CASE text # Absent
  <2> DEFINE listen == Field(text, "listen", Default.listen)
             providers == IF All(text, "provider") # <<>>
                          THEN All(text, "provider")
                          ELSE Field(text, "providers", Default.providers)
             policy == [default_doh |-> Field(text, "default_doh", TRUE),
                        force_doh   |-> Field(text, "force_doh", {}),
                        force_local |-> Field(text, "force_local", {})]
             profiles == All(text, "profile")
  <2>0. /\ Default.listen \in Listens
        /\ Default.providers \in Seq(ProviderRecords)
    BY DefaultUsable DEF Settings
  <2>1. listen \in Listens
    BY <2>0, FieldSays, ItemSays
  <2>2. providers \in Seq(ProviderRecords)
    <3>1. All(text, "provider") \in Seq(ProviderRecords)
      BY AllSays, ItemSays
    <3>2. \A e \in Items : "providers" \in DOMAIN e =>
                              e["providers"] \in {<<>>} \cup {Default.providers}
      BY ItemSays
    <3>3. Field(text, "providers", Default.providers)
            \in {<<>>} \cup {Default.providers}
      BY <3>2, FieldSays
    <3>4. <<>> \in Seq(ProviderRecords)
      BY EmptySeq
    <3> QED BY <2>0, <3>1, <3>3, <3>4
  <2>3. policy \in Policies
    <3>1. Field(text, "default_doh", TRUE) \in BOOLEAN
      BY FieldSays, ItemSays
    <3>2. {} \in SUBSET Texts
      OBVIOUS
    <3>3. Field(text, "force_doh", {}) \in SUBSET Texts
      BY <3>2, FieldSays, ItemSays
    <3>4. Field(text, "force_local", {}) \in SUBSET Texts
      BY <3>2, FieldSays, ItemSays
    <3> QED BY <3>1, <3>3, <3>4 DEF Policies
  <2>4. profiles \in Seq(ProfileRecords)
    BY AllSays, ItemSays
  <2>5. Load(text) = [listen |-> listen, providers |-> providers,
                      policy |-> policy, profiles |-> profiles]
    BY <1>2 DEF Load, FromToml
  <2> HIDE DEF listen, providers, policy, profiles
  <2> QED BY <2>1, <2>2, <2>3, <2>4, <2>5 DEF Settings
<1> QED BY <1>1, <1>2

\* and what is read of one that was saved is of use.
LEMMA LoadUsable ==
    ASSUME NEW text \in Seq(Saved)
    PROVE  Usable(Load(text))
<1>1. CASE text = Absent
  BY <1>1, DefaultUsable DEF Load
<1>2. CASE text # Absent
  <2>1. /\ Load(text).listen = Field(text, "listen", Default.listen)
        /\ Load(text).providers =
             IF All(text, "provider") # <<>> THEN All(text, "provider")
             ELSE Field(text, "providers", Default.providers)
    BY <1>2 DEF Load, FromToml
  <2>2. Field(text, "listen", Default.listen) \in Listens \ {"bad"}
    <3>1. Default.listen \in Listens \ {"bad"}
      BY DefaultUsable DEF Usable, Settings
    <3>2. \A e \in Saved : "listen" \in DOMAIN e =>
                              e["listen"] \in Listens \ {"bad"}
      BY ItemSays DEF Saved, Sound
    <3> QED BY <3>1, <3>2, FieldSays
  <2>3. Field(text, "providers", Default.providers) \in {Default.providers}
    <3>1. \A e \in Saved : "providers" \in DOMAIN e =>
                              e["providers"] \in {Default.providers}
      BY DEF Saved, Sound
    <3> QED BY <3>1, FieldSays
  <2>4. All(text, "provider") \in Seq({Complete})
    <3>1. \A e \in Saved : "provider" \in DOMAIN e =>
                              e["provider"] \in {Complete}
      BY DEF Saved, Sound
    <3> QED BY <3>1, AllSays
  <2>5. CASE All(text, "provider") # <<>>
    <3>1. Load(text).providers = All(text, "provider")
      BY <2>1, <2>5
    <3> DEFINE ps == All(text, "provider")
    <3> HIDE DEF ps
    <3>2. ps \in Seq({Complete}) /\ ps # <<>>
      BY <2>4, <2>5 DEF ps
    <3>3. \A i \in DOMAIN ps : ps[i] = Complete
      BY <3>2
    <3>4. Load(text).providers = ps
      BY <3>1 DEF ps
    <3> QED BY <2>1, <2>2, <3>2, <3>3, <3>4 DEF Usable
  <2>6. CASE All(text, "provider") = <<>>
    <3>1. Load(text).providers = Default.providers
      BY <2>1, <2>3, <2>6
    <3> QED BY <2>1, <2>2, <3>1, DefaultUsable DEF Usable
  <2> QED BY <2>5, <2>6
<1> QED BY <1>1, <1>2

---------------------------------------------------------------------------
(* What a helper runs with.                                                *)

\* The helper, and what it has seen to by each stage
Helpers ==
    [stage : {"off", "auth", "loaded", "ready", "taking", "taken", "on"},
     profile : Profiles \cup {""}, cfg : Settings, policy : Policies,
     edited : BOOLEAN, upstreams : Records]

HelperInv(h) ==
    /\ h \in Helpers
    /\ ~h.edited => Usable(h.cfg)
    /\ h.stage \notin {"off", "auth"} => h.policy = PolicyFor(h.cfg, h.profile)
    /\ h.stage \in {"ready", "taking", "taken", "on"} => h.cfg.listen # "bad"
    /\ h.stage \in {"taking", "taken", "on"} => Builds(h.cfg)

Mains == [do : {"free", "save", "start"}, arg : Seq(Saved)]

\* What is in the file, if the user did not put it there, and what is about to
\* be written was saved from settings that validate accepts, whole or cut short;
\* a helper's settings were read from the file, its policy is the one of its own
\* profile, and it redirects to where it listens.
SettingsInv ==
    /\ conf \in Seq(Items) /\ edited \in BOOLEAN
    /\ ~edited => conf \in Seq(Saved)
    /\ main \in Mains
    /\ HelperInv(helper)
    /\ helper.stage \in {"taken", "on"} => redirected = helper.cfg.listen

\* The state of no helper has the types of the invariant and usable settings.
LEMMA NoHelperIs == HelperInv(NoHelper) /\ NoHelper.stage = "off"
<1>1. Default \in Settings /\ Default.policy \in Policies /\ Usable(Default)
  BY DefaultUsable DEF Settings
<1> QED BY <1>1 DEF NoHelper, HelperInv, Helpers, Records

\* An item that was saved is an item.
LEMMA SavedIs ==
    ASSUME NEW text \in Seq(Saved)
    PROVE  text \in Seq(Items)
BY DEF Saved

\* The thread that is free
LEMMA FreeIs == Free \in Mains /\ <<>> \in Seq(Saved)
BY EmptySeq DEF Free, Mains

\* The authorised helper reads the file, however far a save has come.
LEMMA HelperReads ==
    ASSUME SettingsInv, HelperLoads
    PROVE  HelperInv(helper') /\ helper'.stage \notin {"taken", "on"}
<1> DEFINE c == Load(conf)
           p == PolicyFor(c, helper.profile)
<1>1. CASE helper' = NoHelper
  BY <1>1, NoHelperIs
<1>2. CASE helper' = [helper EXCEPT !.stage = "loaded", !.cfg = c,
                                    !.edited = edited, !.policy = p]
  <2>1. c \in Settings /\ (~edited => Usable(c))
    BY LoadTyped, LoadUsable DEF SettingsInv
  <2> HIDE DEF c
  <2>2. p \in Policies
    BY <2>1, PolicyForAdds
  <2> HIDE DEF p
  <2>3. /\ helper' \in Helpers /\ helper'.stage = "loaded"
        /\ helper'.cfg = c /\ helper'.policy = p /\ helper'.edited = edited
        /\ helper'.profile = helper.profile
    BY <1>2, <2>1, <2>2 DEF SettingsInv, HelperInv, Helpers
  <2>4. helper'.policy = PolicyFor(helper'.cfg, helper'.profile)
    BY <2>3 DEF p
  <2> QED BY <2>1, <2>3, <2>4 DEF HelperInv
<1> QED BY <1>1, <1>2 DEF HelperLoads

\* A helper that goes on to its next stage keeps the settings it has loaded.
LEMMA HelperGoesOn ==
    ASSUME SettingsInv, NEW s \in {"taking", "taken", "on"}, NEW u \in Records,
           helper' \in {[helper EXCEPT !.stage = s],
                        [helper EXCEPT !.stage = "ready", !.upstreams = u]},
           helper.stage \notin {"off", "auth"},
           helper.cfg.listen # "bad",
           helper'.stage # "ready" => Builds(helper.cfg)
    PROVE  HelperInv(helper')
<1>1. /\ helper' \in Helpers
      /\ helper'.cfg = helper.cfg /\ helper'.policy = helper.policy
      /\ helper'.profile = helper.profile /\ helper'.edited = helper.edited
      /\ helper'.stage \in {s, "ready"}
  BY DEF SettingsInv, HelperInv, Helpers
<1> QED BY <1>1 DEF SettingsInv, HelperInv

\* Each step keeps it.
LEMMA SettingsStep == SettingsInv /\ [Next]_vars => SettingsInv'
<1> SUFFICES ASSUME SettingsInv, [Next]_vars PROVE SettingsInv'
  OBVIOUS
<1>1. ASSUME UNCHANGED <<conf, edited, main, helper, redirected>>
      PROVE  SettingsInv'
  BY <1>1 DEF SettingsInv
<1>2. ASSUME UNCHANGED <<conf, edited>>, main' \in Mains, HelperInv(helper'),
             helper'.stage \in {"taken", "on"} => redirected' = helper'.cfg.listen
      PROVE  SettingsInv'
  BY <1>2 DEF SettingsInv
<1>3. main \in Mains /\ HelperInv(helper)
  BY DEF SettingsInv
<1>4. ASSUME NEW c \in Configs, SaveConfig(c) PROVE SettingsInv'
  <2>1. ToToml(c) \in Seq(Saved)
    BY <1>4, SavedItems, SettingsAssumption DEF SaveConfig
  <2>2. /\ conf' = <<>> /\ edited' = FALSE
        /\ main' = [do |-> "save", arg |-> ToToml(c)]
        /\ UNCHANGED <<helper, redirected>>
    BY <1>4 DEF SaveConfig, dns
  <2>3. main' \in Mains
    BY <2>1, <2>2 DEF Mains
  <2> QED BY <2>2, <2>3, FreeIs, SavedIs DEF SettingsInv
<1>5. CASE Write
  <2>1. main.arg \in Seq(Saved)
    BY <1>3 DEF Mains
  <2>2. conf' \in Seq(Saved)
    <3>1. CASE conf' = main.arg
      BY <2>1, <3>1
    <3>2. CASE conf' \in Short(main.arg)
      BY <2>1, <3>2, ShortItems
    <3> QED BY <1>5, <3>1, <3>2 DEF Write, Written
  <2>3. main' = Free /\ edited' = FALSE /\ UNCHANGED <<helper, redirected>>
    BY <1>5 DEF Write, dns
  <2> QED BY <2>2, <2>3, FreeIs, SavedIs DEF SettingsInv
<1>6. ASSUME NEW id \in Profiles, StartProtection(id) PROVE SettingsInv'
  <2>1. /\ helper' = [NoHelper EXCEPT !.stage = "auth", !.profile = id]
        /\ main' = [Free EXCEPT !.do = "start"] /\ UNCHANGED <<conf, edited>>
    BY <1>6 DEF StartProtection, toml
  <2>2. HelperInv(helper') /\ helper'.stage = "auth"
    BY <2>1, NoHelperIs DEF HelperInv, Helpers
  <2>3. main' \in Mains
    BY <2>1, FreeIs DEF Free, Mains
  <2> QED BY <1>2, <2>1, <2>2, <2>3
<1>7. CASE StartReturns \/ WindowKilled
  <2>1. main' = Free /\ UNCHANGED <<conf, edited, helper, redirected>>
    BY <1>7 DEF StartReturns, WindowKilled, toml, dns
  <2> QED BY <1>2, <1>3, <2>1, FreeIs DEF SettingsInv
<1>8. CASE HelperLoads
  <2>1. UNCHANGED <<conf, edited, main>>
    BY <1>8 DEF HelperLoads, toml
  <2> QED BY <1>2, <1>3, <1>8, <2>1, HelperReads
<1>9. CASE HelperReconciles
  <2>1. /\ helper' = [helper EXCEPT !.stage = "ready", !.upstreams = Original]
        /\ helper.cfg.listen # "bad" /\ helper.stage = "loaded"
        /\ UNCHANGED <<conf, edited, main>>
    BY <1>9 DEF HelperReconciles, toml
  <2>2. Original \in Records
    BY DEF Original, Records
  <2>3. helper'.stage = "ready"
    BY <1>3, <2>1 DEF HelperInv, Helpers
  <2>4. HelperInv(helper')
    BY <2>1, <2>2, <2>3, HelperGoesOn
  <2> QED BY <1>2, <1>3, <2>1, <2>3, <2>4
<1>10. CASE HelperRecords
  <2>1. /\ helper' = [helper EXCEPT !.stage = "taking"] /\ Builds(helper.cfg)
        /\ helper.stage = "ready" /\ UNCHANGED <<conf, edited, main>>
    BY <1>10 DEF HelperRecords, toml
  <2>2. helper'.stage = "taking" /\ helper.cfg.listen # "bad"
    BY <1>3, <2>1 DEF HelperInv, Helpers
  <2>3. "empty" \in Records
    BY DEF Records
  <2>4. HelperInv(helper')
    BY <2>1, <2>2, <2>3, HelperGoesOn
  <2> QED BY <1>2, <1>3, <2>1, <2>2, <2>4
<1>11. CASE HelperRedirects
  <2>1. /\ helper' = [helper EXCEPT !.stage = "taken"]
        /\ helper.stage = "taking" /\ UNCHANGED <<conf, edited, main>>
        /\ redirected' = helper.cfg.listen
    BY <1>11 DEF HelperRedirects, toml
  <2>2. /\ helper'.stage = "taken" /\ helper'.cfg = helper.cfg
        /\ helper.cfg.listen # "bad" /\ Builds(helper.cfg)
    BY <1>3, <2>1 DEF HelperInv, Helpers
  <2>3. "empty" \in Records
    BY DEF Records
  <2>4. HelperInv(helper')
    BY <2>1, <2>2, <2>3, HelperGoesOn
  <2> QED BY <1>2, <1>3, <2>1, <2>2, <2>4
<1>12. CASE HelperPublishes
  <2>1. /\ helper' = [helper EXCEPT !.stage = "on"]
        /\ helper.stage = "taken" /\ UNCHANGED <<conf, edited, main, redirected>>
    BY <1>12 DEF HelperPublishes, toml
  <2>2. /\ helper'.stage = "on" /\ helper'.cfg = helper.cfg
        /\ helper.cfg.listen # "bad" /\ Builds(helper.cfg)
    BY <1>3, <2>1 DEF HelperInv, Helpers
  <2>3. "empty" \in Records
    BY DEF Records
  <2>4. HelperInv(helper')
    BY <2>1, <2>2, <2>3, HelperGoesOn
  <2>5. redirected = helper.cfg.listen
    BY <2>1 DEF SettingsInv
  <2> QED BY <1>2, <1>3, <2>1, <2>2, <2>4, <2>5
<1>13. CASE StopProtection \/ HelperKilled \/ HelperGivesUp
  <2>1. helper' = NoHelper /\ UNCHANGED <<conf, edited, main>>
    BY <1>13 DEF StopProtection, HelperKilled, HelperGivesUp, toml
  <2> QED BY <1>2, <1>3, <2>1, NoHelperIs
<1>14. CASE Edit
  <2>1. conf' \in Files /\ edited' = TRUE /\ UNCHANGED <<main, helper, redirected>>
    BY <1>14 DEF Edit, dns
  <2>2. conf' \in Seq(Items)
    BY <2>1, FilesAssumption
  <2> QED BY <2>1, <2>2 DEF SettingsInv
<1>15. CASE \/ \E who \in Askers : Diagnose(who)
            \/ ReadResolvers
            \/ Check
            \/ SnapshotExpires
            \/ NetworkChanges
            \/ UNCHANGED vars
  BY <1>1, <1>15 DEF Diagnose, ReadResolvers, Check, SnapshotExpires,
     NetworkChanges, vars, toml, dns
<1> QED BY <1>4, <1>5, <1>6, <1>7, <1>8, <1>9, <1>10, <1>11, <1>12, <1>13,
           <1>14, <1>15 DEF Next

\* At first there is no helper, and no file or one of the user's.
LEMMA SettingsStart == Init => SettingsInv
<1> SUFFICES ASSUME Init PROVE SettingsInv
  OBVIOUS
<1>1. [absent |-> TRUE] \in Saved
  BY DEF Items, Saved, Sound
<1>2. Absent \in Seq(Saved)
  BY <1>1 DEF Absent
<1>3. Absent \in Seq(Items)
  BY <1>2, SavedIs
<1>4. conf \in Seq(Items) /\ edited \in BOOLEAN /\ (~edited => conf = Absent)
  BY <1>3, FilesAssumption DEF Init
<1> QED BY <1>2, <1>4, NoHelperIs, FreeIs DEF Init, SettingsInv

\* So it holds throughout.
LEMMA SettingsAlways == Spec => []SettingsInv
<1> QED BY SettingsStart, SettingsStep, PTL DEF Spec

\* A helper, which does not validate, runs with settings that validate accepts
\* unless the user edited them, wherever a save was cut short or is under way;
\* and whoever wrote them, it redirects to where it listens, with https
\* providers.
THEOREM SettingsValid == Spec => []LoadedValid
<1>1. SettingsInv => LoadedValid
  BY DEF SettingsInv, HelperInv, HasLoaded, Usable, Builds, Complete,
     LoadedValid, ToSet
<1> QED BY <1>1, SettingsAlways, PTL

\* An active profile adds to what goes to DoH, only what its own domains match
\* and nothing that the user forced local, whatever the lists and the profile
\* say.
THEOREM ProfilesAdd == Spec => []ProfileOnlyAdds
<1>1. ASSUME SettingsInv, JustLoaded PROVE ProfileOnlyAdds
  <2>1. /\ helper.cfg \in Settings
        /\ helper.policy = PolicyFor(helper.cfg, helper.profile)
    BY <1>1 DEF SettingsInv, HelperInv, Helpers, JustLoaded
  <2> QED BY <2>1, ProfileRoutes DEF ProfileOnlyAdds
<1>2. SettingsInv => ProfileOnlyAdds
  BY <1>1 DEF ProfileOnlyAdds
<1> QED BY <1>2, SettingsAlways, PTL

---------------------------------------------------------------------------
(* Whom a diagnosis asks.                                                  *)

Diagnoses ==
    [stage : {"off", "reading", "check"}, who : AllAskers, seen : Records,
     live : {"resolvers", "empty", "proxy", "other"},
     asks : {"isp", "us", "nobody"}]

\* Whom a diagnosis of the command should ask, for what it has read
AsksRight(d) ==
    /\ d.asks = "us" => d.seen = "empty" /\ d.live = "other"
    /\ d.asks = "nobody" => d.seen = "empty" \/ d.live = "empty"

\* A redirect has a record beside it, which was there before, and a command
\* that found none reads a file that is the network's.
DiagInv ==
    /\ diag \in Diagnoses
    /\ recorded \in Records /\ snap \in Records
    /\ redirected \in {"no", "proxy", "other"}
    /\ redirected # "no" => recorded # "nothing"
    /\ helper.stage = "taking" => recorded # "nothing"
    /\ diag.stage = "reading" /\ diag.who = "command" /\ diag.seen = "nothing"
         => redirected = "no"
    /\ diag.stage = "check" /\ diag.who = "command" => AsksRight(diag)

\* The state of no diagnosis
LEMMA NoDiagIs == NoDiag \in Diagnoses /\ NoDiag.stage = "off"
BY DEF NoDiag, Diagnoses, AllAskers, Records

\* What is asked, for what was read
LEMMA AskIs ==
    ASSUME NEW seen \in Records, NEW live \in {"resolvers", "empty", "proxy", "other"},
           seen = "nothing" => live \in {"resolvers", "empty"}
    PROVE  /\ Ask(seen, live) \in {"isp", "us", "nobody"}
           /\ Ask(seen, live) = "us" => seen = "empty" /\ live = "other"
           /\ Ask(seen, live) = "nobody" => seen = "empty" \/ live = "empty"
BY DEF Ask, Records

\* Each step keeps it, if no helper redirects while a diagnosis reads.
LEMMA DiagStep ==
    ASSUME "overlap" \notin Faults
    PROVE  SettingsInv /\ DiagInv /\ [Next]_vars => DiagInv'
<1> SUFFICES ASSUME SettingsInv, DiagInv, [Next]_vars PROVE DiagInv'
  OBVIOUS
<1>1. ASSUME UNCHANGED <<redirected, recorded, snap, diag>>,
             helper'.stage = "taking" => helper.stage = "taking"
      PROVE  DiagInv'
  BY <1>1 DEF DiagInv
<1>2. NoHelper.stage = "off"
  BY DEF NoHelper
<1>3. ASSUME UNCHANGED diag, redirected' = "no", recorded' = "nothing",
             snap' \in Records, helper'.stage # "taking"
      PROVE  DiagInv'
  BY <1>3 DEF DiagInv, Records
<1>4. CASE HelperReconciles
  <2>1. helper' = [helper EXCEPT !.stage = "ready", !.upstreams = Original]
        /\ UNCHANGED <<diag, snap>> /\ redirected' = "no" /\ recorded' = "nothing"
    BY <1>4 DEF HelperReconciles
  <2>2. helper'.stage = "ready"
    BY <2>1 DEF SettingsInv
  <2> QED BY <1>3, <2>1, <2>2 DEF DiagInv
<1>5. CASE StopProtection
  BY <1>2, <1>3, <1>5 DEF StopProtection, Records
<1>6. CASE HelperRecords
  <2>1. /\ recorded' = Original /\ UNCHANGED <<redirected, snap, diag>>
    BY <1>6 DEF HelperRecords
  <2>2. Original \in Records /\ Original # "nothing"
    BY DEF Original, Records
  <2> QED BY <2>1, <2>2 DEF DiagInv
<1>7. CASE HelperRedirects
  <2>1. /\ diag.stage # "reading" /\ helper.stage = "taking"
        /\ helper' = [helper EXCEPT !.stage = "taken"]
        /\ redirected' = helper.cfg.listen
        /\ UNCHANGED <<recorded, snap, diag>>
    BY <1>7 DEF HelperRedirects
  <2>2. helper.cfg.listen \in {"proxy", "other"}
    BY <2>1 DEF SettingsInv, HelperInv, Helpers, Settings, Listens
  <2>3. helper'.stage = "taken"
    BY <2>1 DEF SettingsInv
  <2> QED BY <2>1, <2>2, <2>3 DEF DiagInv
<1>8. CASE HelperPublishes
  <2>1. /\ helper' = [helper EXCEPT !.stage = "on"] /\ snap' = helper.upstreams
        /\ UNCHANGED <<redirected, recorded, diag>>
    BY <1>8 DEF HelperPublishes
  <2>2. helper'.stage = "on" /\ snap' \in Records
    BY <2>1 DEF SettingsInv, HelperInv, Helpers
  <2> QED BY <2>1, <2>2 DEF DiagInv
<1>9. ASSUME NEW who \in Askers, Diagnose(who) PROVE DiagInv'
  <2>1. /\ diag' = [NoDiag EXCEPT !.stage = "reading", !.who = who,
                                  !.seen = TakeoverKnown(who)]
        /\ UNCHANGED <<helper, redirected, recorded, snap>>
    BY <1>9 DEF Diagnose, dns
  <2>2. /\ TakeoverKnown(who) \in Records /\ who \in AllAskers
        /\ who = "command" => TakeoverKnown(who) = recorded
    BY WindowAssumption DEF TakeoverKnown, DiagInv
  <2> HIDE DEF TakeoverKnown
  <2>3. diag' = [stage |-> "reading", who |-> who, seen |-> TakeoverKnown(who),
                 live |-> "resolvers", asks |-> "isp"]
    BY <2>1 DEF NoDiag
  <2>4. /\ diag' \in Diagnoses /\ diag'.stage = "reading" /\ diag'.who = who
        /\ diag'.seen = TakeoverKnown(who)
    BY <2>2, <2>3 DEF Diagnoses
  <2> QED BY <2>1, <2>2, <2>4 DEF DiagInv
<1>10. CASE ReadResolvers
  <2>1. /\ diag.stage = "reading"
        /\ diag' = [diag EXCEPT !.stage = "check", !.live = Live,
                                !.asks = Ask(diag.seen, Live)]
        /\ UNCHANGED <<helper, redirected, recorded, snap>>
    BY <1>10 DEF ReadResolvers, dns
  <2>2. /\ Live \in {"resolvers", "empty", "proxy", "other"}
        /\ redirected = "no" => Live \in {"resolvers", "empty"}
    BY DEF Live, Original, DiagInv
  <2>3. diag.seen \in Records
    BY DEF DiagInv, Diagnoses
  <2> HIDE DEF Live
  <2>4. CASE diag.who = "command"
    <3>1. diag.seen = "nothing" => Live \in {"resolvers", "empty"}
      BY <2>1, <2>2, <2>4 DEF DiagInv
    <3>2. /\ Ask(diag.seen, Live) \in {"isp", "us", "nobody"}
          /\ Ask(diag.seen, Live) = "us" => diag.seen = "empty" /\ Live = "other"
          /\ Ask(diag.seen, Live) = "nobody" =>
               diag.seen = "empty" \/ Live = "empty"
      BY <2>2, <2>3, <3>1, AskIs
    <3>3. diag' \in Diagnoses /\ diag'.stage = "check" /\ AsksRight(diag')
      BY <2>1, <2>2, <3>2 DEF DiagInv, Diagnoses, AsksRight
    <3> QED BY <2>1, <3>3 DEF DiagInv
  <2>5. CASE diag.who # "command"
    <3>1. Ask(diag.seen, Live) \in {"isp", "us", "nobody"}
      BY <2>2, <2>3 DEF Ask, Records
    <3>2. /\ diag' \in Diagnoses /\ diag'.stage = "check"
          /\ diag'.who # "command"
      BY <2>1, <2>2, <2>5, <3>1 DEF DiagInv, Diagnoses
    <3> QED BY <2>1, <3>2 DEF DiagInv
  <2> QED BY <2>4, <2>5
<1>11. CASE Check
  BY <1>11, NoDiagIs DEF Check, dns, DiagInv
<1>12. CASE SnapshotExpires
  BY <1>12 DEF SnapshotExpires, DiagInv, Records
<1>13. ASSUME NEW id \in Profiles, StartProtection(id) PROVE DiagInv'
  <2>1. /\ helper' = [NoHelper EXCEPT !.stage = "auth", !.profile = id]
        /\ UNCHANGED <<redirected, recorded, snap, diag>>
    BY <1>13 DEF StartProtection, dns
  <2>2. helper'.stage = "auth"
    BY <2>1 DEF NoHelper
  <2> QED BY <1>1, <2>1, <2>2
<1>14. CASE HelperLoads
  <2>1. UNCHANGED <<redirected, recorded, snap, diag>>
    BY <1>14 DEF HelperLoads, dns
  <2>2. helper'.stage # "taking"
    <3>1. CASE helper' = NoHelper
      BY <1>2, <3>1
    <3>2. CASE helper' = [helper EXCEPT
                            !.stage = "loaded", !.cfg = Load(conf),
                            !.edited = edited,
                            !.policy = PolicyFor(Load(conf), helper.profile)]
      <4>1. helper'.stage = "loaded"
        BY <3>2 DEF SettingsInv
      <4> QED BY <4>1
    <3> QED BY <1>14, <3>1, <3>2 DEF HelperLoads
  <2> QED BY <1>1, <2>1, <2>2
<1>15. CASE HelperGivesUp \/ HelperKilled
  <2>1. helper' = NoHelper /\ UNCHANGED <<redirected, recorded, snap, diag>>
    BY <1>15 DEF HelperGivesUp, HelperKilled, dns
  <2> QED BY <1>1, <1>2, <2>1
<1>16. CASE \/ \E c \in Configs : SaveConfig(c)
            \/ Write
            \/ StartReturns
            \/ WindowKilled
            \/ Edit
            \/ NetworkChanges
            \/ UNCHANGED vars
  <2>1. UNCHANGED <<helper, redirected, recorded, snap, diag>>
    BY <1>16 DEF SaveConfig, Write, StartReturns, WindowKilled, Edit,
       NetworkChanges, vars, dns
  <2> QED BY <1>1, <2>1
<1> QED BY <1>4, <1>5, <1>6, <1>7, <1>8, <1>9, <1>10, <1>11, <1>12, <1>13,
           <1>14, <1>15, <1>16 DEF Next

\* So it holds throughout.
LEMMA DiagAlways ==
    ASSUME "overlap" \notin Faults
    PROVE  Spec => []DiagInv
<1>1. Init => DiagInv
  <2> SUFFICES ASSUME Init PROVE DiagInv
    OBVIOUS
  <2>1. NoHelper.stage = "off"
    BY DEF NoHelper
  <2>2. /\ diag = NoDiag /\ helper = NoHelper /\ redirected = "no"
        /\ recorded = "nothing" /\ snap = "nothing"
    BY DEF Init
  <2> QED BY <2>1, <2>2, NoDiagIs DEF DiagInv, Records
<1> QED BY <1>1, DiagStep, SettingsAlways, PTL DEF Spec

\* `dns-helper diagnose' asks the network's resolver, not our own proxy, unless
\* a helper redirects between its two reads or the record names no resolver: a
\* helper that was killed has left its record beside its redirect.
THEOREM CommandAsksIsp ==
    ASSUME "overlap" \notin Faults
    PROVE  Spec => []CommandComparesIsp
<1>1. DiagInv => CommandComparesIsp
  BY DEF DiagInv, AsksRight, CommandComparesIsp
<1> QED BY <1>1, DiagAlways, PTL

\* So its verdict is the one of the table, about the network's resolver.
THEOREM VerdictsHold ==
    ASSUME "overlap" \notin Faults
    PROVE  Spec => []VerdictRight
<1>1. ASSUME DiagInv, diag.stage = "check", diag.who = "command",
             diag.seen # "empty", diag.live # "empty"
      PROVE  VerdictTable
  <2>1. diag.asks = "isp"
    BY <1>1 DEF DiagInv, Diagnoses, AsksRight
  <2> QED BY <2>1, Verdicts
<1>2. DiagInv => VerdictRight
  BY <1>1 DEF VerdictRight
<1> QED BY <1>2, DiagAlways, PTL

---------------------------------------------------------------------------
(* Local names.                                                            *)

\* IsSuffix compares from the end, label by label.
LEMMA SuffixIs ==
    ASSUME NEW s \in Texts, NEW t \in Texts
    PROVE  IsSuffix(s, t) <=>
             /\ Len(s) <= Len(t)
             /\ \A i \in 1..Len(s) : s[i] = t[Len(t) - Len(s) + i]
<1> DEFINE m == Len(s)
           n == Len(t)
           r == Reverse(s)
           u == Reverse(t)
<1>1. m \in Nat /\ n \in Nat
  BY TextIs
<1>2. /\ r = [i \in 1..m |-> s[m - i + 1]]
      /\ u = [i \in 1..n |-> t[n - i + 1]]
  BY DEF Reverse
<1>3. /\ \A i \in 1..m : m - i + 1 \in 1..m
      /\ \A i \in 1..n : n - i + 1 \in 1..n
  BY <1>1
<1>4. r \in Seq(STRING) /\ Len(r) = m /\ u \in Seq(STRING) /\ Len(u) = n
  <2>1. \A i \in 1..m : s[m - i + 1] \in STRING
    BY <1>3, TextIs
  <2>2. \A i \in 1..n : t[n - i + 1] \in STRING
    BY <1>3, TextIs
  <2> HIDE DEF m, n
  <2> QED BY <1>1, <1>2, <2>1, <2>2
<1> HIDE DEF r, u
<1>5. IsSuffix(s, t) <=> m <= n /\ SubSeq(r, 1, m) = SubSeq(u, 1, m)
  BY <1>4 DEF IsSuffix, IsPrefix, r, u
<1>6. ASSUME m <= n
      PROVE  SubSeq(r, 1, m) = SubSeq(u, 1, m) <=> \A i \in 1..m : r[i] = u[i]
  <2>1. \A i \in 1..m : r[i] \in STRING /\ u[i] \in STRING
    BY <1>1, <1>4, <1>6
  <2>2. /\ SubSeq(r, 1, m) \in Seq(STRING) /\ Len(SubSeq(r, 1, m)) = m
        /\ \A i \in 1..m : SubSeq(r, 1, m)[i] = r[i]
    BY <1>1, <1>4, <1>6, <2>1
  <2>3. /\ SubSeq(u, 1, m) \in Seq(STRING) /\ Len(SubSeq(u, 1, m)) = m
        /\ \A i \in 1..m : SubSeq(u, 1, m)[i] = u[i]
    BY <1>1, <1>4, <1>6, <2>1
  <2> HIDE DEF m
  <2> QED BY <1>1, <2>2, <2>3
<1>7. ASSUME m <= n
      PROVE  (\A i \in 1..m : r[i] = u[i]) <=>
               \A i \in 1..m : s[i] = t[n - m + i]
  <2>1. \A i \in 1..m : r[i] = s[m - i + 1] /\ u[i] = t[n - i + 1]
    BY <1>1, <1>2, <1>7
  <2>2. \A i \in 1..m : /\ m - i + 1 \in 1..m
                        /\ m - (m - i + 1) + 1 = i
                        /\ n - m + (m - i + 1) = n - i + 1
    BY <1>1
  <2> HIDE DEF m, n
  <2>3. ASSUME \A i \in 1..m : r[i] = u[i], NEW i \in 1..m
        PROVE  s[i] = t[n - m + i]
    <3> DEFINE j == m - i + 1
    <3>1. j \in 1..m /\ m - j + 1 = i /\ n - j + 1 = n - m + i
      BY <1>1
    <3> HIDE DEF j
    <3> QED BY <2>1, <2>3, <3>1
  <2>4. ASSUME \A i \in 1..m : s[i] = t[n - m + i], NEW i \in 1..m
        PROVE  r[i] = u[i]
    BY <2>1, <2>2, <2>4
  <2> QED BY <2>3, <2>4
<1> QED BY <1>5, <1>6, <1>7

\* Two texts of the same labels are one.
LEMMA SameText ==
    ASSUME NEW s \in Texts, NEW t \in Texts, Len(s) = Len(t),
           \A i \in 1..Len(t) : s[i] = t[i]
    PROVE  s = t
BY DEF Texts

\* A label that ToLower leaves alone, and that is not empty
Plain(l) == l \in STRING /\ Says(l) /\ ToLower(l) = l

\* The labels that policy.rs spells out, and the numbers, are in lower case.
LEMMA PlainLabel ==
    ASSUME NEW l \in (Literals \cup DOMAIN U8) \ {""}
    PROVE  Plain(l)
<1>1. l \in STRING
  BY LiteralsAssumption, U8Assumption
<1>2. l \notin DOMAIN LowerCase
  BY LowerAssumption, U8Assumption
<1> QED BY <1>1, <1>2 DEF Plain, Says, ToLower

\* A text of such labels is normalised.
LEMMA AsItIs ==
    ASSUME NEW t \in Texts, \A i \in 1..Len(t) : Plain(t[i])
    PROVE  NormaliseStr(t) = t
<1>1. \A i \in 1..Len(t) : Says(t[i]) /\ ToLower(t[i]) = t[i]
  BY DEF Plain
<1>2. /\ Len(t) \in Nat /\ Kept(t) \in Nat /\ Kept(t) <= Len(t)
      /\ \A i \in 1..Len(t) : i <= Kept(t)
  BY <1>1, TextIs, KeptLabels
<1>3. Kept(t) = Len(t)
  BY <1>2
<1>4. /\ NormaliseStr(t) \in Texts /\ Len(NormaliseStr(t)) = Len(t)
      /\ \A i \in 1..Len(t) : NormaliseStr(t)[i] = t[i]
  BY <1>1, <1>3, NormalText
<1> QED BY <1>4, SameText

\* Labels in a row are a text.
LEMMA Tuples ==
    ASSUME NEW S, NEW x \in S, NEW y \in S, NEW z \in S, NEW u \in S, NEW v \in S
    PROVE  /\ <<x>> \in Seq(S)
           /\ <<x, y>> \in Seq(S)
           /\ <<x, y, z, u>> \in Seq(S)
           /\ <<x, y, z, u, v>> \in Seq(S)
<1>1. <<x>> \in Seq(S)
  <2> DEFINE f == [i \in 1..1 |-> x]
  <2>1. f \in Seq(S) /\ <<x>> = f
    OBVIOUS
  <2> QED BY <2>1
<1>2. <<x, y>> \in Seq(S)
  <2> DEFINE f == [i \in 1..2 |-> IF i = 1 THEN x ELSE y]
  <2>1. f \in Seq(S)
    OBVIOUS
  <2>2. <<x, y>> = f
    OBVIOUS
  <2> QED BY <2>1, <2>2
<1>3. <<x, y, z, u>> \in Seq(S)
  <2> DEFINE f == [i \in 1..4 |-> IF i = 1 THEN x ELSE IF i = 2 THEN y
                                  ELSE IF i = 3 THEN z ELSE u]
  <2>1. f \in Seq(S)
    OBVIOUS
  <2>2. <<x, y, z, u>> = f
    OBVIOUS
  <2> QED BY <2>1, <2>2
<1>4. <<x, y, z, u, v>> \in Seq(S)
  <2> DEFINE f == [i \in 1..5 |-> IF i = 1 THEN x ELSE IF i = 2 THEN y
                                  ELSE IF i = 3 THEN z
                                  ELSE IF i = 4 THEN u ELSE v]
  <2>1. f \in Seq(S)
    OBVIOUS
  <2>2. <<x, y, z, u, v>> = f
    OBVIOUS
  <2> QED BY <2>1, <2>2
<1> QED BY <1>1, <1>2, <1>3, <1>4

\* A local suffix is one label, or home.arpa.
LEMMA SuffixLabels ==
    ASSUME NEW s \in LocalSuffixes
    PROVE  /\ s \in Texts
           /\ \/ Len(s) = 1 /\ s[1] # "arpa"
              \/ Len(s) = 2 /\ s[1] = "home"
           /\ \A i \in 1..Len(s) : Plain(s[i])
           /\ Head(s) # "*"
<1>1. ASSUME NEW l \in {"local", "lan", "home", "internal", "intranet",
                       "localdomain", "localhost"},
             s = <<l>>
      PROVE  /\ s \in Texts /\ Len(s) = 1 /\ s[1] = l /\ Head(s) = l
             /\ Plain(l)
  <2>1. Plain(l) /\ l \in STRING
    BY PlainLabel DEF Literals, Plain
  <2>2. s \in Texts
    BY <1>1, <2>1, Tuples DEF Texts
  <2>3. Len(s) = 1 /\ s[1] = l /\ Head(s) = l
    BY <1>1
  <2> QED BY <2>1, <2>2, <2>3
<1>2. ASSUME s = <<"home", "arpa">>
      PROVE  /\ s \in Texts /\ Len(s) = 2 /\ s[1] = "home" /\ s[2] = "arpa"
             /\ Head(s) = "home" /\ Plain("home") /\ Plain("arpa")
  <2>1. Plain("home") /\ Plain("arpa")
    BY PlainLabel DEF Literals
  <2>2. "home" \in STRING /\ "arpa" \in STRING
    BY <2>1 DEF Plain
  <2>3. s \in Texts
    BY <1>2, <2>2, Tuples DEF Texts
  <2>4. Len(s) = 2 /\ s[1] = "home" /\ s[2] = "arpa" /\ Head(s) = "home"
    BY <1>2
  <2> QED BY <2>1, <2>3, <2>4
<1>3. CASE s = <<"home", "arpa">>
  <2>1. \A i \in 1..2 : i = 1 \/ i = 2
    OBVIOUS
  <2> QED BY <1>2, <1>3, <2>1
<1>4. CASE s # <<"home", "arpa">>
  <2>1. PICK l \in {"local", "lan", "home", "internal", "intranet",
                   "localdomain", "localhost"} : s = <<l>>
    BY <1>4 DEF LocalSuffixes
  <2>2. l # "arpa" /\ l # "*"
    OBVIOUS
  <2>3. \A i \in 1..1 : i = 1
    OBVIOUS
  <2> QED BY <1>1, <2>1, <2>2, <2>3
<1> QED BY <1>3, <1>4

\* A local suffix matches the names that end with it.
LEMMA LocalMatches ==
    ASSUME NEW s \in LocalSuffixes, NEW l \in Texts
    PROVE  /\ s \in Texts
           /\ SuffixMatches(l, s) <=> IsSuffix(s, l)
<1>1. s \in Texts /\ NormaliseStr(s) = s
  BY SuffixLabels, AsItIs
<1>2. s # <<>> /\ Head(s) # "*"
  BY SuffixLabels
<1> QED BY <1>1, <1>2 DEF SuffixMatches

\* Host names and the local suffixes go to the network's own resolver.
LEMMA LocalNamesStay ==
    ASSUME NEW p, NEW n \in Texts,
           LET l == NormaliseStr(n) IN
             \/ Len(l) = 1
             \/ \E s \in LocalSuffixes, k \in 1..Len(l) : s = SubSeq(l, k, Len(l))
    PROVE  Route(p, n) = "system"
<1> DEFINE l == NormaliseStr(n)
<1>1. l \in Texts /\ Len(l) \in Nat
  BY NormalText, TextIs
<1>2. CASE Len(l) = 1
  BY <1>2 DEF Route, IsBuiltinLocal
<1>3. ASSUME NEW s \in LocalSuffixes, NEW k \in 1..Len(l), s = SubSeq(l, k, Len(l))
      PROVE  IsBuiltinLocal(l)
  <2> HIDE DEF l
  <2>1. \A i \in k..Len(l) : l[i] \in STRING
    BY <1>1, TextIs
  <2>2. /\ Len(s) = Len(l) - k + 1
        /\ \A i \in 1..Len(l) - k + 1 : s[i] = l[k + i - 1]
    BY <1>1, <1>3, <2>1, SubSeqProperties
  <2>3. s \in Texts
    BY <1>1, LocalMatches
  <2>4. \A i \in 1..Len(s) : s[i] = l[Len(l) - Len(s) + i]
    <3>1. ASSUME NEW i \in 1..Len(s) PROVE Len(l) - Len(s) + i = k + i - 1
      BY <1>1, <2>2
    <3> QED BY <2>2, <3>1
  <2>5. Len(s) <= Len(l)
    BY <1>1, <2>2
  <2>6. IsSuffix(s, l)
    BY <1>1, <2>3, <2>4, <2>5, SuffixIs
  <2> QED BY <1>1, <2>6, LocalMatches DEF IsBuiltinLocal
<1> QED BY <1>2, <1>3 DEF Route

\* A reverse name, normalised
LEMMA ReverseLabels ==
    ASSUME NEW a \in Octets, NEW b \in Octets
    PROVE  LET l == NormaliseStr(ReverseName(a, b)) IN
           /\ ReverseName(a, b) \in Texts
           /\ l = <<Decimal(b), Decimal(a), "in-addr", "arpa">>
           /\ l \in Texts
           /\ ParseU8(Decimal(a)) = a /\ ParseU8(Decimal(b)) = b
           /\ a \in 0..255 /\ b \in 0..255
<1>1. ASSUME NEW x \in Octets
      PROVE  /\ Decimal(x) \in DOMAIN U8 /\ U8[Decimal(x)] = x
             /\ Decimal(x) \in STRING /\ Decimal(x) # ""
             /\ ParseU8(Decimal(x)) = x
             /\ x \in 0..255
  <2>1. \E d \in DOMAIN U8 : U8[d] = x
    BY DEF Octets
  <2>2. Decimal(x) \in DOMAIN U8 /\ U8[Decimal(x)] = x
    BY <2>1 DEF Decimal
  <2>3. Decimal(x) \in STRING /\ Decimal(x) # ""
    BY <2>2, U8Assumption
  <2>4. ParseU8(Decimal(x)) = x
    BY <2>2 DEF ParseU8
  <2>5. x \in 0..255
    BY <2>2, U8Assumption
  <2> QED BY <2>2, <2>3, <2>4, <2>5
<1> DEFINE d == Decimal(b)
           e == Decimal(a)
           t == <<d, e, "in-addr", "arpa", "">>
           l == <<d, e, "in-addr", "arpa">>
<1>2. Plain(d) /\ Plain(e)
  BY <1>1, PlainLabel
<1>3. d \in STRING /\ e \in STRING
  BY <1>1
<1>4. Plain("in-addr") /\ Plain("arpa")
  BY PlainLabel DEF Literals
<1> HIDE DEF d, e
<1>5. t \in Texts /\ l \in Texts
  <2>1. /\ "in-addr" \in STRING /\ "arpa" \in STRING /\ "" \in STRING
    BY LiteralsAssumption DEF Literals
  <2> QED BY <1>3, <2>1, Tuples DEF Texts
<1>6. /\ Len(t) = 5 /\ t[4] = "arpa" /\ t[5] = ""
      /\ t[1] = d /\ t[2] = e /\ t[3] = "in-addr"
  OBVIOUS
<1>7. Len(l) = 4 /\ l[1] = d /\ l[2] = e /\ l[3] = "in-addr" /\ l[4] = "arpa"
  OBVIOUS
<1> HIDE DEF t, l
<1>8. Says(t[4]) /\ ~Says(t[5])
  BY <1>6 DEF Says
<1>9. Kept(t) = 4
  <2>1. Len(t) = 5
    BY <1>6
  <2>2. 4 \in 1..Len(t)
    BY <2>1
  <2>3. /\ Kept(t) \in Nat /\ Kept(t) <= Len(t)
        /\ Kept(t) > 0 => Says(t[Kept(t)])
        /\ 4 <= Kept(t)
    BY <1>5, <1>8, <2>2, KeptLabels
  <2>4. Kept(t) # 5
    <3>1. SUFFICES ASSUME Kept(t) = 5 PROVE FALSE
      OBVIOUS
    <3>2. Says(t[5])
      BY <2>3, <3>1
    <3> QED BY <1>8, <3>2
  <2> QED BY <2>1, <2>3, <2>4
<1>10. /\ NormaliseStr(t) \in Texts /\ Len(NormaliseStr(t)) = 4
       /\ \A i \in 1..4 : NormaliseStr(t)[i] = ToLower(t[i])
  BY <1>5, <1>9, NormalText
<1>11. /\ ToLower(t[1]) = l[1] /\ ToLower(t[2]) = l[2]
       /\ ToLower(t[3]) = l[3] /\ ToLower(t[4]) = l[4]
  BY <1>2, <1>4, <1>6, <1>7 DEF Plain
<1>12. \A i \in 1..4 : i = 1 \/ i = 2 \/ i = 3 \/ i = 4
  OBVIOUS
<1>13. \A i \in 1..4 : NormaliseStr(t)[i] = l[i]
  BY <1>10, <1>11, <1>12
<1>14. Len(l) = 4
  BY <1>7
<1>15. NormaliseStr(t) = l
  BY <1>5, <1>10, <1>13, <1>14, SameText
<1>16. ReverseName(a, b) = t
  BY DEF ReverseName, t, d, e
<1> QED BY <1>1, <1>5, <1>15, <1>16 DEF l, d, e

\* The blocks of IsPrivate are those of is_private_reverse.
LEMMA PrivateAgree ==
    ASSUME NEW a \in 0..255, NEW b \in 0..255
    PROVE  IsPrivate(a, b) <=> PrivateOctets(a, b)
<1>1. IsPrivate(a, b) <=>
        \/ a * 256 + b \in 10 * 256..10 * 256 + 256 - 1
        \/ a * 256 + b \in 127 * 256..127 * 256 + 256 - 1
        \/ a * 256 + b \in 172 * 256 + 16..172 * 256 + 16 + 16 - 1
        \/ a * 256 + b \in 192 * 256 + 168..192 * 256 + 168 + 1 - 1
        \/ a * 256 + b \in 169 * 256 + 254..169 * 256 + 254 + 1 - 1
  BY DEF IsPrivate, PrivateBlocks
<1> QED BY <1>1 DEF PrivateOctets

\* Of the reverse names, those of the private blocks are built-in local names.
LEMMA ReverseLocal ==
    ASSUME NEW a \in Octets, NEW b \in Octets
    PROVE  IsBuiltinLocal(NormaliseStr(ReverseName(a, b))) <=> IsPrivate(a, b)
<1> DEFINE l == NormaliseStr(ReverseName(a, b))
           v4 == <<"in-addr", "arpa">>
           v6 == <<"ip6", "arpa">>
<1>1. /\ l = <<Decimal(b), Decimal(a), "in-addr", "arpa">> /\ l \in Texts
      /\ ParseU8(Decimal(a)) = a /\ ParseU8(Decimal(b)) = b
      /\ a \in 0..255 /\ b \in 0..255
  BY ReverseLabels
<1> HIDE DEF l
<1>2. /\ Len(l) = 4 /\ l[1] = Decimal(b) /\ l[2] = Decimal(a)
      /\ l[3] = "in-addr" /\ l[4] = "arpa"
  <2>1. Len(l) = 4
    BY <1>1
  <2>2. l[1] = Decimal(b) /\ l[2] = Decimal(a)
    BY <1>1
  <2>3. l[3] = "in-addr" /\ l[4] = "arpa"
    BY <1>1
  <2> QED BY <2>1, <2>2, <2>3
<1>3. /\ v4 \in Texts /\ Len(v4) = 2 /\ v4[1] = "in-addr" /\ v4[2] = "arpa"
      /\ v6 \in Texts /\ Len(v6) = 2 /\ v6[1] = "ip6"
  <2>1. "in-addr" \in STRING /\ "ip6" \in STRING /\ "arpa" \in STRING
    BY LiteralsAssumption DEF Literals
  <2>2. v4 \in Texts /\ v6 \in Texts
    BY <2>1, Tuples DEF Texts
  <2>3. Len(v4) = 2 /\ v4[1] = "in-addr" /\ v4[2] = "arpa"
    OBVIOUS
  <2>4. Len(v6) = 2 /\ v6[1] = "ip6"
    OBVIOUS
  <2> QED BY <2>2, <2>3, <2>4
<1>4. Len(v4) = 2 /\ Len(v6) = 2 /\ Len(l) = 4
  BY <1>2, <1>3
<1>5. v4 # l
  BY <1>4
<1> HIDE DEF v4, v6
\* What ends l is compared with its last labels.
<1>6. ASSUME NEW s \in Texts, Len(s) \in {1, 2}
      PROVE  IsSuffix(s, l) <=> \A i \in 1..Len(s) : s[i] = l[4 - Len(s) + i]
  <2>1. Len(s) <= Len(l) /\ Len(l) = 4
    <3>1. \A k \in {1, 2} : k <= 4
      OBVIOUS
    <3> QED BY <1>4, <1>6, <3>1
  <2>2. l \in Texts
    BY <1>1
  <2> QED BY <2>1, <2>2, SuffixIs
<1>7. IsStrictSuffix(v4, l)
  <2>1. v4[1] = l[3] /\ v4[2] = l[4]
    BY <1>2, <1>3
  <2>2. \A i \in 1..2 : v4[i] = l[4 - 2 + i]
    BY <2>1
  <2>3. IsSuffix(v4, l)
    BY <1>3, <1>4, <1>6, <2>2
  <2> QED BY <1>5, <2>3 DEF IsStrictSuffix
<1>8. ~IsStrictSuffix(v6, l)
  <2>1. IsSuffix(v6, l) => v6[1] = l[3]
    <3>1. IsSuffix(v6, l) => \A i \in 1..2 : v6[i] = l[4 - 2 + i]
      BY <1>3, <1>4, <1>6
    <3> QED BY <3>1
  <2>2. v6[1] # l[3]
    BY <1>2, <1>3
  <2> QED BY <2>1, <2>2 DEF IsStrictSuffix
<1>9. IsPrivateReverse(l) <=> PrivateOctets(a, b)
  <2>1. Len(l) - 2 = 2 /\ Len(l) - 2 > 1 /\ Len(l) - 2 - 1 = 1
    BY <1>4
  <2>2. ParseU8(l[2]) = a /\ ParseU8(l[1]) = b
    BY <1>1, <1>2
  <2> QED BY <1>7, <1>8, <2>1, <2>2 DEF IsPrivateReverse, v4, v6
<1>10. ASSUME NEW s \in LocalSuffixes PROVE ~SuffixMatches(l, s)
  <2>1. s \in Texts /\ (SuffixMatches(l, s) <=> IsSuffix(s, l))
    BY <1>1, LocalMatches
  <2>2. ASSUME Len(s) = 2, s[1] = "home" PROVE ~IsSuffix(s, l)
    <3>1. IsSuffix(s, l) => \A i \in 1..2 : s[i] = l[4 - 2 + i]
      BY <1>6, <2>1, <2>2
    <3>2. IsSuffix(s, l) => s[1] = l[3]
      BY <3>1
    <3>3. s[1] # l[3]
      BY <1>2, <2>2
    <3> QED BY <3>2, <3>3
  <2>3. ASSUME Len(s) = 1, s[1] # "arpa" PROVE ~IsSuffix(s, l)
    <3>1. IsSuffix(s, l) => \A i \in 1..1 : s[i] = l[4 - 1 + i]
      BY <1>6, <2>1, <2>3
    <3>2. IsSuffix(s, l) => s[1] = l[4]
      BY <3>1
    <3>3. s[1] # l[4]
      BY <1>2, <2>3
    <3> QED BY <3>2, <3>3
  <2> QED BY <2>1, <2>2, <2>3, SuffixLabels
<1>11. IsPrivate(a, b) <=> PrivateOctets(a, b)
  BY <1>1, PrivateAgree
<1>12. ~(Len(l) <= 1)
  BY <1>4
<1>13. IsBuiltinLocal(l) <=> IsPrivate(a, b)
  BY <1>9, <1>10, <1>11, <1>12 DEF IsBuiltinLocal
<1> QED BY <1>13 DEF l

\* What only the local network knows stays on its resolver, whatever is saved
\* and whatever profile is active; of the reverse names, the private ones do
\* and, but for the user's own list, no others.
THEOREM LocalNamesLocal == Spec => []LocalStays
<1>1. ASSUME SettingsInv, JustLoaded PROVE LocalStays
  <2> DEFINE p == helper.policy
  <2>1. ASSUME NEW n \in Names,
               LET l == NormaliseStr(n) IN
                 \/ Len(l) = 1
                 \/ \E s \in LocalSuffixes, k \in 1..Len(l) :
                       s = SubSeq(l, k, Len(l))
        PROVE  Route(p, n) = "system"
    BY <2>1, LocalNamesStay, SettingsAssumption
  <2>2. ASSUME NEW a \in Octets, NEW b \in Octets
        PROVE  LET n == ReverseName(a, b) IN
               IF IsPrivate(a, b) THEN Route(p, n) = "system"
               ELSE p.default_doh =>
                      \/ Route(p, n) = "doh"
                      \/ \E s \in p.force_local :
                           SuffixMatches(NormaliseStr(n), s)
    BY ReverseLocal DEF Route
  <2> QED BY <2>1, <2>2 DEF LocalStays
<1>2. SettingsInv => LocalStays
  BY <1>1 DEF LocalStays
<1> QED BY <1>2, SettingsAlways, PTL

===========================================================================
