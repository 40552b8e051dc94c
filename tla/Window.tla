------------------------------- MODULE Window -------------------------------
(***************************************************************************)
(* The desktop window's settings, protection and diagnosis: config.toml,   *)
(* saved in place (crates/dns-core/src/config.rs), the helper that is      *)
(* started with it (start_protection, stop_protection of                   *)
(* src-tauri/src/main.rs), and run_diagnostic beside `dns-helper diagnose'.*)
(*                                                                         *)
(* The window's commands that are not async run one after the other on its *)
(* main thread; the helper behind pkexec, and a diagnosis, run beside it.  *)
(* How the helper redirects resolv.conf is the subject of Takeover; here   *)
(* it is redirected, or not, and a takeover is on record, or not.  The     *)
(* settings file is the user's too: the README has it edited by hand.      *)
(***************************************************************************)
EXTENDS Policy, Diagnose

CONSTANTS
    Configs,    \* what the settings page may submit
    Profiles,   \* the profile ids, known or not, that protection starts with
    Names,      \* names a program may look up
    Default,    \* Config::default()
    Askers,     \* who runs diagnoses, a subset of AllAskers
    Files,      \* what config.toml may hold that no save_config wrote
    Faults      \* what the environment may do, a subset of AllFaults

\* "crash":    the window or the helper is killed
\* "nospace":  a write stops short
\* "edit":     the user edits config.toml, or copies one there
\* "unlisted": the network's resolv.conf may name no resolver
\* "overlap":  a helper redirects between the two reads of a diagnosis
AllFaults == {"crash", "nospace", "edit", "unlisted", "overlap"}

\* The window's run_diagnostic, and `dns-helper diagnose'
AllAskers == {"window", "command"}

ASSUME WindowAssumption ==
    Faults \subseteq AllFaults /\ Askers \subseteq AllAskers /\ "" \notin Profiles

\* What a Config may say.  The listen address is PROXY_ADDR, another one, or
\* does not parse; a provider is what validate asks of it: a name that is not
\* blank, an https URL, a bootstrap address.
Listens == {"proxy", "other", "bad"}
Texts == Seq(STRING)
ProviderRecords == [name : BOOLEAN, https : BOOLEAN, bootstrap : BOOLEAN]
ProfileRecords == [id : STRING, domains : SUBSET Texts]
Policies == [default_doh : BOOLEAN,
             force_doh : SUBSET Texts, force_local : SUBSET Texts]
Settings == [listen : Listens, providers : Seq(ProviderRecords),
             policy : Policies, profiles : Seq(ProfileRecords)]

ASSUME SettingsAssumption ==
    Configs \subseteq Settings /\ Default \in Settings /\ Names \subseteq Texts

VARIABLES
    conf,       \* config.toml
    edited,     \* what it holds is not of the window's writing
    main,       \* the window's main thread
    helper,     \* the helper: its stage, profile, configuration, policy, and
                \* the resolvers it found
    listed,     \* the network's resolv.conf names resolvers
    redirected, \* the address of ours that resolv.conf names instead, or "no"
    recorded,   \* state.json: the resolvers it records
    snap,       \* the snapshot, if it is fresh: the resolvers it names
    diag        \* a diagnosis: who runs it, what it has read, whom it will ask

toml == <<conf, edited>>
dns == <<listed, redirected, recorded, snap>>
vars == <<toml, main, helper, dns, diag>>

\* What a record may say: there is none, it has an empty list, it has resolvers
Records == {"nothing", "empty", "resolvers"}
Original == IF listed THEN "resolvers" ELSE "empty"

---------------------------------------------------------------------------
(* Files.                                                                  *)

Absent == <<[absent |-> TRUE]>>
Torn == [torn |-> TRUE]     \* an item that stops in the middle

Item(k, v) == [field \in {k} |-> v]

\* Config::save's text, item by item in the order of the fields
ToToml(c) ==
    <<Item("listen", c.listen)>>
      \o [i \in DOMAIN c.providers |-> Item("provider", c.providers[i])]
      \o <<Item("default_doh", c.policy.default_doh),
           Item("force_doh", c.policy.force_doh),
           Item("force_local", c.policy.force_local)>>
      \o [i \in DOMAIN c.profiles |-> Item("profile", c.profiles[i])]

\* Where the items of a field are, and what they say, in the order of the file
Positions(text, k) == {i \in DOMAIN text : k \in DOMAIN text[i]}
All(text, k) ==
    LET ps == Positions(text, k)
        nth(n) == CHOOSE i \in ps : Cardinality({j \in ps : j < i}) = n - 1
    IN [n \in 1..Cardinality(ps) |-> text[nth(n)][k]]

Field(text, k, default) ==
    IF All(text, k) = <<>> THEN default ELSE All(text, k)[1]

\* What an item may say that parses: an array of tables is written table by
\* table, or as an empty array.
ItemsOf(k, values) == [{k} -> values]
Items ==
    ItemsOf("listen", Listens) \cup ItemsOf("provider", ProviderRecords)
      \cup ItemsOf("providers", {<<>>}) \cup ItemsOf("default_doh", BOOLEAN)
      \cup ItemsOf("force_doh", SUBSET Texts)
      \cup ItemsOf("force_local", SUBSET Texts)
      \cup ItemsOf("profile", ProfileRecords)
      \cup {Torn, [absent |-> TRUE]}

ASSUME FilesAssumption == Files \subseteq Seq(Items) /\ Absent \notin Files

\* Every field that is missing has a default: serde(default).
FromToml(text) ==
    [listen    |-> Field(text, "listen", Default.listen),
     providers |-> IF All(text, "provider") # <<>> THEN All(text, "provider")
                   ELSE Field(text, "providers", Default.providers),
     policy    |->
        [default_doh |-> Field(text, "default_doh", TRUE),
         force_doh   |-> Field(text, "force_doh", {}),
         force_local |-> Field(text, "force_local", {})],
     profiles  |-> All(text, "profile")]

\* Config::load: a file that is not there is the default one, and one that
\* does not parse is an error.
Loads(file) == Positions(file, "torn") = {}
Load(file) == IF file = Absent THEN Default ELSE FromToml(file)

\* What is on disk when a write stopped short: whole items, then nothing or
\* one that is torn; a profile without its domains still is a profile.
Short(text) ==
    LET cut(n) == {<<>>, <<Torn>>} \cup
                    (IF "profile" \in DOMAIN text[n + 1]
                     THEN {<<[text[n + 1] EXCEPT !.profile.domains = {}]>>}
                     ELSE {})
    IN UNION {{SubSeq(text, 1, n) \o last : last \in cut(n)} :
                n \in 0..Len(text) - 1}

\* Mutant: bootstrap addresses are not asked for.
ValidWithoutBootstrap(c) ==
    /\ c.providers # <<>>
    /\ \A i \in DOMAIN c.providers :
         c.providers[i].name /\ c.providers[i].https
    /\ c.listen # "bad"

\* Config::validate
Validate(c) ==
    /\ c.providers # <<>>
    /\ \A i \in DOMAIN c.providers :
         LET p == c.providers[i] IN p.name /\ p.https /\ p.bootstrap
    /\ c.listen # "bad"

\* default_config_is_valid (config.rs, 330)
ASSUME DefaultAssumption == Validate(Default)

Domains(c, id) ==
    UNION {c.profiles[i].domains :
             i \in {j \in DOMAIN c.profiles :
                      /\ c.profiles[j].id = id
                      /\ \A k \in 1..j - 1 : c.profiles[k].id # id}}

\* Config::policy_for: the domains of the first profile with this id are
\* added; without one nothing changes.
PolicyFor(c, id) ==
    IF \E i \in DOMAIN c.profiles : c.profiles[i].id = id
    THEN WithForceDoh(c.policy, c.policy.force_doh \cup Domains(c, id))
    ELSE c.policy

---------------------------------------------------------------------------
Free == [do |-> "free", arg |-> <<>>]
NoHelper == [stage |-> "off", profile |-> "", cfg |-> Default,
             policy |-> Default.policy, edited |-> FALSE,
             upstreams |-> "empty"]
NoDiag == [stage |-> "off", who |-> "window", seen |-> "nothing",
           live |-> "resolvers", asks |-> "isp"]

\* There may be a file, of the user's hand or of an older version.
Init ==
    /\ conf \in {Absent} \cup Files
    /\ edited \in BOOLEAN /\ (edited <=> conf \in Files)
    /\ main = Free
    /\ helper = NoHelper
    /\ listed \in IF "unlisted" \in Faults THEN BOOLEAN ELSE {TRUE}
    /\ redirected = "no"
    /\ recorded = "nothing"
    /\ snap = "nothing"
    /\ diag = NoDiag

\* fs::write, first half: the file is opened and is empty.  save_config
\* validates before, and refuses without touching the file.
SaveConfig(c) ==
    /\ main = Free
    /\ Validate(c)
    /\ conf' = <<>>
    /\ edited' = FALSE
    /\ main' = [do |-> "save", arg |-> ToToml(c)]
    /\ UNCHANGED <<helper, dns, diag>>

\* fs::write, second half, or an error that the window shows
Written == {main.arg} \cup
           (IF "nospace" \in Faults THEN Short(main.arg) ELSE {})

Write ==
    /\ main.do = "save"
    /\ conf' \in Written
    /\ edited' = FALSE
    /\ main' = Free
    /\ UNCHANGED <<helper, dns, diag>>

---------------------------------------------------------------------------
(* Protection.                                                             *)

\* start_protection: unless the snapshot says it runs, pkexec is spawned and
\* the main thread polls.  (A second helper beside one that runs or waits is
\* the subject of Takeover.)
StartProtection(id) ==
    /\ main = Free
    /\ snap = "nothing"
    /\ helper.stage = "off"
    /\ helper' = [NoHelper EXCEPT !.stage = "auth", !.profile = id]
    /\ main' = [Free EXCEPT !.do = "start"]
    /\ UNCHANGED <<toml, dns, diag>>

\* The snapshot is there, pkexec exited, or 100 polls are over
StartReturns ==
    /\ main.do = "start"
    /\ main' = Free
    /\ UNCHANGED <<toml, helper, dns, diag>>

\* Authorised: main loads the configuration, run asks for its policy.  Not
\* authorised, or a file that does not parse, ends it.
HelperLoads ==
    /\ helper.stage = "auth"
    /\ \/ /\ Loads(conf)
          /\ helper' = [helper EXCEPT
                          !.stage = "loaded",
                          !.cfg = Load(conf),
                          !.edited = edited,
                          !.policy = PolicyFor(Load(conf), helper.profile)]
       \/ helper' = NoHelper
    /\ UNCHANGED <<toml, main, dns, diag>>

\* The listen address parses; reconcile_after_crash undoes what a killed helper
\* left, and current_nameservers finds what the file names then.
HelperReconciles ==
    /\ helper.stage = "loaded"
    /\ helper.cfg.listen # "bad"
    /\ helper' = [helper EXCEPT !.stage = "ready", !.upstreams = Original]
    /\ redirected' = "no"
    /\ recorded' = "nothing"
    /\ UNCHANGED <<toml, main, listed, snap, diag>>

\* run's early returns: an address that does not parse, no resolver for these
\* providers, a port that is taken
HelperGivesUp ==
    /\ helper.stage \in {"loaded", "ready"}
    /\ helper' = NoHelper
    /\ UNCHANGED <<toml, main, dns, diag>>

\* DohResolver::new: a provider needs a host, not a bootstrap address.
Builds(c) ==
    /\ c.providers # <<>>
    /\ \A i \in DOMAIN c.providers : c.providers[i].https

\* The resolver is built and the port bound; take_over records what the file
\* names now,
HelperRecords ==
    /\ helper.stage = "ready"
    /\ Builds(helper.cfg)
    /\ helper' = [helper EXCEPT !.stage = "taking"]
    /\ recorded' = Original
    /\ UNCHANGED <<toml, main, listed, redirected, snap, diag>>

\* then writes ours,
HelperRedirects ==
    /\ helper.stage = "taking"
    /\ "overlap" \in Faults \/ diag.stage # "reading"
    /\ helper' = [helper EXCEPT !.stage = "taken"]
    /\ redirected' = helper.cfg.listen
    /\ UNCHANGED <<toml, main, listed, recorded, snap, diag>>

\* and the first snapshot names what was found before.
HelperPublishes ==
    /\ helper.stage = "taken"
    /\ helper' = [helper EXCEPT !.stage = "on"]
    /\ snap' = helper.upstreams
    /\ UNCHANGED <<toml, main, listed, redirected, recorded, diag>>

\* stop_protection: pkexec dns-helper stop, which restores
StopProtection ==
    /\ main = Free
    /\ snap # "nothing"
    /\ helper.stage = "on"
    /\ helper' = NoHelper
    /\ redirected' = "no"
    /\ recorded' = "nothing"
    /\ snap' = "nothing"
    /\ UNCHANGED <<toml, main, listed, diag>>

---------------------------------------------------------------------------
(* Diagnosis.                                                              *)

\* Mutant: the snapshot speaks for both.
TakeoverKnownFresh(who) == snap

\* What tells a diagnosis that resolv.conf is not the network's: run_diagnostic
\* reads the snapshot, the command reads state.json.
TakeoverKnown(who) == IF who = "window" THEN snap ELSE recorded

\* run_diagnostic loads the configuration again, the helper at its start; then
\* each looks for a takeover.  Where the resolver cannot be built, there is no
\* verdict.
Diagnose(who) ==
    /\ diag.stage = "off"
    /\ Loads(conf)
    /\ Builds(Load(conf))
    /\ diag' = [NoDiag EXCEPT !.stage = "reading", !.who = who,
                              !.seen = TakeoverKnown(who)]
    /\ UNCHANGED <<toml, main, helper, dns>>

\* What resolv.conf names
Live == IF redirected = "no" THEN Original ELSE redirected

\* Mutant: parse_nameservers does not look for our own address.
AskUnfiltered(seen, live) ==
    CASE seen = "resolvers" \/ live = "resolvers" -> "isp"
      [] seen # "resolvers" /\ live \in {"proxy", "other"} -> "us"
      [] OTHER -> "nobody"

\* The recorded resolvers if there are any, or else those of the live file,
\* without PROXY_ADDR
Ask(seen, live) ==
    CASE seen = "resolvers" \/ live = "resolvers" -> "isp"
      [] seen # "resolvers" /\ live = "other" -> "us"
      [] OTHER -> "nobody"

ReadResolvers ==
    /\ diag.stage = "reading"
    /\ diag' = [diag EXCEPT !.stage = "check", !.live = Live,
                            !.asks = Ask(diag.seen, Live)]
    /\ UNCHANGED <<toml, main, helper, dns>>

\* What via_isp hears of answers isp and doh: our proxy answers as DoH does.
Heard(asks, isp, doh) ==
    CASE asks = "isp" -> isp
      [] asks = "us" -> doh
      [] asks = "nobody" -> {}

\* Verdict is given for whatever is answered.
Check ==
    /\ diag.stage = "check"
    /\ diag' = NoDiag
    /\ UNCHANGED <<toml, main, helper, dns>>

---------------------------------------------------------------------------
(* The environment.                                                        *)

WindowKilled ==
    /\ "crash" \in Faults
    /\ main # Free
    /\ main' = Free
    /\ UNCHANGED <<toml, helper, dns, diag>>

HelperKilled ==
    /\ "crash" \in Faults
    /\ helper.stage # "off"
    /\ helper' = NoHelper
    /\ UNCHANGED <<toml, main, dns, diag>>

\* read_snapshot takes one older than STATUS_MAX_AGE for none.
SnapshotExpires ==
    /\ snap # "nothing"
    /\ helper.stage # "on"
    /\ snap' = "nothing"
    /\ UNCHANGED <<toml, main, helper, listed, redirected, recorded, diag>>

\* The user edits config.toml, or moves an older one there.
Edit ==
    /\ "edit" \in Faults
    /\ conf' \in Files
    /\ edited' = TRUE
    /\ UNCHANGED <<main, helper, dns, diag>>

\* Another network, or none, while resolv.conf is the network's
NetworkChanges ==
    /\ "unlisted" \in Faults
    /\ redirected = "no"
    /\ listed' = ~listed
    /\ UNCHANGED <<toml, main, helper, redirected, recorded, snap, diag>>

Next ==
    \/ \E c \in Configs : SaveConfig(c)
    \/ Write
    \/ \E id \in Profiles : StartProtection(id)
    \/ StartReturns
    \/ HelperLoads
    \/ HelperReconciles
    \/ HelperGivesUp
    \/ HelperRecords
    \/ HelperRedirects
    \/ HelperPublishes
    \/ StopProtection
    \/ \E who \in Askers : Diagnose(who)
    \/ ReadResolvers
    \/ Check
    \/ WindowKilled
    \/ HelperKilled
    \/ SnapshotExpires
    \/ Edit
    \/ NetworkChanges

Spec == Init /\ [][Next]_vars

---------------------------------------------------------------------------
(* Properties.                                                             *)

HasLoaded == helper.stage \in {"loaded", "ready", "taking", "taken", "on"}
JustLoaded == helper.stage = "loaded"

\* The threads, the helper and the files have their types.
TypeOK ==
    /\ edited \in BOOLEAN
    /\ main.do \in {"free", "save", "start"}
    /\ helper.stage \in {"off", "auth"} \/ HasLoaded
    /\ helper.profile \in Profiles \cup {""}
    /\ helper.upstreams \in Records
    /\ listed \in BOOLEAN
    /\ redirected \in {"no", "proxy", "other"}
    /\ {recorded, snap, diag.seen} \subseteq Records
    /\ diag.stage \in {"off", "reading", "check"}
    /\ diag.who \in AllAskers
    /\ diag.asks \in {"isp", "us", "nobody"}

\* What the window saved never leaves a helper with settings that would break
\* DNS, although a save is in place and may be cut short anywhere, a helper
\* whose authorisation outlasts start_protection reads the file while the next
\* save is under way, and no helper calls validate (config.rs, 152-164; main.rs
\* of the window, 77-81, 244-269).  Where the user edited the file, a helper
\* that redirects at least listens where it redirects to, and has an https
\* provider (dns-helper/src/main.rs, 356-362, 391-411).
LoadedValid ==
    /\ HasLoaded /\ ~helper.edited =>
         /\ helper.cfg.listen # "bad"
         /\ helper.cfg.providers # <<>>
         /\ \A p \in ToSet(helper.cfg.providers) :
              p = [name |-> TRUE, https |-> TRUE, bootstrap |-> TRUE]
    /\ helper.stage \in {"taken", "on"} =>
         /\ redirected = helper.cfg.listen /\ helper.cfg.listen # "bad"
         /\ helper.cfg.providers # <<>>
         /\ \A p \in ToSet(helper.cfg.providers) : p.https

\* The private IPv4 blocks: their first 16 bits, and how many such there are
PrivateBlocks == {<<10 * 256, 256>>, <<127 * 256, 256>>, <<172 * 256 + 16, 16>>,
                  <<192 * 256 + 168, 1>>, <<169 * 256 + 254, 1>>}
IsPrivate(a, b) ==
    \E blk \in PrivateBlocks : a * 256 + b \in blk[1]..blk[1] + blk[2] - 1

Octets == {U8[l] : l \in DOMAIN U8}
Decimal(n) == CHOOSE l \in DOMAIN U8 : U8[l] = n
ReverseName(a, b) == <<Decimal(b), Decimal(a), "in-addr", "arpa", "">>

\* Whatever is in the file and whatever profile is active, what only the local
\* network knows stays on its resolver: host names, the local suffixes, and
\* reverse lookups of the private blocks; of those only, unless the user's own
\* list says otherwise (policy.rs, 4-7, 54-74, 110-137).  ForcedRegardless
\* below is what the comment of force_doh says instead.
LocalStays ==
    JustLoaded =>
        /\ \A n \in Names :
             LET l == NormaliseStr(n) IN
             \/ Len(l) = 1
             \/ \E s \in LocalSuffixes, k \in 1..Len(l) :
                   s = SubSeq(l, k, Len(l))
             => Route(helper.policy, n) = "system"
        /\ \A a, b \in Octets :
             LET n == ReverseName(a, b) IN
             IF IsPrivate(a, b) THEN Route(helper.policy, n) = "system"
             ELSE helper.policy.default_doh =>
                    \/ Route(helper.policy, n) = "doh"
                    \/ \E s \in helper.policy.force_local :
                         SuffixMatches(NormaliseStr(n), s)

\* A profile only adds to what the user's settings send to DoH: nothing but
\* names that its own domains match, and never a name that the user forced to
\* the local resolver: "Add to the user's own always-DoH list, never replace
\* it." (config.rs, 205; policy.rs, 54-63)
ProfileOnlyAdds ==
    JustLoaded =>
        \A n \in Names :
            LET own == Route(helper.cfg.policy, n)
                now == Route(helper.policy, n)
                Matched(suffixes) ==
                    \E s \in suffixes : SuffixMatches(NormaliseStr(n), s)
            IN own # now =>
                 /\ own = "system" /\ now = "doh"
                 /\ Matched(Domains(helper.cfg, helper.profile))
                 /\ ~Matched(helper.cfg.policy.force_local)

\* `dns-helper diagnose' takes our own proxy for the network's resolver only
\* where a takeover recorded no resolver and our address is not PROXY_ADDR, and
\* asks nobody only where the network's file names nobody, or named nobody when
\* it was recorded, a killed helper's redirect included: "If we currently hold
\* resolv.conf, the file lists us, not the ISP" (dns-helper/src/main.rs,
\* 571-572); as long as no helper redirects between its two reads.
CommandComparesIsp ==
    diag.stage = "check" /\ diag.who = "command" =>
        /\ diag.asks = "us" => diag.seen = "empty" /\ diag.live = "other"
        /\ diag.asks = "nobody" => diag.seen = "empty" \/ diag.live = "empty"

\* The verdict that diagnose.rs gives for each case, of whatever the network's
\* resolver and DoH answer and whatever connects, with what was heard for the
\* network's own answer
VerdictTable ==
    \A isp, doh, live \in SUBSET Addresses :
        LET v == Verdict(Heard(diag.asks, isp, doh), doh, live)
            ispLive == \E a \in isp : a \in live
            dohLive == \E a \in doh : a \in live
        IN IF \E a \in Restricted : a \in isp \cup doh
           THEN v = "ContentRestrictionForced"
           ELSE /\ v = "ResolutionFailed" <=> isp = {} /\ doh = {}
                /\ v = "DnsInterference" <=> dohLive /\ ~ispLive
                /\ v = "BlockedBeyondDns" <=>
                     isp \cup doh # {} /\ ~dohLive /\ ~ispLive
                /\ v = "DivergentButHealthy" <=>
                     ispLive /\ dohLive /\ isp # doh
                /\ v = "Healthy" <=> ispLive /\ (isp = doh \/ ~dohLive)

\* The verdict of `dns-helper diagnose' is about the network's resolver, while
\* we hold resolv.conf and after a helper was killed, too: interference is said
\* exactly of one none of whose addresses connect beside a DoH answer that
\* does, beyond DNS of an answer and no connection at all (diagnose.rs, 6-8),
\* healthy of one that works while DoH agrees or does not work (253-258);
\* unless the file or the record named no resolver.  AgreeWhenHealthy below is
\* what the tables say of healthy instead.
VerdictRight ==
    /\ diag.stage = "check" /\ diag.who = "command"
    /\ diag.seen # "empty" /\ diag.live # "empty"
    => VerdictTable

---------------------------------------------------------------------------
(* Statements of the repository that some behaviour of the code refutes.   *)

\* "Suffixes forced onto DoH regardless of anything else. Game profile
\* domains land here." (policy.rs, 34-35)
ForcedRegardless ==
    JustLoaded =>
        \A n \in Names, s \in helper.policy.force_doh :
            SuffixMatches(NormaliseStr(n), s) => Route(helper.policy, n) = "doh"

\* "ISP and DoH agree and the addresses accept connections." (diagnose.rs, 82;
\* also 6 and 64, and README.md, 127)
AgreeWhenHealthy ==
    diag.stage = "check" =>
        \A isp, doh, live \in SUBSET Addresses :
            Verdict(isp, doh, live) = "Healthy" => isp = doh

\* invalid_toml_is_an_error_not_a_silent_default (config.rs, 258): what a
\* helper loads is the defaults only if nothing was ever saved.
NotSilentlyDefault == conf = <<>> => ~Loads(conf)

\* "Every provider carries literal bootstrap IPs alongside its URL. Once this
\* machine's resolv.conf points at our own proxy, resolving a provider hostname
\* the normal way would recurse straight back into us" (provider.rs, 3-5)
RedirectsUsable ==
    helper.stage \in {"taken", "on"} =>
        \A p \in ToSet(helper.cfg.providers) : p.bootstrap

\* "Use the recorded originals so the comparison is meaningful either way"
\* (dns-helper/src/main.rs, 571-572), where none were recorded
CommandNeverUs ==
    diag.stage = "check" /\ diag.who = "command" => diag.asks # "us"

\* "Prefer the resolvers recorded before takeover" (src-tauri/src/main.rs,
\* 307): the window's diagnosis asks the network's resolver, too.
WindowComparesIsp ==
    diag.stage = "check" /\ diag.who = "window" => diag.asks = "isp"

\* "Both resolvers answered, but no address accepts a connection."
\* (diagnose.rs, 89)
BothAnswered ==
    diag.stage = "check" =>
        \A isp, doh \in SUBSET Addresses :
            Verdict(isp, doh, {}) = "BlockedBeyondDns" => isp # {} /\ doh # {}

\* "fc00::/7 (unique local) and fe80::/10 (link local)" (policy.rs, 140)
LinkLocalStays ==
    JustLoaded =>
        \A n \in {"8", "9", "a", "b"} :
            Route(helper.policy, <<"1", n, "e", "f", "ip6", "arpa", "">>)
                = "system"

=============================================================================
