------------------------------ MODULE Tunnel ------------------------------
(***************************************************************************)
(* The per-application WireGuard tunnel: up, down and is_up of             *)
(* crates/dns-helper/src/tunnel.rs, driven by tunnel_up, tunnel_down,      *)
(* launch_in_tunnel and install_config of src-tauri/src/main.rs.           *)
(*                                                                         *)
(* Its settings are in wg.conf; all other state is in the kernel: the      *)
(* interface, routes and rules (objs), the nftables table (nft) and the    *)
(* cgroup of the tunnel slice (cg).  nft binds its rule to the cgroup that *)
(* exists when it is loaded, so cgroups are told apart by a generation     *)
(* number; 0 stands for none.  Each command of up_steps and down_steps is  *)
(* one step of one root process.                                           *)
(***************************************************************************)
EXTENDS WgConf, FiniteSets

CONSTANTS
    Procs,      \* process ids of `dns-helper tunnel up/down'
    Faults,     \* what the environment may do, a subset of AllFaults
    Failing,    \* the commands of down_steps that may fail
    IPv6,       \* the host has IPv6 enabled
    MaxCgroups, \* bound on the cgroups the slice is given over time
    Importers,  \* the commands that may install a configuration
    Texts,      \* the configurations they are given
    Kept        \* what an earlier session may have left in wg.conf

\* "stepfail":  a required command of up_steps fails, or one cannot be spawned
\* "optfail":   an optional command fails although the host has IPv6 (a kernel
\*              without IPv6 policy routing, say)
\* "writefail": the ruleset cannot be written next to the WireGuard settings
\* "crash":     a helper is killed between two commands, or the window while
\*              it writes a file
\* "overlap":   a helper or an import starts while another is at work
\* "linkloss":  something else deletes the interface
\* "logout":    the user manager stops, with every unit of the user
AllFaults == {"stepfail", "optfail", "writefail", "crash", "overlap",
              "linkloss", "logout"}

ASSUME TunnelFaultsAssumption == Faults \subseteq AllFaults
ASSUME IPv6Assumption == IPv6 \in BOOLEAN
ASSUME CgroupsAssumption == MaxCgroups \in Nat
ASSUME TextsAssumption == Texts \cup Kept \subseteq Seq(Line)

VARIABLES
    objs,       \* interface, routes and rules present in the kernel
    nft,        \* generations of the cgroups the loaded rules match
    cg,         \* generation of the slice's cgroup
    gens,       \* cgroups created so far
    anchor,     \* the anchor unit is running
    app,        \* generation of the cgroup a launched application is in
    launching,  \* launch_in_tunnel has passed its checks
    keyfile,    \* /run/detour/wg-setconf.conf, with the private key, exists
    phase,      \* what each process is doing
    idx,        \* the command of the list it is at
    missed,     \* history: the commands of its down() that have failed so far
    wg,         \* wg.conf
    importing   \* what each import has left to write

kernel == <<objs, nft>>
slice  == <<cg, gens, anchor, app, launching>>
store  == <<wg, importing>>
helpers == <<phase, idx, missed>>
vars   == <<kernel, slice, keyfile, helpers, store>>

---------------------------------------------------------------------------
(* The two command lists.  A command of up_steps is named by what it adds. *)

UpSteps == <<"link", "setconf", "addr", "linkup", "route4", "block4", "rule4",
             "block6", "rule6", "nft">>

OptionalSteps == {"block6", "rule6"}

\* Mutant: the interface is left standing.
DownStepsKeepLink == <<"nft", "rule4", "rule6", "flush4", "flush6">>

\* Mutant: the ruleset goes last.
DownStepsRulesetLast == <<"rule4", "rule6", "flush4", "flush6", "link", "nft">>

\* The ruleset goes first: nothing is marked while the rest is taken apart.
DownSteps == <<"nft", "rule4", "rule6", "flush4", "flush6", "link">>

ASSUME FailingAssumption == Failing \subseteq {DownSteps[i] : i \in 1..Len(DownSteps)}

Needs(s) == CASE s \in {"setconf", "addr", "linkup"} -> {"link"}
              [] s = "route4"                        -> {"linkup"}
              [] OTHER                               -> {}

Removes(s) == CASE s = "rule4"  -> {"rule4"}
                [] s = "rule6"  -> {"rule6"}
                [] s = "flush4" -> {"route4", "block4"}
                [] s = "flush6" -> {"block6"}
                [] s = "link"   -> {"link", "setconf", "addr", "linkup", "route4"}
                [] s = "nft"    -> {}

\* The command exits with success: what it adds is not there yet (setting
\* the peers or the link state again is harmless), what it needs is.
Works(s) ==
    /\ Needs(s) \subseteq objs
    /\ s \in objs => s \in {"setconf", "linkup"}
    /\ s \in OptionalSteps => IPv6
    /\ s = "nft" => cg # 0

Objects == {UpSteps[i] : i \in 1..Len(UpSteps)} \ {"nft"}
Phases  == {"idle", "clear", "write", "up", "rollback", "down",
            "stop_anchor"}

AllIdle == \A p \in Procs : phase[p] = "idle"

\* No lock is taken; "overlap" drops the assumption that helpers take turns.
MayStart == "overlap" \in Faults \/ AllIdle

---------------------------------------------------------------------------
Init ==
    /\ objs = {}
    /\ nft = {}
    /\ cg = 0
    /\ gens = 0
    /\ anchor = FALSE
    /\ app = 0
    /\ launching = FALSE
    /\ keyfile = FALSE
    /\ phase = [p \in Procs |-> "idle"]
    /\ idx = [p \in Procs |-> 1]
    /\ missed = [p \in Procs |-> {}]
    /\ wg \in Kept
    /\ importing = [w \in Importers |-> <<>>]

At(p, ph, i) ==
    /\ phase' = [phase EXCEPT ![p] = ph]
    /\ idx' = [idx EXCEPT ![p] = i]

\* systemd makes the slice's cgroup with its first unit.
EnsureAnchor ==
    /\ anchor' = TRUE
    /\ IF cg = 0
       THEN gens < MaxCgroups /\ gens' = gens + 1 /\ cg' = gens + 1
       ELSE UNCHANGED <<gens, cg>>

\* and removes it with the last one.
SliceWithout(anchored, application) ==
    cg' = IF ~anchored /\ application = 0 THEN 0 ELSE cg

---------------------------------------------------------------------------
(* up.                                                                     *)

\* tunnel_up: if there is a configuration, ensure_anchor, then `pkexec
\* dns-helper tunnel up', which loads it and whose up() begins with down(); or
\* the user is not authorised, or it does not load, and only the anchor is
\* there
TunnelUp(p) ==
    /\ phase[p] = "idle"
    /\ MayStart
    /\ wg # Absent
    /\ EnsureAnchor
    /\ \/ Parse(wg).ok /\ At(p, "clear", 1)
       \/ UNCHANGED <<phase, idx>>
    /\ UNCHANGED <<kernel, app, launching, keyfile, missed, store>>

\* What a command of down_steps takes out of the kernel
Undoes(s) ==
    /\ objs' = objs \ Removes(s)
    /\ nft' = IF s = "nft" THEN {} ELSE nft

\* What has failed of this pass over the list
MissedBefore(p) == IF idx[p] = 1 THEN {} ELSE missed[p]

\* Mutant: the first command that fails ends the pass.
DownStepStops(p) ==
    LET s == DownSteps[idx[p]] IN
    IF MissedBefore(p) = {}
    THEN \/ Undoes(s) /\ missed' = [missed EXCEPT ![p] = {}]
         \/ s \in Failing /\ UNCHANGED kernel /\ missed' = [missed EXCEPT ![p] = {s}]
    ELSE UNCHANGED <<kernel, missed>>

\* One command of down_steps: it removes what is there, or it fails, or cannot
\* be spawned, which is ignored.
DownStep(p) ==
    LET s == DownSteps[idx[p]] IN
    \/ Undoes(s) /\ missed' = [missed EXCEPT ![p] = MissedBefore(p)]
    \/ /\ s \in Failing
       /\ missed' = [missed EXCEPT ![p] = MissedBefore(p) \cup {s}]
       /\ UNCHANGED kernel

Clear(p) ==
    /\ phase[p] = "clear"
    /\ DownStep(p)
    /\ IF idx[p] < Len(DownSteps) THEN At(p, "clear", idx[p] + 1)
                                  ELSE At(p, "write", 1)
    /\ UNCHANGED <<slice, keyfile, store>>

\* resolve_endpoint_v4 and the two write_private calls; each may return Err
WriteFiles(p) ==
    /\ phase[p] = "write"
    /\ \/ keyfile' = TRUE /\ At(p, "up", 1)
       \/ "stepfail" \in Faults /\ At(p, "idle", 1) /\ UNCHANGED keyfile
       \/ "writefail" \in Faults /\ keyfile' = TRUE /\ At(p, "idle", 1)
    /\ UNCHANGED <<kernel, slice, missed, store>>

\* Mutant: the early return forgets the file with the private key.
FailKeepingKey(p) == At(p, "rollback", 1) /\ UNCHANGED keyfile

\* A required command failed: remove the file with the private key, roll back.
UpFails(p) == At(p, "rollback", 1) /\ keyfile' = FALSE

\* One command of up_steps
UpStep(p) ==
    LET s == UpSteps[idx[p]] IN
    /\ phase[p] = "up"
    /\ \/ /\ Works(s)
          /\ s # "nft"
          /\ objs' = objs \cup {s}
          /\ At(p, "up", idx[p] + 1)
          /\ UNCHANGED <<nft, keyfile>>
       \/ /\ Works(s)
          /\ s = "nft"
          /\ nft' = nft \cup {cg}
          /\ At(p, "idle", 1)
          /\ keyfile' = FALSE
          /\ UNCHANGED objs
       \/ /\ ~Works(s) \/ "optfail" \in Faults
          /\ s \in OptionalSteps
          /\ At(p, "up", idx[p] + 1)
          /\ UNCHANGED <<kernel, keyfile>>
       \/ /\ \/ s \notin OptionalSteps /\ ~Works(s)
             \/ "stepfail" \in Faults
          /\ UpFails(p)
          /\ UNCHANGED kernel
    /\ UNCHANGED <<slice, missed, store>>

Rollback(p) ==
    /\ phase[p] = "rollback"
    /\ DownStep(p)
    /\ IF idx[p] < Len(DownSteps) THEN At(p, "rollback", idx[p] + 1)
                                  ELSE At(p, "idle", 1)
    /\ UNCHANGED <<slice, keyfile, store>>

---------------------------------------------------------------------------
(* down.                                                                   *)

\* tunnel_down: `pkexec dns-helper tunnel down'
TunnelDown(p) ==
    /\ phase[p] = "idle"
    /\ MayStart
    /\ At(p, "down", 1)
    /\ UNCHANGED <<kernel, slice, keyfile, missed, store>>

Down(p) ==
    /\ phase[p] = "down"
    /\ DownStep(p)
    /\ IF idx[p] < Len(DownSteps) THEN At(p, "down", idx[p] + 1)
                                  ELSE At(p, "stop_anchor", 1)
    /\ UNCHANGED <<slice, keyfile, store>>

\* the helper is done; tunnel_down stops the anchor unit
StopAnchor(p) ==
    /\ phase[p] = "stop_anchor"
    /\ anchor' = FALSE
    /\ SliceWithout(FALSE, app)
    /\ At(p, "idle", 1)
    /\ UNCHANGED <<kernel, gens, app, launching, keyfile, missed, store>>

---------------------------------------------------------------------------
(* Applications.                                                           *)

\* is_up: the interface is in /sys/class/net
IsUp == "link" \in objs

\* launch_in_tunnel: refused unless is_up, and while the app already runs
LaunchCheck ==
    /\ ~launching
    /\ IsUp
    /\ app = 0
    /\ launching' = TRUE
    /\ UNCHANGED <<kernel, cg, gens, anchor, app, keyfile, helpers, store>>

\* ensure_anchor, then systemd-run --scope --slice
LaunchSpawn ==
    /\ launching
    /\ EnsureAnchor
    /\ app' = cg'
    /\ launching' = FALSE
    /\ UNCHANGED <<kernel, keyfile, helpers, store>>

AppExits ==
    /\ app # 0
    /\ app' = 0
    /\ SliceWithout(anchor, 0)
    /\ UNCHANGED <<kernel, gens, anchor, launching, keyfile, helpers, store>>

---------------------------------------------------------------------------
(* Installing a configuration: tunnel_import_text and tunnel_import_config *)
(* on the main thread, tunnel_generate_warp beside them.                   *)

\* install_config: what does not parse is refused; fs::write empties the file
\* first.
InstallConfig(w, text) ==
    /\ importing[w] = <<>>
    /\ "overlap" \in Faults \/ \A v \in Importers : importing[v] = <<>>
    /\ Parse(text).ok
    /\ wg' = <<>>
    /\ importing' = [importing EXCEPT ![w] = text]
    /\ UNCHANGED <<kernel, slice, keyfile, helpers>>

\* A writer writes from the start of the file, over what is there.
Over(text, file) == text \o SubSeq(file, Len(text) + 1, Len(file))

InstallWrites(w) ==
    /\ importing[w] # <<>>
    /\ \E text \in {importing[w]} \cup
                  (IF "crash" \in Faults THEN CutShort(importing[w]) ELSE {}) :
         wg' = Over(text, wg)
    /\ importing' = [importing EXCEPT ![w] = <<>>]
    /\ UNCHANGED <<kernel, slice, keyfile, helpers>>

---------------------------------------------------------------------------
(* The environment.                                                        *)

Crash(p) ==
    /\ "crash" \in Faults
    /\ phase[p] # "idle"
    /\ At(p, "idle", 1)
    /\ UNCHANGED <<kernel, slice, keyfile, missed, store>>

\* The kernel drops the routes of an interface that goes away.
LinkLost ==
    /\ "linkloss" \in Faults
    /\ "link" \in objs
    /\ objs' = objs \ Removes("link")
    /\ UNCHANGED <<nft, slice, keyfile, helpers, store>>

\* user@.service stops: the slice and all that ran in it are gone, the
\* kernel state root made is not.
Logout ==
    /\ "logout" \in Faults
    /\ cg # 0
    /\ cg' = 0
    /\ anchor' = FALSE
    /\ app' = 0
    /\ launching' = FALSE
    /\ UNCHANGED <<kernel, gens, keyfile, helpers, store>>

Next ==
    \/ \E p \in Procs :
         \/ TunnelUp(p)
         \/ Clear(p)
         \/ WriteFiles(p)
         \/ UpStep(p)
         \/ Rollback(p)
         \/ TunnelDown(p)
         \/ Down(p)
         \/ StopAnchor(p)
         \/ Crash(p)
    \/ \E w \in Importers, text \in Texts : InstallConfig(w, text)
    \/ \E w \in Importers : InstallWrites(w)
    \/ LaunchCheck
    \/ LaunchSpawn
    \/ AppExits
    \/ LinkLost
    \/ Logout

Spec == Init /\ [][Next]_vars

---------------------------------------------------------------------------
(* Properties.                                                             *)

\* The application's packets carry the mark: the ruleset matches its cgroup.
Marked == app \in nft

\* Where an IPv4 packet to the internet goes once it is marked.
MarkedFate ==
    CASE "rule4" \notin objs -> "direct"
      [] "rule4" \in objs /\ "route4" \in objs -> "tunnel"
      [] "rule4" \in objs /\ "route4" \notin objs /\ "block4" \in objs -> "dropped"
      [] OTHER -> "direct"

\* The kernel's objects, the slice and the processes have their types.
TypeOK ==
    /\ objs \subseteq Objects
    /\ nft \subseteq 1..gens
    /\ cg \in {0, gens}
    /\ gens \in 0..MaxCgroups
    /\ anchor \in BOOLEAN
    /\ app \in {0, cg}
    /\ launching \in BOOLEAN
    /\ keyfile \in BOOLEAN
    /\ phase \in [Procs -> Phases]
    /\ idx \in [Procs -> 1..Len(UpSteps)]
    /\ \A p \in Procs : phase[p] # "up" => idx[p] <= Len(DownSteps)
    /\ missed \in [Procs -> SUBSET Failing]
    /\ importing \in [Importers -> {<<>>} \cup Texts]

\* While the ruleset that marks packets is loaded no marked packet can take
\* the normal path, IPv4 or IPv6, whichever step failed, was interrupted or
\* was undone behind the tunnel's back (tunnel.rs, 16-18).  An `nft delete
\* table' that fails while the rules go is the exception (Tunnel_teardown.cfg).
FailsClosed ==
    nft # {} => /\ MarkedFate # "direct"
                /\ IPv6 => {"block6", "rule6"} \subseteq objs

\* Each object and rule that is left is one whose own command failed.
OnlyMissed(failed) ==
    /\ objs \subseteq UNION {Removes(s) : s \in failed}
    /\ nft # {} => "nft" \in failed

\* An up that fails and was not killed leaves nothing in the kernel, not even
\* what an earlier one left: it "rolls back completely if any required step
\* fails" (tunnel.rs, 348-350), save what a command of its last down() failed to
\* remove.  No failure keeps another command from being run (391-395).
RollbackComplete ==
    [][\A p \in Procs :
         (WriteFiles(p) \/ UpStep(p) \/ Rollback(p)) /\ phase'[p] = "idle" =>
            (phase[p] = "up" /\ cg \in nft') \/ OnlyMissed(missed[p])']_vars

\* Helpers take no lock, and two of them at once may leave the kernel half
\* built for a moment; but whichever finishes last, an interface that is left
\* standing is a complete tunnel: marked packets go into it.  (One up that
\* loses the race fails a required step and rolls everything back; only an
\* `ip link del' that fails leaves the interface without the rest.)
AtRestComplete ==
    AllIdle /\ IsUp => nft # {} /\ MarkedFate = "tunnel"

\* The section that line i of a text is in
SectionAt(text, i) ==
    LET heads == {j \in 1..i : IsSection(text[j])} IN
        IF heads = {} THEN "" ELSE text[CHOOSE j \in heads : \A k \in heads : k <= j].section

Allowed(text, i) ==
    \/ IsSection(text[i])
    \/ IsPair(text[i]) /\ text[i].key \in
         (IF SectionAt(text, i) = "peer" THEN PeerKeys ELSE InterfaceKeys)

\* How many lines of a set are up to i
UpTo(S, i) == Cardinality({j \in S : j <= i})

AllowedLines(text) == {i \in DOMAIN text : Allowed(text, i)}

\* The peer whose section starts at i has its public key by line n.
Keyed(text, i, n) ==
    \E j \in i + 1..n :
        /\ IsPair(text[j]) /\ text[j].key = "publickey"
        /\ \A k \in i + 1..j : ~IsSection(text[k])

\* Whatever was imported, cut short or mixed up, what wg is given of a file
\* that loads is its sections with the keys wg knows, each in its section and
\* in order, and every peer has its public key: hooks "must never run as root
\* just because a file said so" (tunnel.rs, 45-47, 95-190).
WgFaithful ==
    LET setconf == Parse(wg).setconf
        lines == AllowedLines(wg)
    IN  Parse(wg).ok =>
          /\ Len(setconf) = Cardinality(lines)
          /\ \A i \in lines : setconf[UpTo(lines, i)] = wg[i]
          /\ \A i \in DOMAIN wg : wg[i] = Section("peer") => Keyed(wg, i, Len(wg))

\* When no helper is at work and the interface is there, so that the window
\* shows the tunnel as up, an application launched in it is marked
\* (src-tauri/src/main.rs, 817-818).
UpMeansMarked == AllIdle /\ IsUp /\ app # 0 => Marked

\* "The private key has been handed to the kernel; do not leave a copy."
\* (tunnel.rs, 380)
KeyNotLeft == AllIdle => ~keyfile

\* "Validate and store a WireGuard config" (main.rs of the window, 566): what
\* loads later is what was validated.
WgWhole == Parse(wg).ok => wg \in Texts \cup Kept

\* endpoint_line_is_replaced_and_nothing_else (tunnel.rs, 502): every peer but
\* the one whose endpoint was resolved keeps its own.
EndpointsKept ==
    LET c == Parse(wg) IN
        c.ok => Cardinality({i \in DOMAIN c.setconf :
                                HandedToWg(c, "v4")[i] # c.setconf[i]}) <= 1

===========================================================================
