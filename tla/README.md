# Detour: a TLA+ model of the DNS takeover, the proxy, the tunnel and the filter bypass

Detour redirects a Linux desktop's DNS to a local proxy that resolves over
HTTPS, and routes chosen applications through a WireGuard tunnel.  A root
helper (`dns-helper`) changes system state (`/etc/resolv.conf`, routes,
nftables); an unprivileged Tauri window drives it through `pkexec`.  There is
no daemon that owns that state and no lock: every invocation reads what is on
disk or in the kernel and acts on it, and any of them may be killed anywhere.
That is what these specifications are about.

## 1. Inventory

| Component | State | Operations | Hard behaviours | What makes it correct |
|---|---|---|---|---|
| resolv.conf takeover (`dns-helper/src/resolvconf.rs`) | `resolv.conf`, backup, `state.json`, NetworkManager drop-in | `reconcile_after_crash`, `take_over`, `restore` | kill between any two system calls, two helpers at once, pid reuse, NetworkManager writing the same file | whatever is on disk can be undone; the original is never lost; the drop-in comes and goes with the takeover |
| helper commands (`dns-helper/src/main.rs`) | process, port, signal handler | `run`, `restore`, `stop`, `status`, `filter-route`, `tunnel`, `diagnose` | SIGTERM before the handler, stop's timeout, commands that overlap | stop and status tell the truth; SIGTERM restores |
| status snapshot (`dns-helper/src/status.rs`) | `/run/detour/status.json` | write every 750 ms, read with a maximum age, clear | a write that completes after `abort` | a dead helper is not reported as alive |
| per-application tunnel (`dns-helper/src/tunnel.rs`) | interface, routes, rules, nftables table, key file | `up`, `down`, `is_up` | a step failing, a kill between steps, overlapping helpers, cgroup lifetime | fails closed, rolls back, "up" means marked |
| window commands (`src-tauri/src/main.rs`) | anchor unit, slice, holding scopes, filter state | protection, settings, tunnel, launch, attach, filter, diagnosis | checks that are stale when used, commands that overlap | an application launched in the tunnel is in it; what the page shows is so |
| DoH resolver (`dns-core/src/resolver.rs`) | cache behind a mutex | `resolve`, `resolve_uncached` | concurrent misses, failing providers | answers the question, falls back, always answers |
| response cache (`dns-core/src/cache.rs`) | map from name and type to message, time, lifetime | `get`, `insert`, eviction, `purge_expired` | expiry at a boundary, eviction, floor and ceiling | never late, never fresher than it is, bounded |
| upstream forwarder (`dns-helper/src/upstream.rs`) | one socket per attempt | `forward`, `try_one` | loss, delay, duplication, timeouts | a client gets the reply to its query, or SERVFAIL |
| DNS proxy (`dns-helper/src/proxy.rs`) | policy, query log | `handle`, UDP and TCP loops | truncation limits, log capacity | every query is answered with its own id |
| routing policy (`dns-core/src/policy.rs`) | lists of suffixes | `route` | label boundaries, private ranges, precedence | local names never leave, public ones go to DoH |
| configuration (`dns-core/src/config.rs`, `provider.rs`) | a TOML file | load, validate, save, migrate | in-place save | a saved file loads again |
| filter bypass (`filter_route.rs`, `dpi_proxy.rs`, window) | two listeners, `running` flag, redirect table | start, stop, route on/off, connections | late store of the flag, redirect without listener, partial first reads | the flag tells whether the ports are served; the server gets the handshake that was sent |
| ClientHello fragmentation (`dpi.rs`) | none | `sni_split_offset`, `fragment_client_hello` | boundaries of lengths | reassembles to the same bytes |
| application capture (`apps.rs`, attach) | cgroups of processes | `migrate`, `capture_flatpak`, `idle_holds` | forks during a move | a moved application is moved whole |
| diagnosis (`diagnose.rs`) | none | `check`, `conclude` | partial answers | the verdict follows from the answers |
| front end (`dist/app.js`) | what the window shows | polling, toggles | overlapping toggles | shows what the helper reports |

Interactions: the window starts helpers with `pkexec` and reads the snapshot;
`run` reconciles the takeover, records the system's nameservers for the
forwarder, binds the proxy, takes over, publishes; the proxy asks the policy
and then the resolver or the forwarder; the tunnel and the filter redirect
share one systemd slice, whose cgroup both nftables tables match.

`PROJECT.json` lists every component with its status and every hazard at its
line.

## 2. Modules

| Module | Models | Runs |
|---|---|---|
| `Takeover` | `resolvconf.rs`; `run`, `restore`, `stop` of `main.rs`; the snapshot's owner | through `MCTakeover` |
| `DnsSwitch` | what a takeover promises: an atomic switch with an undo record | refined by `Takeover` |
| `TakeoverProofs` | theorems about `Takeover` | `tlapm` |
| `WgConf` | parsing of WireGuard configurations and `with_endpoint` of `tunnel.rs` | used by `Tunnel` |
| `Tunnel` | `tunnel.rs`, the window's tunnel and import commands, systemd's slice, the kernel's objects | through `MCTunnel` |
| `TunnelProofs` | theorems about `Tunnel` | `tlapm` |
| `Resolver` | `resolver.rs` over `cache.rs`, as `handle` calls it | through `MCResolver` |
| `ResolverProofs` | theorems about `Resolver` | `tlapm` |
| `Forwarder` | `upstream.rs` and the network | used by `Proxy`; alone through `MCForwarder` |
| `ForwarderProofs` | theorems about `Forwarder` | `tlapm` |
| `Policy` | `policy.rs` | used by `Proxy` and `Window` |
| `Proxy` | `proxy.rs` over `Forwarder` and `Policy`; the status writer's reads of its log | through `MCProxy` |
| `ProxyProofs` | theorems about `Proxy` | `tlapm` |
| `Diagnose` | the verdict of `diagnose.rs` | used by `Window` |
| `Window` | `config.rs`; protection, settings and diagnosis of the window, and the helper they start | through `MCWindow` |
| `WindowProofs` | theorems about `Window`, `Policy` and `Diagnose` | `tlapm` |
| `Dpi` | `dpi.rs` | used by `Filter` |
| `Filter` | the window's filter commands, `dpi_proxy.rs`, `filter_route.rs` | through `MCFilter` |
| `FilterProofs` | theorems about `Filter` | `tlapm` |
| `Apps` | `apps.rs`, launch and attach of the window, `attach` of `main.rs` | itself |
| `AppsProofs` | theorems about `Apps` | `tlapm` |

### Takeover

An element of `Procs` is a pid.  Each invocation has a program counter, the
command it runs, and what it has read (`seen`, `body`); `resolv`, `backup`,
`state`, `dropin`, `snap` are the files, `port` the bound socket.  One action
is one system call or one group of reads, so that `Crash` can fall between any
two of them; `write_atomic` is one step because its rename is.  A crash also
stands for every error the code returns with `?` to `main`, which ends the
process.  File contents are abstracted to whose they are: the system's
(`Bodies`, or `Link` with `LinkBody` behind it), ours (`Redirect`), or none.
`sys` is a ghost: what the system itself last put there.  The listen address
is one port, `TakeoverState` keeps the pid, whether there was a link and
whether the drop-in was written; corrupt state files are not modelled
(`state.json` is only ever written atomically).

`Faults` selects what the environment may do: kills, removals that fail, a
status snapshot that cannot be written or removed, NetworkManager, pid reuse,
and overlap.  Without `"overlap"` an invocation
enters the section between `reconcile_after_crash` and the end of `take_over`,
or a `restore`, only when no other is in such a section.  The code does not
ensure this; runs and theorems that need it say so, and `Takeover_overlap` and
`Takeover_inactive` drop it.

### Tunnel

`UpSteps` and `DownSteps` are the two command lists, a command named by what
it adds to the kernel.  `Needs`, `Removes` and `Works` say when `ip`, `wg` and
`nft` succeed and what they do; they are the external part, as are systemd's
slice (`SliceWithout`, `Logout`) and the loss of an interface.  A cgroup is a
generation number, because nft resolves the slice's path when the ruleset is
loaded, and `nft` is a set of them, because a ruleset that could not be deleted
gets a second rule.  `MaxCgroups` bounds how often the slice is made.  Several
addresses are one `addr` step.  Optional commands fail only on hosts without
IPv6 unless `"optfail"` is a fault.  Any command of `down` in `Failing` may
fail, whoever runs it (`up` before it starts, its rollback, `down`), and the
next ones run all the same; the history variable `missed` collects which have
failed in the `down()` under way.  `LaunchSpawn` is the `systemd-run --scope` launch;
Flatpak capture and holds are in `Apps`.

The file `wg` is a sequence of lines of `WgConf`: a section, a key with a
value, or something that is neither.  `Parse` is `WgConfig::parse`, a recursive
function over the lines.  An import (`Import`, `InstallWrites`) validates a text and
then writes it in place, so a kill leaves a prefix of it (`CutShort`), and two
imports at once overwrite each other (`Over`); every bring-up parses what is
there at that moment.

### Resolver

A task is one call of `Proxy::handle` for a name that goes to DoH.  It looks
up, releases the mutex, waits for providers one after the other (`QueryOne`,
whose outcome is any message in `Answers` or an error), and inserts.  A
message is its response code and, per section, the set of its TTLs.  Time is
the age of each entry in ticks; the age stops at the lifetime, beyond which
the code cannot tell ages apart, so the clock needs no bound.  Eviction picks
any entry with the least time left, because `min_by_key` over a hash map
breaks ties arbitrarily.

### Forwarder and Proxy

A task opens a socket on an ephemeral port per attempt; packets are a set, and
may be lost, delayed past the timeout and duplicated.  `PortReuse` says
whether the kernel may give out a port while a packet of its last owner is on
the way.  The bytes of a reply are the query they answer.

`Proxy` extends `Forwarder`: a task accepts a query, asks `Route` once, and
goes on as a forwarding task, step by step, or as one that waits for the
resolver, which ends as `Resolver` says it does, in a message or an error.  A
query is its transport, whether it parses, its id, name and advertised size; a
reply is what it is and the id its bytes carry.  `Count` and `Push` are the two
halves of `QueryLog::push`, so that the status writer's two reads
(`SnapshotReads`) can fall between them.  Truncation is checked for every
length in `Sizes` in every state in which a reply is sent; a reply that is cut
keeps its question, of up to `MaxQuestion` bytes.  Replies with more than one
question are left out.

### Window, Policy and Diagnose

`config.toml` is a sequence of items (`ToToml`); a save empties the file and
then writes it, so that a helper whose authorisation took its time may load it
in between, and `Short` is what a full disk leaves.  `Edit` is the user, who may
put any of `Files` there, an older version's file or one with settings the page
would refuse; `edited` says that the file, or what a helper has loaded, is not
of the window's writing.  What the load makes of a file is `Load`, defaults for
missing fields included; the helper never calls `Validate`, and refuses only
what `run` refuses on its way: a listen address that does not parse and
providers none of which can be built.  A domain name is a sequence of labels.

The helper is reduced to its stages up to the takeover.  `redirected` is the
address of ours that `resolv.conf` names, if any, `recorded` and `snap` what
`state.json` and the snapshot say of the resolvers: nothing, an empty list, or
some.  A list can be empty because the network's own file names no resolver
(`"unlisted"`), and because `parse_nameservers` leaves out our own address,
which it knows only as `PROXY_ADDR`.  How a takeover is done is `Takeover`'s
subject.  A diagnosis (`Diagnose`, `ReadResolvers`) is the window's, which reads
the snapshot, or the command's, which reads the record; what each falls back to
and whom it then asks is followed.  `Verdict` is compared with the table in
`diagnose.rs` for all answers and all reachable addresses.

### Filter and Dpi

`filter_start` spawns a task that binds two ports and ends when either
listener does; `filter_stop` clears the handle, aborts the task and returns,
so the ports come free later (`TaskDropped`) and the next start may come
before that.  A task's last line clears the flag, whoever has started since;
the history variable `late` says that one has.  The redirect is a number of
rules, because `nft -f` of an existing table adds to it and a failed
`nft delete table` is ignored.  One connection is
followed through `Dial`, `FirstRead` and `Copy`; what `FirstRead` returns is
any prefix in `Reads`, and `FragmentClientHello` works on its bytes.  A
CONNECT request is what `Requests` says of it; heads over 8192 bytes, whose
rest would be spliced as the first flight, are left out.  Offsets in `Dpi`
count from 1.  A flight is any bytes.  If one is said to hold a name,
`HelloAssumption` requires it to be a ClientHello as applications build it:
one record, with the extensions at `exts` up to the one that gives the name
(`NamedAt`), and the name nowhere else in it.

### Apps

The processes of one application, each in a cgroup with a parent and a user,
and its sockets, which keep the cgroup they were created in.  `cmd` is the one
command at work for this application (`attach`, or a launch with its capture
sweeps), `prune` the idle check made by another application's launch.  In a
round of attach, `/proc` is read process by process and in any order
(`ReadsStat`), then the tree is computed from that table (`FindsTree`), then the
owner of each of its processes is read (`ReadsOwner`), then each fresh one is
moved: forks, exits, changes of user and connections fall between any two of
these steps, and between the sweeps and moves of a capture.  The list of roots
(`pgrep`), a sweep's list of a scope and the list of `ss` are one step each.

What a process does is as free as `Faults` lets it: its children go to init
(during a capture only with `"orphan"`) or to an ancestor in the application
that adopts them (`"reaper"`: bwrap, or a subreaper); it drops to another user, or starts a child
as another one, also as the user again (`"setuid"`: `sudo`, `sudo -u`); it
becomes the user's again itself (`"regain"`); it hands a connection to another
process (`"handover"`).  `OwnTree` is the application as the user's: what is
reached from the roots through processes of the user's.  What root's processes
start is not in it, whoever owns it.

## 3. Runs

Bounds.  Two pids (three where overlap is the question) reach every pair of
invocations that meet, since an invocation that has ended frees its pid; two
helpers of the tunnel overlap the same way, any number in `RestIsComplete`; two
file bodies tell an old original from a new one; three
cgroup generations (`MaxCgroups`) tell current, previous and older apart where
rules outlive them, one is enough for helpers that overlap.  These start from
a `wg.conf` that a kill cut short or two imports mixed (`MCSpoilt`).  For the
cache, TTLs of 0 to 9 seconds with
a floor of 1, a negative lifetime of 2 and a ceiling of 2 or 4 put
records below, between and above all limits, half-second ticks show the
rounding, and a capacity of two with three or four keys makes evictions
choose.  Two servers and two ports are enough for a lookup to move on while
another takes its port.  The proxy's two queries at a time (`MaxQueries`) come
from a name for DoH, two local names over UDP and TCP, and one that does not
parse; the advertised sizes lie below 512 and above 4096, the replies at each
limit and one above; the log holds one entry (`LogCapacity`, 500 in the code)
so that the second evicts.  Settings are saved
that differ from the defaults in every field the policy reads, and others that
the page refuses; the files of the user's hand (`MCFiles`) lack fields, have a
provider without a bootstrap address or without https, or no valid address, and
what a save leaves when it stops short need not parse.  A hello has its 38 fixed bytes
(`Preamble`), and first reads end before, at and behind every length field of
it; the code's 16 KiB buffer is larger than any flight.  Two starts of the
filter (`MaxStarts`) let one bind while the task before it goes or stores its
FALSE; the refuted statements take three.  Rules stack up to two (`MaxRules`).
Three processes (`MaxProcs`) are a parent, a child and a grandchild; attach
looks twice (`Rounds`, 5 in the code), which is enough to run out of rounds.
Symmetry (of pids and tasks) is used only where no liveness or refinement is
checked.

| Run | Expect | Shows |
|---|---|---|
| `Takeover_serial` | pass | `TypeOK`, `Undoable`, `BackupGenuine`, `StartsFromSystem` under kills, failing removals and snapshots and pid reuse; `Takeover` implements `DnsSwitch` |
| `Takeover_overlap` | pass | with no lock, three runs: one takeover at a time, the recorded owner holds the port |
| `Takeover_term` | pass | a handled SIGTERM leads to a restored `resolv.conf`; NetworkManager never meets a redirected file (`NMHeldOff`) |
| `Takeover_stop` | violation | SIGTERM before the handler: "DNS restored" is printed and is not so |
| `Tunnel_closed` | pass | `FailsClosed`, `RollbackComplete` under failing steps of `up` and failing commands of `down` (all but `nft delete table`), kills, interface loss and logout |
| `Tunnel_overlap` | pass | two unsynchronised helpers on a host without IPv6, of which a rule may not be deleted, beside an import: they never settle on a half-built tunnel and leave no key file (`AtRestComplete`, `KeyNotLeft`); what wg is handed is what the file says, cut short or mixed up or not (`WgFaithful`) |
| `Resolver_ttl` | pass | age, countdown and identity of what is served |
| `Resolver_race` | pass | capacity, eviction order and fallback with concurrent misses; every question is answered |
| `Proxy_serve` | pass | own reply and own id, all servers tried before SERVFAIL, replies that fit, a log and a snapshot that add up, every query answered |
| `Window_settings` | pass | what the window saved gives a helper valid settings, whatever interrupts the save, and what the user edited at least what `run` checks itself; local names stay local under every policy; a profile only adds, and no name the user forced local; the command line's diagnosis asks the network's resolver, not our proxy, through kills, empty records and both kinds of listen address, and its verdict is the one for each case of answers |
| `Filter_splice` | pass | the handshake arrives unchanged in other records and the name is cut; the flag and the listeners agree, however early the next start, except where an ended task stores its FALSE after it; ports come free |
| `Apps_move` | pass | an attach that found nothing fresh has the whole tree of the user's, through forks, exits that orphan children and changes of user while `/proc` is read, and no old connection to the outside is left; a settled capture has all of the Flatpak |

More statements of the repository are written down next to these, each refuted
by the configuration named here.  They are run by hand (`tlc -config
<configuration> <module>`).  Most check one invariant or action property of
the module, with the faults that it names; `Window_refuted.cfg`,
`Filter_refuted.cfg` and `Apps_refuted.cfg` list several, each of which is
refuted on its own, with the fault it needs.

| Statement | Configuration | What TLC shows |
|---|---|---|
| `NeverLeftWithout` | `Takeover_absent.cfg` | killed in `restore` of a link: no `resolv.conf` until the next run or restore |
| `UserDropinKept` | `Takeover_userdropin.cfg` | backup without state: `restore` deletes the user's drop-in |
| `LinkKept` | `Takeover_link.cfg` | backup without state: the link becomes a regular file |
| `LastWriteKept` | `Takeover_nm.cfg` | a NetworkManager write between backup and drop-in is lost |
| `InactiveUntouched` | `Takeover_inactive.cfg` | `restore` overlapping a start: redirected with no state file |
| `DropinRemoved` | `Takeover_orphan.cfg` | killed between drop-in and state file: the drop-in stays for good |
| `UpMeansMarked` | `Tunnel_crash.cfg` | a kill during `up` leaves the interface and no marking rule |
| `UpMeansMarked` | `Tunnel_logout.cfg` | "up" is only the interface: unmarked launches after a logout |
| `KeyNotLeft` | `Tunnel_key.cfg` | an early return leaves the private key on disk |
| `FailsClosed` | `Tunnel_ipv6.cfg` | an optional IPv6 step that fails with IPv6 on leaves IPv6 open |
| `FailsClosed` | `Tunnel_teardown.cfg` | `nft delete table` fails and is ignored, then the rules go: marked packets leave directly |
| `WgWhole` | `Tunnel_torn.cfg` | a kill during an import, or two imports, leave a text nobody imported that still parses |
| `EndpointsKept` | `Tunnel_peers.cfg` | two peers: both get the first one's resolved endpoint |
| `AllCountedDown` | `Resolver_additional.cfg` | additional records are not counted down |
| `NeverCrossMatched` | `Forwarder_reuse.cfg` | a late reply reaches another lookup on the same port |
| `NotSilentlyDefault` | `Window_refuted.cfg` | killed between emptying and writing: the empty file loads as the defaults |
| `RedirectsUsable` | `Window_refuted.cfg` | a provider that the user entered without a bootstrap address: the helper never validates, and redirects with nobody it can reach without DNS |
| `CommandNeverUs` | `Window_refuted.cfg` | a takeover that recorded no resolver, and a listen address other than 127.0.0.53: the command asks our own proxy |
| `WindowComparesIsp` | `Window_refuted.cfg` | a diagnosis between a helper's redirect and its first snapshot, or after a killed helper's snapshot expired: the window asks nobody (127.0.0.53 is left out of what it reads) or, with another listen address, our own proxy |
| `BothAnswered` | `Window_refuted.cfg` | one resolver answered, nothing connects: the explanation says both did |
| `LinkLocalStays` | `Window_refuted.cfg` | link-local reverse names go to DoH: three characters are compared with a prefix of two |
| `ForcedRegardless` | `Window_refuted.cfg` | a profile domain above a local name: the name stays local (`policy.rs:60`), although "Suffixes forced onto DoH regardless of anything else. Game profile domains land here." (`policy.rs:34`); the comment of `route` (`policy.rs:55`) has the order of the code |
| `AgreeWhenHealthy` | `Window_refuted.cfg` | DoH is dead and the ISP answers: the verdict is Healthy (`diagnose.rs:258`), although "ISP and DoH agree" (`diagnose.rs:82`, also 6 and 64; the repository's README, line 127) |
| `StartLasts`, `FlagExact` | `Filter_refuted.cfg` | stop, then start at once: the new task finds the ports still held and ends; its last line clears the flag of a third that serves |
| `RedirectServed` | `Filter_refuted.cfg` | the filter stops and the redirect stays |
| `OneRule` | `Filter_refuted.cfg` | two `filter_route_on` at once stack two rules; one alone does where the table could not be deleted |
| `NoLoop` | `Filter_refuted.cfg` | a window that runs in the slice: its own connections are redirected to itself |
| `LaunchedFiltered` | `Filter_refuted.cfg` | a browser that is open in the slice takes the new window without the proxy flag |
| `Unchanged` | `Filter_refuted.cfg` | a hello without SNI is split in the middle (`dpi.rs:93`), although it "is returned unchanged" (`dpi.rs:72-73`); the comment at 91-92 has what the code does |
| `WholeTreeMoved` | `Apps_refuted.cfg` | a process whose entry was read is adopted by an ancestor that was read before its children were, or becomes the user's again after its owner was read: it is missed |
| `OldConnectionsReset` | `Apps_refuted.cfg` | a child that was not moved keeps a connection whose moved owner exits, or passes it on, before `ss` lists it; or `ss` fails and its empty list is taken |
| `PruneSpares` | `Apps_refuted.cfg` | a hold is found idle, filled by a capture, then stopped |
| `AllMoved` | `Apps_refuted.cfg` | a child whose parent has exited is no descendant; the rounds may not be enough |
| `OwnProcessesOnly` | `Apps_refuted.cfg` | a process changes its user between the check and the move |
| `NothingOutside` | `Apps_refuted.cfg` | `ss` does not list sockets that are not connected |
| `CaptureSettled` | `Apps_refuted.cfg` | a Flatpak that fills its scope after the sweeps settled, or past 20 seconds; a child in it whose parent exits between a sweep's list and its move |

The violation run states what a message to the user says; `PROJECT.json` quotes
the line.  Each property of a passing run has a mutant:
an operator beside the definition it replaces, marked "Mutant", that a
plausible slip in the code would amount to.

Deadlock is checked where a new invocation is always possible.  The runs of
`Filter` and `Apps` do not check it: their bounded numbers of starts,
connections and processes run out.  The type invariants of the modules without
a `TypeOK` row are there for the proofs, which establish them.

### Fairness

`Takeover!Fairness`: a live process takes its next step (weak fairness of
`Progress`), a received signal wakes `select!` (weak fairness of `Serve` with
`sig`), and an invocation that the no-overlap assumption makes wait is
eventually let in (strong fairness of the two steps that wait; without the
assumption they never wait).  `Serve` without a signal is not fair: a helper
may serve forever.  `Resolver` and `Proxy`: a spawned task is polled until
it ends, and timeouts fire; nothing is assumed of providers or of the network.
`Filter`: tokio polls a task that is ready and drops one that was aborted (weak
fairness of `Bind`, `TaskEnds` and `TaskDropped`); nothing is assumed of the
user's commands.  `StopFrees` needs no more than that.

## 4. Proofs

The theorems hold for every value of the constants that satisfies the named
assumptions of the module, which TLC evaluates in every run of it.  A theorem
that needs a fault left out says so in its ASSUME, and needs it: allowed alone,
each of these faults makes TLC find the statement violated (for
`AlwaysHeldOff` together with `"nm"`; for `"regain"` together with `"setuid"`,
since a process that never changed its user has nothing to regain).  The proof
that the steps preserve an invariant goes action by action.

`TakeoverProofs` (`PidAssumption`, `BodiesAssumption`, `CommandsAssumption`):

- `TypeCorrect`: `Spec => []TypeOK`.
- `OneTakeover`: `Spec => []TakeoversSerialised`, overlap included.  The
  inductive invariant `PortInv` says that an invocation past `bind` holds the
  port until it ends; two invocations in `take_over` would both hold it.
- `OwnerAnswers`: `Spec => []OwnerHoldsPort`, overlap included, without
  `"pidreuse"`.  `OwnerInv` adds to `PortInv` that the pid in the state file,
  and in what an invocation is about to write there, is that of an invocation
  past `bind` or of one that has ended.
- `AlwaysUndoable`, `AlwaysGenuine`, `AlwaysStartsFromSystem`,
  `AlwaysHeldOff`: without `"overlap"`.  None of them is inductive.
  `SerialInv` adds what makes them so: `Exclusive` (at most one invocation is
  in the file section), `FilesSafe` (the three statements about the files
  alone, proved together because each needs the others) and `Knows` (what that
  invocation has read agrees with the files at its program counter).
- `TakeoverIsSwitch`: `Spec => SwitchSpec`, without `"overlap"` and `"nm"`:
  `Takeover` implements `DnsSwitch` under the mapping `Switch`.  `AgreeInv`
  says that the file, where it is the system's, the backup and what an
  invocation holds in memory are all the system's one choice; each action then
  maps to one step of `DnsSwitch` or to a stutter.

`TunnelProofs` (`CgroupsAssumption`, `TextsAssumption`, `FailingAssumption`):
`TypeCorrect`, and

- `UpRollsBack`: `Spec => RollbackComplete`, without `"overlap"`, whatever
  commands of `down` fail.  `TurnsInv` says that one helper is at work, and that
  what it has undone so far is gone but for what is in `missed`.
- `NoMarkedLeak`: `Spec => []FailsClosed`, without `"overlap"` and
  `"optfail"`, and where `nft delete table` works (`"nft" \notin Failing`; the
  code ignores its failure, and `Tunnel_teardown.cfg` shows the leak).
  `ClosedInv` says that the ruleset is loaded only while what blocks marked
  packets (`Guards`) is in place: it is the last command of `up` and the first
  of `down`.
- `RestIsComplete`: `Spec => []AtRestComplete`, for any number of overlapping
  helpers, without `"crash"` and where `ip link del` works
  (`"link" \notin Failing`).  `RestInv`: an interface that is there belongs to
  a whole tunnel, or some helper is still undoing, or is building it.
- `KeyRemoved`: `Spec => []KeyNotLeft`, without `"crash"` and `"writefail"`.
- `HandedFaithfully`: `Spec => []WgFaithful`, with no fault left out, for texts
  of any lines and any length.  `WgInv` says that the file is a sequence of
  lines whatever kills and overlapping imports have made of it.  `ReadTo` says
  what `Parse` has after its first n lines: the allowed ones in their order,
  found again by their number (`UpTo`), and for each peer whether its key was
  seen.  It holds for every n by the first line after which it would not, in
  place of an induction.

`ResolverProofs`: one invariant, `ResolverInv`, carries all its theorems.
`CacheInv` says of every entry that its key, lifetime and age are those its
message deserves and that there are at most `Capacity`; `TaskOf` says at each
stage of a task what it has asked, which providers have failed it and what it
holds.

- `TypeCorrect`, `CacheBounded`, `AnswersTheQuestion`, `NeverStale`,
  `NeverFresher`, `FailureIsLast` state `TypeOK`, `Bounded`,
  `AnswersQuestion`, `ServedInTime`, `CountedDown` and `LastResort`, with no
  fault left out.  They rest on lemmas about the minimum of a set of TTLs and
  about rounding: the code counts down in whole seconds what is measured in
  ticks.
- `LiveStays`: `Spec => LiveKept`.

An attempt at `NeverStale` showed that `ServedInTime` as first stated was
false: an NXDOMAIN that carries the CNAMEs that led to it is negative for the
code, which keeps it for `NEGATIVE_TTL` whatever the TTLs of the aliases.  The
property now says so.

`ForwarderProofs`, for every set of tasks, queries and ports and any number of
servers:

- `TriesAllServers`: `ForwarderSpec => []AllServersTried`.  The invariant
  `Tried` says that the failures of a lookup are exactly the servers before
  the one it tries.
- `RepliesAreOwn`: `ForwarderSpec => []OwnReply`, under `~PortReuse`.  The
  reply's id is never compared, so the argument is about ports: `Owned` says
  that no two tasks hold one port and that whatever is on the way to a task's
  port is about its query.  Where the kernel reuses a port too early the
  statement is false (`Forwarder_reuse.cfg`, section 3).

`ProxyProofs` carries them to the proxy, for every policy and log size
(`ServersAssumption`, `PortsAssumption`, `QueriesAssumption`,
`ProxyAssumption`):

- `ImplementsForwarder`: `Spec => ForwarderSpec`, step by step, hence
  `ProxyOwnReply` (under `~PortReuse`) and `ProxyTriesAll`.
- `ProxyOwnId` and `ProxyFitsClient`, under `~PortReuse`, the second for any
  `Sizes \subseteq Nat`.  The invariant `Serving` ties each stage of `handle` to
  the forwarder's state of the same task and to the id and kind of its
  response; `ProxyFitsClient` adds what `clamp` and the truncation compute.
- `ProxyLogAccounts` and `ProxySnapshotCounts`, for any finite `Tasks` (the
  pending pushes are counted).  `Logging` is the log's account with its types;
  `Reading` says that the writer has read no more entries than had been
  counted, which holds across the two reads because the counter never falls.

`WindowProofs`, for every set of settings, profiles and names:

- `SettingsValid`: `Spec => []LoadedValid`, for any `Files` the user may put
  there.  `SettingsInv` says that what is in the file, unless it is of the
  user's writing, or about to be written was saved from settings that
  `validate` accepts, whole or cut short, so that what `Load` makes of it,
  defaults included, is valid again.  Of a file that the user wrote there is
  only what `run` itself refuses (`HelperInv`): a helper that redirects does so
  to where it listens, with providers over https; that it can reach one of them
  without DNS is refuted (`RedirectsUsable`).
- `LocalNamesLocal` and `ProfilesAdd`: `LocalStays` and `ProfileOnlyAdds`, by
  lemmas about `NormaliseStr`, `SuffixMatches` and `Route` for names of any
  length.  A user's list that mentions `arpa` keeps public reverse names local,
  as it should; a name that the user forced local stays so under any profile,
  because `force_local` is tested first.
- `CommandAsksIsp`: `CommandComparesIsp`, without `"overlap"`.  `DiagInv`: a
  redirect always has its record beside it.  The record may be empty, and the
  statement says what is asked then.
- `VerdictsHold`: `VerdictRight`, without `"overlap"`: the cases of the table
  over the answers, about what `CommandAsksIsp` says was asked.  Where the table
  and the code differ, the statement follows the code (`AgreeWhenHealthy`).

The names need assumptions on strings.  `LowerAssumption` and `U8Assumption`
say what `LowerCase` and `U8` are; `LiteralsAssumption` says that the labels
spelt out in `policy.rs` are strings, which is true but nothing the provers
know; `SettingsAssumption` and `DefaultAssumption` give the settings their
types and say that the defaults are valid (a test of `config.rs`);
`FilesAssumption` gives the edited files theirs.

`FilterProofs`, for any number of starts, of overlapping runs of
`filter_route_on` and of flights (`FilterAssumption`): `TypeCorrect`, which
bounds the rules that stack up where the table can be deleted (without
`"undeleted"`), and `ListenersOwned`: `Spec => []RunningTruthful`, with no fault
left out and however early the next start.  `FlagInv` says that while the flag
is set `filter_stop` has a task to abort; `TaskOf`, that a task that is not gone
was aborted or is the one of the handle, with the flag set, unless an ended
task stored its FALSE after a newer start (`late`).  The code lets that happen:
`FlagExact`, which has no such exception, is refuted (`Filter_refuted.cfg`).

`HandshakeIntact`: `Spec => []SameHandshake`, for every flight of bytes, every
size of the first read and wherever `CutOf` cuts.  `Bodies` is a recursive
function over positions of the stream.  That it has a solution, and that what
it gives from a position on depends only on the bytes from there on
(`SameRest`), is shown by the least position that would be a counterexample,
in place of an induction.  Hence a whole record in front adds its body and no
more (`BodiesFirst`), the two records of a cut hello give the body of the one
(`FragmentKeeps`), and `HandshakeInv` says that what went up is the first read,
cut, and then also the rest.  This needs nothing of the walk to the name: it
holds whatever offset the walk returns, because `CutOf` checks it.

`NameNeverShown`: `Spec => []NameSevered`, for names of any length and hellos
with any extensions before the one with the name (`HelloAssumption`).  That the
name occurs only there is a hypothesis on what applications send, and the
theorem needs it: the code cuts one occurrence, and a second one, in another
extension or by chance, leaves in one piece.  The walk from the first extension
comes to that of the name, by the last extension from which it would not
(`WalkToName`); the cut is then strictly inside the name (`CutInName`); what
is sent is exactly two records (`RecordsOfTwo`), of which neither shows the
name, because a record that did would show it at a second place of the hello
(`NeitherHasIt`).  `SeveredInv` carries this through the connection: a hello
that came in one read was counted once, and nothing follows it.

`AppsProofs`, for any number of processes, sockets and rounds
(`AppsAssumption`):

- `TypeCorrect`.
- `TreeMoved`: `Spec => []WholeTreeMoved`, without `"reaper"` and
  `"regain"`.  `Descendants` is the least set that holds the roots and is closed
  under children, and no induction over the tree is available, so the argument
  is by the first process born that is outside: its parent was born before it,
  is therefore inside, and a child of a process inside is born inside.
  A scan takes many steps, in which processes are born that it may or may not
  see.  `Scan` says that there is a set of processes, those born when the scan
  began, such that a process of the user's tree in it is still to be read, is
  in the table under its parent, or was found (`Read`), and that one born later
  is where its parent is (`Born`).  A scan that found nothing fresh has then
  the whole tree inside.  `AttachInv` adds what has been moved (`MovedIn`) and
  that the tree found complete stays so (`TreeIn`).
- `ConnectionsReset`: `Spec => []OldConnectionsReset`, without `"reaper"`,
  `"regain"`, `"handover"` and `"ssfail"`, from the same invariant: a process
  that was not moved has an old connection only together with its parent
  (`Inherits`, `Known`), hence with one that was moved, whose sockets `ss` is
  asked for; so what is still open is on the list (`Pending`).
- `CaptureComplete`: `Spec => []CaptureSettled`, without `"orphan"`,
  `"reaper"` and `"slow"`.  `CaptureInv`: what a sweep has left in the scope was
  born during it of a process that it is about to move (`Unswept`), so a sweep
  that moves nothing has left nothing.

Only model-checked:

- `TermRestores`, `Answered`, `EveryQueryAnswered` and `StopFrees`: liveness
  under fairness is beyond the prover.
- the statements of section 3 that the code refutes: they are counterexamples,
  not invariants.

## 5. Not modelled

Bytes on the wire and in files except the ClientHello, log lines, HTTP and TLS
(a provider is its outcome), the WireGuard protocol, polkit's decision beyond
yes or no, layout of the window and its polling, packaging.  Commands that only
read (`status`, `providers`, `lookup`, the lists of applications, traffic
counters) appear only through what they would print; the updater,
`launch_game`, `test_provider`, the rename of the old configuration directory
and the provider presets change nothing the properties speak of.  The parsing
of `ps`, `pgrep` and `ss` output, and which destinations are local, are what
they return in `Apps`; the list of roots, a sweep's list of a scope and the list
of `ss` are each taken in one step.  In `Filter`, heads of a CONNECT over 8192
bytes are left out.  In `Proxy`, TCP carries one query per connection, and a
reply has at most one question.  A
hazard no property covers has a note in `PROJECT.json`: the code refutes the
statement that would (section 3), or the repository claims none.

## 6. Plan

Done: all modules of section 2, and a theorem for every invariant and every
safety property of a run.

Left:

- the statements of section 3 that the code refutes.  Where the code is changed
  so that one holds (a lock between helpers, a rule removed with the filter),
  it becomes an invariant of a passing run and is then worth a theorem;
- the parts marked "partly" in `PROJECT.json`;
- the liveness properties, which stay with TLC: the prover has no `ENABLED`.
