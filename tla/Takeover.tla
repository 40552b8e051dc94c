----------------------------- MODULE Takeover -----------------------------
(***************************************************************************)
(* The takeover of /etc/resolv.conf by dns-helper                          *)
(* (crates/dns-helper/src/resolvconf.rs) and the invocations that drive it *)
(* (run, restore and stop of crates/dns-helper/src/main.rs, the status     *)
(* snapshot of status.rs).                                                 *)
(*                                                                         *)
(* An element of Procs is a process id.  Several invocations may be alive  *)
(* at once and share four files and one UDP/TCP port; no lock serialises   *)
(* them.  One action is one system call (or one group of reads) of one     *)
(* invocation, so a kill may fall between any two of them.                 *)
(*                                                                         *)
(* write_atomic (temporary file, fsync, rename) is one step: a reader, or  *)
(* a crash, sees the old file or the new one.                              *)
(***************************************************************************)
EXTENDS Naturals, FiniteSets

CONSTANTS
    Procs,      \* process ids of the invocations of dns-helper
    NoPid,      \* pid 0, which process_is_alive calls dead
    Bodies,     \* contents a network manager or the user gives resolv.conf
    Commands,   \* the commands that are invoked, a subset of AllCommands
    Faults      \* what the environment may do, a subset of AllFaults

AllCommands == {"run", "run_no_takeover", "restore", "stop"}

\* "crash":    an invocation dies between two steps (SIGKILL, power loss, a
\*             panic, or an error that main returns with `?')
\* "rmfail":   a remove_file whose result the code ignores fails
\* "overlap":  an invocation enters the section that changes the files while
\*             another one is in it
\* "nm":       NetworkManager rewrites resolv.conf on a connection change
\* "nostatus": writing or removing the status snapshot fails, which the code
\*             ignores
\* "pidreuse": the system gives a new process a pid that a file still names
AllFaults == {"crash", "rmfail", "overlap", "nm", "nostatus", "pidreuse"}

Redirect == "redirect"  \* the file take_over writes: nameserver 127.0.0.53
Link     == "link"      \* a symbolic link to the resolver's own file
LinkBody == "linkbody"  \* what reading through that link returns
Absent   == "absent"    \* no such file

ASSUME PidAssumption == NoPid \notin Procs
ASSUME BodiesAssumption ==
    /\ Bodies \cap {Redirect, Link, LinkBody, Absent} = {}
    /\ Bodies # {}
ASSUME CommandsAssumption == Commands \subseteq AllCommands
ASSUME FaultsAssumption == Faults \subseteq AllFaults

Originals == Bodies \cup {Link}         \* what the system itself puts there
Contents  == Bodies \cup {LinkBody}     \* what reading an original returns
Pids      == Procs \cup {NoPid}

VARIABLES
    resolv,     \* /etc/resolv.conf
    backup,     \* /var/lib/detour/resolv.conf.backup
    state,      \* /var/lib/detour/state.json
    dropin,     \* /etc/NetworkManager/conf.d/00-detour.conf
    snap,       \* /run/detour/status.json: the pid it names, NoPid if missing
                \* or older than the reader accepts
    port,       \* the process bound to the listen address
    sys,        \* ghost: what the system last put in resolv.conf itself
    pc,         \* where each invocation stands
    cmd,        \* the command it runs
    ctx,        \* who called restore, and so what its result leads to
    seen,       \* the TakeoverState it read or is building
    body,       \* the file contents it read
    sig,        \* SIGTERM is pending (the handler is installed)
    task        \* the status writer: "off", "on", or in its "last" write

files == <<resolv, backup, state, dropin>>
local == <<cmd, ctx, seen, body>>
vars  == <<files, snap, port, sys, pc, local, sig, task>>

---------------------------------------------------------------------------
(* Data.                                                                   *)

\* TakeoverState; the record with pid NoPid stands for "no state file".
TakeoverState == [pid : Pids, link : BOOLEAN, dropin : BOOLEAN]
NoState == [pid |-> NoPid, link |-> FALSE, dropin |-> FALSE]

\* fs::read_to_string follows a symbolic link.
ReadThrough(r) == IF r = Link THEN LinkBody ELSE r

RunCommands == {"run", "run_no_takeover"}

\* The stages of one invocation between which other processes may run.
ReconcilePcs == {"reconcile", "reconcile_alive", "nameservers", "bind",
                 "wait"}
TakeOverPcs  == {"t_state", "t_alive", "t_link", "t_read", "t_backup",
                 "t_dropin", "t_write_state", "t_redirect"}
RestorePcs   == {"r_exists", "r_state", "r_read", "r_unlink", "r_symlink",
                 "r_write", "r_dropin", "r_rmstate", "r_rmbackup"}
ServePcs     == {"publish", "handler", "serving", "clear"}
StopPcs      == {"s_snap", "s_state", "s_kill", "s_wait"}

Pcs == {"idle"} \cup ReconcilePcs \cup TakeOverPcs \cup RestorePcs
         \cup ServePcs \cup StopPcs

\* From reconcile_after_crash to the end of take_over, and inside restore, an
\* invocation reads the files and then acts on what it read.
Critical == ReconcilePcs \cup TakeOverPcs \cup RestorePcs

\* process_is_alive: kill(pid, 0) = 0.
ProcessIsAlive(q) == q \in Procs /\ pc[q] # "idle"

\* A signal that arrives now is queued for the handler rather than fatal.
HandlesTerm(q) ==
    /\ cmd[q] \in RunCommands
    /\ \/ pc[q] \in {"serving", "clear"}
       \/ pc[q] \in RestorePcs /\ ctx[q] = "exit"

\* The code takes no lock; that two invocations do not meet in the section is
\* an assumption on the environment, dropped when "overlap" is in Faults.
MayEnter(p) ==
    \/ "overlap" \in Faults
    \/ \A q \in Procs \ {p} : pc[q] \notin Critical

\* Some file, or the memory of some invocation, still names the pid.
Named(p) ==
    \/ state.pid = p
    \/ snap = p
    \/ \E q \in Procs \ {p} : seen[q].pid = p

---------------------------------------------------------------------------
Init ==
    /\ sys \in Originals
    /\ resolv = sys
    /\ backup = Absent
    /\ state = NoState
    /\ dropin \in {"nodir", "none", "user"}
    /\ snap = NoPid
    /\ port = NoPid
    /\ pc = [p \in Procs |-> "idle"]
    /\ cmd = [p \in Procs |-> "run"]
    /\ ctx = [p \in Procs |-> "none"]
    /\ seen = [p \in Procs |-> NoState]
    /\ body = [p \in Procs |-> Absent]
    /\ sig = [p \in Procs |-> FALSE]
    /\ task = [p \in Procs |-> "off"]

Goto(p, l) == pc' = [pc EXCEPT ![p] = l]

\* The process is gone: the kernel closes its sockets and drops its memory.
Vanish(p) ==
    /\ cmd' = [cmd EXCEPT ![p] = "run"]
    /\ ctx' = [ctx EXCEPT ![p] = "none"]
    /\ seen' = [seen EXCEPT ![p] = NoState]
    /\ body' = [body EXCEPT ![p] = Absent]
    /\ sig' = [sig EXCEPT ![p] = FALSE]
    /\ task' = [task EXCEPT ![p] = "off"]
    /\ port' = IF port = p THEN NoPid ELSE port

Exit(p) == Goto(p, "idle") /\ Vanish(p)

\* The program counter moves and nothing but the named files changes.
Step(p, l) == Goto(p, l) /\ UNCHANGED <<snap, port, sys, sig, task>>

---------------------------------------------------------------------------
(* Starting an invocation.                                                 *)

Invoke(p, c) ==
    /\ pc[p] = "idle"
    /\ "pidreuse" \in Faults \/ ~Named(p)
    /\ c # "stop" => MayEnter(p)
    /\ Goto(p, CASE c \in RunCommands -> "reconcile"
                 [] c = "restore"     -> "r_exists"
                 [] c = "stop"        -> "s_snap")
    /\ cmd' = [cmd EXCEPT ![p] = c]
    /\ ctx' = [ctx EXCEPT ![p] = IF c = "restore" THEN "command" ELSE "none"]
    /\ UNCHANGED <<files, snap, port, sys, seen, body, sig, task>>

---------------------------------------------------------------------------
(* ResolvManager::restore, called from four places.  On success the caller *)
(* goes on; NoBackup and I/O errors end the invocation in all of them.     *)

EnterRestore(p, caller) ==
    /\ ctx' = [ctx EXCEPT ![p] = caller]
    /\ Goto(p, "r_exists")

\* if !backup.exists(): drop a lingering state file, Err(NoBackup)
RestoreExists(p) ==
    /\ pc[p] = "r_exists"
    /\ \/ /\ backup # Absent
          /\ Step(p, "r_state")
          /\ UNCHANGED <<files, local>>
       \/ /\ backup = Absent
          /\ \/ state' = NoState
             \/ "rmfail" \in Faults /\ state' = state
          /\ Exit(p)
          /\ UNCHANGED <<resolv, backup, dropin, snap, sys>>

\* Mutant: the state file goes first, before resolv.conf is put back.
RestoreForgetsFirst(p) ==
    /\ pc[p] = "r_state"
    /\ seen' = [seen EXCEPT ![p] = state]
    /\ state' = NoState
    /\ Step(p, "r_read")
    /\ UNCHANGED <<resolv, backup, dropin, cmd, ctx, body>>

\* let state = self.read_state().ok().flatten()
RestoreReadState(p) ==
    /\ pc[p] = "r_state"
    /\ seen' = [seen EXCEPT ![p] = state]
    /\ Step(p, "r_read")
    /\ UNCHANGED <<files, cmd, ctx, body>>

\* let contents = fs::read(&backup)?, and the choice of how to put it back
RestoreReadBackup(p) ==
    /\ pc[p] = "r_read"
    /\ \/ /\ backup # Absent
          /\ body' = [body EXCEPT ![p] = backup]
          /\ Step(p, IF seen[p].link THEN "r_unlink" ELSE "r_write")
          /\ UNCHANGED <<files, cmd, ctx, seen>>
       \/ /\ backup = Absent
          /\ Exit(p)
          /\ UNCHANGED <<files, snap, sys>>

\* Mutant: the old link is removed and never made again.
RestoreUnlinkOnly(p) ==
    /\ pc[p] = "r_unlink"
    /\ resolv' = Absent
    /\ Step(p, "r_dropin")
    /\ UNCHANGED <<backup, state, dropin, local>>

\* let _ = fs::remove_file(&self.resolv_path)
RestoreUnlink(p) ==
    /\ pc[p] = "r_unlink"
    /\ \/ resolv' = Absent
       \/ "rmfail" \in Faults /\ resolv' = resolv
    /\ Step(p, "r_symlink")
    /\ UNCHANGED <<backup, state, dropin, local>>

\* symlink(&target, &self.resolv_path)?, which fails when the path exists
RestoreSymlink(p) ==
    /\ pc[p] = "r_symlink"
    /\ \/ /\ resolv = Absent
          /\ resolv' = Link
          /\ Step(p, "r_dropin")
          /\ UNCHANGED <<backup, state, dropin, local>>
       \/ /\ resolv # Absent
          /\ Exit(p)
          /\ UNCHANGED <<files, snap, sys>>

\* write_atomic(&self.resolv_path, &contents), the rename being the step
RestoreWrite(p) ==
    /\ pc[p] = "r_write"
    /\ resolv' = body[p]
    /\ Step(p, "r_dropin")
    /\ UNCHANGED <<backup, state, dropin, local>>

\* if state.is_none_or(|s| s.wrote_nm_dropin): remove the drop-in
RestoreDropin(p) ==
    /\ pc[p] = "r_dropin"
    /\ \/ /\ seen[p] = NoState \/ seen[p].dropin
          /\ dropin' = IF dropin = "nodir" THEN "nodir" ELSE "none"
       \/ /\ (seen[p] = NoState \/ seen[p].dropin) => "rmfail" \in Faults
          /\ dropin' = dropin
    /\ Step(p, "r_rmstate")
    /\ UNCHANGED <<resolv, backup, state, local>>

\* let _ = fs::remove_file(self.state_path())
RestoreRemoveState(p) ==
    /\ pc[p] = "r_rmstate"
    /\ \/ state' = NoState
       \/ "rmfail" \in Faults /\ state' = state
    /\ Step(p, "r_rmbackup")
    /\ UNCHANGED <<resolv, backup, dropin, local>>

\* let _ = fs::remove_file(&backup), then Ok(()) to the caller
RestoreRemoveBackup(p) ==
    /\ pc[p] = "r_rmbackup"
    /\ \/ backup' = Absent
       \/ "rmfail" \in Faults /\ backup' = backup
    /\ \/ /\ ctx[p] = "reconcile"
          /\ Step(p, "nameservers")
          /\ UNCHANGED local
       \/ /\ ctx[p] = "takeover"
          /\ Step(p, "t_link")
          /\ UNCHANGED local
       \/ /\ ctx[p] \in {"exit", "command"}
          /\ Exit(p)
          /\ UNCHANGED <<snap, sys>>
    /\ UNCHANGED <<resolv, state, dropin>>

Restore(p) ==
    \/ RestoreExists(p)
    \/ RestoreReadState(p)
    \/ RestoreReadBackup(p)
    \/ RestoreUnlink(p)
    \/ RestoreSymlink(p)
    \/ RestoreWrite(p)
    \/ RestoreDropin(p)
    \/ RestoreRemoveState(p)
    \/ RestoreRemoveBackup(p)

---------------------------------------------------------------------------
(* run, up to the takeover.                                                *)

\* Mutant: a recorded takeover is not looked at.
ReconcileSkipped(p) ==
    /\ pc[p] = "reconcile"
    /\ seen' = [seen EXCEPT ![p] = state]
    /\ Step(p, "nameservers")
    /\ UNCHANGED <<files, cmd, ctx, body>>

\* reconcile_after_crash: read_state
Reconcile(p) ==
    /\ pc[p] = "reconcile"
    /\ seen' = [seen EXCEPT ![p] = state]
    /\ Step(p, IF state = NoState THEN "nameservers" ELSE "reconcile_alive")
    /\ UNCHANGED <<files, cmd, ctx, body>>

\* reconcile_after_crash: Err(AlreadyActive) if the owner lives, or restore
ReconcileAlive(p) ==
    /\ pc[p] = "reconcile_alive"
    /\ \/ /\ ProcessIsAlive(seen[p].pid)
          /\ Exit(p)
          /\ UNCHANGED <<files, snap, sys>>
       \/ /\ ~ProcessIsAlive(seen[p].pid)
          /\ EnterRestore(p, "reconcile")
          /\ UNCHANGED <<files, snap, port, sys, cmd, seen, body, sig, task>>

\* manager.current_nameservers()?; the upstreams of the forwarder
CurrentNameservers(p) ==
    /\ pc[p] = "nameservers"
    /\ \/ /\ resolv # Absent
          /\ Step(p, "bind")
          /\ UNCHANGED <<files, local>>
       \/ /\ resolv = Absent
          /\ Exit(p)
          /\ UNCHANGED <<files, snap, sys>>

\* spawn proxy.serve(listen): the task binds the port, or fails to
Bind(p) ==
    /\ pc[p] = "bind"
    /\ port' = IF port = NoPid THEN p ELSE port
    /\ Goto(p, "wait")
    /\ UNCHANGED <<files, snap, sys, local, sig, task>>

\* Mutant: a failed bind goes unnoticed.
BindUnchecked(p) ==
    /\ pc[p] = "wait"
    /\ Step(p, IF cmd[p] = "run" THEN "t_state" ELSE "publish")
    /\ UNCHANGED <<files, local>>

\* 200 ms later: server.is_finished() if the bind failed
CheckServer(p) ==
    /\ pc[p] = "wait"
    /\ \/ /\ port = p
          /\ Step(p, IF cmd[p] = "run" THEN "t_state" ELSE "publish")
          /\ UNCHANGED <<files, local>>
       \/ /\ port # p
          /\ Exit(p)
          /\ UNCHANGED <<files, snap, sys>>

---------------------------------------------------------------------------
(* ResolvManager::take_over.                                               *)

\* if let Some(existing) = self.read_state()?
TakeOverReadState(p) ==
    /\ pc[p] = "t_state"
    /\ seen' = [seen EXCEPT ![p] = state]
    /\ Step(p, IF state = NoState THEN "t_link" ELSE "t_alive")
    /\ UNCHANGED <<files, cmd, ctx, body>>

TakeOverAlive(p) ==
    /\ pc[p] = "t_alive"
    /\ \/ /\ ProcessIsAlive(seen[p].pid)
          /\ Exit(p)
          /\ UNCHANGED <<files, snap, sys>>
       \/ /\ ~ProcessIsAlive(seen[p].pid)
          /\ EnterRestore(p, "takeover")
          /\ UNCHANGED <<files, snap, port, sys, cmd, seen, body, sig, task>>

\* symlink_metadata and read_link; a missing file is no link
TakeOverReadLink(p) ==
    /\ pc[p] = "t_link"
    /\ seen' = [seen EXCEPT ![p] =
                  [pid |-> p, link |-> (resolv = Link), dropin |-> FALSE]]
    /\ Step(p, "t_read")
    /\ UNCHANGED <<files, cmd, ctx, body>>

\* Mutant: the link itself is taken for the contents.
TakeOverReadsLink(p) ==
    /\ pc[p] = "t_read"
    /\ resolv # Absent
    /\ body' = [body EXCEPT ![p] = resolv]
    /\ Step(p, "t_backup")
    /\ UNCHANGED <<files, cmd, ctx, seen>>

\* let original = fs::read_to_string(&self.resolv_path)?
TakeOverReadOriginal(p) ==
    /\ pc[p] = "t_read"
    /\ \/ /\ resolv # Absent
          /\ body' = [body EXCEPT ![p] = ReadThrough(resolv)]
          /\ Step(p, "t_backup")
          /\ UNCHANGED <<files, cmd, ctx, seen>>
       \/ /\ resolv = Absent
          /\ Exit(p)
          /\ UNCHANGED <<files, snap, sys>>

\* write_atomic(&self.backup_path(), original)
TakeOverBackup(p) ==
    /\ pc[p] = "t_backup"
    /\ backup' = body[p]
    /\ Step(p, "t_dropin")
    /\ UNCHANGED <<resolv, state, dropin, local>>

\* Mutant: the drop-in is reported as written and is not.
TakeOverNoDropin(p) ==
    /\ pc[p] = "t_dropin"
    /\ seen' = [seen EXCEPT ![p].dropin = (dropin = "none")]
    /\ Step(p, "t_write_state")
    /\ UNCHANGED <<files, cmd, ctx, body>>

\* Mutant: resolv.conf is redirected before the state file is written.
TakeOverRedirectsEarly(p) ==
    /\ pc[p] = "t_dropin"
    /\ seen' = [seen EXCEPT ![p].dropin = (dropin = "none")]
    /\ dropin' = IF dropin = "none" THEN "ours" ELSE dropin
    /\ resolv' = Redirect
    /\ Step(p, "t_write_state")
    /\ UNCHANGED <<backup, state, cmd, ctx, body>>

\* write_nm_dropin: false without the directory or when the file exists
TakeOverDropin(p) ==
    /\ pc[p] = "t_dropin"
    /\ seen' = [seen EXCEPT ![p].dropin = (dropin = "none")]
    /\ dropin' = IF dropin = "none" THEN "ours" ELSE dropin
    /\ Step(p, "t_write_state")
    /\ UNCHANGED <<resolv, backup, state, cmd, ctx, body>>

\* write_atomic(&self.state_path(), &encoded)
TakeOverWriteState(p) ==
    /\ pc[p] = "t_write_state"
    /\ state' = seen[p]
    /\ Step(p, "t_redirect")
    /\ UNCHANGED <<resolv, backup, dropin, local>>

\* write_atomic(&self.resolv_path, body): resolution now goes to the proxy
TakeOverRedirect(p) ==
    /\ pc[p] = "t_redirect"
    /\ resolv' = Redirect
    /\ Step(p, "publish")
    /\ UNCHANGED <<backup, state, dropin, local>>

TakeOver(p) ==
    \/ TakeOverReadState(p)
    \/ TakeOverAlive(p)
    \/ TakeOverReadLink(p)
    \/ TakeOverReadOriginal(p)
    \/ TakeOverBackup(p)
    \/ TakeOverDropin(p)
    \/ TakeOverWriteState(p)
    \/ TakeOverRedirect(p)

---------------------------------------------------------------------------
(* run, from the first status snapshot to the exit.                        *)

\* The snapshot is written or removed, or that fails and nothing is done.
SnapshotSet(v) == snap' = v \/ ("nostatus" \in Faults /\ snap' = snap)

\* status_writer.write_once(), then spawn(status_writer.run())
Publish(p) ==
    /\ pc[p] = "publish"
    /\ Goto(p, "handler")
    /\ SnapshotSet(p)
    /\ task' = [task EXCEPT ![p] = "on"]
    /\ UNCHANGED <<files, port, sys, local, sig>>

\* signal(SignalKind::terminate())?
InstallHandler(p) ==
    /\ pc[p] = "handler"
    /\ Step(p, "serving")
    /\ UNCHANGED <<files, local>>

\* select!: SIGTERM, Ctrl-C, or the proxy stopped
Serve(p) ==
    /\ pc[p] = "serving"
    /\ Step(p, "clear")
    /\ UNCHANGED <<files, local>>

\* StatusWriter::run writes again every 750 ms; a failed write is a stutter
StatusTick(p) ==
    /\ task[p] = "on"
    /\ snap' = p
    /\ UNCHANGED <<files, port, sys, pc, local, sig, task>>

\* Mutant: the exit path leaves resolv.conf alone.
ClearWithoutRestore(p) ==
    /\ pc[p] = "clear"
    /\ snap' = NoPid
    /\ Exit(p)
    /\ UNCHANGED <<files, sys>>

\* status_task.abort() (a write already under way still completes),
\* status::clear, then restore if this run took over
Clear(p) ==
    /\ pc[p] = "clear"
    /\ SnapshotSet(NoPid)
    /\ \/ /\ cmd[p] = "run"
          /\ MayEnter(p)
          /\ EnterRestore(p, "exit")
          /\ \E t \in {"off", "last"} : task' = [task EXCEPT ![p] = t]
          /\ UNCHANGED <<files, port, sys, cmd, seen, body, sig>>
       \/ /\ cmd[p] # "run"
          /\ Exit(p)
          /\ UNCHANGED <<files, sys>>

LateStatusWrite(p) ==
    /\ task[p] = "last"
    /\ SnapshotSet(p)
    /\ task' = [task EXCEPT ![p] = "off"]
    /\ UNCHANGED <<files, port, sys, pc, local, sig>>

Run(p) ==
    \/ Reconcile(p)
    \/ ReconcileAlive(p)
    \/ CurrentNameservers(p)
    \/ Bind(p)
    \/ CheckServer(p)
    \/ Publish(p)
    \/ InstallHandler(p)
    \/ Clear(p)

---------------------------------------------------------------------------
(* stop.                                                                   *)

\* read_snapshot(STATUS_PATH, 10 s)
StopReadSnapshot(p) ==
    /\ pc[p] = "s_snap"
    /\ seen' = [seen EXCEPT ![p].pid = snap]
    /\ Step(p, IF snap = NoPid THEN "s_state" ELSE "s_kill")
    /\ UNCHANGED <<files, cmd, ctx, body>>

\* no helper: if a state file is left, restore
StopLeftover(p) ==
    /\ pc[p] = "s_state"
    /\ \/ /\ state = NoState
          /\ Exit(p)
          /\ UNCHANGED <<files, snap, sys>>
       \/ /\ state # NoState
          /\ MayEnter(p)
          /\ EnterRestore(p, "command")
          /\ UNCHANGED <<files, snap, port, sys, cmd, seen, body, sig, task>>

\* kill(pid, SIGTERM): no such process, queued for the handler, or fatal
StopKill(p) ==
    /\ pc[p] = "s_kill"
    /\ LET q == seen[p].pid IN
         \/ /\ ~ProcessIsAlive(q)
            /\ Exit(p)
            /\ UNCHANGED <<files, snap, sys>>
         \/ /\ ProcessIsAlive(q)
            /\ HandlesTerm(q)
            /\ sig' = [sig EXCEPT ![q] = TRUE]
            /\ Goto(p, "s_wait")
            /\ UNCHANGED <<files, snap, port, sys, local, task>>
         \/ /\ ProcessIsAlive(q)
            /\ ~HandlesTerm(q)
            /\ pc' = [pc EXCEPT ![p] = "s_wait", ![q] = "idle"]
            /\ Vanish(q)
            /\ UNCHANGED <<files, snap, sys>>

\* kill(pid, 0) failed: "Helper stopped and DNS restored."
StopReports(p) ==
    /\ pc[p] = "s_wait"
    /\ ~ProcessIsAlive(seen[p].pid)
    /\ Exit(p)
    /\ UNCHANGED <<files, snap, sys>>

\* 50 polls of 100 ms and the process is still there
StopTimesOut(p) ==
    /\ pc[p] = "s_wait"
    /\ ProcessIsAlive(seen[p].pid)
    /\ Exit(p)
    /\ UNCHANGED <<files, snap, sys>>

Stop(p) ==
    \/ StopReadSnapshot(p)
    \/ StopLeftover(p)
    \/ StopKill(p)
    \/ StopReports(p)

---------------------------------------------------------------------------
(* The environment.                                                        *)

\* The process dies here: killed, or an error returned with `?'.
Crash(p) ==
    /\ "crash" \in Faults
    /\ pc[p] # "idle"
    /\ Exit(p)
    /\ UNCHANGED <<files, snap, sys>>

\* A snapshot nobody refreshes grows older than the reader accepts.
SnapshotExpires ==
    /\ snap \in Procs
    /\ task[snap] # "on"
    /\ snap' = NoPid
    /\ UNCHANGED <<files, port, sys, pc, local, sig, task>>

\* A connection change; the drop-in and a link to another resolver's file
\* both keep NetworkManager from writing.
NetworkManagerRewrites ==
    /\ "nm" \in Faults
    /\ dropin = "none"
    /\ resolv # Link
    /\ \E b \in Bodies : b # resolv /\ resolv' = b /\ sys' = b
    /\ UNCHANGED <<backup, state, dropin, snap, port, pc, local, sig, task>>

---------------------------------------------------------------------------
\* The steps an invocation takes on its own once started.
Progress(p) == Restore(p) \/ Run(p) \/ TakeOver(p) \/ Stop(p)

Next ==
    \/ \E p \in Procs :
         \/ \E c \in Commands : Invoke(p, c)
         \/ Progress(p)
         \/ Serve(p)
         \/ StatusTick(p)
         \/ LateStatusWrite(p)
         \/ StopTimesOut(p)
         \/ Crash(p)
    \/ SnapshotExpires
    \/ NetworkManagerRewrites

Spec == Init /\ [][Next]_vars

\* A live process keeps running, and a signal it handles is received.  Where
\* the assumption MayEnter makes an invocation wait, the others do not keep it
\* waiting forever.
Fairness ==
    \A p \in Procs :
        /\ WF_vars(Progress(p))
        /\ WF_vars(sig[p] /\ Serve(p))
        /\ SF_vars(Clear(p))
        /\ SF_vars(StopLeftover(p))

FairSpec == Spec /\ Fairness

---------------------------------------------------------------------------
(* Properties.                                                             *)

FilesTyped ==
    /\ resolv \in Originals \cup Contents \cup {Redirect, Absent}
    /\ backup \in Contents \cup {Redirect, Absent}
    /\ state \in TakeoverState
    /\ dropin \in {"nodir", "none", "ours", "user"}
    /\ snap \in Pids
    /\ sys \in Originals

ProcsTyped ==
    /\ port \in Pids
    /\ pc \in [Procs -> Pcs]
    /\ cmd \in [Procs -> AllCommands]
    /\ ctx \in [Procs -> {"none", "reconcile", "takeover", "exit", "command"}]
    /\ seen \in [Procs -> TakeoverState]
    /\ body \in [Procs -> Contents \cup {Redirect, Absent}]
    /\ sig \in [Procs -> BOOLEAN]
    /\ task \in [Procs -> {"off", "on", "last"}]

\* The type of every file, of the kernel's objects and of each invocation's
\* memory.
TypeOK == FilesTyped /\ ProcsTyped

\* Whenever programs cannot reach the system's own resolver through
\* resolv.conf, because it is redirected or missing, the state file and a
\* backup are on disk, and if it is missing the state says that a link has to
\* be made: whoever calls restore next can undo it (resolvconf.rs, 5-11).
Undoable ==
    resolv \in {Redirect, Absent} =>
        /\ state # NoState
        /\ backup \in Contents
        /\ resolv = Absent => state.link

\* take_over never backs up the file it wrote itself: a run that follows a
\* crash finds the real file again before it reads the "original".
BackupGenuine == backup # Redirect

\* A run that got past reconcile_after_crash finds the system's own file, so
\* the upstreams it records are real: a crashed run "is detected as a crash
\* and undone before anything else" (README.md, 99-100).
StartsFromSystem ==
    \A p \in Procs : pc[p] = "nameservers" => resolv \notin {Redirect, Absent}

\* While resolv.conf is redirected NetworkManager is kept from rewriting it,
\* through every crash and restart (README.md, 101-103).
NMHeldOff == resolv = Redirect => dropin # "none"

\* At most one invocation is inside take_over, whatever else overlaps: the
\* port is bound first, and bound once.
TakeoversSerialised ==
    \A p, q \in Procs :
        pc[p] \in TakeOverPcs /\ pc[q] \in TakeOverPcs => p = q

\* A live process that the state file names holds the port: what
\* AlreadyActive refuses for is a helper that answers.
OwnerHoldsPort ==
    ProcessIsAlive(state.pid) => port = state.pid

\* SIGTERM, once the handler is installed, ends the helper with resolv.conf
\* no longer redirected (main.rs, 451).
TermRestores ==
    \A p \in Procs : sig[p] ~> (pc[p] = "idle" /\ resolv # Redirect)

Switch == INSTANCE DnsSwitch WITH
    chosen <- ReadThrough(sys),
    conf   <- ReadThrough(resolv),
    undo   <- state # NoState /\ backup = ReadThrough(sys)

\* With the sections of the invocations kept apart and nobody else writing
\* resolv.conf, every run, restore and stop, and every crash inside them,
\* is a use of the switch of DnsSwitch: the proxy is switched in only while
\* the way back is on disk, and what comes back is what the system chose.
SwitchSpec == Switch!Spec

---------------------------------------------------------------------------
(* Statements of the repository that some behaviour of the code refutes.   *)

AllIdle == \A p \in Procs : pc[p] = "idle"

\* "The system is never left without a working resolver.  Every write is
\* atomic" (resolvconf.rs, 5-7): no process is left and the file is there.
NeverLeftWithout == AllIdle => resolv # Absent

\* "A dns=none drop-in is installed while active and removed on restore"
\* (README.md, 101-103): nothing is left to undo and our drop-in is gone.
DropinRemoved ==
    AllIdle /\ state = NoState /\ backup = Absent => dropin # "ours"

\* "A pre-existing drop-in is never deleted." (README.md, 103)
UserDropinKept == [][dropin = "user" => dropin' = "user"]_vars

\* "so restore recreates the link rather than leaving a regular file behind"
\* (resolvconf.rs, 71-72).
LinkKept == AllIdle /\ sys = Link /\ state = NoState => resolv = Link

\* "Stop NetworkManager rewriting resolv.conf underneath us"
\* (resolvconf.rs, 249): what it wrote last is there when DNS is given back.
LastWriteKept == AllIdle /\ state = NoState => resolv = sys

\* stop reports "Helper stopped and DNS restored." (main.rs, 525)
StopTruthful ==
    [][\A p \in Procs : StopReports(p) => resolv # Redirect]_vars

\* status reports "INACTIVE - system DNS is untouched." (main.rs, 563)
\* whenever there is no state file.
InactiveUntouched == state = NoState => resolv # Redirect

===========================================================================
