-------------------------- MODULE TakeoverProofs --------------------------
(* Proofs about Takeover, for every set of processes and of contents.      *)
EXTENDS Takeover, TLAPS

\* What NoState is: a TakeoverState that names no process.
LEMMA NoStateType ==
    /\ NoState \in TakeoverState
    /\ NoState.pid = NoPid
    /\ NoState.link = FALSE
    /\ NoState.dropin = FALSE
BY DEF NoState, TakeoverState, Pids

\* A process that ends leaves the others, and the kernel, well typed.
LEMMA VanishTypes ==
    ASSUME NEW p \in Procs, ProcsTyped, Vanish(p)
    PROVE  /\ port' \in Pids
           /\ cmd' \in [Procs -> AllCommands]
           /\ ctx' \in [Procs -> {"none", "reconcile", "takeover", "exit",
                                  "command"}]
           /\ seen' \in [Procs -> TakeoverState]
           /\ body' \in [Procs -> Contents \cup {Redirect, Absent}]
           /\ sig' \in [Procs -> BOOLEAN]
           /\ task' \in [Procs -> {"off", "on", "last"}]
<1> USE DEF ProcsTyped, Vanish
<1>1. port' \in Pids
  BY DEF Pids
<1>2. cmd' \in [Procs -> AllCommands]
  BY DEF AllCommands
<1>3. seen' \in [Procs -> TakeoverState]
  BY NoStateType
<1> QED BY <1>1, <1>2, <1>3

\* An invocation that ends, in whatever way, keeps the types of the rest.
LEMMA ExitTypes ==
    ASSUME NEW p \in Procs, ProcsTyped, Exit(p)
    PROVE  ProcsTyped'
<1>1. pc' \in [Procs -> Pcs]
  BY DEF ProcsTyped, Exit, Goto, Pcs
<1> QED BY <1>1, VanishTypes DEF ProcsTyped, Exit

\* The types are preserved by every step of every invocation.
LEMMA TypeStep == TypeOK /\ [Next]_vars => TypeOK'
<1> SUFFICES ASSUME TypeOK, [Next]_vars PROVE TypeOK'
  OBVIOUS
<1> USE NoStateType, ExitTypes DEF TypeOK, FilesTyped, ProcsTyped, Originals, Contents,
      Step, Goto, files, local, Pcs, ReconcilePcs, TakeOverPcs, RestorePcs,
      ServePcs, StopPcs
<1>1. ASSUME NEW p \in Procs, NEW c \in Commands, Invoke(p, c) PROVE TypeOK'
  <2>1. c \in AllCommands
    BY CommandsAssumption
  <2> QED BY <1>1, <2>1 DEF Invoke, RunCommands, AllCommands
<1>2. ASSUME NEW p \in Procs, Restore(p) PROVE TypeOK'
  <2>1. CASE RestoreExists(p)        BY <2>1 DEF RestoreExists
  <2>2. CASE RestoreReadState(p)     BY <2>2 DEF RestoreReadState
  <2>3. CASE RestoreReadBackup(p)    BY <2>3 DEF RestoreReadBackup
  <2>4. CASE RestoreUnlink(p)        BY <2>4 DEF RestoreUnlink
  <2>5. CASE RestoreSymlink(p)       BY <2>5 DEF RestoreSymlink
  <2>6. CASE RestoreWrite(p)         BY <2>6 DEF RestoreWrite
  <2>7. CASE RestoreDropin(p)        BY <2>7 DEF RestoreDropin
  <2>8. CASE RestoreRemoveState(p)   BY <2>8 DEF RestoreRemoveState
  <2>9. CASE RestoreRemoveBackup(p)  BY <2>9 DEF RestoreRemoveBackup
  <2> QED BY <1>2, <2>1, <2>2, <2>3, <2>4, <2>5, <2>6, <2>7, <2>8, <2>9
          DEF Restore
<1>3. ASSUME NEW p \in Procs, Run(p) PROVE TypeOK'
  <2>1. CASE Reconcile(p)            BY <2>1 DEF Reconcile
  <2>2. CASE ReconcileAlive(p)       BY <2>2 DEF ReconcileAlive, EnterRestore
  <2>3. CASE CurrentNameservers(p)   BY <2>3 DEF CurrentNameservers
  <2>4. CASE Bind(p)                 BY <2>4 DEF Bind, Pids
  <2>5. CASE Publish(p)              BY <2>5 DEF Publish, SnapshotSet, Pids
  <2>6. CASE InstallHandler(p)       BY <2>6 DEF InstallHandler
  <2>7. CASE Clear(p)                
    <3>1. CASE cmd[p] = "run"
      BY <2>7, <3>1 DEF Clear, SnapshotSet, EnterRestore, Pids
    <3>2. CASE cmd[p] # "run"
      BY <2>7, <3>2 DEF Clear, SnapshotSet, Pids
    <3> QED BY <3>1, <3>2
  <2>8. CASE CheckServer(p)
    <3>1. CASE port = p
      BY <2>8, <3>1 DEF CheckServer
    <3>2. CASE port # p
      BY <2>8, <3>2 DEF CheckServer
    <3> QED BY <3>1, <3>2
  <2> QED BY <1>3, <2>1, <2>2, <2>3, <2>4, <2>5, <2>6, <2>7, <2>8 DEF Run
<1>4. ASSUME NEW p \in Procs, TakeOver(p) PROVE TypeOK'
  <2>1. CASE TakeOverReadState(p)    BY <2>1 DEF TakeOverReadState
  <2>2. CASE TakeOverAlive(p)        BY <2>2 DEF TakeOverAlive, EnterRestore
  <2>3. CASE TakeOverReadLink(p)     
    BY <2>3 DEF TakeOverReadLink, TakeoverState, Pids
  <2>4. CASE TakeOverReadOriginal(p)
    BY <2>4 DEF TakeOverReadOriginal, ReadThrough
  <2>5. CASE TakeOverBackup(p)       BY <2>5 DEF TakeOverBackup
  <2>6. CASE TakeOverDropin(p)       
    BY <2>6 DEF TakeOverDropin, TakeoverState
  <2>7. CASE TakeOverWriteState(p)   BY <2>7 DEF TakeOverWriteState
  <2>8. CASE TakeOverRedirect(p)     BY <2>8 DEF TakeOverRedirect
  <2> QED BY <1>4, <2>1, <2>2, <2>3, <2>4, <2>5, <2>6, <2>7, <2>8
          DEF TakeOver
<1>5. ASSUME NEW p \in Procs, Stop(p) PROVE TypeOK'
  <2>1. CASE StopReadSnapshot(p)     
    BY <2>1 DEF StopReadSnapshot, TakeoverState
  <2>2. CASE StopLeftover(p)         BY <2>2 DEF StopLeftover, EnterRestore
  <2>3. CASE StopKill(p)             
    <3> DEFINE q == seen[p].pid
    <3>1. CASE ~ProcessIsAlive(q)
      BY <2>3, <3>1 DEF StopKill
    <3>2. CASE ProcessIsAlive(q) /\ HandlesTerm(q)
      BY <2>3, <3>2 DEF StopKill, ProcessIsAlive
    <3>3. CASE ProcessIsAlive(q) /\ ~HandlesTerm(q)
      <4>1. /\ q \in Procs
            /\ Vanish(q)
            /\ pc' = [pc EXCEPT ![p] = "s_wait", ![q] = "idle"]
            /\ UNCHANGED <<files, snap, sys>>
        BY <2>3, <3>3 DEF StopKill, ProcessIsAlive
      <4>2. pc' \in [Procs -> Pcs]
        BY <4>1
      <4> QED BY <4>1, <4>2, VanishTypes
    <3> QED BY <3>1, <3>2, <3>3
  <2>4. CASE StopReports(p)          BY <2>4 DEF StopReports
  <2> QED BY <1>5, <2>1, <2>2, <2>3, <2>4 DEF Stop
<1>6. ASSUME NEW p \in Procs,
             Serve(p) \/ StatusTick(p) \/ LateStatusWrite(p)
               \/ StopTimesOut(p) \/ Crash(p)
      PROVE  TypeOK'
  <2>1. CASE Serve(p)                BY <2>1 DEF Serve
  <2>2. CASE StatusTick(p)           BY <2>2 DEF StatusTick, Pids
  <2>3. CASE LateStatusWrite(p)      BY <2>3 DEF LateStatusWrite, SnapshotSet, Pids
  <2>4. CASE StopTimesOut(p)         BY <2>4 DEF StopTimesOut
  <2>5. CASE Crash(p)                BY <2>5 DEF Crash
  <2> QED BY <1>6, <2>1, <2>2, <2>3, <2>4, <2>5
<1>7. CASE SnapshotExpires
  BY <1>7 DEF SnapshotExpires, Pids
<1>8. CASE NetworkManagerRewrites
  BY <1>8 DEF NetworkManagerRewrites
<1>9. CASE UNCHANGED vars
  BY <1>9 DEF vars
<1> QED
  BY <1>1, <1>2, <1>3, <1>4, <1>5, <1>6, <1>7, <1>8, <1>9 DEF Next, Progress

\* Every file, socket and local variable of the model keeps its type.
THEOREM TypeCorrect == Spec => []TypeOK
<1>1. Init => TypeOK
  <2> SUFFICES ASSUME Init PROVE TypeOK
    OBVIOUS
  <2>1. FilesTyped
    BY NoStateType DEF Init, FilesTyped, Pids, Originals, Contents
  <2>2. ProcsTyped
    BY NoStateType DEF Init, ProcsTyped, Pids, AllCommands, Pcs
  <2> QED BY <2>1, <2>2 DEF TypeOK
<1> QED BY <1>1, TypeStep, PTL DEF Spec

---------------------------------------------------------------------------
(* The sections do not overlap: the inductive invariant.                   *)

\* resolv.conf is something the system chose.
SystemFile == resolv \notin {Redirect, Absent}

\* At most one invocation is in the section that changes the files.
Exclusive ==
    \A p, q \in Procs : pc[p] \in Critical /\ pc[q] \in Critical => p = q

\* What an invocation inside the section knows of the files, by its stage.
RestoreKnows(p) ==
    /\ pc[p] \in {"r_state", "r_read"} => backup # Absent
    /\ pc[p] \in {"r_read", "r_unlink", "r_symlink", "r_write"} =>
         seen[p] = state
    /\ pc[p] \in {"r_unlink", "r_symlink"} => seen[p].link
    /\ pc[p] \in {"r_unlink", "r_symlink", "r_write"} =>
         backup \in Contents /\ body[p] \in Contents
    /\ pc[p] \in {"r_dropin", "r_rmstate", "r_rmbackup"} => SystemFile

TakeOverKnows(p) ==
    /\ pc[p] \in {"nameservers", "t_link", "t_read", "t_backup", "t_dropin",
                  "t_write_state", "t_redirect"} => SystemFile
    /\ pc[p] = "t_backup" => body[p] \in Contents
    /\ pc[p] \in {"t_read", "t_backup", "t_dropin", "t_write_state"} =>
         seen[p].pid = p
    /\ pc[p] \in {"t_dropin", "t_write_state", "t_redirect"} =>
         backup \in Contents
    /\ pc[p] \in {"t_write_state", "t_redirect"} => dropin # "none"
    /\ pc[p] = "t_redirect" => state.pid = p

KnowsOf(p) == RestoreKnows(p) /\ TakeOverKnows(p)
Knows == \A p \in Procs : KnowsOf(p)

\* What the files alone satisfy.
FilesSafe == Undoable /\ BackupGenuine /\ NMHeldOff

SerialInv == Exclusive /\ FilesSafe /\ Knows

\* An invocation outside the section relies on nothing.
LEMMA OutsideKnows ==
    ASSUME NEW p \in Procs, pc'[p] \notin Critical
    PROVE  KnowsOf(p)'
BY DEF KnowsOf, RestoreKnows, TakeOverKnows, Critical, ReconcilePcs,
   TakeOverPcs, RestorePcs

\* When the invocation in the section moves, the others are outside and stay
\* there: only what the mover knows has to be shown.
LEMMA InsideStep ==
    ASSUME NEW p \in Procs, NEW l \in Pcs, ProcsTyped, Exclusive,
           pc[p] \in Critical, Goto(p, l),
           FilesSafe', KnowsOf(p)'
    PROVE  SerialInv'
<1>1. \A q \in Procs : q # p => pc'[q] = pc[q] /\ pc[q] \notin Critical
  BY DEF Goto, ProcsTyped, Exclusive
<1>2. Exclusive'
  BY <1>1 DEF Exclusive
<1>3. Knows'
  BY <1>1, OutsideKnows DEF Knows
<1> QED BY <1>2, <1>3 DEF SerialInv

\* When an invocation enters, MayEnter says that nobody is in the section.
LEMMA EnterStep ==
    ASSUME NEW p \in Procs, NEW l \in Pcs, ProcsTyped, SerialInv,
           "overlap" \notin Faults, MayEnter(p), Goto(p, l),
           l \in {"reconcile", "r_exists"}, UNCHANGED files
    PROVE  SerialInv'
<1>1. \A q \in Procs : q # p => pc'[q] = pc[q] /\ pc[q] \notin Critical
  BY DEF Goto, ProcsTyped, MayEnter
<1>2. Exclusive'
  BY <1>1 DEF Exclusive
<1>3. pc'[p] = l
  BY DEF Goto, ProcsTyped
<1>4. KnowsOf(p)'
  BY <1>3 DEF KnowsOf, RestoreKnows, TakeOverKnows
<1>5. Knows'
  BY <1>1, <1>4, OutsideKnows DEF Knows
<1>6. FilesSafe'
  BY DEF SerialInv, FilesSafe, files, Undoable, BackupGenuine, NMHeldOff
<1> QED BY <1>2, <1>5, <1>6 DEF SerialInv

\* Invocations that end, or move outside the section, and leave the files and
\* the memory of the others alone disturb nothing.
LEMMA QuietStep ==
    ASSUME SerialInv, UNCHANGED files,
           \A q \in Procs : \/ pc'[q] \notin Critical
                            \/ UNCHANGED <<pc[q], seen[q], body[q]>>
    PROVE  SerialInv'
<1>1. Exclusive'
  BY DEF SerialInv, Exclusive
<1>2. FilesSafe'
  BY DEF SerialInv, FilesSafe, files, Undoable, BackupGenuine, NMHeldOff
<1>3. ASSUME NEW q \in Procs PROVE KnowsOf(q)'
  <2>1. CASE pc'[q] \notin Critical
    BY <2>1, OutsideKnows
  <2>2. CASE UNCHANGED <<pc[q], seen[q], body[q]>>
    BY <2>2 DEF SerialInv, Knows, KnowsOf, RestoreKnows, TakeOverKnows,
       SystemFile, files
  <2> QED BY <2>1, <2>2
<1> QED BY <1>1, <1>2, <1>3 DEF SerialInv, Knows

\* An invocation that ends without touching a file keeps the invariant: it
\* leaves the section, and what the others have read is as true as before.
LEMMA ExitStep ==
    ASSUME NEW p \in Procs, ProcsTyped, SerialInv, Exit(p), UNCHANGED files
    PROVE  SerialInv'
<1>1. ASSUME NEW q \in Procs
      PROVE  \/ pc'[q] \notin Critical
             \/ UNCHANGED <<pc[q], seen[q], body[q]>>
  <2>1. CASE q = p
    BY <2>1 DEF Exit, Goto, ProcsTyped, Critical, ReconcilePcs, TakeOverPcs,
       RestorePcs
  <2>2. CASE q # p
    BY <2>2 DEF Exit, Goto, Vanish, ProcsTyped
  <2> QED BY <2>1, <2>2
<1> QED BY <1>1, QuietStep

\* restore keeps the invariant, one system call at a time.
LEMMA RestoreStep ==
    ASSUME NEW p \in Procs, TypeOK, SerialInv, Restore(p)
    PROVE  SerialInv'
<1> USE DEF TypeOK, FilesTyped, ProcsTyped, Pcs, ReconcilePcs, TakeOverPcs,
      RestorePcs
<1>0. /\ ProcsTyped
      /\ Exclusive
      /\ FilesSafe
      /\ KnowsOf(p)
  BY DEF SerialInv, Knows
<1>00. pc[p] \in RestorePcs => pc[p] \in Critical
  BY DEF Critical
<1>1. CASE RestoreExists(p)
  <2>1. CASE backup # Absent
    <3>1. Goto(p, "r_state") /\ UNCHANGED files /\ pc[p] = "r_exists"
      BY <1>1, <2>1 DEF RestoreExists, Step
    <3>2. FilesSafe'
      BY <1>0, <3>1 DEF FilesSafe, files, Undoable, BackupGenuine, NMHeldOff
    <3>3. KnowsOf(p)'
      BY <2>1, <3>1 DEF Goto, files, KnowsOf, RestoreKnows, TakeOverKnows
    <3> QED BY <1>0, <1>00, <3>1, <3>2, <3>3, InsideStep
  <2>2. CASE backup = Absent
    <3>1. /\ Exit(p)
          /\ Goto(p, "idle")
          /\ pc[p] = "r_exists"
          /\ state' \in {state, NoState}
          /\ UNCHANGED <<resolv, backup, dropin>>
      BY <1>1, <2>2 DEF RestoreExists, Exit
    <3>2. resolv \notin {Redirect, Absent}
      BY <1>0, <2>2, BodiesAssumption
      DEF FilesSafe, Undoable, Contents, LinkBody, Absent
    <3>3. FilesSafe'
      BY <1>0, <3>1, <3>2
      DEF FilesSafe, Undoable, BackupGenuine, NMHeldOff
    <3>4. KnowsOf(p)'
      BY <3>1 DEF Goto, KnowsOf, RestoreKnows, TakeOverKnows
    <3> QED BY <1>0, <1>00, <3>1, <3>3, <3>4, InsideStep
  <2> QED BY <2>1, <2>2
<1>2. CASE RestoreReadState(p)
  <2>1. /\ Goto(p, "r_read") /\ UNCHANGED files
        /\ pc[p] = "r_state" /\ seen'[p] = state
    BY <1>2 DEF RestoreReadState, Step
  <2>2. FilesSafe'
    BY <1>0, <2>1 DEF FilesSafe, files, Undoable, BackupGenuine, NMHeldOff
  <2>3. KnowsOf(p)'
    BY <1>0, <2>1 DEF Goto, files, KnowsOf, RestoreKnows, TakeOverKnows
  <2> QED BY <1>0, <1>00, <2>1, <2>2, <2>3, InsideStep
<1>3. CASE RestoreReadBackup(p)
  <2>1. CASE backup # Absent
    <3>1. /\ pc[p] = "r_read" /\ UNCHANGED <<files, seen>>
          /\ body'[p] = backup
          /\ Goto(p, IF seen[p].link THEN "r_unlink" ELSE "r_write")
      BY <1>3, <2>1 DEF RestoreReadBackup, Step
    <3>2. FilesSafe'
      BY <1>0, <3>1 DEF FilesSafe, files, Undoable, BackupGenuine, NMHeldOff
    <3>3. backup \in Contents
      BY <1>0, <2>1 DEF FilesSafe, BackupGenuine
    <3>4. KnowsOf(p)'
      BY <1>0, <3>1, <3>3
      DEF Goto, files, KnowsOf, RestoreKnows, TakeOverKnows
    <3> QED BY <1>0, <1>00, <3>1, <3>2, <3>4, InsideStep
  <2>2. CASE backup = Absent
    BY <1>3, <2>2, ExitStep DEF RestoreReadBackup
  <2> QED BY <2>1, <2>2
<1>4. CASE RestoreUnlink(p)
  <2>1. /\ pc[p] = "r_unlink" /\ Goto(p, "r_symlink")
        /\ resolv' \in {Absent, resolv}
        /\ UNCHANGED <<backup, state, dropin, seen, body>>
    BY <1>4 DEF RestoreUnlink, Step, local
  <2>2. state.link /\ backup \in Contents /\ state # NoState
    BY <1>0, <2>1, NoStateType DEF KnowsOf, RestoreKnows
  <2>3. FilesSafe'
    BY <1>0, <2>1, <2>2
    DEF FilesSafe, Undoable, BackupGenuine, NMHeldOff, Absent, Redirect
  <2>4. KnowsOf(p)'
    BY <1>0, <2>1, <2>2 DEF Goto, KnowsOf, RestoreKnows, TakeOverKnows
  <2> QED BY <1>0, <1>00, <2>1, <2>3, <2>4, InsideStep
<1>5. CASE RestoreSymlink(p)
  <2>1. CASE resolv = Absent
    <3>1. /\ pc[p] = "r_symlink" /\ Goto(p, "r_dropin")
          /\ resolv' = Link /\ UNCHANGED <<backup, state, dropin>>
      BY <1>5, <2>1 DEF RestoreSymlink, Step
    <3>2. FilesSafe' /\ SystemFile'
      BY <1>0, <3>1 DEF FilesSafe, Undoable, BackupGenuine, NMHeldOff,
         SystemFile, Link, Absent, Redirect
    <3>3. KnowsOf(p)'
      BY <3>1, <3>2 DEF Goto, KnowsOf, RestoreKnows, TakeOverKnows
    <3> QED BY <1>0, <1>00, <3>1, <3>2, <3>3, InsideStep
  <2>2. CASE resolv # Absent
    BY <1>5, <2>2, ExitStep DEF RestoreSymlink
  <2> QED BY <2>1, <2>2
<1>6. CASE RestoreWrite(p)
  <2>1. /\ pc[p] = "r_write" /\ Goto(p, "r_dropin")
        /\ resolv' = body[p] /\ UNCHANGED <<backup, state, dropin>>
    BY <1>6 DEF RestoreWrite, Step
  <2>2. body[p] \notin {Redirect, Absent}
    BY <1>0, <2>1, BodiesAssumption
    DEF KnowsOf, RestoreKnows, Contents, LinkBody, Absent, Redirect
  <2>3. FilesSafe' /\ SystemFile'
    BY <1>0, <2>1, <2>2
    DEF FilesSafe, Undoable, BackupGenuine, NMHeldOff, SystemFile
  <2>4. KnowsOf(p)'
    BY <2>1, <2>3 DEF Goto, KnowsOf, RestoreKnows, TakeOverKnows
  <2> QED BY <1>0, <1>00, <2>1, <2>3, <2>4, InsideStep
<1>7. CASE RestoreDropin(p)
  <2>1. /\ pc[p] = "r_dropin" /\ Goto(p, "r_rmstate")
        /\ UNCHANGED <<resolv, backup, state>>
    BY <1>7 DEF RestoreDropin, Step
  <2>2. SystemFile
    BY <1>0, <2>1 DEF KnowsOf, RestoreKnows
  <2>3. FilesSafe' /\ SystemFile'
    BY <1>0, <2>1, <2>2
    DEF FilesSafe, Undoable, BackupGenuine, NMHeldOff, SystemFile
  <2>4. KnowsOf(p)'
    BY <2>1, <2>3 DEF Goto, KnowsOf, RestoreKnows, TakeOverKnows
  <2> QED BY <1>0, <1>00, <2>1, <2>3, <2>4, InsideStep
<1>8. CASE RestoreRemoveState(p)
  <2>1. /\ pc[p] = "r_rmstate" /\ Goto(p, "r_rmbackup")
        /\ UNCHANGED <<resolv, backup, dropin>>
    BY <1>8 DEF RestoreRemoveState, Step
  <2>2. SystemFile
    BY <1>0, <2>1 DEF KnowsOf, RestoreKnows
  <2>3. FilesSafe' /\ SystemFile'
    BY <1>0, <2>1, <2>2
    DEF FilesSafe, Undoable, BackupGenuine, NMHeldOff, SystemFile
  <2>4. KnowsOf(p)'
    BY <2>1, <2>3 DEF Goto, KnowsOf, RestoreKnows, TakeOverKnows
  <2> QED BY <1>0, <1>00, <2>1, <2>3, <2>4, InsideStep
<1>9. CASE RestoreRemoveBackup(p)
  <2>1. /\ pc[p] = "r_rmbackup"
        /\ \E l \in {"nameservers", "t_link", "idle"} : Goto(p, l)
        /\ backup' \in {Absent, backup}
        /\ UNCHANGED <<resolv, state, dropin>>
    BY <1>9 DEF RestoreRemoveBackup, Step, Exit
  <2>2. SystemFile
    BY <1>0, <2>1 DEF KnowsOf, RestoreKnows
  <2>3. FilesSafe' /\ SystemFile'
    BY <1>0, <2>1, <2>2
    DEF FilesSafe, Undoable, BackupGenuine, NMHeldOff, SystemFile, Absent,
        Redirect
  <2>4. PICK l \in {"nameservers", "t_link", "idle"} : Goto(p, l)
    BY <2>1
  <2>5. KnowsOf(p)'
    BY <2>3, <2>4 DEF Goto, KnowsOf, RestoreKnows, TakeOverKnows
  <2> QED BY <1>0, <1>00, <2>1, <2>3, <2>4, <2>5, InsideStep
<1> QED BY <1>1, <1>2, <1>3, <1>4, <1>5, <1>6, <1>7, <1>8, <1>9 DEF Restore

\* take_over keeps the invariant.
LEMMA TakeOverStep ==
    ASSUME NEW p \in Procs, TypeOK, SerialInv, TakeOver(p)
    PROVE  SerialInv'
<1> USE DEF TypeOK, FilesTyped, ProcsTyped, Pcs, ReconcilePcs, TakeOverPcs,
      RestorePcs
<1>0. /\ ProcsTyped
      /\ Exclusive
      /\ FilesSafe
      /\ KnowsOf(p)
  BY DEF SerialInv, Knows
<1>00. pc[p] \in TakeOverPcs => pc[p] \in Critical
  BY DEF Critical
<1>000. UNCHANGED files => FilesSafe'
  BY <1>0 DEF FilesSafe, files, Undoable, BackupGenuine, NMHeldOff
<1>1. CASE TakeOverReadState(p)
  <2>1. /\ pc[p] = "t_state" /\ UNCHANGED files
        /\ Goto(p, IF state = NoState THEN "t_link" ELSE "t_alive")
    BY <1>1 DEF TakeOverReadState, Step
  <2>2. KnowsOf(p)'
    BY <1>0, <2>1 DEF Goto, files, FilesSafe, Undoable, SystemFile, KnowsOf,
       RestoreKnows, TakeOverKnows
  <2> QED BY <1>0, <1>00, <1>000, <2>1, <2>2, InsideStep
<1>2. CASE TakeOverAlive(p)
  <2>1. CASE ProcessIsAlive(seen[p].pid)
    BY <1>2, <2>1, ExitStep DEF TakeOverAlive
  <2>2. CASE ~ProcessIsAlive(seen[p].pid)
    <3>1. pc[p] = "t_alive" /\ UNCHANGED files /\ Goto(p, "r_exists")
      BY <1>2, <2>2 DEF TakeOverAlive, EnterRestore
    <3>2. KnowsOf(p)'
      BY <3>1 DEF Goto, KnowsOf, RestoreKnows, TakeOverKnows
    <3> QED BY <1>0, <1>00, <1>000, <3>1, <3>2, InsideStep
  <2> QED BY <2>1, <2>2
<1>3. CASE TakeOverReadLink(p)
  <2>1. /\ pc[p] = "t_link" /\ UNCHANGED files /\ Goto(p, "t_read")
        /\ seen'[p].pid = p
    BY <1>3 DEF TakeOverReadLink, Step
  <2>2. KnowsOf(p)'
    BY <1>0, <2>1 DEF Goto, files, SystemFile, KnowsOf, RestoreKnows,
       TakeOverKnows
  <2> QED BY <1>0, <1>00, <1>000, <2>1, <2>2, InsideStep
<1>4. CASE TakeOverReadOriginal(p)
  <2>1. CASE resolv # Absent
    <3>1. /\ pc[p] = "t_read" /\ UNCHANGED <<files, seen>>
          /\ Goto(p, "t_backup") /\ body'[p] = ReadThrough(resolv)
      BY <1>4, <2>1 DEF TakeOverReadOriginal, Step
    <3>2. ReadThrough(resolv) \in Contents
      BY <1>0, <3>1 DEF KnowsOf, TakeOverKnows, SystemFile, ReadThrough,
         Contents, Originals
    <3>3. KnowsOf(p)'
      BY <1>0, <3>1, <3>2 DEF Goto, files, SystemFile, KnowsOf, RestoreKnows,
         TakeOverKnows
    <3> QED BY <1>0, <1>00, <1>000, <3>1, <3>3, InsideStep
  <2>2. CASE resolv = Absent
    BY <1>4, <2>2, ExitStep DEF TakeOverReadOriginal
  <2> QED BY <2>1, <2>2
<1>5. CASE TakeOverBackup(p)
  <2>1. /\ pc[p] = "t_backup" /\ Goto(p, "t_dropin") /\ backup' = body[p]
        /\ UNCHANGED <<resolv, state, dropin, seen>>
    BY <1>5 DEF TakeOverBackup, Step, local
  <2>2. body[p] \in Contents /\ body[p] # Redirect
    BY <1>0, <2>1, BodiesAssumption
    DEF KnowsOf, TakeOverKnows, Contents, LinkBody, Redirect
  <2>3. FilesSafe'
    BY <1>0, <2>1, <2>2 DEF FilesSafe, Undoable, BackupGenuine, NMHeldOff
  <2>4. KnowsOf(p)'
    BY <1>0, <2>1, <2>2 DEF Goto, SystemFile, KnowsOf, RestoreKnows,
       TakeOverKnows
  <2> QED BY <1>0, <1>00, <2>1, <2>3, <2>4, InsideStep
<1>6. CASE TakeOverDropin(p)
  <2>1. /\ pc[p] = "t_dropin" /\ Goto(p, "t_write_state")
        /\ dropin' # "none"
        /\ seen'[p].pid = seen[p].pid
        /\ UNCHANGED <<resolv, backup, state>>
    BY <1>6 DEF TakeOverDropin, Step, TakeoverState
  <2>2. FilesSafe'
    BY <1>0, <2>1 DEF FilesSafe, Undoable, BackupGenuine, NMHeldOff
  <2>3. KnowsOf(p)'
    BY <1>0, <2>1 DEF Goto, SystemFile, KnowsOf, RestoreKnows, TakeOverKnows
  <2> QED BY <1>0, <1>00, <2>1, <2>2, <2>3, InsideStep
<1>7. CASE TakeOverWriteState(p)
  <2>1. /\ pc[p] = "t_write_state" /\ Goto(p, "t_redirect")
        /\ state' = seen[p]
        /\ UNCHANGED <<resolv, backup, dropin>>
    BY <1>7 DEF TakeOverWriteState, Step
  <2>2. SystemFile
    BY <1>0, <2>1 DEF KnowsOf, TakeOverKnows
  <2>3. FilesSafe'
    BY <1>0, <2>1, <2>2
    DEF FilesSafe, Undoable, BackupGenuine, NMHeldOff, SystemFile
  <2>4. KnowsOf(p)'
    BY <1>0, <2>1 DEF Goto, SystemFile, KnowsOf, RestoreKnows, TakeOverKnows
  <2> QED BY <1>0, <1>00, <2>1, <2>3, <2>4, InsideStep
<1>8. CASE TakeOverRedirect(p)
  <2>1. /\ pc[p] = "t_redirect" /\ Goto(p, "publish")
        /\ resolv' = Redirect
        /\ UNCHANGED <<backup, state, dropin>>
    BY <1>8 DEF TakeOverRedirect, Step
  <2>2. state # NoState /\ backup \in Contents /\ dropin # "none"
    BY <1>0, <2>1, NoStateType, PidAssumption DEF KnowsOf, TakeOverKnows
  <2>3. FilesSafe'
    BY <1>0, <2>1, <2>2 DEF FilesSafe, Undoable, BackupGenuine, NMHeldOff,
       Redirect, Absent
  <2>4. KnowsOf(p)'
    BY <2>1 DEF Goto, KnowsOf, RestoreKnows, TakeOverKnows
  <2> QED BY <1>0, <1>00, <2>1, <2>3, <2>4, InsideStep, "publish" \in Pcs
          DEF ServePcs
<1> QED BY <1>1, <1>2, <1>3, <1>4, <1>5, <1>6, <1>7, <1>8 DEF TakeOver

\* The stages of run around take_over keep the invariant.
LEMMA RunStep ==
    ASSUME NEW p \in Procs, TypeOK, SerialInv, Run(p),
           "overlap" \notin Faults
    PROVE  SerialInv'
<1> USE DEF TypeOK, ProcsTyped
<1>0. /\ ProcsTyped
      /\ Exclusive
      /\ FilesSafe
      /\ KnowsOf(p)
  BY DEF SerialInv, Knows
<1>00. pc[p] \in ReconcilePcs => pc[p] \in Critical
  BY DEF Critical
<1>000. UNCHANGED files => FilesSafe'
  BY <1>0 DEF FilesSafe, files, Undoable, BackupGenuine, NMHeldOff
<1>0000. /\ {"nameservers", "reconcile_alive", "bind", "wait", "r_exists",
              "t_state", "publish"} \subseteq Pcs
         /\ {"reconcile", "reconcile_alive", "nameservers", "bind", "wait"}
              \subseteq ReconcilePcs
         /\ {"publish", "handler", "serving"} \cap Critical = {}
  BY DEF Pcs, ReconcilePcs, TakeOverPcs, RestorePcs, ServePcs, Critical
<1>1. CASE Reconcile(p)
  <2>1. /\ pc[p] = "reconcile" /\ UNCHANGED files
        /\ Goto(p, IF state = NoState THEN "nameservers"
                                      ELSE "reconcile_alive")
    BY <1>1 DEF Reconcile, Step
  <2>2. KnowsOf(p)'
    BY <1>0, <2>1 DEF Goto, files, FilesSafe, Undoable, SystemFile, KnowsOf,
       RestoreKnows, TakeOverKnows
  <2> QED BY <1>0, <1>00, <1>000, <1>0000, <2>1, <2>2, InsideStep
<1>2. CASE ReconcileAlive(p)
  <2>1. CASE ProcessIsAlive(seen[p].pid)
    BY <1>2, <2>1, ExitStep DEF ReconcileAlive
  <2>2. CASE ~ProcessIsAlive(seen[p].pid)
    <3>1. pc[p] = "reconcile_alive" /\ UNCHANGED files /\ Goto(p, "r_exists")
      BY <1>2, <2>2 DEF ReconcileAlive, EnterRestore
    <3>2. KnowsOf(p)'
      BY <3>1 DEF Goto, KnowsOf, RestoreKnows, TakeOverKnows
    <3> QED BY <1>0, <1>00, <1>000, <1>0000, <3>1, <3>2, InsideStep
  <2> QED BY <2>1, <2>2
<1>3. CASE CurrentNameservers(p)
  <2>1. CASE resolv # Absent
    <3>1. pc[p] = "nameservers" /\ UNCHANGED files /\ Goto(p, "bind")
      BY <1>3, <2>1 DEF CurrentNameservers, Step
    <3>2. KnowsOf(p)'
      BY <3>1 DEF Goto, KnowsOf, RestoreKnows, TakeOverKnows
    <3> QED BY <1>0, <1>00, <1>000, <1>0000, <3>1, <3>2, InsideStep
  <2>2. CASE resolv = Absent
    BY <1>3, <2>2, ExitStep DEF CurrentNameservers
  <2> QED BY <2>1, <2>2
<1>4. CASE Bind(p)
  <2>1. pc[p] = "bind" /\ UNCHANGED files /\ Goto(p, "wait")
    BY <1>4 DEF Bind
  <2>2. KnowsOf(p)'
    BY <2>1 DEF Goto, KnowsOf, RestoreKnows, TakeOverKnows
  <2> QED BY <1>0, <1>00, <1>000, <1>0000, <2>1, <2>2, InsideStep
<1>7. CASE CheckServer(p)
  <2>1. CASE port = p
    <3>1. /\ pc[p] = "wait" /\ UNCHANGED files
          /\ Goto(p, IF cmd[p] = "run" THEN "t_state" ELSE "publish")
      BY <1>7, <2>1 DEF CheckServer, Step
    <3>2. KnowsOf(p)'
      BY <3>1 DEF Goto, KnowsOf, RestoreKnows, TakeOverKnows
    <3> QED BY <1>0, <1>00, <1>000, <1>0000, <3>1, <3>2, InsideStep
  <2>2. CASE port # p
    BY <1>7, <2>2, ExitStep DEF CheckServer
  <2> QED BY <2>1, <2>2
<1>5. CASE Publish(p) \/ InstallHandler(p)
  <2>1. /\ UNCHANGED <<files, seen, body>>
        /\ Goto(p, "handler") \/ Goto(p, "serving")
    BY <1>5 DEF Publish, InstallHandler, Step, local
  <2> QED BY <1>0000, <2>1, QuietStep DEF Goto
<1>6. CASE Clear(p)
  <2>1. CASE cmd[p] = "run"
    BY <1>0000, <1>6, <2>1, EnterStep DEF Clear, EnterRestore
  <2>2. CASE cmd[p] # "run"
    BY <1>6, <2>2, ExitStep DEF Clear
  <2> QED BY <2>1, <2>2
<1> QED BY <1>1, <1>2, <1>3, <1>4, <1>5, <1>6, <1>7 DEF Run

\* stop keeps the invariant, also when its signal kills a helper that has not
\* installed the handler yet.
LEMMA StopStep ==
    ASSUME NEW p \in Procs, TypeOK, SerialInv, Stop(p) \/ StopTimesOut(p),
           "overlap" \notin Faults
    PROVE  SerialInv'
<1> USE DEF TypeOK, ProcsTyped
<1>0. /\ {"s_snap", "s_state", "s_kill", "s_wait", "idle"} \cap Critical = {}
      /\ "r_exists" \in Pcs
  BY DEF Critical, ReconcilePcs, TakeOverPcs, RestorePcs, Pcs
<1>1. CASE StopReadSnapshot(p)
  <2>1. /\ UNCHANGED <<files, body>>
        /\ \A q \in Procs : q # p => UNCHANGED <<pc[q], seen[q]>>
        /\ pc'[p] \in {"s_state", "s_kill"}
    BY <1>1 DEF StopReadSnapshot, Step, Goto
  <2> QED BY <1>0, <2>1, QuietStep
<1>2. CASE StopLeftover(p)
  <2>1. CASE state = NoState
    BY <1>2, <2>1, ExitStep DEF StopLeftover
  <2>2. CASE state # NoState
    BY <1>0, <1>2, <2>2, EnterStep DEF StopLeftover, EnterRestore
  <2> QED BY <2>1, <2>2
<1>3. CASE StopKill(p)
  <2> DEFINE q == seen[p].pid
  <2>1. CASE ~ProcessIsAlive(q)
    BY <1>3, <2>1, ExitStep DEF StopKill
  <2>2. CASE ProcessIsAlive(q) /\ HandlesTerm(q)
    <3>1. UNCHANGED <<files, seen, body>> /\ Goto(p, "s_wait")
      BY <1>3, <2>2 DEF StopKill, local
    <3> QED BY <1>0, <3>1, QuietStep DEF Goto
  <2>3. CASE ProcessIsAlive(q) /\ ~HandlesTerm(q)
    <3>1. /\ q \in Procs
          /\ Vanish(q)
          /\ pc' = [pc EXCEPT ![p] = "s_wait", ![q] = "idle"]
          /\ UNCHANGED files
      BY <1>3, <2>3 DEF StopKill, ProcessIsAlive
    <3>2. ASSUME NEW r \in Procs
          PROVE  \/ pc'[r] \notin Critical
                 \/ UNCHANGED <<pc[r], seen[r], body[r]>>
      BY <1>0, <3>1 DEF Vanish
    <3> QED BY <3>1, <3>2, QuietStep
  <2> QED BY <2>1, <2>2, <2>3
<1>4. CASE StopReports(p) \/ StopTimesOut(p)
  BY <1>4, ExitStep DEF StopReports, StopTimesOut
<1> QED BY <1>1, <1>2, <1>3, <1>4 DEF Stop

\* Every step keeps the invariant when the sections do not overlap.
LEMMA SerialStep ==
    ASSUME "overlap" \notin Faults
    PROVE  TypeOK /\ SerialInv /\ [Next]_vars => SerialInv'
<1> SUFFICES ASSUME TypeOK, SerialInv, [Next]_vars PROVE SerialInv'
  OBVIOUS
<1> USE DEF TypeOK, ProcsTyped
<1>0. /\ {"s_snap", "clear"} \cap Critical = {}
      /\ {"reconcile", "r_exists"} \subseteq Pcs
  BY DEF Critical, ReconcilePcs, TakeOverPcs, RestorePcs, Pcs
<1>1. ASSUME NEW p \in Procs, NEW c \in Commands, Invoke(p, c)
      PROVE  SerialInv'
  <2>1. CASE c = "stop"
    <3>1. UNCHANGED <<files, seen, body>> /\ Goto(p, "s_snap")
      BY <1>1, <2>1 DEF Invoke, RunCommands
    <3> QED BY <1>0, <3>1, QuietStep DEF Goto
  <2>2. CASE c \in RunCommands \cup {"restore"}
    <3>1. UNCHANGED files /\ MayEnter(p)
      BY <1>1, <2>2 DEF Invoke, RunCommands
    <3>2. Goto(p, "reconcile") \/ Goto(p, "r_exists")
      BY <1>1, <2>2 DEF Invoke, RunCommands
    <3> QED BY <1>0, <3>1, <3>2, EnterStep
  <2> QED BY <2>1, <2>2, CommandsAssumption DEF AllCommands, RunCommands
<1>2. ASSUME NEW p \in Procs, Progress(p) \/ StopTimesOut(p)
      PROVE  SerialInv'
  BY <1>2, RestoreStep, RunStep, TakeOverStep, StopStep DEF Progress
<1>3. ASSUME NEW p \in Procs, Serve(p) PROVE SerialInv'
  <2>1. UNCHANGED <<files, seen, body>> /\ Goto(p, "clear")
    BY <1>3 DEF Serve, Step, local
  <2> QED BY <1>0, <2>1, QuietStep DEF Goto
<1>4. ASSUME NEW p \in Procs, Crash(p) PROVE SerialInv'
  BY <1>4, ExitStep DEF Crash
<1>5. CASE \/ \E p \in Procs : StatusTick(p) \/ LateStatusWrite(p)
           \/ SnapshotExpires
           \/ UNCHANGED vars
  <2>1. UNCHANGED <<files, pc, seen, body>>
    BY <1>5 DEF StatusTick, LateStatusWrite, SnapshotExpires, vars, local
  <2> QED BY <2>1, QuietStep
<1>6. CASE NetworkManagerRewrites
  <2>1. /\ resolv' \in Bodies
        /\ UNCHANGED <<backup, state, dropin, pc, seen, body>>
    BY <1>6 DEF NetworkManagerRewrites, local
  <2>2. SystemFile'
    BY <2>1, BodiesAssumption DEF SystemFile
  <2>3. FilesSafe'
    BY <2>1, <2>2
    DEF SerialInv, FilesSafe, Undoable, BackupGenuine, NMHeldOff, SystemFile
  <2>4. Exclusive' /\ Knows'
    BY <2>1, <2>2 DEF SerialInv, Exclusive, Knows, KnowsOf, RestoreKnows,
       TakeOverKnows, SystemFile
  <2> QED BY <2>3, <2>4 DEF SerialInv
<1> QED BY <1>1, <1>2, <1>3, <1>4, <1>5, <1>6 DEF Next

\* Where invocations do not overlap in the file section, the files are safe and
\* what the one in the section has read agrees with them, always.
LEMMA SerialAlways ==
    ASSUME "overlap" \notin Faults
    PROVE  Spec => []SerialInv
<1>1. Init => SerialInv
  <2> SUFFICES ASSUME Init PROVE SerialInv
    OBVIOUS
  <2>1. sys \notin {Redirect, Absent}
    BY BodiesAssumption DEF Init, Originals, Link, Redirect, Absent
  <2>2. \A p \in Procs : pc[p] = "idle"
    BY DEF Init
  <2>3. Exclusive /\ Knows
    BY <2>2 DEF Exclusive, Critical, ReconcilePcs, TakeOverPcs, RestorePcs,
       Knows, KnowsOf, RestoreKnows, TakeOverKnows
  <2>4. FilesSafe
    BY <2>1 DEF Init, FilesSafe, Undoable, BackupGenuine, NMHeldOff, Redirect,
       Absent
  <2> QED BY <2>3, <2>4 DEF SerialInv
<1> QED BY <1>1, SerialStep, TypeCorrect, PTL DEF Spec

\* With the sections kept apart, whatever crashes, failed removals, reused
\* pids and rewrites by NetworkManager happen: resolv.conf is redirected or
\* missing only while the state file and a backup are there to undo it.
THEOREM AlwaysUndoable ==
    ASSUME "overlap" \notin Faults
    PROVE  Spec => []Undoable
<1>1. SerialInv => Undoable
  BY DEF SerialInv, FilesSafe
<1> QED BY <1>1, SerialAlways, PTL

\* Under the same assumption the backup is never the file that take_over
\* itself writes, so no sequence of crashes and runs loses the original.
THEOREM AlwaysGenuine ==
    ASSUME "overlap" \notin Faults
    PROVE  Spec => []BackupGenuine
<1>1. SerialInv => BackupGenuine
  BY DEF SerialInv, FilesSafe
<1> QED BY <1>1, SerialAlways, PTL

\* Under the same assumption a run that goes on after reconcile_after_crash
\* reads the system's resolvers, not its own redirection.
THEOREM AlwaysStartsFromSystem ==
    ASSUME "overlap" \notin Faults
    PROVE  Spec => []StartsFromSystem
<1>1. SerialInv => StartsFromSystem
  BY DEF SerialInv, Knows, KnowsOf, TakeOverKnows, SystemFile,
     StartsFromSystem
<1> QED BY <1>1, SerialAlways, PTL

\* Under the same assumption NetworkManager cannot rewrite resolv.conf while
\* it is redirected.
THEOREM AlwaysHeldOff ==
    ASSUME "overlap" \notin Faults
    PROVE  Spec => []NMHeldOff
<1>1. SerialInv => NMHeldOff
  BY DEF SerialInv, FilesSafe
<1> QED BY <1>1, SerialAlways, PTL

---------------------------------------------------------------------------
(* Overlapping invocations: the port serialises take_over.                 *)

\* The stages an invocation reaches only after a successful bind.
Bound(p) ==
    \/ pc[p] \in TakeOverPcs \cup ServePcs
    \/ pc[p] \in RestorePcs /\ ctx[p] \in {"takeover", "exit"}

PortInv == \A p \in Procs : Bound(p) => port = p

\* A step of one invocation that keeps the port and does not newly claim it.
LEMMA PortKept ==
    ASSUME NEW p \in Procs, PortInv, UNCHANGED port,
           \A q \in Procs : q # p => UNCHANGED <<pc[q], ctx[q]>>,
           Bound(p)' => Bound(p)
    PROVE  PortInv'
BY DEF PortInv, Bound

\* A process that ends gives the port back and claims nothing.
LEMMA PortReleased ==
    ASSUME NEW p \in Procs, PortInv, Vanish(p), pc'[p] = "idle",
           \A q \in Procs : q # p => \/ UNCHANGED <<pc[q], ctx[q]>>
                                   \/ pc'[q] = "s_wait"
    PROVE  PortInv'
<1>1. ASSUME NEW q \in Procs, Bound(q)' PROVE port' = q
  <2>1. q # p /\ UNCHANGED <<pc[q], ctx[q]>>
    BY <1>1 DEF Bound, TakeOverPcs, ServePcs, RestorePcs
  <2>2. port = q
    BY <1>1, <2>1 DEF PortInv, Bound
  <2> QED BY <2>1, <2>2 DEF Vanish
<1> QED BY <1>1 DEF PortInv

\* An invocation that ends gives back the port if it was the one that held it.
LEMMA PortExit ==
    ASSUME NEW p \in Procs, ProcsTyped, PortInv, Exit(p)
    PROVE  PortInv'
<1>1. /\ Vanish(p)
      /\ pc'[p] = "idle"
      /\ \A q \in Procs : q # p => UNCHANGED <<pc[q], ctx[q]>>
  BY DEF Exit, Goto, Vanish, ProcsTyped
<1> QED BY <1>1, PortReleased

\* No step of run, restore or stop, and no kill, gives the port to a second
\* holder or takes it from one that has bound it.
LEMMA PortStep == TypeOK /\ PortInv /\ [Next]_vars => PortInv'
<1> SUFFICES ASSUME TypeOK, PortInv, [Next]_vars PROVE PortInv'
  OBVIOUS
<1> USE DEF TypeOK, ProcsTyped
<1>1. ASSUME NEW p \in Procs, NEW c \in Commands, Invoke(p, c)
      PROVE  PortInv'
  <2>1. /\ UNCHANGED port
        /\ \A q \in Procs : q # p => UNCHANGED <<pc[q], ctx[q]>>
        /\ \/ pc'[p] \in {"reconcile", "s_snap"}
           \/ pc'[p] = "r_exists" /\ ctx'[p] = "command"
    BY <1>1, CommandsAssumption
    DEF Invoke, Goto, RunCommands, AllCommands
  <2> QED BY <2>1, PortKept DEF Bound, TakeOverPcs, ServePcs, RestorePcs
<1>2. ASSUME NEW p \in Procs, NEW l, Step(p, l), UNCHANGED ctx,
             \/ l \in {"reconcile", "reconcile_alive", "nameservers", "bind",
                       "wait", "s_snap", "s_state", "s_kill", "s_wait"}
             \/ pc[p] \in RestorePcs /\ l \in RestorePcs
             \/ Bound(p)
      PROVE  PortInv'
  <2>1. /\ UNCHANGED port
        /\ \A q \in Procs : q # p => UNCHANGED <<pc[q], ctx[q]>>
        /\ pc'[p] = l /\ ctx'[p] = ctx[p]
    BY <1>2 DEF Step, Goto
  <2>2. Bound(p)' => Bound(p)
    BY <1>2, <2>1 DEF Bound, TakeOverPcs, ServePcs, RestorePcs
  <2> QED BY <2>1, <2>2, PortKept
<1>3. ASSUME NEW p \in Procs, NEW c, EnterRestore(p, c), UNCHANGED port,
             Bound(p) \/ c \notin {"takeover", "exit"}
      PROVE  PortInv'
  <2>1. /\ \A q \in Procs : q # p => UNCHANGED <<pc[q], ctx[q]>>
        /\ pc'[p] = "r_exists" /\ ctx'[p] = c
    BY <1>3 DEF EnterRestore, Goto
  <2> QED BY <1>3, <2>1, PortKept
          DEF Bound, TakeOverPcs, ServePcs, RestorePcs
<1>4. ASSUME NEW p \in Procs, Restore(p) PROVE PortInv'
  <2>1. CASE RestoreExists(p)
    BY <1>2, <2>1, PortExit DEF RestoreExists, RestorePcs, local
  <2>2. CASE RestoreReadState(p)
    BY <1>2, <2>2 DEF RestoreReadState, RestorePcs
  <2>3. CASE RestoreReadBackup(p)
    <3>1. CASE backup # Absent
      BY <1>2, <2>3, <3>1 DEF RestoreReadBackup, RestorePcs
    <3>2. CASE backup = Absent
      BY <2>3, <3>2, PortExit DEF RestoreReadBackup
    <3> QED BY <3>1, <3>2
  <2>4. CASE RestoreUnlink(p) \/ RestoreWrite(p) \/ RestoreDropin(p)
               \/ RestoreRemoveState(p)
    BY <1>2, <2>4 DEF RestoreUnlink, RestoreWrite, RestoreDropin,
       RestoreRemoveState, RestorePcs, local
  <2>5. CASE RestoreSymlink(p)
    BY <1>2, <2>5, PortExit DEF RestoreSymlink, RestorePcs, local
  <2>6. CASE RestoreRemoveBackup(p)
    <3>1. CASE ctx[p] = "takeover"
      BY <1>2, <2>6, <3>1 DEF RestoreRemoveBackup, RestorePcs, Bound, local
    <3>2. CASE ctx[p] = "reconcile"
      BY <1>2, <2>6, <3>2 DEF RestoreRemoveBackup, local
    <3>3. CASE ctx[p] \in {"exit", "command"}
      BY <2>6, <3>3, PortExit DEF RestoreRemoveBackup
    <3> QED BY <2>6, <3>1, <3>2, <3>3 DEF RestoreRemoveBackup
  <2> QED BY <1>4, <2>1, <2>2, <2>3, <2>4, <2>5, <2>6 DEF Restore
<1>5. ASSUME NEW p \in Procs, Run(p) PROVE PortInv'
  <2>1. CASE Reconcile(p)
    BY <1>2, <2>1 DEF Reconcile
  <2>2. CASE ReconcileAlive(p)
    BY <1>3, <2>2, PortExit DEF ReconcileAlive
  <2>3. CASE CurrentNameservers(p)
    BY <1>2, <2>3, PortExit DEF CurrentNameservers, local
  <2>4. CASE Bind(p)
    <3>1. /\ \A q \in Procs : q # p => UNCHANGED <<pc[q], ctx[q]>>
          /\ pc'[p] = "wait"
      BY <2>4 DEF Bind, Goto, local
    <3>2. \A q \in Procs : Bound(q)' => Bound(q)
      BY <3>1 DEF Bound, TakeOverPcs, ServePcs, RestorePcs
    <3>3. CASE port = NoPid
      <4>1. \A q \in Procs : ~Bound(q)
        BY <3>3, PidAssumption DEF PortInv
      <4> QED BY <3>2, <4>1 DEF PortInv
    <3>4. CASE port # NoPid
      <4>1. UNCHANGED port
        BY <2>4, <3>4 DEF Bind
      <4> QED BY <3>2, <4>1 DEF PortInv
    <3> QED BY <3>3, <3>4
  <2>5. CASE Publish(p)
    <3>1. /\ UNCHANGED port
          /\ \A q \in Procs : q # p => UNCHANGED <<pc[q], ctx[q]>>
          /\ Bound(p)
      BY <2>5 DEF Publish, Goto, local, Bound, ServePcs
    <3> QED BY <3>1, PortKept
  <2>6. CASE InstallHandler(p)
    BY <1>2, <2>6 DEF InstallHandler, Bound, ServePcs, local
  <2>7. CASE Clear(p)
    <3>1. CASE cmd[p] = "run"
      BY <1>3, <2>7, <3>1 DEF Clear, Bound, ServePcs
    <3>2. CASE cmd[p] # "run"
      BY <2>7, <3>2, PortExit DEF Clear
    <3> QED BY <3>1, <3>2
  <2>8. CASE CheckServer(p)
    <3>1. CASE port = p
      <4>1. /\ UNCHANGED port
            /\ \A q \in Procs : q # p => UNCHANGED <<pc[q], ctx[q]>>
        BY <2>8, <3>1 DEF CheckServer, Step, Goto, local
      <4>2. \A q \in Procs : q # p => (Bound(q)' => Bound(q))
        BY <4>1 DEF Bound
      <4> QED BY <3>1, <4>1, <4>2 DEF PortInv
    <3>2. CASE port # p
      BY <2>8, <3>2, PortExit DEF CheckServer
    <3> QED BY <3>1, <3>2
  <2> QED BY <1>5, <2>1, <2>2, <2>3, <2>4, <2>5, <2>6, <2>7, <2>8 DEF Run
<1>6. ASSUME NEW p \in Procs, TakeOver(p) PROVE PortInv'
  <2>1. Bound(p)
    BY <1>6 DEF TakeOver, TakeOverReadState, TakeOverAlive, TakeOverReadLink,
       TakeOverReadOriginal, TakeOverBackup, TakeOverDropin,
       TakeOverWriteState, TakeOverRedirect, Bound, TakeOverPcs
  <2>2. CASE TakeOverAlive(p)
    BY <1>3, <2>1, <2>2, PortExit DEF TakeOverAlive
  <2>3. CASE TakeOverReadOriginal(p)
    BY <1>2, <2>1, <2>3, PortExit DEF TakeOverReadOriginal
  <2>4. CASE ~TakeOverAlive(p) /\ ~TakeOverReadOriginal(p)
    BY <1>2, <1>6, <2>1, <2>4 DEF TakeOver, TakeOverReadState,
       TakeOverReadLink, TakeOverBackup, TakeOverDropin, TakeOverWriteState,
       TakeOverRedirect, local
  <2> QED BY <2>2, <2>3, <2>4
<1>7. ASSUME NEW p \in Procs, Stop(p) PROVE PortInv'
  <2>1. CASE StopReadSnapshot(p)
    BY <1>2, <2>1 DEF StopReadSnapshot
  <2>2. CASE StopLeftover(p)
    BY <1>3, <2>2, PortExit DEF StopLeftover
  <2>3. CASE StopKill(p)
    <3> DEFINE q == seen[p].pid
    <3>1. CASE ~ProcessIsAlive(q)
      BY <2>3, <3>1, PortExit DEF StopKill
    <3>2. CASE ProcessIsAlive(q) /\ HandlesTerm(q)
      <4>1. /\ UNCHANGED port
            /\ \A r \in Procs : r # p => UNCHANGED <<pc[r], ctx[r]>>
            /\ pc'[p] = "s_wait"
        BY <2>3, <3>2 DEF StopKill, Goto, local
      <4> QED BY <4>1, PortKept DEF Bound, TakeOverPcs, ServePcs, RestorePcs
    <3>3. CASE ProcessIsAlive(q) /\ ~HandlesTerm(q)
      <4>1. /\ q \in Procs
            /\ Vanish(q)
            /\ pc' = [pc EXCEPT ![p] = "s_wait", ![q] = "idle"]
        BY <2>3, <3>3 DEF StopKill, ProcessIsAlive
      <4>2. \A r \in Procs : r # q => \/ UNCHANGED <<pc[r], ctx[r]>>
                                     \/ pc'[r] = "s_wait"
        BY <4>1 DEF Vanish
      <4> QED BY <4>1, <4>2, PortReleased
    <3> QED BY <3>1, <3>2, <3>3
  <2>4. CASE StopReports(p)
    BY <2>4, PortExit DEF StopReports
  <2> QED BY <1>7, <2>1, <2>2, <2>3, <2>4 DEF Stop
<1>8. ASSUME NEW p \in Procs, Serve(p) PROVE PortInv'
  BY <1>2, <1>8 DEF Serve, Bound, ServePcs, local
<1>9. ASSUME NEW p \in Procs, StopTimesOut(p) \/ Crash(p) PROVE PortInv'
  BY <1>9, PortExit DEF StopTimesOut, Crash
<1>10. CASE \/ \E p \in Procs : StatusTick(p) \/ LateStatusWrite(p)
            \/ SnapshotExpires
            \/ NetworkManagerRewrites
            \/ UNCHANGED vars
  <2>1. UNCHANGED <<port, pc, ctx>>
    BY <1>10 DEF StatusTick, LateStatusWrite, SnapshotExpires,
       NetworkManagerRewrites, vars, local
  <2> QED BY <2>1 DEF PortInv, Bound
<1> QED BY <1>1, <1>4, <1>5, <1>6, <1>7, <1>8, <1>9, <1>10
        DEF Next, Progress

\* However invocations overlap, crash and are restarted, at most one is in
\* take_over: binding the port first is what serialises them.
THEOREM OneTakeover == Spec => []TakeoversSerialised
<1>1. Init => PortInv
  BY DEF Init, PortInv, Bound, TakeOverPcs, ServePcs, RestorePcs
<1>2. PortInv => TakeoversSerialised
  BY DEF PortInv, Bound, TakeoversSerialised
<1> QED BY <1>1, <1>2, PortStep, TypeCorrect, PTL DEF Spec

---------------------------------------------------------------------------
(* Overlapping invocations: the owner that the state file names.           *)

\* The stages between building the state record and writing it.
StateInHand == {"t_read", "t_backup", "t_dropin", "t_write_state"}

\* What the state file and an invocation's own record say of a process.
OwnerOf(p) ==
    /\ state.pid = p /\ pc[p] # "idle" => Bound(p)
    /\ pc[p] \in StateInHand => seen[p].pid = p

OwnerInv == \A p \in Procs : OwnerOf(p)

\* A step of one invocation that names no other owner: only what is said of
\* the invocation itself has to be shown.
LEMMA OwnerKept ==
    ASSUME NEW p \in Procs, OwnerInv, OwnerOf(p)',
           state' \in {state, NoState} \/ state'.pid = p,
           \A q \in Procs : q # p => UNCHANGED <<pc[q], ctx[q], seen[q]>>
    PROVE  OwnerInv'
<1>1. ASSUME NEW q \in Procs, q # p PROVE OwnerOf(q)'
  <2>1. state'.pid = q => state.pid = q
    BY <1>1, NoStateType, PidAssumption
  <2> QED BY <1>1, <2>1 DEF OwnerInv, OwnerOf, Bound
<1> QED BY <1>1 DEF OwnerInv

\* A process that ends owns nothing.
LEMMA OwnerExit ==
    ASSUME NEW p \in Procs, ProcsTyped, OwnerInv, Exit(p),
           state' \in {state, NoState}
    PROVE  OwnerInv'
<1>1. /\ pc'[p] = "idle"
      /\ \A q \in Procs : q # p => UNCHANGED <<pc[q], ctx[q], seen[q]>>
  BY DEF Exit, Goto, Vanish, ProcsTyped
<1>2. OwnerOf(p)'
  BY <1>1 DEF OwnerOf, StateInHand
<1> QED BY <1>1, <1>2, OwnerKept

\* A step to l that keeps the caller and leaves the process bound, if it was.
LEMMA OwnerMove ==
    ASSUME NEW p \in Procs, NEW l, ProcsTyped, OwnerInv, Goto(p, l),
           pc[p] # "idle", UNCHANGED ctx,
           \/ state' \in {state, NoState}
           \/ state'.pid = p /\ Bound(p),
           \A q \in Procs : q # p => UNCHANGED seen[q],
           Bound(p) => Bound(p)',
           l \in StateInHand => seen'[p].pid = p
    PROVE  OwnerInv'
<1>1. pc'[p] = l /\ \A q \in Procs : q # p => UNCHANGED <<pc[q], ctx[q], seen[q]>>
  BY DEF Goto, ProcsTyped
<1>2. state'.pid = p => Bound(p) 
  BY NoStateType, PidAssumption DEF OwnerInv, OwnerOf
<1>3. OwnerOf(p)'
  BY <1>1, <1>2 DEF OwnerOf
<1> QED BY <1>1, <1>3, OwnerKept

\* Entering restore keeps a bound process bound.
LEMMA OwnerEnter ==
    ASSUME NEW p \in Procs, NEW c, ProcsTyped, OwnerInv, pc[p] # "idle",
           EnterRestore(p, c), UNCHANGED <<state, seen>>,
           Bound(p) => c \in {"takeover", "exit"}
    PROVE  OwnerInv'
<1>1. /\ pc'[p] = "r_exists" /\ ctx'[p] = c
      /\ \A q \in Procs : q # p => UNCHANGED <<pc[q], ctx[q], seen[q]>>
  BY DEF EnterRestore, Goto, ProcsTyped
<1>2. OwnerOf(p)'
  BY <1>1 DEF OwnerInv, OwnerOf, Bound, RestorePcs, StateInHand
<1> QED BY <1>1, <1>2, OwnerKept

\* As long as no pid is used twice, every step keeps the recorded owner the one
\* that holds the port.
LEMMA OwnerStep ==
    ASSUME "pidreuse" \notin Faults
    PROVE  TypeOK /\ OwnerInv /\ [Next]_vars => OwnerInv'
<1> SUFFICES ASSUME TypeOK, OwnerInv, [Next]_vars PROVE OwnerInv'
  OBVIOUS
<1> USE DEF TypeOK, ProcsTyped
<1>1. ASSUME NEW p \in Procs, NEW c \in Commands, Invoke(p, c)
      PROVE  OwnerInv'
  <2>1. /\ UNCHANGED state /\ state.pid # p
        /\ \A q \in Procs : q # p => UNCHANGED <<pc[q], ctx[q], seen[q]>>
    BY <1>1 DEF Invoke, Goto, files, Named
  <2>2. pc'[p] \in {"reconcile", "r_exists", "s_snap"}
    BY <1>1, CommandsAssumption DEF Invoke, Goto, RunCommands, AllCommands
  <2>3. OwnerOf(p)'
    BY <2>1, <2>2 DEF OwnerOf, StateInHand
  <2> QED BY <2>1, <2>3, OwnerKept
<1>2. ASSUME NEW p \in Procs, Restore(p) PROVE OwnerInv'
  <2> DEFINE Inside == /\ \E l \in RestorePcs : Goto(p, l)
                       /\ pc[p] \in RestorePcs
                       /\ UNCHANGED ctx
                       /\ state' \in {state, NoState}
                       /\ \A q \in Procs : q # p => UNCHANGED seen[q]
             Leave == Exit(p) /\ state' \in {state, NoState}
  <2>0. ASSUME Inside PROVE OwnerInv'
    <3>1. PICK l \in RestorePcs : Goto(p, l)
      BY <2>0
    <3>2. pc[p] # "idle" /\ l \notin StateInHand
      BY <2>0 DEF RestorePcs, StateInHand
    <3>3. Bound(p) => Bound(p)'
      BY <2>0, <3>1 DEF Goto, Bound, RestorePcs, TakeOverPcs, ServePcs
    <3> QED BY <2>0, <3>1, <3>2, <3>3, OwnerMove
  <2>00. ASSUME Leave PROVE OwnerInv'
    BY <2>00, OwnerExit
  <2> USE DEF Step, files, local, RestorePcs
  <2>1. CASE RestoreExists(p)
    <3>1. Inside \/ Leave
      BY <2>1 DEF RestoreExists
    <3> QED BY <2>0, <2>00, <3>1
  <2>2. CASE RestoreReadState(p)
    <3>1. Inside
      BY <2>2 DEF RestoreReadState
    <3> QED BY <2>0, <3>1
  <2>3. CASE RestoreReadBackup(p)
    <3>1. Inside \/ Leave
      BY <2>3 DEF RestoreReadBackup
    <3> QED BY <2>0, <2>00, <3>1
  <2>4. CASE RestoreUnlink(p) \/ RestoreWrite(p) \/ RestoreDropin(p)
               \/ RestoreRemoveState(p)
    <3>1. Inside
      BY <2>4 DEF RestoreUnlink, RestoreWrite, RestoreDropin,
         RestoreRemoveState
    <3> QED BY <2>0, <3>1
  <2>5. CASE RestoreSymlink(p)
    <3>1. Inside \/ Leave
      BY <2>5 DEF RestoreSymlink
    <3> QED BY <2>0, <2>00, <3>1
  <2>6. CASE RestoreRemoveBackup(p)
    <3>0. pc[p] = "r_rmbackup" /\ UNCHANGED state
      BY <2>6 DEF RestoreRemoveBackup
    <3>1. CASE ctx[p] = "reconcile"
      <4>1. Goto(p, "nameservers") /\ UNCHANGED <<ctx, seen>> /\ ~Bound(p)
        BY <2>6, <3>0, <3>1 DEF RestoreRemoveBackup, Bound, TakeOverPcs,
           ServePcs
      <4> QED BY <3>0, <4>1, OwnerMove DEF StateInHand
    <3>2. CASE ctx[p] = "takeover"
      <4>1. Goto(p, "t_link") /\ UNCHANGED <<ctx, seen>>
        BY <2>6, <3>2 DEF RestoreRemoveBackup
      <4>2. Bound(p)'
        BY <4>1 DEF Goto, Bound, TakeOverPcs
      <4> QED BY <3>0, <4>1, <4>2, OwnerMove DEF StateInHand
    <3>3. CASE ctx[p] \in {"exit", "command"}
      <4>1. Leave
        BY <2>6, <3>0, <3>3 DEF RestoreRemoveBackup
      <4> QED BY <2>00, <4>1
    <3> QED BY <2>6, <3>1, <3>2, <3>3 DEF RestoreRemoveBackup
  <2> QED BY <1>2, <2>1, <2>2, <2>3, <2>4, <2>5, <2>6 DEF Restore
<1>3. ASSUME NEW p \in Procs, Run(p) PROVE OwnerInv'
  <2> USE DEF Step, files, local
  <2>0. pc[p] \in ReconcilePcs => ~Bound(p) /\ pc[p] # "idle"
    BY DEF Bound, TakeOverPcs, ServePcs, RestorePcs, ReconcilePcs
  <2>1. CASE Reconcile(p)
    <3>1. /\ pc[p] = "reconcile" /\ UNCHANGED <<state, ctx>>
          /\ \A q \in Procs : q # p => UNCHANGED seen[q]
          /\ \E l \in {"nameservers", "reconcile_alive"} : Goto(p, l)
      BY <2>1 DEF Reconcile
    <3> QED BY <2>0, <3>1, OwnerMove DEF StateInHand, ReconcilePcs
  <2>2. CASE ReconcileAlive(p)
    <3>1. pc[p] = "reconcile_alive" /\ UNCHANGED state
      BY <2>2 DEF ReconcileAlive
    <3>2. \/ Exit(p)
          \/ EnterRestore(p, "reconcile") /\ UNCHANGED seen
      BY <2>2 DEF ReconcileAlive
    <3> QED BY <2>0, <3>1, <3>2, OwnerEnter, OwnerExit DEF ReconcilePcs
  <2>3. CASE CurrentNameservers(p)
    <3>1. pc[p] = "nameservers" /\ UNCHANGED state
      BY <2>3 DEF CurrentNameservers
    <3>2. \/ Exit(p)
          \/ Goto(p, "bind") /\ UNCHANGED <<ctx, seen>>
      BY <2>3 DEF CurrentNameservers
    <3> QED BY <2>0, <3>1, <3>2, OwnerMove, OwnerExit
            DEF ReconcilePcs, StateInHand
  <2>4. CASE Bind(p)
    <3>1. pc[p] = "bind" /\ UNCHANGED <<state, ctx, seen>> /\ Goto(p, "wait")
      BY <2>4 DEF Bind
    <3> QED BY <2>0, <3>1, OwnerMove DEF ReconcilePcs, StateInHand
  <2>8. CASE CheckServer(p)
    <3>1. pc[p] = "wait" /\ UNCHANGED state
      BY <2>8 DEF CheckServer
    <3>2. \/ Exit(p)
          \/ /\ \E l \in {"t_state", "publish"} : Goto(p, l)
             /\ UNCHANGED <<ctx, seen>>
      BY <2>8 DEF CheckServer
    <3> QED BY <2>0, <3>1, <3>2, OwnerMove, OwnerExit
            DEF ReconcilePcs, StateInHand
  <2>5. CASE Publish(p)
    <3>1. pc'[p] = "handler"
      BY <2>5 DEF Publish, Goto
    <3> QED BY <2>5, <3>1, OwnerMove DEF Publish, Bound, ServePcs, StateInHand
  <2>6. CASE InstallHandler(p)
    <3>1. pc'[p] = "serving"
      BY <2>6 DEF InstallHandler, Goto
    <3> QED BY <2>6, <3>1, OwnerMove
            DEF InstallHandler, Bound, ServePcs, StateInHand
  <2>7. CASE Clear(p)
    <3>1. pc[p] = "clear" /\ UNCHANGED state
      BY <2>7 DEF Clear
    <3>2. \/ Exit(p)
          \/ EnterRestore(p, "exit") /\ UNCHANGED seen
      BY <2>7 DEF Clear
    <3> QED BY <3>1, <3>2, OwnerEnter, OwnerExit
  <2> QED BY <1>3, <2>1, <2>2, <2>3, <2>4, <2>5, <2>6, <2>7, <2>8 DEF Run
<1>4. ASSUME NEW p \in Procs, TakeOver(p) PROVE OwnerInv'
  <2> USE DEF Step, files, local
  <2>1. CASE TakeOverReadState(p)
    BY <2>1, OwnerMove DEF TakeOverReadState, Goto, Bound, TakeOverPcs,
       StateInHand
  <2>2. CASE TakeOverAlive(p)
    <3>1. pc[p] = "t_alive" /\ UNCHANGED state
      BY <2>2 DEF TakeOverAlive
    <3>2. \/ Exit(p)
          \/ EnterRestore(p, "takeover") /\ UNCHANGED seen
      BY <2>2 DEF TakeOverAlive
    <3> QED BY <3>1, <3>2, OwnerEnter, OwnerExit
  <2>3. CASE TakeOverReadLink(p)
    BY <2>3, OwnerMove DEF TakeOverReadLink, Goto, Bound, TakeOverPcs
  <2>4. CASE TakeOverReadOriginal(p)
    <3>1. CASE resolv # Absent
      BY <2>4, <3>1, OwnerMove DEF TakeOverReadOriginal, Goto, Bound,
         TakeOverPcs, StateInHand, OwnerInv, OwnerOf
    <3>2. CASE resolv = Absent
      BY <2>4, <3>2, OwnerExit DEF TakeOverReadOriginal
    <3> QED BY <3>1, <3>2
  <2>5. CASE TakeOverBackup(p)
    BY <2>5, OwnerMove DEF TakeOverBackup, Goto, Bound, TakeOverPcs,
       StateInHand, OwnerInv, OwnerOf
  <2>6. CASE TakeOverDropin(p)
    BY <2>6, OwnerMove DEF TakeOverDropin, Goto, Bound, TakeOverPcs,
       StateInHand, OwnerInv, OwnerOf, TakeoverState
  <2>7. CASE TakeOverWriteState(p)
    BY <2>7, OwnerMove DEF TakeOverWriteState, Goto, Bound, TakeOverPcs,
       StateInHand, OwnerInv, OwnerOf
  <2>8. CASE TakeOverRedirect(p)
    BY <2>8, OwnerMove DEF TakeOverRedirect, Goto, Bound, TakeOverPcs,
       ServePcs, StateInHand
  <2> QED BY <1>4, <2>1, <2>2, <2>3, <2>4, <2>5, <2>6, <2>7, <2>8
          DEF TakeOver
<1>5. ASSUME NEW p \in Procs, Stop(p) PROVE OwnerInv'
  <2> USE DEF files, local, StateInHand
  <2>0. ~Bound(p)
    BY <1>5 DEF Stop, StopReadSnapshot, StopLeftover, StopKill, StopReports,
       Bound, TakeOverPcs, ServePcs, RestorePcs
  <2>1. CASE StopReadSnapshot(p)
    BY <2>0, <2>1, OwnerMove DEF StopReadSnapshot, Step
  <2>2. CASE StopLeftover(p)
    <3>1. pc[p] = "s_state" /\ UNCHANGED state
      BY <2>2 DEF StopLeftover
    <3>2. \/ Exit(p)
          \/ EnterRestore(p, "command") /\ UNCHANGED seen
      BY <2>2 DEF StopLeftover
    <3> QED BY <2>0, <3>1, <3>2, OwnerEnter, OwnerExit
  <2>3. CASE StopKill(p)
    <3> DEFINE q == seen[p].pid
    <3>1. CASE ~ProcessIsAlive(q)
      BY <2>3, <3>1, OwnerExit DEF StopKill
    <3>2. CASE ProcessIsAlive(q) /\ HandlesTerm(q)
      <4>1. /\ pc[p] = "s_kill" /\ UNCHANGED <<state, ctx, seen>>
            /\ Goto(p, "s_wait")
        BY <2>3, <3>2 DEF StopKill
      <4> QED BY <2>0, <4>1, OwnerMove
    <3>3. CASE ProcessIsAlive(q) /\ ~HandlesTerm(q)
      <4>1. /\ pc[p] = "s_kill"
            /\ q \in Procs
            /\ Vanish(q)
            /\ pc' = [pc EXCEPT ![p] = "s_wait", ![q] = "idle"]
            /\ UNCHANGED state
        BY <2>3, <3>3 DEF StopKill, ProcessIsAlive
      <4>2. ASSUME NEW r \in Procs PROVE OwnerOf(r)'
        <5>1. CASE r = q
          BY <4>1, <5>1 DEF OwnerOf
        <5>2. CASE r # q /\ r = p
          BY <2>0, <4>1, <5>2 DEF OwnerInv, OwnerOf
        <5>3. CASE r # q /\ r # p
          BY <4>1, <5>3 DEF Vanish, OwnerInv, OwnerOf, Bound
        <5> QED BY <5>1, <5>2, <5>3
      <4> QED BY <4>2 DEF OwnerInv
    <3> QED BY <3>1, <3>2, <3>3
  <2>4. CASE StopReports(p)
    BY <2>4, OwnerExit DEF StopReports
  <2> QED BY <1>5, <2>1, <2>2, <2>3, <2>4 DEF Stop
<1>6. ASSUME NEW p \in Procs, Serve(p) PROVE OwnerInv'
  <2>1. pc'[p] = "clear"
    BY <1>6 DEF Serve, Step, Goto
  <2> QED BY <1>6, <2>1, OwnerMove DEF Serve, Step, Bound, ServePcs, files,
          local, StateInHand
<1>7. ASSUME NEW p \in Procs, StopTimesOut(p) \/ Crash(p) PROVE OwnerInv'
  BY <1>7, OwnerExit DEF StopTimesOut, Crash, files
<1>8. CASE \/ \E p \in Procs : StatusTick(p) \/ LateStatusWrite(p)
           \/ SnapshotExpires
           \/ NetworkManagerRewrites
           \/ UNCHANGED vars
  <2>1. UNCHANGED <<state, pc, ctx, seen>>
    BY <1>8 DEF StatusTick, LateStatusWrite, SnapshotExpires,
       NetworkManagerRewrites, vars, local, files
  <2> QED BY <2>1 DEF OwnerInv, OwnerOf, Bound
<1> QED BY <1>1, <1>2, <1>3, <1>4, <1>5, <1>6, <1>7, <1>8
        DEF Next, Progress

\* Unless a pid is reused, and however invocations overlap and crash: a live
\* process that the state file names holds the port, so the AlreadyActive
\* that it makes another run return is refused for a helper that answers.
THEOREM OwnerAnswers ==
    ASSUME "pidreuse" \notin Faults
    PROVE  Spec => []OwnerHoldsPort
<1>1. Init => PortInv
  BY DEF Init, PortInv, Bound, TakeOverPcs, ServePcs, RestorePcs
<1>2. Init => OwnerInv
  BY DEF Init, OwnerInv, OwnerOf, StateInHand
<1>3. PortInv /\ OwnerInv => OwnerHoldsPort
  BY DEF PortInv, OwnerInv, OwnerOf, OwnerHoldsPort, ProcessIsAlive
<1> QED BY <1>1, <1>2, <1>3, PortStep, OwnerStep, TypeCorrect, PTL DEF Spec

---------------------------------------------------------------------------
(* The takeover implements the switch of DnsSwitch.                        *)

\* What the system chose, and whether the way back to it is on disk.
Chosen == ReadThrough(sys)
Undo == state # NoState /\ backup = Chosen

\* What an invocation remembers agrees with the choice.
AgreesOf(p) ==
    /\ seen[p].link => sys = Link
    /\ pc[p] \in {"r_unlink", "r_symlink", "r_write", "t_backup"} =>
         body[p] = Chosen

\* So do the files: no step of the section replaces the choice by another.
AgreeInv ==
    /\ SystemFile => ReadThrough(resolv) = Chosen
    /\ backup \in {Absent, Chosen}
    /\ state.link => sys = Link
    /\ \A p \in Procs : AgreesOf(p)

\* What is chosen can be read, and is neither our own file nor a missing one.
LEMMA ChosenContents ==
    ASSUME sys \in Originals
    PROVE  /\ Chosen \in Contents
           /\ Chosen \notin {Redirect, Absent}
BY BodiesAssumption DEF Originals, Contents, Chosen, ReadThrough, LinkBody,
   Link, Redirect, Absent

\* Only a link reads as the contents of a link.
LEMMA LinkChosen ==
    ASSUME sys \in Originals, Chosen = LinkBody
    PROVE  sys = Link
BY BodiesAssumption DEF Originals, Chosen, ReadThrough

\* Steps that leave resolv.conf and the choice alone, while the choice is in
\* force, record or forget the way back or do nothing.
LEMMA SwitchRecords ==
    ASSUME UNCHANGED <<resolv, sys>>, ReadThrough(resolv) = Chosen
    PROVE  [Switch!Next]_Switch!vars
<1>1. UNCHANGED <<ReadThrough(sys), ReadThrough(resolv)>>
  BY DEF ReadThrough
<1>2. CASE Undo' = Undo
  <2>1. UNCHANGED Switch!vars
    BY <1>1, <1>2 DEF Switch!vars, Undo, Chosen
  <2> QED BY <2>1
<1>3. CASE Undo' # Undo
  <2>1. Undo' = ~Undo
    BY <1>3 DEF Undo
  <2>2. Switch!Record
    BY <1>1, <2>1 DEF Switch!Record, Undo, Chosen
  <2> QED BY <2>2 DEF Switch!Next
<1> QED BY <1>2, <1>3

\* Steps that touch none of the three files do nothing to the switch.
LEMMA SwitchIdles ==
    ASSUME UNCHANGED <<resolv, backup, state, sys>>
    PROVE  UNCHANGED Switch!vars
BY DEF Switch!vars, ReadThrough

\* A step of one invocation, of which the others notice nothing.
LEMMA OthersAgree ==
    ASSUME NEW p \in Procs, AgreeInv, UNCHANGED sys, AgreesOf(p)',
           \A q \in Procs : q # p => UNCHANGED <<pc[q], seen[q], body[q]>>
    PROVE  \A q \in Procs : AgreesOf(q)'
<1>1. ASSUME NEW q \in Procs, q # p PROVE AgreesOf(q)'
  BY <1>1 DEF AgreeInv, AgreesOf, Chosen, ReadThrough
<1> QED BY <1>1

\* A step to l of one invocation that leaves the three files alone.
LEMMA AgreeMove ==
    ASSUME NEW p \in Procs, NEW l, ProcsTyped, AgreeInv, Goto(p, l),
           UNCHANGED <<resolv, backup, state, sys>>,
           \A q \in Procs : q # p => UNCHANGED <<seen[q], body[q]>>,
           seen'[p].link => sys = Link,
           l \in {"r_unlink", "r_symlink", "r_write", "t_backup"} =>
             body'[p] = Chosen
    PROVE  AgreeInv' /\ UNCHANGED Switch!vars
<1>1. /\ pc'[p] = l
      /\ \A q \in Procs : q # p => UNCHANGED <<pc[q], seen[q], body[q]>>
  BY DEF Goto, ProcsTyped
<1>2. UNCHANGED Chosen
  BY DEF Chosen, ReadThrough
<1>3. AgreesOf(p)'
  BY <1>1, <1>2 DEF AgreesOf
<1>4. AgreeInv'
  BY <1>1, <1>2, <1>3, OthersAgree DEF AgreeInv, SystemFile, ReadThrough
<1> QED BY <1>4, SwitchIdles

\* A process that ends remembers nothing.
LEMMA AgreeExit ==
    ASSUME NEW p \in Procs, ProcsTyped, AgreeInv, Exit(p), UNCHANGED sys
    PROVE  \A q \in Procs : AgreesOf(q)'
<1>1. /\ pc'[p] = "idle" /\ seen'[p] = NoState
      /\ \A q \in Procs : q # p => UNCHANGED <<pc[q], seen[q], body[q]>>
  BY DEF Exit, Goto, Vanish, ProcsTyped
<1>2. AgreesOf(p)'
  BY <1>1, NoStateType DEF AgreesOf
<1> QED BY <1>1, <1>2, OthersAgree

\* The steps of restore forget the way back only when it is not needed, and
\* what they put back is what was chosen.
LEMMA SwitchRestore ==
    ASSUME NEW p \in Procs, TypeOK, SerialInv, AgreeInv, Restore(p)
    PROVE  AgreeInv' /\ [Switch!Next]_Switch!vars
<1> USE DEF TypeOK
<1>0. /\ FilesSafe /\ KnowsOf(p) /\ AgreesOf(p)
      /\ FilesTyped /\ ProcsTyped
      /\ UNCHANGED sys
  <2>1. UNCHANGED sys
    BY DEF Restore, RestoreExists, RestoreReadState, RestoreReadBackup,
       RestoreUnlink, RestoreSymlink, RestoreWrite, RestoreDropin,
       RestoreRemoveState, RestoreRemoveBackup, Step
  <2> QED BY <2>1 DEF SerialInv, Knows, AgreeInv
<1>1. /\ Chosen \in Contents
      /\ Chosen \notin {Redirect, Absent}
      /\ UNCHANGED Chosen
  BY <1>0, ChosenContents DEF FilesTyped, Chosen, ReadThrough
\* A step that leaves resolv.conf alone while it is the system's.
<1>2. ASSUME SystemFile, UNCHANGED resolv, backup' \in {Absent, backup},
             state' \in {state, NoState},
             \A q \in Procs : AgreesOf(q)'
      PROVE  AgreeInv' /\ [Switch!Next]_Switch!vars
  <2>1. [Switch!Next]_Switch!vars
    BY <1>0, <1>2, SwitchRecords DEF AgreeInv
  <2>2. AgreeInv'
    BY <1>0, <1>1, <1>2, NoStateType
    DEF AgreeInv, SystemFile, ReadThrough
  <2> QED BY <2>1, <2>2
\* The invocation goes to l and remembers what it did.
<1>3. ASSUME NEW l, Goto(p, l), UNCHANGED <<seen, body>>,
             \/ l \notin {"r_unlink", "r_symlink", "r_write", "t_backup"}
             \/ pc[p] \in {"r_unlink", "r_symlink", "r_write"}
      PROVE  \A q \in Procs : AgreesOf(q)'
  <2>1. AgreesOf(p)'
    BY <1>0, <1>1, <1>3 DEF AgreesOf, Goto, ProcsTyped
  <2>2. \A q \in Procs : q # p => UNCHANGED <<pc[q], seen[q], body[q]>>
    BY <1>3 DEF Goto
  <2> QED BY <1>0, <2>1, <2>2, OthersAgree
<1>4. CASE RestoreExists(p)
  <2>1. CASE backup # Absent
    <3>1. Goto(p, "r_state") /\ UNCHANGED <<files, seen, body>>
      BY <1>4, <2>1 DEF RestoreExists, Step, local
    <3> QED BY <1>0, <3>1, AgreeMove DEF files, AgreesOf
  <2>2. CASE backup = Absent
    <3>1. /\ Exit(p) /\ state' \in {state, NoState}
          /\ UNCHANGED <<resolv, backup>>
      BY <1>4, <2>2 DEF RestoreExists
    <3>2. SystemFile
      BY <1>0, <2>2, BodiesAssumption
      DEF FilesSafe, Undoable, Contents, LinkBody, Absent, SystemFile
    <3> QED BY <1>0, <1>2, <3>1, <3>2, AgreeExit
  <2> QED BY <2>1, <2>2
<1>5. CASE RestoreReadState(p)
  <2>1. /\ Goto(p, "r_read") /\ UNCHANGED <<files, body>>
        /\ seen'[p] = state
        /\ \A q \in Procs : q # p => UNCHANGED seen[q]
    BY <1>0, <1>5 DEF RestoreReadState, Step, ProcsTyped
  <2> QED BY <1>0, <2>1, AgreeMove DEF files, AgreeInv
<1>6. CASE RestoreReadBackup(p)
  <2>1. CASE backup # Absent
    <3>1. /\ UNCHANGED <<files, seen>>
          /\ body'[p] = backup
          /\ \A q \in Procs : q # p => UNCHANGED body[q]
      BY <1>0, <1>6, <2>1 DEF RestoreReadBackup, ProcsTyped
    <3>2. PICK l : Goto(p, l)
      BY <1>6, <2>1 DEF RestoreReadBackup, Step
    <3>3. backup = Chosen
      BY <2>1 DEF AgreeInv
    <3> QED BY <1>0, <3>1, <3>2, <3>3, AgreeMove DEF files, AgreesOf
  <2>2. CASE backup = Absent
    <3>1. Exit(p) /\ UNCHANGED files
      BY <1>6, <2>2 DEF RestoreReadBackup
    <3>2. AgreeInv'
      BY <1>0, <1>1, <3>1, AgreeExit
      DEF AgreeInv, files, SystemFile, ReadThrough
    <3> QED BY <1>0, <3>1, <3>2, SwitchIdles DEF files
  <2> QED BY <2>1, <2>2
<1>7. CASE RestoreUnlink(p)
  <2>1. /\ pc[p] = "r_unlink" /\ Goto(p, "r_symlink")
        /\ resolv' \in {Absent, resolv}
        /\ UNCHANGED <<backup, state, seen, body>>
    BY <1>7 DEF RestoreUnlink, Step, local
  <2>2. Undo
    BY <1>0, <2>1, BodiesAssumption, NoStateType
    DEF KnowsOf, RestoreKnows, AgreeInv, Undo, Contents, LinkBody, Absent
  <2>3. AgreeInv'
    BY <1>0, <1>1, <1>3, <2>1 DEF AgreeInv, SystemFile, ReadThrough
  <2>4. CASE resolv' = resolv
    BY <1>0, <2>1, <2>3, <2>4, SwitchIdles
  <2>5. CASE resolv' = Absent
    <3>1. UNCHANGED Undo /\ ReadThrough(resolv') = Absent
      BY <1>1, <2>1, <2>5 DEF Undo, ReadThrough, Link, Absent
    <3>2. Switch!Lose
      BY <1>1, <2>2, <3>1 DEF Switch!Lose, Undo, Chosen, ReadThrough
    <3> QED BY <2>3, <3>2 DEF Switch!Next
  <2> QED BY <2>1, <2>4, <2>5
<1>8. CASE RestoreSymlink(p)
  <2>1. CASE resolv = Absent
    <3>1. /\ pc[p] = "r_symlink" /\ Goto(p, "r_dropin")
          /\ resolv' = Link
          /\ UNCHANGED <<backup, state, seen, body>>
      BY <1>8, <2>1 DEF RestoreSymlink, Step, local
    <3>2. Undo
      BY <1>0, <3>1, BodiesAssumption, NoStateType, <2>1
      DEF KnowsOf, RestoreKnows, AgreeInv, Undo, Contents, LinkBody, Absent,
          FilesSafe, Undoable
    <3>3. ReadThrough(resolv') = Chosen
      BY <1>0, <3>1, <2>1
      DEF AgreeInv, FilesSafe, Undoable, Chosen, ReadThrough
    <3>4. AgreeInv'
      BY <1>0, <1>1, <1>3, <3>1, <3>3 DEF AgreeInv, ReadThrough
    <3>5. Switch!GiveBack
      BY <1>1, <3>1, <3>2, <3>3
      DEF Switch!GiveBack, Undo, Chosen, ReadThrough
    <3> QED BY <3>4, <3>5 DEF Switch!Next
  <2>2. CASE resolv # Absent
    <3>1. Exit(p) /\ UNCHANGED files
      BY <1>8, <2>2 DEF RestoreSymlink
    <3>2. AgreeInv'
      BY <1>0, <1>1, <3>1, AgreeExit
      DEF AgreeInv, files, SystemFile, ReadThrough
    <3> QED BY <1>0, <3>1, <3>2, SwitchIdles DEF files
  <2> QED BY <2>1, <2>2
<1>9. CASE RestoreWrite(p)
  <2>1. /\ pc[p] = "r_write" /\ Goto(p, "r_dropin")
        /\ resolv' = body[p]
        /\ UNCHANGED <<backup, state, seen, body>>
    BY <1>9 DEF RestoreWrite, Step, local
  <2>2. body[p] = Chosen /\ backup = Chosen
    BY <1>0, <1>1, <2>1, BodiesAssumption
    DEF KnowsOf, RestoreKnows, AgreesOf, AgreeInv, Contents, LinkBody, Absent
  <2>3. ReadThrough(Chosen) = Chosen
    BY DEF Chosen, ReadThrough, Link, LinkBody
  <2>4. AgreeInv'
    BY <1>0, <1>1, <1>3, <2>1, <2>2, <2>3 DEF AgreeInv, ReadThrough
  <2>5. CASE state = NoState
    <3>1. ReadThrough(resolv) = Chosen
      BY <1>0, <2>5 DEF FilesSafe, Undoable, AgreeInv, SystemFile
    <3>2. UNCHANGED Switch!vars
      BY <1>0, <2>1, <2>2, <2>3, <3>1
      DEF Switch!vars, Chosen, ReadThrough
    <3> QED BY <2>4, <3>2
  <2>6. CASE state # NoState
    <3>1. Switch!GiveBack
      BY <1>1, <2>1, <2>2, <2>3, <2>6
      DEF Switch!GiveBack, Chosen, ReadThrough
    <3> QED BY <2>4, <3>1 DEF Switch!Next
  <2> QED BY <2>5, <2>6
<1>10. CASE RestoreDropin(p) \/ RestoreRemoveState(p)
  <2>1. /\ pc[p] \in {"r_dropin", "r_rmstate"}
        /\ \E l \in {"r_rmstate", "r_rmbackup"} : Goto(p, l)
        /\ UNCHANGED <<resolv, backup, seen, body>>
        /\ state' \in {state, NoState}
    BY <1>10 DEF RestoreDropin, RestoreRemoveState, Step, local
  <2>2. SystemFile
    BY <1>0, <2>1 DEF KnowsOf, RestoreKnows
  <2> QED BY <1>2, <1>3, <2>1, <2>2
<1>11. CASE RestoreRemoveBackup(p)
  <2>1. /\ pc[p] = "r_rmbackup"
        /\ \/ /\ \E l \in {"nameservers", "t_link"} : Goto(p, l)
              /\ UNCHANGED <<seen, body>>
           \/ Exit(p)
        /\ backup' \in {Absent, backup}
        /\ UNCHANGED <<resolv, state>>
    BY <1>11 DEF RestoreRemoveBackup, Step, local
  <2>2. SystemFile
    BY <1>0, <2>1 DEF KnowsOf, RestoreKnows
  <2>3. \A q \in Procs : AgreesOf(q)'
    <3>1. CASE Exit(p)
      BY <1>0, <3>1, AgreeExit
    <3>2. CASE ~Exit(p)
      BY <1>3, <2>1, <3>2
    <3> QED BY <3>1, <3>2
  <2> QED BY <1>2, <2>1, <2>2, <2>3
<1> QED BY <1>4, <1>5, <1>6, <1>7, <1>8, <1>9, <1>10, <1>11 DEF Restore

\* take_over records the way back before it takes, and what it records is
\* what was chosen.
LEMMA SwitchTakeOver ==
    ASSUME NEW p \in Procs, TypeOK, SerialInv, AgreeInv, TakeOver(p)
    PROVE  AgreeInv' /\ [Switch!Next]_Switch!vars
<1> USE DEF TypeOK
<1>0. /\ FilesSafe /\ KnowsOf(p) /\ AgreesOf(p)
      /\ FilesTyped /\ ProcsTyped
      /\ UNCHANGED sys
  <2>1. UNCHANGED sys
    BY DEF TakeOver, TakeOverReadState, TakeOverAlive, TakeOverReadLink,
       TakeOverReadOriginal, TakeOverBackup, TakeOverDropin,
       TakeOverWriteState, TakeOverRedirect, Step
  <2> QED BY <2>1 DEF SerialInv, Knows, AgreeInv
<1>1. /\ Chosen \in Contents
      /\ Chosen \notin {Redirect, Absent}
      /\ UNCHANGED Chosen
  BY <1>0, ChosenContents DEF FilesTyped, Chosen, ReadThrough
<1>2. ASSUME Exit(p), UNCHANGED files
      PROVE  AgreeInv' /\ [Switch!Next]_Switch!vars
  <2>1. AgreeInv'
    BY <1>0, <1>1, <1>2, AgreeExit
    DEF AgreeInv, files, SystemFile, ReadThrough
  <2> QED BY <1>0, <1>2, <2>1, SwitchIdles DEF files
<1>3. CASE TakeOverReadState(p)
  <2>1. /\ UNCHANGED <<files, body>>
        /\ seen'[p] = state
        /\ \A q \in Procs : q # p => UNCHANGED seen[q]
        /\ \E l \in {"t_link", "t_alive"} : Goto(p, l)
    BY <1>0, <1>3 DEF TakeOverReadState, Step, ProcsTyped
  <2> QED BY <1>0, <2>1, AgreeMove DEF files, AgreeInv
<1>4. CASE TakeOverAlive(p)
  <2>1. CASE ProcessIsAlive(seen[p].pid)
    BY <1>2, <1>4, <2>1 DEF TakeOverAlive
  <2>2. CASE ~ProcessIsAlive(seen[p].pid)
    <3>1. Goto(p, "r_exists") /\ UNCHANGED <<files, seen, body>>
      BY <1>4, <2>2 DEF TakeOverAlive, EnterRestore
    <3> QED BY <1>0, <3>1, AgreeMove DEF files, AgreesOf
  <2> QED BY <2>1, <2>2
<1>5. CASE TakeOverReadLink(p)
  <2>1. /\ pc[p] = "t_link" /\ Goto(p, "t_read")
        /\ UNCHANGED <<files, body>>
        /\ seen'[p].link = (resolv = Link)
        /\ \A q \in Procs : q # p => UNCHANGED seen[q]
    BY <1>0, <1>5 DEF TakeOverReadLink, Step, ProcsTyped
  <2>2. resolv = Link => Chosen = LinkBody
    BY <1>0, <2>1 DEF KnowsOf, TakeOverKnows, AgreeInv, ReadThrough
  <2>3. seen'[p].link => sys = Link
    BY <1>0, <2>1, <2>2, LinkChosen DEF FilesTyped
  <2> QED BY <1>0, <2>1, <2>3, AgreeMove DEF files
<1>6. CASE TakeOverReadOriginal(p)
  <2>1. CASE resolv # Absent
    <3>1. /\ pc[p] = "t_read" /\ Goto(p, "t_backup")
          /\ UNCHANGED <<files, seen>>
          /\ body'[p] = ReadThrough(resolv)
          /\ \A q \in Procs : q # p => UNCHANGED body[q]
      BY <1>0, <1>6, <2>1 DEF TakeOverReadOriginal, Step, ProcsTyped
    <3>2. body'[p] = Chosen
      BY <1>0, <3>1 DEF KnowsOf, TakeOverKnows, AgreeInv
    <3> QED BY <1>0, <3>1, <3>2, AgreeMove DEF files, AgreesOf
  <2>2. CASE resolv = Absent
    BY <1>2, <1>6, <2>2 DEF TakeOverReadOriginal
  <2> QED BY <2>1, <2>2
\* A step that writes a file while the choice is in force.
<1>7. ASSUME NEW l, Goto(p, l), SystemFile, UNCHANGED <<resolv, body>>,
             l \in {"t_dropin", "t_write_state", "t_redirect"},
             backup' \in {Absent, Chosen}, state'.link => sys = Link,
             seen'[p].link = seen[p].link,
             \A q \in Procs : q # p => UNCHANGED seen[q]
      PROVE  AgreeInv' /\ [Switch!Next]_Switch!vars
  <2>1. /\ AgreesOf(p)'
        /\ \A q \in Procs : q # p => UNCHANGED <<pc[q], seen[q], body[q]>>
    BY <1>0, <1>7 DEF AgreesOf, Goto, ProcsTyped
  <2>2. \A q \in Procs : AgreesOf(q)'
    BY <1>0, <2>1, OthersAgree
  <2>3. AgreeInv'
    BY <1>0, <1>1, <1>7, <2>2 DEF AgreeInv, SystemFile, ReadThrough
  <2> QED BY <1>0, <1>7, <2>3, SwitchRecords DEF AgreeInv
<1>8. CASE TakeOverBackup(p)
  <2>1. /\ pc[p] = "t_backup" /\ Goto(p, "t_dropin") /\ backup' = body[p]
        /\ UNCHANGED <<resolv, state, seen, body>>
    BY <1>8 DEF TakeOverBackup, Step, local
  <2>2. SystemFile /\ body[p] = Chosen
    BY <1>0, <2>1 DEF KnowsOf, TakeOverKnows, AgreesOf
  <2> QED BY <1>7, <2>1, <2>2 DEF AgreeInv
<1>9. CASE TakeOverDropin(p)
  <2>1. /\ pc[p] = "t_dropin" /\ Goto(p, "t_write_state")
        /\ UNCHANGED <<resolv, backup, state, body>>
        /\ seen'[p].link = seen[p].link
        /\ \A q \in Procs : q # p => UNCHANGED seen[q]
    BY <1>0, <1>9 DEF TakeOverDropin, Step, ProcsTyped, TakeoverState
  <2>2. SystemFile
    BY <1>0, <2>1 DEF KnowsOf, TakeOverKnows
  <2> QED BY <1>7, <2>1, <2>2 DEF AgreeInv
<1>10. CASE TakeOverWriteState(p)
  <2>1. /\ pc[p] = "t_write_state" /\ Goto(p, "t_redirect")
        /\ state' = seen[p]
        /\ UNCHANGED <<resolv, backup, seen, body>>
    BY <1>10 DEF TakeOverWriteState, Step, local
  <2>2. SystemFile
    BY <1>0, <2>1 DEF KnowsOf, TakeOverKnows
  <2> QED BY <1>0, <1>7, <2>1, <2>2 DEF AgreeInv, AgreesOf
<1>11. CASE TakeOverRedirect(p)
  <2>1. /\ pc[p] = "t_redirect" /\ Goto(p, "publish")
        /\ resolv' = Redirect
        /\ UNCHANGED <<backup, state, seen, body>>
    BY <1>11 DEF TakeOverRedirect, Step, local
  <2>2. ReadThrough(resolv) = Chosen /\ Undo
    BY <1>0, <2>1, BodiesAssumption, PidAssumption, NoStateType
    DEF KnowsOf, TakeOverKnows, AgreeInv, Undo, Contents, LinkBody, Absent
  <2>3. Switch!Take
    BY <1>1, <2>1, <2>2
    DEF Switch!Take, Undo, Chosen, ReadThrough, Redirect, Link
  <2>4. AgreesOf(p)'
    BY <1>0, <2>1 DEF AgreesOf, Goto, ProcsTyped
  <2>5. \A q \in Procs : q # p => UNCHANGED <<pc[q], seen[q], body[q]>>
    BY <2>1 DEF Goto
  <2>6. AgreeInv'
    BY <1>0, <1>1, <2>1, <2>4, <2>5, OthersAgree DEF AgreeInv, SystemFile
  <2> QED BY <2>3, <2>6 DEF Switch!Next
<1> QED BY <1>3, <1>4, <1>5, <1>6, <1>8, <1>9, <1>10, <1>11 DEF TakeOver

\* The other steps of an invocation leave the switch as it is.
LEMMA SwitchRest ==
    ASSUME NEW p \in Procs, TypeOK, SerialInv, AgreeInv,
           \/ Run(p) \/ Stop(p) \/ Serve(p) \/ StopTimesOut(p) \/ Crash(p)
           \/ \E c \in Commands : Invoke(p, c)
    PROVE  AgreeInv' /\ UNCHANGED Switch!vars
<1> USE DEF TypeOK
<1>0. FilesTyped /\ ProcsTyped /\ AgreesOf(p)
  BY DEF AgreeInv
<1>1. ASSUME Exit(p), UNCHANGED <<files, sys>>
      PROVE  AgreeInv' /\ UNCHANGED Switch!vars
  <2>1. AgreeInv'
    BY <1>0, <1>1, AgreeExit DEF AgreeInv, files, SystemFile, Chosen,
       ReadThrough
  <2> QED BY <1>1, <2>1, SwitchIdles DEF files
<1>2. ASSUME NEW l, Goto(p, l), UNCHANGED <<files, sys, body>>,
             l \notin {"r_unlink", "r_symlink", "r_write", "t_backup"},
             seen'[p].link => sys = Link,
             \A q \in Procs : q # p => UNCHANGED seen[q]
      PROVE  AgreeInv' /\ UNCHANGED Switch!vars
  BY <1>0, <1>2, AgreeMove DEF files
<1>3. ASSUME NEW l, Goto(p, l), UNCHANGED <<files, sys, body, seen>>,
             l \notin {"r_unlink", "r_symlink", "r_write", "t_backup"}
      PROVE  AgreeInv' /\ UNCHANGED Switch!vars
  BY <1>0, <1>2, <1>3 DEF AgreesOf
<1>4. CASE Run(p)
  <2>1. CASE Reconcile(p)
    <3>1. /\ UNCHANGED <<files, sys, body>>
          /\ seen'[p] = state
          /\ \A q \in Procs : q # p => UNCHANGED seen[q]
          /\ \E l \in {"nameservers", "reconcile_alive"} : Goto(p, l)
      BY <1>0, <2>1 DEF Reconcile, Step, ProcsTyped
    <3> QED BY <1>2, <3>1 DEF AgreeInv
  <2>2. CASE ReconcileAlive(p)
    <3>1. \/ Exit(p) /\ UNCHANGED <<files, sys>>
          \/ Goto(p, "r_exists") /\ UNCHANGED <<files, sys, body, seen>>
      BY <2>2 DEF ReconcileAlive, EnterRestore
    <3> QED BY <1>1, <1>3, <3>1
  <2>3. CASE CurrentNameservers(p)
    <3>1. \/ Exit(p) /\ UNCHANGED <<files, sys>>
          \/ Goto(p, "bind") /\ UNCHANGED <<files, sys, body, seen>>
      BY <2>3 DEF CurrentNameservers, Step, local
    <3> QED BY <1>1, <1>3, <3>1
  <2>4. CASE Bind(p)
    <3>1. Goto(p, "wait") /\ UNCHANGED <<files, sys, body, seen>>
      BY <2>4 DEF Bind, local
    <3> QED BY <1>3, <3>1
  <2>7. CASE CheckServer(p)
    <3>1. \/ Exit(p) /\ UNCHANGED <<files, sys>>
          \/ /\ \E l \in {"t_state", "publish"} : Goto(p, l)
             /\ UNCHANGED <<files, sys, body, seen>>
      BY <2>7 DEF CheckServer, Step, local
    <3> QED BY <1>1, <1>3, <3>1
  <2>5. CASE Publish(p) \/ InstallHandler(p)
    <3>1. /\ \E l \in {"handler", "serving"} : Goto(p, l)
          /\ UNCHANGED <<files, sys, body, seen>>
      BY <2>5 DEF Publish, InstallHandler, Step, local
    <3> QED BY <1>3, <3>1
  <2>6. CASE Clear(p)
    <3>1. \/ Exit(p) /\ UNCHANGED <<files, sys>>
          \/ Goto(p, "r_exists") /\ UNCHANGED <<files, sys, body, seen>>
      BY <2>6 DEF Clear, EnterRestore
    <3> QED BY <1>1, <1>3, <3>1
  <2> QED BY <1>4, <2>1, <2>2, <2>3, <2>4, <2>5, <2>6, <2>7 DEF Run
<1>5. CASE Stop(p)
  <2>1. CASE StopReadSnapshot(p)
    <3>1. /\ UNCHANGED <<files, sys, body>>
          /\ seen'[p].link = seen[p].link
          /\ \A q \in Procs : q # p => UNCHANGED seen[q]
          /\ \E l \in {"s_state", "s_kill"} : Goto(p, l)
      BY <1>0, <2>1 DEF StopReadSnapshot, Step, ProcsTyped, TakeoverState
    <3> QED BY <1>0, <1>2, <3>1 DEF AgreesOf
  <2>2. CASE StopLeftover(p)
    <3>1. \/ Exit(p) /\ UNCHANGED <<files, sys>>
          \/ Goto(p, "r_exists") /\ UNCHANGED <<files, sys, body, seen>>
      BY <2>2 DEF StopLeftover, EnterRestore
    <3> QED BY <1>1, <1>3, <3>1
  <2>3. CASE StopKill(p)
    <3> DEFINE q == seen[p].pid
    <3>1. CASE ~ProcessIsAlive(q)
      BY <1>1, <2>3, <3>1 DEF StopKill
    <3>2. CASE ProcessIsAlive(q) /\ HandlesTerm(q)
      <4>1. Goto(p, "s_wait") /\ UNCHANGED <<files, sys, body, seen>>
        BY <2>3, <3>2 DEF StopKill, local
      <4> QED BY <1>3, <4>1
    <3>3. CASE ProcessIsAlive(q) /\ ~HandlesTerm(q)
      <4>1. /\ q \in Procs
            /\ Vanish(q)
            /\ pc' = [pc EXCEPT ![p] = "s_wait", ![q] = "idle"]
            /\ UNCHANGED <<files, sys>>
        BY <2>3, <3>3 DEF StopKill, ProcessIsAlive
      <4>2. ASSUME NEW r \in Procs PROVE AgreesOf(r)'
        <5>1. CASE r = q
          BY <1>0, <4>1, <5>1, NoStateType DEF AgreesOf, Vanish, ProcsTyped
        <5>2. CASE r # q
          <6>1. UNCHANGED <<seen[r], body[r], Chosen, sys>>
            BY <4>1, <5>2 DEF Vanish, Chosen, ReadThrough
          <6>2. pc'[r] \in {pc[r], "s_wait"}
            BY <1>0, <4>1, <5>2 DEF ProcsTyped
          <6> QED BY <6>1, <6>2 DEF AgreeInv, AgreesOf
        <5> QED BY <5>1, <5>2
      <4>3. AgreeInv'
        BY <4>1, <4>2 DEF AgreeInv, files, SystemFile, Chosen, ReadThrough
      <4> QED BY <4>1, <4>3, SwitchIdles DEF files
    <3> QED BY <3>1, <3>2, <3>3
  <2>4. CASE StopReports(p)
    BY <1>1, <2>4 DEF StopReports
  <2> QED BY <1>5, <2>1, <2>2, <2>3, <2>4 DEF Stop
<1>6. CASE Serve(p)
  <2>1. Goto(p, "clear") /\ UNCHANGED <<files, sys, body, seen>>
    BY <1>6 DEF Serve, Step, local
  <2> QED BY <1>3, <2>1
<1>7. CASE StopTimesOut(p) \/ Crash(p)
  BY <1>1, <1>7 DEF StopTimesOut, Crash
<1>8. ASSUME NEW c \in Commands, Invoke(p, c)
      PROVE  AgreeInv' /\ UNCHANGED Switch!vars
  <2>1. /\ UNCHANGED <<files, sys, body, seen>>
        /\ \E l \in {"reconcile", "r_exists", "s_snap"} : Goto(p, l)
    BY <1>8, CommandsAssumption DEF Invoke, RunCommands, AllCommands
  <2> QED BY <1>3, <2>1
<1> QED BY <1>4, <1>5, <1>6, <1>7, <1>8

\* Every step of the code is a step of DnsSwitch or leaves its state alone, and
\* keeps what the abstract state is read off.
LEMMA SwitchStep ==
    ASSUME "overlap" \notin Faults, "nm" \notin Faults
    PROVE  TypeOK /\ SerialInv /\ AgreeInv /\ [Next]_vars
             => AgreeInv' /\ [Switch!Next]_Switch!vars
<1> SUFFICES ASSUME TypeOK, SerialInv, AgreeInv, [Next]_vars
             PROVE  AgreeInv' /\ [Switch!Next]_Switch!vars
  OBVIOUS
<1>1. CASE \E p \in Procs : Restore(p) \/ TakeOver(p)
  BY <1>1, SwitchRestore, SwitchTakeOver
<1>2. CASE \E p \in Procs :
             \/ Run(p) \/ Stop(p) \/ Serve(p) \/ StopTimesOut(p) \/ Crash(p)
             \/ \E c \in Commands : Invoke(p, c)
  BY <1>2, SwitchRest
<1>3. CASE \/ \E p \in Procs : StatusTick(p) \/ LateStatusWrite(p)
           \/ SnapshotExpires
           \/ UNCHANGED vars
  <2>1. UNCHANGED <<files, sys, pc, seen, body>>
    BY <1>3 DEF StatusTick, LateStatusWrite, SnapshotExpires, vars, local
  <2>2. AgreeInv'
    BY <2>1 DEF AgreeInv, AgreesOf, files, SystemFile, Chosen, ReadThrough
  <2> QED BY <2>1, <2>2, SwitchIdles DEF files
<1>4. CASE NetworkManagerRewrites
  BY <1>4 DEF NetworkManagerRewrites
<1> QED BY <1>1, <1>2, <1>3, <1>4 DEF Next, Progress

\* With the sections kept apart and nobody else writing resolv.conf, for any
\* number of invocations, crashes, failed removals and reused pids: what the
\* files do is a use of the switch of DnsSwitch.  The proxy is switched in
\* only while the way back is on disk, and what restore brings back is what
\* the system chose.
THEOREM TakeoverIsSwitch ==
    ASSUME "overlap" \notin Faults, "nm" \notin Faults
    PROVE  Spec => SwitchSpec
<1>1. Init => AgreeInv /\ Switch!Init
  <2> SUFFICES ASSUME Init PROVE AgreeInv /\ Switch!Init
    OBVIOUS
  <2>1. sys \in Originals /\ resolv = sys
    BY DEF Init
  <2>2. AgreeInv
    BY <2>1, NoStateType DEF Init, AgreeInv, AgreesOf, Chosen, NoState
  <2>3. Switch!Init
    BY <2>1, ChosenContents DEF Init, Switch!Init, Chosen
  <2> QED BY <2>2, <2>3
<1> QED BY <1>1, SwitchStep, SerialAlways, TypeCorrect, PTL
        DEF Spec, SwitchSpec, Switch!Spec

===========================================================================
