--------------------------- MODULE TunnelProofs ---------------------------
(* Proofs about Tunnel, for every set of helpers, imports, configurations  *)
(* and any number of cgroups.                                              *)
EXTENDS Tunnel, FiniteSetTheorems, SequenceTheorems, WellFoundedInduction,
        TLAPS

---------------------------------------------------------------------------
(* The two command lists.                                                  *)

\* up_steps, command by command.
LEMMA UpStepList ==
    /\ Len(UpSteps) = 10
    /\ UpSteps[1] = "link"    /\ UpSteps[2] = "setconf"
    /\ UpSteps[3] = "addr"    /\ UpSteps[4] = "linkup"
    /\ UpSteps[5] = "route4"  /\ UpSteps[6] = "block4"
    /\ UpSteps[7] = "rule4"   /\ UpSteps[8] = "block6"
    /\ UpSteps[9] = "rule6"   /\ UpSteps[10] = "nft"
BY DEF UpSteps

\* down_steps, command by command, and what each takes away.
LEMMA DownStepList ==
    /\ Len(DownSteps) = 6
    /\ DownSteps[1] = "nft"    /\ DownSteps[2] = "rule4"
    /\ DownSteps[3] = "rule6"  /\ DownSteps[4] = "flush4"
    /\ DownSteps[5] = "flush6" /\ DownSteps[6] = "link"
BY DEF DownSteps

\* What each command of down takes out of the kernel.
LEMMA DownStepRemoves ==
    /\ Removes(DownSteps[1]) = {}
    /\ Removes(DownSteps[2]) = {"rule4"}
    /\ Removes(DownSteps[3]) = {"rule6"}
    /\ Removes(DownSteps[4]) = {"route4", "block4"}
    /\ Removes(DownSteps[5]) = {"block6"}
    /\ Removes(DownSteps[6]) = {"link", "setconf", "addr", "linkup", "route4"}
BY DownStepList DEF Removes

\* A position in up_steps is one of ten.
LEMMA UpStepPositions ==
    ASSUME NEW i \in 1..Len(UpSteps)
    PROVE  /\ i \in 1..10
           /\ UpSteps[i] = "nft" <=> i = 10
           /\ UpSteps[i] # "nft" => UpSteps[i] \in Objects /\ i + 1 \in 1..10
<1>1. i \in 1..10
  BY UpStepList
<1>2. i = 1 \/ i = 2 \/ i = 3 \/ i = 4 \/ i = 5 \/ i = 6 \/ i = 7 \/ i = 8
        \/ i = 9 \/ i = 10
  BY <1>1
<1>3. UpSteps[i] = "nft" <=> i = 10
  BY <1>2, UpStepList
<1>4. UpSteps[i] # "nft" => UpSteps[i] \in Objects
  BY DEF Objects
<1> QED BY <1>1, <1>3, <1>4

\* What up can add to the kernel, one by one.
LEMMA ObjectList ==
    Objects = {"link", "setconf", "addr", "linkup", "route4", "block4",
               "rule4", "block6", "rule6"}
<1>1. ASSUME NEW o \in Objects
      PROVE  o \in {"link", "setconf", "addr", "linkup", "route4", "block4",
                    "rule4", "block6", "rule6"}
  <2>1. PICK i \in 1..10 : o = UpSteps[i] /\ o # "nft"
    BY UpStepList DEF Objects
  <2>2. i = 1 \/ i = 2 \/ i = 3 \/ i = 4 \/ i = 5 \/ i = 6 \/ i = 7 \/ i = 8
          \/ i = 9 \/ i = 10
    OBVIOUS
  <2> QED BY <2>1, <2>2, UpStepList
<1>2. ASSUME NEW i \in 1..10, UpSteps[i] # "nft" PROVE UpSteps[i] \in Objects
  BY <1>2, UpStepList DEF Objects
<1>3. /\ "link" \in Objects /\ "setconf" \in Objects /\ "addr" \in Objects
      /\ "linkup" \in Objects /\ "route4" \in Objects
      /\ "block4" \in Objects /\ "rule4" \in Objects
      /\ "block6" \in Objects /\ "rule6" \in Objects
  BY <1>2, UpStepList
<1> QED BY <1>1, <1>3

---------------------------------------------------------------------------
(* Types.                                                                  *)

\* A helper moves to another command or phase.
LEMMA AtTypes ==
    ASSUME NEW p \in Procs, NEW ph \in Phases, NEW i \in 1..Len(UpSteps),
           TypeOK, At(p, ph, i)
    PROVE  /\ phase' \in [Procs -> Phases]
           /\ idx' \in [Procs -> 1..Len(UpSteps)]
           /\ ph = "up" \/ i <= Len(DownSteps) =>
                \A q \in Procs : phase'[q] # "up" => idx'[q] <= Len(DownSteps)
           /\ phase'[p] = ph /\ idx'[p] = i
           /\ \A q \in Procs : q # p => UNCHANGED <<phase[q], idx[q]>>
BY DEF At, TypeOK

\* The anchor unit is started, and with it the slice's cgroup if need be.
LEMMA AnchorTypes ==
    ASSUME TypeOK, EnsureAnchor
    PROVE  /\ gens' \in 0..MaxCgroups /\ gens <= gens'
           /\ cg' \in {0, gens'} /\ cg' # 0
           /\ anchor' \in BOOLEAN
           /\ app \in {0, cg'}
           /\ nft \subseteq 1..gens'
<1>1. CASE cg = 0
  BY <1>1, CgroupsAssumption DEF TypeOK, EnsureAnchor
<1>2. CASE cg # 0
  BY <1>2, CgroupsAssumption DEF TypeOK, EnsureAnchor
<1> QED BY <1>1, <1>2

\* The types are preserved by every step of every helper and of the system.
LEMMA TypeStep == TypeOK /\ [Next]_vars => TypeOK'
<1> SUFFICES ASSUME TypeOK, [Next]_vars PROVE TypeOK'
  OBVIOUS
<1>0. /\ 1 \in 1..Len(UpSteps) /\ 1 <= Len(DownSteps)
      /\ \A i \in 1..Len(UpSteps) :
           i < Len(DownSteps) => i + 1 \in 1..Len(UpSteps)
  BY UpStepList, DownStepList
<1> USE DEF Phases
<1>1. ASSUME NEW p \in Procs, TunnelUp(p) PROVE TypeOK'
  <2>1. /\ phase' \in [Procs -> Phases]
        /\ idx' \in [Procs -> 1..Len(UpSteps)]
        /\ \A q \in Procs : phase'[q] # "up" => idx'[q] <= Len(DownSteps)
    BY <1>0, <1>1, AtTypes DEF TunnelUp, TypeOK
  <2> QED BY <1>1, <2>1, AnchorTypes DEF TunnelUp, TypeOK, kernel, store
<1>2. ASSUME NEW p \in Procs, Clear(p) \/ Rollback(p) \/ Down(p)
      PROVE  TypeOK'
  <2>1. DownStep(p) /\ UNCHANGED <<slice, keyfile, store>>
    BY <1>2 DEF Clear, Rollback, Down
  <2>2. idx[p] \in 1..Len(UpSteps)
    BY DEF TypeOK
  <2>3. \E ph \in Phases, i \in 1..Len(UpSteps) :
          At(p, ph, i) /\ i <= Len(DownSteps)
    BY <1>0, <1>2, <2>2, DownStepList DEF Clear, Rollback, Down
  <2>4. /\ phase' \in [Procs -> Phases]
        /\ idx' \in [Procs -> 1..Len(UpSteps)]
        /\ \A q \in Procs : phase'[q] # "up" => idx'[q] <= Len(DownSteps)
    BY <2>3, AtTypes
  <2>5. objs' \subseteq objs /\ nft' \subseteq nft
    BY <2>1 DEF DownStep, Undoes, kernel
  <2>6. missed' \in [Procs -> SUBSET Failing]
    BY <2>1 DEF DownStep, MissedBefore, TypeOK
  <2> QED BY <2>1, <2>4, <2>5, <2>6 DEF TypeOK, slice, store
<1>3. ASSUME NEW p \in Procs, WriteFiles(p) PROVE TypeOK'
  <2>1. /\ phase' \in [Procs -> Phases]
        /\ idx' \in [Procs -> 1..Len(UpSteps)]
        /\ \A q \in Procs : phase'[q] # "up" => idx'[q] <= Len(DownSteps)
    BY <1>0, <1>3, AtTypes DEF WriteFiles
  <2>2. keyfile' \in BOOLEAN
    BY <1>3 DEF WriteFiles, TypeOK
  <2> QED BY <1>3, <2>1, <2>2 DEF WriteFiles, TypeOK, kernel, slice, store
<1>4. ASSUME NEW p \in Procs, UpStep(p) PROVE TypeOK'
  <2> DEFINE s == UpSteps[idx[p]]
  <2>0. idx[p] \in 1..Len(UpSteps)
    BY DEF TypeOK
  <2>1. s # "nft" => s \in Objects /\ idx[p] + 1 \in 1..Len(UpSteps)
    BY <2>0, UpStepPositions, UpStepList
  <2>2. \/ At(p, "up", idx[p] + 1) /\ s # "nft"
        \/ At(p, "idle", 1)
        \/ At(p, "rollback", 1)
    BY <1>4 DEF UpStep, UpFails, OptionalSteps
  <2>3. /\ phase' \in [Procs -> Phases]
        /\ idx' \in [Procs -> 1..Len(UpSteps)]
        /\ \A q \in Procs : phase'[q] # "up" => idx'[q] <= Len(DownSteps)
    BY <1>0, <2>1, <2>2, AtTypes
  <2>4. objs' \subseteq Objects
    BY <1>4, <2>1 DEF UpStep, TypeOK, kernel
  <2>5. nft' \subseteq 1..gens
    <3>1. nft' = nft \/ (nft' = nft \cup {cg} /\ cg # 0)
      BY <1>4 DEF UpStep, Works, kernel
    <3>2. gens \in Nat /\ cg \in {0, gens} /\ nft \subseteq 1..gens
      BY CgroupsAssumption DEF TypeOK
    <3>3. cg # 0 => cg \in 1..gens
      BY <3>2
    <3> QED BY <3>1, <3>2, <3>3
  <2>6. keyfile' \in BOOLEAN
    BY <1>4 DEF UpStep, UpFails, TypeOK
  <2>7. UNCHANGED <<slice, missed, store>>
    BY <1>4 DEF UpStep
  <2> HIDE DEF s
  <2> QED BY <2>3, <2>4, <2>5, <2>6, <2>7 DEF TypeOK, slice, store
<1>5. ASSUME NEW p \in Procs, TunnelDown(p) PROVE TypeOK'
  BY <1>0, <1>5, AtTypes DEF TunnelDown, TypeOK, kernel, slice, store
<1>6. ASSUME NEW p \in Procs, StopAnchor(p) PROVE TypeOK'
  BY <1>0, <1>6, AtTypes DEF StopAnchor, SliceWithout, TypeOK, kernel, store
<1>7. ASSUME NEW p \in Procs, Crash(p) PROVE TypeOK'
  BY <1>0, <1>7, AtTypes DEF Crash, TypeOK, kernel, slice, store
<1>8. ASSUME NEW w \in Importers, NEW text \in Texts, InstallConfig(w, text)
      PROVE  TypeOK'
  BY <1>8 DEF InstallConfig, TypeOK, kernel, slice, helpers
<1>9. ASSUME NEW w \in Importers, InstallWrites(w) PROVE TypeOK'
  BY <1>9 DEF InstallWrites, TypeOK, kernel, slice, helpers
<1>10. CASE LaunchCheck
  BY <1>10 DEF LaunchCheck, TypeOK, kernel, store, helpers
<1>11. CASE LaunchSpawn
  <2>1. app' = cg' /\ launching' = FALSE /\ EnsureAnchor
        /\ UNCHANGED <<kernel, keyfile, helpers, store>>
    BY <1>11 DEF LaunchSpawn
  <2> QED BY <2>1, AnchorTypes DEF TypeOK, kernel, store, helpers
<1>12. CASE AppExits
  BY <1>12 DEF AppExits, SliceWithout, TypeOK, kernel, store, helpers
<1>13. CASE LinkLost
  BY <1>13 DEF LinkLost, TypeOK, slice, store, helpers
<1>14. CASE Logout
  BY <1>14 DEF Logout, TypeOK, kernel, store, helpers
<1>15. CASE UNCHANGED vars
  BY <1>15 DEF vars, TypeOK, kernel, slice, store, helpers
<1> QED
  BY <1>1, <1>2, <1>3, <1>4, <1>5, <1>6, <1>7, <1>8, <1>9, <1>10, <1>11,
     <1>12, <1>13, <1>14, <1>15 DEF Next

\* The kernel's objects, the slice and the helpers keep their types: cgroup
\* generations are never mixed up and no helper runs off its command list.
THEOREM TypeCorrect == Spec => []TypeOK
<1>1. Init => TypeOK
  <2> SUFFICES ASSUME Init PROVE TypeOK
    OBVIOUS
  <2>1. importing \in [Importers -> {<<>>} \cup Texts]
    BY DEF Init
  <2>2. /\ idx \in [Procs -> 1..Len(UpSteps)]
        /\ \A p \in Procs : phase[p] # "up" => idx[p] <= Len(DownSteps)
    BY UpStepList, DownStepList DEF Init
  <2>3. phase \in [Procs -> Phases]
    BY DEF Init, Phases
  <2>4. /\ objs = {} /\ nft = {} /\ cg = 0 /\ gens = 0 /\ app = 0
        /\ anchor = FALSE /\ launching = FALSE /\ keyfile = FALSE
    BY DEF Init
  <2>5. nft \subseteq 1..gens /\ gens \in 0..MaxCgroups
    BY <2>4, CgroupsAssumption
  <2>6. cg \in {0, gens} /\ app \in {0, cg}
    BY <2>4
  <2>7. objs \subseteq Objects
    BY <2>4
  <2>8. anchor \in BOOLEAN /\ launching \in BOOLEAN /\ keyfile \in BOOLEAN
    BY <2>4
  <2>9. missed \in [Procs -> SUBSET Failing]
    BY DEF Init
  <2> QED BY <2>1, <2>2, <2>3, <2>5, <2>6, <2>7, <2>8, <2>9 DEF TypeOK
<1> QED BY <1>1, TypeStep, PTL DEF Spec

---------------------------------------------------------------------------
(* Helpers that take turns: the inductive invariant.                       *)

\* The phases in which the kernel is taken apart.
Undoing == {"clear", "rollback", "down"}

\* At most one helper is at work.
Alone == \A p, q \in Procs : phase[p] # "idle" /\ phase[q] # "idle" => p = q

\* What command i of down_steps was to remove is gone, or it has failed.
Undone(i, failed) ==
    \/ DownSteps[i] \in failed
    \/ objs \cap Removes(DownSteps[i]) = {} /\ (i = 1 => nft = {})

\* What a helper at work knows of the kernel: what it has removed so far is
\* gone, and when it writes its files nothing is left but what failed to go.
TornOf(p) ==
    /\ phase[p] \in Undoing => \A i \in 1..idx[p] - 1 : Undone(i, missed[p])
    /\ phase[p] = "write" => OnlyMissed(missed[p])
    /\ phase[p] = "up" => nft = {} \/ "nft" \in Failing

TurnsInv == Alone /\ \A p \in Procs : TornOf(p)

\* When a helper moves, the others are idle and stay so.
LEMMA TurnStep ==
    ASSUME NEW p \in Procs, NEW ph \in Phases, NEW i \in 1..Len(UpSteps),
           TypeOK, At(p, ph, i), TornOf(p)',
           \A q \in Procs : q # p => phase[q] = "idle"
    PROVE  TurnsInv'
<1>1. \A q \in Procs : q # p => phase'[q] = "idle"
  BY AtTypes
<1>2. \A q \in Procs : q # p => TornOf(q)'
  BY <1>1 DEF TornOf, Undoing
<1> QED BY <1>1, <1>2 DEF TurnsInv, Alone

\* Whoever starts finds all others idle; whoever goes on is alone already.
LEMMA OthersIdle ==
    ASSUME NEW p \in Procs, Alone, "overlap" \notin Faults,
           MayStart \/ phase[p] # "idle"
    PROVE  \A q \in Procs : q # p => phase[q] = "idle"
BY DEF MayStart, AllIdle, Alone

\* When all commands have been run, only what failed to go is left.
LEMMA AllUndone ==
    ASSUME NEW failed, NEW os \in SUBSET Objects, NEW ns,
           \A i \in 1..6 :
             \/ DownSteps[i] \in failed
             \/ os \cap Removes(DownSteps[i]) = {} /\ (i = 1 => ns = {})
    PROVE  /\ os \subseteq UNION {Removes(s) : s \in failed}
           /\ ns # {} => "nft" \in failed
<1>0. /\ 1 \in 1..6 /\ 2 \in 1..6 /\ 3 \in 1..6
      /\ 4 \in 1..6 /\ 5 \in 1..6 /\ 6 \in 1..6
  OBVIOUS
<1>1. ASSUME NEW i \in 1..6, NEW o \in os, o \in Removes(DownSteps[i])
      PROVE  o \in UNION {Removes(s) : s \in failed}
  <2>1. DownSteps[i] \in failed
    BY <1>1
  <2> QED BY <1>1, <2>1
<1>2. ASSUME NEW o \in os PROVE \E i \in 1..6 : o \in Removes(DownSteps[i])
  <2>1. o \in {"link", "setconf", "addr", "linkup", "route4", "block4", "rule4",
               "block6", "rule6"}
    BY ObjectList
  <2> QED BY <1>0, <2>1, DownStepRemoves
<1>3. ns # {} => "nft" \in failed
  BY <1>0, DownStepList
<1> QED BY <1>1, <1>2, <1>3

\* One command of down_steps: what it removes is gone, or it failed, and nothing
\* appears.
LEMMA DownStepTears ==
    ASSUME NEW p \in Procs, TypeOK, TornOf(p), phase[p] \in Undoing,
           DownStep(p)
    PROVE  /\ idx[p] \in 1..6
           /\ objs' \subseteq objs
           /\ nft' = {} \/ "nft" \in Failing
           /\ \A i \in 1..idx[p] : Undone(i, missed[p])'
           /\ idx[p] = 6 => OnlyMissed(missed[p])'
<1>1. idx[p] \in 1..6
  BY DownStepList DEF TypeOK, Undoing
<1>2. objs' \subseteq objs /\ nft' \subseteq nft
  BY DEF DownStep, Undoes, kernel
<1>3. missed'[p] \in SUBSET Failing
  BY DEF DownStep, MissedBefore, TypeOK
<1>4. \A i \in 1..idx[p] : Undone(i, missed[p])'
  <2> SUFFICES ASSUME NEW i \in 1..idx[p] PROVE Undone(i, missed[p])'
    OBVIOUS
  <2>1. CASE i = idx[p]
    <3>1. CASE Undoes(DownSteps[i])
      BY <2>1, <3>1, DownStepList DEF Undoes, Undone
    <3>2. CASE missed' = [missed EXCEPT ![p] = MissedBefore(p) \cup {DownSteps[i]}]
      BY <3>2 DEF TypeOK, Undone
    <3> QED BY <2>1, <3>1, <3>2 DEF DownStep
  <2>2. CASE i # idx[p]
    <3>1. i \in 1..idx[p] - 1 /\ idx[p] # 1
      BY <1>1, <2>2
    <3>2. Undone(i, missed[p])
      BY <3>1 DEF TornOf
    <3>3. missed[p] \subseteq missed'[p]
      BY <3>1 DEF DownStep, MissedBefore, TypeOK
    <3> QED BY <1>2, <3>2, <3>3 DEF Undone
  <2> QED BY <2>1, <2>2
<1>5. nft' = {} \/ "nft" \in Failing
  <2>1. 1 \in 1..idx[p]
    BY <1>1
  <2> QED BY <1>3, <1>4, <2>1, DownStepList DEF Undone
<1>6. idx[p] = 6 => OnlyMissed(missed[p])'
  <2> SUFFICES ASSUME idx[p] = 6 PROVE OnlyMissed(missed[p])'
    OBVIOUS
  <2>1. objs' \subseteq Objects
    BY <1>2 DEF TypeOK
  <2>2. \A i \in 1..6 :
          \/ DownSteps[i] \in missed'[p]
          \/ objs' \cap Removes(DownSteps[i]) = {} /\ (i = 1 => nft' = {})
    BY <1>4 DEF Undone
  <2> QED BY <2>1, <2>2, AllUndone DEF OnlyMissed
<1> QED BY <1>1, <1>2, <1>4, <1>5, <1>6

\* With one helper at a time, every step keeps what a helper has undone so far
\* undone.
LEMMA TurnsKept ==
    ASSUME "overlap" \notin Faults
    PROVE  TypeOK /\ TurnsInv /\ [Next]_vars => TurnsInv'
<1> SUFFICES ASSUME TypeOK, TurnsInv, [Next]_vars PROVE TurnsInv'
  OBVIOUS
<1>0. /\ Alone
      /\ 1 \in 1..Len(UpSteps)
      /\ Phases = {"idle", "clear", "write", "up", "rollback", "down",
                   "stop_anchor"}
  BY UpStepList DEF TurnsInv, Phases
\* A helper that is no longer undoing anything, or has just begun to.
<1>00. ASSUME NEW p \in Procs, NEW ph \in Phases, At(p, ph, 1),
              MayStart \/ phase[p] # "idle",
              ph = "write" => OnlyMissed(missed[p])',
              ph = "up" => nft' = {} \/ "nft" \in Failing
       PROVE  TurnsInv'
  <2>1. phase'[p] = ph /\ idx'[p] = 1
    BY <1>0, <1>00, AtTypes
  <2>2. TornOf(p)'
    BY <1>00, <2>1, DownStepList DEF TornOf
  <2>3. \A q \in Procs : q # p => phase[q] = "idle"
    BY <1>0, <1>00, OthersIdle
  <2> QED BY <1>0, <1>00, <2>2, <2>3, TurnStep
\* Nobody moves, and nothing is added to the kernel.
<1>000. ASSUME UNCHANGED <<helpers, nft>>, objs' \subseteq objs
        PROVE  TurnsInv'
  <2>1. UNCHANGED <<phase, idx, missed>>
    BY <1>000 DEF helpers
  <2>2. ASSUME NEW q \in Procs PROVE TornOf(q)'
    <3>1. TornOf(q)
      BY DEF TurnsInv
    <3>2. \A i \in 1..idx[q] - 1 : Undone(i, missed[q]) => Undone(i, missed[q])'
      BY <1>000, <2>1 DEF Undone
    <3>3. OnlyMissed(missed[q]) => OnlyMissed(missed[q])'
      BY <1>000, <2>1 DEF OnlyMissed
    <3> QED BY <1>000, <2>1, <3>1, <3>2, <3>3 DEF TornOf
  <2> QED BY <2>1, <2>2 DEF TurnsInv, Alone
<1>1. ASSUME NEW p \in Procs, TunnelUp(p) PROVE TurnsInv'
  <2>1. CASE At(p, "clear", 1)
    BY <1>0, <1>00, <1>1, <2>1 DEF TunnelUp
  <2>2. CASE UNCHANGED <<phase, idx>>
    BY <1>000, <1>1, <2>2 DEF TunnelUp, kernel, helpers
  <2> QED BY <1>1, <2>1, <2>2 DEF TunnelUp
<1>2. ASSUME NEW p \in Procs, Clear(p) \/ Rollback(p) \/ Down(p)
      PROVE  TurnsInv'
  <2>1. DownStep(p) /\ phase[p] \in Undoing
    BY <1>2 DEF Clear, Rollback, Down, Undoing
  <2>2. /\ idx[p] \in 1..6
        /\ objs' \subseteq objs
        /\ nft' = {} \/ "nft" \in Failing
        /\ \A i \in 1..idx[p] : Undone(i, missed[p])'
        /\ idx[p] = 6 => OnlyMissed(missed[p])'
    BY <2>1, DownStepTears DEF TurnsInv
  <2>3. CASE idx[p] < Len(DownSteps)
    <3>1. At(p, phase[p], idx[p] + 1)
      BY <1>2, <2>3 DEF Clear, Rollback, Down
    <3>2. phase[p] \in Phases /\ idx[p] + 1 \in 1..Len(UpSteps)
      BY <2>2, UpStepList DEF TypeOK
    <3>3. phase'[p] = phase[p] /\ idx'[p] = idx[p] + 1
      BY <3>1, <3>2, AtTypes
    <3>4. TornOf(p)'
      BY <2>1, <2>2, <2>3, <3>3, DownStepList DEF TornOf, Undoing
    <3>5. \A q \in Procs : q # p => phase[q] = "idle"
      BY <1>0, <2>1, OthersIdle DEF Undoing
    <3> QED BY <3>1, <3>2, <3>4, <3>5, TurnStep
  <2>4. CASE ~(idx[p] < Len(DownSteps))
    <3>1. OnlyMissed(missed[p])'
      BY <2>2, <2>4, DownStepList
    <3>2. \E ph \in Phases : At(p, ph, 1)
      BY <1>0, <1>2, <2>4 DEF Clear, Rollback, Down
    <3> QED BY <1>00, <2>1, <2>2, <3>1, <3>2 DEF Undoing
  <2> QED BY <2>3, <2>4
<1>3. ASSUME NEW p \in Procs, WriteFiles(p) PROVE TurnsInv'
  <2>1. /\ phase[p] = "write" /\ UNCHANGED kernel
        /\ At(p, "up", 1) \/ At(p, "idle", 1)
    BY <1>3 DEF WriteFiles
  <2>2. nft = {} \/ "nft" \in Failing
    BY <2>1 DEF TurnsInv, TornOf, OnlyMissed, TypeOK
  <2> QED BY <1>0, <1>00, <2>1, <2>2 DEF kernel
<1>4. ASSUME NEW p \in Procs, UpStep(p) PROVE TurnsInv'
  <2>0. /\ phase[p] = "up" /\ idx[p] \in 1..Len(UpSteps)
        /\ nft = {} \/ "nft" \in Failing
    BY <1>4 DEF UpStep, TurnsInv, TornOf, TypeOK
  <2>1. CASE \/ At(p, "idle", 1)
             \/ At(p, "rollback", 1)
    BY <1>0, <1>00, <2>0, <2>1
  <2>2. CASE /\ At(p, "up", idx[p] + 1)
             /\ UpSteps[idx[p]] # "nft" /\ UNCHANGED nft
    <3>1. idx[p] + 1 \in 1..Len(UpSteps)
      BY <2>0, <2>2, UpStepPositions, UpStepList
    <3>2. phase'[p] = "up" /\ idx'[p] = idx[p] + 1
      BY <1>0, <2>2, <3>1, AtTypes
    <3>3. TornOf(p)'
      BY <2>0, <2>2, <3>2 DEF TornOf, Undoing
    <3>4. \A q \in Procs : q # p => phase[q] = "idle"
      BY <1>0, <2>0, OthersIdle
    <3> QED BY <1>0, <2>2, <3>1, <3>3, <3>4, TurnStep
  <2>3. \/ At(p, "idle", 1)
        \/ At(p, "rollback", 1)
        \/ /\ At(p, "up", idx[p] + 1)
           /\ UpSteps[idx[p]] # "nft" /\ UNCHANGED nft
    BY <1>4 DEF UpStep, UpFails, OptionalSteps, kernel
  <2> QED BY <2>1, <2>2, <2>3
<1>5. ASSUME NEW p \in Procs, TunnelDown(p) PROVE TurnsInv'
  BY <1>0, <1>00, <1>5 DEF TunnelDown
<1>6. ASSUME NEW p \in Procs, StopAnchor(p) \/ Crash(p) PROVE TurnsInv'
  <2>1. At(p, "idle", 1) /\ phase[p] # "idle"
    BY <1>6 DEF StopAnchor, Crash
  <2> QED BY <1>0, <1>00, <2>1
<1>7. CASE \/ \E w \in Importers, text \in Texts : InstallConfig(w, text)
           \/ \E w \in Importers : InstallWrites(w)
           \/ LaunchCheck \/ LaunchSpawn \/ AppExits \/ Logout
           \/ UNCHANGED vars
  <2>1. UNCHANGED <<objs, nft, helpers>>
    BY <1>7 DEF InstallConfig, InstallWrites, LaunchCheck, LaunchSpawn,
       AppExits, Logout, vars, kernel
  <2> QED BY <1>000, <2>1
<1>8. CASE LinkLost
  BY <1>000, <1>8 DEF LinkLost
<1> QED BY <1>1, <1>2, <1>3, <1>4, <1>5, <1>6, <1>7, <1>8 DEF Next

\* It is so in every behaviour.
LEMMA TurnsAlways ==
    ASSUME "overlap" \notin Faults
    PROVE  Spec => []TurnsInv
<1>1. Init => TurnsInv
  BY DEF Init, TurnsInv, Alone, TornOf, Undoing
<1> QED BY <1>1, TurnsKept, TypeCorrect, PTL DEF Spec

\* With one helper at a time, whatever commands of up or down fail, whoever is
\* killed and whatever is undone behind its back: an up that ends without the
\* tunnel has left nothing in the kernel that a command of its down() could
\* remove.
THEOREM UpRollsBack ==
    ASSUME "overlap" \notin Faults
    PROVE  Spec => RollbackComplete
<1> DEFINE Clean == \A p \in Procs :
                      (WriteFiles(p) \/ UpStep(p) \/ Rollback(p))
                        /\ phase'[p] = "idle" =>
                          (phase[p] = "up" /\ cg \in nft') \/ OnlyMissed(missed[p])'
<1>1. TypeOK /\ TurnsInv /\ [Next]_vars => [Clean]_vars
  <2> SUFFICES ASSUME TypeOK, TurnsInv, NEW p \in Procs,
                      WriteFiles(p) \/ UpStep(p) \/ Rollback(p),
                      phase'[p] = "idle"
               PROVE  (phase[p] = "up" /\ cg \in nft') \/ OnlyMissed(missed[p])'
    OBVIOUS
  <2>0. /\ 1 \in 1..Len(UpSteps) /\ "rollback" \in Phases /\ "up" \in Phases
    BY UpStepList DEF Phases
  <2>1. CASE WriteFiles(p)
    BY <2>1 DEF WriteFiles, kernel, TurnsInv, TornOf, OnlyMissed
  <2>2. CASE UpStep(p)
    <3>1. ~At(p, "rollback", 1) /\ ~At(p, "up", idx[p] + 1)
      BY DEF At, TypeOK
    <3> QED BY <2>2, <3>1 DEF UpStep, UpFails
  <2>3. CASE Rollback(p)
    <3>1. DownStep(p) /\ phase[p] \in Undoing
      BY <2>3 DEF Rollback, Undoing
    <3>2. idx[p] \in 1..6 /\ (idx[p] = 6 => OnlyMissed(missed[p])')
      BY <3>1, DownStepTears DEF TurnsInv
    <3>3. ~At(p, "rollback", idx[p] + 1)
      BY DEF At, TypeOK
    <3>4. idx[p] = 6
      BY <2>3, <3>2, <3>3, DownStepList DEF Rollback
    <3> QED BY <3>2, <3>4
  <2> QED BY <2>1, <2>2, <2>3
<1> QED BY <1>1, TurnsAlways, TypeCorrect, PTL DEF Spec, RollbackComplete

---------------------------------------------------------------------------
(* Marked packets never take the normal path.                              *)

\* The rules and the fallback routes that hold marked packets, whatever
\* becomes of the interface.
Guards == IF IPv6 THEN {"block4", "rule4", "block6", "rule6"}
                  ELSE {"block4", "rule4"}

\* An up has put in place those of them that it has come past.
GuardedOf(p) ==
    phase[p] = "up" =>
        \A i \in 1..idx[p] - 1 : UpSteps[i] \in Guards => UpSteps[i] \in objs

ClosedInv ==
    /\ nft # {} => Guards \subseteq objs
    /\ \A p \in Procs : GuardedOf(p)

\* A helper that has come to the ruleset has come past all of them.
LEMMA GuardsInPlace ==
    ASSUME NEW p \in Procs, TypeOK, GuardedOf(p), phase[p] = "up",
           UpSteps[idx[p]] = "nft"
    PROVE  Guards \subseteq objs
<1>1. idx[p] = 10
  BY UpStepPositions DEF TypeOK
<1>2. \A i \in 1..9 : UpSteps[i] \in Guards => UpSteps[i] \in objs
  BY <1>1 DEF GuardedOf
<1>3. /\ "block4" \in Guards => "block4" \in objs
      /\ "rule4" \in Guards => "rule4" \in objs
      /\ "block6" \in Guards => "block6" \in objs
      /\ "rule6" \in Guards => "rule6" \in objs
  BY <1>2, UpStepList
<1> QED BY <1>3 DEF Guards

\* An optional command is skipped only where it is not needed.
LEMMA SkippedGuard ==
    ASSUME NEW s \in OptionalSteps, ~Works(s), s \in Guards
    PROVE  s \in objs
BY DEF OptionalSteps, Works, Needs, Guards

\* With one helper at a time and optional commands that only fail without IPv6,
\* the ruleset never marks packets before what blocks them is in place.
LEMMA ClosedKept ==
    ASSUME "overlap" \notin Faults, "optfail" \notin Faults, "nft" \notin Failing
    PROVE  TypeOK /\ TurnsInv /\ ClosedInv /\ [Next]_vars => ClosedInv'
<1> SUFFICES ASSUME TypeOK, TurnsInv, ClosedInv, [Next]_vars
             PROVE  ClosedInv'
  OBVIOUS
<1>0. /\ Alone
      /\ 1 \in 1..Len(UpSteps)
      /\ Phases = {"idle", "clear", "write", "up", "rollback", "down",
                   "stop_anchor"}
  BY UpStepList DEF TurnsInv, Phases
\* A helper that has nothing in place yet; what marks packets is unchanged
\* or gone.
<1>00. ASSUME NEW p \in Procs, NEW ph \in Phases, At(p, ph, 1),
              MayStart \/ phase[p] # "idle",
              \/ nft' = {}
              \/ UNCHANGED <<nft, objs>>
       PROVE  ClosedInv'
  <2>1. phase'[p] = ph /\ idx'[p] = 1
    BY <1>0, <1>00, AtTypes
  <2>2. \A q \in Procs : q # p => phase'[q] = "idle"
    BY <1>0, <1>00, AtTypes, OthersIdle
  <2>3. \A q \in Procs : GuardedOf(q)'
    BY <2>1, <2>2 DEF GuardedOf
  <2>4. nft' # {} => Guards \subseteq objs'
    BY <1>00 DEF ClosedInv
  <2>5. UNCHANGED Guards
    BY DEF Guards
  <2> QED BY <2>3, <2>4, <2>5 DEF ClosedInv
\* Nobody moves, and no guard is taken away.
<1>000. ASSUME UNCHANGED <<phase, idx, nft>>,
               objs' \subseteq objs, objs \cap Guards \subseteq objs'
        PROVE  ClosedInv'
  BY <1>000 DEF ClosedInv, GuardedOf, Guards
<1>1. ASSUME NEW p \in Procs, TunnelUp(p) PROVE ClosedInv'
  <2>1. CASE At(p, "clear", 1)
    BY <1>0, <1>00, <1>1, <2>1 DEF TunnelUp, kernel
  <2>2. CASE UNCHANGED <<phase, idx>>
    BY <1>000, <1>1, <2>2 DEF TunnelUp, kernel
  <2> QED BY <1>1, <2>1, <2>2 DEF TunnelUp
<1>2. ASSUME NEW p \in Procs, Clear(p) \/ Rollback(p) \/ Down(p)
      PROVE  ClosedInv'
  <2>1. DownStep(p) /\ phase[p] \in Undoing
    BY <1>2 DEF Clear, Rollback, Down, Undoing
  <2>2. idx[p] \in 1..6 /\ nft' = {}
    BY <2>1, DownStepTears DEF TurnsInv
  <2>3. CASE idx[p] < Len(DownSteps)
    <3>1. At(p, phase[p], idx[p] + 1)
      BY <1>2, <2>3 DEF Clear, Rollback, Down
    <3>2. phase[p] \in Phases /\ idx[p] + 1 \in 1..Len(UpSteps)
      BY <2>2, UpStepList DEF TypeOK
    <3>3. phase'[p] \in Undoing
      BY <2>1, <3>1, <3>2, AtTypes
    <3>4. \A q \in Procs : q # p => phase'[q] = "idle"
      BY <1>0, <2>1, <3>1, <3>2, AtTypes, OthersIdle DEF Undoing
    <3>5. \A q \in Procs : GuardedOf(q)'
      BY <3>3, <3>4 DEF GuardedOf, Undoing
    <3> QED BY <2>2, <3>5 DEF ClosedInv
  <2>4. CASE ~(idx[p] < Len(DownSteps))
    <3>1. \E ph \in Phases : At(p, ph, 1)
      BY <1>0, <1>2, <2>4 DEF Clear, Rollback, Down
    <3> QED BY <1>00, <2>1, <2>2, <3>1 DEF Undoing
  <2> QED BY <2>3, <2>4
<1>3. ASSUME NEW p \in Procs, WriteFiles(p) PROVE ClosedInv'
  <2>1. /\ phase[p] = "write" /\ UNCHANGED kernel
        /\ At(p, "up", 1) \/ At(p, "idle", 1)
    BY <1>3 DEF WriteFiles
  <2> QED BY <1>0, <1>00, <2>1 DEF kernel
<1>4. ASSUME NEW p \in Procs, UpStep(p) PROVE ClosedInv'
  <2>0. /\ phase[p] = "up" /\ nft = {} /\ idx[p] \in 1..Len(UpSteps)
        /\ GuardedOf(p)
    BY <1>4 DEF UpStep, TurnsInv, TornOf, TypeOK, ClosedInv
  <2>1. CASE UpFails(p) /\ UNCHANGED kernel
    BY <1>0, <1>00, <2>0, <2>1 DEF UpFails, kernel
  <2>2. CASE UpSteps[idx[p]] = "nft" /\ At(p, "idle", 1) /\ UNCHANGED objs
    <3>1. Guards \subseteq objs
      BY <2>0, <2>2, GuardsInPlace
    <3>2. \A q \in Procs : phase'[q] = "idle"
      BY <1>0, <2>0, <2>2, AtTypes, OthersIdle
    <3> QED BY <2>2, <3>1, <3>2 DEF ClosedInv, GuardedOf, Guards
  <2>3. CASE /\ UpSteps[idx[p]] # "nft"
             /\ At(p, "up", idx[p] + 1)
             /\ UNCHANGED nft
             /\ objs \subseteq objs'
             /\ UpSteps[idx[p]] \in Guards => UpSteps[idx[p]] \in objs'
    <3>1. idx[p] \in 1..10 /\ idx[p] + 1 \in 1..Len(UpSteps)
      BY <2>0, <2>3, UpStepPositions, UpStepList
    <3>2. phase'[p] = "up" /\ idx'[p] = idx[p] + 1
      BY <1>0, <2>3, <3>1, AtTypes
    <3>3. GuardedOf(p)'
      <4> SUFFICES ASSUME NEW i \in 1..idx[p], UpSteps[i] \in Guards
                   PROVE  UpSteps[i] \in objs'
        BY <3>1, <3>2 DEF GuardedOf, Guards
      <4>1. i = idx[p] \/ i \in 1..idx[p] - 1
        BY <3>1
      <4> QED BY <2>0, <2>3, <4>1 DEF GuardedOf
    <3>4. \A q \in Procs : q # p => phase'[q] = "idle"
      BY <1>0, <2>0, <2>3, <3>1, AtTypes, OthersIdle
    <3>5. \A q \in Procs : GuardedOf(q)'
      BY <3>3, <3>4 DEF GuardedOf
    <3> QED BY <2>0, <2>3, <3>5 DEF ClosedInv
  <2>4. \/ UpFails(p) /\ UNCHANGED kernel
        \/ UpSteps[idx[p]] = "nft" /\ At(p, "idle", 1) /\ UNCHANGED objs
        \/ /\ UpSteps[idx[p]] # "nft"
           /\ At(p, "up", idx[p] + 1)
           /\ UNCHANGED nft
           /\ objs' = objs \cup {UpSteps[idx[p]]}
        \/ /\ UpSteps[idx[p]] \in OptionalSteps
           /\ ~Works(UpSteps[idx[p]])
           /\ At(p, "up", idx[p] + 1)
           /\ UNCHANGED <<nft, objs>>
    BY <1>4 DEF UpStep, kernel
  <2>5. "nft" \notin OptionalSteps
    BY DEF OptionalSteps
  <2> QED BY <2>1, <2>2, <2>3, <2>4, <2>5, SkippedGuard
<1>5. ASSUME NEW p \in Procs, TunnelDown(p) PROVE ClosedInv'
  BY <1>0, <1>00, <1>5 DEF TunnelDown, kernel
<1>6. ASSUME NEW p \in Procs, StopAnchor(p) \/ Crash(p) PROVE ClosedInv'
  <2>1. At(p, "idle", 1) /\ phase[p] # "idle" /\ UNCHANGED kernel
    BY <1>6 DEF StopAnchor, Crash
  <2> QED BY <1>0, <1>00, <2>1 DEF kernel
<1>7. CASE \/ \E w \in Importers, text \in Texts : InstallConfig(w, text)
           \/ \E w \in Importers : InstallWrites(w)
           \/ LaunchCheck \/ LaunchSpawn \/ AppExits \/ Logout
           \/ UNCHANGED vars
  <2>1. UNCHANGED <<objs, nft, phase, idx>>
    BY <1>7 DEF InstallConfig, InstallWrites, LaunchCheck, LaunchSpawn,
       AppExits, Logout, vars, kernel, helpers
  <2> QED BY <1>000, <2>1
<1>8. CASE LinkLost
  <2>1. /\ UNCHANGED <<phase, idx, nft>>
        /\ objs' = objs \ {"link", "setconf", "addr", "linkup", "route4"}
    BY <1>8 DEF LinkLost, Removes, helpers
  <2> QED BY <1>000, <2>1 DEF Guards
<1> QED BY <1>1, <1>2, <1>3, <1>4, <1>5, <1>6, <1>7, <1>8 DEF Next

\* With one helper at a time, on a host whose IPv6 commands work and whose nft
\* deletes a table when told to, and through any other failed command of up or
\* down, kills between any two of them, a lost interface and a logout: while
\* the ruleset marks packets, none of them leaves by the normal path.
THEOREM NoMarkedLeak ==
    ASSUME "overlap" \notin Faults, "optfail" \notin Faults, "nft" \notin Failing
    PROVE  Spec => []FailsClosed
<1>1. Init => ClosedInv
  BY DEF Init, ClosedInv, GuardedOf
<1>2. ClosedInv => FailsClosed
  BY DEF ClosedInv, Guards, FailsClosed, MarkedFate
<1> QED BY <1>1, <1>2, ClosedKept, TurnsAlways, TypeCorrect, PTL DEF Spec

---------------------------------------------------------------------------
(* Helpers that overlap.                                                   *)

\* The tunnel stands: packets are marked and sent into it.
Whole == nft # {} /\ {"rule4", "route4"} \subseteq objs

\* An up is building the tunnel, and every required object so far is there.
BuiltBy(p) ==
    /\ phase[p] = "up"
    /\ idx[p] > 1
    /\ \A i \in 1..idx[p] - 1 :
         UpSteps[i] \notin OptionalSteps => UpSteps[i] \in objs

\* An interface that is there belongs to a whole tunnel, is about to be taken
\* down by some helper, or is being made one by some helper.
RestInv ==
    IsUp => Whole \/ \E p \in Procs : phase[p] \in Undoing \/ BuiltBy(p)

\* The private key is on disk only while some up is still running.
KeyInv == keyfile => \E p \in Procs : phase[p] = "up"

\* What a step of another helper cannot disturb.
LEMMA RestKept ==
    ASSUME RestInv, IsUp' => IsUp /\ objs \subseteq objs',
           nft' = nft \/ nft' # {},
           \A q \in Procs : phase[q] \in Undoing \/ BuiltBy(q) =>
             \/ UNCHANGED <<phase[q], idx[q]>>
             \/ BuiltBy(q)'
             \/ phase'[q] \in Undoing
             \/ Whole'
    PROVE  RestInv'
<1> SUFFICES ASSUME IsUp'
             PROVE  Whole' \/ \E p \in Procs : phase'[p] \in Undoing \/ BuiltBy(p)'
  BY DEF RestInv
<1>1. IsUp /\ objs \subseteq objs'
  OBVIOUS
<1>2. CASE Whole
  BY <1>1, <1>2 DEF Whole
<1>3. ASSUME NEW q \in Procs, phase[q] \in Undoing \/ BuiltBy(q)
      PROVE  Whole' \/ phase'[q] \in Undoing \/ BuiltBy(q)'
  BY <1>1, <1>3 DEF BuiltBy
<1> QED BY <1>1, <1>2, <1>3 DEF RestInv

\* If no helper is killed, every step leaves an interface that is there with a
\* helper that answers for it, however many helpers overlap.
LEMMA RestStep ==
    ASSUME "crash" \notin Faults, "link" \notin Failing
    PROVE  TypeOK /\ RestInv /\ [Next]_vars => RestInv'
<1> SUFFICES ASSUME TypeOK, RestInv, [Next]_vars PROVE RestInv'
  OBVIOUS
<1>0. /\ 1 \in 1..Len(UpSteps)
      /\ Phases = {"idle", "clear", "write", "up", "rollback", "down",
                   "stop_anchor"}
  BY UpStepList DEF Phases
\* A helper that was not a witness moves, and the kernel stays as it is.
<1>00. ASSUME NEW p \in Procs, NEW ph \in Phases, At(p, ph, 1),
              phase[p] \notin Undoing, ~BuiltBy(p), UNCHANGED <<objs, nft>>
       PROVE  RestInv'
  <2>1. \A q \in Procs : q # p => UNCHANGED <<phase[q], idx[q]>>
    BY <1>0, <1>00, AtTypes
  <2> QED BY <1>00, <2>1, RestKept DEF IsUp
<1>1. ASSUME NEW p \in Procs, TunnelUp(p) PROVE RestInv'
  <2>1. CASE At(p, "clear", 1)
    BY <1>0, <1>00, <1>1, <2>1 DEF TunnelUp, kernel, Undoing, BuiltBy
  <2>2. CASE UNCHANGED <<phase, idx>>
    BY <1>1, <2>2, RestKept DEF TunnelUp, kernel, IsUp
  <2> QED BY <1>1, <2>1, <2>2 DEF TunnelUp
<1>2. ASSUME NEW p \in Procs, Clear(p) \/ Rollback(p) \/ Down(p)
      PROVE  RestInv'
  <2>1. DownStep(p) /\ phase[p] \in Undoing
    BY <1>2 DEF Clear, Rollback, Down, Undoing
  <2>2. CASE idx[p] < Len(DownSteps)
    <3>1. At(p, phase[p], idx[p] + 1)
      BY <1>2, <2>2 DEF Clear, Rollback, Down
    <3>2. phase[p] \in Phases /\ idx[p] + 1 \in 1..Len(UpSteps)
      BY <2>2, UpStepList, DownStepList DEF TypeOK
    <3>3. phase'[p] \in Undoing
      BY <2>1, <3>1, <3>2, AtTypes
    <3> QED BY <3>3 DEF RestInv
  <2>3. CASE ~(idx[p] < Len(DownSteps))
    <3>1. idx[p] = 6
      BY <2>1, <2>3, DownStepList DEF TypeOK, Undoing
    <3>2. Undoes("link")
      BY <2>1, <3>1, DownStepList DEF DownStep
    <3> QED BY <3>1, <3>2, DownStepList, DownStepRemoves DEF Undoes, RestInv, IsUp
  <2> QED BY <2>2, <2>3
<1>3. ASSUME NEW p \in Procs, WriteFiles(p) PROVE RestInv'
  <2>1. /\ phase[p] = "write" /\ UNCHANGED kernel
        /\ At(p, "up", 1) \/ At(p, "idle", 1)
    BY <1>3 DEF WriteFiles
  <2> QED BY <1>0, <1>00, <2>1 DEF kernel, Undoing, BuiltBy
<1>4. ASSUME NEW p \in Procs, UpStep(p) PROVE RestInv'
  <2> DEFINE s == UpSteps[idx[p]]
  <2>0. /\ phase[p] = "up" /\ idx[p] \in 1..Len(UpSteps)
        /\ idx[p] \in 1..10
    BY <1>4, UpStepList DEF UpStep, TypeOK
  <2>00. \A ph \in Phases, i \in 1..Len(UpSteps) : At(p, ph, i) =>
           /\ phase'[p] = ph /\ idx'[p] = i
           /\ \A q \in Procs : q # p => UNCHANGED <<phase[q], idx[q]>>
    BY AtTypes
  <2>1. CASE UpFails(p)
    <3>1. phase'[p] = "rollback"
      BY <1>0, <2>00, <2>1 DEF UpFails
    <3> QED BY <3>1 DEF RestInv, Undoing
  <2>2. CASE /\ s = "nft" /\ At(p, "idle", 1)
             /\ nft' = nft \cup {cg} /\ cg # 0 /\ UNCHANGED objs
    <3>1. idx[p] = 10
      BY <2>0, <2>2, UpStepPositions
    <3>2. BuiltBy(p) => Whole'
      <4> SUFFICES ASSUME BuiltBy(p) PROVE Whole'
        OBVIOUS
      <4>1. \A i \in 1..9 : UpSteps[i] \notin OptionalSteps => UpSteps[i] \in objs
        BY <3>1 DEF BuiltBy
      <4>2. "route4" \in objs /\ "rule4" \in objs
        BY <4>1, UpStepList DEF OptionalSteps
      <4> QED BY <2>2, <4>2 DEF Whole
    <3>3. \A q \in Procs : q # p => UNCHANGED <<phase[q], idx[q]>>
      BY <1>0, <2>00, <2>2
    <3> QED BY <2>0, <2>2, <3>2, <3>3, RestKept DEF IsUp, Undoing
  <2>3. CASE /\ s # "nft" /\ At(p, "up", idx[p] + 1) /\ UNCHANGED nft
             /\ objs \subseteq objs'
             /\ IsUp' => IsUp \/ s = "link"
             /\ s \notin OptionalSteps => s \in objs'
    <3>0. s # "nft" /\ At(p, "up", idx[p] + 1) /\ s = UpSteps[idx[p]]
      BY <2>3
    <3>1. idx[p] + 1 \in 1..Len(UpSteps) /\ idx[p] + 1 > 1
      BY <2>0, <3>0, UpStepPositions, UpStepList
    <3>2. /\ phase'[p] = "up" /\ idx'[p] = idx[p] + 1
          /\ \A q \in Procs : q # p => UNCHANGED <<phase[q], idx[q]>>
      BY <1>0, <2>00, <3>0, <3>1
    <3>3. CASE idx[p] = 1
      <4>1. BuiltBy(p)'
        BY <2>3, <3>2, <3>3, UpStepList DEF BuiltBy, OptionalSteps
      <4> QED BY <4>1 DEF RestInv
    <3>4. CASE idx[p] # 1
      <4>1. s # "link"
        <5>1. idx[p] = 2 \/ idx[p] = 3 \/ idx[p] = 4 \/ idx[p] = 5
                \/ idx[p] = 6 \/ idx[p] = 7 \/ idx[p] = 8 \/ idx[p] = 9
                \/ idx[p] = 10
          BY <2>0, <3>4
        <5> QED BY <5>1, UpStepList
      <4>2. BuiltBy(p) => BuiltBy(p)'
        <5> SUFFICES ASSUME BuiltBy(p) PROVE BuiltBy(p)'
          OBVIOUS
        <5>1. ASSUME NEW i \in 1..idx'[p] - 1, UpSteps[i] \notin OptionalSteps
              PROVE  UpSteps[i] \in objs'
          <6>1. i = idx[p] \/ i \in 1..idx[p] - 1
            BY <2>0, <3>2
          <6> QED BY <2>3, <5>1, <6>1 DEF BuiltBy
        <5> QED BY <3>1, <3>2, <5>1 DEF BuiltBy
      <4>3. IsUp' => IsUp /\ objs \subseteq objs'
        BY <2>3, <4>1
      <4>4. UNCHANGED nft
        BY <2>3
      <4> QED BY <2>0, <3>2, <4>2, <4>3, <4>4, RestKept DEF Undoing
    <3> QED BY <3>3, <3>4
  <2>4. \/ UpFails(p)
        \/ /\ s = "nft" /\ At(p, "idle", 1)
           /\ nft' = nft \cup {cg} /\ cg # 0 /\ UNCHANGED objs
        \/ /\ s # "nft" /\ At(p, "up", idx[p] + 1) /\ UNCHANGED nft
           /\ objs' = objs \cup {s}
        \/ /\ s \in OptionalSteps /\ At(p, "up", idx[p] + 1)
           /\ UNCHANGED <<nft, objs>>
    BY <1>4 DEF UpStep, Works, kernel
  <2>5. "nft" \notin OptionalSteps
    BY DEF OptionalSteps
  <2> HIDE DEF s
  <2> QED BY <2>1, <2>2, <2>3, <2>4, <2>5 DEF IsUp
<1>5. ASSUME NEW p \in Procs, TunnelDown(p) PROVE RestInv'
  BY <1>0, <1>00, <1>5 DEF TunnelDown, kernel, Undoing, BuiltBy
<1>6. ASSUME NEW p \in Procs, StopAnchor(p) \/ Crash(p) PROVE RestInv'
  <2>1. /\ At(p, "idle", 1) /\ phase[p] = "stop_anchor"
        /\ UNCHANGED kernel
    BY <1>6 DEF StopAnchor, Crash
  <2> QED BY <1>0, <1>00, <2>1 DEF kernel, Undoing, BuiltBy
<1>7. CASE \/ \E w \in Importers, text \in Texts : InstallConfig(w, text)
           \/ \E w \in Importers : InstallWrites(w)
           \/ LaunchCheck \/ LaunchSpawn \/ AppExits \/ Logout
           \/ UNCHANGED vars
  <2>1. UNCHANGED <<objs, nft, phase, idx>>
    BY <1>7 DEF InstallConfig, InstallWrites, LaunchCheck, LaunchSpawn,
       AppExits, Logout, vars, kernel, helpers
  <2> QED BY <2>1, RestKept DEF IsUp
<1>8. CASE LinkLost
  BY <1>8 DEF LinkLost, Removes, RestInv, IsUp
<1> QED BY <1>1, <1>2, <1>3, <1>4, <1>5, <1>6, <1>7, <1>8 DEF Next

\* As long as no helper is killed and `ip link del' works, however many of them
\* overlap, whatever other commands of up or down fail and whatever is undone
\* behind their backs: when all are done, an interface that stands is a whole
\* tunnel.
THEOREM RestIsComplete ==
    ASSUME "crash" \notin Faults, "link" \notin Failing
    PROVE  Spec => []AtRestComplete
<1>1. Init => RestInv
  BY DEF Init, RestInv, IsUp
<1>2. RestInv => AtRestComplete
  BY DEF RestInv, AtRestComplete, AllIdle, Whole, MarkedFate, Undoing, BuiltBy
<1> QED BY <1>1, <1>2, RestStep, TypeCorrect, PTL DEF Spec

\* If no helper is killed and no file fails to be written, every step that takes
\* the last up away from the key file removes the file.
LEMMA KeyStep ==
    ASSUME "crash" \notin Faults, "writefail" \notin Faults
    PROVE  TypeOK /\ KeyInv /\ [Next]_vars => KeyInv'
<1> SUFFICES ASSUME TypeOK, KeyInv, [Next]_vars, keyfile'
             PROVE  \E p \in Procs : phase'[p] = "up"
  BY DEF KeyInv
<1>0. 1 \in 1..Len(UpSteps)
  BY UpStepList
<1>1. ASSUME keyfile, \A p \in Procs : phase[p] = "up" => phase'[p] = "up"
      PROVE  \E p \in Procs : phase'[p] = "up"
  BY <1>1 DEF KeyInv
\* A helper that is not in up moves.
<1>2. ASSUME NEW p \in Procs, phase[p] # "up", UNCHANGED keyfile,
             \E ph, i : At(p, ph, i)
      PROVE  \E q \in Procs : phase'[q] = "up"
  BY <1>1, <1>2 DEF At
<1>3. CASE \E p \in Procs : TunnelUp(p)
  BY <1>1, <1>2, <1>3 DEF TunnelUp
<1>4. CASE \E p \in Procs : Clear(p) \/ Rollback(p) \/ Down(p)
  BY <1>2, <1>4 DEF Clear, Rollback, Down
<1>5. ASSUME NEW p \in Procs, WriteFiles(p)
      PROVE  \E q \in Procs : phase'[q] = "up"
  <2>1. CASE At(p, "up", 1)
    BY <2>1 DEF At, TypeOK
  <2>2. CASE ~At(p, "up", 1)
    <3>1. phase[p] = "write" /\ At(p, "idle", 1) /\ UNCHANGED keyfile
      BY <1>5, <2>2 DEF WriteFiles
    <3> QED BY <1>2, <3>1
  <2> QED BY <2>1, <2>2
<1>6. ASSUME NEW p \in Procs, UpStep(p)
      PROVE  \E q \in Procs : phase'[q] = "up"
  <2>1. At(p, "up", idx[p] + 1)
    BY <1>6 DEF UpStep, UpFails
  <2> QED BY <2>1 DEF At, TypeOK
<1>7. CASE \E p \in Procs : TunnelDown(p) \/ StopAnchor(p) \/ Crash(p)
  BY <1>2, <1>7 DEF TunnelDown, StopAnchor, Crash
<1>8. CASE \/ \E w \in Importers, text \in Texts : InstallConfig(w, text)
           \/ \E w \in Importers : InstallWrites(w)
           \/ LaunchCheck \/ LaunchSpawn \/ AppExits \/ LinkLost \/ Logout
           \/ UNCHANGED vars
  <2>1. UNCHANGED <<keyfile, phase>>
    BY <1>8 DEF InstallConfig, InstallWrites, LaunchCheck, LaunchSpawn,
       AppExits, LinkLost, Logout, vars, helpers
  <2> QED BY <1>1, <2>1
<1> QED BY <1>3, <1>4, <1>5, <1>6, <1>7, <1>8 DEF Next

\* As long as no helper is killed and its files can be written, and however
\* many overlap: the file with the private key does not outlive them.
THEOREM KeyRemoved ==
    ASSUME "crash" \notin Faults, "writefail" \notin Faults
    PROVE  Spec => []KeyNotLeft
<1>1. Init => KeyInv
  BY DEF Init, KeyInv
<1>2. KeyInv => KeyNotLeft
  BY DEF KeyInv, KeyNotLeft, AllIdle
<1> QED BY <1>1, <1>2, KeyStep, TypeCorrect, PTL DEF Spec

---------------------------------------------------------------------------
(* What wg is handed of wg.conf.                                           *)

\* A set of numbers that is not empty has a least one.
LEMMA LeastOf ==
    ASSUME NEW S \in SUBSET Nat, S # {}
    PROVE  \E x \in S : \A y \in S : x <= y
<1>1. PICK x \in S : \A y \in S : ~(<<y, x>> \in OpToRel(<, Nat))
  BY NatLessThanWellFounded, WFMin
<1>2. \A y \in S : ~(y < x)
  BY <1>1 DEF OpToRel
<1> QED BY <1>2

---------------------------------------------------------------------------
(* What parse has after each line.                                         *)

\* f gives what parse has after each of the first k lines.
Reads(f, text, k) ==
    /\ f = [n \in 0..k |-> f[n]]
    /\ f[0] = Start
    /\ \A n \in 1..k : f[n] = OnLine(f[n - 1], text[n])

\* One line more can be read,
LEMMA OneLineMore ==
    ASSUME NEW text, NEW k \in Nat, NEW f, Reads(f, text, k)
    PROVE  \E g : Reads(g, text, k + 1)
<1> DEFINE g == [n \in 0..k + 1 |-> IF n = k + 1 THEN OnLine(f[k], text[k + 1]) ELSE f[n]]
<1>0. g = [n \in 0..k + 1 |-> g[n]]
  OBVIOUS
<1>1. \A n \in 0..k : g[n] = f[n]
  OBVIOUS
<1>2. g[k + 1] = OnLine(f[k], text[k + 1])
  OBVIOUS
<1> HIDE DEF g
<1>3. g[0] = Start
  BY <1>1 DEF Reads
<1>4. ASSUME NEW n \in 1..k + 1 PROVE g[n] = OnLine(g[n - 1], text[n])
  <2>1. CASE n = k + 1
    <3>1. n - 1 = k /\ k \in 0..k
      BY <2>1
    <3>2. g[n - 1] = f[k]
      BY <1>1, <3>1
    <3> QED BY <1>2, <2>1, <3>2
  <2>2. CASE n # k + 1
    <3>1. n \in 1..k /\ n \in 0..k /\ n - 1 \in 0..k
      BY <2>2
    <3>2. g[n] = f[n] /\ g[n - 1] = f[n - 1]
      BY <1>1, <3>1
    <3> QED BY <3>1, <3>2 DEF Reads
  <2> QED BY <2>1, <2>2
<1>5. Reads(g, text, k + 1)
  BY <1>0, <1>3, <1>4 DEF Reads
<1> QED BY <1>5

\* so any number of lines can.
LEMMA LinesCanBeRead ==
    ASSUME NEW text, NEW m \in Nat
    PROVE  \E f : Reads(f, text, m)
<1> DEFINE Has(k) == \E f : Reads(f, text, k)
           Bad == {k \in Nat : ~Has(k)}
<1>1. SUFFICES ASSUME Bad # {} PROVE FALSE
  <2> HIDE DEF Has
  <2>1. Has(m)
    BY <1>1
  <2> QED BY <2>1 DEF Has
<1>2. PICK k \in Bad : \A j \in Bad : k <= j
  <2>1. Bad \in SUBSET Nat
    OBVIOUS
  <2> HIDE DEF Bad
  <2> QED BY <1>1, <2>1, LeastOf
<1>3. k \in Nat /\ ~Has(k) /\ \A j \in Nat : j < k => Has(j)
  <2> HIDE DEF Has
  <2> QED BY <1>2
<1>4. CASE k = 0
  <2> DEFINE f == [n \in 0..0 |-> Start]
  <2>1. Reads(f, text, 0)
    BY DEF Reads
  <2> HIDE DEF f
  <2> QED BY <1>3, <1>4, <2>1
<1>5. CASE k # 0
  <2>1. k - 1 \in Nat /\ k - 1 < k /\ (k - 1) + 1 = k
    BY <1>3, <1>5
  <2>2. PICK f : Reads(f, text, k - 1)
    BY <1>3, <2>1
  <2>3. \E g : Reads(g, text, k)
    BY <2>1, <2>2, OneLineMore
  <2> QED BY <1>3, <2>3
<1> QED BY <1>4, <1>5

\* parse is such a reading of the whole text, and what it tells of the end.
LEMMA ParseReads ==
    ASSUME NEW text, Len(text) \in Nat
    PROVE  \E f : /\ Reads(f, text, Len(text))
                  /\ Parse(text) =
                       LET c == f[Len(text)] IN
                         IF c.ok /\ c.private /\ c.peers # <<>> /\ c.v4 # {}
                              /\ \A i \in DOMAIN c.peers : c.peers[i]
                         THEN c ELSE Invalid
<1> DEFINE m == Len(text)
           Is(f) == f = [n \in 0..m |-> IF n = 0 THEN Start ELSE OnLine(f[n - 1], text[n])]
           after == CHOOSE f : Is(f)
<1>1. PICK g : Reads(g, text, m)
  BY LinesCanBeRead
<1>2. Is(g)
  <2> HIDE DEF m
  <2>1. m \in Nat
    BY DEF m
  <2>2. \A n \in 0..m : g[n] = IF n = 0 THEN Start ELSE OnLine(g[n - 1], text[n])
    BY <1>1, <2>1 DEF Reads
  <2>3. g = [n \in 0..m |-> g[n]]
    BY <1>1 DEF Reads
  <2> QED BY <2>2, <2>3
<1>3. Is(after)
  <2> HIDE DEF Is
  <2> QED BY <1>2
<1>4. Parse(text) =
        LET c == after[m] IN
          IF c.ok /\ c.private /\ c.peers # <<>> /\ c.v4 # {}
               /\ \A i \in DOMAIN c.peers : c.peers[i]
          THEN c ELSE Invalid
  BY DEF Parse
<1>5. Reads(after, text, m)
  <2> HIDE DEF after
  <2> HIDE DEF m
  <2>1. m \in Nat
    BY DEF m
  <2>2. after = [n \in 0..m |-> after[n]]
    BY <1>3
  <2>3. \A n \in 0..m : after[n] = IF n = 0 THEN Start ELSE OnLine(after[n - 1], text[n])
    BY <1>3
  <2> QED BY <2>1, <2>2, <2>3 DEF Reads
<1> HIDE DEF after
<1> QED BY <1>4, <1>5

---------------------------------------------------------------------------
(* Counting lines.                                                         *)

\* What one line more adds to a count
LEMMA UpToNext ==
    ASSUME NEW S \in SUBSET Nat, IsFiniteSet(S), NEW i \in Nat
    PROVE  /\ UpTo(S, i) \in Nat
           /\ UpTo(S, i + 1) = UpTo(S, i) + IF i + 1 \in S THEN 1 ELSE 0
<1> DEFINE A == {j \in S : j <= i}
           B == {j \in S : j <= i + 1}
<1>1. IsFiniteSet(A) /\ Cardinality(A) \in Nat
  <2>1. A \subseteq S
    OBVIOUS
  <2>2. IsFiniteSet(A)
    BY <2>1, FS_Subset
  <2> QED BY <2>2, FS_CardinalityType
<1>0. \A j \in S : j \in Nat
  OBVIOUS
<1>2. CASE i + 1 \in S
  <2>1. B = A \cup {i + 1} /\ i + 1 \notin A
    <3>1. \A j \in S : j <= i + 1 <=> j <= i \/ j = i + 1
      BY <1>0
    <3>2. ~(i + 1 <= i)
      OBVIOUS
    <3> QED BY <1>2, <3>1, <3>2
  <2> HIDE DEF A, B
  <2>2. Cardinality(B) = Cardinality(A) + 1
    BY <1>1, <2>1, FS_AddElement
  <2> QED BY <1>1, <1>2, <2>2 DEF UpTo, A, B
<1>3. CASE i + 1 \notin S
  <2>1. B = A
    <3>1. \A j \in S : j <= i + 1 <=> j <= i
      BY <1>0, <1>3
    <3> QED BY <3>1
  <2>2. UpTo(S, i) = Cardinality(A) /\ UpTo(S, i + 1) = Cardinality(B)
    BY DEF UpTo
  <2> HIDE DEF A, B
  <2> QED BY <1>1, <1>3, <2>1, <2>2
<1> QED BY <1>2, <1>3

\* A count never falls, and a line that is counted adds one.
LEMMA UpToGrows ==
    ASSUME NEW S \in SUBSET Nat, IsFiniteSet(S), NEW i \in Nat, NEW j \in Nat
    PROVE  /\ i <= j => UpTo(S, i) <= UpTo(S, j)
           /\ i < j /\ j \in S => UpTo(S, i) < UpTo(S, j)
<1>1. ASSUME NEW m \in Nat, NEW n \in Nat, m <= n
      PROVE  UpTo(S, m) <= UpTo(S, n)
  <2> DEFINE A == {x \in S : x <= m}
             B == {x \in S : x <= n}
  <2>1. A \subseteq B /\ B \subseteq S
    <3>1. \A x \in S : x \in Nat /\ (x <= m => x <= n)
      <4>1. \A x \in S : x \in Nat
        OBVIOUS
      <4> QED BY <1>1, <4>1
    <3> QED BY <3>1
  <2> HIDE DEF A, B
  <2>2. IsFiniteSet(B)
    BY <2>1, FS_Subset
  <2>3. Cardinality(A) <= Cardinality(B)
    BY <2>1, <2>2, FS_Subset
  <2> QED BY <2>3 DEF UpTo, A, B
<1>2. ASSUME i < j, j \in S PROVE UpTo(S, i) < UpTo(S, j)
  <2>1. j - 1 \in Nat /\ i <= j - 1 /\ (j - 1) + 1 = j
    BY <1>2
  <2>2. UpTo(S, i) <= UpTo(S, j - 1)
    BY <1>1, <2>1
  <2>3. UpTo(S, j) = UpTo(S, j - 1) + 1 /\ UpTo(S, j - 1) \in Nat
    BY <1>2, <2>1, UpToNext
  <2>4. UpTo(S, i) \in Nat
    BY UpToNext
  <2> QED BY <2>2, <2>3, <2>4
<1> QED BY <1>1, <1>2

\* None are counted up to 0; one that is counted has a number of its own.
LEMMA UpToNumbers ==
    ASSUME NEW S \in SUBSET (Nat \ {0}), IsFiniteSet(S)
    PROVE  /\ UpTo(S, 0) = 0
           /\ \A n \in Nat : \A i \in S :
                i <= n => UpTo(S, i) \in 1..UpTo(S, n)
<1>0. S \in SUBSET Nat
  OBVIOUS
<1>1. UpTo(S, 0) = 0
  <2>1. {j \in S : j <= 0} = {}
    <3>1. \A j \in S : j \in Nat \ {0}
      OBVIOUS
    <3>2. \A j \in S : ~(j <= 0)
      BY <3>1
    <3> QED BY <3>2
  <2> QED BY <2>1, FS_EmptySet DEF UpTo
<1>2. ASSUME NEW n \in Nat, NEW i \in S, i <= n PROVE UpTo(S, i) \in 1..UpTo(S, n)
  <2>1. i \in Nat /\ 0 < i
    OBVIOUS
  <2>2. UpTo(S, i) <= UpTo(S, n)
    BY <1>0, <1>2, <2>1, UpToGrows
  <2>3. 0 < UpTo(S, i)
    BY <1>0, <1>1, <2>1, UpToGrows
  <2>4. UpTo(S, i) \in Nat /\ UpTo(S, n) \in Nat
    BY <1>0, <2>1, UpToNext
  <2> QED BY <2>2, <2>3, <2>4
<1> QED BY <1>1, <1>2

\* All are counted at the end.
LEMMA UpToAll ==
    ASSUME NEW n \in Nat, NEW S \in SUBSET (1..n)
    PROVE  /\ IsFiniteSet(S) /\ S \in SUBSET (Nat \ {0})
           /\ UpTo(S, n) = Cardinality(S)
<1>1. IsFiniteSet(S)
  <2>1. IsFiniteSet(1..n)
    BY FS_Interval
  <2> QED BY <2>1, FS_Subset
<1>2. {j \in S : j <= n} = S
  <2>1. \A j \in S : j \in 1..n
    OBVIOUS
  <2>2. \A j \in S : j <= n
    BY <2>1
  <2> QED BY <2>2
<1>3. UpTo(S, n) = Cardinality(S)
  BY <1>2 DEF UpTo
<1> QED BY <1>1, <1>3

---------------------------------------------------------------------------
(* Sections.                                                               *)

\* Where the section of line n starts: the last line of its kind, or none
StartsAt(text, h, n) ==
    /\ h \in 0..n
    /\ h # 0 => IsSection(text[h])
    /\ \A k \in h + 1..n : ~IsSection(text[k])

\* The section that a line is in is the one that started last.
LEMMA SectionIs ==
    ASSUME NEW text, NEW n \in Nat, NEW h, StartsAt(text, h, n)
    PROVE  SectionAt(text, n) = IF h = 0 THEN "" ELSE text[h].section
<1> DEFINE heads == {j \in 1..n : IsSection(text[j])}
           last == CHOOSE j \in heads : \A k \in heads : k <= j
<1>1. h \in Nat /\ \A j \in heads : j <= h /\ j \in Nat
  BY DEF StartsAt
<1>2. CASE h = 0
  <2>1. heads = {}
    BY <1>1, <1>2
  <2> QED BY <1>2, <2>1 DEF SectionAt
<1>3. CASE h # 0
  <2>1. h \in heads
    BY <1>1, <1>3 DEF StartsAt
  <2>2. last \in heads /\ \A k \in heads : k <= last
    <3> HIDE DEF heads
    <3>1. \E j \in heads : \A k \in heads : k <= j
      BY <1>1, <2>1
    <3> QED BY <3>1
  <2>3. last = h
    <3> HIDE DEF heads, last
    <3> QED BY <1>1, <2>1, <2>2
  <2>4. SectionAt(text, n) = text[last].section
    BY <2>1 DEF SectionAt
  <2> QED BY <1>3, <2>3, <2>4
<1> QED BY <1>2, <1>3

\* Every line is in one.
LEMMA SectionStarts ==
    ASSUME NEW text, NEW n \in Nat
    PROVE  \E h : StartsAt(text, h, n)
<1> DEFINE Free == {d \in 0..n : d = n \/ IsSection(text[n - d])}
<1>1. PICK d \in Free : \A e \in Free : d <= e
  <2>1. Free \in SUBSET Nat /\ n \in Free
    OBVIOUS
  <2> HIDE DEF Free
  <2>2. Free # {}
    BY <2>1
  <2> QED BY <2>1, <2>2, LeastOf
<1> DEFINE h == n - d
<1>2. d \in 0..n /\ (d = n \/ IsSection(text[n - d])) /\ h \in 0..n
  BY <1>1
<1>3. h # 0 => IsSection(text[h])
  BY <1>2
<1>4. ASSUME NEW k \in h + 1..n PROVE ~IsSection(text[k])
  <2>1. n - k \in 0..n /\ n - k < d /\ n - (n - k) = k
    BY <1>2
  <2>2. n - k \notin Free
    <3> HIDE DEF Free
    <3>1. d \in Int /\ n - k \in Int
      BY <1>2
    <3> QED BY <1>1, <2>1, <3>1
  <2> QED BY <2>1, <2>2
<1> HIDE DEF h
<1>5. StartsAt(text, h, n)
  BY <1>2, <1>3, <1>4 DEF StartsAt
<1> QED BY <1>5

\* A section line starts one; any other is in the one of the line before.
LEMMA SectionNext ==
    ASSUME NEW text, NEW n \in Nat
    PROVE  /\ SectionAt(text, 0) = ""
           /\ SectionAt(text, n + 1) = IF IsSection(text[n + 1])
                                       THEN text[n + 1].section
                                       ELSE SectionAt(text, n)
<1>1. SectionAt(text, 0) = ""
  <2>1. StartsAt(text, 0, 0)
    BY DEF StartsAt
  <2> QED BY <2>1, SectionIs
<1>2. CASE IsSection(text[n + 1])
  <2>1. StartsAt(text, n + 1, n + 1)
    BY <1>2 DEF StartsAt
  <2>2. n + 1 \in Nat /\ n + 1 # 0
    OBVIOUS
  <2>3. SectionAt(text, n + 1) = IF n + 1 = 0 THEN "" ELSE text[n + 1].section
    BY <2>1, <2>2, SectionIs
  <2> QED BY <1>1, <1>2, <2>2, <2>3
<1>3. CASE ~IsSection(text[n + 1])
  <2>1. PICK h : StartsAt(text, h, n)
    BY SectionStarts
  <2>2. StartsAt(text, h, n + 1)
    <3>1. h \in 0..n + 1
      BY <2>1 DEF StartsAt
    <3>2. ASSUME NEW k \in h + 1..n + 1 PROVE ~IsSection(text[k])
      <4>1. CASE k = n + 1
        BY <1>3, <4>1
      <4>2. CASE k # n + 1
        <5>1. k \in h + 1..n
          BY <3>1, <4>2
        <5> QED BY <2>1, <5>1 DEF StartsAt
      <4> QED BY <4>1, <4>2
    <3> QED BY <2>1, <3>1, <3>2 DEF StartsAt
  <2>3. SectionAt(text, n) = IF h = 0 THEN "" ELSE text[h].section
    BY <2>1, SectionIs
  <2>4. SectionAt(text, n + 1) = IF h = 0 THEN "" ELSE text[h].section
    <3>1. n + 1 \in Nat
      OBVIOUS
    <3> QED BY <2>2, <3>1, SectionIs
  <2> QED BY <1>1, <1>3, <2>3, <2>4
<1> QED BY <1>2, <1>3

---------------------------------------------------------------------------
(* What one line does to what has been read.                               *)

\* The lines S of the text up to n, in order, are s.
Copied(s, S, text, n) ==
    /\ s \in Seq(Line)
    /\ Len(s) = UpTo(S, n)
    /\ \A i \in S : i <= n => s[UpTo(S, i)] = text[i]

PeerLines(text) == {i \in DOMAIN text : text[i] = Section("peer")}

\* There is a mark for every peer up to n, and one that is set tells the truth.
Marks(b, text, n) ==
    /\ b \in Seq(BOOLEAN)
    /\ Len(b) = UpTo(PeerLines(text), n)
    /\ \A i \in PeerLines(text) :
         i <= n /\ b[UpTo(PeerLines(text), i)] => Keyed(text, i, n)

\* A line of the set is appended, any other leaves what there is.
LEMMA CopiedNext ==
    ASSUME NEW s, NEW text, NEW m \in Nat, NEW S \in SUBSET (1..m), NEW n \in Nat,
           text[n + 1] \in Line, Copied(s, S, text, n)
    PROVE  /\ n + 1 \in S => Copied(Append(s, text[n + 1]), S, text, n + 1)
           /\ n + 1 \notin S => Copied(s, S, text, n + 1)
<1>0. IsFiniteSet(S) /\ S \in SUBSET (Nat \ {0}) /\ S \in SUBSET Nat
  BY UpToAll
<1>1. UpTo(S, n) \in Nat /\ UpTo(S, n + 1) = UpTo(S, n) + IF n + 1 \in S THEN 1 ELSE 0
  BY <1>0, UpToNext
<1>2. \A i \in S : i \in Nat
  BY <1>0
<1>3. \A i \in S : i <= n => UpTo(S, i) \in 1..UpTo(S, n)
  BY <1>0, UpToNumbers
<1>4. /\ s \in Seq(Line) /\ Len(s) = UpTo(S, n)
      /\ \A i \in S : i <= n => s[UpTo(S, i)] = text[i]
  BY DEF Copied
<1>5. ASSUME n + 1 \in S PROVE Copied(Append(s, text[n + 1]), S, text, n + 1)
  <2> DEFINE l == text[n + 1]
             t == Append(s, l)
  <2>1. /\ t \in Seq(Line) /\ Len(t) = Len(s) + 1 /\ t[Len(s) + 1] = l
        /\ \A j \in 1..Len(s) : t[j] = s[j]
    <3> HIDE DEF l
    <3>1. l \in Line
      BY DEF l
    <3> QED BY <1>4, <3>1, AppendProperties
  <2> HIDE DEF l, t
  <2>2. Len(t) = UpTo(S, n + 1)
    BY <1>1, <1>4, <1>5, <2>1
  <2>3. ASSUME NEW i \in S, i <= n + 1 PROVE t[UpTo(S, i)] = text[i]
    <3>1. CASE i = n + 1
      <4>1. UpTo(S, i) = Len(s) + 1
        BY <1>1, <1>4, <1>5, <3>1
      <4> QED BY <2>1, <3>1, <4>1 DEF l
    <3>2. CASE i # n + 1
      <4>1. i <= n
        BY <1>2, <2>3, <3>2
      <4> QED BY <1>3, <1>4, <2>1, <4>1
    <3> QED BY <3>1, <3>2
  <2>4. Copied(t, S, text, n + 1)
    BY <2>1, <2>2, <2>3 DEF Copied
  <2> QED BY <2>4 DEF t, l
<1>6. ASSUME n + 1 \notin S PROVE Copied(s, S, text, n + 1)
  <2>1. Len(s) = UpTo(S, n + 1)
    BY <1>1, <1>4, <1>6
  <2>2. \A i \in S : i <= n + 1 => i <= n
    BY <1>2, <1>6
  <2> QED BY <1>4, <2>1, <2>2 DEF Copied
<1> QED BY <1>5, <1>6

\* A line is a section, a pair, or neither.
LEMMA LineKinds ==
    ASSUME NEW l \in Line
    PROVE  /\ IsSection(l) => /\ l.section \in STRING /\ l = Section(l.section)
                              /\ ~IsPair(l)
           /\ IsPair(l) => l.key \in STRING /\ l.value \in STRING \cup {Half} /\ ~IsSection(l)
           /\ l = Section("peer") => IsSection(l) /\ l.section = "peer"
BY DEF Line, IsSection, IsPair, Section, Malformed, Absent

\* A peer that has its key by one line has it by the next.
LEMMA KeyedNext ==
    ASSUME NEW text, NEW i \in Nat, NEW n \in Nat, Keyed(text, i, n)
    PROVE  Keyed(text, i, n + 1)
<1>1. \A j \in i + 1..n : j \in i + 1..n + 1
  OBVIOUS
<1> QED BY <1>1 DEF Keyed

\* Lines that start no peer leave the marks as they are.
LEMMA MarksStay ==
    ASSUME NEW text, Len(text) \in Nat, DOMAIN text = 1..Len(text), NEW n \in Nat, NEW b,
           Marks(b, text, n), n + 1 \notin PeerLines(text)
    PROVE  Marks(b, text, n + 1)
<1> DEFINE S == PeerLines(text)
<1>0. IsFiniteSet(S) /\ S \in SUBSET Nat
  <2>1. S \in SUBSET (1..Len(text))
    BY DEF PeerLines
  <2> HIDE DEF S
  <2> QED BY <2>1, UpToAll
<1> HIDE DEF S
<1>1. UpTo(S, n + 1) = UpTo(S, n)
  <2>1. n + 1 \notin S
    BY DEF S
  <2>2. UpTo(S, n) \in Nat /\ UpTo(S, n + 1) = UpTo(S, n) + IF n + 1 \in S THEN 1 ELSE 0
    BY <1>0, UpToNext
  <2> QED BY <2>1, <2>2
<1>2. ASSUME NEW i \in S, i <= n + 1, b[UpTo(S, i)] PROVE Keyed(text, i, n + 1)
  <2>1. i \in Nat /\ i # n + 1
    BY <1>0 DEF S
  <2>2. i <= n
    BY <1>2, <2>1
  <2>3. Keyed(text, i, n)
    BY <1>2, <2>2 DEF Marks, S
  <2> QED BY <2>1, <2>3, KeyedNext
<1> QED BY <1>1, <1>2 DEF Marks, S

\* A new peer has no key yet.
LEMMA MarksPeer ==
    ASSUME NEW text, Len(text) \in Nat, DOMAIN text = 1..Len(text), NEW n \in Nat, NEW b,
           Marks(b, text, n), n + 1 \in PeerLines(text)
    PROVE  Marks(Append(b, FALSE), text, n + 1)
<1> DEFINE S == PeerLines(text)
           d == Append(b, FALSE)
<1>0. IsFiniteSet(S) /\ S \in SUBSET Nat /\ S \in SUBSET (Nat \ {0})
  <2>1. S \in SUBSET (1..Len(text))
    BY DEF PeerLines
  <2> HIDE DEF S
  <2> QED BY <2>1, UpToAll
<1>1. /\ b \in Seq(BOOLEAN) /\ Len(b) = UpTo(S, n)
      /\ \A i \in S : i <= n /\ b[UpTo(S, i)] => Keyed(text, i, n)
  BY DEF Marks
<1>2. /\ d \in Seq(BOOLEAN) /\ Len(d) = Len(b) + 1 /\ d[Len(b) + 1] = FALSE
      /\ \A j \in 1..Len(b) : d[j] = b[j]
  <2> DEFINE no == FALSE
  <2>1. no \in BOOLEAN /\ b \in Seq(BOOLEAN)
    BY <1>1
  <2>2. d = Append(b, no)
    OBVIOUS
  <2>3. no = FALSE
    OBVIOUS
  <2> HIDE DEF no, d, S
  <2>4. /\ Append(b, no) \in Seq(BOOLEAN) /\ Len(Append(b, no)) = Len(b) + 1
        /\ Append(b, no)[Len(b) + 1] = no
        /\ \A j \in 1..Len(b) : Append(b, no)[j] = b[j]
    BY <2>1, AppendProperties
  <2> QED BY <2>2, <2>3, <2>4
<1> HIDE DEF S, d
<1>3. UpTo(S, n) \in Nat /\ UpTo(S, n + 1) = UpTo(S, n) + 1
  <2>1. n + 1 \in S
    BY DEF S
  <2> QED BY <1>0, <2>1, UpToNext
<1>4. ASSUME NEW i \in S, i <= n + 1, d[UpTo(S, i)] PROVE Keyed(text, i, n + 1)
  <2>1. i \in Nat /\ i # n + 1
    BY <1>0, <1>1, <1>2, <1>3, <1>4
  <2>2. i <= n
    BY <1>4, <2>1
  <2>3. UpTo(S, i) \in 1..Len(b)
    BY <1>0, <1>1, <2>2, UpToNumbers
  <2>4. b[UpTo(S, i)]
    BY <1>2, <1>4, <2>3
  <2>5. Keyed(text, i, n)
    BY <1>1, <2>2, <2>4
  <2> QED BY <2>1, <2>5, KeyedNext
<1>5. Len(d) = UpTo(S, n + 1)
  BY <1>1, <1>2, <1>3
<1>6. Marks(d, text, n + 1)
  BY <1>2, <1>4, <1>5 DEF Marks, S
<1> QED BY <1>6 DEF d

\* A public key in a peer's section is that of the last peer.
LEMMA MarksKey ==
    ASSUME NEW text \in Seq(Line), NEW n \in Nat, n + 1 \in 1..Len(text), NEW b,
           Marks(b, text, n), SectionAt(text, n) = "peer",
           IsPair(text[n + 1]), text[n + 1].key = "publickey"
    PROVE  Marks([b EXCEPT ![Len(b)] = TRUE], text, n + 1)
<1> DEFINE S == PeerLines(text)
           d == [b EXCEPT ![Len(b)] = TRUE]
<1>l. Len(text) \in Nat /\ DOMAIN text = 1..Len(text)
  BY LenProperties
<1>0. IsFiniteSet(S) /\ S \in SUBSET Nat /\ S \in SUBSET (Nat \ {0})
  <2>1. S \in SUBSET (1..Len(text))
    BY <1>l DEF PeerLines
  <2> HIDE DEF S
  <2> QED BY <1>l, <2>1, UpToAll
<1>1. /\ b \in Seq(BOOLEAN) /\ Len(b) = UpTo(S, n)
      /\ \A i \in S : i <= n /\ b[UpTo(S, i)] => Keyed(text, i, n)
  BY DEF Marks
<1>2. PICK h : StartsAt(text, h, n)
  BY SectionStarts
<1>3. h \in 1..n /\ text[h].section = "peer" /\ IsSection(text[h])
  <2>1. SectionAt(text, n) = IF h = 0 THEN "" ELSE text[h].section
    BY <1>2, SectionIs
  <2>2. h # 0 /\ text[h].section = "peer"
    BY <2>1
  <2> QED BY <1>2, <2>2 DEF StartsAt
<1>4. h \in S
  <2>1. h \in 1..Len(text)
    BY <1>l, <1>3
  <2>2. text[h] \in Line
    BY <2>1, ElementOfSeq
  <2>3. text[h] = Section("peer")
    BY <1>3, <2>2, LineKinds
  <2> QED BY <1>l, <2>1, <2>3 DEF PeerLines
<1>5. \A i \in S : IsSection(text[i])
  <2>1. TAKE i \in S
  <2>2. text[i] = Section("peer")
    BY DEF PeerLines
  <2> QED BY <2>2 DEF IsSection, Section
<1> HIDE DEF S
<1>6. Len(b) \in Nat /\ Len(b) >= 1
  <2>1. h <= n
    BY <1>3
  <2>2. UpTo(S, h) \in 1..UpTo(S, n)
    BY <1>0, <1>4, <2>1, UpToNumbers
  <2>3. UpTo(S, n) \in Nat
    BY <1>0, UpToNext
  <2> QED BY <1>1, <2>2, <2>3
<1>7. /\ d \in Seq(BOOLEAN) /\ Len(d) = Len(b)
      /\ \A j \in 1..Len(b) : j # Len(b) => d[j] = b[j]
  <2>1. Len(b) \in 1..Len(b)
    BY <1>6
  <2>2. /\ d \in Seq(BOOLEAN) /\ Len(d) = Len(b)
        /\ \A j \in 1..Len(b) : d[j] = IF j = Len(b) THEN TRUE ELSE b[j]
    BY <1>1, <2>1, ExceptSeq
  <2> QED BY <2>2
<1>8. n + 1 \notin S /\ ~IsSection(text[n + 1])
  <2>1. text[n + 1] \in Line
    BY ElementOfSeq
  <2>2. ~IsSection(text[n + 1])
    BY <2>1, LineKinds
  <2> QED BY <1>5, <2>2
<1>9. UpTo(S, n + 1) = UpTo(S, n)
  <2>1. UpTo(S, n) \in Nat /\ UpTo(S, n + 1) = UpTo(S, n) + IF n + 1 \in S THEN 1 ELSE 0
    BY <1>0, UpToNext
  <2> QED BY <1>8, <2>1
<1> HIDE DEF d
<1>10. ASSUME NEW i \in S, i <= n + 1, d[UpTo(S, i)] PROVE Keyed(text, i, n + 1)
  <2>1. i \in Nat /\ i # n + 1
    BY <1>0, <1>8
  <2>2. i <= n
    BY <1>10, <2>1
  <2>3. UpTo(S, i) \in 1..Len(b)
    BY <1>0, <1>1, <2>2, UpToNumbers
  <2>4. CASE UpTo(S, i) # Len(b)
    <3>1. b[UpTo(S, i)]
      BY <1>7, <1>10, <2>3, <2>4
    <3>2. Keyed(text, i, n)
      BY <1>1, <2>2, <3>1
    <3> QED BY <2>1, <3>2, KeyedNext
  <2>5. CASE UpTo(S, i) = Len(b)
    <3>1. i = h
      <4>1. ~(i < h)
        <5>1. SUFFICES ASSUME i < h PROVE FALSE
          OBVIOUS
        <5>2. h \in Nat /\ h <= n
          BY <1>3
        <5>3. UpTo(S, i) < UpTo(S, h)
          BY <1>0, <1>4, <2>1, <5>1, <5>2, UpToGrows
        <5>4. UpTo(S, h) <= UpTo(S, n)
          BY <1>0, <5>2, UpToGrows
        <5>5. UpTo(S, h) \in Nat
          BY <1>0, <5>2, UpToNext
        <5> QED BY <1>1, <1>6, <2>5, <5>3, <5>4, <5>5
      <4>2. ~(h < i)
        <5>1. SUFFICES ASSUME h < i PROVE FALSE
          OBVIOUS
        <5>2. i \in h + 1..n
          BY <1>3, <2>1, <2>2, <5>1
        <5> QED BY <1>2, <1>5, <5>2 DEF StartsAt
      <4> QED BY <1>3, <2>1, <4>1, <4>2
    <3>2. n + 1 \in i + 1..n + 1
      BY <2>1, <2>2
    <3>3. \A k \in i + 1..n + 1 : ~IsSection(text[k])
      <4>1. TAKE k \in i + 1..n + 1
      <4>2. CASE k = n + 1
        BY <1>8, <4>2
      <4>3. CASE k # n + 1
        <5>1. k \in h + 1..n
          BY <2>1, <3>1, <4>3
        <5> QED BY <1>2, <5>1 DEF StartsAt
      <4> QED BY <4>2, <4>3
    <3> QED BY <3>2, <3>3 DEF Keyed
  <2> QED BY <2>4, <2>5
<1>11. Marks(d, text, n + 1)
  BY <1>1, <1>7, <1>9, <1>10 DEF Marks, S
<1> QED BY <1>11 DEF d

---------------------------------------------------------------------------
(* parse, line by line.                                                    *)

Confs == [ok : {TRUE}, section : STRING \cup {""}, setconf : Seq(Line),
          v4 : SUBSET V4Addresses, mtu : Mtus \cup {""},
          endpoint : STRING \cup {Half, NoEndpoint}, private : BOOLEAN,
          peers : Seq(BOOLEAN)]

\* What parse has read up to line n is refused, or has the allowed lines and
\* a mark for every peer.
ReadTo(c, text, n) ==
    \/ c = Invalid
    \/ /\ c \in Confs
       /\ c.section = SectionAt(text, n)
       /\ Copied(c.setconf, AllowedLines(text), text, n)
       /\ Marks(c.peers, text, n)

\* The first line is still to come.
LEMMA ReadToStart ==
    ASSUME NEW text \in Seq(Line)
    PROVE  ReadTo(Start, text, 0)
<1>l. Len(text) \in Nat /\ DOMAIN text = 1..Len(text)
  BY LenProperties
<1>1. AllowedLines(text) \in SUBSET (1..Len(text))
  BY <1>l DEF AllowedLines
<1>2. PeerLines(text) \in SUBSET (1..Len(text))
  BY <1>l DEF PeerLines
<1>3. /\ UpTo(AllowedLines(text), 0) = 0
      /\ \A i \in AllowedLines(text) : ~(i <= 0)
  <2>1. IsFiniteSet(AllowedLines(text)) /\ AllowedLines(text) \in SUBSET (Nat \ {0})
    BY <1>l, <1>1, UpToAll
  <2>2. \A i \in AllowedLines(text) : i \in Nat \ {0}
    BY <2>1
  <2>3. UpTo(AllowedLines(text), 0) = 0
    BY <2>1, UpToNumbers
  <2> QED BY <2>2, <2>3
<1>4. /\ UpTo(PeerLines(text), 0) = 0
      /\ \A i \in PeerLines(text) : ~(i <= 0)
  <2>1. IsFiniteSet(PeerLines(text)) /\ PeerLines(text) \in SUBSET (Nat \ {0})
    BY <1>l, <1>2, UpToAll
  <2>2. \A i \in PeerLines(text) : i \in Nat \ {0}
    BY <2>1
  <2>3. UpTo(PeerLines(text), 0) = 0
    BY <2>1, UpToNumbers
  <2> QED BY <2>2, <2>3
<1>5. << >> \in Seq(Line) /\ << >> \in Seq(BOOLEAN) /\ Len(<< >>) = 0
  BY EmptySeq
<1>6. Copied(<< >>, AllowedLines(text), text, 0)
  BY <1>3, <1>5 DEF Copied
<1>7. Marks(<< >>, text, 0)
  BY <1>4, <1>5 DEF Marks
<1>8. SectionAt(text, 0) = ""
  BY SectionNext
<1>9. Start.section = "" /\ Start.setconf = << >> /\ Start.peers = << >>
  BY DEF Start
<1>10. Start \in Confs
  <2> DEFINE e == << >>
  <2>1. e \in Seq(Line) /\ e \in Seq(BOOLEAN)
    BY <1>5
  <2>2. Start = [ok |-> TRUE, section |-> "", setconf |-> e, v4 |-> {},
                 mtu |-> "", endpoint |-> NoEndpoint, private |-> FALSE,
                 peers |-> e]
    BY DEF Start
  <2> DEFINE none == {}
  <2>3. none \in SUBSET V4Addresses
    OBVIOUS
  <2> HIDE DEF e, none
  <2>4. [ok |-> TRUE, section |-> "", setconf |-> e, v4 |-> none, mtu |-> "",
         endpoint |-> NoEndpoint, private |-> FALSE, peers |-> e] \in Confs
    BY <2>1, <2>3 DEF Confs
  <2> QED BY <2>2, <2>4 DEF none
<1> QED BY <1>6, <1>7, <1>8, <1>9, <1>10 DEF ReadTo

\* After a line that is no section and is not for wg, or is for wg,
\* the marks being right: the section is still the same.
LEMMA ReadToPair ==
    ASSUME NEW text \in Seq(Line), NEW n \in Nat, n + 1 \in 1..Len(text),
           NEW c, c \in Confs, c.section = SectionAt(text, n),
           Copied(c.setconf, AllowedLines(text), text, n),
           NEW d, d \in Confs, d.section = c.section, ~IsSection(text[n + 1]),
           Marks(d.peers, text, n + 1),
           \/ d.setconf = c.setconf /\ ~Allowed(text, n + 1)
           \/ d.setconf = Append(c.setconf, text[n + 1]) /\ Allowed(text, n + 1)
    PROVE  ReadTo(d, text, n + 1)
<1>l. Len(text) \in Nat /\ DOMAIN text = 1..Len(text)
  BY LenProperties
<1>1. AllowedLines(text) \in SUBSET (1..Len(text))
  BY <1>l DEF AllowedLines
<1>2. text[n + 1] \in Line
  BY ElementOfSeq
<1>3. n + 1 \in AllowedLines(text) <=> Allowed(text, n + 1)
  BY <1>l DEF AllowedLines
<1>4. /\ n + 1 \in AllowedLines(text) =>
           Copied(Append(c.setconf, text[n + 1]), AllowedLines(text), text, n + 1)
      /\ n + 1 \notin AllowedLines(text) =>
           Copied(c.setconf, AllowedLines(text), text, n + 1)
  BY <1>l, <1>1, <1>2, CopiedNext
<1>5. Copied(d.setconf, AllowedLines(text), text, n + 1)
  BY <1>3, <1>4
<1>6. SectionAt(text, n + 1) = SectionAt(text, n)
  BY SectionNext
<1> QED BY <1>5, <1>6 DEF ReadTo

\* A section line starts its section, and a peer's its mark.
LEMMA ReadToSection ==
    ASSUME NEW text \in Seq(Line), NEW n \in Nat, n + 1 \in 1..Len(text),
           NEW c, c \in Confs, c.section = SectionAt(text, n),
           Copied(c.setconf, AllowedLines(text), text, n),
           Marks(c.peers, text, n), IsSection(text[n + 1])
    PROVE  ReadTo(OnSection(c, text[n + 1]), text, n + 1)
<1> DEFINE l == text[n + 1]
           d == OnSection(c, l)
           peers == IF l.section = "peer" THEN Append(c.peers, FALSE) ELSE c.peers
<1>l. Len(text) \in Nat /\ DOMAIN text = 1..Len(text)
  BY LenProperties
<1>1. AllowedLines(text) \in SUBSET (1..Len(text)) /\ n + 1 \in AllowedLines(text)
  BY <1>l DEF AllowedLines, Allowed
<1>2. text[n + 1] \in Line
  BY ElementOfSeq
<1>3. Copied(Append(c.setconf, l), AllowedLines(text), text, n + 1)
  BY <1>l, <1>1, <1>2, CopiedNext
<1>4. SectionAt(text, n + 1) = l.section /\ l.section \in STRING
  BY <1>2, SectionNext, LineKinds
<1>5. Marks(peers, text, n + 1)
  <2>1. CASE l.section = "peer"
    <3>1. n + 1 \in PeerLines(text)
      BY <1>l, <1>2, <2>1, LineKinds DEF PeerLines
    <3>2. Marks(Append(c.peers, FALSE), text, n + 1)
      BY <1>l, <3>1, MarksPeer
    <3> QED BY <2>1, <3>2
  <2>2. CASE l.section # "peer"
    <3>1. n + 1 \notin PeerLines(text)
      BY <1>2, <2>2, LineKinds DEF PeerLines
    <3>2. Marks(c.peers, text, n + 1)
      BY <1>l, <3>1, MarksStay
    <3> QED BY <2>2, <3>2
  <2> QED BY <2>1, <2>2
<1>6. Append(c.setconf, l) \in Seq(Line) /\ peers \in Seq(BOOLEAN)
  BY <1>3, <1>5 DEF Copied, Marks
<1>7. CASE l.section \notin {"interface", "peer"}
  <2>1. d = Invalid
    BY <1>7 DEF OnSection
  <2> QED BY <2>1 DEF ReadTo
<1>8. CASE l.section \in {"interface", "peer"}
  <2>1. d = [c EXCEPT !.section = l.section, !.setconf = Append(c.setconf, l),
                      !.peers = peers]
    BY <1>8 DEF OnSection
  <2> HIDE DEF l, d, peers
  <2> DEFINE s == Append(c.setconf, l)
  <2> HIDE DEF s
  <2>2. s \in Seq(Line)
    BY <1>6 DEF s
  <2>3. d = [c EXCEPT !.section = l.section, !.setconf = s, !.peers = peers]
    BY <2>1 DEF s
  <2>4. d \in Confs /\ d.section = l.section /\ d.setconf = s /\ d.peers = peers
    BY <1>4, <1>6, <2>2, <2>3 DEF Confs
  <2>5. ReadTo(d, text, n + 1)
    BY <1>3, <1>4, <1>5, <2>4 DEF ReadTo, s
  <2> QED BY <2>5 DEF d, l
<1> QED BY <1>7, <1>8

\* A key of the interface is for `ip', for wg, or left.
LEMMA ReadToInterface ==
    ASSUME NEW text \in Seq(Line), NEW n \in Nat, n + 1 \in 1..Len(text),
           NEW c, c \in Confs, c.section = SectionAt(text, n),
           Copied(c.setconf, AllowedLines(text), text, n),
           Marks(c.peers, text, n), IsPair(text[n + 1]), c.section = "interface"
    PROVE  ReadTo(OnInterface(c, text[n + 1]), text, n + 1)
<1> DEFINE l == text[n + 1]
           d == OnInterface(c, l)
<1>l. Len(text) \in Nat /\ DOMAIN text = 1..Len(text)
  BY LenProperties
<1>1. l \in Line /\ ~IsSection(l)
  BY ElementOfSeq, LineKinds
<1>2. Marks(c.peers, text, n + 1)
  <2>1. n + 1 \notin PeerLines(text)
    BY <1>1, LineKinds DEF PeerLines
  <2> QED BY <1>l, <2>1, MarksStay
<1>3. Allowed(text, n + 1) <=> l.key \in InterfaceKeys
  <2>1. SectionAt(text, n + 1) = "interface"
    BY <1>1, SectionNext
  <2> QED BY <1>1, <2>1 DEF Allowed
<1>4. c.setconf \in Seq(Line)
  BY DEF Copied
<1> HIDE DEF l
<1>5. Append(c.setconf, l) \in Seq(Line)
  BY <1>1, <1>4, AppendProperties
<1>6. CASE l.key = "address"
  <2> DEFINE a == IF l.value \in V4Addresses THEN c.v4 \cup {l.value} ELSE c.v4
  <2>1. d = [c EXCEPT !.v4 = a]
    BY <1>6 DEF OnInterface, InterfaceKeys
  <2>2. c.v4 \subseteq V4Addresses
    BY DEF Confs
  <2>3. a \in SUBSET V4Addresses
    BY <2>2
  <2> HIDE DEF a, d
  <2>4. d \in Confs /\ d.section = c.section /\ d.peers = c.peers /\ d.setconf = c.setconf
    BY <2>1, <2>3 DEF Confs
  <2>5. ~Allowed(text, n + 1)
    BY <1>3, <1>6 DEF InterfaceKeys
  <2>6. ReadTo(d, text, n + 1)
    BY <1>1, <1>2, <2>4, <2>5, ReadToPair DEF l
  <2> QED BY <2>6 DEF d, l
<1>7. CASE l.key = "mtu"
  <2>1. CASE l.value \in Mtus
    <3>1. d = [c EXCEPT !.mtu = l.value]
      BY <1>7, <2>1 DEF OnInterface, InterfaceKeys
    <3> HIDE DEF d
    <3>2. d \in Confs /\ d.section = c.section /\ d.peers = c.peers /\ d.setconf = c.setconf
      BY <2>1, <3>1 DEF Confs
    <3>3. ~Allowed(text, n + 1)
      BY <1>3, <1>7 DEF InterfaceKeys
    <3>4. ReadTo(d, text, n + 1)
      BY <1>1, <1>2, <3>2, <3>3, ReadToPair DEF l
    <3> QED BY <3>4 DEF d, l
  <2>2. CASE l.value \notin Mtus
    <3>1. d = Invalid
      BY <1>7, <2>2 DEF OnInterface, InterfaceKeys
    <3> QED BY <3>1 DEF ReadTo, l
  <2> QED BY <2>1, <2>2
<1>8. CASE l.key \in InterfaceKeys
  <2> DEFINE has == c.private \/ l.key = "privatekey"
             s == Append(c.setconf, l)
  <2>1. d = [c EXCEPT !.private = has, !.setconf = s]
    BY <1>8 DEF OnInterface, InterfaceKeys
  <2>2. has \in BOOLEAN /\ s \in Seq(Line)
    BY <1>5
  <2> HIDE DEF d, has, s
  <2>3. d \in Confs /\ d.section = c.section /\ d.peers = c.peers /\ d.setconf = s
    BY <2>1, <2>2 DEF Confs
  <2>4. Allowed(text, n + 1)
    BY <1>3, <1>8
  <2>5. d.setconf = Append(c.setconf, text[n + 1])
    BY <2>3 DEF s, l
  <2>6. ReadTo(d, text, n + 1)
    BY <1>1, <1>2, <2>3, <2>4, <2>5, ReadToPair DEF l
  <2> QED BY <2>6 DEF d, l
<1>9. CASE l.key \notin {"address", "mtu"} \cup InterfaceKeys
  <2>1. d = c
    BY <1>9 DEF OnInterface
  <2>2. ~Allowed(text, n + 1)
    BY <1>3, <1>9
  <2> HIDE DEF d
  <2>3. ReadTo(d, text, n + 1)
    BY <1>1, <1>2, <2>1, <2>2, ReadToPair DEF l
  <2> QED BY <2>3 DEF d, l
<1> QED BY <1>6, <1>7, <1>8, <1>9

\* A key of a peer is for wg, or left; the public key sets the mark.
LEMMA ReadToPeer ==
    ASSUME NEW text \in Seq(Line), NEW n \in Nat, n + 1 \in 1..Len(text),
           NEW c, c \in Confs, c.section = SectionAt(text, n),
           Copied(c.setconf, AllowedLines(text), text, n),
           Marks(c.peers, text, n), IsPair(text[n + 1]), c.section = "peer"
    PROVE  ReadTo(OnPeer(c, text[n + 1]), text, n + 1)
<1> DEFINE l == text[n + 1]
           d == OnPeer(c, l)
<1>l. Len(text) \in Nat /\ DOMAIN text = 1..Len(text)
  BY LenProperties
<1>1. l \in Line /\ ~IsSection(l) /\ l.value \in STRING \cup {Half}
  BY ElementOfSeq, LineKinds
<1>2. Marks(c.peers, text, n + 1)
  <2>1. n + 1 \notin PeerLines(text)
    BY <1>1, LineKinds DEF PeerLines
  <2> QED BY <1>l, <2>1, MarksStay
<1>3. Allowed(text, n + 1) <=> l.key \in PeerKeys
  <2>1. SectionAt(text, n + 1) = "peer"
    BY <1>1, SectionNext
  <2> QED BY <1>1, <2>1 DEF Allowed
<1>4. c.setconf \in Seq(Line)
  BY DEF Copied
<1>5. l.key = "publickey" => Marks([c.peers EXCEPT ![Len(c.peers)] = TRUE], text, n + 1)
  BY MarksKey
<1> HIDE DEF l
<1>6. Append(c.setconf, l) \in Seq(Line)
  BY <1>1, <1>4, AppendProperties
<1>7. CASE l.key \notin PeerKeys
  <2>1. d = c
    BY <1>7 DEF OnPeer
  <2>2. ~Allowed(text, n + 1)
    BY <1>3, <1>7
  <2> HIDE DEF d
  <2>3. ReadTo(d, text, n + 1)
    BY <1>1, <1>2, <2>1, <2>2, ReadToPair DEF l
  <2> QED BY <2>3 DEF d, l
<1>8. CASE l.key \in PeerKeys
  <2> DEFINE s == Append(c.setconf, l)
             peers == IF l.key = "publickey"
                      THEN [c.peers EXCEPT ![Len(c.peers)] = TRUE] ELSE c.peers
             e == IF l.key = "endpoint" /\ c.endpoint = NoEndpoint THEN l.value
                  ELSE c.endpoint
  <2>1. d = [c EXCEPT !.setconf = s, !.peers = peers, !.endpoint = e]
    BY <1>8 DEF OnPeer
  <2>2. Marks(peers, text, n + 1)
    BY <1>2, <1>5
  <2>3. e \in STRING \cup {Half, NoEndpoint}
    BY <1>1 DEF Confs
  <2>4. s \in Seq(Line)
    BY <1>6
  <2> HIDE DEF d, s, peers, e
  <2>5. peers \in Seq(BOOLEAN)
    BY <2>2 DEF Marks
  <2>6. d \in Confs /\ d.section = c.section /\ d.peers = peers /\ d.setconf = s
    BY <2>1, <2>3, <2>4, <2>5 DEF Confs
  <2>7. d.setconf = Append(c.setconf, text[n + 1])
    BY <2>6 DEF s, l
  <2>8. Allowed(text, n + 1)
    BY <1>3, <1>8
  <2>9. ReadTo(d, text, n + 1)
    BY <1>1, <2>2, <2>6, <2>7, <2>8, ReadToPair DEF l
  <2> QED BY <2>9 DEF d, l
<1> QED BY <1>7, <1>8

\* Whatever the line is, what is read stays right,
LEMMA ReadToNext ==
    ASSUME NEW text \in Seq(Line), NEW n \in Nat, n + 1 \in 1..Len(text),
           NEW c, ReadTo(c, text, n)
    PROVE  ReadTo(OnLine(c, text[n + 1]), text, n + 1)
<1> DEFINE l == text[n + 1]
<1>1. CASE c = Invalid
  <2>1. OnLine(c, l) = Invalid
    BY <1>1 DEF OnLine, Invalid
  <2> QED BY <2>1 DEF ReadTo
<1>2. CASE /\ c \in Confs
           /\ c.section = SectionAt(text, n)
           /\ Copied(c.setconf, AllowedLines(text), text, n)
           /\ Marks(c.peers, text, n)
  <2>0. c.ok = TRUE /\ l \in Line
    BY <1>2, ElementOfSeq DEF Confs
  <2>1. CASE IsSection(l)
    <3>1. OnLine(c, l) = OnSection(c, l)
      <4>1. ~IsPair(l)
        BY <2>0, <2>1, LineKinds
      <4> HIDE DEF l
      <4> QED BY <2>0, <2>1, <4>1 DEF OnLine
    <3> QED BY <1>2, <2>1, <3>1, ReadToSection
  <2>2. CASE IsPair(l) /\ c.section = "interface"
    <3>1. OnLine(c, l) = OnInterface(c, l)
      <4>1. ~IsSection(l)
        BY <2>0, <2>2, LineKinds
      <4> HIDE DEF l
      <4> QED BY <2>0, <2>2, <4>1 DEF OnLine
    <3> QED BY <1>2, <2>2, <3>1, ReadToInterface
  <2>3. CASE IsPair(l) /\ c.section = "peer"
    <3>1. OnLine(c, l) = OnPeer(c, l)
      <4>1. ~IsSection(l)
        BY <2>0, <2>3, LineKinds
      <4> HIDE DEF l
      <4> QED BY <2>0, <2>3, <4>1 DEF OnLine
    <3> QED BY <1>2, <2>3, <3>1, ReadToPeer
  <2>4. CASE ~IsSection(l) /\ (IsPair(l) => c.section \notin {"interface", "peer"})
    <3>1. OnLine(c, l) = Invalid
      <4> HIDE DEF l
      <4> QED BY <2>0, <2>4 DEF OnLine
    <3> QED BY <3>1 DEF ReadTo
  <2> QED BY <2>1, <2>2, <2>3, <2>4
<1> QED BY <1>1, <1>2 DEF ReadTo

\* so it is right at the end.
LEMMA ReadToEnd ==
    ASSUME NEW text \in Seq(Line), NEW f, Reads(f, text, Len(text))
    PROVE  ReadTo(f[Len(text)], text, Len(text))
<1> DEFINE m == Len(text)
           Bad == {n \in 0..m : ~ReadTo(f[n], text, n)}
<1>l. m \in Nat
  BY LenProperties
<1>1. SUFFICES ASSUME Bad # {} PROVE FALSE
  <2>1. m \in 0..m
    BY <1>l
  <2>2. Bad = {}
    BY <1>1
  <2> QED BY <2>1, <2>2
<1>2. PICK n \in Bad : \A k \in Bad : n <= k
  <2>1. Bad \in SUBSET Nat
    BY <1>l
  <2> HIDE DEF Bad
  <2> QED BY <1>1, <2>1, LeastOf
<1>3. n \in 0..m /\ ~ReadTo(f[n], text, n)
  BY <1>2
<1>4. CASE n = 0
  <2>1. f[0] = Start
    BY DEF Reads
  <2> QED BY <1>3, <1>4, <2>1, ReadToStart
<1>5. CASE n # 0
  <2>1. n - 1 \in Nat /\ n - 1 \in 0..m /\ n \in 1..m /\ (n - 1) + 1 = n /\ ~(n <= n - 1)
    BY <1>l, <1>3, <1>5
  <2>2. n - 1 \notin Bad
    <3> HIDE DEF Bad
    <3> QED BY <1>2, <2>1
  <2>3. ReadTo(f[n - 1], text, n - 1)
    BY <2>1, <2>2
  <2>4. ReadTo(OnLine(f[n - 1], text[n]), text, n)
    <3> DEFINE k == n - 1
    <3>1. k \in Nat /\ k + 1 = n /\ ReadTo(f[k], text, k) /\ k + 1 \in 1..Len(text)
      BY <2>1, <2>3
    <3> HIDE DEF k
    <3>2. ReadTo(OnLine(f[k], text[k + 1]), text, k + 1)
      BY <3>1, ReadToNext
    <3> QED BY <3>1, <3>2 DEF k
  <2>5. f[n] = OnLine(f[n - 1], text[n])
    BY <2>1 DEF Reads
  <2> QED BY <1>3, <2>4, <2>5
<1> QED BY <1>4, <1>5

\* What parse accepts it hands on whole: the allowed lines of the text, in
\* order, and every peer of it has its key.
LEMMA ParseFaithful ==
    ASSUME NEW text \in Seq(Line), Parse(text).ok
    PROVE  LET setconf == Parse(text).setconf
               lines == AllowedLines(text)
           IN  /\ Len(setconf) = Cardinality(lines)
               /\ \A i \in lines : setconf[UpTo(lines, i)] = text[i]
               /\ \A i \in DOMAIN text : text[i] = Section("peer") => Keyed(text, i, Len(text))
<1> DEFINE m == Len(text)
           lines == AllowedLines(text)
           peers == PeerLines(text)
<1>l. m \in Nat /\ DOMAIN text = 1..m
  BY LenProperties
<1>1. PICK f : /\ Reads(f, text, m)
               /\ Parse(text) =
                    LET c == f[m] IN
                      IF c.ok /\ c.private /\ c.peers # <<>> /\ c.v4 # {}
                           /\ \A i \in DOMAIN c.peers : c.peers[i]
                      THEN c ELSE Invalid
  BY <1>l, ParseReads
<1> DEFINE c == f[m]
<1>2. ReadTo(c, text, m)
  BY <1>1, ReadToEnd
<1> HIDE DEF c, m, lines, peers
<1>3. /\ Parse(text) = c
      /\ c # Invalid
      /\ \A i \in DOMAIN c.peers : c.peers[i]
  BY <1>1 DEF Invalid, c
<1>4. /\ Copied(c.setconf, lines, text, m)
      /\ Marks(c.peers, text, m)
  BY <1>2, <1>3 DEF ReadTo, lines
<1>5. lines \in SUBSET (1..m) /\ peers \in SUBSET (1..m)
  BY <1>l DEF lines, peers, AllowedLines, PeerLines
<1>6. /\ UpTo(lines, m) = Cardinality(lines)
      /\ IsFiniteSet(peers) /\ peers \in SUBSET (Nat \ {0})
  BY <1>l, <1>5, UpToAll
<1>7. \A i \in 1..m : i <= m
  BY <1>l
<1>8. /\ Len(c.setconf) = Cardinality(lines)
      /\ \A i \in lines : c.setconf[UpTo(lines, i)] = text[i]
  BY <1>4, <1>5, <1>6, <1>7 DEF Copied
<1>9. ASSUME NEW i \in DOMAIN text, text[i] = Section("peer")
      PROVE  Keyed(text, i, m)
  <2>1. i \in peers /\ i <= m
    BY <1>l, <1>7, <1>9 DEF peers, PeerLines
  <2>2. UpTo(peers, i) \in 1..UpTo(peers, m)
    BY <1>l, <1>6, <2>1, UpToNumbers
  <2>3. c.peers \in Seq(BOOLEAN) /\ Len(c.peers) = UpTo(peers, m)
    BY <1>4 DEF Marks, peers
  <2>4. UpTo(peers, i) \in DOMAIN c.peers
    BY <2>2, <2>3, LenProperties
  <2>5. c.peers[UpTo(peers, i)]
    BY <1>3, <2>4
  <2> QED BY <1>4, <2>1, <2>5 DEF Marks, peers
<1> QED BY <1>3, <1>8, <1>9 DEF m, lines

---------------------------------------------------------------------------
(* What is in wg.conf.                                                     *)

\* A text whose writing stopped short is still made of lines.
LEMMA CutShortLines ==
    ASSUME NEW text \in Seq(Line)
    PROVE  CutShort(text) \subseteq Seq(Line)
<1> DEFINE last(l) == {<<>>, <<Malformed>>} \cup
                        (IF IsPair(l) THEN {<<[l EXCEPT !.value = Half]>>} ELSE {})
<1>1. SUFFICES ASSUME NEW n \in 0..Len(text) - 1, NEW end \in last(text[n + 1])
               PROVE  SubSeq(text, 1, n) \o end \in Seq(Line)
  <2>1. CutShort(text) =
          UNION {{SubSeq(text, 1, n) \o end : end \in last(text[n + 1])} :
                   n \in 0..Len(text) - 1}
    BY DEF CutShort
  <2> HIDE DEF last
  <2>2. ASSUME NEW cut \in CutShort(text) PROVE cut \in Seq(Line)
    <3>1. PICK ends \in {{SubSeq(text, 1, n) \o end : end \in last(text[n + 1])} :
                           n \in 0..Len(text) - 1} : cut \in ends
      BY <2>1, <2>2
    <3>2. PICK n \in 0..Len(text) - 1 :
            ends = {SubSeq(text, 1, n) \o end : end \in last(text[n + 1])}
      BY <3>1
    <3>3. PICK end \in last(text[n + 1]) : cut = SubSeq(text, 1, n) \o end
      BY <3>1, <3>2
    <3> QED BY <1>1, <3>3
  <2> QED BY <2>2
<1>2. Len(text) \in Nat
  BY LenProperties
<1>3. n + 1 \in 1..Len(text) /\ n \in Nat /\ n <= Len(text)
  BY <1>2
<1>4. SubSeq(text, 1, n) \in Seq(Line)
  <2>1. \A i \in 1..n : text[i] \in Line
    <3>1. \A i \in 1..n : i \in 1..Len(text)
      BY <1>2, <1>3
    <3> QED BY <3>1, ElementOfSeq
  <2>2. 1 \in Nat /\ n \in Nat
    BY <1>3
  <2> QED BY <1>2, <1>3, <2>1, SubSeqProperties
<1>5. end \in Seq(Line)
  <2>1. text[n + 1] \in Line
    BY <1>3, ElementOfSeq
  <2>2. CASE end = << >>
    BY <2>2, EmptySeq
  <2>3. CASE end = <<Malformed>>
    <3>1. Malformed \in Line
      BY DEF Line
    <3> HIDE DEF last
    <3> QED BY <2>3, <3>1
  <2>4. CASE IsPair(text[n + 1]) /\ end = <<[text[n + 1] EXCEPT !.value = Half]>>
    <3> DEFINE l == [text[n + 1] EXCEPT !.value = Half]
    <3>1. text[n + 1] \in [key : STRING, value : STRING \cup {Half}]
      BY <2>1, <2>4 DEF Line, IsPair, Malformed, Absent
    <3>2. l \in Line
      BY <3>1 DEF Line
    <3> HIDE DEF l, last
    <3>3. <<l>> \in Seq(Line)
      BY <3>2
    <3> QED BY <2>4, <3>3 DEF l
  <2> QED BY <2>2, <2>3, <2>4
<1> HIDE DEF last
<1> QED BY <1>4, <1>5, ConcatProperties

\* and so is a text over the rest of another.
LEMMA OverLines ==
    ASSUME NEW text \in Seq(Line), NEW file \in Seq(Line)
    PROVE  Over(text, file) \in Seq(Line)
<1>1. Len(text) \in Nat /\ Len(file) \in Nat
  BY LenProperties
<1>2. SubSeq(file, Len(text) + 1, Len(file)) \in Seq(Line)
  <2> DEFINE m == Len(text) + 1
             n == Len(file)
  <2>1. m \in Nat /\ m >= 1 /\ n \in Nat
    BY <1>1
  <2>2. \A i \in m..n : file[i] \in Line
    <3>1. \A i \in m..n : i \in 1..Len(file)
      BY <2>1
    <3> QED BY <3>1, ElementOfSeq
  <2> HIDE DEF m, n
  <2>3. SubSeq(file, m, n) \in Seq(Line)
    BY <2>1, <2>2, SubSeqProperties
  <2> QED BY <2>3 DEF m, n
<1> QED BY <1>2, ConcatProperties DEF Over

WgInv == wg \in Seq(Line)

\* wg.conf is made of lines, whatever was installed and cut short.
LEMMA WgLines == TypeOK /\ WgInv /\ [Next]_vars => WgInv'
<1> SUFFICES ASSUME TypeOK, wg \in Seq(Line), [Next]_vars PROVE wg' \in Seq(Line)
  BY DEF WgInv
<1>1. CASE \E w \in Importers, text \in Texts : InstallConfig(w, text)
  BY <1>1, EmptySeq DEF InstallConfig
<1>2. ASSUME NEW w \in Importers, InstallWrites(w) PROVE wg' \in Seq(Line)
  <2>1. importing[w] \in Seq(Line)
    BY TextsAssumption, EmptySeq DEF TypeOK
  <2>2. CutShort(importing[w]) \subseteq Seq(Line)
    BY <2>1, CutShortLines
  <2>3. PICK text \in Seq(Line) : wg' = Over(text, wg)
    BY <1>2, <2>1, <2>2 DEF InstallWrites
  <2> QED BY <2>3, OverLines
<1>3. CASE UNCHANGED wg
  BY <1>3
<1>4. UNCHANGED wg
        \/ (\E w \in Importers, text \in Texts : InstallConfig(w, text))
        \/ (\E w \in Importers : InstallWrites(w))
  BY DEF Next, vars, store, TunnelUp, Clear, WriteFiles, UpStep, Rollback, TunnelDown,
     Down, StopAnchor, Crash, LaunchCheck, LaunchSpawn, AppExits, LinkLost, Logout
<1> QED BY <1>1, <1>2, <1>3, <1>4

\* Whatever is imported, by however many at once, and wherever a writer is
\* killed: what wg is handed of wg.conf is what the file says, no more and no
\* less, in its order, and each peer of it has its public key.
THEOREM HandedFaithfully == Spec => []WgFaithful
<1>1. Init => WgInv
  BY TextsAssumption DEF Init, WgInv
<1>2. WgInv => WgFaithful
  BY ParseFaithful DEF WgFaithful, WgInv
<1> QED BY <1>1, <1>2, WgLines, TypeCorrect, PTL DEF Spec

===========================================================================
