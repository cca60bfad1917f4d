-------------------------- MODULE Ownership_proofs --------------------------
(* At most one process has the lock, for any number of processes and starts. *)
EXTENDS Ownership, TLAPS

-----------------------------------------------------------------------------
\* No record is from the future: a process that starts is not taken for the owner of
\* an old record.
NoFutureRecord ==
  /\ \A p \in Processes : life[p] <= clock
  /\ lock # NoRecord => lock.life <= clock
  /\ \A p \in Processes : moved[p] # NoRecord => moved[p].life <= clock
  /\ guard # NoRecord => guard.life <= clock
  /\ \A p \in Processes : seen[p] # NoRecord => seen[p].life <= clock

\* A process that is to remove a lock has seen that its owner is dead.
Removers == TakingGuard \union {"check", "rename"}
SeenDead ==
  \A p \in Processes : pc[p] \in Removers => seen[p] # NoRecord /\ OwnerDead(seen[p])

\* The guard is of the process that has it, and nobody removes another one's.
GuardHeld ==
  /\ \A p \in Processes : pc[p] \in WithGuard => guard = Rec(p)
  /\ guard # NoRecord => pc[guard.owner] \in WithGuard /\ guard = Rec(guard.owner)
  /\ \A p \in Processes : pc[p] \notin {"guard check", "guard rename", "guard verify"}

\* The lock is of the process that holds it, and what is about to be removed is the lock
\* of a dead process.
LockHeld ==
  /\ \A p \in Processes : pc[p] \in Holding => lock = Rec(p)
  /\ \A p \in Processes : pc[p] = "rename" => lock = seen[p]

OwnershipInv ==
  /\ OwnershipTypeOK /\ NoFutureRecord /\ SeenDead
  /\ ~orphaned => GuardHeld
  /\ ~orphaned /\ ~overwritten => LockHeld

USE OwnershipAssumption

-----------------------------------------------------------------------------
(* Types. *)

LEMMA RecordType ==
  ASSUME OwnershipTypeOK, NEW p \in Processes
  PROVE  Rec(p) \in Records /\ Rec(p).owner = p /\ Rec(p).life = life[p] /\ Rec(p) # NoRecord
BY DEF OwnershipTypeOK, Rec, Records

\* Records of different processes are different.
LEMMA RecordOwner == ASSUME NEW p, NEW q, Rec(p) = Rec(q) PROVE p = q
<1>1. Rec(p).owner = p /\ Rec(q).owner = q
  BY DEF Rec
<1>. QED  BY <1>1

LEMMA InitType == OwnershipInit => OwnershipTypeOK
<1> SUFFICES ASSUME OwnershipInit PROVE OwnershipTypeOK
  OBVIOUS
<1> USE DEF OwnershipInit
<1>1. lock \in Records \union {NoRecord} /\ guard \in Records \union {NoRecord}
  OBVIOUS
<1>2. moved \in [Processes -> Records \union {NoRecord}]
  OBVIOUS
<1>2a. seen \in [Processes -> Records \union {NoRecord}]
  OBVIOUS
<1>3. pc \in [Processes -> Places]
  BY DEF Places
<1>4. /\ life \in [Processes -> Nat] /\ clock \in Nat
      /\ orphaned \in BOOLEAN /\ overwritten \in BOOLEAN
  OBVIOUS
<1>. QED  BY <1>1, <1>2, <1>2a, <1>3, <1>4 DEF OwnershipTypeOK

\* A step of a process keeps the types.
LEMMA RunType ==
  ASSUME OwnershipTypeOK, NEW p \in Processes, Run(p)
  PROVE  OwnershipTypeOK'
<1>1. Rec(p) \in Records
  BY RecordType
<1> USE DEF OwnershipTypeOK, Places, TakingGuard, WithGuard, PuttingBack, Holding, history, Step,
        Goto
<1>2. CASE Acquire(p)
  BY <1>1, <1>2 DEF Acquire, Publish, Inspect
<1>3. CASE Guarding(p)
  <2>1. CASE TakeGuard(p) \/ InspectGuard(p) \/ CheckGuard(p) \/ RenameGuard(p) \/ VerifyGuard(p)
    BY <1>1, <2>1 DEF TakeGuard, InspectGuard, CheckGuard, RenameGuard, VerifyGuard
  <2>2. CASE Unguard(p) \/ RenameUnguard(p) \/ VerifyUnguard(p)
    BY <2>2 DEF Unguard, RenameUnguard, VerifyUnguard
  <2>. QED  BY <1>3, <2>1, <2>2 DEF Guarding
<1>4. CASE Removing(p)
  BY <1>4 DEF Removing, Check, Rename, Verify
<1>5. CASE Serve(p)
  BY <1>5 DEF Serve
<1>6. CASE Ending(p)
  BY <1>6 DEF Ending, Release, RenameRelease, VerifyRelease
<1>7. CASE Restoring(p)
  <2>1. CASE Restore(p) \/ RestoreGuard(p) \/ RestoreRelease(p)
    BY <2>1 DEF Restore, RestoreGuard, RestoreRelease
  <2>2. CASE PutBack(p) \/ PutGuardBack(p) \/ PutReleasedBack(p)
    BY <2>2 DEF PutBack, PutGuardBack, PutReleasedBack
  <2>. QED  BY <1>7, <2>1, <2>2 DEF Restoring
<1>. QED  BY <1>2, <1>3, <1>4, <1>5, <1>6, <1>7 DEF Run

\* So does every step.
LEMMA NextType == OwnershipTypeOK /\ [OwnershipNext]_ownershipVars => OwnershipTypeOK'
<1> SUFFICES ASSUME OwnershipTypeOK, [OwnershipNext]_ownershipVars
             PROVE  OwnershipTypeOK'
  OBVIOUS
<1> USE DEF OwnershipTypeOK, history
<1>1. ASSUME NEW p \in Processes, Stop(p)
      PROVE  OwnershipTypeOK'
  BY <1>1 DEF Stop, Goto, Places, Holding
<1>2. ASSUME NEW p \in Processes, StartProcess(p)
      PROVE  OwnershipTypeOK'
  <2>1. pc' \in [Processes -> Places]
    BY <1>2 DEF StartProcess, Goto, Places
  <2>2. life' \in [Processes -> Nat] /\ clock' \in Nat
    BY <1>2 DEF StartProcess
  <2>. QED  BY <1>2, <2>1, <2>2 DEF StartProcess
<1>3. ASSUME NEW p \in Processes, Crash(p)
      PROVE  OwnershipTypeOK'
  BY <1>3 DEF Crash, Goto, Places
<1>4. CASE UNCHANGED ownershipVars
  BY <1>4 DEF ownershipVars
<1>. QED  BY <1>1, <1>2, <1>3, <1>4, RunType DEF OwnershipNext

\* Every variable has values of its type, for any number of processes and starts.
THEOREM OwnershipTypeCorrect == OwnershipSpec => []OwnershipTypeOK
<1>. QED  BY InitType, NextType, PTL DEF OwnershipSpec

-----------------------------------------------------------------------------
(* Death is final. *)

\* The owner of a record that is not from the future stays dead: the process may only be
\* started at another time.
LEMMA DeadStaysDead ==
  ASSUME OwnershipTypeOK, NoFutureRecord, [OwnershipNext]_ownershipVars,
         NEW r \in Records, r.life <= clock, OwnerDead(r)
  PROVE  OwnerDead(r)'
<1>1. r.owner \in Processes /\ r.life \in Nat
  BY DEF Records
<1>2. ASSUME NEW p \in Processes, Run(p) \/ Stop(p)
      PROVE  Alive(p) /\ \A q \in Processes : (q # p => pc'[q] = pc[q]) /\ life'[q] = life[q]
  <2> USE DEF Step, Goto, Alive, OwnershipTypeOK
  <2>1. CASE Acquire(p) \/ Removing(p) \/ Serve(p) \/ Ending(p) \/ Stop(p)
    BY <2>1 DEF Acquire, Publish, Inspect, Removing, Check, Rename, Verify, Serve, Ending,
       Release, RenameRelease, VerifyRelease, Stop
  <2>2. CASE Guarding(p)
    BY <2>2 DEF Guarding, TakeGuard, InspectGuard, CheckGuard, RenameGuard, VerifyGuard, Unguard,
       RenameUnguard, VerifyUnguard
  <2>3. CASE Restoring(p)
    BY <2>3 DEF Restoring, Restore, PutBack, RestoreGuard, PutGuardBack, RestoreRelease,
       PutReleasedBack
  <2>. QED  BY <1>2, <2>1, <2>2, <2>3 DEF Run
<1>3. ASSUME NEW p \in Processes, Run(p) \/ Stop(p)
      PROVE  OwnerDead(r)'
  BY <1>1, <1>2, <1>3 DEF OwnerDead, Alive
<1>4. ASSUME NEW p \in Processes, StartProcess(p)
      PROVE  OwnerDead(r)'
  BY <1>1, <1>4 DEF StartProcess, OwnerDead, Alive, Goto, OwnershipTypeOK, NoFutureRecord
<1>5. ASSUME NEW p \in Processes, Crash(p)
      PROVE  OwnerDead(r)'
  BY <1>1, <1>5 DEF Crash, OwnerDead, Alive, Goto, OwnershipTypeOK
<1>6. CASE UNCHANGED ownershipVars
  BY <1>6 DEF ownershipVars, OwnerDead, Alive
<1>. QED  BY <1>3, <1>4, <1>5, <1>6 DEF OwnershipNext

-----------------------------------------------------------------------------
(* The invariant. *)

LEMMA NoFutureRecordInductive ==
  ASSUME OwnershipTypeOK, NoFutureRecord, [OwnershipNext]_ownershipVars
  PROVE  NoFutureRecord'
<1> USE DEF OwnershipTypeOK, NoFutureRecord
<1>1. ASSUME NEW p \in Processes, Publish(p)
      PROVE  NoFutureRecord'
  BY <1>1, RecordType DEF Publish
<1>2. ASSUME NEW p \in Processes, Inspect(p)
      PROVE  NoFutureRecord'
  BY <1>2 DEF Inspect
<1>3. ASSUME NEW p \in Processes, Guarding(p) \/ Serve(p) \/ Stop(p) \/ Crash(p)
      PROVE  NoFutureRecord'
  <2>1. CASE TakeGuard(p)
    BY <2>1, RecordType DEF TakeGuard
  <2>2. CASE InspectGuard(p) \/ CheckGuard(p) \/ RenameGuard(p) \/ VerifyGuard(p)
    BY <2>2 DEF InspectGuard, CheckGuard, RenameGuard, VerifyGuard
  <2>3. CASE Unguard(p) \/ RenameUnguard(p) \/ VerifyUnguard(p)
    BY <2>3 DEF Unguard, RenameUnguard, VerifyUnguard
  <2>4. CASE Serve(p) \/ Stop(p) \/ Crash(p)
    BY <2>4 DEF Serve, Stop, Crash
  <2>. QED  BY <1>3, <2>1, <2>2, <2>3, <2>4 DEF Guarding
<1>4. ASSUME NEW p \in Processes, Removing(p) \/ Ending(p)
      PROVE  NoFutureRecord'
  BY <1>4 DEF Removing, Check, Rename, Verify, Ending, Release, RenameRelease, VerifyRelease
<1>4a. ASSUME NEW p \in Processes, Restoring(p)
       PROVE  NoFutureRecord'
  BY <1>4a DEF Restoring, Restore, PutBack, RestoreGuard, PutGuardBack,
     RestoreRelease, PutReleasedBack
<1>5. ASSUME NEW p \in Processes, StartProcess(p)
      PROVE  NoFutureRecord'
  <2>1. lock # NoRecord => lock.life \in Nat
    BY DEF Records
  <2>2. \A q \in Processes : seen[q] # NoRecord => seen[q].life \in Nat
    BY DEF Records
  <2>3. guard # NoRecord => guard.life \in Nat
    BY DEF Records
  <2>4. \A q \in Processes : moved[q] # NoRecord => moved[q].life \in Nat
    BY DEF Records
  <2>5. clock' = clock + 1 /\ lock' = lock /\ guard' = guard
    BY <1>5 DEF StartProcess
  <2>6. \A q \in Processes : life'[q] <= clock'
    BY <1>5 DEF StartProcess
  <2>7. \A q \in Processes : /\ seen'[q] = NoRecord \/ seen'[q] = seen[q]
                             /\ moved'[q] = NoRecord \/ moved'[q] = moved[q]
    BY <1>5 DEF StartProcess
  <2>8. lock' # NoRecord => lock'.life <= clock'
    BY <2>1, <2>5
  <2>9. guard' # NoRecord => guard'.life <= clock'
    BY <2>3, <2>5
  <2>10. ASSUME NEW q \in Processes, seen'[q] # NoRecord
         PROVE  seen'[q].life <= clock'
    <3>1. seen'[q] = seen[q]
      BY <2>7, <2>10
    <3>2. seen[q].life <= clock /\ seen[q].life \in Nat
      BY <2>2, <2>10, <3>1
    <3>. QED  BY <2>5, <3>1, <3>2
  <2>11. ASSUME NEW q \in Processes, moved'[q] # NoRecord
         PROVE  moved'[q].life <= clock'
    <3>1. moved'[q] = moved[q]
      BY <2>7, <2>11
    <3>2. moved[q].life <= clock /\ moved[q].life \in Nat
      BY <2>4, <2>11, <3>1
    <3>. QED  BY <2>5, <3>1, <3>2
  <2>. QED  BY <2>6, <2>8, <2>9, <2>10, <2>11
<1>6. CASE UNCHANGED ownershipVars
  BY <1>6 DEF ownershipVars
<1>. QED  BY <1>1, <1>2, <1>3, <1>4, <1>4a, <1>5, <1>6 DEF OwnershipNext, Run, Acquire

\* Whoever is about to remove a lock has seen a dead owner's, and its owner stays dead.
LEMMA SeenDeadInductive ==
  ASSUME OwnershipTypeOK, NoFutureRecord, SeenDead, [OwnershipNext]_ownershipVars
  PROVE  SeenDead'
<1> SUFFICES ASSUME NEW p \in Processes, pc'[p] \in Removers
             PROVE  seen'[p] # NoRecord /\ OwnerDead(seen[p])'
  BY DEF SeenDead
<1>1. ASSUME pc[p] \in Removers, seen'[p] = seen[p]
      PROVE  seen'[p] # NoRecord /\ OwnerDead(seen[p])'
  <2>1. seen[p] \in Records /\ seen[p].life <= clock /\ OwnerDead(seen[p])
    BY <1>1 DEF SeenDead, OwnershipTypeOK, NoFutureRecord
  <2>2. PICK r \in Records : r = seen[p]
    BY <2>1
  <2>3. OwnerDead(r)'
    BY <2>1, <2>2, DeadStaysDead
  <2>4. seen'[p] = r /\ r # NoRecord
    BY <1>1, <2>2, OwnershipAssumption
  <2>. QED  BY <2>3, <2>4 DEF OwnerDead, Alive
<1>2. ASSUME Inspect(p)
      PROVE  seen'[p] # NoRecord /\ OwnerDead(seen[p])'
  <2>1. lock # NoRecord /\ OwnerDead(lock) /\ seen'[p] = lock
    BY <1>2 DEF Inspect, Step, Goto, Removers, TakingGuard, OwnershipTypeOK
  <2>2. lock \in Records /\ lock.life <= clock
    BY <2>1 DEF OwnershipTypeOK, NoFutureRecord
  <2>3. PICK r \in Records : r = lock
    BY <2>2
  <2>4. OwnerDead(r)'
    BY <2>1, <2>2, <2>3, DeadStaysDead
  <2>. QED  BY <2>1, <2>3, <2>4 DEF OwnerDead, Alive
<1>3. (pc[p] \in Removers /\ seen'[p] = seen[p]) \/ Inspect(p)
  <2> USE DEF Removers, TakingGuard, OwnershipTypeOK, Step, Goto
  <2>1. ASSUME NEW q \in Processes, Guarding(q)
        PROVE  pc[p] \in Removers /\ seen'[p] = seen[p]
    <3>1. CASE TakeGuard(q) \/ InspectGuard(q) \/ CheckGuard(q) \/ RenameGuard(q) \/ VerifyGuard(q)
      BY <3>1 DEF TakeGuard, InspectGuard, CheckGuard, RenameGuard, VerifyGuard
    <3>2. CASE Unguard(q) \/ RenameUnguard(q) \/ VerifyUnguard(q)
      BY <3>2 DEF Unguard, RenameUnguard, VerifyUnguard
    <3>. QED  BY <2>1, <3>1, <3>2 DEF Guarding
  <2>2. ASSUME NEW q \in Processes, Publish(q) \/ Removing(q) \/ Serve(q) \/ Ending(q) \/ Stop(q)
        PROVE  pc[p] \in Removers /\ seen'[p] = seen[p]
    BY <2>2 DEF Publish, Removing, Check, Rename, Verify, Serve, Ending, Release, RenameRelease,
       VerifyRelease, Stop
  <2>2a. ASSUME NEW q \in Processes, Restoring(q)
         PROVE  pc[p] \in Removers /\ seen'[p] = seen[p]
    BY <2>2a DEF Restoring, Restore, PutBack, RestoreGuard, PutGuardBack, RestoreRelease,
       PutReleasedBack
  <2>3. ASSUME NEW q \in Processes, StartProcess(q) \/ Crash(q)
        PROVE  pc[p] \in Removers /\ seen'[p] = seen[p]
    BY <2>3 DEF StartProcess, Crash
  <2>4. ASSUME NEW q \in Processes, Inspect(q)
        PROVE  (pc[p] \in Removers /\ seen'[p] = seen[p]) \/ Inspect(p)
    BY <2>4 DEF Inspect
  <2>5. CASE UNCHANGED ownershipVars
    BY <2>5 DEF ownershipVars
  <2>. QED  BY <2>1, <2>2, <2>2a, <2>3, <2>4, <2>5 DEF OwnershipNext, Run, Acquire
<1>. QED  BY <1>1, <1>2, <1>3

\* As long as no guard outlives its process, the guard is of the process that takes itself
\* for its owner.
LEMMA GuardHeldInductive ==
  ASSUME OwnershipTypeOK, GuardHeld, [OwnershipNext]_ownershipVars, ~orphaned'
  PROVE  GuardHeld'
<1>0. guard # NoRecord => /\ guard.owner \in Processes /\ guard.life = life[guard.owner]
                          /\ pc[guard.owner] \in WithGuard
  <2>1. guard # NoRecord => guard \in Records /\ guard = Rec(guard.owner)
    BY DEF OwnershipTypeOK, GuardHeld
  <2>2. Rec(guard.owner).life = life[guard.owner]
    BY DEF Rec
  <2>. QED  BY <2>1, <2>2 DEF Records, GuardHeld
<1>a. \A p, q \in Processes : pc[p] \in WithGuard /\ pc[q] \in WithGuard => p = q
  BY RecordOwner DEF GuardHeld
<1>b. \A p \in Processes : pc[p] \in WithGuard => guard # NoRecord
  BY RecordType DEF GuardHeld
<1> USE DEF Step, Goto
<1>1. ASSUME NEW p \in Processes, TakeGuard(p)
      PROVE  GuardHeld'
  <2>1. CASE guard = NoRecord
    <3>1. /\ pc' = [pc EXCEPT ![p] = "check"] /\ guard' = Rec(p) /\ life' = life
          /\ \A q \in Processes : pc[q] \notin WithGuard
      BY <1>b, <1>1, <2>1 DEF TakeGuard
    <3>2. /\ \A q \in Processes : q # p => pc'[q] = pc[q]
          /\ pc'[p] = "check"
      BY <3>1 DEF OwnershipTypeOK
    <3>3. Rec(p)' = Rec(p) /\ Rec(p).owner = p
      BY <3>1 DEF Rec
    <3>. QED  BY <3>1, <3>2, <3>3 DEF GuardHeld, WithGuard
  <2>2. CASE guard # NoRecord
    <3>1. /\ pc[p] = "guard" /\ pc'[p] = "guard inspect" /\ UNCHANGED <<guard, life>>
          /\ \A q \in Processes : q # p => pc'[q] = pc[q]
      BY <1>1, <2>2 DEF TakeGuard, OwnershipTypeOK
    <3>2. \A q : Rec(q)' = Rec(q)
      BY <3>1 DEF Rec
    <3>. QED  BY <1>0, <3>1, <3>2 DEF GuardHeld, WithGuard
  <2>. QED  BY <2>1, <2>2
<1>2. ASSUME NEW p \in Processes, InspectGuard(p)
      PROVE  GuardHeld'
  <2>1. guard # NoRecord => ~OwnerDead(guard)
    BY <1>0 DEF OwnerDead, Alive, WithGuard
  <2>2. pc' = [pc EXCEPT ![p] = "failed"] /\ pc[p] = "guard inspect" /\ UNCHANGED <<guard, life>>
    BY <1>2, <2>1 DEF InspectGuard
  <2>3. pc'[p] = "failed" /\ \A q \in Processes : q # p => pc'[q] = pc[q]
    BY <2>2 DEF OwnershipTypeOK
  <2>4. guard # NoRecord => guard.owner # p
    BY <1>0, <2>2 DEF WithGuard
  <2>5. \A q : Rec(q)' = Rec(q)
    BY <2>2 DEF Rec
  <2>. QED  BY <1>0, <2>2, <2>3, <2>4, <2>5 DEF GuardHeld, WithGuard
<1>3. ASSUME NEW p \in Processes, CheckGuard(p) \/ RenameGuard(p) \/ VerifyGuard(p)
      PROVE  FALSE
  BY <1>3 DEF CheckGuard, RenameGuard, VerifyGuard, GuardHeld
<1>4. ASSUME NEW p \in Processes, Unguard(p) \/ Removing(p) \/ Restore(p) \/ PutBack(p)
      PROVE  GuardHeld'
  <2>1. /\ pc[p] \in WithGuard /\ pc'[p] \in WithGuard
        /\ \A q \in Processes : q # p => pc'[q] = pc[q]
    <3>1. CASE Unguard(p)
      BY <3>1 DEF Unguard, WithGuard, OwnershipTypeOK, GuardHeld
    <3>2. CASE Removing(p)
      BY <3>2 DEF Removing, Check, Rename, Verify, WithGuard, OwnershipTypeOK
    <3>3. CASE Restore(p) \/ PutBack(p)
      BY <3>3 DEF Restore, PutBack, WithGuard, OwnershipTypeOK
    <3>. QED  BY <1>4, <3>1, <3>2, <3>3
  <2>2. guard' = guard /\ life' = life
    BY <1>4 DEF Unguard, Removing, Check, Rename, Verify, Restore, PutBack
  <2>3. \A q : Rec(q)' = Rec(q)
    BY <2>2 DEF Rec
  <2>. QED  BY <1>0, <2>1, <2>2, <2>3 DEF GuardHeld, WithGuard
<1>5. ASSUME NEW p \in Processes, RenameUnguard(p)
      PROVE  GuardHeld'
  <2>1. pc[p] \in WithGuard /\ guard' = NoRecord /\ life' = life
    BY <1>5 DEF RenameUnguard, WithGuard
  <2>2. \A q \in Processes : q # p => pc'[q] = pc[q] /\ pc'[q] \notin WithGuard
    BY <1>5, <1>a, <2>1 DEF RenameUnguard, OwnershipTypeOK
  <2>3. pc'[p] \in {"unguard verify", "failing verify", "failed"}
    BY <1>5 DEF RenameUnguard, OwnershipTypeOK
  <2>. QED  BY <2>1, <2>2, <2>3 DEF GuardHeld, WithGuard
<1>6. ASSUME NEW p \in Processes,
             \/ Acquire(p) \/ VerifyUnguard(p) \/ Serve(p) \/ Stop(p) \/ Ending(p)
             \/ RestoreGuard(p) \/ RestoreRelease(p) \/ PutReleasedBack(p)
      PROVE  GuardHeld'
  <2>1. /\ guard' = guard /\ life' = life
        /\ \A q \in Processes : q # p => pc'[q] = pc[q]
        /\ pc[p] \notin WithGuard /\ pc'[p] \notin WithGuard
        /\ pc'[p] \notin {"guard check", "guard rename", "guard verify"}
    <3> USE DEF OwnershipTypeOK, WithGuard
    <3>1. CASE Acquire(p) \/ Serve(p) \/ Stop(p)
      BY <3>1 DEF Acquire, Publish, Inspect, Serve, Stop
    <3>2. CASE VerifyUnguard(p)
      BY <3>2 DEF VerifyUnguard
    <3>3. CASE Ending(p)
      BY <3>3 DEF Ending, Release, RenameRelease, VerifyRelease
    <3>4. CASE RestoreGuard(p) \/ RestoreRelease(p) \/ PutReleasedBack(p)
      BY <3>4 DEF RestoreGuard, RestoreRelease, PutReleasedBack
    <3>. QED  BY <1>6, <3>1, <3>2, <3>3, <3>4
  <2>2. \A q : Rec(q)' = Rec(q)
    BY <2>1 DEF Rec
  <2>. QED  BY <1>0, <2>1, <2>2 DEF GuardHeld
<1>6a. ASSUME NEW p \in Processes, PutGuardBack(p)
       PROVE  FALSE
  BY <1>6a DEF PutGuardBack
<1>7. ASSUME NEW p \in Processes, StartProcess(p)
      PROVE  GuardHeld'
  <2>1. pc[p] \notin WithGuard /\ pc'[p] = "publish" /\ guard' = guard
    BY <1>7 DEF StartProcess, Alive, WithGuard, OwnershipTypeOK
  <2>2. \A q \in Processes : q # p => pc'[q] = pc[q] /\ life'[q] = life[q]
    BY <1>7 DEF StartProcess, OwnershipTypeOK
  <2>3. \A q \in Processes : q # p => Rec(q)' = Rec(q)
    BY <2>2 DEF Rec
  <2>. QED  BY <1>0, <2>1, <2>2, <2>3 DEF GuardHeld, WithGuard
<1>8. ASSUME NEW p \in Processes, Crash(p)
      PROVE  GuardHeld'
  <2>1. guard # Rec(p) /\ guard' = guard /\ life' = life
    BY <1>8 DEF Crash
  <2>2. pc'[p] = "down" /\ \A q \in Processes : q # p => pc'[q] = pc[q]
    BY <1>8 DEF Crash, OwnershipTypeOK
  <2>3. \A q : Rec(q)' = Rec(q)
    BY <2>1 DEF Rec
  <2>. QED  BY <1>0, <2>1, <2>2, <2>3 DEF GuardHeld, WithGuard
<1>9. CASE UNCHANGED ownershipVars
  BY <1>9 DEF ownershipVars, Rec, GuardHeld
<1>. QED  BY <1>1, <1>2, <1>3, <1>4, <1>5, <1>6, <1>6a, <1>7, <1>8, <1>9
     DEF OwnershipNext, Run, Guarding, Restoring

\* The lock is of the process that holds it: what another one removes is a dead process's,
\* and what is put back goes where no lock is.
LEMMA LockHeldInductive ==
  ASSUME OwnershipTypeOK, SeenDead, GuardHeld, LockHeld, [OwnershipNext]_ownershipVars,
         ~overwritten'
  PROVE  LockHeld'
<1> USE DEF OwnershipTypeOK, LockHeld, Step, Goto, Holding
<1>1. \A p, q \in Processes : pc[p] = "rename" => pc[q] \notin Holding
  <2>1. SUFFICES ASSUME NEW p \in Processes, NEW q \in Processes, pc[p] = "rename",
                        pc[q] \in Holding
                 PROVE  FALSE
    OBVIOUS
  <2>2. lock = Rec(q) /\ OwnerDead(lock)
    BY <2>1 DEF SeenDead, Removers
  <2>. QED  BY <2>1, <2>2, RecordType DEF OwnerDead, Alive
<1>2. \A p, q \in Processes : pc[p] = "rename" /\ pc[q] = "rename" => p = q
  <2>1. SUFFICES ASSUME NEW p \in Processes, NEW q \in Processes, pc[p] = "rename",
                        pc[q] = "rename"
                 PROVE  p = q
    OBVIOUS
  <2>2. guard = Rec(p) /\ guard = Rec(q)
    BY <2>1 DEF GuardHeld, WithGuard
  <2>. QED  BY <2>2, RecordOwner
<1>3. \A p, q \in Processes : pc[p] \in Holding /\ pc[q] \in Holding => p = q
  BY RecordOwner
<1>3a. lock = NoRecord => \A q \in Processes : pc[q] \notin Holding /\ pc[q] # "rename"
  <2>1. \A q \in Processes : pc[q] \in Holding => lock # NoRecord
    BY RecordType
  <2>2. \A q \in Processes : pc[q] = "rename" => lock # NoRecord
    BY DEF SeenDead, Removers
  <2>. QED  BY <2>1, <2>2
<1>4. ASSUME NEW p \in Processes, Publish(p)
      PROVE  LockHeld'
  BY <1>3a, <1>4 DEF Publish, Rec
<1>4a. ASSUME NEW p \in Processes, PutBack(p) \/ PutReleasedBack(p)
       PROVE  LockHeld'
  <2>1. lock = NoRecord
    BY <1>4a DEF PutBack, PutReleasedBack
  <2>2. pc'[p] \in {"failing", "failed"} /\ \A q \in Processes : q # p => pc'[q] = pc[q]
    BY <1>4a DEF PutBack, PutReleasedBack
  <2>. QED  BY <1>3a, <2>1, <2>2
<1>4b. ASSUME NEW p \in Processes,
              Restore(p) \/ RestoreRelease(p) \/ RestoreGuard(p) \/ PutGuardBack(p)
       PROVE  LockHeld'
  BY <1>4b DEF Restore, RestoreRelease, RestoreGuard, PutGuardBack, Rec
<1>5. ASSUME NEW p \in Processes, Rename(p)
      PROVE  LockHeld'
  BY <1>1, <1>2, <1>5 DEF Rename
<1>6. ASSUME NEW p \in Processes, RenameRelease(p)
      PROVE  LockHeld'
  BY <1>1, <1>3, <1>6 DEF RenameRelease
<1>7. ASSUME NEW p \in Processes, Inspect(p) \/ Check(p) \/ Verify(p)
      PROVE  LockHeld'
  BY <1>7 DEF Inspect, Check, Verify, Rec
<1>8. ASSUME NEW p \in Processes, Guarding(p)
      PROVE  LockHeld'
  <2>1. CASE TakeGuard(p) \/ InspectGuard(p) \/ CheckGuard(p) \/ RenameGuard(p) \/ VerifyGuard(p)
    BY <2>1 DEF TakeGuard, InspectGuard, CheckGuard, RenameGuard, VerifyGuard, Rec
  <2>2. CASE Unguard(p) \/ RenameUnguard(p) \/ VerifyUnguard(p)
    BY <2>2 DEF Unguard, RenameUnguard, VerifyUnguard, Rec
  <2>. QED  BY <1>8, <2>1, <2>2 DEF Guarding
<1>9. ASSUME NEW p \in Processes, Serve(p) \/ Stop(p) \/ Release(p) \/ VerifyRelease(p)
      PROVE  LockHeld'
  BY <1>9 DEF Serve, Stop, Release, VerifyRelease, Rec
<1>10. ASSUME NEW p \in Processes, StartProcess(p) \/ Crash(p)
      PROVE  LockHeld'
  BY <1>10 DEF StartProcess, Crash, Rec, Alive
<1>11. CASE UNCHANGED ownershipVars
  BY <1>11 DEF ownershipVars, Rec
<1>. QED  BY <1>4, <1>4a, <1>4b, <1>5, <1>6, <1>7, <1>8, <1>9, <1>10, <1>11
     DEF OwnershipNext, Run, Acquire, Removing, Ending, Restoring

LEMMA OwnershipInvHolds == OwnershipSpec => []OwnershipInv
<1>1. OwnershipInit => OwnershipInv
  <2> SUFFICES ASSUME OwnershipInit PROVE OwnershipInv
    OBVIOUS
  <2>1. NoFutureRecord /\ SeenDead
    BY DEF OwnershipInit, NoFutureRecord, SeenDead, Removers, TakingGuard
  <2>2. GuardHeld /\ LockHeld
    BY DEF OwnershipInit, GuardHeld, LockHeld, WithGuard, Holding
  <2>. QED  BY <2>1, <2>2, InitType DEF OwnershipInv
<1>2. OwnershipInv /\ [OwnershipNext]_ownershipVars => OwnershipInv'
  <2> SUFFICES ASSUME OwnershipInv, [OwnershipNext]_ownershipVars PROVE OwnershipInv'
    OBVIOUS
  <2> USE DEF OwnershipInv
  <2>1. OwnershipTypeOK'
    BY NextType
  <2>2. NoFutureRecord'
    BY NoFutureRecordInductive
  <2>3. SeenDead'
    BY SeenDeadInductive
  <2>4. (~orphaned' => ~orphaned) /\ (~overwritten' => ~overwritten)
    <3>1. ASSUME NEW p \in Processes, Run(p) \/ Stop(p) \/ StartProcess(p) \/ Crash(p)
          PROVE  (~orphaned' => ~orphaned) /\ (~overwritten' => ~overwritten)
      <4>0. history' = history => (~orphaned' => ~orphaned) /\ (~overwritten' => ~overwritten)
        BY DEF history
      <4>1. CASE Acquire(p) \/ Removing(p) \/ Serve(p) \/ Ending(p)
        BY <4>0, <4>1 DEF Acquire, Publish, Inspect, Removing, Check, Rename, Verify, Serve,
           Ending, Release, RenameRelease, VerifyRelease
      <4>2. CASE Guarding(p)
        BY <4>0, <4>2 DEF Guarding, TakeGuard, InspectGuard, CheckGuard, RenameGuard,
           VerifyGuard, Unguard, RenameUnguard, VerifyUnguard
      <4>3. CASE Restore(p) \/ RestoreGuard(p) \/ RestoreRelease(p)
        BY <4>0, <4>3 DEF Restore, RestoreGuard, RestoreRelease
      <4>4. CASE PutBack(p) \/ PutGuardBack(p) \/ PutReleasedBack(p)
        <5>1. CASE PutBack(p) \/ PutReleasedBack(p)
          <6>1. orphaned' = orphaned /\ overwritten' = (overwritten \/ lock # NoRecord)
            BY <5>1 DEF PutBack, PutReleasedBack
          <6>. QED  BY <6>1, Zenon
        <5>2. CASE PutGuardBack(p)
          <6>1. orphaned' = TRUE /\ overwritten' = overwritten
            BY <5>2 DEF PutGuardBack
          <6>. QED  BY <6>1
        <5>. QED  BY <4>4, <5>1, <5>2
      <4>5. CASE Stop(p) \/ StartProcess(p)
        BY <4>0, <4>5 DEF Stop, StartProcess
      <4>6. CASE Crash(p)
        BY <4>6 DEF Crash
      <4>. QED  BY <3>1, <4>1, <4>2, <4>3, <4>4, <4>5, <4>6 DEF Run, Restoring
    <3>. QED  BY <3>1 DEF OwnershipNext, ownershipVars
  <2>5. ~orphaned' => GuardHeld'
    BY <2>4, GuardHeldInductive
  <2>6. ~orphaned' /\ ~overwritten' => LockHeld'
    BY <2>4, LockHeldInductive
  <2>. QED  BY <2>1, <2>2, <2>3, <2>5, <2>6
<1>. QED  BY <1>1, <1>2, PTL DEF OwnershipSpec

\* At most one process at a time has the lock, for any number of processes that start,
\* crash and take over the locks of dead ones, as long as no guard outlives its process and
\* no lock that is put back goes over another one.
THEOREM OneHolderCorrect == OwnershipSpec => []OneHolder
<1>1. OwnershipInv => OneHolder
  BY RecordOwner DEF OwnershipInv, OneHolder, LockHeld
<1>. QED  BY <1>1, OwnershipInvHolds, PTL

=============================================================================
