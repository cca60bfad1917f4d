----------------------------- MODULE Ownership ------------------------------
(***************************************************************************)
(* Which process serves a session: the lock file of the broker, and how a  *)
(* process takes over the one that a dead process left                     *)
(* (src/broker/lock.ts, start() and stop() in src/broker/broker.ts).  The  *)
(* event store assumes that nobody else changes its files; this module is  *)
(* about why.                                                              *)
(*                                                                         *)
(* A record is published by linking it to its path, which fails where the  *)
(* path exists, and removed by renaming it away, looking at what was moved *)
(* and unlinking it; a removal that finds its path taken again gives up    *)
(* and puts the record back if it finds the path free after that           *)
(* (restoreSync).  Every file operation is a step, also where the code     *)
(* makes several in one call: other processes run between them.  Two paths *)
(* matter: the lock's, and that of the guard that a process takes to       *)
(* remove a lock whose owner died.  What is left of a crash in the middle  *)
(* of a publication or a removal has names of its own and is left out, and *)
(* so is the look that a publication takes at what it has just linked.     *)
(***************************************************************************)
EXTENDS Integers, FiniteSets

CONSTANTS
  Processes,  \* processes that may serve the session, or clean up after one
  NoRecord,   \* nothing at a path
  MaxStarts   \* bound: how often processes are started

\* What a record tells: its process, and when that was started (pid, startIdentity).
Records == [owner: Processes, life: Nat]

ASSUME OwnershipAssumption == MaxStarts \in Nat /\ NoRecord \notin Records

VARIABLES
  lock, guard,  \* the record at the lock's path and at the guard's, or NoRecord
  seen,         \* the dead process's lock that each process is to remove
  moved,        \* what it renamed to its quarantine, or is to rename to it
  pc,           \* where each process is
  life,         \* when it was started
  clock,        \* starts so far
  orphaned,     \* history: a guard outlived its process, which died with it or put it back
  overwritten   \* history: a lock that was put back went over another process's

history == <<orphaned, overwritten>>
ownershipVars == <<lock, guard, moved, seen, pc, life, clock, orphaned, overwritten>>

\* What a process does with the guard: take it, remove a dead process's, and give it back.
TakingGuard == {"guard", "guard inspect", "guard check", "guard rename", "guard verify"}
WithGuard == {"check", "rename", "verify", "restore", "restore rename", "unguard",
              "unguard rename", "failing", "failing rename"}
PuttingBack == {"guard restore", "guard restore again", "guard restore rename",
                "release restore", "release restore rename"}
Holding == {"start", "serve", "release", "release rename"}
Places == {"down", "failed", "publish", "inspect", "unguard verify", "failing verify",
           "release verify"}
          \union TakingGuard \union WithGuard \union PuttingBack \union Holding

Rec(p) == [owner |-> p, life |-> life[p]]
Alive(p) == pc[p] \notin {"down", "failed"}

\* ownerDead: there is no such process, or it was started at another time.
OwnerDead(record) == ~Alive(record.owner) \/ life[record.owner] # record.life

Goto(p, place) == pc' = [pc EXCEPT ![p] = place]

\* The step of p at a place that goes on where the condition holds and throws otherwise.
Step(p, from, condition, to, otherwise) ==
  /\ pc[p] = from /\ Goto(p, IF condition THEN to ELSE otherwise)

-----------------------------------------------------------------------------
(* acquire *)

Publish(p) ==
  /\ Step(p, "publish", lock = NoRecord, "start", "inspect")
  /\ lock' = IF lock = NoRecord THEN Rec(p) ELSE lock
  /\ UNCHANGED <<guard, moved, seen, life, clock, history>>

\* A lock that is gone meanwhile ends the attempt as a live one does.
Inspect(p) ==
  /\ Step(p, "inspect", lock # NoRecord /\ OwnerDead(lock), "guard", "failed")
  /\ seen' = [seen EXCEPT ![p] = lock]
  /\ UNCHANGED <<lock, guard, moved, life, clock, history>>

-----------------------------------------------------------------------------
(* acquireRecoveryGuard *)

TakeGuard(p) ==
  /\ Step(p, "guard", guard = NoRecord, "check", "guard inspect")
  /\ guard' = IF guard = NoRecord THEN Rec(p) ELSE guard
  /\ UNCHANGED <<lock, moved, seen, life, clock, history>>

FaultyInspectGuard(p) ==
  /\ Step(p, "guard inspect", FALSE, "guard check", "failed")
  /\ UNCHANGED <<lock, guard, moved, seen, life, clock, history>>

\* The guard of a dead process is removed without a guard, and without a look at the lock.
InspectGuard(p) ==
  /\ Step(p, "guard inspect", guard # NoRecord /\ OwnerDead(guard), "guard check", "failed")
  /\ moved' = [moved EXCEPT ![p] = guard]
  /\ UNCHANGED <<lock, guard, seen, life, clock, history>>

CheckGuard(p) ==
  /\ Step(p, "guard check", guard = moved[p], "guard rename", "failed")
  /\ UNCHANGED <<lock, guard, moved, seen, life, clock, history>>

RenameGuard(p) ==
  /\ Step(p, "guard rename", guard = moved[p], "guard verify", "failed")
  /\ guard' = NoRecord
  /\ UNCHANGED <<lock, moved, seen, life, clock, history>>

\* Another guard was published meanwhile: the removal is undone, and the attempt ends.
VerifyGuard(p) ==
  /\ Step(p, "guard verify", guard = NoRecord, "guard", "guard restore")
  /\ UNCHANGED <<lock, guard, moved, seen, life, clock, history>>

-----------------------------------------------------------------------------
(* The dead process's lock is removed with the guard *)

FaultyCheck(p) ==
  /\ Step(p, "check", TRUE, "rename", "failing")
  /\ UNCHANGED <<lock, guard, moved, seen, life, clock, history>>

Check(p) ==
  /\ Step(p, "check", lock = seen[p], "rename", "failing")
  /\ UNCHANGED <<lock, guard, moved, seen, life, clock, history>>

\* Whatever is at the path is renamed.
Rename(p) ==
  /\ Step(p, "rename", lock # NoRecord, "verify", "failing")
  /\ lock' = NoRecord /\ moved' = [moved EXCEPT ![p] = lock]
  /\ UNCHANGED <<guard, seen, life, clock, history>>

\* Another record was moved, which stays where it is, or a lock was published meanwhile:
\* then the dead process's is put back.
Verify(p) ==
  /\ \/ moved[p] = seen[p] /\ Step(p, "verify", lock = NoRecord, "unguard", "restore")
     \/ moved[p] # seen[p] /\ pc[p] = "verify" /\ Goto(p, "failing")
  /\ UNCHANGED <<lock, guard, moved, seen, life, clock, history>>

\* restoreSync: the path must be free, which the rename that follows takes for granted.
Restore(p) ==
  /\ Step(p, "restore", lock = NoRecord, "restore rename", "failing")
  /\ UNCHANGED <<lock, guard, moved, seen, life, clock, history>>

PutBack(p) ==
  /\ pc[p] = "restore rename" /\ Goto(p, "failing")
  /\ lock' = moved[p] /\ overwritten' = (overwritten \/ lock # NoRecord)
  /\ UNCHANGED <<guard, moved, seen, life, clock, orphaned>>

\* The guard goes the same way: then the process tries again, or throws what it met.
Unguard(p) ==
  /\ \/ Step(p, "unguard", guard = Rec(p), "unguard rename", "failed")
     \/ Step(p, "failing", guard = Rec(p), "failing rename", "failed")
  /\ UNCHANGED <<lock, guard, moved, seen, life, clock, history>>

RenameUnguard(p) ==
  /\ \/ Step(p, "unguard rename", guard # NoRecord, "unguard verify", "failed")
     \/ Step(p, "failing rename", guard # NoRecord, "failing verify", "failed")
  /\ guard' = NoRecord /\ moved' = [moved EXCEPT ![p] = guard]
  /\ UNCHANGED <<lock, seen, life, clock, history>>

VerifyUnguard(p) ==
  /\ \/ moved[p] = Rec(p) /\ Step(p, "unguard verify", guard = NoRecord, "publish", "guard restore")
     \/ moved[p] = Rec(p) /\ Step(p, "failing verify", guard = NoRecord, "failed", "guard restore")
     \/ moved[p] # Rec(p) /\ pc[p] \in {"unguard verify", "failing verify"} /\ Goto(p, "failed")
  /\ UNCHANGED <<lock, guard, moved, seen, life, clock, history>>

\* A guard is put back, its own or a dead process's, by the removal (finalizeLockRemovalSync)
\* or else by its caller (removeExactPath).  The process throws either way.
RestoreGuard(p) ==
  /\ \/ Step(p, "guard restore", guard = NoRecord, "guard restore rename", "guard restore again")
     \/ Step(p, "guard restore again", guard = NoRecord, "guard restore rename", "failed")
  /\ UNCHANGED <<lock, guard, moved, seen, life, clock, history>>

PutGuardBack(p) ==
  /\ pc[p] = "guard restore rename" /\ Goto(p, "failed")
  /\ guard' = moved[p] /\ orphaned' = TRUE
  /\ UNCHANGED <<lock, moved, seen, life, clock, overwritten>>

-----------------------------------------------------------------------------
(* start and stop *)

\* start() opens the store and listens, or fails and gives the lock back.
Serve(p) ==
  /\ pc[p] = "start" /\ (Goto(p, "serve") \/ Goto(p, "release"))
  /\ UNCHANGED <<lock, guard, moved, seen, life, clock, history>>

\* stop() has waited for the work it admitted.
Stop(p) ==
  /\ pc[p] = "serve" /\ Goto(p, "release")
  /\ UNCHANGED <<lock, guard, moved, seen, life, clock, history>>

Release(p) ==
  /\ Step(p, "release", lock = Rec(p), "release rename", "failed")
  /\ UNCHANGED <<lock, guard, moved, seen, life, clock, history>>

RenameRelease(p) ==
  /\ Step(p, "release rename", lock # NoRecord, "release verify", "failed")
  /\ lock' = NoRecord /\ moved' = [moved EXCEPT ![p] = lock]
  /\ UNCHANGED <<guard, seen, life, clock, history>>

\* What was moved must be its own: it is put back where another lock was published.
VerifyRelease(p) ==
  /\ \/ moved[p] = Rec(p) /\ Step(p, "release verify", lock = NoRecord, "down", "release restore")
     \/ moved[p] # Rec(p) /\ pc[p] = "release verify" /\ Goto(p, "failed")
  /\ UNCHANGED <<lock, guard, moved, seen, life, clock, history>>

RestoreRelease(p) ==
  /\ Step(p, "release restore", lock = NoRecord, "release restore rename", "failed")
  /\ UNCHANGED <<lock, guard, moved, seen, life, clock, history>>

PutReleasedBack(p) ==
  /\ pc[p] = "release restore rename" /\ Goto(p, "failed")
  /\ lock' = moved[p] /\ overwritten' = (overwritten \/ lock # NoRecord)
  /\ UNCHANGED <<guard, moved, seen, life, clock, orphaned>>

-----------------------------------------------------------------------------
StartProcess(p) ==
  /\ ~Alive(p) /\ clock < MaxStarts
  /\ clock' = clock + 1 /\ life' = [life EXCEPT ![p] = clock']
  /\ moved' = [moved EXCEPT ![p] = NoRecord] /\ seen' = [seen EXCEPT ![p] = NoRecord]
  /\ Goto(p, "publish")
  /\ UNCHANGED <<lock, guard, history>>

Crash(p) ==
  /\ Alive(p) /\ Goto(p, "down")
  /\ orphaned' = (orphaned \/ guard = Rec(p))
  /\ UNCHANGED <<lock, guard, moved, seen, life, clock, overwritten>>

OwnershipInit ==
  /\ lock = NoRecord /\ guard = NoRecord /\ clock = 0
  /\ orphaned = FALSE /\ overwritten = FALSE
  /\ moved = [p \in Processes |-> NoRecord] /\ seen = [p \in Processes |-> NoRecord]
  /\ pc = [p \in Processes |-> "down"] /\ life = [p \in Processes |-> 0]

Acquire(p) == Publish(p) \/ Inspect(p)
Guarding(p) == TakeGuard(p) \/ InspectGuard(p) \/ CheckGuard(p) \/ RenameGuard(p)
               \/ VerifyGuard(p) \/ Unguard(p) \/ RenameUnguard(p) \/ VerifyUnguard(p)
Removing(p) == Check(p) \/ Rename(p) \/ Verify(p)
Ending(p) == Release(p) \/ RenameRelease(p) \/ VerifyRelease(p)
Restoring(p) == Restore(p) \/ PutBack(p) \/ RestoreGuard(p) \/ PutGuardBack(p)
                \/ RestoreRelease(p) \/ PutReleasedBack(p)
Run(p) == Acquire(p) \/ Guarding(p) \/ Removing(p) \/ Serve(p) \/ Ending(p) \/ Restoring(p)

OwnershipNext == \E p \in Processes : Run(p) \/ Stop(p) \/ StartProcess(p) \/ Crash(p)

\* A process that runs makes its next step.
OwnershipSpec ==
  /\ OwnershipInit /\ [][OwnershipNext]_ownershipVars
  /\ \A p \in Processes : WF_ownershipVars(Run(p))

-----------------------------------------------------------------------------
\* Every variable has values of its type.
OwnershipTypeOK ==
  /\ lock \in Records \union {NoRecord} /\ guard \in Records \union {NoRecord}
  /\ moved \in [Processes -> Records \union {NoRecord}]
  /\ seen \in [Processes -> Records \union {NoRecord}]
  /\ pc \in [Processes -> Places] /\ life \in [Processes -> Nat] /\ clock \in Nat
  /\ orphaned \in BOOLEAN /\ overwritten \in BOOLEAN

\* At most one process at a time has the lock, from acquire until release moves its
\* record away, however processes start, crash and take over the locks of dead ones
\* (BrokerLock).  Two may have it only after a guard outlived its process, or after a
\* lock that was put back went over another one (restoreSync).
OneHolder ==
  \/ orphaned \/ overwritten
  \/ \A p, q \in Processes : pc[p] \in Holding /\ pc[q] \in Holding => p = q

\* A process that is alone gets the lock, whatever records dead processes left at either
\* path (acquireRecoveryGuard): it fails only because of another one.
Alone(p) == \A q \in Processes \ {p} : ~Alive(q)
RecoversAlone ==
  \A p \in Processes :
    pc[p] = "publish" /\ Alone(p) ~> (pc[p] \in Holding \/ pc[p] = "down" \/ ~Alone(p))

=============================================================================
