------------------------- MODULE Provisioning_proofs -------------------------
(* The attempts to register a managed agent, for any number of requests and crashes. *)
EXTENDS Provisioning, TLAPS

-----------------------------------------------------------------------------
\* Who has the agent's lock, and what its request is about to record of the attempt.
LockKept ==
  /\ lock = "pass" <=> pass \in {"create", "created"}
  /\ lock = "timer" <=> timer = "running"
  /\ lock = "request" <=> request \in {"verify", "record", "archive", "closing"}
  /\ request \in {"verify", "record"} => resource.state = "pending"
  /\ request = "archive" => resource.state = "registered"

\* A child that connects, an agent that has a pane and an attempt that times out come
\* after the pane was created.
PaneFirst ==
  /\ deadline # "unset" => pass \in {"agent", "done"}
  /\ connected => deadline # "unset"
  /\ request \in {"register", "verify", "record", "archive", "boundary", "mismatch"}
       => deadline # "unset"
  /\ paneKnown => pass \in {"agent", "done"}
  /\ request = "closing" => paneKnown
  /\ timer \in {"fired", "running"} \/ request = "expiring" => deadline = "passed"

\* A resource that was closed has no pane of its own any more.
ClosedForGood == resource.state = "closed" => pass \in {"agent", "done"} /\ pane # "ours"

\* Neither the resource nor #pending has a token that a child of an expired attempt knows.
TokenRevoked ==
  expired => /\ pass \in {"agent", "done"}
             /\ pane = "ours" => resource.generation # TokenGeneration /\ held # TokenGeneration

\* A broker that is down has nothing in memory.
DownEmpty ==
  broker = "down" => lock = "free" /\ held = 0 /\ timer = "none" /\ request = "none"
                     /\ pass \in {"idle", "done"}

\* An attempt that is open has its files and a token, and a broker that does not have it
\* in #pending is about to look for it.
OpenKept ==
  /\ pass = "created" => files = "kept"
  /\ resource.state = "pending" =>
       /\ files = "kept" /\ resource.generation # Unset
       /\ pass \notin {"create", "created"}
       /\ broker # "down" /\ writable =>
            (held # 0 /\ timer # "none") \/ (request = "restore" /\ held = 0)

ProvisioningInv ==
  /\ ProvisioningTypeOK /\ LockKept /\ PaneFirst /\ ClosedForGood /\ TokenRevoked /\ DownEmpty
  /\ OpenKept

-----------------------------------------------------------------------------
(* Types. *)

LEMMA ReducedType ==
  ASSUME ProvisioningTypeOK, NEW state \in States, NEW generation \in Nat
  PROVE  Reduced(state, generation) \in [state: States, generation: Nat]
BY DEF Reduced, ProvisioningTypeOK

LEMMA RevokedType == ASSUME ProvisioningTypeOK PROVE Revoked \in Nat
BY DEF Revoked, Unset, TokenGeneration, ProvisioningTypeOK

\* An event leaves the resource one.
LEMMA RecordType ==
  ASSUME ProvisioningTypeOK, NEW state \in States, NEW generation \in Nat,
         Record(state, generation)
  PROVE  resource' \in [state: States, generation: Nat]
BY ReducedType DEF Record, ProvisioningTypeOK

\* Every step keeps the types.
LEMMA NextType ==
  ASSUME ProvisioningTypeOK, [ProvisioningNext]_provisioningVars
  PROVE  ProvisioningTypeOK'
<1> USE DEF ProvisioningTypeOK, outside, memory, counters
<1>1. CASE Pass
  <2>1. CASE Intend
    <3>1. resource' \in [state: States, generation: Nat]
      BY <2>1, ReducedType DEF Intend, Unset, States
    <3>. QED  BY <2>1, <3>1 DEF Intend, Unset
  <2>2. CASE CreatePane
    BY <2>2 DEF CreatePane
  <2>3. CASE FailToCreate
    <3>1. resource' \in [state: States, generation: Nat]
      BY <2>3, RecordType, RevokedType DEF FailToCreate, States
    <3>. QED  BY <2>3, <3>1 DEF FailToCreate
  <2>4. CASE RecordPending
    <3>1. CASE writable
      <4>1. resource' \in [state: States, generation: Nat]
        BY <2>4, <3>1, ReducedType DEF RecordPending, TokenGeneration, ArmTimer, States
      <4>. QED  BY <2>4, <3>1, <4>1 DEF RecordPending, TokenGeneration, ArmTimer
    <3>2. CASE ~writable
      <4>1. resource' \in [state: States, generation: Nat]
        BY <2>4, <3>2, ReducedType DEF RecordPending, TokenGeneration, ArmTimer, States
      <4>. QED  BY <2>4, <3>2, <4>1 DEF RecordPending, TokenGeneration, ArmTimer
    <3>. QED  BY <3>1, <3>2
  <2>5. CASE RecordAgent
    BY <2>5 DEF RecordAgent
  <2>. QED  BY <1>1, <2>1, <2>2, <2>3, <2>4, <2>5 DEF Pass
<1>2. CASE Timer
  <2>1. CASE DeadlinePasses
    BY <2>1 DEF DeadlinePasses
  <2>2. CASE Fire
    BY <2>2 DEF Fire
  <2>3. CASE TimerTakes
    BY <2>3 DEF TimerTakes
  <2>4. CASE TimerEnds
    <3>1. resource' \in [state: States, generation: Nat]
      BY <2>4, RecordType, RevokedType DEF TimerEnds, TimeOut, States
    <3>. QED  BY <2>4, <3>1 DEF TimerEnds, TimeOut
  <2>. QED  BY <1>2, <2>1, <2>2, <2>3, <2>4 DEF Timer
<1>3. CASE Hello \/ StartRegister \/ (\E step \in {"restore", "close"} : Ask(step))
  <2>1. CASE Hello
    BY <2>1 DEF Hello
  <2>2. CASE StartRegister
    BY <2>2 DEF StartRegister
  <2>3. CASE \E step \in {"restore", "close"} : Ask(step)
    BY <2>3 DEF Ask
  <2>. QED  BY <1>3, <2>1, <2>2, <2>3
<1>4. CASE Registration
  <2>1. CASE Register
    <3>1. resource' \in [state: States, generation: Nat]
      BY <2>1, RecordType, RevokedType DEF Register, RestorePending, ArmTimer, States
    <3>. QED  BY <2>1, <3>1 DEF Register, RestorePending, ArmTimer
  <2>2. CASE Verify
    BY <2>2 DEF Verify
  <2>3. CASE RecordRegistered
    <3>1. CASE pane = "ours" /\ writable
      <4>1. resource' = Reduced("registered", held)
        BY <2>3, <3>1 DEF RecordRegistered
      <4>2. resource' \in [state: States, generation: Nat]
        BY <4>1, ReducedType DEF States
      <4>. QED  BY <2>3, <3>1, <4>2 DEF RecordRegistered, ClearTimer
    <3>2. CASE pane = "ours" /\ ~writable
      BY <2>3, <3>2 DEF RecordRegistered
    <3>3. CASE pane # "ours"
      <4>1. Record("pending", Revoked)
        BY <2>3, <3>3 DEF RecordRegistered
      <4>2. resource' \in [state: States, generation: Nat]
        BY <4>1, RecordType, RevokedType DEF States
      <4>. QED  BY <2>3, <3>3, <4>2 DEF RecordRegistered
    <3>. QED  BY <3>1, <3>2, <3>3
  <2>4. CASE Archive
    <3>1. resource' \in [state: States, generation: Nat]
      BY <2>4, RecordType, RevokedType DEF Archive, States
    <3>. QED  BY <2>4, <3>1 DEF Archive
  <2>5. CASE Boundary
    <3>1. writable' \in BOOLEAN /\ connected' \in BOOLEAN /\ paneKnown' \in BOOLEAN
      BY <2>5 DEF Boundary
    <3>2. resource' \in [state: States, generation: Nat]
      BY <2>5 DEF Boundary
    <3>3. expired' \in BOOLEAN /\ requests' \in Nat /\ crashes' \in Nat /\ held' \in Nat
      BY <2>5 DEF Boundary
    <3>. QED  BY <2>5, <3>1, <3>2, <3>3 DEF Boundary
  <2>6. CASE Mismatch
    <3>1. resource' \in [state: States, generation: Nat]
      BY <2>6, RecordType, RevokedType DEF Mismatch, ClearTimer, States
    <3>. QED  BY <2>6, <3>1 DEF Mismatch, ClearTimer
  <2>. QED  BY <1>4, <2>1, <2>2, <2>3, <2>4, <2>5, <2>6 DEF Registration
<1>5. CASE Reconciliation
  <2>1. CASE Restore
    <3>1. resource' \in [state: States, generation: Nat]
      BY <2>1, RecordType, RevokedType DEF Restore, RestorePending, ArmTimer, States
    <3>. QED  BY <2>1, <3>1 DEF Restore, RestorePending, ArmTimer
  <2>2. CASE ExpireStarts
    BY <2>2 DEF ExpireStarts
  <2>3. CASE ExpireEnds
    <3>1. resource' \in [state: States, generation: Nat]
      BY <2>3, RecordType, RevokedType DEF ExpireEnds, TimeOut, States
    <3>. QED  BY <2>3, <3>1 DEF ExpireEnds, TimeOut
  <2>4. CASE Look
    BY <2>4 DEF Look
  <2>5. CASE Apply
    <3>1. resource' \in [state: States, generation: Nat]
      BY <2>5, RecordType, RevokedType DEF Apply, States
    <3>. QED  BY <2>5, <3>1 DEF Apply
  <2>6. CASE EndReconcile
    BY <2>6 DEF EndReconcile
  <2>. QED  BY <1>5, <2>1, <2>2, <2>3, <2>4, <2>5, <2>6 DEF Reconciliation
<1>6. CASE Closing
  <2>1. CASE StartClose
    <3>1. resource' \in [state: States, generation: Nat]
      BY <2>1, RecordType, RevokedType DEF StartClose, States
    <3>. QED  BY <2>1, <3>1 DEF StartClose
  <2>2. CASE EndClose
    <3>1. resource' \in [state: States, generation: Nat]
      BY <2>2, RecordType, RevokedType DEF EndClose, States
    <3>. QED  BY <2>2, <3>1 DEF EndClose
  <2>. QED  BY <1>6, <2>1, <2>2 DEF Closing
<1>7. CASE Failure \/ Start
  <2>1. CASE StopStore
    <3>1. writable' \in BOOLEAN /\ connected' \in BOOLEAN /\ paneKnown' \in BOOLEAN
      BY <2>1 DEF StopStore
    <3>2. resource' \in [state: States, generation: Nat]
      BY <2>1 DEF StopStore
    <3>3. expired' \in BOOLEAN /\ requests' \in Nat /\ crashes' \in Nat /\ held' \in Nat
      BY <2>1 DEF StopStore
    <3>. QED  BY <2>1, <3>1, <3>2, <3>3 DEF StopStore
  <2>2. CASE LosePane
    <3>1. resource' \in [state: States, generation: Nat]
      BY <2>2, ReducedType DEF LosePane, States
    <3>. QED  BY <2>2, <3>1 DEF LosePane
  <2>3. CASE LoseConnection
    <3>1. writable' \in BOOLEAN /\ connected' \in BOOLEAN /\ paneKnown' \in BOOLEAN
      BY <2>3 DEF LoseConnection
    <3>2. resource' \in [state: States, generation: Nat]
      BY <2>3 DEF LoseConnection
    <3>3. expired' \in BOOLEAN /\ requests' \in Nat /\ crashes' \in Nat /\ held' \in Nat
      BY <2>3 DEF LoseConnection
    <3>. QED  BY <2>3, <3>1, <3>2, <3>3 DEF LoseConnection
  <2>4. CASE Crash
    <3>1. writable' \in BOOLEAN /\ connected' \in BOOLEAN /\ paneKnown' \in BOOLEAN
      BY <2>4 DEF Crash
    <3>2. resource' \in [state: States, generation: Nat]
      BY <2>4 DEF Crash
    <3>3. expired' \in BOOLEAN /\ requests' \in Nat /\ crashes' \in Nat /\ held' \in Nat
      BY <2>4 DEF Crash
    <3>. QED  BY <2>4, <3>1, <3>2, <3>3 DEF Crash
  <2>5. CASE Start
    <3>1. writable' \in BOOLEAN /\ connected' \in BOOLEAN /\ paneKnown' \in BOOLEAN
      BY <2>5 DEF Start
    <3>2. resource' \in [state: States, generation: Nat]
      BY <2>5 DEF Start
    <3>3. expired' \in BOOLEAN /\ requests' \in Nat /\ crashes' \in Nat /\ held' \in Nat
      BY <2>5 DEF Start
    <3>. QED  BY <2>5, <3>1, <3>2, <3>3 DEF Start
  <2>. QED  BY <1>7, <2>1, <2>2, <2>3, <2>4, <2>5 DEF Failure
<1>8. CASE UNCHANGED provisioningVars
  BY <1>8 DEF provisioningVars
<1>. QED  BY <1>1, <1>2, <1>3, <1>4, <1>5, <1>6, <1>7, <1>8 DEF ProvisioningNext

\* Nobody else moves the resource while the request that has the lock records a registration.
LEMMA LockKeptInductive ==
  ASSUME ProvisioningTypeOK, LockKept, PaneFirst, DownEmpty, [ProvisioningNext]_provisioningVars
  PROVE  LockKept'
<1> USE DEF LockKept, DownEmpty, Record, Reduced, Revoked, Unset, TokenGeneration, outside, memory,
        counters
<1>1. CASE Pass
  <2>1. CASE Intend
    BY <2>1 DEF Intend
  <2>2. CASE CreatePane
    BY <2>2 DEF CreatePane
  <2>3. CASE FailToCreate
    BY <2>3 DEF FailToCreate
  <2>4. CASE RecordPending
    BY <2>4 DEF RecordPending, ArmTimer
  <2>5. CASE RecordAgent
    BY <2>5 DEF RecordAgent
  <2>. QED  BY <1>1, <2>1, <2>2, <2>3, <2>4, <2>5 DEF Pass
<1>2. CASE Timer
  BY <1>2 DEF Timer, DeadlinePasses, Fire, TimerTakes, TimerEnds, TimeOut
<1>3. CASE Hello \/ StartRegister \/ (\E step \in {"restore", "close"} : Ask(step))
  BY <1>3 DEF Hello, StartRegister, Ask
<1>4. CASE Registration
  BY <1>4 DEF Registration, Register, RestorePending, ArmTimer, Verify, RecordRegistered,
              ClearTimer,
     Archive, Boundary, Mismatch
<1>5. CASE Reconciliation
  BY <1>5 DEF Reconciliation, Restore, RestorePending, ArmTimer, ExpireStarts, ExpireEnds,
              TimeOut, Look,
     Apply, EndReconcile
<1>6. CASE Closing
  BY <1>6 DEF Closing, StartClose, EndClose
<1>7. CASE Failure \/ Start
  <2>1. CASE StopStore
    BY <2>1 DEF StopStore
  <2>2. CASE LosePane
    BY <2>2 DEF LosePane
  <2>3. CASE LoseConnection
    BY <2>3 DEF LoseConnection
  <2>4. CASE Crash
    BY <2>4 DEF Crash
  <2>5. CASE Start
    BY <2>5 DEF Start
  <2>. QED  BY <1>7, <2>1, <2>2, <2>3, <2>4, <2>5 DEF Failure
<1>8. CASE UNCHANGED provisioningVars
  BY <1>8 DEF provisioningVars
<1>. QED  BY <1>1, <1>2, <1>3, <1>4, <1>5, <1>6, <1>7, <1>8 DEF ProvisioningNext

\* Nothing is told of the pane before it was created.
LEMMA PaneFirstInductive ==
  ASSUME ProvisioningTypeOK, LockKept, PaneFirst, DownEmpty, [ProvisioningNext]_provisioningVars
  PROVE  PaneFirst'
<1> USE DEF LockKept, PaneFirst, Record, Reduced, Revoked, Unset, TokenGeneration, outside, memory,
        counters
<1>1. CASE Pass
  <2>1. CASE Intend
    BY <2>1 DEF Intend
  <2>2. CASE CreatePane
    BY <2>2 DEF CreatePane
  <2>3. CASE FailToCreate
    BY <2>3 DEF FailToCreate
  <2>4. CASE RecordPending
    BY <2>4 DEF RecordPending, ArmTimer
  <2>5. CASE RecordAgent
    BY <2>5 DEF RecordAgent
  <2>. QED  BY <1>1, <2>1, <2>2, <2>3, <2>4, <2>5 DEF Pass
<1>2. CASE Timer
  <2>1. CASE DeadlinePasses
    BY <2>1 DEF DeadlinePasses
  <2>2. CASE Fire
    BY <2>2 DEF Fire
  <2>3. CASE TimerTakes
    BY <2>3 DEF TimerTakes
  <2>4. CASE TimerEnds
    BY <2>4 DEF TimerEnds, TimeOut
  <2>. QED  BY <1>2, <2>1, <2>2, <2>3, <2>4 DEF Timer
<1>3. CASE Hello \/ StartRegister \/ (\E step \in {"restore", "close"} : Ask(step))
  <2>1. CASE Hello
    BY <2>1 DEF Hello
  <2>2. CASE StartRegister
    BY <2>2 DEF StartRegister
  <2>3. CASE \E step \in {"restore", "close"} : Ask(step)
    BY <2>3 DEF Ask
  <2>. QED  BY <1>3, <2>1, <2>2, <2>3
<1>4. CASE Registration
  <2>1. CASE Register
    BY <2>1 DEF Register, RestorePending, ArmTimer
  <2>2. CASE Verify
    BY <2>2 DEF Verify
  <2>3. CASE RecordRegistered
    BY <2>3 DEF RecordRegistered, ClearTimer
  <2>4. CASE Archive
    BY <2>4 DEF Archive
  <2>5. CASE Boundary
    BY <2>5 DEF Boundary
  <2>6. CASE Mismatch
    BY <2>6 DEF Mismatch, ClearTimer
  <2>. QED  BY <1>4, <2>1, <2>2, <2>3, <2>4, <2>5, <2>6 DEF Registration
<1>5. CASE Reconciliation
  <2>1. CASE Restore
    BY <2>1 DEF Restore, RestorePending, ArmTimer
  <2>2. CASE ExpireStarts
    BY <2>2 DEF ExpireStarts
  <2>3. CASE ExpireEnds
    BY <2>3 DEF ExpireEnds, TimeOut
  <2>4. CASE Look
    BY <2>4 DEF Look
  <2>5. CASE Apply
    BY <2>5 DEF Apply
  <2>6. CASE EndReconcile
    BY <2>6 DEF EndReconcile
  <2>. QED  BY <1>5, <2>1, <2>2, <2>3, <2>4, <2>5, <2>6 DEF Reconciliation
<1>6. CASE Closing
  <2>1. CASE StartClose
    BY <2>1 DEF StartClose
  <2>2. CASE EndClose
    BY <2>2 DEF EndClose
  <2>. QED  BY <1>6, <2>1, <2>2 DEF Closing
<1>7. CASE Failure \/ Start
  <2>1. CASE StopStore
    BY <2>1 DEF StopStore
  <2>2. CASE LosePane
    BY <2>2 DEF LosePane
  <2>3. CASE LoseConnection
    BY <2>3 DEF LoseConnection
  <2>4. CASE Crash
    BY <2>4 DEF Crash
  <2>5. CASE Start
    BY <2>5 DEF Start
  <2>. QED  BY <1>7, <2>1, <2>2, <2>3, <2>4, <2>5 DEF Failure
<1>8. CASE UNCHANGED provisioningVars
  BY <1>8 DEF provisioningVars
<1>. QED  BY <1>1, <1>2, <1>3, <1>4, <1>5, <1>6, <1>7, <1>8 DEF ProvisioningNext

\* A closed resource stays without a pane of its own.
LEMMA ClosedForGoodInductive ==
  ASSUME ProvisioningTypeOK, LockKept, PaneFirst, ClosedForGood, [ProvisioningNext]_provisioningVars
  PROVE  ClosedForGood'
<1> USE DEF LockKept, PaneFirst, ClosedForGood, Record, Reduced, Revoked, Unset, TokenGeneration,
        outside, memory, counters
<1>1. CASE Pass
  <2>1. CASE Intend
    BY <2>1 DEF Intend
  <2>2. CASE CreatePane
    BY <2>2 DEF CreatePane
  <2>3. CASE FailToCreate
    BY <2>3 DEF FailToCreate
  <2>4. CASE RecordPending
    BY <2>4 DEF RecordPending, ArmTimer
  <2>5. CASE RecordAgent
    BY <2>5 DEF RecordAgent
  <2>. QED  BY <1>1, <2>1, <2>2, <2>3, <2>4, <2>5 DEF Pass
<1>2. CASE Timer
  <2>1. CASE DeadlinePasses
    BY <2>1 DEF DeadlinePasses
  <2>2. CASE Fire
    BY <2>2 DEF Fire
  <2>3. CASE TimerTakes
    BY <2>3 DEF TimerTakes
  <2>4. CASE TimerEnds
    BY <2>4 DEF TimerEnds, TimeOut
  <2>. QED  BY <1>2, <2>1, <2>2, <2>3, <2>4 DEF Timer
<1>3. CASE Hello \/ StartRegister \/ (\E step \in {"restore", "close"} : Ask(step))
  <2>1. CASE Hello
    BY <2>1 DEF Hello
  <2>2. CASE StartRegister
    BY <2>2 DEF StartRegister
  <2>3. CASE \E step \in {"restore", "close"} : Ask(step)
    BY <2>3 DEF Ask
  <2>. QED  BY <1>3, <2>1, <2>2, <2>3
<1>4. CASE Registration
  <2>1. CASE Register
    BY <2>1 DEF Register, RestorePending, ArmTimer
  <2>2. CASE Verify
    BY <2>2 DEF Verify
  <2>3. CASE RecordRegistered
    BY <2>3 DEF RecordRegistered, ClearTimer
  <2>4. CASE Archive
    BY <2>4 DEF Archive
  <2>5. CASE Boundary
    BY <2>5 DEF Boundary
  <2>6. CASE Mismatch
    BY <2>6 DEF Mismatch, ClearTimer
  <2>. QED  BY <1>4, <2>1, <2>2, <2>3, <2>4, <2>5, <2>6 DEF Registration
<1>5. CASE Reconciliation
  <2>1. CASE Restore
    BY <2>1 DEF Restore, RestorePending, ArmTimer
  <2>2. CASE ExpireStarts
    BY <2>2 DEF ExpireStarts
  <2>3. CASE ExpireEnds
    BY <2>3 DEF ExpireEnds, TimeOut
  <2>4. CASE Look
    BY <2>4 DEF Look
  <2>5. CASE Apply
    <3>1. results # "closed" /\ results # "pending"
      BY DEF ProvisioningTypeOK
    <3>. QED  BY <2>5, <3>1 DEF Apply
  <2>6. CASE EndReconcile
    BY <2>6 DEF EndReconcile
  <2>. QED  BY <1>5, <2>1, <2>2, <2>3, <2>4, <2>5, <2>6 DEF Reconciliation
<1>6. CASE Closing
  <2>1. CASE StartClose
    BY <2>1 DEF StartClose
  <2>2. CASE EndClose
    BY <2>2 DEF EndClose
  <2>. QED  BY <1>6, <2>1, <2>2 DEF Closing
<1>7. CASE Failure \/ Start
  <2>1. CASE StopStore
    BY <2>1 DEF StopStore
  <2>2. CASE LosePane
    BY <2>2 DEF LosePane
  <2>3. CASE LoseConnection
    BY <2>3 DEF LoseConnection
  <2>4. CASE Crash
    BY <2>4 DEF Crash
  <2>5. CASE Start
    BY <2>5 DEF Start
  <2>. QED  BY <1>7, <2>1, <2>2, <2>3, <2>4, <2>5 DEF Failure
<1>8. CASE UNCHANGED provisioningVars
  BY <1>8 DEF provisioningVars
<1>. QED  BY <1>1, <1>2, <1>3, <1>4, <1>5, <1>6, <1>7, <1>8 DEF ProvisioningNext

\* A token whose attempt expired never becomes the resource's again.
LEMMA TokenRevokedInductive ==
  ASSUME ProvisioningTypeOK, LockKept, PaneFirst, ClosedForGood,
         TokenRevoked, [ProvisioningNext]_provisioningVars
  PROVE  TokenRevoked'
<1> USE DEF LockKept, PaneFirst, ClosedForGood, TokenRevoked, Record, Reduced, Revoked, Unset,
        TokenGeneration, outside, memory, counters
<1>1. CASE Pass
  <2>1. CASE Intend
    BY <2>1 DEF Intend
  <2>2. CASE CreatePane
    BY <2>2 DEF CreatePane
  <2>3. CASE FailToCreate
    BY <2>3 DEF FailToCreate
  <2>4. CASE RecordPending
    BY <2>4 DEF RecordPending, ArmTimer
  <2>5. CASE RecordAgent
    BY <2>5 DEF RecordAgent
  <2>. QED  BY <1>1, <2>1, <2>2, <2>3, <2>4, <2>5 DEF Pass
<1>2. CASE Timer
  <2>1. CASE DeadlinePasses
    BY <2>1 DEF DeadlinePasses
  <2>2. CASE Fire
    BY <2>2 DEF Fire
  <2>3. CASE TimerTakes
    BY <2>3 DEF TimerTakes
  <2>4. CASE TimerEnds
    <3>1. pass \in {"agent", "done"} /\ UNCHANGED <<pass, pane>> /\ held' = 0
      BY <2>4 DEF TimerEnds, TimeOut
    <3>2. CASE writable /\ resource.state # "closed"
      <4>1. resource'.generation = Revoked
        BY <2>4, <3>2 DEF TimerEnds, TimeOut
      <4>. QED  BY <3>1, <4>1
    <3>3. CASE ~writable \/ resource.state = "closed"
      <4>1. resource' = resource /\ (expired' => expired \/ resource.state = "closed")
        BY <2>4, <3>3 DEF TimerEnds, TimeOut
      <4>. QED  BY <3>1, <4>1
    <3>. QED  BY <3>2, <3>3
  <2>. QED  BY <1>2, <2>1, <2>2, <2>3, <2>4 DEF Timer
<1>3. CASE Hello \/ StartRegister \/ (\E step \in {"restore", "close"} : Ask(step))
  <2>1. CASE Hello
    BY <2>1 DEF Hello
  <2>2. CASE StartRegister
    BY <2>2 DEF StartRegister
  <2>3. CASE \E step \in {"restore", "close"} : Ask(step)
    BY <2>3 DEF Ask
  <2>. QED  BY <1>3, <2>1, <2>2, <2>3
<1>4. CASE Registration
  <2>1. CASE Register
    BY <2>1 DEF Register, RestorePending, ArmTimer
  <2>2. CASE Verify
    BY <2>2 DEF Verify
  <2>3. CASE RecordRegistered
    BY <2>3 DEF RecordRegistered, ClearTimer
  <2>4. CASE Archive
    BY <2>4 DEF Archive
  <2>5. CASE Boundary
    BY <2>5 DEF Boundary
  <2>6. CASE Mismatch
    BY <2>6 DEF Mismatch, ClearTimer
  <2>. QED  BY <1>4, <2>1, <2>2, <2>3, <2>4, <2>5, <2>6 DEF Registration
<1>5. CASE Reconciliation
  <2>1. CASE Restore
    BY <2>1 DEF Restore, RestorePending, ArmTimer
  <2>2. CASE ExpireStarts
    BY <2>2 DEF ExpireStarts
  <2>3. CASE ExpireEnds
    <3>1. pass \in {"agent", "done"} /\ UNCHANGED <<pass, pane>> /\ held' = 0
      BY <2>3 DEF ExpireEnds, TimeOut
    <3>2. CASE writable /\ resource.state # "closed"
      <4>1. resource'.generation = Revoked
        BY <2>3, <3>2 DEF ExpireEnds, TimeOut
      <4>. QED  BY <3>1, <4>1
    <3>3. CASE ~writable \/ resource.state = "closed"
      <4>1. resource' = resource /\ (expired' => expired \/ resource.state = "closed")
        BY <2>3, <3>3 DEF ExpireEnds, TimeOut
      <4>. QED  BY <3>1, <4>1
    <3>. QED  BY <3>2, <3>3
  <2>4. CASE Look
    BY <2>4 DEF Look
  <2>5. CASE Apply
    BY <2>5 DEF Apply
  <2>6. CASE EndReconcile
    BY <2>6 DEF EndReconcile
  <2>. QED  BY <1>5, <2>1, <2>2, <2>3, <2>4, <2>5, <2>6 DEF Reconciliation
<1>6. CASE Closing
  <2>1. CASE StartClose
    BY <2>1 DEF StartClose
  <2>2. CASE EndClose
    BY <2>2 DEF EndClose
  <2>. QED  BY <1>6, <2>1, <2>2 DEF Closing
<1>7. CASE Failure \/ Start
  <2>1. CASE StopStore
    BY <2>1 DEF StopStore
  <2>2. CASE LosePane
    BY <2>2 DEF LosePane
  <2>3. CASE LoseConnection
    BY <2>3 DEF LoseConnection
  <2>4. CASE Crash
    BY <2>4 DEF Crash
  <2>5. CASE Start
    BY <2>5 DEF Start
  <2>. QED  BY <1>7, <2>1, <2>2, <2>3, <2>4, <2>5 DEF Failure
<1>8. CASE UNCHANGED provisioningVars
  BY <1>8 DEF provisioningVars
<1>. QED  BY <1>1, <1>2, <1>3, <1>4, <1>5, <1>6, <1>7, <1>8 DEF ProvisioningNext

\* A crash leaves nothing in memory.
LEMMA DownEmptyInductive ==
  ASSUME ProvisioningTypeOK, LockKept, DownEmpty, [ProvisioningNext]_provisioningVars
  PROVE  DownEmpty'
<1> USE DEF LockKept, DownEmpty, Record, Reduced, Revoked, Unset, TokenGeneration, outside, memory,
        counters
<1>1. CASE Pass
  <2>1. CASE Intend
    BY <2>1 DEF Intend
  <2>2. CASE CreatePane
    BY <2>2 DEF CreatePane
  <2>3. CASE FailToCreate
    BY <2>3 DEF FailToCreate
  <2>4. CASE RecordPending
    BY <2>4 DEF RecordPending, ArmTimer
  <2>5. CASE RecordAgent
    BY <2>5 DEF RecordAgent
  <2>. QED  BY <1>1, <2>1, <2>2, <2>3, <2>4, <2>5 DEF Pass
<1>2. CASE Timer
  <2>1. CASE DeadlinePasses
    BY <2>1 DEF DeadlinePasses
  <2>2. CASE Fire
    BY <2>2 DEF Fire
  <2>3. CASE TimerTakes
    BY <2>3 DEF TimerTakes
  <2>4. CASE TimerEnds
    BY <2>4 DEF TimerEnds, TimeOut
  <2>. QED  BY <1>2, <2>1, <2>2, <2>3, <2>4 DEF Timer
<1>3. CASE Hello \/ StartRegister \/ (\E step \in {"restore", "close"} : Ask(step))
  <2>1. CASE Hello
    BY <2>1 DEF Hello
  <2>2. CASE StartRegister
    BY <2>2 DEF StartRegister
  <2>3. CASE \E step \in {"restore", "close"} : Ask(step)
    BY <2>3 DEF Ask
  <2>. QED  BY <1>3, <2>1, <2>2, <2>3
<1>4. CASE Registration
  <2>1. CASE Register
    BY <2>1 DEF Register, RestorePending, ArmTimer
  <2>2. CASE Verify
    BY <2>2 DEF Verify
  <2>3. CASE RecordRegistered
    BY <2>3 DEF RecordRegistered, ClearTimer
  <2>4. CASE Archive
    BY <2>4 DEF Archive
  <2>5. CASE Boundary
    BY <2>5 DEF Boundary
  <2>6. CASE Mismatch
    BY <2>6 DEF Mismatch, ClearTimer
  <2>. QED  BY <1>4, <2>1, <2>2, <2>3, <2>4, <2>5, <2>6 DEF Registration
<1>5. CASE Reconciliation
  <2>1. CASE Restore
    BY <2>1 DEF Restore, RestorePending, ArmTimer
  <2>2. CASE ExpireStarts
    BY <2>2 DEF ExpireStarts
  <2>3. CASE ExpireEnds
    BY <2>3 DEF ExpireEnds, TimeOut
  <2>4. CASE Look
    BY <2>4 DEF Look
  <2>5. CASE Apply
    BY <2>5 DEF Apply
  <2>6. CASE EndReconcile
    BY <2>6 DEF EndReconcile
  <2>. QED  BY <1>5, <2>1, <2>2, <2>3, <2>4, <2>5, <2>6 DEF Reconciliation
<1>6. CASE Closing
  <2>1. CASE StartClose
    BY <2>1 DEF StartClose
  <2>2. CASE EndClose
    BY <2>2 DEF EndClose
  <2>. QED  BY <1>6, <2>1, <2>2 DEF Closing
<1>7. CASE Failure \/ Start
  <2>1. CASE StopStore
    BY <2>1 DEF StopStore
  <2>2. CASE LosePane
    BY <2>2 DEF LosePane
  <2>3. CASE LoseConnection
    BY <2>3 DEF LoseConnection
  <2>4. CASE Crash
    BY <2>4 DEF Crash
  <2>5. CASE Start
    BY <2>5 DEF Start
  <2>. QED  BY <1>7, <2>1, <2>2, <2>3, <2>4, <2>5 DEF Failure
<1>8. CASE UNCHANGED provisioningVars
  BY <1>8 DEF provisioningVars
<1>. QED  BY <1>1, <1>2, <1>3, <1>4, <1>5, <1>6, <1>7, <1>8 DEF ProvisioningNext

\* An open attempt keeps its files, and its place in #pending or the search for them.
LEMMA OpenKeptInductive ==
  ASSUME ProvisioningTypeOK, LockKept, PaneFirst, DownEmpty, OpenKept,
         [ProvisioningNext]_provisioningVars
  PROVE  OpenKept'
<1> USE DEF LockKept, PaneFirst, DownEmpty, OpenKept, Record, Reduced, Revoked, Unset,
        TokenGeneration, outside, memory, counters
<1>1. CASE Pass
  <2>1. CASE Intend
    BY <2>1 DEF Intend
  <2>2. CASE CreatePane
    BY <2>2 DEF CreatePane
  <2>3. CASE FailToCreate
    BY <2>3 DEF FailToCreate
  <2>4. CASE RecordPending
    BY <2>4 DEF RecordPending, ArmTimer
  <2>5. CASE RecordAgent
    BY <2>5 DEF RecordAgent
  <2>. QED  BY <1>1, <2>1, <2>2, <2>3, <2>4, <2>5 DEF Pass
<1>2. CASE Timer
  <2>1. CASE DeadlinePasses
    BY <2>1 DEF DeadlinePasses
  <2>2. CASE Fire
    BY <2>2 DEF Fire
  <2>3. CASE TimerTakes
    BY <2>3 DEF TimerTakes
  <2>4. CASE TimerEnds
    BY <2>4 DEF TimerEnds, TimeOut
  <2>. QED  BY <1>2, <2>1, <2>2, <2>3, <2>4 DEF Timer
<1>3. CASE Hello \/ StartRegister \/ (\E step \in {"restore", "close"} : Ask(step))
  <2>1. CASE Hello
    BY <2>1 DEF Hello
  <2>2. CASE StartRegister
    BY <2>2 DEF StartRegister
  <2>3. CASE \E step \in {"restore", "close"} : Ask(step)
    BY <2>3 DEF Ask
  <2>. QED  BY <1>3, <2>1, <2>2, <2>3
<1>4. CASE Registration
  <2>1. CASE Register
    BY <2>1 DEF Register, RestorePending, ArmTimer
  <2>2. CASE Verify
    BY <2>2 DEF Verify
  <2>3. CASE RecordRegistered
    BY <2>3 DEF RecordRegistered, ClearTimer
  <2>4. CASE Archive
    BY <2>4 DEF Archive
  <2>5. CASE Boundary
    BY <2>5 DEF Boundary
  <2>6. CASE Mismatch
    BY <2>6 DEF Mismatch, ClearTimer
  <2>. QED  BY <1>4, <2>1, <2>2, <2>3, <2>4, <2>5, <2>6 DEF Registration
<1>5. CASE Reconciliation
  <2>1. CASE Restore
    BY <2>1 DEF Restore, RestorePending, ArmTimer
  <2>2. CASE ExpireStarts
    BY <2>2 DEF ExpireStarts
  <2>3. CASE ExpireEnds
    BY <2>3 DEF ExpireEnds, TimeOut
  <2>4. CASE Look
    BY <2>4 DEF Look
  <2>5. CASE Apply
    <3>1. results # "closed" /\ results # "pending"
      BY DEF ProvisioningTypeOK
    <3>. QED  BY <2>5, <3>1 DEF Apply
  <2>6. CASE EndReconcile
    BY <2>6 DEF EndReconcile
  <2>. QED  BY <1>5, <2>1, <2>2, <2>3, <2>4, <2>5, <2>6 DEF Reconciliation
<1>6. CASE Closing
  <2>1. CASE StartClose
    BY <2>1 DEF StartClose
  <2>2. CASE EndClose
    BY <2>2 DEF EndClose
  <2>. QED  BY <1>6, <2>1, <2>2 DEF Closing
<1>7. CASE Failure \/ Start
  <2>1. CASE StopStore
    BY <2>1 DEF StopStore
  <2>2. CASE LosePane
    BY <2>2 DEF LosePane
  <2>3. CASE LoseConnection
    BY <2>3 DEF LoseConnection
  <2>4. CASE Crash
    BY <2>4 DEF Crash
  <2>5. CASE Start
    BY <2>5 DEF Start
  <2>. QED  BY <1>7, <2>1, <2>2, <2>3, <2>4, <2>5 DEF Failure
<1>8. CASE UNCHANGED provisioningVars
  BY <1>8 DEF provisioningVars
<1>. QED  BY <1>1, <1>2, <1>3, <1>4, <1>5, <1>6, <1>7, <1>8 DEF ProvisioningNext

LEMMA InitInv == ProvisioningInit => ProvisioningInv
<1> SUFFICES ASSUME ProvisioningInit PROVE ProvisioningInv
  OBVIOUS
<1> USE DEF ProvisioningInit, Unset
<1>1. resource \in [state: States, generation: Nat]
  BY DEF States
<1>2. ProvisioningTypeOK
  BY <1>1 DEF ProvisioningTypeOK
<1>3. LockKept /\ PaneFirst /\ DownEmpty
  BY DEF LockKept, PaneFirst, DownEmpty
<1>4. ClosedForGood /\ TokenRevoked /\ OpenKept
  BY DEF ClosedForGood, TokenRevoked, OpenKept
<1>. QED  BY <1>2, <1>3, <1>4 DEF ProvisioningInv

-----------------------------------------------------------------------------
(* Theorems. *)

\* The inductive invariant holds in every reachable state: the order of the pass, the
\* timer and the request, and what each may still record.
THEOREM ProvisioningInvariance == ProvisioningSpec => []ProvisioningInv
<1>1. ProvisioningInv /\ [ProvisioningNext]_provisioningVars => ProvisioningInv'
  BY NextType, LockKeptInductive, PaneFirstInductive, ClosedForGoodInductive,
     TokenRevokedInductive, DownEmptyInductive, OpenKeptInductive DEF ProvisioningInv
<1>. QED  BY <1>1, InitInv, PTL DEF ProvisioningSpec

\* Every variable has values of its type, for any number of requests and crashes.
THEOREM ProvisioningTypeCorrect == ProvisioningSpec => []ProvisioningTypeOK
<1>1. ProvisioningInv => ProvisioningTypeOK
  BY DEF ProvisioningInv
<1>. QED  BY <1>1, ProvisioningInvariance, PTL

\* An attempt that may still be registered is one that the timer or the next broker finds
\* again (register, restorePending, scheduleExpiry), for any number of requests and crashes.
THEOREM PendingKept == ProvisioningSpec => []PendingIsKept
<1>1. ProvisioningInv => PendingIsKept
  BY DEF ProvisioningInv, OpenKept, PendingIsKept
<1>. QED  BY <1>1, ProvisioningInvariance, PTL

\* A step that registers the resource finds its attempt open: what register checked
\* before it waited for Herdr still holds when it records.
LEMMA RegistersPending ==
  ASSUME ProvisioningInv, [ProvisioningNext]_provisioningVars,
         resource'.state = "registered", resource.state # "registered"
  PROVE  resource.state = "pending"
<1> USE DEF ProvisioningInv, LockKept, Record, Reduced, Revoked, Unset, TokenGeneration,
        outside, memory, counters
<1>1. CASE Pass
  <2>1. CASE Intend
    BY <2>1 DEF Intend
  <2>2. CASE CreatePane
    BY <2>2 DEF CreatePane
  <2>3. CASE FailToCreate
    BY <2>3 DEF FailToCreate
  <2>4. CASE RecordPending
    BY <2>4 DEF RecordPending, ArmTimer
  <2>5. CASE RecordAgent
    BY <2>5 DEF RecordAgent
  <2>. QED  BY <1>1, <2>1, <2>2, <2>3, <2>4, <2>5 DEF Pass
<1>2. CASE Timer
  <2>1. CASE DeadlinePasses
    BY <2>1 DEF DeadlinePasses
  <2>2. CASE Fire
    BY <2>2 DEF Fire
  <2>3. CASE TimerTakes
    BY <2>3 DEF TimerTakes
  <2>4. CASE TimerEnds
    BY <2>4 DEF TimerEnds, TimeOut
  <2>. QED  BY <1>2, <2>1, <2>2, <2>3, <2>4 DEF Timer
<1>3. CASE Hello \/ StartRegister \/ (\E step \in {"restore", "close"} : Ask(step))
  <2>1. CASE Hello
    BY <2>1 DEF Hello
  <2>2. CASE StartRegister
    BY <2>2 DEF StartRegister
  <2>3. CASE \E step \in {"restore", "close"} : Ask(step)
    BY <2>3 DEF Ask
  <2>. QED  BY <1>3, <2>1, <2>2, <2>3
<1>4. CASE Registration
  <2>1. CASE Register
    BY <2>1 DEF Register, RestorePending, ArmTimer
  <2>2. CASE Verify
    BY <2>2 DEF Verify
  <2>3. CASE RecordRegistered
    BY <2>3 DEF RecordRegistered, ClearTimer
  <2>4. CASE Archive
    BY <2>4 DEF Archive
  <2>5. CASE Boundary
    BY <2>5 DEF Boundary
  <2>6. CASE Mismatch
    BY <2>6 DEF Mismatch, ClearTimer
  <2>. QED  BY <1>4, <2>1, <2>2, <2>3, <2>4, <2>5, <2>6 DEF Registration
<1>5. CASE Reconciliation
  <2>1. CASE Restore
    BY <2>1 DEF Restore, RestorePending, ArmTimer
  <2>2. CASE ExpireStarts
    BY <2>2 DEF ExpireStarts
  <2>3. CASE ExpireEnds
    BY <2>3 DEF ExpireEnds, TimeOut
  <2>4. CASE Look
    BY <2>4 DEF Look
  <2>5. CASE Apply
    <3>1. results # "registered"
      BY DEF ProvisioningTypeOK
    <3>. QED  BY <2>5, <3>1 DEF Apply
  <2>6. CASE EndReconcile
    BY <2>6 DEF EndReconcile
  <2>. QED  BY <1>5, <2>1, <2>2, <2>3, <2>4, <2>5, <2>6 DEF Reconciliation
<1>6. CASE Closing
  <2>1. CASE StartClose
    BY <2>1 DEF StartClose
  <2>2. CASE EndClose
    BY <2>2 DEF EndClose
  <2>. QED  BY <1>6, <2>1, <2>2 DEF Closing
<1>7. CASE Failure \/ Start
  <2>1. CASE StopStore
    BY <2>1 DEF StopStore
  <2>2. CASE LosePane
    BY <2>2 DEF LosePane
  <2>3. CASE LoseConnection
    BY <2>3 DEF LoseConnection
  <2>4. CASE Crash
    BY <2>4 DEF Crash
  <2>5. CASE Start
    BY <2>5 DEF Start
  <2>. QED  BY <1>7, <2>1, <2>2, <2>3, <2>4, <2>5 DEF Failure
<1>8. CASE UNCHANGED provisioningVars
  BY <1>8 DEF provisioningVars
<1>. QED  BY <1>1, <1>2, <1>3, <1>4, <1>5, <1>6, <1>7, <1>8 DEF ProvisioningNext

\* No resource is registered whose attempt the timer or a reconciliation has ended.
THEOREM RegistrationSafety == ProvisioningSpec => RegisteredWhilePending
<1>1. ProvisioningInv /\ [ProvisioningNext]_provisioningVars
        => [resource'.state = "registered" /\ resource.state # "registered"
              => resource.state = "pending"]_provisioningVars
  BY RegistersPending
<1>. QED  BY <1>1, ProvisioningInvariance, PTL DEF ProvisioningSpec, RegisteredWhilePending

\* A step that connects finds a token that is still the resource's.
LEMMA ConnectsUnexpired ==
  ASSUME ProvisioningInv, [ProvisioningNext]_provisioningVars, expired, ~connected
  PROVE  ~connected'
<1> USE DEF ProvisioningInv, TokenRevoked, outside, memory, counters
<1>1. CASE Pass
  <2>1. CASE Intend
    BY <2>1 DEF Intend
  <2>2. CASE CreatePane
    BY <2>2 DEF CreatePane
  <2>3. CASE FailToCreate
    BY <2>3 DEF FailToCreate
  <2>4. CASE RecordPending
    BY <2>4 DEF RecordPending, ArmTimer
  <2>5. CASE RecordAgent
    BY <2>5 DEF RecordAgent
  <2>. QED  BY <1>1, <2>1, <2>2, <2>3, <2>4, <2>5 DEF Pass
<1>2. CASE Timer
  <2>1. CASE DeadlinePasses
    BY <2>1 DEF DeadlinePasses
  <2>2. CASE Fire
    BY <2>2 DEF Fire
  <2>3. CASE TimerTakes
    BY <2>3 DEF TimerTakes
  <2>4. CASE TimerEnds
    BY <2>4 DEF TimerEnds, TimeOut
  <2>. QED  BY <1>2, <2>1, <2>2, <2>3, <2>4 DEF Timer
<1>3. CASE Hello \/ StartRegister \/ (\E step \in {"restore", "close"} : Ask(step))
  <2>1. CASE Hello
    BY <2>1 DEF Hello
  <2>2. CASE StartRegister
    BY <2>2 DEF StartRegister
  <2>3. CASE \E step \in {"restore", "close"} : Ask(step)
    BY <2>3 DEF Ask
  <2>. QED  BY <1>3, <2>1, <2>2, <2>3
<1>4. CASE Registration
  <2>1. CASE Register
    BY <2>1 DEF Register, RestorePending, ArmTimer
  <2>2. CASE Verify
    BY <2>2 DEF Verify
  <2>3. CASE RecordRegistered
    BY <2>3 DEF RecordRegistered, ClearTimer
  <2>4. CASE Archive
    BY <2>4 DEF Archive
  <2>5. CASE Boundary
    BY <2>5 DEF Boundary
  <2>6. CASE Mismatch
    BY <2>6 DEF Mismatch, ClearTimer
  <2>. QED  BY <1>4, <2>1, <2>2, <2>3, <2>4, <2>5, <2>6 DEF Registration
<1>5. CASE Reconciliation
  <2>1. CASE Restore
    BY <2>1 DEF Restore, RestorePending, ArmTimer
  <2>2. CASE ExpireStarts
    BY <2>2 DEF ExpireStarts
  <2>3. CASE ExpireEnds
    BY <2>3 DEF ExpireEnds, TimeOut
  <2>4. CASE Look
    BY <2>4 DEF Look
  <2>5. CASE Apply
    BY <2>5 DEF Apply
  <2>6. CASE EndReconcile
    BY <2>6 DEF EndReconcile
  <2>. QED  BY <1>5, <2>1, <2>2, <2>3, <2>4, <2>5, <2>6 DEF Reconciliation
<1>6. CASE Closing
  <2>1. CASE StartClose
    BY <2>1 DEF StartClose
  <2>2. CASE EndClose
    BY <2>2 DEF EndClose
  <2>. QED  BY <1>6, <2>1, <2>2 DEF Closing
<1>7. CASE Failure \/ Start
  <2>1. CASE StopStore
    BY <2>1 DEF StopStore
  <2>2. CASE LosePane
    BY <2>2 DEF LosePane
  <2>3. CASE LoseConnection
    BY <2>3 DEF LoseConnection
  <2>4. CASE Crash
    BY <2>4 DEF Crash
  <2>5. CASE Start
    BY <2>5 DEF Start
  <2>. QED  BY <1>7, <2>1, <2>2, <2>3, <2>4, <2>5 DEF Failure
<1>8. CASE UNCHANGED provisioningVars
  BY <1>8 DEF provisioningVars
<1>. QED  BY <1>1, <1>2, <1>3, <1>4, <1>5, <1>6, <1>7, <1>8 DEF ProvisioningNext

\* The token of an attempt that timed out opens no further connection, whatever was
\* recorded of the resource since.
THEOREM ExpirySafety == ProvisioningSpec => ExpiredTokenIsDead
<1>1. ProvisioningInv /\ [ProvisioningNext]_provisioningVars
        => [expired /\ ~connected => ~connected']_provisioningVars
  BY ConnectsUnexpired
<1>. QED  BY <1>1, ProvisioningInvariance, PTL DEF ProvisioningSpec, ExpiredTokenIsDead

=============================================================================
