---------------------------- MODULE Provisioning ----------------------------
(***************************************************************************)
(* How a managed agent gets its Herdr pane and registers with the broker   *)
(* (HerdrService, src/herdr/service.ts), for one agent.  The workflow pass *)
(* creates the pane, and the Pi child in it has until a deadline to        *)
(* register.  A timer ends an attempt whose child did not.  Three things   *)
(* run at once: the pass, the timer, and one request of the broker's       *)
(* mutation queue; a lock per agent keeps most of their steps apart, but   *)
(* herdr.reconcile does not take it.  The broker may crash at any step;    *)
(* Herdr's pane and the files with the child's token remain.               *)
(*                                                                         *)
(* The lock is first come, first served in the code, and any waiter may    *)
(* have it here.  Operators named Faulty... are plausible bugs, as in the  *)
(* other modules.                                                          *)
(***************************************************************************)
EXTENDS Integers

CONSTANTS
  MaxRequests,  \* bound: requests to reconcile or to close the agent
  MaxCrashes    \* bound: crashes of the broker

ASSUME ProvisioningAssumption == MaxRequests \in Nat /\ MaxCrashes \in Nat

VARIABLES
  \* what the store keeps
  resource,  \* state and generation of the agent's Herdr resource
  writable,  \* the store accepts events
  \* outside of the broker
  pane,      \* what Herdr has in the pane: "absent", "ours" or "other"
  files,     \* the registration files: "none", "kept" or "archived"
  deadline,  \* registrationDeadline: "unset", "ahead" or "passed"
  connected, \* the child has a connection that its token opened
  \* the broker's memory
  broker,    \* "down", "starting" or "serving"
  pass,      \* the workflow pass: "idle", "create", "created", "agent" or "done"
  paneKnown, \* the agent's record has its pane
  lock,      \* holder of the agent's lock: "free", "pass", "request" or "timer"
  held,      \* generation of the token in #pending; 0: not there
  timer,     \* "none", "armed", "fired" or "running"
  request,   \* the request the mutation queue is at, by its next step
  results,   \* what a reconciliation saw
  \* history variables
  expired,   \* a registration timed out
  requests, crashes

outside == <<pane, files, deadline>>
memory == <<broker, pass, lock, held, timer, request, results>>
counters == <<requests, crashes>>
provisioningVars ==
  <<resource, writable, outside, connected, memory, paneKnown, expired, counters>>

-----------------------------------------------------------------------------
(* herdr.provision.outcome and herdr.reconciled, as the reducer takes them *)

Unset == 0
TokenGeneration == 1

\* The resource after an event with a state and a generation.
Reduced(state, generation) ==
  IF resource.state = "closed" THEN resource
  ELSE [state |-> state, generation |-> generation]

\* The generation counts on from here; nothing tells the ones after the token's apart.
Revoked == IF resource.generation = Unset THEN Unset ELSE TokenGeneration + 1

\* recordLifecycle, which a store that is read-only refuses.
Record(state, generation) ==
  resource' = IF writable THEN Reduced(state, generation) ELSE resource

TimeOut ==
  /\ Record("timed_out", Revoked)
  /\ expired' = (expired \/ writable)

\* clearTimeout: a callback that waits for the lock will still run.
ClearTimer == timer' = IF timer = "armed" THEN "none" ELSE timer

\* scheduleExpiry
ArmTimer == timer' = IF timer \in {"none", "armed"} THEN "armed" ELSE timer

\* restorePending finds the files that the resource names, or gives the attempt up.
RestorePending ==
  IF files = "kept"
  THEN held' = resource.generation /\ ArmTimer /\ UNCHANGED resource
  ELSE Record("orphaned", Revoked) /\ UNCHANGED <<held, timer>>

-----------------------------------------------------------------------------
(* HerdrService.provision, which the workflow pass calls outside the queue *)

Intend ==
  /\ broker = "serving" /\ pass = "idle" /\ lock = "free" /\ writable
  /\ resource.state = "none"
  /\ resource' = [state |-> "provisioning", generation |-> Unset]
  /\ pass' = "create" /\ lock' = "pass"
  /\ UNCHANGED <<writable, outside, connected, broker, held, timer, request, results, paneKnown,
                 expired, counters>>

\* The provisioner writes the files, opens a tab and starts Pi in it.
CreatePane ==
  /\ pass = "create" /\ pass' = "created"
  /\ pane' = "ours" /\ files' = "kept"
  /\ UNCHANGED <<resource, writable, deadline, connected, broker, lock, held, timer, request,
                 results, paneKnown, expired, counters>>

\* A step of it fails: it tries to close what it opened, where that is still its own, keeps
\* the files, and the outcome is recorded if the store accepts it.
FailToCreate ==
  /\ pass = "create" /\ pass' = "done" /\ lock' = "free"
  /\ files' = "kept" /\ pane' \in {"absent", "ours", "other"}
  /\ Record("failed", resource.generation)
  /\ UNCHANGED <<writable, deadline, connected, broker, held, timer, request, results, paneKnown,
                 expired, counters>>

\* The outcome: the child may register from now on, until the deadline.
RecordPending ==
  /\ pass = "created" /\ lock' = "free"
  /\ IF writable
     THEN /\ resource' = Reduced("pending", TokenGeneration)
          /\ deadline' = "ahead" /\ held' = TokenGeneration
          /\ ArmTimer /\ pass' = "agent"
     ELSE pass' = "done" /\ UNCHANGED <<resource, deadline, held, timer>>
  /\ UNCHANGED <<writable, pane, files, connected, broker, request, results, paneKnown,
                 expired, counters>>

\* The agent's record gets its pane: agent.state_changed, after provision returned.
RecordAgent ==
  /\ pass = "agent" /\ pass' = "done"
  /\ paneKnown' = (paneKnown \/ writable)
  /\ UNCHANGED <<resource, writable, outside, connected, broker, lock, held, timer, request,
                 results, expired, counters>>

-----------------------------------------------------------------------------
(* The timer of scheduleExpiry *)

DeadlinePasses ==
  /\ deadline = "ahead" /\ deadline' = "passed"
  /\ UNCHANGED <<resource, writable, pane, files, connected, memory, paneKnown, expired, counters>>

Fire ==
  /\ timer = "armed" /\ deadline = "passed" /\ timer' = "fired"
  /\ UNCHANGED <<resource, writable, outside, connected, broker, pass, lock, held, request,
                 results, paneKnown, expired, counters>>

FaultyTimerTakes ==
  /\ timer = "fired"
  /\ timer' = IF resource.state = "pending" THEN "running" ELSE "none"
  /\ UNCHANGED <<resource, writable, outside, connected, broker, pass, lock, held, request,
                 results, paneKnown, expired, counters>>

TimerTakes ==
  /\ timer = "fired" /\ lock = "free"
  /\ IF resource.state = "pending" THEN timer' = "running" /\ lock' = "timer"
                                   ELSE timer' = "none" /\ UNCHANGED lock
  /\ UNCHANGED <<resource, writable, outside, connected, broker, pass, held, request, results,
                 paneKnown, expired, counters>>

\* The files stay where they are; a refused record is forgotten.
TimerEnds ==
  /\ timer = "running" /\ timer' = "none"
  /\ lock' = IF lock = "timer" THEN "free" ELSE lock
  /\ held' = 0 /\ TimeOut
  /\ UNCHANGED <<writable, outside, connected, broker, pass, request, results, paneKnown, counters>>

-----------------------------------------------------------------------------
(* The child: hello, and agent.register_managed in the mutation queue *)

\* The token is the resource's, and the generation the child presents is the current one.
Hello ==
  /\ broker = "serving" /\ ~connected /\ pane = "ours"
  /\ deadline # "unset" /\ resource.generation = TokenGeneration
  /\ connected' = TRUE
  /\ UNCHANGED <<resource, writable, outside, memory, paneKnown, expired, counters>>

\* A resource that is not pending is not registered again; a model that is not the one
\* that was asked for replaces the agent.
StartRegister ==
  /\ broker = "serving" /\ request = "none" /\ connected
  /\ request' \in {IF resource.state = "pending" THEN "register" ELSE "boundary", "mismatch"}
  /\ UNCHANGED <<resource, writable, outside, connected, broker, pass, lock, held, timer, results,
                 paneKnown, expired, counters>>

\* register up to its first snapshot, under the agent's lock.
Register ==
  /\ request = "register" /\ lock = "free"
  /\ \/ held = 0 /\ resource.state = "pending" /\ RestorePending
     \/ (held # 0 \/ resource.state # "pending") /\ UNCHANGED <<resource, held, timer>>
  /\ IF held' # 0 /\ resource.state = "pending" /\ deadline = "ahead" /\ pane = "ours"
     THEN request' = "verify" /\ lock' = "request"
     ELSE request' = "none" /\ UNCHANGED lock
  /\ UNCHANGED <<writable, outside, connected, broker, pass, results, paneKnown, expired, counters>>

FaultyVerify ==
  /\ request = "verify"
  /\ IF files = "kept" /\ held = TokenGeneration
     THEN request' = "record" /\ files' = "archived" /\ UNCHANGED lock
     ELSE request' = "none" /\ lock' = "free" /\ UNCHANGED files
  /\ UNCHANGED <<resource, writable, pane, deadline, connected, broker, pass, held, timer, results,
                 paneKnown, expired, counters>>

\* verifyRegistration: the token file and the generation that the child presents.
Verify ==
  /\ request = "verify"
  /\ IF files = "kept" /\ held = TokenGeneration
     THEN request' = "record" /\ UNCHANGED lock
     ELSE request' = "none" /\ lock' = "free"
  /\ UNCHANGED <<resource, writable, outside, connected, broker, pass, held, timer, results,
                 paneKnown, expired, counters>>

FaultyRecordRegistered ==
  /\ request = "record" /\ ClearTimer
  /\ IF pane = "ours" /\ writable
     THEN /\ resource' = Reduced("registered", held)
          /\ held' = 0 /\ request' = "archive" /\ UNCHANGED lock
     ELSE /\ IF pane = "ours" THEN UNCHANGED resource ELSE Record("pending", Revoked)
          /\ request' = "none" /\ lock' = "free" /\ UNCHANGED held
  /\ UNCHANGED <<writable, outside, connected, broker, pass, results, paneKnown, expired,
                 counters>>

\* The second snapshot: another occupant revokes the token and leaves the attempt open.
RecordRegistered ==
  /\ request = "record"
  /\ IF pane = "ours" /\ writable
     THEN /\ resource' = Reduced("registered", held)
          /\ held' = 0 /\ ClearTimer /\ request' = "archive" /\ UNCHANGED lock
     ELSE /\ IF pane = "ours" THEN UNCHANGED resource ELSE Record("pending", Revoked)
          /\ request' = "none" /\ lock' = "free" /\ UNCHANGED <<held, timer>>
  /\ UNCHANGED <<writable, outside, connected, broker, pass, results, paneKnown, expired, counters>>

\* The files are archived, unless that fails, and the outcome of it is recorded.
Archive ==
  /\ request = "archive" /\ request' = "boundary" /\ lock' = "free"
  /\ files' \in {files, "archived"}
  /\ Record("registered", resource.generation)
  /\ UNCHANGED <<writable, pane, deadline, connected, broker, pass, held, timer, results,
                 paneKnown, expired, counters>>

\* The response boundary: the pane is looked at again, the agent is idle on this
\* connection, and the pane is looked at once more.
Boundary ==
  /\ request = "boundary"
  /\ IF pane = "ours" /\ writable
     THEN paneKnown' = TRUE /\ request' = "none"
     ELSE request' \in {"none", "mismatch"} /\ UNCHANGED paneKnown
  /\ UNCHANGED <<resource, writable, outside, connected, broker, pass, lock, held, timer, results,
                 expired, counters>>

\* recordRegistrationMismatch closes the pane of an attempt that is still open.
Mismatch ==
  /\ request = "mismatch" /\ lock = "free" /\ request' = "none"
  /\ pane' \in IF held # 0 /\ pane = "ours" THEN {"absent", pane} ELSE {pane}
  /\ Record("replaced", Revoked)
  /\ IF writable THEN held' = 0 /\ ClearTimer ELSE UNCHANGED <<held, timer>>
  /\ UNCHANGED <<writable, files, deadline, connected, broker, pass, lock, results, paneKnown,
                 expired, counters>>

-----------------------------------------------------------------------------
(* reconcile, at startup or as a request, without the agent's lock *)

Ask(step) ==
  /\ broker = "serving" /\ request = "none" /\ requests < MaxRequests
  /\ requests' = requests + 1 /\ request' = step
  /\ UNCHANGED <<resource, writable, outside, connected, broker, pass, lock, held, timer, results,
                 paneKnown, expired, crashes>>

Restore ==
  /\ request = "restore" /\ request' = "expire"
  /\ IF resource.state = "pending" /\ held = 0 THEN RestorePending
                                               ELSE UNCHANGED <<resource, held, timer>>
  /\ UNCHANGED <<writable, outside, connected, broker, pass, lock, results, paneKnown, expired,
                 counters>>

\* Every attempt in #pending that is past its deadline, whatever its state.
ExpireStarts ==
  /\ request = "expire"
  /\ request' = IF held # 0 /\ deadline = "passed" THEN "expiring" ELSE "look"
  /\ UNCHANGED <<resource, writable, outside, connected, broker, pass, lock, held, timer, results,
                 paneKnown, expired, counters>>

FaultyExpireEnds ==
  /\ request = "expiring" /\ request' = IF writable THEN "look" ELSE "end"
  /\ held' = 0 /\ Record("timed_out", resource.generation) /\ expired' = (expired \/ writable)
  /\ UNCHANGED <<writable, outside, connected, broker, pass, lock, timer, results, paneKnown,
                 counters>>

\* A refused record ends the reconciliation.
ExpireEnds ==
  /\ request = "expiring" /\ request' = IF writable THEN "look" ELSE "end"
  /\ held' = 0 /\ TimeOut
  /\ UNCHANGED <<writable, outside, connected, broker, pass, lock, timer, results, paneKnown,
                 counters>>

\* reconcileAgents.  An agent whose record has no pane is missing, and one whose
\* resource names a workspace and no worktree is replaced.
Look ==
  /\ request = "look" /\ request' = "apply"
  /\ results' \in CASE resource.state = "closed" -> {"none"}
                    [] ~paneKnown \/ pane = "absent" -> {"missing"}
                    [] pane = "ours" -> {"present", "replaced"}
                    [] OTHER -> {"replaced", "orphaned"}
  /\ UNCHANGED <<resource, writable, outside, connected, broker, pass, lock, held, timer,
                 paneKnown, expired, counters>>

\* herdr.reconciled: the reducer refuses it for an agent without an intent.
Apply ==
  /\ request = "apply" /\ request' = "end" /\ results' = "none"
  /\ IF results = "none" \/ resource.state = "none" THEN UNCHANGED resource
     ELSE Record(results, resource.generation)
  /\ UNCHANGED <<writable, outside, connected, broker, pass, lock, held, timer, paneKnown, expired,
                 counters>>

\* The reconciliation at startup is over before the broker listens.
EndReconcile ==
  /\ request = "end" /\ request' = "none" /\ broker' = "serving"
  /\ UNCHANGED <<resource, writable, outside, connected, pass, lock, held, timer, results,
                 paneKnown, expired, counters>>

-----------------------------------------------------------------------------
(* close *)

\* A pane that is missing and still absent is closed at once.
StartClose ==
  /\ request = "close" /\ lock = "free"
  /\ IF ~paneKnown \/ ~writable \/ resource.state = "closed"
       THEN request' = "none" /\ UNCHANGED <<resource, lock>>
     ELSE IF resource.state = "missing" /\ pane = "absent"
       THEN request' = "none" /\ Record("closed", resource.generation) /\ UNCHANGED lock
     ELSE /\ request' = "closing" /\ lock' = "request"
          /\ Record("closing", Revoked)
  /\ UNCHANGED <<writable, outside, connected, broker, pass, held, timer, results, paneKnown,
                 expired, counters>>

\* Another occupant is left alone, and the resource stays "closing".
EndClose ==
  /\ request = "closing" /\ request' = "none" /\ lock' = "free"
  /\ IF pane = "ours" THEN pane' = "absent" /\ Record("closed", resource.generation)
                      ELSE UNCHANGED <<pane, resource>>
  /\ UNCHANGED <<writable, files, deadline, connected, broker, pass, held, timer, results,
                 paneKnown, expired, counters>>

-----------------------------------------------------------------------------
(* Failures *)

\* An append fails, and the store is read-only until the broker starts again.
StopStore ==
  /\ broker # "down" /\ writable /\ writable' = FALSE
  /\ UNCHANGED <<resource, outside, connected, memory, paneKnown, expired, counters>>

\* Pi ends, or the pane is closed or taken by another.
LosePane ==
  /\ pane = "ours" /\ pane' \in {"absent", "other"}
  /\ UNCHANGED <<resource, writable, files, deadline, connected, memory, paneKnown, expired,
                 counters>>

LoseConnection ==
  /\ connected /\ connected' = FALSE
  /\ UNCHANGED <<resource, writable, outside, memory, paneKnown, expired, counters>>

Crash ==
  /\ broker # "down" /\ crashes < MaxCrashes /\ crashes' = crashes + 1
  /\ broker' = "down" /\ connected' = FALSE
  /\ pass' = IF pass = "idle" THEN "idle" ELSE "done"
  /\ lock' = "free" /\ held' = 0 /\ timer' = "none" /\ request' = "none" /\ results' = "none"
  /\ UNCHANGED <<resource, writable, outside, paneKnown, expired, requests>>

\* startupReconcile
Start ==
  /\ broker = "down" /\ broker' = "starting" /\ writable' = TRUE /\ request' = "restore"
  /\ UNCHANGED <<resource, outside, connected, pass, lock, held, timer, results, paneKnown,
                 expired, counters>>

-----------------------------------------------------------------------------
ProvisioningInit ==
  /\ resource = [state |-> "none", generation |-> Unset] /\ writable = TRUE
  /\ pane = "absent" /\ files = "none" /\ deadline = "unset" /\ connected = FALSE
  /\ broker = "down" /\ pass = "idle" /\ paneKnown = FALSE /\ lock = "free" /\ held = 0
  /\ timer = "none" /\ request = "none" /\ results = "none"
  /\ expired = FALSE /\ requests = 0 /\ crashes = 0

Pass == Intend \/ CreatePane \/ FailToCreate \/ RecordPending \/ RecordAgent
Timer == DeadlinePasses \/ Fire \/ TimerTakes \/ TimerEnds
Registration == \/ Register \/ Verify \/ RecordRegistered \/ Archive \/ Boundary \/ Mismatch
Reconciliation == Restore \/ ExpireStarts \/ ExpireEnds \/ Look \/ Apply \/ EndReconcile
Closing == StartClose \/ EndClose
Failure == StopStore \/ LosePane \/ LoseConnection \/ Crash

ProvisioningNext ==
  \/ Pass \/ Timer \/ Hello \/ StartRegister \/ Registration
  \/ \E step \in {"restore", "close"} : Ask(step)
  \/ Reconciliation \/ Closing \/ Failure \/ Start

\* Time passes, timers fire, a callback or request that has the lock or waits for it
\* moves on, and the broker is started again.  A lock that others always take first
\* would starve a waiter; first come, first served, it does not.
ProvisioningFairness ==
  /\ WF_provisioningVars(Pass \/ Registration \/ Reconciliation \/ Closing)
  /\ WF_provisioningVars(DeadlinePasses) /\ WF_provisioningVars(Fire)
  /\ SF_provisioningVars(TimerTakes) /\ WF_provisioningVars(TimerEnds)
  /\ WF_provisioningVars(Start)

ProvisioningSpec ==
  ProvisioningInit /\ [][ProvisioningNext]_provisioningVars /\ ProvisioningFairness

-----------------------------------------------------------------------------
States == {"none", "provisioning", "failed", "pending", "registered", "timed_out", "orphaned",
           "replaced", "missing", "present", "closing", "closed"}

\* Every variable has values of its type.
ProvisioningTypeOK ==
  /\ resource \in [state: States, generation: Nat] /\ writable \in BOOLEAN
  /\ pane \in {"absent", "ours", "other"} /\ files \in {"none", "kept", "archived"}
  /\ deadline \in {"unset", "ahead", "passed"} /\ connected \in BOOLEAN
  /\ broker \in {"down", "starting", "serving"}
  /\ pass \in {"idle", "create", "created", "agent", "done"} /\ paneKnown \in BOOLEAN
  /\ lock \in {"free", "pass", "request", "timer"} /\ held \in Nat
  /\ timer \in {"none", "armed", "fired", "running"}
  /\ request \in {"none", "register", "verify", "record", "archive", "boundary", "mismatch",
                  "restore", "expire", "expiring", "look", "apply", "end", "close", "closing"}
  /\ results \in {"none", "present", "replaced", "orphaned", "missing"}
  /\ expired \in BOOLEAN /\ requests \in Nat /\ crashes \in Nat

\* An attempt that may still be registered has the files that a broker needs to take it
\* up after a crash, and a broker that serves has it in #pending with a timer that will
\* end it, unless its record was refused (register, restorePending, scheduleExpiry).
PendingIsKept ==
  resource.state = "pending" =>
    /\ files = "kept"
    /\ broker = "serving" /\ writable /\ request # "restore" =>
         held # 0 /\ timer # "none"

\* A resource becomes registered only while its attempt is open: neither the timer nor a
\* reconciliation ends the attempt between the checks of register and its record.
RegisteredWhilePending ==
  [][resource'.state = "registered" /\ resource.state # "registered"
       => resource.state = "pending"]_provisioningVars

\* After a registration timed out, its token opens no further connection, whatever was
\* recorded of the resource since.
ExpiredTokenIsDead == [][expired /\ ~connected => ~connected']_provisioningVars

\* An attempt does not stay open, unless the store stopped: the child registers, the
\* timer ends it, or a broker that starts again does.
PendingEnds == resource.state = "pending" ~> (resource.state # "pending" \/ ~writable)

=============================================================================
