------------------------ MODULE RunAgreement_proofs ------------------------
(***************************************************************************)
(* That a task and its run agree, that an end is final, and that the       *)
(* contract of a task is kept.  None of it holds of every behaviour: a     *)
(* mutation and an advance pass outside the queue may have appends for the *)
(* same task pending at once, and run.result_recovery_requested and        *)
(* run.result_missing look at the result of a run and not at its state, so *)
(* that the second append revives or ends anew what the first one ended.   *)
(* The theorems say that this race is the only cause: all of it holds of a *)
(* behaviour in which it does not happen, whatever else does.              *)
(***************************************************************************)
EXTENDS RunLifecycle_proofs

\* One of these appends is about task t.
About(events, t) == \E i \in DOMAIN events : events[i].task = t

\* No task has appends of a mutation and of a pass pending at once.
Apart == \A t \in Tasks : ~(About(todo, t) /\ About(advTodo, t))

-----------------------------------------------------------------------------
(* The inductive invariant. *)

\* The state of a task, its run and the connection of its agent agree.
Agreed(tk, r, c) ==
  /\ r.state # "none" /\ (tk \in Terminal \/ r.state \in Terminal) => tk = r.state
  /\ r.state \notin Terminal \union {"none"} /\ r.delivery = "accepted" => r.assigned = c
  /\ tk = "queued" => r.state = "none"
  /\ r.reason = "RESULT_MISSING" => r.state = "failed"

RunsAgree == \A t \in Tasks : Agreed(task[t], run[t], conn[t])

\* The events that the reducer accepts of a run that is in no state for them ...
Conditional ==
  {"result.published", "run.result_recovery_requested", "run.result_missing",
   "task.state_changed", "assignment.accepted", "agent.state_changed"}

\* ... and the states to make them in.
Timely(e) ==
  /\ e.type \in {"result.published", "run.result_recovery_requested", "run.result_missing"} =>
       Live(e.task)
  /\ e.type = "task.state_changed" /\ e.to = "timed_out" => run[e.task].state = "none"
  /\ e.type = "assignment.accepted" => run[e.task].assigned = conn[e.task]
  /\ e.type = "agent.state_changed" /\ Live(e.task) => run[e.task].delivery # "accepted"

\* A new connection counts once the run is delivered to it.
FollowsDelivery(events, i) ==
  /\ i = 2 /\ events[1].type = "assignment.delivered" /\ events[2].type = "agent.state_changed"
  /\ events[1].task = events[2].task

TimelyMutation(events) ==
  \A i \in DOMAIN events : events[i].type \in Conditional =>
    \/ i = 1 /\ Timely(events[1])
    \/ FollowsDelivery(events, i)

TimelyPass(events, stage) ==
  \A i \in DOMAIN events :
    /\ events[i].type \in Conditional =>
         \/ i = 1 /\ Timely(events[1])
         \/ events[i].type = "task.state_changed" /\ events[i].to = "provisioning"
    /\ events[i].type = "run.created" => i = 1 /\ stage = "provision"

\* The tasks that a pass is to block, or whose deadline it looks at, have no run.
Unstarted(stage, set) ==
  stage \in {"block", "expire", "blockAgain"} => \A t \in set : run[t].state = "none"

Agreement ==
  RunsAgree /\ TimelyMutation(todo) /\ TimelyPass(advTodo, adv) /\ Unstarted(adv, advSet)

-----------------------------------------------------------------------------
(* What an accepted event does to its task. *)

\* How a task ended (Outcomes), from its state and its run.
OutcomeOf(tk, r) ==
  IF tk \notin Terminal THEN "open"
  ELSE IF r.reason = "RESULT_MISSING" THEN "result_missing" ELSE tk

\* What ended stays as it ended.
Final(tk, r, ntk, nr) ==
  /\ r.state \in Terminal => nr.state = r.state
  /\ tk = "cancelled" /\ r.state \in {"none", "cancelled"} =>
       ntk = "cancelled" /\ nr.state \in {"none", "cancelled"}

\* A step of the contract, or none, for one task.
Fulfils(tk, r, ntk, nr) ==
  \/ OutcomeOf(ntk, nr) = OutcomeOf(tk, r) /\ nr.result = r.result
  \/ /\ OutcomeOf(tk, r) = "open" /\ OutcomeOf(ntk, nr) = "open"
     /\ r.result = "none" /\ nr.result \in ResultStatus
  \/ /\ OutcomeOf(tk, r) = "open" /\ OutcomeOf(ntk, nr) \in Contract!Outcome
     /\ OutcomeOf(ntk, nr) = "succeeded" => r.result = "succeeded"
     /\ OutcomeOf(ntk, nr) = "result_missing" => r.result = "none"
     /\ nr.result = r.result

Effect(t) ==
  /\ Agreed(task'[t], run'[t], conn'[t])
  /\ Final(task[t], run[t], task'[t], run'[t])
  /\ Fulfils(task[t], run[t], task'[t], run'[t])

\* The reducer leaves the other tasks alone.
LEMMA OtherTasks ==
  ASSUME DurableType, NEW e \in Event, Reduce(e), NEW t \in Tasks, t # e.task
  PROVE  task'[t] = task[t] /\ run'[t] = run[t] /\ conn'[t] = conn[t]
  BY EventFields
  DEF Reduce, ReduceRunCreated, ReduceRunEvent, ReduceCancelRequested, RunEvent,
      AdapterProgress, DurableType

\* A task of which nothing changes.
LEMMA SameTask ==
  ASSUME NEW tk, NEW r, NEW c, Agreed(tk, r, c)
  PROVE  Final(tk, r, tk, r) /\ Fulfils(tk, r, tk, r)
  BY DEF Agreed, Final, Fulfils

\* An accepted event whose time it is keeps the agreement and the contract.
LEMMA TimelyEffect ==
  ASSUME DurableType, StateInv, RunsAgree, NEW e \in Event,
         Accepts(e), Justified(e), Timely(e), Reduce(e), NEW t \in Tasks
  PROVE  Effect(t)
<1>1. /\ task[t] \in TaskState /\ run[t] \in Run /\ conn[t] \in Nat
      /\ run[t].state = "none" => run[t] = NoRun
      /\ Agreed(task[t], run[t], conn[t])
  BY DEF DurableType, StateInv, RunsAgree
<1>2. CASE task'[t] = task[t] /\ run'[t] = run[t] /\ conn'[t] = conn[t]
  BY <1>1, <1>2, SameTask DEF Effect
<1>3. CASE e.type = "run.created" /\ e.task = t
  <2>1. /\ run[t].state = "none" /\ task[t] \notin Terminal
        /\ run'[t] = [NoRun EXCEPT !.state = "created"] /\ task'[t] = "assigned"
    BY <1>3 DEF Accepts, Reduce, ReduceRunCreated, RunEvent, AdapterProgress, DurableType
  <2>2. /\ run'[t].state = "created" /\ run'[t].result = "none" /\ run'[t].reason = "none"
        /\ run'[t].delivery = "none" /\ run[t].result = "none"
    BY <1>1, <2>1 DEF NoRun
  <2>. QED
    BY <1>1, <2>1, <2>2 DEF Effect, Agreed, Final, Fulfils, OutcomeOf, Terminal
<1>4. CASE e.type \in RunEvent /\ e.task = t
  <2>1. ReduceRunEvent(e) /\ run'[t] = NextRun(e, run[t]) /\ conn'[t] = conn[t]
    BY <1>4 DEF Reduce, ReduceRunEvent, RunEvent, AdapterProgress, DurableType
  <2>2. CASE e.type \in AdapterProgress
    <3>1. run[t].state \notin Terminal \union {"none"}
      BY <1>4, <2>2 DEF Accepts, AdapterProgress
    <3>2. /\ run'[t].state \in {run[t].state, "working", "settled"}
          /\ run'[t].result = run[t].result /\ run'[t].reason = run[t].reason
      BY <1>1, <2>1, <2>2 DEF NextRun, AdapterProgress, Run
    <3>3. task'[t] = task[t]
      BY <2>1, <2>2 DEF ReduceRunEvent, AdapterProgress
    <3>4. run'[t].delivery = "accepted" => run'[t].assigned = conn[t]
      <4>1. CASE e.type = "assignment.accepted"
        <5>1. run[t].assigned = conn[t]
          BY <1>4, <4>1 DEF Timely
        <5>2. run'[t].assigned = run[t].assigned
          BY <1>1, <2>1, <4>1 DEF NextRun, Run
        <5>. QED
          BY <5>1, <5>2
      <4>2. CASE e.type \in {"assignment.delivered", "assignment.delivery_failed"}
        <5>1. run'[t].delivery # "accepted"
          BY <1>1, <2>1, <4>2 DEF NextRun, Run
        <5>. QED
          BY <5>1
      <4>3. CASE e.type \in {"run.pi_started", "run.pi_settled"}
        <5>1. run'[t].delivery = run[t].delivery /\ run'[t].assigned = run[t].assigned
          BY <1>1, <2>1, <4>3 DEF NextRun, Run
        <5>. QED
          BY <1>1, <3>1, <5>1 DEF Agreed
      <4>. QED
        BY <2>2, <4>1, <4>2, <4>3 DEF AdapterProgress
    <3>5. task[t] \notin Terminal /\ task[t] # "queued" /\ run[t].reason # "RESULT_MISSING"
      BY <1>1, <3>1 DEF Agreed, Terminal
    <3>. QED
      BY <2>1, <3>1, <3>2, <3>3, <3>4, <3>5
      DEF Effect, Agreed, Final, Fulfils, OutcomeOf, Terminal
  <2>3. CASE e.type = "run.state_changed"
    <3>1. /\ run[t].state # "none" /\ (run[t].state \in Terminal => run[t].state = e.to)
          /\ e.to = "succeeded" => run[t].result = "succeeded"
      BY <1>4, <2>3 DEF Accepts, MayBecome, Justified, AdapterProgress
    <3>2. /\ run'[t].state = e.to /\ run'[t].result = run[t].result
          /\ run'[t].reason = IF e.to = "timed_out" THEN "TIMEOUT" ELSE run[t].reason
          /\ run'[t].delivery = run[t].delivery /\ run'[t].assigned = run[t].assigned
      BY <1>1, <2>1, <2>3 DEF NextRun, Run
    <3>3. task'[t] = IF e.to \in Terminal THEN e.to ELSE task[t]
      BY <1>4, <2>1, <2>3 DEF ReduceRunEvent, DurableType
    <3>4. e.to # "none" /\ e.to \in {"working", "blocked"} \union Terminal
      BY <2>3, EventFields, ConstantsAssumption DEF Terminal
    <3>5. Agreed(task'[t], run'[t], conn'[t])
      BY <1>1, <2>1, <3>1, <3>2, <3>3, <3>4 DEF Agreed, Terminal
    <3>6. Final(task[t], run[t], task'[t], run'[t])
      BY <1>1, <3>1, <3>2, <3>3, <3>4 DEF Agreed, Final, Terminal
    <3>7. Fulfils(task[t], run[t], task'[t], run'[t])
      <4>1. CASE run[t].state \in Terminal
        BY <1>1, <3>1, <3>2, <3>3, <4>1 DEF Agreed, Fulfils, OutcomeOf, Terminal
      <4>2. CASE run[t].state \notin Terminal
        <5>1. task[t] \notin Terminal /\ run[t].reason # "RESULT_MISSING"
          BY <1>1, <3>1, <4>2 DEF Agreed, Terminal
        <5>2. Terminal \subseteq Contract!Outcome
          BY DEF Terminal, Contract!Outcome
        <5>3. run'[t].reason # "RESULT_MISSING"
          BY <3>2, <5>1
        <5>. QED
          BY <3>1, <3>2, <3>3, <5>1, <5>2, <5>3 DEF Fulfils, OutcomeOf, Terminal
      <4>. QED
        BY <4>1, <4>2
    <3>. QED
      BY <3>5, <3>6, <3>7 DEF Effect
  <2>4. CASE e.type = "result.published"
    <3>1. run[t].state \notin Terminal \union {"none"} /\ run[t].result = "none"
      BY <1>4, <2>4 DEF Justified, Timely, Live
    <3>2. /\ run'[t].state = run[t].state /\ run'[t].result = e.to
          /\ run'[t].reason = run[t].reason
          /\ run'[t].delivery = run[t].delivery /\ run'[t].assigned = run[t].assigned
      BY <1>1, <2>1, <2>4 DEF NextRun, Run
    <3>3. task'[t] = task[t] /\ e.to \in ResultStatus
      BY <2>1, <2>4, EventFields DEF ReduceRunEvent
    <3>. QED
      BY <1>1, <2>1, <3>1, <3>2, <3>3 DEF Effect, Agreed, Final, Fulfils, OutcomeOf
  <2>5. CASE e.type = "run.result_recovery_requested"
    <3>1. run[t].state \notin Terminal \union {"none"}
      BY <1>4, <2>5 DEF Timely, Live
    <3>2. /\ run'[t].state = "result_pending_missing" /\ run'[t].result = run[t].result
          /\ run'[t].reason = run[t].reason
          /\ run'[t].delivery = run[t].delivery /\ run'[t].assigned = run[t].assigned
      BY <1>1, <2>1, <2>5 DEF NextRun, Run
    <3>3. task'[t] = task[t]
      BY <2>1, <2>5 DEF ReduceRunEvent
    <3>. QED
      BY <1>1, <2>1, <3>1, <3>2, <3>3 DEF Effect, Agreed, Final, Fulfils, OutcomeOf, Terminal
  <2>6. CASE e.type = "run.result_missing"
    <3>1. run[t].state \notin Terminal \union {"none"} /\ run[t].result = "none"
      BY <1>4, <2>6 DEF Accepts, Timely, Live, AdapterProgress
    <3>2. /\ run'[t].state = "failed" /\ run'[t].result = run[t].result
          /\ run'[t].reason = "RESULT_MISSING"
      BY <1>1, <2>1, <2>6 DEF NextRun, Run
    <3>3. task'[t] = "failed"
      BY <1>4, <2>1, <2>6 DEF ReduceRunEvent, DurableType
    <3>4. task[t] \notin Terminal
      BY <1>1, <3>1 DEF Agreed
    <3>. QED
      BY <3>1, <3>2, <3>3, <3>4
      DEF Effect, Agreed, Final, Fulfils, OutcomeOf, Terminal, Contract!Outcome
  <2>. QED
    BY <1>4, <2>2, <2>3, <2>4, <2>5, <2>6 DEF RunEvent
<1>5. CASE e.type = "task.cancel_requested" /\ e.task = t
  <2>1. ReduceCancelRequested(t) /\ conn'[t] = conn[t]
    BY <1>5 DEF Reduce, ReduceCancelRequested, RunEvent, AdapterProgress
  <2>2. CASE task[t] \in Terminal
    BY <1>2, <2>1, <2>2 DEF ReduceCancelRequested
  <2>3. CASE task[t] \notin Terminal
    <3>1. /\ task'[t] = "cancelled"
          /\ run'[t] = IF run[t].state = "none" THEN run[t]
                       ELSE [run[t] EXCEPT !.state = "cancelled"]
      BY <2>1, <2>3 DEF ReduceCancelRequested, DurableType
    <3>2. /\ run'[t].state = IF run[t].state = "none" THEN "none" ELSE "cancelled"
          /\ run'[t].result = run[t].result /\ run'[t].reason = run[t].reason
      BY <1>1, <3>1 DEF Run
    <3>3. run[t].state \notin Terminal /\ run[t].reason # "RESULT_MISSING"
      BY <1>1, <2>3 DEF Agreed, Terminal
    <3>. QED
      BY <2>3, <3>1, <3>2, <3>3
      DEF Effect, Agreed, Final, Fulfils, OutcomeOf, Terminal, Contract!Outcome
  <2>. QED
    BY <2>2, <2>3
<1>6. CASE e.type = "task.state_changed" /\ e.task = t
  <2>1. /\ e.to \in {"provisioning", "blocked", "timed_out"}
        /\ task[t] \notin Terminal \/ task[t] = e.to
        /\ task'[t] = e.to /\ run'[t] = run[t] /\ conn'[t] = conn[t]
        /\ e.to = "timed_out" => run[t].state = "none"
    BY <1>6, EventFields DEF Accepts, Reduce, Timely, DurableType, RunEvent, AdapterProgress
  <2>2. run[t].reason = "RESULT_MISSING" => run[t].state = "failed"
    BY <1>1 DEF Agreed
  <2>. QED
    BY <1>1, <2>1, <2>2
    DEF Effect, Agreed, Final, Fulfils, OutcomeOf, Terminal, Contract!Outcome
<1>7. CASE e.type = "agent.state_changed" /\ e.task = t
  <2>1. task'[t] = task[t] /\ run'[t] = run[t]
    BY <1>7 DEF Reduce, RunEvent, AdapterProgress
  <2>2. run[t].state \notin Terminal \union {"none"} => run[t].delivery # "accepted"
    BY <1>7 DEF Timely, Live
  <2>3. Final(task[t], run[t], task'[t], run'[t]) /\ Fulfils(task[t], run[t], task'[t], run'[t])
    BY <1>1, <2>1, SameTask
  <2>. QED
    BY <1>1, <2>1, <2>2, <2>3 DEF Effect, Agreed
<1>8. CASE e.type \in {"workflow.state_changed", "question.opened", "question.closed"}
  BY <1>2, <1>8 DEF Reduce, RunEvent, AdapterProgress
<1>9. CASE e.task # t
  BY <1>2, <1>9, OtherTasks
<1>. QED
  BY <1>3, <1>4, <1>5, <1>6, <1>7, <1>8, <1>9, EventFields

-----------------------------------------------------------------------------
(* Appends. *)

\* It still is the time of an event after an event of another task.
LEMMA TimelyLater ==
  ASSUME DurableType, NEW e \in Event, Reduce(e), NEW d \in Event, d.task # e.task,
         d.type \in Conditional, Timely(d)
  PROVE  Timely(d)'
<1>1. d.task \in Tasks
  BY EventFields DEF Conditional
<1>2. run'[d.task] = run[d.task] /\ conn'[d.task] = conn[d.task]
  BY <1>1, OtherTasks
<1>. QED
  BY <1>2 DEF Timely, Live

\* A pending event is about its task.
LEMMA ApartEvents ==
  ASSUME Apart, NEW i \in DOMAIN todo, NEW j \in DOMAIN advTodo,
         todo[i].task \in Tasks \/ advTodo[j].task \in Tasks
  PROVE  todo[i].task # advTodo[j].task
  BY DEF Apart, About

\* The first append of a mutation is made.
LEMMA MutationAgreement ==
  ASSUME Inv, Agreement, Apart, todo # <<>>, Accepts(Head(todo)), Reduce(Head(todo)),
         todo' = Tail(todo), UNCHANGED <<advTodo, adv, advSet>>
  PROVE  Agreement' /\ \A t \in Tasks : Effect(t)
<1> DEFINE e == Head(todo)
<1>1. /\ DurableType /\ StateInv /\ todo \in Seq(Event) /\ advTodo \in Seq(Event)
      /\ e \in Event /\ e = todo[1] /\ 1 \in DOMAIN todo /\ RunsAgree
  BY DEF Inv, TypeOK, MemoryType, Agreement
<1>2. Justified(e) /\ Timely(e) /\ e.type # "run.created"
  <2>1. Justified(e) /\ e.type # "run.created"
    BY <1>1 DEF Inv, PendingMutation, FollowsItsResult, Occupies
  <2>2. CASE e.type \in Conditional
    BY <1>1, <2>1, <2>2 DEF Agreement, TimelyMutation, FollowsDelivery
  <2>3. CASE e.type \notin Conditional
    BY <2>1, <2>3 DEF Timely, Conditional
  <2>. QED
    BY <2>1, <2>2, <2>3
<1>3. \A t \in Tasks : Effect(t)
  BY <1>1, <1>2, TimelyEffect
<1>4. RunsAgree'
  BY <1>3 DEF Effect, RunsAgree
<1>5. TimelyMutation(todo)'
  <2>1. ASSUME NEW i \in DOMAIN todo', todo'[i].type \in Conditional
        PROVE  i = 1 /\ Timely(todo[1])'
    <3>1. /\ i \in Nat /\ i + 1 \in DOMAIN todo /\ todo'[i] = todo[i + 1] /\ i + 1 # 1
          /\ todo[i + 1] \in Event
      BY <1>1, <2>1
    <3>2. FollowsDelivery(todo, i + 1)
      BY <2>1, <3>1 DEF Agreement, TimelyMutation
    <3>3. PICK d \in Event : d = todo[2] /\ d = todo'[1]
      BY <3>1, <3>2 DEF FollowsDelivery
    <3>4. /\ i = 1 /\ e.type = "assignment.delivered" /\ d.type = "agent.state_changed"
          /\ e.task = d.task /\ e.task \in Tasks
      BY <1>1, <3>1, <3>2, <3>3, EventFields DEF FollowsDelivery
    <3>5. run'[e.task] = NextRun(e, run[e.task]) /\ run[e.task] \in Run
      BY <1>1, <3>4 DEF Reduce, ReduceRunEvent, RunEvent, AdapterProgress, DurableType
    <3>6. run'[e.task].delivery = "pending"
      BY <3>4, <3>5 DEF NextRun, Run
    <3>7. Timely(d)'
      BY <3>4, <3>6 DEF Timely
    <3>. QED
      BY <3>3, <3>4, <3>7 DEF Timely, Live
  <2>. QED
    BY <2>1 DEF TimelyMutation
<1>6. TimelyPass(advTodo, adv)'
  <2>1. ASSUME NEW i \in DOMAIN advTodo, i = 1, advTodo[1].type \in Conditional,
               Timely(advTodo[1])
        PROVE  Timely(advTodo[1])'
    <3>1. PICK d \in Event : d = advTodo[1]
      BY <1>1, <2>1
    <3>2. d.task \in Tasks
      BY <2>1, <3>1, EventFields DEF Conditional
    <3>3. d.task # e.task
      BY <1>1, <2>1, <3>1, <3>2, ApartEvents
    <3>4. Timely(d)'
      BY <1>1, <2>1, <3>1, <3>3, TimelyLater
    <3>. QED
      BY <3>1, <3>4 DEF Timely, Live
  <2>. QED
    BY <2>1 DEF Agreement, TimelyPass
<1>7. Unstarted(adv, advSet)'
  <2>1. \A t \in Tasks : TaskEffect(e, t)
    BY <1>1, <1>2, ReduceTask
  <2>. QED
    BY <1>2, <2>1 DEF TaskEffect, Agreement, Unstarted, Inv, TypeOK, MemoryType
<1>. QED
  BY <1>3, <1>4, <1>5, <1>6, <1>7 DEF Agreement

\* An append of a pass is made.
LEMMA PassAgreement ==
  ASSUME Inv, Agreement, Apart, advTodo # <<>>, Accepts(Head(advTodo)), Reduce(Head(advTodo)),
         advTodo' \in {Tail(advTodo), <<>>}, todo' = todo,
         adv' \in {"block", "expire", "blockAgain"} => adv' = adv /\ advSet' = advSet
  PROVE  Agreement' /\ \A t \in Tasks : Effect(t)
<1> DEFINE e == Head(advTodo)
<1>1. /\ DurableType /\ StateInv /\ todo \in Seq(Event) /\ advTodo \in Seq(Event)
      /\ e \in Event /\ e = advTodo[1] /\ 1 \in DOMAIN advTodo /\ RunsAgree
  BY DEF Inv, TypeOK, MemoryType, Agreement
<1>2. Justified(e) /\ Timely(e) /\ (e.type = "run.created" => adv = "provision")
  <2>1. Justified(e) /\ (e.type = "run.created" => adv = "provision")
    BY <1>1 DEF Inv, PendingPass, Agreement, TimelyPass
  <2>2. CASE e.type \in Conditional
    <3>1. Timely(e) \/ (e.type = "task.state_changed" /\ e.to = "provisioning")
      BY <1>1, <2>2 DEF Agreement, TimelyPass
    <3>. QED
      BY <2>1, <3>1 DEF Timely
  <2>3. CASE e.type \notin Conditional
    BY <2>1, <2>3 DEF Timely, Conditional
  <2>. QED
    BY <2>1, <2>2, <2>3
<1>3. \A t \in Tasks : Effect(t)
  BY <1>1, <1>2, TimelyEffect
<1>4. RunsAgree'
  BY <1>3 DEF Effect, RunsAgree
<1>5. TimelyMutation(todo)'
  <2>1. ASSUME NEW i \in DOMAIN todo, i = 1, todo[1].type \in Conditional, Timely(todo[1])
        PROVE  Timely(todo[1])'
    <3>1. PICK d \in Event : d = todo[1]
      BY <1>1, <2>1
    <3>2. d.task \in Tasks
      BY <2>1, <3>1, EventFields DEF Conditional
    <3>3. d.task # e.task
      BY <1>1, <2>1, <3>1, <3>2, ApartEvents
    <3>4. Timely(d)'
      BY <1>1, <2>1, <3>1, <3>3, TimelyLater
    <3>. QED
      BY <3>1, <3>4 DEF Timely, Live
  <2>. QED
    BY <2>1 DEF Agreement, TimelyMutation, FollowsDelivery
<1>6. TimelyPass(advTodo, adv)'
  <2>1. ASSUME NEW i \in DOMAIN advTodo'
        PROVE  /\ advTodo'[i].type \in Conditional =>
                    advTodo'[i].type = "task.state_changed" /\ advTodo'[i].to = "provisioning"
               /\ advTodo'[i].type # "run.created"
    <3>1. i \in Nat /\ i + 1 \in DOMAIN advTodo /\ advTodo'[i] = advTodo[i + 1] /\ i + 1 # 1
      BY <1>1, <2>1
    <3>. QED
      BY <3>1 DEF Agreement, TimelyPass
  <2>. QED
    BY <2>1 DEF TimelyPass
<1>7. Unstarted(adv, advSet)'
  <2>1. \A t \in Tasks : TaskEffect(e, t)
    BY <1>1, <1>2, ReduceTask
  <2>. QED
    BY <1>2, <2>1 DEF TaskEffect, Agreement, Unstarted, Inv, TypeOK, MemoryType
<1>. QED
  BY <1>3, <1>4, <1>5, <1>6, <1>7 DEF Agreement

-----------------------------------------------------------------------------
(* The other steps change nothing durable. *)

LEMMA MemoryAgreement ==
  ASSUME Agreement, UNCHANGED durable, TimelyMutation(todo'), TimelyPass(advTodo', adv'),
         Unstarted(adv', advSet')
  PROVE  Agreement'
<1>1. UNCHANGED <<wf, task, run, question, conn>>
  BY DEF durable
<1>2. RunsAgree' /\ Unstarted(adv, advSet)'
  BY <1>1 DEF Agreement, RunsAgree, Unstarted
<1>3. ASSUME NEW e
      PROVE  Timely(e) => Timely(e)'
  BY <1>1 DEF Timely, Live
<1>4. TimelyMutation(todo)'
  BY <1>3 DEF TimelyMutation, FollowsDelivery
<1>5. TimelyPass(advTodo, adv)'
  BY <1>3 DEF TimelyPass
<1>. QED
  BY <1>2, <1>4, <1>5 DEF Agreement

LEMMA QueueAgreement ==
  ASSUME Agreement, UNCHANGED <<durable, advance>>, TimelyMutation(todo')
  PROVE  Agreement'
<1>1. UNCHANGED <<adv, advSet, advTodo>>
  BY DEF advance
<1>. QED
  BY <1>1, MemoryAgreement DEF Agreement, Unstarted

LEMMA StageAgreement ==
  ASSUME Agreement, UNCHANGED <<durable, todo>>, TimelyPass(advTodo', adv'),
         Unstarted(adv', advSet')
  PROVE  Agreement'
  BY MemoryAgreement DEF Agreement

\* Appends that may be made in any state.
Untimed(events) ==
  events \in Seq(Event) /\ \A i \in DOMAIN events : events[i].type \notin Conditional

LEMMA UntimedPending ==
  ASSUME NEW events, Untimed(events)
  PROVE  TimelyMutation(events)
  BY DEF Untimed, TimelyMutation

LEMMA UntimedNone == Untimed(<<>>)
  BY DEF Untimed

LEMMA UntimedOne ==
  ASSUME NEW e \in Event, e.type \notin Conditional
  PROVE  Untimed(<<e>>)
  BY DEF Untimed

LEMMA UntimedConcat ==
  ASSUME NEW s, NEW r, Untimed(s), Untimed(r)
  PROVE  Untimed(s \o r)
<1>1. s \in Seq(Event) /\ r \in Seq(Event)
  BY DEF Untimed
<1>2. ASSUME NEW i \in DOMAIN (s \o r)
      PROVE  (s \o r)[i].type \notin Conditional
  BY <1>1, <1>2 DEF Untimed
<1>. QED
  BY <1>1, <1>2 DEF Untimed

LEMMA UntimedTwo ==
  ASSUME NEW d \in Event, NEW e \in Event, d.type \notin Conditional, e.type \notin Conditional
  PROVE  Untimed(<<d, e>>)
  BY DEF Untimed

\* The events that no theorem asks the time of.
LEMMA UntimedEvents ==
  /\ \A t \in Tasks :
       /\ \A type \in {"run.pi_started", "run.pi_settled", "assignment.delivery_failed",
                       "task.cancel_requested"} :
            /\ TaskEvent(type, t, "none") \in Event
            /\ TaskEvent(type, t, "none").type \notin Conditional
       /\ \A to \in {"working", "blocked", "failed", "cancelled", "timed_out"} \union ResultStatus :
            /\ TaskEvent("run.state_changed", t, to) \in Event
            /\ TaskEvent("run.state_changed", t, to).type \notin Conditional
       /\ \A q \in Questions, to \in {"answered", "cancelled", "timed_out"} :
            /\ QuestionEvent("question.closed", q, t, to) \in Event
            /\ QuestionEvent("question.closed", q, t, to).type \notin Conditional
       /\ \A q \in Questions :
            /\ QuestionEvent("question.opened", q, t, "none") \in Event
            /\ QuestionEvent("question.opened", q, t, "none").type \notin Conditional
  /\ \A to \in WorkflowState :
       WorkflowEvent(to) \in Event /\ WorkflowEvent(to).type \notin Conditional
  BY DEF TaskEvent, QuestionEvent, WorkflowEvent, Event, Conditional, AdapterProgress

\* A single append, made in the state it was decided in.
LEMMA TimelyOne ==
  ASSUME NEW e, Timely(e)
  PROVE  /\ TimelyMutation(<<e>>)
         /\ \A stage : e.type # "run.created" => TimelyPass(<<e>>, stage)
  BY DEF TimelyMutation, TimelyPass

LEMMA TimelyNone == TimelyMutation(<<>>) /\ \A stage : TimelyPass(<<>>, stage)
  BY DEF TimelyMutation, TimelyPass

LEMMA UntimedCancelOpen ==
  ASSUME NEW t \in Tasks, NEW andThen, Untimed(andThen)
  PROVE  Untimed(CancelOpen(t, andThen))
<1>1. CASE Open(t) = {}
  BY <1>1, UntimedNone DEF CancelOpen
<1>2. CASE Open(t) # {}
  <2> DEFINE q == CHOOSE x \in Open(t) : TRUE
  <2>1. q \in Questions
    BY <1>2 DEF Open
  <2>2. Untimed(<<QuestionEvent("question.closed", q, t, "cancelled")>>)
    BY <2>1, UntimedEvents, UntimedOne
  <2>. QED
    BY <1>2, <2>2, UntimedConcat DEF CancelOpen
<1>. QED
  BY <1>1, <1>2

LEMMA UntimedTimeOut ==
  ASSUME Inv, NEW q \in Questions
  PROVE  Untimed(TimeOutQuestion(q))
<1>1. CASE question[q].state = "open"
  BY <1>1, OpenQuestionTask, UntimedEvents, UntimedTwo DEF TimeOutQuestion
<1>2. CASE question[q].state # "open"
  BY <1>2, UntimedNone DEF TimeOutQuestion
<1>. QED
  BY <1>1, <1>2

LEMMA RequestAgreement ==
  ASSUME Inv, Agreement, Requests
  PROVE  Agreement'
<1>1. UNCHANGED <<durable, advance>>
  BY DEF Requests, Register, TurnStart, AgentSettled, CancelTask, PublishResult, OpenQuestion,
         AnswerQuestion, RequestQuestionTimeout, CancelWorkflow, Request
<1>2. ASSUME NEW t \in Tasks, Register(t)
      PROVE  TimelyMutation(todo')
  <2> DEFINE delivered == TaskEvent("assignment.delivered", t, "none")
             registered == TaskEvent("agent.state_changed", t, "none")
  <2>1. /\ delivered.type = "assignment.delivered" /\ delivered.task = t
        /\ registered.type = "agent.state_changed" /\ registered.task = t
        /\ delivered.type \notin Conditional
    BY DEF TaskEvent, Conditional
  <2>2. CASE Live(t)
    <3>1. todo' = <<delivered, registered>>
      BY <1>2, <2>2 DEF Register, Request, Begin
    <3> HIDE DEF delivered, registered
    <3>2. DOMAIN todo' = {1, 2} /\ todo'[1] = delivered /\ todo'[2] = registered
      BY <3>1
    <3>. QED
      BY <2>1, <3>2 DEF TimelyMutation, FollowsDelivery
  <2>3. CASE ~Live(t)
    <3>1. todo' = <<registered>>
      BY <1>2, <2>3 DEF Register, Request, Begin
    <3>2. Timely(registered)
      BY <2>1, <2>3 DEF Timely
    <3>. QED
      BY <3>1, <3>2, TimelyOne
  <2>. QED
    BY <2>2, <2>3
<1>3. ASSUME NEW t \in Tasks, TurnStart(t) \/ AgentSettled(t)
      PROVE  TimelyMutation(todo')
  <2>1. todo' \in {<<TaskEvent("run.pi_started", t, "none")>>,
                   <<TaskEvent("run.pi_settled", t, "none")>>}
    BY <1>3 DEF TurnStart, AgentSettled, Request, Begin
  <2>. QED
    BY <2>1, UntimedEvents, UntimedOne, UntimedPending
<1>4. ASSUME NEW t \in Tasks, NEW s \in ResultStatus, PublishResult(t, s)
      PROVE  TimelyMutation(todo')
  <2> DEFINE published == TaskEvent("result.published", t, s)
             ended == TaskEvent("run.state_changed", t, s)
  <2>1. todo' \in {<<published, ended>>, <<published>>}
    BY <1>4 DEF PublishResult, Request, Begin
  <2>2. Timely(published) /\ ended.type \notin Conditional
    BY <1>4 DEF PublishResult, Timely, TaskEvent, Conditional
  <2> HIDE DEF published, ended
  <2>. QED
    BY <2>1, <2>2, TimelyOne DEF TimelyMutation
<1>5. ASSUME NEW t \in Tasks, NEW q \in Questions, OpenQuestion(q, t)
      PROVE  TimelyMutation(todo')
  <2>1. todo' = <<QuestionEvent("question.opened", q, t, "none"),
                  TaskEvent("run.state_changed", t, "blocked")>>
    BY <1>5 DEF OpenQuestion, Request, Begin
  <2>. QED
    BY <2>1, UntimedEvents, UntimedTwo, UntimedPending
<1>6. ASSUME NEW q \in Questions, AnswerQuestion(q) \/ RequestQuestionTimeout(q)
      PROVE  TimelyMutation(todo')
  <2>1. \/ /\ question[q].task \in Tasks
           /\ todo' = <<QuestionEvent("question.closed", q, question[q].task, "answered"),
                        TaskEvent("run.state_changed", question[q].task, "working")>>
        \/ todo' = TimeOutQuestion(q)
    BY <1>6, OpenQuestionTask DEF AnswerQuestion, RequestQuestionTimeout, Request, Begin
  <2>. QED
    BY <2>1, UntimedEvents, UntimedTwo, UntimedTimeOut, UntimedPending
<1>7. ASSUME NEW t \in Tasks, CancelTask(t)
      PROVE  TimelyMutation(todo')
  <2> DEFINE first == <<TaskEvent("task.cancel_requested", t, "none")>>
             rest == CancelOpen(t, <<TaskEvent("run.state_changed", t, "cancelled")>>)
  <2>1. Untimed(first) /\ Untimed(<<TaskEvent("run.state_changed", t, "cancelled")>>)
    BY UntimedEvents, UntimedOne
  <2>2. Untimed(rest)
    BY <2>1, UntimedCancelOpen
  <2>3. todo' = first \o rest
    BY <1>7 DEF CancelTask, Request, Begin
  <2>. QED
    BY <2>1, <2>2, <2>3, UntimedConcat, UntimedPending
<1>8. ASSUME NEW cascade \in BOOLEAN, CancelWorkflow(cascade)
      PROVE  TimelyMutation(todo')
  <2> DEFINE first == <<WorkflowEvent("cancelled")>>
             all == [i \in DOMAIN TaskIds |->
                       TaskEvent("task.cancel_requested", TaskIds[i], "none")]
  <2>1. Untimed(first)
    BY UntimedEvents, UntimedOne DEF WorkflowState
  <2>2. Untimed(all)
    <3>1. ASSUME NEW i \in DOMAIN TaskIds
          PROVE  all[i] \in Event /\ all[i].type \notin Conditional
      BY ConstantsAssumption, UntimedEvents
    <3>2. all \in Seq(Event)
      BY <3>1, ConstantsAssumption
    <3>. QED
      BY <3>1, <3>2 DEF Untimed
  <2>3. todo' = first \o (IF cascade THEN all ELSE <<>>)
    BY <1>8 DEF CancelWorkflow, Request, Begin
  <2> HIDE DEF first, all
  <2>. QED
    BY <2>1, <2>2, <2>3, UntimedConcat, UntimedNone, UntimedPending
<1>. QED
  BY <1>1, <1>2, <1>3, <1>4, <1>5, <1>6, <1>7, <1>8, QueueAgreement DEF Requests

LEMMA JobAgreement ==
  ASSUME Inv, Agreement, Jobs
  PROVE  Agreement'
<1>1. CASE StartAdvance
  <2>1. UNCHANGED <<durable, todo, advTodo>> /\ adv = "off" /\ adv' = "converge"
    BY <1>1 DEF StartAdvance, BeginAdvance
  <2>2. TimelyPass(advTodo', adv')
    BY <2>1 DEF Agreement, TimelyPass
  <2>. QED
    BY <2>1, <2>2, StageAgreement DEF Unstarted
<1>2. ASSUME NEW t \in Tasks, TaskDeadline(t)
      PROVE  TimelyMutation(todo')
  <2>1. Untimed(CancelOpen(t, <<>>) \o <<TaskEvent("run.state_changed", t, "timed_out")>>)
    BY UntimedNone, UntimedCancelOpen, UntimedEvents, UntimedOne, UntimedConcat
  <2>2. \/ todo' = <<>>
        \/ /\ todo' = <<TaskEvent("task.state_changed", t, "timed_out")>>
           /\ run[t].state = "none"
        \/ todo' = CancelOpen(t, <<>>) \o <<TaskEvent("run.state_changed", t, "timed_out")>>
    BY <1>2 DEF TaskDeadline, StartJob, Begin
  <2>3. run[t].state = "none" => Timely(TaskEvent("task.state_changed", t, "timed_out"))
    BY DEF Timely, TaskEvent
  <2>. QED
    BY <2>1, <2>2, <2>3, TimelyNone, TimelyOne, UntimedPending
<1>3. ASSUME NEW t \in Tasks, RecoveryTimeout(t)
      PROVE  TimelyMutation(todo')
  <2>1. \/ todo' = <<>>
        \/ todo' = <<TaskEvent("run.result_missing", t, "none")>> /\ Live(t)
    BY <1>3 DEF RecoveryTimeout, StartJob, Begin
  <2>2. Live(t) => Timely(TaskEvent("run.result_missing", t, "none"))
    BY DEF Timely, TaskEvent
  <2>. QED
    BY <2>1, <2>2, TimelyNone, TimelyOne
<1>4. ASSUME NEW t \in Tasks, NEW g \in 1..MaxConnections + 1,
             NEW answer \in {"assignment.accepted", "assignment.delivery_failed"},
             FinishDelivery(t, g, answer)
      PROVE  TimelyMutation(todo')
  <2>1. \/ todo' = <<>>
        \/ todo' = <<TaskEvent(answer, t, "none")>> /\ run[t].assigned = conn[t]
    BY <1>4 DEF FinishDelivery, StartJob, Begin
  <2>2. run[t].assigned = conn[t] => Timely(TaskEvent(answer, t, "none"))
    BY DEF Timely, TaskEvent
  <2>. QED
    BY <2>1, <2>2, TimelyNone, TimelyOne
<1>5. ASSUME NEW q \in Questions, QuestionDeadline(q)
      PROVE  TimelyMutation(todo')
  BY <1>5, UntimedTimeOut, UntimedPending DEF QuestionDeadline, StartJob, Begin
<1>6. CASE ~StartAdvance
  <2>1. UNCHANGED <<durable, advance>>
    BY <1>6
    DEF Jobs, TaskDeadline, RecoveryTimeout, FinishDelivery, QuestionDeadline, StartJob
  <2>. QED
    BY <1>2, <1>3, <1>4, <1>5, <1>6, <2>1, QueueAgreement DEF Jobs
<1>. QED
  BY <1>1, <1>6

\* A stage visits a task.
LEMMA VisitAgreement ==
  ASSUME Inv, Agreement, NEW stage, NEW t \in Tasks, NEW events, Visit(stage, t, events),
         TimelyPass(events, adv'),
         adv' \in {"block", "expire", "blockAgain"} => adv' = adv
  PROVE  Agreement'
<1>1. UNCHANGED <<durable, todo>> /\ advTodo' = events /\ advSet' \subseteq advSet
  BY DEF Visit, Decide
<1>. QED
  BY <1>1, StageAgreement DEF Agreement, Unstarted

LEMMA AdvanceStepAgreement ==
  ASSUME Inv, Agreement, AdvanceStep
  PROVE  Agreement'
<1>1. ASSUME NEW t \in Tasks, Converge(t)
      PROVE  Agreement'
  <2>1. \/ Convergence(t) = <<>>
        \/ \E type \in {"run.state_changed", "run.result_recovery_requested",
                        "run.result_missing"} : \E to :
             Convergence(t) = <<TaskEvent(type, t, to)>> /\ Live(t)
    BY DEF Convergence
  <2>2. \A type \in {"run.state_changed", "run.result_recovery_requested",
                     "run.result_missing"} : \A to :
          Live(t) => /\ Timely(TaskEvent(type, t, to))
                     /\ TaskEvent(type, t, to).type # "run.created"
    BY DEF Timely, TaskEvent
  <2>3. TimelyPass(Convergence(t), adv')
    BY <2>1, <2>2, TimelyNone, TimelyOne
  <2>. QED
    BY <1>1, <2>3, VisitAgreement DEF Converge
<1>2. ASSUME NEW t \in Tasks, Block(t) \/ Expire(t)
      PROVE  Agreement'
  <2>1. Timely(TaskEvent("task.state_changed", t, "blocked"))
    BY DEF Timely, TaskEvent
  <2>2. Expire(t) => Timely(TaskEvent("task.state_changed", t, "timed_out"))
    <3>1. Expire(t) => adv = "expire" /\ t \in advSet
      BY DEF Expire, Visit, InStage
    <3>. QED
      BY <3>1 DEF Agreement, Unstarted, Timely, TaskEvent
  <2>3. \A to : TaskEvent("task.state_changed", t, to).type # "run.created"
    BY DEF TaskEvent
  <2>4. PICK stage, events :
          /\ Visit(stage, t, events) /\ adv' = adv
          /\ \/ events = <<>>
             \/ events = <<TaskEvent("task.state_changed", t, "blocked")>>
             \/ Expire(t) /\ events = <<TaskEvent("task.state_changed", t, "timed_out")>>
    BY <1>2 DEF Block, Expire
  <2>5. TimelyPass(events, adv')
    BY <2>1, <2>2, <2>3, <2>4, TimelyNone, TimelyOne
  <2>. QED
    BY <2>4, <2>5, VisitAgreement
<1>3. ASSUME NEW t \in Tasks, Admit(t)
      PROVE  Agreement'
  <2>1. CASE Visit("admit", t, <<>>) /\ adv' = adv
    BY <2>1, TimelyNone, VisitAgreement
  <2>2. CASE /\ Visit("admit", t, <<TaskEvent("run.created", t, "none"),
                                    TaskEvent("task.state_changed", t, "provisioning")>>)
             /\ adv' = "provision"
    <3> DEFINE created == TaskEvent("run.created", t, "none")
               changed == TaskEvent("task.state_changed", t, "provisioning")
    <3>1. /\ created.type = "run.created" /\ changed.type = "task.state_changed"
          /\ changed.to = "provisioning"
      BY DEF TaskEvent
    <3> HIDE DEF created, changed
    <3>2. DOMAIN <<created, changed>> = {1, 2}
      OBVIOUS
    <3>3. TimelyPass(<<created, changed>>, adv')
      BY <2>2, <3>1, <3>2 DEF TimelyPass, Conditional
    <3>. QED
      BY <2>2, <3>3, VisitAgreement DEF created, changed
  <2>. QED
    BY <1>3, <2>1, <2>2 DEF Admit
<1>4. ASSUME NEW outcome \in ProvisionOutcomes, ProvisionReturns(outcome)
      PROVE  Agreement'
  <2> DEFINE e == TaskEvent("run.state_changed", advTask, "failed")
  <2>1. /\ UNCHANGED <<durable, todo>> /\ adv' \in {"admit", "compensate"}
        /\ advTodo' \in {<<>>, <<e>>}
    BY <1>4 DEF ProvisionReturns, InStage, Provisioned, Decide
  <2>2. Timely(e) /\ e.type # "run.created"
    BY DEF Timely, TaskEvent
  <2>3. TimelyPass(advTodo', adv')
    BY <2>1, <2>2, TimelyNone, TimelyOne
  <2>. QED
    BY <2>1, <2>3, StageAgreement DEF Unstarted
<1>5. CASE PromptReturns
  <2>1. UNCHANGED <<durable, todo>> /\ adv' = "converge" /\ advTodo' = <<>>
    BY <1>5 DEF PromptReturns, InStage
  <2>. QED
    BY <2>1, TimelyNone, StageAgreement DEF Unstarted
<1>6. CASE NextStage
  <2>1. /\ UNCHANGED <<durable, todo>> /\ advTodo' = <<>>
        /\ adv' \in {"block", "expire", "blockAgain"} => advSet' \subseteq Queued
    BY <1>6 DEF NextStage, EnterStage, InStage
  <2>2. \A t \in Queued : run[t].state = "none"
    BY DEF Queued, Agreement, RunsAgree, Agreed
  <2>3. Unstarted(adv', advSet')
    BY <2>1, <2>2 DEF Unstarted
  <2>. QED
    BY <2>1, <2>3, TimelyNone, StageAgreement
<1>7. CASE FinishAdvance
  <2>1. /\ UNCHANGED <<durable, todo>> /\ adv' \in {"write", "off"}
        /\ advTodo' \in {<<>>, <<WorkflowEvent(advFan)>>}
    BY <1>7 DEF FinishAdvance, Decide, EndAdvance
  <2>2. Timely(WorkflowEvent(advFan)) /\ WorkflowEvent(advFan).type # "run.created"
    BY DEF Timely, WorkflowEvent
  <2>3. TimelyPass(advTodo', adv')
    BY <2>1, <2>2, TimelyNone, TimelyOne
  <2>. QED
    BY <2>1, <2>3, StageAgreement DEF Unstarted
<1>. QED
  BY <1>1, <1>2, <1>3, <1>4, <1>5, <1>6, <1>7 DEF AdvanceStep

-----------------------------------------------------------------------------
(* One step of the specification. *)

\* A step that makes no append, and one that makes an append for task t0.
OneTaskChanges ==
  \/ UNCHANGED <<task, run>>
  \/ \E t0 : \A t \in Tasks :
       Effect(t) /\ (t # t0 => task'[t] = task[t] /\ run'[t] = run[t])

LEMMA AppendAgreement ==
  ASSUME Inv, Agreement, Apart, AppendMutation \/ AppendAdvance
  PROVE  Agreement' /\ OneTaskChanges
<1>1. DurableType /\ todo \in Seq(Event) /\ advTodo \in Seq(Event)
  BY DEF Inv, TypeOK, MemoryType
<1>2. ASSUME NEW e \in Event, Reduce(e), \A t \in Tasks : Effect(t)
      PROVE  OneTaskChanges
  <2>1. \A t \in Tasks : t # e.task => task'[t] = task[t] /\ run'[t] = run[t]
    BY <1>1, <1>2, OtherTasks
  <2>. QED
    BY <1>2, <2>1 DEF OneTaskChanges
<1>3. ASSUME UNCHANGED durable, todo' \in {todo, <<>>}, advTodo' \in {advTodo, <<>>},
             \/ adv' = adv /\ advSet' = advSet
             \/ adv' \in {"off", "admit"} /\ advTodo' = <<>>
      PROVE  Agreement' /\ OneTaskChanges
  <2>1. TimelyMutation(todo') /\ TimelyPass(advTodo', adv')
    BY <1>3, TimelyNone DEF Agreement
  <2>2. UNCHANGED <<task, run>>
    BY <1>3 DEF durable
  <2>. QED
    BY <1>3, <2>1, <2>2, MemoryAgreement DEF Agreement, Unstarted, OneTaskChanges
<1>4. CASE AppendMutation /\ Accepts(Head(todo))
  <2>1. /\ todo # <<>> /\ Reduce(Head(todo)) /\ todo' = Tail(todo)
        /\ UNCHANGED <<advTodo, adv, advSet>>
    BY <1>4 DEF AppendMutation, advance
  <2>2. Head(todo) \in Event
    BY <1>1, <2>1
  <2>. QED
    BY <1>2, <1>4, <2>1, <2>2, MutationAgreement
<1>5. CASE AppendMutation /\ ~Accepts(Head(todo))
  <2>1. CASE LoseMemory /\ UNCHANGED durable
    <3>1. UNCHANGED durable /\ todo' = <<>> /\ advTodo' = <<>> /\ adv' = "off"
      BY <2>1 DEF LoseMemory
    <3>. QED
      BY <1>3, <3>1
  <2>2. CASE todo' = <<>> /\ UNCHANGED <<durable, advance>>
    <3>1. UNCHANGED durable /\ todo' = <<>> /\ advTodo' = advTodo /\ adv' = adv /\ advSet' = advSet
      BY <2>2 DEF advance
    <3>. QED
      BY <1>3, <3>1
  <2>. QED
    BY <1>5, <2>1, <2>2 DEF AppendMutation
<1>6. CASE AppendAdvance /\ Appended
  <2>1. /\ advTodo # <<>> /\ Accepts(Head(advTodo)) /\ Reduce(Head(advTodo))
        /\ advTodo' \in {Tail(advTodo), <<>>} /\ todo' = todo
        /\ adv' \in {"block", "expire", "blockAgain"} => adv' = adv /\ advSet' = advSet
    BY <1>6 DEF AppendAdvance, Appended, EndAdvance, Provisioned
  <2>2. Head(advTodo) \in Event
    BY <1>1, <2>1
  <2>. QED
    BY <1>2, <2>1, <2>2, PassAgreement
<1>7. CASE AppendAdvance /\ Rejected
  <2>1. CASE LoseMemory
    BY <1>3, <1>7, <2>1 DEF Rejected, LoseMemory
  <2>2. CASE EndAdvance /\ UNCHANGED todo
    BY <1>3, <1>7, <2>2 DEF Rejected, EndAdvance
  <2>3. CASE Provisioned /\ advTodo' = <<>> /\ UNCHANGED todo
    BY <1>3, <1>7, <2>3 DEF Rejected, Provisioned
  <2>. QED
    BY <1>7, <2>1, <2>2, <2>3 DEF Rejected
<1>. QED
  BY <1>4, <1>5, <1>6, <1>7 DEF AppendAdvance

LEMMA NextAgreement ==
  ASSUME Inv, Agreement, Apart, [Next]_vars
  PROVE  Agreement' /\ OneTaskChanges
<1>1. CASE AppendMutation \/ AppendAdvance
  BY <1>1, AppendAgreement
<1>2. CASE Requests \/ Jobs \/ AdvanceStep
  <2>1. Agreement'
    BY <1>2, RequestAgreement, JobAgreement, AdvanceStepAgreement
  <2>2. UNCHANGED durable
    <3>1. CASE Requests
      BY <3>1
      DEF Requests, Register, TurnStart, AgentSettled, CancelTask, PublishResult, OpenQuestion,
          AnswerQuestion, RequestQuestionTimeout, CancelWorkflow, Request
    <3>2. CASE Jobs
      BY <3>2
      DEF Jobs, TaskDeadline, RecoveryTimeout, FinishDelivery, QuestionDeadline, StartJob,
          StartAdvance
    <3>3. CASE AdvanceStep
      BY <3>3
      DEF AdvanceStep, Converge, Block, Expire, Admit, Visit, ProvisionReturns, PromptReturns,
          NextStage, EnterStage, FinishAdvance
    <3>. QED
      BY <1>2, <3>1, <3>2, <3>3
  <2>. QED
    BY <2>1, <2>2 DEF OneTaskChanges, durable
<1>3. ASSUME UNCHANGED durable, todo' \in {todo, <<>>},
             \/ UNCHANGED advance
             \/ adv' = "off" /\ advTodo' = <<>>
             \/ adv = "off" /\ adv' = "converge" /\ UNCHANGED advTodo
      PROVE  Agreement' /\ OneTaskChanges
  <2>1. TimelyMutation(todo') /\ TimelyPass(advTodo', adv')
    BY <1>3, TimelyNone DEF Agreement, TimelyPass, advance
  <2>2. UNCHANGED <<task, run>> /\ UNCHANGED run
    BY <1>3 DEF durable
  <2>3. Unstarted(adv', advSet')
    BY <1>3 DEF Agreement, Unstarted, advance
  <2>. QED
    BY <1>3, <2>1, <2>2, <2>3, MemoryAgreement DEF OneTaskChanges
<1>4. CASE Crash
  BY <1>3, <1>4 DEF Crash, LoseMemory
<1>5. CASE Restart \/ FinishRecovery \/ \E item \in Deadlines : DeadlinePasses(item)
  BY <1>3, <1>5 DEF Restart, FinishRecovery, BeginAdvance, DeadlinePasses
<1>6. CASE UNCHANGED vars
  BY <1>3, <1>6 DEF vars
<1>. QED
  BY <1>1, <1>2, <1>4, <1>5, <1>6 DEF Next

LEMMA InitAgreement == Init => Agreement
  BY TimelyNone DEF Init, Agreement, RunsAgree, Agreed, NoRun, Unstarted, Terminal

\* A change of one task is a step of its contract.
LEMMA ContractStep ==
  ASSUME Inv, Inv', OneTaskChanges
  PROVE  [Contract!Next]_<<Outcomes, [t \in Tasks |-> run[t].result]>>
<1> DEFINE results == [t \in Tasks |-> run[t].result]
<1>1. /\ Outcomes = [t \in Tasks |-> OutcomeOf(task[t], run[t])]
      /\ Outcomes' = [t \in Tasks |-> OutcomeOf(task'[t], run'[t])]
  BY DEF Outcomes, OutcomeOf
<1>2. CASE UNCHANGED <<task, run>>
  BY <1>1, <1>2
<1>3. ASSUME NEW t0, \A t \in Tasks :
               Effect(t) /\ (t # t0 => task'[t] = task[t] /\ run'[t] = run[t])
      PROVE  [Contract!Next]_<<Outcomes, results>>
  <2>1. CASE t0 \notin Tasks
    <3>1. Outcomes' = Outcomes /\ results' = results
      BY <1>1, <1>3, <2>1
    <3>. QED
      BY <3>1
  <2>2. CASE t0 \in Tasks
    <3>1. Fulfils(task[t0], run[t0], task'[t0], run'[t0])
      BY <1>3, <2>2 DEF Effect
    <3>2. \A t \in Tasks : t # t0 => Outcomes'[t] = Outcomes[t] /\ results'[t] = results[t]
      BY <1>1, <1>3
    <3>3. /\ Outcomes[t0] = OutcomeOf(task[t0], run[t0])
          /\ Outcomes'[t0] = OutcomeOf(task'[t0], run'[t0])
          /\ results[t0] = run[t0].result /\ results'[t0] = run'[t0].result
      BY <1>1, <2>2
    <3>4. /\ Outcomes = [t \in Tasks |-> Outcomes[t]] /\ Outcomes' = [t \in Tasks |-> Outcomes'[t]]
          /\ results = [t \in Tasks |-> results[t]] /\ results' = [t \in Tasks |-> results'[t]]
      BY <1>1
    <3> HIDE DEF results
    <3>5. CASE Outcomes'[t0] = Outcomes[t0] /\ results'[t0] = results[t0]
      <4>1. Outcomes' = Outcomes /\ results' = results
        BY <3>2, <3>4, <3>5
      <4>. QED
        BY <4>1
    <3>6. CASE /\ Outcomes[t0] = "open" /\ Outcomes'[t0] = "open" /\ results[t0] = "none"
               /\ results'[t0] \in ResultStatus
      <4>1. Outcomes' = Outcomes
        BY <3>2, <3>4, <3>6
      <4>2. results' = [results EXCEPT ![t0] = results'[t0]]
        BY <3>2, <3>4
      <4>3. PICK s \in ResultStatus : s = results'[t0]
        BY <3>6
      <4>4. Contract!AcceptResult(t0, s)
        BY <3>6, <4>1, <4>2, <4>3 DEF Contract!AcceptResult, results
      <4>5. Contract!Next
        BY <2>2, <4>4 DEF Contract!Next
      <4>. QED
        BY <4>5
    <3>7. CASE /\ Outcomes[t0] = "open" /\ Outcomes'[t0] \in Contract!Outcome
               /\ Outcomes'[t0] = "succeeded" => results[t0] = "succeeded"
               /\ Outcomes'[t0] = "result_missing" => results[t0] = "none"
               /\ results'[t0] = results[t0]
      <4>1. results' = results
        BY <3>2, <3>4, <3>7
      <4>2. Outcomes' = [Outcomes EXCEPT ![t0] = Outcomes'[t0]]
        BY <3>2, <3>4
      <4>3. Contract!End(t0, Outcomes'[t0])
        BY <3>7, <4>1, <4>2 DEF Contract!End, results
      <4>4. Contract!Next
        BY <2>2, <3>7, <4>3 DEF Contract!Next
      <4>. QED
        BY <4>4
    <3>. QED
      BY <3>1, <3>3, <3>5, <3>6, <3>7 DEF Fulfils
  <2>. QED
    BY <2>1, <2>2
<1>. QED
  BY <1>2, <1>3 DEF OneTaskChanges

-----------------------------------------------------------------------------
(* The theorems: what holds while the appends for a task are apart. *)

\* The task and its run agree, up to the appends that are pending for them.
THEOREM AgreementInvariance == Spec /\ []Apart => []Agreement
<1>1. Inv /\ Agreement /\ Apart /\ [Next]_vars => Agreement'
  BY NextAgreement
<1>. QED
  BY <1>1, InitAgreement, Invariance, PTL DEF Spec

\* The task and its run end together and in the same way.
THEOREM AgreementSafety == Spec /\ []Apart => []TaskRunAgree
<1>1. Agreement => TaskRunAgree
  BY DEF Agreement, RunsAgree, Agreed, TaskRunAgree
<1>. QED
  BY <1>1, AgreementInvariance, PTL

\* A live run counts as delivered only to the connection its agent has now.
THEOREM DeliverySafety == Spec /\ []Apart => []AcceptedOnCurrentConnection
<1>1. Agreement => AcceptedOnCurrentConnection
  BY DEF Agreement, RunsAgree, Agreed, AcceptedOnCurrentConnection, Live
<1>. QED
  BY <1>1, AgreementInvariance, PTL

\* A run that ended has ended for good (INV-02).
THEOREM RunFinality == Spec /\ []Apart => TerminalRunIsFinal
<1>1. ASSUME Inv, Agreement, Apart, [Next]_vars
      PROVE  \A t \in Tasks : run[t].state \in Terminal => run'[t].state = run[t].state
  BY <1>1, NextAgreement DEF OneTaskChanges, Effect, Final
<1>. QED
  BY <1>1, Invariance, AgreementInvariance, PTL DEF Spec, TerminalRunIsFinal

\* A cancelled task stays cancelled, and so does its run (INV-12).
THEOREM CancellationFinality == Spec /\ []Apart => CancellationIsFinal
<1>1. ASSUME Inv, Agreement, Apart, [Next]_vars
      PROVE  \A t \in Tasks : task[t] = "cancelled" /\ run[t].state \in {"none", "cancelled"} =>
               task'[t] = "cancelled" /\ run'[t].state \in {"none", "cancelled"}
  BY <1>1, NextAgreement DEF OneTaskChanges, Effect, Final
<1>. QED
  BY <1>1, Invariance, AgreementInvariance, PTL DEF Spec, CancellationIsFinal

\* The broker implements the contract of a task.
THEOREM ContractKept == Spec /\ []Apart => KeepsContract
<1>1. Init => Contract!Init
  BY DEF Init, Contract!Init, Outcomes, NoRun, Terminal
<1>2. Inv /\ Agreement /\ Apart /\ [Next]_vars =>
        [Contract!Next]_<<Outcomes, [t \in Tasks |-> run[t].result]>>
  BY NextInv, NextAgreement, ContractStep
<1>. QED
  BY <1>1, <1>2, Invariance, AgreementInvariance, PTL DEF Spec, KeepsContract, Contract!Spec

-----------------------------------------------------------------------------
(* When the appends are apart.  A pass runs outside the queue after a failed *)
(* provisioning and at startup.  If Herdr provisions every agent, only       *)
(* startup is left; there no client is served, so that nothing but deadlines *)
(* and the recovery timers the pass has armed itself run beside it.          *)

Undisturbed == ProvisionOutcomes \subseteq {"ok"} /\ (MaxCrashes = 0 \/ Deadlines = {})

\* A pass holds the queue, or start() makes it.
PassAlone ==
  /\ adv # "compensate" /\ CompensateJob \notin jobs \union onCommit
  /\ adv = "off" => advTodo = <<>>
  /\ adv # "off" => phase = "advance" \/ (phase = "up" /\ advOwns /\ todo = <<>>)
  /\ phase = "advance" => adv # "off"
  /\ todo = <<>> => onCommit = {}
  /\ due \subseteq Deadlines
  /\ MaxCrashes = 0 => phase = "up"

\* The pass that start() makes has done with the runs of which a recovery timer is armed.
Converged(t) ==
  run[t].state # "none" /\ ~About(advTodo, t) /\ (adv \in {"converge", "prompt"} => t \notin advSet)

StartPass ==
  /\ \A t \in Tasks : RecoveryJob(t) \in jobs \/ About(todo, t) => Converged(t)
  /\ onCommit \subseteq {AdvanceJob} /\ \A j \in jobs : j.kind # "deliver"
  /\ \A i \in DOMAIN advTodo : advTodo[i].type = "run.result_recovery_requested" =>
       /\ adv = "converge" /\ advTodo[i].task \in Tasks \ advSet
       /\ run[advTodo[i].task].state # "none"
  /\ adv = "prompt" => advTask \in Tasks \ advSet /\ run[advTask].state # "none"

Alone == PassAlone /\ (phase = "advance" => StartPass)

LEMMA AloneApart ==
  ASSUME Inv, Alone
  PROVE  Apart
<1>1. CASE advTodo = <<>> \/ todo = <<>>
  BY <1>1 DEF Apart, About
<1>2. CASE phase = "advance"
  BY <1>2 DEF Alone, StartPass, Converged, Apart
<1>. QED
  BY <1>1, <1>2 DEF Alone, PassAlone

\* The jobs differ in their kind.
LEMMA JobKinds ==
  /\ AdvanceJob.kind = "advance" /\ CompensateJob.kind = "compensate"
  /\ \A t : /\ RecoveryJob(t).kind = "recovery" /\ RecoveryJob(t).item = t
            /\ DeadlineJob(t).kind = "deadline"
            /\ QuestionJob(t).kind = "question"
            /\ \A g : DeliverJob(t, g).kind = "deliver"
  /\ \A j \in OpenTimers : j.kind \in {"deadline", "question"}
<1>1. /\ AdvanceJob.kind = "advance" /\ CompensateJob.kind = "compensate"
      /\ \A t : /\ RecoveryJob(t).kind = "recovery" /\ RecoveryJob(t).item = t
                /\ DeadlineJob(t).kind = "deadline"
                /\ QuestionJob(t).kind = "question"
                /\ \A g : DeliverJob(t, g).kind = "deliver"
  BY DEF AdvanceJob, CompensateJob, RecoveryJob, DeadlineJob, DeliverJob, QuestionJob
<1>. QED
  BY <1>1 DEF OpenTimers

LEMMA InitAlone == Init => Alone
  BY JobKinds DEF Init, Alone, PassAlone

LEMMA RequestAlone ==
  ASSUME Alone, Requests
  PROVE  Alone'
<1>1. Idle /\ phase = "up" /\ UNCHANGED <<phase, jobs, advance, due>>
  BY DEF Requests, Register, TurnStart, AgentSettled, CancelTask, PublishResult, OpenQuestion,
         AnswerQuestion, RequestQuestionTimeout, CancelWorkflow, Request
<1>2. todo' = <<>> => onCommit' = {}
  BY DEF Requests, Register, TurnStart, AgentSettled, CancelTask, PublishResult, OpenQuestion,
         AnswerQuestion, RequestQuestionTimeout, CancelWorkflow, Request, Begin
<1>3. CompensateJob \notin onCommit'
  <2>1. \/ onCommit' \in {{}, {AdvanceJob}}
        \/ \E t, g : onCommit' = {DeliverJob(t, g)}
        \/ \E q : onCommit' = {QuestionJob(q)}
    BY DEF Requests, Register, TurnStart, AgentSettled, CancelTask, PublishResult, OpenQuestion,
           AnswerQuestion, RequestQuestionTimeout, CancelWorkflow, Request, Begin
  <2>. QED
    BY <2>1, JobKinds
<1>4. adv = "off"
  BY <1>1 DEF Idle, Alone, PassAlone
<1>. QED
  BY <1>1, <1>2, <1>3, <1>4 DEF Alone, PassAlone, advance

LEMMA JobAlone ==
  ASSUME Inv, Alone, Undisturbed, Jobs
  PROVE  Alone'
<1>1. CASE StartAdvance
  <2>1. /\ AdvanceJob \in jobs /\ Idle /\ BeginAdvance(TRUE) /\ jobs' = jobs \ {AdvanceJob}
        /\ UNCHANGED <<phase, todo, onCommit, due>>
    BY <1>1 DEF StartAdvance, Alone, PassAlone
  <2>2. phase = "up" /\ todo = <<>> /\ adv = "off"
    BY <2>1 DEF Idle, Running, BeginAdvance, Alone, PassAlone
  <2>3. adv' = "converge" /\ advOwns' = TRUE /\ advTodo' = advTodo
    BY <2>1 DEF BeginAdvance
  <2>. QED
    BY <2>1, <2>2, <2>3 DEF Alone, PassAlone
<1>2. ASSUME NEW job, NEW events, NEW deferred, StartJob(job, events, deferred),
             CompensateJob \notin deferred
      PROVE  PassAlone'
  <2>1. /\ Begin(events, deferred) /\ jobs' = jobs \ {job}
        /\ UNCHANGED <<phase, advance, due>>
        /\ adv = "off" \/ phase = "advance"
    BY <1>2 DEF StartJob, Idle, Alone, PassAlone
  <2>2. CompensateJob \notin onCommit' /\ (todo' = <<>> => onCommit' = {})
    BY <1>2, <2>1 DEF Begin
  <2>. QED
    BY <2>1, <2>2 DEF Alone, PassAlone, advance
<1>3. ASSUME NEW t \in Tasks, RecoveryTimeout(t)
      PROVE  Alone'
  <2>1. PassAlone'
    BY <1>2, <1>3, JobKinds DEF RecoveryTimeout
  <2>2. /\ RecoveryJob(t) \in jobs /\ jobs' \subseteq jobs /\ onCommit' \subseteq {AdvanceJob}
        /\ todo' \in {<<>>, <<TaskEvent("run.result_missing", t, "none")>>}
        /\ UNCHANGED <<durable, phase, advance>>
    BY <1>3 DEF RecoveryTimeout, StartJob, Begin
  <2>3. \A u : About(todo', u) => u = t
    BY <2>2 DEF About, TaskEvent
  <2>4. run' = run /\ advTodo' = advTodo /\ adv' = adv /\ advSet' = advSet /\ advTask' = advTask
    BY <2>2 DEF durable, advance
  <2>5. \A u \in Tasks : Converged(u) => Converged(u)'
    BY <2>4 DEF Converged, About
  <2>6. phase = "advance" => StartPass'
    BY <1>3, <2>2, <2>3, <2>4, <2>5 DEF Alone, StartPass, About
  <2>. QED
    BY <2>1, <2>2, <2>6 DEF Alone
<1>4. ASSUME NEW t \in Tasks, TaskDeadline(t)
      PROVE  Alone'
  <2>1. PassAlone' /\ t \in due /\ phase' = phase
    BY <1>2, <1>4 DEF TaskDeadline, StartJob
  <2>. QED
    BY <2>1 DEF Alone, PassAlone, Undisturbed
<1>5. ASSUME NEW q \in Questions, QuestionDeadline(q)
      PROVE  Alone'
  <2>1. PassAlone' /\ q \in due /\ phase' = phase
    BY <1>2, <1>5 DEF QuestionDeadline, StartJob
  <2>. QED
    BY <2>1 DEF Alone, PassAlone, Undisturbed
<1>6. ASSUME NEW t \in Tasks, NEW g, NEW answer, FinishDelivery(t, g, answer)
      PROVE  Alone'
  <2>1. PassAlone' /\ DeliverJob(t, g) \in jobs /\ phase' = phase
    BY <1>2, <1>6 DEF FinishDelivery, StartJob
  <2>. QED
    BY <2>1, JobKinds DEF Alone, StartPass
<1>. QED
  BY <1>1, <1>3, <1>4, <1>5, <1>6 DEF Jobs

\* What is done with stays done with while its run has a state and the pass goes on.
LEMMA ConvergedLater ==
  ASSUME NEW t \in Tasks, Converged(t), run'[t].state # "none",
         About(advTodo', t) => About(advTodo, t),
         adv' \in {"converge", "prompt"} =>
           adv \in {"converge", "prompt"} /\ advSet' \subseteq advSet
  PROVE  Converged(t)'
  BY DEF Converged, About

LEMMA AppendMutationAlone ==
  ASSUME Inv, Agreement, Alone, AppendMutation
  PROVE  Alone'
<1>1. todo \in Seq(Event) /\ todo # <<>> /\ due' = due
  BY DEF AppendMutation, Inv, TypeOK, MemoryType
<1>2. adv = "off" \/ phase = "advance"
  BY <1>1 DEF Alone, PassAlone
<1>3. CASE Accepts(Head(todo))
  <2>1. /\ Reduce(Head(todo)) /\ todo' = Tail(todo) /\ phase' = phase /\ UNCHANGED advance
        /\ jobs' \subseteq jobs \union onCommit /\ onCommit' \subseteq onCommit
        /\ Len(todo) = 1 => onCommit' = {}
    BY <1>3 DEF AppendMutation
  <2>2. todo' = <<>> => onCommit' = {}
    <3>1. todo' = <<>> => Len(todo) = 1
      <4>1. Len(Tail(todo)) = Len(todo) - 1 /\ Len(todo) \in Nat /\ Len(<<>>) = 0
        BY <1>1
      <4>2. todo' = <<>> => Len(Tail(todo)) = 0
        BY <2>1, <4>1
      <4>. QED
        BY <4>1, <4>2
    <3>. QED
      BY <2>1, <3>1
  <2>3. UNCHANGED <<adv, advOwns, advSet, advTodo, advTask>>
    BY <2>1 DEF advance
  <2>4. PassAlone'
    BY <1>1, <1>2, <2>1, <2>2, <2>3 DEF Alone, PassAlone
  <2>5. \A t \in Tasks : run[t].state # "none" => run'[t].state # "none"
    BY <1>1, <1>3, <2>1, <2>3, MutationAppended DEF TaskEffect
  <2>6. \A t : About(todo', t) => About(todo, t)
    BY <1>1, <2>1 DEF About
  <2>7. ASSUME phase = "advance"
        PROVE  StartPass'
    <3>1. /\ \A t \in Tasks : RecoveryJob(t) \in jobs \/ About(todo, t) => Converged(t)
          /\ onCommit \subseteq {AdvanceJob} /\ \A j \in jobs : j.kind # "deliver"
          /\ \A i \in DOMAIN advTodo : advTodo[i].type = "run.result_recovery_requested" =>
               /\ adv = "converge" /\ advTodo[i].task \in Tasks \ advSet
               /\ run[advTodo[i].task].state # "none"
          /\ adv = "prompt" => advTask \in Tasks \ advSet /\ run[advTask].state # "none"
      BY <2>7 DEF Alone, StartPass
    <3>2. onCommit' \subseteq {AdvanceJob} /\ \A j \in jobs' : j.kind # "deliver"
      BY <2>1, <3>1, JobKinds
    <3>3. \A t \in Tasks : RecoveryJob(t) \in jobs' => RecoveryJob(t) \in jobs
      BY <2>1, <3>1, JobKinds
    <3>4. \A t \in Tasks : RecoveryJob(t) \in jobs' \/ About(todo', t) => Converged(t)
      BY <2>6, <3>1, <3>3
    <3>5. \A t \in Tasks : Converged(t) => Converged(t)'
      BY <2>3, <2>5 DEF Converged, About
    <3>6. \A t \in Tasks : RecoveryJob(t) \in jobs' \/ About(todo, t)' => Converged(t)'
      BY <3>4, <3>5 DEF About
    <3>. QED
      BY <2>3, <2>5, <3>1, <3>2, <3>6 DEF StartPass, RecoveryJob, AdvanceJob
  <2>. QED
    BY <2>1, <2>4, <2>7 DEF Alone
<1>4. CASE ~Accepts(Head(todo)) /\ phase = "recover"
  BY <1>1, <1>4 DEF AppendMutation, LoseMemory, Alone, PassAlone
<1>5. CASE ~Accepts(Head(todo)) /\ phase # "recover"
  <2>1. /\ todo' = <<>> /\ onCommit' = {} /\ UNCHANGED <<phase, jobs, advance, durable>>
    BY <1>5 DEF AppendMutation
  <2>2. PassAlone'
    BY <1>1, <1>2, <2>1 DEF Alone, PassAlone, advance
  <2>3. \A t \in Tasks : Converged(t) => Converged(t)'
    BY <2>1 DEF Converged, About, advance, durable
  <2>4. phase = "advance" => StartPass'
    BY <2>1, <2>3 DEF Alone, StartPass, About, advance, durable, RecoveryJob
  <2>. QED
    BY <2>1, <2>2, <2>4 DEF Alone
<1>. QED
  BY <1>3, <1>4, <1>5

LEMMA AppendAdvanceAlone ==
  ASSUME Inv, Agreement, Alone, AppendAdvance
  PROVE  Alone'
<1>1. advTodo \in Seq(Event) /\ advTodo # <<>> /\ due' = due /\ adv # "off" /\ adv # "compensate"
  BY DEF AppendAdvance, Inv, TypeOK, MemoryType, Alone, PassAlone
<1>2. CASE EndAdvance /\ phase' \in {"up", phase} /\ phase' # "advance"
           /\ UNCHANGED <<jobs, todo, onCommit>>
  BY <1>1, <1>2 DEF EndAdvance, Alone, PassAlone
<1>3. CASE Appended /\ adv = "write"
  <2>1. EndAdvance /\ LeaveStart /\ UNCHANGED <<jobs, todo, onCommit>>
    BY <1>3 DEF Appended
  <2>. QED
    BY <1>2, <2>1 DEF LeaveStart
<1>4. CASE Appended /\ adv # "write"
  <2> DEFINE e == Head(advTodo)
  <2>1. /\ Accepts(e) /\ Reduce(e) /\ advTodo' = Tail(advTodo)
        /\ UNCHANGED <<phase, advOwns, advSet, jobs, todo, onCommit>>
        /\ \/ e.type = "run.result_recovery_requested" /\ adv' = "prompt" /\ advTask' = e.task
           \/ adv' = adv /\ advTask' = advTask
    BY <1>1, <1>4 DEF Appended
  <2>2. PassAlone'
    BY <1>1, <2>1 DEF Alone, PassAlone
  <2>3. \A t \in Tasks : run[t].state # "none" => run'[t].state # "none"
    BY <1>1, <2>1, PassAppended DEF TaskEffect
  <2>4. 1 \in DOMAIN advTodo /\ e = advTodo[1]
    BY <1>1
  <2>5. \A i \in DOMAIN advTodo' : i + 1 \in DOMAIN advTodo /\ advTodo'[i] = advTodo[i + 1]
    BY <1>1, <2>1
  <2>6. \A t : About(advTodo', t) => About(advTodo, t)
    BY <2>5 DEF About
  <2>7. ASSUME phase = "advance"
        PROVE  StartPass'
    <3>1. /\ \A t \in Tasks : RecoveryJob(t) \in jobs \/ About(todo, t) => Converged(t)
          /\ onCommit \subseteq {AdvanceJob} /\ \A j \in jobs : j.kind # "deliver"
          /\ \A i \in DOMAIN advTodo : advTodo[i].type = "run.result_recovery_requested" =>
               /\ adv = "converge" /\ advTodo[i].task \in Tasks \ advSet
               /\ run[advTodo[i].task].state # "none"
          /\ adv = "prompt" => advTask \in Tasks \ advSet /\ run[advTask].state # "none"
      BY <2>7 DEF Alone, StartPass
    <3>2. adv' \in {"converge", "prompt"} => adv \in {"converge", "prompt"}
      BY <2>1, <2>4, <3>1
    <3>3. ASSUME NEW t \in Tasks, Converged(t)
          PROVE  Converged(t)'
      <4>1. run'[t].state # "none" /\ (About(advTodo', t) => About(advTodo, t))
        BY <2>3, <2>6, <3>3 DEF Converged
      <4>. QED
        BY <2>1, <3>2, <3>3, <4>1, ConvergedLater
    <3>4. \A i \in DOMAIN advTodo' : advTodo'[i].type # "run.result_recovery_requested"
      <4>1. ASSUME NEW i \in DOMAIN advTodo', advTodo'[i].type = "run.result_recovery_requested"
            PROVE  FALSE
        <5>1. i \in Nat /\ i + 1 \in DOMAIN advTodo /\ i + 1 # 1
          BY <1>1, <2>1, <2>5
        <5>2. advTodo[i + 1].type = "run.result_recovery_requested"
          BY <2>5, <4>1
        <5>. QED
          BY <5>1, <5>2 DEF Agreement, TimelyPass, Conditional
      <4>. QED
        BY <4>1
    <3>5. adv' = "prompt" => advTask' \in Tasks \ advSet' /\ run'[advTask'].state # "none"
      BY <2>1, <2>3, <2>4, <3>1
    <3>6. \A t \in Tasks : RecoveryJob(t)' \in jobs' \/ About(todo, t)' => Converged(t)'
      BY <2>1, <3>1, <3>3 DEF About, RecoveryJob
    <3>. QED
      BY <2>1, <3>1, <3>4, <3>5, <3>6 DEF StartPass, AdvanceJob
  <2>. QED
    BY <2>1, <2>2, <2>7 DEF Alone
<1>5. CASE Rejected
  <2>1. CASE LoseMemory /\ phase = "advance"
    BY <1>1, <2>1 DEF LoseMemory, Alone, PassAlone
  <2>2. CASE EndAdvance /\ phase # "advance" /\ UNCHANGED <<phase, jobs, todo, onCommit>>
    BY <1>2, <2>2
  <2>. QED
    BY <1>1, <1>5, <2>1, <2>2 DEF Rejected
<1>. QED
  BY <1>3, <1>4, <1>5 DEF AppendAdvance

\* A stage decides on events; the rest of the state of an undisturbed pass is as it was.
LEMMA StageAlone ==
  ASSUME Alone, UNCHANGED <<durable, phase, todo, onCommit, advOwns, due>>,
         adv \notin {"off"}, adv' \notin {"off", "compensate"},
         CompensateJob \in jobs' => CompensateJob \in jobs,
         phase = "advance" => StartPass'
  PROVE  Alone'
  BY DEF Alone, PassAlone

\* The pass visits t and decides on events about t.
LEMMA VisitAlone ==
  ASSUME Alone, NEW t \in Tasks, NEW stage, NEW events, Visit(stage, t, events),
         stage # "prompt", adv # "off", adv' \notin {"off", "prompt", "compensate"},
         stage # "converge" =>
           adv' # "converge" /\ jobs' \subseteq jobs /\ (run[t].state = "none" \/ events = <<>>),
         \A i \in DOMAIN events :
           /\ events[i].task = t
           /\ events[i].type = "run.result_recovery_requested" =>
                adv' = "converge" /\ run[t].state # "none",
         \/ jobs' \subseteq jobs
         \/ jobs' = jobs \union {RecoveryJob(t)} /\ events = <<>> /\ run[t].state # "none"
  PROVE  Alone'
<1>1. /\ UNCHANGED durable /\ run' = run /\ adv = stage /\ t \in advSet /\ advSet' = advSet \ {t}
      /\ advTodo' = events /\ UNCHANGED <<phase, todo, onCommit, advOwns, due>>
  BY DEF Visit, InStage, Decide, durable
<1>2. CompensateJob \in jobs' => CompensateJob \in jobs
  BY JobKinds
<1>3. \A u : About(events, u) => u = t
  BY DEF About
<1>4. ASSUME phase = "advance", NEW u \in Tasks, RecoveryJob(u) \in jobs' \/ About(todo, u)
      PROVE  Converged(u)'
  <2>1. CASE Converged(u)
    <3>1. run[u].state # "none" /\ (adv = "converge" => u # t)
      BY <1>1, <2>1 DEF Converged
    <3>2. ~About(events, u)
      BY <1>1, <1>3, <3>1 DEF About
    <3>. QED
      BY <1>1, <2>1, <3>1, <3>2 DEF Converged
  <2>2. CASE ~Converged(u)
    <3>1. RecoveryJob(u) \in jobs' \ jobs
      BY <1>4, <2>2 DEF Alone, StartPass
    <3>2. u = t /\ events = <<>> /\ run[t].state # "none"
      BY <3>1, JobKinds
    <3>3. ~About(events, u) /\ u \notin advSet'
      BY <1>1, <3>2 DEF About
    <3>. QED
      BY <1>1, <3>2, <3>3 DEF Converged
  <2>. QED
    BY <2>1, <2>2
<1>5. \A j \in jobs' : j \in jobs \/ j.kind = "recovery"
  BY JobKinds
<1>6. phase = "advance" => StartPass'
  <2>1. ASSUME phase = "advance"
        PROVE  /\ onCommit' \subseteq {AdvanceJob} /\ \A j \in jobs' : j.kind # "deliver"
               /\ \A i \in DOMAIN advTodo' :
                    advTodo'[i].type = "run.result_recovery_requested" =>
                      /\ adv' = "converge" /\ advTodo'[i].task \in Tasks \ advSet'
                      /\ run'[advTodo'[i].task].state # "none"
    BY <1>1, <1>5, <2>1 DEF Alone, StartPass
  <2>2. ASSUME phase = "advance"
        PROVE  \A u \in Tasks : RecoveryJob(u) \in jobs' \/ About(todo', u) => Converged(u)'
    BY <1>1, <1>4, <2>2
  <2>. QED
    BY <2>1, <2>2 DEF StartPass, RecoveryJob, AdvanceJob, About
<1>. QED
  BY <1>1, <1>2, <1>6, StageAlone

LEMMA AdvanceStepAlone ==
  ASSUME Inv, Agreement, Alone, Undisturbed, AdvanceStep
  PROVE  Alone'
<1>1. ASSUME NEW t \in Tasks, Converge(t)
      PROVE  Alone'
  <2>1. /\ Visit("converge", t, Convergence(t)) /\ adv = "converge" /\ adv' = "converge"
        /\ jobs' = IF AwaitsRecovery(t) THEN jobs \union {RecoveryJob(t)} ELSE jobs
    BY <1>1 DEF Converge, Visit, InStage
  <2>2. AwaitsRecovery(t) => Convergence(t) = <<>> /\ run[t].state # "none"
    BY DEF AwaitsRecovery, Convergence, Live
  <2>3. \A i \in DOMAIN Convergence(t) : Convergence(t)[i].task = t /\ run[t].state # "none"
    BY DEF Convergence, TaskEvent, Live
  <2>4. \/ jobs' \subseteq jobs
        \/ jobs' = jobs \union {RecoveryJob(t)} /\ Convergence(t) = <<>> /\ run[t].state # "none"
    BY <2>1, <2>2
  <2> DEFINE events == Convergence(t)
  <2>5. Visit("converge", t, events) /\ \A i \in DOMAIN events :
          events[i].task = t /\ run[t].state # "none"
    BY <2>1, <2>3
  <2>6. \/ jobs' \subseteq jobs
        \/ jobs' = jobs \union {RecoveryJob(t)} /\ events = <<>> /\ run[t].state # "none"
    BY <2>4
  <2> HIDE DEF events
  <2>. QED
    BY <2>1, <2>5, <2>6, VisitAlone
<1>2. ASSUME NEW t \in Tasks, Block(t) \/ Expire(t)
      PROVE  Alone'
  <2>1. PICK stage \in {"block", "blockAgain", "expire"},
             events \in {<<>>, <<TaskEvent("task.state_changed", t, "blocked")>>,
                        <<TaskEvent("task.state_changed", t, "timed_out")>>} :
          Visit(stage, t, events)
    BY <1>2 DEF Block, Expire
  <2>2. adv' = adv /\ jobs' \subseteq jobs
    BY <1>2 DEF Block, Expire
  <2>3. adv = stage /\ t \in advSet
    BY <2>1 DEF Visit, InStage
  <2>4. run[t].state = "none"
    BY <2>1, <2>3 DEF Agreement, Unstarted
  <2>5. \A i \in DOMAIN events :
          events[i].task = t /\ events[i].type # "run.result_recovery_requested"
    BY DEF TaskEvent
  <2>. QED
    BY <2>1, <2>2, <2>3, <2>4, <2>5, VisitAlone
<1>3. ASSUME NEW t \in Tasks, Admit(t)
      PROVE  Alone'
  <2> DEFINE admitted == <<TaskEvent("run.created", t, "none"),
                           TaskEvent("task.state_changed", t, "provisioning")>>
  <2>1. \A i \in DOMAIN admitted :
          admitted[i].task = t /\ admitted[i].type # "run.result_recovery_requested"
    BY DEF TaskEvent
  <2>2. \/ Visit("admit", t, <<>>) /\ adv' = adv
        \/ Visit("admit", t, admitted) /\ adv' = "provision" /\ run[t].state = "none"
    BY <1>3 DEF Admit
  <2>3. jobs' = jobs /\ adv = "admit"
    BY <1>3 DEF Admit, Visit, InStage
  <2> HIDE DEF admitted
  <2>. QED
    BY <2>1, <2>2, <2>3, VisitAlone
<1>4. ASSUME UNCHANGED <<durable, phase, todo, onCommit, advOwns, due>>,
             adv # "off", adv' \notin {"off", "prompt", "compensate"},
             adv' = "converge" => adv \in {"converge", "prompt"} /\ advSet' = advSet,
             \A i \in DOMAIN advTodo' :
               /\ advTodo'[i].task \notin Tasks
               /\ advTodo'[i].type # "run.result_recovery_requested",
             \/ jobs' = jobs
             \/ /\ jobs' = jobs \union {RecoveryJob(advTask)} /\ adv = "prompt"
                /\ adv' = "converge"
      PROVE  Alone'
  <2>1. ASSUME phase = "advance", NEW u \in Tasks, RecoveryJob(u) \in jobs' \/ About(todo', u)
        PROVE  Converged(u)'
    <3>1. ~About(advTodo', u) /\ run' = run
      BY <1>4 DEF About, durable
    <3>2. CASE Converged(u)
      BY <1>4, <3>1, <3>2 DEF Converged
    <3>3. CASE ~Converged(u)
      <4>1. RecoveryJob(u) \in jobs' \ jobs
        BY <1>4, <2>1, <3>3 DEF Alone, StartPass, About
      <4>2. u = advTask /\ adv = "prompt" /\ adv' = "converge"
        BY <1>4, <4>1, JobKinds
      <4>3. advTask \notin advSet /\ run[advTask].state # "none"
        BY <2>1, <4>2 DEF Alone, StartPass
      <4>. QED
        BY <1>4, <3>1, <4>2, <4>3 DEF Converged
    <3>. QED
      BY <3>2, <3>3
  <2>2. \A j \in jobs' : j \in jobs \/ j.kind = "recovery"
    BY <1>4, JobKinds
  <2>3. CompensateJob \in jobs' => CompensateJob \in jobs
    BY <1>4, JobKinds
  <2>4. phase = "advance" => StartPass'
    <3>1. ASSUME phase = "advance"
          PROVE  onCommit' \subseteq {AdvanceJob} /\ \A j \in jobs' : j.kind # "deliver"
      BY <1>4, <2>2, <3>1 DEF Alone, StartPass
    <3>. QED
      BY <1>4, <2>1, <3>1 DEF StartPass, RecoveryJob, AdvanceJob, About
  <2>. QED
    BY <1>4, <2>3, <2>4, StageAlone
<1>5. ASSUME NEW outcome \in ProvisionOutcomes, ProvisionReturns(outcome)
      PROVE  Alone'
  <2>1. outcome = "ok"
    BY DEF Undisturbed
  <2>2. /\ UNCHANGED <<durable, phase, todo, onCommit, jobs, advOwns, due>>
        /\ adv = "provision" /\ adv' = "admit" /\ advTodo' = <<>>
    BY <1>5, <2>1 DEF ProvisionReturns, Provisioned, InStage
  <2>. QED
    BY <1>4, <2>2
<1>6. CASE PromptReturns
  <2>1. /\ UNCHANGED <<durable, phase, todo, onCommit, advOwns, advSet, due>>
        /\ adv = "prompt" /\ adv' = "converge" /\ advTodo' = <<>>
        /\ jobs' = jobs \union {RecoveryJob(advTask)}
    BY <1>6 DEF PromptReturns, InStage
  <2>. QED
    BY <1>4, <2>1
<1>7. CASE NextStage
  <2>1. /\ UNCHANGED <<durable, phase, todo, onCommit, jobs, advOwns, due>>
        /\ adv \notin {"off"} /\ adv' \notin {"off", "prompt", "compensate", "converge"}
        /\ advTodo' = <<>>
    BY <1>7 DEF NextStage, EnterStage, InStage
  <2>. QED
    BY <1>4, <2>1
<1>8. CASE FinishAdvance
  <2>1. CASE Decide(<<WorkflowEvent(advFan)>>) /\ adv' = "write" /\ UNCHANGED <<phase, advOwns>>
    <3>1. UNCHANGED <<durable, todo, onCommit, jobs, due>> /\ adv = "fan"
      BY <1>8 DEF FinishAdvance, InStage
    <3>2. \A i \in DOMAIN advTodo' : advTodo'[i].task \notin Tasks
            /\ advTodo'[i].type # "run.result_recovery_requested"
      BY <2>1, ConstantsAssumption DEF Decide, WorkflowEvent
    <3>. QED
      BY <1>4, <2>1, <3>1, <3>2
  <2>2. CASE EndAdvance /\ LeaveStart
    <3>1. UNCHANGED <<todo, onCommit, jobs, due>> /\ adv = "fan"
      BY <1>8 DEF FinishAdvance, InStage
    <3>. QED
      BY <2>2, <3>1 DEF EndAdvance, LeaveStart, Alone, PassAlone
  <2>. QED
    BY <1>8, <2>1, <2>2 DEF FinishAdvance
<1>. QED
  BY <1>1, <1>2, <1>3, <1>5, <1>6, <1>7, <1>8 DEF AdvanceStep

LEMMA ProcessAlone ==
  ASSUME Inv, Alone,
         \/ Crash \/ Restart \/ FinishRecovery \/ UNCHANGED vars
         \/ \E item \in Deadlines : DeadlinePasses(item)
  PROVE  Alone'
<1>1. CASE Crash
  <2>1. MaxCrashes # 0
    BY <1>1, ConstantsAssumption DEF Crash, Inv, TypeOK, MemoryType
  <2>. QED
    BY <1>1, <2>1 DEF Crash, LoseMemory, Alone, PassAlone
<1>2. CASE Restart
  <2>1. /\ phase' = "recover" /\ phase = "down" /\ CompensateJob \notin jobs'
        /\ UNCHANGED <<adv, advOwns, advTodo, todo, onCommit, due>>
    BY <1>2, JobKinds DEF Restart, advance
  <2>. QED
    BY <2>1 DEF Alone, PassAlone
<1>3. CASE FinishRecovery
  <2>1. /\ phase = "recover" /\ todo = <<>> /\ jobs' = OpenTimers
        /\ UNCHANGED <<run, advTodo, todo, onCommit, due>>
        /\ \/ phase' = "up" /\ adv' = adv
           \/ phase' = "advance" /\ adv' = "converge"
    BY <1>3 DEF FinishRecovery, BeginAdvance, advance, durable
  <2>2. adv = "off" /\ advTodo = <<>> /\ onCommit = {}
    BY <2>1 DEF Alone, PassAlone
  <2>3. CompensateJob \notin jobs' /\ \A j \in jobs' : j.kind \notin {"deliver", "recovery"}
    BY <2>1, JobKinds
  <2>4. PassAlone'
    BY <2>1, <2>2, <2>3 DEF Alone, PassAlone
  <2>5. phase' = "advance" => StartPass'
    <3>1. \A u : RecoveryJob(u) \notin jobs' /\ ~About(todo', u)
      BY <2>1, <2>3, JobKinds DEF About
    <3>. QED
      BY <2>1, <2>2, <2>3, <3>1 DEF StartPass, RecoveryJob, AdvanceJob, About
  <2>. QED
    BY <2>4, <2>5 DEF Alone
<1>4. ASSUME UNCHANGED <<durable, phase, todo, onCommit, jobs, advance>>,
             due' \subseteq due \union Deadlines
      PROVE  Alone'
  <2>1. UNCHANGED <<run, adv, advOwns, advSet, advTodo, advTask>>
    BY <1>4 DEF durable, advance
  <2>2. PassAlone'
    BY <1>4, <2>1 DEF Alone, PassAlone
  <2>3. phase = "advance" => StartPass'
    BY <1>4, <2>1 DEF Alone, StartPass, Converged, About, RecoveryJob, AdvanceJob
  <2>. QED
    BY <1>4, <2>2, <2>3 DEF Alone
<1>5. CASE \E item \in Deadlines : DeadlinePasses(item)
  BY <1>4, <1>5 DEF DeadlinePasses
<1>6. CASE UNCHANGED vars
  BY <1>4, <1>6 DEF vars
<1>. QED
  BY <1>1, <1>2, <1>3, <1>5, <1>6

LEMMA NextAlone ==
  ASSUME Inv, Agreement, Alone, Undisturbed, [Next]_vars
  PROVE  Alone'
BY RequestAlone, JobAlone, AppendMutationAlone, AppendAdvanceAlone, AdvanceStepAlone,
   ProcessAlone DEF Next

\* If Herdr provisions every agent, and the broker does not crash or no deadline
\* passes, no task has appends of a mutation and of a pass pending at once.
THEOREM AppendsApart ==
  ASSUME Undisturbed
  PROVE  Spec => []Apart
<1>1. Init => Agreement /\ Alone
  BY InitAgreement, InitAlone
<1>2. Inv /\ Agreement /\ Alone /\ [Next]_vars => (Agreement /\ Alone)'
  BY AloneApart, NextAgreement, NextAlone
<1>3. Inv /\ Agreement /\ Alone => Apart
  BY AloneApart
<1>. QED
  BY <1>1, <1>2, <1>3, Invariance, PTL DEF Spec

\* Then the broker keeps all of this, in every behaviour.
THEOREM UndisturbedRuns ==
  ASSUME Undisturbed
  PROVE  Spec => /\ []TaskRunAgree /\ []AcceptedOnCurrentConnection
                 /\ TerminalRunIsFinal /\ CancellationIsFinal /\ KeepsContract
BY AppendsApart, AgreementSafety, DeliverySafety, RunFinality, CancellationFinality,
     ContractKept, PTL

=============================================================================
