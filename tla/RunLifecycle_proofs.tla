------------------------ MODULE RunLifecycle_proofs ------------------------
(* The safety of the run lifecycle, for every value of its constants. *)
EXTENDS RunLifecycle, FiniteSetTheorems, TLAPS

-----------------------------------------------------------------------------
(* Events. *)

\* What the type of an event says about its fields.
LEMMA EventFields ==
  ASSUME NEW e \in Event
  PROVE  /\ e.type \in RunEvent \union {"run.created", "task.cancel_requested",
              "task.state_changed", "agent.state_changed", "workflow.state_changed",
              "question.opened", "question.closed"}
         /\ e.type # "workflow.state_changed" => e.task \in Tasks
         /\ e.type = "workflow.state_changed" => e.to \in WorkflowState
         /\ e.type = "task.state_changed" => e.to \in {"provisioning", "blocked", "timed_out"}
         /\ e.type = "run.state_changed" =>
              e.to \in {"working", "blocked", "failed", "cancelled", "timed_out"}
                         \union ResultStatus
         /\ e.type = "result.published" => e.to \in ResultStatus
         /\ e.type \in {"question.opened", "question.closed"} => e.question \in Questions
         /\ e.type = "question.closed" => e.to \in {"answered", "cancelled", "timed_out"}
  BY DEF Event, RunEvent, AdapterProgress

\* Events of the workflow, of a task and of a question are events.
LEMMA WorkflowEventType ==
  ASSUME NEW to \in WorkflowState
  PROVE  WorkflowEvent(to) \in Event
  BY DEF WorkflowEvent, Event

LEMMA TaskEventType ==
  ASSUME NEW t \in Tasks, NEW type, NEW to,
         \/ /\ type \in AdapterProgress \union {"run.created", "agent.state_changed",
                  "task.cancel_requested", "run.result_recovery_requested", "run.result_missing"}
            /\ to = "none"
         \/ type = "task.state_changed" /\ to \in {"provisioning", "blocked", "timed_out"}
         \/ /\ type = "run.state_changed"
            /\ to \in {"working", "blocked", "failed", "cancelled", "timed_out"}
                        \union ResultStatus
         \/ type = "result.published" /\ to \in ResultStatus
  PROVE  TaskEvent(type, t, to) \in Event
  BY DEF TaskEvent, Event, AdapterProgress

LEMMA QuestionEventType ==
  ASSUME NEW t \in Tasks, NEW q \in Questions, NEW type, NEW to,
         \/ type = "question.opened" /\ to = "none"
         \/ type = "question.closed" /\ to \in {"answered", "cancelled", "timed_out"}
  PROVE  QuestionEvent(type, q, t, to) \in Event
  BY DEF QuestionEvent, Event

-----------------------------------------------------------------------------
(* The reducer. *)

\* The reducer gives a run only states of a run.
LEMMA NextRunType ==
  ASSUME DurableType, NEW e \in Event, e.type \in RunEvent
  PROVE  NextRun(e, run[e.task]) \in Run
<1> DEFINE r == run[e.task]
<1>1. e.task \in Tasks
  BY EventFields DEF RunEvent, AdapterProgress
<1>2. r \in Run /\ conn[e.task] \in Nat
  BY <1>1 DEF DurableType
<1>3. e.type = "run.state_changed" => e.to \in RunState
  BY EventFields, ConstantsAssumption DEF RunState, Terminal
<1>4. e.type = "result.published" => e.to \in ResultStatus
  BY EventFields
<1> HIDE DEF r
<1>5. NextRun(e, r) \in Run
  <2> USE <1>2
  <2>1. CASE e.type = "assignment.delivered"
    <3>1. ASSUME NEW g \in Nat
          PROVE  [r EXCEPT !.delivery = "pending", !.assigned = g] \in Run
      BY DEF Run
    <3>2. conn[e.task] + 1 \in Nat
      OBVIOUS
    <3>3. NextRun(e, r) = [r EXCEPT !.delivery = "pending", !.assigned = conn[e.task] + 1]
      BY <2>1 DEF NextRun
    <3>. QED
      BY <3>1, <3>2, <3>3, Zenon
  <2>2. CASE e.type \in {"assignment.accepted", "assignment.delivery_failed"}
    BY <2>2 DEF NextRun, Run
  <2>3. CASE e.type \in {"run.pi_started", "run.pi_settled"}
    BY <2>3 DEF NextRun, Run, RunState
  <2>4. CASE e.type = "run.state_changed"
    BY <1>3, <2>4 DEF NextRun, Run
  <2>5. CASE e.type = "result.published"
    BY <1>4, <2>5 DEF NextRun, Run
  <2>6. CASE e.type = "run.result_recovery_requested"
    BY <2>6 DEF NextRun, Run, RunState
  <2>7. CASE e.type = "run.result_missing"
    BY <2>7 DEF NextRun, Run, RunState, Terminal
  <2>. QED
    BY <2>1, <2>2, <2>3, <2>4, <2>5, <2>6, <2>7 DEF RunEvent, AdapterProgress
<1>. QED
  BY <1>5 DEF r

\* Accepted events keep the types of the durable state.
LEMMA ReduceType ==
  ASSUME DurableType, NEW e \in Event, Accepts(e), Reduce(e)
  PROVE  DurableType'
<1>1. CASE e.type = "run.created"
  <2>1. e.task \in Tasks /\ ReduceRunCreated(e.task)
    BY <1>1, EventFields DEF Reduce, RunEvent, AdapterProgress
  <2>2. [NoRun EXCEPT !.state = "created"] \in Run
    BY DEF NoRun, Run, RunState
  <2>. QED
    BY <2>1, <2>2 DEF ReduceRunCreated, DurableType, TaskState
<1>2. CASE e.type \in RunEvent
  <2>1. e.task \in Tasks /\ ReduceRunEvent(e)
    BY <1>2, EventFields DEF Reduce, RunEvent, AdapterProgress
  <2>2. run' \in [Tasks -> Run]
    BY <1>2, <2>1, NextRunType DEF ReduceRunEvent, DurableType
  <2>3. task' \in [Tasks -> TaskState]
    BY <2>1 DEF ReduceRunEvent, DurableType, TaskState, Terminal
  <2>. QED
    BY <2>1, <2>2, <2>3 DEF ReduceRunEvent, DurableType
<1>3. CASE e.type = "task.cancel_requested"
  <2>1. e.task \in Tasks /\ ReduceCancelRequested(e.task)
    BY <1>3, EventFields DEF Reduce, RunEvent, AdapterProgress
  <2>2. run' \in [Tasks -> Run]
    BY <2>1 DEF ReduceCancelRequested, DurableType, Run, RunState, Terminal
  <2>. QED
    BY <2>1, <2>2 DEF ReduceCancelRequested, DurableType, TaskState, Terminal
<1>4. CASE e.type = "task.state_changed"
  <2>1. /\ e.to \in TaskState /\ task' = [task EXCEPT ![e.task] = e.to]
        /\ UNCHANGED <<wf, run, question, conn>>
    BY <1>4, EventFields DEF Reduce, RunEvent, AdapterProgress, TaskState, Terminal
  <2>. QED
    BY <2>1 DEF DurableType
<1>5. CASE e.type = "agent.state_changed"
  <2>1. /\ conn' = [conn EXCEPT ![e.task] = @ + 1]
        /\ UNCHANGED <<wf, task, run, question>>
    BY <1>5 DEF Reduce, RunEvent, AdapterProgress
  <2>2. conn[e.task] + 1 \in Nat
    BY <1>5, EventFields DEF DurableType
  <2>3. conn' \in [Tasks -> Nat]
    BY <2>1, <2>2 DEF DurableType
  <2>. QED
    BY <2>1, <2>3 DEF DurableType
<1>6. CASE e.type = "workflow.state_changed"
  <2>1. e.to \in WorkflowState /\ wf' = e.to /\ UNCHANGED <<task, run, question, conn>>
    BY <1>6, EventFields DEF Reduce, RunEvent, AdapterProgress
  <2>. QED
    BY <2>1 DEF DurableType
<1>7. CASE e.type = "question.opened"
  <2>1. /\ e.task \in Tasks
        /\ question' = [question EXCEPT ![e.question] = [state |-> "open", task |-> e.task]]
        /\ UNCHANGED <<wf, task, run, conn>>
    BY <1>7, EventFields DEF Reduce, RunEvent, AdapterProgress
  <2>. QED
    BY <2>1 DEF DurableType, Question
<1>8. CASE e.type = "question.closed"
  <2>1. /\ e.to \in {"answered", "cancelled", "timed_out"} /\ e.question \in Questions
        /\ question[e.question].state = "open"
        /\ question' = [question EXCEPT ![e.question].state = e.to]
        /\ UNCHANGED <<wf, task, run, conn>>
    BY <1>8, EventFields DEF Reduce, Accepts, RunEvent, AdapterProgress
  <2>. QED
    BY <2>1 DEF DurableType, Question, NoQuestion
<1>. QED
  BY <1>1, <1>2, <1>3, <1>4, <1>5, <1>6, <1>7, <1>8, EventFields DEF RunEvent

\* What an accepted event that is justified does to a task and its run: success
\* and a result last, success comes with its result, and only run.created
\* makes a run.
TaskEffect(e, t) ==
  /\ task[t] = "succeeded" => task'[t] = "succeeded"
  /\ run[t].state = "succeeded" => run'[t].state = "succeeded"
  /\ run[t].state # "none" => run'[t].state # "none"
  /\ run[t].state = "none" => run'[t] = run[t] \/ (e.type = "run.created" /\ e.task = t)
  /\ run[t].result # "none" \/ e.type # "result.published" => run'[t].result = run[t].result
  /\ run'[t].state = "succeeded" => run'[t].result = "succeeded"
  /\ task'[t] = "succeeded" <=> run'[t].state = "succeeded"

LEMMA ReduceTask ==
  ASSUME DurableType, StateInv, NEW e \in Event, Accepts(e), Justified(e), Reduce(e),
         NEW t \in Tasks
  PROVE  TaskEffect(e, t)
<1>1. /\ task[t] \in TaskState /\ run[t] \in Run
      /\ run[t].state = "none" => run[t] = NoRun
      /\ run[t].state = "succeeded" => run[t].result = "succeeded"
      /\ task[t] = "succeeded" <=> run[t].state = "succeeded"
  BY DEF DurableType, StateInv
<1>2. CASE run'[t] = run[t] /\ task'[t] = task[t]
  BY <1>1, <1>2 DEF TaskEffect
<1>3. CASE e.type = "run.created" /\ e.task = t
  <2>1. /\ run[t].state = "none" /\ task[t] \notin Terminal
        /\ run'[t] = [NoRun EXCEPT !.state = "created"] /\ task'[t] = "assigned"
    BY <1>3 DEF Accepts, Reduce, ReduceRunCreated, RunEvent, AdapterProgress, DurableType
  <2>2. /\ run'[t].state = "created" /\ run'[t].result = "none" /\ run[t].result = "none"
    BY <1>1, <2>1 DEF NoRun
  <2>. QED
    BY <1>1, <1>3, <2>1, <2>2 DEF TaskEffect, Terminal
<1>4. CASE e.type \in RunEvent /\ e.task = t
  <2>1. /\ ReduceRunEvent(e) /\ run'[t] = NextRun(e, run[t])
    BY <1>4 DEF Reduce, ReduceRunEvent, RunEvent, AdapterProgress, DurableType
  <2>2. CASE e.type \in AdapterProgress
    <3>1. run[t].state \notin Terminal \union {"none"}
      BY <1>4, <2>2 DEF Accepts, AdapterProgress
    <3>2. /\ run'[t].state \in {run[t].state, "working", "settled"}
          /\ run'[t].result = run[t].result
      BY <1>1, <2>1, <2>2 DEF NextRun, AdapterProgress, Run
    <3>3. task'[t] = task[t]
      BY <2>1, <2>2 DEF ReduceRunEvent, AdapterProgress
    <3>. QED
      BY <1>1, <2>2, <3>1, <3>2, <3>3 DEF TaskEffect, Terminal, AdapterProgress
  <2>3. CASE e.type = "run.state_changed"
    <3>1. /\ run[t].state # "none" /\ (run[t].state \in Terminal => run[t].state = e.to)
          /\ e.to = "succeeded" => run[t].result = "succeeded"
      BY <1>4, <2>3 DEF Accepts, MayBecome, Justified, AdapterProgress
    <3>2. run'[t].state = e.to /\ run'[t].result = run[t].result
      BY <1>1, <2>1, <2>3 DEF NextRun, Run
    <3>3. task'[t] = IF e.to \in Terminal THEN e.to ELSE task[t]
      BY <1>4, <2>1, <2>3 DEF ReduceRunEvent, DurableType
    <3>4. e.to # "none"
      BY <2>3, EventFields, ConstantsAssumption
    <3>. QED
      BY <1>1, <2>3, <3>1, <3>2, <3>3, <3>4 DEF TaskEffect, Terminal
  <2>4. CASE e.type = "result.published"
    <3>1. run[t].state # "none" /\ run[t].result = "none"
      BY <1>4, <2>4 DEF Justified
    <3>2. run'[t].state = run[t].state
      BY <1>1, <2>1, <2>4 DEF NextRun, Run
    <3>3. task'[t] = task[t]
      BY <2>1, <2>4 DEF ReduceRunEvent
    <3>. QED
      BY <1>1, <2>4, <3>1, <3>2, <3>3 DEF TaskEffect
  <2>5. CASE e.type = "run.result_recovery_requested"
    <3>1. run[t].settled /\ run[t].result = "none"
      BY <1>4, <2>5 DEF Accepts, AdapterProgress
    <3>2. run'[t].state = "result_pending_missing" /\ run'[t].result = run[t].result
      BY <1>1, <2>1, <2>5 DEF NextRun, Run
    <3>3. task'[t] = task[t]
      BY <2>1, <2>5 DEF ReduceRunEvent
    <3>4. run[t].state # "none"
      BY <1>1, <3>1 DEF NoRun
    <3>. QED
      BY <1>1, <2>5, <3>1, <3>2, <3>3, <3>4 DEF TaskEffect
  <2>6. CASE e.type = "run.result_missing"
    <3>1. run[t].state # "none" /\ run[t].result = "none"
      BY <1>4, <2>6 DEF Accepts, AdapterProgress
    <3>2. run'[t].state = "failed" /\ run'[t].result = run[t].result
      BY <1>1, <2>1, <2>6 DEF NextRun, Run
    <3>3. task'[t] = "failed"
      BY <1>4, <2>1, <2>6 DEF ReduceRunEvent, DurableType
    <3>. QED
      BY <1>1, <2>6, <3>1, <3>2, <3>3 DEF TaskEffect
  <2>. QED
    BY <1>4, <2>2, <2>3, <2>4, <2>5, <2>6 DEF RunEvent
<1>5. CASE e.type = "task.cancel_requested" /\ e.task = t
  <2>1. ReduceCancelRequested(t)
    BY <1>5 DEF Reduce, RunEvent, AdapterProgress
  <2>2. CASE task[t] \in Terminal
    BY <1>2, <2>1, <2>2 DEF ReduceCancelRequested
  <2>3. CASE task[t] \notin Terminal
    <3>1. /\ task'[t] = "cancelled" /\ task[t] # "succeeded"
          /\ run'[t] = IF run[t].state = "none" THEN run[t]
                       ELSE [run[t] EXCEPT !.state = "cancelled"]
      BY <2>1, <2>3 DEF ReduceCancelRequested, DurableType, Terminal
    <3>2. /\ run'[t].state = IF run[t].state = "none" THEN "none" ELSE "cancelled"
          /\ run'[t].result = run[t].result
      BY <1>1, <3>1 DEF Run
    <3>. QED
      BY <1>1, <1>5, <3>1, <3>2 DEF TaskEffect
  <2>. QED
    BY <2>2, <2>3
<1>6. CASE e.type = "task.state_changed" /\ e.task = t
  <2>1. /\ e.to \in {"provisioning", "blocked", "timed_out"}
        /\ task[t] \notin Terminal \/ task[t] = e.to
        /\ task' = [task EXCEPT ![t] = e.to] /\ run' = run
    BY <1>6, EventFields DEF Accepts, Reduce, RunEvent, AdapterProgress
  <2>2. task'[t] # "succeeded" /\ task[t] # "succeeded"
    BY <2>1 DEF DurableType, Terminal
  <2>. QED
    BY <1>1, <2>1, <2>2 DEF TaskEffect
<1>7. CASE \/ e.type \in {"agent.state_changed", "workflow.state_changed",
                          "question.opened", "question.closed"}
           \/ e.task # t
  BY <1>2, <1>7, EventFields
  DEF Reduce, ReduceRunCreated, ReduceRunEvent, ReduceCancelRequested, RunEvent,
      AdapterProgress, DurableType
<1>. QED
  BY <1>3, <1>4, <1>5, <1>6, <1>7, EventFields

\* The reducer opens a question only with question.opened, and there the only one
\* of its run.
LEMMA ReduceQuestion ==
  ASSUME DurableType, OneOpenQuestion, NEW e \in Event, Accepts(e), Justified(e), Reduce(e)
  PROVE  /\ OneOpenQuestion'
         /\ e.type # "question.opened" => \A t \in Tasks : Open(t)' \subseteq Open(t)
<1>1. CASE e.type = "question.opened"
  <2>1. /\ e.task \in Tasks /\ e.question \in Questions /\ Open(e.task) = {}
        /\ question' = [question EXCEPT ![e.question] = [state |-> "open", task |-> e.task]]
    BY <1>1, EventFields DEF Reduce, Justified, RunEvent, AdapterProgress
  <2>2. ASSUME NEW t \in Tasks, NEW p \in Open(t)', NEW q \in Open(t)'
        PROVE  p = q
    <3>1. \A x \in {p, q} : /\ x \in Questions
                            /\ x # e.question => x \in Open(t)
                            /\ x = e.question => t = e.task
      BY <2>1 DEF Open, DurableType
    <3>2. CASE t = e.task
      BY <2>1, <3>1, <3>2
    <3>3. CASE t # e.task
      BY <3>1, <3>3 DEF OneOpenQuestion
    <3>. QED
      BY <3>2, <3>3
  <2>. QED
    BY <1>1, <2>2 DEF OneOpenQuestion
<1>2. CASE e.type # "question.opened"
  <2>1. ASSUME NEW q \in Questions, question'[q].state = "open"
        PROVE  question'[q] = question[q]
    <3>1. CASE e.type = "question.closed"
      <4>1. /\ e.to # "open" /\ question' = [question EXCEPT ![e.question].state = e.to]
        BY <3>1, EventFields DEF Reduce, RunEvent, AdapterProgress
      <4>. QED
        BY <2>1, <4>1 DEF DurableType, Question, NoQuestion
    <3>2. CASE e.type # "question.closed"
      BY <1>2, <3>2 DEF Reduce, ReduceRunCreated, ReduceRunEvent, ReduceCancelRequested
    <3>. QED
      BY <3>1, <3>2
  <2>2. \A t \in Tasks : Open(t)' \subseteq Open(t)
    BY <2>1 DEF Open
  <2>. QED
    BY <1>2, <2>2 DEF OneOpenQuestion
<1>. QED
  BY <1>1, <1>2

\* Accepted events that are justified preserve the invariant of the durable state.
LEMMA ReduceState ==
  ASSUME DurableType, StateInv, NEW e \in Event, Accepts(e), Justified(e), Reduce(e)
  PROVE  StateInv'
<1>1. \A t \in Tasks : TaskEffect(e, t)
  BY ReduceTask
<1>2. OneOpenQuestion'
  BY ReduceQuestion DEF StateInv
<1>3. DependencyRespected'
  <2>1. ASSUME NEW t \in Tasks, run'[t].state # "none", NEW d \in Deps[t]
        PROVE  task'[d] = "succeeded"
    <3>1. d \in Tasks
      BY ConstantsAssumption
    <3>2. task[d] = "succeeded"
      BY <1>1, <2>1 DEF TaskEffect, Justified, StateInv, DependencyRespected
    <3>. QED
      BY <1>1, <3>1, <3>2 DEF TaskEffect
  <2>. QED
    BY <2>1 DEF DependencyRespected
<1>4. WorkflowSuccess'
  <2>1. CASE e.type = "workflow.state_changed"
    <3>1. wf' = e.to /\ task' = task
      BY <2>1 DEF Reduce, RunEvent, AdapterProgress
    <3>. QED
      BY <2>1, <3>1 DEF WorkflowSuccess, Justified
  <2>2. CASE e.type # "workflow.state_changed"
    <3>1. wf' = wf
      BY <2>2 DEF Reduce, ReduceRunCreated, ReduceRunEvent, ReduceCancelRequested
    <3>. QED
      BY <1>1, <3>1 DEF WorkflowSuccess, TaskEffect, StateInv
  <2>. QED
    BY <2>1, <2>2
<1>5. ASSUME NEW t \in Tasks, run'[t].state = "none"
      PROVE  run'[t] = NoRun
  <2>1. run[t].state = "none" /\ run[t] = NoRun
    BY <1>1, <1>5 DEF TaskEffect, StateInv
  <2>2. CASE e.type = "run.created" /\ e.task = t
    BY <1>5, <2>2 DEF Reduce, ReduceRunCreated, NoRun, DurableType, RunEvent, AdapterProgress
  <2>. QED
    BY <1>1, <2>1, <2>2 DEF TaskEffect
<1>. QED
  BY <1>1, <1>2, <1>3, <1>4, <1>5 DEF StateInv, TaskEffect

\* An event that is justified still is after another: only the publication of a
\* result can spoil one, and only an opened question another one.
LEMMA JustifiedLater ==
  ASSUME DurableType, StateInv, NEW e \in Event, Accepts(e), Justified(e), Reduce(e),
         NEW d \in Event, Justified(d),
         d.type \notin {"result.published", "question.opened"}
           \/ e.type \notin {"result.published", "question.opened"}
  PROVE  Justified(d)'
<1>1. \A t \in Tasks : TaskEffect(e, t)
  BY ReduceTask
<1>2. d.type # "workflow.state_changed" => d.task \in Tasks
  BY EventFields
<1>3. CASE d.type = "result.published"
  BY <1>1, <1>2, <1>3 DEF Justified, TaskEffect
<1>4. CASE d.type = "run.state_changed"
  <2>1. ASSUME d.to = "succeeded"
        PROVE  run'[d.task].result = "succeeded"
    <3>1. run[d.task].result = "succeeded"
      BY <1>4, <2>1 DEF Justified
    <3>. QED
      BY <1>1, <1>2, <1>4, <3>1 DEF TaskEffect
  <2>. QED
    BY <1>4, <2>1 DEF Justified
<1>5. CASE d.type = "question.opened"
  <2>1. Open(d.task)' \subseteq Open(d.task) /\ Open(d.task) = {}
    BY <1>2, <1>5, ReduceQuestion DEF StateInv, Justified
  <2>. QED
    BY <1>5, <2>1 DEF Justified
<1>6. CASE d.type = "run.created"
  <2>1. ASSUME NEW x \in Deps[d.task]
        PROVE  task'[x] = "succeeded"
    BY <1>1, <1>2, <1>6, ConstantsAssumption DEF Justified, TaskEffect
  <2>. QED
    BY <1>6, <2>1 DEF Justified
<1>7. CASE d.type = "workflow.state_changed"
  BY <1>1, <1>7 DEF Justified, TaskEffect
<1>. QED
  BY <1>3, <1>4, <1>5, <1>6, <1>7 DEF Justified

-----------------------------------------------------------------------------
(* Pending appends. *)

\* An event that needs no justification.
Plain(e) ==
  /\ e.type \notin {"result.published", "question.opened", "run.created"}
  /\ e.type \in {"run.state_changed", "workflow.state_changed"} => e.to # "succeeded"
  /\ e.type = "task.state_changed" => e.to # "provisioning"

PlainEvents(events) ==
  events \in Seq(Event) /\ \A i \in DOMAIN events : Plain(events[i])

LEMMA PlainPending ==
  ASSUME NEW events, PlainEvents(events)
  PROVE  PendingMutation(events) /\ PendingPass(events)
<1>1. ASSUME NEW i \in DOMAIN events
      PROVE  Plain(events[i])
  BY DEF PlainEvents
<1>. QED
  BY <1>1 DEF PendingMutation, PendingPass, Plain, Justified, Occupies

LEMMA PlainNone == PlainEvents(<<>>)
  BY DEF PlainEvents

LEMMA PlainOne ==
  ASSUME NEW e \in Event, Plain(e)
  PROVE  PlainEvents(<<e>>)
  BY DEF PlainEvents

LEMMA PlainConcat ==
  ASSUME NEW s, NEW r, PlainEvents(s), PlainEvents(r)
  PROVE  PlainEvents(s \o r)
<1>1. s \in Seq(Event) /\ r \in Seq(Event)
  BY DEF PlainEvents
<1>2. ASSUME NEW i \in DOMAIN (s \o r)
      PROVE  Plain((s \o r)[i])
  BY <1>1, <1>2 DEF PlainEvents
<1>. QED
  BY <1>1, <1>2 DEF PlainEvents

LEMMA PlainTwo ==
  ASSUME NEW d \in Event, NEW e \in Event, Plain(d), Plain(e)
  PROVE  PlainEvents(<<d, e>>)
  BY DEF PlainEvents

\* A step that leaves the durable state alone keeps what the invariant says of
\* it, and of the appends that are pending after the step.
LEMMA MemoryStep ==
  ASSUME DurableType, StateInv, UNCHANGED durable,
         PendingMutation(todo'), PendingPass(advTodo')
  PROVE  (DurableType /\ StateInv /\ PendingMutation(todo) /\ PendingPass(advTodo))'
<1>1. UNCHANGED <<wf, task, run, question, conn>>
  BY DEF durable
<1>2. DurableType' /\ StateInv'
  BY <1>1 DEF DurableType, StateInv, OneOpenQuestion, Open, DependencyRespected, WorkflowSuccess
<1>3. ASSUME NEW e
      PROVE  Justified(e) => Justified(e)'
  BY <1>1 DEF Justified, Open
<1>4. PendingMutation(todo)'
  BY <1>3 DEF PendingMutation, FollowsItsResult
<1>5. PendingPass(advTodo)'
  BY <1>3 DEF PendingPass
<1>. QED
  BY <1>2, <1>4, <1>5

\* The first append of a mutation is made: the others stay justified.
LEMMA MutationAppended ==
  ASSUME Inv, todo # <<>>, Accepts(Head(todo)), Reduce(Head(todo)),
         todo' = Tail(todo), advTodo' = advTodo
  PROVE  /\ DurableType' /\ StateInv'
         /\ PendingMutation(todo)' /\ PendingPass(advTodo)'
         /\ \A t \in Tasks : TaskEffect(Head(todo), t)
<1> DEFINE e == Head(todo)
<1>1. /\ DurableType /\ StateInv /\ todo \in Seq(Event) /\ advTodo \in Seq(Event)
      /\ e \in Event /\ e = todo[1] /\ 1 \in DOMAIN todo
  BY DEF Inv, TypeOK, MemoryType
<1>2. Justified(e)
  BY <1>1 DEF Inv, PendingMutation, FollowsItsResult
<1>3. ASSUME NEW d \in Event, Justified(d), d.type \notin {"result.published", "question.opened"}
      PROVE  Justified(d)'
  BY <1>1, <1>2, <1>3, JustifiedLater
<1>4. PendingMutation(todo)'
  <2>1. ASSUME NEW i \in DOMAIN todo'
        PROVE  /\ i \in Nat /\ i + 1 \in DOMAIN todo /\ todo'[i] = todo[i + 1] /\ i + 1 # 1
               /\ todo[i + 1] \in Event
    BY <1>1
  <2>2. ASSUME NEW i \in DOMAIN todo', NEW d \in Event, d = todo[i + 1]
        PROVE  /\ d.type \notin {"result.published", "question.opened"} /\ ~Occupies(d)
               /\ Justified(d)'
    <3>1. d.type \notin {"result.published", "question.opened"} /\ ~Occupies(d)
      BY <2>1, <2>2 DEF Inv, PendingMutation
    <3>2. CASE Justified(d)
      BY <1>3, <3>1, <3>2
    <3>3. CASE FollowsItsResult(todo, i + 1)
      <4>1. /\ d = todo[2] /\ e.type = "result.published" /\ e.task = d.task
            /\ e.to = d.to /\ d.type = "run.state_changed"
        BY <1>1, <2>1, <2>2, <3>3 DEF FollowsItsResult
      <4>2. run' = [run EXCEPT ![e.task] = NextRun(e, @)]
        BY <4>1 DEF Reduce, ReduceRunEvent, RunEvent, AdapterProgress
      <4>3. e.task \in Tasks /\ run[e.task] \in Run
        BY <1>1, <4>1, EventFields DEF DurableType
      <4>4. run'[e.task].result = e.to
        BY <1>1, <4>1, <4>2, <4>3 DEF NextRun, DurableType, Run
      <4>. QED
        BY <3>1, <4>1, <4>4 DEF Justified
    <3>4. Justified(todo[i + 1]) \/ FollowsItsResult(todo, i + 1)
      BY <2>1, <2>2 DEF Inv, PendingMutation
    <3>. QED
      BY <2>2, <3>1, <3>2, <3>3, <3>4
  <2>3. ASSUME NEW i \in DOMAIN todo'
        PROVE  /\ todo'[i].type \notin {"result.published", "question.opened"}
               /\ ~Occupies(todo'[i]) /\ Justified(todo[i])'
    <3>1. PICK d \in Event : d = todo[i + 1] /\ d = todo'[i]
      BY <2>1
    <3>2. /\ d.type \notin {"result.published", "question.opened"} /\ ~Occupies(d)
          /\ Justified(d)'
      BY <2>2, <3>1
    <3>. QED
      BY <3>1, <3>2 DEF Justified
  <2>. QED
    BY <2>3 DEF PendingMutation
<1>5. PendingPass(advTodo)'
  <2>1. ASSUME NEW i \in DOMAIN advTodo
        PROVE  Justified(advTodo[i])'
    <3>1. /\ advTodo[i] \in Event /\ Justified(advTodo[i])
          /\ advTodo[i].type \notin {"result.published", "question.opened"}
      BY <1>1 DEF Inv, PendingPass
    <3>2. ASSUME NEW d \in Event, d = advTodo[i]
          PROVE  Justified(d)'
      BY <1>3, <3>1, <3>2
    <3>. QED
      BY <3>1, <3>2 DEF Justified
  <2>. QED
    BY <2>1 DEF PendingPass, Inv
<1>6. DurableType' /\ StateInv' /\ \A t \in Tasks : TaskEffect(e, t)
  BY <1>1, <1>2, ReduceType, ReduceState, ReduceTask
<1>. QED
  BY <1>4, <1>5, <1>6

\* An append of a pass is made: it spoils no append that is pending.
LEMMA PassAppended ==
  ASSUME Inv, advTodo # <<>>, Accepts(Head(advTodo)), Reduce(Head(advTodo)),
         advTodo' \in {Tail(advTodo), <<>>}, todo' = todo
  PROVE  /\ DurableType' /\ StateInv'
         /\ PendingMutation(todo)' /\ PendingPass(advTodo)'
         /\ \A t \in Tasks : TaskEffect(Head(advTodo), t)
<1> DEFINE e == Head(advTodo)
<1>1. /\ DurableType /\ StateInv /\ todo \in Seq(Event) /\ advTodo \in Seq(Event)
      /\ e \in Event /\ e = advTodo[1] /\ 1 \in DOMAIN advTodo
  BY DEF Inv, TypeOK, MemoryType
<1>2. Justified(e) /\ e.type \notin {"result.published", "question.opened"}
  BY <1>1 DEF Inv, PendingPass
<1>3. ASSUME NEW d \in Event, Justified(d)
      PROVE  Justified(d)'
  BY <1>1, <1>2, <1>3, JustifiedLater
<1>4. PendingMutation(todo)'
  <2>1. ASSUME NEW i \in DOMAIN todo
        PROVE  Justified(todo[i])' \/ FollowsItsResult(todo, i)
    <3>1. PICK d \in Event : d = todo[i]
      BY <1>1
    <3>2. Justified(d) \/ FollowsItsResult(todo, i)
      BY <3>1 DEF Inv, PendingMutation
    <3>3. CASE Justified(d)
      <4>1. Justified(d)'
        BY <1>3, <3>3
      <4>. QED
        BY <3>1, <4>1 DEF Justified
    <3>. QED
      BY <3>2, <3>3
  <2>. QED
    BY <2>1 DEF PendingMutation, FollowsItsResult, Inv
<1>5. PendingPass(advTodo)'
  <2>1. ASSUME NEW i \in DOMAIN advTodo'
        PROVE  /\ advTodo'[i].type \notin {"result.published", "question.opened"}
               /\ Justified(advTodo[i])'
    <3>1. /\ i + 1 \in DOMAIN advTodo /\ advTodo'[i] = advTodo[i + 1]
          /\ advTodo[i + 1] \in Event
      BY <1>1, <2>1
    <3>2. PICK d \in Event : d = advTodo[i + 1] /\ d = advTodo'[i]
      BY <3>1
    <3>3. Justified(d) /\ d.type \notin {"result.published", "question.opened"}
      BY <3>1, <3>2 DEF Inv, PendingPass
    <3>4. Justified(d)'
      BY <1>3, <3>3
    <3>. QED
      BY <3>2, <3>3, <3>4 DEF Justified
  <2>. QED
    BY <2>1 DEF PendingPass
<1>6. DurableType' /\ StateInv' /\ \A t \in Tasks : TaskEffect(e, t)
  BY <1>1, <1>2, ReduceType, ReduceState, ReduceTask
<1>. QED
  BY <1>4, <1>5, <1>6

-----------------------------------------------------------------------------
(* One step of the specification. *)

\* What a pass has computed stays true while its tasks succeed no less than before.
LEMMA PassInvLater ==
  ASSUME PassInv, \A t \in Tasks : task[t] = "succeeded" => task'[t] = "succeeded",
         adv' = adv, advSet' = advSet, advSet \subseteq Tasks, advTask' = advTask,
         advFan' = advFan
  PROVE  PassInv'
<1>1. \A t \in Tasks : Deps[t] \subseteq Tasks
  BY ConstantsAssumption
<1>. QED
  BY <1>1 DEF PassInv

\* The deferred work and the timers are jobs.
LEMMA JobTypes ==
  /\ AdvanceJob \in Job /\ CompensateJob \in Job
  /\ \A t \in Tasks : /\ RecoveryJob(t) \in Job /\ DeadlineJob(t) \in Job
                      /\ \A g \in Nat : DeliverJob(t, g) \in Job
  /\ \A q \in Questions : QuestionJob(q) \in Job
  BY DEF Job, JobKind, AdvanceJob, CompensateJob, RecoveryJob, DeadlineJob, DeliverJob,
         QuestionJob

\* The invariant holds at first.
LEMMA InitInv == Init => Inv
<1> SUFFICES ASSUME Init PROVE Inv
  OBVIOUS
<1>1. DurableType
  BY DEF Init, DurableType, WorkflowState, TaskState, Run, RunState, NoRun, Question
<1>2. MemoryType
  <2>1. jobs \subseteq Job
    BY JobTypes DEF Init
  <2>2. todo \in Seq(Event) /\ advTodo \in Seq(Event)
    BY DEF Init
  <2>. QED
    BY <2>1, <2>2 DEF Init, MemoryType, WorkflowState
<1>3. StateInv
  BY DEF Init, StateInv, OneOpenQuestion, Open, NoQuestion, DependencyRespected,
         WorkflowSuccess, NoRun
<1>4. PendingMutation(todo) /\ PendingPass(advTodo)
  BY PlainNone, PlainPending DEF Init
<1>5. PassInv
  BY DEF Init, PassInv
<1>. QED
  BY <1>1, <1>2, <1>3, <1>4, <1>5 DEF Inv, TypeOK

\* A handler leaves justified events in the queue and changes nothing durable.
LEMMA QueueStep ==
  ASSUME Inv, UNCHANGED <<durable, phase, advance, due, crashes>>,
         todo' \in Seq(Event), PendingMutation(todo'),
         onCommit' \subseteq Job, jobs' \subseteq Job, turn' \in {"mutation", "advance"}
  PROVE  Inv'
<1>1. MemoryType'
  BY DEF Inv, TypeOK, MemoryType, advance
<1>2. (DurableType /\ StateInv /\ PendingMutation(todo) /\ PendingPass(advTodo))'
  BY MemoryStep DEF Inv, TypeOK, advance
<1>3. PassInv'
  BY PassInvLater DEF Inv, TypeOK, MemoryType, durable, advance
<1>. QED
  BY <1>1, <1>2, <1>3 DEF Inv, TypeOK

\* Forgetting what is in memory keeps the invariant.
LEMMA LoseMemoryInv ==
  ASSUME Inv, LoseMemory, UNCHANGED <<durable, due>>, crashes' \in Nat
  PROVE  Inv'
<1>1. todo' \in Seq(Event) /\ advTodo' \in Seq(Event)
  BY DEF LoseMemory
<1>2. MemoryType'
  BY <1>1 DEF LoseMemory, Inv, TypeOK, MemoryType, WorkflowState
<1>3. (DurableType /\ StateInv /\ PendingMutation(todo) /\ PendingPass(advTodo))'
  BY PlainNone, PlainPending, MemoryStep DEF LoseMemory, Inv, TypeOK
<1>4. PassInv'
  BY DEF LoseMemory, PassInv
<1>. QED
  BY <1>2, <1>3, <1>4 DEF Inv, TypeOK

LEMMA AppendMutationInv == Inv /\ AppendMutation => Inv'
<1> SUFFICES ASSUME Inv, AppendMutation PROVE Inv'
  OBVIOUS
<1>1. CASE Accepts(Head(todo))
  <2>1. /\ todo # <<>> /\ Reduce(Head(todo)) /\ todo' = Tail(todo)
        /\ turn' \in {turn, "advance"}
        /\ jobs' \in {jobs, jobs \union onCommit} /\ onCommit' \in {onCommit, {}}
        /\ UNCHANGED <<phase, advance, due, crashes>>
    BY <1>1 DEF AppendMutation
  <2>2. /\ (DurableType /\ StateInv /\ PendingMutation(todo) /\ PendingPass(advTodo))'
        /\ \A t \in Tasks : TaskEffect(Head(todo), t)
    BY <1>1, <2>1, MutationAppended DEF advance
  <2>3. MemoryType'
    <3>1. todo' \in Seq(Event)
      BY <2>1 DEF Inv, TypeOK, MemoryType
    <3>2. onCommit' \subseteq Job /\ jobs' \subseteq Job
      BY <2>1 DEF Inv, TypeOK, MemoryType
    <3>. QED
      BY <2>1, <3>1, <3>2 DEF Inv, TypeOK, MemoryType, advance
  <2>4. PassInv'
    BY <2>1, <2>2, PassInvLater DEF Inv, TypeOK, MemoryType, advance, TaskEffect
  <2>. QED
    BY <2>2, <2>3, <2>4 DEF Inv, TypeOK
<1>2. CASE ~Accepts(Head(todo)) /\ phase = "recover"
  <2>1. LoseMemory /\ UNCHANGED <<durable, due, crashes>>
    BY <1>2 DEF AppendMutation
  <2>. QED
    BY <2>1, LoseMemoryInv DEF Inv, TypeOK, MemoryType
<1>3. CASE ~Accepts(Head(todo)) /\ phase # "recover"
  <2>1. /\ todo' = <<>> /\ onCommit' = {} /\ turn' \in {turn, "advance"}
        /\ UNCHANGED <<durable, phase, jobs, advance, due, crashes>>
    BY <1>3 DEF AppendMutation
  <2>2. PendingMutation(todo') /\ todo' \in Seq(Event)
    BY <2>1, PlainNone, PlainPending
  <2>. QED
    BY <2>1, <2>2, QueueStep DEF Inv, TypeOK, MemoryType
<1>. QED
  BY <1>1, <1>2, <1>3

\* Events that need no justification.
LEMMA PlainEventTypes ==
  /\ \A t \in Tasks :
       /\ \A type \in (AdapterProgress \union {"agent.state_changed", "task.cancel_requested",
                        "run.result_recovery_requested", "run.result_missing"}) :
            TaskEvent(type, t, "none") \in Event /\ Plain(TaskEvent(type, t, "none"))
       /\ \A to \in {"blocked", "timed_out"} :
            /\ TaskEvent("task.state_changed", t, to) \in Event
            /\ Plain(TaskEvent("task.state_changed", t, to))
       /\ \A to \in {"working", "blocked", "failed", "cancelled", "timed_out"} :
            /\ TaskEvent("run.state_changed", t, to) \in Event
            /\ Plain(TaskEvent("run.state_changed", t, to))
       /\ \A q \in Questions, to \in {"answered", "cancelled", "timed_out"} :
            /\ QuestionEvent("question.closed", q, t, to) \in Event
            /\ Plain(QuestionEvent("question.closed", q, t, to))
  /\ WorkflowEvent("cancelled") \in Event /\ Plain(WorkflowEvent("cancelled"))
  BY DEF TaskEvent, QuestionEvent, WorkflowEvent, Event, Plain, AdapterProgress, WorkflowState

\* A handler that leaves only such events in the queue.
LEMMA PlainStep ==
  ASSUME Inv, UNCHANGED <<durable, phase, advance, due, crashes>>, PlainEvents(todo'),
         onCommit' \subseteq Job, jobs' \subseteq Job, turn' \in {"mutation", "advance"}
  PROVE  Inv'
<1>1. todo' \in Seq(Event) /\ PendingMutation(todo')
  BY PlainPending DEF PlainEvents
<1>. QED
  BY <1>1, QueueStep

LEMMA CancelOpenPlain ==
  ASSUME NEW t \in Tasks, NEW andThen, PlainEvents(andThen)
  PROVE  PlainEvents(CancelOpen(t, andThen))
<1>1. CASE Open(t) = {}
  BY <1>1, PlainNone DEF CancelOpen
<1>2. CASE Open(t) # {}
  <2> DEFINE q == CHOOSE x \in Open(t) : TRUE
  <2>1. q \in Questions
    BY <1>2 DEF Open
  <2>2. PlainEvents(<<QuestionEvent("question.closed", q, t, "cancelled")>>)
    BY <2>1, PlainEventTypes, PlainOne
  <2>. QED
    BY <1>2, <2>2, PlainConcat DEF CancelOpen
<1>. QED
  BY <1>1, <1>2

\* An open question is a question of a task.
LEMMA OpenQuestionTask ==
  ASSUME Inv, NEW q \in Questions, question[q].state = "open"
  PROVE  question[q].task \in Tasks
  BY DEF Inv, TypeOK, DurableType, Question, NoQuestion

LEMMA TimeOutPlain ==
  ASSUME Inv, NEW q \in Questions
  PROVE  PlainEvents(TimeOutQuestion(q))
<1>1. CASE question[q].state = "open"
  BY <1>1, OpenQuestionTask, PlainEventTypes, PlainTwo DEF TimeOutQuestion
<1>2. CASE question[q].state # "open"
  BY <1>2, PlainNone DEF TimeOutQuestion
<1>. QED
  BY <1>1, <1>2

LEMMA AgentRequestInv ==
  ASSUME Inv, NEW t \in Tasks, Register(t) \/ TurnStart(t) \/ AgentSettled(t)
  PROVE  Inv'
<1>1. /\ UNCHANGED <<durable, phase, advance, due, crashes>>
      /\ onCommit' \subseteq Job /\ jobs' \subseteq Job /\ turn' \in {"mutation", "advance"}
      /\ todo' \in {<<TaskEvent("assignment.delivered", t, "none"),
                     TaskEvent("agent.state_changed", t, "none")>>,
                   <<TaskEvent("agent.state_changed", t, "none")>>,
                   <<TaskEvent("run.pi_started", t, "none")>>,
                   <<TaskEvent("run.pi_settled", t, "none")>>}
  <2>1. AdvanceJob \in Job /\ DeliverJob(t, conn[t] + 1) \in Job
    <3>1. conn[t] + 1 \in Nat
      BY DEF Inv, TypeOK, DurableType
    <3>. QED
      BY <3>1, JobTypes
  <2>. QED
    BY <2>1 DEF Register, TurnStart, AgentSettled, Request, Begin, Inv, TypeOK, MemoryType
<1>2. PlainEvents(todo')
  BY <1>1, PlainEventTypes, PlainOne, PlainTwo DEF AdapterProgress
<1>. QED
  BY <1>1, <1>2, PlainStep

LEMMA PublishResultInv ==
  ASSUME Inv, NEW t \in Tasks, NEW s \in ResultStatus, PublishResult(t, s)
  PROVE  Inv'
<1> DEFINE published == TaskEvent("result.published", t, s)
           ended == TaskEvent("run.state_changed", t, s)
<1>1. published \in Event /\ ended \in Event
  BY TaskEventType
<1>2. run[t].state # "none" /\ run[t].result = "none"
  BY DEF PublishResult, Live
<1>3. Justified(published) /\ ~Occupies(published) /\ ~Occupies(ended)
  BY <1>2 DEF Justified, Occupies, TaskEvent
<1>4. /\ UNCHANGED <<durable, phase, advance, due, crashes>>
      /\ onCommit' \subseteq Job /\ jobs' \subseteq Job /\ turn' \in {"mutation", "advance"}
      /\ todo' \in {<<published, ended>>, <<published>>}
  BY JobTypes DEF PublishResult, Request, Begin, Inv, TypeOK, MemoryType
<1>5. todo' \in Seq(Event) /\ PendingMutation(todo')
  <2>1. CASE todo' = <<published, ended>>
    <3>1. FollowsItsResult(todo', 2)
      BY <2>1 DEF FollowsItsResult, TaskEvent
    <3>2. DOMAIN todo' = {1, 2} /\ todo'[1] = published /\ todo'[2] = ended
      BY <2>1
    <3>3. ended.type = "run.state_changed"
      BY DEF TaskEvent
    <3>. QED
      BY <1>1, <1>3, <2>1, <3>1, <3>2, <3>3 DEF PendingMutation
  <2>2. CASE todo' = <<published>>
    BY <1>1, <1>3, <2>2 DEF PendingMutation
  <2>. QED
    BY <1>4, <2>1, <2>2
<1>. QED
  BY <1>4, <1>5, QueueStep

LEMMA OpenQuestionInv ==
  ASSUME Inv, NEW t \in Tasks, NEW q \in Questions, OpenQuestion(q, t)
  PROVE  Inv'
<1> DEFINE opened == QuestionEvent("question.opened", q, t, "none")
           blocked == TaskEvent("run.state_changed", t, "blocked")
<1>1. /\ opened \in Event /\ blocked \in Event /\ Plain(blocked)
      /\ Justified(opened) /\ ~Occupies(opened) /\ opened.type = "question.opened"
  <2>1. Justified(opened) /\ ~Occupies(opened)
    BY DEF OpenQuestion, Justified, Occupies, QuestionEvent
  <2>. QED
    BY <2>1, QuestionEventType, PlainEventTypes DEF QuestionEvent
<1>2. /\ UNCHANGED <<durable, phase, advance, due, crashes>>
      /\ onCommit' \subseteq Job /\ jobs' \subseteq Job /\ turn' \in {"mutation", "advance"}
      /\ todo' = <<opened, blocked>>
  BY JobTypes DEF OpenQuestion, Request, Begin, Inv, TypeOK, MemoryType
<1>3. Justified(blocked) /\ ~Occupies(blocked) /\ blocked.type = "run.state_changed"
  BY DEF Justified, Occupies, TaskEvent
<1> HIDE DEF opened, blocked
<1>4. DOMAIN todo' = {1, 2} /\ todo'[1] = opened /\ todo'[2] = blocked
  BY <1>2
<1>5. todo' \in Seq(Event) /\ PendingMutation(todo')
  BY <1>1, <1>2, <1>3, <1>4 DEF PendingMutation
<1>. QED
  BY <1>2, <1>5, QueueStep

LEMMA CloseQuestionInv ==
  ASSUME Inv, NEW q \in Questions, AnswerQuestion(q) \/ RequestQuestionTimeout(q)
  PROVE  Inv'
<1>1. /\ UNCHANGED <<durable, phase, advance, due, crashes>>
      /\ onCommit' \subseteq Job /\ jobs' \subseteq Job /\ turn' \in {"mutation", "advance"}
  BY DEF AnswerQuestion, RequestQuestionTimeout, Request, Begin, Inv, TypeOK, MemoryType
<1>2. PlainEvents(todo')
  <2>1. CASE AnswerQuestion(q)
    <3>1. /\ question[q].task \in Tasks
          /\ todo' = <<QuestionEvent("question.closed", q, question[q].task, "answered"),
                       TaskEvent("run.state_changed", question[q].task, "working")>>
      BY <2>1, OpenQuestionTask DEF AnswerQuestion, Request, Begin
    <3>. QED
      BY <3>1, PlainEventTypes, PlainTwo
  <2>2. CASE RequestQuestionTimeout(q)
    BY <2>2, TimeOutPlain DEF RequestQuestionTimeout, Request, Begin
  <2>. QED
    BY <2>1, <2>2
<1>. QED
  BY <1>1, <1>2, PlainStep

LEMMA CancelInv ==
  ASSUME Inv,
         \/ \E t \in Tasks : CancelTask(t)
         \/ \E cascade \in BOOLEAN : CancelWorkflow(cascade)
  PROVE  Inv'
<1>1. /\ UNCHANGED <<durable, phase, advance, due, crashes>>
      /\ onCommit' \subseteq Job /\ jobs' \subseteq Job /\ turn' \in {"mutation", "advance"}
  BY JobTypes DEF CancelTask, CancelWorkflow, Request, Begin, Inv, TypeOK, MemoryType
<1>2. PlainEvents(todo')
  <2>1. ASSUME NEW t \in Tasks, CancelTask(t)
        PROVE  PlainEvents(todo')
    <3> DEFINE first == <<TaskEvent("task.cancel_requested", t, "none")>>
               rest == CancelOpen(t, <<TaskEvent("run.state_changed", t, "cancelled")>>)
    <3>1. PlainEvents(first) /\ PlainEvents(<<TaskEvent("run.state_changed", t, "cancelled")>>)
      BY PlainEventTypes, PlainOne
    <3>2. PlainEvents(rest)
      BY <3>1, CancelOpenPlain
    <3>3. todo' = first \o rest
      BY <2>1 DEF CancelTask, Request, Begin
    <3>. QED
      BY <3>1, <3>2, <3>3, PlainConcat
  <2>2. ASSUME NEW cascade \in BOOLEAN, CancelWorkflow(cascade)
        PROVE  PlainEvents(todo')
    <3> DEFINE first == <<WorkflowEvent("cancelled")>>
               all == [i \in DOMAIN TaskIds |->
                         TaskEvent("task.cancel_requested", TaskIds[i], "none")]
    <3>1. PlainEvents(first)
      BY PlainEventTypes, PlainOne
    <3>2. PlainEvents(all)
      <4>1. ASSUME NEW i \in DOMAIN TaskIds
            PROVE  all[i] \in Event /\ Plain(all[i])
        BY ConstantsAssumption, PlainEventTypes
      <4>2. all \in Seq(Event)
        BY <4>1, ConstantsAssumption
      <4>. QED
        BY <4>1, <4>2 DEF PlainEvents
    <3>3. todo' = first \o (IF cascade THEN all ELSE <<>>)
      BY <2>2 DEF CancelWorkflow, Request, Begin
    <3> HIDE DEF first, all
    <3>. QED
      BY <3>1, <3>2, <3>3, PlainConcat, PlainNone
  <2>. QED
    BY <2>1, <2>2
<1>. QED
  BY <1>1, <1>2, PlainStep

LEMMA JobInv ==
  ASSUME Inv,
         \/ \E t \in Tasks :
              \/ TaskDeadline(t) \/ RecoveryTimeout(t)
              \/ \E g \in 1..MaxConnections + 1, answer \in {"assignment.accepted",
                                                             "assignment.delivery_failed"} :
                   FinishDelivery(t, g, answer)
         \/ \E q \in Questions : QuestionDeadline(q)
  PROVE  Inv'
<1>1. /\ UNCHANGED <<durable, phase, advance, due, crashes>>
      /\ onCommit' \subseteq Job /\ jobs' \subseteq Job /\ turn' \in {"mutation", "advance"}
  BY JobTypes
  DEF TaskDeadline, RecoveryTimeout, FinishDelivery, QuestionDeadline, StartJob, Begin,
      Inv, TypeOK, MemoryType
<1>2. PlainEvents(todo')
  <2>1. ASSUME NEW t \in Tasks, TaskDeadline(t)
        PROVE  PlainEvents(todo')
    <3>1. PlainEvents(CancelOpen(t, <<>>) \o <<TaskEvent("run.state_changed", t, "timed_out")>>)
      BY PlainNone, CancelOpenPlain, PlainEventTypes, PlainOne, PlainConcat
    <3>2. PlainEvents(<<TaskEvent("task.state_changed", t, "timed_out")>>)
      BY PlainEventTypes, PlainOne
    <3>3. \/ todo' = <<>>
          \/ todo' = <<TaskEvent("task.state_changed", t, "timed_out")>>
          \/ todo' = CancelOpen(t, <<>>) \o <<TaskEvent("run.state_changed", t, "timed_out")>>
      BY <2>1 DEF TaskDeadline, StartJob, Begin
    <3>. QED
      BY <3>1, <3>2, <3>3, PlainNone
  <2>2. ASSUME NEW t \in Tasks, RecoveryTimeout(t)
        PROVE  PlainEvents(todo')
    <3>1. PlainEvents(<<TaskEvent("run.result_missing", t, "none")>>)
      BY PlainEventTypes, PlainOne
    <3>. QED
      BY <2>2, <3>1, PlainNone DEF RecoveryTimeout, StartJob, Begin
  <2>3. ASSUME NEW t \in Tasks, NEW g \in 1..MaxConnections + 1,
               NEW answer \in {"assignment.accepted", "assignment.delivery_failed"},
               FinishDelivery(t, g, answer)
        PROVE  PlainEvents(todo')
    <3>1. PlainEvents(<<TaskEvent(answer, t, "none")>>)
      BY PlainEventTypes, PlainOne DEF AdapterProgress
    <3>. QED
      BY <2>3, <3>1, PlainNone DEF FinishDelivery, StartJob, Begin
  <2>4. ASSUME NEW q \in Questions, QuestionDeadline(q)
        PROVE  PlainEvents(todo')
    BY <2>4, TimeOutPlain DEF QuestionDeadline, StartJob, Begin
  <2>. QED
    BY <2>1, <2>2, <2>3, <2>4
<1>. QED
  BY <1>1, <1>2, PlainStep

\* A pass decides on justified events and changes nothing durable.
LEMMA PassStep ==
  ASSUME Inv, UNCHANGED <<durable, todo, onCommit, due, crashes>>,
         advTodo' \in Seq(Event), PendingPass(advTodo'), PassInv',
         /\ phase' \in {"down", "recover", "advance", "up"} /\ jobs' \subseteq Job
         /\ adv' \in {"off", "converge", "prompt", "block", "expire", "admit", "provision",
                      "compensate", "blockAgain", "fan", "write"}
         /\ advOwns' \in BOOLEAN /\ advSet' \subseteq Tasks
         /\ advTask' \in Tasks \union {None} /\ advSeen' \in WorkflowState
         /\ advFan' \in WorkflowState /\ provisioning' \in Nat
         /\ turn' \in {"mutation", "advance"}
  PROVE  Inv'
<1>1. MemoryType'
  BY DEF Inv, TypeOK, MemoryType
<1>2. PendingMutation(todo')
  BY DEF Inv
<1>3. (DurableType /\ StateInv /\ PendingMutation(todo) /\ PendingPass(advTodo))'
  BY <1>2, MemoryStep DEF Inv, TypeOK
<1>. QED
  BY <1>1, <1>3 DEF Inv, TypeOK

LEMMA StartAdvanceInv == Inv /\ StartAdvance => Inv'
<1> SUFFICES ASSUME Inv, StartAdvance PROVE Inv'
  OBVIOUS
<1>1. /\ UNCHANGED <<durable, phase, todo, onCommit, turn, due, crashes>>
      /\ jobs' \subseteq jobs
      /\ adv' = "converge" /\ advOwns' \in BOOLEAN /\ advSet' = Tasks /\ advSeen' = wf
      /\ UNCHANGED <<advTodo, advTask, advFan, provisioning>>
  BY DEF StartAdvance, BeginAdvance
<1>2. PassInv'
  BY <1>1 DEF Inv, PassInv, durable
<1>3. PendingPass(advTodo') /\ advTodo' \in Seq(Event)
  BY <1>1 DEF Inv, TypeOK, MemoryType
<1>. QED
  BY <1>1, <1>2, <1>3, PassStep DEF Inv, TypeOK, DurableType, MemoryType

\* A stage visits a task without leaving the stage.
LEMMA VisitStep ==
  ASSUME Inv, NEW stage, NEW t \in Tasks, NEW events, events \in Seq(Event), PendingPass(events),
         Visit(stage, t, events), UNCHANGED <<adv, advTask, provisioning>>, jobs' \subseteq Job
  PROVE  Inv'
<1>1. /\ UNCHANGED <<durable, phase, todo, onCommit, advOwns, advSeen, advFan, due, crashes>>
      /\ advSet' = advSet \ {t} /\ advTodo' = events /\ turn' \in {turn, "advance"}
  BY DEF Visit, Decide
<1>2. PassInv'
  BY <1>1 DEF Inv, PassInv, durable
<1>3. advTodo' \in Seq(Event) /\ PendingPass(advTodo')
  BY <1>1
<1>. QED
  BY <1>1, <1>2, <1>3, PassStep DEF Inv, TypeOK, MemoryType

\* What a pass makes of a run is justified by its result.
LEMMA ConvergenceJustified ==
  ASSUME Inv, NEW t \in Tasks
  PROVE  Convergence(t) \in Seq(Event) /\ PendingPass(Convergence(t))
<1>1. run[t].result \in ResultStatus \union {"none"}
  BY DEF Inv, TypeOK, DurableType, Run
<1>2. CASE run[t].result # "none" /\ Convergence(t) # <<>>
  <2> DEFINE e == TaskEvent("run.state_changed", t, run[t].result)
  <2>1. Convergence(t) = <<e>>
    BY <1>2 DEF Convergence
  <2>2. e \in Event /\ e.type = "run.state_changed" /\ Justified(e)
    BY <1>1, <1>2, TaskEventType DEF TaskEvent, Justified
  <2>. QED
    BY <2>1, <2>2 DEF PendingPass
<1>3. CASE run[t].result = "none" \/ Convergence(t) = <<>>
  <2>1. Convergence(t) \in {<<>>, <<TaskEvent("run.result_recovery_requested", t, "none")>>,
                            <<TaskEvent("run.result_missing", t, "none")>>}
    BY <1>3 DEF Convergence
  <2>2. PlainEvents(Convergence(t))
    BY <2>1, PlainNone, PlainEventTypes, PlainOne
  <2>. QED
    BY <2>2, PlainPending DEF PlainEvents
<1>. QED
  BY <1>2, <1>3

LEMMA ConvergeInv ==
  ASSUME Inv, NEW t \in Tasks, Converge(t)
  PROVE  Inv'
<1>1. jobs' \subseteq Job
  BY JobTypes DEF Converge, Inv, TypeOK, MemoryType
<1>. QED
  BY <1>1, ConvergenceJustified, VisitStep DEF Converge

LEMMA BlockExpireInv ==
  ASSUME Inv, NEW t \in Tasks, Block(t) \/ Expire(t)
  PROVE  Inv'
<1>1. jobs' \subseteq Job
  BY DEF Block, Expire, Inv, TypeOK, MemoryType
<1>2. ASSUME NEW stage, NEW to \in {"blocked", "timed_out"},
             \/ Visit(stage, t, <<TaskEvent("task.state_changed", t, to)>>)
             \/ Visit(stage, t, <<>>)
      PROVE  Inv'
  <2>1. PlainEvents(<<>>) /\ PlainEvents(<<TaskEvent("task.state_changed", t, to)>>)
    BY PlainNone, PlainEventTypes, PlainOne
  <2>2. \A events \in {<<>>, <<TaskEvent("task.state_changed", t, to)>>} :
          events \in Seq(Event) /\ PendingPass(events)
    BY <2>1, PlainPending DEF PlainEvents
  <2>3. UNCHANGED <<adv, advTask, provisioning>>
    BY DEF Block, Expire
  <2>. QED
    BY <1>1, <1>2, <2>2, <2>3, VisitStep
<1>. QED
  BY <1>2 DEF Block, Expire

\* A task that is admitted has the dependencies its run needs.
LEMMA AdmitInv ==
  ASSUME Inv, NEW t \in Tasks, Admit(t)
  PROVE  Inv'
<1>1. CASE Visit("admit", t, <<>>) /\ UNCHANGED <<adv, advTask, provisioning, jobs>>
  <2>1. <<>> \in Seq(Event) /\ PendingPass(<<>>) /\ jobs' \subseteq Job
    BY <1>1, PlainNone, PlainPending DEF Inv, TypeOK, MemoryType
  <2>. QED
    BY <1>1, <2>1, VisitStep
<1>2. CASE /\ Visit("admit", t, <<TaskEvent("run.created", t, "none"),
                                 TaskEvent("task.state_changed", t, "provisioning")>>)
           /\ adv' = "provision" /\ advTask' = t /\ provisioning' = provisioning + 1
           /\ UNCHANGED jobs
  <2> DEFINE created == TaskEvent("run.created", t, "none")
             changed == TaskEvent("task.state_changed", t, "provisioning")
  <2>1. /\ adv = "admit" /\ t \in advSet
        /\ UNCHANGED <<durable, phase, todo, onCommit, advOwns, advSeen, advFan, due, crashes>>
        /\ advSet' = advSet \ {t} /\ advTodo' = <<created, changed>>
        /\ turn' \in {turn, "advance"}
    BY <1>2 DEF Visit, InStage, Decide
  <2>2. Justified(created) /\ created.type = "run.created"
    BY <2>1 DEF Inv, PassInv, Justified, TaskEvent
  <2>3. Justified(changed) /\ changed.type = "task.state_changed"
    BY DEF Justified, TaskEvent
  <2>4. created \in Event /\ changed \in Event
    BY TaskEventType
  <2>5. DOMAIN advTodo' = {1, 2} /\ advTodo'[1] = created /\ advTodo'[2] = changed
    BY <2>1
  <2> HIDE DEF created, changed
  <2>6. advTodo' \in Seq(Event) /\ PendingPass(advTodo')
    BY <2>1, <2>2, <2>3, <2>4, <2>5 DEF PendingPass
  <2>7. PassInv'
    BY <1>2, <2>1 DEF Inv, PassInv, durable
  <2>8. provisioning' \in Nat
    BY <1>2 DEF Inv, TypeOK, MemoryType
  <2>. QED
    BY <1>2, <2>1, <2>6, <2>7, <2>8, PassStep DEF Inv, TypeOK, MemoryType
<1>. QED
  BY <1>1, <1>2 DEF Admit

LEMMA ProvisionedFrame ==
  ASSUME Inv, Provisioned
  PROVE  adv' = "admit" /\ advTask' = None /\ provisioning' \in Nat
  BY DEF Provisioned, Inv, TypeOK, MemoryType

LEMMA ProvisionReturnsInv ==
  ASSUME Inv, NEW outcome \in ProvisionOutcomes, ProvisionReturns(outcome)
  PROVE  Inv'
<1>1. /\ adv = "provision" /\ advTask \in Tasks
      /\ UNCHANGED <<durable, phase, todo, onCommit, jobs, advOwns, advSet, advSeen,
                     advFan, due, crashes>>
  BY DEF ProvisionReturns, InStage, Inv, PassInv
<1>2. /\ adv' \in {"admit", "compensate"} /\ advTask' \in Tasks \union {None}
      /\ provisioning' \in Nat /\ turn' \in {"mutation", "advance"}
      /\ advTodo' \in {advTodo, <<TaskEvent("run.state_changed", advTask, "failed")>>}
  BY ProvisionedFrame DEF ProvisionReturns, Decide, Inv, TypeOK, MemoryType
<1>3. PlainEvents(<<TaskEvent("run.state_changed", advTask, "failed")>>)
  BY <1>1, PlainEventTypes, PlainOne
<1>4. advTodo' \in Seq(Event) /\ PendingPass(advTodo')
  BY <1>2, <1>3, PlainPending DEF PlainEvents, Inv, TypeOK, MemoryType
<1>5. PassInv'
  BY <1>1, <1>2 DEF Inv, PassInv, durable
<1>. QED
  BY <1>1, <1>2, <1>4, <1>5, PassStep DEF Inv, TypeOK, MemoryType

LEMMA PromptReturnsInv == Inv /\ PromptReturns => Inv'
<1> SUFFICES ASSUME Inv, PromptReturns PROVE Inv'
  OBVIOUS
<1>1. /\ UNCHANGED <<durable, phase, todo, onCommit, advOwns, advSet, advTodo, advSeen,
                     advFan, provisioning, turn, due, crashes>>
      /\ adv' = "converge" /\ advTask' = None
  BY DEF PromptReturns
<1>2. jobs' \subseteq Job
  BY DEF PromptReturns, RecoveryJob, Job, JobKind, Inv, TypeOK, MemoryType
<1>3. PassInv'
  BY <1>1 DEF Inv, PassInv, durable
<1>4. advTodo' \in Seq(Event) /\ PendingPass(advTodo')
  BY <1>1 DEF Inv, TypeOK, MemoryType
<1>. QED
  BY <1>1, <1>2, <1>3, <1>4, PassStep DEF Inv, TypeOK, MemoryType

\* A pass enters the admission with tasks that are ready, and the fan-in says
\* succeeded only when every task did.
LEMMA NextStageInv == Inv /\ NextStage => Inv'
<1> SUFFICES ASSUME Inv, NextStage PROVE Inv'
  OBVIOUS
<1>1. PICK set \in SUBSET Tasks :
        \/ EnterStage("converge", "block", set) /\ advFan' = advFan
        \/ EnterStage("block", "expire", set) /\ advFan' = advFan
        \/ Admissible(set) /\ EnterStage("expire", "admit", set) /\ advFan' = advFan
        \/ EnterStage("admit", "blockAgain", set) /\ advFan' = FanIn
        \/ EnterStage("blockAgain", "fan", set) /\ advFan' = advFan
  BY DEF NextStage, Queued
<1>2. /\ UNCHANGED <<durable, phase, todo, onCommit, jobs, advOwns, advTodo, advTask,
                     advSeen, provisioning, turn, due, crashes>>
      /\ advSet' = set /\ adv' \in {"block", "expire", "admit", "blockAgain", "fan"}
      /\ adv' = "admit" => Admissible(set)
      /\ advFan' \in {advFan, FanIn}
  BY <1>1 DEF EnterStage
<1>3. FanIn \in WorkflowState /\ (FanIn = "succeeded" => \A t \in Tasks : task[t] = "succeeded")
  BY DEF FanIn, WorkflowState
<1>4. Admissible(set) => \A t \in set : \A d \in Deps[t] : task[d] = "succeeded"
  BY DEF Admissible, Ready
<1>5. PassInv'
  BY <1>2, <1>3, <1>4 DEF Inv, PassInv, durable
<1>6. advTodo' \in Seq(Event) /\ PendingPass(advTodo')
  BY <1>2 DEF Inv, TypeOK, MemoryType
<1>. QED
  BY <1>2, <1>3, <1>5, <1>6, PassStep DEF Inv, TypeOK, MemoryType

LEMMA EndAdvanceFrame ==
  ASSUME Inv, EndAdvance, UNCHANGED durable
  PROVE  /\ adv' = "off" /\ advOwns' = FALSE /\ advSet' = {} /\ advTodo' = <<>>
         /\ advTask' = None /\ advSeen' \in WorkflowState /\ advFan' \in WorkflowState
         /\ advTodo' \in Seq(Event) /\ PendingPass(advTodo') /\ PassInv'
<1>1. PlainEvents(<<>>)
  BY PlainNone
<1>2. PassInv'
  BY DEF EndAdvance, PassInv
<1>. QED
  BY <1>1, <1>2, PlainPending DEF EndAdvance, WorkflowState, PlainEvents

LEMMA FinishAdvanceInv == Inv /\ FinishAdvance => Inv'
<1> SUFFICES ASSUME Inv, FinishAdvance PROVE Inv'
  OBVIOUS
<1>1. UNCHANGED <<durable, todo, onCommit, jobs, provisioning, due, crashes>>
  BY DEF FinishAdvance
<1>2. CASE advSeen # advFan
  <2> DEFINE e == WorkflowEvent(advFan)
  <2>1. /\ advTodo' = <<e>> /\ adv' = "write" /\ turn' \in {turn, "advance"}
        /\ UNCHANGED <<phase, advOwns, advSet, advTask, advSeen, advFan>>
    BY <1>2 DEF FinishAdvance, Decide
  <2>2. e \in Event
    BY WorkflowEventType DEF Inv, TypeOK, MemoryType
  <2>3. Justified(e) /\ e.type = "workflow.state_changed"
    BY DEF Justified, WorkflowEvent, Inv, PassInv
  <2> HIDE DEF e
  <2>4. advTodo' \in Seq(Event) /\ PendingPass(advTodo')
    BY <2>1, <2>2, <2>3 DEF PendingPass
  <2>5. PassInv'
    BY <1>1, <2>1 DEF Inv, PassInv, durable
  <2>. QED
    BY <1>1, <2>1, <2>4, <2>5, PassStep DEF Inv, TypeOK, MemoryType
<1>3. CASE advSeen = advFan
  <2>1. EndAdvance /\ phase' \in {"up", phase} /\ UNCHANGED turn
    BY <1>3 DEF FinishAdvance, LeaveStart
  <2>. QED
    BY <1>1, <2>1, EndAdvanceFrame, PassStep DEF Inv, TypeOK, MemoryType
<1>. QED
  BY <1>2, <1>3

LEMMA AppendedInv ==
  ASSUME Inv, advTodo # <<>>, Appended, UNCHANGED <<due, crashes>>
  PROVE  Inv' /\ \A t \in Tasks : TaskEffect(Head(advTodo), t)
<1> DEFINE e == Head(advTodo)
<1>1. /\ Accepts(e) /\ Reduce(e) /\ e \in Event
      /\ UNCHANGED <<todo, onCommit, due, crashes>>
      /\ jobs' \subseteq Job /\ turn' \in {"mutation", "advance"}
  <2>1. e \in Event
    BY DEF Inv, TypeOK, MemoryType
  <2>2. jobs' \in {jobs, jobs \union {CompensateJob}} /\ turn' \in {"mutation", turn}
    BY DEF Appended
  <2>3. Accepts(e) /\ Reduce(e) /\ UNCHANGED <<todo, onCommit>>
    BY DEF Appended
  <2>. QED
    BY <2>1, <2>2, <2>3, JobTypes DEF Inv, TypeOK, MemoryType
<1>2. advTodo' \in {Tail(advTodo), <<>>} /\ advTodo' \in Seq(Event)
  <2>1. advTodo' \in {Tail(advTodo), <<>>}
    BY DEF Appended, EndAdvance
  <2>2. Tail(advTodo) \in Seq(Event) /\ <<>> \in Seq(Event)
    BY DEF Inv, TypeOK, MemoryType
  <2>. QED
    BY <2>1, <2>2
<1>3. /\ DurableType' /\ StateInv' /\ PendingMutation(todo)' /\ PendingPass(advTodo)'
      /\ \A t \in Tasks : TaskEffect(e, t)
  BY <1>1, <1>2, PassAppended
<1>4. CASE adv = "write"
  <2>1. EndAdvance /\ phase' \in {"up", phase} /\ UNCHANGED provisioning
    BY <1>4 DEF Appended, LeaveStart
  <2>2. MemoryType'
    BY <1>1, <1>2, <2>1 DEF EndAdvance, Inv, TypeOK, MemoryType, WorkflowState
  <2>3. PassInv'
    BY <2>1 DEF EndAdvance, PassInv
  <2>. QED
    BY <1>3, <2>2, <2>3 DEF Inv, TypeOK
<1>5. CASE adv # "write"
  <2>1. UNCHANGED <<phase, advOwns, advSet, advSeen, advFan>>
    BY <1>5 DEF Appended
  <2>2. \/ adv = "compensate" /\ Provisioned
        \/ /\ e.type = "run.result_recovery_requested" /\ adv' = "prompt" /\ advTask' = e.task
           /\ UNCHANGED provisioning
        \/ UNCHANGED <<adv, advTask, provisioning>>
    BY <1>5 DEF Appended
  <2>3. e.type = "run.result_recovery_requested" => e.task \in Tasks
    BY <1>1, EventFields
  <2>4. MemoryType'
    BY <1>1, <1>2, <2>1, <2>2, <2>3, ProvisionedFrame DEF Inv, TypeOK, MemoryType
  <2>5. \A t \in Tasks : task[t] = "succeeded" => task'[t] = "succeeded"
    BY <1>3 DEF TaskEffect
  <2>6. \A t \in Tasks : Deps[t] \subseteq Tasks
    BY ConstantsAssumption
  <2>7. PassInv'
    BY <2>1, <2>2, <2>5, <2>6, ProvisionedFrame DEF Inv, TypeOK, MemoryType, PassInv
  <2>. QED
    BY <1>3, <2>4, <2>7 DEF Inv, TypeOK
<1>. QED
  BY <1>3, <1>4, <1>5

LEMMA RejectedInv ==
  ASSUME Inv, Rejected, UNCHANGED <<due, crashes>>
  PROVE  Inv'
<1>1. UNCHANGED durable
  BY DEF Rejected
<1>2. CASE LoseMemory
  BY <1>1, <1>2, LoseMemoryInv DEF Inv, TypeOK, MemoryType
<1>3. CASE /\ Provisioned /\ advTodo' = <<>> /\ adv = "compensate"
           /\ UNCHANGED <<advOwns, advSet, advSeen, advFan>>
           /\ turn' \in {"mutation", turn} /\ UNCHANGED <<phase, jobs, todo, onCommit>>
  <2>1. advTodo' \in Seq(Event) /\ PendingPass(advTodo')
    BY <1>3, PlainNone, PlainPending DEF PlainEvents
  <2>2. PassInv'
    BY <1>1, <1>3, ProvisionedFrame DEF Inv, PassInv, durable
  <2>. QED
    BY <1>1, <1>3, <2>1, <2>2, ProvisionedFrame, PassStep DEF Inv, TypeOK, MemoryType
<1>4. CASE /\ EndAdvance /\ UNCHANGED provisioning
           /\ turn' \in {"mutation", turn} /\ UNCHANGED <<phase, jobs, todo, onCommit>>
  BY <1>1, <1>4, EndAdvanceFrame, PassStep DEF Inv, TypeOK, MemoryType
<1>. QED
  BY <1>2, <1>3, <1>4 DEF Rejected

\* A crash, start(), and the clock.
LEMMA ProcessInv ==
  ASSUME Inv, Crash \/ Restart \/ FinishRecovery \/ \E item \in Deadlines : DeadlinePasses(item)
  PROVE  Inv'
<1>1. CASE Crash
  <2>1. LoseMemory /\ UNCHANGED <<durable, due>> /\ crashes' = crashes + 1
    BY <1>1 DEF Crash
  <2>2. crashes' \in Nat
    BY <2>1 DEF Inv, TypeOK, MemoryType
  <2>. QED
    BY <2>1, <2>2, LoseMemoryInv
<1>2. OpenTimers \subseteq Job
  BY JobTypes DEF OpenTimers
<1>3. ASSUME UNCHANGED advTodo
      PROVE  advTodo' \in Seq(Event) /\ PendingPass(advTodo')
  BY <1>3 DEF Inv, TypeOK, MemoryType
<1>4. ASSUME UNCHANGED <<durable, advance>>
      PROVE  PassInv'
  BY <1>4 DEF Inv, PassInv, durable, advance
<1>5. CASE Restart
  <2>1. /\ phase' = "recover" /\ jobs' \subseteq Job
        /\ UNCHANGED <<durable, todo, onCommit, advance, turn, due, crashes>>
    BY <1>2, <1>5 DEF Restart
  <2>. QED
    BY <1>3, <1>4, <2>1, PassStep DEF Inv, TypeOK, MemoryType, advance
<1>6. CASE FinishRecovery
  <2>1. /\ phase' \in {"up", "advance"} /\ jobs' = OpenTimers
        /\ UNCHANGED <<durable, todo, onCommit, turn, due, crashes>>
        /\ UNCHANGED advance \/ BeginAdvance(FALSE)
    BY <1>6 DEF FinishRecovery
  <2>2. CASE UNCHANGED advance
    BY <1>2, <1>3, <1>4, <2>1, <2>2, PassStep DEF Inv, TypeOK, MemoryType, advance
  <2>3. CASE BeginAdvance(FALSE)
    <3>1. /\ adv' = "converge" /\ advOwns' = FALSE /\ advSet' = Tasks /\ advSeen' = wf
          /\ UNCHANGED <<advTodo, advTask, advFan, provisioning>>
      BY <2>3 DEF BeginAdvance
    <3>2. PassInv'
      BY <2>1, <3>1 DEF Inv, PassInv, durable
    <3>. QED
      BY <1>2, <1>3, <2>1, <3>1, <3>2, PassStep DEF Inv, TypeOK, MemoryType, DurableType
  <2>. QED
    BY <2>1, <2>2, <2>3
<1>7. ASSUME NEW item \in Deadlines, DeadlinePasses(item)
      PROVE  Inv'
  <2>1. /\ due' = due \union {item} /\ item \in Tasks \union Questions
        /\ UNCHANGED <<durable, phase, todo, onCommit, jobs, advance, turn, crashes>>
    BY <1>7, ConstantsAssumption DEF DeadlinePasses
  <2>2. MemoryType'
    BY <2>1 DEF Inv, TypeOK, MemoryType, advance
  <2>3. (DurableType /\ StateInv /\ PendingMutation(todo) /\ PendingPass(advTodo))'
    BY <2>1, MemoryStep DEF Inv, TypeOK, advance
  <2>4. PassInv'
    BY <1>4, <2>1
  <2>. QED
    BY <2>2, <2>3, <2>4 DEF Inv, TypeOK
<1>. QED
  BY <1>1, <1>5, <1>6, <1>7

LEMMA StutterInv == Inv /\ UNCHANGED vars => Inv'
<1> SUFFICES ASSUME Inv, UNCHANGED vars PROVE Inv'
  OBVIOUS
<1>1. UNCHANGED <<durable, phase, todo, onCommit, jobs, advance, turn, due, crashes>>
  BY DEF vars
<1>2. todo' \in Seq(Event) /\ PendingMutation(todo')
  BY <1>1 DEF Inv, TypeOK, MemoryType
<1>. QED
  BY <1>1, <1>2, QueueStep DEF Inv, TypeOK, MemoryType

\* A step preserves the invariant, action by action.
LEMMA NextInv == Inv /\ [Next]_vars => Inv'
<1> SUFFICES ASSUME Inv, [Next]_vars PROVE Inv'
  OBVIOUS
<1>1. CASE AppendMutation
  BY <1>1, AppendMutationInv
<1>2. CASE AppendAdvance
  BY <1>2, AppendedInv, RejectedInv DEF AppendAdvance
<1>3. CASE Requests
  BY <1>3, AgentRequestInv, PublishResultInv, OpenQuestionInv, CloseQuestionInv, CancelInv
  DEF Requests
<1>4. CASE Jobs
  BY <1>4, JobInv, StartAdvanceInv DEF Jobs
<1>5. CASE AdvanceStep
  BY <1>5, ConvergeInv, BlockExpireInv, AdmitInv, ProvisionReturnsInv, PromptReturnsInv,
     NextStageInv, FinishAdvanceInv
  DEF AdvanceStep
<1>6. CASE Crash \/ Restart \/ FinishRecovery \/ \E item \in Deadlines : DeadlinePasses(item)
  BY <1>6, ProcessInv
<1>7. CASE UNCHANGED vars
  BY <1>7, StutterInv
<1>. QED
  BY <1>1, <1>2, <1>3, <1>4, <1>5, <1>6, <1>7 DEF Next

\* Only the append of a justified event changes a task or its run.
LEMMA StepEffect ==
  ASSUME Inv, [Next]_vars
  PROVE  UNCHANGED <<task, run>> \/ \E e \in Event : \A t \in Tasks : TaskEffect(e, t)
<1>1. CASE AppendMutation
  <2>1. CASE Accepts(Head(todo))
    <3>1. /\ todo # <<>> /\ Reduce(Head(todo)) /\ todo' = Tail(todo) /\ UNCHANGED advance
          /\ Head(todo) \in Event
      BY <1>1, <2>1 DEF AppendMutation, Inv, TypeOK, MemoryType
    <3>. QED
      BY <2>1, <3>1, MutationAppended DEF advance
  <2>2. CASE ~Accepts(Head(todo))
    BY <1>1, <2>2 DEF AppendMutation, durable
  <2>. QED
    BY <2>1, <2>2
<1>2. CASE AppendAdvance
  <2>1. CASE Appended
    <3>1. Head(advTodo) \in Event
      BY <1>2 DEF AppendAdvance, Inv, TypeOK, MemoryType
    <3>. QED
      BY <1>2, <2>1, <3>1, AppendedInv DEF AppendAdvance
  <2>2. CASE Rejected
    BY <2>2 DEF Rejected, durable
  <2>. QED
    BY <1>2, <2>1, <2>2 DEF AppendAdvance
<1>3. CASE Requests
  BY <1>3
  DEF Requests, Register, TurnStart, AgentSettled, CancelTask, PublishResult, OpenQuestion,
      AnswerQuestion, RequestQuestionTimeout, CancelWorkflow, Request, durable
<1>4. CASE Jobs
  BY <1>4
  DEF Jobs, TaskDeadline, RecoveryTimeout, FinishDelivery, QuestionDeadline, StartJob,
      StartAdvance, durable
<1>5. CASE AdvanceStep
  BY <1>5
  DEF AdvanceStep, Converge, Block, Expire, Admit, Visit, ProvisionReturns, PromptReturns,
      NextStage, EnterStage, FinishAdvance, durable
<1>6. CASE Crash \/ Restart \/ FinishRecovery \/ \E item \in Deadlines : DeadlinePasses(item)
  BY <1>6 DEF Crash, Restart, FinishRecovery, DeadlinePasses, durable
<1>7. CASE UNCHANGED vars
  BY <1>7 DEF vars, durable
<1>. QED
  BY <1>1, <1>2, <1>3, <1>4, <1>5, <1>6, <1>7 DEF Next

-----------------------------------------------------------------------------
(* The theorems. *)

\* Whatever mixture of requests, timers, passes and crashes occurs, what is
\* pending stays justified.
THEOREM Invariance == Spec => []Inv
  BY InitInv, NextInv, PTL DEF Spec

\* The variables keep their types.
THEOREM TypeCorrect == Spec => []TypeOK
<1>1. Inv => TypeOK
  BY DEF Inv
<1>. QED
  BY <1>1, Invariance, PTL

\* A run has at most one open question (INV-04).
THEOREM QuestionSafety == Spec => []OneOpenQuestion
<1>1. Inv => OneOpenQuestion
  BY DEF Inv, StateInv
<1>. QED
  BY <1>1, Invariance, PTL

\* A task succeeds only with a run and a result that succeeded (INV-10).
THEOREM SuccessSafety == Spec => []SuccessNeedsResult
<1>1. Inv => SuccessNeedsResult
  BY DEF Inv, StateInv, SuccessNeedsResult
<1>. QED
  BY <1>1, Invariance, PTL

\* No task starts before those it depends on succeeded.
THEOREM DependencySafety == Spec => []DependencyRespected
<1>1. Inv => DependencyRespected
  BY DEF Inv, StateInv
<1>. QED
  BY <1>1, Invariance, PTL

\* The workflow succeeds only when every task did (INV-11).
THEOREM WorkflowSafety == Spec => []WorkflowSuccess
<1>1. Inv => WorkflowSuccess
  BY DEF Inv, StateInv
<1>. QED
  BY <1>1, Invariance, PTL

\* Success is final, for the task and for its run.
THEOREM SuccessFinality == Spec => SuccessIsFinal
<1>1. ASSUME Inv, [Next]_vars
      PROVE  \A t \in Tasks :
               /\ run[t].state = "succeeded" => run'[t].state = "succeeded"
               /\ task[t] = "succeeded" => task'[t] = "succeeded"
  BY <1>1, StepEffect DEF TaskEffect
<1>. QED
  BY <1>1, Invariance, PTL DEF Spec, SuccessIsFinal

\* A run accepts one result and keeps it (INV-03).
THEOREM ResultFinality == Spec => OneResult
<1>1. ASSUME Inv, [Next]_vars
      PROVE  \A t \in Tasks :
               run[t].result # "none" => run'[t].result = run[t].result
  BY <1>1, StepEffect DEF TaskEffect
<1>. QED
  BY <1>1, Invariance, PTL DEF Spec, OneResult

-----------------------------------------------------------------------------
(* Capacity.  The limit holds of more tasks than the ones that occupy an     *)
(* agent: it holds with those whose run a pass is about to record, and those *)
(* it planned to admit.                                                      *)

Occupied == {t \in Tasks : task[t] \in {"provisioning", "assigned"}}

Awaited ==
  {t \in Tasks : \E i \in DOMAIN advTodo : Occupies(advTodo[i]) /\ advTodo[i].task = t}

Planned == IF adv \in {"admit", "provision", "compensate"} THEN advSet ELSE {}

Claimed == Occupied \union Awaited \union Planned

SlotsKept == Cardinality(Claimed) <= MaxActive

LEMMA TasksFinite == IsFiniteSet(Tasks)
<1>1. TaskIds \in [1 .. Len(TaskIds) -> Tasks] /\ Len(TaskIds) \in Nat
  BY ConstantsAssumption
<1>2. \A t \in Tasks : \E i \in 1 .. Len(TaskIds) : TaskIds[i] = t
  BY <1>1, ConstantsAssumption
<1>3. TaskIds \in Surjection(1 .. Len(TaskIds), Tasks)
  BY <1>1, <1>2 DEF Surjection
<1>. QED
  BY <1>1, <1>3, FS_Interval, FS_Surjection

\* Sets of tasks are finite, and a smaller one has no more members.
LEMMA FewerTasks ==
  ASSUME NEW S \in SUBSET Tasks, NEW T \in SUBSET S
  PROVE  /\ Cardinality(S) \in Nat /\ Cardinality(T) \in Nat
         /\ Cardinality(T) <= Cardinality(S)
<1>1. IsFiniteSet(S) /\ IsFiniteSet(T)
  BY TasksFinite, FS_Subset
<1>. QED
  BY <1>1, FS_Subset, FS_CardinalityType

LEMMA ClaimedTasks == TypeOK => Claimed \subseteq Tasks /\ Occupied \subseteq Tasks
  BY DEF TypeOK, MemoryType, Claimed, Occupied, Awaited, Planned

LEMMA SlotsLater ==
  ASSUME TypeOK, SlotsKept, Claimed' \subseteq Claimed
  PROVE  SlotsKept'
<1>1. /\ Cardinality(Claimed) \in Nat /\ Cardinality(Claimed') \in Nat
      /\ Cardinality(Claimed') <= Cardinality(Claimed)
  BY ClaimedTasks, FewerTasks
<1>2. MaxActive \in Nat
  BY ConstantsAssumption
<1>3. Cardinality(Claimed') <= MaxActive
  BY <1>1, <1>2 DEF SlotsKept
<1>. QED
  BY <1>3 DEF SlotsKept

\* A step that claims no further task.
LEMMA ClaimStep ==
  ASSUME TypeOK, SlotsKept, Occupied' \subseteq Claimed, Awaited' \subseteq Claimed,
         Planned' \subseteq Claimed
  PROVE  SlotsKept'
<1>1. Claimed' \subseteq Claimed
  BY DEF Claimed
<1>. QED
  BY <1>1, SlotsLater

\* Only the events that give a task an agent occupy one.
LEMMA ReduceOccupied ==
  ASSUME DurableType, NEW e \in Event, Accepts(e), Reduce(e)
  PROVE  \A t \in Occupied' : t \in Occupied \/ (Occupies(e) /\ t = e.task)
<1> SUFFICES ASSUME NEW t \in Tasks, task'[t] \in {"provisioning", "assigned"}
             PROVE  task[t] \in {"provisioning", "assigned"} \/ (Occupies(e) /\ t = e.task)
  BY DEF Occupied
<1>1. CASE e.type = "run.created"
  BY <1>1 DEF Reduce, ReduceRunCreated, RunEvent, AdapterProgress, DurableType, Occupies
<1>2. CASE e.type \in RunEvent
  <2>1. ReduceRunEvent(e)
    BY <1>2 DEF Reduce, RunEvent, AdapterProgress
  <2>. QED
    BY <2>1 DEF ReduceRunEvent, DurableType, Terminal
<1>3. CASE e.type = "task.cancel_requested"
  BY <1>3 DEF Reduce, ReduceCancelRequested, RunEvent, AdapterProgress, DurableType
<1>4. CASE e.type = "task.state_changed"
  <2>1. e.to \in {"provisioning", "blocked", "timed_out"} /\ task' = [task EXCEPT ![e.task] = e.to]
    BY <1>4, EventFields DEF Reduce, RunEvent, AdapterProgress
  <2>. QED
    BY <1>4, <2>1 DEF DurableType, Occupies
<1>5. CASE e.type \in {"agent.state_changed", "workflow.state_changed", "question.opened",
                       "question.closed"}
  BY <1>5 DEF Reduce, RunEvent, AdapterProgress
<1>. QED
  BY <1>1, <1>2, <1>3, <1>4, <1>5, EventFields

LEMMA InitSlots == Init => SlotsKept
<1> SUFFICES ASSUME Init PROVE SlotsKept
  OBVIOUS
<1>1. Claimed = {}
  BY DEF Init, Claimed, Occupied, Awaited, Planned
<1>. QED
  BY <1>1, FS_EmptySet, ConstantsAssumption DEF SlotsKept

\* What is in memory claims tasks; less of it claims fewer.
LEMMA LoseMemorySlots ==
  ASSUME TypeOK, SlotsKept, UNCHANGED durable, LoseMemory \/ EndAdvance
  PROVE  SlotsKept'
<1>1. Occupied' \subseteq Claimed /\ Awaited' = {} /\ Planned' = {}
  BY DEF durable, LoseMemory, EndAdvance, Occupied, Awaited, Planned, Claimed
<1>. QED
  BY <1>1, ClaimStep

LEMMA SameSlots ==
  ASSUME TypeOK, SlotsKept, UNCHANGED <<durable, advTodo, adv, advSet>>
  PROVE  SlotsKept'
<1>1. Claimed' \subseteq Claimed
  BY DEF durable, Occupied, Awaited, Planned, Claimed
<1>. QED
  BY <1>1, SlotsLater

LEMMA AppendMutationSlots == Inv /\ SlotsKept /\ AppendMutation => SlotsKept'
<1> SUFFICES ASSUME Inv, SlotsKept, AppendMutation PROVE SlotsKept'
  OBVIOUS
<1>1. TypeOK /\ DurableType
  BY DEF Inv, TypeOK
<1>2. CASE Accepts(Head(todo))
  <2>1. Reduce(Head(todo)) /\ UNCHANGED <<advTodo, adv, advSet>>
    BY <1>2 DEF AppendMutation, advance
  <2>2. Head(todo) \in Event /\ ~Occupies(Head(todo))
    BY DEF AppendMutation, Inv, TypeOK, MemoryType, PendingMutation
  <2>3. Occupied' \subseteq Claimed
    BY <1>1, <1>2, <2>1, <2>2, ReduceOccupied DEF Claimed
  <2>4. Awaited' \subseteq Claimed /\ Planned' \subseteq Claimed
    BY <2>1 DEF Awaited, Planned, Claimed
  <2>. QED
    BY <1>1, <2>3, <2>4, ClaimStep
<1>3. CASE ~Accepts(Head(todo))
  BY <1>1, <1>3, LoseMemorySlots, SameSlots DEF AppendMutation, advance
<1>. QED
  BY <1>2, <1>3

LEMMA AppendAdvanceSlots == Inv /\ SlotsKept /\ AppendAdvance => SlotsKept'
<1> SUFFICES ASSUME Inv, SlotsKept, AppendAdvance PROVE SlotsKept'
  OBVIOUS
<1>1. TypeOK /\ DurableType /\ advTodo \in Seq(Event) /\ advTodo # <<>>
  BY DEF AppendAdvance, Inv, TypeOK, MemoryType
<1>2. CASE Appended
  <2> DEFINE e == Head(advTodo)
  <2>1. Accepts(e) /\ Reduce(e) /\ e \in Event /\ 1 \in DOMAIN advTodo /\ e = advTodo[1]
    BY <1>1, <1>2 DEF Appended
  <2>2. \/ EndAdvance
        \/ advTodo' = Tail(advTodo) /\ advSet' = advSet /\ adv' \in {adv, "prompt"}
        \/ advTodo' = Tail(advTodo) /\ advSet' = advSet /\ adv = "compensate"
    BY <1>2 DEF Appended
  <2>3. Occupied' \subseteq Claimed
    BY <1>1, <2>1, ReduceOccupied DEF Claimed, Awaited, Occupied
  <2>4. Awaited' \subseteq Claimed
    <3>1. CASE EndAdvance
      BY <3>1 DEF EndAdvance, Awaited
    <3>2. CASE advTodo' = Tail(advTodo)
      <4>1. ASSUME NEW i \in DOMAIN advTodo'
            PROVE  i + 1 \in DOMAIN advTodo /\ advTodo'[i] = advTodo[i + 1]
        BY <1>1, <3>2
      <4>. QED
        BY <4>1 DEF Awaited, Claimed
    <3>. QED
      BY <2>2, <3>1, <3>2
  <2>5. Planned' \subseteq Claimed
    BY <2>2 DEF EndAdvance, Planned, Claimed
  <2>. QED
    BY <1>1, <2>3, <2>4, <2>5, ClaimStep
<1>3. CASE Rejected
  <2>1. UNCHANGED durable
    BY <1>3 DEF Rejected
  <2>2. CASE LoseMemory \/ EndAdvance
    BY <1>1, <2>1, <2>2, LoseMemorySlots
  <2>3. CASE /\ adv = "compensate" /\ adv' = "admit" /\ advTodo' = <<>> /\ advSet' = advSet
    <3>1. Occupied' \subseteq Claimed /\ Awaited' = {} /\ Planned' \subseteq Claimed
      BY <2>1, <2>3 DEF durable, Occupied, Awaited, Planned, Claimed
    <3>. QED
      BY <1>1, <3>1, ClaimStep
  <2>. QED
    BY <1>3, <2>2, <2>3 DEF Rejected, Provisioned
<1>. QED
  BY <1>2, <1>3 DEF AppendAdvance

\* A pass plans no more admissions than there are free slots.
LEMMA NextStageSlots == Inv /\ SlotsKept /\ NextStage => SlotsKept'
<1> SUFFICES ASSUME Inv, SlotsKept, NextStage PROVE SlotsKept'
  OBVIOUS
<1>1. TypeOK /\ UNCHANGED durable /\ advTodo = <<>> /\ advTodo' = <<>>
  BY DEF NextStage, EnterStage, InStage, Inv
<1>2. Occupied' = Occupied /\ Awaited' = {}
  BY <1>1 DEF durable, Occupied, Awaited
<1>3. CASE adv' \in {"block", "expire", "blockAgain", "fan"}
  <2>1. Planned' = {}
    BY <1>3 DEF Planned
  <2>. QED
    BY <1>1, <1>2, <2>1, ClaimStep DEF Claimed
<1>4. ASSUME NEW set \in SUBSET Tasks, Admissible(set), EnterStage("expire", "admit", set)
      PROVE  SlotsKept'
  <2>1. Claimed' = Occupied \union set
    BY <1>2, <1>4 DEF EnterStage, Planned, Claimed
  <2>2. /\ Occupied \subseteq Active /\ Active \subseteq Tasks /\ Occupied \subseteq Claimed
        /\ Claimed \subseteq Tasks
    BY <1>1, ClaimedTasks DEF Occupied, Active, Claimed
  <2> DEFINE O == Cardinality(Occupied)
             A == Cardinality(Active)
             S == Cardinality(set)
  <2>3. O \in Nat /\ A \in Nat /\ S \in Nat /\ O <= A
    BY <2>2, FewerTasks
  <2>4. O <= MaxActive
    <3>1. O <= Cardinality(Claimed) /\ Cardinality(Claimed) \in Nat
      BY <2>2, FewerTasks
    <3>. QED
      BY <2>3, <3>1, ConstantsAssumption DEF SlotsKept
  <2>5. S <= IF A >= MaxActive THEN 0 ELSE MaxActive - A
    <3>1. Ready \subseteq Tasks
      BY DEF Ready, Queued
    <3>2. Cardinality(Ready) \in Nat /\ MaxActive \in Nat
      BY <3>1, FewerTasks, ConstantsAssumption
    <3>. QED
      BY <1>4, <2>3, <3>2 DEF Admissible
  <2>6. Cardinality(Occupied \union set) <= O + S
    <3>1. IsFiniteSet(Occupied) /\ IsFiniteSet(set)
      BY <2>2, TasksFinite, FS_Subset
    <3>2. Cardinality(Occupied \cap set) \in Nat
      BY <2>2, FewerTasks
    <3>3. Cardinality(Occupied \union set) = O + S - Cardinality(Occupied \cap set)
      BY <3>1, FS_Union
    <3>. QED
      BY <2>3, <3>2, <3>3
  <2>7. Cardinality(Occupied \union set) \in Nat
    BY <2>2, FewerTasks
  <2>8. O + S <= MaxActive
    BY <2>3, <2>4, <2>5, ConstantsAssumption
  <2>9. Cardinality(Claimed') <= MaxActive
    BY <2>1, <2>3, <2>6, <2>7, <2>8, ConstantsAssumption
  <2>. QED
    BY <2>9 DEF SlotsKept
<1>. QED
  BY <1>3, <1>4 DEF NextStage, EnterStage

LEMMA AdvanceStepSlots == Inv /\ SlotsKept /\ AdvanceStep => SlotsKept'
<1> SUFFICES ASSUME Inv, SlotsKept, AdvanceStep PROVE SlotsKept'
  OBVIOUS
<1>1. TypeOK
  BY DEF Inv
<1>2. ASSUME NEW stage, NEW t \in Tasks, NEW events,
             Visit(stage, t, events), adv' = adv, \A i \in DOMAIN events : ~Occupies(events[i])
      PROVE  SlotsKept'
  <2>1. UNCHANGED durable /\ advTodo' = events /\ advSet' \subseteq advSet
    BY <1>2 DEF Visit, Decide
  <2>2. Occupied' \subseteq Claimed /\ Awaited' = {} /\ Planned' \subseteq Claimed
    BY <1>2, <2>1 DEF durable, Occupied, Awaited, Planned, Claimed
  <2>. QED
    BY <1>1, <2>2, ClaimStep
<1>3. ASSUME NEW t \in Tasks, Converge(t)
      PROVE  SlotsKept'
  <2>1. \A i \in DOMAIN Convergence(t) : ~Occupies(Convergence(t)[i])
    BY DEF Convergence, Occupies, TaskEvent
  <2>. QED
    BY <1>2, <1>3, <2>1 DEF Converge
<1>4. ASSUME NEW t \in Tasks, Block(t) \/ Expire(t)
      PROVE  SlotsKept'
  <2>1. \A to \in {"blocked", "timed_out"} :
          \A events \in {<<>>, <<TaskEvent("task.state_changed", t, to)>>} :
            \A i \in DOMAIN events : ~Occupies(events[i])
    BY DEF Occupies, TaskEvent
  <2>. QED
    BY <1>2, <1>4, <2>1 DEF Block, Expire
<1>5. ASSUME NEW t \in Tasks, Admit(t)
      PROVE  SlotsKept'
  <2>1. CASE Visit("admit", t, <<>>) /\ adv' = adv
    BY <1>2, <2>1
  <2>2. CASE /\ Visit("admit", t, <<TaskEvent("run.created", t, "none"),
                                    TaskEvent("task.state_changed", t, "provisioning")>>)
             /\ adv' = "provision"
    <3>1. /\ adv = "admit" /\ t \in advSet /\ UNCHANGED durable /\ advSet' = advSet \ {t}
          /\ advTodo' = <<TaskEvent("run.created", t, "none"),
                          TaskEvent("task.state_changed", t, "provisioning")>>
      BY <2>2 DEF Visit, InStage, Decide
    <3>2. Occupied' \subseteq Claimed /\ Planned' \subseteq Claimed
      BY <2>2, <3>1 DEF durable, Occupied, Planned, Claimed
    <3>3. Awaited' \subseteq {t}
      BY <3>1 DEF Awaited, TaskEvent
    <3>. QED
      BY <1>1, <3>1, <3>2, <3>3, ClaimStep DEF Planned, Claimed
  <2>. QED
    BY <1>5, <2>1, <2>2 DEF Admit
<1>6. ASSUME NEW outcome \in ProvisionOutcomes, ProvisionReturns(outcome)
      PROVE  SlotsKept'
  <2>1. /\ adv = "provision" /\ UNCHANGED <<durable, advSet>> /\ advTodo = <<>>
        /\ advTodo' \in {<<>>, <<TaskEvent("run.state_changed", advTask, "failed")>>}
    BY <1>6 DEF ProvisionReturns, InStage, Decide
  <2>2. Occupied' \subseteq Claimed /\ Planned' \subseteq Claimed /\ Awaited' = {}
    BY <2>1 DEF durable, Occupied, Planned, Claimed, Awaited, Occupies, TaskEvent
  <2>. QED
    BY <1>1, <2>2, ClaimStep
<1>7. CASE PromptReturns
  <2>1. Occupied' \subseteq Claimed /\ Planned' = {} /\ Awaited' \subseteq Claimed
    BY <1>7 DEF PromptReturns, durable, Occupied, Planned, Awaited, Claimed
  <2>. QED
    BY <1>1, <2>1, ClaimStep
<1>8. CASE FinishAdvance
  <2>1. CASE advTodo' = <<WorkflowEvent(advFan)>> /\ adv' = "write"
    <3>1. Occupied' \subseteq Claimed /\ Planned' = {} /\ Awaited' = {}
      BY <1>8, <2>1
      DEF FinishAdvance, durable, Occupied, Planned, Awaited, Claimed, Occupies, WorkflowEvent
    <3>. QED
      BY <1>1, <3>1, ClaimStep
  <2>2. CASE EndAdvance
    BY <1>1, <1>8, <2>2, LoseMemorySlots DEF FinishAdvance
  <2>. QED
    BY <1>8, <2>1, <2>2 DEF FinishAdvance, Decide
<1>. QED
  BY <1>3, <1>4, <1>5, <1>6, <1>7, <1>8, NextStageSlots DEF AdvanceStep

LEMMA NextSlots == Inv /\ SlotsKept /\ [Next]_vars => SlotsKept'
<1> SUFFICES ASSUME Inv, SlotsKept, [Next]_vars PROVE SlotsKept'
  OBVIOUS
<1>1. TypeOK
  BY DEF Inv
<1>2. CASE AppendMutation \/ AppendAdvance \/ AdvanceStep
  BY <1>2, AppendMutationSlots, AppendAdvanceSlots, AdvanceStepSlots
<1>3. CASE Requests
  <2>1. UNCHANGED <<durable, advTodo, adv, advSet>>
    BY <1>3
    DEF Requests, Register, TurnStart, AgentSettled, CancelTask, PublishResult, OpenQuestion,
        AnswerQuestion, RequestQuestionTimeout, CancelWorkflow, Request, advance
  <2>. QED
    BY <1>1, <2>1, SameSlots
<1>4. ASSUME UNCHANGED <<durable, advTodo>>, BeginAdvance(TRUE) \/ BeginAdvance(FALSE)
      PROVE  SlotsKept'
  <2>1. Occupied' \subseteq Claimed /\ Planned' = {} /\ Awaited' \subseteq Claimed
    BY <1>4 DEF BeginAdvance, durable, Occupied, Planned, Awaited, Claimed
  <2>. QED
    BY <1>1, <2>1, ClaimStep
<1>5. CASE Jobs
  <2>1. CASE StartAdvance
    BY <1>4, <2>1 DEF StartAdvance, BeginAdvance
  <2>2. CASE UNCHANGED <<durable, advTodo, adv, advSet>>
    BY <1>1, <2>2, SameSlots
  <2>. QED
    BY <1>5, <2>1, <2>2
    DEF Jobs, TaskDeadline, RecoveryTimeout, FinishDelivery, QuestionDeadline, StartJob, advance
<1>6. CASE Crash
  BY <1>1, <1>6, LoseMemorySlots DEF Crash
<1>7. CASE Restart \/ \E item \in Deadlines : DeadlinePasses(item)
  BY <1>1, <1>7, SameSlots DEF Restart, DeadlinePasses, advance
<1>8. CASE FinishRecovery
  BY <1>1, <1>4, <1>8, SameSlots DEF FinishRecovery, BeginAdvance, advance
<1>9. CASE UNCHANGED vars
  BY <1>1, <1>9, SameSlots DEF vars, advance
<1>. QED
  BY <1>2, <1>3, <1>5, <1>6, <1>7, <1>8, <1>9 DEF Next

\* The tasks that occupy an agent stay within the limit, though a pass plans its
\* admissions on a state that others change while it provisions them.
THEOREM CapacitySafety == Spec => []CapacityRespected
<1>1. Inv /\ SlotsKept => CapacityRespected
  <2> SUFFICES ASSUME Inv, SlotsKept PROVE CapacityRespected
    OBVIOUS
  <2>1. Occupied \subseteq Claimed /\ Claimed \subseteq Tasks
    BY ClaimedTasks DEF Inv, Claimed
  <2>2. /\ Cardinality(Occupied) \in Nat /\ Cardinality(Claimed) \in Nat
        /\ Cardinality(Occupied) <= Cardinality(Claimed)
    BY <2>1, FewerTasks
  <2>3. Cardinality(Occupied) <= MaxActive
    BY <2>2, ConstantsAssumption DEF SlotsKept
  <2>. QED
    BY <2>3 DEF CapacityRespected, Occupied
<1>. QED
  BY <1>1, InitInv, NextInv, InitSlots, NextSlots, PTL DEF Spec

=============================================================================
