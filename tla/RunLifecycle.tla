---------------------------- MODULE RunLifecycle ----------------------------
(***************************************************************************)
(* The broker's run lifecycle: one workflow scheduled by compact.delegate, *)
(* its tasks, their runs, results and questions, from admission to a       *)
(* terminal state, with the deadlines, the result-recovery prompt, the     *)
(* workflow's advance pass, cancellation, and crashes of the broker        *)
(* (src/broker/broker.ts over src/state/reducer.ts).                       *)
(*                                                                         *)
(* On this path a task is admitted once, gets one agent and one run        *)
(* (broker.ts:8854 skips a task with an assigned agent), so tasks, runs    *)
(* and agents share the index set Tasks.                                   *)
(*                                                                         *)
(* Durable state changes only through store.append, one event at a time;   *)
(* a handler is the list of appends it makes.  The broker may crash        *)
(* between any two of them; its timers and deferred work are in memory.    *)
(*                                                                         *)
(* A definition named Faulty... is a plausible bug in the definition after *)
(* it, against which the properties are tested; nothing here uses it.      *)
(***************************************************************************)
EXTENDS Integers, Sequences, FiniteSets

CONSTANTS
  Tasks,              \* the tasks of the workflow (and their runs and agents)
  TaskIds,            \* workflow.taskIds: the tasks in the order of their creation
  Questions,          \* identifiers of the questions that may be asked
  None,               \* no task, no question
  Deps,               \* Deps[t]: the tasks t depends on
  ResultStatus,       \* the statuses a published result may carry
  ProvisionOutcomes,  \* what Herdr may answer: a subset of {"ok", "failed"}
  MaxActive,          \* scheduler limit maxActiveAgents
  MaxProvisioning,    \* scheduler limit maxProvisioning
  Deadlines,          \* bound: the tasks and questions whose deadline may pass
  MaxConnections,     \* bound: registrations an agent makes
  MaxCrashes          \* bound: crashes of the broker

Terminal == {"succeeded", "failed", "cancelled", "timed_out"}

TaskState == {"queued", "blocked", "assigned", "provisioning"} \union Terminal

RunState == {"none", "created", "working", "blocked", "settled",
             "result_pending_missing"} \union Terminal

WorkflowState == {"created", "running", "blocked", "succeeded", "failed", "cancelled"}

\* A run as the reducer keeps it; assigned is assignmentConnectionGeneration.
Run == [state: RunState, settled: BOOLEAN, recovery: {0, 1},
        result: ResultStatus \union {"none"},
        delivery: {"none", "pending", "accepted", "failed"},
        assigned: Nat, reason: {"none", "TIMEOUT", "RESULT_MISSING"}]

NoRun == [state |-> "none", settled |-> FALSE, recovery |-> 0, result |-> "none",
          delivery |-> "none", assigned |-> 0, reason |-> "none"]

NoQuestion == [state |-> "none", task |-> None]

Question == {NoQuestion} \union
  [state: {"open", "answered", "cancelled", "timed_out"}, task: Tasks]

ASSUME ConstantsAssumption ==
  /\ None \notin Tasks /\ None \notin Questions
  /\ Tasks \intersect Questions = {}
  /\ TaskIds \in Seq(Tasks) /\ \A t \in Tasks : \E i \in DOMAIN TaskIds : TaskIds[i] = t
  /\ Deps \in [Tasks -> SUBSET Tasks]
  /\ ResultStatus \subseteq {"succeeded", "failed", "cancelled"}
  /\ ProvisionOutcomes \subseteq {"ok", "failed"}
  /\ Deadlines \subseteq Tasks \union Questions
  /\ MaxActive \in Nat /\ MaxProvisioning \in Nat
  /\ MaxConnections \in Nat /\ MaxCrashes \in Nat

-----------------------------------------------------------------------------
VARIABLES
  \* durable: the state the event log replays to
  wf,            \* state of the workflow
  task,          \* state of each task
  run,           \* the run of each task
  question,      \* the questions
  conn,          \* connectionGeneration of each task's agent
  \* in memory: lost at a crash
  phase,         \* "down", "recover" and "advance" (start()), "up"
  todo,          \* appends the running mutation has still to make
  onCommit,      \* work the running mutation defers to its end
  jobs,          \* deferred work and armed timers
  adv,           \* stage of the running advance pass, "off" when none runs
  advOwns,       \* it runs inside the mutation queue
  advSet,        \* tasks its current loop has still to visit
  advTodo,       \* appends it has decided on and not yet made
  advTask,       \* the task it is provisioning
  advSeen,       \* the workflow state it read when it started
  advFan,        \* the fan-in it computed
  provisioning,  \* the scheduler's provisioning count
  turn,          \* whose append is first in the store's append queue
  \* the clock, and the bound on crashes
  due,           \* tasks and questions whose deadline has passed
  crashes

durable == <<wf, task, run, question, conn>>
advance == <<adv, advOwns, advSet, advTodo, advTask, advSeen, advFan, provisioning>>
vars == <<durable, phase, todo, onCommit, jobs, advance, turn, due, crashes>>

-----------------------------------------------------------------------------
(* Events, and the reducer: the events it rejects and what the others do. *)

Event ==
  [type: {"run.created", "assignment.delivered", "assignment.accepted",
          "assignment.delivery_failed", "agent.state_changed", "run.pi_started",
          "run.pi_settled", "task.cancel_requested", "run.result_recovery_requested",
          "run.result_missing"},
   task: Tasks, question: {None}, to: {"none"}]
  \union [type: {"task.state_changed"}, task: Tasks, question: {None},
          to: {"provisioning", "blocked", "timed_out"}]
  \union [type: {"run.state_changed"}, task: Tasks, question: {None},
          to: {"working", "blocked", "failed", "cancelled", "timed_out"} \union ResultStatus]
  \union [type: {"result.published"}, task: Tasks, question: {None}, to: ResultStatus]
  \union [type: {"question.opened"}, task: Tasks, question: Questions, to: {"none"}]
  \union [type: {"question.closed"}, task: Tasks, question: Questions,
          to: {"answered", "cancelled", "timed_out"}]
  \union [type: {"workflow.state_changed"}, task: {None}, question: {None}, to: WorkflowState]

TaskEvent(type, t, to) == [type |-> type, task |-> t, question |-> None, to |-> to]
QuestionEvent(type, q, t, to) == [type |-> type, task |-> t, question |-> q, to |-> to]
WorkflowEvent(to) ==
  [type |-> "workflow.state_changed", task |-> None, question |-> None, to |-> to]

AdapterProgress == {"assignment.delivered", "assignment.accepted",
  "assignment.delivery_failed", "run.pi_started", "run.pi_settled"}

\* (Faulty: a terminal run may take another state.)
FaultyMayBecome(r, state) == r.state # "none"

MayBecome(r, state) == r.state # "none" /\ (r.state \in Terminal => r.state = state)

Accepts(e) ==
  LET r == run[e.task] IN
  CASE e.type = "run.created" -> r.state = "none" /\ task[e.task] \notin Terminal
    [] e.type = "task.state_changed" ->
         task[e.task] \notin Terminal \/ task[e.task] = e.to
    [] e.type \in AdapterProgress ->
         /\ r.state \notin Terminal \union {"none"}
         /\ e.type # "run.pi_started" => ~r.settled /\ r.state # "settled"
    [] e.type = "run.state_changed" -> MayBecome(r, e.to)
    [] e.type = "run.result_recovery_requested" ->
         r.settled /\ r.result = "none" /\ r.recovery = 0
    [] e.type = "run.result_missing" ->
         r.state # "none" /\ r.result = "none" /\ r.recovery = 1
    [] e.type = "question.opened" -> question[e.question].state = "none"
    [] e.type = "question.closed" -> question[e.question].state = "open"
    [] OTHER -> TRUE

\* What assignment.*, run.pi_* and run.state_changed make of the run.
NextRun(e, r) ==
  CASE e.type = "assignment.delivered" ->
         [r EXCEPT !.delivery = "pending", !.assigned = conn[e.task] + 1]
    [] e.type = "assignment.accepted" -> [r EXCEPT !.delivery = "accepted"]
    [] e.type = "assignment.delivery_failed" -> [r EXCEPT !.delivery = "failed"]
    [] e.type = "run.pi_started" -> [r EXCEPT !.state = "working", !.settled = FALSE]
    [] e.type = "run.pi_settled" -> [r EXCEPT !.state = "settled", !.settled = TRUE]
    [] e.type = "run.state_changed" ->
         [r EXCEPT !.state = e.to,
                   !.reason = IF e.to = "timed_out" THEN "TIMEOUT" ELSE @]
    [] e.type = "result.published" -> [r EXCEPT !.result = e.to]
    [] e.type = "run.result_recovery_requested" ->
         [r EXCEPT !.state = "result_pending_missing", !.recovery = 1]
    [] e.type = "run.result_missing" ->
         [r EXCEPT !.state = "failed", !.reason = "RESULT_MISSING"]

RunEvent == AdapterProgress \union {"run.state_changed", "result.published",
  "run.result_recovery_requested", "run.result_missing"}

ReduceRunCreated(t) ==
  /\ run' = [run EXCEPT ![t] = [NoRun EXCEPT !.state = "created"]]
  /\ task' = [task EXCEPT ![t] = "assigned"]
  /\ conn' = [conn EXCEPT ![t] = 1]
  /\ UNCHANGED <<wf, question>>

\* (Faulty: every run state is copied to the task.)
FaultyReduceRunEvent(e) ==
  /\ run' = [run EXCEPT ![e.task] = NextRun(e, @)]
  /\ task' = IF e.type = "run.state_changed" THEN [task EXCEPT ![e.task] = e.to] ELSE task
  /\ UNCHANGED <<wf, question, conn>>

\* A terminal run state is copied to the task, whatever the task's own state.
ReduceRunEvent(e) ==
  /\ run' = [run EXCEPT ![e.task] = NextRun(e, @)]
  /\ task' = CASE e.type = "run.state_changed" /\ e.to \in Terminal ->
                    [task EXCEPT ![e.task] = e.to]
               [] e.type = "run.result_missing" -> [task EXCEPT ![e.task] = "failed"]
               [] OTHER -> task
  /\ UNCHANGED <<wf, question, conn>>

\* (Faulty: the run is left as it is.)
FaultyReduceCancelRequested(t) ==
  /\ task' = [task EXCEPT ![t] = IF @ \in Terminal THEN @ ELSE "cancelled"]
  /\ UNCHANGED <<run, wf, question, conn>>

\* Ignored for a terminal task; otherwise it takes the run with it.
ReduceCancelRequested(t) ==
  /\ IF task[t] \in Terminal
     THEN UNCHANGED <<task, run>>
     ELSE /\ task' = [task EXCEPT ![t] = "cancelled"]
          /\ run' = IF run[t].state = "none" THEN run
                    ELSE [run EXCEPT ![t].state = "cancelled"]
  /\ UNCHANGED <<wf, question, conn>>

Reduce(e) ==
  \/ e.type = "run.created" /\ ReduceRunCreated(e.task)
  \/ e.type \in RunEvent /\ ReduceRunEvent(e)
  \/ e.type = "task.cancel_requested" /\ ReduceCancelRequested(e.task)
  \/ /\ e.type = "task.state_changed"
     /\ task' = [task EXCEPT ![e.task] = e.to]
     /\ UNCHANGED <<wf, run, question, conn>>
  \/ /\ e.type = "agent.state_changed"
     /\ conn' = [conn EXCEPT ![e.task] = @ + 1]
     /\ UNCHANGED <<wf, task, run, question>>
  \/ /\ e.type = "workflow.state_changed"
     /\ wf' = e.to
     /\ UNCHANGED <<task, run, question, conn>>
  \/ /\ e.type = "question.opened"
     /\ question' = [question EXCEPT ![e.question] = [state |-> "open", task |-> e.task]]
     /\ UNCHANGED <<wf, task, run, conn>>
  \/ /\ e.type = "question.closed"
     /\ question' = [question EXCEPT ![e.question].state = e.to]
     /\ UNCHANGED <<wf, task, run, conn>>

-----------------------------------------------------------------------------
(* Deferred work: a mutation waiting for the queue, or an armed timer. *)

JobKind == {"advance", "compensate", "deliver", "recovery", "deadline", "question"}

Job == [kind: JobKind, item: Tasks \union Questions \union {None}, gen: Nat]

AdvanceJob == [kind |-> "advance", item |-> None, gen |-> 0]
CompensateJob == [kind |-> "compensate", item |-> None, gen |-> 0]
DeliverJob(t, g) == [kind |-> "deliver", item |-> t, gen |-> g]
RecoveryJob(t) == [kind |-> "recovery", item |-> t, gen |-> 0]
DeadlineJob(t) == [kind |-> "deadline", item |-> t, gen |-> 0]
QuestionJob(q) == [kind |-> "question", item |-> q, gen |-> 0]

Live(t) == run[t].state \notin Terminal \union {"none"}

Open(t) == {q \in Questions : question[q].state = "open" /\ question[q].task = t}

Init ==
  /\ wf = "created"
  /\ task = [t \in Tasks |-> "queued"]
  /\ run = [t \in Tasks |-> NoRun]
  /\ question = [q \in Questions |-> NoQuestion]
  /\ conn = [t \in Tasks |-> 0]
  /\ phase = "up"
  /\ todo = <<>> /\ onCommit = {}
  /\ jobs = {AdvanceJob} \union {DeadlineJob(t) : t \in Tasks}
  /\ adv = "off" /\ advOwns = FALSE /\ advSet = {} /\ advTodo = <<>>
  /\ advTask = None /\ advSeen = "created" /\ advFan = "created"
  /\ provisioning = 0 /\ turn = "mutation"
  /\ due = {} /\ crashes = 0

-----------------------------------------------------------------------------
(* The mutation queue.  Two activities append: the running mutation, and an  *)
(* advance pass that runs outside the queue.  The store makes the appends    *)
(* one by one, in the order in which they were issued.                       *)

Running == phase \in {"advance", "up"}

\* Nobody else runs while a pass goes from one append to the next: only an append,
\* a provisioning or a recovery prompt suspends it.  A compensating pass starts
\* as soon as the pass before it ends.
Suspended == advTodo # <<>> \/ adv \in {"provision", "prompt"}

Free == IF adv = "off" THEN CompensateJob \notin jobs ELSE Suspended

\* Nothing holds the queue: a request or a queued job may start.
Idle == Running /\ Free /\ todo = <<>> /\ ~(adv # "off" /\ advOwns)

\* A handler passed its guards: these are its appends, and its deferred work.
Begin(events, deferred) ==
  /\ todo' = events
  /\ onCommit' = IF events = <<>> THEN {} ELSE deferred
  /\ turn' = IF advTodo = <<>> THEN "mutation" ELSE turn

\* The process is gone, or start() failed: only the event log remains.
LoseMemory ==
  /\ phase' = "down"
  /\ todo' = <<>> /\ onCommit' = {} /\ jobs' = {}
  /\ adv' = "off" /\ advOwns' = FALSE /\ advSet' = {} /\ advTodo' = <<>>
  /\ advTask' = None /\ advSeen' = "created" /\ advFan' = "created"
  /\ provisioning' = 0 /\ turn' = "mutation"

\* One durable append of the running mutation.  A rejected event is thrown: the
\* appends made so far stay, the rest and the deferred work are dropped, and
\* start() fails if this was one of its own.
AppendMutation ==
  /\ Free /\ todo # <<>> /\ turn = "mutation"
  /\ IF Accepts(Head(todo))
     THEN /\ Reduce(Head(todo))
          /\ todo' = Tail(todo)
          /\ turn' = IF advTodo # <<>> THEN "advance" ELSE turn
          /\ IF Len(todo) = 1
             THEN jobs' = jobs \union onCommit /\ onCommit' = {}
             ELSE UNCHANGED <<jobs, onCommit>>
          /\ UNCHANGED <<phase, advance>>
     ELSE /\ IF phase = "recover" THEN LoseMemory
             ELSE /\ todo' = <<>> /\ onCommit' = {}
                  /\ turn' = IF advTodo # <<>> THEN "advance" ELSE turn
                  /\ UNCHANGED <<phase, jobs, advance>>
          /\ UNCHANGED durable
  /\ UNCHANGED <<due, crashes>>

-----------------------------------------------------------------------------
(* Requests. *)

Request(events, deferred) ==
  /\ Idle /\ phase = "up"
  /\ Begin(events, deferred)
  /\ UNCHANGED <<durable, phase, jobs, advance, due, crashes>>

\* (Faulty: a run that was accepted once is not delivered again.)
FaultyRegister(t) ==
  /\ run[t].state # "none" /\ conn[t] <= MaxConnections
  /\ Request(IF Live(t) /\ run[t].delivery # "accepted"
             THEN <<TaskEvent("assignment.delivered", t, "none"),
                    TaskEvent("agent.state_changed", t, "none")>>
             ELSE <<TaskEvent("agent.state_changed", t, "none")>>,
             {DeliverJob(t, conn[t] + 1)})

\* agent.register_managed: a live run is delivered to the new connection, then
\* the connection generation moves on; the delivery itself is deferred.
Register(t) ==
  /\ run[t].state # "none" /\ conn[t] <= MaxConnections
  /\ IF Live(t)
     THEN Request(<<TaskEvent("assignment.delivered", t, "none"),
                    TaskEvent("agent.state_changed", t, "none")>>,
                  {DeliverJob(t, conn[t] + 1)})
     ELSE Request(<<TaskEvent("agent.state_changed", t, "none")>>, {})

\* agent.lifecycle_event turn_start
TurnStart(t) ==
  /\ Live(t) /\ run[t].delivery = "accepted" /\ run[t].state # "working"
  /\ Request(<<TaskEvent("run.pi_started", t, "none")>>, {})

\* agent.lifecycle_event agent_settled, for the cycle that started
AgentSettled(t) ==
  /\ run[t].delivery = "accepted" /\ run[t].state = "working"
  /\ Request(<<TaskEvent("run.pi_settled", t, "none")>>, {AdvanceJob})

\* (Faulty: a run that ended still publishes; a result is replaced; nobody
\* advances the workflow.)
FaultyPublishLate(t, s) ==
  run[t].state # "none" /\ run[t].result = "none"
    /\ Request(<<TaskEvent("result.published", t, s)>>, {})
FaultyPublishAgain(t, s) ==
  Live(t) /\ Request(<<TaskEvent("result.published", t, s)>>, {})
FaultyPublishQuietly(t, s) ==
  /\ Live(t) /\ run[t].result = "none"
  /\ Request(<<TaskEvent("result.published", t, s)>>
               \o IF run[t].settled THEN <<TaskEvent("run.state_changed", t, s)>> ELSE <<>>, {})

\* result.publish; a second publication of the same result changes nothing.
PublishResult(t, s) ==
  /\ Live(t) /\ run[t].result = "none"
  /\ IF run[t].settled
     THEN Request(<<TaskEvent("result.published", t, s),
                    TaskEvent("run.state_changed", t, s)>>, {AdvanceJob})
     ELSE Request(<<TaskEvent("result.published", t, s)>>, {})

\* (Faulty: an open question does not keep the run from asking another.)
FaultyOpenQuestion(q, t) ==
  /\ question[q].state = "none" /\ run[t].state \in {"working", "blocked"}
  /\ Request(<<QuestionEvent("question.opened", q, t, "none"),
               TaskEvent("run.state_changed", t, "blocked")>>, {QuestionJob(q)})

\* question.open
OpenQuestion(q, t) ==
  /\ question[q].state = "none"
  /\ run[t].state \in {"working", "blocked"}
  /\ Open(t) = {}
  /\ Request(<<QuestionEvent("question.opened", q, t, "none"),
               TaskEvent("run.state_changed", t, "blocked")>>, {QuestionJob(q)})

\* question.answer: it does not look at the state of the run.
AnswerQuestion(q) ==
  /\ question[q].state = "open"
  /\ Request(<<QuestionEvent("question.closed", q, question[q].task, "answered"),
               TaskEvent("run.state_changed", question[q].task, "working")>>, {})

\* The appends of question.timeout and of the question timer.
TimeOutQuestion(q) ==
  IF question[q].state # "open" THEN <<>>
  ELSE <<QuestionEvent("question.closed", q, question[q].task, "timed_out"),
         TaskEvent("run.state_changed", question[q].task, "failed")>>

RequestQuestionTimeout(q) ==
  question[q].state = "open" /\ Request(TimeOutQuestion(q), {})

\* Cancel the open question of t, if any (OneOpenQuestion: there is at most one).
CancelOpen(t, andThen) ==
  IF Open(t) = {} THEN <<>>
  ELSE <<QuestionEvent("question.closed", CHOOSE q \in Open(t) : TRUE, t, "cancelled")>>
         \o andThen

\* task.cancel
CancelTask(t) ==
  /\ task[t] \notin Terminal
  /\ Request(<<TaskEvent("task.cancel_requested", t, "none")>>
               \o CancelOpen(t, <<TaskEvent("run.state_changed", t, "cancelled")>>),
             {AdvanceJob})

\* workflow.cancel: it looks neither at the workflow's state nor at questions.
\* (It skips a terminal task; here the event is made, and the reducer ignores it.)
CancelWorkflow(cascade) ==
  Request(<<WorkflowEvent("cancelled")>>
            \o IF cascade
               THEN [i \in DOMAIN TaskIds |->
                       TaskEvent("task.cancel_requested", TaskIds[i], "none")]
               ELSE <<>>, {})

-----------------------------------------------------------------------------
(* Deferred work and timers; start() runs the expired ones itself. *)

StartJob(job, events, deferred) ==
  /\ job \in jobs
  /\ Idle \/ (phase = "recover" /\ todo = <<>>)
  /\ Begin(events, deferred)
  /\ jobs' = jobs \ {job}
  /\ UNCHANGED <<durable, phase, advance, due, crashes>>

\* #terminalizeTaskDeadline: it does not advance the workflow.
TaskDeadline(t) ==
  t \in due /\ StartJob(DeadlineJob(t),
    IF task[t] \in Terminal THEN <<>>
    ELSE IF run[t].state = "none"
         THEN <<TaskEvent("task.state_changed", t, "timed_out")>>
         ELSE CancelOpen(t, <<>>) \o <<TaskEvent("run.state_changed", t, "timed_out")>>,
    {})

\* #terminalizeQuestionTimeout: neither does it.
QuestionDeadline(q) ==
  q \in due /\ StartJob(QuestionJob(q), TimeOutQuestion(q), {})

\* The recovery timer: #terminalizeMissingResult, then an advance pass.
RecoveryTimeout(t) ==
  StartJob(RecoveryJob(t),
    IF Live(t) /\ run[t].result = "none" /\ run[t].recovery = 1
    THEN <<TaskEvent("run.result_missing", t, "none")>> ELSE <<>>,
    {AdvanceJob})

\* The adapter answered assignment.deliver, or did not.
FinishDelivery(t, g, answer) ==
  StartJob(DeliverJob(t, g),
    IF /\ Live(t) /\ run[t].state # "settled" /\ run[t].delivery = "pending"
       /\ conn[t] = g /\ run[t].assigned = g
    THEN <<TaskEvent(answer, t, "none")>> ELSE <<>>,
    {})

-----------------------------------------------------------------------------
(* The advance pass (#advanceWorkflow).  Passes exclude each other; one that  *)
(* compensates a failed provisioning, and the one of start(), run outside the *)
(* mutation queue.  Stages: converge, prompt, block, expire, admit, provision, *)
(* compensate, blockAgain, fan, write.                                        *)

Unsuccessful == {"failed", "blocked", "cancelled", "timed_out"}

Queued == {t \in Tasks : task[t] = "queued"}

DependencyFailed(t) == \E d \in Deps[t] : task[d] \in Unsuccessful

BeginAdvance(owns) ==
  /\ adv = "off"
  /\ adv' = "converge" /\ advOwns' = owns /\ advSet' = Tasks /\ advSeen' = wf
  /\ UNCHANGED <<advTodo, advTask, advFan, provisioning>>

\* A pass that waits in the mutation queue, or one tracked outside it.
StartAdvance ==
  /\ \/ AdvanceJob \in jobs /\ Idle /\ BeginAdvance(TRUE) /\ jobs' = jobs \ {AdvanceJob}
     \/ /\ CompensateJob \in jobs /\ Running /\ BeginAdvance(FALSE)
        /\ jobs' = jobs \ {CompensateJob}
  /\ UNCHANGED <<durable, phase, todo, onCommit, turn, due, crashes>>

EndAdvance ==
  /\ adv' = "off" /\ advOwns' = FALSE /\ advSet' = {} /\ advTodo' = <<>>
  /\ advTask' = None /\ advSeen' = "created" /\ advFan' = "created"

\* The pass reads the state here and issues this append, which may have to wait
\* for one of the running mutation.
Decide(events) ==
  /\ advTodo' = events
  /\ turn' = IF todo = <<>> THEN "advance" ELSE turn

InStage(stage) == adv = stage /\ advTodo = <<>>

\* The loop of a stage comes to t.
Visit(stage, t, events) ==
  /\ InStage(stage) /\ t \in advSet
  /\ advSet' = advSet \ {t}
  /\ Decide(events)
  /\ UNCHANGED <<durable, phase, todo, onCommit, advOwns, advSeen, advFan, due, crashes>>

EnterStage(from, to, set) ==
  /\ InStage(from) /\ advSet = {}
  /\ adv' = to /\ advSet' = set
  /\ UNCHANGED <<durable, phase, todo, onCommit, jobs, advOwns, advTodo, advTask,
                 advSeen, provisioning, turn, due, crashes>>

\* (Faulty: a settled run has succeeded; or it has once the agent was asked twice.)
FaultyConvergeSettled(t) ==
  IF Live(t) /\ run[t].settled /\ run[t].result # "none"
  THEN <<TaskEvent("run.state_changed", t, "succeeded")>> ELSE <<>>
FaultyConvergeMissing(t) ==
  IF ~Live(t) \/ ~run[t].settled THEN <<>>
  ELSE IF run[t].recovery = 0
  THEN <<TaskEvent("run.result_recovery_requested", t, "none")>>
  ELSE <<TaskEvent("run.state_changed", t, "succeeded")>>

\* What the pass makes of the run of t.
Convergence(t) ==
  LET r == run[t] IN
  IF ~Live(t) THEN <<>>
  ELSE IF r.result # "none"
  THEN IF r.settled THEN <<TaskEvent("run.state_changed", t, r.result)>> ELSE <<>>
  ELSE IF ~r.settled \/ (r.recovery = 1 /\ r.state # "settled") THEN <<>>
  ELSE IF r.recovery = 0 THEN <<TaskEvent("run.result_recovery_requested", t, "none")>>
  ELSE <<TaskEvent("run.result_missing", t, "none")>>

\* The run awaits its recovered result: arm the recovery timer.
AwaitsRecovery(t) ==
  Live(t) /\ run[t].result = "none" /\ run[t].recovery = 1 /\ run[t].state # "settled"

\* (Faulty: the recovery timer is armed only after the prompt.)
FaultyConverge(t) ==
  Visit("converge", t, Convergence(t)) /\ UNCHANGED <<jobs, adv, advTask, provisioning>>

Converge(t) ==
  /\ Visit("converge", t, Convergence(t))
  /\ jobs' = IF AwaitsRecovery(t) THEN jobs \union {RecoveryJob(t)} ELSE jobs
  /\ UNCHANGED <<adv, advTask, provisioning>>

\* The adapter answered the recovery prompt, or did not in time.
PromptReturns ==
  /\ InStage("prompt")
  /\ adv' = "converge" /\ advTask' = None
  /\ jobs' = jobs \union {RecoveryJob(advTask)}
  /\ UNCHANGED <<durable, phase, todo, onCommit, advOwns, advSet, advTodo, advSeen,
                 advFan, provisioning, turn, due, crashes>>

Block(t) ==
  /\ \/ Visit("block", t, IF task[t] = "queued"
                          THEN <<TaskEvent("task.state_changed", t, "blocked")>> ELSE <<>>)
     \/ Visit("blockAgain", t, IF DependencyFailed(t)
                               THEN <<TaskEvent("task.state_changed", t, "blocked")>> ELSE <<>>)
  /\ UNCHANGED <<adv, jobs, advTask, provisioning>>

\* A queued task has no run.
Expire(t) ==
  /\ \/ /\ t \in due /\ task[t] \notin Terminal
        /\ Visit("expire", t, <<TaskEvent("task.state_changed", t, "timed_out")>>)
        /\ jobs' = jobs \ {DeadlineJob(t)}
     \/ /\ ~(t \in due /\ task[t] \notin Terminal)
        /\ Visit("expire", t, <<>>) /\ UNCHANGED jobs
  /\ UNCHANGED <<adv, advTask, provisioning>>

\* (Faulty: a task takes no slot before its run starts.)
FaultyActive == {t \in Tasks : task[t] \in {"assigned", "blocked"}}

\* planAdmission: a task is active while it is provisioning, assigned or blocked.
Active == {t \in Tasks : task[t] \in {"provisioning", "assigned", "blocked"}}

\* (Faulty: a dependency that did not fail is good enough.)
FaultyReady == {t \in Queued : \A d \in Deps[t] : task[d] \notin Unsuccessful}

Ready == {t \in Queued : \A d \in Deps[t] : task[d] = "succeeded"}

Admissible(set) ==
  LET slots == IF Cardinality(Active) >= MaxActive THEN 0
               ELSE MaxActive - Cardinality(Active)
  IN  /\ set \subseteq Ready
      /\ Cardinality(set) = IF slots < Cardinality(Ready) THEN slots ELSE Cardinality(Ready)

\* canProvision, then agent.registered and run.created, then Herdr is asked.
Admit(t) ==
  /\ IF run[t].state # "none" \/ provisioning >= MaxProvisioning
     THEN Visit("admit", t, <<>>) /\ UNCHANGED <<adv, advTask, provisioning>>
     ELSE /\ Visit("admit", t, <<TaskEvent("run.created", t, "none"),
                                 TaskEvent("task.state_changed", t, "provisioning")>>)
          /\ adv' = "provision" /\ advTask' = t /\ provisioning' = provisioning + 1
  /\ UNCHANGED jobs

\* Leave the try statement of one provisioning: setProvisioning(-1).
Provisioned ==
  /\ adv' = "admit" /\ advTask' = None
  /\ provisioning' = IF provisioning = 0 THEN 0 ELSE provisioning - 1

ProvisionReturns(outcome) ==
  /\ InStage("provision")
  /\ IF outcome = "ok"
     THEN Provisioned /\ UNCHANGED <<advTodo, turn>>
     ELSE /\ Decide(<<TaskEvent("run.state_changed", advTask, "failed")>>)
          /\ adv' = "compensate" /\ UNCHANGED <<advTask, provisioning>>
  /\ UNCHANGED <<durable, phase, todo, onCommit, jobs, advOwns, advSet, advSeen,
                 advFan, due, crashes>>

\* (Faulty: one success is enough.)
FaultyFanIn ==
  IF \E t \in Tasks : task[t] \in Unsuccessful THEN "failed"
  ELSE IF \E t \in Tasks : task[t] = "succeeded" THEN "succeeded"
  ELSE "running"

\* fanInWorkflow
FanIn ==
  IF \E t \in Tasks : task[t] \in {"failed", "timed_out"} THEN "failed"
  ELSE IF \E t \in Tasks : task[t] = "cancelled" THEN "cancelled"
  ELSE IF \E t \in Tasks : task[t] = "blocked" THEN "blocked"
  ELSE IF \A t \in Tasks : task[t] = "succeeded" THEN "succeeded"
  ELSE "running"

NextStage ==
  \/ /\ EnterStage("converge", "block", {t \in Queued : DependencyFailed(t)})
     /\ UNCHANGED advFan
  \/ EnterStage("block", "expire", Queued) /\ UNCHANGED advFan
  \/ /\ \E set \in SUBSET Tasks : Admissible(set) /\ EnterStage("expire", "admit", set)
     /\ UNCHANGED advFan
  \/ EnterStage("admit", "blockAgain", Queued) /\ advFan' = FanIn
  \/ EnterStage("blockAgain", "fan", {}) /\ UNCHANGED advFan

LeaveStart == phase' = IF phase = "advance" THEN "up" ELSE phase

\* The workflow takes the state the fan-in gave, against the one seen at the start.
FinishAdvance ==
  /\ InStage("fan")
  /\ IF advSeen # advFan
     THEN /\ Decide(<<WorkflowEvent(advFan)>>) /\ adv' = "write"
          /\ UNCHANGED <<phase, advOwns, advSet, advTask, advSeen, advFan>>
     ELSE EndAdvance /\ LeaveStart /\ UNCHANGED turn
  /\ UNCHANGED <<durable, todo, onCommit, jobs, provisioning, due, crashes>>

\* One durable append of the advance pass, and what the pass does right after it.
Appended ==
  LET e == Head(advTodo) IN
  /\ Accepts(e) /\ Reduce(e)
  /\ jobs' = IF adv = "compensate" THEN jobs \union {CompensateJob} ELSE jobs
  /\ IF adv = "write"
     THEN EndAdvance /\ LeaveStart /\ UNCHANGED provisioning
     ELSE /\ advTodo' = Tail(advTodo)
          /\ CASE adv = "compensate" -> Provisioned
               [] e.type = "run.result_recovery_requested" ->
                    adv' = "prompt" /\ advTask' = e.task /\ UNCHANGED provisioning
               [] OTHER -> UNCHANGED <<adv, advTask, provisioning>>
          /\ UNCHANGED <<phase, advOwns, advSet, advSeen, advFan>>
  /\ turn' = IF todo # <<>> THEN "mutation" ELSE turn
  /\ UNCHANGED <<todo, onCommit>>

\* A rejected append ends the pass, except that of a compensation; it ends
\* start() too.  Between setProvisioning(1) and the try, the count stays.
Rejected ==
  /\ ~Accepts(Head(advTodo))
  /\ UNCHANGED durable
  /\ IF phase = "advance" /\ adv # "compensate" THEN LoseMemory
     ELSE /\ IF adv = "compensate"
             THEN /\ Provisioned /\ advTodo' = <<>>
                  /\ UNCHANGED <<advOwns, advSet, advSeen, advFan>>
             ELSE EndAdvance /\ UNCHANGED provisioning
          /\ turn' = IF todo # <<>> THEN "mutation" ELSE turn
          /\ UNCHANGED <<phase, jobs, todo, onCommit>>

AppendAdvance ==
  /\ advTodo # <<>> /\ turn = "advance"
  /\ Appended \/ Rejected
  /\ UNCHANGED <<due, crashes>>

-----------------------------------------------------------------------------
(* Crashes, start(), and the clock. *)

Crash ==
  /\ phase # "down" /\ Free /\ crashes < MaxCrashes
  /\ crashes' = crashes + 1
  /\ LoseMemory
  /\ UNCHANGED <<durable, due>>

\* (Faulty: only questions, or only tasks, get their timers back.)
FaultyQuestionTimers ==
  {QuestionJob(q) : q \in {p \in Questions : question[p].state = "open"}}
FaultyTaskTimers == {DeadlineJob(t) : t \in {u \in Tasks : task[u] \notin Terminal}}

OpenTimers == {DeadlineJob(t) : t \in {u \in Tasks : task[u] \notin Terminal}}
                \union {QuestionJob(q) : q \in {p \in Questions : question[p].state = "open"}}

\* start() replays the log and lists the deadlines that passed in the meantime.
Restart ==
  /\ phase = "down"
  /\ phase' = "recover"
  /\ jobs' = {j \in OpenTimers : j.item \in due}
  /\ UNCHANGED <<durable, todo, onCommit, advance, turn, due, crashes>>

\* The states in which start() leaves a workflow alone.
WorkflowEnded == wf \in {"succeeded", "failed", "blocked", "cancelled"}

\* (Faulty: start() leaves the workflow to the next request.)
FaultyFinishRecovery ==
  /\ phase = "recover" /\ todo = <<>> /\ jobs = {}
  /\ jobs' = OpenTimers /\ phase' = "up"
  /\ UNCHANGED <<durable, todo, onCommit, advance, turn, due, crashes>>

\* Then it arms the timers and makes an advance pass.
FinishRecovery ==
  /\ phase = "recover" /\ todo = <<>> /\ jobs = {}
  /\ jobs' = OpenTimers
  /\ IF WorkflowEnded
     THEN phase' = "up" /\ UNCHANGED advance
     ELSE phase' = "advance" /\ BeginAdvance(FALSE)
  /\ UNCHANGED <<durable, todo, onCommit, turn, due, crashes>>

DeadlinePasses(item) ==
  /\ Free /\ item \in Deadlines \ due
  /\ item \in Questions => question[item].state = "open"
  /\ due' = due \union {item}
  /\ UNCHANGED <<durable, phase, todo, onCommit, jobs, advance, turn, crashes>>

-----------------------------------------------------------------------------
Requests ==
  \/ \E t \in Tasks :
       \/ Register(t) \/ TurnStart(t) \/ AgentSettled(t) \/ CancelTask(t)
       \/ \E s \in ResultStatus : PublishResult(t, s)
       \/ \E q \in Questions : OpenQuestion(q, t)
  \/ \E q \in Questions : AnswerQuestion(q) \/ RequestQuestionTimeout(q)
  \/ \E cascade \in BOOLEAN : CancelWorkflow(cascade)

Jobs ==
  \/ \E t \in Tasks :
       \/ TaskDeadline(t) \/ RecoveryTimeout(t)
       \/ \E g \in 1..MaxConnections + 1, answer \in {"assignment.accepted",
                                                      "assignment.delivery_failed"} :
            FinishDelivery(t, g, answer)
  \/ \E q \in Questions : QuestionDeadline(q)
  \/ StartAdvance

AdvanceStep ==
  \/ \E t \in Tasks : Converge(t) \/ Block(t) \/ Expire(t) \/ Admit(t)
  \/ \E outcome \in ProvisionOutcomes : ProvisionReturns(outcome)
  \/ PromptReturns \/ NextStage \/ FinishAdvance

Next ==
  \/ AppendMutation \/ AppendAdvance \/ Requests \/ Jobs \/ AdvanceStep
  \/ Crash \/ Restart \/ FinishRecovery
  \/ \E item \in Deadlines : DeadlinePasses(item)

Spec == Init /\ [][Next]_vars

\* The broker keeps running its own work: appends complete, a pass goes on
\* (the requests it makes to Herdr and to adapters have timeouts), the mutation
\* queue is first in, first out (so no job is overtaken for ever), and
\* startup restarts a dead broker.  No client is assumed to do anything.
Fairness ==
  /\ WF_vars(AppendMutation) /\ WF_vars(AppendAdvance) /\ WF_vars(AdvanceStep)
  /\ WF_vars(Restart) /\ WF_vars(FinishRecovery)
  /\ SF_vars(StartAdvance)
  /\ \A t \in Tasks :
       SF_vars(TaskDeadline(t)) /\ SF_vars(RecoveryTimeout(t))
  /\ \A q \in Questions : SF_vars(QuestionDeadline(q))

FairSpec == Spec /\ Fairness

-----------------------------------------------------------------------------
(* Properties. *)

\* The types of the durable variables, and of those in memory.
DurableType ==
  /\ wf \in WorkflowState /\ task \in [Tasks -> TaskState] /\ run \in [Tasks -> Run]
  /\ question \in [Questions -> Question] /\ conn \in [Tasks -> Nat]

MemoryType ==
  /\ phase \in {"down", "recover", "advance", "up"}
  /\ todo \in Seq(Event) /\ onCommit \subseteq Job /\ jobs \subseteq Job
  /\ adv \in {"off", "converge", "prompt", "block", "expire", "admit", "provision", "compensate",
              "blockAgain", "fan", "write"}
  /\ advOwns \in BOOLEAN /\ advSet \subseteq Tasks /\ advTodo \in Seq(Event)
  /\ advTask \in Tasks \union {None} /\ advSeen \in WorkflowState
  /\ advFan \in WorkflowState /\ provisioning \in Nat
  /\ turn \in {"mutation", "advance"} /\ due \subseteq Tasks \union Questions
  /\ crashes \in Nat

TypeOK == DurableType /\ MemoryType

\* A run has at most one open question (INV-04): question.open checks, and the
\* timers, cancellations and crashes that close questions leave no second one.
OneOpenQuestion ==
  \A t \in Tasks : \A p, q \in Open(t) : p = q

\* A task that succeeded has a run that succeeded and an accepted result that
\* says so (INV-10), although three places of the broker end a run.
SuccessNeedsResult ==
  \A t \in Tasks : task[t] = "succeeded" =>
    run[t].state = "succeeded" /\ run[t].result = "succeeded"

\* Success is final for the run and for the task, even where an advance pass
\* races the mutation queue.
SuccessIsFinal ==
  [][\A t \in Tasks :
       /\ run[t].state = "succeeded" => run'[t].state = "succeeded"
       /\ task[t] = "succeeded" => task'[t] = "succeeded"]_vars

\* A run accepts one result (INV-03): it is never replaced and never withdrawn.
OneResult ==
  [][\A t \in Tasks : run[t].result # "none" => run'[t].result = run[t].result]_vars

\* The task and its run end together and in the same way, between the appends
\* of a handler and across crashes too.
TaskRunAgree ==
  \A t \in Tasks : run[t].state # "none" =>
    ((task[t] \in Terminal \/ run[t].state \in Terminal) => task[t] = run[t].state)

\* A live run counts as delivered only to the connection its agent has now: the
\* answer to a delivery over an earlier connection comes too late to count.
AcceptedOnCurrentConnection ==
  \A t \in Tasks : Live(t) /\ run[t].delivery = "accepted" => run[t].assigned = conn[t]

\* No task starts before all the tasks it depends on succeeded, and none of
\* them is undone later.
DependencyRespected ==
  \A t \in Tasks : run[t].state # "none" => \A d \in Deps[t] : task[d] = "succeeded"

\* The tasks that occupy an agent stay within the scheduler's limit, also when
\* the admission was planned before other tasks ended or failed to provision.
CapacityRespected ==
  Cardinality({t \in Tasks : task[t] \in {"provisioning", "assigned"}}) <= MaxActive

\* The workflow succeeds only when every task did (INV-11), although the fan-in
\* is computed on a state read before the last appends of the pass.
WorkflowSuccess ==
  wf = "succeeded" => \A t \in Tasks : task[t] = "succeeded"

\* The inductive invariant of the properties above (RunLifecycle_proofs).  It
\* says of the durable state what they say ...
StateInv ==
  /\ OneOpenQuestion /\ DependencyRespected /\ WorkflowSuccess
  /\ \A t \in Tasks :
       /\ run[t].state = "none" => run[t] = NoRun
       /\ run[t].state = "succeeded" => run[t].result = "succeeded"
       /\ task[t] = "succeeded" <=> run[t].state = "succeeded"

\* ... of an event, that the state is one to decide it in ...
Justified(e) ==
  /\ e.type = "result.published" =>
       run[e.task].state # "none" /\ run[e.task].result = "none"
  /\ e.type = "run.state_changed" /\ e.to = "succeeded" => run[e.task].result = "succeeded"
  /\ e.type = "question.opened" => Open(e.task) = {}
  /\ e.type = "run.created" => \A d \in Deps[e.task] : task[d] = "succeeded"
  /\ e.type = "workflow.state_changed" /\ e.to = "succeeded" =>
       \A t \in Tasks : task[t] = "succeeded"

\* An event that gives its task an agent.
Occupies(e) ==
  e.type = "run.created" \/ (e.type = "task.state_changed" /\ e.to = "provisioning")

\* ... of the pending appends, that they still are justified when they are made,
\* though others come first: only a mutation publishes results and opens
\* questions, and only with its first append; only a pass gives tasks agents ...
FollowsItsResult(events, i) ==
  /\ i = 2 /\ events[1].type = "result.published" /\ events[2].type = "run.state_changed"
  /\ events[1].task = events[2].task /\ events[1].to = events[2].to

PendingMutation(events) ==
  \A i \in DOMAIN events :
    /\ events[i].type \in {"result.published", "question.opened"} => i = 1
    /\ ~Occupies(events[i])
    /\ Justified(events[i]) \/ FollowsItsResult(events, i)

PendingPass(events) ==
  \A i \in DOMAIN events :
    /\ events[i].type \notin {"result.published", "question.opened"}
    /\ Justified(events[i])

\* ... and the same of what a pass has computed and not yet turned into an event.
PassInv ==
  /\ adv \in {"admit", "provision", "compensate"} =>
       \A t \in advSet : \A d \in Deps[t] : task[d] = "succeeded"
  /\ adv = "provision" => advTask \in Tasks
  /\ advFan = "succeeded" => \A t \in Tasks : task[t] = "succeeded"

\* Whatever is pending stays justified: the argument for the safety properties.
Inv == TypeOK /\ StateInv /\ PendingMutation(todo) /\ PendingPass(advTodo) /\ PassInv

Outcomes ==
  [t \in Tasks |-> IF task[t] \notin Terminal THEN "open"
                   ELSE IF run[t].reason = "RESULT_MISSING" THEN "result_missing"
                   ELSE task[t]]

Contract == INSTANCE TaskContract WITH
  outcome <- Outcomes, result <- [t \in Tasks |-> run[t].result]

\* The broker keeps the contract of a task: one result, accepted while the task
\* is open; one outcome, which agrees with it.
KeepsContract == Contract!Spec

\* A run that ended has ended for good: no later event gives it another state
\* (INV-02).
TerminalRunIsFinal ==
  [][\A t \in Tasks : run[t].state \in Terminal => run'[t].state = run[t].state]_vars

\* A cancelled task stays cancelled, and so does its run (INV-12).
CancellationIsFinal ==
  [][\A t \in Tasks : task[t] = "cancelled" /\ run[t].state \in {"none", "cancelled"} =>
       task'[t] = "cancelled" /\ run'[t].state \in {"none", "cancelled"}]_vars

\* A workflow in a terminal state stays in it (INV-02).
WorkflowIsFinal ==
  [][(wf \in {"succeeded", "failed", "cancelled"}) => wf' = wf]_vars

\* A task whose wall deadline passed ends, whatever its run is doing and even if
\* the broker crashed with the timer.
DueTaskEnds == \A t \in Tasks : t \in due ~> task[t] \in Terminal

\* An open question whose deadline passed is closed, even when its run ended
\* meanwhile and the second append of the timeout is refused.
DueQuestionCloses ==
  \A q \in Questions : (q \in due /\ question[q].state = "open") ~> question[q].state # "open"

\* A run that settled with a published result ends, or starts another turn, as
\* long as its workflow goes on (start() does not advance one that ended).
SettledRunEnds ==
  \A t \in Tasks : (Live(t) /\ run[t].settled /\ run[t].result # "none")
                     ~> (~Live(t) \/ ~run[t].settled \/ WorkflowEnded)

\* A run asked for its missing result delivers one or ends, whether or not the
\* agent starts another turn or the broker crashes with the timer.
RecoveryEnds ==
  \A t \in Tasks : (Live(t) /\ run[t].recovery = 1 /\ run[t].result = "none")
                     ~> (~Live(t) \/ run[t].result # "none" \/ WorkflowEnded)

\* When every task succeeded the workflow says so, also after a crash between
\* the last result and the advance pass (unless it is cancelled meanwhile).
WorkflowConverges ==
  (\A t \in Tasks : task[t] = "succeeded") ~> wf \in {"succeeded", "cancelled"}

=============================================================================
