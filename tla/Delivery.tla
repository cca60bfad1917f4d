------------------------------ MODULE Delivery ------------------------------
(***************************************************************************)
(* One managed agent and one run: how the assignment gets from the broker  *)
(* to the Pi process and how Pi's progress gets back.                      *)
(*                                                                         *)
(*   broker   register_managed records the assignment as delivered, looks  *)
(*            once more at the agent's pane before it responds, and after  *)
(*            the response sends assignment.deliver; the answer, a timeout *)
(*            or the end of the connection decides the delivery            *)
(*            (src/broker/broker.ts).                                      *)
(*   adapter  start() makes a new adapter and a new client for every       *)
(*            connection; the correlator decides whether a delivery is     *)
(*            news, and which of Pi's turns is the assignment's            *)
(*            (extensions/pi-herdr-orchestrator.ts, src/pi/adapter.ts,     *)
(*            src/pi/correlation.ts, src/pi/broker-client.ts).             *)
(*   Pi       takes messages, also the user's, and works or is idle; it    *)
(*            is external.                                                 *)
(*                                                                         *)
(* What an adapter knows must survive the adapter: `kept' is what the      *)
(* previous adapter of this Pi process knew, `entry' the last correlation  *)
(* entry of the session file, and `seen' that entry when start() ran.      *)
(* Questions, control requests and reading another run's entry are left    *)
(* out; the mutations of the broker, which it does one by one, are steps,  *)
(* but for a registration, which may stop half-way.                        *)
(***************************************************************************)
EXTENDS Integers, Sequences

CONSTANTS
  MaxConnections,  \* bound: connection generations
  MaxCycles,       \* bound: agent cycles of Pi
  MaxReports,      \* bound: adapterSeq up to which the heartbeat reports
  MaxFaults        \* bound: crashes of the broker, appends and registrations that fail

ASSUME DeliveryAssumption ==
  MaxConnections \in Nat \ {0} /\ MaxCycles \in Nat /\ MaxReports \in Nat /\ MaxFaults \in Nat

VARIABLES
  run,      \* broker, durable: the run and how far its delivery is
  agent,    \* broker, durable: connectionGeneration, lastAdapterSeq, its token revoked
  boundary, \* broker: the registration before its responseBoundary, or 0
  writable, \* broker: the store is not read-only
  jobs,     \* broker: the deferred delivery of each registration
  client,   \* broker's end of the connection: managedConnectionGeneration, or 0
  peer,     \* the adapter's end: its generation, or 0
  up, down, \* requests to the broker, frames to the adapter
  answers,  \* server_responses: the broker takes them before queued requests
  adapter,  \* the current adapter and its client
  queue,    \* pendingLifecycle
  sent,     \* what sent its head (lifecycleInFlight): "event", "beat" or "no"
  entry,    \* durable: the last correlation entry of the session file
  pi,       \* Pi: works on a cycle, has messages; prompts that have not returned
  past      \* history of the prompts, and of the faults

brokerVars == <<run, agent, boundary, writable, jobs>>
wire == <<client, peer, up, down, answers>>
adapterVars == <<adapter, queue, sent, entry>>
deliveryVars == <<brokerVars, wire, adapterVars, pi, past>>

Generations == 1 .. MaxConnections
Cycles == 1 .. MaxCycles

-----------------------------------------------------------------------------
(* What is known of the assignment: nothing, that its prompt is under way, *)
(* that Pi took it, that a cycle is its own, that this cycle has ended.    *)

Known == [kind: {"none", "pending", "accepted"}, cycle: {0}]
           \union [kind: {"bound", "settled"}, cycle: Cycles]
Nothing == [kind |-> "none", cycle |-> 0]
Pending == [kind |-> "pending", cycle |-> 0]
Accepted == [kind |-> "accepted", cycle |-> 0]

NewAdapter(seen, kept) ==
  [phase |-> "opening", gen |-> 0, seq |-> 0, cor |-> Nothing, seen |-> seen, kept |-> kept]

DeliveryInit ==
  /\ run = [state |-> "created", delivery |-> "none", gen |-> 0, cycle |-> 0]
  /\ agent = [gen |-> 0, lastSeq |-> 0, revoked |-> FALSE]
  /\ boundary = 0 /\ writable = TRUE
  /\ jobs = [g \in Generations |-> "none"]
  /\ client = 0 /\ peer = 0 /\ up = <<>> /\ down = <<>> /\ answers = {}
  /\ adapter = NewAdapter(Nothing, Nothing)
  /\ queue = <<>> /\ sent = "no" /\ entry = Nothing
  /\ pi = [working |-> FALSE, cycle |-> 0, inbox |-> 0, prompting |-> {}]
  /\ past = [prompts |-> 0, started |-> 0, forgotten |-> FALSE, failed |-> FALSE, faults |-> 0]

Frame == [kind: {"bound", "settled", "heartbeat"}, gen: Generations, seq: Nat,
          cycle: 0 .. MaxCycles]

DeliveryTypeOK ==
  /\ run \in [state: {"created", "working", "settled", "closed"},
              delivery: {"none", "pending", "accepted", "failed"},
              gen: 0 .. MaxConnections, cycle: 0 .. MaxCycles]
  /\ agent \in [gen: 0 .. MaxConnections, lastSeq: Nat, revoked: BOOLEAN]
  /\ boundary \in 0 .. MaxConnections /\ writable \in BOOLEAN
  /\ jobs \in [Generations -> {"none", "send", "wait", "accepted", "failed"}]
  /\ client \in 0 .. MaxConnections /\ peer \in 0 .. MaxConnections
  /\ up \in Seq(Frame)
  /\ down \in Seq({"registered", "deliver", "ok", "refused"})
  /\ answers \subseteq BOOLEAN
  /\ adapter \in [phase: {"opening", "ready", "leaving", "down"}, gen: 0 .. MaxConnections,
                  seq: Nat, cor: Known, seen: Known, kept: Known]
  /\ queue \in Seq(Frame) /\ sent \in {"no", "event", "beat"} /\ entry \in Known
  /\ pi \in [working: BOOLEAN, cycle: 0 .. MaxCycles, inbox: Nat,
             prompting: SUBSET Generations]
  /\ past \in [prompts: Nat, started: Nat, forgotten: BOOLEAN, failed: BOOLEAN, faults: Nat]

-----------------------------------------------------------------------------
(* The broker.                                                             *)

\* isRunClosedForAdapterProgress, negated.
InProgress == run.state \in {"created", "working"}

CanFinalize(g) ==
  agent.gen = g /\ run.gen = g /\ run.delivery = "pending" /\ InProgress

\* A plausible bug: a delivery that is still pending is taken to be under way.
FaultyRegister ==
  LET g == agent.gen + 1 IN
  /\ adapter.phase = "opening" /\ peer = 0 /\ client = 0 /\ boundary = 0
  /\ agent.gen < MaxConnections /\ ~agent.revoked /\ writable
  /\ boundary' = g /\ peer' = g /\ down' = <<>>
  /\ run' = IF InProgress /\ run.delivery # "pending"
              THEN [run EXCEPT !.delivery = "pending", !.gen = g] ELSE run
  /\ UNCHANGED <<agent, writable, jobs, client, up, answers, adapterVars, pi, past>>

\* agent.register_managed on a new connection, up to its responseBoundary.  hello refuses
\* the connection while the broker still has the agent's previous one, and once its token is
\* revoked; a store that is read-only refuses the first event.
Register ==
  LET g == agent.gen + 1 IN
  /\ adapter.phase = "opening" /\ peer = 0 /\ client = 0 /\ boundary = 0
  /\ agent.gen < MaxConnections /\ ~agent.revoked /\ writable
  /\ boundary' = g /\ peer' = g /\ down' = <<>>
  /\ run' = IF InProgress THEN [run EXCEPT !.delivery = "pending", !.gen = g] ELSE run
  /\ UNCHANGED <<agent, writable, jobs, client, up, answers, adapterVars, pi, past>>

\* The pane is still the agent's: the connection is the current one, and the response goes
\* out before the deferred delivery.
CrossBoundary ==
  LET g == boundary IN
  /\ g # 0 /\ writable /\ boundary' = 0
  /\ agent' = [agent EXCEPT !.gen = g]
  /\ client' = g /\ down' = IF peer = g THEN <<"registered">> ELSE down
  /\ jobs' = IF InProgress THEN [jobs EXCEPT ![g] = "send"] ELSE jobs
  /\ UNCHANGED <<run, writable, peer, up, answers, adapterVars, pi, past>>

\* The pane is another's, before or after the agent's event was stored: the token is
\* revoked.  The registration is refused, and its deferred delivery never runs.
Mismatch ==
  /\ boundary # 0 /\ writable /\ boundary' = 0
  /\ \E gen \in {agent.gen, boundary} :
       agent' = [agent EXCEPT !.gen = gen, !.revoked = TRUE]
  /\ UNCHANGED <<run, writable, jobs, wire, adapterVars, pi, past>>

\* The same where the mismatch cannot be recorded either, and so the token stays.
FailBoundary ==
  /\ boundary # 0 /\ boundary' = 0
  /\ \/ ~writable /\ UNCHANGED <<agent, past>>
     \/ /\ writable /\ past.faults < MaxFaults /\ past' = [past EXCEPT !.faults = @ + 1]
        /\ \E gen \in {agent.gen, boundary} :
             gen < MaxConnections /\ agent' = [agent EXCEPT !.gen = gen]
  /\ UNCHANGED <<run, writable, jobs, wire, adapterVars, pi>>

\* The deferred delivery starts after the response to the registration was written.
Send(g) ==
  /\ jobs[g] = "send"
  /\ jobs' = [jobs EXCEPT ![g] = IF ~CanFinalize(g) THEN "none"
                                 ELSE IF client = g THEN "wait" ELSE "failed"]
  /\ down' = IF CanFinalize(g) /\ client = g /\ peer = g THEN Append(down, "deliver") ELSE down
  /\ UNCHANGED <<run, agent, boundary, writable, client, peer, up, answers, adapterVars, pi, past>>

\* The socket of the current client is gone: its requests are, and who waits is rejected.
CloseClient ==
  /\ client' = 0 /\ up' = <<>> /\ answers' = {}
  /\ jobs' = [g \in Generations |-> IF jobs[g] = "wait" THEN "failed" ELSE jobs[g]]

\* A plausible bug: any answer is an acceptance.
FaultyTakeAnswer(ok) ==
  /\ ok \in answers
  /\ IF jobs[client] = "wait"
       THEN /\ jobs' = [jobs EXCEPT ![client] = "accepted"]
            /\ answers' = answers \ {ok}
            /\ UNCHANGED <<client, up>>
       ELSE CloseClient
  /\ UNCHANGED <<run, agent, boundary, writable, peer, down, adapterVars, pi, past>>

\* A server_response; one that nobody waits for fails the connection.
TakeAnswer(ok) ==
  /\ ok \in answers
  /\ IF jobs[client] = "wait"
       THEN /\ jobs' = [jobs EXCEPT ![client] = IF ok THEN "accepted" ELSE "failed"]
            /\ answers' = answers \ {ok}
            /\ UNCHANGED <<client, up>>
       ELSE CloseClient
  /\ UNCHANGED <<run, agent, boundary, writable, peer, down, adapterVars, pi, past>>

DeliveryTimesOut(g) ==
  /\ jobs[g] = "wait"
  /\ jobs' = [jobs EXCEPT ![g] = "failed"]
  /\ UNCHANGED <<run, agent, boundary, writable, wire, adapterVars, pi, past>>

\* A mutation, which waits while a registration is between its halves.
Finalize(g) ==
  /\ jobs[g] \in {"accepted", "failed"} /\ boundary = 0
  /\ run' = IF CanFinalize(g) /\ writable THEN [run EXCEPT !.delivery = jobs[g]] ELSE run
  /\ jobs' = [jobs EXCEPT ![g] = "none"]
  /\ UNCHANGED <<agent, boundary, writable, wire, adapterVars, pi, past>>

\* The broker sees that the adapter closed its end.
Notice ==
  /\ client # 0 /\ peer # client
  /\ CloseClient
  /\ UNCHANGED <<run, agent, boundary, writable, peer, down, adapterVars, pi, past>>

\* agent.lifecycle_event: what it must agree with to be appended.
Agrees(f) ==
  /\ f.gen = agent.gen /\ f.seq > agent.lastSeq
  /\ InProgress /\ run.delivery = "accepted"
  /\ IF f.kind = "bound" THEN run.state # "working"
                         ELSE run.state = "working" /\ run.cycle = f.cycle

\* A queued request of the client: a lifecycle event or a heartbeat.
TakeRequest ==
  LET f == Head(up)
      fits == writable /\ IF f.kind = "heartbeat" THEN f.seq > agent.lastSeq ELSE Agrees(f)
      moved == fits /\ f.kind # "heartbeat"
  IN /\ up # <<>> /\ up' = Tail(up)
     /\ agent' = IF fits THEN [agent EXCEPT !.lastSeq = f.seq] ELSE agent
     /\ run' = IF ~moved THEN run
               ELSE IF f.kind = "bound" THEN [run EXCEPT !.state = "working", !.cycle = f.cycle]
               ELSE [run EXCEPT !.state = "settled"]
     /\ down' = IF f.kind = "heartbeat" \/ peer # client THEN down
                ELSE Append(down, IF fits THEN "ok" ELSE "refused")
     /\ UNCHANGED <<boundary, writable, jobs, client, peer, answers, adapterVars, pi, past>>

\* A result, a cancellation or a deadline ends the run (RunLifecycle).
CloseRun ==
  /\ run.state # "closed" /\ boundary = 0 /\ writable
  /\ run' = [run EXCEPT !.state = "closed"]
  /\ UNCHANGED <<agent, boundary, writable, jobs, wire, adapterVars, pi, past>>

\* An append fails, and the store refuses every later one until the broker is restarted.
StopStore ==
  /\ writable /\ writable' = FALSE
  /\ agent.gen < MaxConnections /\ past.faults < MaxFaults
  /\ past' = [past EXCEPT !.faults = @ + 1]
  /\ UNCHANGED <<run, agent, boundary, jobs, wire, adapterVars, pi>>

RestartBroker ==
  /\ agent.gen < MaxConnections
  /\ \/ ~writable /\ UNCHANGED past
     \/ /\ writable /\ (client # 0 \/ boundary # 0)
        /\ past.faults < MaxFaults /\ past' = [past EXCEPT !.faults = @ + 1]
  /\ client' = 0 /\ up' = <<>> /\ answers' = {} /\ boundary' = 0 /\ writable' = TRUE
  /\ jobs' = [g \in Generations |-> "none"]
  /\ UNCHANGED <<run, agent, peer, down, adapterVars, pi>>

-----------------------------------------------------------------------------
(* The adapter: connections.                                               *)

\* A prompt that has not returned is forgotten with the last record of it: where no entry
\* tells of it, when an adapter that had no delivery takes the place of `kept'.
Forgets(kept) ==
  past' = [past EXCEPT !.forgotten =
             @ \/ (adapter.kept.kind = "pending" /\ kept = Nothing /\ entry = Nothing)]

\* start(): the state of an adapter that registered is kept, its client closed.
Start ==
  /\ adapter.phase \in {"leaving", "down"}
  /\ adapter' = NewAdapter(entry, adapter.cor)
  /\ peer' = 0 /\ down' = <<>> /\ sent' = "no"
  /\ Forgets(adapter.cor)
  /\ UNCHANGED <<brokerVars, client, up, answers, queue, entry, pi>>

\* start() again after an attempt that failed: no adapter registered in between.
Retry ==
  /\ adapter.phase = "opening"
  /\ adapter' = NewAdapter(entry, adapter.kept)
  /\ peer' = 0 /\ down' = <<>>
  /\ UNCHANGED <<brokerVars, client, up, answers, queue, sent, entry, pi, past>>

\* The attempt is refused, or its connection lost.
AttemptFails == peer # 0 /\ peer # client /\ boundary = 0 /\ Retry

\* The response to the registration.  adapterSeq 1 is spent on the recovery payload, which a
\* fresh adapter does not have: the broker's response names no assignment.
Registered ==
  /\ down # <<>> /\ Head(down) = "registered" /\ down' = Tail(down)
  /\ adapter' = [adapter EXCEPT !.phase = "ready", !.gen = peer, !.seq = 1]
  /\ queue' = <<>> /\ sent' = "no"
  /\ UNCHANGED <<brokerVars, client, peer, up, answers, entry, pi, past>>

\* The adapter's end closes; what awaited a response is rejected.
Disconnect ==
  /\ peer # 0 /\ adapter.phase \in {"ready", "leaving"}
  /\ peer' = 0 /\ down' = <<>> /\ sent' = "no"
  /\ adapter' = [adapter EXCEPT !.phase = "down"]
  /\ UNCHANGED <<brokerVars, client, up, answers, queue, entry, pi, past>>

BrokerGone == peer # client /\ Disconnect

\* The Pi process dies and its session is resumed.
RestartPi ==
  /\ adapter' = NewAdapter(entry, Nothing)
  /\ peer' = 0 /\ down' = <<>> /\ queue' = <<>> /\ sent' = "no"
  /\ pi' = [pi EXCEPT !.working = FALSE, !.inbox = 0, !.prompting = {}]
  /\ past' = [past EXCEPT !.forgotten = @ \/ pi.prompting # {}]
  /\ UNCHANGED <<brokerVars, client, up, answers, entry>>

-----------------------------------------------------------------------------
(* The adapter: the assignment.                                            *)

\* handleServerRequest's response, on the socket that brought the request.
Answer(g, ok) == answers' = IF peer = g /\ client = g THEN answers \union {ok} ELSE answers

\* A plausible bug: the session's entry is not read back.
FaultyReconciled == IF adapter.kept # Nothing THEN adapter.kept ELSE adapter.cor

\* reconcileAssignment: the session's entry first, then what the previous adapter knew.
Reconciled ==
  IF adapter.seen # Nothing THEN adapter.seen
  ELSE IF adapter.kept # Nothing THEN adapter.kept ELSE adapter.cor

\* assignment.deliver.  Pi must be idle; an assignment that is known is not prompted again.
Deliver ==
  /\ down # <<>> /\ Head(down) = "deliver" /\ down' = Tail(down)
  /\ IF pi.working
       THEN Answer(adapter.gen, FALSE) /\ UNCHANGED <<adapter, pi, past>>
     ELSE IF Reconciled # Nothing
       THEN /\ adapter' = [adapter EXCEPT !.cor = Reconciled]
            /\ Answer(adapter.gen, TRUE) /\ UNCHANGED <<pi, past>>
     ELSE /\ adapter' = [adapter EXCEPT !.cor = Pending]
          /\ pi' = [pi EXCEPT !.inbox = @ + 1, !.prompting = @ \union {adapter.gen}]
          /\ past' = [past EXCEPT !.prompts = @ + 1]
          /\ UNCHANGED answers
  /\ UNCHANGED <<brokerVars, client, peer, up, queue, sent, entry>>

\* sendUserMessage returns to the adapter that called it, which may have been replaced.
PromptReturns(g) ==
  /\ g \in pi.prompting
  /\ pi' = [pi EXCEPT !.prompting = @ \ {g}]
  /\ entry' = Accepted
  /\ adapter' = IF adapter.gen = g THEN [adapter EXCEPT !.cor = Accepted] ELSE adapter
  /\ Answer(g, TRUE)
  /\ UNCHANGED <<brokerVars, client, peer, up, down, queue, sent, past>>

\* sendUserMessage throws: Pi does not have the message, the correlator stays as it is.
PromptFails(g) ==
  /\ g \in pi.prompting /\ pi.inbox > 0
  /\ pi' = [pi EXCEPT !.prompting = @ \ {g}, !.inbox = @ - 1]
  /\ past' = [past EXCEPT !.prompts = @ - 1, !.failed = TRUE]
  /\ Answer(g, FALSE)
  /\ UNCHANGED <<brokerVars, client, peer, up, down, adapterVars>>

-----------------------------------------------------------------------------
(* The adapter: lifecycle.                                                 *)

\* A plausible bug: the end of a turn counts as the end of the cycle.
FaultyCorrelated(event) ==
  IF event = "turn_start" /\ adapter.cor = Accepted
    THEN [kind |-> "bound", cycle |-> pi'.cycle]
  ELSE IF adapter.cor.kind = "bound"
    THEN [kind |-> "settled", cycle |-> adapter.cor.cycle]
  ELSE adapter.cor

\* LifecycleCorrelator.lifecycle: what an event of Pi makes of what is known.
Correlated(event) ==
  IF event = "turn_start" /\ adapter.cor = Accepted
    THEN [kind |-> "bound", cycle |-> pi'.cycle]
  ELSE IF event = "agent_settled" /\ adapter.cor.kind = "bound"
    THEN [kind |-> "settled", cycle |-> adapter.cor.cycle]
  ELSE adapter.cor

\* The handler of Pi's events: news is written to the session and queued as a frame with the
\* next adapterSeq; the head of the queue is sent unless one is on its way.
Handle(event) ==
  IF adapter.phase = "opening" THEN UNCHANGED <<adapterVars, up>>
  ELSE LET cor == Correlated(event)
           news == cor # adapter.cor
           frames == IF news THEN Append(queue, [kind |-> cor.kind, gen |-> adapter.gen,
                                                 seq |-> adapter.seq + 1, cycle |-> cor.cycle])
                     ELSE queue
           sends == peer # 0 /\ sent = "no" /\ frames # <<>>
       IN /\ adapter' = IF news THEN [adapter EXCEPT !.cor = cor, !.seq = @ + 1] ELSE adapter
          /\ entry' = IF news THEN cor ELSE entry
          /\ queue' = frames
          /\ sent' = IF sends THEN "event" ELSE sent
          /\ up' = IF sends /\ peer = client THEN Append(up, Head(frames)) ELSE up

\* Pi begins a cycle, on the assignment's message or on another.
Begin(message) ==
  /\ ~pi.working /\ pi.cycle < MaxCycles
  /\ message = "assignment" => pi.inbox > 0
  /\ pi' = [pi EXCEPT !.working = TRUE, !.cycle = @ + 1,
                      !.inbox = IF message = "assignment" THEN @ - 1 ELSE @]
  /\ past' = IF message = "assignment" THEN [past EXCEPT !.started = @ + 1] ELSE past
  /\ Handle("turn_start")
  /\ UNCHANGED <<brokerVars, client, peer, down, answers>>

\* A later turn of the cycle.
NextTurn ==
  /\ pi.working /\ pi' = pi
  /\ Handle("turn_start")
  /\ UNCHANGED <<brokerVars, client, peer, down, answers, past>>

Settle ==
  /\ pi.working /\ pi' = [pi EXCEPT !.working = FALSE]
  /\ Handle("agent_settled")
  /\ UNCHANGED <<brokerVars, client, peer, down, answers, past>>

\* The heartbeat timer: flushLifecycle, and a report of the state.
Beat ==
  LET flushes == sent = "no" /\ queue # <<>>
      report == [kind |-> "heartbeat", gen |-> adapter.gen, seq |-> adapter.seq + 1, cycle |-> 0]
      reports == adapter.seq < MaxReports
  IN /\ adapter.phase \in {"ready", "leaving"} /\ peer # 0
     /\ flushes \/ reports
     /\ sent' = IF flushes THEN "beat" ELSE sent
     /\ adapter' = IF reports THEN [adapter EXCEPT !.seq = @ + 1] ELSE adapter
     /\ up' = IF peer # client THEN up
              ELSE up \o (IF flushes THEN <<Head(queue)>> ELSE <<>>)
                      \o (IF reports THEN <<report>> ELSE <<>>)
     /\ UNCHANGED <<brokerVars, client, peer, down, answers, queue, entry, pi, past>>

\* The response to a lifecycle event.  A refused one is dropped if the timer sent it; if the
\* event's handler did, a new connection is scheduled.
Reply ==
  /\ down # <<>> /\ Head(down) \in {"ok", "refused"} /\ down' = Tail(down)
  /\ sent' = "no"
  /\ queue' = IF queue # <<>> /\ (Head(down) = "ok" \/ sent = "beat") THEN Tail(queue) ELSE queue
  /\ adapter' = IF Head(down) = "refused" /\ sent = "event"
                  THEN [adapter EXCEPT !.phase = "leaving"] ELSE adapter
  /\ UNCHANGED <<brokerVars, client, peer, up, answers, entry, pi, past>>

-----------------------------------------------------------------------------
BrokerStep ==
  \/ Register \/ CrossBoundary \/ Mismatch \/ FailBoundary
  \/ Notice \/ TakeRequest \/ CloseRun \/ StopStore \/ RestartBroker
  \/ \E g \in Generations : Send(g) \/ DeliveryTimesOut(g) \/ Finalize(g)
  \/ \E ok \in BOOLEAN : TakeAnswer(ok)

AdapterStep ==
  \/ Start \/ Retry \/ Registered \/ Disconnect \/ RestartPi \/ Deliver
  \/ NextTurn \/ Settle \/ Beat \/ Reply
  \/ \E g \in Generations : PromptReturns(g) \/ PromptFails(g)
  \/ \E message \in {"assignment", "another"} : Begin(message)

DeliveryNext == BrokerStep \/ AdapterStep

\* Promises, timers and sockets of the two processes go on; Pi, faults and requests need not.
DeliveryFairness ==
  /\ WF_deliveryVars(Register) /\ WF_deliveryVars(CrossBoundary \/ Mismatch \/ FailBoundary)
  /\ WF_deliveryVars(AttemptFails) /\ WF_deliveryVars(Notice)
  /\ \A g \in Generations : WF_deliveryVars(Send(g)) /\ WF_deliveryVars(DeliveryTimesOut(g))
                              /\ WF_deliveryVars(Finalize(g))
  /\ WF_deliveryVars(Start) /\ WF_deliveryVars(Registered) /\ WF_deliveryVars(BrokerGone)

DeliverySpec == DeliveryInit /\ [][DeliveryNext]_deliveryVars /\ DeliveryFairness

-----------------------------------------------------------------------------
(* Properties.                                                             *)

\* However often the connection is replaced, and over a restart of Pi, the assignment starts
\* at most one cycle of Pi - unless, while its prompt had not returned, all that was known
\* of the prompt was dropped.
PromptedOnce == past.started > 1 => past.forgotten

\* What the broker holds for accepted was handed to Pi - unless a prompt failed: the adapter
\* then answers the next delivery as one it has accepted.
AcceptedWasPrompted == run.delivery = "accepted" /\ ~past.failed => past.prompts > 0

\* The broker is never ahead of Pi: the cycle of a working run has begun, that of a settled
\* run has ended.
BrokerFollowsPi ==
  /\ run.state = "working" => run.cycle \in 1 .. pi.cycle
  /\ run.state = "settled" => ~(pi.working /\ pi.cycle = run.cycle)


=============================================================================
