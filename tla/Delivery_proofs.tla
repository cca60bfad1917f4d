--------------------------- MODULE Delivery_proofs ---------------------------
(* The delivery of the assignment, for any number of connections, cycles and reports. *)
EXTENDS Delivery, SequenceTheorems, TLAPS

-----------------------------------------------------------------------------
\* What the types of the variables rest on.  A socket that is gone has nothing on its way;
\* an adapter that has not registered has only the response to come, and no generation.
WireKept ==
  /\ client = 0 => up = <<>> /\ answers = {}
  /\ peer = 0 => down = <<>>
  /\ adapter.phase = "opening" =>
       /\ adapter.cor = Nothing /\ adapter.gen = 0
       /\ down # <<>> => Head(down) = "registered"
       /\ peer # 0 /\ peer = client => down # <<>>
  /\ adapter.phase # "opening" => adapter.gen \in Generations

PiKept == pi.inbox <= past.prompts /\ (pi.working => pi.cycle \in Cycles)

\* Whatever says that the assignment was prompted says so after a prompt.
Evidence ==
  (\/ run.delivery = "accepted" \/ TRUE \in answers \/ \E g \in Generations : jobs[g] = "accepted"
   \/ adapter.cor # Nothing \/ adapter.kept # Nothing \/ adapter.seen # Nothing
   \/ entry # Nothing \/ pi.prompting # {})
    => past.prompts > 0 \/ past.failed

\* What is known, or reported, of a cycle of Pi has happened.
Behind(k, p) ==
  /\ k.kind \in {"bound", "settled"} => k.cycle \in 1 .. p.cycle
  /\ k.kind = "settled" => ~(p.working /\ p.cycle = k.cycle)

Reported(p) == {f \in Frame : Behind(f, p)}

KnownFollows ==
  Behind(adapter.cor, pi) /\ Behind(adapter.kept, pi) /\ Behind(adapter.seen, pi)
  /\ Behind(entry, pi)

FramesFollow == up \in Seq(Reported(pi)) /\ queue \in Seq(Reported(pi))

RunFollows ==
  /\ run.state \in {"working", "settled"} => run.cycle \in 1 .. pi.cycle
  /\ run.state = "settled" => ~(pi.working /\ pi.cycle = run.cycle)

\* A prompt is remembered by the adapter that will answer the next delivery, and, once it
\* returned, by the session.
Remembered ==
  /\ adapter.seen # Nothing => entry # Nothing
  /\ \A k \in {adapter.cor, adapter.kept} : k # Nothing /\ k # Pending => entry # Nothing
  /\ ~past.forgotten =>
       /\ past.started + pi.inbox <= past.prompts /\ past.prompts <= 1
       /\ past.prompts > 0 => /\ Reconciled # Nothing
                              /\ pi.prompting # {} \/ entry # Nothing

DeliveryInv ==
  /\ DeliveryTypeOK /\ WireKept /\ PiKept /\ Evidence /\ KnownFollows
  /\ FramesFollow /\ RunFollows /\ Remembered

USE DeliveryAssumption

-----------------------------------------------------------------------------
(* What is known. *)

LEMMA KnownFacts ==
  /\ Nothing \in Known /\ Pending \in Known /\ Accepted \in Known
  /\ Nothing # Pending /\ Nothing # Accepted /\ Pending # Accepted
  /\ Nothing.kind = "none" /\ Pending.kind = "pending" /\ Accepted.kind = "accepted"
  /\ \A c \in Cycles : /\ [kind |-> "bound", cycle |-> c] \in Known
                        /\ [kind |-> "settled", cycle |-> c] \in Known
  /\ \A k \in Known : k.cycle \in 0 .. MaxCycles
  /\ \A k \in Known : k.kind \in {"bound", "settled"} => k.cycle \in Cycles
<1> USE DEF Known, Nothing, Pending, Accepted
<1>1. Nothing \in Known /\ Pending \in Known /\ Accepted \in Known
  OBVIOUS
<1>2. /\ Nothing # Pending /\ Nothing # Accepted /\ Pending # Accepted
      /\ Nothing.kind = "none" /\ Pending.kind = "pending" /\ Accepted.kind = "accepted"
  OBVIOUS
<1>3. \A c \in Cycles : /\ [kind |-> "bound", cycle |-> c] \in Known
                        /\ [kind |-> "settled", cycle |-> c] \in Known
  OBVIOUS
<1>4. \A k \in Known : k.cycle \in 0 .. MaxCycles
  BY DEF Cycles
<1>5. \A k \in Known : k.kind \in {"bound", "settled"} => k.cycle \in Cycles
  OBVIOUS
<1>. QED  BY <1>1, <1>2, <1>3, <1>4, <1>5

\* An event of Pi leaves what is known, or makes it a cycle's.
LEMMA CorrelatedFacts ==
  ASSUME NEW event, adapter.cor \in Known, event = "turn_start" => pi'.cycle \in Cycles
  PROVE  /\ Correlated(event) \in Known
         /\ \/ Correlated(event) = adapter.cor
            \/ /\ event = "turn_start" /\ adapter.cor = Accepted
               /\ Correlated(event) = [kind |-> "bound", cycle |-> pi'.cycle]
            \/ /\ event = "agent_settled" /\ adapter.cor.kind = "bound"
               /\ Correlated(event) = [kind |-> "settled", cycle |-> adapter.cor.cycle]
BY KnownFacts DEF Correlated

\* The handler of an event: it finds no news, or keeps and queues them; either way it may
\* send the head of its queue.
News(event) ==
  /\ adapter.phase # "opening" /\ Correlated(event) # adapter.cor
  /\ adapter' = [adapter EXCEPT !.cor = Correlated(event), !.seq = @ + 1]
  /\ entry' = Correlated(event)
  /\ queue' = Append(queue, [kind |-> Correlated(event).kind, gen |-> adapter.gen,
                             seq |-> adapter.seq + 1, cycle |-> Correlated(event).cycle])

LEMMA HandleFacts ==
  ASSUME NEW event, Handle(event)
  PROVE  /\ News(event) \/ UNCHANGED <<adapter, entry, queue>>
         /\ \/ up' = up /\ sent' = sent
            \/ up' = up /\ sent' = "event" /\ queue' # <<>>
            \/ /\ up' = Append(up, Head(queue')) /\ sent' = "event" /\ queue' # <<>>
               /\ peer # 0 /\ peer = client
BY DEF Handle, News, adapterVars

\* A turn starts in a cycle.
LEMMA TurnCycle ==
  ASSUME DeliveryTypeOK, PiKept
  PROVE  /\ NextTurn => pi'.cycle \in Cycles
         /\ \A message : Begin(message) => pi'.cycle \in Cycles /\ pi'.cycle = pi.cycle + 1
<1>1. pi.cycle \in 0 .. MaxCycles
  BY DEF DeliveryTypeOK
<1>2. NextTurn => pi'.cycle \in Cycles
  BY DEF NextTurn, PiKept
<1>3. \A message : Begin(message) => pi'.cycle = pi.cycle + 1 /\ pi.cycle < MaxCycles
  BY DEF Begin, DeliveryTypeOK
<1>4. \A message : Begin(message) => pi'.cycle \in Cycles
  BY <1>1, <1>3 DEF Cycles
<1>. QED  BY <1>2, <1>3, <1>4

-----------------------------------------------------------------------------
(* The second half of a registration, and what may stop it. *)

BoundaryOrFault == CrossBoundary \/ Mismatch \/ FailBoundary \/ StopStore \/ RestartBroker

\* They touch neither the run nor the adapter and Pi.
LEMMA BoundaryFacts ==
  ASSUME DeliveryTypeOK, BoundaryOrFault
  PROVE  /\ UNCHANGED <<run, peer, adapter, queue, sent, entry, pi>>
         /\ past'.prompts = past.prompts /\ past'.started = past.started
         /\ past'.forgotten = past.forgotten /\ past'.failed = past.failed
         /\ past' = past \/ past' = [past EXCEPT !.faults = past.faults + 1]
         /\ up' \in {up, <<>>} /\ answers' \in {answers, {}}
         /\ \A g \in Generations : jobs'[g] = "accepted" => jobs[g] = "accepted"
<1>1. UNCHANGED <<run, peer, adapter, queue, sent, entry, pi>>
  BY DEF BoundaryOrFault, CrossBoundary, Mismatch, FailBoundary, StopStore, RestartBroker,
     adapterVars, wire
<1>2. past' = past \/ past' = [past EXCEPT !.faults = past.faults + 1]
  BY DEF BoundaryOrFault, CrossBoundary, Mismatch, FailBoundary, StopStore, RestartBroker
<1>3. up' \in {up, <<>>} /\ answers' \in {answers, {}}
  BY DEF BoundaryOrFault, CrossBoundary, Mismatch, FailBoundary, StopStore, RestartBroker, wire
<1>4. /\ past'.prompts = past.prompts /\ past'.started = past.started
      /\ past'.forgotten = past.forgotten /\ past'.failed = past.failed
  BY <1>2 DEF DeliveryTypeOK
<1>5. \/ jobs' = jobs \/ jobs' = [jobs EXCEPT ![boundary] = "send"]
      \/ jobs' = [g \in Generations |-> "none"]
  BY DEF BoundaryOrFault, CrossBoundary, Mismatch, FailBoundary, StopStore, RestartBroker
<1>6. \A g \in Generations : jobs'[g] = "accepted" => jobs[g] = "accepted"
  BY <1>5 DEF DeliveryTypeOK
<1>. QED  BY <1>1, <1>2, <1>3, <1>4, <1>6

-----------------------------------------------------------------------------
(* Evidence of a prompt. *)

\* Nothing that says that the assignment was prompted comes before a prompt.
LEMMA EvidenceInductive ==
  ASSUME DeliveryTypeOK, WireKept, PiKept, Evidence, [DeliveryNext]_deliveryVars
  PROVE  Evidence'
<1> USE DEF DeliveryTypeOK, PiKept, Evidence
<1>1. ASSUME Register
      PROVE  Evidence'
  BY <1>1, KnownFacts DEF Register, adapterVars
<1>2. ASSUME Notice
      PROVE  Evidence'
  BY <1>2, KnownFacts DEF Notice, CloseClient, adapterVars
<1>3. ASSUME TakeRequest
      PROVE  Evidence'
  BY <1>3, KnownFacts DEF TakeRequest, Agrees, InProgress, adapterVars
<1>4. ASSUME CloseRun
      PROVE  Evidence'
  BY <1>4, KnownFacts DEF CloseRun, wire, adapterVars
<1>5. ASSUME BoundaryOrFault
      PROVE  Evidence'
  <2>1. /\ UNCHANGED <<run, adapter, entry, pi>>
        /\ TRUE \in answers' => TRUE \in answers
        /\ past'.prompts = past.prompts /\ past'.failed = past.failed
        /\ \A g \in Generations : jobs'[g] = "accepted" => jobs[g] = "accepted"
    BY <1>5, BoundaryFacts
  <2>. QED  BY <2>1
<1>6. ASSUME NEW g \in Generations,
             Send(g) \/ DeliveryTimesOut(g) \/ Finalize(g) \/ PromptReturns(g) \/ PromptFails(g)
      PROVE  Evidence'
  BY <1>6, KnownFacts DEF Send, DeliveryTimesOut, Finalize, PromptReturns, Answer, PromptFails,
     adapterVars, wire, brokerVars
<1>7. ASSUME NEW ok \in BOOLEAN, TakeAnswer(ok)
      PROVE  Evidence'
  <2>1. client \in Generations /\ UNCHANGED <<run, adapter, entry, pi, past>>
    BY <1>7 DEF WireKept, TakeAnswer, adapterVars, Generations
  <2>2. CASE jobs[client] = "wait"
    <3>1. /\ jobs' = [jobs EXCEPT ![client] = IF ok THEN "accepted" ELSE "failed"]
          /\ answers' = answers \ {ok}
      BY <1>7, <2>2 DEF TakeAnswer
    <3>2. \A g \in Generations : jobs'[g] = "accepted" => jobs[g] = "accepted" \/ TRUE \in answers
      <4>1. ok => TRUE \in answers
        BY <1>7 DEF TakeAnswer
      <4>. QED  BY <2>1, <3>1, <4>1
    <3>. QED  BY <2>1, <3>1, <3>2
  <2>3. CASE jobs[client] # "wait"
    <3>1. /\ answers' = {}
          /\ jobs' = [g \in Generations |-> IF jobs[g] = "wait" THEN "failed" ELSE jobs[g]]
      BY <1>7, <2>3 DEF TakeAnswer, CloseClient
    <3>2. \A g \in Generations : jobs'[g] = "accepted" => jobs[g] = "accepted"
      BY <3>1
    <3>. QED  BY <2>1, <3>1, <3>2
  <2>. QED  BY <2>2, <2>3
<1>8. ASSUME Start
      PROVE  Evidence'
  BY <1>8, KnownFacts DEF Start, NewAdapter, Forgets, brokerVars
<1>9. ASSUME Retry
      PROVE  Evidence'
  BY <1>9, KnownFacts DEF Retry, NewAdapter, brokerVars
<1>10. ASSUME Registered
      PROVE  Evidence'
  BY <1>10, KnownFacts DEF Registered, brokerVars
<1>11. ASSUME Disconnect
      PROVE  Evidence'
  BY <1>11, KnownFacts DEF Disconnect, brokerVars
<1>12. ASSUME RestartPi
      PROVE  Evidence'
  BY <1>12, KnownFacts DEF RestartPi, NewAdapter, brokerVars
<1>13. ASSUME Deliver
      PROVE  Evidence'
  <2>1. CASE pi.working
    BY <1>13, <2>1 DEF Deliver, Answer, brokerVars
  <2>2. CASE ~pi.working /\ Reconciled # Nothing
    <3>1. adapter.seen # Nothing \/ adapter.kept # Nothing \/ adapter.cor # Nothing
      BY <2>2 DEF Reconciled
    <3>2. UNCHANGED <<past, pi>>
      BY <1>13, <2>2 DEF Deliver
    <3>. QED  BY <3>1, <3>2
  <2>3. CASE ~pi.working /\ Reconciled = Nothing
    <3>1. past'.prompts = past.prompts + 1 /\ past.prompts \in Nat
      BY <1>13, <2>3 DEF Deliver
    <3>. QED  BY <3>1
  <2>. QED  BY <2>1, <2>2, <2>3
<1>14. ASSUME NextTurn
      PROVE  Evidence'
  <2>1. /\ Handle("turn_start") /\ UNCHANGED <<run, jobs, answers>>
        /\ pi'.prompting = pi.prompting /\ past'.prompts = past.prompts
        /\ past'.failed = past.failed
    BY <1>14 DEF NextTurn, brokerVars
  <2>2. "turn_start" = "turn_start" => pi'.cycle \in Cycles
    BY <1>14, TurnCycle
  <2>3. Correlated("turn_start") # Nothing => adapter.cor # Nothing
    BY <2>2, CorrelatedFacts, KnownFacts
  <2>4. /\ adapter'.cor # Nothing => adapter.cor # Nothing
        /\ entry' # Nothing => entry # Nothing \/ adapter.cor # Nothing
        /\ adapter'.kept = adapter.kept /\ adapter'.seen = adapter.seen
    BY <2>1, <2>3, HandleFacts DEF News
  <2>. QED  BY <2>1, <2>4
<1>15. ASSUME Settle
      PROVE  Evidence'
  <2>1. /\ Handle("agent_settled") /\ UNCHANGED <<run, jobs, answers>>
        /\ pi'.prompting = pi.prompting /\ past'.prompts = past.prompts
        /\ past'.failed = past.failed
    BY <1>15 DEF Settle, brokerVars
  <2>2. "agent_settled" = "turn_start" => pi'.cycle \in Cycles
    BY <1>15, TurnCycle
  <2>3. Correlated("agent_settled") # Nothing => adapter.cor # Nothing
    BY <2>2, CorrelatedFacts, KnownFacts
  <2>4. /\ adapter'.cor # Nothing => adapter.cor # Nothing
        /\ entry' # Nothing => entry # Nothing \/ adapter.cor # Nothing
        /\ adapter'.kept = adapter.kept /\ adapter'.seen = adapter.seen
    BY <2>1, <2>3, HandleFacts DEF News
  <2>. QED  BY <2>1, <2>4
<1>16. ASSUME Beat \/ Reply
      PROVE  Evidence'
  BY <1>16, KnownFacts DEF Beat, Reply, brokerVars
<1>17. ASSUME NEW message \in {"assignment", "another"}, Begin(message)
      PROVE  Evidence'
  <2>1. /\ Handle("turn_start") /\ UNCHANGED <<run, jobs, answers>>
        /\ pi'.prompting = pi.prompting /\ past'.prompts = past.prompts
        /\ past'.failed = past.failed
    BY <1>17 DEF Begin, brokerVars
  <2>2. "turn_start" = "turn_start" => pi'.cycle \in Cycles
    BY <1>17, TurnCycle
  <2>3. Correlated("turn_start") # Nothing => adapter.cor # Nothing
    BY <2>2, CorrelatedFacts, KnownFacts
  <2>4. /\ adapter'.cor # Nothing => adapter.cor # Nothing
        /\ entry' # Nothing => entry # Nothing \/ adapter.cor # Nothing
        /\ adapter'.kept = adapter.kept /\ adapter'.seen = adapter.seen
    BY <2>1, <2>3, HandleFacts DEF News
  <2>. QED  BY <2>1, <2>4
<1>18. CASE UNCHANGED deliveryVars
  BY <1>18, KnownFacts DEF brokerVars, wire, adapterVars, deliveryVars
<1>. QED  BY <1>1, <1>2, <1>3, <1>4, <1>5, <1>6, <1>7, <1>8, <1>9, <1>10, <1>11, <1>12,
            <1>13, <1>14, <1>15, <1>16, <1>17, <1>18 DEF DeliveryNext, BrokerStep,
            AdapterStep, BoundaryOrFault

-----------------------------------------------------------------------------
(* Types, by what they are about. *)

BrokerType ==
  /\ run \in [state: {"created", "working", "settled", "closed"},
              delivery: {"none", "pending", "accepted", "failed"},
              gen: 0 .. MaxConnections, cycle: 0 .. MaxCycles]
  /\ agent \in [gen: 0 .. MaxConnections, lastSeq: Nat, revoked: BOOLEAN]
  /\ boundary \in 0 .. MaxConnections /\ writable \in BOOLEAN
  /\ jobs \in [Generations -> {"none", "send", "wait", "accepted", "failed"}]

SocketType ==
  /\ client \in 0 .. MaxConnections /\ peer \in 0 .. MaxConnections
  /\ down \in Seq({"registered", "deliver", "ok", "refused"})
  /\ answers \subseteq BOOLEAN

AdapterType ==
  /\ adapter \in [phase: {"opening", "ready", "leaving", "down"}, gen: 0 .. MaxConnections,
                  seq: Nat, cor: Known, seen: Known, kept: Known]
  /\ entry \in Known /\ sent \in {"no", "event", "beat"}

FramesType == up \in Seq(Frame) /\ queue \in Seq(Frame)

PiType ==
  /\ pi \in [working: BOOLEAN, cycle: 0 .. MaxCycles, inbox: Nat, prompting: SUBSET Generations]
  /\ past \in [prompts: Nat, started: Nat, forgotten: BOOLEAN, failed: BOOLEAN, faults: Nat]

LEMMA TypeParts ==
  DeliveryTypeOK <=> BrokerType /\ SocketType /\ AdapterType /\ FramesType /\ PiType
BY DEF DeliveryTypeOK, BrokerType, SocketType, AdapterType, FramesType, PiType

\* The broker's records keep their types;
LEMMA BrokerTypeInductive ==
  ASSUME DeliveryTypeOK, WireKept, PiKept, [DeliveryNext]_deliveryVars
  PROVE  BrokerType'
<1>0. BrokerType /\ FramesType
  BY TypeParts
<1>1. ASSUME Register
      PROVE  BrokerType'
  <2>1. agent.gen + 1 \in 0 .. MaxConnections
    BY <1>1, <1>0 DEF Register, BrokerType
  <2>2. run' = run \/ run' = [run EXCEPT !.delivery = "pending", !.gen = agent.gen + 1]
    BY <1>1 DEF Register
  <2>3. /\ agent' = agent /\ writable' = writable /\ jobs' = jobs
        /\ boundary' = agent.gen + 1
    BY <1>1 DEF Register
  <2>. QED  BY <1>0, <2>1, <2>2, <2>3 DEF BrokerType
<1>2. ASSUME Notice \/ CloseRun \/ Start \/ Retry
      PROVE  BrokerType'
  BY <1>2, <1>0 DEF Notice, CloseClient, CloseRun, Start, NewAdapter, Forgets,
     Retry, adapterVars, wire, brokerVars, Generations, BrokerType, FramesType
<1>3. ASSUME TakeRequest
      PROVE  BrokerType'
  <2>1. Head(up) \in Frame
    BY <1>3, <1>0, HeadTailProperties DEF TakeRequest, FramesType
  <2>2. Head(up).seq \in Nat /\ Head(up).cycle \in 0 .. MaxCycles
    BY <2>1 DEF Frame
  <2>3. agent' = agent \/ agent' = [agent EXCEPT !.lastSeq = Head(up).seq]
    BY <1>3 DEF TakeRequest
  <2>4. \/ run' = run \/ run' = [run EXCEPT !.state = "settled"]
        \/ run' = [run EXCEPT !.state = "working", !.cycle = Head(up).cycle]
    BY <1>3 DEF TakeRequest
  <2>5. jobs' = jobs /\ boundary' = boundary /\ writable' = writable
    BY <1>3 DEF TakeRequest
  <2>. QED  BY <1>0, <2>2, <2>3, <2>4, <2>5 DEF BrokerType
<1>4. ASSUME NEW g \in Generations, Send(g)
      PROVE  BrokerType'
  BY <1>4, <1>0 DEF Send, adapterVars, Generations, BrokerType, FramesType
<1>5. ASSUME NEW g \in Generations, DeliveryTimesOut(g)
      PROVE  BrokerType'
  BY <1>5, <1>0 DEF DeliveryTimesOut, wire, adapterVars, Generations, BrokerType, FramesType
<1>6. ASSUME NEW g \in Generations, Finalize(g)
      PROVE  BrokerType'
  BY <1>6, <1>0 DEF Finalize, wire, adapterVars, Generations, BrokerType, FramesType
<1>7. ASSUME NEW ok \in BOOLEAN, TakeAnswer(ok)
      PROVE  BrokerType'
  <2>1. run' = run /\ agent' = agent /\ boundary' = boundary /\ writable' = writable
    BY <1>7 DEF TakeAnswer
  <2>2. \/ \E a \in {"accepted", "failed"} : jobs' = [jobs EXCEPT ![client] = a]
        \/ jobs' = [g \in Generations |-> IF jobs[g] = "wait" THEN "failed" ELSE jobs[g]]
    BY <1>7 DEF TakeAnswer, CloseClient
  <2>3. jobs' \in [Generations -> {"none", "send", "wait", "accepted", "failed"}]
    BY <1>0, <2>2 DEF BrokerType
  <2>. QED  BY <1>0, <2>1, <2>3 DEF BrokerType
<1>8. ASSUME Registered \/ Disconnect \/ RestartPi \/ Deliver \/ NextTurn
      PROVE  BrokerType'
  BY <1>8, <1>0 DEF Registered, Disconnect, RestartPi, NewAdapter, Deliver, Answer, NextTurn,
     brokerVars, Generations, BrokerType, FramesType
<1>9. ASSUME Settle \/ Beat \/ Reply
      PROVE  BrokerType'
  BY <1>9, <1>0 DEF Settle, Beat, Reply, brokerVars, Generations, BrokerType, FramesType
<1>10. ASSUME NEW g \in Generations, PromptReturns(g)
      PROVE  BrokerType'
  BY <1>10, <1>0 DEF PromptReturns, Answer, brokerVars, Generations, BrokerType, FramesType
<1>11. ASSUME NEW g \in Generations, PromptFails(g)
      PROVE  BrokerType'
  BY <1>11, <1>0 DEF PromptFails, Answer, brokerVars, adapterVars, Generations, BrokerType,
     FramesType
<1>12. ASSUME NEW message \in {"assignment", "another"}, Begin(message)
      PROVE  BrokerType'
  BY <1>12, <1>0 DEF Begin, brokerVars, Generations, BrokerType, FramesType
<1>13. CASE UNCHANGED deliveryVars
  BY <1>13, <1>0 DEF brokerVars, wire, adapterVars, deliveryVars, Generations, BrokerType,
     FramesType
<1>14. ASSUME CrossBoundary
      PROVE  BrokerType'
  <2>1. boundary \in Generations
    BY <1>14, <1>0 DEF CrossBoundary, BrokerType, Generations
  <2>2. /\ run' = run /\ writable' = writable /\ boundary' = 0
        /\ agent' = [agent EXCEPT !.gen = boundary]
        /\ jobs' = jobs \/ jobs' = [jobs EXCEPT ![boundary] = "send"]
    BY <1>14 DEF CrossBoundary
  <2>3. agent' \in [gen: 0 .. MaxConnections, lastSeq: Nat, revoked: BOOLEAN]
    BY <1>0, <2>1, <2>2 DEF BrokerType, Generations
  <2>4. jobs' \in [Generations -> {"none", "send", "wait", "accepted", "failed"}]
    BY <1>0, <2>2 DEF BrokerType
  <2>. QED  BY <1>0, <2>2, <2>3, <2>4 DEF BrokerType
<1>15. ASSUME Mismatch \/ FailBoundary
      PROVE  BrokerType'
  <2>1. run' = run /\ writable' = writable /\ boundary' = 0 /\ jobs' = jobs
    BY <1>15 DEF Mismatch, FailBoundary
  <2>2. \/ agent' = agent
        \/ \E gen \in {agent.gen, boundary} :
             \/ agent' = [agent EXCEPT !.gen = gen]
             \/ agent' = [agent EXCEPT !.gen = gen, !.revoked = TRUE]
    BY <1>15 DEF Mismatch, FailBoundary
  <2>3. agent' \in [gen: 0 .. MaxConnections, lastSeq: Nat, revoked: BOOLEAN]
    <3>1. ASSUME NEW gen \in {agent.gen, boundary}, agent' = [agent EXCEPT !.gen = gen]
          PROVE  agent' \in [gen: 0 .. MaxConnections, lastSeq: Nat, revoked: BOOLEAN]
      BY <1>0, <3>1 DEF BrokerType
    <3>2. ASSUME NEW gen \in {agent.gen, boundary},
                 agent' = [agent EXCEPT !.gen = gen, !.revoked = TRUE]
          PROVE  agent' \in [gen: 0 .. MaxConnections, lastSeq: Nat, revoked: BOOLEAN]
      BY <1>0, <3>2 DEF BrokerType
    <3>3. CASE agent' = agent
      BY <1>0, <3>3 DEF BrokerType
    <3>. QED  BY <2>2, <3>1, <3>2, <3>3
  <2>. QED  BY <1>0, <2>1, <2>3 DEF BrokerType
<1>16. ASSUME StopStore \/ RestartBroker
      PROVE  BrokerType'
  <2>1. run' = run /\ agent' = agent /\ writable' \in BOOLEAN /\ boundary' \in {boundary, 0}
    BY <1>16 DEF StopStore, RestartBroker
  <2>2. jobs' = jobs \/ jobs' = [g \in Generations |-> "none"]
    BY <1>16 DEF StopStore, RestartBroker
  <2>3. jobs' \in [Generations -> {"none", "send", "wait", "accepted", "failed"}]
    BY <1>0, <2>2 DEF BrokerType
  <2>. QED  BY <1>0, <2>1, <2>3 DEF BrokerType
<1>. QED  BY <1>1, <1>2, <1>3, <1>4, <1>5, <1>6, <1>7, <1>8, <1>9, <1>10, <1>11, <1>12,
            <1>13, <1>14, <1>15, <1>16 DEF DeliveryNext, BrokerStep, AdapterStep,
            BoundaryOrFault

\* so do the sockets,
LEMMA SocketTypeInductive ==
  ASSUME DeliveryTypeOK, WireKept, PiKept, [DeliveryNext]_deliveryVars
  PROVE  SocketType'
<1>0. SocketType /\ BrokerType
  BY TypeParts
<1>1. ASSUME Register
      PROVE  SocketType'
  <2>1. agent.gen + 1 \in 0 .. MaxConnections
    BY <1>1, <1>0 DEF Register, BrokerType
  <2>2. client' = client /\ peer' = agent.gen + 1 /\ down' = <<>> /\ answers' = answers
    BY <1>1 DEF Register
  <2>. QED  BY <1>0, <2>1, <2>2 DEF SocketType
<1>2. ASSUME Notice
      PROVE  SocketType'
  BY <1>2, <1>0, AppendProperties, HeadTailProperties DEF Notice, CloseClient, adapterVars,
     Generations, SocketType, BrokerType
<1>3. ASSUME TakeRequest
      PROVE  SocketType'
  BY <1>3, <1>0, AppendProperties, HeadTailProperties DEF TakeRequest, Agrees, InProgress,
     adapterVars, Generations, SocketType, BrokerType
<1>4. ASSUME CloseRun
      PROVE  SocketType'
  BY <1>4, <1>0, AppendProperties, HeadTailProperties DEF CloseRun, wire, adapterVars,
     Generations, SocketType, BrokerType
<1>5. ASSUME RestartBroker
      PROVE  SocketType'
  BY <1>5, <1>0, AppendProperties, HeadTailProperties DEF RestartBroker, adapterVars,
     Generations, SocketType, BrokerType
<1>6. ASSUME NEW g \in Generations, Send(g)
      PROVE  SocketType'
  BY <1>6, <1>0, AppendProperties, HeadTailProperties DEF Send, adapterVars, Generations,
     SocketType, BrokerType
<1>7. ASSUME NEW g \in Generations, DeliveryTimesOut(g)
      PROVE  SocketType'
  BY <1>7, <1>0, AppendProperties, HeadTailProperties DEF DeliveryTimesOut, wire, adapterVars,
     Generations, SocketType, BrokerType
<1>8. ASSUME NEW g \in Generations, Finalize(g)
      PROVE  SocketType'
  BY <1>8, <1>0, AppendProperties, HeadTailProperties DEF Finalize, wire, adapterVars,
     Generations, SocketType, BrokerType
<1>9. ASSUME NEW ok \in BOOLEAN, TakeAnswer(ok)
      PROVE  SocketType'
  BY <1>9, <1>0, AppendProperties, HeadTailProperties DEF TakeAnswer, CloseClient, adapterVars,
     Generations, SocketType, BrokerType
<1>10. ASSUME Start
      PROVE  SocketType'
  BY <1>10, <1>0, AppendProperties, HeadTailProperties DEF Start, NewAdapter, Forgets,
     brokerVars, Generations, SocketType, BrokerType
<1>11. ASSUME Retry
      PROVE  SocketType'
  BY <1>11, <1>0, AppendProperties, HeadTailProperties DEF Retry, NewAdapter, brokerVars,
     Generations, SocketType, BrokerType
<1>12. ASSUME Registered
      PROVE  SocketType'
  BY <1>12, <1>0, AppendProperties, HeadTailProperties DEF Registered, brokerVars, Generations,
     SocketType, BrokerType
<1>13. ASSUME Disconnect
      PROVE  SocketType'
  BY <1>13, <1>0, AppendProperties, HeadTailProperties DEF Disconnect, brokerVars, Generations,
     SocketType, BrokerType
<1>14. ASSUME RestartPi
      PROVE  SocketType'
  BY <1>14, <1>0, AppendProperties, HeadTailProperties DEF RestartPi, NewAdapter, brokerVars,
     Generations, SocketType, BrokerType
<1>15. ASSUME Deliver
      PROVE  SocketType'
  <2>1. UNCHANGED <<client, peer>> /\ down # <<>> /\ down' = Tail(down)
    BY <1>15 DEF Deliver
  <2>2. answers' \subseteq answers \union {TRUE, FALSE}
    BY <1>15 DEF Deliver, Answer
  <2>3. down' \in Seq({"registered", "deliver", "ok", "refused"})
    BY <1>0, <2>1, HeadTailProperties DEF SocketType
  <2>. QED  BY <1>0, <2>1, <2>2, <2>3 DEF SocketType
<1>16. ASSUME NextTurn
      PROVE  SocketType'
  BY <1>16, <1>0, AppendProperties, HeadTailProperties DEF NextTurn, brokerVars, Generations,
     SocketType, BrokerType
<1>17. ASSUME Settle
      PROVE  SocketType'
  BY <1>17, <1>0, AppendProperties, HeadTailProperties DEF Settle, brokerVars, Generations,
     SocketType, BrokerType
<1>18. ASSUME Beat
      PROVE  SocketType'
  BY <1>18, <1>0, AppendProperties, HeadTailProperties DEF Beat, brokerVars, Generations,
     SocketType, BrokerType
<1>19. ASSUME Reply
      PROVE  SocketType'
  BY <1>19, <1>0, AppendProperties, HeadTailProperties DEF Reply, brokerVars, Generations,
     SocketType, BrokerType
<1>20. ASSUME NEW g \in Generations, PromptReturns(g)
      PROVE  SocketType'
  BY <1>20, <1>0, AppendProperties, HeadTailProperties DEF PromptReturns, Answer, brokerVars,
     Generations, SocketType, BrokerType
<1>21. ASSUME NEW g \in Generations, PromptFails(g)
      PROVE  SocketType'
  BY <1>21, <1>0, AppendProperties, HeadTailProperties DEF PromptFails, Answer, brokerVars,
     adapterVars, Generations, SocketType, BrokerType
<1>22. ASSUME NEW message \in {"assignment", "another"}, Begin(message)
      PROVE  SocketType'
  BY <1>22, <1>0, AppendProperties, HeadTailProperties DEF Begin, brokerVars, Generations,
     SocketType, BrokerType
<1>23. CASE UNCHANGED deliveryVars
  BY <1>23, <1>0, AppendProperties, HeadTailProperties DEF brokerVars, wire, adapterVars,
     deliveryVars, Generations, SocketType, BrokerType
<1>24. ASSUME CrossBoundary
      PROVE  SocketType'
  <2>1. /\ client' = boundary /\ peer' = peer /\ answers' = answers
        /\ down' \in {down, <<"registered">>}
    BY <1>24 DEF CrossBoundary
  <2>2. <<"registered">> \in Seq({"registered", "deliver", "ok", "refused"})
    OBVIOUS
  <2>. QED  BY <1>0, <2>1, <2>2 DEF SocketType, BrokerType
<1>25. ASSUME Mismatch \/ FailBoundary \/ StopStore
      PROVE  SocketType'
  BY <1>25, <1>0 DEF Mismatch, FailBoundary, StopStore, wire, SocketType
<1>. QED  BY <1>1, <1>2, <1>3, <1>4, <1>5, <1>6, <1>7, <1>8, <1>9, <1>10, <1>11, <1>12,
            <1>13, <1>14, <1>15, <1>16, <1>17, <1>18, <1>19, <1>20, <1>21, <1>22, <1>23,
            <1>24, <1>25 DEF DeliveryNext, BrokerStep, AdapterStep, BoundaryOrFault

\* the adapter,
LEMMA AdapterTypeInductive ==
  ASSUME DeliveryTypeOK, WireKept, PiKept, [DeliveryNext]_deliveryVars
  PROVE  AdapterType'
<1>0. AdapterType /\ SocketType
  BY TypeParts
<1>1. ASSUME Register \/ Notice \/ TakeRequest \/ CloseRun
      PROVE  AdapterType'
  BY <1>1, <1>0, KnownFacts DEF Register, Notice, CloseClient, TakeRequest, Agrees, InProgress,
     CloseRun, adapterVars, wire, Generations, AdapterType, SocketType
<1>2. ASSUME NEW g \in Generations,
             Send(g) \/ DeliveryTimesOut(g) \/ Finalize(g) \/ PromptReturns(g) \/ PromptFails(g)
      PROVE  AdapterType'
  BY <1>2, <1>0, KnownFacts DEF Send, DeliveryTimesOut, Finalize, PromptReturns, Answer,
     PromptFails, adapterVars, wire, brokerVars, Generations, AdapterType, SocketType
<1>3. ASSUME NEW ok \in BOOLEAN, TakeAnswer(ok)
      PROVE  AdapterType'
  BY <1>3, <1>0, KnownFacts DEF TakeAnswer, CloseClient, adapterVars, Generations, AdapterType,
     SocketType
<1>4. ASSUME Start
      PROVE  AdapterType'
  BY <1>4, <1>0, KnownFacts DEF Start, NewAdapter, Forgets, brokerVars, Generations,
     AdapterType, SocketType
<1>5. ASSUME Retry
      PROVE  AdapterType'
  BY <1>5, <1>0, KnownFacts DEF Retry, NewAdapter, brokerVars, Generations, AdapterType,
     SocketType
<1>6. ASSUME Registered
      PROVE  AdapterType'
  <2>1. adapter' = [adapter EXCEPT !.phase = "ready", !.gen = peer, !.seq = 1]
    BY <1>6 DEF Registered
  <2>2. sent' = "no" /\ entry' = entry /\ peer \in 0 .. MaxConnections
    BY <1>6, <1>0 DEF Registered, SocketType
  <2>. QED  BY <1>0, <2>1, <2>2 DEF AdapterType
<1>7. ASSUME Disconnect
      PROVE  AdapterType'
  BY <1>7, <1>0, KnownFacts DEF Disconnect, brokerVars, Generations, AdapterType, SocketType
<1>8. ASSUME RestartPi
      PROVE  AdapterType'
  BY <1>8, <1>0, KnownFacts DEF RestartPi, NewAdapter, brokerVars, Generations, AdapterType,
     SocketType
<1>9. ASSUME Deliver
      PROVE  AdapterType'
  <2>1. Reconciled \in Known
    BY <1>0 DEF Reconciled, AdapterType
  <2>2. adapter' = adapter \/ \E k \in Known : adapter' = [adapter EXCEPT !.cor = k]
    BY <1>9, <2>1, KnownFacts DEF Deliver
  <2>3. sent' = sent /\ entry' = entry
    BY <1>9 DEF Deliver
  <2>. QED  BY <1>0, <2>2, <2>3 DEF AdapterType
<1>10. ASSUME NextTurn
      PROVE  AdapterType'
  <2>1. Handle("turn_start") /\ ("turn_start" = "turn_start" => pi'.cycle \in Cycles)
    BY <1>10, TurnCycle DEF NextTurn
  <2>2. Correlated("turn_start") \in Known
    BY <1>0, <2>1, CorrelatedFacts DEF AdapterType
  <2>3. sent' \in {"no", "event", "beat"}
    BY <1>0, <2>1, HandleFacts DEF AdapterType
  <2>4. News("turn_start") \/ UNCHANGED <<adapter, entry>>
    BY <2>1, HandleFacts
  <2>5. CASE News("turn_start")
    <3>1. /\ entry' = Correlated("turn_start")
          /\ adapter' = [adapter EXCEPT !.cor = Correlated("turn_start"), !.seq = adapter.seq + 1]
      BY <2>5 DEF News
    <3>2. entry' \in Known
      BY <2>2, <3>1
    <3>3. adapter.seq + 1 \in Nat
      BY <1>0 DEF AdapterType
    <3>4. adapter' \in [phase: {"opening", "ready", "leaving", "down"}, gen: 0 .. MaxConnections,
                       seq: Nat, cor: Known, seen: Known, kept: Known]
      BY <1>0, <2>2, <3>1, <3>3 DEF AdapterType
    <3>. QED  BY <2>3, <3>2, <3>4 DEF AdapterType
  <2>6. CASE UNCHANGED <<adapter, entry>>
    BY <1>0, <2>3, <2>6 DEF AdapterType
  <2>. QED  BY <2>4, <2>5, <2>6
<1>11. ASSUME Settle
      PROVE  AdapterType'
  <2>1. Handle("agent_settled") /\ ("agent_settled" = "turn_start" => pi'.cycle \in Cycles)
    BY <1>11, TurnCycle DEF Settle
  <2>2. Correlated("agent_settled") \in Known
    BY <1>0, <2>1, CorrelatedFacts DEF AdapterType
  <2>3. sent' \in {"no", "event", "beat"}
    BY <1>0, <2>1, HandleFacts DEF AdapterType
  <2>4. News("agent_settled") \/ UNCHANGED <<adapter, entry>>
    BY <2>1, HandleFacts
  <2>5. CASE News("agent_settled")
    <3>1. /\ entry' = Correlated("agent_settled")
          /\ adapter' = [adapter EXCEPT !.cor = Correlated("agent_settled"),
                                        !.seq = adapter.seq + 1]
      BY <2>5 DEF News
    <3>2. entry' \in Known
      BY <2>2, <3>1
    <3>3. adapter.seq + 1 \in Nat
      BY <1>0 DEF AdapterType
    <3>4. adapter' \in [phase: {"opening", "ready", "leaving", "down"}, gen: 0 .. MaxConnections,
                       seq: Nat, cor: Known, seen: Known, kept: Known]
      BY <1>0, <2>2, <3>1, <3>3 DEF AdapterType
    <3>. QED  BY <2>3, <3>2, <3>4 DEF AdapterType
  <2>6. CASE UNCHANGED <<adapter, entry>>
    BY <1>0, <2>3, <2>6 DEF AdapterType
  <2>. QED  BY <2>4, <2>5, <2>6
<1>12. ASSUME Beat
      PROVE  AdapterType'
  <2>1. adapter' = adapter \/ adapter' = [adapter EXCEPT !.seq = adapter.seq + 1]
    BY <1>12 DEF Beat
  <2>2. sent' \in {sent, "beat"} /\ entry' = entry
    BY <1>12 DEF Beat
  <2>. QED  BY <1>0, <2>1, <2>2 DEF AdapterType
<1>13. ASSUME Reply
      PROVE  AdapterType'
  BY <1>13, <1>0, KnownFacts DEF Reply, brokerVars, Generations, AdapterType, SocketType
<1>14. ASSUME NEW message \in {"assignment", "another"}, Begin(message)
      PROVE  AdapterType'
  <2>1. Handle("turn_start") /\ ("turn_start" = "turn_start" => pi'.cycle \in Cycles)
    BY <1>14, TurnCycle DEF Begin
  <2>2. Correlated("turn_start") \in Known
    BY <1>0, <2>1, CorrelatedFacts DEF AdapterType
  <2>3. sent' \in {"no", "event", "beat"}
    BY <1>0, <2>1, HandleFacts DEF AdapterType
  <2>4. News("turn_start") \/ UNCHANGED <<adapter, entry>>
    BY <2>1, HandleFacts
  <2>5. CASE News("turn_start")
    <3>1. /\ entry' = Correlated("turn_start")
          /\ adapter' = [adapter EXCEPT !.cor = Correlated("turn_start"), !.seq = adapter.seq + 1]
      BY <2>5 DEF News
    <3>2. entry' \in Known
      BY <2>2, <3>1
    <3>3. adapter.seq + 1 \in Nat
      BY <1>0 DEF AdapterType
    <3>4. adapter' \in [phase: {"opening", "ready", "leaving", "down"}, gen: 0 .. MaxConnections,
                       seq: Nat, cor: Known, seen: Known, kept: Known]
      BY <1>0, <2>2, <3>1, <3>3 DEF AdapterType
    <3>. QED  BY <2>3, <3>2, <3>4 DEF AdapterType
  <2>6. CASE UNCHANGED <<adapter, entry>>
    BY <1>0, <2>3, <2>6 DEF AdapterType
  <2>. QED  BY <2>4, <2>5, <2>6
<1>15. CASE UNCHANGED deliveryVars
  BY <1>15, <1>0, KnownFacts DEF brokerVars, wire, adapterVars, deliveryVars, Generations,
     AdapterType, SocketType
<1>16. ASSUME BoundaryOrFault
      PROVE  AdapterType'
  BY <1>16, <1>0, BoundaryFacts DEF AdapterType
<1>. QED  BY <1>1, <1>2, <1>3, <1>4, <1>5, <1>6, <1>7, <1>8, <1>9, <1>10, <1>11, <1>12,
            <1>13, <1>14, <1>15, <1>16 DEF DeliveryNext, BrokerStep, AdapterStep,
            BoundaryOrFault

\* and Pi.
LEMMA PiTypeInductive ==
  ASSUME DeliveryTypeOK, WireKept, PiKept, [DeliveryNext]_deliveryVars
  PROVE  PiType'
<1>0. PiType
  BY TypeParts
<1>1. ASSUME Register \/ Notice \/ TakeRequest \/ CloseRun
      PROVE  PiType'
  BY <1>1, <1>0 DEF Register, Notice, CloseClient, TakeRequest, Agrees, InProgress, CloseRun,
     adapterVars, wire, Cycles, PiType
<1>2. ASSUME NEW g \in Generations,
             Send(g) \/ DeliveryTimesOut(g) \/ Finalize(g) \/ PromptReturns(g)
      PROVE  PiType'
  BY <1>2, <1>0 DEF Send, DeliveryTimesOut, Finalize, PromptReturns, Answer, adapterVars, wire,
     brokerVars, Cycles, PiType
<1>3. ASSUME NEW ok \in BOOLEAN, TakeAnswer(ok)
      PROVE  PiType'
  BY <1>3, <1>0 DEF TakeAnswer, CloseClient, adapterVars, Cycles, PiType
<1>4. ASSUME Start
      PROVE  PiType'
  BY <1>4, <1>0 DEF Start, NewAdapter, Forgets, brokerVars, Cycles, PiType
<1>5. ASSUME Retry
      PROVE  PiType'
  BY <1>5, <1>0 DEF Retry, NewAdapter, brokerVars, Cycles, PiType
<1>6. ASSUME Registered
      PROVE  PiType'
  BY <1>6, <1>0 DEF Registered, brokerVars, Cycles, PiType
<1>7. ASSUME Disconnect
      PROVE  PiType'
  BY <1>7, <1>0 DEF Disconnect, brokerVars, Cycles, PiType
<1>8. ASSUME RestartPi
      PROVE  PiType'
  BY <1>8, <1>0 DEF RestartPi, NewAdapter, brokerVars, Cycles, PiType
<1>9. ASSUME Deliver
      PROVE  PiType'
  <2>1. adapter.gen \in Generations
    BY <1>9 DEF Deliver, WireKept
  <2>2. UNCHANGED <<pi, past>> \/
        /\ pi' = [pi EXCEPT !.inbox = pi.inbox + 1, !.prompting = pi.prompting \union {adapter.gen}]
        /\ past' = [past EXCEPT !.prompts = past.prompts + 1]
    BY <1>9 DEF Deliver
  <2>3. pi' \in [working: BOOLEAN, cycle: 0 .. MaxCycles, inbox: Nat, prompting: SUBSET Generations]
    <3>1. pi.prompting \union {adapter.gen} \in SUBSET Generations /\ pi.inbox + 1 \in Nat
      BY <1>0, <2>1 DEF PiType
    <3>. QED  BY <1>0, <2>2, <3>1 DEF PiType
  <2>4. past' \in [prompts: Nat, started: Nat, forgotten: BOOLEAN, failed: BOOLEAN, faults: Nat]
    <3>1. past.prompts + 1 \in Nat
      BY <1>0 DEF PiType
    <3>. QED  BY <1>0, <2>2, <3>1 DEF PiType
  <2>. QED  BY <2>3, <2>4 DEF PiType
<1>10. ASSUME NextTurn \/ Settle \/ Beat \/ Reply
      PROVE  PiType'
  BY <1>10, <1>0 DEF NextTurn, Settle, Beat, Reply, brokerVars, Cycles, PiType
<1>11. ASSUME NEW g \in Generations, PromptFails(g)
      PROVE  PiType'
  <2>1. pi.inbox \in Nat /\ past.prompts \in Nat
    BY <1>0 DEF PiType
  <2>2. pi.inbox - 1 \in Nat /\ past.prompts - 1 \in Nat
    BY <1>11, <2>1 DEF PromptFails, PiKept
  <2>3. /\ pi' = [pi EXCEPT !.prompting = pi.prompting \ {g}, !.inbox = pi.inbox - 1]
        /\ past' = [past EXCEPT !.prompts = past.prompts - 1, !.failed = TRUE]
    BY <1>11 DEF PromptFails
  <2>. QED  BY <1>0, <2>2, <2>3 DEF PiType
<1>12. ASSUME NEW message \in {"assignment", "another"}, Begin(message)
      PROVE  PiType'
  <2>1. pi.inbox \in Nat /\ pi.cycle + 1 \in 0 .. MaxCycles
    BY <1>12, <1>0 DEF PiType, Begin
  <2>2. pi' \in [working: BOOLEAN, cycle: 0 .. MaxCycles, inbox: Nat, prompting: SUBSET Generations]
    <3>1. \E n \in Nat : pi' = [pi EXCEPT !.working = TRUE, !.cycle = pi.cycle + 1, !.inbox = n]
      <4>1. message = "assignment" => pi.inbox - 1 \in Nat
        BY <1>12, <2>1 DEF Begin
      <4>. QED  BY <1>12, <2>1, <4>1 DEF Begin
    <3>. QED  BY <1>0, <2>1, <3>1 DEF PiType
  <2>3. past' = past \/ past' = [past EXCEPT !.started = past.started + 1]
    BY <1>12 DEF Begin
  <2>. QED  BY <1>0, <2>2, <2>3 DEF PiType
<1>13. CASE UNCHANGED deliveryVars
  BY <1>13, <1>0 DEF brokerVars, wire, adapterVars, deliveryVars, Cycles, PiType
<1>14. ASSUME BoundaryOrFault
      PROVE  PiType'
  <2>1. pi' = pi /\ (past' = past \/ past' = [past EXCEPT !.faults = past.faults + 1])
    BY <1>14, BoundaryFacts
  <2>. QED  BY <1>0, <2>1 DEF PiType
<1>. QED  BY <1>1, <1>2, <1>3, <1>4, <1>5, <1>6, <1>7, <1>8, <1>9, <1>10, <1>11, <1>12,
            <1>13, <1>14 DEF DeliveryNext, BrokerStep, AdapterStep, BoundaryOrFault

-----------------------------------------------------------------------------
(* The connection and Pi. *)

\* A frame that follows others is not the first.
LEMMA DownKeepsHead ==
  ASSUME DeliveryTypeOK, NEW x \in {"registered", "deliver", "ok", "refused"}
  PROVE  Append(down, x) # <<>> /\ (down # <<>> => Head(Append(down, x)) = Head(down))
<1>1. down \in Seq({"registered", "deliver", "ok", "refused"})
  BY DEF DeliveryTypeOK
<1>. QED  BY <1>1, HeadTailAppend, AppendProperties

\* What is on its way is on a socket.
LEMMA WireKeptInductive ==
  ASSUME DeliveryTypeOK, WireKept, [DeliveryNext]_deliveryVars
  PROVE  WireKept'
<1> USE DEF DeliveryTypeOK, WireKept
<1>1. ASSUME Register
      PROVE  WireKept'
  BY <1>1, KnownFacts DEF Register, adapterVars
<1>2. ASSUME Notice
      PROVE  WireKept'
  BY <1>2, KnownFacts DEF Notice, CloseClient, adapterVars
<1>3. ASSUME TakeRequest
      PROVE  WireKept'
  <2>1. /\ UNCHANGED <<client, peer, answers, adapter>>
        /\ client = 0 => up' = <<>>
    BY <1>3 DEF TakeRequest, adapterVars
  <2>2. \/ down' = down
        \/ /\ peer # 0 /\ peer = client
           /\ \E x \in {"deliver", "ok", "refused"} : down' = Append(down, x)
    BY <1>3 DEF TakeRequest, Generations
  <2>3. down' # down => /\ peer # 0 /\ peer = client
                        /\ down' # <<>> /\ (down # <<>> => Head(down') = Head(down))
    <3>1. \A x \in {"deliver", "ok", "refused"} :
            Append(down, x) # <<>> /\ (down # <<>> => Head(Append(down, x)) = Head(down))
      BY DownKeepsHead
    <3>. QED  BY <2>2, <3>1
  <2>. QED  BY <2>1, <2>3
<1>4. ASSUME CloseRun
      PROVE  WireKept'
  BY <1>4, KnownFacts DEF CloseRun, wire, adapterVars
<1>5. ASSUME RestartBroker
      PROVE  WireKept'
  BY <1>5, KnownFacts DEF RestartBroker, adapterVars
<1>6. ASSUME NEW g \in Generations, Send(g)
      PROVE  WireKept'
  <2>1. /\ UNCHANGED <<client, peer, answers, adapter>>
        /\ client = 0 => up' = <<>>
    BY <1>6 DEF Send, adapterVars
  <2>2. \/ down' = down
        \/ /\ peer # 0 /\ peer = client
           /\ \E x \in {"deliver", "ok", "refused"} : down' = Append(down, x)
    BY <1>6 DEF Send, Generations
  <2>3. down' # down => /\ peer # 0 /\ peer = client
                        /\ down' # <<>> /\ (down # <<>> => Head(down') = Head(down))
    <3>1. \A x \in {"deliver", "ok", "refused"} :
            Append(down, x) # <<>> /\ (down # <<>> => Head(Append(down, x)) = Head(down))
      BY DownKeepsHead
    <3>. QED  BY <2>2, <3>1
  <2>. QED  BY <2>1, <2>3
<1>7. ASSUME NEW g \in Generations, DeliveryTimesOut(g) \/ Finalize(g)
      PROVE  WireKept'
  <2>1. UNCHANGED <<client, peer, up, down, answers, adapter>>
    BY <1>7 DEF DeliveryTimesOut, Finalize, wire, adapterVars
  <2>. QED  BY <2>1
<1>8. ASSUME NEW ok \in BOOLEAN, TakeAnswer(ok)
      PROVE  WireKept'
  BY <1>8, KnownFacts DEF TakeAnswer, CloseClient, adapterVars
<1>9. ASSUME Start
      PROVE  WireKept'
  BY <1>9, KnownFacts DEF Start, NewAdapter, Forgets, brokerVars
<1>10. ASSUME Retry
      PROVE  WireKept'
  BY <1>10, KnownFacts DEF Retry, NewAdapter, brokerVars
<1>11. ASSUME Registered
      PROVE  WireKept'
  <2>1. adapter' = [adapter EXCEPT !.phase = "ready", !.gen = peer, !.seq = 1]
    BY <1>11 DEF Registered
  <2>1a. peer \in Generations /\ adapter'.phase = "ready" /\ adapter'.gen = peer
    <3>1. peer # 0 /\ peer \in 0 .. MaxConnections
      BY <1>11 DEF Registered
    <3>2. peer \in Generations
      BY <3>1 DEF Generations
    <3>. QED  BY <2>1, <3>2
  <2>2. UNCHANGED <<client, peer, up, answers>>
    BY <1>11 DEF Registered
  <2>3. peer = 0 => down' = <<>>
    BY <2>1a DEF Generations
  <2>. QED  BY <2>1a, <2>2, <2>3
<1>12. ASSUME Disconnect
      PROVE  WireKept'
  BY <1>12, KnownFacts DEF Disconnect, brokerVars
<1>13. ASSUME RestartPi
      PROVE  WireKept'
  BY <1>13, KnownFacts DEF RestartPi, NewAdapter, brokerVars
<1>14. ASSUME Deliver
      PROVE  WireKept'
  BY <1>14, KnownFacts DEF Deliver, Answer, brokerVars
<1>15. ASSUME NextTurn
      PROVE  WireKept'
  <2>1. Handle("turn_start") /\ UNCHANGED <<client, peer, down, answers>>
    BY <1>15 DEF NextTurn
  <2>2. News("turn_start") \/ UNCHANGED adapter
    BY <2>1, HandleFacts
  <2>3. adapter'.phase = adapter.phase /\ adapter'.gen = adapter.gen
    BY <2>2 DEF News, DeliveryTypeOK
  <2>4. adapter.phase = "opening" => adapter'.cor = adapter.cor
    BY <2>2 DEF News
  <2>5. client = 0 => up' = up
    BY <2>1, HandleFacts
  <2>. QED  BY <2>1, <2>3, <2>4, <2>5
<1>16. ASSUME Settle
      PROVE  WireKept'
  <2>1. Handle("agent_settled") /\ UNCHANGED <<client, peer, down, answers>>
    BY <1>16 DEF Settle
  <2>2. News("agent_settled") \/ UNCHANGED adapter
    BY <2>1, HandleFacts
  <2>3. adapter'.phase = adapter.phase /\ adapter'.gen = adapter.gen
    BY <2>2 DEF News, DeliveryTypeOK
  <2>4. adapter.phase = "opening" => adapter'.cor = adapter.cor
    BY <2>2 DEF News
  <2>5. client = 0 => up' = up
    BY <2>1, HandleFacts
  <2>. QED  BY <2>1, <2>3, <2>4, <2>5
<1>17. ASSUME Beat
      PROVE  WireKept'
  BY <1>17, KnownFacts DEF Beat, brokerVars
<1>18. ASSUME Reply
      PROVE  WireKept'
  BY <1>18, KnownFacts DEF Reply, brokerVars
<1>19. ASSUME NEW g \in Generations, PromptReturns(g)
      PROVE  WireKept'
  <2>1. UNCHANGED <<client, peer, up, down>> /\ g # 0
    BY <1>19 DEF PromptReturns, Generations, adapterVars
  <2>2. client = 0 => answers' = answers
    BY <1>19, <2>1 DEF PromptReturns, Answer
  <2>3. /\ adapter'.phase = adapter.phase /\ adapter'.gen = adapter.gen
        /\ adapter'.cor = adapter.cor \/ adapter.gen # 0
    BY <1>19, <2>1 DEF PromptReturns, adapterVars
  <2>. QED  BY <2>1, <2>2, <2>3
<1>20. ASSUME NEW g \in Generations, PromptFails(g)
      PROVE  WireKept'
  <2>1. UNCHANGED <<client, peer, up, down>> /\ g # 0
    BY <1>20 DEF PromptFails, Generations, adapterVars
  <2>2. client = 0 => answers' = answers
    BY <1>20, <2>1 DEF PromptFails, Answer
  <2>3. /\ adapter'.phase = adapter.phase /\ adapter'.gen = adapter.gen
        /\ adapter'.cor = adapter.cor \/ adapter.gen # 0
    BY <1>20, <2>1 DEF PromptFails, adapterVars
  <2>. QED  BY <2>1, <2>2, <2>3
<1>21. ASSUME NEW message \in {"assignment", "another"}, Begin(message)
      PROVE  WireKept'
  <2>1. Handle("turn_start") /\ UNCHANGED <<client, peer, down, answers>>
    BY <1>21 DEF Begin
  <2>2. News("turn_start") \/ UNCHANGED adapter
    BY <2>1, HandleFacts
  <2>3. adapter'.phase = adapter.phase /\ adapter'.gen = adapter.gen
    BY <2>2 DEF News, DeliveryTypeOK
  <2>4. adapter.phase = "opening" => adapter'.cor = adapter.cor
    BY <2>2 DEF News
  <2>5. client = 0 => up' = up
    BY <2>1, HandleFacts
  <2>. QED  BY <2>1, <2>3, <2>4, <2>5
<1>22. CASE UNCHANGED deliveryVars
  BY <1>22, KnownFacts DEF brokerVars, wire, adapterVars, deliveryVars
<1>23. ASSUME CrossBoundary
      PROVE  WireKept'
  <2>1. /\ UNCHANGED <<peer, up, answers, adapter>> /\ client' = boundary /\ boundary # 0
        /\ down' = IF peer = boundary THEN <<"registered">> ELSE down
    BY <1>23 DEF CrossBoundary, adapterVars
  <2>2. <<"registered">> # <<>> /\ Head(<<"registered">>) = "registered"
    OBVIOUS
  <2>. QED  BY <2>1, <2>2
<1>24. ASSUME Mismatch \/ FailBoundary \/ StopStore
      PROVE  WireKept'
  BY <1>24 DEF Mismatch, FailBoundary, StopStore, wire, adapterVars
<1>. QED  BY <1>1, <1>2, <1>3, <1>4, <1>5, <1>6, <1>7, <1>8, <1>9, <1>10, <1>11, <1>12,
            <1>13, <1>14, <1>15, <1>16, <1>17, <1>18, <1>19, <1>20, <1>21, <1>22, <1>23,
            <1>24 DEF DeliveryNext, BrokerStep, AdapterStep, BoundaryOrFault

\* Pi takes only what was prompted, and works on a cycle.
LEMMA PiKeptInductive ==
  ASSUME DeliveryTypeOK, WireKept, PiKept, [DeliveryNext]_deliveryVars
  PROVE  PiKept'
<1> USE DEF DeliveryTypeOK, PiKept
<1>1. ASSUME Register \/ Notice \/ TakeRequest \/ CloseRun
      PROVE  PiKept'
  BY <1>1, TurnCycle DEF Register, Notice, CloseClient, TakeRequest, Agrees, InProgress,
     CloseRun, adapterVars, wire
<1>2. ASSUME NEW g \in Generations, Send(g)
      PROVE  PiKept'
  BY <1>2, TurnCycle DEF Send, adapterVars
<1>3. ASSUME NEW g \in Generations, DeliveryTimesOut(g)
      PROVE  PiKept'
  BY <1>3, TurnCycle DEF DeliveryTimesOut, wire, adapterVars
<1>4. ASSUME NEW g \in Generations, Finalize(g)
      PROVE  PiKept'
  BY <1>4, TurnCycle DEF Finalize, wire, adapterVars
<1>5. ASSUME NEW ok \in BOOLEAN, TakeAnswer(ok)
      PROVE  PiKept'
  BY <1>5, TurnCycle DEF TakeAnswer, CloseClient, adapterVars
<1>6. ASSUME Start
      PROVE  PiKept'
  BY <1>6, TurnCycle DEF Start, NewAdapter, Forgets, brokerVars
<1>7. ASSUME Retry
      PROVE  PiKept'
  BY <1>7, TurnCycle DEF Retry, NewAdapter, brokerVars
<1>8. ASSUME Registered
      PROVE  PiKept'
  BY <1>8, TurnCycle DEF Registered, brokerVars
<1>9. ASSUME Disconnect
      PROVE  PiKept'
  BY <1>9, TurnCycle DEF Disconnect, brokerVars
<1>10. ASSUME RestartPi
      PROVE  PiKept'
  BY <1>10, TurnCycle DEF RestartPi, NewAdapter, brokerVars
<1>11. ASSUME Deliver
      PROVE  PiKept'
  <2>1. \/ UNCHANGED <<pi, past>>
        \/ /\ pi' = [pi EXCEPT !.inbox = pi.inbox + 1,
                              !.prompting = pi.prompting \union {adapter.gen}]
           /\ past' = [past EXCEPT !.prompts = past.prompts + 1]
    BY <1>11 DEF Deliver
  <2>2. CASE UNCHANGED <<pi, past>>
    BY <2>2
  <2>3. CASE /\ pi' = [pi EXCEPT !.inbox = pi.inbox + 1,
                                !.prompting = pi.prompting \union {adapter.gen}]
             /\ past' = [past EXCEPT !.prompts = past.prompts + 1]
    <3>1. pi'.inbox = pi.inbox + 1 /\ pi'.cycle = pi.cycle
      BY <2>3
    <3>2. pi'.working => pi.working
      BY <2>3
    <3>3. past'.prompts = past.prompts + 1 /\ past.prompts \in Nat /\ pi.inbox \in Nat
      BY <2>3
    <3>. QED  BY <3>1, <3>2, <3>3
  <2>. QED  BY <2>1, <2>2, <2>3
<1>12. ASSUME NextTurn \/ Settle \/ Beat \/ Reply
      PROVE  PiKept'
  BY <1>12, TurnCycle DEF NextTurn, Settle, Beat, Reply, brokerVars
<1>13. ASSUME NEW g \in Generations, PromptReturns(g)
      PROVE  PiKept'
  BY <1>13, TurnCycle DEF PromptReturns, Answer, brokerVars
<1>14. ASSUME NEW g \in Generations, PromptFails(g)
      PROVE  PiKept'
  BY <1>14, TurnCycle DEF PromptFails, Answer, brokerVars, adapterVars
<1>15. ASSUME NEW message \in {"assignment", "another"}, Begin(message)
      PROVE  PiKept'
  <2>1. /\ pi'.cycle \in Cycles /\ past'.prompts = past.prompts
        /\ pi'.inbox = pi.inbox \/ pi'.inbox = pi.inbox - 1
    BY <1>15, TurnCycle DEF Begin
  <2>. QED  BY <2>1
<1>16. CASE UNCHANGED deliveryVars
  BY <1>16, TurnCycle DEF brokerVars, wire, adapterVars, deliveryVars
<1>17. ASSUME BoundaryOrFault
      PROVE  PiKept'
  BY <1>17, BoundaryFacts
<1>. QED  BY <1>1, <1>2, <1>3, <1>4, <1>5, <1>6, <1>7, <1>8, <1>9, <1>10, <1>11, <1>12,
            <1>13, <1>14, <1>15, <1>16, <1>17 DEF DeliveryNext, BrokerStep, AdapterStep,
            BoundaryOrFault

-----------------------------------------------------------------------------
(* What the broker hears of Pi's cycles. *)

\* Pi goes on: a cycle that began has begun, one that ended has ended.
LEMMA PiGoesOn ==
  ASSUME DeliveryTypeOK, [DeliveryNext]_deliveryVars
  PROVE  \/ pi'.cycle = pi.cycle /\ (pi'.working => pi.working)
         \/ pi'.cycle = pi.cycle + 1
<1> USE DEF DeliveryTypeOK
<1>1. CASE BrokerStep
  BY <1>1 DEF BrokerStep, Register, CrossBoundary, Mismatch, FailBoundary, Notice, TakeRequest,
     CloseRun, StopStore, RestartBroker, Send, DeliveryTimesOut, Finalize, TakeAnswer
<1>2. CASE AdapterStep
  <2>1. CASE Start \/ Retry \/ Registered \/ Disconnect \/ RestartPi \/ Deliver
    BY <2>1 DEF Start, Retry, Registered, Disconnect, RestartPi, Deliver
  <2>2. CASE NextTurn \/ Settle \/ Beat \/ Reply
    BY <2>2 DEF NextTurn, Settle, Beat, Reply
  <2>3. ASSUME NEW g \in Generations, PromptReturns(g) \/ PromptFails(g)
        PROVE  pi'.cycle = pi.cycle /\ (pi'.working => pi.working)
    BY <2>3 DEF PromptReturns, PromptFails
  <2>4. ASSUME NEW message, Begin(message)
        PROVE  pi'.cycle = pi.cycle + 1
    BY <2>4 DEF Begin
  <2>. QED  BY <1>2, <2>1, <2>2, <2>3, <2>4 DEF AdapterStep
<1>3. CASE UNCHANGED deliveryVars
  BY <1>3 DEF deliveryVars
<1>. QED  BY <1>1, <1>2, <1>3 DEF DeliveryNext

\* So what is known of a cycle stays true.
LEMMA BehindStays ==
  ASSUME DeliveryTypeOK, [DeliveryNext]_deliveryVars
  PROVE  /\ \A k : Behind(k, pi) => Behind(k, pi')
         /\ Reported(pi) \subseteq Reported(pi')
<1>1. pi.cycle \in Nat
  BY DEF DeliveryTypeOK
<1>2. ASSUME NEW k, Behind(k, pi)
      PROVE  Behind(k, pi')
  BY <1>1, <1>2, PiGoesOn DEF Behind
<1>. QED  BY <1>2 DEF Reported

LEMMA NothingBehind ==
  ASSUME NEW p
  PROVE  Behind(Nothing, p) /\ Behind(Pending, p) /\ Behind(Accepted, p)
BY DEF Behind, Nothing, Pending, Accepted

\* What the handler of an event writes down is so.
LEMMA CorrelatedBehind ==
  ASSUME DeliveryTypeOK, [DeliveryNext]_deliveryVars, Behind(adapter.cor, pi),
         NEW event, event = "turn_start" => pi'.cycle \in Cycles,
         event = "agent_settled" => ~pi'.working
  PROVE  Behind(Correlated(event), pi')
<1>1. Behind(adapter.cor, pi')
  BY BehindStays
<1>2. CASE Correlated(event) = adapter.cor
  BY <1>1, <1>2
<1>3. CASE event = "turn_start" /\ Correlated(event) = [kind |-> "bound", cycle |-> pi'.cycle]
  BY <1>3 DEF Behind, Cycles
<1>4. CASE /\ event = "agent_settled" /\ adapter.cor.kind = "bound"
           /\ Correlated(event) = [kind |-> "settled", cycle |-> adapter.cor.cycle]
  BY <1>1, <1>4 DEF Behind
<1>. QED  BY <1>2, <1>3, <1>4, CorrelatedFacts DEF DeliveryTypeOK

\* What is known of a cycle is so.
LEMMA KnownFollowsInductive ==
  ASSUME DeliveryTypeOK, PiKept, KnownFollows, [DeliveryNext]_deliveryVars
  PROVE  KnownFollows'
<1> USE DEF KnownFollows
<1>1. ASSUME Register \/ Notice \/ TakeRequest \/ CloseRun
      PROVE  KnownFollows'
  BY <1>1, BehindStays, NothingBehind DEF Register, Notice, CloseClient, TakeRequest, Agrees,
     InProgress, CloseRun, adapterVars, wire, DeliveryTypeOK
<1>2. ASSUME NEW g \in Generations, Send(g)
      PROVE  KnownFollows'
  BY <1>2, BehindStays, NothingBehind DEF Send, adapterVars, DeliveryTypeOK
<1>3. ASSUME NEW g \in Generations, DeliveryTimesOut(g)
      PROVE  KnownFollows'
  BY <1>3, BehindStays, NothingBehind DEF DeliveryTimesOut, wire, adapterVars, DeliveryTypeOK
<1>4. ASSUME NEW g \in Generations, Finalize(g)
      PROVE  KnownFollows'
  BY <1>4, BehindStays, NothingBehind DEF Finalize, wire, adapterVars, DeliveryTypeOK
<1>5. ASSUME NEW ok \in BOOLEAN, TakeAnswer(ok)
      PROVE  KnownFollows'
  BY <1>5, BehindStays, NothingBehind DEF TakeAnswer, CloseClient, adapterVars, DeliveryTypeOK
<1>6. ASSUME Start
      PROVE  KnownFollows'
  BY <1>6, BehindStays, NothingBehind DEF Start, NewAdapter, Forgets, brokerVars, DeliveryTypeOK
<1>7. ASSUME Retry
      PROVE  KnownFollows'
  BY <1>7, BehindStays, NothingBehind DEF Retry, NewAdapter, brokerVars, DeliveryTypeOK
<1>8. ASSUME Registered
      PROVE  KnownFollows'
  BY <1>8, BehindStays, NothingBehind DEF Registered, brokerVars, DeliveryTypeOK
<1>9. ASSUME Disconnect
      PROVE  KnownFollows'
  BY <1>9, BehindStays, NothingBehind DEF Disconnect, brokerVars, DeliveryTypeOK
<1>10. ASSUME RestartPi
      PROVE  KnownFollows'
  BY <1>10, BehindStays, NothingBehind DEF RestartPi, NewAdapter, brokerVars, DeliveryTypeOK
<1>11. ASSUME Deliver
      PROVE  KnownFollows'
  <2>1. CASE pi.working \/ Reconciled # Nothing
    <3>1. adapter' = adapter \/ adapter' = [adapter EXCEPT !.cor = Reconciled]
      BY <1>11, <2>1 DEF Deliver
    <3>2. Behind(Reconciled, pi)
      BY DEF Reconciled
    <3>3. entry' = entry
      BY <1>11 DEF Deliver
    <3>4. /\ adapter'.cor \in {adapter.cor, Reconciled} /\ adapter'.kept = adapter.kept
          /\ adapter'.seen = adapter.seen
      BY <3>1 DEF DeliveryTypeOK
    <3>. QED  BY <3>2, <3>3, <3>4, BehindStays
  <2>2. CASE ~pi.working /\ Reconciled = Nothing
    <3>1. adapter' = [adapter EXCEPT !.cor = Pending] /\ entry' = entry
      BY <1>11, <2>2 DEF Deliver
    <3>. QED  BY <3>1, BehindStays, NothingBehind DEF DeliveryTypeOK
  <2>. QED  BY <2>1, <2>2
<1>12. ASSUME NextTurn
      PROVE  KnownFollows'
  <2>1. Handle("turn_start")
    BY <1>12 DEF NextTurn
  <2>2. /\ ("turn_start" = "turn_start" => pi'.cycle \in Cycles)
        /\ ("turn_start" = "agent_settled" => ~pi'.working)
    BY <1>12, TurnCycle DEF NextTurn, DeliveryTypeOK
  <2>3. Behind(Correlated("turn_start"), pi')
    BY <2>2, CorrelatedBehind DEF KnownFollows
  <2>4. News("turn_start") \/ UNCHANGED <<adapter, entry>>
    BY <2>1, HandleFacts
  <2>5. CASE News("turn_start")
    <3>1. /\ adapter'.cor = Correlated("turn_start") /\ adapter'.kept = adapter.kept
          /\ adapter'.seen = adapter.seen /\ entry' = Correlated("turn_start")
      BY <2>5 DEF News, DeliveryTypeOK
    <3>. QED  BY <2>3, <3>1, BehindStays DEF KnownFollows
  <2>6. CASE UNCHANGED <<adapter, entry>>
    BY <2>6, BehindStays DEF KnownFollows
  <2>. QED  BY <2>4, <2>5, <2>6
<1>13. ASSUME Settle
      PROVE  KnownFollows'
  <2>1. Handle("agent_settled")
    BY <1>13 DEF Settle
  <2>2. /\ ("agent_settled" = "turn_start" => pi'.cycle \in Cycles)
        /\ ("agent_settled" = "agent_settled" => ~pi'.working)
    BY <1>13, TurnCycle DEF Settle, DeliveryTypeOK
  <2>3. Behind(Correlated("agent_settled"), pi')
    BY <2>2, CorrelatedBehind DEF KnownFollows
  <2>4. News("agent_settled") \/ UNCHANGED <<adapter, entry>>
    BY <2>1, HandleFacts
  <2>5. CASE News("agent_settled")
    <3>1. /\ adapter'.cor = Correlated("agent_settled") /\ adapter'.kept = adapter.kept
          /\ adapter'.seen = adapter.seen /\ entry' = Correlated("agent_settled")
      BY <2>5 DEF News, DeliveryTypeOK
    <3>. QED  BY <2>3, <3>1, BehindStays DEF KnownFollows
  <2>6. CASE UNCHANGED <<adapter, entry>>
    BY <2>6, BehindStays DEF KnownFollows
  <2>. QED  BY <2>4, <2>5, <2>6
<1>14. ASSUME Beat
      PROVE  KnownFollows'
  BY <1>14, BehindStays, NothingBehind DEF Beat, brokerVars, DeliveryTypeOK
<1>15. ASSUME Reply
      PROVE  KnownFollows'
  BY <1>15, BehindStays, NothingBehind DEF Reply, brokerVars, DeliveryTypeOK
<1>16. ASSUME NEW g \in Generations, PromptReturns(g)
      PROVE  KnownFollows'
  BY <1>16, BehindStays, NothingBehind DEF PromptReturns, Answer, brokerVars, DeliveryTypeOK
<1>17. ASSUME NEW g \in Generations, PromptFails(g)
      PROVE  KnownFollows'
  BY <1>17, BehindStays, NothingBehind DEF PromptFails, Answer, brokerVars, adapterVars,
     DeliveryTypeOK
<1>18. ASSUME NEW message \in {"assignment", "another"}, Begin(message)
      PROVE  KnownFollows'
  <2>1. Handle("turn_start")
    BY <1>18 DEF Begin
  <2>2. /\ ("turn_start" = "turn_start" => pi'.cycle \in Cycles)
        /\ ("turn_start" = "agent_settled" => ~pi'.working)
    BY <1>18, TurnCycle DEF Begin, DeliveryTypeOK
  <2>3. Behind(Correlated("turn_start"), pi')
    BY <2>2, CorrelatedBehind DEF KnownFollows
  <2>4. News("turn_start") \/ UNCHANGED <<adapter, entry>>
    BY <2>1, HandleFacts
  <2>5. CASE News("turn_start")
    <3>1. /\ adapter'.cor = Correlated("turn_start") /\ adapter'.kept = adapter.kept
          /\ adapter'.seen = adapter.seen /\ entry' = Correlated("turn_start")
      BY <2>5 DEF News, DeliveryTypeOK
    <3>. QED  BY <2>3, <3>1, BehindStays DEF KnownFollows
  <2>6. CASE UNCHANGED <<adapter, entry>>
    BY <2>6, BehindStays DEF KnownFollows
  <2>. QED  BY <2>4, <2>5, <2>6
<1>19. CASE UNCHANGED deliveryVars
  BY <1>19, BehindStays, NothingBehind DEF brokerVars, wire, adapterVars, deliveryVars,
     DeliveryTypeOK
<1>20. ASSUME BoundaryOrFault
      PROVE  KnownFollows'
  BY <1>20, BoundaryFacts
<1>. QED  BY <1>1, <1>2, <1>3, <1>4, <1>5, <1>6, <1>7, <1>8, <1>9, <1>10, <1>11, <1>12,
            <1>13, <1>14, <1>15, <1>16, <1>17, <1>18, <1>19, <1>20 DEF DeliveryNext,
            BrokerStep, AdapterStep, BoundaryOrFault

\* The run is not ahead of Pi.
LEMMA RunFollowsInductive ==
  ASSUME DeliveryTypeOK, FramesFollow, RunFollows, [DeliveryNext]_deliveryVars
  PROVE  RunFollows'
<1> USE DEF RunFollows
<1>1. ASSUME Register
      PROVE  RunFollows'
  BY <1>1, PiGoesOn DEF Register, adapterVars, DeliveryTypeOK
<1>2. ASSUME Notice
      PROVE  RunFollows'
  BY <1>2, PiGoesOn DEF Notice, CloseClient, adapterVars, DeliveryTypeOK
<1>3. ASSUME TakeRequest
      PROVE  RunFollows'
  <2>1. Head(up) \in Reported(pi)
    BY <1>3, HeadTailProperties DEF TakeRequest, FramesFollow
  <2>2. UNCHANGED pi
    BY <1>3 DEF TakeRequest
  <2>3. CASE run' = run
    BY <2>2, <2>3
  <2>4. CASE /\ Head(up).kind = "bound"
             /\ run' = [run EXCEPT !.state = "working", !.cycle = Head(up).cycle]
    BY <2>1, <2>2, <2>4 DEF Reported, Behind, DeliveryTypeOK
  <2>5. CASE /\ Head(up).kind = "settled" /\ run' = [run EXCEPT !.state = "settled"]
             /\ run.state = "working" /\ run.cycle = Head(up).cycle
    BY <2>1, <2>2, <2>5 DEF Reported, Behind, DeliveryTypeOK
  <2>6. Head(up).kind \in {"bound", "settled", "heartbeat"}
    BY <2>1 DEF Reported, Frame
  <2>. QED  BY <1>3, <2>3, <2>4, <2>5, <2>6 DEF TakeRequest, Agrees
<1>4. ASSUME CloseRun
      PROVE  RunFollows'
  BY <1>4, PiGoesOn DEF CloseRun, wire, adapterVars, DeliveryTypeOK
<1>5. ASSUME BoundaryOrFault
      PROVE  RunFollows'
  BY <1>5, BoundaryFacts
<1>6. ASSUME NEW g \in Generations, Send(g)
      PROVE  RunFollows'
  BY <1>6, PiGoesOn DEF Send, adapterVars, DeliveryTypeOK
<1>7. ASSUME NEW g \in Generations, DeliveryTimesOut(g)
      PROVE  RunFollows'
  BY <1>7, PiGoesOn DEF DeliveryTimesOut, wire, adapterVars, DeliveryTypeOK
<1>8. ASSUME NEW g \in Generations, Finalize(g)
      PROVE  RunFollows'
  BY <1>8, PiGoesOn DEF Finalize, wire, adapterVars, DeliveryTypeOK
<1>9. ASSUME NEW ok \in BOOLEAN, TakeAnswer(ok)
      PROVE  RunFollows'
  BY <1>9, PiGoesOn DEF TakeAnswer, CloseClient, adapterVars, DeliveryTypeOK
<1>10. ASSUME Start
      PROVE  RunFollows'
  BY <1>10, PiGoesOn DEF Start, NewAdapter, Forgets, brokerVars, DeliveryTypeOK
<1>11. ASSUME Retry \/ Registered \/ Disconnect \/ RestartPi \/ Deliver
      PROVE  RunFollows'
  BY <1>11, PiGoesOn DEF Retry, NewAdapter, Registered, Disconnect, RestartPi, Deliver, Answer,
     brokerVars, DeliveryTypeOK
<1>12. ASSUME NextTurn \/ Settle \/ Beat \/ Reply
      PROVE  RunFollows'
  BY <1>12, PiGoesOn DEF NextTurn, Settle, Beat, Reply, brokerVars, DeliveryTypeOK
<1>13. ASSUME NEW g \in Generations, PromptReturns(g)
      PROVE  RunFollows'
  BY <1>13, PiGoesOn DEF PromptReturns, Answer, brokerVars, DeliveryTypeOK
<1>14. ASSUME NEW g \in Generations, PromptFails(g)
      PROVE  RunFollows'
  BY <1>14, PiGoesOn DEF PromptFails, Answer, brokerVars, adapterVars, DeliveryTypeOK
<1>15. ASSUME NEW message \in {"assignment", "another"}, Begin(message)
      PROVE  RunFollows'
  <2>1. run' = run /\ pi'.cycle = pi.cycle + 1 /\ pi.cycle \in Nat
    BY <1>15 DEF Begin, brokerVars, DeliveryTypeOK
  <2>. QED  BY <2>1
<1>16. CASE UNCHANGED deliveryVars
  BY <1>16, PiGoesOn DEF brokerVars, wire, adapterVars, deliveryVars, DeliveryTypeOK
<1>. QED  BY <1>1, <1>2, <1>3, <1>4, <1>5, <1>6, <1>7, <1>8, <1>9, <1>10, <1>11, <1>12,
            <1>13, <1>14, <1>15, <1>16 DEF DeliveryNext, BrokerStep, AdapterStep,
            BoundaryOrFault

\* The handler of an event sends and keeps reports of what is so.
LEMMA HandledFramesFollow ==
  ASSUME DeliveryTypeOK, WireKept, KnownFollows, FramesFollow, [DeliveryNext]_deliveryVars,
         NEW event, Handle(event), event = "turn_start" => pi'.cycle \in Cycles,
         event = "agent_settled" => ~pi'.working
  PROVE  FramesFollow'
<1>1. up \in Seq(Reported(pi')) /\ queue \in Seq(Reported(pi'))
  BY BehindStays, SeqMonotonic DEF FramesFollow
<1>2. ASSUME News(event)
      PROVE  queue' \in Seq(Reported(pi'))
  <2> DEFINE c == Correlated(event)
             f == [kind |-> c.kind, gen |-> adapter.gen, seq |-> adapter.seq + 1,
                   cycle |-> c.cycle]
  <2>1. Behind(c, pi') /\ c \in Known /\ c # adapter.cor
    BY <1>2, CorrelatedBehind, CorrelatedFacts DEF KnownFollows, News, DeliveryTypeOK
  <2>2. c.kind \in {"bound", "settled"} /\ c.cycle \in 0 .. MaxCycles
    BY <2>1, CorrelatedFacts, KnownFacts DEF DeliveryTypeOK
  <2>3. adapter.gen \in Generations /\ adapter.seq + 1 \in Nat
    <3>1. adapter.gen \in Generations
      BY <1>2 DEF News, WireKept
    <3>2. adapter.seq \in Nat
      BY DEF DeliveryTypeOK
    <3>. QED  BY <3>1, <3>2
  <2> HIDE DEF c
  <2>4. f \in Frame
    BY <2>2, <2>3 DEF Frame
  <2>5. Behind(f, pi')
    BY <2>1 DEF Behind
  <2>6. f \in Reported(pi') /\ queue' = Append(queue, f)
    BY <1>2, <2>4, <2>5 DEF Reported, News, c
  <2>. QED  BY <1>1, <2>6, AppendProperties
<1>3. queue' \in Seq(Reported(pi'))
  BY <1>1, <1>2, HandleFacts
<1>4. up' \in Seq(Reported(pi'))
  <2>1. queue' # <<>> => Head(queue') \in Reported(pi')
    BY <1>3, HeadTailProperties
  <2>. QED  BY <1>1, <2>1, HandleFacts, AppendProperties
<1>. QED  BY <1>3, <1>4 DEF FramesFollow

\* So is what was reported, and is to be.
LEMMA FramesFollowInductive ==
  ASSUME DeliveryTypeOK, WireKept, PiKept, KnownFollows,
         FramesFollow, [DeliveryNext]_deliveryVars
  PROVE  FramesFollow'
<1>1. ASSUME Register
      PROVE  FramesFollow'
  <2>0. up \in Seq(Reported(pi')) /\ queue \in Seq(Reported(pi'))
    BY BehindStays, SeqMonotonic DEF FramesFollow
  <2>1. up' \in {up, <<>>} /\ queue' \in {queue, <<>>}
    BY <1>1 DEF Register, adapterVars, wire
  <2>. QED  BY <2>0, <2>1, EmptySeq DEF FramesFollow
<1>2. ASSUME Notice
      PROVE  FramesFollow'
  <2>0. up \in Seq(Reported(pi')) /\ queue \in Seq(Reported(pi'))
    BY BehindStays, SeqMonotonic DEF FramesFollow
  <2>1. up' \in {up, <<>>} /\ queue' \in {queue, <<>>}
    BY <1>2 DEF Notice, CloseClient, adapterVars, wire
  <2>. QED  BY <2>0, <2>1, EmptySeq DEF FramesFollow
<1>3. ASSUME TakeRequest
      PROVE  FramesFollow'
  <2>0. up \in Seq(Reported(pi')) /\ queue \in Seq(Reported(pi'))
    BY BehindStays, SeqMonotonic DEF FramesFollow
  <2>1. Tail(up) \in Seq(Reported(pi'))
    BY <1>3, <2>0, HeadTailProperties DEF TakeRequest
  <2>. QED  BY <1>3, <2>0, <2>1 DEF TakeRequest, adapterVars, FramesFollow
<1>4. ASSUME CloseRun
      PROVE  FramesFollow'
  <2>0. up \in Seq(Reported(pi')) /\ queue \in Seq(Reported(pi'))
    BY BehindStays, SeqMonotonic DEF FramesFollow
  <2>1. up' \in {up, <<>>} /\ queue' \in {queue, <<>>}
    BY <1>4 DEF CloseRun, adapterVars, wire
  <2>. QED  BY <2>0, <2>1, EmptySeq DEF FramesFollow
<1>5. ASSUME BoundaryOrFault
      PROVE  FramesFollow'
  <2>0. up \in Seq(Reported(pi')) /\ queue \in Seq(Reported(pi'))
    BY BehindStays, SeqMonotonic DEF FramesFollow
  <2>1. up' \in {up, <<>>} /\ queue' \in {queue, <<>>}
    BY <1>5, BoundaryFacts
  <2>. QED  BY <2>0, <2>1, EmptySeq DEF FramesFollow
<1>6. ASSUME NEW g \in Generations, Send(g)
      PROVE  FramesFollow'
  <2>0. up \in Seq(Reported(pi')) /\ queue \in Seq(Reported(pi'))
    BY BehindStays, SeqMonotonic DEF FramesFollow
  <2>1. up' \in {up, <<>>} /\ queue' \in {queue, <<>>}
    BY <1>6 DEF Send, adapterVars, wire
  <2>. QED  BY <2>0, <2>1, EmptySeq DEF FramesFollow
<1>7. ASSUME NEW g \in Generations, DeliveryTimesOut(g)
      PROVE  FramesFollow'
  <2>0. up \in Seq(Reported(pi')) /\ queue \in Seq(Reported(pi'))
    BY BehindStays, SeqMonotonic DEF FramesFollow
  <2>1. up' \in {up, <<>>} /\ queue' \in {queue, <<>>}
    BY <1>7 DEF DeliveryTimesOut, adapterVars, wire
  <2>. QED  BY <2>0, <2>1, EmptySeq DEF FramesFollow
<1>8. ASSUME NEW g \in Generations, Finalize(g)
      PROVE  FramesFollow'
  <2>0. up \in Seq(Reported(pi')) /\ queue \in Seq(Reported(pi'))
    BY BehindStays, SeqMonotonic DEF FramesFollow
  <2>1. up' \in {up, <<>>} /\ queue' \in {queue, <<>>}
    BY <1>8 DEF Finalize, adapterVars, wire
  <2>. QED  BY <2>0, <2>1, EmptySeq DEF FramesFollow
<1>9. ASSUME NEW ok \in BOOLEAN, TakeAnswer(ok)
      PROVE  FramesFollow'
  <2>0. up \in Seq(Reported(pi')) /\ queue \in Seq(Reported(pi'))
    BY BehindStays, SeqMonotonic DEF FramesFollow
  <2>1. up' \in {up, <<>>} /\ queue' \in {queue, <<>>}
    BY <1>9 DEF TakeAnswer, CloseClient, adapterVars, wire
  <2>. QED  BY <2>0, <2>1, EmptySeq DEF FramesFollow
<1>10. ASSUME Start
      PROVE  FramesFollow'
  <2>0. up \in Seq(Reported(pi')) /\ queue \in Seq(Reported(pi'))
    BY BehindStays, SeqMonotonic DEF FramesFollow
  <2>1. up' \in {up, <<>>} /\ queue' \in {queue, <<>>}
    BY <1>10 DEF Start, NewAdapter, Forgets, adapterVars, wire
  <2>. QED  BY <2>0, <2>1, EmptySeq DEF FramesFollow
<1>11. ASSUME Retry
      PROVE  FramesFollow'
  <2>0. up \in Seq(Reported(pi')) /\ queue \in Seq(Reported(pi'))
    BY BehindStays, SeqMonotonic DEF FramesFollow
  <2>1. up' \in {up, <<>>} /\ queue' \in {queue, <<>>}
    BY <1>11 DEF Retry, NewAdapter, adapterVars, wire
  <2>. QED  BY <2>0, <2>1, EmptySeq DEF FramesFollow
<1>12. ASSUME Registered
      PROVE  FramesFollow'
  <2>0. up \in Seq(Reported(pi')) /\ queue \in Seq(Reported(pi'))
    BY BehindStays, SeqMonotonic DEF FramesFollow
  <2>1. up' \in {up, <<>>} /\ queue' \in {queue, <<>>}
    BY <1>12 DEF Registered, adapterVars, wire
  <2>. QED  BY <2>0, <2>1, EmptySeq DEF FramesFollow
<1>13. ASSUME Disconnect
      PROVE  FramesFollow'
  <2>0. up \in Seq(Reported(pi')) /\ queue \in Seq(Reported(pi'))
    BY BehindStays, SeqMonotonic DEF FramesFollow
  <2>1. up' \in {up, <<>>} /\ queue' \in {queue, <<>>}
    BY <1>13 DEF Disconnect, adapterVars, wire
  <2>. QED  BY <2>0, <2>1, EmptySeq DEF FramesFollow
<1>14. ASSUME RestartPi
      PROVE  FramesFollow'
  <2>0. up \in Seq(Reported(pi')) /\ queue \in Seq(Reported(pi'))
    BY BehindStays, SeqMonotonic DEF FramesFollow
  <2>1. up' \in {up, <<>>} /\ queue' \in {queue, <<>>}
    BY <1>14 DEF RestartPi, NewAdapter, adapterVars, wire
  <2>. QED  BY <2>0, <2>1, EmptySeq DEF FramesFollow
<1>15. ASSUME Deliver
      PROVE  FramesFollow'
  <2>0. up \in Seq(Reported(pi')) /\ queue \in Seq(Reported(pi'))
    BY BehindStays, SeqMonotonic DEF FramesFollow
  <2>1. up' \in {up, <<>>} /\ queue' \in {queue, <<>>}
    BY <1>15 DEF Deliver, Answer, adapterVars, wire
  <2>. QED  BY <2>0, <2>1, EmptySeq DEF FramesFollow
<1>16. ASSUME NextTurn
      PROVE  FramesFollow'
  <2>1. Handle("turn_start")
    BY <1>16 DEF NextTurn
  <2>2. /\ ("turn_start" = "turn_start" => pi'.cycle \in Cycles)
        /\ ("turn_start" = "agent_settled" => ~pi'.working)
    BY <1>16, TurnCycle DEF NextTurn, DeliveryTypeOK
  <2>. QED  BY <2>1, <2>2, HandledFramesFollow
<1>17. ASSUME Settle
      PROVE  FramesFollow'
  <2>1. Handle("agent_settled")
    BY <1>17 DEF Settle
  <2>2. /\ ("agent_settled" = "turn_start" => pi'.cycle \in Cycles)
        /\ ("agent_settled" = "agent_settled" => ~pi'.working)
    BY <1>17, TurnCycle DEF Settle, DeliveryTypeOK
  <2>. QED  BY <2>1, <2>2, HandledFramesFollow
<1>18. ASSUME Beat
      PROVE  FramesFollow'
  <2>0. up \in Seq(Reported(pi')) /\ queue \in Seq(Reported(pi'))
    BY BehindStays, SeqMonotonic DEF FramesFollow
  <2> DEFINE report == [kind |-> "heartbeat", gen |-> adapter.gen, seq |-> adapter.seq + 1,
                        cycle |-> 0]
  <2>1. report \in Reported(pi')
    <3>1. adapter.gen \in Generations /\ adapter.seq + 1 \in Nat
      <4>1. adapter.gen \in Generations
        BY <1>18 DEF Beat, WireKept
      <4>2. adapter.seq \in Nat
        BY DEF DeliveryTypeOK
      <4>. QED  BY <4>1, <4>2
    <3>. QED  BY <3>1 DEF Frame, Reported, Behind
  <2>2. <<report>> \in Seq(Reported(pi')) /\ <<>> \in Seq(Reported(pi'))
    BY <2>1
  <2>3. queue # <<>> => <<Head(queue)>> \in Seq(Reported(pi'))
    BY <2>0, HeadTailProperties
  <2>4. \A s, t \in Seq(Reported(pi')) : up \o s \o t \in Seq(Reported(pi'))
    BY <2>0, ConcatProperties
  <2>5. up' \in Seq(Reported(pi')) /\ queue' = queue
    BY <1>18, <2>0, <2>2, <2>3, <2>4 DEF Beat
  <2>. QED  BY <2>0, <2>5 DEF FramesFollow
<1>19. ASSUME Reply
      PROVE  FramesFollow'
  <2>0. up \in Seq(Reported(pi')) /\ queue \in Seq(Reported(pi'))
    BY BehindStays, SeqMonotonic DEF FramesFollow
  <2>1. queue # <<>> => Tail(queue) \in Seq(Reported(pi'))
    BY <2>0, HeadTailProperties
  <2>. QED  BY <1>19, <2>0, <2>1 DEF Reply, FramesFollow
<1>20. ASSUME NEW g \in Generations, PromptReturns(g)
      PROVE  FramesFollow'
  <2>0. up \in Seq(Reported(pi')) /\ queue \in Seq(Reported(pi'))
    BY BehindStays, SeqMonotonic DEF FramesFollow
  <2>1. up' \in {up, <<>>} /\ queue' \in {queue, <<>>}
    BY <1>20 DEF PromptReturns, Answer, adapterVars, wire
  <2>. QED  BY <2>0, <2>1, EmptySeq DEF FramesFollow
<1>21. ASSUME NEW g \in Generations, PromptFails(g)
      PROVE  FramesFollow'
  <2>0. up \in Seq(Reported(pi')) /\ queue \in Seq(Reported(pi'))
    BY BehindStays, SeqMonotonic DEF FramesFollow
  <2>1. up' \in {up, <<>>} /\ queue' \in {queue, <<>>}
    BY <1>21 DEF PromptFails, Answer, adapterVars, wire
  <2>. QED  BY <2>0, <2>1, EmptySeq DEF FramesFollow
<1>22. ASSUME NEW message \in {"assignment", "another"}, Begin(message)
      PROVE  FramesFollow'
  <2>1. Handle("turn_start")
    BY <1>22 DEF Begin
  <2>2. /\ ("turn_start" = "turn_start" => pi'.cycle \in Cycles)
        /\ ("turn_start" = "agent_settled" => ~pi'.working)
    BY <1>22, TurnCycle DEF Begin, DeliveryTypeOK
  <2>. QED  BY <2>1, <2>2, HandledFramesFollow
<1>23. CASE UNCHANGED deliveryVars
  BY <1>23 DEF brokerVars, wire, adapterVars, deliveryVars, FramesFollow
<1>. QED  BY <1>1, <1>2, <1>3, <1>4, <1>5, <1>6, <1>7, <1>8, <1>9, <1>10, <1>11, <1>12,
            <1>13, <1>14, <1>15, <1>16, <1>17, <1>18, <1>19, <1>20, <1>21, <1>22, <1>23 DEF
            DeliveryNext, BrokerStep, AdapterStep, BoundaryOrFault

-----------------------------------------------------------------------------
(* What is remembered of the prompt. *)

\* A prompt that is not forgotten is not repeated.
LEMMA RememberedInductive ==
  ASSUME DeliveryTypeOK, WireKept, PiKept, Remembered, [DeliveryNext]_deliveryVars
  PROVE  Remembered'
<1> USE DEF Remembered
<1>1. ASSUME Register
      PROVE  Remembered'
  BY <1>1, KnownFacts DEF Register, adapterVars, DeliveryTypeOK, WireKept, Reconciled
<1>2. ASSUME Notice
      PROVE  Remembered'
  BY <1>2, KnownFacts DEF Notice, CloseClient, adapterVars, DeliveryTypeOK, WireKept, Reconciled
<1>3. ASSUME TakeRequest
      PROVE  Remembered'
  BY <1>3, KnownFacts DEF TakeRequest, Agrees, InProgress, adapterVars, DeliveryTypeOK,
     WireKept, Reconciled
<1>4. ASSUME CloseRun
      PROVE  Remembered'
  BY <1>4, KnownFacts DEF CloseRun, wire, adapterVars, DeliveryTypeOK, WireKept, Reconciled
<1>5. ASSUME BoundaryOrFault
      PROVE  Remembered'
  BY <1>5, BoundaryFacts DEF Reconciled
<1>6. ASSUME NEW g \in Generations, Send(g)
      PROVE  Remembered'
  BY <1>6, KnownFacts DEF Send, adapterVars, DeliveryTypeOK, WireKept, Reconciled
<1>7. ASSUME NEW g \in Generations, DeliveryTimesOut(g)
      PROVE  Remembered'
  BY <1>7, KnownFacts DEF DeliveryTimesOut, wire, adapterVars, DeliveryTypeOK, WireKept,
     Reconciled
<1>8. ASSUME NEW g \in Generations, Finalize(g)
      PROVE  Remembered'
  BY <1>8, KnownFacts DEF Finalize, wire, adapterVars, DeliveryTypeOK, WireKept, Reconciled
<1>9. ASSUME NEW ok \in BOOLEAN, TakeAnswer(ok)
      PROVE  Remembered'
  BY <1>9, KnownFacts DEF TakeAnswer, CloseClient, adapterVars, DeliveryTypeOK, WireKept,
     Reconciled
<1>10. ASSUME Start
      PROVE  Remembered'
  BY <1>10, KnownFacts DEF Start, NewAdapter, Forgets, brokerVars, DeliveryTypeOK, WireKept,
     Reconciled
<1>11. ASSUME Retry
      PROVE  Remembered'
  BY <1>11, KnownFacts DEF Retry, NewAdapter, brokerVars, DeliveryTypeOK, WireKept, Reconciled
<1>12. ASSUME Registered
      PROVE  Remembered'
  BY <1>12, KnownFacts DEF Registered, brokerVars, DeliveryTypeOK, WireKept, Reconciled
<1>13. ASSUME Disconnect
      PROVE  Remembered'
  BY <1>13, KnownFacts DEF Disconnect, brokerVars, DeliveryTypeOK, WireKept, Reconciled
<1>14. ASSUME RestartPi
      PROVE  Remembered'
  <2>1. /\ adapter'.cor = Nothing /\ adapter'.kept = Nothing /\ adapter'.seen = entry
        /\ entry' = entry
    BY <1>14 DEF RestartPi, NewAdapter
  <2>2. /\ past'.forgotten = (past.forgotten \/ pi.prompting # {})
        /\ past'.started = past.started /\ past'.prompts = past.prompts /\ pi'.inbox = 0
    BY <1>14 DEF RestartPi, DeliveryTypeOK
  <2>3. past.started \in Nat /\ pi.inbox \in Nat /\ past.prompts \in Nat
    BY DEF DeliveryTypeOK
  <2>4. ~past'.forgotten => ~past.forgotten /\ pi.prompting = {}
    BY <2>2
  <2>5. ~past'.forgotten => past'.started + pi'.inbox <= past'.prompts /\ past'.prompts <= 1
    BY <2>2, <2>3, <2>4
  <2>6. ~past'.forgotten /\ past'.prompts > 0 => entry # Nothing
    BY <2>2, <2>4
  <2>7. entry # Nothing => Reconciled' # Nothing
    BY <2>1 DEF Reconciled
  <2>8. \A k \in {adapter'.cor, adapter'.kept} : k = Nothing
    BY <2>1
  <2>. QED  BY <2>1, <2>5, <2>6, <2>7, <2>8
<1>15. ASSUME Deliver
      PROVE  Remembered'
  <2>0. UNCHANGED entry /\ past.started \in Nat /\ pi.inbox \in Nat /\ past.prompts \in Nat
    BY <1>15 DEF Deliver, DeliveryTypeOK
  <2>1. CASE pi.working
    BY <1>15, <2>0, <2>1 DEF Deliver, Reconciled
  <2>2. CASE ~pi.working /\ Reconciled # Nothing
    <3>1. adapter' = [adapter EXCEPT !.cor = Reconciled] /\ UNCHANGED <<pi, past>>
      BY <1>15, <2>2 DEF Deliver
    <3>2. adapter'.cor = Reconciled /\ adapter'.kept = adapter.kept /\ adapter'.seen = adapter.seen
      BY <3>1 DEF DeliveryTypeOK
    <3>3. Reconciled # Pending => entry # Nothing
      BY <2>2, KnownFacts DEF Reconciled
    <3>. QED  BY <2>0, <2>2, <3>1, <3>2, <3>3 DEF Reconciled
  <2>3. CASE ~pi.working /\ Reconciled = Nothing
    <3>1. /\ adapter'.cor = Pending /\ adapter'.kept = adapter.kept /\ adapter'.seen = adapter.seen
      <4>1. adapter' = [adapter EXCEPT !.cor = Pending]
        BY <1>15, <2>3 DEF Deliver
      <4>. QED  BY <4>1 DEF DeliveryTypeOK
    <3>1a. pi' = [pi EXCEPT !.inbox = pi.inbox + 1, !.prompting = pi.prompting \union {adapter.gen}]
      BY <1>15, <2>3 DEF Deliver
    <3>1b. pi'.inbox = pi.inbox + 1 /\ adapter.gen \in pi'.prompting
      BY <3>1a DEF DeliveryTypeOK
    <3>2. /\ past'.prompts = past.prompts + 1 /\ past'.started = past.started
          /\ past'.forgotten = past.forgotten
      <4>1. past' = [past EXCEPT !.prompts = past.prompts + 1]
        BY <1>15, <2>3 DEF Deliver
      <4>. QED  BY <4>1 DEF DeliveryTypeOK
    <3>3. ~past.forgotten => past.prompts = 0
      BY <2>0, <2>3
    <3>. QED  BY <2>0, <3>1, <3>1b, <3>2, <3>3, KnownFacts DEF Reconciled
  <2>. QED  BY <2>1, <2>2, <2>3
<1>16. ASSUME NextTurn
      PROVE  Remembered'
  <2>1. /\ Handle("turn_start") /\ pi'.prompting = pi.prompting /\ past'.prompts = past.prompts
        /\ past'.forgotten = past.forgotten
        /\ past'.started + pi'.inbox = past.started + pi.inbox
    BY <1>16 DEF NextTurn, DeliveryTypeOK
  <2>2. "turn_start" = "turn_start" => pi'.cycle \in Cycles
    BY <1>16, TurnCycle
  <2>3. Correlated("turn_start") # adapter.cor => Correlated("turn_start") # Nothing
    <3>1. adapter.cor \in Known
      BY DEF DeliveryTypeOK
    <3>2. \A c : /\ [kind |-> "bound", cycle |-> c] # Nothing
                 /\ [kind |-> "settled", cycle |-> c] # Nothing
      BY DEF Nothing
    <3>. QED  BY <2>2, <3>1, <3>2, CorrelatedFacts
  <2>4. CASE News("turn_start")
    <3>1. /\ adapter'.cor = Correlated("turn_start") /\ entry' = Correlated("turn_start")
          /\ adapter'.kept = adapter.kept /\ adapter'.seen = adapter.seen
          /\ Correlated("turn_start") # Nothing
      BY <2>3, <2>4 DEF News, DeliveryTypeOK
    <3>. QED  BY <2>1, <3>1 DEF Reconciled
  <2>5. CASE UNCHANGED <<adapter, entry>>
    BY <2>1, <2>5 DEF Reconciled
  <2>. QED  BY <2>1, <2>4, <2>5, HandleFacts
<1>17. ASSUME Settle
      PROVE  Remembered'
  <2>1. /\ Handle("agent_settled") /\ pi'.prompting = pi.prompting /\ past'.prompts = past.prompts
        /\ past'.forgotten = past.forgotten
        /\ past'.started + pi'.inbox = past.started + pi.inbox
    BY <1>17 DEF Settle, DeliveryTypeOK
  <2>2. "agent_settled" = "turn_start" => pi'.cycle \in Cycles
    BY <1>17, TurnCycle
  <2>3. Correlated("agent_settled") # adapter.cor => Correlated("agent_settled") # Nothing
    <3>1. adapter.cor \in Known
      BY DEF DeliveryTypeOK
    <3>2. \A c : /\ [kind |-> "bound", cycle |-> c] # Nothing
                 /\ [kind |-> "settled", cycle |-> c] # Nothing
      BY DEF Nothing
    <3>. QED  BY <2>2, <3>1, <3>2, CorrelatedFacts
  <2>4. CASE News("agent_settled")
    <3>1. /\ adapter'.cor = Correlated("agent_settled") /\ entry' = Correlated("agent_settled")
          /\ adapter'.kept = adapter.kept /\ adapter'.seen = adapter.seen
          /\ Correlated("agent_settled") # Nothing
      BY <2>3, <2>4 DEF News, DeliveryTypeOK
    <3>. QED  BY <2>1, <3>1 DEF Reconciled
  <2>5. CASE UNCHANGED <<adapter, entry>>
    BY <2>1, <2>5 DEF Reconciled
  <2>. QED  BY <2>1, <2>4, <2>5, HandleFacts
<1>18. ASSUME Beat
      PROVE  Remembered'
  BY <1>18, KnownFacts DEF Beat, brokerVars, DeliveryTypeOK, WireKept, Reconciled
<1>19. ASSUME Reply
      PROVE  Remembered'
  BY <1>19, KnownFacts DEF Reply, brokerVars, DeliveryTypeOK, WireKept, Reconciled
<1>20. ASSUME NEW g \in Generations, PromptReturns(g)
      PROVE  Remembered'
  BY <1>20, KnownFacts DEF PromptReturns, Answer, brokerVars, DeliveryTypeOK, WireKept,
     Reconciled
<1>21. ASSUME NEW g \in Generations, PromptFails(g)
      PROVE  Remembered'
  <2>1. /\ UNCHANGED <<adapter, entry>>
        /\ past.started \in Nat
        /\ pi.inbox \in Nat
        /\ past.prompts \in Nat
    BY <1>21 DEF PromptFails, adapterVars, DeliveryTypeOK
  <2>2. /\ pi'.inbox = pi.inbox - 1 /\ past'.prompts = past.prompts - 1
        /\ past'.started = past.started /\ past'.forgotten = past.forgotten
    BY <1>21 DEF PromptFails, DeliveryTypeOK
  <2>3. ~past'.forgotten => ~(past'.prompts > 0)
    BY <2>1, <2>2
  <2>. QED  BY <2>1, <2>2, <2>3 DEF Reconciled
<1>22. ASSUME NEW message \in {"assignment", "another"}, Begin(message)
      PROVE  Remembered'
  <2>1. /\ Handle("turn_start") /\ pi'.prompting = pi.prompting /\ past'.prompts = past.prompts
        /\ past'.forgotten = past.forgotten
        /\ past'.started + pi'.inbox = past.started + pi.inbox
    BY <1>22 DEF Begin, DeliveryTypeOK
  <2>2. "turn_start" = "turn_start" => pi'.cycle \in Cycles
    BY <1>22, TurnCycle
  <2>3. Correlated("turn_start") # adapter.cor => Correlated("turn_start") # Nothing
    <3>1. adapter.cor \in Known
      BY DEF DeliveryTypeOK
    <3>2. \A c : /\ [kind |-> "bound", cycle |-> c] # Nothing
                 /\ [kind |-> "settled", cycle |-> c] # Nothing
      BY DEF Nothing
    <3>. QED  BY <2>2, <3>1, <3>2, CorrelatedFacts
  <2>4. CASE News("turn_start")
    <3>1. /\ adapter'.cor = Correlated("turn_start") /\ entry' = Correlated("turn_start")
          /\ adapter'.kept = adapter.kept /\ adapter'.seen = adapter.seen
          /\ Correlated("turn_start") # Nothing
      BY <2>3, <2>4 DEF News, DeliveryTypeOK
    <3>. QED  BY <2>1, <3>1 DEF Reconciled
  <2>5. CASE UNCHANGED <<adapter, entry>>
    BY <2>1, <2>5 DEF Reconciled
  <2>. QED  BY <2>1, <2>4, <2>5, HandleFacts
<1>23. CASE UNCHANGED deliveryVars
  BY <1>23, KnownFacts DEF brokerVars, wire, adapterVars, deliveryVars, DeliveryTypeOK,
     WireKept, Reconciled
<1>. QED  BY <1>1, <1>2, <1>3, <1>4, <1>5, <1>6, <1>7, <1>8, <1>9, <1>10, <1>11, <1>12,
            <1>13, <1>14, <1>15, <1>16, <1>17, <1>18, <1>19, <1>20, <1>21, <1>22, <1>23 DEF
            DeliveryNext, BrokerStep, AdapterStep, BoundaryOrFault

-----------------------------------------------------------------------------
(* Theorems. *)

LEMMA InitInv == DeliveryInit => DeliveryInv
<1> SUFFICES ASSUME DeliveryInit PROVE DeliveryInv
  OBVIOUS
<1> USE DEF DeliveryInit, NewAdapter
<1>1. BrokerType
  BY DEF BrokerType, Generations
<1>2. SocketType
  BY DEF SocketType
<1>3. AdapterType
  BY KnownFacts DEF AdapterType
<1>4. FramesType
  BY DEF FramesType
<1>5. PiType
  BY DEF PiType
<1>6. WireKept /\ PiKept
  BY DEF WireKept, PiKept
<1>7. Evidence
  BY DEF Evidence, Generations
<1>8. KnownFollows /\ FramesFollow /\ RunFollows
  BY NothingBehind DEF KnownFollows, FramesFollow, RunFollows
<1>9. Remembered
  BY DEF Remembered
<1>. QED  BY <1>1, <1>2, <1>3, <1>4, <1>5, <1>6, <1>7, <1>8, <1>9, TypeParts DEF DeliveryInv

\* The inductive invariant holds in every reachable state: what the broker, the adapters,
\* the session and the wire say of the assignment has happened, and is not forgotten.
THEOREM DeliveryInvariance == DeliverySpec => []DeliveryInv
<1>1. DeliveryInv /\ [DeliveryNext]_deliveryVars => DeliveryInv'
  <2> SUFFICES ASSUME DeliveryInv, [DeliveryNext]_deliveryVars PROVE DeliveryInv'
    OBVIOUS
  <2> USE DEF DeliveryInv
  <2>1. BrokerType' /\ SocketType' /\ AdapterType' /\ PiType'
    BY BrokerTypeInductive, SocketTypeInductive, AdapterTypeInductive, PiTypeInductive
  <2>2. KnownFollows' /\ FramesFollow' /\ RunFollows'
    BY KnownFollowsInductive, FramesFollowInductive, RunFollowsInductive
  <2>3. FramesType'
    <3>1. Reported(pi') \subseteq Frame
      BY DEF Reported
    <3>. QED  BY <2>2, <3>1, SeqMonotonic DEF FramesFollow, FramesType
  <2>4. DeliveryTypeOK'
    BY <2>1, <2>3 DEF DeliveryTypeOK, BrokerType, SocketType, AdapterType, FramesType, PiType
  <2>5. WireKept' /\ PiKept'
    BY WireKeptInductive, PiKeptInductive
  <2>6. Evidence' /\ Remembered'
    BY EvidenceInductive, RememberedInductive
  <2>. QED  BY <2>2, <2>4, <2>5, <2>6
<1>. QED  BY <1>1, InitInv, PTL DEF DeliverySpec

\* Every variable has values of its type, for any number of connections, cycles and reports.
THEOREM DeliveryTypeCorrect == DeliverySpec => []DeliveryTypeOK
<1>1. DeliveryInv => DeliveryTypeOK
  BY DEF DeliveryInv
<1>. QED  BY <1>1, DeliveryInvariance, PTL

\* The assignment starts at most one cycle of Pi, over any number of connections and
\* restarts of the broker, the adapter and Pi, unless a prompt under way was forgotten.
THEOREM PromptSafety == DeliverySpec => []PromptedOnce
<1>1. DeliveryInv => PromptedOnce
  <2>1. DeliveryTypeOK => past.started \in Nat /\ past.prompts \in Nat /\ pi.inbox \in Nat
    BY DEF DeliveryTypeOK
  <2>. QED  BY <2>1 DEF DeliveryInv, Remembered, PromptedOnce
<1>. QED  BY <1>1, DeliveryInvariance, PTL

\* An assignment that the broker holds for accepted was handed to Pi, unless a prompt failed.
THEOREM AcceptanceSafety == DeliverySpec => []AcceptedWasPrompted
<1>1. DeliveryInv => AcceptedWasPrompted
  BY DEF DeliveryInv, Evidence, AcceptedWasPrompted
<1>. QED  BY <1>1, DeliveryInvariance, PTL

\* The broker is never ahead of Pi, over any number of connections and cycles.
THEOREM ProgressSafety == DeliverySpec => []BrokerFollowsPi
<1>1. DeliveryInv => BrokerFollowsPi
  BY DEF DeliveryInv, RunFollows, BrokerFollowsPi
<1>. QED  BY <1>1, DeliveryInvariance, PTL

=============================================================================
