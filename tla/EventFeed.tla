------------------------------ MODULE EventFeed ------------------------------
(***************************************************************************)
(* How a parent learns that a task it delegated has ended.  The broker     *)
(* sends the parent the events of its store from a cursor on               *)
(* (events.subscribe, src/broker/broker.ts); the extension in the parent's *)
(* Pi session asks for each task that an event says has ended, tells the   *)
(* session, and keeps its cursor and the ends it told in the session       *)
(* (src/pi/terminal-result-delivery.ts).  Connections, the broker and the  *)
(* session may stop at any step.                                           *)
(*                                                                         *)
(* A parent must be registered before it may ask for events, and a         *)
(* registration is an event itself: a broker whose store is read-only      *)
(* refuses it, and goes on running.                                        *)
(*                                                                         *)
(* The store is what DurableLog promises of it, also where somebody else   *)
(* changes its files.  The position of an event in the history is its seq. *)
(* An event is the task it says has ended, another one that the parent     *)
(* asked for, or one that its filter leaves out.                           *)
(*                                                                         *)
(* A definition named Faulty... is a plausible bug in the definition after *)
(* it, against which the properties are tested; nothing here uses it.      *)
(***************************************************************************)
EXTENDS Integers, Sequences, FiniteSets

CONSTANTS
  Tasks,             \* tasks whose parent is the session
  Progress, Hidden,  \* an event the filter lets through, and one it leaves out
  MAX_BUFFERED,      \* events kept for a subscription that is being set up
  MaxEvents,         \* bound: length of the history, but for registrations
  MaxDrops,          \* bound: connections lost and sessions restarted
  MaxCrashes         \* bound: crashes of the broker

ASSUME EventFeedAssumption ==
  /\ Progress \notin Tasks /\ Hidden \notin Tasks /\ Progress # Hidden
  /\ MAX_BUFFERED \in Nat /\ MaxEvents \in Nat /\ MaxDrops \in Nat /\ MaxCrashes \in Nat

Events == Tasks \union {Progress, Hidden}
NoCursor == -1

VARIABLES
  \* the store
  history, confirmed, open, intact,
  running,   \* the broker's process runs; it is read-only when the store is not open
  \* the connection and its subscription
  link,      \* "off", "greeted", "registered", "reading", "replying" or "on"
  from,      \* the cursor the parent subscribes from
  cutoff,    \* subscriptionCutoff
  buffer,    \* subscriptionBuffer
  replay,    \* replayEvents
  \* the parent's session
  inbox,     \* events sent and not yet handled
  asking,    \* task.get for the first of them: "no", "asked" or "answered"
  cursor,    \* #cursor
  delivered, \* #delivered
  saved,     \* cursor and delivered as the session's entries give them back
  \* history variables
  told,      \* how often the session was told of the end of each task
  since,     \* where a parent without a cursor began to listen
  lost,      \* a start found less than what was confirmed
  drops, crashes

store == <<history, confirmed, open, intact>>
subscription == <<link, from, cutoff, buffer, replay>>
session == <<inbox, asking, cursor, delivered, saved, told>>
feedVars == <<store, running, subscription, session, since, lost, drops, crashes>>

Log == INSTANCE DurableLog

MaxOf(a, b) == IF a >= b THEN a ELSE b
MinOf(a, b) == IF a <= b THEN a ELSE b

-----------------------------------------------------------------------------
(* The broker *)

\* A subscription has no filter until its replay was read.
Matches(event) == link = "reading" \/ event # Hidden

\* What a parent that is connected has received of events, in order.
Numbered(seqs) == [i \in DOMAIN seqs |-> [seq |-> seqs[i], event |-> history[seqs[i]]]]

\* The connection is gone, and with it what was on its way.
Disconnected ==
  /\ link' = "off" /\ buffer' = <<>> /\ replay' = <<>>
  /\ inbox' = <<>> /\ asking' = "no"
  /\ UNCHANGED <<from, cutoff>>

\* An event is stored, and the listener hands it to the subscription: to its buffer
\* until the replay was sent, and then to the parent.  A buffer that is full ends the
\* connection.
AppendEvent(event) ==
  /\ open /\ Len(history) < MaxEvents
  /\ history' = Append(history, event) /\ Log!Accept
  /\ CASE link \in {"reading", "replying"} /\ Matches(event) ->
            IF Len(buffer) < MAX_BUFFERED
            THEN /\ buffer' = Append(buffer, Len(history'))
                 /\ UNCHANGED <<link, from, cutoff, replay, inbox, asking>>
            ELSE Disconnected
       [] link = "on" /\ Matches(event) ->
            /\ inbox' = Append(inbox, [seq |-> Len(history'), event |-> event])
            /\ UNCHANGED <<subscription, asking>>
       [] OTHER -> UNCHANGED <<subscription, inbox, asking>>
  /\ UNCHANGED <<running, cursor, delivered, saved, told, since, lost, drops, crashes>>

\* The store becomes read-only.
StopStore ==
  /\ running /\ Log!Stop
  /\ UNCHANGED <<running, subscription, session, since, lost, drops, crashes>>

Crash ==
  /\ running /\ crashes < MaxCrashes /\ crashes' = crashes + 1
  /\ running' = FALSE /\ open' = FALSE
  /\ Disconnected
  /\ UNCHANGED <<history, confirmed, intact, cursor, delivered, saved, told, since, lost, drops>>

\* Somebody else changes the files.
Interfere ==
  /\ Log!Interfere
  /\ UNCHANGED <<running, subscription, session, since, lost, drops, crashes>>

\* Another process opens the store: an event that was served before and not confirmed
\* may be gone, and one may appear that the last process did not live to serve.  Confirmed
\* ones may be gone where somebody else changed the files.
Start ==
  /\ ~running /\ running' = TRUE
  /\ \/ \E k \in (IF intact THEN confirmed ELSE 0)..Len(history) :
            history' = SubSeq(history, 1, k)
     \/ \E event \in Events : Len(history) < MaxEvents /\ history' = Append(history, event)
  /\ Log!Serve
  /\ lost' = (lost \/ Len(history') < confirmed)
  /\ UNCHANGED <<subscription, session, since, drops, crashes>>

-----------------------------------------------------------------------------
(* events.subscribe, which takes the mutation queue's turn from Subscribe to Reply *)

FaultyConnect ==
  /\ running /\ link = "off" /\ link' = "greeted"
  /\ from' = Len(history)
  /\ since' = IF cursor = NoCursor THEN from' ELSE since
  /\ UNCHANGED <<store, running, cutoff, buffer, replay, session, lost, drops, crashes>>

\* hello tells the head of the log; subscriptionCursor picks the cursor.  A parent that
\* has none begins at the head.
Connect ==
  /\ running /\ link = "off" /\ link' = "greeted"
  /\ from' = MinOf(IF cursor = NoCursor THEN Len(history) ELSE cursor, Len(history))
  /\ since' = IF cursor = NoCursor THEN from' ELSE since
  /\ UNCHANGED <<store, running, cutoff, buffer, replay, session, lost, drops, crashes>>

\* agent.register_adopted or agent.register_managed: an event that the filter leaves out.
Register ==
  /\ link = "greeted" /\ open /\ link' = "registered"
  /\ history' = Append(history, Hidden) /\ Log!Accept
  /\ UNCHANGED <<running, from, cutoff, buffer, replay, session, since, lost, drops, crashes>>

\* The store is read-only: the parent closes the connection, and tries again later.
Refuse ==
  /\ link = "greeted" /\ ~open /\ Disconnected
  /\ UNCHANGED <<store, running, cursor, delivered, saved, told, since, lost, drops, crashes>>

Subscribe ==
  /\ link = "registered" /\ from <= Len(history)
  /\ link' = "reading" /\ cutoff' = Len(history) /\ buffer' = <<>>
  /\ UNCHANGED <<store, running, from, replay, session, since, lost, drops, crashes>>

\* The seqs after one and up to another that the filter lets through.
Filtered(after, last) ==
  LET upTo[seq \in after..last] ==
        IF seq = after THEN <<>>
        ELSE IF history[seq] # Hidden THEN Append(upTo[seq - 1], seq)
        ELSE upTo[seq - 1]
  IN  upTo[last]

\* The events from the cursor to the head, as the filter leaves them.
FinishRead ==
  /\ link = "reading" /\ link' = "replying"
  /\ replay' = Filtered(from, cutoff)
  /\ UNCHANGED <<store, running, from, cutoff, buffer, session, since, lost, drops, crashes>>

\* The read met an append: the store is read-only, and the parent starts again.
FailRead ==
  /\ link = "reading" /\ drops < MaxDrops /\ drops' = drops + 1
  /\ Log!Stop /\ Disconnected
  /\ UNCHANGED <<running, cursor, delivered, saved, told, since, lost, crashes>>

FaultyReply ==
  /\ link = "replying" /\ link' = "on"
  /\ inbox' = Numbered(replay) /\ buffer' = <<>> /\ replay' = <<>>
  /\ UNCHANGED <<store, running, from, cutoff, asking, cursor, delivered, saved, told,
                 since, lost, drops, crashes>>

\* The response, the replay, what was buffered meanwhile, and from now on every event.
Reply ==
  /\ link = "replying" /\ link' = "on"
  /\ inbox' = Numbered(replay \o buffer) /\ buffer' = <<>> /\ replay' = <<>>
  /\ UNCHANGED <<store, running, from, cutoff, asking, cursor, delivered, saved, told,
                 since, lost, drops, crashes>>

\* The connection fails, or one of its requests is not answered in time.
Drop ==
  /\ link # "off" /\ drops < MaxDrops /\ drops' = drops + 1
  /\ Disconnected
  /\ UNCHANGED <<store, running, cursor, delivered, saved, told, since, lost, crashes>>

-----------------------------------------------------------------------------
(* The parent *)

\* handle() does nothing with an event its cursor has passed.
Passed(seq) == cursor # NoCursor /\ seq <= cursor

\* #advance: the entry is written to the session, unless that fails.
Advance(seq, keys) ==
  /\ cursor' = MaxOf(cursor, seq)
  /\ saved' \in {saved, [cursor |-> cursor', delivered |-> keys]}

HandleNext == inbox # <<>> /\ asking = "no"

Ignore ==
  /\ HandleNext /\ Passed(Head(inbox).seq)
  /\ inbox' = Tail(inbox)
  /\ UNCHANGED <<store, running, subscription, asking, cursor, delivered, saved, told,
                 since, lost, drops, crashes>>

\* An event that ends nothing.
PassOver ==
  /\ HandleNext /\ ~Passed(Head(inbox).seq) /\ Head(inbox).event \notin Tasks
  /\ inbox' = Tail(inbox) /\ Advance(Head(inbox).seq, saved.delivered)
  /\ UNCHANGED <<store, running, subscription, asking, delivered, told,
                 since, lost, drops, crashes>>

FaultyAsk ==
  /\ HandleNext /\ ~Passed(Head(inbox).seq) /\ Head(inbox).event \in Tasks
  /\ asking' = "asked" /\ Advance(Head(inbox).seq, saved.delivered)
  /\ UNCHANGED <<store, running, subscription, inbox, delivered, told,
                 since, lost, drops, crashes>>

Ask ==
  /\ HandleNext /\ ~Passed(Head(inbox).seq) /\ Head(inbox).event \in Tasks
  /\ asking' = "asked"
  /\ UNCHANGED <<store, running, subscription, inbox, cursor, delivered, saved, told,
                 since, lost, drops, crashes>>

\* The broker answers when the mutation queue is free: the task has ended.
Answer ==
  /\ asking = "asked" /\ link = "on" /\ asking' = "answered"
  /\ UNCHANGED <<store, running, subscription, inbox, cursor, delivered, saved, told,
                 since, lost, drops, crashes>>

\* The session is told, and the message, which also holds the cursor and the key, is
\* one of its entries.
Tell ==
  /\ asking = "answered" /\ asking' = "no" /\ inbox' = Tail(inbox)
  /\ LET task == Head(inbox).event  seq == Head(inbox).seq
     IN  /\ task \notin delivered
         /\ told' = [told EXCEPT ![task] = @ + 1]
         /\ delivered' = delivered \union {task}
         /\ cursor' = MaxOf(cursor, seq)
         /\ saved' = [cursor |-> MaxOf(saved.cursor, seq),
                      delivered |-> saved.delivered \union {task}]
  /\ UNCHANGED <<store, running, subscription, since, lost, drops, crashes>>

\* It was told before.
TellNoMore ==
  /\ asking = "answered" /\ asking' = "no" /\ inbox' = Tail(inbox)
  /\ Head(inbox).event \in delivered
  /\ Advance(Head(inbox).seq, saved.delivered \union {Head(inbox).event})
  /\ UNCHANGED <<store, running, subscription, delivered, told, since, lost, drops, crashes>>

FaultyRestart ==
  /\ drops < MaxDrops /\ drops' = drops + 1
  /\ cursor' = saved.cursor /\ delivered' = {}
  /\ Disconnected
  /\ UNCHANGED <<store, running, saved, told, since, lost, crashes>>

\* The session is reloaded: restore() reads its entries.
Restart ==
  /\ drops < MaxDrops /\ drops' = drops + 1
  /\ cursor' = saved.cursor /\ delivered' = saved.delivered
  /\ Disconnected
  /\ UNCHANGED <<store, running, saved, told, since, lost, crashes>>

-----------------------------------------------------------------------------
FeedInit ==
  /\ Log!Init /\ running = FALSE
  /\ link = "off" /\ from = 0 /\ cutoff = 0 /\ buffer = <<>> /\ replay = <<>>
  /\ inbox = <<>> /\ asking = "no" /\ cursor = NoCursor /\ delivered = {}
  /\ saved = [cursor |-> NoCursor, delivered |-> {}]
  /\ told = [task \in Tasks |-> 0] /\ since = 0 /\ lost = FALSE
  /\ drops = 0 /\ crashes = 0

Broker == \/ \E event \in Events : AppendEvent(event)
          \/ StopStore \/ Crash \/ Interfere \/ Start
Subscription == \/ Connect \/ Register \/ Refuse
                \/ Subscribe \/ FinishRead \/ FailRead \/ Reply \/ Drop
Parent == Ignore \/ PassOver \/ Ask \/ Answer \/ Tell \/ TellNoMore \/ Restart

FeedNext == Broker \/ Subscription \/ Parent

\* The parent reconnects on a timer and starts a broker that is gone; the broker takes
\* its requests in turn; the parent's own queue always moves on.  Nothing obliges the
\* broker to store an event, a connection to fail, or a read-only broker to end.
FeedFairness ==
  /\ WF_feedVars(Start) /\ WF_feedVars(Connect)
  /\ WF_feedVars(Register \/ Refuse)
  /\ WF_feedVars(Subscribe) /\ WF_feedVars(FinishRead) /\ WF_feedVars(Reply)
  /\ WF_feedVars(Ignore \/ PassOver \/ Ask \/ Tell \/ TellNoMore) /\ WF_feedVars(Answer)

FeedSpec == FeedInit /\ [][FeedNext]_feedVars /\ FeedFairness

-----------------------------------------------------------------------------
\* Every variable has values of its type.
FeedTypeOK ==
  /\ history \in Seq(Events) /\ confirmed \in Nat /\ open \in BOOLEAN /\ intact \in BOOLEAN
  /\ running \in BOOLEAN
  /\ link \in {"off", "greeted", "registered", "reading", "replying", "on"}
  /\ from \in Nat /\ cutoff \in Nat /\ buffer \in Seq(Nat) /\ replay \in Seq(Nat)
  /\ inbox \in Seq([seq: Nat, event: Events]) /\ asking \in {"no", "asked", "answered"}
  /\ cursor \in Nat \union {NoCursor} /\ delivered \subseteq Tasks
  /\ saved \in [cursor: Nat \union {NoCursor}, delivered: SUBSET Tasks]
  /\ told \in [Tasks -> Nat] /\ since \in Nat /\ lost \in BOOLEAN
  /\ drops \in Nat /\ crashes \in Nat

\* A parent that is subscribed has on its way every event it asked for and has not
\* passed, once and in order: the replay, the buffer and the events sent as they are
\* stored fit together, whatever was stored while the subscription was being set up
\* (events.subscribe).
FeedComplete ==
  link = "on" =>
    /\ \A i \in DOMAIN inbox : inbox[i].seq \in DOMAIN history
                               /\ inbox[i].event = history[inbox[i].seq]
    /\ \A i, j \in DOMAIN inbox : i < j => inbox[i].seq < inbox[j].seq
    /\ \A seq \in DOMAIN history :
         history[seq] # Hidden /\ seq > MaxOf(from, cursor)
           => \E i \in DOMAIN inbox : inbox[i].seq = seq

\* The cursor never passes the end of a task that the session was not told of, from
\* where the parent began to listen, in whatever order connections, the broker and the
\* session failed: there is no way to go back to it (TerminalResultDelivery).  Unless the
\* log was cut back by somebody else, and what is stored next is taken for what was told.
NonePassedOver ==
  ~lost => \A seq \in DOMAIN history :
             history[seq] \in Tasks /\ since < seq /\ seq <= cursor => told[history[seq]] > 0

\* No end is told twice, although its event may be replayed, and a second event may say
\* the same (deliveryKey, restore).
ToldOnce == \A task \in Tasks : told[task] <= 1

\* The broker runs on with a store that is read-only, and refuses to register the parent.
ShutOut == running /\ ~open /\ link \in {"off", "greeted"}

\* The end of a task after the parent's cursor is told in the end, once it is confirmed, if
\* the cursor outlives the session and nobody cuts the log back; unless the parent is shut
\* out for good: it lost its connection to a broker that is read-only and that nobody ends.
EndsTold ==
  \/ <>[]ShutOut
  \/ \A task \in Tasks :
       (/\ saved.cursor # NoCursor
        /\ \E seq \in 1..confirmed : history[seq] = task /\ seq > cursor)
         ~> (told[task] > 0 \/ lost)

=============================================================================
