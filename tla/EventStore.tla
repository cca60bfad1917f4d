------------------------------ MODULE EventStore ------------------------------
(***************************************************************************)
(* The event store: the append-only event log, the snapshot beside it, and *)
(* the state the broker keeps in memory (src/state/event-store.ts,         *)
(* src/state/snapshot-store.ts).  Appends are serialised with each other,  *)
(* but not with a read of the file, and those of Herdr's expiry timers     *)
(* do not take the broker's mutation queue.                                *)
(*                                                                         *)
(* An event is a number that no other event has, which also stands for its *)
(* hash; the state is the sequence of the events it was reduced from.  A   *)
(* line of the log is the event it holds, or Damaged.  The lines of one    *)
(* file are only ever appended, cut back or damaged, so an intact line     *)
(* always chains to the line before it.  The content of a file stands for  *)
(* its size and times.                                                     *)
(*                                                                         *)
(* A definition named Faulty... is a plausible bug in the definition after *)
(* it, against which the properties are tested; nothing here uses it.      *)
(***************************************************************************)
EXTENDS Integers, Sequences, FiniteSets

CONSTANTS
  MAX_RETAINED_EVENTS, \* events kept in memory
  MaxEvents,           \* bound: events the callers try to append
  MaxCrashes,          \* bound: crashes of the process or of the machine
  MaxFaults            \* bound: changes to the files made by somebody else

ASSUME EventStoreAssumption ==
  /\ MAX_RETAINED_EVENTS \in Nat \ {0}
  /\ MaxEvents \in Nat /\ MaxCrashes \in Nat /\ MaxFaults \in Nat

Event == Nat \ {0}
Damaged == 0                       \* a line that does not verify
Line == Event \union {Damaged}
NoFile == [inode |-> 0, lines |-> <<>>, torn |-> FALSE]
Unverifiable == <<Damaged>>        \* a snapshot that does not authenticate

VARIABLES
  \* on disk
  log,           \* inode, complete lines, and whether an incomplete line follows
  synced,        \* how many of its lines an operating-system crash cannot lose
  snapshot,      \* the state in the snapshot file; <<>> when there is none
  snapshotSynced,\* the one an operating-system crash goes back to
  \* in memory
  phase,         \* "down", "opening" or "open"
  readOnly,
  state,         \* #state
  lastSeq,       \* #lastSeq; #lastHash is the hash of that event
  events,        \* #events: the retained events, each with its seq
  identity,      \* #fileIdentity: the file as the store last saw it
  append,        \* the append at the head of #appendTail
  queue,         \* what holds the broker's mutation queue
  saving,        \* the state a snapshot is being written from
  read,          \* the read of the file in progress
  \* history variables
  issued,        \* events issued
  history,       \* what was served last
  confirmed,     \* length of the history at the last successful append
  causes,        \* why the store may have become read-only
  crashes, faults

disk == <<log, synced, snapshot, snapshotSynced>>
memory == <<phase, readOnly, state, lastSeq, events, identity>>
activity == <<append, queue, saving, read>>
witness == <<issued, history, confirmed, causes, crashes, faults>>
storeVars == <<disk, memory, activity, witness>>

NoAppend == [stage |-> "none", by |-> "none", event |-> 0, expected |-> NoFile]
NoRead == [stage |-> "none", from |-> 0, expected |-> NoFile, lines |-> <<>>]

\* The cursor that asks readEventsFrom for an audit of the whole file.
FullAudit == MaxEvents + 1

-----------------------------------------------------------------------------
(* Opening *)

Min(S) == CHOOSE x \in S : \A y \in S : x <= y
Max2(a, b) == IF a >= b THEN a ELSE b

\* The last n elements of a sequence.
LastOf(s, n) == SubSeq(s, Max2(1, Len(s) - n + 1), Len(s))

\* The events of lines first..last, each with its position.
Numbered(lines, first, last) ==
  [i \in 1..(IF last < first THEN 0 ELSE last - first + 1) |->
     [seq |-> first + i - 1, event |-> lines[first + i - 1]]]

\* How many lines open() accepts: it does not verify those before the snapshot's
\* cursor, and stops at the first line that does not verify from there on, or at the
\* cursor's line when that is another event.
Accepted(lines, snap) ==
  LET start == Max2(1, Len(snap))
      refused == {i \in start..Len(lines) : lines[i] = Damaged}
      matching == IF refused = {} THEN Len(lines) ELSE Min(refused) - 1
  IN  IF snap # <<>> /\ matching >= Len(snap) /\ lines[Len(snap)] # snap[Len(snap)]
      THEN Len(snap) ELSE matching

FaultyLoadedWhole(file, snap) ==
  /\ ~file.torn
  /\ Accepted(file.lines, snap) = Len(file.lines)
  /\ snap # <<>> => Len(file.lines) = Len(snap)

\* It reached the end of the file, and the snapshot's cursor is in it.
LoadedWhole(file, snap) ==
  /\ ~file.torn
  /\ Accepted(file.lines, snap) = Len(file.lines)
  /\ Len(file.lines) >= Len(snap)
  /\ snap # <<>> => file.lines[Len(snap)] = snap[Len(snap)]

FaultyLoadedState(lines, snap) ==
  snap \o SubSeq(lines, Max2(1, Len(snap)), Accepted(lines, snap))

\* The state and the position after the accepted lines.
LoadedState(lines, snap) ==
  snap \o SubSeq(lines, Len(snap) + 1, Accepted(lines, snap))

LoadedSeq(lines, snap) ==
  LET n == Accepted(lines, snap) IN IF n >= Max2(1, Len(snap)) THEN n ELSE 0

\* A snapshot that does not verify is left aside.
Usable(snap) == IF snap = Unverifiable THEN <<>> ELSE snap

\* What a caller may rely on from now on.
Serving(served) ==
  /\ history' = served
  /\ confirmed' = IF Len(served) < confirmed THEN Len(served) ELSE confirmed

\* start() of the broker reads the snapshot, and the store opens the log up to its end:
\* a snapshot or a line that does not verify leaves it read-only.
BeginOpen ==
  /\ phase = "down" /\ log # NoFile
  /\ LET snap == Usable(snapshot)
     IN  /\ state' = LoadedState(log.lines, snap)
         /\ lastSeq' = LoadedSeq(log.lines, snap)
         /\ events' = LastOf(Numbered(log.lines, Max2(1, Len(snap)), lastSeq'),
                             MAX_RETAINED_EVENTS)
         /\ readOnly' = (snapshot = Unverifiable \/ ~LoadedWhole(log, snap))
         /\ identity' = IF LoadedWhole(log, snap) THEN log ELSE NoFile
  /\ phase' = "opening"
  /\ UNCHANGED <<disk, activity, witness>>

\* It then compares the file with the one it started to read.
FinishOpen ==
  /\ phase = "opening" /\ phase' = "open"
  /\ IF identity \in {log, NoFile}
     THEN UNCHANGED <<readOnly, identity>>
     ELSE readOnly' = TRUE /\ identity' = NoFile
  /\ IF readOnly' THEN UNCHANGED <<history, confirmed>> ELSE Serving(state)
  /\ UNCHANGED <<disk, state, lastSeq, events, activity, issued, causes, crashes, faults>>

\* A missing log is created, unless a snapshot says that there was one.
CreateLog ==
  /\ phase = "down" /\ log = NoFile /\ phase' = "open"
  /\ state' = Usable(snapshot) /\ lastSeq' = 0 /\ events' = <<>>
  /\ readOnly' = (snapshot # <<>>)
  /\ IF Usable(snapshot) = <<>>
     THEN log' = [NoFile EXCEPT !.inode = faults + 1] /\ identity' = log'
     ELSE log' = log /\ identity' = NoFile
  /\ IF readOnly' THEN UNCHANGED <<history, confirmed>> ELSE Serving(<<>>)
  /\ UNCHANGED <<synced, snapshot, snapshotSynced, activity, issued, causes, crashes, faults>>

-----------------------------------------------------------------------------
(* Appending *)

\* An append that cannot finish leaves the store read-only.
GiveUp ==
  /\ readOnly' = TRUE /\ append' = NoAppend
  /\ queue' = IF append.by = "request" THEN "idle" ELSE queue
  /\ UNCHANGED <<phase, state, lastSeq, events, identity, saving, read,
                 issued, history, confirmed, crashes, faults>>

\* An event that verifies and that the reducer accepts; the file is the one last seen.
\* The caller holds the mutation queue, or is an expiry timer of Herdr's service.
BeginAppend(by) ==
  /\ phase = "open" /\ ~readOnly /\ append = NoAppend /\ issued < MaxEvents
  /\ by = "request" => queue = "idle"
  /\ log = identity
  /\ issued' = issued + 1
  /\ append' = [stage |-> "opened", by |-> by, event |-> issued', expected |-> identity]
  /\ queue' = IF by = "request" THEN "append" ELSE queue
  /\ UNCHANGED <<disk, memory, saving, read, history, confirmed, causes, crashes, faults>>

\* The file is not the one last seen.
RefuseAppend ==
  /\ phase = "open" /\ ~readOnly /\ append = NoAppend /\ log # identity
  /\ readOnly' = TRUE
  /\ UNCHANGED <<disk, phase, state, lastSeq, events, identity, activity, witness>>

\* The line reaches the file that was opened, which the path may no longer name.
WriteAppend ==
  /\ append.stage = "opened"
  /\ append' = [append EXCEPT !.stage = "written"]
  /\ log' = IF log.inode = append.expected.inode
            THEN [log EXCEPT !.lines = Append(@, append.event)] ELSE log
  /\ causes' = IF read.stage \in {"started", "scanned"} THEN causes \union {"race"} ELSE causes
  /\ UNCHANGED <<synced, snapshot, snapshotSynced, memory, queue, saving, read,
                 issued, history, confirmed, crashes, faults>>

\* The write fails, with a part of the line written or none.
FailWrite ==
  /\ append.stage = "opened" /\ GiveUp
  /\ \/ UNCHANGED log
     \/ log.inode = append.expected.inode /\ log' = [log EXCEPT !.torn = TRUE]
  /\ causes' = causes \union {"failure"}
  /\ UNCHANGED <<synced, snapshot, snapshotSynced>>

FaultySyncAppend ==
  /\ append.stage = "written"
  /\ append' = [append EXCEPT !.stage = "synced"]
  /\ UNCHANGED <<disk, memory, queue, saving, read, witness>>

SyncAppend ==
  /\ append.stage = "written"
  /\ append' = [append EXCEPT !.stage = "synced"]
  /\ synced' = IF log.inode = append.expected.inode THEN Len(log.lines) ELSE synced
  /\ UNCHANGED <<log, snapshot, snapshotSynced, memory, queue, saving, read, witness>>

FailSync ==
  /\ append.stage = "written" /\ GiveUp
  /\ causes' = causes \union {"failure"}
  /\ UNCHANGED disk

\* The file grew by the line and by nothing else.
GrewByOne(expected) ==
  log.inode = expected.inode /\ Len(log.lines) = Len(expected.lines) + 1 /\ ~log.torn

\* The event enters the memory, and its caller learns that it is stored.
CommitAppend ==
  /\ append.stage = "synced" /\ GrewByOne(append.expected)
  /\ state' = Append(state, append.event) /\ lastSeq' = lastSeq + 1
  /\ events' = LastOf(Append(events, [seq |-> lastSeq', event |-> append.event]),
                      MAX_RETAINED_EVENTS)
  /\ identity' = log
  /\ history' = state' /\ confirmed' = Len(state')
  /\ append' = NoAppend
  /\ queue' = IF append.by = "request" THEN "commit" ELSE queue
  /\ UNCHANGED <<disk, phase, readOnly, saving, read, issued, causes, crashes, faults>>

MissAppend ==
  /\ append.stage = "synced" /\ ~GrewByOne(append.expected) /\ GiveUp
  /\ UNCHANGED <<disk, causes>>

-----------------------------------------------------------------------------
(* The snapshot, which a request writes after its append and before its reply *)

\* Most heartbeats are not followed by a snapshot.
SkipSave ==
  /\ queue = "commit" /\ queue' = "idle"
  /\ UNCHANGED <<disk, memory, append, saving, read, witness>>

BeginSave ==
  /\ queue = "commit" /\ queue' = "save" /\ saving' = state
  /\ UNCHANGED <<disk, memory, append, read, witness>>

\* The new file takes the name of the old one.
RenameSave ==
  /\ queue = "save" /\ queue' = "renamed"
  /\ snapshot' = saving
  /\ UNCHANGED <<log, synced, snapshotSynced, memory, append, saving, read, witness>>

SyncSave ==
  /\ queue = "renamed" /\ queue' = "idle"
  /\ snapshotSynced' = snapshot /\ saving' = <<>>
  /\ UNCHANGED <<log, synced, snapshot, memory, append, read, witness>>

\* A snapshot that cannot be written is only noted.
FailSave ==
  /\ queue \in {"save", "renamed"} /\ queue' = "idle" /\ saving' = <<>>
  /\ UNCHANGED <<disk, memory, append, read, witness>>

-----------------------------------------------------------------------------
(* Reading the events after a cursor: events.subscribe and events.verify *)

InMemory(from) ==
  /\ from # FullAudit
  /\ from >= lastSeq \/ (events # <<>> /\ from >= events[1].seq - 1)

\* The retained events after the cursor.
ReadMemory(from) ==
  /\ phase = "open" /\ queue = "idle" /\ InMemory(from)
  /\ queue' = "reply"
  /\ read' = [stage |-> "answered", from |-> from, expected |-> NoFile,
              lines |-> [i \in 1..Max2(0, lastSeq - from) |->
                           events[Len(events) - (lastSeq - from) + i].event]]
  /\ UNCHANGED <<disk, memory, append, saving, witness>>

\* The file must be the one last seen; without one, the read fails at once.
BeginRead(from) ==
  /\ phase = "open" /\ queue = "idle" /\ ~InMemory(from) /\ identity # NoFile
  /\ queue' = "read"
  /\ read' = [stage |-> "started", from |-> from, expected |-> identity, lines |-> <<>>]
  /\ causes' = IF append.stage \in {"written", "synced"}
               THEN causes \union {"race"} ELSE causes
  /\ UNCHANGED <<disk, memory, append, saving, issued, history, confirmed, crashes, faults>>

\* The lines after the cursor, or every line in a full audit, verify.
Verifies(file, from) ==
  /\ ~file.torn
  /\ \A i \in DOMAIN file.lines :
       i > (IF from = FullAudit THEN 0 ELSE from) => file.lines[i] # Damaged

ScanFile ==
  /\ read.stage = "started" /\ log = read.expected /\ Verifies(log, read.from)
  /\ read' = [read EXCEPT !.stage = "scanned", !.lines = log.lines]
  /\ UNCHANGED <<disk, memory, append, queue, saving, witness>>

\* A read that finds anything else leaves the store read-only.
AbandonRead ==
  /\ readOnly' = TRUE /\ queue' = "idle" /\ read' = NoRead
  /\ UNCHANGED <<disk, phase, state, lastSeq, events, identity, append, saving, witness>>

FailScan ==
  /\ read.stage = "started" /\ (log # read.expected \/ ~Verifies(log, read.from))
  /\ AbandonRead

\* Neither the file nor the position of the store moved during the read.
Unmoved ==
  /\ log = read.expected /\ Len(read.lines) = lastSeq
  /\ lastSeq > 0 => read.lines[lastSeq] = events[Len(events)].event

CloseRead ==
  /\ read.stage = "scanned" /\ Unmoved
  /\ queue' = "reply"
  /\ read' = [read EXCEPT !.stage = "answered", !.expected = NoFile,
                !.lines = SubSeq(@, read.from + 1, Len(@))]
  /\ UNCHANGED <<disk, memory, append, saving, witness>>

FailClose == read.stage = "scanned" /\ ~Unmoved /\ AbandonRead

\* The request replies and leaves the mutation queue.
Reply ==
  /\ queue = "reply" /\ queue' = "idle" /\ read' = NoRead
  /\ UNCHANGED <<disk, memory, append, saving, witness>>

-----------------------------------------------------------------------------
(* The environment *)

\* The process ends, or the operating system with it.  The lines that were not
\* flushed may be lost, the last of them in part; so may the snapshot's new name.
Crash ==
  /\ phase # "down" /\ crashes < MaxCrashes
  /\ crashes' = crashes + 1
  /\ \E kept \in synced..Len(log.lines), torn \in BOOLEAN :
       /\ torn => kept < Len(log.lines) \/ log.torn \/ append.stage = "opened"
       /\ log' = [log EXCEPT !.lines = SubSeq(@, 1, kept), !.torn = torn]
       /\ causes' = IF torn THEN causes \union {"torn"} ELSE causes
  /\ snapshot' \in {snapshot, snapshotSynced}
  /\ phase' = "down" /\ readOnly' = FALSE /\ state' = <<>> /\ lastSeq' = 0
  /\ events' = <<>> /\ identity' = NoFile
  /\ append' = NoAppend /\ queue' = "idle" /\ saving' = <<>> /\ read' = NoRead
  /\ UNCHANGED <<synced, snapshotSynced, issued, history, confirmed, faults>>

\* Somebody else changes the files.
Interfere ==
  /\ faults < MaxFaults /\ faults' = faults + 1
  /\ causes' = causes \union {"interference"}
  /\ UNCHANGED <<memory, activity, issued, history, confirmed, crashes>>

\* An older copy of the log takes its place.
RestoreLog ==
  /\ Interfere
  /\ \E k \in 0..(Len(log.lines) - 1) :
       /\ log' = [inode |-> faults + 2, lines |-> SubSeq(log.lines, 1, k), torn |-> FALSE]
       /\ synced' = k
  /\ UNCHANGED <<snapshot, snapshotSynced>>

RemoveLog ==
  /\ Interfere /\ log # NoFile /\ log' = NoFile /\ synced' = 0
  /\ UNCHANGED <<snapshot, snapshotSynced>>

DamageLog ==
  /\ Interfere
  /\ \E i \in DOMAIN log.lines : log.lines[i] # Damaged
                              /\ log' = [log EXCEPT !.lines[i] = Damaged]
  /\ UNCHANGED <<synced, snapshot, snapshotSynced>>

DamageSnapshot ==
  /\ Interfere /\ snapshot # <<>>
  /\ snapshot' = Unverifiable /\ snapshotSynced' = Unverifiable
  /\ UNCHANGED <<log, synced>>

-----------------------------------------------------------------------------
StoreInit ==
  /\ log = NoFile /\ synced = 0 /\ snapshot = <<>> /\ snapshotSynced = <<>>
  /\ phase = "down" /\ readOnly = FALSE /\ state = <<>> /\ lastSeq = 0
  /\ events = <<>> /\ identity = NoFile
  /\ append = NoAppend /\ queue = "idle" /\ saving = <<>> /\ read = NoRead
  /\ issued = 0 /\ history = <<>> /\ confirmed = 0 /\ causes = {}
  /\ crashes = 0 /\ faults = 0

Open == BeginOpen \/ FinishOpen \/ CreateLog
AppendStep == \/ BeginAppend("request") \/ BeginAppend("timer") \/ RefuseAppend
              \/ WriteAppend \/ FailWrite \/ SyncAppend \/ FailSync
              \/ CommitAppend \/ MissAppend
Save == SkipSave \/ BeginSave \/ RenameSave \/ SyncSave \/ FailSave
Read == \/ \E from \in 0..Len(state) : ReadMemory(from) \/ BeginRead(from)
        \/ BeginRead(FullAudit)
        \/ ScanFile \/ FailScan \/ CloseRead \/ FailClose \/ Reply
Environment == Crash \/ RestoreLog \/ RemoveLog \/ DamageLog \/ DamageSnapshot

StoreNext == Open \/ AppendStep \/ Save \/ Read \/ Environment

StoreSpec == StoreInit /\ [][StoreNext]_storeVars

-----------------------------------------------------------------------------
\* Every variable has values of its type.
StoreTypeOK ==
  /\ log \in [inode: Nat, lines: Seq(Line), torn: BOOLEAN] /\ synced \in Nat
  /\ snapshot \in Seq(Line) /\ snapshotSynced \in Seq(Line)
  /\ phase \in {"down", "opening", "open"} /\ readOnly \in BOOLEAN
  /\ state \in Seq(Line) /\ lastSeq \in Nat
  /\ events \in Seq([seq: Nat, event: Line])
  /\ identity \in [inode: Nat, lines: Seq(Line), torn: BOOLEAN]
  /\ append \in [stage: {"none", "opened", "written", "synced"},
                 by: {"none", "request", "timer"}, event: Nat,
                 expected: [inode: Nat, lines: Seq(Line), torn: BOOLEAN]]
  /\ queue \in {"idle", "append", "commit", "save", "renamed", "read", "reply"}
  /\ saving \in Seq(Line)
  /\ read \in [stage: {"none", "started", "scanned", "answered"}, from: Nat,
               expected: [inode: Nat, lines: Seq(Line), torn: BOOLEAN], lines: Seq(Line)]
  /\ issued \in Nat /\ history \in Seq(Line) /\ confirmed \in Nat
  /\ causes \subseteq {"interference", "failure", "torn", "race"}
  /\ crashes \in Nat /\ faults \in Nat

PrefixOf(s, t) == Len(s) <= Len(t) /\ SubSeq(t, 1, Len(s)) = s

\* Every event a caller was told is stored is in the log, where no crash can lose it
\* (append returns only after sync, and nothing rewrites the log).
AcknowledgedStored ==
  /\ confirmed <= synced /\ synced <= Len(log.lines) /\ confirmed <= Len(history)
  /\ SubSeq(log.lines, 1, confirmed) = SubSeq(history, 1, confirmed)

\* No snapshot, written or being written, is ahead of what the log has stored: the
\* store would refuse the log at the next start.
SnapshotBehindLog ==
  \A snap \in {snapshot, snapshotSynced, saving} :
    PrefixOf(snap, SubSeq(history, 1, confirmed))

\* A store that accepts events has in memory what is on disk, but for the line of the
\* append in progress.
MemoryMatchesLog ==
  phase = "open" /\ ~readOnly =>
    /\ Len(state) = lastSeq
    /\ state = IF append.stage \in {"written", "synced"}
               THEN SubSeq(log.lines, 1, Len(log.lines) - 1) ELSE log.lines

\* As long as nobody else changes the files.
StoreConsistent ==
  faults = 0 => AcknowledgedStored /\ SnapshotBehindLog /\ MemoryMatchesLog

\* The store becomes read-only only if somebody changed its files, a write failed, a
\* crash left an incomplete line, or a read of the file met an append: a restart, at
\* whatever step the process ended, is never the reason.
RecoveryWarranted == readOnly => causes # {}

\* The store keeps the promise of DurableLog.
Promise == INSTANCE DurableLog
  WITH open <- phase = "open" /\ ~readOnly, intact <- faults = 0

KeepsPromise == Promise!Spec

=============================================================================
