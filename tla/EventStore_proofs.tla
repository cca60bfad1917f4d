-------------------------- MODULE EventStore_proofs --------------------------
(***************************************************************************)
(* What was confirmed is stored, and the store becomes read-only only for  *)
(* a reason, for any number of events, crashes and reads.                  *)
(***************************************************************************)
EXTENDS EventStore, SequenceTheorems, TLAPS

-----------------------------------------------------------------------------
(* The invariant.  As long as nobody else changes the files, every line verifies. *)

File == [inode: Nat, lines: Seq(Event), torn: BOOLEAN]

StoreTypes ==
  /\ log \in File /\ synced \in Nat /\ snapshot \in Seq(Event) /\ snapshotSynced \in Seq(Event)
  /\ phase \in {"down", "opening", "open"} /\ readOnly \in BOOLEAN /\ state \in Seq(Event)
  /\ append.stage \in {"none", "opened", "written", "synced"}
  /\ saving \in Seq(Event)
  /\ issued \in Nat /\ history \in Seq(Event) /\ confirmed \in Nat
  /\ append = [stage |-> append.stage, by |-> append.by, event |-> append.event,
               expected |-> append.expected]
  /\ read = [stage |-> read.stage, from |-> read.from, expected |-> read.expected,
             lines |-> read.lines]

\* s begins with the first n elements of t.
Agree(s, t, n) == n <= Len(s) /\ n <= Len(t) /\ \A i \in 1..n : s[i] = t[i]

\* What was confirmed is in the log, and flushed.
ConfirmedKept ==
  confirmed <= synced /\ synced <= Len(log.lines) /\ Agree(log.lines, history, confirmed)

\* A snapshot is a part of what was confirmed.
Confirmed(snap) == Len(snap) <= confirmed /\ Agree(snap, history, Len(snap))
SnapshotsKept == Confirmed(snapshot) /\ Confirmed(snapshotSynced) /\ Confirmed(saving)

\* How far the append in progress has come, and with which file; a store that became
\* read-only meanwhile still finishes it.
AppendKept ==
  /\ append.stage = "opened" => log = append.expected /\ state = log.lines /\ ~log.torn
  /\ append.stage \in {"written", "synced"} =>
       /\ append.expected.lines = state /\ append.expected.inode = log.inode
       /\ log.lines = Append(state, append.event) /\ ~log.torn
  /\ append.stage = "synced" => synced = Len(log.lines)
  /\ append.stage # "none" => phase = "open" /\ confirmed <= Len(state) /\ append.event \in Event

\* A request that is to save a snapshot will save what was confirmed.
CommitKept == queue = "commit" => phase = "open" /\ state = history /\ confirmed = Len(history)

\* The memory is what open() and append() read and wrote.
MemoryKept ==
  /\ lastSeq = Len(state)
  /\ phase # "down" /\ ~readOnly /\ append.stage \in {"none", "opened"} =>
       state = log.lines /\ identity = log /\ ~log.torn

\* The last retained event is the last event.
LastKept ==
  /\ events \in Seq([seq: Nat, event: Event])
  /\ lastSeq > 0 => events # <<>> /\ events[Len(events)].event = state[lastSeq]

\* As long as nothing is to blame, the store is not read-only, and a read of the file finds
\* in it what it expects.
Blameless ==
  causes = {} =>
    /\ ~readOnly /\ ~log.torn
    /\ read.stage \in {"started", "scanned"} =>
         phase = "open" /\ append.stage \in {"none", "opened"} /\ read.expected = log
    /\ read.stage = "scanned" => read.lines = log.lines

Sound ==
  /\ StoreTypes /\ ConfirmedKept /\ SnapshotsKept /\ AppendKept /\ CommitKept
  /\ MemoryKept /\ LastKept /\ Blameless

StoreInv ==
  /\ faults \in Nat /\ (faults > 0 => "interference" \in causes)
  /\ faults = 0 => Sound

USE EventStoreAssumption

-----------------------------------------------------------------------------
(* Sequences. *)

LEMMA LastOfKeepsLast ==
  ASSUME NEW S, NEW s \in Seq(S), s # <<>>, NEW n \in Nat \ {0}
  PROVE  /\ LastOf(s, n) \in Seq(S) /\ LastOf(s, n) # <<>>
         /\ LastOf(s, n)[Len(LastOf(s, n))] = s[Len(s)]
<1> DEFINE first == Max2(1, Len(s) - n + 1)
<1>1. Len(s) \in Nat \ {0}
  BY EmptySeq
<1>2. first \in 1 .. Len(s)
  BY <1>1 DEF Max2
<1> HIDE DEF first
<1>3. \A i \in first .. Len(s) : s[i] \in S
  BY <1>1, <1>2, ElementOfSeq
<1>4. /\ SubSeq(s, first, Len(s)) \in Seq(S)
      /\ Len(SubSeq(s, first, Len(s))) = Len(s) - first + 1
      /\ \A i \in 1 .. Len(s) - first + 1 : SubSeq(s, first, Len(s))[i] = s[first + i - 1]
  BY <1>1, <1>2, <1>3, SubSeqProperties
<1>5. LastOf(s, n) = SubSeq(s, first, Len(s))
  BY DEF LastOf, first
<1>6. Len(s) - first + 1 \in 1 .. Len(s) - first + 1 /\ first + (Len(s) - first + 1) - 1 = Len(s)
  BY <1>1, <1>2
<1>7. Len(LastOf(s, n)) = Len(s) - first + 1 /\ Len(LastOf(s, n)) # 0
  BY <1>1, <1>2, <1>4, <1>5
<1>. QED  BY <1>4, <1>5, <1>6, <1>7, EmptySeq

LEMMA NumberedProperties ==
  ASSUME NEW lines \in Seq(Event), NEW first \in 1 .. Len(lines)
  PROVE  LET s == Numbered(lines, first, Len(lines))
         IN  /\ s \in Seq([seq: Nat, event: Event]) /\ s # <<>>
             /\ s[Len(s)].event = lines[Len(lines)]
<1> DEFINE s == Numbered(lines, first, Len(lines))
           n == Len(lines) - first + 1
<1>1. n \in Nat \ {0} /\ Len(lines) \in Nat
  BY LenProperties
<1>2. s = [i \in 1..n |-> [seq |-> first + i - 1, event |-> lines[first + i - 1]]]
  BY <1>1 DEF Numbered
<1>3. \A i \in 1..n : first + i - 1 \in 1 .. Len(lines) /\ lines[first + i - 1] \in Event
  BY <1>1, ElementOfSeq
<1> HIDE DEF s, n
<1>4. s \in [1..n -> [seq: Nat, event: Event]]
  BY <1>2, <1>3, <1>1
<1>5. s \in Seq([seq: Nat, event: Event])
  <2> DEFINE E == [seq: Nat, event: Event]
  <2>1. s \in UNION {[1..k -> E] : k \in Nat}
    BY <1>1, <1>4
  <2>2. Seq(E) = UNION {[1..k -> E] : k \in Nat}
    BY SeqDef
  <2>. QED  BY <2>1, <2>2
<1>6. Len(s) = n
  BY <1>1, <1>4, <1>5, LenProperties
<1>7. s[n].event = lines[first + n - 1] /\ first + n - 1 = Len(lines)
  BY <1>1, <1>2 DEF n
<1>. QED  BY <1>1, <1>5, <1>6, <1>7, EmptySeq DEF s

\* The lines before a position and those after it are all of them.
LEMMA SplitSeq ==
  ASSUME NEW lines \in Seq(Event), NEW snap \in Seq(Event), Agree(snap, lines, Len(snap))
  PROVE  snap \o SubSeq(lines, Len(snap) + 1, Len(lines)) = lines
<1> DEFINE m == Len(snap)
           n == Len(lines)
           rest == SubSeq(lines, m + 1, n)
<1>1. m \in Nat /\ n \in Nat /\ m <= n
  BY LenProperties DEF Agree
<1>2. \A i \in m + 1 .. n : lines[i] \in Event
  BY <1>1, ElementOfSeq
<1> HIDE DEF m, n
<1>3. /\ rest \in Seq(Event) /\ Len(rest) = n - m
      /\ \A i \in 1 .. n - m : rest[i] = lines[m + 1 + i - 1]
  <2>1. /\ rest \in Seq(Event) /\ Len(rest) = IF m + 1 <= n THEN n - (m + 1) + 1 ELSE 0
        /\ \A i \in 1 .. n - (m + 1) + 1 : rest[i] = lines[m + 1 + i - 1]
    BY <1>1, <1>2, SubSeqProperties
  <2>. QED  BY <1>1, <2>1
<1> HIDE DEF rest
<1>4. /\ snap \o rest \in Seq(Event) /\ Len(snap \o rest) = m + (n - m)
      /\ \A i \in 1 .. m + (n - m) :
           (snap \o rest)[i] = IF i <= m THEN snap[i] ELSE rest[i - m]
  <2>1. m = Len(snap)
    BY DEF m
  <2>2. /\ snap \o rest \in Seq(Event) /\ Len(snap \o rest) = Len(snap) + Len(rest)
        /\ \A i \in 1 .. Len(snap) + Len(rest) :
             (snap \o rest)[i] = IF i <= Len(snap) THEN snap[i] ELSE rest[i - Len(snap)]
    BY <1>3, ConcatProperties
  <2>. QED  BY <1>3, <2>1, <2>2
<1>5. Len(snap \o rest) = n
  BY <1>1, <1>4
<1>6. ASSUME NEW i \in 1 .. n
      PROVE  (snap \o rest)[i] = lines[i]
  <2>1. CASE i <= m
    BY <1>1, <1>4, <2>1 DEF Agree, m
  <2>2. CASE ~(i <= m)
    <3>1. i - m \in 1 .. n - m /\ m + 1 + (i - m) - 1 = i
      BY <1>1, <2>2
    <3>2. rest[i - m] = lines[i]
      BY <1>3, <3>1
    <3>. QED  BY <1>1, <1>4, <2>2, <3>2
  <2>. QED  BY <2>1, <2>2, Zenon
<1>7. n = Len(lines)
  BY DEF n
<1>8. snap \o rest = lines
  BY <1>4, <1>5, <1>6, <1>7, SeqEqual
<1>. QED  BY <1>8 DEF m, n, rest

-----------------------------------------------------------------------------
(* Opening. *)

LEMMA UsableSnapshot ==
  ASSUME NEW snap \in Seq(Event)
  PROVE  Usable(snap) = snap
<1>1. snap # <<0>>
  <2>1. Len(<<0>>) = 1 /\ <<0>>[1] = 0
    OBVIOUS
  <2>2. CASE Len(snap) # 1
    BY <2>1, <2>2
  <2>3. CASE Len(snap) = 1
    <3>1. snap[1] \in Event
      BY <2>3, ElementOfSeq
    <3>. QED  BY <2>1, <3>1 DEF Event
  <2>. QED  BY <2>2, <2>3
<1>. QED  BY <1>1 DEF Usable, Unverifiable, Damaged

\* Every line verifies, and a snapshot that agrees with them adds nothing to them.
LEMMA LoadedAll ==
  ASSUME NEW lines \in Seq(Event), NEW snap \in Seq(Event), Agree(snap, lines, Len(snap))
  PROVE  /\ Accepted(lines, snap) = Len(lines) /\ LoadedState(lines, snap) = lines
         /\ LoadedSeq(lines, snap) = Len(lines)
<1>1. Len(lines) \in Nat /\ Len(snap) \in Nat /\ Len(snap) <= Len(lines)
  BY LenProperties DEF Agree
<1>2. Max2(1, Len(snap)) \in Nat \ {0}
  BY <1>1 DEF Max2
<1>3. \A i \in Max2(1, Len(snap)) .. Len(lines) : lines[i] # Damaged
  <2> TAKE i \in Max2(1, Len(snap)) .. Len(lines)
  <2>1. i \in 1 .. Len(lines)
    BY <1>1, <1>2
  <2>2. lines[i] \in Event
    BY <2>1, ElementOfSeq
  <2>. QED  BY <2>2 DEF Event, Damaged
<1>4. snap # <<>> => lines[Len(snap)] = snap[Len(snap)]
  <2> SUFFICES ASSUME snap # <<>> PROVE lines[Len(snap)] = snap[Len(snap)]
    OBVIOUS
  <2>1. Len(snap) \in 1 .. Len(snap)
    BY <1>1, EmptySeq
  <2>. QED  BY <2>1 DEF Agree
<1>5. Accepted(lines, snap) = Len(lines)
  <2>1. {i \in Max2(1, Len(snap)) .. Len(lines) : lines[i] = Damaged} = {}
    BY <1>3
  <2>. QED  BY <1>4, <2>1 DEF Accepted
<1>6. LoadedState(lines, snap) = lines
  BY <1>5, SplitSeq DEF LoadedState
<1>7. LoadedSeq(lines, snap) = Len(lines)
  BY <1>1, <1>5 DEF LoadedSeq, Max2
<1>. QED  BY <1>5, <1>6, <1>7

\* The snapshot is a part of the log.
LEMMA SnapshotInLog ==
  ASSUME StoreTypes, ConfirmedKept, SnapshotsKept
  PROVE  Agree(snapshot, log.lines, Len(snapshot))
<1>1. Len(snapshot) \in Nat /\ Len(log.lines) \in Nat /\ Len(history) \in Nat
  BY LenProperties DEF StoreTypes, File
<1>2. Len(snapshot) <= confirmed /\ confirmed <= Len(log.lines) /\ confirmed \in Nat
  BY <1>1 DEF SnapshotsKept, Confirmed, ConfirmedKept, Agree, StoreTypes
<1>3. \A i \in 1 .. Len(snapshot) : snapshot[i] = history[i] /\ log.lines[i] = history[i]
  BY <1>1, <1>2 DEF SnapshotsKept, Confirmed, ConfirmedKept, Agree
<1>. QED  BY <1>1, <1>2, <1>3 DEF Agree

LEMMA OpenEffect ==
  ASSUME Sound, BeginOpen
  PROVE  /\ state' = log.lines /\ lastSeq' = Len(log.lines) /\ readOnly' = log.torn
         /\ ~log.torn => identity' = log
         /\ LastKept'
<1> USE DEF Sound
<1>1. /\ log.lines \in Seq(Event) /\ snapshot \in Seq(Event) /\ log.torn \in BOOLEAN
      /\ Agree(snapshot, log.lines, Len(snapshot))
  BY SnapshotInLog DEF StoreTypes, File
<1>2. Len(log.lines) \in Nat /\ Len(snapshot) \in Nat /\ Len(snapshot) <= Len(log.lines)
  BY <1>1, LenProperties DEF Agree
<1>3. Usable(snapshot) = snapshot /\ snapshot # Unverifiable
  <2>1. Usable(snapshot) = snapshot
    BY <1>1, UsableSnapshot
  <2>2. snapshot = Unverifiable => snapshot = <<>>
    BY <2>1 DEF Usable
  <2>. QED  BY <2>1, <2>2 DEF Unverifiable
<1>4. /\ Accepted(log.lines, snapshot) = Len(log.lines)
      /\ LoadedState(log.lines, snapshot) = log.lines
      /\ LoadedSeq(log.lines, snapshot) = Len(log.lines)
  BY <1>1, LoadedAll
<1>5. state' = log.lines /\ lastSeq' = Len(log.lines)
  BY <1>3, <1>4 DEF BeginOpen
<1>6. LoadedWhole(log, snapshot) = ~log.torn
  <2>1. snapshot # <<>> => log.lines[Len(snapshot)] = snapshot[Len(snapshot)]
    <3>1. snapshot # <<>> => Len(snapshot) \in 1 .. Len(snapshot)
      BY <1>1, <1>2, EmptySeq
    <3>. QED  BY <1>1, <3>1 DEF Agree
  <2>. QED  BY <1>1, <1>2, <1>4, <2>1 DEF LoadedWhole
<1>7. readOnly' = log.torn /\ (~log.torn => identity' = log)
  BY <1>1, <1>3, <1>6 DEF BeginOpen
<1>8. LastKept'
  <2> DEFINE first == Max2(1, Len(snapshot))
             all == Numbered(log.lines, first, Len(log.lines))
  <2>1. events' = LastOf(all, MAX_RETAINED_EVENTS)
    BY <1>3, <1>5 DEF BeginOpen
  <2>2. MAX_RETAINED_EVENTS \in Nat \ {0}
    OBVIOUS
  <2>3. CASE Len(log.lines) = 0
    <3>1. all = <<>>
      BY <1>2, <2>3 DEF Numbered, Max2
    <3> HIDE DEF all
    <3>2. LastOf(all, MAX_RETAINED_EVENTS) = <<>>
      BY <2>2, <3>1, SubSeqEmpty DEF LastOf, Max2
    <3>. QED  BY <1>5, <2>1, <2>3, <3>2, EmptySeq DEF LastKept
  <2>4. CASE Len(log.lines) > 0
    <3>1. first \in 1 .. Len(log.lines)
      BY <1>2, <2>4 DEF Max2
    <3> HIDE DEF first
    <3>2. /\ all \in Seq([seq: Nat, event: Event]) /\ all # <<>>
          /\ all[Len(all)].event = log.lines[Len(log.lines)]
      BY <1>1, <3>1, NumberedProperties
    <3> HIDE DEF all
    <3>3. /\ events' \in Seq([seq: Nat, event: Event]) /\ events' # <<>>
          /\ events'[Len(events')].event = log.lines[Len(log.lines)]
      BY <2>1, <2>2, <3>2, LastOfKeepsLast
    <3>. QED  BY <1>5, <3>3 DEF LastKept
  <2>. QED  BY <1>2, <2>3, <2>4
<1>. QED  BY <1>5, <1>7, <1>8

-----------------------------------------------------------------------------
(* Steps that leave the log and what was confirmed of it alone. *)

\* What the types and the durable parts depend on.
LEMMA DurableUnchanged ==
  ASSUME StoreTypes, ConfirmedKept, UNCHANGED <<log, synced, history, confirmed>>
  PROVE  ConfirmedKept' /\ log' \in File /\ synced' \in Nat
         /\ history' \in Seq(Event) /\ confirmed' \in Nat
BY DEF StoreTypes, ConfirmedKept, Agree

\* A state that was opened or committed is served: what was confirmed is in it.
LEMMA ServingEffect ==
  ASSUME Sound, Serving(state), state = log.lines, UNCHANGED <<log, synced>>
  PROVE  /\ history' = state /\ confirmed' = confirmed
         /\ ConfirmedKept'
         /\ \A snap : Confirmed(snap) => Confirmed(snap)'
<1> USE DEF Sound
<1>1. /\ log.lines \in Seq(Event) /\ Len(log.lines) \in Nat /\ confirmed \in Nat /\ synced \in Nat
      /\ confirmed <= Len(log.lines) /\ Len(history) \in Nat
  BY LenProperties DEF StoreTypes, File, ConfirmedKept
<1>2. history' = state /\ confirmed' = confirmed
  BY <1>1 DEF Serving
<1>3. ConfirmedKept'
  BY <1>1, <1>2 DEF ConfirmedKept, Agree
<1>4. ASSUME NEW snap, Confirmed(snap)
      PROVE  Confirmed(snap)'
  <2>1. Len(snap) <= confirmed /\ Agree(snap, history, Len(snap)) /\ confirmed <= Len(history)
    BY <1>4 DEF Confirmed, ConfirmedKept, Agree
  <2>2. \A i \in 1 .. Len(snap) : snap[i] = history[i] /\ i \in 1 .. Len(snap)
    BY <2>1 DEF Agree
  <2>3. \A i \in 1 .. confirmed : log.lines[i] = history[i]
    BY DEF ConfirmedKept, Agree
  <2>. QED
    <3>1. \A i \in 1 .. Len(snap) : i <= Len(snap)
      OBVIOUS
    <3>. QED  BY <1>1, <1>2, <2>1, <2>2, <2>3, <3>1 DEF Confirmed, Agree
<1>. QED  BY <1>2, <1>3, <1>4

LEMMA BeginOpenKeeps == Sound /\ BeginOpen => Sound'
<1> SUFFICES ASSUME Sound, BeginOpen PROVE Sound'
  OBVIOUS
<1> USE DEF Sound
<1>0. /\ UNCHANGED <<log, synced, snapshot, snapshotSynced, append, queue, saving, read>>
      /\ UNCHANGED <<issued, history, confirmed, causes>> /\ phase' = "opening"
  BY DEF BeginOpen, disk, activity, witness
<1>1. /\ state' = log.lines /\ lastSeq' = Len(log.lines) /\ readOnly' = log.torn
      /\ ~log.torn => identity' = log
      /\ LastKept'
  BY OpenEffect
<1>2. StoreTypes'
  BY <1>0, <1>1 DEF StoreTypes, File
<1>3. ConfirmedKept'
  BY <1>0, DurableUnchanged
<1>4. SnapshotsKept'
  BY <1>0 DEF SnapshotsKept, Confirmed, Agree
<1>5. phase = "down"
  BY DEF BeginOpen
<1>6. AppendKept' /\ CommitKept'
  BY <1>0, <1>5 DEF AppendKept, CommitKept
<1>7. MemoryKept'
  BY <1>0, <1>1 DEF MemoryKept
<1>8. Blameless'
  BY <1>0, <1>1, <1>5 DEF Blameless
<1>. QED  BY <1>1, <1>2, <1>3, <1>4, <1>6, <1>7, <1>8

LEMMA FinishOpenKeeps == Sound /\ FinishOpen => Sound'
<1> SUFFICES ASSUME Sound, FinishOpen PROVE Sound'
  OBVIOUS
<1> USE DEF Sound
<1>0. /\ UNCHANGED <<log, synced, snapshot, snapshotSynced, state, lastSeq, events>>
      /\ UNCHANGED <<append, queue, saving, read, issued, causes>>
      /\ phase = "opening" /\ phase' = "open"
  BY DEF FinishOpen, disk, activity
<1>1. append.stage = "none" /\ queue # "commit"
  BY <1>0 DEF AppendKept, CommitKept
<1>2. readOnly' = readOnly /\ (~readOnly => identity' = log /\ state = log.lines /\ ~log.torn)
  <2>1. CASE readOnly
    BY <2>1 DEF FinishOpen, StoreTypes
  <2>2. CASE ~readOnly
    BY <1>0, <1>1, <2>2 DEF FinishOpen, MemoryKept
  <2>. QED  BY <2>1, <2>2
<1>3. /\ ConfirmedKept' /\ history' \in Seq(Event) /\ confirmed' \in Nat
      /\ SnapshotsKept'
  <2>1. CASE readOnly
    <3>1. UNCHANGED <<history, confirmed>>
      BY <1>2, <2>1 DEF FinishOpen
    <3>. QED  BY <1>0, <3>1, DurableUnchanged DEF StoreTypes, SnapshotsKept, Confirmed, Agree
  <2>2. CASE ~readOnly
    <3>1. Serving(state)
      BY <1>2, <2>2 DEF FinishOpen
    <3>2. /\ history' = state /\ confirmed' = confirmed /\ ConfirmedKept'
          /\ \A snap : Confirmed(snap) => Confirmed(snap)'
      BY <1>0, <1>2, <2>2, <3>1, ServingEffect
    <3>3. SnapshotsKept'
      <4>1. Confirmed(snapshot)' /\ Confirmed(snapshotSynced)' /\ Confirmed(saving)'
        BY <1>0, <3>2 DEF SnapshotsKept, Confirmed
      <4>. QED  BY <4>1 DEF SnapshotsKept
    <3>. QED  BY <3>2, <3>3 DEF StoreTypes
  <2>. QED  BY <2>1, <2>2
<1>4. StoreTypes'
  BY <1>0, <1>2, <1>3 DEF StoreTypes
<1>5. AppendKept' /\ CommitKept'
  BY <1>0, <1>1 DEF AppendKept, CommitKept
<1>6. MemoryKept' /\ LastKept'
  BY <1>0, <1>2 DEF MemoryKept, LastKept
<1>7. Blameless'
  BY <1>0, <1>2 DEF Blameless
<1>. QED  BY <1>3, <1>4, <1>5, <1>6, <1>7

LEMMA CreateLogKeeps == Sound /\ faults \in Nat /\ CreateLog => Sound'
<1> SUFFICES ASSUME Sound, faults \in Nat, CreateLog PROVE Sound'
  OBVIOUS
<1> USE DEF Sound
<1>0. /\ UNCHANGED <<synced, snapshot, snapshotSynced, append, queue, saving, read, issued, causes>>
      /\ log = NoFile /\ phase = "down" /\ phase' = "open"
  BY DEF CreateLog, activity
<1>1. confirmed = 0 /\ synced = 0 /\ snapshot = <<>> /\ snapshotSynced = <<>> /\ saving = <<>>
  <2>1. log.lines = <<>> /\ Len(log.lines) = 0
    BY <1>0 DEF NoFile
  <2>2. confirmed = 0 /\ synced = 0
    BY <2>1 DEF ConfirmedKept, StoreTypes
  <2>3. \A snap \in Seq(Event) : Confirmed(snap) => snap = <<>>
    BY <2>2, EmptySeq, LenProperties DEF Confirmed
  <2>. QED  BY <2>2, <2>3 DEF SnapshotsKept, StoreTypes
<1>2. Usable(snapshot) = <<>>
  BY <1>1 DEF Usable
<1>3. /\ state' = <<>> /\ lastSeq' = 0 /\ readOnly' = FALSE
      /\ log' = [NoFile EXCEPT !.inode = faults + 1] /\ identity' = log'
      /\ history' = <<>> /\ confirmed' = 0 /\ events' = <<>>
  <2>1. state' = <<>> /\ lastSeq' = 0 /\ readOnly' = FALSE
    BY <1>1, <1>2 DEF CreateLog
  <2>2. log' = [NoFile EXCEPT !.inode = faults + 1] /\ identity' = log'
    BY <1>2 DEF CreateLog
  <2>3. history' = <<>> /\ confirmed' = 0
    BY <1>1, <2>1 DEF CreateLog, Serving
  <2>4. events' = <<>>
    BY DEF CreateLog
  <2>. QED  BY <2>1, <2>2, <2>3, <2>4
<1>4. log' = [inode |-> faults + 1, lines |-> <<>>, torn |-> FALSE]
  BY <1>3 DEF NoFile
<1>5. <<>> \in Seq(Event) /\ Len(<<>>) = 0 /\ <<>> \in Seq([seq: Nat, event: Event])
  BY EmptySeq
<1>6. log'.lines = <<>> /\ ~log'.torn /\ log' \in File
  BY <1>4, <1>5 DEF File
<1>7. StoreTypes'
  BY <1>0, <1>3, <1>5, <1>6 DEF StoreTypes
<1>8. ConfirmedKept' /\ SnapshotsKept'
  BY <1>0, <1>1, <1>3, <1>5, <1>6 DEF ConfirmedKept, SnapshotsKept, Confirmed, Agree
<1>9. append.stage = "none" /\ queue # "commit"
  BY <1>0 DEF AppendKept, CommitKept, StoreTypes
<1>10. AppendKept' /\ CommitKept'
  BY <1>0, <1>9 DEF AppendKept, CommitKept
<1>11. MemoryKept' /\ LastKept'
  BY <1>3, <1>5, <1>6 DEF MemoryKept, LastKept
<1>12. Blameless'
  BY <1>0, <1>3, <1>6 DEF Blameless
<1>. QED  BY <1>7, <1>8, <1>10, <1>11, <1>12

-----------------------------------------------------------------------------
(* Appending. *)

LEMMA BeginAppendKeeps == ASSUME Sound, NEW by, BeginAppend(by) PROVE Sound'
<1> USE DEF Sound
<1>0. /\ UNCHANGED <<log, synced, snapshot, snapshotSynced, phase, readOnly, state, lastSeq>>
      /\ UNCHANGED <<events, identity, saving, read, history, confirmed, causes>>
      /\ phase = "open" /\ ~readOnly /\ append = NoAppend /\ log = identity
  BY DEF BeginAppend, disk, memory
<1>1. /\ append' = [stage |-> "opened", by |-> by, event |-> issued + 1, expected |-> identity]
      /\ issued' = issued + 1
  BY DEF BeginAppend
<1>2. append.stage = "none"
  BY <1>0 DEF NoAppend
<1>3. state = log.lines /\ ~log.torn
  BY <1>0, <1>2 DEF MemoryKept
<1>4. append'.stage = "opened" /\ append'.event \in Event /\ append'.expected = log
      /\ issued' \in Nat
  BY <1>0, <1>1 DEF StoreTypes, Event
<1>5. StoreTypes'
  BY <1>0, <1>1, <1>4 DEF StoreTypes, File
<1>6. ConfirmedKept'
  BY <1>0, DurableUnchanged
<1>7. SnapshotsKept'
  BY <1>0 DEF SnapshotsKept, Confirmed, Agree
<1>8. AppendKept'
  BY <1>0, <1>3, <1>4 DEF AppendKept, ConfirmedKept, Agree
<1>9. CommitKept'
  BY <1>0 DEF BeginAppend, CommitKept
<1>10. MemoryKept' /\ LastKept'
  BY <1>0, <1>3, <1>4 DEF MemoryKept, LastKept
<1>11. Blameless'
  BY <1>0, <1>4 DEF Blameless
<1>. QED  BY <1>5, <1>6, <1>7, <1>8, <1>9, <1>10, <1>11

LEMMA RefuseAppendKeeps == Sound /\ RefuseAppend => Sound'
<1> SUFFICES ASSUME Sound, RefuseAppend PROVE FALSE
  OBVIOUS
<1>1. append.stage = "none" /\ phase = "open" /\ ~readOnly /\ log # identity
  BY DEF RefuseAppend, NoAppend
<1>. QED  BY <1>1 DEF Sound, MemoryKept

\* The line reaches the log that the store has in memory.
LEMMA WriteAppendKeeps == Sound /\ WriteAppend => Sound'
<1> SUFFICES ASSUME Sound, WriteAppend PROVE Sound'
  OBVIOUS
<1> USE DEF Sound
<1>0. /\ UNCHANGED <<synced, snapshot, snapshotSynced, phase, readOnly, state, lastSeq, events>>
      /\ UNCHANGED <<identity, queue, saving, read, issued, history, confirmed>>
      /\ append.stage = "opened"
  BY DEF WriteAppend, memory
<1>1. /\ log = append.expected /\ state = log.lines /\ ~log.torn /\ append.event \in Event
      /\ phase = "open" /\ confirmed <= Len(state)
  BY <1>0 DEF AppendKept
<1>2. /\ append'.stage = "written" /\ append'.event = append.event /\ append'.expected = log
      /\ log' = [log EXCEPT !.lines = Append(state, append.event)]
  <2>1. append' = [append EXCEPT !.stage = "written"]
    BY DEF WriteAppend
  <2>2. append' = [stage |-> "written", by |-> append.by, event |-> append.event,
                   expected |-> append.expected]
    BY <2>1 DEF StoreTypes
  <2>3. log' = [log EXCEPT !.lines = Append(state, append.event)]
    BY <1>1 DEF WriteAppend
  <2>. QED  BY <1>1, <2>2, <2>3
<1>3. log' = [inode |-> log.inode, lines |-> Append(state, append.event), torn |-> log.torn]
  BY <1>2 DEF StoreTypes, File
<1>4. /\ log'.lines \in Seq(Event) /\ Len(log'.lines) = Len(log.lines) + 1
      /\ Len(log.lines) \in Nat
      /\ \A i \in 1 .. Len(log.lines) : log'.lines[i] = log.lines[i]
  BY <1>1, <1>3, AppendProperties, LenProperties DEF StoreTypes
<1>5. log' \in File /\ ~log'.torn
  BY <1>1, <1>3, <1>4 DEF StoreTypes, File
<1>6. StoreTypes'
  <2>1. append' = [stage |-> append'.stage, by |-> append'.by, event |-> append'.event,
                   expected |-> append'.expected]
    BY DEF WriteAppend, StoreTypes
  <2>. QED  BY <1>0, <1>2, <1>5, <2>1 DEF StoreTypes
<1>7. ConfirmedKept'
  <2>1. /\ confirmed <= synced /\ synced <= Len(log.lines) /\ confirmed <= Len(history)
        /\ \A i \in 1 .. confirmed : log.lines[i] = history[i] /\ i \in 1 .. Len(log.lines)
    BY <1>4 DEF ConfirmedKept, Agree, StoreTypes
  <2>2. \A i \in 1 .. confirmed : log'.lines[i] = history[i]
    BY <1>4, <2>1
  <2>3. synced \in Nat /\ confirmed \in Nat
    BY DEF StoreTypes
  <2>. QED  BY <1>0, <1>4, <2>1, <2>2, <2>3 DEF ConfirmedKept, Agree
<1>8. SnapshotsKept'
  BY <1>0 DEF SnapshotsKept, Confirmed, Agree
<1>9. AppendKept'
  BY <1>0, <1>1, <1>2, <1>3, <1>5 DEF AppendKept
<1>10. CommitKept' /\ MemoryKept' /\ LastKept'
  BY <1>0, <1>2 DEF CommitKept, MemoryKept, LastKept
<1>11. Blameless'
  BY <1>0, <1>2, <1>5 DEF WriteAppend, Blameless
<1>. QED  BY <1>6, <1>7, <1>8, <1>9, <1>10, <1>11

LEMMA SyncAppendKeeps == Sound /\ SyncAppend => Sound'
<1> SUFFICES ASSUME Sound, SyncAppend PROVE Sound'
  OBVIOUS
<1> USE DEF Sound
<1>0. /\ UNCHANGED <<log, snapshot, snapshotSynced, phase, readOnly, state, lastSeq, events>>
      /\ UNCHANGED <<identity, queue, saving, read, issued, history, confirmed, causes>>
      /\ append.stage = "written"
  BY DEF SyncAppend, memory, witness
<1>1. append' = [stage |-> "synced", by |-> append.by, event |-> append.event,
                 expected |-> append.expected]
  BY DEF SyncAppend, StoreTypes
<1>2. log.inode = append.expected.inode
  BY <1>0 DEF AppendKept
<1>3. synced' = Len(log.lines) /\ synced' \in Nat
  BY <1>2, LenProperties DEF SyncAppend, StoreTypes, File
<1>4. StoreTypes'
  BY <1>0, <1>1, <1>3 DEF StoreTypes
<1>5. ConfirmedKept'
  BY <1>0, <1>3 DEF ConfirmedKept, Agree, StoreTypes
<1>6. SnapshotsKept'
  BY <1>0 DEF SnapshotsKept, Confirmed, Agree
<1>7. AppendKept'
  BY <1>0, <1>1, <1>3 DEF AppendKept
<1>8. CommitKept' /\ MemoryKept' /\ LastKept'
  BY <1>0, <1>1 DEF CommitKept, MemoryKept, LastKept
<1>9. Blameless'
  BY <1>0, <1>1 DEF Blameless
<1>. QED  BY <1>4, <1>5, <1>6, <1>7, <1>8, <1>9

\* The file grew by the line: the append is not missed.
LEMMA AppendGrew ==
  ASSUME Sound, append.stage = "synced"
  PROVE  GrewByOne(append.expected)
<1> USE DEF Sound
<1>1. /\ append.expected.lines = state /\ append.expected.inode = log.inode
      /\ log.lines = Append(state, append.event) /\ ~log.torn /\ append.event \in Event
  BY DEF AppendKept
<1>2. Len(log.lines) = Len(append.expected.lines) + 1
  BY <1>1, AppendProperties DEF StoreTypes
<1>3. log.inode = append.expected.inode
  BY <1>1
<1>. QED  BY <1>1, <1>2, <1>3 DEF GrewByOne

LEMMA CommitAppendKeeps == Sound /\ CommitAppend => Sound'
<1> SUFFICES ASSUME Sound, CommitAppend PROVE Sound'
  OBVIOUS
<1> USE DEF Sound
<1>0. /\ UNCHANGED <<log, synced, snapshot, snapshotSynced, phase, readOnly, saving, read>>
      /\ UNCHANGED <<issued, causes>>
      /\ append.stage = "synced" /\ append' = NoAppend /\ identity' = log
      /\ history' = state' /\ confirmed' = Len(state') /\ lastSeq' = lastSeq + 1
  BY DEF CommitAppend, disk
<1>1. /\ state' = log.lines /\ log.lines = Append(state, append.event) /\ ~log.torn
      /\ append.event \in Event /\ phase = "open" /\ confirmed <= Len(state)
      /\ synced = Len(log.lines)
  BY <1>0 DEF CommitAppend, AppendKept
<1>2. /\ log.lines \in Seq(Event) /\ Len(log.lines) = Len(state) + 1 /\ Len(state) \in Nat
      /\ \A i \in 1 .. Len(state) : log.lines[i] = state[i]
      /\ log.lines[Len(state) + 1] = append.event
  BY <1>1, AppendProperties, LenProperties DEF StoreTypes
<1>3. append'.stage = "none"
      /\ append' = [stage |-> append'.stage, by |-> append'.by, event |-> append'.event,
                    expected |-> append'.expected]
  BY <1>0 DEF NoAppend
<1>4. StoreTypes'
  BY <1>0, <1>1, <1>2, <1>3 DEF StoreTypes
<1>5. ConfirmedKept'
  BY <1>0, <1>1, <1>2 DEF ConfirmedKept, Agree
<1>6. ASSUME NEW snap \in Seq(Event), Confirmed(snap), NEW n \in Nat, n = Len(snap)
      PROVE  n <= confirmed' /\ Agree(snap, history', n)
  <2>1. n <= confirmed /\ Agree(snap, history, n) /\ confirmed \in Nat
    BY <1>6 DEF Confirmed, StoreTypes
  <2>2. n <= Len(log.lines) /\ confirmed <= Len(log.lines)
    BY <1>1, <1>2, <2>1
  <2>3. ASSUME NEW i \in 1 .. n
        PROVE  snap[i] = log.lines[i]
    <3>1. snap[i] = history[i] /\ i \in 1 .. confirmed
      BY <2>1 DEF Agree
    <3>. QED  BY <3>1 DEF ConfirmedKept, Agree
  <2>. QED  BY <1>0, <1>1, <1>6, <2>1, <2>2, <2>3 DEF Agree
<1>7. SnapshotsKept'
  <2>1. \A snap \in Seq(Event) : Len(snap) \in Nat
    BY LenProperties
  <2>. QED  BY <1>0, <1>6, <2>1 DEF SnapshotsKept, Confirmed, StoreTypes
<1>8. AppendKept'
  BY <1>3 DEF AppendKept
<1>9. CommitKept'
  BY <1>0, <1>1 DEF CommitKept
<1>10. MemoryKept'
  BY <1>0, <1>1, <1>2 DEF MemoryKept
<1>11. LastKept'
  <2> DEFINE E == [seq: Nat, event: Event]
             last == [seq |-> lastSeq + 1, event |-> append.event]
             all == Append(events, last)
  <2>1. lastSeq = Len(state) /\ lastSeq \in Nat
    BY <1>2 DEF MemoryKept
  <2>2. events \in Seq(E)
    BY DEF LastKept
  <2>3. last \in E
    BY <1>1, <2>1
  <2> HIDE DEF E
  <2>4. all \in Seq(E) /\ all # <<>> /\ all[Len(all)] = last
    BY <2>2, <2>3, AppendProperties, LenProperties
  <2>5. events' = LastOf(all, MAX_RETAINED_EVENTS)
    BY <1>0 DEF CommitAppend
  <2> HIDE DEF all
  <2>6. events' \in Seq(E) /\ events' # <<>> /\ events'[Len(events')] = last
    BY <2>4, <2>5, LastOfKeepsLast
  <2>. QED  BY <1>0, <1>1, <1>2, <2>1, <2>6 DEF LastKept, E
<1>12. Blameless'
  BY <1>0, <1>3 DEF Blameless
<1>. QED  BY <1>4, <1>5, <1>7, <1>8, <1>9, <1>10, <1>11, <1>12

LEMMA MissAppendKeeps == Sound /\ MissAppend => Sound'
BY AppendGrew DEF MissAppend

\* A write or a flush fails: the store is read-only, for a reason.
LEMMA GiveUpKeeps ==
  ASSUME Sound, GiveUp, UNCHANGED <<synced, snapshot, snapshotSynced>>, append.stage # "none",
         log' = log \/ log' = [log EXCEPT !.torn = TRUE], causes' = causes \union {"failure"}
  PROVE  Sound'
<1> USE DEF Sound
<1>0. /\ UNCHANGED <<phase, state, lastSeq, events, identity, saving, read>>
      /\ UNCHANGED <<issued, history, confirmed>>
      /\ readOnly' = TRUE /\ append' = NoAppend
      /\ queue' = IF append.by = "request" THEN "idle" ELSE queue
  BY DEF GiveUp
<1>1. append'.stage = "none"
      /\ append' = [stage |-> append'.stage, by |-> append'.by, event |-> append'.event,
                    expected |-> append'.expected]
  BY <1>0 DEF NoAppend
<1>2. log' \in File /\ log'.lines = log.lines
  BY DEF StoreTypes, File
<1>3. StoreTypes'
  BY <1>0, <1>1, <1>2 DEF StoreTypes
<1>4. ConfirmedKept' /\ SnapshotsKept'
  BY <1>0, <1>2 DEF ConfirmedKept, SnapshotsKept, Confirmed, Agree
<1>5. AppendKept' /\ CommitKept'
  BY <1>0, <1>1 DEF AppendKept, CommitKept
<1>6. MemoryKept' /\ LastKept'
  BY <1>0 DEF MemoryKept, LastKept
<1>7. Blameless'
  BY DEF Blameless
<1>. QED  BY <1>3, <1>4, <1>5, <1>6, <1>7

LEMMA FailAppendKeeps == Sound /\ (FailWrite \/ FailSync) => Sound'
BY GiveUpKeeps DEF FailWrite, FailSync, disk

-----------------------------------------------------------------------------
(* Snapshots. *)

LEMMA SaveKeeps == Sound /\ Save => Sound'
<1> SUFFICES ASSUME Sound, Save PROVE Sound'
  OBVIOUS
<1> USE DEF Sound
<1>0. /\ UNCHANGED <<log, synced, phase, readOnly, state, lastSeq, events, identity, append, read>>
      /\ UNCHANGED <<issued, history, confirmed, causes>>
      /\ queue' # "commit"
  BY DEF Save, SkipSave, BeginSave, RenameSave, SyncSave, FailSave, disk, memory, witness
<1>1. /\ snapshot' \in Seq(Event) /\ snapshotSynced' \in Seq(Event) /\ saving' \in Seq(Event)
      /\ SnapshotsKept'
  <2>1. Confirmed(<<>>) /\ <<>> \in Seq(Event)
    <3>1. confirmed >= 0 /\ Len(history) >= 0
      BY LenProperties DEF StoreTypes
    <3>. QED  BY <3>1, EmptySeq DEF Confirmed, Agree
  <2>2. \A snap : Confirmed(snap) => Confirmed(snap)'
    BY <1>0 DEF Confirmed, Agree
  <2>3. CASE SkipSave
    BY <1>0, <2>3 DEF SkipSave, disk, StoreTypes, SnapshotsKept, Confirmed, Agree
  <2>4. CASE BeginSave
    <3>1. state = history /\ confirmed = Len(history) /\ Len(history) \in Nat
      BY <2>4, LenProperties DEF BeginSave, CommitKept, StoreTypes
    <3>2. Confirmed(state)
      BY <3>1 DEF Confirmed, Agree
    <3>3. saving' = state /\ UNCHANGED <<snapshot, snapshotSynced>>
      BY <2>4 DEF BeginSave, disk
    <3>. QED  BY <1>0, <3>2, <3>3 DEF StoreTypes, SnapshotsKept, Confirmed, Agree
  <2>5. CASE RenameSave
    BY <1>0, <2>5 DEF RenameSave, StoreTypes, SnapshotsKept, Confirmed, Agree
  <2>6. CASE SyncSave
    <3>1. snapshotSynced' = snapshot /\ saving' = <<>> /\ snapshot' = snapshot
      BY <2>6 DEF SyncSave
    <3>. QED  BY <1>0, <2>1, <3>1 DEF StoreTypes, SnapshotsKept, Confirmed, Agree
  <2>7. CASE FailSave
    <3>1. saving' = <<>> /\ UNCHANGED <<snapshot, snapshotSynced>>
      BY <2>7 DEF FailSave, disk
    <3>. QED  BY <1>0, <2>1, <3>1 DEF StoreTypes, SnapshotsKept, Confirmed, Agree
  <2>. QED  BY <2>3, <2>4, <2>5, <2>6, <2>7 DEF Save
<1>2. StoreTypes'
  BY <1>0, <1>1 DEF StoreTypes
<1>3. ConfirmedKept'
  BY <1>0, DurableUnchanged
<1>4. AppendKept' /\ CommitKept'
  BY <1>0 DEF AppendKept, CommitKept
<1>5. MemoryKept' /\ LastKept'
  BY <1>0 DEF MemoryKept, LastKept
<1>6. Blameless'
  BY <1>0 DEF Blameless
<1>. QED  BY <1>1, <1>2, <1>3, <1>4, <1>5, <1>6

-----------------------------------------------------------------------------
(* Reads. *)

\* A read changes the memory, if at all, by making the store read-only.
LEMMA ReadEffect ==
  ASSUME Sound, Read, readOnly' \in {readOnly, TRUE}, Blameless',
         read' = [stage |-> read'.stage, from |-> read'.from, expected |-> read'.expected,
                  lines |-> read'.lines]
  PROVE  Sound'
<1> USE DEF Sound
<1>0. /\ UNCHANGED <<log, synced, snapshot, snapshotSynced, phase, state, lastSeq, events>>
      /\ UNCHANGED <<identity, append, saving, issued, history, confirmed>>
      /\ queue' = "commit" => queue = "commit"
  <2>1. ASSUME NEW from, ReadMemory(from)
        PROVE  UNCHANGED <<disk, memory, append, saving, witness>> /\ queue' = "reply"
    BY <2>1 DEF ReadMemory
  <2>2. ASSUME NEW from, BeginRead(from)
        PROVE  /\ UNCHANGED <<disk, memory, append, saving, issued, history, confirmed>>
               /\ queue' = "read"
    BY <2>2 DEF BeginRead
  <2>3. CASE FailScan \/ FailClose
    BY <2>3 DEF FailScan, FailClose, AbandonRead, disk, witness
  <2>4. CASE ScanFile \/ CloseRead \/ Reply
    BY <2>4 DEF ScanFile, CloseRead, Reply, disk, memory, witness
  <2>. QED  BY <2>1, <2>2, <2>3, <2>4 DEF Read, disk, memory, witness
<1>1. StoreTypes'
  BY <1>0 DEF StoreTypes
<1>2. ConfirmedKept'
  BY <1>0, DurableUnchanged
<1>3. SnapshotsKept'
  BY <1>0 DEF SnapshotsKept, Confirmed, Agree
<1>4. AppendKept' /\ CommitKept'
  BY <1>0 DEF AppendKept, CommitKept
<1>5. MemoryKept' /\ LastKept'
  BY <1>0 DEF MemoryKept, LastKept
<1>. QED  BY <1>1, <1>2, <1>3, <1>4, <1>5

\* With nothing to blame, every line that is read verifies, and nothing moved.
LEMMA ReadSucceeds ==
  ASSUME Sound, causes = {}
  PROVE  ~FailScan /\ ~FailClose
<1> USE DEF Sound
<1>1. ASSUME FailScan
      PROVE  FALSE
  <2>1. read.stage = "started" /\ log = read.expected /\ ~log.torn /\ log.lines \in Seq(Event)
    BY <1>1 DEF FailScan, Blameless, StoreTypes, File
  <2>2. \A i \in DOMAIN log.lines : log.lines[i] # Damaged
    <3> TAKE i \in DOMAIN log.lines
    <3>1. log.lines[i] \in Event
      BY <2>1, ElementOfSeq, LenProperties
    <3>. QED  BY <3>1 DEF Event, Damaged
  <2>. QED  BY <1>1, <2>1, <2>2 DEF FailScan, Verifies
<1>2. ASSUME FailClose
      PROVE  FALSE
  <2>1. /\ read.stage = "scanned" /\ read.expected = log /\ read.lines = log.lines
        /\ phase = "open" /\ ~readOnly /\ append.stage \in {"none", "opened"}
    BY <1>2 DEF FailClose, Blameless
  <2>2. state = log.lines /\ lastSeq = Len(state)
    BY <2>1 DEF MemoryKept
  <2>3. lastSeq > 0 => read.lines[lastSeq] = events[Len(events)].event
    BY <2>1, <2>2 DEF LastKept
  <2>. QED  BY <1>2, <2>1, <2>2, <2>3 DEF FailClose, Unmoved
<1>. QED  BY <1>1, <1>2

LEMMA ReadKeeps == Sound /\ Read => Sound'
<1> SUFFICES ASSUME Sound, Read PROVE Sound'
  OBVIOUS
<1> USE DEF Sound
<1>1. ASSUME NEW from, ReadMemory(from)
      PROVE  Sound'
  <2>1. UNCHANGED <<readOnly, log, phase, append, causes>> /\ read'.stage = "answered"
    BY <1>1 DEF ReadMemory, disk, memory, witness
  <2>2. read' = [stage |-> read'.stage, from |-> read'.from, expected |-> read'.expected,
                 lines |-> read'.lines]
    BY <1>1 DEF ReadMemory
  <2>3. Blameless'
    BY <2>1 DEF Blameless
  <2>. QED  BY <2>1, <2>2, <2>3, ReadEffect
<1>2. ASSUME NEW from, BeginRead(from)
      PROVE  Sound'
  <2>1. /\ UNCHANGED <<readOnly, log, phase, append>> /\ phase = "open"
        /\ read' = [stage |-> "started", from |-> from, expected |-> identity, lines |-> <<>>]
    BY <1>2 DEF BeginRead, disk, memory
  <2>2. causes' = {} => causes = {} /\ append.stage \notin {"written", "synced"}
    BY <1>2 DEF BeginRead
  <2>3. causes' = {} => identity = log
    BY <2>1, <2>2 DEF MemoryKept, Blameless, StoreTypes
  <2>4. Blameless'
    BY <2>1, <2>2, <2>3 DEF Blameless, StoreTypes
  <2>. QED  BY <2>1, <2>4, ReadEffect
<1>3. CASE ScanFile
  <2>1. UNCHANGED <<readOnly, log, phase, append, causes>> /\ read.stage = "started"
    BY <1>3 DEF ScanFile, disk, memory, witness
  <2>2. read' = [stage |-> "scanned", from |-> read.from, expected |-> read.expected,
                 lines |-> log.lines]
    BY <1>3 DEF ScanFile, StoreTypes
  <2>3. Blameless'
    BY <2>1, <2>2 DEF Blameless
  <2>. QED  BY <2>1, <2>2, <2>3, ReadEffect
<1>4. CASE CloseRead
  <2>1. UNCHANGED <<readOnly, log, phase, append, causes>>
    BY <1>4 DEF CloseRead, disk, memory, witness
  <2>2. read' = [stage |-> "answered", from |-> read.from, expected |-> NoFile,
                 lines |-> SubSeq(read.lines, read.from + 1, Len(read.lines))]
    BY <1>4 DEF CloseRead, StoreTypes
  <2>3. Blameless'
    BY <2>1, <2>2 DEF Blameless
  <2>. QED  BY <2>1, <2>2, <2>3, ReadEffect
<1>5. CASE FailScan \/ FailClose
  <2>1. causes # {} /\ readOnly' = TRUE /\ causes' = causes /\ read' = NoRead
    BY <1>5, ReadSucceeds DEF FailScan, FailClose, AbandonRead, witness
  <2>2. Blameless'
    BY <2>1 DEF Blameless
  <2>. QED  BY <2>1, <2>2, ReadEffect DEF NoRead
<1>6. CASE Reply
  <2>1. UNCHANGED <<readOnly, log, phase, append, causes>> /\ read' = NoRead
    BY <1>6 DEF Reply, disk, memory, witness
  <2>2. Blameless'
    BY <2>1 DEF Blameless, NoRead
  <2>. QED  BY <2>1, <2>2, ReadEffect DEF NoRead
<1>. QED  BY <1>1, <1>2, <1>3, <1>4, <1>5, <1>6 DEF Read

-----------------------------------------------------------------------------
(* Crashes. *)

LEMMA CrashKeeps == Sound /\ Crash => Sound'
<1> SUFFICES ASSUME Sound, Crash PROVE Sound'
  OBVIOUS
<1> USE DEF Sound
<1>0. /\ UNCHANGED <<synced, snapshotSynced, issued, history, confirmed>>
      /\ snapshot' \in {snapshot, snapshotSynced} /\ phase' = "down" /\ readOnly' = FALSE
      /\ state' = <<>> /\ lastSeq' = 0 /\ events' = <<>> /\ append' = NoAppend
      /\ queue' = "idle" /\ saving' = <<>> /\ read' = NoRead
  BY DEF Crash
<1>1. PICK kept \in synced .. Len(log.lines), torn \in BOOLEAN :
        /\ log' = [log EXCEPT !.lines = SubSeq(@, 1, kept), !.torn = torn]
        /\ causes' = IF torn THEN causes \union {"torn"} ELSE causes
  BY DEF Crash
<1>2. /\ log.lines \in Seq(Event) /\ Len(log.lines) \in Nat /\ kept \in Nat
      /\ confirmed \in Nat /\ synced \in Nat /\ confirmed <= kept /\ kept <= Len(log.lines)
      /\ Len(history) \in Nat
  BY LenProperties DEF StoreTypes, File, ConfirmedKept
<1>3. log' = [inode |-> log.inode, lines |-> SubSeq(log.lines, 1, kept), torn |-> torn]
  BY <1>1 DEF StoreTypes, File
<1>4. /\ log'.lines \in Seq(Event) /\ Len(log'.lines) = kept
      /\ \A i \in 1 .. kept : log'.lines[i] = log.lines[i]
  <2>1. \A i \in 1 .. kept : log.lines[i] \in Event
    BY <1>2, ElementOfSeq
  <2>2. /\ SubSeq(log.lines, 1, kept) \in Seq(Event)
        /\ Len(SubSeq(log.lines, 1, kept)) = IF 1 <= kept THEN kept - 1 + 1 ELSE 0
        /\ \A i \in 1 .. kept - 1 + 1 : SubSeq(log.lines, 1, kept)[i] = log.lines[1 + i - 1]
    BY <1>2, <2>1, SubSeqProperties
  <2>. QED  BY <1>2, <1>3, <2>2
<1>5. log' \in File
  BY <1>3, <1>4 DEF StoreTypes, File
<1>6. <<>> \in Seq(Event) /\ <<>> \in Seq([seq: Nat, event: Event]) /\ Len(<<>>) = 0
  BY EmptySeq
<1>7. StoreTypes'
  BY <1>0, <1>5, <1>6 DEF StoreTypes, NoAppend, NoRead
<1>8. ConfirmedKept'
  <2>1. \A i \in 1 .. confirmed : log.lines[i] = history[i] /\ i \in 1 .. kept
    BY <1>2 DEF ConfirmedKept, Agree
  <2>2. confirmed <= synced /\ confirmed <= Len(history) /\ synced <= kept
    BY <1>2 DEF ConfirmedKept, Agree
  <2>. QED  BY <1>0, <1>2, <1>4, <2>1, <2>2 DEF ConfirmedKept, Agree
<1>9. SnapshotsKept'
  <2>1. Confirmed(<<>>)
    BY <1>2, <1>6 DEF Confirmed, Agree
  <2>. QED  BY <1>0, <2>1 DEF SnapshotsKept, Confirmed, Agree
<1>10. AppendKept' /\ CommitKept'
  BY <1>0 DEF AppendKept, CommitKept, NoAppend
<1>11. MemoryKept' /\ LastKept'
  BY <1>0, <1>6 DEF MemoryKept, LastKept
<1>12. Blameless'
  BY <1>0, <1>1, <1>3 DEF Blameless, NoRead
<1>. QED  BY <1>7, <1>8, <1>9, <1>10, <1>11, <1>12

-----------------------------------------------------------------------------
(* The store. *)

LEMMA StoreInvInitial == StoreInit => StoreInv
<1> SUFFICES ASSUME StoreInit PROVE StoreInv
  OBVIOUS
<1> USE DEF StoreInit
<1>1. <<>> \in Seq(Event) /\ <<>> \in Seq([seq: Nat, event: Event]) /\ Len(<<>>) = 0
  BY EmptySeq
<1>2. log.lines = <<>> /\ log \in File /\ ~log.torn
  BY <1>1 DEF NoFile, File
<1>3. StoreTypes
  BY <1>1, <1>2 DEF StoreTypes, NoAppend, NoRead
<1>4. ConfirmedKept /\ SnapshotsKept
  BY <1>1, <1>2 DEF ConfirmedKept, SnapshotsKept, Confirmed, Agree
<1>5. AppendKept /\ CommitKept /\ MemoryKept /\ LastKept /\ Blameless
  BY <1>1, <1>2 DEF AppendKept, CommitKept, MemoryKept, LastKept, Blameless, NoAppend, NoRead
<1>. QED  BY <1>3, <1>4, <1>5 DEF StoreInv, Sound

LEMMA StoreInvInductive ==
  StoreInv /\ [StoreNext]_storeVars => StoreInv' /\ (faults' = faults \/ faults < MaxFaults)
<1> SUFFICES ASSUME StoreInv, [StoreNext]_storeVars
             PROVE  StoreInv' /\ (faults' = faults \/ faults < MaxFaults)
  OBVIOUS
<1>0. faults \in Nat /\ (faults > 0 => "interference" \in causes)
  BY DEF StoreInv
<1>1. CASE RestoreLog \/ RemoveLog \/ DamageLog \/ DamageSnapshot
  <2>1. faults' = faults + 1 /\ faults < MaxFaults /\ causes' = causes \union {"interference"}
    BY <1>1 DEF RestoreLog, RemoveLog, DamageLog, DamageSnapshot, Interfere
  <2>. QED  BY <1>0, <2>1 DEF StoreInv
<1>2. CASE Open \/ AppendStep \/ Save \/ Read \/ Crash \/ UNCHANGED storeVars
  <2>1. faults' = faults /\ causes \subseteq causes'
    <3>1. CASE Open
      BY <3>1 DEF Open, BeginOpen, FinishOpen, CreateLog, witness
    <3>2. CASE AppendStep
      BY <3>2 DEF AppendStep, BeginAppend, RefuseAppend, WriteAppend, FailWrite, SyncAppend,
         FailSync, CommitAppend, MissAppend, GiveUp, witness
    <3>3. CASE Save
      BY <3>3 DEF Save, SkipSave, BeginSave, RenameSave, SyncSave, FailSave, witness
    <3>4. CASE Read
      BY <3>4 DEF Read, ReadMemory, BeginRead, ScanFile, FailScan, CloseRead, FailClose,
         Reply, AbandonRead, witness
    <3>5. CASE Crash
      BY <3>5 DEF Crash
    <3>6. CASE UNCHANGED storeVars
      BY <3>6 DEF storeVars, witness
    <3>. QED  BY <1>2, <3>1, <3>2, <3>3, <3>4, <3>5, <3>6
  <2>2. ASSUME Sound
        PROVE  Sound'
    <3>1. CASE Open
      BY <1>0, <2>2, <3>1, BeginOpenKeeps, FinishOpenKeeps, CreateLogKeeps DEF Open
    <3>2. CASE AppendStep
      BY <2>2, <3>2, BeginAppendKeeps, RefuseAppendKeeps, WriteAppendKeeps, SyncAppendKeeps,
         CommitAppendKeeps, MissAppendKeeps, FailAppendKeeps DEF AppendStep
    <3>3. CASE Save \/ Read \/ Crash
      BY <2>2, <3>3, SaveKeeps, ReadKeeps, CrashKeeps
    <3>4. CASE UNCHANGED storeVars
      BY <2>2, <3>4 DEF storeVars, disk, memory, activity, witness, Sound, StoreTypes,
         ConfirmedKept, SnapshotsKept, Confirmed, Agree, AppendKept, CommitKept, MemoryKept,
         LastKept, Blameless
    <3>. QED  BY <1>2, <3>1, <3>2, <3>3, <3>4
  <2>. QED  BY <1>0, <2>1, <2>2 DEF StoreInv
<1>. QED  BY <1>1, <1>2 DEF StoreNext, Environment

\* The invariant holds in every reachable state.
THEOREM StoreInvariance == StoreSpec => []StoreInv
BY StoreInvInitial, StoreInvInductive, PTL DEF StoreSpec

\* Every event a caller was told is stored is in the log, where no crash can lose it, no
\* snapshot is ahead of the log, and a store that accepts events has in memory what is on
\* disk, for any number of appends, reads, snapshots and crashes.
THEOREM StoreIsConsistent == StoreSpec => []StoreConsistent
<1>1. StoreInv => StoreConsistent
  <2> SUFFICES ASSUME Sound PROVE AcknowledgedStored /\ SnapshotBehindLog /\ MemoryMatchesLog
    BY DEF StoreInv, StoreConsistent
  <2> USE DEF Sound
  <2>1. /\ log.lines \in Seq(Event) /\ history \in Seq(Event) /\ Len(log.lines) \in Nat
        /\ confirmed \in Nat /\ Len(history) \in Nat /\ confirmed <= Len(log.lines)
        /\ confirmed <= Len(history)
    BY LenProperties DEF StoreTypes, File, ConfirmedKept, Agree
  <2>2. ASSUME NEW s \in Seq(Event), NEW n \in Nat, n <= Len(s)
        PROVE  /\ SubSeq(s, 1, n) \in Seq(Event) /\ Len(SubSeq(s, 1, n)) = n
               /\ \A i \in 1 .. n : SubSeq(s, 1, n)[i] = s[i]
    <3>0. Len(s) \in Nat
      BY LenProperties
    <3>1. \A i \in 1 .. n : s[i] \in Event
      BY <2>2, <3>0, ElementOfSeq
    <3>2. /\ SubSeq(s, 1, n) \in Seq(Event)
          /\ Len(SubSeq(s, 1, n)) = IF 1 <= n THEN n - 1 + 1 ELSE 0
          /\ \A i \in 1 .. n - 1 + 1 : SubSeq(s, 1, n)[i] = s[1 + i - 1]
      BY <3>1, SubSeqProperties
    <3>. QED  BY <3>2
  <2> DEFINE stored == SubSeq(history, 1, confirmed)
  <2>3. /\ stored \in Seq(Event) /\ Len(stored) = confirmed
        /\ \A i \in 1 .. confirmed : stored[i] = history[i]
    BY <2>1, <2>2
  <2> HIDE DEF stored
  <2>4. AcknowledgedStored
    <3> DEFINE inLog == SubSeq(log.lines, 1, confirmed)
    <3>1. /\ inLog \in Seq(Event) /\ Len(inLog) = confirmed
          /\ \A i \in 1 .. confirmed : inLog[i] = log.lines[i]
      BY <2>1, <2>2
    <3> HIDE DEF inLog
    <3>2. \A i \in 1 .. confirmed : inLog[i] = stored[i]
      BY <2>3, <3>1 DEF ConfirmedKept, Agree
    <3>3. inLog = stored
      BY <2>3, <3>1, <3>2, SeqEqual
    <3>. QED  BY <2>1, <3>3 DEF AcknowledgedStored, ConfirmedKept, inLog, stored
  <2>5. ASSUME NEW snap \in Seq(Event), Confirmed(snap)
        PROVE  PrefixOf(snap, stored)
    <3>1. Len(snap) \in Nat /\ Len(snap) <= confirmed
      BY <2>5, LenProperties DEF Confirmed
    <3>2. /\ SubSeq(stored, 1, Len(snap)) \in Seq(Event)
          /\ Len(SubSeq(stored, 1, Len(snap))) = Len(snap)
          /\ \A i \in 1 .. Len(snap) : SubSeq(stored, 1, Len(snap))[i] = stored[i]
      BY <2>2, <2>3, <3>1
    <3>3. \A i \in 1 .. Len(snap) : snap[i] = history[i] /\ i \in 1 .. confirmed
      BY <2>1, <2>5, <3>1 DEF Confirmed, Agree
    <3>4. \A i \in 1 .. Len(snap) : SubSeq(stored, 1, Len(snap))[i] = snap[i]
      BY <2>3, <3>2, <3>3
    <3>5. SubSeq(stored, 1, Len(snap)) = snap
      BY <3>2, <3>4, SeqEqual
    <3>. QED  BY <2>3, <3>1, <3>5 DEF PrefixOf
  <2>6. SnapshotBehindLog
    BY <2>5 DEF SnapshotBehindLog, SnapshotsKept, StoreTypes, stored
  <2>7. MemoryMatchesLog
    <3> SUFFICES ASSUME phase = "open", ~readOnly PROVE MemoryMatchesLog
      BY DEF MemoryMatchesLog
    <3>1. CASE append.stage \in {"none", "opened"}
      BY <3>1 DEF MemoryKept, MemoryMatchesLog
    <3>2. CASE append.stage \in {"written", "synced"}
      <4>1. log.lines = Append(state, append.event) /\ append.event \in Event
        BY <3>2 DEF AppendKept
      <4>2. state \in Seq(Event) /\ Len(state) \in Nat
        BY LenProperties DEF StoreTypes
      <4>3. Len(log.lines) - 1 = Len(state) /\ \A i \in 1 .. Len(state) : log.lines[i] = state[i]
        BY <4>1, <4>2, AppendProperties
      <4>4. Len(state) <= Len(log.lines)
        BY <2>1, <4>2, <4>3
      <4>5. SubSeq(log.lines, 1, Len(state)) = state
        BY <2>1, <2>2, <4>2, <4>3, <4>4, SeqEqual
      <4>. QED  BY <3>2, <4>3, <4>5 DEF MemoryMatchesLog, MemoryKept
    <3>. QED  BY <3>1, <3>2 DEF StoreTypes
  <2>. QED  BY <2>4, <2>6, <2>7
<1>. QED  BY <1>1, StoreInvariance, PTL

\* The store becomes read-only only if somebody changed its files, a write failed, a crash
\* left an incomplete line, or a read of the file met an append: never because of a
\* restart, for any number of them.
THEOREM RecoveryIsWarranted == StoreSpec => []RecoveryWarranted
<1>1. StoreInv => RecoveryWarranted
  BY DEF StoreInv, Sound, Blameless, RecoveryWarranted
<1>. QED  BY <1>1, StoreInvariance, PTL

=============================================================================
