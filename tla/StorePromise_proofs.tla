-------------------------- MODULE StorePromise_proofs --------------------------
(***************************************************************************)
(* The event store keeps the promise of DurableLog, for any number of      *)
(* events, crashes, and changes that somebody else makes to its files.     *)
(***************************************************************************)
EXTENDS EventStore_proofs, WellFoundedInduction

-----------------------------------------------------------------------------
(* The invariant.  It says of files that somebody may have cut back or       *)
(* damaged what Sound says of intact ones: there is nothing in them but the  *)
(* history that was served last, and at most one event more.                 *)

\* Where it is not damaged, lines is s or a part of it, as far as s goes.
Fits(lines, s) == \A i \in 1..Len(lines) : i <= Len(s) => lines[i] \in {s[i], Damaged}

PartOf(snap, s) == snap = Unverifiable \/ Agree(snap, s, Len(snap))

NotAhead(snap, later) == snap = Unverifiable \/ later = Unverifiable \/ Len(snap) <= Len(later)

FileTypes ==
  /\ log \in [inode: Nat, lines: Seq(Line), torn: BOOLEAN] /\ synced \in Nat
  /\ snapshot \in Seq(Line) /\ snapshotSynced \in Seq(Line) /\ saving \in Seq(Event)
  /\ phase \in {"down", "opening", "open"} /\ history \in Seq(Event)
  /\ append.stage \in {"none", "opened", "written", "synced"}
  /\ append = [stage |-> append.stage, by |-> append.by, event |-> append.event,
               expected |-> append.expected]
  /\ issued \in Nat /\ confirmed \in Nat /\ faults \in Nat

\* The log is one event longer than the history at most.  No file that takes its place
\* has the identity of one that was there before.
LogFits ==
  /\ Len(log.lines) <= Len(history) + 1 /\ Fits(log.lines, history)
  /\ log.inode <= faults + 1 /\ (log.inode = 0 => log.lines = <<>>)

\* The snapshot that a crash goes back to is not the longer one.
SnapshotsFit ==
  /\ PartOf(snapshot, history) /\ PartOf(snapshotSynced, history)
  /\ Agree(saving, history, Len(saving))
  /\ NotAhead(snapshotSynced, snapshot)
  /\ queue = "save" => NotAhead(snapshotSynced, saving)

\* The memory is the history as long as it may still become longer or be saved.
MemoryFits ==
  /\ phase = "open" /\ (~readOnly \/ append.stage # "none" \/ queue = "commit") =>
       state = history
  /\ phase # "open" =>
       saving = <<>> /\ queue = "idle" /\ append.stage = "none" /\ read.stage = "none"
  /\ phase # "down" /\ ~readOnly =>
       Len(identity.lines) = Len(state) /\ identity.inode \in 1..faults + 1

\* What open() has read is the history, cut at its end or with one event more.
OpeningFits ==
  phase = "opening" /\ ~readOnly =>
    /\ state \in Seq(Event) /\ Len(state) <= Len(history) + 1
    /\ Fits(state, history) /\ Fits(identity.lines, state)
    /\ PartOf(snapshot, state) /\ PartOf(snapshotSynced, state)

\* The line of the append in progress is the last one, if the file still is the same.
AppendFits ==
  append.stage # "none" =>
    /\ append.event \in Event /\ append.expected.inode \in 1..faults + 1
    /\ Len(append.expected.lines) = Len(state)
    /\ log.inode = append.expected.inode =>
         IF append.stage = "opened" THEN Len(log.lines) = Len(state)
         ELSE /\ Len(log.lines) = Len(state) + 1
              /\ log.lines[Len(log.lines)] \in {append.event, Damaged}

PromiseInv ==
  FileTypes /\ LogFits /\ SnapshotsFit /\ MemoryFits /\ OpeningFits /\ AppendFits

-----------------------------------------------------------------------------
(* Sequences. *)

LEMMA LineNotEvent == Damaged \in Line /\ Damaged \notin Event /\ Event \subseteq Line
BY DEF Line, Damaged, Event

LEMMA LeastNumber ==
  ASSUME NEW T, T \subseteq Nat, T # {}
  PROVE  Min(T) \in T
<1> DEFINE R == OpToRel(<, Nat)
<1>1. \A m, n \in Nat : m < n => <<m, n>> \in R
  BY DEF OpToRel
<1>2. IsWellFoundedOn(R, Nat)
  BY NatLessThanWellFounded
<1> HIDE DEF R
<1>3. PICK least \in T : \A n \in T : ~(<<n, least>> \in R)
  BY <1>2, WFMin
<1>4. ASSUME NEW n \in T
      PROVE  least <= n
  <2>1. least \in Nat /\ n \in Nat /\ ~(n < least)
    BY <1>1, <1>3
  <2>. QED  BY <2>1
<1>5. \E x \in T : \A y \in T : x <= y
  BY <1>4
<1>. QED  BY <1>5 DEF Min

\* A usable snapshot, and after it the lines of a log that open() read to its end.
LEMMA LoadedFits ==
  ASSUME NEW file \in [inode: Nat, lines: Seq(Line), torn: BOOLEAN],
         NEW snap \in Seq(Line), snap # Unverifiable, NEW old \in Seq(Event),
         LoadedWhole(file, snap), Fits(file.lines, old), Agree(snap, old, Len(snap))
  PROVE  LET s == LoadedState(file.lines, snap)
         IN  /\ s \in Seq(Event) /\ Len(s) = Len(file.lines) /\ Fits(s, old)
             /\ Fits(file.lines, s) /\ Agree(snap, s, Len(snap))
<1> DEFINE lines == file.lines
           m == Len(snap)
           n == Len(lines)
           s == LoadedState(lines, snap)
           first == Max2(1, m)
           refused == {i \in first..n : lines[i] = Damaged}
<1>1. /\ lines \in Seq(Line) /\ n \in Nat /\ m \in Nat /\ m <= n
      /\ Len(old) \in Nat /\ m <= Len(old)
      /\ first \in Nat \ {0} /\ first <= m + 1
  <2>1. lines \in Seq(Line) /\ n \in Nat /\ m \in Nat /\ Len(old) \in Nat
    BY LenProperties
  <2>. QED
    BY <2>1 DEF LoadedWhole, Agree, Max2
<1>2. refused = {}
  <2> SUFFICES ASSUME refused # {} PROVE FALSE
    OBVIOUS
  <2>1. refused \subseteq Nat
    BY <1>1
  <2>2. Min(refused) \in refused
    BY <2>1, LeastNumber
  <2>3. Min(refused) - 1 < n /\ Min(refused) \in Nat
    BY <1>1, <2>2
  <2>4. snap # <<>> => lines[m] = snap[m]
    BY DEF LoadedWhole
  <2>5. Accepted(lines, snap) = Min(refused) - 1
    BY <2>4 DEF Accepted
  <2>. QED  BY <2>3, <2>5 DEF LoadedWhole
<1>3. Accepted(lines, snap) = n
  BY DEF LoadedWhole
<1>4. \A i \in 1..n : lines[i] \in Line
  BY <1>1, ElementOfSeq
<1>5. \A i \in m + 1 .. n : lines[i] \in Event /\ lines[i] # Damaged
  <2>1. ASSUME NEW i \in m + 1 .. n
        PROVE  lines[i] # Damaged /\ lines[i] \in Line
    BY <1>1, <1>2, <1>4
  <2>. QED  BY <2>1 DEF Line
<1>6. snap \in Seq(Event) /\ \A i \in 1..m : snap[i] = old[i]
  <2>1. \A i \in 1..m : snap[i] = old[i] /\ old[i] \in Event
    BY <1>1, ElementOfSeq DEF Agree
  <2>2. snap \in [1..m -> Event]
    BY <2>1, LenProperties
  <2>3. [1..m -> Event] \subseteq Seq(Event)
    BY <1>1, SeqDef
  <2>. QED  BY <2>1, <2>2, <2>3
<1> DEFINE rest == SubSeq(lines, m + 1, n)
<1>7. /\ rest \in Seq(Event) /\ Len(rest) = n - m
      /\ \A i \in 1 .. n - m : rest[i] = lines[m + i]
  <2>1. /\ rest \in Seq(Event) /\ Len(rest) = IF m + 1 <= n THEN n - (m + 1) + 1 ELSE 0
        /\ \A i \in 1 .. n - (m + 1) + 1 : rest[i] = lines[m + 1 + i - 1]
    BY <1>1, <1>5, SubSeqProperties
  <2>2. \A i \in 1 .. n - m : m + 1 + i - 1 = m + i
    BY <1>1
  <2>. QED  BY <1>1, <2>1, <2>2
<1>8. s = snap \o rest
  BY <1>3 DEF LoadedState
<1> HIDE DEF rest, s, n, m, first, refused, lines
<1>9. /\ s \in Seq(Event) /\ Len(s) = n
      /\ \A i \in 1..n : s[i] = IF i <= m THEN snap[i] ELSE rest[i - m]
  <2>1. /\ snap \o rest \in Seq(Event) /\ Len(snap \o rest) = Len(snap) + Len(rest)
        /\ \A i \in 1 .. Len(snap) + Len(rest) :
             (snap \o rest)[i] = IF i <= Len(snap) THEN snap[i] ELSE rest[i - Len(snap)]
    BY <1>6, <1>7, ConcatProperties
  <2>2. m = Len(snap) /\ Len(snap) + Len(rest) = n
    BY <1>1, <1>7 DEF m
  <2>. QED  BY <1>8, <2>1, <2>2
<1>10. ASSUME NEW i \in 1..n
       PROVE  /\ i <= m => s[i] = snap[i] /\ s[i] = old[i]
              /\ i > m => s[i] = lines[i] /\ lines[i] # Damaged
  <2>1. CASE i <= m
    BY <1>1, <1>6, <1>9, <2>1
  <2>2. CASE i > m
    <3>1. i - m \in 1 .. n - m /\ m + (i - m) = i /\ i \in m + 1 .. n
      BY <1>1, <2>2
    <3>2. rest[i - m] = lines[m + (i - m)]
      BY <1>7, <3>1
    <3>3. s[i] = rest[i - m]
      BY <1>1, <1>9, <2>2
    <3>. QED  BY <1>1, <1>5, <2>2, <3>1, <3>2, <3>3
  <2>. QED  BY <1>1, <2>1, <2>2
<1>11. \A i \in 1..n : i <= Len(old) => lines[i] \in {old[i], Damaged}
  BY DEF Fits, lines, n
<1>12. Fits(s, old)
  <2>1. ASSUME NEW i \in 1..n, i <= Len(old)
        PROVE  s[i] = old[i]
    BY <1>1, <1>10, <1>11, <2>1
  <2>. QED  BY <1>9, <2>1 DEF Fits
<1>13. Fits(lines, s)
  <2>1. ASSUME NEW i \in 1..n
        PROVE  lines[i] \in {s[i], Damaged}
    <3>1. i <= m => i <= Len(old)
      BY <1>1
    <3>. QED  BY <1>1, <1>10, <1>11, <3>1
  <2>. QED  BY <1>9, <2>1 DEF Fits, n
<1>14. Agree(snap, s, m)
  BY <1>1, <1>9, <1>10 DEF Agree, m
<1>. QED  BY <1>9, <1>12, <1>13, <1>14 DEF s, n, m, lines

-----------------------------------------------------------------------------
(* The steps of the store. *)

\* What only the reader, or the end of a request, changes; or a refused append.
LEMMA QuietFits ==
  ASSUME PromiseInv,
         UNCHANGED <<log, synced, snapshot, snapshotSynced, phase, state, identity>>,
         UNCHANGED <<append, saving>>,
         UNCHANGED <<history, issued, confirmed, faults>>, ~readOnly' => ~readOnly,
         \/ phase # "open" /\ UNCHANGED <<queue, read>>
         \/ phase = "open" /\ (queue' = queue \/ queue' \notin {"commit", "save"})
  PROVE  PromiseInv'
<1> USE DEF PromiseInv
<1>1. FileTypes' /\ LogFits'
  BY DEF FileTypes, LogFits, Fits
<1>2. SnapshotsFit'
  BY DEF SnapshotsFit, PartOf, Agree, NotAhead
<1>3. MemoryFits' /\ OpeningFits'
  BY DEF MemoryFits, OpeningFits, Fits, PartOf, Agree
<1>4. AppendFits'
  BY DEF AppendFits
<1>. QED  BY <1>1, <1>2, <1>3, <1>4

LEMMA BeginOpenFits == PromiseInv /\ BeginOpen => PromiseInv'
<1> SUFFICES ASSUME PromiseInv, BeginOpen PROVE PromiseInv'
  OBVIOUS
<1> USE DEF PromiseInv
<1>1. /\ UNCHANGED <<log, synced, snapshot, snapshotSynced, append, queue, saving, read>>
      /\ UNCHANGED <<issued, history, confirmed, faults>> /\ phase = "down" /\ phase' = "opening"
  BY DEF BeginOpen, disk, activity, witness
<1>2. FileTypes' /\ LogFits'
  BY <1>1 DEF FileTypes, LogFits, Fits
<1>3. SnapshotsFit'
  BY <1>1 DEF SnapshotsFit, PartOf, Agree, NotAhead
<1>4. append.stage = "none" /\ saving = <<>> /\ queue = "idle" /\ read.stage = "none"
  BY <1>1 DEF MemoryFits
<1>5. AppendFits'
  BY <1>1, <1>4 DEF AppendFits
<1>6. ASSUME ~readOnly'
      PROVE  /\ identity' = log /\ log.inode \in 1..faults + 1 /\ Len(state') = Len(log.lines)
             /\ state' \in Seq(Event) /\ Fits(state', history) /\ Fits(log.lines, state')
             /\ PartOf(snapshot, state') /\ PartOf(snapshotSynced, state')
  <2>1. snapshot # Unverifiable /\ Usable(snapshot) = snapshot
    BY <1>6 DEF BeginOpen, Usable
  <2>2. /\ LoadedWhole(log, snapshot) /\ identity' = log /\ log # NoFile
        /\ state' = LoadedState(log.lines, snapshot)
    BY <1>6, <2>1 DEF BeginOpen
  <2>3. Agree(snapshot, history, Len(snapshot))
    BY <2>1 DEF SnapshotsFit, PartOf
  <2>4. /\ state' \in Seq(Event) /\ Len(state') = Len(log.lines) /\ Fits(state', history)
        /\ Fits(log.lines, state') /\ Agree(snapshot, state', Len(snapshot))
    BY <2>1, <2>2, <2>3, LoadedFits DEF FileTypes, LogFits
  <2>5. log.inode # 0
    <3>1. log = [inode |-> log.inode, lines |-> log.lines, torn |-> log.torn]
      BY DEF FileTypes
    <3>2. log.torn = FALSE
      BY <2>2 DEF LoadedWhole, FileTypes
    <3>. QED  BY <2>2, <3>1, <3>2 DEF LogFits, NoFile
  <2>6. log.inode \in 1..faults + 1
    BY <2>5 DEF LogFits, FileTypes
  <2>7. PartOf(snapshotSynced, state')
    <3> SUFFICES ASSUME snapshotSynced # Unverifiable PROVE PartOf(snapshotSynced, state')
      BY DEF PartOf
    <3> DEFINE k == Len(snapshotSynced)
               h == Len(history)
               l == Len(state')
    <3>1. /\ k \in Nat /\ Len(snapshot) \in Nat /\ l \in Nat /\ h \in Nat
          /\ k <= Len(snapshot) /\ Len(snapshot) <= l /\ k <= h
          /\ \A i \in 1..k : snapshotSynced[i] = history[i]
      BY <2>1, <2>4, LenProperties DEF SnapshotsFit, NotAhead, PartOf, Agree, FileTypes
    <3>2. \A i \in 1..Len(snapshot) : snapshot[i] = history[i] /\ snapshot[i] = state'[i]
      BY <2>3, <2>4 DEF Agree
    <3>3. \A i \in 1..k : snapshotSynced[i] = state'[i]
      BY <3>1, <3>2
    <3>. QED  BY <3>1, <3>3 DEF PartOf, Agree
  <2>. QED  BY <2>2, <2>4, <2>6, <2>7 DEF PartOf
<1>7. MemoryFits'
  BY <1>1, <1>4, <1>6 DEF MemoryFits
<1>8. OpeningFits'
  <2> SUFFICES ASSUME ~readOnly' PROVE OpeningFits'
    BY DEF OpeningFits
  <2>1. Len(state') <= Len(history) + 1
    BY <1>6 DEF LogFits
  <2>. QED  BY <1>1, <1>6, <2>1 DEF OpeningFits, Fits, PartOf, Agree
<1>. QED  BY <1>2, <1>3, <1>5, <1>7, <1>8

\* The history that is served from now on.
LEMMA ServedFits ==
  ASSUME PromiseInv, UNCHANGED <<synced, snapshot, snapshotSynced, append, queue, saving>>,
         UNCHANGED <<issued, faults>>,
         phase # "open", phase' = "open", state' \in Seq(Event), history' = state',
         confirmed' \in Nat, PartOf(snapshot, state'), PartOf(snapshotSynced, state'),
         log' \in [inode: Nat, lines: Seq(Line), torn: BOOLEAN], identity' = log',
         Len(log'.lines) = Len(state'), Fits(log'.lines, state'), log'.inode \in 1..faults + 1
  PROVE  PromiseInv'
<1> USE DEF PromiseInv
<1>1. append.stage = "none" /\ saving = <<>> /\ queue = "idle"
  BY DEF MemoryFits
<1>2. FileTypes'
  BY DEF FileTypes
<1>3. LogFits'
  <2>1. Len(state') \in Nat /\ 0 \notin 1..faults + 1
    BY LenProperties
  <2>. QED  BY <2>1 DEF LogFits, Fits, FileTypes
<1>4. SnapshotsFit'
  <2>1. Agree(<<>>, history', 0) /\ Len(<<>>) = 0
    <3>1. Len(history') \in Nat
      BY LenProperties
    <3>. QED  BY <3>1 DEF Agree
  <2>. QED  BY <1>1, <2>1 DEF SnapshotsFit, PartOf, NotAhead, Agree
<1>5. MemoryFits'
  BY <1>1 DEF MemoryFits
<1>6. OpeningFits' /\ AppendFits'
  BY <1>1 DEF OpeningFits, AppendFits
<1>. QED  BY <1>2, <1>3, <1>4, <1>5, <1>6

LEMMA FinishOpenFits == PromiseInv /\ FinishOpen => PromiseInv'
<1> SUFFICES ASSUME PromiseInv, FinishOpen PROVE PromiseInv'
  OBVIOUS
<1> USE DEF PromiseInv
<1>1. /\ UNCHANGED <<log, synced, snapshot, snapshotSynced, append, queue, saving, issued>>
      /\ UNCHANGED <<faults, state>>
      /\ phase = "opening" /\ phase' = "open"
      /\ append.stage = "none" /\ saving = <<>> /\ queue = "idle"
  BY DEF FinishOpen, disk, activity, MemoryFits
<1>2. CASE readOnly'
  <2>1. UNCHANGED <<history, confirmed>>
    BY <1>2 DEF FinishOpen
  <2>2. FileTypes' /\ LogFits'
    BY <1>1, <2>1 DEF FileTypes, LogFits, Fits
  <2>3. SnapshotsFit'
    BY <1>1, <2>1 DEF SnapshotsFit, PartOf, Agree, NotAhead
  <2>4. MemoryFits' /\ OpeningFits' /\ AppendFits'
    BY <1>1, <1>2 DEF MemoryFits, OpeningFits, AppendFits
  <2>. QED  BY <2>2, <2>3, <2>4
<1>3. CASE ~readOnly'
  <2>1. ~readOnly /\ identity' = identity /\ identity \in {log, NoFile} /\ Serving(state)
    BY <1>3 DEF FinishOpen
  <2>2. identity = log
    BY <1>1, <2>1 DEF MemoryFits, NoFile
  <2>3. history' = state /\ confirmed' \in Nat
    <3>1. state \in Seq(Event)
      BY <1>1, <2>1 DEF OpeningFits
    <3>. QED  BY <2>1, <3>1, LenProperties DEF Serving, FileTypes
  <2>. QED
    BY <1>1, <2>1, <2>2, <2>3, ServedFits DEF FileTypes, OpeningFits, MemoryFits
<1>. QED  BY <1>2, <1>3

LEMMA CreateLogFits == PromiseInv /\ CreateLog => PromiseInv'
<1> SUFFICES ASSUME PromiseInv, CreateLog PROVE PromiseInv'
  OBVIOUS
<1> USE DEF PromiseInv
<1>1. /\ UNCHANGED <<synced, snapshot, snapshotSynced, append, queue, saving, issued, faults>>
      /\ phase = "down" /\ phase' = "open" /\ readOnly' = (snapshot # <<>>)
      /\ append.stage = "none" /\ saving = <<>> /\ queue = "idle"
  BY DEF CreateLog, activity, MemoryFits
<1>2. CASE snapshot # <<>>
  <2>1. UNCHANGED <<history, confirmed>>
    BY <1>1, <1>2 DEF CreateLog
  <2>2. log' = log \/ log' = [NoFile EXCEPT !.inode = faults + 1]
    BY DEF CreateLog
  <2>3. FileTypes' /\ LogFits'
    <3>1. CASE log' = log
      BY <1>1, <2>1, <3>1 DEF FileTypes, LogFits, Fits
    <3>2. CASE log' = [inode |-> faults + 1, lines |-> <<>>, torn |-> FALSE]
      <4>1. /\ log'.lines = <<>> /\ Len(<<>>) = 0 /\ log'.inode = faults + 1
            /\ log' \in [inode: Nat, lines: Seq(Line), torn: BOOLEAN]
        BY <3>2, EmptySeq DEF FileTypes
      <4>2. Len(history) \in Nat
        BY LenProperties DEF FileTypes
      <4>. QED  BY <1>1, <2>1, <4>1, <4>2 DEF FileTypes, LogFits, Fits
    <3>. QED  BY <2>2, <3>1, <3>2 DEF NoFile
  <2>4. SnapshotsFit'
    BY <1>1, <2>1 DEF SnapshotsFit, PartOf, Agree, NotAhead
  <2>5. MemoryFits' /\ OpeningFits' /\ AppendFits'
    BY <1>1, <1>2 DEF MemoryFits, OpeningFits, AppendFits
  <2>. QED  BY <2>3, <2>4, <2>5
<1>3. CASE snapshot = <<>>
  <2>1. Usable(snapshot) = <<>>
    BY <1>3 DEF Usable
  <2>2. /\ state' = <<>> /\ Serving(<<>>) /\ identity' = log'
        /\ log' = [inode |-> faults + 1, lines |-> <<>>, torn |-> FALSE]
    BY <1>1, <1>3, <2>1 DEF CreateLog, NoFile
  <2>3. Len(<<>>) = 0 /\ <<>> \in Seq(Event) /\ <<>> \in Seq(Line)
    BY EmptySeq
  <2>4. history' = state' /\ confirmed' \in Nat
    BY <2>2, <2>3 DEF Serving, FileTypes
  <2>5. PartOf(snapshot, state') /\ PartOf(snapshotSynced, state')
    <3>1. snapshot # Unverifiable
      <4>1. Len(Unverifiable) = 1
        BY DEF Unverifiable
      <4>. QED  BY <1>3, <2>3, <4>1
    <3>2. snapshotSynced # Unverifiable => Len(snapshotSynced) = 0
      BY <1>3, <2>3, <3>1, LenProperties DEF SnapshotsFit, NotAhead, FileTypes
    <3>. QED  BY <1>3, <2>2, <2>3, <3>2 DEF PartOf, Agree
  <2>6. /\ Fits(log'.lines, state') /\ Len(log'.lines) = Len(state')
        /\ log'.inode \in 1..faults + 1 /\ log' \in [inode: Nat, lines: Seq(Line), torn: BOOLEAN]
    BY <2>2, <2>3 DEF Fits, FileTypes
  <2>. QED  BY <1>1, <2>2, <2>3, <2>4, <2>5, <2>6, ServedFits
<1>. QED  BY <1>2, <1>3

LEMMA BeginAppendFits ==
  ASSUME PromiseInv, NEW by, BeginAppend(by)
  PROVE  PromiseInv'
<1> USE DEF PromiseInv
<1>1. /\ UNCHANGED <<log, synced, snapshot, snapshotSynced, phase, readOnly, state, identity>>
      /\ UNCHANGED <<saving, history, confirmed, faults>>
      /\ phase = "open" /\ ~readOnly /\ log = identity /\ append.stage = "none"
  BY DEF BeginAppend, disk, memory, NoAppend
<1>2. /\ append' = [stage |-> "opened", by |-> by, event |-> issued', expected |-> identity]
      /\ issued' = issued + 1 /\ queue' \in {"append", queue}
  BY DEF BeginAppend
<1>3. FileTypes' /\ LogFits'
  BY <1>1, <1>2 DEF FileTypes, LogFits, Fits
<1>4. SnapshotsFit'
  BY <1>1, <1>2 DEF SnapshotsFit, PartOf, Agree, NotAhead
<1>5. MemoryFits' /\ OpeningFits'
  BY <1>1, <1>2 DEF MemoryFits, OpeningFits
<1>6. AppendFits'
  BY <1>1, <1>2 DEF AppendFits, MemoryFits, FileTypes, Event
<1>. QED  BY <1>3, <1>4, <1>5, <1>6

LEMMA WriteAppendFits == PromiseInv /\ WriteAppend => PromiseInv'
<1> SUFFICES ASSUME PromiseInv, WriteAppend PROVE PromiseInv'
  OBVIOUS
<1> USE DEF PromiseInv
<1>1. /\ UNCHANGED <<synced, snapshot, snapshotSynced, phase, readOnly, state, identity, queue>>
      /\ UNCHANGED <<saving, issued, history, confirmed, faults>> /\ append.stage = "opened"
  BY DEF WriteAppend, memory
<1>2. append' = [stage |-> "written", by |-> append.by, event |-> append.event,
                 expected |-> append.expected]
  BY DEF WriteAppend, FileTypes
<1>3. phase = "open" /\ state = history /\ append.event \in Event
  BY <1>1 DEF MemoryFits, AppendFits, FileTypes
<1>4. SnapshotsFit'
  BY <1>1 DEF SnapshotsFit, PartOf, Agree, NotAhead
<1>5. MemoryFits' /\ OpeningFits'
  BY <1>1, <1>2, <1>3 DEF MemoryFits, OpeningFits
<1>6. CASE log.inode # append.expected.inode
  <2>1. log' = log
    BY <1>6 DEF WriteAppend
  <2>2. FileTypes' /\ LogFits'
    BY <1>1, <1>2, <2>1 DEF FileTypes, LogFits, Fits
  <2>3. AppendFits'
    BY <1>1, <1>2, <1>6, <2>1 DEF AppendFits
  <2>. QED  BY <1>4, <1>5, <2>2, <2>3
<1>7. CASE log.inode = append.expected.inode
  <2> DEFINE n == Len(log.lines)
             longer == Append(log.lines, append.event)
  <2>1. log.lines \in Seq(Line) /\ n \in Nat /\ append.event \in Line /\ n = Len(history)
    BY <1>1, <1>3, <1>7, LenProperties, LineNotEvent DEF FileTypes, AppendFits
  <2>2. log' = [inode |-> log.inode, lines |-> longer, torn |-> log.torn]
    <3>1. log' = [log EXCEPT !.lines = Append(@, append.event)]
      BY <1>7 DEF WriteAppend
    <3>. QED  BY <3>1 DEF FileTypes
  <2>3. /\ longer \in Seq(Line) /\ Len(longer) = n + 1 /\ longer[n + 1] = append.event
        /\ \A i \in 1..n : longer[i] = log.lines[i]
    BY <2>1, AppendProperties
  <2> HIDE DEF longer, n
  <2>4. FileTypes'
    BY <1>1, <1>2, <2>2, <2>3 DEF FileTypes
  <2>5. Fits(longer, history)
    <3>1. \A i \in 1..n : i <= Len(history) => log.lines[i] \in {history[i], Damaged}
      BY DEF LogFits, Fits, n
    <3>. QED  BY <2>1, <2>3, <3>1 DEF Fits
  <2>6. LogFits'
    <3>1. log.inode # 0
      BY <1>1, <1>7 DEF AppendFits, FileTypes
    <3>2. Fits(log'.lines, history')
      BY <1>1, <2>2, <2>5
    <3>3. Len(log'.lines) <= Len(history') + 1 /\ log'.inode <= faults' + 1 /\ log'.inode # 0
      BY <1>1, <2>1, <2>2, <2>3, <3>1 DEF LogFits
    <3>. QED  BY <3>2, <3>3 DEF LogFits, Fits
  <2>7. AppendFits'
    BY <1>1, <1>2, <1>3, <2>1, <2>2, <2>3 DEF AppendFits
  <2>. QED  BY <1>4, <1>5, <2>4, <2>6, <2>7
<1>. QED  BY <1>6, <1>7

LEMMA SyncAppendFits == PromiseInv /\ SyncAppend => PromiseInv'
<1> SUFFICES ASSUME PromiseInv, SyncAppend PROVE PromiseInv'
  OBVIOUS
<1> USE DEF PromiseInv
<1>1. /\ UNCHANGED <<log, snapshot, snapshotSynced, phase, readOnly, state, identity, queue>>
      /\ UNCHANGED <<saving, issued, history, confirmed, faults>> /\ append.stage = "written"
  BY DEF SyncAppend, memory, witness
<1>2. append' = [stage |-> "synced", by |-> append.by, event |-> append.event,
                 expected |-> append.expected]
  BY DEF SyncAppend, FileTypes
<1>3. FileTypes' /\ LogFits'
  <2>1. synced' \in Nat
    BY LenProperties DEF SyncAppend, FileTypes
  <2>. QED  BY <1>1, <1>2, <2>1 DEF FileTypes, LogFits, Fits
<1>4. SnapshotsFit'
  BY <1>1 DEF SnapshotsFit, PartOf, Agree, NotAhead
<1>5. MemoryFits' /\ OpeningFits'
  BY <1>1, <1>2 DEF MemoryFits, OpeningFits, Fits, PartOf, Agree
<1>6. AppendFits'
  BY <1>1, <1>2 DEF AppendFits
<1>. QED  BY <1>3, <1>4, <1>5, <1>6

\* The store gives the append up: it does not append again.
LEMMA GiveUpFits == PromiseInv /\ (FailWrite \/ FailSync \/ MissAppend) => PromiseInv'
<1> SUFFICES ASSUME PromiseInv, FailWrite \/ FailSync \/ MissAppend PROVE PromiseInv'
  OBVIOUS
<1> USE DEF PromiseInv
<1>1. /\ UNCHANGED <<synced, snapshot, snapshotSynced, phase, state, saving, issued, history>>
      /\ UNCHANGED <<confirmed, faults>> /\ readOnly' = TRUE /\ append' = NoAppend
      /\ queue' \in {"idle", queue} /\ append.stage # "none"
      /\ log' = log \/ log' = [log EXCEPT !.torn = TRUE]
  BY DEF FailWrite, FailSync, MissAppend, GiveUp, disk
<1>2. append'.stage = "none"
      /\ append' = [stage |-> append'.stage, by |-> append'.by, event |-> append'.event,
                    expected |-> append'.expected]
  BY <1>1 DEF NoAppend
<1>3. log'.lines = log.lines /\ log'.inode = log.inode
      /\ log' \in [inode: Nat, lines: Seq(Line), torn: BOOLEAN]
  BY <1>1 DEF FileTypes
<1>4. FileTypes' /\ LogFits'
  BY <1>1, <1>2, <1>3 DEF FileTypes, LogFits, Fits
<1>5. SnapshotsFit'
  BY <1>1 DEF SnapshotsFit, PartOf, Agree, NotAhead
<1>6. MemoryFits' /\ OpeningFits' /\ AppendFits'
  BY <1>1, <1>2 DEF MemoryFits, OpeningFits, AppendFits
<1>. QED  BY <1>4, <1>5, <1>6

LEMMA CommitAppendFits == PromiseInv /\ CommitAppend => PromiseInv'
<1> SUFFICES ASSUME PromiseInv, CommitAppend PROVE PromiseInv'
  OBVIOUS
<1> USE DEF PromiseInv
<1>1. /\ UNCHANGED <<log, synced, snapshot, snapshotSynced, phase, readOnly, saving>>
      /\ UNCHANGED <<issued, faults>>
      /\ append.stage = "synced" /\ append' = NoAppend /\ identity' = log
      /\ state' = Append(state, append.event) /\ history' = state' /\ confirmed' = Len(state')
      /\ queue' \in {"commit", queue}
      /\ log.inode = append.expected.inode
      /\ Len(log.lines) = Len(append.expected.lines) + 1
  BY DEF CommitAppend, disk, GrewByOne
<1>2. phase = "open" /\ state = history /\ append.event \in Event
  BY <1>1 DEF MemoryFits, AppendFits, FileTypes
<1> DEFINE n == Len(history)
<1>3. /\ history \in Seq(Event) /\ n \in Nat /\ history' \in Seq(Event) /\ Len(history') = n + 1
      /\ history'[n + 1] = append.event /\ \A i \in 1..n : history'[i] = history[i]
  BY <1>1, <1>2, AppendProperties, LenProperties DEF FileTypes
<1>4. Len(log.lines) = n + 1 /\ log.lines[n + 1] \in {append.event, Damaged}
  BY <1>1, <1>2, <1>3 DEF AppendFits
<1>5. append'.stage = "none"
      /\ append' = [stage |-> append'.stage, by |-> append'.by, event |-> append'.event,
                    expected |-> append'.expected]
  BY <1>1 DEF NoAppend
<1>6. FileTypes'
  BY <1>1, <1>3, <1>5 DEF FileTypes
<1>7. Fits(log.lines, history')
  <2>1. \A i \in 1..n : log.lines[i] \in {history[i], Damaged}
    BY <1>3, <1>4 DEF LogFits, Fits
  <2>. QED  BY <1>3, <1>4, <2>1 DEF Fits
<1>8. LogFits'
  BY <1>1, <1>3, <1>4, <1>7 DEF LogFits, Fits
<1>9. ASSUME NEW snap \in Seq(Line), Agree(snap, history, Len(snap))
      PROVE  Agree(snap, history', Len(snap))
  <2>1. Len(snap) \in Nat
    BY LenProperties
  <2>. QED  BY <1>3, <1>9, <2>1 DEF Agree
<1>10. PartOf(snapshot, history') /\ PartOf(snapshotSynced, history')
  BY <1>9 DEF SnapshotsFit, PartOf, FileTypes
<1>11. Agree(saving, history', Len(saving))
  <2>1. saving \in Seq(Line)
    BY LineNotEvent, SeqMonotonic DEF FileTypes
  <2>. QED  BY <1>9, <2>1 DEF SnapshotsFit
<1>12. SnapshotsFit'
  BY <1>1, <1>10, <1>11 DEF SnapshotsFit, PartOf, Agree, NotAhead
<1>13. MemoryFits'
  <2>1. ~readOnly => log.inode \in 1..faults + 1
    BY <1>1 DEF AppendFits
  <2>. QED  BY <1>1, <1>2, <1>3, <1>4, <2>1 DEF MemoryFits
<1>14. OpeningFits' /\ AppendFits'
  BY <1>1, <1>2, <1>5 DEF OpeningFits, AppendFits
<1>. QED  BY <1>6, <1>8, <1>12, <1>13, <1>14

LEMMA SaveFits == PromiseInv /\ Save => PromiseInv'
<1> SUFFICES ASSUME PromiseInv, Save PROVE PromiseInv'
  OBVIOUS
<1> USE DEF PromiseInv
<1>1. /\ UNCHANGED <<log, synced, phase, readOnly, state, identity, append, issued>>
      /\ UNCHANGED <<history, confirmed, faults>>
      /\ queue # "idle" /\ queue' # "commit"
  BY DEF Save, SkipSave, BeginSave, RenameSave, SyncSave, FailSave, disk, memory, witness
<1>2. phase = "open"
  BY <1>1 DEF MemoryFits
<1>3. /\ LogFits' /\ MemoryFits' /\ OpeningFits' /\ AppendFits'
  BY <1>1, <1>2 DEF LogFits, Fits, MemoryFits, OpeningFits, AppendFits
<1>4. saving \in Seq(Line) /\ <<>> \in Seq(Event) /\ Len(<<>>) = 0
  BY LineNotEvent, SeqMonotonic, EmptySeq DEF FileTypes
<1>5. Agree(<<>>, history, 0)
  <2>1. Len(history) \in Nat
    BY LenProperties DEF FileTypes
  <2>. QED  BY <1>4, <2>1 DEF Agree
<1>6. FileTypes' /\ SnapshotsFit'
  <2>1. CASE SkipSave
    BY <1>1, <2>1 DEF SkipSave, disk, FileTypes, SnapshotsFit, PartOf, Agree, NotAhead
  <2>2. CASE BeginSave
    <3>1. /\ UNCHANGED <<snapshot, snapshotSynced>> /\ queue' = "save" /\ saving' = state
          /\ state = history
      BY <1>2, <2>2 DEF BeginSave, disk, MemoryFits
    <3>2. Len(history) \in Nat /\ history \in Seq(Event)
      BY LenProperties DEF FileTypes
    <3>3. Agree(history, history, Len(history)) /\ NotAhead(snapshotSynced, history)
      BY <3>2 DEF Agree, SnapshotsFit, PartOf, NotAhead
    <3>. QED
      BY <1>1, <3>1, <3>2, <3>3 DEF FileTypes, SnapshotsFit, PartOf, Agree, NotAhead
  <2>3. CASE RenameSave
    <3>1. /\ UNCHANGED <<snapshotSynced, saving>> /\ snapshot' = saving /\ queue = "save"
          /\ queue' = "renamed"
      BY <2>3 DEF RenameSave
    <3>. QED
      BY <1>1, <1>4, <3>1 DEF FileTypes, SnapshotsFit, PartOf, Agree, NotAhead
  <2>4. CASE SyncSave
    <3>1. /\ snapshot' = snapshot /\ snapshotSynced' = snapshot /\ saving' = <<>>
          /\ queue' = "idle"
      BY <2>4 DEF SyncSave
    <3>2. Len(snapshot) \in Nat
      BY LenProperties DEF FileTypes
    <3>. QED
      BY <1>1, <1>4, <1>5, <3>1, <3>2 DEF FileTypes, SnapshotsFit, PartOf, Agree, NotAhead
  <2>5. CASE FailSave
    BY <1>1, <1>4, <1>5, <2>5
    DEF FailSave, disk, FileTypes, SnapshotsFit, PartOf, Agree, NotAhead
  <2>. QED  BY <2>1, <2>2, <2>3, <2>4, <2>5 DEF Save
<1>. QED  BY <1>3, <1>6

LEMMA ReadFits == PromiseInv /\ (Read \/ RefuseAppend \/ UNCHANGED storeVars) => PromiseInv'
<1> SUFFICES ASSUME PromiseInv, Read \/ RefuseAppend \/ UNCHANGED storeVars PROVE PromiseInv'
  OBVIOUS
<1>1. CASE Read
  <2>1. /\ UNCHANGED <<log, synced, snapshot, snapshotSynced, phase, state, identity, append>>
        /\ UNCHANGED <<saving, history, issued, confirmed, faults>>
    <3>1. ASSUME NEW from, ReadMemory(from) \/ BeginRead(from)
          PROVE  UNCHANGED <<disk, memory, append, saving, history, issued, confirmed, faults>>
      BY <3>1 DEF ReadMemory, BeginRead, witness
    <3>2. CASE FailScan \/ FailClose
      BY <3>2 DEF FailScan, FailClose, AbandonRead, disk, witness
    <3>3. CASE ScanFile \/ CloseRead \/ Reply
      BY <3>3 DEF ScanFile, CloseRead, Reply, disk, memory, witness
    <3>. QED  BY <1>1, <3>1, <3>2, <3>3 DEF Read, disk, memory
  <2>2. ~readOnly' => ~readOnly
    BY <1>1 DEF Read, ReadMemory, BeginRead, ScanFile, FailScan, CloseRead, FailClose, Reply,
       AbandonRead, memory
  <2>3. queue' = queue \/ queue' \in {"idle", "read", "reply"}
    BY <1>1 DEF Read, ReadMemory, BeginRead, ScanFile, FailScan, CloseRead, FailClose, Reply,
       AbandonRead
  <2>4. phase = "open"
    BY <1>1 DEF PromiseInv, MemoryFits, Read, ReadMemory, BeginRead, ScanFile, FailScan,
       CloseRead, FailClose, Reply
  <2>. QED  BY <2>1, <2>2, <2>3, <2>4, QuietFits
<1>2. CASE RefuseAppend
  BY <1>2, QuietFits DEF RefuseAppend, disk, activity, witness
<1>3. CASE UNCHANGED storeVars
  BY <1>3, QuietFits DEF storeVars, disk, memory, activity, witness
<1>. QED  BY <1>1, <1>2, <1>3

-----------------------------------------------------------------------------
(* The environment. *)

\* The log is cut back, or some of its lines are damaged.
LEMMA DamagedFits ==
  ASSUME PromiseInv, NEW lines \in Seq(Line), Len(lines) <= Len(log.lines),
         \A i \in 1..Len(lines) : lines[i] \in {log.lines[i], Damaged}
  PROVE  Len(lines) <= Len(history) + 1 /\ Fits(lines, history)
<1>1. Len(lines) \in Nat /\ Len(log.lines) \in Nat /\ Len(history) \in Nat
  BY LenProperties DEF PromiseInv, FileTypes
<1>2. Len(log.lines) <= Len(history) + 1
  BY DEF PromiseInv, LogFits
<1>3. \A i \in 1..Len(log.lines) : i <= Len(history) => log.lines[i] \in {history[i], Damaged}
  BY DEF PromiseInv, LogFits, Fits
<1>. QED  BY <1>1, <1>2, <1>3 DEF Fits

\* The first lines of the log.
LEMMA CutFits ==
  ASSUME PromiseInv, NEW k \in Nat, k <= Len(log.lines)
  PROVE  LET lines == SubSeq(log.lines, 1, k)
         IN  lines \in Seq(Line) /\ Len(lines) <= Len(history) + 1 /\ Fits(lines, history)
<1> DEFINE lines == SubSeq(log.lines, 1, k)
<1>1. log.lines \in Seq(Line) /\ Len(log.lines) \in Nat
  BY LenProperties DEF PromiseInv, FileTypes
<1>2. \A i \in 1..k : log.lines[i] \in Line
  BY <1>1, ElementOfSeq
<1>3. /\ lines \in Seq(Line) /\ Len(lines) = IF 1 <= k THEN k - 1 + 1 ELSE 0
      /\ \A i \in 1 .. k - 1 + 1 : lines[i] = log.lines[1 + i - 1]
  BY <1>2, SubSeqProperties
<1>4. Len(lines) = k /\ \A i \in 1..k : lines[i] = log.lines[i]
  BY <1>3
<1> HIDE DEF lines
<1>. QED  BY <1>3, <1>4, DamagedFits DEF lines

LEMMA CrashFits == PromiseInv /\ Crash => PromiseInv'
<1> SUFFICES ASSUME PromiseInv, Crash PROVE PromiseInv'
  OBVIOUS
<1> USE DEF PromiseInv
<1>1. /\ phase' = "down" /\ append' = NoAppend /\ queue' = "idle" /\ saving' = <<>>
      /\ read' = NoRead /\ snapshot' \in {snapshot, snapshotSynced}
      /\ UNCHANGED <<snapshotSynced, issued, history, confirmed, faults>>
  BY DEF Crash
<1>2. PICK kept \in synced..Len(log.lines), torn \in BOOLEAN :
        log' = [log EXCEPT !.lines = SubSeq(@, 1, kept), !.torn = torn]
  BY DEF Crash
<1> DEFINE lines == SubSeq(log.lines, 1, kept)
<1>3. log' = [inode |-> log.inode, lines |-> lines, torn |-> torn]
  BY <1>2 DEF FileTypes
<1>4. lines \in Seq(Line) /\ Len(lines) <= Len(history) + 1 /\ Fits(lines, history)
  <2>1. kept \in Nat /\ kept <= Len(log.lines)
    BY LenProperties DEF FileTypes
  <2>. QED  BY <2>1, CutFits
<1>5. log.inode = 0 => lines = <<>>
  <2>1. log.lines = <<>> => lines = <<>>
    <3> SUFFICES ASSUME log.lines = <<>> PROVE kept < 1
      BY SubSeqEmpty
    <3>. QED  BY EmptySeq
  <2>. QED  BY <2>1 DEF LogFits
<1> HIDE DEF lines
<1>6. append'.stage = "none"
      /\ append' = [stage |-> append'.stage, by |-> append'.by, event |-> append'.event,
                    expected |-> append'.expected]
  BY <1>1 DEF NoAppend
<1>7. <<>> \in Seq(Event) /\ Len(<<>>) = 0 /\ Agree(<<>>, history, 0)
  <2>1. Len(history) \in Nat
    BY LenProperties DEF FileTypes
  <2>. QED  BY <2>1, EmptySeq DEF Agree
<1>8. synced' \in Nat
  BY DEF Crash, FileTypes
<1>9. FileTypes'
  BY <1>1, <1>3, <1>4, <1>6, <1>7, <1>8 DEF FileTypes
<1>10. LogFits'
  BY <1>1, <1>3, <1>4, <1>5 DEF LogFits, Fits
<1>11. SnapshotsFit'
  <2>1. Len(snapshotSynced) \in Nat
    BY LenProperties DEF FileTypes
  <2>. QED  BY <1>1, <1>7, <2>1 DEF SnapshotsFit, PartOf, Agree, NotAhead
<1>12. MemoryFits' /\ OpeningFits' /\ AppendFits'
  BY <1>1, <1>6 DEF MemoryFits, OpeningFits, AppendFits, NoRead
<1>. QED  BY <1>9, <1>10, <1>11, <1>12

\* Somebody puts another log in the place of the log.
LEMMA ReplacedFits ==
  ASSUME PromiseInv, UNCHANGED <<snapshot, snapshotSynced, memory, activity>>,
         UNCHANGED <<issued, history, confirmed>>, faults' = faults + 1, synced' \in Nat,
         log' \in [inode: Nat, lines: Seq(Line), torn: BOOLEAN],
         Len(log'.lines) <= Len(history) + 1, Fits(log'.lines, history),
         log'.inode <= faults + 2, log'.inode = 0 => log'.lines = <<>>,
         \/ /\ log'.inode = log.inode /\ Len(log'.lines) = Len(log.lines)
            /\ \A i \in 1..Len(log.lines) : log'.lines[i] \in {log.lines[i], Damaged}
         \/ log'.inode \in {0, faults + 2}
  PROVE  PromiseInv'
<1> USE DEF PromiseInv
<1>1. UNCHANGED <<phase, readOnly, state, identity, append, queue, saving, read>>
  BY DEF memory, activity
<1>2. FileTypes'
  BY <1>1 DEF FileTypes
<1>3. LogFits'
  BY <1>1 DEF LogFits, Fits, FileTypes
<1>4. SnapshotsFit'
  BY <1>1 DEF SnapshotsFit, PartOf, Agree, NotAhead
<1>5. MemoryFits' /\ OpeningFits'
  BY <1>1 DEF MemoryFits, OpeningFits, Fits, PartOf, Agree, FileTypes
<1>6. AppendFits'
  <2> SUFFICES ASSUME append.stage # "none" PROVE AppendFits'
    BY <1>1 DEF AppendFits
  <2>1. append.expected.inode \in 1..faults + 1
    BY DEF AppendFits
  <2>2. CASE log'.inode = append.expected.inode
    <3>1. /\ log'.inode = log.inode /\ Len(log'.lines) = Len(log.lines)
          /\ \A i \in 1..Len(log.lines) : log'.lines[i] \in {log.lines[i], Damaged}
      BY <2>1, <2>2 DEF FileTypes
    <3>2. Len(log.lines) \in Nat /\ (append.stage # "opened" => Len(log.lines) >= 1)
      <4>1. Len(log.lines) \in Nat
        BY LenProperties DEF FileTypes
      <4>2. append.stage # "opened" => log.lines # <<>>
        <5>1. append.stage # "opened" => Len(log.lines) = Len(state) + 1 /\ state \in Seq(Event)
          BY <2>2, <3>1 DEF AppendFits, MemoryFits, FileTypes
        <5>. QED  BY <5>1, LenProperties, EmptySeq DEF FileTypes
      <4>. QED  BY <4>1, <4>2, EmptySeq DEF FileTypes
    <3>3. append.stage # "opened" =>
            log'.lines[Len(log.lines)] \in {log.lines[Len(log.lines)], Damaged}
      BY <3>1, <3>2
    <3>. QED  BY <1>1, <2>1, <2>2, <3>1, <3>3 DEF AppendFits, FileTypes
  <2>3. CASE log'.inode # append.expected.inode
    <3>1. append.event \in Event /\ Len(append.expected.lines) = Len(state)
      BY DEF AppendFits
    <3>2. append'.expected.inode \in 1..faults' + 1
      BY <1>1, <2>1 DEF FileTypes
    <3>. QED  BY <1>1, <2>3, <3>1, <3>2 DEF AppendFits
  <2>. QED  BY <2>2, <2>3
<1>. QED  BY <1>2, <1>3, <1>4, <1>5, <1>6

LEMMA InterfereFits ==
  PromiseInv /\ (RestoreLog \/ RemoveLog \/ DamageLog \/ DamageSnapshot) => PromiseInv'
<1> SUFFICES ASSUME PromiseInv, RestoreLog \/ RemoveLog \/ DamageLog \/ DamageSnapshot
             PROVE  PromiseInv'
  OBVIOUS
<1> USE DEF PromiseInv
<1>1. /\ UNCHANGED <<memory, activity, issued, history, confirmed>> /\ faults' = faults + 1
  BY DEF RestoreLog, RemoveLog, DamageLog, DamageSnapshot, Interfere
<1>2. /\ log.lines \in Seq(Line) /\ Len(log.lines) \in Nat /\ Len(history) \in Nat
      /\ faults \in Nat /\ log.inode \in Nat
  BY LenProperties DEF FileTypes
<1>3. CASE RestoreLog
  <2>1. PICK k \in 0..(Len(log.lines) - 1) :
          /\ log' = [inode |-> faults + 2, lines |-> SubSeq(log.lines, 1, k), torn |-> FALSE]
          /\ synced' = k
    BY <1>3 DEF RestoreLog
  <2> DEFINE lines == SubSeq(log.lines, 1, k)
  <2>2. lines \in Seq(Line) /\ Len(lines) <= Len(history) + 1 /\ Fits(lines, history)
    BY <1>2, CutFits
  <2>3. log' = [inode |-> faults + 2, lines |-> lines, torn |-> FALSE]
    BY <2>1
  <2> HIDE DEF lines
  <2>4. /\ log'.lines = lines /\ log'.inode = faults + 2 /\ log'.inode # 0 /\ synced' \in Nat
        /\ log' \in [inode: Nat, lines: Seq(Line), torn: BOOLEAN]
        /\ UNCHANGED <<snapshot, snapshotSynced>>
    BY <1>2, <1>3, <2>1, <2>2, <2>3 DEF RestoreLog
  <2>. QED  BY <1>1, <1>2, <2>2, <2>4, ReplacedFits
<1>4. CASE RemoveLog
  <2>1. log' = [inode |-> 0, lines |-> <<>>, torn |-> FALSE] /\ synced' = 0
    BY <1>4 DEF RemoveLog, NoFile
  <2>2. <<>> \in Seq(Line) /\ Len(<<>>) = 0
    BY EmptySeq
  <2>3. Fits(<<>>, history)
    BY <2>2 DEF Fits
  <2>. QED  BY <1>1, <1>2, <1>4, <2>1, <2>2, <2>3, ReplacedFits DEF RemoveLog
<1>5. CASE DamageLog
  <2>1. PICK i \in DOMAIN log.lines : log' = [log EXCEPT !.lines[i] = Damaged]
    BY <1>5 DEF DamageLog
  <2> DEFINE lines == [log.lines EXCEPT ![i] = Damaged]
  <2>2. log' = [inode |-> log.inode, lines |-> lines, torn |-> log.torn]
    BY <2>1 DEF FileTypes
  <2>3. /\ lines \in Seq(Line) /\ Len(lines) = Len(log.lines)
        /\ \A j \in 1..Len(log.lines) : lines[j] \in {log.lines[j], Damaged}
    BY <1>2, ExceptSeq, LineNotEvent, LenProperties
  <2> HIDE DEF lines
  <2>4. Len(lines) <= Len(history) + 1 /\ Fits(lines, history)
    BY <1>2, <2>3, DamagedFits
  <2>5. log.inode = 0 => lines = <<>>
    BY <1>2, <2>3, EmptySeq DEF LogFits
  <2>6. log.inode <= faults + 2 /\ UNCHANGED <<synced, snapshot, snapshotSynced>>
    BY <1>2, <1>5 DEF LogFits, DamageLog
  <2>. QED  BY <1>1, <2>2, <2>3, <2>4, <2>5, <2>6, ReplacedFits DEF FileTypes
<1>6. CASE DamageSnapshot
  <2>1. /\ snapshot' = Unverifiable /\ snapshotSynced' = Unverifiable
        /\ UNCHANGED <<log, synced, phase, readOnly, state, identity, append, queue, saving, read>>
    BY <1>1, <1>6 DEF DamageSnapshot, memory, activity
  <2>2. Unverifiable \in Seq(Line)
    BY LineNotEvent DEF Unverifiable
  <2>3. FileTypes' /\ LogFits'
    BY <1>1, <1>2, <2>1, <2>2 DEF FileTypes, LogFits, Fits
  <2>4. SnapshotsFit'
    BY <1>1, <2>1 DEF SnapshotsFit, PartOf, Agree, NotAhead
  <2>5. MemoryFits' /\ OpeningFits' /\ AppendFits'
    BY <1>1, <1>2, <2>1 DEF MemoryFits, OpeningFits, AppendFits, Fits, PartOf
  <2>. QED  BY <2>3, <2>4, <2>5
<1>. QED  BY <1>3, <1>4, <1>5, <1>6

LEMMA InitFits == StoreInit => PromiseInv
<1> SUFFICES ASSUME StoreInit PROVE PromiseInv
  OBVIOUS
<1> USE DEF StoreInit
<1>1. <<>> \in Seq(Event) /\ <<>> \in Seq(Line) /\ Len(<<>>) = 0
  BY EmptySeq
<1>2. log.lines = <<>> /\ log.inode = 0 /\ log \in [inode: Nat, lines: Seq(Line), torn: BOOLEAN]
  BY <1>1 DEF NoFile
<1>3. FileTypes /\ LogFits
  BY <1>1, <1>2 DEF FileTypes, LogFits, Fits, NoAppend
<1>4. SnapshotsFit
  BY <1>1 DEF SnapshotsFit, PartOf, Agree, NotAhead
<1>5. MemoryFits /\ OpeningFits /\ AppendFits
  BY DEF MemoryFits, OpeningFits, AppendFits, NoAppend, NoRead
<1>. QED  BY <1>3, <1>4, <1>5 DEF PromiseInv

LEMMA NextFits == PromiseInv /\ [StoreNext]_storeVars => PromiseInv'
<1>1. PromiseInv /\ Open => PromiseInv'
  BY BeginOpenFits, FinishOpenFits, CreateLogFits DEF Open
<1>2. PromiseInv /\ AppendStep => PromiseInv'
  BY BeginAppendFits, WriteAppendFits, SyncAppendFits, GiveUpFits, CommitAppendFits, ReadFits
  DEF AppendStep
<1>3. PromiseInv /\ Environment => PromiseInv'
  BY CrashFits, InterfereFits DEF Environment
<1>. QED  BY <1>1, <1>2, <1>3, SaveFits, ReadFits DEF StoreNext

-----------------------------------------------------------------------------
(* Every step of the store is one that its client may see. *)

\* An action is a step of DurableLog, or changes nothing that it sees.
Promised == Promise!Next \/ UNCHANGED Promise!vars

LEMMA StopOrStutter ==
  ASSUME (faults' = 0) <=> (faults = 0), UNCHANGED <<history, confirmed>>,
         ~(phase' = "open" /\ ~readOnly') \/ UNCHANGED <<phase, readOnly>>
  PROVE  Promised
BY DEF Promised, Promise!Next, Promise!Stop, Promise!vars

\* The first elements of a sequence.
LEMMA FirstElements ==
  ASSUME NEW s \in Seq(Event), NEW t \in Seq(Event), Len(s) <= Len(t),
         \A i \in 1..Len(s) : t[i] = s[i]
  PROVE  SubSeq(t, 1, Len(s)) = s
<1> DEFINE part == SubSeq(t, 1, Len(s))
<1>1. Len(s) \in Nat /\ Len(t) \in Nat
  BY LenProperties
<1>2. \A i \in 1..Len(s) : t[i] \in Event
  BY <1>1, ElementOfSeq
<1>3. /\ part \in Seq(Event) /\ Len(part) = IF 1 <= Len(s) THEN Len(s) - 1 + 1 ELSE 0
      /\ \A i \in 1 .. Len(s) - 1 + 1 : part[i] = t[1 + i - 1]
  BY <1>1, <1>2, SubSeqProperties
<1> HIDE DEF part
<1>4. Len(part) = Len(s) /\ \A i \in 1..Len(s) : part[i] = s[i]
  BY <1>1, <1>3
<1>5. part = s
  BY <1>3, <1>4, SeqEqual
<1>. QED  BY <1>5 DEF part

\* What a store may serve again: the history, cut at its end or with one event more.
LEMMA ServePromised ==
  ASSUME PromiseInv, NEW s \in Seq(Event), Len(s) <= Len(history) + 1, Fits(s, history),
         Serving(s), faults' = faults, faults = 0 => confirmed <= Len(s),
         ~(phase = "open" /\ ~readOnly), phase' = "open" /\ ~readOnly'
  PROVE  Promised
<1>1. /\ history \in Seq(Event) /\ Len(s) \in Nat /\ Len(history) \in Nat /\ confirmed \in Nat
  BY LenProperties DEF PromiseInv, FileTypes
<1>2. \A i \in 1..Len(s) : i <= Len(history) => s[i] = history[i]
  <2>1. \A i \in 1..Len(s) : s[i] # Damaged
    BY <1>1, ElementOfSeq, LineNotEvent
  <2>. QED  BY <2>1 DEF Fits
<1>3. /\ history' = s
      /\ confirmed' = IF Len(history') < confirmed THEN Len(history') ELSE confirmed
  BY DEF Serving
<1>4. CASE Len(s) <= Len(history)
  <2>1. \A i \in 1..Len(s) : history[i] = s[i]
    BY <1>1, <1>2, <1>4
  <2>2. SubSeq(history, 1, Len(s)) = s
    BY <1>1, <1>4, <2>1, FirstElements
  <2>3. Len(s) \in (IF faults = 0 THEN confirmed ELSE 0) .. Len(history)
    BY <1>1, <1>4
  <2>4. Promise!CutTo(history', IF faults = 0 THEN confirmed ELSE 0)
    BY <1>3, <2>2, <2>3 DEF Promise!CutTo
  <2>5. Promise!Serve
    BY <1>3, <2>4 DEF Promise!Serve
  <2>. QED  BY <2>5 DEF Promised, Promise!Next
<1>5. CASE Len(s) = Len(history) + 1
  <2>1. \A i \in 1..Len(history) : s[i] = history[i]
    BY <1>1, <1>2, <1>5
  <2>2. SubSeq(s, 1, Len(history)) = history
    BY <1>1, <1>5, <2>1, FirstElements
  <2>3. Promise!Extends(history')
    BY <1>3, <1>5, <2>2 DEF Promise!Extends
  <2>4. Promise!Serve
    BY <1>3, <2>3 DEF Promise!Serve
  <2>. QED  BY <2>4 DEF Promised, Promise!Next
<1>. QED  BY <1>1, <1>4, <1>5

\* As long as nobody changed the files, no open() loses what was confirmed.
LEMMA OpenPromised ==
  ASSUME StoreInv, PromiseInv, Open
  PROVE  Promised
<1>0. faults' = faults
  BY DEF Open, BeginOpen, FinishOpen, CreateLog, witness
<1>1. faults = 0 => confirmed <= Len(log.lines)
  <2> SUFFICES ASSUME faults = 0 PROVE confirmed <= Len(log.lines)
    OBVIOUS
  <2>1. Sound
    BY DEF StoreInv
  <2>. QED  BY <2>1, LenProperties DEF Sound, StoreTypes, File, ConfirmedKept
<1>2. CASE BeginOpen
  <2>1. UNCHANGED <<history, confirmed>> /\ phase' = "opening"
    BY <1>2 DEF BeginOpen, witness
  <2>. QED  BY <1>0, <2>1, StopOrStutter
<1>3. CASE FinishOpen
  <2>1. phase = "opening" /\ phase' = "open"
    BY <1>3 DEF FinishOpen
  <2>2. CASE readOnly'
    <3>1. UNCHANGED <<history, confirmed>>
      BY <1>3, <2>2 DEF FinishOpen
    <3>. QED  BY <1>0, <2>1, <2>2, <3>1, StopOrStutter
  <2>3. CASE ~readOnly'
    <3>1. ~readOnly /\ Serving(state)
      BY <1>3, <2>3 DEF FinishOpen
    <3>2. state \in Seq(Event) /\ Len(state) <= Len(history) + 1 /\ Fits(state, history)
      BY <2>1, <3>1 DEF PromiseInv, OpeningFits
    <3>3. faults = 0 => state = log.lines
      <4>1. append.stage = "none"
        BY <2>1 DEF PromiseInv, MemoryFits
      <4>. QED  BY <2>1, <3>1, <4>1 DEF StoreInv, Sound, MemoryKept
    <3>. QED  BY <1>0, <1>1, <2>1, <2>3, <3>1, <3>2, <3>3, ServePromised
  <2>. QED  BY <2>2, <2>3
<1>4. CASE CreateLog
  <2>1. phase = "down" /\ phase' = "open" /\ log.lines = <<>> /\ readOnly' = (snapshot # <<>>)
    BY <1>4 DEF CreateLog, NoFile
  <2>2. CASE snapshot # <<>>
    <3>1. UNCHANGED <<history, confirmed>>
      BY <1>4, <2>1, <2>2 DEF CreateLog
    <3>. QED  BY <1>0, <2>1, <2>2, <3>1, StopOrStutter
  <2>3. CASE snapshot = <<>>
    <3>1. ~readOnly' /\ Serving(<<>>)
      BY <1>4, <2>1, <2>3 DEF CreateLog
    <3>2. <<>> \in Seq(Event) /\ Len(<<>>) = 0 /\ Len(history) \in Nat
      BY EmptySeq, LenProperties DEF PromiseInv, FileTypes
    <3>3. Fits(<<>>, history) /\ 0 <= Len(history) + 1
      BY <3>2 DEF Fits
    <3>. QED  BY <1>0, <1>1, <2>1, <3>1, <3>2, <3>3, ServePromised
  <2>. QED  BY <2>2, <2>3
<1>. QED  BY <1>2, <1>3, <1>4 DEF Open

\* The event an append stores is the next one, also when somebody changed the files or a
\* read left the store read-only while it was under way.
LEMMA CommitPromised ==
  ASSUME PromiseInv, CommitAppend
  PROVE  Promised
<1>1. /\ UNCHANGED <<phase, readOnly, faults>> /\ append.stage = "synced"
      /\ state' = Append(state, append.event) /\ history' = state' /\ confirmed' = Len(state')
  BY DEF CommitAppend
<1>2. /\ state = history /\ append.event \in Event /\ history \in Seq(Event)
      /\ Len(history) \in Nat
  BY <1>1, LenProperties DEF PromiseInv, FileTypes, MemoryFits, AppendFits
<1>3. /\ history' \in Seq(Event) /\ Len(history') = Len(history) + 1
      /\ \A i \in 1..Len(history) : history'[i] = history[i]
  BY <1>1, <1>2, AppendProperties
<1>4. SubSeq(history', 1, Len(history)) = history
  BY <1>2, <1>3, FirstElements
<1>5. Promise!Accept
  BY <1>1, <1>3, <1>4 DEF Promise!Accept, Promise!Extends
<1>. QED  BY <1>5 DEF Promised, Promise!Next

LEMMA AppendPromised ==
  ASSUME PromiseInv, AppendStep
  PROVE  Promised
<1>1. ASSUME NEW by, BeginAppend(by)
      PROVE  Promised
  BY <1>1, StopOrStutter DEF BeginAppend, memory
<1>2. CASE RefuseAppend \/ FailWrite \/ FailSync \/ MissAppend
  <2>1. UNCHANGED <<history, confirmed, faults>> /\ readOnly' = TRUE
    BY <1>2 DEF RefuseAppend, FailWrite, FailSync, MissAppend, GiveUp, witness
  <2>. QED  BY <2>1, StopOrStutter
<1>3. CASE WriteAppend \/ SyncAppend
  <2>1. UNCHANGED <<history, confirmed, faults, phase, readOnly>>
    BY <1>3 DEF WriteAppend, SyncAppend, memory, witness
  <2>. QED  BY <2>1, StopOrStutter
<1>. QED  BY <1>1, <1>2, <1>3, CommitPromised DEF AppendStep

LEMMA OtherPromised ==
  ASSUME PromiseInv, Save \/ Read \/ Environment \/ UNCHANGED storeVars
  PROVE  Promised
<1>1. CASE Save \/ UNCHANGED storeVars
  <2>1. UNCHANGED <<history, confirmed, faults, phase, readOnly>>
    BY <1>1 DEF Save, SkipSave, BeginSave, RenameSave, SyncSave, FailSave, memory, witness,
       storeVars
  <2>. QED  BY <2>1, StopOrStutter
<1>2. CASE Read
  <2>1. ASSUME NEW from, ReadMemory(from) \/ BeginRead(from)
        PROVE  UNCHANGED <<history, confirmed, faults, phase, readOnly>>
    BY <2>1 DEF ReadMemory, BeginRead, memory, witness
  <2>2. CASE FailScan \/ FailClose
    BY <2>2, StopOrStutter DEF FailScan, FailClose, AbandonRead, witness
  <2>3. CASE ScanFile \/ CloseRead \/ Reply
    BY <2>3, StopOrStutter DEF ScanFile, CloseRead, Reply, memory, witness
  <2>. QED  BY <1>2, <2>1, <2>2, <2>3, StopOrStutter DEF Read
<1>3. CASE Crash
  BY <1>3, StopOrStutter DEF Crash
<1>4. CASE RestoreLog \/ RemoveLog \/ DamageLog \/ DamageSnapshot
  <2>1. /\ UNCHANGED <<history, confirmed, phase, readOnly>> /\ faults' = faults + 1
        /\ faults \in Nat
    BY <1>4 DEF RestoreLog, RemoveLog, DamageLog, DamageSnapshot, Interfere, memory,
       PromiseInv, FileTypes
  <2>2. CASE faults = 0
    BY <2>1, <2>2 DEF Promised, Promise!Next, Promise!Interfere
  <2>3. CASE faults # 0
    BY <2>1, <2>3, StopOrStutter
  <2>. QED  BY <2>2, <2>3
<1>. QED  BY <1>1, <1>2, <1>3, <1>4 DEF Environment

\* Whatever crashes and whatever somebody else does to its files, the store serves a history
\* that its client knows, with at most one event more, and while the files are left alone
\* one with every confirmed event in it; for any number of events, reads, crashes, changes.
THEOREM StoreKeepsPromise == StoreSpec => KeepsPromise
<1>1. StoreInit => Promise!Init
  BY DEF StoreInit, Promise!Init
<1>2. StoreInit => StoreInv /\ PromiseInv
  BY StoreInvInitial, InitFits
<1>3. StoreInv /\ PromiseInv /\ [StoreNext]_storeVars => StoreInv' /\ PromiseInv'
  BY StoreInvInductive, NextFits
<1>4. StoreInv /\ PromiseInv /\ [StoreNext]_storeVars => [Promise!Next]_(Promise!vars)
  <2>1. StoreInv /\ PromiseInv /\ [StoreNext]_storeVars => Promised
    BY OpenPromised, AppendPromised, OtherPromised DEF StoreNext
  <2>. QED  BY <2>1 DEF Promised
<1>. QED  BY <1>1, <1>2, <1>3, <1>4, PTL DEF StoreSpec, KeepsPromise, Promise!Spec

=============================================================================
