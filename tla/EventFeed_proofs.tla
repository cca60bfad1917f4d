--------------------------- MODULE EventFeed_proofs ---------------------------
(***************************************************************************)
(* A parent that is subscribed misses no event, its cursor passes no end   *)
(* that it was not told of, and no end is told twice: for any tasks,       *)
(* limits, crashes, lost connections and restarts.                         *)
(***************************************************************************)
EXTENDS EventFeed, TLAPS, WellFoundedInduction

-----------------------------------------------------------------------------
(* Induction over the natural numbers, by the least number that is wrong. *)

LEMMA LeastNumber ==
  ASSUME NEW T, T \subseteq Nat, T # {}
  PROVE  \E least \in T : \A n \in T : least <= n
<1> DEFINE R == OpToRel(<, Nat)
<1>1. \A m, n \in Nat : m < n => <<m, n>> \in R
  BY DEF OpToRel
<1>2. IsWellFoundedOn(R, Nat)
  BY NatLessThanWellFounded
<1> HIDE DEF R
<1>3. PICK least \in T : \A n \in T : ~(<<n, least>> \in R)
  BY <1>2, WFMin
<1>4. ASSUME NEW n \in T
      PROVE  least <= n
  <2>1. least \in Nat /\ n \in Nat /\ ~(n < least)
    BY <1>1, <1>3
  <2>. QED  BY <2>1
<1>. QED  BY <1>3, <1>4

-----------------------------------------------------------------------------
(* Sequences of seqs *)

Ordered(seqs) == \A i, j \in DOMAIN seqs : i < j => seqs[i] < seqs[j]

\* seqs go up from after to last, and leave out no event of log that is not hidden.
Enumerates(log, seqs, after, last) ==
  /\ seqs \in Seq(Nat) /\ Ordered(seqs)
  /\ \A i \in DOMAIN seqs : after < seqs[i] /\ seqs[i] <= last
  /\ \A seq \in (after + 1)..last :
       log[seq] # Hidden => \E i \in DOMAIN seqs : seqs[i] = seq

LEMMA EnumeratesNone ==
  ASSUME NEW log, NEW n \in Nat
  PROVE  Enumerates(log, <<>>, n, n)
<1>1. (n + 1)..n = {}
  OBVIOUS
<1>. QED  BY <1>1 DEF Enumerates, Ordered

\* The next event is added.
LEMMA EnumeratesAppend ==
  ASSUME NEW log, NEW seqs, NEW after \in Nat, NEW last \in Nat, after <= last,
         Enumerates(log, seqs, after, last)
  PROVE  Enumerates(log, Append(seqs, last + 1), after, last + 1)
<1> DEFINE longer == Append(seqs, last + 1)
<1>1. seqs \in Seq(Nat) /\ longer \in Seq(Nat)
  BY DEF Enumerates
<1>2. /\ Len(longer) = Len(seqs) + 1 /\ longer[Len(seqs) + 1] = last + 1
      /\ \A i \in 1..Len(seqs) : longer[i] = seqs[i] /\ seqs[i] \in Nat
      /\ DOMAIN seqs = 1..Len(seqs) /\ DOMAIN longer = 1..(Len(seqs) + 1) /\ Len(seqs) \in Nat
  BY <1>1
<1> HIDE DEF longer
<1>3. \A i \in DOMAIN seqs : after < seqs[i] /\ seqs[i] <= last
  BY DEF Enumerates
<1>4. ASSUME NEW i \in DOMAIN longer
      PROVE  after < longer[i] /\ longer[i] <= last + 1
  <2>1. CASE i = Len(seqs) + 1
    BY <1>2, <2>1
  <2>2. CASE i \in 1..Len(seqs)
    <3>1. longer[i] \in Nat /\ after < longer[i] /\ longer[i] <= last
      BY <1>2, <1>3, <2>2
    <3>. QED  BY <3>1
  <2>. QED  BY <1>2, <2>1, <2>2
<1>5. ASSUME NEW i \in DOMAIN longer, NEW j \in DOMAIN longer, i < j
      PROVE  longer[i] < longer[j]
  <2>1. i \in 1..Len(seqs)
    BY <1>2, <1>5
  <2>2. CASE j = Len(seqs) + 1
    BY <1>2, <1>3, <2>1, <2>2
  <2>3. CASE j \in 1..Len(seqs)
    BY <1>2, <1>5, <2>1, <2>3 DEF Enumerates, Ordered
  <2>. QED  BY <1>2, <2>2, <2>3
<1>6. ASSUME NEW seq \in (after + 1)..(last + 1), log[seq] # Hidden
      PROVE  \E i \in DOMAIN longer : longer[i] = seq
  <2>1. CASE seq = last + 1
    BY <1>2, <2>1
  <2>2. CASE seq <= last
    <3>1. PICK i \in DOMAIN seqs : seqs[i] = seq
      BY <1>6, <2>2 DEF Enumerates
    <3>. QED  BY <1>2, <3>1
  <2>. QED  BY <1>6, <2>1, <2>2
<1>. QED  BY <1>1, <1>4, <1>5, <1>6 DEF Enumerates, Ordered, longer

\* The next event is hidden, and left out.
LEMMA EnumeratesSkip ==
  ASSUME NEW log, NEW seqs, NEW after \in Nat, NEW last \in Nat,
         Enumerates(log, seqs, after, last), log[last + 1] = Hidden
  PROVE  Enumerates(log, seqs, after, last + 1)
<1>1. seqs \in Seq(Nat) /\ Ordered(seqs)
  BY DEF Enumerates
<1>2. ASSUME NEW i \in DOMAIN seqs
      PROVE  after < seqs[i] /\ seqs[i] <= last + 1
  <2>1. seqs[i] \in Nat /\ after < seqs[i] /\ seqs[i] <= last
    BY <1>1 DEF Enumerates
  <2>. QED  BY <2>1
<1>3. ASSUME NEW seq \in (after + 1)..(last + 1), log[seq] # Hidden
      PROVE  \E i \in DOMAIN seqs : seqs[i] = seq
  <2>1. seq <= last
    BY <1>3
  <2>. QED  BY <1>3, <2>1 DEF Enumerates
<1>. QED  BY <1>1, <1>2, <1>3 DEF Enumerates

\* Another log with the same events as far as it matters.
LEMMA EnumeratesSame ==
  ASSUME NEW log, NEW other, NEW seqs, NEW after \in Nat, NEW last \in Nat,
         Enumerates(log, seqs, after, last),
         \A seq \in (after + 1)..last : other[seq] = log[seq]
  PROVE  Enumerates(other, seqs, after, last)
BY DEF Enumerates

\* One enumeration goes on where the other ends.
LEMMA EnumeratesJoin ==
  ASSUME NEW log, NEW first, NEW second,
         NEW a \in Nat, NEW b \in Nat, NEW c \in Nat, a <= b, b <= c,
         Enumerates(log, first, a, b), Enumerates(log, second, b, c)
  PROVE  Enumerates(log, first \o second, a, c)
<1> DEFINE both == first \o second
<1>1. first \in Seq(Nat) /\ second \in Seq(Nat) /\ both \in Seq(Nat)
  BY DEF Enumerates
<1>2. /\ Len(first) \in Nat /\ Len(second) \in Nat
      /\ DOMAIN first = 1..Len(first) /\ DOMAIN second = 1..Len(second)
      /\ DOMAIN both = 1..(Len(first) + Len(second))
      /\ \A i \in 1..Len(first) : both[i] = first[i]
      /\ \A i \in 1..Len(second) : both[Len(first) + i] = second[i]
  BY <1>1
<1> HIDE DEF both
<1>3. \A i \in DOMAIN first : first[i] \in Nat /\ a < first[i] /\ first[i] <= b
  BY <1>1 DEF Enumerates
<1>4. \A i \in DOMAIN second : second[i] \in Nat /\ b < second[i] /\ second[i] <= c
  BY <1>1 DEF Enumerates
<1>5. \A i \in DOMAIN both :
        \/ i \in DOMAIN first /\ both[i] = first[i]
        \/ /\ i - Len(first) \in DOMAIN second /\ i > Len(first)
           /\ both[i] = second[i - Len(first)]
  <2> TAKE i \in DOMAIN both
  <2>1. CASE i <= Len(first)
    BY <1>2, <2>1
  <2>2. CASE i > Len(first)
    <3>1. i - Len(first) \in 1..Len(second) /\ Len(first) + (i - Len(first)) = i
      BY <1>2, <2>2
    <3>. QED  BY <1>2, <2>2, <3>1
  <2>. QED  BY <1>2, <2>1, <2>2
<1>6. ASSUME NEW i \in DOMAIN both
      PROVE  a < both[i] /\ both[i] <= c
  BY <1>3, <1>4, <1>5
<1>7. ASSUME NEW i \in DOMAIN both, NEW j \in DOMAIN both, i < j
      PROVE  both[i] < both[j]
  <2>1. CASE i \in DOMAIN first /\ both[i] = first[i] /\ j \in DOMAIN first /\ both[j] = first[j]
    BY <1>7, <2>1 DEF Enumerates, Ordered
  <2>2. CASE /\ i - Len(first) \in DOMAIN second /\ both[i] = second[i - Len(first)]
             /\ j - Len(first) \in DOMAIN second /\ both[j] = second[j - Len(first)]
    <3>1. i - Len(first) < j - Len(first)
      BY <1>2, <1>7
    <3>. QED  BY <2>2, <3>1 DEF Enumerates, Ordered
  <2>3. CASE /\ i \in DOMAIN first /\ both[i] = first[i]
             /\ j - Len(first) \in DOMAIN second /\ both[j] = second[j - Len(first)]
    BY <1>3, <1>4, <2>3
  <2>4. ~(i > Len(first) /\ j \in DOMAIN first)
    BY <1>2, <1>7
  <2>. QED  BY <1>5, <2>1, <2>2, <2>3, <2>4
<1>8. ASSUME NEW seq \in (a + 1)..c, log[seq] # Hidden
      PROVE  \E i \in DOMAIN both : both[i] = seq
  <2>1. CASE seq <= b
    <3>1. PICK i \in DOMAIN first : first[i] = seq
      BY <1>8, <2>1 DEF Enumerates
    <3>. QED  BY <1>2, <3>1
  <2>2. CASE b < seq
    <3>1. PICK i \in DOMAIN second : second[i] = seq
      BY <1>8, <2>2 DEF Enumerates
    <3>2. Len(first) + i \in DOMAIN both
      BY <1>2
    <3>. QED  BY <1>2, <3>1, <3>2
  <2>. QED  BY <2>1, <2>2
<1>. QED  BY <1>1, <1>6, <1>7, <1>8 DEF Enumerates, Ordered, both

-----------------------------------------------------------------------------
(* The read: a recursive function, and so induction over where it stops *)

\* One step of the read.
Step(upTo, after, seq) ==
  IF seq = after THEN <<>>
  ELSE IF history[seq] # Hidden THEN Append(upTo[seq - 1], seq)
  ELSE upTo[seq - 1]

Reads(upTo, after, last) == upTo = [seq \in after..last |-> Step(upTo, after, seq)]

\* There is a function that satisfies the recursion: it is that of the seq before, and
\* one step more.
LEMMA ReadsExists ==
  ASSUME NEW after \in Nat, NEW last \in Nat, after <= last
  PROVE  \E upTo : Reads(upTo, after, last)
<1> DEFINE Without == {n \in Nat : after <= n /\ ~\E upTo : Reads(upTo, after, n)}
<1> SUFFICES ASSUME Without # {}
             PROVE  FALSE
  OBVIOUS
<1>1. PICK n \in Without : \A m \in Without : n <= m
  <2>1. Without \subseteq Nat
    OBVIOUS
  <2> HIDE DEF Without
  <2>. QED  BY <2>1, LeastNumber
<1>2. n \in Nat /\ after <= n /\ ~\E upTo : Reads(upTo, after, n)
  OBVIOUS
<1>3. n # after
  <2> SUFFICES ASSUME n = after
               PROVE  \E upTo : Reads(upTo, after, after)
    BY <1>2
  <2> DEFINE upTo == [seq \in after..after |-> <<>>]
  <2>1. Reads(upTo, after, after)
    BY DEF Reads, Step
  <2>. QED  BY <2>1
<1>4. n - 1 \in Nat /\ after <= n - 1 /\ n - 1 \notin Without
  BY <1>1, <1>2, <1>3
<1>5. PICK before : Reads(before, after, n - 1)
  BY <1>4
<1> DEFINE upTo == [seq \in after..n |->
                      IF seq = n THEN Step(before, after, n) ELSE before[seq]]
<1>6. ASSUME NEW seq \in after..n
      PROVE  upTo[seq] = Step(upTo, after, seq)
  <2>1. CASE seq = n
    <3>1. n - 1 \in after..n /\ n - 1 # n
      BY <1>2, <1>4
    <3>2. upTo[n - 1] = before[n - 1]
      BY <3>1
    <3>3. upTo[n] = Step(before, after, n)
      BY <1>2
    <3> HIDE DEF upTo
    <3>. QED  BY <2>1, <3>2, <3>3 DEF Step
  <2>2. CASE seq # n
    <3>1. seq \in after..(n - 1) /\ upTo[seq] = before[seq]
      BY <1>2, <2>2
    <3>2. before[seq] = Step(before, after, seq)
      BY <1>5, <3>1 DEF Reads
    <3>3. seq = after \/ upTo[seq - 1] = before[seq - 1]
      BY <1>2, <2>2
    <3> HIDE DEF upTo
    <3>. QED  BY <3>1, <3>2, <3>3 DEF Step
  <2>. QED  BY <2>1, <2>2
<1>7. Reads(upTo, after, n)
  BY <1>6 DEF Reads
<1>. QED  BY <1>2, <1>7

\* The read returns the events after the cursor that the filter lets through, in order.
LEMMA FilteredEnumerates ==
  ASSUME NEW after \in Nat, NEW last \in Nat, after <= last
  PROVE  Enumerates(history, Filtered(after, last), after, last)
<1> DEFINE upTo == CHOOSE f : Reads(f, after, last)
<1>1. Reads(upTo, after, last)
  BY ReadsExists
<1>2. Filtered(after, last) = upTo[last]
  BY DEF Filtered, Reads, Step
<1> HIDE DEF upTo
<1> DEFINE Wrong == {n \in after..last : ~Enumerates(history, upTo[n], after, n)}
<1> SUFFICES ASSUME Wrong # {}
             PROVE  FALSE
  BY <1>2
<1>3. PICK n \in Wrong : \A m \in Wrong : n <= m
  <2>1. Wrong \subseteq Nat
    OBVIOUS
  <2> HIDE DEF Wrong
  <2>. QED  BY <2>1, LeastNumber
<1>4. n \in after..last /\ ~Enumerates(history, upTo[n], after, n)
  OBVIOUS
<1>5. upTo[n] = Step(upTo, after, n)
  BY <1>1, <1>4 DEF Reads
<1>6. n # after
  BY <1>4, <1>5, EnumeratesNone DEF Step
<1>7. n - 1 \in after..last /\ n - 1 \in Nat /\ n = (n - 1) + 1 /\ n - 1 \notin Wrong
  BY <1>3, <1>4, <1>6
<1>8. Enumerates(history, upTo[n - 1], after, n - 1)
  BY <1>7
<1>9. after <= n - 1
  BY <1>7
<1> HIDE DEF Wrong
<1>10. CASE history[n] # Hidden
  <2>1. upTo[n] = Append(upTo[n - 1], n)
    BY <1>5, <1>6, <1>10 DEF Step
  <2>2. Enumerates(history, Append(upTo[n - 1], (n - 1) + 1), after, (n - 1) + 1)
    BY <1>7, <1>8, <1>9, EnumeratesAppend
  <2>. QED  BY <1>4, <1>7, <2>1, <2>2
<1>11. CASE history[n] = Hidden
  <2>1. upTo[n] = upTo[n - 1]
    BY <1>5, <1>6, <1>11 DEF Step
  <2>2. Enumerates(history, upTo[n - 1], after, (n - 1) + 1)
    BY <1>7, <1>8, <1>11, EnumeratesSkip
  <2>. QED  BY <1>4, <1>7, <2>1, <2>2
<1>. QED  BY <1>10, <1>11

-----------------------------------------------------------------------------
(* The invariant *)

\* What was read and buffered so far, and what a connected parent was sent.
LinkInv ==
  /\ ~running => ~open /\ link = "off"
  /\ link # "on" => inbox = <<>> /\ asking = "no"
  /\ asking # "no" => inbox # <<>> /\ Head(inbox).event \in Tasks
  /\ link \in {"reading", "replying"} =>
       /\ from <= cutoff /\ cutoff <= Len(history)
       /\ Enumerates(history, buffer, cutoff, Len(history))
  /\ link = "replying" => Enumerates(history, replay, from, cutoff)
  /\ FeedComplete

\* The cursor goes back only to one that was saved; what was delivered was told; and a
\* parent subscribes from a cursor that it has, or from where it begins to listen.
\* A parent that has registered, which stores an event, is told only of confirmed events.
ConfirmedInv ==
  /\ confirmed <= Len(history)
  /\ link \notin {"off", "greeted"} => confirmed = Len(history)

CursorInv ==
  /\ saved.cursor <= cursor
  /\ ~lost => cursor <= confirmed
  /\ link # "off" => from <= MaxOf(cursor, since)
  /\ \A task \in delivered \union saved.delivered : told[task] > 0
  /\ NonePassedOver

FeedInv == FeedTypeOK /\ LinkInv /\ ConfirmedInv /\ CursorInv

Messages == [seq: Nat, event: Events]

\* box holds every event of log above a seq that is not hidden, once and in order.
Complete(log, box, above) ==
  /\ \A i \in DOMAIN box : box[i].seq \in DOMAIN log /\ box[i].event = log[box[i].seq]
  /\ \A i, j \in DOMAIN box : i < j => box[i].seq < box[j].seq
  /\ \A seq \in DOMAIN log : log[seq] # Hidden /\ seq > above
                               => \E i \in DOMAIN box : box[i].seq = seq

LEMMA FeedCompleteIs ==
  FeedComplete <=> (link = "on" => Complete(history, inbox, MaxOf(from, cursor)))
BY DEF FeedComplete, Complete

\* The first message is handled.
LEMMA CompleteTail ==
  ASSUME NEW log \in Seq(Events), NEW box \in Seq(Messages), box # <<>>,
         NEW above \in Int, NEW higher \in Int, above <= higher, Head(box).seq <= higher,
         Complete(log, box, above)
  PROVE  Complete(log, Tail(box), higher)
<1> DEFINE rest == Tail(box)
<1>1. /\ Len(box) \in Nat /\ Len(box) > 0 /\ DOMAIN box = 1..Len(box) /\ Head(box) = box[1]
      /\ DOMAIN rest = 1..(Len(box) - 1)
      /\ \A i \in DOMAIN rest : rest[i] = box[i + 1] /\ i + 1 \in DOMAIN box
  <2>1. Len(box) \in Nat /\ Len(box) > 0 /\ DOMAIN box = 1..Len(box) /\ Head(box) = box[1]
    OBVIOUS
  <2>2. rest \in Seq(Messages) /\ Len(rest) = Len(box) - 1
    OBVIOUS
  <2>3. DOMAIN rest = 1..(Len(box) - 1)
    BY <2>2
  <2>4. \A i \in 1..(Len(box) - 1) : rest[i] = box[i + 1]
    BY <2>1
  <2>5. \A i \in 1..(Len(box) - 1) : i + 1 \in 1..Len(box)
    BY <2>1
  <2> HIDE DEF rest
  <2>. QED  BY <2>1, <2>3, <2>4, <2>5
<1>2. ASSUME NEW i \in DOMAIN box
      PROVE  box[i].seq \in Nat
  <2>1. box[i] \in Messages
    OBVIOUS
  <2>. QED  BY <2>1 DEF Messages
<1> HIDE DEF rest
<1>3. ASSUME NEW i \in DOMAIN rest
      PROVE  rest[i].seq \in DOMAIN log /\ rest[i].event = log[rest[i].seq]
  <2>1. rest[i] = box[i + 1] /\ i + 1 \in DOMAIN box
    BY <1>1
  <2>. QED  BY <2>1 DEF Complete
<1>4. ASSUME NEW i \in DOMAIN rest, NEW j \in DOMAIN rest, i < j
      PROVE  rest[i].seq < rest[j].seq
  <2>1. i + 1 < j + 1
    BY <1>1, <1>4
  <2>. QED  BY <1>1, <2>1 DEF Complete
<1>5. ASSUME NEW seq \in DOMAIN log, log[seq] # Hidden, seq > higher
      PROVE  \E i \in DOMAIN rest : rest[i].seq = seq
  <2>1. seq > above
    BY <1>5
  <2>2. PICK i \in DOMAIN box : box[i].seq = seq
    BY <1>5, <2>1 DEF Complete
  <2>3. i # 1
    BY <1>1, <1>2, <1>5, <2>2
  <2>4. i - 1 \in DOMAIN rest /\ i = (i - 1) + 1
    BY <1>1, <2>3
  <2>. QED  BY <1>1, <2>2, <2>4
<1>. QED  BY <1>3, <1>4, <1>5 DEF Complete, rest

\* An event is stored, and sent if it is not hidden.
LEMMA CompleteAppend ==
  ASSUME NEW log \in Seq(Events), NEW box \in Seq(Messages), NEW above \in Int,
         NEW event \in Events, Complete(log, box, above)
  PROVE  LET message == [seq |-> Len(log) + 1, event |-> event]
         IN  /\ Complete(Append(log, event), Append(box, message), above)
             /\ event = Hidden => Complete(Append(log, event), box, above)
<1> DEFINE message == [seq |-> Len(log) + 1, event |-> event]
           longer == Append(log, event)
           more == Append(box, message)
<1>1. /\ Len(log) \in Nat /\ DOMAIN log = 1..Len(log) /\ DOMAIN longer = 1..(Len(log) + 1)
      /\ \A i \in 1..Len(log) : longer[i] = log[i]
      /\ longer[Len(log) + 1] = event
  OBVIOUS
<1>2. message \in Messages /\ message.seq = Len(log) + 1 /\ message.event = event
  BY <1>1 DEF Messages
<1> HIDE DEF message
<1>3. /\ Len(box) \in Nat /\ DOMAIN box = 1..Len(box) /\ DOMAIN more = 1..(Len(box) + 1)
      /\ \A i \in 1..Len(box) : more[i] = box[i]
      /\ more[Len(box) + 1] = message
  BY <1>2
<1> HIDE DEF longer, more
<1>4. ASSUME NEW i \in DOMAIN box
      PROVE  /\ box[i].seq \in DOMAIN longer /\ box[i].event = longer[box[i].seq]
             /\ box[i].seq < Len(log) + 1
  BY <1>1 DEF Complete
<1>5. ASSUME NEW i \in DOMAIN more
      PROVE  more[i].seq \in DOMAIN longer /\ more[i].event = longer[more[i].seq]
  BY <1>1, <1>2, <1>3, <1>4
<1>6. ASSUME NEW i \in DOMAIN more, NEW j \in DOMAIN more, i < j
      PROVE  more[i].seq < more[j].seq
  <2>1. CASE j = Len(box) + 1
    <3>1. i \in DOMAIN box /\ more[i] = box[i]
      BY <1>3, <1>6, <2>1
    <3>. QED  BY <1>2, <1>3, <1>4, <2>1, <3>1
  <2>2. CASE j # Len(box) + 1
    <3>1. i \in DOMAIN box /\ more[i] = box[i] /\ j \in DOMAIN box /\ more[j] = box[j]
      BY <1>3, <1>6, <2>2
    <3>. QED  BY <1>6, <3>1 DEF Complete
  <2>. QED  BY <2>1, <2>2
<1>7. ASSUME NEW seq \in DOMAIN longer, longer[seq] # Hidden, seq > above
      PROVE  \/ \E i \in DOMAIN box : box[i].seq = seq
             \/ seq = Len(log) + 1 /\ event # Hidden
  BY <1>1, <1>7 DEF Complete
<1>8. \A seq : (\E i \in DOMAIN box : box[i].seq = seq) \/ seq = Len(log) + 1
                 => \E i \in DOMAIN more : more[i].seq = seq
  BY <1>2, <1>3
<1>9. Complete(longer, more, above)
  BY <1>5, <1>6, <1>7, <1>8 DEF Complete
<1>10. event = Hidden => Complete(longer, box, above)
  BY <1>4, <1>7 DEF Complete
<1>. QED  BY <1>9, <1>10 DEF message, longer, more

\* The replay and the buffer are sent.
LEMMA NumberedComplete ==
  ASSUME NEW seqs, NEW after \in Nat, NEW above \in Int, after <= above,
         history \in Seq(Events), Enumerates(history, seqs, after, Len(history))
  PROVE  Numbered(seqs) \in Seq(Messages) /\ Complete(history, Numbered(seqs), above)
<1> DEFINE box == Numbered(seqs)
<1>1. seqs \in Seq(Nat) /\ Len(seqs) \in Nat /\ DOMAIN seqs = 1..Len(seqs)
  BY DEF Enumerates
<1>2. /\ DOMAIN box = DOMAIN seqs
      /\ \A i \in DOMAIN seqs : box[i].seq = seqs[i] /\ box[i].event = history[seqs[i]]
  BY DEF Numbered
<1>3. ASSUME NEW i \in DOMAIN seqs
      PROVE  seqs[i] \in Nat /\ seqs[i] \in DOMAIN history /\ history[seqs[i]] \in Events
  <2>1. seqs[i] \in Nat /\ after < seqs[i] /\ seqs[i] <= Len(history)
    BY <1>1 DEF Enumerates
  <2>. QED  BY <2>1
<1>4. box \in Seq(Messages)
  <2>1. \A i \in 1..Len(seqs) : box[i] \in Messages
    BY <1>1, <1>3 DEF Numbered, Messages
  <2>2. box = [i \in 1..Len(seqs) |-> box[i]]
    BY <1>1 DEF Numbered
  <2> HIDE DEF box
  <2>. QED  BY <1>1, <2>1, <2>2
<1> HIDE DEF box
<1>5. ASSUME NEW seq \in DOMAIN history, history[seq] # Hidden, seq > above
      PROVE  \E i \in DOMAIN box : box[i].seq = seq
  <2>1. seq \in (after + 1)..Len(history)
    BY <1>5
  <2>. QED  BY <1>2, <1>5, <2>1 DEF Enumerates
<1>. QED  BY <1>2, <1>3, <1>4, <1>5 DEF Complete, Enumerates, Ordered, box

-----------------------------------------------------------------------------
(* Types *)

LEMMA HeadType ==
  ASSUME FeedTypeOK, inbox # <<>>
  PROVE  /\ Head(inbox) \in Messages /\ Head(inbox).seq \in Nat /\ Head(inbox).event \in Events
         /\ Tail(inbox) \in Seq([seq: Nat, event: Events])
<1>1. inbox \in Seq(Messages)
  BY DEF FeedTypeOK, Messages
<1>2. Head(inbox) \in Messages /\ Tail(inbox) \in Seq(Messages)
  BY <1>1
<1>. QED  BY <1>2 DEF Messages

\* #advance.
LEMMA AdvanceType ==
  ASSUME FeedTypeOK, NEW seq \in Nat, NEW keys, keys \subseteq Tasks, Advance(seq, keys)
  PROVE  /\ cursor' \in Nat /\ cursor <= cursor' /\ seq <= cursor'
         /\ cursor' = cursor \/ cursor' = seq
         /\ saved' \in [cursor: Nat \union {NoCursor}, delivered: SUBSET Tasks]
         /\ saved' = saved \/ saved' = [cursor |-> cursor', delivered |-> keys]
<1>1. cursor' = MaxOf(cursor, seq) /\ cursor \in Nat \union {-1}
  BY DEF Advance, FeedTypeOK, NoCursor
<1>2. cursor' \in Nat /\ cursor <= cursor' /\ seq <= cursor' /\ (cursor' = cursor \/ cursor' = seq)
  BY <1>1 DEF MaxOf
<1>3. saved' = saved \/ saved' = [cursor |-> cursor', delivered |-> keys]
  BY DEF Advance
<1>. QED  BY <1>2, <1>3 DEF FeedTypeOK

LEMMA DisconnectedType ==
  ASSUME FeedTypeOK, Disconnected
  PROVE  /\ link' \in {"off", "greeted", "registered", "reading", "replying", "on"}
         /\ from' \in Nat /\ cutoff' \in Nat /\ buffer' \in Seq(Nat) /\ replay' \in Seq(Nat)
         /\ inbox' \in Seq([seq: Nat, event: Events])
         /\ asking' \in {"no", "asked", "answered"}
BY DEF Disconnected, FeedTypeOK

LEMMA AppendEventType ==
  ASSUME FeedTypeOK, NEW event \in Events, AppendEvent(event)
  PROVE  FeedTypeOK'
<1>1. /\ history' = Append(history, event) /\ history' \in Seq(Events)
      /\ Len(history') \in Nat /\ confirmed' = Len(history') /\ UNCHANGED <<open, intact>>
  BY DEF AppendEvent, Log!Accept, FeedTypeOK
<1>2. UNCHANGED <<running, cursor, delivered, saved, told, since, lost, drops, crashes>>
  BY DEF AppendEvent
<1>3. CASE link' = "off" /\ Disconnected
  BY <1>1, <1>2, <1>3, DisconnectedType DEF FeedTypeOK
<1>4. CASE buffer' = Append(buffer, Len(history'))
             /\ UNCHANGED <<link, from, cutoff, replay, inbox, asking>>
  BY <1>1, <1>2, <1>4 DEF FeedTypeOK
<1>5. CASE /\ inbox' = Append(inbox, [seq |-> Len(history'), event |-> event])
           /\ UNCHANGED <<subscription, asking>>
  <2>1. [seq |-> Len(history'), event |-> event] \in [seq: Nat, event: Events]
    BY <1>1
  <2>2. inbox' \in Seq([seq: Nat, event: Events])
    BY <1>5, <2>1 DEF FeedTypeOK
  <2>. QED  BY <1>1, <1>2, <1>5, <2>2 DEF FeedTypeOK, subscription
<1>6. CASE UNCHANGED <<subscription, inbox, asking>>
  BY <1>1, <1>2, <1>6 DEF FeedTypeOK, subscription
<1>. QED  BY <1>3, <1>4, <1>5, <1>6 DEF AppendEvent, Disconnected

LEMMA StartType == FeedTypeOK /\ Start => FeedTypeOK'
<1> SUFFICES ASSUME FeedTypeOK, Start PROVE FeedTypeOK'
  OBVIOUS
<1>1. history' \in Seq(Events) /\ Len(history') \in Nat
  <2>1. ASSUME NEW k \in (IF intact THEN confirmed ELSE 0)..Len(history),
               history' = SubSeq(history, 1, k)
        PROVE  history' \in Seq(Events)
    <3>1. k \in Nat /\ history \in Seq(Events) /\ k <= Len(history)
      BY DEF FeedTypeOK
    <3>2. \A i \in 1..k : history[i] \in Events
      BY <3>1
    <3>. QED  BY <2>1, <3>1, <3>2
  <2>2. ASSUME NEW event \in Events, history' = Append(history, event)
        PROVE  history' \in Seq(Events)
    BY <2>2 DEF FeedTypeOK
  <2>. QED  BY <2>1, <2>2 DEF Start
<1>2. open' = TRUE /\ intact' = intact /\ confirmed' \in Nat
  BY <1>1 DEF Start, Log!Serve, FeedTypeOK
<1>3. running' = TRUE /\ UNCHANGED <<subscription, session, since, drops, crashes>>
      /\ lost' = (lost \/ Len(history') < confirmed)
  BY DEF Start
<1>4. lost' \in BOOLEAN
  BY <1>3
<1>. QED  BY <1>1, <1>2, <1>3, <1>4 DEF FeedTypeOK, subscription, session

LEMMA RegisterType == FeedTypeOK /\ (Register \/ Refuse) => FeedTypeOK'
<1> SUFFICES ASSUME FeedTypeOK, Register \/ Refuse PROVE FeedTypeOK'
  OBVIOUS
<1>1. CASE Register
  <2>1. /\ link' = "registered"
        /\ UNCHANGED <<running, from, cutoff, buffer, replay, session, since, lost, drops, crashes>>
    BY <1>1 DEF Register
  <2>2. history' \in Seq(Events) /\ confirmed' \in Nat /\ UNCHANGED <<open, intact>>
    <3>1. history' = Append(history, Hidden) /\ Log!Accept
      BY <1>1 DEF Register
    <3>2. history' \in Seq(Events)
      BY <3>1 DEF FeedTypeOK, Events
    <3>3. Len(history') \in Nat
      BY <3>2
    <3>. QED  BY <3>1, <3>2, <3>3 DEF Log!Accept
  <2>. QED  BY <2>1, <2>2 DEF FeedTypeOK, session
<1>2. CASE Refuse
  <2>1. /\ Disconnected
        /\ UNCHANGED <<store, running, cursor, delivered, saved, told, since, lost, drops, crashes>>
    BY <1>2 DEF Refuse
  <2>. QED  BY <2>1, DisconnectedType DEF FeedTypeOK, store
<1>. QED  BY <1>1, <1>2

LEMMA TellType == FeedTypeOK /\ LinkInv /\ Tell => FeedTypeOK'
<1> SUFFICES ASSUME FeedTypeOK, LinkInv, Tell PROVE FeedTypeOK'
  OBVIOUS
<1> DEFINE task == Head(inbox).event  seq == Head(inbox).seq
<1>1. inbox # <<>> /\ task \in Tasks
  BY DEF Tell, LinkInv
<1>2. seq \in Nat /\ Tail(inbox) \in Seq([seq: Nat, event: Events])
  BY <1>1, HeadType
<1>3. /\ told' = [told EXCEPT ![task] = @ + 1] /\ delivered' = delivered \union {task}
      /\ cursor' = MaxOf(cursor, seq) /\ asking' = "no" /\ inbox' = Tail(inbox)
      /\ saved' = [cursor |-> MaxOf(saved.cursor, seq),
                   delivered |-> saved.delivered \union {task}]
      /\ UNCHANGED <<store, running, subscription, since, lost, drops, crashes>>
  BY DEF Tell
<1> HIDE DEF task, seq
<1>4. \A c \in Nat \union {NoCursor} : MaxOf(c, seq) \in Nat \union {NoCursor}
  BY <1>2 DEF MaxOf
<1>5. told' \in [Tasks -> Nat]
  <2>1. told \in [Tasks -> Nat]
    BY DEF FeedTypeOK
  <2>2. \A t \in Tasks : told[t] + 1 \in Nat
    BY <2>1
  <2>. QED  BY <1>3, <2>1, <2>2
<1>6. saved' \in [cursor: Nat \union {NoCursor}, delivered: SUBSET Tasks]
  BY <1>1, <1>3, <1>4 DEF FeedTypeOK
<1>. QED  BY <1>1, <1>2, <1>3, <1>4, <1>5, <1>6 DEF FeedTypeOK, store, subscription

LEMMA FeedTypeStep == FeedTypeOK /\ LinkInv /\ [FeedNext]_feedVars => FeedTypeOK'
<1> SUFFICES ASSUME FeedTypeOK, LinkInv, [FeedNext]_feedVars PROVE FeedTypeOK'
  OBVIOUS
<1> USE DEF store, subscription, session
<1>1. CASE Broker
  <2>1. CASE StopStore \/ Interfere
    BY <2>1 DEF StopStore, Interfere, Log!Stop, Log!Interfere, FeedTypeOK
  <2>2. CASE Crash
    <3>1. crashes' \in Nat /\ running' \in BOOLEAN /\ open' \in BOOLEAN /\ Disconnected
          /\ UNCHANGED <<history, confirmed, intact, cursor, delivered, saved, told, since,
                         lost, drops>>
      <4>1. /\ crashes' = crashes + 1 /\ running' = FALSE /\ open' = FALSE /\ Disconnected
            /\ UNCHANGED <<history, confirmed, intact, cursor, delivered, saved, told, since,
                           lost, drops>>
        BY <2>2 DEF Crash
      <4>2. crashes \in Nat
        BY DEF FeedTypeOK
      <4>3. crashes' \in Nat
        BY <4>1, <4>2
      <4>4. running' \in BOOLEAN /\ open' \in BOOLEAN
        BY <4>1
      <4>. QED  BY <4>1, <4>3, <4>4
    <3>. QED  BY <3>1, DisconnectedType DEF FeedTypeOK
  <2>. QED  BY <1>1, <2>1, <2>2, AppendEventType, StartType DEF Broker
<1>2. CASE Connect
  <2>1. from' \in Nat
    BY <1>2 DEF Connect, MinOf, FeedTypeOK
  <2>. QED  BY <1>2, <2>1 DEF Connect, FeedTypeOK
<1>3. CASE Subscribe
  BY <1>3 DEF Subscribe, FeedTypeOK
<1>4. CASE FinishRead
  <2>1. Enumerates(history, replay', from, cutoff)
    BY <1>4, FilteredEnumerates DEF FinishRead, FeedTypeOK, LinkInv
  <2>2. replay' \in Seq(Nat)
    BY <2>1 DEF Enumerates
  <2>. QED  BY <1>4, <2>2 DEF FinishRead, FeedTypeOK
<1>5. CASE FailRead \/ Drop \/ Restart
  <2>1. /\ drops' \in Nat /\ open' \in BOOLEAN /\ Disconnected
        /\ cursor' \in Nat \union {NoCursor} /\ delivered' \subseteq Tasks
        /\ UNCHANGED <<history, confirmed, intact, running, saved, told, since, lost, crashes>>
    <3>1. drops \in Nat /\ open \in BOOLEAN /\ delivered \subseteq Tasks
          /\ cursor \in Nat \union {NoCursor} /\ saved.cursor \in Nat \union {NoCursor}
          /\ saved.delivered \subseteq Tasks
      BY DEF FeedTypeOK
    <3>2. CASE FailRead
      <4>1. /\ drops' = drops + 1 /\ open' = FALSE /\ Disconnected
            /\ UNCHANGED <<history, confirmed, intact, running, cursor, delivered, saved, told,
                           since, lost, crashes>>
        BY <3>2 DEF FailRead, Log!Stop
      <4>2. open' \in BOOLEAN
        BY <4>1
      <4>. QED  BY <3>1, <4>1, <4>2
    <3>3. CASE Drop
      BY <3>1, <3>3 DEF Drop
    <3>4. CASE Restart
      BY <3>1, <3>4 DEF Restart
    <3>. QED  BY <1>5, <3>2, <3>3, <3>4
  <2>. QED  BY <2>1, DisconnectedType DEF FeedTypeOK
<1>6. CASE Reply
  <2>1. Enumerates(history, replay \o buffer, from, Len(history))
    BY <1>6, EnumeratesJoin DEF Reply, LinkInv, FeedTypeOK
  <2>2. Numbered(replay \o buffer) \in Seq(Messages)
    <3>1. from \in Nat /\ from \in Int /\ from <= from /\ history \in Seq(Events)
      BY DEF FeedTypeOK
    <3>. QED  BY <2>1, <3>1, NumberedComplete
  <2>3. inbox' \in Seq([seq: Nat, event: Events])
    BY <1>6, <2>2 DEF Reply, Messages
  <2>. QED  BY <1>6, <2>3 DEF Reply, FeedTypeOK
<1>7. CASE Ignore
  BY <1>7, HeadType DEF Ignore, HandleNext, FeedTypeOK
<1>8. CASE PassOver
  <2>1. Advance(Head(inbox).seq, saved.delivered) /\ inbox # <<>> /\ saved.delivered \subseteq Tasks
    BY <1>8 DEF PassOver, HandleNext, FeedTypeOK
  <2>. QED  BY <1>8, <2>1, HeadType, AdvanceType DEF PassOver, FeedTypeOK
<1>9. CASE Ask \/ Answer
  BY <1>9 DEF Ask, Answer, FeedTypeOK
<1>10. CASE TellNoMore
  <2>1. /\ Advance(Head(inbox).seq, saved.delivered \union {Head(inbox).event})
        /\ inbox # <<>> /\ Head(inbox).event \in Tasks
        /\ saved.delivered \union {Head(inbox).event} \subseteq Tasks
    BY <1>10 DEF TellNoMore, LinkInv, FeedTypeOK
  <2>. QED  BY <1>10, <2>1, HeadType, AdvanceType DEF TellNoMore, FeedTypeOK
<1>11. CASE UNCHANGED feedVars
  BY <1>11 DEF feedVars, FeedTypeOK
<1>. QED  BY <1>1, <1>2, <1>3, <1>4, <1>5, <1>6, <1>7, <1>8, <1>9, <1>10, <1>11, TellType,
             RegisterType DEF FeedNext, Subscription, Parent

-----------------------------------------------------------------------------
(* The subscription *)

LEMMA LinkSame ==
  ASSUME LinkInv, UNCHANGED <<history, link, from, cutoff, buffer, replay, inbox, asking, cursor>>,
         ~running' => ~open' /\ link' = "off"
  PROVE  LinkInv'
BY DEF LinkInv, FeedComplete, Enumerates, Ordered, MaxOf

LEMMA LinkOff ==
  ASSUME Disconnected, ~running' => ~open'
  PROVE  LinkInv'
BY DEF LinkInv, FeedComplete, Disconnected

LEMMA LinkAppend ==
  ASSUME FeedTypeOK, LinkInv, NEW event \in Events, AppendEvent(event)
  PROVE  LinkInv'
<1>1. /\ history' = Append(history, event) /\ history \in Seq(Events) /\ Len(history) \in Nat
      /\ Len(history') = Len(history) + 1
      /\ \A seq \in 1..Len(history) : history'[seq] = history[seq]
      /\ history'[Len(history) + 1] = event
      /\ from \in Nat /\ cutoff \in Nat
  BY DEF AppendEvent, FeedTypeOK
<1>2. running /\ UNCHANGED running /\ UNCHANGED cursor
  BY DEF AppendEvent, LinkInv
<1>3. CASE Disconnected
  BY <1>2, <1>3, LinkOff
<1>4. CASE link \notin {"reading", "replying", "on"} /\ UNCHANGED <<subscription, inbox, asking>>
  BY <1>2, <1>4 DEF LinkInv, FeedComplete, subscription
<1>5. CASE /\ link \in {"reading", "replying"}
           /\ \/ buffer' = Append(buffer, Len(history'))
              \/ buffer' = buffer /\ event = Hidden
           /\ UNCHANGED <<link, from, cutoff, replay, inbox, asking>>
  <2>1. /\ from <= cutoff /\ cutoff <= Len(history)
        /\ Enumerates(history, buffer, cutoff, Len(history))
        /\ link = "replying" => Enumerates(history, replay, from, cutoff)
    BY <1>5 DEF LinkInv
  <2>2. Enumerates(history', buffer, cutoff, Len(history))
    <3>1. \A seq \in (cutoff + 1)..Len(history) : history'[seq] = history[seq]
      BY <1>1, <2>1
    <3>. QED  BY <1>1, <2>1, <3>1, EnumeratesSame
  <2>3. Enumerates(history', Append(buffer, Len(history) + 1), cutoff, Len(history) + 1)
    BY <1>1, <2>1, <2>2, EnumeratesAppend
  <2>4. event = Hidden => Enumerates(history', buffer, cutoff, Len(history) + 1)
    BY <1>1, <2>1, <2>2, EnumeratesSkip
  <2>5. Enumerates(history', buffer', cutoff, Len(history'))
    BY <1>1, <1>5, <2>3, <2>4
  <2>6. link = "replying" => Enumerates(history', replay, from, cutoff)
    <3>1. \A seq \in (from + 1)..cutoff : history'[seq] = history[seq]
      BY <1>1, <2>1
    <3>. QED  BY <1>1, <2>1, <3>1, EnumeratesSame
  <2>7. from <= cutoff /\ cutoff <= Len(history')
    BY <1>1, <2>1
  <2>. QED  BY <1>2, <1>5, <2>5, <2>6, <2>7 DEF LinkInv, FeedComplete
<1>6. CASE /\ link = "on"
           /\ \/ inbox' = Append(inbox, [seq |-> Len(history'), event |-> event])
              \/ inbox' = inbox /\ event = Hidden
           /\ UNCHANGED <<subscription, asking>>
  <2>1. inbox \in Seq(Messages) /\ MaxOf(from, cursor) \in Int
    BY DEF FeedTypeOK, Messages, MaxOf, NoCursor
  <2>2. Complete(history, inbox, MaxOf(from, cursor))
    BY <1>6, FeedCompleteIs DEF LinkInv
  <2>3. Complete(history', inbox', MaxOf(from, cursor))
    BY <1>1, <1>6, <2>1, <2>2, CompleteAppend
  <2>4. FeedComplete'
    BY <1>2, <1>6, <2>3 DEF FeedComplete, Complete, MaxOf, subscription
  <2>5. asking # "no" => inbox' # <<>> /\ Head(inbox') = Head(inbox) /\ Head(inbox).event \in Tasks
    <3> SUFFICES ASSUME asking # "no"
                 PROVE  inbox' # <<>> /\ Head(inbox') = Head(inbox) /\ Head(inbox).event \in Tasks
      OBVIOUS
    <3>1. inbox # <<>> /\ Head(inbox).event \in Tasks
      BY DEF LinkInv
    <3>2. [seq |-> Len(history'), event |-> event] \in Messages
      BY <1>1 DEF Messages
    <3>. QED  BY <1>6, <2>1, <3>1, <3>2
  <2>. QED  BY <1>2, <1>6, <2>4, <2>5 DEF LinkInv, subscription
<1>7. \/ Disconnected
      \/ link \notin {"reading", "replying", "on"} /\ UNCHANGED <<subscription, inbox, asking>>
      \/ /\ link \in {"reading", "replying"}
         /\ buffer' = Append(buffer, Len(history')) \/ (buffer' = buffer /\ event = Hidden)
         /\ UNCHANGED <<link, from, cutoff, replay, inbox, asking>>
      \/ /\ link = "on"
         /\ \/ inbox' = Append(inbox, [seq |-> Len(history'), event |-> event])
            \/ inbox' = inbox /\ event = Hidden
         /\ UNCHANGED <<subscription, asking>>
  BY DEF AppendEvent, Matches, subscription
<1>. QED  BY <1>3, <1>4, <1>5, <1>6, <1>7

\* The first message is handled, and the cursor passes it.
LEMMA LinkTail ==
  ASSUME FeedTypeOK, LinkInv, inbox # <<>>, link = "on", inbox' = Tail(inbox), asking' = "no",
         cursor' \in Nat \union {NoCursor}, cursor <= cursor', Head(inbox).seq <= cursor',
         UNCHANGED <<history, open, running, link, from>>
  PROVE  LinkInv'
<1>1. /\ inbox \in Seq(Messages) /\ history \in Seq(Events)
      /\ Head(inbox).seq \in Nat
      /\ from \in Nat /\ cursor \in Int /\ cursor' \in Int
  BY HeadType DEF FeedTypeOK, Messages, NoCursor
<1>2. /\ MaxOf(from, cursor) \in Int /\ MaxOf(from, cursor') \in Int
      /\ MaxOf(from, cursor) <= MaxOf(from, cursor') /\ Head(inbox).seq <= MaxOf(from, cursor')
  BY <1>1 DEF MaxOf
<1>3. Complete(history, inbox, MaxOf(from, cursor))
  BY FeedCompleteIs DEF LinkInv
<1>4. Complete(history, Tail(inbox), MaxOf(from, cursor'))
  BY <1>1, <1>2, <1>3, CompleteTail
<1>5. FeedComplete'
  BY <1>4 DEF FeedComplete, Complete, MaxOf
<1>. QED  BY <1>5 DEF LinkInv

LEMMA LinkStep == FeedTypeOK /\ LinkInv /\ [FeedNext]_feedVars => LinkInv'
<1> SUFFICES ASSUME FeedTypeOK, LinkInv, [FeedNext]_feedVars PROVE LinkInv'
  OBVIOUS
<1> USE DEF store, subscription, session
<1>1. ~running => ~open /\ link = "off"
  BY DEF LinkInv
<1>2. inbox # <<>> => link = "on"
  BY DEF LinkInv
<1>3. CASE StopStore \/ Interfere
  BY <1>1, <1>3, LinkSame DEF StopStore, Interfere, Log!Stop, Log!Interfere
<1>4. CASE Crash
  BY <1>4, LinkOff DEF Crash
<1>5. CASE Start
  <2>1. link' = "off" /\ inbox' = <<>> /\ asking' = "no" /\ running' = TRUE
    BY <1>5 DEF Start, LinkInv
  <2>. QED  BY <2>1 DEF LinkInv, FeedComplete
<1>6. CASE Connect
  <2>1. link' = "greeted" /\ inbox' = <<>> /\ asking' = "no" /\ running' = TRUE
    BY <1>6 DEF Connect, LinkInv, FeedTypeOK
  <2>. QED  BY <2>1 DEF LinkInv, FeedComplete
<1>7. CASE Subscribe
  <2>1. /\ link' = "reading" /\ cutoff' = Len(history') /\ buffer' = <<>> /\ from' <= cutoff'
        /\ inbox' = <<>> /\ asking' = "no" /\ running' /\ Len(history') \in Nat
    BY <1>7 DEF Subscribe, LinkInv, FeedTypeOK
  <2>2. Enumerates(history', buffer', cutoff', Len(history'))
    BY <2>1, EnumeratesNone
  <2>. QED  BY <2>1, <2>2 DEF LinkInv, FeedComplete
<1>8. CASE FinishRead
  <2>1. Enumerates(history, replay', from, cutoff)
    BY <1>8, FilteredEnumerates DEF FinishRead, FeedTypeOK, LinkInv
  <2>2. /\ link = "reading" /\ link' = "replying"
        /\ UNCHANGED <<history, open, running, from, cutoff, buffer, inbox, asking>>
    BY <1>8 DEF FinishRead
  <2>. QED  BY <2>1, <2>2 DEF LinkInv, FeedComplete
<1>9. CASE FailRead \/ Drop \/ Restart
  <2>1. Disconnected
    BY <1>9 DEF FailRead, Drop, Restart
  <2>2. ~running' => ~open'
    BY <1>1, <1>9 DEF FailRead, Drop, Restart, Log!Stop
  <2>. QED  BY <2>1, <2>2, LinkOff
<1>10. CASE Reply
  <2>1. Enumerates(history, replay \o buffer, from, Len(history))
    BY <1>10, EnumeratesJoin DEF Reply, LinkInv, FeedTypeOK
  <2>2. Complete(history, Numbered(replay \o buffer), MaxOf(from, cursor))
    <3>1. /\ from \in Nat /\ MaxOf(from, cursor) \in Int /\ from <= MaxOf(from, cursor)
          /\ history \in Seq(Events)
      BY DEF FeedTypeOK, MaxOf, NoCursor
    <3>. QED  BY <2>1, <3>1, NumberedComplete
  <2>3. /\ link' = "on" /\ inbox' = Numbered(replay \o buffer) /\ asking' = "no" /\ running'
        /\ UNCHANGED <<history, from, cursor>>
    BY <1>10 DEF Reply, LinkInv
  <2>4. FeedComplete'
    BY <2>2, <2>3 DEF FeedComplete, Complete, MaxOf
  <2>. QED  BY <2>3, <2>4 DEF LinkInv
<1>11. CASE Ignore
  <2>1. cursor' = cursor /\ Head(inbox).seq <= cursor' /\ cursor <= cursor'
    BY <1>11 DEF Ignore, Passed, FeedTypeOK, NoCursor
  <2>. QED  BY <1>2, <1>11, <2>1, LinkTail DEF Ignore, HandleNext, FeedTypeOK
<1>12. CASE PassOver
  <2>1. Advance(Head(inbox).seq, saved.delivered) /\ inbox # <<>> /\ saved.delivered \subseteq Tasks
    BY <1>12 DEF PassOver, HandleNext, FeedTypeOK
  <2>2. cursor' \in Nat /\ cursor <= cursor' /\ Head(inbox).seq <= cursor'
    BY <2>1, HeadType, AdvanceType
  <2>. QED  BY <1>2, <1>12, <2>1, <2>2, LinkTail DEF PassOver, HandleNext
<1>13. CASE Ask
  BY <1>2, <1>13 DEF Ask, HandleNext, LinkInv, FeedComplete
<1>14. CASE Answer
  BY <1>14 DEF Answer, LinkInv, FeedComplete
<1>15. CASE Tell
  <2>1. inbox # <<>> /\ asking' = "no" /\ inbox' = Tail(inbox)
        /\ cursor' = MaxOf(cursor, Head(inbox).seq)
        /\ UNCHANGED <<history, open, running, link, from>>
    BY <1>15 DEF Tell, LinkInv
  <2>2. cursor \in Nat \union {-1} /\ Head(inbox).seq \in Nat
    BY <2>1, HeadType DEF FeedTypeOK, NoCursor
  <2>3. cursor' \in Nat /\ cursor <= cursor' /\ Head(inbox).seq <= cursor'
    BY <2>1, <2>2 DEF MaxOf
  <2>. QED  BY <1>2, <2>1, <2>3, LinkTail
<1>16. CASE TellNoMore
  <2>1. /\ Advance(Head(inbox).seq, saved.delivered \union {Head(inbox).event})
        /\ inbox # <<>> /\ saved.delivered \union {Head(inbox).event} \subseteq Tasks
        /\ asking' = "no" /\ inbox' = Tail(inbox)
        /\ UNCHANGED <<history, open, running, link, from>>
    BY <1>16 DEF TellNoMore, LinkInv, FeedTypeOK
  <2>2. cursor' \in Nat /\ cursor <= cursor' /\ Head(inbox).seq <= cursor'
    BY <2>1, HeadType, AdvanceType
  <2>. QED  BY <1>2, <2>1, <2>2, LinkTail
<1>17. CASE UNCHANGED feedVars
  BY <1>1, <1>17, LinkSame DEF feedVars
<1>18. CASE Register
  <2>1. /\ link' = "registered" /\ inbox' = <<>> /\ asking' = "no"
        /\ running /\ running' = running
    BY <1>1, <1>18 DEF Register, LinkInv
  <2>. QED  BY <2>1 DEF LinkInv, FeedComplete
<1>19. CASE Refuse
  <2>1. Disconnected /\ (~running' => ~open')
    BY <1>1, <1>19 DEF Refuse
  <2>. QED  BY <2>1, LinkOff
<1>. QED  BY <1>3, <1>4, <1>5, <1>6, <1>7, <1>8, <1>9, <1>10, <1>11, <1>12, <1>13, <1>14, <1>15,
             <1>16, <1>17, <1>18, <1>19, LinkAppend DEF FeedNext, Broker, Subscription, Parent

-----------------------------------------------------------------------------
(* What is confirmed *)

LEMMA ConfirmedStart == FeedTypeOK /\ LinkInv /\ ConfirmedInv /\ Start => ConfirmedInv'
<1> SUFFICES ASSUME FeedTypeOK, LinkInv, ConfirmedInv, Start PROVE ConfirmedInv'
  OBVIOUS
<1>1. link' = "off" /\ confirmed \in Nat
  BY DEF Start, LinkInv, subscription, FeedTypeOK
<1>2. Len(history') \in Nat
  BY StartType DEF FeedTypeOK
<1>3. confirmed' = IF Len(history') < confirmed THEN Len(history') ELSE confirmed
  BY DEF Start, Log!Serve
<1>. QED  BY <1>1, <1>2, <1>3 DEF ConfirmedInv

LEMMA ConfirmedStep ==
  FeedTypeOK /\ LinkInv /\ ConfirmedInv /\ [FeedNext]_feedVars => ConfirmedInv'
<1> SUFFICES ASSUME FeedTypeOK, LinkInv, ConfirmedInv, [FeedNext]_feedVars PROVE ConfirmedInv'
  OBVIOUS
<1> USE DEF ConfirmedInv
<1>1. ASSUME NEW event \in Events, AppendEvent(event)
      PROVE  ConfirmedInv'
  <2>1. Len(history') \in Nat /\ confirmed' = Len(history')
    BY <1>1 DEF AppendEvent, Log!Accept, FeedTypeOK
  <2>. QED  BY <2>1
<1>2. CASE Register
  <2>1. Len(history') \in Nat /\ confirmed' = Len(history')
    BY <1>2 DEF Register, Log!Accept, FeedTypeOK
  <2>. QED  BY <2>1
<1>3. CASE StopStore \/ Interfere \/ Crash
  BY <1>3 DEF StopStore, Interfere, Crash, Log!Stop, Log!Interfere, Disconnected, subscription
<1>4. CASE Connect \/ Refuse \/ Subscribe \/ FinishRead \/ FailRead \/ Reply \/ Drop
  BY <1>4 DEF Connect, Refuse, Subscribe, FinishRead, FailRead, Reply, Drop, Disconnected,
     Log!Stop, store
<1>5. CASE Parent
  BY <1>5 DEF Parent, Ignore, PassOver, Ask, Answer, Tell, TellNoMore, Restart, Disconnected,
     store, subscription
<1>6. CASE UNCHANGED feedVars
  BY <1>6 DEF feedVars, store, subscription
<1>. QED  BY <1>1, <1>2, <1>3, <1>4, <1>5, <1>6, ConfirmedStart DEF FeedNext, Broker, Subscription

-----------------------------------------------------------------------------
(* The cursor *)

\* What was told stays told.
ToldGrows == \A task \in Tasks : told[task] > 0 => told'[task] > 0

\* The cursor passes the first message, which ends nothing or whose end is told: what lies
\* between the two was sent, and so is hidden.
LEMMA CursorPasses ==
  ASSUME FeedTypeOK, LinkInv, ConfirmedInv, CursorInv, inbox # <<>>, link = "on",
         cursor' = MaxOf(cursor, Head(inbox).seq), ToldGrows,
         Head(inbox).event \in Tasks => told'[Head(inbox).event] > 0,
         saved'.cursor <= cursor',
         \A task \in delivered' \union saved'.delivered : told'[task] > 0,
         UNCHANGED <<history, confirmed, link, from, since, lost>>
  PROVE  CursorInv'
<1> DEFINE head == Head(inbox)
<1>1. /\ inbox \in Seq(Messages) /\ head = inbox[1] /\ 1 \in DOMAIN inbox
      /\ DOMAIN inbox \subseteq Nat /\ head.seq \in Nat
      /\ from \in Nat /\ since \in Nat /\ cursor \in Int /\ Len(history) \in Nat
      /\ DOMAIN history = 1..Len(history) /\ history \in Seq(Events)
  BY HeadType DEF FeedTypeOK, Messages, NoCursor
<1>2. Complete(history, inbox, MaxOf(from, cursor))
  BY FeedCompleteIs DEF LinkInv
<1>3. \A i \in DOMAIN inbox : inbox[i].seq \in Nat
  BY <1>1, <1>2 DEF Complete
<1>4. head.seq \in DOMAIN history /\ head.event = history[head.seq]
  BY <1>1, <1>2 DEF Complete
<1> HIDE DEF head
<1>5. /\ cursor' \in Nat /\ cursor <= cursor' /\ head.seq <= cursor'
      /\ cursor' = cursor \/ cursor' = head.seq
  BY <1>1 DEF MaxOf, head
<1>6. \A seq \in DOMAIN history :
        seq < head.seq /\ seq > MaxOf(from, cursor) => history[seq] = Hidden
  <2> SUFFICES ASSUME NEW seq \in DOMAIN history, seq < head.seq, seq > MaxOf(from, cursor),
                      history[seq] # Hidden
               PROVE  FALSE
    OBVIOUS
  <2>1. PICK i \in DOMAIN inbox : inbox[i].seq = seq
    BY <1>2 DEF Complete
  <2>2. ~(1 < i)
    BY <1>1, <1>2, <1>3, <2>1 DEF Complete
  <2>3. i = 1
    BY <1>1, <2>2
  <2>. QED  BY <1>1, <2>1, <2>3
<1>7. ~lost => cursor' <= confirmed
  BY <1>1, <1>4, <1>5 DEF ConfirmedInv, CursorInv
<1>8. from <= MaxOf(cursor', since)
  BY <1>1, <1>5 DEF CursorInv, MaxOf
<1>9. ASSUME ~lost, NEW seq \in DOMAIN history, history[seq] \in Tasks, since < seq, seq <= cursor'
      PROVE  told'[history[seq]] > 0
  <2>1. CASE seq <= cursor
    BY <1>9, <2>1 DEF CursorInv, NonePassedOver, ToldGrows
  <2>2. CASE seq > cursor
    <3>1. cursor' = head.seq /\ seq <= head.seq
      BY <1>1, <1>5, <1>9, <2>2
    <3>2. seq > MaxOf(from, cursor)
      BY <1>1, <1>9, <2>2 DEF CursorInv, MaxOf
    <3>3. history[seq] # Hidden
      BY <1>9, EventFeedAssumption
    <3>4. seq = head.seq
      BY <1>1, <1>6, <3>1, <3>2, <3>3
    <3>. QED  BY <1>4, <1>9, <3>4 DEF head
  <2>. QED  BY <1>1, <2>1, <2>2
<1>10. NonePassedOver'
  BY <1>9 DEF NonePassedOver
<1>. QED  BY <1>7, <1>8, <1>10 DEF CursorInv

\* Nothing of the parent changes, and no link that was up begins.
LEMMA CursorSame ==
  ASSUME FeedTypeOK, CursorInv,
         UNCHANGED <<history, confirmed, cursor, delivered, saved, told, since, lost>>,
         link' = "off" \/ (link # "off" /\ from' = from)
  PROVE  CursorInv'
BY DEF CursorInv, NonePassedOver, MaxOf

LEMMA CursorAppend ==
  ASSUME FeedTypeOK, ConfirmedInv, CursorInv, NEW event \in Events,
         history' = Append(history, event), confirmed <= confirmed', confirmed' \in Nat,
         link' = "off" \/ (link # "off" /\ from' = from) \/ (link' = link /\ from' = from),
         UNCHANGED <<cursor, delivered, saved, told, since>>, ~lost' => ~lost
  PROVE  CursorInv'
<1>1. /\ history \in Seq(Events) /\ Len(history) \in Nat /\ DOMAIN history = 1..Len(history)
      /\ Len(history') = Len(history) + 1 /\ DOMAIN history' = 1..(Len(history) + 1)
      /\ \A seq \in DOMAIN history : history'[seq] = history[seq]
      /\ cursor \in Int /\ confirmed \in Nat
  BY DEF FeedTypeOK, NoCursor
<1>2. ~lost' => cursor <= Len(history) /\ cursor <= confirmed'
  <2>1. ~lost' => cursor <= confirmed
    BY Zenon DEF CursorInv
  <2>2. confirmed <= Len(history) /\ Len(history) \in Nat
    BY <1>1 DEF ConfirmedInv
  <2>3. cursor <= confirmed => cursor <= Len(history) /\ cursor <= confirmed'
    BY <1>1, <2>2
  <2>. QED  BY <2>1, <2>3
<1>3. NonePassedOver'
  <2> SUFFICES ASSUME ~lost', NEW seq \in DOMAIN history', history'[seq] \in Tasks,
                      since < seq, seq <= cursor
               PROVE  told[history'[seq]] > 0
    BY DEF NonePassedOver
  <2>1. seq \in DOMAIN history
    BY <1>1, <1>2
  <2>. QED  BY <1>1, <2>1 DEF CursorInv, NonePassedOver
<1>4. link' # "off" => from' <= MaxOf(cursor', since')
  BY DEF CursorInv, MaxOf
<1>. QED  BY <1>2, <1>3, <1>4 DEF CursorInv

LEMMA CursorStart == FeedTypeOK /\ LinkInv /\ ConfirmedInv /\ CursorInv /\ Start => CursorInv'
<1> SUFFICES ASSUME FeedTypeOK, LinkInv, ConfirmedInv, CursorInv, Start PROVE CursorInv'
  OBVIOUS
<1>1. /\ link = "off" /\ UNCHANGED <<subscription, session, since>>
      /\ lost' = (lost \/ Len(history') < confirmed)
      /\ confirmed' = IF Len(history') < confirmed THEN Len(history') ELSE confirmed
  BY DEF Start, LinkInv, Log!Serve
<1>2. ASSUME NEW event \in Events, history' = Append(history, event)
      PROVE  CursorInv'
  <2>1. Len(history') = Len(history) + 1 /\ Len(history) \in Nat /\ confirmed \in Nat
    BY <1>2 DEF FeedTypeOK
  <2>2. ~(Len(history') < confirmed)
    BY <2>1 DEF ConfirmedInv
  <2>3. confirmed' = confirmed /\ (~lost' => ~lost)
    BY <1>1, <2>2, Zenon
  <2>. QED  BY <1>1, <1>2, <2>1, <2>3, CursorAppend DEF subscription, session
<1>3. ASSUME NEW k \in (IF intact THEN confirmed ELSE 0)..Len(history),
             history' = SubSeq(history, 1, k)
      PROVE  CursorInv'
  <2>1. /\ k \in Nat /\ history \in Seq(Events) /\ Len(history) \in Nat /\ k <= Len(history)
        /\ cursor \in Int /\ confirmed \in Nat
    BY DEF FeedTypeOK, NoCursor
  <2>2. /\ Len(history') = k /\ DOMAIN history' = 1..k
        /\ \A seq \in 1..k : history'[seq] = history[seq] /\ seq \in DOMAIN history
    BY <1>3, <2>1
  <2>3. ~lost' => ~lost /\ confirmed' = confirmed
    BY <1>1, Zenon
  <2>4. ~lost' => cursor' <= confirmed'
    BY <1>1, <2>3 DEF CursorInv, session
  <2>5. NonePassedOver'
    BY <1>1, <2>2, <2>3 DEF CursorInv, NonePassedOver, session
  <2>. QED  BY <1>1, <2>4, <2>5 DEF CursorInv, subscription, session
<1>. QED  BY <1>2, <1>3 DEF Start

LEMMA CursorStep ==
  FeedTypeOK /\ LinkInv /\ ConfirmedInv /\ CursorInv /\ [FeedNext]_feedVars => CursorInv'
<1> SUFFICES ASSUME FeedTypeOK, LinkInv, ConfirmedInv, CursorInv, [FeedNext]_feedVars
             PROVE  CursorInv'
  OBVIOUS
<1> USE DEF store, subscription, session
<1>1. inbox # <<>> => link = "on"
  BY DEF LinkInv
<1>2. ASSUME NEW event \in Events, AppendEvent(event)
      PROVE  CursorInv'
  <2>1. /\ history' = Append(history, event)
        /\ UNCHANGED <<cursor, delivered, saved, told, since, lost>>
        /\ link' = "off" \/ (link' = link /\ from' = from)
        /\ confirmed' = Len(history')
    BY <1>2 DEF AppendEvent, Disconnected, Log!Accept
  <2>2. confirmed <= confirmed' /\ confirmed' \in Nat
    BY <2>1 DEF FeedTypeOK, ConfirmedInv
  <2>. QED  BY <2>1, <2>2, CursorAppend
<1>3. CASE StopStore \/ Interfere \/ Ask \/ Answer
  BY <1>3 DEF StopStore, Interfere, Log!Stop, Log!Interfere, Ask, Answer, CursorInv,
     NonePassedOver, MaxOf
<1>4. CASE Crash \/ FailRead \/ Drop
  BY <1>4, CursorSame DEF Crash, FailRead, Drop, Disconnected, Log!Stop
<1>5. CASE Connect
  <2>1. /\ from' = MinOf(IF cursor = NoCursor THEN Len(history) ELSE cursor, Len(history))
        /\ since' = IF cursor = NoCursor THEN from' ELSE since
        /\ UNCHANGED <<history, confirmed, cursor, delivered, saved, told, lost>>
    BY <1>5 DEF Connect
  <2>2. /\ cursor \in Int /\ since \in Nat /\ Len(history) \in Nat
        /\ cursor # NoCursor => cursor \in Nat
    BY DEF FeedTypeOK, NoCursor
  <2>3. from' <= MaxOf(cursor, since')
    BY <2>1, <2>2 DEF MaxOf, MinOf, NoCursor
  <2>4. CASE cursor = NoCursor
    <3>1. \A seq \in DOMAIN history : ~(seq <= cursor)
      BY <2>4 DEF NoCursor, FeedTypeOK
    <3>2. NonePassedOver'
      BY <2>1, <3>1 DEF NonePassedOver
    <3>. QED  BY <2>1, <2>3, <3>2 DEF CursorInv
  <2>5. CASE cursor # NoCursor
    BY <2>1, <2>3, <2>5 DEF CursorInv, NonePassedOver
  <2>. QED  BY <2>4, <2>5
<1>6. CASE Subscribe \/ FinishRead \/ Reply
  BY <1>6, CursorSame DEF Subscribe, FinishRead, Reply
<1>7. CASE Ignore
  BY <1>1, <1>7, CursorSame DEF Ignore, HandleNext
<1>8. CASE PassOver
  <2>1. /\ Advance(Head(inbox).seq, saved.delivered) /\ inbox # <<>>
        /\ Head(inbox).event \notin Tasks /\ saved.delivered \subseteq Tasks
        /\ UNCHANGED <<history, confirmed, link, from, delivered, told, since, lost>>
    BY <1>8 DEF PassOver, HandleNext, FeedTypeOK
  <2>2. saved' = saved \/ saved' = [cursor |-> cursor', delivered |-> saved.delivered]
    BY <2>1, HeadType, AdvanceType
  <2>3. cursor' \in Nat /\ cursor <= cursor' /\ cursor' = MaxOf(cursor, Head(inbox).seq)
    BY <2>1, HeadType, AdvanceType DEF Advance
  <2>4. saved'.cursor <= cursor'
    BY <2>2, <2>3 DEF CursorInv, FeedTypeOK, NoCursor
  <2>5. \A task \in delivered' \union saved'.delivered : told'[task] > 0
    BY <2>1, <2>2 DEF CursorInv
  <2>. QED  BY <1>1, <2>1, <2>3, <2>4, <2>5, CursorPasses DEF ToldGrows
<1>9. CASE Tell
  <2> DEFINE task == Head(inbox).event  seq == Head(inbox).seq
  <2>1. /\ inbox # <<>> /\ task \in Tasks /\ delivered' = delivered \union {task}
        /\ told' = [told EXCEPT ![task] = @ + 1] /\ cursor' = MaxOf(cursor, seq)
        /\ saved' = [cursor |-> MaxOf(saved.cursor, seq),
                     delivered |-> saved.delivered \union {task}]
        /\ UNCHANGED <<history, confirmed, link, from, since, lost>>
    BY <1>9 DEF Tell, LinkInv
  <2>2. seq \in Nat /\ told \in [Tasks -> Nat] /\ cursor \in Int /\ saved.cursor \in Int
        /\ saved.cursor <= cursor
    BY <2>1, HeadType DEF FeedTypeOK, NoCursor, CursorInv
  <2> HIDE DEF task, seq
  <2>3. \A t \in Tasks : told'[t] = IF t = task THEN told[t] + 1 ELSE told[t]
    BY <2>1, <2>2
  <2>4. ToldGrows /\ told'[task] > 0
    BY <2>1, <2>2, <2>3 DEF ToldGrows
  <2>5. saved'.cursor <= cursor'
    BY <2>1, <2>2 DEF MaxOf
  <2>6. \A t \in delivered' \union saved'.delivered : told'[t] > 0
    <3>1. delivered \subseteq Tasks /\ saved.delivered \subseteq Tasks
      BY DEF FeedTypeOK
    <3>. QED  BY <2>1, <2>4, <3>1 DEF CursorInv, ToldGrows
  <2>. QED  BY <1>1, <2>1, <2>4, <2>5, <2>6, CursorPasses DEF task, seq
<1>10. CASE TellNoMore
  <2> DEFINE task == Head(inbox).event
  <2>1. /\ Advance(Head(inbox).seq, saved.delivered \union {task}) /\ inbox # <<>>
        /\ task \in delivered /\ task \in Tasks /\ saved.delivered \union {task} \subseteq Tasks
        /\ UNCHANGED <<history, confirmed, link, from, delivered, told, since, lost>>
    BY <1>10 DEF TellNoMore, LinkInv, FeedTypeOK
  <2>2. saved' = saved \/ saved' = [cursor |-> cursor', delivered |-> saved.delivered \union {task}]
    BY <2>1, HeadType, AdvanceType
  <2>3. cursor' \in Nat /\ cursor <= cursor' /\ cursor' = MaxOf(cursor, Head(inbox).seq)
    BY <2>1, HeadType, AdvanceType DEF Advance
  <2>4. saved'.cursor <= cursor'
    BY <2>2, <2>3 DEF CursorInv, FeedTypeOK, NoCursor
  <2>5. \A t \in delivered' \union saved'.delivered : told'[t] > 0
    BY <2>1, <2>2 DEF CursorInv
  <2>6. told'[task] > 0 /\ ToldGrows
    BY <2>1 DEF CursorInv, ToldGrows
  <2>. QED  BY <1>1, <2>1, <2>3, <2>4, <2>5, <2>6, CursorPasses
<1>11. CASE Restart
  <2>1. /\ link' = "off" /\ cursor' = saved.cursor /\ delivered' = saved.delivered
        /\ UNCHANGED <<history, confirmed, saved, told, since, lost>>
    BY <1>11 DEF Restart, Disconnected
  <2>2. cursor \in Int /\ saved.cursor \in Int /\ saved.cursor <= cursor /\ Len(history) \in Nat
        /\ DOMAIN history = 1..Len(history)
    BY DEF FeedTypeOK, NoCursor, CursorInv
  <2>3. NonePassedOver'
    <3> SUFFICES ASSUME ~lost, NEW seq \in DOMAIN history, history[seq] \in Tasks,
                        since < seq, seq <= saved.cursor
                 PROVE  told[history[seq]] > 0
      BY <2>1 DEF NonePassedOver
    <3>1. seq <= cursor
      BY <2>2
    <3>. QED  BY <3>1 DEF CursorInv, NonePassedOver
  <2>4. saved'.cursor <= cursor'
    BY <2>1, <2>2
  <2>5. ~lost' => cursor' <= confirmed'
    BY <2>1, <2>2 DEF CursorInv, FeedTypeOK
  <2>. QED  BY <2>1, <2>3, <2>4, <2>5 DEF CursorInv
<1>12. CASE UNCHANGED feedVars
  BY <1>12 DEF feedVars, CursorInv, NonePassedOver, MaxOf
<1>13. CASE Register
  <2>1. /\ link # "off" /\ from' = from
        /\ UNCHANGED <<cursor, delivered, saved, told, since, lost>>
        /\ history' = Append(history, Hidden) /\ confirmed' = Len(history')
    BY <1>13 DEF Register, Log!Accept
  <2>2. confirmed <= confirmed' /\ confirmed' \in Nat
    BY <2>1 DEF FeedTypeOK, ConfirmedInv
  <2>3. Hidden \in Events /\ (~lost' => ~lost)
    BY <2>1 DEF Events
  <2>. QED  BY <2>1, <2>2, <2>3, CursorAppend
<1>14. CASE Refuse
  BY <1>14, CursorSame DEF Refuse, Disconnected
<1>. QED  BY <1>2, <1>3, <1>4, <1>5, <1>6, <1>7, <1>8, <1>9, <1>10, <1>11, <1>12, <1>13, <1>14,
             CursorStart DEF FeedNext, Broker, Subscription, Parent

-----------------------------------------------------------------------------
LEMMA FeedInitInv == FeedInit => FeedInv
<1> SUFFICES ASSUME FeedInit PROVE FeedInv
  OBVIOUS
<1>1. FeedTypeOK
  <2>1. /\ history = <<>> /\ confirmed = 0 /\ open = FALSE /\ intact = TRUE /\ running = FALSE
        /\ link = "off" /\ from = 0 /\ cutoff = 0 /\ buffer = <<>> /\ replay = <<>>
        /\ inbox = <<>> /\ asking = "no" /\ cursor = NoCursor /\ delivered = {}
        /\ saved = [cursor |-> NoCursor, delivered |-> {}]
        /\ told = [task \in Tasks |-> 0] /\ since = 0 /\ lost = FALSE
        /\ drops = 0 /\ crashes = 0
    BY DEF FeedInit, Log!Init
  <2>2. open \in BOOLEAN /\ intact \in BOOLEAN /\ running \in BOOLEAN /\ lost \in BOOLEAN
    BY <2>1
  <2>3. /\ history \in Seq(Events) /\ buffer \in Seq(Nat) /\ replay \in Seq(Nat)
        /\ inbox \in Seq([seq: Nat, event: Events])
    BY <2>1
  <2>4. saved \in [cursor: Nat \union {NoCursor}, delivered: SUBSET Tasks]
        /\ told \in [Tasks -> Nat]
    BY <2>1
  <2>. QED  BY <2>1, <2>2, <2>3, <2>4 DEF FeedTypeOK
<1>2. LinkInv
  BY DEF FeedInit, LinkInv, FeedComplete, Log!Init
<1>3. ConfirmedInv
  BY DEF FeedInit, ConfirmedInv, Log!Init
<1>4. CursorInv
  BY DEF FeedInit, CursorInv, NonePassedOver, Log!Init, NoCursor
<1>. QED  BY <1>1, <1>2, <1>3, <1>4 DEF FeedInv

LEMMA FeedInvStep == FeedInv /\ [FeedNext]_feedVars => FeedInv'
BY FeedTypeStep, LinkStep, ConfirmedStep, CursorStep DEF FeedInv

LEMMA FeedInvAlways == FeedSpec => []FeedInv
BY FeedInitInv, FeedInvStep, PTL DEF FeedSpec

\* Every variable keeps to its type: the read returns seqs, and a message is an event of
\* the log.
THEOREM FeedTypeCorrect == FeedSpec => []FeedTypeOK
BY FeedInvAlways, PTL DEF FeedInv

\* A connected parent has on its way every event it asked for and has not passed, once and
\* in order, whatever was stored while its subscription was being set up.
THEOREM FeedCompleteCorrect == FeedSpec => []FeedComplete
<1>1. FeedInv => FeedComplete
  BY DEF FeedInv, LinkInv
<1>. QED  BY <1>1, FeedInvAlways, PTL

\* The cursor passes no end that the session was not told of, however connections, the
\* broker and the session fail, unless the log was cut back below what was confirmed.
THEOREM NonePassedOverCorrect == FeedSpec => []NonePassedOver
<1>1. FeedInv => NonePassedOver
  BY DEF FeedInv, CursorInv
<1>. QED  BY <1>1, FeedInvAlways, PTL

-----------------------------------------------------------------------------
(* No end is told twice *)

\* What the session was told is remembered, and stays so when the session is restored:
\* the message that tells is itself the entry that remembers.
Remembered ==
  \A task \in Tasks :
    told[task] > 0 => task \in delivered /\ task \in saved.delivered

FeedToldInv ==
  /\ told \in [Tasks -> Nat]
  /\ saved = [cursor |-> saved.cursor, delivered |-> saved.delivered]
  /\ ToldOnce /\ Remembered

-----------------------------------------------------------------------------
\* #advance may write an entry, with no fewer keys.
LEMMA AdvanceKeeps ==
  ASSUME FeedToldInv, NEW seq, NEW keys, Advance(seq, keys),
         saved.delivered \subseteq keys, UNCHANGED <<told, delivered>>
  PROVE  FeedToldInv'
<1>1. saved' = saved \/ saved' = [cursor |-> cursor', delivered |-> keys]
  BY DEF Advance
<1>2. saved.delivered \subseteq saved'.delivered
  BY <1>1
<1>3. saved' = [cursor |-> saved'.cursor, delivered |-> saved'.delivered]
  BY <1>1 DEF FeedToldInv
<1>. QED  BY <1>2, <1>3 DEF FeedToldInv, Remembered, ToldOnce

\* Telling a task that is not among the delivered ones is telling it for the first time.
LEMMA TellKeeps == FeedToldInv /\ Tell => FeedToldInv'
<1> SUFFICES ASSUME FeedToldInv, Tell PROVE FeedToldInv'
  OBVIOUS
<1> DEFINE task == Head(inbox).event
<1>1. /\ task \notin delivered /\ delivered' = delivered \union {task}
      /\ told' = [told EXCEPT ![task] = @ + 1]
      /\ saved'.delivered = saved.delivered \union {task}
      /\ saved' = [cursor |-> saved'.cursor, delivered |-> saved'.delivered]
  BY DEF Tell
<1> HIDE DEF task
<1>2. told' \in [Tasks -> Nat]
  <2>1. told \in [Tasks -> Nat]
    BY DEF FeedToldInv
  <2>2. \A t \in Tasks : told[t] + 1 \in Nat
    BY <2>1
  <2>. QED  BY <1>1, <2>1, <2>2
<1>3. ASSUME NEW t \in Tasks
      PROVE  told'[t] <= 1 /\ (told'[t] > 0 => t \in delivered' /\ t \in saved'.delivered)
  <2>1. CASE t = task
    <3>1. told[t] = 0
      BY <1>1, <2>1 DEF FeedToldInv, Remembered
    <3>2. told'[t] = 1
      BY <1>1, <2>1, <3>1 DEF FeedToldInv
    <3>. QED  BY <1>1, <2>1, <3>2
  <2>2. CASE t # task
    <3>1. told'[t] = told[t]
      BY <1>1, <2>2 DEF FeedToldInv
    <3>. QED  BY <1>1, <3>1 DEF FeedToldInv, Remembered, ToldOnce
  <2>. QED  BY <2>1, <2>2
<1>. QED  BY <1>1, <1>2, <1>3 DEF FeedToldInv, Remembered, ToldOnce

LEMMA NextKeeps == FeedToldInv /\ [FeedNext]_feedVars => FeedToldInv'
<1> SUFFICES ASSUME FeedToldInv, [FeedNext]_feedVars PROVE FeedToldInv'
  OBVIOUS
<1>1. ASSUME UNCHANGED <<told, delivered, saved>>
      PROVE  FeedToldInv'
  BY <1>1 DEF FeedToldInv, Remembered, ToldOnce
<1>2. CASE Broker
  BY <1>1, <1>2 DEF Broker, AppendEvent, StopStore, Crash, Interfere, Start, Disconnected,
     session
<1>3. CASE Subscription
  BY <1>1, <1>3 DEF Subscription, Connect, Register, Refuse, Subscribe, FinishRead, FailRead,
     Reply, Drop, Disconnected, session
<1>4. CASE Parent
  <2>1. CASE Ignore \/ Ask \/ Answer
    BY <1>1, <2>1 DEF Ignore, Ask, Answer
  <2>2. CASE PassOver
    BY <2>2, AdvanceKeeps DEF PassOver
  <2>3. CASE TellNoMore
    BY <2>3, AdvanceKeeps DEF TellNoMore
  <2>4. CASE Restart
    BY <2>4 DEF Restart, FeedToldInv, Remembered, ToldOnce
  <2>. QED  BY <1>4, <2>1, <2>2, <2>3, <2>4, TellKeeps DEF Parent
<1>5. CASE UNCHANGED feedVars
  BY <1>1, <1>5 DEF feedVars, session
<1>. QED  BY <1>2, <1>3, <1>4, <1>5 DEF FeedNext

\* The session is told at most once of the end of each task, for any number of events,
\* crashes of the broker, lost connections and restarts of the session.
THEOREM ToldOnceCorrect == FeedSpec => []ToldOnce
<1>1. FeedInit => FeedToldInv
  BY DEF FeedInit, FeedToldInv, Remembered, ToldOnce
<1>2. FeedToldInv => ToldOnce
  BY DEF FeedToldInv
<1>. QED  BY <1>1, <1>2, NextKeeps, PTL DEF FeedSpec

=============================================================================
