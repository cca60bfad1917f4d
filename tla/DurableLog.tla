------------------------------ MODULE DurableLog ------------------------------
(***************************************************************************)
(* What the broker's event store promises.  A client of the store sees a   *)
(* history of events that grows one event at a time.  The store may stop   *)
(* at any moment; when it serves a history again, no event it confirmed is *)
(* missing, and at most one event it never confirmed was added or dropped  *)
(* at the end: the append that was in flight.  If somebody else changed    *)
(* the files, it may come back with an older history, but never with a     *)
(* different one.                                                          *)
(***************************************************************************)
EXTENDS Naturals, Sequences

VARIABLES
  history,    \* the events served last, in order
  confirmed,  \* how many of them are confirmed: the callers know they are stored
  open,       \* the store is serving and accepts events
  intact      \* nobody but the store has changed its files

vars == <<history, confirmed, open, intact>>

Init == history = <<>> /\ confirmed = 0 /\ open = FALSE /\ intact = TRUE

\* later is history, cut at its end but not below its first n events.
CutTo(later, n) == \E k \in n..Len(history) : later = SubSeq(history, 1, k)

\* later is history with one more event.
Extends(later) ==
  /\ Len(later) = Len(history) + 1
  /\ SubSeq(later, 1, Len(history)) = history

\* An append begun before the store stopped may still be confirmed.
Accept ==
  /\ Extends(history') /\ confirmed' = Len(history')
  /\ UNCHANGED <<open, intact>>

Stop == open /\ open' = FALSE /\ UNCHANGED <<history, confirmed, intact>>

\* An event found in the files and not confirmed is served; it is confirmed only by
\* the next append.
Serve ==
  /\ ~open /\ open' = TRUE /\ UNCHANGED intact
  /\ CutTo(history', IF intact THEN confirmed ELSE 0) \/ Extends(history')
  /\ confirmed' = IF Len(history') < confirmed THEN Len(history') ELSE confirmed

Interfere == intact /\ intact' = FALSE /\ UNCHANGED <<history, confirmed, open>>

Next == Accept \/ Stop \/ Serve \/ Interfere

Spec == Init /\ [][Next]_vars

=============================================================================
