---------------------------- MODULE TaskContract ----------------------------
(***************************************************************************)
(* What the broker promises of a delegated task, whatever happens inside:  *)
(* it accepts at most one result, and only while the task is open; it ends *)
(* at most once, for good; it ends in success only with an accepted result *)
(* that says so, and for want of a result only if there is none.           *)
(***************************************************************************)
CONSTANTS Tasks, ResultStatus

VARIABLES
  outcome,   \* how each task ended, or "open"
  result     \* status of the accepted result of each task, or "none"

Outcome == {"succeeded", "failed", "cancelled", "timed_out", "result_missing"}

Init == outcome = [t \in Tasks |-> "open"] /\ result = [t \in Tasks |-> "none"]

AcceptResult(t, s) ==
  /\ outcome[t] = "open" /\ result[t] = "none"
  /\ result' = [result EXCEPT ![t] = s]
  /\ UNCHANGED outcome

End(t, o) ==
  /\ outcome[t] = "open"
  /\ o = "succeeded" => result[t] = "succeeded"
  /\ o = "result_missing" => result[t] = "none"
  /\ outcome' = [outcome EXCEPT ![t] = o]
  /\ UNCHANGED result

Next ==
  \E t \in Tasks : \/ \E s \in ResultStatus : AcceptResult(t, s)
                   \/ \E o \in Outcome : End(t, o)

Spec == Init /\ [][Next]_<<outcome, result>>

=============================================================================
