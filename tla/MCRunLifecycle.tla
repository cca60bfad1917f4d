--------------------------- MODULE MCRunLifecycle ---------------------------
(* Values of the constants of RunLifecycle for TLC. *)
EXTENDS RunLifecycle

CONSTANTS t1, t2, t3, q1, q2

OneTask == <<t1>>
TwoTasks == <<t1, t2>>
ThreeTasks == <<t1, t2, t3>>

\* One task, or two independent ones, or t2 waiting for t1.
NoDeps == [t \in Tasks |-> {}]
Chain == [t \in Tasks |-> IF t = t2 THEN {t1} ELSE {}]

=============================================================================
