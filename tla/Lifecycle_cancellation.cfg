\* Three tasks, two agents at a time: a cancellation races the pass that follows a failed
\* provisioning.
SPECIFICATION Spec
CONSTANTS
  t1 = t1
  t2 = t2
  t3 = t3
  q1 = q1
  q2 = q2
  None = None
  Tasks = {t1, t2, t3}
  TaskIds <- ThreeTasks
  Questions = {}
  Deps <- NoDeps
  ResultStatus = {"succeeded"}
  ProvisionOutcomes = {"ok", "failed"}
  Deadlines = {}
  MaxActive = 2
  MaxProvisioning = 1
  MaxConnections = 1
  MaxCrashes = 0
PROPERTY CancellationIsFinal
