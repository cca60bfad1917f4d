\* One task: a workflow that was cancelled without its tasks.
SPECIFICATION Spec
CONSTANTS
  t1 = t1
  t2 = t2
  t3 = t3
  q1 = q1
  q2 = q2
  None = None
  Tasks = {t1}
  TaskIds <- OneTask
  Questions = {}
  Deps <- NoDeps
  ResultStatus = {"succeeded"}
  ProvisionOutcomes = {"ok"}
  Deadlines = {}
  MaxActive = 1
  MaxProvisioning = 1
  MaxConnections = 1
  MaxCrashes = 0
PROPERTY WorkflowIsFinal
