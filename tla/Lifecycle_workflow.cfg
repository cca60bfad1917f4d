\* Three tasks for one agent, one of them waiting for another; provisioning may fail.
SPECIFICATION Spec
CONSTANTS
  t1 = t1
  t2 = t2
  t3 = t3
  q1 = q1
  q2 = q2
  None = None
  Tasks = {t1, t2, t3}
  TaskIds <- ThreeTasks
  Questions = {}
  Deps <- Chain
  ResultStatus = {"succeeded"}
  ProvisionOutcomes = {"ok", "failed"}
  Deadlines = {}
  MaxActive = 1
  MaxProvisioning = 1
  MaxConnections = 1
  MaxCrashes = 0
INVARIANT DependencyRespected
INVARIANT CapacityRespected
INVARIANT WorkflowSuccess
INVARIANT Inv
