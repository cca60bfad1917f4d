\* Two tasks: a deadline races the pass that start() makes.
SPECIFICATION Spec
CONSTANTS
  t1 = t1
  t2 = t2
  t3 = t3
  q1 = q1
  q2 = q2
  None = None
  Tasks = {t1, t2}
  TaskIds <- TwoTasks
  Questions = {}
  Deps <- NoDeps
  ResultStatus = {"succeeded"}
  ProvisionOutcomes = {"ok"}
  Deadlines = {t2}
  MaxActive = 2
  MaxProvisioning = 1
  MaxConnections = 1
  MaxCrashes = 1
PROPERTY TerminalRunIsFinal
