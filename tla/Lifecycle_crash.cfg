\* One task with a question: the broker crashes between any two appends.
SPECIFICATION FairSpec
CONSTANTS
  t1 = t1
  t2 = t2
  t3 = t3
  q1 = q1
  q2 = q2
  None = None
  Tasks = {t1}
  TaskIds <- OneTask
  Questions = {q1}
  Deps <- NoDeps
  ResultStatus = {"succeeded", "failed"}
  ProvisionOutcomes = {"ok"}
  Deadlines = {q1}
  MaxActive = 1
  MaxProvisioning = 1
  MaxConnections = 2
  MaxCrashes = 1
INVARIANT TypeOK
INVARIANT TaskRunAgree
PROPERTY KeepsContract
PROPERTY SettledRunEnds
PROPERTY RecoveryEnds
PROPERTY WorkflowConverges
