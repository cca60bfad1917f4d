\* One task: requests, questions and deadlines in any order.
SPECIFICATION Spec
CONSTANTS
  t1 = t1
  t2 = t2
  t3 = t3
  q1 = q1
  q2 = q2
  None = None
  Tasks = {t1}
  TaskIds <- OneTask
  Questions = {q1, q2}
  Deps <- NoDeps
  ResultStatus = {"succeeded", "failed"}
  ProvisionOutcomes = {"ok"}
  Deadlines = {t1, q1}
  MaxActive = 1
  MaxProvisioning = 1
  MaxConnections = 2
  MaxCrashes = 0
INVARIANT OneOpenQuestion
INVARIANT TaskRunAgree
INVARIANT AcceptedOnCurrentConnection
PROPERTY KeepsContract
