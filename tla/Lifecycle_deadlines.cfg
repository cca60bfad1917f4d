\* One task with a question: the timers race start() and everything else.
SPECIFICATION FairSpec
CONSTANTS
  t1 = t1
  t2 = t2
  t3 = t3
  q1 = q1
  q2 = q2
  None = None
  Tasks = {t1}
  TaskIds <- OneTask
  Questions = {q1}
  Deps <- NoDeps
  ResultStatus = {"succeeded", "failed"}
  ProvisionOutcomes = {"ok"}
  Deadlines = {t1, q1}
  MaxActive = 1
  MaxProvisioning = 1
  MaxConnections = 1
  MaxCrashes = 1
INVARIANT SuccessNeedsResult
INVARIANT Inv
PROPERTY SuccessIsFinal
PROPERTY OneResult
PROPERTY DueTaskEnds
PROPERTY DueQuestionCloses
