\* Two tasks that may each end more than once in a history of three events, not
\* counting registrations after them; a lost connection or restarted session, a crash of the
\* broker, which may have been read-only before, and a log that is cut back.
\* Everything may have been told and no event be left to store.
SPECIFICATION FeedSpec
CONSTANTS
  Tasks = {t1, t2}
  Progress = Progress
  Hidden = Hidden
  MAX_BUFFERED = 1
  MaxEvents = 3
  MaxDrops = 1
  MaxCrashes = 1
INVARIANT FeedComplete
INVARIANT NonePassedOver
INVARIANT ToldOnce
PROPERTY EndsTold
CHECK_DEADLOCK FALSE
