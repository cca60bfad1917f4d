\* Two processes, started five times between them: a dead process's lock and guard, and
\* two others that take over at the same time.  All may be down for good.
SPECIFICATION OwnershipSpec
CONSTANTS
  Processes = {p1, p2}
  NoRecord = NoRecord
  MaxStarts = 5
INVARIANT OneHolder
PROPERTY RecoversAlone
CHECK_DEADLOCK FALSE
