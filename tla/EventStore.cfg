\* The event store with one event kept in memory, up to two crashes of the process or of
\* the machine, and one change to its files by somebody else.  The store may end
\* read-only, or down with its crashes used up.
SPECIFICATION StoreSpec
CONSTANTS
  MAX_RETAINED_EVENTS = 1
  MaxEvents = 3
  MaxCrashes = 2
  MaxFaults = 1
INVARIANT StoreConsistent
INVARIANT RecoveryWarranted
PROPERTY KeepsPromise
CHECK_DEADLOCK FALSE
