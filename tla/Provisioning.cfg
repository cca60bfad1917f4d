\* One agent, three requests to reconcile or to close it, two crashes.  Everything may be
\* over, and the broker down.
SPECIFICATION ProvisioningSpec
CONSTANTS
  MaxRequests = 3
  MaxCrashes = 2
INVARIANT PendingIsKept
PROPERTY RegisteredWhilePending
PROPERTY ExpiredTokenIsDead
PROPERTY PendingEnds
CHECK_DEADLOCK FALSE
