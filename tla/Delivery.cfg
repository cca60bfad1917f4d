\* Two connections and two cycles of Pi, a heartbeat on each connection; a broker that crashes
\* or cannot store an event, once.  All may be over.
SPECIFICATION DeliverySpec
CONSTANTS
  MaxConnections = 2
  MaxCycles = 2
  MaxReports = 2
  MaxFaults = 1
INVARIANT PromptedOnce
INVARIANT AcceptedWasPrompted
INVARIANT BrokerFollowsPi
 
CHECK_DEADLOCK FALSE
