\* One client, two connections, a buffer of three and a queue of one event;
\* publishers may bring a number, the API may restart.
SPECIFICATION FairSpec
CONSTANTS
  Client = {c1}
  BufferSize = 3
  QueueSize = 1
  Limits = {NoLimit, 2}
  Supplied = {1}
  MaxEvents = 4
  MaxConnections = 2
  MaxRestarts = 1
  NoLimit = NoLimit
  NoId = NoId
\* Events, connections and restarts are bounded.
CHECK_DEADLOCK FALSE
INVARIANTS ReplayHasNoGap NothingOutOfReach NumbersAreFresh
PROPERTIES SubscriptionReleased
