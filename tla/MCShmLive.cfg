\* A local and a remote reader connect in any order; lost notifications,
\* overflow payloads, timeouts and a shutdown, under fairness.
SPECIFICATION FairSpec
CONSTANTS
  l1 = l1
  q1 = q1
  LocalReaders = {l1}
  RemoteReaders = {q1}
  Stoppable = {l1}
  max_chunks = 2
  MaxMessages = 3
  StoresOrdered = TRUE
INVARIANTS InOrder ReadyFirst
PROPERTIES EveryMessageConsumed ShutdownCompletes EnqueueCompletes
CHECK_DEADLOCK FALSE
