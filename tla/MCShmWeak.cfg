\* The same ring when a CPU may reorder the writer's stores to a block's metadata.
SPECIFICATION Spec
CONSTANTS
  l1 = l1
  LocalReaders = {l1}
  RemoteReaders = {}
  Stoppable = {}
  max_chunks = 1
  MaxMessages = 2
  StoresOrdered = FALSE
INVARIANT BlockExclusion
