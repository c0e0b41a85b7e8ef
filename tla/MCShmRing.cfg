\* Two readers racing the writer around a ring of two blocks, three objects.
SPECIFICATION Spec
CONSTANTS
  l1 = l1
  l2 = l2
  LocalReaders = {l1, l2}
  RemoteReaders = {}
  Stoppable = {}
  max_chunks = 2
  MaxMessages = 3
  StoresOrdered = TRUE
SYMMETRY ReaderSymmetry
INVARIANTS TypeOK BlockExclusion BlockIntact
PROPERTY BoundedLog
