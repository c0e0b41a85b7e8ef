\* Two requests, three blocks, two steps in flight, four passes.
SPECIFICATION Spec
CONSTANTS
  k1 = k1
  k2 = k2
  k3 = k3
  r1 = r1
  r2 = r2
  Requests = {r1, r2}
  Blocks = {k1, k2, k3}
  MaxInFlight = 2
  MaxAlloc = 1
  MaxSteps = 4
SYMMETRY Symmetry
INVARIANTS TypeOK NoFreeInFlight NoStuckFence
CHECK_DEADLOCK FALSE
