\* Two recovery actors, a head and two workers; kills, lost nodes, dying boots.
SPECIFICATION FairSpec
CONSTANTS
  b1 = b1
  b2 = b2
  NoBrain = NoBrain
  Brains = {b1, b2}
  Workers = {1, 2}
  MAX_ATTEMPTS = 2
  max_polls = 2
  hour = 2
  MaxStarts = 2
  MaxFaults = 2
INVARIANTS TypeOK SingleFlight NoStackedLoad
PROPERTIES BootGetsItsHour WrapperEnds
CHECK_DEADLOCK FALSE
