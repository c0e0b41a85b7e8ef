\* Two requests, two steps in flight, windows of six and three steps.
SPECIFICATION FairSpec
CONSTANTS
  r1 = r1
  r2 = r2
  Requests = {r1, r2}
  Settings <- DepthSettings
  max_num_spec_tokens = 5
  max_num_reqs = 2
  prompt_tokens = 7
  observation_window = 6
  MaxInFlight = 2
  Qualities = {0, 3, 5}
  MaxShifts = 1
  MaxArrivals = 2
INVARIANTS TypeOK DecodeReplaysGraph VerdictSeesItsDepth PinHolds
PROPERTIES BacksOff ClimbsToMax
CHECK_DEADLOCK FALSE
