\* One extension of one profile has a value of the wrong type; nobody writes.
SPECIFICATION CaptureSpec
CONSTANTS
  x = x
  y = y
  NProfiles = 2
  Items = {x, y}
  Scenes <- OddCalls
  Rewrites <- MCRewrites
  Busy = {1}
  RestMayThrow = FALSE
  MaxRewrites = 0
INVARIANTS
  ProfilesAreBestEffort
CHECK_DEADLOCK FALSE
