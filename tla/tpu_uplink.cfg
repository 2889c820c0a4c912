SPECIFICATION Spec
CONSTANTS
  Q = 4
  Scenarios <- UplinkScenarios
  MaxFrames = 6
INVARIANT UplinkIsMarked
