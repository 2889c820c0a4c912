SPECIFICATION Spec
CONSTANTS
  Hyperframe = 3
  AttentesMax = 2
  LongFactor = 2
  LockFactor = 4
  RelanceWindow = 1
  Benches <- LateBenches
  MaxDue = 3
  MaxLink = 2
INVARIANT OneFrameInFlight
