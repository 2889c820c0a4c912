SPECIFICATION FairSpec
CONSTANTS
  Hyperframe = 2
  AttentesMax = 2
  LongFactor = 2
  LockFactor = 3
  RelanceWindow = 1
  Benches <- FaultBenches
  MaxDue = 2
  MaxLink = 2
INVARIANT OneFrameUntilLate
PROPERTIES FrameIrqsKeepComing DspNeverStarves
