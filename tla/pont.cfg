SPECIFICATION BridgeSpec
CONSTANTS
  NumIrqs = 3
  HalfSize = 2
  FrameIrq = 1
  SelfAck <- OwnAck
  FrameAlike <- LikeFrame
  IlrValues <- LevelAndEdge
  MaxEoi = 1
  Hyperframe = 3
  AttentesMax = 2
  LongFactor = 2
  LockFactor = 4
  RelanceWindow = 1
  Benches <- InTimeBenches
  MaxDue = 3
  MaxLink = 2
INVARIANTS SameFrame PagesExclusive BurstAfterSync DcchIsHeard EoiTargetReachable RequestFollowsRegisters
PROPERTIES SiliconOrder LatchHolds ImplementsFrameLatch
