SPECIFICATION TickSpec
CONSTANTS
  Keys <- TwoKeys
  Grace = 3
  Slots = 3
  Prefetch = 2
  Hold = 1
  MaxSeq = 6
  MaxRuns = 2
  Q = 4
  Scenarios <- AllScenarios
  MaxFrames = 6
  Loads <- TwoLoads
  TickLens <- TwoTicks
  FirstTick = 1
  MaxLate = 1
  MaxWrites = 4
  Ras <- TwoRas
  Frames <- ExtremeFrames
  Bsic = 5
  QueueSize = 3
  Wrap = 6
  MaxPending = 3
INVARIANTS TunedAsAsked WrapOnTime SamePairing AssignmentIsAccepted
PROPERTIES ClearIsConfirmed SettledIsPublished SpeechInOrder ReaderCatchesUp MovesOnTime NothingDueIsCut KeepsInterrupting
