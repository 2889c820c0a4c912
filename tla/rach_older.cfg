SPECIFICATION RachSpec
CONSTANTS
  Ras = {0, 200}
  Bsic = 5
  Frames = {364, 43000}
  QueueSize = 3
  Wrap = 6
  MaxPending = 3
INVARIANT OnlyLastAttemptIsCorrected
