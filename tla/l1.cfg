SPECIFICATION Spec
CONSTANTS
  Channels <- TwoChannels
  Tc <- Corners
  AgchTtl = 1
  SdcchTtl = 1
  MaxPresent = 2
  RingN = 2
  GuardTicks = 1
  MaxBlocks = 3
INVARIANTS PublishedIsGuarded BlocksInOrder NoSiOnChannel
PROPERTY SiComesBack
