SPECIFICATION Spec
CONSTANTS
  Size = 2
  Byte <- DataBytes
  MaxChunk = 2
  BlockBytes = 2
  BranchBytes = 2
  MaxRestarts = 1
INVARIANTS RequestIsCurrent WakeUpIsKept LoaderInStep
PROPERTIES ImplementsQueue DownloadAdvances
