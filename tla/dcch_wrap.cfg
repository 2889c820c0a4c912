SPECIFICATION Spec
CONSTANTS
  Hyperframe = 24
  Word = 38
  Separation = 3
  MaxLate = 2
  Sdcch <- MCSdcch
  Tch <- MCTch
  Pdch <- MCPdch
INVARIANT ReleaseIsSeen
