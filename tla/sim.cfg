SPECIFICATION Spec
CONSTANTS
  Header = 2
  Data = 1
  Values <- TwoValues
INVARIANTS CommandsAligned ExactlyTheAnswer NoLostInterrupt
PROPERTIES WtMeansNothingOwed UpdatesAreGenuine AnswerComes
