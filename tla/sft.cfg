SPECIFICATION Spec
CONSTANTS
  DataSize = 11
  BatchSize = 4
  Epochs = 3
  SaveSteps = 3
  LossTokens <- MCLossTokens
  Layouts <- MCLayouts
  MaxStarts = 3
INVARIANT AsIfNeverStopped
