SPECIFICATION Spec
CONSTANTS
  Groups = 2
  Duplicates = 2
  Lengths = {1, 2, 4}
  Sizes = {1, 5, 6}
  Options <- MCOptions
INVARIANTS Lockstep GlobalTokenMean EpochsTrainTheRollout
