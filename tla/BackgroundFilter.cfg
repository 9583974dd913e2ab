SPECIFICATION Spec
CONSTANTS
  Place <- Places
  Near <- Neighbours
  LearnFrames = 7
  ResidualAfter = 2
  AddAfter = 3
  RemoveAfter = 3
  LongAdd = 4
  LongRemove = 4
INVARIANTS GoneIsForgotten LargeObjectSettles
PROPERTIES NewObjectShown
