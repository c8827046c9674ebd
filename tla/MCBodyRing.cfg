CONSTANTS
  Capacity = 4
  MaxBytes = 10
SPECIFICATION MCSpec
INVARIANTS
  CursorsInOrder
  ReceivedInOrder
  NoDataRace
PROPERTY ImplementsQueue
