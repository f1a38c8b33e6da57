\* Training at two of four mentions, bites of two, a database and a model file
\* that survive; a crash, two faults, two other calls.
SPECIFICATION Spec
CONSTANTS
  TrainAt = 2
  MaxBite = 2
  MaxStored = 4
  Persist = TRUE
  Durable = TRUE
  MaxCrashes = 1
  MaxFaults = 1
  MaxCalls = 2
INVARIANTS
  TypeOK
  NoModelLost
  RestartKeepsModel
  TrainingStartsOnce
  TrainingSeesThreshold
PROPERTIES
  ModelFrozen
  UnusableFileUntouched
  TrainedInTheEnd
