\* Refuted: a failed training leaves no model file.
SPECIFICATION Spec
CONSTANTS
  TrainAt = 2
  MaxBite = 2
  MaxStored = 2
  Persist = TRUE
  Durable = TRUE
  MaxCrashes = 0
  MaxFaults = 1
  MaxCalls = 0
PROPERTIES
  FailedTrainingLeavesNoFile
