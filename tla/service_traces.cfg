\* Two mentions, two contents, bites of two, failures, a training thread that does not start:
\* every bite ends, and its traces tell what happened.
SPECIFICATION TracedSpec
CONSTANTS
  Mentions = {m1, m2}
  Contents = {c1, c2}
  None = None
  MaxScore = 1
  Threshold = 1
  TopN = 2
  MaxBite = 2
  TrainAt = 2
  MaxThreadFaults = 1
  MayCrash = TRUE
  Durable = TRUE
INVARIANTS
  TracesOK
  DecisionsAreCommitted
  PersistedMeansStored
  ResolutionsAreTraced
  StagesInOrder
PROPERTIES
  AssignmentsStand
  BitesAreAnswered
