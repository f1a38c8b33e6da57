\* Refuted, when the training thread cannot start: mentions are stored once.
SPECIFICATION Spec
CONSTANTS
  Mentions = {m1, m2}
  Contents = {c1}
  None = None
  MaxScore = 3
  Threshold = 2
  TopN = 2
  MaxBite = 2
  TrainAt = 2
  MaxThreadFaults = 1
  MayCrash = FALSE
  Durable = TRUE
INVARIANTS
  MentionsAreStoredOnce
