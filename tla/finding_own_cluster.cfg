\* Refuted: the own cluster is always listed (docs/algorithm.md:69).
SPECIFICATION Spec
CONSTANTS
  Mentions = {m1, m2}
  Contents = {c1}
  None = None
  MaxScore = 3
  Threshold = 2
  TopN = 1
  MaxBite = 1
  TrainAt = 0
  MaxThreadFaults = 0
  MayCrash = FALSE
  Durable = TRUE
INVARIANTS
  OwnClusterListed
