\* Three runs with files of two requests that overlap, two faults: the lists, the database and
\* what the client counts agree. After the last run nothing more happens.
SPECIFICATION Spec
CHECK_DEADLOCK FALSE
CONSTANTS
  a = a
  b = b
  c = c
  c1 = c1
  c2 = c2
  Ids = {a, b, c}
  Contents = {c1, c2}
  None = None
  DataSets <- Files
  MaxBite = 3
  MaxRuns = 3
  MaxFaults = 2
INVARIANTS
  TypeOK
  ResolutionsAreStored
  CompleteMeansStored
  NothingVanishes
PROPERTIES
  RunsEnd
