\* Five requests of one or two bytes, bites of three requests and three bytes.
\* The worker may be stopped, so the system may end.
SPECIFICATION Spec
CONSTANTS
  MaxRequests = 5
  Sizes <- SmallSizes
  MaxBytes = 3
  MaxMentions = 3
  MaxFaults = 1
  MayCrash = TRUE
  MayStop = TRUE
CHECK_DEADLOCK FALSE
INVARIANTS
  TypeOK
  InArrivalOrder
  NothingLost
  BiteWithinLimits
PROPERTIES
  EveryRequestIsAnswered
  BitesAreAtomic
