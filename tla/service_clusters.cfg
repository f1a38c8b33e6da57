\* Three mentions, two contents, three scores, one link kept, bites of up to three and a
\* database in memory: guards, failures, clusters, links and answers, up to
\* the end of a bite whose training thread does not start.
SPECIFICATION Spec
CONSTANTS
  Mentions = {m1, m2, m3}
  Contents = {c1, c2}
  None = None
  MaxScore = 3
  Threshold = 2
  TopN = 1
  MaxBite = 3
  TrainAt = 2
  MaxThreadFaults = 1
  MayCrash = TRUE
  Durable = FALSE
SYMMETRY SymmetricAll
CONSTRAINT FaultyBiteIsLast
INVARIANTS
  TypeOK
  OneClusterPerMention
  RepliesMatchStore
  FoundersStay
  MembershipFollowsLinks
  CandidatesExist
  AnswersFollowLinks
PROPERTIES
  ClusteringIsStable
