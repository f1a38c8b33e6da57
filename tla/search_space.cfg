\* Three mentions, five documents, six configurations, any number of restarts.
SPECIFICATION Spec
CONSTANTS
  Mentions = {m1, m2, m3}
  Fields <- AllFields
  Documents <- SomeDocuments
  Blank = ""
  Null = Null
  Normal <- NormalForms
  Configs <- ChangingConfigs
  MaxBite = 2
SYMMETRY Symmetric
INVARIANTS
  TypeOK
  LinksFollowRules
  ConflictsAreChanges
