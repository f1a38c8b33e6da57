\* Refuted: a re-submission is no conflict (README.md:24).
SPECIFICATION Spec
CONSTANTS
  Mentions = {m1, m2, m3}
  Fields <- AllFields
  Documents <- SomeDocuments
  Blank = ""
  Null = Null
  Normal <- NormalForms
  Configs <- ShippedConfigs
  MaxBite = 2
SYMMETRY Symmetric
INVARIANTS
  ResubmissionsPass
