\* Refuted: a missing value matches nothing (splink_linker_impl.py:64, blocking.py:30).
SPECIFICATION Spec
CONSTANTS
  Mentions = {m1, m2, m3}
  Fields <- AllFields
  Documents <- SomeDocuments
  Blank = ""
  Null = Null
  Normal <- NormalForms
  Configs <- ShippedConfigs
  MaxBite = 2
SYMMETRY Symmetric
INVARIANTS
  MissingMatchesNothing
