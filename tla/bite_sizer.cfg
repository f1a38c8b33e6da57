\* Bites of up to 30 requests; 17 of them take the target of 20 ticks, a stall 60 more.
SPECIFICATION Spec
CONSTANTS
  MaxMentions = 30
  Target = 20
  Overhead = 3
  Cost = 1
  Stall = 60
  Scale = 200
INVARIANTS
  TypeOK
  KeepsToTarget
PROPERTIES
  SettlesOnTarget
