\* The server and a command, one after the other or both at once.
CONSTANTS
  Processes <- Both
  Bodies <- SomeBodies
  Text <- SomeText
  Decode <- SomeDecode
  MaxAppends = 3
  MaxErrors = 1
  MaxTorn = 2
  MaxDamage = 1
SPECIFICATION Spec
CONSTRAINT Telling
INVARIANTS OriginalVerifies InnerDamageIsFound TornWriteCostsOneRecord
CHECK_DEADLOCK FALSE
