SPECIFICATION Spec
CONSTANTS
  Names <- SomeNames
  SuffixList <- SomeSuffixes
  Makefiles <- SomeMakefiles
  Disks <- SomeDisks
  Goals <- SomeGoals
  Failures <- NoFailures
  Edited <- SomeEdited
  MaxMakes = 2
  MaxEdits = 1
INVARIANTS FirstRule Foretold Newer Satisfied
CHECK_DEADLOCK FALSE
