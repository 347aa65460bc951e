SPECIFICATION Spec
CONSTANTS
  a = a
  b = b
  c = c
  d = d
  Wait = Wait
  Target = {a, b, c, d}
  Makefiles <- AcyclicMakefiles
  Times <- SourceFiles
  Reports <- NoReports
  Rule = {a, b, c, d}
  Listed = {a, b, c, d}
  Group <- NoGroup
  NoParallel = {}
  ManyRules = {}
  Phony = {d}
  MayFail = {b}
  MayLose = {}
  Goals <- GoalA
  KeepState = FALSE
  KeepGoing = FALSE
  PmakeMaxJobs = 2
  AdjustMode = "M1"
  AdjustFails = FALSE
  StartTime = 1
  file_max_time = 100
INVARIANTS JobsCounted JobLimit NoJobLeft
PROPERTIES ImplementsBuildOrder
