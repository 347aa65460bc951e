SPECIFICATION Spec
CONSTANTS
  a = a
  b = b
  c = c
  d = d
  Wait = Wait
  Target = {a, b, c, d}
  Makefiles <- AnyGroupMakefiles
  Times <- NoFiles
  Reports <- NoReports
  Rule = {a, b, c, d}
  Listed = {a, b, c, d}
  Group <- GroupBC
  NoParallel = {a}
  ManyRules = {d}
  Phony = {}
  MayFail = {b}
  MayLose = {c}
  Goals <- GoalsAC
  KeepState = FALSE
  KeepGoing = FALSE
  PmakeMaxJobs = 2
  AdjustMode = "M2"
  AdjustFails = TRUE
  StartTime = 1
  file_max_time = 100
INVARIANTS TypeOK OneEntryPerTarget SerialAlone
PROPERTIES GroupBuiltOnce
