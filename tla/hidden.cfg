SPECIFICATION Spec
CONSTANTS
  a = a
  b = b
  c = c
  d = d
  Wait = Wait
  Target = {a, b, c, d}
  Makefiles <- ForgetfulMakefiles
  Times <- SomeFiles
  Reports <- HiddenReports
  Rule = {a, b, c}
  Listed = {a, b, c}
  Group <- NoGroup
  NoParallel = {c}
  ManyRules = {}
  Phony = {}
  MayFail = {b, c}
  MayLose = {}
  Goals <- GoalA
  KeepState = TRUE
  KeepGoing = TRUE
  PmakeMaxJobs = 2
  AdjustMode = "M1"
  AdjustFails = FALSE
  StartTime = 1
  file_max_time = 100
INVARIANTS EndsUpToDate NoDeadlock KeepsGoing
PROPERTIES Terminates
