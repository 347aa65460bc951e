SPECIFICATION Spec
CONSTANTS
  Macro = {"O", "A", "C"}
  Target = {"all", "left", "right", "base", "lib", "extra", "tool"}
  Deps <- Diamond
  Goals <- ManyGoals
  Defaults <- Rules
  Makefile <- Statements
  Environments <- SomeEnvironments
  Flags <- SomeFlags
  CommandLines <- SomeLines
  Posix = {TRUE, FALSE}
  EnvWins = {TRUE, FALSE}
  Jobs = {1, 2}
  Alone = {"tool"}
  Reporters = {"base"}
INVARIANTS Precedence SubMakeSees RecipeSees Restored
