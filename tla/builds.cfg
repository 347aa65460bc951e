SPECIFICATION Spec
CONSTANTS
    Source <- MCSource
    Target <- MCTarget
    Deps <- MCDeps
    Includes <- MCIncludes
    Recipe <- MCRecipe
    Alone = {"lib"}
    Precious = {}
    MayFail = {"main.o"}
    Reporters = {"main.o"}
    Goals = {"prog"}
    Invocations <- SomeInvocations
    Edits = {"source", "header", "rule", "target"}
    Interrupts = TRUE
    MaxEdits = 2
    MaxRuns = 3
INVARIANTS Settled NothingToDo DryRunForetells NoTrustedHalf
CHECK_DEADLOCK FALSE
