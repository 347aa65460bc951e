SPECIFICATION TextSpec
CONSTANTS
  Groups <- SomeGroups
  Definitions <- SomeDefinitions
  MaxArgs = 2
  MaxDepth = 0
  Characters <- SomeCharacters
  MaxString = 0
  MacroValue <- MacroValues
  Layouts <- SomeLayouts
  Targets <- SomeTargets
  Depes <- SomeDepes
  Recipes <- SomeRecipes
  Values <- SomeValues
  MaxStatements = 0
  LineLength = 1
  HashOrder <- Order
  Header = {"h", "k"}
  Listed <- Explicit
  Make = {1, 2, 3}
  Root = 1
  Off = Off
  Calls <- Nested
  Mentioned = {}
  Goals = {"x", "top"}
  Parallel = FALSE
  MaxEdits = 1
  MaxRuns = 2
INVARIANTS Remembered
CHECK_DEADLOCK FALSE
