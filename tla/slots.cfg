SPECIFICATION Spec
CONSTANTS
  r = r
  x = x
  y = y
  None = None
  Dmake = {r, x, y}
  Root = r
  MaxJobs = 2
  Recipes = 2
  Faults = {"init", "crash"}
INVARIANTS SlotsConserved GroupLimit StaysWhileUsed
PROPERTIES Terminates
