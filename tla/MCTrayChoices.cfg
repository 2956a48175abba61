\* One sweep at a time; the process may die.
SPECIFICATION Spec
CONSTANTS
  Sweeps = {g1}
  Tried = 1
  Working = {1}
  Buttons = {"YouTube"}
  Failures = {"crash"}
  None = None
INVARIANTS ChoicesSurvive
