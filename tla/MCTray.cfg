\* Two sweeps at once, two candidates, both targets toggled, failing starts.
SPECIFICATION Spec
CONSTANTS
  Sweeps = {g1, g2}
  Tried = 2
  Working = {2}
  Buttons = {"YouTube", "Discord", "check"}
  Failures = {"apply"}
  None = None
SYMMETRY Symmetry
INVARIANTS TypeOK InForce PickedWorks
