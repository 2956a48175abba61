\* Two instances of one version and one of another, every failure.
SPECIFICATION Spec
CONSTANTS
  old1 = old1
  old2 = old2
  new = new
  Procs = {old1, old2, new}
  Build <- Builds
  Failures = {"disk", "crash"}
  None = None
SYMMETRY Symmetry
INVARIANTS TypeOK OwnDriver
PROPERTIES NoLockFight
