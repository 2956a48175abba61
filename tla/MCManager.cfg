\* Two callers, two opens whose HANDLE values may be recycled, receives and sends
\* that fail on an open handle.
SPECIFICATION Spec
CONSTANTS
  Callers = {c1, c2}
  Configs = {good, bad}
  Invalid = {bad}
  Sources = {s1, s2}
  Handles = {h1, h2}
  Packets = {p1}
  MaxOut = 1
  Faults = {"recv", "send"}
  None = None
SYMMETRY Symmetry
INVARIANTS TypeOK MutualExclusion ExclusiveCapture NoOrphanSource FailedApplyLeavesNothing
           RunningUnlessFailed StrayTakesOne
PROPERTIES LossNeedsClose ImplementsSlot
