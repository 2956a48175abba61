\* One sweep at a time over two candidates, every kind of menu item, every failure.
SPECIFICATION FairSpec
CONSTANTS
  Sweeps = {g1}
  Tried = 2
  Working = {2}
  Buttons = {"YouTube", "autostart", "check", "quit"}
  Failures = {"apply", "task", "query", "save", "read", "crash"}
  None = None
INVARIANTS Remembered AutostartAgrees
PROPERTIES SweepsEnd
