\* Nothing fails: install followed by uninstall.
SPECIFICATION Spec
CONSTANTS
  Faults = {}
  Lines <- CommandLines
  Files <- ListFiles
  System <- System32
INVARIANTS UninstallStops
