\* Nothing fails: an install from a directory with a comma in its name.
SPECIFICATION Spec
CONSTANTS
  Faults = {}
  Lines <- CommaLines
  Files <- CommaFiles
  System <- System32
INVARIANTS ServiceAsInstalled
