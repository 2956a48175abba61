\* Everything may fail, at any time; the machine may restart.
SPECIFICATION FairSpec
CONSTANTS
  Faults = {"load", "open", "recv", "start"}
  Lines <- CommandLines
  Files <- ListFiles
  System <- System32
INVARIANTS TypeOK ClosedOnce ServiceAsInstalled
PROPERTIES CleanExit StopEnds DeadEngineNoticed
