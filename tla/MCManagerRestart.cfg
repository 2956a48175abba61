\* One caller that restarts the engine, a HANDLE value that is recycled, faults.
SPECIFICATION FairSpec
CONSTANTS
  Callers = {c1}
  Configs = {good}
  Invalid = {}
  Sources = {s1, s2}
  Handles = {h1, h2}
  Packets = {p1}
  MaxOut = 2
  Faults = {"recv", "send"}
  None = None
PROPERTIES QueueDrains ClosedEngineExits
