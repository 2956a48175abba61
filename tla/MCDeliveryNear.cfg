\* A server fewer hops away than DefaultFakeTTL.
SPECIFICATION Spec
CONSTANTS
  N = 5
  SeqSpace = 8
  NameFrom = 1
  NameTo = 3
  Listed = TRUE
  SplitPos = "sni"
  Confs <- Default
  Isn = 6
  Mss = 4
  ClientTTL = 128
  DpiHop = 4
  Hops = 7
  MaxQueue = 1
  MaxNet = 2
  MaxStarts = 1
  Missing = Missing
  Zero = Zero
  None = None
INVARIANTS StreamIntact
CHECK_DEADLOCK FALSE
