\* All strategies, one restart, a stream of two segments with the name in the first.
SPECIFICATION FairSpec
CONSTANTS
  N = 5
  SeqSpace = 8
  NameFrom = 1
  NameTo = 3
  Listed = TRUE
  SplitPos = "sni"
  Confs <- Candidates
  Isn = 6
  Mss = 4
  ClientTTL = 128
  DpiHop = 4
  Hops = 9
  MaxQueue = 1
  MaxNet = 2
  MaxStarts = 2
  Missing = Missing
  Zero = Zero
  None = None
INVARIANTS TypeOK StreamIntact NameHidden Misled
CHECK_DEADLOCK FALSE
PROPERTIES Delivered ImplementsStream
