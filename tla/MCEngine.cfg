\* Two lists, four configurations, some 1400 packets.
SPECIFICATION Spec
CONSTANTS
  SeqSpace = 65536
  Confs <- Chosen
  File <- Lists
  Traffic <- All
  None = None
INVARIANTS TypeOK TargetsFound OnlyInitialsDropped Reassembles ChecksumsValid NameCut FilterCovers
