SPECIFICATION FairSpec
CONSTANTS
  d1 = d1
  d2 = d2
  Downloads = {d1, d2}
  Workers = 1
  Depth = 1
  Leaf <- FileThenFolder
  MaxPieces = 2
INVARIANTS
  NeverTruncated
  DownloadsClosed
PROPERTIES
  AbandonedThreadEnds
  EveryDownloadEnds
CHECK_DEADLOCK FALSE
