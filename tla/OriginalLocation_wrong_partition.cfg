SPECIFICATION LocationSpec
CONSTANTS
  Disks = {"d1", "d2"}
  Groups = {"g1"}
  Partitions = {1, 2}
  LogicalVolumes = {"root"}
  MaxBroken = 0
  Listed <- InOrder
  Addressable = {"d1", "d2"}
  Restored <- OneBackup
  MaxMoves = 0
INVARIANTS
  PartitionNumbersMatch
CHECK_DEADLOCK FALSE
