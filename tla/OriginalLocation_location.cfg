SPECIFICATION LocationSpec
CONSTANTS
  Disks = {"d1", "d2"}
  Groups = {"g1"}
  Partitions = {1, 2}
  LogicalVolumes = {"root", "part"}
  MaxBroken = 2
  Listed <- InOrder
  Addressable = {"d1", "d2"}
  Restored <- OneBackup
  MaxMoves = 1
INVARIANTS
  AllReachable
  NothingDead
  TrailsAreUnderstood
  AddressedIsRight
CHECK_DEADLOCK FALSE
