SPECIFICATION Spec
CONSTANTS
  NoFile = NoFile
  Names = {a, b}
  ClusterCount = 2
  BlocksPerCluster = 1
  BlockSize = 2
  EntriesPerBlock = 3
  FatCount = 2
  RootDirEntryCount = 2
  OpenModes = {{"READ", "WRITE", "CREAT"}, {"READ", "WRITE", "CREAT", "TRUNC"}}
  WriteSizes = {1, 2}
  ReadSizes = {3}
  ContiguousSizes = {3}
  MaxFileSize = 3
  Calls = {"read", "seek", "truncate", "remove"}
  CutShort = {}
  MaxPowerLosses = 0
  RewritesUnsynced = FALSE
INVARIANTS TypeOK VolumeIsSound CallsAreSound
PROPERTIES NoClusterIsLost FileStoreSpec
SYMMETRY Symmetry
