SPECIFICATION Spec
CONSTANTS
  NoFile = NoFile
  Names = {a, b}
  ClusterCount = 2
  BlocksPerCluster = 1
  BlockSize = 2
  EntriesPerBlock = 3
  FatCount = 2
  RootDirEntryCount = 2
  OpenModes = {{"READ", "WRITE", "CREAT"}, {"READ", "WRITE", "CREAT", "APPEND", "SYNC"}}
  WriteSizes = {1, 2}
  ReadSizes = {3}
  ContiguousSizes = {3}
  MaxFileSize = 3
  Calls = {"remove", "contiguous"}
  CutShort = {"open", "write", "sync", "close", "contiguous"}
  MaxPowerLosses = 1
  RewritesUnsynced = FALSE
INVARIANT VolumeIsSound
PROPERTY FileStoreSpec
SYMMETRY Symmetry
