CONSTANTS
  NoVolume = NoVolume
  Width <- MCWidth
  MinEntry = 10
  MaxListing = 60
  Commands = {p, q}
  Sources <- MCSources
  PerVolume = 2
  MaxImports = 2
  MaxKills = 1
  MaxGroupings = 2
  ChunkConfigs <- MCChunkConfigs
SPECIFICATION ImportSpec
INVARIANTS
  ChaptersTile
  ChunksCover
  VolumesPartition
SYMMETRY CommandSymmetry
CHECK_DEADLOCK FALSE
