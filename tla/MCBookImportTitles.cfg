CONSTANTS
  NoVolume = NoVolume
  Width <- MCWidth
  MinEntry = 10
  MaxListing = 60
  Commands = {p}
  Sources <- TwoVolumes
  PerVolume = 2
  MaxImports = 1
  MaxKills = 0
  MaxGroupings = 1
  ChunkConfigs <- MCChunkConfigs
SPECIFICATION ImportSpec
INVARIANT OwnTitlesKept
CHECK_DEADLOCK FALSE
