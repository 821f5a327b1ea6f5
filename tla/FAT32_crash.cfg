SPECIFICATION CrashSpec
CONSTANTS
  CLUSTER_MAP_SIZE = 6
  DIRECTORY_ENTRIES = 3
  CLUSTER_SIZE = 2
  a = a
  blank = blank
  noext = noext
  zero = zero
  text = text
  BLANK = blank
  NO_EXT = noext
  ZERO = zero
  Names <- MCNames
  Exts <- MCExts
  Tokens <- MCTokens
  Loads <- MCLoads
  ReadSizes <- MCReadSizes
INVARIANTS CrashInv FilesSurvive WildOnlyIfTorn MountedRootValid
PROPERTIES WriteKeepsFiles
