SPECIFICATION FairSpec
CONSTANTS
  CLUSTER_MAP_SIZE = 9
  DIRECTORY_ENTRIES = 4
  CLUSTER_SIZE = 2
  a = a
  b = b
  blank = blank
  noext = noext
  zero = zero
  even = even
  odd = odd
  BLANK = blank
  NO_EXT = noext
  ZERO = zero
  Names <- TwoNames
  Exts <- MCExts
  Tokens <- MCTokens
  Loads <- ChainLoads
  ReadSizes <- ChainReadSizes
INVARIANTS StoreInv NoCrossLinks NoDangling NoLeak ReadFitsBuffer ReadsStored
PROPERTIES OthersUntouched CallsReturn ImplementsFileStore
