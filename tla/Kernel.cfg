SPECIFICATION KernelSpec
CONSTANTS
  CLUSTER_MAP_SIZE = 8
  DIRECTORY_ENTRIES = 5
  CLUSTER_SIZE = 2
  shell_name = shell_name
  other = other
  kaikai = kaikai
  lain = lain
  blank = blank
  noext = noext
  txt = txt
  zero = zero
  even = even
  odd = odd
  text = text
  BLANK = blank
  NO_EXT = noext
  ZERO = zero
  Names <- MCNames
  Exts <- MCExts
  Tokens <- MCTokens
  Loads <- MCLoads
  ReadSizes <- MCReadSizes
  SHELL = shell_name
  KAIKAI = kaikai
  LAIN = lain
  TXT = txt
  KERNEL_PAGE = 768
  PAGE_FRAME_MAX_COUNT = 2
  InserterNames <- MCInserted
  InserterLoads <- MCInserterLoads
  KernelText <- MCKernelText
  Leftovers <- MCLeftovers
  TSS_ADDRESS = 1194684
  Vectors <- MCVectors
  GrubSegments <- MCSegments
INVARIANTS JumpHoldsShell FrameTrue NoFault
PROPERTIES ContextRestored TornStays BootsSettle BootEnds
