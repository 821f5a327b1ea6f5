SPECIFICATION Spec
CONSTANTS
  Pages <- MCPages
  KERNEL_PAGE = 768
  PAGE_FRAME_MAX_COUNT = 3
INVARIANTS PagingInv CountExact TlbFresh FramesExclusive FrameMapTracks
