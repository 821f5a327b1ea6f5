SPECIFICATION FairSpec
CONSTANTS
  MAX_BYTES = 4
  Faults <- MCFaults
  SoftInts <- MCSoftInts
INVARIANTS InterruptsInv OneHandler EoiPaired NoPhantomRead NoByteStuck
PROPERTIES GotInOrder FlushedWasGot BytesHandled
