SPECIFICATION FairSpec
CONSTANTS
  VersionLength = 2
  Lengths = {1}
  MaxEvents = 2
  MaxLost = 1
  BufferSizes = {0, 3, 7}
  Numbers = {0, 1}
  MaxReadErrors = 1
INVARIANT FlushedOnDisk
INVARIANT DataLossJustified
PROPERTY ImplementsLog
PROPERTY ReaderCatchesUp
