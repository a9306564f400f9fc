SPECIFICATION Spec
CONSTANTS
  StreamLength = 11
  BufferSizeCount = 3
  ElemSize = 3
  MaxFileChunkSize = 2
  MaxRead = 5
  Seeks <- Aligned
  SeekAgain = FALSE
  SeekFarBack = FALSE
  MaxSeekJobs = 2
INVARIANT
  DeliveredInOrder
