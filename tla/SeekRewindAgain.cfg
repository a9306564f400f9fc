SPECIFICATION Spec
CONSTANTS
  StreamLength = 11
  BufferSizeCount = 3
  ElemSize = 3
  MaxFileChunkSize = 2
  MaxRead = 5
  Seeks <- Backward
  SeekAgain = TRUE
  SeekFarBack = FALSE
  MaxSeekJobs = 2
INVARIANT
  BufferHasSeekData
