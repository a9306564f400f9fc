SPECIFICATION FairSpec
CONSTANTS
  StreamLength = 11
  BufferSizeCount = 3
  ElemSize = 3
  MaxFileChunkSize = 2
  MaxRead = 5
  Seeks <- ToEnd
  SeekAgain = FALSE
  SeekFarBack = FALSE
  MaxSeekJobs = 2
PROPERTY
  SeekEnds
\* A seek that nothing answers stops the decoder thread for good, and the input
\* thread has no more work.
CHECK_DEADLOCK FALSE
