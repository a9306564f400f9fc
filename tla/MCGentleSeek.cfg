SPECIFICATION ReadingSpec
CONSTANTS
  StreamLength = 11
  BufferSizeCount = 3
  ElemSize = 3
  MaxFileChunkSize = 2
  MaxRead = 5
  Seeks <- GoodSeeks
  SeekAgain = FALSE
  SeekFarBack = FALSE
  MaxSeekJobs = 2
INVARIANTS
  TypeOK
  DeliveredInOrder
  FirstIsByteStart
  BufferHasSeekData
PROPERTIES
  SeekEnds
  WholeFileRead
