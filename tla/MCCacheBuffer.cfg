SPECIFICATION Spec
CONSTANTS
  BufferSizeCount <- MCBufferSizeCount
  ElemSize        <- MCElemSize
  StreamLength    <- MCStreamLength
  MaxRequest      <- MCMaxRequest
INVARIANTS
  TypeOK
  ChunkOwnership
  NoWriteRefused
  ChunksClean
  TotalBytesExact

  
\* A buffer whose chunks were all dropped empty really stops: discard_data_upto()
\* then waits for data that no thread can supply.
CHECK_DEADLOCK FALSE
