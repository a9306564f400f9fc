SPECIFICATION FairSpec
CONSTANTS
  Track = {t1, t2}
  MaxTimerCount = 1
  MaxFinishFiles = 1
  Chunks = 2
  MaxJobs = 3
INVARIANTS TypeOK TracksOnce OneReadChain ChainAlive SeekHasBuffer FinishedBound
PROPERTY EveryFileRead
