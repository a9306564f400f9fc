CONSTANTS
  exact = exact
  guessed = guessed
  Track <- OneTrack
  Announced <- OneAnnounced
  Length <- OneLength
  cd = cd
  hd = hd
  Formats <- OneFormat
  CanPause = TRUE
  ChunkSize = 2
  ChunkCount = 2
  MaxSeeks = 2
  MaxJobs = 1
  MaxTimerCount = 2
  MaxCacheCount = 0
SPECIFICATION Spec
INVARIANTS TypeOK PlayChainAlive SamplesAccounted
CHECK_DEADLOCK FALSE
