CONSTANTS
  exact = exact
  guessed = guessed
  Track <- TwoTracks
  Announced <- TwoAnnounced
  Length <- TwoLength
  cd = cd
  hd = hd
  Formats <- TwoFormats
  CanPause = FALSE
  ChunkSize = 2
  ChunkCount = 1
  MaxSeeks = 0
  MaxJobs = 1
  MaxTimerCount = 3
  MaxCacheCount = 0
SPECIFICATION FairSpec
 
PROPERTY EverySoundReported
CHECK_DEADLOCK FALSE
