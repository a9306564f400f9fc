SPECIFICATION FairSpec
CONSTANTS
  Track = {flac, mp3}
  FlacTrack = {flac}
  NoTrack = NoTrack
  MaxTimerCount = 3
  Room = 1
  MaxSeeks = 1
  MaxJobs = 1
INVARIANTS TypeOK ChainAlive FinishMeetsItsTrack SeekHasDecoder
 
CHECK_DEADLOCK FALSE
