CONSTANTS
  Channels = {c1}
  MaxId = 2
  Files = {1}
  QueueLimit = 2
  RingSize = 1
  MaxLen = 2
  MaxDrops = 1
  MaxToggles = 1
SPECIFICATION FairSpec
INVARIANTS TailNeverCut NothingOutlivesTrack
PROPERTIES PlaylistServed FinishReturns EveryTrackEnds
\* The player rests when every id is used up and every queue has played.
CHECK_DEADLOCK FALSE
