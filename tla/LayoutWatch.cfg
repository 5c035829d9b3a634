CONSTANTS
  MaxEdits = 3
  MaxOps = 2
  MaxDrops = 1
  RenderedEdits = {1}
  EditKinds = {"rename", "inplace"}
  Starts = {"saved"}
  NoBytes = NoBytes
  Corrupt = Corrupt
SPECIFICATION WatchFairSpec
INVARIANTS OwnBytesNeverForeign WatchSurvivesRenames
PROPERTIES UnreadEditSurvivesSave LastEditIsApplied
\* The daemon rests when nobody edits, commands or restarts anything.
CHECK_DEADLOCK FALSE
