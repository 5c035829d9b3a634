CONSTANTS
  MaxEdits = 1
  MaxOps = 1
  MaxDrops = 0
  RenderedEdits = {1}
  EditKinds = {"rename"}
  Starts = {"saved"}
  NoBytes = NoBytes
  Corrupt = Corrupt
SPECIFICATION WatchFairSpec
PROPERTIES NoFeedbackLoop
\* The daemon rests when nobody edits, commands or restarts anything.
CHECK_DEADLOCK FALSE
