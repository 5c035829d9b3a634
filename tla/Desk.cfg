CONSTANTS
  voice = voice  monitor = monitor  stream = stream  chat = chat
  None = None
  Channels <- MCChannels
  Mixes <- MCMixes
  Values <- MCValues
  Unity = "unity"
  Scenes = {"show"}
  Starter <- MCStarter
  Foreign <- MCForeign
  MaxOps = 5
  MaxCrashes = 1
SPECIFICATION Spec
INVARIANTS TypeOK LinksStand RestartLosesNothing
PROPERTIES UndoRestores RecallIsExact
CHECK_DEADLOCK FALSE
