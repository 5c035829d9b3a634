CONSTANTS
  game = game  voice = voice  monitor = monitor  stream = stream  chain = chain
  Channels <- MCChannels
  Mixes <- MCMixes
  Chains <- MCChains
  Group <- MCChannels
  Views <- MCViews
  Levels <- MCLevels
  Silence = 3
  Depth = 2
  PanSide = 1
  MaxWrites = 4
SPECIFICATION FairSpec
INVARIANTS TypeOK ChannelsAddUp
PROPERTIES GivesUpOnlyToForeign IntentWins
CHECK_DEADLOCK FALSE
