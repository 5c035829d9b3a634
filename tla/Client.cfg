CONSTANTS
  game = game  voice = voice
  Channels <- MCChannels
  Accepted = {0, 1}
  Refused = refused
  None = none
  Desk <- MCDesk
  MaxEvents = 3
  MaxFaults = 1
  MaxEdits = 1
SPECIFICATION FairSpec
INVARIANTS TypeOK MirrorIsTrue
PROPERTIES MirrorReturns
CHECK_DEADLOCK FALSE
