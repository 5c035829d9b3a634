CONSTANTS
  firefox = firefox  tab1 = tab1  tab2 = tab2  call = call
  media = media  rtc = rtc
  game = game  pads = pads  pads2 = pads2  horn = horn  elsewhere = elsewhere
  Channels <- MCChannels
  Default = pads
  Board = pads
  Decks <- MCDecks
  Samples <- MCSamples
  Alike <- MCAlike
  Apps <- MCApps
  KeyOf <- MCKeyOf
  Names <- MCNames
  NameOf <- MCNameOf
  None = none
  Gone = gone
  Elsewhere = elsewhere
  Restored <- MCRestored
  MaxNodes = 5
  MaxVoices = 2
  MaxEvents = 4
  MaxChains = 2
SPECIFICATION FairSpec
INVARIANTS TypeOK NothingRevived
PROPERTIES ChoiceIsFinal SuccessorOnly 
CHECK_DEADLOCK FALSE
