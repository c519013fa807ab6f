SPECIFICATION SalvageFairSpec
CONSTANTS
  Attempts = 2
  Drifts = 1
  Kills = 1
  Salvages = 1
  Home = Home
  Nowhere = Nowhere
  NoChat = NoChat
  NoAnswer = NoAnswer
CHECK_DEADLOCK FALSE
INVARIANTS
  SavedIsOwnAnswer
  ResendIsBlind
  SalvageIsOfItsChat
PROPERTIES
  RunEnds
