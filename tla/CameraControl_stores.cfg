SPECIFICATION FairSpec
CONSTANTS
  Frame = 4
  PowerUp = 3
  Delay = 11
  Commands = 4
  Files <- AnyFiles
  MaxResets = 3
INVARIANTS
  NothingLost
  ConfiguredWhenDone
PROPERTIES
  Loads
