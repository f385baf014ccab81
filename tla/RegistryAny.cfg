CONSTANTS
  b1 = b1
  b2 = b2
  player = player
  i1 = i1
  i2 = i2
  Binders <- TwoBinders
  Player <- player
  Ids <- TwoIds
  Capacity = 4
  MaxCalls = 4
SPECIFICATION Spec
INVARIANT TypeOK
INVARIANT ListIsWanted
INVARIANT NoCrash
PROPERTY NotifiesAll
PROPERTY UnregisteredIsSilent
