CONSTANTS
  b1 = b1
  b2 = b2
  player = player
  i1 = i1
  i2 = i2
  Binders <- TwoBinders
  Player <- player
  Ids <- TwoIds
  Capacity = 3
  MaxCalls = 3
SPECIFICATION Spec
INVARIANT RegistersAll
