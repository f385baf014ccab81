CONSTANTS
  w1 = w1
  w2 = w2
  Writers <- TwoWriters
  HeaderLen = 2
  BodySizes = {1, 2}
  MaxFrames = 2
  MaxChunks = 4
  PipeCap = 4
SPECIFICATION FairSpec
INVARIANT TypeOK
INVARIANT SendsWithinBuffer
INVARIANT IntactInTwoSends
PROPERTY ChannelSpec
