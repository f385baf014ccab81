CONSTANTS
  w1 = w1
  w2 = w2
  Writers <- OneWriter
  HeaderLen = 1
  BodySizes = {3}
  MaxFrames = 2
  MaxChunks = 3
  PipeCap = 4
SPECIFICATION Spec
INVARIANT AllIsSent
