CONSTANTS
  j1 = j1
  n1 = n1
  w1 = w1
  JavaHosts <- OneJava
  NativeHosts <- OneNative
  Writers <- OneWriter
  Kinds <- DataOnly
  MaxConns = 2
  MaxFrames = 2
SPECIFICATION FairSpec
INVARIANT TypeOK
INVARIANT FramesArriveWhole
INVARIANT ConnectReaches
PROPERTY HostDisconnectReturns
PROPERTY ReaderEnds
