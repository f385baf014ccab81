CONSTANTS
  w1 = w1
  w2 = w2
  s1 = s1
  Waiters <- OneWaiter
  Senders <- OneSender
  OutCap = 1
  InCap = 2
  MaxCalls = 3
  CanWakeSpuriously = TRUE
SPECIFICATION FairSpec
INVARIANT TypeOK
INVARIANT NoMissedNotify
 
 
