CONSTANTS
  w1 = w1
  w2 = w2
  s1 = s1
  Waiters <- OneWaiter
  Senders <- NoSenders
  OutCap = 2
  InCap = 2
  MaxCalls = 3
  CanWakeSpuriously = FALSE
SPECIFICATION Spec
INVARIANT ReturnsOwnCount
