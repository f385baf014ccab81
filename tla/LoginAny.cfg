CONSTANTS
  b1 = b1
  b2 = b2
  a1 = a1
  a2 = a2
  Callers <- TwoCallers
  Accounts <- TwoAccounts
  Life = 1
  MaxTime = 2
  MaxCalls = 3
SPECIFICATION FairSpec
INVARIANT TypeOK
PROPERTY PassesOnlyAfterLogin
 
 
