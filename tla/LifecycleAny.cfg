CONSTANTS
  h1 = h1
  c1 = c1
  Hosts <- OneHost
  Clients <- OneClient
  Fds <- FewFds
  Backlog = 2
  MaxFiles = 3
  MaxInits <- HostTwice
  MaxMessages = 1
  OneAtATime = TRUE
SPECIFICATION FairSpec
INVARIANT TypeOK
 
 
 
PROPERTY LibraryOutlivesSockets
PROPERTY ConnectionIsAccepted
