CONSTANTS
  Chunks <- ThreeSongs
  Threshold = 2
  Capacity = 4
  MaxSockets = 2
SPECIFICATION FairSpec
INVARIANT TypeOK
 
 
INVARIANT FormatPrecedesAudio
 
