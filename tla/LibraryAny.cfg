CONSTANTS
  b1 = b1
  b2 = b2
  Callers <- TwoCallers
  Artists <- OneArtist
  Albums <- AlbumPair
  Songs <- FromZero
  SongList <- ByNumber
  ArtistOf <- ArtistOfPair
  AlbumOf <- AlbumOfZero
  Kinds <- AllKinds
  Limit = 2
  MaxCalls = 2
SPECIFICATION FairSpec
INVARIANT TypeOK
INVARIANT AlbumsCompleteAtRest
INVARIANT ArtistsCompleteAtRest
PROPERTY ListHasItsSongs
PROPERTY NeverNull
 
PROPERTY CallReturns
