---------------------------- MODULE MCLibraryCache ----------------------------
(***************************************************************************)
(* Instances of LibraryCache for TLC: small libraries and binder threads.  *)
(***************************************************************************)
EXTENDS LibraryCache

CONSTANTS b1, b2

TwoCallers == {b1, b2}

\* Two albums of one artist, with two songs and one; ids from 0 without gaps.
OneArtist == {0}
AlbumPair == {0, 1}
ArtistOfPair == [a \in AlbumPair |-> 0]
FromZero == 0..2
ByNumber == <<0, 1, 2>>
AlbumOfZero == [s \in FromZero |-> IF s < 2 THEN 0 ELSE 1]

AllKinds == {"albums", "artists", "songs", "album", "artist", "song", "play"}
=============================================================================
