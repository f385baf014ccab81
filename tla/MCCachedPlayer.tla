---------------------------- MODULE MCCachedPlayer ----------------------------
(***************************************************************************)
(* Instances of CachedPlayer for TLC: the songs that are played.           *)
(***************************************************************************)
EXTENDS CachedPlayer

ThreeSongs == <<3, 1, 2>>
=============================================================================
