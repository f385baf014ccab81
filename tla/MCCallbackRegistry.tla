-------------------------- MODULE MCCallbackRegistry --------------------------
(***************************************************************************)
(* Instances of CallbackRegistry for TLC.                                  *)
(***************************************************************************)
EXTENDS CallbackRegistry

CONSTANTS b1, b2, player, i1, i2

TwoBinders == {b1, b2}
TwoIds == {i1, i2}
=============================================================================
