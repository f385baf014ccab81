---------------------------- MODULE MCFrameStream -----------------------------
(***************************************************************************)
(* Instances of FrameStream for TLC.                                       *)
(***************************************************************************)
EXTENDS FrameStream

CONSTANTS w1, w2

OneWriter == {w1}
TwoWriters == {w1, w2}

ChannelSpec == Channel!Spec
=============================================================================
