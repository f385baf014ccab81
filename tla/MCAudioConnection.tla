--------------------------- MODULE MCAudioConnection ---------------------------
(***************************************************************************)
(* Instances of AudioConnection for TLC.                                   *)
(***************************************************************************)
EXTENDS AudioConnection

CONSTANTS j1, n1, w1

OneJava == {j1}
OneNative == {n1}
NoJava == {}
OneWriter == {w1}
DataOnly == {"AUDIO_DATA"}
DataAndRequest == {"AUDIO_DATA", "REQUEST"}
=============================================================================
