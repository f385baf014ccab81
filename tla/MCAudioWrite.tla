----------------------------- MODULE MCAudioWrite -----------------------------
(***************************************************************************)
(* Instances of AudioWrite for TLC.                                        *)
(***************************************************************************)
EXTENDS AudioWrite

CONSTANTS w1, w2, s1

OneWaiter == {w1}
TwoWaiters == {w1, w2}
OneSender == {s1}
NoSenders == {}
=============================================================================
