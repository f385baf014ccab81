---------------------------- MODULE MCSocksoLogin -----------------------------
(***************************************************************************)
(* Instances of SocksoLogin for TLC.                                       *)
(***************************************************************************)
EXTENDS SocksoLogin

CONSTANTS b1, b2, a1, a2

TwoCallers == {b1, b2}
TwoAccounts == {a1, a2}
=============================================================================
