--------------------------- MODULE MCSocketLifecycle ---------------------------
(***************************************************************************)
(* Instances of SocketLifecycle for TLC.                                   *)
(***************************************************************************)
EXTENDS SocketLifecycle

CONSTANTS h1, c1

OneHost == {h1}
OneClient == {c1}
FewFds == 3..5
HostTwice == [s \in Sockets |-> IF s \in Hosts THEN 2 ELSE 1]
=============================================================================
