---------------------------- MODULE MCSocketPool ----------------------------
(* Small instances of SocketPool for TLC.                                    *)
EXTENDS SocketPool, TLC

CONSTANTS o1, o2, o3

TwoObjs == {o1, o2}
ThreeObjs == {o1, o2, o3}
BothRoles == {"server", "client"}
AllModes == {"free", "clear", "reuse", "restore"}
=============================================================================
