---------------------------- MODULE MCUdpSocket ----------------------------
(* Small instances of UdpSocket for TLC.                                     *)
EXTENDS UdpSocket, TLC

CONSTANTS a1, a2

TwoApps == {a1, a2}
OneApp == {a1}
OneOrTwo == {1, 2}
JustOne == {1}
JustTwo == {2}
PlainAndKcp == {"plain", "kcp"}
=============================================================================
