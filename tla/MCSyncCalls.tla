---------------------------- MODULE MCSyncCalls ----------------------------
(* Small instances of SyncCalls for TLC.                                     *)
EXTENDS SyncCalls, TLC

CONSTANTS u1, u2

TwoUsers == {u1, u2}
OneUser == {u1}
=============================================================================
