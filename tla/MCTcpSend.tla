----------------------------- MODULE MCTcpSend -----------------------------
(* Small instances of TcpSend for TLC.                                       *)
EXTENDS TcpSend, TLC

CONSTANTS a1, a2, starter

TwoApps == {a1, a2}
Symmetry == Permutations({a1, a2})
=============================================================================
