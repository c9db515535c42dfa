-------------------------- MODULE MCClientSocket --------------------------
(* Small instances of ClientSocket for TLC.                                  *)
EXTENDS ClientSocket

CONSTANTS w1, a1

OneWorker == {w1}
OneApp == {a1}
=============================================================================
