-------------------------- MODULE MCRecvDispatch --------------------------
(* Small instances of RecvDispatch for TLC.                                  *)
EXTENDS RecvDispatch

CONSTANTS w1, w2

TwoWorkers == {w1, w2}

(* A client with two service threads, a pooled socket with one.              *)
SomeSettings == {<<TwoWorkers, TRUE>>, <<{w1}, FALSE>>, <<{w1}, TRUE>>}
=============================================================================
