--------------------------- MODULE MCFileTransfer ---------------------------
(* Small instances of FileTransfer for TLC.                                  *)
EXTENDS FileTransfer

Get(n) == [type |-> "get", len |-> n]
Put(n) == [type |-> "put", len |-> n]

(* Shares of several transfers, of none, and with a remainder.               *)
SomeJobs == {<<Get(3), Put(2)>>, <<Put(3), Get(1)>>, <<Put(1), Put(4)>>, <<Get(0), Get(4)>>}
TwoPuts == {<<Put(3), Put(2)>>}
EitherCrew == {1, 2}
ServerAndPut == {"server", "put"}
=============================================================================
