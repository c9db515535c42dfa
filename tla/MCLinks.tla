------------------------------ MODULE MCLinks ------------------------------
(* Small instances of Links for TLC.                                         *)
EXTENDS Links

(* Answers with an IPv4 address, and with a domain longer than the buffer.   *)
SomeReplies == {10, 67}
AllKinds == {<<"socks4", "client">>, <<"socks5", "client">>} \cup ({"ssl", "ws", "wss"} \X {"client", "server"})
=============================================================================
