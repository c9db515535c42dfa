----------------------------- MODULE MCFraming -----------------------------
(* Small instances of Framing for TLC.                                       *)
EXTENDS Framing

MCPrefix == <<7>>
MCSuffix == <<8, 9>>
AllKinds == LengthKinds \cup StreamKinds \cup {"prefix_suffix_unpacker"}

(* Bytes that look like heads; halves of the suffix; lengths 0 to one more   *)
(* than fits beside a head.                                                  *)
MCBodies(k) ==
    IF k = "prefix_suffix_unpacker" THEN {<<>>, <<8>>, <<8, 7, 8>>, <<1, 2, 3, 4, 5, 6>>}
    ELSE IF k \in StreamKinds THEN {<<1>>, <<1, 2>>, <<3, 4, 5>>}
    ELSE {<<>>, <<0>>, <<0, 3>>, <<0, 2, 0, 4>>, <<1, 2, 3, 4, 5, 6>>, <<1, 2, 3, 4, 5, 6, 7>>}
=============================================================================
