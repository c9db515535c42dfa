---------------------------- MODULE SendChannel ----------------------------
(***************************************************************************)
(* What the sending half of an ascs socket promises to the application,    *)
(* whatever threads call it: messages wait in one queue; a batch taken     *)
(* from its front is given to the network only when no batch is            *)
(* outstanding; the batch is then delivered whole, in order, or reported   *)
(* lost.  A message leaves the queue in no other way than being taken or   *)
(* being discarded from the front.                                         *)
(***************************************************************************)
EXTENDS Naturals, Sequences

CONSTANTS
    Msg,            \* every message an application may ever send
    MaxListLen      \* how many one call may hand over

VARIABLES
    queue,          \* accepted, not yet given to the network
    inflight,       \* the batch given to the network
    delivered,      \* reported sent, oldest first
    dropped         \* reported lost, discarded or taken back

chan == <<queue, inflight, delivered, dropped>>

Elements(s) == {s[i] : i \in DOMAIN s}
Known == Elements(queue) \cup Elements(inflight) \cup Elements(delivered) \cup dropped

Init ==
    /\ queue = <<>>
    /\ inflight = <<>>
    /\ delivered = <<>>
    /\ dropped = {}

(* The messages of one call join the back of the queue, or its front when    *)
(* sent with priority; none of them has been seen before.                    *)
Accept ==
    /\ \E n \in 1..MaxListLen : \E list \in [1..n -> Msg] :
          /\ queue' \in {queue \o list, list \o queue}
          /\ \A i, j \in 1..n : list[i] = list[j] => i = j
          /\ Elements(list) \cap Known = {}
    /\ UNCHANGED <<inflight, delivered, dropped>>

Cut(k) == SubSeq(queue, k + 1, Len(queue))

Take ==
    /\ inflight = <<>>
    /\ \E k \in 1..Len(queue) :
          /\ inflight' = SubSeq(queue, 1, k)
          /\ queue' = Cut(k)
    /\ UNCHANGED <<delivered, dropped>>

Deliver ==
    /\ inflight # <<>>
    /\ delivered' = delivered \o inflight
    /\ inflight' = <<>>
    /\ UNCHANGED <<queue, dropped>>

Lose ==
    /\ inflight # <<>>
    /\ dropped' = dropped \cup Elements(inflight)
    /\ inflight' = <<>>
    /\ UNCHANGED <<queue, delivered>>

Discard ==
    /\ \E k \in 1..Len(queue) :
          /\ dropped' = dropped \cup Elements(SubSeq(queue, 1, k))
          /\ queue' = Cut(k)
    /\ UNCHANGED <<inflight, delivered>>

Next == Accept \/ Take \/ Deliver \/ Lose \/ Discard

Spec == Init /\ [][Next]_chan
=============================================================================
