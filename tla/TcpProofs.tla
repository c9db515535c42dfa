----------------------------- MODULE TcpProofs -----------------------------
(***************************************************************************)
(* What holds of a TCP socket's sending half (TcpSend) for every number of *)
(* threads, every size, every bound and every combination of the macros,   *)
(* and, from LinkTyped on, of the layers above its connection (Links) for  *)
(* every set of links, size of the buffer, lengths of a proxy's answers    *)
(* and number of shutdowns and faults.  The two share nothing but this     *)
(* module: no proof of the one cites a definition of the other.            *)
(***************************************************************************)
EXTENDS TcpSend, Links, SequenceTheorems, TLAPS

-----------------------------------------------------------------------------
(* Lemmas on the operators.                                                  *)

(* move_items_out_ moves no more than there is, and something if there is    *)
(* something.                                                                *)
LEMMA MoveOutRange ==
    ASSUME send_buffer \in Seq(Msg), NEW limit \in Nat
    PROVE  /\ MoveOut(limit) \in 0..Len(send_buffer)
           /\ send_buffer # <<>> => MoveOut(limit) > 0
           /\ send_buffer = <<>> => MoveOut(limit) = 0
<1> DEFINE enough == IF limit = 0 THEN 1 ELSE (limit + MsgSize - 1) \div MsgSize
<1>1. enough \in Nat /\ enough > 0
  <2>1. MsgSize \in Nat /\ MsgSize > 0
    BY SizesAssumption
  <2>2. CASE limit = 0
    BY <2>2
  <2>3. CASE limit # 0
    <3>1. limit + MsgSize - 1 >= MsgSize
      BY <2>1, <2>3
    <3>2. \A a, b \in Nat : b > 0 /\ a >= b => a \div b \in Nat /\ a \div b > 0
      OBVIOUS
    <3> QED BY <2>1, <2>3, <3>1, <3>2
  <2> QED BY <2>2, <2>3
<1>2. Len(send_buffer) \in Nat /\ (send_buffer # <<>> => Len(send_buffer) > 0)
  OBVIOUS
<1>3. MoveOut(limit) = IF enough < Len(send_buffer) THEN enough ELSE Len(send_buffer)
  BY DEF MoveOut
<1> HIDE DEF enough
<1> QED BY <1>1, <1>2, <1>3

(* Splitting the buffer gives two sequences of messages.                     *)
LEMMA Split ==
    ASSUME send_buffer \in Seq(Msg), NEW k \in 0..Len(send_buffer)
    PROVE  /\ Front(k) \in Seq(Msg) /\ Len(Front(k)) = k
           /\ Rest(k) \in Seq(Msg) /\ Len(Rest(k)) = Len(send_buffer) - k
           /\ Elements(Front(k)) \subseteq Msg
BY DEF Front, Rest, Elements
(* What one call hands over is a list of messages, never an empty one.       *)
LEMMA HandedOver ==
    ASSUME TypeOK, NEW t \in Apps, NEW k \in 1..MaxListLen, NEW prior \in BOOLEAN,
           sent[t] + k <= MaxMsgs
    PROVE  /\ Handed(t, k, prior) \in Seq(Msg)
           /\ Handed(t, k, prior) # <<>>
<1>1. sent[t] \in Nat /\ k \in Nat /\ k > 0 /\ MaxMsgs \in Nat
  BY SizesAssumption DEF TypeOK
<1>2. \A i \in 1..k : [by |-> t, no |-> sent[t] + i, prior |-> prior] \in Msg
  BY <1>1 DEF Msg
<1> QED BY <1>1, <1>2 DEF Handed

-----------------------------------------------------------------------------
(* Type correctness.                                                         *)

LEMMA TypeInit == Init => TypeOK
<1> SUFFICES ASSUME Init PROVE TypeOK
  OBVIOUS
<1>1. /\ send_buffer \in Seq(Msg) /\ sending_msgs \in Seq(Msg) /\ wire \in Seq(Msg)
      /\ strandQ \in Seq({"do_send_msg", "send_handler"})
  BY DEF Init
<1>2. /\ pc \in [Threads -> {"idle", "admitted", "is_ready", "load", "post"}]
      /\ sent \in [Apps -> 0..MaxMsgs]
      /\ lost \subseteq Msg
  BY SizesAssumption DEF Init
<1> QED BY <1>1, <1>2 DEF Init, TypeOK

LEMMA TypeNext == TypeOK /\ [Next]_vars => TypeOK'
<1> SUFFICES ASSUME TypeOK, [Next]_vars PROVE TypeOK'
  OBVIOUS
<1> USE SizesAssumption DEF TypeOK, Threads, queueVars, flagVars, strandVars, netVars, linkVars
<1>1. ASSUME NEW t \in Apps, Admit(t) PROVE TypeOK'
  <2>1. Bytes \div 3 \in Nat
    <3>1. MsgSize \in Nat /\ Len(send_buffer) \in Nat
      OBVIOUS
    <3>2. Bytes \in Nat
      BY <3>1 DEF Bytes
    <3>3. \A n \in Nat : n \div 3 \in Nat
      OBVIOUS
    <3> QED BY <3>2, <3>3
  <2>2. MoveOut(Bytes \div 3) \in 0..Len(send_buffer)
    BY <2>1, MoveOutRange
  <2>3. /\ Rest(MoveOut(Bytes \div 3)) \in Seq(Msg)
        /\ Elements(Front(MoveOut(Bytes \div 3))) \subseteq Msg
    BY <2>2, Split
  <2> QED BY <1>1, <2>3 DEF Admit
<1>2. ASSUME NEW t \in Apps, Enqueue(t) PROVE TypeOK'
  <2>1. PICK k \in 1..MaxListLen, prior \in BOOLEAN :
           /\ sent[t] + k <= MaxMsgs
           /\ send_buffer' = IF prior THEN Handed(t, k, prior) \o send_buffer
                                      ELSE send_buffer \o Handed(t, k, prior)
           /\ sent' = [sent EXCEPT ![t] = @ + k]
    BY <1>2 DEF Enqueue
  <2>2. send_buffer' \in Seq(Msg)
    BY <2>1, HandedOver
  <2>3. sent' \in [Apps -> 0..MaxMsgs]
    BY <2>1
  <2> QED BY <1>2, <2>2, <2>3 DEF Enqueue
<1>3. ASSUME NEW t \in Apps, PopPending(t) PROVE TypeOK'
  <2>1. PICK k \in {1, Len(send_buffer)} :
           /\ k <= Len(send_buffer)
           /\ send_buffer' = Rest(k)
           /\ lost' = lost \cup Elements(Front(k))
    BY <1>3 DEF PopPending
  <2>2. k \in 0..Len(send_buffer)
    BY <2>1
  <2>3. Rest(k) \in Seq(Msg) /\ Elements(Front(k)) \subseteq Msg
    BY <2>2, Split
  <2> QED BY <1>3, <2>1, <2>3 DEF PopPending
<1>4. ASSUME NEW t \in Threads, Call(t) PROVE TypeOK'
  <2>1. CASE ReadReady(t)
    BY <2>1 DEF ReadReady
  <2>3. CASE LoadSending(t)
    BY <2>3 DEF LoadSending
  <2>2. CASE Post(t)
    <3>1. Append(strandQ, "do_send_msg") \in Seq({"do_send_msg", "send_handler"})
      OBVIOUS
    <3> QED BY <2>2, <3>1 DEF Post
  <2> QED BY <1>4, <2>1, <2>2, <2>3 DEF Call
<1>5. ASSUME RunTask PROVE TypeOK'
  <2>1. Tail(strandQ) \in Seq({"do_send_msg", "send_handler"})
    BY <1>5 DEF RunTask
  <2> QED BY <1>5, <2>1 DEF RunTask
<1>6. ASSUME RunSendHandler PROVE TypeOK'
  <2>1. Elements(sending_msgs) \subseteq Msg
    BY DEF Elements
  <2>2. /\ strandQ' \in Seq({"do_send_msg", "send_handler"})
        /\ sending_msgs' \in Seq(Msg) /\ write' = "none"
        /\ UNCHANGED <<flagVars, linkVars, pc, send_buffer, sent, pops>>
    BY <1>6 DEF RunSendHandler
  <2>3. /\ wire' \in Seq(Msg) /\ lost' \subseteq Msg
        /\ strandPc' \in {"check", "clear"} /\ in_strand' \in BOOLEAN
    <3>1. wire \o sending_msgs \in Seq(Msg)
      OBVIOUS
    <3>2. CASE write = "ok"
      BY <1>6, <3>1, <3>2 DEF RunSendHandler
    <3>3. CASE write = "error"
      BY <1>6, <2>1, <3>3 DEF RunSendHandler
    <3> QED BY <1>6, <3>2, <3>3 DEF RunSendHandler
  <2> QED BY <2>2, <2>3
<1>7. ASSUME CheckEmpty PROVE TypeOK'
  BY <1>7 DEF CheckEmpty, Goto
<1>8. ASSUME TestAndSet PROVE TypeOK'
  BY <1>8 DEF TestAndSet, Goto
<1>9. ASSUME MoveItemsOut PROVE TypeOK'
  <2>1. MoveOut(BatchSize) \in 0..Len(send_buffer)
    BY MoveOutRange
  <2>2. Rest(MoveOut(BatchSize)) \in Seq(Msg) /\ Front(MoveOut(BatchSize)) \in Seq(Msg)
    BY <2>1, Split
  <2> QED BY <1>9, <2>2 DEF MoveItemsOut, Goto
<1>10. ASSUME ClearSending PROVE TypeOK'
  BY <1>10 DEF ClearSending, Goto
<1>11. ASSUME Flush PROVE TypeOK'
  BY <1>11 DEF Flush
<1>12. ASSUME Recheck PROVE TypeOK'
  BY <1>12 DEF Recheck, Goto
<1>13. ASSUME ResendMsg PROVE TypeOK'
  BY <1>13 DEF ResendMsg
<1>14. ASSUME WriteDone PROVE TypeOK'
  BY <1>14 DEF WriteDone
<1>15. ASSUME Fail \/ Close \/ Restart PROVE TypeOK'
  BY <1>15 DEF Fail, Close, Restart
<1>16. ASSUME UNCHANGED vars PROVE TypeOK'
  BY <1>16 DEF vars
<1> QED
  BY <1>1, <1>2, <1>3, <1>4, <1>5, <1>6, <1>7, <1>8, <1>9, <1>10, <1>11, <1>12, <1>13,
     <1>14, <1>15, <1>16 DEF Next, Strand

(* Every variable keeps its type.                                            *)
THEOREM TypeCorrect == Spec => []TypeOK
BY TypeInit, TypeNext, PTL DEF Spec
-----------------------------------------------------------------------------
(* The loop of writes has one owner, in every build.                         *)

LEMMA LoopInit == Init => LoopInv
BY DEF Init, LoopInv, Alone, FlagOwned, InCharge, PathsTaken

LEMMA LoopNext == TypeOK /\ LoopInv /\ [Next]_vars => LoopInv'
<1> SUFFICES ASSUME TypeOK, LoopInv, [Next]_vars PROVE LoopInv'
  OBVIOUS
<1> USE DEF LoopInv, Alone, FlagOwned, InCharge, PathsTaken,
        queueVars, flagVars, strandVars, netVars, linkVars
<1>1. ASSUME NEW t \in Apps, Admit(t) \/ Enqueue(t) \/ PopPending(t) PROVE LoopInv'
  <2>1. /\ UNCHANGED <<flagVars, strandVars, netVars, linkVars>>
        /\ ArbitrarySend => \A u \in Threads : pc'[u] \notin {"is_ready", "load"}
    BY <1>1 DEF Admit, Enqueue, PopPending, TypeOK
  <2> QED BY <2>1
<1>2. ASSUME NEW t \in Threads, Call(t) PROVE LoopInv'
  <2>1. /\ UNCHANGED <<flagVars, strandVars, netVars, linkVars>>
        /\ ArbitrarySend => \A u \in Threads : pc'[u] \notin {"is_ready", "load"}
    BY <1>2 DEF Call, ReadReady, LoadSending, Post, TypeOK
  <2> QED BY <2>1
<1>3. ASSUME RunTask PROVE LoopInv'
  BY <1>3 DEF RunTask, TypeOK
<1>4. ASSUME RunSendHandler PROVE LoopInv'
  BY <1>4 DEF RunSendHandler, TypeOK
<1>5. ASSUME CheckEmpty PROVE LoopInv'
  BY <1>5 DEF CheckEmpty, Goto, TypeOK
<1>6. ASSUME TestAndSet PROVE LoopInv'
  BY <1>6 DEF TestAndSet, Goto, TypeOK
<1>7. ASSUME MoveItemsOut PROVE LoopInv'
  <2> DEFINE k == MoveOut(BatchSize)
  <2>1. k \in 0..Len(send_buffer)
    BY SizesAssumption, MoveOutRange DEF TypeOK
  <2>2. CASE k = 0
    <3>1. Front(k) = <<>>
      BY <2>1, <2>2, Split DEF TypeOK
    <3>2. sending_msgs' = <<>> /\ write' = write /\ strandPc' = "clear"
      BY <1>7, <2>2, <3>1 DEF MoveItemsOut, Goto
    <3> QED BY <1>7, <3>2 DEF MoveItemsOut, Goto
  <2>3. CASE k > 0
    <3>1. write' = "inflight" /\ strandPc' = "idle"
      BY <1>7, <2>3 DEF MoveItemsOut, Goto
    <3> QED BY <1>7, <3>1 DEF MoveItemsOut, Goto
  <2> QED BY <2>1, <2>2, <2>3 DEF TypeOK
<1>8. ASSUME ClearSending PROVE LoopInv'
  BY <1>8 DEF ClearSending, Goto, TypeOK
<1>9. ASSUME Flush PROVE LoopInv'
  BY <1>9 DEF Flush, TypeOK
<1>10. ASSUME Recheck PROVE LoopInv'
  BY <1>10 DEF Recheck, Goto, TypeOK
<1>11. ASSUME ResendMsg PROVE LoopInv'
  BY <1>11 DEF ResendMsg, TypeOK
<1>12. ASSUME WriteDone PROVE LoopInv'
  BY <1>12 DEF WriteDone, TypeOK
<1>13. ASSUME Fail \/ Close PROVE LoopInv'
  BY <1>13 DEF Fail, Close, TypeOK
<1>14. ASSUME Restart PROVE LoopInv'
  BY <1>14 DEF Restart, TypeOK
<1>15. ASSUME UNCHANGED vars PROVE LoopInv'
  BY <1>15 DEF vars
<1> QED
  BY <1>1, <1>2, <1>3, <1>4, <1>5, <1>6, <1>7, <1>8, <1>9, <1>10, <1>11, <1>12, <1>13, <1>14, <1>15
  DEF Next, Strand

LEMMA LoopHolds == Spec => []LoopInv
BY TypeCorrect, LoopInit, LoopNext, PTL DEF Spec

(* Two async_write never overlap, whatever the memory order and the macros.  *)
THEOREM WritesNeverOverlap == Spec => []WriteExclusive
<1>1. LoopInv => WriteExclusive
  BY DEF LoopInv, Alone, WriteExclusive
<1> QED BY <1>1, LoopHolds, PTL

(* The flag is set exactly while somebody is in charge of sending.           *)
THEOREM FlagHasOwner == Spec => []FlagOwned
<1>1. LoopInv => FlagOwned
  BY DEF LoopInv
<1> QED BY <1>1, LoopHolds, PTL

-----------------------------------------------------------------------------
(* No message waits for nobody, in the builds of WakeupAssumption.           *)

LEMMA WakeupInit == Init => WakeupInv
<1> SUFFICES ASSUME Init PROVE WakeupInv
  OBVIOUS
<1>1. LoopInv
  BY LoopInit
<1>2. Followed /\ Attended
  BY DEF Init, Followed, Attended
<1> QED BY <1>1, <1>2 DEF WakeupInv

LEMMA WakeupNext ==
    WakeupAssumption /\ TypeOK /\ WakeupInv /\ [Next]_vars => (Followed /\ Attended)'
<1> SUFFICES ASSUME WakeupAssumption, TypeOK, WakeupInv, [Next]_vars
             PROVE  (Followed /\ Attended)'
  OBVIOUS
<1> USE DEF WakeupInv, Followed, Attended, Posting,
            queueVars, flagVars, strandVars, netVars, linkVars
<1>1. ASSUME NEW t \in Apps, Admit(t) PROVE (Followed /\ Attended)'
  <2>1. \A u \in Threads : pc[u] # "idle" => pc'[u] = pc[u]
    BY <1>1 DEF Admit, TypeOK
  <2>2. CASE UNCHANGED send_buffer
    BY <1>1, <2>1, <2>2 DEF Admit
  <2>3. CASE ShrinkSendBuffer
    <3>1. ArbitrarySend
      BY <2>3 DEF WakeupAssumption
    <3>2. send_buffer' # <<>> => send_buffer # <<>>
      <4>1. \A k \in Nat : SubSeq(<<>>, k + 1, Len(<<>>)) = <<>>
        OBVIOUS
      <4>2. CASE send_buffer = <<>>
        <5>1. Bytes = 0
          BY <4>2, SizesAssumption DEF Bytes
        <5> QED BY <1>1, <5>1, SizesAssumption DEF Admit
      <4> QED BY <4>2
    <3> QED BY <1>1, <2>1, <3>1, <3>2 DEF Admit
  <2> QED BY <1>1, <2>2, <2>3 DEF Admit
<1>2. ASSUME NEW t \in Apps, Enqueue(t) PROVE (Followed /\ Attended)'
  <2>1. /\ pc'[t] = IF ArbitrarySend THEN "post" ELSE "is_ready"
        /\ \A u \in Threads : pc[u] # "admitted" => pc'[u] = pc[u]
        /\ t \in Threads
    BY <1>2 DEF Enqueue, TypeOK, Threads
  <2>2. send_buffer' # <<>>
    <3>1. PICK k \in 1..MaxListLen, prior \in BOOLEAN :
             /\ sent[t] + k <= MaxMsgs
             /\ send_buffer' = IF prior THEN Handed(t, k, prior) \o send_buffer
                                        ELSE send_buffer \o Handed(t, k, prior)
      BY <1>2 DEF Enqueue
    <3>2. \A r, q \in Seq(Msg) : r # <<>> => r \o q # <<>> /\ q \o r # <<>>
      OBVIOUS
    <3> QED BY <3>1, <3>2, HandedOver DEF TypeOK
  <2> QED BY <1>2, <2>1, <2>2 DEF Enqueue
<1>3. ASSUME NEW t \in Apps, PopPending(t) PROVE (Followed /\ Attended)'
  <2>1. pc'[t] = "post" /\ t \in Threads
    BY <1>3 DEF PopPending, TypeOK, Threads
  <2> QED BY <2>1
<1>4. ASSUME NEW t \in Threads, ReadReady(t) PROVE (Followed /\ Attended)'
  <2>1. /\ \A u \in Threads : pc[u] # "is_ready" => pc'[u] = pc[u]
        /\ link = "ready" => pc'[t] = "load"
        /\ \A u \in Threads : u # t => pc'[u] = pc[u]
    BY <1>4 DEF ReadReady, is_ready, TypeOK
  <2> QED BY <1>4, <2>1 DEF ReadReady
<1>5. ASSUME NEW t \in Threads, LoadSending(t) PROVE (Followed /\ Attended)'
  <2>1. /\ \A u \in Threads : pc[u] # "load" => pc'[u] = pc[u]
        /\ \A u \in Threads : u # t => pc'[u] = pc[u]
        /\ sending # 1 => pc'[t] = "post"
    BY <1>5 DEF LoadSending, TypeOK
  <2>2. sending = 1 => InCharge
    BY <1>5 DEF LoadSending, LoopInv, PathsTaken, FlagOwned, WakeupAssumption
  <2> QED BY <1>5, <2>1, <2>2 DEF LoadSending, InCharge, LoopInv, PathsTaken
<1>6. ASSUME NEW t \in Threads, Post(t) PROVE (Followed /\ Attended)'
  <2>1. strandQ' # <<>>
    <3>1. strandQ \in Seq({"do_send_msg", "send_handler"})
      BY DEF TypeOK
    <3>2. strandQ' = Append(strandQ, "do_send_msg")
      BY <1>6 DEF Post
    <3> QED BY ONLY <3>1, <3>2
  <2> QED BY <2>1
<1>7. ASSUME RunTask PROVE (Followed /\ Attended)'
  BY <1>7 DEF RunTask
<1>8. ASSUME RunSendHandler PROVE (Followed /\ Attended)'
  BY <1>8 DEF RunSendHandler, LoopInv, PathsTaken
<1>9. ASSUME CheckEmpty PROVE (Followed /\ Attended)'
  BY <1>9 DEF CheckEmpty, Goto
<1>10. ASSUME TestAndSet PROVE (Followed /\ Attended)'
  BY <1>10 DEF TestAndSet, Goto, LoopInv, FlagOwned, InCharge
<1>11. ASSUME MoveItemsOut PROVE (Followed /\ Attended)'
  <2> DEFINE k == MoveOut(BatchSize)
  <2>1. /\ k \in 0..Len(send_buffer)
        /\ send_buffer # <<>> => k > 0
        /\ send_buffer = <<>> => k = 0
    BY SizesAssumption, MoveOutRange DEF TypeOK
  <2>2. CASE k > 0
    <3>1. write' = "inflight" /\ strandPc' = "idle"
      BY <1>11, <2>2 DEF MoveItemsOut, Goto
    <3> QED BY <3>1
  <2>3. CASE k = 0
    <3>1. send_buffer = <<>> /\ strandPc' = "clear"
      BY <1>11, <2>1, <2>3 DEF MoveItemsOut, Goto
    <3>2. send_buffer' = <<>>
      <4>1. send_buffer' = SubSeq(<<>>, k + 1, 0)
        BY <1>11, <3>1 DEF MoveItemsOut, Rest
      <4> QED BY <4>1, <2>3
    <3> QED BY <1>11, <3>1, <3>2 DEF MoveItemsOut, Goto
  <2> QED BY <2>1, <2>2, <2>3
<1>12. ASSUME ClearSending PROVE (Followed /\ Attended)'
  BY <1>12 DEF ClearSending, Goto, TypeOK
<1>13. ASSUME Flush PROVE (Followed /\ Attended)'
  BY <1>13 DEF Flush
<1>14. ASSUME Recheck PROVE (Followed /\ Attended)'
  BY <1>14 DEF Recheck, Goto
<1>15. ASSUME ResendMsg PROVE (Followed /\ Attended)'
  <2>1. sending = 0 \/ hidden
    BY <1>15 DEF ResendMsg, LoopInv, Alone, FlagOwned, InCharge, TypeOK
  <2> QED BY <1>15, <2>1 DEF ResendMsg, is_ready
<1>16. ASSUME WriteDone PROVE (Followed /\ Attended)'
  <2>1. strandQ' # <<>>
    <3>1. strandQ \in Seq({"do_send_msg", "send_handler"})
      BY DEF TypeOK
    <3>2. strandQ' = Append(strandQ, "send_handler")
      BY <1>16 DEF WriteDone
    <3> QED BY ONLY <3>1, <3>2
  <2> QED BY <2>1
<1>17. ASSUME Fail \/ Close PROVE (Followed /\ Attended)'
  BY <1>17 DEF Fail, Close
<1>18. ASSUME Restart PROVE (Followed /\ Attended)'
  <2>1. pc'[Starter] = (IF ArbitrarySend THEN "post" ELSE "is_ready") /\ Starter \in Threads
    BY <1>18 DEF Restart, TypeOK, Threads
  <2> QED BY <1>18, <2>1 DEF Restart
<1>19. ASSUME UNCHANGED vars PROVE (Followed /\ Attended)'
  BY <1>19 DEF vars
<1> QED
  BY <1>1, <1>2, <1>3, <1>4, <1>5, <1>6, <1>7, <1>8, <1>9, <1>10, <1>11, <1>12, <1>13,
     <1>14, <1>15, <1>16, <1>17, <1>18, <1>19 DEF Next, Strand, Call

(* With ASCS_ARBITRARY_SEND, or on a machine that keeps clear_sending() ahead *)
(* of the next look at the buffer and without ASCS_SHRINK_SEND_BUFFER, no    *)
(* message is ever left behind in the send buffer.                           *)
THEOREM NoMessageLeftBehind ==
    ASSUME WakeupAssumption
    PROVE  Spec => []NothingLeftBehind
<1>1. TypeOK /\ TypeOK' /\ WakeupInv /\ [Next]_vars => WakeupInv'
  BY LoopNext, WakeupNext, WakeupAssumption DEF WakeupInv
<1>2. WakeupInv => NothingLeftBehind
  BY DEF WakeupInv, Attended, Posting, NothingLeftBehind, Quiet
<1> QED BY TypeCorrect, WakeupInit, <1>1, <1>2, PTL DEF Spec
-----------------------------------------------------------------------------
(* Messages are neither lost sight of, nor repeated, nor overtaken.          *)

(* The two halves of Conservation, as facts about one sequence.              *)
Distinct(s) == \A i, j \in DOMAIN s : s[i] = s[j] => i = j
InTurn(s) ==
    \A i, j \in DOMAIN s :
        i < j /\ s[i].by = s[j].by /\ ~s[i].prior /\ ~s[j].prior => s[i].no < s[j].no

(* A concatenation holds the messages of its parts.                          *)
LEMMA ElementsConcat ==
    ASSUME NEW s \in Seq(Msg), NEW r \in Seq(Msg)
    PROVE  Elements(s \o r) = Elements(s) \cup Elements(r)
<1>1. /\ s \o r \in Seq(Msg) /\ Len(s \o r) = Len(s) + Len(r)
      /\ \A i \in 1..Len(s) : (s \o r)[i] = s[i]
      /\ \A i \in 1..Len(r) : (s \o r)[Len(s) + i] = r[i]
  OBVIOUS
<1>2. ASSUME NEW m \in Elements(s \o r) PROVE m \in Elements(s) \cup Elements(r)
  <2>1. PICK i \in 1..(Len(s) + Len(r)) : m = (s \o r)[i]
    BY <1>1 DEF Elements
  <2>2. CASE i <= Len(s)
    BY <1>1, <2>1, <2>2 DEF Elements
  <2>3. CASE i > Len(s)
    <3>1. i - Len(s) \in 1..Len(r) /\ i = Len(s) + (i - Len(s))
      BY <2>3
    <3> QED BY <1>1, <2>1, <3>1 DEF Elements
  <2> QED BY <2>2, <2>3
<1>3. ASSUME NEW m \in Elements(s) \cup Elements(r) PROVE m \in Elements(s \o r)
  <2>1. CASE m \in Elements(s)
    BY <1>1, <2>1 DEF Elements
  <2>2. CASE m \in Elements(r)
    <3>1. PICK i \in 1..Len(r) : m = r[i]
      BY <2>2 DEF Elements
    <3>2. Len(s) + i \in 1..(Len(s) + Len(r))
      OBVIOUS
    <3> QED BY <1>1, <3>1, <3>2 DEF Elements
  <2> QED BY <1>3, <2>1, <2>2
<1> QED BY <1>2, <1>3

(* Messages that leave the middle of a sequence without repetitions are not  *)
(* in what remains, and what remains is still in turn.                       *)
LEMMA Removed ==
    ASSUME NEW a \in Seq(Msg), NEW f \in Seq(Msg), NEW b \in Seq(Msg),
           Distinct((a \o f) \o b)
    PROVE  /\ Distinct(a \o b)
           /\ Elements(a \o b) \cap Elements(f) = {}
           /\ InTurn((a \o f) \o b) => InTurn(a \o b)
<1> DEFINE whole == (a \o f) \o b
           place(i) == IF i <= Len(a) THEN i ELSE i + Len(f)
<1>1. /\ a \o b \in Seq(Msg) /\ whole \in Seq(Msg)
      /\ DOMAIN (a \o b) = 1..(Len(a) + Len(b))
      /\ DOMAIN whole = 1..(Len(a) + Len(f) + Len(b))
  OBVIOUS
<1>2. \A i \in DOMAIN (a \o b) : place(i) \in DOMAIN whole /\ whole[place(i)] = (a \o b)[i]
  OBVIOUS
<1>3. \A i \in 1..Len(f) : Len(a) + i \in DOMAIN whole /\ whole[Len(a) + i] = f[i]
  OBVIOUS
<1>4. \A i, j \in DOMAIN (a \o b) : (i < j <=> place(i) < place(j)) /\ (place(i) = place(j) => i = j)
  BY <1>1
<1>5. \A i \in DOMAIN (a \o b), k \in 1..Len(f) : place(i) # Len(a) + k
  BY <1>1
<1> HIDE DEF whole, place
<1>6. Distinct(a \o b)
  BY <1>2, <1>4 DEF Distinct, whole
<1>7. Elements(a \o b) \cap Elements(f) = {}
  <2> SUFFICES ASSUME NEW i \in DOMAIN (a \o b), NEW k \in DOMAIN f, (a \o b)[i] = f[k]
               PROVE  FALSE
    BY DEF Elements
  <2>1. k \in 1..Len(f)
    OBVIOUS
  <2> QED BY <1>2, <1>3, <1>5, <2>1 DEF Distinct, whole
<1>8. InTurn(whole) => InTurn(a \o b)
  BY <1>2, <1>4 DEF InTurn
<1> QED BY <1>6, <1>7, <1>8 DEF whole

(* Where the messages are once h has been put between a and b.               *)
LEMMA InsertedAt ==
    ASSUME NEW a \in Seq(Msg), NEW h \in Seq(Msg), NEW b \in Seq(Msg)
    PROVE  /\ \A i \in 1..Len(a) : ((a \o h) \o b)[i] = a[i] /\ (a \o b)[i] = a[i]
           /\ \A i \in (Len(a) + 1)..(Len(a) + Len(h)) : ((a \o h) \o b)[i] = h[i - Len(a)]
           /\ \A i \in (Len(a) + Len(h) + 1)..(Len(a) + Len(h) + Len(b)) :
                 ((a \o h) \o b)[i] = (a \o b)[i - Len(h)]
<1>1. /\ a \o h \in Seq(Msg) /\ Len(a \o h) = Len(a) + Len(h)
      /\ Len(a) \in Nat /\ Len(h) \in Nat /\ Len(b) \in Nat
  OBVIOUS
<1>2. \A i \in 1..Len(a \o h) : ((a \o h) \o b)[i] = (a \o h)[i]
  BY <1>1
<1>3. \A i \in 1..Len(a) : (a \o h)[i] = a[i] /\ (a \o b)[i] = a[i]
  OBVIOUS
<1>4. \A i \in (Len(a) + 1)..(Len(a) + Len(h)) : (a \o h)[i] = h[i - Len(a)]
  OBVIOUS
<1>5. \A i \in (Len(a \o h) + 1)..(Len(a \o h) + Len(b)) : ((a \o h) \o b)[i] = b[i - Len(a \o h)]
  BY <1>1
<1>6. \A i \in (Len(a) + 1)..(Len(a) + Len(b)) : (a \o b)[i] = b[i - Len(a)]
  OBVIOUS
<1>7. ASSUME NEW i \in 1..Len(a) PROVE ((a \o h) \o b)[i] = a[i]
  BY <1>1, <1>2, <1>3
<1>8. ASSUME NEW i \in (Len(a) + 1)..(Len(a) + Len(h)) PROVE ((a \o h) \o b)[i] = h[i - Len(a)]
  BY <1>1, <1>2, <1>4
<1>9. ASSUME NEW i \in (Len(a) + Len(h) + 1)..(Len(a) + Len(h) + Len(b))
      PROVE  ((a \o h) \o b)[i] = (a \o b)[i - Len(h)]
  <2>1. ((a \o h) \o b)[i] = b[i - Len(a \o h)]
    BY <1>1, <1>5
  <2>2. (a \o b)[i - Len(h)] = b[(i - Len(h)) - Len(a)]
    BY <1>1, <1>6
  <2>3. i - Len(a \o h) = (i - Len(h)) - Len(a)
    BY <1>1
  <2> QED BY <2>1, <2>2, <2>3
<1> QED BY <1>3, <1>7, <1>8, <1>9

(* New messages put into a sequence repeat none of it.                       *)
LEMMA Inserted ==
    ASSUME NEW a \in Seq(Msg), NEW h \in Seq(Msg), NEW b \in Seq(Msg),
           Distinct(a \o b), Distinct(h), Elements(a \o b) \cap Elements(h) = {}
    PROVE  Distinct((a \o h) \o b)
<1> DEFINE whole == (a \o h) \o b
           before(i) == IF i <= Len(a) THEN i ELSE i - Len(h)
           New(i) == Len(a) < i /\ i <= Len(a) + Len(h)
<1>1. /\ DOMAIN (a \o b) = 1..(Len(a) + Len(b))
      /\ DOMAIN whole = 1..(Len(a) + Len(h) + Len(b))
      /\ DOMAIN h = 1..Len(h)
  OBVIOUS
<1>2. \A i \in DOMAIN whole : ~New(i) =>
          before(i) \in DOMAIN (a \o b) /\ whole[i] = (a \o b)[before(i)]
  <2>1. /\ \A i \in 1..Len(a) : whole[i] = a[i] /\ (a \o b)[i] = a[i]
        /\ \A i \in (Len(a) + Len(h) + 1)..(Len(a) + Len(h) + Len(b)) : whole[i] = (a \o b)[i - Len(h)]
        /\ Len(a) \in Nat /\ Len(h) \in Nat /\ Len(b) \in Nat
    BY InsertedAt
  <2> HIDE DEF whole
  <2> SUFFICES ASSUME NEW i \in DOMAIN whole, ~New(i)
               PROVE  before(i) \in DOMAIN (a \o b) /\ whole[i] = (a \o b)[before(i)]
    OBVIOUS
  <2>2. CASE i <= Len(a)
    <3>1. i \in 1..Len(a) /\ before(i) = i
      BY <1>1, <2>1, <2>2
    <3>2. whole[i] = (a \o b)[before(i)]
      BY ONLY <2>1, <3>1
    <3>3. before(i) \in 1..(Len(a) + Len(b))
      BY ONLY <2>1, <3>1
    <3> QED BY ONLY <1>1, <3>2, <3>3
  <2>3. CASE ~(i <= Len(a))
    <3>1. i \in (Len(a) + Len(h) + 1)..(Len(a) + Len(h) + Len(b)) /\ before(i) = i - Len(h)
      BY <1>1, <2>1, <2>3
    <3>2. whole[i] = (a \o b)[before(i)]
      BY ONLY <2>1, <3>1
    <3>3. before(i) \in 1..(Len(a) + Len(b))
      BY ONLY <2>1, <3>1
    <3> QED BY ONLY <1>1, <3>2, <3>3
  <2> QED BY <2>2, <2>3
<1>3. \A i \in DOMAIN whole : New(i) =>
          i - Len(a) \in DOMAIN h /\ whole[i] = h[i - Len(a)]
  <2>1. /\ \A i \in (Len(a) + 1)..(Len(a) + Len(h)) : whole[i] = h[i - Len(a)]
        /\ Len(a) \in Nat /\ Len(h) \in Nat /\ Len(b) \in Nat
    BY InsertedAt
  <2> HIDE DEF whole
  <2> QED BY <1>1, <2>1
<1>4. \A i, j \in DOMAIN whole : ~New(i) /\ ~New(j) => (i = j <=> before(i) = before(j))
  BY <1>1
<1>5. \A i, j \in DOMAIN whole : i - Len(a) = j - Len(a) => i = j
  BY <1>1
<1> HIDE DEF whole, before, New
<1>10. \A i \in DOMAIN whole : IF New(i) THEN whole[i] \in Elements(h) ELSE whole[i] \in Elements(a \o b)
  BY <1>2, <1>3 DEF Elements
<1> SUFFICES ASSUME NEW i \in DOMAIN whole, NEW j \in DOMAIN whole, whole[i] = whole[j]
             PROVE  i = j
  BY DEF Distinct, whole
<1>6. CASE New(i) /\ New(j)
  BY <1>3, <1>5, <1>6 DEF Distinct
<1>7. CASE ~New(i) /\ ~New(j)
  BY <1>2, <1>4, <1>7 DEF Distinct
<1>8. CASE New(i) /\ ~New(j)
  BY <1>8, <1>10
<1>9. CASE ~New(i) /\ New(j)
  BY <1>9, <1>10
<1> QED BY <1>6, <1>7, <1>8, <1>9

(* The order of each thread survives an insertion of messages with priority  *)
(* anywhere, and of later messages at the end.                               *)
LEMMA InsertedInTurn ==
    ASSUME NEW a \in Seq(Msg), NEW h \in Seq(Msg), NEW b \in Seq(Msg),
           InTurn(a \o b), InTurn(h),
           \/ \A m \in Elements(h) : m.prior
           \/ b = <<>> /\ \A m \in Elements(a), n \in Elements(h) : m.by = n.by => m.no < n.no
    PROVE  InTurn((a \o h) \o b)
<1> DEFINE whole == (a \o h) \o b
           before(i) == IF i <= Len(a) THEN i ELSE i - Len(h)
           New(i) == Len(a) < i /\ i <= Len(a) + Len(h)
<1>1. /\ DOMAIN (a \o b) = 1..(Len(a) + Len(b))
      /\ DOMAIN whole = 1..(Len(a) + Len(h) + Len(b))
      /\ DOMAIN h = 1..Len(h) /\ DOMAIN a = 1..Len(a)
      /\ Len(a) \in Nat /\ Len(h) \in Nat /\ Len(b) \in Nat
  OBVIOUS
<1>2. \A i \in DOMAIN whole : ~New(i) =>
          before(i) \in DOMAIN (a \o b) /\ whole[i] = (a \o b)[before(i)]
  <2>1. /\ \A i \in 1..Len(a) : whole[i] = a[i] /\ (a \o b)[i] = a[i]
        /\ \A i \in (Len(a) + Len(h) + 1)..(Len(a) + Len(h) + Len(b)) : whole[i] = (a \o b)[i - Len(h)]
        /\ Len(a) \in Nat /\ Len(h) \in Nat /\ Len(b) \in Nat
    BY InsertedAt
  <2> HIDE DEF whole
  <2> SUFFICES ASSUME NEW i \in DOMAIN whole, ~New(i)
               PROVE  before(i) \in DOMAIN (a \o b) /\ whole[i] = (a \o b)[before(i)]
    OBVIOUS
  <2>2. CASE i <= Len(a)
    <3>1. i \in 1..Len(a) /\ before(i) = i
      BY <1>1, <2>1, <2>2
    <3>2. whole[i] = (a \o b)[before(i)]
      BY ONLY <2>1, <3>1
    <3>3. before(i) \in 1..(Len(a) + Len(b))
      BY ONLY <2>1, <3>1
    <3> QED BY ONLY <1>1, <3>2, <3>3
  <2>3. CASE ~(i <= Len(a))
    <3>1. i \in (Len(a) + Len(h) + 1)..(Len(a) + Len(h) + Len(b)) /\ before(i) = i - Len(h)
      BY <1>1, <2>1, <2>3
    <3>2. whole[i] = (a \o b)[before(i)]
      BY ONLY <2>1, <3>1
    <3>3. before(i) \in 1..(Len(a) + Len(b))
      BY ONLY <2>1, <3>1
    <3> QED BY ONLY <1>1, <3>2, <3>3
  <2> QED BY <2>2, <2>3
<1>3. \A i \in DOMAIN whole : New(i) =>
          i - Len(a) \in DOMAIN h /\ whole[i] = h[i - Len(a)]
  <2>1. /\ \A i \in (Len(a) + 1)..(Len(a) + Len(h)) : whole[i] = h[i - Len(a)]
        /\ Len(a) \in Nat /\ Len(h) \in Nat /\ Len(b) \in Nat
    BY InsertedAt
  <2> HIDE DEF whole
  <2> QED BY <1>1, <2>1
<1>4. \A i, j \in DOMAIN whole : ~New(i) /\ ~New(j) => (i < j <=> before(i) < before(j))
  BY <1>1
<1>5. \A i, j \in DOMAIN whole : i < j => i - Len(a) < j - Len(a)
  BY <1>1
<1>6. b = <<>> => \A i, j \in DOMAIN whole :
                    /\ i < j /\ New(i) => New(j)
                    /\ ~New(i) => i \in DOMAIN a /\ whole[i] = a[i]
  OBVIOUS
<1> HIDE DEF whole, before, New
<1>10. \A i \in DOMAIN whole : New(i) => whole[i] \in Elements(h)
  BY <1>3 DEF Elements
<1>11. b = <<>> => \A i \in DOMAIN whole : ~New(i) => whole[i] \in Elements(a)
  BY <1>6 DEF Elements
<1> SUFFICES ASSUME NEW i \in DOMAIN whole, NEW j \in DOMAIN whole, i < j,
                    whole[i].by = whole[j].by, ~whole[i].prior, ~whole[j].prior
             PROVE  whole[i].no < whole[j].no
  BY DEF InTurn, whole
<1>7. CASE ~New(i) /\ ~New(j)
  <2>1. before(i) < before(j)
    BY <1>4, <1>7
  <2> QED BY <1>2, <1>7, <2>1 DEF InTurn
<1>8. CASE New(i) /\ New(j)
  BY <1>3, <1>5, <1>8 DEF InTurn
<1>9. CASE (New(i) /\ ~New(j)) \/ (~New(i) /\ New(j))
  <2>1. ~\A m \in Elements(h) : m.prior
    BY <1>9, <1>10
  <2>2. ~New(i) /\ New(j)
    BY <1>6, <1>9, <2>1
  <2> QED BY <1>10, <1>11, <2>1, <2>2
<1> QED BY <1>7, <1>8, <1>9

(* What one call hands over is new, in turn, and numbered after what its     *)
(* thread sent before.                                                       *)
LEMMA HandedIsNew ==
    ASSUME TypeOK, Conservation, NEW t \in Apps, NEW k \in 1..MaxListLen,
           NEW prior \in BOOLEAN, sent[t] + k <= MaxMsgs
    PROVE  LET list == Handed(t, k, prior) IN
           /\ list \in [1..k -> Msg]
           /\ Distinct(list) /\ InTurn(list)
           /\ Elements(list) \cap (Elements(Journey) \cup lost) = {}
           /\ \A m \in Elements(list) : m.by = t /\ m.prior = prior
           /\ \A m \in Elements(Journey), n \in Elements(list) : m.by = n.by => m.no < n.no
           /\ {<<m.by, m.no>> : m \in Elements(list)} = {t} \X ((sent[t] + 1)..(sent[t] + k))
<1> DEFINE list == Handed(t, k, prior)
<1>1. sent[t] \in Nat /\ k \in Nat /\ k > 0 /\ MaxMsgs \in Nat
  BY SizesAssumption DEF TypeOK
<1>2. /\ DOMAIN list = 1..k
      /\ \A i \in 1..k : list[i] = [by |-> t, no |-> sent[t] + i, prior |-> prior]
  BY DEF Handed
<1>3. list \in [1..k -> Msg]
  <2>1. \A i \in 1..k : [by |-> t, no |-> sent[t] + i, prior |-> prior] \in Msg
    BY <1>1 DEF Msg
  <2> QED BY <2>1 DEF Handed
<1> HIDE DEF list
<1>4. \A m \in Elements(list) : \E i \in 1..k : m = [by |-> t, no |-> sent[t] + i, prior |-> prior]
  BY <1>2 DEF Elements
<1>5. \A i \in 1..k : list[i].by = t /\ list[i].no = sent[t] + i /\ list[i].prior = prior
  BY <1>2
<1>6. Distinct(list) /\ InTurn(list)
  <2>1. \A i, j \in 1..k : sent[t] + i = sent[t] + j => i = j
    BY <1>1
  <2>2. \A i, j \in 1..k : i < j => sent[t] + i < sent[t] + j
    BY <1>1
  <2>3. \A i, j \in 1..k : list[i] = list[j] => i = j
    BY <1>5, <2>1
  <2>4. \A i, j \in 1..k : i < j => list[i].no < list[j].no
    BY <1>5, <2>2
  <2> QED BY <1>2, <2>3, <2>4 DEF Distinct, InTurn
<1>7. \A m \in Elements(Journey) \cup lost : m.no \in Nat /\ m.by \in Apps /\ m.no <= sent[m.by]
  <2> TAKE m \in Elements(Journey) \cup lost
  <2>1. <<m.by, m.no>> \in {<<n.by, n.no>> : n \in Elements(Journey) \cup lost}
    OBVIOUS
  <2>2. <<m.by, m.no>> \in {c \in Apps \X (1..MaxMsgs) : c[2] <= sent[c[1]]}
    BY <2>1 DEF Conservation, OnePlace
  <2> QED BY <2>2, <1>1
<1>8. \A m \in Elements(list) : m.by = t /\ m.prior = prior /\ m.no \in Nat /\ m.no > sent[t]
  BY <1>1, <1>4
<1>9. Elements(list) \cap (Elements(Journey) \cup lost) = {}
  BY <1>1, <1>7, <1>8
<1>10. \A m \in Elements(Journey), n \in Elements(list) : m.by = n.by => m.no < n.no
  BY <1>1, <1>7, <1>8
<1>11. {<<m.by, m.no>> : m \in Elements(list)} = {t} \X ((sent[t] + 1)..(sent[t] + k))
  <2>1. ASSUME NEW m \in Elements(list)
        PROVE  <<m.by, m.no>> \in {t} \X ((sent[t] + 1)..(sent[t] + k))
    BY <1>1, <1>4
  <2>2. ASSUME NEW n \in (sent[t] + 1)..(sent[t] + k)
        PROVE  \E m \in Elements(list) : <<m.by, m.no>> = <<t, n>>
    <3>1. n - sent[t] \in 1..k /\ sent[t] + (n - sent[t]) = n
      BY <1>1
    <3>2. list[n - sent[t]] \in Elements(list)
      BY <1>2, <3>1 DEF Elements
    <3> QED BY <1>5, <3>1, <3>2
  <2> QED BY <2>1, <2>2
<1> QED BY <1>3, <1>6, <1>8, <1>9, <1>10, <1>11 DEF list

(* A step that moves messages along the journey only.                        *)
LEMMA Kept ==
    ASSUME Conservation, Journey' = Journey, lost' = lost, sent' = sent
    PROVE  Conservation'
BY DEF Conservation, OnePlace, Fifo

(* A step in which a stretch of the journey is lost.                         *)
LEMMA Discarded ==
    ASSUME NEW a \in Seq(Msg), NEW f \in Seq(Msg), NEW b \in Seq(Msg), Conservation,
           Journey = (a \o f) \o b, Journey' = a \o b,
           lost' = lost \cup Elements(f), sent' = sent
    PROVE  Conservation'
<1>1. Distinct(Journey) /\ InTurn(Journey)
  BY DEF Conservation, OnePlace, Fifo, Distinct, InTurn
<1>2. /\ Distinct(a \o b) /\ InTurn(a \o b)
      /\ Elements(a \o b) \cap Elements(f) = {}
  BY <1>1, Removed
<1>3. Elements(Journey) = Elements(a \o b) \cup Elements(f)
  <2>1. a \o f \in Seq(Msg)
    OBVIOUS
  <2>2. Elements((a \o f) \o b) = Elements(a \o f) \cup Elements(b)
    BY <2>1, ElementsConcat
  <2>3. Elements(a \o f) = Elements(a) \cup Elements(f) /\ Elements(a \o b) = Elements(a) \cup Elements(b)
    BY ElementsConcat
  <2> QED BY <2>2, <2>3
<1>4. Elements(Journey)' = Elements(a \o b)
  BY DEF Elements
<1>5. Elements(Journey)' \cup lost' = Elements(Journey) \cup lost
  BY <1>3, <1>4
<1>6. Elements(Journey)' \cap lost' = {}
  BY <1>2, <1>3, <1>4 DEF Conservation, OnePlace
<1>7. Fifo'
  BY <1>2 DEF Fifo, InTurn
<1>8. \A i, j \in DOMAIN Journey' : Journey'[i] = Journey'[j] => i = j
  BY <1>2 DEF Distinct
<1> QED BY <1>5, <1>6, <1>7, <1>8 DEF Conservation, OnePlace

(* A step in which a call hands messages over: with priority before the      *)
(* waiting ones, otherwise after everything.                                 *)
LEMMA Accepted ==
    ASSUME TypeOK, Conservation, NEW t \in Apps, NEW k \in 1..MaxListLen,
           NEW prior \in BOOLEAN, sent[t] + k <= MaxMsgs,
           NEW a \in Seq(Msg), NEW b \in Seq(Msg), Journey = a \o b, ~prior => b = <<>>,
           Journey' = (a \o Handed(t, k, prior)) \o b,
           lost' = lost, sent' = [sent EXCEPT ![t] = @ + k]
    PROVE  Conservation'
<1> DEFINE list == Handed(t, k, prior)
<1>1. /\ list \in Seq(Msg)
      /\ Distinct(list) /\ InTurn(list)
      /\ Elements(list) \cap (Elements(Journey) \cup lost) = {}
      /\ \A m \in Elements(list) : m.by = t /\ m.prior = prior
      /\ \A m \in Elements(Journey), n \in Elements(list) : m.by = n.by => m.no < n.no
      /\ {<<m.by, m.no>> : m \in Elements(list)} = {t} \X ((sent[t] + 1)..(sent[t] + k))
  BY HandedIsNew, HandedOver
<1> HIDE DEF list
<1>2. Elements(Journey) = Elements(a) \cup Elements(b)
  BY ElementsConcat
<1>3. Elements(Journey)' = Elements(Journey) \cup Elements(list)
  <2>1. a \o list \in Seq(Msg)
    BY <1>1
  <2>2. Elements((a \o list) \o b) = Elements(a \o list) \cup Elements(b)
    BY <2>1, ElementsConcat
  <2>3. Elements(a \o list) = Elements(a) \cup Elements(list)
    BY <1>1, ElementsConcat
  <2>4. Elements(Journey)' = Elements((a \o list) \o b)
    BY DEF Elements, list
  <2> QED BY <1>2, <2>2, <2>3, <2>4
<1>4. Distinct(Journey) /\ InTurn(Journey)
  BY DEF Conservation, OnePlace, Fifo, Distinct, InTurn
<1>5. Distinct((a \o list) \o b)
  BY <1>1, <1>4, Inserted
<1>6. InTurn((a \o list) \o b)
  <2>1. CASE prior
    BY <1>1, <1>4, <2>1, InsertedInTurn
  <2>2. CASE ~prior
    BY <1>1, <1>2, <1>4, <2>2, InsertedInTurn
  <2> QED BY <2>1, <2>2
<1>7. Elements(Journey)' \cap lost' = {}
  BY <1>1, <1>3 DEF Conservation, OnePlace
<1>8. {<<m.by, m.no>> : m \in Elements(Journey)' \cup lost'}
          = {c \in Apps \X (1..MaxMsgs) : c[2] <= sent'[c[1]]}
  <2>1. {<<m.by, m.no>> : m \in Elements(Journey)' \cup lost'}
            = {<<m.by, m.no>> : m \in Elements(Journey) \cup lost}
                \cup {<<m.by, m.no>> : m \in Elements(list)}
    BY <1>3
  <2>2. sent \in [Apps -> 0..MaxMsgs] /\ MaxMsgs \in Nat /\ k \in Nat
    BY SizesAssumption DEF TypeOK
  <2>3. {c \in Apps \X (1..MaxMsgs) : c[2] <= sent'[c[1]]}
            = {c \in Apps \X (1..MaxMsgs) : c[2] <= sent[c[1]]}
                \cup {t} \X ((sent[t] + 1)..(sent[t] + k))
    <3>1. \A u \in Apps : sent'[u] = IF u = t THEN sent[t] + k ELSE sent[u]
      BY <2>2
    <3> QED BY <2>2, <3>1
  <2>4. {<<m.by, m.no>> : m \in Elements(Journey) \cup lost}
            = {c \in Apps \X (1..MaxMsgs) : c[2] <= sent[c[1]]}
    BY DEF Conservation, OnePlace
  <2> QED BY <1>1, <2>1, <2>3, <2>4
<1>9. Fifo'
  BY <1>6 DEF Fifo, InTurn, list
<1>10. \A i, j \in DOMAIN Journey' : Journey'[i] = Journey'[j] => i = j
  BY <1>5 DEF Distinct, list
<1> QED BY <1>7, <1>8, <1>9, <1>10 DEF Conservation, OnePlace

(* The two parts a buffer is cut into make it up.                            *)
LEMMA Halves ==
    ASSUME send_buffer \in Seq(Msg), NEW k \in 0..Len(send_buffer)
    PROVE  Front(k) \o Rest(k) = send_buffer
<1>1. 1 \in 1..Len(send_buffer) + 1 /\ k \in 1 - 1..Len(send_buffer) /\ Len(send_buffer) \in k..Len(send_buffer)
  OBVIOUS
<1>2. Front(k) \o Rest(k) = SubSeq(send_buffer, 1, Len(send_buffer))
  BY <1>1, ConcatAdjacentSubSeq DEF Front, Rest
<1>3. SubSeq(send_buffer, 1, Len(send_buffer)) = send_buffer
  BY SubSeqFull
<1> QED BY <1>2, <1>3

(* Concatenation of sequences of messages.                                   *)
LEMMA Associative ==
    ASSUME NEW x \in Seq(Msg), NEW y \in Seq(Msg), NEW z \in Seq(Msg)
    PROVE  (x \o y) \o z = x \o (y \o z)
BY ConcatAssociative

LEMMA Concatenated ==
    ASSUME NEW x \in Seq(Msg), NEW y \in Seq(Msg)
    PROVE  /\ x \o <<>> = x /\ <<>> \o x = x
           /\ x \o y \in Seq(Msg)
OBVIOUS

(* k messages leave the front of the buffer and are lost.                    *)
LEMMA FrontLost ==
    ASSUME TypeOK, Conservation, NEW k \in 0..Len(send_buffer),
           send_buffer' = Rest(k), lost' = lost \cup Elements(Front(k)),
           UNCHANGED <<wire, sending_msgs, sent>>
    PROVE  Conservation'
<1> DEFINE a == wire \o sending_msgs
<1>1. a \in Seq(Msg) /\ Front(k) \in Seq(Msg) /\ Rest(k) \in Seq(Msg)
  BY Split DEF TypeOK
<1>2. Journey = (a \o Front(k)) \o Rest(k)
  <2>1. Front(k) \o Rest(k) = send_buffer
    BY Halves DEF TypeOK
  <2>2. (a \o Front(k)) \o Rest(k) = a \o (Front(k) \o Rest(k))
    BY <1>1, Associative
  <2> QED BY <2>1, <2>2 DEF Journey
<1>3. Journey' = a \o Rest(k)
  BY DEF Journey
<1> HIDE DEF a
<1> QED BY <1>1, <1>2, <1>3, Discarded

(* Conservation is inductive, given the types and the single owner of the    *)
(* sending loop.                                                             *)
LEMMA ConservationInit == Init => Conservation
<1> SUFFICES ASSUME Init PROVE Conservation
  OBVIOUS
<1>1. Journey = <<>> /\ lost = {}
  BY DEF Init, Journey
<1>2. Elements(Journey) = {}
  BY <1>1 DEF Elements
<1>3. OnePlace
  BY <1>1, <1>2, SizesAssumption DEF OnePlace, Init
<1>4. Fifo
  BY <1>1 DEF Fifo
<1> QED BY <1>3, <1>4 DEF Conservation

LEMMA ConservationNext ==
    TypeOK /\ LoopInv /\ Conservation /\ [Next]_vars => Conservation'
<1> SUFFICES ASSUME TypeOK, LoopInv, Conservation, [Next]_vars PROVE Conservation'
  OBVIOUS
<1> USE DEF queueVars, flagVars, strandVars, netVars, linkVars
<1>1. /\ wire \in Seq(Msg) /\ sending_msgs \in Seq(Msg) /\ send_buffer \in Seq(Msg)
      /\ wire \o sending_msgs \in Seq(Msg)
  BY DEF TypeOK
<1>2. ASSUME UNCHANGED <<wire, sending_msgs, send_buffer, lost, sent>> PROVE Conservation'
  BY <1>2, Kept DEF Journey
<1>3. ASSUME NEW t \in Apps, Admit(t) PROVE Conservation'
  <2>1. CASE UNCHANGED queueVars
    BY <1>2, <1>3, <2>1 DEF Admit
  <2>2. CASE ~UNCHANGED queueVars
    <3> DEFINE k == MoveOut(Bytes \div 3)
    <3>1. Bytes \div 3 \in Nat
      <4>1. Bytes \in Nat
        BY SizesAssumption DEF Bytes, TypeOK
      <4>2. \A n \in Nat : n \div 3 \in Nat
        OBVIOUS
      <4> QED BY <4>1, <4>2
    <3>2. k \in 0..Len(send_buffer)
      BY <3>1, MoveOutRange DEF TypeOK
    <3>3. /\ send_buffer' = Rest(k) /\ lost' = lost \cup Elements(Front(k))
          /\ UNCHANGED <<wire, sending_msgs, sent>>
      BY <1>3, <2>2 DEF Admit
    <3> HIDE DEF k
    <3> QED BY <3>2, <3>3, FrontLost
  <2> QED BY <2>1, <2>2
<1>4. ASSUME NEW t \in Apps, Enqueue(t) PROVE Conservation'
  <2>1. PICK k \in 1..MaxListLen, prior \in BOOLEAN :
           /\ sent[t] + k <= MaxMsgs
           /\ send_buffer' = IF prior THEN Handed(t, k, prior) \o send_buffer
                                      ELSE send_buffer \o Handed(t, k, prior)
           /\ sent' = [sent EXCEPT ![t] = @ + k]
    BY <1>4 DEF Enqueue
  <2> DEFINE list == Handed(t, k, prior)
             out == wire \o sending_msgs
  <2>2. list \in Seq(Msg) /\ out \in Seq(Msg)
    BY <2>1, <1>1, HandedOver
  <2>3. UNCHANGED <<wire, sending_msgs, lost>>
    BY <1>4 DEF Enqueue
  <2>4. CASE prior
    <3>1. Journey = out \o send_buffer /\ Journey' = (out \o list) \o send_buffer
      <4>1. Journey' = out \o (list \o send_buffer)
        BY <2>1, <2>3, <2>4 DEF Journey
      <4>2. (out \o list) \o send_buffer = out \o (list \o send_buffer)
        BY <1>1, <2>2, Associative
      <4> QED BY <4>1, <4>2 DEF Journey
    <3> HIDE DEF list, out
    <3>2. Journey' = (out \o Handed(t, k, prior)) \o send_buffer
      BY <3>1 DEF list
    <3> QED BY <1>1, <2>1, <2>2, <2>3, <2>4, <3>1, <3>2, Accepted
  <2>5. CASE ~prior
    <3>1. /\ Journey \in Seq(Msg) /\ Journey = Journey \o <<>> /\ <<>> \in Seq(Msg)
          /\ Journey' = (Journey \o list) \o <<>>
      <4>1. Journey \in Seq(Msg) /\ Journey = Journey \o <<>> /\ <<>> \in Seq(Msg)
        BY <1>1, <2>2, Concatenated DEF Journey
      <4>2. Journey' = out \o (send_buffer \o list)
        BY <2>1, <2>3, <2>5 DEF Journey
      <4>3. Journey' = Journey \o list
        <5>1. (out \o send_buffer) \o list = out \o (send_buffer \o list)
          BY <1>1, <2>2, Associative
        <5> QED BY <4>2, <5>1 DEF Journey
      <4>4. Journey \o list \in Seq(Msg)
        BY <2>2, <4>1, Concatenated
      <4>5. (Journey \o list) \o <<>> = Journey \o list
        BY <4>4, Concatenated
      <4> QED BY <4>1, <4>3, <4>5
    <3> HIDE DEF out
    <3>2. Journey' = (Journey \o Handed(t, k, prior)) \o <<>>
      BY <3>1 DEF list
    <3> QED BY <2>1, <2>3, <3>1, <3>2, Accepted
  <2> QED BY <2>4, <2>5
<1>5. ASSUME NEW t \in Apps, PopPending(t) PROVE Conservation'
  <2>1. PICK k \in {1, Len(send_buffer)} :
           /\ k <= Len(send_buffer)
           /\ send_buffer' = Rest(k)
           /\ lost' = lost \cup Elements(Front(k))
    BY <1>5 DEF PopPending
  <2>2. k \in 0..Len(send_buffer) /\ UNCHANGED <<wire, sending_msgs, sent>>
    BY <1>1, <1>5, <2>1 DEF PopPending
  <2> QED BY <2>1, <2>2, FrontLost
<1>6. ASSUME RunSendHandler PROVE Conservation'
  <2>1. CASE write = "ok"
    <3>1. /\ wire' = wire \o sending_msgs /\ sending_msgs' = <<>>
          /\ UNCHANGED <<send_buffer, lost, sent>>
      BY <1>6, <2>1 DEF RunSendHandler
    <3>2. Journey' = Journey
      <4>1. (wire \o sending_msgs) \o <<>> = wire \o sending_msgs
        BY <1>1, Concatenated
      <4> QED BY <3>1, <4>1 DEF Journey
    <3> QED BY <3>1, <3>2, Kept
  <2>2. CASE write = "error"
    <3>1. /\ lost' = lost \cup Elements(sending_msgs) /\ sending_msgs' = <<>>
          /\ UNCHANGED <<wire, send_buffer, sent>>
      BY <1>6, <2>2 DEF RunSendHandler
    <3>2. Journey = (wire \o sending_msgs) \o send_buffer /\ Journey' = wire \o send_buffer
      <4>1. wire \o <<>> = wire
        BY <1>1, Concatenated
      <4> QED BY <3>1, <4>1 DEF Journey
    <3> QED BY <1>1, <3>1, <3>2, Discarded
  <2> QED BY <1>6, <2>1, <2>2 DEF RunSendHandler
<1>7. ASSUME MoveItemsOut PROVE Conservation'
  <2> DEFINE k == MoveOut(BatchSize)
  <2>1. k \in 0..Len(send_buffer)
    BY <1>1, SizesAssumption, MoveOutRange
  <2>2. /\ send_buffer' = Rest(k) /\ sending_msgs' = sending_msgs \o Front(k)
        /\ UNCHANGED <<wire, lost, sent>>
    BY <1>7 DEF MoveItemsOut
  <2> HIDE DEF k
  <2>3. Front(k) \in Seq(Msg) /\ Rest(k) \in Seq(Msg) /\ Front(k) \o Rest(k) = send_buffer
    BY <1>1, <2>1, Split, Halves
  <2>4. Journey' = Journey
    <3>1. Journey' = (wire \o (sending_msgs \o Front(k))) \o Rest(k)
      BY <2>2 DEF Journey
    <3>2. wire \o (sending_msgs \o Front(k)) = (wire \o sending_msgs) \o Front(k)
      <4>1. wire \in Seq(Msg) /\ sending_msgs \in Seq(Msg) /\ Front(k) \in Seq(Msg)
        BY <1>1, <2>3
      <4> QED BY ONLY <4>1, Associative
    <3>3. ((wire \o sending_msgs) \o Front(k)) \o Rest(k) = (wire \o sending_msgs) \o (Front(k) \o Rest(k))
      <4>1. wire \o sending_msgs \in Seq(Msg)
        BY <1>1, Concatenated
      <4>2. Front(k) \in Seq(Msg) /\ Rest(k) \in Seq(Msg)
        BY <2>3
      <4> QED BY ONLY <4>1, <4>2, Associative
    <3> QED BY <2>3, <3>1, <3>2, <3>3 DEF Journey
  <2> QED BY <2>2, <2>4, Kept
<1>8. ASSUME \/ \E t \in Threads : Call(t)
             \/ RunTask \/ CheckEmpty \/ TestAndSet \/ ClearSending \/ Recheck \/ ResendMsg
             \/ Flush \/ WriteDone \/ Fail \/ Close \/ Restart \/ UNCHANGED vars
      PROVE  Conservation'
  <2>1. UNCHANGED <<wire, sending_msgs, send_buffer, lost, sent>>
    BY <1>8 DEF Call, ReadReady, LoadSending, Post, RunTask, CheckEmpty, TestAndSet, ClearSending,
                Recheck, ResendMsg, Flush, WriteDone, Fail, Close, Restart, vars
  <2> QED BY <1>2, <2>1
<1> QED BY <1>3, <1>4, <1>5, <1>6, <1>7, <1>8 DEF Next, Strand

(* Every message handed over to send_msg is in exactly one place (sent,      *)
(* being sent, waiting or lost), and those of one thread that were not sent  *)
(* with priority stay in the order of the calls, across batches.             *)
THEOREM MessagesConserved == Spec => []Conservation
BY TypeCorrect, LoopHolds, ConservationInit, ConservationNext, PTL DEF Spec

-----------------------------------------------------------------------------
(* The socket implements the channel: every step of the threads, of the      *)
(* strand and of the link is one step of SendChannel or leaves the queue,    *)
(* the batch, the delivered and the lost messages alone.  That a batch is    *)
(* only taken when none is out (Take) is LoopInv; that the messages of a     *)
(* call are new (Accept) is Conservation.                                    *)
THEOREM SocketImplementsChannel == Spec => ImplementsChannel
<1>1. Init => Channel!Init
  BY DEF Init, Channel!Init
<1>2. TypeOK /\ LoopInv /\ Conservation /\ [Next]_vars => [Channel!Next]_Channel!chan
  <2> SUFFICES ASSUME TypeOK, LoopInv, Conservation, [Next]_vars
               PROVE  Channel!Next \/ UNCHANGED <<send_buffer, sending_msgs, wire, lost>>
    BY DEF Channel!chan
  <2> USE DEF queueVars, flagVars, strandVars, netVars, linkVars
  <2>1. /\ wire \in Seq(Msg) /\ sending_msgs \in Seq(Msg) /\ send_buffer \in Seq(Msg)
        /\ Len(send_buffer) \in Nat
    BY DEF TypeOK
  <2>2. ASSUME NEW k \in 0..Len(send_buffer),
               send_buffer' = Rest(k), lost' = lost \cup Elements(Front(k)),
               UNCHANGED <<wire, sending_msgs>>
        PROVE  Channel!Next \/ UNCHANGED <<send_buffer, sending_msgs, wire, lost>>
    <3>1. CASE k = 0
      <4>1. Front(k) = <<>> /\ Rest(k) = send_buffer
        BY <2>1, <3>1 DEF Front, Rest
      <4>2. Elements(Front(k)) = {}
        BY <4>1 DEF Elements
      <4> QED BY <2>2, <4>1, <4>2
    <3>2. CASE k # 0
      <4>1. k \in 1..Len(send_buffer)
        BY <2>1, <3>2
      <4>2. Channel!Discard
        BY <2>2, <4>1 DEF Channel!Discard, Channel!Elements, Channel!Cut, Elements, Front, Rest
      <4> QED BY <4>2 DEF Channel!Next
    <3> QED BY <3>1, <3>2
  <2>3. CASE \E t \in Apps : Admit(t)
    <3>1. PICK t \in Apps : Admit(t)
      BY <2>3
    <3>2. CASE UNCHANGED queueVars
      BY <3>1, <3>2 DEF Admit
    <3>3. CASE ~UNCHANGED queueVars
      <4> DEFINE k == MoveOut(Bytes \div 3)
      <4>1. Bytes \div 3 \in Nat
        <5>1. Bytes \in Nat
          BY <2>1, SizesAssumption DEF Bytes
        <5>2. \A n \in Nat : n \div 3 \in Nat
          OBVIOUS
        <5> QED BY <5>1, <5>2
      <4>2. k \in 0..Len(send_buffer)
        BY <2>1, <4>1, MoveOutRange
      <4>3. /\ send_buffer' = Rest(k) /\ lost' = lost \cup Elements(Front(k))
            /\ UNCHANGED <<wire, sending_msgs>>
        BY <3>1, <3>3 DEF Admit
      <4> HIDE DEF k
      <4> QED BY <2>2, <4>2, <4>3
    <3> QED BY <3>2, <3>3
  <2>4. CASE \E t \in Apps : Enqueue(t)
    <3>1. PICK t \in Apps : Enqueue(t)
      BY <2>4
    <3>2. PICK k \in 1..MaxListLen, prior \in BOOLEAN :
             /\ sent[t] + k <= MaxMsgs
             /\ send_buffer' = IF prior THEN Handed(t, k, prior) \o send_buffer
                                        ELSE send_buffer \o Handed(t, k, prior)
             /\ sent' = [sent EXCEPT ![t] = @ + k]
      BY <3>1 DEF Enqueue
    <3> DEFINE list == Handed(t, k, prior)
    <3>3. /\ list \in [1..k -> Msg]
          /\ Distinct(list)
          /\ Elements(list) \cap (Elements(Journey) \cup lost) = {}
      BY <3>2, HandedIsNew
    <3>4. Elements(Journey) = Elements(wire) \cup Elements(sending_msgs) \cup Elements(send_buffer)
      <4>1. wire \o sending_msgs \in Seq(Msg)
        BY <2>1
      <4>2. Elements(Journey) = Elements(wire \o sending_msgs) \cup Elements(send_buffer)
        BY <2>1, <4>1, ElementsConcat DEF Journey
      <4>3. Elements(wire \o sending_msgs) = Elements(wire) \cup Elements(sending_msgs)
        BY <2>1, ElementsConcat
      <4> QED BY <4>2, <4>3
    <3>5. \A s : Channel!Elements(s) = Elements(s)
      BY DEF Channel!Elements, Elements
    <3>6. Elements(list) \cap Channel!Known = {}
      BY <3>3, <3>4, <3>5 DEF Channel!Known
    <3>7. DOMAIN list = 1..k
      BY <3>3
    <3>8. \A i, j \in 1..k : list[i] = list[j] => i = j
      BY <3>3, <3>7 DEF Distinct
    <3>9. send_buffer' \in {send_buffer \o list, list \o send_buffer}
      BY <3>2
    <3>10. UNCHANGED <<sending_msgs, wire, lost>>
      BY <3>1 DEF Enqueue
    <3> HIDE DEF list
    <3>11. Channel!Accept
      BY <3>2, <3>3, <3>5, <3>6, <3>8, <3>9, <3>10 DEF Channel!Accept
    <3> QED BY <3>11 DEF Channel!Next
  <2>5. CASE \E t \in Apps : PopPending(t)
    <3>1. PICK t \in Apps : PopPending(t)
      BY <2>5
    <3>2. PICK k \in {1, Len(send_buffer)} :
             /\ k <= Len(send_buffer)
             /\ send_buffer' = Rest(k)
             /\ lost' = lost \cup Elements(Front(k))
      BY <3>1 DEF PopPending
    <3>3. k \in 0..Len(send_buffer) /\ UNCHANGED <<wire, sending_msgs>>
      BY <2>1, <3>1, <3>2 DEF PopPending
    <3> QED BY <2>2, <3>2, <3>3
  <2>6. CASE RunSendHandler
    <3>1. CASE sending_msgs = <<>>
      <4>1. wire \o <<>> = wire /\ Elements(<<>>) = {}
        BY <2>1 DEF Elements
      <4> QED BY <2>6, <3>1, <4>1 DEF RunSendHandler
    <3>2. CASE sending_msgs # <<>> /\ write = "ok"
      BY <2>6, <3>2 DEF RunSendHandler, Channel!Next, Channel!Deliver
    <3>3. CASE sending_msgs # <<>> /\ write = "error"
      BY <2>6, <3>3 DEF RunSendHandler, Channel!Next, Channel!Lose, Channel!Elements, Elements
    <3> QED BY <2>6, <3>1, <3>2, <3>3 DEF RunSendHandler
  <2>7. CASE MoveItemsOut
    <3> DEFINE k == MoveOut(BatchSize)
    <3>1. k \in 0..Len(send_buffer)
      BY <2>1, SizesAssumption, MoveOutRange
    <3>2. /\ send_buffer' = Rest(k) /\ sending_msgs' = sending_msgs \o Front(k)
          /\ UNCHANGED <<wire, lost>>
      BY <2>7 DEF MoveItemsOut
    <3>3. sending_msgs = <<>>
      BY <2>7 DEF MoveItemsOut, LoopInv, Alone
    <3> HIDE DEF k
    <3>4. Front(k) \in Seq(Msg) /\ <<>> \o Front(k) = Front(k)
      BY <2>1, <3>1, Split
    <3>5. CASE k = 0
      <4>1. Front(k) = <<>> /\ Rest(k) = send_buffer
        BY <2>1, <3>5 DEF Front, Rest
      <4> QED BY <3>2, <3>3, <3>4, <4>1
    <3>6. CASE k # 0
      <4>1. k \in 1..Len(send_buffer)
        BY <2>1, <3>1, <3>6
      <4>2. Channel!Take
        BY <3>2, <3>3, <3>4, <4>1 DEF Channel!Take, Channel!Cut, Front, Rest
      <4> QED BY <4>2 DEF Channel!Next
    <3> QED BY <3>5, <3>6
  <2>8. CASE \/ \E t \in Threads : Call(t)
             \/ RunTask \/ CheckEmpty \/ TestAndSet \/ ClearSending \/ Recheck \/ ResendMsg
             \/ Flush \/ WriteDone \/ Fail \/ Close \/ Restart \/ UNCHANGED vars
    BY <2>8 DEF Call, ReadReady, LoadSending, Post, RunTask, CheckEmpty, TestAndSet, ClearSending,
                Recheck, ResendMsg, Flush, WriteDone, Fail, Close, Restart, vars
  <2> QED BY <2>3, <2>4, <2>5, <2>6, <2>7, <2>8 DEF Next, Strand
<1> QED BY <1>1, <1>2, TypeCorrect, LoopHolds, MessagesConserved, PTL
        DEF Spec, ImplementsChannel, Channel!Spec

-----------------------------------------------------------------------------
(* Links: a link is told to be connected after all its handshakes and no     *)
(* other time, and its stream does one thing at a time.                      *)

(* One of these at most goes on at a time: a handshake or an attempt, the    *)
(* reading of messages, a connected link, the way to the next attempt.       *)
Reconnecting == "CONNECT" \in timers \/ "CONNECT_DELAY" \in timers
Ready(s) == s \in {"CONNECTED", "GRACEFUL"}
Exclusive ==
    /\ op # "none" => recv = "none" /\ ~Ready(status)
    /\ Reconnecting => op = "none" /\ recv = "none" /\ ~Ready(status)
    /\ ~("CONNECT" \in timers /\ "CONNECT_DELAY" \in timers)
(* A socket that may be started again has nothing under way.                 *)
Closed == ~started /\ "DELAY_CLOSE" \notin timers => op = "none" /\ recv = "none" /\ ~Reconnecting

(* The handshakes made so far are those before the one being made.           *)
InOrder ==
    /\ op = "connect" => done = {}
    /\ op = "ssl" => "ssl" \in Needs /\ done = {}
    /\ op = "ws" => "ws" \in Needs /\ done = Needs \ {"ws"}
    /\ op \in {"write", "read"} => Needs = {"proxy"} /\ done = {}
    /\ status = "CONNECTED" => done = Needs

(* What was read of a socks5 answer is in the buffer; a link that is         *)
(* connected has read all of it, and the proxy agreed.                       *)
Buffered == op = "read" /\ Layer = "socks5" => reply.len - reply.left = res_len
Agreed ==
    status = "CONNECTED" /\ ~direct =>
        /\ Layer = "socks4" => reply.yes /\ reply.left = 0
        /\ Layer = "socks5" => reply.yes /\ reply.len - reply.left = Expected

Sound == Exclusive /\ Closed /\ InOrder /\ Buffered /\ Agreed /\ ~reset_busy

-----------------------------------------------------------------------------
(* Types.                                                                    *)

LEMMA LinkTyped ==
    ASSUME LinkTypeOK
    PROVE  /\ Layer \in {"socks4", "socks5", "ssl", "ws", "wss"}
           /\ ~IsClient => Layer \in {"ssl", "ws", "wss"}
<1>1. kind \in ({"socks4", "socks5"} \X {"client"}) \cup ({"ssl", "ws", "wss"} \X {"client", "server"})
  BY LinksAssumption DEF LinkTypeOK
<1>2. QED
  BY <1>1 DEF Layer, IsClient

LEMMA LinkTypeInit == LinkInit => LinkTypeOK
<1> SUFFICES ASSUME LinkInit PROVE LinkTypeOK
  OBVIOUS
<1>1. NoReply \in [len : Nat, left : Nat, yes : BOOLEAN, method : {0, 2, 255}]
  BY DEF NoReply
<1>2. need_reconnect \in BOOLEAN /\ alive \in BOOLEAN /\ direct \in BOOLEAN
  BY DEF LinkInit, IsClient
<1>3. kind \in Kinds /\ started \in BOOLEAN
      /\ status \in {"BROKEN", "HANDSHAKING"} /\ timers \subseteq TimerIds /\ op \in {"none", "ssl", "ws"}
  BY DEF LinkInit, TimerIds
<1>4. at = "pending" /\ step = 0 /\ res_len = 0 /\ reply = NoReply /\ done = {}
      /\ recv = "none" /\ bye = "none" /\ tasks = <<>> /\ asked = FALSE /\ reset_busy = FALSE
      /\ calls = 0 /\ faults = 0
  BY DEF LinkInit
<1>5. <<>> \in Seq({"force", "shutdown"})
  OBVIOUS
<1>6. /\ at \in {"pending", "ok", "failed"} /\ step \in Nat /\ res_len \in Nat
      /\ reply \in [len : Nat, left : Nat, yes : BOOLEAN, method : {0, 2, 255}]
      /\ done \subseteq {"proxy", "ssl", "ws"}
      /\ recv \in {"none", "pending", "failed"} /\ bye \in {"none", "pending", "over"}
  BY ONLY <1>1, <1>4
<1>7. /\ tasks \in Seq({"force", "shutdown"}) /\ asked \in BOOLEAN /\ reset_busy \in BOOLEAN
      /\ calls \in Nat /\ faults \in Nat
  BY ONLY <1>4, <1>5
<1>8. QED
  BY <1>2, <1>3, <1>6, <1>7 DEF LinkTypeOK

(* What close() and _force_shutdown leave.                                   *)
LEMMA ForceShutdown ==
    ASSUME LinkTypeOK, NEW operation \in {"none", "connect", "ssl", "ws", "write", "read"},
           NEW state \in {"pending", "ok", "failed"}, _force_shutdown(operation, state)
    PROVE  /\ status' \in {status, "FORCE"} /\ started' \in BOOLEAN /\ timers' \subseteq TimerIds
           /\ op' = operation /\ at' \in {"pending", "ok", "failed"}
           /\ recv' \in {"none", "pending", "failed"} /\ bye' \in {"none", "pending", "over"} /\ alive' \in BOOLEAN
           /\ recv = "none" => recv' = "none"
           /\ UNCHANGED <<started, timers>> \/ (~started' /\ timers' = {"DELAY_CLOSE"})
<1>1. CASE status = "FORCE"
  BY <1>1 DEF _force_shutdown, LinkTypeOK
<1>2. CASE status # "FORCE"
  <2>1. status' \in {status, "FORCE"} /\ close(operation, state)
    BY <1>2 DEF _force_shutdown
  <2>2. CASE started
    <3>1. /\ op' = operation /\ started' = FALSE /\ timers' = {"DELAY_CLOSE"} /\ alive' = FALSE
          /\ at' \in {"failed", state} /\ recv' \in {"failed", recv} /\ (recv = "none" => recv' = "none")
          /\ bye' \in {"over", bye}
      BY <2>1, <2>2 DEF close
    <3>2. recv \in {"none", "pending", "failed"} /\ bye \in {"none", "pending", "over"}
      BY DEF LinkTypeOK
    <3>3. started' \in BOOLEAN /\ timers' \subseteq TimerIds /\ alive' \in BOOLEAN
      BY <3>1 DEF TimerIds
    <3> QED BY <2>1, <3>1, <3>2, <3>3
  <2>3. CASE ~started
    <3>1. op' = operation /\ at' = state /\ UNCHANGED <<started, timers, alive, recv, bye>>
      BY <2>1, <2>3 DEF close
    <3> QED BY <2>1, <3>1 DEF LinkTypeOK
  <2> QED BY <2>2, <2>3
<1> QED BY <1>1, <1>2

LEMMA Doing ==
    ASSUME LinkTypeOK, NEW what \in {"connect", "ssl", "ws", "write", "read"}, Begin(what)
    PROVE  op' = what /\ at' \in {"pending", "ok", "failed"}
BY DEF Begin

LEMMA LinkTypeStep == LinkTypeOK /\ [LinkNext]_allVars => LinkTypeOK'
<1> SUFFICES ASSUME LinkTypeOK, [LinkNext]_allVars PROVE LinkTypeOK'
  OBVIOUS
<1> USE DEF LinkTypeOK
<1>1. ASSUME NEW task \in {"force", "shutdown"}, Queue(task) PROVE tasks' \in Seq({"force", "shutdown"})
  BY <1>1 DEF Queue
<1>2. tasks # <<>> => Tail(tasks) \in Seq({"force", "shutdown"})
  OBVIOUS
<1>3. ASSUME NoOp PROVE op' = "none" /\ at' = "pending"
  BY <1>3 DEF NoOp
<1>4. ASSUME DoStart PROVE status' = "CONNECTED" /\ recv' \in {"pending", "failed"} /\ op' = "none" /\ at' = "pending"
  BY <1>4 DEF DoStart, NoOp
<1>5. ASSUME Fault PROVE faults' \in Nat
  BY <1>5 DEF Fault
<1>6. ASSUME NEW made, Proceed(made)
      PROVE  /\ status' \in {"HANDSHAKING", "CONNECTED"} /\ recv' \in {"none", "pending", "failed"}
             /\ op' \in {"none", "ssl", "ws", "write"} /\ at' \in {"pending", "ok", "failed"}
  BY <1>4, <1>6, Doing DEF Proceed
<1>7. ASSUME GiveUp PROVE /\ need_reconnect' \in BOOLEAN /\ tasks' \in Seq({"force", "shutdown"}) /\ op' = "none"
                          /\ at' = "pending" /\ asked' \in BOOLEAN
  BY <1>1, <1>3, <1>7 DEF GiveUp
<1>8. ASSUME force_shutdown PROVE LinkTypeOK'
  <2>1. need_reconnect' \in BOOLEAN
    BY <1>8 DEF force_shutdown
  <2>2. PICK reconnect \in BOOLEAN :
           IF Layer \in {"ssl", "ws", "wss"} /\ status = "CONNECTED"
             THEN status' = "GRACEFUL" /\ Queue("shutdown") /\ UNCHANGED <<started, timers>>
             ELSE /\ IF reconnect /\ status = "BROKEN" /\ ~started
                     THEN /\ IF "DELAY_CLOSE" \in timers THEN UNCHANGED <<started, timers>> ELSE StartClient
                          /\ UNCHANGED tasks
                     ELSE Queue("force") /\ UNCHANGED <<started, timers>>
                  /\ UNCHANGED status
    BY <1>8 DEF force_shutdown
  <2>3. started' \in BOOLEAN /\ timers' \subseteq TimerIds
    BY <2>2 DEF StartClient, TimerIds
  <2>4. tasks' \in Seq({"force", "shutdown"}) /\ status' \in {status, "GRACEFUL"}
    BY <2>2, <1>1
  <2>5. asked' \in BOOLEAN /\ calls' = calls + 1
        /\ UNCHANGED <<kind, direct, op, at, proxyVars, done, recv, bye, alive, reset_busy, faults>>
    BY <1>8 DEF force_shutdown
  <2>6. QED
    BY <2>1, <2>3, <2>4, <2>5 DEF proxyVars
<1>9. CASE RunForce
  BY <1>2, <1>9, ForceShutdown DEF RunForce, proxyVars, bounds
<1>10. CASE RunShutdown
  BY <1>2, <1>10 DEF RunShutdown, start_graceful_shutdown_monitoring, TimerIds, lifeVars, proxyVars, bounds
<1>11. CASE PeerSaysBye
  BY <1>11 DEF PeerSaysBye, lifeVars, proxyVars, bounds
<1>12. CASE ByeHandler
  BY <1>12 DEF ByeHandler, lifeVars, proxyVars, bounds
<1>13. CASE AsyncShutdownTimer
  BY <1>1, <1>13 DEF AsyncShutdownTimer, lifeVars, proxyVars, bounds
<1>14. CASE RecvError
  <2>1. status' \in {status, "FORCE"} /\ started' \in BOOLEAN /\ timers' \subseteq TimerIds /\ recv' = "none"
        /\ bye' \in {"none", "pending", "over"} /\ alive' \in BOOLEAN
    <3>1. timers' \in {timers, timers \ {"ASYNC_SHUTDOWN"}, {"DELAY_CLOSE"}}
      BY <1>14 DEF RecvError
    <3>2. timers' \subseteq TimerIds
      BY <3>1 DEF TimerIds
    <3>3. status' \in {status, "FORCE"} /\ started' \in {started, FALSE} /\ recv' = "none"
      BY <1>14 DEF RecvError
    <3>4. bye' \in {bye, "over"} /\ alive' \in {alive, FALSE}
      BY <1>14 DEF RecvError
    <3> QED BY <3>2, <3>3, <3>4
  <2>2. UNCHANGED <<kind, direct, op, at, need_reconnect, proxyVars, done, tasks, asked, reset_busy, bounds>>
    BY <1>14 DEF RecvError
  <2>3. QED
    BY <2>1, <2>2 DEF proxyVars, bounds
<1>15. CASE DelayClose
  <2>1. reset_busy' \in BOOLEAN
    BY <1>15 DEF DelayClose
  <2>2. status' = "BROKEN" /\ asked' \in BOOLEAN /\ started' \in BOOLEAN /\ timers' \subseteq TimerIds
    BY <1>15 DEF DelayClose, TimerIds
  <2>3. UNCHANGED <<kind, direct, need_reconnect, op, at, proxyVars, done, recv, bye, tasks, alive, bounds>>
    BY <1>15 DEF DelayClose
  <2>4. QED
    BY <2>1, <2>2, <2>3 DEF proxyVars, bounds
<1>16. CASE ConnectTimer
  <2>1. NoReply \in [len : Nat, left : Nat, yes : BOOLEAN, method : {0, 2, 255}]
    BY DEF NoReply
  <2>2. QED
    BY <1>16, <2>1, Doing DEF ConnectTimer, lifeVars, bounds
<1>17. CASE ConnectDelay
  <2>1. alive' \in BOOLEAN /\ timers' \subseteq TimerIds /\ tasks' \in Seq({"force", "shutdown"})
    <3>1. alive' \in {alive, FALSE} /\ (UNCHANGED tasks \/ Queue("force"))
      BY <1>17 DEF ConnectDelay
    <3>2. timers' \subseteq timers \cup {"CONNECT"}
      BY <1>17 DEF ConnectDelay
    <3>3. timers' \subseteq TimerIds
      BY <3>2 DEF TimerIds
    <3> QED BY <1>1, <3>1, <3>3
  <2>2. UNCHANGED <<kind, direct, lifeVars, op, at, proxyVars, done, recv, bye, asked, reset_busy, bounds>>
    BY <1>17 DEF ConnectDelay
  <2>3. QED
    BY <2>1, <2>2 DEF lifeVars, proxyVars, bounds
<1>18. ASSUME NEW what, NEW outcome \in {"ok", "failed"}, Happens(what, outcome), alive' \in BOOLEAN PROVE LinkTypeOK'
  BY <1>5, <1>18 DEF Happens, lifeVars, proxyVars
<1>19. CASE Connects
  BY <1>18, <1>19 DEF Connects
<1>20. ASSUME NEW what, Completes(what) \/ Breaks(what) PROVE LinkTypeOK'
  BY <1>18, <1>20 DEF Completes, Breaks
<1>21. CASE PeerLeaves
  BY <1>5, <1>21 DEF PeerLeaves, lifeVars, proxyVars
<1>22. CASE connect_handler
  <2>1. status' \in {status, "HANDSHAKING", "CONNECTED"} /\ recv' \in {"none", "pending", "failed"}
        /\ op' \in {"none", "ssl", "ws", "write"} /\ at' \in {"pending", "ok", "failed"}
        /\ timers' \subseteq TimerIds /\ step' \in Nat /\ faults' \in Nat
    <3>1. CASE Proceed({}) /\ step' = 0 /\ UNCHANGED <<timers, faults>>
      BY <1>6, <3>1
    <3>2. CASE Fault /\ status' = "HANDSHAKING" /\ ConnectFailed /\ UNCHANGED <<recv, step>>
      BY <1>3, <1>5, <3>2 DEF ConnectFailed, TimerIds
    <3>3. CASE ConnectFailed /\ UNCHANGED <<status, recv, step, faults>>
      BY <1>3, <3>3 DEF ConnectFailed, TimerIds
    <3>4. QED
      BY <1>22, <3>1, <3>2, <3>3 DEF connect_handler
  <2>2. res_len' = 0 /\ UNCHANGED <<kind, direct, started, need_reconnect, reply, done, bye, tasks, alive, asked, reset_busy, calls>>
    BY <1>22 DEF connect_handler
  <2>3. QED
    BY <2>1, <2>2
<1>23. CASE handle_handshake
  <2>1. UNCHANGED <<kind, direct, started, timers, proxyVars, bye, alive, reset_busy, bounds>>
    BY <1>23 DEF handle_handshake
  <2>2. CASE at = "ok"
    <3>1. done' = done \cup {op} /\ op \in {"ssl", "ws"} /\ Proceed(done \cup {op})
          /\ UNCHANGED <<need_reconnect, tasks, asked>>
      BY <1>23, <2>2 DEF handle_handshake, Handshaken
    <3>2. QED
      BY <1>6, <2>1, <3>1 DEF proxyVars, bounds
  <2>3. CASE at # "ok"
    <3>1. GiveUp /\ UNCHANGED <<status, recv, done>>
      BY <1>23, <2>3 DEF handle_handshake
    <3>2. QED
      BY <1>7, <2>1, <3>1 DEF proxyVars, bounds
  <2>4. QED
    BY <2>2, <2>3
<1>24. CASE send_handler
  <2>1. CASE at = "ok"
    <3>1. PICK answer \in Answers : reply' = After(reply.left, answer)
      BY <1>24, <2>1 DEF send_handler
    <3>2. answer \in [len : Nat, left : Nat, yes : BOOLEAN, method : {0, 2, 255}]
      BY LinksAssumption DEF Answers
    <3>3. reply' \in [len : Nat, left : Nat, yes : BOOLEAN, method : {0, 2, 255}]
      BY <3>1, <3>2 DEF After
    <3>4. QED
      BY <1>24, <2>1, <3>3, Doing DEF send_handler, bounds
  <2>2. CASE at # "ok"
    BY <1>7, <1>24, <2>2 DEF send_handler, proxyVars, bounds
  <2>3. QED
    BY <2>1, <2>2
<1>25. CASE recv_handler
  <2>1. ASSUME at = "failed", GiveUp, UNCHANGED <<status, recv, proxyVars, done>> PROVE LinkTypeOK'
    BY <1>7, <1>25, <2>1 DEF recv_handler, proxyVars, bounds
  <2>2. ASSUME NEW n \in Arriving,
               reply' = [reply EXCEPT !.left = @ - n],
               \/ /\ Verdict(res_len + n) = Success
                  /\ done' = done \cup {"proxy"} /\ DoStart
                  /\ UNCHANGED <<step, res_len, need_reconnect, tasks, asked>>
               \/ /\ Verdict(res_len + n) \in {"request", "auth"}
                  /\ step' = IF Verdict(res_len + n) = "request" /\ step = 1 THEN 2 ELSE step
                  /\ res_len' = 0 /\ Begin("write")
                  /\ UNCHANGED <<status, recv, done, need_reconnect, tasks, asked>>
               \/ /\ Verdict(res_len + n) = More /\ res_len + n < SocksBuf
                  /\ res_len' = res_len + n /\ Begin("read")
                  /\ UNCHANGED <<status, recv, step, done, need_reconnect, tasks, asked>>
               \/ /\ Verdict(res_len + n) = Failure \/ (Verdict(res_len + n) = More /\ res_len + n >= SocksBuf)
                  /\ GiveUp
                  /\ UNCHANGED <<status, recv, step, res_len, done>>
        PROVE LinkTypeOK'
    <3>1. n \in Nat /\ reply.left - n \in Nat
      BY LinksAssumption DEF Arriving
    <3>2. reply' \in [len : Nat, left : Nat, yes : BOOLEAN, method : {0, 2, 255}]
      BY <2>2, <3>1
    <3>3. UNCHANGED <<kind, direct, started, timers, bye, alive, reset_busy, bounds>>
      BY <1>25 DEF recv_handler
    <3>4. step' \in Nat /\ res_len' \in Nat /\ done' \subseteq {"proxy", "ssl", "ws"}
      <4>1. /\ step' \in {step, 2} /\ res_len' \in {res_len, 0, res_len + n}
            /\ done' \in {done, done \cup {"proxy"}}
        BY <2>2
      <4>2. QED
        BY <3>1, <4>1
    <3>5. /\ status' \in {status, "CONNECTED"} /\ recv' \in {"none", "pending", "failed"}
          /\ op' \in {"none", "write", "read"} /\ at' \in {"pending", "ok", "failed"}
      BY <2>2, <1>4, <1>7, Doing
    <3>6. need_reconnect' \in BOOLEAN /\ tasks' \in Seq({"force", "shutdown"}) /\ asked' \in BOOLEAN
      BY <2>2, <1>7
    <3>7. QED
      BY <3>2, <3>3, <3>4, <3>5, <3>6 DEF bounds
  <2>3. QED
    BY <1>25, <2>1, <2>2 DEF recv_handler
<1>26. CASE UNCHANGED allVars
  BY <1>26 DEF allVars, lifeVars, proxyVars, bounds
<1>27. QED
  BY <1>8, <1>9, <1>10, <1>11, <1>12, <1>13, <1>14, <1>15, <1>16, <1>17, <1>19, <1>20, <1>21, <1>22, <1>23,
     <1>24, <1>25, <1>26 DEF LinkNext, Handlers

(* Every variable keeps its type.                                            *)
THEOREM LinksTyped == LinkSpec => []LinkTypeOK
BY LinkTypeInit, LinkTypeStep, PTL DEF LinkSpec

-----------------------------------------------------------------------------
(* A step that begins nothing new leaves the socket sound.                   *)

LEMMA Needed ==
    ASSUME LinkTypeOK
    PROVE  /\ Needs = {} \/ Needs = {"proxy"} \/ Needs = {"ssl"} \/ Needs = {"ws"} \/ Needs = {"ssl", "ws"}
           /\ Layer \in {"socks4", "socks5"} /\ ~direct <=> Needs = {"proxy"}
           /\ UNCHANGED <<kind, direct>> => Needs' = Needs /\ Layer' = Layer /\ IsClient' = IsClient
<1>1. Needs' = IF Layer' \in {"socks4", "socks5"} THEN IF direct' THEN {} ELSE {"proxy"}
               ELSE IF Layer' = "wss" THEN {"ssl", "ws"} ELSE {Layer'}
  BY DEF Needs
<1>2. Needs = IF Layer \in {"socks4", "socks5"} THEN IF direct THEN {} ELSE {"proxy"}
              ELSE IF Layer = "wss" THEN {"ssl", "ws"} ELSE {Layer}
  BY DEF Needs
<1>3. UNCHANGED kind => Layer' = Layer /\ IsClient' = IsClient
  BY DEF Layer, IsClient
<1>4. Layer \in {"socks4", "socks5", "ssl", "ws", "wss"}
  BY LinkTyped
<1>5. QED
  BY <1>1, <1>2, <1>3, <1>4

LEMMA QuietStays ==
    ASSUME Exclusive, Closed, op = "none" => op' = "none", recv = "none" => recv' = "none",
           Ready(status') => Ready(status),
           "CONNECT" \in timers' => "CONNECT" \in timers,
           "CONNECT_DELAY" \in timers' => "CONNECT_DELAY" \in timers,
           ~started' /\ "DELAY_CLOSE" \notin timers' => ~started /\ "DELAY_CLOSE" \notin timers
    PROVE  Exclusive' /\ Closed'
BY DEF Exclusive, Closed, Reconnecting, Ready

LEMMA OrderStays ==
    ASSUME LinkTypeOK, InOrder, Buffered, Agreed, UNCHANGED <<kind, direct, done, reply, res_len>>,
           op' \in {op, "none"}, status' = "CONNECTED" => status = "CONNECTED"
    PROVE  InOrder' /\ Buffered' /\ Agreed'
<1>1. Needs' = Needs /\ Layer' = Layer
  BY Needed
<1>2. Expected' = Expected
  BY DEF Expected
<1>3. InOrder'
  BY <1>1 DEF InOrder
<1>4. Buffered'
  BY <1>1 DEF Buffered
<1>5. Agreed'
  BY <1>1, <1>2 DEF Agreed
<1>6. QED
  BY <1>3, <1>4, <1>5

LEMMA SoundStays ==
    ASSUME LinkTypeOK, Sound, UNCHANGED <<kind, direct, done, reply, res_len, reset_busy>>,
           op' \in {op, "none"}, recv = "none" => recv' = "none",
           status' \in {status, "FORCE", "BROKEN", "HANDSHAKING"} \/ (status' = "GRACEFUL" /\ status = "CONNECTED"),
           "CONNECT" \in timers' => "CONNECT" \in timers,
           "CONNECT_DELAY" \in timers' => "CONNECT_DELAY" \in timers,
           ~started' /\ "DELAY_CLOSE" \notin timers' => ~started /\ "DELAY_CLOSE" \notin timers
    PROVE  Sound'
<1>1. op = "none" => op' = "none"
  OBVIOUS
<1>2. Ready(status') => Ready(status)
  BY DEF Ready
<1>3. Exclusive' /\ Closed'
  BY <1>1, <1>2, QuietStays DEF Sound
<1>4. InOrder' /\ Buffered' /\ Agreed'
  BY OrderStays DEF Sound
<1>5. QED
  BY <1>3, <1>4 DEF Sound

(* A handshake that ended leaves no attempt waiting to be made.              *)
LEMMA LinkAlone == ASSUME Exclusive, op # "none" PROVE recv = "none" /\ ~Reconnecting /\ ~Ready(status)
BY DEF Exclusive

LEMMA ProceedExclusive ==
    ASSUME LinkTypeOK, Exclusive, Closed, op # "none", NEW made, Proceed(made), UNCHANGED <<started, timers>>
    PROVE  Exclusive' /\ Closed'
<1>1. recv = "none" /\ ~Reconnecting /\ (~started => "DELAY_CLOSE" \in timers)
  BY LinkAlone DEF Closed
<1>2. ~Reconnecting'
  BY <1>1 DEF Reconnecting
<1>3. CASE Needs \ made = {}
  BY <1>1, <1>2, <1>3 DEF Proceed, DoStart, NoOp, Exclusive, Closed
<1>4. CASE Needs \ made # {}
  <2>1. status' = "HANDSHAKING" /\ UNCHANGED recv
    BY <1>4 DEF Proceed
  <2>2. QED
    BY <1>1, <1>2, <2>1 DEF Exclusive, Closed, Ready
<1>5. QED
  BY <1>3, <1>4

-----------------------------------------------------------------------------
LEMMA SoundInit == LinkInit => Sound
<1> SUFFICES ASSUME LinkInit PROVE Sound
  OBVIOUS
<1>1. LinkTypeOK
  BY LinkTypeInit
<1>2. recv = "none" /\ ~Ready(status) /\ started /\ ~reset_busy /\ done = {}
      /\ "CONNECT_DELAY" \notin timers /\ (Reconnecting => op = "none")
  BY DEF LinkInit, Ready, Reconnecting
<1>3. Exclusive /\ Closed /\ Agreed
  BY <1>2 DEF Exclusive, Closed, Agreed, Ready
<1>4. op = IF IsClient THEN "none" ELSE IF Layer = "ws" THEN "ws" ELSE "ssl"
  BY DEF LinkInit
<1>5. ~IsClient => Layer \in {"ssl", "ws", "wss"}
  BY <1>1, LinkTyped
<1>6. Layer = "ws" => Needs = {"ws"}
  BY DEF Needs
<1>7. Layer \in {"ssl", "wss"} => "ssl" \in Needs
  BY DEF Needs
<1>8. InOrder /\ Buffered
  BY <1>2, <1>4, <1>5, <1>6, <1>7 DEF InOrder, Buffered, Ready
<1>9. QED
  BY <1>2, <1>3, <1>8 DEF Sound

LEMMA SoundStep == LinkTypeOK /\ Sound /\ [LinkNext]_allVars => Sound'
<1> SUFFICES ASSUME LinkTypeOK, Sound, [LinkNext]_allVars PROVE Sound'
  OBVIOUS
<1>1. Exclusive /\ Closed /\ InOrder /\ Buffered /\ Agreed /\ ~reset_busy
  BY DEF Sound
<1>2. ASSUME Exclusive', Closed', UNCHANGED <<kind, direct, done, reply, res_len, reset_busy>>,
             op' \in {op, "none"}, status' = "CONNECTED" => status = "CONNECTED"
      PROVE  Sound'
  BY <1>1, <1>2, OrderStays DEF Sound
<1>8. CASE force_shutdown
  <2>1. UNCHANGED <<kind, direct, op, proxyVars, done, recv, reset_busy>>
    BY <1>8 DEF force_shutdown
  <2>2. CASE UNCHANGED <<started, timers>>
    <3>1. status' = status \/ (status' = "GRACEFUL" /\ status = "CONNECTED")
      BY <1>8 DEF force_shutdown
    <3>2. QED
      BY <2>1, <2>2, <3>1, SoundStays DEF proxyVars
  <2>3. CASE StartClient /\ ~started /\ "DELAY_CLOSE" \notin timers /\ UNCHANGED status /\ status = "BROKEN"
    <3>1. op = "none" /\ recv = "none" /\ ~Reconnecting
      BY <1>1, <2>3 DEF Closed
    <3>2. Exclusive' /\ Closed'
      BY <2>1, <2>3, <3>1 DEF StartClient, Exclusive, Closed, Reconnecting, Ready
    <3>3. QED
      BY <1>2, <2>1, <2>3, <3>2 DEF proxyVars
  <2>4. QED
    BY <1>8, <2>2, <2>3 DEF force_shutdown
<1>9. CASE RunForce
  <2>1. op \in {"none", "connect", "ssl", "ws", "write", "read"} /\ at \in {"pending", "ok", "failed"}
    BY DEF LinkTypeOK
  <2>2. _force_shutdown(op, at) /\ UNCHANGED <<kind, direct, proxyVars, done, reset_busy>>
    BY <1>9 DEF RunForce
  <2>3. /\ status' \in {status, "FORCE"} /\ op' = op /\ (recv = "none" => recv' = "none")
        /\ UNCHANGED <<started, timers>> \/ (~started' /\ timers' = {"DELAY_CLOSE"})
    BY <2>1, <2>2, ForceShutdown
  <2>4. QED
    BY <2>2, <2>3, SoundStays DEF proxyVars
<1>10. CASE RunShutdown
  BY <1>10, SoundStays DEF RunShutdown, start_graceful_shutdown_monitoring, lifeVars, proxyVars
<1>11. CASE PeerSaysBye
  <2>1. recv = "none" => recv' = "none"
    BY <1>11 DEF PeerSaysBye
  <2>2. QED
    BY <1>11, <2>1, SoundStays DEF PeerSaysBye, lifeVars, proxyVars
<1>12. CASE ByeHandler
  BY <1>12, SoundStays DEF ByeHandler, lifeVars, proxyVars
<1>13. CASE AsyncShutdownTimer
  BY <1>13, SoundStays DEF AsyncShutdownTimer, lifeVars, proxyVars
<1>14. CASE RecvError
  <2>1. /\ status' \in {status, "FORCE"} /\ recv' = "none"
        /\ \/ UNCHANGED <<started, timers>>
           \/ UNCHANGED started /\ timers' = timers \ {"ASYNC_SHUTDOWN"}
           \/ ~started' /\ timers' = {"DELAY_CLOSE"}
    BY <1>14 DEF RecvError
  <2>2. UNCHANGED <<kind, direct, op, proxyVars, done, reset_busy>>
    BY <1>14 DEF RecvError
  <2>3. QED
    BY <2>1, <2>2, SoundStays DEF proxyVars
<1>15. CASE DelayClose
  <2>1. op = "none" /\ recv = "none" /\ ~reset_busy' /\ status' = "BROKEN" /\ started' = need_reconnect
        /\ timers' = IF need_reconnect THEN {"CONNECT"} ELSE {}
    BY <1>1, <1>15 DEF DelayClose, is_last_async_call, Outstanding
  <2>2. UNCHANGED <<kind, direct, op, proxyVars, done, recv>>
    BY <1>15 DEF DelayClose
  <2>3. Exclusive' /\ Closed'
    BY <2>1, <2>2 DEF Exclusive, Closed, Reconnecting, Ready
  <2>4. InOrder' /\ Buffered' /\ Agreed'
    BY <1>1, <2>1, <2>2, OrderStays DEF proxyVars
  <2>5. QED
    BY <2>1, <2>3, <2>4 DEF Sound
<1>16. CASE ConnectTimer
  <2>1. op = "none" /\ recv = "none" /\ ~Ready(status) /\ "CONNECT_DELAY" \notin timers
    BY <1>1, <1>16 DEF ConnectTimer, Exclusive, Reconnecting
  <2>2. op' = "connect" /\ done' = {} /\ timers' = timers \ {"CONNECT"}
        /\ UNCHANGED <<kind, direct, status, started, recv, reset_busy>>
    BY <1>16 DEF ConnectTimer, Begin, lifeVars
  <2>3. Exclusive' /\ ~Reconnecting'
    BY <2>1, <2>2 DEF Exclusive, Reconnecting, Ready
  <2>4. Closed'
    BY <1>1, <1>16, <2>2 DEF Closed, Reconnecting, ConnectTimer
  <2>5. InOrder' /\ Buffered' /\ Agreed'
    BY <2>1, <2>2 DEF InOrder, Buffered, Agreed, Ready
  <2>6. QED
    BY <1>1, <2>2, <2>3, <2>4, <2>5 DEF Sound
<1>17. CASE ConnectDelay
  <2>1. op = "none" /\ recv = "none" /\ ~Ready(status)
    BY <1>1, <1>17 DEF ConnectDelay, Exclusive, Reconnecting
  <2>2. UNCHANGED <<kind, direct, op, status, started, proxyVars, done, recv, reset_busy>>
        /\ "CONNECT_DELAY" \in timers
        /\ (timers' = timers \ {"CONNECT_DELAY"} \/ timers' = (timers \ {"CONNECT_DELAY"}) \cup {"CONNECT"})
    BY <1>17 DEF ConnectDelay, lifeVars
  <2>3. Exclusive'
    BY <2>1, <2>2 DEF Exclusive, Reconnecting, Ready
  <2>4. Closed'
    BY <1>1, <2>2 DEF Closed, Reconnecting
  <2>5. QED
    BY <1>2, <2>2, <2>3, <2>4 DEF proxyVars
<1>18. ASSUME NEW what, NEW outcome, Happens(what, outcome) PROVE Sound'
  BY <1>18, SoundStays DEF Happens, lifeVars, proxyVars
<1>19. CASE Connects
  BY <1>18, <1>19 DEF Connects
<1>20. ASSUME NEW what, Completes(what) \/ Breaks(what) PROVE Sound'
  BY <1>18, <1>20 DEF Completes, Breaks
<1>21. CASE PeerLeaves
  <2>1. recv # "none"
    BY <1>21 DEF PeerLeaves
  <2>2. QED
    BY <1>21, <2>1, SoundStays DEF PeerLeaves, lifeVars, proxyVars
<1>22. CASE connect_handler
  <2>1. op = "connect" /\ done = {} /\ res_len' = 0
        /\ UNCHANGED <<kind, direct, started, reply, done, reset_busy>>
    BY <1>1, <1>22 DEF connect_handler, Ended, InOrder
  <2>2. CASE Proceed({}) /\ UNCHANGED timers
    <3>1. Exclusive' /\ Closed'
      BY <1>1, <2>1, <2>2, ProceedExclusive
    <3>2. Needs' = Needs /\ Layer' = Layer /\ (Layer \in {"socks4", "socks5"} /\ ~direct <=> Needs = {"proxy"})
          /\ (Needs = {} \/ Needs = {"proxy"} \/ Needs = {"ssl"} \/ Needs = {"ws"} \/ Needs = {"ssl", "ws"})
      BY <2>1, Needed
    <3>3. CASE Needs = {}
      <4>1. status' = "CONNECTED" /\ op' = "none"
        BY <2>2, <3>3 DEF Proceed, DoStart, NoOp
      <4>2. InOrder' /\ Buffered' /\ Agreed'
        BY <2>1, <3>2, <3>3, <4>1 DEF InOrder, Buffered, Agreed
      <4>3. QED
        BY <1>1, <2>1, <3>1, <4>2 DEF Sound
    <3>4. CASE Needs # {}
      <4>1. status' = "HANDSHAKING" /\ op' = IF "ssl" \in Needs THEN "ssl" ELSE IF "ws" \in Needs THEN "ws" ELSE "write"
        BY <2>2, <3>4 DEF Proceed, Begin
      <4>2. InOrder' /\ Buffered' /\ Agreed'
        BY <2>1, <3>2, <3>4, <4>1 DEF InOrder, Buffered, Agreed
      <4>3. QED
        BY <1>1, <2>1, <3>1, <4>2 DEF Sound
    <3>5. QED
      BY <3>3, <3>4
  <2>3. CASE ConnectFailed /\ status' \in {status, "HANDSHAKING"} /\ UNCHANGED recv
    <3>1. recv = "none" /\ ~Reconnecting /\ ~Ready(status) /\ (~started => "DELAY_CLOSE" \in timers)
      BY <1>1, <2>1, LinkAlone DEF Closed
    <3>2. op' = "none" /\ timers' = timers \cup {"CONNECT_DELAY"}
      BY <2>3 DEF ConnectFailed, NoOp
    <3>3. Exclusive' /\ Closed'
      BY <2>1, <2>3, <3>1, <3>2 DEF Exclusive, Closed, Reconnecting, Ready
    <3>4. InOrder' /\ Buffered' /\ Agreed'
      BY <2>3, <3>1, <3>2 DEF InOrder, Buffered, Agreed, Ready
    <3>5. QED
      BY <1>1, <2>1, <3>3, <3>4 DEF Sound
  <2>4. QED
    BY <1>22, <2>2, <2>3 DEF connect_handler
<1>23. CASE handle_handshake
  <2>1. op \in {"ssl", "ws"} /\ UNCHANGED <<kind, direct, started, timers, proxyVars, reset_busy>>
    BY <1>23 DEF handle_handshake
  <2>2. CASE at = "ok"
    <3>1. done' = done \cup {op} /\ Proceed(done \cup {op})
      BY <1>23, <2>2 DEF handle_handshake, Handshaken
    <3>2. Exclusive' /\ Closed'
      BY <1>1, <2>1, <3>1, ProceedExclusive
    <3>3. Needs' = Needs /\ Layer' = Layer /\ (Layer \in {"socks4", "socks5"} /\ ~direct <=> Needs = {"proxy"})
          /\ (Needs = {} \/ Needs = {"proxy"} \/ Needs = {"ssl"} \/ Needs = {"ws"} \/ Needs = {"ssl", "ws"})
      BY <2>1, Needed
    <3>4. Needs # {"proxy"} /\ (op = "ssl" => done = {} /\ "ssl" \in Needs)
          /\ (op = "ws" => "ws" \in Needs /\ done = Needs \ {"ws"})
      BY <1>1, <2>1, <3>3 DEF InOrder
    <3>5. CASE Needs \ (done \cup {op}) = {}
      <4>1. status' = "CONNECTED" /\ op' = "none"
        BY <3>1, <3>5 DEF Proceed, DoStart, NoOp
      <4>2. done' = Needs
        BY <3>1, <3>3, <3>4, <3>5, <2>1
      <4>3. InOrder' /\ Buffered' /\ Agreed'
        BY <2>1, <3>3, <3>4, <4>1, <4>2 DEF InOrder, Buffered, Agreed
      <4>4. QED
        BY <1>1, <2>1, <3>2, <4>3 DEF Sound
    <3>6. CASE Needs \ (done \cup {op}) # {}
      <4>1. Needs = {"ssl", "ws"} /\ op = "ssl" /\ done = {}
        BY <3>3, <3>4, <3>6, <2>1
      <4>2. status' = "HANDSHAKING" /\ op' = "ws" /\ done' = {"ssl"}
        BY <3>1, <3>6, <4>1 DEF Proceed, Begin
      <4>3. InOrder' /\ Buffered' /\ Agreed'
        BY <3>3, <4>1, <4>2 DEF InOrder, Buffered, Agreed
      <4>4. QED
        BY <1>1, <2>1, <3>2, <4>3 DEF Sound
    <3>7. QED
      BY <3>5, <3>6
  <2>3. CASE at # "ok"
    <3>1. GiveUp /\ UNCHANGED <<status, recv, done>>
      BY <1>23, <2>3 DEF handle_handshake
    <3>2. op' = "none"
      BY <3>1 DEF GiveUp, NoOp
    <3>3. QED
      BY <2>1, <3>1, <3>2, SoundStays DEF proxyVars
  <2>4. QED
    BY <2>2, <2>3
<1>24. CASE send_handler
  <2>1. op = "write" /\ UNCHANGED <<kind, direct, status, started, timers, done, recv, reset_busy>>
    BY <1>24 DEF send_handler, Ended
  <2>2. recv = "none" /\ ~Ready(status) /\ ~Reconnecting
    BY <1>1, <2>1, LinkAlone
  <2>3. CASE at = "ok"
    <3>1. PICK answer \in Answers : reply' = After(reply.left, answer)
      BY <1>24, <2>3 DEF send_handler
    <3>2. op' = "read" /\ res_len' = 0
      BY <1>24, <2>3 DEF send_handler, Begin
    <3>3. answer.len = answer.left /\ answer.len \in Nat
      BY LinksAssumption DEF Answers
    <3>4. reply'.len = reply'.left /\ reply'.len \in Nat
      BY <3>1, <3>3 DEF After, LinkTypeOK
    <3>5. reply'.len - reply'.left = 0
      BY <3>4
    <3>6. Needs' = Needs
      BY <2>1, Needed
    <3>7. Exclusive' /\ Closed'
      BY <1>1, <2>1, <2>2, <3>2 DEF Exclusive, Closed, Reconnecting, Ready
    <3>8. InOrder' /\ Buffered' /\ Agreed'
      BY <1>1, <2>1, <2>2, <3>2, <3>5, <3>6 DEF InOrder, Buffered, Agreed, Ready
    <3>9. QED
      BY <1>1, <2>1, <3>7, <3>8 DEF Sound
  <2>4. CASE at # "ok"
    <3>1. GiveUp /\ UNCHANGED proxyVars
      BY <1>24, <2>4 DEF send_handler
    <3>2. op' = "none"
      BY <3>1 DEF GiveUp, NoOp
    <3>3. QED
      BY <2>1, <3>1, <3>2, SoundStays DEF proxyVars
  <2>5. QED
    BY <2>3, <2>4
<1>25. CASE recv_handler
  <2>1. op = "read" /\ UNCHANGED <<kind, direct, started, timers, reset_busy>>
    BY <1>25 DEF recv_handler, Ended
  <2>2. recv = "none" /\ ~Ready(status) /\ ~Reconnecting /\ (~started => "DELAY_CLOSE" \in timers)
        /\ Needs = {"proxy"} /\ done = {}
    BY <1>1, <2>1, LinkAlone DEF Closed, InOrder
  <2>3. Layer \in {"socks4", "socks5"} /\ ~direct /\ Needs' = Needs /\ Layer' = Layer
    BY <2>1, <2>2, Needed
  <2>4. ASSUME GiveUp, UNCHANGED <<status, recv, done>>, UNCHANGED direct PROVE Sound'
    <3>1. op' = "none"
      BY <2>4 DEF GiveUp, NoOp
    <3>2. Exclusive' /\ Closed'
      BY <2>1, <2>2, <2>4, <3>1 DEF Exclusive, Closed, Reconnecting, Ready
    <3>3. InOrder' /\ Buffered' /\ Agreed'
      BY <2>2, <2>4, <3>1 DEF InOrder, Buffered, Agreed, Ready
    <3>4. QED
      BY <1>1, <2>1, <3>2, <3>3 DEF Sound
  <2>5. ASSUME NEW n \in Arriving, reply' = [reply EXCEPT !.left = @ - n],
               Verdict(res_len + n) = Success, done' = done \cup {"proxy"}, DoStart
        PROVE  Sound'
    <3>1. status' = "CONNECTED" /\ op' = "none" /\ done' = {"proxy"}
      BY <2>2, <2>5 DEF DoStart, NoOp
    <3>2. Exclusive' /\ Closed'
      BY <2>1, <2>2, <3>1 DEF Exclusive, Closed, Reconnecting
    <3>3. n \in Nat /\ reply.left \in Nat /\ reply.len \in Nat /\ res_len \in Nat
      BY LinksAssumption DEF Arriving, LinkTypeOK
    <3>4. reply'.left = reply.left - n /\ reply'.len = reply.len /\ reply'.yes = reply.yes
      BY <2>5 DEF LinkTypeOK
    <3>5. Expected' = Expected
      BY <3>4 DEF Expected
    <3>6. CASE Layer = "socks4"
      <4>1. n = reply.left /\ reply.yes
        BY <2>5, <3>6 DEF Arriving, Verdict, Success, Failure
      <4>2. QED
        BY <1>1, <2>1, <2>2, <2>3, <3>1, <3>2, <3>3, <3>4, <3>6, <4>1 DEF Sound, InOrder, Buffered, Agreed
    <3>7. CASE Layer = "socks5"
      <4>1. parse_request(res_len + n) = Success
        BY <2>5, <3>7 DEF Verdict, parse_method, parse_auth, Success, More, Failure
      <4>2. reply.yes /\ ~(res_len + n < Expected) /\ ~(res_len + n > Expected)
        BY <4>1 DEF parse_request, Success, More, Failure
      <4>3. reply.len - reply.left = res_len
        BY <1>1, <2>1, <3>7 DEF Buffered
      <4>4. Expected \in Int
        BY <3>3 DEF Expected
      <4>5. reply'.len - reply'.left = Expected'
        BY <3>3, <3>4, <3>5, <4>2, <4>3, <4>4
      <4>6. InOrder' /\ Buffered' /\ Agreed'
        BY <2>2, <2>3, <3>1, <3>4, <3>7, <4>2, <4>5 DEF InOrder, Buffered, Agreed
      <4>7. QED
        BY <1>1, <2>1, <3>2, <4>6 DEF Sound
    <3>8. QED
      BY <2>3, <3>6, <3>7
  <2>6. ASSUME NEW n \in Arriving, reply' = [reply EXCEPT !.left = @ - n], UNCHANGED <<status, recv, done>>,
               \/ res_len' = 0 /\ Begin("write")
               \/ res_len' = res_len + n /\ Begin("read")
        PROVE  Sound'
    <3>1. n \in Nat /\ reply.left \in Nat /\ reply.len \in Nat /\ res_len \in Nat
      BY LinksAssumption DEF Arriving, LinkTypeOK
    <3>2. reply'.left = reply.left - n /\ reply'.len = reply.len
      BY <2>6 DEF LinkTypeOK
    <3>3. op' = "write" \/ (op' = "read" /\ res_len' = res_len + n)
      BY <2>6 DEF Begin
    <3>4. Exclusive' /\ Closed'
      BY <2>1, <2>2, <2>6 DEF Exclusive, Closed, Reconnecting, Ready
    <3>5. Buffered'
      BY <1>1, <2>1, <2>3, <3>1, <3>2, <3>3 DEF Buffered
    <3>6. InOrder' /\ Agreed'
      BY <2>2, <2>3, <2>6, <3>3 DEF InOrder, Agreed, Ready
    <3>7. QED
      BY <1>1, <2>1, <3>4, <3>5, <3>6 DEF Sound
  <2>7. QED
    BY <1>25, <2>1, <2>4, <2>5, <2>6 DEF recv_handler
<1>26. CASE UNCHANGED allVars
  BY <1>26, SoundStays DEF allVars, lifeVars, proxyVars
<1>27. QED
  BY <1>8, <1>9, <1>10, <1>11, <1>12, <1>13, <1>14, <1>15, <1>16, <1>17, <1>19, <1>20, <1>21, <1>22, <1>23,
     <1>24, <1>25, <1>26 DEF LinkNext, Handlers

(* A link is told to be connected only when all its handshakes were made on  *)
(* this connection and the proxy's answer was read to its end and not beyond *)
(* (tcp/socket.h:235-242, ssl.h:117, websocket.h:178, socks.h:353), whatever *)
(* the lengths of the answers and the size of the buffer.                    *)
THEOREM NegotiatedFirst == LinkSpec => []Negotiated
<1>1. Sound => Negotiated
  BY DEF Sound, InOrder, Agreed, Negotiated
<1>2. QED
  BY SoundInit, SoundStep, LinksTyped, <1>1, PTL DEF LinkSpec

(* The stream of ssl is renewed with nothing outstanding on it, and messages *)
(* are never read while a connection or a handshake is under way             *)
(* (ssl.h:96-100, socket.h:713).                                             *)
THEOREM StreamsAlone == LinkSpec => []StreamAlone
<1>1. Sound => StreamAlone
  BY DEF Sound, Exclusive, StreamAlone
<1>2. QED
  BY SoundInit, SoundStep, LinksTyped, <1>1, PTL DEF LinkSpec
=============================================================================
