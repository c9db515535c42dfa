-------------------------- MODULE UdpSocketProofs --------------------------
(* What holds of UdpSocket for every number of applications and service      *)
(* threads, every congestion window and every bound.                         *)
EXTENDS UdpSocket, SequenceTheorems, TLAPS

-----------------------------------------------------------------------------
(* The operations of a timer, for every state of it.                         *)

(* A timer fires when its wait is over, or when a handler that was not       *)
(* cancelled is due; FiresOnce: not twice.                                   *)
Fires(ti) == ti.wait \/ \E i \in DOMAIN ti.due : ~ti.due[i].cancelled
FiresOnce(ti) ==
    /\ \A i, j \in DOMAIN ti.due : ~ti.due[i].cancelled /\ ~ti.due[j].cancelled => i = j
    /\ ti.wait => \A i \in DOMAIN ti.due : ti.due[i].cancelled

(* The handlers that are due each have the seq of a start.                   *)
LEMMA DueTyped ==
    ASSUME NEW s \in Seq(Handlers)
    PROVE  \A i \in DOMAIN s : s[i].prev_seq \in Nat /\ s[i].cancelled \in BOOLEAN
<1>1. \A i \in DOMAIN s : s[i] \in Handlers
  OBVIOUS
<1> QED BY <1>1 DEF Handlers

(* The end of a wait: one handler more, and nothing else but `wait'.         *)
LEMMA Completed ==
    ASSUME NEW ti \in TimerInfos, NEW c \in BOOLEAN
    PROVE  /\ Complete(ti, c) \in TimerInfos
           /\ Complete(ti, c).seq = ti.seq /\ Complete(ti, c).status = ti.status
           /\ ~Complete(ti, c).wait
           /\ Complete(ti, c).due =
                 IF ti.wait THEN Append(ti.due, [prev_seq |-> ti.seq, cancelled |-> c]) ELSE ti.due
<1> DEFINE h == [prev_seq |-> ti.seq, cancelled |-> c]
<1>1. ti.due \in Seq(Handlers) /\ h \in Handlers
  BY DEF TimerInfos, Handlers
<1> HIDE DEF h
<1>2. Append(ti.due, h) \in Seq(Handlers)
  BY <1>1
<1>3. Complete(ti, c) = IF ti.wait THEN [ti EXCEPT !.wait = FALSE, !.due = Append(ti.due, h)] ELSE ti
  BY DEF Complete, TimerInfos, h
<1>4. [ti EXCEPT !.wait = FALSE, !.due = Append(ti.due, h)] \in TimerInfos
  BY <1>2 DEF TimerInfos
<1> QED BY <1>3, <1>4 DEF TimerInfos, h

(* stop_timer: a started timer is canceled and its wait cut short.           *)
LEMMA Stopped ==
    ASSUME NEW ti \in TimerInfos
    PROVE  /\ Stop(ti) \in TimerInfos
           /\ Stop(ti).seq = ti.seq
           /\ ti.status # "STARTED" => Stop(ti) = ti
           /\ ti.status = "STARTED" =>
                 /\ Stop(ti).status = "CANCELED" /\ ~Stop(ti).wait
                 /\ Stop(ti).due = IF ti.wait
                                   THEN Append(ti.due, [prev_seq |-> ti.seq, cancelled |-> TRUE])
                                   ELSE ti.due
<1> DEFINE canceled == [ti EXCEPT !.status = "CANCELED"]
<1>1. /\ canceled \in TimerInfos
      /\ canceled.seq = ti.seq /\ canceled.wait = ti.wait /\ canceled.due = ti.due
      /\ canceled.status = "CANCELED"
  BY DEF TimerInfos
<1>2. Stop(ti) = IF ti.status = "STARTED" THEN Complete(canceled, TRUE) ELSE ti
  BY DEF Stop
<1> HIDE DEF canceled
<1>3. /\ Complete(canceled, TRUE) \in TimerInfos
      /\ Complete(canceled, TRUE).seq = canceled.seq
      /\ Complete(canceled, TRUE).status = canceled.status
      /\ ~Complete(canceled, TRUE).wait
      /\ Complete(canceled, TRUE).due =
            IF canceled.wait
            THEN Append(canceled.due, [prev_seq |-> canceled.seq, cancelled |-> TRUE])
            ELSE canceled.due
  BY <1>1, Completed
<1>4. CASE ti.status = "STARTED"
  <2>1. Stop(ti) = Complete(canceled, TRUE)
    BY <1>2, <1>4
  <2> QED BY ONLY <1>1, <1>3, <1>4, <2>1
<1>5. CASE ti.status # "STARTED"
  BY <1>2, <1>5
<1> QED BY <1>4, <1>5

(* start_timer: the next seq, and a wait; the wait before is cut short.      *)
LEMMA Rearmed ==
    ASSUME NEW ti \in TimerInfos
    PROVE  /\ Rearm(ti) \in TimerInfos
           /\ Rearm(ti).seq = ti.seq + 1 /\ Rearm(ti).status = ti.status /\ Rearm(ti).wait
           /\ Rearm(ti).due = IF ti.wait
                              THEN Append(ti.due, [prev_seq |-> ti.seq, cancelled |-> TRUE])
                              ELSE ti.due
<1> DEFINE done == Complete(ti, TRUE)
<1>1. /\ done \in TimerInfos /\ done.seq = ti.seq /\ done.status = ti.status
      /\ done.due = IF ti.wait
                    THEN Append(ti.due, [prev_seq |-> ti.seq, cancelled |-> TRUE])
                    ELSE ti.due
  BY Completed
<1>2. Rearm(ti) = [done EXCEPT !.seq = done.seq + 1, !.wait = TRUE]
  BY <1>1 DEF Rearm, TimerInfos
<1> HIDE DEF done
<1>3. done.seq + 1 \in Nat
  BY <1>1 DEF TimerInfos
<1> QED BY <1>1, <1>2, <1>3 DEF TimerInfos

(* set_timer: a start that also says STARTED.                                *)
LEMMA Begun ==
    ASSUME NEW ti \in TimerInfos
    PROVE  /\ Start(ti) \in TimerInfos
           /\ Start(ti).seq = ti.seq + 1 /\ Start(ti).status = "STARTED" /\ Start(ti).wait
           /\ Start(ti).due = IF ti.wait
                              THEN Append(ti.due, [prev_seq |-> ti.seq, cancelled |-> TRUE])
                              ELSE ti.due
<1> DEFINE started == [ti EXCEPT !.status = "STARTED"]
<1>1. /\ started \in TimerInfos
      /\ started.seq = ti.seq /\ started.wait = ti.wait
      /\ started.due = ti.due /\ started.status = "STARTED"
  BY DEF TimerInfos
<1>2. Start(ti) = Rearm(started)
  BY DEF Start
<1> HIDE DEF started
<1> QED BY <1>1, <1>2, Rearmed

(* The handler that comes when a wait is over is the one that fires.         *)
LEMMA ExpiredFires ==
    ASSUME NEW ti \in TimerInfos, ti.wait, FiresOnce(ti)
    PROVE  /\ FiresOnce(Complete(ti, FALSE)) /\ Fires(Complete(ti, FALSE))
           /\ \A i \in DOMAIN Complete(ti, FALSE).due :
                 \/ i \in DOMAIN ti.due /\ Complete(ti, FALSE).due[i] = ti.due[i]
                 \/ /\ Complete(ti, FALSE).due[i].prev_seq = ti.seq
                    /\ ~Complete(ti, FALSE).due[i].cancelled
<1>1. PICK new \in TimerInfos : new = Complete(ti, FALSE)
  BY Completed
<1>2. PICK h : h = [prev_seq |-> ti.seq, cancelled |-> FALSE]
  OBVIOUS
<1>3. ti.due \in Seq(Handlers) /\ new.due = Append(ti.due, h) /\ ~new.wait
  BY <1>1, <1>2, Completed DEF TimerInfos
<1>4. \A i \in DOMAIN new.due : \/ i \in DOMAIN ti.due /\ new.due[i] = ti.due[i]
                                \/ i = Len(ti.due) + 1 /\ new.due[i] = h
  BY <1>3
<1>5. Len(ti.due) + 1 \in DOMAIN new.due /\ new.due[Len(ti.due) + 1] = h
  BY <1>3
<1>6. h.prev_seq = ti.seq /\ ~h.cancelled
  BY <1>2
<1>7. FiresOnce(new) /\ Fires(new)
  BY <1>3, <1>4, <1>5, <1>6 DEF FiresOnce, Fires
<1> QED BY <1>1, <1>4, <1>6, <1>7

(* A cancelled handler adds nothing that fires.                              *)
LEMMA CutShort ==
    ASSUME NEW due \in Seq(Handlers), NEW n \in Nat
    PROVE  \A i \in DOMAIN Append(due, [prev_seq |-> n, cancelled |-> TRUE]) :
              \/ i \in DOMAIN due /\ Append(due, [prev_seq |-> n, cancelled |-> TRUE])[i] = due[i]
              \/ Append(due, [prev_seq |-> n, cancelled |-> TRUE])[i].cancelled
<1>1. PICK h : h = [prev_seq |-> n, cancelled |-> TRUE]
  OBVIOUS
<1>2. h.cancelled
  BY <1>1
<1>3. \A i \in DOMAIN Append(due, h) : \/ i \in DOMAIN due /\ Append(due, h)[i] = due[i]
                                       \/ Append(due, h)[i] = h
  OBVIOUS
<1> QED BY <1>1, <1>2, <1>3

LEMMA StoppedFires ==
    ASSUME NEW ti \in TimerInfos, FiresOnce(ti)
    PROVE  FiresOnce(Stop(ti)) /\ (Fires(Stop(ti)) => Fires(ti))
<1>1. PICK new \in TimerInfos : new = Stop(ti)
  BY Stopped
<1>2. CASE new = ti
  BY <1>1, <1>2
<1>3. CASE new # ti
  <2>1. ~new.wait /\ (ti.due \in Seq(Handlers)) /\ ti.seq \in Nat
    BY <1>1, <1>3, Stopped DEF TimerInfos
  <2>2. \A i \in DOMAIN new.due : \/ i \in DOMAIN ti.due /\ new.due[i] = ti.due[i]
                                  \/ new.due[i].cancelled
    <3>1. CASE ti.wait
      <4>1. new.due = Append(ti.due, [prev_seq |-> ti.seq, cancelled |-> TRUE])
        BY <1>1, <1>3, <3>1, Stopped
      <4> QED BY <2>1, <4>1, CutShort
    <3>2. CASE ~ti.wait
      BY <1>1, <1>3, <3>2, Stopped
    <3> QED BY <3>1, <3>2
  <2> QED BY <1>1, <2>1, <2>2 DEF FiresOnce, Fires
<1> QED BY <1>2, <1>3

(* The handler that was due first begins.                                    *)
LEMMA BegunFires ==
    ASSUME NEW ti \in TimerInfos, FiresOnce(ti), ti.due # <<>>,
           NEW new, new = [ti EXCEPT !.due = Tail(ti.due)]
    PROVE  /\ new \in TimerInfos /\ new.seq = ti.seq /\ new.status = ti.status /\ new.wait = ti.wait
           /\ Head(ti.due) = ti.due[1] /\ 1 \in DOMAIN ti.due
           /\ FiresOnce(new) /\ (Fires(new) => Fires(ti))
           /\ ~Head(ti.due).cancelled => Fires(ti) /\ ~Fires(new)
           /\ \A i \in DOMAIN new.due : i + 1 \in DOMAIN ti.due /\ new.due[i] = ti.due[i + 1]
<1>1. ti.due \in Seq(Handlers) /\ Tail(ti.due) \in Seq(Handlers)
  <2>1. ti.due \in Seq(Handlers)
    BY DEF TimerInfos
  <2> QED BY <2>1
<1>2. /\ new \in TimerInfos /\ new.due = Tail(ti.due)
      /\ new.seq = ti.seq /\ new.status = ti.status /\ new.wait = ti.wait
  BY <1>1 DEF TimerInfos
<1>3. /\ Head(ti.due) = ti.due[1] /\ 1 \in DOMAIN ti.due
      /\ \A i \in DOMAIN new.due : i + 1 \in DOMAIN ti.due /\ new.due[i] = ti.due[i + 1] /\ i + 1 # 1
  BY <1>1, <1>2
<1>4. \A i, j \in DOMAIN new.due : i + 1 = j + 1 => i = j
  BY <1>1, <1>2
<1>5. FiresOnce(new) /\ (Fires(new) => Fires(ti))
  BY <1>2, <1>3, <1>4 DEF FiresOnce, Fires
<1>6. ~Head(ti.due).cancelled => Fires(ti) /\ ~Fires(new)
  BY <1>2, <1>3 DEF FiresOnce, Fires
<1> QED BY <1>2, <1>3, <1>5, <1>6

-----------------------------------------------------------------------------
(* The parts of the inductive invariants.                                    *)

(* What KCP has lost is unacknowledged, and the window is kept.              *)
KcpSound ==
    /\ kcp.lost <= kcp.unacked /\ kcp.unacked <= Window
    /\ recv = "ack" => kcp.lost < kcp.unacked

(* The timer owns the flag whether or not its status still says so: a start  *)
(* that the callback of an earlier one has cancelled keeps the flag for ever *)
(* (with several threads), but it does not hand it to anybody.               *)
Running == callback.at \in {"que", "resume"}
TimerHas == Running \/ Fires(cc)
DatagramOut == sending_msg # "none"
Once == FiresOnce(cc) /\ (Running => ~Fires(cc))
Sole ==
    /\ ~(TaskOwns /\ DatagramOut) /\ ~(TaskOwns /\ TimerHas) /\ ~(DatagramOut /\ TimerHas)
    /\ TaskOwns \/ DatagramOut \/ TimerHas => sending
Owned == Once /\ Sole

(* With one thread, the callback sees no start but one: that of a            *)
(* do_send_msg which runs in the send_msg of the callback itself.            *)
Calm ==
    /\ callback.at \notin {"none", "end"} => task.at = "idle"
    /\ callback.at # "false"
    /\ callback.at \in {"send", "cancel"} => ~TimerHas
    /\ TimerHas \/ task.at = "start_timer" => cc.status = "STARTED"
    /\ \A i \in DOMAIN cc.due : ~cc.due[i].cancelled /\ cc.due[i].prev_seq = cc.seq
    /\ callback.at \in {"que", "resume", "send"} => cc.seq = callback.prev_seq
    /\ callback.at = "end" =>
          cc.seq = IF TimerHas THEN (callback.prev_seq + 1) % SeqMod ELSE callback.prev_seq
    /\ cc.seq < SeqMod /\ callback.prev_seq < SeqMod
    /\ sending => TaskOwns \/ DatagramOut \/ TimerHas
Timed == crew = 1 /\ life # "closed" => Calm

-----------------------------------------------------------------------------
(* Type correctness.                                                         *)

(* KCP lets out what the window allows.                                      *)
LEMMA Flushed ==
    ASSUME NEW k \in [que : Nat, unacked : Nat, lost : Nat], k.unacked <= Window
    PROVE  /\ Flush(k) \in [que : Nat, unacked : Nat, lost : Nat]
           /\ Flush(k).unacked <= Window /\ k.unacked <= Flush(k).unacked /\ Flush(k).lost = k.lost
<1> DEFINE n == IF k.que < Window - k.unacked THEN k.que ELSE Window - k.unacked
<1>1. Flush(k) = [k EXCEPT !.que = k.que - n, !.unacked = k.unacked + n]
  BY DEF Flush
<1>2. k.que - n \in Nat /\ k.unacked + n \in Nat /\ k.unacked + n <= Window /\ k.unacked <= k.unacked + n
  BY UdpAssumption
<1> HIDE DEF n
<1> QED BY <1>1, <1>2

LEMMA TypeInit == Init => TypeOK /\ KcpSound
<1> SUFFICES ASSUME Init PROVE TypeOK /\ KcpSound
  OBVIOUS
<1>1. NewTimer \in TimerInfos
  BY DEF NewTimer, TimerInfos, Handlers
<1>2. /\ task \in [at : TaskPlaces, in_strand : BOOLEAN]
      /\ callback \in [at : CallbackPlaces, prev_seq : Nat]
      /\ kcp \in [que : Nat, unacked : Nat, lost : Nat]
  BY DEF Init, Idle, NoCallback, TaskPlaces, CallbackPlaces
<1>3. send_buffer \in Seq(1..MaxMsgs) /\ app \in [Apps -> BOOLEAN] /\ msgs \in 0..MaxMsgs
  BY UdpAssumption DEF Init
<1>4. KcpSound
  BY UdpAssumption DEF Init, KcpSound
<1> QED BY <1>1, <1>2, <1>3, <1>4 DEF Init, TypeOK

LEMMA Wrapped ==
    ASSUME NEW ti \in TimerInfos
    PROVE  /\ Wrap(ti) \in TimerInfos /\ Wrap(ti).seq = ti.seq % SeqMod /\ Wrap(ti).seq < SeqMod
           /\ Wrap(ti).status = ti.status /\ Wrap(ti).wait = ti.wait /\ Wrap(ti).due = ti.due
<1>1. \A n \in Nat : n % SeqMod \in Nat /\ n % SeqMod < SeqMod
  BY SeqAssumption
<1>2. ti.seq % SeqMod \in Nat /\ ti.seq % SeqMod < SeqMod
  BY <1>1 DEF TimerInfos
<1>3. Wrap(ti) = [ti EXCEPT !.seq = ti.seq % SeqMod]
  BY DEF Wrap
<1> QED BY <1>2, <1>3 DEF TimerInfos

LEMMA TypeNext == TypeOK /\ KcpSound /\ [Next]_vars => TypeOK' /\ KcpSound'
<1> SUFFICES ASSUME TypeOK, KcpSound, [Next]_vars PROVE TypeOK' /\ KcpSound'
  OBVIOUS
<1> USE DEF TypeOK, sendVars, strandVars, timerVars, envVars, TaskVars, CallbackVars, NotBuilt
<1>1. /\ Window \in Nat /\ MaxMsgs \in Nat
      /\ Idle \in [at : TaskPlaces, in_strand : BOOLEAN]
      /\ NoCallback \in [at : CallbackPlaces, prev_seq : Nat]
  BY UdpAssumption DEF Idle, NoCallback, TaskPlaces, CallbackPlaces
<1>2. SendMsg => posts' \in Nat
  BY DEF SendMsg
(* A step that leaves KCP and the timer alone.                               *)
<1>3. ASSUME UNCHANGED kcp, recv' = "ack" => recv = "ack" PROVE KcpSound'
  BY <1>3 DEF KcpSound
<1>4. ASSUME NEW at \in TaskPlaces, At(at) \/ task' = Idle
      PROVE  task' \in [at : TaskPlaces, in_strand : BOOLEAN]
  BY <1>1, <1>4 DEF At
<1>5. ASSUME NEW at \in CallbackPlaces, CallbackAt(at)
      PROVE  callback' \in [at : CallbackPlaces, prev_seq : Nat]
  BY <1>5 DEF CallbackAt
<1>6. CASE Bind \/ Started
  <2>1. CASE Bind
    BY <1>3, <2>1 DEF Bind
  <2>2. CASE Started
    BY <1>2, <1>3, <2>2 DEF Started
  <2> QED BY <1>6, <2>1, <2>2
<1>7. CASE Close
  <2>1. cc' \in TimerInfos
    BY <1>7, Stopped DEF Close
  <2>2. /\ life' = "closed" /\ recv' \in {recv, "error"} /\ sending_msg' \in {sending_msg, "error"}
        /\ faults' = faults + 1
        /\ UNCHANGED <<crew, kind, is_connected, send_buffer, sending, posts, task, kcp, callback, app, msgs>>
    BY <1>7 DEF Close
  <2> QED BY <1>3, <2>1, <2>2
<1>8. CASE SendEnds
  BY <1>3, <1>8 DEF SendEnds
<1>9. CASE BeginTask
  BY <1>3, <1>9 DEF BeginTask, TaskPlaces
<1>10. CASE TestEmpty
  <2>1. task' \in [at : TaskPlaces, in_strand : BOOLEAN] /\ sending' \in BOOLEAN
    BY <1>4, <1>10 DEF TestEmpty, Returns, TaskPlaces, EmptyCleared
  <2> QED BY <1>3, <1>10, <2>1 DEF TestEmpty
<1>11. CASE TestAndSet
  <2>1. task' \in [at : TaskPlaces, in_strand : BOOLEAN]
    BY <1>4, <1>11 DEF TestAndSet, Returns, TaskPlaces
  <2> QED BY <1>3, <1>11, <2>1 DEF TestAndSet
<1>12. CASE CheckSendCC
  <2>1. task' \in [at : TaskPlaces, in_strand : BOOLEAN]
    BY <1>4, <1>12 DEF CheckSendCC, TaskPlaces
  <2> QED BY <1>3, <1>12, <2>1 DEF CheckSendCC
<1>13. CASE SetTimer
  <2>1. task' \in [at : TaskPlaces, in_strand : BOOLEAN]
    BY <1>4, <1>13 DEF SetTimer, TaskPlaces
  <2>2. cc' \in TimerInfos
    BY <1>13 DEF SetTimer, TimerInfos
  <2> QED BY <1>3, <1>13, <2>1, <2>2 DEF SetTimer
<1>14. CASE StartTimer
  <2>1. task' \in [at : TaskPlaces, in_strand : BOOLEAN]
    BY <1>4, <1>14 DEF StartTimer, Returns, TaskPlaces
  <2>2. cc' \in TimerInfos
    BY <1>14, Rearmed, Wrapped DEF StartTimer
  <2> QED BY <1>3, <1>14, <2>1, <2>2 DEF StartTimer
<1>15. CASE Dequeue
  <2>1. task' \in [at : TaskPlaces, in_strand : BOOLEAN]
    BY <1>4, <1>15 DEF Dequeue, Returns, TaskPlaces
  <2>2. /\ send_buffer' \in Seq(1..MaxMsgs) /\ sending' \in BOOLEAN
        /\ sending_msg' \in {"none", "async", "posted", "ok", "error", "bad"}
    <3>1. send_buffer # <<>> => Tail(send_buffer) \in Seq(1..MaxMsgs)
      OBVIOUS
    <3> QED BY <1>15, <3>1 DEF Dequeue
  <2>3. kcp' \in [que : Nat, unacked : Nat, lost : Nat] /\ KcpSound'
    <3>1. CASE kcp' = kcp
      BY <1>3, <1>15, <3>1 DEF Dequeue
    <3>2. CASE kcp' = ikcp_send(kcp)
      <4> DEFINE k == [kcp EXCEPT !.que = @ + 1]
      <4>1. /\ k \in [que : Nat, unacked : Nat, lost : Nat]
            /\ k.unacked = kcp.unacked /\ k.lost = kcp.lost
        <5>1. kcp \in [que : Nat, unacked : Nat, lost : Nat]
          OBVIOUS
        <5> QED BY ONLY <5>1
      <4>2. kcp' = Flush(k)
        BY <3>2 DEF ikcp_send
      <4> HIDE DEF k
      <4>3. /\ kcp' \in [que : Nat, unacked : Nat, lost : Nat]
            /\ kcp'.unacked <= Window /\ kcp.unacked <= kcp'.unacked /\ kcp'.lost = kcp.lost
        BY <4>1, <4>2, Flushed DEF KcpSound
      <4> QED BY <1>15, <4>3 DEF KcpSound, Dequeue
    <3> QED BY <1>15, <3>1, <3>2 DEF Dequeue
  <2> QED BY <1>15, <2>1, <2>2, <2>3 DEF Dequeue
<1>16. CASE Again
  BY <1>1, <1>2, <1>3, <1>16 DEF Again
<1>17. CASE SendHandler
  <2>1. [at |-> "empty", in_strand |-> TRUE] \in [at : TaskPlaces, in_strand : BOOLEAN]
    BY DEF TaskPlaces
  <2>2. task' \in {task, [at |-> "empty", in_strand |-> TRUE]} /\ sending' \in {sending, FALSE}
    BY <1>17 DEF SendHandler
  <2> QED BY <1>3, <1>17, <2>1, <2>2 DEF SendHandler
<1>18. CASE RecvHandler
  <2>1. kcp' \in [que : Nat, unacked : Nat, lost : Nat] /\ KcpSound'
    <3>1. CASE recv # "ack"
      BY <1>3, <1>18, <3>1 DEF RecvHandler, Input
    <3>2. CASE recv = "ack"
      <4> DEFINE k == [kcp EXCEPT !.unacked = @ - 1]
      <4>1. /\ k \in [que : Nat, unacked : Nat, lost : Nat]
            /\ k.unacked <= Window /\ k.lost <= k.unacked
        <5>1. kcp.unacked - 1 \in Nat /\ kcp.unacked - 1 <= Window /\ kcp.lost <= kcp.unacked - 1
          BY <1>1, <3>2 DEF KcpSound
        <5> QED BY <5>1
      <4>2. kcp' = Flush(k)
        BY <1>18, <3>2 DEF RecvHandler, Input, ikcp_input
      <4>3. recv' # "ack"
        BY <1>18 DEF RecvHandler
      <4> HIDE DEF k
      <4> QED BY <4>1, <4>2, <4>3, Flushed DEF KcpSound
    <3> QED BY <3>1, <3>2
  <2> QED BY <1>18, <2>1 DEF RecvHandler
<1>19. CASE TimerDue
  <2>1. /\ cc.due \in Seq(Handlers) /\ cc.due # <<>> /\ cc' = [cc EXCEPT !.due = Tail(cc.due)]
        /\ cc \in TimerInfos
    BY <1>19 DEF TimerDue, TimerInfos
  <2>2. cc' \in TimerInfos
    <3>1. Tail(cc.due) \in Seq(Handlers)
      BY <2>1
    <3> QED BY <2>1, <3>1 DEF TimerInfos
  <2>3. callback' \in [at : CallbackPlaces, prev_seq : Nat]
    <3>1. Head(cc.due).prev_seq \in Nat
      <4>1. Head(cc.due) = cc.due[1] /\ 1 \in DOMAIN cc.due
        BY <2>1
      <4> QED BY <2>1, <4>1, DueTyped
    <3> QED BY <1>19, <3>1 DEF TimerDue, CallbackPlaces
  <2> QED BY <1>3, <1>19, <2>2, <2>3 DEF TimerDue
<1>20. CASE TestQue
  <2>1. cc' \in TimerInfos
    <3>1. cc' \in {cc, Wrap(Start(cc))}
      BY <1>20 DEF TestQue
    <3>2. Start(cc) \in TimerInfos
      BY Begun
    <3>3. Wrap(Start(cc)) \in TimerInfos
      BY <3>2, Wrapped
    <3> QED BY <3>1, <3>3
  <2>2. callback' \in [at : CallbackPlaces, prev_seq : Nat]
    BY <1>1, <1>5, <1>20 DEF TestQue, CallbackPlaces
  <2> QED BY <1>3, <1>20, <2>1, <2>2 DEF TestQue
<1>21. CASE ResumeClear
  <2>1. callback' \in [at : CallbackPlaces, prev_seq : Nat]
    BY <1>5, <1>21 DEF ResumeClear, CallbackPlaces
  <2>2. /\ sending' = FALSE
        /\ UNCHANGED <<life, is_connected, send_buffer, sending_msg, posts, task, kcp, cc, recv, envVars>>
        /\ UNCHANGED <<crew, kind>>
    BY <1>21 DEF ResumeClear
  <2> QED BY <1>3, <2>1, <2>2
<1>22. CASE ResumeSend
  <2>1. callback' \in [at : CallbackPlaces, prev_seq : Nat]
    BY <1>5, <1>22 DEF ResumeSend, CallbackPlaces
  <2> QED BY <1>2, <1>3, <1>22, <2>1 DEF ResumeSend, ResumeSendMsg
<1>23. CASE TestSeq
  <2>1. callback' \in [at : CallbackPlaces, prev_seq : Nat]
    BY <1>5, <1>23 DEF TestSeq, CallbackPlaces
  <2> QED BY <1>3, <1>23, <2>1 DEF TestSeq
<1>24. CASE CancelTimer
  <2>1. cc' \in TimerInfos
    BY <1>24 DEF CancelTimer, TimerInfos
  <2> QED BY <1>1, <1>3, <1>24, <2>1 DEF CancelTimer
<1>25. CASE Expire
  <2>1. Complete(cc, FALSE) \in TimerInfos
    BY Completed
  <2>2. cc' \in TimerInfos
    BY <1>25, <2>1 DEF Expire
  <2>3. UNCHANGED <<sendVars, kcp, recv, envVars>>
        /\ UNCHANGED <<life, is_connected, strandVars, callback>> /\ NotBuilt
    BY <1>25 DEF Expire
  <2> QED BY <1>3, <2>2, <2>3
<1>26. CASE RecvEnds
  BY <1>26 DEF RecvEnds, KcpSound
<1>27. CASE ResumeRecv
  BY <1>3, <1>27 DEF ResumeRecv
<1>28. CASE Lose
  <2>1. kcp' = [kcp EXCEPT !.lost = kcp.lost + 1] /\ kcp.lost < kcp.unacked /\ recv' = recv /\ recv # "ack"
    BY <1>28 DEF Lose
  <2>2. /\ kcp' \in [que : Nat, unacked : Nat, lost : Nat]
        /\ kcp'.unacked = kcp.unacked /\ kcp'.lost = kcp.lost + 1
    <3>1. kcp \in [que : Nat, unacked : Nat, lost : Nat] /\ kcp' = [kcp EXCEPT !.lost = kcp.lost + 1]
      BY <2>1
    <3> QED BY ONLY <3>1
  <2>3. KcpSound'
    <3>1. /\ kcp'.lost <= kcp'.unacked
          /\ kcp.unacked <= Window
      <4>1. kcp.lost \in Nat /\ kcp.unacked \in Nat /\ kcp.unacked <= Window
        BY DEF KcpSound
      <4> QED BY ONLY <2>1, <2>2, <4>1
    <3> QED BY <2>1, <2>2, <3>1 DEF KcpSound
  <2> QED BY <1>28, <2>2, <2>3 DEF Lose
<1>29. CASE KcpUpdate
  <2>1. /\ Flush(kcp) \in [que : Nat, unacked : Nat, lost : Nat]
        /\ Flush(kcp).unacked <= Window /\ kcp.unacked <= Flush(kcp).unacked
    BY Flushed DEF KcpSound
  <2>2. kcp' = [Flush(kcp) EXCEPT !.lost = 0] /\ kcp.lost > 0
    BY <1>29 DEF KcpUpdate
  <2>3. /\ kcp' \in [que : Nat, unacked : Nat, lost : Nat]
        /\ kcp'.unacked = Flush(kcp).unacked /\ kcp'.lost = 0
    BY <2>1, <2>2
  <2>4. KcpSound'
    <3>1. kcp'.unacked <= Window /\ kcp'.lost <= kcp'.unacked
      <4>1. Flush(kcp).unacked \in Nat
        BY <2>1
      <4> QED BY ONLY <2>1, <2>3, <4>1
    <3>2. 0 < kcp.unacked
      <4>1. kcp.lost \in Nat /\ kcp.unacked \in Nat /\ kcp.lost <= kcp.unacked
        BY DEF KcpSound
      <4> QED BY ONLY <2>2, <4>1
    <3>3. recv' = recv /\ (recv = "ack" => kcp.lost < kcp.unacked)
      BY <1>29 DEF KcpUpdate, KcpSound
    <3>4. kcp'.lost < kcp'.unacked
      <4>1. kcp.unacked \in Nat /\ Flush(kcp).unacked \in Nat
        BY <2>1
      <4> QED BY ONLY <2>1, <2>3, <3>2, <4>1
    <3> QED BY <3>1, <3>3, <3>4 DEF KcpSound
  <2> QED BY <1>29, <2>3, <2>4 DEF KcpUpdate
<1>30. ASSUME NEW a \in Apps, Enqueue(a) \/ Send(a) PROVE TypeOK' /\ KcpSound'
  <2>1. CASE Enqueue(a)
    <3>1. msgs + 1 \in 1..MaxMsgs /\ msgs' = msgs + 1 /\ send_buffer' = Append(send_buffer, msgs + 1)
      BY <1>1, <2>1 DEF Enqueue
    <3>2. msgs' \in 0..MaxMsgs /\ send_buffer' \in Seq(1..MaxMsgs)
      BY <3>1
    <3> QED BY <1>3, <2>1, <3>2 DEF Enqueue
  <2>2. CASE Send(a)
    BY <1>2, <1>3, <2>2 DEF Send
  <2> QED BY <1>30, <2>1, <2>2
<1>31. CASE UNCHANGED vars
  BY <1>3, <1>31 DEF vars
<1> QED
  BY <1>6, <1>7, <1>8, <1>9, <1>10, <1>11, <1>12, <1>13, <1>14, <1>15, <1>16, <1>17, <1>18, <1>19,
     <1>20, <1>21, <1>22, <1>23, <1>24, <1>25, <1>26, <1>27, <1>28, <1>29, <1>30, <1>31
     DEF Next, Threads, Strand, Callback

(* Every variable keeps its type.                                            *)
THEOREM TypeCorrect == Spec => [](TypeOK /\ KcpSound)
BY TypeInit, TypeNext, PTL DEF Spec

-----------------------------------------------------------------------------
(* One datagram at a time.                                                   *)

LEMMA OwnedInit == Init => Owned
<1> SUFFICES ASSUME Init PROVE Owned
  OBVIOUS
<1>1. ~Fires(cc) /\ FiresOnce(cc)
  BY DEF Init, NewTimer, Fires, FiresOnce
<1> QED BY <1>1 DEF Init, Owned, Once, Sole, TaskOwns, TimerHas, DatagramOut, Running, Idle, NoCallback

(* Who has the flag when it passes on, and when it does not.                 *)
LEMMA OwnedNext == TypeOK /\ Owned /\ [Next]_vars => Owned'
<1> SUFFICES ASSUME TypeOK, Owned, [Next]_vars PROVE Once' /\ Sole'
  BY DEF Owned
<1> USE DEF sendVars, strandVars, timerVars, envVars, TaskVars, CallbackVars, NotBuilt
<1>1. /\ Once /\ Sole /\ cc \in TimerInfos /\ FiresOnce(cc)
      /\ task \in [at : TaskPlaces, in_strand : BOOLEAN]
      /\ callback \in [at : CallbackPlaces, prev_seq : Nat]
  BY DEF Owned, Once, TypeOK
<1>2. ASSUME cc' = cc, Running' => Running PROVE Once' /\ (TimerHas' => TimerHas)
  BY <1>1, <1>2 DEF Once, TimerHas
(* Nobody gets the flag.                                                     *)
<1>3. ASSUME Once', TimerHas' => TimerHas, DatagramOut' => DatagramOut, TaskOwns' => TaskOwns,
             \/ sending' = sending
             \/ ~TimerHas' /\ ~DatagramOut' /\ ~TaskOwns'
      PROVE  Once' /\ Sole'
  BY <1>1, <1>3 DEF Sole
<1>4. ASSUME NEW at, At(at) PROVE task'.at = at /\ task'.in_strand = task.in_strand
  BY <1>1, <1>4 DEF At
<1>5. ASSUME NEW at, CallbackAt(at) PROVE callback'.at = at
  BY <1>1, <1>5 DEF CallbackAt
<1>6. ~(Idle.at \in {"cc", "set_timer", "start_timer", "dequeue"}) /\ Idle.at # "empty"
  BY DEF Idle
<1>7. CASE Bind \/ Started \/ (\E a \in Apps : Enqueue(a) \/ Send(a))
           \/ RecvEnds \/ ResumeRecv \/ Lose \/ KcpUpdate \/ RecvHandler \/ UNCHANGED vars
  <2>1. UNCHANGED <<cc, callback, task, sending, sending_msg>>
    BY <1>7 DEF Bind, Started, Enqueue, Send, RecvEnds, ResumeRecv, Lose, KcpUpdate, RecvHandler, vars
  <2> QED BY <1>2, <1>3, <2>1 DEF Running, DatagramOut, TaskOwns
<1>8. CASE ResumeSend \/ TestSeq
  <2>1. UNCHANGED <<cc, task, sending, sending_msg>> /\ ~Running'
    BY <1>5, <1>8 DEF ResumeSend, TestSeq, Running
  <2> QED BY <1>2, <1>3, <2>1 DEF DatagramOut, TaskOwns
<1>9. CASE Again \/ BeginTask
  <2>1. UNCHANGED <<cc, callback, sending, sending_msg>> /\ ~TaskOwns'
    BY <1>6, <1>9 DEF Again, BeginTask, TaskOwns
  <2> QED BY <1>2, <1>3, <2>1 DEF Running, DatagramOut
<1>10. CASE Close
  <2>1. cc' = Stop(cc) /\ UNCHANGED <<callback, task, sending>>
        /\ (DatagramOut' => DatagramOut)
    BY <1>10 DEF Close, DatagramOut
  <2>2. FiresOnce(cc') /\ (Fires(cc') => Fires(cc))
    BY <1>1, <2>1, StoppedFires
  <2>3. Once' /\ (TimerHas' => TimerHas)
    BY <1>1, <2>1, <2>2 DEF Once, TimerHas, Running
  <2> QED BY <1>3, <2>1, <2>3 DEF TaskOwns
<1>11. CASE SendEnds
  <2>1. UNCHANGED <<cc, callback, task, sending>> /\ DatagramOut
    BY <1>11 DEF SendEnds, DatagramOut
  <2> QED BY <1>2, <1>3, <2>1 DEF Running, TaskOwns
<1>12. CASE TestEmpty
  <2>1. UNCHANGED <<cc, callback, sending_msg>> /\ task.at = "empty"
    BY <1>12 DEF TestEmpty
  <2>2. CASE send_buffer = <<>> /\ task.in_strand
    <3>1. ~TaskOwns' /\ TaskOwns
      <4>1. At("again")
        BY <1>12, <2>2 DEF TestEmpty, Returns
      <4>2. task'.at = "again"
        BY <1>4, <4>1
      <4> QED BY <2>1, <2>2, <4>2 DEF TaskOwns
    <3>2. ~TimerHas' /\ ~DatagramOut'
      BY <1>1, <1>2, <2>1, <3>1 DEF Sole, Running, DatagramOut
    <3> QED BY <1>2, <1>3, <2>1, <3>1, <3>2 DEF Running
  <2>3. CASE ~(send_buffer = <<>> /\ task.in_strand)
    <3>1. sending' = sending
      BY <1>12, <2>3 DEF TestEmpty, EmptyCleared
    <3>2. TaskOwns' => TaskOwns
      <4>1. CASE send_buffer = <<>>
        BY <1>6, <1>12, <2>3, <4>1 DEF TestEmpty, Returns, TaskOwns
      <4>2. CASE send_buffer # <<>> /\ task.in_strand
        BY <2>1, <4>2 DEF TaskOwns
      <4>3. CASE send_buffer # <<>> /\ ~task.in_strand
        <5>1. At("test_and_set")
          BY <1>12, <4>3 DEF TestEmpty
        <5> QED BY <1>4, <5>1 DEF TaskOwns
      <4> QED BY <4>1, <4>2, <4>3
    <3> QED BY <1>2, <1>3, <2>1, <3>1, <3>2 DEF Running, DatagramOut
  <2> QED BY <2>2, <2>3
<1>13. CASE TestAndSet
  <2>1. UNCHANGED <<cc, callback, sending_msg>> /\ sending'
    BY <1>13 DEF TestAndSet
  <2>2. CASE sending
    <3>1. ~TaskOwns'
      BY <1>6, <1>13, <2>2 DEF TestAndSet, Returns, TaskOwns
    <3> QED BY <1>1, <1>2, <2>1, <3>1 DEF Sole, Running, DatagramOut
  <2>3. CASE ~sending
    BY <1>1, <1>2, <2>1, <2>3 DEF Sole, Running, DatagramOut
  <2> QED BY <2>2, <2>3
<1>14. CASE CheckSendCC
  <2>1. UNCHANGED <<cc, callback, sending_msg, sending>> /\ TaskOwns
    BY <1>14 DEF CheckSendCC, TaskOwns
  <2> QED BY <1>2, <1>3, <2>1 DEF Running, DatagramOut
<1>15. CASE SetTimer
  <2>1. UNCHANGED <<callback, sending_msg, sending>> /\ TaskOwns /\ cc' = [cc EXCEPT !.status = "STARTED"]
    BY <1>15 DEF SetTimer, TaskOwns
  <2>2. cc'.wait = cc.wait /\ cc'.due = cc.due
    BY <1>1, <2>1 DEF TimerInfos
  <2>3. Once' /\ (TimerHas' => TimerHas)
    BY <1>1, <2>1, <2>2 DEF Once, TimerHas, Running, Fires, FiresOnce
  <2> QED BY <1>3, <2>1, <2>3 DEF DatagramOut
<1>16. CASE StartTimer
  <2>1. UNCHANGED <<callback, sending_msg, sending>> /\ TaskOwns /\ cc' = Wrap(Rearm(cc)) /\ Returns(FALSE)
    BY <1>16 DEF StartTimer, TaskOwns
  <2>2. ~TimerHas /\ ~DatagramOut /\ sending
    BY <1>1, <2>1 DEF Sole
  <2>3. cc'.wait /\ cc'.due = cc.due
    <3>1. Rearm(cc) \in TimerInfos /\ Rearm(cc).wait /\ Rearm(cc).due = cc.due
      BY <1>1, <2>2, Rearmed DEF TimerHas, Fires
    <3> QED BY <2>1, <3>1, Wrapped
  <2>4. Once'
    BY <2>1, <2>2, <2>3 DEF Once, TimerHas, Running, Fires, FiresOnce
  <2>5. ~TaskOwns'
    BY <1>4, <1>6, <2>1 DEF Returns, TaskOwns
  <2> QED BY <2>1, <2>2, <2>4, <2>5 DEF Sole, DatagramOut
<1>17. CASE Dequeue
  <2>1. UNCHANGED <<cc, callback>> /\ TaskOwns
    BY <1>17 DEF Dequeue, TaskOwns
  <2>2. ~TimerHas /\ ~DatagramOut /\ sending
    BY <1>1, <2>1 DEF Sole
  <2>3. ~TaskOwns'
    BY <1>4, <1>6, <1>17 DEF Dequeue, Returns, TaskOwns
  <2>4. ~DatagramOut' \/ sending'
    BY <1>17, <2>2 DEF Dequeue, DatagramOut
  <2> QED BY <1>2, <2>1, <2>2, <2>3, <2>4 DEF Sole, Running
<1>18. CASE SendHandler
  <2>1. UNCHANGED <<cc, callback>> /\ DatagramOut /\ ~DatagramOut'
    BY <1>18 DEF SendHandler, DatagramOut
  <2>2. ~TimerHas /\ ~TaskOwns /\ sending
    BY <1>1, <2>1 DEF Sole
  <2>3. ~TaskOwns' \/ sending'
    BY <1>18, <2>2 DEF SendHandler, TaskOwns
  <2> QED BY <1>2, <2>1, <2>2, <2>3 DEF Sole, Running
<1>19. CASE TimerDue
  <2>1. /\ UNCHANGED <<task, sending, sending_msg>> /\ cc.due # <<>> /\ ~Running
        /\ cc' = [cc EXCEPT !.due = Tail(cc.due)]
        /\ callback'.at = IF cc.status = "STARTED" /\ ~Head(cc.due).cancelled THEN "que" ELSE "false"
    BY <1>19 DEF TimerDue, Running
  <2>2. /\ FiresOnce(cc') /\ (Fires(cc') => Fires(cc))
        /\ ~Head(cc.due).cancelled => Fires(cc) /\ ~Fires(cc')
    BY <1>1, <2>1, BegunFires
  <2>3. Once' /\ (TimerHas' => TimerHas)
    BY <2>1, <2>2 DEF Once, TimerHas, Running
  <2> QED BY <1>3, <2>1, <2>3 DEF DatagramOut, TaskOwns
<1>20. CASE TestQue
  <2>1. UNCHANGED <<task, sending, sending_msg>> /\ Running
    BY <1>20 DEF TestQue, Running
  <2>2. ~Fires(cc)
    BY <1>1, <2>1 DEF Once
  <2>3. CASE cc' = cc
    BY <1>2, <1>3, <2>1, <2>3 DEF DatagramOut, TaskOwns
  <2>4. CASE cc' # cc
    <3>1. cc' = Wrap(Start(cc)) /\ ~Running'
      BY <1>20, <2>4 DEF TestQue, Running, NoCallback
    <3>2. Start(cc) \in TimerInfos /\ Start(cc).wait /\ Start(cc).due = cc.due
      BY <1>1, <2>2, Begun DEF Fires
    <3>3. cc'.wait /\ cc'.due = cc.due
      BY <3>1, <3>2, Wrapped
    <3>4. Once'
      BY <2>2, <3>1, <3>3 DEF Once, Fires, FiresOnce
    <3> QED BY <1>3, <2>1, <3>4 DEF TimerHas, DatagramOut, TaskOwns
  <2> QED BY <2>3, <2>4
<1>21. CASE ResumeClear
  <2>1. UNCHANGED <<task, cc, sending_msg>> /\ Running /\ ~Running'
    BY <1>5, <1>21 DEF ResumeClear, Running
  <2>2. ~Fires(cc) /\ ~TaskOwns /\ ~DatagramOut
    BY <1>1, <2>1 DEF Once, Sole, TimerHas
  <2>3. ~TimerHas'
    BY <2>1, <2>2 DEF TimerHas
  <2> QED BY <1>2, <1>3, <2>1, <2>2, <2>3 DEF DatagramOut, TaskOwns
<1>22. CASE CancelTimer
  <2>1. UNCHANGED <<task, sending, sending_msg>> /\ ~Running' /\ cc' = [cc EXCEPT !.status = "CANCELED"]
    BY <1>22 DEF CancelTimer, Running, NoCallback
  <2>2. cc'.wait = cc.wait /\ cc'.due = cc.due
    BY <1>1, <2>1 DEF TimerInfos
  <2>3. Once' /\ (TimerHas' => TimerHas)
    BY <1>1, <2>1, <2>2 DEF Once, TimerHas, Fires, FiresOnce
  <2> QED BY <1>3, <2>1, <2>3 DEF DatagramOut, TaskOwns
<1>23. CASE Expire
  <2>1. UNCHANGED <<task, callback, sending, sending_msg>> /\ cc.wait /\ cc' = Complete(cc, FALSE)
    BY <1>23 DEF Expire
  <2>2. FiresOnce(cc') /\ Fires(cc)
    BY <1>1, <2>1, ExpiredFires DEF Fires
  <2>3. Once' /\ (TimerHas' => TimerHas)
    BY <1>1, <2>1, <2>2 DEF Once, TimerHas, Running
  <2> QED BY <1>3, <2>1, <2>3 DEF DatagramOut, TaskOwns
<1> QED
  BY <1>7, <1>8, <1>9, <1>10, <1>11, <1>12, <1>13, <1>14, <1>15, <1>16, <1>17, <1>18, <1>19,
     <1>20, <1>21, <1>22, <1>23
     DEF Next, Threads, Strand, Callback

LEMMA OwnerIs ==
    /\ "task" \in Owners <=> TaskOwns
    /\ "datagram" \in Owners <=> DatagramOut
    /\ "timer" \in Owners <=> TimerComes
    /\ \A w \in Owners : w \in {"task", "datagram", "timer"}
BY DEF Owners, DatagramOut

(* One datagram at a time, in every build and with any number of threads:    *)
(* do_send_msg, the datagram under way and TIMER_CC never own the sending    *)
(* flag together, and nobody owns it while it is not set.                    *)
THEOREM DatagramsAlone == Spec => []SendAlone
<1>1. Owned => SendAlone
  <2> SUFFICES ASSUME Owned PROVE SendAlone
    OBVIOUS
  <2>1. TimerComes => TimerHas
    BY DEF TimerComes, TimerHas, Running, Fires
  <2> QED BY <2>1, OwnerIs DEF Owned, Sole, SendAlone
<1> QED BY TypeInit, TypeNext, OwnedInit, OwnedNext, <1>1, PTL DEF Spec

-----------------------------------------------------------------------------
(* Congestion keeps its timer.                                               *)

LEMMA TimedInit == Init => Timed
<1> SUFFICES ASSUME Init PROVE Calm
  BY DEF Timed
<1>1. ~TimerHas
  BY DEF Init, NewTimer, TimerHas, Running, Fires, NoCallback
<1> QED BY <1>1, SeqAssumption DEF Init, Calm, NewTimer, Idle, NoCallback

(* Two starts in a row have different numbers.                               *)
LEMMA NextDiffers ==
    ASSUME SeqMod > 1, NEW n \in Nat, n < SeqMod
    PROVE  n % SeqMod # ((n + 1) % SeqMod) % SeqMod
<1>1. SeqMod \in Nat
  BY SeqAssumption
<1>2. n % SeqMod = n
  BY <1>1
<1>3. CASE n + 1 = SeqMod
  <2>1. (n + 1) % SeqMod = 0 /\ 0 % SeqMod = 0
    BY <1>1, <1>3
  <2> QED BY <1>1, <1>2, <1>3, <2>1
<1>4. CASE n + 1 < SeqMod
  <2>1. (n + 1) % SeqMod = n + 1
    BY <1>1, <1>4
  <2> QED BY <1>1, <1>2, <2>1
<1> QED BY <1>1, <1>3, <1>4

LEMMA TimedNext ==
    ASSUME SeqMod > 1
    PROVE  TypeOK /\ Owned /\ Timed /\ [Next]_vars => Timed'
<1> SUFFICES ASSUME TypeOK, Owned, Timed, [Next]_vars, crew' = 1, life' # "closed" PROVE Calm'
  BY DEF Timed
<1> USE DEF sendVars, strandVars, timerVars, envVars, TaskVars, CallbackVars, NotBuilt
<1>1. /\ Once /\ Sole /\ cc \in TimerInfos /\ FiresOnce(cc) /\ cc.seq \in Nat
      /\ cc.due \in Seq(Handlers)
      /\ task \in [at : TaskPlaces, in_strand : BOOLEAN]
      /\ callback \in [at : CallbackPlaces, prev_seq : Nat]
  BY DEF Owned, Once, TypeOK, TimerInfos
<1>2. Once' /\ Sole'
  BY OwnedNext DEF Owned
<1>3. crew = 1 /\ life # "closed"
  BY DEF Next, Threads, Strand, Callback, Bind, Started, Close, Enqueue, Send, SendEnds, BeginTask,
         TestEmpty, TestAndSet, CheckSendCC, SetTimer, StartTimer, Dequeue, Again, SendHandler,
         RecvHandler, TimerDue, TestQue, ResumeClear, ResumeSend, TestSeq, CancelTimer, Expire,
         RecvEnds, ResumeRecv, Lose, KcpUpdate, vars
<1>4. Calm
  BY <1>3 DEF Timed
<1>5. ASSUME NEW at, At(at) PROVE task'.at = at /\ task'.in_strand = task.in_strand
  BY <1>1, <1>5 DEF At
<1>6. ASSUME NEW at, CallbackAt(at) PROVE callback'.at = at /\ callback'.prev_seq = callback.prev_seq
  BY <1>1, <1>6 DEF CallbackAt
<1>7. Idle.at = "idle" /\ NoCallback.at = "none" /\ NoCallback.prev_seq = 0 /\ 0 < SeqMod
  BY SeqAssumption DEF Idle, NoCallback
(* The one thread runs one thing, but what is dispatched by the callback.    *)
<1>8. /\ ThreadFree => callback.at = "end" \/ (callback.at = "none" /\ task.at = "idle")
      /\ task.at # "idle" \/ StrandFree => callback.at \in {"none", "end"}
  BY <1>1, <1>3, <1>4 DEF ThreadFree, StrandFree, Occupied, Calm
<1>9. ASSUME cc' = cc, callback' = callback PROVE TimerHas' <=> TimerHas
  BY <1>9 DEF TimerHas, Running
(* A step that neither the task nor the callback takes.                      *)
<1>10. ASSUME UNCHANGED <<cc, callback, task, sending>>, DatagramOut' <=> DatagramOut PROVE Calm'
  <2>1. (TimerHas' <=> TimerHas) /\ (TaskOwns' <=> TaskOwns)
    BY <1>9, <1>10 DEF TaskOwns
  <2> QED BY <1>4, <1>10, <2>1 DEF Calm
(* A step of the task that leaves the timer alone.                           *)
<1>11. ASSUME UNCHANGED <<cc, callback>>, task.at # "idle" \/ StrandFree, task'.at # "start_timer",
              sending' => TaskOwns' \/ DatagramOut' \/ TimerHas
       PROVE  Calm'
  <2>1. (TimerHas' <=> TimerHas) /\ callback.at \in {"none", "end"}
    BY <1>8, <1>9, <1>11
  <2> QED BY <1>4, <1>11, <2>1 DEF Calm
<1>12. CASE Bind \/ Started \/ (\E a \in Apps : Enqueue(a) \/ Send(a)) \/ SendEnds
            \/ RecvEnds \/ ResumeRecv \/ Lose \/ KcpUpdate \/ RecvHandler \/ UNCHANGED vars
  <2>1. UNCHANGED <<cc, callback, task, sending>> /\ (DatagramOut' <=> DatagramOut)
    BY <1>12 DEF Bind, Started, Enqueue, Send, SendEnds, RecvEnds, ResumeRecv, Lose, KcpUpdate,
                 RecvHandler, vars, DatagramOut
  <2> QED BY <1>10, <2>1
<1>13. CASE Close
  BY <1>13 DEF Close
<1>14. CASE BeginTask
  <2>1. /\ UNCHANGED <<cc, callback, sending, sending_msg>> /\ StrandFree /\ ~TaskOwns
        /\ task'.at = "empty"
    BY <1>14 DEF BeginTask, TaskOwns, StrandFree
  <2> QED BY <1>4, <1>11, <2>1 DEF Calm, DatagramOut
<1>15. CASE TestEmpty
  <2>1. UNCHANGED <<cc, callback, sending_msg>> /\ task.at = "empty" /\ sending' \in {sending, FALSE}
    BY <1>15 DEF TestEmpty, EmptyCleared
  <2>2. CASE send_buffer = <<>>
    <3>1. task'.at \in {"again", "idle"} /\ (task.in_strand => ~sending')
      BY <1>5, <1>7, <1>15, <2>2 DEF TestEmpty, Returns, EmptyCleared
    <3> QED BY <1>4, <1>11, <2>1, <3>1 DEF Calm, DatagramOut, TaskOwns
  <2>3. CASE send_buffer # <<>>
    <3>1. task'.at = IF task.in_strand THEN "cc" ELSE "test_and_set"
      BY <1>5, <1>15, <2>3 DEF TestEmpty
    <3> QED BY <1>4, <1>11, <2>1, <3>1 DEF Calm, DatagramOut, TaskOwns
  <2> QED BY <2>2, <2>3
<1>16. CASE TestAndSet
  <2>1. UNCHANGED <<cc, callback, sending_msg>> /\ task.at = "test_and_set" /\ ~TaskOwns
    BY <1>16 DEF TestAndSet, TaskOwns
  <2>2. task'.at = IF sending THEN "idle" ELSE "cc"
    BY <1>5, <1>7, <1>16 DEF TestAndSet, Returns
  <2> QED BY <1>4, <1>11, <2>1, <2>2 DEF Calm, DatagramOut, TaskOwns
<1>17. CASE CheckSendCC
  <2>1. UNCHANGED <<cc, callback>> /\ task.at = "cc" /\ task'.at \in {"set_timer", "dequeue"}
    BY <1>5, <1>17 DEF CheckSendCC
  <2> QED BY <1>11, <2>1 DEF TaskOwns
<1>18. CASE SetTimer
  <2>1. /\ UNCHANGED <<callback, sending>> /\ task.at = "set_timer" /\ task'.at = "start_timer"
        /\ cc' = [cc EXCEPT !.status = "STARTED"]
    BY <1>5, <1>18 DEF SetTimer
  <2>2. cc'.wait = cc.wait /\ cc'.due = cc.due /\ cc'.status = "STARTED" /\ cc'.seq = cc.seq
    BY <1>1, <2>1 DEF TimerInfos
  <2>3. (TimerHas' <=> TimerHas) /\ TaskOwns' /\ callback.at \in {"none", "end"}
    BY <1>8, <2>1, <2>2 DEF TimerHas, Running, Fires, TaskOwns
  <2> QED BY <1>4, <2>1, <2>2, <2>3 DEF Calm
<1>19. CASE StartTimer
  <2>1. /\ UNCHANGED <<callback, sending>> /\ task.at = "start_timer" /\ TaskOwns
        /\ task'.at \in {"again", "idle"} /\ cc' = Wrap(Rearm(cc))
    BY <1>5, <1>7, <1>19 DEF StartTimer, Returns, TaskOwns
  <2>2. ~TimerHas /\ cc.status = "STARTED" /\ callback.at \in {"none", "end"}
    BY <1>1, <1>4, <1>8, <2>1 DEF Sole, Calm
  <2>3. /\ Rearm(cc) \in TimerInfos /\ Rearm(cc).wait /\ Rearm(cc).due = cc.due
        /\ Rearm(cc).status = "STARTED" /\ Rearm(cc).seq = cc.seq + 1
    BY <1>1, <2>2, Rearmed DEF TimerHas, Fires
  <2>4. /\ cc'.wait /\ cc'.due = cc.due /\ cc'.status = "STARTED" /\ cc'.seq = (cc.seq + 1) % SeqMod
        /\ cc'.seq < SeqMod
    BY <2>1, <2>3, Wrapped
  <2>5. TimerHas' /\ DOMAIN cc.due = {}
    BY <1>4, <2>2, <2>4 DEF TimerHas, Fires, Calm
  <2>6. callback.at = "end" => cc.seq = callback.prev_seq
    BY <1>4, <2>2 DEF Calm
  <2> QED BY <1>4, <2>1, <2>2, <2>4, <2>5, <2>6 DEF Calm
<1>20. CASE Dequeue
  <2>1. /\ UNCHANGED <<cc, callback>> /\ task.at = "dequeue" /\ task'.at \in {"again", "idle"}
        /\ sending' => DatagramOut'
    BY <1>5, <1>7, <1>20 DEF Dequeue, Returns, DatagramOut
  <2> QED BY <1>11, <2>1
<1>21. CASE Again
  <2>1. UNCHANGED <<cc, callback, sending, sending_msg>> /\ task.at = "again" /\ task'.at = "idle"
    BY <1>7, <1>21 DEF Again
  <2> QED BY <1>4, <1>11, <2>1 DEF Calm, TaskOwns, DatagramOut
<1>22. CASE SendHandler
  <2>1. /\ UNCHANGED <<cc, callback>> /\ StrandFree /\ task'.at # "start_timer"
        /\ sending' => TaskOwns'
    BY <1>22 DEF SendHandler, StrandFree, TaskOwns
  <2> QED BY <1>11, <2>1
<1>23. CASE TimerDue
  <2>1. /\ UNCHANGED <<task, sending, sending_msg>> /\ cc.due # <<>> /\ task.at = "idle"
        /\ cc' = [cc EXCEPT !.due = Tail(cc.due)] /\ callback.at = "none"
        /\ callback'.at = IF cc.status = "STARTED" /\ ~Head(cc.due).cancelled THEN "que" ELSE "false"
        /\ callback'.prev_seq = Head(cc.due).prev_seq
    BY <1>8, <1>23 DEF TimerDue
  <2>2. /\ cc'.seq = cc.seq /\ cc'.status = cc.status
        /\ 1 \in DOMAIN cc.due /\ Head(cc.due) = cc.due[1]
        /\ ~Head(cc.due).cancelled => Fires(cc) /\ ~Fires(cc')
        /\ \A i \in DOMAIN cc'.due : i + 1 \in DOMAIN cc.due /\ cc'.due[i] = cc.due[i + 1]
    BY <1>1, <2>1, BegunFires
  <2>3. \A i \in DOMAIN cc.due : ~cc.due[i].cancelled /\ cc.due[i].prev_seq = cc.seq
    BY <1>4 DEF Calm
  <2>4. cc.status = "STARTED"
    BY <1>4, <2>2, <2>3 DEF Calm, TimerHas
  <2>5. callback'.at = "que" /\ callback'.prev_seq = cc.seq
    BY <2>1, <2>2, <2>3, <2>4
  <2>6. TimerHas'
    BY <2>5 DEF TimerHas, Running
  <2>7. \A i \in DOMAIN cc'.due : ~cc'.due[i].cancelled /\ cc'.due[i].prev_seq = cc'.seq
    BY <2>2, <2>3
  <2> QED BY <1>4, <2>1, <2>2, <2>4, <2>5, <2>6, <2>7 DEF Calm
<1>24. CASE TestQue
  <2>1. UNCHANGED <<task, sending, sending_msg>> /\ callback.at = "que" /\ task.at = "idle"
    BY <1>4, <1>24 DEF TestQue, Calm
  <2>2. ~Fires(cc) /\ TimerHas /\ cc.status = "STARTED" /\ cc.seq = callback.prev_seq
    BY <1>1, <1>4, <2>1 DEF Once, Running, TimerHas, Calm
  <2>3. CASE ~StillCongested
    <3>1. cc' = cc /\ callback'.at = "resume" /\ callback'.prev_seq = callback.prev_seq
      BY <1>6, <1>24, <2>3 DEF TestQue
    <3>2. TimerHas'
      BY <3>1 DEF TimerHas, Running
    <3> QED BY <1>4, <2>1, <2>2, <3>1, <3>2 DEF Calm
  <2>4. CASE StillCongested
    <3>1. cc' = Wrap(Start(cc)) /\ callback' = NoCallback
      BY <1>24, <2>2, <2>4 DEF TestQue
    <3>2. /\ Start(cc) \in TimerInfos /\ Start(cc).wait /\ Start(cc).due = cc.due
          /\ Start(cc).status = "STARTED"
      BY <1>1, <2>2, Begun DEF Fires
    <3>3. cc'.wait /\ cc'.due = cc.due /\ cc'.status = "STARTED" /\ cc'.seq < SeqMod
      BY <3>1, <3>2, Wrapped
    <3>4. TimerHas' /\ DOMAIN cc.due = {}
      BY <1>4, <2>2, <3>3 DEF TimerHas, Fires, Calm
    <3> QED BY <1>7, <2>1, <3>1, <3>3, <3>4 DEF Calm
  <2> QED BY <2>3, <2>4
<1>25. CASE ResumeClear
  <2>1. /\ UNCHANGED <<task, cc>> /\ callback.at = "resume" /\ task.at = "idle" /\ ~sending'
        /\ callback'.at = "send" /\ callback'.prev_seq = callback.prev_seq
    BY <1>4, <1>6, <1>25 DEF ResumeClear, Calm
  <2>2. ~TimerHas' /\ cc.seq = callback.prev_seq
    BY <1>1, <1>4, <2>1 DEF Once, Running, TimerHas, Calm
  <2> QED BY <1>4, <2>1, <2>2 DEF Calm
<1>26. CASE ResumeSend
  <2>1. /\ UNCHANGED <<task, cc, sending, sending_msg>> /\ callback.at = "send"
        /\ callback'.at = "end" /\ callback'.prev_seq = callback.prev_seq
    BY <1>6, <1>26 DEF ResumeSend
  <2>2. ~TimerHas /\ ~TimerHas' /\ cc.seq = callback.prev_seq
    BY <1>4, <2>1 DEF Running, TimerHas, Calm
  <2> QED BY <1>4, <2>1, <2>2 DEF Calm, TaskOwns, DatagramOut
<1>27. CASE TestSeq
  <2>1. /\ UNCHANGED <<task, cc, sending, sending_msg>> /\ callback.at = "end" /\ task.at = "idle"
        /\ callback'.at = IF SameSeq(cc, callback.prev_seq) THEN "cancel" ELSE "none"
        /\ callback'.prev_seq = callback.prev_seq
    BY <1>3, <1>4, <1>6, <1>27 DEF TestSeq, Calm
  <2>2. TimerHas' <=> TimerHas
    BY <2>1 DEF TimerHas, Running
  <2>3. SameSeq(cc, callback.prev_seq) => ~TimerHas
    <3>1. TimerHas => cc.seq = (callback.prev_seq + 1) % SeqMod
      BY <1>4, <2>1 DEF Calm
    <3>2. callback.prev_seq \in Nat /\ callback.prev_seq < SeqMod
      BY <1>1, <1>4 DEF Calm
    <3> QED BY <3>1, <3>2, NextDiffers DEF SameSeq
  <2> QED BY <1>4, <2>1, <2>2, <2>3 DEF Calm, TaskOwns, DatagramOut
<1>28. CASE CancelTimer
  <2>1. /\ UNCHANGED <<task, sending, sending_msg>> /\ callback' = NoCallback /\ callback.at = "cancel"
        /\ cc' = [cc EXCEPT !.status = "CANCELED"]
    BY <1>28 DEF CancelTimer
  <2>2. cc'.wait = cc.wait /\ cc'.due = cc.due /\ cc'.seq = cc.seq
    BY <1>1, <2>1 DEF TimerInfos
  <2>3. ~TimerHas /\ ~TimerHas' /\ task.at = "idle"
    BY <1>4, <1>7, <2>1, <2>2 DEF Calm, TimerHas, Running, Fires
  <2> QED BY <1>4, <1>7, <2>1, <2>2, <2>3 DEF Calm, TaskOwns, DatagramOut
<1>29. CASE Expire
  <2>1. UNCHANGED <<task, callback, sending, sending_msg>> /\ cc.wait /\ cc' = Complete(cc, FALSE)
    BY <1>29 DEF Expire
  <2>2. Fires(cc') /\ TimerHas /\ TimerHas' /\ cc'.seq = cc.seq /\ cc'.status = cc.status
    BY <1>1, <2>1, ExpiredFires, Completed DEF TimerHas, Fires
  <2>3. \A i \in DOMAIN cc'.due : ~cc'.due[i].cancelled /\ cc'.due[i].prev_seq = cc.seq
    BY <1>1, <1>4, <2>1, ExpiredFires DEF Calm
  <2> QED BY <1>4, <2>1, <2>2, <2>3 DEF Calm
<1> QED
  BY <1>12, <1>13, <1>14, <1>15, <1>16, <1>17, <1>18, <1>19, <1>20, <1>21, <1>22, <1>23, <1>24,
     <1>25, <1>26, <1>27, <1>28, <1>29
     DEF Next, Threads, Strand, Callback

(* With one service thread, a socket that stays in the sending state has     *)
(* somebody to end it: congestion never loses TIMER_CC.                      *)
THEOREM CongestionEnds ==
    ASSUME SeqMod > 1
    PROVE  Spec => []CongestionTimed
<1>1. Owned /\ Timed => CongestionTimed
  <2> SUFFICES ASSUME Calm, sending PROVE Owners # {}
    BY DEF Timed, CongestionTimed, Open
  <2>1. TimerHas => TimerComes
    BY DEF Calm, TimerHas, TimerComes, Running, Fires
  <2> QED BY <2>1, OwnerIs DEF Calm
<1> QED BY TypeInit, TypeNext, OwnedInit, OwnedNext, TimedInit, TimedNext, <1>1, PTL DEF Spec
=============================================================================
