----------------------------- MODULE UdpSocket -----------------------------
(***************************************************************************)
(* udp::socket and udp::reliable_socket (KCP): do_start, the sending half  *)
(* under the sending flag, the congestion control that keeps the flag      *)
(* until TIMER_CC, and as much of the receiving half as feeds KCP.  What   *)
(* runs in rw_strand runs one after the other, by any service thread; the  *)
(* callback of TIMER_CC and the application run outside of it.  A step     *)
(* is one access to what they share.                                       *)
(***************************************************************************)
EXTENDS TimerInfo

CONSTANTS
    Apps,           \* threads that call send_msg
    Crews,          \* numbers of service threads
    Kinds,          \* of sockets: {"plain", "connect", "kcp"} or a part of it
    MaxNsnd,        \* max_nsnd_que
    Window,         \* segments KCP lets be unacknowledged (external)
    MaxMsgs,        \* bound: messages
    MaxFaults       \* bound: errors, lost datagrams

ASSUME UdpAssumption ==
    /\ Crews \subseteq Nat \ {0} /\ Kinds \subseteq {"plain", "connect", "kcp"}
    /\ MaxNsnd \in Nat /\ Window \in Nat \ {0} /\ MaxMsgs \in Nat /\ MaxFaults \in Nat

VARIABLES
    crew, kind,         \* never change
    life,               \* new, bound (do_start is under way), started, closed
    is_connected,
    send_buffer, sending,
    app,                \* of each: whether it has enqueued and is about to call send_msg
    posts,              \* do_send_msg invocations dispatched to rw_strand
    task,               \* where do_send_msg is: [at, in_strand]
    sending_msg,        \* none, async, posted; then ok, error or bad: send_handler is due
    kcp,                \* nsnd_que, unacknowledged segments, and those of them lost
    cc, callback,       \* TIMER_CC; where its callback is: [at, prev_seq]
    recv,               \* reading, ack, msg, error: recv_handler is due; suspended, ended
    msgs, faults        \* what MaxMsgs and MaxFaults count

sendVars == <<send_buffer, sending, sending_msg>>
strandVars == <<posts, task>>
timerVars == <<cc, callback>>
envVars == <<app, msgs, faults>>
vars == <<crew, kind, life, is_connected, sendVars, strandVars, kcp, timerVars, recv, envVars>>

NotBuilt == UNCHANGED <<crew, kind>>
is_ready == life # "new"
Open == life \in {"bound", "started"}
Wrap(ti) == [ti EXCEPT !.seq = @ % SeqMod]    \* seq is an unsigned char
Idle == [at |-> "idle", in_strand |-> FALSE]
NoCallback == [at |-> "none", prev_seq |-> 0]

(* Handlers that occupy a service thread; one that TIMER_CC's callback       *)
(* dispatches may run in it, before the callback goes on.                    *)
Occupied == (IF task.at = "idle" THEN 0 ELSE 1) + (IF callback.at = "none" THEN 0 ELSE 1)
ThreadFree == Occupied < crew \/ callback.at = "end"
StrandFree == task.at = "idle" /\ ThreadFree

(* send_msg(): nothing to do for a socket that is not ready or is sending.   *)
SendMsg == posts' = IF is_ready /\ ~sending THEN posts + 1 ELSE posts

-----------------------------------------------------------------------------
(* do_start: bind, or fail; connect may fail too, the socket then works      *)
(* unconnected; then send what was queued before, and receive.               *)
Bind ==
    /\ life = "new"
    /\ life' = "bound"
    /\ is_connected' \in IF kind = "plain" THEN {FALSE} ELSE BOOLEAN
    /\ UNCHANGED <<sendVars, strandVars, kcp, timerVars, recv, envVars>> /\ NotBuilt
Started ==
    /\ life = "bound"
    /\ life' = "started" /\ recv' = "reading"
    /\ SendMsg
    /\ UNCHANGED <<is_connected, sendVars, task, kcp, timerVars, envVars>> /\ NotBuilt

(* The application: queue a message, then send_msg().                        *)
Enqueue(a) ==
    /\ ~app[a] /\ msgs < MaxMsgs /\ life # "closed"
    /\ msgs' = msgs + 1
    /\ send_buffer' = Append(send_buffer, msgs + 1)
    /\ app' = [app EXCEPT ![a] = TRUE]
    /\ UNCHANGED <<life, is_connected, sending, sending_msg, strandVars, kcp, timerVars, recv, faults>> /\ NotBuilt
Send(a) ==
    /\ app[a]
    /\ SendMsg
    /\ app' = [app EXCEPT ![a] = FALSE]
    /\ UNCHANGED <<life, is_connected, sendVars, task, kcp, timerVars, recv, msgs, faults>> /\ NotBuilt

(* force_shutdown: close(true); what is pending is cancelled.                *)
Close ==
    /\ life = "started" /\ StrandFree /\ faults < MaxFaults
    /\ faults' = faults + 1
    /\ life' = "closed"
    /\ cc' = Stop(cc)
    /\ sending_msg' = IF sending_msg = "async" THEN "error" ELSE sending_msg
    /\ recv' = IF recv = "reading" THEN "error" ELSE recv
    /\ UNCHANGED <<is_connected, send_buffer, sending, strandVars, kcp, callback, app, msgs>> /\ NotBuilt

-----------------------------------------------------------------------------
(* do_send_msg, in rw_strand.                                                *)

At(at) == task' = [task EXCEPT !.at = at]
(* It returns; after false, send_handler looks at the buffer once more.      *)
Returns(sent) == IF task.in_strand /\ ~sent THEN At("again") ELSE task' = Idle
TaskVars == <<life, is_connected, kcp, timerVars, recv, envVars, posts>>

BeginTask ==
    /\ posts > 0 /\ StrandFree
    /\ posts' = posts - 1
    /\ task' = [at |-> "empty", in_strand |-> FALSE]
    /\ UNCHANGED <<life, is_connected, sendVars, kcp, timerVars, recv, envVars>> /\ NotBuilt

EmptyCleared(in_strand) == IF in_strand THEN FALSE ELSE sending
TestEmpty ==
    /\ task.at = "empty"
    /\ IF send_buffer = <<>>
       THEN sending' = EmptyCleared(task.in_strand) /\ Returns(FALSE)
       ELSE UNCHANGED sending /\ At(IF task.in_strand THEN "cc" ELSE "test_and_set")
    /\ UNCHANGED <<TaskVars, send_buffer, sending_msg>> /\ NotBuilt
TestAndSetBlind ==
    /\ task.at = "test_and_set"
    /\ sending' = TRUE /\ At("cc")
    /\ UNCHANGED <<TaskVars, send_buffer, sending_msg>> /\ NotBuilt
TestAndSet ==
    /\ task.at = "test_and_set"
    /\ sending' = TRUE
    /\ IF sending THEN Returns(TRUE) ELSE At("cc")
    /\ UNCHANGED <<TaskVars, send_buffer, sending_msg>> /\ NotBuilt

(* check_send_cc, under the mutex of KCP: when too much is waiting, the flag *)
(* stays set for TIMER_CC.  set_timer is two accesses to the timer.          *)
Congested == kind = "kcp" /\ kcp.que > MaxNsnd
CheckSendCCQuiet ==
    /\ task.at = "cc"
    /\ IF is_connected /\ Congested THEN Returns(FALSE) ELSE At("dequeue")
    /\ UNCHANGED <<TaskVars, sendVars>> /\ NotBuilt
CheckSendCC ==
    /\ task.at = "cc"
    /\ At(IF is_connected /\ Congested THEN "set_timer" ELSE "dequeue")
    /\ UNCHANGED <<TaskVars, sendVars>> /\ NotBuilt
SetTimer ==
    /\ task.at = "set_timer"
    /\ cc' = [cc EXCEPT !.status = "STARTED"]
    /\ At("start_timer")
    /\ UNCHANGED <<life, is_connected, sendVars, posts, kcp, callback, recv, envVars>> /\ NotBuilt
StartTimer ==
    /\ task.at = "start_timer"
    /\ cc' = Wrap(Rearm(cc))
    /\ Returns(FALSE)
    /\ UNCHANGED <<life, is_connected, sendVars, posts, kcp, callback, recv, envVars>> /\ NotBuilt

(* KCP (external): ikcp_send queues; ikcp_update lets segments out.          *)
Flush(k) ==
    LET n == IF k.que < Window - k.unacked THEN k.que ELSE Window - k.unacked
    IN  [k EXCEPT !.que = @ - n, !.unacked = @ + n]
ikcp_send(k) == Flush([k EXCEPT !.que = @ + 1])
ikcp_input(k) == Flush([k EXCEPT !.unacked = @ - 1])

Dequeue ==
    /\ task.at = "dequeue"
    /\ IF send_buffer = <<>>
       THEN sending' = FALSE /\ Returns(FALSE) /\ UNCHANGED <<send_buffer, sending_msg, kcp>>
       ELSE /\ send_buffer' = Tail(send_buffer)
            /\ IF is_connected /\ kind = "kcp"
               THEN sending_msg' = "posted" /\ kcp' = ikcp_send(kcp)
               ELSE sending_msg' = (IF Open THEN "async" ELSE "bad") /\ UNCHANGED kcp
            /\ UNCHANGED sending /\ Returns(TRUE)
    /\ UNCHANGED <<life, is_connected, timerVars, recv, envVars, posts>> /\ NotBuilt

(* A datagram goes out, or fails.                                            *)
SendEnds ==
    /\ sending_msg \in {"async", "posted"}
    /\ \/ sending_msg' = "ok" /\ UNCHANGED faults
       \/ sending_msg = "async" /\ sending_msg' = "error" /\ faults < MaxFaults /\ faults' = faults + 1
    /\ UNCHANGED <<life, is_connected, send_buffer, sending, strandVars, kcp, timerVars, recv, app, msgs>> /\ NotBuilt

(* send_handler: an error does not stop the sending, a bad descriptor does.  *)
Fatal == {"bad"}
SendHandler ==
    /\ sending_msg \in {"ok", "error", "bad"} /\ StrandFree
    /\ sending_msg' = "none"
    /\ IF sending_msg \in Fatal THEN sending' = FALSE /\ UNCHANGED task
       ELSE UNCHANGED sending /\ task' = [at |-> "empty", in_strand |-> TRUE]
    /\ UNCHANGED <<TaskVars, send_buffer>> /\ NotBuilt

(* "just make sure no pending msgs"                                          *)
Again ==
    /\ task.at = "again"
    /\ IF send_buffer # <<>> THEN SendMsg ELSE UNCHANGED posts
    /\ task' = Idle
    /\ UNCHANGED <<life, is_connected, sendVars, kcp, timerVars, recv, envVars>> /\ NotBuilt

-----------------------------------------------------------------------------
(* TIMER_CC, outside of the strand.                                          *)

Expire ==
    /\ cc.wait /\ cc' = Complete(cc, FALSE)
    /\ UNCHANGED <<life, is_connected, sendVars, strandVars, kcp, callback, recv, envVars>> /\ NotBuilt

CallbackAt(at) == callback' = [callback EXCEPT !.at = at]
CallbackVars == <<life, is_connected, kcp, recv, envVars, task>>

TimerDue ==
    /\ cc.due # <<>> /\ callback.at = "none" /\ ThreadFree
    /\ callback' = [at |-> IF cc.status = "STARTED" /\ ~Head(cc.due).cancelled THEN "que" ELSE "false",
                    prev_seq |-> Head(cc.due).prev_seq]
    /\ cc' = [cc EXCEPT !.due = Tail(@)]
    /\ UNCHANGED <<CallbackVars, sendVars, posts>> /\ NotBuilt

(* timer_handler: still congested, start again; else resume_sending.         *)
StillCongested == kcp.que > MaxNsnd
TestQue ==
    /\ callback.at = "que"
    /\ IF StillCongested
       THEN cc' = (IF cc.status = "STARTED" THEN Wrap(Start(cc)) ELSE cc) /\ callback' = NoCallback
       ELSE UNCHANGED cc /\ CallbackAt("resume")
    /\ UNCHANGED <<CallbackVars, sendVars, posts>> /\ NotBuilt
ResumeClear ==
    /\ callback.at = "resume"
    /\ sending' = FALSE
    /\ CallbackAt("send")
    /\ UNCHANGED <<CallbackVars, send_buffer, sending_msg, posts, cc>> /\ NotBuilt
ResumeSendMsg == IF send_buffer # <<>> THEN SendMsg ELSE UNCHANGED posts
ResumeSend ==
    /\ callback.at = "send"
    /\ ResumeSendMsg
    /\ CallbackAt("end")
    /\ UNCHANGED <<CallbackVars, sendVars, cc>> /\ NotBuilt

(* false was returned: the timer ends, unless it was started since.          *)
TestSeq ==
    /\ callback.at = "false" \/ (callback.at = "end" /\ (crew = 1 => task.at = "idle"))
    /\ CallbackAt(IF SameSeq(cc, callback.prev_seq) THEN "cancel" ELSE "none")
    /\ UNCHANGED <<CallbackVars, sendVars, posts, cc>> /\ NotBuilt
CancelTimer ==
    /\ callback.at = "cancel"
    /\ cc' = [cc EXCEPT !.status = "CANCELED"]
    /\ callback' = NoCallback
    /\ UNCHANGED <<CallbackVars, sendVars, posts>> /\ NotBuilt

-----------------------------------------------------------------------------
(* Receiving, and the peer.                                                  *)

(* A datagram, an acknowledgement of KCP's among them, or an error.          *)
RecvEnds ==
    /\ recv = "reading" /\ life = "started"
    /\ \/ recv' = "msg" /\ UNCHANGED faults
       \/ kcp.unacked > kcp.lost /\ recv' = "ack" /\ UNCHANGED faults
       \/ recv' = "error" /\ faults < MaxFaults /\ faults' = faults + 1
    /\ UNCHANGED <<life, is_connected, sendVars, strandVars, kcp, timerVars, app, msgs>> /\ NotBuilt

(* recv_handler: pre_handle_msg gives KCP what came; handle_msg may suspend  *)
(* the reading; an error ends it.                                            *)
InputLost == kcp
Input == IF recv = "ack" THEN ikcp_input(kcp) ELSE kcp
RecvHandler ==
    /\ recv \in {"msg", "ack", "error"} /\ StrandFree
    /\ IF recv = "error" THEN recv' = "ended" ELSE recv' \in {"reading", "suspended"}
    /\ kcp' = Input
    /\ UNCHANGED <<life, is_connected, sendVars, strandVars, timerVars, envVars>> /\ NotBuilt
ResumeRecv ==
    /\ recv = "suspended" /\ recv' = IF Open THEN "reading" ELSE "ended"
    /\ UNCHANGED <<life, is_connected, sendVars, strandVars, kcp, timerVars, envVars>> /\ NotBuilt

(* The network loses a segment; TIMER_KCP_UPDATE sends it again.             *)
Lose ==
    /\ kcp.unacked > kcp.lost /\ faults < MaxFaults
    /\ faults' = faults + 1 /\ kcp' = [kcp EXCEPT !.lost = @ + 1]
    /\ recv # "ack"
    /\ UNCHANGED <<life, is_connected, sendVars, strandVars, timerVars, recv, app, msgs>> /\ NotBuilt
KcpUpdate ==
    /\ kind = "kcp" /\ life = "started" /\ kcp.lost > 0
    /\ kcp' = [Flush(kcp) EXCEPT !.lost = 0]
    /\ UNCHANGED <<life, is_connected, sendVars, strandVars, timerVars, recv, envVars>> /\ NotBuilt

-----------------------------------------------------------------------------
Init ==
    /\ crew \in Crews /\ kind \in Kinds /\ life = "new" /\ is_connected = FALSE
    /\ send_buffer = <<>> /\ sending = FALSE /\ sending_msg = "none"
    /\ app = [a \in Apps |-> FALSE] /\ posts = 0 /\ task = Idle
    /\ kcp = [que |-> 0, unacked |-> 0, lost |-> 0]
    /\ cc = NewTimer /\ callback = NoCallback
    /\ recv = "none" /\ msgs = 0 /\ faults = 0

Strand == BeginTask \/ TestEmpty \/ TestAndSet \/ CheckSendCC \/ SetTimer \/ StartTimer \/ Dequeue \/ Again
Callback == TestQue \/ ResumeClear \/ ResumeSend \/ TestSeq \/ CancelTimer
Threads == Strand \/ SendHandler \/ RecvHandler \/ TimerDue \/ Callback
Next == \/ Bind \/ Started \/ Close \/ SendEnds \/ Threads \/ Expire \/ RecvEnds \/ ResumeRecv
        \/ Lose \/ KcpUpdate \/ \E a \in Apps : Enqueue(a) \/ Send(a)

Spec == Init /\ [][Next]_vars

(* Threads run what is due, the peer of a KCP acknowledges in the end, and a *)
(* suspended socket's messages are handled.                                  *)
FairSpec == /\ Spec
            /\ WF_vars(Started) /\ WF_vars(SendEnds) /\ WF_vars(Expire) /\ WF_vars(KcpUpdate)
            /\ WF_vars(ResumeRecv) /\ \A a \in Apps : WF_vars(Send(a))
            /\ WF_vars(Strand) /\ SF_vars(SendHandler) /\ SF_vars(RecvHandler)
            /\ SF_vars(TimerDue) /\ WF_vars(Callback) /\ SF_vars(BeginTask)
            /\ SF_vars(RecvEnds /\ recv' = "ack")

-----------------------------------------------------------------------------
(* Properties.                                                               *)

TaskPlaces == {"idle", "empty", "test_and_set", "cc", "set_timer", "start_timer", "dequeue", "again"}
CallbackPlaces == {"none", "que", "resume", "send", "end", "false", "cancel"}
TypeOK ==
    /\ crew \in Crews /\ kind \in Kinds
    /\ life \in {"new", "bound", "started", "closed"} /\ is_connected \in BOOLEAN
    /\ send_buffer \in Seq(1..MaxMsgs) /\ sending \in BOOLEAN /\ posts \in Nat
    /\ sending_msg \in {"none", "async", "posted", "ok", "error", "bad"}
    /\ app \in [Apps -> BOOLEAN] /\ msgs \in 0..MaxMsgs /\ faults \in Nat
    /\ task \in [at : TaskPlaces, in_strand : BOOLEAN]
    /\ kcp \in [que : Nat, unacked : Nat, lost : Nat] /\ cc \in TimerInfos
    /\ callback \in [at : CallbackPlaces, prev_seq : Nat]
    /\ recv \in {"none", "reading", "ack", "msg", "error", "suspended", "ended"}

(* Who may hold the sending flag: do_send_msg, the datagram under way with   *)
(* its handler, and TIMER_CC up to resume_sending.                           *)
TaskOwns == \/ task.at \in {"cc", "set_timer", "start_timer", "dequeue"}
            \/ task.at = "empty" /\ task.in_strand
TimerComes == \/ callback.at \in {"que", "resume"}
              \/ cc.status = "STARTED" /\ (cc.wait \/ \E k \in DOMAIN cc.due : ~cc.due[k].cancelled)
Owners == {w \in {"task", "datagram", "timer"} :
              CASE w = "task" -> TaskOwns [] w = "datagram" -> sending_msg # "none" [] w = "timer" -> TimerComes}

(* One datagram at a time, although TIMER_CC gives the flag back outside the *)
(* strand while applications send (udp/socket.h:340-360, reliable_socket.h:  *)
(* 160-188): sending_msg is never overwritten.                               *)
SendAlone == /\ \A v, w \in Owners : v = w
             /\ ~sending => Owners = {}

(* With one service thread, a socket that stays in the sending state has     *)
(* somebody to end it: congestion never loses its timer.  (With two, the     *)
(* handler of TIMER_CC can compare seq, lose the processor to a set_timer,   *)
(* and then cancel what was started.)                                        *)
CongestionTimed == (crew = 1 /\ Open /\ sending) => Owners # {}

(* A message queued is sent, through congestion, errors and losses, with one *)
(* service thread and as long as the socket receives.                        *)
EveryMessageSent ==
    (crew = 1 /\ send_buffer # <<>> /\ life = "started") ~>
        (send_buffer = <<>> \/ life = "closed" \/ recv \in {"error", "ended"})
=============================================================================
