----------------------------- MODULE SyncCalls -----------------------------
(***************************************************************************)
(* The calls of a TCP socket that block their caller, with ASCS_SYNC_SEND  *)
(* and ASCS_SYNC_RECV: sync_recv_msg against recv_handler, handle_msg,     *)
(* handle_error and close() over one mutex and one condition variable; the *)
(* families send_msg, safe_send_msg, sync_send_msg and sync_safe_send_msg, *)
(* whose promise is answered by send_handler or by whoever takes the       *)
(* message out of the buffer (on_close comes when nothing is being sent,   *)
(* and finds no promise).  How the sending is woken up is the business of  *)
(* TcpSend: here it starts when it can.  The socket is started and will    *)
(* not connect again; its receiving buffer has room.                       *)
(***************************************************************************)
EXTENDS Naturals, Sequences

CONSTANTS
    Users,          \* threads of the application, none of them a service thread
    Resends,        \* on_send_error sends again what it is given
    SendBuf,        \* messages that make the send buffer unavailable
    MaxTickets,     \* bound: messages put into the send buffer
    MaxIn,          \* bound: messages the peer sends
    MaxCalls,       \* bound: calls
    MaxFaults       \* bound: broken links, shutdowns, failed packing

ASSUME SyncAssumption ==
    /\ Resends \in BOOLEAN /\ SendBuf \in Nat \ {0} /\ MaxTickets \in Nat /\ MaxIn \in Nat
    /\ MaxCalls \in Nat /\ MaxFaults \in Nat /\ "strand" \notin Users /\ "none" \notin Users

VARIABLES
    started,
    sync_recv_mutex,    \* who holds it on the way to its wait; other holders do within one step
    cv, woken,          \* who waits for sync_recv_cv; who was woken and wants the mutex
    sr_status,
    temp_msg_can, recv_buffer, taken,   \* messages parsed, dispatched, given to sync_recv_msg
    read,               \* async_read: none, pending; ok, failed: recv_handler is due
    strand,             \* where recv_handler is
    user,               \* where each thread is
    send_buffer, sending_msgs,
    write,              \* async_write, like read
    p,                  \* of each ticket: unused, none, or the promise: waiting or answered
    answered_twice,     \* set_value met a promise that had its value (std::future_error)
    written, answers,   \* history: tickets written, <<ticket, answer>> of calls that ended
    arrived, calls, faults

recvVars == <<sync_recv_mutex, cv, woken, sr_status, temp_msg_can, recv_buffer, taken, strand>>
sendVars == <<send_buffer, sending_msgs, p, answered_twice, written>>
bounds == <<arrived, calls, faults>>
vars == <<started, recvVars, read, user, sendVars, write, answers, bounds>>

Tickets == 1..MaxTickets
Idle == [at |-> "idle", sync |-> FALSE, safe |-> FALSE, timed |-> FALSE, ticket |-> 0]
Return(u) == user' = [user EXCEPT ![u] = Idle]
Fault == faults < MaxFaults /\ faults' = faults + 1

-----------------------------------------------------------------------------
(* sync_recv_cv.  A waiter holds the mutex from its test to its wait; a      *)
(* notification needs no mutex and finds only those who wait.                *)

MutexFree == sync_recv_mutex = "none"
notify_one ==
    IF cv = {} THEN UNCHANGED <<cv, woken>>
    ELSE \E w \in cv : cv' = cv \ {w} /\ woken' = woken \cup {w}
notify_all == cv' = {} /\ woken' = woken \cup cv

Block(w) ==
    /\ sync_recv_mutex = w
    /\ sync_recv_mutex' = "none" /\ cv' = cv \cup {w}
    /\ UNCHANGED <<started, woken, sr_status, temp_msg_can, recv_buffer, taken, strand, read, user,
                   sendVars, write, answers, bounds>>
(* A wait ends by itself: a duration that passed, or a spurious wakeup.      *)
Elapse(w) ==
    /\ w \in cv
    /\ cv' = cv \ {w} /\ woken' = woken \cup {w}
    /\ user' = [u \in Users |-> IF u = w /\ user[u].timed THEN [user[u] EXCEPT !.at = "elapsed"] ELSE user[u]]
    /\ UNCHANGED <<started, sync_recv_mutex, sr_status, temp_msg_can, recv_buffer, taken, strand, read,
                   sendVars, write, answers, bounds>>

-----------------------------------------------------------------------------
(* sync_recv_msg.                                                            *)

(* Mutant: the messages are copied, and left where they were.                *)
EndOfCallCopies(u) ==
    /\ taken' = IF sr_status = "RESPONDED" THEN taken \o temp_msg_can ELSE taken
    /\ sr_status' = "NOT_REQUESTED"
    /\ Return(u) /\ UNCHANGED temp_msg_can
(* What is left of the call when it has waited long enough.                  *)
EndOfCall(u) ==
    /\ IF sr_status = "RESPONDED"
       THEN taken' = taken \o temp_msg_can /\ temp_msg_can' = <<>>
       ELSE UNCHANGED <<taken, temp_msg_can>>
    /\ sr_status' = "NOT_REQUESTED"
    /\ Return(u)

(* A call that finds another is a duplicate; on a socket that is not started *)
(* it returns at once.                                                       *)
sync_recv_msg(u) ==
    /\ user[u] = Idle /\ MutexFree /\ calls < MaxCalls
    /\ calls' = calls + 1
    /\ IF sr_status # "NOT_REQUESTED" THEN UNCHANGED <<cv, woken, sr_status, sync_recv_mutex, user>>
       ELSE IF ~started THEN notify_one /\ UNCHANGED <<sr_status, sync_recv_mutex, user>>
       ELSE /\ sr_status' = "REQUESTED" /\ sync_recv_mutex' = u
            /\ \E timed \in BOOLEAN :
                  user' = [user EXCEPT ![u] = [Idle EXCEPT !.at = "recv", !.timed = timed]]
            /\ UNCHANGED <<cv, woken>>
    /\ UNCHANGED <<started, temp_msg_can, recv_buffer, taken, strand, read, sendVars, write, answers, arrived, faults>>

(* Mutant: nobody is told that the call is over.                             *)
EndQuietly(u) == EndOfCall(u) /\ woken' = woken \ {u} /\ UNCHANGED cv
EndAndNotify(u) ==
    /\ EndOfCall(u)
    /\ IF cv = {} THEN cv' = cv /\ woken' = woken \ {u}
       ELSE \E w \in cv : cv' = cv \ {w} /\ woken' = (woken \ {u}) \cup {w}

(* sync_recv_waiting: woken, it tests again.                                 *)
WakeUser(u) ==
    /\ u \in woken /\ MutexFree
    /\ IF ~started \/ sr_status # "REQUESTED" \/ user[u].at = "elapsed"
       THEN EndAndNotify(u) /\ UNCHANGED sync_recv_mutex
       ELSE /\ sync_recv_mutex' = u /\ woken' = woken \ {u}
            /\ UNCHANGED <<cv, user, sr_status, temp_msg_can, taken>>
    /\ UNCHANGED <<started, recv_buffer, strand, read, sendVars, write, answers, bounds>>

-----------------------------------------------------------------------------
(* recv_handler, in rw_strand.                                               *)

StrandOnly == UNCHANGED <<started, user, sendVars, write, answers, calls>>
Dispatch == recv_buffer' = recv_buffer \o temp_msg_can /\ temp_msg_can' = <<>>
NextRead == read' = "pending" /\ strand' = "idle"

parse_msg ==
    /\ strand = "idle" /\ read = "ok"
    /\ read' = "none" /\ strand' = "handle_msg"
    /\ arrived' = arrived + 1 /\ temp_msg_can' = Append(temp_msg_can, arrived + 1)
    /\ UNCHANGED <<sync_recv_mutex, cv, woken, sr_status, recv_buffer, taken, faults>> /\ StrandOnly

(* handle_msg: answer a request and wait until it is over; else dispatch.    *)
handle_msg ==
    /\ strand = "handle_msg" /\ MutexFree
    /\ IF sr_status = "REQUESTED"
       THEN /\ sr_status' = "RESPONDED" /\ notify_one
            /\ IF started THEN strand' = "wait_msg" /\ sync_recv_mutex' = "strand"
               ELSE strand' = "idle" /\ UNCHANGED sync_recv_mutex
            /\ UNCHANGED <<temp_msg_can, recv_buffer, read>>
       ELSE Dispatch /\ NextRead /\ UNCHANGED <<sr_status, cv, woken, sync_recv_mutex>>
    /\ UNCHANGED <<taken, arrived, faults>> /\ StrandOnly

(* handle_error: tell a request, wait until it is over; on_recv_error next.  *)
handle_error ==
    /\ strand = "idle" /\ read = "failed" /\ MutexFree
    /\ read' = "none"
    /\ IF sr_status = "REQUESTED"
       THEN /\ sr_status' = "RESPONDED_FAILURE" /\ notify_one
            /\ IF started THEN strand' = "wait_error" /\ sync_recv_mutex' = "strand"
               ELSE strand' = "close" /\ UNCHANGED sync_recv_mutex
       ELSE strand' = "close" /\ UNCHANGED <<sr_status, cv, woken, sync_recv_mutex>>
    /\ UNCHANGED <<temp_msg_can, recv_buffer, taken, arrived, faults>> /\ StrandOnly

WaitsFor == IF strand = "wait_msg" THEN "RESPONDED" ELSE "RESPONDED_FAILURE"
AfterWait ==
    IF strand = "wait_error" THEN strand' = "close" /\ UNCHANGED <<temp_msg_can, recv_buffer, read>>
    ELSE IF sr_status = "RESPONDED" THEN strand' = "idle" /\ UNCHANGED <<temp_msg_can, recv_buffer, read>>
    ELSE Dispatch /\ NextRead
WakeStrand ==
    /\ "strand" \in woken /\ MutexFree
    /\ woken' = woken \ {"strand"}
    /\ IF started /\ sr_status = WaitsFor
       THEN sync_recv_mutex' = "strand" /\ UNCHANGED <<strand, temp_msg_can, recv_buffer, read>>
       ELSE AfterWait /\ UNCHANGED sync_recv_mutex
    /\ UNCHANGED <<cv, sr_status, taken, arrived, faults>> /\ StrandOnly

(* close(), by on_recv_error or by a shutdown the application asks for; the  *)
(* notification does not take the mutex.                                     *)
close ==
    /\ \/ strand = "close" /\ UNCHANGED faults
       \/ strand = "idle" /\ started /\ Fault
    /\ strand' = "idle"
    /\ started' = FALSE
    /\ notify_all
    /\ read' = IF read = "pending" THEN "failed" ELSE read
    /\ write' = IF write = "pending" THEN "failed" ELSE write
    /\ UNCHANGED <<sync_recv_mutex, sr_status, temp_msg_can, recv_buffer, taken, user, sendVars, answers, arrived, calls>>

ReadEnds ==
    /\ read = "pending"
    /\ \/ started /\ arrived < MaxIn /\ read' = "ok" /\ UNCHANGED faults
       \/ ~started /\ read' = "failed" /\ UNCHANGED faults
       \/ started /\ read' = "failed" /\ Fault
    /\ UNCHANGED <<started, recvVars, user, sendVars, write, answers, arrived, calls>>

-----------------------------------------------------------------------------
(* Sending.                                                                  *)

(* set_value on the promises of a set of tickets.                            *)
set_value(ts, answer) ==
    /\ p' = [t \in Tickets |-> IF t \in ts /\ p[t] = "waiting" THEN answer ELSE p[t]]
    /\ answered_twice' = (answered_twice \/ \E t \in ts : p[t] \notin {"none", "waiting"})
Items(s) == {s[i] : i \in DOMAIN s}
Fresh == {t \in Tickets : p[t] = "unused" /\ \A v \in Tickets : p[v] = "unused" => t <= v}

(* Every way to send begins with the buffer (unless can_overflow), then the  *)
(* packer.  A failed safe_ call tries again while the socket is ready.       *)
Call(u) ==
    /\ user[u] = Idle /\ calls < MaxCalls
    /\ calls' = calls + 1
    /\ \E sync, safe, timed \in BOOLEAN :
          user' = [user EXCEPT ![u] = [at |-> "try", sync |-> sync, safe |-> safe, timed |-> sync /\ timed, ticket |-> 0]]
    /\ UNCHANGED <<started, recvVars, read, sendVars, write, answers, arrived, faults>>

SAFE_SEND_MSG_CHECK(u) == IF user[u].safe /\ started THEN user' = [user EXCEPT ![u].at = "try"] ELSE Return(u)

Refused(u) ==
    /\ user[u].at = "try"
    /\ \/ Len(send_buffer) >= SendBuf /\ UNCHANGED faults
       \/ Fault
    /\ SAFE_SEND_MSG_CHECK(u)
    /\ UNCHANGED <<started, recvVars, read, sendVars, write, answers, arrived, calls>>

(* do_direct_send_msg and do_direct_sync_send_msg.                           *)
do_direct_send_msg(u) ==
    /\ user[u].at = "try"
    /\ \E t \in Fresh :
          /\ send_buffer' = Append(send_buffer, t)
          /\ p' = [p EXCEPT ![t] = IF user[u].sync THEN "waiting" ELSE "none"]
          /\ IF user[u].sync THEN user' = [user EXCEPT ![u].at = "future", ![u].ticket = t] ELSE Return(u)
    /\ UNCHANGED <<started, recvVars, read, sending_msgs, answered_twice, written, write, answers, bounds>>

(* The future is ready, or the duration is over: TIMEOUT is no success for a *)
(* safe_ call either, and sends the message once more.                       *)
GetFuture(u) ==
    /\ user[u].at = "future" /\ p[user[u].ticket] # "waiting"
    /\ answers' = answers \cup {<<user[u].ticket, p[user[u].ticket]>>}
    /\ IF p[user[u].ticket] = "SUCCESS" THEN Return(u) ELSE SAFE_SEND_MSG_CHECK(u)
    /\ UNCHANGED <<started, recvVars, read, sendVars, write, bounds>>
FutureTimeout(u) ==
    /\ user[u].at = "future" /\ user[u].timed /\ p[user[u].ticket] = "waiting"
    /\ SAFE_SEND_MSG_CHECK(u)
    /\ UNCHANGED <<started, recvVars, read, sendVars, write, answers, bounds>>

do_send_msg ==
    /\ strand = "idle" /\ write = "none" /\ send_buffer # <<>> /\ started
    /\ sending_msgs' = send_buffer /\ send_buffer' = <<>>
    /\ write' = "pending"
    /\ UNCHANGED <<started, recvVars, read, user, p, answered_twice, written, answers, bounds>>
WriteEnds ==
    /\ write = "pending"
    /\ \/ started /\ write' = "ok" /\ UNCHANGED faults
       \/ write' = "failed" /\ IF started THEN Fault ELSE UNCHANGED faults
    /\ UNCHANGED <<started, recvVars, read, user, sendVars, answers, arrived, calls>>

(* send_handler; on_send_error may send its messages again, promises and all *)
(* (direct_send_msg).                                                        *)
AnswerAlways(result) == "SUCCESS"
AnswerTo(result) == IF result = "ok" THEN "SUCCESS" ELSE "NOT_APPLICABLE"
send_handler ==
    /\ strand = "idle" /\ write \in {"ok", "failed"}
    /\ write' = "none"
    /\ set_value(Items(sending_msgs), AnswerTo(write))
    /\ sending_msgs' = <<>>
    /\ IF write = "ok" THEN written' = written \cup Items(sending_msgs) /\ UNCHANGED send_buffer
       ELSE /\ send_buffer' = IF Resends THEN send_buffer \o sending_msgs ELSE send_buffer
            /\ UNCHANGED written
    /\ UNCHANGED <<started, recvVars, read, user, answers, bounds>>

(* pop_first_pending_send_msg and pop_all_pending_send_msg.                  *)
PopPending(u) ==
    /\ user[u] = Idle /\ send_buffer # <<>> /\ calls < MaxCalls
    /\ calls' = calls + 1
    /\ \E n \in {1, Len(send_buffer)} :
          /\ send_buffer' = SubSeq(send_buffer, n + 1, Len(send_buffer))
          /\ set_value(Items(SubSeq(send_buffer, 1, n)), "NOT_APPLICABLE")
    /\ UNCHANGED <<started, recvVars, read, user, sending_msgs, written, write, answers, arrived, faults>>

-----------------------------------------------------------------------------
Init ==
    /\ started = TRUE /\ read = "pending" /\ strand = "idle" /\ write = "none"
    /\ sync_recv_mutex = "none" /\ cv = {} /\ woken = {} /\ sr_status = "NOT_REQUESTED"
    /\ temp_msg_can = <<>> /\ recv_buffer = <<>> /\ taken = <<>>
    /\ user = [u \in Users |-> Idle]
    /\ send_buffer = <<>> /\ sending_msgs = <<>>
    /\ p = [t \in Tickets |-> "unused"] /\ answered_twice = FALSE /\ written = {} /\ answers = {}
    /\ arrived = 0 /\ calls = 0 /\ faults = 0

Actors == Users \cup {"strand"}
StrandTasks == parse_msg \/ handle_msg \/ handle_error \/ WakeStrand \/ (strand = "close" /\ close)
Next ==
    \/ StrandTasks \/ close \/ ReadEnds \/ do_send_msg \/ WriteEnds \/ send_handler
    \/ \E w \in Actors : Block(w) \/ Elapse(w)
    \/ \E u \in Users : \/ sync_recv_msg(u) \/ WakeUser(u)
                        \/ Call(u) \/ Refused(u) \/ do_direct_send_msg(u)
                        \/ GetFuture(u) \/ FutureTimeout(u) \/ PopPending(u)

Spec == Init /\ [][Next]_vars

(* Threads go on with what they do and get the mutex in the end; rw_strand   *)
(* runs what is ready.                                                       *)
FairSpec == /\ Spec
            /\ WF_vars(parse_msg) /\ SF_vars(handle_msg) /\ SF_vars(handle_error) /\ SF_vars(WakeStrand)
            /\ WF_vars(strand = "close" /\ close)
            /\ \A w \in Actors : WF_vars(Block(w))
            /\ \A u \in Users : SF_vars(WakeUser(u))

-----------------------------------------------------------------------------
(* Properties.                                                               *)

Answers == {"SUCCESS", "NOT_APPLICABLE"}
Transfers == {"none", "pending", "ok", "failed"}
Calls == [at : {"idle", "recv", "elapsed", "try", "future"}, sync : BOOLEAN, safe : BOOLEAN,
          timed : BOOLEAN, ticket : 0..MaxTickets]
TypeOK ==
    /\ started \in BOOLEAN /\ sr_status \in {"NOT_REQUESTED", "REQUESTED", "RESPONDED", "RESPONDED_FAILURE"}
    /\ cv \subseteq Actors /\ woken \subseteq Actors /\ sync_recv_mutex \in Actors \cup {"none"}
    /\ temp_msg_can \in Seq(Nat) /\ recv_buffer \in Seq(Nat) /\ taken \in Seq(Nat)
    /\ read \in Transfers /\ write \in Transfers
    /\ strand \in {"idle", "handle_msg", "wait_msg", "wait_error", "close"}
    /\ user \in [Users -> Calls]
    /\ send_buffer \in Seq(Tickets) /\ sending_msgs \in Seq(Tickets)
    /\ p \in [Tickets -> {"unused", "none", "waiting"} \cup Answers]
    /\ answered_twice \in BOOLEAN /\ written \subseteq Tickets /\ answers \subseteq Tickets \X Answers
    /\ arrived \in Nat /\ calls \in Nat /\ faults \in Nat

(* Every message parsed goes to one place, once and in order: to a call of   *)
(* sync_recv_msg or to the dispatching, however a timeout, a second call, a  *)
(* spurious wakeup and close() fall (socket.h:271-281, 463-486).             *)
Increasing(s) == \A i, j \in DOMAIN s : i < j => s[i] < s[j]
RecvOnce ==
    /\ Increasing(taken) /\ Increasing(recv_buffer) /\ Increasing(temp_msg_can)
    /\ Items(taken) \cap Items(recv_buffer) = {}
    /\ Items(temp_msg_can) \cap (Items(taken) \cup Items(recv_buffer)) = {}
    /\ Items(taken) \cup Items(recv_buffer) \cup Items(temp_msg_can) = 1..arrived

(* No promise is given a value twice, which would throw: a message is        *)
(* answered by send_handler or by the one who takes it out of the buffer     *)
(* (socket.h:421, tcp/socket.h:455).  Not so when on_send_error sends the    *)
(* same message again.                                                       *)
PromiseOnce == ~answered_twice

(* What a blocking call answers is true: SUCCESS of what was written, and    *)
(* NOT_APPLICABLE only of what never will be (tcp/socket.h:421, 455,         *)
(* base.h:573-577); and it is the one answer of its message.                 *)
AnswerTrue ==
    /\ \A a \in answers :
        /\ a[2] = "SUCCESS" => a[1] \in written
        /\ a[2] = "NOT_APPLICABLE" => a[1] \notin written \cup Items(send_buffer) \cup Items(sending_msgs)
    /\ PromiseOnce

(* rw_strand waits for a thread of the application in handle_msg and         *)
(* handle_error; it is never kept there, or the link would be dead.          *)
StrandFreed == strand # "idle" ~> strand = "idle"
=============================================================================
