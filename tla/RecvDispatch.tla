--------------------------- MODULE RecvDispatch ---------------------------
(***************************************************************************)
(* The receiving half of a TCP socket of ascs: the read loop in rw_strand  *)
(* (tcp::socket_base::do_recv_msg, recv_handler; ascs::socket::handle_msg, *)
(* check_receiving), the buffer of received messages, the dispatch loop in *)
(* dis_strand (dispatch_msg, do_dispatch_msg) and the two timers that keep *)
(* the loops alive: TIMER_CHECK_RECV resumes reading when the buffer was   *)
(* full, TIMER_DISPATCH_MSG offers a message again that on_msg_handle has  *)
(* refused.  Timer handlers run on any service thread, outside both        *)
(* strands.  Messages are numbered in the order the unpacker yields them.  *)
(* Default macros: no ASCS_PASSIVE_RECV, ASCS_SYNC_RECV, ASCS_SYNC_DISPATCH *)
(* and ASCS_DISPATCH_BATCH_MSG.                                            *)
(***************************************************************************)
EXTENDS TimerInfo, Integers, FiniteSets

CONSTANTS
    Workers,        \* service threads
    RecvBufSize,    \* recv_buf_size_, in messages
    MaxPerRead,     \* messages one read may yield
    Settings,       \* <<service threads that run, whether the socket reconnects>>:
                    \* a socket that does not is reset and reused
    MaxMsgs,        \* bound: messages that arrive on one connection
    MaxFails,       \* bound: times on_msg_handle refuses a message
    MaxBreaks       \* bound: times the link is shut down

ASSUME RecvAssumption ==
    /\ RecvBufSize \in Nat \ {0} /\ MaxPerRead \in Nat \ {0}
    /\ Settings \subseteq (SUBSET Workers) \X BOOLEAN
    /\ MaxMsgs \in Nat /\ MaxFails \in Nat /\ MaxBreaks \in Nat

Timers == {"DISPATCH_MSG", "CHECK_RECV"}
NoMsg == 0

VARIABLES
    setting,        \* the one of Settings; it does not change
    recv_buffer,    \* received, not yet dispatched
    dispatching,    \* a message is held by the dispatch loop
    dispatching_msg,\* that message
    handled,        \* messages on_msg_handle has accepted, in order
    arrived,        \* messages the unpacker has yielded
    reads,          \* async_reads that are outstanding
    rwQ,            \* what rw_strand has to run, oldest first
    disQ,           \* do_dispatch_msg calls queued in dis_strand
    timer,          \* the two timers
    job,            \* what each service thread runs
    link,           \* up, or closing until no async call is left
    fails, breaks   \* what the bounds count

bufferVars == <<recv_buffer, dispatching, dispatching_msg, handled, arrived>>
queueVars == <<reads, rwQ, disQ>>
linkVars == <<setting, link, breaks>>
vars == <<bufferVars, queueVars, linkVars, timer, job, fails>>

(* What the completion of a read brings: n messages, and an error of the     *)
(* link, or of the unpacker; bytes is false when it failed before the first. *)
Results == [n : 0..MaxPerRead, end : {"ok", "unpack_error", "error"}, bytes : BOOLEAN]
RwTasks == [task : {"do_recv_msg", "shutdown"}] \cup [task : {"recv_handler"}, res : Results]

(* kind: none, rw or dis (the strand it holds) or the timer whose handler it *)
(* runs; go_on is need_next_recv, ec the error recv_handler was given.       *)
Jobs == [kind : {"none", "rw", "dis"} \cup Timers,
         pc : {"idle", "dispatch_msg", "handled_msg", "end", "handle", "post",
               "callback", "again", "compare", "cancel"},
         go_on : BOOLEAN, ec : BOOLEAN, prev_seq : Nat]
Idle == [kind |-> "none", pc |-> "idle", go_on |-> FALSE, ec |-> FALSE, prev_seq |-> 0]

crew == setting[1]
reconnects == setting[2]

Free(w) == w \in crew /\ job[w] = Idle
Held(strand) == \E w \in Workers : job[w].kind = strand
At(w, kind, pc) == job[w].kind = kind /\ job[w].pc = pc
Goto(w, pc) == job' = [job EXCEPT ![w].pc = pc]
Done(w) == job' = [job EXCEPT ![w] = Idle]

(* Mutant: the timer is not set.                                            *)
SetTimerForgotten(id) == timer

(* set_timer: the seq kept is the unsigned char itself.                      *)
SetTimer(id) ==
    LET ti == Start(timer[id]) IN
    [timer EXCEPT ![id] = [ti EXCEPT !.seq = ti.seq % SeqMod]]

is_recv_buffer_available == Len(recv_buffer) < RecvBufSize

Init ==
    /\ setting \in Settings
    /\ recv_buffer = <<>>
    /\ dispatching = FALSE
    /\ dispatching_msg = NoMsg
    /\ handled = <<>>
    /\ arrived = 0
    /\ reads = 0
    /\ rwQ = <<[task |-> "do_recv_msg"]>>
    /\ disQ = 0
    /\ timer = [id \in Timers |-> NewTimer]
    /\ job = [w \in Workers |-> Idle]
    /\ link = "up"
    /\ fails = 0
    /\ breaks = 0

-----------------------------------------------------------------------------
(* The read loop, in rw_strand.                                              *)

NextTask(name) == rwQ # <<>> /\ Head(rwQ).task = name /\ ~Held("rw") /\ rwQ' = Tail(rwQ)

(* do_recv_msg: one async_read.                                              *)
DoRecvMsg(w) ==
    /\ Free(w)
    /\ NextTask("do_recv_msg")
    /\ reads' = reads + 1
    /\ UNCHANGED <<bufferVars, linkVars, disQ, timer, job, fails>>

(* The read completes: with messages while the link is up, with an error     *)
(* when the peer has gone or the socket was shut down.                       *)
ReadDone ==
    /\ reads > 0
    /\ \E res \in Results :
          /\ arrived + res.n <= MaxMsgs
          /\ res.end # "ok" => link = "closing" \/ breaks < MaxBreaks
          /\ ~res.bytes => res.end = "error" /\ res.n = 0
          /\ rwQ' = Append(rwQ, [task |-> "recv_handler", res |-> res])
    /\ reads' = reads - 1
    /\ UNCHANGED <<bufferVars, linkVars, disQ, timer, job, fails>>

(* close(), the first time: the link goes down and every timer is stopped.   *)
CloseLink ==
    IF link = "up"
    THEN /\ link' = "closing" /\ setting' = setting
         /\ breaks' = breaks + 1
         /\ timer' = [id \in Timers |-> Stop(timer[id])]
    ELSE UNCHANGED <<linkVars, timer>>

(* recv_handler, parse_msg and the first part of handle_msg: bytes that are  *)
(* no message shut the link down (on_unpack_error); the messages before them *)
(* go into recv_buffer.  Without bytes there is only the error to handle.    *)
RecvHandler(w) ==
    /\ Free(w)
    /\ NextTask("recv_handler")
    /\ LET res == Head(rwQ).res IN
          /\ recv_buffer' = recv_buffer \o [i \in 1..res.n |-> arrived + i]
          /\ arrived' = arrived + res.n
          /\ job' = [job EXCEPT ![w] =
                [Idle EXCEPT !.kind = "rw", !.ec = (res.end = "error"),
                             !.pc = IF ~res.bytes THEN "end"
                                    ELSE IF res.n > 0 THEN "dispatch_msg" ELSE "handled_msg"]]
          /\ IF res.end = "unpack_error" THEN CloseLink ELSE UNCHANGED <<linkVars, timer>>
    /\ UNCHANGED <<dispatching, dispatching_msg, handled, reads, disQ, fails>>

(* dispatch_msg: post do_dispatch_msg unless `dispatching' is seen set.      *)
DispatchMsg(w) ==
    /\ At(w, "rw", "dispatch_msg")
    /\ disQ' = IF dispatching THEN disQ ELSE disQ + 1
    /\ Goto(w, "handled_msg")
    /\ UNCHANGED <<bufferVars, reads, rwQ, linkVars, timer, fails>>

(* handled_msg: go on reading, or look again when TIMER_CHECK_RECV fires.    *)
HandledMsg(w) ==
    /\ At(w, "rw", "handled_msg")
    /\ job' = [job EXCEPT ![w].pc = "end", ![w].go_on = is_recv_buffer_available]
    /\ timer' = IF is_recv_buffer_available THEN timer
                ELSE SetTimer("CHECK_RECV")
    /\ UNCHANGED <<bufferVars, queueVars, linkVars, fails>>

(* The end of recv_handler: on_recv_error shuts the link down, or the next   *)
(* read begins.                                                              *)
EndRecvHandler(w) ==
    /\ At(w, "rw", "end")
    /\ IF job[w].ec
       THEN CloseLink /\ UNCHANGED reads
       ELSE /\ reads' = IF job[w].go_on THEN reads + 1 ELSE reads
            /\ UNCHANGED <<linkVars, timer>>
    /\ Done(w)
    /\ UNCHANGED <<bufferVars, rwQ, disQ, fails>>

(* The application calls force_shutdown(); rw_strand runs it.                *)
ForceShutdown ==
    /\ link = "up"
    /\ breaks < MaxBreaks
    /\ \A i \in DOMAIN rwQ : rwQ[i].task # "shutdown"
    /\ rwQ' = Append(rwQ, [task |-> "shutdown"])
    /\ UNCHANGED <<bufferVars, reads, disQ, linkVars, timer, job, fails>>

DoShutdown(w) ==
    /\ Free(w)
    /\ NextTask("shutdown")
    /\ CloseLink
    /\ UNCHANGED <<bufferVars, reads, disQ, job, fails>>

-----------------------------------------------------------------------------
(* The dispatch loop, in dis_strand.                                         *)

(* Mutant: a refused message is not offered again.                           *)
DoDispatchMsgNext(w) ==
    /\ Free(w)
    /\ disQ > 0 /\ ~Held("dis")
    /\ disQ' = disQ - 1
    /\ IF recv_buffer # <<>>
       THEN /\ dispatching' = TRUE
            /\ job' = [job EXCEPT ![w] = [Idle EXCEPT !.kind = "dis", !.pc = "handle"]]
            /\ dispatching_msg' = Head(recv_buffer) /\ recv_buffer' = Tail(recv_buffer)
       ELSE UNCHANGED <<dispatching, dispatching_msg, recv_buffer, job>>
    /\ UNCHANGED <<handled, arrived, reads, rwQ, linkVars, timer, fails>>

(* do_dispatch_msg: the message held, or the next one of the buffer.         *)
DoDispatchMsg(w) ==
    /\ Free(w)
    /\ disQ > 0 /\ ~Held("dis")
    /\ disQ' = disQ - 1
    /\ IF dispatching \/ recv_buffer # <<>>
       THEN /\ dispatching' = TRUE
            /\ job' = [job EXCEPT ![w] = [Idle EXCEPT !.kind = "dis", !.pc = "handle"]]
            /\ IF dispatching
               THEN UNCHANGED <<dispatching_msg, recv_buffer>>
               ELSE dispatching_msg' = Head(recv_buffer) /\ recv_buffer' = Tail(recv_buffer)
       ELSE UNCHANGED <<dispatching, dispatching_msg, recv_buffer, job>>
    /\ UNCHANGED <<handled, arrived, reads, rwQ, linkVars, timer, fails>>

(* on_msg_handle returns true: the message is cleared, `dispatching' falls,  *)
(* and then the next do_dispatch_msg is posted.                              *)
HandleOk(w) ==
    /\ At(w, "dis", "handle")
    /\ handled' = Append(handled, dispatching_msg)
    /\ dispatching_msg' = NoMsg
    /\ dispatching' = FALSE
    /\ Goto(w, "post")
    /\ UNCHANGED <<recv_buffer, arrived, queueVars, linkVars, timer, fails>>

(* Mutant: the next do_dispatch_msg is left to dispatch_msg.                 *)
PostNextLeft(w) ==
    /\ At(w, "dis", "post")
    /\ Done(w)
    /\ UNCHANGED <<bufferVars, queueVars, linkVars, timer, fails>>

PostNext(w) ==
    /\ At(w, "dis", "post")
    /\ disQ' = disQ + 1
    /\ Done(w)
    /\ UNCHANGED <<bufferVars, reads, rwQ, linkVars, timer, fails>>

(* It returns false: the message stays held until TIMER_DISPATCH_MSG fires.  *)
HandleFail(w) ==
    /\ At(w, "dis", "handle")
    /\ fails < MaxFails
    /\ fails' = fails + 1
    /\ timer' = SetTimer("DISPATCH_MSG")
    /\ Done(w)
    /\ UNCHANGED <<bufferVars, queueVars, linkVars>>

-----------------------------------------------------------------------------
(* The handlers of the two timers.                                           *)

Expire(id) ==
    /\ timer[id].wait
    /\ timer' = [timer EXCEPT ![id] = Complete(@, FALSE)]
    /\ UNCHANGED <<bufferVars, queueVars, linkVars, job, fails>>

BeginHandler(w, id) ==
    /\ Free(w)
    /\ timer[id].due # <<>>
    /\ LET h == Head(timer[id].due)
           call == timer[id].status = "STARTED" /\ ~h.cancelled
       IN  job' = [job EXCEPT ![w] = [Idle EXCEPT !.kind = id, !.prev_seq = h.prev_seq,
                                      !.pc = IF call THEN "callback" ELSE "compare"]]
    /\ timer' = [timer EXCEPT ![id].due = Tail(@)]
    /\ UNCHANGED <<bufferVars, queueVars, linkVars, fails>>

(* timer_handler(TIMER_DISPATCH_MSG): post do_dispatch_msg, return false.    *)
RetryDispatch(w) ==
    /\ At(w, "DISPATCH_MSG", "callback")
    /\ disQ' = disQ + 1
    /\ Goto(w, "compare")
    /\ UNCHANGED <<bufferVars, reads, rwQ, linkVars, timer, fails>>

(* Mutant: the negation is missing, so the timer goes on after it resumed.   *)
CheckRecvInverted(w) ==
    /\ At(w, "CHECK_RECV", "callback")
    /\ IF is_recv_buffer_available
       THEN rwQ' = Append(rwQ, [task |-> "do_recv_msg"]) /\ Goto(w, "again")
       ELSE Goto(w, "compare") /\ UNCHANGED rwQ
    /\ UNCHANGED <<bufferVars, reads, disQ, linkVars, timer, fails>>

(* !check_receiving(true): resume reading and end, or try again later.       *)
CheckRecv(w) ==
    /\ At(w, "CHECK_RECV", "callback")
    /\ IF is_recv_buffer_available
       THEN rwQ' = Append(rwQ, [task |-> "do_recv_msg"]) /\ Goto(w, "compare")
       ELSE Goto(w, "again") /\ UNCHANGED rwQ
    /\ UNCHANGED <<bufferVars, reads, disQ, linkVars, timer, fails>>

(* call_back returned true: start again if the timer was not stopped.        *)
Again(w) ==
    /\ At(w, "CHECK_RECV", "again")
    /\ IF timer["CHECK_RECV"].status = "STARTED"
       THEN timer' = SetTimer("CHECK_RECV") /\ Done(w)
       ELSE Goto(w, "compare") /\ UNCHANGED timer
    /\ UNCHANGED <<bufferVars, queueVars, linkVars, fails>>

(* else if (prev_seq == ti.seq) ti.status = TIMER_CANCELED.                  *)
Compare(w, id) ==
    /\ At(w, id, "compare")
    /\ IF SameSeq(timer[id], job[w].prev_seq) THEN Goto(w, "cancel") ELSE Done(w)
    /\ UNCHANGED <<bufferVars, queueVars, linkVars, timer, fails>>

Cancel(w, id) ==
    /\ At(w, id, "cancel")
    /\ timer' = [timer EXCEPT ![id].status = "CANCELED"]
    /\ Done(w)
    /\ UNCHANGED <<bufferVars, queueVars, linkVars, fails>>

-----------------------------------------------------------------------------
(* The end of a connection.                                                  *)

NoAsyncCall ==
    /\ reads = 0 /\ rwQ = <<>> /\ disQ = 0
    /\ \A id \in Timers : AtRest(timer[id])
    /\ \A w \in crew : Free(w)

(* timer_handler(TIMER_DELAY_CLOSE) finds other async calls: it stops every  *)
(* timer but itself and waits on.                                            *)
DelayClose ==
    /\ link = "closing" /\ ~NoAsyncCall
    /\ \E w \in Workers : Free(w)
    /\ timer' = [id \in Timers |-> Stop(timer[id])]
    /\ UNCHANGED <<bufferVars, queueVars, linkVars, job, fails>>

(* It is the last one: on_close, after_close.  A client connects again and   *)
(* keeps what it has received; another socket is reset before object_pool    *)
(* hands it out for the next connection.                                     *)
Restart ==
    /\ link = "closing" /\ NoAsyncCall
    /\ link' = "up"
    /\ rwQ' = <<[task |-> "do_recv_msg"]>>
    /\ IF reconnects
       THEN UNCHANGED bufferVars
       ELSE /\ recv_buffer' = <<>> /\ handled' = <<>> /\ arrived' = 0
            /\ dispatching' = FALSE /\ dispatching_msg' = NoMsg
    /\ UNCHANGED <<setting, reads, disQ, breaks, timer, job, fails>>

-----------------------------------------------------------------------------
(* A thread of the service pump takes a task that is ready ...               *)
TakeIoTask == \E w \in Workers : DoRecvMsg(w) \/ RecvHandler(w) \/ DoShutdown(w)
TakeDispatch == \E w \in Workers : DoDispatchMsg(w)
TakeHandler(id) == \E w \in Workers : BeginHandler(w, id)

(* ... and goes on with the one it has.                                      *)
Work(w) ==
    \/ DispatchMsg(w) \/ HandledMsg(w) \/ EndRecvHandler(w)
    \/ HandleOk(w) \/ PostNext(w)
    \/ RetryDispatch(w) \/ CheckRecv(w) \/ Again(w)
    \/ \E id \in Timers : Compare(w, id) \/ Cancel(w, id)

Next ==
    \/ TakeIoTask \/ TakeDispatch \/ \E id \in Timers : TakeHandler(id)
    \/ \E w \in Workers : Work(w) \/ HandleFail(w)
    \/ \E id \in Timers : Expire(id)
    \/ ReadDone \/ ForceShutdown \/ DelayClose \/ Restart

Spec == Init /\ [][Next]_vars

(* A thread goes on with what it runs, time passes, and io_context runs what *)
(* is ready in the order it became ready, so that none of it waits for ever  *)
(* while the threads turn to the rest.  on_msg_handle accepts a message in   *)
(* the end (HandleFail is bounded).  Messages need not arrive.               *)
FairSpec ==
    /\ Spec
    /\ \A w \in Workers : WF_vars(Work(w))
    /\ SF_vars(TakeIoTask) /\ SF_vars(TakeDispatch)
    /\ \A id \in Timers : SF_vars(TakeHandler(id)) /\ WF_vars(Expire(id))

-----------------------------------------------------------------------------
TypeOK ==
    /\ setting \in Settings
    /\ recv_buffer \in Seq(Nat)
    /\ dispatching \in BOOLEAN
    /\ dispatching_msg \in Nat
    /\ handled \in Seq(Nat)
    /\ arrived \in Nat /\ reads \in Nat /\ disQ \in Nat
    /\ rwQ \in Seq(RwTasks)
    /\ timer \in [Timers -> TimerInfos]
    /\ \A id \in Timers : timer[id].seq < SeqMod
    /\ job \in [Workers -> Jobs]
    /\ link \in {"up", "closing"}
    /\ fails \in Nat /\ breaks \in Nat

(* Messages are handled in the order they arrived, each exactly once, across *)
(* refusals, retries and, on a client, reconnections.                        *)
HeldMsg == IF dispatching_msg = NoMsg THEN <<>> ELSE <<dispatching_msg>>
InOrder == (handled \o HeldMsg) \o recv_buffer = [i \in 1..arrived |-> i]

(* There is never a second async_read on the socket: the read loop and       *)
(* TIMER_CHECK_RECV do not both continue it.                                 *)
ReadTask(i) == rwQ[i].task \in {"recv_handler", "do_recv_msg"}
OneRead ==
    /\ reads <= 1
    /\ \A i, j \in DOMAIN rwQ : ReadTask(i) /\ ReadTask(j) => i = j
    /\ reads > 0 => \A i \in DOMAIN rwQ : ~ReadTask(i)

WillFire(id) ==
    \/ timer[id].status = "STARTED"
         /\ (timer[id].wait \/ \E i \in DOMAIN timer[id].due : ~timer[id].due[i].cancelled)
    \/ \E w \in Workers : job[w].kind = id /\ job[w].pc \in {"callback", "again"}

(* "Messages may get starved in receive buffer and will not be dispatched    *)
(* until arrival of next message" (fixed, says config.h): a message that     *)
(* waits while none is held has a do_dispatch_msg coming.                    *)
NoneStarved ==
    recv_buffer # <<>> /\ ~dispatching =>
        disQ > 0 \/ Held("dis") \/ \E w \in Workers : At(w, "rw", "dispatch_msg")

(* "Call on_msg_handle, if failed, retry it after                            *)
(* ASCS_MSG_HANDLING_INTERVAL milliseconds later" (config.h): a message that *)
(* is held has a retry coming; with several threads, or after a client has   *)
(* connected again, this fails.                                              *)
OneThread == \A v, w \in crew : v = w
RetryComing ==
    OneThread /\ ~reconnects /\ link = "up" /\ dispatching =>
        disQ > 0 \/ Held("dis") \/ WillFire("DISPATCH_MSG")

(* The dispatch loop never stops with a message to be handled.               *)
DispatchComing == NoneStarved /\ RetryComing

(* The read loop of a working link goes on, or TIMER_CHECK_RECV resumes it;  *)
(* with several threads it may not.                                          *)
ReadComing ==
    OneThread /\ link = "up" => reads > 0 \/ rwQ # <<>> \/ Held("rw") \/ WillFire("CHECK_RECV")

(* A message that has arrived is handled in the end, if the link holds.      *)
AllHandled ==
    OneThread /\ ~reconnects => \A n \in 1..MaxMsgs : arrived >= n ~> (Len(handled) >= n \/ link = "closing")
=============================================================================
