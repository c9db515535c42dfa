------------------------- MODULE RecvDispatchProofs -------------------------
(* What holds of RecvDispatch for every number of threads, every size of the *)
(* buffer and of a read, and every bound.                                    *)
EXTENDS RecvDispatch, SequenceTheorems, TLAPS

-----------------------------------------------------------------------------
(* The operations of a timer, for every state of it.                         *)

(* The handlers that are due each have the seq of a start.                   *)
LEMMA DueTyped ==
    ASSUME NEW s \in Seq(Handlers)
    PROVE  \A i \in DOMAIN s : s[i].prev_seq \in Nat /\ s[i].cancelled \in BOOLEAN
<1>1. \A i \in DOMAIN s : s[i] \in Handlers
  OBVIOUS
<1> QED BY <1>1 DEF Handlers

(* The end of a wait: one handler more, and nothing else but `wait'.         *)
LEMMA Completed ==
    ASSUME NEW ti \in TimerInfos, NEW c \in BOOLEAN
    PROVE  /\ Complete(ti, c) \in TimerInfos
           /\ Complete(ti, c).seq = ti.seq /\ Complete(ti, c).status = ti.status
           /\ ~Complete(ti, c).wait
           /\ Complete(ti, c).due =
                 IF ti.wait THEN Append(ti.due, [prev_seq |-> ti.seq, cancelled |-> c]) ELSE ti.due
<1> DEFINE h == [prev_seq |-> ti.seq, cancelled |-> c]
<1>1. ti.due \in Seq(Handlers) /\ h \in Handlers
  BY DEF TimerInfos, Handlers
<1> HIDE DEF h
<1>2. Append(ti.due, h) \in Seq(Handlers)
  BY <1>1
<1>3. Complete(ti, c) = IF ti.wait THEN [ti EXCEPT !.wait = FALSE, !.due = Append(ti.due, h)] ELSE ti
  BY DEF Complete, TimerInfos, h
<1>4. [ti EXCEPT !.wait = FALSE, !.due = Append(ti.due, h)] \in TimerInfos
  BY <1>2 DEF TimerInfos
<1> QED BY <1>3, <1>4 DEF TimerInfos, h

(* stop_timer: a started timer is canceled and its wait cut short.           *)
LEMMA Stopped ==
    ASSUME NEW ti \in TimerInfos
    PROVE  /\ Stop(ti) \in TimerInfos
           /\ Stop(ti).seq = ti.seq
           /\ ti.status # "STARTED" => Stop(ti) = ti
           /\ ti.status = "STARTED" =>
                 /\ Stop(ti).status = "CANCELED" /\ ~Stop(ti).wait
                 /\ Stop(ti).due = IF ti.wait
                                   THEN Append(ti.due, [prev_seq |-> ti.seq, cancelled |-> TRUE])
                                   ELSE ti.due
<1> DEFINE canceled == [ti EXCEPT !.status = "CANCELED"]
<1>1. /\ canceled \in TimerInfos
      /\ canceled.seq = ti.seq /\ canceled.wait = ti.wait /\ canceled.due = ti.due
      /\ canceled.status = "CANCELED"
  BY DEF TimerInfos
<1>2. Stop(ti) = IF ti.status = "STARTED" THEN Complete(canceled, TRUE) ELSE ti
  BY DEF Stop
<1> HIDE DEF canceled
<1>3. /\ Complete(canceled, TRUE) \in TimerInfos
      /\ Complete(canceled, TRUE).seq = canceled.seq
      /\ Complete(canceled, TRUE).status = canceled.status
      /\ ~Complete(canceled, TRUE).wait
      /\ Complete(canceled, TRUE).due =
            IF canceled.wait
            THEN Append(canceled.due, [prev_seq |-> canceled.seq, cancelled |-> TRUE])
            ELSE canceled.due
  BY <1>1, Completed
<1>4. CASE ti.status = "STARTED"
  <2>1. Stop(ti) = Complete(canceled, TRUE)
    BY <1>2, <1>4
  <2> QED BY ONLY <1>1, <1>3, <1>4, <2>1
<1>5. CASE ti.status # "STARTED"
  BY <1>2, <1>5
<1> QED BY <1>4, <1>5

(* start_timer: the next seq, and a wait; the wait before is cut short.      *)
LEMMA Rearmed ==
    ASSUME NEW ti \in TimerInfos
    PROVE  /\ Rearm(ti) \in TimerInfos
           /\ Rearm(ti).seq = ti.seq + 1 /\ Rearm(ti).status = ti.status /\ Rearm(ti).wait
           /\ Rearm(ti).due = IF ti.wait
                              THEN Append(ti.due, [prev_seq |-> ti.seq, cancelled |-> TRUE])
                              ELSE ti.due
<1> DEFINE done == Complete(ti, TRUE)
<1>1. /\ done \in TimerInfos /\ done.seq = ti.seq /\ done.status = ti.status
      /\ done.due = IF ti.wait
                    THEN Append(ti.due, [prev_seq |-> ti.seq, cancelled |-> TRUE])
                    ELSE ti.due
  BY Completed
<1>2. Rearm(ti) = [done EXCEPT !.seq = done.seq + 1, !.wait = TRUE]
  BY <1>1 DEF Rearm, TimerInfos
<1> HIDE DEF done
<1>3. done.seq + 1 \in Nat
  BY <1>1 DEF TimerInfos
<1> QED BY <1>1, <1>2, <1>3 DEF TimerInfos

(* set_timer: a start that also says STARTED.                                *)
LEMMA Begun ==
    ASSUME NEW ti \in TimerInfos
    PROVE  /\ Start(ti) \in TimerInfos
           /\ Start(ti).seq = ti.seq + 1 /\ Start(ti).status = "STARTED" /\ Start(ti).wait
           /\ Start(ti).due = IF ti.wait
                              THEN Append(ti.due, [prev_seq |-> ti.seq, cancelled |-> TRUE])
                              ELSE ti.due
<1> DEFINE started == [ti EXCEPT !.status = "STARTED"]
<1>1. /\ started \in TimerInfos
      /\ started.seq = ti.seq /\ started.wait = ti.wait
      /\ started.due = ti.due /\ started.status = "STARTED"
  BY DEF TimerInfos
<1>2. Start(ti) = Rearm(started)
  BY DEF Start
<1> HIDE DEF started
<1> QED BY <1>1, <1>2, Rearmed

-----------------------------------------------------------------------------
(* The parts of the inductive invariants.                                    *)

(* Each kind of job has its own places; a strand has one holder; only        *)
(* threads that run have jobs.                                               *)
Places(kind) ==
    CASE kind = "none" -> {"idle"}
      [] kind = "rw" -> {"dispatch_msg", "handled_msg", "end"}
      [] kind = "dis" -> {"handle", "post"}
      [] kind = "DISPATCH_MSG" -> {"callback", "compare", "cancel"}
      [] kind = "CHECK_RECV" -> {"callback", "again", "compare", "cancel"}
Jobbed ==
    /\ \A w \in Workers : job[w].pc \in Places(job[w].kind)
    /\ \A w \in Workers : job[w].kind # "none" => w \in crew
    /\ \A v, w \in Workers : job[v].kind = job[w].kind /\ job[v].kind \in {"rw", "dis"} => v = w

(* The held message and the flag go together, and a message is being handled *)
(* only while it is held.                                                    *)
Holding ==
    /\ dispatching <=> dispatching_msg # NoMsg
    /\ \A w \in Workers : At(w, "dis", "handle") => dispatching

(* A read that brought no byte brought no message, and has failed.           *)
BareErrors ==
    \A i \in DOMAIN rwQ : rwQ[i].task = "recv_handler" /\ ~rwQ[i].res.bytes =>
        rwQ[i].res.n = 0 /\ rwQ[i].res.end = "error"

(* Who is to continue the read loop: the read that is out, a task of the     *)
(* strand, recv_handler before its last line, the timer, its handler when it *)
(* is due, its handler when it runs.                                         *)
Who == {"read", "task", "handler", "timer", "due", "callback"}
Queued == \E i \in DOMAIN rwQ : ReadTask(i)
GoingOn(w) ==
    /\ job[w].kind = "rw"
    /\ job[w].pc = "end" => job[w].go_on /\ ~job[w].ec
Failing(w) == job[w].kind = "rw" /\ job[w].ec
Armed == timer["CHECK_RECV"].wait
Valid(i) == ~timer["CHECK_RECV"].due[i].cancelled
Firing == \E i \in DOMAIN timer["CHECK_RECV"].due : Valid(i)
Checking(w) == job[w].kind = "CHECK_RECV" /\ job[w].pc \in {"callback", "again"}
Continues(who) ==
    \/ who = "read" /\ reads > 0
    \/ who = "task" /\ Queued
    \/ who = "handler" /\ \E w \in Workers : GoingOn(w)
    \/ who = "timer" /\ Armed
    \/ who = "due" /\ Firing
    \/ who = "callback" /\ \E w \in Workers : Checking(w)

(* Nobody but one does, and it does so once.                                 *)
Sole == \A a, b \in Who : Continues(a) /\ Continues(b) => a = b
Once ==
    /\ reads <= 1
    /\ \A i, j \in DOMAIN rwQ : ReadTask(i) /\ ReadTask(j) => i = j
    /\ \A i, j \in DOMAIN timer["CHECK_RECV"].due : Valid(i) /\ Valid(j) => i = j
    /\ \A v, w \in Workers : Checking(v) /\ Checking(w) => v = w
Reader == Sole /\ Once

(* With one thread, the timer of a working link is not touched by handlers   *)
(* of earlier runs, its handler ends when somebody else continues, and so    *)
(* there is always somebody who does.                                        *)
Timely ==
    LET ti == timer["CHECK_RECV"] IN
    /\ ti.wait \/ ti.due # <<>> \/ (\E w \in Workers : Checking(w)) => ti.status = "STARTED"
    /\ \A i \in DOMAIN ti.due : Valid(i)
Relieved ==
    \A w \in Workers : job[w].kind = "CHECK_RECV" => Checking(w) \/ reads > 0 \/ Queued
Somebody ==
    \/ reads > 0 \/ Queued \/ Armed \/ Firing
    \/ \E w \in Workers : GoingOn(w) \/ Checking(w) \/ Failing(w)
Resumed == OneThread /\ link = "up" => Timely /\ Relieved /\ Somebody

(* The handlers of TIMER_DISPATCH_MSG run in the order of the starts, each   *)
(* of which was a refusal: the one that runs is of an earlier start than     *)
(* those that are due, and these of an earlier one than the wait.            *)
Counted ==
    LET ti == timer["DISPATCH_MSG"] IN
    /\ ti.seq = fails
    /\ fails <= MaxFails
    /\ \A i \in DOMAIN ti.due : ti.due[i].prev_seq <= fails /\ (ti.wait => ti.due[i].prev_seq < fails)
    /\ \A i, j \in DOMAIN ti.due : i < j => ti.due[i].prev_seq < ti.due[j].prev_seq
InTurnRun ==
    LET ti == timer["DISPATCH_MSG"] IN
    OneThread => \A w \in Workers : job[w].kind = "DISPATCH_MSG" =>
        /\ job[w].prev_seq <= fails
        /\ ti.wait => job[w].prev_seq < fails
        /\ \A i \in DOMAIN ti.due : job[w].prev_seq < ti.due[i].prev_seq

(* With one thread, on a socket that is not reconnected, only the handler of *)
(* the last start cancels TIMER_DISPATCH_MSG, and it has posted a            *)
(* do_dispatch_msg before.                                                   *)
Pending ==
    LET ti == timer["DISPATCH_MSG"] IN
    /\ ti.wait \/ ti.due # <<>> => ti.status = "STARTED"
    /\ \A i \in DOMAIN ti.due : ti.due[i].cancelled => ti.due[i].prev_seq # fails
Posted ==
    \A w \in Workers :
        /\ At(w, "DISPATCH_MSG", "compare") /\ job[w].prev_seq = fails => disQ > 0
        /\ At(w, "DISPATCH_MSG", "cancel") => disQ > 0 /\ job[w].prev_seq = fails
Retried == dispatching => disQ > 0 \/ Held("dis") \/ WillFire("DISPATCH_MSG")
Offered == OneThread /\ ~reconnects /\ link = "up" => Pending /\ Posted /\ Retried

-----------------------------------------------------------------------------
(* Type correctness.                                                         *)

(* set_timer: the timer is started, the other left alone.                    *)
LEMMA TimerSet ==
    ASSUME timer \in [Timers -> TimerInfos], NEW id \in Timers
    PROVE  LET ti == timer[id]
               new == SetTimer(id)[id]
           IN  /\ SetTimer(id) \in [Timers -> TimerInfos]
               /\ \A other \in Timers \ {id} : SetTimer(id)[other] = timer[other]
               /\ new.seq = (ti.seq + 1) % SeqMod /\ new.seq \in 0..(SeqMod - 1)
               /\ new.status = "STARTED" /\ new.wait
               /\ new.due = IF ti.wait
                            THEN Append(ti.due, [prev_seq |-> ti.seq, cancelled |-> TRUE])
                            ELSE ti.due
<1> DEFINE new == [Start(timer[id]) EXCEPT !.seq = Start(timer[id]).seq % SeqMod]
<1>1. PICK started \in TimerInfos : started = Start(timer[id])
  BY Begun
<1>2. /\ started.seq = timer[id].seq + 1 /\ started.status = "STARTED" /\ started.wait
      /\ started.due = IF timer[id].wait
                       THEN Append(timer[id].due, [prev_seq |-> timer[id].seq, cancelled |-> TRUE])
                       ELSE timer[id].due
  BY <1>1, Begun
<1>3. \A n \in Nat : n % SeqMod \in 0..(SeqMod - 1) /\ n % SeqMod \in Nat
  BY SeqAssumption
<1>4. started.seq % SeqMod \in 0..(SeqMod - 1) /\ started.seq % SeqMod \in Nat
  BY <1>1, <1>3 DEF TimerInfos
<1>5. /\ new \in TimerInfos /\ new.seq = started.seq % SeqMod /\ new.status = started.status
      /\ new.wait = started.wait /\ new.due = started.due
  BY <1>1, <1>4 DEF TimerInfos
<1>6. SetTimer(id) = [timer EXCEPT ![id] = new]
  BY DEF SetTimer
<1> HIDE DEF new
<1> QED BY <1>2, <1>4, <1>5, <1>6

(* What a thread does next, and a thread that is done.                       *)
LEMMA Moved ==
    ASSUME job \in [Workers -> Jobs], NEW w \in Workers,
           NEW p \in {"dispatch_msg", "handled_msg", "end", "handle", "post",
                      "callback", "again", "compare", "cancel"},
           Goto(w, p)
    PROVE  /\ job' \in [Workers -> Jobs]
           /\ \A v \in Workers \ {w} : job'[v] = job[v]
           /\ job'[w].pc = p /\ job'[w].kind = job[w].kind /\ job'[w].prev_seq = job[w].prev_seq
           /\ job'[w].go_on = job[w].go_on /\ job'[w].ec = job[w].ec
<1>1. job[w] \in Jobs
  OBVIOUS
<1>2. job' = [job EXCEPT ![w] = [job[w] EXCEPT !.pc = p]]
  BY DEF Goto
<1>3. [job[w] EXCEPT !.pc = p] \in Jobs
  BY <1>1 DEF Jobs
<1> QED BY <1>1, <1>2, <1>3 DEF Jobs

LEMMA Ended ==
    ASSUME job \in [Workers -> Jobs], NEW w \in Workers, Done(w)
    PROVE  /\ job' \in [Workers -> Jobs]
           /\ \A v \in Workers \ {w} : job'[v] = job[v]
           /\ job'[w] = Idle
<1>1. Idle \in Jobs
  BY DEF Idle, Jobs
<1> QED BY <1>1 DEF Done

LEMMA TypeInit == Init => TypeOK
<1> SUFFICES ASSUME Init PROVE TypeOK
  OBVIOUS
<1>1. /\ Idle \in Jobs /\ NewTimer \in TimerInfos
      /\ \A id \in Timers : timer[id].seq < SeqMod
  BY SeqAssumption DEF Init, Idle, Jobs, NewTimer, TimerInfos, Handlers
<1>2. rwQ \in Seq(RwTasks)
  BY DEF Init, RwTasks
<1>3. timer \in [Timers -> TimerInfos] /\ job \in [Workers -> Jobs]
  BY <1>1 DEF Init
<1>4. /\ setting \in Settings /\ recv_buffer \in Seq(Nat) /\ handled \in Seq(Nat)
      /\ dispatching \in BOOLEAN /\ dispatching_msg \in Nat
      /\ arrived \in Nat /\ reads \in Nat /\ disQ \in Nat /\ fails \in Nat /\ breaks \in Nat
      /\ link \in {"up", "closing"}
  <2>1. <<>> \in Seq(Nat)
    OBVIOUS
  <2> QED BY <2>1 DEF Init, NoMsg
<1> QED BY <1>1, <1>2, <1>3, <1>4 DEF TypeOK

(* close() leaves the link closing and at most stops the timers.             *)
LEMMA ClosedLink ==
    ASSUME TypeOK, CloseLink
    PROVE  /\ link' \in {"up", "closing"} /\ setting' = setting /\ breaks' \in Nat
           /\ link' = "closing"
           /\ timer' = timer \/ timer' = [id \in Timers |-> Stop(timer[id])]
           /\ timer' \in [Timers -> TimerInfos] /\ \A id \in Timers : timer'[id].seq < SeqMod
<1>1. \A id \in Timers : Stop(timer[id]) \in TimerInfos /\ Stop(timer[id]).seq = timer[id].seq
  BY Stopped DEF TypeOK
<1> QED BY <1>1 DEF TypeOK, CloseLink, linkVars

LEMMA TypeNext == TypeOK /\ [Next]_vars => TypeOK'
<1> SUFFICES ASSUME TypeOK, [Next]_vars PROVE TypeOK'
  OBVIOUS
<1> USE DEF TypeOK, bufferVars, queueVars, linkVars
<1>0. ASSUME NextTask("do_recv_msg") \/ NextTask("recv_handler") \/ NextTask("shutdown")
      PROVE  rwQ' \in Seq(RwTasks)
  <2>1. rwQ # <<>> /\ rwQ' = Tail(rwQ)
    BY <1>0 DEF NextTask
  <2> QED BY <2>1, HeadTailProperties
<1>1. ASSUME NEW w \in Workers, DoRecvMsg(w) PROVE TypeOK'
  BY <1>0, <1>1 DEF DoRecvMsg
<1>2. ASSUME NEW w \in Workers, RecvHandler(w) PROVE TypeOK'
  <2> DEFINE res == Head(rwQ).res
  <2>1. res \in Results
    <3>1. rwQ # <<>> /\ Head(rwQ).task = "recv_handler"
      BY <1>2 DEF RecvHandler, NextTask
    <3>2. Head(rwQ) \in RwTasks
      BY <3>1, HeadTailProperties
    <3> QED BY <3>1, <3>2 DEF RwTasks
  <2>2. res.n \in Nat /\ res.end \in {"ok", "unpack_error", "error"} /\ res.bytes \in BOOLEAN
    BY <2>1, RecvAssumption DEF Results
  <2>3. /\ recv_buffer' = recv_buffer \o [i \in 1..res.n |-> arrived + i]
        /\ arrived' = arrived + res.n
        /\ job' = [job EXCEPT ![w] =
                [Idle EXCEPT !.kind = "rw", !.ec = (res.end = "error"),
                             !.pc = IF ~res.bytes THEN "end"
                                    ELSE IF res.n > 0 THEN "dispatch_msg" ELSE "handled_msg"]]
        /\ CloseLink \/ UNCHANGED <<linkVars, timer>>
        /\ UNCHANGED <<dispatching, dispatching_msg, handled, reads, disQ, fails>>
    BY <1>2 DEF RecvHandler
  <2> HIDE DEF res
  <2>4. recv_buffer' \in Seq(Nat)
    <3>1. \A n \in Nat : [i \in 1..n |-> arrived + i] \in Seq(Nat)
      OBVIOUS
    <3>2. [i \in 1..res.n |-> arrived + i] \in Seq(Nat)
      BY <2>2, <3>1
    <3> QED BY <2>3, <3>2
  <2>5. job' \in [Workers -> Jobs]
    BY <2>2, <2>3 DEF Jobs, Idle
  <2>6. /\ link' \in {"up", "closing"} /\ setting' = setting /\ breaks' \in Nat
        /\ timer' \in [Timers -> TimerInfos] /\ \A id \in Timers : timer'[id].seq < SeqMod
    BY <2>3, ClosedLink
  <2>7. rwQ' \in Seq(RwTasks)
    BY <1>0, <1>2 DEF RecvHandler
  <2>8. arrived' \in Nat
    <3>1. arrived \in Nat
      BY DEF TypeOK
    <3> QED BY ONLY <2>2, <2>3, <3>1
  <2>9. setting' \in Settings
    BY <2>6
  <2> QED BY ONLY TypeOK, <2>3, <2>4, <2>5, <2>6, <2>7, <2>8, <2>9 DEF TypeOK
<1>3. ASSUME NEW w \in Workers, DispatchMsg(w) PROVE TypeOK'
  BY <1>3, Moved DEF DispatchMsg
<1>4. ASSUME NEW w \in Workers, HandledMsg(w) PROVE TypeOK'
  <2>1. job' \in [Workers -> Jobs]
    <3>1. job' = [job EXCEPT ![w] = [job[w] EXCEPT !.pc = "end", !.go_on = is_recv_buffer_available]]
      BY <1>4 DEF HandledMsg
    <3>2. is_recv_buffer_available \in BOOLEAN
      BY DEF is_recv_buffer_available
    <3>3. job[w] \in Jobs
      OBVIOUS
    <3>4. [job[w] EXCEPT !.pc = "end", !.go_on = is_recv_buffer_available] \in Jobs
      BY ONLY <3>2, <3>3 DEF Jobs
    <3> QED BY <3>1, <3>4
  <2>2. timer' \in [Timers -> TimerInfos] /\ \A id \in Timers : timer'[id].seq < SeqMod
    <3>1. CASE timer' = timer
      BY <3>1
    <3>2. CASE timer' = SetTimer("CHECK_RECV")
      BY <3>2, TimerSet, SeqAssumption DEF Timers
    <3> QED BY <1>4, <3>1, <3>2 DEF HandledMsg
  <2> QED BY <1>4, <2>1, <2>2 DEF HandledMsg
<1>5. ASSUME NEW w \in Workers, EndRecvHandler(w) PROVE TypeOK'
  <2>1. job' \in [Workers -> Jobs]
    BY <1>5 DEF EndRecvHandler, Done, Idle, Jobs
  <2>2. /\ CloseLink \/ UNCHANGED <<linkVars, timer>>
        /\ reads' \in {reads, reads + 1}
        /\ UNCHANGED <<bufferVars, rwQ, disQ, fails>>
    BY <1>5 DEF EndRecvHandler
  <2>3. /\ link' \in {"up", "closing"} /\ setting' = setting /\ breaks' \in Nat
        /\ timer' \in [Timers -> TimerInfos] /\ \A id \in Timers : timer'[id].seq < SeqMod
    BY <2>2, ClosedLink
  <2> QED BY <2>1, <2>2, <2>3
<1>6. ASSUME NEW w \in Workers, DoShutdown(w) PROVE TypeOK'
  BY <1>0, <1>6, ClosedLink DEF DoShutdown
<1>7. ASSUME NEW w \in Workers, DoDispatchMsg(w) PROVE TypeOK'
  <2>1. job' \in [Workers -> Jobs]
    <3>1. [Idle EXCEPT !.kind = "dis", !.pc = "handle"] \in Jobs
      BY DEF Idle, Jobs
    <3> QED BY <1>7, <3>1 DEF DoDispatchMsg
  <2>2. recv_buffer' \in Seq(Nat) /\ dispatching_msg' \in Nat /\ dispatching' \in BOOLEAN /\ disQ' \in Nat
    <3>1. disQ' = disQ - 1 /\ disQ > 0
      BY <1>7 DEF DoDispatchMsg
    <3>2. recv_buffer # <<>> => Head(recv_buffer) \in Nat /\ Tail(recv_buffer) \in Seq(Nat)
      BY HeadTailProperties
    <3>3. disQ' \in Nat
      BY <3>1
    <3>4. /\ dispatching' \in {dispatching, TRUE}
          /\ dispatching_msg' \in {dispatching_msg, Head(recv_buffer)}
          /\ recv_buffer' \in {recv_buffer, Tail(recv_buffer)}
          /\ recv_buffer = <<>> => UNCHANGED <<recv_buffer, dispatching_msg>>
      BY <1>7 DEF DoDispatchMsg
    <3> QED BY <3>2, <3>3, <3>4
  <2> QED BY <1>7, <2>1, <2>2 DEF DoDispatchMsg
<1>8. ASSUME NEW w \in Workers, HandleOk(w) PROVE TypeOK'
  <2>1. job' \in [Workers -> Jobs]
    BY <1>8, Moved DEF HandleOk
  <2>2. handled' \in Seq(Nat)
    BY <1>8 DEF HandleOk
  <2> QED BY <1>8, <2>1, <2>2 DEF HandleOk, NoMsg
<1>9. ASSUME NEW w \in Workers, PostNext(w) PROVE TypeOK'
  BY <1>9 DEF PostNext, Done, Jobs, Idle
<1>10. ASSUME NEW w \in Workers, HandleFail(w) PROVE TypeOK'
  <2>1. job' \in [Workers -> Jobs]
    BY <1>10 DEF HandleFail, Done, Idle, Jobs
  <2>2. timer' \in [Timers -> TimerInfos] /\ \A id \in Timers : timer'[id].seq < SeqMod
    BY <1>10, TimerSet, SeqAssumption DEF HandleFail, Timers
  <2> QED BY <1>10, <2>1, <2>2 DEF HandleFail
<1>11. ASSUME NEW id \in Timers, Expire(id) PROVE TypeOK'
  <2>1. timer' \in [Timers -> TimerInfos] /\ \A i \in Timers : timer'[i].seq < SeqMod
    BY <1>11, Completed DEF Expire
  <2> QED BY <1>11, <2>1 DEF Expire
<1>12. ASSUME NEW w \in Workers, NEW id \in Timers, BeginHandler(w, id) PROVE TypeOK'
  <2>1. timer[id].due \in Seq(Handlers) /\ timer[id].due # <<>>
    BY <1>12 DEF BeginHandler, TimerInfos
  <2>4. Head(timer[id].due) \in Handlers /\ Tail(timer[id].due) \in Seq(Handlers)
    BY <2>1, HeadTailProperties
  <2>5. Head(timer[id].due).prev_seq \in Nat
    BY <2>4 DEF Handlers
  <2>2. job' \in [Workers -> Jobs]
    BY <1>12, <2>5 DEF BeginHandler, Idle, Jobs
  <2>3. timer' \in [Timers -> TimerInfos] /\ \A i \in Timers : timer'[i].seq < SeqMod
    <3>1. timer' = [timer EXCEPT ![id] = [timer[id] EXCEPT !.due = Tail(timer[id].due)]]
      BY <1>12 DEF BeginHandler
    <3>2. [timer[id] EXCEPT !.due = Tail(timer[id].due)] \in TimerInfos
      BY <2>4 DEF TimerInfos
    <3> QED BY <3>1, <3>2 DEF TimerInfos
  <2> QED BY <1>12, <2>2, <2>3 DEF BeginHandler
<1>13. ASSUME NEW w \in Workers, RetryDispatch(w) PROVE TypeOK'
  BY <1>13, Moved DEF RetryDispatch
<1>14. ASSUME NEW w \in Workers, CheckRecv(w) PROVE TypeOK'
  <2>1. job' \in [Workers -> Jobs]
    BY <1>14, Moved DEF CheckRecv
  <2>2. rwQ' \in Seq(RwTasks)
    <3>1. [task |-> "do_recv_msg"] \in RwTasks
      BY DEF RwTasks
    <3>2. Append(rwQ, [task |-> "do_recv_msg"]) \in Seq(RwTasks)
      BY <3>1
    <3> QED BY <1>14, <3>2 DEF CheckRecv
  <2> QED BY <1>14, <2>1, <2>2 DEF CheckRecv
<1>15. ASSUME NEW w \in Workers, Again(w) PROVE TypeOK'
  <2>1. job' \in [Workers -> Jobs]
    BY <1>15, Moved, Ended DEF Again
  <2>2. timer' \in [Timers -> TimerInfos] /\ \A id \in Timers : timer'[id].seq < SeqMod
    BY <1>15, TimerSet, SeqAssumption DEF Again, Timers
  <2> QED BY <1>15, <2>1, <2>2 DEF Again
<1>16. ASSUME NEW w \in Workers, NEW id \in Timers, Compare(w, id) PROVE TypeOK'
  BY <1>16, Moved, Ended DEF Compare
<1>17. ASSUME NEW w \in Workers, NEW id \in Timers, Cancel(w, id) PROVE TypeOK'
  <2>1. job' \in [Workers -> Jobs]
    BY <1>17, Ended DEF Cancel
  <2>2. timer' \in [Timers -> TimerInfos] /\ \A other \in Timers : timer'[other].seq < SeqMod
    <3>1. timer[id] \in TimerInfos /\ timer[id].seq < SeqMod
      OBVIOUS
    <3>2. [timer[id] EXCEPT !.status = "CANCELED"] \in TimerInfos
          /\ [timer[id] EXCEPT !.status = "CANCELED"].seq = timer[id].seq
      BY <3>1 DEF TimerInfos
    <3>3. timer' = [timer EXCEPT ![id] = [timer[id] EXCEPT !.status = "CANCELED"]]
      BY <1>17 DEF Cancel
    <3> QED BY <3>1, <3>2, <3>3
  <2> QED BY <1>17, <2>1, <2>2 DEF Cancel
<1>18. ASSUME ReadDone PROVE TypeOK'
  BY <1>18 DEF ReadDone, RwTasks
<1>19. ASSUME ForceShutdown PROVE TypeOK'
  BY <1>19 DEF ForceShutdown, RwTasks
<1>20. ASSUME DelayClose PROVE TypeOK'
  BY <1>20, Stopped DEF DelayClose
<1>21. ASSUME Restart PROVE TypeOK'
  <2>1. rwQ' \in Seq(RwTasks)
    BY <1>21 DEF Restart, RwTasks
  <2>2. <<>> \in Seq(Nat)
    OBVIOUS
  <2>3. /\ recv_buffer' \in Seq(Nat) /\ handled' \in Seq(Nat) /\ arrived' \in Nat
        /\ dispatching' \in BOOLEAN /\ dispatching_msg' \in Nat
    <3>1. CASE reconnects
      BY <1>21, <3>1 DEF Restart
    <3>2. CASE ~reconnects
      <4>1. recv_buffer' = <<>> /\ handled' = <<>> /\ arrived' = 0 /\ dispatching' = FALSE /\ dispatching_msg' = 0
        BY <1>21, <3>2 DEF Restart, NoMsg
      <4> QED BY <2>2, <4>1
    <3> QED BY <3>1, <3>2
  <2>4. link' = "up" /\ UNCHANGED <<setting, reads, disQ, breaks, timer, job, fails>>
    BY <1>21 DEF Restart
  <2> QED BY <2>1, <2>3, <2>4
<1>22. CASE UNCHANGED vars
  BY <1>22 DEF vars
<1> QED
  BY <1>1, <1>2, <1>3, <1>4, <1>5, <1>6, <1>7, <1>8, <1>9, <1>10, <1>11, <1>12, <1>13, <1>14,
     <1>15, <1>16, <1>17, <1>18, <1>19, <1>20, <1>21, <1>22
     DEF Next, TakeIoTask, TakeDispatch, TakeHandler, Work

(* The variables keep their types.                                           *)
THEOREM TypeCorrect == Spec => []TypeOK
BY TypeInit, TypeNext, PTL DEF Spec


-----------------------------------------------------------------------------
(* Jobs, strands and the held message.                                       *)

(* A step that changes the job of one thread keeps what holds of all of them. *)
LEMMA JobbedKept ==
    ASSUME TypeOK, Jobbed, setting' = setting, NEW w \in Workers,
           job' \in [Workers -> Jobs], \A v \in Workers \ {w} : job'[v] = job[v],
           job'[w].pc \in Places(job'[w].kind),
           \/ job'[w].kind \in {"none", job[w].kind}
           \/ w \in crew /\ (job'[w].kind \in {"rw", "dis"} => ~Held(job'[w].kind))
    PROVE  Jobbed'
<1>1. crew' = crew
  BY DEF crew
<1>2. job[w].kind \in {"none", "rw", "dis"} \cup Timers
  BY DEF TypeOK, Jobs
<1>3. ASSUME NEW v \in Workers PROVE job'[v].pc \in Places(job'[v].kind)
  BY DEF Jobbed
<1>4. ASSUME NEW v \in Workers, job'[v].kind # "none" PROVE v \in crew'
  BY <1>1, <1>4 DEF Jobbed
<1>5. ASSUME NEW v \in Workers, NEW u \in Workers,
             job'[v].kind = job'[u].kind, job'[v].kind \in {"rw", "dis"}
      PROVE  v = u
  BY <1>5 DEF Jobbed, Held
<1> QED BY <1>3, <1>4, <1>5 DEF Jobbed, Places

(* Strands have one holder, and only threads that run have jobs.             *)
LEMMA JobbedNext == TypeOK /\ Jobbed /\ [Next]_vars => Jobbed'
<1> SUFFICES ASSUME TypeOK, Jobbed, [Next]_vars PROVE Jobbed'
  OBVIOUS
<1> USE DEF bufferVars, queueVars, linkVars
<1>1. job \in [Workers -> Jobs] /\ \A w \in Workers : job[w].pc \in Places(job[w].kind)
  BY DEF TypeOK, Jobbed
<1>2. ASSUME UNCHANGED <<setting, job>> PROVE Jobbed'
  BY <1>2 DEF Jobbed, crew
<1>3. ASSUME NEW w \in Workers, Done(w), setting' = setting PROVE Jobbed'
  <2>1. Idle.kind = "none" /\ Idle.pc \in Places("none")
    BY DEF Idle, Places
  <2> QED BY <1>1, <1>3, <2>1, Ended, JobbedKept
<1>4. ASSUME NEW w \in Workers, NEW p \in {"handled_msg", "post", "again", "compare", "cancel"},
             Goto(w, p), p \in Places(job[w].kind), setting' = setting
      PROVE  Jobbed'
  BY <1>1, <1>4, Moved, JobbedKept
<1>5. ASSUME NEW w \in Workers, RecvHandler(w) PROVE Jobbed'
  <2>1. w \in crew /\ ~Held("rw") /\ setting' = setting
    BY <1>5 DEF RecvHandler, Free, NextTask, CloseLink
  <2>2. job' \in [Workers -> Jobs] /\ \A v \in Workers \ {w} : job'[v] = job[v]
    BY <1>1, <1>5, TypeNext DEF RecvHandler, TypeOK
  <2>3. job'[w].kind = "rw" /\ job'[w].pc \in Places("rw")
    BY <1>1, <1>5 DEF RecvHandler, Idle, Places
  <2> QED BY <2>1, <2>2, <2>3, JobbedKept
<1>6. ASSUME NEW w \in Workers, DispatchMsg(w) PROVE Jobbed'
  BY <1>4, <1>6 DEF DispatchMsg, At, Places
<1>7. ASSUME NEW w \in Workers, HandledMsg(w) PROVE Jobbed'
  <2>1. job' \in [Workers -> Jobs] /\ \A v \in Workers \ {w} : job'[v] = job[v]
    BY <1>1, <1>7, TypeNext DEF HandledMsg, TypeOK
  <2>2. job'[w].kind = job[w].kind /\ job'[w].pc = "end" /\ job[w].kind = "rw" /\ setting' = setting
    BY <1>1, <1>7 DEF HandledMsg, At, Jobs
  <2> QED BY <2>1, <2>2, JobbedKept DEF Places
<1>8. ASSUME NEW w \in Workers, EndRecvHandler(w) PROVE Jobbed'
  BY <1>3, <1>8 DEF EndRecvHandler, CloseLink
<1>9. ASSUME NEW w \in Workers, DoDispatchMsg(w) PROVE Jobbed'
  <2>1. CASE job' = job
    BY <1>2, <1>9, <2>1 DEF DoDispatchMsg
  <2>2. CASE job' # job
    <3>1. w \in crew /\ ~Held("dis") /\ setting' = setting
      BY <1>9 DEF DoDispatchMsg, Free
    <3>2. job' \in [Workers -> Jobs]
      BY TypeNext DEF TypeOK
    <3>3. /\ \A v \in Workers \ {w} : job'[v] = job[v]
          /\ job'[w].kind = "dis" /\ job'[w].pc \in Places("dis")
      BY <1>1, <1>9, <2>2 DEF DoDispatchMsg, Idle, Places
    <3> QED BY <3>1, <3>2, <3>3, JobbedKept
  <2> QED BY <2>1, <2>2
<1>10. ASSUME NEW w \in Workers, HandleOk(w) PROVE Jobbed'
  BY <1>4, <1>10 DEF HandleOk, At, Places
<1>11. ASSUME NEW w \in Workers, PostNext(w) \/ HandleFail(w) PROVE Jobbed'
  BY <1>3, <1>11 DEF PostNext, HandleFail
<1>12. ASSUME NEW w \in Workers, NEW id \in Timers, BeginHandler(w, id) PROVE Jobbed'
  <2>1. w \in crew /\ setting' = setting
    BY <1>12 DEF BeginHandler, Free
  <2>2. job' \in [Workers -> Jobs]
    BY TypeNext DEF TypeOK
  <2>3. /\ \A v \in Workers \ {w} : job'[v] = job[v]
        /\ job'[w].kind = id /\ job'[w].pc \in {"callback", "compare"}
    BY <1>1, <1>12 DEF BeginHandler, Idle
  <2> QED BY <2>1, <2>2, <2>3, JobbedKept DEF Places, Timers
<1>13. ASSUME NEW w \in Workers, RetryDispatch(w) PROVE Jobbed'
  BY <1>4, <1>13 DEF RetryDispatch, At, Places
<1>14. ASSUME NEW w \in Workers, CheckRecv(w) PROVE Jobbed'
  BY <1>4, <1>14 DEF CheckRecv, At, Places
<1>15. ASSUME NEW w \in Workers, Again(w) PROVE Jobbed'
  BY <1>3, <1>4, <1>15 DEF Again, At, Places
<1>16. ASSUME NEW w \in Workers, NEW id \in Timers, Compare(w, id) \/ Cancel(w, id) PROVE Jobbed'
  BY <1>3, <1>4, <1>16 DEF Compare, Cancel, At, Places, Timers
<1>17. ASSUME \/ \E w \in Workers : DoRecvMsg(w) \/ DoShutdown(w)
              \/ \E id \in Timers : Expire(id)
              \/ ReadDone \/ ForceShutdown \/ DelayClose \/ Restart \/ UNCHANGED vars
       PROVE  Jobbed'
  <2>1. UNCHANGED <<setting, job>>
    BY <1>17 DEF DoRecvMsg, DoShutdown, CloseLink, Expire, ReadDone, ForceShutdown, DelayClose,
                 Restart, vars
  <2> QED BY <1>2, <2>1
<1> QED
  BY <1>5, <1>6, <1>7, <1>8, <1>9, <1>10, <1>11, <1>12, <1>13, <1>14, <1>15, <1>16, <1>17
     DEF Next, TakeIoTask, TakeDispatch, TakeHandler, Work

(* A message is held exactly while the flag is up, and handled only then.    *)
LEMMA HoldingNext == TypeOK /\ Jobbed /\ Holding /\ InOrder /\ [Next]_vars => Holding'
<1> SUFFICES ASSUME TypeOK, Jobbed, Holding, InOrder, [Next]_vars PROVE Holding'
  OBVIOUS
<1> USE DEF bufferVars, queueVars, linkVars
<1>1. job \in [Workers -> Jobs]
  BY DEF TypeOK
<1>2. ASSUME UNCHANGED <<dispatching, dispatching_msg>>,
             \A w \in Workers : At(w, "dis", "handle")' => At(w, "dis", "handle")
      PROVE  Holding'
  BY <1>2 DEF Holding
<1>3. ASSUME UNCHANGED <<dispatching, dispatching_msg>>, NEW w \in Workers,
             \A v \in Workers \ {w} : job'[v] = job[v],
             job'[w].kind # "dis" \/ job'[w].pc # "handle"
      PROVE  Holding'
  BY <1>2, <1>3 DEF At
<1>4. ASSUME NEW w \in Workers, RecvHandler(w) PROVE Holding'
  BY <1>1, <1>3, <1>4 DEF RecvHandler, Idle
<1>5. ASSUME NEW w \in Workers, HandledMsg(w) PROVE Holding'
  BY <1>1, <1>3, <1>5 DEF HandledMsg, At, Jobs
<1>6. ASSUME NEW w \in Workers, Done(w), UNCHANGED <<dispatching, dispatching_msg>> PROVE Holding'
  BY <1>1, <1>3, <1>6 DEF Done, Idle
<1>7. ASSUME NEW w \in Workers, NEW p \in {"handled_msg", "again", "compare", "cancel"}, Goto(w, p),
             UNCHANGED <<dispatching, dispatching_msg>>
      PROVE Holding'
  BY <1>1, <1>3, <1>7, Moved
<1>8. ASSUME NEW w \in Workers, DoDispatchMsg(w) PROVE Holding'
  <2>1. CASE dispatching
    <3>1. UNCHANGED <<dispatching, dispatching_msg>>
      BY <1>8, <2>1 DEF DoDispatchMsg, TypeOK
    <3> QED BY <2>1, <3>1 DEF Holding
  <2>2. CASE ~dispatching /\ recv_buffer # <<>>
    <3>1. dispatching' = TRUE /\ dispatching_msg' = Head(recv_buffer)
      BY <1>8, <2>2 DEF DoDispatchMsg
    <3>2. Head(recv_buffer) # NoMsg
      <4> DEFINE before == handled \o HeldMsg
      <4>1. before \in Seq(Nat) /\ recv_buffer \in Seq(Nat) /\ arrived \in Nat
        BY DEF TypeOK, HeldMsg
      <4> HIDE DEF before
      <4>2. before \o recv_buffer = [i \in 1..arrived |-> i]
        BY DEF InOrder, before
      <4>3. /\ Len(before) + 1 \in DOMAIN (before \o recv_buffer)
            /\ (before \o recv_buffer)[Len(before) + 1] = Head(recv_buffer)
        BY <2>2, <4>1
      <4>4. Len(before) + 1 \in 1..arrived /\ Head(recv_buffer) = Len(before) + 1
        BY <4>2, <4>3
      <4> QED BY <4>1, <4>4 DEF NoMsg
    <3> QED BY <3>1, <3>2 DEF Holding
  <2>3. CASE ~dispatching /\ recv_buffer = <<>>
    BY <1>2, <1>8, <2>3 DEF DoDispatchMsg, At
  <2> QED BY <2>1, <2>2, <2>3
<1>9. ASSUME NEW w \in Workers, HandleOk(w) PROVE Holding'
  <2>1. dispatching' = FALSE /\ dispatching_msg' = NoMsg
    BY <1>9 DEF HandleOk
  <2>2. ASSUME NEW v \in Workers, At(v, "dis", "handle")' PROVE FALSE
    <3>1. job'[w].pc = "post" /\ job[w].kind = "dis" /\ \A u \in Workers \ {w} : job'[u] = job[u]
      BY <1>1, <1>9, Moved DEF HandleOk, At
    <3>2. v # w /\ job[v].kind = "dis"
      BY <2>2, <3>1 DEF At
    <3> QED BY <3>1, <3>2 DEF Jobbed
  <2> QED BY <2>1, <2>2 DEF Holding
<1>10. ASSUME NEW w \in Workers, NEW id \in Timers, BeginHandler(w, id) PROVE Holding'
  BY <1>1, <1>3, <1>10 DEF BeginHandler, Idle, Timers
<1>11. ASSUME Restart PROVE Holding'
  <2>1. CASE reconnects
    BY <1>2, <1>11, <2>1 DEF Restart, At
  <2>2. CASE ~reconnects
    <3>1. dispatching' = FALSE /\ dispatching_msg' = NoMsg /\ job' = job
      BY <1>11, <2>2 DEF Restart
    <3>2. ASSUME NEW w \in Workers PROVE ~At(w, "dis", "handle")
      <4>1. w \in crew => job[w] = Idle
        BY <1>11 DEF Restart, NoAsyncCall, Free
      <4> QED BY <4>1 DEF At, Jobbed, Idle
    <3> QED BY <3>1, <3>2 DEF Holding, At
  <2> QED BY <2>1, <2>2
<1>12. ASSUME \/ \E w \in Workers : DoRecvMsg(w) \/ DoShutdown(w)
              \/ \E id \in Timers : Expire(id)
              \/ ReadDone \/ ForceShutdown \/ DelayClose \/ UNCHANGED vars
       PROVE  Holding'
  <2>1. UNCHANGED <<dispatching, dispatching_msg, job>>
    BY <1>12 DEF DoRecvMsg, DoShutdown, Expire, ReadDone, ForceShutdown, DelayClose, vars
  <2> QED BY <1>2, <2>1 DEF At
<1>13. ASSUME NEW w \in Workers,
              \/ DispatchMsg(w) \/ EndRecvHandler(w) \/ PostNext(w) \/ HandleFail(w)
              \/ RetryDispatch(w) \/ CheckRecv(w) \/ Again(w)
              \/ \E id \in Timers : Compare(w, id) \/ Cancel(w, id)
       PROVE  Holding'
  <2>1. UNCHANGED <<dispatching, dispatching_msg>>
    BY <1>13 DEF DispatchMsg, EndRecvHandler, PostNext, HandleFail, RetryDispatch, CheckRecv, Again,
                 Compare, Cancel
  <2>2. Done(w) \/ Goto(w, "handled_msg") \/ Goto(w, "again") \/ Goto(w, "compare") \/ Goto(w, "cancel")
    BY <1>13 DEF DispatchMsg, EndRecvHandler, PostNext, HandleFail, RetryDispatch, CheckRecv, Again,
                 Compare, Cancel
  <2> QED BY <1>6, <1>7, <2>1, <2>2
<1> QED
  BY <1>4, <1>5, <1>8, <1>9, <1>10, <1>11, <1>12, <1>13
     DEF Next, TakeIoTask, TakeDispatch, TakeHandler, Work


-----------------------------------------------------------------------------
(* The order of the messages.                                                *)

(* What is handled, held and waiting grows by what a read brings.            *)
LEMMA Numbered ==
    ASSUME NEW a \in Nat, NEW n \in Nat
    PROVE  [i \in 1..a |-> i] \o [i \in 1..n |-> a + i] = [i \in 1..(a + n) |-> i]
<1> DEFINE s == [i \in 1..a |-> i]
           r == [i \in 1..n |-> a + i]
           t == [i \in 1..(a + n) |-> i]
<1>1. s \in Seq(Nat) /\ r \in Seq(Nat) /\ t \in Seq(Nat)
  OBVIOUS
<1>2. Len(s) = a /\ Len(r) = n /\ Len(t) = a + n
  OBVIOUS
<1>3. /\ \A i \in 1..a : s[i] = i
      /\ \A i \in 1..n : r[i] = a + i
      /\ \A i \in 1..(a + n) : t[i] = i
  OBVIOUS
<1> HIDE DEF s, r, t
<1>4. /\ s \o r \in Seq(Nat) /\ Len(s \o r) = a + n
      /\ \A i \in 1..(a + n) : (s \o r)[i] = IF i <= a THEN s[i] ELSE r[i - a]
  BY <1>1, <1>2, ConcatProperties
<1>5. ASSUME NEW i \in 1..(a + n) PROVE (s \o r)[i] = t[i]
  <2>1. CASE i <= a
    <3>1. i \in 1..a
      BY <2>1
    <3> QED BY <1>3, <1>4, <2>1, <3>1
  <2>2. CASE i > a
    <3>1. i - a \in 1..n /\ a + (i - a) = i
      BY <2>2
    <3>2. (s \o r)[i] = r[i - a]
      BY <1>4, <2>2
    <3> QED BY <1>3, <3>1, <3>2
  <2>3. i <= a \/ i > a
    OBVIOUS
  <2> QED BY <2>1, <2>2, <2>3
<1> QED BY <1>1, <1>2, <1>4, <1>5, SeqEqual DEF s, r, t

(* Concatenation of numbered messages can be regrouped.                      *)
LEMMA Regrouped ==
    ASSUME NEW x \in Seq(Nat), NEW y \in Seq(Nat), NEW z \in Seq(Nat)
    PROVE  (x \o y) \o z = x \o (y \o z)
OBVIOUS

(* The head of the rest may be put at the end of what is before it.          *)
LEMMA HeadMoved ==
    ASSUME NEW x \in Seq(Nat), NEW y \in Seq(Nat), y # <<>>
    PROVE  (x \o <<>>) \o y = (x \o <<Head(y)>>) \o Tail(y)
<1>1. Head(y) \in Nat /\ Tail(y) \in Seq(Nat)
  BY HeadTailProperties
<1>2. <<Head(y)>> \in Seq(Nat)
  BY <1>1
<1>3. y = <<Head(y)>> \o Tail(y)
  OBVIOUS
<1>4. x \o <<>> = x
  OBVIOUS
<1>5. (x \o <<Head(y)>>) \o Tail(y) = x \o (<<Head(y)>> \o Tail(y))
  BY <1>1, <1>2, Regrouped
<1> QED BY ONLY <1>3, <1>4, <1>5

(* No step loses, repeats or overtakes a message.                            *)
LEMMA InOrderNext == TypeOK /\ Jobbed /\ Holding /\ InOrder /\ [Next]_vars => InOrder'
<1> SUFFICES ASSUME TypeOK, Jobbed, Holding, InOrder, [Next]_vars PROVE InOrder'
  OBVIOUS
<1> USE DEF bufferVars, queueVars, linkVars
<1>1. /\ handled \in Seq(Nat) /\ recv_buffer \in Seq(Nat) /\ HeldMsg \in Seq(Nat)
      /\ handled \o HeldMsg \in Seq(Nat) /\ arrived \in Nat
  BY DEF TypeOK, HeldMsg
<1>2. ASSUME UNCHANGED bufferVars PROVE InOrder'
  BY <1>2 DEF InOrder, HeldMsg
<1>3. ASSUME NEW w \in Workers, RecvHandler(w) PROVE InOrder'
  <2>1. PICK n \in Nat : /\ recv_buffer' = recv_buffer \o [i \in 1..n |-> arrived + i]
                         /\ arrived' = arrived + n
    <3>1. rwQ # <<>> /\ Head(rwQ).task = "recv_handler"
      BY <1>3 DEF RecvHandler, NextTask
    <3>2. Head(rwQ).res.n \in Nat
      <4>1. Head(rwQ) \in RwTasks
        BY <3>1, HeadTailProperties DEF TypeOK
      <4>2. Head(rwQ).res \in Results
        BY <3>1, <4>1 DEF RwTasks
      <4> QED BY <4>2, RecvAssumption DEF Results
    <3> QED BY <1>3, <3>2 DEF RecvHandler
  <2> DEFINE new == [i \in 1..n |-> arrived + i]
             before == handled \o HeldMsg
  <2>2. new \in Seq(Nat)
    BY <1>1
  <2>3. UNCHANGED <<handled, dispatching_msg>>
    BY <1>3 DEF RecvHandler
  <2>4. before \o recv_buffer = [i \in 1..arrived |-> i]
    BY DEF InOrder
  <2>5. (before \o recv_buffer) \o new = [i \in 1..(arrived + n) |-> i]
    BY <1>1, <2>4, Numbered
  <2> HIDE DEF new, before
  <2>6. (before \o recv_buffer) \o new = before \o (recv_buffer \o new)
    <3>1. before \in Seq(Nat) /\ recv_buffer \in Seq(Nat)
      BY <1>1 DEF before
    <3> QED BY ONLY <2>2, <3>1, Regrouped
  <2> QED BY <2>1, <2>3, <2>5, <2>6 DEF InOrder, HeldMsg, before, new
<1>4. ASSUME NEW w \in Workers, DoDispatchMsg(w) PROVE InOrder'
  <2>1. CASE dispatching \/ recv_buffer = <<>>
    <3>1. UNCHANGED <<dispatching_msg, recv_buffer, handled, arrived>>
      BY <1>4, <2>1 DEF DoDispatchMsg
    <3> QED BY <3>1 DEF InOrder, HeldMsg
  <2>2. CASE ~dispatching /\ recv_buffer # <<>>
    <3>1. /\ dispatching_msg' = Head(recv_buffer) /\ recv_buffer' = Tail(recv_buffer)
          /\ dispatching' = TRUE /\ UNCHANGED <<handled, arrived>>
      BY <1>4, <2>2 DEF DoDispatchMsg
    <3>2. HeldMsg = <<>> /\ HeldMsg' = <<Head(recv_buffer)>>
      BY <2>2, <3>1, HoldingNext DEF Holding, HeldMsg
    <3>3. (handled \o <<>>) \o recv_buffer = (handled \o <<Head(recv_buffer)>>) \o Tail(recv_buffer)
      <4>1. /\ recv_buffer \in Seq(Nat) /\ recv_buffer # <<>> /\ handled \in Seq(Nat)
        BY <1>1, <2>2
      <4> QED BY ONLY <4>1, HeadMoved
    <3> QED BY <3>1, <3>2, <3>3 DEF InOrder
  <2> QED BY <2>1, <2>2
<1>5. ASSUME NEW w \in Workers, HandleOk(w) PROVE InOrder'
  <2>1. dispatching_msg # NoMsg
    BY <1>5 DEF HandleOk, Holding
  <2>2. HeldMsg = <<dispatching_msg>> /\ HeldMsg' = <<>>
    BY <1>5, <2>1 DEF HandleOk, HeldMsg
  <2>3. handled' = Append(handled, dispatching_msg) /\ UNCHANGED <<recv_buffer, arrived>>
    BY <1>5 DEF HandleOk
  <2>4. Append(handled, dispatching_msg) \o <<>> = handled \o <<dispatching_msg>>
    BY <1>1 DEF TypeOK
  <2> QED BY <2>2, <2>3, <2>4 DEF InOrder
<1>6. ASSUME Restart PROVE InOrder'
  <2>1. CASE reconnects
    BY <1>2, <1>6, <2>1 DEF Restart
  <2>2. CASE ~reconnects
    <3>1. recv_buffer' = <<>> /\ handled' = <<>> /\ arrived' = 0 /\ dispatching_msg' = NoMsg
      BY <1>6, <2>2 DEF Restart
    <3>2. (<<>> \o <<>>) \o <<>> = [i \in 1..0 |-> i]
      OBVIOUS
    <3> QED BY <3>1, <3>2 DEF InOrder, HeldMsg
  <2> QED BY <2>1, <2>2
<1>7. ASSUME \/ \E w \in Workers :
                   \/ DoRecvMsg(w) \/ DoShutdown(w)
                   \/ DispatchMsg(w) \/ HandledMsg(w) \/ EndRecvHandler(w) \/ PostNext(w)
                   \/ HandleFail(w) \/ RetryDispatch(w) \/ CheckRecv(w) \/ Again(w)
                   \/ \E id \in Timers : BeginHandler(w, id) \/ Compare(w, id) \/ Cancel(w, id)
             \/ \E id \in Timers : Expire(id)
             \/ ReadDone \/ ForceShutdown \/ DelayClose \/ UNCHANGED vars
       PROVE  InOrder'
  <2>1. UNCHANGED bufferVars
    BY <1>7 DEF DoRecvMsg, DoShutdown, DispatchMsg, HandledMsg, EndRecvHandler, PostNext, HandleFail,
                RetryDispatch, CheckRecv, Again, BeginHandler, Compare, Cancel, Expire,
                ReadDone, ForceShutdown, DelayClose, vars
  <2> QED BY <1>2, <2>1
<1> QED
  BY <1>3, <1>4, <1>5, <1>6, <1>7 DEF Next, TakeIoTask, TakeDispatch, TakeHandler, Work

LEMMA OrderInit == Init => Jobbed /\ Holding /\ InOrder
<1> SUFFICES ASSUME Init PROVE Jobbed /\ Holding /\ InOrder
  OBVIOUS
<1>1. \A w \in Workers : job[w].kind = "none" /\ job[w].pc = "idle"
  BY DEF Init, Idle
<1>2. Jobbed
  BY <1>1 DEF Jobbed, Places
<1>3. Holding
  BY <1>1 DEF Init, Holding, At
<1>4. (<<>> \o <<>>) \o <<>> = [i \in 1..0 |-> i]
  OBVIOUS
<1>5. InOrder
  BY <1>4 DEF Init, InOrder, HeldMsg
<1> QED BY <1>2, <1>3, <1>5

(* Every message is handled once and in the order of arrival.                *)
THEOREM MessagesInOrder == Spec => []InOrder
<1>1. TypeOK /\ Jobbed /\ Holding /\ InOrder /\ [Next]_vars => (Jobbed /\ Holding /\ InOrder)'
  BY JobbedNext, HoldingNext, InOrderNext
<1> QED BY TypeCorrect, OrderInit, <1>1, PTL DEF Spec


-----------------------------------------------------------------------------
(* A message that waits is dispatched.                                       *)

(* What the strand has to run, when it takes a task and when it gets one.    *)
LEMMA Consumed ==
    ASSUME TypeOK, NEW name, NextTask(name)
    PROVE  /\ rwQ # <<>> /\ Head(rwQ).task = name /\ ~Held("rw")
           /\ Len(rwQ') = Len(rwQ) - 1
           /\ \A i \in DOMAIN rwQ' : i + 1 \in DOMAIN rwQ /\ rwQ'[i] = rwQ[i + 1]
           /\ 1 \in DOMAIN rwQ /\ rwQ[1] = Head(rwQ)
BY DEF NextTask, TypeOK

LEMMA Queueing ==
    ASSUME TypeOK, NEW task \in RwTasks, rwQ' = Append(rwQ, task)
    PROVE  /\ Len(rwQ') = Len(rwQ) + 1
           /\ DOMAIN rwQ' = 1..(Len(rwQ) + 1)
           /\ \A i \in DOMAIN rwQ : i \in DOMAIN rwQ' /\ i < Len(rwQ) + 1 /\ rwQ'[i] = rwQ[i]
           /\ rwQ'[Len(rwQ) + 1] = task
           /\ \A i \in DOMAIN rwQ' : i \in DOMAIN rwQ \/ i = Len(rwQ) + 1
BY DEF TypeOK

(* A read that brought nothing has failed.                                   *)
LEMMA BareErrorsNext == TypeOK /\ BareErrors /\ [Next]_vars => BareErrors'
<1> SUFFICES ASSUME TypeOK, BareErrors, [Next]_vars PROVE BareErrors'
  OBVIOUS
<1> USE DEF bufferVars, queueVars, linkVars
<1>1. ASSUME rwQ' = rwQ PROVE BareErrors'
  BY <1>1 DEF BareErrors
<1>2. ASSUME NEW name, NextTask(name) PROVE BareErrors'
  BY <1>2, Consumed DEF BareErrors
<1>3. ASSUME NEW task \in RwTasks, rwQ' = Append(rwQ, task),
             task.task = "recv_handler" /\ ~task.res.bytes => task.res.n = 0 /\ task.res.end = "error"
      PROVE  BareErrors'
  BY <1>3, Queueing DEF BareErrors
<1>4. ASSUME ReadDone PROVE BareErrors'
  <2>1. PICK res \in Results : /\ ~res.bytes => res.end = "error" /\ res.n = 0
                               /\ rwQ' = Append(rwQ, [task |-> "recv_handler", res |-> res])
    BY <1>4 DEF ReadDone
  <2>2. [task |-> "recv_handler", res |-> res] \in RwTasks
    BY DEF RwTasks
  <2> QED BY <1>3, <2>1, <2>2
<1>5. ASSUME ForceShutdown \/ \E w \in Workers : CheckRecv(w) PROVE BareErrors'
  <2>1. [task |-> "shutdown"] \in RwTasks /\ [task |-> "do_recv_msg"] \in RwTasks
    BY DEF RwTasks
  <2>2. \/ rwQ' = rwQ \/ rwQ' = Append(rwQ, [task |-> "shutdown"])
        \/ rwQ' = Append(rwQ, [task |-> "do_recv_msg"])
    BY <1>5 DEF ForceShutdown, CheckRecv
  <2> QED BY <1>1, <1>3, <2>1, <2>2
<1>6. ASSUME Restart PROVE BareErrors'
  BY <1>6 DEF Restart, BareErrors
<1>7. ASSUME NEW w \in Workers, DoRecvMsg(w) \/ RecvHandler(w) \/ DoShutdown(w) PROVE BareErrors'
  BY <1>2, <1>7 DEF DoRecvMsg, RecvHandler, DoShutdown
<1>8. ASSUME \/ \E w \in Workers :
                   \/ DispatchMsg(w) \/ HandledMsg(w) \/ EndRecvHandler(w)
                   \/ DoDispatchMsg(w) \/ HandleOk(w) \/ PostNext(w) \/ HandleFail(w)
                   \/ RetryDispatch(w) \/ Again(w)
                   \/ \E id \in Timers : BeginHandler(w, id) \/ Compare(w, id) \/ Cancel(w, id)
             \/ \E id \in Timers : Expire(id)
             \/ DelayClose \/ UNCHANGED vars
       PROVE  BareErrors'
  <2>1. rwQ' = rwQ
    BY <1>8 DEF DispatchMsg, HandledMsg, EndRecvHandler, DoDispatchMsg, HandleOk, PostNext, HandleFail,
                RetryDispatch, Again, BeginHandler, Compare, Cancel, Expire, DelayClose, vars
  <2> QED BY <1>1, <2>1
<1> QED
  BY <1>4, <1>5, <1>6, <1>7, <1>8 DEF Next, TakeIoTask, TakeDispatch, TakeHandler, Work

(* dispatch_msg and the dispatch loop do not both leave a message to the other. *)
LEMMA DispatchNext ==
    TypeOK /\ Jobbed /\ Holding /\ BareErrors /\ NoneStarved /\ [Next]_vars => NoneStarved'
<1> SUFFICES ASSUME TypeOK, Jobbed, Holding, BareErrors, NoneStarved, [Next]_vars,
                    recv_buffer' # <<>>, ~dispatching'
             PROVE  disQ' > 0 \/ Held("dis")' \/ \E w \in Workers : At(w, "rw", "dispatch_msg")'
  BY DEF NoneStarved
<1> DEFINE Coming == disQ' > 0 \/ Held("dis")' \/ \E w \in Workers : At(w, "rw", "dispatch_msg")'
<1> USE DEF bufferVars, queueVars, linkVars
<1>1. job \in [Workers -> Jobs] /\ disQ \in Nat /\ disQ' \in Nat /\ dispatching \in BOOLEAN
  BY TypeNext DEF TypeOK
<1>2. ASSUME UNCHANGED <<recv_buffer, dispatching>>, disQ' >= disQ, NEW w \in Workers,
             \A v \in Workers \ {w} : job'[v] = job[v],
             disQ' > 0 \/ (job[w].kind # "dis" /\ ~At(w, "rw", "dispatch_msg"))
      PROVE  Coming
  <2>1. disQ > 0 \/ Held("dis") \/ \E v \in Workers : At(v, "rw", "dispatch_msg")
    BY <1>2 DEF NoneStarved
  <2>2. CASE disQ > 0
    BY <1>1, <1>2, <2>2
  <2>3. CASE disQ' = 0 /\ ~(disQ > 0)
    <3>1. \A v \in Workers : job[v].kind = "dis" \/ At(v, "rw", "dispatch_msg") => v # w
      BY <1>2, <2>3
    <3> QED BY <1>2, <2>1, <2>3, <3>1 DEF Held, At
  <2> QED BY <1>1, <2>2, <2>3
<1>3. ASSUME UNCHANGED <<recv_buffer, dispatching, job>>, disQ' >= disQ PROVE Coming
  BY <1>1, <1>3 DEF NoneStarved, Held, At
<1>4. ASSUME NEW w \in Workers, RecvHandler(w) PROVE Coming
  <2> DEFINE res == Head(rwQ).res
  <2>1. CASE recv_buffer' = recv_buffer
    <3>1. job[w].kind = "none" /\ UNCHANGED <<dispatching, disQ>> /\ \A v \in Workers \ {w} : job'[v] = job[v]
      <4>1. /\ job[w] = Idle /\ UNCHANGED <<dispatching, disQ>>
            /\ \E new : job' = [job EXCEPT ![w] = new]
        BY <1>4 DEF RecvHandler, Free
      <4>2. job \in [Workers -> Jobs]
        BY DEF TypeOK
      <4> QED BY <4>1, <4>2 DEF Idle
    <3> QED BY <1>1, <1>2, <2>1, <3>1 DEF At
  <2>2. CASE recv_buffer' # recv_buffer
    <3>1. rwQ # <<>> /\ Head(rwQ).task = "recv_handler" /\ 1 \in DOMAIN rwQ /\ rwQ[1] = Head(rwQ)
      BY <1>4, Consumed DEF RecvHandler
    <3>2. Head(rwQ) \in RwTasks
      BY <3>1, HeadTailProperties DEF TypeOK
    <3>3. res.n \in Nat /\ res.bytes \in BOOLEAN
      BY <3>1, <3>2, RecvAssumption DEF RwTasks, Results
    <3>4. res.n = 0 => recv_buffer' = recv_buffer
      <4>1. recv_buffer' = recv_buffer \o [i \in 1..res.n |-> arrived + i]
        BY <1>4 DEF RecvHandler
      <4>2. recv_buffer \in Seq(Nat)
        BY DEF TypeOK
      <4>3. res.n = 0 => [i \in 1..res.n |-> arrived + i] = <<>>
        OBVIOUS
      <4>4. recv_buffer \o <<>> = recv_buffer
        BY ONLY <4>2
      <4> QED BY ONLY <4>1, <4>3, <4>4
    <3>5. res.n > 0 /\ res.bytes
      BY <2>2, <3>1, <3>3, <3>4 DEF BareErrors
    <3>6. job'[w].kind = "rw" /\ job'[w].pc = "dispatch_msg"
      BY <1>1, <1>4, <3>5 DEF RecvHandler, Idle
    <3> QED BY <3>6 DEF At
  <2> QED BY <2>1, <2>2
<1>5. ASSUME NEW w \in Workers, DispatchMsg(w) PROVE Coming
  <2>1. ~dispatching /\ disQ' = disQ + 1
    BY <1>5 DEF DispatchMsg
  <2> QED BY <1>1, <2>1
<1>6. ASSUME NEW w \in Workers, HandledMsg(w) PROVE Coming
  BY <1>1, <1>2, <1>6 DEF HandledMsg, At
<1>7. ASSUME NEW w \in Workers, EndRecvHandler(w) PROVE Coming
  BY <1>1, <1>2, <1>7, Ended DEF EndRecvHandler, At
<1>8. ASSUME NEW w \in Workers, DoDispatchMsg(w) PROVE Coming
  <2>1. dispatching = FALSE /\ recv_buffer = <<>> /\ recv_buffer' = recv_buffer
    BY <1>1, <1>8 DEF DoDispatchMsg
  <2> QED BY <2>1
<1>9. ASSUME NEW w \in Workers, HandleOk(w) PROVE Coming
  <2>1. job'[w].kind = "dis"
    BY <1>1, <1>9, Moved DEF HandleOk, At
  <2> QED BY <2>1 DEF Held
<1>10. ASSUME NEW w \in Workers, PostNext(w) \/ RetryDispatch(w) PROVE Coming
  BY <1>1, <1>10 DEF PostNext, RetryDispatch
<1>11. ASSUME NEW w \in Workers, HandleFail(w) PROVE FALSE
  BY <1>11 DEF HandleFail, Holding
<1>12. ASSUME NEW w \in Workers, NEW id \in Timers, BeginHandler(w, id) PROVE Coming
  <2>1. job[w].kind = "none" /\ \A v \in Workers \ {w} : job'[v] = job[v]
    BY <1>1, <1>12 DEF BeginHandler, Free, Idle
  <2> QED BY <1>1, <1>2, <1>12, <2>1 DEF BeginHandler, At
<1>13. ASSUME NEW w \in Workers,
              \/ CheckRecv(w) \/ Again(w)
              \/ \E id \in Timers : Compare(w, id) \/ Cancel(w, id)
       PROVE  Coming
  <2>1. job[w].kind \in Timers /\ UNCHANGED <<recv_buffer, dispatching, disQ>>
    BY <1>13 DEF CheckRecv, Again, Compare, Cancel, At, Timers
  <2>2. Done(w) \/ Goto(w, "compare") \/ Goto(w, "again") \/ Goto(w, "cancel")
    BY <1>13 DEF CheckRecv, Again, Compare, Cancel
  <2>3. \A v \in Workers \ {w} : job'[v] = job[v]
    BY <1>1, <2>2, Moved, Ended
  <2> QED BY <1>1, <1>2, <2>1, <2>3 DEF At, Timers
<1>14. ASSUME Restart PROVE Coming
  <2>1. ~Held("dis") /\ disQ = 0 /\ ~\E w \in Workers : At(w, "rw", "dispatch_msg")
    <3>1. disQ = 0 /\ \A w \in crew : job[w] = Idle
      BY <1>14 DEF Restart, NoAsyncCall, Free
    <3> QED BY <3>1 DEF Jobbed, Held, At, Idle
  <2>2. reconnects /\ UNCHANGED <<recv_buffer, dispatching>>
    BY <1>14 DEF Restart
  <2> QED BY <2>1, <2>2 DEF NoneStarved
<1>15. ASSUME \/ \E w \in Workers : DoRecvMsg(w) \/ DoShutdown(w)
              \/ \E id \in Timers : Expire(id)
              \/ ReadDone \/ ForceShutdown \/ DelayClose \/ UNCHANGED vars
       PROVE  Coming
  <2>1. UNCHANGED <<recv_buffer, dispatching, disQ, job>>
    BY <1>15 DEF DoRecvMsg, DoShutdown, Expire, ReadDone, ForceShutdown, DelayClose, vars
  <2> QED BY <1>1, <1>3, <2>1
<1> QED
  BY <1>4, <1>5, <1>6, <1>7, <1>8, <1>9, <1>10, <1>11, <1>12, <1>13, <1>14, <1>15
     DEF Next, TakeIoTask, TakeDispatch, TakeHandler, Work

(* A message that waits while none is held is looked at soon.                *)
THEOREM WaitingIsDispatched == Spec => []NoneStarved
<1>1. Init => BareErrors /\ NoneStarved
  BY DEF Init, BareErrors, NoneStarved
<1>2. TypeOK /\ Jobbed /\ Holding /\ InOrder /\ BareErrors /\ NoneStarved /\ [Next]_vars
        => (Jobbed /\ Holding /\ InOrder /\ BareErrors /\ NoneStarved)'
  BY JobbedNext, HoldingNext, InOrderNext, BareErrorsNext, DispatchNext
<1> QED BY TypeCorrect, OrderInit, <1>1, <1>2, PTL DEF Spec


-----------------------------------------------------------------------------
(* One read at a time.                                                       *)

(* Where the turn to continue the read loop stays, and where it passes.      *)
LEMMA Stays ==
    ASSUME Sole, reads' > 0 => reads > 0, Queued' => Queued, Armed' => Armed, Firing' => Firing,
           \A w \in Workers : (GoingOn(w)' => GoingOn(w)) /\ (Checking(w)' => Checking(w))
    PROVE  Sole'
<1>1. \A a \in Who : Continues(a)' => Continues(a)
  BY DEF Continues
<1> QED BY <1>1 DEF Sole

LEMMA Passed ==
    ASSUME Sole, NEW from \in Who, NEW to \in Who, Continues(from),
           reads' > 0 => to = "read" \/ (from # "read" /\ reads > 0),
           Queued' => to = "task" \/ (from # "task" /\ Queued),
           Armed' => to = "timer" \/ (from # "timer" /\ Armed),
           Firing' => to = "due" \/ (from # "due" /\ Firing),
           \A w \in Workers :
              /\ GoingOn(w)' => to = "handler" \/ (from # "handler" /\ GoingOn(w))
              /\ Checking(w)' => to = "callback" \/ (from # "callback" /\ Checking(w))
    PROVE  Sole'
<1>1. \A a \in Who : Continues(a)' => a = to \/ (a # from /\ Continues(a))
  BY DEF Continues
<1> QED BY <1>1 DEF Sole

(* The turn and the parts of the state it depends on.                        *)
LEMMA JobsKept ==
    ASSUME TypeOK, Jobbed, Once, NEW w \in Workers, job' \in [Workers -> Jobs],
           \A v \in Workers \ {w} : job'[v] = job[v]
    PROVE  /\ \A v \in Workers \ {w} : (GoingOn(v)' <=> GoingOn(v)) /\ (Checking(v)' <=> Checking(v))
           /\ job[w].kind = "rw" => \A v \in Workers \ {w} : ~GoingOn(v)'
           /\ Checking(w) => \A v \in Workers \ {w} : ~Checking(v)'
           /\ (Checking(w)' => Checking(w)) =>
                 \A u, v \in Workers : Checking(u)' /\ Checking(v)' => u = v
BY DEF GoingOn, Checking, Jobbed, Once

LEMMA TimerKept ==
    ASSUME Once, timer'["CHECK_RECV"].due = timer["CHECK_RECV"].due,
           timer'["CHECK_RECV"].wait = timer["CHECK_RECV"].wait
    PROVE  /\ \A i, j \in DOMAIN timer'["CHECK_RECV"].due : Valid(i)' /\ Valid(j)' => i = j
           /\ Firing' => Firing
           /\ Armed' => Armed
<1>1. \A i : Valid(i)' <=> Valid(i)
  BY DEF Valid
<1> QED BY <1>1 DEF Once, Firing, Armed

(* The queue of the strand: a task that is taken, a task that is added.      *)
LEMMA TaskTaken ==
    ASSUME TypeOK, Once, NEW name, NextTask(name)
    PROVE  /\ \A i, j \in DOMAIN rwQ' : ReadTask(i)' /\ ReadTask(j)' => i = j
           /\ Queued' => Queued
           /\ name \in {"recv_handler", "do_recv_msg"} => Queued /\ ~Queued'
<1>1. /\ \A i \in DOMAIN rwQ' : i \in Nat /\ i > 0 /\ i + 1 \in DOMAIN rwQ /\ (ReadTask(i)' <=> ReadTask(i + 1))
      /\ 1 \in DOMAIN rwQ /\ rwQ[1].task = name
  <2>1. rwQ' = Tail(rwQ) /\ rwQ \in Seq(RwTasks) /\ rwQ # <<>>
    BY DEF NextTask, TypeOK
  <2> QED BY <2>1, Consumed DEF ReadTask
<1>2. \A i, j \in DOMAIN rwQ' : i + 1 = j + 1 => i = j
  BY <1>1
<1>3. \A i \in DOMAIN rwQ' : i + 1 # 1
  BY <1>1
<1> QED BY <1>1, <1>2, <1>3 DEF Once, Queued, ReadTask

LEMMA TaskAdded ==
    ASSUME TypeOK, Once, NEW task \in RwTasks, rwQ' = Append(rwQ, task),
           task.task \in {"recv_handler", "do_recv_msg"} => ~Queued
    PROVE  /\ \A i, j \in DOMAIN rwQ' : ReadTask(i)' /\ ReadTask(j)' => i = j
           /\ task.task \notin {"recv_handler", "do_recv_msg"} /\ Queued' => Queued
<1>1. /\ \A i \in DOMAIN rwQ : ReadTask(i)' <=> ReadTask(i)
      /\ \A i \in DOMAIN rwQ' : \/ i \in DOMAIN rwQ
                                \/ /\ i = Len(rwQ) + 1
                                   /\ ReadTask(i)' <=> task.task \in {"recv_handler", "do_recv_msg"}
  <2>1. /\ \A i \in DOMAIN rwQ : rwQ'[i] = rwQ[i]
        /\ rwQ'[Len(rwQ) + 1] = task
        /\ \A i \in DOMAIN rwQ' : i \in DOMAIN rwQ \/ i = Len(rwQ) + 1
    BY Queueing
  <2> QED BY <2>1 DEF ReadTask
<1>2. \A i, j \in DOMAIN rwQ : ReadTask(i) /\ ReadTask(j) => i = j
  BY DEF Once
<1>3. CASE task.task \in {"recv_handler", "do_recv_msg"}
  <2>1. \A i \in DOMAIN rwQ : ~ReadTask(i)
    BY <1>3 DEF Queued
  <2> QED BY <1>1, <1>3, <2>1
<1>4. CASE task.task \notin {"recv_handler", "do_recv_msg"}
  <2>1. \A i \in DOMAIN rwQ' : ReadTask(i)' => i \in DOMAIN rwQ /\ ReadTask(i)
    BY <1>1, <1>4
  <2> QED BY <1>2, <2>1 DEF Queued
<1> QED BY <1>3, <1>4

(* The timer: one handler more, which is or is not cancelled; one less.      *)
LEMMA DueAdded ==
    ASSUME TypeOK, Once, NEW c \in BOOLEAN, NEW n \in Nat,
           timer'["CHECK_RECV"].due = Append(timer["CHECK_RECV"].due, [prev_seq |-> n, cancelled |-> c]),
           ~c => ~Firing
    PROVE  /\ \A i, j \in DOMAIN timer'["CHECK_RECV"].due : Valid(i)' /\ Valid(j)' => i = j
           /\ c /\ Firing' => Firing
<1> DEFINE due == timer["CHECK_RECV"].due
           new == timer'["CHECK_RECV"].due
           h == [prev_seq |-> n, cancelled |-> c]
<1>1. due \in Seq(Handlers) /\ h \in Handlers /\ h.cancelled = c /\ new = Append(due, h)
  BY DEF TypeOK, TimerInfos, Timers, Handlers
<1> HIDE DEF due, new, h
<1>2. /\ \A i \in DOMAIN due : new[i] = due[i]
      /\ new[Len(due) + 1] = h
      /\ \A i \in DOMAIN new : i \in DOMAIN due \/ i = Len(due) + 1
  BY <1>1
<1>3. \A i \in DOMAIN due : due[i].cancelled = new[i].cancelled
  BY <1>2
<1>4. /\ \A i \in DOMAIN new : Valid(i)' <=> ~new[i].cancelled
      /\ \A i \in DOMAIN due : Valid(i) <=> ~due[i].cancelled
      /\ Firing <=> \E i \in DOMAIN due : ~due[i].cancelled
      /\ Firing' <=> \E i \in DOMAIN new : ~new[i].cancelled
  BY DEF Firing, Valid, due, new
<1>5. \A i, j \in DOMAIN due : ~due[i].cancelled /\ ~due[j].cancelled => i = j
  BY DEF Once, Valid, due
<1>6. /\ \A i, j \in DOMAIN new : ~new[i].cancelled /\ ~new[j].cancelled => i = j
      /\ c /\ (\E i \in DOMAIN new : ~new[i].cancelled) => \E i \in DOMAIN due : ~due[i].cancelled
  BY <1>1, <1>2, <1>3, <1>4, <1>5
<1>7. \A i \in DOMAIN timer'["CHECK_RECV"].due : i \in DOMAIN new
  BY DEF new
<1> QED BY <1>4, <1>6, <1>7

LEMMA DueTaken ==
    ASSUME TypeOK, Once, timer["CHECK_RECV"].due # <<>>,
           timer'["CHECK_RECV"].due = Tail(timer["CHECK_RECV"].due)
    PROVE  /\ \A i, j \in DOMAIN timer'["CHECK_RECV"].due : Valid(i)' /\ Valid(j)' => i = j
           /\ Firing' => Firing
           /\ ~Head(timer["CHECK_RECV"].due).cancelled => Firing /\ ~Firing'
<1> DEFINE due == timer["CHECK_RECV"].due
           new == timer'["CHECK_RECV"].due
<1>1. due \in Seq(Handlers) /\ due # <<>> /\ new = Tail(due)
  BY DEF TypeOK, TimerInfos, Timers
<1> HIDE DEF due, new
<1>2. /\ \A i \in DOMAIN new : i \in Nat /\ i > 0 /\ i + 1 \in DOMAIN due /\ new[i] = due[i + 1]
      /\ 1 \in DOMAIN due /\ due[1] = Head(due)
  BY <1>1
<1>3. /\ \A i \in DOMAIN new : i + 1 # 1
      /\ \A i, j \in DOMAIN new : i + 1 = j + 1 => i = j
  BY <1>2
<1>4. /\ \A i \in DOMAIN new : Valid(i)' <=> ~new[i].cancelled
      /\ \A i \in DOMAIN due : Valid(i) <=> ~due[i].cancelled
      /\ Firing <=> \E i \in DOMAIN due : ~due[i].cancelled
      /\ Firing' <=> \E i \in DOMAIN new : ~new[i].cancelled
  BY DEF Firing, Valid, due, new
<1>5. \A i, j \in DOMAIN due : ~due[i].cancelled /\ ~due[j].cancelled => i = j
  BY DEF Once, Valid, due
<1>6. /\ \A i, j \in DOMAIN new : ~new[i].cancelled /\ ~new[j].cancelled => i = j
      /\ (\E i \in DOMAIN new : ~new[i].cancelled) => \E i \in DOMAIN due : ~due[i].cancelled
      /\ ~Head(due).cancelled => /\ \E i \in DOMAIN due : ~due[i].cancelled
                                 /\ ~\E i \in DOMAIN new : ~new[i].cancelled
  BY <1>2, <1>3, <1>5
<1> QED BY <1>4, <1>6 DEF due, new

(* A timer that is stopped has no valid handler but the one it had.          *)
LEMMA TimerStopped ==
    ASSUME TypeOK, Once, timer' \in {timer, [id \in Timers |-> Stop(timer[id])]}
    PROVE  /\ \A i, j \in DOMAIN timer'["CHECK_RECV"].due : Valid(i)' /\ Valid(j)' => i = j
           /\ Firing' => Firing
           /\ Armed' => Armed
<1>1. PICK ti \in TimerInfos : ti = timer["CHECK_RECV"] /\ ti.seq \in Nat
  BY DEF TypeOK, Timers, TimerInfos
<1>2. PICK new : new = timer'["CHECK_RECV"]
  OBVIOUS
<1>3. CASE new = ti
  <2>1. /\ \A i : Valid(i)' <=> Valid(i)
        /\ DOMAIN timer'["CHECK_RECV"].due = DOMAIN timer["CHECK_RECV"].due
    BY <1>1, <1>2, <1>3 DEF Valid
  <2> QED BY <1>1, <1>2, <1>3, <2>1 DEF Once, Firing, Armed
<1>4. CASE ~new.wait /\ new.due = ti.due
  <2>1. \A i : Valid(i)' <=> Valid(i)
    BY <1>1, <1>2, <1>4 DEF Valid
  <2> QED BY <1>1, <1>2, <1>4, <2>1 DEF Once, Firing, Armed
<1>5. CASE ~new.wait /\ new.due = Append(ti.due, [prev_seq |-> ti.seq, cancelled |-> TRUE])
  BY <1>1, <1>2, <1>5, DueAdded DEF Armed
<1>6. new = ti \/ new = Stop(ti)
  BY <1>1, <1>2 DEF Timers
<1>7. new = ti \/ (~new.wait /\ new.due \in {ti.due, Append(ti.due, [prev_seq |-> ti.seq, cancelled |-> TRUE])})
  <2>1. /\ ti.status # "STARTED" => Stop(ti) = ti
        /\ ti.status = "STARTED" =>
              /\ ~Stop(ti).wait
              /\ Stop(ti).due = IF ti.wait
                                THEN Append(ti.due, [prev_seq |-> ti.seq, cancelled |-> TRUE])
                                ELSE ti.due
    BY <1>1, Stopped
  <2> QED BY ONLY <1>6, <2>1
<1> QED BY <1>3, <1>4, <1>5, <1>7


(* Nobody but one continues the read loop.                                   *)
LEMMA ReaderNext == TypeOK /\ Jobbed /\ Reader /\ [Next]_vars => Reader'
<1> SUFFICES ASSUME TypeOK, Jobbed, Reader, [Next]_vars PROVE Sole' /\ Once'
  BY DEF Reader
<1> USE DEF bufferVars, queueVars, linkVars
<1>1. /\ Sole /\ Once /\ Jobbed' /\ TypeOK'
      /\ reads \in Nat /\ reads <= 1 /\ job \in [Workers -> Jobs] /\ job' \in [Workers -> Jobs]
      /\ timer \in [Timers -> TimerInfos] /\ "CHECK_RECV" \in Timers /\ "DISPATCH_MSG" \in Timers
      /\ "CHECK_RECV" # "DISPATCH_MSG"
  BY JobbedNext, TypeNext DEF Reader, Once, TypeOK, Timers
<1>2. ASSUME rwQ' = rwQ
      PROVE  (Queued' <=> Queued) /\ \A i, j \in DOMAIN rwQ' : ReadTask(i)' /\ ReadTask(j)' => i = j
  <2>1. \A i : ReadTask(i)' <=> ReadTask(i)
    BY <1>2 DEF ReadTask
  <2> QED BY <1>1, <1>2, <2>1 DEF Queued, Once
<1>3. ASSUME job' = job
      PROVE  /\ \A w \in Workers : (GoingOn(w)' <=> GoingOn(w)) /\ (Checking(w)' <=> Checking(w))
             /\ \A u, v \in Workers : Checking(u)' /\ Checking(v)' => u = v
  BY <1>1, <1>3 DEF GoingOn, Checking, Once
<1>4. Idle.kind = "none"
  BY DEF Idle
<1>5. ASSUME NEW a \in Who, Continues(a) PROVE \A b \in Who : Continues(b) => b = a
  BY <1>1, <1>5 DEF Sole
<1>6. /\ reads > 0 => Continues("read") /\ ~Queued /\ ~Armed /\ ~Firing
      /\ Queued => Continues("task") /\ reads = 0 /\ ~Armed /\ ~Firing
      /\ \A w \in Workers : GoingOn(w) => Continues("handler") /\ reads = 0 /\ ~Queued /\ ~Armed /\ ~Firing
      /\ Armed => Continues("timer") /\ ~Firing
      /\ Firing => Continues("due") /\ \A w \in Workers : ~Checking(w)
      /\ \A w \in Workers : Checking(w) => Continues("callback") /\ ~Queued
  <2>1. /\ (reads > 0 <=> Continues("read")) /\ (Queued <=> Continues("task"))
        /\ (Armed <=> Continues("timer")) /\ (Firing <=> Continues("due"))
        /\ ((\E w \in Workers : GoingOn(w)) <=> Continues("handler"))
        /\ ((\E w \in Workers : Checking(w)) <=> Continues("callback"))
    BY DEF Continues
  <2>2. {"read", "task", "handler", "timer", "due", "callback"} \subseteq Who
    BY DEF Who
  <2>3. reads > 0 \/ reads = 0
    BY <1>1
  <2> QED BY <1>5, <2>1, <2>2, <2>3
<1>7. {"read", "task", "handler", "timer", "due", "callback"} \subseteq Who
  BY DEF Who
<1>8. ASSUME NEW w \in Workers, DoRecvMsg(w) PROVE Sole' /\ Once'
  <2>1. /\ NextTask("do_recv_msg") /\ reads' = reads + 1 /\ job' = job
        /\ timer' = timer
    BY <1>8 DEF DoRecvMsg
  <2>2. Queued /\ ~Queued' /\ \A i, j \in DOMAIN rwQ' : ReadTask(i)' /\ ReadTask(j)' => i = j
    BY <1>1, <2>1, TaskTaken
  <2>3. reads' = 1
    BY <1>6, <2>1, <2>2
  <2> QED BY <1>1, <1>3, <1>6, <1>7, <2>1, <2>2, <2>3, TimerKept, Passed DEF Once
<1>9. ASSUME NEW w \in Workers, RecvHandler(w) PROVE Sole' /\ Once'
  <2>1. /\ NextTask("recv_handler") /\ reads' = reads /\ \A v \in Workers \ {w} : job'[v] = job[v]
        /\ timer' \in {timer, [id \in Timers |-> Stop(timer[id])]}
        /\ job'[w].kind = "rw"
    BY <1>1, <1>9 DEF RecvHandler, CloseLink, Idle
  <2>2. Queued /\ ~Queued' /\ \A i, j \in DOMAIN rwQ' : ReadTask(i)' /\ ReadTask(j)' => i = j
    BY <1>1, <2>1, TaskTaken
  <2>3. ~Checking(w)'
    BY <2>1 DEF Checking
  <2> QED BY <1>1, <1>6, <1>7, <2>1, <2>2, <2>3, TimerStopped, JobsKept, Passed DEF Once
<1>10. ASSUME NEW w \in Workers, HandledMsg(w) PROVE Sole' /\ Once'
  <2>1. /\ UNCHANGED <<reads, rwQ>> /\ \A v \in Workers \ {w} : job'[v] = job[v]
        /\ job[w].kind = "rw" /\ job[w].pc = "handled_msg"
        /\ job'[w].kind = "rw" /\ job'[w].pc = "end" /\ job'[w].go_on = is_recv_buffer_available
    BY <1>1, <1>10 DEF HandledMsg, At, Jobs
  <2>2. GoingOn(w) /\ ~Checking(w)'
    BY <2>1 DEF GoingOn, Checking
  <2>3. CASE is_recv_buffer_available
    <3>1. timer' = timer
      BY <1>10, <2>3 DEF HandledMsg
    <3> QED BY <1>1, <1>2, <2>1, <2>2, <3>1, TimerKept, JobsKept, Stays DEF Once
  <2>4. CASE ~is_recv_buffer_available
    <3>1. timer' = SetTimer("CHECK_RECV")
      BY <1>10, <2>4 DEF HandledMsg
    <3>2. ~Armed /\ ~Firing /\ ~timer["CHECK_RECV"].wait
      BY <1>6, <2>2 DEF Armed
    <3>3. timer'["CHECK_RECV"].due = timer["CHECK_RECV"].due
      BY <1>1, <3>1, <3>2, TimerSet
    <3>4. ~Firing' /\ \A i, j \in DOMAIN timer'["CHECK_RECV"].due : Valid(i)' /\ Valid(j)' => i = j
      <4>1. \A i : Valid(i)' <=> Valid(i)
        BY <3>3 DEF Valid
      <4> QED BY <1>1, <3>2, <3>3, <4>1 DEF Firing, Once
    <3>5. ~GoingOn(w)'
      BY <2>1, <2>4 DEF GoingOn
    <3> QED BY <1>1, <1>2, <1>6, <1>7, <2>1, <2>2, <3>4, <3>5, JobsKept, Passed DEF Once
  <2> QED BY <2>3, <2>4
<1>11. ASSUME NEW w \in Workers, EndRecvHandler(w) PROVE Sole' /\ Once'
  <2>1. /\ rwQ' = rwQ /\ \A v \in Workers \ {w} : job'[v] = job[v]
        /\ job[w].kind = "rw" /\ job[w].pc = "end" /\ job'[w] = Idle
        /\ timer' \in {timer, [id \in Timers |-> Stop(timer[id])]}
    BY <1>1, <1>11, Ended DEF EndRecvHandler, At, CloseLink
  <2>2. ~GoingOn(w)' /\ ~Checking(w)'
    BY <1>4, <2>1 DEF GoingOn, Checking
  <2>3. CASE reads' = reads
    BY <1>1, <1>2, <2>1, <2>2, <2>3, TimerStopped, JobsKept, Stays DEF Once
  <2>4. CASE reads' # reads
    <3>1. reads' = reads + 1 /\ GoingOn(w)
      BY <1>11, <2>1, <2>4 DEF EndRecvHandler, GoingOn
    <3>2. reads' = 1
      BY <1>6, <3>1
    <3> QED BY <1>1, <1>2, <1>6, <1>7, <2>1, <2>2, <3>1, <3>2, TimerStopped, JobsKept, Passed DEF Once
  <2> QED BY <2>3, <2>4
<1>12. ASSUME NEW w \in Workers, DoShutdown(w) PROVE Sole' /\ Once'
  <2>1. /\ NextTask("shutdown") /\ UNCHANGED <<reads, job>>
        /\ timer' \in {timer, [id \in Timers |-> Stop(timer[id])]}
    BY <1>12 DEF DoShutdown, CloseLink
  <2> QED BY <1>1, <1>3, <2>1, TaskTaken, TimerStopped, Stays DEF Once
<1>13. ASSUME NEW w \in Workers, UNCHANGED <<reads, rwQ>>, timer'["CHECK_RECV"] = timer["CHECK_RECV"],
              \A v \in Workers \ {w} : job'[v] = job[v],
              (GoingOn(w)' => GoingOn(w)) /\ (Checking(w)' => Checking(w))
       PROVE  Sole' /\ Once'
  BY <1>1, <1>2, <1>13, TimerKept, JobsKept, Stays DEF Once
<1>14. ASSUME NEW w \in Workers, DispatchMsg(w) PROVE Sole' /\ Once'
  BY <1>1, <1>13, <1>14, Moved DEF DispatchMsg, At, GoingOn, Checking
<1>15. ASSUME NEW w \in Workers, DoDispatchMsg(w) PROVE Sole' /\ Once'
  <2>1. job' = job \/ (job'[w].kind = "dis" /\ \A v \in Workers \ {w} : job'[v] = job[v])
    BY <1>1, <1>15 DEF DoDispatchMsg, Idle
  <2>2. UNCHANGED <<reads, rwQ, timer>>
    BY <1>15 DEF DoDispatchMsg
  <2> QED BY <1>13, <2>1, <2>2 DEF GoingOn, Checking
<1>16. ASSUME NEW w \in Workers, HandleOk(w) PROVE Sole' /\ Once'
  BY <1>1, <1>13, <1>16, Moved DEF HandleOk, At, GoingOn, Checking
<1>17. ASSUME NEW w \in Workers, PostNext(w) \/ HandleFail(w) PROVE Sole' /\ Once'
  <2>1. Done(w) /\ UNCHANGED <<reads, rwQ>> /\ timer' \in {timer, SetTimer("DISPATCH_MSG")}
    BY <1>17 DEF PostNext, HandleFail
  <2>2. timer'["CHECK_RECV"] = timer["CHECK_RECV"]
    <3>1. SetTimer("DISPATCH_MSG")["CHECK_RECV"] = timer["CHECK_RECV"]
      BY <1>1, TimerSet
    <3> QED BY <2>1, <3>1
  <2> QED BY <1>1, <1>4, <1>13, <2>1, <2>2, Ended DEF GoingOn, Checking
<1>18. ASSUME NEW w \in Workers, RetryDispatch(w) PROVE Sole' /\ Once'
  BY <1>1, <1>13, <1>18, Moved DEF RetryDispatch, At, GoingOn, Checking
<1>19. ASSUME Expire("CHECK_RECV") PROVE Sole' /\ Once'
  <2>1. /\ timer["CHECK_RECV"].wait /\ timer'["CHECK_RECV"] = Complete(timer["CHECK_RECV"], FALSE)
        /\ UNCHANGED <<reads, rwQ, job>>
    BY <1>1, <1>19 DEF Expire
  <2>2. Armed /\ ~Firing
    BY <1>6, <2>1 DEF Armed
  <2>3. /\ ~timer'["CHECK_RECV"].wait
        /\ timer'["CHECK_RECV"].due = Append(timer["CHECK_RECV"].due,
                                   [prev_seq |-> timer["CHECK_RECV"].seq, cancelled |-> FALSE])
        /\ timer["CHECK_RECV"].seq \in Nat
    <3>1. timer["CHECK_RECV"] \in TimerInfos /\ timer["CHECK_RECV"].seq \in Nat
      BY <1>1 DEF TimerInfos
    <3> QED BY <2>1, <3>1, Completed
  <2>4. \A i, j \in DOMAIN timer'["CHECK_RECV"].due : Valid(i)' /\ Valid(j)' => i = j
    BY <1>1, <2>2, <2>3, DueAdded
  <2>5. ~Armed'
    BY <2>3 DEF Armed
  <2> QED BY <1>1, <1>2, <1>3, <1>6, <1>7, <2>1, <2>2, <2>4, <2>5, Passed DEF Once
<1>20. ASSUME Expire("DISPATCH_MSG") PROVE Sole' /\ Once'
  <2>1. timer'["CHECK_RECV"] = timer["CHECK_RECV"] /\ UNCHANGED <<reads, rwQ, job>>
    BY <1>1, <1>20 DEF Expire
  <2> QED BY <1>1, <1>2, <1>3, <2>1, TimerKept, Stays DEF Once
<1>21. ASSUME NEW w \in Workers, BeginHandler(w, "CHECK_RECV") PROVE Sole' /\ Once'
  <2>1. /\ timer["CHECK_RECV"].due # <<>> /\ timer'["CHECK_RECV"].due = Tail(timer["CHECK_RECV"].due)
        /\ timer'["CHECK_RECV"].wait = timer["CHECK_RECV"].wait
        /\ UNCHANGED <<reads, rwQ>> /\ \A v \in Workers \ {w} : job'[v] = job[v]
        /\ job'[w].kind = "CHECK_RECV"
        /\ job'[w].pc = "callback" => ~Head(timer["CHECK_RECV"].due).cancelled
        /\ job'[w].pc \in {"callback", "compare"}
    BY <1>1, <1>21 DEF BeginHandler, TimerInfos, Idle
  <2>2. ~GoingOn(w)' /\ (Armed' <=> Armed)
    BY <2>1 DEF GoingOn, Armed
  <2>3. CASE job'[w].pc = "callback"
    <3>1. Firing /\ ~Firing' /\ \A i, j \in DOMAIN timer'["CHECK_RECV"].due : Valid(i)' /\ Valid(j)' => i = j
      BY <1>1, <2>1, <2>3, DueTaken
    <3>2. \A v \in Workers \ {w} : ~Checking(v)'
      BY <1>1, <1>6, <2>1, <3>1, JobsKept
    <3> QED BY <1>1, <1>2, <1>6, <1>7, <2>1, <2>2, <3>1, <3>2, JobsKept, Passed DEF Once
  <2>4. CASE job'[w].pc = "compare"
    <3>1. ~Checking(w)'
      BY <2>4 DEF Checking
    <3> QED BY <1>1, <1>2, <2>1, <2>2, <3>1, DueTaken, JobsKept, Stays DEF Once
  <2> QED BY <2>1, <2>3, <2>4
<1>22. ASSUME NEW w \in Workers, BeginHandler(w, "DISPATCH_MSG") PROVE Sole' /\ Once'
  <2>1. /\ UNCHANGED <<reads, rwQ>> /\ timer'["CHECK_RECV"] = timer["CHECK_RECV"]
        /\ job'[w].kind = "DISPATCH_MSG" /\ \A v \in Workers \ {w} : job'[v] = job[v]
    BY <1>1, <1>22 DEF BeginHandler, Idle
  <2> QED BY <1>13, <2>1 DEF GoingOn, Checking
<1>23. ASSUME NEW w \in Workers, CheckRecv(w) PROVE Sole' /\ Once'
  <2>1. Checking(w) /\ job[w].kind = "CHECK_RECV" /\ UNCHANGED <<reads, timer>>
    BY <1>23 DEF CheckRecv, Checking, At
  <2>2. CASE is_recv_buffer_available
    <3>1. Goto(w, "compare") /\ rwQ' = Append(rwQ, [task |-> "do_recv_msg"]) /\ ~Queued
      BY <1>6, <1>23, <2>1, <2>2 DEF CheckRecv
    <3>2. ~Checking(w)' /\ ~GoingOn(w)' /\ \A v \in Workers \ {w} : job'[v] = job[v]
      BY <1>1, <2>1, <3>1, Moved DEF Checking, GoingOn
    <3>3. [task |-> "do_recv_msg"] \in RwTasks
      BY DEF RwTasks
    <3>4. \A i, j \in DOMAIN rwQ' : ReadTask(i)' /\ ReadTask(j)' => i = j
      BY <1>1, <3>1, <3>3, TaskAdded
    <3> QED BY <1>1, <1>6, <1>7, <2>1, <3>2, <3>4, TimerKept, JobsKept, Passed DEF Once
  <2>3. CASE ~is_recv_buffer_available
    <3>1. Goto(w, "again") /\ rwQ' = rwQ
      BY <1>23, <2>3 DEF CheckRecv
    <3>2. ~GoingOn(w)' /\ \A v \in Workers \ {w} : job'[v] = job[v]
      BY <1>1, <2>1, <3>1, Moved DEF GoingOn
    <3> QED BY <1>13, <2>1, <3>1, <3>2
  <2> QED BY <2>2, <2>3
<1>24. ASSUME NEW w \in Workers, Again(w) PROVE Sole' /\ Once'
  <2>1. Checking(w) /\ job[w].kind = "CHECK_RECV" /\ UNCHANGED <<reads, rwQ>>
    BY <1>24 DEF Again, Checking, At
  <2>2. CASE timer["CHECK_RECV"].status = "STARTED"
    <3>1. Done(w) /\ timer' = SetTimer("CHECK_RECV")
      BY <1>24, <2>2 DEF Again
    <3>2. ~Checking(w)' /\ ~GoingOn(w)' /\ \A v \in Workers \ {w} : job'[v] = job[v]
      BY <1>1, <1>4, <3>1, Ended DEF Checking, GoingOn
    <3>3. ~Armed /\ ~Firing
      BY <1>5, <1>6, <1>7, <2>1
    <3>4. timer'["CHECK_RECV"].due = timer["CHECK_RECV"].due
      BY <1>1, <3>1, <3>3, TimerSet DEF Armed
    <3>5. ~Firing' /\ \A i, j \in DOMAIN timer'["CHECK_RECV"].due : Valid(i)' /\ Valid(j)' => i = j
      <4>1. \A i : Valid(i)' <=> Valid(i)
        BY <3>4 DEF Valid
      <4> QED BY <1>1, <3>3, <3>4, <4>1 DEF Firing, Once
    <3> QED BY <1>1, <1>2, <1>6, <1>7, <2>1, <3>2, <3>5, JobsKept, Passed DEF Once
  <2>3. CASE timer["CHECK_RECV"].status # "STARTED"
    <3>1. Goto(w, "compare") /\ timer' = timer
      BY <1>24, <2>3 DEF Again
    <3>2. ~Checking(w)' /\ ~GoingOn(w)' /\ \A v \in Workers \ {w} : job'[v] = job[v]
      BY <1>1, <2>1, <3>1, Moved DEF Checking, GoingOn
    <3> QED BY <1>13, <2>1, <3>1, <3>2
  <2> QED BY <2>2, <2>3
<1>25. ASSUME NEW w \in Workers, NEW id \in Timers, Compare(w, id) PROVE Sole' /\ Once'
  <2>1. /\ UNCHANGED <<reads, rwQ, timer>> /\ job[w].kind \in Timers
        /\ Goto(w, "cancel") \/ Done(w)
    BY <1>25 DEF Compare, At
  <2>2. ~Checking(w)' /\ ~GoingOn(w)' /\ \A v \in Workers \ {w} : job'[v] = job[v]
    BY <1>1, <1>4, <2>1, Moved, Ended DEF Checking, GoingOn, Timers
  <2> QED BY <1>13, <2>1, <2>2
<1>26. ASSUME NEW w \in Workers, NEW id \in Timers, Cancel(w, id) PROVE Sole' /\ Once'
  <2>1. /\ UNCHANGED <<reads, rwQ>> /\ Done(w)
        /\ timer'["CHECK_RECV"].due = timer["CHECK_RECV"].due
        /\ timer'["CHECK_RECV"].wait = timer["CHECK_RECV"].wait
    BY <1>1, <1>26 DEF Cancel, TimerInfos
  <2>2. ~Checking(w)' /\ ~GoingOn(w)' /\ \A v \in Workers \ {w} : job'[v] = job[v]
    BY <1>1, <1>4, <2>1, Ended DEF Checking, GoingOn
  <2> QED BY <1>1, <1>2, <2>1, <2>2, TimerKept, JobsKept, Stays DEF Once
<1>27. ASSUME ReadDone PROVE Sole' /\ Once'
  <2>1. PICK res \in Results : rwQ' = Append(rwQ, [task |-> "recv_handler", res |-> res])
    BY <1>27 DEF ReadDone
  <2>2. reads = 1 /\ reads' = 0 /\ UNCHANGED <<timer, job>> /\ ~Queued
    BY <1>1, <1>6, <1>27 DEF ReadDone
  <2>3. [task |-> "recv_handler", res |-> res] \in RwTasks
    BY DEF RwTasks
  <2>4. \A i, j \in DOMAIN rwQ' : ReadTask(i)' /\ ReadTask(j)' => i = j
    BY <1>1, <2>1, <2>2, <2>3, TaskAdded
  <2> QED BY <1>1, <1>3, <1>6, <1>7, <2>2, <2>4, TimerKept, Passed DEF Once
<1>28. ASSUME ForceShutdown PROVE Sole' /\ Once'
  <2>1. rwQ' = Append(rwQ, [task |-> "shutdown"]) /\ UNCHANGED <<reads, timer, job>>
    BY <1>28 DEF ForceShutdown
  <2>2. [task |-> "shutdown"] \in RwTasks
    BY DEF RwTasks
  <2>3. /\ \A i, j \in DOMAIN rwQ' : ReadTask(i)' /\ ReadTask(j)' => i = j
        /\ Queued' => Queued
    BY <1>1, <2>1, <2>2, TaskAdded
  <2> QED BY <1>1, <1>3, <2>1, <2>3, TimerKept, Stays DEF Once
<1>29. ASSUME DelayClose PROVE Sole' /\ Once'
  <2>1. UNCHANGED <<reads, rwQ, job>> /\ timer' \in {timer, [id \in Timers |-> Stop(timer[id])]}
    BY <1>29 DEF DelayClose
  <2> QED BY <1>1, <1>2, <1>3, <2>1, TimerStopped, Stays DEF Once
<1>30. ASSUME Restart PROVE Sole' /\ Once'
  <2>1. /\ rwQ' = <<[task |-> "do_recv_msg"]>> /\ reads' = 0 /\ timer' = timer /\ job' = job
        /\ ~timer["CHECK_RECV"].wait /\ timer["CHECK_RECV"].due = <<>>
        /\ \A w \in crew : job[w] = Idle
    BY <1>1, <1>30 DEF Restart, NoAsyncCall, AtRest, Free
  <2>2. ~Armed' /\ ~Firing' /\ \A i, j \in DOMAIN timer'["CHECK_RECV"].due : Valid(i)' /\ Valid(j)' => i = j
    BY <2>1 DEF Armed, Firing
  <2>3. \A w \in Workers : ~GoingOn(w)' /\ ~Checking(w)'
    BY <1>4, <2>1 DEF Jobbed, GoingOn, Checking
  <2>4. \A i, j \in DOMAIN rwQ' : i = j
    BY <2>1
  <2>5. \A a \in Who : Continues(a)' => a = "task"
    BY <2>1, <2>2, <2>3 DEF Continues
  <2> QED BY <2>1, <2>2, <2>3, <2>4, <2>5 DEF Sole, Once
<1>31. CASE UNCHANGED vars
  <2>1. UNCHANGED <<reads, rwQ, job, timer>>
    BY <1>31 DEF vars
  <2> QED BY <1>1, <1>2, <1>3, <2>1, TimerKept, Stays DEF Once
<1> QED
  BY <1>8, <1>9, <1>10, <1>11, <1>12, <1>14, <1>15, <1>16, <1>17, <1>18, <1>19, <1>20, <1>21, <1>22,
     <1>23, <1>24, <1>25, <1>26, <1>27, <1>28, <1>29, <1>30, <1>31
     DEF Next, TakeIoTask, TakeDispatch, TakeHandler, Work, Timers

LEMMA ReaderInit == Init => Reader
<1> SUFFICES ASSUME Init PROVE Sole /\ Once
  BY DEF Reader
<1>1. /\ reads = 0 /\ DOMAIN rwQ = {1} /\ \A w \in Workers : job[w].kind = "none"
      /\ ~timer["CHECK_RECV"].wait /\ DOMAIN timer["CHECK_RECV"].due = {}
  BY DEF Init, Idle, NewTimer, Timers
<1>2. ~Armed /\ ~Firing /\ \A w \in Workers : ~GoingOn(w) /\ ~Checking(w)
  BY <1>1 DEF Armed, Firing, GoingOn, Checking
<1>3. \A a \in Who : Continues(a) => a = "task"
  BY <1>1, <1>2 DEF Continues
<1> QED BY <1>1, <1>2, <1>3 DEF Sole, Once

(* There is never a second async_read on the socket.                         *)
THEOREM OneReadAtATime == Spec => []OneRead
<1>1. TypeOK /\ Reader => OneRead
  <2> SUFFICES ASSUME TypeOK, Reader, reads > 0, NEW i \in DOMAIN rwQ, ReadTask(i) PROVE FALSE
    BY DEF Reader, Once, OneRead
  <2>1. Continues("read") /\ Continues("task")
    BY DEF Continues, Queued
  <2> QED BY <2>1 DEF Reader, Sole, Who
<1>2. TypeOK /\ Jobbed /\ Holding /\ InOrder /\ Reader /\ [Next]_vars
        => (Jobbed /\ Holding /\ InOrder /\ Reader)'
  BY JobbedNext, HoldingNext, InOrderNext, ReaderNext
<1> QED BY TypeCorrect, OrderInit, ReaderInit, <1>1, <1>2, PTL DEF Spec


-----------------------------------------------------------------------------
(* Reading goes on.                                                          *)

(* A read that is queued stays so.                                           *)
LEMMA StillQueued ==
    ASSUME TypeOK, NEW task \in RwTasks, rwQ' = Append(rwQ, task)
    PROVE  /\ Queued => Queued'
           /\ task.task \in {"recv_handler", "do_recv_msg"} => Queued'
<1>1. /\ \A i \in DOMAIN rwQ : i \in DOMAIN rwQ' /\ (ReadTask(i)' <=> ReadTask(i))
      /\ \E i \in DOMAIN rwQ' : rwQ'[i] = task
  <2>1. /\ \A i \in DOMAIN rwQ : i \in DOMAIN rwQ' /\ rwQ'[i] = rwQ[i]
        /\ rwQ'[Len(rwQ) + 1] = task /\ DOMAIN rwQ' = 1..(Len(rwQ) + 1) /\ Len(rwQ) \in Nat
    BY Queueing DEF TypeOK
  <2> QED BY <2>1 DEF ReadTask
<1>2. Queued => Queued'
  BY <1>1 DEF Queued
<1>3. ASSUME task.task \in {"recv_handler", "do_recv_msg"} PROVE Queued'
  BY <1>1, <1>3 DEF Queued, ReadTask
<1> QED BY <1>2, <1>3

(* The setting does not change.                                              *)
LEMMA SettingKept == [Next]_vars => setting' = setting
BY DEF Next, TakeIoTask, TakeDispatch, TakeHandler, Work, DoRecvMsg, RecvHandler, DoShutdown,
       DispatchMsg, HandledMsg, EndRecvHandler, DoDispatchMsg, HandleOk, PostNext, HandleFail,
       RetryDispatch, CheckRecv, Again, BeginHandler, Compare, Cancel, Expire, CloseLink,
       ReadDone, ForceShutdown, DelayClose, Restart, vars, bufferVars, queueVars, linkVars

(* Every link begins with Restart, and ends with CloseLink.                  *)
LEMMA StillUp ==
    ASSUME TypeOK, [Next]_vars, link' = "up"
    PROVE  Restart \/ (link = "up" /\ ~CloseLink /\ ~DelayClose)
<1>1. ~CloseLink
  BY ClosedLink
<1>2. ~DelayClose
  BY DEF DelayClose, linkVars
<1>3. link = "up" \/ Restart
  BY <1>1, <1>2
     DEF Next, TakeIoTask, TakeDispatch, TakeHandler, Work, DoRecvMsg, RecvHandler, DoShutdown,
         DispatchMsg, HandledMsg, EndRecvHandler, DoDispatchMsg, HandleOk, PostNext, HandleFail,
         RetryDispatch, CheckRecv, Again, BeginHandler, Compare, Cancel, Expire,
         ReadDone, ForceShutdown, vars, linkVars
<1> QED BY <1>1, <1>2, <1>3

(* One thread does one thing.                                                *)
LEMMA OneJob ==
    ASSUME Jobbed, OneThread, NEW w \in Workers, job[w].kind # "none" \/ Free(w)
    PROVE  \A v \in Workers \ {w} : job[v].kind = "none"
<1>1. w \in crew
  BY DEF Jobbed, Free
<1> QED BY <1>1 DEF Jobbed, OneThread

(* With one thread there is always somebody who continues the read loop.     *)
LEMMA ResumedNext ==
    TypeOK /\ Jobbed /\ BareErrors /\ Reader /\ Resumed /\ [Next]_vars => Resumed'
<1> SUFFICES ASSUME TypeOK, Jobbed, BareErrors, Reader, Resumed, [Next]_vars, OneThread', link' = "up"
             PROVE  Timely' /\ Relieved' /\ Somebody'
  BY DEF Resumed
<1> USE DEF bufferVars, queueVars, linkVars
<1>1. /\ TypeOK' /\ Jobbed' /\ Sole /\ Once /\ reads \in Nat
      /\ job \in [Workers -> Jobs] /\ job' \in [Workers -> Jobs]
      /\ timer \in [Timers -> TimerInfos] /\ "CHECK_RECV" \in Timers /\ "DISPATCH_MSG" \in Timers
      /\ "CHECK_RECV" # "DISPATCH_MSG"
  BY JobbedNext, TypeNext DEF Reader, TypeOK, Timers
<1>2. setting' = setting
  BY SettingKept
<1>3. OneThread
  BY <1>2 DEF OneThread, crew
<1>4. ASSUME NEW w \in Workers, job[w].kind # "none" \/ Free(w)
      PROVE  \A v \in Workers \ {w} : job[v].kind = "none"
  BY <1>3, <1>4, OneJob
<1>5. Idle.kind = "none"
  BY DEF Idle
<1>6. ASSUME Restart PROVE Timely' /\ Relieved' /\ Somebody'
  <2>1. /\ rwQ' = <<[task |-> "do_recv_msg"]>> /\ timer' = timer /\ job' = job
        /\ ~timer["CHECK_RECV"].wait /\ timer["CHECK_RECV"].due = <<>>
        /\ \A w \in crew : job[w] = Idle
    BY <1>1, <1>6 DEF Restart, NoAsyncCall, AtRest, Free
  <2>2. \A w \in Workers : job[w].kind = "none"
    BY <1>5, <2>1 DEF Jobbed
  <2>3. Queued'
    BY <2>1 DEF Queued, ReadTask
  <2> QED BY <2>1, <2>2, <2>3 DEF Timely, Relieved, Somebody, Checking
<1> SUFFICES ASSUME ~Restart PROVE Timely' /\ Relieved' /\ Somebody'
  BY <1>6
<1>7. link = "up" /\ ~CloseLink /\ ~DelayClose
  BY StillUp
<1>8. Timely /\ Relieved /\ Somebody
  BY <1>3, <1>7 DEF Resumed
<1>9. ASSUME rwQ' = rwQ PROVE Queued' <=> Queued
  BY <1>9 DEF Queued, ReadTask
<1>10. ASSUME timer'["CHECK_RECV"] = timer["CHECK_RECV"]
       PROVE  (Armed' <=> Armed) /\ (Firing' <=> Firing) /\ \A i : Valid(i)' <=> Valid(i)
  BY <1>10 DEF Armed, Firing, Valid
(* A thread that has nothing to do with reading.                             *)
<1>11. ASSUME NEW w \in Workers, UNCHANGED <<reads, rwQ>>, timer'["CHECK_RECV"] = timer["CHECK_RECV"],
              \A v \in Workers \ {w} : job'[v] = job[v], job[w].kind # "none" \/ Free(w),
              job[w].kind \notin {"rw", "CHECK_RECV"}, job'[w].kind \notin {"rw", "CHECK_RECV"}
       PROVE  Timely' /\ Relieved' /\ Somebody'
  <2>1. \A v \in Workers : job[v].kind \notin {"rw", "CHECK_RECV"} /\ job'[v].kind \notin {"rw", "CHECK_RECV"}
    BY <1>4, <1>11
  <2>2. \A v \in Workers : ~GoingOn(v) /\ ~Checking(v) /\ ~Failing(v) /\ ~Checking(v)'
    BY <2>1 DEF GoingOn, Checking, Failing
  <2>3. Timely'
    BY <1>8, <1>10, <1>11, <2>2 DEF Timely
  <2>4. Relieved'
    BY <2>1 DEF Relieved
  <2>5. Somebody'
    BY <1>8, <1>9, <1>10, <1>11, <2>2 DEF Somebody
  <2> QED BY <2>3, <2>4, <2>5
(* A task of the read loop.                                                  *)
<1>12. ASSUME NEW w \in Workers, timer'["CHECK_RECV"] = timer["CHECK_RECV"],
              \A v \in Workers \ {w} : job'[v] = job[v], job[w].kind # "none" \/ Free(w),
              job'[w].kind # "CHECK_RECV",
              reads' > 0 \/ Queued' \/ GoingOn(w)' \/ Failing(w)'
       PROVE  Timely' /\ Relieved' /\ Somebody'
  <2>1. \A v \in Workers : job'[v].kind # "CHECK_RECV"
    BY <1>4, <1>12
  <2>2. Timely'
    BY <1>8, <1>10, <1>12, <2>1 DEF Timely, Checking
  <2>3. Relieved' /\ Somebody'
    BY <1>12, <2>1 DEF Relieved, Somebody
  <2> QED BY <2>2, <2>3
<1>13. ASSUME NEW w \in Workers, DoRecvMsg(w) PROVE Timely' /\ Relieved' /\ Somebody'
  <2>1. reads' > 0 /\ UNCHANGED <<timer, job>> /\ Free(w)
    BY <1>1, <1>13 DEF DoRecvMsg
  <2> QED BY <1>5, <1>12, <2>1 DEF Free
<1>14. ASSUME NEW w \in Workers, RecvHandler(w) PROVE Timely' /\ Relieved' /\ Somebody'
  <2> DEFINE res == Head(rwQ).res
  <2>1. /\ Free(w) /\ timer' = timer /\ \A v \in Workers \ {w} : job'[v] = job[v]
        /\ job'[w].kind = "rw" /\ job'[w].ec = (res.end = "error")
        /\ res.bytes => job'[w].pc # "end"
    BY <1>1, <1>7, <1>14 DEF RecvHandler, Idle
  <2>2. ~res.bytes => res.end = "error"
    <3>1. rwQ[1] = Head(rwQ) /\ 1 \in DOMAIN rwQ /\ Head(rwQ).task = "recv_handler"
      BY <1>14, Consumed DEF RecvHandler
    <3> QED BY <3>1 DEF BareErrors
  <2>3. GoingOn(w)' \/ Failing(w)'
    BY <2>1, <2>2 DEF GoingOn, Failing
  <2> QED BY <1>12, <2>1, <2>3
<1>15. ASSUME NEW w \in Workers, DispatchMsg(w) PROVE Timely' /\ Relieved' /\ Somebody'
  <2>1. /\ timer' = timer /\ job[w].kind = "rw" /\ \A v \in Workers \ {w} : job'[v] = job[v]
        /\ job'[w].kind = "rw" /\ job'[w].pc = "handled_msg"
    BY <1>1, <1>15, Moved DEF DispatchMsg, At
  <2> QED BY <1>12, <2>1 DEF GoingOn
<1>16. ASSUME NEW w \in Workers, HandledMsg(w) PROVE Timely' /\ Relieved' /\ Somebody'
  <2>1. /\ UNCHANGED <<reads, rwQ>> /\ \A v \in Workers \ {w} : job'[v] = job[v]
        /\ job[w].kind = "rw" /\ job[w].pc = "handled_msg"
        /\ job'[w].kind = "rw" /\ job'[w].pc = "end" /\ job'[w].go_on = is_recv_buffer_available
        /\ job'[w].ec = job[w].ec /\ job[w].ec \in BOOLEAN
    BY <1>1, <1>16 DEF HandledMsg, At, Jobs
  <2>2. CASE is_recv_buffer_available
    <3>1. timer' = timer
      BY <1>16, <2>2 DEF HandledMsg
    <3>2. GoingOn(w)' \/ Failing(w)'
      BY <2>1, <2>2 DEF GoingOn, Failing
    <3> QED BY <1>12, <2>1, <3>1, <3>2
  <2>3. CASE ~is_recv_buffer_available
    <3>1. timer' = SetTimer("CHECK_RECV")
      BY <1>16, <2>3 DEF HandledMsg
    <3>2. Continues("handler") /\ (Armed => Continues("timer"))
      BY <2>1 DEF Continues, GoingOn
    <3>3. ~timer["CHECK_RECV"].wait
      BY <1>1, <3>2 DEF Sole, Who, Armed
    <3>4. /\ timer'["CHECK_RECV"].due = timer["CHECK_RECV"].due /\ timer'["CHECK_RECV"].wait
          /\ timer'["CHECK_RECV"].status = "STARTED"
      BY <1>1, <3>1, <3>3, TimerSet
    <3>5. Timely' /\ Somebody'
      BY <1>8, <3>4 DEF Timely, Somebody, Armed, Valid
    <3>6. Relieved'
      BY <1>4, <2>1 DEF Relieved
    <3> QED BY <3>5, <3>6
  <2> QED BY <2>2, <2>3
<1>17. ASSUME NEW w \in Workers, EndRecvHandler(w) PROVE Timely' /\ Relieved' /\ Somebody'
  <2>1. /\ rwQ' = rwQ /\ timer' = timer /\ \A v \in Workers \ {w} : job'[v] = job[v]
        /\ job[w].kind = "rw" /\ job[w].pc = "end" /\ job'[w].kind = "none" /\ ~job[w].ec
        /\ reads' = IF job[w].go_on THEN reads + 1 ELSE reads
    BY <1>1, <1>5, <1>7, <1>17, Ended DEF EndRecvHandler, At
  <2>2. CASE job[w].go_on
    <3>1. reads' > 0
      BY <1>1, <2>1, <2>2
    <3> QED BY <1>12, <2>1, <3>1
  <2>3. CASE ~job[w].go_on
    <3>1. \A v \in Workers : ~GoingOn(v) /\ ~Checking(v) /\ ~Failing(v)
      BY <1>4, <2>1, <2>3 DEF GoingOn, Checking, Failing
    <3>2. \A v \in Workers : job'[v].kind = "none"
      BY <1>4, <2>1
    <3>3. Timely'
      BY <1>8, <1>10, <2>1, <3>2 DEF Timely, Checking
    <3>4. Somebody'
      BY <1>8, <1>9, <1>10, <2>1, <2>3, <3>1 DEF Somebody
    <3>5. Relieved'
      BY <3>2 DEF Relieved
    <3> QED BY <3>3, <3>4, <3>5
  <2> QED BY <2>2, <2>3
<1>18. ASSUME NEW w \in Workers, DoShutdown(w) PROVE FALSE
  BY <1>7, <1>18 DEF DoShutdown
<1>19. ASSUME NEW w \in Workers, DoDispatchMsg(w) PROVE Timely' /\ Relieved' /\ Somebody'
  <2>1. /\ UNCHANGED <<reads, rwQ, timer>> /\ Free(w)
        /\ job' = job \/ (job'[w].kind = "dis" /\ \A v \in Workers \ {w} : job'[v] = job[v])
    BY <1>1, <1>19 DEF DoDispatchMsg, Idle
  <2> QED BY <1>5, <1>11, <2>1 DEF Free
<1>20. ASSUME NEW w \in Workers, HandleOk(w) \/ RetryDispatch(w) PROVE Timely' /\ Relieved' /\ Somebody'
  <2>1. /\ UNCHANGED <<reads, rwQ, timer>> /\ job[w].kind \in {"dis", "DISPATCH_MSG"}
        /\ Goto(w, "post") \/ Goto(w, "compare")
    BY <1>20 DEF HandleOk, RetryDispatch, At
  <2>2. job'[w].kind = job[w].kind /\ \A v \in Workers \ {w} : job'[v] = job[v]
    BY <1>1, <2>1, Moved
  <2> QED BY <1>11, <2>1, <2>2
<1>21. ASSUME NEW w \in Workers, PostNext(w) \/ HandleFail(w) PROVE Timely' /\ Relieved' /\ Somebody'
  <2>1. /\ UNCHANGED <<reads, rwQ>> /\ job[w].kind = "dis" /\ Done(w)
        /\ timer' \in {timer, SetTimer("DISPATCH_MSG")}
    BY <1>21 DEF PostNext, HandleFail, At
  <2>2. SetTimer("DISPATCH_MSG")["CHECK_RECV"] = timer["CHECK_RECV"]
    BY <1>1, TimerSet
  <2>3. job'[w].kind = "none" /\ \A v \in Workers \ {w} : job'[v] = job[v]
    BY <1>1, <1>5, <2>1, Ended
  <2> QED BY <1>11, <2>1, <2>2, <2>3
<1>22. ASSUME Expire("CHECK_RECV") PROVE Timely' /\ Relieved' /\ Somebody'
  <2>1. PICK ti \in TimerInfos : ti = timer["CHECK_RECV"]
    BY <1>1
  <2>2. PICK new : new = timer'["CHECK_RECV"]
    OBVIOUS
  <2> DEFINE h == [prev_seq |-> ti.seq, cancelled |-> FALSE]
  <2>3. /\ ti.wait /\ new = Complete(ti, FALSE) /\ UNCHANGED <<reads, rwQ, job>>
    BY <1>1, <1>22, <2>1, <2>2 DEF Expire
  <2>4. new.status = ti.status /\ ~new.wait /\ new.due = Append(ti.due, h) /\ ti.due \in Seq(Handlers)
    BY <2>3, Completed DEF TimerInfos
  <2>5. ti.status = "STARTED" /\ \A i \in DOMAIN ti.due : ~ti.due[i].cancelled
    BY <1>8, <2>1, <2>3 DEF Timely, Valid
  <2>6. h.cancelled = FALSE
    OBVIOUS
  <2> HIDE DEF h
  <2>7. \A i \in DOMAIN new.due : (i \in DOMAIN ti.due /\ new.due[i] = ti.due[i]) \/ new.due[i] = h
    BY <2>4
  <2>8. \A i \in DOMAIN new.due : ~new.due[i].cancelled
    BY <2>5, <2>6, <2>7
  <2>9. Len(new.due) \in DOMAIN new.due
    BY <2>4
  <2>10. Timely'
    BY <2>2, <2>4, <2>5, <2>8 DEF Timely, Valid
  <2>11. Somebody'
    BY <2>2, <2>8, <2>9 DEF Somebody, Firing, Valid
  <2>12. Relieved'
    BY <1>8, <1>9, <2>3 DEF Relieved, Checking
  <2> QED BY <2>10, <2>11, <2>12
<1>23. ASSUME UNCHANGED <<reads, rwQ, job>>, timer'["CHECK_RECV"] = timer["CHECK_RECV"]
       PROVE  Timely' /\ Relieved' /\ Somebody'
  BY <1>8, <1>9, <1>10, <1>23 DEF Timely, Relieved, Somebody, Checking, GoingOn, Failing
<1>24. ASSUME Expire("DISPATCH_MSG") \/ UNCHANGED vars PROVE Timely' /\ Relieved' /\ Somebody'
  <2>1. timer'["CHECK_RECV"] = timer["CHECK_RECV"] /\ UNCHANGED <<reads, rwQ, job>>
    BY <1>1, <1>24 DEF Expire, vars
  <2> QED BY <1>23, <2>1
<1>25. ASSUME NEW w \in Workers, BeginHandler(w, "CHECK_RECV") PROVE Timely' /\ Relieved' /\ Somebody'
  <2>1. PICK ti \in TimerInfos : ti = timer["CHECK_RECV"]
    BY <1>1
  <2>2. PICK new : new = timer'["CHECK_RECV"]
    OBVIOUS
  <2>3. ti.due # <<>> /\ ti.due \in Seq(Handlers) /\ new = [ti EXCEPT !.due = Tail(ti.due)] /\ Free(w)
    BY <1>1, <1>25, <2>1, <2>2 DEF BeginHandler, TimerInfos
  <2>4. new.due = Tail(ti.due) /\ new.status = ti.status
    BY <2>3 DEF TimerInfos
  <2>5. ti.status = "STARTED" /\ \A i \in DOMAIN ti.due : ~ti.due[i].cancelled
    BY <1>8, <2>1, <2>3 DEF Timely, Valid
  <2>6. ~Head(ti.due).cancelled
    BY <2>3, <2>5
  <2>7. \A i \in DOMAIN new.due : ~new.due[i].cancelled
    BY <2>3, <2>4, <2>5
  <2>8. /\ job'[w].kind = "CHECK_RECV" /\ job'[w].pc = "callback"
        /\ \A v \in Workers \ {w} : job'[v] = job[v]
    BY <1>1, <1>25, <2>1, <2>5, <2>6 DEF BeginHandler, Idle
  <2>9. Checking(w)' /\ \A v \in Workers \ {w} : job'[v].kind = "none"
    BY <1>4, <2>3, <2>8 DEF Checking
  <2> QED BY <2>2, <2>4, <2>5, <2>7, <2>9 DEF Timely, Relieved, Somebody, Valid
<1>26. ASSUME NEW w \in Workers, BeginHandler(w, "DISPATCH_MSG") PROVE Timely' /\ Relieved' /\ Somebody'
  <2>1. /\ UNCHANGED <<reads, rwQ>> /\ timer'["CHECK_RECV"] = timer["CHECK_RECV"] /\ Free(w)
        /\ job'[w].kind = "DISPATCH_MSG" /\ \A v \in Workers \ {w} : job'[v] = job[v]
    BY <1>1, <1>26 DEF BeginHandler, Idle
  <2> QED BY <1>5, <1>11, <2>1 DEF Free
<1>27. ASSUME NEW w \in Workers, CheckRecv(w) PROVE Timely' /\ Relieved' /\ Somebody'
  <2>1. job[w].kind = "CHECK_RECV" /\ timer' = timer /\ Checking(w)
    BY <1>27 DEF CheckRecv, At, Checking
  <2>2. \A v \in Workers \ {w} : job'[v] = job[v] /\ job[v].kind = "none"
    BY <1>1, <1>4, <1>27, <2>1, Moved DEF CheckRecv
  <2>3. timer["CHECK_RECV"].status = "STARTED"
    BY <1>8, <2>1 DEF Timely
  <2>4. Timely'
    BY <1>8, <1>10, <2>1, <2>3 DEF Timely
  <2>5. CASE is_recv_buffer_available
    <3>1. [task |-> "do_recv_msg"] \in RwTasks
      BY DEF RwTasks
    <3>2. Queued'
      BY <1>27, <2>5, <3>1, StillQueued DEF CheckRecv
    <3> QED BY <2>4, <3>2 DEF Relieved, Somebody
  <2>6. CASE ~is_recv_buffer_available
    <3>1. Checking(w)'
      BY <1>1, <1>27, <2>1, <2>6, Moved DEF CheckRecv, Checking
    <3> QED BY <2>2, <2>4, <3>1 DEF Relieved, Somebody
  <2> QED BY <2>5, <2>6
<1>28. ASSUME NEW w \in Workers, Again(w) PROVE Timely' /\ Relieved' /\ Somebody'
  <2>1. job[w].kind = "CHECK_RECV" /\ Checking(w) /\ UNCHANGED <<reads, rwQ>>
    BY <1>28 DEF Again, At, Checking
  <2>2. timer["CHECK_RECV"].status = "STARTED"
    BY <1>8, <2>1 DEF Timely
  <2>3. timer' = SetTimer("CHECK_RECV") /\ Done(w)
    BY <1>28, <2>2 DEF Again
  <2>4. Continues("callback") /\ (Armed => Continues("timer"))
    BY <2>1 DEF Continues
  <2>5. ~timer["CHECK_RECV"].wait
    BY <1>1, <2>4 DEF Sole, Who, Armed
  <2>6. /\ timer'["CHECK_RECV"].due = timer["CHECK_RECV"].due /\ timer'["CHECK_RECV"].wait
        /\ timer'["CHECK_RECV"].status = "STARTED"
    BY <1>1, <2>3, <2>5, TimerSet
  <2>7. Timely' /\ Somebody'
    BY <1>8, <2>6 DEF Timely, Somebody, Armed, Valid
  <2>8. \A v \in Workers : job'[v].kind = "none"
    BY <1>1, <1>4, <1>5, <2>1, <2>3, Ended
  <2> QED BY <2>7, <2>8 DEF Relieved
<1>29. ASSUME NEW w \in Workers, Compare(w, "CHECK_RECV") PROVE Timely' /\ Relieved' /\ Somebody'
  <2>1. /\ UNCHANGED <<reads, rwQ, timer>> /\ job[w].kind = "CHECK_RECV" /\ ~Checking(w)
        /\ Goto(w, "cancel") \/ Done(w)
    BY <1>29 DEF Compare, At, Checking
  <2>2. reads' > 0 \/ Queued'
    BY <1>8, <1>9, <2>1 DEF Relieved
  <2>3. \A v \in Workers : Checking(v)' => Checking(v)
    BY <1>1, <1>5, <2>1, Moved, Ended DEF Checking
  <2> QED BY <1>8, <1>10, <2>1, <2>2, <2>3 DEF Timely, Relieved, Somebody
<1>30. ASSUME NEW w \in Workers, Cancel(w, "CHECK_RECV") PROVE Timely' /\ Relieved' /\ Somebody'
  <2>1. /\ UNCHANGED <<reads, rwQ>> /\ job[w].kind = "CHECK_RECV" /\ ~Checking(w) /\ Done(w)
        /\ timer'["CHECK_RECV"].due = timer["CHECK_RECV"].due
        /\ timer'["CHECK_RECV"].wait = timer["CHECK_RECV"].wait
    BY <1>1, <1>30 DEF Cancel, At, Checking, TimerInfos
  <2>2. reads > 0 \/ Queued
    BY <1>8, <2>1 DEF Relieved
  <2>3. ~Armed /\ ~Firing
    <3>1. Continues("read") \/ Continues("task")
      BY <2>2 DEF Continues
    <3>2. (Armed => Continues("timer")) /\ (Firing => Continues("due"))
      BY DEF Continues
    <3> QED BY <1>1, <3>1, <3>2 DEF Sole, Who
  <2>4. timer["CHECK_RECV"].due = <<>>
    <3>1. PICK due \in Seq(Handlers) : due = timer["CHECK_RECV"].due
      BY <1>1 DEF TimerInfos
    <3>2. DOMAIN due = {}
      BY <1>8, <2>3, <3>1 DEF Timely, Firing
    <3>3. due # <<>> => 1 \in DOMAIN due
      OBVIOUS
    <3> QED BY <3>1, <3>2, <3>3
  <2>5. \A v \in Workers : job'[v].kind = "none"
    BY <1>1, <1>4, <1>5, <2>1, Ended
  <2>6. Timely'
    BY <2>1, <2>3, <2>4, <2>5 DEF Timely, Armed, Checking
  <2> QED BY <1>9, <2>1, <2>2, <2>5, <2>6 DEF Relieved, Somebody
<1>31. ASSUME NEW w \in Workers, Compare(w, "DISPATCH_MSG") \/ Cancel(w, "DISPATCH_MSG")
       PROVE Timely' /\ Relieved' /\ Somebody'
  <2>1. /\ UNCHANGED <<reads, rwQ>> /\ timer'["CHECK_RECV"] = timer["CHECK_RECV"]
        /\ job[w].kind = "DISPATCH_MSG"
        /\ Goto(w, "cancel") \/ Done(w)
    BY <1>1, <1>31 DEF Compare, Cancel, At
  <2>2. job'[w].kind \in {"DISPATCH_MSG", "none"} /\ \A v \in Workers \ {w} : job'[v] = job[v]
    BY <1>1, <1>5, <2>1, Moved, Ended
  <2> QED BY <1>11, <2>1, <2>2
<1>32. ASSUME ReadDone \/ ForceShutdown PROVE Timely' /\ Relieved' /\ Somebody'
  <2>1. UNCHANGED <<job, timer>>
    BY <1>32 DEF ReadDone, ForceShutdown
  <2>2. Timely'
    BY <1>8, <1>10, <2>1 DEF Timely, Checking
  <2>3. CASE ReadDone
    <3>1. PICK res \in Results : rwQ' = Append(rwQ, [task |-> "recv_handler", res |-> res])
      BY <2>3 DEF ReadDone
    <3>2. [task |-> "recv_handler", res |-> res] \in RwTasks
      BY DEF RwTasks
    <3>3. Queued'
      BY <3>1, <3>2, StillQueued
    <3> QED BY <2>2, <3>3 DEF Relieved, Somebody
  <2>4. CASE ForceShutdown
    <3>1. [task |-> "shutdown"] \in RwTasks
      BY DEF RwTasks
    <3>2. (Queued => Queued') /\ reads' = reads
      BY <2>4, <3>1, StillQueued DEF ForceShutdown
    <3> QED BY <1>8, <1>10, <2>1, <2>2, <3>2 DEF Relieved, Somebody, Checking, GoingOn, Failing
  <2> QED BY <1>32, <2>3, <2>4
<1> QED
  BY <1>7, <1>13, <1>14, <1>15, <1>16, <1>17, <1>18, <1>19, <1>20, <1>21, <1>22, <1>24, <1>25, <1>26,
     <1>27, <1>28, <1>29, <1>30, <1>31, <1>32
     DEF Next, TakeIoTask, TakeDispatch, TakeHandler, Work, Timers

LEMMA ResumedInit == Init => BareErrors /\ Resumed
<1> SUFFICES ASSUME Init PROVE BareErrors /\ Timely /\ Relieved /\ Somebody
  BY DEF Resumed
<1>1. /\ rwQ = <<[task |-> "do_recv_msg"]>> /\ \A w \in Workers : job[w].kind = "none"
      /\ ~timer["CHECK_RECV"].wait /\ timer["CHECK_RECV"].due = <<>>
  BY DEF Init, Idle, NewTimer, Timers
<1>2. BareErrors /\ Queued
  BY <1>1 DEF BareErrors, Queued, ReadTask
<1>3. Timely
  BY <1>1 DEF Timely, Checking
<1> QED BY <1>1, <1>2, <1>3 DEF Relieved, Somebody

(* With one service thread, the read loop of a working link goes on or is    *)
(* resumed by its timer.                                                     *)
THEOREM ReadingGoesOn == Spec => []ReadComing
<1>1. Resumed => ReadComing
  <2> SUFFICES ASSUME Timely, Somebody
               PROVE  reads > 0 \/ rwQ # <<>> \/ Held("rw") \/ WillFire("CHECK_RECV")
    BY DEF Resumed, ReadComing
  <2>1. CASE reads > 0 \/ Queued
    BY <2>1 DEF Queued
  <2>2. CASE Armed \/ Firing
    BY <2>2 DEF Timely, Armed, Firing, Valid, WillFire
  <2>3. CASE \E w \in Workers : GoingOn(w) \/ Checking(w) \/ Failing(w)
    BY <2>3 DEF GoingOn, Checking, Failing, Held, WillFire
  <2> QED BY <2>1, <2>2, <2>3 DEF Somebody
<1>2. TypeOK /\ Jobbed /\ Holding /\ InOrder /\ BareErrors /\ Reader /\ Resumed /\ [Next]_vars
        => (Jobbed /\ Holding /\ InOrder /\ BareErrors /\ Reader /\ Resumed)'
  BY JobbedNext, HoldingNext, InOrderNext, BareErrorsNext, ReaderNext, ResumedNext
<1> QED BY TypeCorrect, OrderInit, ReaderInit, ResumedInit, <1>1, <1>2, PTL DEF Spec


-----------------------------------------------------------------------------
(* A refused message is offered again.                                       *)

(* A seq that has not wrapped is the number of the starts.                   *)
LEMMA ModSmall ==
    ASSUME NEW m \in Nat, NEW n \in 0..(m - 1)
    PROVE  n % m = n
OBVIOUS

(* What is in a sequence of handlers once one has been added.                *)
LEMMA OneMore ==
    ASSUME NEW s \in Seq(Handlers), NEW h
    PROVE  LET r == Append(s, h) IN
           /\ \A i \in DOMAIN r : (i \in DOMAIN s /\ r[i] = s[i]) \/ r[i] = h
           /\ \E i \in DOMAIN r : r[i] = h
<1>1. Len(s) + 1 \in DOMAIN Append(s, h) /\ Append(s, h)[Len(s) + 1] = h
  OBVIOUS
<1>2. \A i \in DOMAIN Append(s, h) : (i \in DOMAIN s /\ Append(s, h)[i] = s[i]) \/ Append(s, h)[i] = h
  OBVIOUS
<1> QED BY ONLY <1>1, <1>2

(* One handler more, or the wait over, or a start: the order stays.          *)
LEMMA RunsOrdered ==
    ASSUME NEW s \in Seq(Handlers), NEW n \in Nat, NEW c \in BOOLEAN,
           \A i \in DOMAIN s : s[i].prev_seq < n,
           \A i, j \in DOMAIN s : i < j => s[i].prev_seq < s[j].prev_seq
    PROVE  LET r == Append(s, [prev_seq |-> n, cancelled |-> c]) IN
           /\ \A i \in DOMAIN r : r[i].prev_seq <= n
           /\ \A i, j \in DOMAIN r : i < j => r[i].prev_seq < r[j].prev_seq
           /\ \A i \in DOMAIN r : (i \in DOMAIN s /\ r[i] = s[i])
                                   \/ (r[i].prev_seq = n /\ r[i].cancelled = c)
           /\ \E i \in DOMAIN r : r[i].prev_seq = n /\ r[i].cancelled = c
<1> DEFINE h == [prev_seq |-> n, cancelled |-> c]
           r == Append(s, h)
<1>1. h.prev_seq = n /\ h.cancelled = c
  OBVIOUS
<1>2. \A i \in DOMAIN s : s[i].prev_seq \in Nat
  BY DueTyped
<1> HIDE DEF h
<1>3. /\ \A i \in DOMAIN r : \/ i \in DOMAIN s /\ r[i] = s[i]
                             \/ i = Len(s) + 1 /\ r[i] = h
      /\ Len(s) + 1 \in DOMAIN r /\ r[Len(s) + 1] = h
      /\ \A i \in DOMAIN s : i \in Nat /\ i < Len(s) + 1 /\ ~(Len(s) + 1 < i)
      /\ ~(Len(s) + 1 < Len(s) + 1)
  OBVIOUS
<1> HIDE DEF r
<1>4. \A i \in DOMAIN r : r[i].prev_seq <= n
  BY <1>1, <1>2, <1>3
<1>5. \A i, j \in DOMAIN r : i < j => r[i].prev_seq < r[j].prev_seq
  BY <1>1, <1>3
<1> QED BY <1>1, <1>3, <1>4, <1>5 DEF r, h

(* Handlers run in the order of the starts, which are as many as the refusals. *)
LEMMA CountedNext ==
    ASSUME MaxFails < SeqMod
    PROVE  TypeOK /\ Jobbed /\ Counted /\ InTurnRun /\ [Next]_vars => Counted' /\ InTurnRun'
<1> SUFFICES ASSUME TypeOK, Jobbed, Counted, InTurnRun, [Next]_vars PROVE Counted' /\ InTurnRun'
  OBVIOUS
<1> USE DEF bufferVars, queueVars, linkVars
<1>1. /\ fails \in Nat /\ job \in [Workers -> Jobs] /\ job' \in [Workers -> Jobs]
      /\ timer \in [Timers -> TimerInfos] /\ "CHECK_RECV" \in Timers /\ "DISPATCH_MSG" \in Timers
      /\ "CHECK_RECV" # "DISPATCH_MSG" /\ MaxFails \in Nat
      /\ (OneThread' <=> OneThread) /\ Idle.kind = "none"
  BY TypeNext, SettingKept, RecvAssumption DEF TypeOK, Timers, OneThread, crew, Idle
<1>2. PICK ti \in TimerInfos : ti = timer["DISPATCH_MSG"]
  BY <1>1
<1>3. PICK new : new = timer'["DISPATCH_MSG"]
  OBVIOUS
<1>4. ti.due \in Seq(Handlers) /\ ti.seq = fails /\ fails <= MaxFails /\ ti.wait \in BOOLEAN
  BY <1>2 DEF Counted, TimerInfos
<1>5. /\ \A i \in DOMAIN ti.due : ti.due[i].prev_seq <= fails /\ (ti.wait => ti.due[i].prev_seq < fails)
      /\ \A i, j \in DOMAIN ti.due : i < j => ti.due[i].prev_seq < ti.due[j].prev_seq
  BY <1>2 DEF Counted
<1>6. ASSUME OneThread, NEW w \in Workers, job[w].kind = "DISPATCH_MSG"
      PROVE  /\ job[w].prev_seq <= fails /\ (ti.wait => job[w].prev_seq < fails)
             /\ \A i \in DOMAIN ti.due : job[w].prev_seq < ti.due[i].prev_seq
  BY <1>2, <1>6 DEF InTurnRun
(* The timer and the job of the handler are left alone.                      *)
<1>7. ASSUME fails' = fails, new.seq = ti.seq, new.due = ti.due, new.wait => ti.wait,
             \A w \in Workers : job'[w].kind = "DISPATCH_MSG" =>
                 job[w].kind = "DISPATCH_MSG" /\ job'[w].prev_seq = job[w].prev_seq
      PROVE  Counted' /\ InTurnRun'
  <2>1. Counted'
    BY <1>3, <1>4, <1>5, <1>7 DEF Counted
  <2>2. InTurnRun'
    BY <1>1, <1>3, <1>6, <1>7 DEF InTurnRun
  <2> QED BY <2>1, <2>2
(* The wait ends.                                                            *)
<1>8. ASSUME fails' = fails, ti.wait, ~new.wait, new.seq = ti.seq, NEW c \in BOOLEAN,
             new.due = Append(ti.due, [prev_seq |-> ti.seq, cancelled |-> c]),
             \A w \in Workers : job'[w].kind = "DISPATCH_MSG" =>
                 job[w].kind = "DISPATCH_MSG" /\ job'[w].prev_seq = job[w].prev_seq
      PROVE  Counted' /\ InTurnRun'
  <2>1. /\ \A i \in DOMAIN new.due : new.due[i].prev_seq <= fails
        /\ \A i, j \in DOMAIN new.due : i < j => new.due[i].prev_seq < new.due[j].prev_seq
        /\ \A i \in DOMAIN new.due : (i \in DOMAIN ti.due /\ new.due[i] = ti.due[i])
                                      \/ new.due[i].prev_seq = fails
    BY <1>1, <1>4, <1>5, <1>8, RunsOrdered
  <2>2. Counted'
    BY <1>3, <1>4, <1>8, <2>1 DEF Counted
  <2>3. InTurnRun'
    BY <1>1, <1>3, <1>6, <1>8, <2>1 DEF InTurnRun
  <2> QED BY <2>2, <2>3
<1>9. ASSUME NEW w \in Workers, NEW p \in {"handled_msg", "post", "again", "compare", "cancel"},
             Done(w) \/ Goto(w, p)
      PROVE  \A v \in Workers : job'[v].kind = "DISPATCH_MSG" =>
                 job[v].kind = "DISPATCH_MSG" /\ job'[v].prev_seq = job[v].prev_seq
  BY <1>1, <1>9, Moved, Ended
<1>10. ASSUME fails' = fails, timer' \in {timer, [id \in Timers |-> Stop(timer[id])]},
              \A v \in Workers : job'[v].kind = "DISPATCH_MSG" =>
                  job[v].kind = "DISPATCH_MSG" /\ job'[v].prev_seq = job[v].prev_seq
       PROVE  Counted' /\ InTurnRun'
  <2>1. new = ti \/ new = Stop(ti)
    BY <1>1, <1>2, <1>3, <1>10
  <2>2. \/ new = ti
        \/ ~new.wait /\ new.seq = ti.seq /\ new.due = ti.due
        \/ /\ ~new.wait /\ new.seq = ti.seq /\ ti.wait
           /\ new.due = Append(ti.due, [prev_seq |-> ti.seq, cancelled |-> TRUE])
    <3>1. /\ Stop(ti).seq = ti.seq
          /\ ti.status # "STARTED" => Stop(ti) = ti
          /\ ti.status = "STARTED" =>
                /\ ~Stop(ti).wait
                /\ Stop(ti).due = IF ti.wait
                                  THEN Append(ti.due, [prev_seq |-> ti.seq, cancelled |-> TRUE])
                                  ELSE ti.due
      BY <1>4, Stopped
    <3> QED BY ONLY <2>1, <3>1
  <2> QED BY <1>7, <1>8, <1>10, <2>2
<1>11. ASSUME NEW w \in Workers, RecvHandler(w) PROVE Counted' /\ InTurnRun'
  <2>1. /\ fails' = fails /\ timer' \in {timer, [id \in Timers |-> Stop(timer[id])]}
        /\ job'[w].kind = "rw" /\ \A v \in Workers \ {w} : job'[v] = job[v]
    BY <1>1, <1>11 DEF RecvHandler, CloseLink, Idle
  <2>2. \A v \in Workers : job'[v].kind = "DISPATCH_MSG" => job'[v] = job[v]
    BY <2>1
  <2> QED BY <1>10, <2>1, <2>2
<1>12. ASSUME NEW w \in Workers, HandledMsg(w) PROVE Counted' /\ InTurnRun'
  <2>1. /\ fails' = fails /\ timer' \in {timer, SetTimer("CHECK_RECV")}
        /\ job'[w].kind = job[w].kind /\ job[w].kind = "rw" /\ \A v \in Workers \ {w} : job'[v] = job[v]
    BY <1>1, <1>12 DEF HandledMsg, At, Jobs
  <2>2. SetTimer("CHECK_RECV")["DISPATCH_MSG"] = timer["DISPATCH_MSG"]
    BY <1>1, TimerSet
  <2>3. new = ti
    BY <1>2, <1>3, <2>1, <2>2
  <2>4. \A v \in Workers : job'[v].kind = "DISPATCH_MSG" => job'[v] = job[v]
    BY <2>1
  <2> QED BY <1>7, <2>1, <2>3, <2>4
<1>13. ASSUME NEW w \in Workers, EndRecvHandler(w) \/ PostNext(w) PROVE Counted' /\ InTurnRun'
  <2>1. fails' = fails /\ timer' \in {timer, [id \in Timers |-> Stop(timer[id])]} /\ Done(w)
    BY <1>13 DEF EndRecvHandler, PostNext, CloseLink
  <2> QED BY <1>9, <1>10, <2>1
<1>14. ASSUME \/ \E w \in Workers : DoRecvMsg(w) \/ DoShutdown(w)
              \/ DelayClose \/ ReadDone \/ ForceShutdown \/ Restart \/ UNCHANGED vars
       PROVE  Counted' /\ InTurnRun'
  <2>1. UNCHANGED <<fails, job>> /\ timer' \in {timer, [id \in Timers |-> Stop(timer[id])]}
    BY <1>14 DEF DoRecvMsg, DoShutdown, CloseLink, DelayClose, ReadDone, ForceShutdown, Restart, vars
  <2> QED BY <1>10, <2>1
<1>15. ASSUME NEW w \in Workers, DoDispatchMsg(w) PROVE Counted' /\ InTurnRun'
  <2>1. /\ UNCHANGED <<fails, timer>>
        /\ job' = job \/ (job'[w].kind = "dis" /\ \A v \in Workers \ {w} : job'[v] = job[v])
    BY <1>1, <1>15 DEF DoDispatchMsg, Idle
  <2>2. \A v \in Workers : job'[v].kind = "DISPATCH_MSG" => job'[v] = job[v]
    BY <2>1
  <2> QED BY <1>10, <2>1, <2>2
<1>16. ASSUME NEW w \in Workers,
              DispatchMsg(w) \/ HandleOk(w) \/ RetryDispatch(w) \/ CheckRecv(w)
              \/ \E id \in Timers : Compare(w, id)
       PROVE  Counted' /\ InTurnRun'
  <2>1. /\ UNCHANGED <<fails, timer>>
        /\ Done(w) \/ \E p \in {"handled_msg", "post", "again", "compare", "cancel"} : Goto(w, p)
    BY <1>16 DEF DispatchMsg, HandleOk, RetryDispatch, CheckRecv, Compare
  <2> QED BY <1>9, <1>10, <2>1
<1>17. ASSUME NEW w \in Workers, NEW id \in Timers, Cancel(w, id) PROVE Counted' /\ InTurnRun'
  <2>1. fails' = fails /\ Done(w) /\ (new = ti \/ new = [ti EXCEPT !.status = "CANCELED"])
    BY <1>1, <1>2, <1>3, <1>17 DEF Cancel
  <2>2. new.seq = ti.seq /\ new.due = ti.due /\ new.wait = ti.wait
    BY <2>1 DEF TimerInfos
  <2> QED BY <1>7, <1>9, <2>1, <2>2
<1>18. ASSUME NEW w \in Workers, Again(w) PROVE Counted' /\ InTurnRun'
  <2>1. fails' = fails /\ timer' \in {timer, SetTimer("CHECK_RECV")} /\ (Done(w) \/ Goto(w, "compare"))
    BY <1>18 DEF Again
  <2>2. SetTimer("CHECK_RECV")["DISPATCH_MSG"] = timer["DISPATCH_MSG"]
    BY <1>1, TimerSet
  <2>3. new = ti
    BY <1>2, <1>3, <2>1, <2>2
  <2> QED BY <1>7, <1>9, <2>1, <2>3
<1>19. ASSUME NEW w \in Workers, HandleFail(w) PROVE Counted' /\ InTurnRun'
  <2>1. /\ fails < MaxFails /\ fails' = fails + 1 /\ timer' = SetTimer("DISPATCH_MSG")
        /\ job[w].kind = "dis" /\ Done(w)
    BY <1>19 DEF HandleFail, At
  <2>2. /\ new.seq = (ti.seq + 1) % SeqMod /\ new.wait
        /\ new.due = IF ti.wait THEN Append(ti.due, [prev_seq |-> ti.seq, cancelled |-> TRUE]) ELSE ti.due
    BY <1>1, <1>2, <1>3, <2>1, TimerSet
  <2>3. new.seq = fails'
    <3>1. fails \in Nat /\ MaxFails \in Nat /\ SeqMod \in Nat /\ MaxFails < SeqMod /\ ti.seq = fails
      BY <1>1, <1>4, SeqAssumption
    <3>2. fails + 1 \in 0..(SeqMod - 1)
      <4>1. fails < MaxFails
        BY <2>1
      <4> QED BY ONLY <3>1, <4>1
    <3>3. (fails + 1) % SeqMod = fails + 1
      BY ONLY <3>1, <3>2, ModSmall
    <3> QED BY <2>1, <2>2, <3>1, <3>3
  <2>4. /\ \A i \in DOMAIN new.due : new.due[i].prev_seq \in Nat /\ new.due[i].prev_seq < fails'
        /\ \A i, j \in DOMAIN new.due : i < j => new.due[i].prev_seq < new.due[j].prev_seq
    <3>1. \A i \in DOMAIN ti.due : ti.due[i].prev_seq \in Nat
      BY <1>4, DueTyped
    <3>2. CASE ~ti.wait
      BY <1>1, <1>5, <2>1, <2>2, <3>1, <3>2
    <3>3. CASE ti.wait
      <4>1. new.due = Append(ti.due, [prev_seq |-> fails, cancelled |-> TRUE])
        BY <1>4, <2>2, <3>3
      <4>2. new.due \in Seq(Handlers)
        BY <1>1, <1>4, <4>1 DEF Handlers
      <4>3. \A i \in DOMAIN new.due : new.due[i].prev_seq \in Nat
        BY <4>2, DueTyped
      <4>4. /\ \A i \in DOMAIN new.due : new.due[i].prev_seq <= fails
            /\ \A i, j \in DOMAIN new.due : i < j => new.due[i].prev_seq < new.due[j].prev_seq
        BY <1>1, <1>4, <1>5, <3>3, <4>1, RunsOrdered
      <4> QED BY <1>1, <2>1, <4>3, <4>4
    <3> QED BY <3>2, <3>3
  <2>5. Counted'
    <3>1. fails' <= MaxFails
      BY <1>1, <2>1
    <3>2. \A i \in DOMAIN new.due : new.due[i].prev_seq <= fails'
      BY <1>1, <2>1, <2>4
    <3> QED BY <1>3, <2>3, <2>4, <3>1, <3>2 DEF Counted
  <2>6. InTurnRun'
    <3> SUFFICES ASSUME OneThread, NEW v \in Workers, job'[v].kind = "DISPATCH_MSG" PROVE FALSE
      BY <1>1 DEF InTurnRun
    <3> QED BY <1>1, <2>1, Ended, OneJob
  <2> QED BY <2>5, <2>6
<1>20. ASSUME NEW id \in Timers, Expire(id) PROVE Counted' /\ InTurnRun'
  <2>1. UNCHANGED <<fails, job>>
    BY <1>20 DEF Expire
  <2>2. new = ti \/ (ti.wait /\ new = Complete(ti, FALSE))
    BY <1>1, <1>2, <1>3, <1>20 DEF Expire
  <2>3. \/ new = ti
        \/ /\ ti.wait /\ ~new.wait /\ new.seq = ti.seq
           /\ new.due = Append(ti.due, [prev_seq |-> ti.seq, cancelled |-> FALSE])
    BY <2>2, Completed
  <2> QED BY <1>7, <1>8, <2>1, <2>3
<1>21. ASSUME NEW w \in Workers, BeginHandler(w, "CHECK_RECV") PROVE Counted' /\ InTurnRun'
  <2>1. /\ fails' = fails /\ new = ti /\ job'[w].kind = "CHECK_RECV"
        /\ \A v \in Workers \ {w} : job'[v] = job[v]
    BY <1>1, <1>2, <1>3, <1>21 DEF BeginHandler, Idle
  <2>2. \A v \in Workers : job'[v].kind = "DISPATCH_MSG" => job'[v] = job[v]
    BY <2>1
  <2> QED BY <1>7, <2>1, <2>2
<1>22. ASSUME NEW w \in Workers, BeginHandler(w, "DISPATCH_MSG") PROVE Counted' /\ InTurnRun'
  <2>1. /\ fails' = fails /\ ti.due # <<>> /\ new = [ti EXCEPT !.due = Tail(ti.due)] /\ Free(w)
        /\ job'[w].prev_seq = Head(ti.due).prev_seq
        /\ \A v \in Workers \ {w} : job'[v] = job[v]
    BY <1>1, <1>2, <1>3, <1>22 DEF BeginHandler, Idle
  <2>2. new.due = Tail(ti.due) /\ new.seq = ti.seq /\ new.wait = ti.wait
    BY <2>1 DEF TimerInfos
  <2>3. /\ \A i \in DOMAIN new.due : i + 1 \in DOMAIN ti.due /\ new.due[i] = ti.due[i + 1] /\ 1 < i + 1
        /\ \A i, j \in DOMAIN new.due : i < j => i + 1 < j + 1
        /\ 1 \in DOMAIN ti.due /\ ti.due[1] = Head(ti.due)
    BY <1>4, <2>1, <2>2
  <2>4. Counted'
    BY <1>3, <1>4, <1>5, <2>1, <2>2, <2>3 DEF Counted
  <2>5. InTurnRun'
    <3> SUFFICES ASSUME OneThread, NEW v \in Workers, job'[v].kind = "DISPATCH_MSG"
                 PROVE  /\ job'[v].prev_seq <= fails
                        /\ new.wait => job'[v].prev_seq < fails
                        /\ \A i \in DOMAIN new.due : job'[v].prev_seq < new.due[i].prev_seq
      BY <1>1, <1>3, <2>1 DEF InTurnRun
    <3>1. v = w
      BY <1>1, <2>1, OneJob
    <3> QED BY <1>5, <2>1, <2>2, <2>3, <3>1
  <2> QED BY <2>4, <2>5
<1> QED
  BY <1>11, <1>12, <1>13, <1>14, <1>15, <1>16, <1>17, <1>18, <1>19, <1>20, <1>21, <1>22
     DEF Next, TakeIoTask, TakeDispatch, TakeHandler, Work, Timers

(* A message that is held is offered again.                                  *)
LEMMA OfferedNext ==
    ASSUME MaxFails < SeqMod
    PROVE  TypeOK /\ Jobbed /\ Holding /\ Counted /\ InTurnRun /\ Offered /\ [Next]_vars => Offered'
<1> SUFFICES ASSUME TypeOK, Jobbed, Holding, Counted, InTurnRun, Offered, [Next]_vars,
                    OneThread', ~reconnects', link' = "up"
             PROVE  Pending' /\ Posted' /\ Retried'
  BY DEF Offered
<1> USE DEF bufferVars, queueVars, linkVars
<1>1. /\ fails \in Nat /\ disQ \in Nat /\ disQ' \in Nat
      /\ job \in [Workers -> Jobs] /\ job' \in [Workers -> Jobs]
      /\ timer \in [Timers -> TimerInfos] /\ timer' \in [Timers -> TimerInfos]
      /\ "CHECK_RECV" \in Timers /\ "DISPATCH_MSG" \in Timers /\ "CHECK_RECV" # "DISPATCH_MSG"
      /\ MaxFails \in Nat /\ OneThread /\ ~reconnects /\ Idle.kind = "none" /\ Jobbed'
  BY TypeNext, JobbedNext, SettingKept, RecvAssumption
     DEF TypeOK, Timers, OneThread, reconnects, crew, Idle
<1>2. PICK ti \in TimerInfos : ti = timer["DISPATCH_MSG"]
  BY <1>1
<1>3. PICK new \in TimerInfos : new = timer'["DISPATCH_MSG"]
  BY <1>1
<1>4. ASSUME NEW w \in Workers, job[w].kind # "none" \/ Free(w)
      PROVE  \A v \in Workers \ {w} : job[v].kind = "none"
  BY <1>1, <1>4, OneJob
<1>5. ASSUME Restart PROVE Pending' /\ Posted' /\ Retried'
  <2>1. /\ timer' = timer /\ job' = job /\ ~dispatching'
        /\ ~ti.wait /\ ti.due = <<>> /\ \A w \in crew : job[w] = Idle
    BY <1>1, <1>2, <1>5 DEF Restart, NoAsyncCall, AtRest, Free
  <2>2. \A w \in Workers : job'[w].kind = "none"
    BY <1>1, <2>1 DEF Jobbed
  <2> QED BY <1>2, <2>1, <2>2 DEF Pending, Posted, Retried, At
<1> SUFFICES ASSUME ~Restart PROVE Pending' /\ Posted' /\ Retried'
  BY <1>5
<1>6. link = "up" /\ ~CloseLink /\ ~DelayClose
  BY StillUp
<1>7. Pending /\ Posted /\ Retried
  BY <1>1, <1>6 DEF Offered
<1>8. /\ ti.wait \/ ti.due # <<>> => ti.status = "STARTED"
      /\ \A i \in DOMAIN ti.due : ti.due[i].cancelled => ti.due[i].prev_seq # fails
  BY <1>2, <1>7 DEF Pending
<1>9. /\ ti.seq = fails /\ fails <= MaxFails /\ ti.due \in Seq(Handlers)
      /\ \A i \in DOMAIN ti.due :
            ti.due[i].prev_seq <= fails /\ (ti.wait => ti.due[i].prev_seq < fails)
      /\ \A i, j \in DOMAIN ti.due : i < j => ti.due[i].prev_seq < ti.due[j].prev_seq
  BY <1>2 DEF Counted, TimerInfos
(* A step that the dispatch loop and its timer do not take.                  *)
<1>10. ASSUME new = ti, UNCHANGED <<fails, dispatching>>, disQ' >= disQ,
              \A v \in Workers : job[v].kind \in {"dis", "DISPATCH_MSG"}
                                  \/ job'[v].kind \in {"dis", "DISPATCH_MSG"} => job'[v] = job[v]
       PROVE  Pending' /\ Posted' /\ Retried'
  <2>1. Pending'
    BY <1>3, <1>8, <1>10 DEF Pending
  <2>2. disQ > 0 => disQ' > 0
    BY <1>1, <1>10
  <2>3. Posted'
    BY <1>7, <1>10, <2>2 DEF Posted, At
  <2>4. (Held("dis") => Held("dis")') /\ (WillFire("DISPATCH_MSG") => WillFire("DISPATCH_MSG")')
    BY <1>2, <1>3, <1>10 DEF Held, WillFire
  <2>5. Retried'
    BY <1>7, <1>10, <2>2, <2>4 DEF Retried
  <2> QED BY <2>1, <2>3, <2>5
(* A step of the thread after which it does not run the handler.             *)
<1>11. ASSUME NEW w \in Workers, job[w].kind # "none" \/ Free(w), job'[w].kind # "DISPATCH_MSG",
              \A v \in Workers \ {w} : job'[v] = job[v]
       PROVE  Posted' /\ (new = ti /\ fails' = fails => Pending')
  <2>1. \A v \in Workers : job'[v].kind # "DISPATCH_MSG"
    BY <1>4, <1>11
  <2>2. Posted'
    BY <2>1 DEF Posted, At
  <2>3. new = ti /\ fails' = fails => Pending'
    BY <1>3, <1>8 DEF Pending
  <2> QED BY <2>2, <2>3
<1>12. ASSUME NEW w \in Workers, DoRecvMsg(w) \/ DoShutdown(w) \/ RecvHandler(w)
       PROVE  Pending' /\ Posted' /\ Retried'
  <2>1. /\ UNCHANGED <<timer, fails, dispatching, disQ>> /\ Free(w)
        /\ job' = job \/ (job'[w].kind = "rw" /\ \A v \in Workers \ {w} : job'[v] = job[v])
    <3>1. ~DoShutdown(w)
      BY <1>6 DEF DoShutdown
    <3>2. CASE DoRecvMsg(w)
      BY <3>2 DEF DoRecvMsg
    <3>3. CASE RecvHandler(w)
      <4>1. UNCHANGED <<timer, fails, dispatching, disQ>> /\ Free(w)
        BY <1>6, <3>3 DEF RecvHandler
      <4>2. job'[w].kind = "rw" /\ \A v \in Workers \ {w} : job'[v] = job[v]
        BY <1>1, <3>3 DEF RecvHandler, Idle
      <4> QED BY <4>1, <4>2
    <3> QED BY <1>12, <3>1, <3>2, <3>3
  <2>2. \A v \in Workers : job[v].kind \in {"dis", "DISPATCH_MSG"}
                            \/ job'[v].kind \in {"dis", "DISPATCH_MSG"} => job'[v] = job[v]
    BY <1>1, <2>1 DEF Free
  <2> QED BY <1>1, <1>2, <1>3, <1>10, <2>1, <2>2
<1>13. ASSUME NEW w \in Workers, DispatchMsg(w) \/ HandledMsg(w) \/ EndRecvHandler(w)
                                 \/ CheckRecv(w) \/ Again(w)
                                 \/ Compare(w, "CHECK_RECV") \/ Cancel(w, "CHECK_RECV")
       PROVE  Pending' /\ Posted' /\ Retried'
  <2>1. /\ UNCHANGED <<fails, dispatching>> /\ disQ' \in {disQ, disQ + 1}
        /\ job[w].kind \in {"rw", "CHECK_RECV"}
    BY <1>13 DEF DispatchMsg, HandledMsg, EndRecvHandler, CheckRecv, Again, Compare, Cancel, At
  <2>2. SetTimer("CHECK_RECV")["DISPATCH_MSG"] = timer["DISPATCH_MSG"]
    BY <1>1, TimerSet
  <2>3. new = ti
    BY <1>1, <1>2, <1>3, <1>6, <1>13, <2>2
       DEF DispatchMsg, HandledMsg, EndRecvHandler, CheckRecv, Again, Compare, Cancel
  <2>4. job'[w].kind \in {job[w].kind, "none"} /\ \A v \in Workers \ {w} : job'[v] = job[v]
    <3>1. CASE HandledMsg(w)
      BY <1>1, <3>1 DEF HandledMsg, Jobs
    <3>2. CASE ~HandledMsg(w)
      <4>1. Done(w) \/ \E p \in {"handled_msg", "compare", "again", "cancel"} : Goto(w, p)
        BY <1>13, <3>2 DEF DispatchMsg, EndRecvHandler, CheckRecv, Again, Compare, Cancel
      <4> QED BY <1>1, <4>1, Moved, Ended
    <3> QED BY <3>1, <3>2
  <2>5. \A v \in Workers : job[v].kind \in {"dis", "DISPATCH_MSG"}
                            \/ job'[v].kind \in {"dis", "DISPATCH_MSG"} => job'[v] = job[v]
    BY <2>1, <2>4
  <2> QED BY <1>1, <1>10, <2>1, <2>3, <2>5
<1>14. ASSUME ReadDone \/ ForceShutdown \/ Expire("CHECK_RECV") \/ UNCHANGED vars
       PROVE  Pending' /\ Posted' /\ Retried'
  <2>1. UNCHANGED <<fails, dispatching, disQ, job>> /\ new = ti
    BY <1>1, <1>2, <1>3, <1>14 DEF ReadDone, ForceShutdown, Expire, vars
  <2> QED BY <1>1, <1>10, <2>1
<1>15. ASSUME NEW w \in Workers, BeginHandler(w, "CHECK_RECV") PROVE Pending' /\ Posted' /\ Retried'
  <2>1. /\ UNCHANGED <<fails, dispatching, disQ>> /\ new = ti /\ Free(w)
        /\ job'[w].kind = "CHECK_RECV" /\ \A v \in Workers \ {w} : job'[v] = job[v]
    BY <1>1, <1>2, <1>3, <1>15 DEF BeginHandler, Idle
  <2>2. \A v \in Workers : job[v].kind \in {"dis", "DISPATCH_MSG"}
                            \/ job'[v].kind \in {"dis", "DISPATCH_MSG"} => job'[v] = job[v]
    BY <1>1, <2>1 DEF Free
  <2> QED BY <1>1, <1>10, <2>1, <2>2
<1>16. ASSUME NEW w \in Workers, DoDispatchMsg(w) PROVE Pending' /\ Posted' /\ Retried'
  <2>1. /\ UNCHANGED <<timer, fails>> /\ Free(w)
        /\ \/ job' = job /\ ~dispatching'
           \/ job'[w].kind = "dis" /\ \A v \in Workers \ {w} : job'[v] = job[v]
    BY <1>1, <1>16 DEF DoDispatchMsg, Idle, Holding
  <2>2. Retried'
    BY <2>1 DEF Retried, Held
  <2>3. job'[w].kind # "DISPATCH_MSG" /\ \A v \in Workers \ {w} : job'[v] = job[v]
    BY <1>1, <2>1 DEF Free
  <2> QED BY <1>2, <1>3, <1>11, <2>1, <2>2, <2>3
<1>17. ASSUME NEW w \in Workers, HandleOk(w) \/ PostNext(w) PROVE Pending' /\ Posted' /\ Retried'
  <2>1. /\ UNCHANGED <<timer, fails>> /\ job[w].kind = "dis" /\ (~dispatching' \/ disQ' > 0)
        /\ Done(w) \/ Goto(w, "post")
    BY <1>1, <1>17 DEF HandleOk, PostNext, At
  <2>2. job'[w].kind # "DISPATCH_MSG" /\ \A v \in Workers \ {w} : job'[v] = job[v]
    BY <1>1, <2>1, Moved, Ended
  <2>3. Retried'
    BY <2>1 DEF Retried
  <2> QED BY <1>2, <1>3, <1>11, <2>1, <2>2, <2>3
<1>18. ASSUME NEW w \in Workers, HandleFail(w) PROVE Pending' /\ Posted' /\ Retried'
  <2>1. /\ fails' = fails + 1 /\ timer' = SetTimer("DISPATCH_MSG")
        /\ job[w].kind = "dis" /\ Done(w)
    BY <1>18 DEF HandleFail, At
  <2>2. /\ new.status = "STARTED" /\ new.wait
        /\ new.due = IF ti.wait THEN Append(ti.due, [prev_seq |-> ti.seq, cancelled |-> TRUE]) ELSE ti.due
    BY <1>1, <1>2, <1>3, <2>1, TimerSet
  <2>3. \A i \in DOMAIN new.due : new.due[i].prev_seq # fails'
    <3>1. \A i \in DOMAIN ti.due : ti.due[i].prev_seq \in Nat
      BY <1>9, DueTyped
    <3>2. CASE ~ti.wait
      BY <1>1, <1>9, <2>1, <2>2, <3>1, <3>2
    <3>3. CASE ti.wait
      <4>1. new.due = Append(ti.due, [prev_seq |-> fails, cancelled |-> TRUE])
        BY <1>9, <2>2, <3>3
      <4>2. \A i \in DOMAIN new.due : new.due[i].prev_seq <= fails
        BY <1>1, <1>9, <3>3, <4>1, RunsOrdered
      <4>3. new.due \in Seq(Handlers)
        BY <1>3 DEF TimerInfos
      <4>4. \A i \in DOMAIN new.due : new.due[i].prev_seq \in Nat
        BY <4>3, DueTyped
      <4> QED BY <1>1, <2>1, <4>2, <4>4
    <3> QED BY <3>2, <3>3
  <2>4. Pending'
    BY <1>3, <2>2, <2>3 DEF Pending
  <2>5. Retried'
    BY <1>3, <2>2 DEF Retried, WillFire
  <2>6. job'[w].kind # "DISPATCH_MSG" /\ \A v \in Workers \ {w} : job'[v] = job[v]
    BY <1>1, <2>1, Ended
  <2> QED BY <1>11, <2>1, <2>4, <2>5, <2>6
<1>19. ASSUME Expire("DISPATCH_MSG") PROVE Pending' /\ Posted' /\ Retried'
  <2>1. /\ UNCHANGED <<fails, disQ, job>> /\ ti.wait /\ new = Complete(ti, FALSE)
    BY <1>1, <1>2, <1>3, <1>19 DEF Expire
  <2>2. /\ new.status = "STARTED"
        /\ new.due = Append(ti.due, [prev_seq |-> fails, cancelled |-> FALSE])
    BY <1>8, <1>9, <2>1, Completed
  <2>3. /\ \A i \in DOMAIN new.due : (i \in DOMAIN ti.due /\ new.due[i] = ti.due[i])
                                      \/ new.due[i].cancelled = FALSE
        /\ \E i \in DOMAIN new.due : new.due[i].cancelled = FALSE
    <3>1. LET r == Append(ti.due, [prev_seq |-> fails, cancelled |-> FALSE]) IN
          /\ \A i \in DOMAIN r : (i \in DOMAIN ti.due /\ r[i] = ti.due[i])
                                 \/ (r[i].prev_seq = fails /\ r[i].cancelled = FALSE)
          /\ \E i \in DOMAIN r : r[i].prev_seq = fails /\ r[i].cancelled = FALSE
      <4>1. ti.due \in Seq(Handlers) /\ fails \in Nat
        BY <1>1, <1>9
      <4>2. LET r == Append(ti.due, [prev_seq |-> fails, cancelled |-> FALSE]) IN
            /\ \A i \in DOMAIN r : \/ i \in DOMAIN ti.due /\ r[i] = ti.due[i]
                                   \/ r[i] = [prev_seq |-> fails, cancelled |-> FALSE]
            /\ \E i \in DOMAIN r : r[i] = [prev_seq |-> fails, cancelled |-> FALSE]
        BY ONLY <4>1, OneMore
      <4> QED BY ONLY <4>2
    <3> QED BY <2>2, <3>1
  <2>4. Pending'
    BY <1>3, <1>8, <2>1, <2>2, <2>3 DEF Pending
  <2>5. Retried'
    BY <1>3, <2>2, <2>3 DEF Retried, WillFire
  <2>6. Posted'
    BY <1>7, <2>1 DEF Posted, At
  <2> QED BY <2>4, <2>5, <2>6
<1>20. ASSUME NEW w \in Workers, BeginHandler(w, "DISPATCH_MSG")
       PROVE  Pending' /\ Posted' /\ Retried'
  <2>1. /\ UNCHANGED <<fails, disQ, dispatching>> /\ Free(w)
        /\ ti.due # <<>> /\ new = [ti EXCEPT !.due = Tail(ti.due)]
        /\ \A v \in Workers \ {w} : job'[v] = job[v]
    BY <1>1, <1>2, <1>3, <1>20 DEF BeginHandler
  <2>2. new.due = Tail(ti.due) /\ new.status = "STARTED" /\ new.wait = ti.wait
    BY <1>8, <2>1 DEF TimerInfos
  <2>3. /\ job'[w].kind = "DISPATCH_MSG" /\ job'[w].prev_seq = Head(ti.due).prev_seq
        /\ job'[w].pc = IF Head(ti.due).cancelled THEN "compare" ELSE "callback"
    <3>1. ti.status = "STARTED"
      BY <1>8, <2>1
    <3> QED BY <1>1, <1>2, <1>20, <3>1 DEF BeginHandler, Idle
  <2>4. /\ \A i \in DOMAIN new.due : i + 1 \in DOMAIN ti.due /\ new.due[i] = ti.due[i + 1]
        /\ \A i \in DOMAIN ti.due : i = 1 \/ (i - 1 \in DOMAIN new.due /\ new.due[i - 1] = ti.due[i])
        /\ 1 \in DOMAIN ti.due /\ ti.due[1] = Head(ti.due)
    BY <1>9, <2>1, <2>2
  <2>5. Pending'
    BY <1>3, <1>8, <2>1, <2>2, <2>4 DEF Pending
  <2>6. \A v \in Workers \ {w} : job'[v].kind = "none" /\ job[v].kind = "none"
    BY <1>4, <2>1
  <2>7. job[w].kind = "none"
    BY <1>1, <2>1 DEF Free
  <2>8. Posted'
    BY <1>8, <2>1, <2>3, <2>4, <2>6 DEF Posted, At
  <2>9. ASSUME dispatching, ~(disQ > 0) PROVE WillFire("DISPATCH_MSG")'
    <3>1. WillFire("DISPATCH_MSG")
      BY <1>7, <2>6, <2>7, <2>9 DEF Retried, Held
    <3>2. ti.wait \/ \E i \in DOMAIN ti.due : ~ti.due[i].cancelled
      BY <1>2, <2>6, <2>7, <3>1 DEF WillFire
    <3>3. \/ new.wait \/ ~Head(ti.due).cancelled
          \/ \E i \in DOMAIN new.due : ~new.due[i].cancelled
      BY <2>2, <2>4, <3>2
    <3> QED BY <1>3, <2>2, <2>3, <3>3 DEF WillFire
  <2>10. Retried'
    BY <2>1, <2>9 DEF Retried
  <2> QED BY <2>5, <2>8, <2>10
<1>21. ASSUME NEW w \in Workers, RetryDispatch(w) PROVE Pending' /\ Posted' /\ Retried'
  <2>1. /\ UNCHANGED <<fails, timer>> /\ disQ' > 0 /\ job[w].kind = "DISPATCH_MSG"
        /\ Goto(w, "compare")
    BY <1>1, <1>21 DEF RetryDispatch, At
  <2>2. job'[w].pc = "compare" /\ \A v \in Workers \ {w} : job'[v].kind = "none"
    BY <1>1, <1>4, <2>1, Moved
  <2>3. Pending'
    BY <1>2, <1>3, <1>8, <2>1 DEF Pending
  <2> QED BY <2>1, <2>2, <2>3 DEF Posted, Retried, At
<1>22. ASSUME NEW w \in Workers, Compare(w, "DISPATCH_MSG") PROVE Pending' /\ Posted' /\ Retried'
  <2>1. /\ UNCHANGED <<fails, timer, disQ, dispatching>>
        /\ job[w].kind = "DISPATCH_MSG" /\ job[w].pc = "compare"
        /\ IF SameSeq(ti, job[w].prev_seq) THEN Goto(w, "cancel") ELSE Done(w)
    BY <1>2, <1>22 DEF Compare, At
  <2>2. \A v \in Workers \ {w} : job'[v] = job[v] /\ job[v].kind = "none"
    BY <1>1, <1>4, <2>1, Moved, Ended
  <2>3. Pending'
    BY <1>2, <1>3, <1>8, <2>1 DEF Pending
  <2>4. Retried'
    <3>1. ~Held("dis")
      BY <2>1, <2>2 DEF Held
    <3>2. WillFire("DISPATCH_MSG") => WillFire("DISPATCH_MSG")'
      BY <2>1, <2>2 DEF WillFire
    <3> QED BY <1>7, <2>1, <3>1, <3>2 DEF Retried
  <2>5. CASE SameSeq(ti, job[w].prev_seq)
    <3>1. job[w].prev_seq <= fails /\ job[w].prev_seq \in Nat
      BY <1>1, <2>1 DEF InTurnRun, Jobs
    <3>2. \A n \in Nat : n < SeqMod => n % SeqMod = n
      BY SeqAssumption
    <3>3. fails < SeqMod /\ job[w].prev_seq < SeqMod
      BY <1>1, <1>9, <3>1, SeqAssumption
    <3>4. job[w].prev_seq = fails
      BY <1>1, <1>9, <2>5, <3>1, <3>2, <3>3 DEF SameSeq
    <3>5. disQ > 0
      BY <1>7, <2>1, <3>4 DEF Posted, At
    <3>6. job'[w].prev_seq = job[w].prev_seq
      BY <1>1, <2>1, <2>5, Moved
    <3>7. Posted'
      BY <2>1, <2>2, <3>4, <3>5, <3>6 DEF Posted, At
    <3> QED BY <2>3, <2>4, <3>7
  <2>6. CASE ~SameSeq(ti, job[w].prev_seq)
    <3>1. job'[w].kind = "none"
      BY <1>1, <2>1, <2>6, Ended
    <3> QED BY <1>11, <2>1, <2>2, <2>3, <2>4, <3>1
  <2> QED BY <2>5, <2>6
<1>23. ASSUME NEW w \in Workers, Cancel(w, "DISPATCH_MSG") PROVE Pending' /\ Posted' /\ Retried'
  <2>1. /\ UNCHANGED <<fails, disQ>> /\ job[w].kind = "DISPATCH_MSG" /\ job[w].pc = "cancel"
        /\ new = [ti EXCEPT !.status = "CANCELED"] /\ Done(w)
    BY <1>1, <1>2, <1>3, <1>23 DEF Cancel, At
  <2>2. new.wait = ti.wait /\ new.due = ti.due
    BY <2>1 DEF TimerInfos
  <2>3. disQ > 0 /\ job[w].prev_seq = fails
    BY <1>7, <2>1 DEF Posted, At
  <2>4. ~ti.wait /\ \A i \in DOMAIN ti.due : fails < ti.due[i].prev_seq
    BY <1>1, <1>2, <2>1, <2>3 DEF InTurnRun
  <2>5. ti.due = <<>>
    <3>1. \A i \in DOMAIN ti.due : ti.due[i].prev_seq \in Nat
      BY <1>9, DueTyped
    <3>2. DOMAIN ti.due = {}
      BY <1>1, <1>9, <2>4, <3>1
    <3>3. ti.due # <<>> => 1 \in DOMAIN ti.due
      BY <1>9
    <3> QED BY <3>2, <3>3
  <2>6. Pending'
    BY <1>3, <2>2, <2>4, <2>5 DEF Pending
  <2>7. Retried'
    BY <2>1, <2>3 DEF Retried
  <2>8. job'[w].kind = "none" /\ \A v \in Workers \ {w} : job'[v] = job[v]
    BY <1>1, <2>1, Ended
  <2> QED BY <1>11, <2>1, <2>6, <2>7, <2>8
<1> QED
  BY <1>6, <1>12, <1>13, <1>14, <1>15, <1>16, <1>17, <1>18, <1>19, <1>20, <1>21, <1>22, <1>23
     DEF Next, TakeIoTask, TakeDispatch, TakeHandler, Work, Timers

LEMMA OfferedInit == Init => Counted /\ InTurnRun /\ Offered
<1> SUFFICES ASSUME Init PROVE Counted /\ InTurnRun /\ Pending /\ Posted /\ Retried
  BY DEF Offered
<1>1. /\ ~dispatching /\ fails = 0 /\ \A w \in Workers : job[w].kind = "none"
      /\ timer["DISPATCH_MSG"] = [seq |-> 0, status |-> "CREATED", wait |-> FALSE, due |-> <<>>]
  BY DEF Init, Idle, NewTimer, Timers
<1>2. Counted
  BY <1>1, RecvAssumption DEF Counted
<1> QED BY <1>1, <1>2 DEF InTurnRun, Pending, Posted, Retried, At

(* With one service thread, on a socket that is not reconnected, a message   *)
(* that on_msg_handle has refused is offered again, as long as the counter   *)
(* of the starts of TIMER_DISPATCH_MSG has not come round.                   *)
THEOREM RefusedIsOffered ==
    ASSUME MaxFails < SeqMod
    PROVE  Spec => []RetryComing
<1>1. Offered => RetryComing
  BY DEF Offered, Retried, RetryComing
<1>2. TypeOK /\ Jobbed /\ Holding /\ InOrder /\ Counted /\ InTurnRun /\ Offered /\ [Next]_vars
        => (Jobbed /\ Holding /\ InOrder /\ Counted /\ InTurnRun /\ Offered)'
  BY JobbedNext, HoldingNext, InOrderNext, CountedNext, OfferedNext
<1> QED BY TypeCorrect, OrderInit, OfferedInit, <1>1, <1>2, PTL DEF Spec

(* The dispatch loop never stops with a message to be handled: what waits is *)
(* looked at with any number of threads, what was refused is offered again   *)
(* under the conditions RetryComing names (socket.h:654-700).                *)
THEOREM DispatchGoesOn ==
    ASSUME MaxFails < SeqMod
    PROVE  Spec => []DispatchComing
<1>1. NoneStarved /\ RetryComing => DispatchComing
  BY DEF DispatchComing
<1> QED BY WaitingIsDispatched, RefusedIsOffered, <1>1, PTL
=============================================================================
