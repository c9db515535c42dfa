------------------------- MODULE ClientSocketProofs -------------------------
(* What holds of ClientSocket for every value of its constants.              *)
EXTENDS ClientSocket, SequenceTheorems, TLAPS

-----------------------------------------------------------------------------
(* The operations of a timer, for every state of it.                         *)

(* A timer fires when its wait is over, or when a handler that was not       *)
(* cancelled is due; FiresOnce: not twice.                                   *)
Fires(ti) == ti.wait \/ \E i \in DOMAIN ti.due : ~ti.due[i].cancelled
FiresOnce(ti) ==
    /\ \A i, j \in DOMAIN ti.due : ~ti.due[i].cancelled /\ ~ti.due[j].cancelled => i = j
    /\ ti.wait => \A i \in DOMAIN ti.due : ti.due[i].cancelled

(* The handlers that are due each have the seq of a start.                   *)
LEMMA DueTyped ==
    ASSUME NEW s \in Seq(Handlers)
    PROVE  \A i \in DOMAIN s : s[i].prev_seq \in Nat /\ s[i].cancelled \in BOOLEAN
<1>1. \A i \in DOMAIN s : s[i] \in Handlers
  OBVIOUS
<1> QED BY <1>1 DEF Handlers

(* The end of a wait: one handler more, and nothing else but `wait'.         *)
LEMMA Completed ==
    ASSUME NEW ti \in TimerInfos, NEW c \in BOOLEAN
    PROVE  /\ Complete(ti, c) \in TimerInfos
           /\ Complete(ti, c).seq = ti.seq /\ Complete(ti, c).status = ti.status
           /\ ~Complete(ti, c).wait
           /\ Complete(ti, c).due =
                 IF ti.wait THEN Append(ti.due, [prev_seq |-> ti.seq, cancelled |-> c]) ELSE ti.due
<1> DEFINE h == [prev_seq |-> ti.seq, cancelled |-> c]
<1>1. ti.due \in Seq(Handlers) /\ h \in Handlers
  BY DEF TimerInfos, Handlers
<1> HIDE DEF h
<1>2. Append(ti.due, h) \in Seq(Handlers)
  BY <1>1
<1>3. Complete(ti, c) = IF ti.wait THEN [ti EXCEPT !.wait = FALSE, !.due = Append(ti.due, h)] ELSE ti
  BY DEF Complete, TimerInfos, h
<1>4. [ti EXCEPT !.wait = FALSE, !.due = Append(ti.due, h)] \in TimerInfos
  BY <1>2 DEF TimerInfos
<1> QED BY <1>3, <1>4 DEF TimerInfos, h

(* stop_timer: a started timer is canceled and its wait cut short.           *)
LEMMA Stopped ==
    ASSUME NEW ti \in TimerInfos
    PROVE  /\ Stop(ti) \in TimerInfos
           /\ Stop(ti).seq = ti.seq
           /\ ti.status # "STARTED" => Stop(ti) = ti
           /\ ti.status = "STARTED" =>
                 /\ Stop(ti).status = "CANCELED" /\ ~Stop(ti).wait
                 /\ Stop(ti).due = IF ti.wait
                                   THEN Append(ti.due, [prev_seq |-> ti.seq, cancelled |-> TRUE])
                                   ELSE ti.due
<1> DEFINE canceled == [ti EXCEPT !.status = "CANCELED"]
<1>1. /\ canceled \in TimerInfos
      /\ canceled.seq = ti.seq /\ canceled.wait = ti.wait /\ canceled.due = ti.due
      /\ canceled.status = "CANCELED"
  BY DEF TimerInfos
<1>2. Stop(ti) = IF ti.status = "STARTED" THEN Complete(canceled, TRUE) ELSE ti
  BY DEF Stop
<1> HIDE DEF canceled
<1>3. /\ Complete(canceled, TRUE) \in TimerInfos
      /\ Complete(canceled, TRUE).seq = canceled.seq
      /\ Complete(canceled, TRUE).status = canceled.status
      /\ ~Complete(canceled, TRUE).wait
      /\ Complete(canceled, TRUE).due =
            IF canceled.wait
            THEN Append(canceled.due, [prev_seq |-> canceled.seq, cancelled |-> TRUE])
            ELSE canceled.due
  BY <1>1, Completed
<1>4. CASE ti.status = "STARTED"
  <2>1. Stop(ti) = Complete(canceled, TRUE)
    BY <1>2, <1>4
  <2> QED BY ONLY <1>1, <1>3, <1>4, <2>1
<1>5. CASE ti.status # "STARTED"
  BY <1>2, <1>5
<1> QED BY <1>4, <1>5

(* start_timer: the next seq, and a wait; the wait before is cut short.      *)
LEMMA Rearmed ==
    ASSUME NEW ti \in TimerInfos
    PROVE  /\ Rearm(ti) \in TimerInfos
           /\ Rearm(ti).seq = ti.seq + 1 /\ Rearm(ti).status = ti.status /\ Rearm(ti).wait
           /\ Rearm(ti).due = IF ti.wait
                              THEN Append(ti.due, [prev_seq |-> ti.seq, cancelled |-> TRUE])
                              ELSE ti.due
<1> DEFINE done == Complete(ti, TRUE)
<1>1. /\ done \in TimerInfos /\ done.seq = ti.seq /\ done.status = ti.status
      /\ done.due = IF ti.wait
                    THEN Append(ti.due, [prev_seq |-> ti.seq, cancelled |-> TRUE])
                    ELSE ti.due
  BY Completed
<1>2. Rearm(ti) = [done EXCEPT !.seq = done.seq + 1, !.wait = TRUE]
  BY <1>1 DEF Rearm, TimerInfos
<1> HIDE DEF done
<1>3. done.seq + 1 \in Nat
  BY <1>1 DEF TimerInfos
<1> QED BY <1>1, <1>2, <1>3 DEF TimerInfos

(* set_timer: a start that also says STARTED.                                *)
LEMMA Begun ==
    ASSUME NEW ti \in TimerInfos
    PROVE  /\ Start(ti) \in TimerInfos
           /\ Start(ti).seq = ti.seq + 1 /\ Start(ti).status = "STARTED" /\ Start(ti).wait
           /\ Start(ti).due = IF ti.wait
                              THEN Append(ti.due, [prev_seq |-> ti.seq, cancelled |-> TRUE])
                              ELSE ti.due
<1> DEFINE marked == [ti EXCEPT !.status = "STARTED"]
<1>1. /\ marked \in TimerInfos
      /\ marked.seq = ti.seq /\ marked.wait = ti.wait
      /\ marked.due = ti.due /\ marked.status = "STARTED"
  BY DEF TimerInfos
<1>2. Start(ti) = Rearm(marked)
  BY DEF Start
<1> HIDE DEF marked
<1> QED BY <1>1, <1>2, Rearmed

(* The handler that comes when a wait is over is the one that fires.         *)
LEMMA ExpiredFires ==
    ASSUME NEW ti \in TimerInfos, ti.wait, FiresOnce(ti)
    PROVE  /\ FiresOnce(Complete(ti, FALSE)) /\ Fires(Complete(ti, FALSE))
           /\ \A i \in DOMAIN Complete(ti, FALSE).due :
                 \/ i \in DOMAIN ti.due /\ Complete(ti, FALSE).due[i] = ti.due[i]
                 \/ /\ Complete(ti, FALSE).due[i].prev_seq = ti.seq
                    /\ ~Complete(ti, FALSE).due[i].cancelled
<1>1. PICK new \in TimerInfos : new = Complete(ti, FALSE)
  BY Completed
<1>2. PICK h : h = [prev_seq |-> ti.seq, cancelled |-> FALSE]
  OBVIOUS
<1>3. ti.due \in Seq(Handlers) /\ new.due = Append(ti.due, h) /\ ~new.wait
  BY <1>1, <1>2, Completed DEF TimerInfos
<1>4. \A i \in DOMAIN new.due : \/ i \in DOMAIN ti.due /\ new.due[i] = ti.due[i]
                                \/ i = Len(ti.due) + 1 /\ new.due[i] = h
  BY <1>3
<1>5. Len(ti.due) + 1 \in DOMAIN new.due /\ new.due[Len(ti.due) + 1] = h
  BY <1>3
<1>6. h.prev_seq = ti.seq /\ ~h.cancelled
  BY <1>2
<1>7. FiresOnce(new) /\ Fires(new)
  BY <1>3, <1>4, <1>5, <1>6 DEF FiresOnce, Fires
<1> QED BY <1>1, <1>4, <1>6, <1>7

(* A cancelled handler adds nothing that fires.                              *)
LEMMA CutShort ==
    ASSUME NEW due \in Seq(Handlers), NEW n \in Nat
    PROVE  \A i \in DOMAIN Append(due, [prev_seq |-> n, cancelled |-> TRUE]) :
              \/ i \in DOMAIN due /\ Append(due, [prev_seq |-> n, cancelled |-> TRUE])[i] = due[i]
              \/ Append(due, [prev_seq |-> n, cancelled |-> TRUE])[i].cancelled
<1>1. PICK h : h = [prev_seq |-> n, cancelled |-> TRUE]
  OBVIOUS
<1>2. h.cancelled
  BY <1>1
<1>3. \A i \in DOMAIN Append(due, h) : \/ i \in DOMAIN due /\ Append(due, h)[i] = due[i]
                                       \/ Append(due, h)[i] = h
  OBVIOUS
<1> QED BY <1>1, <1>2, <1>3

LEMMA StoppedFires ==
    ASSUME NEW ti \in TimerInfos, FiresOnce(ti)
    PROVE  FiresOnce(Stop(ti)) /\ (Fires(Stop(ti)) => Fires(ti))
<1>1. PICK new \in TimerInfos : new = Stop(ti)
  BY Stopped
<1>2. CASE new = ti
  BY <1>1, <1>2
<1>3. CASE new # ti
  <2>1. ~new.wait /\ (ti.due \in Seq(Handlers)) /\ ti.seq \in Nat
    BY <1>1, <1>3, Stopped DEF TimerInfos
  <2>2. \A i \in DOMAIN new.due : \/ i \in DOMAIN ti.due /\ new.due[i] = ti.due[i]
                                  \/ new.due[i].cancelled
    <3>1. CASE ti.wait
      <4>1. new.due = Append(ti.due, [prev_seq |-> ti.seq, cancelled |-> TRUE])
        BY <1>1, <1>3, <3>1, Stopped
      <4> QED BY <2>1, <4>1, CutShort
    <3>2. CASE ~ti.wait
      BY <1>1, <1>3, <3>2, Stopped
    <3> QED BY <3>1, <3>2
  <2> QED BY <1>1, <2>1, <2>2 DEF FiresOnce, Fires
<1> QED BY <1>2, <1>3

(* The handler that was due first begins.                                    *)
LEMMA BegunFires ==
    ASSUME NEW ti \in TimerInfos, FiresOnce(ti), ti.due # <<>>,
           NEW new, new = [ti EXCEPT !.due = Tail(ti.due)]
    PROVE  /\ new \in TimerInfos /\ new.seq = ti.seq /\ new.status = ti.status /\ new.wait = ti.wait
           /\ Head(ti.due) = ti.due[1] /\ 1 \in DOMAIN ti.due
           /\ FiresOnce(new) /\ (Fires(new) => Fires(ti))
           /\ ~Head(ti.due).cancelled => Fires(ti) /\ ~Fires(new)
           /\ \A i \in DOMAIN new.due : i + 1 \in DOMAIN ti.due /\ new.due[i] = ti.due[i + 1]
<1>1. ti.due \in Seq(Handlers) /\ Tail(ti.due) \in Seq(Handlers)
  <2>1. ti.due \in Seq(Handlers)
    BY DEF TimerInfos
  <2> QED BY <2>1
<1>2. /\ new \in TimerInfos /\ new.due = Tail(ti.due)
      /\ new.seq = ti.seq /\ new.status = ti.status /\ new.wait = ti.wait
  BY <1>1 DEF TimerInfos
<1>3. /\ Head(ti.due) = ti.due[1] /\ 1 \in DOMAIN ti.due
      /\ \A i \in DOMAIN new.due : i + 1 \in DOMAIN ti.due /\ new.due[i] = ti.due[i + 1] /\ i + 1 # 1
  BY <1>1, <1>2
<1>4. \A i, j \in DOMAIN new.due : i + 1 = j + 1 => i = j
  BY <1>1, <1>2
<1>5. FiresOnce(new) /\ (Fires(new) => Fires(ti))
  BY <1>2, <1>3, <1>4 DEF FiresOnce, Fires
<1>6. ~Head(ti.due).cancelled => Fires(ti) /\ ~Fires(new)
  BY <1>2, <1>3 DEF FiresOnce, Fires
<1> QED BY <1>2, <1>3, <1>5, <1>6

-----------------------------------------------------------------------------
(* The operators of the model.                                               *)

Places == {"idle", "force_shutdown", "graceful_shutdown", "start", "lock", "do_start", "started",
           "close", "stop_timers", "set_delay", "callback", "prepare", "on_close", "cancelled",
           "after_close", "obsolete", "again", "compare", "cancel"}
Kinds == {"none", "rw", "app"} \cup Timers
Tasks == {"do_recv_msg", "recv_error", "force", "graceful"}
TimersOK == timer \in [Timers -> TimerInfos] /\ \A id \in Timers : timer[id].seq < SeqMod

LEMMA IdleFields ==
    /\ Idle \in Jobs /\ Idle.kind = "none" /\ Idle.pc = "idle"
    /\ Idle.reconnect = FALSE /\ Idle.prev_seq = 0
BY DEF Idle, Jobs

LEMMA JobFields ==
    ASSUME NEW j \in Jobs
    PROVE  j.kind \in Kinds /\ j.pc \in Places /\ j.reconnect \in BOOLEAN /\ j.prev_seq \in Nat
BY DEF Jobs, Kinds, Places

(* A thread takes a new job.                                                 *)
LEMMA Assigned ==
    ASSUME NEW w \in Threads, job \in [Threads -> Jobs], NEW new \in Jobs,
           job' = [job EXCEPT ![w] = new]
    PROVE  /\ job' \in [Threads -> Jobs] /\ job'[w] = new
           /\ \A v \in Threads : v # w => job'[v] = job[v]
OBVIOUS

LEMMA IsDone ==
    ASSUME NEW w \in Threads, job \in [Threads -> Jobs], Done(w)
    PROVE  /\ job' \in [Threads -> Jobs] /\ job'[w] = Idle
           /\ \A v \in Threads : v # w => job'[v] = job[v]
BY IdleFields DEF Done

(* A thread goes on at another place.                                        *)
LEMMA Moved ==
    ASSUME NEW j \in Jobs, NEW pc \in Places, NEW new, new = [j EXCEPT !.pc = pc]
    PROVE  /\ new \in Jobs /\ new.pc = pc /\ new.kind = j.kind
           /\ new.prev_seq = j.prev_seq /\ new.reconnect = j.reconnect
BY DEF Jobs, Places

LEMMA Gone ==
    ASSUME NEW w \in Threads, job \in [Threads -> Jobs], NEW pc \in Places, Goto(w, pc)
    PROVE  /\ job' \in [Threads -> Jobs]
           /\ job'[w].pc = pc /\ job'[w].kind = job[w].kind
           /\ job'[w].prev_seq = job[w].prev_seq /\ job'[w].reconnect = job[w].reconnect
           /\ \A v \in Threads : v # w => job'[v] = job[v]
<1>1. PICK new : new = [job[w] EXCEPT !.pc = pc]
  OBVIOUS
<1>2. /\ new \in Jobs /\ new.pc = pc /\ new.kind = job[w].kind
      /\ new.prev_seq = job[w].prev_seq /\ new.reconnect = job[w].reconnect
  <2>1. job[w] \in Jobs
    OBVIOUS
  <2> QED BY <1>1, <2>1, Moved
<1>3. job' = [job EXCEPT ![w] = new]
  BY <1>1 DEF Goto
<1> QED BY <1>2, <1>3, Assigned

(* set_timer: the timer is started and waits, the others are left alone.     *)
LEMMA TimerSet ==
    ASSUME TimersOK, NEW id \in Timers, SetTimer(id)
    PROVE  /\ TimersOK'
           /\ timer'[id].status = "STARTED" /\ timer'[id].wait
           /\ timer'[id].due = Start(timer[id]).due
           /\ \A other \in Timers : other # id => timer'[other] = timer[other]
<1>1. PICK ti \in TimerInfos : ti = Start(timer[id])
  BY Begun DEF TimersOK
<1>2. ti.status = "STARTED" /\ ti.wait /\ ti.due = Start(timer[id]).due
  BY <1>1, Begun DEF TimersOK
<1>3. PICK n \in Nat : n = ti.seq % SeqMod /\ n < SeqMod
  <2>1. ti.seq \in Nat
    BY DEF TimerInfos
  <2> QED BY <2>1, SeqAssumption
<1>4. PICK new : new = [ti EXCEPT !.seq = n]
  OBVIOUS
<1>5. /\ new \in TimerInfos /\ new.seq < SeqMod
      /\ new.status = ti.status /\ new.wait = ti.wait /\ new.due = ti.due
  <2>1. new \in TimerInfos /\ new.seq = n /\ new.status = ti.status /\ new.wait = ti.wait /\ new.due = ti.due
    BY <1>4 DEF TimerInfos
  <2> QED BY <1>3, <2>1
<1>6. timer' = [timer EXCEPT ![id] = new]
  <2>1. timer' = [timer EXCEPT ![id] = Wrap(ti)]
    BY <1>1 DEF SetTimer
  <2> QED BY <1>3, <1>4, <2>1 DEF Wrap
<1> QED BY <1>2, <1>5, <1>6 DEF TimersOK

(* A timer of which nothing fires is set, and fires once.                    *)
LEMMA SetFires ==
    ASSUME NEW ti \in TimerInfos, NEW new, new.wait, new.due = Start(ti).due
    PROVE  /\ ~Fires(ti) => FiresOnce(new)
           /\ AtRest(ti) => new.due = <<>>
<1>1. new.due = IF ti.wait THEN Append(ti.due, [prev_seq |-> ti.seq, cancelled |-> TRUE]) ELSE ti.due
  BY Begun
<1>2. ~ti.wait => new.due = ti.due
  BY <1>1
<1> QED BY <1>2 DEF Fires, FiresOnce, AtRest

(* stop_all_timers, with exceptions.                                         *)
LEMMA AllStopped ==
    ASSUME TimersOK, NEW ids, StopAllBut(ids)
    PROVE  /\ TimersOK'
           /\ \A id \in Timers : timer'[id] = IF id \in ids THEN timer[id] ELSE Stop(timer[id])
<1>1. \A id \in Timers : /\ timer'[id] = IF id \in ids THEN timer[id] ELSE Stop(timer[id])
                         /\ timer[id] \in TimerInfos
  BY DEF StopAllBut, TimersOK
<1>2. \A id \in Timers : timer'[id] \in TimerInfos /\ timer'[id].seq < SeqMod
  <2>1. \A id \in Timers : Stop(timer[id]) \in TimerInfos /\ Stop(timer[id]).seq = timer[id].seq
    BY <1>1, Stopped
  <2> QED BY <1>1, <2>1 DEF TimersOK
<1>3. timer' = [id \in Timers |-> timer'[id]]
  BY <1>1 DEF StopAllBut
<1> QED BY <1>1, <1>2, <1>3 DEF TimersOK

(* One timer changes.                                                        *)
LEMMA TimerMade ==
    ASSUME TimersOK, NEW id \in Timers, NEW ti \in TimerInfos, ti.seq = timer[id].seq,
           timer' = [timer EXCEPT ![id] = ti]
    PROVE  /\ TimersOK' /\ timer'[id] = ti
           /\ \A other \in Timers : other # id => timer'[other] = timer[other]
BY DEF TimersOK

(* A timer's status is changed and nothing else of it.                       *)
LEMMA TimerMarked ==
    ASSUME TimersOK, NEW id \in Timers, timer' = [timer EXCEPT ![id].status = "CANCELED"]
    PROVE  /\ TimersOK' /\ timer'[id].status = "CANCELED"
           /\ timer'[id].wait = timer[id].wait /\ timer'[id].due = timer[id].due
           /\ \A other \in Timers : other # id => timer'[other] = timer[other]
<1>1. PICK ti : ti = [timer[id] EXCEPT !.status = "CANCELED"]
  OBVIOUS
<1>2. timer[id] \in TimerInfos
  BY DEF TimersOK
<1>3. /\ ti \in TimerInfos /\ ti.seq = timer[id].seq /\ ti.status = "CANCELED"
      /\ ti.wait = timer[id].wait /\ ti.due = timer[id].due
  BY ONLY <1>1, <1>2 DEF TimerInfos
<1>4. timer' = [timer EXCEPT ![id] = ti]
  BY <1>1
<1> QED BY <1>3, <1>4, TimerMade

(* The oldest handler of a timer begins: the timer has one less.             *)
LEMMA HandlerTaken ==
    ASSUME TimersOK, NEW id \in Timers, timer[id].due # <<>>,
           timer' = [timer EXCEPT ![id].due = Tail(timer[id].due)]
    PROVE  /\ TimersOK' /\ timer'[id] = [timer[id] EXCEPT !.due = Tail(timer[id].due)]
           /\ timer'[id] \in TimerInfos
           /\ timer'[id].due = Tail(timer[id].due)
           /\ timer'[id].status = timer[id].status /\ timer'[id].wait = timer[id].wait
           /\ timer[id].due \in Seq(Handlers) /\ Head(timer[id].due) = timer[id].due[1]
           /\ 1 \in DOMAIN timer[id].due
           /\ timer[id].due[1].prev_seq \in Nat
           /\ \A other \in Timers : other # id => timer'[other] = timer[other]
<1>1. PICK due : due = timer[id].due
  OBVIOUS
<1>2. timer[id] \in TimerInfos /\ due \in Seq(Handlers) /\ due # <<>>
  BY <1>1 DEF TimersOK, TimerInfos
<1>3. Tail(due) \in Seq(Handlers) /\ Head(due) = due[1] /\ 1 \in DOMAIN due
  BY ONLY <1>2
<1>4. PICK ti : ti = [timer[id] EXCEPT !.due = Tail(due)]
  OBVIOUS
<1>5. /\ ti \in TimerInfos /\ ti.seq = timer[id].seq /\ ti.due = Tail(due)
      /\ ti.status = timer[id].status /\ ti.wait = timer[id].wait
  BY ONLY <1>2, <1>3, <1>4 DEF TimerInfos
<1>6. timer' = [timer EXCEPT ![id] = ti]
  BY <1>1, <1>4
<1>7. TimersOK' /\ timer'[id] = ti /\ \A other \in Timers : other # id => timer'[other] = timer[other]
  BY <1>5, <1>6, TimerMade
<1>8. due[1].prev_seq \in Nat
  BY <1>2, <1>3, DueTyped
<1> QED BY <1>1, <1>2, <1>3, <1>4, <1>5, <1>7, <1>8

-----------------------------------------------------------------------------
(* Type correctness.                                                         *)

LEMMA TypeInit ==
    ASSUME SeqMod > 1
    PROVE  Init => TypeOK
<1> SUFFICES ASSUME Init PROVE TypeOK
  OBVIOUS
<1>1. NewTimer \in TimerInfos /\ NewTimer.seq = 0
  BY DEF NewTimer, TimerInfos, Handlers
<1>2. Start(NewTimer) \in TimerInfos /\ Start(NewTimer).seq = 1
  <2>1. PICK ti \in TimerInfos : ti = NewTimer /\ ti.seq = 0
    BY <1>1
  <2>2. Start(ti) \in TimerInfos /\ Start(ti).seq = ti.seq + 1
    BY Begun
  <2> QED BY <2>1, <2>2
<1>3. timer \in [Timers -> TimerInfos] /\ \A id \in Timers : timer[id].seq < SeqMod
  BY <1>1, <1>2, SeqAssumption DEF Init
<1>4. job \in [Threads -> Jobs] /\ rwQ \in Seq({"do_recv_msg", "recv_error", "force", "graceful"})
  BY IdleFields DEF Init
<1> QED BY <1>3, <1>4 DEF Init, TypeOK

LEMMA TypeNext == TypeOK /\ [Next]_vars => TypeOK'
<1> SUFFICES ASSUME TypeOK, [Next]_vars PROVE TypeOK'
  OBVIOUS
<1> USE DEF TypeOK, flagVars, netVars, bounds
<1>1. TimersOK /\ (TimersOK' => timer' \in [Timers -> TimerInfos] /\ \A id \in Timers : timer'[id].seq < SeqMod)
  BY DEF TimersOK
<1>2. /\ "CONNECT" \in Timers /\ "DELAY_CLOSE" \in Timers /\ "ASYNC_SHUTDOWN" \in Timers
      /\ "CONNECT_DELAY" \in Timers
  BY DEF Timers
<1>3. \A w \in Threads, pc \in Places : Goto(w, pc) => job' \in [Threads -> Jobs]
  BY Gone
<1>4. \A w \in Threads : Done(w) => job' \in [Threads -> Jobs]
  BY IsDone
<1>5. \A id \in Timers : SetTimer(id) => TimersOK'
  BY <1>1, TimerSet
<1>6. \A ids : StopAllBut(ids) => TimersOK'
  BY <1>1, AllStopped
<1>7. \A x \in Tasks : Append(rwQ, x) \in Seq({"do_recv_msg", "recv_error", "force", "graceful"})
  BY DEF Tasks
<1>8. CloseLayer => alive' \in BOOLEAN /\ conn' \in {"none", "pending", "ok", "failed"}
  BY DEF CloseLayer
<1>9. \A w, x : NextTask(w, x) => w \in Threads /\ rwQ' \in Seq({"do_recv_msg", "recv_error", "force", "graceful"})
  <2>1. rwQ # <<>> => Tail(rwQ) \in Seq({"do_recv_msg", "recv_error", "force", "graceful"})
    OBVIOUS
  <2> QED BY <2>1 DEF NextTask, Threads
<1>10. \A w \in Threads : AfterStart(w) => job' \in [Threads -> Jobs]
  BY <1>3, <1>4 DEF AfterStart, Places
<1>11. \A w \in Threads : Shutdown(w) => job' \in [Threads -> Jobs] /\ status' \in {"BROKEN", "CONNECTED", "FORCE", "GRACEFUL"}
  <2> SUFFICES ASSUME NEW w \in Threads, Shutdown(w)
               PROVE  job' \in [Threads -> Jobs] /\ status' \in {"BROKEN", "CONNECTED", "FORCE", "GRACEFUL"}
    OBVIOUS
  <2>1. [Idle EXCEPT !.kind = "rw", !.pc = "close"] \in Jobs
    BY DEF Idle, Jobs
  <2> QED BY <2>1 DEF Shutdown
(* Threads at work.                                                          *)
<1>12. ASSUME NEW w \in Threads, StartCheck(w) PROVE TypeOK'
  BY <1>3, <1>10, <1>12 DEF StartCheck, Places
<1>13. ASSUME NEW w \in Threads, StartLock(w) PROVE TypeOK'
  BY <1>3, <1>10, <1>13 DEF StartLock, Places
<1>14. ASSUME NEW w \in Threads, DoStart(w) PROVE TypeOK'
  <2>1. TimersOK' /\ job' \in [Threads -> Jobs] /\ first' \in BOOLEAN /\ start_atomic' \in Threads \cup {NoThread}
    BY <1>1, <1>2, <1>3, <1>5, <1>10, <1>14 DEF DoStart, Places, TimersOK
  <2> QED BY <1>1, <1>14, <2>1 DEF DoStart
<1>15. ASSUME NEW w \in Threads, SetStarted(w) PROVE TypeOK'
  BY <1>10, <1>15 DEF SetStarted
<1>16. ASSUME NEW w \in Threads, CloseLock(w) PROVE TypeOK'
  BY <1>3, <1>4, <1>16 DEF CloseLock, Places
<1>17. ASSUME NEW w \in Threads, StopTimers(w) PROVE TypeOK'
  BY <1>1, <1>3, <1>6, <1>8, <1>17 DEF StopTimers, Places
<1>18. ASSUME NEW w \in Threads, SetDelay(w) PROVE TypeOK'
  BY <1>1, <1>2, <1>4, <1>5, <1>18 DEF SetDelay
<1>19. ASSUME NEW w \in Threads, ForceShutdown(w) PROVE TypeOK'
  <2>1. job' \in [Threads -> Jobs] /\ status' \in {"BROKEN", "CONNECTED", "FORCE", "GRACEFUL"}
    BY <1>3, <1>4, <1>11, <1>19 DEF ForceShutdown, Places
  <2>2. rwQ' \in Seq({"do_recv_msg", "recv_error", "force", "graceful"}) /\ need_reconnect' \in BOOLEAN
    BY <1>7, <1>19, JobFields DEF ForceShutdown, Tasks
  <2> QED BY <1>19, <2>1, <2>2 DEF ForceShutdown
<1>20. ASSUME NEW w \in Threads, GracefulShutdown(w) PROVE TypeOK'
  <2>1. job' \in [Threads -> Jobs]
    BY <1>3, <1>4, <1>20 DEF GracefulShutdown, Places
  <2>2. rwQ' \in Seq({"do_recv_msg", "recv_error", "force", "graceful"}) /\ need_reconnect' \in BOOLEAN
    BY <1>7, <1>20, JobFields DEF GracefulShutdown, Tasks
  <2> QED BY <1>20, <2>1, <2>2 DEF GracefulShutdown
<1>21. ASSUME NEW w \in Threads, AppShutdown(w) PROVE TypeOK'
  <2>1. \A pc \in {"force_shutdown", "graceful_shutdown"}, reconnect \in BOOLEAN :
           [kind |-> "app", pc |-> pc, reconnect |-> reconnect, prev_seq |-> 0] \in Jobs
    BY DEF Jobs
  <2>2. job' \in [Threads -> Jobs]
    BY <1>21, <2>1 DEF AppShutdown
  <2> QED BY <1>21, <2>2 DEF AppShutdown
<1>22. ASSUME NEW w \in Threads, Connect(w) \/ ConnectDelay(w) PROVE TypeOK'
  BY <1>3, <1>22 DEF Connect, ConnectDelay, Places
<1>23. ASSUME NEW w \in Threads, PrepareNextReconnect(w) PROVE TypeOK'
  <2>1. job' \in [Threads -> Jobs] /\ UNCHANGED <<flagVars, status, read, bounds>>
    BY <1>3, <1>23 DEF PrepareNextReconnect, Places
  <2>2. TimersOK' /\ first' \in BOOLEAN /\ alive' \in BOOLEAN /\ conn' \in {"none", "pending", "ok", "failed"}
    BY <1>1, <1>2, <1>5, <1>8, <1>23 DEF PrepareNextReconnect, TimersOK
  <2>3. rwQ' \in Seq({"do_recv_msg", "recv_error", "force", "graceful"})
    BY <1>7, <1>23 DEF PrepareNextReconnect, Tasks
  <2> QED BY <1>1, <2>1, <2>2, <2>3
<1>24. ASSUME NEW w \in Threads, ShutdownHandler(w) PROVE TypeOK'
  <2>1. job' = [job EXCEPT ![w].pc = "force_shutdown", ![w].reconnect = need_reconnect] => job' \in [Threads -> Jobs]
    <3>1. need_reconnect \in BOOLEAN /\ job[w] \in Jobs
      OBVIOUS
    <3>2. [job[w] EXCEPT !.pc = "force_shutdown", !.reconnect = need_reconnect] \in Jobs
      BY ONLY <3>1 DEF Jobs
    <3> QED BY <3>2
  <2>2. job' \in [Threads -> Jobs]
    BY <1>3, <1>24, <2>1 DEF ShutdownHandler, Places
  <2> QED BY <1>24, <2>2 DEF ShutdownHandler
<1>25. ASSUME NEW w \in Threads, DelayClose(w) PROVE TypeOK'
  <2>1. job' \in [Threads -> Jobs] /\ TimersOK'
    BY <1>1, <1>3, <1>6, <1>25 DEF DelayClose, Places, TimersOK
  <2> QED BY <1>1, <1>25, <2>1 DEF DelayClose
<1>26. ASSUME NEW w \in Threads, OnClose(w) PROVE TypeOK'
  BY <1>3, <1>8, <1>26 DEF OnClose, Places
<1>27. ASSUME NEW w \in Threads, ChangeTimerStatus(w) PROVE TypeOK'
  <2>1. job' \in [Threads -> Jobs] /\ TimersOK'
    BY <1>1, <1>2, <1>3, <1>27, TimerMarked DEF ChangeTimerStatus, Places
  <2> QED BY <1>1, <1>27, <2>1 DEF ChangeTimerStatus
<1>28. ASSUME NEW w \in Threads, AfterClose(w) \/ Obsolete(w) PROVE TypeOK'
  BY <1>3, <1>28 DEF AfterClose, Obsolete, Places
<1>29. ASSUME NEW w \in Threads, NEW id \in Timers, Again(w, id) PROVE TypeOK'
  <2>1. job' \in [Threads -> Jobs] /\ TimersOK'
    BY <1>1, <1>3, <1>4, <1>5, <1>29 DEF Again, Places, TimersOK
  <2> QED BY <1>1, <1>29, <2>1 DEF Again
<1>30. ASSUME NEW w \in Threads, NEW id \in Timers, Compare(w, id) PROVE TypeOK'
  BY <1>3, <1>4, <1>30 DEF Compare, Places
<1>31. ASSUME NEW w \in Threads, NEW id \in Timers, Cancel(w, id) PROVE TypeOK'
  <2>1. job' \in [Threads -> Jobs] /\ TimersOK'
    BY <1>1, <1>4, <1>31, TimerMarked DEF Cancel
  <2> QED BY <1>1, <1>31, <2>1 DEF Cancel
(* What they take.                                                           *)
<1>32. ASSUME NEW w \in Workers, DoRecvMsg(w) PROVE TypeOK'
  BY <1>9, <1>32 DEF DoRecvMsg
<1>33. ASSUME NEW w \in Workers, RecvError(w) PROVE TypeOK'
  <2>1. [kind |-> "rw", pc |-> "force_shutdown", reconnect |-> need_reconnect, prev_seq |-> 0] \in Jobs
    BY DEF Jobs
  <2>2. job' \in [Threads -> Jobs] /\ rwQ' \in Seq({"do_recv_msg", "recv_error", "force", "graceful"})
    BY <1>9, <1>33, <2>1 DEF RecvError
  <2> QED BY <1>33, <2>2 DEF RecvError
<1>34. ASSUME NEW w \in Workers, _force_shutdown(w) PROVE TypeOK'
  <2>1. /\ rwQ' \in Seq({"do_recv_msg", "recv_error", "force", "graceful"}) /\ job' \in [Threads -> Jobs]
        /\ status' \in {"BROKEN", "CONNECTED", "FORCE", "GRACEFUL"}
    BY <1>9, <1>11, <1>34 DEF _force_shutdown
  <2> QED BY <1>34, <2>1 DEF _force_shutdown
<1>35. ASSUME NEW w \in Workers, _graceful_shutdown(w) PROVE TypeOK'
  <2>1. /\ rwQ' \in Seq({"do_recv_msg", "recv_error", "force", "graceful"}) /\ job' \in [Threads -> Jobs]
        /\ status' \in {"BROKEN", "CONNECTED", "FORCE", "GRACEFUL"} /\ polls' \in Nat
    BY <1>9, <1>11, <1>35 DEF _graceful_shutdown
  <2>2. TimersOK'
    BY <1>1, <1>2, <1>5, <1>35 DEF _graceful_shutdown, TimersOK
  <2> QED BY <1>1, <1>35, <2>1, <2>2 DEF _graceful_shutdown
<1>36. ASSUME NEW w \in Workers, ConnectHandler(w) PROVE TypeOK'
  <2>1. TimersOK' /\ status' \in {"BROKEN", "CONNECTED", "FORCE", "GRACEFUL"}
    BY <1>1, <1>2, <1>5, <1>36 DEF ConnectHandler, TimersOK
  <2>2. rwQ' \in Seq({"do_recv_msg", "recv_error", "force", "graceful"}) /\ conn' = "none"
    BY <1>7, <1>36 DEF ConnectHandler, Tasks
  <2> QED BY <1>1, <1>36, <2>1, <2>2 DEF ConnectHandler
<1>37. ASSUME NEW w \in Workers, NEW id \in Timers, BeginHandler(w, id) PROVE TypeOK'
  <2>1. TimersOK' /\ timer[id].due[1].prev_seq \in Nat /\ Head(timer[id].due) = timer[id].due[1]
    BY <1>1, <1>37, HandlerTaken DEF BeginHandler
  <2>2. \A n \in Nat, pc \in {"callback", "compare"} : [Idle EXCEPT !.kind = id, !.prev_seq = n, !.pc = pc] \in Jobs
    BY DEF Idle, Jobs
  <2>3. PICK pc \in {"callback", "compare"} :
           job' = [job EXCEPT ![w] = [Idle EXCEPT !.kind = id, !.prev_seq = timer[id].due[1].prev_seq, !.pc = pc]]
    BY <1>37, <2>1 DEF BeginHandler
  <2>4. PICK new \in Jobs : job' = [job EXCEPT ![w] = new]
    BY <2>1, <2>2, <2>3
  <2>5. job' \in [Threads -> Jobs]
    BY <2>4 DEF Threads
  <2> QED BY <1>1, <1>37, <2>1, <2>5 DEF BeginHandler
<1>38. ASSUME NEW id \in Timers, Expire(id) PROVE TypeOK'
  <2>1. timer[id] \in TimerInfos /\ timer' = [timer EXCEPT ![id] = Complete(timer[id], FALSE)]
    BY <1>38 DEF Expire
  <2>2. TimersOK'
    BY <1>1, <2>1, Completed, TimerMade
  <2> QED BY <1>1, <1>38, <2>2 DEF Expire
<1>39. CASE ConnectDone \/ ReadFails
  <2>1. CASE ConnectDone
    <3>1. breaks' \in {breaks, breaks + 1} /\ conn' \in {"ok", "failed"} /\ alive' \in {alive, TRUE}
      BY <2>1, Zenon DEF ConnectDone
    <3>2. UNCHANGED <<started, start_atomic, need_reconnect, obsoleted, status, first, read, rwQ,
                      timer, job, calls, polls>>
      BY <2>1 DEF ConnectDone
    <3>3. breaks \in Nat /\ breaks + 1 \in Nat /\ alive \in BOOLEAN
      OBVIOUS
    <3>4. breaks' \in Nat /\ alive' \in BOOLEAN
      BY ONLY <3>1, <3>3
    <3> QED BY <3>1, <3>2, <3>4
  <2>2. CASE ReadFails
    <3>1. rwQ' \in Seq({"do_recv_msg", "recv_error", "force", "graceful"}) /\ breaks' \in Nat
      BY <1>7, <2>2 DEF ReadFails, Tasks
    <3> QED BY <2>2, <3>1 DEF ReadFails
  <2> QED BY <1>39, <2>1, <2>2
<1>40. CASE UNCHANGED vars
  BY <1>40 DEF vars
<1>41. ASSUME NEW w \in Threads, Work(w) PROVE TypeOK'
  BY <1>12, <1>13, <1>14, <1>15, <1>16, <1>17, <1>18, <1>19, <1>20, <1>22, <1>23, <1>24, <1>25,
     <1>26, <1>27, <1>28, <1>29, <1>30, <1>31, <1>41 DEF Work
<1>42. CASE TakeIoTask
  BY <1>32, <1>33, <1>34, <1>35, <1>42 DEF TakeIoTask
<1> QED
  BY <1>21, <1>36, <1>37, <1>38, <1>39, <1>40, <1>41, <1>42
     DEF Next, TakeConnectHandler, TakeHandler

(* Every variable keeps its type.                                            *)
THEOREM TypeCorrect ==
    ASSUME SeqMod > 1
    PROVE  Spec => []TypeOK
BY TypeInit, TypeNext, PTL DEF Spec

-----------------------------------------------------------------------------
(* Connecting alone.                                                         *)

(* What can lead to a connection, or is one, at most one of which exists:    *)
(* TIMER_CONNECT that fires and its callback, the attempt, the timer between *)
(* two attempts and its callback, the reads of the connection.               *)
Connecting(j) == j.kind = "CONNECT" /\ j.pc = "callback"
Delaying(j) == j.kind = "CONNECT_DELAY" /\ j.pc \in {"callback", "again", "prepare"}
ConnectDue == Fires(timer["CONNECT"])
Connects == \E w \in Threads : Connecting(job[w])
Attempts == conn # "none"
DelayDue == Fires(timer["CONNECT_DELAY"])
Delays == \E w \in Threads : Delaying(job[w])
Reading == read \/ \E i \in DOMAIN rwQ : rwQ[i] \in {"do_recv_msg", "recv_error"}

Nothing == ~ConnectDue /\ ~Connects /\ ~Attempts /\ ~DelayDue /\ ~Delays /\ ~Reading
Exclusive ==
    /\ ConnectDue => ~Connects /\ ~Attempts /\ ~DelayDue /\ ~Delays /\ ~Reading
    /\ Connects => ~Attempts /\ ~DelayDue /\ ~Delays /\ ~Reading
    /\ Attempts => ~DelayDue /\ ~Delays /\ ~Reading
    /\ DelayDue => ~Delays /\ ~Reading
    /\ Delays => ~Reading
Once == FiresOnce(timer["CONNECT"]) /\ FiresOnce(timer["CONNECT_DELAY"])

(* A link that is not broken is not being connected.                         *)
Linked == status # "BROKEN" => ~ConnectDue /\ ~Connects /\ ~Attempts /\ ~DelayDue /\ ~Delays

(* TIMER_DELAY_CLOSE: nothing is left of it when it is not started, and it   *)
(* is never stopped.                                                         *)
Closer == timer["DELAY_CLOSE"]
Closing == Closer.status = "STARTED"
CloserSound ==
    /\ ~Closing => AtRest(Closer)
    /\ Closer.wait => Closer.due = <<>>
    /\ Len(Closer.due) <= 1 /\ \A i \in DOMAIN Closer.due : ~Closer.due[i].cancelled
    /\ Closing => ~started

(* Where the thread can be, and what it knows there.                         *)
Starting == {"start", "lock", "do_start", "started"}
JobShape(j) ==
    \/ j.kind = "none" /\ j.pc = "idle"
    \/ j.kind = "CONNECT" /\ j.pc \in {"callback", "compare", "cancel"}
    \/ j.kind = "CONNECT_DELAY" /\ j.pc \in {"callback", "again", "prepare", "compare", "cancel"}
    \/ j.kind = "ASYNC_SHUTDOWN" /\ j.pc \in Starting \cup {"callback", "again", "force_shutdown", "compare", "cancel"}
    \/ j.kind = "rw" /\ j.pc \in Starting \cup {"force_shutdown", "close", "stop_timers", "set_delay"}
    \/ j.kind = "app" /\ j.pc \in Starting \cup {"force_shutdown", "graceful_shutdown"}
    \/ j.kind = "DELAY_CLOSE" /\ j.pc \in Starting \cup {"callback", "on_close", "cancelled", "again",
                                                       "after_close", "obsolete", "compare", "cancel"}
JobSound(j) ==
    /\ JobShape(j)
    /\ j.kind = "DELAY_CLOSE" =>
          /\ AtRest(Closer)
          /\ Closing <=> j.pc \in {"callback", "on_close", "cancelled", "again"}
          /\ j.pc \in {"on_close", "cancelled"} => Nothing
          /\ j.pc = "cancelled" => status = "BROKEN"
    /\ j.pc \in {"lock", "do_start", "started", "stop_timers", "set_delay"} => ~started /\ ~Closing
JobsSound == \A w \in Threads : JobSound(job[w])

(* A socket that is closed altogether has nothing left.                      *)
Between == \E w \in Threads : job[w].pc \in {"stop_timers", "set_delay", "started"}
Closed == ~started /\ ~Closing /\ ~Between => Nothing /\ status = "BROKEN"

Alone == Exclusive /\ Once /\ Linked /\ CloserSound /\ JobsSound /\ Closed

OneThread == \A v, w \in Threads : v = w

LEMMA AloneInit == Init => Alone
<1> SUFFICES ASSUME Init PROVE Alone
  OBVIOUS
<1>1. /\ NewTimer \in TimerInfos /\ NewTimer.status = "CREATED" /\ ~NewTimer.wait /\ NewTimer.due = <<>>
  BY DEF NewTimer, TimerInfos, Handlers
<1>2. /\ Start(NewTimer).wait /\ Start(NewTimer).due = <<>>
  <2>1. PICK ti \in TimerInfos : ti = NewTimer
    BY <1>1
  <2>2. Start(ti).wait /\ Start(ti).due = IF ti.wait THEN Append(ti.due, [prev_seq |-> ti.seq, cancelled |-> TRUE]) ELSE ti.due
    BY Begun
  <2> QED BY <1>1, <2>1, <2>2
<1>3. /\ timer["CONNECT"] = Start(NewTimer) /\ timer["CONNECT_DELAY"] = NewTimer /\ Closer = NewTimer
  BY DEF Init, Timers, Closer
<1>4. ~DelayDue /\ Once /\ ~Closing /\ AtRest(Closer)
  BY <1>1, <1>2, <1>3 DEF DelayDue, Once, Closing, Fires, FiresOnce, AtRest
<1>5. CloserSound
  BY <1>4 DEF CloserSound, AtRest
<1>6. \A w \in Threads : job[w].kind = "none" /\ job[w].pc = "idle"
  BY IdleFields DEF Init
<1>7. ~Connects /\ ~Delays /\ ~Attempts /\ ~Reading /\ started /\ status = "BROKEN"
  BY <1>6 DEF Connects, Delays, Connecting, Delaying, Attempts, Reading, Init
<1>8. JobsSound
  BY <1>6 DEF JobsSound, JobSound, JobShape
<1> QED BY <1>4, <1>5, <1>7, <1>8 DEF Alone, Exclusive, Linked, Closed

(* A step that makes none of the six, and leaves TIMER_DELAY_CLOSE as it is. *)
LEMMA KeptSo ==
    ASSUME Alone, UNCHANGED started, status' = "BROKEN" <=> status = "BROKEN",
           ConnectDue' => ConnectDue, DelayDue' => DelayDue, Attempts' => Attempts,
           Reading' => Reading, Connects' => Connects, Delays' => Delays,
           Once', Closing' <=> Closing, Closer'.wait = Closer.wait, Closer'.due = Closer.due,
           \A w \in Threads : JobSound(job'[w]),
           Between => Between'
    PROVE  Alone'
<1>1. Exclusive' /\ Linked'
  BY DEF Alone, Exclusive, Linked
<1>2. CloserSound' /\ (AtRest(Closer) => AtRest(Closer'))
  BY DEF Alone, CloserSound, AtRest
<1>3. Nothing => Nothing'
  BY DEF Nothing
<1>4. JobsSound'
  <2> SUFFICES ASSUME NEW w \in Threads PROVE JobSound(job[w])'
    BY DEF JobsSound
  <2> QED BY <1>2, <1>3 DEF JobSound
<1>5. Closed'
  BY <1>3 DEF Alone, Closed
<1> QED BY <1>1, <1>2, <1>4, <1>5 DEF Alone

LEMMA Kept ==
    ASSUME Alone, UNCHANGED started, status' = "BROKEN" <=> status = "BROKEN",
           ConnectDue' => ConnectDue, DelayDue' => DelayDue, Attempts' => Attempts,
           Reading' => Reading, Connects' => Connects, Delays' => Delays,
           Once', Closer' = Closer,
           \A w \in Threads : JobSound(job'[w]),
           Between => Between'
    PROVE  Alone'
<1>1. (Closing' <=> Closing) /\ Closer'.wait = Closer.wait /\ Closer'.due = Closer.due
  BY DEF Closing
<1> QED BY <1>1, KeptSo

(* A step that passes the one of the six there is on to another.             *)
LEMMA Passed ==
    ASSUME Alone, ~Nothing, UNCHANGED started, Once', Exclusive', Linked', Closer' = Closer,
           \A w \in Threads : /\ JobShape(job'[w]) /\ job'[w].kind # "DELAY_CLOSE"
                              /\ job'[w].pc \notin {"lock", "do_start", "started", "stop_timers", "set_delay"},
           Between => Between'
    PROVE  Alone'
<1>1. (Closing' <=> Closing) /\ CloserSound'
  BY DEF Alone, Closing, CloserSound
<1>2. JobsSound'
  BY DEF JobsSound, JobSound
<1>3. Closed'
  BY <1>1 DEF Alone, Closed
<1> QED BY <1>1, <1>2, <1>3 DEF Alone

(* The same of a step of the only thread that leaves the timers alone.       *)
LEMMA JobStep ==
    ASSUME OneThread, Alone, NEW w \in Threads, JobSound(job'[w]),
           UNCHANGED <<started, conn>>, status' = "BROKEN" <=> status = "BROKEN",
           \A id \in {"CONNECT", "CONNECT_DELAY", "DELAY_CLOSE"} : timer'[id] = timer[id],
           Reading' => Reading,
           Connecting(job'[w]) => Connecting(job[w]), Delaying(job'[w]) => Delaying(job[w]),
           job[w].pc \notin {"stop_timers", "set_delay", "started"}
    PROVE  Alone'
<1>1. \A v \in Threads : v = w
  BY DEF OneThread
<1>2. ConnectDue' = ConnectDue /\ DelayDue' = DelayDue /\ Once' = Once /\ Closer' = Closer
  BY DEF ConnectDue, DelayDue, Once, Closer
<1>3. (Connects' => Connects) /\ (Delays' => Delays) /\ (Attempts' => Attempts) /\ ~Between
  BY <1>1 DEF Connects, Delays, Attempts, Between
<1>4. Once
  BY DEF Alone
<1> QED BY <1>1, <1>2, <1>3, <1>4, Kept

(* Reads are not asked for by a shutdown, and gone when they are taken.      *)
LEMMA QueuedShutdown ==
    ASSUME rwQ \in Seq(Tasks), NEW x \in {"force", "graceful"}, rwQ' = Append(rwQ, x), UNCHANGED read
    PROVE  Reading' => Reading
<1>1. \A i \in DOMAIN rwQ' : (i \in DOMAIN rwQ /\ rwQ'[i] = rwQ[i]) \/ rwQ'[i] = x
  BY DEF Tasks
<1> QED BY <1>1 DEF Reading

LEMMA Dequeued ==
    ASSUME rwQ \in Seq(Tasks), rwQ # <<>>, rwQ' = Tail(rwQ)
    PROVE  /\ Head(rwQ) = rwQ[1] /\ 1 \in DOMAIN rwQ
           /\ \A i \in DOMAIN rwQ' : i + 1 \in DOMAIN rwQ /\ rwQ'[i] = rwQ[i + 1]
OBVIOUS

LEMMA TaskTaken ==
    ASSUME rwQ \in Seq(Tasks), NEW w, NEW name, NextTask(w, name)
    PROVE  /\ UNCHANGED read => (Reading' => Reading)
           /\ name \in {"do_recv_msg", "recv_error"} => Reading
           /\ w \in Threads /\ job[w] = Idle
BY Dequeued DEF Reading, NextTask, Threads, Free

(* What a step of the only thread does that goes on at another place or is   *)
(* done, and changes nothing that the invariant speaks of but its job.       *)
LEMMA GoesOn ==
    ASSUME OneThread, TypeOK, Alone, NEW w \in Threads,
           \/ Done(w)
           \/ \E pc \in Places : Goto(w, pc) /\ JobSound(job'[w])
                /\ (pc = "callback" => job[w].pc = "callback")
                /\ (pc \in {"again", "prepare"} => job[w].pc \in {"callback", "again", "prepare"}),
           UNCHANGED <<started, conn, timer>>, status' = "BROKEN" <=> status = "BROKEN",
           Reading' => Reading,
           job[w].pc \notin {"stop_timers", "set_delay", "started"}
    PROVE  Alone'
<1>1. job \in [Threads -> Jobs]
  BY DEF TypeOK
<1>2. CASE Done(w)
  <2>1. job'[w] = Idle
    BY <1>1, <1>2, IsDone
  <2>2. JobSound(job'[w]) /\ ~Connecting(job'[w]) /\ ~Delaying(job'[w])
    BY <2>1, IdleFields DEF JobSound, JobShape, Connecting, Delaying
  <2> QED BY <2>2, JobStep
<1>3. ASSUME NEW pc \in Places, Goto(w, pc), JobSound(job'[w]),
             pc = "callback" => job[w].pc = "callback",
             pc \in {"again", "prepare"} => job[w].pc \in {"callback", "again", "prepare"}
      PROVE  Alone'
  <2>1. job'[w].pc = pc /\ job'[w].kind = job[w].kind
    BY <1>1, <1>3, Gone
  <2>2. (Connecting(job'[w]) => Connecting(job[w])) /\ (Delaying(job'[w]) => Delaying(job[w]))
    BY <1>3, <2>1 DEF Connecting, Delaying
  <2> QED BY <1>3, <2>2, JobStep
<1> QED BY <1>2, <1>3

(* A new job that is none of the six.                                        *)
LEMMA TakesJob ==
    ASSUME OneThread, Alone, NEW w \in Threads, NEW new \in Jobs,
           job \in [Threads -> Jobs], job' = [job EXCEPT ![w] = new],
           JobShape(new), new.kind \in {"rw", "app"},
           new.pc \notin {"lock", "do_start", "started", "stop_timers", "set_delay"},
           UNCHANGED <<started, conn>>, status' = "BROKEN" <=> status = "BROKEN",
           \A id \in {"CONNECT", "CONNECT_DELAY", "DELAY_CLOSE"} : timer'[id] = timer[id],
           Reading' => Reading,
           job[w].pc \notin {"stop_timers", "set_delay", "started"}
    PROVE  Alone'
<1>1. job'[w] = new
  OBVIOUS
<1>2. JobSound(new) /\ ~Connecting(new) /\ ~Delaying(new)
  BY DEF JobSound, Connecting, Delaying
<1> QED BY <1>1, <1>2, JobStep

-----------------------------------------------------------------------------
(* start() and close().                                                      *)

LEMMA AfterStarted ==
    ASSUME NEW w \in Threads, AfterStart(w)
    PROVE  Done(w) \/ (Goto(w, "obsolete") /\ job[w].kind = "DELAY_CLOSE")
<1>1. CASE job[w].kind = "DELAY_CLOSE"
  BY <1>1 DEF AfterStart
<1>2. CASE job[w].kind # "DELAY_CLOSE"
  BY <1>2 DEF AfterStart
<1> QED BY <1>1, <1>2

LEMMA KeptByStart ==
    ASSUME OneThread, TypeOK, Alone, NEW w \in Threads, StartCheck(w) \/ StartLock(w)
    PROVE  Alone'
<1>1. /\ UNCHANGED <<started, conn, timer, status, read, rwQ>>
      /\ job[w].pc \in {"start", "lock"} /\ job[w] \in Jobs /\ JobSound(job[w])
  BY DEF StartCheck, StartLock, flagVars, netVars, TypeOK, Alone, JobsSound
<1>2. Reading' => Reading
  BY <1>1 DEF Reading
<1>3. \/ Done(w)
      \/ \E pc \in Places : Goto(w, pc) /\ pc \in {"lock", "do_start", "obsolete"}
           /\ (pc = "obsolete" => job[w].kind = "DELAY_CLOSE")
           /\ (pc \in {"lock", "do_start"} => ~started /\ (~Closing \/ job[w].pc = "lock"))
  BY <1>1 DEF StartCheck, StartLock, AfterStart, Places, Closing, Closer
<1>4. ASSUME NEW pc \in Places, Goto(w, pc), pc \in {"lock", "do_start", "obsolete"},
             pc = "obsolete" => job[w].kind = "DELAY_CLOSE",
             pc \in {"lock", "do_start"} => ~started /\ (~Closing \/ job[w].pc = "lock")
      PROVE  JobSound(job'[w])
  <2>1. job'[w].pc = pc /\ job'[w].kind = job[w].kind
    BY <1>4, Gone DEF TypeOK
  <2>2. JobShape(job'[w])
    BY <1>1, <1>4, <2>1 DEF JobSound, JobShape, Starting
  <2> QED BY <1>1, <1>4, <2>1, <2>2 DEF JobSound
<1> QED BY <1>1, <1>2, <1>3, <1>4, GoesOn

(* do_start: a closed socket has nothing, and gets TIMER_CONNECT.            *)
LEMMA KeptByDoStart ==
    ASSUME OneThread, TypeOK, Alone, NEW w \in Threads, DoStart(w)
    PROVE  Alone'
<1>1. /\ UNCHANGED <<started, status, conn, read, rwQ>>
      /\ job[w].pc = "do_start" /\ job[w] \in Jobs /\ JobSound(job[w])
      /\ \A v \in Threads : v = w
  BY DEF DoStart, TypeOK, Alone, JobsSound, OneThread
<1>2. Reading' = Reading /\ Attempts' = Attempts
  BY <1>1 DEF Reading, Attempts
<1>3. ~started /\ ~Closing /\ Nothing /\ status = "BROKEN"
  BY <1>1 DEF Alone, Closed, Between, JobSound
<1>4. CASE SetTimer("CONNECT") /\ Goto(w, "started")
  <2>1. job'[w].pc = "started" /\ job'[w].kind = job[w].kind
    BY <1>4, Gone DEF TypeOK, Places
  <2>2. /\ timer'["CONNECT"].wait /\ timer'["CONNECT"].due = Start(timer["CONNECT"]).due
        /\ timer'["CONNECT_DELAY"] = timer["CONNECT_DELAY"] /\ Closer' = Closer
        /\ timer["CONNECT"] \in TimerInfos
    BY <1>4, TimerSet DEF TypeOK, TimersOK, Timers, Closer
  <2>3. FiresOnce(timer'["CONNECT"])
    BY <1>3, <2>2, SetFires DEF Nothing, ConnectDue
  <2>4. Once' /\ DelayDue' = DelayDue
    BY <2>2, <2>3 DEF Once, DelayDue, Alone
  <2>5. ~Connects' /\ ~Delays' /\ Between'
    BY <1>1, <2>1 DEF Connects, Delays, Connecting, Delaying, Between
  <2>6. CloserSound' /\ Closing' = Closing
    BY <1>1, <2>2 DEF Alone, CloserSound, Closing
  <2>7. JobsSound'
    <3>1. JobShape(job'[w])
      BY <1>1, <2>1 DEF JobSound, JobShape, Starting
    <3>2. JobSound(job[w])'
      BY <1>1, <1>3, <2>1, <2>2, <2>6, <3>1 DEF JobSound
    <3> QED BY <1>1, <3>2 DEF JobsSound
  <2>8. Exclusive' /\ Linked' /\ Closed'
    BY <1>1, <1>2, <1>3, <2>4, <2>5 DEF Nothing, Exclusive, Linked, Closed
  <2> QED BY <2>4, <2>6, <2>7, <2>8 DEF Alone
<1>5. CASE AfterStart(w) /\ UNCHANGED timer
  <2>1. Done(w) \/ (Goto(w, "obsolete") /\ job[w].kind = "DELAY_CLOSE")
    BY <1>5, AfterStarted
  <2>2. ASSUME Goto(w, "obsolete"), job[w].kind = "DELAY_CLOSE" PROVE JobSound(job'[w])
    <3>1. job'[w].pc = "obsolete" /\ job'[w].kind = job[w].kind
      BY <2>2, Gone DEF TypeOK, Places
    <3> QED BY <1>1, <1>3, <2>2, <3>1 DEF JobSound, JobShape
  <2> QED BY <1>1, <1>2, <1>5, <2>1, <2>2, GoesOn DEF Places
<1> QED BY <1>4, <1>5 DEF DoStart

(* started_ is set while TIMER_DELAY_CLOSE is not started.                   *)
LEMMA KeptBySetStarted ==
    ASSUME OneThread, TypeOK, Alone, NEW w \in Threads, SetStarted(w)
    PROVE  Alone'
<1>1. /\ UNCHANGED <<status, conn, read, rwQ, timer>> /\ started'
      /\ job[w].pc = "started" /\ job[w] \in Jobs /\ JobSound(job[w]) /\ AfterStart(w)
      /\ \A v \in Threads : v = w
  BY DEF SetStarted, netVars, TypeOK, Alone, JobsSound, OneThread
<1>2. ~Closing
  BY <1>1 DEF JobSound
<1>3. job'[w] = Idle \/ (job'[w].pc = "obsolete" /\ job'[w].kind = "DELAY_CLOSE")
  <2>1. job \in [Threads -> Jobs] /\ "obsolete" \in Places
    BY DEF TypeOK, Places
  <2>2. Done(w) \/ (Goto(w, "obsolete") /\ job[w].kind = "DELAY_CLOSE")
    BY <1>1, AfterStarted
  <2>3. CASE Done(w)
    BY <2>1, <2>3, IsDone
  <2>4. CASE Goto(w, "obsolete") /\ job[w].kind = "DELAY_CLOSE"
    BY <2>1, <2>4, Gone
  <2> QED BY <2>2, <2>3, <2>4
<1>4. ~Connects' /\ ~Delays'
  BY <1>1, <1>3, IdleFields DEF Connects, Delays, Connecting, Delaying
<1>5. /\ ConnectDue' = ConnectDue /\ DelayDue' = DelayDue /\ Attempts' = Attempts /\ Reading' = Reading
      /\ Once' = Once /\ Closer' = Closer
  BY <1>1 DEF ConnectDue, DelayDue, Attempts, Reading, Once, Closer
<1>6. CloserSound' /\ Closing' = Closing
  BY <1>2, <1>5 DEF Alone, CloserSound, Closing
<1>7. JobSound(job[w])'
  <2>1. job'[w].pc \notin {"lock", "do_start", "started", "stop_timers", "set_delay"} /\ JobShape(job'[w])
    BY <1>3, IdleFields DEF JobShape
  <2>2. job'[w].kind = "DELAY_CLOSE" => AtRest(Closer') /\ job'[w].pc = "obsolete"
    BY <1>2, <1>3, <1>5, IdleFields DEF Alone, CloserSound
  <2> QED BY <1>2, <1>6, <2>1, <2>2 DEF JobSound
<1>8. Exclusive' /\ Linked' /\ Closed'
  BY <1>1, <1>4, <1>5 DEF Alone, Exclusive, Linked, Closed
<1> QED BY <1>1, <1>5, <1>6, <1>7, <1>8 DEF Alone, JobsSound

(* close() of a started socket.                                              *)
LEMMA KeptByCloseLock ==
    ASSUME OneThread, TypeOK, Alone, NEW w \in Threads, CloseLock(w)
    PROVE  Alone'
<1>1. /\ UNCHANGED <<status, conn, read, rwQ, timer>> /\ ~started'
      /\ job[w].pc = "close" /\ job[w] \in Jobs /\ JobSound(job[w])
      /\ \A v \in Threads : v = w
      /\ started \in BOOLEAN /\ started' = FALSE
  BY DEF CloseLock, netVars, TypeOK, Alone, JobsSound, OneThread
<1>2. /\ ConnectDue' = ConnectDue /\ DelayDue' = DelayDue /\ Attempts' = Attempts /\ Reading' = Reading
      /\ Once' = Once /\ Closer' = Closer
  BY <1>1 DEF ConnectDue, DelayDue, Attempts, Reading, Once, Closer
<1>3. CASE started
  <2>1. job'[w].pc = "stop_timers" /\ job'[w].kind = job[w].kind
    BY <1>3, Gone DEF CloseLock, TypeOK, Places
  <2>2. job[w].kind = "rw" /\ ~Closing
    BY <1>1, <1>3 DEF JobSound, JobShape, Starting, Alone, CloserSound
  <2>3. ~Connects' /\ ~Delays' /\ Between'
    BY <1>1, <2>1 DEF Connects, Delays, Connecting, Delaying, Between
  <2>4. CloserSound' /\ Closing' = Closing
    BY <1>2, <2>2 DEF Alone, CloserSound, Closing
  <2>5. JobSound(job[w])'
    BY <1>1, <2>1, <2>2, <2>4 DEF JobSound, JobShape
  <2>6. Exclusive' /\ Linked' /\ Closed'
    BY <1>1, <1>2, <2>3 DEF Alone, Exclusive, Linked, Closed
  <2> QED BY <1>1, <1>2, <2>4, <2>5, <2>6 DEF Alone, JobsSound
<1>4. CASE ~started
  BY <1>1, <1>2, <1>4, GoesOn DEF CloseLock
<1> QED BY <1>3, <1>4

(* A timer that is stopped, or left alone, fires no more than before.        *)
LEMMA StoppedKept ==
    ASSUME TypeOK, Alone, NEW ids, StopAllBut(ids), "DELAY_CLOSE" \in ids \/ ~Closing
    PROVE  Once' /\ (ConnectDue' => ConnectDue) /\ (DelayDue' => DelayDue) /\ Closer' = Closer
<1>1. \A id \in Timers : /\ timer[id] \in TimerInfos
                         /\ timer'[id] = timer[id] \/ timer'[id] = Stop(timer[id])
  BY AllStopped DEF TypeOK, TimersOK
<1>2. \A id \in {"CONNECT", "CONNECT_DELAY"} :
         FiresOnce(timer'[id]) /\ (Fires(timer'[id]) => Fires(timer[id]))
  <2> SUFFICES ASSUME NEW id \in {"CONNECT", "CONNECT_DELAY"}
               PROVE  FiresOnce(timer'[id]) /\ (Fires(timer'[id]) => Fires(timer[id]))
    OBVIOUS
  <2>1. id \in Timers /\ FiresOnce(timer[id])
    BY DEF Timers, Alone, Once
  <2>2. timer[id] \in TimerInfos
    BY <1>1, <2>1
  <2>3. FiresOnce(Stop(timer[id])) /\ (Fires(Stop(timer[id])) => Fires(timer[id]))
    BY <2>1, <2>2, StoppedFires
  <2> QED BY <1>1, <2>1, <2>3
<1>3. Closer' = Closer
  <2>1. "DELAY_CLOSE" \in Timers
    BY DEF Timers
  <2>2. Closer' = IF "DELAY_CLOSE" \in ids THEN Closer ELSE Stop(Closer)
    BY <2>1, AllStopped DEF Closer, TypeOK, TimersOK
  <2>3. ~Closing => Stop(Closer) = Closer
    BY <1>1, <2>1, Stopped DEF Closing, Closer
  <2> QED BY <2>2, <2>3
<1> QED BY <1>2, <1>3 DEF Once, ConnectDue, DelayDue

LEMMA KeptByStopTimers ==
    ASSUME OneThread, TypeOK, Alone, NEW w \in Threads, StopTimers(w)
    PROVE  Alone'
<1>1. /\ UNCHANGED <<started, status, read, rwQ>> /\ StopAllBut({}) /\ CloseLayer
      /\ job[w].pc = "stop_timers" /\ job[w] \in Jobs /\ JobSound(job[w]) /\ Goto(w, "set_delay")
      /\ \A v \in Threads : v = w
  BY DEF StopTimers, flagVars, TypeOK, Alone, JobsSound, OneThread
<1>2. ~Closing /\ ~started /\ job[w].kind = "rw"
  BY <1>1 DEF JobSound, JobShape, Starting
<1>3. Once' /\ (ConnectDue' => ConnectDue) /\ (DelayDue' => DelayDue) /\ Closer' = Closer
  BY <1>1, <1>2, StoppedKept
<1>4. (Attempts' => Attempts) /\ (Reading' => Reading)
  BY <1>1 DEF Attempts, Reading, CloseLayer
<1>5. job'[w].pc = "set_delay" /\ job'[w].kind = "rw"
  BY <1>1, <1>2, Gone DEF TypeOK, Places
<1>6. ~Connects' /\ ~Delays' /\ Between'
  BY <1>1, <1>5 DEF Connects, Delays, Connecting, Delaying, Between
<1>7. JobSound(job'[w])
  BY <1>2, <1>5 DEF JobSound, JobShape
<1> QED BY <1>1, <1>3, <1>4, <1>6, <1>7, Kept

(* TIMER_DELAY_CLOSE is set when nothing of it is left.                      *)
LEMMA CloserSet ==
    ASSUME OneThread, TypeOK, Alone, NEW w \in Threads, SetTimer("DELAY_CLOSE"), AtRest(Closer),
           ~started, job'[w] = Idle, UNCHANGED <<started, status, conn, read, rwQ>>
    PROVE  Alone'
<1>1. \A v \in Threads : v = w
  BY DEF OneThread
<1>2. /\ "DELAY_CLOSE" \in Timers /\ "CONNECT" \in Timers /\ "CONNECT_DELAY" \in Timers
      /\ TimersOK /\ Closer \in TimerInfos
  BY DEF Timers, TypeOK, TimersOK, Closer
<1>3. /\ Closer'.status = "STARTED" /\ Closer'.wait /\ Closer'.due = Start(Closer).due
      /\ timer'["CONNECT"] = timer["CONNECT"] /\ timer'["CONNECT_DELAY"] = timer["CONNECT_DELAY"]
  BY <1>2, TimerSet DEF Closer
<1>4. Closer'.due = <<>>
  BY <1>2, <1>3, SetFires
<1>5. /\ ConnectDue' = ConnectDue /\ DelayDue' = DelayDue /\ Attempts' = Attempts /\ Reading' = Reading
      /\ Once'
  BY <1>3 DEF ConnectDue, DelayDue, Attempts, Reading, Once, Alone
<1>6. CloserSound' /\ Closing'
  BY <1>3, <1>4 DEF CloserSound, Closing
<1>7. ~Connects' /\ ~Delays' /\ JobSound(job[w])'
  BY <1>1, IdleFields DEF Connects, Delays, Connecting, Delaying, JobSound, JobShape
<1>8. Exclusive' /\ Linked' /\ Closed'
  BY <1>5, <1>6, <1>7 DEF Alone, Exclusive, Linked, Closed
<1> QED BY <1>1, <1>5, <1>6, <1>7, <1>8 DEF Alone, JobsSound

(* The end of close(): TIMER_DELAY_CLOSE, of which nothing was left.         *)
LEMMA KeptBySetDelay ==
    ASSUME OneThread, TypeOK, Alone, NEW w \in Threads, SetDelay(w)
    PROVE  Alone'
<1>1. /\ UNCHANGED <<started, status, conn, read, rwQ>> /\ SetTimer("DELAY_CLOSE")
      /\ job[w].pc = "set_delay" /\ JobSound(job[w]) /\ Done(w)
      /\ \A v \in Threads : v = w
  BY DEF SetDelay, netVars, Alone, JobsSound, OneThread
<1>2. ~Closing /\ ~started /\ AtRest(Closer)
  BY <1>1 DEF JobSound, Alone, CloserSound
<1>3. job'[w] = Idle
  BY <1>1, IsDone DEF TypeOK
<1> QED BY <1>1, <1>2, <1>3, CloserSet

-----------------------------------------------------------------------------
(* The shutdowns.                                                            *)

(* tcp::socket_base::shutdown goes on with close().                          *)
LEMMA ShutsDown ==
    ASSUME OneThread, TypeOK, Alone, NEW w \in Threads, Shutdown(w),
           UNCHANGED <<started, conn, timer>>, Reading' => Reading,
           job[w].pc \in {"idle", "force_shutdown"}
    PROVE  Alone'
<1>1. PICK new : new = [Idle EXCEPT !.kind = "rw", !.pc = "close"]
  OBVIOUS
<1>2. new \in Jobs /\ new.kind = "rw" /\ new.pc = "close"
  BY <1>1 DEF Idle, Jobs
<1>3. job' = [job EXCEPT ![w] = new] /\ (status' = "BROKEN" <=> status = "BROKEN")
  BY <1>1 DEF Shutdown
<1>4. JobShape(new)
  BY <1>2 DEF JobShape
<1> QED BY <1>2, <1>3, <1>4, TakesJob DEF TypeOK

LEMMA KeptByForceShutdown ==
    ASSUME OneThread, TypeOK, Alone, NEW w \in Threads, ForceShutdown(w)
    PROVE  Alone'
<1>1. /\ UNCHANGED <<started, conn, timer, read>>
      /\ job[w].pc = "force_shutdown" /\ job[w] \in Jobs /\ JobSound(job[w])
      /\ job \in [Threads -> Jobs] /\ rwQ \in Seq(Tasks)
  BY DEF ForceShutdown, netVars, TypeOK, Alone, JobsSound, Tasks
<1>2. job[w].kind \in {"ASYNC_SHUTDOWN", "rw", "app"}
  BY <1>1 DEF JobSound, JobShape, Starting
<1>3. Reading' => Reading
  <2>1. UNCHANGED rwQ \/ rwQ' = Append(rwQ, "force")
    BY DEF ForceShutdown
  <2> QED BY <1>1, <2>1, QueuedShutdown DEF Reading
<1>4. \/ Shutdown(w)
      \/ status' = status /\ Done(w)
      \/ status' = status /\ Goto(w, "start")
      \/ status' = status /\ Goto(w, "compare") /\ job[w].kind = "ASYNC_SHUTDOWN"
  BY <1>2 DEF ForceShutdown
<1>5. CASE Shutdown(w)
  BY <1>1, <1>3, <1>5, ShutsDown
<1>6. CASE status' = status /\ Done(w)
  BY <1>1, <1>3, <1>6, GoesOn
<1>7. ASSUME NEW pc \in {"start", "compare"}, Goto(w, pc), pc = "compare" => job[w].kind = "ASYNC_SHUTDOWN"
      PROVE  JobSound(job'[w]) /\ pc \in Places
  <2>1. job'[w].pc = pc /\ job'[w].kind = job[w].kind
    BY <1>1, <1>7, Gone DEF Places
  <2> QED BY <1>2, <1>7, <2>1 DEF JobSound, JobShape, Starting, Places
<1>8. CASE status' = status /\ Goto(w, "start")
  BY <1>1, <1>3, <1>7, <1>8, GoesOn
<1>9. CASE status' = status /\ Goto(w, "compare") /\ job[w].kind = "ASYNC_SHUTDOWN"
  BY <1>1, <1>3, <1>7, <1>9, GoesOn
<1> QED BY <1>4, <1>5, <1>6, <1>8, <1>9

LEMMA KeptByGracefulShutdown ==
    ASSUME OneThread, TypeOK, Alone, NEW w \in Threads, GracefulShutdown(w)
    PROVE  Alone'
<1>1. /\ UNCHANGED <<started, conn, timer, read, status>>
      /\ job[w].pc = "graceful_shutdown" /\ job[w] \in Jobs /\ JobSound(job[w])
      /\ job \in [Threads -> Jobs] /\ rwQ \in Seq(Tasks)
  BY DEF GracefulShutdown, netVars, TypeOK, Alone, JobsSound, Tasks
<1>2. job[w].kind = "app"
  BY <1>1 DEF JobSound, JobShape, Starting
<1>3. Reading' => Reading
  <2>1. UNCHANGED rwQ \/ rwQ' = Append(rwQ, "graceful")
    BY DEF GracefulShutdown
  <2> QED BY <1>1, <2>1, QueuedShutdown DEF Reading
<1>4. Done(w) \/ \E pc \in {"start", "force_shutdown"} : Goto(w, pc)
  BY DEF GracefulShutdown
<1>5. ASSUME NEW pc \in {"start", "force_shutdown"}, Goto(w, pc) PROVE JobSound(job'[w]) /\ pc \in Places
  <2>1. job'[w].pc = pc /\ job'[w].kind = job[w].kind
    BY <1>1, <1>5, Gone DEF Places
  <2> QED BY <1>2, <1>5, <2>1 DEF JobSound, JobShape, Starting, Places
<1>6. CASE Done(w)
  BY <1>1, <1>3, <1>6, GoesOn
<1>7. CASE \E pc \in {"start", "force_shutdown"} : Goto(w, pc)
  BY <1>1, <1>3, <1>5, <1>7, GoesOn
<1> QED BY <1>4, <1>6, <1>7

LEMMA KeptByAppShutdown ==
    ASSUME OneThread, TypeOK, Alone, NEW w \in Threads, AppShutdown(w)
    PROVE  Alone'
<1>1. PICK pc \in {"force_shutdown", "graceful_shutdown"}, reconnect \in BOOLEAN :
         job' = [job EXCEPT ![w] = [kind |-> "app", pc |-> pc, reconnect |-> reconnect, prev_seq |-> 0]]
  BY DEF AppShutdown
<1>2. PICK new : new = [kind |-> "app", pc |-> pc, reconnect |-> reconnect, prev_seq |-> 0]
  OBVIOUS
<1>3. new \in Jobs /\ new.kind = "app" /\ new.pc = pc
  BY <1>2 DEF Jobs
<1>4. UNCHANGED <<started, conn, timer, read, status, rwQ>> /\ job[w].pc = "idle"
  BY IdleFields DEF AppShutdown, flagVars, netVars, Free
<1>5. JobShape(new)
  BY <1>3 DEF JobShape
<1>6. Reading' => Reading
  BY <1>4 DEF Reading
<1> QED BY <1>1, <1>2, <1>3, <1>4, <1>5, <1>6, TakesJob DEF TypeOK

(* What a thread takes from rw_strand.                                       *)
LEMMA KeptByIoTask ==
    ASSUME OneThread, TypeOK, Alone, NEW w \in Workers,
           DoRecvMsg(w) \/ RecvError(w) \/ _force_shutdown(w) \/ _graceful_shutdown(w)
    PROVE  Alone'
<1>1. /\ w \in Threads /\ job \in [Threads -> Jobs] /\ rwQ \in Seq(Tasks) /\ TimersOK
      /\ "ASYNC_SHUTDOWN" \in Timers
  BY DEF TypeOK, Threads, Tasks, TimersOK, Timers
<1>2. job[w] = Idle /\ job[w].pc = "idle" /\ JobSound(Idle)
  <2>1. \E name : NextTask(w, name)
    BY DEF DoRecvMsg, RecvError, _force_shutdown, _graceful_shutdown
  <2> QED BY <2>1, IdleFields DEF NextTask, Free, JobSound, JobShape
<1>3. ~Connecting(Idle) /\ ~Delaying(Idle)
  BY IdleFields DEF Connecting, Delaying
<1>4. CASE DoRecvMsg(w)
  <2>1. UNCHANGED <<started, conn, status, timer, job>> /\ NextTask(w, "do_recv_msg")
    BY <1>4 DEF DoRecvMsg, flagVars
  <2>2. Reading
    BY <1>1, <2>1, TaskTaken
  <2> QED BY <1>1, <1>2, <2>1, <2>2, JobStep
<1>5. CASE RecvError(w)
  <2>1. PICK new : new = [kind |-> "rw", pc |-> "force_shutdown", reconnect |-> need_reconnect, prev_seq |-> 0]
    OBVIOUS
  <2>2. new \in Jobs /\ new.kind = "rw" /\ new.pc = "force_shutdown"
    BY <2>1 DEF Jobs, TypeOK
  <2>3. /\ UNCHANGED <<started, conn, status, timer, read>> /\ NextTask(w, "recv_error")
        /\ job' = [job EXCEPT ![w] = new]
    BY <1>5, <2>1 DEF RecvError, flagVars, netVars
  <2>4. (Reading' => Reading) /\ JobShape(new)
    BY <1>1, <2>2, <2>3, TaskTaken DEF JobShape
  <2> QED BY <1>1, <1>2, <2>2, <2>3, <2>4, TakesJob
<1>6. CASE _force_shutdown(w)
  <2>1. UNCHANGED <<started, conn, timer, read>> /\ NextTask(w, "force")
    BY <1>6 DEF _force_shutdown, flagVars, netVars
  <2>2. Reading' => Reading
    BY <1>1, <2>1, TaskTaken
  <2>3. CASE UNCHANGED <<status, job>>
    BY <1>1, <1>2, <2>1, <2>2, <2>3, JobStep
  <2>4. CASE Shutdown(w)
    BY <1>1, <1>2, <2>1, <2>2, <2>4, ShutsDown
  <2> QED BY <1>6, <2>3, <2>4 DEF _force_shutdown
<1>7. CASE _graceful_shutdown(w)
  <2>1. UNCHANGED <<started, conn, read>> /\ NextTask(w, "graceful")
    BY <1>7 DEF _graceful_shutdown, flagVars, netVars
  <2>2. Reading' => Reading
    BY <1>1, <2>1, TaskTaken
  <2>3. CASE Shutdown(w) /\ UNCHANGED timer
    BY <1>1, <1>2, <2>1, <2>2, <2>3, ShutsDown
  <2>4. CASE UNCHANGED <<status, timer, job>>
    BY <1>1, <1>2, <2>1, <2>2, <2>4, JobStep
  <2>5. CASE status = "CONNECTED" /\ status' = "GRACEFUL" /\ SetTimer("ASYNC_SHUTDOWN") /\ UNCHANGED job
    <3>1. \A id \in {"CONNECT", "CONNECT_DELAY", "DELAY_CLOSE"} : timer'[id] = timer[id]
      <4>1. \A id \in Timers : id # "ASYNC_SHUTDOWN" => timer'[id] = timer[id]
        BY <1>1, <2>5, TimerSet
      <4> QED BY <4>1 DEF Timers
    <3> QED BY <1>1, <1>2, <2>1, <2>2, <2>5, <3>1, JobStep
  <2> QED BY <1>7, <2>3, <2>4, <2>5 DEF _graceful_shutdown
<1> QED BY <1>4, <1>5, <1>6, <1>7

-----------------------------------------------------------------------------
(* The network and connecting.                                               *)

LEMMA KeptByNetwork ==
    ASSUME TypeOK, Alone, ConnectDone \/ ReadFails \/ UNCHANGED vars
    PROVE  Alone'
<1>1. UNCHANGED <<started, status, timer, job>>
  BY DEF ConnectDone, ReadFails, vars, flagVars
<1>2. Attempts' => Attempts
  BY DEF ConnectDone, ReadFails, vars, netVars, Attempts
<1>3. Reading' => Reading
  BY DEF ConnectDone, ReadFails, vars, netVars, Reading
<1>4. /\ ConnectDue' = ConnectDue /\ DelayDue' = DelayDue /\ Once' = Once /\ Closer' = Closer
      /\ Connects' = Connects /\ Delays' = Delays /\ Between' = Between
  BY <1>1 DEF ConnectDue, DelayDue, Once, Closer, Connects, Delays, Between
<1>5. Once /\ \A w \in Threads : JobSound(job'[w])
  BY <1>1 DEF Alone, JobsSound
<1> QED BY <1>1, <1>2, <1>3, <1>4, <1>5, Kept

(* connect_handler: reads, or TIMER_CONNECT_DELAY.                           *)
LEMMA KeptByConnectHandler ==
    ASSUME OneThread, TypeOK, Alone, NEW w \in Workers, ConnectHandler(w)
    PROVE  Alone'
<1>1. /\ UNCHANGED <<started, read, job>> /\ job[w] = Idle /\ conn' = "none"
      /\ Attempts /\ ~Attempts' /\ w \in Threads /\ \A v \in Threads : v = w
  BY DEF ConnectHandler, flagVars, Free, Attempts, Threads, OneThread
<1>2. ~ConnectDue /\ ~Connects /\ ~DelayDue /\ ~Delays /\ ~Reading /\ ~Nothing /\ status = "BROKEN"
  BY <1>1 DEF Alone, Exclusive, Nothing, Linked
<1>3. ~Connects' /\ ~Delays' /\ Between' = Between
  BY <1>1, <1>2 DEF Connects, Delays, Between
<1>4. \A v \in Threads : /\ JobShape(job'[v]) /\ job'[v].kind # "DELAY_CLOSE"
                         /\ job'[v].pc \notin {"lock", "do_start", "started", "stop_timers", "set_delay"}
  BY <1>1, IdleFields DEF JobShape
<1>5. CASE conn = "ok"
  <2>1. UNCHANGED timer
    BY <1>5 DEF ConnectHandler
  <2>2. ConnectDue' = ConnectDue /\ DelayDue' = DelayDue /\ Once' = Once /\ Closer' = Closer
    BY <2>1 DEF ConnectDue, DelayDue, Once, Closer
  <2>3. Exclusive' /\ Linked' /\ Once'
    BY <1>1, <1>2, <1>3, <2>2 DEF Exclusive, Linked, Alone
  <2> QED BY <1>1, <1>2, <1>3, <1>4, <2>2, <2>3, Passed
<1>6. CASE conn # "ok"
  <2>1. UNCHANGED <<status, rwQ>> /\ SetTimer("CONNECT_DELAY")
    BY <1>6 DEF ConnectHandler
  <2>2. TimersOK /\ "CONNECT_DELAY" \in Timers /\ "CONNECT" \in Timers /\ "DELAY_CLOSE" \in Timers
    BY DEF TypeOK, TimersOK, Timers
  <2>3. /\ timer'["CONNECT_DELAY"].wait
        /\ timer'["CONNECT_DELAY"].due = Start(timer["CONNECT_DELAY"]).due
        /\ timer'["CONNECT"] = timer["CONNECT"] /\ Closer' = Closer
        /\ timer["CONNECT_DELAY"] \in TimerInfos
    BY <2>1, <2>2, TimerSet DEF Closer, TimersOK
  <2>4. FiresOnce(timer'["CONNECT_DELAY"])
    BY <1>2, <2>3, SetFires DEF DelayDue
  <2>5. Once' /\ ConnectDue' = ConnectDue /\ Reading' = Reading
    BY <1>1, <2>1, <2>3, <2>4 DEF Once, ConnectDue, Reading, Alone
  <2>6. Exclusive' /\ Linked'
    BY <1>1, <1>2, <1>3, <2>1, <2>5 DEF Exclusive, Linked
  <2> QED BY <1>1, <1>2, <1>3, <1>4, <2>3, <2>5, <2>6, Passed
<1> QED BY <1>5, <1>6

(* connect: the callback becomes an attempt.                                 *)
LEMMA KeptByConnect ==
    ASSUME OneThread, TypeOK, Alone, NEW w \in Threads, Connect(w)
    PROVE  Alone'
<1>1. /\ UNCHANGED <<started, status, read, rwQ, timer>> /\ Goto(w, "compare")
      /\ job[w].kind = "CONNECT" /\ job[w].pc = "callback" /\ \A v \in Threads : v = w
  BY DEF Connect, flagVars, At, OneThread
<1>2. job'[w].kind = "CONNECT" /\ job'[w].pc = "compare"
  BY <1>1, Gone DEF TypeOK, Places
<1>3. Connects
  BY <1>1 DEF Connects, Connecting
<1>4. ~ConnectDue /\ ~Attempts /\ ~DelayDue /\ ~Delays /\ ~Reading /\ ~Nothing /\ status = "BROKEN"
  BY <1>3 DEF Alone, Exclusive, Nothing, Linked
<1>5. /\ ConnectDue' = ConnectDue /\ DelayDue' = DelayDue /\ Once' = Once /\ Closer' = Closer
      /\ Reading' = Reading
  BY <1>1 DEF ConnectDue, DelayDue, Once, Closer, Reading
<1>6. ~Connects' /\ ~Delays' /\ ~Between
  BY <1>1, <1>2 DEF Connects, Delays, Connecting, Delaying, Between
<1>7. \A v \in Threads : /\ JobShape(job'[v]) /\ job'[v].kind # "DELAY_CLOSE"
                         /\ job'[v].pc \notin {"lock", "do_start", "started", "stop_timers", "set_delay"}
  BY <1>1, <1>2 DEF JobShape
<1>8. Exclusive' /\ Linked' /\ Once'
  BY <1>1, <1>4, <1>5, <1>6 DEF Exclusive, Linked, Alone
<1> QED BY <1>1, <1>4, <1>5, <1>6, <1>7, <1>8, Passed

(* The callback of TIMER_CONNECT_DELAY waits, ...                            *)
LEMMA KeptByConnectDelay ==
    ASSUME OneThread, TypeOK, Alone, NEW w \in Threads, ConnectDelay(w)
    PROVE  Alone'
<1>1. /\ UNCHANGED <<started, conn, timer, status, read, rwQ>>
      /\ job[w].kind = "CONNECT_DELAY" /\ job[w].pc = "callback" /\ job \in [Threads -> Jobs]
  BY DEF ConnectDelay, flagVars, netVars, At, TypeOK
<1>2. PICK pc \in {"again", "prepare"} : Goto(w, pc)
  BY DEF ConnectDelay
<1>3. job'[w].pc = pc /\ job'[w].kind = "CONNECT_DELAY" /\ pc \in Places
  BY <1>1, <1>2, Gone DEF Places
<1>4. JobSound(job'[w])
  BY <1>3 DEF JobSound, JobShape
<1>5. Reading' => Reading
  BY <1>1 DEF Reading
<1> QED BY <1>1, <1>2, <1>3, <1>4, <1>5, GoesOn

(* ... and sets TIMER_CONNECT.                                               *)
LEMMA KeptByPrepare ==
    ASSUME OneThread, TypeOK, Alone, NEW w \in Threads, PrepareNextReconnect(w)
    PROVE  Alone'
<1>1. /\ UNCHANGED <<started, status, read>> /\ Goto(w, "compare")
      /\ job[w].kind = "CONNECT_DELAY" /\ job[w].pc = "prepare" /\ \A v \in Threads : v = w
      /\ job \in [Threads -> Jobs] /\ rwQ \in Seq(Tasks)
  BY DEF PrepareNextReconnect, flagVars, At, OneThread, TypeOK, Tasks
<1>2. job'[w].kind = "CONNECT_DELAY" /\ job'[w].pc = "compare" /\ "compare" \in Places
  BY <1>1, Gone DEF Places
<1>3. CASE CloseLayer /\ SetTimer("CONNECT") /\ UNCHANGED rwQ
  <2>1. Delays
    BY <1>1 DEF Delays, Delaying
  <2>2. ~ConnectDue /\ ~Connects /\ ~Attempts /\ ~DelayDue /\ ~Reading /\ ~Nothing /\ status = "BROKEN"
    BY <2>1 DEF Alone, Exclusive, Nothing, Linked
  <2>3. TimersOK /\ "CONNECT_DELAY" \in Timers /\ "CONNECT" \in Timers /\ "DELAY_CLOSE" \in Timers
    BY DEF TypeOK, TimersOK, Timers
  <2>4. /\ timer'["CONNECT"].wait /\ timer'["CONNECT"].due = Start(timer["CONNECT"]).due
        /\ timer'["CONNECT_DELAY"] = timer["CONNECT_DELAY"] /\ Closer' = Closer
        /\ timer["CONNECT"] \in TimerInfos
    BY <1>3, <2>3, TimerSet DEF Closer, TimersOK
  <2>5. FiresOnce(timer'["CONNECT"])
    BY <2>2, <2>4, SetFires DEF ConnectDue
  <2>6. Once' /\ DelayDue' = DelayDue /\ Reading' = Reading /\ ~Attempts'
    BY <1>1, <1>3, <2>2, <2>4, <2>5 DEF Once, DelayDue, Reading, Alone, Attempts, CloseLayer
  <2>7. ~Connects' /\ ~Delays' /\ ~Between
    BY <1>1, <1>2 DEF Connects, Delays, Connecting, Delaying, Between
  <2>8. \A v \in Threads : /\ JobShape(job'[v]) /\ job'[v].kind # "DELAY_CLOSE"
                           /\ job'[v].pc \notin {"lock", "do_start", "started", "stop_timers", "set_delay"}
    BY <1>1, <1>2 DEF JobShape
  <2>9. Exclusive' /\ Linked'
    BY <1>1, <2>2, <2>6, <2>7 DEF Exclusive, Linked
  <2> QED BY <1>1, <2>2, <2>4, <2>6, <2>7, <2>8, <2>9, Passed
<1>4. CASE rwQ' = Append(rwQ, "force") /\ UNCHANGED <<netVars, timer>>
  <2>1. Reading' => Reading
    BY <1>1, <1>4, QueuedShutdown
  <2>2. JobSound(job'[w])
    BY <1>2 DEF JobSound, JobShape
  <2> QED BY <1>1, <1>2, <1>4, <2>1, <2>2, GoesOn DEF netVars
<1> QED BY <1>3, <1>4 DEF PrepareNextReconnect

-----------------------------------------------------------------------------
(* The end of a socket.                                                      *)

LEMMA KeptByShutdownHandler ==
    ASSUME OneThread, TypeOK, Alone, NEW w \in Threads, ShutdownHandler(w)
    PROVE  Alone'
<1>1. /\ UNCHANGED <<started, conn, timer, status, read, rwQ>>
      /\ job[w].kind = "ASYNC_SHUTDOWN" /\ job[w].pc = "callback" /\ job \in [Threads -> Jobs]
      /\ job[w] \in Jobs /\ need_reconnect \in BOOLEAN
  BY DEF ShutdownHandler, flagVars, netVars, At, TypeOK
<1>2. Reading' => Reading
  BY <1>1 DEF Reading
<1>3. ASSUME NEW pc \in {"again", "compare"}, Goto(w, pc) PROVE Alone'
  <2>1. job'[w].pc = pc /\ job'[w].kind = "ASYNC_SHUTDOWN"
    BY <1>1, <1>3, Gone DEF Places
  <2>2. JobSound(job'[w]) /\ ~Connecting(job'[w]) /\ ~Delaying(job'[w])
    BY <2>1 DEF JobSound, JobShape, Connecting, Delaying
  <2> QED BY <1>1, <1>2, <2>2, JobStep
<1>4. ASSUME job' = [job EXCEPT ![w].pc = "force_shutdown", ![w].reconnect = need_reconnect] PROVE Alone'
  <2>1. PICK new : new = [job[w] EXCEPT !.pc = "force_shutdown", !.reconnect = need_reconnect]
    OBVIOUS
  <2>2. new \in Jobs /\ new.pc = "force_shutdown" /\ new.kind = "ASYNC_SHUTDOWN"
    BY ONLY <1>1, <2>1 DEF Jobs
  <2>3. job'[w] = new
    BY <1>1, <1>4, <2>1
  <2>4. JobSound(new) /\ ~Connecting(new) /\ ~Delaying(new)
    BY <2>2 DEF JobSound, JobShape, Connecting, Delaying
  <2> QED BY <1>1, <1>2, <2>3, <2>4, JobStep
<1> QED BY <1>3, <1>4 DEF ShutdownHandler

(* TIMER_DELAY_CLOSE finds nothing, or stops the other timers and waits.     *)
LEMMA KeptByDelayClose ==
    ASSUME OneThread, TypeOK, Alone, NEW w \in Threads, DelayClose(w)
    PROVE  Alone'
<1>1. /\ UNCHANGED <<started, conn, status, read, rwQ>> /\ job \in [Threads -> Jobs]
      /\ job[w].kind = "DELAY_CLOSE" /\ job[w].pc = "callback" /\ JobSound(job[w])
      /\ \A v \in Threads : v = w
  BY DEF DelayClose, flagVars, netVars, At, TypeOK, Alone, JobsSound, OneThread
<1>2. AtRest(Closer) /\ Closing
  BY <1>1 DEF JobSound
<1>3. Reading' => Reading
  BY <1>1 DEF Reading
<1>4. ASSUME NEW pc \in {"on_close", "again"}, Goto(w, pc)
      PROVE  job'[w].pc = pc /\ job'[w].kind = "DELAY_CLOSE" /\ pc \in Places
  BY <1>1, <1>4, Gone DEF Places
<1>5. CASE OthersDone(w) /\ Goto(w, "on_close") /\ UNCHANGED timer
  <2>1. ~ConnectDue /\ ~DelayDue
    <3>1. AtRest(timer["CONNECT"]) /\ AtRest(timer["CONNECT_DELAY"])
      BY <1>5 DEF OthersDone, Timers
    <3> QED BY <3>1 DEF AtRest, ConnectDue, DelayDue, Fires
  <2>2. ~Connects /\ ~Delays /\ ~Attempts /\ ~Reading
    BY <1>1, <1>5 DEF Connects, Delays, Connecting, Delaying, Attempts, Reading, OthersDone
  <2>3. JobSound(job'[w])
    BY <1>2, <1>4, <1>5, <2>1, <2>2 DEF JobSound, JobShape, Nothing
  <2> QED BY <1>1, <1>3, <1>4, <1>5, <2>3, GoesOn
<1>6. CASE StopAllBut({"DELAY_CLOSE"}) /\ Goto(w, "again")
  <2>1. Once' /\ (ConnectDue' => ConnectDue) /\ (DelayDue' => DelayDue) /\ Closer' = Closer
    BY <1>6, StoppedKept
  <2>2. JobSound(job'[w])
    BY <1>2, <1>4, <1>6 DEF JobSound, JobShape
  <2>3. ~Connects' /\ ~Delays' /\ ~Between
    BY <1>1, <1>4, <1>6 DEF Connects, Delays, Connecting, Delaying, Between
  <2>4. Attempts' => Attempts
    BY <1>1 DEF Attempts
  <2> QED BY <1>1, <1>3, <2>1, <2>2, <2>3, <2>4, Kept
<1> QED BY <1>5, <1>6 DEF DelayClose

LEMMA KeptByOnClose ==
    ASSUME OneThread, TypeOK, Alone, NEW w \in Threads, OnClose(w)
    PROVE  Alone'
<1>1. /\ UNCHANGED <<started, timer, read, rwQ>> /\ job \in [Threads -> Jobs]
      /\ status' = "BROKEN" /\ CloseLayer /\ Goto(w, "cancelled")
      /\ job[w].kind = "DELAY_CLOSE" /\ job[w].pc = "on_close" /\ JobSound(job[w])
      /\ \A v \in Threads : v = w
  BY DEF OnClose, flagVars, At, TypeOK, Alone, JobsSound, OneThread
<1>2. AtRest(Closer) /\ Closing /\ Nothing
  BY <1>1 DEF JobSound
<1>3. job'[w].pc = "cancelled" /\ job'[w].kind = "DELAY_CLOSE"
  BY <1>1, Gone DEF Places
<1>4. /\ ConnectDue' = ConnectDue /\ DelayDue' = DelayDue /\ Reading' = Reading
      /\ Once' = Once /\ Closer' = Closer
  BY <1>1 DEF ConnectDue, DelayDue, Reading, Once, Closer
<1>5. ~Attempts'
  BY <1>1, <1>2 DEF Attempts, Nothing, CloseLayer
<1>6. Nothing'
  BY <1>1, <1>2, <1>3, <1>4, <1>5 DEF Nothing, Connects, Delays, Connecting, Delaying
<1>7. Closing' /\ CloserSound'
  BY <1>1, <1>2, <1>4 DEF Alone, Closing, CloserSound
<1>8. JobSound(job[w])'
  BY <1>1, <1>2, <1>3, <1>4, <1>6, <1>7 DEF JobSound, JobShape
<1>9. Exclusive' /\ Linked' /\ Closed'
  BY <1>1, <1>6, <1>7 DEF Exclusive, Linked, Closed, Nothing
<1> QED BY <1>1, <1>4, <1>7, <1>8, <1>9 DEF Alone, JobsSound

LEMMA KeptByChangeTimerStatus ==
    ASSUME OneThread, TypeOK, Alone, NEW w \in Threads, ChangeTimerStatus(w)
    PROVE  Alone'
<1>1. /\ UNCHANGED <<started, conn, status, read, rwQ>> /\ job \in [Threads -> Jobs]
      /\ timer' = [timer EXCEPT !["DELAY_CLOSE"].status = "CANCELED"] /\ Goto(w, "after_close")
      /\ job[w].kind = "DELAY_CLOSE" /\ job[w].pc = "cancelled" /\ JobSound(job[w])
      /\ \A v \in Threads : v = w
  BY DEF ChangeTimerStatus, flagVars, netVars, At, TypeOK, Alone, JobsSound, OneThread
<1>2. AtRest(Closer) /\ Closing /\ Nothing /\ status = "BROKEN"
  BY <1>1 DEF JobSound
<1>3. job'[w].pc = "after_close" /\ job'[w].kind = "DELAY_CLOSE"
  BY <1>1, Gone DEF Places
<1>4. /\ ~Closing' /\ Closer'.wait = Closer.wait /\ Closer'.due = Closer.due
      /\ timer'["CONNECT"] = timer["CONNECT"] /\ timer'["CONNECT_DELAY"] = timer["CONNECT_DELAY"]
  BY <1>1, TimerMarked DEF Closing, Closer, TypeOK, TimersOK, Timers
<1>5. /\ ConnectDue' = ConnectDue /\ DelayDue' = DelayDue /\ Reading' = Reading /\ Once' = Once
      /\ Attempts' = Attempts
  BY <1>1, <1>4 DEF ConnectDue, DelayDue, Reading, Once, Attempts
<1>6. Nothing'
  BY <1>1, <1>2, <1>3, <1>5 DEF Nothing, Connects, Delays, Connecting, Delaying
<1>7. AtRest(Closer') /\ CloserSound'
  BY <1>2, <1>4 DEF Alone, AtRest, CloserSound
<1>8. JobSound(job[w])'
  BY <1>3, <1>4, <1>7 DEF JobSound, JobShape
<1>9. Exclusive' /\ Linked' /\ Closed'
  BY <1>1, <1>2, <1>6 DEF Exclusive, Linked, Closed, Nothing
<1> QED BY <1>1, <1>5, <1>7, <1>8, <1>9 DEF Alone, JobsSound

LEMMA KeptByAfterClose ==
    ASSUME OneThread, TypeOK, Alone, NEW w \in Threads, AfterClose(w) \/ Obsolete(w)
    PROVE  Alone'
<1>1. /\ UNCHANGED <<started, conn, status, timer, read, rwQ>> /\ job \in [Threads -> Jobs]
      /\ job[w].kind = "DELAY_CLOSE" /\ job[w].pc \in {"after_close", "obsolete"} /\ JobSound(job[w])
  BY DEF AfterClose, Obsolete, flagVars, netVars, At, TypeOK, Alone, JobsSound
<1>2. PICK pc \in {"start", "obsolete", "compare"} : Goto(w, pc)
  BY DEF AfterClose, Obsolete
<1>3. job'[w].pc = pc /\ job'[w].kind = "DELAY_CLOSE" /\ pc \in Places
  BY <1>1, <1>2, Gone DEF Places
<1>4. JobSound(job'[w])
  BY <1>1, <1>3 DEF JobSound, JobShape, Starting
<1>5. Reading' => Reading
  BY <1>1 DEF Reading
<1> QED BY <1>1, <1>2, <1>3, <1>4, <1>5, GoesOn

-----------------------------------------------------------------------------
(* Timers.                                                                   *)

(* A callback has asked for its timer once more.                             *)
LEMMA KeptByAgain ==
    ASSUME OneThread, TypeOK, Alone, NEW w \in Threads, NEW id \in Timers, Again(w, id)
    PROVE  Alone'
<1>1. /\ UNCHANGED <<started, conn, status, read, rwQ>> /\ job \in [Threads -> Jobs]
      /\ job[w].kind = id /\ job[w].pc = "again" /\ JobSound(job[w]) /\ \A v \in Threads : v = w
      /\ TimersOK
  BY DEF Again, flagVars, netVars, At, TypeOK, Alone, JobsSound, OneThread, TimersOK
<1>2. id \in {"CONNECT_DELAY", "ASYNC_SHUTDOWN", "DELAY_CLOSE"}
  BY <1>1 DEF JobSound, JobShape, Starting, Timers
<1>3. Reading' => Reading
  BY <1>1 DEF Reading
<1>4. CASE Goto(w, "compare") /\ UNCHANGED timer /\ timer[id].status # "STARTED"
  <2>1. job'[w].pc = "compare" /\ job'[w].kind = id /\ "compare" \in Places
    BY <1>1, <1>4, Gone DEF Places
  <2>2. JobSound(job'[w])
    BY <1>1, <1>2, <1>4, <2>1 DEF JobSound, JobShape, Closing, Closer
  <2> QED BY <1>1, <1>3, <1>4, <2>1, <2>2, GoesOn
<1>5. ASSUME SetTimer(id), Done(w), timer[id].status = "STARTED" PROVE Alone'
  <2>1. job'[w] = Idle
    BY <1>1, <1>5, IsDone
  <2>2. JobSound(job'[w]) /\ ~Connecting(job'[w]) /\ ~Delaying(job'[w])
    BY <2>1, IdleFields DEF JobSound, JobShape, Connecting, Delaying
  <2>3. \A other \in Timers : other # id => timer'[other] = timer[other]
    BY <1>1, <1>5, TimerSet
  <2>4. CASE id = "DELAY_CLOSE"
    <3>1. AtRest(Closer) /\ ~started
      BY <1>1, <1>5, <2>4 DEF JobSound, Alone, CloserSound, Closing, Closer
    <3> QED BY <1>1, <1>5, <2>1, <2>4, <3>1, CloserSet
  <2>5. CASE id = "ASYNC_SHUTDOWN"
    <3>1. \A other \in {"CONNECT", "CONNECT_DELAY", "DELAY_CLOSE"} : timer'[other] = timer[other]
      BY <2>3, <2>5 DEF Timers
    <3> QED BY <1>1, <1>3, <2>2, <3>1, JobStep
  <2>6. CASE id = "CONNECT_DELAY"
    <3>1. Delays
      BY <1>1, <2>6 DEF Delays, Delaying
    <3>2. ~ConnectDue /\ ~Connects /\ ~Attempts /\ ~DelayDue /\ ~Reading /\ ~Nothing /\ status = "BROKEN"
      BY <3>1 DEF Alone, Exclusive, Nothing, Linked
    <3>3. /\ timer'[id].wait /\ timer'[id].due = Start(timer[id]).due /\ timer[id] \in TimerInfos
          /\ timer'["CONNECT"] = timer["CONNECT"] /\ Closer' = Closer
      BY <1>1, <1>5, <2>3, <2>6, TimerSet DEF Closer, TimersOK, Timers
    <3>4. FiresOnce(timer'["CONNECT_DELAY"])
      BY <2>6, <3>2, <3>3, SetFires DEF DelayDue
    <3>5. Once' /\ ConnectDue' = ConnectDue /\ Attempts' = Attempts
      BY <1>1, <3>3, <3>4 DEF Once, ConnectDue, Attempts, Alone
    <3>6. ~Connects' /\ ~Delays' /\ ~Between
      BY <1>1, <2>2 DEF Connects, Delays, Between
    <3>7. Exclusive' /\ Linked'
      BY <1>1, <1>3, <3>2, <3>5, <3>6 DEF Exclusive, Linked
    <3>8. \A v \in Threads : /\ JobShape(job'[v]) /\ job'[v].kind # "DELAY_CLOSE"
                             /\ job'[v].pc \notin {"lock", "do_start", "started", "stop_timers", "set_delay"}
      BY <1>1, <2>1, IdleFields DEF JobShape
    <3> QED BY <1>1, <3>2, <3>3, <3>5, <3>6, <3>7, <3>8, Passed
  <2> QED BY <1>2, <2>4, <2>5, <2>6
<1> QED BY <1>4, <1>5 DEF Again

LEMMA KeptByCompare ==
    ASSUME OneThread, TypeOK, Alone, NEW w \in Threads, NEW id \in Timers, Compare(w, id)
    PROVE  Alone'
<1>1. /\ UNCHANGED <<started, conn, status, timer, read, rwQ>> /\ job \in [Threads -> Jobs]
      /\ job[w].kind = id /\ job[w].pc = "compare" /\ JobSound(job[w])
  BY DEF Compare, flagVars, netVars, At, TypeOK, Alone, JobsSound
<1>2. Reading' => Reading
  BY <1>1 DEF Reading
<1>3. CASE Done(w)
  BY <1>1, <1>2, <1>3, GoesOn
<1>4. CASE Goto(w, "cancel")
  <2>1. job'[w].pc = "cancel" /\ job'[w].kind = id /\ "cancel" \in Places
    BY <1>1, <1>4, Gone DEF Places
  <2>2. JobSound(job'[w])
    BY <1>1, <2>1 DEF JobSound, JobShape, Starting, Timers
  <2> QED BY <1>1, <1>2, <1>4, <2>1, <2>2, GoesOn
<1> QED BY <1>3, <1>4 DEF Compare

LEMMA KeptByCancel ==
    ASSUME OneThread, TypeOK, Alone, NEW w \in Threads, NEW id \in Timers, Cancel(w, id)
    PROVE  Alone'
<1>1. /\ UNCHANGED <<started, conn, status, read, rwQ>> /\ job \in [Threads -> Jobs]
      /\ job[w].kind = id /\ job[w].pc = "cancel" /\ JobSound(job[w]) /\ Done(w)
      /\ timer' = [timer EXCEPT ![id].status = "CANCELED"] /\ TimersOK /\ \A v \in Threads : v = w
  BY DEF Cancel, flagVars, netVars, At, TypeOK, Alone, JobsSound, OneThread, TimersOK
<1>2. \A other \in Timers : /\ timer'[other].wait = timer[other].wait
                            /\ timer'[other].due = timer[other].due
                            /\ other # id => timer'[other] = timer[other]
  BY <1>1, TimerMarked
<1>3. \A other \in Timers : /\ Fires(timer'[other]) <=> Fires(timer[other])
                            /\ FiresOnce(timer'[other]) <=> FiresOnce(timer[other])
  BY <1>2 DEF Fires, FiresOnce
<1>4. (ConnectDue' => ConnectDue) /\ (DelayDue' => DelayDue) /\ Once'
  BY <1>3 DEF ConnectDue, DelayDue, Once, Alone, Timers
<1>5. Closer'.wait = Closer.wait /\ Closer'.due = Closer.due
  BY <1>2 DEF Closer, Timers
<1>6. Closing' <=> Closing
  <2>1. CASE id = "DELAY_CLOSE"
    <3>1. ~Closing
      BY <1>1, <2>1 DEF JobSound
    <3>2. timer'[id].status = "CANCELED"
      BY <1>1, TimerMarked
    <3> QED BY <2>1, <3>1, <3>2 DEF Closing, Closer
  <2>2. CASE id # "DELAY_CLOSE"
    BY <1>2, <2>2 DEF Closing, Closer, Timers
  <2> QED BY <2>1, <2>2
<1>7. job'[w] = Idle
  BY <1>1, IsDone
<1>8. JobSound(job'[w]) /\ ~Connects' /\ ~Delays' /\ ~Between
  BY <1>1, <1>7, IdleFields DEF JobSound, JobShape, Connects, Delays, Connecting, Delaying, Between
<1>9. (Reading' => Reading) /\ (Attempts' => Attempts)
  BY <1>1 DEF Reading, Attempts
<1> QED BY <1>1, <1>4, <1>5, <1>6, <1>8, <1>9, KeptSo

(* A handler begins: it calls the callback when its timer is started and it  *)
(* was not cancelled.                                                        *)
LEMMA HandlerBegun ==
    ASSUME TypeOK, NEW w \in Workers, NEW id \in Timers, BeginHandler(w, id)
    PROVE  /\ job' \in [Threads -> Jobs] /\ job'[w] \in Jobs /\ job'[w].kind = id
           /\ job'[w].pc \in {"callback", "compare"}
           /\ job'[w].pc = "callback" <=>
                 timer[id].status = "STARTED" /\ ~Head(timer[id].due).cancelled
<1>1. /\ w \in Threads /\ job \in [Threads -> Jobs]
      /\ Head(timer[id].due).prev_seq \in Nat
  BY HandlerTaken DEF BeginHandler, TypeOK, TimersOK, Threads
<1>2. PICK n \in Nat, pc \in {"callback", "compare"} :
         /\ job' = [job EXCEPT ![w] = [Idle EXCEPT !.kind = id, !.prev_seq = n, !.pc = pc]]
         /\ pc = "callback" <=> timer[id].status = "STARTED" /\ ~Head(timer[id].due).cancelled
  BY <1>1 DEF BeginHandler
<1>3. PICK new : new = [Idle EXCEPT !.kind = id, !.prev_seq = n, !.pc = pc]
  OBVIOUS
<1>4. new \in Jobs /\ new.kind = id /\ new.pc = pc
  BY <1>3 DEF Idle, Jobs
<1> QED BY <1>1, <1>2, <1>3, <1>4

LEMMA KeptByBeginHandler ==
    ASSUME OneThread, TypeOK, Alone, NEW w \in Workers, NEW id \in Timers, BeginHandler(w, id)
    PROVE  Alone'
<1>1. /\ UNCHANGED <<started, conn, status, read, rwQ>> /\ w \in Threads /\ \A v \in Threads : v = w
      /\ job[w] = Idle /\ timer[id].due # <<>> /\ TimersOK /\ timer[id] \in TimerInfos
      /\ timer' = [timer EXCEPT ![id].due = Tail(timer[id].due)]
  BY DEF BeginHandler, flagVars, netVars, Free, TypeOK, OneThread, TimersOK, Threads
<1>2. /\ job'[w].kind = id /\ job'[w].pc \in {"callback", "compare"}
      /\ job'[w].pc = "callback" <=>
            timer[id].status = "STARTED" /\ ~Head(timer[id].due).cancelled
  BY HandlerBegun
<1>3. /\ timer'[id] = [timer[id] EXCEPT !.due = Tail(timer[id].due)]
      /\ timer'[id].due = Tail(timer[id].due)
      /\ timer'[id].status = timer[id].status /\ timer'[id].wait = timer[id].wait
      /\ timer[id].due \in Seq(Handlers) /\ Head(timer[id].due) = timer[id].due[1]
      /\ 1 \in DOMAIN timer[id].due
      /\ \A other \in Timers : other # id => timer'[other] = timer[other]
  BY <1>1, HandlerTaken
<1>4. Reading' = Reading /\ Attempts' = Attempts /\ ~Connects /\ ~Delays /\ ~Between
  BY <1>1, IdleFields DEF Reading, Attempts, Connects, Delays, Connecting, Delaying, Between
<1>5. FiresOnce(timer[id]) =>
         /\ FiresOnce(timer'[id]) /\ (Fires(timer'[id]) => Fires(timer[id]))
         /\ ~Head(timer[id].due).cancelled => Fires(timer[id]) /\ ~Fires(timer'[id])
  BY <1>1, <1>3, BegunFires
<1>6. id # "DELAY_CLOSE" => JobShape(job'[w])
  BY <1>2 DEF JobShape, Timers
<1>7. CASE id \in {"CONNECT", "CONNECT_DELAY"}
  <2>1. /\ FiresOnce(timer'[id]) /\ (Fires(timer'[id]) => Fires(timer[id]))
        /\ ~Head(timer[id].due).cancelled => Fires(timer[id]) /\ ~Fires(timer'[id])
    BY <1>5, <1>7 DEF Alone, Once
  <2>2. (ConnectDue' => ConnectDue) /\ (DelayDue' => DelayDue) /\ Once' /\ Closer' = Closer
    BY <1>3, <1>7, <2>1 DEF ConnectDue, DelayDue, Once, Closer, Alone, Timers
  <2>3. CASE job'[w].pc = "compare"
    <3>1. ~Connects' /\ ~Delays'
      BY <1>1, <1>2, <2>3 DEF Connects, Delays, Connecting, Delaying
    <3>2. JobSound(job'[w])
      BY <1>2, <1>6, <1>7, <2>3 DEF JobSound
    <3> QED BY <1>1, <1>4, <2>2, <3>1, <3>2, Kept
  <2>4. CASE job'[w].pc = "callback"
    <3>1. Fires(timer[id]) /\ ~Fires(timer'[id])
      BY <1>2, <2>1, <2>4
    <3>2. \A v \in Threads : /\ JobShape(job'[v]) /\ job'[v].kind # "DELAY_CLOSE"
                             /\ job'[v].pc \notin {"lock", "do_start", "started", "stop_timers", "set_delay"}
      BY <1>1, <1>2, <1>6, <1>7, <2>4
    <3>3. CASE id = "CONNECT"
      <4>1. ConnectDue /\ ~ConnectDue'
        BY <3>1, <3>3 DEF ConnectDue
      <4>2. ~Attempts /\ ~DelayDue /\ ~Reading /\ ~Nothing /\ status = "BROKEN" /\ ~Delays'
        BY <1>1, <1>2, <3>3, <4>1 DEF Alone, Exclusive, Nothing, Linked, Delays, Delaying
      <4>3. Exclusive' /\ Linked'
        BY <1>1, <1>4, <2>2, <4>1, <4>2 DEF Exclusive, Linked
      <4> QED BY <1>1, <1>4, <2>2, <3>2, <4>2, <4>3, Passed
    <3>4. CASE id = "CONNECT_DELAY"
      <4>1. DelayDue /\ ~DelayDue'
        BY <3>1, <3>4 DEF DelayDue
      <4>2. ~ConnectDue /\ ~Attempts /\ ~Reading /\ ~Nothing /\ status = "BROKEN" /\ ~Connects'
        BY <1>1, <1>2, <3>4, <4>1 DEF Alone, Exclusive, Nothing, Linked, Connects, Connecting
      <4>3. Exclusive' /\ Linked'
        BY <1>1, <1>4, <2>2, <4>1, <4>2 DEF Exclusive, Linked
      <4> QED BY <1>1, <1>4, <2>2, <3>2, <4>2, <4>3, Passed
    <3> QED BY <1>7, <3>3, <3>4
  <2> QED BY <1>2, <2>3, <2>4
<1>8. CASE id = "ASYNC_SHUTDOWN"
  <2>1. \A other \in {"CONNECT", "CONNECT_DELAY", "DELAY_CLOSE"} : timer'[other] = timer[other]
    BY <1>3, <1>8 DEF Timers
  <2>2. JobSound(job'[w]) /\ ~Connecting(job'[w]) /\ ~Delaying(job'[w])
    BY <1>2, <1>6, <1>8 DEF JobSound, Connecting, Delaying
  <2> QED BY <1>1, <1>4, <2>1, <2>2, IdleFields, JobStep
<1>9. CASE id = "DELAY_CLOSE"
  <2>1. timer'["CONNECT"] = timer["CONNECT"] /\ timer'["CONNECT_DELAY"] = timer["CONNECT_DELAY"]
    BY <1>3, <1>9 DEF Timers
  <2>2. /\ ConnectDue' = ConnectDue /\ DelayDue' = DelayDue /\ Once'
        /\ Closer = timer[id] /\ Closer' = timer'[id]
    BY <1>9, <2>1 DEF ConnectDue, DelayDue, Once, Alone, Closer
  <2>3. Closing /\ ~Closer.wait /\ ~started /\ Len(Closer.due) <= 1 /\ ~Closer.due[1].cancelled
    BY <1>1, <1>3, <2>2 DEF Alone, CloserSound, AtRest, Closing
  <2>4. Closer'.due = <<>> /\ ~Closer'.wait /\ Closing'
    BY <1>3, <2>2, <2>3 DEF Closing
  <2>5. job'[w].pc = "callback"
    BY <1>2, <1>3, <2>2, <2>3 DEF Closing
  <2>6. CloserSound' /\ AtRest(Closer')
    BY <1>1, <2>3, <2>4 DEF CloserSound, AtRest
  <2>7. JobSound(job[w])' /\ ~Connects' /\ ~Delays'
    BY <1>1, <1>2, <1>9, <2>4, <2>5, <2>6 DEF JobSound, JobShape, Connects, Delays, Connecting, Delaying
  <2>8. Exclusive' /\ Linked' /\ Closed'
    BY <1>1, <1>4, <2>2, <2>4, <2>7 DEF Alone, Exclusive, Linked, Closed
  <2> QED BY <1>1, <2>2, <2>6, <2>7, <2>8 DEF Alone, JobsSound
<1> QED BY <1>7, <1>8, <1>9 DEF Timers

LEMMA KeptByExpire ==
    ASSUME TypeOK, Alone, NEW id \in Timers, Expire(id)
    PROVE  Alone'
<1>1. /\ UNCHANGED <<started, conn, status, read, rwQ, job>> /\ TimersOK /\ timer[id] \in TimerInfos
      /\ timer[id].wait /\ timer' = [timer EXCEPT ![id] = Complete(timer[id], FALSE)]
  BY DEF Expire, flagVars, netVars, TypeOK, TimersOK
<1>2. /\ Complete(timer[id], FALSE) \in TimerInfos /\ timer'[id] = Complete(timer[id], FALSE)
      /\ timer'[id].status = timer[id].status /\ ~timer'[id].wait
      /\ timer'[id].due = Append(timer[id].due, [prev_seq |-> timer[id].seq, cancelled |-> FALSE])
      /\ \A other \in Timers : other # id => timer'[other] = timer[other]
  <2>1. /\ Complete(timer[id], FALSE) \in TimerInfos
        /\ Complete(timer[id], FALSE).seq = timer[id].seq
        /\ Complete(timer[id], FALSE).status = timer[id].status
        /\ ~Complete(timer[id], FALSE).wait
        /\ Complete(timer[id], FALSE).due =
              Append(timer[id].due, [prev_seq |-> timer[id].seq, cancelled |-> FALSE])
    BY <1>1, Completed
  <2>2. timer'[id] = Complete(timer[id], FALSE) /\ \A other \in Timers : other # id => timer'[other] = timer[other]
    BY <1>1 DEF TimersOK
  <2> QED BY ONLY <2>1, <2>2
<1>3. FiresOnce(timer[id]) => FiresOnce(timer'[id]) /\ Fires(timer[id])
  BY <1>1, <1>2, ExpiredFires DEF Fires
<1>4. /\ Connects' = Connects /\ Delays' = Delays /\ Between' = Between /\ Reading' = Reading
      /\ Attempts' = Attempts
  BY <1>1 DEF Connects, Delays, Between, Reading, Attempts
<1>5. \A w \in Threads : JobSound(job'[w])
  BY <1>1 DEF Alone, JobsSound
<1>6. (ConnectDue' => ConnectDue) /\ (DelayDue' => DelayDue) /\ Once'
  BY <1>2, <1>3 DEF ConnectDue, DelayDue, Once, Alone, Timers
<1>7. CASE id # "DELAY_CLOSE"
  <2>1. Closer' = Closer
    BY <1>2, <1>7 DEF Closer, Timers
  <2> QED BY <1>1, <1>4, <1>5, <1>6, <2>1, Kept
<1>8. CASE id = "DELAY_CLOSE"
  <2>1. Closer = timer[id] /\ Closer' = timer'[id]
    BY <1>8 DEF Closer
  <2>2. PICK h : h = [prev_seq |-> timer[id].seq, cancelled |-> FALSE]
    OBVIOUS
  <2>3. /\ Closing /\ ~started /\ ~AtRest(Closer)
        /\ Len(Closer'.due) = 1 /\ \A i \in DOMAIN Closer'.due : ~Closer'.due[i].cancelled
    <3>1. Closer.due = <<>> /\ Closing /\ ~started /\ ~AtRest(Closer)
      BY <1>1, <2>1 DEF Alone, CloserSound, AtRest
    <3>2. Closer'.due = Append(<<>>, h) /\ ~h.cancelled
      BY <1>2, <2>1, <2>2, <3>1
    <3>3. Append(<<>>, h) = <<h>>
      OBVIOUS
    <3>4. Len(Closer'.due) = 1 /\ \A i \in DOMAIN Closer'.due : Closer'.due[i] = h
      BY <3>2, <3>3
    <3> QED BY <3>1, <3>2, <3>4
  <2>4. Closing'
    BY <1>2, <2>1, <2>3 DEF Closing
  <2>5. CloserSound'
    <3>1. ~Closer'.wait /\ ~started'
      BY <1>1, <1>2, <2>1, <2>3
    <3> QED BY <2>3, <2>4, <3>1 DEF CloserSound
  <2>6. JobsSound'
    <3> SUFFICES ASSUME NEW w \in Threads PROVE JobSound(job[w])'
      BY DEF JobsSound
    <3>1. JobSound(job[w]) /\ job[w].kind # "DELAY_CLOSE"
      BY <1>5, <1>1, <2>3 DEF JobSound
    <3> QED BY <1>1, <2>3, <2>4, <3>1 DEF JobSound
  <2>7. Exclusive' /\ Linked' /\ Closed'
    BY <1>1, <1>4, <1>6, <2>4 DEF Alone, Exclusive, Linked, Closed
  <2> QED BY <1>6, <2>5, <2>6, <2>7 DEF Alone
<1> QED BY <1>7, <1>8

-----------------------------------------------------------------------------

LEMMA KeptByWork ==
    ASSUME OneThread, TypeOK, Alone, NEW w \in Threads, Work(w)
    PROVE  Alone'
<1>1. CASE \/ StartCheck(w) \/ StartLock(w) \/ DoStart(w) \/ SetStarted(w)
           \/ CloseLock(w) \/ StopTimers(w) \/ SetDelay(w)
  BY <1>1, KeptByStart, KeptByDoStart, KeptBySetStarted, KeptByCloseLock, KeptByStopTimers, KeptBySetDelay
<1>2. CASE ForceShutdown(w) \/ GracefulShutdown(w) \/ ShutdownHandler(w)
  BY <1>2, KeptByForceShutdown, KeptByGracefulShutdown, KeptByShutdownHandler
<1>3. CASE Connect(w) \/ ConnectDelay(w) \/ PrepareNextReconnect(w)
  BY <1>3, KeptByConnect, KeptByConnectDelay, KeptByPrepare
<1>4. CASE DelayClose(w) \/ OnClose(w) \/ ChangeTimerStatus(w) \/ AfterClose(w) \/ Obsolete(w)
  BY <1>4, KeptByDelayClose, KeptByOnClose, KeptByChangeTimerStatus, KeptByAfterClose
<1>5. CASE \E id \in Timers : Again(w, id) \/ Compare(w, id) \/ Cancel(w, id)
  BY <1>5, KeptByAgain, KeptByCompare, KeptByCancel
<1> QED BY <1>1, <1>2, <1>3, <1>4, <1>5 DEF Work

LEMMA AloneNext ==
    ASSUME OneThread
    PROVE  TypeOK /\ Alone /\ [Next]_vars => Alone'
<1> SUFFICES ASSUME TypeOK, Alone, [Next]_vars PROVE Alone'
  OBVIOUS
<1>1. CASE TakeIoTask
  BY <1>1, KeptByIoTask DEF TakeIoTask
<1>2. CASE TakeConnectHandler
  BY <1>2, KeptByConnectHandler DEF TakeConnectHandler
<1>3. CASE \E id \in Timers : TakeHandler(id) \/ Expire(id)
  BY <1>3, KeptByBeginHandler, KeptByExpire DEF TakeHandler
<1>4. CASE \E w \in Threads : Work(w) \/ AppShutdown(w)
  BY <1>4, KeptByWork, KeptByAppShutdown
<1>5. CASE ConnectDone \/ ReadFails \/ UNCHANGED vars
  BY <1>5, KeptByNetwork
<1> QED BY <1>1, <1>2, <1>3, <1>4, <1>5 DEF Next

(* With one thread, a connection is attempted only when the last one is gone *)
(* altogether, whatever shutdowns met the reconnection on the way.           *)
THEOREM ConnectsAlone ==
    ASSUME SeqMod > 1, OneThread
    PROVE  Spec => []ConnectAlone
<1>1. TypeOK /\ Alone => ConnectAlone
  <2> SUFFICES ASSUME TypeOK, Alone, NEW w \in Workers, At(w, "CONNECT", "callback")
               PROVE  conn = "none" /\ ~read /\ status = "BROKEN" /\ "recv_error" \notin {rwQ[i] : i \in DOMAIN rwQ}
    BY DEF ConnectAlone
  <2>1. Connects
    BY DEF Connects, Connecting, At, Threads
  <2>2. ~Attempts /\ ~Reading /\ status = "BROKEN"
    BY <2>1 DEF Alone, Exclusive, Linked
  <2> QED BY <2>2 DEF Attempts, Reading
<1> QED BY TypeInit, TypeNext, AloneInit, AloneNext, <1>1, PTL DEF Spec
=============================================================================
