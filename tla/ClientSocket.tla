--------------------------- MODULE ClientSocket ---------------------------
(***************************************************************************)
(* The life of a TCP client socket of ascs: start, connect, break, shut    *)
(* down (by force or gracefully), close, connect again.  It is driven by   *)
(* ascs::socket (start, close, timer_handler), tcp::socket_base (the link  *)
(* status, the two shutdowns, shutdown_handler), generic_client_socket     *)
(* (need_reconnect and the two connecting timers) and tracked_executor,    *)
(* whose counter says whether any asynchronous call is left.               *)
(*                                                                         *)
(* on_close must come when nothing else of the socket is left in the       *)
(* io_context: after_close connects again at once, and object_pool resets  *)
(* or frees the socket.  Reads that succeed are the business of            *)
(* RecvDispatch and leave no trace here.  What is dispatched to rw_strand  *)
(* from outside is queued there.                                           *)
(***************************************************************************)
EXTENDS TimerInfo, Integers

CONSTANTS
    Workers,        \* service threads
    Callers,        \* threads on which the application calls the socket
    LocalAddr,      \* set_local_addr was called: connecting again binds, which may fail
    MaxBreaks,      \* bound: links the peer breaks and connections it refuses
    MaxCalls,       \* bound: calls of the application
    MaxPolls        \* bound: polls of a graceful shutdown before it is given up

ASSUME ClientAssumption ==
    LocalAddr \in BOOLEAN /\ MaxBreaks \in Nat /\ MaxCalls \in Nat /\ MaxPolls \in Nat

Timers == {"DELAY_CLOSE", "CONNECT", "CONNECT_DELAY", "ASYNC_SHUTDOWN"}
Threads == Workers \cup Callers
NoThread == "nobody"

VARIABLES
    started,        \* started_
    start_atomic,   \* who holds the lock of start() and close()
    status,         \* link_status
    need_reconnect,
    obsoleted,      \* obsoleted_
    first,          \* TIMER_CONNECT was set by do_start, not by a failed attempt
    conn,           \* async_connect: none, pending, or its handler is ready: ok, failed
    read,           \* an async_read is outstanding
    alive,          \* the connection under the socket works
    rwQ,            \* what rw_strand has to run, oldest first
    timer,
    job,            \* what each thread runs
    breaks, calls, polls

flagVars == <<started, start_atomic, need_reconnect, obsoleted>>
netVars == <<first, conn, read, alive>>
bounds == <<breaks, calls, polls>>
vars == <<flagVars, status, netVars, rwQ, timer, job, bounds>>

(* kind: rw (it holds the strand), app (a call of the application) or the    *)
(* timer whose handler runs; reconnect: the argument of the shutdown.        *)
Jobs == [kind : {"none", "rw", "app"} \cup Timers,
         pc : {"idle", "force_shutdown", "graceful_shutdown",
               "start", "lock", "do_start", "started",
               "close", "stop_timers", "set_delay",
               "callback", "prepare", "on_close", "cancelled", "after_close",
               "obsolete", "again", "compare", "cancel"},
         reconnect : BOOLEAN, prev_seq : Nat]
Idle == [kind |-> "none", pc |-> "idle", reconnect |-> FALSE, prev_seq |-> 0]

Free(w) == job[w] = Idle
At(w, kind, pc) == job[w].kind = kind /\ job[w].pc = pc
Goto(w, pc) == job' = [job EXCEPT ![w].pc = pc]
Done(w) == job' = [job EXCEPT ![w] = Idle]

Wrap(ti) == [ti EXCEPT !.seq = @ % SeqMod]    \* seq is an unsigned char
SetTimer(id) == timer' = [timer EXCEPT ![id] = Wrap(Start(@))]
StopAllBut(ids) == timer' = [id \in Timers |-> IF id \in ids THEN timer[id] ELSE Stop(timer[id])]

(* lowest_layer().close() or shutdown(): a connection attempt is aborted and *)
(* the outstanding read is going to fail.                                    *)
CloseLayer == alive' = FALSE /\ conn' = IF conn = "pending" THEN "failed" ELSE conn

(* The application has called start().                                       *)
Init ==
    /\ started = TRUE
    /\ start_atomic = NoThread
    /\ status = "BROKEN"
    /\ need_reconnect = TRUE
    /\ obsoleted = FALSE
    /\ first = TRUE
    /\ conn = "none"
    /\ read = FALSE
    /\ alive = FALSE
    /\ rwQ = <<>>
    /\ timer = [id \in Timers |-> IF id = "CONNECT" THEN Start(NewTimer) ELSE NewTimer]
    /\ job = [w \in Threads |-> Idle]
    /\ breaks = 0
    /\ calls = 0
    /\ polls = 0

-----------------------------------------------------------------------------
(* start(): !started_ && !is_timer(TIMER_DELAY_CLOSE), then the lock, which  *)
(* is tried once, then do_start() == bind() && set_timer(TIMER_CONNECT).     *)

(* bind() without a local address has nothing to do.                         *)
BindResults == IF LocalAddr THEN BOOLEAN ELSE {TRUE}

AfterStart(w) == IF job[w].kind = "DELAY_CLOSE" THEN Goto(w, "obsolete") ELSE Done(w)

StartCheck(w) ==
    /\ job[w].pc = "start"
    /\ IF ~started /\ timer["DELAY_CLOSE"].status # "STARTED"
       THEN Goto(w, "lock")
       ELSE AfterStart(w)
    /\ UNCHANGED <<flagVars, status, netVars, rwQ, timer, bounds>>

StartLock(w) ==
    /\ job[w].pc = "lock"
    /\ IF start_atomic = NoThread /\ ~started
       THEN start_atomic' = w /\ Goto(w, "do_start")
       ELSE AfterStart(w) /\ UNCHANGED start_atomic
    /\ UNCHANGED <<started, need_reconnect, obsoleted, status, netVars, rwQ, timer, bounds>>

DoStart(w) ==
    /\ job[w].pc = "do_start"
    /\ \E bound \in BindResults :
          IF bound
          THEN SetTimer("CONNECT") /\ first' = TRUE /\ Goto(w, "started") /\ UNCHANGED start_atomic
          ELSE start_atomic' = NoThread /\ AfterStart(w) /\ UNCHANGED <<timer, first>>
    /\ UNCHANGED <<started, need_reconnect, obsoleted, status, conn, read, alive, rwQ, bounds>>

SetStarted(w) ==
    /\ job[w].pc = "started"
    /\ started' = TRUE
    /\ start_atomic' = NoThread
    /\ AfterStart(w)
    /\ UNCHANGED <<need_reconnect, obsoleted, status, netVars, rwQ, timer, bounds>>

(* close(), in rw_strand: it waits for the lock, and does nothing to a       *)
(* socket that is not started.                                               *)
CloseLock(w) ==
    /\ job[w].pc = "close"
    /\ start_atomic = NoThread
    /\ started' = FALSE
    /\ IF started
       THEN start_atomic' = w /\ Goto(w, "stop_timers")
       ELSE Done(w) /\ UNCHANGED start_atomic
    /\ UNCHANGED <<need_reconnect, obsoleted, status, netVars, rwQ, timer, bounds>>

StopTimers(w) ==
    /\ job[w].pc = "stop_timers"
    /\ StopAllBut({})
    /\ CloseLayer
    /\ Goto(w, "set_delay")
    /\ UNCHANGED <<flagVars, status, first, read, rwQ, bounds>>

SetDelay(w) ==
    /\ job[w].pc = "set_delay"
    /\ SetTimer("DELAY_CLOSE")
    /\ start_atomic' = NoThread
    /\ Done(w)
    /\ UNCHANGED <<started, need_reconnect, obsoleted, status, netVars, rwQ, bounds>>

-----------------------------------------------------------------------------
(* The shutdowns.                                                            *)

(* tcp::socket_base::shutdown, in rw_strand.                                 *)
Shutdown(w) ==
    /\ status' = IF status = "BROKEN" THEN "BROKEN" ELSE "FORCE"
    /\ job' = [job EXCEPT ![w] = [Idle EXCEPT !.kind = "rw", !.pc = "close"]]

(* force_shutdown(reconnect) of the client: on a closed socket it starts,    *)
(* otherwise _force_shutdown runs in the strand, at once when called there   *)
(* (by on_recv_error).                                                       *)
ForceShutdown(w) ==
    /\ job[w].pc = "force_shutdown"
    /\ need_reconnect' = job[w].reconnect
    /\ IF job[w].reconnect /\ status = "BROKEN" /\ ~started
       THEN Goto(w, "start") /\ UNCHANGED <<status, rwQ>>
       ELSE IF job[w].kind = "rw"
       THEN /\ IF status = "FORCE" THEN Done(w) /\ UNCHANGED status ELSE Shutdown(w)
            /\ UNCHANGED rwQ
       ELSE /\ rwQ' = Append(rwQ, "force")
            /\ IF job[w].kind = "app" THEN Done(w) ELSE Goto(w, "compare")
            /\ UNCHANGED status
    /\ UNCHANGED <<started, start_atomic, obsoleted, netVars, timer, bounds>>

(* graceful_shutdown(reconnect) of the client.                               *)
GracefulShutdown(w) ==
    /\ job[w].pc = "graceful_shutdown"
    /\ need_reconnect' = job[w].reconnect
    /\ IF status = "BROKEN"
       THEN /\ Goto(w, IF job[w].reconnect /\ ~started THEN "start" ELSE "force_shutdown")
            /\ UNCHANGED rwQ
       ELSE rwQ' = Append(rwQ, "graceful") /\ Done(w)
    /\ UNCHANGED <<started, start_atomic, obsoleted, status, netVars, timer, bounds>>

AppShutdown(w) ==
    /\ w \in Callers /\ Free(w)
    /\ calls < MaxCalls
    /\ calls' = calls + 1
    /\ \E pc \in {"force_shutdown", "graceful_shutdown"}, reconnect \in BOOLEAN :
          job' = [job EXCEPT ![w] = [kind |-> "app", pc |-> pc,
                                     reconnect |-> reconnect, prev_seq |-> 0]]
    /\ UNCHANGED <<flagVars, status, netVars, rwQ, timer, breaks, polls>>

-----------------------------------------------------------------------------
(* rw_strand.                                                                *)

NextTask(w, name) ==
    /\ w \in Workers /\ Free(w)
    /\ rwQ # <<>> /\ Head(rwQ) = name
    /\ \A v \in Workers : job[v].kind # "rw"
    /\ rwQ' = Tail(rwQ)

DoRecvMsg(w) ==
    /\ NextTask(w, "do_recv_msg")
    /\ read' = TRUE
    /\ UNCHANGED <<flagVars, status, first, conn, alive, timer, job, bounds>>

(* recv_handler with an error: on_recv_error, force_shutdown(need_reconnect). *)
RecvError(w) ==
    /\ NextTask(w, "recv_error")
    /\ job' = [job EXCEPT ![w] = [kind |-> "rw", pc |-> "force_shutdown",
                                  reconnect |-> need_reconnect, prev_seq |-> 0]]
    /\ UNCHANGED <<flagVars, status, netVars, timer, bounds>>

_force_shutdown(w) ==
    /\ NextTask(w, "force")
    /\ IF status = "FORCE" THEN UNCHANGED <<status, job>> ELSE Shutdown(w)
    /\ UNCHANGED <<flagVars, netVars, timer, bounds>>

(* _graceful_shutdown: shutdown(send), and a timer that waits for the peer   *)
(* to end the link; at once by force when the connection is gone.            *)
_graceful_shutdown(w) ==
    /\ NextTask(w, "graceful")
    /\ \/ /\ status = "BROKEN" \/ (status = "CONNECTED" /\ ~alive)
          /\ Shutdown(w)
          /\ UNCHANGED <<timer, polls>>
       \/ /\ status = "CONNECTED" /\ alive
          /\ status' = "GRACEFUL"
          /\ SetTimer("ASYNC_SHUTDOWN")
          /\ polls' = 0
          /\ UNCHANGED job
       \/ /\ status \in {"FORCE", "GRACEFUL"}
          /\ UNCHANGED <<status, timer, polls, job>>
    /\ UNCHANGED <<flagVars, netVars, breaks, calls>>

-----------------------------------------------------------------------------
(* The network.                                                              *)

ConnectDone ==
    /\ conn = "pending"
    /\ \/ conn' = "ok" /\ alive' = TRUE /\ UNCHANGED breaks
       \/ conn' = "failed" /\ breaks < MaxBreaks /\ breaks' = breaks + 1 /\ UNCHANGED alive
    /\ UNCHANGED <<flagVars, status, first, read, rwQ, timer, job, calls, polls>>

ReadFails ==
    /\ read
    /\ \/ ~alive /\ UNCHANGED breaks
       \/ alive /\ breaks < MaxBreaks /\ breaks' = breaks + 1
    /\ alive' = FALSE
    /\ read' = FALSE
    /\ rwQ' = Append(rwQ, "recv_error")
    /\ UNCHANGED <<flagVars, status, first, conn, timer, job, calls, polls>>

(* connect_handler: do_start of tcp::socket_base, or another attempt later,  *)
(* by way of TIMER_CONNECT_DELAY.                                            *)
ConnectHandler(w) ==
    /\ w \in Workers /\ Free(w)
    /\ conn \in {"ok", "failed"}
    /\ conn' = "none"
    /\ IF conn = "ok"
       THEN status' = "CONNECTED" /\ rwQ' = Append(rwQ, "do_recv_msg") /\ UNCHANGED timer
       ELSE SetTimer("CONNECT_DELAY") /\ UNCHANGED <<status, rwQ>>
    /\ UNCHANGED <<flagVars, first, read, alive, job, bounds>>

-----------------------------------------------------------------------------
(* Timers.                                                                   *)

Expire(id) ==
    /\ timer[id].wait
    /\ timer' = [timer EXCEPT ![id] = Complete(@, FALSE)]
    /\ UNCHANGED <<flagVars, status, netVars, rwQ, job, bounds>>

BeginHandler(w, id) ==
    /\ w \in Workers /\ Free(w)
    /\ timer[id].due # <<>>
    /\ LET h == Head(timer[id].due)
           call == timer[id].status = "STARTED" /\ ~h.cancelled
       IN  job' = [job EXCEPT ![w] = [Idle EXCEPT !.kind = id, !.prev_seq = h.prev_seq,
                                      !.pc = IF call THEN "callback" ELSE "compare"]]
    /\ timer' = [timer EXCEPT ![id].due = Tail(@)]
    /\ UNCHANGED <<flagVars, status, netVars, rwQ, bounds>>

(* connect(first): async_connect, after a bind() that may fail when this is  *)
(* not the first attempt; its result is not used.                            *)
Connect(w) ==
    /\ At(w, "CONNECT", "callback")
    /\ \E bound \in BindResults : conn' = IF first \/ bound THEN "pending" ELSE conn
    /\ Goto(w, "compare")
    /\ UNCHANGED <<flagVars, status, first, read, alive, rwQ, timer, bounds>>

(* The callback waits until the handler of TIMER_CONNECT is over.            *)
ConnectDelay(w) ==
    /\ At(w, "CONNECT_DELAY", "callback")
    /\ Goto(w, IF timer["CONNECT"].status = "STARTED" THEN "again" ELSE "prepare")
    /\ UNCHANGED <<flagVars, status, netVars, rwQ, timer, bounds>>

(* prepare_next_reconnect.                                                   *)
PrepareNextReconnect(w) ==
    /\ At(w, "CONNECT_DELAY", "prepare")
    /\ IF need_reconnect /\ started
       THEN /\ CloseLayer
            /\ SetTimer("CONNECT")
            /\ first' = FALSE
            /\ Goto(w, "compare")
            /\ UNCHANGED rwQ
       ELSE /\ rwQ' = Append(rwQ, "force")
            /\ Goto(w, "compare")
            /\ UNCHANGED <<netVars, timer>>
    /\ UNCHANGED <<flagVars, status, read, bounds>>

(* Mutant: a peer that does not end the link in time is waited for no more.  *)
ShutdownHandlerGivesUp(w) ==
    /\ At(w, "ASYNC_SHUTDOWN", "callback")
    /\ IF status = "GRACEFUL" /\ polls < MaxPolls
       THEN polls' = polls + 1 /\ Goto(w, "again")
       ELSE Goto(w, "compare") /\ UNCHANGED polls
    /\ UNCHANGED <<flagVars, status, netVars, rwQ, timer, breaks, calls>>

(* shutdown_handler: poll, and force the shutdown when the peer takes too    *)
(* long (on_async_shutdown_error).                                           *)
ShutdownHandler(w) ==
    /\ At(w, "ASYNC_SHUTDOWN", "callback")
    /\ \/ /\ status = "GRACEFUL" /\ polls < MaxPolls
          /\ polls' = polls + 1
          /\ Goto(w, "again")
       \/ /\ status = "GRACEFUL" /\ polls = MaxPolls
          /\ job' = [job EXCEPT ![w].pc = "force_shutdown", ![w].reconnect = need_reconnect]
          /\ UNCHANGED polls
       \/ /\ status # "GRACEFUL"
          /\ Goto(w, "compare")
          /\ UNCHANGED polls
    /\ UNCHANGED <<flagVars, status, netVars, rwQ, timer, breaks, calls>>

(* No asynchronous call of the socket is left but those of thread w.         *)
OthersDone(w) ==
    /\ ~read /\ conn = "none" /\ rwQ = <<>>
    /\ \A id \in Timers : AtRest(timer[id])
    /\ \A v \in Workers \ {w} : job[v].kind \in {"none", "app"}

(* Mutant: on_close without waiting for the other async calls.               *)
DelayCloseBlind(w) ==
    /\ At(w, "DELAY_CLOSE", "callback")
    /\ Goto(w, "on_close")
    /\ UNCHANGED <<flagVars, status, netVars, rwQ, timer, bounds>>

(* timer_handler(TIMER_DELAY_CLOSE): wait until this is the last async call. *)
DelayClose(w) ==
    /\ At(w, "DELAY_CLOSE", "callback")
    /\ IF OthersDone(w)
       THEN Goto(w, "on_close") /\ UNCHANGED timer
       ELSE StopAllBut({"DELAY_CLOSE"}) /\ Goto(w, "again")
    /\ UNCHANGED <<flagVars, status, netVars, rwQ, bounds>>

OnClose(w) ==
    /\ At(w, "DELAY_CLOSE", "on_close")
    /\ CloseLayer
    /\ status' = "BROKEN"
    /\ Goto(w, "cancelled")
    /\ UNCHANGED <<flagVars, first, read, rwQ, timer, bounds>>

(* change_timer_status(id, TIMER_CANCELED), so that start() may come.        *)
ChangeTimerStatus(w) ==
    /\ At(w, "DELAY_CLOSE", "cancelled")
    /\ timer' = [timer EXCEPT !["DELAY_CLOSE"].status = "CANCELED"]
    /\ Goto(w, "after_close")
    /\ UNCHANGED <<flagVars, status, netVars, rwQ, bounds>>

(* Mutant: after_close does not start again.                                 *)
AfterCloseStays(w) ==
    /\ At(w, "DELAY_CLOSE", "after_close")
    /\ Goto(w, "obsolete")
    /\ UNCHANGED <<flagVars, status, netVars, rwQ, timer, bounds>>

AfterClose(w) ==
    /\ At(w, "DELAY_CLOSE", "after_close")
    /\ Goto(w, IF need_reconnect THEN "start" ELSE "obsolete")
    /\ UNCHANGED <<flagVars, status, netVars, rwQ, timer, bounds>>

Obsolete(w) ==
    /\ At(w, "DELAY_CLOSE", "obsolete")
    /\ obsoleted' = TRUE
    /\ Goto(w, "compare")
    /\ UNCHANGED <<started, start_atomic, need_reconnect, status, netVars, rwQ, timer, bounds>>

(* call_back returned true, or it returned false.                            *)
Again(w, id) ==
    /\ At(w, id, "again")
    /\ IF timer[id].status = "STARTED"
       THEN SetTimer(id) /\ Done(w)
       ELSE Goto(w, "compare") /\ UNCHANGED timer
    /\ UNCHANGED <<flagVars, status, netVars, rwQ, bounds>>

Compare(w, id) ==
    /\ At(w, id, "compare")
    /\ IF SameSeq(timer[id], job[w].prev_seq) THEN Goto(w, "cancel") ELSE Done(w)
    /\ UNCHANGED <<flagVars, status, netVars, rwQ, timer, bounds>>

Cancel(w, id) ==
    /\ At(w, id, "cancel")
    /\ timer' = [timer EXCEPT ![id].status = "CANCELED"]
    /\ Done(w)
    /\ UNCHANGED <<flagVars, status, netVars, rwQ, bounds>>

-----------------------------------------------------------------------------
(* A thread of the service pump takes a task that is ready ...               *)
TakeIoTask ==
    \E w \in Workers : DoRecvMsg(w) \/ RecvError(w) \/ _force_shutdown(w) \/ _graceful_shutdown(w)
TakeConnectHandler == \E w \in Workers : ConnectHandler(w)
TakeHandler(id) == \E w \in Workers : BeginHandler(w, id)

(* ... and every thread goes on with what it runs.                           *)
Work(w) ==
    \/ StartCheck(w) \/ StartLock(w) \/ DoStart(w) \/ SetStarted(w)
    \/ CloseLock(w) \/ StopTimers(w) \/ SetDelay(w)
    \/ ForceShutdown(w) \/ GracefulShutdown(w)
    \/ Connect(w) \/ ConnectDelay(w) \/ PrepareNextReconnect(w) \/ ShutdownHandler(w)
    \/ DelayClose(w) \/ OnClose(w) \/ ChangeTimerStatus(w) \/ AfterClose(w) \/ Obsolete(w)
    \/ \E id \in Timers : Again(w, id) \/ Compare(w, id) \/ Cancel(w, id)

Next ==
    \/ TakeIoTask \/ TakeConnectHandler \/ \E id \in Timers : TakeHandler(id) \/ Expire(id)
    \/ \E w \in Threads : Work(w) \/ AppShutdown(w)
    \/ ConnectDone \/ ReadFails

Spec == Init /\ [][Next]_vars

(* io_context runs what is ready in the order it became ready, time passes,  *)
(* a connection attempt ends, and a read on a dead connection fails.         *)
FairSpec ==
    /\ Spec
    /\ \A w \in Threads : WF_vars(Work(w))
    /\ SF_vars(TakeIoTask) /\ SF_vars(TakeConnectHandler)
    /\ \A id \in Timers : SF_vars(TakeHandler(id)) /\ WF_vars(Expire(id))
    /\ WF_vars(ConnectDone) /\ WF_vars(~alive /\ ReadFails)

-----------------------------------------------------------------------------
TypeOK ==
    /\ {started, need_reconnect, obsoleted, first, read, alive} \subseteq BOOLEAN
    /\ start_atomic \in Threads \cup {NoThread}
    /\ status \in {"BROKEN", "CONNECTED", "FORCE", "GRACEFUL"}
    /\ conn \in {"none", "pending", "ok", "failed"}
    /\ rwQ \in Seq({"do_recv_msg", "recv_error", "force", "graceful"})
    /\ timer \in [Timers -> TimerInfos]
    /\ \A id \in Timers : timer[id].seq < SeqMod
    /\ job \in [Threads -> Jobs]
    /\ breaks \in Nat /\ calls \in Nat /\ polls \in Nat

(* A connection is attempted only when the last one is gone altogether: no   *)
(* read and no other attempt is outstanding on the socket, whatever          *)
(* shutdowns met the reconnection on the way.                                *)
ConnectAlone ==
    \A w \in Workers : At(w, "CONNECT", "callback") =>
        conn = "none" /\ ~read /\ status = "BROKEN" /\ "recv_error" \notin {rwQ[i] : i \in DOMAIN rwQ}

(* "generic_client_socket will try to reconnect to the server automatically  *)
(* (if need_reconnect is true)": it gets there when the server lets it.      *)
Connected == status = "CONNECTED" /\ read
Reconnects == (need_reconnect /\ ~Connected) ~> (Connected \/ ~need_reconnect)

(* A client told not to reconnect comes to its end: closed, with no          *)
(* asynchronous call left, so that the pool can have it.                     *)
Ended == ~started /\ status = "BROKEN" /\ \A w \in Threads : OthersDone(w)
ComesToAnEnd == ~need_reconnect ~> (need_reconnect \/ Ended)
=============================================================================
