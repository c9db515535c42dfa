---------------------------- MODULE ServicePump ----------------------------
(***************************************************************************)
(* service_pump: its io_contexts and the references to them, the threads   *)
(* that run them, and the i_services it starts and stops.  Of a service    *)
(* only one asynchronous operation is kept: pending, completed (ready) or  *)
(* none, which is what an io_context counts as outstanding work.           *)
(***************************************************************************)
EXTENDS Integers, FiniteSetsExt

CONSTANTS
    MaxThreads,     \* bound: threads between a start and the next
    Services,       \* i_services the application constructs
    Macros,         \* [decrease, guard, multi : BOOLEAN]s: ASCS_DECREASE_THREAD_AT_RUNTIME,
                    \* ASCS_AVOID_AUTO_STOP_SERVICE, and whether it is a single_service_pump
    MaxCtx,         \* bound: io_contexts
    MaxStarts,      \* bound: starts of the pump
    MaxCalls,       \* bound: calls that change threads, contexts or references
    MaxThrows       \* bound: exceptions of handlers

ASSUME PumpAssumption ==
    /\ \A m \in Macros : m \in [decrease : BOOLEAN, guard : BOOLEAN, multi : BOOLEAN] /\ (m.decrease => ~m.multi)
    /\ {MaxThreads, MaxCtx, MaxStarts, MaxCalls, MaxThrows} \subseteq Nat /\ MaxCtx >= 1
    /\ IsFiniteSet(Services)

Contexts == 1..MaxCtx
Threads == 1..MaxThreads

VARIABLES
    macros,             \* never changes
    pump,               \* stopped, starting (do_service), running, ending (end_service
                        \* while run_service blocks), waiting (run_service is in
                        \* wait_service), join (wait_service after end_service)
    first, single_ctx,
    ctx_num, refs,      \* context_can
    guarded, stopped,   \* contexts with a work guard; that stopped()
    pc, ctx,            \* of each thread; the context it runs
    block,              \* the thread that is the caller of run_service, or 0
    real_thread_num, del_thread_num,
    home,               \* of each service: the context assigned to it, or 0 before
    listed,             \* service_can
    started,            \* of each service
    op,                 \* of each service
    uses,               \* of each service: io_context_refs
    halted,             \* stop() was called since the pump started
    late,               \* a service was constructed before there were several contexts
    lost,               \* an exception has ended a thread
    told,               \* threads that on_exception has told to continue, and that leave
    starts, calls, throws

ctxVars == <<first, single_ctx, ctx_num, guarded, stopped, halted>>
refVars == <<refs, uses, late>>
threadVars == <<pc, ctx, block, real_thread_num, del_thread_num, lost, told, throws>>
svcVars == <<home, listed, started, op>>
vars == <<macros, pump, ctxVars, refVars, threadVars, svcVars, starts, calls>>

Used == 1..ctx_num
Counted == calls < MaxCalls /\ calls' = calls + 1 /\ UNCHANGED <<macros, starts>>
NotCounted == UNCHANGED <<macros, starts, calls>>

Working(guards, ops) == guards \cup {home[s] : s \in {z \in Services : ops[z] # "none"}}
Outstanding(c) == c \in Working(guarded, op)
(* An io_context stops when its last outstanding work finishes.              *)
Finished(guards, ops) == Working(guarded, op) \ Working(guards, ops)

-----------------------------------------------------------------------------
(* The io_contexts.                                                          *)

(* assign_io_context and assign_thread: the first with the least load.       *)
LeastOf(load, cs) == Min({c \in cs : \A d \in cs : load[c] <= load[d]})

AssignFirst(c, n) == refs' = IF single_ctx THEN refs ELSE [refs EXCEPT ![1] = @ + n]
Assign(c, n) == refs' = IF single_ctx THEN refs ELSE [refs EXCEPT ![c] = @ + n]

(* Constructing a service assigns it a context; add() lists it.              *)
Construct(s) ==
    /\ home[s] = 0 /\ NotCounted
    /\ LET c == IF single_ctx THEN 1 ELSE LeastOf(refs, Used)
       IN  home' = [home EXCEPT ![s] = c] /\ Assign(c, 1)
    /\ listed' = listed \cup {s} /\ uses' = [uses EXCEPT ![s] = 1]
    /\ late' = (late \/ single_ctx)
    /\ UNCHANGED <<pump, ctxVars, threadVars, started, op>>

(* timer::add_io_context_refs, sub_io_context_refs (and those of a server).  *)
AddRefs(s) ==
    /\ home[s] # 0 /\ Counted
    /\ uses' = [uses EXCEPT ![s] = @ + 1] /\ Assign(home[s], 1)
    /\ UNCHANGED <<pump, ctxVars, late, threadVars, svcVars>>
SubRefs(s, n) ==
    /\ home[s] # 0 /\ n \in {1, uses[s]} /\ n > 0 /\ uses[s] >= n /\ Counted
    /\ uses' = [uses EXCEPT ![s] = @ - n] /\ Assign(home[s], -n)
    /\ UNCHANGED <<pump, ctxVars, late, threadVars, svcVars>>

NewContexts(n) ==
    /\ ctx_num + n <= MaxCtx
    /\ ctx_num' = ctx_num + n
    /\ guarded' = IF macros.guard THEN guarded \cup (ctx_num + 1)..(ctx_num + n) ELSE guarded

set_io_context_num(n) ==
    /\ ~macros.decrease /\ pump = "stopped" /\ ctx_num = 1 /\ n >= 1 /\ NotCounted
    /\ NewContexts(n - 1)
    /\ single_ctx' = (single_ctx /\ n = 1)
    /\ UNCHANGED <<pump, first, stopped, halted, refVars, threadVars, svcVars>>

(* Threads go one by one to the context that has the fewest, those that      *)
(* ended counted until they are joined.                                      *)
ThreadContext(load, cs) == LeastOf(load, cs)
Created == {t \in Threads : pc[t] # "none"}
Spawn(n, cs) ==
    LET k == Cardinality(Created)
        new == (k + 1)..(k + n)
    IN  /\ new \subseteq Threads
        /\ ctx' \in [Threads -> Contexts]
        /\ \A t \in Threads \ new : ctx'[t] = ctx[t]
        /\ \A t \in new :
              LET load == [c \in cs |-> Cardinality({u \in 1..(t - 1) : ctx'[u] = c})]
              IN  ctx'[t] = ThreadContext(load, cs)
        /\ pc' = [t \in Threads |-> IF t \in new THEN "begin" ELSE pc[t]]

(* add_service_thread(thread_num, false, io_context_num) at runtime.         *)
add_service_thread(thread_num, n) ==
    /\ pump = "running" /\ thread_num >= n /\ Counted
    /\ NewContexts(n)
    /\ single_ctx' = (single_ctx /\ n = 0)
    /\ Spawn(thread_num, 1..(ctx_num + n))
    /\ UNCHANGED <<pump, first, stopped, halted, refVars, svcVars,
                   block, real_thread_num, del_thread_num, lost, told, throws>>

del_service_thread(n) ==
    /\ macros.decrease /\ Counted
    /\ del_thread_num' = del_thread_num + n
    /\ UNCHANGED <<pump, ctxVars, refVars, pc, ctx, block, real_thread_num, lost, told, throws, svcVars>>

-----------------------------------------------------------------------------
(* The threads: run().                                                       *)

(* The shared counters are atomic, what reads and writes them in turn is not:*)
(* each step is one access.                                                  *)
Goto(t, to) == pc' = [pc EXCEPT ![t] = to]
StepVars == <<pump, ctxVars, refVars, svcVars, ctx, block, lost, told, throws>>

RunBegin(t) ==
    /\ pc[t] = "begin"
    /\ IF macros.decrease THEN real_thread_num' = real_thread_num + 1 /\ Goto(t, "check")
       ELSE UNCHANGED real_thread_num /\ Goto(t, "run")
    /\ UNCHANGED <<StepVars, del_thread_num>> /\ NotCounted
CheckDel(t) ==
    /\ pc[t] = "check"
    /\ Goto(t, IF del_thread_num > 0 THEN "dec_del" ELSE "run")
    /\ UNCHANGED <<StepVars, real_thread_num, del_thread_num>> /\ NotCounted
DecDel(t) ==
    /\ pc[t] = "dec_del"
    /\ del_thread_num' = del_thread_num - 1
    /\ Goto(t, IF del_thread_num' >= 0 THEN "dec_real" ELSE "undo_del")
    /\ UNCHANGED <<StepVars, real_thread_num>> /\ NotCounted
UndoDel(t) ==
    /\ pc[t] = "undo_del"
    /\ del_thread_num' = del_thread_num + 1
    /\ Goto(t, "run")
    /\ UNCHANGED <<StepVars, real_thread_num>> /\ NotCounted

(* Forbids to stop all service threads.                                      *)
EnoughAlways(n) == n >= 0
Enough(n) == n > 0
DecReal(t) ==
    /\ pc[t] = "dec_real"
    /\ real_thread_num' = real_thread_num - 1
    /\ Goto(t, IF Enough(real_thread_num') THEN "gone" ELSE "undo_real")
    /\ UNCHANGED <<StepVars, del_thread_num>> /\ NotCounted
UndoReal(t) ==
    /\ pc[t] = "undo_real"
    /\ real_thread_num' = real_thread_num + 1
    /\ Goto(t, "run")
    /\ UNCHANGED <<StepVars, del_thread_num>> /\ NotCounted

(* run_one() or run() executes a ready handler: the service starts its next  *)
(* operation, or it closes (on_close clears its references).                 *)
Handle(t, s) ==
    /\ pc[t] = "run" /\ home[s] = ctx[t] /\ ctx[t] \notin stopped /\ op[s] = "ready"
    /\ op' = [op EXCEPT ![s] = IF started[s] THEN "pending" ELSE "none"]
    /\ IF started[s] THEN UNCHANGED <<refs, uses>>
       ELSE uses' = [uses EXCEPT ![s] = 0] /\ Assign(home[s], -uses[s])
    /\ stopped' = stopped \cup Finished(guarded, op')
    /\ Goto(t, IF macros.decrease THEN "check" ELSE "run")
    /\ UNCHANGED <<pump, first, single_ctx, ctx_num, guarded, halted, late, home, listed, started,
                   ctx, block, real_thread_num, del_thread_num, lost, told, throws>> /\ NotCounted

(* It throws, before or after the next operation was started; then this_n is *)
(* 0 and the thread goes on to leave, unless on_exception ends it at once.   *)
Throw(t, s, continue) ==
    /\ throws < MaxThrows /\ throws' = throws + 1
    /\ pc[t] = "run" /\ home[s] = ctx[t] /\ ctx[t] \notin stopped /\ op[s] = "ready"
    /\ \E next \in {"none", "pending"} :
          /\ next = "pending" => started[s]
          /\ op' = [op EXCEPT ![s] = next]
    /\ stopped' = stopped \cup Finished(guarded, op')
    /\ Goto(t, IF ~continue THEN "gone" ELSE IF macros.decrease THEN "leave" ELSE "run")
    /\ lost' = (lost \/ macros.decrease \/ ~continue)
    /\ told' = IF continue /\ macros.decrease THEN told \cup {t} ELSE told
    /\ UNCHANGED <<pump, first, single_ctx, ctx_num, guarded, halted, refVars, home, listed, started,
                   ctx, block, real_thread_num, del_thread_num>> /\ NotCounted

(* run_one() or run() returns 0: nothing is outstanding, or stop() was called.*)
RunReturns(t) ==
    /\ pc[t] = "run" /\ (ctx[t] \in stopped \/ ~Outstanding(ctx[t]))
    /\ stopped' = stopped \cup {ctx[t]}
    /\ Goto(t, IF macros.decrease THEN "leave" ELSE "gone")
    /\ UNCHANGED <<pump, first, single_ctx, ctx_num, guarded, halted, refVars, svcVars,
                   ctx, block, real_thread_num, del_thread_num, lost, told, throws>> /\ NotCounted
Leave(t) ==
    /\ pc[t] = "leave"
    /\ real_thread_num' = real_thread_num - 1
    /\ Goto(t, "gone") /\ told' = told \ {t}
    /\ UNCHANGED <<pump, ctxVars, refVars, svcVars, ctx, block, lost, throws, del_thread_num>> /\ NotCounted

-----------------------------------------------------------------------------
(* The services, and the pump.                                               *)

(* What a service waits for happens.                                         *)
Event(s) ==
    /\ op[s] = "pending"
    /\ op' = [op EXCEPT ![s] = "ready"]
    /\ UNCHANGED <<pump, ctxVars, refVars, threadVars, home, listed, started>> /\ NotCounted

(* i_service::start_service: init() may fail.                                *)
StartedNow(ss) ==
    LET now == {s \in ss : ~started[s]}
    IN  \E ok \in SUBSET now :
          /\ started' = [s \in Services |-> started[s] \/ s \in ok]
          /\ op' = [s \in Services |-> IF s \in ok /\ op[s] = "none" THEN "pending" ELSE op[s]]
          \* single_socket_service::init: reset_io_context_refs
          /\ uses' = [s \in Services |-> IF s \in now /\ uses[s] = 0 THEN 1 ELSE uses[s]]
          /\ refs' = IF single_ctx THEN refs
                     ELSE [c \in Contexts |-> refs[c] + Cardinality({s \in now : uses[s] = 0 /\ home[s] = c})]

(* i_service::stop_service: uninit() cancels what is pending.                *)
StoppedNow(ss) ==
    /\ started' = [s \in Services |-> started[s] /\ s \notin ss]
    /\ op' = [s \in Services |-> IF s \in ss /\ started[s] /\ op[s] = "pending" THEN "ready" ELSE op[s]]

StartOne(s) ==
    /\ pump = "running" /\ s \in listed /\ Counted
    /\ StartedNow({s})
    /\ UNCHANGED <<pump, ctxVars, late, threadVars, home, listed>>
StopOne(s) ==
    /\ s \in listed /\ started[s] /\ Counted
    /\ StoppedNow({s})
    /\ UNCHANGED <<pump, ctxVars, refVars, threadVars, home, listed>>

(* remove() and clear(): out of the list, then stop_and_free.                *)
Remove(ss) ==
    /\ ss # {} /\ ss \subseteq listed /\ Counted
    /\ listed' = listed \ ss
    /\ StoppedNow(ss)
    /\ UNCHANGED <<pump, ctxVars, refVars, threadVars, home>>

(* do_service of start_service or run_service: the contexts are restarted,   *)
(* and guarded again when it is not the first time ...                       *)
RestartNone == stopped
Restart == {}
DoService ==
    /\ pump = "stopped" /\ starts < MaxStarts
    /\ pump' = "starting" /\ starts' = starts + 1
    /\ guarded' = IF macros.guard /\ ~first THEN Used ELSE guarded
    /\ stopped' = Restart /\ halted' = FALSE
    /\ UNCHANGED <<macros, calls, first, single_ctx, ctx_num, refVars, threadVars, svcVars>>

(* ... the services are started, then the threads, one of which may be the   *)
(* caller's.                                                                 *)
DoServiceThreads(thread_num) ==
    /\ pump = "starting" /\ thread_num >= ctx_num
    /\ StartedNow(listed)
    /\ Spawn(thread_num, Used)
    /\ block' \in {0, thread_num}
    /\ pump' = "running"
    /\ UNCHANGED <<ctxVars, late, home, listed, real_thread_num, del_thread_num, lost, told, throws>>
    /\ NotCounted

(* end_service: the guards go, the services stop; stop_service then waits.   *)
GuardsKept == guarded
GuardsReset == {}
EndService ==
    /\ pump \in {"running", "waiting"}
    /\ guarded' = GuardsReset
    /\ StoppedNow(listed)
    /\ stopped' = stopped \cup Finished(GuardsReset, op')
    /\ pump' = IF pump = "running" /\ block # 0 THEN "ending" ELSE "join"
    /\ UNCHANGED <<first, single_ctx, ctx_num, halted, refVars, threadVars, home, listed>> /\ NotCounted

(* stop(): every context at once.                                            *)
Stop ==
    /\ pump = "running" /\ Counted
    /\ stopped' = Used /\ halted' = TRUE
    /\ UNCHANGED <<pump, first, single_ctx, ctx_num, guarded, refVars, threadVars, svcVars>>

(* run_service waits when the caller's own thread has ended.                 *)
RunServiceWaits ==
    /\ pump \in {"running", "ending"} /\ block # 0 /\ pc[block] = "gone"
    /\ pump' = IF pump = "running" THEN "waiting" ELSE "join"
    /\ UNCHANGED <<ctxVars, refVars, threadVars, svcVars>> /\ NotCounted

(* wait_service: the threads are joined.                                     *)
WaitService ==
    /\ pump \in {"waiting", "join"} /\ \A t \in Threads : pc[t] \in {"none", "gone"}
    /\ pump' = "stopped" /\ first' = FALSE
    /\ pc' = [t \in Threads |-> "none"] /\ block' = 0
    /\ del_thread_num' = 0
    /\ UNCHANGED <<single_ctx, ctx_num, guarded, stopped, halted, refVars, svcVars,
                   ctx, real_thread_num, lost, told, throws>> /\ NotCounted

-----------------------------------------------------------------------------
Init ==
    /\ macros \in Macros /\ pump = "stopped" /\ first = TRUE
    /\ single_ctx = ~macros.multi    \* which counts references from the start
    /\ ctx_num = 1 /\ refs = [c \in Contexts |-> 0]
    /\ guarded = (IF macros.guard THEN {1} ELSE {}) /\ stopped = {}
    /\ pc = [t \in Threads |-> "none"] /\ ctx = [t \in Threads |-> 1] /\ block = 0
    /\ real_thread_num = 0 /\ del_thread_num = 0
    /\ home = [s \in Services |-> 0] /\ listed = {} /\ started = [s \in Services |-> FALSE]
    /\ op = [s \in Services |-> "none"] /\ uses = [s \in Services |-> 0]
    /\ halted = FALSE /\ late = FALSE /\ lost = FALSE /\ told = {}
    /\ starts = 0 /\ calls = 0 /\ throws = 0

Runs(t) == \/ RunBegin(t) \/ CheckDel(t) \/ DecDel(t) \/ UndoDel(t) \/ DecReal(t) \/ UndoReal(t)
           \/ RunReturns(t) \/ Leave(t) \/ \E s \in Services : Handle(t, s)
App == \/ \E s \in Services : \/ Construct(s) \/ AddRefs(s) \/ StartOne(s) \/ StopOne(s)
                              \/ \E n \in 1..2 : SubRefs(s, n)
       \/ \E ss \in SUBSET Services : Remove(ss)
       \/ \E k \in Threads : DoServiceThreads(k) \/ \E n \in 0..1 : add_service_thread(k, n)
       \/ \E n \in 1..2 : set_io_context_num(n) \/ del_service_thread(n)
       \/ Stop

Next == \/ App \/ DoService \/ EndService \/ RunServiceWaits \/ WaitService
        \/ \E t \in Threads : Runs(t) \/ \E s \in Services, c \in BOOLEAN : Throw(t, s, c)
        \/ \E s \in Services : Event(s)

Spec == Init /\ [][Next]_vars

(* Threads run; a context runs its ready handlers first in, first out; join()*)
(* returns when the threads ended.                                           *)
FairSpec == /\ Spec
            /\ \A t \in Threads : WF_vars(Runs(t))
            /\ \A s \in Services : SF_vars(\E t \in Threads : Handle(t, s))
            /\ WF_vars(RunServiceWaits) /\ WF_vars(WaitService)

-----------------------------------------------------------------------------
(* Properties.                                                               *)

(* Only with ASCS_DECREASE_THREAD_AT_RUNTIME a thread does more than run().  *)
Pcs == {"none", "begin", "run", "gone"}
       \cup IF macros.decrease THEN {"check", "dec_del", "undo_del", "dec_real", "undo_real", "leave"} ELSE {}

TypeOK ==
    /\ macros \in Macros
    /\ pump \in {"stopped", "starting", "running", "ending", "waiting", "join"}
    /\ first \in BOOLEAN /\ single_ctx \in BOOLEAN /\ (macros.multi => ~single_ctx)
    /\ ctx_num \in Contexts /\ refs \in [Contexts -> Int] /\ uses \in [Services -> Nat]
    /\ guarded \subseteq Used /\ stopped \subseteq Used
    /\ pc \in [Threads -> Pcs] /\ ctx \in [Threads -> Used] /\ block \in {0} \cup Threads
    /\ real_thread_num \in Int /\ del_thread_num \in Int
    /\ home \in [Services -> {0} \cup Used] /\ started \in [Services -> BOOLEAN]
    /\ op \in [Services -> {"none", "pending", "ready"}]
    /\ listed \subseteq {s \in Services : home[s] # 0}
    /\ halted \in BOOLEAN /\ late \in BOOLEAN /\ lost \in BOOLEAN /\ told \subseteq Threads
    /\ starts \in Nat /\ calls \in Nat /\ throws \in Nat

InLoop(t) == pc[t] \notin {"none", "gone"}

(* However many threads del_service_thread asks for and however their        *)
(* decrements interleave, a thread is left for a context that has work       *)
(* (service_pump.h:412-425, "forbid to stop all service thread").  Threads   *)
(* ended by exceptions were never given back to the counter, and the counter *)
(* knows nothing of contexts: neither is covered.                            *)
NeverAllGone ==
    (pump \notin {"stopped", "starting"} /\ ~lost /\ (macros.decrease => ctx_num = 1)) =>
        \A c \in Used \ stopped : Outstanding(c) => \E t \in Threads : InLoop(t) /\ ctx[t] = c

(* After stop_service() no handler of any service is left, so they can be    *)
(* freed (service_pump.h:253), if the contexts could not stop by themselves  *)
(* before, were not stopped, and lost no thread.                             *)
SafelyFreed ==
    (pump = "stopped" /\ macros.guard /\ ~halted /\ ~lost /\ (macros.decrease => ctx_num = 1)) =>
        \A s \in Services : op[s] = "none"

(* The references that the services of a context hold, numbered.             *)
Held(c) == UNION {{s} \X (1..uses[s]) : s \in {z \in Services : home[z] = c}}

(* The references of a context are those its users hold, whatever the order  *)
(* they come, go and come back in, if none came before there were several    *)
(* contexts (service_pump.h:147-187, timer.h:69-86, 197).                    *)
RefsExact == (~late /\ ~single_ctx) => \A c \in Contexts : refs[c] = Cardinality(Held(c))

(* stop_service() returns, and so does run_service after end_service().      *)
StopReturns == (pump \in {"ending", "join"}) ~> (pump = "stopped")

(* An exception on_exception lets pass does not end the thread               *)
(* (service_pump.h:398, "continue").                                         *)
ExceptionContinues == \A t \in Threads : t \in told => ctx[t] \in stopped
=============================================================================
