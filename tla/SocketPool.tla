----------------------------- MODULE SocketPool -----------------------------
(***************************************************************************)
(* A container of sockets of ascs and the service that owns it: the        *)
(* object_pool (object_can, invalid_object_can, reuse, restoration,        *)
(* release), the accept loop of tcp::generic_server over it, its sockets   *)
(* (generic_server_socket), and the containers of clients                  *)
(* (multi_socket_service, tcp::multi_client_base).  Every step here is     *)
(* what one thread does under one lock, or between two of them: accept     *)
(* handlers, the handlers of sockets, the timers of the pool and the       *)
(* application interleave.  Of a socket only the stages of its life that   *)
(* the pool can tell apart are kept (ClientSocket has the rest).           *)
(***************************************************************************)
EXTENDS Integers, SequencesExt, FiniteSetsExt

CONSTANTS
    Objs,           \* bound: socket objects that may be on the heap at once
    None,           \* no object
    AcceptNum,      \* ASCS_ASYNC_ACCEPT_NUM
    MaxSize,        \* max_size_ of the pool
    Roles,          \* {"server", "client"} or one of them: generic_server, multi_socket_service
    Modes,          \* the macros in force: "free", "clear" (ASCS_CLEAR_OBJECT_INTERVAL),
                    \* "reuse" (ASCS_REUSE_OBJECT), "restore" (ASCS_RESTORE_OBJECT)
    MaxId,          \* bound: ids init_object gives
    MaxCalls        \* bound: calls of the application

ASSUME PoolAssumption ==
    /\ None \notin Objs /\ IsFiniteSet(Objs) /\ AcceptNum \in Nat \ {0} /\ MaxSize \in Nat
    /\ MaxId \in Nat /\ MaxCalls \in Nat
    /\ Roles \subseteq {"server", "client"} /\ Modes \subseteq {"free", "clear", "reuse", "restore"}

Ids == 1..MaxId

VARIABLES
    role, mode,         \* never change
    stage,              \* of each object, see Stages
    id,                 \* of each object
    held,               \* objects the application holds a shared_ptr to (find, at, ...)
    cur_id,
    object_can,         \* id -> object
    invalid_object_can, \* a list of objects
    accept,             \* of each object: its async_accept and where accept_handler is
    listening,
    pump,               \* stopped, starting, running, uninit, stop_listen, force_shutdown, join
    service_started,    \* i_service::started_
    adder,              \* a client add_socket has added and not looked further at yet, or None
    restorer,           \* restore_socket between its two locks: the new and the invalid object
    calls               \* what MaxCalls counts

poolVars == <<stage, id, cur_id, object_can, invalid_object_can>>
listenVars == <<accept, listening>>
appVars == <<held, adder, restorer, calls>>
pumpVars == <<pump, service_started>>
vars == <<role, mode, poolVars, listenVars, appVars, pumpVars>>

(* absent: not on the heap; fresh: created or reset, not started; live:      *)
(* started_; closing: close() was called, other async calls are left;        *)
(* erased: on_close has taken it out of object_can; closed: on_close has put *)
(* it into invalid_object_can; obsolete: obsoleted(), the last handler ended.*)
Stages == {"absent", "fresh", "live", "closing", "erased", "closed", "obsolete"}
Accepts == {"no", "pending", "ok", "failed", "aborted", "added", "handled", "next"}

InCan(o) == \E i \in Ids : object_can[i] = o
Managed == {o \in Objs : InCan(o)}
Running(o) == stage[o] \in {"live", "closing", "erased", "closed"}

(* What keeps a shared_ptr to o besides invalid_object_can: the container, a *)
(* holder, an accept, restore_socket, and on_close's shared_from_this().     *)
Referenced(o) == \/ InCan(o) \/ o \in held \/ accept[o] # "no" \/ adder = o
                 \/ restorer.new = o \/ restorer.old = o \/ stage[o] = "erased"
Listed(o) == Contains(invalid_object_can, o)

NotCounted == UNCHANGED <<role, mode>>
Counted == calls < MaxCalls /\ calls' = calls + 1

-----------------------------------------------------------------------------
(* object_pool.                                                              *)

UniqueOnly(o) == ~Referenced(o)
ObsoletedOnly(o) == stage[o] = "obsolete"
Poppable(o) == stage[o] = "obsolete" /\ ~Referenced(o)

(* The members of S that are in the list s, in its order.                    *)
Only(s, S) ==
    LET at == {k \in DOMAIN s : s[k] \in S}
        place == [k \in at |-> Cardinality({j \in at : j <= k})]
    IN  [n \in 1..Cardinality(at) |-> s[CHOOSE k \in at : place[k] = n]]

(* create_object: when objects are reused the first obsoleted one that nobody *)
(* refers to, or a new one (which address it gets tells nothing);            *)
(* init_object gives it the next id.                                         *)
Creatable ==
    Only(invalid_object_can, {p \in Objs : mode = "reuse" /\ Poppable(p)})
    \o SetToSeq({p \in Objs : stage[p] = "absent"})
CanCreate(n) == cur_id + n <= MaxId /\ Len(Creatable) >= n
Created(n) == {Creatable[k] : k \in 1..n}

create_objects(n) ==
    /\ CanCreate(n)
    /\ id' = [o \in Objs |-> IF o \in Created(n)
                            THEN cur_id + CHOOSE k \in 1..n : Creatable[k] = o ELSE id[o]]
    /\ cur_id' = cur_id + n
    /\ invalid_object_can' = Only(invalid_object_can, Objs \ Created(n))
Fresh(n) == [o \in Objs |-> IF o \in Created(n) THEN "fresh" ELSE stage[o]]
NewObject == Creatable[1]

CanAdd(o) == Cardinality(Managed) < MaxSize /\ object_can[id[o]] = None
EraseId(can, i) == [can EXCEPT ![i] = None]

(* An object that loses its last reference is destroyed.                     *)
Destroyed(os) == [o \in Objs |-> IF o \in os THEN "absent" ELSE stage[o]]

(* TIMER_FREE_SOCKET, or the application's call: free_object.                *)
free_object ==
    LET freed == {o \in Objs : Listed(o) /\ Poppable(o)}
    IN  /\ freed # {}
        /\ stage' = Destroyed(freed)
        /\ invalid_object_can' = Only(invalid_object_can, Objs \ freed)
        /\ UNCHANGED <<id, cur_id, object_can, listenVars, appVars, pumpVars>> /\ NotCounted

(* TIMER_CLEAR_SOCKET: clear_obsoleted_object moves what on_close left.      *)
clear_obsoleted_object ==
    LET obsoleted == {o \in Managed : stage[o] = "obsolete"}
    IN  /\ mode = "clear" /\ service_started
        /\ obsoleted # {}
        /\ object_can' = [i \in Ids |-> IF object_can[i] \in obsoleted THEN None ELSE object_can[i]]
        /\ invalid_object_can' = invalid_object_can \o SetToSeq(obsoleted)
        /\ UNCHANGED <<stage, id, cur_id, listenVars, appVars, pumpVars>> /\ NotCounted

-----------------------------------------------------------------------------
(* The sockets.                                                              *)

(* start(), idempotent: only an object that is not started can be.           *)
Started(o) == [stage EXCEPT ![o] = IF @ = "fresh" THEN "live" ELSE @]
(* force_shutdown() of started ones; of others it does nothing.              *)
Shut(os) == [o \in Objs |-> IF o \in os /\ stage[o] = "live" THEN "closing" ELSE stage[o]]

(* The link breaks, or the socket shuts itself down: close().                *)
Break(o) ==
    /\ stage[o] = "live"
    /\ stage' = Shut({o})
    /\ UNCHANGED <<id, cur_id, object_can, invalid_object_can, listenVars, appVars, pumpVars>> /\ NotCounted

(* TIMER_DELAY_CLOSE with no other async call: on_close, which deletes the   *)
(* object from the pool by its id ...                                        *)
KeepSelf(o) == object_can
EraseSelf(o) == EraseId(object_can, id[o])
OnCloseErase(o) ==
    /\ stage[o] = "closing" /\ restorer.new # o
    /\ IF mode = "clear" \/ object_can[id[o]] = None    \* not there: deleted explicitly before
       THEN stage' = [stage EXCEPT ![o] = "closed"] /\ UNCHANGED object_can
       ELSE stage' = [stage EXCEPT ![o] = "erased"] /\ object_can' = EraseSelf(o)
    /\ UNCHANGED <<id, cur_id, invalid_object_can, listenVars, appVars, pumpVars>> /\ NotCounted

(* ... and, under another lock, puts it into invalid_object_can.             *)
OnClosePush(o) ==
    /\ stage[o] = "erased"
    /\ invalid_object_can' = Append(invalid_object_can, o)
    /\ stage' = [stage EXCEPT ![o] = "closed"]
    /\ UNCHANGED <<id, cur_id, object_can, listenVars, appVars, pumpVars>> /\ NotCounted

(* obsoleted_ is set and the last handler returns.                           *)
Obsolete(o) ==
    /\ stage[o] = "closed"
    /\ stage' = [stage EXCEPT ![o] = "obsolete"]
    /\ UNCHANGED <<id, cur_id, object_can, invalid_object_can, listenVars, appVars, pumpVars>> /\ NotCounted

-----------------------------------------------------------------------------
(* The accept loop.                                                          *)

(* async_accept on an acceptor that is closed fails at once.                 *)
Accepting(open) == IF open THEN "pending" ELSE "failed"

Connect(o) ==
    /\ accept[o] = "pending"
    /\ \E result \in {"ok", "failed"} : accept' = [accept EXCEPT ![o] = result]
    /\ UNCHANGED <<poolVars, listening, appVars, pumpVars>> /\ NotCounted

(* accept_handler without an error: on_accept may refuse, add_object too;    *)
(* what is not added goes with its handler.                                  *)
AcceptAdd(o) ==
    /\ accept[o] = "ok"
    /\ \/ /\ CanAdd(o)
          /\ object_can' = [object_can EXCEPT ![id[o]] = o]
          /\ accept' = [accept EXCEPT ![o] = "added"]
       \/ UNCHANGED object_can /\ accept' = [accept EXCEPT ![o] = "handled"]
    /\ UNCHANGED <<stage, id, cur_id, invalid_object_can, listening, appVars, pumpVars>> /\ NotCounted

(* add_socket starts it: the pump is started as long as handlers run.        *)
AcceptStart(o) ==
    /\ accept[o] = "added"
    /\ stage' = Started(o)
    /\ accept' = [accept EXCEPT ![o] = "handled"]
    /\ UNCHANGED <<id, cur_id, object_can, invalid_object_can, listening, appVars, pumpVars>> /\ NotCounted

(* The reference of the handler is gone when it ends.                        *)
Dropped(o) == IF InCan(o) \/ o \in held \/ Listed(o) \/ stage[o] # "fresh" THEN stage ELSE Destroyed({o})

AcceptCheck(o) ==
    /\ accept[o] = "handled"
    /\ IF listening THEN accept' = [accept EXCEPT ![o] = "next"] /\ UNCHANGED stage
       ELSE accept' = [accept EXCEPT ![o] = "no"] /\ stage' = Dropped(o)
    /\ UNCHANGED <<id, cur_id, object_can, invalid_object_can, listening, appVars, pumpVars>> /\ NotCounted

(* start_next_accept, under the mutex of the server.                         *)
NextAcceptLost(o) ==
    /\ accept[o] = "next"
    /\ CanCreate(1)
    /\ accept' = [accept EXCEPT ![o] = "no"] /\ stage' = Dropped(o)
    /\ UNCHANGED <<id, cur_id, object_can, invalid_object_can, listening, appVars, pumpVars>> /\ NotCounted

start_next_accept(o) ==
    /\ accept[o] = "next"
    /\ create_objects(1)
    /\ stage' = [Fresh(1) EXCEPT ![o] = Dropped(o)[o]]
    /\ accept' = [accept EXCEPT ![o] = "no", ![NewObject] = Accepting(listening)]
    /\ UNCHANGED <<object_can, listening, appVars, pumpVars>> /\ NotCounted

(* Closing the acceptor cancels what is pending; completions that are queued *)
(* keep their result.                                                        *)
Cancelled == [o \in Objs |-> IF accept[o] = "pending" THEN "aborted" ELSE accept[o]]

(* accept_handler with an error: on_accept_error stops listening unless the  *)
(* operation was cancelled; no next accept.                                  *)
AcceptFailed(o) ==
    /\ accept[o] \in {"failed", "aborted"}
    /\ IF accept[o] = "failed"
       THEN listening' = FALSE /\ accept' = [Cancelled EXCEPT ![o] = "no"]
       ELSE accept' = [accept EXCEPT ![o] = "no"] /\ UNCHANGED listening
    /\ stage' = Dropped(o)
    /\ UNCHANGED <<id, cur_id, object_can, invalid_object_can, appVars, pumpVars>> /\ NotCounted

(* start_listen, under the mutex: false when it listens already, or bind()   *)
(* fails; when listen() fails it returns false with listening left set.      *)
start_listen(listens) ==
    /\ ~listening /\ CanCreate(AcceptNum)
    /\ listening' = TRUE
    /\ IF listens
       THEN /\ create_objects(AcceptNum) /\ stage' = Fresh(AcceptNum)
            /\ accept' = [o \in Objs |-> IF o \in Created(AcceptNum) THEN "pending" ELSE accept[o]]
       ELSE /\ stage' = Destroyed(Created(AcceptNum)) /\ UNCHANGED <<id, accept>>    \* created and freed
            /\ cur_id' = cur_id + AcceptNum
            /\ invalid_object_can' = Only(invalid_object_can, Objs \ Created(AcceptNum))

(* The application: start_listen again after an error; stop_listen.          *)
Listen ==
    /\ role = "server" /\ service_started /\ pump = "running" /\ Counted
    /\ start_listen(TRUE)
    /\ UNCHANGED <<object_can, held, adder, restorer, pumpVars>> /\ NotCounted
StopListen ==
    /\ role = "server" /\ listening /\ Counted
    /\ listening' = FALSE /\ accept' = Cancelled
    /\ UNCHANGED <<poolVars, held, adder, restorer, pumpVars>> /\ NotCounted

-----------------------------------------------------------------------------
(* service_pump and i_service.                                               *)

StartService ==
    /\ pump = "stopped"
    /\ pump' = "starting"
    /\ UNCHANGED <<poolVars, listenVars, appVars, service_started>> /\ NotCounted

(* init() of a server ...                                                    *)
InitServer ==
    /\ pump = "starting" /\ role = "server"
    /\ pump' = "running"
    /\ \/ /\ \E listens \in BOOLEAN : start_listen(listens) /\ service_started' = listens
          /\ UNCHANGED object_can
       \/ /\ service_started' = FALSE    \* it listens already, or bind() failed
          /\ UNCHANGED <<poolVars, listenVars>>
    /\ UNCHANGED appVars /\ NotCounted

(* ... and of clients: start() of all there are.                             *)
InitClients ==
    /\ pump = "starting" /\ role = "client"
    /\ stage' = [o \in Objs |-> IF InCan(o) THEN Started(o)[o] ELSE stage[o]]
    /\ pump' = "running" /\ service_started' = TRUE
    /\ UNCHANGED <<id, cur_id, object_can, invalid_object_can, listenVars, appVars>> /\ NotCounted

(* end_service: uninit() when the service is started: the timers, the        *)
(* listening, then force_shutdown() of all there are; the service is stopped *)
(* and the threads are waited for.                                           *)
EndService ==
    /\ pump = "running" /\ Counted
    /\ pump' = IF service_started THEN "stop_listen" ELSE "join"
    /\ UNCHANGED <<poolVars, listenVars, held, adder, restorer, service_started>> /\ NotCounted
UninitListen ==
    /\ pump = "stop_listen"
    /\ IF role = "server" THEN listening' = FALSE /\ accept' = Cancelled ELSE UNCHANGED listenVars
    /\ pump' = "force_shutdown"
    /\ UNCHANGED <<poolVars, appVars, service_started>> /\ NotCounted
UninitShutdown ==
    /\ pump = "force_shutdown"
    /\ stage' = Shut(Managed)
    /\ pump' = "join" /\ service_started' = FALSE
    /\ UNCHANGED <<id, cur_id, object_can, invalid_object_can, listenVars, appVars>> /\ NotCounted

(* wait_service: nothing is left to run; finalize() empties object_can.      *)
Idle == \A o \in Objs : accept[o] = "no" /\ ~Running(o)
WaitService ==
    /\ pump = "join" /\ Idle /\ adder = None /\ restorer.new = None
    /\ object_can' = [i \in Ids |-> None]
    /\ stage' = Destroyed({o \in Managed : o \notin held /\ ~Listed(o)})
    /\ pump' = "stopped"
    /\ UNCHANGED <<id, cur_id, invalid_object_can, listenVars, appVars, service_started>> /\ NotCounted

-----------------------------------------------------------------------------
(* The application.                                                          *)

(* multi_socket_service::add_socket: create and add ...                      *)
AddClient ==
    /\ role = "client" /\ adder = None /\ Counted
    /\ create_objects(1) /\ stage' = Fresh(1)
    /\ IF Cardinality(Managed) < MaxSize
       THEN object_can' = [object_can EXCEPT ![cur_id + 1] = NewObject] /\ adder' = NewObject /\ UNCHANGED held
       ELSE held' = held \cup {NewObject} /\ UNCHANGED <<object_can, adder>>
    /\ UNCHANGED <<listenVars, restorer, pumpVars>> /\ NotCounted

(* ... then start it, if the pump is started already.                        *)
StartIfStartedNever(o) == stage
StartIfStarted(o) == IF pump = "stopped" THEN stage ELSE Started(o)
AddClientStart ==
    /\ adder # None
    /\ stage' = StartIfStarted(adder)
    /\ adder' = None
    /\ UNCHANGED <<id, cur_id, object_can, invalid_object_can, listenVars, held, restorer, calls, pumpVars>> /\ NotCounted

(* find(), at(), invalid_object_find(): a reference, given back later.       *)
Hold(o) ==
    /\ Counted /\ o \notin held /\ (InCan(o) \/ Listed(o))
    /\ held' = held \cup {o}
    /\ UNCHANGED <<poolVars, listenVars, adder, restorer, pumpVars>> /\ NotCounted
Release(o) ==
    /\ o \in held
    /\ held' = held \ {o}
    /\ stage' = IF InCan(o) \/ Listed(o) \/ accept[o] # "no" \/ stage[o] = "erased" THEN stage ELSE Destroyed({o})
    /\ UNCHANGED <<id, cur_id, object_can, invalid_object_can, listenVars, adder, restorer, calls, pumpVars>> /\ NotCounted

(* force_shutdown(socket_ptr) and its kin delete the object first, under two *)
(* locks that nothing can see between, since the caller refers to it.  Not   *)
(* with restoration: see the precondition in LiveOwned.                      *)
ShutdownHeld(o) ==
    /\ Counted /\ mode # "restore"
    /\ o \in held /\ InCan(o) /\ stage[o] \in {"live", "closing"}
    /\ object_can' = EraseId(object_can, id[o])
    /\ invalid_object_can' = Append(invalid_object_can, o)
    /\ stage' = Shut({o})
    /\ UNCHANGED <<id, cur_id, listenVars, held, adder, restorer, pumpVars>> /\ NotCounted

(* restore_socket(o, i, false) in a handler of o: change_object_id takes the *)
(* invalid object of that id, under one lock ...                             *)
RestorePop(o, i) ==
    /\ mode = "restore" /\ Counted /\ restorer.new = None
    /\ stage[o] = "live" /\ InCan(o)
    /\ \E found \in DOMAIN invalid_object_can :
           LET old == invalid_object_can[found]
           IN  /\ id[old] = i /\ Poppable(old)
               /\ \A k \in 1..(found - 1) : id[invalid_object_can[k]] # i
               /\ restorer' = [new |-> o, old |-> old]
               /\ invalid_object_can' = RemoveAt(invalid_object_can, found)
    /\ UNCHANGED <<stage, id, cur_id, object_can, listenVars, held, adder, pumpVars>> /\ NotCounted

(* ... and init_object_id moves o there, under the other, unless it is there *)
(* already; when another object uses the id again the invalid object goes    *)
(* back, else it is taken over and freed.                                    *)
KeepOld(o, i) == [object_can EXCEPT ![i] = o]
EraseOld(o, i) == [object_can EXCEPT ![i] = o, ![id[o]] = None]
RestoreInit ==
    LET o == restorer.new
        i == id[restorer.old]
    IN  /\ restorer.new # None
        /\ \/ /\ id[o] = i
              /\ stage' = Destroyed({restorer.old})
              /\ UNCHANGED <<id, object_can, invalid_object_can>>
           \/ /\ id[o] # i /\ object_can[i] = None
              /\ object_can' = EraseOld(o, i)
              /\ id' = [id EXCEPT ![o] = i]
              /\ stage' = Destroyed({restorer.old})
              /\ UNCHANGED invalid_object_can
           \/ /\ id[o] # i /\ object_can[i] # None
              /\ invalid_object_can' = Append(invalid_object_can, restorer.old)
              /\ UNCHANGED <<stage, id, object_can>>
        /\ restorer' = [new |-> None, old |-> None]
        /\ UNCHANGED <<cur_id, listenVars, held, adder, calls, pumpVars>> /\ NotCounted

(* restore_socket(o, i, true): the peer chooses an id of its own, or one     *)
(* that could not be restored.                                               *)
RestoreAnew(o, i) ==
    /\ mode = "restore" /\ Counted /\ restorer.new # o
    /\ stage[o] = "live" /\ InCan(o) /\ object_can[i] = None
    /\ object_can' = EraseOld(o, i)
    /\ id' = [id EXCEPT ![o] = i]
    /\ UNCHANGED <<stage, cur_id, invalid_object_can, listenVars, held, adder, restorer, pumpVars>> /\ NotCounted

-----------------------------------------------------------------------------
Init ==
    /\ role \in Roles /\ mode \in Modes
    /\ role = "client" => mode \in {"free", "reuse"}    \* bound: the others are the server's
    /\ stage = [o \in Objs |-> "absent"] /\ id = [o \in Objs |-> 0] /\ cur_id = 0
    /\ object_can = [i \in Ids |-> None] /\ invalid_object_can = <<>>
    /\ accept = [o \in Objs |-> "no"] /\ listening = FALSE
    /\ held = {} /\ adder = None /\ restorer = [new |-> None, old |-> None] /\ calls = 0
    /\ pump = "stopped" /\ service_started = FALSE

Handlers(o) == \/ OnCloseErase(o) \/ OnClosePush(o) \/ Obsolete(o)
               \/ AcceptAdd(o) \/ AcceptStart(o) \/ AcceptCheck(o) \/ AcceptFailed(o)
               \/ start_next_accept(o)
App(o) == Hold(o) \/ Release(o) \/ ShutdownHeld(o)
          \/ \E i \in Ids : RestorePop(o, i) \/ RestoreAnew(o, i)
Service == InitServer \/ InitClients \/ UninitListen \/ UninitShutdown \/ WaitService

Next == \/ free_object \/ clear_obsoleted_object
        \/ \E o \in Objs : Break(o) \/ Connect(o) \/ Handlers(o) \/ App(o)
        \/ Listen \/ StopListen \/ StartService \/ EndService \/ Service
        \/ AddClient \/ AddClientStart \/ RestoreInit

Spec == Init /\ [][Next]_vars

(* Threads run handlers and timers; the pool frees periodically without a    *)
(* macro that keeps objects; references are given back.                      *)
FairSpec == /\ Spec
            /\ \A o \in Objs : WF_vars(Handlers(o)) /\ WF_vars(Release(o))
            /\ WF_vars(AddClientStart) /\ WF_vars(RestoreInit)
            /\ WF_vars(clear_obsoleted_object)
            /\ WF_vars(mode \in {"free", "clear"} /\ service_started /\ free_object)

-----------------------------------------------------------------------------
(* Properties.                                                               *)

TypeOK ==
    /\ role \in Roles /\ mode \in Modes
    /\ stage \in [Objs -> Stages] /\ id \in [Objs -> 0..MaxId] /\ cur_id \in 0..MaxId
    /\ object_can \in [Ids -> Objs \cup {None}] /\ invalid_object_can \in Seq(Objs)
    /\ accept \in [Objs -> Accepts] /\ listening \in BOOLEAN
    /\ held \subseteq Objs /\ adder \in Objs \cup {None}
    /\ restorer \in [new : Objs, old : Objs] \cup {[new |-> None, old |-> None]} /\ calls \in 0..MaxCalls
    /\ pump \in {"stopped", "starting", "running", "stop_listen", "force_shutdown", "join"}
    /\ service_started \in BOOLEAN

(* Both containers agree with the objects in them: a key of object_can is    *)
(* the id of its object, no object is in both or twice in the list, and no  *)
(* object is freed or reused while something refers to it, whatever accepts, *)
(* closings, restorations and releases overlap (object_pool.h:62-165,        *)
(* 257-362).                                                                 *)
PoolSound ==
    /\ \A i \in Ids : object_can[i] # None => id[object_can[i]] = i
    /\ \A o \in Objs : Referenced(o) => stage[o] # "absent"
    /\ \A o \in Objs : Listed(o) => ~InCan(o) /\ stage[o] \notin {"absent", "fresh"}
    /\ IsInjective(invalid_object_can)

(* An object whose handlers may still run is owned by the pool or by a       *)
(* handler that refers to it, so it is neither destroyed nor reused under    *)
(* them (object_pool.h:386-390); del_object erases by id, which is why an    *)
(* application that restores ids must not delete a socket before it closes.  *)
LiveOwned == \A o \in Objs : Running(o) => Listed(o) \/ InCan(o) \/ stage[o] = "erased"

(* A server that listens has at least one accept under way, or one to start, *)
(* so it goes on accepting: no handler ends between stop_listen and          *)
(* start_listen taking the loop with it (server.h:81-127, 251-263).          *)
KeepsAccepting == (listening /\ service_started) => \E o \in Objs : accept[o] # "no"

(* A client added while the service starts is started by one of the two,     *)
(* never by none (socket_service.h:57-62, 78-90).                            *)
AddedStarts == (role = "client" /\ pump = "running") => \A o \in Managed : stage[o] = "fresh" => adder = o

(* While the service runs, a socket that closes is freed in the end, unless  *)
(* objects are kept for reuse (object_pool.h:50-58, 297-362).  The bounds on *)
(* objects and ids hold up the accept handler that refers to it.             *)
HeldUp(o) == accept[o] = "next" /\ ~CanCreate(1)
BrokenFreed == \A o \in Objs :
    (stage[o] = "closing" /\ mode \in {"free", "clear"}) ~> (stage[o] = "absent" \/ ~service_started \/ HeldUp(o))
=============================================================================
