------------------------------- MODULE Links -------------------------------
(***************************************************************************)
(* What ssl, websocket, websocket over ssl and the socks proxies add to    *)
(* the life of a TCP socket: handshakes between the connection (or the     *)
(* accepted link) and do_start(), their own ways to shut down, and the     *)
(* renewal of the ssl stream when the link is over.  Both endpoints, and   *)
(* a client that may connect again.  One service thread, which also runs   *)
(* the application: a handler is one step; what a handler dispatches to    *)
(* rw_strand from outside it is queued, and the completion of an operation *)
(* may be ready before its handler runs.  ClientSocket has the races of    *)
(* several threads; the reads of messages that succeed leave no trace.     *)
(***************************************************************************)
EXTENDS Integers, Sequences, FiniteSets

CONSTANTS
    Kinds,          \* of links: <<layer, role>>
    SocksBuf,       \* sizeof(buff)
    Replies,        \* lengths of a socks5 proxy's answer to the request, by its type
    MaxCalls,       \* bound: shutdowns the application asks for
    MaxFaults       \* bound: what the network breaks or refuses

ASSUME LinksAssumption ==
    /\ Kinds \subseteq ({"socks4", "socks5"} \X {"client"}) \cup ({"ssl", "ws", "wss"} \X {"client", "server"})
    /\ SocksBuf \in Nat /\ Replies \subseteq Nat /\ MaxCalls \in Nat /\ MaxFaults \in Nat

VARIABLES
    kind,           \* the kind of this link; it does not change
    direct,         \* socks: no target is set, the proxy is not used
    status, started, need_reconnect,
    timers,
    op, at,         \* connect, ssl, ws, write, read or none; pending, ok or failed
    step, res_len,  \* socks5
    reply,          \* of the proxy's answer: its length, what is unread, whether it agrees, its method
    done,           \* history: handshakes that succeeded on this connection
    recv,           \* async_read of messages: none, pending, failed
    bye,            \* async_shutdown or async_close: none, pending, over
    tasks,          \* what is queued for rw_strand
    alive,
    asked,          \* history: a shutdown was asked, or a handshake failed, since on_close
    reset_busy,     \* history: a stream was renewed under an operation
    calls, faults

proxyVars == <<step, res_len, reply>>
lifeVars == <<status, started, need_reconnect>>
bounds == <<calls, faults>>
allVars == <<kind, direct, lifeVars, timers, op, at, proxyVars, done, recv, bye, tasks, alive, asked, reset_busy, bounds>>

Layer == kind[1]
IsClient == kind[2] = "client"
Fault == faults < MaxFaults /\ faults' = faults + 1
NoReply == [len |-> 0, left |-> 0, yes |-> FALSE, method |-> 0]
Needs == CASE Layer \in {"socks4", "socks5"} -> IF direct THEN {} ELSE {"proxy"}
           [] Layer = "wss" -> {"ssl", "ws"}
           [] OTHER -> {Layer}

(* On a layer that is shut down an operation fails at once.                  *)
Begin(what) == op' = what /\ at' = IF alive \/ what = "connect" THEN "pending" ELSE "failed"
NoOp == op' = "none" /\ at' = "pending"
Ended(what) == op = what /\ at # "pending"

(* tcp::socket_base::do_start, through every connect_handler and do_start.   *)
DoStart == status' = "CONNECTED" /\ recv' = (IF alive THEN "pending" ELSE "failed") /\ NoOp

-----------------------------------------------------------------------------
(* Shutdowns.                                                                *)

(* close(); DELAY_CLOSE is set after every other timer was stopped, and what *)
(* is outstanding on the layer fails.                                        *)
close(operation, state) ==
    /\ op' = operation
    /\ IF started
       THEN /\ started' = FALSE /\ timers' = {"DELAY_CLOSE"} /\ alive' = FALSE
            /\ at' = IF state = "pending" /\ operation # "none" THEN "failed" ELSE state
            /\ recv' = IF recv = "pending" THEN "failed" ELSE recv
            /\ bye' = IF bye = "pending" THEN "over" ELSE bye
       ELSE at' = state /\ UNCHANGED <<started, timers, alive, recv, bye>>

(* _force_shutdown, in rw_strand.                                            *)
_force_shutdown(operation, state) ==
    IF status = "FORCE" THEN op' = operation /\ at' = state /\ UNCHANGED <<status, started, timers, alive, recv, bye>>
    ELSE /\ status' = IF status = "BROKEN" THEN status ELSE "FORCE"
         /\ close(operation, state)

Queue(task) == tasks' = Append(tasks, task)

(* start() of a client: TIMER_CONNECT.                                       *)
StartClient == started' = TRUE /\ timers' = timers \cup {"CONNECT"}

(* force_shutdown(reconnect) of the application; ssl and websocket sockets   *)
(* that are ready end their own layer first (shutdown_ssl,                   *)
(* shutdown_websocket), the others, and those not ready, by force.           *)
force_shutdown ==
    /\ calls < MaxCalls /\ calls' = calls + 1
    /\ asked' = (started \/ "DELAY_CLOSE" \in timers)
    /\ \E reconnect \in IF IsClient THEN BOOLEAN ELSE {FALSE} :
          /\ need_reconnect' = reconnect
          /\ IF Layer \in {"ssl", "ws", "wss"} /\ status = "CONNECTED"
             THEN status' = "GRACEFUL" /\ Queue("shutdown") /\ UNCHANGED <<started, timers>>
             ELSE /\ IF reconnect /\ status = "BROKEN" /\ ~started
                     THEN /\ IF "DELAY_CLOSE" \in timers THEN UNCHANGED <<started, timers>> ELSE StartClient
                          /\ UNCHANGED tasks
                     ELSE Queue("force") /\ UNCHANGED <<started, timers>>
                  /\ UNCHANGED status
    /\ UNCHANGED <<kind, direct, op, at, proxyVars, done, recv, bye, alive, reset_busy, faults>>

RunForce ==
    /\ tasks # <<>> /\ Head(tasks) = "force"
    /\ tasks' = Tail(tasks)
    /\ _force_shutdown(op, at)
    /\ UNCHANGED <<kind, direct, need_reconnect, proxyVars, done, asked, reset_busy, bounds>>

(* The rest of shutdown_ssl and of shutdown_websocket, in rw_strand.         *)
(* Mutant: nothing watches over the peer's answer.                           *)
MonitorNot == UNCHANGED timers
start_graceful_shutdown_monitoring == timers' = timers \cup {"ASYNC_SHUTDOWN"}
RunShutdown ==
    /\ tasks # <<>> /\ Head(tasks) = "shutdown"
    /\ tasks' = Tail(tasks)
    /\ start_graceful_shutdown_monitoring
    /\ bye' = IF alive THEN "pending" ELSE "over"
    /\ UNCHANGED <<kind, direct, lifeVars, op, at, proxyVars, done, recv, alive, asked, reset_busy, bounds>>

(* The peer may answer.  A websocket's read ends with it; ssl's may not      *)
(* (ssl.h:53-55).                                                            *)
PeerSaysBye ==
    /\ bye = "pending" /\ bye' = "over"
    /\ recv' \in IF recv # "pending" THEN {recv} ELSE IF Layer = "ssl" THEN {"pending", "failed"} ELSE {"failed"}
    /\ UNCHANGED <<kind, direct, lifeVars, timers, op, at, proxyVars, done, tasks, alive, asked, reset_busy, bounds>>
ByeHandler ==
    /\ bye = "over" /\ bye' = "none"
    /\ timers' = IF Layer = "ssl" THEN timers ELSE timers \ {"ASYNC_SHUTDOWN"}
    /\ UNCHANGED <<kind, direct, lifeVars, op, at, proxyVars, done, recv, tasks, alive, asked, reset_busy, bounds>>

(* shutdown_handler(1): on_async_shutdown_error, or nothing.                 *)
AsyncShutdownTimer ==
    /\ "ASYNC_SHUTDOWN" \in timers
    /\ timers' = timers \ {"ASYNC_SHUTDOWN"}
    /\ IF status = "GRACEFUL" THEN Queue("force") ELSE UNCHANGED tasks
    /\ UNCHANGED <<kind, direct, lifeVars, op, at, proxyVars, done, recv, bye, alive, asked, reset_busy, bounds>>

(* recv_handler with an error, in rw_strand: on_recv_error (ssl stops its    *)
(* monitoring) and force_shutdown(need_reconnect).                           *)
RecvError ==
    /\ recv = "failed"
    /\ LET stopped == IF Layer = "ssl" THEN timers \ {"ASYNC_SHUTDOWN"} ELSE timers
       IN IF status = "FORCE"
          THEN timers' = stopped /\ recv' = "none" /\ UNCHANGED <<status, started, op, at, bye, alive>>
          ELSE /\ status' = IF status = "BROKEN" THEN status ELSE "FORCE"
               /\ recv' = "none"
               /\ IF started
                  THEN /\ started' = FALSE /\ timers' = {"DELAY_CLOSE"} /\ alive' = FALSE
                       /\ bye' = IF bye = "pending" THEN "over" ELSE bye
                  ELSE timers' = stopped /\ UNCHANGED <<started, alive, bye>>
               /\ UNCHANGED <<op, at>>
    /\ UNCHANGED <<kind, direct, need_reconnect, proxyVars, done, tasks, asked, reset_busy, bounds>>

-----------------------------------------------------------------------------
(* TIMER_DELAY_CLOSE: on_close when no other asynchronous call is left, then *)
(* after_close.                                                              *)

Outstanding == op # "none" \/ recv # "none" \/ bye # "none" \/ tasks # <<>>
(* Mutant: only timers are asynchronous calls.                               *)
LastButOperations == timers = {"DELAY_CLOSE"}
is_last_async_call == ~Outstanding /\ timers = {"DELAY_CLOSE"}

RenewsStream == IsClient /\ Layer \in {"ssl", "wss"}
DelayClose ==
    /\ "DELAY_CLOSE" \in timers /\ is_last_async_call
    /\ status' = "BROKEN" /\ asked' = FALSE
    /\ reset_busy' = (reset_busy \/ (RenewsStream /\ Outstanding))
    /\ started' = need_reconnect
    /\ timers' = IF need_reconnect THEN {"CONNECT"} ELSE {}
    /\ UNCHANGED <<kind, direct, need_reconnect, op, at, proxyVars, done, recv, bye, tasks, alive, bounds>>

-----------------------------------------------------------------------------
(* A client connects; TIMER_CONNECT_DELAY tries again after a failure, when  *)
(* TIMER_CONNECT is over.                                                    *)

ConnectTimer ==
    /\ "CONNECT" \in timers
    /\ timers' = timers \ {"CONNECT"}
    /\ Begin("connect") /\ done' = {} /\ reply' = NoReply
    /\ UNCHANGED <<kind, direct, lifeVars, step, res_len, recv, bye, tasks, alive, asked, reset_busy, bounds>>

(* prepare_next_reconnect.                                                   *)
ConnectDelay ==
    /\ "CONNECT_DELAY" \in timers /\ "CONNECT" \notin timers
    /\ IF need_reconnect /\ started
       THEN alive' = FALSE /\ timers' = (timers \ {"CONNECT_DELAY"}) \cup {"CONNECT"} /\ UNCHANGED tasks
       ELSE Queue("force") /\ timers' = timers \ {"CONNECT_DELAY"} /\ UNCHANGED alive
    /\ UNCHANGED <<kind, direct, lifeVars, op, at, proxyVars, done, recv, bye, asked, reset_busy, bounds>>

(* tcp::client_socket_base::connect_handler with an error.                   *)
ConnectFailed == timers' = timers \cup {"CONNECT_DELAY"} /\ NoOp

(* Operations end.                                                           *)
Happens(what, outcome) ==
    /\ op = what /\ at = "pending"
    /\ at' = outcome
    /\ IF outcome = "failed" THEN Fault ELSE UNCHANGED faults
    /\ UNCHANGED <<kind, direct, lifeVars, timers, op, proxyVars, done, recv, bye, tasks, asked, reset_busy, calls>>
Connects ==
    \/ Happens("connect", "ok") /\ alive' = TRUE
    \/ Happens("connect", "failed") /\ UNCHANGED alive
Completes(what) == Happens(what, "ok") /\ UNCHANGED alive
Breaks(what) == Happens(what, "failed") /\ UNCHANGED alive
PeerLeaves ==
    /\ recv = "pending" /\ alive /\ Fault
    /\ recv' = "failed"
    /\ UNCHANGED <<kind, direct, lifeVars, timers, op, at, proxyVars, done, bye, tasks, alive, asked, reset_busy, calls>>

(* The handshakes still to be made, in order: ssl before websocket.  Once    *)
(* there is none, do_start.                                                  *)
Proceed(made) ==
    LET left == Needs \ made
    IN IF left = {} THEN DoStart
       ELSE /\ status' = "HANDSHAKING" /\ UNCHANGED recv
            /\ Begin(IF "ssl" \in left THEN "ssl" ELSE IF "ws" \in left THEN "ws" ELSE "write")

(* connect_handler of every layer.  With ssl under a websocket the name of   *)
(* the server may be refused, which counts as a failed connection.           *)
connect_handler ==
    /\ Ended("connect")
    /\ \/ at = "ok" /\ Proceed({}) /\ step' = 0 /\ UNCHANGED <<timers, faults>>
       \/ at = "ok" /\ Layer = "wss" /\ Fault /\ status' = "HANDSHAKING" /\ ConnectFailed /\ UNCHANGED <<recv, step>>
       \/ at = "failed" /\ ConnectFailed /\ UNCHANGED <<status, recv, step, faults>>
    /\ res_len' = 0
    /\ UNCHANGED <<kind, direct, started, need_reconnect, reply, done, bye, tasks, alive, asked, reset_busy, calls>>

(* What a failed handshake does: the client is shut down and will not        *)
(* connect again, the server deletes the socket.                             *)
GiveUp == need_reconnect' = FALSE /\ Queue("force") /\ NoOp /\ asked' = TRUE

(* handle_handshake.  Mutant: a handshake of ssl is all a websocket needs.   *)
HandshakenOnce(made) == Proceed(Needs)
Handshaken(made) == Proceed(made)
handle_handshake ==
    /\ op \in {"ssl", "ws"} /\ at # "pending"
    /\ IF at = "ok"
       THEN done' = done \cup {op} /\ Handshaken(done \cup {op}) /\ UNCHANGED <<need_reconnect, tasks, asked>>
       ELSE GiveUp /\ UNCHANGED <<status, recv, done>>
    /\ UNCHANGED <<kind, direct, started, timers, proxyVars, bye, alive, reset_busy, bounds>>

-----------------------------------------------------------------------------
(* The socks proxies.                                                        *)

(* send_handler; the proxy answers.  It may send a byte more than it should. *)
Answers ==
    LET methods == IF Layer = "socks5" /\ step = 0 THEN {0, 2, 255} ELSE {0}
        lengths == IF Layer = "socks4" THEN {8}
                   ELSE IF step < 2 THEN {2, 3}
                   ELSE Replies \cup {n + 1 : n \in Replies}
    IN {[len |-> n, left |-> n, yes |-> y, method |-> m] : n \in lengths, y \in BOOLEAN, m \in methods}
(* What was left of the last answer comes first and is taken for this one's. *)
After(left, answer) ==
    IF left = 0 THEN answer ELSE [len |-> left + answer.len, left |-> left + answer.len, yes |-> FALSE, method |-> 255]
send_handler ==
    /\ Ended("write")
    /\ IF at = "ok"
       THEN /\ step' = step + 1 /\ res_len' = 0 /\ Begin("read")
            /\ \E answer \in Answers : reply' = After(reply.left, answer)
            /\ UNCHANGED <<need_reconnect, tasks, asked>>
       ELSE GiveUp /\ UNCHANGED proxyVars
    /\ UNCHANGED <<kind, direct, status, started, timers, done, recv, bye, alive, reset_busy, bounds>>

(* What one read may bring: socks4 reads its 8 bytes, socks5 what is there,  *)
(* into what is left of the buffer.                                          *)
Arriving == IF Layer = "socks4" THEN {reply.left}
            ELSE 1..(IF reply.left < SocksBuf - res_len THEN reply.left ELSE SocksBuf - res_len)

(* Verdicts on a reply of which n bytes are there.                           *)
Failure == "failure"
More == "more"
Success == "success"
parse_method(n) ==
    IF n < 2 THEN More ELSE IF n > 2 THEN Failure
    ELSE IF reply.method = 0 THEN "request" ELSE IF reply.method = 2 THEN "auth" ELSE Failure
parse_auth(n) ==
    IF n < 2 THEN More ELSE IF n > 2 \/ ~reply.yes THEN Failure ELSE "request"
(* Its length by its type; what the proxy sends after it is too much.        *)
Expected == IF reply.len \in Replies THEN reply.len ELSE reply.len - 1
(* Mutant: the head of the reply is taken for the reply.                     *)
parse_request_head(n) == IF n < 6 THEN More ELSE IF reply.yes THEN Success ELSE Failure
parse_request(n) ==
    IF n < 6 THEN More ELSE IF ~reply.yes THEN Failure
    ELSE IF n < Expected THEN More ELSE IF n > Expected THEN Failure ELSE Success
Verdict(n) ==
    IF Layer = "socks4" THEN IF reply.yes THEN Success ELSE Failure
    ELSE CASE step = 1 -> parse_method(n) [] step = 2 -> parse_auth(n) [] OTHER -> parse_request(n)

recv_handler ==
    /\ Ended("read")
    /\ \/ /\ at = "ok"
          /\ \E n \in Arriving :
                LET total == res_len + n
                    verdict == Verdict(total)
                IN /\ reply' = [reply EXCEPT !.left = @ - n]
                   /\ \/ /\ verdict = Success
                         /\ done' = done \cup {"proxy"} /\ DoStart
                         /\ UNCHANGED <<step, res_len, need_reconnect, tasks, asked>>
                      \/ /\ verdict \in {"request", "auth"}
                         /\ step' = IF verdict = "request" /\ step = 1 THEN 2 ELSE step
                         /\ res_len' = 0 /\ Begin("write")
                         /\ UNCHANGED <<status, recv, done, need_reconnect, tasks, asked>>
                      \/ /\ verdict = More /\ total < SocksBuf
                         /\ res_len' = total /\ Begin("read")
                         /\ UNCHANGED <<status, recv, step, done, need_reconnect, tasks, asked>>
                      \/ /\ verdict = Failure \/ (verdict = More /\ total >= SocksBuf)
                         /\ GiveUp
                         /\ UNCHANGED <<status, recv, step, res_len, done>>
       \/ at = "failed" /\ GiveUp /\ UNCHANGED <<status, recv, proxyVars, done>>
    /\ UNCHANGED <<kind, direct, started, timers, bye, alive, reset_busy, bounds>>

-----------------------------------------------------------------------------
(* The application has started a client, or the server has accepted a link.  *)
LinkInit ==
    /\ kind \in Kinds
    /\ direct \in IF Layer \in {"socks4", "socks5"} THEN BOOLEAN ELSE {FALSE}
    /\ started = TRUE /\ alive = ~IsClient /\ need_reconnect = IsClient
    /\ status = IF IsClient THEN "BROKEN" ELSE "HANDSHAKING"
    /\ timers = IF IsClient THEN {"CONNECT"} ELSE {}
    /\ op = IF IsClient THEN "none" ELSE IF Layer = "ws" THEN "ws" ELSE "ssl"
    /\ at = "pending" /\ step = 0 /\ res_len = 0 /\ reply = NoReply /\ done = {}
    /\ recv = "none" /\ bye = "none" /\ tasks = <<>> /\ asked = FALSE /\ reset_busy = FALSE
    /\ calls = 0 /\ faults = 0

Handlers ==
    \/ RunForce \/ RunShutdown \/ ByeHandler \/ AsyncShutdownTimer \/ RecvError \/ DelayClose
    \/ ConnectTimer \/ ConnectDelay \/ connect_handler \/ handle_handshake \/ send_handler \/ recv_handler
LinkNext ==
    \/ Handlers \/ force_shutdown \/ PeerSaysBye \/ PeerLeaves \/ Connects
    \/ \E what \in {"ssl", "ws", "write", "read"} : Completes(what) \/ Breaks(what)

LinkSpec == LinkInit /\ [][LinkNext]_allVars
(* The service thread runs what is ready, timers expire, a connection        *)
(* attempt ends; a peer need not say anything.                               *)
FairSpec == LinkSpec /\ WF_allVars(Handlers) /\ WF_allVars(DelayClose) /\ WF_allVars(AsyncShutdownTimer) /\ WF_allVars(Connects)

-----------------------------------------------------------------------------
(* Properties.                                                               *)

TimerIds == {"CONNECT", "CONNECT_DELAY", "DELAY_CLOSE", "ASYNC_SHUTDOWN"}
LinkTypeOK ==
    /\ kind \in Kinds /\ direct \in BOOLEAN
    /\ status \in {"BROKEN", "HANDSHAKING", "CONNECTED", "FORCE", "GRACEFUL"}
    /\ started \in BOOLEAN /\ need_reconnect \in BOOLEAN /\ timers \subseteq TimerIds
    /\ op \in {"none", "connect", "ssl", "ws", "write", "read"} /\ at \in {"pending", "ok", "failed"}
    /\ step \in Nat /\ res_len \in Nat
    /\ reply \in [len : Nat, left : Nat, yes : BOOLEAN, method : {0, 2, 255}]
    /\ done \subseteq {"proxy", "ssl", "ws"}
    /\ recv \in {"none", "pending", "failed"} /\ bye \in {"none", "pending", "over"}
    /\ tasks \in Seq({"force", "shutdown"})
    /\ alive \in BOOLEAN /\ asked \in BOOLEAN /\ reset_busy \in BOOLEAN /\ calls \in Nat /\ faults \in Nat

(* A link is told to be connected only after every handshake of its kind     *)
(* succeeded on this very connection, the proxy agreed, and its answer, no   *)
(* more and no less, was taken before the unpacker reads on (tcp/socket.h:   *)
(* 235-242 through ssl.h:117, websocket.h:178, wss ssl.h:115, socks.h:353).  *)
Negotiated ==
    status = "CONNECTED" =>
        /\ done = Needs
        /\ Layer = "socks4" /\ ~direct => reply.yes /\ reply.left = 0
        /\ Layer = "socks5" /\ ~direct => reply.yes /\ reply.len - reply.left = Expected

(* The stream of ssl is renewed only when no operation is outstanding on it  *)
(* (ssl.h:96-100, wss ssl.h:86-90 against socket.h:713), and no message is   *)
(* read while a handshake is: the stream does one at a time.                 *)
StreamAlone == ~reset_busy /\ (recv # "none" => op = "none")

(* A shutdown that is asked, and a handshake that fails, end in on_close,    *)
(* whatever the peer does or does not (socket.h:408-447, ssl.h:46-60,        *)
(* websocket.h:101-113).                                                     *)
Ends == []<>~asked
=============================================================================
