# A verification project for ascs

ascs is a C++ header library on top of Asio: TCP and UDP sockets with send and
receive buffers, message packing and unpacking, reconnection, object pools and
a pump of service threads. Everything that is hard in it comes from one
decision: a socket is used by many threads at once, and most of its state is
guarded by no lock, only by two strands, a few atomic words and timers. The
project models those protocols in TLA+, checks them with TLC on small
instances, and proves the central ones with TLAPS.

Paths below are relative to `src/include/ascs/` unless they begin with
`examples/`.

## The system

| Component | State | Operations | Talks to |
|---|---|---|---|
| `socket` + `tcp::socket_base`, sending (`socket.h`, `tcp/socket.h`) | `send_buffer`, `sending`, `sending_msgs` | `send_msg`, `direct_send_msg`, `do_send_msg`, `send_handler`, `pop_*_pending_send_msg`, `shrink_send_buffer` | application threads call it; `rw_strand` runs the loop; Asio's `async_write` |
| the same, receiving and dispatching | `recv_buffer`, `dispatching`, `dispatching_msg` | `do_recv_msg`, `recv_handler`, `handle_msg`, `check_receiving`, `dispatch_msg`, `do_dispatch_msg` | `rw_strand`, `dis_strand`, timers CHECK_RECV and DISPATCH_MSG, the application's `on_msg_handle` |
| synchronous calls (`socket.h`, `base.h`) | `sr_status`, `temp_msg_can`, one mutex, one condition variable, a promise per message | `sync_recv_msg`, `sync_send_msg`, `sync_safe_send_msg` | block application threads, and `rw_strand` for a moment |
| life of a TCP client (`tcp/client_socket.h`) | `started_`, `start_atomic`, `status`, `need_reconnect`, `obsoleted_` | `start`, `close`, force and graceful shutdown, `connect`, `prepare_next_reconnect`, `on_close`, `after_close` | timers CONNECT, CONNECT_DELAY, DELAY_CLOSE, ASYNC_SHUTDOWN; `object_pool` reads `obsoleted()` |
| layers (`tcp/ssl`, `tcp/websocket`, `tcp/proxy`) | `status`, the ssl stream, `step`, `res_len` | handshakes, negotiations, `shutdown_ssl`, `shutdown_websocket` | intercept `connect_handler`, `do_start` and the shutdowns of the TCP socket |
| packers and unpackers (`ext/`) | bytes left over, length of the message under way | `pack_msg`, `parse_msg`, `completion_condition`, `prepare_next_recv` | Asio's `async_read`, `recv_handler` |
| `timer` (`timer.h`) | per timer `status`, `seq` (a byte), one wait | `set_timer`, `start_timer`, `stop_timer`, the completion handler | any service thread; every other component |
| `tracked_executor` | the counter `aci` | wraps every asynchronous call | DELAY_CLOSE asks whether a call is the last |
| `queue` (`container.h`) | a list and its size in bytes | enqueue, move in, move out, swap, under a lock; `empty()` without | both buffers |
| `tcp::server`, `server_socket` | acceptor, `listening` | accept loop, restore, shutdown of all | `object_pool`, `service_pump` |
| `object_pool`, `multi_socket_service`, `multi_client` | `object_can`, `invalid_object_can`, `cur_id` | add, delete, reuse, change id, free | sockets |
| `service_pump` | io_contexts with references, threads, services | start, stop, end, add and delete threads and contexts | everything |
| `udp::socket`, `reliable_socket` (KCP) | one datagram in flight, `sending`, KCP's queue | `do_send_msg`, `check_send_cc`, `resume_sending`, TIMER_CC | strand, timer threads, KCP |
| file transfer (`examples/file_client`, `file_server`, `file_common`) | state and unpacker of each link, job list, progress timer | `get_file`, `put_file`, orders 0, 1, 10, 11 | two ends over several links, the library underneath |

What makes these hard:

* **A wakeup without a lock.** A sender puts a message into the buffer and then
  looks at `sending`; the strand clears `sending` and then looks at the buffer.
* **Timers belong to nobody.** A timer's handler runs on any service thread,
  outside both strands, while other code starts or stops the same timer. Only
  `status` and an 8-bit `seq` decide what an old handler may still do.
* **Loops that stop and are resumed by timers**: back pressure, messages that
  `on_msg_handle` refuses, congestion.
* **The end of a socket**: `close()` only starts it, the timer DELAY_CLOSE polls
  until the reference count says that nothing else is left; then a client
  connects again, an ssl stream is renewed, a pool frees or reuses the object.
* **Two locks, or none, around one decision**: two containers of a pool, a
  pool and the state of the service, two counters of threads.
* **A byte stream with a changing reader**: a read must end when, and only
  when, a message is whole; a proxy's answer or a file ends inside the stream.
* **Failure**: the link breaks between any two steps, a connection is refused,
  a handshake fails, bytes cannot be unpacked, a file does not open.

What makes a component correct:

* sending: one write at a time, the order of each thread's messages, every
  accepted message in exactly one place, no message left in the buffer when
  nothing is going on;
* receiving: the order of arrival, each message handled once, one outstanding
  read, both loops alive on a working link;
* synchronous calls: a message goes to one taker, an answer is true, the strand
  is never kept waiting;
* client and layers: no connection attempt while something of the last one is
  left, a started client is always on its way somewhere, connected means
  negotiated, a shutdown ends;
* pool and server: an object is freed or reused only when nothing can run on it
  or refer to it, the containers agree with the objects, the accept loop lives;
* pump: a context with work has a thread, stopping leaves nothing behind;
* framing: what is sent is received, cut anywhere;
* UDP: one datagram at a time, congestion ends;
* file transfer: the file arrives, contents are never orders, all jobs end.

## Modules

| Module | Models | Instances |
|---|---|---|
| `SendChannel` | abstract: queue, batch in flight, delivered, lost | |
| `TcpSend` | the sending half, one shared-memory access per step; implements `SendChannel` | `MCTcpSend` |
| `TimerInfo` | one `timer_info` as a record, and what starting and stopping do to it; extended by the modules of sockets with timers | |
| `RecvDispatch` | the receiving half with its two timers | `MCRecvDispatch` |
| `RecvDispatchProofs` | theorems about `RecvDispatch` | |
| `ClientSocket` | the life of a TCP client with its four timers | `MCClientSocket` |
| `ClientSocketProofs` | theorems about `ClientSocket` | |
| `SocketPool` | `object_pool` with the accept loop of a server, or with the clients of a container | `MCSocketPool` |
| `SocketPoolProofs` | theorems about `SocketPool` | |
| `ServicePump` | threads, io_contexts and services | `MCServicePump` |
| `ServicePumpProofs` | theorems about `ServicePump` | |
| `Framing` | a packer, a stream, an unpacker and the read loop between them | `MCFraming` |
| `UdpSocket` | `udp::socket` and `reliable_socket` | `MCUdpSocket` |
| `UdpSocketProofs` | theorems about `UdpSocket` | |
| `SyncCalls` | blocking calls against the strand | `MCSyncCalls` |
| `SyncCallsProofs` | theorems about `SyncCalls` | |
| `Links` | ssl, websocket, websocket over ssl and socks links of both ends | `MCLinks` |
| `TcpProofs` | theorems about `TcpSend` and about `Links` | |
| `FileTransfer` | client and server of a file over several links | `MCFileTransfer` |
| `FileTransferProofs` | theorems about `FileTransfer` | |

`PROJECT.json` maps each definition to its lines. Names follow the source. A
module's `TypeOK` documents its variables; add it to a configuration to check
it. A definition whose comment begins with "Mutant:", or which stands beside
another one with a longer name, is a plausible mistake used to test a property.

### TcpSend

A step is one access to something shared: the size of the buffer, an insertion
under the lock, a load or an exchange of `sending`, one look at `empty()`.
`send_msg()` is the three steps `ReadReady`, `LoadSending`, `Post`; the handler
of `rw_strand` goes through `check`, `test_and_set`, `move`, `clear`, `recheck`
(`strandPc`), the strand's queue is `strandQ`. With `ASCS_ARBITRARY_SEND` a
thread goes straight to `Post`. `Fail`, `Close` and `Restart` are what sending
can tell of the link: writes may fail, `is_ready()` turns false, and `do_start`
calls `send_msg()` on the next connection.

Memory: with `StoreBuffer = FALSE` it is sequentially consistent. With TRUE, the
release store of `clear_sending` (`socket.h:404`) may stay invisible to the
other threads while the strand reads the buffer; it becomes visible in a later
step (`Flush`), at the latest before the strand's next exchange or next
handler. That is what x86 does and what release order permits. The unlocked
`empty()` (`container.h:80`) reads the present state of the list.

Messages have equal size, `Msg` records who sent them, their number and whether
they had priority. `move_items_out` by bytes becomes a number of messages
(`MoveOut`), including the rounding up.

### RecvDispatch, ClientSocket, TimerInfo

`due` are the completion handlers that Asio has queued, with the `seq` they
captured; `Compare` and `Cancel` are the two halves of
`else if (prev_seq == ti.seq) ti.status = TIMER_CANCELED` (`timer.h:179`).
`rwQ` is what `rw_strand` has to run and `disQ` how many `do_dispatch_msg` are
queued in `dis_strand`; `job` is where each service thread is. A read yields a
few messages, an error of the link, or bytes that are no message
(`on_unpack_error`). `Restart` is the end of DELAY_CLOSE: a client keeps its
buffers and connects again, another socket is reset; `setting` fixes which, and
how many threads run. `OthersDone` of `ClientSocket` is `is_last_async_call()`:
nothing pending, queued or running elsewhere. The shutdowns are documented as
not thread safe (`tcp/client_socket.h:89`), so the service thread is the caller.
`prepare_reconnect` is the default one, which never gives up. `seq` counts
modulo `SeqMod`, 4 instead of 256; the bounds keep one handler from being
overtaken by a full round.

### SocketPool

Each step is what one thread does under one lock, or between two. Of a socket
the pool sees only `stage`: fresh, live, closing, taken out of `object_can`
(erased), put into `invalid_object_can` (closed), obsolete. `accept` is where
each object's `async_accept` and `accept_handler` are; `restorer` is
`restore_socket` between its locks, `adder` a client's `add_socket` between
adding and looking at the service, `held` the application's pointers. `mode` is
the policy of the macros `ASCS_CLEAR_OBJECT_INTERVAL`, `ASCS_REUSE_OBJECT` and
`ASCS_RESTORE_OBJECT`. `pump` gives the phases of `init` and `uninit`. Clients
that connect again are not in it: their object never becomes obsolete. `Only` is
the list that is left when some elements go, as `free_object` and
`invalid_object_pop` leave it; it is not `SelectSeq`, of which nothing could be
proved.

### ServicePump

A context has outstanding work when a service on it has an operation or a work
guard is held; without either it stops, as Asio does. A thread is in `run()` or,
with `ASCS_DECREASE_THREAD_AT_RUNTIME`, in the loop of `service_pump.h:412`, one
access to a counter per step. `refs` are the references of contexts, `uses`
what each service knows of its own; `Held(c)` numbers the references that the
services of a context hold, so that `RefsExact` compares a counter with a count.
`Spawn` says of each thread of a round that it gets a context with the fewest
threads before it, which is what the loop of `add_service_thread` does one by
one. `halted`, `late` and `lost` are history:
`stop()` was called, a service was made before there were several contexts, an
exception ended a thread.

### Framing

A byte is a digit, a head two digits, so heads can overflow, be read at a wrong
place and be refused. `kind` chooses the unpacker; `read_some` is one round of
`async_read`: bytes arrive, the completion condition says whether to go on.
`Parse*` are the `parse_msg` of the unpackers, with the bytes left over. The
sender uses each way to pack (copied, moved, with heartbeats, packer2's
buffers) that belongs to the unpacker; `SendForeign` is a peer whose frame is
not one.

### UdpSocket

The strand's `task` goes through `do_send_msg` by single accesses, `callback` is
TIMER_CC in its own thread, `sending_msg` the datagram. KCP is external: a queue,
unacknowledged segments in a window, lost ones that are sent again.

### SyncCalls

The mutex, the condition variable (`cv`, `woken`) and `sr_status` are explicit;
a wait may end spuriously or by its duration. `p` holds the promise of each
queued message. `Call` covers `send_msg`, `safe_send_msg`, `sync_send_msg` and
`sync_safe_send_msg`; `Resends` makes `on_send_error` send its messages again.
`answered_twice` is history: `set_value` met a promise that had its value.

### Links

One service thread; a handler is a step. `Needs` are the handshakes of a link,
in order, `op` the one operation under way, `recv` the reads of messages, `bye`
the layer's own shutdown. A proxy's `reply` has a length and a part still
unread, so it may come in pieces or with a byte too many. `asked` is history: a
shutdown was asked for and `on_close` is still to come.

### FileTransfer

`up` and `down` are the byte streams of each link: orders are single messages, a
byte of a file knows its job and position. A socket has its unpacker, and a read
in progress remembers whether the unpacker it was started with is still there
(`stale`). The progress timer's handler sleeps inside (`handler = "wait"`), as
the code does (`examples/file_client/file_client.h:464`); that needs another
thread to run the sockets, of which the client has two per context. `crew` is
the number of threads of the server's context: with one, its default here (8
threads, 8 contexts), the handler of a write runs before that of a read whose
bytes answer it; with two (`ASCS_DECREASE_THREAD_AT_RUNTIME`) either may be first.

## Runs

| Run | Question | Bounds |
|---|---|---|
| `send_safety` | all safety properties of the default build | 2 threads, 2 messages each, buffer of 1 message, batch of 2, 1 taking back, 1 broken link |
| `send_arbitrary` | `ASCS_ARBITRARY_SEND`, shrinking, delayed stores, lists of messages; refinement of `SendChannel` | 2 threads, 2 messages each, lists of 2, buffer of 1 message, batch of 2, 1 broken link |
| `send_store_buffer` | default build, delayed stores: **violated** | 2 threads, 2 messages each, lists of 2, buffer and batch of 2 messages, no broken link |
| `recv` | order, one read, the life of both loops | a reconnecting client with 2 threads or 1, a pooled socket with 1; 2 messages, reads of up to 2, buffer of 1, 1 refusal, 1 broken link |
| `client_one_thread` | the whole life of a client | 2 calls of the application, 1 break or refusal, 1 poll |
| `pool` | server and clients, every policy for objects | 3 objects, 1 accept at a time, size 2, 3 ids, 2 calls |
| `pump` | threads, contexts, start and stop | 2 services, 2 threads, 2 contexts, 2 starts, 1 call, 1 exception; three builds |
| `framing` | every unpacker, every cut | 2 messages of 0 to 7 bytes, buffers of 5 and 8 bytes, heads of 2 |
| `udp` | plain and KCP, one or two threads | 3 messages, window of 1, 1 fault |
| `sync` | blocking calls, timeouts, close | 2 threads, 3 calls, 1 message queued, 2 arriving, 1 fault |
| `links` | every layer, both ends | 2 shutdowns, 1 fault, replies of 10 and 67 bytes in a buffer of 64 |
| `transfer` | get and put, in turn | 2 links, two files of 0 to 4 units in chunks of 1, 1 file that does not open |

Why these bounds. Sending: two threads and two messages give every interleaving
of one sender against the strand and of a second that takes, shrinks or fills
the buffer in between; a list of two may straddle a batch. One break makes each
step meet a failing link and a restart; the proofs cover any number. Receiving:
a read may overfill the buffer by one, so TIMER_CHECK_RECV has to work. Client:
two calls let a shutdown meet the reconnection that another has asked for. Pool:
three objects are a live one, an old one whose id is taken over, and one being
accepted. Pump: two threads are the last and the one before it; with one call
more the state space leaves what can be checked. Framing: two messages make every
boundary, and the bodies contain heads, prefixes and suffixes. Links: 67 bytes
do not fit the buffer, 10 do. Transfer: a remainder for the last link, a share
of zero bytes, shares of several chunks, and a second job after a first that
failed. Deadlock is not checked: every instance ends when its bounds are used up.

What to look at first: `NothingLeftBehind` (the wakeup), `Conservation` (all
places of a message and their order), `DispatchComing`, `ReadComing`,
`KeepsAccepting`, `CongestionTimed` (an idle state has its next event coming),
`ConnectAlone`, `StreamAlone`, `LiveOwned` (nothing runs on what is reused),
`NeverAllGone`, `NothingWithheld` and `ForeignReported` (a read ends exactly
when it should), `RecvOnce`, `NeverMixed`, `Arrives`.

Some properties say for what they hold: the retry part of `DispatchComing` and `AllHandled` for a
socket that does not reconnect, with one thread, `ReadComing` with one thread,
`AnswerTrue` without `Resends`, `CongestionTimed` and `EveryMessageSent` hold
with one thread, `Ends` of the file transfer with one thread per context of the
server, `NeverAllGone` and `SafelyFreed` without threads ended by exceptions,
`RefsExact` without services older than the second context. Outside these
conditions the code does not keep them; see below.

### Fairness

* `RecvDispatch`, `ClientSocket`: weak fairness for a thread that has begun
  something, and for time. Taking a task is strongly fair for each kind of task:
  Asio's queue is first in first out, so a ready handler is not passed over for
  ever. Messages need not arrive and the peer need not answer; in the client, an
  attempt to connect ends and a read on a dead connection fails.
* `SocketPool`: handlers run, references are given back, the timers of the pool
  fire; peers need not connect or leave, the application need not call.
* `ServicePump`: threads run, a ready handler is taken in the end (strong, for
  the same reason), a blocked `run_service` or `wait_service` goes on.
* `UdpSocket`: as above, datagrams end, timers expire, and KCP's peer
  acknowledges again and again (strong): without it no protocol delivers.
* `SyncCalls`: threads go on and get the mutex in the end (strong, since others
  come for it too); the peer and the durations promise nothing.
* `Links`: the service thread runs what is ready, timers expire, a connection
  attempt ends. Peers and proxies promise nothing.
* `FileTransfer`: both ends run, the network delivers; the user may stop typing.

## What the code does not keep

`send_store_buffer` is listed under `findings`: release/acquire on `sending` is
too weak for a test of the buffer that follows the store, so a message can be
left behind; `config.h` describes the symptom as seen but never explained.

The following were met while modelling. Each can be reproduced by changing a
constant, or adding the named property, in the configuration named; where
nothing is named it follows from the code alone.

* `ASCS_SHRINK_SEND_BUFFER` on sequentially consistent memory
  (`ShrinkSendBuffer = TRUE` in `send_safety`): `do_send_msg(false)` finds the
  buffer emptied by another thread and clears the flag without another look
  (`tcp/socket.h:407`); `NothingLeftBehind` fails.
* The retry of a refused message (`RetryComing` without `OneThread` and `~reconnects`):
  with two threads the handler of TIMER_DISPATCH_MSG cancels the timer that
  `do_dispatch_msg` has just set (`socket.h:691`, `timer.h:179`); with one, a
  client that reconnects holds the message for ever (`socket.h:423`).
* TIMER_CC with two threads: the same race (`CongestionTimed` without `crew = 1`).
* `LocalAddr = TRUE` in `client_one_thread`: a `bind()` that fails on
  reconnection leaves a started client with nothing pending
  (`tcp/client_socket.h:205`); `Reconnects` fails.
* `ExceptionContinues` in `pump`: with `ASCS_DECREASE_THREAD_AT_RUNTIME` an
  exception that `on_exception` lets pass ends the thread all the same
  (`service_pump.h:432` sets `this_n` to 0), though line 398 says "continue".
  Contexts may lose their last thread to `del_service_thread`, which counts
  threads, not contexts. Objects made while there is one context return
  references they never took.
* `AnswerTrue` in `sync` with `Resends = TRUE`: `on_send_error` that sends its
  messages again has their promises set twice, which throws. `close()` notifies
  without the mutex (`socket.h:421`), so a call without duration may sleep on.
  `sync_safe_send_msg` takes TIMEOUT for a failure and duplicates the message.
  A message still queued when the socket closes leaves its promise unanswered.
* `AppWaits = FALSE` and `JobLists <- TwoPuts` in `transfer`: a put typed while
  the links of the previous one are still being cleaned up takes them over
  (`PutsOnIdleLinks`). With two threads per context the server may drop an order
  because its last write has not been completed (`is_sending()`), and the client
  waits for ever. With `"get"` among `Faults`, a `get_file` that fails on some
  links leaves the others in PREPARE and starts no timer, so that the next
  transmission starts among them: a put takes over links that are not idle
  (`PutsOnIdleLinks`), and content is read as orders (`NeverMixed`).
* A failed handshake shuts down with `need_reconnect = false`, so the client
  does not connect again, unlike what `tcp/client_socket.h:84-88` says of
  unexpected breaks. An ssl handshake has no timeout. A graceful shutdown of a
  socks client during the negotiation is forgotten. Bytes of the target that
  come with the proxy's answer make a socks5 client fail. `target_domain` of
  socks5 outlives a later address (`tcp/proxy/socks.h:215`).
* A socket accepted while `uninit()` runs may start after the pass that shuts
  all sockets down (`tcp/server.h:230`). `del_object` erases by id, whichever
  object has it. `listen()` that fails leaves `listening` set, and an accept
  error of an old acceptor can stop a new one.
* `prefix_suffix_unpacker`: bytes without the prefix right after a good message
  end a read with nothing, and reading stops without `on_unpack_error`
  (`tcp/socket.h:364`).

## Proofs

A theorem here is about every value of the constants: any number of threads,
messages, sockets, services, calls and faults, and any size of a buffer, where a
run has the small numbers above. The assumptions are the `ASSUME`s of the
modules (sizes are positive, macros are Boolean, services are finitely many, the
mutually exclusive macros exclude each other), which TLC evaluates in the runs,
and what a theorem states as its hypothesis. Each safety theorem is proved from
an inductive invariant, a conjunction of named parts, which TLC has also
checked on the instances of the runs; none of the properties is inductive alone.

**`TcpProofs`** (`TcpSend`, every build and both memory models)

* `TypeCorrect`, `[]TypeOK`. Lemmas on `SubSeq` say what `Front` and `Rest`
  leave of a buffer (`Split`) and that `MoveOut` stays inside it (`MoveOutRange`).
* `WritesNeverOverlap` and `FlagHasOwner` come from `LoopInv == Alone /\
  FlagOwned /\ PathsTaken`. `FlagOwned` alone is not inductive: that a strand
  in `recheck` or `send_msg` has no write outstanding, that only a failing link
  makes a write fail, and that a hidden store needs a store buffer must be
  carried along.
* `NoMessageLeftBehind`, under `WakeupAssumption` (`ASCS_ARBITRARY_SEND`, or
  sequentially consistent memory and no shrinking), which is exactly where the
  store-buffer finding and the shrinking lie outside. Its invariant adds
  `Followed` (when `do_send_msg(false)` stops without a look at the buffer,
  another `do_send_msg` is queued or about to be: the call that took the
  messages posts it) and `Attended` (a non-empty buffer of a working link has
  somebody about to look at it). `Quiet` denies every alternative of `Attended`.
* `MessagesConserved`: `Conservation` is inductive with `LoopInv`. It is a
  statement about one sequence, the whole journey of the messages, and the
  lemmas `Removed`, `Inserted`, `InsertedInTurn` say how the three things that
  happen to a journey (a stretch is lost, a list is put in front of the waiting
  ones, a list is put at the end) keep it without repetition and in turn.
* `SocketImplementsChannel`: `Spec => ImplementsChannel`. Every step is one of
  `SendChannel` or leaves its four sequences alone; that a batch is taken only
  when none is out is `LoopInv`, that what is accepted is new is `Conservation`.

The three modules whose components have timers open with the lemmas about
`TimerInfo` that they cite: what starting, stopping and a completion leave of
the handlers that are due, and which of them still fires.

**`ClientSocketProofs`** (`ClientSocket`)

* `TypeCorrect`, for `SeqMod > 1` (256 in the code), with any number of threads.
* `ConnectsAlone` states `ConnectAlone`, with one service thread, and shutdowns,
  breaks and failures without bound. A life of the link is handed along six
  things: the timer CONNECT to fire, its handler, the attempt, the timer
  CONNECT_DELAY to fire, its handler, and the read with its tasks. `Alone` says
  that at most one of the six exists (`Exclusive`), and that a timer fires once
  at most (`FiresOnce`), although handlers of stopped or restarted timers are
  still to come. What keeps a second one from appearing is `start()`:
  it is reached only by a constructed socket or from `after_close()`, and
  `Closed` says that a socket that is neither started nor waiting to be closed
  has none of the six and a broken link. That rests on TIMER_DELAY_CLOSE calling
  `on_close()` only when no asynchronous call is left, so on what is known of
  that timer, which nobody stops (`CloserSound`), and of the place where the
  one thread is (`JobsSound`). A failed attempt and a break meet `Linked`: a
  link that is not broken is not being connected.
  The thread count is a hypothesis as in the run: with more, a shutdown can run
  between the check of `started()` and what follows it.

**`RecvDispatchProofs`** (`RecvDispatch`)

* `TypeCorrect`; `MessagesInOrder` with any number of threads. `InOrder` needs
  `Jobbed` (a strand has one holder) and `Holding` (a message is held exactly
  while `dispatching` is set, and handled only while it is held).
* `DispatchGoesOn` states `DispatchComing`, from two theorems.
  `WaitingIsDispatched`, with any number of threads, needs `BareErrors`: a read
  that brought no byte has failed, so `recv_handler` may skip `dispatch_msg`.
  `RefusedIsOffered` is of one thread, of a socket that does not reconnect, and
  of `MaxFails < SeqMod`: the byte that numbers the starts does not come round,
  which in the code means fewer than 256 refusals of messages; the theorem
  needs it since `Compare` only sees the byte. `Counted` and `InTurnRun` say
  that the handlers run in the order of the starts, `Offered` that a handler
  that cancels its timer has posted a `do_dispatch_msg` before.
* `OneReadAtATime`, with any number of threads. `Reader` lists all who are going
  to continue the read loop (a read, a task of the strand, `recv_handler` before
  its end, the timer, its handler when due and when it runs) and says that no
  two of them do (`Sole`), and each does it once (`Once`). Handlers of earlier
  runs of the timer, which may cancel a later one, are why `Sole` counts the
  handlers that are still valid instead of looking at `status`.
* `ReadingGoesOn`, with one thread (with two it fails). `Resumed` adds `Timely`
  (no handler of an earlier run touches the timer), `Relieved` (a handler that
  ends leaves the loop to somebody) and `Somebody`.

**`UdpSocketProofs`** (`UdpSocket`)

* `TypeCorrect`, with `KcpSound`: what KCP has outstanding stays in its window.
* `DatagramsAlone`, in every build and with any number of threads. `Owned ==
  Once /\ Sole`: of the strand, the datagram under way and TIMER_CC at most one
  owns `sending`, and none while it is clear. A timer whose start an older
  handler has cancelled keeps the flag for ever but hands it to nobody, so
  ownership is said of handlers that fire, not of `status`.
* `CongestionEnds`, with one thread and `SeqMod > 1` (256 in the code): `Calm`
  says that the callback meets no start of the timer but one made by a
  `do_send_msg` that runs inside its own `send_msg`, and two starts in a row
  have different numbers.

**`SyncCallsProofs`** (`SyncCalls`)

* `TypeCorrect`, with `Asked`: only a thread with a promise waits for an answer.
* `ReceivedOnce`: the places of messages are disjoint, together they are what has
  arrived, and each is in order. `Received` also says that what is still to be
  given away is younger than what was.
* `AnswersTrue`, under `~Resends`, without which the code does not keep it. `Sent`: a ticket in the buffer or being written is there once
  and has no answer yet (`Kept`), SUCCESS is the answer of what was written and
  of nothing else (`Settled`), and the answer a caller has is the one its
  promise got (`Answered`).

**`TcpProofs`**, second part (`Links`, which shares no name with `TcpSend`: its
initial predicate, next-state relation and tuple of variables are `LinkInit`,
`LinkNext`, `allVars`)

* `LinksTyped`, `NegotiatedFirst`, `StreamsAlone`, for every layer, all lengths
  of a proxy's answer and all sizes of the buffer. `Sound` says that handshakes,
  reading and reconnecting exclude each other (`Exclusive`), that a socket that
  may be started again has nothing under way (`Closed`), that handshakes are
  made in order (`InOrder`), that what socks5 has read of an answer is in its
  buffer (`Buffered`) and that a connected link has read all of it (`Agreed`).

**`ServicePumpProofs`** (`ServicePump`)

* `TypeCorrect`, with `Assigned`: what is outstanding belongs to a service that
  has a context.
* `ThreadsNeverAllGone`. `ThreadInv`: threads are created in turn and every
  context gets one (`InTurn`, `Housed`), `real_thread_num` is the number of
  threads between its increments and decrements (`RealExact`), who leaves
  unasked leaves a stopped context (`Departed`), and a context that has not
  stopped keeps a thread (`Manned`). `Housed` rests on `EveryContextHoused`: if
  threads go one by one where the fewest are, and there are enough of them, no
  context stays empty; that a least load exists at all is `SomeLeast`, by
  minimality under strict inclusion, since induction is not available.
* `FreedAfterStop`. `StopInv`: guarded contexts do not stop by themselves
  (`Guarded`, `Unstopped`), so nothing outstanding is on a stopped one (`Quiet`).
* `ReferencesExact`: the counters against the cardinality of the set of pairs
  (service, number), which the lemmas `Pairs*` follow through every change.

**`SocketPoolProofs`** (`SocketPool`, both roles and every policy for objects)

* `TypeCorrect`. Lemmas say what `Only`, a set put into a list, concatenation,
  appending and removal do to a list without repetition, and what
  `create_objects` gives out (`CreatableIsFree`, `ObjectsCreated`).
* `PoolsAgree` and `RunningIsOwned`, from one invariant, `Sound`. A key is the
  id of its object (`Keyed`); ids are given once unless they are restored
  (`Numbered`), which is why erasing by id erases the right object; while ids are
  restored an object stays in `object_can` until its `on_close` (`InPlace`), which
  is why that holds there too. `Accepted`, `Added` and `Restoring` say what an
  accept handler, `add_socket` and `restore_socket` may rely on between two locks,
  and `Existing`, `Apart` and `LiveOwned` that nothing is destroyed under them.
* `AcceptsGoOn`: `Looping` asks for an accept that was not cancelled, since the
  handler of one that was leaves no successor.
* `ClientsAreStarted`: `AddedStarts` is inductive with `Sound`.

**`FileTransferProofs`** (`FileTransfer`, any number of links, size of a chunk,
list of jobs, number of failures, and one or two threads per context of the
server)

* `NeverMixes` and `PutsWhenIdle`, both from `LinksAgree`: `Inv` holds. It says
  of each link (`Linked`) what its two ends know of one another. Each end is
  `Sound`: all that it has sent, on the wire or behind the write that has not
  been completed, is content and then one order at most; a write of content has
  nothing behind it; a reading socket has nothing to handle. Between the ends
  (`Agreed`) there is one order in all of both directions (`OneOrder`), an order
  is the one that the state of the client asks for (`Asks`), only one end has a
  `file_unpacker` (`Shape`), and the count agrees: while a file is got, what is
  on the way and in the server's `file_buffer` is what the client's unpacker
  still wants (`Gets`), and the same the other way while one is put (`Puts`).
  That is why a read that has taken its buffer has taken content and nothing
  else. `NeverMixed` alone says nothing of what is to come. `Calm` and
  `OneTruncates` are of all links: where a transmission may start every client
  is idle, and one that truncates goes with idle links only.
* `FilesArrive`: `Bytewise` is inductive with `Inv`. The positions of a file are
  followed from the share of a link to the file they are written to.
  `AllPlaced` says of each link that what is asked, granted, sent and wanted is
  of the current job and of the link's own share, and that content is under way
  in the order in which the unpacker wants it (`Stream`): the next byte that is
  read is the next of the file. `Moved(j)` is what of job j has been written or
  is on its way to be, `Todo` what a link has still to move; no link has to move
  what has moved (`Fresh`), since the shares are apart (`SpansApart`). So
  `transmit_size`, which adds up what each link reads or sends, is no more than
  the number of positions that have moved (`Counted`): when it reaches the length
  of the file all have, which is what the user is told (`Told`), and where the
  links are drained what has moved has been written, each byte in its place
  (`InPlace`). `Queued` and `Known` say that the jobs follow one another and that
  the length is that of the current one.
* The hypotheses: `AppWaits`, and `"get" \notin Faults`. Without the second TLC
  finds all three properties violated, without the first `PutsOnIdleLinks`;
  `FilesArrive` has it from `LinksAgree`, and TLC finds no run within the bounds
  of `transfer` where `Arrives` fails for want of it.

Only model-checked: everything under fairness (`Reconnects`, `ComesToAnEnd` and
the other liveness properties), since liveness and ENABLED are out of the
prover's reach; and `Framing`, whose `Parse*` recur over bytes, of which an
induction over data would have to speak.
`ConnectAlone` with more threads is neither proved nor promised by the code.

## Not modelled, and the plan

Abstracted everywhere: the contents of messages, statistics, logging, the
heartbeat timer (off by default), `stopped()` of the io_context where it is not
the subject. Not modelled at all: configuration, and the examples other than the
file transfer, which add no protocol of their own. Left out of a modelled part:

* sending notifications except the one the file transfer uses;
  `ASCS_SYNC_DISPATCH`, `ASCS_DISPATCH_BATCH_MSG`, `pop_*_pending_recv_msg`;
* the container of a timer object; `change_timer_*` outside the sockets;
  `ASCS_DELAY_CLOSE > 0`, which waits a fixed time and promises nothing;
* `start_service(i_service)` after `end_service()`, `find` by service id;
* packers with custom heads; `pack_msg` of a moved message with a
  `MSG_BUFFER_SIZE` beyond what a head can say (an assumption of `Framing`);
* reconnecting clients in `SocketPool`, `set_target_addr` during a negotiation,
  a shutdown's task that runs after `close()` in `Links`;
* talking (order 2) and restoring (order 3) in `FileTransfer`, links that break
  and disks that fail there: the states of a link then outlive it, and the
  protocol does not say what should happen;
* KCP, Asio, Beast and OpenSSL themselves, modelled by what the code expects.
