------------------------------ MODULE TcpSend ------------------------------
(***************************************************************************)
(* The sending half of a TCP socket of ascs: ascs::socket (send_msg,       *)
(* do_direct_send_msg, shrink_send_buffer, the pending message poppers),   *)
(* tcp::socket_base (do_send_msg, send_handler) and the queue between the  *)
(* application's threads and the strand rw_strand.                         *)
(*                                                                         *)
(* Application threads put messages into send_buffer and, unless a write   *)
(* is going on, post do_send_msg to the strand.  do_send_msg moves a batch *)
(* into sending_msgs and starts the one async_write; send_handler starts   *)
(* the next one.  The word `sending' says whether somebody is in charge of *)
(* that loop, and it is read and written without any lock.                 *)
(*                                                                         *)
(* The unit of interleaving is one access to shared memory.                *)
(***************************************************************************)
EXTENDS Integers, Sequences, FiniteSets

CONSTANTS
    Apps,               \* threads of the application that use the socket
    Starter,            \* the service thread that runs do_start
    MsgSize,            \* bytes of a message
    SendBufSize,        \* send_buf_size_
    BatchSize,          \* batch_msg_send_size(): 0 for one message at a time
    MaxListLen,         \* messages one send call may hand over (pack_msg splits)
    CanOverflow,        \* the application passes can_overflow = true
    ArbitrarySend,      \* macro ASCS_ARBITRARY_SEND
    ShrinkSendBuffer,   \* macro ASCS_SHRINK_SEND_BUFFER
    StoreBuffer,        \* a release store may be overtaken by later reads
    MaxMsgs,            \* bound: messages one thread sends
    MaxPops,            \* bound: calls that take pending messages back
    MaxBreaks           \* bound: failures of the link

ASSUME SizesAssumption ==
    /\ MsgSize \in Nat \ {0}
    /\ SendBufSize \in Nat \ {0}
    /\ BatchSize \in Nat
    /\ MaxListLen \in Nat \ {0}
    /\ MaxMsgs \in Nat /\ MaxPops \in Nat /\ MaxBreaks \in Nat
ASSUME MacrosAssumption ==
    {CanOverflow, ArbitrarySend, ShrinkSendBuffer, StoreBuffer} \subseteq BOOLEAN
ASSUME ThreadsAssumption == Starter \notin Apps

Threads == Apps \cup {Starter}
Msg == [by : Apps, no : 1..MaxMsgs, prior : BOOLEAN]

VARIABLES
    send_buffer,        \* the queue the threads and the strand share
    sending,            \* the atomic word `sending' as the memory holds it
    hidden,             \* sending = 0 is still in the strand's store buffer
    sending_msgs,       \* the batch given to async_write
    write,              \* the async_write: none, inflight, ok or error
    strandQ,            \* what rw_strand has to run, oldest first
    strandPc,           \* where the handler that rw_strand runs is
    in_strand,          \* the parameter of the do_send_msg it runs
    pc,                 \* where each thread is in its call
    link,               \* ready, failing (is_ready() still true) or closing
    sent,               \* messages each thread has handed over
    pops, breaks,       \* what the bounds count
    wire,               \* messages reported sent, oldest first
    lost                \* messages reported lost, discarded or taken back

queueVars == <<send_buffer, sent, pops, lost>>
flagVars == <<sending, hidden>>
strandVars == <<strandPc, in_strand>>
netVars == <<sending_msgs, write, wire>>
linkVars == <<link, breaks>>
vars == <<queueVars, flagVars, strandVars, netVars, linkVars, strandQ, pc>>

Elements(s) == {s[i] : i \in DOMAIN s}
Bytes == MsgSize * Len(send_buffer)
is_ready == link \in {"ready", "failing"}

is_send_buffer_available == Bytes < SendBufSize

(* queue::move_items_out_(max_size_in_byte): how many messages it moves, up   *)
(* to the first that reaches the limit, and one when there is one.           *)
MoveOut(limit) ==
    LET enough == IF limit = 0 THEN 1 ELSE (limit + MsgSize - 1) \div MsgSize
    IN  IF enough < Len(send_buffer) THEN enough ELSE Len(send_buffer)

(* The next k messages of a thread.                                          *)
Handed(t, k, prior) == [i \in 1..k |-> [by |-> t, no |-> sent[t] + i, prior |-> prior]]

Front(k) == SubSeq(send_buffer, 1, k)
(* Mutant: one message more than was moved leaves the buffer.                *)
RestLosesOne(k) == IF k = 0 THEN send_buffer ELSE SubSeq(send_buffer, k + 2, Len(send_buffer))
Rest(k) == SubSeq(send_buffer, k + 1, Len(send_buffer))

Init ==
    /\ send_buffer = <<>>
    /\ sending = 0
    /\ hidden = FALSE
    /\ sending_msgs = <<>>
    /\ write = "none"
    /\ strandQ = <<>>
    /\ strandPc = "idle"
    /\ in_strand = FALSE
    /\ pc = [t \in Threads |-> "idle"]
    /\ link = "ready"
    /\ sent = [t \in Apps |-> 0]
    /\ pops = 0
    /\ breaks = 0
    /\ wire = <<>>
    /\ lost = {}

-----------------------------------------------------------------------------
(* Application threads.                                                      *)

(* can_overflow || shrink_send_buffer(): without the macro it only reads the *)
(* size of the buffer; with it, a full buffer first loses its oldest third   *)
(* (calc_shrink_size), or the call fails when a third is no byte at all.     *)
Admit(t) ==
    /\ pc[t] = "idle"
    /\ sent[t] < MaxMsgs
    /\ \/ /\ CanOverflow \/ is_send_buffer_available
          /\ UNCHANGED queueVars
       \/ /\ ShrinkSendBuffer
          /\ ~is_send_buffer_available
          /\ Bytes \div 3 > 0
          /\ LET k == MoveOut(Bytes \div 3) IN
                /\ send_buffer' = Rest(k)
                /\ lost' = lost \cup Elements(Front(k))
          /\ UNCHANGED <<sent, pops>>
    /\ pc' = [pc EXCEPT ![t] = "admitted"]
    /\ UNCHANGED <<flagVars, strandVars, netVars, linkVars, strandQ>>

(* do_direct_send_msg: one message or a list of them goes to the back or to  *)
(* the front (prior) of the buffer under its lock; send_msg() comes next.    *)
Enqueue(t) ==
    /\ pc[t] = "admitted"
    /\ \E k \in 1..MaxListLen, prior \in BOOLEAN :
          /\ sent[t] + k <= MaxMsgs
          /\ send_buffer' = IF prior THEN Handed(t, k, prior) \o send_buffer
                                     ELSE send_buffer \o Handed(t, k, prior)
          /\ sent' = [sent EXCEPT ![t] = @ + k]
    /\ pc' = [pc EXCEPT ![t] = IF ArbitrarySend THEN "post" ELSE "is_ready"]
    /\ UNCHANGED <<flagVars, strandVars, netVars, linkVars, strandQ, pops, lost>>

(* send_msg(): is_ready() && 1 != sending.load(acquire), two reads.          *)
ReadReady(t) ==
    /\ pc[t] = "is_ready"
    /\ pc' = [pc EXCEPT ![t] = IF is_ready THEN "load" ELSE "idle"]
    /\ UNCHANGED <<queueVars, flagVars, strandVars, netVars, linkVars, strandQ>>

LoadSending(t) ==
    /\ pc[t] = "load"
    /\ pc' = [pc EXCEPT ![t] = IF sending = 1 THEN "idle" ELSE "post"]
    /\ UNCHANGED <<queueVars, flagVars, strandVars, netVars, linkVars, strandQ>>

(* Mutant: ASCS_ARBITRARY_SEND still tests the flag.                         *)
PostUnlessSending(t) ==
    /\ pc[t] = "post"
    /\ strandQ' = IF sending = 1 THEN strandQ ELSE Append(strandQ, "do_send_msg")
    /\ pc' = [pc EXCEPT ![t] = "idle"]
    /\ UNCHANGED <<queueVars, flagVars, strandVars, netVars, linkVars>>

(* _send_msg(): dispatch_in_io_strand of do_send_msg.                        *)
Post(t) ==
    /\ pc[t] = "post"
    /\ strandQ' = Append(strandQ, "do_send_msg")
    /\ pc' = [pc EXCEPT ![t] = "idle"]
    /\ UNCHANGED <<queueVars, flagVars, strandVars, netVars, linkVars>>

(* pop_first_pending_send_msg, pop_all_pending_send_msg: take messages back  *)
(* under the lock, then _send_msg() whatever `sending' says.                 *)
PopPending(t) ==
    /\ pc[t] = "idle"
    /\ pops < MaxPops
    /\ \E k \in {1, Len(send_buffer)} :
          /\ k <= Len(send_buffer)
          /\ send_buffer' = Rest(k)
          /\ lost' = lost \cup Elements(Front(k))
    /\ pops' = pops + 1
    /\ pc' = [pc EXCEPT ![t] = "post"]
    /\ UNCHANGED <<flagVars, strandVars, netVars, linkVars, strandQ, sent>>

-----------------------------------------------------------------------------
(* rw_strand: one handler at a time, in the order they were posted.          *)

Goto(label) == strandPc' = label /\ UNCHANGED in_strand

RunTask ==
    /\ strandPc = "idle" /\ ~hidden
    /\ strandQ # <<>> /\ Head(strandQ) = "do_send_msg"
    /\ strandQ' = Tail(strandQ)
    /\ strandPc' = "check"
    /\ in_strand' = FALSE
    /\ UNCHANGED <<queueVars, flagVars, netVars, linkVars, pc>>

(* send_handler: a finished batch is reported and forgotten, then            *)
(* do_send_msg(true); a failed one is given to on_send_error, and the flag   *)
(* is cleared without another look at the buffer.                            *)
RunSendHandler ==
    /\ strandPc = "idle" /\ ~hidden
    /\ strandQ # <<>> /\ Head(strandQ) = "send_handler"
    /\ strandQ' = Tail(strandQ)
    /\ \/ /\ write = "ok"
          /\ wire' = wire \o sending_msgs
          /\ strandPc' = "check"
          /\ in_strand' = TRUE
          /\ UNCHANGED lost
       \/ /\ write = "error"
          /\ lost' = lost \cup Elements(sending_msgs)
          /\ strandPc' = "clear"
          /\ in_strand' = FALSE
          /\ UNCHANGED wire
    /\ sending_msgs' = <<>>
    /\ write' = "none"
    /\ UNCHANGED <<flagVars, linkVars, pc, send_buffer, sent, pops>>

(* do_send_msg, first line: send_buffer.empty(), read without the lock.      *)
CheckEmpty ==
    /\ strandPc = "check"
    /\ Goto(IF send_buffer = <<>>
            THEN IF in_strand THEN "clear" ELSE "idle"
            ELSE IF in_strand THEN "move" ELSE "test_and_set")
    /\ UNCHANGED <<queueVars, flagVars, netVars, linkVars, strandQ, pc>>

(* Mutant: the old value of the flag is not looked at.                       *)
TestAndSetBlind ==
    /\ strandPc = "test_and_set" /\ ~hidden
    /\ sending' = 1
    /\ Goto("move")
    /\ UNCHANGED <<queueVars, hidden, netVars, linkVars, strandQ, pc>>

(* test_and_set_sending(): an exchange, which also drains the store buffer.  *)
TestAndSet ==
    /\ strandPc = "test_and_set" /\ ~hidden
    /\ sending' = 1
    /\ Goto(IF sending = 1 THEN "idle" ELSE "move")
    /\ UNCHANGED <<queueVars, hidden, netVars, linkVars, strandQ, pc>>

(* Mutant: finding nothing to write does not give the flag back.             *)
MoveItemsOutKeepsFlag ==
    /\ strandPc = "move"
    /\ LET k == MoveOut(BatchSize) IN
          /\ send_buffer' = Rest(k)
          /\ sending_msgs' = sending_msgs \o Front(k)
          /\ write' = IF k > 0 THEN "inflight" ELSE write
    /\ Goto("idle")
    /\ UNCHANGED <<flagVars, linkVars, strandQ, pc, wire, sent, pops, lost>>

(* move_items_out under the lock, then async_write; nothing to write when    *)
(* the buffer was emptied since it was looked at.                            *)
MoveItemsOut ==
    /\ strandPc = "move"
    /\ LET k == MoveOut(BatchSize) IN
          /\ send_buffer' = Rest(k)
          /\ sending_msgs' = sending_msgs \o Front(k)
          /\ write' = IF k > 0 THEN "inflight" ELSE write
          /\ Goto(IF k > 0 THEN "idle" ELSE "clear")
    /\ UNCHANGED <<flagVars, linkVars, strandQ, pc, wire, sent, pops, lost>>

(* clear_sending(): a release store, which may stay in the store buffer.     *)
ClearSending ==
    /\ strandPc = "clear"
    /\ IF StoreBuffer
       THEN hidden' = TRUE /\ UNCHANGED sending
       ELSE sending' = 0 /\ UNCHANGED hidden
    /\ Goto(IF in_strand /\ ~ArbitrarySend THEN "recheck" ELSE "idle")
    /\ UNCHANGED <<queueVars, netVars, linkVars, strandQ, pc>>

(* The store becomes visible to the other threads.                           *)
Flush ==
    /\ hidden
    /\ sending' = 0
    /\ hidden' = FALSE
    /\ UNCHANGED <<queueVars, strandVars, netVars, linkVars, strandQ, pc>>

(* Mutant: without the second look at the buffer.                            *)
RecheckSkipped ==
    /\ strandPc = "recheck"
    /\ Goto("idle")
    /\ UNCHANGED <<queueVars, flagVars, netVars, linkVars, strandQ, pc>>

(* send_handler after do_send_msg(true) returned false: if the buffer is not *)
(* empty, super::send_msg(), whose dispatch runs do_send_msg() at once       *)
(* because the strand is already held; a hidden store is read as done.       *)
Recheck ==
    /\ strandPc = "recheck"
    /\ Goto(IF send_buffer = <<>> THEN "idle" ELSE "send_msg")
    /\ UNCHANGED <<queueVars, flagVars, netVars, linkVars, strandQ, pc>>

ResendMsg ==
    /\ strandPc = "send_msg"
    /\ strandPc' = IF is_ready /\ (hidden \/ sending = 0) THEN "check" ELSE "idle"
    /\ in_strand' = FALSE
    /\ UNCHANGED <<queueVars, flagVars, netVars, linkVars, strandQ, pc>>

Strand == RunTask \/ RunSendHandler \/ CheckEmpty \/ TestAndSet \/ MoveItemsOut
            \/ ClearSending \/ Recheck \/ ResendMsg

-----------------------------------------------------------------------------
(* The network and the life of the link, as far as sending can tell.         *)

(* async_write finishes; its handler is queued in the strand.  It may fail   *)
(* only on a link that is failing or being closed.                           *)
WriteDone ==
    /\ write = "inflight"
    /\ \/ write' = "ok"
       \/ write' = "error" /\ link # "ready"
    /\ strandQ' = Append(strandQ, "send_handler")
    /\ UNCHANGED <<queueVars, flagVars, strandVars, linkVars, sending_msgs, wire, pc>>

(* The peer is gone but recv_handler has not seen it yet.                    *)
Fail ==
    /\ link = "ready"
    /\ breaks < MaxBreaks
    /\ link' = "failing"
    /\ breaks' = breaks + 1
    /\ UNCHANGED <<queueVars, flagVars, strandVars, netVars, strandQ, pc>>

(* A receive error or a shutdown: is_ready() is false from now on.           *)
Close ==
    /\ link = "failing"
    /\ link' = "closing"
    /\ UNCHANGED <<queueVars, flagVars, strandVars, netVars, breaks, strandQ, pc>>

(* Once no async call is left, on_close, the reconnection and do_start,      *)
(* whose send_msg() the starting thread then performs.                       *)
Restart ==
    /\ link = "closing"
    /\ strandQ = <<>> /\ strandPc = "idle" /\ ~hidden /\ write = "none"
    /\ pc[Starter] = "idle"
    /\ link' = "ready"
    /\ pc' = [pc EXCEPT ![Starter] = IF ArbitrarySend THEN "post" ELSE "is_ready"]
    /\ UNCHANGED <<queueVars, flagVars, strandVars, netVars, breaks, strandQ>>

-----------------------------------------------------------------------------
Call(t) == ReadReady(t) \/ LoadSending(t) \/ Post(t)

Next ==
    \/ \E t \in Apps : Admit(t) \/ Enqueue(t) \/ PopPending(t)
    \/ \E t \in Threads : Call(t)
    \/ Strand \/ Flush \/ WriteDone
    \/ Fail \/ Close \/ Restart

Spec == Init /\ [][Next]_vars

-----------------------------------------------------------------------------
(* Properties.                                                               *)

TypeOK ==
    /\ send_buffer \in Seq(Msg)
    /\ sending \in {0, 1}
    /\ hidden \in BOOLEAN
    /\ sending_msgs \in Seq(Msg)
    /\ write \in {"none", "inflight", "ok", "error"}
    /\ strandQ \in Seq({"do_send_msg", "send_handler"})
    /\ strandPc \in {"idle", "check", "test_and_set", "move", "clear", "recheck", "send_msg"}
    /\ in_strand \in BOOLEAN
    /\ pc \in [Threads -> {"idle", "admitted", "is_ready", "load", "post"}]
    /\ link \in {"ready", "failing", "closing"}
    /\ sent \in [Apps -> 0..MaxMsgs]
    /\ pops \in Nat /\ breaks \in Nat
    /\ wire \in Seq(Msg)
    /\ lost \subseteq Msg

(* tcp::socket_base never has two async_write at once: when do_send_msg is   *)
(* about to take a batch, the last one is over and its messages are cleared  *)
(* (asio forbids overlapping writes, which would interleave on the stream).  *)
WriteExclusive ==
    strandPc \in {"move", "clear"} => write = "none" /\ sending_msgs = <<>>

(* Whoever is in charge of the loop: the outstanding write, or the strand's  *)
(* handler between taking the flag and giving it up.                         *)
InCharge ==
    \/ write # "none"
    \/ strandPc \in {"move", "clear"}
    \/ strandPc = "check" /\ in_strand

(* `sending' is never left set with nobody to clear it, which would stop     *)
(* every later send_msg(), and never visible as cleared under a writer.      *)
FlagOwned ==
    /\ InCharge => sending = 1 /\ ~hidden
    /\ sending = 1 => InCharge \/ hidden

(* Nothing is going on and nothing is about to.                              *)
Quiet ==
    /\ write = "none" /\ strandPc = "idle" /\ strandQ = <<>> /\ ~hidden
    /\ \A t \in Threads : pc[t] \in {"idle", "admitted"}

(* "Messages can leave behind in the send buffer until the next message      *)
(* sending" (the comment in do_send_msg) never happens: when everything has  *)
(* come to rest on a working link, the send buffer is empty.                 *)
NothingLeftBehind == Quiet /\ link = "ready" => send_buffer = <<>>

(* Every message handed over is in exactly one place: sent, being sent,      *)
(* waiting, or lost (reported to on_send_error, shrunk away, taken back);    *)
(* and those of one thread that were not sent with priority stay in the      *)
(* order of the calls all the way to the network, across batches.            *)
Journey == wire \o sending_msgs \o send_buffer
OnePlace ==
    /\ \A i, j \in DOMAIN Journey : Journey[i] = Journey[j] => i = j
    /\ Elements(Journey) \cap lost = {}
    /\ {<<m.by, m.no>> : m \in Elements(Journey) \cup lost}
            = {c \in Apps \X (1..MaxMsgs) : c[2] <= sent[c[1]]}
Fifo ==
    \A i, j \in DOMAIN Journey :
        /\ i < j
        /\ Journey[i].by = Journey[j].by
        /\ ~Journey[i].prior /\ ~Journey[j].prior
        => Journey[i].no < Journey[j].no
Conservation == OnePlace /\ Fifo

(* The socket implements the channel.                                        *)
Channel == INSTANCE SendChannel WITH
    queue <- send_buffer, inflight <- sending_msgs, delivered <- wire, dropped <- lost
ImplementsChannel == Channel!Spec

-----------------------------------------------------------------------------
(* Why NothingLeftBehind holds: the parts of an inductive invariant.         *)

(* The loop has one owner: while the strand is in charge, no write is out.   *)
Alone ==
    /\ strandPc \in {"move", "clear", "recheck", "send_msg"} => write = "none"
    /\ strandPc = "check" /\ in_strand => write = "none"
    /\ write = "none" => sending_msgs = <<>>

(* Only a link that is not ready makes a write fail, and with the macro      *)
(* ASCS_ARBITRARY_SEND nobody tests the flag before posting.                 *)
PathsTaken ==
    /\ write = "error" => link # "ready"
    /\ hidden => StoreBuffer
    /\ ArbitrarySend => /\ strandPc \notin {"recheck", "send_msg"}
                        /\ \A t \in Threads : pc[t] \notin {"is_ready", "load"}

(* A do_send_msg is queued or about to be.                                   *)
Posting == strandQ # <<>> \/ \E t \in Threads : pc[t] = "post"

(* do_send_msg(false) finds the buffer empty after it saw messages, or       *)
(* clears the flag without looking again, only when another one follows:     *)
(* the call that took the messages back has posted it.                       *)
Followed ==
    ~ArbitrarySend /\ ~in_strand =>
        /\ strandPc \in {"test_and_set", "move"} /\ send_buffer = <<>> => Posting
        /\ strandPc = "clear" /\ link = "ready" => Posting

(* Somebody is going to look at a buffer that holds messages.                *)
Attended ==
    send_buffer # <<>> /\ link = "ready" =>
        \/ write # "none"
        \/ strandPc \in {"check", "test_and_set", "move", "recheck", "send_msg"}
        \/ strandPc = "clear" /\ in_strand /\ ~ArbitrarySend
        \/ \E t \in Threads : pc[t] \in {"is_ready", "load"}
        \/ Posting

LoopInv == Alone /\ FlagOwned /\ PathsTaken
WakeupInv == LoopInv /\ Followed /\ Attended

(* The builds in which a wakeup is never lost.                               *)
WakeupAssumption == ArbitrarySend \/ (~StoreBuffer /\ ~ShrinkSendBuffer)
=============================================================================
