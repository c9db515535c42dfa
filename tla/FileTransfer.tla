---------------------------- MODULE FileTransfer ----------------------------
(***************************************************************************)
(* The protocol of file_client and file_server: one file over all links of *)
(* the client at once, each link carrying a share.  Orders are messages of *)
(* the default unpacker; the content of a file is raw bytes, for which the *)
(* receiver replaces its unpacker.  ASCS_PASSIVE_RECV: a socket reads when *)
(* what it has read was handled.  The links do not break, fread and fwrite *)
(* do not fail, nobody talks.                                              *)
(***************************************************************************)
EXTENDS Integers, Sequences, FiniteSets

CONSTANTS
    link_num,
    MaxTransfer,    \* default_max_transfer_size
    JobLists,       \* what the user may type: sequences of [type, len], a file each
    Crews,          \* numbers of service threads of an io_context of the server
    Faults,         \* whose fopen may fail: "get", "put" (the client's), "server"
    AppWaits,       \* the user types nothing while the sockets clean up
    MaxFaults       \* bound: fopen failures

Links == 0 .. link_num - 1

ASSUME FileTransferAssumption ==
    /\ link_num \in Nat \ {0} /\ MaxTransfer \in Nat \ {0} /\ MaxFaults \in Nat
    /\ \A jobs \in JobLists : jobs \in Seq([type : {"get", "put"}, len : Nat])
    /\ Crews \subseteq {1, 2}
    /\ Faults \subseteq {"get", "put", "server"} /\ AppWaits \in BOOLEAN

VARIABLES
    jobs, crew,             \* chosen at the start
    typed,                  \* how many of the jobs the user has typed
    file_list, mutex,       \* file_list_mutex: free, app or handler
    timer, handler,         \* UPDATE_PROGRESS: armed or not; its handler: none, wait, transmit
    current,                \* the job being transmitted
    file_size, transmit_size,
    client, server,         \* sockets, by link
    up, down,               \* what is on the wire to the server, to the client
    written,                \* <<job, position, byte>> of the destination files
    reported,               \* jobs the user was told have ended
    mixed,                  \* history: content was read as an order, or an order as content
    swapped,                \* history: an unpacker was replaced under the read that fills it
    overrun,                \* history: put_file() on a link that was not idle
    faults

choice == <<jobs, crew>>
app == <<typed, file_list, mutex>>
progress == <<timer, handler, current, reported>>
sizes == <<file_size, transmit_size>>
history == <<mixed, swapped, overrun>>
vars == <<choice, app, progress, sizes, client, server, up, down, written, history, faults>>

None == 0                   \* no file: jobs are numbered from 1
Content == 99               \* not an order: a byte of a file
Empty == 98                 \* the message ASCS_PASSIVE_RECV appends when there is none
Msg(o, j, p, n) == [order |-> o, job |-> j, pos |-> p, len |-> n]

Jobs == DOMAIN jobs
Byte(j, p) == <<j, p>>
Least(a, b) == IF a < b THEN a ELSE b

(* The share of link i in a file: the last link takes the remainder.         *)
Share(len, i) ==
    [pos |-> (len \div link_num) * i,
     len |-> IF i = link_num - 1 THEN len - (len \div link_num) * i ELSE len \div link_num]

(* What is left for a file_buffer or a file_unpacker to do.                  *)
Rest(j, p, n) == [job |-> j, pos |-> p, left |-> n]
Default == Rest(None, 0, 0)         \* the default unpacker; no file_buffer

(***************************************************************************)
(* A socket: its state and file, its unpacker, whether a read is pending   *)
(* ("own") or its unpacker is not the one it was started with ("stale"),   *)
(* the messages to handle, the writes not completed, the file_buffer.      *)
(***************************************************************************)
NewSocket == [state |-> "IDLE", file |-> None, unpacker |-> Default, reading |-> "own",
              got |-> <<>>, out |-> <<>>, buffer |-> Default]

SetUnpacker(s, u) == [s EXCEPT !.unpacker = u, !.reading = IF @ = "own" THEN "stale" ELSE @]

trans_end_always(s, reset) == SetUnpacker([s EXCEPT !.state = "IDLE", !.file = None], Default)
trans_end(s, reset) ==
    LET idle == [s EXCEPT !.state = "IDLE", !.file = None]
    IN  IF reset THEN SetUnpacker(idle, Default) ELSE idle
Ended(s) == trans_end(s, TRUE)      \* the server's always resets the unpacker

(* A socket and the wire it writes to: a batch of messages is written when   *)
(* the write before it has completed.                                        *)
Send(s, wire, batch) ==
    [s |-> [s EXCEPT !.out = Append(@, batch)], wire |-> IF s.out = <<>> THEN wire \o batch ELSE wire]

(* The next chunk of a file, read from it and sent.                          *)
ChunkSize(s) == Least(s.buffer.left, MaxTransfer)
SendChunk(s, wire) ==
    LET b == s.buffer
        n == ChunkSize(s)
    IN  Send([s EXCEPT !.buffer = Rest(b.job, b.pos + n, b.left - n)], wire,
             [k \in 1 .. n |-> Msg(Content, b.job, b.pos + k - 1, 1)])

(* The write of the first batch has completed.                               *)
Completed(s, wire) ==
    LET out == Tail(s.out)
    IN  [s |-> [s EXCEPT !.out = out], wire |-> IF out = <<>> THEN wire ELSE wire \o Head(out)]

(* on_msg_send: the rest of a file follows, or its transfer has ended.       *)
OnMsgSendLast(s, wire) ==
    LET c == Completed(s, wire)
    IN  IF Head(s.out)[1].order # Content \/ s.buffer.left = 0 THEN c ELSE SendChunk(c.s, c.wire)
OnMsgSend(s, wire) ==
    LET c == Completed(s, wire)
    IN  IF Head(s.out)[1].order # Content THEN c
        ELSE IF s.buffer.left = 0 THEN [s |-> trans_end(c.s, FALSE), wire |-> c.wire]
        ELSE SendChunk(c.s, c.wire)

(* What a completed read leaves of the wire and of the socket: the default   *)
(* unpacker takes what has come, a file_unpacker exactly its buffer.         *)
Readable(s, wire) ==
    IF s.unpacker = Default THEN 1 .. Len(wire)
    ELSE {Least(s.unpacker.left, MaxTransfer)} \cap 1 .. Len(wire)
parse_msg(s, bytes) ==
    IF s.unpacker = Default THEN [s EXCEPT !.reading = "none", !.got = bytes]
    ELSE [s EXCEPT !.reading = "none", !.got = <<Msg(Empty, 0, 0, 0)>>,
                   !.unpacker = Rest(@.job, @.pos + Len(bytes), @.left - Len(bytes))]
Misread(s, bytes) ==
    \E k \in DOMAIN bytes : (bytes[k].order = Content) # (s.unpacker # Default)
fwrite(s, bytes) ==
    IF s.unpacker = Default THEN written
    ELSE written \cup {<<s.unpacker.job, s.unpacker.pos + k - 1, Byte(bytes[k].job, bytes[k].pos)>> :
                           k \in DOMAIN bytes}

(* A busy socket handles the empty message: is the file complete?            *)
BusyHandle(s) ==
    IF s.unpacker = Default \/ s.unpacker.left = 0 THEN trans_end(s, TRUE) ELSE s

(* The first message was handled; recv_msg() when it was the last one.       *)
Popped(s) == [s EXCEPT !.got = Tail(@), !.reading = IF Len(s.got) = 1 THEN "own" ELSE @]

MayFail(who) == {TRUE} \cup IF who \in Faults /\ faults < MaxFaults THEN {FALSE} ELSE {}

Init ==
    /\ jobs \in JobLists /\ crew \in Crews
    /\ typed = 0 /\ file_list = <<>> /\ mutex = "free"
    /\ timer = FALSE /\ handler = "none" /\ current = None /\ reported = {}
    /\ file_size = 0 /\ transmit_size = 0
    /\ client = [i \in Links |-> NewSocket] /\ server = [i \in Links |-> NewSocket]
    /\ up = [i \in Links |-> <<>>] /\ down = [i \in Links |-> <<>>]
    /\ written = {} /\ mixed = FALSE /\ swapped = FALSE /\ overrun = FALSE /\ faults = 0

is_idle(i) == client[i].state = "IDLE"
is_end_first == is_idle(0)
is_end == \A i \in Links : is_idle(i)

(***************************************************************************)
(* The user and the progress of a transmission.                            *)
(***************************************************************************)
(* get_file() or put_file() of file_client: one more job, transmit_file().   *)
Type ==
    /\ typed < Len(jobs) /\ mutex = "free"
    /\ AppWaits => handler # "wait"
    /\ typed' = typed + 1 /\ file_list' = Append(file_list, typed + 1)
    /\ mutex' = IF timer THEN "free" ELSE "app"
    /\ UNCHANGED <<choice, progress, sizes, client, server, up, down, written, history, faults>>

Failing(who, links) ==
    {bad \in SUBSET links : bad # {} => who \in Faults /\ faults + Cardinality(bad) <= MaxFaults}

(* get_file() or truncate_file() on the links concerned, and whether all of  *)
(* them took it.                                                             *)
StartJob(j) == \E bad \in Failing("get", IF jobs[j].type = "get" THEN Links ELSE {}) :
    LET get == jobs[j].type = "get"
        links == IF get THEN Links ELSE {0}
        order == Msg(IF get THEN 0 ELSE 10, j, 0, 0)
        started == {i \in links \ bad : is_idle(i)}
        sent == [i \in Links |->
                    Send([client[i] EXCEPT !.state = "PREPARE", !.file = IF get THEN j ELSE @], up[i], <<order>>)]
        over == started = links \/ Tail(file_list) = <<>>
    IN  /\ client' = [i \in Links |-> IF i \in started THEN sent[i].s ELSE client[i]]
        /\ up' = [i \in Links |-> IF i \in started THEN sent[i].wire ELSE up[i]]
        /\ faults' = faults + Cardinality(bad)
        /\ timer' = (started = links)
        /\ current' = IF started = links THEN j ELSE current
        /\ mutex' = IF over THEN "free" ELSE mutex
        /\ handler' = IF over /\ mutex = "handler" THEN "none" ELSE handler

(* One round of transmit_file(), under file_list_mutex.                      *)
transmit_file ==
    /\ mutex # "free"
    /\ StartJob(Head(file_list))
    /\ file_list' = Tail(file_list)
    /\ file_size' = -1 /\ transmit_size' = 0
    /\ UNCHANGED <<choice, typed, reported, server, down, written, history>>

(* update_progress_handler: every link is idle, yet the file is not whole.   *)
GiveUp ==
    /\ timer /\ handler = "none"
    /\ file_size < 0 \/ transmit_size < file_size
    /\ is_end
    /\ timer' = FALSE /\ handler' = "transmit"
    /\ UNCHANGED <<choice, app, current, reported, sizes, client, server, up, down, written, history, faults>>

(* update_progress_handler: 100%.                                            *)
ReportEnd ==
    /\ timer /\ handler = "none"
    /\ file_size >= 0 /\ transmit_size >= file_size
    /\ timer' = FALSE /\ handler' = "wait" /\ reported' = reported \cup {current}
    /\ UNCHANGED <<choice, app, current, sizes, client, server, up, down, written, history, faults>>

(* The handler sleeps until all sockets have cleaned up themselves.          *)
CleanedUp ==
    /\ handler = "wait" /\ is_end
    /\ handler' = "transmit"
    /\ UNCHANGED <<choice, app, timer, current, reported, sizes, client, server, up, down, written, history, faults>>

(* transmit_file() of the handler.                                           *)
TransmitNext ==
    /\ handler = "transmit" /\ mutex = "free"
    /\ IF timer \/ file_list = <<>> THEN handler' = "none" /\ mutex' = mutex
       ELSE mutex' = "handler" /\ handler' = handler
    /\ UNCHANGED <<choice, typed, file_list, timer, current, reported, sizes, client, server, up, down,
                   written, history, faults>>

(***************************************************************************)
(* The client's sockets.                                                   *)
(***************************************************************************)
Stale(s, t) == t.reading = "stale" /\ s.reading # "stale"

ClientRecv(i) ==
    /\ client[i].reading # "none"
    /\ \E n \in Readable(client[i], down[i]) :
        LET s == client[i]
            bytes == SubSeq(down[i], 1, n)
        IN  /\ client' = [client EXCEPT ![i] = parse_msg(s, bytes)]
            /\ down' = [down EXCEPT ![i] = SubSeq(@, n + 1, Len(@))]
            /\ transmit_size' = IF s.unpacker = Default THEN transmit_size ELSE transmit_size + n
            /\ written' = fwrite(s, bytes)
            /\ mixed' = (mixed \/ Misread(s, bytes))
    /\ UNCHANGED <<choice, app, progress, file_size, server, up, swapped, overrun, faults>>

(* What the handling of a message leaves on its own link: socket and wire.   *)
ClientBecomes(i, h) ==
    /\ client' = [client EXCEPT ![i] = Popped(h.s)]
    /\ up' = [up EXCEPT ![i] = h.wire]
    /\ swapped' = (swapped \/ Stale(client[i], h.s))

(* Order 0, the length of the file to get: ask for this link's share.        *)
GotLength(i, m) ==
    LET s == client[i]
        share == Share(m.len, i)
        busy == SetUnpacker([s EXCEPT !.state = "BUSY"], Rest(s.file, share.pos, share.len))
    IN  /\ file_size' = IF m.len >= 0 /\ i = 0 THEN m.len ELSE file_size
        /\ ClientBecomes(i, IF m.len < 0 \/ share.len = 0 THEN [s |-> trans_end(s, TRUE), wire |-> up[i]]
                            ELSE Send(busy, up[i], <<Msg(1, s.file, share.pos, share.len)>>))
        /\ UNCHANGED <<transmit_size, faults, overrun>>

(* put_file() of one link: the order 11 for its share of the file.           *)
put_file(i, j, ok) ==
    LET s == client[i]
        share == Share(jobs[j].len, i)
    IN  IF ok /\ share.len > 0
        THEN Send([s EXCEPT !.file = j, !.state = "PREPARE"], up[i], <<Msg(11, j, share.pos, share.len)>>)
        ELSE [s |-> trans_end(s, FALSE), wire |-> up[i]]

(* Order 10, the file on the server is empty: put_file() on every link, from *)
(* the thread of this one.                                                   *)
Truncated(i, m) ==
    IF m.len < 0 THEN ClientBecomes(i, [s |-> trans_end(client[i], TRUE), wire |-> up[i]])
                      /\ UNCHANGED <<sizes, faults, overrun>>
    ELSE \E bad \in Failing("put", Links) :
        LET put == [k \in Links |-> put_file(k, m.job, k \notin bad)]
        IN  /\ client' = [k \in Links |-> IF k = i THEN Popped(put[k].s) ELSE put[k].s]
            /\ up' = [k \in Links |-> put[k].wire]
            /\ file_size' = IF 0 \in bad THEN file_size ELSE jobs[m.job].len
            /\ faults' = faults + Cardinality(bad)
            /\ overrun' = (overrun \/ \E k \in Links \ {i} : ~is_idle(k))
            /\ swapped' = (swapped \/ \E k \in Links : Stale(client[k], put[k].s))
            /\ UNCHANGED transmit_size

(* Order 11, the server is ready: send this link's share.                    *)
MayPut(i, m) ==
    LET s == client[i]
        busy == [s EXCEPT !.state = "BUSY", !.buffer = Rest(s.file, Share(jobs[s.file].len, i).pos, m.pos)]
    IN  /\ IF m.len < 0 THEN ClientBecomes(i, [s |-> trans_end(s, TRUE), wire |-> up[i]]) /\ transmit_size' = transmit_size
           ELSE ClientBecomes(i, SendChunk(busy, up[i])) /\ transmit_size' = transmit_size + ChunkSize(busy)
        /\ UNCHANGED <<file_size, faults, overrun>>

(* handle_msg, and recv_msg() when nothing is left to handle.                *)
ClientHandle(i) ==
    LET s == client[i]
        m == Head(s.got)
        prepared == s.state = "PREPARE"
    IN  /\ s.got # <<>>
        /\ \/ /\ s.state # "BUSY" /\ m.order = 0 /\ prepared /\ s.file # None
              /\ GotLength(i, m)
           \/ /\ s.state # "BUSY" /\ m.order = 10 /\ prepared /\ s.file = None
              /\ Truncated(i, m)
           \/ /\ s.state # "BUSY" /\ m.order = 11 /\ prepared /\ s.file # None
              /\ MayPut(i, m)
           \/ /\ \/ s.state = "BUSY" \/ m.order \in {Empty, Content} \/ ~prepared
                 \/ (s.file = None) # (m.order = 10)
              /\ ClientBecomes(i, [s |-> IF s.state = "BUSY" THEN BusyHandle(s) ELSE s, wire |-> up[i]])
              /\ UNCHANGED <<sizes, faults, overrun>>
        /\ UNCHANGED <<choice, app, progress, server, down, written, mixed>>

(* The write handler, with on_msg_send.                                      *)
ClientSent(i) ==
    LET s == client[i]
        data == Head(s.out)[1].order = Content
        h == OnMsgSend(s, up[i])
    IN  /\ s.out # <<>>
        /\ client' = [client EXCEPT ![i] = h.s]
        /\ up' = [up EXCEPT ![i] = h.wire]
        /\ transmit_size' = IF data THEN transmit_size + ChunkSize(s) ELSE transmit_size
        /\ swapped' = (swapped \/ Stale(s, h.s))
        /\ UNCHANGED <<choice, app, progress, file_size, server, down, written, mixed, overrun, faults>>

(***************************************************************************)
(* The server's sockets.  With one service thread the handler of a write   *)
(* runs before that of a read that needs its answer.                       *)
(***************************************************************************)
is_sending(s) == s.out # <<>>

ServerRecv(i) ==
    /\ server[i].reading # "none"
    /\ crew = 1 => ~is_sending(server[i])
    /\ \E n \in Readable(server[i], up[i]) :
        LET bytes == SubSeq(up[i], 1, n)
        IN  /\ server' = [server EXCEPT ![i] = parse_msg(server[i], bytes)]
            /\ up' = [up EXCEPT ![i] = SubSeq(@, n + 1, Len(@))]
            /\ written' = fwrite(server[i], bytes)
            /\ mixed' = (mixed \/ Misread(server[i], bytes))
    /\ UNCHANGED <<choice, app, progress, sizes, client, down, swapped, overrun, faults>>

(* Order 0: the length of the file, or -1.                                   *)
Prepare(s, wire, j, ok) ==
    LET ended == Ended(s)
    IN  IF ok THEN Send([ended EXCEPT !.state = "PREPARE", !.file = j], wire, <<Msg(0, j, 0, jobs[j].len)>>)
        ELSE Send(ended, wire, <<Msg(0, j, 0, -1)>>)

(* Order 1: the content, which the client is now ready to read.              *)
SendShare(s, wire, m) ==
    IF m.pos >= 0 /\ m.len > 0 /\ m.pos + m.len <= jobs[s.file].len
    THEN SendChunk([s EXCEPT !.state = "BUSY", !.buffer = Rest(s.file, m.pos, m.len)], wire)
    ELSE [s |-> Ended(s), wire |-> wire]

(* Order 10: an empty file.                                                  *)
Truncate(s, wire, j, ok) == Send(Ended(s), wire, <<Msg(10, j, 0, IF ok THEN 0 ELSE -1)>>)

(* Order 11: the unpacker is replaced before the client is told to send.     *)
AcceptShareUnsought(s, wire, m, ok) ==
    LET ended == Ended(s)
        busy == SetUnpacker([ended EXCEPT !.state = "BUSY", !.file = m.job], Rest(m.job, 0, m.len))
    IN  Send(IF ok THEN busy ELSE ended, wire, <<Msg(11, m.job, m.len, IF ok THEN 0 ELSE -1)>>)
AcceptShare(s, wire, m, ok) ==
    LET ended == Ended(s)
        busy == SetUnpacker([ended EXCEPT !.state = "BUSY", !.file = m.job], Rest(m.job, m.pos, m.len))
    IN  Send(IF ok THEN busy ELSE ended, wire, <<Msg(11, m.job, m.len, IF ok THEN 0 ELSE -1)>>)

Opens(m) == m.order \in {0, 10, 11}

(* handle_msg: an order that opens a file is dropped during a write.         *)
ServerHandle(i) ==
    LET s == server[i]
        m == Head(s.got)
    IN  /\ s.got # <<>>
        /\ \E ok \in IF s.state # "BUSY" /\ Opens(m) /\ ~is_sending(s) THEN MayFail("server") ELSE {TRUE} :
            LET h == CASE s.state = "BUSY" -> [s |-> BusyHandle(s), wire |-> down[i]]
                       [] s.state # "BUSY" /\ m.order = 0 /\ ~is_sending(s) -> Prepare(s, down[i], m.job, ok)
                       [] s.state = "PREPARE" /\ m.order = 1 /\ s.file # None -> SendShare(s, down[i], m)
                       [] s.state # "BUSY" /\ m.order = 10 /\ ~is_sending(s) -> Truncate(s, down[i], m.job, ok)
                       [] s.state # "BUSY" /\ m.order = 11 /\ ~is_sending(s) -> AcceptShare(s, down[i], m, ok)
                       [] OTHER -> [s |-> s, wire |-> down[i]]
            IN  /\ server' = [server EXCEPT ![i] = Popped(h.s)]
                /\ down' = [down EXCEPT ![i] = h.wire]
                /\ swapped' = (swapped \/ Stale(s, h.s))
                /\ faults' = faults + IF ok THEN 0 ELSE 1
        /\ UNCHANGED <<choice, app, progress, sizes, client, up, written, mixed, overrun>>

ServerSent(i) ==
    LET h == OnMsgSend(server[i], down[i])
    IN  /\ is_sending(server[i])
        /\ server' = [server EXCEPT ![i] = h.s]
        /\ down' = [down EXCEPT ![i] = h.wire]
        /\ swapped' = (swapped \/ Stale(server[i], h.s))
        /\ UNCHANGED <<choice, app, progress, sizes, client, up, written, mixed, overrun, faults>>

LinkStep(i) ==
    \/ ClientRecv(i) \/ ClientHandle(i) \/ ClientSent(i)
    \/ ServerRecv(i) \/ ServerHandle(i) \/ ServerSent(i)

Next ==
    \/ Type \/ transmit_file \/ GiveUp \/ ReportEnd \/ CleanedUp \/ TransmitNext
    \/ \E i \in Links : LinkStep(i)

Spec == Init /\ [][Next]_vars

(* Threads run what is queued, the network delivers; the user may stop.      *)
Fairness ==
    /\ WF_vars(transmit_file) /\ WF_vars(GiveUp) /\ WF_vars(ReportEnd)
    /\ WF_vars(CleanedUp) /\ WF_vars(TransmitNext)
    /\ \A i \in Links :
        /\ WF_vars(ClientRecv(i)) /\ WF_vars(ClientHandle(i)) /\ WF_vars(ClientSent(i))
        /\ WF_vars(ServerRecv(i)) /\ WF_vars(ServerHandle(i)) /\ WF_vars(ServerSent(i))

FairSpec == Spec /\ Fairness

-----------------------------------------------------------------------------
TypeOK ==
    /\ typed \in 0 .. Len(jobs) /\ file_list \in Seq(Jobs) /\ mutex \in {"free", "app", "handler"}
    /\ timer \in BOOLEAN /\ handler \in {"none", "wait", "transmit"} /\ current \in Jobs \cup {None}
    /\ reported \subseteq Jobs /\ file_size \in Nat \cup {-1} /\ transmit_size \in Nat
    /\ faults \in 0 .. MaxFaults

(* A byte of a file is never read as an order, nor an order as content, and  *)
(* no unpacker is replaced while a read fills its buffer: both ends change   *)
(* unpackers at the same place of the stream (file_client.h:288, file_socket *)
(* .cpp:207, trans_end).                                                     *)
NeverMixed == ~mixed /\ ~swapped

(* When the user is told that a file has been got it is whole at its         *)
(* destination, byte by byte; one that has been put is whole as soon as the  *)
(* links are drained (file_client.h:458, the shares at 276-281).             *)
Whole(j) ==
    {w \in written : w[1] = j} = {<<j, p, Byte(j, p)>> : p \in 0 .. jobs[j].len - 1}
Drained == \A i \in Links : up[i] = <<>> /\ server[i].state = "IDLE" /\ server[i].got = <<>>
Arrives == \A j \in reported : jobs[j].type = "get" \/ Drained => Whole(j)

(* put_file() takes every link over, and relies on its being idle: "wait all *)
(* file_socket to clean up themselves" (file_client.h:463).                  *)
PutsOnIdleLinks == ~overrun

(* Every transmission ends, as does the queue of jobs, though fopen fails    *)
(* anywhere: no link keeps the others waiting.                               *)
AtRest == ~timer /\ handler = "none" /\ mutex = "free" /\ file_list = <<>> /\ is_end
Ends == crew = 1 => []<>AtRest
=============================================================================
