------------------------------ MODULE Framing ------------------------------
(***************************************************************************)
(* Packers and unpackers of ascs (ext/packer.h, ext/unpacker.h) at the two *)
(* ends of one TCP link.  A sender packs messages; the stream arrives cut  *)
(* at any byte; the receiver runs asio's async_read over prepare_next_recv *)
(* and completion_condition, then recv_handler over parse_msg.  An         *)
(* unpacker is chosen in Init: they share the socket that drives them.     *)
(* Bytes are digits in base Base, so a head of HEAD_LEN digits has a range *)
(* as htons gives it one, and a head read at a wrong place reads another   *)
(* length.                                                                 *)
(***************************************************************************)
EXTENDS SequencesExt, Integers

CONSTANTS
    HEAD_LEN,           \* ASCS_HEAD_LEN
    MSG_BUFFER_SIZE,    \* ASCS_MSG_BUFFER_SIZE
    RAW_BUFF,           \* size of flexible_unpacker's fixed buffer
    FIXED,              \* fixed_length_unpacker's length
    Prefix, Suffix,     \* of prefix_suffix_packer and its unpacker
    Base,               \* values of a byte
    Kinds,              \* the unpackers to look at
    Bodies(_),          \* bound: what the application sends, for an unpacker
    MaxMsgs             \* bound: calls that pack something

ASSUME FramingAssumption ==
    /\ {HEAD_LEN, RAW_BUFF, FIXED, Base, MaxMsgs} \subseteq Nat \ {0}
    /\ HEAD_LEN <= MSG_BUFFER_SIZE /\ RAW_BUFF > HEAD_LEN /\ FIXED <= MSG_BUFFER_SIZE
    /\ Suffix # <<>> /\ Len(Prefix) + Len(Suffix) < MSG_BUFFER_SIZE
    /\ MSG_BUFFER_SIZE < Base ^ HEAD_LEN    \* a head can hold every length

NoLen == Base ^ HEAD_LEN    \* (size_t) -1, above every length
LengthKinds == {"unpacker", "flexible_unpacker", "non_copy_unpacker"}
StreamKinds == {"fixed_length_unpacker", "stream_unpacker"}

VARIABLES
    kind, stripped,     \* the unpacker, and whether it strips messages; never change
    boxed,              \* packer2 and unpacker2: messages are held by unique or shared buffers
    sent,               \* what was packed successfully, heartbeats excluded
    foreign,            \* a frame no unpacker of this kind accepts is on its way
    calls,              \* what MaxMsgs counts
    wire,               \* bytes not received yet
    buf,                \* received bytes in raw_buff, or in big_msg: remain_len + bytes_transferred
    got,                \* bytes_transferred of the read that runs
    cur_msg_len,        \* of the unpackers
    big,                \* size of big_msg, of non_copy_unpacker's raw_buff; 0 when empty
    phase,              \* idle, reading, done, closed or stuck (no read follows)
    broken,             \* the read ended with an error
    msgs,               \* what handle_msg was given
    reported            \* on_unpack_error was called

unpackerVars == <<buf, cur_msg_len, big>>
choiceVars == <<kind, stripped, boxed>>
senderVars == <<choiceVars, sent, foreign, calls>>
vars == <<senderVars, unpackerVars, wire, got, phase, broken, msgs, reported>>

SizeOf(chunks) == FoldLeft(LAMBDA n, c : n + Len(c), 0, chunks)
Drop(s, n) == SubSeq(s, n + 1, Len(s))

-----------------------------------------------------------------------------
(* The packers.                                                              *)

pack_header(len) == [i \in 1..HEAD_LEN |-> (len \div (Base ^ (HEAD_LEN - i))) % Base]
N2H(b) == FoldLeft(LAMBDA v, i : v * Base + b[i], 0, [i \in 1..HEAD_LEN |-> i])

(* NoLen when the pieces do not fit.                                         *)
msg_size_check(pre_len, pieces) ==
    LET total_len == pre_len + SizeOf(pieces)
    IN  IF total_len > MSG_BUFFER_SIZE THEN NoLen ELSE total_len

(* A packed message is the list of chunks put into the send buffer; an empty *)
(* list is what pack_msg returns, or false, when it packs nothing.  The      *)
(* copying pack_msg refuses an empty message ...                             *)
PackCopied(pieces) ==
    LET total_len == msg_size_check(HEAD_LEN, pieces)
    IN  IF total_len = NoLen \/ total_len = HEAD_LEN THEN <<>>
        ELSE <<pack_header(total_len) \o FlattenSeq(pieces)>>

(* ... the moving ones (one message, two, a list) put a head before it.      *)
PackMovedHeadless(pieces) == IF HEAD_LEN + SizeOf(pieces) > MSG_BUFFER_SIZE THEN <<>>
                             ELSE <<pack_header(SizeOf(pieces))>> \o pieces
PackMoved(pieces) ==
    IF SizeOf(pieces) > MSG_BUFFER_SIZE - HEAD_LEN THEN <<>>
    ELSE <<pack_header(HEAD_LEN + SizeOf(pieces))>> \o pieces

PackFixed(pieces) == pieces

PackPrefixCopied(pieces) ==
    LET pre_len == Len(Prefix) + Len(Suffix)
        total_len == msg_size_check(pre_len, pieces)
    IN  IF total_len = NoLen \/ total_len = pre_len THEN <<>>
        ELSE <<Prefix \o FlattenSeq(pieces) \o Suffix>>

PackPrefixMoved(pieces) ==
    IF Len(Prefix) + SizeOf(pieces) + Len(Suffix) > MSG_BUFFER_SIZE THEN <<>>
    ELSE (IF Prefix = <<>> THEN <<>> ELSE <<Prefix>>) \o pieces \o <<Suffix>>

PackHeartbeat == pack_header(HEAD_LEN)
PackPrefixHeartbeat == Prefix \o Suffix

(* packer2 makes a buffer for the head, or for the whole copied message; the *)
(* socket sends what a buffer holds.                                         *)
Box(b) == [raw_buffer |-> b]
Unbox(m) == IF boxed THEN m.raw_buffer ELSE m
Pack2(copied, pieces) ==
    IF copied THEN <<Box(FlattenSeq(PackCopied(pieces)))>>
    ELSE LET chunks == PackMoved(pieces) IN [i \in DOMAIN chunks |-> Box(chunks[i])]

Packed(copied, pieces) ==
    CASE boxed -> Pack2(copied, pieces)
      [] kind \in StreamKinds -> PackFixed(pieces)
      [] kind = "prefix_suffix_unpacker" -> IF copied THEN PackPrefixCopied(pieces) ELSE PackPrefixMoved(pieces)
      [] OTHER -> IF copied THEN PackCopied(pieces) ELSE PackMoved(pieces)

-----------------------------------------------------------------------------
(* The unpackers.  An unpacker is its bytes b and its cur; what a parse      *)
(* leaves is that, whether it succeeded, and the frames it found.            *)

Invalid(cur) == cur > MSG_BUFFER_SIZE \/ cur < HEAD_LEN
Learn(b, cur) == IF cur = NoLen /\ Len(b) >= HEAD_LEN THEN N2H(b) ELSE cur
Parsed(ok, b, cur, bg, frames) == [ok |-> ok, buf |-> b, cur |-> cur, big |-> bg, frames |-> frames]

(* The loop over sticky packages; it must find at least one message.         *)
RECURSIVE Unpack(_, _, _)
Unpack(b, cur, frames) ==
    IF cur = NoLen
    THEN IF Len(b) >= HEAD_LEN THEN Unpack(b, N2H(b), frames) ELSE Parsed(frames # <<>>, b, cur, 0, frames)
    ELSE IF Invalid(cur) THEN Parsed(FALSE, b, cur, 0, frames)
    ELSE IF Len(b) >= cur THEN Unpack(Drop(b, cur), NoLen, Append(frames, SubSeq(b, 1, cur)))
    ELSE Parsed(frames # <<>>, b, cur, 0, frames)

ParseOne(b, cur) ==
    LET c == Learn(b, cur)
    IN  IF ~Invalid(c) /\ Len(b) >= c THEN Parsed(TRUE, Drop(b, c), NoLen, 0, <<SubSeq(b, 1, c)>>) ELSE Parsed(FALSE, b, c, 0, <<>>)
Parse(b, cur) == Unpack(b, cur, <<>>)

extend_buffer_unstripped(p) == [p EXCEPT !.big = p.cur]
extend_buffer(p) ==
    IF stripped THEN [p EXCEPT !.buf = Drop(p.buf, HEAD_LEN), !.cur = @ - HEAD_LEN, !.big = p.cur - HEAD_LEN]
    ELSE [p EXCEPT !.big = p.cur]

ParseFlexible(b, cur, bg) ==
    LET c == Learn(b, cur)
        p == Unpack(b, c, <<>>)
    IN  IF bg > 0 THEN IF Len(b) # bg THEN Parsed(FALSE, b, cur, bg, <<>>) ELSE Parsed(TRUE, <<>>, NoLen, 0, <<b>>)
        ELSE IF c <= MSG_BUFFER_SIZE /\ c > RAW_BUFF THEN extend_buffer(Parsed(TRUE, b, c, 0, <<>>))
        ELSE IF p.ok /\ p.cur # NoLen /\ p.cur > RAW_BUFF THEN extend_buffer(p)
        ELSE p

(* step is 1 exactly when raw_buff, here big, is not empty; the head goes to *)
(* its own member, so nothing remains between two reads.                     *)
ParseNonCopy(b, bg) ==
    LET body == N2H(b) - HEAD_LEN     \* wraps to a huge size when negative
    IN  IF bg > 0 THEN IF Len(b) # bg THEN Parsed(FALSE, b, NoLen, bg, <<>>) ELSE Parsed(TRUE, <<>>, NoLen, 0, <<b>>)
        ELSE IF Len(b) # HEAD_LEN \/ body < 0 \/ body > MSG_BUFFER_SIZE - HEAD_LEN THEN Parsed(FALSE, <<>>, NoLen, 0, <<>>)
        ELSE Parsed(TRUE, <<>>, NoLen, body, <<>>)

ParseFixed(b) ==
    IF Len(b) # FIXED THEN Parsed(FALSE, <<>>, NoLen, 0, <<>>) ELSE Parsed(TRUE, <<>>, NoLen, 0, <<b>>)

ParseStream(b) == Parsed(b # <<>>, <<>>, NoLen, 0, IF b = <<>> THEN <<>> ELSE <<b>>)

(* Where Suffix begins in b, 0 when it is not there.                         *)
memmem(b) ==
    LET at == {i \in 1..Len(b) - Len(Suffix) + 1 : SubSeq(b, i, i + Len(Suffix) - 1) = Suffix}
    IN  IF at = {} THEN 0 ELSE CHOOSE i \in at : \A j \in at : i <= j

(* A new cur, and whether reading stops.                                     *)
peek_msg(b, cur) ==
    LET good == IsPrefix(Prefix, b)
        c == IF cur = NoLen /\ Len(b) >= Len(Prefix) THEN 0 ELSE cur
        end == memmem(Drop(b, Len(Prefix)))
    IN  IF cur = NoLen /\ Len(b) >= Len(Prefix) /\ ~good THEN [cur |-> cur, stop |-> TRUE]
        ELSE IF cur # NoLen /\ cur # 0 THEN [cur |-> cur, stop |-> TRUE]
        ELSE IF Len(b) > Len(Prefix) + Len(Suffix) /\ end > 0
             THEN [cur |-> Len(Prefix) + end - 1 + Len(Suffix), stop |-> TRUE]
        ELSE [cur |-> c, stop |-> Len(b) > Len(Prefix) + Len(Suffix) /\ Len(b) >= MSG_BUFFER_SIZE]

RECURSIVE Peeks(_, _, _)
Peeks(b, cur, frames) ==
    LET k == peek_msg(b, cur)
    IN  IF k.stop /\ k.cur # NoLen /\ k.cur # 0
        THEN Peeks(Drop(b, k.cur), NoLen, Append(frames, SubSeq(b, 1, k.cur)))
        ELSE Parsed(frames # <<>>, b, k.cur, 0, frames)
ParsePrefix(b, cur) == Peeks(b, cur, <<>>)

parse_msg ==
    CASE kind = "unpacker" -> Parse(buf, cur_msg_len)
      [] kind = "flexible_unpacker" -> ParseFlexible(buf, cur_msg_len, big)
      [] kind = "non_copy_unpacker" -> ParseNonCopy(buf, big)
      [] kind = "fixed_length_unpacker" -> ParseFixed(buf)
      [] kind = "prefix_suffix_unpacker" -> ParsePrefix(buf, cur_msg_len)
      [] kind = "stream_unpacker" -> ParseStream(buf)

(* Heartbeats are ignored, and a message is given stripped when the user     *)
(* wants it so; raw_data and raw_data_len find the body in either form.      *)
heads == IF kind = "unpacker" \/ (kind = "flexible_unpacker" /\ big = 0) THEN HEAD_LEN
         ELSE IF kind = "prefix_suffix_unpacker" THEN Len(Prefix) ELSE 0
tails == IF kind = "prefix_suffix_unpacker" THEN Len(Suffix) ELSE 0
Stripped(frame) == SubSeq(frame, heads + 1, Len(frame) - tails)
Delivered(frames) == LET whole == SelectSeq(frames, LAMBDA f : Len(f) > heads + tails)
                     IN  IF stripped THEN [i \in DOMAIN whole |-> Stripped(whole[i])] ELSE whole
Parse2(frames) == LET given == Delivered(frames)     \* unpacker2 makes a buffer of each message
                  IN  [i \in DOMAIN given |-> IF boxed THEN Box(given[i]) ELSE given[i]]
raw_data(msg) ==
    LET h == IF kind \in {"unpacker", "flexible_unpacker"} THEN HEAD_LEN ELSE heads
    IN  IF stripped THEN Unbox(msg) ELSE SubSeq(Unbox(msg), h + 1, Len(Unbox(msg)) - tails)

(* completion_condition, over all bytes there are: the new cur, and whether  *)
(* the read is complete.  What it returns otherwise is never smaller than    *)
(* the room that is left.                                                    *)
ConditionLate(b, limit) ==
    LET c == Learn(b, cur_msg_len)
    IN  [cur |-> c, stop |-> (c # cur_msg_len /\ (Invalid(c) \/ c > limit)) \/ Len(b) > c]
ConditionUnchecked(b, limit) ==
    LET c == Learn(b, cur_msg_len) IN [cur |-> c, stop |-> (c > limit /\ c <= MSG_BUFFER_SIZE) \/ Len(b) >= c]
ConditionLength(b, limit) ==
    LET c == Learn(b, cur_msg_len)
    IN  [cur |-> c, stop |-> (c # cur_msg_len /\ (Invalid(c) \/ c > limit)) \/ Len(b) >= c]
ConditionFlexible(b) == ConditionLength(b, RAW_BUFF)
completion_condition(b, n) ==
    CASE kind = "unpacker" -> ConditionLength(b, MSG_BUFFER_SIZE)
      [] kind = "flexible_unpacker" -> ConditionFlexible(b)
      [] kind = "prefix_suffix_unpacker" -> peek_msg(b, cur_msg_len)
      [] kind = "fixed_length_unpacker" -> [cur |-> NoLen, stop |-> n = FIXED]
      [] kind = "stream_unpacker" -> [cur |-> NoLen, stop |-> n > 0]
      [] OTHER -> [cur |-> NoLen, stop |-> FALSE]

(* Size of the buffer prepare_next_recv offers, what it holds included.      *)
Capacity ==
    CASE kind = "flexible_unpacker" -> IF big > 0 THEN big ELSE RAW_BUFF
      [] kind = "non_copy_unpacker" -> IF big > 0 THEN big ELSE HEAD_LEN
      [] kind = "fixed_length_unpacker" -> FIXED
      [] OTHER -> MSG_BUFFER_SIZE

-----------------------------------------------------------------------------
(* The sender.                                                               *)

(* send_msg and its kin over one piece or two; what is too long, or empty,   *)
(* is refused, and with it nothing is sent.                                  *)
Send(copied, pieces) ==
    /\ calls < MaxMsgs
    /\ LET chunks == Packed(copied, pieces)
           bytes == FlattenSeq([i \in DOMAIN chunks |-> Unbox(chunks[i])])
       IN  /\ bytes # <<>>
           /\ wire' = wire \o bytes
           /\ sent' = IF SizeOf(pieces) = 0 THEN sent ELSE Append(sent, FlattenSeq(pieces))
    /\ calls' = calls + 1
    /\ UNCHANGED <<choiceVars, foreign, unpackerVars, got, phase, broken, msgs, reported>>

SendHeartbeat ==
    /\ calls < MaxMsgs /\ kind \notin StreamKinds
    /\ wire' = wire \o (IF kind = "prefix_suffix_unpacker" THEN PackPrefixHeartbeat ELSE PackHeartbeat)
    /\ calls' = calls + 1
    /\ UNCHANGED <<choiceVars, sent, foreign, unpackerVars, got, phase, broken, msgs, reported>>

(* A peer with a larger ASCS_MSG_BUFFER_SIZE, or one whose head does not     *)
(* count itself: the last frame of the link.                                 *)
SendForeign(len) ==
    /\ kind \in LengthKinds
    /\ calls < MaxMsgs
    /\ wire' = wire \o pack_header(len)
    /\ foreign' = TRUE
    /\ calls' = MaxMsgs
    /\ UNCHANGED <<choiceVars, sent, unpackerVars, got, phase, broken, msgs, reported>>

-----------------------------------------------------------------------------
(* The receiver.                                                             *)

(* do_recv_msg: async_read asks the condition once before it reads; a read   *)
(* with no room, or a condition that is met, completes at once.              *)
do_recv_msg ==
    /\ phase = "idle"
    /\ LET c == completion_condition(buf, 0)
       IN  /\ cur_msg_len' = c.cur
           /\ phase' = IF c.stop \/ Len(buf) = Capacity THEN "done" ELSE "reading"
    /\ got' = 0
    /\ UNCHANGED <<senderVars, buf, big, wire, broken, msgs, reported>>

read_some(n) ==
    /\ phase = "reading"
    /\ n \in 1..Len(wire) /\ n <= Capacity - Len(buf)
    /\ LET b == buf \o SubSeq(wire, 1, n)
           c == completion_condition(b, got + n)
       IN  /\ buf' = b
           /\ cur_msg_len' = c.cur
           /\ phase' = IF c.stop \/ Len(b) = Capacity THEN "done" ELSE "reading"
    /\ wire' = Drop(wire, n) /\ got' = got + n
    /\ UNCHANGED <<senderVars, big, broken, msgs, reported>>

(* The link breaks under a read; what is on its way is lost.                 *)
Break ==
    /\ phase = "reading"
    /\ phase' = "done" /\ broken' = TRUE /\ wire' = <<>>
    /\ calls' = MaxMsgs
    /\ UNCHANGED <<choiceVars, sent, foreign, unpackerVars, got, msgs, reported>>

(* recv_handler with bytes: on_unpack_error (which shuts the link down) and  *)
(* reset() when they cannot be unpacked; what was unpacked is handled.       *)
Received ==
    /\ phase = "done" /\ got > 0
    /\ LET p == parse_msg
       IN  /\ msgs' = msgs \o Parse2(p.frames)
           /\ reported' = (reported \/ (~p.ok /\ ~broken))
           /\ buf' = IF p.ok THEN p.buf ELSE <<>>
           /\ cur_msg_len' = IF p.ok THEN p.cur ELSE NoLen
           /\ big' = IF p.ok THEN p.big ELSE 0
           /\ phase' = IF p.ok /\ ~broken THEN "idle" ELSE "closed"
    /\ UNCHANGED <<senderVars, wire, got, broken>>

(* recv_handler without any: an error of the link, or an unpacker that       *)
(* wants nothing; no read follows.                                           *)
ReceivedNothing ==
    /\ phase = "done" /\ got = 0
    /\ phase' = IF broken THEN "closed" ELSE "stuck"
    /\ UNCHANGED <<senderVars, unpackerVars, wire, got, broken, msgs, reported>>

Init ==
    /\ kind \in Kinds
    /\ stripped \in (IF kind \in {"unpacker", "flexible_unpacker", "prefix_suffix_unpacker"} THEN BOOLEAN ELSE {TRUE})
    /\ boxed \in (IF kind \in {"unpacker", "flexible_unpacker"} THEN BOOLEAN ELSE {FALSE})
    /\ sent = <<>> /\ foreign = FALSE /\ calls = 0 /\ wire = <<>>
    /\ buf = <<>> /\ got = 0 /\ cur_msg_len = NoLen /\ big = 0
    /\ phase = "idle" /\ broken = FALSE /\ msgs = <<>> /\ reported = FALSE

Next ==
    \/ \E copied \in BOOLEAN, m \in Bodies(kind) : Send(copied, <<m>>)
    \/ \E m \in Bodies(kind), n \in Bodies(kind) : Send(FALSE, <<m, n>>)
    \/ SendHeartbeat
    \/ \E len \in {0, HEAD_LEN - 1, MSG_BUFFER_SIZE + 1, NoLen - 1} : SendForeign(len)
    \/ do_recv_msg
    \/ \E n \in 1..MSG_BUFFER_SIZE : read_some(n)
    \/ Break
    \/ Received
    \/ ReceivedNothing

Spec == Init /\ [][Next]_vars

-----------------------------------------------------------------------------
(* Properties.                                                               *)

Same(got_, want) == IF kind \in StreamKinds THEN IsPrefix(FlattenSeq(got_), FlattenSeq(want)) ELSE IsPrefix(got_, want)

(* However the stream is cut, and whatever the form a packer gave a message  *)
(* and an unpacker left it in, the receiver is given the messages that were  *)
(* sent: whole, in order, none twice and no heartbeat among them (parse_msg  *)
(* of every unpacker, raw_data, pack_msg).                                   *)
AsSent == Same([i \in DOMAIN msgs |-> raw_data(msgs[i])], sent)

(* A read that waits for bytes withholds no message whose bytes have all     *)
(* come: the loops over sticky packages, the condition that ends a read, and *)
(* the move of a big message out of the fixed buffer leave no whole message  *)
(* behind (unpacker.h:66, 151, 271-278, 664).  fixed_length needs FIXED      *)
(* bytes for one.                                                            *)
NothingWithheld ==
    (phase = "reading" /\ wire = <<>> /\ ~foreign) =>
        IF kind \in StreamKinds
        THEN SizeOf(msgs) +  (IF kind = "fixed_length_unpacker" THEN SizeOf(sent) % FIXED ELSE 0) = SizeOf(sent)
        ELSE Len(msgs) = Len(sent)

(* No read ends with neither bytes nor an error, which recv_handler takes    *)
(* for a broken unpacker (tcp/socket.h:364) and after which nothing reads    *)
(* any more; and no bytes of a sound peer are refused.                       *)
ReadsOn == phase # "stuck" /\ (reported => foreign)

(* A frame of a length the unpacker cannot hold is always reported, whatever *)
(* came with it in one read, and never waited for (unpacker.h:69, 147, 300,  *)
(* 487).                                                                     *)
ForeignReported == (foreign /\ wire = <<>> /\ phase \in {"idle", "reading"}) => reported
=============================================================================
