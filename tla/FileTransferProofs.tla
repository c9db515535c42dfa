-------------------------- MODULE FileTransferProofs --------------------------
(***************************************************************************)
(* What FileTransfer promises for every number of links, size of a chunk,  *)
(* list of jobs and number of failures: content and orders are never taken *)
(* for one another, no link is begun anew before it is idle, and files     *)
(* arrive whole.  The user types nothing while the sockets clean up        *)
(* (AppWaits), and the client can open the files it gets ("get" not in     *)
(* Faults): TLC finds the second broken without the one, and all of them   *)
(* without the other.                                                      *)
(***************************************************************************)
EXTENDS FileTransfer, SequenceTheorems, FiniteSetTheorems, TLAPS

Messages == [order : Int, job : Int, pos : Int, len : Int]
Sockets == [state : {"IDLE", "PREPARE", "BUSY"}, file : Int,
            unpacker : [job : Int, pos : Int, left : Int], reading : {"own", "stale", "none"},
            got : Seq(Messages), out : Seq(Seq(Messages)), buffer : [job : Int, pos : Int, left : Int]]

(* What is on its way to the other end: contents, and one order behind them  *)
(* at most.                                                                  *)
IsOrder(J, m) == m.order \in {0, 1, 10, 11} /\ m.job \in J
IsStream(J, p) ==
    /\ p \in Seq(Messages)
    /\ \A k \in 1 .. Len(p) : p[k].order = Content \/ (k = Len(p) /\ IsOrder(J, p[k]))
Ordered(p) == p # <<>> /\ p[Len(p)].order # Content
Orders(p) == IF Ordered(p) THEN {p[Len(p)]} ELSE {}
Amount(p) == IF Ordered(p) THEN Len(p) - 1 ELSE Len(p)

OfContent(b) == b \in Seq(Messages) /\ b # <<>> /\ \A k \in 1 .. Len(b) : b[k].order = Content
OfOrder(J, b) == \E m \in Messages : IsOrder(J, m) /\ b = <<m>>

(* Content is put behind a stream that has no order.                         *)
LEMMA StreamOfContent ==
  ASSUME NEW J \in SUBSET Int, NEW p, IsStream(J, p), Orders(p) = {}, NEW b, OfContent(b)
  PROVE  /\ IsStream(J, p \o b) /\ Orders(p \o b) = {}
         /\ Amount(p \o b) = Amount(p) + Len(b)
<1>1. p \in Seq(Messages) /\ b \in Seq(Messages) /\ Len(p) \in Nat /\ Len(b) \in Nat /\ Len(b) > 0
  BY EmptySeq, LenProperties DEF IsStream, OfContent
<1>2. ~Ordered(p)
  BY DEF Orders
<1>3. /\ p \o b \in Seq(Messages) /\ Len(p \o b) = Len(p) + Len(b)
      /\ \A k \in 1 .. Len(p) + Len(b) : (p \o b)[k] = IF k <= Len(p) THEN p[k] ELSE b[k - Len(p)]
  BY <1>1, ConcatProperties
<1>4. \A k \in 1 .. Len(p) : p[k].order = Content
  BY <1>1, <1>2 DEF Ordered, IsStream
<1>5. \A k \in 1 .. Len(p) + Len(b) : (p \o b)[k].order = Content
  BY <1>1, <1>3, <1>4 DEF OfContent
<1>6. ~Ordered(p \o b)
  BY <1>1, <1>3, <1>5 DEF Ordered
<1> QED BY <1>1, <1>2, <1>3, <1>5, <1>6 DEF IsStream, Orders, Amount

(* An order is put behind it.                                                *)
LEMMA StreamOfOrder ==
  ASSUME NEW J \in SUBSET Int, NEW p, IsStream(J, p), Orders(p) = {},
         NEW m \in Messages, IsOrder(J, m)
  PROVE  /\ IsStream(J, p \o <<m>>) /\ Orders(p \o <<m>>) = {m}
         /\ Amount(p \o <<m>>) = Amount(p)
<1> DEFINE b == <<m>>
<1>1. p \in Seq(Messages) /\ b \in Seq(Messages) /\ Len(p) \in Nat /\ Len(b) = 1 /\ b[1] = m
  BY LenProperties DEF IsStream
<1>2. ~Ordered(p)
  BY DEF Orders
<1> HIDE DEF b
<1>3. /\ p \o b \in Seq(Messages) /\ Len(p \o b) = Len(p) + 1
      /\ \A k \in 1 .. Len(p) + 1 : (p \o b)[k] = IF k <= Len(p) THEN p[k] ELSE b[k - Len(p)]
  BY <1>1, ConcatProperties
<1>4. \A k \in 1 .. Len(p) : p[k].order = Content
  BY <1>1, <1>2 DEF Ordered, IsStream
<1>5. (p \o b)[Len(p) + 1] = m /\ \A k \in 1 .. Len(p) : (p \o b)[k].order = Content
  BY <1>1, <1>3, <1>4
<1>6. m.order # Content
  BY DEF IsOrder, Content
<1>7. Ordered(p \o b) /\ (p \o b)[Len(p \o b)] = m
  BY <1>1, <1>3, <1>5, <1>6 DEF Ordered
<1>8. IsStream(J, p \o b)
  BY <1>1, <1>3, <1>5 DEF IsStream
<1> QED BY <1>1, <1>2, <1>3, <1>7, <1>8 DEF Orders, Amount, b

(* q is p without its first n messages.                                      *)
Cut(p, n, q) ==
    /\ p \in Seq(Messages) /\ q \in Seq(Messages) /\ n \in Nat /\ n <= Len(p)
    /\ Len(q) = Len(p) - n /\ \A k \in 1 .. Len(p) - n : q[k] = p[k + n]

(* What was content of a stream is taken from its front.                     *)
LEMMA StreamRead ==
  ASSUME NEW J \in SUBSET Int, NEW p, IsStream(J, p), NEW n, NEW q, Cut(p, n, q), n <= Amount(p)
  PROVE  /\ IsStream(J, q) /\ Orders(q) = Orders(p) /\ Amount(q) = Amount(p) - n
         /\ \A k \in 1 .. n : p[k].order = Content
<1>1. p \in Seq(Messages) /\ Len(p) \in Nat
  BY LenProperties DEF IsStream
<1>2. n \in Nat /\ n <= Len(p)
  BY DEF Cut
<1>3. /\ q \in Seq(Messages) /\ Len(q) = Len(p) - n
      /\ \A k \in 1 .. Len(p) - n : q[k] = p[k + n]
  BY DEF Cut
<1>4. IsStream(J, q)
  <2> SUFFICES ASSUME NEW k \in 1 .. Len(q)
               PROVE  q[k].order = Content \/ (k = Len(q) /\ IsOrder(J, q[k]))
    BY <1>3 DEF IsStream
  <2>1. k + n \in 1 .. Len(p) /\ q[k] = p[k + n] /\ (k + n = Len(p) <=> k = Len(q))
    BY <1>1, <1>2, <1>3
  <2> QED BY <2>1 DEF IsStream
<1>5. \A k \in 1 .. n : p[k].order = Content
  <2> SUFFICES ASSUME NEW k \in 1 .. n PROVE p[k].order = Content
    OBVIOUS
  <2>1. CASE Ordered(p)
    BY <1>1, <1>2, <2>1 DEF Amount, IsStream
  <2>2. CASE ~Ordered(p)
    BY <1>1, <1>2, <2>2, EmptySeq DEF Amount, Ordered, IsStream
  <2> QED BY <2>1, <2>2
<1>6. CASE Ordered(p)
  <2>1. Len(q) > 0 /\ q[Len(q)] = p[Len(p)]
    BY <1>1, <1>2, <1>3, <1>6 DEF Amount
  <2>2. Ordered(q)
    BY <1>3, <1>6, <2>1 DEF Ordered
  <2> QED BY <1>1, <1>2, <1>3, <1>4, <1>5, <1>6, <2>1, <2>2 DEF Amount, Orders
<1>7. CASE ~Ordered(p)
  <2>1. ~Ordered(q)
    <3>1. CASE Len(q) = 0
      BY <1>3, <3>1, EmptySeq DEF Ordered
    <3>2. CASE Len(q) # 0
      BY <1>1, <1>2, <1>3, <1>7, <3>2, EmptySeq DEF Ordered
    <3> QED BY <3>1, <3>2
  <2> QED BY <1>1, <1>3, <1>4, <1>5, <1>7, <2>1 DEF Amount, Orders
<1> QED BY <1>6, <1>7

(* A stream without content is one order.                                    *)
LEMMA StreamTaken ==
  ASSUME NEW J \in SUBSET Int, NEW p, IsStream(J, p), Amount(p) = 0, Len(p) >= 1
  PROVE  Len(p) = 1 /\ Orders(p) = {p[1]} /\ p[1] \in Messages /\ IsOrder(J, p[1])
<1>1. p \in Seq(Messages) /\ Len(p) \in Nat
  BY LenProperties DEF IsStream
<1>2. Ordered(p)
  BY <1>1 DEF Amount
<1>3. Len(p) = 1
  BY <1>1, <1>2 DEF Amount
<1>4. p[1] \in Messages /\ p[1].order # Content /\ IsOrder(J, p[1])
  BY <1>1, <1>2, <1>3 DEF IsStream, Ordered
<1> QED BY <1>2, <1>3, <1>4 DEF Orders

-----------------------------------------------------------------------------
(* A socket and the wire it writes to.  Pipe is all that it has sent and the *)
(* other end has not read: what is on the wire, and the batch that waits for *)
(* the one before it to be completed.                                        *)
Nothing == Msg(Empty, 0, 0, 0)
OutOK(J, out) ==
    /\ out \in Seq(Seq(Messages)) /\ Len(out) <= 2
    /\ \A k \in 1 .. Len(out) : OfContent(out[k]) \/ OfOrder(J, out[k])
    /\ Len(out) = 2 => OfOrder(J, out[1])
Waiting(out) == IF Len(out) = 2 THEN out[2] ELSE <<>>
Sends(out) == out # <<>> /\ OfContent(out[Len(out)])
Pipe(s, wire) == wire \o Waiting(s.out)

(* What it has read and not handled: an order, or the empty message.         *)
GotOK(J, s) ==
    /\ s.got \in {<<>>, <<Nothing>>} \/ OfOrder(J, s.got)
    /\ s.reading = IF s.got = <<>> THEN "own" ELSE "none"
Taken(s) == IF s.got \in {<<>>, <<Nothing>>} THEN {} ELSE {s.got[1]}

Sound(J, s, wire) ==
    /\ s \in Sockets /\ s.file \in J \cup {None} /\ wire \in Seq(Messages)
    /\ OutOK(J, s.out) /\ GotOK(J, s) /\ IsStream(J, Pipe(s, wire))

OutOnly(s, t) ==
    /\ t.state = s.state /\ t.file = s.file /\ t.unpacker = s.unpacker /\ t.reading = s.reading
    /\ t.got = s.got /\ t.buffer = s.buffer

(* A batch is of content or an order.                                        *)
LEMMA NotBoth ==
  ASSUME NEW J, NEW b, OfContent(b), OfOrder(J, b) PROVE FALSE
<1>1. PICK m \in Messages : IsOrder(J, m) /\ b = <<m>>
  BY DEF OfOrder
<1>2. b[1] = m /\ Len(b) = 1
  BY <1>1
<1>3. m.order = Content
  BY <1>2 DEF OfContent
<1> QED BY <1>1, <1>3 DEF IsOrder, Content

(* A batch tells its kind by its first message.                              *)
LEMMA FirstOfBatch ==
  ASSUME NEW J, NEW b, OfContent(b) \/ OfOrder(J, b)
  PROVE  /\ b \in Seq(Messages) /\ b # <<>>
         /\ (b[1].order = Content <=> OfContent(b))
<1>1. CASE OfContent(b)
  <2>1. b \in Seq(Messages) /\ b # <<>>
    BY <1>1 DEF OfContent
  <2>2. Len(b) \in Nat /\ Len(b) # 0
    BY <2>1, EmptySeq
  <2> QED BY <1>1, <2>1, <2>2 DEF OfContent
<1>2. CASE OfOrder(J, b)
  <2>1. PICK m \in Messages : IsOrder(J, m) /\ b = <<m>>
    BY <1>2 DEF OfOrder
  <2>2. b \in Seq(Messages) /\ b # <<>> /\ b[1] = m
    BY <2>1
  <2>3. b[1].order # Content
    BY <2>1, <2>2 DEF IsOrder, Content
  <2> QED BY <1>2, <2>2, <2>3, NotBoth
<1> QED BY <1>1, <1>2

(* Nothing waits where no content is under way and no order is unread.       *)
LEMMA NoneWaits ==
  ASSUME NEW J \in SUBSET Int, NEW s, NEW wire, Sound(J, s, wire),
         ~Sends(s.out), Orders(Pipe(s, wire)) = {}
  PROVE  Len(s.out) <= 1 /\ Pipe(s, wire) = wire
<1>1. s.out \in Seq(Seq(Messages)) /\ Len(s.out) \in Nat /\ Len(s.out) <= 2 /\ wire \in Seq(Messages)
  BY LenProperties DEF Sound, OutOK
<1>2. Len(s.out) # 2
  <2> SUFFICES ASSUME Len(s.out) = 2 PROVE FALSE
    OBVIOUS
  <2> DEFINE w == s.out[2]
  <2>1. OfOrder(J, w)
    <3>1. s.out # <<>>
      OBVIOUS
    <3>2. OfContent(w) \/ OfOrder(J, w)
      BY DEF Sound, OutOK
    <3> QED BY <3>1, <3>2 DEF Sends
  <2>2. PICK m \in Messages : IsOrder(J, m) /\ w = <<m>>
    BY <2>1 DEF OfOrder
  <2>3. Pipe(s, wire) = wire \o <<m>>
    BY <2>2 DEF Pipe, Waiting
  <2>4. <<m>> \in Seq(Messages) /\ Len(<<m>>) = 1 /\ <<m>>[1] = m
    BY <2>2
  <2> DEFINE p == wire \o <<m>>
             b == <<m>>
  <2>5. p \in Seq(Messages) /\ Len(p) = Len(wire) + 1 /\ Len(wire) \in Nat /\ p[Len(wire) + 1] = m
    <3> HIDE DEF b
    <3>1. /\ wire \o b \in Seq(Messages) /\ Len(wire \o b) = Len(wire) + 1 /\ Len(wire) \in Nat
          /\ \A k \in 1 .. Len(wire) + 1 : (wire \o b)[k] = IF k <= Len(wire) THEN wire[k] ELSE b[k - Len(wire)]
      BY <1>1, <2>4, ConcatProperties, LenProperties DEF b
    <3>2. (wire \o b)[Len(wire) + 1] = m
      BY <2>4, <3>1 DEF b
    <3> QED BY <3>1, <3>2 DEF b
  <2> HIDE DEF p, b
  <2>6. p # <<>>
    BY <2>5, EmptySeq
  <2>7. Ordered(p)
    BY <2>2, <2>5, <2>6 DEF Ordered, IsOrder, Content
  <2> QED BY <2>3, <2>7 DEF Orders, p
<1>3. Waiting(s.out) = <<>>
  BY <1>2 DEF Waiting
<1>4. Pipe(s, wire) = wire
  BY <1>1, <1>3, ConcatEmptySeq DEF Pipe
<1>5. Len(s.out) <= 1
  <2> DEFINE n == Len(s.out)
  <2>1. n \in Nat /\ n <= 2 /\ n # 2
    BY <1>1, <1>2
  <2> HIDE DEF n
  <2>2. n <= 1
    BY ONLY <2>1
  <2> QED BY <2>2 DEF n
<1> QED BY <1>4, <1>5

(* Sending a batch puts it at the end of the pipe.                           *)
LEMMA BatchSent ==
  ASSUME NEW J \in SUBSET Int, NEW s, NEW wire, Sound(J, s, wire),
         ~Sends(s.out), Orders(Pipe(s, wire)) = {},
         NEW b, OfContent(b) \/ OfOrder(J, b), NEW r, r = Send(s, wire, b)
  PROVE  /\ OutOnly(s, r.s) /\ r.s \in Sockets
         /\ r.wire \in Seq(Messages) /\ OutOK(J, r.s.out)
         /\ Pipe(r.s, r.wire) = Pipe(s, wire) \o b
         /\ (Sends(r.s.out) <=> OfContent(b))
<1> DEFINE out == Append(s.out, b)
<1>1. /\ s \in Sockets /\ s.out \in Seq(Seq(Messages)) /\ Len(s.out) \in Nat /\ Len(s.out) <= 1
      /\ wire \in Seq(Messages) /\ b \in Seq(Messages) /\ Pipe(s, wire) = wire
      /\ \A k \in 1 .. Len(s.out) : OfContent(s.out[k]) \/ OfOrder(J, s.out[k])
  BY NoneWaits, FirstOfBatch, LenProperties DEF Sound, OutOK
<1>2. /\ out \in Seq(Seq(Messages)) /\ Len(out) = Len(s.out) + 1 /\ out # <<>> /\ out[Len(s.out) + 1] = b
      /\ \A k \in 1 .. Len(s.out) : out[k] = s.out[k]
  BY <1>1, AppendProperties
<1>3. r.s = [s EXCEPT !.out = out] /\ r.wire = IF s.out = <<>> THEN wire \o b ELSE wire
  BY DEF Send
<1> HIDE DEF out
<1>4. r.s \in Sockets /\ r.s.out = out /\ OutOnly(s, r.s)
  BY <1>1, <1>2, <1>3 DEF Sockets, OutOnly
<1>5. Sends(out) <=> OfContent(b)
  BY <1>2 DEF Sends
<1>6. CASE s.out = <<>>
  <2>1. Len(out) = 1 /\ Len(s.out) = 0 /\ out[1] = b
    BY <1>2, <1>6
  <2>2. OutOK(J, out)
    BY <1>2, <2>1 DEF OutOK
  <2>3. wire \o b \in Seq(Messages)
    BY <1>1, ConcatProperties
  <2>4. Waiting(out) = <<>>
    BY <2>1 DEF Waiting
  <2>5. Pipe(r.s, r.wire) = (wire \o b) \o <<>>
    BY <1>3, <1>4, <1>6, <2>4 DEF Pipe
  <2>6. Pipe(r.s, r.wire) = wire \o b
    BY <2>3, <2>5, ConcatEmptySeq
  <2> QED BY <1>1, <1>3, <1>4, <1>5, <1>6, <2>2, <2>3, <2>6
<1>7. CASE s.out # <<>>
  <2>1. Len(s.out) = 1 /\ Len(out) = 2 /\ out[1] = s.out[1] /\ out[2] = b
    <3>1. Len(s.out) # 0
      BY <1>1, <1>7, EmptySeq
    <3> DEFINE n == Len(s.out)
    <3>3. n \in Nat /\ n <= 1 /\ n # 0
      BY <1>1, <3>1
    <3> HIDE DEF n
    <3>4. n = 1
      BY ONLY <3>3
    <3>2. Len(s.out) = 1
      BY <3>4 DEF n
    <3> QED BY <1>2, <3>2
  <2>2. OfOrder(J, s.out[1])
    BY <1>1, <1>7, <2>1 DEF Sends
  <2>3. OutOK(J, out)
    BY <1>2, <2>1, <2>2 DEF OutOK
  <2>4. Pipe(r.s, r.wire) = wire \o b
    BY <1>3, <1>4, <1>7, <2>1 DEF Pipe, Waiting
  <2> QED BY <1>1, <1>3, <1>4, <1>5, <1>7, <2>3, <2>4
<1> QED BY <1>6, <1>7

(* Content is sent: it joins the pipe.                                       *)
LEMMA ContentSent ==
  ASSUME NEW J \in SUBSET Int, NEW s, NEW wire, Sound(J, s, wire),
         ~Sends(s.out), Orders(Pipe(s, wire)) = {},
         NEW b, OfContent(b), NEW r, r = Send(s, wire, b)
  PROVE  /\ Sound(J, r.s, r.wire) /\ OutOnly(s, r.s) /\ Sends(r.s.out)
         /\ Orders(Pipe(r.s, r.wire)) = {}
         /\ Amount(Pipe(r.s, r.wire)) = Amount(Pipe(s, wire)) + Len(b)
<1>1. /\ OutOnly(s, r.s) /\ r.s \in Sockets /\ r.wire \in Seq(Messages) /\ OutOK(J, r.s.out)
      /\ Pipe(r.s, r.wire) = Pipe(s, wire) \o b /\ (Sends(r.s.out) <=> OfContent(b))
  <2>1. OfContent(b) \/ OfOrder(J, b)
    OBVIOUS
  <2> QED BY <2>1, BatchSent
<1>2. IsStream(J, Pipe(s, wire)) /\ s \in Sockets
  BY DEF Sound
<1>3. /\ IsStream(J, Pipe(s, wire) \o b) /\ Orders(Pipe(s, wire) \o b) = {}
      /\ Amount(Pipe(s, wire) \o b) = Amount(Pipe(s, wire)) + Len(b)
  BY <1>2, StreamOfContent
<1>4. r.s.file = s.file /\ r.s.got = s.got /\ r.s.reading = s.reading
  BY <1>1, <1>2 DEF OutOnly
<1>5. GotOK(J, r.s) /\ r.s.file \in J \cup {None}
  BY <1>4 DEF Sound, GotOK
<1> QED BY <1>1, <1>3, <1>5 DEF Sound

(* An order is sent: it is the last in the pipe.                             *)
LEMMA OrderSent ==
  ASSUME NEW J \in SUBSET Int, NEW s, NEW wire, Sound(J, s, wire),
         ~Sends(s.out), Orders(Pipe(s, wire)) = {},
         NEW m \in Messages, IsOrder(J, m),
         NEW b, b = <<m>>, NEW r, r = Send(s, wire, b)
  PROVE  /\ Sound(J, r.s, r.wire) /\ OutOnly(s, r.s) /\ ~Sends(r.s.out)
         /\ Orders(Pipe(r.s, r.wire)) = {m}
         /\ Amount(Pipe(r.s, r.wire)) = Amount(Pipe(s, wire))
<1>0. OfOrder(J, b)
  BY DEF OfOrder
<1>1. /\ OutOnly(s, r.s) /\ r.s \in Sockets /\ r.wire \in Seq(Messages) /\ OutOK(J, r.s.out)
      /\ Pipe(r.s, r.wire) = Pipe(s, wire) \o b /\ (Sends(r.s.out) <=> OfContent(b))
  <2>1. OfContent(b) \/ OfOrder(J, b)
    BY <1>0
  <2>2. Sound(J, s, wire) /\ ~Sends(s.out) /\ Orders(Pipe(s, wire)) = {} /\ r = Send(s, wire, b)
    OBVIOUS
  <2> QED BY ONLY J \in SUBSET Int, <2>1, <2>2, BatchSent
<1>2. IsStream(J, Pipe(s, wire)) /\ s \in Sockets
  BY DEF Sound
<1>3. /\ IsStream(J, Pipe(s, wire) \o b) /\ Orders(Pipe(s, wire) \o b) = {m}
      /\ Amount(Pipe(s, wire) \o b) = Amount(Pipe(s, wire))
  BY <1>2, StreamOfOrder
<1>4. r.s.file = s.file /\ r.s.got = s.got /\ r.s.reading = s.reading
  BY <1>1, <1>2 DEF OutOnly
<1>5. GotOK(J, r.s) /\ r.s.file \in J \cup {None}
  BY <1>4 DEF Sound, GotOK
<1> QED BY <1>0, <1>1, <1>3, <1>5, NotBoth DEF Sound

(* The completion of a write moves the next batch from the socket to the     *)
(* wire, which changes nothing of the pipe.                                  *)
LEMMA Flushed ==
  ASSUME NEW J \in SUBSET Int, NEW s, NEW wire, Sound(J, s, wire), s.out # <<>>,
         NEW c, c = Completed(s, wire)
  PROVE  /\ Sound(J, c.s, c.wire) /\ OutOnly(s, c.s) /\ Pipe(c.s, c.wire) = Pipe(s, wire)
         /\ Head(s.out)[1].order = Content => Sends(s.out) /\ ~Sends(c.s.out)
         /\ Head(s.out)[1].order # Content => (Sends(c.s.out) <=> Sends(s.out))
<1> DEFINE n == Len(s.out)
           out == Tail(s.out)
<1>1. /\ s \in Sockets /\ s.out \in Seq(Seq(Messages)) /\ n \in Nat /\ n <= 2 /\ wire \in Seq(Messages)
      /\ \A k \in 1 .. n : OfContent(s.out[k]) \/ OfOrder(J, s.out[k])
      /\ n = 2 => OfOrder(J, s.out[1])
      /\ IsStream(J, Pipe(s, wire))
  BY LenProperties DEF Sound, OutOK
<1>2. /\ out \in Seq(Seq(Messages)) /\ Len(out) = n - 1 /\ Head(s.out) = s.out[1]
      /\ \A k \in 1 .. n - 1 : out[k] = s.out[k + 1]
  BY <1>1, HeadTailProperties
<1>3. c.s = [s EXCEPT !.out = out] /\ c.wire = IF out = <<>> THEN wire ELSE wire \o Head(out)
  BY DEF Completed
<1>4. n # 0
  BY <1>1, EmptySeq
<1> HIDE DEF out, n
<1>5. c.s \in Sockets /\ c.s.out = out /\ OutOnly(s, c.s)
  BY <1>1, <1>2, <1>3 DEF Sockets, OutOnly
<1>6. GotOK(J, c.s) /\ c.s.file \in J \cup {None}
  BY <1>5 DEF Sound, GotOK, OutOnly
<1>7. n = 1 \/ n = 2
  BY ONLY <1>1, <1>4
<1>8. CASE n = 1
  <2>1. out = <<>> /\ c.wire = wire /\ Waiting(out) = <<>> /\ ~Sends(out)
    <3>1. Len(out) = 0
      BY <1>2, <1>8
    <3>2. out = <<>>
      BY <1>2, <3>1, EmptySeq
    <3> QED BY <1>3, <3>1, <3>2 DEF Waiting, Sends
  <2>2. Waiting(s.out) = <<>>
    BY <1>8 DEF Waiting, n
  <2>3. Pipe(c.s, c.wire) = Pipe(s, wire)
    BY <1>5, <2>1, <2>2 DEF Pipe
  <2>4. OutOK(J, c.s.out)
    BY <1>2, <1>5, <1>8, <2>1 DEF OutOK
  <2>5. Sends(s.out) <=> Head(s.out)[1].order = Content
    <3>1. OfContent(s.out[1]) \/ OfOrder(J, s.out[1])
      BY <1>1, <1>8
    <3>2. Sends(s.out) <=> OfContent(s.out[1])
      BY <1>8 DEF Sends, n
    <3> QED BY <1>2, <3>1, <3>2, FirstOfBatch
  <2> QED BY <1>1, <1>5, <1>6, <2>1, <2>3, <2>4, <2>5 DEF Sound
<1>9. CASE n = 2
  <2>1. Len(out) = 1 /\ out # <<>> /\ Head(out) = s.out[2] /\ out[1] = s.out[2]
    <3>1. Len(out) = 1
      BY <1>2, <1>9
    <3>2. out # <<>>
      BY <3>1, EmptySeq
    <3> QED BY <1>2, <1>9, <3>1, <3>2, HeadTailProperties
  <2>2. c.wire = wire \o s.out[2] /\ Waiting(out) = <<>> /\ Waiting(s.out) = s.out[2]
    BY <1>3, <1>9, <2>1 DEF Waiting, n
  <2>3. OfContent(s.out[2]) \/ OfOrder(J, s.out[2])
    BY <1>1, <1>9
  <2>4. s.out[2] \in Seq(Messages)
    BY <2>3, FirstOfBatch
  <2>5. c.wire \in Seq(Messages)
    BY <1>1, <2>2, <2>4, ConcatProperties
  <2>6. Pipe(c.s, c.wire) = Pipe(s, wire)
    <3>1. Pipe(c.s, c.wire) = c.wire
      BY <1>5, <2>2, <2>5, ConcatEmptySeq DEF Pipe
    <3> QED BY <2>2, <3>1 DEF Pipe
  <2>7. OutOK(J, c.s.out)
    <3>1. \A k \in 1 .. Len(out) : OfContent(out[k]) \/ OfOrder(J, out[k])
      BY <2>1, <2>3
    <3>2. Len(out) <= 2 /\ (Len(out) = 2 => OfOrder(J, out[1]))
      BY ONLY <2>1
    <3> QED BY ONLY <1>2, <1>5, <3>1, <3>2 DEF OutOK
  <2>8. Head(s.out)[1].order # Content
    <3>1. OfOrder(J, s.out[1])
      BY <1>1, <1>9
    <3>2. ~OfContent(s.out[1])
      BY <3>1, NotBoth
    <3> QED BY <1>2, <3>1, <3>2, FirstOfBatch
  <2>9. Sends(c.s.out) <=> Sends(s.out)
    <3>1. Sends(out) <=> OfContent(s.out[2])
      BY <2>1 DEF Sends
    <3>2. Sends(s.out) <=> OfContent(s.out[2])
      BY <1>9 DEF Sends, n
    <3> QED BY <1>5, <3>1, <3>2
  <2> QED BY <1>1, <1>5, <1>6, <2>5, <2>6, <2>7, <2>8, <2>9 DEF Sound
<1> QED BY <1>7, <1>8, <1>9

(* A read takes the first messages of the pipe.                              *)
Split(wire, n, bytes, rest) ==
    n \in 1 .. Len(wire) /\ bytes = SubSeq(wire, 1, n) /\ rest = SubSeq(wire, n + 1, Len(wire))
Begins(bytes, n, p) == bytes \in Seq(Messages) /\ Len(bytes) = n /\ \A k \in 1 .. n : bytes[k] = p[k]

(* What is read is at the front of the pipe.                                 *)
LEMMA FirstRead ==
  ASSUME NEW J \in SUBSET Int, NEW s, NEW wire, Sound(J, s, wire),
         NEW n, NEW rest, NEW bytes, Split(wire, n, bytes, rest),
         NEW p, p = Pipe(s, wire), NEW q, q = Pipe(s, rest)
  PROVE  rest \in Seq(Messages) /\ Begins(bytes, n, p) /\ Cut(p, n, q)
<1>0. /\ n \in Nat /\ 1 <= n /\ n <= Len(wire)
      /\ rest = SubSeq(wire, n + 1, Len(wire)) /\ bytes = SubSeq(wire, 1, n)
  <2>1. Len(wire) \in Nat
    BY LenProperties DEF Sound
  <2> QED BY <2>1 DEF Split
<1> DEFINE w == Waiting(s.out)
           l == Len(wire)
<1>1. wire \in Seq(Messages) /\ OutOK(J, s.out) /\ p = wire \o w /\ q = rest \o w
  BY DEF Sound, Pipe
<1>2. w \in Seq(Messages)
  <2>1. CASE Len(s.out) = 2
    <3>1. OfContent(s.out[2]) \/ OfOrder(J, s.out[2])
      BY <1>1, <2>1 DEF OutOK
    <3> QED BY <2>1, <3>1, FirstOfBatch DEF Waiting
  <2>2. CASE Len(s.out) # 2
    BY <2>2, EmptySeq DEF Waiting
  <2> QED BY <2>1, <2>2
<1> HIDE DEF w
<1>3. /\ l \in Nat /\ Len(w) \in Nat /\ n <= l
      /\ p \in Seq(Messages) /\ Len(p) = l + Len(w)
      /\ \A k \in 1 .. l + Len(w) : p[k] = IF k <= l THEN wire[k] ELSE w[k - l]
  BY <1>0, <1>1, <1>2, ConcatProperties, LenProperties
<1>4. /\ rest \in Seq(Messages) /\ Len(rest) = l - n /\ \A k \in 1 .. l - n : rest[k] = wire[n + k]
      /\ bytes \in Seq(Messages) /\ Len(bytes) = n /\ \A k \in 1 .. n : bytes[k] = wire[k]
  BY <1>0, <1>1, <1>3
<1> HIDE DEF l
<1>5. /\ q \in Seq(Messages) /\ Len(q) = (l - n) + Len(w)
      /\ \A k \in 1 .. (l - n) + Len(w) : q[k] = IF k <= l - n THEN rest[k] ELSE w[k - (l - n)]
  <2>1. /\ q \in Seq(Messages) /\ Len(q) = Len(rest) + Len(w)
        /\ \A k \in 1 .. Len(rest) + Len(w) : q[k] = IF k <= Len(rest) THEN rest[k] ELSE w[k - Len(rest)]
    BY <1>1, <1>2, <1>4, ConcatProperties
  <2> QED BY ONLY <1>4, <2>1
<1>6. \A k \in 1 .. n : bytes[k] = p[k]
  <2> SUFFICES ASSUME NEW k \in 1 .. n PROVE bytes[k] = p[k]
    OBVIOUS
  <2>1. k \in 1 .. l + Len(w) /\ k <= l
    BY <1>0, <1>3
  <2>2. p[k] = wire[k]
    BY <1>3, <2>1
  <2> QED BY <1>4, <2>2
<1>7. Len(q) = Len(p) - n
  BY <1>0, <1>3, <1>5
<1>8. ASSUME NEW k \in 1 .. Len(p) - n PROVE q[k] = p[k + n]
  <2>1. k \in 1 .. (l - n) + Len(w) /\ k + n \in 1 .. l + Len(w)
    BY <1>0, <1>3
  <2>2. CASE k <= l - n
    <3>1. k \in 1 .. l - n /\ k + n <= l /\ n + k = k + n
      BY <1>0, <1>3, <2>1, <2>2
    <3>2. q[k] = rest[k]
      BY <1>5, <2>1, <2>2
    <3>3. rest[k] = wire[n + k]
      BY <1>4, <3>1
    <3>4. p[k + n] = wire[k + n]
      BY <1>3, <2>1, <3>1
    <3> QED BY <3>1, <3>2, <3>3, <3>4
  <2>3. CASE ~(k <= l - n)
    <3>1. ~(k + n <= l) /\ k + n - l = k - (l - n)
      BY <1>0, <1>3, <2>1, <2>3
    <3>2. p[k + n] = w[k - (l - n)]
      BY <1>0, <1>3, <2>1, <3>1
    <3>3. q[k] = w[k - (l - n)]
      BY <1>5, <2>1, <2>3
    <3> QED BY <3>2, <3>3
  <2> QED BY <2>2, <2>3
<1>9. n <= Len(p)
  BY <1>0, <1>3
<1> QED BY <1>0, <1>3, <1>4, <1>5, <1>6, <1>7, <1>8, <1>9 DEF Cut, Begins

(* Content is read from the pipe.                                            *)
LEMMA ContentRead ==
  ASSUME NEW J \in SUBSET Int, NEW s, NEW wire, Sound(J, s, wire),
         NEW n, NEW rest, NEW bytes, Split(wire, n, bytes, rest), n <= Amount(Pipe(s, wire))
  PROVE  /\ Sound(J, s, rest) /\ Orders(Pipe(s, rest)) = Orders(Pipe(s, wire))
         /\ Amount(Pipe(s, rest)) = Amount(Pipe(s, wire)) - n
         /\ Len(bytes) = n /\ \A k \in DOMAIN bytes : bytes[k].order = Content
<1>0. PICK p, q : p = Pipe(s, wire) /\ q = Pipe(s, rest)
  OBVIOUS
<1>1. rest \in Seq(Messages) /\ Begins(bytes, n, p) /\ Cut(p, n, q)
  BY <1>0, FirstRead
<1>2. IsStream(J, p) /\ n <= Amount(p)
  BY <1>0 DEF Sound
<1>3. /\ IsStream(J, q) /\ Orders(q) = Orders(p) /\ Amount(q) = Amount(p) - n
      /\ \A k \in 1 .. n : p[k].order = Content
  BY <1>1, <1>2, StreamRead
<1>4. Sound(J, s, rest)
  BY <1>0, <1>1, <1>3 DEF Sound
<1>5. Len(bytes) = n /\ \A k \in DOMAIN bytes : bytes[k].order = Content
  BY <1>1, <1>3, LenProperties DEF Begins
<1> QED BY <1>0, <1>3, <1>4, <1>5

(* The order is read, and the pipe is empty.                                 *)
LEMMA OrderRead ==
  ASSUME NEW J \in SUBSET Int, NEW s, NEW wire, Sound(J, s, wire),
         NEW n, NEW rest, NEW bytes, Split(wire, n, bytes, rest), Amount(Pipe(s, wire)) = 0
  PROVE  /\ Sound(J, s, rest) /\ Orders(Pipe(s, rest)) = {} /\ Amount(Pipe(s, rest)) = 0
         /\ \E m \in Messages : IsOrder(J, m) /\ Orders(Pipe(s, wire)) = {m} /\ bytes = <<m>>
<1>0. PICK p, q : p = Pipe(s, wire) /\ q = Pipe(s, rest)
  OBVIOUS
<1>1. rest \in Seq(Messages) /\ Begins(bytes, n, p) /\ Cut(p, n, q)
  BY <1>0, FirstRead
<1>2. IsStream(J, p) /\ Amount(p) = 0
  BY <1>0 DEF Sound
<1>3. Len(p) \in Nat /\ n \in Nat /\ 1 <= n /\ n <= Len(p)
  <2>1. Len(wire) \in Nat /\ Len(p) \in Nat
    BY <1>1, LenProperties DEF Sound, Cut
  <2> QED BY <1>1, <2>1 DEF Cut, Split
<1>4. Len(p) = 1 /\ Orders(p) = {p[1]} /\ p[1] \in Messages /\ IsOrder(J, p[1])
  <2>1. Len(p) >= 1
    BY <1>3
  <2> QED BY <1>2, <2>1, StreamTaken
<1>5. n = 1
  BY <1>3, <1>4
<1>6. q = <<>>
  BY <1>1, <1>4, <1>5, EmptySeq DEF Cut
<1>7. IsStream(J, <<>>) /\ Orders(<<>>) = {} /\ Amount(<<>>) = 0
  BY EmptySeq DEF IsStream, Orders, Amount, Ordered
<1>8. Sound(J, s, rest)
  BY <1>0, <1>1, <1>6, <1>7 DEF Sound
<1>9. bytes = <<p[1]>>
  <2> DEFINE b == <<p[1]>>
  <2>1. b \in Seq(Messages) /\ Len(b) = 1 /\ b[1] = p[1]
    BY <1>4
  <2>2. bytes \in Seq(Messages) /\ Len(bytes) = 1 /\ bytes[1] = p[1]
    BY <1>1, <1>5 DEF Begins
  <2> HIDE DEF b
  <2>3. \A k \in 1 .. Len(bytes) : bytes[k] = b[k]
    BY <2>1, <2>2
  <2>4. bytes = b
    BY <2>1, <2>2, <2>3, SeqEqual
  <2> QED BY <2>4 DEF b
<1> QED BY <1>0, <1>4, <1>6, <1>7, <1>8, <1>9

-----------------------------------------------------------------------------
(* The two ends of a link agree: au, ou, ad and od are how much content and  *)
(* which order is under way up and down.                                     *)
OneOrder(c, s, ou, od) ==
    /\ ou = {} \/ (Taken(s) = {} /\ od = {} /\ Taken(c) = {})
    /\ Taken(s) = {} \/ (od = {} /\ Taken(c) = {})
    /\ od = {} \/ Taken(c) = {}

Asks(c, s, ou, od) ==
    /\ c.state = "IDLE" => c.file = None /\ ou = {} /\ Taken(s) = {} /\ od = {} /\ Taken(c) = {}
    /\ c.state = "PREPARE" =>
           \A m \in ou \cup Taken(s) \cup od \cup Taken(c) : m.order # 1 /\ (m.order = 10 <=> c.file = None)
    /\ c.state = "BUSY" => od = {} /\ Taken(c) = {} /\ (c.unpacker = Default => ou = {} /\ Taken(s) = {})
    /\ \A m \in ou \cup Taken(s) : m.order \in {1, 11} => m.len > 0
    /\ \A m \in od \cup Taken(c) : m.order = 11 /\ m.len >= 0 => m.pos > 0

Shape(c, s) ==
    /\ c.unpacker # Default => c.unpacker.job # None /\ c.state = "BUSY" /\ c.buffer.left = 0 /\ ~Sends(c.out)
    /\ Sends(c.out) => c.state = "BUSY"
    /\ c.state # "BUSY" => c.buffer.left = 0
    /\ c.got = <<Nothing>> => c.unpacker # Default
    /\ s.state = "PREPARE" => ~Sends(s.out)
    /\ c.buffer.left >= 0 /\ s.buffer.left >= 0 /\ c.unpacker.left >= 0 /\ s.unpacker.left >= 0

(* What the client reads as content is what the server sends as such.        *)
Gets(c, s, ou, ad, od) ==
    IF c.unpacker = Default THEN s.buffer.left = 0 /\ ad = 0
    ELSE /\ ad + s.buffer.left <= c.unpacker.left
         /\ \A m \in ou \cup Taken(s) :
                m.order = 1 /\ m.len <= c.unpacker.left /\ od = {} /\ ad = 0 /\ s.buffer.left = 0

Granted(m) == m.order = 11 /\ m.len >= 0
Puts(c, s, au, od) ==
    IF s.unpacker = Default THEN au = 0 /\ c.buffer.left = 0 /\ \A m \in od \cup Taken(c) : ~Granted(m)
    ELSE /\ Taken(s) = {} /\ s.unpacker.job # None
         /\ (\A m \in od \cup Taken(c) : ~Granted(m)) => s.unpacker.left = au + c.buffer.left
         /\ \A m \in od \cup Taken(c) :
                Granted(m) => s.unpacker.left = m.pos /\ au = 0 /\ c.buffer.left = 0

Agreed(c, s, au, ou, ad, od) ==
    /\ OneOrder(c, s, ou, od) /\ Asks(c, s, ou, od) /\ Shape(c, s)
    /\ Gets(c, s, ou, ad, od) /\ Puts(c, s, au, od)

Linked(J, c, s, u, d) ==
    /\ Sound(J, c, u) /\ Sound(J, s, d)
    /\ Agreed(c, s, Amount(Pipe(c, u)), Orders(Pipe(c, u)), Amount(Pipe(s, d)), Orders(Pipe(s, d)))

(* The content of a pipe has a size.                                         *)
LEMMA AmountNat ==
  ASSUME NEW J, NEW p, IsStream(J, p) PROVE Amount(p) \in Nat
<1>1. p \in Seq(Messages) /\ Len(p) \in Nat
  BY LenProperties DEF IsStream
<1>2. Ordered(p) => Len(p) # 0
  BY <1>1, EmptySeq DEF Ordered
<1> QED BY <1>1, <1>2 DEF Amount

(* What is behind the content is an order.                                   *)
LEMMA OrderTyped ==
  ASSUME NEW J, NEW p, IsStream(J, p), NEW m \in Orders(p)
  PROVE  m \in Messages /\ IsOrder(J, m)
<1>1. p \in Seq(Messages) /\ Len(p) \in Nat /\ Ordered(p) /\ m = p[Len(p)]
  BY LenProperties DEF IsStream, Orders
<1>2. Len(p) # 0
  BY <1>1, EmptySeq DEF Ordered
<1> QED BY <1>1, <1>2 DEF IsStream, Ordered

(* The message that is handled.                                              *)
LEMMA Handled ==
  ASSUME NEW J, NEW s, GotOK(J, s), s.got # <<>>, NEW m, m = Head(s.got)
  PROVE  /\ s.reading = "none" /\ Len(s.got) = 1 /\ Tail(s.got) = <<>>
         /\ \/ m = Nothing /\ s.got = <<Nothing>> /\ Taken(s) = {}
            \/ m \in Messages /\ IsOrder(J, m) /\ Taken(s) = {m} /\ s.got # <<Nothing>>
<1>1. CASE s.got = <<Nothing>>
  BY <1>1 DEF GotOK, Taken
<1>2. CASE s.got # <<Nothing>>
  <2>1. PICK x \in Messages : IsOrder(J, x) /\ s.got = <<x>>
    BY <1>2 DEF GotOK, OfOrder
  <2>2. m = x /\ s.got[1] = x /\ Len(s.got) = 1 /\ Tail(s.got) = <<>>
    BY <2>1
  <2> QED BY <1>2, <2>1, <2>2 DEF GotOK, Taken
<1> QED BY <1>1, <1>2

(* The wire is a part of the pipe.                                           *)
LEMMA PipeLen ==
  ASSUME NEW J, NEW s, NEW wire, Sound(J, s, wire) PROVE Len(wire) <= Len(Pipe(s, wire))
<1> DEFINE w == Waiting(s.out)
<1>1. wire \in Seq(Messages) /\ OutOK(J, s.out)
  BY DEF Sound
<1>2. w \in Seq(Messages)
  <2>1. CASE Len(s.out) = 2
    <3>1. OfContent(s.out[2]) \/ OfOrder(J, s.out[2])
      BY <1>1, <2>1 DEF OutOK
    <3> QED BY <2>1, <3>1, FirstOfBatch DEF Waiting
  <2>2. CASE Len(s.out) # 2
    BY <2>2, EmptySeq DEF Waiting
  <2> QED BY <2>1, <2>2
<1> HIDE DEF w
<1>3. Len(wire \o w) = Len(wire) + Len(w) /\ Len(wire) \in Nat /\ Len(w) \in Nat
  BY <1>1, <1>2, ConcatProperties, LenProperties
<1> QED BY <1>3 DEF Pipe, w

(* A socket may change all but what it sends.                                *)
LEMMA Resound ==
  ASSUME NEW J, NEW s, NEW wire, Sound(J, s, wire), NEW t \in Sockets, t.file \in J \cup {None},
         t.out = s.out, GotOK(J, t)
  PROVE  Sound(J, t, wire) /\ Pipe(t, wire) = Pipe(s, wire)
BY DEF Sound, Pipe

PopOnly(s, t) ==
    /\ t.state = s.state /\ t.file = s.file /\ t.unpacker = s.unpacker /\ t.buffer = s.buffer
    /\ t.out = s.out /\ t.got = <<>> /\ Taken(t) = {}

(* The message is handled and a read begins.                                 *)
LEMMA PopSound ==
  ASSUME NEW J, NEW s, NEW wire, Sound(J, s, wire), s.got # <<>>, NEW t, t = Popped(s)
  PROVE  Sound(J, t, wire) /\ PopOnly(s, t) /\ Pipe(t, wire) = Pipe(s, wire)
<1>1. s \in Sockets /\ GotOK(J, s) /\ s.file \in J \cup {None}
  BY DEF Sound
<1>2. Len(s.got) = 1 /\ Tail(s.got) = <<>>
  BY <1>1, Handled
<1>3. t = [s EXCEPT !.got = <<>>, !.reading = "own"]
  BY <1>2 DEF Popped
<1>4. t \in Sockets
  <2>1. <<>> \in Seq(Messages)
    BY EmptySeq
  <2> QED BY <1>1, <1>3, <2>1 DEF Sockets
<1>5. PopOnly(s, t) /\ t.reading = "own"
  BY <1>1, <1>3 DEF Sockets, PopOnly, Taken
<1>6. GotOK(J, t)
  BY <1>5 DEF GotOK, PopOnly
<1> QED BY <1>1, <1>4, <1>5, <1>6, Resound DEF PopOnly

(* A socket that is reset, with its unpacker or not.                         *)
EndOnly(s, t, u) ==
    /\ t.state = "IDLE" /\ t.file = None /\ t.unpacker = u /\ t.buffer = s.buffer
    /\ t.out = s.out /\ t.got = s.got /\ t.reading = s.reading

Idled(s, t) == t = [s EXCEPT !.state = "IDLE", !.file = None]

(* A socket goes idle and keeps its unpacker ...                             *)
LEMMA IdleSound ==
  ASSUME NEW J, NEW s, NEW wire, Sound(J, s, wire), NEW t, Idled(s, t)
  PROVE  /\ Sound(J, t, wire) /\ Pipe(t, wire) = Pipe(s, wire) /\ Taken(t) = Taken(s)
         /\ EndOnly(s, t, s.unpacker)
<1>1. s \in Sockets /\ GotOK(J, s)
  BY DEF Sound
<1>2. None \in Int /\ "IDLE" \in {"IDLE", "PREPARE", "BUSY"}
  BY DEF None
<1>4. t \in Sockets
  BY <1>1, <1>2 DEF Idled, Sockets
<1>5. EndOnly(s, t, s.unpacker)
  BY <1>1 DEF Idled, Sockets, EndOnly
<1>6. GotOK(J, t) /\ t.out = s.out /\ Taken(t) = Taken(s) /\ t.file \in J \cup {None}
  BY <1>1, <1>5 DEF EndOnly, GotOK, Taken
<1> QED BY <1>4, <1>5, <1>6, Resound

Reset(s, t) == t = SetUnpacker([s EXCEPT !.state = "IDLE", !.file = None], Default)

(* ... or gets the default one back; no read is pending that it would spoil. *)
LEMMA ResetSound ==
  ASSUME NEW J, NEW s, NEW wire, Sound(J, s, wire), s.got # <<>>, NEW t, Reset(s, t)
  PROVE  /\ Sound(J, t, wire) /\ Pipe(t, wire) = Pipe(s, wire) /\ Taken(t) = Taken(s)
         /\ EndOnly(s, t, Default)
<1>1. s \in Sockets /\ GotOK(J, s) /\ s.reading = "none"
  BY DEF Sound, GotOK
<1>2. Default \in [job : Int, pos : Int, left : Int]
  BY DEF Default, Rest, None
<1>3. None \in Int /\ "IDLE" \in {"IDLE", "PREPARE", "BUSY"}
  BY DEF None
<1>4. t = [s EXCEPT !.state = "IDLE", !.file = None, !.unpacker = Default]
  BY <1>1 DEF Reset, SetUnpacker, Sockets
<1>5. t \in Sockets
  BY <1>1, <1>2, <1>3, <1>4 DEF Sockets
<1>6. EndOnly(s, t, Default)
  BY <1>1, <1>4 DEF Sockets, EndOnly
<1>7. GotOK(J, t) /\ t.out = s.out /\ Taken(t) = Taken(s) /\ t.file \in J \cup {None}
  BY <1>1, <1>6 DEF EndOnly, GotOK, Taken
<1>8. Sound(J, s, wire)
  OBVIOUS
<1>9. Sound(J, t, wire) /\ Pipe(t, wire) = Pipe(s, wire)
  BY ONLY <1>5, <1>7, <1>8, Resound
<1> QED BY <1>6, <1>7, <1>9

(* A chunk of what is left of a share.                                       *)
ChunkOnly(s, t) ==
    /\ t.state = s.state /\ t.file = s.file /\ t.unpacker = s.unpacker /\ t.reading = s.reading
    /\ t.got = s.got /\ Taken(t) = Taken(s)

(* The chunk moves from the file_buffer into the pipe.                       *)
LEMMA ChunkSent ==
  ASSUME FileTransferAssumption,
         NEW J \in SUBSET Int, NEW s, NEW wire, Sound(J, s, wire),
         ~Sends(s.out), Orders(Pipe(s, wire)) = {}, s.buffer.left > 0,
         NEW r, r = SendChunk(s, wire)
  PROVE  /\ Sound(J, r.s, r.wire) /\ ChunkOnly(s, r.s) /\ Sends(r.s.out)
         /\ Orders(Pipe(r.s, r.wire)) = {} /\ r.s.buffer.left >= 0
         /\ Amount(Pipe(r.s, r.wire)) + r.s.buffer.left = Amount(Pipe(s, wire)) + s.buffer.left
<1> DEFINE n == ChunkSize(s)
           b == [k \in 1 .. n |-> Msg(Content, s.buffer.job, s.buffer.pos + k - 1, 1)]
           v == Rest(s.buffer.job, s.buffer.pos + n, s.buffer.left - n)
           t == [s EXCEPT !.buffer = v]
<1>1. s \in Sockets /\ s.buffer \in [job : Int, pos : Int, left : Int] /\ MaxTransfer \in Nat \ {0}
  BY DEF Sound, Sockets, FileTransferAssumption
<1>2. n \in Nat /\ n > 0 /\ n <= s.buffer.left
  BY <1>1 DEF ChunkSize, Least
<1>3. r = Send(t, wire, b)
  BY DEF SendChunk
<1> HIDE DEF n
<1>4. v \in [job : Int, pos : Int, left : Int] /\ v.left = s.buffer.left - n
  BY <1>1, <1>2 DEF Rest
<1>5. \A k \in 1 .. n : Msg(Content, s.buffer.job, s.buffer.pos + k - 1, 1) \in Messages
                        /\ Msg(Content, s.buffer.job, s.buffer.pos + k - 1, 1).order = Content
  BY <1>1, <1>2 DEF Msg, Messages, Content
<1>6. b \in Seq(Messages) /\ Len(b) = n /\ \A k \in 1 .. n : b[k].order = Content
  BY <1>2, <1>5, IsASeq
<1> HIDE DEF b
<1>7. OfContent(b)
  <2>1. b # <<>>
    BY <1>2, <1>6, EmptySeq
  <2> QED BY <1>6, <2>1 DEF OfContent
<1> HIDE DEF v
<1>8. t \in Sockets /\ t.buffer = v /\ t.out = s.out
      /\ t.state = s.state /\ t.file = s.file /\ t.unpacker = s.unpacker /\ t.reading = s.reading /\ t.got = s.got
  BY <1>1, <1>4 DEF Sockets
<1> HIDE DEF t
<1>9. Sound(J, t, wire) /\ Pipe(t, wire) = Pipe(s, wire)
  <2>1. GotOK(J, t) /\ t.file \in J \cup {None}
    BY <1>8 DEF Sound, GotOK
  <2> QED BY <1>8, <2>1, Resound
<1>10. /\ Sound(J, r.s, r.wire) /\ OutOnly(t, r.s) /\ Sends(r.s.out)
       /\ Orders(Pipe(r.s, r.wire)) = {}
       /\ Amount(Pipe(r.s, r.wire)) = Amount(Pipe(t, wire)) + Len(b)
  <2>1. ~Sends(t.out) /\ Orders(Pipe(t, wire)) = {}
    BY <1>8, <1>9
  <2>2. Sound(J, t, wire) /\ J \in SUBSET Int
    BY <1>9
  <2> QED BY ONLY <1>3, <1>7, <2>1, <2>2, ContentSent
<1>11. r.s.buffer = v
  BY <1>8, <1>10 DEF OutOnly
<1>12. ChunkOnly(s, r.s)
  BY <1>8, <1>10 DEF OutOnly, ChunkOnly, Taken
<1>13. Amount(Pipe(s, wire)) \in Nat
  BY AmountNat DEF Sound
<1>14. Amount(Pipe(r.s, r.wire)) = Amount(Pipe(s, wire)) + n
  BY <1>6, <1>9, <1>10
<1>15. r.s.buffer.left = s.buffer.left - n /\ s.buffer.left \in Int
  BY <1>1, <1>4, <1>11
<1>16. r.s.buffer.left >= 0
  BY ONLY <1>2, <1>15
<1>17. Amount(Pipe(r.s, r.wire)) + r.s.buffer.left = Amount(Pipe(s, wire)) + s.buffer.left
  BY ONLY <1>2, <1>13, <1>14, <1>15
<1> QED BY ONLY <1>10, <1>12, <1>16, <1>17

-----------------------------------------------------------------------------
(* What each step makes of an agreement: the client's.                       *)
(* What is under way and what is left, before and after.                     *)
Balance(a, b, c, d) == a \in Int /\ b \in Nat /\ c \in Int /\ d \in Int /\ a + b = c + d

(* The client asks for a file, or to put one: both ends still agree.         *)
LEMMA AgreeAsk ==
  ASSUME NEW c, NEW s, NEW au, NEW ou, NEW ad, NEW od, Agreed(c, s, au, ou, ad, od),
         c.state # "BUSY", ou = {}, od = {}, Taken(s) = {}, \A m \in Taken(c) : ~Granted(m),
         NEW z, z.state = "PREPARE", z.unpacker = c.unpacker, z.buffer = c.buffer, z.got = <<>>,
         ~Sends(z.out),
         NEW m, m.order \in {0, 10, 11}, m.order = 10 <=> z.file = None, m.order = 11 => m.len > 0
  PROVE  Agreed(z, s, au, {m}, ad, {})
<1>1. Taken(z) = {} /\ <<>> # <<Nothing>>
  BY DEF Taken
<1>2. OneOrder(z, s, {m}, {}) /\ Asks(z, s, {m}, {})
  BY <1>1 DEF OneOrder, Asks
<1>3. Shape(z, s)
  BY <1>1 DEF Agreed, Shape
<1>4. c.unpacker = Default
  BY DEF Agreed, Shape
<1>5. Gets(z, s, {m}, ad, {})
  BY <1>4 DEF Agreed, Gets
<1>6. Puts(z, s, au, {})
  BY <1>1 DEF Agreed, Puts
<1> QED BY <1>2, <1>3, <1>5, <1>6 DEF Agreed

(* It asks for its share, having replaced its unpacker.                      *)
LEMMA AgreeShare ==
  ASSUME NEW c, NEW s, NEW au, NEW ou, NEW ad, NEW od, Agreed(c, s, au, ou, ad, od),
         NEW k, Taken(c) = {k}, ~Granted(k),
         NEW z, z.state = "BUSY", z.buffer = c.buffer, z.got = <<>>, ~Sends(z.out),
         z.unpacker # Default, z.unpacker.job # None, z.unpacker.left \in Int, z.unpacker.left > 0,
         NEW m, m.order = 1, m.len = z.unpacker.left
  PROVE  Agreed(z, s, au, {m}, ad, {}) /\ ou = {} /\ od = {}
<1>1. Taken(z) = {} /\ <<>> # <<Nothing>>
  BY DEF Taken
<1>2. ou = {} /\ od = {} /\ Taken(s) = {}
  BY DEF Agreed, OneOrder
<1>3. c.state \notin {"IDLE", "BUSY"}
  BY DEF Agreed, Asks
<1>4. c.unpacker = Default /\ c.buffer.left = 0
  BY <1>3 DEF Agreed, Shape
<1>5. OneOrder(z, s, {m}, {}) /\ Asks(z, s, {m}, {})
  BY <1>1, <1>2 DEF OneOrder, Asks
<1>6. Shape(z, s)
  BY <1>1, <1>4 DEF Agreed, Shape
<1>7. Gets(z, s, {m}, ad, {})
  BY <1>2, <1>4 DEF Agreed, Gets, Shape
<1>8. Puts(z, s, au, {})
  BY <1>1, <1>2 DEF Agreed, Puts
<1> QED BY <1>2, <1>5, <1>6, <1>7, <1>8 DEF Agreed

(* It begins to send its share, that it was granted.                         *)
LEMMA AgreePut ==
  ASSUME NEW c, NEW s, NEW au, NEW ou, NEW ad, NEW od, Agreed(c, s, au, ou, ad, od),
         NEW k, Taken(c) = {k}, Granted(k),
         NEW z, z.state = "BUSY", z.unpacker = c.unpacker, z.got = <<>>,
         NEW n, Balance(n, z.buffer.left, au, k.pos)
  PROVE  Agreed(z, s, n, {}, ad, {}) /\ ou = {} /\ od = {}
<1>1. Taken(z) = {} /\ <<>> # <<Nothing>>
  BY DEF Taken
<1>2. ou = {} /\ od = {} /\ Taken(s) = {}
  BY DEF Agreed, OneOrder
<1>3. c.state \notin {"IDLE", "BUSY"}
  BY DEF Agreed, Asks
<1>4. c.unpacker = Default
  BY <1>3 DEF Agreed, Shape
<1>5. OneOrder(z, s, {}, {}) /\ Asks(z, s, {}, {})
  BY <1>1, <1>2 DEF OneOrder, Asks
<1>6. Shape(z, s)
  BY <1>1, <1>4 DEF Agreed, Shape, Balance
<1>7. Gets(z, s, {}, ad, {})
  BY <1>2, <1>4 DEF Agreed, Gets
<1>8. s.unpacker # Default /\ s.unpacker.left = k.pos /\ au = 0 /\ s.unpacker.job # None
  BY DEF Agreed, Puts
<1>9. Puts(z, s, n, {})
  BY <1>1, <1>2, <1>8 DEF Puts, Balance
<1> QED BY <1>2, <1>5, <1>6, <1>7, <1>9 DEF Agreed

(* It ends a transfer that was refused, is empty or is complete.             *)
LEMMA AgreeEnd ==
  ASSUME NEW c, NEW s, NEW au \in Nat, NEW ou, NEW ad \in Nat, NEW od, Agreed(c, s, au, ou, ad, od),
         s.buffer.left \in Int, c.unpacker.left \in Int, \A m \in ou \cup Taken(s) : m.len \in Int,
         c.unpacker = Default \/ c.unpacker.left = 0,
         c.got = <<Nothing>> \/ \E k : Taken(c) = {k} /\ ~Granted(k),
         NEW z, z.state = "IDLE", z.file = None, z.unpacker = Default, z.buffer = c.buffer,
         z.got = <<>>, z.out = c.out
  PROVE  Agreed(z, s, au, ou, ad, od)
<1>1. Taken(z) = {} /\ <<>> # <<Nothing>>
  BY DEF Taken
<1>2. Default.left = 0
  BY DEF Default, Rest
<1>3. /\ ou = {} /\ od = {} /\ Taken(s) = {} /\ c.buffer.left = 0 /\ ~Sends(c.out)
      /\ s.buffer.left = 0 /\ ad = 0 /\ \A m \in Taken(c) : ~Granted(m)
  <2>1. CASE c.got = <<Nothing>>
    <3>1. Taken(c) = {} /\ c.unpacker # Default
      BY <2>1 DEF Agreed, Shape, Taken
    <3>2. c.state = "BUSY" /\ c.buffer.left = 0 /\ ~Sends(c.out) /\ s.buffer.left >= 0
      BY <3>1 DEF Agreed, Shape
    <3>3. od = {} /\ \A m \in ou \cup Taken(s) : m.order = 1 => m.len > 0
      BY <3>2 DEF Agreed, Asks
    <3>4. ad + s.buffer.left <= 0 /\ \A m \in ou \cup Taken(s) : m.order = 1 /\ m.len <= 0
      BY <3>1 DEF Agreed, Gets
    <3>5. ou \cup Taken(s) = {}
      BY <3>3, <3>4
    <3> QED BY <3>1, <3>2, <3>3, <3>4, <3>5
  <2>2. ASSUME NEW k, Taken(c) = {k}, ~Granted(k) 
               PROVE  /\ ou = {} /\ od = {} /\ Taken(s) = {} /\ c.buffer.left = 0 /\ ~Sends(c.out)
                      /\ s.buffer.left = 0 /\ ad = 0 /\ \A m \in Taken(c) : ~Granted(m)
    <3>1. ou = {} /\ od = {} /\ Taken(s) = {}
      BY <2>2 DEF Agreed, OneOrder
    <3>2. c.state \notin {"IDLE", "BUSY"}
      BY <2>2 DEF Agreed, Asks
    <3>3. c.unpacker = Default /\ c.buffer.left = 0 /\ ~Sends(c.out)
      BY <3>2 DEF Agreed, Shape
    <3>4. s.buffer.left = 0 /\ ad = 0
      BY <3>3 DEF Agreed, Gets
    <3> QED BY <2>2, <3>1, <3>3, <3>4
  <2> QED BY <2>1, <2>2
<1>4. OneOrder(z, s, ou, od) /\ Asks(z, s, ou, od)
  BY <1>1, <1>3 DEF OneOrder, Asks
<1>5. Shape(z, s)
  BY <1>1, <1>2, <1>3 DEF Agreed, Shape
<1>6. Gets(z, s, ou, ad, od)
  BY <1>3 DEF Gets
<1>7. Puts(z, s, au, od)
  BY <1>1, <1>3 DEF Agreed, Puts
<1> QED BY <1>4, <1>5, <1>6, <1>7 DEF Agreed

(* It waits for more content.                                                *)
LEMMA AgreePop ==
  ASSUME NEW c, NEW s, NEW au, NEW ou, NEW ad, NEW od, Agreed(c, s, au, ou, ad, od),
         c.state = "BUSY", NEW z, PopOnly(c, z)
  PROVE  Agreed(z, s, au, ou, ad, od)
<1>1. Taken(z) = {} /\ z.got # <<Nothing>> /\ Taken(c) = {} /\ z.state = c.state /\ z.file = c.file
      /\ z.unpacker = c.unpacker /\ z.buffer = c.buffer /\ z.out = c.out
  BY DEF PopOnly, Agreed, Asks
<1>2. OneOrder(z, s, ou, od) /\ Asks(z, s, ou, od)
  BY <1>1 DEF Agreed, OneOrder, Asks
<1>3. Shape(z, s)
  BY <1>1 DEF Agreed, Shape
<1>4. Gets(z, s, ou, ad, od) /\ Puts(z, s, au, od)
  BY <1>1 DEF Agreed, Gets, Puts
<1> QED BY <1>2, <1>3, <1>4 DEF Agreed

(* A write of the client completes: more of its share, or no more.           *)
LEMMA AgreeFlush ==
  ASSUME NEW c, NEW s, NEW au, NEW ou, NEW ad, NEW od, Agreed(c, s, au, ou, ad, od),
         NEW z, OutOnly(c, z), Sends(z.out) => Sends(c.out)
  PROVE  Agreed(z, s, au, ou, ad, od) /\ Taken(z) = Taken(c)
<1>1. Taken(z) = Taken(c) /\ z.got = c.got /\ z.state = c.state /\ z.file = c.file
      /\ z.unpacker = c.unpacker /\ z.buffer = c.buffer
  BY DEF OutOnly, Taken
<1>2. OneOrder(z, s, ou, od) /\ Asks(z, s, ou, od)
  BY <1>1 DEF Agreed, OneOrder, Asks
<1>3. Shape(z, s)
  BY <1>1 DEF Agreed, Shape
<1>4. Gets(z, s, ou, ad, od) /\ Puts(z, s, au, od)
  BY <1>1 DEF Agreed, Gets, Puts
<1> QED BY <1>1, <1>2, <1>3, <1>4 DEF Agreed

(* It sends the next chunk.                                                  *)
LEMMA AgreeChunk ==
  ASSUME NEW c, NEW s, NEW au, NEW ou, NEW ad, NEW od, Agreed(c, s, au, ou, ad, od),
         c.state = "BUSY", c.unpacker = Default, c.buffer.left > 0,
         NEW z, ChunkOnly(c, z),
         NEW n, Balance(n, z.buffer.left, au, c.buffer.left)
  PROVE  Agreed(z, s, n, ou, ad, od)
<1>1. Taken(z) = Taken(c) /\ z.got = c.got /\ z.state = c.state /\ z.file = c.file
      /\ z.unpacker = c.unpacker
  BY DEF ChunkOnly
<1>2. OneOrder(z, s, ou, od) /\ Asks(z, s, ou, od)
  BY <1>1 DEF Agreed, OneOrder, Asks
<1>3. Shape(z, s)
  BY <1>1 DEF Agreed, Shape, Balance
<1>4. Gets(z, s, ou, ad, od)
  BY <1>1 DEF Agreed, Gets
<1>5. od = {} /\ Taken(c) = {}
  BY DEF Agreed, Asks
<1>6. s.unpacker # Default /\ Taken(s) = {} /\ s.unpacker.job # None /\ s.unpacker.left = au + c.buffer.left
  BY <1>5 DEF Agreed, Puts, Balance
<1>7. Puts(z, s, n, od)
  BY <1>1, <1>5, <1>6 DEF Puts, Balance
<1> QED BY <1>2, <1>3, <1>4, <1>7 DEF Agreed

(* It has sent all of its share.                                             *)
LEMMA AgreeSentAll ==
  ASSUME NEW c, NEW s, NEW au, NEW ou, NEW ad, NEW od, Agreed(c, s, au, ou, ad, od),
         c.state = "BUSY", c.unpacker = Default, c.buffer.left = 0, ~Sends(c.out), c.got = <<>>,
         NEW z, EndOnly(c, z, Default)
  PROVE  Agreed(z, s, au, ou, ad, od)
<1>1. /\ z.got = <<>> /\ z.state = "IDLE" /\ z.file = None /\ z.unpacker = c.unpacker /\ z.buffer = c.buffer
      /\ z.out = c.out /\ Taken(z) = {} /\ Taken(c) = {} /\ <<>> # <<Nothing>>
  BY DEF EndOnly, Taken
<1>2. OneOrder(z, s, ou, od) /\ Asks(z, s, ou, od)
  BY <1>1 DEF Agreed, OneOrder, Asks
<1>3. Shape(z, s)
  BY <1>1 DEF Agreed, Shape
<1>4. Gets(z, s, ou, ad, od) /\ Puts(z, s, au, od)
  BY <1>1 DEF Agreed, Gets, Puts
<1> QED BY <1>2, <1>3, <1>4 DEF Agreed

(* The client reads an order, or a part of its share.                        *)
LEMMA AgreeTold ==
  ASSUME NEW c, NEW s, NEW au, NEW ou, NEW ad, NEW od, Agreed(c, s, au, ou, ad, od),
         NEW m, od = {m}, c.unpacker = Default,
         NEW z, z.state = c.state, z.file = c.file, z.unpacker = c.unpacker, z.buffer = c.buffer,
         z.out = c.out, Taken(z) = {m}, z.got # <<Nothing>>
  PROVE  Agreed(z, s, au, ou, ad, {})
<1>1. Taken(c) = {} /\ ou = {} /\ Taken(s) = {}
  BY DEF Agreed, OneOrder
<1>2. OneOrder(z, s, ou, {})
  BY <1>1 DEF OneOrder
<1>3. Asks(z, s, ou, {})
  BY <1>1 DEF Agreed, Asks
<1>4. Shape(z, s)
  BY <1>1 DEF Agreed, Shape
<1>5. Gets(z, s, ou, ad, {})
  BY DEF Agreed, Gets
<1>6. Puts(z, s, au, {})
  BY <1>1 DEF Agreed, Puts
<1> QED BY <1>2, <1>3, <1>4, <1>5, <1>6 DEF Agreed

(* It has read content.                                                      *)
LEMMA AgreeGot ==
  ASSUME NEW c, NEW s, NEW au, NEW ou, NEW ad \in Nat, NEW od, Agreed(c, s, au, ou, ad, od),
         c.unpacker # Default, c.unpacker.left \in Int, s.buffer.left \in Int,
         NEW n \in Nat, n > 0, n <= ad, n <= c.unpacker.left,
         NEW z, z.state = c.state, z.file = c.file, z.buffer = c.buffer, z.out = c.out, z.got = <<Nothing>>,
         z.unpacker.left = c.unpacker.left - n, z.unpacker.job = c.unpacker.job,
         NEW l, l = ad - n
  PROVE  Agreed(z, s, au, ou, l, od)
<1>1. c.state = "BUSY" /\ c.unpacker.job # None /\ z.unpacker.job # None
  BY DEF Agreed, Shape
<1>2. od = {} /\ Taken(c) = {} /\ Taken(z) = {}
  BY <1>1 DEF Agreed, Asks, Taken
<1>3. ou = {} /\ Taken(s) = {} /\ ad + s.buffer.left <= c.unpacker.left
  BY DEF Agreed, Gets
<1>4. z.unpacker # Default
  BY <1>1 DEF Default, Rest
<1>5. OneOrder(z, s, ou, od) /\ Asks(z, s, ou, od)
  BY <1>1, <1>2, <1>3 DEF OneOrder, Asks
<1>6. Shape(z, s)
  BY <1>1, <1>4 DEF Agreed, Shape
<1>7. Gets(z, s, ou, l, od)
  BY <1>3, <1>4 DEF Gets
<1>8. Puts(z, s, au, od)
  BY <1>2 DEF Agreed, Puts
<1> QED BY <1>5, <1>6, <1>7, <1>8 DEF Agreed

(* The server's.                                                             *)
LEMMA AgreeAnswer ==
  ASSUME NEW c, NEW s, NEW au, NEW ou, NEW ad, NEW od, Agreed(c, s, au, ou, ad, od),
         NEW k, Taken(s) = {k}, k.order \in {0, 10, 11},
         NEW z, z.unpacker = Default, z.buffer = s.buffer, z.got = <<>>, ~Sends(z.out),
         NEW m, m.order = k.order, ~Granted(m)
  PROVE  Agreed(c, z, au, {}, ad, {m}) /\ ou = {} /\ od = {}
<1>1. Taken(z) = {} /\ Default.left = 0
  BY DEF Taken, Default, Rest
<1>2. ou = {} /\ od = {} /\ Taken(c) = {}
  BY DEF Agreed, OneOrder
<1>3. c.state # "IDLE" /\ (c.state = "BUSY" => c.unpacker # Default)
  BY DEF Agreed, Asks
<1>4. c.unpacker = Default
  BY DEF Agreed, Gets
<1>5. OneOrder(c, z, {}, {m})
  BY <1>1, <1>2 DEF OneOrder
<1>6. Asks(c, z, {}, {m})
  BY <1>1, <1>2, <1>3, <1>4 DEF Agreed, Asks, Granted
<1>7. Shape(c, z)
  BY <1>1 DEF Agreed, Shape
<1>8. Gets(c, z, {}, ad, {m})
  BY <1>4 DEF Agreed, Gets
<1>9. Puts(c, z, au, {m})
  BY <1>2 DEF Agreed, Puts
<1> QED BY <1>2, <1>5, <1>6, <1>7, <1>8, <1>9 DEF Agreed

(* The server grants a share, having replaced its unpacker.                  *)
LEMMA AgreeGrant ==
  ASSUME NEW c, NEW s, NEW au, NEW ou, NEW ad, NEW od, Agreed(c, s, au, ou, ad, od),
         NEW k, Taken(s) = {k}, k.order = 11, k.len \in Int,
         NEW z, z.state = "BUSY", z.buffer = s.buffer, z.got = <<>>, ~Sends(z.out),
         z.unpacker # Default, z.unpacker.job # None, z.unpacker.left = k.len,
         NEW m, m.order = 11, m.pos = k.len, m.len = 0
  PROVE  Agreed(c, z, au, {}, ad, {m}) /\ ou = {} /\ od = {}
<1>1. Taken(z) = {}
  BY DEF Taken
<1>2. ou = {} /\ od = {} /\ Taken(c) = {}
  BY DEF Agreed, OneOrder
<1>3. c.state # "IDLE" /\ (c.state = "BUSY" => c.unpacker # Default) /\ k.len > 0
  BY DEF Agreed, Asks
<1>4. c.unpacker = Default
  BY DEF Agreed, Gets
<1>5. OneOrder(c, z, {}, {m})
  BY <1>1, <1>2 DEF OneOrder
<1>6. Asks(c, z, {}, {m})
  BY <1>1, <1>2, <1>3, <1>4 DEF Agreed, Asks
<1>7. Shape(c, z)
  BY <1>3 DEF Agreed, Shape
<1>8. Gets(c, z, {}, ad, {m})
  BY <1>4 DEF Agreed, Gets
<1>9. s.unpacker = Default
  BY DEF Agreed, Puts
<1>10. c.state # "BUSY" /\ c.buffer.left = 0 /\ au = 0
  BY <1>3, <1>4, <1>9 DEF Agreed, Puts
<1>11. Puts(c, z, au, {m})
  <2>1. Granted(m)
    BY DEF Granted
  <2> QED BY <1>1, <1>2, <1>10, <2>1 DEF Puts
<1> QED BY <1>2, <1>5, <1>6, <1>7, <1>8, <1>11 DEF Agreed

(* It begins to send a share.                                                *)
LEMMA AgreeServe ==
  ASSUME NEW c, NEW s, NEW au, NEW ou, NEW ad, NEW od, Agreed(c, s, au, ou, ad, od),
         NEW k, Taken(s) = {k}, k.order = 1,
         c.unpacker.left \in Int, c.state \in {"IDLE", "PREPARE", "BUSY"},
         NEW z, z.state = "BUSY", z.unpacker = s.unpacker, z.got = <<>>,
         NEW n, Balance(n, z.buffer.left, ad, k.len)
  PROVE  Agreed(c, z, au, {}, n, {}) /\ ou = {} /\ od = {}
<1>1. Taken(z) = {}
  BY DEF Taken
<1>2. ou = {} /\ od = {} /\ Taken(c) = {}
  BY DEF Agreed, OneOrder
<1>3. c.state \notin {"IDLE", "PREPARE"} /\ (c.state = "BUSY" => c.unpacker # Default)
  BY DEF Agreed, Asks
<1>5. OneOrder(c, z, {}, {})
  BY <1>1, <1>2 DEF OneOrder
<1>6. Asks(c, z, {}, {})
  BY <1>1, <1>2 DEF Agreed, Asks
<1>7. Shape(c, z)
  BY DEF Agreed, Shape, Balance
<1>8. Gets(c, z, {}, n, {})
  <2>1. CASE c.unpacker = Default
    BY <1>3, <2>1
  <2>2. CASE c.unpacker # Default
    BY <1>1, <2>2 DEF Agreed, Gets, Balance
  <2> QED BY <2>1, <2>2
<1>9. Puts(c, z, au, {})
  BY <1>1, <1>2 DEF Agreed, Puts
<1> QED BY <1>2, <1>5, <1>6, <1>7, <1>8, <1>9 DEF Agreed

(* It drops an order, or ends a transfer.                                    *)
LEMMA AgreeDrop ==
  ASSUME NEW c, NEW s, NEW au \in Nat, NEW ou, NEW ad, NEW od, Agreed(c, s, au, ou, ad, od),
         c.buffer.left \in Int, \A m \in od \cup Taken(c) : m.pos \in Int,
         NEW z, z.buffer = s.buffer, z.out = s.out, z.got = <<>>, z.state = "PREPARE" => s.state = "PREPARE",
         \/ z.unpacker = s.unpacker
         \/ z.unpacker = Default /\ (s.unpacker.left = 0 \/ s.unpacker = Default)
  PROVE  Agreed(c, z, au, ou, ad, od)
<1>1. Taken(z) = {} /\ Default.left = 0
  BY DEF Taken, Default, Rest
<1>5. OneOrder(c, z, ou, od)
  BY <1>1 DEF Agreed, OneOrder
<1>6. Asks(c, z, ou, od)
  BY <1>1 DEF Agreed, Asks
<1>7. Shape(c, z)
  BY <1>1 DEF Agreed, Shape
<1>8. Gets(c, z, ou, ad, od)
  BY <1>1 DEF Agreed, Gets
<1>9. CASE z.unpacker = s.unpacker
  <2>1. Puts(c, z, au, od)
    BY <1>1, <1>9 DEF Agreed, Puts
  <2> QED BY <1>5, <1>6, <1>7, <1>8, <2>1 DEF Agreed
<1>10. CASE s.unpacker # Default /\ s.unpacker.left = 0 /\ z.unpacker = Default
  <2>1. ASSUME NEW m \in od \cup Taken(c), Granted(m) PROVE FALSE
    <3>1. m.pos > 0
      BY <2>1 DEF Agreed, Asks, Granted
    <3>2. m.pos = 0
      BY <1>10, <2>1 DEF Agreed, Puts
    <3> QED BY <3>1, <3>2
  <2>2. au + c.buffer.left = 0 /\ c.buffer.left >= 0
    BY <1>10, <2>1 DEF Agreed, Puts, Shape
  <2>3. au = 0 /\ c.buffer.left = 0
    BY <2>2
  <2>4. Puts(c, z, au, od)
    BY <1>10, <2>1, <2>3 DEF Puts
  <2> QED BY <1>5, <1>6, <1>7, <1>8, <2>4 DEF Agreed
<1> QED BY <1>9, <1>10

(* A write of it has completed.                                              *)
LEMMA AgreeServed ==
  ASSUME NEW c, NEW s, NEW au, NEW ou, NEW ad, NEW od, Agreed(c, s, au, ou, ad, od),
         NEW z, OutOnly(s, z) \/ EndOnly(s, z, s.unpacker), Sends(z.out) => Sends(s.out)
  PROVE  Agreed(c, z, au, ou, ad, od) /\ Taken(z) = Taken(s)
<1>1. Taken(z) = Taken(s) /\ z.unpacker = s.unpacker /\ z.buffer = s.buffer /\ (z.state = s.state \/ z.state = "IDLE")
  BY DEF OutOnly, EndOnly, Taken
<1>2. OneOrder(c, z, ou, od) /\ Asks(c, z, ou, od)
  BY <1>1 DEF Agreed, OneOrder, Asks
<1>3. Shape(c, z)
  BY <1>1 DEF Agreed, Shape
<1>4. Gets(c, z, ou, ad, od) /\ Puts(c, z, au, od)
  BY <1>1 DEF Agreed, Gets, Puts
<1> QED BY <1>1, <1>2, <1>3, <1>4 DEF Agreed

(* It sends the next chunk.                                                  *)
LEMMA AgreeServedChunk ==
  ASSUME NEW c, NEW s, NEW au, NEW ou, NEW ad, NEW od, Agreed(c, s, au, ou, ad, od),
         s.state # "PREPARE", s.buffer.left > 0, c.unpacker.left \in Int,
         NEW z, ChunkOnly(s, z),
         NEW n, Balance(n, z.buffer.left, ad, s.buffer.left)
  PROVE  Agreed(c, z, au, ou, n, od)
<1>1. Taken(z) = Taken(s) /\ z.unpacker = s.unpacker /\ z.state = s.state
  BY DEF ChunkOnly
<1>2. OneOrder(c, z, ou, od) /\ Asks(c, z, ou, od)
  BY <1>1 DEF Agreed, OneOrder, Asks
<1>3. Shape(c, z)
  BY <1>1 DEF Agreed, Shape, Balance
<1>4. Gets(c, z, ou, n, od)
  <2>1. c.unpacker # Default /\ ad + s.buffer.left <= c.unpacker.left /\ ou \cup Taken(s) = {}
    BY DEF Agreed, Gets, Balance
  <2> QED BY <1>1, <2>1 DEF Gets, Balance
<1>5. Puts(c, z, au, od)
  BY <1>1 DEF Agreed, Puts
<1> QED BY <1>2, <1>3, <1>4, <1>5 DEF Agreed

(* The server reads an order, or a part of the client's share.               *)
LEMMA AgreeAsked ==
  ASSUME NEW c, NEW s, NEW au, NEW ou, NEW ad, NEW od, Agreed(c, s, au, ou, ad, od),
         NEW m, ou = {m}, s.unpacker = Default,
         NEW z, z.state = s.state, z.unpacker = s.unpacker, z.buffer = s.buffer,
         z.out = s.out, Taken(z) = {m}
  PROVE  Agreed(c, z, au, {}, ad, od)
<1>1. Taken(c) = {} /\ od = {} /\ Taken(s) = {}
  BY DEF Agreed, OneOrder
<1>2. OneOrder(c, z, {}, od)
  BY <1>1 DEF OneOrder
<1>3. Asks(c, z, {}, od)
  BY <1>1 DEF Agreed, Asks
<1>4. Shape(c, z)
  BY <1>1 DEF Agreed, Shape
<1>5. Gets(c, z, {}, ad, od)
  BY DEF Agreed, Gets
<1>6. Puts(c, z, au, od)
  BY <1>1 DEF Agreed, Puts
<1> QED BY <1>2, <1>3, <1>4, <1>5, <1>6 DEF Agreed

(* With a file_unpacker it takes only what the client sends as content.      *)
LEMMA AgreeSafeRead ==
  ASSUME NEW c, NEW s, NEW au \in Nat, NEW ou, NEW ad, NEW od, Agreed(c, s, au, ou, ad, od),
         s.unpacker # Default, s.unpacker.left \in Int, c.buffer.left \in Int, c.state \in {"IDLE", "PREPARE", "BUSY"},
         NEW n \in Nat, n > 0, n <= s.unpacker.left, ou = {} => n <= au
  PROVE  n <= au /\ \A m \in od \cup Taken(c) : ~Granted(m)
<1>1. ASSUME NEW m \in od \cup Taken(c), Granted(m) PROVE FALSE
  <2>1. au = 0
    BY <1>1 DEF Agreed, Puts
  <2>2. ou = {}
    BY DEF Agreed, OneOrder
  <2> QED BY <2>1, <2>2
<1>2. s.unpacker.left = au + c.buffer.left
  BY <1>1 DEF Agreed, Puts
<1>3. CASE ou # {}
  <2>1. c.state # "IDLE" /\ (c.state = "BUSY" => c.unpacker # Default)
    BY <1>3 DEF Agreed, Asks
  <2>2. c.buffer.left = 0
    BY <2>1 DEF Agreed, Shape
  <2> QED BY <1>1, <1>2, <2>2
<1> QED BY <1>1, <1>3

(* It has read content.                                                      *)
LEMMA AgreePutGot ==
  ASSUME NEW c, NEW s, NEW au \in Nat, NEW ou, NEW ad, NEW od, Agreed(c, s, au, ou, ad, od),
         s.unpacker # Default, s.unpacker.left \in Int, c.buffer.left \in Int,
         NEW n \in Nat, n > 0, n <= au, n <= s.unpacker.left, \A m \in od \cup Taken(c) : ~Granted(m),
         NEW z, z.state = s.state, z.buffer = s.buffer, z.out = s.out, z.got = <<Nothing>>,
         z.unpacker.left = s.unpacker.left - n, z.unpacker.job = s.unpacker.job,
         NEW l, l = au - n
  PROVE  Agreed(c, z, l, ou, ad, od)
<1>1. Taken(z) = {} /\ Taken(s) = {} /\ z.unpacker.job # None
  BY DEF Agreed, Puts, Taken
<1>2. z.unpacker # Default
  BY <1>1 DEF Default, Rest
<1>3. OneOrder(c, z, ou, od) /\ Asks(c, z, ou, od)
  BY <1>1 DEF Agreed, OneOrder, Asks
<1>4. Shape(c, z)
  BY DEF Agreed, Shape
<1>5. Gets(c, z, ou, ad, od)
  BY <1>1 DEF Agreed, Gets
<1>6. s.unpacker.left = au + c.buffer.left
  BY DEF Agreed, Puts
<1>7. Puts(c, z, l, od)
  BY <1>1, <1>2, <1>6 DEF Puts
<1> QED BY <1>3, <1>4, <1>5, <1>7 DEF Agreed

-----------------------------------------------------------------------------
(* The steps of the client's socket.                                         *)
LEMMA TakenTyped ==
  ASSUME NEW J, NEW s, GotOK(J, s), NEW m \in Taken(s)
  PROVE  m \in Messages /\ IsOrder(J, m)
<1>1. s.got \notin {<<>>, <<Nothing>>} /\ m = s.got[1]
  BY DEF Taken
<1>2. PICK x \in Messages : IsOrder(J, x) /\ s.got = <<x>>
  BY <1>1 DEF GotOK, OfOrder
<1> QED BY <1>1, <1>2

(* The fields of a socket, ...                                               *)
LEMMA SocketTyped ==
  ASSUME NEW s \in Sockets
  PROVE  /\ s.buffer.left \in Int /\ s.unpacker.left \in Int /\ s.state \in {"IDLE", "PREPARE", "BUSY"}
         /\ s.unpacker \in [job : Int, pos : Int, left : Int] /\ s.file \in Int
BY DEF Sockets

(* ... and of the two of a link.                                             *)
LEMMA LinkTyped ==
  ASSUME NEW J, NEW c, NEW s, NEW u, NEW d, Linked(J, c, s, u, d)
  PROVE  /\ c \in Sockets /\ s \in Sockets /\ GotOK(J, c) /\ GotOK(J, s)
         /\ c.buffer.left \in Int /\ c.unpacker.left \in Int /\ c.state \in {"IDLE", "PREPARE", "BUSY"}
         /\ s.buffer.left \in Int /\ s.unpacker.left \in Int
         /\ Amount(Pipe(c, u)) \in Nat /\ Amount(Pipe(s, d)) \in Nat
         /\ \A m \in Orders(Pipe(c, u)) \cup Taken(s) : m \in Messages /\ IsOrder(J, m)
         /\ \A m \in Orders(Pipe(s, d)) \cup Taken(c) : m \in Messages /\ IsOrder(J, m)
<1>1. /\ c \in Sockets /\ s \in Sockets /\ GotOK(J, c) /\ GotOK(J, s)
      /\ IsStream(J, Pipe(c, u)) /\ IsStream(J, Pipe(s, d))
  BY DEF Linked, Sound
<1> QED BY <1>1, SocketTyped, AmountNat, OrderTyped, TakenTyped

(* The client handles a message and ends its transfer.                       *)
LEMMA ClientEnds ==
  ASSUME NEW J, NEW c, NEW s, NEW u, NEW d, Linked(J, c, s, u, d),
         c.got # <<>>, c.unpacker = Default \/ c.unpacker.left = 0, ~Granted(Head(c.got)),
         NEW t, Reset(c, t) \/ (c.unpacker = Default /\ Idled(c, t)), NEW z, z = Popped(t)
  PROVE  Linked(J, z, s, u, d) /\ z.state = "IDLE" /\ ~Stale(c, t)
<1> DEFINE au == Amount(Pipe(c, u))
           ou == Orders(Pipe(c, u))
           ad == Amount(Pipe(s, d))
           od == Orders(Pipe(s, d))
<1>1. /\ Sound(J, c, u) /\ Sound(J, s, d) /\ Agreed(c, s, au, ou, ad, od) /\ au \in Nat /\ ad \in Nat
      /\ s.buffer.left \in Int /\ c.unpacker.left \in Int /\ \A m \in ou \cup Taken(s) : m.len \in Int
  BY LinkTyped DEF Linked, Messages
<1>2. c.got = <<Nothing>> \/ Taken(c) = {Head(c.got)}
  BY <1>1, Handled DEF Sound
<1>3. /\ Sound(J, t, u) /\ Pipe(t, u) = Pipe(c, u) /\ EndOnly(c, t, Default)
  <2>1. CASE Reset(c, t)
    <3>1. c.got # <<>>
      OBVIOUS
    <3> QED BY ONLY <1>1, <2>1, <3>1, ResetSound
  <2>2. CASE c.unpacker = Default /\ Idled(c, t)
    <3>1. Sound(J, t, u) /\ Pipe(t, u) = Pipe(c, u) /\ EndOnly(c, t, c.unpacker)
      BY ONLY <1>1, <2>2, IdleSound
    <3> QED BY <2>2, <3>1
  <2> QED BY <2>1, <2>2
<1>4. t.got # <<>>
  BY <1>3 DEF EndOnly
<1>5. Sound(J, z, u) /\ PopOnly(t, z) /\ Pipe(z, u) = Pipe(c, u)
  BY <1>3, <1>4, PopSound
<1>6. /\ z.state = "IDLE" /\ z.file = None /\ z.unpacker = Default /\ z.buffer = c.buffer
      /\ z.got = <<>> /\ z.out = c.out
  BY <1>3, <1>5 DEF EndOnly, PopOnly
<1>7. Agreed(z, s, au, ou, ad, od)
  <2> HIDE DEF au, ou, ad, od
  <2> QED BY <1>1, <1>2, <1>6, AgreeEnd
<1>8. ~Stale(c, t)
  BY <1>3 DEF EndOnly, Stale
<1> QED BY <1>1, <1>5, <1>6, <1>7, <1>8 DEF Linked

(* Resetting an idle socket changes nothing.                                 *)
LEMMA StaysIdle ==
  ASSUME NEW J, NEW c, NEW s, NEW u, NEW d, Linked(J, c, s, u, d), c.state = "IDLE",
         NEW t, Idled(c, t)
  PROVE  Linked(J, t, s, u, d) /\ t.state = "IDLE" /\ ~Stale(c, t)
<1>1. Sound(J, c, u) /\ Sound(J, s, d)
      /\ Agreed(c, s, Amount(Pipe(c, u)), Orders(Pipe(c, u)), Amount(Pipe(s, d)), Orders(Pipe(s, d)))
  BY DEF Linked
<1>2. Sound(J, t, u) /\ Pipe(t, u) = Pipe(c, u) /\ EndOnly(c, t, c.unpacker)
  BY <1>1, IdleSound
<1>3. c.file = None
  BY <1>1 DEF Agreed, Asks
<1>4. OutOnly(c, t) /\ t.out = c.out
  BY <1>2, <1>3 DEF EndOnly, OutOnly
<1>5. Agreed(t, s, Amount(Pipe(c, u)), Orders(Pipe(c, u)), Amount(Pipe(s, d)), Orders(Pipe(s, d)))
  BY <1>1, <1>4, AgreeFlush
<1> QED BY <1>1, <1>2, <1>5 DEF Linked, EndOnly, Stale

(* The client handles the empty message in the middle of a transfer.         *)
LEMMA ClientPops ==
  ASSUME NEW J, NEW c, NEW s, NEW u, NEW d, Linked(J, c, s, u, d),
         c.got # <<>>, c.state = "BUSY", NEW z, z = Popped(c)
  PROVE  Linked(J, z, s, u, d) /\ z.state = "BUSY"
<1>1. Sound(J, c, u) /\ Sound(J, s, d)
  BY DEF Linked
<1>2. Sound(J, z, u) /\ PopOnly(c, z) /\ Pipe(z, u) = Pipe(c, u)
  BY <1>1, PopSound
<1> QED BY <1>1, <1>2, AgreePop DEF Linked, PopOnly

(* An order is sent on a link that is quiet; z is the socket, its message    *)
(* handled if there was one.                                                 *)
LEMMA Requests ==
  ASSUME NEW J \in SUBSET Int, NEW c, NEW s, NEW u, NEW d, Linked(J, c, s, u, d),
         c.state # "BUSY", Orders(Pipe(c, u)) = {}, Orders(Pipe(s, d)) = {}, Taken(s) = {},
         \A x \in Taken(c) : ~Granted(x),
         NEW t \in Sockets, t.state = "PREPARE", t.file \in J \cup {None}, t.unpacker = c.unpacker,
         t.buffer = c.buffer, t.out = c.out, t.got = c.got, t.reading = c.reading,
         NEW m \in Messages, IsOrder(J, m), m.order \in {0, 10, 11}, m.order = 10 <=> t.file = None,
         m.order = 11 => m.len > 0,
         NEW b, b = <<m>>, NEW r, r = Send(t, u, b),
         NEW z, (c.got = <<>> /\ z = r.s) \/ (c.got # <<>> /\ z = Popped(r.s))
  PROVE  Linked(J, z, s, r.wire, d) /\ z.state = "PREPARE" /\ z.file = t.file /\ ~Stale(c, r.s)
<1> DEFINE au == Amount(Pipe(c, u))
           ad == Amount(Pipe(s, d))
<1>1. Sound(J, c, u) /\ Sound(J, s, d) /\ Agreed(c, s, au, {}, ad, {}) /\ GotOK(J, c)
  BY LinkTyped DEF Linked
<1>2. Sound(J, t, u) /\ Pipe(t, u) = Pipe(c, u)
  <2>1. GotOK(J, t)
    BY <1>1 DEF GotOK
  <2> QED BY <1>1, <2>1, Resound
<1>3. ~Sends(t.out) /\ Orders(Pipe(t, u)) = {}
  BY <1>1, <1>2 DEF Agreed, Shape
<1>4. /\ Sound(J, r.s, r.wire) /\ OutOnly(t, r.s) /\ ~Sends(r.s.out)
      /\ Orders(Pipe(r.s, r.wire)) = {m} /\ Amount(Pipe(r.s, r.wire)) = au
  <2>1. m \in Messages /\ IsOrder(J, m) /\ b = <<m>> /\ r = Send(t, u, b) /\ J \in SUBSET Int
    OBVIOUS
  <2>2. /\ Sound(J, r.s, r.wire) /\ OutOnly(t, r.s) /\ ~Sends(r.s.out)
        /\ Orders(Pipe(r.s, r.wire)) = {m} /\ Amount(Pipe(r.s, r.wire)) = Amount(Pipe(t, u))
    BY ONLY <1>2, <1>3, <2>1, OrderSent
  <2> QED BY <1>2, <2>2
<1>5. /\ Sound(J, z, r.wire) /\ Pipe(z, r.wire) = Pipe(r.s, r.wire)
      /\ z.got = <<>> /\ z.state = "PREPARE" /\ z.file = t.file /\ z.unpacker = c.unpacker /\ z.buffer = c.buffer
      /\ z.out = r.s.out
  <2>1. /\ r.s.got = c.got /\ r.s.state = "PREPARE" /\ r.s.file = t.file /\ r.s.unpacker = c.unpacker
        /\ r.s.buffer = c.buffer
    BY <1>4 DEF OutOnly
  <2>2. CASE c.got = <<>> /\ z = r.s
    BY <1>4, <2>1, <2>2
  <2>3. CASE c.got # <<>> /\ z = Popped(r.s)
    <3>1. Sound(J, z, r.wire) /\ PopOnly(r.s, z) /\ Pipe(z, r.wire) = Pipe(r.s, r.wire)
      <4>1. r.s.got # <<>>
        BY <2>1, <2>3
      <4> QED BY ONLY <1>4, <2>3, <4>1, PopSound
    <3> QED BY <2>1, <3>1 DEF PopOnly
  <2> QED BY <2>2, <2>3
<1>6. Agreed(z, s, au, {m}, ad, {})
  <2> HIDE DEF au, ad
  <2>1. ~Sends(z.out) /\ (m.order = 10 <=> z.file = None)
    BY <1>4, <1>5
  <2> QED BY <1>1, <1>5, <2>1, AgreeAsk
<1>7. Agreed(z, s, Amount(Pipe(z, r.wire)), Orders(Pipe(z, r.wire)), ad, Orders(Pipe(s, d)))
  BY <1>4, <1>5, <1>6
<1>8. ~Stale(c, r.s)
  BY <1>4 DEF Stale, OutOnly
<1> QED BY <1>1, <1>5, <1>7, <1>8 DEF Linked

AsksFor(c, p, n, t, m) ==
    /\ t = SetUnpacker([c EXCEPT !.state = "BUSY"], Rest(c.file, p, n)) /\ m = Msg(1, c.file, p, n)

(* The length of the file has come: it asks for its share.                   *)
LEMMA AsksForShare ==
  ASSUME NEW J \in SUBSET (Nat \ {0}), NEW c, NEW s, NEW u, NEW d, Linked(J, c, s, u, d),
         c.got # <<>>, c.state = "PREPARE", Head(c.got).order = 0, c.file # None,
         NEW p \in Int, NEW n \in Int, n > 0,
         NEW t, NEW m, AsksFor(c, p, n, t, m), NEW b, b = <<m>>, NEW r, r = Send(t, u, b), NEW z, z = Popped(r.s)
  PROVE  Linked(J, z, s, r.wire, d) /\ z.state = "BUSY" /\ ~Stale(c, r.s)
<1> DEFINE au == Amount(Pipe(c, u))
           ou == Orders(Pipe(c, u))
           ad == Amount(Pipe(s, d))
           od == Orders(Pipe(s, d))
           k == Head(c.got)
           v == Rest(c.file, p, n)
<1>1. /\ Sound(J, c, u) /\ Sound(J, s, d) /\ Agreed(c, s, au, ou, ad, od) /\ GotOK(J, c) /\ c \in Sockets
      /\ c.file \in J \cup {None}
  BY LinkTyped DEF Linked, Sound
<1>2. c.file \in J /\ c.file \in Int /\ c.file # 0
  <2>1. c.file # None /\ J \in SUBSET (Nat \ {0})
    OBVIOUS
  <2>2. c.file \in J
    BY ONLY <1>1, <2>1
  <2>3. c.file \in Nat \ {0}
    BY ONLY <2>1, <2>2
  <2> QED BY ONLY <2>2, <2>3
<1>3. c.reading = "none" /\ Taken(c) = {k} /\ ~Granted(k)
  <2>1. k.order # Empty /\ ~Granted(k)
    BY DEF Empty, Granted
  <2>2. k # Nothing
    BY <2>1 DEF Nothing, Msg
  <2> QED BY <1>1, <2>1, <2>2, Handled
<1>4. v \in [job : Int, pos : Int, left : Int] /\ v # Default /\ v.job # None /\ v.left = n
  BY <1>2 DEF Rest, Default, None
<1> HIDE DEF v
<1>5. t = [c EXCEPT !.state = "BUSY", !.unpacker = v]
  BY <1>1, <1>3 DEF AsksFor, SetUnpacker, Sockets, v
<1>6. /\ t \in Sockets /\ t.state = "BUSY" /\ t.file = c.file /\ t.unpacker = v /\ t.buffer = c.buffer
      /\ t.out = c.out /\ t.got = c.got /\ t.reading = c.reading
  BY <1>1, <1>4, <1>5 DEF Sockets
<1>7. Sound(J, t, u) /\ Pipe(t, u) = Pipe(c, u)
  <2>1. GotOK(J, t)
    BY <1>1, <1>6 DEF GotOK
  <2> QED BY <1>1, <1>6, <2>1, Resound
<1>8. m \in Messages /\ IsOrder(J, m) /\ m.order = 1 /\ m.len = n
  BY <1>2 DEF AsksFor, Msg, Messages, IsOrder
<1>9. ou = {} /\ od = {} /\ ~Sends(t.out)
  BY <1>1, <1>3, <1>6 DEF Agreed, OneOrder, Shape
<1>10. /\ Sound(J, r.s, r.wire) /\ OutOnly(t, r.s) /\ ~Sends(r.s.out)
       /\ Orders(Pipe(r.s, r.wire)) = {m} /\ Amount(Pipe(r.s, r.wire)) = au
  <2>1. Orders(Pipe(t, u)) = {} /\ J \in SUBSET Int /\ ~Sends(t.out)
    BY <1>7, <1>9
  <2>2. m \in Messages /\ IsOrder(J, m) /\ b = <<m>> /\ r = Send(t, u, b)
    BY <1>8
  <2>3. /\ Sound(J, r.s, r.wire) /\ OutOnly(t, r.s) /\ ~Sends(r.s.out)
        /\ Orders(Pipe(r.s, r.wire)) = {m} /\ Amount(Pipe(r.s, r.wire)) = Amount(Pipe(t, u))
    BY ONLY <1>7, <2>1, <2>2, OrderSent
  <2> QED BY <1>7, <2>3
<1>11. Sound(J, z, r.wire) /\ PopOnly(r.s, z) /\ Pipe(z, r.wire) = Pipe(r.s, r.wire)
  <2>1. r.s.got # <<>>
    BY <1>6, <1>10 DEF OutOnly
  <2> QED BY <1>10, <2>1, PopSound
<1>12. /\ z.state = "BUSY" /\ z.buffer = c.buffer /\ z.got = <<>> /\ ~Sends(z.out) /\ z.unpacker = v
  BY <1>6, <1>10, <1>11 DEF PopOnly, OutOnly
<1>13. Agreed(z, s, au, {m}, ad, {})
  <2> HIDE DEF au, ou, ad, od, k
  <2>1. z.unpacker # Default /\ z.unpacker.job # None /\ z.unpacker.left \in Int /\ z.unpacker.left > 0
        /\ m.order = 1 /\ m.len = z.unpacker.left
    BY <1>4, <1>8, <1>12
  <2> QED BY <1>1, <1>3, <1>12, <2>1, AgreeShare
<1>14. ~Stale(c, r.s)
  BY <1>6, <1>10 DEF OutOnly, Stale
<1> QED BY <1>1, <1>9, <1>10, <1>11, <1>12, <1>13, <1>14 DEF Linked

PutsFrom(c, m, t) == \E p \in Int : t = [c EXCEPT !.state = "BUSY", !.buffer = Rest(c.file, p, m.pos)]

(* It was granted its share and sends the first chunk.                       *)
LEMMA PutsShare ==
  ASSUME FileTransferAssumption,
         NEW J \in SUBSET Int, NEW c, NEW s, NEW u, NEW d, Linked(J, c, s, u, d),
         c.got # <<>>, c.state = "PREPARE", NEW m, m = Head(c.got), m.order = 11, m.len >= 0,
         NEW t, PutsFrom(c, m, t),
         NEW r, r = SendChunk(t, u), NEW z, z = Popped(r.s)
  PROVE  Linked(J, z, s, r.wire, d) /\ z.state = "BUSY" /\ ~Stale(c, r.s)
<1> DEFINE au == Amount(Pipe(c, u))
           ou == Orders(Pipe(c, u))
           ad == Amount(Pipe(s, d))
           od == Orders(Pipe(s, d))
           l == Amount(Pipe(r.s, r.wire))
<1>1. /\ Sound(J, c, u) /\ Sound(J, s, d) /\ Agreed(c, s, au, ou, ad, od) /\ GotOK(J, c) /\ c \in Sockets
      /\ c.file \in J \cup {None} /\ c.file \in Int /\ au \in Nat
  BY LinkTyped, SocketTyped DEF Linked, Sound
<1>2. m \in Messages /\ Taken(c) = {m} /\ Granted(m) /\ m.pos \in Int
  <2>1. m.order # Empty
    BY DEF Empty
  <2>2. m # Nothing
    BY <2>1 DEF Nothing, Msg
  <2>3. m \in Messages /\ Taken(c) = {m}
    BY <1>1, <2>2, Handled
  <2> QED BY <2>3 DEF Granted, Messages
<1>3. ou = {} /\ od = {} /\ ~Sends(c.out) /\ m.pos > 0 /\ c.unpacker = Default
  BY <1>1, <1>2 DEF Agreed, OneOrder, Shape, Asks, Granted
<1>4. PICK v : v \in [job : Int, pos : Int, left : Int] /\ v.left = m.pos
               /\ t = [c EXCEPT !.state = "BUSY", !.buffer = v]
  BY <1>1, <1>2 DEF PutsFrom, Rest
<1>5. /\ t \in Sockets /\ t.state = "BUSY" /\ t.file = c.file /\ t.unpacker = c.unpacker /\ t.buffer = v
      /\ t.out = c.out /\ t.got = c.got /\ t.reading = c.reading
  BY <1>1, <1>4 DEF Sockets
<1>6. Sound(J, t, u) /\ Pipe(t, u) = Pipe(c, u)
  <2>1. GotOK(J, t) /\ t.file \in J \cup {None}
    BY <1>1, <1>5 DEF GotOK
  <2> QED BY ONLY <1>1, <1>5, <2>1, Resound
<1>7. /\ Sound(J, r.s, r.wire) /\ ChunkOnly(t, r.s) /\ Sends(r.s.out)
      /\ Orders(Pipe(r.s, r.wire)) = {} /\ r.s.buffer.left >= 0
      /\ l + r.s.buffer.left = au + m.pos
  <2>1. ~Sends(t.out) /\ Orders(Pipe(t, u)) = {} /\ t.buffer.left = m.pos /\ t.buffer.left > 0
        /\ Amount(Pipe(t, u)) = au
    BY <1>3, <1>4, <1>5, <1>6
  <2>2. /\ Sound(J, r.s, r.wire) /\ ChunkOnly(t, r.s) /\ Sends(r.s.out)
        /\ Orders(Pipe(r.s, r.wire)) = {} /\ r.s.buffer.left >= 0
        /\ l + r.s.buffer.left = Amount(Pipe(t, u)) + t.buffer.left
    <3>1. FileTransferAssumption /\ J \in SUBSET Int /\ r = SendChunk(t, u)
      OBVIOUS
    <3> HIDE DEF FileTransferAssumption
    <3> QED BY ONLY <1>6, <2>1, <3>1, ChunkSent
  <2> QED BY <2>1, <2>2
<1>8. l \in Nat /\ r.s.buffer.left \in Int
  BY <1>7, AmountNat, SocketTyped DEF Sound
<1>9. Sound(J, z, r.wire) /\ PopOnly(r.s, z) /\ Pipe(z, r.wire) = Pipe(r.s, r.wire)
  <2>1. r.s.got # <<>>
    BY <1>5, <1>7 DEF ChunkOnly
  <2> QED BY <1>7, <2>1, PopSound
<1>10. z.state = "BUSY" /\ z.unpacker = c.unpacker /\ z.got = <<>> /\ z.buffer = r.s.buffer
  BY <1>5, <1>7, <1>9 DEF PopOnly, ChunkOnly
<1>11. Agreed(z, s, l, {}, ad, {})
  <2> HIDE DEF au, ou, ad, od, l
  <2>1. Balance(l, z.buffer.left, au, m.pos)
    BY <1>1, <1>2, <1>7, <1>8, <1>10 DEF Balance
  <2> QED BY ONLY <1>1, <1>2, <1>10, <2>1, AgreePut
<1>12. ~Stale(c, r.s)
  BY <1>5, <1>7 DEF ChunkOnly, Stale
<1> QED BY <1>1, <1>3, <1>7, <1>9, <1>10, <1>11, <1>12 DEF Linked

(* A write of the client has completed.                                      *)
LEMMA ClientSentKeeps ==
  ASSUME FileTransferAssumption,
         NEW J \in SUBSET Int, NEW c, NEW s, NEW u, NEW d, Linked(J, c, s, u, d),
         c.out # <<>>, NEW h, h = OnMsgSend(c, u)
  PROVE  /\ Linked(J, h.s, s, h.wire, d) /\ ~Stale(c, h.s)
         /\ (h.s.state = c.state /\ h.s.file = c.file) \/ (c.state = "BUSY" /\ h.s.state = "IDLE")
<1> DEFINE au == Amount(Pipe(c, u))
           ou == Orders(Pipe(c, u))
           ad == Amount(Pipe(s, d))
           od == Orders(Pipe(s, d))
           x == Completed(c, u)
<1>1. /\ Sound(J, c, u) /\ Sound(J, s, d) /\ Agreed(c, s, au, ou, ad, od) /\ GotOK(J, c)
      /\ au \in Nat /\ ad \in Nat /\ c.buffer.left \in Int
  BY LinkTyped DEF Linked
<1>2. /\ Sound(J, x.s, x.wire) /\ OutOnly(c, x.s) /\ Pipe(x.s, x.wire) = Pipe(c, u)
      /\ Head(c.out)[1].order = Content => Sends(c.out) /\ ~Sends(x.s.out)
      /\ Head(c.out)[1].order # Content => (Sends(x.s.out) <=> Sends(c.out))
  BY <1>1, Flushed
<1> HIDE DEF x
<1>3. Agreed(x.s, s, au, ou, ad, od)
  <2> HIDE DEF au, ou, ad, od
  <2> QED BY <1>1, <1>2, AgreeFlush
<1>4. ~Stale(c, x.s) /\ x.s.state = c.state /\ x.s.file = c.file /\ x.s.buffer = c.buffer
      /\ x.s.unpacker = c.unpacker /\ x.s.got = c.got /\ x.s.reading = c.reading
  BY <1>2 DEF OutOnly, Stale
<1>5. CASE Head(c.out)[1].order # Content
  <2>1. h = x
    BY <1>5 DEF OnMsgSend, x
  <2> QED BY <1>1, <1>2, <1>3, <1>4, <2>1 DEF Linked
<1>6. CASE Head(c.out)[1].order = Content
  <2>1. c.state = "BUSY" /\ c.unpacker = Default /\ ou = {} /\ Taken(c) = {}
    BY <1>1, <1>2, <1>6 DEF Agreed, Shape, Asks
  <2>2. CASE c.buffer.left = 0
    <3> DEFINE t == trans_end(x.s, FALSE)
    <3>1. h.s = t /\ h.wire = x.wire
      BY <1>6, <2>2 DEF OnMsgSend, x
    <3>2. Sound(J, t, x.wire) /\ Pipe(t, x.wire) = Pipe(x.s, x.wire) /\ EndOnly(x.s, t, x.s.unpacker)
      <4>1. Idled(x.s, t)
        BY DEF trans_end, Idled
      <4> HIDE DEF t
      <4> QED BY ONLY <1>2, <4>1, IdleSound
    <3> HIDE DEF t
    <3>3. c.got = <<>>
      <4>1. c.got # <<Nothing>>
        BY <1>1, <2>1 DEF Agreed, Shape
      <4> QED BY <2>1, <4>1 DEF Taken
    <3>4. Agreed(t, s, au, ou, ad, od)
      <4> HIDE DEF au, ou, ad, od
      <4>1. x.s.unpacker = Default /\ x.s.buffer.left = 0 /\ x.s.state = "BUSY" /\ x.s.got = <<>> /\ ~Sends(x.s.out)
        BY <1>2, <1>4, <1>6, <2>1, <2>2, <3>3
      <4>2. EndOnly(x.s, t, Default)
        BY <3>2, <4>1
      <4> QED BY <1>3, <4>1, <4>2, AgreeSentAll
    <3>5. ~Stale(c, t) /\ t.state = "IDLE"
      BY <1>4, <3>2 DEF EndOnly, Stale
    <3> QED BY <1>1, <1>2, <2>1, <3>1, <3>2, <3>4, <3>5 DEF Linked
  <2>3. CASE c.buffer.left # 0
    <3>1. h = SendChunk(x.s, x.wire)
      BY <1>6, <2>3 DEF OnMsgSend, x
    <3>2. x.s.buffer.left > 0 /\ x.s.buffer.left \in Int
      BY <1>1, <1>4, <2>3 DEF Agreed, Shape
    <3> DEFINE l == Amount(Pipe(h.s, h.wire))
    <3>3. /\ Sound(J, h.s, h.wire) /\ ChunkOnly(x.s, h.s) /\ Sends(h.s.out)
          /\ Orders(Pipe(h.s, h.wire)) = {} /\ h.s.buffer.left >= 0
          /\ l + h.s.buffer.left = au + x.s.buffer.left
      <4>1. ~Sends(x.s.out) /\ Orders(Pipe(x.s, x.wire)) = {}
        BY <1>2, <1>6, <2>1
      <4>2. FileTransferAssumption /\ J \in SUBSET Int
        OBVIOUS
      <4> HIDE DEF FileTransferAssumption
      <4>3. /\ Sound(J, h.s, h.wire) /\ ChunkOnly(x.s, h.s) /\ Sends(h.s.out)
            /\ Orders(Pipe(h.s, h.wire)) = {} /\ h.s.buffer.left >= 0
            /\ l + h.s.buffer.left = Amount(Pipe(x.s, x.wire)) + x.s.buffer.left
        BY ONLY <1>2, <3>1, <3>2, <4>1, <4>2, ChunkSent
      <4> QED BY <1>2, <4>3
    <3>4. l \in Nat /\ h.s.buffer.left \in Int
      BY <3>3, AmountNat, SocketTyped DEF Sound
    <3>5. Agreed(h.s, s, l, ou, ad, od)
      <4> HIDE DEF au, ou, ad, od, l
      <4>1. x.s.state = "BUSY" /\ x.s.unpacker = Default
        BY <1>1, <1>4, <2>1
      <4>2. Balance(l, h.s.buffer.left, au, x.s.buffer.left)
        BY <1>1, <3>2, <3>3, <3>4 DEF Balance
      <4> QED BY ONLY <1>3, <3>2, <3>3, <4>1, <4>2, AgreeChunk
    <3>6. ~Stale(c, h.s) /\ h.s.state = c.state /\ h.s.file = c.file
      BY <1>4, <3>3 DEF ChunkOnly, Stale
    <3> QED BY <1>1, <2>1, <3>3, <3>5, <3>6 DEF Linked
  <2> QED BY <2>2, <2>3
<1> QED BY <1>5, <1>6

(* A read of either socket: an order with the default unpacker, ...          *)
Reading(s, w, n, bytes, rest, z) ==
    /\ n \in Readable(s, w) /\ bytes = SubSeq(w, 1, n) /\ rest = SubSeq(w, n + 1, Len(w))
    /\ z = parse_msg(s, bytes)

(* It takes the order that is ready, and hands it to handle_msg().           *)
LEMMA ReadsOrder ==
  ASSUME NEW J \in SUBSET Int, NEW s, NEW wire, NEW t, NEW w, Sound(J, s, wire), Sound(J, t, w),
         s.unpacker = Default, s.reading # "none", Amount(Pipe(t, w)) = 0,
         NEW n, NEW bytes, NEW rest, NEW z, Reading(s, w, n, bytes, rest, z)
  PROVE  /\ ~Misread(s, bytes) /\ Sound(J, z, wire) /\ Sound(J, t, rest) /\ Pipe(z, wire) = Pipe(s, wire)
         /\ Orders(Pipe(t, rest)) = {} /\ Amount(Pipe(t, rest)) = 0
         /\ \E m : Orders(Pipe(t, w)) = {m} /\ Taken(z) = {m}
         /\ z.state = s.state /\ z.file = s.file /\ z.unpacker = s.unpacker /\ z.buffer = s.buffer
         /\ z.out = s.out /\ z.got \notin {<<>>, <<Nothing>>}
<1>1. Split(w, n, bytes, rest)
  BY DEF Reading, Readable, Split
<1>2. /\ Sound(J, t, rest) /\ Orders(Pipe(t, rest)) = {} /\ Amount(Pipe(t, rest)) = 0
      /\ \E m \in Messages : IsOrder(J, m) /\ Orders(Pipe(t, w)) = {m} /\ bytes = <<m>>
  <2>1. Sound(J, t, w) /\ Amount(Pipe(t, w)) = 0 /\ J \in SUBSET Int
    OBVIOUS
  <2> QED BY ONLY <1>1, <2>1, OrderRead
<1>3. PICK m \in Messages : IsOrder(J, m) /\ Orders(Pipe(t, w)) = {m} /\ bytes = <<m>>
  BY <1>2
<1>4. /\ bytes \in Seq(Messages) /\ bytes # <<>> /\ bytes # <<Nothing>> /\ bytes[1] = m /\ Len(bytes) = 1
      /\ DOMAIN bytes = 1 .. 1
  <2>1. m.order # Empty
    BY <1>3 DEF IsOrder, Empty
  <2>2. m # Nothing
    BY <2>1 DEF Nothing, Msg
  <2>3. bytes \in Seq(Messages) /\ bytes[1] = m /\ Len(bytes) = 1 /\ DOMAIN bytes = 1 .. 1
    BY ONLY <1>3
  <2>4. bytes # <<>> /\ bytes # <<Nothing>>
    BY ONLY <1>3, <2>2
  <2> QED BY <2>3, <2>4
<1>5. ~Misread(s, bytes)
  <2>1. m.order # Content
    BY <1>3 DEF IsOrder, Content
  <2>2. \A k \in DOMAIN bytes : bytes[k].order # Content
    BY ONLY <1>4, <2>1
  <2> QED BY <2>2 DEF Misread
<1>6. z = [s EXCEPT !.reading = "none", !.got = bytes]
  BY DEF Reading, parse_msg
<1>7. s \in Sockets /\ s.file \in J \cup {None}
  BY DEF Sound
<1>8. z \in Sockets /\ z.got = bytes /\ z.reading = "none" /\ z.out = s.out
      /\ z.state = s.state /\ z.file = s.file /\ z.unpacker = s.unpacker /\ z.buffer = s.buffer
  BY <1>4, <1>6, <1>7 DEF Sockets
<1>9. GotOK(J, z) /\ Taken(z) = {m}
  BY <1>3, <1>4, <1>8 DEF GotOK, OfOrder, Taken
<1>10. Sound(J, z, wire) /\ Pipe(z, wire) = Pipe(s, wire)
  BY <1>7, <1>8, <1>9, Resound
<1> QED BY <1>2, <1>3, <1>4, <1>5, <1>8, <1>9, <1>10

(* ... content with another.                                                 *)
LEMMA ReadsContent ==
  ASSUME NEW J \in SUBSET Int, NEW s, NEW wire, NEW t, NEW w, Sound(J, s, wire), Sound(J, t, w),
         s.unpacker # Default, s.reading # "none",
         NEW n, n <= Amount(Pipe(t, w)), NEW bytes, NEW rest, NEW z, Reading(s, w, n, bytes, rest, z)
  PROVE  /\ ~Misread(s, bytes) /\ Sound(J, z, wire) /\ Sound(J, t, rest) /\ Pipe(z, wire) = Pipe(s, wire)
         /\ Orders(Pipe(t, rest)) = Orders(Pipe(t, w)) /\ Amount(Pipe(t, rest)) = Amount(Pipe(t, w)) - n
         /\ z.state = s.state /\ z.file = s.file /\ z.buffer = s.buffer
         /\ z.out = s.out /\ z.got = <<Nothing>>
         /\ z.unpacker.left = s.unpacker.left - n /\ z.unpacker.job = s.unpacker.job
<1>1. Split(w, n, bytes, rest) /\ n \in Nat
  <2>1. Len(w) \in Nat
    BY LenProperties DEF Sound
  <2> QED BY <2>1 DEF Reading, Readable, Split
<1>2. /\ Sound(J, t, rest) /\ Orders(Pipe(t, rest)) = Orders(Pipe(t, w))
      /\ Amount(Pipe(t, rest)) = Amount(Pipe(t, w)) - n
      /\ Len(bytes) = n /\ \A k \in DOMAIN bytes : bytes[k].order = Content
  <2>1. Sound(J, t, w) /\ n <= Amount(Pipe(t, w)) /\ J \in SUBSET Int
    OBVIOUS
  <2> QED BY ONLY <1>1, <2>1, ContentRead
<1>3. ~Misread(s, bytes)
  BY <1>2 DEF Misread
<1> DEFINE v == Rest(s.unpacker.job, s.unpacker.pos + n, s.unpacker.left - n)
<1>4. z = [s EXCEPT !.reading = "none", !.got = <<Nothing>>, !.unpacker = v]
  BY <1>2 DEF Reading, parse_msg, Nothing
<1>5. s \in Sockets /\ s.file \in J \cup {None} /\ s.unpacker \in [job : Int, pos : Int, left : Int]
  BY DEF Sound, Sockets
<1>6. v \in [job : Int, pos : Int, left : Int] /\ v.left = s.unpacker.left - n /\ v.job = s.unpacker.job
  BY <1>1, <1>5 DEF Rest
<1> HIDE DEF v
<1>7. <<Nothing>> \in Seq(Messages) /\ <<Nothing>> # <<>>
  BY DEF Nothing, Msg, Messages, Empty
<1>8. z \in Sockets /\ z.got = <<Nothing>> /\ z.reading = "none" /\ z.out = s.out
      /\ z.state = s.state /\ z.file = s.file /\ z.unpacker = v /\ z.buffer = s.buffer
  BY <1>4, <1>5, <1>6, <1>7 DEF Sockets
<1>9. GotOK(J, z)
  BY <1>7, <1>8 DEF GotOK
<1>10. Sound(J, z, wire) /\ Pipe(z, wire) = Pipe(s, wire)
  BY <1>5, <1>8, <1>9, Resound
<1> QED BY <1>2, <1>3, <1>6, <1>8, <1>10

(* The client reads.                                                         *)
LEMMA ClientRecvKeeps ==
  ASSUME FileTransferAssumption,
         NEW J \in SUBSET Int, NEW c, NEW s, NEW u, NEW d, Linked(J, c, s, u, d),
         c.reading # "none", NEW n, NEW bytes, NEW rest, NEW z, Reading(c, d, n, bytes, rest, z)
  PROVE  Linked(J, z, s, u, rest) /\ ~Misread(c, bytes) /\ z.state = c.state /\ z.file = c.file
<1> DEFINE au == Amount(Pipe(c, u))
           ou == Orders(Pipe(c, u))
           ad == Amount(Pipe(s, d))
           od == Orders(Pipe(s, d))
           l == Amount(Pipe(s, rest))
<1>1. /\ Sound(J, c, u) /\ Sound(J, s, d) /\ Agreed(c, s, au, ou, ad, od) /\ ad \in Nat
      /\ c.unpacker.left \in Int /\ s.buffer.left \in Int
  BY LinkTyped DEF Linked
<1>0. J \in SUBSET Int /\ c.reading # "none" /\ Reading(c, d, n, bytes, rest, z)
  OBVIOUS
<1>2. CASE c.unpacker = Default
  <2>1. ad = 0
    BY <1>1, <1>2 DEF Agreed, Gets
  <2>2. /\ ~Misread(c, bytes) /\ Sound(J, z, u) /\ Sound(J, s, rest) /\ Pipe(z, u) = Pipe(c, u)
        /\ Orders(Pipe(s, rest)) = {} /\ l = 0
        /\ \E m : od = {m} /\ Taken(z) = {m}
        /\ z.state = c.state /\ z.file = c.file /\ z.unpacker = c.unpacker /\ z.buffer = c.buffer
        /\ z.out = c.out /\ z.got \notin {<<>>, <<Nothing>>}
    BY ONLY <1>0, <1>1, <1>2, <2>1, ReadsOrder
  <2>3. Agreed(z, s, au, ou, ad, {})
    <3> HIDE DEF au, ou, ad, od, l
    <3>1. z.got # <<Nothing>>
      BY <2>2
    <3> QED BY ONLY <1>1, <1>2, <2>2, <3>1, AgreeTold
  <2>4. Agreed(z, s, Amount(Pipe(z, u)), Orders(Pipe(z, u)), l, Orders(Pipe(s, rest)))
    BY <2>1, <2>2, <2>3
  <2> QED BY <1>1, <2>2, <2>4 DEF Linked
<1>3. CASE c.unpacker # Default
  <2>1. od = {}
    BY <1>1, <1>3 DEF Agreed, Shape, Asks
  <2>2. n \in Nat /\ n > 0 /\ n <= ad /\ n <= c.unpacker.left
    <3>1. n \in 1 .. Len(d) /\ n = Least(c.unpacker.left, MaxTransfer) /\ Len(d) \in Nat
      BY <1>1, <1>3, LenProperties DEF Reading, Readable, Sound
    <3>2. n <= c.unpacker.left
      BY <1>1, <3>1 DEF Least, FileTransferAssumption
    <3>3. ad = Len(Pipe(s, d))
      BY <2>1 DEF Orders, Amount
    <3>4. Len(d) <= Len(Pipe(s, d))
      BY <1>1, PipeLen
    <3> HIDE DEF ad
    <3> QED BY <1>1, <3>1, <3>2, <3>3, <3>4
  <2>3. /\ ~Misread(c, bytes) /\ Sound(J, z, u) /\ Sound(J, s, rest) /\ Pipe(z, u) = Pipe(c, u)
        /\ Orders(Pipe(s, rest)) = od /\ l = ad - n
        /\ z.state = c.state /\ z.file = c.file /\ z.buffer = c.buffer
        /\ z.out = c.out /\ z.got = <<Nothing>>
        /\ z.unpacker.left = c.unpacker.left - n /\ z.unpacker.job = c.unpacker.job
    BY ONLY <1>0, <1>1, <1>3, <2>2, ReadsContent
  <2>4. Agreed(z, s, au, ou, l, od)
    <3> HIDE DEF au, ou, ad, od, l
    <3> QED BY ONLY <1>1, <1>3, <2>2, <2>3, AgreeGot
  <2> QED BY <1>1, <2>3, <2>4 DEF Linked
<1> QED BY <1>2, <1>3

-----------------------------------------------------------------------------
(* The steps of the server's socket.                                         *)
LEMMA ServerRecvKeeps ==
  ASSUME FileTransferAssumption,
         NEW J \in SUBSET Int, NEW c, NEW s, NEW u, NEW d, Linked(J, c, s, u, d),
         s.reading # "none", NEW n, NEW bytes, NEW rest, NEW z, Reading(s, u, n, bytes, rest, z)
  PROVE  Linked(J, c, z, rest, d) /\ ~Misread(s, bytes)
<1> DEFINE au == Amount(Pipe(c, u))
           ou == Orders(Pipe(c, u))
           ad == Amount(Pipe(s, d))
           od == Orders(Pipe(s, d))
           l == Amount(Pipe(c, rest))
<1>1. /\ Sound(J, c, u) /\ Sound(J, s, d) /\ Agreed(c, s, au, ou, ad, od) /\ au \in Nat
      /\ s.unpacker.left \in Int /\ c.buffer.left \in Int /\ c.state \in {"IDLE", "PREPARE", "BUSY"}
  BY LinkTyped DEF Linked
<1>0. J \in SUBSET Int /\ s.reading # "none" /\ Reading(s, u, n, bytes, rest, z)
  OBVIOUS
<1>2. CASE s.unpacker = Default
  <2>1. au = 0
    BY <1>1, <1>2 DEF Agreed, Puts
  <2>2. /\ ~Misread(s, bytes) /\ Sound(J, z, d) /\ Sound(J, c, rest) /\ Pipe(z, d) = Pipe(s, d)
        /\ Orders(Pipe(c, rest)) = {} /\ l = 0
        /\ \E m : ou = {m} /\ Taken(z) = {m}
        /\ z.state = s.state /\ z.file = s.file /\ z.unpacker = s.unpacker /\ z.buffer = s.buffer
        /\ z.out = s.out /\ z.got \notin {<<>>, <<Nothing>>}
    BY ONLY <1>0, <1>1, <1>2, <2>1, ReadsOrder
  <2>3. Agreed(c, z, au, {}, ad, od)
    <3> HIDE DEF au, ou, ad, od, l
    <3> QED BY ONLY <1>1, <1>2, <2>2, AgreeAsked
  <2>4. Agreed(c, z, l, Orders(Pipe(c, rest)), Amount(Pipe(z, d)), Orders(Pipe(z, d)))
    BY <2>1, <2>2, <2>3
  <2> QED BY <1>1, <2>2, <2>4 DEF Linked
<1>3. CASE s.unpacker # Default
  <2>2. n \in Nat /\ n > 0 /\ n <= s.unpacker.left /\ (ou = {} => n <= au)
    <3>1. n \in 1 .. Len(u) /\ n = Least(s.unpacker.left, MaxTransfer) /\ Len(u) \in Nat
      BY <1>1, <1>3, LenProperties DEF Reading, Readable, Sound
    <3>2. n <= s.unpacker.left
      BY <1>1, <3>1 DEF Least, FileTransferAssumption
    <3>3. ou = {} => au = Len(Pipe(c, u))
      BY DEF Orders, Amount
    <3>4. Len(u) <= Len(Pipe(c, u))
      BY <1>1, PipeLen
    <3> HIDE DEF au, ou
    <3> QED BY <1>1, <3>1, <3>2, <3>3, <3>4
  <2>3. n <= au /\ \A m \in od \cup Taken(c) : ~Granted(m)
    <3> HIDE DEF au, ou, ad, od, l
    <3> QED BY ONLY <1>1, <1>3, <2>2, AgreeSafeRead
  <2>4. /\ ~Misread(s, bytes) /\ Sound(J, z, d) /\ Sound(J, c, rest) /\ Pipe(z, d) = Pipe(s, d)
        /\ Orders(Pipe(c, rest)) = ou /\ l = au - n
        /\ z.state = s.state /\ z.file = s.file /\ z.buffer = s.buffer
        /\ z.out = s.out /\ z.got = <<Nothing>>
        /\ z.unpacker.left = s.unpacker.left - n /\ z.unpacker.job = s.unpacker.job
    BY ONLY <1>0, <1>1, <1>3, <2>3, ReadsContent
  <2>5. Agreed(c, z, l, ou, ad, od)
    <3> HIDE DEF au, ou, ad, od, l
    <3> QED BY ONLY <1>1, <1>3, <2>2, <2>3, <2>4, AgreePutGot
  <2> QED BY <1>1, <2>4, <2>5 DEF Linked
<1> QED BY <1>2, <1>3

(* Orders 0, 10 and 11 are answered with one of the same kind.               *)
LEMMA ServerAnswers ==
  ASSUME NEW J \in SUBSET Int, NEW c, NEW s, NEW u, NEW d, Linked(J, c, s, u, d),
         s.got # <<>>, s.out = <<>>, NEW k, k = Head(s.got), k.order \in {0, 10, 11},
         NEW t \in Sockets, t.file \in J \cup {None}, t.buffer = s.buffer, t.out = s.out,
         t.got = s.got, t.reading = s.reading,
         NEW a \in Messages, IsOrder(J, a), a.order = k.order,
         \/ t.unpacker = Default /\ ~Granted(a)
         \/ /\ t.unpacker # Default /\ t.unpacker.job # None /\ t.unpacker.left = k.len
            /\ t.state = "BUSY" /\ a.order = 11 /\ a.pos = k.len /\ a.len = 0,
         NEW b, b = <<a>>, NEW r, r = Send(t, d, b), NEW z, z = Popped(r.s)
  PROVE  Linked(J, c, z, u, r.wire) /\ ~Stale(s, r.s)
<1> DEFINE au == Amount(Pipe(c, u))
           ou == Orders(Pipe(c, u))
           ad == Amount(Pipe(s, d))
           od == Orders(Pipe(s, d))
<1>1. /\ Sound(J, c, u) /\ Sound(J, s, d) /\ Agreed(c, s, au, ou, ad, od) /\ GotOK(J, s)
  BY LinkTyped DEF Linked
<1>2. k \in Messages /\ Taken(s) = {k} /\ k.len \in Int
  <2>1. k.order # Empty
    BY DEF Empty
  <2>2. k # Nothing
    BY <2>1 DEF Nothing, Msg
  <2>3. k \in Messages /\ Taken(s) = {k}
    BY <1>1, <2>2, Handled
  <2> QED BY <2>3 DEF Messages
<1>3. ou = {} /\ od = {} /\ Taken(c) = {} /\ ~Sends(t.out)
  BY <1>1, <1>2 DEF Agreed, OneOrder, Sends
<1>4. Sound(J, t, d) /\ Pipe(t, d) = Pipe(s, d)
  <2>1. GotOK(J, t) /\ t \in Sockets /\ t.file \in J \cup {None} /\ t.out = s.out
    BY <1>1 DEF GotOK
  <2> QED BY ONLY <1>1, <2>1, Resound
<1>5. /\ Sound(J, r.s, r.wire) /\ OutOnly(t, r.s) /\ ~Sends(r.s.out)
      /\ Orders(Pipe(r.s, r.wire)) = {a} /\ Amount(Pipe(r.s, r.wire)) = ad
  <2>1. a \in Messages /\ IsOrder(J, a) /\ b = <<a>> /\ r = Send(t, d, b) /\ J \in SUBSET Int
        /\ Orders(Pipe(t, d)) = {}
    BY <1>3, <1>4
  <2>2. /\ Sound(J, r.s, r.wire) /\ OutOnly(t, r.s) /\ ~Sends(r.s.out)
        /\ Orders(Pipe(r.s, r.wire)) = {a} /\ Amount(Pipe(r.s, r.wire)) = Amount(Pipe(t, d))
    BY ONLY <1>3, <1>4, <2>1, OrderSent
  <2> QED BY <1>4, <2>2
<1>6. Sound(J, z, r.wire) /\ PopOnly(r.s, z) /\ Pipe(z, r.wire) = Pipe(r.s, r.wire)
  <2>1. r.s.got # <<>> /\ z = Popped(r.s)
    BY <1>5 DEF OutOnly
  <2> QED BY ONLY <1>5, <2>1, PopSound
<1>7. /\ z.state = t.state /\ z.unpacker = t.unpacker /\ z.buffer = s.buffer /\ z.got = <<>> /\ ~Sends(z.out)
  BY <1>5, <1>6 DEF PopOnly, OutOnly
<1>8. Agreed(c, z, au, {}, ad, {a})
  <2> HIDE DEF au, ou, ad, od
  <2>0. k.order \in {0, 10, 11} /\ a.order = k.order
    OBVIOUS
  <2>1. CASE t.unpacker = Default /\ ~Granted(a)
    <3>1. z.unpacker = Default
      BY <1>7, <2>1
    <3> QED BY ONLY <1>1, <1>2, <1>7, <2>0, <2>1, <3>1, AgreeAnswer
  <2>2. CASE /\ t.unpacker # Default /\ t.unpacker.job # None /\ t.unpacker.left = k.len
             /\ t.state = "BUSY" /\ a.order = 11 /\ a.pos = k.len /\ a.len = 0
    <3>1. z.unpacker # Default /\ z.unpacker.job # None /\ z.unpacker.left = k.len /\ z.state = "BUSY"
          /\ k.order = 11
      BY <1>7, <2>0, <2>2
    <3> QED BY ONLY <1>1, <1>2, <1>7, <2>2, <3>1, AgreeGrant
  <2> QED BY <2>1, <2>2
<1>9. Agreed(c, z, au, ou, Amount(Pipe(z, r.wire)), Orders(Pipe(z, r.wire)))
  BY <1>3, <1>5, <1>6, <1>8
<1>10. ~Stale(s, r.s)
  BY <1>5 DEF OutOnly, Stale
<1> QED BY <1>1, <1>6, <1>9, <1>10 DEF Linked

Serves(s, m, t) == t = [s EXCEPT !.state = "BUSY", !.buffer = Rest(s.file, m.pos, m.len)]

(* Order 1 is answered with the first chunk.                                 *)
LEMMA ServerServes ==
  ASSUME FileTransferAssumption,
         NEW J \in SUBSET Int, NEW c, NEW s, NEW u, NEW d, Linked(J, c, s, u, d),
         s.got # <<>>, s.state = "PREPARE", NEW m, m = Head(s.got), m.order = 1, m.len > 0,
         NEW t, Serves(s, m, t),
         NEW r, r = SendChunk(t, d), NEW z, z = Popped(r.s)
  PROVE  Linked(J, c, z, u, r.wire) /\ ~Stale(s, r.s)
<1> DEFINE au == Amount(Pipe(c, u))
           ou == Orders(Pipe(c, u))
           ad == Amount(Pipe(s, d))
           od == Orders(Pipe(s, d))
           v == Rest(s.file, m.pos, m.len)
           l == Amount(Pipe(r.s, r.wire))
<1>1. /\ Sound(J, c, u) /\ Sound(J, s, d) /\ Agreed(c, s, au, ou, ad, od) /\ GotOK(J, s) /\ s \in Sockets
      /\ s.file \in J \cup {None} /\ s.file \in Int /\ ad \in Nat
      /\ c.unpacker.left \in Int /\ c.state \in {"IDLE", "PREPARE", "BUSY"}
  BY LinkTyped, SocketTyped DEF Linked, Sound
<1>2. m \in Messages /\ Taken(s) = {m} /\ m.pos \in Int /\ m.len \in Int
  <2>1. m.order # Empty
    BY DEF Empty
  <2>2. m # Nothing
    BY <2>1 DEF Nothing, Msg
  <2>3. m \in Messages /\ Taken(s) = {m}
    BY <1>1, <2>2, Handled
  <2> QED BY <2>3 DEF Messages
<1>3. ou = {} /\ od = {} /\ ~Sends(s.out)
  BY <1>1, <1>2 DEF Agreed, OneOrder, Shape
<1>4. v \in [job : Int, pos : Int, left : Int] /\ v.left = m.len
  BY <1>1, <1>2 DEF Rest
<1> HIDE DEF v
<1>5. /\ t \in Sockets /\ t.state = "BUSY" /\ t.file = s.file /\ t.unpacker = s.unpacker /\ t.buffer = v
      /\ t.out = s.out /\ t.got = s.got /\ t.reading = s.reading
  <2>1. t = [s EXCEPT !.state = "BUSY", !.buffer = v]
    BY DEF Serves, v
  <2> QED BY <1>1, <1>4, <2>1 DEF Sockets
<1>6. Sound(J, t, d) /\ Pipe(t, d) = Pipe(s, d)
  <2>1. GotOK(J, t) /\ t.file \in J \cup {None}
    BY <1>1, <1>5 DEF GotOK
  <2> QED BY ONLY <1>1, <1>5, <2>1, Resound
<1>7. /\ Sound(J, r.s, r.wire) /\ ChunkOnly(t, r.s) /\ Sends(r.s.out)
      /\ Orders(Pipe(r.s, r.wire)) = {} /\ r.s.buffer.left >= 0
      /\ l + r.s.buffer.left = ad + m.len
  <2>1. ~Sends(t.out) /\ Orders(Pipe(t, d)) = {} /\ t.buffer.left = m.len /\ t.buffer.left > 0
        /\ Amount(Pipe(t, d)) = ad
    BY <1>3, <1>4, <1>5, <1>6
  <2>2. /\ Sound(J, r.s, r.wire) /\ ChunkOnly(t, r.s) /\ Sends(r.s.out)
        /\ Orders(Pipe(r.s, r.wire)) = {} /\ r.s.buffer.left >= 0
        /\ l + r.s.buffer.left = Amount(Pipe(t, d)) + t.buffer.left
    <3>1. FileTransferAssumption /\ J \in SUBSET Int /\ r = SendChunk(t, d)
      OBVIOUS
    <3> HIDE DEF FileTransferAssumption
    <3> QED BY ONLY <1>6, <2>1, <3>1, ChunkSent
  <2> QED BY <2>1, <2>2
<1>8. l \in Nat /\ r.s.buffer.left \in Int
  BY <1>7, AmountNat, SocketTyped DEF Sound
<1>9. Sound(J, z, r.wire) /\ PopOnly(r.s, z) /\ Pipe(z, r.wire) = Pipe(r.s, r.wire)
  <2>1. r.s.got # <<>> /\ z = Popped(r.s)
    BY <1>5, <1>7 DEF ChunkOnly
  <2> QED BY ONLY <1>7, <2>1, PopSound
<1>10. z.state = "BUSY" /\ z.unpacker = s.unpacker /\ z.got = <<>> /\ z.buffer = r.s.buffer
  BY <1>5, <1>7, <1>9 DEF PopOnly, ChunkOnly
<1>11. Agreed(c, z, au, {}, l, {})
  <2> HIDE DEF au, ou, ad, od, l
  <2>1. z.buffer.left = r.s.buffer.left /\ ad \in Nat /\ m.len \in Int
    BY <1>1, <1>2, <1>10
  <2>2. Balance(l, z.buffer.left, ad, m.len)
    BY ONLY <1>7, <1>8, <2>1 DEF Balance
  <2>3. m.order = 1
    OBVIOUS
  <2> QED BY ONLY <1>1, <1>2, <1>10, <2>2, <2>3, AgreeServe
<1>12. ~Stale(s, r.s)
  BY <1>5, <1>7 DEF ChunkOnly, Stale
<1> QED BY <1>1, <1>3, <1>7, <1>9, <1>10, <1>11, <1>12 DEF Linked

(* A message is dropped, or a transfer ends.                                 *)
LEMMA ServerDrops ==
  ASSUME NEW J \in SUBSET Int, NEW c, NEW s, NEW u, NEW d, Linked(J, c, s, u, d),
         s.got # <<>>, NEW t,
         t = s \/ (Reset(s, t) /\ (s.unpacker = Default \/ s.unpacker.left = 0)),
         NEW z, z = Popped(t)
  PROVE  Linked(J, c, z, u, d) /\ ~Stale(s, t)
<1> DEFINE au == Amount(Pipe(c, u))
           ou == Orders(Pipe(c, u))
           ad == Amount(Pipe(s, d))
           od == Orders(Pipe(s, d))
<1>1. /\ Sound(J, c, u) /\ Sound(J, s, d) /\ Agreed(c, s, au, ou, ad, od) /\ au \in Nat
      /\ c.buffer.left \in Int /\ \A m \in od \cup Taken(c) : m.pos \in Int
  BY LinkTyped DEF Linked, Messages
<1>2. /\ Sound(J, t, d) /\ Pipe(t, d) = Pipe(s, d) /\ t.buffer = s.buffer /\ t.out = s.out /\ t.got # <<>>
      /\ t.reading = s.reading /\ (t.state = "PREPARE" => s.state = "PREPARE")
      /\ \/ t.unpacker = s.unpacker
         \/ t.unpacker = Default /\ (s.unpacker.left = 0 \/ s.unpacker = Default)
  <2>1. CASE t = s
    BY <1>1, <2>1
  <2>2. CASE Reset(s, t) /\ (s.unpacker = Default \/ s.unpacker.left = 0)
    <3>1. /\ Sound(J, t, d) /\ Pipe(t, d) = Pipe(s, d) /\ EndOnly(s, t, Default)
      <4>1. s.got # <<>>
        OBVIOUS
      <4> QED BY ONLY <1>1, <2>2, <4>1, ResetSound
    <3> QED BY <2>2, <3>1 DEF EndOnly
  <2> QED BY <2>1, <2>2
<1>3. Sound(J, z, d) /\ PopOnly(t, z) /\ Pipe(z, d) = Pipe(s, d)
  BY <1>2, PopSound
<1>4. Agreed(c, z, au, ou, ad, od)
  <2> HIDE DEF au, ou, ad, od
  <2>1. /\ z.buffer = s.buffer /\ z.out = s.out /\ z.got = <<>> /\ (z.state = "PREPARE" => s.state = "PREPARE")
        /\ \/ z.unpacker = s.unpacker
           \/ z.unpacker = Default /\ (s.unpacker.left = 0 \/ s.unpacker = Default)
    BY <1>2, <1>3 DEF PopOnly
  <2> QED BY ONLY <1>1, <2>1, AgreeDrop
<1>5. ~Stale(s, t)
  BY <1>2 DEF Stale
<1> QED BY <1>1, <1>3, <1>4, <1>5 DEF Linked

(* A write of the server has completed.                                      *)
LEMMA ServerSentKeeps ==
  ASSUME FileTransferAssumption,
         NEW J \in SUBSET Int, NEW c, NEW s, NEW u, NEW d, Linked(J, c, s, u, d),
         s.out # <<>>, NEW h, h = OnMsgSend(s, d)
  PROVE  Linked(J, c, h.s, u, h.wire) /\ ~Stale(s, h.s)
<1> DEFINE au == Amount(Pipe(c, u))
           ou == Orders(Pipe(c, u))
           ad == Amount(Pipe(s, d))
           od == Orders(Pipe(s, d))
           x == Completed(s, d)
<1>1. /\ Sound(J, c, u) /\ Sound(J, s, d) /\ Agreed(c, s, au, ou, ad, od)
      /\ ad \in Nat /\ s.buffer.left \in Int /\ c.unpacker.left \in Int /\ c.state \in {"IDLE", "PREPARE", "BUSY"}
  BY LinkTyped DEF Linked
<1>2. /\ Sound(J, x.s, x.wire) /\ OutOnly(s, x.s) /\ Pipe(x.s, x.wire) = Pipe(s, d)
      /\ Head(s.out)[1].order = Content => Sends(s.out) /\ ~Sends(x.s.out)
      /\ Head(s.out)[1].order # Content => (Sends(x.s.out) <=> Sends(s.out))
  BY <1>1, Flushed
<1> HIDE DEF x
<1>3. Agreed(c, x.s, au, ou, ad, od)
  <2> HIDE DEF au, ou, ad, od
  <2> QED BY <1>1, <1>2, AgreeServed
<1>4. ~Stale(s, x.s) /\ x.s.state = s.state /\ x.s.buffer = s.buffer
      /\ x.s.unpacker = s.unpacker /\ x.s.got = s.got /\ x.s.reading = s.reading
  BY <1>2 DEF OutOnly, Stale
<1>5. CASE Head(s.out)[1].order # Content
  <2>1. h = x
    BY <1>5 DEF OnMsgSend, x
  <2> QED BY <1>1, <1>2, <1>3, <1>4, <2>1 DEF Linked
<1>6. CASE Head(s.out)[1].order = Content
  <2>2. CASE s.buffer.left = 0
    <3> DEFINE t == trans_end(x.s, FALSE)
    <3>1. h.s = t /\ h.wire = x.wire
      BY <1>6, <2>2 DEF OnMsgSend, x
    <3>2. Sound(J, t, x.wire) /\ Pipe(t, x.wire) = Pipe(x.s, x.wire) /\ EndOnly(x.s, t, x.s.unpacker)
      <4>1. Idled(x.s, t)
        BY DEF trans_end, Idled
      <4> HIDE DEF t
      <4> QED BY ONLY <1>2, <4>1, IdleSound
    <3> HIDE DEF t
    <3>4. Agreed(c, t, au, ou, ad, od)
      <4> HIDE DEF au, ou, ad, od
      <4>1. t.out = x.s.out
        BY <3>2 DEF EndOnly
      <4> QED BY ONLY <1>3, <3>2, <4>1, AgreeServed
    <3>5. ~Stale(s, t)
      BY <1>4, <3>2 DEF EndOnly, Stale
    <3> QED BY <1>1, <1>2, <3>1, <3>2, <3>4, <3>5 DEF Linked
  <2>3. CASE s.buffer.left # 0
    <3>1. h = SendChunk(x.s, x.wire)
      BY <1>6, <2>3 DEF OnMsgSend, x
    <3>2. x.s.buffer.left > 0 /\ x.s.buffer.left \in Int /\ s.state # "PREPARE"
      BY <1>1, <1>2, <1>4, <1>6, <2>3 DEF Agreed, Shape
    <3>0. od = {}
      <4>1. c.unpacker # Default
        BY <1>1, <2>3 DEF Agreed, Gets
      <4>2. c.state = "BUSY"
        BY <1>1, <4>1 DEF Agreed, Shape
      <4> QED BY <1>1, <4>2 DEF Agreed, Asks
    <3> DEFINE l == Amount(Pipe(h.s, h.wire))
    <3>3. /\ Sound(J, h.s, h.wire) /\ ChunkOnly(x.s, h.s) /\ Sends(h.s.out)
          /\ Orders(Pipe(h.s, h.wire)) = {} /\ h.s.buffer.left >= 0
          /\ l + h.s.buffer.left = ad + x.s.buffer.left
      <4>1. ~Sends(x.s.out) /\ Orders(Pipe(x.s, x.wire)) = {}
        BY <1>2, <1>6, <3>0
      <4>2. FileTransferAssumption /\ J \in SUBSET Int
        OBVIOUS
      <4> HIDE DEF FileTransferAssumption
      <4>3. /\ Sound(J, h.s, h.wire) /\ ChunkOnly(x.s, h.s) /\ Sends(h.s.out)
            /\ Orders(Pipe(h.s, h.wire)) = {} /\ h.s.buffer.left >= 0
            /\ l + h.s.buffer.left = Amount(Pipe(x.s, x.wire)) + x.s.buffer.left
        BY ONLY <1>2, <3>1, <3>2, <4>1, <4>2, ChunkSent
      <4> QED BY <1>2, <4>3
    <3>4. l \in Nat /\ h.s.buffer.left \in Int
      BY <3>3, AmountNat, SocketTyped DEF Sound
    <3>5. Agreed(c, h.s, au, ou, l, od)
      <4> HIDE DEF au, ou, ad, od, l
      <4>1. x.s.state # "PREPARE"
        BY <1>4, <3>2
      <4>2. Balance(l, h.s.buffer.left, ad, x.s.buffer.left)
        BY <1>1, <3>2, <3>3, <3>4 DEF Balance
      <4> QED BY ONLY <1>1, <1>3, <3>2, <3>3, <4>1, <4>2, AgreeServedChunk
    <3>6. ~Stale(s, h.s)
      BY <1>4, <3>3 DEF ChunkOnly, Stale
    <3> QED BY <1>1, <3>0, <3>3, <3>5, <3>6 DEF Linked
  <2> QED BY <2>2, <2>3
<1> QED BY <1>5, <1>6

-----------------------------------------------------------------------------
(* The inductive invariant.                                                  *)
Arrays ==
    /\ client \in [Links -> Sockets] /\ server \in [Links -> Sockets]
    /\ up \in [Links -> Seq(Messages)] /\ down \in [Links -> Seq(Messages)]

Chosen == jobs \in JobLists /\ file_list \in Seq(Jobs) /\ typed \in Nat

AllLinked == \A k \in Links : Linked(Jobs, client[k], server[k], up[k], down[k])

(* All is quiet where a transmission may start; one that truncates starts    *)
(* with the first link alone.                                                *)
Calm ==
    /\ ~timer /\ handler # "wait" => is_end
    /\ mutex # "free" => ~timer /\ handler # "wait" /\ file_list # <<>>
Alone(i) == i = 0 /\ \A k \in Links \ {i} : is_idle(k)
Truncates(s) == s.state = "PREPARE" /\ s.file = None
OneTruncates == \A i \in Links : Truncates(client[i]) => Alone(i)

Inv ==
    /\ Chosen /\ Arrays /\ AllLinked /\ Calm /\ OneTruncates
    /\ ~mixed /\ ~swapped /\ ~overrun

(* Jobs are numbered from 1, and the lengths of files are known.             *)
LEMMA JobsTyped ==
  ASSUME FileTransferAssumption, Chosen
  PROVE  Jobs \in SUBSET (Nat \ {0}) /\ Jobs \in SUBSET Int /\ \A j \in Jobs : jobs[j].len \in Nat
<1>1. jobs \in Seq([type : {"get", "put"}, len : Nat])
  BY DEF Chosen, FileTransferAssumption
<1>2. Jobs = 1 .. Len(jobs) /\ Len(jobs) \in Nat /\ \A j \in 1 .. Len(jobs) : jobs[j] \in [type : {"get", "put"}, len : Nat]
  BY <1>1, LenProperties DEF Jobs
<1> QED BY <1>2

(* One link changes.                                                         *)
LEMMA OneLink ==
  ASSUME Arrays, AllLinked, jobs' = jobs, NEW i \in Links, NEW cz, NEW sz, NEW uw, NEW dw,
         client' = [client EXCEPT ![i] = cz], server' = [server EXCEPT ![i] = sz],
         up' = [up EXCEPT ![i] = uw], down' = [down EXCEPT ![i] = dw],
         Linked(Jobs, cz, sz, uw, dw)
  PROVE  /\ Arrays' /\ AllLinked'
         /\ client'[i] = cz /\ \A k \in Links \ {i} : client'[k] = client[k]
<1>1. cz \in Sockets /\ sz \in Sockets /\ uw \in Seq(Messages) /\ dw \in Seq(Messages)
  BY DEF Linked, Sound
<1>2. Arrays'
  BY <1>1 DEF Arrays
<1>3. client'[i] = cz /\ server'[i] = sz /\ up'[i] = uw /\ down'[i] = dw
  BY DEF Arrays
<1>4. ASSUME NEW k \in Links, k # i
      PROVE  client'[k] = client[k] /\ server'[k] = server[k] /\ up'[k] = up[k] /\ down'[k] = down[k]
  BY <1>4 DEF Arrays
<1>5. Jobs' = Jobs
  BY DEF Jobs
<1>6. AllLinked'
  <2> SUFFICES ASSUME NEW k \in Links
               PROVE  Linked(Jobs', client'[k], server'[k], up'[k], down'[k])
    BY DEF AllLinked
  <2>1. CASE k = i
    BY <1>3, <1>5, <2>1
  <2>2. CASE k # i
    BY <1>4, <1>5, <2>2 DEF AllLinked
  <2> QED BY <2>1, <2>2
<1> QED BY <1>2, <1>3, <1>4, <1>6

(* The client handles a message on one link.                                 *)
LEMMA Becomes ==
  ASSUME Arrays, AllLinked, ~swapped, jobs' = jobs, server' = server, down' = down,
         NEW i \in Links, NEW h, ClientBecomes(i, h),
         Linked(Jobs, Popped(h.s), server[i], h.wire, down[i]), ~Stale(client[i], h.s)
  PROVE  /\ Arrays' /\ AllLinked' /\ ~swapped'
         /\ client'[i] = Popped(h.s) /\ \A k \in Links \ {i} : client'[k] = client[k]
<1>1. client' = [client EXCEPT ![i] = Popped(h.s)] /\ up' = [up EXCEPT ![i] = h.wire]
  BY DEF ClientBecomes
<1>2. server' = [server EXCEPT ![i] = server[i]] /\ down' = [down EXCEPT ![i] = down[i]]
  BY DEF Arrays
<1>3. ~swapped'
  BY DEF ClientBecomes
<1>4. /\ Linked(Jobs, Popped(h.s), server[i], h.wire, down[i]) /\ Arrays /\ AllLinked /\ jobs' = jobs
      /\ i \in Links
  OBVIOUS
<1>5. /\ Arrays' /\ AllLinked'
      /\ client'[i] = Popped(h.s) /\ \A k \in Links \ {i} : client'[k] = client[k]
  BY ONLY <1>1, <1>2, <1>4, OneLink
<1> QED BY <1>3, <1>5

(* A socket that has something to handle is not idle.                        *)
LEMMA NotIdle ==
  ASSUME NEW J, NEW c, NEW s, NEW u, NEW d, Linked(J, c, s, u, d), c.got # <<>>
  PROVE  /\ c.state \in {"PREPARE", "BUSY"}
         /\ c.state = "PREPARE" =>
                /\ Head(c.got) \in Messages /\ IsOrder(J, Head(c.got)) /\ Taken(c) = {Head(c.got)}
                /\ c.unpacker = Default /\ Head(c.got).order # 1
                /\ (Head(c.got).order = 10 <=> c.file = None)
         /\ c.state = "BUSY" => Head(c.got) = Nothing
<1> DEFINE au == Amount(Pipe(c, u))
           ou == Orders(Pipe(c, u))
           ad == Amount(Pipe(s, d))
           od == Orders(Pipe(s, d))
           m == Head(c.got)
<1>1. Agreed(c, s, au, ou, ad, od) /\ GotOK(J, c) /\ c.state \in {"IDLE", "PREPARE", "BUSY"}
  BY LinkTyped DEF Linked
<1>2. \/ m = Nothing /\ c.got = <<Nothing>> /\ Taken(c) = {}
      \/ m \in Messages /\ IsOrder(J, m) /\ Taken(c) = {m} /\ c.got # <<Nothing>>
  BY <1>1, Handled
<1> HIDE DEF m
<1>3. CASE m = Nothing /\ c.got = <<Nothing>> /\ Taken(c) = {}
  <2>1. c.state = "BUSY"
    BY <1>1, <1>3 DEF Agreed, Shape
  <2> QED BY <1>3, <2>1 DEF m
<1>4. CASE m \in Messages /\ IsOrder(J, m) /\ Taken(c) = {m} /\ c.got # <<Nothing>>
  <2>1. c.state = "PREPARE"
    BY <1>1, <1>4 DEF Agreed, Asks
  <2>2. m.order # 1 /\ (m.order = 10 <=> c.file = None) /\ c.unpacker = Default
    BY <1>1, <1>4, <2>1 DEF Agreed, Asks, Shape
  <2> QED BY <1>4, <2>1, <2>2 DEF m
<1> QED BY <1>2, <1>3, <1>4

(* The share of a link has a place and a size.                               *)
LEMMA ShareTyped ==
  ASSUME FileTransferAssumption, NEW i \in Links, NEW n \in Int
  PROVE  /\ Share(n, i).pos \in Int /\ Share(n, i).len \in Int
         /\ n >= 0 => Share(n, i).len >= 0
<1> DEFINE q == n \div link_num
<1>1. link_num \in Nat /\ link_num > 0 /\ i \in Nat /\ i <= link_num - 1
  BY DEF FileTransferAssumption, Links
<1>2. q \in Int /\ q * link_num <= n /\ q * link_num \in Int
  BY <1>1
<1>0. n >= 0 => q >= 0
  BY <1>1
<1> HIDE DEF q
<1>3. q * i \in Int
  BY <1>1, <1>2
<1>4. ASSUME n >= 0, i = link_num - 1 PROVE n - q * i >= 0
  <2>1. q >= 0
    BY <1>0, <1>4
  <2>2. q * link_num = q * (i + 1) /\ q * (i + 1) = q * i + q
    BY <1>1, <1>2, <1>4
  <2> QED BY <1>2, <1>3, <2>1, <2>2
<1> QED BY <1>0, <1>2, <1>3, <1>4 DEF Share, q

(* Order 0 of the client.                                                    *)
LEMMA GotLengthKeeps ==
  ASSUME FileTransferAssumption, Inv, NEW i \in Links, client[i].got # <<>>,
         client[i].state = "PREPARE", client[i].file # None,
         NEW m, m = Head(client[i].got), m.order = 0, GotLength(i, m),
         jobs' = jobs, server' = server, down' = down
  PROVE  /\ Arrays' /\ AllLinked' /\ ~swapped' /\ ~overrun'
         /\ client'[i].state # "PREPARE" /\ \A k \in Links \ {i} : client'[k] = client[k]
<1> DEFINE c == client[i]
           share == Share(m.len, i)
           busy == SetUnpacker([c EXCEPT !.state = "BUSY"], Rest(c.file, share.pos, share.len))
           a == Msg(1, c.file, share.pos, share.len)
           r == Send(busy, up[i], <<a>>)
           e == [s |-> trans_end(c, TRUE), wire |-> up[i]]
<1>1. Linked(Jobs, c, server[i], up[i], down[i]) /\ Arrays /\ AllLinked /\ ~swapped /\ ~overrun
  BY DEF Inv, AllLinked
<1>2. Jobs \in SUBSET (Nat \ {0}) /\ Jobs \in SUBSET Int
  BY JobsTyped DEF Inv
<1>3. m \in Messages /\ c.unpacker = Default /\ m.len \in Int
  BY <1>1, NotIdle DEF Messages
<1>4. ~overrun'
  BY <1>1 DEF GotLength
<1>5. CASE m.len < 0 \/ share.len = 0
  <2>1. ClientBecomes(i, e)
    BY <1>5 DEF GotLength
  <2>2. Linked(Jobs, Popped(e.s), server[i], up[i], down[i]) /\ Popped(e.s).state = "IDLE" /\ ~Stale(c, e.s)
    <3>1. ~Granted(m)
      BY DEF Granted
    <3>2. Reset(c, e.s)
      BY DEF Reset, trans_end
    <3> HIDE DEF e
    <3> QED BY <1>1, <1>3, <3>1, <3>2, ClientEnds
  <2>3. e.wire = up[i]
    OBVIOUS
  <2> HIDE DEF e
  <2> QED BY <1>1, <1>4, <2>1, <2>2, <2>3, Becomes
<1>6. CASE ~(m.len < 0 \/ share.len = 0)
  <2>1. ClientBecomes(i, r)
    BY <1>6 DEF GotLength
  <2>2. share.pos \in Int /\ share.len \in Int /\ share.len > 0
    BY <1>3, <1>6, ShareTyped
  <2>3. Linked(Jobs, Popped(r.s), server[i], r.wire, down[i]) /\ Popped(r.s).state = "BUSY" /\ ~Stale(c, r.s)
    <3> DEFINE p == share.pos
               n == share.len
    <3>1. /\ AsksFor(c, p, n, busy, a) /\ p \in Int /\ n \in Int /\ n > 0
          /\ c.got # <<>> /\ c.state = "PREPARE" /\ Head(c.got).order = 0 /\ c.file # None
      BY <2>2 DEF AsksFor
    <3>2. r = Send(busy, up[i], <<a>>)
      OBVIOUS
    <3> HIDE DEF r, busy, a, p, n
    <3>3. Popped(r.s) = Popped(r.s) /\ <<a>> = <<a>>
      OBVIOUS
    <3> QED BY ONLY <1>1, <1>2, <3>1, <3>2, <3>3, AsksForShare
  <2> HIDE DEF r
  <2> QED BY <1>1, <1>4, <2>1, <2>3, Becomes
<1> QED BY <1>5, <1>6

(* Order 11 of the client.                                                   *)
LEMMA MayPutKeeps ==
  ASSUME FileTransferAssumption, Inv, NEW i \in Links, client[i].got # <<>>,
         client[i].state = "PREPARE", client[i].file # None,
         NEW m, m = Head(client[i].got), m.order = 11, MayPut(i, m),
         jobs' = jobs, server' = server, down' = down
  PROVE  /\ Arrays' /\ AllLinked' /\ ~swapped' /\ ~overrun'
         /\ client'[i].state # "PREPARE" /\ \A k \in Links \ {i} : client'[k] = client[k]
<1> DEFINE c == client[i]
           p == Share(jobs[c.file].len, i).pos
           busy == [c EXCEPT !.state = "BUSY", !.buffer = Rest(c.file, p, m.pos)]
           r == SendChunk(busy, up[i])
           e == [s |-> trans_end(c, TRUE), wire |-> up[i]]
<1>1. Linked(Jobs, c, server[i], up[i], down[i]) /\ Arrays /\ AllLinked /\ ~swapped /\ ~overrun
  BY DEF Inv, AllLinked
<1>2. Jobs \in SUBSET (Nat \ {0}) /\ Jobs \in SUBSET Int /\ \A j \in Jobs : jobs[j].len \in Nat
  BY JobsTyped DEF Inv
<1>3. m \in Messages /\ c.unpacker = Default /\ m.len \in Int
  BY <1>1, NotIdle DEF Messages
<1>4. ~overrun'
  BY <1>1 DEF MayPut
<1>5. CASE m.len < 0
  <2>1. ClientBecomes(i, e)
    BY <1>5 DEF MayPut
  <2>2. Linked(Jobs, Popped(e.s), server[i], up[i], down[i]) /\ Popped(e.s).state = "IDLE" /\ ~Stale(c, e.s)
    <3>1. ~Granted(m)
      BY <1>3, <1>5 DEF Granted
    <3>2. Reset(c, e.s)
      BY DEF Reset, trans_end
    <3> HIDE DEF e
    <3> QED BY <1>1, <1>3, <3>1, <3>2, ClientEnds
  <2>3. e.wire = up[i]
    OBVIOUS
  <2> HIDE DEF e
  <2> QED BY <1>1, <1>4, <2>1, <2>2, <2>3, Becomes
<1>6. CASE ~(m.len < 0)
  <2>1. ClientBecomes(i, r)
    BY <1>6 DEF MayPut
  <2>2. p \in Int
    <3>1. c.file \in Jobs
      BY <1>1 DEF Linked, Sound
    <3>3. jobs[c.file].len \in Nat
      BY <1>2, <3>1
    <3>2. jobs[c.file].len \in Int
      BY ONLY <3>3
    <3> QED BY <3>2, ShareTyped
  <2>3. Linked(Jobs, Popped(r.s), server[i], r.wire, down[i]) /\ Popped(r.s).state = "BUSY" /\ ~Stale(c, r.s)
    <3>1. PutsFrom(c, m, busy)
      BY <2>2 DEF PutsFrom
    <3>2. /\ c.got # <<>> /\ c.state = "PREPARE" /\ m = Head(c.got) /\ m.order = 11
          /\ r = SendChunk(busy, up[i]) /\ FileTransferAssumption
      OBVIOUS
    <3>3. m.len >= 0
      BY <1>3, <1>6
    <3> HIDE DEF r, busy, p, FileTransferAssumption
    <3> QED BY ONLY <1>1, <1>2, <3>1, <3>2, <3>3, PutsShare
  <2> HIDE DEF r
  <2> QED BY <1>1, <1>4, <2>1, <2>3, Becomes
<1> QED BY <1>5, <1>6

(* put_file() of every link, on one that is idle or has handled its answer.  *)
LengthKnown(j) == jobs[j].len \in Nat
PutOn(J, k, c, s, d, j, h, z) ==
    /\ J \in SUBSET (Nat \ {0}) /\ k \in Links /\ j \in J /\ LengthKnown(j)
    /\ c = client[k] /\ Linked(J, c, s, up[k], d)
    /\ \E ok \in BOOLEAN : h = put_file(k, j, ok)
    /\ \/ c.state = "IDLE" /\ z = h.s
       \/ c.state = "PREPARE" /\ c.got # <<>> /\ Head(c.got).order = 10 /\ z = Popped(h.s)

(* put_file() keeps what the two ends of each link agree on.                 *)
LEMMA PutFileKeeps ==
  ASSUME FileTransferAssumption, NEW J, NEW k, NEW c, NEW s, NEW d, NEW j, NEW h, NEW z,
         PutOn(J, k, c, s, d, j, h, z)
  PROVE  Linked(J, z, s, h.wire, d) /\ ~Stale(c, h.s) /\ (z.state = "PREPARE" => z.file = j)
<1> DEFINE share == Share(jobs[j].len, k)
           t == [c EXCEPT !.file = j, !.state = "PREPARE"]
           m == Msg(11, j, share.pos, share.len)
           b == <<m>>
           ou == Orders(Pipe(c, up[k]))
           od == Orders(Pipe(s, d))
<1>9. /\ J \in SUBSET (Nat \ {0}) /\ k \in Links /\ j \in J /\ LengthKnown(j)
      /\ c = client[k] /\ Linked(J, c, s, up[k], d)
  BY DEF PutOn
<1>8. \/ c.state = "IDLE" /\ z = h.s
      \/ c.state = "PREPARE" /\ c.got # <<>> /\ Head(c.got).order = 10 /\ z = Popped(h.s)
  BY DEF PutOn
<1>0. PICK ok \in BOOLEAN : h = put_file(k, j, ok)
  BY DEF PutOn
<1>1. share.pos \in Int /\ share.len \in Int /\ j \in Int /\ j # 0 /\ J \in SUBSET Int
  BY <1>9, ShareTyped DEF LengthKnown
<1>2. c \in Sockets /\ GotOK(J, c)
      /\ Agreed(c, s, Amount(Pipe(c, up[k])), ou, Amount(Pipe(s, d)), od)
  BY <1>9, LinkTyped DEF Linked
<1>3. c.state = "IDLE" => c.got = <<>>
  BY <1>9, NotIdle
<1>4. CASE ok /\ share.len > 0
  <2>1. h = Send(t, up[k], b)
    BY <1>0, <1>4, <1>9 DEF put_file
  <2>2. /\ t \in Sockets /\ t.state = "PREPARE" /\ t.file = j /\ t.unpacker = c.unpacker
        /\ t.buffer = c.buffer /\ t.out = c.out /\ t.got = c.got /\ t.reading = c.reading
    BY <1>1, <1>2 DEF Sockets
  <2>3. m \in Messages /\ IsOrder(J, m) /\ m.order = 11 /\ m.len > 0
    BY <1>1, <1>4, <1>9 DEF Msg, Messages, IsOrder
  <2>4. ou = {} /\ od = {} /\ Taken(s) = {} /\ \A x \in Taken(c) : ~Granted(x)
    <3>1. CASE c.state = "IDLE"
      BY <1>2, <3>1 DEF Agreed, Asks
    <3>2. CASE c.state = "PREPARE" /\ c.got # <<>> /\ Head(c.got).order = 10
      <4>1. Taken(c) = {Head(c.got)}
        BY <1>9, <3>2, NotIdle
      <4>2. OneOrder(c, s, ou, od)
        BY <1>2 DEF Agreed
      <4> HIDE DEF ou, od
      <4>3. ou = {} /\ od = {} /\ Taken(s) = {}
        BY <4>1, <4>2 DEF OneOrder
      <4>4. ~Granted(Head(c.got))
        BY <3>2 DEF Granted
      <4> QED BY <4>1, <4>3, <4>4
    <3> QED BY <1>8, <3>1, <3>2
  <2>5. (c.got = <<>> /\ z = h.s) \/ (c.got # <<>> /\ z = Popped(h.s))
    BY <1>3, <1>8
  <2>6. c.state # "BUSY" /\ Linked(J, c, s, up[k], d) /\ b = <<m>>
        /\ t.file \in J \cup {None} /\ (m.order = 10 <=> t.file = None) /\ m.order \in {0, 10, 11}
    BY <1>1, <1>8, <1>9, <2>2, <2>3 DEF None
  <2> HIDE DEF t, m, b
  <2>7. Linked(J, z, s, h.wire, d) /\ z.state = "PREPARE" /\ z.file = t.file /\ ~Stale(c, h.s)
    <3>1. J \in SUBSET Int /\ (m.order = 11 => m.len > 0)
      BY <1>1, <2>3
    <3> HIDE DEF ou, od
    <3>2. Orders(Pipe(c, up[k])) = {} /\ Orders(Pipe(s, d)) = {}
      BY <2>4 DEF ou, od
    <3> DEFINE u == up[k]
    <3>3. /\ h = Send(t, u, b) /\ Linked(J, c, s, u, d)
          /\ Orders(Pipe(c, u)) = {} /\ Taken(s) = {} /\ \A x \in Taken(c) : ~Granted(x)
      BY <2>1, <2>4, <2>6, <3>2
    <3>4. c.state # "BUSY" /\ b = <<m>> /\ t.file \in J \cup {None} /\ (m.order = 10 <=> t.file = None)
          /\ m.order \in {0, 10, 11}
      BY <2>6
    <3> HIDE DEF u
    <3> QED BY ONLY <2>2, <2>3, <2>5, <3>1, <3>2, <3>3, <3>4, Requests
  <2> QED BY <2>2, <2>7
<1>5. CASE ~(ok /\ share.len > 0)
  <2>1. h = [s |-> trans_end(c, FALSE), wire |-> up[k]]
    BY <1>0, <1>5, <1>9 DEF put_file
  <2>2. Idled(c, h.s) /\ h.wire = up[k]
    BY <2>1 DEF Idled, trans_end
  <2>3. CASE c.state = "IDLE"
    BY <1>8, <1>9, <2>2, <2>3, StaysIdle
  <2>4. CASE c.state = "PREPARE" /\ c.got # <<>> /\ Head(c.got).order = 10
    <3>1. c.unpacker = Default /\ ~Granted(Head(c.got))
      BY <1>9, <2>4, NotIdle DEF Granted
    <3>2. z = Popped(h.s)
      BY <1>8, <2>4
    <3>3. Linked(J, c, s, up[k], d)
      BY <1>9
    <3>4. Linked(J, z, s, up[k], d) /\ z.state = "IDLE" /\ ~Stale(c, h.s)
      BY ONLY <2>2, <2>4, <3>1, <3>2, <3>3, ClientEnds
    <3> QED BY <2>2, <3>4
  <2> QED BY <1>8, <2>3, <2>4
<1> QED BY <1>4, <1>5

(* Order 10 of the client: all other links are idle, and all take their      *)
(* share.                                                                    *)
LEMMA TruncatedKeeps ==
  ASSUME FileTransferAssumption, Inv, NEW i \in Links, client[i].got # <<>>,
         client[i].state = "PREPARE", client[i].file = None,
         NEW m, m = Head(client[i].got), m.order = 10, Truncated(i, m),
         jobs' = jobs, server' = server, down' = down
  PROVE  /\ Arrays' /\ AllLinked' /\ ~swapped' /\ ~overrun'
         /\ \A k \in Links : ~Truncates(client'[k])
<1> DEFINE c == client[i]
           e == [s |-> trans_end(c, TRUE), wire |-> up[i]]
<1>1. Linked(Jobs, c, server[i], up[i], down[i]) /\ Arrays /\ AllLinked /\ ~swapped /\ ~overrun
  BY DEF Inv, AllLinked
<1>2. Jobs \in SUBSET (Nat \ {0}) /\ Jobs \in SUBSET Int /\ \A j \in Jobs : jobs[j].len \in Nat
  BY JobsTyped DEF Inv
<1>3. m \in Messages /\ c.unpacker = Default /\ m.len \in Int /\ m.job \in Jobs
  BY <1>1, NotIdle DEF Messages, IsOrder
<1>4. \A k \in Links \ {i} : client[k].state = "IDLE"
  BY DEF Inv, OneTruncates, Truncates, Alone, is_idle
<1>5. CASE m.len < 0
  <2>1. ClientBecomes(i, e) /\ ~overrun'
    BY <1>1, <1>5 DEF Truncated
  <2>2. Linked(Jobs, Popped(e.s), server[i], up[i], down[i]) /\ Popped(e.s).state = "IDLE" /\ ~Stale(c, e.s)
    <3>1. ~Granted(m)
      BY <1>3, <1>5 DEF Granted
    <3>2. Reset(c, e.s)
      BY DEF Reset, trans_end
    <3> HIDE DEF e
    <3> QED BY <1>1, <1>3, <3>1, <3>2, ClientEnds
  <2>3. e.wire = up[i]
    OBVIOUS
  <2> HIDE DEF e
  <2>4. /\ Arrays' /\ AllLinked' /\ ~swapped'
        /\ client'[i] = Popped(e.s) /\ \A k \in Links \ {i} : client'[k] = client[k]
    BY <1>1, <2>1, <2>2, <2>3, Becomes
  <2> QED BY <1>4, <2>1, <2>2, <2>4 DEF Truncates
<1>6. CASE ~(m.len < 0)
  <2>1. PICK bad \in Failing("put", Links) :
          LET put == [k \in Links |-> put_file(k, m.job, k \notin bad)]
          IN  /\ client' = [k \in Links |-> IF k = i THEN Popped(put[k].s) ELSE put[k].s]
              /\ up' = [k \in Links |-> put[k].wire]
              /\ overrun' = (overrun \/ \E k \in Links \ {i} : ~is_idle(k))
              /\ swapped' = (swapped \/ \E k \in Links : Stale(client[k], put[k].s))
    BY <1>6 DEF Truncated
  <2> DEFINE put(k) == put_file(k, m.job, k \notin bad)
  <2>2. /\ client' = [k \in Links |-> IF k = i THEN Popped(put(k).s) ELSE put(k).s]
        /\ up' = [k \in Links |-> put(k).wire]
        /\ swapped' = (swapped \/ \E k \in Links : Stale(client[k], put(k).s))
    BY <2>1
  <2>3. ~overrun'
    BY <1>1, <1>4, <2>1 DEF is_idle
  <2>4. ASSUME NEW k \in Links
        PROVE  /\ Linked(Jobs, client'[k], server[k], up'[k], down[k]) /\ ~Stale(client[k], put(k).s)
               /\ client'[k].state = "PREPARE" => client'[k].file = m.job
    <3> DEFINE x == client[k]
               h == put(k)
    <3>1. Linked(Jobs, x, server[k], up[k], down[k]) /\ LengthKnown(m.job)
      BY <1>1, <1>2, <1>3 DEF AllLinked, LengthKnown
    <3>2. \/ x.state = "IDLE" /\ k # i
          \/ x.state = "PREPARE" /\ x.got # <<>> /\ Head(x.got).order = 10 /\ k = i
      BY <1>4
    <3>4. /\ (x.state = "IDLE" /\ client'[k] = h.s) \/ (x.state = "PREPARE" /\ client'[k] = Popped(h.s))
          /\ up'[k] = h.wire
      BY <2>2, <3>2
    <3>3. PutOn(Jobs, k, x, server[k], down[k], m.job, h, client'[k])
      BY <1>2, <1>3, <3>1, <3>2, <3>4 DEF PutOn
    <3> HIDE DEF h, x
    <3>5. /\ Linked(Jobs, client'[k], server[k], h.wire, down[k]) /\ ~Stale(x, h.s)
          /\ client'[k].state = "PREPARE" => client'[k].file = m.job
      BY <3>3, PutFileKeeps
    <3> QED BY <3>4, <3>5 DEF h, x
  <2>5. ~swapped'
    BY <1>1, <2>2, <2>4
  <2> HIDE DEF put
  <2>6. \A k \in Links : client'[k] \in Sockets /\ up'[k] \in Seq(Messages)
    BY <2>4 DEF Linked, Sound
  <2>7. Arrays'
    BY <1>1, <2>2, <2>6 DEF Arrays
  <2>8. AllLinked'
    BY <2>4 DEF AllLinked, Jobs
  <2>9. \A k \in Links : ~Truncates(client'[k])
    BY <1>2, <1>3, <2>4 DEF Truncates, None
  <2> QED BY <2>3, <2>5, <2>7, <2>8, <2>9
<1> QED BY <1>5, <1>6

(* A link on which nothing is begun.                                         *)
Gently(i) ==
    /\ \A k \in Links \ {i} : client'[k] = client[k]
    /\ client[i].state = "IDLE" => client'[i].state = "IDLE"
    /\ Truncates(client'[i]) => Truncates(client[i])

(* The user and the progress are as they were, ...                           *)
LEMMA CalmKeeps ==
  ASSUME Calm, UNCHANGED <<app, progress>>, is_end => is_end'
  PROVE  Calm'
BY DEF Calm, app, progress

(* ... and the jobs.                                                         *)
LEMMA ChosenKeeps ==
  ASSUME Chosen, UNCHANGED <<jobs, typed, file_list>>
  PROVE  Chosen'
BY DEF Chosen, Jobs

(* A step of one link on which nothing is begun.                             *)
LEMMA GentlyKeeps ==
  ASSUME Inv, NEW i \in Links, Gently(i), Arrays', AllLinked', ~mixed', ~swapped', ~overrun',
         UNCHANGED <<choice, app, progress>>
  PROVE  Inv'
<1>1. \A k \in Links : is_idle(k) => is_idle(k)'
  BY DEF Gently, is_idle
<1>2. Calm'
  BY <1>1, CalmKeeps DEF Inv, is_end
<1>3. OneTruncates'
  <2> SUFFICES ASSUME NEW k \in Links, Truncates(client'[k])
               PROVE  Alone(k)'
    BY DEF OneTruncates
  <2>1. Truncates(client[k])
    BY DEF Gently
  <2>2. Alone(k)
    BY <2>1 DEF Inv, OneTruncates
  <2> QED BY <1>1, <2>2 DEF Alone
<1>4. Chosen'
  BY ChosenKeeps DEF Inv, choice, app
<1> QED BY <1>2, <1>3, <1>4 DEF Inv

(* handle_msg of the client.                                                 *)
LEMMA ClientHandleKeeps ==
  ASSUME FileTransferAssumption, Inv, NEW i \in Links, ClientHandle(i)
  PROVE  Inv'
<1> DEFINE c == client[i]
           m == Head(c.got)
<1>1. /\ c.got # <<>> /\ jobs' = jobs /\ server' = server /\ down' = down /\ ~mixed'
      /\ UNCHANGED <<choice, app, progress>>
  BY DEF ClientHandle, Inv, choice
<1>2. Linked(Jobs, c, server[i], up[i], down[i]) /\ Arrays /\ AllLinked /\ ~swapped /\ ~overrun
  BY DEF Inv, AllLinked
<1>3. /\ c.state \in {"PREPARE", "BUSY"}
      /\ c.state = "PREPARE" => IsOrder(Jobs, m) /\ (m.order = 10 <=> c.file = None)
      /\ c.state = "BUSY" => m = Nothing
  BY <1>1, <1>2, NotIdle
<1>4. CASE c.state = "PREPARE" /\ m.order = 0 /\ c.file # None /\ GotLength(i, m)
  <2>1. Arrays' /\ AllLinked' /\ ~swapped' /\ ~overrun'
        /\ c.state # "IDLE" /\ client'[i].state # "PREPARE" /\ \A k \in Links \ {i} : client'[k] = client[k]
    BY <1>1, <1>4, GotLengthKeeps
  <2>2. Gently(i)
    BY <2>1 DEF Gently, Truncates
  <2> QED BY <1>1, <2>1, <2>2, GentlyKeeps
<1>5. CASE c.state = "PREPARE" /\ m.order = 10 /\ c.file = None /\ Truncated(i, m)
  <2>1. Arrays' /\ AllLinked' /\ ~swapped' /\ ~overrun' /\ \A k \in Links : ~Truncates(client'[k])
    BY <1>1, <1>5, TruncatedKeeps
  <2>2. OneTruncates'
    BY <2>1 DEF OneTruncates
  <2>3. ~is_end
    BY <1>5 DEF is_end, is_idle
  <2>4. Calm' /\ Chosen'
    BY <1>1, <2>3, CalmKeeps, ChosenKeeps DEF Inv, choice, app
  <2> QED BY <1>1, <2>1, <2>2, <2>4 DEF Inv
<1>6. CASE c.state = "PREPARE" /\ m.order = 11 /\ c.file # None /\ MayPut(i, m)
  <2>1. Arrays' /\ AllLinked' /\ ~swapped' /\ ~overrun'
        /\ c.state # "IDLE" /\ client'[i].state # "PREPARE" /\ \A k \in Links \ {i} : client'[k] = client[k]
    BY <1>1, <1>6, MayPutKeeps
  <2>2. Gently(i)
    BY <2>1 DEF Gently, Truncates
  <2> QED BY <1>1, <2>1, <2>2, GentlyKeeps
<1>7. CASE /\ c.state = "BUSY" /\ ~overrun'
           /\ ClientBecomes(i, [s |-> BusyHandle(c), wire |-> up[i]])
  <2> DEFINE h == [s |-> BusyHandle(c), wire |-> up[i]]
  <2>1. ClientBecomes(i, h) /\ h.wire = up[i]
    BY <1>7
  <2>2. /\ Linked(Jobs, Popped(h.s), server[i], up[i], down[i]) /\ Popped(h.s).state # "PREPARE"
        /\ ~Stale(c, h.s)
    <3>1. CASE c.unpacker = Default \/ c.unpacker.left = 0
      <4>1. Reset(c, h.s)
        BY <3>1 DEF BusyHandle, trans_end, Reset
      <4>2. ~Granted(m)
        BY <1>3, <1>7 DEF Granted, Nothing, Msg, Empty
      <4> HIDE DEF h
      <4>3. Linked(Jobs, Popped(h.s), server[i], up[i], down[i]) /\ Popped(h.s).state = "IDLE" /\ ~Stale(c, h.s)
        BY <1>1, <1>2, <3>1, <4>1, <4>2, ClientEnds
      <4> QED BY <4>3
    <3>2. CASE ~(c.unpacker = Default \/ c.unpacker.left = 0)
      <4>1. h.s = c
        BY <3>2 DEF BusyHandle
      <4>2. ~Stale(c, h.s)
        BY <4>1 DEF Stale
      <4>3. Linked(Jobs, Popped(c), server[i], up[i], down[i]) /\ Popped(c).state = "BUSY"
        BY <1>1, <1>2, <1>7, ClientPops
      <4> QED BY <4>1, <4>2, <4>3
    <3> QED BY <3>1, <3>2
  <2> HIDE DEF h
  <2>3. Arrays' /\ AllLinked' /\ ~swapped'
        /\ client'[i] = Popped(h.s) /\ \A k \in Links \ {i} : client'[k] = client[k]
    BY <1>1, <1>2, <2>1, <2>2, Becomes
  <2>4. Gently(i)
    BY <1>7, <2>2, <2>3 DEF Gently, Truncates
  <2> QED BY <1>1, <1>7, <2>3, <2>4, GentlyKeeps
<1>8. \/ c.state = "PREPARE" /\ m.order = 0 /\ c.file # None /\ GotLength(i, m)
      \/ c.state = "PREPARE" /\ m.order = 10 /\ c.file = None /\ Truncated(i, m)
      \/ c.state = "PREPARE" /\ m.order = 11 /\ c.file # None /\ MayPut(i, m)
      \/ /\ c.state = "BUSY" \/ m.order \in {Empty, Content} \/ c.state # "PREPARE" \/ (c.file = None) # (m.order = 10)
         /\ ClientBecomes(i, [s |-> IF c.state = "BUSY" THEN BusyHandle(c) ELSE c, wire |-> up[i]])
         /\ UNCHANGED overrun
  BY DEF ClientHandle
<1>9. c.state = "PREPARE" => m.order \notin {Empty, Content} /\ ((c.file = None) <=> (m.order = 10))
  BY <1>3 DEF IsOrder, Empty, Content
<1> QED BY <1>2, <1>3, <1>4, <1>5, <1>6, <1>7, <1>8, <1>9

(* A read of the client.                                                     *)
LEMMA ClientRecvInv ==
  ASSUME FileTransferAssumption, Inv, NEW i \in Links, ClientRecv(i)
  PROVE  Inv'
<1> DEFINE c == client[i]
           d == down[i]
<1>1. PICK n \in Readable(c, d) :
          /\ client' = [client EXCEPT ![i] = parse_msg(c, SubSeq(d, 1, n))]
          /\ down' = [down EXCEPT ![i] = SubSeq(@, n + 1, Len(@))]
          /\ mixed' = (mixed \/ Misread(c, SubSeq(d, 1, n)))
  BY DEF ClientRecv
<1> DEFINE bytes == SubSeq(d, 1, n)
           rest == SubSeq(d, n + 1, Len(d))
           z == parse_msg(c, bytes)
<1>2. /\ c.reading # "none" /\ jobs' = jobs /\ server' = server /\ up' = up /\ ~swapped' /\ ~overrun'
      /\ UNCHANGED <<choice, app, progress>>
  BY DEF ClientRecv, Inv, choice, history
<1>3. Arrays /\ AllLinked /\ Linked(Jobs, c, server[i], up[i], d) /\ Jobs \in SUBSET Int
  BY JobsTyped DEF Inv, AllLinked
<1>4. Reading(c, d, n, bytes, rest, z)
  BY <1>1 DEF Reading
<1>5. /\ client' = [client EXCEPT ![i] = z] /\ server' = [server EXCEPT ![i] = server[i]]
      /\ up' = [up EXCEPT ![i] = up[i]] /\ down' = [down EXCEPT ![i] = rest]
  BY <1>1, <1>2, <1>3 DEF Arrays
<1>6. mixed' = (mixed \/ Misread(c, bytes)) /\ ~mixed
  BY <1>1 DEF Inv
<1> HIDE DEF bytes, rest, z
<1>7. Linked(Jobs, z, server[i], up[i], rest) /\ ~Misread(c, bytes) /\ z.state = c.state /\ z.file = c.file
  BY <1>2, <1>3, <1>4, ClientRecvKeeps
<1>8. Arrays' /\ AllLinked' /\ client'[i] = z /\ \A k \in Links \ {i} : client'[k] = client[k]
  <2>1. Arrays /\ AllLinked /\ jobs' = jobs /\ i \in Links /\ Linked(Jobs, z, server[i], up[i], rest)
    BY <1>2, <1>3, <1>7
  <2> QED BY ONLY <1>5, <2>1, OneLink
<1>9. Gently(i)
  BY <1>7, <1>8 DEF Gently, Truncates
<1> QED BY <1>2, <1>6, <1>7, <1>8, <1>9, GentlyKeeps

(* The write handler of the client.                                          *)
LEMMA ClientSentInv ==
  ASSUME FileTransferAssumption, Inv, NEW i \in Links, ClientSent(i)
  PROVE  Inv'
<1> DEFINE c == client[i]
           h == OnMsgSend(c, up[i])
<1>1. /\ c.out # <<>> /\ client' = [client EXCEPT ![i] = h.s] /\ up' = [up EXCEPT ![i] = h.wire]
      /\ swapped' = (swapped \/ Stale(c, h.s)) /\ ~swapped
  BY DEF ClientSent, Inv
<1>2. /\ jobs' = jobs /\ server' = server /\ down' = down /\ ~mixed' /\ ~overrun'
      /\ UNCHANGED <<choice, app, progress>>
  BY DEF ClientSent, Inv, choice
<1>3. Arrays /\ AllLinked /\ Linked(Jobs, c, server[i], up[i], down[i]) /\ Jobs \in SUBSET Int
  BY JobsTyped DEF Inv, AllLinked
<1>4. server' = [server EXCEPT ![i] = server[i]] /\ down' = [down EXCEPT ![i] = down[i]]
  BY <1>2, <1>3 DEF Arrays
<1>5. h = OnMsgSend(c, up[i])
  OBVIOUS
<1> HIDE DEF h
<1>6. /\ Linked(Jobs, h.s, server[i], h.wire, down[i]) /\ ~Stale(c, h.s)
      /\ (h.s.state = c.state /\ h.s.file = c.file) \/ (c.state = "BUSY" /\ h.s.state = "IDLE")
  BY <1>1, <1>3, <1>5, ClientSentKeeps
<1>7. Arrays' /\ AllLinked' /\ client'[i] = h.s /\ \A k \in Links \ {i} : client'[k] = client[k]
  <2>1. Arrays /\ AllLinked /\ jobs' = jobs /\ i \in Links /\ Linked(Jobs, h.s, server[i], h.wire, down[i])
    BY <1>2, <1>3, <1>6
  <2>2. client' = [client EXCEPT ![i] = h.s] /\ up' = [up EXCEPT ![i] = h.wire]
    BY <1>1
  <2> QED BY ONLY <1>4, <2>1, <2>2, OneLink
<1>8. Gently(i)
  BY <1>6, <1>7 DEF Gently, Truncates
<1> QED BY <1>1, <1>2, <1>6, <1>7, <1>8, GentlyKeeps

(* What the server's socket does leaves the client's as it is.               *)
LEMMA ServerKeeps ==
  ASSUME Inv, NEW i \in Links, NEW z, NEW uw, NEW dw,
         Linked(Jobs, client[i], z, uw, dw), server' = [server EXCEPT ![i] = z],
         up' = [up EXCEPT ![i] = uw], down' = [down EXCEPT ![i] = dw], client' = client,
         ~mixed', ~swapped', ~overrun', UNCHANGED <<choice, app, progress>>
  PROVE  Inv'
<1>1. Arrays /\ AllLinked /\ jobs' = jobs
  BY DEF Inv, choice
<1>2. client' = [client EXCEPT ![i] = client[i]]
  BY <1>1 DEF Arrays
<1>3. Arrays' /\ AllLinked'
  BY <1>1, <1>2, OneLink
<1>4. Gently(i)
  BY DEF Gently
<1> QED BY <1>3, <1>4, GentlyKeeps

(* A read of the server.                                                     *)
LEMMA ServerRecvInv ==
  ASSUME FileTransferAssumption, Inv, NEW i \in Links, ServerRecv(i)
  PROVE  Inv'
<1> DEFINE s == server[i]
           u == up[i]
<1>1. PICK n \in Readable(s, u) :
          /\ server' = [server EXCEPT ![i] = parse_msg(s, SubSeq(u, 1, n))]
          /\ up' = [up EXCEPT ![i] = SubSeq(@, n + 1, Len(@))]
          /\ mixed' = (mixed \/ Misread(s, SubSeq(u, 1, n)))
  BY DEF ServerRecv
<1> DEFINE bytes == SubSeq(u, 1, n)
           rest == SubSeq(u, n + 1, Len(u))
           z == parse_msg(s, bytes)
<1>2. /\ s.reading # "none" /\ client' = client /\ down' = down /\ ~swapped' /\ ~overrun'
      /\ UNCHANGED <<choice, app, progress>>
  BY DEF ServerRecv, Inv
<1>3. Arrays /\ Linked(Jobs, client[i], s, u, down[i]) /\ Jobs \in SUBSET Int
  BY JobsTyped DEF Inv, AllLinked
<1>4. Reading(s, u, n, bytes, rest, z)
  BY <1>1 DEF Reading
<1>5. /\ server' = [server EXCEPT ![i] = z] /\ up' = [up EXCEPT ![i] = rest]
      /\ down' = [down EXCEPT ![i] = down[i]]
  BY <1>1, <1>2, <1>3 DEF Arrays
<1>6. mixed' = (mixed \/ Misread(s, bytes)) /\ ~mixed
  BY <1>1 DEF Inv
<1> HIDE DEF bytes, rest, z
<1>7. Linked(Jobs, client[i], z, rest, down[i]) /\ ~Misread(s, bytes)
  BY <1>2, <1>3, <1>4, ServerRecvKeeps
<1> QED BY <1>2, <1>5, <1>6, <1>7, ServerKeeps

(* The write handler of the server.                                          *)
LEMMA ServerSentInv ==
  ASSUME FileTransferAssumption, Inv, NEW i \in Links, ServerSent(i)
  PROVE  Inv'
<1> DEFINE s == server[i]
           h == OnMsgSend(s, down[i])
<1>1. /\ s.out # <<>> /\ server' = [server EXCEPT ![i] = h.s] /\ down' = [down EXCEPT ![i] = h.wire]
      /\ swapped' = (swapped \/ Stale(s, h.s)) /\ ~swapped
  BY DEF ServerSent, is_sending, Inv
<1>2. /\ client' = client /\ up' = up /\ ~mixed' /\ ~overrun' /\ UNCHANGED <<choice, app, progress>>
  BY DEF ServerSent, Inv
<1>3. Arrays /\ Linked(Jobs, client[i], s, up[i], down[i]) /\ Jobs \in SUBSET Int
  BY JobsTyped DEF Inv, AllLinked
<1>4. up' = [up EXCEPT ![i] = up[i]]
  BY <1>2, <1>3 DEF Arrays
<1>5. h = OnMsgSend(s, down[i])
  OBVIOUS
<1> HIDE DEF h
<1>6. Linked(Jobs, client[i], h.s, up[i], h.wire) /\ ~Stale(s, h.s)
  BY <1>1, <1>3, <1>5, ServerSentKeeps
<1> QED BY <1>1, <1>2, <1>4, <1>6, ServerKeeps

(* What the server's socket takes from the client, reset for it.             *)
LEMMA EndedSocket ==
  ASSUME NEW J, NEW c, NEW s, NEW u, NEW d, Linked(J, c, s, u, d), s.got # <<>>, NEW e, e = Ended(s)
  PROVE  /\ e \in Sockets /\ EndOnly(s, e, Default) /\ Reset(s, e)
         /\ s.reading = "none" /\ Default \in [job : Int, pos : Int, left : Int]
<1>1. Sound(J, s, d) /\ s.got # <<>> /\ Reset(s, e)
  BY DEF Linked, Ended, trans_end, Reset
<1>2. Sound(J, e, d) /\ EndOnly(s, e, Default)
  BY ONLY <1>1, ResetSound
<1>3. s.reading = "none" /\ Default \in [job : Int, pos : Int, left : Int]
  BY <1>1 DEF Sound, GotOK, Default, Rest, None
<1> QED BY <1>1, <1>2, <1>3 DEF Sound

(* The message that is not the empty one.                                    *)
LEMMA ServerTook ==
  ASSUME NEW J, NEW c, NEW s, NEW u, NEW d, Linked(J, c, s, u, d), s.got # <<>>,
         NEW m, m = Head(s.got), m.order \in {0, 1, 10, 11}
  PROVE  m \in Messages /\ IsOrder(J, m) /\ m.job \in J /\ m.pos \in Int /\ m.len \in Int
         /\ s.unpacker = Default /\ (m.order = 11 => m.len > 0)
<1>1. m # Nothing
  BY DEF Nothing, Msg, Empty
<1>2. GotOK(J, s)
  BY LinkTyped
<1>3. m \in Messages /\ IsOrder(J, m) /\ Taken(s) = {m}
  BY <1>1, <1>2, Handled
<1>4. Agreed(c, s, Amount(Pipe(c, u)), Orders(Pipe(c, u)), Amount(Pipe(s, d)), Orders(Pipe(s, d)))
  BY DEF Linked
<1>5. s.unpacker = Default /\ (m.order = 11 => m.len > 0)
  BY <1>3, <1>4 DEF Agreed, Puts, Asks
<1> QED BY <1>3, <1>5 DEF Messages, IsOrder

(* What handle_msg of the server makes of a socket and its wire.             *)
Handles(s, d, m, h) ==
    \/ s.state = "BUSY" /\ h = [s |-> BusyHandle(s), wire |-> d]
    \/ /\ s.state # "BUSY" /\ s.out = <<>> /\ m.order = 0
       /\ \E ok \in BOOLEAN : h = Prepare(s, d, m.job, ok)
    \/ s.state = "PREPARE" /\ m.order = 1 /\ h = SendShare(s, d, m)
    \/ /\ s.state # "BUSY" /\ s.out = <<>> /\ m.order = 10
       /\ \E ok \in BOOLEAN : h = Truncate(s, d, m.job, ok)
    \/ /\ s.state # "BUSY" /\ s.out = <<>> /\ m.order = 11
       /\ \E ok \in BOOLEAN : h = AcceptShare(s, d, m, ok)
    \/ h = [s |-> s, wire |-> d]

Kept(J, c, s, u, h) == Linked(J, c, Popped(h.s), u, h.wire) /\ ~Stale(s, h.s)

(* It answers with nothing.                                                  *)
LEMMA DropKeeps ==
  ASSUME NEW J \in SUBSET Int, NEW c, NEW s, NEW u, NEW d, Linked(J, c, s, u, d), s.got # <<>>,
         NEW h, h = [s |-> s, wire |-> d] \/ (h = [s |-> Ended(s), wire |-> d]
                                              /\ (s.unpacker = Default \/ s.unpacker.left = 0))
  PROVE  Kept(J, c, s, u, h)
<1>1. h.wire = d /\ (h.s = s \/ (Reset(s, h.s) /\ (s.unpacker = Default \/ s.unpacker.left = 0)))
  BY DEF Ended, trans_end, Reset
<1>2. J \in SUBSET Int /\ Linked(J, c, s, u, d) /\ s.got # <<>>
  OBVIOUS
<1> DEFINE t == h.s
           z == Popped(t)
<1>3. (t = s \/ (Reset(s, t) /\ (s.unpacker = Default \/ s.unpacker.left = 0))) /\ z = Popped(t)
  BY <1>1
<1> HIDE DEF t, z
<1>4. Linked(J, c, z, u, d) /\ ~Stale(s, t)
  BY ONLY <1>2, <1>3, ServerDrops
<1> QED BY <1>1, <1>4 DEF Kept, z, t

(* An answer: the socket that sends it, and the message.                     *)
Replies(J, s, k, t, a) ==
    /\ t \in Sockets /\ t.file \in J \cup {None} /\ t.buffer = s.buffer /\ t.out = s.out
    /\ t.got = s.got /\ t.reading = s.reading
    /\ a \in Messages /\ IsOrder(J, a) /\ a.order = k.order
    /\ \/ t.unpacker = Default /\ ~Granted(a)
       \/ /\ t.unpacker # Default /\ t.unpacker.job # None /\ t.unpacker.left = k.len
          /\ t.state = "BUSY" /\ a.order = 11 /\ a.pos = k.len /\ a.len = 0

(* A link that answers an order of the client stays linked.                  *)
LEMMA AnswerKeeps ==
  ASSUME NEW J \in SUBSET Int, NEW c, NEW s, NEW u, NEW d, Linked(J, c, s, u, d),
         s.got # <<>>, s.out = <<>>, Head(s.got).order \in {0, 10, 11},
         NEW t, NEW a, Replies(J, s, Head(s.got), t, a), NEW h, h = Send(t, d, <<a>>)
  PROVE  Kept(J, c, s, u, h)
<1> DEFINE k == Head(s.got)
           z == Popped(h.s)
           b == <<a>>
<1>1. J \in SUBSET Int /\ Linked(J, c, s, u, d) /\ s.got # <<>> /\ s.out = <<>> /\ k = Head(s.got)
      /\ k.order \in {0, 10, 11} /\ b = <<a>> /\ h = Send(t, d, b) /\ z = Popped(h.s)
  OBVIOUS
<1>2. /\ t \in Sockets /\ t.file \in J \cup {None} /\ t.buffer = s.buffer /\ t.out = s.out
      /\ t.got = s.got /\ t.reading = s.reading
      /\ a \in Messages /\ IsOrder(J, a) /\ a.order = k.order
      /\ \/ t.unpacker = Default /\ ~Granted(a)
         \/ /\ t.unpacker # Default /\ t.unpacker.job # None /\ t.unpacker.left = k.len
            /\ t.state = "BUSY" /\ a.order = 11 /\ a.pos = k.len /\ a.len = 0
  BY DEF Replies
<1> HIDE DEF k, b, z
<1>3. Linked(J, c, z, u, h.wire) /\ ~Stale(s, h.s)
  BY ONLY <1>1, <1>2, ServerAnswers
<1> QED BY <1>3 DEF Kept, z

(* It answers: what it sends, and what it becomes.                           *)
Answering(js, s, k, t, a) ==
    /\ Replies(DOMAIN js, s, k, t, a) /\ a.job = k.job
    /\ \/ /\ t.unpacker = Default /\ ~Granted(a)
          /\ a.order = 0 /\ a.len >= 0 => a.len = js[k.job].len /\ t.state = "PREPARE" /\ t.file = k.job
       \/ a.order = 11 /\ t.state = "BUSY" /\ t.unpacker = Rest(k.job, k.pos, k.len)

(* handle_msg of the server: it drops a message or ends, serves a share, or  *)
(* answers.                                                                  *)
Drops(s, d, h) ==
    \/ h = [s |-> s, wire |-> d]
    \/ /\ h = [s |-> Ended(s), wire |-> d] /\ (s.unpacker = Default \/ s.unpacker.left = 0)
       /\ s.state # "PREPARE" \/ Taken(s) # {}
Starting(s, d, m, h) ==
    /\ s.state = "PREPARE" /\ m.order = 1 /\ m.len > 0
    /\ \E t : Serves(s, m, t) /\ h = SendChunk(t, d)
Answers(s, d, m, h) ==
    /\ s.out = <<>> /\ m.order \in {0, 10, 11}
    /\ \E t, a : Answering(jobs, s, m, t, a) /\ h = Send(t, d, <<a>>)

(* A server link that handles its message does one of these three.           *)
LEMMA HandlesAs ==
  ASSUME FileTransferAssumption, Jobs \in SUBSET (Nat \ {0}), \A j \in Jobs : jobs[j].len \in Int,
         NEW c, NEW s, NEW u, NEW d, Linked(Jobs, c, s, u, d), s.got # <<>>,
         NEW m, m = Head(s.got), NEW h, Handles(s, d, m, h)
  PROVE  Drops(s, d, h) \/ Starting(s, d, m, h) \/ Answers(s, d, m, h)
<1> DEFINE e == Ended(s)
           J == Jobs
<1>1. J \in SUBSET Int /\ \A j \in J : j \in Int /\ j # 0
  OBVIOUS
<1>0. DOMAIN jobs = J
  BY DEF Jobs
<1> HIDE DEF J
<1>2. /\ e \in Sockets /\ EndOnly(s, e, Default) /\ Reset(s, e)
      /\ s.reading = "none" /\ Default \in [job : Int, pos : Int, left : Int]
  BY EndedSocket
<1>3. m.order \in {0, 1, 10, 11} =>
          /\ m \in Messages /\ IsOrder(J, m) /\ m.job \in J /\ m.pos \in Int /\ m.len \in Int
          /\ s.unpacker = Default /\ (m.order = 11 => m.len > 0)
  BY ServerTook DEF J
<1>4. CASE s.state = "BUSY" /\ h = [s |-> BusyHandle(s), wire |-> d]
  BY <1>4 DEF BusyHandle, Ended, Drops
<1>5. CASE h = [s |-> s, wire |-> d]
  BY <1>5 DEF Drops
<1>6. CASE s.out = <<>> /\ m.order = 0 /\ \E ok \in BOOLEAN : h = Prepare(s, d, m.job, ok)
  <2>1. PICK ok \in BOOLEAN : h = Prepare(s, d, m.job, ok)
    BY <1>6
  <2> DEFINE t == IF ok THEN [e EXCEPT !.state = "PREPARE", !.file = m.job] ELSE e
             a == Msg(0, m.job, 0, IF ok THEN jobs[m.job].len ELSE -1)
  <2>2. h = Send(t, d, <<a>>)
    BY <2>1 DEF Prepare
  <2>3. a \in Messages /\ IsOrder(J, a) /\ a.order = 0 /\ ~Granted(a) /\ a.job = m.job
        /\ a.len = IF ok THEN jobs[m.job].len ELSE -1
    BY <1>1, <1>3, <1>6 DEF Msg, Messages, IsOrder, Granted, J
  <2>4. /\ t \in Sockets /\ t.file \in J \cup {None} /\ t.buffer = s.buffer /\ t.out = s.out
        /\ t.got = s.got /\ t.reading = s.reading /\ t.unpacker = Default
        /\ ok => t.state = "PREPARE" /\ t.file = m.job
    BY <1>1, <1>2, <1>3, <1>6 DEF Sockets, EndOnly
  <2> HIDE DEF t, a
  <2>5. Replies(J, s, m, t, a)
    BY <1>6, <2>3, <2>4 DEF Replies
  <2>6. Answering(jobs, s, m, t, a)
    BY <1>0, <2>3, <2>4, <2>5 DEF Answering
  <2> QED BY <1>6, <2>2, <2>6 DEF Answers
<1>7. CASE s.state = "PREPARE" /\ m.order = 1 /\ h = SendShare(s, d, m)
  <2>1. CASE ~(m.pos >= 0 /\ m.len > 0 /\ m.pos + m.len <= jobs[s.file].len)
    <3>1. h = [s |-> Ended(s), wire |-> d] /\ s.unpacker = Default
      BY <1>3, <1>7, <2>1 DEF SendShare
    <3>2. Taken(s) # {}
      <4>1. m # Nothing
        BY <1>7 DEF Nothing, Msg, Empty
      <4>2. GotOK(Jobs, s)
        BY LinkTyped
      <4>3. Taken(s) = {m}
        BY <4>1, <4>2, Handled
      <4> QED BY <4>3
    <3> QED BY <3>1, <3>2 DEF Drops
  <2>2. CASE m.pos >= 0 /\ m.len > 0 /\ m.pos + m.len <= jobs[s.file].len
    <3> DEFINE t == [s EXCEPT !.state = "BUSY", !.buffer = Rest(s.file, m.pos, m.len)]
    <3>1. h = SendChunk(t, d)
      BY <1>7, <2>2 DEF SendShare
    <3>2. Serves(s, m, t)
      BY DEF Serves
    <3> HIDE DEF t
    <3> QED BY <1>7, <2>2, <3>1, <3>2 DEF Starting
  <2> QED BY <2>1, <2>2
<1>8. CASE s.out = <<>> /\ m.order = 10 /\ \E ok \in BOOLEAN : h = Truncate(s, d, m.job, ok)
  <2>1. PICK ok \in BOOLEAN : h = Truncate(s, d, m.job, ok)
    BY <1>8
  <2> DEFINE a == Msg(10, m.job, 0, IF ok THEN 0 ELSE -1)
  <2>2. h = Send(e, d, <<a>>)
    BY <2>1 DEF Truncate
  <2>3. a \in Messages /\ IsOrder(J, a) /\ a.order = 10 /\ ~Granted(a) /\ a.job = m.job
    BY <1>1, <1>3, <1>8 DEF Msg, Messages, IsOrder, Granted
  <2> HIDE DEF a, e
  <2>5. Replies(J, s, m, e, a)
    BY <1>2, <1>8, <2>3 DEF Replies, EndOnly
  <2>6. Answering(jobs, s, m, e, a)
    BY <1>0, <1>2, <2>3, <2>5 DEF Answering, EndOnly
  <2> QED BY <1>8, <2>2, <2>6 DEF Answers
<1>9. CASE s.out = <<>> /\ m.order = 11 /\ \E ok \in BOOLEAN : h = AcceptShare(s, d, m, ok)
  <2>1. PICK ok \in BOOLEAN : h = AcceptShare(s, d, m, ok)
    BY <1>9
  <2> DEFINE v == Rest(m.job, m.pos, m.len)
             busy == SetUnpacker([e EXCEPT !.state = "BUSY", !.file = m.job], v)
             t == IF ok THEN busy ELSE e
             a == Msg(11, m.job, m.len, IF ok THEN 0 ELSE -1)
  <2>2. h = Send(t, d, <<a>>)
    BY <2>1 DEF AcceptShare
  <2>3. a \in Messages /\ IsOrder(J, a) /\ a.order = 11 /\ a.pos = m.len /\ (ok => a.len = 0) /\ (~ok => ~Granted(a))
        /\ a.job = m.job
    BY <1>1, <1>3, <1>9 DEF Msg, Messages, IsOrder, Granted
  <2>4. v \in [job : Int, pos : Int, left : Int] /\ v # Default /\ v.job # None /\ v.left = m.len
    BY <1>1, <1>3, <1>9 DEF Rest, Default, None
  <2>8. v = Rest(m.job, m.pos, m.len)
    OBVIOUS
  <2> HIDE DEF v, e
  <2>5. busy = [e EXCEPT !.state = "BUSY", !.file = m.job, !.unpacker = v]
    BY <1>2 DEF SetUnpacker, Sockets, EndOnly
  <2>6. /\ busy \in Sockets /\ busy.file = m.job /\ busy.buffer = s.buffer /\ busy.out = s.out
        /\ busy.state = "BUSY" /\ busy.got = s.got /\ busy.reading = s.reading /\ busy.unpacker = v
    <3>1. m.job \in Int /\ v \in [job : Int, pos : Int, left : Int] /\ e \in Sockets
      <4>1. m.order = 11
        BY <1>9
      <4>2. m.job \in J
        BY ONLY <1>3, <4>1
      <4> QED BY ONLY <1>1, <1>2, <2>4, <4>2
    <3> HIDE DEF busy
    <3>2. busy \in Sockets
      BY ONLY <2>5, <3>1 DEF Sockets
    <3>3. /\ busy.file = m.job /\ busy.state = "BUSY" /\ busy.unpacker = v /\ busy.buffer = e.buffer
          /\ busy.out = e.out /\ busy.got = e.got /\ busy.reading = e.reading
      BY ONLY <2>5, <3>1 DEF Sockets
    <3> QED BY <1>2, <3>2, <3>3 DEF EndOnly
  <2> HIDE DEF busy, a
  <2>7. Replies(J, s, m, t, a) /\ Answering(jobs, s, m, t, a)
    <3>1. CASE ok
      <4>1. Replies(J, s, m, busy, a)
        BY <1>3, <1>9, <2>3, <2>4, <2>6, <3>1 DEF Replies
      <4>2. Answering(jobs, s, m, busy, a)
        BY <1>0, <2>3, <2>6, <2>8, <4>1 DEF Answering
      <4> QED BY <3>1, <4>1, <4>2
    <3>2. CASE ~ok
      <4>1. Replies(J, s, m, e, a)
        BY <1>2, <1>9, <2>3, <3>2 DEF Replies, EndOnly
      <4>2. Answering(jobs, s, m, e, a)
        BY <1>0, <1>2, <2>3, <3>2, <4>1 DEF Answering, EndOnly
      <4> QED BY <3>2, <4>1, <4>2
    <3> QED BY <3>1, <3>2
  <2> HIDE DEF t
  <2> QED BY <1>9, <2>2, <2>7 DEF Answers
<1> QED BY <1>4, <1>5, <1>6, <1>7, <1>8, <1>9 DEF Handles

(* handle_msg of the server, on one link ...                                 *)
LEMMA ServerHandleKeeps ==
  ASSUME FileTransferAssumption, Jobs \in SUBSET (Nat \ {0}), \A j \in Jobs : jobs[j].len \in Int,
         NEW c, NEW s, NEW u, NEW d, Linked(Jobs, c, s, u, d), s.got # <<>>,
         NEW m, m = Head(s.got), NEW h, Handles(s, d, m, h)
  PROVE  Kept(Jobs, c, s, u, h)
<1>1. Drops(s, d, h) \/ Starting(s, d, m, h) \/ Answers(s, d, m, h)
  BY HandlesAs
<1>2. Jobs \in SUBSET Int /\ DOMAIN jobs = Jobs
  BY DEF Jobs
<1>3. CASE Drops(s, d, h)
  <2>1. h = [s |-> s, wire |-> d] \/ (h = [s |-> Ended(s), wire |-> d]
                                      /\ (s.unpacker = Default \/ s.unpacker.left = 0))
    BY <1>3 DEF Drops
  <2> QED BY <1>2, <2>1, DropKeeps
<1>4. CASE Starting(s, d, m, h)
  <2> DEFINE z == Popped(h.s)
  <2>1. PICK t : Serves(s, m, t) /\ h = SendChunk(t, d)
    BY <1>4 DEF Starting
  <2>2. /\ FileTransferAssumption /\ Jobs \in SUBSET Int /\ Linked(Jobs, c, s, u, d) /\ s.got # <<>>
        /\ s.state = "PREPARE" /\ m = Head(s.got) /\ m.order = 1 /\ m.len > 0
        /\ Serves(s, m, t) /\ h = SendChunk(t, d) /\ z = Popped(h.s)
    BY <1>2, <1>4, <2>1 DEF Starting
  <2> HIDE DEF z, FileTransferAssumption
  <2>3. Linked(Jobs, c, z, u, h.wire) /\ ~Stale(s, h.s)
    BY ONLY <2>2, ServerServes
  <2> QED BY <2>3 DEF Kept, z
<1>5. CASE Answers(s, d, m, h)
  <2>1. PICK t, a : Answering(jobs, s, m, t, a) /\ h = Send(t, d, <<a>>)
    BY <1>5 DEF Answers
  <2>2. Replies(Jobs, s, Head(s.got), t, a)
    BY <1>2, <2>1 DEF Answering
  <2> QED BY <1>2, <1>5, <2>1, <2>2, AnswerKeeps DEF Answers
<1> QED BY <1>1, <1>3, <1>4, <1>5

(* What the handling of a message leaves of a link of the server.            *)
LEMMA ServerHandleDoes ==
  ASSUME NEW i \in Links, ServerHandle(i)
  PROVE  \E h : /\ Handles(server[i], down[i], Head(server[i].got), h)
               /\ server' = [server EXCEPT ![i] = Popped(h.s)] /\ down' = [down EXCEPT ![i] = h.wire]
               /\ swapped' = (swapped \/ Stale(server[i], h.s))
<1> DEFINE s == server[i]
           d == down[i]
           m == Head(s.got)
           H(ok) == CASE s.state = "BUSY" -> [s |-> BusyHandle(s), wire |-> down[i]]
                      [] s.state # "BUSY" /\ m.order = 0 /\ ~is_sending(s) -> Prepare(s, down[i], m.job, ok)
                      [] s.state = "PREPARE" /\ m.order = 1 /\ s.file # None -> SendShare(s, down[i], m)
                      [] s.state # "BUSY" /\ m.order = 10 /\ ~is_sending(s) -> Truncate(s, down[i], m.job, ok)
                      [] s.state # "BUSY" /\ m.order = 11 /\ ~is_sending(s) -> AcceptShare(s, down[i], m, ok)
                      [] OTHER -> [s |-> s, wire |-> down[i]]
<1>1. PICK ok \in BOOLEAN :
          /\ server' = [server EXCEPT ![i] = Popped(H(ok).s)]
          /\ down' = [down EXCEPT ![i] = H(ok).wire]
          /\ swapped' = (swapped \/ Stale(s, H(ok).s))
  <2> DEFINE May == IF s.state # "BUSY" /\ Opens(m) /\ ~is_sending(s) THEN MayFail("server") ELSE {TRUE}
  <2>1. May \subseteq BOOLEAN
    BY DEF MayFail
  <2>2. \E ok \in May :
          /\ server' = [server EXCEPT ![i] = Popped(H(ok).s)]
          /\ down' = [down EXCEPT ![i] = H(ok).wire]
          /\ swapped' = (swapped \/ Stale(s, H(ok).s))
    BY DEF ServerHandle
  <2> HIDE DEF H, May
  <2> QED BY <2>1, <2>2
<1> DEFINE h == H(ok)
<1>2. Handles(s, d, m, h)
  <2>1. \/ s.state = "BUSY" /\ h = [s |-> BusyHandle(s), wire |-> d]
        \/ s.state # "BUSY" /\ m.order = 0 /\ ~is_sending(s) /\ h = Prepare(s, d, m.job, ok)
        \/ s.state = "PREPARE" /\ m.order = 1 /\ h = SendShare(s, d, m)
        \/ s.state # "BUSY" /\ m.order = 10 /\ ~is_sending(s) /\ h = Truncate(s, d, m.job, ok)
        \/ s.state # "BUSY" /\ m.order = 11 /\ ~is_sending(s) /\ h = AcceptShare(s, d, m, ok)
        \/ h = [s |-> s, wire |-> d]
    <3> DEFINE c0 == s.state = "BUSY"
               c1 == s.state # "BUSY" /\ m.order = 0 /\ ~is_sending(s)
               c2 == s.state = "PREPARE" /\ m.order = 1 /\ s.file # None
               c3 == s.state # "BUSY" /\ m.order = 10 /\ ~is_sending(s)
               c4 == s.state # "BUSY" /\ m.order = 11 /\ ~is_sending(s)
               r0 == [s |-> BusyHandle(s), wire |-> down[i]]
               r1 == Prepare(s, down[i], m.job, ok)
               r2 == SendShare(s, down[i], m)
               r3 == Truncate(s, down[i], m.job, ok)
               r4 == AcceptShare(s, down[i], m, ok)
               r5 == [s |-> s, wire |-> down[i]]
    <3>1. h = CASE c0 -> r0 [] c1 -> r1 [] c2 -> r2 [] c3 -> r3 [] c4 -> r4 [] OTHER -> r5
      OBVIOUS
    <3>2. /\ ~(c0 /\ c1) /\ ~(c0 /\ c2) /\ ~(c0 /\ c3) /\ ~(c0 /\ c4) /\ ~(c1 /\ c2)
          /\ ~(c1 /\ c3) /\ ~(c1 /\ c4) /\ ~(c2 /\ c3) /\ ~(c2 /\ c4) /\ ~(c3 /\ c4)
      OBVIOUS
    <3> HIDE DEF h, c0, c1, c2, c3, c4, r0, r1, r2, r3, r4, r5
    <3>3. \/ c0 /\ h = r0
          \/ c1 /\ h = r1
          \/ c2 /\ h = r2
          \/ c3 /\ h = r3
          \/ c4 /\ h = r4
          \/ h = r5
      BY ONLY <3>1, <3>2
    <3> QED BY ONLY <3>3 DEF c0, c1, c2, c3, c4, r0, r1, r2, r3, r4, r5
  <2> HIDE DEF H
  <2> QED BY <2>1 DEF Handles, is_sending
<1> HIDE DEF H
<1> QED BY <1>1, <1>2

(* It is linked as before, and the others are untouched.                     *)
LEMMA ServerHandleInv ==
  ASSUME FileTransferAssumption, Inv, NEW i \in Links, ServerHandle(i)
  PROVE  Inv'
<1> DEFINE s == server[i]
           d == down[i]
           m == Head(s.got)
<1>1. PICK h : /\ Handles(s, d, m, h)
               /\ server' = [server EXCEPT ![i] = Popped(h.s)] /\ down' = [down EXCEPT ![i] = h.wire]
               /\ swapped' = (swapped \/ Stale(s, h.s))
  BY ServerHandleDoes
<1>2. /\ s.got # <<>> /\ client' = client /\ up' = up /\ ~mixed' /\ ~overrun' /\ ~swapped
      /\ UNCHANGED <<choice, app, progress>>
  BY DEF ServerHandle, Inv
<1>3. Arrays /\ Linked(Jobs, client[i], s, up[i], d) /\ Jobs \in SUBSET (Nat \ {0})
      /\ \A j \in Jobs : jobs[j].len \in Int
  BY JobsTyped DEF Inv, AllLinked
<1>5. up' = [up EXCEPT ![i] = up[i]]
  BY <1>2, <1>3 DEF Arrays
<1>7. Kept(Jobs, client[i], s, up[i], h)
  BY <1>1, <1>2, <1>3, ServerHandleKeeps
<1> DEFINE z == Popped(h.s)
           w == h.wire
<1>8. Linked(Jobs, client[i], z, up[i], w) /\ ~swapped'
  BY <1>1, <1>2, <1>7 DEF Kept
<1>9. /\ server' = [server EXCEPT ![i] = z] /\ down' = [down EXCEPT ![i] = w]
      /\ client' = client /\ ~mixed' /\ ~overrun' /\ UNCHANGED <<choice, app, progress>>
  BY <1>1, <1>2
<1>10. Inv /\ i \in Links
  OBVIOUS
<1> HIDE DEF z, w
<1> QED BY ONLY <1>5, <1>8, <1>9, <1>10, ServerKeeps

(* What get_file() or truncate_file() makes of an idle link.                 *)
Starts(J, c, u, j, o, t, r) ==
    /\ j \in J /\ c.state = "IDLE" /\ r = Send(t, u, <<Msg(o, j, 0, 0)>>)
    /\ \/ o = 0 /\ t = [c EXCEPT !.state = "PREPARE", !.file = j]
       \/ o = 10 /\ t = [c EXCEPT !.state = "PREPARE"]

(* A link that transmit_file() begins a job on stays linked.                 *)
LEMMA StartKeeps ==
  ASSUME NEW J \in SUBSET (Nat \ {0}), NEW c, NEW s, NEW u, NEW d, Linked(J, c, s, u, d),
         NEW j, NEW o, NEW t, NEW r, Starts(J, c, u, j, o, t, r)
  PROVE  Linked(J, r.s, s, r.wire, d) /\ r.s.state = "PREPARE" /\ (o = 0 => r.s.file # None)
<1> DEFINE m == Msg(o, j, 0, 0)
           b == <<m>>
           z == r.s
<1>1. J \in SUBSET Int /\ j \in J /\ j \in Int /\ j # None /\ o \in {0, 10} /\ c.state = "IDLE" /\ r = Send(t, u, b)
  BY DEF Starts, None
<1>2. /\ c \in Sockets /\ Linked(J, c, s, u, d) /\ c.got = <<>>
      /\ Agreed(c, s, Amount(Pipe(c, u)), Orders(Pipe(c, u)), Amount(Pipe(s, d)), Orders(Pipe(s, d)))
  BY <1>1, NotIdle, LinkTyped DEF Linked
<1>3. c.state # "BUSY" /\ Orders(Pipe(c, u)) = {} /\ Orders(Pipe(s, d)) = {} /\ Taken(s) = {}
      /\ (\A x \in Taken(c) : ~Granted(x)) /\ c.file = None
  BY <1>1, <1>2 DEF Agreed, Asks
<1>4. m \in Messages /\ IsOrder(J, m) /\ m.order = o
  BY <1>1 DEF Msg, Messages, IsOrder
<1>5. /\ t \in Sockets /\ t.state = "PREPARE" /\ t.unpacker = c.unpacker
      /\ t.buffer = c.buffer /\ t.out = c.out /\ t.got = c.got /\ t.reading = c.reading
      /\ (o = 0 /\ t.file = j) \/ (o = 10 /\ t.file = None)
  BY <1>1, <1>2, <1>3 DEF Sockets, Starts
<1>6. /\ m.order \in {0, 10, 11} /\ (m.order = 10 <=> t.file = None) /\ (m.order = 11 => m.len > 0)
      /\ t.file \in J \cup {None} /\ b = <<m>> /\ (c.got = <<>> /\ z = r.s)
  BY <1>1, <1>2, <1>4, <1>5
<1> HIDE DEF m, b, z
<1>7. Linked(J, z, s, r.wire, d) /\ z.state = "PREPARE" /\ z.file = t.file /\ ~Stale(c, r.s)
  BY ONLY <1>1, <1>2, <1>3, <1>4, <1>5, <1>6, Requests
<1> QED BY <1>1, <1>5, <1>7 DEF z

(* transmit_file(): a link takes job j by order o ...                        *)
Begun(i, j, o) ==
    \E t, r : Starts(Jobs, client[i], up[i], j, o, t, r) /\ client'[i] = r.s /\ up'[i] = r.wire

(* ... which all links concerned do.                                         *)
LEMMA TransmitDoes ==
  ASSUME FileTransferAssumption, "get" \notin Faults, Inv, transmit_file, NEW j, j = Head(file_list)
  PROVE  /\ j \in Jobs /\ file_list # <<>> /\ current' = j /\ timer' = TRUE /\ \A i \in Links : client[i].state = "IDLE"
         /\ mutex' = "free" /\ handler' = IF mutex = "handler" THEN "none" ELSE handler
         /\ client' = [i \in Links |-> client'[i]] /\ up' = [i \in Links |-> up'[i]]
         /\ IF jobs[j].type = "get" THEN \A i \in Links : Begun(i, j, 0)
            ELSE Begun(0, j, 10) /\ \A i \in Links \ {0} : client'[i] = client[i] /\ up'[i] = up[i]
<1> DEFINE get == jobs[j].type = "get"
           links == IF get THEN Links ELSE {0}
           o == IF get THEN 0 ELSE 10
           t(i) == [client[i] EXCEPT !.state = "PREPARE", !.file = IF get THEN j ELSE @]
           r(i) == Send(t(i), up[i], <<Msg(o, j, 0, 0)>>)
<1>1. mutex # "free" /\ StartJob(j)
  BY DEF transmit_file
<1>2. file_list # <<>> /\ \A i \in Links : client[i].state = "IDLE"
  BY <1>1 DEF Inv, Calm, is_end, is_idle
<1>3. j \in Jobs /\ 0 \in Links
  <2>1. file_list \in Seq(Jobs)
    BY DEF Inv, Chosen
  <2>2. j \in Jobs
    BY <1>2, <2>1
  <2> QED BY <2>2 DEF Links, FileTransferAssumption
<1>4. /\ client' = [i \in Links |-> IF i \in links THEN r(i).s ELSE client[i]]
      /\ up' = [i \in Links |-> IF i \in links THEN r(i).wire ELSE up[i]]
      /\ timer' = TRUE /\ current' = j
      /\ mutex' = "free" /\ handler' = IF mutex = "handler" THEN "none" ELSE handler
  <2> DEFINE sent == [i \in Links |-> Send([client[i] EXCEPT !.state = "PREPARE", !.file = IF get THEN j ELSE @],
                                           up[i], <<Msg(o, j, 0, 0)>>)]
             start(bad) == {i \in links \ bad : is_idle(i)}
             over(bad) == start(bad) = links \/ Tail(file_list) = <<>>
  <2>1. PICK bad \in Failing("get", IF get THEN Links ELSE {}) :
           /\ client' = [i \in Links |-> IF i \in start(bad) THEN sent[i].s ELSE client[i]]
           /\ up' = [i \in Links |-> IF i \in start(bad) THEN sent[i].wire ELSE up[i]]
           /\ timer' = (start(bad) = links)
           /\ current' = IF start(bad) = links THEN j ELSE current
           /\ mutex' = IF over(bad) THEN "free" ELSE mutex
           /\ handler' = IF over(bad) /\ mutex = "handler" THEN "none" ELSE handler
    BY <1>1 DEF StartJob
  <2>2. bad = {}
    BY DEF Failing
  <2>3. start(bad) = links
    BY <1>2, <1>3, <2>2 DEF is_idle
  <2>4. \A i \in Links : sent[i] = r(i)
    OBVIOUS
  <2> HIDE DEF start, links, r, sent
  <2> QED BY <2>1, <2>3, <2>4 DEF over
<1>5. ASSUME NEW i \in Links, i \in links
      PROVE  Begun(i, j, o)
  <2> DEFINE q == r(i)
             x == t(i)
  <2>1. client[i].state = "IDLE" /\ client[i] \in Sockets
    BY <1>2 DEF Inv, Arrays
  <2>2. Starts(Jobs, client[i], up[i], j, o, x, q)
    <3>1. get => o = 0 /\ x = [client[i] EXCEPT !.state = "PREPARE", !.file = j]
      OBVIOUS
    <3>2. ~get => o = 10 /\ x = [client[i] EXCEPT !.state = "PREPARE"]
      BY <2>1 DEF Sockets
    <3> QED BY <1>3, <2>1, <3>1, <3>2 DEF Starts
  <2>3. client'[i] = q.s /\ up'[i] = q.wire
    BY <1>4, <1>5
  <2> HIDE DEF q, x, o
  <2> QED BY <2>2, <2>3 DEF Begun
<1> HIDE DEF r
<1> QED BY <1>2, <1>3, <1>4, <1>5

(* A transmission begins: all links are idle, and all of those concerned     *)
(* take it.                                                                  *)
LEMMA TransmitInv ==
  ASSUME FileTransferAssumption, "get" \notin Faults, Inv, transmit_file
  PROVE  Inv'
<1>0. PICK j : j = Head(file_list)
  OBVIOUS
<1> DEFINE get == jobs[j].type = "get"
<1>1. /\ file_list' = Tail(file_list) /\ jobs' = jobs /\ typed' = typed
      /\ server' = server /\ down' = down /\ ~mixed' /\ ~swapped' /\ ~overrun' /\ ~timer /\ handler # "wait"
  BY DEF transmit_file, StartJob, Inv, Calm, choice, history
<1>2. /\ j \in Jobs /\ file_list # <<>> /\ timer' = TRUE /\ \A i \in Links : client[i].state = "IDLE"
      /\ mutex' = "free" /\ handler' = IF mutex = "handler" THEN "none" ELSE handler
      /\ client' = [i \in Links |-> client'[i]] /\ up' = [i \in Links |-> up'[i]]
      /\ IF get THEN \A i \in Links : Begun(i, j, 0)
         ELSE Begun(0, j, 10) /\ \A i \in Links \ {0} : client'[i] = client[i] /\ up'[i] = up[i]
  BY <1>0, TransmitDoes
<1>3. Chosen' /\ 0 \in Links
  <2>1. file_list \in Seq(Jobs)
    BY DEF Inv, Chosen
  <2>2. Tail(file_list) \in Seq(Jobs)
    BY <1>2, <2>1
  <2>3. 0 \in Links
    BY DEF Links, FileTransferAssumption
  <2> QED BY <1>1, <2>2, <2>3 DEF Inv, Chosen, Jobs
<1>4. Jobs \in SUBSET (Nat \ {0})
  BY JobsTyped DEF Inv
<1>5. \A i \in Links : Linked(Jobs, client[i], server[i], up[i], down[i])
  BY DEF Inv, AllLinked
<1>6. ASSUME NEW i \in Links, NEW o, Begun(i, j, o)
      PROVE  Linked(Jobs, client'[i], server[i], up'[i], down[i]) /\ (o = 0 => ~Truncates(client'[i]))
  <2>1. PICK t, r : Starts(Jobs, client[i], up[i], j, o, t, r) /\ client'[i] = r.s /\ up'[i] = r.wire
    BY <1>6 DEF Begun
  <2> QED BY <1>4, <1>5, <2>1, StartKeeps DEF Truncates
<1>7. ASSUME NEW i \in Links
      PROVE  Linked(Jobs, client'[i], server[i], up'[i], down[i])
  BY <1>2, <1>5, <1>6
<1>8. AllLinked'
  BY <1>1, <1>7 DEF AllLinked, Jobs
<1>9. Arrays'
  <2>1. \A i \in Links : client'[i] \in Sockets /\ up'[i] \in Seq(Messages)
    BY <1>7 DEF Linked, Sound
  <2> QED BY <1>1, <1>2, <2>1 DEF Inv, Arrays
<1>10. OneTruncates'
  <2> SUFFICES ASSUME NEW i \in Links, Truncates(client'[i])
               PROVE  Alone(i)'
    BY DEF OneTruncates
  <2>1. ~get /\ i = 0
    BY <1>2, <1>6 DEF Truncates
  <2> QED BY <1>2, <2>1 DEF Alone, is_idle
<1>11. Calm'
  BY <1>1, <1>2 DEF Calm
<1> QED BY <1>1, <1>3, <1>8, <1>9, <1>10, <1>11 DEF Inv

(* The links are as they were.                                               *)
LEMMA SameLinks ==
  ASSUME Inv, Chosen', Calm', UNCHANGED <<choice, client, server, up, down, history>>
  PROVE  Inv'
<1>1. AllLinked' /\ Arrays' /\ OneTruncates'
  BY DEF Inv, AllLinked, Arrays, OneTruncates, Alone, is_idle, Jobs, choice
<1> QED BY <1>1 DEF Inv, history

(* The user types, the progress is followed.                                 *)
LEMMA UserInv ==
  ASSUME FileTransferAssumption, AppWaits, Inv, Type \/ GiveUp \/ ReportEnd \/ CleanedUp \/ TransmitNext
  PROVE  Inv'
<1>1. Chosen /\ Calm
  BY DEF Inv
<1>2. CASE Type
  <2>1. Chosen'
    <3>1. jobs \in Seq([type : {"get", "put"}, len : Nat]) /\ typed < Len(jobs) /\ typed \in Nat
      BY <1>1, <1>2 DEF Type, Chosen, FileTransferAssumption
    <3>2. typed + 1 \in Jobs
      BY <3>1, LenProperties DEF Jobs
    <3>3. Append(file_list, typed + 1) \in Seq(Jobs) /\ typed + 1 \in Nat
      BY <1>1, <3>1, <3>2 DEF Chosen
    <3> QED BY <1>1, <1>2, <3>3 DEF Type, Chosen, choice, Jobs
  <2>2. Calm'
    <3>1. file_list' # <<>>
      BY <1>1, <1>2, AppendProperties DEF Type, Chosen
    <3> QED BY <1>1, <1>2, <3>1 DEF Type, Calm, is_end, is_idle, progress
  <2> QED BY <1>2, <2>1, <2>2, SameLinks DEF Type
<1>3. CASE GiveUp
  BY <1>1, <1>3, ChosenKeeps, SameLinks DEF GiveUp, Calm, is_end, is_idle, choice, app
<1>4. CASE ReportEnd
  BY <1>1, <1>4, ChosenKeeps, SameLinks DEF ReportEnd, Calm, is_end, is_idle, choice, app
<1>5. CASE CleanedUp
  BY <1>1, <1>5, ChosenKeeps, SameLinks DEF CleanedUp, Calm, is_end, is_idle, choice, app
<1>6. CASE TransmitNext
  BY <1>1, <1>6, ChosenKeeps, SameLinks DEF TransmitNext, Calm, is_end, is_idle, choice, app
<1> QED BY <1>2, <1>3, <1>4, <1>5, <1>6

(* At the start nothing is on any link.                                      *)
LEMMA InitInv == ASSUME FileTransferAssumption, Init PROVE Inv
<1> DEFINE n == NewSocket
<1>1. /\ n.state = "IDLE" /\ n.file = None /\ n.unpacker = Default /\ n.buffer = Default /\ n.reading = "own"
      /\ n.got = <<>> /\ n.out = <<>> /\ n \in Sockets
  BY EmptySeq DEF NewSocket, Sockets, Default, Rest, None
<1>2. Default.left = 0
  BY DEF Default, Rest
<1> HIDE DEF n
<1>3. Pipe(n, <<>>) = <<>>
  BY <1>1, EmptySeq DEF Pipe, Waiting
<1>4. Amount(<<>>) = 0 /\ Orders(<<>>) = {} /\ Taken(n) = {} /\ ~Sends(n.out)
  BY <1>1, EmptySeq DEF Amount, Orders, Ordered, Taken, Sends
<1>5. Sound(Jobs, n, <<>>)
  <2>1. IsStream(Jobs, <<>>)
    BY EmptySeq DEF IsStream
  <2>2. OutOK(Jobs, n.out) /\ GotOK(Jobs, n)
    BY <1>1, EmptySeq DEF OutOK, GotOK
  <2> QED BY <1>1, <1>3, <2>1, <2>2, EmptySeq DEF Sound
<1>6. Agreed(n, n, 0, {}, 0, {})
  BY <1>1, <1>2, <1>4 DEF Agreed, OneOrder, Asks, Shape, Gets, Puts
<1>7. Linked(Jobs, n, n, <<>>, <<>>)
  BY <1>3, <1>4, <1>5, <1>6 DEF Linked
<1>8. AllLinked /\ Arrays
  BY <1>1, <1>7, EmptySeq DEF Init, AllLinked, Arrays, n
<1>9. Chosen
  BY EmptySeq DEF Init, Chosen
<1>10. \A i \in Links : client[i].state = "IDLE"
  BY <1>1 DEF Init, n
<1>11. Calm /\ OneTruncates
  BY <1>10 DEF Init, Calm, OneTruncates, Truncates, is_end, is_idle
<1> QED BY <1>8, <1>9, <1>11 DEF Inv, Init

(* The invariant holds.                                                      *)
THEOREM LinksAgree ==
  ASSUME AppWaits, "get" \notin Faults
  PROVE  Spec => []Inv
<1>1. Init => Inv
  BY InitInv, FileTransferAssumption
<1>2. Inv /\ [Next]_vars => Inv'
  <2> SUFFICES ASSUME Inv, [Next]_vars PROVE Inv'
    OBVIOUS
  <2> USE FileTransferAssumption
  <2>1. CASE Type \/ GiveUp \/ ReportEnd \/ CleanedUp \/ TransmitNext
    BY <2>1, UserInv
  <2>2. CASE transmit_file
    BY <2>2, TransmitInv
  <2>3. ASSUME NEW i \in Links, LinkStep(i) PROVE Inv'
    BY <2>3, ClientRecvInv, ClientHandleKeeps, ClientSentInv, ServerRecvInv, ServerHandleInv, ServerSentInv
       DEF LinkStep
  <2>4. CASE UNCHANGED vars
    <3>1. Chosen' /\ Calm'
      BY <2>4, ChosenKeeps, CalmKeeps DEF Inv, vars, choice, app, is_end, is_idle
    <3> QED BY <2>4, <3>1, SameLinks DEF vars
  <2> QED BY <2>1, <2>2, <2>3, <2>4 DEF Next
<1> QED BY <1>1, <1>2, PTL DEF Spec

(* Content of a file is never read as an order, nor an order as content, and *)
(* no unpacker is replaced under a read that fills its buffer: both ends     *)
(* change unpackers at the same place of the stream (file_client.h:288,      *)
(* file_socket.cpp:207, trans_end), whatever the shares and the chunks are.  *)
THEOREM NeverMixes ==
  ASSUME AppWaits, "get" \notin Faults
  PROVE  Spec => []NeverMixed
<1>1. Inv => NeverMixed
  BY DEF Inv, NeverMixed
<1> QED BY <1>1, LinksAgree, PTL

(* put_file() takes over links that are idle and no others: what it relies   *)
(* on (file_client.h:463).                                                   *)
THEOREM PutsWhenIdle ==
  ASSUME AppWaits, "get" \notin Faults
  PROVE  Spec => []PutsOnIdleLinks
<1>1. Inv => PutsOnIdleLinks
  BY DEF Inv, PutsOnIdleLinks
<1> QED BY <1>1, LinksAgree, PTL

-----------------------------------------------------------------------------
(* What is under way where.  The first messages of p are the content that u  *)
(* wants next, and buffer b has what comes after them.                       *)
Follows(p, n, u) == \A k \in 1 .. n : p[k] = Msg(Content, u.job, u.pos + k - 1, 1)
Feeds(b, n, u) == b.left > 0 => b.job = u.job /\ b.pos = u.pos + n
Stream(p, b, u) == Follows(p, Amount(p), u) /\ Feeds(b, Amount(p), u)

Rests == [job : Int, pos : Int, left : Int]
Bytes(b, n) == [k \in 1 .. n |-> Msg(Content, b.job, b.pos + k - 1, 1)]
Later(b, n) == Rest(b.job, b.pos + n, b.left - n)

(* A chunk that is sent goes on where the content before it ended ...        *)
Takes(J, p, b, u, n) ==
    /\ IsStream(J, p) /\ Orders(p) = {} /\ b \in Rests /\ u \in Rests /\ Stream(p, b, u)
    /\ n \in Nat /\ n > 0 /\ n <= b.left

(* What is sent of the buffer, and what is left of it, are again a stream.   *)
LEMMA ChunkFollows ==
  ASSUME NEW J \in SUBSET Int, NEW p, NEW b, NEW u, NEW n, Takes(J, p, b, u, n)
  PROVE  /\ Stream(p \o Bytes(b, n), Later(b, n), u) /\ OfContent(Bytes(b, n))
         /\ Amount(p \o Bytes(b, n)) = Amount(p) + n
<1> SUFFICES ASSUME NEW x, x = Bytes(b, n), NEW q, q = p \o x, NEW v, v = Later(b, n)
             PROVE  Stream(q, v, u) /\ OfContent(x) /\ Amount(q) = Amount(p) + n
  OBVIOUS
<1>0. /\ IsStream(J, p) /\ Orders(p) = {} /\ b \in Rests /\ u \in Rests /\ Stream(p, b, u)
      /\ n \in Nat /\ n > 0 /\ n <= b.left
  BY DEF Takes
<1>1. p \in Seq(Messages) /\ Len(p) \in Nat /\ u.pos \in Int /\ u.job \in Int /\ b.pos \in Int /\ b.job \in Int
      /\ b.left \in Int
  BY <1>0, LenProperties DEF IsStream, Rests
<1>2. \A k \in 1 .. n : Msg(Content, b.job, b.pos + k - 1, 1) \in Messages
                        /\ Msg(Content, b.job, b.pos + k - 1, 1).order = Content
  BY <1>0, <1>1 DEF Msg, Messages, Content
<1>3. x \in Seq(Messages) /\ Len(x) = n /\ \A k \in 1 .. n : x[k] = Msg(Content, b.job, b.pos + k - 1, 1)
  <2> DEFINE y == [k \in 1 .. n |-> Msg(Content, b.job, b.pos + k - 1, 1)]
  <2>1. y \in Seq(Messages) /\ Len(y) = n
    BY <1>0, <1>2, IsASeq
  <2> QED BY <2>1 DEF Bytes
<1>4. OfContent(x)
  <2>1. x # <<>>
    BY <1>0, <1>3, EmptySeq
  <2> QED BY <1>2, <1>3, <2>1 DEF OfContent
<1>5. Amount(q) = Amount(p) + n
  BY <1>0, <1>3, <1>4, StreamOfContent
<1>6. Amount(p) = Len(p) /\ Amount(q) = Len(p) + n
  BY <1>0, <1>1, <1>5 DEF Orders, Amount
<1>7. \A k \in 1 .. Len(p) + n : q[k] = IF k <= Len(p) THEN p[k] ELSE x[k - Len(p)]
  BY <1>1, <1>3, ConcatProperties
<1>8. b.job = u.job /\ b.pos = u.pos + Len(p)
  <2>1. b.left > 0
    BY <1>0, <1>1
  <2> QED BY <1>0, <1>6, <2>1 DEF Stream, Feeds
<1>9. Follows(q, Amount(q), u)
  <2> SUFFICES ASSUME NEW k \in 1 .. Len(p) + n PROVE q[k] = Msg(Content, u.job, u.pos + k - 1, 1)
    BY <1>6 DEF Follows
  <2>1. CASE k <= Len(p)
    BY <1>0, <1>1, <1>6, <1>7, <2>1 DEF Stream, Follows
  <2>2. CASE ~(k <= Len(p))
    <3>1. k - Len(p) \in 1 .. n
      BY <1>0, <1>1, <2>2
    <3>2. q[k] = x[k - Len(p)]
      BY <1>7, <2>2
    <3>3. q[k] = Msg(Content, b.job, b.pos + (k - Len(p)) - 1, 1)
      BY <1>3, <3>1, <3>2
    <3>4. b.pos + (k - Len(p)) - 1 = u.pos + k - 1
      BY <1>1, <1>8
    <3> QED BY <1>8, <3>3, <3>4
  <2> QED BY <2>1, <2>2
<1>10. Feeds(v, Amount(q), u)
  <2>1. v.job = b.job /\ v.pos = b.pos + n
    BY DEF Later, Rest
  <2> QED BY <1>0, <1>1, <1>6, <1>8, <2>1 DEF Feeds
<1> QED BY <1>4, <1>5, <1>9, <1>10 DEF Stream

(* ... an order behind it changes nothing ...                                *)
LEMMA OrderBehind ==
  ASSUME NEW J \in SUBSET Int, NEW p, IsStream(J, p), Orders(p) = {},
         NEW m \in Messages, IsOrder(J, m), NEW q, q = p \o <<m>>
  PROVE  Amount(q) = Amount(p) /\ Orders(q) = {m} /\ \A b, u : Stream(p, b, u) => Stream(q, b, u)
<1> DEFINE x == <<m>>
<1>1. p \in Seq(Messages) /\ x \in Seq(Messages) /\ Len(p) \in Nat /\ Len(x) = 1
  BY LenProperties DEF IsStream
<1> HIDE DEF x
<1>2. \A k \in 1 .. Len(p) + 1 : (p \o x)[k] = IF k <= Len(p) THEN p[k] ELSE x[k - Len(p)]
  BY <1>1, ConcatProperties
<1>3. Amount(q) = Amount(p) /\ Orders(q) = {m}
  BY StreamOfOrder
<1>4. Amount(p) = Len(p)
  BY DEF Orders, Amount
<1>5. \A k \in 1 .. Len(p) : q[k] = p[k]
  BY <1>1, <1>2 DEF x
<1> QED BY <1>3, <1>4, <1>5 DEF Stream, Follows

(* ... and what is read from its front is what was wanted.                   *)
LEMMA ReadFollows ==
  ASSUME NEW J \in SUBSET Int, NEW p, IsStream(J, p), NEW n, NEW q, Cut(p, n, q), n <= Amount(p),
         NEW b \in Rests, NEW u \in Rests, Stream(p, b, u), NEW v, v = Later(u, n)
  PROVE  /\ Stream(q, b, v) /\ Amount(q) = Amount(p) - n
         /\ \A k \in 1 .. n : p[k] = Msg(Content, u.job, u.pos + k - 1, 1)
<1>1. p \in Seq(Messages) /\ Len(p) \in Nat /\ u.pos \in Int /\ u.job \in Int /\ n \in Nat /\ n <= Len(p)
      /\ Amount(p) \in Nat /\ Amount(p) <= Len(p)
  <2>1. p \in Seq(Messages) /\ Len(p) \in Nat
    BY LenProperties DEF IsStream
  <2> QED BY <2>1, AmountNat DEF Rests, Cut, Amount
<1>2. Amount(q) = Amount(p) - n
  BY StreamRead
<1>3. v.job = u.job /\ v.pos = u.pos + n
  BY DEF Later, Rest
<1>4. Follows(q, Amount(q), v)
  <2> SUFFICES ASSUME NEW k \in 1 .. Amount(p) - n PROVE q[k] = Msg(Content, v.job, v.pos + k - 1, 1)
    BY <1>2 DEF Follows
  <2>1. k + n \in 1 .. Amount(p) /\ q[k] = p[k + n]
    BY <1>1 DEF Cut
  <2>2. p[k + n] = Msg(Content, u.job, u.pos + (k + n) - 1, 1)
    BY <2>1 DEF Stream, Follows
  <2>3. u.pos + (k + n) - 1 = v.pos + k - 1
    BY <1>1, <1>3
  <2> QED BY <1>3, <2>1, <2>2, <2>3
<1>5. Feeds(b, Amount(q), v)
  BY <1>1, <1>2, <1>3 DEF Stream, Feeds
<1>6. \A k \in 1 .. n : p[k] = Msg(Content, u.job, u.pos + k - 1, 1)
  BY <1>1 DEF Stream, Follows
<1> QED BY <1>2, <1>4, <1>5, <1>6 DEF Stream

(* Where nothing is under way there is nothing to follow.                    *)
LEMMA StreamEmpty ==
  ASSUME NEW p, Amount(p) = 0, NEW b, NEW u, b.left > 0 => b.job = u.job /\ b.pos = u.pos, u.pos \in Int
  PROVE  Stream(p, b, u)
BY DEF Stream, Follows, Feeds

-----------------------------------------------------------------------------
(* The share of link i in job j of js, and a part of it, up to its end.      *)
ShareOf(js, i, j) == Share(js[j].len, i)
InShare(js, i, u) ==
    /\ ShareOf(js, i, u.job).pos <= u.pos
    /\ u.pos + u.left = ShareOf(js, i, u.job).pos + ShareOf(js, i, u.job).len

Kind(js, j, t) == j \in DOMAIN js /\ js[j].type = t
KindOf(o) == IF o \in {0, 1} THEN "get" ELSE "put"

(* Orders on the way to the server, and to the client, of the current job j. *)
Asked(js, i, j, c, s, m) ==
    /\ m.job = j /\ Kind(js, j, KindOf(m.order))
    /\ m.order = 1 => s.state = "PREPARE" /\ s.file = j /\ m.pos = c.unpacker.pos
    /\ m.order = 11 => m.pos = ShareOf(js, i, j).pos /\ m.len = ShareOf(js, i, j).len
Answered(js, i, j, s, m) ==
    /\ m.job = j /\ Kind(js, j, KindOf(m.order))
    /\ m.order = 0 /\ m.len >= 0 => m.len = js[j].len /\ s.state = "PREPARE" /\ s.file = j
    /\ Granted(m) => s.unpacker.job = j /\ s.unpacker.pos = ShareOf(js, i, j).pos

(* What is got is of the current job, what is put may be of one before it.   *)
GetsPlaced(js, i, j, c) ==
    c.unpacker # Default => c.unpacker.job = j /\ Kind(js, j, "get") /\ InShare(js, i, c.unpacker)
PutsPlaced(js, i, j, s) ==
    s.unpacker # Default =>
        /\ s.state = "BUSY" /\ ~Sends(s.out)
        /\ s.unpacker.job <= j /\ Kind(js, s.unpacker.job, "put") /\ InShare(js, i, s.unpacker)

PlacedBy(js, i, j, c, s, ou, od) ==
    /\ c.state # "IDLE" => j \in DOMAIN js /\ c.file \in {None, j}
    /\ GetsPlaced(js, i, j, c) /\ PutsPlaced(js, i, j, s)
    /\ c.buffer.left > 0 => c.buffer.job = j
    /\ \A m \in ou \cup Taken(s) : Asked(js, i, j, c, s, m)
    /\ \A m \in od \cup Taken(c) : Answered(js, i, j, s, m)

Placed(js, i, j, c, s, pu, pd) ==
    /\ PlacedBy(js, i, j, c, s, Orders(pu), Orders(pd))
    /\ Stream(pd, s.buffer, c.unpacker) /\ Stream(pu, c.buffer, s.unpacker)

(* What each step makes of the positions.  The client goes idle ...          *)
LEMMA PlaceEnd ==
  ASSUME NEW js, NEW i, NEW j, NEW c, NEW s, NEW ou, NEW od, PlacedBy(js, i, j, c, s, ou, od),
         ou = {}, Taken(s) = {}, od = {},
         NEW z, z.state = "IDLE", z.unpacker = Default, z.buffer = c.buffer, Taken(z) = {}
  PROVE  PlacedBy(js, i, j, z, s, ou, od)
BY DEF PlacedBy, GetsPlaced

(* ... it handles a message, reads an order, or completes a write ...        *)
LEMMA PlaceSame ==
  ASSUME NEW js, NEW i, NEW j, NEW c, NEW s, NEW ou, NEW od, PlacedBy(js, i, j, c, s, ou, od),
         NEW z, z.state = c.state, z.file = c.file, z.unpacker = c.unpacker,
         z.buffer.left > 0 => c.buffer.left > 0 /\ z.buffer.job = c.buffer.job,
         NEW od2, od2 \cup Taken(z) \subseteq od \cup Taken(c)
  PROVE  PlacedBy(js, i, j, z, s, ou, od2)
BY DEF PlacedBy, GetsPlaced, Asked

(* ... it reads content ...                                                  *)
LEMMA PlaceGot ==
  ASSUME NEW js, NEW i, NEW j, NEW c, NEW s, NEW ou, NEW od, PlacedBy(js, i, j, c, s, ou, od),
         c.unpacker # Default, ou = {}, Taken(s) = {}, c.unpacker \in Rests, NEW n \in Nat,
         ShareOf(js, i, j).pos \in Int, ShareOf(js, i, j).len \in Int,
         NEW z, z.state = c.state, z.file = c.file, z.unpacker = Later(c.unpacker, n), z.buffer = c.buffer,
         Taken(z) = {}
  PROVE  PlacedBy(js, i, j, z, s, ou, od)
<1>1. z.unpacker.job = c.unpacker.job /\ z.unpacker.pos = c.unpacker.pos + n /\ z.unpacker.left = c.unpacker.left - n
      /\ c.unpacker.pos \in Int /\ c.unpacker.left \in Int
  BY DEF Later, Rest, Rests
<1>2. c.unpacker.job = j /\ Kind(js, j, "get") /\ InShare(js, i, c.unpacker)
  BY DEF PlacedBy, GetsPlaced
<1>3. InShare(js, i, z.unpacker)
  BY <1>1, <1>2 DEF InShare
<1> QED BY <1>1, <1>2, <1>3 DEF PlacedBy, GetsPlaced

(* ... it asks for its share of a file ...                                   *)
LEMMA PlaceShare ==
  ASSUME NEW js, NEW i, NEW j, NEW c, NEW s, NEW ou, NEW od, PlacedBy(js, i, j, c, s, ou, od),
         c.state = "PREPARE", c.file # None, Taken(s) = {}, od = {},
         NEW k, Taken(c) = {k}, k.order = 0, k.len >= 0,
         NEW z, z.state = "BUSY", z.file = c.file, z.buffer = c.buffer, Taken(z) = {},
         z.unpacker = Rest(c.file, Share(k.len, i).pos, Share(k.len, i).len), Share(k.len, i).pos \in Int,
         NEW m, m = Msg(1, c.file, Share(k.len, i).pos, Share(k.len, i).len)
  PROVE  PlacedBy(js, i, j, z, s, {m}, od)
<1>1. j \in DOMAIN js /\ c.file = j
  BY DEF PlacedBy
<1>2. Kind(js, j, "get") /\ k.len = js[j].len /\ s.state = "PREPARE" /\ s.file = j
  BY DEF PlacedBy, Answered, KindOf
<1>3. Share(k.len, i) = ShareOf(js, i, j)
  BY <1>2 DEF ShareOf
<1>4. z.unpacker.job = j /\ z.unpacker.pos = ShareOf(js, i, j).pos /\ z.unpacker.left = ShareOf(js, i, j).len
  BY <1>1, <1>3 DEF Rest
<1>5. m.order = 1 /\ m.job = j /\ m.pos = ShareOf(js, i, j).pos
  BY <1>1, <1>3 DEF Msg
<1>7. GetsPlaced(js, i, j, z)
  BY <1>2, <1>3, <1>4 DEF GetsPlaced, InShare
<1>8. Asked(js, i, j, z, s, m)
  BY <1>2, <1>4, <1>5 DEF Asked, KindOf
<1> QED BY <1>1, <1>7, <1>8 DEF PlacedBy

(* ... it asks for a file, or to put one ...                                 *)
LEMMA PlaceRequest ==
  ASSUME NEW js, NEW i, NEW j, NEW c, NEW s, NEW ou, NEW od, PlacedBy(js, i, j, c, s, ou, od),
         Taken(s) = {}, od = {}, c.unpacker = Default, c.buffer.left = 0,
         s.unpacker.job \in Int, j \in Int, NEW g \in Int, j <= g,
         NEW m, m.order # 1, m.job = g, Kind(js, g, KindOf(m.order)),
         m.order = 11 => m.pos = ShareOf(js, i, g).pos /\ m.len = ShareOf(js, i, g).len,
         NEW z, z.file \in {None, g}, z.unpacker = Default, z.buffer.left = 0, Taken(z) = {}
  PROVE  PlacedBy(js, i, g, z, s, {m}, od)
<1>1. Asked(js, i, g, z, s, m)
  BY DEF Asked
<1>2. PutsPlaced(js, i, g, s)
  BY DEF PlacedBy, PutsPlaced
<1>3. g \in DOMAIN js
  BY DEF Kind
<1> QED BY <1>1, <1>2, <1>3 DEF PlacedBy, GetsPlaced

(* ... or is idle while another does ...                                     *)
LEMMA PlaceWait ==
  ASSUME NEW js, NEW i, NEW j, NEW c, NEW s, NEW ou, NEW od, PlacedBy(js, i, j, c, s, ou, od),
         ou = {}, Taken(s) = {}, od = {}, Taken(c) = {}, c.state = "IDLE", c.unpacker = Default, c.buffer.left = 0,
         s.unpacker.job \in Int, j \in Int, NEW g \in Int, j <= g
  PROVE  PlacedBy(js, i, g, c, s, ou, od)
<1>1. PutsPlaced(js, i, g, s)
  BY DEF PlacedBy, PutsPlaced
<1> QED BY <1>1 DEF PlacedBy, GetsPlaced

(* ... or it sends its share, the server being ready.                        *)
LEMMA PlacePut ==
  ASSUME NEW js, NEW i, NEW j, NEW c, NEW s, NEW ou, NEW od, PlacedBy(js, i, j, c, s, ou, od),
         c.state = "PREPARE", c.file # None, ou = {}, Taken(s) = {}, od = {}, c.unpacker = Default,
         NEW z, z.state = "BUSY", z.file = c.file, z.unpacker = Default, z.buffer.job = c.file,
         Taken(z) \subseteq Taken(c)
  PROVE  PlacedBy(js, i, j, z, s, ou, od)
BY DEF PlacedBy, GetsPlaced

(* The server handles what it has, reads an order, or completes a write ...  *)
LEMMA PlaceServed ==
  ASSUME NEW js, NEW i, NEW j, NEW c, NEW s, NEW ou, NEW od, PlacedBy(js, i, j, c, s, ou, od),
         NEW t, NEW ou2, ou2 \cup Taken(t) \subseteq ou \cup Taken(s),
         \/ t.unpacker = s.unpacker
         \/ t.unpacker = Default /\ \A m \in od \cup Taken(c) : ~Granted(m),
         t.unpacker # Default => t.state = s.state /\ (Sends(t.out) => Sends(s.out)),
         \/ t.state = s.state /\ t.file = s.file
         \/ s.state # "PREPARE"
         \/ ou2 = {} /\ Taken(t) = {} /\ od = {} /\ Taken(c) = {}
  PROVE  PlacedBy(js, i, j, c, t, ou2, od)
<1>1. PutsPlaced(js, i, j, t)
  BY DEF PlacedBy, PutsPlaced
<1>2. \A m \in ou2 \cup Taken(t) : Asked(js, i, j, c, t, m)
  BY DEF PlacedBy, Asked
<1>3. \A m \in od \cup Taken(c) : Answered(js, i, j, t, m)
  BY DEF PlacedBy, Answered
<1> QED BY <1>1, <1>2, <1>3 DEF PlacedBy

(* ... it reads content ...                                                  *)
LEMMA PlacePutGot ==
  ASSUME NEW js, NEW i, NEW j, NEW c, NEW s, NEW ou, NEW od, PlacedBy(js, i, j, c, s, ou, od),
         s.unpacker # Default, Taken(s) = {}, s.unpacker \in Rests, NEW n \in Nat,
         ShareOf(js, i, s.unpacker.job).pos \in Int, ShareOf(js, i, s.unpacker.job).len \in Int,
         \A m \in od \cup Taken(c) : ~Granted(m),
         NEW t, t.state = s.state, t.file = s.file, t.unpacker = Later(s.unpacker, n), t.out = s.out,
         Taken(t) = {}
  PROVE  PlacedBy(js, i, j, c, t, ou, od)
<1>1. t.unpacker.job = s.unpacker.job /\ t.unpacker.pos = s.unpacker.pos + n /\ t.unpacker.left = s.unpacker.left - n
      /\ s.unpacker.pos \in Int /\ s.unpacker.left \in Int
  BY DEF Later, Rest, Rests
<1>2. PutsPlaced(js, i, j, t)
  <2>1. InShare(js, i, s.unpacker)
    BY DEF PlacedBy, PutsPlaced
  <2>2. InShare(js, i, t.unpacker)
    BY <1>1, <2>1 DEF InShare
  <2> QED BY <1>1, <2>2 DEF PlacedBy, PutsPlaced
<1>3. \A m \in ou \cup Taken(t) : Asked(js, i, j, c, t, m)
  BY DEF PlacedBy, Asked
<1>4. \A m \in od \cup Taken(c) : Answered(js, i, j, t, m)
  BY DEF PlacedBy, Answered
<1> QED BY <1>2, <1>3, <1>4 DEF PlacedBy

(* ... it answers ...                                                        *)
LEMMA PlaceAnswer ==
  ASSUME NEW js, NEW i, NEW j, NEW c, NEW s, NEW ou, NEW od, PlacedBy(js, i, j, c, s, ou, od),
         ou = {}, Taken(c) = {}, NEW k, Taken(s) = {k},
         NEW a, a.order = k.order, a.job = k.job, ~Granted(a),
         NEW t, t.unpacker = Default, Taken(t) = {},
         a.order = 0 /\ a.len >= 0 => a.len = js[k.job].len /\ t.state = "PREPARE" /\ t.file = k.job
  PROVE  PlacedBy(js, i, j, c, t, ou, {a})
<1>1. k.job = j /\ Kind(js, j, KindOf(k.order))
  BY DEF PlacedBy, Asked
<1>2. Answered(js, i, j, t, a)
  BY <1>1 DEF Answered
<1> QED BY <1>2 DEF PlacedBy, PutsPlaced

(* ... or prepares to read a share.                                          *)
LEMMA PlaceGrant ==
  ASSUME NEW js, NEW i, NEW j \in Int, NEW c, NEW s, NEW ou, NEW od, PlacedBy(js, i, j, c, s, ou, od),
         ou = {}, Taken(c) = {}, NEW k, Taken(s) = {k}, k.order = 11, k.pos \in Int, k.len \in Int,
         NEW a, a.order = 11, a.job = k.job,
         NEW t, t.state = "BUSY", t.unpacker = Rest(k.job, k.pos, k.len), ~Sends(t.out), Taken(t) = {}
  PROVE  PlacedBy(js, i, j, c, t, ou, {a})
<1>1. /\ k.job = j /\ Kind(js, j, KindOf(11)) /\ k.pos = ShareOf(js, i, j).pos
      /\ k.len = ShareOf(js, i, j).len
  BY DEF PlacedBy, Asked
<1>2. Kind(js, j, "put")
  BY <1>1 DEF KindOf
<1>3. t.unpacker.job = j /\ t.unpacker.pos = k.pos /\ t.unpacker.left = k.len
  BY <1>1 DEF Rest
<1>4. InShare(js, i, t.unpacker)
  BY <1>1, <1>3 DEF InShare
<1>5. Answered(js, i, j, t, a)
  BY <1>1, <1>3 DEF Answered
<1>6. PutsPlaced(js, i, j, t)
  BY <1>2, <1>3, <1>4 DEF PutsPlaced
<1> QED BY <1>5, <1>6 DEF PlacedBy

-----------------------------------------------------------------------------
(* A product grows with its factor.                                          *)
LEMMA TimesGrows ==
  ASSUME NEW q \in Nat, NEW a \in Nat, NEW b \in Nat, a <= b
  PROVE  q * a \in Nat /\ q * a <= q * b
<1>1. b - a \in Nat
  OBVIOUS
<1>2. q * (b - a) >= 0
  BY <1>1
<1>3. q * b = q * a + q * (b - a)
  BY <1>1
<1>4. q * a \in Nat /\ q * b \in Nat /\ q * (b - a) \in Int
  BY <1>1
<1> QED BY <1>2, <1>3, <1>4

(* The shares of a file are parts of it, one behind the other.               *)
LEMMA ShareParts ==
  ASSUME FileTransferAssumption, NEW n \in Nat, NEW i \in Links, NEW x, x = Share(n, i)
  PROVE  /\ x.pos \in Nat /\ x.len \in Nat /\ x.pos + x.len <= n
         /\ \A k \in Links : i < k => x.pos + x.len <= Share(n, k).pos
<1> DEFINE q == n \div link_num
<1>1. link_num \in Nat /\ link_num > 0 /\ i \in Nat /\ i < link_num
  BY DEF FileTransferAssumption, Links
<1>2. q \in Nat /\ q * link_num <= n
  BY <1>1, Z3
<1>3. x.pos = q * i /\ x.len = IF i = link_num - 1 THEN n - q * i ELSE q
  BY DEF Share
<1> HIDE DEF q
<1>4. q * i \in Nat /\ q * i <= q * link_num
  BY <1>1, <1>2, TimesGrows
<1>5. q * (i + 1) = q * i + q
  BY <1>1, <1>2
<1>6. q * (i + 1) <= q * link_num
  BY <1>1, <1>2, TimesGrows
<1>7. q * link_num \in Nat
  BY <1>1, <1>2
<1>8. x.pos \in Nat /\ x.len \in Nat /\ x.pos + x.len <= n
  <2>1. CASE i = link_num - 1
    BY <1>2, <1>3, <1>4, <1>7, <2>1
  <2>2. CASE i # link_num - 1
    BY <1>2, <1>3, <1>4, <1>5, <1>6, <1>7, <2>2
  <2> QED BY <2>1, <2>2
<1>9. ASSUME NEW k \in Links, i < k PROVE x.pos + x.len <= Share(n, k).pos
  <2>1. k \in Nat /\ k < link_num /\ i # link_num - 1 /\ i + 1 <= k
    BY <1>1, <1>9 DEF Links
  <2>2. Share(n, k).pos = q * k
    BY DEF Share, q
  <2>3. q * (i + 1) <= q * k
    BY <1>1, <1>2, <2>1, TimesGrows
  <2> QED BY <1>3, <1>5, <2>1, <2>2, <2>3
<1> QED BY <1>8, <1>9

(* What link i has still to move of the current job.                         *)
Todo(js, i, j, c) ==
    LET sh == ShareOf(js, i, j)
        end == sh.pos + sh.len - 1
    IN  CASE c.state = "PREPARE" /\ c.file = None -> 0 .. js[j].len - 1
          [] c.state = "PREPARE" /\ c.file # None -> sh.pos .. end
          [] c.state = "BUSY" /\ c.unpacker # Default -> c.unpacker.pos .. end
          [] c.state = "BUSY" /\ c.unpacker = Default /\ c.buffer.left > 0 -> c.buffer.pos .. end
          [] OTHER -> {}

(* ... by the state of its socket.                                           *)
LEMMA TodoCases ==
  ASSUME NEW js, NEW i, NEW j, NEW c, NEW e, e = ShareOf(js, i, j).pos + ShareOf(js, i, j).len - 1
  PROVE  /\ c.state = "IDLE" => Todo(js, i, j, c) = {}
         /\ c.state = "PREPARE" /\ c.file = None => Todo(js, i, j, c) = 0 .. js[j].len - 1
         /\ c.state = "PREPARE" /\ c.file # None => Todo(js, i, j, c) = ShareOf(js, i, j).pos .. e
         /\ c.state = "BUSY" /\ c.unpacker # Default => Todo(js, i, j, c) = c.unpacker.pos .. e
         /\ c.state = "BUSY" /\ c.unpacker = Default /\ c.buffer.left > 0 => Todo(js, i, j, c) = c.buffer.pos .. e
         /\ c.state = "BUSY" /\ c.unpacker = Default /\ ~(c.buffer.left > 0) => Todo(js, i, j, c) = {}
<1> DEFINE c1 == c.state = "PREPARE" /\ c.file = None
           c2 == c.state = "PREPARE" /\ c.file # None
           c3 == c.state = "BUSY" /\ c.unpacker # Default
           c4 == c.state = "BUSY" /\ c.unpacker = Default /\ c.buffer.left > 0
           r1 == 0 .. js[j].len - 1
           r2 == ShareOf(js, i, j).pos .. e
           r3 == c.unpacker.pos .. e
           r4 == c.buffer.pos .. e
           t == Todo(js, i, j, c)
<1>1. t = CASE c1 -> r1 [] c2 -> r2 [] c3 -> r3 [] c4 -> r4 [] OTHER -> {}
  BY DEF Todo
<1>2. ~(c1 /\ c2) /\ ~(c1 /\ c3) /\ ~(c1 /\ c4) /\ ~(c2 /\ c3) /\ ~(c2 /\ c4) /\ ~(c3 /\ c4)
  OBVIOUS
<1> HIDE DEF c1, c2, c3, c4, r1, r2, r3, r4, t
<1>3. /\ c1 => t = r1
      /\ c2 => t = r2
      /\ c3 => t = r3
      /\ c4 => t = r4
      /\ ~c1 /\ ~c2 /\ ~c3 /\ ~c4 => t = {}
  BY ONLY <1>1, <1>2
<1> QED BY <1>3 DEF c1, c2, c3, c4, r1, r2, r3, r4, t

-----------------------------------------------------------------------------
(* What a socket and its pipe become.  It goes idle, with the default        *)
(* unpacker, and nothing is left to handle ...                               *)
LEMMA FormEnd ==
  ASSUME NEW J, NEW c, NEW u, Sound(J, c, u), c.got # <<>>,
         NEW t, Reset(c, t) \/ (c.unpacker = Default /\ Idled(c, t)), NEW z, z = Popped(t)
  PROVE  /\ z.state = "IDLE" /\ z.file = None /\ z.unpacker = Default /\ z.buffer = c.buffer
         /\ z.out = c.out /\ Taken(z) = {} /\ Pipe(z, u) = Pipe(c, u)
<1>1. Sound(J, t, u) /\ Pipe(t, u) = Pipe(c, u) /\ EndOnly(c, t, Default)
  BY ResetSound, IdleSound
<1>2. t.got # <<>>
  BY <1>1 DEF EndOnly
<1>3. PopOnly(t, z) /\ Pipe(z, u) = Pipe(t, u)
  BY <1>1, <1>2, PopSound
<1> QED BY <1>1, <1>3 DEF PopOnly, EndOnly

(* ... it has sent an order ...                                              *)
LEMMA FormOrder ==
  ASSUME NEW J \in SUBSET Int, NEW t, NEW u, Sound(J, t, u), ~Sends(t.out), Orders(Pipe(t, u)) = {},
         NEW m \in Messages, IsOrder(J, m), NEW b, b = <<m>>, NEW r, r = Send(t, u, b),
         NEW z, (t.got = <<>> /\ z = r.s) \/ (t.got # <<>> /\ z = Popped(r.s))
  PROVE  /\ z.state = t.state /\ z.file = t.file /\ z.unpacker = t.unpacker /\ z.buffer = t.buffer
         /\ Taken(z) = {} /\ ~Sends(z.out)
         /\ Amount(Pipe(z, r.wire)) = Amount(Pipe(t, u)) /\ Orders(Pipe(z, r.wire)) = {m}
         /\ \A x, y : Stream(Pipe(t, u), x, y) => Stream(Pipe(z, r.wire), x, y)
<1>1. Sound(J, t, u) /\ ~Sends(t.out) /\ Orders(Pipe(t, u)) = {} /\ IsStream(J, Pipe(t, u))
  BY DEF Sound
<1>2. Sound(J, r.s, r.wire) /\ OutOnly(t, r.s) /\ ~Sends(r.s.out)
  BY OrderSent
<1>3. Pipe(r.s, r.wire) = Pipe(t, u) \o b
  <2>1. OfContent(b) \/ OfOrder(J, b)
    BY DEF OfOrder
  <2>2. J \in SUBSET Int /\ r = Send(t, u, b)
    OBVIOUS
  <2> QED BY ONLY <1>1, <2>1, <2>2, BatchSent
<1>4. /\ Amount(Pipe(r.s, r.wire)) = Amount(Pipe(t, u)) /\ Orders(Pipe(r.s, r.wire)) = {m}
      /\ \A x, y : Stream(Pipe(t, u), x, y) => Stream(Pipe(r.s, r.wire), x, y)
  BY <1>1, <1>3, OrderBehind
<1>5. CASE t.got = <<>> /\ z = r.s
  BY <1>2, <1>4, <1>5 DEF OutOnly, Taken
<1>6. CASE t.got # <<>> /\ z = Popped(r.s)
  <2>1. r.s.got # <<>>
    BY <1>2, <1>6 DEF OutOnly
  <2>2. PopOnly(r.s, z) /\ Pipe(z, r.wire) = Pipe(r.s, r.wire)
    BY <1>2, <1>6, <2>1, PopSound
  <2> QED BY <1>2, <1>4, <2>2 DEF OutOnly, PopOnly
<1> QED BY <1>5, <1>6

(* ... or a chunk of a file, n bytes ...                                     *)
Sending(J, t, u, v) ==
    /\ Sound(J, t, u) /\ ~Sends(t.out) /\ Orders(Pipe(t, u)) = {} /\ t.buffer.left > 0
    /\ v \in Rests /\ Stream(Pipe(t, u), t.buffer, v)
Chunked(t, u, n, r, z) ==
    n = ChunkSize(t) /\ r = SendChunk(t, u) /\ (z = r.s \/ (t.got # <<>> /\ z = Popped(r.s)))

(* What a socket and its pipe become when it sends a chunk of its file.      *)
LEMMA FormChunk ==
  ASSUME FileTransferAssumption, NEW J \in SUBSET Int, NEW t, NEW u, NEW v, Sending(J, t, u, v),
         NEW n, NEW r, NEW z, Chunked(t, u, n, r, z)
  PROVE  /\ n \in Nat /\ n > 0 /\ n <= t.buffer.left /\ z.buffer = Later(t.buffer, n)
         /\ z.state = t.state /\ z.file = t.file /\ z.unpacker = t.unpacker
         /\ z = Popped(r.s) /\ t.got # <<>> => Taken(z) = {}
         /\ Taken(z) \subseteq Taken(t) /\ Sends(z.out)
         /\ Amount(Pipe(z, r.wire)) = Amount(Pipe(t, u)) + n /\ Orders(Pipe(z, r.wire)) = {}
         /\ Stream(Pipe(z, r.wire), z.buffer, v)
<1> DEFINE b == Bytes(t.buffer, n)
           y == [t EXCEPT !.buffer = Later(t.buffer, n)]
           w == Later(t.buffer, n)
<1>0. /\ Sound(J, t, u) /\ ~Sends(t.out) /\ Orders(Pipe(t, u)) = {} /\ t.buffer.left > 0
      /\ v \in Rests /\ Stream(Pipe(t, u), t.buffer, v)
      /\ n = ChunkSize(t) /\ r = SendChunk(t, u) /\ (z = r.s \/ (t.got # <<>> /\ z = Popped(r.s)))
  BY DEF Sending, Chunked
<1>1. /\ t \in Sockets /\ t.buffer \in Rests /\ MaxTransfer \in Nat \ {0} /\ IsStream(J, Pipe(t, u))
      /\ GotOK(J, t) /\ t.file \in J \cup {None}
  BY <1>0 DEF Sound, Sockets, FileTransferAssumption, Rests
<1>2. n \in Nat /\ n > 0 /\ n <= t.buffer.left
  BY <1>0, <1>1 DEF ChunkSize, Least, Rests
<1>3. r = Send(y, u, b)
  BY <1>0 DEF SendChunk, Bytes, Later
<1> HIDE DEF b
<1>4. Stream(Pipe(t, u) \o b, w, v) /\ OfContent(b) /\ Amount(Pipe(t, u) \o b) = Amount(Pipe(t, u)) + n
  <2> DEFINE p == Pipe(t, u)
             g == t.buffer
  <2>1. J \in SUBSET Int /\ Takes(J, p, g, v, n)
    BY <1>0, <1>1, <1>2 DEF Takes
  <2> HIDE DEF p, g
  <2>2. /\ Stream(p \o Bytes(g, n), Later(g, n), v) /\ OfContent(Bytes(g, n))
        /\ Amount(p \o Bytes(g, n)) = Amount(p) + n
    BY ONLY <2>1, ChunkFollows
  <2> QED BY <2>2 DEF p, g, b
<1>5. w \in Rests
  BY <1>1, <1>2 DEF Later, Rest, Rests
<1> HIDE DEF w
<1>6. y \in Sockets /\ y.buffer = w /\ y.out = t.out /\ y.state = t.state /\ y.file = t.file
      /\ y.unpacker = t.unpacker /\ y.reading = t.reading /\ y.got = t.got
  BY <1>1, <1>5 DEF Sockets, Rests, w
<1> HIDE DEF y
<1>7. Sound(J, y, u) /\ Pipe(y, u) = Pipe(t, u)
  <2>1. GotOK(J, y) /\ y.file \in J \cup {None}
    BY <1>1, <1>6 DEF GotOK
  <2> QED BY <1>0, <1>6, <2>1, Resound
<1>8. ~Sends(y.out) /\ Orders(Pipe(y, u)) = {} /\ Sound(J, y, u) /\ J \in SUBSET Int
  BY <1>0, <1>6, <1>7
<1>9. Sound(J, r.s, r.wire) /\ OutOnly(y, r.s) /\ Sends(r.s.out) /\ Orders(Pipe(r.s, r.wire)) = {}
  BY ONLY <1>3, <1>4, <1>8, ContentSent
<1>10. Pipe(r.s, r.wire) = Pipe(t, u) \o b
  <2>1. OfContent(b) \/ OfOrder(J, b)
    BY <1>4
  <2>2. Pipe(r.s, r.wire) = Pipe(y, u) \o b
    BY ONLY <1>3, <1>8, <2>1, BatchSent
  <2> QED BY <1>7, <2>2
<1>11. r.s.buffer = w /\ r.s.state = t.state /\ r.s.file = t.file /\ r.s.unpacker = t.unpacker
       /\ r.s.got = t.got /\ Taken(r.s) = Taken(t)
  BY <1>6, <1>9 DEF OutOnly, Taken
<1>12. CASE z = r.s /\ ~(t.got # <<>> /\ z = Popped(r.s))
  BY <1>2, <1>4, <1>9, <1>10, <1>11, <1>12 DEF w
<1>13. CASE t.got # <<>> /\ z = Popped(r.s)
  <2>1. r.s.got # <<>>
    BY <1>11, <1>13
  <2>2. PopOnly(r.s, z) /\ Pipe(z, r.wire) = Pipe(r.s, r.wire)
    <3>1. Sound(J, r.s, r.wire) /\ z = Popped(r.s)
      BY <1>9, <1>13
    <3> QED BY ONLY <2>1, <3>1, PopSound
  <2> QED BY <1>2, <1>4, <1>9, <1>10, <1>11, <2>2 DEF w, PopOnly
<1> QED BY <1>0, <1>12, <1>13

(* n bytes that u wanted.                                                    *)
Wanted(u, bytes, n) ==
    /\ u \in Rests /\ n \in Nat /\ DOMAIN bytes = 1 .. n
    /\ \A k \in 1 .. n : bytes[k] = Msg(Content, u.job, u.pos + k - 1, 1)

(* ... or it has read n bytes, which are what it wanted.                     *)
LEMMA FormRead ==
  ASSUME NEW J \in SUBSET Int, NEW s, s \in Sockets, NEW t, NEW w, Sound(J, t, w),
         s.unpacker # Default, NEW b \in Rests, Stream(Pipe(t, w), b, s.unpacker),
         NEW n, n <= Amount(Pipe(t, w)), NEW bytes, NEW rest, NEW z, Reading(s, w, n, bytes, rest, z)
  PROVE  /\ n \in Nat /\ n > 0 /\ z.unpacker = Later(s.unpacker, n)
         /\ Stream(Pipe(t, rest), b, z.unpacker) /\ Amount(Pipe(t, rest)) = Amount(Pipe(t, w)) - n
         /\ Wanted(s.unpacker, bytes, n)
<1> DEFINE p == Pipe(t, w)
           q == Pipe(t, rest)
<1>1. Split(w, n, bytes, rest) /\ n \in Nat /\ n > 0
  <2>1. Len(w) \in Nat
    BY LenProperties DEF Sound
  <2> QED BY <2>1 DEF Reading, Readable, Split
<1>2. rest \in Seq(Messages) /\ Begins(bytes, n, p) /\ Cut(p, n, q)
  BY <1>1, FirstRead
<1>3. s.unpacker \in Rests /\ IsStream(J, p)
  BY DEF Sockets, Rests, Sound
<1> HIDE DEF p, q
<1>4. /\ Stream(q, b, Later(s.unpacker, n)) /\ Amount(q) = Amount(p) - n
      /\ \A k \in 1 .. n : p[k] = Msg(Content, s.unpacker.job, s.unpacker.pos + k - 1, 1)
  BY <1>2, <1>3, ReadFollows DEF p
<1>5. DOMAIN bytes = 1 .. n /\ Len(bytes) = n
  BY <1>2 DEF Begins
<1>6. z.unpacker = Later(s.unpacker, n)
  BY <1>5 DEF Reading, parse_msg, Later, Sockets
<1>7. Wanted(s.unpacker, bytes, n)
  BY <1>1, <1>2, <1>3, <1>4, <1>5 DEF Wanted, Begins
<1> QED BY <1>1, <1>4, <1>6, <1>7 DEF p, q

-----------------------------------------------------------------------------
(* What of job j is among the positions w that are written, and what is on   *)
(* its way to be: n bytes for unpacker u.                                    *)
At(w, j) == {v[2] : v \in {x \in w : x[1] = j}}
Way(u, n, j) == IF u # Default /\ u.job = j THEN u.pos .. u.pos + n - 1 ELSE {}

(* A byte is of a job that is not after j, and where it was in the file.     *)
Right(js, j, v) ==
    /\ v[1] \in DOMAIN js /\ v[1] <= j /\ v[2] \in 0 .. js[v[1]].len - 1
    /\ v = <<v[1], v[2], Byte(v[1], v[2])>>

(* A link that agrees, its positions, and the jobs.                          *)
Held(js, i, j, c, s, u, d) ==
    /\ Linked(DOMAIN js, c, s, u, d) /\ Placed(js, i, j, c, s, Pipe(c, u), Pipe(s, d))
    /\ i \in Links /\ j \in Nat /\ DOMAIN js \in SUBSET (Nat \ {0}) /\ \A g \in DOMAIN js : js[g].len \in Nat

(* A step of link i: w is written, the positions p of j join what is moved.  *)
Moves(js, i, j, c, s, u, z, t, ux, dx, w, p) ==
    /\ Placed(js, i, j, z, t, Pipe(z, ux), Pipe(t, dx))
    /\ p \subseteq Todo(js, i, j, c) /\ Todo(js, i, j, z) \subseteq Todo(js, i, j, c) \ p
    /\ \A g : At(w, g) \cup Way(t.unpacker, Amount(Pipe(z, ux)), g)
              = Way(s.unpacker, Amount(Pipe(c, u)), g) \cup IF g = j THEN p ELSE {}
    /\ \A v \in w : Right(js, j, v)

(* What such a link is known to be.                                          *)
LEMMA HeldTyped ==
  ASSUME FileTransferAssumption, NEW js, NEW i, NEW j, NEW c, NEW s, NEW u, NEW d, Held(js, i, j, c, s, u, d)
  PROVE  /\ DOMAIN js \in SUBSET Int /\ Sound(DOMAIN js, c, u) /\ Sound(DOMAIN js, s, d)
         /\ c \in Sockets /\ s \in Sockets
         /\ c.unpacker \in Rests /\ s.unpacker \in Rests /\ c.buffer \in Rests /\ s.buffer \in Rests
         /\ Amount(Pipe(c, u)) \in Nat /\ Amount(Pipe(s, d)) \in Nat
         /\ Agreed(c, s, Amount(Pipe(c, u)), Orders(Pipe(c, u)), Amount(Pipe(s, d)), Orders(Pipe(s, d)))
         /\ PlacedBy(js, i, j, c, s, Orders(Pipe(c, u)), Orders(Pipe(s, d)))
         /\ Stream(Pipe(s, d), s.buffer, c.unpacker) /\ Stream(Pipe(c, u), c.buffer, s.unpacker)
         /\ \A g \in DOMAIN js : ShareOf(js, i, g).pos \in Nat /\ ShareOf(js, i, g).len \in Nat
                                 /\ ShareOf(js, i, g).pos + ShareOf(js, i, g).len <= js[g].len
<1>1. Linked(DOMAIN js, c, s, u, d) /\ Placed(js, i, j, c, s, Pipe(c, u), Pipe(s, d))
      /\ i \in Links /\ DOMAIN js \in SUBSET (Nat \ {0}) /\ \A g \in DOMAIN js : js[g].len \in Nat
  BY DEF Held
<1>2. /\ Sound(DOMAIN js, c, u) /\ Sound(DOMAIN js, s, d) /\ c \in Sockets /\ s \in Sockets
      /\ Amount(Pipe(c, u)) \in Nat /\ Amount(Pipe(s, d)) \in Nat
      /\ Agreed(c, s, Amount(Pipe(c, u)), Orders(Pipe(c, u)), Amount(Pipe(s, d)), Orders(Pipe(s, d)))
  BY <1>1, LinkTyped DEF Linked
<1>3. c.unpacker \in Rests /\ s.unpacker \in Rests /\ c.buffer \in Rests /\ s.buffer \in Rests
  BY <1>2 DEF Sockets, Rests
<1>4. \A g \in DOMAIN js : ShareOf(js, i, g).pos \in Nat /\ ShareOf(js, i, g).len \in Nat
                           /\ ShareOf(js, i, g).pos + ShareOf(js, i, g).len <= js[g].len
  BY <1>1, ShareParts DEF ShareOf
<1> QED BY <1>1, <1>2, <1>3, <1>4 DEF Placed

(* Nothing moves where unpacker and content under way are as they were, or   *)
(* there is no content.                                                      *)
LEMMA NoMove ==
  ASSUME NEW js, NEW i, NEW j, NEW c, NEW s, NEW u, NEW z, NEW t, NEW ux, NEW dx,
         Placed(js, i, j, z, t, Pipe(z, ux), Pipe(t, dx)),
         Todo(js, i, j, z) \subseteq Todo(js, i, j, c),
         Amount(Pipe(z, ux)) = Amount(Pipe(c, u)), s.unpacker \in Rests, t.unpacker \in Rests,
         t.unpacker = s.unpacker \/ Amount(Pipe(c, u)) = 0
  PROVE  Moves(js, i, j, c, s, u, z, t, ux, dx, {}, {})
<1>1. ASSUME NEW g
      PROVE  Way(t.unpacker, Amount(Pipe(z, ux)), g) = Way(s.unpacker, Amount(Pipe(c, u)), g)
  <2>1. CASE t.unpacker = s.unpacker
    BY <2>1
  <2>2. CASE Amount(Pipe(c, u)) = 0
    <3>1. \A x \in Rests : Way(x, 0, g) = {}
      BY DEF Way, Rests
    <3> QED BY <2>2, <3>1
  <2> QED BY <2>1, <2>2
<1>2. \A g : At({}, g) = {}
  BY DEF At
<1> QED BY <1>1, <1>2 DEF Moves

(* The client goes idle ...                                                  *)
LEMMA ClientRests ==
  ASSUME FileTransferAssumption, NEW js, NEW i, NEW j, NEW c, NEW s, NEW u, NEW d, Held(js, i, j, c, s, u, d),
         NEW z, NEW ux, Linked(DOMAIN js, z, s, ux, d), z.state = "IDLE", z.unpacker = Default,
         z.buffer = c.buffer, Pipe(z, ux) = Pipe(c, u)
  PROVE  Moves(js, i, j, c, s, u, z, s, ux, d, {}, {})
<1> DEFINE ou == Orders(Pipe(c, u))
           od == Orders(Pipe(s, d))
<1>1. /\ s.unpacker \in Rests /\ PlacedBy(js, i, j, c, s, ou, od) /\ Stream(Pipe(c, u), c.buffer, s.unpacker)
  BY HeldTyped
<1>2. Agreed(z, s, Amount(Pipe(c, u)), ou, Amount(Pipe(s, d)), od)
  BY DEF Linked
<1>3. ou = {} /\ Taken(s) = {} /\ od = {} /\ Taken(z) = {} /\ s.buffer.left = 0 /\ Amount(Pipe(s, d)) = 0
  BY <1>2 DEF Agreed, Asks, Gets
<1> HIDE DEF ou, od
<1>4. PlacedBy(js, i, j, z, s, ou, od)
  BY <1>1, <1>3, PlaceEnd
<1>5. Stream(Pipe(s, d), s.buffer, z.unpacker)
  BY <1>3 DEF Stream, Follows, Feeds
<1>6. Placed(js, i, j, z, s, Pipe(z, ux), Pipe(s, d))
  BY <1>1, <1>4, <1>5 DEF Placed, ou, od
<1>7. Todo(js, i, j, z) = {}
  BY TodoCases
<1> QED BY <1>1, <1>6, <1>7, NoMove

(* ... or only handles a message or completes a write ...                    *)
LEMMA ClientStays ==
  ASSUME FileTransferAssumption, NEW js, NEW i, NEW j, NEW c, NEW s, NEW u, NEW d, Held(js, i, j, c, s, u, d),
         NEW z, NEW ux, z.state = c.state, z.file = c.file, z.unpacker = c.unpacker, z.buffer = c.buffer,
         Taken(z) \subseteq Taken(c), Pipe(z, ux) = Pipe(c, u)
  PROVE  Moves(js, i, j, c, s, u, z, s, ux, d, {}, {})
<1> DEFINE ou == Orders(Pipe(c, u))
           od == Orders(Pipe(s, d))
<1>1. /\ s.unpacker \in Rests /\ PlacedBy(js, i, j, c, s, ou, od) /\ Stream(Pipe(c, u), c.buffer, s.unpacker)
      /\ Stream(Pipe(s, d), s.buffer, c.unpacker)
  BY HeldTyped
<1> HIDE DEF ou, od
<1>2. PlacedBy(js, i, j, z, s, ou, od)
  BY <1>1, PlaceSame
<1>3. Placed(js, i, j, z, s, Pipe(z, ux), Pipe(s, d))
  BY <1>1, <1>2 DEF Placed, ou, od
<1>4. Todo(js, i, j, z) = Todo(js, i, j, c)
  BY DEF Todo
<1> QED BY <1>1, <1>3, <1>4, NoMove

(* ... or reads an order ...                                                 *)
LEMMA ClientTold ==
  ASSUME FileTransferAssumption, NEW js, NEW i, NEW j, NEW c, NEW s, NEW u, NEW d, Held(js, i, j, c, s, u, d),
         c.unpacker = Default, c.reading # "none",
         NEW n, NEW bytes, NEW rest, NEW z, Reading(c, d, n, bytes, rest, z)
  PROVE  Moves(js, i, j, c, s, u, z, s, u, rest, {}, {})
<1> DEFINE ou == Orders(Pipe(c, u))
           od == Orders(Pipe(s, d))
<1>1. /\ DOMAIN js \in SUBSET Int /\ Sound(DOMAIN js, c, u) /\ Sound(DOMAIN js, s, d)
      /\ s.unpacker \in Rests /\ PlacedBy(js, i, j, c, s, ou, od) /\ Stream(Pipe(c, u), c.buffer, s.unpacker)
      /\ Agreed(c, s, Amount(Pipe(c, u)), ou, Amount(Pipe(s, d)), od)
  BY HeldTyped
<1>2. Amount(Pipe(s, d)) = 0 /\ s.buffer.left = 0
  BY <1>1 DEF Agreed, Gets
<1>3. /\ Pipe(z, u) = Pipe(c, u) /\ Orders(Pipe(s, rest)) = {} /\ Amount(Pipe(s, rest)) = 0
      /\ \E m : Orders(Pipe(s, d)) = {m} /\ Taken(z) = {m}
      /\ z.state = c.state /\ z.file = c.file /\ z.unpacker = c.unpacker /\ z.buffer = c.buffer
  <2>1. c.unpacker = Default /\ c.reading # "none" /\ Reading(c, d, n, bytes, rest, z)
    OBVIOUS
  <2> DEFINE J == DOMAIN js
  <2>2. J \in SUBSET Int /\ Sound(J, c, u) /\ Sound(J, s, d)
    BY <1>1
  <2> HIDE DEF J
  <2>3. Amount(Pipe(s, d)) = 0
    BY <1>2
  <2>4. /\ ~Misread(c, bytes) /\ Sound(J, z, u) /\ Sound(J, s, rest) /\ Pipe(z, u) = Pipe(c, u)
        /\ Orders(Pipe(s, rest)) = {} /\ Amount(Pipe(s, rest)) = 0
        /\ \E m : Orders(Pipe(s, d)) = {m} /\ Taken(z) = {m}
        /\ z.state = c.state /\ z.file = c.file /\ z.unpacker = c.unpacker /\ z.buffer = c.buffer
        /\ z.out = c.out /\ z.got \notin {<<>>, <<Nothing>>}
    BY ONLY <2>1, <2>2, <2>3, ReadsOrder
  <2> QED BY <2>4
<1> HIDE DEF ou
<1>4. PlacedBy(js, i, j, z, s, ou, {})
  <2>1. {} \cup Taken(z) \subseteq od \cup Taken(c) /\ (z.buffer.left > 0 => c.buffer.left > 0 /\ z.buffer.job = c.buffer.job)
    BY <1>3
  <2> HIDE DEF od
  <2> QED BY ONLY <1>1, <1>3, <2>1, PlaceSame
<1>5. Stream(Pipe(s, rest), s.buffer, z.unpacker)
  BY <1>2, <1>3 DEF Stream, Follows, Feeds
<1>6. Placed(js, i, j, z, s, Pipe(z, u), Pipe(s, rest))
  BY <1>1, <1>3, <1>4, <1>5 DEF Placed, ou
<1>7. Todo(js, i, j, z) = Todo(js, i, j, c)
  BY <1>3 DEF Todo
<1> QED BY <1>1, <1>3, <1>6, <1>7, NoMove

-----------------------------------------------------------------------------
(* The content that is read and written to the file.                         *)
Laid(u, bytes) == {<<u.job, u.pos + k - 1, Byte(bytes[k].job, bytes[k].pos)>> : k \in DOMAIN bytes}

(* The bytes that are written are those of the file, at their own positions. *)
LEMMA LaidRight ==
  ASSUME NEW js, NEW j, NEW u, NEW bytes, NEW n, Wanted(u, bytes, n),
         u.job \in DOMAIN js, u.job <= j, u.pos >= 0, js[u.job].len \in Int, u.pos + n <= js[u.job].len
  PROVE  /\ \A v \in Laid(u, bytes) : Right(js, j, v)
         /\ \A g : At(Laid(u, bytes), g) = IF g = u.job THEN u.pos .. u.pos + n - 1 ELSE {}
<1>1. u.job \in Int /\ u.pos \in Int /\ n \in Nat /\ DOMAIN bytes = 1 .. n
  BY DEF Wanted, Rests
<1>2. \A k \in 1 .. n : bytes[k].job = u.job /\ bytes[k].pos = u.pos + k - 1
  BY DEF Wanted, Msg
<1>3. Laid(u, bytes) = {<<u.job, u.pos + k - 1, Byte(u.job, u.pos + k - 1)>> : k \in 1 .. n}
  BY <1>1, <1>2 DEF Laid
<1>4. ASSUME NEW v \in Laid(u, bytes) PROVE Right(js, j, v)
  <2>1. PICK k \in 1 .. n : v = <<u.job, u.pos + k - 1, Byte(u.job, u.pos + k - 1)>>
    BY <1>3
  <2>2. v[1] = u.job /\ v[2] = u.pos + k - 1 /\ v = <<v[1], v[2], Byte(v[1], v[2])>>
    BY <2>1
  <2>3. v[2] \in 0 .. js[u.job].len - 1
    BY <1>1, <2>2
  <2> QED BY <2>2, <2>3 DEF Right
<1>5. ASSUME NEW g PROVE At(Laid(u, bytes), g) = IF g = u.job THEN u.pos .. u.pos + n - 1 ELSE {}
  <2>1. \A v \in Laid(u, bytes) : v[1] = u.job /\ v[2] \in u.pos .. u.pos + n - 1
    BY <1>1, <1>3
  <2>2. ASSUME NEW x \in u.pos .. u.pos + n - 1 PROVE \E v \in Laid(u, bytes) : v[1] = u.job /\ v[2] = x
    <3> DEFINE k == x - u.pos + 1
    <3>1. k \in 1 .. n /\ u.pos + k - 1 = x
      BY <1>1
    <3>2. <<u.job, x, Byte(u.job, x)>> \in Laid(u, bytes)
      BY <1>3, <3>1
    <3> QED BY <3>2
  <2>3. CASE g = u.job
    <3>1. \A x : x \in At(Laid(u, bytes), g) <=> x \in u.pos .. u.pos + n - 1
      BY <2>1, <2>2, <2>3 DEF At
    <3> QED BY <2>3, <3>1
  <2>4. CASE g # u.job
    BY <2>1, <2>4 DEF At
  <2> QED BY <2>3, <2>4
<1> QED BY <1>4, <1>5

(* n positions in a row.                                                     *)
LEMMA Interval ==
  ASSUME NEW a \in Int, NEW n \in Nat
  PROVE  IsFiniteSet(a .. a + n - 1) /\ Cardinality(a .. a + n - 1) = n
<1> DEFINE b == a + n - 1
<1>1. b \in Int
  OBVIOUS
<1>2. b = a + n - 1
  OBVIOUS
<1> HIDE DEF b
<1>3. IsFiniteSet(a .. b) /\ Cardinality(a .. b) = IF a > b THEN 0 ELSE b - a + 1
  BY <1>1, FS_Interval
<1>4. (IF a > b THEN 0 ELSE b - a + 1) = n
  BY <1>1, <1>2
<1> QED BY <1>3, <1>4 DEF b

(* A read takes no more than the unpacker wants, nor more than there is.     *)
LEMMA ReadSize ==
  ASSUME FileTransferAssumption, NEW J, NEW s \in Sockets, NEW t, NEW w, Sound(J, t, w), s.unpacker # Default,
         NEW n, NEW bytes, NEW rest, NEW z, Reading(s, w, n, bytes, rest, z)
  PROVE  n \in Nat /\ n > 0 /\ n <= s.unpacker.left /\ (Orders(Pipe(t, w)) = {} => n <= Amount(Pipe(t, w)))
<1>1. n \in 1 .. Len(w) /\ n = Least(s.unpacker.left, MaxTransfer) /\ Len(w) \in Nat
  BY LenProperties DEF Reading, Readable, Sound
<1>2. n <= s.unpacker.left
  BY <1>1 DEF Least, FileTransferAssumption, Sockets
<1>3. Orders(Pipe(t, w)) = {} => Amount(Pipe(t, w)) = Len(Pipe(t, w))
  BY DEF Orders, Amount
<1>4. Len(w) <= Len(Pipe(t, w))
  BY PipeLen
<1>5. Len(Pipe(t, w)) \in Nat
  BY LenProperties DEF Sound, IsStream
<1> QED BY <1>1, <1>2, <1>3, <1>4, <1>5

(* The client reads content and writes it to its file.                       *)
LEMMA ClientGets ==
  ASSUME FileTransferAssumption, NEW js, NEW i, NEW j, NEW c, NEW s, NEW u, NEW d, Held(js, i, j, c, s, u, d),
         c.unpacker # Default, c.reading # "none",
         NEW n, NEW bytes, NEW rest, NEW z, Reading(c, d, n, bytes, rest, z)
  PROVE  \E p : /\ Moves(js, i, j, c, s, u, z, s, u, rest, Laid(c.unpacker, bytes), p)
                /\ IsFiniteSet(p) /\ Cardinality(p) = n
<1> DEFINE ou == Orders(Pipe(c, u))
           od == Orders(Pipe(s, d))
           J == DOMAIN js
           v == c.unpacker
           p == v.pos .. v.pos + n - 1
           sh == ShareOf(js, i, j)
<1>1. /\ J \in SUBSET Int /\ Sound(J, c, u) /\ Sound(J, s, d) /\ c \in Sockets /\ s \in Sockets
      /\ v \in Rests /\ s.unpacker \in Rests /\ s.buffer \in Rests
      /\ Amount(Pipe(c, u)) \in Nat /\ Amount(Pipe(s, d)) \in Nat
      /\ PlacedBy(js, i, j, c, s, ou, od) /\ Stream(Pipe(c, u), c.buffer, s.unpacker)
      /\ Stream(Pipe(s, d), s.buffer, v)
      /\ Agreed(c, s, Amount(Pipe(c, u)), ou, Amount(Pipe(s, d)), od)
      /\ \A g \in DOMAIN js : ShareOf(js, i, g).pos \in Nat /\ ShareOf(js, i, g).len \in Nat
                              /\ ShareOf(js, i, g).pos + ShareOf(js, i, g).len <= js[g].len
  BY HeldTyped
<1>2. c.state = "BUSY" /\ od = {} /\ Taken(c) = {}
  BY <1>1 DEF Agreed, Shape, Asks
<1>3. n \in Nat /\ n > 0 /\ n <= v.left /\ n <= Amount(Pipe(s, d))
  BY <1>1, <1>2, ReadSize
<1>4. ou = {} /\ Taken(s) = {}
  BY <1>1, <1>3 DEF Agreed, Gets
<1>0. c.unpacker # Default /\ c.reading # "none" /\ Reading(c, d, n, bytes, rest, z)
  OBVIOUS
<1> HIDE DEF J
<1>5. /\ z.unpacker = Later(v, n) /\ Stream(Pipe(s, rest), s.buffer, z.unpacker)
      /\ Wanted(v, bytes, n)
  <2> DEFINE b == s.buffer
  <2>1. /\ J \in SUBSET Int /\ c \in Sockets /\ Sound(J, s, d) /\ c.unpacker # Default /\ b \in Rests
        /\ Stream(Pipe(s, d), b, c.unpacker) /\ n <= Amount(Pipe(s, d)) /\ Reading(c, d, n, bytes, rest, z)
    BY <1>0, <1>1, <1>3
  <2> HIDE DEF b
  <2>2. /\ n \in Nat /\ n > 0 /\ z.unpacker = Later(c.unpacker, n)
        /\ Stream(Pipe(s, rest), b, z.unpacker) /\ Amount(Pipe(s, rest)) = Amount(Pipe(s, d)) - n
        /\ Wanted(c.unpacker, bytes, n)
    BY ONLY <2>1, FormRead
  <2> QED BY <2>2 DEF b
<1>6. /\ Pipe(z, u) = Pipe(c, u) /\ Orders(Pipe(s, rest)) = od
      /\ z.state = c.state /\ z.file = c.file /\ z.buffer = c.buffer /\ z.got = <<Nothing>>
  BY ONLY <1>0, <1>1, <1>3, ReadsContent
<1>7. Taken(z) = {}
  BY <1>6 DEF Taken
<1>8. v.job = j /\ Kind(js, j, "get") /\ InShare(js, i, v)
  BY <1>1 DEF PlacedBy, GetsPlaced
<1>9. /\ j \in DOMAIN js /\ sh.pos \in Nat /\ sh.len \in Nat /\ sh.pos + sh.len <= js[j].len
      /\ js[j].len \in Nat /\ j \in Nat
      /\ sh.pos <= v.pos /\ v.pos + v.left = sh.pos + sh.len /\ v.pos \in Int /\ v.left \in Int
  BY <1>1, <1>8 DEF Kind, InShare, Held, Rests
<1>10. PlacedBy(js, i, j, z, s, ou, od)
  <2> HIDE DEF ou, od, v
  <2>1. /\ PlacedBy(js, i, j, c, s, ou, od) /\ c.unpacker # Default /\ ou = {} /\ Taken(s) = {} /\ c.unpacker \in Rests
        /\ n \in Nat /\ ShareOf(js, i, j).pos \in Int /\ ShareOf(js, i, j).len \in Int
        /\ z.state = c.state /\ z.file = c.file /\ z.unpacker = Later(c.unpacker, n) /\ z.buffer = c.buffer
        /\ Taken(z) = {}
    BY <1>1, <1>3, <1>4, <1>5, <1>6, <1>7, <1>9 DEF v
  <2> QED BY ONLY <2>1, PlaceGot
<1>11. Placed(js, i, j, z, s, Pipe(z, u), Pipe(s, rest))
  BY <1>1, <1>5, <1>6, <1>10 DEF Placed
<1>12. /\ \A x \in Laid(v, bytes) : Right(js, j, x)
       /\ \A g : At(Laid(v, bytes), g) = IF g = j THEN p ELSE {}
  <2>1. Wanted(v, bytes, n)
    BY <1>5
  <2>2. v.pos >= 0 /\ v.pos + n <= js[v.job].len /\ v.job \in DOMAIN js /\ v.job <= j /\ js[v.job].len \in Int
    <3> HIDE DEF v, sh
    <3> QED BY <1>3, <1>8, <1>9
  <2> HIDE DEF v
  <2>3. /\ \A x \in Laid(v, bytes) : Right(js, j, x)
        /\ \A g : At(Laid(v, bytes), g) = IF g = v.job THEN v.pos .. v.pos + n - 1 ELSE {}
    BY ONLY <2>1, <2>2, LaidRight
  <2> QED BY <1>8, <2>3
<1>13. Todo(js, i, j, c) = v.pos .. sh.pos + sh.len - 1
  BY <1>2, TodoCases
<1>14. Todo(js, i, j, z) \subseteq v.pos + n .. sh.pos + sh.len - 1
  <2>1. z.state = "BUSY" /\ z.unpacker.pos = v.pos + n /\ z.buffer.left = 0
    BY <1>1, <1>2, <1>5, <1>6 DEF Later, Rest, Agreed, Shape
  <2>2. z.unpacker # Default
    <3>1. z.unpacker.job = v.job /\ v.job # None
      BY <1>1, <1>5 DEF Later, Rest, Agreed, Shape
    <3> QED BY <3>1 DEF Default, Rest
  <2>3. Todo(js, i, j, z) = z.unpacker.pos .. sh.pos + sh.len - 1
    BY <2>1, <2>2, TodoCases
  <2> QED BY <2>1, <2>3
<1>15. p \subseteq Todo(js, i, j, c) /\ Todo(js, i, j, z) \subseteq Todo(js, i, j, c) \ p
  <2> DEFINE e == sh.pos + sh.len - 1
             a == v.pos
  <2>1. a \in Int /\ e \in Int /\ a + n - 1 <= e /\ n \in Nat
    <3> HIDE DEF v, sh
    <3> QED BY <1>3, <1>9
  <2>2. Todo(js, i, j, c) = a .. e /\ Todo(js, i, j, z) \subseteq a + n .. e /\ p = a .. a + n - 1
    BY <1>13, <1>14
  <2> HIDE DEF a, e, p
  <2> QED BY ONLY <2>1, <2>2
<1>16. IsFiniteSet(p) /\ Cardinality(p) = n
  BY <1>3, <1>9, Interval
<1>17. Moves(js, i, j, c, s, u, z, s, u, rest, Laid(v, bytes), p)
  <2>1. \A g : At(Laid(v, bytes), g) \cup Way(s.unpacker, Amount(Pipe(z, u)), g)
               = Way(s.unpacker, Amount(Pipe(c, u)), g) \cup IF g = j THEN p ELSE {}
    BY <1>6, <1>12
  <2> HIDE DEF p, v
  <2> QED BY <1>11, <1>12, <1>15, <2>1 DEF Moves
<1> QED BY <1>16, <1>17

(* The client asks for its share.                                            *)
LEMMA ClientShares ==
  ASSUME FileTransferAssumption, NEW js, NEW i, NEW j, NEW c, NEW s, NEW u, NEW d, Held(js, i, j, c, s, u, d),
         c.got # <<>>, c.state = "PREPARE", c.file # None,
         NEW k, k = Head(c.got), k.order = 0, k.len >= 0, NEW x, x = Share(k.len, i),
         NEW t, NEW m, AsksFor(c, x.pos, x.len, t, m),
         NEW r, r = Send(t, u, <<m>>), NEW z, z = Popped(r.s)
  PROVE  Moves(js, i, j, c, s, u, z, s, r.wire, d, {}, {})
<1> DEFINE ou == Orders(Pipe(c, u))
           od == Orders(Pipe(s, d))
           J == DOMAIN js
<1>1. /\ J \in SUBSET Int /\ Sound(J, c, u) /\ c \in Sockets
      /\ c.unpacker \in Rests /\ s.unpacker \in Rests
      /\ PlacedBy(js, i, j, c, s, ou, od) /\ Stream(Pipe(c, u), c.buffer, s.unpacker)
      /\ Agreed(c, s, Amount(Pipe(c, u)), ou, Amount(Pipe(s, d)), od)
      /\ \A g \in DOMAIN js : ShareOf(js, i, g).pos \in Nat /\ ShareOf(js, i, g).len \in Nat
  BY HeldTyped
<1>2. c.unpacker = Default /\ Taken(c) = {k} /\ GotOK(J, c) /\ c.reading = "none" /\ c.file \in J
  <2>1. GotOK(J, c) /\ c.file \in J
    BY <1>1 DEF Sound
  <2>2. k # Nothing
    BY DEF Nothing, Msg, Empty
  <2>3. Taken(c) = {k} /\ c.reading = "none"
    BY <2>1, <2>2, Handled
  <2>4. c.unpacker = Default
    BY <1>1 DEF Agreed, Shape
  <2> QED BY <2>1, <2>3, <2>4
<1>3. ou = {} /\ Taken(s) = {} /\ od = {} /\ ~Sends(c.out) /\ s.buffer.left = 0 /\ Amount(Pipe(s, d)) = 0
  BY <1>1, <1>2 DEF Agreed, OneOrder, Shape, Gets
<1>4. j \in DOMAIN js /\ c.file = j /\ k.len = js[j].len
  BY <1>1, <1>2 DEF PlacedBy, Answered
<1>5. x = ShareOf(js, i, j) /\ x.pos \in Nat /\ x.len \in Nat
  BY <1>1, <1>4 DEF ShareOf
<1>6. /\ t = [c EXCEPT !.state = "BUSY", !.unpacker = Rest(c.file, x.pos, x.len)] /\ m = Msg(1, c.file, x.pos, x.len)
  BY <1>2 DEF AsksFor, SetUnpacker, Sockets
<1>7. m \in Messages /\ IsOrder(J, m)
  BY <1>1, <1>2, <1>5, <1>6 DEF Msg, Messages, IsOrder
<1>8. /\ t \in Sockets /\ t.state = "BUSY" /\ t.file = c.file /\ t.unpacker = Rest(c.file, x.pos, x.len)
      /\ t.buffer = c.buffer /\ t.got = c.got /\ t.out = c.out /\ t.reading = c.reading
  <2>1. Rest(c.file, x.pos, x.len) \in [job : Int, pos : Int, left : Int]
    BY <1>1, <1>2, <1>5 DEF Rest
  <2> HIDE DEF J
  <2> QED BY <1>1, <1>6, <2>1 DEF Sockets
<1>9. Sound(J, t, u) /\ Pipe(t, u) = Pipe(c, u) /\ ~Sends(t.out)
  <2>1. GotOK(J, t) /\ t.file \in J \cup {None}
    BY <1>2, <1>8 DEF GotOK
  <2> HIDE DEF J
  <2> QED BY <1>1, <1>3, <1>8, <2>1, Resound
<1>10. /\ z.state = t.state /\ z.file = t.file /\ z.unpacker = t.unpacker /\ z.buffer = t.buffer
       /\ Taken(z) = {} /\ Amount(Pipe(z, r.wire)) = Amount(Pipe(t, u)) /\ Orders(Pipe(z, r.wire)) = {m}
       /\ Stream(Pipe(z, r.wire), c.buffer, s.unpacker)
  <2> DEFINE b == <<m>>
  <2>1. Orders(Pipe(t, u)) = {} /\ t.got # <<>> /\ r = Send(t, u, b) /\ z = Popped(r.s)
    BY <1>3, <1>8, <1>9
  <2>0. b = <<m>> /\ J \in SUBSET Int
    BY <1>1
  <2> HIDE DEF b, J
  <2>2. /\ z.state = t.state /\ z.file = t.file /\ z.unpacker = t.unpacker /\ z.buffer = t.buffer
        /\ Taken(z) = {} /\ ~Sends(z.out)
        /\ Amount(Pipe(z, r.wire)) = Amount(Pipe(t, u)) /\ Orders(Pipe(z, r.wire)) = {m}
        /\ \A a, y : Stream(Pipe(t, u), a, y) => Stream(Pipe(z, r.wire), a, y)
    BY ONLY <1>7, <1>9, <2>0, <2>1, FormOrder
  <2> QED BY <1>1, <1>9, <2>2
<1>11. PlacedBy(js, i, j, z, s, {m}, od)
  <2>1. z.state = "BUSY" /\ z.file = c.file /\ z.buffer = c.buffer /\ Taken(z) = {}
        /\ z.unpacker = Rest(c.file, Share(k.len, i).pos, Share(k.len, i).len)
        /\ m = Msg(1, c.file, Share(k.len, i).pos, Share(k.len, i).len) /\ Share(k.len, i).pos \in Int
    BY <1>5, <1>6, <1>8, <1>10
  <2> HIDE DEF J, ou, od
  <2> QED BY <1>1, <1>2, <1>3, <2>1, PlaceShare
<1>12. Placed(js, i, j, z, s, Pipe(z, r.wire), Pipe(s, d))
  <2>1. Stream(Pipe(s, d), s.buffer, z.unpacker)
    BY <1>3 DEF Stream, Follows, Feeds
  <2> QED BY <1>8, <1>10, <1>11, <2>1 DEF Placed
<1>13. Todo(js, i, j, z) \subseteq Todo(js, i, j, c)
  <2>1. z.state = "BUSY" /\ z.unpacker.pos = x.pos /\ z.unpacker.job = j
    BY <1>4, <1>8, <1>10 DEF Rest
  <2>2. z.unpacker # Default
    <3>1. j # None
      BY <1>4 DEF Held, None
    <3> QED BY <2>1, <3>1 DEF Default, Rest
  <2> QED BY <1>5, <2>1, <2>2, TodoCases
<1>14. Amount(Pipe(z, r.wire)) = Amount(Pipe(c, u))
  BY <1>9, <1>10
<1> QED BY <1>1, <1>12, <1>13, <1>14, NoMove

(* A client that is about to send a chunk which the server waits for.        *)
Ready(js, i, j, y, s, u, d) ==
    /\ Sound(DOMAIN js, y, u) /\ ~Sends(y.out) /\ Orders(Pipe(y, u)) = {}
    /\ y.state = "BUSY" /\ y.unpacker = Default /\ y.buffer.left > 0
    /\ s.unpacker \in Rests /\ s.unpacker # Default /\ s.unpacker.job = j
    /\ s.unpacker.left = Amount(Pipe(y, u)) + y.buffer.left /\ InShare(js, i, s.unpacker)
    /\ Placed(js, i, j, y, s, Pipe(y, u), Pipe(s, d)) /\ DOMAIN js \in SUBSET Int
    /\ ShareOf(js, i, j).pos \in Int /\ ShareOf(js, i, j).len \in Int

(* The chunk moves as many positions as it has bytes.                        *)
LEMMA ChunkMoves ==
  ASSUME FileTransferAssumption, NEW js, NEW i, NEW j, NEW y, NEW s, NEW u, NEW d, Ready(js, i, j, y, s, u, d),
         NEW n, n = ChunkSize(y), NEW r, r = SendChunk(y, u),
         NEW z, z = r.s \/ (y.got # <<>> /\ z = Popped(r.s))
  PROVE  \E p : /\ Moves(js, i, j, y, s, u, z, s, r.wire, d, {}, p)
                /\ IsFiniteSet(p) /\ Cardinality(p) = n
<1> DEFINE J == DOMAIN js
           v == s.unpacker
           A == Amount(Pipe(y, u))
           a == y.buffer.pos
           l == y.buffer.left
           p == a .. a + n - 1
           od == Orders(Pipe(s, d))
           sh == ShareOf(js, i, j)
           e == sh.pos + sh.len - 1
<1>1. /\ J \in SUBSET Int /\ Sound(J, y, u) /\ ~Sends(y.out) /\ Orders(Pipe(y, u)) = {}
      /\ y.state = "BUSY" /\ y.unpacker = Default /\ l > 0 /\ v \in Rests /\ v # Default /\ v.job = j
      /\ v.left = A + l /\ InShare(js, i, v)
      /\ Stream(Pipe(y, u), y.buffer, v) /\ PlacedBy(js, i, j, y, s, {}, od) /\ Stream(Pipe(s, d), s.buffer, Default)
  BY DEF Ready, Placed
<1>2. y.buffer \in Rests /\ A \in Nat
  BY <1>1, AmountNat DEF Sound, Sockets, Rests
<1>3. /\ n \in Nat /\ n > 0 /\ n <= l /\ z.buffer = Later(y.buffer, n)
      /\ z.state = y.state /\ z.file = y.file /\ z.unpacker = y.unpacker /\ Taken(z) \subseteq Taken(y)
      /\ Amount(Pipe(z, r.wire)) = A + n /\ Orders(Pipe(z, r.wire)) = {}
      /\ Stream(Pipe(z, r.wire), z.buffer, v)
  <2>1. Sending(J, y, u, v) /\ Chunked(y, u, n, r, z) /\ J \in SUBSET Int
    BY <1>1 DEF Sending, Chunked
  <2>2. FileTransferAssumption
    OBVIOUS
  <2> HIDE DEF J, v
  <2>3. /\ n \in Nat /\ n > 0 /\ n <= y.buffer.left /\ z.buffer = Later(y.buffer, n)
        /\ z.state = y.state /\ z.file = y.file /\ z.unpacker = y.unpacker
        /\ z = Popped(r.s) /\ y.got # <<>> => Taken(z) = {}
        /\ Taken(z) \subseteq Taken(y) /\ Sends(z.out)
        /\ Amount(Pipe(z, r.wire)) = Amount(Pipe(y, u)) + n /\ Orders(Pipe(z, r.wire)) = {}
        /\ Stream(Pipe(z, r.wire), z.buffer, v)
    BY ONLY <2>1, <2>2, FormChunk
  <2> QED BY <2>3
<1>4. y.buffer.job = j /\ a = v.pos + A /\ a \in Int /\ l \in Int /\ v.pos \in Int
      /\ z.buffer.pos = a + n /\ z.buffer.left = l - n /\ z.buffer.job = y.buffer.job
  BY <1>1, <1>2, <1>3 DEF Stream, Feeds, Later, Rest, Rests
<1>5. a + l - 1 = e /\ v.pos + v.left = sh.pos + sh.len
  <2>1. v.pos + v.left = sh.pos + sh.len
    BY <1>1 DEF InShare
  <2>2. v.left = A + l /\ e = sh.pos + sh.len - 1 /\ A \in Nat /\ a = v.pos + A /\ v.pos \in Int /\ l \in Int
    BY <1>1, <1>2, <1>4
  <2>3. sh.pos + sh.len = a + l
    <3> HIDE DEF v, A, a, l, sh, e
    <3> QED BY ONLY <2>1, <2>2
  <2>4. a + l \in Int
    <3> HIDE DEF v, A, a, l
    <3> QED BY ONLY <2>2
  <2>5. a + l - 1 = e
    <3>1. sh.pos \in Int /\ sh.len \in Int /\ a \in Int
      BY <1>4 DEF Ready
    <3>2. ASSUME NEW x \in Int, NEW y1 \in Int, NEW z1 \in Int, NEW w \in Int, x + y1 = z1 + w
          PROVE  z1 + w - 1 = x + y1 - 1
      BY <3>2
    <3>3. l \in Int
      BY <1>4
    <3> HIDE DEF a, l, sh
    <3> QED BY <3>1, <3>2, <3>3, <2>3 DEF e
  <2> QED BY <2>1, <2>5
<1>6. Todo(js, i, j, y) = a .. e
  BY <1>1, TodoCases
<1>7. Todo(js, i, j, z) \subseteq a + n .. e
  <2>1. CASE z.buffer.left > 0
    <3>1. Todo(js, i, j, z) = z.buffer.pos .. e
      BY <1>1, <1>3, <2>1, TodoCases
    <3> QED BY <1>4, <3>1
  <2>2. CASE ~(z.buffer.left > 0)
    <3>1. Todo(js, i, j, z) = {}
      BY <1>1, <1>3, <2>2, TodoCases
    <3> QED BY <3>1
  <2> QED BY <2>1, <2>2
<1>8. PlacedBy(js, i, j, z, s, {}, od)
  <2>1. /\ PlacedBy(js, i, j, y, s, {}, od) /\ z.state = y.state /\ z.file = y.file /\ z.unpacker = y.unpacker
        /\ (z.buffer.left > 0 => y.buffer.left > 0 /\ z.buffer.job = y.buffer.job)
        /\ od \cup Taken(z) \subseteq od \cup Taken(y)
    BY <1>1, <1>3, <1>4
  <2> HIDE DEF od
  <2> QED BY ONLY <2>1, PlaceSame
<1>9. Placed(js, i, j, z, s, Pipe(z, r.wire), Pipe(s, d))
  BY <1>1, <1>3, <1>8 DEF Placed
<1> HIDE DEF J, v, A, a, l, od, sh, e
<1>10. p \subseteq Todo(js, i, j, y) /\ Todo(js, i, j, z) \subseteq Todo(js, i, j, y) \ p
  BY ONLY <1>3, <1>4, <1>5, <1>6, <1>7
<1>11. IsFiniteSet(p) /\ Cardinality(p) = n
  BY <1>3, <1>4, Interval
<1>12. ASSUME NEW g PROVE Way(v, A + n, g) = Way(v, A, g) \cup IF g = j THEN p ELSE {}
  <2>1. CASE g = j
    <3>1. Way(v, A + n, g) = v.pos .. v.pos + (A + n) - 1 /\ Way(v, A, g) = v.pos .. v.pos + A - 1
      BY <1>1, <2>1 DEF Way
    <3>2. v.pos .. v.pos + (A + n) - 1 = (v.pos .. v.pos + A - 1) \cup p
      <4> DEFINE b == v.pos
      <4>1. b \in Int /\ A \in Nat /\ n \in Nat /\ a = b + A
        BY <1>2, <1>3, <1>4
      <4> HIDE DEF b
      <4>2. b .. b + (A + n) - 1 = (b .. b + A - 1) \cup (a .. a + n - 1)
        BY ONLY <4>1
      <4> QED BY <4>2 DEF b
    <3> QED BY <2>1, <3>1, <3>2
  <2>2. CASE g # j
    BY <1>1, <2>2 DEF Way
  <2> QED BY <2>1, <2>2
<1>13. Moves(js, i, j, y, s, u, z, s, r.wire, d, {}, p)
  <2>1. \A g : At({}, g) = {}
    BY DEF At
  <2>2. Amount(Pipe(z, r.wire)) = A + n /\ v = s.unpacker /\ A = Amount(Pipe(y, u))
    BY <1>3 DEF v, A
  <2> HIDE DEF p
  <2> QED BY <1>9, <1>10, <1>12, <2>1, <2>2 DEF Moves
<1> QED BY <1>11, <1>13

(* The client, whose share was granted, begins to send it ...                *)
PutsShareOf(js, i, c, m, t) ==
    t = [c EXCEPT !.state = "BUSY", !.buffer = Rest(c.file, Share(js[c.file].len, i).pos, m.pos)]

(* put_file() sends the first chunk, which moves what is counted for it.     *)
LEMMA ClientPuts ==
  ASSUME FileTransferAssumption, NEW js, NEW i, NEW j, NEW c, NEW s, NEW u, NEW d, Held(js, i, j, c, s, u, d),
         c.got # <<>>, c.state = "PREPARE", c.file # None,
         NEW m, m = Head(c.got), m.order = 11, m.len >= 0,
         NEW t, PutsShareOf(js, i, c, m, t),
         NEW n, n = ChunkSize(t), NEW r, r = SendChunk(t, u), NEW z, z = Popped(r.s)
  PROVE  \E p : /\ Moves(js, i, j, c, s, u, z, s, r.wire, d, {}, p)
                /\ IsFiniteSet(p) /\ Cardinality(p) = n
<1> DEFINE ou == Orders(Pipe(c, u))
           od == Orders(Pipe(s, d))
           J == DOMAIN js
           sh == ShareOf(js, i, j)
           b == Rest(c.file, Share(js[c.file].len, i).pos, m.pos)
<1>1. /\ J \in SUBSET Int /\ Sound(J, c, u) /\ c \in Sockets
      /\ c.unpacker \in Rests /\ s.unpacker \in Rests
      /\ PlacedBy(js, i, j, c, s, ou, od) /\ Stream(Pipe(s, d), s.buffer, c.unpacker)
      /\ Agreed(c, s, Amount(Pipe(c, u)), ou, Amount(Pipe(s, d)), od)
      /\ \A g \in DOMAIN js : ShareOf(js, i, g).pos \in Nat /\ ShareOf(js, i, g).len \in Nat
  BY HeldTyped
<1>2. /\ c.unpacker = Default /\ Taken(c) = {m} /\ GotOK(J, c) /\ c.reading = "none" /\ c.file \in J
      /\ m.pos \in Int /\ Granted(m)
  <2>1. GotOK(J, c) /\ c.file \in J
    BY <1>1 DEF Sound
  <2>2. m # Nothing
    BY DEF Nothing, Msg, Empty
  <2>3. Taken(c) = {m} /\ c.reading = "none" /\ m \in Messages
    BY <2>1, <2>2, Handled
  <2>4. c.unpacker = Default
    BY <1>1 DEF Agreed, Shape
  <2> QED BY <2>1, <2>3, <2>4 DEF Messages, Granted
<1>3. /\ ou = {} /\ Taken(s) = {} /\ od = {} /\ ~Sends(c.out) /\ m.pos > 0
      /\ s.unpacker # Default /\ s.unpacker.left = m.pos /\ Amount(Pipe(c, u)) = 0
  BY <1>1, <1>2 DEF Agreed, OneOrder, Asks, Shape, Puts
<1>4. j \in DOMAIN js /\ c.file = j /\ s.unpacker.job = j /\ s.unpacker.pos = sh.pos
  BY <1>1, <1>2 DEF PlacedBy, Answered
<1>5. InShare(js, i, s.unpacker) /\ sh.pos \in Int /\ sh.len \in Int
  BY <1>1, <1>3, <1>4 DEF PlacedBy, PutsPlaced
<1>6. b \in Rests /\ b.job = j /\ b.pos = sh.pos /\ b.left = m.pos
  BY <1>1, <1>2, <1>4, <1>5 DEF Rest, Rests, ShareOf
<1> HIDE DEF b
<1>7. /\ t \in Sockets /\ t.state = "BUSY" /\ t.file = c.file /\ t.unpacker = c.unpacker
      /\ t.buffer = b /\ t.got = c.got /\ t.out = c.out /\ t.reading = c.reading
  <2>1. t = [c EXCEPT !.state = "BUSY", !.buffer = b]
    BY DEF b, PutsShareOf
  <2> HIDE DEF J
  <2> QED BY <1>1, <1>6, <2>1 DEF Sockets, Rests
<1>8. Sound(J, t, u) /\ Pipe(t, u) = Pipe(c, u) /\ ~Sends(t.out)
  <2>1. GotOK(J, t) /\ t.file \in J \cup {None}
    BY <1>2, <1>7 DEF GotOK
  <2>2. Sound(J, t, u) /\ Pipe(t, u) = Pipe(c, u)
    <3>1. Sound(J, c, u) /\ t \in Sockets /\ t.out = c.out
      BY <1>1, <1>7
    <3> HIDE DEF J
    <3> QED BY ONLY <2>1, <3>1, Resound
  <2> QED BY <1>3, <1>7, <2>2
<1>9. PlacedBy(js, i, j, t, s, ou, od)
  <2>1. Taken(t) \subseteq Taken(c)
    BY <1>7 DEF Taken
  <2> HIDE DEF ou, od
  <2>2. /\ PlacedBy(js, i, j, c, s, ou, od) /\ c.state = "PREPARE" /\ c.file # None /\ ou = {}
        /\ Taken(s) = {} /\ od = {} /\ c.unpacker = Default
        /\ t.state = "BUSY" /\ t.file = c.file /\ t.unpacker = Default /\ t.buffer.job = c.file
    BY <1>1, <1>2, <1>3, <1>4, <1>6, <1>7
  <2> QED BY ONLY <2>1, <2>2, PlacePut
<1>10. Stream(Pipe(t, u), t.buffer, s.unpacker) /\ Stream(Pipe(s, d), s.buffer, t.unpacker)
  <2>1. Stream(Pipe(t, u), t.buffer, s.unpacker)
    BY <1>1, <1>3, <1>4, <1>5, <1>6, <1>7, <1>8, StreamEmpty DEF Rests
  <2> QED BY <1>1, <1>7, <2>1
<1>11. Ready(js, i, j, t, s, u, d)
  <2>1. s.unpacker.left = Amount(Pipe(t, u)) + t.buffer.left
    BY <1>1, <1>2, <1>3, <1>6, <1>7, <1>8 DEF Rests
  <2>2. Placed(js, i, j, t, s, Pipe(t, u), Pipe(s, d))
    BY <1>8, <1>9, <1>10 DEF Placed
  <2>3. t.buffer.left > 0
    BY <1>3, <1>6, <1>7
  <2> QED BY <1>1, <1>2, <1>3, <1>4, <1>5, <1>7, <1>8, <2>1, <2>2, <2>3 DEF Ready
<1>12. PICK p : /\ Moves(js, i, j, t, s, u, z, s, r.wire, d, {}, p)
                /\ IsFiniteSet(p) /\ Cardinality(p) = n
  <2>1. /\ FileTransferAssumption /\ n = ChunkSize(t) /\ r = SendChunk(t, u)
        /\ z = r.s \/ (t.got # <<>> /\ z = Popped(r.s))
    BY <1>7
  <2> HIDE DEF FileTransferAssumption
  <2> QED BY ONLY <1>11, <2>1, ChunkMoves
<1>13. Todo(js, i, j, t) = Todo(js, i, j, c)
  <2>1. Todo(js, i, j, c) = sh.pos .. sh.pos + sh.len - 1
    BY TodoCases
  <2>2. t.buffer.left > 0
    BY <1>3, <1>6, <1>7
  <2>3. Todo(js, i, j, t) = t.buffer.pos .. sh.pos + sh.len - 1
    BY <1>2, <1>7, <2>2, TodoCases
  <2> QED BY <1>6, <1>7, <2>1, <2>3
<1>14. Moves(js, i, j, c, s, u, z, s, r.wire, d, {}, p)
  BY <1>8, <1>12, <1>13 DEF Moves
<1> QED BY <1>12, <1>14

(* ... and its writes complete: the next chunk follows, or it goes idle.     *)
LEMMA ClientSends ==
  ASSUME FileTransferAssumption, NEW js, NEW i, NEW j, NEW c, NEW s, NEW u, NEW d, Held(js, i, j, c, s, u, d),
         c.out # <<>>, NEW h, h = OnMsgSend(c, u), Linked(DOMAIN js, h.s, s, h.wire, d),
         NEW n, n = IF Head(c.out)[1].order = Content THEN ChunkSize(c) ELSE 0
  PROVE  \E p : /\ Moves(js, i, j, c, s, u, h.s, s, h.wire, d, {}, p)
                /\ IsFiniteSet(p) /\ Cardinality(p) = n
<1> DEFINE ou == Orders(Pipe(c, u))
           od == Orders(Pipe(s, d))
           J == DOMAIN js
           x == Completed(c, u)
           y == x.s
           w == x.wire
<1>1. /\ J \in SUBSET Int /\ Sound(J, c, u) /\ c \in Sockets
      /\ c.unpacker \in Rests /\ s.unpacker \in Rests /\ c.buffer \in Rests
      /\ PlacedBy(js, i, j, c, s, ou, od) /\ Stream(Pipe(s, d), s.buffer, c.unpacker)
      /\ Stream(Pipe(c, u), c.buffer, s.unpacker)
      /\ Agreed(c, s, Amount(Pipe(c, u)), ou, Amount(Pipe(s, d)), od)
      /\ \A g \in DOMAIN js : ShareOf(js, i, g).pos \in Nat /\ ShareOf(js, i, g).len \in Nat
  BY HeldTyped
<1>2. /\ Sound(J, y, w) /\ OutOnly(c, y) /\ Pipe(y, w) = Pipe(c, u)
      /\ Head(c.out)[1].order = Content => Sends(c.out) /\ ~Sends(y.out)
  <2>1. J \in SUBSET Int /\ Sound(J, c, u) /\ c.out # <<>> /\ x = Completed(c, u)
    BY <1>1
  <2> HIDE DEF J, x
  <2> QED BY ONLY <2>1, Flushed
<1> HIDE DEF x
<1>3. /\ y.state = c.state /\ y.file = c.file /\ y.unpacker = c.unpacker /\ y.buffer = c.buffer
      /\ y.got = c.got /\ Taken(y) = Taken(c)
  BY <1>2 DEF OutOnly, Taken
<1>4. IsFiniteSet({}) /\ Cardinality({}) = 0
  BY FS_EmptySet
<1>5. CASE Head(c.out)[1].order # Content
  <2>1. h.s = y /\ h.wire = w
    BY <1>5 DEF OnMsgSend, x
  <2>2. Moves(js, i, j, c, s, u, y, s, w, d, {}, {})
    <3> HIDE DEF y, w
    <3> QED BY <1>2, <1>3, ClientStays
  <2> QED BY <1>4, <1>5, <2>1, <2>2
<1>6. CASE Head(c.out)[1].order = Content
  <2>1. c.state = "BUSY" /\ c.unpacker = Default /\ ou = {} /\ od = {} /\ Taken(c) = {}
    BY <1>1, <1>2, <1>6 DEF Agreed, Shape, Asks
  <2>2. CASE c.buffer.left = 0
    <3>1. h.s = trans_end(y, FALSE) /\ h.wire = w
      BY <1>6, <2>2 DEF OnMsgSend, x
    <3>2. Pipe(h.s, w) = Pipe(y, w) /\ EndOnly(y, h.s, y.unpacker)
      <4>1. Idled(y, h.s)
        BY <3>1 DEF trans_end, Idled
      <4>2. Sound(J, y, w)
        BY <1>2
      <4> HIDE DEF y, w
      <4> QED BY ONLY <4>1, <4>2, IdleSound
    <3>3. Moves(js, i, j, c, s, u, h.s, s, h.wire, d, {}, {})
      <4>1. h.s.state = "IDLE" /\ h.s.unpacker = Default /\ h.s.buffer = c.buffer /\ Pipe(h.s, h.wire) = Pipe(c, u)
        BY <1>2, <1>3, <2>1, <3>1, <3>2 DEF EndOnly
      <4> QED BY <4>1, ClientRests
    <3>4. n = 0
      BY <1>6, <2>2 DEF ChunkSize, Least, FileTransferAssumption
    <3> QED BY <1>4, <3>3, <3>4
  <2>3. CASE c.buffer.left # 0
    <3>1. h = SendChunk(y, w)
      BY <1>6, <2>3 DEF OnMsgSend, x
    <3>2. c.buffer.left > 0
      BY <1>1, <2>3 DEF Agreed, Shape, Rests
    <3>3. s.unpacker # Default /\ s.unpacker.left = Amount(Pipe(c, u)) + c.buffer.left
      BY <1>1, <2>1, <2>3 DEF Agreed, Puts
    <3>4. j \in DOMAIN js /\ s.unpacker.job = j /\ InShare(js, i, s.unpacker)
      BY <1>1, <2>1, <3>2, <3>3 DEF PlacedBy, PutsPlaced, Stream, Feeds
    <3>5. Placed(js, i, j, y, s, Pipe(y, w), Pipe(s, d))
      <4>1. PlacedBy(js, i, j, y, s, ou, od)
        <5> HIDE DEF y, ou, od
        <5> QED BY <1>1, <1>3, PlaceSame
      <4> QED BY <1>1, <1>2, <1>3, <4>1 DEF Placed
    <3>6. Ready(js, i, j, y, s, w, d)
      <4>1. ShareOf(js, i, j).pos \in Int /\ ShareOf(js, i, j).len \in Int
        BY <1>1, <3>4
      <4> HIDE DEF y, w
      <4> QED BY <1>1, <1>2, <1>3, <1>6, <2>1, <3>2, <3>3, <3>4, <3>5, <4>1 DEF Ready
    <3>7. n = ChunkSize(y)
      BY <1>3, <1>6 DEF ChunkSize
    <3>8. PICK p : /\ Moves(js, i, j, y, s, w, h.s, s, h.wire, d, {}, p)
                   /\ IsFiniteSet(p) /\ Cardinality(p) = n
      <4>1. FileTransferAssumption /\ h.s = h.s
        OBVIOUS
      <4> HIDE DEF y, w, FileTransferAssumption
      <4> QED BY ONLY <3>1, <3>6, <3>7, <4>1, ChunkMoves
    <3>9. Todo(js, i, j, y) = Todo(js, i, j, c)
      BY <1>3 DEF Todo
    <3>10. Moves(js, i, j, c, s, u, h.s, s, h.wire, d, {}, p)
      <4> HIDE DEF y, w
      <4> QED BY <1>2, <3>8, <3>9 DEF Moves
    <3> QED BY <3>8, <3>10
  <2> QED BY <2>2, <2>3
<1> QED BY <1>5, <1>6

(* A link on which nothing is asked, is asked for job g.                     *)
Asking(js, i, g, c, t, m) ==
    /\ t \in Sockets /\ t.file \in {None, g} /\ t.unpacker = c.unpacker /\ t.buffer = c.buffer
    /\ t.out = c.out /\ t.got = c.got /\ t.reading = c.reading
    /\ m \in Messages /\ IsOrder(DOMAIN js, m) /\ m.order # 1 /\ m.job = g /\ Kind(js, g, KindOf(m.order))
    /\ m.order = 11 => m.pos = ShareOf(js, i, g).pos /\ m.len = ShareOf(js, i, g).len

(* A client that asks has all it wants still ahead of it.                    *)
LEMMA ClientAsks ==
  ASSUME FileTransferAssumption, NEW js, NEW i, NEW j, NEW c, NEW s, NEW u, NEW d, Held(js, i, j, c, s, u, d),
         c.state # "BUSY", Orders(Pipe(c, u)) = {}, Orders(Pipe(s, d)) = {}, Taken(s) = {},
         NEW g, j <= g, NEW t, NEW m, Asking(js, i, g, c, t, m), NEW b, b = <<m>>, NEW r, r = Send(t, u, b),
         NEW z, (t.got = <<>> /\ z = r.s) \/ (t.got # <<>> /\ z = Popped(r.s))
  PROVE  /\ Placed(js, i, g, z, s, Pipe(z, r.wire), Pipe(s, d))
         /\ Amount(Pipe(z, r.wire)) = Amount(Pipe(c, u)) /\ z.state = t.state /\ z.file = t.file
<1> DEFINE ou == Orders(Pipe(c, u))
           od == Orders(Pipe(s, d))
           J == DOMAIN js
<1>1. /\ J \in SUBSET Int /\ Sound(J, c, u) /\ c \in Sockets
      /\ c.unpacker \in Rests /\ s.unpacker \in Rests /\ c.buffer \in Rests
      /\ PlacedBy(js, i, j, c, s, ou, od) /\ Stream(Pipe(s, d), s.buffer, c.unpacker)
      /\ Stream(Pipe(c, u), c.buffer, s.unpacker)
      /\ Agreed(c, s, Amount(Pipe(c, u)), ou, Amount(Pipe(s, d)), od)
      /\ j \in Int
  <2>1. FileTransferAssumption /\ Held(js, i, j, c, s, u, d)
    OBVIOUS
  <2>2. j \in Int
    BY <2>1 DEF Held
  <2> HIDE DEF FileTransferAssumption
  <2> QED BY ONLY <2>1, <2>2, HeldTyped
<1>2. c.unpacker = Default /\ c.buffer.left = 0 /\ ~Sends(c.out) /\ GotOK(J, c)
  BY <1>1 DEF Agreed, Shape, Sound
<1>3. /\ t \in Sockets /\ t.file \in {None, g} /\ t.unpacker = c.unpacker /\ t.buffer = c.buffer
      /\ t.out = c.out /\ t.got = c.got /\ t.reading = c.reading
      /\ m \in Messages /\ IsOrder(DOMAIN js, m) /\ m.order # 1 /\ m.job = g /\ Kind(js, g, KindOf(m.order))
      /\ m.order = 11 => m.pos = ShareOf(js, i, g).pos /\ m.len = ShareOf(js, i, g).len
      /\ g \in J /\ g \in Int
  BY <1>1 DEF Asking, Kind
<1>4. Sound(J, t, u) /\ Pipe(t, u) = Pipe(c, u)
  <2>1. GotOK(J, t) /\ t.file \in J \cup {None} /\ t \in Sockets /\ t.out = c.out
    BY <1>2, <1>3 DEF GotOK
  <2> HIDE DEF J
  <2> QED BY ONLY <1>1, <2>1, Resound
<1>5. /\ z.state = t.state /\ z.file = t.file /\ z.unpacker = t.unpacker /\ z.buffer = t.buffer
      /\ Taken(z) = {} /\ Amount(Pipe(z, r.wire)) = Amount(Pipe(t, u)) /\ Orders(Pipe(z, r.wire)) = {m}
      /\ Stream(Pipe(z, r.wire), c.buffer, s.unpacker)
  <2>1. /\ J \in SUBSET Int /\ Orders(Pipe(t, u)) = {} /\ ~Sends(t.out) /\ r = Send(t, u, b) /\ b = <<m>>
        /\ (t.got = <<>> /\ z = r.s) \/ (t.got # <<>> /\ z = Popped(r.s))
        /\ m \in Messages /\ IsOrder(J, m)
    BY <1>1, <1>2, <1>3, <1>4
  <2> HIDE DEF J
  <2>2. /\ z.state = t.state /\ z.file = t.file /\ z.unpacker = t.unpacker /\ z.buffer = t.buffer
        /\ Taken(z) = {} /\ ~Sends(z.out)
        /\ Amount(Pipe(z, r.wire)) = Amount(Pipe(t, u)) /\ Orders(Pipe(z, r.wire)) = {m}
        /\ \A a, y : Stream(Pipe(t, u), a, y) => Stream(Pipe(z, r.wire), a, y)
    <3>1. Sound(J, t, u)
      BY <1>4
    <3>2. CASE t.got = <<>> /\ z = r.s
      BY ONLY <2>1, <3>1, <3>2, FormOrder
    <3>3. CASE t.got # <<>> /\ z = Popped(r.s)
      BY ONLY <2>1, <3>1, <3>3, FormOrder
    <3> QED BY <2>1, <3>2, <3>3
  <2> QED BY <1>1, <1>4, <2>2
<1>6. PlacedBy(js, i, g, z, s, {m}, od)
  <2>1. /\ PlacedBy(js, i, j, c, s, ou, od) /\ Taken(s) = {} /\ od = {} /\ c.unpacker = Default /\ c.buffer.left = 0
        /\ s.unpacker.job \in Int /\ j \in Int /\ g \in Int /\ j <= g
        /\ m.order # 1 /\ m.job = g /\ Kind(js, g, KindOf(m.order))
        /\ m.order = 11 => m.pos = ShareOf(js, i, g).pos /\ m.len = ShareOf(js, i, g).len
        /\ z.file \in {None, g} /\ z.unpacker = Default /\ z.buffer.left = 0 /\ Taken(z) = {}
    BY <1>1, <1>2, <1>3, <1>5 DEF Rests
  <2> HIDE DEF ou, od
  <2> QED BY ONLY <2>1, PlaceRequest
<1>7. Placed(js, i, g, z, s, Pipe(z, r.wire), Pipe(s, d))
  <2>1. Stream(Pipe(s, d), s.buffer, z.unpacker) /\ z.buffer = c.buffer
    BY <1>1, <1>3, <1>5
  <2> QED BY <1>5, <1>6, <2>1 DEF Placed
<1> QED BY <1>4, <1>5, <1>7

(* A link waits while another is asked.                                      *)
LEMMA ClientWaits ==
  ASSUME FileTransferAssumption, NEW js, NEW i, NEW j, NEW c, NEW s, NEW u, NEW d, Held(js, i, j, c, s, u, d),
         c.state = "IDLE", NEW g \in DOMAIN js, j <= g, NEW t, Idled(c, t) \/ t = c
  PROVE  /\ Placed(js, i, g, t, s, Pipe(t, u), Pipe(s, d)) /\ t.state = "IDLE"
         /\ Amount(Pipe(t, u)) = Amount(Pipe(c, u)) /\ Todo(js, i, g, t) = {}
<1> DEFINE ou == Orders(Pipe(c, u))
           od == Orders(Pipe(s, d))
           J == DOMAIN js
<1>1. /\ J \in SUBSET Int /\ Sound(J, c, u) /\ c \in Sockets
      /\ c.unpacker \in Rests /\ s.unpacker \in Rests /\ c.buffer \in Rests
      /\ PlacedBy(js, i, j, c, s, ou, od) /\ Stream(Pipe(s, d), s.buffer, c.unpacker)
      /\ Stream(Pipe(c, u), c.buffer, s.unpacker)
      /\ Agreed(c, s, Amount(Pipe(c, u)), ou, Amount(Pipe(s, d)), od)
      /\ j \in Int /\ g \in Int
  BY HeldTyped DEF Held
<1>2. /\ c.unpacker = Default /\ c.buffer.left = 0 /\ c.file = None
      /\ ou = {} /\ Taken(s) = {} /\ od = {} /\ Taken(c) = {}
  BY <1>1 DEF Agreed, Shape, Asks
<1>3. /\ t.state = "IDLE" /\ t.unpacker = Default /\ t.buffer = c.buffer /\ Taken(t) = {} /\ Pipe(t, u) = Pipe(c, u)
  <2>1. CASE t = c
    BY <1>2, <2>1
  <2>2. CASE Idled(c, t)
    <3>1. Sound(J, c, u)
      BY <1>1
    <3> HIDE DEF J
    <3>2. Pipe(t, u) = Pipe(c, u) /\ Taken(t) = Taken(c) /\ EndOnly(c, t, c.unpacker)
      BY ONLY <2>2, <3>1, IdleSound
    <3> QED BY <1>2, <3>2 DEF EndOnly
  <2> QED BY <2>1, <2>2
<1>4. PlacedBy(js, i, g, c, s, ou, od)
  <2>1. s.unpacker.job \in Int
    BY <1>1 DEF Rests
  <2> HIDE DEF ou, od
  <2> QED BY <1>1, <1>2, <2>1, PlaceWait
<1>5. PlacedBy(js, i, g, t, s, ou, od)
  <2> HIDE DEF ou, od
  <2> QED BY <1>2, <1>3, <1>4, PlaceEnd
<1>6. Placed(js, i, g, t, s, Pipe(t, u), Pipe(s, d))
  <2>1. Stream(Pipe(s, d), s.buffer, t.unpacker) /\ Stream(Pipe(t, u), t.buffer, s.unpacker)
    BY <1>1, <1>2, <1>3
  <2> QED BY <1>3, <1>5, <2>1 DEF Placed
<1>7. Todo(js, i, g, t) = {}
  BY <1>3, TodoCases
<1> QED BY <1>3, <1>6, <1>7

(* The server reads an order ...                                             *)
LEMMA ServerTold ==
  ASSUME FileTransferAssumption, NEW js, NEW i, NEW j, NEW c, NEW s, NEW u, NEW d, Held(js, i, j, c, s, u, d),
         s.unpacker = Default, s.reading # "none",
         NEW n, NEW bytes, NEW rest, NEW z, Reading(s, u, n, bytes, rest, z)
  PROVE  Moves(js, i, j, c, s, u, c, z, rest, d, {}, {})
<1> DEFINE ou == Orders(Pipe(c, u))
           od == Orders(Pipe(s, d))
           J == DOMAIN js
<1>1. /\ J \in SUBSET Int /\ Sound(J, c, u) /\ Sound(J, s, d) /\ s.unpacker \in Rests
      /\ PlacedBy(js, i, j, c, s, ou, od) /\ Stream(Pipe(s, d), s.buffer, c.unpacker)
      /\ Agreed(c, s, Amount(Pipe(c, u)), ou, Amount(Pipe(s, d)), od)
  BY HeldTyped
<1>2. Amount(Pipe(c, u)) = 0 /\ c.buffer.left = 0
  BY <1>1 DEF Agreed, Puts
<1>3. /\ Pipe(z, d) = Pipe(s, d) /\ Orders(Pipe(c, rest)) = {} /\ Amount(Pipe(c, rest)) = 0
      /\ \E m : ou = {m} /\ Taken(z) = {m}
      /\ z.state = s.state /\ z.file = s.file /\ z.unpacker = s.unpacker /\ z.buffer = s.buffer
      /\ z.out = s.out
  <2>1. s.unpacker = Default /\ s.reading # "none" /\ Reading(s, u, n, bytes, rest, z)
        /\ J \in SUBSET Int /\ Sound(J, c, u) /\ Sound(J, s, d)
    BY <1>1
  <2> HIDE DEF J
  <2>2. /\ ~Misread(s, bytes) /\ Sound(J, z, d) /\ Sound(J, c, rest) /\ Pipe(z, d) = Pipe(s, d)
        /\ Orders(Pipe(c, rest)) = {} /\ Amount(Pipe(c, rest)) = 0
        /\ \E m : Orders(Pipe(c, u)) = {m} /\ Taken(z) = {m}
        /\ z.state = s.state /\ z.file = s.file /\ z.unpacker = s.unpacker /\ z.buffer = s.buffer
        /\ z.out = s.out /\ z.got \notin {<<>>, <<Nothing>>}
    BY ONLY <1>2, <2>1, ReadsOrder
  <2> QED BY <2>2
<1>4. PlacedBy(js, i, j, c, z, {}, od)
  <2>1. {} \cup Taken(z) \subseteq ou \cup Taken(s) /\ z.unpacker = s.unpacker /\ z.unpacker = Default
        /\ z.state = s.state /\ z.file = s.file
    BY <1>3
  <2> HIDE DEF ou, od
  <2> QED BY ONLY <1>1, <2>1, PlaceServed
<1>5. Stream(Pipe(c, rest), c.buffer, z.unpacker)
  BY <1>2, <1>3 DEF Stream, Follows, Feeds
<1>6. Placed(js, i, j, c, z, Pipe(c, rest), Pipe(z, d))
  BY <1>1, <1>3, <1>4, <1>5 DEF Placed
<1> QED BY <1>1, <1>2, <1>3, <1>6, NoMove

(* ... or content, and writes it to the file.                                *)
LEMMA ServerGets ==
  ASSUME FileTransferAssumption, NEW js, NEW i, NEW j, NEW c, NEW s, NEW u, NEW d, Held(js, i, j, c, s, u, d),
         s.unpacker # Default, s.reading # "none",
         NEW n, NEW bytes, NEW rest, NEW z, Reading(s, u, n, bytes, rest, z)
  PROVE  Moves(js, i, j, c, s, u, c, z, rest, d, Laid(s.unpacker, bytes), {})
<1> DEFINE ou == Orders(Pipe(c, u))
           od == Orders(Pipe(s, d))
           J == DOMAIN js
           v == s.unpacker
           A == Amount(Pipe(c, u))
           ad == Amount(Pipe(s, d))
           sh == ShareOf(js, i, v.job)
           w == Laid(v, bytes)
<1>1. /\ J \in SUBSET Int /\ Sound(J, c, u) /\ Sound(J, s, d) /\ c \in Sockets /\ s \in Sockets
      /\ v \in Rests /\ c.buffer \in Rests /\ A \in Nat
      /\ PlacedBy(js, i, j, c, s, ou, od) /\ Stream(Pipe(c, u), c.buffer, v)
      /\ Stream(Pipe(s, d), s.buffer, c.unpacker)
      /\ Agreed(c, s, A, ou, ad, od)
      /\ \A g \in DOMAIN js : ShareOf(js, i, g).pos \in Nat /\ ShareOf(js, i, g).len \in Nat
                              /\ ShareOf(js, i, g).pos + ShareOf(js, i, g).len <= js[g].len
  BY HeldTyped
<1>0. J \in SUBSET Int /\ v # Default /\ s.reading # "none" /\ Reading(s, u, n, bytes, rest, z)
  BY <1>1
<1>2. n \in Nat /\ n > 0 /\ n <= v.left /\ (ou = {} => n <= A)
  <2> HIDE DEF J
  <2> QED BY <1>0, <1>1, ReadSize
<1>3. n <= A /\ (\A m \in od \cup Taken(c) : ~Granted(m)) /\ Taken(s) = {} /\ v.job # None
  <2>1. n <= A /\ \A m \in od \cup Taken(c) : ~Granted(m)
    <3>1. c.state \in {"IDLE", "PREPARE", "BUSY"} /\ s.unpacker.left \in Int /\ c.buffer.left \in Int
      BY <1>1, SocketTyped
    <3> HIDE DEF A, ou, ad, od
    <3> QED BY <1>0, <1>1, <1>2, <3>1, AgreeSafeRead
  <2> QED BY <1>0, <1>1, <2>1 DEF Agreed, Puts
<1> HIDE DEF J
<1>4. /\ z.unpacker = Later(v, n) /\ Stream(Pipe(c, rest), c.buffer, z.unpacker)
      /\ Amount(Pipe(c, rest)) = A - n /\ Wanted(v, bytes, n)
  <2> DEFINE b == c.buffer
  <2>1. /\ J \in SUBSET Int /\ s \in Sockets /\ Sound(J, c, u) /\ s.unpacker # Default /\ b \in Rests
        /\ Stream(Pipe(c, u), b, s.unpacker) /\ n <= Amount(Pipe(c, u)) /\ Reading(s, u, n, bytes, rest, z)
    BY <1>0, <1>1, <1>3
  <2> HIDE DEF b
  <2>2. /\ n \in Nat /\ n > 0 /\ z.unpacker = Later(s.unpacker, n)
        /\ Stream(Pipe(c, rest), b, z.unpacker) /\ Amount(Pipe(c, rest)) = Amount(Pipe(c, u)) - n
        /\ Wanted(s.unpacker, bytes, n)
    BY ONLY <2>1, FormRead
  <2> QED BY <2>2 DEF b
<1>5. /\ Pipe(z, d) = Pipe(s, d) /\ Orders(Pipe(c, rest)) = ou
      /\ z.state = s.state /\ z.file = s.file /\ z.buffer = s.buffer /\ z.out = s.out /\ Taken(z) = {}
  <2>1. /\ ~Misread(s, bytes) /\ Sound(J, z, d) /\ Sound(J, c, rest) /\ Pipe(z, d) = Pipe(s, d)
        /\ Orders(Pipe(c, rest)) = Orders(Pipe(c, u)) /\ Amount(Pipe(c, rest)) = Amount(Pipe(c, u)) - n
        /\ z.state = s.state /\ z.file = s.file /\ z.buffer = s.buffer
        /\ z.out = s.out /\ z.got = <<Nothing>>
        /\ z.unpacker.left = s.unpacker.left - n /\ z.unpacker.job = s.unpacker.job
    BY ONLY <1>0, <1>1, <1>3, ReadsContent
  <2> QED BY <2>1 DEF Taken
<1>6. /\ v.job \in DOMAIN js /\ v.job <= j /\ InShare(js, i, v)
  BY <1>0, <1>1 DEF PlacedBy, PutsPlaced, Kind
<1>7. /\ sh.pos \in Nat /\ sh.len \in Nat /\ sh.pos + sh.len <= js[v.job].len
      /\ js[v.job].len \in Nat
      /\ sh.pos <= v.pos /\ v.pos + v.left = sh.pos + sh.len /\ v.pos \in Int /\ v.left \in Int
  BY <1>1, <1>6 DEF InShare, Held, Rests
<1>8. PlacedBy(js, i, j, c, z, ou, od)
  <2>1. /\ PlacedBy(js, i, j, c, s, ou, od) /\ s.unpacker # Default /\ Taken(s) = {} /\ s.unpacker \in Rests
        /\ n \in Nat /\ ShareOf(js, i, s.unpacker.job).pos \in Int /\ ShareOf(js, i, s.unpacker.job).len \in Int
        /\ \A m \in od \cup Taken(c) : ~Granted(m)
        /\ z.state = s.state /\ z.file = s.file /\ z.unpacker = Later(s.unpacker, n) /\ z.out = s.out
        /\ Taken(z) = {}
    BY <1>0, <1>1, <1>2, <1>3, <1>4, <1>5, <1>7
  <2> HIDE DEF ou, od
  <2> QED BY ONLY <2>1, PlacePutGot
<1>9. Placed(js, i, j, c, z, Pipe(c, rest), Pipe(z, d))
  BY <1>1, <1>4, <1>5, <1>8 DEF Placed
<1>10. /\ \A x \in w : Right(js, j, x)
       /\ \A g : At(w, g) = IF g = v.job THEN v.pos .. v.pos + n - 1 ELSE {}
  <2>1. v.pos >= 0 /\ v.pos + n <= js[v.job].len /\ js[v.job].len \in Int
    <3> HIDE DEF v, sh
    <3> QED BY <1>2, <1>7
  <2>2. Wanted(v, bytes, n) /\ v.job \in DOMAIN js /\ v.job <= j
    BY <1>4, <1>6
  <2> HIDE DEF v
  <2> QED BY ONLY <2>1, <2>2, LaidRight DEF w
<1>11. z.unpacker # Default /\ z.unpacker.job = v.job /\ z.unpacker.pos = v.pos + n
  BY <1>3, <1>4 DEF Later, Rest, Default
<1>12. \A g : At(w, g) \cup Way(z.unpacker, Amount(Pipe(c, rest)), g) = Way(v, A, g)
  <2> SUFFICES ASSUME NEW g PROVE At(w, g) \cup Way(z.unpacker, A - n, g) = Way(v, A, g)
    BY <1>4
  <2>1. CASE g = v.job
    <3> DEFINE a == v.pos
    <3>1. At(w, g) = a .. a + n - 1 /\ Way(z.unpacker, A - n, g) = a + n .. a + n + (A - n) - 1
          /\ Way(v, A, g) = a .. a + A - 1
      BY <1>0, <1>10, <1>11, <2>1 DEF Way
    <3>2. a \in Int /\ n \in Nat /\ A \in Nat /\ n <= A
      BY <1>1, <1>2, <1>3, <1>7
    <3> HIDE DEF a, A
    <3>3. (a .. a + n - 1) \cup (a + n .. a + n + (A - n) - 1) = a .. a + A - 1
      BY ONLY <3>2
    <3> QED BY <3>1, <3>3
  <2>2. CASE g # v.job
    BY <1>10, <1>11, <2>2 DEF Way
  <2> QED BY <2>1, <2>2
<1>13. \A g : At(w, g) \cup Way(z.unpacker, Amount(Pipe(c, rest)), g)
              = Way(s.unpacker, Amount(Pipe(c, u)), g) \cup IF g = j THEN {} ELSE {}
  BY <1>12
<1> HIDE DEF w
<1> QED BY <1>9, <1>10, <1>13 DEF Moves, w

(* A step of the server that writes nothing.                                 *)
LEMMA ServerMoves ==
  ASSUME FileTransferAssumption, NEW js, NEW i, NEW j, NEW c, NEW s, NEW u, NEW d, Held(js, i, j, c, s, u, d),
         NEW z, NEW w, z.unpacker \in Rests,
         z.unpacker = s.unpacker \/ (Amount(Pipe(c, u)) = 0 /\ c.buffer.left = 0),
         PlacedBy(js, i, j, c, z, Orders(Pipe(c, u)), Orders(Pipe(z, w))), Stream(Pipe(z, w), z.buffer, c.unpacker)
  PROVE  Moves(js, i, j, c, s, u, c, z, u, w, {}, {})
<1>1. s.unpacker \in Rests /\ Stream(Pipe(c, u), c.buffer, s.unpacker)
  BY HeldTyped
<1>2. Stream(Pipe(c, u), c.buffer, z.unpacker)
  BY <1>1 DEF Stream, Follows, Feeds
<1>3. Placed(js, i, j, c, z, Pipe(c, u), Pipe(z, w))
  BY <1>2 DEF Placed
<1> QED BY <1>1, <1>3, NoMove

(* The server drops a message, or ends a transfer.                           *)
LEMMA ServerRests ==
  ASSUME FileTransferAssumption, NEW js, NEW i, NEW j, NEW c, NEW s, NEW u, NEW d, Held(js, i, j, c, s, u, d),
         s.got # <<>>, NEW t,
         t = s \/ (/\ Reset(s, t) /\ (s.unpacker = Default \/ s.unpacker.left = 0)
                   /\ s.state # "PREPARE" \/ Taken(s) # {}),
         NEW z, z = Popped(t)
  PROVE  Moves(js, i, j, c, s, u, c, z, u, d, {}, {})
<1> DEFINE ou == Orders(Pipe(c, u))
           od == Orders(Pipe(s, d))
           J == DOMAIN js
<1>1. /\ J \in SUBSET Int /\ Sound(J, c, u) /\ Sound(J, s, d) /\ s.unpacker \in Rests
      /\ Amount(Pipe(c, u)) \in Nat /\ c.buffer \in Rests
      /\ PlacedBy(js, i, j, c, s, ou, od) /\ Stream(Pipe(s, d), s.buffer, c.unpacker)
      /\ Agreed(c, s, Amount(Pipe(c, u)), ou, Amount(Pipe(s, d)), od)
  BY HeldTyped
<1>2. Default \in Rests
  BY DEF Default, Rest, Rests, None
<1>3. CASE t = s
  <2>1. PopOnly(s, z) /\ Pipe(z, d) = Pipe(s, d)
    <3>1. Sound(J, s, d) /\ s.got # <<>> /\ z = Popped(s)
      BY <1>1, <1>3
    <3> HIDE DEF J
    <3> QED BY ONLY <3>1, PopSound
  <2>2. /\ z.state = s.state /\ z.file = s.file /\ z.unpacker = s.unpacker /\ z.buffer = s.buffer
        /\ z.out = s.out /\ Taken(z) = {}
    BY <2>1 DEF PopOnly
  <2>3. PlacedBy(js, i, j, c, z, ou, od)
    <3>1. PlacedBy(js, i, j, c, s, ou, od) /\ ou \cup Taken(z) \subseteq ou \cup Taken(s)
      BY <1>1, <2>2
    <3> HIDE DEF ou, od
    <3> QED BY ONLY <2>2, <3>1, PlaceServed
  <2> QED BY <1>1, <2>1, <2>2, <2>3, ServerMoves
<1>4. CASE /\ Reset(s, t) /\ (s.unpacker = Default \/ s.unpacker.left = 0)
           /\ s.state # "PREPARE" \/ Taken(s) # {}
  <2>1. EndOnly(s, t, Default) /\ PopOnly(t, z) /\ Pipe(z, d) = Pipe(s, d)
    <3>1. Sound(J, s, d) /\ s.got # <<>> /\ Reset(s, t)
      BY <1>1, <1>4
    <3> HIDE DEF J
    <3>2. Sound(J, t, d) /\ Pipe(t, d) = Pipe(s, d) /\ EndOnly(s, t, Default)
      BY ONLY <3>1, ResetSound
    <3>3. t.got # <<>> /\ z = Popped(t)
      BY <3>1, <3>2 DEF EndOnly
    <3>4. PopOnly(t, z) /\ Pipe(z, d) = Pipe(t, d)
      BY ONLY <3>2, <3>3, PopSound
    <3> QED BY <3>2, <3>4
  <2>2. /\ z.state = "IDLE" /\ z.unpacker = Default /\ z.buffer = s.buffer /\ z.out = s.out /\ Taken(z) = {}
    BY <2>1 DEF PopOnly, EndOnly
  <2>3. \/ z.unpacker = s.unpacker
        \/ /\ Amount(Pipe(c, u)) = 0 /\ c.buffer.left = 0 /\ \A m \in od \cup Taken(c) : ~Granted(m)
    <3>1. CASE s.unpacker # Default
      <4>1. s.unpacker.left = 0 /\ \A m \in od \cup Taken(c) : Granted(m) => s.unpacker.left = m.pos
        BY <1>1, <1>4, <3>1 DEF Agreed, Puts
      <4>2. \A m \in od \cup Taken(c) : Granted(m) => m.pos > 0
        BY <1>1 DEF Agreed, Asks, Granted
      <4>3. \A m \in od \cup Taken(c) : ~Granted(m)
        BY <4>1, <4>2
      <4>4. s.unpacker.left = Amount(Pipe(c, u)) + c.buffer.left /\ c.buffer.left >= 0 /\ c.buffer.left \in Int
        BY <1>1, <3>1, <4>3 DEF Agreed, Puts, Shape, Rests
      <4> QED BY <1>1, <4>1, <4>3, <4>4
    <3> QED BY <2>2, <3>1
  <2>4. s.state # "PREPARE" \/ (ou = {} /\ od = {} /\ Taken(c) = {})
    BY <1>1, <1>4 DEF Agreed, OneOrder
  <2>5. PlacedBy(js, i, j, c, z, ou, od)
    <3>1. PlacedBy(js, i, j, c, s, ou, od) /\ ou \cup Taken(z) \subseteq ou \cup Taken(s)
      BY <1>1, <2>2
    <3> HIDE DEF ou, od
    <3> QED BY ONLY <2>2, <2>3, <2>4, <3>1, PlaceServed
  <2> QED BY <1>1, <1>2, <2>1, <2>2, <2>3, <2>5, ServerMoves
<1> QED BY <1>3, <1>4

(* An answer moves no byte.                                                  *)
LEMMA ServerReplies ==
  ASSUME FileTransferAssumption, NEW js, NEW i, NEW j, NEW c, NEW s, NEW u, NEW d, Held(js, i, j, c, s, u, d),
         s.got # <<>>, s.out = <<>>, NEW k, k = Head(s.got), k.order \in {0, 10, 11},
         NEW t, NEW a, Answering(js, s, k, t, a),
         NEW b, b = <<a>>, NEW r, r = Send(t, d, b), NEW z, z = Popped(r.s)
  PROVE  Moves(js, i, j, c, s, u, c, z, u, r.wire, {}, {})
<1> DEFINE ou == Orders(Pipe(c, u))
           od == Orders(Pipe(s, d))
           J == DOMAIN js
<1>1. /\ J \in SUBSET Int /\ Sound(J, c, u) /\ Sound(J, s, d) /\ s.unpacker \in Rests
      /\ PlacedBy(js, i, j, c, s, ou, od) /\ Stream(Pipe(s, d), s.buffer, c.unpacker)
      /\ Agreed(c, s, Amount(Pipe(c, u)), ou, Amount(Pipe(s, d)), od)
  BY HeldTyped
<1>2. /\ Taken(s) = {k} /\ GotOK(J, s) /\ k.job \in J /\ k.pos \in Int /\ k.len \in Int
  <2>1. GotOK(J, s)
    BY <1>1 DEF Sound
  <2>2. k # Nothing
    BY DEF Nothing, Msg, Empty
  <2>3. Taken(s) = {k} /\ k \in Messages /\ IsOrder(J, k)
    BY <2>1, <2>2, Handled
  <2> QED BY <2>1, <2>3 DEF Messages, IsOrder
<1>3. ou = {} /\ od = {} /\ Taken(c) = {} /\ s.unpacker = Default /\ ~Sends(s.out)
  BY <1>1, <1>2 DEF Agreed, OneOrder, Puts, Sends
<1>4. Amount(Pipe(c, u)) = 0 /\ c.buffer.left = 0
  BY <1>1, <1>3 DEF Agreed, Puts
<1>5. /\ t \in Sockets /\ t.file \in J \cup {None} /\ t.buffer = s.buffer /\ t.out = s.out
      /\ t.got = s.got /\ t.reading = s.reading
      /\ a \in Messages /\ IsOrder(J, a) /\ a.order = k.order /\ a.job = k.job
  BY DEF Answering, Replies
<1>6. Sound(J, t, d) /\ Pipe(t, d) = Pipe(s, d)
  <2>1. GotOK(J, t) /\ t.file \in J \cup {None} /\ t \in Sockets /\ t.out = s.out /\ Sound(J, s, d)
    BY <1>1, <1>2, <1>5 DEF GotOK
  <2> HIDE DEF J
  <2> QED BY ONLY <2>1, Resound
<1>7. /\ z.state = t.state /\ z.file = t.file /\ z.unpacker = t.unpacker /\ z.buffer = t.buffer
      /\ Taken(z) = {} /\ ~Sends(z.out) /\ Orders(Pipe(z, r.wire)) = {a}
      /\ Stream(Pipe(z, r.wire), s.buffer, c.unpacker)
  <2>1. /\ J \in SUBSET Int /\ Orders(Pipe(t, d)) = {} /\ ~Sends(t.out) /\ r = Send(t, d, b) /\ b = <<a>>
        /\ t.got # <<>> /\ z = Popped(r.s) /\ a \in Messages /\ IsOrder(J, a)
    BY <1>1, <1>3, <1>5, <1>6
  <2> HIDE DEF J
  <2>2. /\ z.state = t.state /\ z.file = t.file /\ z.unpacker = t.unpacker /\ z.buffer = t.buffer
        /\ Taken(z) = {} /\ ~Sends(z.out)
        /\ Amount(Pipe(z, r.wire)) = Amount(Pipe(t, d)) /\ Orders(Pipe(z, r.wire)) = {a}
        /\ \A x, y : Stream(Pipe(t, d), x, y) => Stream(Pipe(z, r.wire), x, y)
    BY ONLY <1>6, <2>1, FormOrder
  <2> QED BY <1>1, <1>6, <2>2
<1>8. PlacedBy(js, i, j, c, z, ou, {a}) /\ z.unpacker \in Rests
  <2>1. CASE /\ t.unpacker = Default /\ ~Granted(a)
             /\ a.order = 0 /\ a.len >= 0 => a.len = js[k.job].len /\ t.state = "PREPARE" /\ t.file = k.job
    <3>1. /\ PlacedBy(js, i, j, c, s, ou, od) /\ ou = {} /\ Taken(c) = {} /\ Taken(s) = {k}
          /\ a.order = k.order /\ a.job = k.job /\ ~Granted(a) /\ z.unpacker = Default /\ Taken(z) = {}
          /\ a.order = 0 /\ a.len >= 0 => a.len = js[k.job].len /\ z.state = "PREPARE" /\ z.file = k.job
      BY <1>1, <1>2, <1>3, <1>5, <1>7, <2>1
    <3>2. z.unpacker \in Rests
      BY <1>1, <1>3, <3>1
    <3> HIDE DEF ou, od
    <3>3. PlacedBy(js, i, j, c, z, ou, {a})
      BY ONLY <3>1, PlaceAnswer
    <3> QED BY <3>2, <3>3
  <2>2. CASE a.order = 11 /\ t.state = "BUSY" /\ t.unpacker = Rest(k.job, k.pos, k.len)
    <3>1. /\ PlacedBy(js, i, j, c, s, ou, od) /\ ou = {} /\ Taken(c) = {} /\ Taken(s) = {k}
          /\ k.order = 11 /\ k.pos \in Int /\ k.len \in Int /\ a.order = 11 /\ a.job = k.job
          /\ z.state = "BUSY" /\ z.unpacker = Rest(k.job, k.pos, k.len) /\ ~Sends(z.out) /\ Taken(z) = {}
      BY <1>1, <1>2, <1>3, <1>5, <1>7, <2>2
    <3>2. z.unpacker \in Rests
      BY <1>1, <1>2, <3>1 DEF Rest, Rests
    <3>3. j \in Int
      BY DEF Held
    <3> HIDE DEF ou, od
    <3>4. PlacedBy(js, i, j, c, z, ou, {a})
      BY ONLY <3>1, <3>3, PlaceGrant
    <3> QED BY <3>2, <3>4
  <2> QED BY <2>1, <2>2 DEF Answering
<1>9. PlacedBy(js, i, j, c, z, ou, Orders(Pipe(z, r.wire))) /\ Stream(Pipe(z, r.wire), z.buffer, c.unpacker)
  BY <1>5, <1>7, <1>8
<1> QED BY <1>4, <1>8, <1>9, ServerMoves

(* It serves a share: the first chunk, where the client waits for it.        *)
LEMMA ServerStarts ==
  ASSUME FileTransferAssumption, NEW js, NEW i, NEW j, NEW c, NEW s, NEW u, NEW d, Held(js, i, j, c, s, u, d),
         s.got # <<>>, s.state = "PREPARE", NEW m, m = Head(s.got), m.order = 1, m.len > 0,
         NEW t, Serves(s, m, t), NEW r, r = SendChunk(t, d), NEW z, z = Popped(r.s)
  PROVE  Moves(js, i, j, c, s, u, c, z, u, r.wire, {}, {})
<1> DEFINE ou == Orders(Pipe(c, u))
           od == Orders(Pipe(s, d))
           J == DOMAIN js
           v == c.unpacker
           b == Rest(s.file, m.pos, m.len)
<1>1. /\ J \in SUBSET Int /\ Sound(J, c, u) /\ Sound(J, s, d) /\ s.unpacker \in Rests /\ v \in Rests
      /\ s \in Sockets /\ PlacedBy(js, i, j, c, s, ou, od) /\ Stream(Pipe(s, d), s.buffer, v)
      /\ Agreed(c, s, Amount(Pipe(c, u)), ou, Amount(Pipe(s, d)), od) /\ c \in Sockets
  BY HeldTyped
<1>2. /\ Taken(s) = {m} /\ m.pos \in Int /\ m.len \in Int
  <2>1. GotOK(J, s)
    BY <1>1 DEF Sound
  <2>2. m # Nothing
    BY DEF Nothing, Msg, Empty
  <2>3. Taken(s) = {m} /\ m \in Messages
    BY <2>1, <2>2, Handled
  <2> QED BY <2>3 DEF Messages
<1>3. ou = {} /\ od = {} /\ Taken(c) = {} /\ ~Sends(s.out)
  BY <1>1, <1>2 DEF Agreed, OneOrder, Shape
<1>4. v # Default /\ Amount(Pipe(s, d)) = 0
  <2>1. c.state \in {"IDLE", "PREPARE", "BUSY"}
    BY <1>1 DEF Sockets
  <2>2. v # Default
    BY <1>1, <1>2, <2>1 DEF Agreed, Asks
  <2> QED BY <1>1, <1>2, <2>2 DEF Agreed, Gets
<1>5. v.job = j /\ s.file = j /\ m.pos = v.pos /\ s.unpacker = Default
  <2>1. v.job = j
    BY <1>1, <1>4 DEF PlacedBy, GetsPlaced
  <2>2. s.file = j /\ m.pos = v.pos
    BY <1>1, <1>2 DEF PlacedBy, Asked
  <2>3. s.unpacker = Default
    BY <1>1 DEF PlacedBy, PutsPlaced
  <2> QED BY <2>1, <2>2, <2>3
<1>6. b \in Rests /\ b.left = m.len /\ b.job = v.job /\ b.pos = v.pos
  BY <1>1, <1>2, <1>5 DEF Rest, Rests
<1> HIDE DEF b
<1>7. /\ t \in Sockets /\ t.state = "BUSY" /\ t.file = s.file /\ t.unpacker = s.unpacker /\ t.buffer = b
      /\ t.out = s.out /\ t.got = s.got /\ t.reading = s.reading
  <2>1. t = [s EXCEPT !.state = "BUSY", !.buffer = b]
    BY DEF Serves, b
  <2> QED BY <1>1, <1>6, <2>1 DEF Sockets, Rests
<1>8. Sound(J, t, d) /\ Pipe(t, d) = Pipe(s, d)
  <2>1. GotOK(J, t) /\ t.file \in J \cup {None} /\ Sound(J, s, d) /\ t \in Sockets /\ t.out = s.out
    BY <1>1, <1>7 DEF GotOK, Sound
  <2> HIDE DEF J
  <2> QED BY ONLY <2>1, Resound
<1>9. Stream(Pipe(t, d), t.buffer, v)
  <2>1. Amount(Pipe(t, d)) = 0 /\ t.buffer.job = v.job /\ t.buffer.pos = v.pos /\ v.pos \in Int
    BY <1>1, <1>4, <1>6, <1>7, <1>8 DEF Rests
  <2> HIDE DEF v
  <2> QED BY <2>1, StreamEmpty
<1> DEFINE n == ChunkSize(t)
<1>10. /\ z.state = t.state /\ z.file = t.file /\ z.unpacker = t.unpacker /\ Taken(z) = {}
       /\ Orders(Pipe(z, r.wire)) = {} /\ Stream(Pipe(z, r.wire), z.buffer, v)
  <2>1. Sending(J, t, d, v) /\ Chunked(t, d, n, r, z) /\ J \in SUBSET Int /\ z = Popped(r.s) /\ t.got # <<>>
    BY <1>1, <1>3, <1>6, <1>7, <1>8, <1>9 DEF Sending, Chunked
  <2>2. FileTransferAssumption
    OBVIOUS
  <2> HIDE DEF J, v, n
  <2>3. /\ n \in Nat /\ n > 0 /\ n <= t.buffer.left /\ z.buffer = Later(t.buffer, n)
        /\ z.state = t.state /\ z.file = t.file /\ z.unpacker = t.unpacker
        /\ z = Popped(r.s) /\ t.got # <<>> => Taken(z) = {}
        /\ Taken(z) \subseteq Taken(t) /\ Sends(z.out)
        /\ Amount(Pipe(z, r.wire)) = Amount(Pipe(t, d)) + n /\ Orders(Pipe(z, r.wire)) = {}
        /\ Stream(Pipe(z, r.wire), z.buffer, v)
    BY ONLY <2>1, <2>2, FormChunk
  <2> QED BY <2>1, <2>3
<1>11. PlacedBy(js, i, j, c, z, ou, od)
  <2>1. /\ PlacedBy(js, i, j, c, s, ou, od) /\ ou \cup Taken(z) \subseteq ou \cup Taken(s)
        /\ z.unpacker = s.unpacker /\ z.unpacker = Default
        /\ ou = {} /\ Taken(z) = {} /\ od = {} /\ Taken(c) = {}
    BY <1>1, <1>3, <1>5, <1>7, <1>10
  <2> HIDE DEF ou, od
  <2> QED BY ONLY <2>1, PlaceServed
<1>12. PlacedBy(js, i, j, c, z, ou, Orders(Pipe(z, r.wire))) /\ Stream(Pipe(z, r.wire), z.buffer, c.unpacker)
       /\ z.unpacker = s.unpacker /\ z.unpacker \in Rests
  BY <1>1, <1>3, <1>7, <1>10, <1>11
<1> QED BY <1>12, ServerMoves

(* Its writes complete: the next chunk follows, or it goes idle.             *)
LEMMA ServerSends ==
  ASSUME FileTransferAssumption, NEW js, NEW i, NEW j, NEW c, NEW s, NEW u, NEW d, Held(js, i, j, c, s, u, d),
         s.out # <<>>, NEW h, h = OnMsgSend(s, d)
  PROVE  Moves(js, i, j, c, s, u, c, h.s, u, h.wire, {}, {})
<1> DEFINE ou == Orders(Pipe(c, u))
           od == Orders(Pipe(s, d))
           J == DOMAIN js
           x == Completed(s, d)
           y == x.s
           w == x.wire
           v == c.unpacker
<1>1. /\ J \in SUBSET Int /\ Sound(J, s, d) /\ s \in Sockets
      /\ v \in Rests /\ s.unpacker \in Rests /\ s.buffer \in Rests
      /\ PlacedBy(js, i, j, c, s, ou, od) /\ Stream(Pipe(s, d), s.buffer, v)
      /\ Agreed(c, s, Amount(Pipe(c, u)), ou, Amount(Pipe(s, d)), od)
  BY HeldTyped
<1>2. /\ Sound(J, y, w) /\ OutOnly(s, y) /\ Pipe(y, w) = Pipe(s, d)
      /\ Head(s.out)[1].order = Content => Sends(s.out) /\ ~Sends(y.out)
      /\ Head(s.out)[1].order # Content => (Sends(y.out) <=> Sends(s.out))
  <2>1. J \in SUBSET Int /\ Sound(J, s, d) /\ s.out # <<>> /\ x = Completed(s, d)
    BY <1>1
  <2> HIDE DEF J, x
  <2> QED BY ONLY <2>1, Flushed
<1> HIDE DEF x
<1>3. /\ y.state = s.state /\ y.file = s.file /\ y.unpacker = s.unpacker /\ y.buffer = s.buffer
      /\ y.got = s.got /\ Taken(y) = Taken(s)
  BY <1>2 DEF OutOnly, Taken
<1>4. CASE Head(s.out)[1].order # Content
  <2>1. h.s = y /\ h.wire = w
    BY <1>4 DEF OnMsgSend, x
  <2>2. PlacedBy(js, i, j, c, y, ou, od)
    <3>1. /\ PlacedBy(js, i, j, c, s, ou, od) /\ ou \cup Taken(y) \subseteq ou \cup Taken(s)
          /\ y.unpacker = s.unpacker /\ y.state = s.state /\ y.file = s.file /\ (Sends(y.out) => Sends(s.out))
      BY <1>1, <1>2, <1>3, <1>4
    <3> HIDE DEF ou, od, y
    <3> QED BY ONLY <3>1, PlaceServed
  <2>3. PlacedBy(js, i, j, c, y, ou, Orders(Pipe(y, w))) /\ Stream(Pipe(y, w), y.buffer, c.unpacker)
        /\ y.unpacker = s.unpacker /\ y.unpacker \in Rests
    BY <1>1, <1>2, <1>3, <2>2
  <2>4. Moves(js, i, j, c, s, u, c, y, u, w, {}, {})
    <3> HIDE DEF y, w, ou
    <3> QED BY <2>3, ServerMoves DEF ou
  <2> QED BY <2>1, <2>4
<1>5. CASE Head(s.out)[1].order = Content
  <2>1. s.unpacker = Default /\ s.state # "PREPARE"
    BY <1>1, <1>2, <1>5 DEF PlacedBy, PutsPlaced, Agreed, Shape
  <2>2. CASE s.buffer.left = 0
    <3>1. h.s = trans_end(y, FALSE) /\ h.wire = w
      BY <1>5, <2>2 DEF OnMsgSend, x
    <3>2. Pipe(h.s, w) = Pipe(y, w) /\ EndOnly(y, h.s, y.unpacker)
      <4>1. Idled(y, h.s)
        BY <3>1 DEF trans_end, Idled
      <4>2. Sound(J, y, w)
        BY <1>2
      <4> HIDE DEF y, w
      <4> QED BY ONLY <4>1, <4>2, IdleSound
    <3> DEFINE z == h.s
    <3>3. z.unpacker = Default /\ z.buffer = s.buffer /\ Taken(z) = Taken(s) /\ Pipe(z, w) = Pipe(s, d)
      BY <1>2, <1>3, <2>1, <3>2 DEF EndOnly, Taken
    <3>4. PlacedBy(js, i, j, c, z, ou, od)
      <4>1. /\ PlacedBy(js, i, j, c, s, ou, od) /\ ou \cup Taken(z) \subseteq ou \cup Taken(s)
            /\ z.unpacker = s.unpacker /\ z.unpacker = Default /\ s.state # "PREPARE"
        BY <1>1, <2>1, <3>3
      <4> HIDE DEF ou, od, z
      <4> QED BY ONLY <4>1, PlaceServed
    <3>5. PlacedBy(js, i, j, c, z, ou, Orders(Pipe(z, w))) /\ Stream(Pipe(z, w), z.buffer, c.unpacker)
          /\ z.unpacker = s.unpacker /\ z.unpacker \in Rests
      BY <1>1, <2>1, <3>3, <3>4
    <3>6. Moves(js, i, j, c, s, u, c, z, u, w, {}, {})
      <4> HIDE DEF z, w, ou
      <4> QED BY <3>5, ServerMoves DEF ou
    <3> QED BY <3>1, <3>6
  <2>3. CASE s.buffer.left # 0
    <3>1. h = SendChunk(y, w)
      BY <1>5, <2>3 DEF OnMsgSend, x
    <3>2. od = {} /\ y.buffer.left > 0
      <4>1. v # Default
        BY <1>1, <2>3 DEF Agreed, Gets
      <4>2. c.state = "BUSY"
        BY <1>1, <4>1 DEF Agreed, Shape
      <4>3. od = {}
        BY <1>1, <4>2 DEF Agreed, Asks
      <4>4. s.buffer.left > 0
        BY <1>1, <2>3 DEF Agreed, Shape, Rests
      <4> QED BY <1>3, <4>3, <4>4
    <3> DEFINE n == ChunkSize(y)
               z == h.s
               r == h.wire
    <3>3. /\ z.state = y.state /\ z.file = y.file /\ z.unpacker = y.unpacker /\ Taken(z) \subseteq Taken(y)
          /\ Orders(Pipe(z, r)) = {} /\ Stream(Pipe(z, r), z.buffer, v)
      <4>1. Stream(Pipe(y, w), y.buffer, v) /\ Orders(Pipe(y, w)) = {} /\ ~Sends(y.out)
        BY <1>1, <1>2, <1>3, <1>5, <3>2
      <4>2. Sending(J, y, w, v) /\ Chunked(y, w, n, h, z) /\ J \in SUBSET Int
        <5> HIDE DEF y, w, v, J
        <5> QED BY <1>1, <1>2, <3>1, <3>2, <4>1 DEF Sending, Chunked
      <4>3. FileTransferAssumption
        OBVIOUS
      <4> HIDE DEF J, v, n, z, y, w
      <4>4. /\ n \in Nat /\ n > 0 /\ n <= y.buffer.left /\ z.buffer = Later(y.buffer, n)
            /\ z.state = y.state /\ z.file = y.file /\ z.unpacker = y.unpacker
            /\ z = Popped(h.s) /\ y.got # <<>> => Taken(z) = {}
            /\ Taken(z) \subseteq Taken(y) /\ Sends(z.out)
            /\ Amount(Pipe(z, h.wire)) = Amount(Pipe(y, w)) + n /\ Orders(Pipe(z, h.wire)) = {}
            /\ Stream(Pipe(z, h.wire), z.buffer, v)
        BY ONLY <4>2, <4>3, FormChunk
      <4> QED BY <4>4
    <3>4. PlacedBy(js, i, j, c, z, ou, od)
      <4>1. /\ PlacedBy(js, i, j, c, s, ou, od) /\ ou \cup Taken(z) \subseteq ou \cup Taken(s)
            /\ z.unpacker = s.unpacker /\ z.unpacker = Default /\ s.state # "PREPARE"
        BY <1>1, <1>3, <2>1, <3>3
      <4> HIDE DEF ou, od, z
      <4> QED BY ONLY <4>1, PlaceServed
    <3>5. PlacedBy(js, i, j, c, z, ou, Orders(Pipe(z, r))) /\ Stream(Pipe(z, r), z.buffer, c.unpacker)
          /\ z.unpacker = s.unpacker /\ z.unpacker \in Rests
      BY <1>1, <1>3, <3>2, <3>3, <3>4
    <3>6. Moves(js, i, j, c, s, u, c, z, u, r, {}, {})
      <4> HIDE DEF z, r, ou
      <4> QED BY <3>5, ServerMoves DEF ou
    <3> QED BY <3>6
  <2> QED BY <2>2, <2>3
<1> QED BY <1>4, <1>5

(* Handling a message moves no byte: what is sent stays on its way.          *)
LEMMA ServerHandles ==
  ASSUME FileTransferAssumption, NEW i, NEW j, NEW c, NEW s, NEW u, NEW d, Held(jobs, i, j, c, s, u, d),
         s.got # <<>>, NEW m, m = Head(s.got), NEW h, Handles(s, d, m, h)
  PROVE  Moves(jobs, i, j, c, s, u, c, Popped(h.s), u, h.wire, {}, {})
<1> DEFINE z == Popped(h.s)
<1>1. Drops(s, d, h) \/ Starting(s, d, m, h) \/ Answers(s, d, m, h)
  <2>1. Jobs \in SUBSET (Nat \ {0}) /\ (\A k \in Jobs : jobs[k].len \in Int) /\ Linked(Jobs, c, s, u, d)
    BY DEF Held, Jobs
  <2> QED BY <2>1, HandlesAs
<1>2. z = Popped(h.s)
  OBVIOUS
<1> HIDE DEF z
<1>3. CASE Drops(s, d, h)
  <2>1. h.wire = d /\ \/ h.s = s
                      \/ /\ Reset(s, h.s) /\ (s.unpacker = Default \/ s.unpacker.left = 0)
                         /\ s.state # "PREPARE" \/ Taken(s) # {}
    BY <1>3 DEF Drops, Ended, trans_end, Reset
  <2> QED BY <1>2, <2>1, ServerRests
<1>4. CASE Starting(s, d, m, h)
  <2>1. PICK t : Serves(s, m, t) /\ h = SendChunk(t, d)
    BY <1>4 DEF Starting
  <2> QED BY <1>2, <1>4, <2>1, ServerStarts DEF Starting
<1>5. CASE Answers(s, d, m, h)
  <2>1. PICK t, a : Answering(jobs, s, m, t, a) /\ h = Send(t, d, <<a>>)
    BY <1>5 DEF Answers
  <2> DEFINE b == <<a>>
  <2>2. b = <<a>> /\ h = Send(t, d, b)
    BY <2>1
  <2> HIDE DEF b
  <2> QED BY <1>2, <1>5, <2>1, <2>2, ServerReplies DEF Answers
<1> QED BY <1>1, <1>2, <1>3, <1>4, <1>5

-----------------------------------------------------------------------------
(* What a link has to move is in its share, unless it truncates the file:    *)
(* then it is the file.                                                      *)
SpanOf(js, i, j) == ShareOf(js, i, j).pos .. ShareOf(js, i, j).pos + ShareOf(js, i, j).len - 1

(* The shares of two links have no position in common, and are of the file.  *)
LEMMA SpansApart ==
  ASSUME FileTransferAssumption, NEW js, NEW j \in DOMAIN js, js[j].len \in Nat, NEW i \in Links
  PROVE  /\ SpanOf(js, i, j) \subseteq 0 .. js[j].len - 1
         /\ \A k \in Links : i # k => SpanOf(js, i, j) \cap SpanOf(js, k, j) = {}
<1> DEFINE n == js[j].len
           a(k) == ShareOf(js, k, j).pos
           l(k) == ShareOf(js, k, j).len
<1>1. \A k \in Links : /\ a(k) \in Nat /\ l(k) \in Nat /\ a(k) + l(k) <= n
                       /\ \A m \in Links : k < m => a(k) + l(k) <= a(m)
  <2> SUFFICES ASSUME NEW k \in Links
               PROVE  /\ a(k) \in Nat /\ l(k) \in Nat /\ a(k) + l(k) <= n
                      /\ \A m \in Links : k < m => a(k) + l(k) <= a(m)
    OBVIOUS
  <2> QED BY ShareParts DEF ShareOf
<1>2. \A k \in Links : SpanOf(js, k, j) = a(k) .. a(k) + l(k) - 1
  BY DEF SpanOf
<1>3. n \in Nat /\ Links \subseteq Int
  BY DEF Links
<1> HIDE DEF n, a, l
<1>4. ASSUME NEW k \in Links, k # i PROVE SpanOf(js, i, j) \cap SpanOf(js, k, j) = {}
  <2>1. i < k \/ k < i
    BY <1>3, <1>4
  <2>2. a(i) + l(i) <= a(k) \/ a(k) + l(k) <= a(i)
    BY <1>1, <2>1
  <2>3. a(i) \in Nat /\ l(i) \in Nat /\ a(k) \in Nat /\ l(k) \in Nat
    BY <1>1
  <2>4. (a(i) .. a(i) + l(i) - 1) \cap (a(k) .. a(k) + l(k) - 1) = {}
    BY ONLY <2>2, <2>3
  <2> QED BY <1>2, <2>4
<1>5. SpanOf(js, i, j) \subseteq 0 .. n - 1
  <2>1. a(i) \in Nat /\ l(i) \in Nat /\ a(i) + l(i) <= n
    BY <1>1
  <2>2. a(i) .. a(i) + l(i) - 1 \subseteq 0 .. n - 1
    BY ONLY <1>3, <2>1
  <2> QED BY <1>2, <2>2
<1> QED BY <1>4, <1>5 DEF n

(* What a link has to move is of its share, or of the file if it truncates.  *)
LEMMA TodoWithin ==
  ASSUME FileTransferAssumption, NEW js, NEW i, NEW j, NEW c, NEW s, NEW u, NEW d, Held(js, i, j, c, s, u, d)
  PROVE  /\ c.state = "IDLE" => Todo(js, i, j, c) = {}
         /\ ~Truncates(c) => Todo(js, i, j, c) \subseteq SpanOf(js, i, j)
         /\ Todo(js, i, j, c) \subseteq 0 .. js[j].len - 1
         /\ c.state # "IDLE" => j \in DOMAIN js
<1> DEFINE ou == Orders(Pipe(c, u))
           od == Orders(Pipe(s, d))
           A == Amount(Pipe(c, u))
           sh == ShareOf(js, i, j)
           e == sh.pos + sh.len - 1
           T == Todo(js, i, j, c)
<1>1. /\ c.unpacker \in Rests /\ s.unpacker \in Rests /\ c.buffer \in Rests /\ c \in Sockets
      /\ PlacedBy(js, i, j, c, s, ou, od) /\ Stream(Pipe(c, u), c.buffer, s.unpacker) /\ A \in Nat
      /\ Agreed(c, s, A, ou, Amount(Pipe(s, d)), od)
  BY HeldTyped
<1>2. c.state \in {"IDLE", "PREPARE", "BUSY"} /\ i \in Links /\ \A g \in DOMAIN js : js[g].len \in Nat
  BY <1>1 DEF Sockets, Held
<1>3. CASE c.state = "IDLE"
  <2>1. T = {}
    BY <1>3, TodoCases
  <2> QED BY <1>3, <2>1
<1>4. c.state # "IDLE" => j \in DOMAIN js
  BY <1>1 DEF PlacedBy
<1>5. CASE Truncates(c)
  <2>1. T = 0 .. js[j].len - 1
    BY <1>5, TodoCases DEF Truncates
  <2> QED BY <1>4, <1>5, <2>1 DEF Truncates
<1>6. CASE c.state # "IDLE" /\ ~Truncates(c)
  <2>1. j \in DOMAIN js /\ sh.pos \in Int /\ sh.len \in Int
    <3>1. \A g \in DOMAIN js : ShareOf(js, i, g).pos \in Nat /\ ShareOf(js, i, g).len \in Nat
      BY HeldTyped
    <3> QED BY <1>4, <1>6, <3>1
  <2>2. T \subseteq sh.pos .. e
    <3>1. CASE c.state = "PREPARE"
      BY <1>6, <3>1, TodoCases DEF Truncates
    <3>2. CASE c.state = "BUSY" /\ c.unpacker # Default
      <4>1. T = c.unpacker.pos .. e
        BY <3>2, TodoCases
      <4>2. sh.pos <= c.unpacker.pos /\ c.unpacker.pos \in Int
        BY <1>1, <3>2 DEF PlacedBy, GetsPlaced, InShare, Rests
      <4> HIDE DEF T, e
      <4> QED BY <2>1, <4>1, <4>2
    <3>3. CASE c.state = "BUSY" /\ c.unpacker = Default /\ c.buffer.left > 0
      <4>1. T = c.buffer.pos .. e
        BY <3>3, TodoCases
      <4>2. s.unpacker # Default
        BY <1>1, <3>3 DEF Agreed, Puts, Rests
      <4>3. c.buffer.job = j /\ c.buffer.job = s.unpacker.job /\ c.buffer.pos = s.unpacker.pos + A
        BY <1>1, <3>3 DEF PlacedBy, Stream, Feeds
      <4>4. sh.pos <= s.unpacker.pos /\ s.unpacker.pos \in Int
        BY <1>1, <4>2, <4>3 DEF PlacedBy, PutsPlaced, InShare, Rests
      <4>5. c.buffer.pos \in Int /\ sh.pos <= c.buffer.pos
        BY <1>1, <2>1, <4>3, <4>4
      <4> HIDE DEF T, e, sh
      <4> QED BY <2>1, <4>1, <4>5
    <3>4. CASE c.state = "BUSY" /\ c.unpacker = Default /\ ~(c.buffer.left > 0)
      <4>1. T = {}
        BY <3>4, TodoCases
      <4> QED BY <4>1
    <3> QED BY <1>2, <1>6, <3>1, <3>2, <3>3, <3>4
  <2>3. SpanOf(js, i, j) = sh.pos .. e
    BY DEF SpanOf
  <2>4. SpanOf(js, i, j) \subseteq 0 .. js[j].len - 1
    BY <1>2, <2>1, SpansApart
  <2> HIDE DEF T, sh, e
  <2> QED BY <1>6, <2>1, <2>2, <2>3, <2>4 DEF T
<1> QED BY <1>3, <1>5, <1>6

(* What is on its way is in the file, which is of a job that has begun.      *)
LEMMA WayWithin ==
  ASSUME FileTransferAssumption, NEW js, NEW i, NEW j, NEW c, NEW s, NEW u, NEW d, Held(js, i, j, c, s, u, d), NEW g
  PROVE  /\ Way(s.unpacker, Amount(Pipe(c, u)), g) \subseteq 0 .. js[g].len - 1
         /\ Way(s.unpacker, Amount(Pipe(c, u)), g) # {} => g <= j /\ Kind(js, g, "put")
<1> DEFINE ou == Orders(Pipe(c, u))
           od == Orders(Pipe(s, d))
           A == Amount(Pipe(c, u))
           v == s.unpacker
           sh == ShareOf(js, i, v.job)
<1>1. /\ v \in Rests /\ c.buffer \in Rests /\ PlacedBy(js, i, j, c, s, ou, od) /\ A \in Nat
      /\ Agreed(c, s, A, ou, Amount(Pipe(s, d)), od)
      /\ \A k \in DOMAIN js : ShareOf(js, i, k).pos \in Nat /\ ShareOf(js, i, k).len \in Nat
                              /\ ShareOf(js, i, k).pos + ShareOf(js, i, k).len <= js[k].len
  BY HeldTyped
<1>2. CASE v # Default /\ v.job = g
  <2>1. v.job <= j /\ Kind(js, v.job, "put") /\ sh.pos <= v.pos /\ v.pos + v.left = sh.pos + sh.len
    BY <1>1, <1>2 DEF PlacedBy, PutsPlaced, InShare
  <2>2. A <= v.left
    <3>1. v.left = A + c.buffer.left \/ (A = 0 /\ v.left >= 0)
      BY <1>1, <1>2 DEF Agreed, Puts, Shape
    <3>2. c.buffer.left >= 0 /\ c.buffer.left \in Int /\ v.left \in Int
      BY <1>1 DEF Agreed, Shape, Rests
    <3> QED BY <1>1, <3>1, <3>2
  <2>3. sh.pos \in Nat /\ sh.len \in Nat /\ sh.pos + sh.len <= js[g].len /\ v.pos \in Int /\ v.left \in Int
        /\ js[g].len \in Nat /\ A \in Nat
    BY <1>1, <1>2, <2>1 DEF Kind, Rests, Held
  <2>4. Way(v, A, g) = v.pos .. v.pos + A - 1
    BY <1>2 DEF Way
  <2>5. v.pos .. v.pos + A - 1 \subseteq 0 .. js[g].len - 1
    <3> DEFINE a == v.pos
               b == v.left
               n == js[g].len
    <3>1. a \in Int /\ b \in Int /\ n \in Int /\ A <= b /\ sh.pos \in Nat /\ sh.len \in Nat /\ A \in Nat
          /\ sh.pos + sh.len <= n /\ sh.pos <= a /\ a + b = sh.pos + sh.len
      BY <2>1, <2>2, <2>3
    <3> HIDE DEF a, b, n, sh, A
    <3>2. a .. a + A - 1 \subseteq 0 .. n - 1
      BY ONLY <3>1
    <3> QED BY <3>2 DEF a, n
  <2> QED BY <1>2, <2>1, <2>4, <2>5
<1>3. CASE ~(v # Default /\ v.job = g)
  BY <1>3 DEF Way
<1> QED BY <1>2, <1>3

-----------------------------------------------------------------------------
(* Where the bytes are: what of job j has been written or is on its way to   *)
(* be, and that no link has any of it to move.                               *)
PlacedAt(i) == Placed(jobs, i, current, client[i], server[i], Pipe(client[i], up[i]), Pipe(server[i], down[i]))
AllPlaced == \A i \in Links : PlacedAt(i)

OnWay(i, j) == Way(server[i].unpacker, Amount(Pipe(client[i], up[i])), j)
Moved(j) == At(written, j) \cup UNION {OnWay(i, j) : i \in Links}
Fresh == \A i \in Links : Todo(jobs, i, current, client[i]) \cap Moved(current) = {}
InPlace == \A v \in written : Right(jobs, current, v)

(* What is counted has moved, and what was reported has moved as a whole.    *)
Counted == transmit_size \in Nat /\ (current # None => transmit_size <= Cardinality(Moved(current)))
Told == \A j \in reported : j \in Jobs /\ j <= current /\ 0 .. jobs[j].len - 1 \subseteq Moved(j)

(* Jobs are transmitted one after the other; the length is that of the job.  *)
Queued ==
    /\ typed = current + Len(file_list) /\ typed \in 0 .. Len(jobs) /\ current \in 0 .. Len(jobs)
    /\ \A k \in 1 .. Len(file_list) : file_list[k] = current + k
Known == timer => current \in Jobs /\ file_size \in {-1, jobs[current].len}

Bytewise == AllPlaced /\ Fresh /\ InPlace /\ Counted /\ Told /\ Queued /\ Known

(* Every link is placed, linked and typed as its lemmas assume.              *)
LEMMA HeldAt ==
  ASSUME FileTransferAssumption, Inv, AllPlaced, Queued, NEW i \in Links
  PROVE  Held(jobs, i, current, client[i], server[i], up[i], down[i])
<1>1. Jobs \in SUBSET (Nat \ {0}) /\ \A j \in Jobs : jobs[j].len \in Nat
  BY JobsTyped DEF Inv
<1>2. current \in Nat
  <2>1. jobs \in Seq([type : {"get", "put"}, len : Nat])
    BY DEF Inv, Chosen, FileTransferAssumption
  <2>2. Len(jobs) \in Nat
    BY <2>1, LenProperties
  <2> QED BY <2>2 DEF Queued
<1> QED BY <1>1, <1>2 DEF Held, Inv, AllLinked, AllPlaced, PlacedAt, Jobs

(* What has moved is in its file.                                            *)
LEMMA MovedWithin ==
  ASSUME FileTransferAssumption, Inv, AllPlaced, Queued, InPlace, NEW g
  PROVE  Moved(g) \subseteq 0 .. jobs[g].len - 1 /\ (Moved(g) # {} => g <= current)
<1>1. ASSUME NEW p \in At(written, g) PROVE p \in 0 .. jobs[g].len - 1 /\ g <= current
  <2>1. PICK v \in written : v[1] = g /\ v[2] = p
    BY DEF At
  <2> QED BY <2>1 DEF InPlace, Right
<1>2. ASSUME NEW i \in Links, NEW p \in OnWay(i, g) PROVE p \in 0 .. jobs[g].len - 1 /\ g <= current
  <2> DEFINE u == up[i]
             d == down[i]
             c == client[i]
             s == server[i]
  <2>1. Held(jobs, i, current, c, s, u, d)
    BY HeldAt
  <2>2. p \in Way(s.unpacker, Amount(Pipe(c, u)), g)
    BY DEF OnWay
  <2> HIDE DEF u, d, c, s
  <2> QED BY <2>1, <2>2, WayWithin
<1> QED BY <1>1, <1>2 DEF Moved

(* No two links have the same to move.                                       *)
LEMMA TodoApart ==
  ASSUME FileTransferAssumption, Inv, AllPlaced, Queued, NEW i \in Links, NEW k \in Links, i # k
  PROVE  Todo(jobs, i, current, client[i]) \cap Todo(jobs, k, current, client[k]) = {}
<1>1. ASSUME NEW m \in Links
      PROVE  /\ client[m].state = "IDLE" => Todo(jobs, m, current, client[m]) = {}
             /\ ~Truncates(client[m]) => Todo(jobs, m, current, client[m]) \subseteq SpanOf(jobs, m, current)
             /\ client[m].state # "IDLE" => current \in Jobs
  <2> DEFINE u == up[m]
             d == down[m]
             c == client[m]
             s == server[m]
  <2>1. Held(jobs, m, current, c, s, u, d)
    BY HeldAt
  <2> HIDE DEF u, d, c, s
  <2>2. /\ c.state = "IDLE" => Todo(jobs, m, current, c) = {}
        /\ ~Truncates(c) => Todo(jobs, m, current, c) \subseteq SpanOf(jobs, m, current)
        /\ c.state # "IDLE" => current \in DOMAIN jobs
    BY <2>1, TodoWithin
  <2> QED BY <2>2 DEF c, Jobs
<1>2. CASE Truncates(client[i]) \/ Truncates(client[k])
  BY <1>1, <1>2 DEF Inv, OneTruncates, Alone, is_idle
<1>3. CASE ~Truncates(client[i]) /\ ~Truncates(client[k])
  <2>1. CASE current \in Jobs
    <3>1. jobs[current].len \in Nat /\ current \in DOMAIN jobs
      BY <2>1, JobsTyped DEF Inv, Jobs
    <3>2. SpanOf(jobs, i, current) \cap SpanOf(jobs, k, current) = {}
      BY <3>1, SpansApart
    <3> QED BY <1>1, <1>3, <3>2
  <2>2. CASE current \notin Jobs
    BY <1>1, <2>2
  <2> QED BY <2>1, <2>2
<1> QED BY <1>2, <1>3

(* One link moves the positions p, which are counted.                        *)
LinkMoves(i, w, p) ==
    /\ Moves(jobs, i, current, client[i], server[i], up[i], client'[i], server'[i], up'[i], down'[i], w, p)
    /\ \A k \in Links \ {i} :
           client'[k] = client[k] /\ server'[k] = server[k] /\ up'[k] = up[k] /\ down'[k] = down[k]
    /\ written' = written \cup w
    /\ IsFiniteSet(p) /\ transmit_size' = transmit_size + Cardinality(p)
    /\ UNCHANGED <<jobs, current, reported>>

(* A step of one link keeps where all the bytes are.                         *)
LEMMA GoesOn ==
  ASSUME FileTransferAssumption, Inv, Bytewise, NEW i \in Links, NEW w, NEW p, LinkMoves(i, w, p)
  PROVE  AllPlaced' /\ Fresh' /\ InPlace' /\ Counted' /\ Told'
<1> DEFINE T(k) == Todo(jobs, k, current, client[k])
<1>0. PICK j : j = current
  OBVIOUS
<1>1. /\ Placed(jobs, i, current, client'[i], server'[i], Pipe(client'[i], up'[i]), Pipe(server'[i], down'[i]))
      /\ p \subseteq T(i) /\ Todo(jobs, i, current, client'[i]) \subseteq T(i) \ p
      /\ \A g : At(w, g) \cup Way(server'[i].unpacker, Amount(Pipe(client'[i], up'[i])), g)
                = Way(server[i].unpacker, Amount(Pipe(client[i], up[i])), g) \cup IF g = current THEN p ELSE {}
      /\ \A v \in w : Right(jobs, current, v)
  BY DEF LinkMoves, Moves
<1>2. /\ \A k \in Links \ {i} :
             client'[k] = client[k] /\ server'[k] = server[k] /\ up'[k] = up[k] /\ down'[k] = down[k]
      /\ written' = written \cup w /\ IsFiniteSet(p) /\ transmit_size' = transmit_size + Cardinality(p)
      /\ jobs' = jobs /\ current' = current /\ reported' = reported
  BY DEF LinkMoves
<1>3. AllPlaced /\ Fresh /\ InPlace /\ Counted /\ Told /\ Queued
  BY DEF Bytewise
<1>4. AllPlaced'
  <2> SUFFICES ASSUME NEW k \in Links PROVE PlacedAt(k)'
    BY DEF AllPlaced
  <2>1. CASE k = i
    BY <1>1, <1>2, <2>1 DEF PlacedAt
  <2>2. CASE k # i
    BY <1>2, <1>3, <2>2 DEF AllPlaced, PlacedAt
  <2> QED BY <2>1, <2>2
<1>5. ASSUME NEW g PROVE Moved(g)' = Moved(g) \cup IF g = j THEN p ELSE {}
  <2>1. At(written', g) = At(written, g) \cup At(w, g)
    BY <1>2 DEF At
  <2>2. At(w, g) \cup OnWay(i, g)' = OnWay(i, g) \cup IF g = j THEN p ELSE {}
    BY <1>0, <1>1 DEF OnWay
  <2>3. \A k \in Links \ {i} : OnWay(k, g)' = OnWay(k, g)
    BY <1>2 DEF OnWay
  <2>4. Moved(g)' = At(written', g) \cup UNION {OnWay(k, g)' : k \in Links}
    BY DEF Moved
  <2>5. UNION {OnWay(k, g)' : k \in Links} = OnWay(i, g)' \cup UNION {OnWay(k, g)' : k \in Links \ {i}}
    OBVIOUS
  <2>6. UNION {OnWay(k, g) : k \in Links} = OnWay(i, g) \cup UNION {OnWay(k, g) : k \in Links \ {i}}
    OBVIOUS
  <2>7. UNION {OnWay(k, g)' : k \in Links \ {i}} = UNION {OnWay(k, g) : k \in Links \ {i}}
    BY <2>3
  <2> QED BY <2>1, <2>2, <2>4, <2>5, <2>6, <2>7 DEF Moved
<1>6. Fresh'
  <2>1. ASSUME NEW k \in Links PROVE Todo(jobs, k, current, client'[k]) \cap Moved(j)' = {}
    <3>1. Moved(j)' = Moved(current) \cup p
      BY <1>0, <1>5
    <3>2. T(k) \cap Moved(current) = {}
      BY <1>3 DEF Fresh
    <3>3. CASE k = i
      BY <1>1, <3>1, <3>2, <3>3
    <3>4. CASE k # i
      <4>1. T(i) \cap T(k) = {}
        BY <1>3, <3>4, TodoApart
      <4>2. Todo(jobs, k, current, client'[k]) = T(k)
        BY <1>2, <3>4
      <4> HIDE DEF T
      <4> QED BY <1>1, <3>1, <3>2, <4>1, <4>2
    <3> QED BY <3>3, <3>4
  <2> QED BY <1>0, <1>2, <2>1 DEF Fresh
<1>7. InPlace'
  BY <1>1, <1>2, <1>3 DEF InPlace
<1>8. Told'
  <2>1. \A g : Moved(g) \subseteq Moved(g)'
    BY <1>5
  <2> QED BY <1>2, <1>3, <2>1 DEF Told, Jobs
<1>9. Counted'
  <2>1. Cardinality(p) \in Nat /\ transmit_size \in Nat
    BY <1>2, <1>3, FS_CardinalityType DEF Counted
  <2>2. ASSUME current # None PROVE transmit_size + Cardinality(p) <= Cardinality(Moved(j)')
    <3> DEFINE M == Moved(current)
    <3>1. M \subseteq 0 .. jobs[current].len - 1 /\ IsFiniteSet(M)
      <4>1. M \subseteq 0 .. jobs[current].len - 1
        BY <1>3, MovedWithin
      <4>2. CASE current \in Jobs
        <5>1. jobs[current].len \in Nat
          BY <4>2, JobsTyped DEF Inv
        <5>2. IsFiniteSet(0 .. jobs[current].len - 1)
          BY <5>1, FS_Interval
        <5> QED BY <4>1, <5>2, FS_Subset
      <4>3. current \in Jobs
        <5>1. jobs \in Seq([type : {"get", "put"}, len : Nat])
          BY DEF Inv, Chosen, FileTransferAssumption
        <5>2. Jobs = 1 .. Len(jobs) /\ Len(jobs) \in Nat
          BY <5>1, LenProperties DEF Jobs
        <5> QED BY <1>3, <2>2, <5>2 DEF Queued, None
      <4> QED BY <4>1, <4>2, <4>3
    <3>2. M \cap p = {}
      BY <1>1, <1>3 DEF Fresh
    <3>3. Cardinality(M \cup p) = Cardinality(M) + Cardinality(p)
      <4>1. Cardinality(M \cup p) = Cardinality(M) + Cardinality(p) - Cardinality(M \cap p)
        <5> HIDE DEF M
        <5> QED BY <1>2, <3>1, FS_Union
      <4>2. Cardinality({}) = 0
        BY FS_EmptySet
      <4>3. Cardinality(M) \in Nat
        BY <3>1, FS_CardinalityType
      <4>4. Cardinality(M \cap p) = 0
        BY <3>2, <4>2
      <4> DEFINE a == Cardinality(M)
                 b == Cardinality(p)
                 x == Cardinality(M \cap p)
      <4>5. a \in Nat /\ b \in Nat /\ x = 0 /\ Cardinality(M \cup p) = a + b - x
        BY <2>1, <4>1, <4>3, <4>4
      <4> HIDE DEF a, b, x, M
      <4>6. Cardinality(M \cup p) = a + b
        BY ONLY <4>5
      <4> QED BY <4>6 DEF a, b
    <3>4. Moved(j)' = M \cup p
      BY <1>0, <1>5
    <3>5. transmit_size <= Cardinality(M) /\ Cardinality(M) \in Nat
      BY <1>3, <2>2, <3>1, FS_CardinalityType DEF Counted
    <3> HIDE DEF M
    <3> QED BY <2>1, <3>3, <3>4, <3>5
  <2> QED BY <1>0, <1>2, <2>1, <2>2 DEF Counted
<1> QED BY <1>4, <1>6, <1>7, <1>8, <1>9

-----------------------------------------------------------------------------
(* A step of one link, by what it makes of both sockets and wires.           *)
LEMMA LinkStepMoves ==
  ASSUME Arrays, NEW i \in Links, NEW z, NEW t, NEW ux, NEW dx, NEW w, NEW p,
         Moves(jobs, i, current, client[i], server[i], up[i], z, t, ux, dx, w, p),
         client' = [client EXCEPT ![i] = z], server' = [server EXCEPT ![i] = t],
         up' = [up EXCEPT ![i] = ux], down' = [down EXCEPT ![i] = dx],
         written' = written \cup w, IsFiniteSet(p), transmit_size' = transmit_size + Cardinality(p),
         UNCHANGED <<jobs, current, reported>>
  PROVE  LinkMoves(i, w, p)
<1>1. client'[i] = z /\ server'[i] = t /\ up'[i] = ux /\ down'[i] = dx
  BY DEF Arrays
<1>2. \A k \in Links \ {i} :
          client'[k] = client[k] /\ server'[k] = server[k] /\ up'[k] = up[k] /\ down'[k] = down[k]
  BY DEF Arrays
<1> QED BY <1>1, <1>2 DEF LinkMoves

(* Nothing is counted that has not moved.                                    *)
LEMMA NoneCounted ==
  ASSUME Bytewise, transmit_size' = transmit_size
  PROVE  IsFiniteSet({}) /\ transmit_size' = transmit_size + Cardinality({})
<1>1. IsFiniteSet({}) /\ Cardinality({}) = 0
  BY FS_EmptySet
<1>2. transmit_size \in Nat
  BY DEF Bytewise, Counted
<1> QED BY <1>1, <1>2

(* It keeps what is known of the bytes.                                      *)
Sized == file_size' = file_size \/ (current \in Jobs /\ file_size' = jobs[current].len)

(* It keeps the order of the jobs and the length that is known, too.         *)
LEMMA LinkKeeps ==
  ASSUME FileTransferAssumption, Inv, Bytewise, NEW i \in Links, NEW w, NEW p, LinkMoves(i, w, p),
         UNCHANGED <<app, timer>>, Sized
  PROVE  Bytewise'
<1>1. jobs' = jobs /\ current' = current
  BY DEF LinkMoves
<1>2. Queued'
  BY <1>1 DEF Bytewise, Queued, app
<1>3. Known'
  BY <1>1 DEF Bytewise, Known, Sized, Jobs
<1> QED BY <1>2, <1>3, GoesOn DEF Bytewise

(* A read of the client.                                                     *)
LEMMA ClientRecvMoves ==
  ASSUME FileTransferAssumption, Inv, Bytewise, NEW i \in Links, ClientRecv(i)
  PROVE  Bytewise'
<1> DEFINE c == client[i]
           s == server[i]
           u == up[i]
           d == down[i]
<1>1. PICK n \in Readable(c, d) :
          /\ client' = [client EXCEPT ![i] = parse_msg(c, SubSeq(d, 1, n))]
          /\ down' = [down EXCEPT ![i] = SubSeq(@, n + 1, Len(@))]
          /\ transmit_size' = IF c.unpacker = Default THEN transmit_size ELSE transmit_size + n
          /\ written' = fwrite(c, SubSeq(d, 1, n))
  BY DEF ClientRecv
<1> DEFINE bytes == SubSeq(d, 1, n)
           rest == SubSeq(d, n + 1, Len(d))
           z == parse_msg(c, bytes)
<1>2. /\ c.reading # "none" /\ UNCHANGED <<app, timer, jobs, current, reported>> /\ Sized
      /\ server' = server /\ up' = up
  BY DEF ClientRecv, choice, progress, Sized
<1>3. Arrays /\ Held(jobs, i, current, c, s, u, d)
  BY HeldAt DEF Inv, Bytewise
<1>4. Reading(c, d, n, bytes, rest, z)
  BY <1>1 DEF Reading
<1>5. /\ client' = [client EXCEPT ![i] = z] /\ server' = [server EXCEPT ![i] = s]
      /\ up' = [up EXCEPT ![i] = u] /\ down' = [down EXCEPT ![i] = rest]
  BY <1>1, <1>2, <1>3 DEF Arrays
<1>6. /\ c.unpacker = Default => written' = written
      /\ c.unpacker # Default => written' = written \cup Laid(c.unpacker, bytes)
  BY <1>1 DEF fwrite, Laid
<1>7. /\ c.unpacker = Default => transmit_size' = transmit_size
      /\ c.unpacker # Default => transmit_size' = transmit_size + n
  BY <1>1
<1> HIDE DEF c, s, u, d, bytes, rest, z
<1>8. CASE c.unpacker = Default
  <2>1. Moves(jobs, i, current, c, s, u, z, s, u, rest, {}, {})
    BY <1>2, <1>3, <1>4, <1>8, ClientTold
  <2>2. IsFiniteSet({}) /\ transmit_size' = transmit_size + Cardinality({}) /\ written' = written \cup {}
    BY <1>6, <1>7, <1>8, NoneCounted
  <2>3. LinkMoves(i, {}, {})
    BY <1>2, <1>3, <1>5, <2>1, <2>2, LinkStepMoves DEF c, s, u
  <2> QED BY <1>2, <2>3, LinkKeeps
<1>9. CASE c.unpacker # Default
  <2>1. PICK p : /\ Moves(jobs, i, current, c, s, u, z, s, u, rest, Laid(c.unpacker, bytes), p)
                 /\ IsFiniteSet(p) /\ Cardinality(p) = n
    BY <1>2, <1>3, <1>4, <1>9, ClientGets
  <2> DEFINE w == Laid(c.unpacker, bytes)
  <2>2. transmit_size' = transmit_size + Cardinality(p) /\ written' = written \cup w
    BY <1>6, <1>7, <1>9, <2>1
  <2>3. Moves(jobs, i, current, c, s, u, z, s, u, rest, w, p) /\ IsFiniteSet(p)
    BY <2>1
  <2> HIDE DEF w
  <2>4. LinkMoves(i, w, p)
    BY <1>2, <1>3, <1>5, <2>2, <2>3, LinkStepMoves DEF c, s, u
  <2> QED BY <1>2, <2>4, LinkKeeps
<1> QED BY <1>8, <1>9

(* The write handler of the client.                                          *)
LEMMA ClientSentMoves ==
  ASSUME FileTransferAssumption, Inv, Bytewise, NEW i \in Links, ClientSent(i)
  PROVE  Bytewise'
<1> DEFINE c == client[i]
           s == server[i]
           u == up[i]
           d == down[i]
           h == OnMsgSend(c, u)
           n == IF Head(c.out)[1].order = Content THEN ChunkSize(c) ELSE 0
<1>1. /\ c.out # <<>> /\ client' = [client EXCEPT ![i] = h.s] /\ up' = [up EXCEPT ![i] = h.wire]
      /\ transmit_size' = IF Head(c.out)[1].order = Content THEN transmit_size + ChunkSize(c) ELSE transmit_size
  BY DEF ClientSent
<1>2. /\ UNCHANGED <<app, timer, jobs, current, reported>> /\ Sized
      /\ server' = server /\ down' = down /\ written' = written \cup {}
  BY DEF ClientSent, choice, progress, Sized
<1>3. Arrays /\ Held(jobs, i, current, c, s, u, d) /\ Linked(Jobs, c, s, u, d) /\ Jobs \in SUBSET Int
  BY HeldAt, JobsTyped DEF Inv, Bytewise, AllLinked
<1>4. server' = [server EXCEPT ![i] = s] /\ down' = [down EXCEPT ![i] = d]
  BY <1>2, <1>3 DEF Arrays
<1>5. h = OnMsgSend(c, u) /\ n = IF Head(c.out)[1].order = Content THEN ChunkSize(c) ELSE 0
  OBVIOUS
<1>6. transmit_size' = transmit_size + n
  <2>1. transmit_size \in Nat
    BY DEF Bytewise, Counted
  <2> QED BY <1>1, <2>1
<1> HIDE DEF c, s, u, d, h, n
<1>7. Linked(DOMAIN jobs, h.s, s, h.wire, d)
  BY <1>1, <1>3, <1>5, ClientSentKeeps DEF Jobs
<1>8. PICK p : /\ Moves(jobs, i, current, c, s, u, h.s, s, h.wire, d, {}, p)
               /\ IsFiniteSet(p) /\ Cardinality(p) = n
  BY <1>1, <1>3, <1>5, <1>7, ClientSends
<1> DEFINE z == h.s
           w == h.wire
<1>9. /\ Moves(jobs, i, current, c, s, u, z, s, w, d, {}, p) /\ IsFiniteSet(p)
      /\ transmit_size' = transmit_size + Cardinality(p)
      /\ client' = [client EXCEPT ![i] = z] /\ up' = [up EXCEPT ![i] = w]
  BY <1>1, <1>6, <1>8
<1> HIDE DEF z, w
<1>10. LinkMoves(i, {}, p)
  BY <1>2, <1>3, <1>4, <1>9, LinkStepMoves DEF c, s, u
<1> QED BY <1>2, <1>10, LinkKeeps

(* A read of the server.                                                     *)
LEMMA ServerRecvMoves ==
  ASSUME FileTransferAssumption, Inv, Bytewise, NEW i \in Links, ServerRecv(i)
  PROVE  Bytewise'
<1> DEFINE c == client[i]
           s == server[i]
           u == up[i]
           d == down[i]
<1>1. PICK n \in Readable(s, u) :
          /\ server' = [server EXCEPT ![i] = parse_msg(s, SubSeq(u, 1, n))]
          /\ up' = [up EXCEPT ![i] = SubSeq(@, n + 1, Len(@))]
          /\ written' = fwrite(s, SubSeq(u, 1, n))
  BY DEF ServerRecv
<1> DEFINE bytes == SubSeq(u, 1, n)
           rest == SubSeq(u, n + 1, Len(u))
           z == parse_msg(s, bytes)
<1>2. /\ s.reading # "none" /\ UNCHANGED <<app, timer, jobs, current, reported>> /\ Sized
      /\ client' = client /\ down' = down /\ transmit_size' = transmit_size
  BY DEF ServerRecv, choice, progress, sizes, Sized
<1>3. Arrays /\ Held(jobs, i, current, c, s, u, d)
  BY HeldAt DEF Inv, Bytewise
<1>4. Reading(s, u, n, bytes, rest, z)
  BY <1>1 DEF Reading
<1>5. /\ client' = [client EXCEPT ![i] = c] /\ server' = [server EXCEPT ![i] = z]
      /\ up' = [up EXCEPT ![i] = rest] /\ down' = [down EXCEPT ![i] = d]
  BY <1>1, <1>2, <1>3 DEF Arrays
<1>6. /\ s.unpacker = Default => written' = written
      /\ s.unpacker # Default => written' = written \cup Laid(s.unpacker, bytes)
  BY <1>1 DEF fwrite, Laid
<1>7. IsFiniteSet({}) /\ transmit_size' = transmit_size + Cardinality({})
  BY <1>2, NoneCounted
<1> HIDE DEF c, s, u, d, bytes, rest, z
<1>8. PICK w : Moves(jobs, i, current, c, s, u, c, z, rest, d, w, {}) /\ written' = written \cup w
  <2>1. CASE s.unpacker = Default
    <3>1. Moves(jobs, i, current, c, s, u, c, z, rest, d, {}, {})
      BY <1>2, <1>3, <1>4, <2>1, ServerTold
    <3>2. written' = written \cup {}
      BY <1>6, <2>1
    <3> QED BY <3>1, <3>2
  <2>2. CASE s.unpacker # Default
    <3>1. Moves(jobs, i, current, c, s, u, c, z, rest, d, Laid(s.unpacker, bytes), {})
      BY <1>2, <1>3, <1>4, <2>2, ServerGets
    <3> QED BY <1>6, <2>2, <3>1
  <2> QED BY <2>1, <2>2
<1>9. LinkMoves(i, w, {})
  BY <1>2, <1>3, <1>5, <1>7, <1>8, LinkStepMoves DEF c, s, u
<1> QED BY <1>2, <1>9, LinkKeeps

(* The write handler of the server.                                          *)
LEMMA ServerSentMoves ==
  ASSUME FileTransferAssumption, Inv, Bytewise, NEW i \in Links, ServerSent(i)
  PROVE  Bytewise'
<1> DEFINE c == client[i]
           s == server[i]
           u == up[i]
           d == down[i]
           h == OnMsgSend(s, d)
           z == h.s
           x == h.wire
<1>1. s.out # <<>> /\ server' = [server EXCEPT ![i] = z] /\ down' = [down EXCEPT ![i] = x]
  BY DEF ServerSent, is_sending
<1>2. /\ UNCHANGED <<app, timer, jobs, current, reported>> /\ Sized
      /\ client' = client /\ up' = up /\ written' = written \cup {} /\ transmit_size' = transmit_size
  BY DEF ServerSent, choice, progress, sizes, Sized
<1>3. Arrays /\ Held(jobs, i, current, c, s, u, d)
  BY HeldAt DEF Inv, Bytewise
<1>4. client' = [client EXCEPT ![i] = c] /\ up' = [up EXCEPT ![i] = u]
  BY <1>2, <1>3 DEF Arrays
<1>5. h = OnMsgSend(s, d)
  OBVIOUS
<1>6. IsFiniteSet({}) /\ transmit_size' = transmit_size + Cardinality({})
  BY <1>2, NoneCounted
<1> HIDE DEF c, s, u, d, h
<1>7. Moves(jobs, i, current, c, s, u, c, z, u, x, {}, {})
  BY <1>1, <1>3, <1>5, ServerSends
<1> HIDE DEF z, x
<1>8. LinkMoves(i, {}, {})
  BY <1>1, <1>2, <1>3, <1>4, <1>6, <1>7, LinkStepMoves DEF c, s, u
<1> QED BY <1>2, <1>8, LinkKeeps

-----------------------------------------------------------------------------
(* handle_msg of the server.                                                 *)
LEMMA ServerHandleMoves ==
  ASSUME FileTransferAssumption, Inv, Bytewise, NEW i \in Links, ServerHandle(i)
  PROVE  Bytewise'
<1> DEFINE c == client[i]
           s == server[i]
           u == up[i]
           d == down[i]
           m == Head(s.got)
<1>1. PICK h : /\ Handles(s, d, m, h)
               /\ server' = [server EXCEPT ![i] = Popped(h.s)] /\ down' = [down EXCEPT ![i] = h.wire]
  BY ServerHandleDoes
<1>2. /\ s.got # <<>> /\ UNCHANGED <<app, timer, jobs, current, reported>> /\ Sized
      /\ client' = client /\ up' = up /\ written' = written \cup {} /\ transmit_size' = transmit_size
  BY DEF ServerHandle, choice, progress, sizes, Sized
<1>3. Arrays /\ Held(jobs, i, current, c, s, u, d)
  BY HeldAt DEF Inv, Bytewise
<1>4. client' = [client EXCEPT ![i] = c] /\ up' = [up EXCEPT ![i] = u]
  BY <1>2, <1>3 DEF Arrays
<1>5. m = Head(s.got)
  OBVIOUS
<1>6. IsFiniteSet({}) /\ transmit_size' = transmit_size + Cardinality({})
  BY <1>2, NoneCounted
<1> HIDE DEF c, s, u, d, m
<1> DEFINE z == Popped(h.s)
           x == h.wire
<1>7. Moves(jobs, i, current, c, s, u, c, z, u, x, {}, {})
  BY <1>1, <1>2, <1>3, <1>5, ServerHandles
<1>8. server' = [server EXCEPT ![i] = z] /\ down' = [down EXCEPT ![i] = x]
  BY <1>1
<1> HIDE DEF z, x
<1>9. LinkMoves(i, {}, {})
  BY <1>2, <1>3, <1>4, <1>6, <1>7, <1>8, LinkStepMoves DEF c, s, u
<1> QED BY <1>2, <1>9, LinkKeeps

-----------------------------------------------------------------------------
(* The client's transfer ends.                                               *)
LEMMA ClientEndMoves ==
  ASSUME FileTransferAssumption, NEW js, NEW i, NEW j, NEW c, NEW s, NEW u, NEW d, Held(js, i, j, c, s, u, d),
         c.got # <<>>, c.unpacker = Default \/ c.unpacker.left = 0, ~Granted(Head(c.got)),
         NEW t, Reset(c, t) \/ (c.unpacker = Default /\ Idled(c, t)), NEW z, z = Popped(t)
  PROVE  Moves(js, i, j, c, s, u, z, s, u, d, {}, {})
<1> DEFINE J == DOMAIN js
<1>1. Linked(J, c, s, u, d) /\ Sound(J, c, u)
  BY DEF Held, Linked
<1> HIDE DEF J
<1>2. Linked(J, z, s, u, d)
  BY <1>1, ClientEnds
<1>3. z.state = "IDLE" /\ z.unpacker = Default /\ z.buffer = c.buffer /\ Pipe(z, u) = Pipe(c, u)
  BY <1>1, FormEnd
<1> QED BY <1>2, <1>3, ClientRests DEF J

(* The client handles a message on one link.                                 *)
LEMMA BecomesMoves ==
  ASSUME FileTransferAssumption, Inv, Bytewise, NEW i \in Links, NEW h, ClientBecomes(i, h), NEW p,
         Moves(jobs, i, current, client[i], server[i], up[i], Popped(h.s), server[i], h.wire, down[i], {}, p),
         IsFiniteSet(p), transmit_size' = transmit_size + Cardinality(p),
         UNCHANGED <<app, timer, jobs, current, reported, server, down, written>>, Sized
  PROVE  Bytewise'
<1> DEFINE z == Popped(h.s)
           w == h.wire
           s == server[i]
           d == down[i]
<1>1. client' = [client EXCEPT ![i] = z] /\ up' = [up EXCEPT ![i] = w]
  BY DEF ClientBecomes
<1>2. server' = [server EXCEPT ![i] = s] /\ down' = [down EXCEPT ![i] = d] /\ Arrays
  BY DEF Inv, Arrays
<1>3. Moves(jobs, i, current, client[i], server[i], up[i], z, s, w, d, {}, p) /\ written' = written \cup {}
  OBVIOUS
<1> HIDE DEF z, w, s, d
<1>4. LinkMoves(i, {}, p)
  BY <1>1, <1>2, <1>3, LinkStepMoves
<1> QED BY <1>4, LinkKeeps

(* Order 0 of the client.                                                    *)
LEMMA GotLengthMoves ==
  ASSUME FileTransferAssumption, Inv, Bytewise, NEW i \in Links, client[i].got # <<>>,
         client[i].state = "PREPARE", client[i].file # None,
         NEW m, m = Head(client[i].got), m.order = 0, GotLength(i, m),
         UNCHANGED <<app, timer, jobs, current, reported, server, down, written>>
  PROVE  Bytewise'
<1> DEFINE c == client[i]
           s == server[i]
           u == up[i]
           d == down[i]
           share == Share(m.len, i)
           busy == SetUnpacker([c EXCEPT !.state = "BUSY"], Rest(c.file, share.pos, share.len))
           a == Msg(1, c.file, share.pos, share.len)
           r == Send(busy, up[i], <<a>>)
           e == [s |-> trans_end(c, TRUE), wire |-> up[i]]
<1>1. Linked(Jobs, c, s, u, d) /\ Held(jobs, i, current, c, s, u, d)
  BY HeldAt DEF Inv, AllLinked, Bytewise
<1>2. c.got # <<>> /\ c.state = "PREPARE" /\ c.file # None /\ m = Head(c.got)
  OBVIOUS
<1>3. IsFiniteSet({}) /\ transmit_size' = transmit_size + Cardinality({})
  BY NoneCounted DEF GotLength
<1>4. ClientBecomes(i, IF m.len < 0 \/ share.len = 0 THEN e ELSE r)
      /\ file_size' = IF m.len >= 0 /\ i = 0 THEN m.len ELSE file_size
  BY DEF GotLength
<1>5. m \in Messages /\ c.unpacker = Default /\ m.len \in Int /\ Taken(c) = {m}
  BY <1>1, <1>2, NotIdle DEF Messages
<1>6. Sized
  <2> HIDE DEF c, s, u, d
  <2>1. current \in DOMAIN jobs /\ Answered(jobs, i, current, s, m)
    BY <1>1, <1>2, <1>5, HeldTyped DEF PlacedBy
  <2> QED BY <1>4, <2>1 DEF Sized, Answered, Jobs
<1>7. CASE m.len < 0 \/ share.len = 0
  <2>1. ClientBecomes(i, e) /\ e.wire = u
    BY <1>4, <1>7
  <2>2. Reset(c, e.s) /\ ~Granted(m)
    BY DEF Reset, trans_end, Granted
  <2> HIDE DEF e, c, s, u, d
  <2> DEFINE z == Popped(e.s)
             t == e.s
  <2>3. z = Popped(t) /\ Reset(c, t)
    BY <2>2
  <2> HIDE DEF z, t
  <2>4. Moves(jobs, i, current, c, s, u, z, s, u, d, {}, {})
    BY <1>1, <1>2, <1>5, <2>2, <2>3, ClientEndMoves
  <2>5. Moves(jobs, i, current, client[i], server[i], up[i], Popped(e.s), server[i], e.wire, down[i], {}, {})
    BY <2>1, <2>4 DEF z, t, c, s, u, d
  <2> QED BY <1>3, <1>6, <2>1, <2>5, BecomesMoves
<1>8. CASE ~(m.len < 0 \/ share.len = 0)
  <2>1. ClientBecomes(i, r)
    BY <1>4, <1>8
  <2>2. AsksFor(c, share.pos, share.len, busy, a) /\ r = Send(busy, u, <<a>>) /\ share = Share(m.len, i)
    BY DEF AsksFor
  <2>3. m.len >= 0
    BY <1>5, <1>8
  <2> DEFINE z == Popped(r.s)
  <2>4. z = Popped(r.s)
    OBVIOUS
  <2> HIDE DEF r, busy, a, share, z, c, s, u, d
  <2>5. Moves(jobs, i, current, c, s, u, z, s, r.wire, d, {}, {})
    BY <1>1, <1>2, <2>2, <2>3, <2>4, ClientShares
  <2>6. Moves(jobs, i, current, client[i], server[i], up[i], Popped(r.s), server[i], r.wire, down[i], {}, {})
    BY <2>5 DEF z, c, s, u, d
  <2> QED BY <1>3, <1>6, <2>1, <2>6, BecomesMoves
<1> QED BY <1>7, <1>8

(* Order 11 of the client.                                                   *)
LEMMA MayPutMoves ==
  ASSUME FileTransferAssumption, Inv, Bytewise, NEW i \in Links, client[i].got # <<>>,
         client[i].state = "PREPARE", client[i].file # None,
         NEW m, m = Head(client[i].got), m.order = 11, MayPut(i, m),
         UNCHANGED <<app, timer, jobs, current, reported, server, down, written>>
  PROVE  Bytewise'
<1> DEFINE c == client[i]
           s == server[i]
           u == up[i]
           d == down[i]
           busy == [c EXCEPT !.state = "BUSY", !.buffer = Rest(c.file, Share(jobs[c.file].len, i).pos, m.pos)]
           r == SendChunk(busy, up[i])
           n == ChunkSize(busy)
           e == [s |-> trans_end(c, TRUE), wire |-> up[i]]
<1>1. Linked(Jobs, c, s, u, d) /\ Held(jobs, i, current, c, s, u, d)
  BY HeldAt DEF Inv, AllLinked, Bytewise
<1>2. c.got # <<>> /\ c.state = "PREPARE" /\ c.file # None /\ m = Head(c.got)
  OBVIOUS
<1>3. Sized
  BY DEF MayPut, Sized
<1>4. m \in Messages /\ c.unpacker = Default /\ m.len \in Int /\ Taken(c) = {m}
  BY <1>1, <1>2, NotIdle DEF Messages
<1>5. CASE m.len < 0
  <2>1. ClientBecomes(i, e) /\ e.wire = u /\ transmit_size' = transmit_size
    BY <1>5 DEF MayPut
  <2>2. Reset(c, e.s) /\ ~Granted(m)
    BY <1>4, <1>5 DEF Reset, trans_end, Granted
  <2>3. IsFiniteSet({}) /\ transmit_size' = transmit_size + Cardinality({})
    BY <2>1, NoneCounted
  <2> HIDE DEF e, c, s, u, d
  <2> DEFINE z == Popped(e.s)
             t == e.s
  <2>4. z = Popped(t) /\ Reset(c, t)
    BY <2>2
  <2> HIDE DEF z, t
  <2>5. Moves(jobs, i, current, c, s, u, z, s, u, d, {}, {})
    BY <1>1, <1>2, <1>4, <2>2, <2>4, ClientEndMoves
  <2>6. Moves(jobs, i, current, client[i], server[i], up[i], Popped(e.s), server[i], e.wire, down[i], {}, {})
    BY <2>1, <2>5 DEF z, t, c, s, u, d
  <2> QED BY <1>3, <2>1, <2>3, <2>6, BecomesMoves
<1>6. CASE ~(m.len < 0)
  <2>1. ClientBecomes(i, r) /\ transmit_size' = transmit_size + n
    BY <1>6 DEF MayPut
  <2>2. /\ PutsShareOf(jobs, i, c, m, busy)
        /\ r = SendChunk(busy, u) /\ n = ChunkSize(busy)
    BY DEF PutsShareOf
  <2>3. m.len >= 0
    BY <1>4, <1>6
  <2> DEFINE z == Popped(r.s)
  <2>4. z = Popped(r.s)
    OBVIOUS
  <2> HIDE DEF r, busy, n, z, c, s, u, d
  <2>5. PICK p : /\ Moves(jobs, i, current, c, s, u, z, s, r.wire, d, {}, p)
                 /\ IsFiniteSet(p) /\ Cardinality(p) = n
    <3>1. FileTransferAssumption /\ Held(jobs, i, current, c, s, u, d) /\ m.order = 11
      BY <1>1
    <3> HIDE DEF FileTransferAssumption
    <3>2. \E p : /\ Moves(jobs, i, current, c, s, u, z, s, r.wire, d, {}, p)
                 /\ IsFiniteSet(p) /\ Cardinality(p) = n
      BY ONLY <1>2, <2>2, <2>3, <2>4, <3>1, ClientPuts
    <3> QED BY <3>2
  <2>6. Moves(jobs, i, current, client[i], server[i], up[i], Popped(r.s), server[i], r.wire, down[i], {}, p)
    BY <2>5 DEF z, c, s, u, d
  <2>7. IsFiniteSet(p) /\ transmit_size' = transmit_size + Cardinality(p)
    BY <2>1, <2>5
  <2> QED BY <1>3, <2>1, <2>6, <2>7, BecomesMoves
<1> QED BY <1>5, <1>6

(* A busy client handles the empty message.                                  *)
LEMMA BusyMoves ==
  ASSUME FileTransferAssumption, Inv, Bytewise, NEW i \in Links, client[i].got # <<>>,
         client[i].state = "BUSY", ClientBecomes(i, [s |-> BusyHandle(client[i]), wire |-> up[i]]),
         UNCHANGED <<app, timer, jobs, current, reported, server, down, written, sizes>>
  PROVE  Bytewise'
<1> DEFINE c == client[i]
           s == server[i]
           u == up[i]
           d == down[i]
           h == [s |-> BusyHandle(c), wire |-> up[i]]
           t == h.s
           z == Popped(t)
<1>1. Linked(Jobs, c, s, u, d) /\ Held(jobs, i, current, c, s, u, d)
  BY HeldAt DEF Inv, AllLinked, Bytewise
<1>2. c.got # <<>> /\ c.state = "BUSY"
  OBVIOUS
<1>3. IsFiniteSet({}) /\ transmit_size' = transmit_size + Cardinality({}) /\ Sized
  BY NoneCounted DEF sizes, Sized
<1>4. ClientBecomes(i, h) /\ h.wire = u
  OBVIOUS
<1>5. ~Granted(Head(c.got))
  <2>1. Head(c.got) = Nothing
    BY <1>1, <1>2, NotIdle
  <2> QED BY <2>1 DEF Granted, Nothing, Msg, Empty
<1>6. Moves(jobs, i, current, c, s, u, z, s, u, d, {}, {})
  <2>1. z = Popped(t)
    OBVIOUS
  <2>2. CASE c.unpacker = Default \/ c.unpacker.left = 0
    <3>1. Reset(c, t)
      BY <2>2 DEF BusyHandle, trans_end, Reset
    <3> HIDE DEF h, c, s, u, d, t, z
    <3> QED BY <1>1, <1>2, <1>5, <2>1, <2>2, <3>1, ClientEndMoves
  <2>3. CASE ~(c.unpacker = Default \/ c.unpacker.left = 0)
    <3>1. t = c
      BY <2>3 DEF BusyHandle
    <3> HIDE DEF h, c, s, u, d, t, z
    <3>2. Sound(Jobs, c, u)
      BY <1>1 DEF Linked
    <3>3. PopOnly(c, z) /\ Pipe(z, u) = Pipe(c, u)
      BY <1>2, <2>1, <3>1, <3>2, PopSound
    <3>4. /\ z.state = c.state /\ z.file = c.file /\ z.unpacker = c.unpacker /\ z.buffer = c.buffer
          /\ Taken(z) \subseteq Taken(c) /\ Pipe(z, u) = Pipe(c, u)
      BY <3>3 DEF PopOnly
    <3> QED BY <1>1, <3>4, ClientStays
  <2> QED BY <2>2, <2>3
<1>7. Moves(jobs, i, current, client[i], server[i], up[i], Popped(h.s), server[i], h.wire, down[i], {}, {})
  <2> HIDE DEF h
  <2> QED BY <1>4, <1>6
<1> HIDE DEF h
<1> QED BY <1>3, <1>4, <1>7, BecomesMoves

-----------------------------------------------------------------------------
(* A link that is idle, or has its answer to order 10, has nothing under way *)
(* but content.                                                              *)
LEMMA NothingAsked ==
  ASSUME NEW J, NEW c, NEW s, NEW u, NEW d, Linked(J, c, s, u, d),
         c.state = "IDLE" \/ (c.state = "PREPARE" /\ c.got # <<>> /\ Head(c.got).order = 10)
  PROVE  /\ Orders(Pipe(c, u)) = {} /\ Orders(Pipe(s, d)) = {} /\ Taken(s) = {}
         /\ (\A x \in Taken(c) : ~Granted(x)) /\ (c.state = "IDLE" => c.got = <<>>)
<1> DEFINE ou == Orders(Pipe(c, u))
           od == Orders(Pipe(s, d))
<1>1. Agreed(c, s, Amount(Pipe(c, u)), ou, Amount(Pipe(s, d)), od)
  BY DEF Linked
<1>2. CASE c.state = "IDLE"
  <2>1. c.got = <<>>
    BY <1>2, NotIdle
  <2> QED BY <1>1, <1>2, <2>1 DEF Agreed, Asks
<1>3. CASE c.state = "PREPARE" /\ c.got # <<>> /\ Head(c.got).order = 10
  <2>1. Taken(c) = {Head(c.got)}
    BY <1>3, NotIdle
  <2>2. OneOrder(c, s, ou, od)
    BY <1>1 DEF Agreed
  <2> HIDE DEF ou, od
  <2>3. ou = {} /\ od = {} /\ Taken(s) = {}
    BY <2>1, <2>2 DEF OneOrder
  <2>4. ~Granted(Head(c.got))
    BY <1>3 DEF Granted
  <2> QED BY <1>3, <2>1, <2>3, <2>4 DEF ou, od
<1> QED BY <1>2, <1>3

(* put_file() of one link: it asks for its share, or is idle.                *)
LEMMA PutFileMoves ==
  ASSUME FileTransferAssumption, NEW k, NEW c, NEW s, NEW u, NEW d, NEW j, NEW h, NEW z,
         PutOn(Jobs, k, c, s, d, j, h, z), Held(jobs, k, j, c, s, u, d), u = up[k], Kind(jobs, j, "put")
  PROVE  /\ Placed(jobs, k, j, z, s, Pipe(z, h.wire), Pipe(s, d))
         /\ Amount(Pipe(z, h.wire)) = Amount(Pipe(c, u)) /\ Todo(jobs, k, j, z) \subseteq SpanOf(jobs, k, j)
<1> DEFINE share == Share(jobs[j].len, k)
           t == [c EXCEPT !.file = j, !.state = "PREPARE"]
           m == Msg(11, j, share.pos, share.len)
           b == <<m>>
<1>1. /\ Jobs \in SUBSET (Nat \ {0}) /\ k \in Links /\ j \in Jobs /\ LengthKnown(j)
      /\ c = client[k] /\ Linked(Jobs, c, s, u, d)
  BY DEF PutOn
<1>2. \/ c.state = "IDLE" /\ z = h.s
      \/ c.state = "PREPARE" /\ c.got # <<>> /\ Head(c.got).order = 10 /\ z = Popped(h.s)
  BY DEF PutOn
<1>3. PICK ok \in BOOLEAN : h = put_file(k, j, ok)
  BY DEF PutOn
<1>4. share.pos \in Int /\ share.len \in Int /\ j \in Int /\ j # 0 /\ j <= j
  BY <1>1, ShareTyped DEF LengthKnown
<1>5. c \in Sockets
  BY <1>1, LinkTyped
<1>6. /\ Orders(Pipe(c, u)) = {} /\ Orders(Pipe(s, d)) = {} /\ Taken(s) = {}
      /\ (\A x \in Taken(c) : ~Granted(x)) /\ (c.state = "IDLE" => c.got = <<>>)
  BY <1>1, <1>2, NothingAsked
<1>7. CASE ok /\ share.len > 0
  <2>1. h = Send(t, u, b)
    BY <1>3, <1>7, <1>1 DEF put_file
  <2>2. /\ t \in Sockets /\ t.state = "PREPARE" /\ t.file = j /\ t.unpacker = c.unpacker
        /\ t.buffer = c.buffer /\ t.out = c.out /\ t.got = c.got /\ t.reading = c.reading
    BY <1>4, <1>5 DEF Sockets
  <2>3. /\ m \in Messages /\ IsOrder(Jobs, m) /\ m.order = 11 /\ m.job = j
        /\ m.pos = ShareOf(jobs, k, j).pos /\ m.len = ShareOf(jobs, k, j).len
    BY <1>1, <1>4 DEF Msg, Messages, IsOrder, ShareOf
  <2>4. (t.got = <<>> /\ z = h.s) \/ (t.got # <<>> /\ z = Popped(h.s))
    BY <1>2, <1>6, <2>2
  <2>5. /\ b = <<m>> /\ c.state # "BUSY" /\ FileTransferAssumption /\ Held(jobs, k, j, c, s, u, d) /\ j <= j
        /\ Orders(Pipe(c, u)) = {} /\ Orders(Pipe(s, d)) = {} /\ Taken(s) = {}
    BY <1>2, <1>4, <1>6
  <2> HIDE DEF t, m, b
  <2>6. Asking(jobs, k, j, c, t, m)
    BY <2>2, <2>3 DEF Asking, Kind, KindOf, Jobs
  <2> HIDE DEF FileTransferAssumption
  <2>7. /\ Placed(jobs, k, j, z, s, Pipe(z, h.wire), Pipe(s, d))
        /\ Amount(Pipe(z, h.wire)) = Amount(Pipe(c, u)) /\ z.state = t.state /\ z.file = t.file
    BY ONLY <2>1, <2>4, <2>5, <2>6, ClientAsks
  <2>8. Todo(jobs, k, j, z) = SpanOf(jobs, k, j)
    <3>1. z.state = "PREPARE" /\ z.file # None
      BY <1>4, <2>2, <2>7 DEF None
    <3> QED BY <3>1, TodoCases DEF SpanOf
  <2> QED BY <2>7, <2>8
<1>8. CASE ~(ok /\ share.len > 0)
  <2>1. h = [s |-> trans_end(c, FALSE), wire |-> u]
    BY <1>1, <1>3, <1>8 DEF put_file
  <2> DEFINE y == h.s
  <2>2. Idled(c, y) /\ h.wire = u
    BY <2>1 DEF Idled, trans_end
  <2>3. /\ Placed(jobs, k, j, z, s, Pipe(z, u), Pipe(s, d)) /\ z.state = "IDLE"
        /\ Amount(Pipe(z, u)) = Amount(Pipe(c, u))
    <3>1. CASE c.state = "IDLE"
      <4>1. z = y /\ j \in DOMAIN jobs
        BY <1>1, <1>2, <3>1 DEF Jobs
      <4> HIDE DEF y, share
      <4> QED BY <1>4, <2>2, <3>1, <4>1, ClientWaits
    <3>2. CASE c.state = "PREPARE" /\ c.got # <<>> /\ Head(c.got).order = 10
      <4>1. c.unpacker = Default /\ ~Granted(Head(c.got)) /\ Sound(Jobs, c, u)
        BY <1>1, <3>2, NotIdle DEF Granted, Linked
      <4>2. z = Popped(y)
        BY <1>2, <3>2
      <4> HIDE DEF y, share
      <4>3. Moves(jobs, k, j, c, s, u, z, s, u, d, {}, {})
        BY <2>2, <3>2, <4>1, <4>2, ClientEndMoves
      <4>4. z.state = "IDLE" /\ Pipe(z, u) = Pipe(c, u)
        BY <2>2, <3>2, <4>1, <4>2, FormEnd
      <4> QED BY <4>3, <4>4 DEF Moves
    <3> QED BY <1>2, <3>1, <3>2
  <2>4. Todo(jobs, k, j, z) = {}
    BY <2>3, TodoCases
  <2> QED BY <2>2, <2>3, <2>4
<1> QED BY <1>7, <1>8

(* What has moved is what was.                                               *)
LEMMA SameMoved ==
  ASSUME written' = written, server' = server,
         \A k \in Links : Amount(Pipe(client'[k], up'[k])) = Amount(Pipe(client[k], up[k])), NEW g
  PROVE  Moved(g)' = Moved(g)
<1>1. \A k \in Links : OnWay(k, g)' = OnWay(k, g)
  BY DEF OnWay
<1> QED BY <1>1 DEF Moved

-----------------------------------------------------------------------------
(* Order 10 of the client: all links take their share of the file.           *)
LEMMA TruncatedMoves ==
  ASSUME FileTransferAssumption, Inv, Bytewise, NEW i \in Links, client[i].got # <<>>,
         client[i].state = "PREPARE", client[i].file = None,
         NEW m, m = Head(client[i].got), m.order = 10, Truncated(i, m),
         UNCHANGED <<app, timer, jobs, current, reported, server, down, written>>
  PROVE  Bytewise'
<1> DEFINE c == client[i]
           s == server[i]
           u == up[i]
           d == down[i]
           e == [s |-> trans_end(c, TRUE), wire |-> up[i]]
<1>0. PICK j : j = current
  OBVIOUS
<1>1. Linked(Jobs, c, s, u, d) /\ Held(jobs, i, j, c, s, u, d)
  BY <1>0, HeldAt DEF Inv, AllLinked, Bytewise
<1>2. c.got # <<>> /\ c.state = "PREPARE" /\ c.file = None /\ m = Head(c.got)
  OBVIOUS
<1>3. m \in Messages /\ c.unpacker = Default /\ m.len \in Int /\ Taken(c) = {m} /\ m.job \in Jobs
  BY <1>1, <1>2, NotIdle DEF Messages, IsOrder
<1>4. m.job = j /\ Kind(jobs, j, "put") /\ j \in Jobs
  <2> HIDE DEF c, s, u, d
  <2>1. Answered(jobs, i, j, s, m)
    BY <1>1, <1>3, HeldTyped DEF PlacedBy
  <2> QED BY <1>3, <2>1 DEF Answered, KindOf
<1>5. CASE m.len < 0
  <2>1. ClientBecomes(i, e) /\ e.wire = u /\ transmit_size' = transmit_size /\ Sized
    BY <1>5 DEF Truncated, sizes, Sized
  <2>2. Reset(c, e.s) /\ ~Granted(m)
    BY <1>3, <1>5 DEF Reset, trans_end, Granted
  <2>3. IsFiniteSet({}) /\ transmit_size' = transmit_size + Cardinality({})
    BY <2>1, NoneCounted
  <2> HIDE DEF e, c, s, u, d
  <2> DEFINE z == Popped(e.s)
             t == e.s
  <2>4. z = Popped(t) /\ Reset(c, t)
    BY <2>2
  <2> HIDE DEF z, t
  <2>5. Moves(jobs, i, j, c, s, u, z, s, u, d, {}, {})
    BY <1>1, <1>2, <1>3, <2>2, <2>4, ClientEndMoves
  <2>6. Moves(jobs, i, current, client[i], server[i], up[i], Popped(e.s), server[i], e.wire, down[i], {}, {})
    BY <1>0, <2>1, <2>5 DEF z, t, c, s, u, d
  <2> QED BY <2>1, <2>3, <2>6, BecomesMoves
<1>6. CASE ~(m.len < 0)
  <2>1. PICK bad \in Failing("put", Links) :
          LET put == [k \in Links |-> put_file(k, m.job, k \notin bad)]
          IN  /\ client' = [k \in Links |-> IF k = i THEN Popped(put[k].s) ELSE put[k].s]
              /\ up' = [k \in Links |-> put[k].wire]
              /\ file_size' = IF 0 \in bad THEN file_size ELSE jobs[m.job].len
              /\ transmit_size' = transmit_size
    BY <1>6 DEF Truncated
  <2> DEFINE put(k) == put_file(k, j, k \notin bad)
  <2>2. /\ client' = [k \in Links |-> IF k = i THEN Popped(put(k).s) ELSE put(k).s]
        /\ up' = [k \in Links |-> put(k).wire] /\ transmit_size' = transmit_size /\ Sized
    BY <1>0, <1>4, <2>1 DEF Sized
  <2>3. \A k \in Links \ {i} : client[k].state = "IDLE"
    BY DEF Inv, OneTruncates, Truncates, Alone, is_idle
  <2>4. /\ server' = server /\ down' = down /\ written' = written /\ jobs' = jobs /\ current' = j
        /\ reported' = reported /\ UNCHANGED <<app, timer>>
    BY <1>0
  <2>5. ASSUME NEW k \in Links
        PROVE  /\ Placed(jobs, k, j, client'[k], server[k], Pipe(client'[k], up'[k]), Pipe(server[k], down[k]))
               /\ Amount(Pipe(client'[k], up'[k])) = Amount(Pipe(client[k], up[k]))
               /\ Todo(jobs, k, j, client'[k]) \subseteq 0 .. jobs[j].len - 1
    <3> DEFINE x == client[k]
               h == put(k)
               y == server[k]
               v == up[k]
               b == down[k]
               z == client'[k]
    <3>1. Linked(Jobs, x, y, v, b) /\ Held(jobs, k, j, x, y, v, b)
      BY <1>0, HeldAt DEF Inv, AllLinked, Bytewise
    <3>2. \/ x.state = "IDLE" /\ k # i
          \/ x.state = "PREPARE" /\ x.got # <<>> /\ Head(x.got).order = 10 /\ k = i
      BY <2>3
    <3>3. /\ (x.state = "IDLE" /\ z = h.s) \/ (x.state = "PREPARE" /\ z = Popped(h.s))
          /\ up'[k] = h.wire
      BY <2>2, <3>2
    <3>4. Jobs \in SUBSET (Nat \ {0}) /\ jobs[j].len \in Nat
      BY <1>4, JobsTyped DEF Inv
    <3>5. PutOn(Jobs, k, x, y, b, j, h, z)
      BY <1>4, <3>1, <3>2, <3>3, <3>4 DEF PutOn, LengthKnown
    <3>6. v = up[k]
      OBVIOUS
    <3> HIDE DEF h, x, y, v, b, z
    <3>7. /\ Placed(jobs, k, j, z, y, Pipe(z, h.wire), Pipe(y, b))
          /\ Amount(Pipe(z, h.wire)) = Amount(Pipe(x, v)) /\ Todo(jobs, k, j, z) \subseteq SpanOf(jobs, k, j)
      BY <1>4, <3>1, <3>5, <3>6, PutFileMoves
    <3>8. SpanOf(jobs, k, j) \subseteq 0 .. jobs[j].len - 1
      BY <1>4, <3>4, SpansApart DEF Jobs
    <3> QED BY <3>3, <3>7, <3>8 DEF x, y, v, b, z
  <2> HIDE DEF put
  <2>6. \A g : Moved(g)' = Moved(g)
    BY <2>4, <2>5, SameMoved
  <2>7. AllPlaced'
    BY <2>4, <2>5 DEF AllPlaced, PlacedAt
  <2>8. Fresh'
    <3>1. Todo(jobs, i, current, client[i]) = 0 .. jobs[j].len - 1
      BY <1>0, <1>2, TodoCases
    <3>2. Todo(jobs, i, current, client[i]) \cap Moved(current) = {}
      BY DEF Bytewise, Fresh
    <3>3. Moved(j)' = Moved(j) /\ Moved(j) = Moved(current)
      BY <1>0, <2>6
    <3>4. \A k \in Links : Todo(jobs, k, j, client'[k]) \cap Moved(j)' = {}
      BY <2>5, <3>1, <3>2, <3>3
    <3> QED BY <1>0, <2>4, <3>4 DEF Fresh
  <2>9. InPlace' /\ Queued'
    BY <1>0, <2>4 DEF Bytewise, InPlace, Queued, app
  <2>10. Counted'
    <3>1. Moved(j)' = Moved(current)
      BY <1>0, <2>6
    <3> QED BY <1>0, <2>2, <2>4, <3>1 DEF Bytewise, Counted
  <2>11. Told'
    BY <1>0, <2>4, <2>6 DEF Bytewise, Told, Jobs
  <2>12. Known'
    BY <1>0, <2>2, <2>4 DEF Bytewise, Known, Sized, Jobs
  <2> QED BY <2>7, <2>8, <2>9, <2>10, <2>11, <2>12 DEF Bytewise
<1> QED BY <1>5, <1>6

(* handle_msg of the client.                                                 *)
LEMMA ClientHandleMoves ==
  ASSUME FileTransferAssumption, Inv, Bytewise, NEW i \in Links, ClientHandle(i)
  PROVE  Bytewise'
<1> DEFINE c == client[i]
           m == Head(c.got)
<1>1. /\ c.got # <<>> /\ UNCHANGED <<app, timer, jobs, current, reported, server, down, written>>
  BY DEF ClientHandle, choice, progress
<1>2. \/ c.state = "PREPARE" /\ m.order = 0 /\ c.file # None /\ GotLength(i, m)
      \/ c.state = "PREPARE" /\ m.order = 10 /\ c.file = None /\ Truncated(i, m)
      \/ c.state = "PREPARE" /\ m.order = 11 /\ c.file # None /\ MayPut(i, m)
      \/ /\ c.state = "BUSY" \/ m.order \in {Empty, Content} \/ c.state # "PREPARE" \/ (c.file = None) # (m.order = 10)
         /\ ClientBecomes(i, [s |-> IF c.state = "BUSY" THEN BusyHandle(c) ELSE c, wire |-> up[i]])
         /\ UNCHANGED sizes
  BY DEF ClientHandle
<1>3. /\ c.state \in {"PREPARE", "BUSY"}
      /\ c.state = "PREPARE" => IsOrder(Jobs, m) /\ (m.order = 10 <=> c.file = None)
  BY <1>1, NotIdle DEF Inv, AllLinked
<1>4. c.state = "PREPARE" => m.order \notin {Empty, Content} /\ ((c.file = None) <=> (m.order = 10))
  BY <1>3 DEF IsOrder, Empty, Content
<1>5. CASE c.state = "PREPARE" /\ m.order = 0 /\ c.file # None /\ GotLength(i, m)
  BY <1>1, <1>5, GotLengthMoves
<1>6. CASE c.state = "PREPARE" /\ m.order = 10 /\ c.file = None /\ Truncated(i, m)
  BY <1>1, <1>6, TruncatedMoves
<1>7. CASE c.state = "PREPARE" /\ m.order = 11 /\ c.file # None /\ MayPut(i, m)
  BY <1>1, <1>7, MayPutMoves
<1>8. CASE c.state = "BUSY" /\ ClientBecomes(i, [s |-> BusyHandle(c), wire |-> up[i]]) /\ UNCHANGED sizes
  BY <1>1, <1>8, BusyMoves
<1> QED BY <1>2, <1>3, <1>4, <1>5, <1>6, <1>7, <1>8

-----------------------------------------------------------------------------
(* What the link becomes that takes it.                                      *)
LEMMA BegunMoves ==
  ASSUME FileTransferAssumption, NEW i, NEW j, NEW c, NEW s, NEW u, NEW d, Held(jobs, i, j, c, s, u, d),
         c = client[i], u = up[i], NEW g, j <= g, NEW o \in {0, 10}, Kind(jobs, g, KindOf(o)), Begun(i, g, o),
         NEW z, z = client'[i], NEW w, w = up'[i]
  PROVE  /\ Placed(jobs, i, g, z, s, Pipe(z, w), Pipe(s, d))
         /\ Amount(Pipe(z, w)) = Amount(Pipe(c, u))
<1>1. PICK t, r : Starts(Jobs, c, u, g, o, t, r) /\ z = r.s /\ w = r.wire
  BY DEF Begun
<1> DEFINE m == Msg(o, g, 0, 0)
           b == <<m>>
<1>2. /\ Jobs \in SUBSET (Nat \ {0}) /\ g \in Jobs /\ g \in Int /\ c.state = "IDLE" /\ r = Send(t, u, b)
      /\ Linked(Jobs, c, s, u, d)
  BY <1>1 DEF Starts, Held, Jobs
<1>3. /\ Orders(Pipe(c, u)) = {} /\ Orders(Pipe(s, d)) = {} /\ Taken(s) = {} /\ c.got = <<>>
      /\ c \in Sockets /\ c.file = None
  <2>1. Agreed(c, s, Amount(Pipe(c, u)), Orders(Pipe(c, u)), Amount(Pipe(s, d)), Orders(Pipe(s, d)))
    BY <1>2 DEF Linked
  <2>2. c.file = None
    BY <1>2, <2>1 DEF Agreed, Asks
  <2> QED BY <1>2, <2>2, NothingAsked, LinkTyped
<1>4. m \in Messages /\ IsOrder(Jobs, m) /\ m.order = o /\ m.job = g
  BY <1>2 DEF Msg, Messages, IsOrder
<1>5. /\ t \in Sockets /\ t.file \in {None, g} /\ t.unpacker = c.unpacker
      /\ t.buffer = c.buffer /\ t.out = c.out /\ t.got = c.got /\ t.reading = c.reading
  BY <1>1, <1>2, <1>3 DEF Sockets, Starts
<1> HIDE DEF m
<1>6. Asking(jobs, i, g, c, t, m)
  BY <1>4, <1>5 DEF Asking, Jobs
<1>7. /\ FileTransferAssumption /\ Held(jobs, i, j, c, s, u, d) /\ c.state # "BUSY" /\ j <= g
      /\ Orders(Pipe(c, u)) = {} /\ Orders(Pipe(s, d)) = {} /\ Taken(s) = {}
      /\ b = <<m>> /\ r = Send(t, u, b)
      /\ (t.got = <<>> /\ z = r.s) \/ (t.got # <<>> /\ z = Popped(r.s))
  BY <1>1, <1>2, <1>3, <1>5
<1> HIDE DEF FileTransferAssumption, b
<1>8. /\ Placed(jobs, i, g, z, s, Pipe(z, r.wire), Pipe(s, d))
      /\ Amount(Pipe(z, r.wire)) = Amount(Pipe(c, u)) /\ z.state = t.state /\ z.file = t.file
  BY ONLY <1>6, <1>7, ClientAsks
<1> QED BY <1>1, <1>8

(* A transmission begins.                                                    *)
LEMMA TransmitMoves ==
  ASSUME FileTransferAssumption, "get" \notin Faults, Inv, Bytewise, transmit_file
  PROVE  Bytewise'
<1>0. PICK j : j = Head(file_list)
  OBVIOUS
<1>1. /\ j \in Jobs /\ file_list # <<>> /\ current' = j /\ timer' = TRUE /\ \A i \in Links : client[i].state = "IDLE"
      /\ IF jobs[j].type = "get" THEN \A i \in Links : Begun(i, j, 0)
         ELSE Begun(0, j, 10) /\ \A i \in Links \ {0} : client'[i] = client[i] /\ up'[i] = up[i]
  BY <1>0, TransmitDoes
<1>2. /\ file_list' = Tail(file_list) /\ file_size' = -1 /\ transmit_size' = 0 /\ jobs' = jobs /\ typed' = typed
      /\ reported' = reported /\ server' = server /\ down' = down /\ written' = written
  BY DEF transmit_file, choice
<1>3. /\ typed = current + Len(file_list) /\ typed \in 0 .. Len(jobs) /\ current \in 0 .. Len(jobs)
      /\ \A k \in 1 .. Len(file_list) : file_list[k] = current + k
  BY DEF Bytewise, Queued
<1>4. /\ file_list \in Seq(Jobs) /\ Len(file_list) \in Nat \ {0} /\ Len(jobs) \in Nat
      /\ jobs \in Seq([type : {"get", "put"}, len : Nat]) /\ Jobs = 1 .. Len(jobs)
  <2>1. file_list \in Seq(Jobs) /\ jobs \in Seq([type : {"get", "put"}, len : Nat])
    BY DEF Inv, Chosen, FileTransferAssumption
  <2> QED BY <1>1, <2>1, LenProperties, EmptySeq DEF Jobs
<1>5. j = current + 1 /\ j \in Nat /\ current \in Nat
  <2>1. j = file_list[1]
    BY <1>0, <1>1, <1>4
  <2> QED BY <1>3, <1>4, <2>1
<1>6. Kind(jobs, j, IF jobs[j].type = "get" THEN "get" ELSE "put")
  <2>1. jobs[j].type \in {"get", "put"}
    <3>1. jobs[j] \in [type : {"get", "put"}, len : Nat]
      BY <1>1, <1>4, ElementOfSeq
    <3> QED BY <3>1
  <2> QED BY <1>1, <2>1 DEF Kind, Jobs
<1>7. ASSUME NEW i \in Links
      PROVE  /\ Placed(jobs, i, j, client'[i], server[i], Pipe(client'[i], up'[i]), Pipe(server[i], down[i]))
             /\ Amount(Pipe(client'[i], up'[i])) = Amount(Pipe(client[i], up[i]))
  <2> DEFINE c == client[i]
             s == server[i]
             u == up[i]
             d == down[i]
             z == client'[i]
             w == up'[i]
  <2>1. Held(jobs, i, current, c, s, u, d) /\ c.state = "IDLE" /\ current <= j
    BY <1>1, <1>5, HeldAt DEF Bytewise
  <2>2. c = client[i] /\ u = up[i] /\ z = client'[i] /\ w = up'[i]
    OBVIOUS
  <2>3. \/ Begun(i, j, 0) /\ Kind(jobs, j, KindOf(0))
        \/ Begun(i, j, 10) /\ Kind(jobs, j, KindOf(10))
        \/ z = c /\ w = u
    BY <1>1, <1>6 DEF KindOf
  <2> HIDE DEF c, s, u, d, z, w
  <2>4. CASE \E o \in {0, 10} : Begun(i, j, o) /\ Kind(jobs, j, KindOf(o))
    <3>1. PICK o \in {0, 10} : Begun(i, j, o) /\ Kind(jobs, j, KindOf(o))
      BY <2>4
    <3>2. Placed(jobs, i, j, z, s, Pipe(z, w), Pipe(s, d)) /\ Amount(Pipe(z, w)) = Amount(Pipe(c, u))
      <4>1. FileTransferAssumption /\ Held(jobs, i, current, c, s, u, d) /\ current <= j
            /\ Begun(i, j, o) /\ Kind(jobs, j, KindOf(o)) /\ o \in {0, 10}
        BY <2>1, <3>1
      <4> HIDE DEF FileTransferAssumption
      <4> QED BY ONLY <2>2, <4>1, BegunMoves
    <3> QED BY <3>2 DEF c, s, u, d, z, w
  <2>5. CASE z = c /\ w = u
    <3>1. j \in DOMAIN jobs
      BY <1>1 DEF Jobs
    <3>2. Placed(jobs, i, j, z, s, Pipe(z, u), Pipe(s, d)) /\ Amount(Pipe(z, u)) = Amount(Pipe(c, u))
      BY <2>1, <2>5, <3>1, ClientWaits
    <3> QED BY <2>5, <3>2 DEF c, s, u, d, z, w
  <2> QED BY <2>3, <2>4, <2>5
<1>8. \A g : Moved(g)' = Moved(g)
  BY <1>2, <1>7, SameMoved
<1>9. Moved(j) = {}
  BY <1>5, MovedWithin DEF Bytewise
<1>10. AllPlaced'
  BY <1>1, <1>2, <1>7 DEF AllPlaced, PlacedAt
<1>11. Fresh'
  <2>1. Moved(j)' = {}
    BY <1>8, <1>9
  <2> QED BY <1>1, <2>1 DEF Fresh
<1>12. InPlace'
  <2>1. \A v : Right(jobs, current, v) => Right(jobs, j, v)
    BY <1>4, <1>5 DEF Right, Jobs
  <2> QED BY <1>1, <1>2, <2>1 DEF Bytewise, InPlace
<1>13. Counted'
  <2>1. Moved(j)' = {} /\ Cardinality({}) = 0
    BY <1>8, <1>9, FS_EmptySet
  <2> QED BY <1>1, <1>2, <2>1 DEF Counted
<1>14. Told'
  <2>1. \A g \in Jobs : g <= current => g <= j
    BY <1>4, <1>5
  <2>2. \A g \in reported : g \in Jobs /\ g <= current /\ 0 .. jobs[g].len - 1 \subseteq Moved(g)
    BY DEF Bytewise, Told
  <2> QED BY <1>1, <1>2, <1>8, <2>1, <2>2 DEF Told, Jobs
<1>15. Queued'
  <2>1. Len(Tail(file_list)) = Len(file_list) - 1
        /\ \A k \in 1 .. Len(file_list) - 1 : Tail(file_list)[k] = file_list[k + 1]
    BY <1>1, <1>4, HeadTailProperties
  <2>2. \A k \in 1 .. Len(file_list) - 1 : Tail(file_list)[k] = j + k
    BY <1>3, <1>4, <1>5, <2>1
  <2>3. typed = j + Len(Tail(file_list)) /\ j \in 0 .. Len(jobs)
    BY <1>1, <1>3, <1>4, <1>5, <2>1
  <2> QED BY <1>1, <1>2, <1>3, <2>1, <2>2, <2>3 DEF Queued
<1>16. Known'
  BY <1>1, <1>2 DEF Known, Jobs
<1> QED BY <1>10, <1>11, <1>12, <1>13, <1>14, <1>15, <1>16 DEF Bytewise

-----------------------------------------------------------------------------
(* The links are as they were, and so are the bytes.                         *)
LEMMA SameBytes ==
  ASSUME Bytewise, UNCHANGED <<jobs, current, client, server, up, down, written>>
  PROVE  AllPlaced' /\ Fresh' /\ InPlace' /\ (\A g : Moved(g)' = Moved(g))
<1>0. PICK j : j = current
  OBVIOUS
<1>1. \A g : \A i \in Links : OnWay(i, g)' = OnWay(i, g)
  BY DEF OnWay
<1>2. \A g : Moved(g)' = Moved(g)
  BY <1>1 DEF Moved
<1>3. AllPlaced' /\ InPlace'
  BY DEF Bytewise, AllPlaced, PlacedAt, InPlace
<1>4. Fresh'
  <2>1. Moved(j)' = Moved(current)
    BY <1>0, <1>2
  <2>2. \A i \in Links : Todo(jobs, i, current, client[i]) \cap Moved(j)' = {}
    BY <2>1 DEF Bytewise, Fresh
  <2> QED BY <1>0, <2>2 DEF Fresh
<1> QED BY <1>2, <1>3, <1>4

(* What is counted and reported stays so.                                    *)
LEMMA StillCounted ==
  ASSUME Bytewise, UNCHANGED <<jobs, current, client, server, up, down, written, transmit_size>>
  PROVE  AllPlaced' /\ Fresh' /\ InPlace' /\ Counted' /\ (reported' = reported => Told')
<1>0. PICK j : j = current
  OBVIOUS
<1>1. AllPlaced' /\ Fresh' /\ InPlace' /\ (\A g : Moved(g)' = Moved(g))
  BY SameBytes
<1>2. Moved(j)' = Moved(current)
  BY <1>0, <1>1
<1>3. Counted'
  BY <1>0, <1>2 DEF Bytewise, Counted
<1>4. reported' = reported => Told'
  BY <1>1 DEF Bytewise, Told, Jobs
<1> QED BY <1>1, <1>3, <1>4

(* The whole of a file has moved when as many bytes have as it is long.      *)
LEMMA AllMoved ==
  ASSUME FileTransferAssumption, Inv, Bytewise, timer, file_size >= 0, transmit_size >= file_size
  PROVE  current \in Jobs /\ 0 .. jobs[current].len - 1 \subseteq Moved(current)
<1> DEFINE n == jobs[current].len
           M == Moved(current)
           S == 0 .. n - 1
<1>1. current \in Jobs /\ file_size \in {-1, n}
  BY DEF Bytewise, Known
<1>2. n \in Nat /\ current # None
  BY <1>1, JobsTyped DEF Inv, None
<1>3. n <= transmit_size /\ transmit_size \in Nat
  BY <1>1, <1>2 DEF Bytewise, Counted
<1>4. transmit_size <= Cardinality(M)
  BY <1>2 DEF Bytewise, Counted
<1>5. M \in SUBSET S
  BY MovedWithin DEF Bytewise
<1> HIDE DEF M, n
<1>6. IsFiniteSet(S) /\ Cardinality(S) = n
  <2>1. IsFiniteSet(0 .. 0 + n - 1) /\ Cardinality(0 .. 0 + n - 1) = n
    BY <1>2, Interval
  <2>2. 0 + n - 1 = n - 1
    BY <1>2
  <2> QED BY <2>1, <2>2
<1> HIDE DEF S
<1>7. Cardinality(M) <= Cardinality(S) /\ (Cardinality(S) = Cardinality(M) => S = M) /\ Cardinality(M) \in Nat
  BY <1>5, <1>6, FS_Subset, FS_CardinalityType
<1> DEFINE a == Cardinality(M)
           b == Cardinality(S)
<1>8. a <= b /\ b = n /\ a \in Nat /\ n \in Nat /\ transmit_size \in Nat /\ n <= transmit_size /\ transmit_size <= a
  BY <1>2, <1>3, <1>4, <1>6, <1>7
<1> HIDE DEF a, b
<1>9. b = a
  BY ONLY <1>8
<1> QED BY <1>1, <1>7, <1>9 DEF a, b, M, S, n

(* The user types, the progress is followed.                                 *)
LEMMA UserMoves ==
  ASSUME FileTransferAssumption, Inv, Bytewise, Type \/ GiveUp \/ ReportEnd \/ CleanedUp \/ TransmitNext
  PROVE  Bytewise'
<1>1. CASE Type
  <2>1. UNCHANGED <<jobs, current, client, server, up, down, written, transmit_size, reported, timer, file_size>>
    BY <1>1 DEF Type, choice, progress, sizes
  <2>2. Queued'
    <3>1. file_list \in Seq(Jobs) /\ jobs \in Seq([type : {"get", "put"}, len : Nat])
      BY DEF Inv, Chosen, FileTransferAssumption
    <3>2. Len(file_list) \in Nat /\ Len(jobs) \in Nat /\ Jobs = 1 .. Len(jobs)
      BY <3>1, LenProperties DEF Jobs
    <3>3. /\ typed = current + Len(file_list) /\ typed \in 0 .. Len(jobs) /\ current \in 0 .. Len(jobs)
          /\ \A k \in 1 .. Len(file_list) : file_list[k] = current + k
      BY DEF Bytewise, Queued
    <3>4. typed < Len(jobs) /\ typed' = typed + 1 /\ file_list' = Append(file_list, typed + 1)
      BY <1>1 DEF Type
    <3>5. typed + 1 \in Jobs
      BY <3>2, <3>3, <3>4
    <3>6. /\ Len(file_list') = Len(file_list) + 1
          /\ \A k \in 1 .. Len(file_list) + 1 :
                 file_list'[k] = IF k <= Len(file_list) THEN file_list[k] ELSE typed + 1
      BY <3>1, <3>2, <3>4, <3>5, AppendProperties
    <3>7. \A k \in 1 .. Len(file_list) + 1 : file_list'[k] = current + k
      <4> SUFFICES ASSUME NEW k \in 1 .. Len(file_list) + 1 PROVE file_list'[k] = current + k
        OBVIOUS
      <4>1. CASE k <= Len(file_list)
        <5>1. k \in 1 .. Len(file_list)
          BY <3>2, <4>1
        <5> QED BY <3>3, <3>6, <4>1, <5>1
      <4>2. CASE ~(k <= Len(file_list))
        <5>1. k = Len(file_list) + 1
          BY <3>2, <4>2
        <5>2. file_list'[k] = typed + 1
          BY <3>6, <4>2
        <5> QED BY <3>2, <3>3, <5>1, <5>2
      <4> QED BY <4>1, <4>2
    <3>8. typed' = current + Len(file_list') /\ typed' \in 0 .. Len(jobs)
      BY <3>2, <3>3, <3>4, <3>6
    <3> QED BY <2>1, <3>3, <3>6, <3>7, <3>8 DEF Queued
  <2>3. Known'
    BY <2>1 DEF Bytewise, Known, Jobs
  <2> QED BY <2>1, <2>2, <2>3, StillCounted DEF Bytewise
<1>2. CASE ReportEnd
  <2>1. /\ UNCHANGED <<jobs, current, client, server, up, down, written, transmit_size, app>>
        /\ timer /\ file_size >= 0 /\ transmit_size >= file_size /\ ~timer' /\ reported' = reported \cup {current}
    BY <1>2 DEF ReportEnd, choice, sizes
  <2>2. Queued' /\ Known'
    BY <2>1 DEF Bytewise, Queued, Known, app
  <2>3. current \in Jobs /\ 0 .. jobs[current].len - 1 \subseteq Moved(current)
    BY <2>1, AllMoved
  <2>4. current <= current
    BY <2>3, JobsTyped DEF Inv
  <2>5. \A g : Moved(g)' = Moved(g)
    BY <2>1, SameBytes
  <2>6. \A g \in reported \cup {current} : g \in Jobs /\ g <= current /\ 0 .. jobs[g].len - 1 \subseteq Moved(g)
    BY <2>3, <2>4 DEF Bytewise, Told
  <2>7. Told'
    BY <2>1, <2>5, <2>6 DEF Told, Jobs
  <2> QED BY <2>1, <2>2, <2>7, StillCounted DEF Bytewise
<1>3. CASE GiveUp \/ CleanedUp \/ TransmitNext
  <2>1. /\ UNCHANGED <<jobs, current, client, server, up, down, written, sizes, typed, file_list, reported>>
        /\ timer' => timer
    BY <1>3 DEF GiveUp, CleanedUp, TransmitNext, choice, app
  <2>2. Queued' /\ Known'
    BY <2>1 DEF Bytewise, Queued, Known, sizes, Jobs
  <2> QED BY <2>1, <2>2, StillCounted DEF Bytewise, sizes
<1> QED BY <1>1, <1>2, <1>3

(* Nothing has moved at the start.                                           *)
LEMMA InitMoves == ASSUME FileTransferAssumption, Init PROVE Bytewise
<1> DEFINE n == NewSocket
<1>1. /\ n.state = "IDLE" /\ n.file = None /\ n.unpacker = Default /\ n.buffer = Default
      /\ n.got = <<>> /\ n.out = <<>>
  BY DEF NewSocket
<1>2. Default.left = 0 /\ Default.pos = 0
  BY DEF Default, Rest
<1> HIDE DEF n
<1>3. Pipe(n, <<>>) = <<>> /\ Taken(n) = {} /\ ~Sends(n.out) /\ Amount(<<>>) = 0 /\ Orders(<<>>) = {}
  BY <1>1, EmptySeq DEF Pipe, Waiting, Taken, Sends, Amount, Orders, Ordered
<1>4. /\ client = [i \in Links |-> n] /\ server = [i \in Links |-> n]
      /\ up = [i \in Links |-> <<>>] /\ down = [i \in Links |-> <<>>]
      /\ written = {} /\ current = 0 /\ reported = {} /\ ~timer /\ transmit_size = 0 /\ typed = 0 /\ file_list = <<>>
  BY DEF Init, n, None
<1>5. Stream(<<>>, n.buffer, n.unpacker)
  BY <1>1, <1>2, <1>3, StreamEmpty
<1>6. AllPlaced
  BY <1>1, <1>2, <1>3, <1>4, <1>5 DEF AllPlaced, PlacedAt, Placed, PlacedBy, GetsPlaced, PutsPlaced
<1>7. \A g : Moved(g) = {}
  BY <1>1, <1>4 DEF Moved, At, OnWay, Way
<1>8. Fresh /\ InPlace /\ Told
  BY <1>4, <1>7 DEF Fresh, InPlace, Told
<1>9. Counted /\ Known
  BY <1>4 DEF Counted, Known, None
<1>10. Queued
  <2>1. jobs \in Seq([type : {"get", "put"}, len : Nat])
    BY DEF Init, FileTransferAssumption
  <2>2. Len(jobs) \in Nat /\ Len(file_list) = 0
    BY <1>4, <2>1, LenProperties, EmptySeq
  <2> QED BY <1>4, <2>2 DEF Queued
<1> QED BY <1>6, <1>8, <1>9, <1>10 DEF Bytewise

(* What was reported and is not on its way is whole.                         *)
LEMMA WholeOnes ==
  ASSUME FileTransferAssumption, Inv, Bytewise
  PROVE  Arrives
<1> SUFFICES ASSUME NEW j \in reported, jobs[j].type = "get" \/ Drained PROVE Whole(j)
  BY DEF Arrives
<1>1. j \in Jobs /\ 0 .. jobs[j].len - 1 \subseteq Moved(j)
  BY DEF Bytewise, Told
<1>2. ASSUME NEW i \in Links PROVE OnWay(i, j) = {}
  <2> DEFINE u == up[i]
             d == down[i]
             c == client[i]
             s == server[i]
  <2>1. Held(jobs, i, current, c, s, u, d)
    BY HeldAt DEF Bytewise
  <2>2. Drained => s.state = "IDLE"
    BY DEF Drained
  <2> HIDE DEF u, d, c, s
  <2>3. CASE jobs[j].type = "get"
    <3>1. Way(s.unpacker, Amount(Pipe(c, u)), j) # {} => Kind(jobs, j, "put")
      BY <2>1, WayWithin
    <3>2. ~Kind(jobs, j, "put")
      BY <2>3 DEF Kind
    <3> QED BY <3>1, <3>2 DEF OnWay, u, c, s
  <2>4. CASE Drained
    <3>1. s.unpacker = Default
      BY <2>1, <2>2, <2>4, HeldTyped DEF PlacedBy, PutsPlaced
    <3> QED BY <3>1 DEF OnWay, Way, s
  <2> QED BY <2>3, <2>4
<1>3. 0 .. jobs[j].len - 1 \subseteq At(written, j)
  BY <1>1, <1>2 DEF Moved
<1>4. \A v \in written : v[1] = j => v[2] \in 0 .. jobs[j].len - 1 /\ v = <<j, v[2], Byte(j, v[2])>>
  BY DEF Bytewise, InPlace, Right
<1>5. \A p \in 0 .. jobs[j].len - 1 : <<j, p, Byte(j, p)>> \in written
  <2> SUFFICES ASSUME NEW p \in 0 .. jobs[j].len - 1 PROVE <<j, p, Byte(j, p)>> \in written
    OBVIOUS
  <2>1. PICK v \in written : v[1] = j /\ v[2] = p
    BY <1>3 DEF At
  <2> QED BY <1>4, <2>1
<1> QED BY <1>4, <1>5 DEF Whole

(* The user is told that a file has been got when it is whole at its         *)
(* destination, byte by byte, and what has been put is whole as soon as the  *)
(* links are drained (file_client.h:458, the shares at 276-281), whatever    *)
(* the number of links, the size of a chunk and the order of what is sent.   *)
THEOREM FilesArrive ==
  ASSUME AppWaits, "get" \notin Faults
  PROVE  Spec => []Arrives
<1>1. Init => Bytewise
  BY InitMoves, FileTransferAssumption
<1>2. Inv /\ Bytewise /\ [Next]_vars => Bytewise'
  <2> SUFFICES ASSUME Inv, Bytewise, [Next]_vars PROVE Bytewise'
    OBVIOUS
  <2> USE FileTransferAssumption
  <2>1. CASE Type \/ GiveUp \/ ReportEnd \/ CleanedUp \/ TransmitNext
    BY <2>1, UserMoves
  <2>2. CASE transmit_file
    BY <2>2, TransmitMoves
  <2>3. ASSUME NEW i \in Links, LinkStep(i) PROVE Bytewise'
    BY <2>3, ClientRecvMoves, ClientHandleMoves, ClientSentMoves, ServerRecvMoves, ServerHandleMoves,
       ServerSentMoves DEF LinkStep
  <2>4. CASE UNCHANGED vars
    <3>1. UNCHANGED <<jobs, current, client, server, up, down, written, transmit_size, file_size, typed, file_list,
                      reported, timer>>
      BY <2>4 DEF vars, choice, app, progress, sizes
    <3>2. Queued' /\ Known'
      BY <3>1 DEF Bytewise, Queued, Known, Jobs
    <3> QED BY <3>1, <3>2, StillCounted DEF Bytewise
  <2> QED BY <2>1, <2>2, <2>3, <2>4 DEF Next
<1>3. Inv /\ Bytewise => Arrives
  BY WholeOnes, FileTransferAssumption
<1>4. Spec => []Inv
  BY LinksAgree
<1> QED BY <1>1, <1>2, <1>3, <1>4, PTL DEF Spec
==============================================================================
