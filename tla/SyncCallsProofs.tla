-------------------------- MODULE SyncCallsProofs --------------------------
(***************************************************************************)
(* What the blocking calls of SyncCalls promise, for every number of       *)
(* threads, messages, calls and faults: each message received goes to one  *)
(* place, once; what a sending call answers is true and is answered once.  *)
(* The two halves meet in started and in user only, and each has an        *)
(* inductive invariant of its own.                                         *)
(***************************************************************************)
EXTENDS SyncCalls, SequenceTheorems, TLAPS

Distinct(s) == \A i, j \in DOMAIN s : i # j => s[i] # s[j]

(* The receiving half: what is still to be given away is younger than what   *)
(* was, so that the pieces stay increasing when they are put together.       *)
Received ==
    /\ RecvOnce
    /\ \A x \in Items(taken) \cup Items(recv_buffer), y \in Items(temp_msg_can) : x < y

(* The sending half.  A ticket is in the buffer, or being written, or it has *)
(* its answer; and the answer it has is the one the writing gave it.         *)
Kept ==
    /\ Distinct(send_buffer)
    /\ Items(send_buffer) \cap Items(sending_msgs) = {}
    /\ \A t \in Items(send_buffer) \cup Items(sending_msgs) : p[t] \in {"none", "waiting"} /\ t \notin written
Settled ==
    /\ \A t \in written : p[t] \in {"none", "SUCCESS"}
    /\ \A t \in Tickets : p[t] = "SUCCESS" => t \in written
Asked ==
    \A u \in Users : user[u].at = "future" =>
        user[u].ticket \in Tickets /\ p[user[u].ticket] \in {"waiting"} \cup Answers
Answered == \A a \in answers : p[a[1]] = a[2]
Sent == Kept /\ Settled /\ Answered /\ ~answered_twice

-----------------------------------------------------------------------------
(* Sequences and what is in them.                                            *)

LEMMA ItemsConcat ==
    ASSUME NEW S, NEW s \in Seq(S), NEW t \in Seq(S)
    PROVE  /\ s \o t \in Seq(S)
           /\ Items(s \o t) = Items(s) \cup Items(t)
<1>1. /\ s \o t \in Seq(S) /\ Len(s \o t) = Len(s) + Len(t)
      /\ \A i \in 1..(Len(s) + Len(t)) : (s \o t)[i] = IF i <= Len(s) THEN s[i] ELSE t[i - Len(s)]
  OBVIOUS
<1>2. Len(s) \in Nat /\ Len(t) \in Nat /\ DOMAIN s = 1..Len(s) /\ DOMAIN t = 1..Len(t)
      /\ DOMAIN (s \o t) = 1..(Len(s) + Len(t))
  BY <1>1
<1>3. ASSUME NEW i \in DOMAIN s PROVE s[i] \in Items(s \o t)
  <2>1. i \in DOMAIN (s \o t) /\ (s \o t)[i] = s[i]
    BY <1>1, <1>2
  <2>2. QED
    BY <2>1 DEF Items
<1>4. ASSUME NEW i \in DOMAIN t PROVE t[i] \in Items(s \o t)
  <2>1. Len(s) + i \in DOMAIN (s \o t) /\ (s \o t)[Len(s) + i] = t[i]
    BY <1>1, <1>2
  <2>2. QED
    BY <2>1 DEF Items
<1>5. ASSUME NEW i \in DOMAIN (s \o t) PROVE (s \o t)[i] \in Items(s) \cup Items(t)
  <2>1. CASE i <= Len(s)
    BY <2>1, <1>1, <1>2 DEF Items
  <2>2. CASE ~(i <= Len(s))
    <3>1. i - Len(s) \in DOMAIN t /\ (s \o t)[i] = t[i - Len(s)]
      BY <2>2, <1>1, <1>2
    <3>2. QED
      BY <3>1 DEF Items
  <2>3. QED
    BY <2>1, <2>2
<1>6. QED
  BY <1>1, <1>3, <1>4, <1>5 DEF Items

LEMMA ItemsAppend ==
    ASSUME NEW S, NEW s \in Seq(S), NEW e \in S
    PROVE  /\ Append(s, e) \in Seq(S)
           /\ Items(Append(s, e)) = Items(s) \cup {e}
<1>1. <<e>> \in Seq(S) /\ Items(<<e>>) = {e}
  BY DEF Items
<1>2. Append(s, e) = s \o <<e>>
  OBVIOUS
<1>3. s \o <<e>> \in Seq(S) /\ Items(s \o <<e>>) = Items(s) \cup Items(<<e>>)
  <2>1. PICK t \in Seq(S) : t = <<e>>
    BY <1>1
  <2>2. s \o t \in Seq(S) /\ Items(s \o t) = Items(s) \cup Items(t)
    BY ONLY s \in Seq(S), t \in Seq(S), ItemsConcat
  <2>3. QED
    BY ONLY <2>1, <2>2
<1>4. QED
  BY ONLY <1>1, <1>2, <1>3

LEMMA ItemsEmpty == Items(<<>>) = {}
BY DEF Items

(* The front of a sequence without duplicates and what is behind it.         *)
LEMMA Parted ==
    ASSUME NEW S, NEW s \in Seq(S), NEW n \in Nat, n <= Len(s), Distinct(s)
    PROVE  LET front == SubSeq(s, 1, n)
               rest == SubSeq(s, n + 1, Len(s))
           IN  /\ front \in Seq(S) /\ rest \in Seq(S)
               /\ Items(front) \subseteq Items(s) /\ Items(rest) \subseteq Items(s)
               /\ Items(front) \cap Items(rest) = {}
               /\ Distinct(rest)
<1> DEFINE front == SubSeq(s, 1, n)
           rest == SubSeq(s, n + 1, Len(s))
<1>1. Len(s) \in Nat /\ DOMAIN s = 1..Len(s)
  OBVIOUS
<1>2. /\ front \in Seq(S) /\ DOMAIN front = 1..n
      /\ \A i \in 1..n : front[i] = s[i]
  BY <1>1
<1>3. /\ rest \in Seq(S) /\ DOMAIN rest = 1..(Len(s) - n)
      /\ \A i \in 1..(Len(s) - n) : rest[i] = s[n + i]
  BY <1>1
<1>4. Items(front) \subseteq Items(s)
  BY <1>1, <1>2 DEF Items
<1>5. Items(rest) \subseteq Items(s)
  <2>1. ASSUME NEW i \in 1..(Len(s) - n) PROVE n + i \in DOMAIN s /\ rest[i] = s[n + i]
    BY <1>1, <1>3
  <2>2. QED
    BY <2>1, <1>3 DEF Items
<1>6. ASSUME NEW i \in 1..n, NEW j \in 1..(Len(s) - n) PROVE front[i] # rest[j]
  <2>1. i \in DOMAIN s /\ n + j \in DOMAIN s /\ i # n + j
    BY <1>1
  <2>2. QED
    BY <2>1, <1>2, <1>3 DEF Distinct
<1>7. ASSUME NEW i \in 1..(Len(s) - n), NEW j \in 1..(Len(s) - n), i # j PROVE rest[i] # rest[j]
  <2>1. n + i \in DOMAIN s /\ n + j \in DOMAIN s /\ n + i # n + j
    BY <1>1, <1>7
  <2>2. QED
    BY <2>1, <1>3 DEF Distinct
<1>8. Items(front) \cap Items(rest) = {}
  <2>1. ASSUME NEW x \in Items(front), x \in Items(rest) PROVE FALSE
    <3>1. PICK i \in 1..n : x = front[i]
      BY <1>2 DEF Items
    <3>2. PICK j \in 1..(Len(s) - n) : x = rest[j]
      BY <1>3, <2>1 DEF Items
    <3>3. QED
      BY <3>1, <3>2, <1>6
  <2>2. QED
    BY <2>1
<1>9. Distinct(rest)
  BY <1>3, <1>7 DEF Distinct
<1>10. QED
  BY <1>2, <1>3, <1>4, <1>5, <1>8, <1>9

LEMMA DistinctAppend ==
    ASSUME NEW S, NEW s \in Seq(S), NEW e \in S, Distinct(s), e \notin Items(s)
    PROVE  Distinct(Append(s, e))
<1>1. /\ DOMAIN s = 1..Len(s) /\ Len(s) \in Nat /\ DOMAIN Append(s, e) = 1..(Len(s) + 1)
      /\ Append(s, e)[Len(s) + 1] = e
      /\ \A i \in DOMAIN s : Append(s, e)[i] = s[i]
  OBVIOUS
<1>2. \A i \in DOMAIN s : s[i] # e
  BY DEF Items
<1>3. \A i \in DOMAIN Append(s, e) : i \in DOMAIN s \/ i = Len(s) + 1
  BY <1>1
<1>4. QED
  BY <1>1, <1>2, <1>3 DEF Distinct

LEMMA IncreasingConcat ==
    ASSUME NEW s \in Seq(Nat), NEW t \in Seq(Nat), Increasing(s), Increasing(t),
           \A x \in Items(s), y \in Items(t) : x < y
    PROVE  Increasing(s \o t)
<1>1. Len(s) \in Nat /\ Len(t) \in Nat /\ DOMAIN s = 1..Len(s) /\ DOMAIN t = 1..Len(t)
      /\ DOMAIN (s \o t) = 1..(Len(s) + Len(t))
  OBVIOUS
<1>2. ASSUME NEW i \in DOMAIN (s \o t)
      PROVE  \/ i \in DOMAIN s /\ (s \o t)[i] = s[i]
             \/ i - Len(s) \in DOMAIN t /\ i > Len(s) /\ (s \o t)[i] = t[i - Len(s)]
  BY <1>1
<1>3. SUFFICES ASSUME NEW i \in DOMAIN (s \o t), NEW j \in DOMAIN (s \o t), i < j
               PROVE  (s \o t)[i] < (s \o t)[j]
  BY DEF Increasing
<1>4. i \in Nat /\ j \in Nat
  BY <1>1
<1>5. CASE i \in DOMAIN s /\ (s \o t)[i] = s[i]
  <2>1. CASE j \in DOMAIN s /\ (s \o t)[j] = s[j]
    BY <1>3, <1>5, <2>1 DEF Increasing
  <2>2. CASE j - Len(s) \in DOMAIN t /\ (s \o t)[j] = t[j - Len(s)]
    BY <1>5, <2>2 DEF Items
  <2>3. QED
    BY <2>1, <2>2, <1>2
<1>6. CASE i - Len(s) \in DOMAIN t /\ i > Len(s) /\ (s \o t)[i] = t[i - Len(s)]
  <2>1. j - Len(s) \in DOMAIN t /\ (s \o t)[j] = t[j - Len(s)] /\ i - Len(s) < j - Len(s)
    BY <1>1, <1>2, <1>3, <1>4, <1>6
  <2>2. QED
    BY <1>6, <2>1 DEF Increasing
<1>7. QED
  BY <1>2, <1>5, <1>6

-----------------------------------------------------------------------------
(* Types.                                                                    *)

(* Every step of Next, one name each, as the proofs below split it.          *)
LEMMA Steps ==
    ASSUME Next
    PROVE  \/ parse_msg \/ handle_msg \/ handle_error \/ WakeStrand \/ close \/ ReadEnds
           \/ do_send_msg \/ WriteEnds \/ send_handler
           \/ \E w \in Actors : Block(w) \/ Elapse(w)
           \/ \E u \in Users : \/ sync_recv_msg(u) \/ WakeUser(u)
                               \/ Call(u) \/ Refused(u) \/ do_direct_send_msg(u)
                               \/ GetFuture(u) \/ FutureTimeout(u) \/ PopPending(u)
BY DEF Next, StrandTasks

(* Answers are the answers of tickets that have one, so the types need to    *)
(* know that a thread at its future holds a ticket with a promise.           *)
LEMMA TypeInit == Init => TypeOK /\ Asked
<1> SUFFICES ASSUME Init PROVE TypeOK /\ Asked
  OBVIOUS
<1>1. Idle \in Calls /\ Idle.at = "idle"
  BY SyncAssumption DEF Idle, Calls
<1>2. user \in [Users -> Calls] /\ Asked
  BY <1>1 DEF Init, Asked
<1>3. p \in [Tickets -> {"unused", "none", "waiting"} \cup Answers]
  BY DEF Init
<1>4. <<>> \in Seq(Nat) /\ <<>> \in Seq(Tickets)
  OBVIOUS
<1>5. QED
  BY <1>2, <1>3, <1>4 DEF Init, TypeOK, Transfers, Actors

LEMMA TypeStep == TypeOK /\ Asked /\ [Next]_vars => TypeOK'
<1> SUFFICES ASSUME TypeOK, Asked, [Next]_vars PROVE TypeOK'
  OBVIOUS
<1> USE SyncAssumption
<1>1. CASE parse_msg
  <2>1. arrived + 1 \in Nat /\ Append(temp_msg_can, arrived + 1) \in Seq(Nat)
    BY DEF TypeOK
  <2>2. QED
    BY <1>1, <2>1 DEF parse_msg, TypeOK, StrandOnly, sendVars, Transfers
<1>2. ASSUME Dispatch PROVE recv_buffer' \in Seq(Nat) /\ temp_msg_can' \in Seq(Nat)
  BY <1>2 DEF Dispatch, TypeOK
<1>3. ASSUME notify_one PROVE cv' \subseteq Actors /\ woken' \subseteq Actors
  BY <1>3 DEF notify_one, TypeOK
<1>4. CASE handle_msg
  BY <1>2, <1>3, <1>4 DEF handle_msg, TypeOK, StrandOnly, sendVars, Transfers, NextRead, Actors
<1>5. CASE handle_error
  BY <1>3, <1>5 DEF handle_error, TypeOK, StrandOnly, sendVars, Transfers, Actors
<1>6. CASE WakeStrand
  BY <1>2, <1>6 DEF WakeStrand, AfterWait, WaitsFor, TypeOK, StrandOnly, sendVars, Transfers, NextRead, Actors
<1>7. CASE close
  <2>1. faults' \in Nat
    BY <1>7 DEF close, Fault, TypeOK
  <2>2. cv' \subseteq Actors /\ woken' \subseteq Actors
    BY <1>7 DEF close, notify_all, TypeOK
  <2>3. read' \in Transfers /\ write' \in Transfers /\ started' \in BOOLEAN /\ strand' = "idle"
    BY <1>7 DEF close, TypeOK, Transfers
  <2>4. UNCHANGED <<sync_recv_mutex, sr_status, temp_msg_can, recv_buffer, taken, user, sendVars, answers, arrived, calls>>
    BY <1>7 DEF close
  <2>5. QED
    BY <2>1, <2>2, <2>3, <2>4 DEF TypeOK, sendVars
<1>8. CASE ReadEnds
  BY <1>8 DEF ReadEnds, Fault, TypeOK, recvVars, sendVars, Transfers
<1>9. CASE do_send_msg
  BY <1>9 DEF do_send_msg, TypeOK, recvVars, bounds, Transfers
<1>10. CASE WriteEnds
  BY <1>10 DEF WriteEnds, Fault, TypeOK, recvVars, sendVars, Transfers
<1>11. ASSUME NEW ts \in SUBSET Tickets, NEW answer \in Answers, set_value(ts, answer)
       PROVE  p' \in [Tickets -> {"unused", "none", "waiting"} \cup Answers] /\ answered_twice' \in BOOLEAN
  BY <1>11 DEF set_value, TypeOK
<1>12. CASE send_handler
  <2>1. Items(sending_msgs) \in SUBSET Tickets /\ AnswerTo(write) \in Answers
    BY DEF Items, AnswerTo, Answers, TypeOK
  <2>2. send_buffer \o sending_msgs \in Seq(Tickets)
    BY DEF TypeOK
  <2>3. p' \in [Tickets -> {"unused", "none", "waiting"} \cup Answers] /\ answered_twice' \in BOOLEAN
    BY <1>11, <1>12, <2>1 DEF send_handler
  <2>4. written' \subseteq Tickets /\ send_buffer' \in Seq(Tickets)
    <3>1. CASE write = "ok"
      BY <3>1, <1>12, <2>1 DEF send_handler, TypeOK
    <3>2. CASE write # "ok"
      BY <3>2, <1>12, <2>2 DEF send_handler, TypeOK
    <3>3. QED
      BY <3>1, <3>2
  <2>5. write' \in Transfers /\ sending_msgs' \in Seq(Tickets) /\ UNCHANGED <<started, recvVars, read, user, answers, bounds>>
    BY <1>12 DEF send_handler, Transfers
  <2>6. QED
    BY <2>3, <2>4, <2>5 DEF TypeOK, recvVars, bounds
<1>13. ASSUME NEW w \in Actors, Block(w) PROVE TypeOK'
  BY <1>13 DEF Block, TypeOK, sendVars, bounds
<1>14. ASSUME NEW w \in Actors, Elapse(w) PROVE TypeOK'
  <2>1. user' \in [Users -> Calls]
    <3>1. user' = [u \in Users |-> IF u = w /\ user[u].timed
                                   THEN [user[u] EXCEPT !.at = "elapsed"] ELSE user[u]]
      BY <1>14 DEF Elapse
    <3>2. ASSUME NEW u \in Users PROVE user[u] \in Calls /\ [user[u] EXCEPT !.at = "elapsed"] \in Calls
      <4>1. user[u] \in Calls
        BY DEF TypeOK
      <4>2. QED
        BY <4>1 DEF Calls
    <3>3. QED
      BY <3>1, <3>2
  <2>2. QED
    BY <1>14, <2>1 DEF Elapse, TypeOK, sendVars, bounds
<1>15. Idle \in Calls
  BY DEF Idle, Calls
<1>16. ASSUME NEW u \in Users, Return(u) PROVE user' \in [Users -> Calls]
  BY <1>15, <1>16 DEF Return, TypeOK
<1>28. ASSUME NEW u \in Users PROVE [user EXCEPT ![u].at = "try"] \in [Users -> Calls]
  <2>1. user[u] \in Calls
    BY DEF TypeOK
  <2>2. [user[u] EXCEPT !.at = "try"] \in Calls
    BY <2>1 DEF Calls
  <2>3. QED
    BY <2>2 DEF TypeOK
<1>17. ASSUME NEW u \in Users, SAFE_SEND_MSG_CHECK(u) PROVE user' \in [Users -> Calls]
  <2>1. CASE user[u].safe /\ started
    BY <2>1, <1>17, <1>28 DEF SAFE_SEND_MSG_CHECK
  <2>2. CASE ~(user[u].safe /\ started)
    BY <2>2, <1>16, <1>17 DEF SAFE_SEND_MSG_CHECK
  <2>3. QED
    BY <2>1, <2>2
<1>18. ASSUME NEW u \in Users, sync_recv_msg(u) PROVE TypeOK'
  <2>1. ASSUME NEW timed \in BOOLEAN PROVE [Idle EXCEPT !.at = "recv", !.timed = timed] \in Calls
    BY <1>15 DEF Calls
  <2>2. UNCHANGED user \/ \E timed \in BOOLEAN : user' = [user EXCEPT ![u] = [Idle EXCEPT !.at = "recv", !.timed = timed]]
    BY <1>18 DEF sync_recv_msg
  <2>3. user' \in [Users -> Calls]
    BY <2>1, <2>2 DEF TypeOK
  <2>4. cv' \subseteq Actors /\ woken' \subseteq Actors
    BY <1>3, <1>18 DEF sync_recv_msg, TypeOK
  <2>5. sr_status' \in {"NOT_REQUESTED", "REQUESTED", "RESPONDED", "RESPONDED_FAILURE"}
        /\ sync_recv_mutex' \in Actors \cup {"none"}
    BY <1>18 DEF sync_recv_msg, TypeOK, Actors
  <2>8. calls' = calls + 1 /\ calls \in Nat
    BY <1>18 DEF sync_recv_msg, TypeOK
  <2>9. calls' \in Nat
    BY <2>8
  <2>6. UNCHANGED <<started, temp_msg_can, recv_buffer, taken, strand, read, sendVars, write, answers, arrived, faults>>
    BY <1>18 DEF sync_recv_msg
  <2>7. QED
    BY <2>3, <2>4, <2>5, <2>6, <2>9 DEF TypeOK, sendVars
<1>19. ASSUME NEW u \in Users, WakeUser(u) PROVE TypeOK'
  <2> DEFINE over == ~started \/ sr_status # "REQUESTED" \/ user[u].at = "elapsed"
  <2>1. user' \in [Users -> Calls] /\ taken' \in Seq(Nat) /\ temp_msg_can' \in Seq(Nat)
    <3>1. CASE over
      <4>1. EndOfCall(u)
        BY <1>19, <3>1 DEF WakeUser, EndAndNotify
      <4>2. user' \in [Users -> Calls]
        BY <1>16, <4>1 DEF EndOfCall
      <4>3. taken \o temp_msg_can \in Seq(Nat) /\ <<>> \in Seq(Nat)
        BY DEF TypeOK
      <4>4. QED
        BY <4>1, <4>2, <4>3 DEF EndOfCall, TypeOK
    <3>2. CASE ~over
      BY <1>19, <3>2 DEF WakeUser, TypeOK
    <3>3. QED
      BY <3>1, <3>2
  <2>2. cv' \subseteq Actors /\ woken' \subseteq Actors /\ sync_recv_mutex' \in Actors \cup {"none"}
        /\ sr_status' \in {"NOT_REQUESTED", "REQUESTED", "RESPONDED", "RESPONDED_FAILURE"}
    BY <1>19 DEF WakeUser, EndAndNotify, EndOfCall, TypeOK, Actors
  <2>3. QED
    BY <1>19, <2>1, <2>2 DEF WakeUser, TypeOK, sendVars, bounds
<1>20. ASSUME NEW u \in Users, Call(u) PROVE TypeOK'
  <2>1. user' \in [Users -> Calls]
    BY <1>20 DEF Call, TypeOK, Calls
  <2>2. QED
    BY <1>20, <2>1 DEF Call, TypeOK, recvVars, sendVars
<1>21. ASSUME NEW u \in Users, Refused(u) PROVE TypeOK'
  <2>1. user' \in [Users -> Calls] /\ faults' \in Nat
    BY <1>17, <1>21 DEF Refused, Fault, TypeOK
  <2>2. QED
    BY <1>21, <2>1 DEF Refused, TypeOK, recvVars, sendVars
<1>22. ASSUME NEW u \in Users, do_direct_send_msg(u) PROVE TypeOK'
  <2>1. PICK t \in Fresh :
          /\ send_buffer' = Append(send_buffer, t)
          /\ p' = [p EXCEPT ![t] = IF user[u].sync THEN "waiting" ELSE "none"]
          /\ IF user[u].sync THEN user' = [user EXCEPT ![u].at = "future", ![u].ticket = t] ELSE Return(u)
    BY <1>22 DEF do_direct_send_msg
  <2>2. t \in Tickets /\ t \in 0..MaxTickets
    BY DEF Fresh, Tickets
  <2>3. user' \in [Users -> Calls]
    <3>1. CASE user[u].sync
      <4>1. user[u] \in Calls
        BY DEF TypeOK
      <4>2. [user[u] EXCEPT !.at = "future", !.ticket = t] \in Calls
        BY <4>1, <2>2 DEF Calls
      <4>3. user' = [user EXCEPT ![u] = [user[u] EXCEPT !.at = "future", !.ticket = t]]
        BY <2>1, <3>1 DEF TypeOK
      <4>4. QED
        BY <4>2, <4>3 DEF TypeOK
    <3>2. CASE ~user[u].sync
      BY <3>2, <2>1, <1>16
    <3>3. QED
      BY <3>1, <3>2
  <2>4. send_buffer' \in Seq(Tickets) /\ p' \in [Tickets -> {"unused", "none", "waiting"} \cup Answers]
    BY <2>1, <2>2 DEF TypeOK
  <2>5. QED
    BY <1>22, <2>3, <2>4 DEF do_direct_send_msg, TypeOK, recvVars, bounds
<1>27. ASSUME NEW u \in Users, GetFuture(u) PROVE TypeOK'
  <2>1. user[u].ticket \in Tickets /\ p[user[u].ticket] \in Answers
    BY <1>27 DEF GetFuture, Asked
  <2>2. answers' \subseteq Tickets \X Answers
    BY <1>27, <2>1 DEF GetFuture, TypeOK
  <2>3. user' \in [Users -> Calls]
    <3>1. Return(u) \/ SAFE_SEND_MSG_CHECK(u)
      BY <1>27 DEF GetFuture
    <3>2. QED
      BY <3>1, <1>16, <1>17
  <2>4. QED
    BY <1>27, <2>2, <2>3 DEF GetFuture, TypeOK, recvVars, sendVars, bounds
<1>23. ASSUME NEW u \in Users, FutureTimeout(u) PROVE TypeOK'
  BY <1>17, <1>23 DEF FutureTimeout, TypeOK, recvVars, sendVars, bounds
<1>24. ASSUME NEW u \in Users, PopPending(u) PROVE TypeOK'
  <2>1. PICK n \in {1, Len(send_buffer)} :
          /\ send_buffer' = SubSeq(send_buffer, n + 1, Len(send_buffer))
          /\ set_value(Items(SubSeq(send_buffer, 1, n)), "NOT_APPLICABLE")
    BY <1>24 DEF PopPending
  <2>2. n \in Nat /\ n <= Len(send_buffer) /\ send_buffer \in Seq(Tickets)
    BY <1>24 DEF PopPending, TypeOK
  <2>3. SubSeq(send_buffer, n + 1, Len(send_buffer)) \in Seq(Tickets) /\ SubSeq(send_buffer, 1, n) \in Seq(Tickets)
    BY <2>2
  <2>4. Items(SubSeq(send_buffer, 1, n)) \in SUBSET Tickets
    BY <2>3 DEF Items
  <2>5. p' \in [Tickets -> {"unused", "none", "waiting"} \cup Answers] /\ answered_twice' \in BOOLEAN
    BY <1>11, <2>1, <2>4 DEF Answers
  <2>6. send_buffer' \in Seq(Tickets)
    BY <2>1, <2>3
  <2>7. /\ UNCHANGED <<started, recvVars, read, user, sending_msgs, written, write, answers, arrived, faults>>
        /\ calls < MaxCalls /\ calls' = calls + 1
    BY <1>24 DEF PopPending
  <2>8. QED
    BY <2>5, <2>6, <2>7 DEF TypeOK, recvVars
<1>25. CASE UNCHANGED vars
  BY <1>25 DEF vars, TypeOK, recvVars, sendVars, bounds
<1>26. QED
  BY <1>1, <1>4, <1>5, <1>6, <1>7, <1>8, <1>9, <1>10, <1>12, <1>13, <1>14, <1>18, <1>19, <1>20, <1>21,
     <1>22, <1>23, <1>24, <1>25, <1>27, Steps

(* What a step does to the promises, as far as those who wait for one care:  *)
(* who has a promise keeps it.                                               *)
LEMMA AskedStays ==
    ASSUME TypeOK, Asked,
           \A t \in Tickets : p[t] \in {"waiting"} \cup Answers => p'[t] \in {"waiting"} \cup Answers,
           \A v \in Users : user'[v].at = "future" => user'[v] = user[v]
    PROVE  Asked'
BY DEF Asked

LEMMA AskedStep == TypeOK /\ Asked /\ [Next]_vars => Asked'
<1> SUFFICES ASSUME TypeOK, Asked, [Next]_vars PROVE Asked'
  OBVIOUS
<1> USE SyncAssumption
<1>1. ASSUME UNCHANGED <<user, p>> PROVE Asked'
  BY <1>1 DEF Asked
<1>2. CASE parse_msg \/ handle_msg \/ handle_error \/ WakeStrand
  BY <1>1, <1>2 DEF parse_msg, handle_msg, handle_error, WakeStrand, StrandOnly, sendVars
<1>3. CASE close \/ ReadEnds \/ do_send_msg \/ WriteEnds
  BY <1>1, <1>3 DEF close, ReadEnds, do_send_msg, WriteEnds, sendVars
<1>4. ASSUME NEW ts, NEW answer \in Answers, set_value(ts, answer)
      PROVE  \A t \in Tickets : p[t] \in {"waiting"} \cup Answers => p'[t] \in {"waiting"} \cup Answers
  BY <1>4 DEF set_value
<1>5. CASE send_handler
  <2>1. AnswerTo(write) \in Answers /\ set_value(Items(sending_msgs), AnswerTo(write)) /\ UNCHANGED user
    BY <1>5 DEF send_handler, AnswerTo, Answers
  <2>2. QED
    BY <2>1, <1>4, AskedStays
<1>6. ASSUME NEW u \in Users, PopPending(u) PROVE Asked'
  <2>1. PICK ts : set_value(ts, "NOT_APPLICABLE")
    BY <1>6 DEF PopPending
  <2>2. "NOT_APPLICABLE" \in Answers /\ UNCHANGED user
    BY <1>6 DEF PopPending, Answers
  <2>3. QED
    BY <2>1, <2>2, <1>4, AskedStays
<1>7. ASSUME NEW u \in Users, Return(u) PROVE \A v \in Users : user'[v].at = "future" => user'[v] = user[v]
  BY <1>7 DEF Return, Idle, TypeOK
<1>8. ASSUME NEW u \in Users, SAFE_SEND_MSG_CHECK(u)
      PROVE  \A v \in Users : user'[v].at = "future" => user'[v] = user[v]
  <2>1. CASE user[u].safe /\ started
    <3>1. user' = [user EXCEPT ![u].at = "try"]
      BY <2>1, <1>8 DEF SAFE_SEND_MSG_CHECK
    <3>2. user'[u].at = "try" /\ \A v \in Users : v # u => user'[v] = user[v]
      BY <3>1 DEF TypeOK, Calls
    <3>3. QED
      BY <3>2
  <2>2. CASE ~(user[u].safe /\ started)
    BY <2>2, <1>7, <1>8 DEF SAFE_SEND_MSG_CHECK
  <2>3. QED
    BY <2>1, <2>2
<1>9. ASSUME UNCHANGED p, \A v \in Users : user'[v].at = "future" => user'[v] = user[v] PROVE Asked'
  BY <1>9, AskedStays
<1>10. ASSUME NEW w \in Actors, Block(w) \/ Elapse(w) PROVE Asked'
  <2>1. CASE Block(w)
    BY <1>1, <2>1 DEF Block, sendVars
  <2>2. CASE Elapse(w)
    <3>1. ASSUME NEW v \in Users PROVE user'[v].at = "elapsed" \/ user'[v] = user[v]
      BY <2>2 DEF Elapse, TypeOK, Calls
    <3>2. \A v \in Users : user'[v].at = "future" => user'[v] = user[v]
      BY <3>1
    <3>3. QED
      BY <2>2, <3>2, <1>9 DEF Elapse, sendVars
  <2>3. QED
    BY <1>10, <2>1, <2>2
<1>11. ASSUME NEW u \in Users, sync_recv_msg(u) PROVE Asked'
  <2>1. UNCHANGED user \/ \E timed \in BOOLEAN : user' = [user EXCEPT ![u] = [Idle EXCEPT !.at = "recv", !.timed = timed]]
    BY <1>11 DEF sync_recv_msg
  <2>2. \A v \in Users : user'[v].at = "future" => user'[v] = user[v]
    <3>1. user \in [Users -> Calls]
      BY DEF TypeOK
    <3>2. \A timed \in BOOLEAN : [Idle EXCEPT !.at = "recv", !.timed = timed].at # "future"
      BY DEF Idle
    <3>3. QED
      BY <2>1, <3>1, <3>2
  <2>3. QED
    BY <1>11, <2>2, <1>9 DEF sync_recv_msg, sendVars
<1>12. ASSUME NEW u \in Users, WakeUser(u) PROVE Asked'
  <2>1. UNCHANGED user \/ Return(u)
    BY <1>12 DEF WakeUser, EndAndNotify, EndOfCall
  <2>2. QED
    BY <1>12, <2>1, <1>7, <1>9 DEF WakeUser, sendVars
<1>13. ASSUME NEW u \in Users, Call(u) PROVE Asked'
  <2>1. user'[u].at = "try" /\ \A v \in Users : v # u => user'[v] = user[v]
    BY <1>13 DEF Call, TypeOK
  <2>2. QED
    BY <1>13, <2>1, <1>9 DEF Call, sendVars
<1>14. ASSUME NEW u \in Users, Refused(u) \/ GetFuture(u) \/ FutureTimeout(u) PROVE Asked'
  <2>1. (Return(u) \/ SAFE_SEND_MSG_CHECK(u)) /\ UNCHANGED p
    BY <1>14 DEF Refused, GetFuture, FutureTimeout, sendVars
  <2>2. QED
    BY <2>1, <1>7, <1>8, <1>9
<1>15. ASSUME NEW u \in Users, do_direct_send_msg(u) PROVE Asked'
  <2>1. PICK t \in Fresh :
          /\ p' = [p EXCEPT ![t] = IF user[u].sync THEN "waiting" ELSE "none"]
          /\ IF user[u].sync THEN user' = [user EXCEPT ![u].at = "future", ![u].ticket = t] ELSE Return(u)
    BY <1>15 DEF do_direct_send_msg
  <2>2. t \in Tickets /\ p[t] = "unused"
    BY DEF Fresh
  <2>3. \A s \in Tickets : p[s] \in {"waiting"} \cup Answers => p'[s] \in {"waiting"} \cup Answers
    BY <2>1, <2>2 DEF TypeOK, Answers
  <2>4. CASE ~user[u].sync
    BY <2>1, <2>3, <2>4, <1>7, AskedStays
  <2>5. CASE user[u].sync
    <3>1. p'[t] = "waiting"
      BY <2>1, <2>2, <2>5 DEF TypeOK
    <3>3. user' = [user EXCEPT ![u].at = "future", ![u].ticket = t]
      BY <2>1, <2>5
    <3>4. user \in [Users -> Calls]
      BY DEF TypeOK
    <3>5. /\ user'[u] = [user[u] EXCEPT !.at = "future", !.ticket = t]
          /\ \A v \in Users : v # u => user'[v] = user[v]
      BY ONLY <3>3, <3>4, u \in Users
    <3>6. user'[u].ticket = t
      BY ONLY <3>4, <3>5, u \in Users DEF Calls
    <3>2. QED
      BY <3>1, <3>5, <3>6, <2>2, <2>3 DEF Asked
  <2>6. QED
    BY <2>4, <2>5
<1>16. CASE UNCHANGED vars
  BY <1>1, <1>16 DEF vars, sendVars
<1>17. QED
  BY <1>2, <1>3, <1>5, <1>6, <1>10, <1>11, <1>12, <1>13, <1>14, <1>15, <1>16, Steps

(* Every variable keeps its type, in every state the calls can reach.        *)
THEOREM TypeCorrect == Spec => [](TypeOK /\ Asked)
<1>1. TypeOK /\ Asked /\ [Next]_vars => (TypeOK /\ Asked)'
  BY TypeStep, AskedStep
<1>2. QED
  BY TypeInit, <1>1, PTL DEF Spec

-----------------------------------------------------------------------------
(* The receiving half.                                                       *)

LEMMA ReceivedInit == Init => Received
BY ItemsEmpty DEF Init, Received, RecvOnce, Increasing

(* What was parsed goes behind what was dispatched, or behind what earlier   *)
(* calls took: it is younger than both.                                      *)
LEMMA Handed ==
    ASSUME NEW s \in Seq(Nat), NEW t \in Seq(Nat), Increasing(s), Increasing(t),
           \A x \in Items(s), y \in Items(t) : x < y
    PROVE  /\ Increasing(s \o t) /\ Items(s \o t) = Items(s) \cup Items(t)
           /\ Items(s) \cap Items(t) = {}
<1>1. Items(s) \subseteq Nat
  BY DEF Items
<1>2. Items(s) \cap Items(t) = {}
  BY <1>1
<1>3. QED
  BY <1>2, IncreasingConcat, ItemsConcat

LEMMA ReceivedStep == TypeOK /\ Received /\ [Next]_vars => Received'
<1> SUFFICES ASSUME TypeOK, Received, [Next]_vars PROVE Received'
  OBVIOUS
<1>1. ASSUME UNCHANGED <<taken, recv_buffer, temp_msg_can, arrived>> PROVE Received'
  BY <1>1 DEF Received, RecvOnce, Increasing, Items
<1>2. taken \in Seq(Nat) /\ recv_buffer \in Seq(Nat) /\ temp_msg_can \in Seq(Nat) /\ arrived \in Nat
  BY DEF TypeOK
<1>3. CASE parse_msg
  <2>1. temp_msg_can' = Append(temp_msg_can, arrived + 1) /\ arrived' = arrived + 1
        /\ UNCHANGED <<taken, recv_buffer>>
    BY <1>3 DEF parse_msg
  <2>2. arrived + 1 \in Nat /\ <<arrived + 1>> \in Seq(Nat)
    BY <1>2
  <2>3. Items(temp_msg_can') = Items(temp_msg_can) \cup {arrived + 1}
    <3>1. PICK S : S = Nat
      OBVIOUS
    <3>2. temp_msg_can \in Seq(S) /\ arrived + 1 \in S
      BY <1>2, <2>2, <3>1
    <3>3. Items(Append(temp_msg_can, arrived + 1)) = Items(temp_msg_can) \cup {arrived + 1}
      BY ONLY <3>2, ItemsAppend
    <3>4. QED
      BY <2>1, <3>3
  <2>4. \A x \in Items(taken) \cup Items(recv_buffer) \cup Items(temp_msg_can) : x \in Nat /\ x < arrived + 1
    BY <1>2 DEF Received, RecvOnce
  <2>5. Increasing(temp_msg_can')
    <3>1. Items(<<arrived + 1>>) = {arrived + 1} /\ Increasing(<<arrived + 1>>)
      BY <2>2 DEF Items, Increasing
    <3>2. Increasing(temp_msg_can) /\ \A x \in Items(temp_msg_can), y \in Items(<<arrived + 1>>) : x < y
      BY <2>4, <3>1 DEF Received, RecvOnce
    <3>3. Increasing(temp_msg_can \o <<arrived + 1>>)
      BY <1>2, <2>2, <3>1, <3>2, IncreasingConcat
    <3>4. Append(temp_msg_can, arrived + 1) = temp_msg_can \o <<arrived + 1>>
      BY <1>2, <2>2
    <3>5. QED
      BY ONLY <2>1, <3>3, <3>4
  <2>6. 1..(arrived + 1) = (1..arrived) \cup {arrived + 1}
    BY <1>2
  <2>7. arrived + 1 \notin Items(taken) \cup Items(recv_buffer)
    BY <1>2, <2>4
  <2>8. Items(taken') = Items(taken) /\ Items(recv_buffer') = Items(recv_buffer)
        /\ Increasing(taken') /\ Increasing(recv_buffer')
    BY <2>1 DEF Received, RecvOnce, Increasing, Items
  <2>9. QED
    BY <2>1, <2>3, <2>4, <2>5, <2>6, <2>7, <2>8 DEF Received, RecvOnce
<1>4. ASSUME Dispatch, UNCHANGED <<taken, arrived>> PROVE Received'
  <2>1. recv_buffer' = recv_buffer \o temp_msg_can /\ temp_msg_can' = <<>>
    BY <1>4 DEF Dispatch
  <2>2. Increasing(recv_buffer') /\ Items(recv_buffer') = Items(recv_buffer) \cup Items(temp_msg_can)
    BY <1>2, <2>1, Handed DEF Received, RecvOnce
  <2>3. Items(temp_msg_can') = {} /\ Increasing(temp_msg_can')
    BY <2>1, ItemsEmpty DEF Increasing
  <2>4. Items(taken') = Items(taken) /\ Increasing(taken')
    BY <1>4 DEF Received, RecvOnce, Increasing, Items
  <2>5. QED
    BY <1>4, <2>2, <2>3, <2>4 DEF Received, RecvOnce
<1>5. CASE handle_msg
  BY <1>1, <1>4, <1>5 DEF handle_msg
<1>6. CASE WakeStrand
  BY <1>1, <1>4, <1>6 DEF WakeStrand, AfterWait
<1>7. CASE handle_error
  BY <1>1, <1>7 DEF handle_error
<1>8. CASE close \/ ReadEnds \/ do_send_msg \/ WriteEnds \/ send_handler
  BY <1>1, <1>8 DEF close, ReadEnds, do_send_msg, WriteEnds, send_handler, recvVars, bounds
<1>9. ASSUME NEW w \in Actors, Block(w) \/ Elapse(w) PROVE Received'
  BY <1>1, <1>9 DEF Block, Elapse, bounds
<1>10. ASSUME NEW u \in Users, WakeUser(u) PROVE Received'
  <2>1. UNCHANGED <<recv_buffer, arrived>>
    BY <1>10 DEF WakeUser, bounds
  <2>2. CASE taken' = taken \o temp_msg_can /\ temp_msg_can' = <<>>
    <3>1. Increasing(taken') /\ Items(taken') = Items(taken) \cup Items(temp_msg_can)
      BY <1>2, <2>2, Handed DEF Received, RecvOnce
    <3>2. Items(temp_msg_can') = {} /\ Increasing(temp_msg_can')
      BY <2>2, ItemsEmpty DEF Increasing
    <3>3. Items(recv_buffer') = Items(recv_buffer) /\ Increasing(recv_buffer')
      BY <2>1 DEF Received, RecvOnce, Increasing, Items
    <3>4. QED
      BY <2>1, <3>1, <3>2, <3>3 DEF Received, RecvOnce
  <2>3. CASE UNCHANGED <<taken, temp_msg_can>>
    BY <1>1, <2>1, <2>3
  <2>4. QED
    BY <1>10, <2>2, <2>3 DEF WakeUser, EndAndNotify, EndOfCall
<1>11. ASSUME NEW u \in Users, \/ sync_recv_msg(u) \/ Call(u) \/ Refused(u) \/ do_direct_send_msg(u)
                               \/ GetFuture(u) \/ FutureTimeout(u) \/ PopPending(u)
       PROVE  Received'
  BY <1>1, <1>11 DEF sync_recv_msg, Call, Refused, do_direct_send_msg, GetFuture, FutureTimeout, PopPending,
     recvVars, bounds
<1>12. CASE UNCHANGED vars
  BY <1>1, <1>12 DEF vars, recvVars, bounds
<1>13. QED
  BY <1>3, <1>5, <1>6, <1>7, <1>8, <1>9, <1>10, <1>11, <1>12, Steps

(* Every message parsed is with a caller of sync_recv_msg, with the          *)
(* dispatching, or still in hand: in one place, once, in the order of        *)
(* arrival, for every number of callers, timeouts and faults                 *)
(* (socket.h:271-281, 463-486).                                              *)
THEOREM ReceivedOnce == Spec => []RecvOnce
<1>1. Received => RecvOnce
  BY DEF Received
<1>2. QED
  BY ReceivedInit, ReceivedStep, TypeCorrect, <1>1, PTL DEF Spec

-----------------------------------------------------------------------------
(* The sending half, when on_send_error does not send again what it gets.    *)

LEMMA SentInit == Init => Sent
BY ItemsEmpty DEF Init, Sent, Kept, Settled, Answered, Distinct, Tickets

(* set_value on tickets that are owed their answer gives each its first one. *)
LEMMA SetValue ==
    ASSUME TypeOK, ~answered_twice, NEW ts \in SUBSET Tickets, NEW answer \in Answers, set_value(ts, answer),
           \A t \in ts : p[t] \in {"none", "waiting"}
    PROVE  /\ ~answered_twice'
           /\ \A t \in Tickets \ ts : p'[t] = p[t]
           /\ \A t \in Tickets : p[t] = "none" => p'[t] = "none"
           /\ \A t \in Tickets : p[t] \in Answers => p'[t] = p[t]
           /\ \A t \in ts : p'[t] \in {"none", answer}
<1>1. p' = [t \in Tickets |-> IF t \in ts /\ p[t] = "waiting" THEN answer ELSE p[t]]
  BY DEF set_value
<1>2. ~answered_twice'
  BY DEF set_value
<1>3. \A t \in Tickets : p'[t] = IF t \in ts /\ p[t] = "waiting" THEN answer ELSE p[t]
  BY <1>1
<1>4. \A t \in Tickets : p[t] \in Answers => p[t] # "waiting"
  BY DEF Answers
<1>5. \A t \in ts : t \in Tickets
  OBVIOUS
<1>6. QED
  BY <1>2, <1>3, <1>4, <1>5

(* An answer given is never changed, nor what an answer stands for undone.   *)
LEMMA AnsweredStays ==
    ASSUME TypeOK, Answered, UNCHANGED answers, \A t \in Tickets : p[t] \in Answers => p'[t] = p[t]
    PROVE  Answered'
<1>1. SUFFICES ASSUME NEW a \in answers PROVE p'[a[1]] = a[2]
  BY DEF Answered
<1>2. a[1] \in Tickets /\ a[2] \in Answers /\ p[a[1]] = a[2]
  BY DEF TypeOK, Answered
<1>3. QED
  BY <1>2

LEMMA SentStep == ~Resends /\ TypeOK /\ Asked /\ Sent /\ [Next]_vars => Sent'
<1> SUFFICES ASSUME ~Resends, TypeOK, Asked, Sent, [Next]_vars PROVE Sent'
  OBVIOUS
<1>1. ASSUME UNCHANGED <<sendVars, answers>> PROVE Sent'
  BY <1>1 DEF sendVars, Sent, Kept, Settled, Answered, Distinct, Items
<1>2. CASE parse_msg \/ handle_msg \/ handle_error \/ WakeStrand
  BY <1>1, <1>2 DEF parse_msg, handle_msg, handle_error, WakeStrand, StrandOnly
<1>3. CASE close \/ ReadEnds \/ WriteEnds
  BY <1>1, <1>3 DEF close, ReadEnds, WriteEnds
<1>4. ASSUME NEW w \in Actors, Block(w) \/ Elapse(w) PROVE Sent'
  BY <1>1, <1>4 DEF Block, Elapse
<1>5. ASSUME NEW u \in Users, sync_recv_msg(u) \/ WakeUser(u) \/ Call(u) \/ Refused(u) \/ FutureTimeout(u) PROVE Sent'
  BY <1>1, <1>5 DEF sync_recv_msg, WakeUser, Call, Refused, FutureTimeout
<1>6. send_buffer \in Seq(Tickets) /\ sending_msgs \in Seq(Tickets)
      /\ Items(send_buffer) \subseteq Tickets /\ Items(sending_msgs) \subseteq Tickets /\ written \subseteq Tickets
  BY DEF TypeOK, Items
<1>7. CASE do_send_msg
  <2>1. sending_msgs' = send_buffer /\ send_buffer' = <<>> /\ UNCHANGED <<p, answered_twice, written, answers>>
    BY <1>7 DEF do_send_msg
  <2>2. Items(sending_msgs') = Items(send_buffer) /\ Items(send_buffer') = {} /\ Distinct(send_buffer')
    BY <2>1, ItemsEmpty DEF Distinct
  <2>3. QED
    BY <2>1, <2>2 DEF Sent, Kept, Settled, Answered
<1>8. CASE send_handler
  <2> DEFINE answer == AnswerTo(write)
  <2>1. /\ set_value(Items(sending_msgs), answer) /\ answer \in Answers
        /\ sending_msgs' = <<>> /\ UNCHANGED <<send_buffer, answers>>
        /\ written' = IF write = "ok" THEN written \cup Items(sending_msgs) ELSE written
        /\ answer = IF write = "ok" THEN "SUCCESS" ELSE "NOT_APPLICABLE"
    BY <1>8 DEF send_handler, AnswerTo, Answers
  <2>2. \A t \in Items(sending_msgs) : p[t] \in {"none", "waiting"}
    BY DEF Sent, Kept
  <2>3. /\ ~answered_twice'
        /\ \A t \in Tickets \ Items(sending_msgs) : p'[t] = p[t]
        /\ \A t \in Tickets : p[t] = "none" => p'[t] = "none"
        /\ \A t \in Tickets : p[t] \in Answers => p'[t] = p[t]
        /\ \A t \in Items(sending_msgs) : p'[t] \in {"none", answer}
    BY <2>1, <2>2, <1>6, SetValue DEF Sent
  <2>4. Answered'
    BY <2>1, <2>3, AnsweredStays DEF Sent
  <2>5. Kept'
    <3>1. Items(send_buffer') = Items(send_buffer) /\ Distinct(send_buffer')
      BY <2>1 DEF Items, Distinct, Sent, Kept
    <3>2. Items(sending_msgs') = {}
      BY <2>1, ItemsEmpty
    <3>3. \A t \in Items(send_buffer) : t \in Tickets \ Items(sending_msgs)
      BY <1>6 DEF Sent, Kept
    <3>4. \A t \in Items(send_buffer) : p'[t] \in {"none", "waiting"} /\ t \notin written'
      BY <2>1, <2>3, <3>3 DEF Sent, Kept
    <3>5. QED
      BY <3>1, <3>2, <3>4 DEF Kept
  <2>6. Settled'
    <3>1. \A t \in written : t \in Tickets /\ p'[t] \in {"none", "SUCCESS"}
      BY <2>3, <1>6 DEF Sent, Settled, Answers
    <3>2. CASE write = "ok"
      BY <3>1, <3>2, <2>1, <2>3, <1>6 DEF Sent, Settled
    <3>3. CASE write # "ok"
      BY <3>1, <3>3, <2>1, <2>3, <1>6 DEF Sent, Settled
    <3>4. QED
      BY <3>2, <3>3
  <2>7. QED
    BY <2>3, <2>4, <2>5, <2>6 DEF Sent
<1>9. ASSUME NEW u \in Users, PopPending(u) PROVE Sent'
  <2>1. PICK n \in {1, Len(send_buffer)} :
          /\ send_buffer' = SubSeq(send_buffer, n + 1, Len(send_buffer))
          /\ set_value(Items(SubSeq(send_buffer, 1, n)), "NOT_APPLICABLE")
    BY <1>9 DEF PopPending
  <2> DEFINE front == SubSeq(send_buffer, 1, n)
             rest == SubSeq(send_buffer, n + 1, Len(send_buffer))
  <2>2. n \in Nat /\ n <= Len(send_buffer)
    BY <1>6, <1>9 DEF PopPending
  <2>3. /\ Items(front) \subseteq Items(send_buffer) /\ Items(rest) \subseteq Items(send_buffer)
        /\ Items(front) \cap Items(rest) = {} /\ Distinct(rest)
    BY <1>6, <2>2, Parted DEF Sent, Kept
  <2>4. UNCHANGED <<sending_msgs, written, answers>>
    BY <1>9 DEF PopPending
  <2>5. Items(front) \in SUBSET Tickets /\ "NOT_APPLICABLE" \in Answers
        /\ \A t \in Items(front) : p[t] \in {"none", "waiting"} /\ t \notin written
    BY <1>6, <2>3 DEF Sent, Kept, Answers
  <2>6. /\ ~answered_twice'
        /\ \A t \in Tickets \ Items(front) : p'[t] = p[t]
        /\ \A t \in Tickets : p[t] = "none" => p'[t] = "none"
        /\ \A t \in Tickets : p[t] \in Answers => p'[t] = p[t]
        /\ \A t \in Items(front) : p'[t] \in {"none", "NOT_APPLICABLE"}
    BY <2>1, <2>5, SetValue DEF Sent
  <2>7. Answered'
    BY <2>4, <2>6, AnsweredStays DEF Sent
  <2>8. Kept'
    <3>1. Items(send_buffer') = Items(rest) /\ Distinct(send_buffer') /\ Items(sending_msgs') = Items(sending_msgs)
      BY <2>1, <2>3, <2>4 DEF Items
    <3>2. \A t \in Items(rest) \cup Items(sending_msgs) : t \in Tickets \ Items(front)
      BY <1>6, <2>3 DEF Sent, Kept
    <3>3. \A t \in Items(rest) \cup Items(sending_msgs) : p'[t] \in {"none", "waiting"} /\ t \notin written'
      BY <2>3, <2>4, <2>6, <3>2 DEF Sent, Kept
    <3>4. QED
      BY <2>3, <3>1, <3>3 DEF Sent, Kept
  <2>9. Settled'
    BY <1>6, <2>4, <2>5, <2>6 DEF Sent, Settled
  <2>10. QED
    BY <2>6, <2>7, <2>8, <2>9 DEF Sent
<1>10. ASSUME NEW u \in Users, do_direct_send_msg(u) PROVE Sent'
  <2>1. PICK t \in Fresh :
          /\ send_buffer' = Append(send_buffer, t)
          /\ p' = [p EXCEPT ![t] = IF user[u].sync THEN "waiting" ELSE "none"]
    BY <1>10 DEF do_direct_send_msg
  <2>2. t \in Tickets /\ p[t] = "unused" /\ UNCHANGED <<sending_msgs, answered_twice, written, answers>>
    BY <1>10 DEF Fresh, do_direct_send_msg
  <2>3. t \notin Items(send_buffer) /\ t \notin Items(sending_msgs) /\ t \notin written
    BY <2>2 DEF Sent, Kept, Settled
  <2>4. p'[t] \in {"none", "waiting"} /\ \A s \in Tickets : s # t => p'[s] = p[s]
    BY <2>1, <2>2 DEF TypeOK
  <2>5. Items(send_buffer') = Items(send_buffer) \cup {t} /\ Distinct(send_buffer')
    BY <1>6, <2>1, <2>2, <2>3, ItemsAppend, DistinctAppend DEF Sent, Kept
  <2>6. \A s \in Tickets : p[s] \in Answers => p'[s] = p[s]
    BY <2>2, <2>4 DEF Answers
  <2>7. Answered'
    BY <2>2, <2>6, AnsweredStays DEF Sent
  <2>8. Items(sending_msgs') = Items(sending_msgs)
    BY <2>2 DEF Items
  <2>9. Kept'
    BY <1>6, <2>2, <2>3, <2>4, <2>5, <2>8 DEF Sent, Kept
  <2>10. Settled'
    <3>1. \A s \in written : s \in Tickets /\ s # t
      BY <1>6, <2>3
    <3>2. \A s \in Tickets : p'[s] = "SUCCESS" => s # t
      BY <2>4
    <3>3. QED
      BY <2>2, <2>4, <3>1, <3>2 DEF Sent, Settled
  <2>11. QED
    BY <2>2, <2>7, <2>9, <2>10 DEF Sent
<1>11. ASSUME NEW u \in Users, GetFuture(u) PROVE Sent'
  <2>1. answers' = answers \cup {<<user[u].ticket, p[user[u].ticket]>>} /\ UNCHANGED sendVars
    BY <1>11 DEF GetFuture
  <2>2. Answered'
    BY <2>1 DEF Sent, Answered, sendVars
  <2>3. QED
    BY <2>1, <2>2 DEF sendVars, Sent, Kept, Settled, Distinct, Items
<1>12. CASE UNCHANGED vars
  BY <1>1, <1>12 DEF vars
<1>13. QED
  BY <1>2, <1>3, <1>4, <1>5, <1>7, <1>8, <1>9, <1>10, <1>11, <1>12, Steps

(* With no message sent again from on_send_error: SUCCESS is answered of     *)
(* what was written, NOT_APPLICABLE of what never will be, and the answer    *)
(* stays true ever after (tcp/socket.h:421, 455, base.h:573-577).  set_value *)
(* never meets a promise that has its value: the handler and those who take  *)
(* messages out of the buffer never answer the same one (socket.h:421).      *)
THEOREM AnswersTrue == ASSUME ~Resends PROVE Spec => []AnswerTrue
<1>1. TypeOK /\ Sent => AnswerTrue
  <2>1. SUFFICES ASSUME TypeOK, Sent, NEW a \in answers
                 PROVE  /\ a[2] = "SUCCESS" => a[1] \in written
                        /\ a[2] = "NOT_APPLICABLE" => a[1] \notin written \cup Items(send_buffer) \cup Items(sending_msgs)
    BY DEF AnswerTrue, PromiseOnce, Sent
  <2>2. a[1] \in Tickets /\ p[a[1]] = a[2]
    BY <2>1 DEF TypeOK, Sent, Answered
  <2>3. QED
    BY <2>1, <2>2 DEF Sent, Kept, Settled
<1>2. TypeOK /\ Asked /\ Sent /\ [Next]_vars => Sent'
  BY SentStep
<1>3. QED
  BY SentInit, <1>2, TypeCorrect, <1>1, PTL DEF Spec
=============================================================================
