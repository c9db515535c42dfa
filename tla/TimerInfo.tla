----------------------------- MODULE TimerInfo -----------------------------
(***************************************************************************)
(* timer_info: one timer of an ascs::timer object, as a record             *)
(*   seq     the number of starts; the code keeps it in an unsigned char,  *)
(*           so two of them are compared modulo SeqMod,                    *)
(*   status  CREATED, STARTED or CANCELED,                                 *)
(*   wait    whether an async_wait is outstanding (never more than one:    *)
(*           expires_after cancels the one before),                        *)
(*   due     the completion handlers that wait for a service thread,       *)
(*           oldest first, each with the seq it captured and whether it    *)
(*           was cancelled.                                                *)
(***************************************************************************)
EXTENDS Naturals, Sequences

CONSTANT SeqMod     \* the values of an unsigned char

ASSUME SeqAssumption == SeqMod \in Nat \ {0}

Handlers == [prev_seq : Nat, cancelled : BOOLEAN]
TimerInfos == [seq : Nat, status : {"CREATED", "STARTED", "CANCELED"},
               wait : BOOLEAN, due : Seq(Handlers)]

NewTimer == [seq |-> 0, status |-> "CREATED", wait |-> FALSE, due |-> <<>>]

(* The wait ends, by itself or cancelled: its handler becomes due.           *)
Complete(ti, cancelled) ==
    IF ti.wait
    THEN [ti EXCEPT !.wait = FALSE,
                    !.due = Append(@, [prev_seq |-> ti.seq, cancelled |-> cancelled])]
    ELSE ti

(* expires_after, ++seq, async_wait.                                         *)
Rearm(ti) ==
    [Complete(ti, TRUE) EXCEPT !.seq = @ + 1, !.wait = TRUE]

(* prev_seq == ti.seq, between two unsigned chars.                           *)
SameSeq(ti, prev_seq) == prev_seq % SeqMod = ti.seq % SeqMod

(* start_timer, and set_timer, which finds or makes the timer first.         *)
Start(ti) == Rearm([ti EXCEPT !.status = "STARTED"])

(* stop_timer: only a started timer is touched.                              *)
Stop(ti) ==
    IF ti.status = "STARTED"
    THEN Complete([ti EXCEPT !.status = "CANCELED"], TRUE)
    ELSE ti

(* Nothing of the timer is left in the io_context.                           *)
AtRest(ti) == ~ti.wait /\ ti.due = <<>>
=============================================================================
