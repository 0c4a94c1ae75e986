------------------------------ MODULE AckState ------------------------------
(***************************************************************************)
(* The four cursors of the ingress loop (mailbox/conn/ack_state.go) and    *)
(* the arithmetic that decides where they stop when a batch is only partly *)
(* delivered (serverconn/ingress.go).  Cursors are exclusive: a cursor c   *)
(* covers the envelopes with an event_seq below c, and 0 covers nothing.   *)
(***************************************************************************)
EXTENDS Naturals

AckStates == [pull : Nat, disp : Nat, target : Nat, acked : Nat]

NoCheckpoint == [pull |-> 0, disp |-> 0, target |-> 0, acked |-> 0]

Later(a, b) == IF a > b THEN a ELSE b

AdvanceDispatch(st, cursor) ==
    LET disp == Later(cursor, st.disp)
    IN  [st EXCEPT !.disp = disp, !.target = Later(disp, st.target)]

AdvanceAck(st) ==
    [st EXCEPT !.acked = st.target, !.pull = Later(st.target, st.pull)]

NeedsAck(st) == st.target > st.acked

(* The checkpoint a folded dispatch commits: dispatch watermark and next    *)
(* pull move together.                                                      *)
Committed(st, cursor) == [AdvanceDispatch(st, cursor) EXCEPT !.pull = cursor]

\* Mutant: the deferred envelope is taken for delivered.
deferredCursor_past(seq, pull) == IF seq < pull THEN pull ELSE seq + 1

deferredCursor(seq, pull) == IF seq <= pull THEN pull ELSE seq

(* A redriven batch stops at the envelope a full mailbox turned away.       *)
clampToDeferred(batch, next, deferred) ==
    LET kept == {s \in batch : s <= deferred}
    IN  IF deferred = 0 \/ kept = {} \/ kept = batch
        THEN [seqs |-> batch, next |-> next]
        ELSE [seqs |-> kept, next |-> deferred + 1]

=============================================================================
