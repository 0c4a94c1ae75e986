----------------------------- MODULE ExecActor ------------------------------
(***************************************************************************)
(* A durable actor on the Read/Commit execution path (a TxBehavior): the   *)
(* claim loop of DurableMailbox.Receive, processDelivery, processWithExec  *)
(* and finishNonTx of baselib/actor.  With one worker the mailbox is       *)
(* peeked without a lease (SingleWorkerLeaseless); a pool of workers       *)
(* competes for leases, as the serverconn egress sender does.              *)
(*                                                                         *)
(* Every worker handles one delivery at a time.  Each database transaction *)
(* is one step, so that a crash or another worker can come between any two *)
(* of them.  Messages are Tells; the id of a message may be enqueued again *)
(* by its sender (the outbox publisher and txconfirm both redeliver under  *)
(* a stable id).                                                           *)
(*                                                                         *)
(* A lease token is fresh for every claim.  A worker holds at most one     *)
(* delivery, so the worker itself names the token of its latest claim: a   *)
(* row whose token is w was last claimed by w, and by no one since.        *)
(***************************************************************************)
EXTENDS MailboxStore

CONSTANTS Workers,         \* the lease loops started by DurableActor.Start
          Leaseless,       \* SingleWorkerLeaseless
          GiveUpAttempts,  \* attempts at which the TellRetryPolicy stops
          Undecodable,     \* ids whose payload the codec cannot decode
          Outcomes,        \* how the behavior may end: see Behave below
          FaultyReads,     \* the deduplication lookup may fail
          MaxSends,        \* bound: enqueues of one id
          MaxPostpones,    \* bound: postpones a behavior asks for in all
          MaxFaults,       \* bound: crashes and failed writes in all
          NoMsg            \* the worker holds no delivery

ASSUME ActorAssumption ==
    /\ Tokens = Workers
    /\ Leaseless \in BOOLEAN
    /\ Leaseless => \E w \in Workers : Workers = {w}
    /\ GiveUpAttempts \in Nat \ {0}
    /\ Undecodable \subseteq Ids
    /\ Outcomes \subseteq {"commit", "fail", "postpone", "consume"}
    /\ FaultyReads \in BOOLEAN
    /\ MaxSends \in Nat /\ MaxPostpones \in Nat /\ MaxFaults \in Nat
    /\ NoMsg \notin Ids

VARIABLES
    \* Durable state.
    mailbox,     \* mailbox_messages
    processed,   \* processed_messages: ids the deduplication check skips
    dead,        \* dead_letters
    applied,     \* how often the behavior's writes for an id were committed
    \* The workers of the running process.
    worker,
    \* History and bounds.
    sends,       \* how often each id was enqueued
    consumed,    \* ids whose behavior returned fn.Ok without a Commit
    gaveUp,      \* ids a turn of which ended with the policy giving up
    postpones,
    faults

vars == <<mailbox, processed, dead, applied, worker, sends, consumed, gaveUp,
          postpones, faults>>

-----------------------------------------------------------------------------
(***************************************************************************)
(* pc: idle (in the claim loop), claimed (a delivery was yielded), running *)
(* (past the deduplication check, the behavior runs), finish (the behavior *)
(* returned without having committed), release (finishNonTx is past its    *)
(* MarkProcessed).  attempts is Delivery.Attempts, the snapshot taken at   *)
(* the claim; result is what the behavior and the retry policy decided.    *)
(***************************************************************************)
Delivery == [pc: {"idle", "claimed", "running", "finish", "release"},
             msg: Ids \cup {NoMsg},
             attempts: Nat,
             result: {"none", "ok", "retry", "giveup", "postpone"}]

Idle == [pc |-> "idle", msg |-> NoMsg, attempts |-> 0, result |-> "none"]

Init ==
    /\ mailbox = EmptyMailbox
    /\ processed = {}
    /\ dead = {}
    /\ applied = [id \in Ids |-> 0]
    /\ worker = [w \in Workers |-> Idle]
    /\ sends = [id \in Ids |-> 0]
    /\ consumed = {}
    /\ gaveUp = {}
    /\ postpones = 0
    /\ faults = 0

\* The token a worker's delivery carries: a peeked one has none.
TokenOf(w) == IF Leaseless THEN NoToken ELSE w

\* Mutant: the peeked attempt in flight is not counted.
EffectiveAttempts_uncounted(w) == worker[w].attempts

\* Delivery.EffectiveAttempts: a peek did not count the attempt in flight.
EffectiveAttempts(w) ==
    worker[w].attempts + (IF Leaseless THEN 1 ELSE 0)

ShouldDeadLetter(w) == EffectiveAttempts(w) >= MaxAttempts

\* A row that some worker's current delivery still owns.
Owns(w, id) == worker[w].msg = id /\ Matches(mailbox, id, TokenOf(w))

-----------------------------------------------------------------------------
(***************************************************************************)
(* Sending: DurableMailbox.Send.  Senders of one key are sequential, so a  *)
(* key's ids reach the table in id order.                                  *)
(***************************************************************************)
Send(id) ==
    /\ sends[id] < MaxSends
    /\ KeyOf[id] # NoKey =>
         \A id2 \in Ids : id2 < id /\ KeyOf[id2] = KeyOf[id] => sends[id2] > 0
    /\ mailbox' = EnqueueMailboxMessage(mailbox, id)
    /\ sends' = [sends EXCEPT ![id] = @ + 1]
    /\ UNCHANGED <<processed, dead, applied, worker, consumed, gaveUp,
                   postpones, faults>>

(***************************************************************************)
(* Claiming: the loop of DurableMailbox.Receive takes the next eligible    *)
(* row, with a lease (which counts the attempt) or by peeking.             *)
(***************************************************************************)
Claim(w, id) ==
    /\ worker[w].pc = "idle"
    /\ IsNext(mailbox, id)
    /\ mailbox' = IF Leaseless THEN mailbox
                  ELSE LeaseNextMailboxMessage(mailbox, id, w)
    /\ worker' = [worker EXCEPT ![w] =
                    [pc |-> "claimed", msg |-> id,
                     attempts |-> mailbox'[id].attempts, result |-> "none"]]
    /\ UNCHANGED <<processed, dead, applied, sends, consumed, gaveUp,
                   postpones, faults>>

\* handlePoisonMessage: dead-letter at the last attempt, nack before it.  A
\* dead letter that conflicts leaves the row as it was.
HandlePoison(w) ==
    LET id == worker[w].msg IN
    /\ worker[w].pc = "claimed"
    /\ id \in Undecodable
    /\ IF ShouldDeadLetter(w)
       THEN IF DeadLetterConflict(mailbox, dead, id)
            THEN UNCHANGED <<mailbox, dead>>
            ELSE /\ dead' = DeadLettersAfterMove(mailbox, dead, id)
                 /\ mailbox' = DeleteMailboxMessage(mailbox, id)
       ELSE /\ mailbox' = nackMessage(mailbox, id, TokenOf(w))
            /\ UNCHANGED dead
    /\ worker' = [worker EXCEPT ![w] = Idle]
    /\ UNCHANGED <<processed, applied, sends, consumed, gaveUp, postpones,
                   faults>>

\* processDelivery, duplicate branch: ack without running the behavior.
SkipDuplicate(w) ==
    LET id == worker[w].msg IN
    /\ worker[w].pc = "claimed"
    /\ id \notin Undecodable
    /\ id \in processed
    /\ mailbox' = ackMessage(mailbox, id, TokenOf(w))
    /\ worker' = [worker EXCEPT ![w] = Idle]
    /\ UNCHANGED <<processed, dead, applied, sends, consumed, gaveUp,
                   postpones, faults>>

\* processDelivery, deduplication check passed.
Begin(w) ==
    /\ worker[w].pc = "claimed"
    /\ worker[w].msg \notin Undecodable
    /\ worker[w].msg \notin processed
    /\ worker' = [worker EXCEPT ![w].pc = "running"]
    /\ UNCHANGED <<mailbox, processed, dead, applied, sends, consumed, gaveUp,
                   postpones, faults>>

\* processDelivery when IsProcessed fails: the error is logged and the
\* delivery is processed as if it were new.
BeginUnchecked(w) ==
    /\ worker[w].pc = "claimed"
    /\ worker[w].msg \notin Undecodable
    /\ FaultyReads /\ faults < MaxFaults
    /\ faults' = faults + 1
    /\ worker' = [worker EXCEPT ![w].pc = "running"]
    /\ UNCHANGED <<mailbox, processed, dead, applied, sends, consumed, gaveUp,
                   postpones>>

-----------------------------------------------------------------------------
(***************************************************************************)
(* The behavior, between its claim and its end.  processWithExec keeps the *)
(* lease alive with a heartbeat, and a Stage extends it as its fence; both *)
(* are the same statement, and neither is guaranteed to come in time.      *)
(***************************************************************************)
Heartbeat(w) ==
    /\ worker[w].pc = "running"
    /\ ~Leaseless
    /\ Owns(w, worker[w].msg) /\ mailbox[worker[w].msg].expired
    /\ mailbox' = ExtendMailboxLease(mailbox, worker[w].msg, w)
    /\ UNCHANGED <<processed, dead, applied, worker, sends, consumed, gaveUp,
                   postpones, faults>>

\* The behavior ends without having committed; the retry policy is asked once
\* its error is known.  A permanent error is never retried, any other one is
\* while the attempts are below the policy's limit.
ReturnError(w) ==
    \E retry \in BOOLEAN :
        /\ retry => EffectiveAttempts(w) < GiveUpAttempts
        /\ worker' = [worker EXCEPT ![w].pc = "finish",
                         ![w].result = IF retry THEN "retry" ELSE "giveup"]
        /\ gaveUp' = IF retry THEN gaveUp ELSE gaveUp \cup {worker[w].msg}

\* Mutant: the commit does not mark the message processed.
Commit_noMark(w) ==
    LET id == worker[w].msg IN
    /\ "commit" \in Outcomes
    /\ worker[w].pc = "running"
    /\ Matches(mailbox, id, TokenOf(w))
    /\ mailbox' = ackMessage(mailbox, id, TokenOf(w))
    /\ applied' = [applied EXCEPT ![id] = @ + 1]
    /\ worker' = [worker EXCEPT ![w] = Idle]
    /\ UNCHANGED <<processed, dead, gaveUp, sends, consumed, postpones, faults>>

\* Mutant: the writes are kept when the ack matches no row.
Commit_unfenced(w) ==
    LET id == worker[w].msg IN
    /\ "commit" \in Outcomes
    /\ worker[w].pc = "running"
    /\ mailbox' = ackMessage(mailbox, id, TokenOf(w))
    /\ applied' = [applied EXCEPT ![id] = @ + 1]
    /\ processed' = processed \cup {id}
    /\ worker' = [worker EXCEPT ![w] = Idle]
    /\ UNCHANGED <<gaveUp, dead, sends, consumed, postpones, faults>>

\* execCore.commit: the fenced ack, the behavior's writes and the processed
\* mark in one transaction.  When the ack matches no row the transaction is
\* rolled back and the behavior returns ErrLeaseLost.
Commit(w) ==
    LET id == worker[w].msg IN
    /\ "commit" \in Outcomes
    /\ worker[w].pc = "running"
    /\ IF Matches(mailbox, id, TokenOf(w))
       THEN /\ mailbox' = ackMessage(mailbox, id, TokenOf(w))
            /\ applied' = [applied EXCEPT ![id] = @ + 1]
            /\ processed' = processed \cup {id}
            /\ worker' = [worker EXCEPT ![w] = Idle]
            /\ UNCHANGED gaveUp
       ELSE /\ ReturnError(w)
            /\ UNCHANGED <<mailbox, applied, processed>>
    /\ UNCHANGED <<dead, sends, consumed, postpones, faults>>

\* The behavior fails or panics before its Commit, or the Commit's transaction
\* fails: nothing was written.
Fail(w) ==
    /\ "fail" \in Outcomes
    /\ worker[w].pc = "running"
    /\ ReturnError(w)
    /\ UNCHANGED <<mailbox, processed, dead, applied, sends, consumed,
                   postpones, faults>>

\* The behavior returns a PostponeError.
Postpone(w) ==
    /\ "postpone" \in Outcomes
    /\ worker[w].pc = "running"
    /\ postpones < MaxPostpones
    /\ postpones' = postpones + 1
    /\ worker' = [worker EXCEPT ![w].pc = "finish", ![w].result = "postpone"]
    /\ UNCHANGED <<mailbox, processed, dead, applied, sends, consumed, gaveUp,
                   faults>>

\* The behavior returns fn.Ok without a Commit (a RestartMessage).
Consume(w) ==
    /\ "consume" \in Outcomes
    /\ worker[w].pc = "running"
    /\ worker' = [worker EXCEPT ![w].pc = "finish", ![w].result = "ok"]
    /\ consumed' = consumed \cup {worker[w].msg}
    /\ UNCHANGED <<mailbox, processed, dead, applied, sends, gaveUp, postpones,
                   faults>>

-----------------------------------------------------------------------------
(***************************************************************************)
(* finishNonTx: the processed mark, then the release of the row, each in a *)
(* transaction of its own.                                                 *)
(***************************************************************************)
\* Mutant: every finished turn is marked, the ones to be retried included.
ShouldMarkProcessed_always(w) == worker[w].result \in {"ok", "giveup", "retry"}

\* A message that will be delivered again must not be marked.
ShouldMarkProcessed(w) == worker[w].result \in {"ok", "giveup"}

MarkProcessed(w) ==
    /\ worker[w].pc = "finish"
    /\ processed' = IF ShouldMarkProcessed(w)
                    THEN processed \cup {worker[w].msg} ELSE processed
    /\ worker' = [worker EXCEPT ![w].pc = "release"]
    /\ UNCHANGED <<mailbox, dead, applied, sends, consumed, gaveUp, postpones,
                   faults>>

\* The mark is not written; finishNonTx logs the error and goes on.
MarkProcessedFails(w) ==
    /\ worker[w].pc = "finish"
    /\ ShouldMarkProcessed(w)
    /\ faults < MaxFaults
    /\ faults' = faults + 1
    /\ worker' = [worker EXCEPT ![w].pc = "release"]
    /\ UNCHANGED <<mailbox, processed, dead, applied, sends, consumed, gaveUp,
                   postpones>>

\* handleResult on fn.Ok: the ack, fenced when there is a lease.
ReleaseOk(w) ==
    /\ worker[w].result = "ok"
    /\ mailbox' = ackMessage(mailbox, worker[w].msg, TokenOf(w))
    /\ UNCHANGED dead

ReleasePostpone(w) ==
    /\ worker[w].result = "postpone"
    /\ mailbox' = postponeMessage(mailbox, worker[w].msg, TokenOf(w))
    /\ UNCHANGED dead

\* Delivery.Nack: at the last attempt the row goes to dead_letters, by id and
\* unfenced; a conflicting dead letter leaves it in place.
ReleaseRetry(w) ==
    LET id == worker[w].msg IN
    /\ worker[w].result = "retry"
    /\ IF ShouldDeadLetter(w)
       THEN IF DeadLetterConflict(mailbox, dead, id)
            THEN UNCHANGED <<mailbox, dead>>
            ELSE /\ dead' = DeadLettersAfterMove(mailbox, dead, id)
                 /\ mailbox' = DeleteMailboxMessage(mailbox, id)
       ELSE /\ mailbox' = nackMessage(mailbox, id, TokenOf(w))
            /\ UNCHANGED dead

\* handleResult when the policy gave up: MoveToDeadLetter and then, whether or
\* not that worked, DeleteMessage, both by id and unfenced.
ReleaseGiveUp(w) ==
    LET id == worker[w].msg IN
    /\ worker[w].result = "giveup"
    /\ dead' = DeadLettersAfterMove(mailbox, dead, id)
    /\ mailbox' = DeleteMailboxMessage(mailbox, id)

Release(w) ==
    /\ worker[w].pc = "release"
    /\ \/ ReleaseOk(w)
       \/ ReleasePostpone(w)
       \/ ReleaseRetry(w)
       \/ ReleaseGiveUp(w)
    /\ worker' = [worker EXCEPT ![w] = Idle]
    /\ UNCHANGED <<processed, applied, sends, consumed, gaveUp, postpones,
                   faults>>

\* The release of a finished, duplicate or undecodable message is not written;
\* the error is logged and the row stays as it is.
ReleaseFails(w) ==
    /\ \/ worker[w].pc = "release"
       \/ worker[w].pc = "claimed" /\ worker[w].msg \in processed \cup Undecodable
    /\ faults < MaxFaults
    /\ faults' = faults + 1
    /\ worker' = [worker EXCEPT ![w] = Idle]
    /\ UNCHANGED <<mailbox, processed, dead, applied, sends, consumed, gaveUp,
                   postpones>>

\* MoveToDeadLetter fails and the DeleteMessage that follows it does not.
DeadLetterLost(w) ==
    /\ worker[w].pc = "release"
    /\ worker[w].result = "giveup"
    /\ faults < MaxFaults
    /\ faults' = faults + 1
    /\ mailbox' = DeleteMailboxMessage(mailbox, worker[w].msg)
    /\ worker' = [worker EXCEPT ![w] = Idle]
    /\ UNCHANGED <<processed, dead, applied, sends, consumed, gaveUp,
                   postpones>>

-----------------------------------------------------------------------------
(***************************************************************************)
(* The environment: time passes, and the process crashes and restarts.     *)
(***************************************************************************)
LeaseExpires(id) ==
    /\ Present(mailbox, id)
    /\ mailbox[id].token # NoToken
    /\ ~mailbox[id].expired
    /\ mailbox' = LeaseRunsOut(mailbox, id)
    /\ UNCHANGED <<processed, dead, applied, worker, sends, consumed, gaveUp,
                   postpones, faults>>

BecomesReady(id) ==
    /\ Present(mailbox, id)
    /\ ~mailbox[id].ready
    /\ mailbox' = BackoffEnds(mailbox, id)
    /\ UNCHANGED <<processed, dead, applied, worker, sends, consumed, gaveUp,
                   postpones, faults>>

\* Only the tables survive; the workers start over in the claim loop.
Crash ==
    /\ faults < MaxFaults
    /\ faults' = faults + 1
    /\ worker' = [w \in Workers |-> Idle]
    /\ UNCHANGED <<mailbox, processed, dead, applied, sends, consumed, gaveUp,
                   postpones>>

-----------------------------------------------------------------------------
\* What a worker does by itself while the process lives and the store works.
WorkerStep(w) ==
    \/ \E id \in Ids : Claim(w, id)
    \/ HandlePoison(w)
    \/ SkipDuplicate(w)
    \/ Begin(w)
    \/ Commit(w)
    \/ Fail(w)
    \/ Postpone(w)
    \/ Consume(w)
    \/ MarkProcessed(w)
    \/ Release(w)

Fault(w) ==
    \/ BeginUnchecked(w)
    \/ MarkProcessedFails(w)
    \/ ReleaseFails(w)
    \/ DeadLetterLost(w)

Next ==
    \/ \E id \in Ids : Send(id) \/ LeaseExpires(id) \/ BecomesReady(id)
    \/ \E w \in Workers : WorkerStep(w) \/ Heartbeat(w) \/ Fault(w)
    \/ Crash

Spec == Init /\ [][Next]_vars

(***************************************************************************)
(* Fairness: a worker keeps polling (Receive's timer is never stopped) and *)
(* a behavior returns; backoffs and leases run out because clocks advance. *)
(* Nothing makes a sender send or a fault happen.                          *)
(***************************************************************************)
FairSpec ==
    /\ Spec
    /\ \A w \in Workers : WF_vars(WorkerStep(w))
    /\ \A id \in Ids : WF_vars(BecomesReady(id)) /\ WF_vars(LeaseExpires(id))

-----------------------------------------------------------------------------
TypeOK ==
    /\ mailbox \in MailboxTable
    /\ processed \subseteq Ids
    /\ dead \subseteq Ids
    /\ applied \in [Ids -> Nat]
    /\ worker \in [Workers -> Delivery]
    /\ \A w \in Workers : worker[w].pc = "idle" <=> worker[w].msg = NoMsg
    /\ sends \in [Ids -> Nat]
    /\ consumed \subseteq Ids
    /\ gaveUp \subseteq Ids
    /\ postpones \in Nat
    /\ faults \in Nat

\* The behavior's writes for one id are committed at most once, whatever is
\* redelivered, crashes or loses its lease: the fenced ack of execCore.commit
\* together with the deduplication check of processDelivery.
AppliedOnce == \A id \in Ids : applied[id] <= 1

\* The inductive form of AppliedOnce.  A worker whose commit could still match
\* its row works on a message that was never applied: what was applied is
\* marked processed, so no later turn gets past the deduplication check, and
\* an earlier turn has lost the row.
MayCommit(w) ==
    /\ worker[w].pc = "running"
    /\ Leaseless \/ Matches(mailbox, worker[w].msg, w)

AppliedOnceInv ==
    /\ AppliedOnce
    /\ \A id \in Ids : applied[id] > 0 => id \in processed
    /\ \A w \in Workers : MayCommit(w) => applied[worker[w].msg] = 0

\* A message that left the mailbox was applied, consumed by the behavior or
\* dead-lettered, unless a turn on it ended with the policy giving up: no
\* interleaving of ack, nack, lease loss and crash drops any other message.
SettledOrGaveUp ==
    \A id \in Ids :
        sends[id] > 0 /\ ~Present(mailbox, id) =>
            \/ applied[id] > 0
            \/ id \in dead \cup consumed \cup gaveUp

\* The inductive form of SettledOrGaveUp: a mark in processed_messages, which
\* makes a redelivery be acked unseen, comes only from a commit, from a
\* behavior that consumed the message, or from a turn that gave up.
SettledInv ==
    /\ SettledOrGaveUp
    /\ \A id \in processed : applied[id] > 0 \/ id \in consumed \cup gaveUp
    /\ \A w \in Workers :
         /\ worker[w].result = "ok" => worker[w].msg \in consumed
         /\ worker[w].result = "giveup" => worker[w].msg \in gaveUp


\* A message enqueued once is never both applied and dead-lettered: the two
\* transactions compete for the same row.
DeadOrApplied ==
    \A id \in Ids : sends[id] <= 1 /\ id \in dead => applied[id] = 0

\* The inductive form of DeadOrApplied: what was applied or dead-lettered has
\* no row any more, and a message sent once gets no second row.
DeadOrAppliedInv ==
    /\ DeadOrApplied
    /\ \A id \in Ids :
         /\ Present(mailbox, id) => sends[id] > 0
         /\ id \in dead \/ applied[id] > 0 => sends[id] > 0
         /\ (id \in dead \/ applied[id] > 0) /\ sends[id] <= 1
              => ~Present(mailbox, id)

\* Writes of one key commit in id order, as far as they are enqueued once; an
\* earlier message is overtaken only while it is on its last attempt, where the
\* anti-join of the claim query no longer sees it.
KeyOrderUntilLastAttempt ==
    [][\A id1, id2 \in Ids :
          /\ id1 < id2 /\ sends[id1] <= 1 /\ KeyOf[id1] = KeyOf[id2] /\ KeyOf[id1] # NoKey
          /\ applied'[id1] > applied[id1]
          => applied[id2] = 0 \/ mailbox[id1].attempts >= MaxAttempts]_vars

\* A row no worker is working on can still be claimed: no path leaves a row
\* with its attempts used up, where neither a claim nor a dead letter would
\* ever come.
NoStrandedRow ==
    \A id \in Ids :
        /\ Present(mailbox, id)
        /\ \A w \in Workers : worker[w].msg # id
        => mailbox[id].attempts < MaxAttempts

\* The actor keeps the contract of DeliveryContract: a row leaves the table in
\* the step that commits its writes, and otherwise only when the message was
\* applied before, consumed, given up or dead-lettered.
Queued == {id \in Ids : Present(mailbox, id)}
Settled == dead \cup consumed \cup gaveUp
Contract == INSTANCE DeliveryContract WITH queued <- Queued, settled <- Settled
KeepsContract == Contract!Spec

\* Every message that was sent leaves the mailbox in the end, whatever order
\* failures, postpones, expiring leases and restarts come in.
EventuallySettled ==
    \A id \in Ids : sends[id] > 0 ~> ~Present(mailbox, id)

\* The lane of a key is not blocked for good by a row whose attempts are used
\* up: every later message of the key leaves the mailbox, or uses up its own.
LaneDrains ==
    \A id \in Ids :
        sends[id] > 0 ~> \/ ~Present(mailbox, id)
                         \/ mailbox[id].attempts >= MaxAttempts

=============================================================================
