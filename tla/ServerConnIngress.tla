------------------------- MODULE ServerConnIngress -------------------------
(***************************************************************************)
(* The receiving half of the server connection (serverconn/): the loop     *)
(* that acknowledges, pulls and dispatches mailbox envelopes, the          *)
(* checkpoint and the durable inboxes it commits to, the bounded in-memory *)
(* actor it may find full, the quarantine for envelopes no adapter reads,  *)
(* the registry of unary waiters with one caller, and the one-way switch   *)
(* to the incompatible state.                                              *)
(*                                                                         *)
(* The folded dispatch is one write transaction, but two kinds of delivery *)
(* escape it: what runs before it opens (waiters, hoisted requests) and    *)
(* what is told to an actor that lives in memory.  A transaction that is   *)
(* replayed, rolled back or lost in a crash undoes neither.                *)
(***************************************************************************)
EXTENDS AckState, FiniteSets, Sequences, Functions

CONSTANTS Scenarios,     \* bounds: what is posted, sent and goes wrong together
          MaxLog,        \* bound on what is posted in any of them
          PullMax,       \* PullMaxEnvelopes
          BoxCap,        \* capacity of the in-memory target's mailbox
          QuarantineCap  \* rows the quarantine holds

Kinds == {"event", "memory", "request", "response", "durable_response",
          "poison", "memory_poison", "foreign", "bad_version", "unroutable"}
FaultKinds == {"crash", "replay", "rollback", "serve", "ack_lost", "permanent"}

Envelope == [kind : Kinds, occ : Nat, payload : Nat]

ASSUME IngressAssumption ==
    /\ \A b \in Scenarios :
         /\ b.envelopes \subseteq Envelope /\ b.posts \in 0..MaxLog
         /\ b.sends \in Nat
         /\ b.faults \in [FaultKinds -> Nat] /\ b.maxFaults \in Nat
    /\ MaxLog \in Nat /\ PullMax \in Nat \ {0} /\ BoxCap \in Nat \ {0}
    /\ QuarantineCap \in Nat

VARIABLES log,       \* the remote mailbox: log[s] has event_seq s
          acked,     \* the cursor the server was last given by AckUpTo
          db,        \* checkpoint, durable inbox rows, receipts, quarantine
          pc,        \* where the ingress goroutine is
          ack,       \* the loop's AckState
          dirty,     \* ackDirty
          redrive,   \* redriveState: deferredSeq and servedNonTxSeq
          part,      \* the batch: cursor after it, and its three partitions
          tx,        \* what the open transaction has written so far
          escaped,   \* deliveredOutsideTx
          deferral,  \* event_seq the open transaction stopped at, or 0
          box,       \* the in-memory target's mailbox
          told,      \* envelopes the in-memory target was ever handed
          copies,    \* times it was handed each since a fold last failed
          served,    \* times each hoisted request was answered
          runs,      \* times its handler ran
          answered,  \* responses that completed a waiter
          reg,       \* the registry: is the waiter there, is a response buffered
          promise,   \* of the caller's future
          caller,    \* where the unary caller is
          sends,     \* requests it has put on the wire
          compat,    \* progress of markIncompatible
          cancel,    \* ingressCancel: published, and whether it was called
          upgraded,  \* the adapters read what they rejected before
          hit        \* faults of each kind so far

loopVars == <<pc, ack, dirty, redrive, part>>
txVars == <<tx, escaped, deferral>>
memVars == <<box, told, copies>>
callerVars == <<promise, caller, sends>>
registryVars == <<reg, callerVars, answered>>
compatVars == <<compat, cancel>>
vars == <<log, acked, db, loopVars, txVars, memVars, served, runs,
          registryVars, compatVars, upgraded, hit>>

Seqs == 1..MaxLog
Kind(s) == log[s].kind
Lowest(S) == CHOOSE s \in S : \A t \in S : s <= t

NoBatch == [next |-> 0, responses |-> {}, requests |-> {}, durables |-> {}]
FreshRedrive == [deferred |-> 0, served |-> 0]
NoTx == [inbox |-> <<>>, receipts |-> {}, quarantine |-> {}, todo |-> {}]
EmptyDB == [ack |-> NoCheckpoint, inbox |-> <<>>, receipts |-> {}, quarantine |-> {}]

Init ==
    /\ log = <<>>
    /\ acked = 0
    /\ db = EmptyDB
    /\ pc = "down"
    /\ ack = NoCheckpoint
    /\ dirty = FALSE
    /\ redrive = FreshRedrive
    /\ part = NoBatch
    /\ tx = NoTx
    /\ escaped = {}
    /\ deferral = 0
    /\ box = <<>>
    /\ told = {}
    /\ copies = [s \in Seqs |-> 0]
    /\ served = [s \in Seqs |-> 0]
    /\ runs = [s \in Seqs |-> 0]
    /\ answered = {}
    /\ reg = [waiter |-> FALSE, pending |-> FALSE]
    /\ promise = "open"
    /\ caller = "idle"
    /\ sends = 0
    /\ compat = "compatible"
    /\ cancel = [published |-> FALSE, called |-> FALSE]
    /\ upgraded = FALSE
    /\ hit = [f \in FaultKinds |-> 0]

Posted == {log[s] : s \in DOMAIN log}
Requests == sends + (IF caller \in {"admitted", "sending"} THEN 1 ELSE 0)

Total(faults) == FoldFunction(+, 0, faults)

(* The bound on a behaviour: some scenario allows all that happened in it.  *)
Fits(envelopes, posts, requests, faults) ==
    \E b \in Scenarios :
        /\ envelopes \subseteq b.envelopes /\ posts <= b.posts
        /\ requests <= b.sends
        /\ \A f \in FaultKinds : faults[f] <= b.faults[f]
        /\ Total(faults) <= b.maxFaults

Fault(f) ==
    /\ hit' = [hit EXCEPT ![f] = @ + 1]
    /\ Fits(Posted, Len(log), Requests, hit')

-----------------------------------------------------------------------------
(* The remote mailbox.                                                      *)

Responses == {"response", "durable_response"}

(* The server posts an envelope; a response answers a request it was sent.  *)
Post ==
    /\ \E e \in UNION {b.envelopes : b \in Scenarios} :
         /\ Fits(Posted \cup {e}, Len(log) + 1, Requests, hit)
         /\ e.kind \in Responses =>
              Cardinality({s \in DOMAIN log : Kind(s) \in Responses}) < sends
         /\ log' = Append(log, e)
    /\ UNCHANGED <<acked, db, loopVars, txVars, memVars, served, runs,
                   registryVars, compatVars, upgraded, hit>>

-----------------------------------------------------------------------------
(* Starting: StartIngress, then one attempt at what is in quarantine.       *)

StartIngress ==
    /\ pc = "down"
    /\ compat = "compatible"
    /\ ack' = db.ack
    /\ pc' = "loaded"
    /\ UNCHANGED <<log, acked, db, dirty, redrive, part, txVars, memVars,
                   served, runs, registryVars, compatVars, upgraded, hit>>

PublishCancel ==
    /\ pc = "loaded"
    /\ cancel' = [cancel EXCEPT !.published = TRUE]
    /\ pc' = "published"
    /\ UNCHANGED <<log, acked, db, ack, dirty, redrive, part, txVars, memVars,
                   served, runs, registryVars, compat, upgraded, hit>>

RecheckCompat ==
    /\ pc = "published"
    /\ IF compat = "compatible"
       THEN /\ pc' = "recover"
            /\ part' = [part EXCEPT !.durables = db.quarantine]
            /\ UNCHANGED cancel
       ELSE /\ pc' = "stopped"
            /\ cancel' = [cancel EXCEPT !.called = TRUE]
            /\ UNCHANGED part
    /\ UNCHANGED <<log, acked, db, ack, dirty, redrive, txVars, memVars,
                   served, runs, registryVars, compat, upgraded, hit>>

Receipt(s) == [occ |-> log[s].occ, payload |-> log[s].payload]
Consumed(t, s) == \E r \in t.receipts : r.occ = log[s].occ
Mismatch(t, s) == Consumed(t, s) /\ Receipt(s) \notin t.receipts

\* Mutant: the occurrence id is recorded and never looked up.
EnqueueOnce_blind(t, s) ==
    [t EXCEPT !.inbox = Append(@, s), !.receipts = @ \cup {Receipt(s)}]

(* A durable target's Tell: the row joins the transaction, once per         *)
(* occurrence id.                                                           *)
EnqueueOnce(t, s) ==
    IF Consumed(t, s) THEN t
    ELSE [t EXCEPT !.inbox = Append(@, s), !.receipts = @ \cup {Receipt(s)}]

Enqueue(t, s) == [t EXCEPT !.inbox = Append(@, s)]

QuarantineIngress(t, s) == [t EXCEPT !.quarantine = @ \cup {s}]
QuarantineFull(t, s) ==
    s \notin t.quarantine /\ Cardinality(t.quarantine) >= QuarantineCap

Hand(s) ==
    /\ Len(box) < BoxCap
    /\ box' = Append(box, s)
    /\ told' = told \cup {s}

(* What today's adapters can turn into an actor message.                    *)
Readable(s) == upgraded \/ Kind(s) \notin {"poison", "memory_poison"}
ToMemory(s) == Kind(s) \in {"memory", "memory_poison"}

\* Mutant: a handoff in memory counts as a durable one.
RetryQuarantined_anyHandoff ==
    /\ pc = "recover"
    /\ part.durables # {}
    /\ LET s == Lowest(part.durables)
           freed == [db EXCEPT !.quarantine = @ \ {s}]
       IN  /\ part' = [part EXCEPT !.durables = @ \ {s}]
           /\ \/ /\ Readable(s) /\ ToMemory(s)
                 /\ Hand(s)
                 /\ db' = freed
                 /\ UNCHANGED copies
              \/ /\ ~(Readable(s) /\ ToMemory(s) /\ Len(box) < BoxCap)
                 /\ UNCHANGED <<db, memVars>>
    /\ UNCHANGED <<log, acked, pc, ack, dirty, redrive, txVars, served, runs,
                   registryVars, compatVars, upgraded, hit>>

(* retryQuarantinedIngress takes one row.  What an adapter now reads leaves *)
(* quarantine for a durable inbox in one commit; an in-memory target is     *)
(* told but its evidence stays, and everything else stays as it was.        *)
RetryQuarantined ==
    /\ pc = "recover"
    /\ part.durables # {}
    /\ LET s == Lowest(part.durables)
           durable == Readable(s) /\ ~ToMemory(s) /\ ~Mismatch(db, s)
           memory == Readable(s) /\ ToMemory(s) /\ Len(box) < BoxCap
       IN  /\ part' = [part EXCEPT !.durables = @ \ {s}]
           /\ \/ /\ durable
                 /\ db' = EnqueueOnce([db EXCEPT !.quarantine = @ \ {s}], s)
                 /\ UNCHANGED memVars
              \/ /\ memory
                 /\ Hand(s)
                 /\ UNCHANGED <<db, copies>>
              \/ /\ ~durable /\ ~memory
                 /\ UNCHANGED <<db, memVars>>
    /\ UNCHANGED <<log, acked, pc, ack, dirty, redrive, txVars, served, runs,
                   registryVars, compatVars, upgraded, hit>>

EnterLoop ==
    /\ pc = "recover"
    /\ part.durables = {}
    /\ pc' = "top"
    /\ UNCHANGED <<log, acked, db, ack, dirty, redrive, part, txVars, memVars,
                   served, runs, registryVars, compatVars, upgraded, hit>>

-----------------------------------------------------------------------------
(* One turn of ingressLoop: acknowledge, pull, prepare.                     *)

ExitLoop ==
    /\ pc \in {"top", "pull"}
    /\ cancel.called
    /\ pc' = "stopped"
    /\ UNCHANGED <<log, acked, db, ack, dirty, redrive, part, txVars, memVars,
                   served, runs, registryVars, compatVars, upgraded, hit>>

ackPhase ==
    /\ pc = "top"
    /\ ~cancel.called
    /\ IF NeedsAck(ack)
       THEN /\ acked' = ack.target
            /\ \/ /\ ack' = AdvanceAck(ack)
                  /\ dirty' = TRUE
                  /\ pc' = "pull"
                  /\ UNCHANGED hit
               \/ /\ Fault("ack_lost")
                  /\ UNCHANGED <<ack, dirty, pc>>
       ELSE /\ pc' = "pull"
            /\ UNCHANGED <<acked, ack, dirty, hit>>
    /\ UNCHANGED <<log, db, redrive, part, txVars, memVars, served, runs,
                   registryVars, compatVars, upgraded>>

(* What Pull returns for a cursor: the oldest PullMax envelopes from there. *)
Window(cursor) ==
    {s \in DOMAIN log : s >= cursor /\ s < Later(cursor, 1) + PullMax}

(* An empty long-poll flushes a dirty watermark.                            *)
PullEmpty ==
    /\ pc = "pull"
    /\ ~cancel.called
    /\ Window(ack.pull) = {}
    /\ db' = IF dirty THEN [db EXCEPT !.ack = ack] ELSE db
    /\ dirty' = FALSE
    /\ pc' = "top"
    /\ UNCHANGED <<log, acked, ack, redrive, part, txVars, memVars, served,
                   runs, registryVars, compatVars, upgraded, hit>>

splitIngressEnvelopes(batch, next) ==
    LET responses == {s \in batch : Kind(s) \in Responses /\ reg.waiter}
        requests == {s \in batch : Kind(s) = "request"}
    IN  [next |-> next, responses |-> responses, requests |-> requests,
         durables |-> batch \ (responses \cup requests)]

(* The head of runFoldedDispatch: foreign senders are dropped, then the     *)
(* whole batch is validated, clamped to a deferred envelope and split.      *)
PullBatch ==
    /\ pc = "pull"
    /\ ~cancel.called
    /\ Window(ack.pull) # {}
    /\ LET pulled == Window(ack.pull)
           next == 1 + CHOOSE s \in pulled : \A t \in pulled : t <= s
           kept == {s \in pulled : Kind(s) # "foreign"}
           batch == clampToDeferred(kept, next, redrive.deferred)
       IN  /\ \A s \in kept : Kind(s) # "bad_version"
           /\ part' = splitIngressEnvelopes(batch.seqs, batch.next)
    /\ pc' = "deliver"
    /\ UNCHANGED <<log, acked, db, ack, dirty, redrive, txVars, memVars,
                   served, runs, registryVars, compatVars, upgraded, hit>>

(* A version mismatch anywhere in the batch ends the loop before any of it  *)
(* is acted on.                                                             *)
PullIncompatible ==
    /\ pc = "pull"
    /\ ~cancel.called
    /\ \E s \in Window(ack.pull) : Kind(s) = "bad_version"
    /\ pc' = "stopped"
    /\ compat' = IF compat = "compatible" THEN "cached" ELSE compat
    /\ UNCHANGED <<log, acked, db, ack, dirty, redrive, part, txVars, memVars,
                   served, runs, registryVars, cancel, upgraded, hit>>

-----------------------------------------------------------------------------
(* What a dispatch does before its transaction opens.                       *)

(* deliverWaiterResponses: to the waiter if it is still there, else into    *)
(* the durable partition.                                                   *)
deliverWaiterResponses ==
    /\ pc = "deliver"
    /\ IF reg.waiter /\ part.responses # {}
       THEN /\ answered' = answered \cup part.responses
            /\ promise' = IF promise = "open" THEN "response" ELSE promise
            /\ part' = [part EXCEPT !.responses = {}]
            /\ UNCHANGED reg
       ELSE /\ part' = [part EXCEPT !.responses = {},
                                    !.durables = @ \cup part.responses]
            /\ reg' = IF part.responses = {} THEN reg
                      ELSE [reg EXCEPT !.pending = FALSE]
            /\ UNCHANGED <<answered, promise>>
    /\ pc' = "serve"
    /\ UNCHANGED <<log, acked, db, ack, dirty, redrive, txVars, memVars,
                   served, runs, caller, sends, compatVars, upgraded, hit>>

Ran(s) == runs' = [runs EXCEPT ![s] = @ + 1]

(* The handler fails, or runs and its answer is not sent.                   *)
ServeFails(s) ==
    /\ Fault("serve")
    /\ Ran(s) \/ UNCHANGED runs
    /\ part' = NoBatch
    /\ pc' = "top"
    /\ UNCHANGED <<served, redrive>>

\* Mutant: no watermark, every pulled request is served.
dispatchNonTxRequests_always ==
    /\ pc = "serve"
    /\ part.requests # {}
    /\ LET s == Lowest(part.requests)
       IN  \/ /\ served' = [served EXCEPT ![s] = @ + 1]
              /\ Ran(s)
              /\ part' = [part EXCEPT !.requests = @ \ {s}]
              /\ UNCHANGED <<pc, redrive, hit>>
           \/ ServeFails(s)
    /\ UNCHANGED <<log, acked, db, ack, dirty, txVars, memVars, registryVars,
                   compatVars, upgraded>>

(* dispatchNonTxRequests: each hoisted request in order, unless this        *)
(* process has answered it before.  A failed one abandons the batch.        *)
dispatchNonTxRequests ==
    /\ pc = "serve"
    /\ part.requests # {}
    /\ LET s == Lowest(part.requests)
       IN  \/ /\ IF s <= redrive.served
                 THEN UNCHANGED <<served, runs, redrive>>
                 ELSE /\ served' = [served EXCEPT ![s] = @ + 1]
                      /\ Ran(s)
                      /\ redrive' = [redrive EXCEPT !.served = s]
              /\ part' = [part EXCEPT !.requests = @ \ {s}]
              /\ UNCHANGED <<pc, hit>>
           \/ s > redrive.served /\ ServeFails(s)
    /\ UNCHANGED <<log, acked, db, ack, dirty, txVars, memVars, registryVars,
                   compatVars, upgraded>>

(* dispatchBatch starts over from the durable partition on every attempt.   *)
OpenTx == [inbox |-> db.inbox, receipts |-> db.receipts,
           quarantine |-> db.quarantine, todo |-> part.durables]

BeginFold ==
    /\ pc = "serve"
    /\ part.requests = {}
    /\ tx' = OpenTx
    /\ escaped' = {}
    /\ deferral' = 0
    /\ pc' = "fold"
    /\ UNCHANGED <<log, acked, db, ack, dirty, redrive, part, memVars, served,
                   runs, registryVars, compatVars, upgraded, hit>>

-----------------------------------------------------------------------------
(* The write transaction: dispatchBatch, one envelope at a time.            *)

Dispatching(s) ==
    /\ pc = "fold"
    /\ deferral = 0
    /\ tx.todo # {}
    /\ s = Lowest(tx.todo)

Done(t, s) == [t EXCEPT !.todo = @ \ {s}]

SkipEnvelope ==
    /\ \E s \in Seqs :
         /\ Dispatching(s)
         /\ Kind(s) = "unroutable"
         /\ tx' = Done(tx, s)
    /\ UNCHANGED <<log, acked, db, loopVars, escaped, deferral, memVars,
                   served, runs, registryVars, compatVars, upgraded, hit>>

DispatchDurable ==
    /\ \E s \in Seqs :
         /\ Dispatching(s)
         /\ Kind(s) \in {"event", "poison"}
         /\ Readable(s)
         /\ ~Mismatch(tx, s)
         /\ tx' = Done(EnqueueOnce(tx, s), s)
    /\ UNCHANGED <<log, acked, db, loopVars, escaped, deferral, memVars,
                   served, runs, registryVars, compatVars, upgraded, hit>>

(* deliverToActor on a bounded mailbox: what an earlier attempt of this     *)
(* dispatch handed over is not handed over again, and a full mailbox stops  *)
(* the batch here.                                                          *)
DispatchMemory ==
    /\ \E s \in Seqs :
         /\ Dispatching(s)
         /\ ToMemory(s)
         /\ Readable(s)
         /\ \/ /\ s \in escaped
               /\ tx' = Done(tx, s)
               /\ UNCHANGED <<escaped, deferral, memVars>>
            \/ /\ s \notin escaped
               /\ Hand(s)
               /\ copies' = [copies EXCEPT ![s] = @ + 1]
               /\ escaped' = escaped \cup {s}
               /\ tx' = Done(tx, s)
               /\ UNCHANGED deferral
            \/ /\ s \notin escaped
               /\ Len(box) >= BoxCap
               /\ deferral' = s
               /\ UNCHANGED <<tx, escaped, memVars>>
    /\ UNCHANGED <<log, acked, db, loopVars, served, runs, registryVars,
                   compatVars, upgraded, hit>>

(* A response without a waiter: a waiter that has appeared since gets it,   *)
(* else it is buffered, and a route with a dispatcher moves it on.          *)
DispatchResponse ==
    /\ \E s \in Seqs :
         /\ Dispatching(s)
         /\ Kind(s) \in Responses
         /\ \/ /\ reg.waiter
               /\ answered' = answered \cup {s}
               /\ promise' = IF promise = "open" THEN "response" ELSE promise
               /\ tx' = Done(tx, s)
               /\ UNCHANGED reg
            \/ /\ ~reg.waiter
               /\ tx' = Done(IF Kind(s) = "durable_response" THEN Enqueue(tx, s)
                             ELSE tx, s)
               /\ reg' = [reg EXCEPT !.pending = Kind(s) = "response"]
               /\ UNCHANGED <<answered, promise>>
    /\ UNCHANGED <<log, acked, db, loopVars, escaped, deferral, memVars,
                   served, runs, caller, sends, compatVars, upgraded, hit>>

(* The fold gives up: its writes are gone, what escaped it is not.          *)
Abandon ==
    /\ tx' = NoTx
    /\ escaped' = {}
    /\ deferral' = 0
    /\ copies' = [s \in Seqs |-> 0]
    /\ part' = NoBatch
    /\ pc' = "top"

(* quarantinePoison keeps what no adapter reads, and an occurrence id whose *)
(* payload changed, as evidence; with no room for it the fold fails.        *)
QuarantinePoison ==
    /\ \E s \in Seqs :
         /\ Dispatching(s)
         /\ \/ ~Readable(s)
            \/ Kind(s) \in {"event", "poison"} /\ Mismatch(tx, s)
         /\ IF QuarantineFull(tx, s)
            THEN Abandon
            ELSE /\ tx' = Done(QuarantineIngress(tx, s), s)
                 /\ UNCHANGED <<escaped, deferral, copies, part, pc>>
    /\ UNCHANGED <<log, acked, db, ack, dirty, redrive, box, told, served,
                   runs, registryVars, compatVars, upgraded, hit>>

\* Mutant: a full mailbox fails the whole batch.
CommitFold_allOrNothing ==
    /\ pc = "fold"
    /\ deferral # 0 \/ tx.todo = {}
    /\ IF deferral # 0
       THEN Abandon /\ UNCHANGED <<ack, db, dirty, redrive>>
       ELSE /\ ack' = Committed(ack, part.next)
            /\ db' = [ack |-> Committed(ack, part.next), inbox |-> tx.inbox,
                      receipts |-> tx.receipts, quarantine |-> tx.quarantine]
            /\ dirty' = FALSE
            /\ redrive' = [redrive EXCEPT !.deferred = 0]
            /\ tx' = NoTx
            /\ escaped' = {}
            /\ part' = NoBatch
            /\ pc' = "top"
            /\ UNCHANGED <<deferral, copies>>
    /\ UNCHANGED <<log, acked, box, told, served, runs, registryVars,
                   compatVars, upgraded, hit>>

(* The commit: rows, receipts, evidence and the checkpoint together.        *)
CommitFold ==
    /\ pc = "fold"
    /\ deferral # 0 \/ tx.todo = {}
    /\ LET cursor == IF deferral # 0 THEN deferredCursor(deferral, ack.pull)
                     ELSE part.next
       IN  /\ ack' = Committed(ack, cursor)
           /\ db' = [ack |-> Committed(ack, cursor), inbox |-> tx.inbox,
                     receipts |-> tx.receipts, quarantine |-> tx.quarantine]
    /\ dirty' = FALSE
    /\ redrive' = [redrive EXCEPT !.deferred = deferral]
    /\ tx' = NoTx
    /\ escaped' = {}
    /\ deferral' = 0
    /\ part' = NoBatch
    /\ pc' = "top"
    /\ UNCHANGED <<log, acked, memVars, served, runs, registryVars, compatVars,
                   upgraded, hit>>

\* Mutant: the record of what escaped is made inside the closure.
ReplayFold_forgets ==
    /\ pc = "fold"
    /\ Fault("replay")
    /\ tx' = OpenTx
    /\ deferral' = 0
    /\ escaped' = {}
    /\ UNCHANGED <<log, acked, db, loopVars, memVars, served, runs,
                   registryVars, compatVars, upgraded>>

(* ExecTx runs the body again after a retryable error.                      *)
ReplayFold ==
    /\ pc = "fold"
    /\ Fault("replay")
    /\ tx' = OpenTx
    /\ deferral' = 0
    /\ UNCHANGED <<log, acked, db, loopVars, escaped, memVars, served, runs,
                   registryVars, compatVars, upgraded>>

\* Mutant: the loop goes on from the cursor that was not committed.
FailFold_adopts ==
    /\ pc = "fold"
    /\ \/ Fault("rollback")
       \/ cancel.called /\ UNCHANGED hit
    /\ Abandon
    /\ ack' = Committed(ack, part.next)
    /\ UNCHANGED <<log, acked, db, dirty, redrive, box, told, served, runs,
                   registryVars, compatVars, upgraded>>

(* Any other failure, or the loop's context ending under the transaction.   *)
FailFold ==
    /\ pc = "fold"
    /\ \/ Fault("rollback")
       \/ cancel.called /\ UNCHANGED hit
    /\ Abandon
    /\ UNCHANGED <<log, acked, db, ack, dirty, redrive, box, told, served,
                   runs, registryVars, compatVars, upgraded>>

-----------------------------------------------------------------------------
(* The in-memory target, and the process.                                   *)

TakeMessage ==
    /\ box # <<>>
    /\ box' = Tail(box)
    /\ UNCHANGED <<log, acked, db, loopVars, txVars, told, copies, served,
                   runs, registryVars, compatVars, upgraded, hit>>

(* The process dies and starts again, perhaps as a newer version: only the  *)
(* database is left.                                                        *)
Crash ==
    /\ Fault("crash")
    /\ pc' = "down"
    /\ ack' = NoCheckpoint
    /\ dirty' = FALSE
    /\ redrive' = FreshRedrive
    /\ part' = NoBatch
    /\ tx' = NoTx
    /\ escaped' = {}
    /\ deferral' = 0
    /\ box' = <<>>
    /\ copies' = [s \in Seqs |-> 0]
    /\ reg' = [waiter |-> FALSE, pending |-> FALSE]
    /\ promise' = "open"
    /\ caller' = "idle"
    /\ compat' = "compatible"
    /\ cancel' = [published |-> FALSE, called |-> FALSE]
    /\ upgraded' \in {upgraded, TRUE}
    /\ UNCHANGED <<log, acked, db, told, served, runs, answered, sends>>

-----------------------------------------------------------------------------
(* The unary caller (unary_facade.go) and the response registry.            *)

RegisterWaiter ==
    /\ reg' = [waiter |-> TRUE, pending |-> FALSE]
    /\ promise' = IF reg.pending THEN "response"
                  ELSE IF reg.waiter THEN promise ELSE "open"

RemoveWaiter == reg' = [reg EXCEPT !.waiter = FALSE]

CallerStep(from, to) ==
    /\ caller = from
    /\ caller' = to
    /\ UNCHANGED <<log, acked, db, loopVars, txVars, memVars, served, runs,
                   answered, compatVars, upgraded, hit>>

SendRPC ==
    /\ CallerStep("idle", "admitted")
    /\ compat = "compatible"
    /\ Fits(Posted, Len(log), sends + 1, hit)
    /\ UNCHANGED <<reg, promise, sends>>

Register ==
    /\ CallerStep("admitted", "sending")
    /\ RegisterWaiter
    /\ UNCHANGED sends

EdgeSend ==
    \/ /\ CallerStep("sending", "sent")
       /\ sends' = sends + 1
       /\ UNCHANGED <<reg, promise>>
    \/ /\ CallerStep("sending", "idle")
       /\ RemoveWaiter
       /\ UNCHANGED <<promise, sends>>

AwaitRPC ==
    /\ CallerStep("sent", "recheck")
    /\ RegisterWaiter
    /\ UNCHANGED sends

\* Mutant: the caller goes on to wait without looking again.
RecheckAwait_skips ==
    /\ CallerStep("recheck", "waiting")
    /\ UNCHANGED <<reg, promise, sends>>

RecheckAwait ==
    \/ /\ CallerStep("recheck", "waiting")
       /\ compat = "compatible"
       /\ UNCHANGED <<reg, promise, sends>>
    \/ /\ CallerStep("recheck", "idle")
       /\ compat # "compatible"
       /\ RemoveWaiter
       /\ UNCHANGED <<promise, sends>>

(* The future completes, or the caller's deadline ends the wait.            *)
Return ==
    /\ CallerStep("waiting", "idle")
    /\ RemoveWaiter
    /\ UNCHANGED <<promise, sends>>

(* pruneStaleLocked: waiters and buffered responses age out.                *)
PruneStale ==
    /\ reg.waiter \/ reg.pending
    /\ reg' = [waiter |-> FALSE, pending |-> FALSE]
    /\ promise' = IF reg.waiter /\ promise = "open" THEN "error" ELSE promise
    /\ UNCHANGED <<log, acked, db, loopVars, txVars, memVars, served, runs,
                   answered, caller, sends, compatVars, upgraded, hit>>

-----------------------------------------------------------------------------
(* markIncompatible: a permanent version status on any send or heartbeat.   *)

PermanentStatus ==
    /\ Fault("permanent")
    /\ compat = "compatible"
    /\ compat' = "cached"
    /\ UNCHANGED <<log, acked, db, loopVars, txVars, memVars, served, runs,
                   registryVars, cancel, upgraded>>

CancelIngress ==
    /\ compat = "cached"
    /\ compat' = "cancelled"
    /\ cancel' = [cancel EXCEPT !.called = cancel.published]
    /\ UNCHANGED <<log, acked, db, loopVars, txVars, memVars, served, runs,
                   registryVars, upgraded, hit>>

FailAll ==
    /\ compat = "cancelled"
    /\ compat' = "failed"
    /\ reg' = [reg EXCEPT !.waiter = FALSE]
    /\ promise' = IF reg.waiter /\ promise = "open" THEN "error" ELSE promise
    /\ UNCHANGED <<log, acked, db, loopVars, txVars, memVars, served, runs,
                   answered, caller, sends, cancel, upgraded, hit>>

-----------------------------------------------------------------------------
Start == StartIngress \/ PublishCancel \/ RecheckCompat \/ RetryQuarantined \/ EnterLoop

Fold == SkipEnvelope \/ DispatchDurable \/ DispatchMemory \/ DispatchResponse
        \/ QuarantinePoison \/ CommitFold \/ ReplayFold \/ FailFold

Ingress == Start \/ ExitLoop \/ ackPhase \/ PullEmpty \/ PullBatch
           \/ PullIncompatible \/ deliverWaiterResponses
           \/ dispatchNonTxRequests \/ BeginFold \/ Fold

Unary == SendRPC \/ Register \/ EdgeSend \/ AwaitRPC \/ RecheckAwait \/ Return
         \/ PruneStale

Incompatible == PermanentStatus \/ CancelIngress \/ FailAll

Next == Post \/ Ingress \/ TakeMessage \/ Crash \/ Unary \/ Incompatible

Spec == Init /\ [][Next]_vars

(* The loop never waits on anything but a long-poll, and the target's own   *)
(* loop takes its messages.                                                 *)
FairSpec == Spec /\ WF_vars(Ingress) /\ WF_vars(TakeMessage)

-----------------------------------------------------------------------------
(* ack_state.go: "ack_committed_to <= dispatch_committed_to".  Further, the *)
(* server is never asked to drop an envelope the committed checkpoint does  *)
(* not cover, whatever was lost or replayed.                                *)
AckedIsCommitted ==
    /\ acked <= db.ack.disp
    /\ db.ack.acked <= db.ack.disp
    /\ ack.acked <= ack.disp

Rows == {db.inbox[i] : i \in DOMAIN db.inbox}
EnqueuedOcc(s) == \E r \in Rows : log[r].occ = log[s].occ
Handled(s) ==
    CASE Kind(s) \in {"event", "poison"} -> s \in db.quarantine \/ EnqueuedOcc(s)
      [] Kind(s) = "memory" -> s \in told
      [] Kind(s) = "memory_poison" -> s \in db.quarantine \cup told
      [] Kind(s) = "request" -> served[s] > 0
      [] Kind(s) = "durable_response" -> s \in Rows \cup answered
      [] OTHER -> TRUE

(* runFoldedDispatch: "the cursor can never run ahead of the enqueues".     *)
(* Every envelope the committed cursor has passed reached its durable       *)
(* inbox, its waiter, its in-memory actor, the quarantine, or was answered; *)
(* in particular none is skipped because a full mailbox cut a batch short.  *)
NothingSkipped ==
    \A s \in DOMAIN log : s < db.ack.pull => Handled(s)

(* Crashes, replays, rollbacks and the server posting an occurrence again   *)
(* give a durable inbox one row per event_seq and per occurrence id, in     *)
(* event_seq order except for what came back out of quarantine.             *)
DurableOnceInOrder ==
    \A i, j \in DOMAIN db.inbox : i < j =>
        LET a == db.inbox[i]
            b == db.inbox[j]
        IN  /\ a # b
            /\ {Kind(a), Kind(b)} \subseteq {"event", "poison"} => log[a].occ # log[b].occ
            /\ a < b \/ "poison" \in {Kind(a), Kind(b)}

(* dispatch_replay.go: between two failed folds the in-memory target gets   *)
(* each envelope at most once, though the transaction is replayed and the   *)
(* cursor stalls at a full mailbox in between.                              *)
HandedOnce == \A s \in Seqs : copies[s] <= 1

(* isNonTxRequest: "A crash or a failed fold can repeat a serve; a stalled  *)
(* cursor cannot."  The watermark of redriveState bounds it further: the    *)
(* handler of a hoisted request runs again only after a restart, or after a *)
(* serve that failed.  Failed folds, replays and re-pulls repeat nothing.   *)
RunsAgainOnlyOnFailure ==
    \A s \in Seqs : runs[s] <= 1 + hit["crash"] + hit["serve"]

(* StartIngress and AwaitRPC each recheck after they register: once the     *)
(* transition to incompatible is over, no unary caller is left blocked on   *)
(* an open future and no ingress goroutine runs on a live context.          *)
IncompatibleIsFinal ==
    compat = "failed" =>
        /\ ~(caller = "waiting" /\ promise = "open")
        /\ pc \notin {"down", "loaded", "published", "stopped"} => cancel.called

(* DeleteIngressQuarantine: evidence leaves only in the commit that gives   *)
(* its event to a durable inbox.                                            *)
EvidenceKept ==
    [][\A s \in db.quarantine \ db'.quarantine :
         \E i \in DOMAIN db'.inbox : log[db'.inbox[i]].occ = log[s].occ]_vars

Rejected(s) ==
    \/ ~Readable(s)
    \/ Kind(s) = "event" /\ \E t \in 1..(s - 1) :
           log[t] # log[s] /\ Kind(t) = "event" /\ log[t].occ = log[s].occ

(* What legitimately keeps an envelope on the server: the connector is      *)
(* incompatible, or the quarantine has no room for all that the adapters    *)
(* reject ("Full storage ... fails closed and leaves the remote event       *)
(* unacknowledged"), which holds back the rest of its batch too.            *)
Held ==
    \/ compat # "compatible" \/ pc = "stopped"
    \/ \E s \in DOMAIN log : Kind(s) = "bad_version" /\ s >= ack.pull
    \/ Cardinality(db.quarantine \cup {s \in DOMAIN log : Rejected(s)}) > QuarantineCap

(* A full in-memory mailbox delays the batch and never ends it: while the   *)
(* target drains, every envelope posted is eventually acknowledged.         *)
EventuallyAcked ==
    \A s \in Seqs : (s \in DOMAIN log) ~> (acked > s \/ Held)

=============================================================================
