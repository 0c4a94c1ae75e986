----------------------------- MODULE UnrollPlan -----------------------------
(***************************************************************************)
(* The pure half of a unilateral exit: the planner of package unrollplan   *)
(* and the job state machine of unroll/fsm_logic.go.  Nothing here does    *)
(* I/O: an event is applied to the job (Apply), the job is validated and   *)
(* planned, and the phase and the effects to route are read off the plan   *)
(* (Derive).  A proof p is a record:                                       *)
(*   nodes       the transactions of the recovery proof                    *)
(*   inputs      the outpoints each node spends; the output of a node that *)
(*               a later node spends is named by the node                  *)
(*   target      the node that carries the VTXO                            *)
(*   checkpoints the nodes of kind checkpoint                              *)
(*   delay       the CSV delay of the target;  margin  the fraud margin    *)
(***************************************************************************)
EXTENDS Integers, Sequences, FiniteSets

CONSTANTS
    NoTx,               \* fn.None of a txid
    MaxSweepAttempts    \* maxSweepAttempts

ASSUME AttemptsAssumption == MaxSweepAttempts \in Nat \ {0}

None == -1   \* fn.None of a height

(* The in-proof parents and children of a node, and the inputs from outside. *)
Parents(p, n) == p.inputs[n] \cap p.nodes
Children(p, n) == {c \in p.nodes : n \in p.inputs[c]}
RootExternalInputs(p) == UNION {p.inputs[n] : n \in p.nodes} \ p.nodes

---------------------------------------------------------------------------
(* JobState: the durable part of the job that its decisions read. *)

Idle ==
    [started |-> FALSE, height |-> 0, fraud |-> FALSE,
     confirmed |-> {}, inflight |-> {}, deferred |-> {},
     targetHeight |-> None,
     sweep |-> "pending", sweepTxid |-> NoTx, sweepHeight |-> None,
     attempts |-> 0, rejected |-> NoTx, repriceAfter |-> 0,
     retrySame |-> FALSE, fail |-> "", conflicted |-> FALSE]

Higher(a, b) == IF a > b THEN a ELSE b

MaturityHeight(p, job) == job.targetHeight + p.delay

(* validateSweepState: the three stages of the sweep. *)
validateSweepState(p, job) ==
    /\ job.sweepTxid \notin p.nodes
    /\ CASE job.sweep = "pending" ->
                job.sweepTxid = NoTx /\ job.sweepHeight = None
         [] job.sweep = "broadcasted" ->
                /\ job.sweepTxid # NoTx /\ job.sweepHeight = None
                /\ p.target \in job.confirmed
         [] job.sweep = "confirmed" ->
                /\ job.sweepTxid # NoTx
                /\ p.target \in job.confirmed
                /\ job.sweepHeight >= MaturityHeight(p, job)

(* State.Validate: the planner refuses to plan against anything else. *)
Validate(p, job) ==
    /\ job.confirmed \cap job.inflight = {}
    /\ job.confirmed \cup job.inflight \subseteq p.nodes
    /\ (job.targetHeight # None) <=> (p.target \in job.confirmed)
    /\ validateSweepState(p, job)
    /\ \A n \in job.confirmed \cup job.inflight :
            Parents(p, n) \subseteq job.confirmed

(* validateDeferredCheckpoints *)
validateDeferred(p, job) ==
    \A d \in job.deferred : /\ d.tx \in p.checkpoints
                            /\ d.tx \notin job.confirmed \cup job.inflight

(* Plan: the frontier, the maturity of the target, and what follows. *)
Ready(p, job) ==
    {n \in p.nodes \ (job.confirmed \cup job.inflight) :
        Parents(p, n) \subseteq job.confirmed}
CSVReady(p, job) == job.height >= MaturityHeight(p, job)
NeedSweep(p, job) == /\ p.target \in job.confirmed
                     /\ CSVReady(p, job)
                     /\ job.sweep = "pending"
Done(job) == job.sweep = "confirmed"

---------------------------------------------------------------------------
(* Applying one event to the job.  An event is a record; the fields an     *)
(* event has depend on its kind.                                           *)

(* Mutant: the confirmation of a sweep only moves the height. *)
applyConfirmed_height(p, job, tx, height) ==
    [job EXCEPT !.confirmed = @ \cup ({tx} \cap p.nodes),
                !.inflight = @ \ {tx},
                !.deferred = {d \in @ : d.tx # tx},
                !.targetHeight = IF tx = p.target /\ @ = None
                                 THEN height ELSE @,
                !.height = Higher(@, height)]

applyConfirmed(p, job, tx, height) ==
    IF job.sweepTxid = tx
    THEN [job EXCEPT !.sweep = "confirmed", !.sweepHeight = height,
                     !.height = Higher(@, height)]
    ELSE [job EXCEPT !.confirmed = @ \cup {tx},
                     !.inflight = @ \ {tx},
                     !.deferred = {d \in @ : d.tx # tx},
                     !.targetHeight = IF tx = p.target /\ @ = None
                                      THEN height ELSE @,
                     !.height = Higher(@, height)]

(* applySweepBuildFailed: one attempt of the budget, then terminal. *)
applySweepBuildFailed(job, reason) ==
    IF job.attempts + 1 >= MaxSweepAttempts
    THEN [job EXCEPT !.attempts = @ + 1, !.fail = reason]
    ELSE [job EXCEPT !.attempts = @ + 1,
                     !.sweep = "pending", !.sweepTxid = NoTx]

applyFailed(job, tx, class, retrySame) ==
    CASE job.rejected # NoTx /\ job.rejected = tx -> job
      [] /\ job.sweepTxid = tx
         /\ ~(job.rejected # NoTx /\ job.rejected = tx) ->
            IF class = "fee" \/ retrySame
            THEN [job EXCEPT
                    !.rejected = IF @ = NoTx THEN tx ELSE @,
                    !.repriceAfter = IF job.rejected = NoTx
                                     THEN job.height ELSE @,
                    !.retrySame = IF job.rejected = NoTx
                                  THEN class # "fee" ELSE @,
                    !.sweep = "pending", !.sweepTxid = NoTx]
            ELSE applySweepBuildFailed(job, "sweep")
      [] OTHER ->
            [job EXCEPT !.inflight = @ \ {tx},
                        !.deferred = {d \in @ : d.tx # tx},
                        !.fail = "proof"]

(* The event switch of processEventWithJob; Resume and Start on Idle build *)
(* the job (Idle.ProcessEvent).                                            *)
Apply(p, job, e) ==
    CASE e.kind \in {"resume", "height"} ->
            [job EXCEPT !.started = TRUE, !.height = Higher(@, e.height)]
      [] e.kind = "start" ->
            [job EXCEPT !.started = TRUE, !.height = Higher(@, e.height),
                        !.fraud = e.fraud]
      [] e.kind = "confirmed" -> applyConfirmed(p, job, e.tx, e.height)
      [] e.kind = "failed" -> applyFailed(job, e.tx, e.class, e.retrySame)
      [] e.kind = "sweep_broadcasted" ->
            [job EXCEPT !.rejected = NoTx, !.repriceAfter = 0,
                        !.retrySame = FALSE,
                        !.sweep = "broadcasted", !.sweepTxid = e.tx]
      [] e.kind = "sweep_build_failed" -> applySweepBuildFailed(job, "sweep")
      [] e.kind = "fail" ->
            [job EXCEPT !.fail = "spent", !.conflicted = e.conflict]

---------------------------------------------------------------------------
(* Deriving the phase and the effects. *)

checkpointBackstopHeight(p, base) ==
    base + p.delay - (IF p.delay <= p.margin THEN p.delay \div 2
                                             ELSE p.margin)

(* readyMaterializationTxids: what to submit now, and what a fraud exit    *)
(* leaves to the operator until its deadline.                              *)
HeldBack(p, job) == IF job.fraud THEN Ready(p, job) \cap p.checkpoints ELSE {}
DeferredTxs(job) == {d.tx : d \in job.deferred}
NewDeferrals(p, job, anchor) ==
    LET deadline == checkpointBackstopHeight(p, anchor)
    IN  IF deadline <= job.height THEN {}
        ELSE {[tx |-> n, deadline |-> deadline] :
                n \in HeldBack(p, job) \ DeferredTxs(job)}
StillDeferred(job) == {d \in job.deferred : job.height < d.deadline}
SubmitNow(p, job, anchor) ==
    Ready(p, job) \ {d.tx : d \in StillDeferred(job)
                                    \cup NewDeferrals(p, job, anchor)}

(* An effect that carries several transactions is routed one by one. *)
Effect(kind, tx) == [kind |-> kind, tx |-> tx]
InSomeOrder(txs) ==
    CHOOSE order \in [1 .. Cardinality(txs) -> txs] :
        \A i, j \in DOMAIN order : order[i] = order[j] => i = j
Effects(kind, txs) ==
    [i \in 1 .. Cardinality(txs) |-> Effect(kind, InSomeOrder(txs)[i])]

(* On a reissue every subscription the checkpoint knows is armed again. *)
Reissue(job) ==
    Effects("ensure", job.inflight)
        \o (IF job.sweep = "broadcasted" THEN <<Effect("resweep", NoTx)>>
                                         ELSE <<>>)
        \o Effects("watch", DeferredTxs(job))

Phase(p, job) ==
    CASE ~job.started -> "idle"
      [] job.started /\ job.fail # "" -> "failed"
      [] job.started /\ job.fail = "" /\ Done(job) -> "completed"
      [] job.started /\ job.fail = "" /\ job.sweep = "broadcasted" ->
            "awaiting_sweep_confirmation"
      [] job.started /\ job.fail = "" /\ NeedSweep(p, job) ->
            "awaiting_sweep_broadcast"
      [] job.started /\ job.fail = "" /\ job.sweep = "pending"
            /\ p.target \in job.confirmed /\ ~CSVReady(p, job) ->
            "awaiting_csv"
      [] OTHER -> "awaiting_materialization"
Terminal(p, job) == Phase(p, job) \in {"completed", "failed"}

(* deriveStateTransition, on a job that passed the checks of Accepted. *)
Derive(p, job, reissue, anchor) ==
    LET again == IF reissue THEN Reissue(job) ELSE <<>>
        submit == SubmitNow(p, job, anchor)
        new == NewDeferrals(p, job, anchor)
    IN  CASE Phase(p, job) = "failed" -> [job |-> job, outbox |-> <<>>]
          [] Phase(p, job) = "awaiting_sweep_broadcast" ->
                [job |-> job,
                 outbox |-> again \o
                    (IF job.rejected = NoTx \/ job.height > job.repriceAfter
                     THEN <<Effect("sweep", NoTx)>> ELSE <<>>)]
          [] Phase(p, job) = "awaiting_materialization" ->
                [job |-> [job EXCEPT !.inflight = @ \cup submit,
                                     !.deferred = {d \in @ : d.tx \notin submit}
                                                    \cup new],
                 outbox |-> again \o Effects("watch", {d.tx : d \in new})
                                  \o Effects("ensure", submit)]
          [] OTHER -> [job |-> job, outbox |-> again]

(* The events a state takes without tearing the machine down: Idle takes   *)
(* Start and Resume, a terminal state nothing, and the job an event leads  *)
(* to must pass both validations.                                          *)
Accepted(p, job, e) ==
    /\ job.started \/ e.kind \in {"start", "resume"}
    /\ ~Terminal(p, job)
    /\ \E next \in {Apply(p, job, e)} :
        /\ ~(next.fraud /\ p.delay = 0)
        /\ validateDeferred(p, next)
        /\ Validate(p, next)

(* The turn of the machine on an accepted event, as the set that holds it. *)
ProcessEvent(p, job, e) ==
    {Derive(p, next, e.kind = "resume",
            IF e.kind = "confirmed" THEN e.height ELSE next.height) :
        next \in {Apply(p, job, e)}}

(* Mutant: only a confirmation counts. *)
Footprint_confirmed(job) == job.confirmed # {}

(* jobHadOnChainFootprint *)
Footprint(job) ==
    job.confirmed # {} \/ job.inflight # {} \/ job.sweep # "pending"

=============================================================================
