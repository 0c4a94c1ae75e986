----------------------------- MODULE VTXOActor ------------------------------
(***************************************************************************)
(* One VTXO through refresh rounds, unilateral exits and restarts: its     *)
(* actor (vtxo/actor.go), its row in the vtxos table, what the manager     *)
(* does for it at start (vtxo/manager.go), and the two parties the actor   *)
(* hands the coin to, seen from here: the round that collects its forfeit  *)
(* signature and the unroll job that takes it on chain.                    *)
(*                                                                         *)
(* The actor executes the outbox of a transition before it adopts the      *)
(* state, and the status write comes first.  Every write, operator-key     *)
(* fetch and notification may fail; Faults says which of them do.          *)
(***************************************************************************)
EXTENDS VTXOStates, Sequences

CONSTANTS Coins,        \* descriptors the coin may have
          Configs,      \* expiry configurations it may run under
          MaxHeight,    \* bound on the chain
          RetryDelay,   \* autoRefreshRetryDelayBlocks
          MaxCrashes,   \* bound on restarts
          MaxOutcomes,  \* bound on exit outcomes under way
          Faults,       \* subset of FaultKinds
          Triggers      \* who may ask for an exit: "auto", "manual"

FaultKinds == {"persist", "key", "template", "rollback", "notify", "read"}

ASSUME ActorAssumption ==
    /\ \A v \in Coins : v \in Descriptor /\ v.createdHeight \in Nat
    /\ Configs \subseteq Config
    /\ MaxHeight \in Nat
    /\ RetryDelay \in Nat
    /\ MaxCrashes \in Nat
    /\ MaxOutcomes \in Nat \ {0}
    /\ Faults \subseteq FaultKinds
    /\ Triggers \subseteq {"auto", "manual"}

Absent == State("absent", 0)    \* no actor is running for the coin
NoTip  == -1            \* no answer to the start-up tip query is on its way

VARIABLES v, c,         \* the descriptor and the configuration
          height,       \* the chain tip
          daemon,       \* down; starting: manager started, rounds not yet; up
          crashes,      \* restarts so far
          mem,          \* the actor's state, or Absent
          book,         \* seen: lastEpochHeight and lastObservedHeight, which
                        \* blocks raise together; retry:
                        \* autoRefreshRetryHeight; tip: the answer to the
                        \* start-up tip query, NoTip once it is used up
          row,          \* the coin's row: status, forfeit_round_id, forfeit_tx
          relay,        \* a request to put the coin into a round is under way
          rnd,          \* phase of each round, as far as this coin goes
          job,          \* the coin's row in the unroll registry
          outcomes      \* exit outcomes on their way to the manager

vars == <<v, c, height, daemon, crashes, mem, book, row, relay, rnd, job,
          outcomes>>

\* idle: not ours yet.  joined: holds the coin, in memory only.  asked: its
\* signature did not come.  signed: holds its signature too.  sent:
\* checkpointed, the operator has the signature.
\* confirmed, told: the commitment confirmed, and the coin's actor was told.
\* failed, dead: the release is under way, after a failure before the
\* checkpoint or the operator's verdict after it.  over, buried: nothing more
\* comes, and the round's row is absent or marked failed.
Phases == {"idle", "joined", "asked", "signed", "sent", "confirmed", "told",
           "failed", "dead", "over", "buried"}

\* HasForfeitRoundCheckpoint: the round has a row, whatever its status.
Checkpointed(r) == rnd[r] \in {"sent", "confirmed", "told", "dead", "buried"}

\* The operator holds the coin's forfeit signature and may use it.
Binding(r) == rnd[r] \in {"sent", "confirmed", "told"}

\* The record of the coin's exit job.  recoverable: failed with nothing on
\* chain; failed: failed with a footprint, which nobody is told about.
Outcomes == {"recoverable", "confirmed", "conflicted"}
NewBook(tip) == [seen |-> 0, retry |-> 0, tip |-> tip]

Running == daemon # "down" /\ mem # Absent

Init ==
    /\ v \in Coins
    /\ c \in Configs
    /\ height = v.createdHeight
    /\ daemon = "up"
    /\ crashes = 0
    /\ mem = State("live", v.createdHeight)
    /\ book = NewBook(height)
    /\ row = [status |-> "live", round |-> NoRound, tx |-> FALSE]
    /\ relay = FALSE
    /\ rnd = [r \in Rounds |-> "idle"]
    /\ job = "none"
    /\ outcomes = <<>>

-----------------------------------------------------------------------------
(***************************************************************************)
(* A turn of the actor.                                                    *)
(***************************************************************************)
\* processStatusUpdate: MarkForfeiting writes the round and the transaction
\* with the status; the other writes leave both columns alone.
processStatusUpdate(r, status, round) ==
    IF status = NoStatus THEN r
    ELSE IF status = "forfeiting"
    THEN [status |-> status, round |-> round, tx |-> TRUE]
    ELSE [r EXCEPT !.status = status]

Refreshes == {"refresh_leader", "refresh_solo", "refresh_member"}

\* The unroll registry admits a job unless one runs or has ended for good.
handleEnsure(j) == IF j \in {"none", "recoverable"} THEN "running" ELSE j

\* The notifications of an outbox.  A lost one is logged and forgotten.
Notify(t) ==
    /\ \/ relay' = (relay \/ t.out \cap Refreshes # {})
       \/ "notify" \in Faults /\ relay' = relay
    /\ \/ job' = IF "expiring" \in t.out THEN handleEnsure(job) ELSE job
       \/ "notify" \in Faults /\ job' = job

\* Mutant: the new state is adopted although its status was not written.
processOutbox_adopts(t) ==
    \/ /\ t.status # NoStatus
       /\ "persist" \in Faults
       /\ mem' = t.next
       /\ UNCHANGED <<row, relay, job>>
    \/ /\ mem' = t.next
       /\ row' = processStatusUpdate(row, t.status, t.next.round)
       /\ Notify(t)

\* processOutboxWithOperatorKey, then the adoption of the next state.
processOutbox(t) ==
    \/ /\ t.status # NoStatus
       /\ "persist" \in Faults
       /\ mem' = t.here
       /\ UNCHANGED <<row, relay, job>>
    \/ \* The replacement output cannot be built: the written status is rolled
       \* back, unless a cohort member was pending before and wrote none.
       /\ t.out \cap Refreshes # {}
       /\ "template" \in Faults
       /\ mem' = t.here
       /\ row' = IF \/ mem.kind = "pending_forfeit"
                    \/ "rollback" \in Faults
                 THEN processStatusUpdate(row, t.status, t.next.round)
                 ELSE [row EXCEPT !.status =
                          IF mem.kind = "expired" THEN "expired" ELSE "live"]
       /\ UNCHANGED <<relay, job>>
    \/ /\ mem' = t.next
       /\ row' = processStatusUpdate(row, t.status, t.next.round)
       /\ Notify(t)

\* recordAutomaticRefreshRelease: a released automatic refresh backs off.
recordAutomaticRefreshRelease(b, s, e) ==
    IF /\ e.type = "forfeit_released"
       /\ s.kind = "pending_forfeit"
       /\ s.height > 0
    THEN [b EXCEPT !.retry = MaxOf(s.height, b.seen) + RetryDelay]
    ELSE b

\* Receive for an event that is not a block.  A refused event changes nothing.
Receive(e) ==
    LET t == ProcessEvent(c, v, mem, e)
    IN  IF t.ok THEN processOutbox(t) ELSE UNCHANGED <<mem, row, relay, job>>

\* Receive for a forfeit release, whose outbox is a status write and no more.
ReceiveRelease(r) ==
    LET e == ForfeitReleased(r)
        t == ProcessEvent(c, v, mem, e)
    IN  \/ /\ t.ok
           /\ mem' = t.next
           /\ row' = processStatusUpdate(row, t.status, NoRound)
           /\ book' = recordAutomaticRefreshRelease(book, mem, e)
        \/ /\ ~t.ok \/ "persist" \in Faults
           /\ UNCHANGED <<mem, row, book>>

-----------------------------------------------------------------------------
(***************************************************************************)
(* Block epochs.                                                           *)
(***************************************************************************)
\* deferAutomaticRefresh: a live coin sits out its back-off, unless waiting
\* would cost it the critical threshold.
Defers(h) ==
    /\ book.retry > 0
    /\ h < book.retry
    /\ mem.kind = "live"
    /\ CheckExpiry(c, v, h) \notin {"critical", "expired"}

\* The back-off ends for good when it is over or no longer affordable.
RetryAfter(h) ==
    IF book.retry > 0 /\ (h >= book.retry \/ mem.kind = "expired"
                           \/ (mem.kind = "live" /\ ~Defers(h)))
    THEN 0
    ELSE book.retry

BookAt(h) == [book EXCEPT !.seen = MaxOf(@, h), !.retry = RetryAfter(h)]

\* preflightCriticalExit: a critical coin whose exit cannot be funded is
\* refreshed instead; the assessment may fail, which leaves the exit on.
preflightCriticalExit(h) ==
    {BlockEpoch(h)} \cup
    (IF /\ mem.kind \in {"live", "pending_forfeit"}
        /\ ~v.asset
        /\ CheckExpiry(c, v, h) = "critical"
     THEN {CriticalRefresh(h)}
     ELSE {})

\* preflightAutoRefresh asks the operator for its key before it lets the FSM
\* reserve the coin.
NeedsKey(e, due) ==
    /\ ~v.asset
    /\ \/ /\ mem.kind = "live"
          /\ due = "needs_refresh" \/ e.type = "critical_refresh"
       \/ mem.kind = "expired" /\ due = "expired"

\* ... and holds the event back while the operator's free window is not open.
HoldsBack(e, h) ==
    /\ mem.kind = "live"
    /\ e.type # "critical_refresh"
    /\ ShouldWaitForFreeRefreshWindow(c, v, h)

\* Receive for a block at height h, the book aside.
BlockTurn(h) ==
    IF Defers(h)
    THEN mem' = Seen(mem, h) /\ UNCHANGED <<row, relay, job>>
    ELSE \E e \in preflightCriticalExit(h) :
            LET t   == ProcessEvent(c, v, mem, e)
                key == NeedsKey(e, CheckExpiry(c, v, h))
            IN  \/ /\ key
                   /\ \/ "key" \in Faults /\ mem' = mem
                      \/ HoldsBack(e, h) /\ mem' = Seen(mem, h)
                   /\ UNCHANGED <<row, relay, job>>
                \/ /\ ~(key /\ HoldsBack(e, h))
                   /\ processOutbox(t)

-----------------------------------------------------------------------------
(***************************************************************************)
(* The chain.                                                              *)
(***************************************************************************)
NewBlock ==
    /\ height < MaxHeight
    /\ height' = height + 1
    /\ UNCHANGED <<v, c, daemon, crashes, mem, book, row, relay, rnd, job,
                   outcomes>>

\* A reorganisation: the actor is told of a block below one it has seen.
Reorg ==
    /\ height > v.createdHeight
    /\ height' = height - 1
    /\ UNCHANGED <<v, c, daemon, crashes, mem, book, row, relay, rnd, job,
                   outcomes>>

Epoch ==
    /\ Running
    /\ BlockTurn(height)
    /\ book' = BookAt(height)
    /\ UNCHANGED <<v, c, height, daemon, crashes, rnd, outcomes>>

\* Mutant: the answer is applied however old it is.
TipIsNews_always(h) == mem.kind \in {"live", "expired"}

\* startTipEpoch: the answer to the tip query an actor sends when it starts is
\* applied as a block, but only by a live coin and only if it is news.
TipIsNews(h) == mem.kind = "live" /\ h > book.seen

StartTip ==
    /\ Running
    /\ book.tip # NoTip
    /\ IF TipIsNews(book.tip)
       THEN /\ BlockTurn(book.tip)
            /\ book' = [BookAt(book.tip) EXCEPT !.tip = NoTip]
       ELSE /\ book' = [book EXCEPT !.tip = NoTip]
            /\ UNCHANGED <<mem, row, relay, job>>
    /\ UNCHANGED <<v, c, height, daemon, crashes, rnd, outcomes>>

-----------------------------------------------------------------------------
(***************************************************************************)
(* Rounds (round/actor.go, round/transitions.go), as this coin meets them. *)
(***************************************************************************)
\* The wallet reserves the coin for a round of its own making: the reservation
\* is acknowledged before the intent goes to the round.
ReserveForfeit ==
    /\ Running
    /\ LET t == ProcessEvent(c, v, mem, PendingForfeit)
       IN  /\ t.ok
           /\ \/ /\ mem' = t.next
                 /\ row' = processStatusUpdate(row, t.status, NoRound)
                 /\ relay' = TRUE
              \/ /\ "persist" \in Faults
                 /\ UNCHANGED <<mem, row, relay>>
    /\ UNCHANGED <<v, c, height, daemon, crashes, book, rnd, job, outcomes>>

\* The round accepts the coin as a forfeit input.
RoundJoin(r) ==
    /\ daemon = "up"
    /\ relay
    /\ rnd[r] = "idle"
    /\ rnd' = [rnd EXCEPT ![r] = "joined"]
    /\ relay' = FALSE
    /\ UNCHANGED <<v, c, height, daemon, crashes, mem, book, row, job,
                   outcomes>>

\* No round takes it, and the reservation is released without a round id
\* (releaseRejectedRefreshCohort, or the wallet after a failed registration).
RoundReject ==
    /\ daemon # "down"
    /\ relay
    /\ relay' = FALSE
    /\ IF mem = Absent THEN UNCHANGED <<mem, row, book>>
                       ELSE ReceiveRelease(NoRound)
    /\ UNCHANGED <<v, c, height, daemon, crashes, rnd, job, outcomes>>

\* The round asks for the coin's forfeit signature.  Signing may fail; the
\* signature may be lost on the way to the round.
ForfeitRequestToVTXO(r) ==
    /\ Running
    /\ rnd[r] = "joined"
    /\ \E signable \in BOOLEAN : Receive(ForfeitRequest(r, signable))
    /\ LET signed == mem' # mem /\ mem'.kind = "forfeiting"
       IN  \/ rnd' = [rnd EXCEPT ![r] = IF signed THEN "signed"
                                                ELSE "asked"]
           \/ "notify" \in Faults /\ rnd' = [rnd EXCEPT ![r] = "asked"]
    /\ UNCHANGED <<v, c, height, daemon, crashes, book, outcomes>>

\* All signatures are in: the round is checkpointed and only then are the
\* signatures sent (ForfeitSignaturesCollectingState).
RoundCheckpoint(r) ==
    /\ daemon = "up"
    /\ rnd[r] = "signed"
    /\ rnd' = [rnd EXCEPT ![r] = "sent"]
    /\ UNCHANGED <<v, c, height, daemon, crashes, mem, book, row, relay, job,
                   outcomes>>

\* Before the checkpoint a round may fail for many reasons and then releases
\* the coin; after it only the operator's verdict that the round is dead does.
RoundFail(r) ==
    /\ daemon = "up"
    /\ rnd[r] \in {"joined", "asked", "signed"}
    /\ rnd' = [rnd EXCEPT ![r] = "failed"]
    /\ UNCHANGED <<v, c, height, daemon, crashes, mem, book, row, relay, job,
                   outcomes>>

RoundDead(r) ==
    /\ daemon = "up"
    /\ rnd[r] = "sent"
    /\ rnd' = [rnd EXCEPT ![r] = "dead"]
    /\ UNCHANGED <<v, c, height, daemon, crashes, mem, book, row, relay, job,
                   outcomes>>

\* The release reaches the manager, perhaps only after retries through the
\* timeout actor (deliverForfeitRelease), and the manager asks the coin.
ReleaseForfeit(r) ==
    /\ daemon = "up"
    /\ rnd[r] \in {"failed", "dead"}
    /\ rnd' = [rnd EXCEPT ![r] = IF @ = "dead" THEN "buried" ELSE "over"]
    /\ IF mem = Absent THEN UNCHANGED <<mem, row, book>>
                       ELSE ReceiveRelease(r)
    /\ UNCHANGED <<v, c, height, daemon, crashes, relay, job, outcomes>>

\* The commitment transaction confirms, whether or not the daemon runs.
RoundConfirm(r) ==
    /\ rnd[r] = "sent"
    /\ rnd' = [rnd EXCEPT ![r] = "confirmed"]
    /\ UNCHANGED <<v, c, height, daemon, crashes, mem, book, row, relay, job,
                   outcomes>>

\* The round tells the coin's actor once.
ForfeitConfirmedToVTXO(r) ==
    /\ daemon = "up"
    /\ rnd[r] = "confirmed"
    /\ rnd' = [rnd EXCEPT ![r] = "told"]
    /\ \/ mem # Absent /\ Receive(ForfeitConfirmed)
       \/ /\ mem = Absent \/ "notify" \in Faults
          /\ UNCHANGED <<mem, row, relay, job>>
    /\ UNCHANGED <<v, c, height, daemon, crashes, book, outcomes>>

-----------------------------------------------------------------------------
(***************************************************************************)
(* Unilateral exits.                                                       *)
(***************************************************************************)
\* handleForceUnroll: an exiting coin without an actor gets one from its row.
ForceUnrollRequest(auto) ==
    /\ daemon = "up"
    /\ (IF auto THEN "auto" ELSE "manual") \in Triggers
    /\ \/ mem # Absent /\ Receive(ForceUnroll(auto)) /\ book' = book
       \/ /\ mem = Absent
          /\ row.status = "unilateral_exit"
          /\ mem' = State("unilateral_exit", 0)
          /\ book' = NewBook(height)
          /\ Notify(ToExit(State("unilateral_exit", 0), 0))
          /\ UNCHANGED row
    /\ UNCHANGED <<v, c, height, daemon, crashes, rnd, outcomes>>

\* handleTerminated: the job ends without a trace on chain, with the coin
\* swept, with a footprint but no sweep, or beaten by the operator's sweep of
\* the batch, which is possible only past its expiry.
JobEnds ==
    /\ daemon = "up"
    /\ job = "running"
    /\ Len(outcomes) < MaxOutcomes
    /\ job' \in {"recoverable", "confirmed", "failed"}
               \cup (IF height >= v.batchExpiry THEN {"conflicted"} ELSE {})
    /\ \/ outcomes' = IF job' = "failed" THEN outcomes
                                         ELSE Append(outcomes, job')
       \/ "notify" \in Faults /\ outcomes' = outcomes
    /\ UNCHANGED <<v, c, height, daemon, crashes, mem, book, row, relay, rnd>>

ExitEvent(o) == CASE o = "recoverable" -> ExitFailed
                  [] o = "confirmed"   -> ExitConfirmed
                  [] o = "conflicted"  -> ExitConflicted

\* The actor a coin without one comes back with.
Relived(o) == IF o = "recoverable" THEN State("live", v.createdHeight)
                                   ELSE State("expired", 0)

\* Without an actor the outcome acts on the row, which must still say that
\* the coin is exiting.  The actor starts before the row is written.
handleExitOutcome(o) ==
    IF mem # Absent
    THEN Receive(ExitEvent(o)) /\ UNCHANGED book
    ELSE IF row.status # "unilateral_exit"
    THEN UNCHANGED <<mem, row, relay, job, book>>
    ELSE /\ IF o = "confirmed"
            THEN UNCHANGED <<mem, book>>
            ELSE mem' = Relived(o) /\ book' = NewBook(height)
         /\ \/ row' = [row EXCEPT !.status = IF o = "confirmed" THEN "spent"
                                             ELSE Relived(o).kind]
            \/ "persist" \in Faults /\ row' = row
         /\ UNCHANGED <<relay, job>>

ExitOutcome ==
    /\ daemon # "down"
    /\ outcomes # <<>>
    /\ outcomes' = Tail(outcomes)
    /\ handleExitOutcome(Head(outcomes))
    /\ UNCHANGED <<v, c, height, daemon, crashes, rnd>>

\* handleVTXOTerminated: a terminal actor is reaped.
Reap ==
    /\ Running
    /\ IsTerminal(mem)
    /\ mem' = Absent
    /\ UNCHANGED <<v, c, height, daemon, crashes, book, row, relay, rnd, job,
                   outcomes>>

-----------------------------------------------------------------------------
(***************************************************************************)
(* Restarts.                                                               *)
(***************************************************************************)
\* Everything that is only in memory is lost, the releases on their way
\* included.
Crash ==
    /\ daemon # "down"
    /\ crashes < MaxCrashes
    /\ crashes' = crashes + 1
    /\ daemon' = "down"
    /\ mem' = Absent
    /\ book' = NewBook(NoTip)
    /\ relay' = FALSE
    /\ outcomes' = <<>>
    /\ rnd' = [r \in Rounds |->
                 CASE rnd[r] \in {"joined", "asked", "signed", "failed"}
                           -> "over"
                   [] rnd[r] = "dead" -> "buried"
                   [] OTHER -> rnd[r]]
    /\ UNCHANGED <<v, c, height, row, job>>

\* releaseOrphanedForfeits: a pending row has no owner after a restart, a
\* forfeiting one only if its round was never checkpointed.
Orphaned ==
    \/ row.status = "pending_forfeit"
    \/ row.status = "forfeiting" /\ ~Checkpointed(row.round)

OrphanRelease ==
    ForfeitReleased(IF row.status = "forfeiting" THEN row.round ELSE NoRound)

\* Manager.Start: ListRecoverableVTXOs finds neither exiting nor terminal
\* coins; those that it finds are spawned, then released if orphaned.
Start ==
    /\ daemon = "down"
    /\ daemon' = "starting"
    /\ IF row.status = "unilateral_exit"
       THEN IF job \in Outcomes THEN handleExitOutcome(job)
                                ELSE UNCHANGED <<mem, row, relay, job, book>>
       ELSE IF row.status \in {"forfeited", "spent"}
       THEN UNCHANGED <<mem, row, relay, job, book>>
       ELSE \E readable \in {TRUE, "read" \notin Faults} :
               LET s == statusToState(v, row, readable)
                   t == ProcessEvent(c, v, s, OrphanRelease)
               IN  /\ \/ /\ Orphaned
                         /\ mem' = t.next
                         /\ row' = processStatusUpdate(row, t.status, NoRound)
                      \/ /\ ~Orphaned \/ "persist" \in Faults
                         /\ mem' = s
                         /\ UNCHANGED row
                   /\ book' = NewBook(height)
                   /\ UNCHANGED <<relay, job>>
    /\ UNCHANGED <<v, c, height, crashes, rnd, outcomes>>

\* reconcileConfirmedForfeits: the row is forfeiting and its round settled.
ConfirmedForfeit ==
    /\ row.status = "forfeiting"
    /\ rnd[row.round] \in {"confirmed", "told"}
    /\ mem # Absent

\* The pass after the round actor is up (handleReconcileExpiry): orphans are
\* released again and confirmed forfeits applied; its block epoch is Epoch.
\* Then the unroll subsystem admits every exiting row that has no job.
Reconcile ==
    /\ daemon = "starting"
    /\ daemon' = "up"
    /\ \/ /\ Orphaned /\ mem # Absent
          /\ ReceiveRelease(OrphanRelease.round)
          /\ UNCHANGED <<relay, job>>
       \/ /\ ConfirmedForfeit
          /\ Receive(ForfeitConfirmed)
          /\ UNCHANGED book
       \/ /\ ~(Orphaned /\ mem # Absent)
          /\ ~ConfirmedForfeit
          /\ job' = IF row.status = "unilateral_exit" THEN handleEnsure(job)
                                                      ELSE job
          /\ UNCHANGED <<mem, book, row, relay>>
    /\ UNCHANGED <<v, c, height, crashes, rnd, outcomes>>

Next ==
    \/ NewBlock \/ Reorg \/ Epoch \/ StartTip
    \/ ReserveForfeit \/ RoundReject
    \/ \E r \in Rounds : \/ RoundJoin(r) \/ ForfeitRequestToVTXO(r)
                         \/ RoundCheckpoint(r) \/ RoundFail(r) \/ RoundDead(r)
                         \/ ReleaseForfeit(r) \/ RoundConfirm(r)
                         \/ ForfeitConfirmedToVTXO(r)
    \/ \E auto \in BOOLEAN : ForceUnrollRequest(auto)
    \/ JobEnds \/ ExitOutcome \/ Reap
    \/ Crash \/ Start \/ Reconcile

Spec == Init /\ [][Next]_vars

\* A stopped daemon is started again and its start-up completes.  A release is
\* retried until the manager takes it (deliverForfeitRelease), and the round
\* actor tells of a confirmation it has seen.
Fairness ==
    /\ WF_vars(Start) /\ WF_vars(Reconcile)
    /\ \A r \in Rounds : /\ WF_vars(ReleaseForfeit(r))
                         /\ WF_vars(ForfeitConfirmedToVTXO(r))

FairSpec == Spec /\ Fairness

-----------------------------------------------------------------------------
(***************************************************************************)
(* Properties.                                                             *)
(***************************************************************************)
\* While the operator holds a forfeit signature it may use, the coin is not on
\* offer again: neither the actor nor its row makes it available for another
\* round, a payment, or a fresh exit (ForfeitingState.ProcessEvent).
Available == {"live", "pending_forfeit", "spending", "expired"}

SignedIsHeld ==
    (\E r \in Rounds : Binding(r)) =>
        /\ row.status \notin Available
        /\ mem.kind \notin Available

\* A coin does not enter a unilateral exit while the operator holds its
\* signature: the critical threshold and a late automatic trigger both give
\* way, also after a restart, when only the stored forfeit transaction tells
\* (forfeitSignatureIssued).
NoExitAfterSignature ==
    [][row.status # "unilateral_exit" /\ row'.status = "unilateral_exit"
         => ~\E r \in Rounds : Binding(r)]_vars

\* The durable status follows the actor: an actor adopts a state only after
\* its status is written.  A coin brought back from an exit is the exception;
\* its actor starts first and the row may still say that it is exiting.
RowFollowsActor ==
    Running => \/ row.status = mem.kind
               \/ /\ row.status = "unilateral_exit"
                  /\ mem.kind \in {"live", "expired"}

\* An expired coin becomes live again only if the tip says that its batch has
\* not expired; an old answer to the start-up tip query cannot do it
\* (startTipEpoch).
NoStaleRevival ==
    [][mem.kind = "expired" /\ mem'.kind = "live"
         => CheckExpiry(c, v, height) # "expired"]_vars

\* The operator's verdict that a round is dead frees its coins: "Reservations
\* remain held until delivery; restart uses the existing orphan-forfeit sweep"
\* (round/manager_cleanup.go).
DeadRoundReleases ==
    \A r \in Rounds :
        (/\ row.status = "forfeiting" /\ row.round = r
         /\ rnd[r] \in {"dead", "buried"})
            ~> row.status # "forfeiting"

=============================================================================
