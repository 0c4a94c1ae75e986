------------------------------ MODULE RoundFSM ------------------------------
(***************************************************************************)
(* The state machine of one round (round/transitions.go and                *)
(* round/admission_timeout.go).  A round carries at most one boarding      *)
(* deposit (dep), one VTXO to forfeit (coin), outputs that become VTXOs    *)
(* (vtxos) and a leave output (leave); tells says that the state still     *)
(* knows which VTXOs it forfeits (ForfeitedVTXOs).                         *)
(*                                                                         *)
(* ProcessEvent gives the state an event leads to, once the internal       *)
(* events it raises are used up, and the outbox.  States that only         *)
(* internal events leave (QuoteReceived, CommitmentTxReceived,             *)
(* CommitmentTxValidated, NoncesAggregated) are passed within one event.   *)
(* The writes a transition makes itself lead its outbox.                   *)
(***************************************************************************)
EXTENDS Naturals, Sequences

CONSTANTS
    Rounds,     \* the identities the operator gives to rounds
    NoRound,
    MaxPass     \* seal passes of one round

States == {"idle", "assembly", "intent_sent", "joined", "nonces_sent",
           "partial_sent", "collecting", "input_sig_sent", "confirmed",
           "failed", "torn"}

\* torn is a machine that an error took down.
RoundState ==
    [st: States, dep: BOOLEAN, coin: BOOLEAN, vtxos: BOOLEAN,
     leave: BOOLEAN, tells: BOOLEAN, round: Rounds \cup {NoRound},
     late: BOOLEAN, pass: 0..MaxPass]

Idle == [st |-> "idle", dep |-> FALSE, coin |-> FALSE, vtxos |-> FALSE,
         leave |-> FALSE, tells |-> FALSE, round |-> NoRound,
         late |-> FALSE, pass |-> 0]

\* The states before the checkpoint whose events pass the admission budget.
PreCheckpoint == {"intent_sent", "joined", "nonces_sent", "partial_sent",
                  "collecting"}

\* An event: round is the round it names, pass a seal pass, ok says that its
\* checks succeed, stored that what follows them does (a write, the signing
\* sessions, a quote still open when it is accepted), and pkg is what a package
\* adds.
Nothing == [dep |-> FALSE, coin |-> FALSE, vtxos |-> FALSE, leave |-> FALSE]
Event(type) == [type |-> type, round |-> NoRound, pass |-> 0, ok |-> TRUE,
                stored |-> TRUE, pkg |-> Nothing]
Package(p) == [Event("package") EXCEPT !.pkg = p]

\* The outbox, in order.  A message is a kind and what it concerns.
Server(m) == <<"server", m>>
Join      == <<"join", "round">>
Query     == <<"query", "round">>
Start(p)  == <<"start", p>>
Cancel(p) == <<"cancel", p>>
Local(m)  == <<m, "round">>

Moved(f, st, out) == [next |-> [f EXCEPT !.st = st], out |-> out, err |-> FALSE]
selfLoop(f) == Moved(f, f.st, <<>>)
Torn(f) == [next |-> [f EXCEPT !.st = "torn"], out |-> <<>>, err |-> TRUE]

-----------------------------------------------------------------------------
(***************************************************************************)
(* Failures before the checkpoint.  Rollback leads the outbox, since a     *)
(* later message may fail and end its processing.                          *)
(***************************************************************************)
rollbackOutbox(f) == IF f.coin THEN <<Local("release")>> ELSE <<>>


releaseForfeitsOnFailure(f, out) == Moved(f, "failed", rollbackOutbox(f) \o out)

failWithNotification(f) == releaseForfeitsOnFailure(f, <<Local("failed")>>)

\* A bare error is turned into a failure only if there is something to release.
RawError(f) == IF f.coin THEN failWithNotification(f) ELSE Torn(f)

-----------------------------------------------------------------------------
(***************************************************************************)
(* Assembly and admission.                                                 *)
(***************************************************************************)
Merge(f, p) == [f EXCEPT !.st = "assembly", !.dep = @ \/ p.dep,
                         !.coin = @ \/ p.coin, !.vtxos = @ \/ p.vtxos,
                         !.leave = @ \/ p.leave]

IdleState(f, e) ==
    IF e.type = "package"
    THEN [next |-> Merge(f, e.pkg), out |-> <<>>, err |-> FALSE]
    ELSE selfLoop(f)

\* pass 1 stands for a scheduled slot that is still ahead.
IntentRequested(f, e) ==
    CASE ~e.ok -> failWithNotification(f)
      [] e.ok /\ e.pass = 1 -> Moved(f, "assembly", <<Start("scheduled")>>)
      [] OTHER -> Moved(f, "intent_sent",
                        <<Join, Start("registration")>>)

PendingRoundAssembly(f, e) ==
    CASE e.type = "package" -> IdleState(f, e)
      [] e.type = "requested" -> IntentRequested(f, e)
      [] e.type = "boarding_failed" -> releaseForfeitsOnFailure(f, <<>>)
      [] OTHER -> selfLoop(f)

\* Only a later seal pass reopens a quote that was accepted.
Reseals(f, e) == e.pass > f.pass

\* QuoteReceivedState, with the decision of evaluateQuote.
Quoted(f, e) ==
    LET g == [f EXCEPT !.pass = e.pass]
    IN  CASE ~e.ok -> releaseForfeitsOnFailure(g, <<Server("reject")>>)
          [] e.ok /\ ~e.stored -> failWithNotification(g)
          [] OTHER -> Moved(g, "joined", <<Server("accept")>>)

\* The budget is stored before the registration timeout is cancelled.
Admitted(f, e) ==
    IF ~e.ok THEN failWithNotification(f)
    ELSE [next |-> [f EXCEPT !.round = e.round],
          out |-> <<Start("admission"), Cancel("registration")>>,
          err |-> FALSE]

IntentSentState(f, e) ==
    CASE e.type = "round_joined" -> Admitted(f, e)
      [] e.type = "registration_timed_out" ->
            IF f.round # NoRound THEN selfLoop(f) ELSE failWithNotification(f)
      [] e.type = "quote" ->
            IF f.round # NoRound THEN Quoted(f, e) ELSE failWithNotification(f)
      [] e.type = "boarding_failed" -> failWithNotification(f)
      [] OTHER -> selfLoop(f)

-----------------------------------------------------------------------------
(***************************************************************************)
(* The signing ceremony.                                                   *)
(***************************************************************************)
\* The requests for the forfeit signatures, and their timeout before them.
transitionToForfeitCollection(f) ==
    Moved(f, "collecting", <<Start("forfeit"), Local("ask")>>)

\* Without new VTXOs there is no tree to sign.
CommitmentTxValidatedState(f, e) ==
    CASE ~f.vtxos -> transitionToForfeitCollection(f)
      [] f.vtxos /\ ~e.stored -> RawError(f)
      [] OTHER -> Moved(f, "nonces_sent", <<Server("nonces")>>)

CommitmentTxReceivedState(f, e) ==
    IF e.ok THEN CommitmentTxValidatedState(f, e) ELSE failWithNotification(f)

RoundJoinedState(f, e) ==
    CASE e.type = "commitment" -> CommitmentTxReceivedState(f, e)
      [] e.type = "quote" -> IF Reseals(f, e) THEN Quoted(f, e) ELSE selfLoop(f)
      [] e.type = "boarding_failed" -> releaseForfeitsOnFailure(f, <<>>)
      [] OTHER -> selfLoop(f)

NoncesAggregatedState(f, e) ==
    IF e.stored THEN Moved(f, "partial_sent", <<Server("partial")>>)
    ELSE RawError(f)

NoncesSentState(f, e) ==
    CASE e.type = "nonces_aggregated" ->
            IF e.ok THEN NoncesAggregatedState(f, e) ELSE RawError(f)
      [] e.type = "boarding_failed" -> releaseForfeitsOnFailure(f, <<>>)
      [] OTHER -> selfLoop(f)

Signatures(f) == (IF f.coin THEN <<Server("vsigs")>> ELSE <<>>)
                    \o (IF f.dep THEN <<Server("bsigs")>> ELSE <<>>)

\* Mutant: the reconcile clock is armed after the signatures are sent.
CheckpointOutbox_armedLast(f) ==
    (IF f.coin THEN <<Cancel("forfeit")>> ELSE <<>>) \o Signatures(f)
        \o <<Start("reconcile"), Local("watch"), Local("checkpointed")>>

CheckpointOutbox(f) ==
    (IF f.coin THEN <<Cancel("forfeit")>> ELSE <<>>)
        \o <<Start("reconcile")>> \o Signatures(f)
        \o <<Local("watch"), Local("checkpointed")>>

\* CommitState precedes every signature that leaves the client.
Checkpoint(f, stored) ==
    IF ~stored THEN RawError(f)
    ELSE [next |-> [f EXCEPT !.st = "input_sig_sent", !.tells = f.coin],
          out |-> <<Local("commit")>> \o CheckpointOutbox(f),
          err |-> FALSE]

PartialSigsSentState(f, e) ==
    CASE e.type = "operator_signed" ->
            IF ~e.ok THEN releaseForfeitsOnFailure(f, <<>>)
            ELSE IF f.coin THEN transitionToForfeitCollection(f)
            ELSE Checkpoint(f, e.stored)
      [] e.type = "boarding_failed" -> releaseForfeitsOnFailure(f, <<>>)
      [] OTHER -> selfLoop(f)

ForfeitSignaturesCollectingState(f, e) ==
    CASE e.type = "forfeit_signature" -> Checkpoint(f, e.ok /\ e.stored)
      [] e.type \in {"boarding_failed", "forfeit_timed_out"} ->
            releaseForfeitsOnFailure(f, <<Cancel("forfeit")>>)
      [] OTHER -> selfLoop(f)

-----------------------------------------------------------------------------
(***************************************************************************)
(* After the checkpoint.                                                   *)
(***************************************************************************)
statusReconcileProbeOutbox == <<Query, Start("reconcile")>>

\* Mutant: a failure that is delivered releases the VTXO.
DeliveredFailure_releases(f) ==
    releaseForfeitsOnFailure(f, <<Cancel("reconcile")>>)

\* With a forfeit signature out, a failure is only parked and checked; a round
\* without one fails here, but is not retired.
DeliveredFailure(f) ==
    IF f.coin
    THEN Moved(f, f.st, statusReconcileProbeOutbox)
    ELSE Moved(f, "failed", <<Cancel("reconcile")>>)

\* The round failed for certain.
Dead(f) ==
    releaseForfeitsOnFailure(f, <<Local("failed"), Cancel("reconcile")>>)

Confirmed(f) ==
    Moved(f, "confirmed",
          (IF f.vtxos THEN <<Local("save")>> ELSE <<>>)
             \o <<Local("created"), Local("completed")>>
             \o (IF f.tells THEN <<Local("forfeited")>> ELSE <<>>)
             \o <<Cancel("reconcile")>>)

InputSigSentState(f, e) ==
    CASE e.type = "boarding_failed" -> DeliveredFailure(f)
      [] e.type = "reconcile_timed_out" ->
            Moved(f, f.st, statusReconcileProbeOutbox)
      [] e.type = "status" -> IF e.ok THEN selfLoop(f) ELSE Dead(f)
      [] e.type = "boarding_confirmed" ->
            IF ~e.ok THEN Moved(f, "failed", <<Cancel("reconcile")>>)
            ELSE IF ~e.stored THEN Torn(f)
            ELSE Confirmed(f)
      [] OTHER -> selfLoop(f)

-----------------------------------------------------------------------------
\* Mutant: the budget covers the round only until its first quote.
OverBudget_unquoted(f) == f.round # NoRound /\ f.late /\ f.st = "intent_sent"

\* processPreCheckpointEvent: whatever the event, an expired budget ends it.
OverBudget(f) == f.round # NoRound /\ f.late /\ f.st \in PreCheckpoint

ProcessEvent(f, e) ==
    CASE OverBudget(f) -> failWithNotification(f)
      [] f.st = "idle" -> IdleState(f, e)
      [] f.st = "assembly" -> PendingRoundAssembly(f, e)
      [] f.st = "intent_sent" /\ ~OverBudget(f) -> IntentSentState(f, e)
      [] f.st = "joined" /\ ~OverBudget(f) -> RoundJoinedState(f, e)
      [] f.st = "nonces_sent" /\ ~OverBudget(f) -> NoncesSentState(f, e)
      [] f.st = "partial_sent" /\ ~OverBudget(f) -> PartialSigsSentState(f, e)
      [] f.st = "collecting" /\ ~OverBudget(f) ->
            ForfeitSignaturesCollectingState(f, e)
      [] f.st = "input_sig_sent" -> InputSigSentState(f, e)
      [] f.st = "failed" -> IF e.type = "package" THEN IdleState(Idle, e)
                            ELSE selfLoop(f)
      [] f.st = "confirmed" -> selfLoop(f)
      [] f.st = "torn" -> Torn(f)
=============================================================================
