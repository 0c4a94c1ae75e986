----------------------------- MODULE VTXOStates -----------------------------
(***************************************************************************)
(* The state machine of one VTXO (vtxo/transitions.go).  Each state's      *)
(* ProcessEvent is an operator of the configuration c, the descriptor v,   *)
(* the state s and the event e; its value is the transition: the next      *)
(* state and the outbox the actor executes before it adopts that state.    *)
(*                                                                         *)
(* What a handler computes for a message (forfeit transaction, signatures, *)
(* reasons, fees) is abstracted to the message's name.  A signing failure  *)
(* is an input of the event (e.signable), since it depends on keys and     *)
(* scripts.  ResumeVTXOEvent, ForfeitSignedEvent and VTXOFailedEvent have   *)
(* no sender in the program and are left out, and with the last one        *)
(* FailedState.                                                            *)
(***************************************************************************)
EXTENDS VTXOExpiry

CONSTANTS Rounds,       \* round ids
          NoRound       \* the empty round id

ASSUME NoRoundAssumption == NoRound \notin Rounds

Kinds == {"live", "pending_forfeit", "forfeiting", "forfeited", "spending",
          "spent", "unilateral_exit", "expired"}

\* height is LastCheckedHeight, RequestedAtHeight or ObservedHeight, whichever
\* the state has; round is NewRoundID; issued stands for ForfeitTxID and
\* ForfeitTx, one of them set.
VTXOState == [kind: Kinds, height: Int, round: Rounds \cup {NoRound},
              issued: BOOLEAN]

State(kind, h) == [kind |-> kind, height |-> h, round |-> NoRound,
                   issued |-> FALSE]

Forfeiting(h, r, issued) ==
    [kind |-> "forfeiting", height |-> h, round |-> r, issued |-> issued]

Forfeited(r) ==
    [kind |-> "forfeited", height |-> 0, round |-> r, issued |-> FALSE]

IsTerminal(s) == s.kind \in {"forfeited", "spent"}

forfeitSignatureIssued(s) == s.issued

-----------------------------------------------------------------------------
(***************************************************************************)
(* Events.                                                                 *)
(***************************************************************************)
Event(type) == [type |-> type, height |-> 0, round |-> NoRound,
                auto |-> FALSE, signable |-> TRUE]

BlockEpoch(h)       == [Event("block_epoch") EXCEPT !.height = h]
CriticalRefresh(h)  == [Event("critical_refresh") EXCEPT !.height = h]
SpendReserve        == Event("spend_reserve")
SpendCompleted      == Event("spend_completed")
SpendReleased       == Event("spend_released")
PendingForfeit      == Event("pending_forfeit")
ForfeitReleased(r)  == [Event("forfeit_released") EXCEPT !.round = r]
ForfeitConfirmed    == Event("forfeit_confirmed")
ExitFailed          == Event("exit_failed")
ExitConfirmed       == Event("exit_confirmed")
ExitConflicted      == Event("exit_conflicted")

\* auto: the trigger is UnrollTriggerCriticalExpiry.
ForceUnroll(auto)   == [Event("force_unroll") EXCEPT !.auto = auto]

ForfeitRequest(r, signable) ==
    [Event("forfeit_request") EXCEPT !.round = r, !.signable = signable]

-----------------------------------------------------------------------------
(***************************************************************************)
(* Transitions.  here is the old state with the fields the handler assigns *)
(* in place: it is what stays if the outbox fails.  status is the durable  *)
(* status the outbox writes, NoStatus for none; release says that the      *)
(* write also deletes the spending reservation row; out holds the other    *)
(* outbox messages.                                                        *)
(***************************************************************************)
NoStatus == "none"

Stay(s) == [ok |-> TRUE, here |-> s, next |-> s, status |-> NoStatus,
            release |-> FALSE, out |-> {}]

Refuse(s) == [Stay(s) EXCEPT !.ok = FALSE]

Move(s, next, status, out) ==
    [Stay(s) EXCEPT !.next = next, !.status = status, !.out = out]

MoveReleasing(s, next, status, out) ==
    [Move(s, next, status, out) EXCEPT !.release = TRUE]

ToExit(s, h) == Move(s, State("unilateral_exit", h), "unilateral_exit",
                     {"expiring"})

stateAfterForfeitRelease(c, v, lastHeight) ==
    IF lastHeight > 0 /\ CheckExpiry(c, v, lastHeight) = "expired"
    THEN State("expired", lastHeight)
    ELSE State("live", lastHeight)

forfeitReleaseTransition(s, next) ==
    Move(s, next, IF next.kind = "expired" THEN "expired" ELSE "live", {})

\* The in-place assignment to the state's height, then the transition.
Seen(s, h) == [s EXCEPT !.height = h]

autoRefreshTransition(c, v, s, h, member) ==
    IF ~canAutoRefresh(c, v, h)
    THEN Stay(s)
    ELSE Move(s, State("pending_forfeit", h), "pending_forfeit",
              {IF member THEN "refresh_member" ELSE "refresh_leader"})

handleForfeitRequest(v, s, e) ==
    IF v.asset \/ ~e.signable
    THEN Refuse(s)
    ELSE Move(s, Forfeiting(s.height, e.round, TRUE), "forfeiting",
              {"signature"})

LiveBlockEpoch(c, v, s, h) ==
    LET here == Seen(s, h)
        due  == CheckExpiry(c, v, h)
    IN  CASE due \in {"safe", "unknown"} -> Stay(here)
          [] due = "needs_refresh" -> autoRefreshTransition(c, v, here, h, FALSE)
          [] due = "critical" -> ToExit(here, h)
          [] due = "expired" -> Move(here, State("expired", h), "expired", {})

LiveCohortRefresh(c, v, s, h) ==
    IF v.batchExpiry > 0 /\ CheckExpiry(c, v, h) \in {"safe", "needs_refresh"}
    THEN autoRefreshTransition(c, v, Seen(s, h), h, TRUE)
    ELSE Stay(s)

LiveState(c, v, s, e) ==
    CASE e.type = "block_epoch" -> LiveBlockEpoch(c, v, s, e.height)
      [] e.type = "critical_refresh" ->
            autoRefreshTransition(c, v, Seen(s, e.height), e.height, FALSE)
      [] e.type = "cohort_refresh" -> LiveCohortRefresh(c, v, s, e.height)
      [] e.type = "spend_reserve" ->
            IF v.asset THEN Refuse(s)
            ELSE Move(s, State("spending", s.height), "spending", {})
      [] e.type = "pending_forfeit" ->
            IF v.asset THEN Refuse(s)
            ELSE Move(s, State("pending_forfeit", 0), "pending_forfeit", {})
      [] e.type = "forfeit_request" -> handleForfeitRequest(v, s, e)
      [] e.type = "force_unroll" -> ToExit(s, s.height)
      [] e.type \in {"exit_failed", "exit_confirmed", "exit_conflicted"} -> Stay(s)
      [] OTHER -> Refuse(s)

-----------------------------------------------------------------------------
PendingBlockEpoch(c, v, s, h) ==
    IF CheckExpiry(c, v, h) = "critical" THEN ToExit(s, h) ELSE Stay(s)

\* A cohort leader may adopt only the reservation of its own block.
PendingCohortRefresh(v, s, h) ==
    IF s.height > 0 /\ s.height = h /\ v.batchExpiry > 0
    THEN Move(s, s, NoStatus, {"refresh_member"})
    ELSE Refuse(s)

PendingForfeitState(c, v, s, e) ==
    CASE e.type = "cohort_refresh" -> PendingCohortRefresh(v, s, e.height)
      [] e.type = "block_epoch" -> PendingBlockEpoch(c, v, s, e.height)
      [] e.type = "critical_refresh" -> Stay(s)
      [] e.type = "force_unroll" -> ToExit(s, s.height)
      [] e.type = "forfeit_request" ->
            IF ~e.signable THEN Refuse(s)
            ELSE Move(s, Forfeiting(s.height, e.round, TRUE), "forfeiting",
                      {"signature"})
      [] e.type = "forfeit_released" ->
            forfeitReleaseTransition(s, stateAfterForfeitRelease(c, v, s.height))
      [] OTHER -> Refuse(s)

-----------------------------------------------------------------------------
\* Mutant: the automatic exit ignores the issued signature.
ForfeitingBlockEpoch_exit(c, v, s, h) ==
    IF CheckExpiry(c, v, h) = "critical" THEN ToExit(s, h) ELSE Stay(s)

ForfeitingBlockEpoch(c, v, s, h) ==
    IF CheckExpiry(c, v, h) = "critical" /\ ~forfeitSignatureIssued(s)
    THEN ToExit(s, h)
    ELSE Stay(s)

\* Mutant: any round's release frees the coin.
ForfeitingReleased_anyRound(c, v, s, r) ==
    forfeitReleaseTransition(s, stateAfterForfeitRelease(c, v, s.height))

\* Only the round that holds the signature may release the coin.
ForfeitingReleased(c, v, s, r) ==
    IF r = NoRound \/ r # s.round
    THEN Refuse(s)
    ELSE forfeitReleaseTransition(s, stateAfterForfeitRelease(c, v, s.height))

ForfeitingState(c, v, s, e) ==
    CASE e.type = "forfeit_confirmed" ->
            Move(s, Forfeited(s.round), "forfeited", {"terminated"})
      [] e.type = "block_epoch" -> ForfeitingBlockEpoch(c, v, s, e.height)
      [] e.type = "force_unroll" ->
            IF e.auto /\ forfeitSignatureIssued(s) THEN Stay(s) ELSE ToExit(s, 0)
      [] e.type = "forfeit_released" -> ForfeitingReleased(c, v, s, e.round)
      [] OTHER -> Refuse(s)

-----------------------------------------------------------------------------
SpendingBlockEpoch(c, v, s, h) ==
    LET here == Seen(s, h)
    IN  IF CheckExpiry(c, v, h) = "critical"
        THEN MoveReleasing(here, State("unilateral_exit", h), "unilateral_exit",
                           {"expiring"})
        ELSE Stay(here)

SpendingReleased(c, v, s) ==
    LET next == stateAfterForfeitRelease(c, v, s.height)
    IN  MoveReleasing(s, next,
                      IF next.kind = "expired" THEN "expired" ELSE "live", {})

SpendingState(c, v, s, e) ==
    CASE e.type = "spend_completed" ->
            MoveReleasing(s, State("spent", 0), "spent", {"terminated"})
      [] e.type = "spend_released" -> SpendingReleased(c, v, s)
      [] e.type = "block_epoch" -> SpendingBlockEpoch(c, v, s, e.height)
      [] e.type = "force_unroll" ->
            MoveReleasing(s, State("unilateral_exit", s.height),
                          "unilateral_exit", {"expiring"})
      [] OTHER -> Refuse(s)

-----------------------------------------------------------------------------
UnilateralExitState(c, v, s, e) ==
    CASE e.type = "force_unroll" -> Move(s, s, NoStatus, {"expiring"})
      [] e.type = "exit_failed" -> Move(s, State("live", s.height), "live", {})
      [] e.type = "exit_confirmed" ->
            Move(s, State("spent", 0), "spent", {"terminated"})
      [] e.type = "exit_conflicted" ->
            Move(s, State("expired", 0), "expired", {})
      [] OTHER -> Stay(s)

ExpiredBlockEpoch(c, v, s, h) ==
    LET here == Seen(s, h)
    IN  IF CheckExpiry(c, v, h) # "expired"
        THEN forfeitReleaseTransition(here, State("live", h))
        ELSE IF ~canAutoRefresh(c, v, h)
        THEN Stay(here)
        ELSE Move(here, State("pending_forfeit", h), "pending_forfeit",
                  {"refresh_solo"})

\* SpendReserve is dropped without an error.
ExpiredState(c, v, s, e) ==
    CASE e.type = "block_epoch" -> ExpiredBlockEpoch(c, v, s, e.height)
      [] e.type = "pending_forfeit" ->
            IF v.asset THEN Refuse(s)
            ELSE Move(s, State("pending_forfeit", s.height), "pending_forfeit", {})
      [] e.type = "forfeit_request" -> handleForfeitRequest(v, s, e)
      [] e.type \in {"spend_reserve", "force_unroll", "spend_released",
                     "spend_completed", "forfeit_released", "exit_failed",
                     "exit_confirmed", "exit_conflicted"} -> Stay(s)
      [] OTHER -> Refuse(s)

ProcessEvent(c, v, s, e) ==
    CASE s.kind = "live" -> LiveState(c, v, s, e)
      [] s.kind = "pending_forfeit" -> PendingForfeitState(c, v, s, e)
      [] s.kind = "forfeiting" -> ForfeitingState(c, v, s, e)
      [] s.kind = "spending" -> SpendingState(c, v, s, e)
      [] s.kind = "unilateral_exit" -> UnilateralExitState(c, v, s, e)
      [] s.kind = "expired" -> ExpiredState(c, v, s, e)
      [] IsTerminal(s) -> Stay(s)

\* statusToState: the state an actor starts in from its row.  readable is
\* whether GetForfeitTx succeeded.
statusToState(v, row, readable) ==
    CASE row.status \in {"live", "spending"} -> State(row.status, v.createdHeight)
      [] row.status = "forfeiting" ->
            Forfeiting(0, row.round, readable /\ row.tx)
      [] row.status = "forfeited" -> Forfeited(row.round)
      [] OTHER -> State(row.status, 0)

=============================================================================
