--------------------------- MODULE OORSpendProofs ---------------------------
(***************************************************************************)
(* CompletedMeansSpent, SpentCanFinish, InputHeld and OnlyHolderReleases   *)
(* for any number of transfers, any coin and any number of crashes,        *)
(* rolled-back commits, failed writes and timeouts.                        *)
(*                                                                         *)
(* Alone none of them is inductive.  A turn that will complete its session *)
(* has already written the spend, so the dispatched turns are part of the  *)
(* invariant; the coin's actor agrees with its row, so that an event the   *)
(* actor ignores leaves the row alone too; and a coin is quarantined as    *)
(* expired only if its batch is over at the tip, so that no later block    *)
(* revives it.  For the hold, the manager's mark, the reservation on its   *)
(* way to the coin's actor and the coin's row are three copies of one      *)
(* fact: they agree, a transfer is in one place at a time, and no two      *)
(* transfers got the same epoch, so that an epoch names the holder.        *)
(***************************************************************************)
EXTENDS OORSpend, TLAPS

\* The solver gets more time than its default.
USE SMTT(30)

-----------------------------------------------------------------------------
\* What the pieces of the VTXO state machine return.

\* CheckExpiry has five answers.
LEMMA ExpiryAnswers ==
    ASSUME NEW c, NEW v, NEW h
    PROVE  CheckExpiry(c, v, h) \in {"unknown", "expired", "critical",
                                     "needs_refresh", "safe"}
BY Zenon DEF CheckExpiry

\* A batch that is over stays over.
LEMMA ExpiredForGood ==
    ASSUME NEW c, NEW v \in Descriptor, NEW h \in Int, NEW k \in Int, h <= k,
           CheckExpiry(c, v, h) = "expired"
    PROVE  CheckExpiry(c, v, k) = "expired"
BY DEF CheckExpiry, BlocksUntilExpiry, Descriptor

\* A turn that keeps the state, perhaps at another height.
LEMMA Stays ==
    ASSUME NEW s
    PROVE  /\ Stay(s).next = s /\ Stay(s).status = NoStatus
           /\ Refuse(s).next = s /\ Refuse(s).status = NoStatus
           /\ Refuse(s).ok = FALSE
BY Zenon DEF Stay, Refuse

\* The in-place assignment to the height keeps the state's kind.
LEMMA Heights ==
    ASSUME NEW s \in VTXOState, NEW h \in Int, NEW here,
           here = [s EXCEPT !.height = h]
    PROVE  here \in VTXOState /\ here.kind = s.kind /\ here.height = h
BY Zenon DEF VTXOState

\* A turn that moves to another kind of state and writes it.
LEMMA Moves ==
    ASSUME NEW s, NEW next, NEW status, NEW out
    PROVE  /\ Move(s, next, status, out).next = next
           /\ Move(s, next, status, out).status = status
           /\ MoveReleasing(s, next, status, out).next = next
           /\ MoveReleasing(s, next, status, out).status = status
BY Zenon DEF Stay, Move, MoveReleasing

\* The states without a round.
LEMMA States ==
    ASSUME NEW kind \in Kinds, NEW h \in Int
    PROVE  /\ State(kind, h) \in VTXOState
           /\ State(kind, h).kind = kind /\ State(kind, h).height = h
BY Zenon DEF VTXOState, State

-----------------------------------------------------------------------------

Gone == Kinds \ {"live", "spending"}

SpendEvents == {"block_epoch", "spend_reserve", "spend_released",
                "spend_completed"}

\* The coin: its actor, its row and the tip agree.
CoinInv ==
    /\ height \in Int /\ Coin.createdHeight <= height
    /\ coin \in VTXOState
    /\ coin.height > 0 => coin.height <= height
    /\ row = coin.kind
    /\ row = "expired" => CheckExpiry(ExpiryConfig, Coin, height) = "expired"

\* The sessions: what they commit are states of the state machine, and their
\* mailboxes hold the operator's answers and the start request.
SessionInv ==
    /\ sess \in [Sessions -> OORStateSet]
    /\ mail \in [Sessions -> SUBSET (Replies \cup {"start"})]
    /\ DOMAIN turn = Sessions
    /\ \A s \in Sessions : turn[s].next \in OORStateSet

\* A session that is completed, or will be by the turn it has run, has taken
\* the coin out of the spendable set.
DoneInv ==
    \A s \in Sessions :
        sess[s].phase = "completed" \/ turn[s].next.phase = "completed"
           => row \in Gone

SpendInv == CoinInv /\ SessionInv /\ DoneInv

-----------------------------------------------------------------------------
\* What the four events of a spend make of a coin: the status written is the
\* kind of the state adopted, a height is kept, the event's or 0, only a coin
\* that is over by the height it knows becomes expired, and only a block that
\* finds it not over brings back a coin that is gone.
Lawful(c, v, s, e, t) ==
    /\ t.next \in VTXOState
    /\ t.next.height \in {s.height, e.height, 0}
    /\ t.status = NoStatus => t.next.kind = s.kind
    /\ t.status # NoStatus => t.next.kind = t.status
    /\ t.next.kind = "expired" /\ s.kind # "expired" =>
         \/ s.height > 0 /\ CheckExpiry(c, v, s.height) = "expired"
         \/ e.type = "block_epoch" /\ CheckExpiry(c, v, e.height) = "expired"
    /\ s.kind \in Gone /\ t.next.kind \notin Gone =>
         /\ s.kind = "expired" /\ e.type = "block_epoch"
         /\ CheckExpiry(c, v, e.height) # "expired"
    /\ e.type = "spend_completed" /\ t.ok => t.next.kind \in Gone
    /\ t.next.kind = "spent" /\ s.kind # "spent" => e.type = "spend_completed"

\* The state machine is lawful for these events.
LEMMA CoinTurn ==
    ASSUME NEW c, NEW v, NEW s \in VTXOState, NEW e,
           e.type \in SpendEvents, e.height \in Int
    PROVE  Lawful(c, v, s, e, ProcessEvent(c, v, s, e))
<1> SUFFICES ASSUME NEW t, t = ProcessEvent(c, v, s, e),
                    NEW h, h = e.height,
                    NEW here, here = [s EXCEPT !.height = h]
             PROVE  Lawful(c, v, s, e, t)
  BY Zenon
<1>a. s.kind \in Kinds /\ s.height \in Int /\ h \in Int
  BY Zenon DEF VTXOState
<1>b. ASSUME t \in {Stay(s), Refuse(s)},
             t = Refuse(s) \/ e.type # "spend_completed" \/ s.kind \in Gone
      PROVE  Lawful(c, v, s, e, t)
  <2>1. t.next = s /\ t.status = NoStatus /\ (t = Refuse(s) => t.ok = FALSE)
    BY Zenon, <1>b, Stays
  <2> QED
    BY Zenon, <1>b, <2>1 DEF Lawful, NoStatus
<1>c. ASSUME t = Stay(here), e.type = "block_epoch"
      PROVE  Lawful(c, v, s, e, t)
  <2>1. /\ t.next = here /\ t.status = NoStatus
        /\ here \in VTXOState /\ here.kind = s.kind /\ here.height = h
    <3>1. here \in VTXOState /\ here.kind = s.kind /\ here.height = h
      BY <1>a, Heights
    <3> QED
      BY ZenonT(60), <1>c, <3>1, Stays
  <2> QED
    BY Zenon, <1>c, <2>1 DEF Lawful, NoStatus
<1>d. ASSUME NEW kind \in Kinds, NEW k \in {s.height, h, 0},
             t.next = State(kind, k), t.status = kind,
             \/ kind \in Gone
             \/ s.kind \notin Gone /\ e.type # "spend_completed"
             \/ /\ s.kind = "expired" /\ e.type = "block_epoch"
                /\ CheckExpiry(c, v, h) # "expired",
             kind = "expired" => \/ /\ s.height > 0
                                    /\ CheckExpiry(c, v, s.height) = "expired"
                                 \/ /\ e.type = "block_epoch"
                                    /\ CheckExpiry(c, v, h) = "expired",
             kind = "spent" => e.type = "spend_completed"
      PROVE  Lawful(c, v, s, e, t)
  <2>1. k \in Int /\ kind # NoStatus
    BY <1>a, <1>d DEF Kinds, NoStatus
  <2>2. /\ State(kind, k) \in VTXOState /\ State(kind, k).kind = kind
        /\ State(kind, k).height = k
    BY Zenon, <2>1, States
  <2> QED
    BY Zenon, <1>d, <2>1, <2>2 DEF Lawful
<1>1. CASE s.kind = "live"
  <2>1. t = LiveState(c, v, s, e)
    BY Zenon, <1>1 DEF ProcessEvent, IsTerminal
  <2>2. CASE e.type = "block_epoch"
    <3>1. t = LiveBlockEpoch(c, v, s, h)
      BY Zenon, <2>1, <2>2 DEF LiveState
    <3>2. CASE CheckExpiry(c, v, h) \in {"safe", "unknown"}
      <4>1. t = Stay(here)
        BY Zenon, <3>1, <3>2 DEF LiveBlockEpoch, Seen
      <4> QED
        BY Zenon, <1>c, <2>2, <4>1
    <3>3. CASE CheckExpiry(c, v, h) = "needs_refresh"
      <4>1. \/ t = Stay(here)
            \/ t.next = State("pending_forfeit", h) /\ t.status = "pending_forfeit"
        BY <3>1, <3>3, Moves DEF LiveBlockEpoch, Seen, autoRefreshTransition
      <4> QED
        BY Zenon, <1>1, <1>c, <1>d, <2>2, <4>1 DEF Kinds, Gone
    <3>4. CASE CheckExpiry(c, v, h) = "critical"
      <4>1. t.next = State("unilateral_exit", h) /\ t.status = "unilateral_exit"
        BY <3>1, <3>4, Moves DEF LiveBlockEpoch, Seen, ToExit
      <4> QED
        BY Zenon, <1>1, <1>d, <4>1 DEF Kinds, Gone
    <3>5. CASE CheckExpiry(c, v, h) = "expired"
      <4>1. t.next = State("expired", h) /\ t.status = "expired"
        BY <3>1, <3>5, Moves DEF LiveBlockEpoch, Seen
      <4> QED
        BY Zenon, <1>1, <1>d, <2>2, <3>5, <4>1 DEF Kinds, Gone
    <3> QED
      BY Zenon, <3>2, <3>3, <3>4, <3>5, ExpiryAnswers
  <2>3. CASE e.type = "spend_reserve"
    <3>1. \/ t = Refuse(s)
          \/ t.next = State("spending", s.height) /\ t.status = "spending"
      BY <2>1, <2>3, Moves DEF LiveState
    <3> QED
      BY Zenon, <1>1, <1>b, <1>d, <2>3, <3>1 DEF Kinds, Gone
  <2>4. CASE e.type \in {"spend_released", "spend_completed"}
    <3>1. t = Refuse(s)
      BY Zenon, <2>1, <2>4 DEF LiveState
    <3> QED
      BY Zenon, <1>b, <3>1
  <2> QED
    BY Zenon, <2>2, <2>3, <2>4 DEF SpendEvents
<1>2. CASE s.kind = "pending_forfeit"
  <2>1. t = PendingForfeitState(c, v, s, e)
    BY Zenon, <1>2 DEF ProcessEvent, IsTerminal
  <2>2. \/ t = Refuse(s)
        \/ t = Stay(s) /\ e.type = "block_epoch"
        \/ t.next = State("unilateral_exit", h) /\ t.status = "unilateral_exit"
    <3>1. CASE e.type = "block_epoch"
      <4>1. t = PendingBlockEpoch(c, v, s, h)
        BY Zenon, <2>1, <3>1 DEF PendingForfeitState
      <4> QED
        BY <3>1, <4>1, Moves DEF PendingBlockEpoch, ToExit
    <3>2. CASE e.type # "block_epoch"
      BY Zenon, <2>1, <3>2 DEF PendingForfeitState, SpendEvents
    <3> QED
      BY Zenon, <3>1, <3>2
  <2> QED
    BY Zenon, <1>2, <1>b, <1>d, <2>2 DEF Kinds, Gone
<1>3. CASE s.kind = "forfeiting"
  <2>1. t = ForfeitingState(c, v, s, e)
    BY Zenon, <1>3 DEF ProcessEvent, IsTerminal
  <2>2. \/ t = Refuse(s)
        \/ t = Stay(s) /\ e.type = "block_epoch"
        \/ t.next = State("unilateral_exit", h) /\ t.status = "unilateral_exit"
    BY <2>1, Moves
    DEF ForfeitingState, ForfeitingBlockEpoch, ToExit, SpendEvents
  <2> QED
    BY Zenon, <1>3, <1>b, <1>d, <2>2 DEF Kinds, Gone
<1>4. CASE s.kind = "spending"
  <2>1. t = SpendingState(c, v, s, e)
    BY Zenon, <1>4 DEF ProcessEvent, IsTerminal
  <2>2. CASE e.type = "block_epoch"
    <3>1. \/ t = Stay(here)
          \/ t.next = State("unilateral_exit", h) /\ t.status = "unilateral_exit"
      BY <2>1, <2>2, Moves DEF SpendingState, SpendingBlockEpoch, Seen
    <3> QED
      BY Zenon, <1>4, <1>c, <1>d, <2>2, <3>1 DEF Kinds, Gone
  <2>3. CASE e.type = "spend_released"
    <3>1. \/ /\ t.next = State("expired", s.height) /\ t.status = "expired"
             /\ s.height > 0 /\ CheckExpiry(c, v, s.height) = "expired"
          \/ t.next = State("live", s.height) /\ t.status = "live"
      <4>1. t = SpendingReleased(c, v, s)
        BY Zenon, <2>1, <2>3 DEF SpendingState
      <4>2. CASE s.height > 0 /\ CheckExpiry(c, v, s.height) = "expired"
        BY <4>1, <4>2, Moves
        DEF SpendingReleased, stateAfterForfeitRelease, State
      <4>3. CASE ~(s.height > 0 /\ CheckExpiry(c, v, s.height) = "expired")
        BY <4>1, <4>3, Moves
        DEF SpendingReleased, stateAfterForfeitRelease, State
      <4> QED
        BY Zenon, <4>2, <4>3
    <3> QED
      BY Zenon, <1>4, <1>d, <2>3, <3>1 DEF Kinds, Gone
  <2>4. CASE e.type = "spend_completed"
    <3>1. t.next = State("spent", 0) /\ t.status = "spent"
      BY <2>1, <2>4, Moves DEF SpendingState
    <3> QED
      BY Zenon, <1>d, <2>4, <3>1 DEF Kinds, Gone
  <2>5. CASE e.type = "spend_reserve"
    <3>1. t = Refuse(s)
      BY Zenon, <2>1, <2>5 DEF SpendingState
    <3> QED
      BY <1>b, <3>1
  <2> QED
    BY Zenon, <2>2, <2>3, <2>4, <2>5 DEF SpendEvents
<1>5. CASE s.kind = "unilateral_exit"
  <2>1. t = UnilateralExitState(c, v, s, e)
    BY Zenon, <1>5 DEF ProcessEvent, IsTerminal
  <2>2. t = Stay(s)
    BY Zenon, <2>1 DEF UnilateralExitState, SpendEvents
  <2> QED
    BY Zenon, <1>5, <1>b, <2>2 DEF Kinds, Gone
<1>6. CASE s.kind = "expired"
  <2>1. t = ExpiredState(c, v, s, e)
    BY Zenon, <1>6 DEF ProcessEvent, IsTerminal
  <2>2. CASE e.type = "block_epoch"
    <3>1. t = ExpiredBlockEpoch(c, v, s, h)
      BY Zenon, <2>1, <2>2 DEF ExpiredState
    <3>2. CASE CheckExpiry(c, v, h) # "expired"
      <4>1. t.next = State("live", h) /\ t.status = "live"
        BY <3>1, <3>2, Moves
           DEF ExpiredBlockEpoch, forfeitReleaseTransition, Seen, State
      <4> QED
        BY Zenon, <1>6, <1>d, <2>2, <3>2, <4>1 DEF Kinds
    <3>3. CASE CheckExpiry(c, v, h) = "expired"
      <4>1. \/ t = Stay(here)
            \/ t.next = State("pending_forfeit", h) /\ t.status = "pending_forfeit"
        BY <3>1, <3>3, Moves DEF ExpiredBlockEpoch, Seen
      <4> QED
        BY Zenon, <1>c, <1>d, <2>2, <4>1 DEF Kinds, Gone
    <3> QED
      BY Zenon, <3>2, <3>3
  <2>3. CASE e.type # "block_epoch"
    <3>1. t = Stay(s)
      BY Zenon, <2>1, <2>3 DEF ExpiredState, SpendEvents
    <3> QED
      BY Zenon, <1>6, <1>b, <3>1 DEF Kinds, Gone
  <2> QED
    BY Zenon, <2>2, <2>3
<1>7. CASE s.kind \in {"forfeited", "spent"}
  <2>1. t = Stay(s)
    BY Zenon, <1>7 DEF ProcessEvent, IsTerminal
  <2> QED
    BY Zenon, <1>7, <1>b, <2>1 DEF Kinds, Gone
<1> QED
  BY Zenon, <1>1, <1>2, <1>3, <1>4, <1>5, <1>6, <1>7, <1>a DEF Kinds

-----------------------------------------------------------------------------
\* What a submission that was turned down leads to.
LEMMA SubmitErrors ==
    ASSUME NEW st \in OORStateSet, NEW e
    PROVE  /\ handleSubmitOutboxError(st, e).next \in OORStateSet
           /\ handleSubmitOutboxError(st, e).next.phase \in {st.phase, "failed"}
<1>1. [st EXCEPT !.first = TRUE] \in OORStateSet
      /\ [st EXCEPT !.first = TRUE].phase = st.phase
  BY Zenon DEF OORStateSet
<1>2. OORState("failed") \in OORStateSet /\ OORState("failed").phase = "failed"
  BY Zenon DEF OORState, OORStateSet, Phases
<1>3. handleSubmitOutboxError(st, e).next
        \in {[st EXCEPT !.first = TRUE], OORState("failed")}
  BY Zenon DEF handleSubmitOutboxError, FailWith, To
<1> QED
  BY Zenon, <1>1, <1>2, <1>3

\* The state machine keeps its states.
LEMMA OORTyped ==
    ASSUME NEW st \in OORStateSet, NEW e
    PROVE  OORProcessEvent(st, e).next \in OORStateSet
<1>1. \A phase \in Phases : OORState(phase) \in OORStateSet
  BY Zenon DEF OORState, OORStateSet
<1>2. handleOutboxError(st, e).next \in {st, OORState("failed")}
  BY Zenon DEF handleOutboxError, FailWith, To
<1>3. unexpectedEvent(st).next = st /\ st.phase \in Phases
  BY Zenon DEF unexpectedEvent, To, OORStateSet
<1> QED
  BY Zenon, <1>1, <1>2, <1>3, SubmitErrors
     DEF OORProcessEvent, Idle, AwaitingArkSignatures, AwaitingSubmitAccepted,
         AwaitingCheckpointSignatures, AwaitingFinalizeAccepted,
         AwaitingLocalVTXOUpdate, To, Phases

\* Only inputs_marked_spent completes a session.
LEMMA Completes ==
    ASSUME NEW st \in OORStateSet, NEW e, OORProcessEvent(st, e).next.phase = "completed"
    PROVE  e.type = "inputs_marked_spent" \/ st.phase = "completed"
<1> USE DEF To, OORState, unexpectedEvent
<1>1. CASE st.phase = "idle"
  BY Zenon, <1>1 DEF OORProcessEvent, Idle
<1>2. CASE st.phase \in {"ark_signatures", "checkpoint_signatures", "finalize",
                        "local_update"}
  BY Zenon, <1>2 DEF OORProcessEvent, AwaitingArkSignatures,
     AwaitingCheckpointSignatures, AwaitingFinalizeAccepted,
     AwaitingLocalVTXOUpdate, handleOutboxError, FailWith
<1>3. CASE st.phase = "submit"
  <2>1. OORProcessEvent(st, e) = AwaitingSubmitAccepted(st, e)
    BY Zenon, <1>3 DEF OORProcessEvent
  <2> QED
    BY <1>3, <2>1, SubmitErrors DEF AwaitingSubmitAccepted
<1>4. CASE st.phase \notin {"idle", "ark_signatures", "submit",
                           "checkpoint_signatures", "finalize", "local_update"}
  BY Zenon, <1>4 DEF OORProcessEvent
<1> QED
  BY Zenon, <1>1, <1>2, <1>3, <1>4

\* A turn keeps the states, and a message of a session's mailbox, or a resume,
\* completes the session only if the turn marks the input as spent, or the
\* session was completed before.
LEMMA CompletingTurn ==
    ASSUME NEW st \in OORStateSet, NEW e, e.type # "inputs_marked_spent"
    PROVE  /\ Turn(st, e).next \in OORStateSet
           /\ Turn(st, e).next.phase = "completed" =>
                "mark_spent" \in Turn(st, e).out \/ st.phase = "completed"
<1> SUFFICES ASSUME NEW t, t = IF e.type = "resume"
                               THEN To(st, OutboxForState(st))
                               ELSE OORProcessEvent(st, e)
             PROVE  /\ Turn(st, e).next \in OORStateSet
                    /\ Turn(st, e).next.phase = "completed" =>
                         \/ "mark_spent" \in Turn(st, e).out
                         \/ st.phase = "completed"
  BY Zenon
<1>1. Turn(st, e) = driveOutboxEvents(t)
  BY Zenon DEF Turn
<1>2. /\ t.next \in OORStateSet
      /\ t.next.phase = "completed" => st.phase = "completed"
  BY Zenon, Completes, OORTyped DEF To
<1>3. CASE FollowUp(t.out) = {}
  BY Zenon, <1>1, <1>2, <1>3 DEF driveOutboxEvents
<1>4. CASE FollowUp(t.out) # {}
  <2>1. PICK f \in FollowUp(t.out) :
          Turn(st, e) = To(OORProcessEvent(t.next, f).next,
                           t.out \cup OORProcessEvent(t.next, f).out)
    BY Zenon, <1>1, <1>4 DEF driveOutboxEvents
  <2>2. /\ Turn(st, e).next = OORProcessEvent(t.next, f).next
        /\ Turn(st, e).out = t.out \cup OORProcessEvent(t.next, f).out
    BY <2>1 DEF To
  <2>3. "mark_spent" \in t.out \/ f.type # "inputs_marked_spent"
    BY <2>1 DEF FollowUp, OOREvent
  <2> QED
    BY ZenonT(60), <1>2, <2>2, <2>3, Completes, OORTyped
<1> QED
  BY Zenon, <1>3, <1>4
-----------------------------------------------------------------------------
\* A turn of the coin's actor, also from the state a start gives it, keeps
\* what CoinInv says, and a coin that is gone stays so.
LEMMA CoinStep ==
    ASSUME CoinInv, NEW s \in VTXOState, s.kind = row,
           s.height > 0 => s.height <= height,
           NEW e, e.type \in SpendEvents, e.height \in Int,
           height' \in Int, height <= height',
           e.height = IF e.type = "block_epoch" THEN height' ELSE 0,
           CoinAdopts(ProcessEvent(ExpiryConfig, Coin, s, e))
    PROVE  /\ CoinInv' /\ (row \in Gone => row' \in Gone)
           /\ e.type = "spend_completed"
                /\ ProcessEvent(ExpiryConfig, Coin, s, e).ok => row' \in Gone
           /\ row' = "spent" /\ row # "spent" => e.type = "spend_completed"
<1> DEFINE t == ProcessEvent(ExpiryConfig, Coin, s, e)
<1>1. Lawful(ExpiryConfig, Coin, s, e, t)
  BY Zenon, CoinTurn DEF CoinInv
<1>2. Coin \in Descriptor /\ Coin.createdHeight \in Int
  BY Zenon, SpendAssumption DEF Descriptor
<1>3. s.height \in Int /\ row \in Kinds
  BY Zenon DEF CoinInv, VTXOState
<1>4. coin' = t.next /\ row' = IF t.status = NoStatus THEN row ELSE t.status
  BY Zenon DEF CoinAdopts
<1> HIDE DEF t
<1>5. coin' \in VTXOState /\ row' = coin'.kind
  BY Zenon, <1>1, <1>4 DEF Lawful, CoinInv
<1>6. coin'.height > 0 => coin'.height <= height'
  BY <1>1, <1>3, <1>4 DEF Lawful, CoinInv
<1>7. CheckExpiry(ExpiryConfig, Coin, height) = "expired"
        => CheckExpiry(ExpiryConfig, Coin, height') = "expired"
  BY Zenon, <1>2, ExpiredForGood DEF CoinInv
<1>8. s.height > 0 /\ CheckExpiry(ExpiryConfig, Coin, s.height) = "expired"
        => CheckExpiry(ExpiryConfig, Coin, height') = "expired"
  <2>1. s.height > 0 => s.height <= height'
    BY <1>3 DEF CoinInv
  <2> QED
    BY Zenon, <1>2, <1>3, <2>1, ExpiredForGood
<1>9. row' = "expired" => CheckExpiry(ExpiryConfig, Coin, height') = "expired"
  BY Zenon, <1>1, <1>4, <1>5, <1>7, <1>8 DEF Lawful, CoinInv
<1>10. row \in Gone => row' \in Gone
  BY Zenon, <1>1, <1>4, <1>5, <1>7 DEF Lawful, CoinInv
<1>11. e.type = "spend_completed" /\ t.ok => row' \in Gone
  BY Zenon, <1>1, <1>4, <1>5 DEF Lawful
<1>12. CoinInv'
  BY <1>2, <1>5, <1>6, <1>9 DEF CoinInv
<1>13. row' = "spent" /\ row # "spent" => e.type = "spend_completed"
  BY Zenon, <1>1, <1>4, <1>5 DEF Lawful
<1> QED
  BY Zenon, <1>10, <1>11, <1>12, <1>13 DEF t

\* A start reads the coin's state from its row.
LEMMA RecoveredCoin ==
    ASSUME CoinInv
    PROVE  /\ Recovered \in VTXOState /\ Recovered.kind = row
           /\ Recovered.height > 0 => Recovered.height <= height
<1>1. row \in Kinds /\ Coin.createdHeight \in Int
  BY Zenon, SpendAssumption DEF CoinInv, VTXOState, Descriptor
<1> QED
  BY <1>1 DEF Recovered, statusToState, State, Forfeiting, Forfeited, CoinInv,
              VTXOState, Kinds
\* The messages of a session and the events made of them.
LEMMA SessionEvents ==
    ASSUME SessionInv, NEW s \in Sessions, NEW m \in Messages(s),
           NEW e \in EventsOf(m)
    PROVE  e.type # "inputs_marked_spent"
<1>1. m \in Replies \cup {"start", "resume"}
  BY Zenon DEF SessionInv, Messages
<1>2. e.type = m
  BY DEF EventsOf, Busy, OOREvent
<1> QED
  BY Zenon, <1>1, <1>2 DEF Replies

\* A session dispatches a turn: what it commits is a state, and if it will
\* complete the session the coin is gone.
LEMMA DispatchStep ==
    ASSUME SpendInv, NEW s \in Sessions, NEW m \in Messages(s),
           NEW e \in EventsOf(m), Dispatch(s, e)
    PROVE  SpendInv'
<1> DEFINE t == Turn(sess[s], e)
<1>1. /\ t.next \in OORStateSet
      /\ t.next.phase = "completed" =>
           "mark_spent" \in t.out \/ sess[s].phase = "completed"
  BY Zenon, SessionEvents, CompletingTurn DEF SpendInv, SessionInv
<1>2. /\ turn' = [turn EXCEPT ![s] = [msg |-> e.type, next |-> t.next,
                                      out |-> t.out]]
      /\ IF "mark_spent" \in t.out THEN CompleteSpend
         ELSE IF "release" \in t.out THEN ReleaseSpend(held[s])
         ELSE UNCHANGED <<mark, coin, row, resv>> /\ NoFault
      /\ sess' = sess /\ mail' = mail /\ height' = height
  BY Zenon DEF Dispatch
<1> HIDE DEF t
<1>3. SessionInv'
  BY Zenon, <1>1, <1>2 DEF SpendInv, SessionInv
<1>4. /\ CoinInv' /\ (row \in Gone => row' \in Gone)
      /\ "mark_spent" \in t.out => row' \in Gone
  <2>1. CASE "mark_spent" \in t.out
    <3>1. /\ CoinAdopts(ProcessEvent(ExpiryConfig, Coin, coin, SpendCompleted))
          /\ ProcessEvent(ExpiryConfig, Coin, coin, SpendCompleted).ok
      BY Zenon, <1>2, <2>1 DEF CompleteSpend, CoinEvent
    <3>2. SpendCompleted.type = "spend_completed" /\ SpendCompleted.height = 0
      BY Zenon DEF SpendCompleted, Event
    <3> QED
      BY <1>2, <3>1, <3>2, CoinStep DEF SpendInv, CoinInv, SpendEvents
  <2>2. CASE "mark_spent" \notin t.out /\ "release" \in t.out
    <3>1. ReleaseSpend(held[s])
      BY Zenon, <1>2, <2>2
    <3>2. \/ UNCHANGED <<coin, row>>
          \/ CoinAdopts(ProcessEvent(ExpiryConfig, Coin, coin, SpendReleased))
      BY Zenon, <3>1 DEF ReleaseSpend, CoinEvent
    <3>3. SpendReleased.type = "spend_released" /\ SpendReleased.height = 0
      BY Zenon DEF SpendReleased, Event
    <3>4. CASE UNCHANGED <<coin, row>>
      BY Zenon, <1>2, <2>2, <3>4 DEF SpendInv, CoinInv
    <3> QED
      BY <1>2, <2>2, <3>2, <3>3, <3>4, CoinStep
      DEF SpendInv, CoinInv, SpendEvents
  <2>3. CASE "mark_spent" \notin t.out /\ "release" \notin t.out
    BY Zenon, <1>2, <2>3 DEF SpendInv, CoinInv
  <2> QED
    BY Zenon, <2>1, <2>2, <2>3
<1>5. DoneInv'
  BY Zenon, <1>1, <1>2, <1>4 DEF SpendInv, SessionInv, DoneInv
<1> QED
  BY Zenon, <1>3, <1>4, <1>5 DEF SpendInv
\* A step that leaves the coin, its row, the tip and the sessions' states
\* alone, and puts nothing but answers and starts into mailboxes.
LEMMA IdleStep ==
    ASSUME SpendInv, UNCHANGED <<coin, row, height, sess, turn>>,
           mail' \in [Sessions -> SUBSET (Replies \cup {"start"})]
    PROVE  SpendInv'
BY Zenon DEF SpendInv, CoinInv, SessionInv, DoneInv

\* A step of the coin alone.
LEMMA CoinOnly ==
    ASSUME SpendInv, UNCHANGED <<sess, mail, turn>>, CoinInv',
           row \in Gone => row' \in Gone
    PROVE  SpendInv'
BY Zenon DEF SpendInv, SessionInv, DoneInv

\* CoinReserves and NewBlock: the coin's actor takes a turn, or its write
\* fails and nothing changes.
LEMMA CoinActions ==
    ASSUME SpendInv, CoinReserves \/ NewBlock
    PROVE  SpendInv'
<1> USE DEF sessionVars
<1>1. CASE CoinReserves
  <2>1. SpendReserve.type = "spend_reserve" /\ SpendReserve.height = 0
    BY Zenon DEF SpendReserve, Event
  <2>2. UNCHANGED <<sess, mail, turn, height>>
    BY Zenon, <1>1 DEF CoinReserves
  <2>3. \/ UNCHANGED <<coin, row>>
        \/ CoinAdopts(ProcessEvent(ExpiryConfig, Coin, coin, SpendReserve))
    BY Zenon, <1>1 DEF CoinReserves, CoinEvent
  <2>4. CASE UNCHANGED <<coin, row>>
    BY Zenon, <2>2, <2>4, CoinOnly DEF SpendInv, CoinInv
  <2>5. CASE CoinAdopts(ProcessEvent(ExpiryConfig, Coin, coin, SpendReserve))
    <3>1. CoinInv' /\ (row \in Gone => row' \in Gone)
      BY <2>1, <2>2, <2>5, CoinStep DEF SpendInv, CoinInv, SpendEvents
    <3> QED
      BY Zenon, <2>2, <3>1, CoinOnly
  <2> QED
    BY Zenon, <2>3, <2>4, <2>5
<1>2. CASE NewBlock
  <2>1. /\ height' = height + 1 /\ UNCHANGED <<sess, mail, turn>>
        /\ CoinAdopts(ProcessEvent(ExpiryConfig, Coin, coin, BlockEpoch(height')))
    BY Zenon, <1>2 DEF NewBlock, CoinEvent
  <2>2. /\ BlockEpoch(height').type = "block_epoch"
        /\ BlockEpoch(height').height = height'
    BY Zenon DEF BlockEpoch, Event
  <2>3. height' \in Int /\ height <= height'
    BY <2>1 DEF SpendInv, CoinInv
  <2>4. CoinInv' /\ (row \in Gone => row' \in Gone)
    BY <2>1, <2>2, <2>3, CoinStep DEF SpendInv, CoinInv, SpendEvents
  <2> QED
    BY Zenon, <2>1, <2>4, CoinOnly
<1> QED
  BY Zenon, <1>1, <1>2

\* Unlock: a release by the RPC.
LEMMA UnlockStep ==
    ASSUME SpendInv, NEW s \in Sessions, Unlock(s)
    PROVE  SpendInv'
<1>1. UNCHANGED <<sess, mail, turn, height>>
  BY Zenon DEF Unlock, sessionVars
<1>2. \/ UNCHANGED <<coin, row>>
      \/ CoinAdopts(ProcessEvent(ExpiryConfig, Coin, coin, SpendReleased))
  BY Zenon DEF Unlock, ReleaseSpend, CoinEvent
<1>3. SpendReleased.type = "spend_released" /\ SpendReleased.height = 0
  BY Zenon DEF SpendReleased, Event
<1>4. CoinInv' /\ (row \in Gone => row' \in Gone)
  <2>1. CASE UNCHANGED <<coin, row>>
    BY Zenon, <1>1, <2>1 DEF SpendInv, CoinInv
  <2> QED
    BY <1>1, <1>2, <1>3, <2>1, CoinStep DEF SpendInv, CoinInv, SpendEvents
<1> QED
  BY Zenon, <1>1, <1>4, CoinOnly

\* Restart: the coin is read from its row and perhaps released, the turns are
\* lost, and the sessions keep their states.
LEMMA RestartStep ==
    ASSUME SpendInv, Restart
    PROVE  SpendInv'
<1>1. /\ sess' = sess /\ height' = height
      /\ mail' = [s \in Sessions |-> mail[s] \ {"start"}]
      /\ turn' = [s \in Sessions |-> NoTurn]
      /\ sweepOrphanedReservations
  BY Zenon DEF Restart
<1>2. /\ Recovered \in VTXOState /\ Recovered.kind = row
      /\ Recovered.height > 0 => Recovered.height <= height
  BY Zenon, RecoveredCoin DEF SpendInv
<1>3. SpendReleased.type = "spend_released" /\ SpendReleased.height = 0
  BY Zenon DEF SpendReleased, Event
<1>4. CoinInv' /\ (row \in Gone => row' \in Gone)
  <2>1. CASE Orphaned
    <3>1. CoinAdopts(ProcessEvent(ExpiryConfig, Coin, Recovered, SpendReleased))
      BY Zenon, <1>1, <2>1 DEF sweepOrphanedReservations
    <3> QED
      BY <1>1, <1>2, <1>3, <3>1, CoinStep DEF SpendInv, CoinInv, SpendEvents
  <2>2. CASE ~Orphaned
    <3>1. coin' = Recovered /\ row' = row
      BY Zenon, <1>1, <2>2 DEF sweepOrphanedReservations
    <3> QED
      BY Zenon, <1>1, <1>2, <3>1 DEF SpendInv, CoinInv
  <2> QED
    BY Zenon, <2>1, <2>2
<1>5. NoTurn.next \in OORStateSet /\ NoTurn.next.phase # "completed"
  BY Zenon DEF NoTurn, OORState, OORStateSet, Phases
<1>6. SessionInv' /\ DoneInv'
  BY Zenon, <1>1, <1>4, <1>5 DEF SpendInv, SessionInv, DoneInv
<1> QED
  BY Zenon, <1>4, <1>6 DEF SpendInv

\* CommitAck and CommitFails: a dispatched turn becomes the session's state,
\* or is dropped.
LEMMA CommitStep ==
    ASSUME SpendInv, NEW s \in Sessions, CommitAck(s) \/ CommitFails(s)
    PROVE  SpendInv'
<1>1. NoTurn.next \in OORStateSet /\ NoTurn.next.phase # "completed"
  BY Zenon DEF NoTurn, OORState, OORStateSet, Phases
<1>2. /\ UNCHANGED <<coin, row, height>>
      /\ turn' = [turn EXCEPT ![s] = NoTurn]
      /\ \/ sess' = [sess EXCEPT ![s] = turn[s].next]
         \/ sess' = sess
  BY Zenon DEF CommitAck, CommitFails, coinVars
<1>3. \A m, n : Consumed(s, m, n) =>
         mail' \in [Sessions -> SUBSET (Replies \cup {"start"})]
  BY Zenon DEF Consumed, SpendInv, SessionInv
<1>4. mail' \in [Sessions -> SUBSET (Replies \cup {"start"})]
  <2>1. mail' = mail \/ \E m, n : Consumed(s, m, n)
    BY Zenon DEF CommitAck, CommitFails
  <2> QED
    BY Zenon, <1>3, <2>1 DEF SpendInv, SessionInv
<1>5. SessionInv' /\ DoneInv' /\ CoinInv'
  BY Zenon, <1>1, <1>2, <1>4 DEF SpendInv, SessionInv, DoneInv, CoinInv
<1> QED
  BY Zenon, <1>5 DEF SpendInv

\* Every step keeps SpendInv.
LEMMA SpendStep == SpendInv /\ [Next]_vars => SpendInv'
<1> SUFFICES ASSUME SpendInv, [Next]_vars PROVE SpendInv'
  BY Zenon
<1> USE DEF coinVars, sessionVars
<1>m. mail \in [Sessions -> SUBSET (Replies \cup {"start"})]
  BY Zenon DEF SpendInv, SessionInv
<1>1. CASE CoinReserves \/ NewBlock
  BY Zenon, <1>1, CoinActions
<1>2. CASE DetachedReserveTimeout \/ LateReserveFails
  BY Zenon, <1>2, <1>m, IdleStep DEF DetachedReserveTimeout, LateReserveFails
<1>3. CASE \E e \in reports : SpendReservationFailed(e)
  BY Zenon, <1>3, <1>m, IdleStep DEF SpendReservationFailed
<1>4. CASE Restart
  BY Zenon, <1>4, RestartStep
<1>5. ASSUME NEW s \in Sessions, Select(s) \/ SetupFails(s) \/ AskRegistry(s)
      PROVE  SpendInv'
  BY Zenon, <1>5, <1>m, IdleStep DEF Select, SetupFails, AskRegistry
<1>6. ASSUME NEW s \in Sessions, RegistryAdmits(s)
      PROVE  SpendInv'
  <2>1. /\ UNCHANGED <<coin, row, height, sess, turn>>
        /\ mail' = mail \/ mail' = [mail EXCEPT ![s] = @ \cup {"start"}]
    BY Zenon, <1>6 DEF RegistryAdmits
  <2>2. mail' \in [Sessions -> SUBSET (Replies \cup {"start"})]
    BY Zenon, <1>m, <2>1
  <2> QED
    BY Zenon, <2>1, <2>2, IdleStep
<1>7. ASSUME NEW s \in Sessions, Unlock(s)
      PROVE  SpendInv'
  BY Zenon, <1>7, UnlockStep
<1>8. ASSUME NEW s \in Sessions, NEW m \in Messages(s), NEW e \in EventsOf(m),
             Dispatch(s, e)
      PROVE  SpendInv'
  BY Zenon, <1>8, DispatchStep
<1>9. ASSUME NEW s \in Sessions, CommitAck(s) \/ CommitFails(s)
      PROVE  SpendInv'
  BY Zenon, <1>9, CommitStep
<1>10. ASSUME NEW s \in Sessions, OperatorSubmit(s) \/ OperatorFinalize(s)
       PROVE  SpendInv'
  <2>1. /\ UNCHANGED <<coin, row, height, sess, turn>>
        /\ \E reply \in Replies : Answer(s, reply)
    BY Zenon, <1>10 DEF OperatorSubmit, OperatorFinalize, Replies
  <2>2. mail' \in [Sessions -> SUBSET (Replies \cup {"start"})]
    BY ZenonT(60), <1>m, <2>1 DEF Answer
  <2> QED
    BY Zenon, <2>1, <2>2, IdleStep
<1>11. CASE UNCHANGED vars
  BY Zenon, <1>11, <1>m, IdleStep DEF vars
<1> QED
  BY Zenon, <1>1, <1>2, <1>3, <1>4, <1>5, <1>6, <1>7, <1>8, <1>9, <1>10,
     <1>11 DEF Next

\* The initial states satisfy SpendInv.
LEMMA SpendInit == Init => SpendInv
<1> SUFFICES ASSUME Init PROVE SpendInv
  BY Zenon
<1>1. Coin.createdHeight \in Int
  BY Zenon, SpendAssumption DEF Descriptor
<1>2. CoinInv
  BY <1>1 DEF Init, CoinInv, State, VTXOState, Kinds
<1>3. OORState("idle") \in OORStateSet /\ OORState("idle").phase # "completed"
  BY Zenon DEF OORState, OORStateSet, Phases
<1>4. SessionInv /\ DoneInv
  BY Zenon, <1>3 DEF Init, SessionInv, DoneInv, NoTurn
<1> QED
  BY Zenon, <1>2, <1>4 DEF SpendInv

\* A session is recorded as completed only when its input has left the
\* spendable set for good (CompletedMeansSpent), for any number of transfers,
\* crashes, failed commits, failed writes and timeouts: handleCompleteSpend
\* is asked before commitAck, and nothing brings the coin back.
THEOREM CompletedIsSpent == Spec => []CompletedMeansSpent
<1>1. SpendInv => CompletedMeansSpent
  BY Zenon DEF SpendInv, DoneInv, CompletedMeansSpent, Gone
<1> QED
  BY <1>1, SpendInit, SpendStep, PTL DEF Spec

-----------------------------------------------------------------------------
(***************************************************************************)
(* A spent coin's transfer can still finish.                               *)
(*                                                                         *)
(* SpentCanFinish names one session, and the sessions are linked by the    *)
(* operator: it cosigns for one of them.  So the invariant says of every   *)
(* session where its dispatched turn leads, and that only the cosigned one *)
(* gets as far as finalizing.                                              *)
(***************************************************************************)
\* The phases a session rests in between two turns: the signing phases are
\* passed within a turn.
Waits == {"idle", "submit", "finalize", "completed", "failed"}

\* Where a message of this type takes a resting session, with the inline
\* effects run to the end.
Goes(phase, type) ==
    CASE phase = "idle" -> IF type = "start" THEN {"submit"} ELSE {"idle"}
      [] phase = "submit" ->
            CASE type = "submit_accepted" -> {"finalize"}
              [] type = "rejected" -> {"failed"}
              [] type = "busy" -> {"submit", "failed"}
              [] OTHER -> {"submit"}
      [] phase = "finalize" ->
            CASE type = "finalize_accepted" -> {"completed"}
              [] type = "rejected" -> {"failed"}
              [] OTHER -> {"finalize"}
      [] OTHER -> {phase}

\* A turn by its ends: what it may have asked for on the way.
Shape(phase, type, next, out) ==
    /\ phase \in Waits
    /\ next \in Goes(phase, type)
    /\ "release" \in out => phase = "submit" /\ next = "failed"
    /\ "mark_spent" \in out => phase = "finalize" /\ type = "finalize_accepted"
    /\ "send_finalize" \in out => next = "finalize"

\* Every session rests, and every dispatched turn was computed from the
\* committed session.
TurnInv ==
    \A s \in Sessions :
        /\ sess[s].phase \in Waits
        /\ turn[s] # NoTurn =>
              Shape(sess[s].phase, turn[s].msg, turn[s].next.phase, turn[s].out)

\* The operator cosigns one transfer and refuses others; what has been said
\* to a session, and what the session has made of it, agree with that.
OperatorInv ==
    /\ cosigned \in Sessions \cup {NoSession} /\ cosigned \notin refused
    /\ \A s \in Sessions :
        /\ {sess[s].phase, turn[s].next.phase} \cap {"finalize", "completed"} # {}
             => cosigned = s
        /\ {"submit_accepted", "finalize_accepted"} \cap mail[s] # {} => cosigned = s
        /\ <<s, "send_finalize">> \in toOp => cosigned = s
        /\ "rejected" \in mail[s] \cup {turn[s].msg} => s \in refused

-----------------------------------------------------------------------------
\* An effect that is run inline feeds its result back.
LEMMA Drives ==
    ASSUME NEW u, NEW f, FollowUp(u.out) = {f}
    PROVE  /\ driveOutboxEvents(u).next = OORProcessEvent(u.next, f).next
           /\ driveOutboxEvents(u).out = u.out \cup OORProcessEvent(u.next, f).out
<1>1. (CHOOSE g \in {f} : TRUE) = f
  BY Zenon
<1> QED
  BY Zenon, <1>1 DEF driveOutboxEvents, To

\* A turn without such an effect ends where its first event leads.
LEMMA NotDriven ==
    ASSUME NEW u, u.out \cap {"sign_ark", "sign_checkpoints", "mark_spent"} = {}
    PROVE  driveOutboxEvents(u) = u
BY Zenon DEF driveOutboxEvents, FollowUp

\* Where a session's turn leads.
LEMMA TurnShape ==
    ASSUME NEW st \in OORStateSet, st.phase \in Waits, NEW e,
           e.type \in Replies \cup {"start", "resume"}
    PROVE  Shape(st.phase, e.type, Turn(st, e).next.phase, Turn(st, e).out)
<1> DEFINE u == IF e.type = "resume" THEN To(st, OutboxForState(st))
                ELSE OORProcessEvent(st, e)
<1>1. Turn(st, e) = driveOutboxEvents(u)
  BY Zenon DEF Turn
<1> HIDE DEF u
<1>2. ASSUME u.next.phase \in Goes(st.phase, e.type),
             u.out \subseteq {"send_submit", "retry", "release"},
             "release" \in u.out => st.phase = "submit" /\ u.next.phase = "failed"
      PROVE  Shape(st.phase, e.type, Turn(st, e).next.phase, Turn(st, e).out)
  <2>1. Turn(st, e) = u
    BY Zenon, <1>1, <1>2, NotDriven
  <2> QED
    BY Zenon, <1>2, <2>1 DEF Shape
<1>4. CASE st.phase = "idle"
  <2>1. CASE e.type = "start"
    <3>1. u.next = OORState("ark_signatures") /\ u.out = {"sign_ark"}
      BY Zenon, <1>4, <2>1 DEF u, OORProcessEvent, Idle, To
    <3>2. FollowUp(u.out) = {OOREvent("ark_signed")}
      BY Zenon, <3>1 DEF FollowUp
    <3>3. OORProcessEvent(u.next, OOREvent("ark_signed")) =
            To(OORState("submit"), submitOutbox)
      BY <3>1 DEF OORProcessEvent, AwaitingArkSignatures, OOREvent, OORState
    <3>4. Turn(st, e).next.phase = "submit"
          /\ Turn(st, e).out = {"sign_ark"} \cup submitOutbox
      <4>1. /\ To(OORState("submit"), submitOutbox).next.phase = "submit"
            /\ To(OORState("submit"), submitOutbox).out = submitOutbox
        BY Zenon DEF To, OORState
      <4>2. /\ driveOutboxEvents(u).next =
                 OORProcessEvent(u.next, OOREvent("ark_signed")).next
            /\ driveOutboxEvents(u).out =
                 u.out \cup OORProcessEvent(u.next, OOREvent("ark_signed")).out
        BY Zenon, <3>2, Drives
      <4> QED
        BY Zenon, <1>1, <3>1, <3>3, <4>1, <4>2
    <3> QED
      BY Zenon, <1>4, <2>1, <3>4 DEF Shape, Goes, Waits, submitOutbox
  <2>2. CASE e.type # "start"
    <3>1. u.next = st /\ u.out = {}
      BY Zenon, <1>4, <2>2
      DEF u, OORProcessEvent, Idle, unexpectedEvent, To, OutboxForState
    <3> QED
      BY Zenon, <1>2, <1>4, <2>2, <3>1 DEF Goes
  <2> QED
    BY Zenon, <2>1, <2>2
<1>5. CASE st.phase = "submit"
  <2>1. CASE e.type = "submit_accepted"
    <3>1. u.next = OORState("checkpoint_signatures") /\ u.out = {"sign_checkpoints"}
      BY Zenon, <1>5, <2>1 DEF u, OORProcessEvent, AwaitingSubmitAccepted, To
    <3>2. FollowUp(u.out) = {OOREvent("checkpoints_signed")}
      BY Zenon, <3>1 DEF FollowUp
    <3>3. OORProcessEvent(u.next, OOREvent("checkpoints_signed")) =
            To(OORState("finalize"), finalizeOutbox)
      BY <3>1
      DEF OORProcessEvent, AwaitingCheckpointSignatures, OOREvent, OORState
    <3>4. Turn(st, e).next.phase = "finalize"
          /\ Turn(st, e).out = {"sign_checkpoints"} \cup finalizeOutbox
      <4>1. /\ To(OORState("finalize"), finalizeOutbox).next.phase = "finalize"
            /\ To(OORState("finalize"), finalizeOutbox).out = finalizeOutbox
        BY Zenon DEF To, OORState
      <4>2. /\ driveOutboxEvents(u).next =
                 OORProcessEvent(u.next, OOREvent("checkpoints_signed")).next
            /\ driveOutboxEvents(u).out =
                 u.out \cup OORProcessEvent(u.next, OOREvent("checkpoints_signed")).out
        BY Zenon, <3>2, Drives
      <4> QED
        BY Zenon, <1>1, <3>1, <3>3, <4>1, <4>2
    <3> QED
      BY Zenon, <1>5, <2>1, <3>4 DEF Shape, Goes, Waits, finalizeOutbox
  <2>2. CASE e.type \in {"busy", "rejected"}
    <3>1. u = handleSubmitOutboxError(st, e)
      BY Zenon, <1>5, <2>2 DEF u, OORProcessEvent, AwaitingSubmitAccepted
    <3>2. \/ u.next = OORState("failed") /\ u.out = {"release"}
          \/ /\ e.type = "busy"
             /\ u.next = [st EXCEPT !.first = TRUE] /\ u.out = {"retry"}
      BY Zenon, <1>5, <3>1
      DEF handleSubmitOutboxError, FailWith, prePONRInputOutpoints, To
    <3>3. OORState("failed").phase = "failed" /\ [st EXCEPT !.first = TRUE].phase = st.phase
      BY Zenon DEF OORState, OORStateSet
    <3>4. \/ u.next.phase = "failed" /\ u.out = {"release"}
          \/ e.type = "busy" /\ u.next.phase = "submit" /\ u.out = {"retry"}
      BY Zenon, <1>5, <3>2, <3>3
    <3> QED
      BY <1>2, <1>5, <2>2, <3>4 DEF Goes
  <2>3. CASE e.type \notin {"submit_accepted", "busy", "rejected"}
    <3>1. u.next = st /\ u.out \subseteq submitOutbox
      BY Zenon, <1>5, <2>3
      DEF u, OORProcessEvent, AwaitingSubmitAccepted, unexpectedEvent,
                        To, OutboxForState
    <3> QED
      BY Zenon, <1>2, <1>5, <2>3, <3>1 DEF Goes, submitOutbox
  <2> QED
    BY Zenon, <2>1, <2>2, <2>3
<1>6. CASE st.phase = "finalize"
  <2>1. CASE e.type = "finalize_accepted"
    <3>1. u.next = OORState("local_update") /\ u.out = {"mark_spent"}
      BY Zenon, <1>6, <2>1 DEF u, OORProcessEvent, AwaitingFinalizeAccepted, To
    <3>2. FollowUp(u.out) = {OOREvent("inputs_marked_spent")}
      BY Zenon, <3>1 DEF FollowUp
    <3>3. OORProcessEvent(u.next, OOREvent("inputs_marked_spent")) =
            To(OORState("completed"), {})
      BY <3>1 DEF OORProcessEvent, AwaitingLocalVTXOUpdate, OOREvent, OORState
    <3>4. Turn(st, e).next.phase = "completed" /\ Turn(st, e).out = {"mark_spent"}
      <4>1. /\ To(OORState("completed"), {}).next.phase = "completed"
            /\ To(OORState("completed"), {}).out = {}
        BY Zenon DEF To, OORState
      <4>2. /\ driveOutboxEvents(u).next =
                 OORProcessEvent(u.next, OOREvent("inputs_marked_spent")).next
            /\ driveOutboxEvents(u).out =
                 u.out \cup OORProcessEvent(u.next, OOREvent("inputs_marked_spent")).out
        BY Zenon, <3>2, Drives
      <4> QED
        BY Zenon, <1>1, <3>1, <3>3, <4>1, <4>2
    <3> QED
      BY Zenon, <1>6, <2>1, <3>4 DEF Shape, Goes, Waits
  <2>2. CASE e.type = "resume"
    <3>1. u.next = st /\ u.out = finalizeOutbox
      BY Zenon, <1>6, <2>2 DEF u, To, OutboxForState
    <3>2. Turn(st, e) = u
      BY Zenon, <1>1, <3>1, NotDriven DEF finalizeOutbox
    <3> QED
      BY <1>6, <2>2, <3>1, <3>2 DEF Shape, Goes, Waits, finalizeOutbox
  <2>3. CASE e.type = "rejected"
    <3>1. u.next.phase = "failed" /\ u.out = {}
      BY Zenon, <1>6, <2>3 DEF u, OORProcessEvent, AwaitingFinalizeAccepted,
         handleOutboxError, FailWith, prePONRInputOutpoints, To, OORState
    <3> QED
      BY Zenon, <1>2, <1>6, <2>3, <3>1 DEF Goes
  <2>4. CASE e.type \notin {"finalize_accepted", "resume", "rejected"}
    <3>1. u.next = st /\ u.out \subseteq {"retry"}
      BY Zenon, <1>6, <2>4 DEF u, OORProcessEvent, AwaitingFinalizeAccepted,
         handleOutboxError, unexpectedEvent, To
    <3> QED
      BY Zenon, <1>2, <1>6, <2>4, <3>1 DEF Goes
  <2> QED
    BY Zenon, <2>1, <2>2, <2>3, <2>4
<1>7. CASE st.phase \in {"completed", "failed"}
  <2>1. u.next = st /\ u.out = {}
    BY Zenon, <1>7 DEF u, OORProcessEvent, unexpectedEvent, To, OutboxForState
  <2> QED
    BY Zenon, <1>2, <1>7, <2>1 DEF Goes
<1> QED
  BY Zenon, <1>4, <1>5, <1>6, <1>7 DEF Waits

-----------------------------------------------------------------------------
\* The steps that leave every session's state and turn alone, and what was
\* said to and by the operator; a mailbox may get a start request.
Outside == /\ UNCHANGED <<sess, turn, operatorVars>>
           /\ \A z \in Sessions :
                  mail[z] \subseteq mail'[z] /\ mail'[z] \subseteq mail[z] \cup {"start"}

\* The steps, by what they do to the sessions and the operator.
LEMMA StepKinds ==
    ASSUME SpendInv, [Next]_vars
    PROVE  \/ Outside
           \/ \E s \in Sessions : \E m \in Messages(s) : \E e \in EventsOf(m) :
                 Dispatch(s, e)
           \/ \E s \in Sessions : CommitAck(s)
           \/ \E s \in Sessions : CommitFails(s)
           \/ \E s \in Sessions : OperatorSubmit(s)
           \/ \E s \in Sessions : OperatorFinalize(s)
           \/ Restart
<1> USE DEF sessionVars, operatorVars
<1>1. CASE CoinReserves \/ NewBlock \/ DetachedReserveTimeout \/ LateReserveFails
  BY Zenon, <1>1
  DEF CoinReserves, NewBlock, DetachedReserveTimeout, LateReserveFails, Outside
<1>2. CASE \E e \in reports : SpendReservationFailed(e)
  BY Zenon, <1>2 DEF SpendReservationFailed, Outside
<1>3. ASSUME NEW s \in Sessions,
             Select(s) \/ SetupFails(s) \/ AskRegistry(s) \/ Unlock(s)
      PROVE  Outside
  BY Zenon, <1>3 DEF Select, SetupFails, AskRegistry, Unlock, Outside
<1>4. ASSUME NEW s \in Sessions, RegistryAdmits(s)
      PROVE  Outside
  <2>1. mail \in [Sessions -> SUBSET (Replies \cup {"start"})]
    BY Zenon DEF SpendInv, SessionInv
  <2>2. /\ UNCHANGED <<sess, turn, operatorVars>>
        /\ mail' = mail \/ mail' = [mail EXCEPT ![s] = @ \cup {"start"}]
    BY Zenon, <1>4 DEF RegistryAdmits
  <2> QED
    BY Zenon, <2>1, <2>2 DEF Outside
<1>5. CASE UNCHANGED vars
  BY Zenon, <1>5 DEF vars, Outside
<1> QED
  BY Zenon, <1>1, <1>2, <1>3, <1>4, <1>5 DEF Next

\* The turn that Dispatch leaves.
LEMMA Dispatched ==
    ASSUME SpendInv, TurnInv, NEW s \in Sessions, NEW m \in Messages(s),
           NEW e \in EventsOf(m), Dispatch(s, e)
    PROVE  /\ e.type = m
           /\ turn[s] = NoTurn
           /\ turn'[s].msg = m
           /\ turn' = [turn EXCEPT ![s] = turn'[s]]
           /\ turn'[s].out = Turn(sess[s], e).out
           /\ Shape(sess[s].phase, m, turn'[s].next.phase, turn'[s].out)
           /\ UNCHANGED <<sess, mail, operatorVars>>
<1>1. m \in Replies \cup {"start", "resume"}
  BY Zenon DEF SpendInv, SessionInv, Messages
<1>2. e.type = m
  BY DEF EventsOf, Busy, OOREvent
<1>3. DOMAIN turn = Sessions /\ sess[s] \in OORStateSet
  BY Zenon DEF SpendInv, SessionInv
<1>4. Shape(sess[s].phase, m, Turn(sess[s], e).next.phase, Turn(sess[s], e).out)
  BY Zenon, <1>1, <1>2, <1>3, TurnShape DEF TurnInv
<1>5. /\ turn' = [turn EXCEPT ![s] = [msg |-> e.type, next |-> Turn(sess[s], e).next,
                                      out |-> Turn(sess[s], e).out]]
      /\ turn[s] = NoTurn
      /\ UNCHANGED <<sess, mail, operatorVars>>
  BY Zenon DEF Dispatch
<1>6. turn'[s] = [msg |-> m, next |-> Turn(sess[s], e).next,
                  out |-> Turn(sess[s], e).out]
  BY Zenon, <1>2, <1>3, <1>5
<1>7. /\ turn'[s].msg = m /\ turn'[s].next = Turn(sess[s], e).next
      /\ turn'[s].out = Turn(sess[s], e).out
  BY <1>6
<1>8. turn' = [turn EXCEPT ![s] = turn'[s]]
  BY Zenon, <1>2, <1>5, <1>6
<1> QED
  BY Zenon, <1>2, <1>4, <1>5, <1>7, <1>8

\* The turns lead where Goes says.
LEMMA TurnStep ==
    ASSUME SpendInv, TurnInv, [Next]_vars
    PROVE  TurnInv'
<1>1. DOMAIN turn = Sessions /\ DOMAIN sess = Sessions
  BY Zenon DEF SpendInv, SessionInv
<1>2. CASE UNCHANGED <<sess, turn>>
  BY Zenon, <1>2 DEF TurnInv
<1>3. ASSUME NEW s \in Sessions, NEW m \in Messages(s), NEW e \in EventsOf(m),
             Dispatch(s, e)
      PROVE  TurnInv'
  <2>1. /\ turn' = [turn EXCEPT ![s] = turn'[s]] /\ sess' = sess
        /\ turn'[s].msg = m
        /\ Shape(sess[s].phase, m, turn'[s].next.phase, turn'[s].out)
    BY Zenon, <1>3, Dispatched
  <2> QED
    BY Zenon, <1>1, <2>1 DEF TurnInv
<1>4. ASSUME NEW s \in Sessions, CommitAck(s)
      PROVE  TurnInv'
  <2>1. /\ sess' = [sess EXCEPT ![s] = turn[s].next]
        /\ turn' = [turn EXCEPT ![s] = NoTurn] /\ turn[s] # NoTurn
    BY Zenon, <1>4 DEF CommitAck
  <2>2. turn[s].next.phase \in Waits
    BY Zenon, <2>1 DEF TurnInv, Shape, Goes, Waits
  <2> QED
    BY Zenon, <1>1, <2>1, <2>2 DEF TurnInv
<1>5. ASSUME NEW s \in Sessions, CommitFails(s)
      PROVE  TurnInv'
  BY Zenon, <1>1, <1>5 DEF CommitFails, TurnInv
<1>6. CASE Restart
  BY Zenon, <1>6 DEF Restart, TurnInv
<1> QED
  BY Zenon, <1>2, <1>3, <1>4, <1>5, <1>6, StepKinds
     DEF Outside, OperatorSubmit, OperatorFinalize

\* What leaves the operator's side alone and fills no mailbox but with starts.
LEMMA OperatorKeeps ==
    ASSUME OperatorInv, UNCHANGED <<cosigned, refused>>,
           \A z \in Sessions : mail'[z] \subseteq mail[z] \cup {"start"},
           \A z \in Sessions : /\ sess'[z].phase \in {sess[z].phase, turn[z].next.phase}
                               /\ turn'[z] \in {turn[z], NoTurn},
           \A z \in Sessions : <<z, "send_finalize">> \in toOp' =>
                               \/ <<z, "send_finalize">> \in toOp
                               \/ turn[z].next.phase = "finalize"
    PROVE  OperatorInv'
<1>1. NoTurn.msg = "none" /\ NoTurn.next.phase = "idle"
  BY Zenon DEF NoTurn, OORState
<1> SUFFICES ASSUME NEW z \in Sessions
             PROVE  /\ {sess'[z].phase, turn'[z].next.phase}
                          \cap {"finalize", "completed"} # {} => cosigned = z
                    /\ {"submit_accepted", "finalize_accepted"} \cap mail'[z] # {}
                         => cosigned = z
                    /\ <<z, "send_finalize">> \in toOp' => cosigned = z
                    /\ "rejected" \in mail'[z] \cup {turn'[z].msg} => z \in refused
  BY Zenon DEF OperatorInv
<1>2. {sess'[z].phase, turn'[z].next.phase} \cap {"finalize", "completed"} # {}
        => cosigned = z
  BY <1>1 DEF OperatorInv
<1>3. {"submit_accepted", "finalize_accepted"} \cap mail'[z] # {} => cosigned = z
  BY Zenon DEF OperatorInv
<1>4. <<z, "send_finalize">> \in toOp' => cosigned = z
  BY Zenon DEF OperatorInv
<1>5. "rejected" \in mail'[z] \cup {turn'[z].msg} => z \in refused
  BY ZenonT(60), <1>1 DEF OperatorInv
<1> QED
  BY Zenon, <1>2, <1>3, <1>4, <1>5

\* The operator co-signs one session and does not take back a refusal, and
\* what a session believes of it is true.
LEMMA OperatorStep ==
    ASSUME SpendInv, TurnInv, OperatorInv, [Next]_vars
    PROVE  OperatorInv'
<1>t. /\ DOMAIN turn = Sessions /\ DOMAIN sess = Sessions
      /\ mail \in [Sessions -> SUBSET (Replies \cup {"start"})]
  BY Zenon DEF SpendInv, SessionInv
<1>1. CASE Outside
  BY Zenon, <1>1, OperatorKeeps DEF Outside, operatorVars
<1>2. CASE Restart
  <2>1. /\ UNCHANGED <<sess, cosigned, refused, toOp>>
        /\ \A z \in Sessions : mail'[z] \subseteq mail[z] /\ turn'[z] = NoTurn
    BY Zenon, <1>2 DEF Restart, operatorVars
  <2> QED
    BY Zenon, <2>1, OperatorKeeps
<1>3. ASSUME NEW s \in Sessions, NEW m \in Messages(s), NEW e \in EventsOf(m),
             Dispatch(s, e)
      PROVE  OperatorInv'
  <2>1. /\ turn' = [turn EXCEPT ![s] = turn'[s]] /\ turn'[s].msg = m
        /\ Shape(sess[s].phase, m, turn'[s].next.phase, turn'[s].out)
        /\ UNCHANGED <<sess, mail, toOp, cosigned, refused>>
    BY Zenon, <1>3, Dispatched DEF operatorVars
  <2>2. m \in mail[s] \cup {"resume"}
    BY Zenon DEF Messages
  <2>3. turn'[s].next.phase \in {"finalize", "completed"} =>
          sess[s].phase \in {"finalize", "completed"} \/ m = "submit_accepted"
    BY Zenon, <2>1 DEF Shape, Goes, Waits
  <2>4. turn'[s].next.phase \in {"finalize", "completed"} => cosigned = s
    BY Zenon, <2>2, <2>3 DEF OperatorInv
  <2>5. m = "rejected" => s \in refused
    BY ZenonT(60), <2>2 DEF OperatorInv
  <2> QED
    BY ZenonT(60), <1>t, <2>1, <2>4, <2>5 DEF OperatorInv
<1>4. ASSUME NEW s \in Sessions, CommitAck(s)
      PROVE  OperatorInv'
  <2>1. /\ sess' = [sess EXCEPT ![s] = turn[s].next]
        /\ turn' = [turn EXCEPT ![s] = NoTurn] /\ turn[s] # NoTurn
        /\ toOp' = toOp \cup Sends(s, turn[s].out)
        /\ \A z \in Sessions : mail'[z] \subseteq mail[z]
        /\ UNCHANGED <<cosigned, refused>>
    BY Zenon, <1>4, <1>t DEF CommitAck, Consumed
  <2>2. \A z : <<z, "send_finalize">> \in Sends(s, turn[s].out) =>
               z = s /\ "send_finalize" \in turn[s].out
    BY Zenon DEF Sends
  <2>3. "send_finalize" \in turn[s].out => turn[s].next.phase = "finalize"
    BY Zenon, <2>1 DEF TurnInv, Shape
  <2>4. \A z \in Sessions : /\ sess'[z].phase \in {sess[z].phase, turn[z].next.phase}
                            /\ turn'[z] \in {turn[z], NoTurn}
    BY Zenon, <1>t, <2>1
  <2>5. \A z \in Sessions : <<z, "send_finalize">> \in toOp' =>
                            \/ <<z, "send_finalize">> \in toOp
                            \/ turn[z].next.phase = "finalize"
    BY Zenon, <2>1, <2>2, <2>3
  <2> QED
    BY Zenon, <2>1, <2>4, <2>5, OperatorKeeps
<1>5. ASSUME NEW s \in Sessions, CommitFails(s)
      PROVE  OperatorInv'
  <2>1. /\ UNCHANGED <<sess, toOp, cosigned, refused>>
        /\ turn' = [turn EXCEPT ![s] = NoTurn]
        /\ \A z \in Sessions : mail'[z] \subseteq mail[z]
    BY Zenon, <1>5, <1>t DEF CommitFails, Consumed, operatorVars
  <2>2. \A z \in Sessions : turn'[z] \in {turn[z], NoTurn}
    BY Zenon, <1>t, <2>1
  <2> QED
    BY Zenon, <2>1, <2>2, OperatorKeeps
<1>6. ASSUME NEW s \in Sessions, OperatorSubmit(s)
      PROVE  OperatorInv'
  <2>1. /\ UNCHANGED <<sess, turn>> /\ toOp' \subseteq toOp
        /\ \/ /\ cosigned \in {NoSession, s} /\ s \notin refused
              /\ cosigned' = s /\ refused' = refused
              /\ Answer(s, "submit_accepted")
           \/ /\ cosigned # s /\ cosigned' = cosigned
              /\ refused' = refused \cup {s} /\ Answer(s, "rejected")
           \/ /\ UNCHANGED <<cosigned, refused>> /\ Answer(s, "busy")
    BY Zenon, <1>6 DEF OperatorSubmit
  <2>2. \A r : Answer(s, r) => \A z \in Sessions :
                 mail'[z] \subseteq mail[z] \cup (IF z = s THEN {r} ELSE {})
    BY Zenon, <1>t DEF Answer
  <2>3. CASE /\ cosigned \in {NoSession, s} /\ s \notin refused
             /\ cosigned' = s /\ refused' = refused
             /\ Answer(s, "submit_accepted")
    <3>1. \A z \in Sessions : cosigned = z => z = s
      BY Zenon, <2>3, SpendAssumption
    <3>2. \A z \in Sessions :
            mail'[z] \subseteq mail[z] \cup (IF z = s THEN {"submit_accepted"} ELSE {})
      BY Zenon, <2>2, <2>3
    <3> QED
      BY Zenon, <2>1, <2>3, <3>1, <3>2 DEF OperatorInv
  <2>4. CASE /\ cosigned # s /\ cosigned' = cosigned
             /\ refused' = refused \cup {s} /\ Answer(s, "rejected")
    <3>1. \A z \in Sessions :
            mail'[z] \subseteq mail[z] \cup (IF z = s THEN {"rejected"} ELSE {})
      BY Zenon, <2>2, <2>4
    <3> QED
      BY Zenon, <2>1, <2>4, <3>1 DEF OperatorInv
  <2>5. CASE UNCHANGED <<cosigned, refused>> /\ Answer(s, "busy")
    <3>1. \A z \in Sessions : mail'[z] \subseteq mail[z] \cup {"busy"}
      BY Zenon, <2>2, <2>5
    <3> QED
      BY Zenon, <2>1, <2>5, <3>1 DEF OperatorInv
  <2> QED
    BY Zenon, <2>1, <2>3, <2>4, <2>5
<1>7. ASSUME NEW s \in Sessions, OperatorFinalize(s)
      PROVE  OperatorInv'
  <2>1. /\ UNCHANGED <<sess, turn, cosigned, refused>> /\ toOp' \subseteq toOp
        /\ <<s, "send_finalize">> \in toOp /\ Answer(s, "finalize_accepted")
    BY Zenon, <1>7 DEF OperatorFinalize
  <2>2. \A z \in Sessions :
          mail'[z] \subseteq mail[z] \cup (IF z = s THEN {"finalize_accepted"} ELSE {})
    BY Zenon, <1>t, <2>1 DEF Answer
  <2> QED
    BY Zenon, <2>1, <2>2 DEF OperatorInv
<1> QED
  BY Zenon, <1>1, <1>2, <1>3, <1>4, <1>5, <1>6, <1>7, StepKinds

\* Only a session's turn that marks its input writes the coin as spent.
LEMMA SpentBy ==
    ASSUME SpendInv, [Next]_vars, row # "spent", row' = "spent"
    PROVE  \E s \in Sessions : \E m \in Messages(s) : \E e \in EventsOf(m) :
              Dispatch(s, e) /\ "mark_spent" \in Turn(sess[s], e).out
<1> USE DEF coinVars
<1>e. /\ SpendReserve.type = "spend_reserve" /\ SpendReserve.height = 0
      /\ SpendReleased.type = "spend_released" /\ SpendReleased.height = 0
  BY Zenon DEF SpendReserve, SpendReleased, Event
<1>i. CoinInv /\ coin \in VTXOState /\ coin.kind = row /\ height \in Int
  BY Zenon DEF SpendInv, CoinInv
<1>h. coin.height > 0 => coin.height <= height
  BY Zenon DEF SpendInv, CoinInv
<1>r. ASSUME height' = height,
             CoinAdopts(ProcessEvent(ExpiryConfig, Coin, coin, SpendReleased))
      PROVE  FALSE
  BY <1>r, <1>e, <1>i, <1>h, CoinStep DEF SpendEvents
<1>1. CASE CoinReserves
  <2>1. CoinAdopts(ProcessEvent(ExpiryConfig, Coin, coin, SpendReserve)) /\ height' = height
    BY Zenon, <1>1 DEF CoinReserves, CoinEvent
  <2> QED
    BY <1>e, <1>h, <1>i, <2>1, CoinStep DEF SpendEvents
<1>2. CASE NewBlock
  <2>1. /\ CoinAdopts(ProcessEvent(ExpiryConfig, Coin, coin, BlockEpoch(height')))
        /\ height' \in Int /\ height <= height'
    BY <1>2, <1>i DEF NewBlock, CoinEvent
  <2>2. /\ BlockEpoch(height').type = "block_epoch"
        /\ BlockEpoch(height').height = height'
    BY Zenon DEF BlockEpoch, Event
  <2> QED
    BY <1>h, <1>i, <2>1, <2>2, CoinStep DEF SpendEvents
<1>3. CASE Restart
  <2>1. /\ Recovered \in VTXOState /\ Recovered.kind = row
        /\ Recovered.height > 0 => Recovered.height <= height
    BY Zenon, <1>i, RecoveredCoin
  <2>2. /\ CoinAdopts(ProcessEvent(ExpiryConfig, Coin, Recovered, SpendReleased))
        /\ height' = height
    BY Zenon, <1>3 DEF Restart, sweepOrphanedReservations
  <2> QED
    BY <1>e, <1>i, <2>1, <2>2, CoinStep DEF SpendEvents
<1>4. ASSUME NEW s \in Sessions, Unlock(s)
      PROVE  FALSE
  <2>1. height' = height /\ ReleaseSpend(0)
    BY Zenon, <1>4 DEF Unlock
  <2> QED
    BY Zenon, <1>r, <2>1 DEF ReleaseSpend, CoinEvent
<1>5. ASSUME NEW s \in Sessions, NEW m \in Messages(s), NEW e \in EventsOf(m),
             Dispatch(s, e), "mark_spent" \notin Turn(sess[s], e).out
      PROVE  FALSE
  <2>1. height' = height /\ (row' = row \/ ReleaseSpend(held[s]))
    BY Zenon, <1>5 DEF Dispatch
  <2> QED
    BY Zenon, <1>r, <2>1 DEF ReleaseSpend, CoinEvent
<1>6. CASE \/ DetachedReserveTimeout \/ LateReserveFails \/ UNCHANGED vars
           \/ \E e \in reports : SpendReservationFailed(e)
  BY Zenon, <1>6
  DEF DetachedReserveTimeout, LateReserveFails, SpendReservationFailed, vars
<1>7. ASSUME NEW s \in Sessions,
             \/ Select(s) \/ SetupFails(s) \/ AskRegistry(s) \/ RegistryAdmits(s)
             \/ CommitAck(s) \/ CommitFails(s) \/ OperatorSubmit(s)
             \/ OperatorFinalize(s)
      PROVE  row' = row
  BY Zenon, <1>7 DEF Select, SetupFails, AskRegistry, RegistryAdmits, CommitAck,
     CommitFails, OperatorSubmit, OperatorFinalize
<1> QED
  BY Zenon, <1>1, <1>2, <1>3, <1>4, <1>5, <1>6, <1>7 DEF Next

\* The session that can finish a spend.
Finishes(s) == \/ sess[s].phase = "completed"
               \/ sess[s].phase = "finalize" /\ "finalize_accepted" \in mail[s]

\* A session that can finish still can after any step.
LEMMA FinishStays ==
    ASSUME SpendInv, TurnInv, OperatorInv, [Next]_vars, NEW z \in Sessions,
           Finishes(z)
    PROVE  Finishes(z)'
<1>t. /\ DOMAIN turn = Sessions /\ DOMAIN sess = Sessions
      /\ mail \in [Sessions -> SUBSET (Replies \cup {"start"})]
  BY Zenon DEF SpendInv, SessionInv
<1>1. ASSUME sess' = sess,
             Terminal(sess[z]) \/ mail[z] \ {"start"} \subseteq mail'[z]
      PROVE  Finishes(z)'
  BY Zenon, <1>1 DEF Finishes, Terminal
<1>2. ASSUME NEW s \in Sessions, CommitAck(s)
      PROVE  Finishes(z)'
  <2>1. /\ sess' = [sess EXCEPT ![s] = turn[s].next] /\ turn[s] # NoTurn
        /\ mail' = [mail EXCEPT ![s] = IF Terminal(turn[s].next) THEN {}
                                       ELSE @ \ {turn[s].msg}]
    BY Zenon, <1>2 DEF CommitAck, Consumed
  <2>2. CASE s # z
    BY Zenon, <1>t, <2>1, <2>2 DEF Finishes
  <2>3. CASE s = z
    <3>1. /\ Shape(sess[z].phase, turn[z].msg, turn[z].next.phase, turn[z].out)
          /\ sess'[z] = turn[z].next
          /\ mail'[z] = IF Terminal(turn[z].next) THEN {} ELSE mail[z] \ {turn[z].msg}
      BY Zenon, <1>t, <2>1, <2>3 DEF TurnInv
    <3>2. CASE sess[z].phase = "completed"
      BY Zenon, <3>1, <3>2 DEF Shape, Goes, Finishes
    <3>3. CASE sess[z].phase = "finalize" /\ "finalize_accepted" \in mail[z]
      <4>1. turn[z].msg # "rejected"
        BY Zenon, <3>3 DEF OperatorInv
      <4> QED
        BY Zenon, <3>1, <3>3, <4>1 DEF Shape, Goes, Finishes, Terminal
    <3> QED
      BY Zenon, <3>2, <3>3 DEF Finishes
  <2> QED
    BY Zenon, <2>2, <2>3
<1>3. ASSUME NEW s \in Sessions, CommitFails(s)
      PROVE  Finishes(z)'
  <2>1. sess' = sess /\ (mail' = mail \/ Consumed(s, "start", sess[s]))
    BY Zenon, <1>3 DEF CommitFails
  <2>2. Terminal(sess[z]) \/ mail[z] \ {"start"} \subseteq mail'[z]
    BY Zenon, <1>t, <2>1 DEF Consumed
  <2> QED
    BY Zenon, <1>1, <2>1, <2>2
<1>4. ASSUME NEW s \in Sessions, OperatorSubmit(s) \/ OperatorFinalize(s)
      PROVE  Finishes(z)'
  <2>1. sess' = sess /\ \E r : Answer(s, r)
    BY Zenon, <1>4 DEF OperatorSubmit, OperatorFinalize
  <2>2. Terminal(sess[z]) \/ mail[z] \ {"start"} \subseteq mail'[z]
    BY Zenon, <1>t, <2>1 DEF Answer
  <2> QED
    BY Zenon, <1>1, <2>1, <2>2
<1>5. CASE Outside
  BY Zenon, <1>1, <1>5 DEF Outside
<1>6. CASE Restart
  BY Zenon, <1>1, <1>6 DEF Restart
<1>7. ASSUME NEW s \in Sessions, NEW m \in Messages(s), NEW e \in EventsOf(m),
             Dispatch(s, e)
      PROVE  Finishes(z)'
  BY Zenon, <1>1, <1>7 DEF Dispatch
<1> QED
  BY Zenon, <1>2, <1>3, <1>4, <1>5, <1>6, <1>7, StepKinds

\* A coin written as spent has a session that is completed or can still be
\* (SpentCanFinish), for any number of transfers and faults: the session that
\* asked for the write keeps the operator's answer in its mailbox until the
\* transaction that completes it, and the operator does not turn down a
\* session it has co-signed.
THEOREM SpentIsFinished == Spec => []SpentCanFinish
<1> DEFINE Inv == SpendInv /\ TurnInv /\ OperatorInv /\ SpentCanFinish
<1>1. Init => Inv
  <2> SUFFICES ASSUME Init PROVE Inv
    BY Zenon
  <2>1. OORState("idle").phase = "idle" /\ NoTurn.msg = "none"
        /\ NoTurn.next.phase = "idle"
    BY Zenon DEF OORState, NoTurn
  <2>2. TurnInv
    BY Zenon, <2>1 DEF Init, TurnInv, Waits
  <2>3. OperatorInv
    BY Zenon, <2>1, SpendAssumption DEF Init, OperatorInv
  <2>4. SpentCanFinish
    BY Zenon DEF Init, SpentCanFinish
  <2>5. SpendInv
    BY Zenon, SpendInit
  <2> QED
    BY Zenon, <2>2, <2>3, <2>4, <2>5
<1>2. Inv /\ [Next]_vars => Inv'
  <2> SUFFICES ASSUME Inv, [Next]_vars PROVE Inv'
    BY Zenon
  <2>1. SpendInv' /\ TurnInv' /\ OperatorInv'
    BY Zenon, SpendStep, TurnStep, OperatorStep
  <2>2. ASSUME row' = "spent", row = "spent" PROVE \E z \in Sessions : Finishes(z)'
    <3>1. PICK z \in Sessions : Finishes(z)
      BY Zenon, <2>2 DEF SpentCanFinish, Finishes
    <3> QED
      BY Zenon, <3>1, FinishStays
  <2>3. ASSUME row' = "spent", row # "spent" PROVE \E z \in Sessions : Finishes(z)'
    <3>1. PICK s \in Sessions :
            \E m \in Messages(s) : \E e \in EventsOf(m) :
               Dispatch(s, e) /\ "mark_spent" \in Turn(sess[s], e).out
      BY Zenon, <2>3, SpentBy
    <3>m. PICK m \in Messages(s) : \E e \in EventsOf(m) :
            Dispatch(s, e) /\ "mark_spent" \in Turn(sess[s], e).out
      BY Zenon, <3>1
    <3>e. PICK e \in EventsOf(m) :
            Dispatch(s, e) /\ "mark_spent" \in Turn(sess[s], e).out
      BY Zenon, <3>m
    <3>2. /\ Shape(sess[s].phase, m, turn'[s].next.phase, turn'[s].out)
          /\ "mark_spent" \in turn'[s].out /\ UNCHANGED <<sess, mail>>
      BY ZenonT(60), <3>e, Dispatched
    <3>3. m \in mail[s] \cup {"resume"}
      BY Zenon DEF Messages
    <3> QED
      BY Zenon, <3>2, <3>3 DEF Shape, Finishes
  <2>4. SpentCanFinish'
    BY Zenon, <2>2, <2>3 DEF SpentCanFinish, Finishes
  <2> QED
    BY Zenon, <2>1, <2>4
<1> QED
  BY <1>1, <1>2, PTL DEF Spec

-----------------------------------------------------------------------------
\* Who holds the coin.


\* At most a commit of a session has failed so far.
Calm == hit \subseteq {"commit"}

\* A transfer that has selected the coin and has no session yet.
Early(s) == \/ adm[s] \in {"selected", "asked"}
            \/ "start" \in mail[s]
            \/ caller[s] = "unlocking"

\* The transfers that count on the coin.  Once a commit has failed, a session
\* in flight may have released it without knowing.
Claims(s) == \/ Early(s)
             \/ hit = {} /\ InFlight(s) /\ "release" \notin turn[s].out

\* A transfer is in one place: at the RPC, in the registry's mailbox, in its
\* child's, being unlocked, or a session.
Mode(s) ==
    /\ Early(s) => sess[s].phase = "idle"
    /\ adm[s] # "done" => /\ sess[s].phase = "idle" /\ "start" \notin mail[s]
                          /\ caller[s] # "unlocking"
    /\ "start" \in mail[s] => caller[s] # "unlocking"
    /\ turn[s].msg = "start" => "start" \in mail[s]

ModeInv == /\ DOMAIN adm = Sessions /\ DOMAIN caller = Sessions
           /\ Calm => \A s \in Sessions : Mode(s)

\* No two reservations have the same epoch.
EpochInv ==
    /\ epoch \in Nat /\ DOMAIN held = Sessions
    /\ Calm =>
        /\ \A s \in Sessions : held[s] \in Nat /\ held[s] <= epoch
        /\ \A s \in Sessions : adm[s] # "idle" => held[s] > 0
        /\ \A s, z \in Sessions : held[s] = held[z] /\ held[s] > 0 => s = z

\* The mark, the reservation on its way and the row say the same: the coin is
\* free and nobody counts on it, or the latest reservation holds it.
Free == /\ row = "live" /\ mark = NoMark /\ inbox = <<>>
        /\ \A s \in Sessions : ~Claims(s)

Taken == /\ mark = epoch /\ epoch > 0
         /\ \A s \in Sessions : Claims(s) => held[s] = epoch
         /\ \/ row = "live" /\ inbox = <<Reserve(epoch, TRUE)>> /\ ~Coin.asset
            \/ row = "spending" /\ inbox = <<>>

MarkInv == Calm /\ row \notin Gone => reports = {} /\ (Free \/ Taken)

HeldInv == SpendInv /\ TurnInv /\ ModeInv /\ EpochInv /\ MarkInv

-----------------------------------------------------------------------------
\* What the coin's actor answers.
LEMMA SpendAnswers ==
    ASSUME NEW s \in VTXOState, NEW c, NEW v
    PROVE  /\ s.kind = "live" /\ ~v.asset =>
                 /\ ProcessEvent(c, v, s, SpendReserve).ok
                 /\ ProcessEvent(c, v, s, SpendReserve).status = "spending"
           /\ s.kind = "live" => ~ProcessEvent(c, v, s, SpendReleased).ok
           /\ s.kind = "spending" =>
                 /\ ProcessEvent(c, v, s, SpendReleased).ok
                 /\ ProcessEvent(c, v, s, SpendReleased).status \in {"live", "expired"}
           /\ s.kind \in {"live", "spending"} => \A h \in Int :
                 ProcessEvent(c, v, s, BlockEpoch(h)).status \in Gone \cup {NoStatus}
<1>e. /\ SpendReserve.type = "spend_reserve" /\ SpendReleased.type = "spend_released"
      /\ \A h \in Int : /\ BlockEpoch(h).type = "block_epoch"
                        /\ BlockEpoch(h).height = h
  BY Zenon DEF SpendReserve, SpendReleased, BlockEpoch, Event
<1>m. ASSUME NEW a, NEW b, NEW st, NEW o
      PROVE  /\ Move(a, b, st, o).ok /\ Move(a, b, st, o).status = st
             /\ MoveReleasing(a, b, st, o).ok /\ MoveReleasing(a, b, st, o).status = st
             /\ Stay(a).status = NoStatus /\ ~Refuse(a).ok
  BY Zenon DEF Move, MoveReleasing, Stay, Refuse
<1>1. CASE s.kind = "live"
  <2>1. ASSUME NEW e PROVE ProcessEvent(c, v, s, e) = LiveState(c, v, s, e)
    BY Zenon, <1>1 DEF ProcessEvent, IsTerminal
  <2>2. ~v.asset => LiveState(c, v, s, SpendReserve) =
          Move(s, State("spending", s.height), "spending", {})
    BY Zenon, <1>e DEF LiveState
  <2>3. LiveState(c, v, s, SpendReleased) = Refuse(s)
    BY Zenon, <1>e DEF LiveState
  <2>4. \A h \in Int : LiveState(c, v, s, BlockEpoch(h)) = LiveBlockEpoch(c, v, s, h)
    BY Zenon, <1>e DEF LiveState
  <2>5. \A h \in Int : LiveBlockEpoch(c, v, s, h).status \in
          {NoStatus, "pending_forfeit", "unilateral_exit", "expired"}
    BY <1>m, ExpiryAnswers DEF LiveBlockEpoch, autoRefreshTransition, ToExit
  <2> QED
    BY <1>1, <1>m, <2>1, <2>2, <2>3, <2>4, <2>5 DEF Gone, Kinds
<1>2. CASE s.kind = "spending"
  <2>1. ASSUME NEW e PROVE ProcessEvent(c, v, s, e) = SpendingState(c, v, s, e)
    BY Zenon, <1>2 DEF ProcessEvent, IsTerminal
  <2>2. SpendingState(c, v, s, SpendReleased) = SpendingReleased(c, v, s)
    BY Zenon, <1>e DEF SpendingState
  <2>3. /\ SpendingReleased(c, v, s).ok
        /\ SpendingReleased(c, v, s).status \in {"live", "expired"}
    BY <1>m DEF SpendingReleased
  <2>4. \A h \in Int : SpendingState(c, v, s, BlockEpoch(h)) = SpendingBlockEpoch(c, v, s, h)
    BY Zenon, <1>e DEF SpendingState
  <2>5. \A h \in Int : SpendingBlockEpoch(c, v, s, h).status \in {NoStatus, "unilateral_exit"}
    BY <1>m DEF SpendingBlockEpoch
  <2> QED
    BY Zenon, <1>2, <2>1, <2>2, <2>3, <2>4, <2>5 DEF Gone, Kinds
<1> QED
  BY Zenon, <1>1, <1>2

\* A fault other than a failed commit, and a restart, end the calm.
LEMMA Calmer ==
    ASSUME SpendInv, [Next]_vars, Calm'
    PROVE  /\ Calm /\ (hit' = {} => hit = {})
           /\ ~DetachedReserveTimeout /\ ~Restart
<1>1. \A kind : Fault(kind) => hit' = hit \cup {kind}
  BY Zenon DEF Fault
<1>2. hit \subseteq hit'
  <2>1. ASSUME NEW s \in Sessions, NEW e, Dispatch(s, e) PROVE hit \subseteq hit'
    BY Zenon, <1>1, <2>1 DEF Dispatch, NoFault, CompleteSpend, ReleaseSpend
  <2>2. ASSUME NEW s \in Sessions, Unlock(s) PROVE hit \subseteq hit'
    BY Zenon, <1>1, <2>2 DEF Unlock, NoFault, ReleaseSpend
  <2>3. ASSUME NEW s \in Sessions,
               \/ Select(s) \/ SetupFails(s) \/ AskRegistry(s) \/ RegistryAdmits(s)
               \/ CommitAck(s) \/ CommitFails(s) \/ OperatorSubmit(s)
               \/ OperatorFinalize(s)
        PROVE  hit \subseteq hit'
    BY Zenon, <1>1, <2>3
    DEF Select, SetupFails, AskRegistry, RegistryAdmits, CommitAck,
       CommitFails, OperatorSubmit, OperatorFinalize
  <2>4. CASE \/ CoinReserves \/ DetachedReserveTimeout \/ LateReserveFails
             \/ NewBlock \/ Restart \/ UNCHANGED vars
             \/ \E e \in reports : SpendReservationFailed(e)
    BY Zenon, <1>1, <2>4
    DEF CoinReserves, DetachedReserveTimeout, LateReserveFails,
       NewBlock, Restart, SpendReservationFailed, NoFault, vars
  <2> QED
    BY Zenon, <2>1, <2>2, <2>3, <2>4 DEF Next
<1>3. ~DetachedReserveTimeout /\ ~Restart
  <2>1. DetachedReserveTimeout => Fault("timeout")
    BY ZenonT(60) DEF DetachedReserveTimeout
  <2>2. Restart => "crash" \in hit'
    BY Zenon DEF Restart
  <2> QED
    BY <1>1, <2>1, <2>2 DEF Calm
<1> QED
  BY Zenon, <1>2, <1>3 DEF Calm

\* A transfer stays in one place.
LEMMA ModeStep ==
    ASSUME SpendInv, TurnInv, ModeInv, [Next]_vars
    PROVE  ModeInv'
<1> USE DEF rpcVars, sessionVars
<1>t. /\ DOMAIN turn = Sessions /\ DOMAIN sess = Sessions
      /\ mail \in [Sessions -> SUBSET (Replies \cup {"start"})]
      /\ DOMAIN adm = Sessions /\ DOMAIN caller = Sessions
  BY Zenon DEF SpendInv, SessionInv, ModeInv
<1>d. DOMAIN adm' = Sessions /\ DOMAIN caller' = Sessions
  <2>1. ASSUME NEW s \in Sessions, NEW e, Dispatch(s, e)
        PROVE  adm' = adm /\ caller' = caller
    BY Zenon, <2>1 DEF Dispatch
  <2>2. ASSUME NEW s \in Sessions,
               \/ Select(s) \/ SetupFails(s) \/ AskRegistry(s) \/ RegistryAdmits(s)
               \/ Unlock(s) \/ CommitAck(s) \/ CommitFails(s)
               \/ OperatorSubmit(s) \/ OperatorFinalize(s)
        PROVE  /\ adm' = adm \/ \E x : adm' = [adm EXCEPT ![s] = x]
               /\ caller' = caller \/ \E x : caller' = [caller EXCEPT ![s] = x]
    BY Zenon, <2>2
    DEF Select, SetupFails, AskRegistry, RegistryAdmits, Unlock, CommitAck,
       CommitFails, CallerFails, OperatorSubmit, OperatorFinalize
  <2>3. CASE Restart
    BY Zenon, <2>3 DEF Restart
  <2>4. CASE \/ CoinReserves \/ DetachedReserveTimeout \/ LateReserveFails
             \/ NewBlock \/ UNCHANGED vars
             \/ \E e \in reports : SpendReservationFailed(e)
    <3>1. UNCHANGED rpcVars
      BY Zenon, <2>4 DEF CoinReserves, DetachedReserveTimeout, LateReserveFails,
         NewBlock, SpendReservationFailed, vars
    <3> QED
      BY Zenon, <1>t, <3>1
  <2> QED
    BY Zenon, <1>t, <2>1, <2>2, <2>3, <2>4 DEF Next
<1> SUFFICES ASSUME Calm', NEW z \in Sessions PROVE Mode(z)'
  BY Zenon, <1>d DEF ModeInv
<1>c. Mode(z) /\ ~Restart /\ ~DetachedReserveTimeout
  BY Zenon, Calmer DEF ModeInv
<1>n. NoTurn.msg = "none"
  BY Zenon DEF NoTurn
<1>u. ASSUME /\ adm'[z] = adm[z] /\ caller'[z] = caller[z] /\ sess'[z] = sess[z]
             /\ turn'[z] = turn[z] /\ mail'[z] = mail[z]
      PROVE  Mode(z)'
  BY Zenon, <1>u, <1>c DEF Mode, Early
<1>1. CASE \/ CoinReserves \/ LateReserveFails \/ NewBlock \/ UNCHANGED vars
           \/ \E e \in reports : SpendReservationFailed(e)
  BY ZenonT(60), <1>1, <1>u DEF CoinReserves, LateReserveFails, NewBlock,
     SpendReservationFailed, vars
<1>2. ASSUME NEW s \in Sessions, Select(s)
      PROVE  Mode(z)'
  <2>1. /\ adm[s] = "idle" /\ adm' = [adm EXCEPT ![s] = "selected"]
        /\ caller' = [caller EXCEPT ![s] = "waiting"]
        /\ UNCHANGED <<sess, mail, turn>>
    BY Zenon, <1>2 DEF Select
  <2>2. s = z => /\ adm'[z] = "selected" /\ caller'[z] = "waiting"
                 /\ adm[z] = "idle"
    BY Zenon, <1>t, <2>1
  <2>3. s # z => adm'[z] = adm[z] /\ caller'[z] = caller[z]
    BY Zenon, <1>t, <2>1
  <2> QED
    BY Zenon, <1>c, <1>u, <2>1, <2>2, <2>3 DEF Mode, Early
<1>3. ASSUME NEW s \in Sessions, SetupFails(s) \/ AskRegistry(s)
      PROVE  Mode(z)'
  <2>1. /\ adm[s] = "selected" /\ UNCHANGED <<sess, mail, turn>>
        /\ \/ /\ adm' = [adm EXCEPT ![s] = "done"]
              /\ caller' = [caller EXCEPT ![s] = "unlocking"]
           \/ adm' = [adm EXCEPT ![s] = "asked"] /\ caller' = caller
    BY Zenon, <1>3 DEF SetupFails, AskRegistry
  <2>2. s = z => /\ adm[z] = "selected"
                 /\ \/ adm'[z] = "done" /\ caller'[z] = "unlocking"
                    \/ adm'[z] = "asked" /\ caller'[z] = caller[z]
    BY Zenon, <1>t, <2>1
  <2>3. s # z => adm'[z] = adm[z] /\ caller'[z] = caller[z]
    BY Zenon, <1>t, <2>1
  <2> QED
    BY Zenon, <1>c, <1>u, <2>1, <2>2, <2>3 DEF Mode, Early
<1>4. ASSUME NEW s \in Sessions, RegistryAdmits(s)
      PROVE  Mode(z)'
  <2>1. /\ adm[s] = "asked" /\ adm' = [adm EXCEPT ![s] = "done"]
        /\ UNCHANGED <<sess, turn>>
        /\ \/ mail' = [mail EXCEPT ![s] = @ \cup {"start"}] /\ caller' = caller
           \/ mail' = mail /\ CallerFails(s)
    BY Zenon, <1>4 DEF RegistryAdmits
  <2>2. s = z => /\ adm[z] = "asked" /\ adm'[z] = "done"
                 /\ \/ mail'[z] = mail[z] \cup {"start"} /\ caller'[z] = caller[z]
                    \/ mail'[z] = mail[z]
    BY Zenon, <1>t, <2>1
  <2>3. s # z => /\ adm'[z] = adm[z] /\ caller'[z] = caller[z]
                 /\ mail'[z] = mail[z]
    BY Zenon, <1>t, <2>1 DEF CallerFails
  <2> QED
    BY Zenon, <1>c, <1>u, <2>1, <2>2, <2>3 DEF Mode, Early
<1>5. ASSUME NEW s \in Sessions, Unlock(s)
      PROVE  Mode(z)'
  <2>1. /\ caller' = [caller EXCEPT ![s] = "none"]
        /\ UNCHANGED <<adm, sess, mail, turn>>
    BY Zenon, <1>5 DEF Unlock
  <2>2. caller'[z] = IF s = z THEN "none" ELSE caller[z]
    BY Zenon, <1>t, <2>1
  <2> QED
    BY <1>c, <2>1, <2>2 DEF Mode, Early
<1>6. ASSUME NEW s \in Sessions, NEW m \in Messages(s), NEW e \in EventsOf(m),
             Dispatch(s, e)
      PROVE  Mode(z)'
  <2>1. /\ turn' = [turn EXCEPT ![s] = turn'[s]] /\ turn'[s].msg = m
        /\ UNCHANGED <<sess, mail>>
    BY Zenon, <1>6, Dispatched
  <2>2. UNCHANGED <<adm, caller>>
    BY Zenon, <1>6 DEF Dispatch
  <2>3. s # z => turn'[z] = turn[z]
    BY Zenon, <1>t, <2>1
  <2>4. m \in mail[s] \cup {"resume"}
    BY Zenon DEF Messages
  <2> QED
    BY Zenon, <1>c, <2>1, <2>2, <2>3, <2>4 DEF Mode, Early
<1>7. ASSUME NEW s \in Sessions, CommitAck(s)
      PROVE  Mode(z)'
  <2>1. /\ sess' = [sess EXCEPT ![s] = turn[s].next] /\ turn[s] # NoTurn
        /\ turn' = [turn EXCEPT ![s] = NoTurn] /\ adm' = adm
        /\ mail' = [mail EXCEPT ![s] = IF Terminal(turn[s].next) THEN {}
                                       ELSE @ \ {turn[s].msg}]
        /\ caller' = IF turn[s].msg = "start" THEN [caller EXCEPT ![s] = "none"]
                     ELSE caller
    BY Zenon, <1>7 DEF CommitAck, Consumed
  <2>2. CASE s # z
    BY Zenon, <1>t, <1>u, <2>1, <2>2
  <2>3. CASE s = z
    <3>1. /\ sess'[z] = turn[z].next /\ turn'[z] = NoTurn /\ adm'[z] = adm[z]
          /\ mail'[z] \subseteq mail[z] \ {turn[z].msg}
          /\ caller'[z] = IF turn[z].msg = "start" THEN "none" ELSE caller[z]
      BY Zenon, <1>t, <2>1, <2>3
    <3>2. sess[z].phase = "idle" /\ turn[z].msg # "start"
            => turn[z].next.phase = "idle"
      BY Zenon, <2>1, <2>3 DEF TurnInv, Shape, Goes
    <3> QED
      BY Zenon, <1>c, <1>n, <3>1, <3>2 DEF Mode, Early
  <2> QED
    BY Zenon, <2>2, <2>3
<1>8. ASSUME NEW s \in Sessions, CommitFails(s)
      PROVE  Mode(z)'
  <2>1. /\ turn' = [turn EXCEPT ![s] = NoTurn] /\ adm' = adm /\ sess' = sess
        /\ \/ /\ turn[s].msg = "start" /\ CallerFails(s)
              /\ mail' = [mail EXCEPT ![s] = IF Terminal(sess[s]) THEN {}
                                             ELSE @ \ {"start"}]
           \/ turn[s].msg # "start" /\ UNCHANGED <<mail, caller>>
    BY Zenon, <1>8 DEF CommitFails, Consumed
  <2>2. CASE s # z
    BY Zenon, <1>t, <1>u, <2>1, <2>2 DEF CallerFails
  <2>3. CASE s = z
    <3>1. /\ turn'[z] = NoTurn /\ adm'[z] = adm[z] /\ sess'[z] = sess[z]
          /\ \/ /\ turn[z].msg = "start" /\ mail'[z] \subseteq mail[z] \ {"start"}
             \/ turn[z].msg # "start" /\ mail'[z] = mail[z] /\ caller'[z] = caller[z]
      BY Zenon, <1>t, <2>1, <2>3
    <3> QED
      BY Zenon, <1>c, <1>n, <3>1 DEF Mode, Early
  <2> QED
    BY <2>2, <2>3
<1>9. ASSUME NEW s \in Sessions, OperatorSubmit(s) \/ OperatorFinalize(s)
      PROVE  Mode(z)'
  <2>1. /\ UNCHANGED <<adm, caller, sess, turn>>
        /\ \E r \in Replies : Answer(s, r)
    BY Zenon, <1>9 DEF OperatorSubmit, OperatorFinalize, Replies
  <2>2. "start" \in mail'[z] => "start" \in mail[z]
    BY <1>t, <2>1 DEF Answer, Replies
  <2>3. "start" \in mail[z] => "start" \in mail'[z] \/ Terminal(sess[z])
    BY Zenon, <1>t, <2>1 DEF Answer
  <2> QED
    BY Zenon, <1>c, <2>1, <2>2, <2>3 DEF Mode, Early, Terminal
<1> QED
  BY Zenon, <1>1, <1>2, <1>3, <1>4, <1>5, <1>6, <1>7, <1>8, <1>9, <1>c DEF Next

\* Epochs stay distinct: Select takes the next one.
LEMMA EpochStep ==
    ASSUME SpendInv, ModeInv, EpochInv, [Next]_vars
    PROVE  EpochInv'
<1> USE DEF rpcVars, managerVars
<1>t. DOMAIN adm = Sessions /\ epoch \in Nat /\ DOMAIN held = Sessions
  BY Zenon DEF ModeInv, EpochInv
<1>c. Calm' => Calm /\ ~Restart
  BY Zenon, Calmer
<1>1. ASSUME UNCHANGED <<epoch, held>>,
             \A z \in Sessions : adm'[z] # "idle" => adm[z] # "idle"
      PROVE  EpochInv'
  BY Zenon, <1>1, <1>c DEF EpochInv
<1>2. ASSUME NEW s \in Sessions, Select(s)
      PROVE  EpochInv'
  <2>1. /\ epoch' = epoch + 1 /\ held' = [held EXCEPT ![s] = epoch']
        /\ adm' = [adm EXCEPT ![s] = "selected"]
    BY Zenon, <1>2 DEF Select
  <2>2. epoch' \in Nat /\ epoch' > epoch /\ epoch' > 0
    BY <1>t, <2>1
  <2>3. /\ DOMAIN held' = Sessions /\ held'[s] = epoch'
        /\ \A z \in Sessions \ {s} : held'[z] = held[z] /\ adm'[z] = adm[z]
    BY Zenon, <1>t, <2>1
  <2>4. ASSUME Calm', NEW z \in Sessions
        PROVE  /\ held'[z] \in Nat /\ held'[z] <= epoch'
               /\ adm'[z] # "idle" => held'[z] > 0
    BY <1>c, <1>t, <2>2, <2>3, <2>4 DEF EpochInv
  <2>5. ASSUME Calm', NEW y \in Sessions, NEW z \in Sessions,
               held'[y] = held'[z], held'[y] > 0
        PROVE  y = z
    BY <1>c, <1>t, <2>2, <2>3, <2>5 DEF EpochInv
  <2> QED
    BY Zenon, <2>2, <2>3, <2>4, <2>5 DEF EpochInv
<1>3. ASSUME NEW s \in Sessions, SetupFails(s) \/ AskRegistry(s) \/ RegistryAdmits(s)
      PROVE  EpochInv'
  <2>1. /\ UNCHANGED <<epoch, held>> /\ adm[s] # "idle"
        /\ \E x : adm' = [adm EXCEPT ![s] = x]
    BY Zenon, <1>3 DEF SetupFails, AskRegistry, RegistryAdmits
  <2> QED
    BY Zenon, <1>1, <1>t, <2>1
<1>4. ASSUME NEW s \in Sessions, NEW e, Dispatch(s, e)
      PROVE  EpochInv'
  BY Zenon, <1>1, <1>4 DEF Dispatch
<1>5. ASSUME NEW s \in Sessions,
             \/ Unlock(s) \/ CommitAck(s) \/ CommitFails(s)
             \/ OperatorSubmit(s) \/ OperatorFinalize(s)
      PROVE  EpochInv'
  BY Zenon, <1>1, <1>5
  DEF Unlock, CommitAck, CommitFails, OperatorSubmit, OperatorFinalize
<1>6. CASE Restart
  <2>1. epoch' = 0 /\ held' = held
    BY Zenon, <1>6 DEF Restart
  <2> QED
    BY Zenon, <1>6, <1>c, <1>t, <2>1 DEF EpochInv
<1>7. CASE \/ CoinReserves \/ DetachedReserveTimeout \/ LateReserveFails
           \/ NewBlock \/ UNCHANGED vars
           \/ \E e \in reports : SpendReservationFailed(e)
  <2>1. UNCHANGED <<epoch, held, adm>>
    BY Zenon, <1>7 DEF CoinReserves, DetachedReserveTimeout, LateReserveFails,
       NewBlock, SpendReservationFailed, vars
  <2> QED
    BY Zenon, <1>1, <2>1
<1> QED
  BY Zenon, <1>2, <1>3, <1>4, <1>5, <1>6, <1>7 DEF Next

\* A step that gives nobody a claim and leaves the reservation alone.
LEMMA MarkKeeps ==
    ASSUME MarkInv, UNCHANGED <<mark, epoch, inbox, reports, held>>,
           row' \in {row} \cup Gone, row \in Gone => row' \in Gone,
           Calm' => Calm, \A z \in Sessions : Claims(z)' => Claims(z)
    PROVE  MarkInv'
<1> SUFFICES ASSUME Calm', row' \notin Gone
             PROVE  reports' = {} /\ (Free' \/ Taken')
  BY Zenon DEF MarkInv
<1>1. row' = row /\ reports = {} /\ (Free \/ Taken)
  BY Zenon DEF MarkInv
<1>2. CASE Free
  BY Zenon, <1>1, <1>2 DEF Free
<1>3. CASE Taken
  BY Zenon, <1>1, <1>3 DEF Taken, Reserve
<1> QED
  BY Zenon, <1>1, <1>2, <1>3

\* The coin's rows: what is gone stays gone.
LEMMA GoneStays ==
    ASSUME SpendInv, NEW e, e \in {SpendReserve, SpendReleased, SpendCompleted},
           CoinAdopts(ProcessEvent(ExpiryConfig, Coin, coin, e)), height' = height
    PROVE  /\ row \in Gone => row' \in Gone
           /\ e = SpendCompleted /\ ProcessEvent(ExpiryConfig, Coin, coin, e).ok
                => row' \in Gone
<1>1. e.type \in SpendEvents \ {"block_epoch"} /\ e.height = 0
  BY DEF SpendReserve, SpendReleased, SpendCompleted, Event, SpendEvents
<1>2. e = SpendCompleted => e.type = "spend_completed"
  BY DEF SpendCompleted, Event
<1>3. /\ CoinInv /\ coin \in VTXOState /\ coin.kind = row /\ height \in Int
      /\ coin.height > 0 => coin.height <= height
  BY Zenon DEF SpendInv, CoinInv
<1> QED
  BY <1>1, <1>2, <1>3, CoinStep

\* A release that is honoured frees the coin: it was the latest reservation's,
\* and nobody else counts on the coin.
LEMMA Releases ==
    ASSUME HeldInv, Calm, row \notin Gone, NEW s \in Sessions,
           held[s] = epoch, ~Claims(s)',
           \A z \in Sessions \ {s} : Claims(z)' => Claims(z),
           inbox = <<>>, inbox' = inbox, reports' = reports, mark' = NoMark,
           CoinAdopts(CoinEvent(SpendReleased)), CoinEvent(SpendReleased).ok
    PROVE  row = "spending" /\ reports' = {} /\ (row' \in Gone \/ Free')
<1>1. coin \in VTXOState /\ coin.kind = row
  BY Zenon DEF HeldInv, SpendInv, CoinInv
<1>2. row # "live"
  BY Zenon, <1>1, SpendAnswers DEF CoinEvent
<1>3. reports = {} /\ Taken
  BY Zenon, <1>2 DEF HeldInv, MarkInv, Free
<1>4. row = "spending"
  BY Zenon, <1>2, <1>3 DEF Taken
<1>5. CoinEvent(SpendReleased).status \in {"live", "expired"}
  BY Zenon, <1>1, <1>4, SpendAnswers DEF CoinEvent
<1>6. row' \in {"live", "expired"}
  BY Zenon, <1>5 DEF CoinAdopts, NoStatus
<1>7. \A z \in Sessions : ~Claims(z)'
  <2>1. \A z \in Sessions : Claims(z) => held[z] = held[s] /\ held[s] > 0
    BY Zenon, <1>3 DEF Taken
  <2> QED
    BY Zenon, <2>1 DEF HeldInv, EpochInv
<1>8. row' \in Gone \/ Free'
  BY Zenon, <1>6, <1>7 DEF Free, Gone, Kinds
<1> QED
  BY Zenon, <1>3, <1>4, <1>8

\* A session's release that is not superseded names the latest reservation.
LEMMA HolderReleases ==
    ASSUME HeldInv, Calm, row \notin Gone, NEW s \in Sessions,
           sess[s].phase = "submit", mark # NoMark, ~Superseded(held[s])
    PROVE  held[s] = epoch
<1>1. adm[s] = "done" /\ held[s] > 0 /\ held[s] \in Nat /\ epoch \in Nat
  BY Zenon DEF HeldInv, ModeInv, Mode, EpochInv
<1>2. mark = epoch /\ epoch > 0
  BY Zenon DEF HeldInv, MarkInv, Free, Taken
<1> QED
  BY <1>1, <1>2 DEF Superseded

\* The mark, the reservation and the row keep saying the same.
LEMMA MarkStep ==
    ASSUME HeldInv, [Next]_vars
    PROVE  MarkInv'
<1> USE DEF rpcVars, managerVars, sessionVars, coinVars
<1>i. SpendInv /\ TurnInv /\ ModeInv /\ EpochInv /\ MarkInv
  BY Zenon DEF HeldInv
<1>t. /\ DOMAIN turn = Sessions /\ DOMAIN sess = Sessions
      /\ mail \in [Sessions -> SUBSET (Replies \cup {"start"})]
      /\ DOMAIN adm = Sessions /\ DOMAIN caller = Sessions /\ DOMAIN held = Sessions
      /\ epoch \in Nat
  BY Zenon, <1>i DEF SpendInv, SessionInv, ModeInv, EpochInv
<1>v. coin \in VTXOState /\ coin.kind = row /\ height \in Int
  BY Zenon, <1>i DEF SpendInv, CoinInv
<1> SUFFICES ASSUME Calm' PROVE MarkInv'
  BY Zenon DEF MarkInv
<1>c. /\ Calm /\ (hit' = {} => hit = {}) /\ ~Restart /\ ~DetachedReserveTimeout
      /\ \A kind : Fault(kind) => kind = "commit"
  BY Zenon, <1>i, Calmer DEF Fault, Calm
<1>m. \A s \in Sessions : Mode(s)
  BY Zenon, <1>c, <1>i DEF ModeInv
<1>k. MarkInv /\ (Calm' => Calm)
  BY Zenon, <1>c, <1>i
<1>1. CASE CoinReserves
  <2>1. /\ CoinAdopts(CoinEvent(SpendReserve)) /\ inbox # <<>>
        /\ ReserveOutcome(CoinEvent(SpendReserve).ok)
        /\ UNCHANGED <<mark, epoch, held, adm, caller, mail, sess, turn, height>>
    BY Zenon, <1>1, <1>c DEF CoinReserves
  <2>2. row \in Gone => row' \in Gone
    BY Zenon, <1>i, <2>1, GoneStays DEF CoinEvent
  <2>3. ASSUME row \notin Gone
        PROVE  reports' = {} /\ Taken'
    <3>1. /\ reports = {} /\ Taken /\ row = "live" /\ ~Coin.asset
          /\ inbox = <<Reserve(epoch, TRUE)>>
      BY ZenonT(60), <1>c, <1>i, <2>1, <2>3 DEF MarkInv, Free, Taken
    <3>2. CoinEvent(SpendReserve).ok /\ CoinEvent(SpendReserve).status = "spending"
      BY Zenon, <1>v, <3>1, SpendAnswers DEF CoinEvent
    <3>3. row' = "spending"
      BY Zenon, <2>1, <3>2 DEF CoinAdopts, NoStatus
    <3>4. inbox' = <<>> /\ reports' = {}
      BY <2>1, <3>1, <3>2 DEF ReserveOutcome
    <3>5. \A z \in Sessions : Claims(z)' => Claims(z)
      BY Zenon, <1>c, <2>1 DEF Claims, Early, InFlight
    <3> QED
      BY Zenon, <2>1, <3>1, <3>3, <3>4, <3>5 DEF Taken
  <2> QED
    BY Zenon, <2>2, <2>3 DEF MarkInv
<1>2. CASE LateReserveFails
  <2>1. inbox # <<>> /\ Head(inbox).late /\ row' = row
    BY Zenon, <1>2 DEF LateReserveFails
  <2>2. row \in Gone
    <3>1. SUFFICES ASSUME row \notin Gone PROVE FALSE
      BY Zenon
    <3>2. inbox = <<Reserve(epoch, TRUE)>>
      BY Zenon, <1>c, <1>i, <2>1, <3>1 DEF MarkInv, Free, Taken
    <3> QED
      BY <2>1, <3>2 DEF Reserve
  <2> QED
    BY Zenon, <2>1, <2>2 DEF MarkInv
<1>3. CASE NewBlock
  <2>1. /\ CoinAdopts(CoinEvent(BlockEpoch(height'))) /\ height' = height + 1
        /\ UNCHANGED <<mark, epoch, inbox, reports, held, adm, caller, mail, sess,
                       turn, hit>>
    BY Zenon, <1>3 DEF NewBlock
  <2>2. row \notin Gone => row' \in {row} \cup Gone
    <3>1. SUFFICES ASSUME row \notin Gone PROVE row' \in {row} \cup Gone
      BY Zenon
    <3>2. row \in {"live", "spending"} /\ height' \in Int
      BY <1>v, <2>1, <3>1 DEF Gone, VTXOState
    <3>3. CoinEvent(BlockEpoch(height')).status \in Gone \cup {NoStatus}
      BY Zenon, <1>v, <3>2, SpendAnswers DEF CoinEvent
    <3> QED
      BY Zenon, <2>1, <3>3 DEF CoinAdopts
  <2>3. row \in Gone => row' \in Gone
    <3>1. /\ BlockEpoch(height').type = "block_epoch"
          /\ BlockEpoch(height').height = height'
      BY Zenon DEF BlockEpoch, Event
    <3>2. /\ height' \in Int /\ height <= height' /\ CoinInv
          /\ coin.height > 0 => coin.height <= height
      BY <1>i, <1>v, <2>1 DEF SpendInv, CoinInv
    <3> QED
      BY <1>v, <2>1, <3>1, <3>2, CoinStep DEF CoinEvent, SpendEvents
  <2>4. \A z \in Sessions : Claims(z)' => Claims(z)
    BY Zenon, <2>1 DEF Claims, Early, InFlight
  <2>5. CASE row \in Gone
    BY Zenon, <2>3, <2>5 DEF MarkInv
  <2>6. CASE row \notin Gone
    BY Zenon, <1>k, <2>1, <2>2, <2>4, <2>6, MarkKeeps
  <2> QED
    BY Zenon, <2>5, <2>6
<1>4. ASSUME NEW e \in reports, SpendReservationFailed(e)
      PROVE  MarkInv'
  <2>1. row' = row
    BY Zenon, <1>4 DEF SpendReservationFailed
  <2>2. row \in Gone
    BY Zenon, <1>4, <1>c, <1>i DEF MarkInv
  <2> QED
    BY Zenon, <2>1, <2>2 DEF MarkInv
<1>5. ASSUME NEW s \in Sessions, Select(s)
      PROVE  MarkInv'
  <2>1. /\ row = "live" /\ mark = NoMark /\ ~Coin.asset /\ row' = row
        /\ epoch' = epoch + 1 /\ mark' = epoch'
        /\ inbox' = Append(inbox, Reserve(epoch', TRUE))
        /\ held' = [held EXCEPT ![s] = epoch'] /\ reports' = reports
        /\ adm' = [adm EXCEPT ![s] = "selected"]
        /\ caller' = [caller EXCEPT ![s] = "waiting"]
        /\ UNCHANGED <<mail, sess, turn, hit>>
    BY Zenon, <1>5 DEF Select, Selectable
  <2>2. row \notin Gone /\ NoMark # epoch
    BY <1>t, <2>1 DEF Gone, NoMark
  <2>3. reports = {} /\ Free
    BY Zenon, <1>c, <1>i, <2>1, <2>2 DEF MarkInv, Taken
  <2>4. inbox' = <<Reserve(epoch', TRUE)>>
    BY <2>1, <2>3 DEF Free
  <2>5. \A z \in Sessions \ {s} : ~Claims(z)'
    <3>1. \A z \in Sessions \ {s} : adm'[z] = adm[z] /\ caller'[z] = caller[z]
      BY Zenon, <1>t, <2>1
    <3> QED
      BY Zenon, <2>1, <2>3, <3>1 DEF Free, Claims, Early, InFlight
  <2>6. epoch' > 0 /\ held'[s] = epoch'
    BY <1>t, <2>1
  <2>7. Taken'
    BY ZenonT(60), <2>1, <2>4, <2>5, <2>6 DEF Taken
  <2> QED
    BY Zenon, <2>1, <2>3, <2>7 DEF MarkInv
<1>6. ASSUME NEW s \in Sessions, SetupFails(s) \/ AskRegistry(s) \/ RegistryAdmits(s)
      PROVE  MarkInv'
  <2>1. /\ adm[s] \in {"selected", "asked"}
        /\ UNCHANGED <<mark, epoch, inbox, reports, held, row, sess, turn, hit>>
        /\ \A z \in Sessions \ {s} : /\ adm'[z] = adm[z] /\ caller'[z] = caller[z]
                                     /\ mail'[z] = mail[z]
    BY Zenon, <1>6, <1>t
    DEF SetupFails, AskRegistry, RegistryAdmits, CallerFails
  <2>2. \A z \in Sessions : Claims(z)' => Claims(z)
    BY Zenon, <2>1 DEF Claims, Early, InFlight
  <2> QED
    BY Zenon, <1>k, <2>1, <2>2, MarkKeeps
<1>7. ASSUME NEW s \in Sessions, Unlock(s)
      PROVE  MarkInv'
  <2>1. /\ caller[s] = "unlocking" /\ caller' = [caller EXCEPT ![s] = "none"]
        /\ ReleaseSpend(0) /\ height' = height
        /\ UNCHANGED <<epoch, reports, inbox, adm, held, mail, sess, turn>>
    BY Zenon, <1>7 DEF Unlock
  <2>2. inbox = <<>> /\ \/ /\ CoinAdopts(CoinEvent(SpendReleased))
                           /\ CoinEvent(SpendReleased).ok /\ mark' = NoMark
                        \/ UNCHANGED <<mark, coin, row>> /\ ~CoinEvent(SpendReleased).ok
    BY Zenon, <1>c, <2>1 DEF ReleaseSpend, Superseded
  <2>3. /\ ~Claims(s)' /\ Claims(s)
        /\ \A z \in Sessions \ {s} : Claims(z)' => Claims(z)
    <3>1. /\ caller'[s] = "none"
          /\ \A z \in Sessions \ {s} : caller'[z] = caller[z]
      BY Zenon, <1>t, <2>1
    <3>2. adm[s] = "done" /\ "start" \notin mail[s] /\ sess[s].phase = "idle"
      BY Zenon, <1>m, <2>1 DEF Mode, Early
    <3> QED
      BY Zenon, <1>c, <2>1, <3>1, <3>2 DEF Claims, Early, InFlight
  <2>4. CASE row \in Gone
    <3>1. row' \in Gone
      BY Zenon, <1>i, <2>1, <2>2, <2>4, GoneStays DEF CoinEvent
    <3> QED
      BY Zenon, <3>1 DEF MarkInv
  <2>5. CASE row \notin Gone
    <3>1. held[s] = epoch /\ row = "spending"
      BY Zenon, <1>c, <1>i, <2>2, <2>3, <2>5 DEF MarkInv, Free, Taken
    <3>2. CoinEvent(SpendReleased).ok
      BY Zenon, <1>v, <3>1, SpendAnswers DEF CoinEvent
    <3>3. reports' = {} /\ (row' \in Gone \/ Free')
      BY Zenon, <1>c, <2>1, <2>2, <2>3, <2>5, <3>1, <3>2, Releases
    <3> QED
      BY Zenon, <3>3 DEF MarkInv
  <2> QED
    BY Zenon, <2>4, <2>5
<1>8. ASSUME NEW s \in Sessions, NEW m \in Messages(s), NEW e \in EventsOf(m),
             Dispatch(s, e)
      PROVE  MarkInv'
  <2> DEFINE out == Turn(sess[s], e).out
  <2>1. /\ UNCHANGED <<epoch, reports, inbox, adm, caller, held, sess, mail, height>>
        /\ IF "mark_spent" \in out THEN CompleteSpend
           ELSE IF "release" \in out THEN ReleaseSpend(held[s])
           ELSE UNCHANGED <<mark, coin, row, resv>> /\ NoFault
    BY Zenon, <1>8 DEF Dispatch
  <2>2. /\ turn' = [turn EXCEPT ![s] = turn'[s]] /\ turn'[s].out = out
        /\ Shape(sess[s].phase, m, turn'[s].next.phase, out) /\ turn[s] = NoTurn
    BY ZenonT(60), <1>8, <1>i, Dispatched
  <2> HIDE DEF out
  <2>3. \A z \in Sessions \ {s} : turn'[z] = turn[z]
    BY Zenon, <1>t, <2>2
  <2>4. NoTurn.out = {}
    BY Zenon DEF NoTurn
  <2>5. \A z \in Sessions : Claims(z)' => Claims(z)
    BY Zenon, <1>c, <2>1, <2>2, <2>3, <2>4 DEF Claims, Early, InFlight
  <2>6. CASE "mark_spent" \in out
    <3>1. CoinAdopts(CoinEvent(SpendCompleted)) /\ CoinEvent(SpendCompleted).ok
      BY Zenon, <2>1, <2>6 DEF CompleteSpend
    <3>2. row' \in Gone
      BY Zenon, <1>i, <2>1, <3>1, GoneStays DEF CoinEvent
    <3> QED
      BY Zenon, <3>2 DEF MarkInv
  <2>7. CASE "mark_spent" \notin out /\ "release" \notin out
    BY Zenon, <1>k, <2>1, <2>5, <2>7, MarkKeeps
  <2>8. CASE "mark_spent" \notin out /\ "release" \in out
    <3>1. ReleaseSpend(held[s]) /\ sess[s].phase = "submit"
      BY Zenon, <2>1, <2>2, <2>8 DEF Shape
    <3>2. CASE UNCHANGED <<mark, coin, row>>
      BY Zenon, <1>k, <2>1, <2>5, <3>2, MarkKeeps
    <3>3. CASE /\ ~Superseded(held[s]) /\ inbox = <<>> /\ mark' = NoMark
               /\ CoinAdopts(CoinEvent(SpendReleased)) /\ CoinEvent(SpendReleased).ok
      <4>1. CASE row \in Gone
        <5>1. row' \in Gone
          BY Zenon, <1>i, <2>1, <3>3, <4>1, GoneStays DEF CoinEvent
        <5> QED
          BY <5>1 DEF MarkInv
      <4>2. CASE row \notin Gone
        <5>1. row # "live"
          BY Zenon, <1>v, <3>3, SpendAnswers DEF CoinEvent
        <5>2. mark # NoMark
          <6>1. mark = epoch /\ epoch > 0
            BY ZenonT(60), <1>c, <1>i, <4>2, <5>1 DEF MarkInv, Free, Taken
          <6> QED
            BY <1>t, <6>1 DEF NoMark
        <5>3. held[s] = epoch
          BY Zenon, <1>c, <3>1, <3>3, <4>2, <5>2, HolderReleases
        <5>4. ~Early(s)
          BY Zenon, <1>m, <3>1 DEF Mode
        <5>5. ~Claims(s)'
          BY Zenon, <2>1, <2>2, <2>8, <5>4 DEF Claims, Early
        <5>6. reports' = {} /\ (row' \in Gone \/ Free')
          BY Zenon, <1>c, <2>1, <2>5, <3>3, <4>2, <5>3, <5>5, Releases
        <5> QED
          BY Zenon, <5>6 DEF MarkInv
      <4> QED
        BY Zenon, <4>1, <4>2
    <3> QED
      BY Zenon, <3>1, <3>2, <3>3 DEF ReleaseSpend
  <2> QED
    BY Zenon, <2>6, <2>7, <2>8
<1>9. ASSUME NEW s \in Sessions, CommitAck(s)
      PROVE  MarkInv'
  <2>1. /\ sess' = [sess EXCEPT ![s] = turn[s].next] /\ turn[s] # NoTurn
        /\ turn' = [turn EXCEPT ![s] = NoTurn] /\ adm' = adm
        /\ mail' = [mail EXCEPT ![s] = IF Terminal(turn[s].next) THEN {}
                                       ELSE @ \ {turn[s].msg}]
        /\ caller' = IF turn[s].msg = "start" THEN [caller EXCEPT ![s] = "none"]
                     ELSE caller
        /\ UNCHANGED <<mark, epoch, inbox, reports, held, row, hit>>
    BY Zenon, <1>9 DEF CommitAck, Consumed
  <2>2. ASSUME NEW z \in Sessions \ {s} PROVE Claims(z)' => Claims(z)
    <3>1. /\ sess'[z] = sess[z] /\ turn'[z] = turn[z] /\ mail'[z] = mail[z]
          /\ caller'[z] = caller[z]
      BY Zenon, <1>t, <2>1
    <3> QED
      BY Zenon, <2>1, <3>1 DEF Claims, Early, InFlight
  <2>3. Claims(s)' => Claims(s)
    <3>1. /\ sess'[s] = turn[s].next /\ mail'[s] \subseteq mail[s]
          /\ caller'[s] \in {"none", caller[s]}
      BY Zenon, <1>t, <2>1
    <3>2. Early(s)' => Early(s)
      BY Zenon, <2>1, <3>1 DEF Early
    <3>3. ASSUME turn[s].next.phase \in {"submit", "finalize"}
          PROVE  /\ sess[s].phase \in {"submit", "finalize"} \/ turn[s].msg = "start"
                 /\ "release" \notin turn[s].out
      BY ZenonT(60), <2>1, <3>3 DEF TurnInv, Shape, Goes, Waits, HeldInv
    <3>4. turn[s].msg = "start" => Early(s)
      BY Zenon, <1>m DEF Mode, Early
    <3> QED
      BY Zenon, <2>1, <3>1, <3>2, <3>3, <3>4 DEF Claims, InFlight
  <2> QED
    BY Zenon, <1>k, <2>1, <2>2, <2>3, MarkKeeps
<1>10. ASSUME NEW s \in Sessions, CommitFails(s)
       PROVE  MarkInv'
  <2>1. /\ UNCHANGED <<mark, epoch, inbox, reports, held, row, adm, sess>>
        /\ hit' # {}
        /\ \/ /\ turn[s].msg = "start" /\ CallerFails(s)
              /\ mail' = [mail EXCEPT ![s] = IF Terminal(sess[s]) THEN {}
                                             ELSE @ \ {"start"}]
           \/ turn[s].msg # "start" /\ UNCHANGED <<mail, caller>>
    BY Zenon, <1>10 DEF CommitFails, Consumed, Fault
  <2>2. \A z \in Sessions : Early(z)' => Early(z)
    <3>1. turn[s].msg = "start" => Early(s)
      BY <1>m DEF Mode, Early
    <3>2. \A z \in Sessions \ {s} : mail'[z] = mail[z] /\ caller'[z] = caller[z]
      BY Zenon, <1>t, <2>1 DEF CallerFails
    <3> QED
      BY Zenon, <2>1, <3>1, <3>2 DEF Early
  <2>3. \A z \in Sessions : Claims(z)' => Claims(z)
    BY Zenon, <2>1, <2>2 DEF Claims
  <2> QED
    BY Zenon, <1>k, <2>1, <2>3, MarkKeeps
<1>11. ASSUME NEW s \in Sessions, OperatorSubmit(s) \/ OperatorFinalize(s)
       PROVE  MarkInv'
  <2>1. /\ UNCHANGED <<mark, epoch, inbox, reports, held, row, adm, caller, sess,
                       turn, hit>>
        /\ \E r \in Replies : Answer(s, r)
    BY Zenon, <1>11 DEF OperatorSubmit, OperatorFinalize, Replies
  <2>2. \A z \in Sessions : "start" \in mail'[z] => "start" \in mail[z]
    <3>1. PICK r \in Replies : Answer(s, r)
      BY Zenon, <2>1
    <3>2. r # "start"
      BY Zenon DEF Replies
    <3> QED
      BY Zenon, <1>t, <3>1, <3>2 DEF Answer
  <2>3. \A z \in Sessions : Claims(z)' => Claims(z)
    BY Zenon, <2>1, <2>2 DEF Claims, Early, InFlight
  <2> QED
    BY Zenon, <1>k, <2>1, <2>3, MarkKeeps
<1>12. CASE UNCHANGED vars
  <2>1. \A z \in Sessions : Claims(z)' => Claims(z)
    BY Zenon, <1>12 DEF vars, Claims, Early, InFlight
  <2> QED
    BY Zenon, <1>12, <1>k, <2>1, MarkKeeps DEF vars
<1> QED
  BY Zenon, <1>1, <1>2, <1>3, <1>4, <1>5, <1>6, <1>7, <1>8, <1>9, <1>10,
     <1>11, <1>12,
     <1>c DEF Next

\* Every behaviour satisfies HeldInv.
LEMMA HeldAlways == Spec => []HeldInv
<1>1. Init => HeldInv
  <2> SUFFICES ASSUME Init PROVE HeldInv
    OBVIOUS
  <2>1. /\ OORState("idle").phase = "idle" /\ NoTurn.msg = "none"
    BY Zenon DEF OORState, NoTurn
  <2>2. TurnInv
    BY Zenon, <2>1 DEF Init, TurnInv, Waits
  <2>3. ModeInv
    BY Zenon, <2>1 DEF Init, ModeInv, Mode, Early
  <2>4. EpochInv
    BY DEF Init, EpochInv
  <2>5. \A s \in Sessions : ~Claims(s)
    BY Zenon, <2>1 DEF Init, Claims, Early, InFlight
  <2>6. MarkInv
    BY Zenon, <2>5 DEF Init, MarkInv, Free
  <2> QED
    BY Zenon, <2>2, <2>3, <2>4, <2>6, SpendInit DEF HeldInv
<1>2. HeldInv /\ [Next]_vars => HeldInv'
  BY Zenon, SpendStep, TurnStep, ModeStep, EpochStep, MarkStep DEF HeldInv
<1> QED
  BY <1>1, <1>2, PTL DEF Spec

\* While nothing has gone wrong, the input of a session in flight cannot be
\* selected by another transfer (InputHeld), for any number of transfers: the
\* mark covers the coin until the reservation's write has landed.
THEOREM InputStaysHeld == Spec => []InputHeld
<1>1. HeldInv => InputHeld
  <2> SUFFICES ASSUME HeldInv, NEW s \in Sessions, hit = {}, InFlight(s),
                      "release" \notin turn[s].out, Selectable
               PROVE  FALSE
    BY Zenon DEF InputHeld
  <2>1. Claims(s) /\ Calm
    BY Zenon DEF Claims, Calm
  <2>2. Taken
    BY Zenon, <2>1 DEF HeldInv, MarkInv, Free, Selectable, Gone
  <2>3. mark \in Nat
    BY Zenon, <2>2 DEF Taken, HeldInv, EpochInv
  <2> QED
    BY <2>3 DEF Selectable, NoMark
<1> QED
  BY <1>1, HeldAlways, PTL

\* Only the transfer that made the latest reservation unlocks the coin
\* (OnlyHolderReleases), for any number of transfers and whatever commits fail,
\* as long as no crash, timeout or failed write has struck: handleReleaseSpend
\* compares the epochs, and an RPC unlocks only what its own transfer still
\* holds.
THEOREM HolderUnlocks == Spec => OnlyHolderReleases
<1> DEFINE Act == \/ ~(row = "spending" /\ row' = "live")
                  \/ ~(hit' \subseteq {"commit"})
                  \/ \E s \in Sessions :
                        /\ held[s] = epoch
                        /\ turn'[s] # turn[s] \/ caller'[s] # caller[s]
<1>1. HeldInv /\ [Next]_vars => [Act]_vars
  <2> SUFFICES ASSUME HeldInv, [Next]_vars, row = "spending", row' = "live", Calm'
               PROVE  \E s \in Sessions : /\ held[s] = epoch
                                          /\ \/ turn'[s] # turn[s]
                                             \/ caller'[s] # caller[s]
    BY Zenon DEF Calm
  <2> USE DEF coinVars
  <2>i. SpendInv /\ TurnInv /\ ModeInv /\ EpochInv /\ MarkInv
    BY Zenon DEF HeldInv
  <2>c. Calm /\ ~Restart /\ ~DetachedReserveTimeout
    BY Zenon, <2>i, Calmer
  <2>t. Taken /\ inbox = <<>> /\ row \notin Gone
    BY Zenon, <2>c, <2>i DEF MarkInv, Free, Taken, Gone
  <2>v. coin \in VTXOState /\ coin.kind = row /\ height \in Int
    BY Zenon, <2>i DEF SpendInv, CoinInv
  <2>1. ASSUME NewBlock PROVE FALSE
    <3>1. CoinAdopts(CoinEvent(BlockEpoch(height'))) /\ height' \in Int
      BY <2>1, <2>v DEF NewBlock
    <3>2. CoinEvent(BlockEpoch(height')).status \in Gone \cup {NoStatus}
      BY Zenon, <2>v, <3>1, SpendAnswers DEF CoinEvent
    <3> QED
      BY Zenon, <3>1, <3>2 DEF CoinAdopts, Gone
  <2>2. ASSUME NEW s \in Sessions, Unlock(s)
        PROVE  held[s] = epoch /\ caller'[s] # caller[s]
    <3>1. caller[s] = "unlocking" /\ caller' = [caller EXCEPT ![s] = "none"]
      BY Zenon, <2>2 DEF Unlock
    <3>2. Claims(s) /\ DOMAIN caller = Sessions
      BY Zenon, <2>i, <3>1 DEF Claims, Early, ModeInv
    <3> QED
      BY Zenon, <2>t, <3>1, <3>2 DEF Taken
  <2>3. ASSUME NEW s \in Sessions, NEW m \in Messages(s), NEW e \in EventsOf(m),
               Dispatch(s, e)
        PROVE  held[s] = epoch /\ turn'[s] # turn[s]
    <3>1. /\ turn'[s].msg = m /\ turn'[s].out = Turn(sess[s], e).out
          /\ Shape(sess[s].phase, m, turn'[s].next.phase, turn'[s].out)
          /\ turn[s] = NoTurn
      BY ZenonT(60), <2>3, <2>i, Dispatched
    <3>2. NoTurn.msg = "none" /\ m # "none"
      BY Zenon, <2>i DEF NoTurn, Messages, SpendInv, SessionInv, Replies
    <3>3. "mark_spent" \notin Turn(sess[s], e).out
      <4>1. SUFFICES ASSUME "mark_spent" \in Turn(sess[s], e).out PROVE FALSE
        BY Zenon
      <4>2. CompleteSpend /\ height' = height
        BY Zenon, <2>3, <4>1 DEF Dispatch
      <4>3. row' \in Gone
        BY Zenon, <2>i, <4>2, GoneStays DEF CompleteSpend, CoinEvent
      <4> QED
        BY Zenon, <4>3 DEF Gone
    <3>4. "release" \in Turn(sess[s], e).out /\ ReleaseSpend(held[s])
      BY Zenon, <2>3, <3>3 DEF Dispatch
    <3>5. ~Superseded(held[s])
      BY Zenon, <3>4 DEF ReleaseSpend
    <3>6. mark # NoMark
      <4>1. epoch \in Nat
        BY Zenon, <2>i DEF EpochInv
      <4>2. mark = epoch
        BY Zenon, <2>t DEF Taken
      <4> QED
        BY <4>1, <4>2 DEF NoMark
    <3>7. sess[s].phase = "submit"
      BY Zenon, <3>1, <3>4 DEF Shape
    <3> QED
      BY Zenon, <2>c, <2>t, <3>1, <3>2, <3>5, <3>6, <3>7, HolderReleases
  <2>4. ASSUME NEW s \in Sessions,
               \/ Select(s) \/ SetupFails(s) \/ AskRegistry(s) \/ RegistryAdmits(s)
               \/ CommitAck(s) \/ CommitFails(s) \/ OperatorSubmit(s)
               \/ OperatorFinalize(s)
        PROVE  row' = row
    BY ZenonT(60), <2>4
    DEF Select, SetupFails, AskRegistry, RegistryAdmits, CommitAck,
       CommitFails, OperatorSubmit, OperatorFinalize
  <2>5. ASSUME \/ CoinReserves \/ LateReserveFails \/ UNCHANGED vars
               \/ \E e \in reports : SpendReservationFailed(e)
        PROVE  row' = row
    BY Zenon, <2>5, <2>t
    DEF CoinReserves, LateReserveFails, SpendReservationFailed, vars
  <2> QED
    BY Zenon, <2>1, <2>2, <2>3, <2>4, <2>5, <2>c DEF Next
<1> QED
  BY <1>1, HeldAlways, PTL DEF Spec, OnlyHolderReleases

=============================================================================
