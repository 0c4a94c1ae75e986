-------------------------- MODULE VTXOActorProofs ---------------------------
(***************************************************************************)
(* A coin that is signed over to a round stays held, for any number of     *)
(* rounds, any coin and configuration, and any number of restarts, failed  *)
(* writes, lost notifications and reorganisations.                         *)
(*                                                                         *)
(* SignedIsHeld is not inductive.  The round that got the signature, but   *)
(* is not yet checkpointed, counts as well; the row names the round; the   *)
(* actor knows the round and that the signature was issued, so that it     *)
(* refuses the release of any other round and any automatic exit; and      *)
(* while the daemon starts no round of the last process is left that could *)
(* still release the coin.  NoStaleRevival, at the end, needs only the     *)
(* types of the state: what matters there is what each event of the state  *)
(* machine can make of an expired coin.                                    *)
(***************************************************************************)
EXTENDS VTXOActor, TLAPS

\* The solver gets more time than its default.
USE SMTT(30)

-----------------------------------------------------------------------------
\* What the pieces of the VTXO state machine return.

\* CheckExpiry has five answers.
LEMMA ExpiryAnswers ==
    ASSUME NEW conf, NEW vtxo, NEW h
    PROVE  CheckExpiry(conf, vtxo, h) \in {"unknown", "expired", "critical",
                                           "needs_refresh", "safe"}
BY Zenon DEF CheckExpiry

\* A turn that keeps the state, perhaps at another height.
LEMMA Stays ==
    ASSUME NEW s
    PROVE  /\ Stay(s).next = s /\ Stay(s).status = NoStatus
           /\ Refuse(s).next = s /\ Refuse(s).status = NoStatus
           /\ Refuse(s).ok = FALSE
BY Zenon DEF Stay, Refuse

\* The in-place assignment to the height keeps the state's kind.
LEMMA Heights ==
    ASSUME NEW s \in VTXOState, NEW h \in Int, NEW here,
           here = [s EXCEPT !.height = h]
    PROVE  here \in VTXOState /\ here.kind = s.kind /\ here.height = h
BY Zenon DEF VTXOState

\* A turn that moves to another kind of state and writes it.
LEMMA Moves ==
    ASSUME NEW s, NEW next, NEW status, NEW out
    PROVE  /\ Move(s, next, status, out).next = next
           /\ Move(s, next, status, out).status = status
           /\ MoveReleasing(s, next, status, out).next = next
           /\ MoveReleasing(s, next, status, out).status = status
BY Zenon DEF Stay, Move, MoveReleasing

\* What stays if the outbox fails, and the messages of the outbox.
LEMMA StaysHere ==
    ASSUME NEW s
    PROVE  /\ Stay(s).here = s /\ Stay(s).out = {}
           /\ Refuse(s).here = s /\ Refuse(s).out = {}
BY Zenon DEF Stay, Refuse

LEMMA MovesHere ==
    ASSUME NEW s, NEW next, NEW status, NEW out
    PROVE  /\ Move(s, next, status, out).here = s
           /\ Move(s, next, status, out).out = out
           /\ MoveReleasing(s, next, status, out).here = s
           /\ MoveReleasing(s, next, status, out).out = out
BY Zenon DEF Stay, Move, MoveReleasing

\* The states without a round.
LEMMA States ==
    ASSUME NEW kind \in Kinds, NEW h \in Int
    PROVE  /\ State(kind, h) \in VTXOState
           /\ State(kind, h).kind = kind /\ State(kind, h).height = h
BY Zenon DEF VTXOState, State

\* The states of a coin that is signed over to a round.
LEMMA RoundStates ==
    ASSUME NEW h \in Int, NEW r \in Rounds \cup {NoRound}, NEW issued \in BOOLEAN
    PROVE  /\ Forfeiting(h, r, issued) \in VTXOState
           /\ Forfeiting(h, r, issued).kind = "forfeiting"
           /\ Forfeiting(h, r, issued).round = r
           /\ Forfeiting(h, r, issued).issued = issued
           /\ Forfeited(r) \in VTXOState
           /\ Forfeited(r).kind = "forfeited"
BY DEF VTXOState, Kinds, Forfeiting, Forfeited

-----------------------------------------------------------------------------

\* Phases of a round that live in memory only, and those in which the round
\* has the signature and may yet use it.
Volatile == {"joined", "asked", "signed", "failed", "dead"}
Committed == {"signed", "sent", "confirmed", "told"}
SignedOver == {"forfeiting", "forfeited"}

RowType == [status: Kinds, round: Rounds \cup {NoRound}, tx: BOOLEAN]
BookType == [seen: Int, retry: Int, tip: Int]

TypeInv ==
    /\ v \in Coins
    /\ height \in Int
    /\ daemon \in {"down", "starting", "up"}
    /\ mem \in VTXOState \cup {Absent}
    /\ book \in BookType
    /\ row \in RowType
    /\ rnd \in [Rounds -> Phases]
    /\ outcomes \in Seq(Outcomes)

\* Nothing of the last process is left while the next one starts.
ProcessInv ==
    /\ daemon # "up" => \A r \in Rounds : rnd[r] \notin Volatile
    /\ daemon = "down" => mem = Absent

\* The state s knows what the row rw says of a signed-over coin.
Agree(s, rw) ==
    /\ s.kind \in SignedOver \/ rw.status \in SignedOver => s.kind = rw.status
    /\ s.kind = "forfeiting" => s.round = rw.round /\ s.issued

AgreeInv ==
    /\ mem # Absent => Agree(mem, row)
    /\ row.status = "forfeiting" => row.tx

\* The row rw holds the coin for the round r, or it is gone.
Held(rw, r) == \/ rw.status = "forfeiting" /\ rw.round = r
               \/ rw.status = "forfeited"

HoldInv == \A r \in Rounds : rnd[r] \in Committed => Held(row, r)

HeldInv == TypeInv /\ ProcessInv /\ AgreeInv /\ HoldInv

\* The row rw says what the state s is, or that the coin is exiting when its
\* actor already brought it back.
Follows(s, rw) == \/ rw.status = s.kind
                  \/ /\ rw.status = "unilateral_exit"
                     /\ s.kind \in {"live", "expired"}

\* Every reservation that is taken back is also rolled back in the row, and
\* the row follows the actor.
FollowInv == "rollback" \notin Faults /\ (mem # Absent => Follows(mem, row))

-----------------------------------------------------------------------------
\* What any event makes of a coin.  The status written is the kind of the
\* state adopted; only a forfeit request signs the coin over, to the round
\* that asks; and once the signature is issued only the confirmation, a
\* release by that round or the user's own exit takes the coin away.
Frees(e, r) == \/ e.type = "forfeit_released" /\ e.round = r
               \/ e.type = "force_unroll" /\ ~e.auto

Orderly(s, e, t) ==
    /\ t.here \in VTXOState /\ t.here.kind = s.kind
    /\ t.next \in VTXOState
    /\ t.status = NoStatus => t.next.kind = s.kind
    /\ t.status # NoStatus => t.next.kind = t.status
    /\ t.out \cap Refreshes # {} =>
         /\ s.kind \in {"live", "expired", "pending_forfeit"}
         /\ t.status \in {NoStatus, "pending_forfeit"}
         /\ s.kind = "pending_forfeit" => t.status = NoStatus
    /\ t.next.kind = "forfeiting" /\ s.kind # "forfeiting" =>
         e.type = "forfeit_request" /\ t.next.round = e.round /\ t.next.issued
    /\ t.next.kind = "forfeited" => s.kind \in SignedOver
    /\ s.kind \in SignedOver => t.here = s
    /\ s.kind = "forfeited" => t.next = s
    /\ s.kind = "forfeiting" /\ s.issued /\ t.next # s =>
         t.next.kind = "forfeited" \/ Frees(e, s.round)
    /\ s.kind = "forfeiting" /\ t.next.kind = "forfeiting" =>
         t.next = s /\ t.status = NoStatus

LEMMA OrderlyTurn ==
    ASSUME NEW cf, NEW d, NEW s \in VTXOState, NEW e, e.height \in Int,
           e.round \in Rounds \cup {NoRound}
    PROVE  Orderly(s, e, ProcessEvent(cf, d, s, e))
<1> SUFFICES ASSUME NEW t, t = ProcessEvent(cf, d, s, e),
                    NEW h, h = e.height,
                    NEW here, here = [s EXCEPT !.height = h],
                    NEW signed,
                    signed = [kind |-> "forfeiting", height |-> s.height,
                              round |-> e.round, issued |-> TRUE]
             PROVE  Orderly(s, e, t)
  BY Zenon
<1>a. /\ s.kind \in Kinds /\ s.height \in Int /\ h \in Int
      /\ s.round \in Rounds \cup {NoRound}
  BY Zenon DEF VTXOState
<1>b. ASSUME t \in {Stay(s), Refuse(s)}
      PROVE  Orderly(s, e, t)
  <2>1. t.next = s /\ t.status = NoStatus
    BY ZenonT(60), <1>b, Stays
  <2>2. t.here = s /\ t.out = {}
    BY Zenon, <1>b, StaysHere
  <2> QED
    BY Zenon, <2>1, <2>2 DEF Orderly, SignedOver
<1>h. here \in VTXOState /\ here.kind = s.kind
  BY ZenonT(60), <1>a, Heights
<1>c. ASSUME t = Stay(here), s.kind \notin SignedOver
      PROVE  Orderly(s, e, t)
  <2>1. t.next = here /\ t.status = NoStatus
    BY Zenon, <1>c, Stays
  <2>2. t.here = here /\ t.out = {}
    BY Zenon, <1>c, StaysHere
  <2> QED
    BY Zenon, <1>c, <1>h, <2>1, <2>2 DEF Orderly, SignedOver
<1>d. ASSUME NEW x \in {s, here}, NEW kind \in Kinds \ SignedOver,
             NEW k \in {s.height, h, 0}, NEW out,
             \/ t = Move(x, State(kind, k), kind, out)
             \/ t = MoveReleasing(x, State(kind, k), kind, out),
             out \cap Refreshes # {} =>
                s.kind \in {"live", "expired"} /\ kind = "pending_forfeit",
             \/ s.kind \notin SignedOver
             \/ /\ s.kind = "forfeiting" /\ x = s
                /\ ~s.issued \/ Frees(e, s.round)
      PROVE  Orderly(s, e, t)
  <2>1. k \in Int /\ kind # NoStatus
    BY <1>a DEF Kinds, NoStatus
  <2>2. State(kind, k) \in VTXOState /\ State(kind, k).kind = kind
    BY Zenon, <2>1, States
  <2>3. t.next = State(kind, k) /\ t.status = kind
    BY <1>d, Moves
  <2>4. t.here = x /\ t.out = out
    BY <1>d, MovesHere
  <2> QED
    BY Zenon, <1>d, <1>h, <2>1, <2>2, <2>3, <2>4 DEF Orderly, SignedOver
<1>g. ASSUME t = Move(s, signed, "forfeiting", {"signature"}),
             e.type = "forfeit_request", s.kind \notin SignedOver
      PROVE  Orderly(s, e, t)
  <2>1. /\ signed \in VTXOState /\ signed.kind = "forfeiting"
        /\ signed.round = e.round /\ signed.issued
    BY Zenon, <1>a DEF VTXOState, Kinds
  <2>2. t.next = signed /\ t.status = "forfeiting"
    BY <1>g, Moves
  <2>3. t.here = s /\ t.out = {"signature"}
    BY <1>g, MovesHere
  <2> QED
    BY Zenon, <1>g, <2>1, <2>2, <2>3
    DEF Orderly, SignedOver, Refreshes, NoStatus
<1>f. ASSUME t = forfeitReleaseTransition(
                    s, stateAfterForfeitRelease(cf, d, s.height)),
             \/ s.kind \notin SignedOver
             \/ s.kind = "forfeiting" /\ Frees(e, s.round)
      PROVE  Orderly(s, e, t)
  <2>1. \/ t = Move(s, State("expired", s.height), "expired", {})
        \/ t = Move(s, State("live", s.height), "live", {})
    BY Zenon, <1>f DEF forfeitReleaseTransition, stateAfterForfeitRelease, State
  <2> QED
    BY <1>d, <1>f, <2>1 DEF Kinds, SignedOver
<1>1. CASE s.kind = "live"
  <2>1. t = LiveState(cf, d, s, e)
    BY Zenon, <1>1 DEF ProcessEvent, IsTerminal
  <2>r. ASSUME NEW member, t = autoRefreshTransition(cf, d, here, h, member)
        PROVE  Orderly(s, e, t)
    <3>1. \/ t = Stay(here)
          \/ \E out : t = Move(here, State("pending_forfeit", h),
                               "pending_forfeit", out)
      BY Zenon, <2>r DEF autoRefreshTransition
    <3> QED
      BY Zenon, <1>1, <1>c, <1>d, <3>1 DEF Kinds, SignedOver
  <2>2. CASE e.type = "block_epoch"
    <3>1. t = LiveBlockEpoch(cf, d, s, h)
      BY Zenon, <2>1, <2>2 DEF LiveState
    <3>2. CASE CheckExpiry(cf, d, h) \in {"safe", "unknown"}
      <4>1. t = Stay(here)
        BY Zenon, <3>1, <3>2 DEF LiveBlockEpoch, Seen
      <4> QED
        BY Zenon, <1>1, <1>c, <4>1 DEF SignedOver
    <3>3. CASE CheckExpiry(cf, d, h) = "needs_refresh"
      <4>1. t = autoRefreshTransition(cf, d, here, h, FALSE)
        BY Zenon, <3>1, <3>3 DEF LiveBlockEpoch, Seen
      <4> QED
        BY Zenon, <2>r, <4>1
    <3>4. CASE CheckExpiry(cf, d, h) = "critical"
      <4>1. t = Move(here, State("unilateral_exit", h), "unilateral_exit",
                     {"expiring"})
        BY Zenon, <3>1, <3>4 DEF LiveBlockEpoch, Seen, ToExit
      <4> QED
        BY Zenon, <1>1, <1>d, <4>1 DEF Kinds, SignedOver, Refreshes
    <3>5. CASE CheckExpiry(cf, d, h) = "expired"
      <4>1. t = Move(here, State("expired", h), "expired", {})
        BY Zenon, <3>1, <3>5 DEF LiveBlockEpoch, Seen
      <4> QED
        BY <1>1, <1>d, <4>1 DEF Kinds, SignedOver
    <3> QED
      BY Zenon, <3>2, <3>3, <3>4, <3>5, ExpiryAnswers
  <2>3. CASE e.type = "critical_refresh"
    <3>1. t = autoRefreshTransition(cf, d, here, h, FALSE)
      BY Zenon, <2>1, <2>3 DEF LiveState, Seen
    <3> QED
      BY Zenon, <2>r, <3>1
  <2>4. CASE e.type = "cohort_refresh"
    <3>1. t = Stay(s) \/ t = autoRefreshTransition(cf, d, here, h, TRUE)
      BY Zenon, <2>1, <2>4 DEF LiveState, LiveCohortRefresh, Seen
    <3> QED
      BY Zenon, <1>b, <2>r, <3>1
  <2>5. CASE e.type = "spend_reserve"
    <3>1. \/ t = Refuse(s)
          \/ t = Move(s, State("spending", s.height), "spending", {})
      BY Zenon, <2>1, <2>5 DEF LiveState
    <3> QED
      BY <1>1, <1>b, <1>d, <3>1 DEF Kinds, SignedOver
  <2>6. CASE e.type = "pending_forfeit"
    <3>1. \/ t = Refuse(s)
          \/ t = Move(s, State("pending_forfeit", 0), "pending_forfeit", {})
      BY Zenon, <2>1, <2>6 DEF LiveState
    <3> QED
      BY Zenon, <1>1, <1>b, <1>d, <3>1 DEF Kinds, SignedOver
  <2>7. CASE e.type = "forfeit_request"
    <3>1. \/ t = Refuse(s)
          \/ t = Move(s, signed, "forfeiting", {"signature"})
      BY Zenon, <2>1, <2>7 DEF LiveState, handleForfeitRequest, Forfeiting
    <3> QED
      BY Zenon, <1>1, <1>b, <1>g, <2>7, <3>1 DEF SignedOver
  <2>8. CASE e.type = "force_unroll"
    <3>1. t = Move(s, State("unilateral_exit", s.height), "unilateral_exit",
                   {"expiring"})
      BY Zenon, <2>1, <2>8 DEF LiveState, ToExit
    <3> QED
      BY <1>1, <1>d, <3>1 DEF Kinds, SignedOver, Refreshes
  <2>9. CASE e.type \notin {"block_epoch", "critical_refresh", "cohort_refresh",
                 "spend_reserve", "pending_forfeit", "forfeit_request",
                 "force_unroll"}
    <3>1. t \in {Stay(s), Refuse(s)}
      BY Zenon, <2>1, <2>9 DEF LiveState
    <3> QED
      BY Zenon, <1>b, <3>1
  <2> QED
    BY Zenon, <2>2, <2>3, <2>4, <2>5, <2>6, <2>7, <2>8, <2>9
<1>2. CASE s.kind = "pending_forfeit"
  <2>1. t = PendingForfeitState(cf, d, s, e)
    BY Zenon, <1>2 DEF ProcessEvent, IsTerminal
  <2>2. CASE e.type = "cohort_refresh"
    <3>1. t = Refuse(s) \/ t = Move(s, s, NoStatus, {"refresh_member"})
      BY Zenon, <2>1, <2>2 DEF PendingForfeitState, PendingCohortRefresh
    <3>2. ASSUME t = Move(s, s, NoStatus, {"refresh_member"})
          PROVE  Orderly(s, e, t)
      <4>1. t.next = s /\ t.status = NoStatus
        BY <3>2, Moves
      <4>2. t.here = s
        BY <3>2, MovesHere
      <4> QED
        BY Zenon, <1>2, <4>1, <4>2 DEF Orderly, SignedOver
    <3> QED
      BY Zenon, <1>b, <3>1, <3>2
  <2>3. CASE e.type \in {"block_epoch", "force_unroll"}
    <3>1. \/ t = Stay(s)
          \/ \E k \in {s.height, h} :
                t = Move(s, State("unilateral_exit", k), "unilateral_exit",
                         {"expiring"})
      BY Zenon, <2>1, <2>3 DEF PendingForfeitState, PendingBlockEpoch, ToExit
    <3> QED
      BY <1>2, <1>b, <1>d, <3>1 DEF Kinds, SignedOver, Refreshes
  <2>4. CASE e.type = "forfeit_request"
    <3>1. \/ t = Refuse(s)
          \/ t = Move(s, signed, "forfeiting", {"signature"})
      BY Zenon, <2>1, <2>4 DEF PendingForfeitState, Forfeiting
    <3> QED
      BY Zenon, <1>2, <1>b, <1>g, <2>4, <3>1 DEF SignedOver
  <2>5. CASE e.type = "forfeit_released"
    <3>1. t = forfeitReleaseTransition(
                    s, stateAfterForfeitRelease(cf, d, s.height))
      BY Zenon, <2>1, <2>5 DEF PendingForfeitState
    <3> QED
      BY Zenon, <1>2, <1>f, <3>1 DEF SignedOver
  <2>6. CASE e.type \notin {"cohort_refresh", "block_epoch", "force_unroll",
                 "forfeit_request", "forfeit_released"}
    <3>1. t \in {Stay(s), Refuse(s)}
      BY Zenon, <2>1, <2>6 DEF PendingForfeitState
    <3> QED
      BY <1>b, <3>1
  <2> QED
    BY Zenon, <2>2, <2>3, <2>4, <2>5, <2>6
<1>3. CASE s.kind = "forfeiting"
  <2>1. t = ForfeitingState(cf, d, s, e)
    BY Zenon, <1>3 DEF ProcessEvent, IsTerminal
  <2>2. CASE e.type = "forfeit_confirmed"
    <3>1. t = Move(s, Forfeited(s.round), "forfeited", {"terminated"})
      BY Zenon, <2>1, <2>2 DEF ForfeitingState
    <3>2. Forfeited(s.round) \in VTXOState /\ Forfeited(s.round).kind = "forfeited"
      BY Zenon, <1>a, RoundStates
    <3>3. t.next = Forfeited(s.round) /\ t.status = "forfeited"
      BY <3>1, Moves
    <3>4. t.here = s /\ t.out = {"terminated"}
      BY <3>1, MovesHere
    <3> QED
      BY Zenon, <1>3, <3>2, <3>3, <3>4
      DEF Orderly, SignedOver, Refreshes, NoStatus
  <2>3. CASE e.type = "block_epoch"
    <3>1. \/ t = Stay(s)
          \/ /\ ~s.issued
             /\ t = Move(s, State("unilateral_exit", h), "unilateral_exit",
                         {"expiring"})
      BY Zenon, <2>1, <2>3 DEF ForfeitingState, ForfeitingBlockEpoch, ToExit,
                        forfeitSignatureIssued
    <3> QED
      BY Zenon, <1>3, <1>b, <1>d, <3>1 DEF Kinds, SignedOver, Refreshes
  <2>4. CASE e.type = "force_unroll"
    <3>1. \/ t = Stay(s)
          \/ /\ ~(e.auto /\ s.issued)
             /\ t = Move(s, State("unilateral_exit", 0), "unilateral_exit",
                         {"expiring"})
      BY Zenon, <2>1, <2>4 DEF ForfeitingState, ToExit, forfeitSignatureIssued
    <3> QED
      BY Zenon, <1>3, <1>b, <1>d, <2>4, <3>1
      DEF Kinds, SignedOver, Refreshes, Frees
  <2>5. CASE e.type = "forfeit_released"
    <3>1. \/ t = Refuse(s)
          \/ /\ e.round = s.round
             /\ t = forfeitReleaseTransition(
                        s, stateAfterForfeitRelease(cf, d, s.height))
      BY Zenon, <2>1, <2>5 DEF ForfeitingState, ForfeitingReleased
    <3> QED
      BY Zenon, <1>3, <1>b, <1>f, <2>5, <3>1 DEF Frees
  <2>6. CASE e.type \notin {"forfeit_confirmed", "block_epoch", "force_unroll",
                 "forfeit_released"}
    <3>1. t = Refuse(s)
      BY Zenon, <2>1, <2>6 DEF ForfeitingState
    <3> QED
      BY Zenon, <1>b, <3>1
  <2> QED
    BY Zenon, <2>2, <2>3, <2>4, <2>5, <2>6
<1>4. CASE s.kind = "spending"
  <2>1. t = SpendingState(cf, d, s, e)
    BY Zenon, <1>4 DEF ProcessEvent, IsTerminal
  <2>2. CASE e.type = "spend_released"
    <3>1. t = SpendingReleased(cf, d, s)
      BY Zenon, <2>1, <2>2 DEF SpendingState
    <3>2. \/ t = MoveReleasing(s, State("expired", s.height), "expired", {})
          \/ t = MoveReleasing(s, State("live", s.height), "live", {})
      BY Zenon, <3>1 DEF SpendingReleased, stateAfterForfeitRelease, State
    <3> QED
      BY <1>4, <1>d, <3>2 DEF Kinds, SignedOver
  <2>3. CASE e.type # "spend_released"
    <3>1. \/ t = Refuse(s) \/ t = Stay(here)
          \/ t = MoveReleasing(s, State("spent", 0), "spent", {"terminated"})
          \/ \E x \in {s, here}, k \in {s.height, h} :
                t = MoveReleasing(x, State("unilateral_exit", k),
                                  "unilateral_exit", {"expiring"})
      BY Zenon, <2>1, <2>3 DEF SpendingState, SpendingBlockEpoch, Seen
    <3> QED
      BY <1>4, <1>b, <1>c, <1>d, <3>1 DEF Kinds, SignedOver, Refreshes
  <2> QED
    BY Zenon, <2>2, <2>3
<1>5. CASE s.kind = "unilateral_exit"
  <2>1. t = UnilateralExitState(cf, d, s, e)
    BY Zenon, <1>5 DEF ProcessEvent, IsTerminal
  <2>2. \/ t = Stay(s)
        \/ t = Move(s, s, NoStatus, {"expiring"})
        \/ t = Move(s, State("live", s.height), "live", {})
        \/ t = Move(s, State("spent", 0), "spent", {"terminated"})
        \/ t = Move(s, State("expired", 0), "expired", {})
    BY Zenon, <2>1 DEF UnilateralExitState
  <2>3. ASSUME t = Move(s, s, NoStatus, {"expiring"})
        PROVE  Orderly(s, e, t)
    <3>1. t.next = s /\ t.status = NoStatus
      BY <2>3, Moves
    <3>2. t.here = s /\ t.out = {"expiring"}
      BY <2>3, MovesHere
    <3> QED
      BY Zenon, <1>5, <3>1, <3>2 DEF Orderly, SignedOver, Refreshes
  <2> QED
    BY <1>5, <1>b, <1>d, <2>2, <2>3 DEF Kinds, SignedOver, Refreshes
<1>6. CASE s.kind = "expired"
  <2>1. t = ExpiredState(cf, d, s, e)
    BY Zenon, <1>6 DEF ProcessEvent, IsTerminal
  <2>2. CASE e.type = "block_epoch"
    <3>1. t = ExpiredBlockEpoch(cf, d, s, h)
      BY Zenon, <2>1, <2>2 DEF ExpiredState
    <3>2. \/ t = Stay(here)
          \/ t = Move(here, State("live", h), "live", {})
          \/ t = Move(here, State("pending_forfeit", h), "pending_forfeit",
                      {"refresh_solo"})
      BY Zenon, <3>1
      DEF ExpiredBlockEpoch, forfeitReleaseTransition, Seen, State
    <3> QED
      BY <1>6, <1>c, <1>d, <3>2 DEF Kinds, SignedOver
  <2>3. CASE e.type = "pending_forfeit"
    <3>1. \/ t = Refuse(s)
          \/ t = Move(s, State("pending_forfeit", s.height),
                      "pending_forfeit", {})
      BY Zenon, <2>1, <2>3 DEF ExpiredState
    <3> QED
      BY Zenon, <1>6, <1>b, <1>d, <3>1 DEF Kinds, SignedOver
  <2>4. CASE e.type = "forfeit_request"
    <3>1. \/ t = Refuse(s)
          \/ t = Move(s, signed, "forfeiting", {"signature"})
      BY Zenon, <2>1, <2>4 DEF ExpiredState, handleForfeitRequest, Forfeiting
    <3> QED
      BY Zenon, <1>6, <1>b, <1>g, <2>4, <3>1 DEF SignedOver
  <2>5. CASE e.type \notin {"block_epoch", "pending_forfeit", "forfeit_request"}
    <3>1. t \in {Stay(s), Refuse(s)}
      BY Zenon, <2>1, <2>5 DEF ExpiredState
    <3> QED
      BY <1>b, <3>1
  <2> QED
    BY Zenon, <2>2, <2>3, <2>4, <2>5
<1>7. CASE s.kind \in {"forfeited", "spent"}
  <2>1. t = Stay(s)
    BY Zenon, <1>7 DEF ProcessEvent, IsTerminal
  <2> QED
    BY Zenon, <1>b, <2>1
<1> QED
  BY Zenon, <1>1, <1>2, <1>3, <1>4, <1>5, <1>6, <1>7, <1>a DEF Kinds

-----------------------------------------------------------------------------
\* What executing the outbox of t, taken in the state s, makes of the actor
\* and the row: nothing, the assignments made in place, a reservation that is
\* rolled back, or the next state (processOutbox).
Effect(s, rw, t, s2, rw2) ==
    \/ s2 = s /\ rw2 = rw
    \/ s2 = t.here /\ rw2 = rw
    \/ /\ t.out \cap Refreshes # {}
       /\ s2 = t.here
       /\ rw2 = IF s.kind = "pending_forfeit" \/ "rollback" \in Faults
                THEN processStatusUpdate(rw, t.status, t.next.round)
                ELSE [rw EXCEPT !.status =
                         IF s.kind = "expired" THEN "expired" ELSE "live"]
    \/ s2 = t.next /\ rw2 = processStatusUpdate(rw, t.status, t.next.round)

\* A status write.
LEMMA Written ==
    ASSUME NEW rw \in RowType, NEW status, NEW round \in Rounds \cup {NoRound},
           status \in Kinds \cup {NoStatus},
           NEW rw2, rw2 = processStatusUpdate(rw, status, round)
    PROVE  /\ rw2 \in RowType
           /\ status = NoStatus => rw2 = rw
           /\ status # NoStatus => rw2.status = status
           /\ status = "forfeiting" => rw2.round = round /\ rw2.tx
BY Zenon DEF processStatusUpdate, RowType, Kinds, NoStatus

LEMMA EffectKeeps ==
    ASSUME NEW s \in VTXOState, NEW rw \in RowType, NEW e, NEW t,
           Orderly(s, e, t), Agree(s, rw), rw.status = "forfeiting" => rw.tx,
           NEW s2, NEW rw2, Effect(s, rw, t, s2, rw2)
    PROVE  /\ s2 \in VTXOState /\ rw2 \in RowType
           /\ Agree(s2, rw2) /\ (rw2.status = "forfeiting" => rw2.tx)
           /\ \A r : Held(rw, r) => Held(rw2, r) \/ Frees(e, r)
           /\ s2 # s /\ s2.kind = "forfeiting" => Held(rw2, e.round)
<1>a. /\ t.here \in VTXOState /\ t.next \in VTXOState
      /\ t.status \in Kinds \cup {NoStatus}
      /\ t.next.round \in Rounds \cup {NoRound}
  BY Zenon DEF Orderly, VTXOState
<1>1. CASE s2 = s /\ rw2 = rw
  BY Zenon, <1>1
<1>2. CASE s2 = t.here /\ rw2 = rw
  <2>1. s2.kind = s.kind /\ (s.kind \in SignedOver => s2 = s)
    BY Zenon, <1>2 DEF Orderly
  <2> QED
    BY Zenon, <1>a, <1>2, <2>1 DEF Agree, SignedOver
<1>3. CASE /\ t.out \cap Refreshes # {} /\ s2 = t.here
           /\ rw2 = IF s.kind = "pending_forfeit" \/ "rollback" \in Faults
                    THEN processStatusUpdate(rw, t.status, t.next.round)
                    ELSE [rw EXCEPT !.status =
                             IF s.kind = "expired" THEN "expired" ELSE "live"]
  <2>1. /\ s.kind \in {"live", "expired", "pending_forfeit"}
        /\ t.status \in {NoStatus, "pending_forfeit"} /\ t.here.kind = s.kind
    BY Zenon, <1>3 DEF Orderly
  <2>2. rw.status \notin SignedOver
    BY Zenon, <2>1 DEF Agree, SignedOver
  <2>3. rw2 \in RowType /\ rw2.status \notin SignedOver
    <3>1. CASE s.kind = "pending_forfeit" \/ "rollback" \in Faults
      <4>1. rw2 = processStatusUpdate(rw, t.status, t.next.round)
        BY Zenon, <1>3, <3>1
      <4> QED
        BY <1>a, <2>1, <2>2, <4>1, Written DEF SignedOver, NoStatus, Kinds
    <3>2. CASE ~(s.kind = "pending_forfeit" \/ "rollback" \in Faults)
      BY Zenon, <1>3, <3>2 DEF RowType, Kinds, SignedOver
    <3> QED
      BY Zenon, <3>1, <3>2
  <2> QED
    BY Zenon, <1>a, <1>3, <2>1, <2>2, <2>3 DEF Agree, Held, SignedOver
<1>4. CASE s2 = t.next /\ rw2 = processStatusUpdate(rw, t.status, t.next.round)
  <2>1. /\ rw2 \in RowType
        /\ t.status = NoStatus => rw2 = rw
        /\ t.status # NoStatus => rw2.status = t.status
        /\ t.status = "forfeiting" => rw2.round = t.next.round /\ rw2.tx
    BY <1>4, <1>a, Written
  <2>2. CASE t.status = NoStatus
    <3>1. rw2 = rw /\ s2 \in VTXOState /\ s2.kind = s.kind
      BY Zenon, <1>4, <1>a, <2>1, <2>2 DEF Orderly
    <3>2. s.kind \in SignedOver => s2 = s
      BY Zenon, <1>4, <3>1 DEF Orderly, SignedOver
    <3> QED
      BY Zenon, <3>1, <3>2 DEF Agree, SignedOver
  <2>3. CASE t.status # NoStatus
    <3>1. /\ s2 \in VTXOState /\ s2.kind = t.status /\ rw2.status = t.status
      BY Zenon, <1>4, <1>a, <2>1, <2>3 DEF Orderly
    <3>2. t.status = "forfeiting" =>
            /\ s.kind # "forfeiting" /\ s2.issued /\ s2.round = e.round
            /\ rw2.round = s2.round /\ rw2.tx
      BY Zenon, <1>4, <2>1, <2>3, <3>1 DEF Orderly
    <3>3. Agree(s2, rw2) /\ (rw2.status = "forfeiting" => rw2.tx)
      BY Zenon, <3>1, <3>2 DEF Agree
    <3>4. ASSUME NEW r, Held(rw, r)
          PROVE  Held(rw2, r) \/ Frees(e, r)
      <4>1. CASE rw.status = "forfeited"
        <5>1. s.kind = "forfeited"
          BY Zenon, <4>1 DEF Agree, SignedOver
        <5>2. s2.kind = "forfeited"
          BY Zenon, <1>4, <5>1 DEF Orderly
        <5> QED
          BY Zenon, <3>1, <5>2 DEF Held
      <4>2. CASE rw.status = "forfeiting" /\ rw.round = r
        <5>1. s.kind = "forfeiting" /\ s.round = r /\ s.issued
          BY Zenon, <4>2 DEF Agree, SignedOver
        <5>2. s2 # s
          BY Zenon, <2>3, <3>1, <3>2, <5>1
        <5>3. s2.kind = "forfeited" \/ Frees(e, r)
          BY Zenon, <1>4, <5>1, <5>2 DEF Orderly
        <5> QED
          BY Zenon, <3>1, <5>3 DEF Held
      <4> QED
        BY Zenon, <3>4, <4>1, <4>2 DEF Held
    <3>5. s2.kind = "forfeiting" => Held(rw2, e.round)
      BY Zenon, <3>1, <3>2 DEF Held
    <3> QED
      BY Zenon, <2>1, <3>1, <3>3, <3>4, <3>5
  <2> QED
    BY Zenon, <2>2, <2>3
<1> QED
  BY Zenon, <1>1, <1>2, <1>3, <1>4 DEF Effect

LEMMA EffectFollows ==
    ASSUME NEW s \in VTXOState, NEW rw \in RowType, NEW e, NEW t,
           Orderly(s, e, t), Follows(s, rw), "rollback" \notin Faults,
           NEW s2, NEW rw2, Effect(s, rw, t, s2, rw2)
    PROVE  Follows(s2, rw2)
<1>a. /\ t.here.kind = s.kind
      /\ t.status \in Kinds \cup {NoStatus}
      /\ t.next.round \in Rounds \cup {NoRound}
  BY Zenon DEF Orderly, VTXOState
<1>1. CASE s2 \in {s, t.here} /\ rw2 = rw
  BY Zenon, <1>a, <1>1 DEF Follows
<1>2. CASE /\ t.out \cap Refreshes # {} /\ s2 = t.here
           /\ rw2 = IF s.kind = "pending_forfeit"
                    THEN processStatusUpdate(rw, t.status, t.next.round)
                    ELSE [rw EXCEPT !.status =
                             IF s.kind = "expired" THEN "expired" ELSE "live"]
  <2>1. /\ s.kind \in {"live", "expired", "pending_forfeit"}
        /\ s.kind = "pending_forfeit" => t.status = NoStatus
    BY Zenon, <1>2 DEF Orderly
  <2>2. CASE s.kind = "pending_forfeit"
    BY <1>a, <1>2, <2>1, <2>2, Written DEF Follows
  <2>3. CASE s.kind # "pending_forfeit"
    BY Zenon, <1>a, <1>2, <2>1, <2>3 DEF Follows, RowType
  <2> QED
    BY Zenon, <2>2, <2>3
<1>3. CASE s2 = t.next /\ rw2 = processStatusUpdate(rw, t.status, t.next.round)
  <2>1. /\ t.status = NoStatus => rw2 = rw
        /\ t.status # NoStatus => rw2.status = t.status
    BY <1>3, <1>a, Written
  <2> QED
    BY Zenon, <1>3, <2>1 DEF Orderly, Follows
<1> QED
  BY Zenon, <1>1, <1>2, <1>3 DEF Effect

-----------------------------------------------------------------------------
\* The events the actor is sent.
LEMMA Blocks ==
    ASSUME NEW h \in Int
    PROVE  /\ BlockEpoch(h).type = "block_epoch" /\ BlockEpoch(h).height = h
           /\ BlockEpoch(h).round = NoRound
           /\ CriticalRefresh(h).type = "critical_refresh"
           /\ CriticalRefresh(h).height = h
           /\ CriticalRefresh(h).round = NoRound
BY Zenon DEF BlockEpoch, CriticalRefresh, Event

LEMMA Plain ==
    ASSUME NEW e, e \in {PendingForfeit, ForfeitConfirmed, ExitFailed,
                         ExitConfirmed, ExitConflicted}
    PROVE  /\ e.height = 0 /\ e.round = NoRound
           /\ e.type \notin {"forfeit_released", "force_unroll"}
BY DEF PendingForfeit, ForfeitConfirmed, ExitFailed, ExitConfirmed,
       ExitConflicted, Event

LEMMA OfRound ==
    ASSUME NEW r, NEW signable \in BOOLEAN
    PROVE  /\ ForfeitReleased(r).height = 0 /\ ForfeitReleased(r).round = r
           /\ ForfeitReleased(r).type = "forfeit_released"
           /\ ForfeitRequest(r, signable).height = 0
           /\ ForfeitRequest(r, signable).round = r
           /\ ForfeitRequest(r, signable).type = "forfeit_request"
BY Zenon DEF ForfeitReleased, ForfeitRequest, Event

LEMMA Forced ==
    ASSUME NEW auto \in BOOLEAN
    PROVE  /\ ForceUnroll(auto).height = 0 /\ ForceUnroll(auto).round = NoRound
           /\ ForceUnroll(auto).type = "force_unroll"
           /\ ForceUnroll(auto).auto = auto
BY Zenon DEF ForceUnroll, Event

-----------------------------------------------------------------------------
\* Every round with the signature still holds the coin after the step, and the
\* row still follows the actor.
Kept == /\ \A r \in Rounds : rnd[r] \in Committed => Held(row', r)
        /\ FollowInv => FollowInv'

CoinKept ==
    /\ mem' \in VTXOState \cup {Absent}
    /\ row' \in RowType
    /\ AgreeInv'
    /\ Kept

LEMMA CoinIdle ==
    ASSUME HeldInv, row' = row, mem' = mem \/ mem' = Absent
    PROVE  CoinKept
BY Zenon DEF HeldInv, TypeInv, AgreeInv, HoldInv, CoinKept, Kept, FollowInv

\* A turn of the running actor.
LEMMA CoinTurn ==
    ASSUME HeldInv, mem # Absent, NEW e, e.height \in Int,
           e.round \in Rounds \cup {NoRound},
           \A r \in Rounds : rnd[r] \in Committed => ~Frees(e, r),
           Effect(mem, row, ProcessEvent(c, v, mem, e), mem', row')
    PROVE  /\ CoinKept
           /\ mem' # mem /\ mem'.kind = "forfeiting" => Held(row', e.round)
<1>1. mem \in VTXOState /\ row \in RowType /\ Agree(mem, row)
      /\ (row.status = "forfeiting" => row.tx)
  BY Zenon DEF HeldInv, TypeInv, AgreeInv
<1>2. Orderly(mem, e, ProcessEvent(c, v, mem, e))
  BY Zenon, <1>1, OrderlyTurn
<1>3. /\ mem' \in VTXOState /\ row' \in RowType
      /\ Agree(mem', row') /\ (row'.status = "forfeiting" => row'.tx)
      /\ \A r : Held(row, r) => Held(row', r) \/ Frees(e, r)
      /\ mem' # mem /\ mem'.kind = "forfeiting" => Held(row', e.round)
  BY <1>1, <1>2, EffectKeeps
<1>4. AgreeInv'
  BY Zenon, <1>3 DEF AgreeInv
<1>5. FollowInv => FollowInv'
  BY Zenon, <1>1, <1>2, EffectFollows DEF FollowInv
<1>6. Kept
  BY Zenon, <1>3, <1>5 DEF Kept, HeldInv, HoldInv
<1> QED
  BY Zenon, <1>3, <1>4, <1>6 DEF CoinKept

LEMMA Outbox ==
    ASSUME NEW t, processOutbox(t)
    PROVE  Effect(mem, row, t, mem', row')
BY Zenon DEF processOutbox, Effect

LEMMA Received ==
    ASSUME NEW e, Receive(e)
    PROVE  Effect(mem, row, ProcessEvent(c, v, mem, e), mem', row')
<1>1. CASE processOutbox(ProcessEvent(c, v, mem, e))
  BY Zenon, <1>1, Outbox
<1>2. CASE UNCHANGED <<mem, row, relay, job>>
  BY Zenon, <1>2 DEF Effect
<1> QED
  BY Zenon, <1>1, <1>2 DEF Receive

\* A release of round r, or of no round.
LEMMA Released ==
    ASSUME HeldInv, mem # Absent, NEW r \in Rounds \cup {NoRound},
           r \in Rounds => rnd[r] \notin Committed, ReceiveRelease(r)
    PROVE  CoinKept /\ book' \in BookType
<1> SUFFICES ASSUME NEW e, e = ForfeitReleased(r),
                    NEW t, t = ProcessEvent(c, v, mem, e)
             PROVE  CoinKept /\ book' \in BookType
  BY Zenon
<1>1. e.height = 0 /\ e.round = r /\ e.type = "forfeit_released"
  BY Zenon, OfRound
<1>2. mem \in VTXOState /\ book \in BookType
  BY Zenon DEF HeldInv, TypeInv
<1>3. Orderly(mem, e, t)
  BY <1>1, <1>2, OrderlyTurn
<1>4. \/ mem' = t.next /\ row' = processStatusUpdate(row, t.status, NoRound)
      \/ mem' = mem /\ row' = row
  BY Zenon DEF ReceiveRelease
<1>5. processStatusUpdate(row, t.status, NoRound)
        = processStatusUpdate(row, t.status, t.next.round)
  <2>1. t.status # "forfeiting"
    BY Zenon, <1>1, <1>3 DEF Orderly, NoStatus
  <2> QED
    BY Zenon, <2>1 DEF processStatusUpdate
<1>6. Effect(mem, row, t, mem', row')
  BY Zenon, <1>4, <1>5 DEF Effect
<1>7. \A q \in Rounds : rnd[q] \in Committed => ~Frees(e, q)
  BY Zenon, <1>1, NoRoundAssumption DEF Frees
<1>8. CoinKept
  BY <1>1, <1>6, <1>7, CoinTurn
<1>9. book' \in BookType
  <2>1. book' = recordAutomaticRefreshRelease(book, mem, e) \/ book' = book
    BY Zenon DEF ReceiveRelease
  <2>2. MaxOf(mem.height, book.seen) + RetryDelay \in Int
    BY <1>2, ActorAssumption DEF MaxOf, VTXOState, BookType
  <2> QED
    BY Zenon, <1>2, <2>1, <2>2 DEF recordAutomaticRefreshRelease, BookType
<1> QED
  BY Zenon, <1>8, <1>9

\* A block.
LEMMA BlockTurns ==
    ASSUME HeldInv, mem # Absent, NEW h \in Int, BlockTurn(h)
    PROVE  CoinKept /\ BookAt(h) \in BookType
<1>a. mem \in VTXOState /\ row \in RowType /\ book \in BookType
  BY Zenon DEF HeldInv, TypeInv
<1>b. BookAt(h) \in BookType
  <2>1. MaxOf(book.seen, h) \in Int /\ RetryAfter(h) \in Int
    BY <1>a DEF MaxOf, RetryAfter, BookType
  <2> QED
    BY Zenon, <1>a, <2>1 DEF BookAt, BookType
<1>c. ASSUME mem' = Seen(mem, h), row' = row, mem.kind = "live"
      PROVE  CoinKept
  <2>1. mem' \in VTXOState /\ mem'.kind = "live"
    BY ZenonT(60), <1>a, <1>c, Heights DEF Seen
  <2>2. FollowInv => FollowInv'
    BY Zenon, <1>c, <2>1 DEF FollowInv, Follows
  <2> QED
    BY Zenon, <1>a, <1>c, <2>1, <2>2
       DEF HeldInv, AgreeInv, HoldInv, Agree, SignedOver, CoinKept, Kept
<1> SUFFICES CoinKept
  BY Zenon, <1>b
<1>1. CASE Defers(h)
  BY Zenon, <1>1, <1>c DEF BlockTurn, Defers
<1>2. CASE ~Defers(h)
  <2>1. PICK e \in preflightCriticalExit(h) :
            \/ mem' = mem /\ row' = row
            \/ HoldsBack(e, h) /\ mem' = Seen(mem, h) /\ row' = row
            \/ processOutbox(ProcessEvent(c, v, mem, e))
    BY Zenon, <1>2 DEF BlockTurn
  <2>2. e.height \in Int /\ e.round = NoRound
        /\ e.type \notin {"forfeit_released", "force_unroll"}
    BY <2>1, Blocks DEF preflightCriticalExit
  <2>3. CASE mem' = mem /\ row' = row
    BY Zenon, <2>3, CoinIdle
  <2>4. CASE HoldsBack(e, h) /\ mem' = Seen(mem, h) /\ row' = row
    BY Zenon, <1>c, <2>4 DEF HoldsBack
  <2>5. CASE processOutbox(ProcessEvent(c, v, mem, e))
    BY Zenon, <2>2, <2>5, Outbox, CoinTurn DEF Frees
  <2> QED
    BY Zenon, <2>1, <2>3, <2>4, <2>5
<1> QED
  BY Zenon, <1>1, <1>2

\* The outcome of an exit.
LEMMA ExitTold ==
    ASSUME HeldInv, NEW o \in Outcomes, handleExitOutcome(o)
    PROVE  CoinKept /\ book' \in BookType
<1>a. /\ book \in BookType /\ row \in RowType /\ height \in Int
      /\ v.createdHeight \in Int
  BY ActorAssumption DEF HeldInv, TypeInv
<1>1. CASE mem # Absent
  <2>1. Receive(ExitEvent(o)) /\ book' = book
    BY Zenon, <1>1 DEF handleExitOutcome
  <2>2. ExitEvent(o) \in {ExitFailed, ExitConfirmed, ExitConflicted}
    BY Zenon DEF ExitEvent, Outcomes
  <2>3. /\ ExitEvent(o).height = 0 /\ ExitEvent(o).round = NoRound
        /\ ExitEvent(o).type \notin {"forfeit_released", "force_unroll"}
    BY Zenon, <2>2, Plain
  <2>4. CoinKept
    BY <1>1, <2>1, <2>3, Received, CoinTurn DEF Frees
  <2> QED
    BY Zenon, <1>a, <2>1, <2>4
<1>2. CASE mem = Absent /\ row.status # "unilateral_exit"
  BY Zenon, <1>a, <1>2, CoinIdle DEF handleExitOutcome
<1>3. CASE mem = Absent /\ row.status = "unilateral_exit"
  <2>1. /\ Relived(o) \in VTXOState /\ Relived(o).kind \in {"live", "expired"}
    BY <1>a, States DEF Relived, Kinds
  <2>2. NewBook(height) \in BookType
    BY <1>a DEF NewBook, BookType
  <2>3. /\ mem' = Absent \/ mem' = Relived(o)
        /\ book' \in BookType
        /\ \/ row' = row
           \/ row' = [row EXCEPT !.status = "spent"]
           \/ row' = [row EXCEPT !.status = Relived(o).kind]
    BY Zenon, <1>a, <1>3, <2>2 DEF handleExitOutcome
  <2>4. row' \in RowType /\ row'.status \notin SignedOver
    BY Zenon, <1>a, <1>3, <2>1, <2>3 DEF RowType, Kinds, SignedOver
  <2>5. AgreeInv'
    BY Zenon, <2>1, <2>3, <2>4 DEF AgreeInv, Agree, SignedOver
  <2>6. FollowInv => FollowInv'
    <3>1. CASE o = "confirmed"
      BY Zenon, <1>3, <3>1 DEF handleExitOutcome, FollowInv
    <3>2. CASE o # "confirmed"
      <4>1. mem' = Relived(o) /\ row'.status \in {"unilateral_exit", mem'.kind}
        BY Zenon, <1>a, <1>3, <3>2 DEF handleExitOutcome, RowType
      <4> QED
        BY Zenon, <2>1, <4>1 DEF FollowInv, Follows
    <3> QED
      BY Zenon, <3>1, <3>2
  <2>7. Kept
    BY Zenon, <1>3, <2>6 DEF Kept, HeldInv, HoldInv, Held
  <2> QED
    BY Zenon, <2>1, <2>3, <2>4, <2>5, <2>7 DEF CoinKept
<1> QED
  BY Zenon, <1>1, <1>2, <1>3

\* The round an orphaned coin is released from does not hold its signature.
LEMMA Orphans ==
    ASSUME HeldInv, daemon # "up", Orphaned, NEW e, e = OrphanRelease
    PROVE  /\ e.height = 0 /\ e.type = "forfeit_released"
           /\ e.round \in Rounds \cup {NoRound}
           /\ \A r \in Rounds : e.round = r => rnd[r] \notin Committed
<1>1. /\ e.height = 0 /\ e.type = "forfeit_released"
      /\ e.round = IF row.status = "forfeiting" THEN row.round ELSE NoRound
  BY Zenon, OfRound DEF OrphanRelease
<1>2. row.round \in Rounds \cup {NoRound}
  BY Zenon DEF HeldInv, TypeInv, RowType
<1>3. ASSUME NEW r \in Rounds, e.round = r
      PROVE  rnd[r] \notin Committed
  <2>1. row.status = "forfeiting" /\ row.round = r
    BY Zenon, <1>1, <1>3, NoRoundAssumption
  <2>2. ~Checkpointed(r) /\ rnd[r] \notin Volatile
    BY Zenon, <2>1 DEF Orphaned, HeldInv, ProcessInv
  <2> QED
    BY Zenon, <2>2 DEF Checkpointed, Volatile, Committed
<1> QED
  BY Zenon, <1>1, <1>2, <1>3

\* No stored row is misread at a start, and no user takes a signed coin out.
CleanReads == "read" \notin Faults /\ "manual" \notin Triggers

\* Manager.Start.
LEMMA Started ==
    ASSUME HeldInv, CleanReads, Start
    PROVE  CoinKept /\ book' \in BookType
<1>a. /\ book \in BookType /\ row \in RowType /\ height \in Int
      /\ v.createdHeight \in Int /\ mem = Absent /\ daemon = "down"
  BY ActorAssumption DEF HeldInv, TypeInv, ProcessInv, Start
<1>1. CASE /\ row.status = "unilateral_exit" /\ job \in Outcomes
           /\ handleExitOutcome(job)
  BY Zenon, <1>1, ExitTold
<1>2. CASE UNCHANGED <<mem, row, relay, job, book>>
  BY Zenon, <1>a, <1>2, CoinIdle
<1>3. CASE /\ row.status \notin {"unilateral_exit", "forfeited", "spent"}
           /\ book' = NewBook(height)
           /\ \E s : /\ s = statusToState(v, row, TRUE)
                    /\ \/ /\ Orphaned
                          /\ mem' = ProcessEvent(c, v, s, OrphanRelease).next
                          /\ row' = processStatusUpdate(row,
                                ProcessEvent(c, v, s, OrphanRelease).status,
                                NoRound)
                       \/ mem' = s /\ row' = row
  <2>1. book' \in BookType
    BY <1>a, <1>3 DEF NewBook, BookType
  <2>2. PICK s : /\ s = statusToState(v, row, TRUE)
                 /\ \/ /\ Orphaned
                       /\ mem' = ProcessEvent(c, v, s, OrphanRelease).next
                       /\ row' = processStatusUpdate(row,
                             ProcessEvent(c, v, s, OrphanRelease).status,
                             NoRound)
                    \/ mem' = s /\ row' = row
    BY Zenon, <1>3
  <2>3. s \in VTXOState /\ Agree(s, row) /\ s.kind = row.status
    <3>1. CASE row.status = "forfeiting"
      <4>1. row.tx /\ row.round \in Rounds \cup {NoRound}
        BY Zenon, <1>a, <3>1 DEF HeldInv, AgreeInv, RowType
      <4>2. s = [kind |-> "forfeiting", height |-> 0, round |-> row.round,
                 issued |-> TRUE]
        BY Zenon, <2>2, <3>1, <4>1 DEF statusToState, Forfeiting
      <4> QED
        BY <3>1, <4>1, <4>2 DEF VTXOState, Kinds, Agree
    <3>2. CASE row.status # "forfeiting"
      <4>1. \E h \in Int : s = State(row.status, h)
        BY <1>a, <1>3, <2>2, <3>2 DEF statusToState, RowType
      <4>2. s \in VTXOState /\ s.kind = row.status
        BY <1>a, <4>1, States DEF RowType
      <4> QED
        BY Zenon, <1>3, <3>2, <4>2 DEF Agree, SignedOver
    <3> QED
      BY Zenon, <3>1, <3>2
  <2>4. CASE mem' = s /\ row' = row
    <3>1. FollowInv => FollowInv'
      BY Zenon, <2>3, <2>4 DEF FollowInv, Follows
    <3> QED
      BY Zenon, <2>1, <2>3, <2>4, <3>1
         DEF HeldInv, TypeInv, AgreeInv, HoldInv, CoinKept, Kept
  <2>5. CASE /\ Orphaned
             /\ mem' = ProcessEvent(c, v, s, OrphanRelease).next
             /\ row' = processStatusUpdate(row,
                   ProcessEvent(c, v, s, OrphanRelease).status, NoRound)
    <3> SUFFICES ASSUME NEW e, e = OrphanRelease,
                        NEW t, t = ProcessEvent(c, v, s, e)
                 PROVE  CoinKept
      BY Zenon, <2>1
    <3>1. /\ e.height = 0 /\ e.type = "forfeit_released"
          /\ e.round \in Rounds \cup {NoRound}
          /\ \A r \in Rounds : e.round = r => rnd[r] \notin Committed
      BY Zenon, <1>a, <2>5, Orphans
    <3>2. Orderly(s, e, t)
      BY <2>3, <3>1, OrderlyTurn
    <3>3. t.status # "forfeiting"
      BY Zenon, <3>1, <3>2 DEF Orderly, NoStatus
    <3>4. row' = processStatusUpdate(row, t.status, t.next.round)
      BY Zenon, <2>5, <3>3 DEF processStatusUpdate
    <3>5. Effect(s, row, t, mem', row')
      BY Zenon, <2>5, <3>4 DEF Effect
    <3>6. /\ mem' \in VTXOState /\ row' \in RowType
          /\ Agree(mem', row') /\ (row'.status = "forfeiting" => row'.tx)
          /\ \A r : Held(row, r) => Held(row', r) \/ Frees(e, r)
      BY Zenon, <1>a, <2>3, <3>2, <3>5, EffectKeeps DEF HeldInv, AgreeInv
    <3>7. FollowInv => FollowInv'
      BY Zenon, <1>a, <2>3, <3>2, <3>5, EffectFollows DEF FollowInv, Follows
    <3>8. Kept
      BY Zenon, <3>1, <3>6, <3>7 DEF Kept, HeldInv, HoldInv, Frees
    <3> QED
      BY Zenon, <3>6, <3>8 DEF CoinKept, AgreeInv
  <2> QED
    BY Zenon, <2>2, <2>4, <2>5
<1> QED
  BY Zenon, <1>1, <1>2, <1>3 DEF Start, CleanReads

-----------------------------------------------------------------------------
\* What is left to show of a step once the coin is kept: when no round moves,
\* and when one does.
LEMMA RoundsIdle ==
    ASSUME HeldInv, CoinKept, UNCHANGED <<v, rnd>>, height' \in Int,
           book' \in BookType, outcomes' \in Seq(Outcomes),
           \/ daemon' = daemon /\ (daemon = "down" => mem' = mem)
           \/ daemon' = "up"
           \/ daemon = "down" /\ daemon' = "starting"
    PROVE  HeldInv'
<1>1. TypeInv'
  BY Zenon DEF HeldInv, TypeInv, CoinKept
<1>2. ProcessInv'
  BY Zenon DEF HeldInv, ProcessInv
<1>3. AgreeInv' /\ HoldInv'
  BY Zenon DEF CoinKept, Kept, HoldInv
<1> QED
  BY Zenon, <1>1, <1>2, <1>3 DEF HeldInv

LEMMA RoundMoves ==
    ASSUME HeldInv, CoinKept, UNCHANGED <<v, height, daemon, outcomes>>,
           book' \in BookType, NEW r \in Rounds, NEW phase \in Phases,
           rnd' = [rnd EXCEPT ![r] = phase],
           phase \in Committed => rnd[r] \in Committed \/ Held(row', r),
           daemon = "up" \/ (phase \notin Volatile /\ mem' = mem)
    PROVE  HeldInv'
<1>1. rnd \in [Rounds -> Phases] /\ rnd' \in [Rounds -> Phases]
  BY Zenon DEF HeldInv, TypeInv
<1>2. \A q \in Rounds : rnd'[q] = IF q = r THEN phase ELSE rnd[q]
  BY Zenon, <1>1
<1>3. TypeInv'
  BY Zenon, <1>1 DEF HeldInv, TypeInv, CoinKept
<1>4. ProcessInv'
  BY Zenon, <1>2 DEF HeldInv, ProcessInv
<1>5. AgreeInv' /\ HoldInv'
  BY Zenon, <1>2 DEF CoinKept, Kept, HoldInv
<1> QED
  BY Zenon, <1>3, <1>4, <1>5 DEF HeldInv

\* The chain and the actor's own turns.
LEMMA TurnsKeep ==
    ASSUME HeldInv, CleanReads,
           \/ NewBlock \/ Reorg \/ Epoch \/ StartTip \/ ReserveForfeit
           \/ RoundReject \/ (\E auto \in BOOLEAN : ForceUnrollRequest(auto))
    PROVE  HeldInv' /\ Kept
<1>a. /\ height \in Int /\ book \in BookType /\ book.tip \in Int
      /\ outcomes \in Seq(Outcomes)
  BY Zenon DEF HeldInv, TypeInv, BookType
<1>1. CASE NewBlock \/ Reorg
  <2>1. CoinKept
    BY Zenon, <1>1, CoinIdle DEF NewBlock, Reorg
  <2> QED
    BY <1>a, <1>1, <2>1, RoundsIdle DEF NewBlock, Reorg, CoinKept
<1>2. CASE Epoch
  <2>1. CoinKept /\ book' \in BookType
    BY Zenon, <1>a, <1>2, BlockTurns DEF Epoch, Running
  <2> QED
    BY Zenon, <1>a, <1>2, <2>1, RoundsIdle DEF Epoch, Running, CoinKept
<1>3. CASE StartTip
  <2>1. NoTip \in Int
    BY DEF NoTip
  <2>2. CASE TipIsNews(book.tip)
    <3>1. CoinKept /\ BookAt(book.tip) \in BookType
      BY Zenon, <1>a, <1>3, <2>2, BlockTurns DEF StartTip, Running
    <3>2. book' \in BookType
      BY Zenon, <1>3, <2>1, <2>2, <3>1 DEF StartTip, BookType
    <3> QED
      BY Zenon, <1>a, <1>3, <3>1, <3>2, RoundsIdle
      DEF StartTip, Running, CoinKept
  <2>3. CASE ~TipIsNews(book.tip)
    <3>1. CoinKept
      BY Zenon, <1>3, <2>3, CoinIdle DEF StartTip
    <3>2. book' \in BookType
      BY Zenon, <1>a, <1>3, <2>1, <2>3 DEF StartTip, BookType
    <3> QED
      BY Zenon, <1>a, <1>3, <3>1, <3>2, RoundsIdle
      DEF StartTip, Running, CoinKept
  <2> QED
    BY Zenon, <2>2, <2>3
<1>4. CASE ReserveForfeit
  <2>1. CoinKept
    <3> SUFFICES ASSUME NEW e, e = PendingForfeit,
                        NEW t, t = ProcessEvent(c, v, mem, e)
                 PROVE  CoinKept
      BY Zenon
    <3>1. /\ e.height = 0 /\ e.round = NoRound
          /\ e.type \notin {"forfeit_released", "force_unroll"}
          /\ e.type # "forfeit_request"
      BY Zenon, Plain DEF PendingForfeit, Event
    <3>2. mem \in VTXOState /\ mem # Absent
      BY Zenon, <1>4 DEF ReserveForfeit, Running, HeldInv, TypeInv
    <3>3. Orderly(mem, e, t)
      BY <3>1, <3>2, OrderlyTurn
    <3>4. CASE /\ mem' = t.next
               /\ row' = processStatusUpdate(row, t.status, NoRound)
      <4>1. t.status # "forfeiting"
        BY Zenon, <3>1, <3>3 DEF Orderly, NoStatus
      <4>2. Effect(mem, row, t, mem', row')
        BY Zenon, <3>4, <4>1 DEF Effect, processStatusUpdate
      <4> QED
        BY <3>1, <3>2, <4>2, CoinTurn DEF Frees
    <3>5. CASE UNCHANGED <<mem, row>>
      BY Zenon, <3>5, CoinIdle
    <3> QED
      BY Zenon, <1>4, <3>4, <3>5 DEF ReserveForfeit
  <2> QED
    BY Zenon, <1>a, <1>4, <2>1, RoundsIdle DEF ReserveForfeit, Running, CoinKept
<1>5. CASE RoundReject
  <2>1. CoinKept /\ book' \in BookType
    BY Zenon, <1>a, <1>5, CoinIdle, Released, NoRoundAssumption DEF RoundReject
  <2> QED
    BY Zenon, <1>a, <1>5, <2>1, RoundsIdle DEF RoundReject, CoinKept
<1>6. ASSUME NEW auto \in BOOLEAN, ForceUnrollRequest(auto)
      PROVE  HeldInv' /\ Kept
  <2>1. auto = TRUE
    BY Zenon, <1>6 DEF ForceUnrollRequest, CleanReads
  <2>2. CASE mem # Absent
    <3>1. \A r : ~Frees(ForceUnroll(auto), r)
      BY ZenonT(60), <2>1, Forced DEF Frees
    <3>2. CoinKept /\ book' \in BookType
      BY <1>a, <1>6, <2>2, <3>1, Forced, Received, CoinTurn
         DEF ForceUnrollRequest
    <3> QED
      BY Zenon, <1>a, <1>6, <3>2, RoundsIdle DEF ForceUnrollRequest, CoinKept
  <2>3. CASE mem = Absent
    <3>1. /\ row.status = "unilateral_exit" /\ row' = row
          /\ mem' = State("unilateral_exit", 0) /\ book' = NewBook(height)
      BY Zenon, <1>6, <2>3 DEF ForceUnrollRequest
    <3>2. mem' \in VTXOState /\ mem'.kind = "unilateral_exit"
      BY <3>1, States DEF Kinds
    <3>3. FollowInv => FollowInv'
      BY Zenon, <3>1, <3>2 DEF FollowInv, Follows
    <3>4. CoinKept /\ book' \in BookType
      BY <1>a, <3>1, <3>2, <3>3
         DEF CoinKept, Kept, HeldInv, TypeInv, HoldInv, AgreeInv, Agree,
             SignedOver, NewBook, BookType
    <3> QED
      BY <1>a, <1>6, <3>4, RoundsIdle DEF ForceUnrollRequest, CoinKept
  <2> QED
    BY Zenon, <2>2, <2>3
<1> QED
  BY Zenon, <1>1, <1>2, <1>3, <1>4, <1>5, <1>6

\* The steps of a round.
LEMMA RoundsKeep ==
    ASSUME HeldInv, NEW r \in Rounds,
           \/ RoundJoin(r) \/ ForfeitRequestToVTXO(r) \/ RoundCheckpoint(r)
           \/ RoundFail(r) \/ RoundDead(r) \/ ReleaseForfeit(r)
           \/ RoundConfirm(r) \/ ForfeitConfirmedToVTXO(r)
    PROVE  HeldInv' /\ Kept
<1>a. /\ book \in BookType /\ mem \in VTXOState \cup {Absent}
      /\ rnd \in [Rounds -> Phases]
  BY Zenon DEF HeldInv, TypeInv
<1>1. CASE RoundJoin(r) \/ RoundFail(r) \/ RoundDead(r)
  <2>1. CoinKept
    BY Zenon, <1>1, CoinIdle DEF RoundJoin, RoundFail, RoundDead
  <2>2. \E phase \in {"joined", "failed", "dead"} :
           rnd' = [rnd EXCEPT ![r] = phase]
    BY Zenon, <1>1 DEF RoundJoin, RoundFail, RoundDead
  <2>3. HeldInv'
    BY Zenon, <1>a, <1>1, <2>1, <2>2, RoundMoves
       DEF RoundJoin, RoundFail, RoundDead, Phases, Committed
  <2> QED
    BY Zenon, <2>1, <2>3 DEF CoinKept
<1>2. CASE RoundCheckpoint(r) \/ RoundConfirm(r)
  <2>1. CoinKept
    BY Zenon, <1>2, CoinIdle DEF RoundCheckpoint, RoundConfirm
  <2>2. rnd[r] \in Committed
    BY Zenon, <1>2 DEF RoundCheckpoint, RoundConfirm, Committed
  <2>3. \E phase \in {"sent", "confirmed"} : rnd' = [rnd EXCEPT ![r] = phase]
    BY Zenon, <1>2 DEF RoundCheckpoint, RoundConfirm
  <2>4. HeldInv'
    BY Zenon, <1>a, <1>2, <2>1, <2>2, <2>3, RoundMoves
       DEF RoundCheckpoint, RoundConfirm, Phases, Volatile
  <2> QED
    BY <2>1, <2>4 DEF CoinKept
<1>3. CASE ReleaseForfeit(r)
  <2>1. rnd[r] \notin Committed
    BY Zenon, <1>3 DEF ReleaseForfeit, Committed
  <2>2. CoinKept /\ book' \in BookType
    BY Zenon, <1>a, <1>3, <2>1, CoinIdle, Released DEF ReleaseForfeit
  <2>3. \E phase \in {"over", "buried"} : rnd' = [rnd EXCEPT ![r] = phase]
    BY Zenon, <1>a, <1>3 DEF ReleaseForfeit
  <2>4. HeldInv'
    BY Zenon, <1>3, <2>2, <2>3, RoundMoves DEF ReleaseForfeit, Phases, Committed
  <2> QED
    BY Zenon, <2>2, <2>4 DEF CoinKept
<1>4. CASE ForfeitConfirmedToVTXO(r)
  <2>1. rnd[r] \in Committed
    BY Zenon, <1>4 DEF ForfeitConfirmedToVTXO, Committed
  <2>2. CoinKept
    <3>1. CASE mem # Absent /\ Receive(ForfeitConfirmed)
      <4>1. /\ ForfeitConfirmed.height = 0 /\ ForfeitConfirmed.round = NoRound
            /\ ForfeitConfirmed.type \notin {"forfeit_released",
                                             "force_unroll"}
        BY Zenon, Plain
      <4> QED
        BY <3>1, <4>1, Received, CoinTurn DEF Frees
    <3>2. CASE UNCHANGED <<mem, row>>
      BY Zenon, <3>2, CoinIdle
    <3> QED
      BY Zenon, <1>4, <3>1, <3>2 DEF ForfeitConfirmedToVTXO
  <2>3. HeldInv'
    BY Zenon, <1>a, <1>4, <2>1, <2>2, RoundMoves
       DEF ForfeitConfirmedToVTXO, Phases
  <2> QED
    BY <2>2, <2>3 DEF CoinKept
<1>5. CASE ForfeitRequestToVTXO(r)
  <2>1. PICK signable \in BOOLEAN : Receive(ForfeitRequest(r, signable))
    BY Zenon, <1>5 DEF ForfeitRequestToVTXO
  <2> SUFFICES ASSUME NEW e, e = ForfeitRequest(r, signable)
               PROVE  HeldInv' /\ Kept
    BY Zenon
  <2>2. e.height = 0 /\ e.round = r /\ e.type = "forfeit_request"
    BY Zenon, OfRound
  <2>3. \A q : ~Frees(e, q)
    BY Zenon, <2>2 DEF Frees
  <2>4. /\ CoinKept
        /\ mem' # mem /\ mem'.kind = "forfeiting" => Held(row', r)
    BY <1>5, <2>1, <2>2, <2>3, Received, CoinTurn
       DEF ForfeitRequestToVTXO, Running
  <2>5. PICK phase \in {"signed", "asked"} :
           /\ rnd' = [rnd EXCEPT ![r] = phase]
           /\ phase = "signed" => mem' # mem /\ mem'.kind = "forfeiting"
    BY Zenon, <1>5 DEF ForfeitRequestToVTXO
  <2>6. daemon = "up"
    BY Zenon, <1>5 DEF ForfeitRequestToVTXO, HeldInv, ProcessInv, Volatile
  <2>7. HeldInv'
    BY Zenon, <1>a, <1>5, <2>4, <2>5, <2>6, RoundMoves
       DEF ForfeitRequestToVTXO, Phases, Committed
  <2> QED
    BY Zenon, <2>4, <2>7 DEF CoinKept
<1> QED
  BY Zenon, <1>1, <1>2, <1>3, <1>4, <1>5

\* Exits and restarts.
LEMMA RestartsKeep ==
    ASSUME HeldInv, CleanReads,
           \/ JobEnds \/ ExitOutcome \/ Reap \/ Crash \/ Start \/ Reconcile
    PROVE  HeldInv' /\ Kept
<1>a. /\ height \in Int /\ book \in BookType /\ outcomes \in Seq(Outcomes)
      /\ rnd \in [Rounds -> Phases] /\ mem \in VTXOState \cup {Absent}
  BY Zenon DEF HeldInv, TypeInv
<1>1. CASE JobEnds
  <2>1. CoinKept
    BY Zenon, <1>1, CoinIdle DEF JobEnds
  <2>2. outcomes' \in Seq(Outcomes)
    <3>1. outcomes' = outcomes \/
          (job' \in Outcomes /\ outcomes' = Append(outcomes, job'))
      BY Zenon, <1>1 DEF JobEnds, Outcomes
    <3> QED
      BY <1>a, <3>1
  <2> QED
    BY Zenon, <1>a, <1>1, <2>1, <2>2, RoundsIdle DEF JobEnds, CoinKept
<1>2. CASE ExitOutcome
  <2>1. Head(outcomes) \in Outcomes /\ outcomes' \in Seq(Outcomes)
    BY <1>a, <1>2 DEF ExitOutcome
  <2>2. CoinKept /\ book' \in BookType
    BY Zenon, <1>2, <2>1, ExitTold DEF ExitOutcome
  <2> QED
    BY Zenon, <1>a, <1>2, <2>1, <2>2, RoundsIdle DEF ExitOutcome, CoinKept
<1>3. CASE Reap
  <2>1. CoinKept
    BY Zenon, <1>3, CoinIdle DEF Reap
  <2> QED
    BY Zenon, <1>a, <1>3, <2>1, RoundsIdle DEF Reap, Running, CoinKept
<1>4. CASE Crash
  <2>1. CoinKept /\ book' \in BookType
    BY <1>4, CoinIdle DEF Crash, NewBook, NoTip, BookType
  <2>2. \A r \in Rounds : /\ rnd'[r] \in Phases \ Volatile
                          /\ rnd'[r] \in Committed => rnd[r] \in Committed
    BY Zenon, <1>a, <1>4 DEF Crash, Phases, Volatile, Committed
  <2>3. rnd' \in [Rounds -> Phases]
    BY Zenon, <1>4, <2>2 DEF Crash
  <2>4. TypeInv'
    BY <1>a, <1>4, <2>1, <2>3 DEF Crash, HeldInv, TypeInv, CoinKept
  <2>5. ProcessInv'
    BY Zenon, <1>4, <2>2 DEF Crash, ProcessInv
  <2>6. AgreeInv' /\ HoldInv' /\ Kept
    BY Zenon, <2>1, <2>2 DEF CoinKept, Kept, HoldInv
  <2> QED
    BY Zenon, <2>4, <2>5, <2>6 DEF HeldInv
<1>5. CASE Start
  <2>1. CoinKept /\ book' \in BookType
    BY Zenon, <1>5, Started
  <2> QED
    BY Zenon, <1>a, <1>5, <2>1, RoundsIdle DEF Start, CoinKept
<1>6. CASE Reconcile
  <2>1. CoinKept /\ book' \in BookType
    <3>1. CASE /\ Orphaned /\ mem # Absent
               /\ ReceiveRelease(OrphanRelease.round)
      BY Zenon, <1>6, <3>1, Orphans, Released DEF Reconcile
    <3>2. CASE /\ ConfirmedForfeit /\ Receive(ForfeitConfirmed)
               /\ UNCHANGED book
      <4>1. /\ ForfeitConfirmed.height = 0 /\ ForfeitConfirmed.round = NoRound
            /\ ForfeitConfirmed.type \notin {"forfeit_released",
                                             "force_unroll"}
        BY Zenon, Plain
      <4> QED
        BY <1>a, <3>2, <4>1, Received, CoinTurn DEF Frees, ConfirmedForfeit
    <3>3. CASE UNCHANGED <<mem, book, row>>
      BY Zenon, <1>a, <3>3, CoinIdle
    <3> QED
      BY Zenon, <1>6, <3>1, <3>2, <3>3 DEF Reconcile
  <2> QED
    BY Zenon, <1>a, <1>6, <2>1, RoundsIdle DEF Reconcile, CoinKept
<1> QED
  BY Zenon, <1>1, <1>2, <1>3, <1>4, <1>5, <1>6

\* HeldInv is inductive, and no step lets go of a coin whose signature a round
\* has.
LEMMA HeldInit ==
    ASSUME Init
    PROVE  HeldInv
<1>1. v.createdHeight \in Int
  BY ActorAssumption DEF Init
<1>2. State("live", v.createdHeight) \in VTXOState
      /\ State("live", v.createdHeight).kind = "live"
  BY <1>1, States DEF Kinds
<1>3. TypeInv
  BY <1>1, <1>2
     DEF Init, TypeInv, NewBook, BookType, RowType, Kinds, Phases
<1>4. ProcessInv /\ HoldInv
  BY Zenon DEF Init, ProcessInv, HoldInv, Committed
<1>5. AgreeInv
  BY Zenon, <1>2 DEF Init, AgreeInv, Agree, SignedOver
<1> QED
  BY Zenon, <1>3, <1>4, <1>5 DEF HeldInv

LEMMA HeldStep ==
    ASSUME HeldInv, CleanReads, [Next]_vars
    PROVE  HeldInv' /\ Kept
<1>1. CASE UNCHANGED vars
  <2>1. CoinKept
    BY Zenon, <1>1, CoinIdle DEF vars
  <2>2. height' \in Int /\ book' \in BookType /\ outcomes' \in Seq(Outcomes)
    BY Zenon, <1>1 DEF vars, HeldInv, TypeInv
  <2> QED
    BY Zenon, <1>1, <2>1, <2>2, RoundsIdle DEF vars, CoinKept
<1>2. CASE Next
  BY Zenon, <1>2, TurnsKeep, RoundsKeep, RestartsKeep DEF Next
<1> QED
  BY Zenon, <1>1, <1>2

\* While the operator holds the coin's forfeit signature and may use it, no
\* step of the actor, the manager's start-up or an exit makes the coin
\* available again (ForfeitingState.ProcessEvent, releaseOrphanedForfeits).
THEOREM SignedStaysHeld ==
    ASSUME CleanReads
    PROVE  Spec => []SignedIsHeld
<1>1. HeldInv => SignedIsHeld
  <2> SUFFICES ASSUME HeldInv, NEW r \in Rounds, Binding(r)
               PROVE  row.status \notin Available /\ mem.kind \notin Available
    BY Zenon DEF SignedIsHeld
  <2>1. Held(row, r)
    BY Zenon DEF Binding, Committed, HeldInv, HoldInv
  <2>2. row.status \in SignedOver
    BY Zenon, <2>1 DEF Held, SignedOver
  <2>3. Absent.kind = "absent"
    BY Zenon DEF Absent, State
  <2>4. mem = Absent \/ mem.kind = row.status
    BY Zenon, <2>2 DEF HeldInv, AgreeInv, Agree
  <2> QED
    BY Zenon, <2>2, <2>3, <2>4 DEF Available, SignedOver
<1>2. HeldInv /\ [Next]_vars => HeldInv'
  BY Zenon, HeldStep
<1> QED
  BY <1>1, <1>2, HeldInit, PTL DEF Spec

\* No coin enters a unilateral exit while the operator may use its forfeit
\* signature (forfeitSignatureIssued).
THEOREM NoExitOnceSigned ==
    ASSUME CleanReads
    PROVE  Spec => NoExitAfterSignature
<1>1. HeldInv /\ [Next]_vars =>
        [row.status # "unilateral_exit" /\ row'.status = "unilateral_exit"
           => ~\E r \in Rounds : Binding(r)]_vars
  BY Zenon, HeldStep DEF Kept, Held, Binding, Committed
<1>2. HeldInv /\ [Next]_vars => HeldInv'
  BY HeldStep
<1> QED
  BY <1>1, <1>2, HeldInit, PTL DEF Spec, NoExitAfterSignature

\* The row of a running actor says what the actor is: a state is adopted only
\* after its status is written, as long as a reservation that is taken back is
\* also rolled back (processOutboxWithOperatorKey).
THEOREM RowIsWritten ==
    ASSUME CleanReads, "rollback" \notin Faults
    PROVE  Spec => []RowFollowsActor
<1>1. Init => FollowInv
  <2>1. State("live", v.createdHeight).kind = "live"
    BY Zenon DEF State
  <2> QED
    BY <2>1 DEF Init, FollowInv, Follows
<1>2. HeldInv /\ FollowInv /\ [Next]_vars => HeldInv' /\ FollowInv'
  BY Zenon, HeldStep DEF Kept
<1>3. FollowInv => RowFollowsActor
  BY Zenon DEF FollowInv, Follows, RowFollowsActor, Running
<1> QED
  BY <1>1, <1>2, <1>3, HeldInit, PTL DEF Spec

-----------------------------------------------------------------------------
\* For NoStaleRevival no more is needed than the types, and that nothing runs
\* while the daemon is down.  Misread rows and exits by the user are allowed.
TidyInv ==
    /\ v \in Coins
    /\ height \in Int
    /\ mem \in VTXOState \cup {Absent}
    /\ book \in BookType
    /\ row \in RowType
    /\ outcomes \in Seq(Outcomes)
    /\ daemon = "down" => mem = Absent

\* What a step makes of the coin.
Revival == mem.kind = "expired" /\ mem'.kind = "live"
             => CheckExpiry(c, v, height) # "expired"

CoinTidy ==
    /\ mem' \in VTXOState \cup {Absent}
    /\ row' \in RowType
    /\ Revival

LEMMA TidyIdle ==
    ASSUME TidyInv, row' = row, mem' = mem \/ mem' = Absent
    PROVE  CoinTidy
<1>1. Absent.kind = "absent"
  BY Zenon DEF Absent, State
<1> QED
  BY Zenon, <1>1 DEF TidyInv, CoinTidy, Revival

\* A coin without an actor, or one that has just ended, revives nothing.
LEMMA TidyStart ==
    ASSUME mem = Absent, mem' \in VTXOState \cup {Absent}, row' \in RowType
    PROVE  CoinTidy
<1>1. Absent.kind = "absent"
  BY Zenon DEF Absent, State
<1> QED
  BY Zenon, <1>1 DEF CoinTidy, Revival

\* An expired coin leaves its state for the live one only on a block at which
\* its batch has not expired (ExpiredState.ProcessEvent).
LEMMA ExpiredTurn ==
    ASSUME NEW cf, NEW d, NEW s \in VTXOState, s.kind = "expired",
           NEW e, e.height \in Int, e.round \in Rounds \cup {NoRound},
           ProcessEvent(cf, d, s, e).next.kind = "live"
    PROVE  /\ e.type = "block_epoch"
           /\ CheckExpiry(cf, d, e.height) # "expired"
<1> SUFFICES ASSUME NEW t, t = ProcessEvent(cf, d, s, e), t.next.kind = "live",
                    NEW here, here = [s EXCEPT !.height = e.height],
                    NEW signed,
                    signed = [kind |-> "forfeiting", height |-> s.height,
                              round |-> e.round, issued |-> TRUE]
             PROVE  /\ e.type = "block_epoch"
                    /\ CheckExpiry(cf, d, e.height) # "expired"
  BY Zenon
<1>a. s.height \in Int /\ here.kind = "expired" /\ signed.kind = "forfeiting"
  BY Zenon, Heights DEF VTXOState
<1>1. t = ExpiredState(cf, d, s, e)
  BY Zenon DEF ProcessEvent, IsTerminal
<1>2. t # Stay(s) /\ t # Refuse(s) /\ t # Stay(here)
  <2>1. Stay(s).next = s /\ Refuse(s).next = s
    BY Zenon, Stays
  <2>2. Stay(here).next = here
    BY Zenon, Stays
  <2> QED
    BY Zenon, <1>a, <2>1, <2>2
<1>3. ASSUME NEW x, NEW k \in Int, NEW out
      PROVE  t # Move(x, State("pending_forfeit", k), "pending_forfeit", out)
  <2>1. State("pending_forfeit", k).kind = "pending_forfeit"
    BY Zenon DEF State
  <2> QED
    BY <2>1, Moves
<1>4. t # Move(s, signed, "forfeiting", {"signature"})
  BY <1>a, Moves
<1>5. e.type # "pending_forfeit"
  BY <1>a, <1>1, <1>2, <1>3 DEF ExpiredState
<1>6. e.type # "forfeit_request"
  BY Zenon, <1>1, <1>2, <1>4 DEF ExpiredState, handleForfeitRequest, Forfeiting
<1>7. e.type = "block_epoch"
  BY Zenon, <1>1, <1>2, <1>5, <1>6 DEF ExpiredState
<1>8. t = ExpiredBlockEpoch(cf, d, s, e.height)
  BY Zenon, <1>1, <1>7 DEF ExpiredState
<1> QED
  BY Zenon, <1>2, <1>3, <1>7, <1>8 DEF ExpiredBlockEpoch, Seen

\* A turn of the running actor.
LEMMA TidyTurn ==
    ASSUME TidyInv, mem # Absent, NEW e, e.height \in Int,
           e.round \in Rounds \cup {NoRound},
           e.type = "block_epoch" /\ mem.kind = "expired" => e.height = height,
           Effect(mem, row, ProcessEvent(c, v, mem, e), mem', row')
    PROVE  CoinTidy
<1> SUFFICES ASSUME NEW t, t = ProcessEvent(c, v, mem, e),
                    Effect(mem, row, t, mem', row')
             PROVE  CoinTidy
  BY Zenon
<1>1. mem \in VTXOState /\ row \in RowType
  BY Zenon DEF TidyInv
<1>2. Orderly(mem, e, t)
  BY Zenon, <1>1, OrderlyTurn
<1>3. /\ t.here \in VTXOState /\ t.here.kind = mem.kind /\ t.next \in VTXOState
      /\ t.status \in Kinds \cup {NoStatus}
      /\ t.next.round \in Rounds \cup {NoRound}
  BY Zenon, <1>2 DEF Orderly, VTXOState
<1>4. processStatusUpdate(row, t.status, t.next.round) \in RowType
  BY <1>1, <1>3, Written
<1>5. mem' \in {mem, t.here, t.next}
  BY Zenon DEF Effect
<1>6. row' \in RowType
  <2>1. \A kind \in {"expired", "live"} : [row EXCEPT !.status = kind] \in RowType
    BY Zenon, <1>1 DEF RowType, Kinds
  <2> QED
    BY Zenon, <1>1, <1>4, <2>1 DEF Effect
<1>7. Revival
  <2> SUFFICES ASSUME mem.kind = "expired", mem'.kind = "live"
               PROVE  CheckExpiry(c, v, height) # "expired"
    BY Zenon DEF Revival
  <2>1. t.next.kind = "live"
    BY Zenon, <1>3, <1>5
  <2> QED
    BY Zenon, <1>1, <2>1, ExpiredTurn
<1> QED
  BY Zenon, <1>1, <1>3, <1>5, <1>6, <1>7 DEF CoinTidy

\* A release of round r, or of no round.
LEMMA TidyRelease ==
    ASSUME TidyInv, mem # Absent, NEW r \in Rounds \cup {NoRound},
           ReceiveRelease(r)
    PROVE  CoinTidy /\ book' \in BookType
<1> SUFFICES ASSUME NEW e, e = ForfeitReleased(r),
                    NEW t, t = ProcessEvent(c, v, mem, e)
             PROVE  CoinTidy /\ book' \in BookType
  BY Zenon
<1>1. e.height = 0 /\ e.round = r /\ e.type = "forfeit_released"
  BY Zenon, OfRound
<1>2. mem \in VTXOState /\ book \in BookType
  BY Zenon DEF TidyInv
<1>3. Orderly(mem, e, t)
  BY <1>1, <1>2, OrderlyTurn
<1>4. \/ mem' = t.next /\ row' = processStatusUpdate(row, t.status, NoRound)
      \/ mem' = mem /\ row' = row
  BY Zenon DEF ReceiveRelease
<1>5. processStatusUpdate(row, t.status, NoRound)
        = processStatusUpdate(row, t.status, t.next.round)
  <2>1. t.status # "forfeiting"
    BY Zenon, <1>1, <1>3 DEF Orderly, NoStatus
  <2> QED
    BY Zenon, <2>1 DEF processStatusUpdate
<1>6. Effect(mem, row, t, mem', row')
  BY Zenon, <1>4, <1>5 DEF Effect
<1>7. CoinTidy
  BY <1>1, <1>6, TidyTurn
<1>8. book' \in BookType
  <2>1. book' = recordAutomaticRefreshRelease(book, mem, e) \/ book' = book
    BY Zenon DEF ReceiveRelease
  <2>2. MaxOf(mem.height, book.seen) + RetryDelay \in Int
    BY <1>2, ActorAssumption DEF MaxOf, VTXOState, BookType
  <2> QED
    BY Zenon, <1>2, <2>1, <2>2 DEF recordAutomaticRefreshRelease, BookType
<1> QED
  BY Zenon, <1>7, <1>8

\* A block, at the tip if the coin has expired.
LEMMA TidyBlock ==
    ASSUME TidyInv, mem # Absent, NEW h \in Int, BlockTurn(h),
           mem.kind = "expired" => h = height
    PROVE  CoinTidy /\ BookAt(h) \in BookType
<1>a. mem \in VTXOState /\ row \in RowType /\ book \in BookType
  BY Zenon DEF TidyInv
<1>b. BookAt(h) \in BookType
  <2>1. MaxOf(book.seen, h) \in Int /\ RetryAfter(h) \in Int
    BY <1>a DEF MaxOf, RetryAfter, BookType
  <2> QED
    BY Zenon, <1>a, <2>1 DEF BookAt, BookType
<1>c. ASSUME mem' = Seen(mem, h), row' = row, mem.kind = "live"
      PROVE  CoinTidy
  <2>1. mem' \in VTXOState
    BY Zenon, <1>a, <1>c, Heights DEF Seen
  <2> QED
    BY Zenon, <1>a, <1>c, <2>1 DEF CoinTidy, Revival
<1> SUFFICES CoinTidy
  BY Zenon, <1>b
<1>1. CASE Defers(h)
  BY Zenon, <1>1, <1>c DEF BlockTurn, Defers
<1>2. CASE ~Defers(h)
  <2>1. PICK e \in preflightCriticalExit(h) :
            \/ mem' = mem /\ row' = row
            \/ HoldsBack(e, h) /\ mem' = Seen(mem, h) /\ row' = row
            \/ processOutbox(ProcessEvent(c, v, mem, e))
    BY Zenon, <1>2 DEF BlockTurn
  <2>2. e.height = h /\ e.round = NoRound
    BY <2>1, Blocks DEF preflightCriticalExit
  <2>3. CASE mem' = mem /\ row' = row
    BY Zenon, <2>3, TidyIdle
  <2>4. CASE HoldsBack(e, h) /\ mem' = Seen(mem, h) /\ row' = row
    BY Zenon, <1>c, <2>4 DEF HoldsBack
  <2>5. CASE processOutbox(ProcessEvent(c, v, mem, e))
    BY Zenon, <2>2, <2>5, Outbox, TidyTurn
  <2> QED
    BY Zenon, <2>1, <2>3, <2>4, <2>5
<1> QED
  BY Zenon, <1>1, <1>2

\* An event that is not a block.
LEMMA TidyReceive ==
    ASSUME TidyInv, mem # Absent, NEW e, e.height = 0,
           e.round \in Rounds \cup {NoRound}, e.type # "block_epoch",
           Receive(e)
    PROVE  CoinTidy
BY Received, TidyTurn

\* The outcome of an exit.
LEMMA TidyOutcome ==
    ASSUME TidyInv, NEW o \in Outcomes, handleExitOutcome(o)
    PROVE  CoinTidy /\ book' \in BookType
<1>a. /\ book \in BookType /\ row \in RowType /\ height \in Int
      /\ v.createdHeight \in Int
  BY ActorAssumption DEF TidyInv
<1>1. CASE mem # Absent
  <2>1. Receive(ExitEvent(o)) /\ book' = book
    BY <1>1 DEF handleExitOutcome
  <2>2. /\ ExitEvent(o).height = 0 /\ ExitEvent(o).round = NoRound
        /\ ExitEvent(o).type # "block_epoch"
    BY Zenon DEF ExitEvent, Outcomes, ExitFailed, ExitConfirmed, ExitConflicted,
           Event
  <2> QED
    BY Zenon, <1>1, <1>a, <2>1, <2>2, TidyReceive
<1>2. CASE mem = Absent /\ row.status # "unilateral_exit"
  BY <1>a, <1>2, TidyIdle DEF handleExitOutcome
<1>3. CASE mem = Absent /\ row.status = "unilateral_exit"
  <2>1. /\ Relived(o) \in VTXOState /\ Relived(o).kind \in {"live", "expired"}
    BY <1>a, States DEF Relived, Kinds
  <2>2. NewBook(height) \in BookType
    BY <1>a DEF NewBook, BookType
  <2>3. /\ mem' = Absent \/ mem' = Relived(o)
        /\ book' \in BookType
        /\ \/ row' = row
           \/ row' = [row EXCEPT !.status = "spent"]
           \/ row' = [row EXCEPT !.status = Relived(o).kind]
    BY <1>a, <1>3, <2>2 DEF handleExitOutcome
  <2>4. row' \in RowType
    BY Zenon, <1>a, <2>1, <2>3 DEF RowType, Kinds
  <2> QED
    BY Zenon, <1>3, <2>1, <2>3, <2>4, TidyStart
<1> QED
  BY <1>1, <1>2, <1>3

\* Manager.Start, whatever it reads.
LEMMA TidyBoot ==
    ASSUME TidyInv, Start
    PROVE  CoinTidy /\ book' \in BookType
<1>a. /\ book \in BookType /\ row \in RowType /\ height \in Int
      /\ v.createdHeight \in Int /\ mem = Absent
  BY ActorAssumption DEF TidyInv, Start
<1>1. CASE /\ job \in Outcomes /\ handleExitOutcome(job)
  BY Zenon, <1>1, TidyOutcome
<1>2. CASE UNCHANGED <<mem, row, relay, job, book>>
  BY Zenon, <1>a, <1>2, TidyIdle
<1>3. CASE /\ book' = NewBook(height)
           /\ \E readable \in BOOLEAN : \E s :
                /\ s = statusToState(v, row, readable)
                /\ \/ /\ Orphaned
                      /\ mem' = ProcessEvent(c, v, s, OrphanRelease).next
                      /\ row' = processStatusUpdate(row,
                            ProcessEvent(c, v, s, OrphanRelease).status,
                            NoRound)
                   \/ mem' = s /\ row' = row
  <2>1. book' \in BookType
    BY <1>a, <1>3 DEF NewBook, BookType
  <2>2. PICK readable \in BOOLEAN : \E s :
             /\ s = statusToState(v, row, readable)
             /\ \/ /\ Orphaned
                   /\ mem' = ProcessEvent(c, v, s, OrphanRelease).next
                   /\ row' = processStatusUpdate(row,
                         ProcessEvent(c, v, s, OrphanRelease).status,
                         NoRound)
                \/ mem' = s /\ row' = row
    BY Zenon, <1>3
  <2>3. PICK s :
             /\ s = statusToState(v, row, readable)
             /\ \/ /\ Orphaned
                   /\ mem' = ProcessEvent(c, v, s, OrphanRelease).next
                   /\ row' = processStatusUpdate(row,
                         ProcessEvent(c, v, s, OrphanRelease).status,
                         NoRound)
                \/ mem' = s /\ row' = row
    BY Zenon, <2>2
  <2>4. s \in VTXOState
    <3>1. row.status \in Kinds /\ row.round \in Rounds \cup {NoRound}
          /\ (readable /\ row.tx) \in BOOLEAN
      BY Zenon, <1>a DEF RowType
    <3>2. \/ s = Forfeiting(0, row.round, readable /\ row.tx)
          \/ s = Forfeited(row.round)
          \/ \E h \in Int : s = State(row.status, h)
      BY <1>a, <2>3, <3>1 DEF statusToState
    <3>3. CASE s = Forfeiting(0, row.round, readable /\ row.tx)
      <4>1. ASSUME NEW r \in Rounds \cup {NoRound}, NEW issued \in BOOLEAN
            PROVE  Forfeiting(0, r, issued) \in VTXOState
        BY RoundStates
      <4> QED
        BY Zenon, <3>1, <3>3, <4>1, Zenon
    <3>4. CASE s = Forfeited(row.round)
      BY <3>1, <3>4, RoundStates
    <3>5. CASE \E h \in Int : s = State(row.status, h)
      BY ZenonT(60), <3>1, <3>5, States
    <3> QED
      BY Zenon, <3>2, <3>3, <3>4, <3>5
  <2>5. CASE mem' = s /\ row' = row
    BY Zenon, <1>a, <2>1, <2>4, <2>5, TidyStart
  <2>6. CASE /\ mem' = ProcessEvent(c, v, s, OrphanRelease).next
             /\ row' = processStatusUpdate(row,
                   ProcessEvent(c, v, s, OrphanRelease).status, NoRound)
    <3> SUFFICES ASSUME NEW e, e = OrphanRelease,
                        NEW t, t = ProcessEvent(c, v, s, e)
                 PROVE  CoinTidy
      BY Zenon, <2>1
    <3>1. e.height = 0 /\ e.round \in Rounds \cup {NoRound}
      BY Zenon, <1>a, OfRound DEF OrphanRelease, RowType
    <3>2. Orderly(s, e, t)
      BY <2>4, <3>1, OrderlyTurn
    <3>3. t.next \in VTXOState /\ t.status \in Kinds \cup {NoStatus}
      BY Zenon, <3>2 DEF Orderly, VTXOState
    <3>4. row' \in RowType
      BY <1>a, <2>6, <3>3, Written
    <3> QED
      BY Zenon, <1>a, <2>6, <3>3, <3>4, TidyStart
  <2> QED
    BY Zenon, <2>3, <2>5, <2>6
<1> QED
  BY Zenon, <1>1, <1>2, <1>3 DEF Start

\* TidyInv is inductive, and no step revives a coin on old news.
LEMMA TidyStep ==
    ASSUME TidyInv, [Next]_vars
    PROVE  TidyInv' /\ Revival
<1>a. /\ height \in Int /\ book \in BookType /\ book.tip \in Int
      /\ outcomes \in Seq(Outcomes) /\ NoTip \in Int
  BY DEF TidyInv, BookType, NoTip
<1>b. ASSUME CoinTidy, v' = v, height' \in Int, book' \in BookType,
             outcomes' \in Seq(Outcomes), daemon' = "down" => mem' = Absent
      PROVE  TidyInv' /\ Revival
  BY Zenon, <1>b DEF TidyInv, CoinTidy
<1>c. ASSUME NEW e, e \in {PendingForfeit, ForfeitConfirmed}
      PROVE  /\ e.height = 0 /\ e.round = NoRound
             /\ e.type \in {"pending_forfeit", "forfeit_confirmed"}
  BY <1>c DEF PendingForfeit, ForfeitConfirmed, Event
<1>1. CASE UNCHANGED vars
  BY Zenon, <1>1, <1>a, <1>b, TidyIdle DEF vars, TidyInv
<1>2. CASE \/ NewBlock \/ Reorg \/ JobEnds
           \/ \E r \in Rounds : \/ RoundJoin(r) \/ RoundCheckpoint(r)
                                \/ RoundFail(r) \/ RoundDead(r)
                                \/ RoundConfirm(r)
  <2>1. /\ mem' = mem /\ row' = row /\ v' = v /\ height' \in Int
        /\ book' = book /\ daemon' = daemon
    BY <1>2, <1>a DEF NewBlock, Reorg, JobEnds, RoundJoin, RoundCheckpoint,
                      RoundFail, RoundDead, RoundConfirm
  <2>2. \/ outcomes' = outcomes
        \/ job' \in Outcomes /\ outcomes' = Append(outcomes, job')
    BY Zenon, <1>2 DEF NewBlock, Reorg, JobEnds, RoundJoin, RoundCheckpoint,
                RoundFail, RoundDead, RoundConfirm, Outcomes
  <2>3. outcomes' \in Seq(Outcomes)
    BY <1>a, <2>2
  <2> QED
    BY Zenon, <1>a, <1>b, <2>1, <2>3, TidyIdle DEF TidyInv
<1>3. CASE Epoch
  <2>1. CoinTidy /\ book' \in BookType
    BY Zenon, <1>a, <1>3, TidyBlock DEF Epoch, Running
  <2> QED
    BY Zenon, <1>a, <1>b, <1>3, <2>1 DEF Epoch, Running
<1>4. CASE StartTip
  <2>1. CASE TipIsNews(book.tip)
    <3>1. CoinTidy /\ BookAt(book.tip) \in BookType
      BY Zenon, <1>a, <1>4, <2>1, TidyBlock DEF StartTip, Running, TipIsNews
    <3>2. book' \in BookType
      BY Zenon, <1>a, <1>4, <2>1, <3>1 DEF StartTip, BookType
    <3> QED
      BY Zenon, <1>a, <1>b, <1>4, <3>1, <3>2 DEF StartTip, Running
  <2>2. CASE ~TipIsNews(book.tip)
    <3>1. CoinTidy
      BY Zenon, <1>4, <2>2, TidyIdle DEF StartTip
    <3>2. book' \in BookType
      BY Zenon, <1>a, <1>4, <2>2 DEF StartTip, BookType
    <3> QED
      BY Zenon, <1>a, <1>b, <1>4, <3>1, <3>2 DEF StartTip, Running
  <2> QED
    BY Zenon, <2>1, <2>2
<1>5. CASE ReserveForfeit
  <2>1. CoinTidy
    <3> SUFFICES ASSUME NEW e, e = PendingForfeit,
                        NEW t, t = ProcessEvent(c, v, mem, e)
                 PROVE  CoinTidy
      BY Zenon
    <3>1. e.height = 0 /\ e.round = NoRound
          /\ e.type \in {"pending_forfeit", "forfeit_confirmed"}
      BY Zenon, <1>c
    <3>2. mem \in VTXOState /\ mem # Absent
      BY Zenon, <1>5 DEF ReserveForfeit, Running, TidyInv
    <3>3. Orderly(mem, e, t)
      BY <3>1, <3>2, OrderlyTurn
    <3>4. CASE /\ mem' = t.next
               /\ row' = processStatusUpdate(row, t.status, NoRound)
      <4>1. t.status # "forfeiting"
        BY Zenon, <3>1, <3>3 DEF Orderly, NoStatus
      <4>2. Effect(mem, row, t, mem', row')
        BY Zenon, <3>4, <4>1 DEF Effect, processStatusUpdate
      <4> QED
        BY <3>1, <3>2, <4>2, TidyTurn
    <3>5. CASE UNCHANGED <<mem, row>>
      BY Zenon, <3>5, TidyIdle
    <3> QED
      BY Zenon, <1>5, <3>4, <3>5 DEF ReserveForfeit
  <2> QED
    BY Zenon, <1>a, <1>b, <1>5, <2>1 DEF ReserveForfeit, Running
<1>6. CASE RoundReject
  <2>1. CoinTidy /\ book' \in BookType
    BY Zenon, <1>a, <1>6, TidyIdle, TidyRelease DEF RoundReject
  <2> QED
    BY Zenon, <1>a, <1>b, <1>6, <2>1 DEF RoundReject
<1>7. ASSUME NEW r \in Rounds, ReleaseForfeit(r)
      PROVE  TidyInv' /\ Revival
  <2>1. CoinTidy /\ book' \in BookType
    BY Zenon, <1>a, <1>7, TidyIdle, TidyRelease DEF ReleaseForfeit
  <2> QED
    BY Zenon, <1>a, <1>b, <1>7, <2>1 DEF ReleaseForfeit
<1>8. ASSUME NEW r \in Rounds, ForfeitRequestToVTXO(r)
      PROVE  TidyInv' /\ Revival
  <2>1. PICK signable \in BOOLEAN : Receive(ForfeitRequest(r, signable))
    BY Zenon, <1>8 DEF ForfeitRequestToVTXO
  <2>2. CoinTidy
    BY ZenonT(60), <1>8, <2>1, OfRound, TidyReceive
    DEF ForfeitRequestToVTXO, Running
  <2> QED
    BY Zenon, <1>a, <1>b, <1>8, <2>2 DEF ForfeitRequestToVTXO, Running
<1>9. ASSUME NEW r \in Rounds, ForfeitConfirmedToVTXO(r)
      PROVE  TidyInv' /\ Revival
  <2>3. CoinTidy
    BY Zenon, <1>c, <1>9, TidyReceive, TidyIdle DEF ForfeitConfirmedToVTXO
  <2> QED
    BY Zenon, <1>a, <1>b, <1>9, <2>3 DEF ForfeitConfirmedToVTXO
<1>10. ASSUME NEW auto \in BOOLEAN, ForceUnrollRequest(auto)
       PROVE  TidyInv' /\ Revival
  <2>1. CASE mem # Absent
    <3>1. CoinTidy /\ book' = book
      BY Zenon, <1>10, <2>1, Forced, TidyReceive DEF ForceUnrollRequest
    <3> QED
      BY Zenon, <1>a, <1>b, <1>10, <3>1 DEF ForceUnrollRequest
  <2>2. CASE mem = Absent
    <3>1. /\ row' = row
          /\ mem' = State("unilateral_exit", 0) /\ book' = NewBook(height)
      BY Zenon, <1>10, <2>2 DEF ForceUnrollRequest
    <3>2. mem' \in VTXOState /\ book' \in BookType
      BY <1>a, <3>1, States DEF Kinds, NewBook, BookType
    <3>3. CoinTidy
      BY Zenon, <2>2, <3>1, <3>2, TidyStart DEF TidyInv
    <3> QED
      BY Zenon, <1>a, <1>b, <1>10, <3>2, <3>3 DEF ForceUnrollRequest
  <2> QED
    BY Zenon, <2>1, <2>2
<1>11. CASE ExitOutcome
  <2>1. Head(outcomes) \in Outcomes /\ outcomes' \in Seq(Outcomes)
    BY <1>a, <1>11 DEF ExitOutcome
  <2>2. CoinTidy /\ book' \in BookType
    BY Zenon, <1>11, <2>1, TidyOutcome DEF ExitOutcome
  <2> QED
    BY Zenon, <1>a, <1>b, <1>11, <2>1, <2>2 DEF ExitOutcome
<1>12. CASE Reap \/ Crash
  <2>1. CoinTidy
    BY Zenon, <1>12, TidyIdle DEF Reap, Crash
  <2>2. book' \in BookType /\ outcomes' \in Seq(Outcomes)
    <3>1. \/ book' = book /\ outcomes' = outcomes
          \/ book' = NewBook(NoTip) /\ outcomes' = << >>
      BY Zenon, <1>12 DEF Reap, Crash
    <3>2. NewBook(NoTip) \in BookType
      BY <1>a DEF NewBook, BookType
    <3>3. << >> \in Seq(Outcomes)
      OBVIOUS
    <3> QED
      BY Zenon, <1>a, <3>1, <3>2, <3>3, Zenon
  <2> QED
    BY Zenon, <1>a, <1>b, <1>12, <2>1, <2>2 DEF Reap, Crash
<1>13. CASE Start
  <2>1. CoinTidy /\ book' \in BookType
    BY Zenon, <1>13, TidyBoot
  <2> QED
    BY Zenon, <1>a, <1>b, <1>13, <2>1 DEF Start
<1>14. CASE Reconcile
  <2>1. OrphanRelease.round \in Rounds \cup {NoRound}
    BY Zenon, OfRound DEF OrphanRelease, TidyInv, RowType
  <2>2. CoinTidy /\ book' \in BookType
    <3>1. CASE mem # Absent /\ ReceiveRelease(OrphanRelease.round)
      BY Zenon, <2>1, <3>1, TidyRelease
    <3>2. CASE /\ ConfirmedForfeit /\ Receive(ForfeitConfirmed)
               /\ UNCHANGED book
      BY Zenon, <1>a, <1>c, <3>2, TidyReceive DEF ConfirmedForfeit
    <3>3. CASE UNCHANGED <<mem, book, row>>
      BY Zenon, <1>a, <3>3, TidyIdle
    <3> QED
      BY Zenon, <1>14, <3>1, <3>2, <3>3 DEF Reconcile
  <2> QED
    BY Zenon, <1>a, <1>b, <1>14, <2>2 DEF Reconcile
<1> QED
  BY Zenon, <1>1, <1>2, <1>3, <1>4, <1>5, <1>6, <1>7, <1>8, <1>9, <1>10, <1>11,
     <1>12, <1>13, <1>14 DEF Next

\* An expired coin becomes live again only on a tip at which its batch has not
\* expired, whatever rows are misread, writes fail and answers come late
\* (ExpiredState.ProcessEvent, startTipEpoch).
THEOREM NoRevivalOnOldNews ==
    Spec => NoStaleRevival
<1>1. Init => TidyInv
  <2> SUFFICES ASSUME Init PROVE TidyInv
    BY Zenon
  <2>1. v.createdHeight \in Int
    BY ActorAssumption DEF Init
  <2>2. State("live", v.createdHeight) \in VTXOState
    BY Zenon, <2>1, States DEF Kinds
  <2> QED
    BY <2>1, <2>2 DEF Init, TidyInv, NewBook, BookType, RowType, Kinds
<1>2. TidyInv /\ [Next]_vars => TidyInv'
  BY Zenon, TidyStep
<1>3. TidyInv /\ [Next]_vars =>
        [mem.kind = "expired" /\ mem'.kind = "live"
           => CheckExpiry(c, v, height) # "expired"]_vars
  BY Zenon, TidyStep DEF Revival
<1> QED
  BY <1>1, <1>2, <1>3, PTL DEF Spec, NoStaleRevival

=============================================================================
