------------------------------ MODULE OORSpend ------------------------------
(***************************************************************************)
(* One coin and the outgoing OOR transfers that want it: the reservation   *)
(* the VTXO manager keeps in memory (vtxo/manager.go), the coin's own      *)
(* state machine and row, the reservation row a session writes, the        *)
(* session actors and their durable mailboxes (oor/), the RPC that starts  *)
(* a transfer (waved/rpc_server.go), and the operator, seen from here.     *)
(*                                                                         *)
(* The manager marks a selected coin and hands the reservation to the      *)
(* coin's actor without waiting for it, so selection relies on the mark    *)
(* until the row says spending.  A session turn runs its effects on the    *)
(* coin first and commits afterwards; a crash or a failed commit in        *)
(* between redelivers the message.                                         *)
(*                                                                         *)
(* A manager handler that asks the coin's actor is one step taken when the *)
(* actor's inbox is empty: while the manager waits only the actor empties  *)
(* the inbox, and nothing the handler read can change.  Rounds and exit    *)
(* outcomes of the coin are left to VTXOActor.                             *)
(***************************************************************************)
EXTENDS VTXOStates, OORStates, Sequences

CONSTANTS Sessions,     \* transfers, each selecting the coin at most once
          NoSession,
          Coin,         \* the coin's descriptor
          ExpiryConfig, \* the expiry configuration it runs under
          MaxHeight,    \* bound on the chain
          Faults,       \* what may go wrong, each of them once
          MaxFaults     \* bound on how much of it happens

FaultKinds == {"commit", "write", "timeout", "crash"}

ASSUME SpendAssumption ==
    /\ NoSession \notin Sessions
    /\ Coin \in Descriptor
    /\ ExpiryConfig \in Config
    /\ MaxHeight \in Nat
    /\ Faults \subseteq FaultKinds
    /\ MaxFaults \in Nat

VARIABLES mark,         \* reserved[outpoint]: an epoch, 0 for unknown, or NoMark
          epoch,        \* reserveEpoch
          inbox,        \* reservations handed to the coin's actor
          reports,      \* spendReservationFailedMsg epochs on their way
          coin,         \* the state of the coin's actor
          row,          \* status column of the coin's row
          resv,         \* owner of the coin's reservation row
          adm,          \* where each transfer's admission is
          caller,       \* what the RPC of each transfer is doing
          held,         \* ReserveEpoch of each transfer's input
          sess,         \* each session's row: its state
          mail,         \* each session's durable mailbox
          turn,         \* each session's dispatched, uncommitted turn
          toOp,         \* packages on their way to the operator
          cosigned,     \* the session the operator co-signed
          refused,      \* sessions the operator has turned down for good
          height,       \* the chain tip
          hit           \* faults so far, and "swept" if a start freed the coin

managerVars == <<mark, epoch, reports>>
coinVars == <<inbox, coin, row, resv>>
rpcVars == <<adm, caller, held>>
sessionVars == <<sess, mail, turn>>
operatorVars == <<toOp, cosigned, refused>>
vars == <<managerVars, coinVars, rpcVars, sessionVars, operatorVars, height, hit>>

NoMark == -1
NoTurn == [msg |-> "none", next |-> OORState("idle"), out |-> {}]

Replies == {"submit_accepted", "busy", "rejected", "finalize_accepted"}
Init ==
    /\ mark = NoMark
    /\ epoch = 0
    /\ inbox = <<>>
    /\ reports = {}
    /\ coin = State("live", Coin.createdHeight)
    /\ row = "live"
    /\ resv = NoSession
    /\ adm = [s \in Sessions |-> "idle"]
    /\ caller = [s \in Sessions |-> "none"]
    /\ held = [s \in Sessions |-> 0]
    /\ sess = [s \in Sessions |-> OORState("idle")]
    /\ mail = [s \in Sessions |-> {}]
    /\ turn = [s \in Sessions |-> NoTurn]
    /\ toOp = {}
    /\ cosigned = NoSession
    /\ refused = {}
    /\ height = Coin.createdHeight
    /\ hit = {}

MayFail(kind) == kind \in Faults \ hit /\ Cardinality(hit \ {"swept"}) < MaxFaults

Fault(kind) == MayFail(kind) /\ hit' = hit \cup {kind}

NoFault == hit' = hit

-----------------------------------------------------------------------------
(***************************************************************************)
(* The coin's actor.                                                       *)
(***************************************************************************)
\* A turn that the store accepts: the status is written, the reservation row
\* goes with it, and the new state is adopted.
CoinAdopts(t) ==
    /\ coin' = t.next
    /\ row' = IF t.status = NoStatus THEN row ELSE t.status
    /\ resv' = IF t.release THEN NoSession ELSE resv

CoinEvent(e) == ProcessEvent(ExpiryConfig, Coin, coin, e)

\* The head of the inbox.  watched: its outcome still has a watcher, which
\* reports a failure.
ReserveOutcome(ok) ==
    LET req == Head(inbox)
    IN  /\ inbox' = Tail(inbox)
        /\ reports' = IF req.watched /\ ~ok THEN reports \cup {req.epoch}
                      ELSE reports

CoinReserves ==
    /\ inbox # <<>>
    /\ LET t == CoinEvent(SpendReserve)
       IN  \/ /\ CoinAdopts(t)
              /\ ReserveOutcome(t.ok)
              /\ NoFault
           \/ /\ t.status # NoStatus
              /\ Fault("write")
              /\ ReserveOutcome(FALSE)
              /\ UNCHANGED <<coin, row, resv>>
    /\ UNCHANGED <<mark, epoch, rpcVars, sessionVars, operatorVars, height>>

\* The watch of a detached reservation runs out.  A row past Live settles it;
\* a Live row is reported, although the write may still land.
DetachedReserveTimeout ==
    /\ inbox # <<>>
    /\ Head(inbox).watched
    /\ Fault("timeout")
    /\ inbox' = [inbox EXCEPT ![1] = [@ EXCEPT !.watched = FALSE, !.late = TRUE]]
    /\ reports' = IF row = "live" THEN reports \cup {Head(inbox).epoch}
                  ELSE reports
    /\ UNCHANGED <<mark, epoch, coin, row, resv, rpcVars, sessionVars,
                   operatorVars, height>>

\* A reservation whose context has ended may fail for that reason alone.
LateReserveFails ==
    /\ inbox # <<>>
    /\ Head(inbox).late
    /\ ReserveOutcome(FALSE)
    /\ UNCHANGED <<mark, epoch, coin, row, resv, rpcVars, sessionVars,
                   operatorVars, height, hit>>

NewBlock ==
    /\ height < MaxHeight
    /\ height' = height + 1
    /\ CoinAdopts(CoinEvent(BlockEpoch(height')))
    /\ UNCHANGED <<managerVars, inbox, rpcVars, sessionVars, operatorVars, hit>>

-----------------------------------------------------------------------------
(***************************************************************************)
(* The manager.                                                            *)
(***************************************************************************)
\* selectAndReserveVTXOs: a Live row without a mark.  The query that lists the
\* candidates leaves asset carriers out.
Selectable == row = "live" /\ ~Coin.asset /\ mark = NoMark

Reserve(e, watched) == [epoch |-> e, watched |-> watched, late |-> FALSE]

\* SendOOR selects its input: handleSelectAndReserveSpend.
Select(s) ==
    /\ adm[s] = "idle"
    /\ Selectable
    /\ epoch' = epoch + 1
    /\ mark' = epoch'
    /\ inbox' = Append(inbox, Reserve(epoch', TRUE))
    /\ held' = [held EXCEPT ![s] = epoch']
    /\ adm' = [adm EXCEPT ![s] = "selected"]
    /\ caller' = [caller EXCEPT ![s] = "waiting"]
    /\ UNCHANGED <<reports, coin, row, resv, sessionVars, operatorVars, height,
                   hit>>

\* dropReservedEpoch: a report drops only the mark it was made for.
SpendReservationFailed(e) ==
    /\ e \in reports
    /\ reports' = reports \ {e}
    /\ mark' = IF mark = e THEN NoMark ELSE mark
    /\ UNCHANGED <<epoch, coinVars, rpcVars, sessionVars, operatorVars, height,
                   hit>>

\* Mutant: every release is honoured.
Superseded_never(e) == FALSE

\* A release is stale if a live mark names another reservation.
Superseded(e) == e # 0 /\ mark \notin {NoMark, 0, e}

\* handleReleaseSpend.
ReleaseSpend(e) ==
    IF Superseded(e)
    THEN UNCHANGED <<mark, coin, row, resv>> /\ NoFault
    ELSE /\ inbox = <<>>
         /\ LET t == CoinEvent(SpendReleased)
            IN  \/ /\ t.ok
                   /\ CoinAdopts(t)
                   /\ mark' = NoMark
                   /\ NoFault
                \/ /\ ~t.ok
                   /\ UNCHANGED <<mark, coin, row, resv>>
                   /\ NoFault
                \/ /\ t.status # NoStatus
                   /\ Fault("write")
                   /\ UNCHANGED <<mark, coin, row, resv>>

\* Mutant: the coin's actor moves on although its status was not written.
CompleteSpend_unwritten ==
    /\ inbox = <<>>
    /\ LET t == CoinEvent(SpendCompleted)
       IN  /\ t.ok
           /\ coin' = t.next
           /\ UNCHANGED <<row, resv>>
           /\ mark' = NoMark
           /\ NoFault

\* handleCompleteSpend, when the coin's actor accepts.  A refusal fails the
\* session's turn, which changes nothing.
CompleteSpend ==
    /\ inbox = <<>>
    /\ LET t == CoinEvent(SpendCompleted)
       IN  /\ t.ok
           /\ CoinAdopts(t)
           /\ mark' = NoMark
           /\ NoFault

-----------------------------------------------------------------------------
(***************************************************************************)
(* SendOOR and the registry.                                               *)
(***************************************************************************)
SetupFails(s) ==
    /\ adm[s] = "selected"
    /\ adm' = [adm EXCEPT ![s] = "done"]
    /\ caller' = [caller EXCEPT ![s] = "unlocking"]
    /\ UNCHANGED <<managerVars, coinVars, held, sessionVars, operatorVars,
                   height, hit>>

\* The Ask is written to the registry's durable mailbox.
AskRegistry(s) ==
    /\ adm[s] = "selected"
    /\ adm' = [adm EXCEPT ![s] = "asked"]
    /\ UNCHANGED <<managerVars, coinVars, caller, held, sessionVars,
                   operatorVars, height, hit>>

\* An RPC that gets an error unlocks its input.
CallerFails(s) ==
    caller' = [caller EXCEPT ![s] = IF @ = "waiting" THEN "unlocking" ELSE @]

\* The registry's handleStartTransfer: the request moves into the child's
\* mailbox, or is refused (an admission deadline, say).
RegistryAdmits(s) ==
    /\ adm[s] = "asked"
    /\ adm' = [adm EXCEPT ![s] = "done"]
    /\ \/ /\ mail' = [mail EXCEPT ![s] = @ \cup {"start"}]
          /\ UNCHANGED caller
       \/ /\ CallerFails(s)
          /\ UNCHANGED mail
    /\ UNCHANGED <<managerVars, coinVars, held, sess, turn, operatorVars, height,
                   hit>>

\* unlockSelectedVTXOsBestEffort: a release that names no epoch.
Unlock(s) ==
    /\ caller[s] = "unlocking"
    /\ ReleaseSpend(0)
    /\ caller' = [caller EXCEPT ![s] = "none"]
    /\ UNCHANGED <<epoch, reports, inbox, adm, held, sessionVars, operatorVars,
                   height>>

-----------------------------------------------------------------------------
(***************************************************************************)
(* The session actor.  Between turns its state machine agrees with its     *)
(* row: a failed turn reloads it.                                          *)
(***************************************************************************)
InFlight(s) == sess[s].phase \in {"submit", "finalize"}

\* A state that waits for the operator has its retry timer armed, and a start
\* resumes it too, so a resume may always be delivered to it.
Messages(s) ==
    mail[s] \cup (IF InFlight(s) THEN {"resume"} ELSE {})

EventsOf(m) == IF m = "busy" THEN {Busy(late) : late \in BOOLEAN}
               ELSE {OOREvent(m)}

\* Receive up to the commit: the state machine is driven and its effects on
\* the coin are carried out.
Dispatch(s, e) ==
    /\ turn[s] = NoTurn
    /\ LET t == Turn(sess[s], e)
       IN  /\ turn' = [turn EXCEPT ![s] = [msg |-> e.type, next |-> t.next,
                                           out |-> t.out]]
           /\ IF "mark_spent" \in t.out THEN CompleteSpend
              ELSE IF "release" \in t.out THEN ReleaseSpend(held[s])
              ELSE UNCHANGED <<mark, coin, row, resv>> /\ NoFault
    /\ UNCHANGED <<epoch, reports, inbox, rpcVars, sess, mail, operatorVars,
                   height>>

Sends(s, out) == {<<s, m>> : m \in out \cap {"send_submit", "send_finalize"}}

\* A session that ended takes no more messages: its child is stopped and the
\* registry drops what still comes for it.
Consumed(s, m, next) ==
    mail' = [mail EXCEPT ![s] = IF Terminal(next) THEN {} ELSE @ \ {m}]

\* commitAck: the snapshot, the reservation rows of an admission, the packages
\* for the operator and the consumption of the message, in one transaction.
CommitAck(s) ==
    /\ turn[s] # NoTurn
    /\ sess' = [sess EXCEPT ![s] = turn[s].next]
    /\ turn' = [turn EXCEPT ![s] = NoTurn]
    /\ Consumed(s, turn[s].msg, turn[s].next)
    /\ toOp' = toOp \cup Sends(s, turn[s].out)
    /\ IF turn[s].msg = "start"
       THEN /\ resv' = s
            /\ caller' = [caller EXCEPT ![s] = "none"]
       ELSE UNCHANGED <<resv, caller>>
    /\ UNCHANGED <<managerVars, inbox, coin, row, adm, held, cosigned, refused,
                   height, hit>>

\* Mutant: the message is consumed outside the transaction that rolls back.
CommitFails_consumes(s) ==
    /\ turn[s] # NoTurn
    /\ Fault("commit")
    /\ turn' = [turn EXCEPT ![s] = NoTurn]
    /\ Consumed(s, turn[s].msg, sess[s])
    /\ IF turn[s].msg = "start" THEN CallerFails(s) ELSE UNCHANGED caller
    /\ UNCHANGED <<managerVars, coinVars, adm, held, sess, operatorVars, height>>

\* The transaction rolls back.  The message is redelivered, except that a
\* failed Ask is answered and gone.
CommitFails(s) ==
    /\ turn[s] # NoTurn
    /\ Fault("commit")
    /\ turn' = [turn EXCEPT ![s] = NoTurn]
    /\ IF turn[s].msg = "start"
       THEN Consumed(s, "start", sess[s]) /\ CallerFails(s)
       ELSE UNCHANGED <<mail, caller>>
    /\ UNCHANGED <<managerVars, coinVars, adm, held, sess, operatorVars, height>>

-----------------------------------------------------------------------------
(***************************************************************************)
(* The operator: it co-signs one session's spend of the coin, answers a    *)
(* repeated package as it did the first, and does not take back a refusal. *)
(***************************************************************************)
Answer(s, reply) ==
    mail' = [mail EXCEPT ![s] = IF Terminal(sess[s]) THEN {} ELSE @ \cup {reply}]

OperatorSubmit(s) ==
    /\ <<s, "send_submit">> \in toOp
    /\ toOp' = toOp \ {<<s, "send_submit">>}
    /\ \/ /\ cosigned \in {NoSession, s}
          /\ s \notin refused
          /\ cosigned' = s
          /\ Answer(s, "submit_accepted")
          /\ UNCHANGED refused
       \/ /\ cosigned # s
          /\ refused' = refused \cup {s}
          /\ Answer(s, "rejected")
          /\ UNCHANGED cosigned
       \/ /\ cosigned # s
          /\ s \notin refused
          /\ Answer(s, "busy")
          /\ UNCHANGED <<cosigned, refused>>
    /\ UNCHANGED <<managerVars, coinVars, rpcVars, sess, turn, height, hit>>

OperatorFinalize(s) ==
    /\ <<s, "send_finalize">> \in toOp
    /\ toOp' = toOp \ {<<s, "send_finalize">>}
    /\ Answer(s, "finalize_accepted")
    /\ UNCHANGED <<managerVars, coinVars, rpcVars, sess, turn, cosigned, refused,
                   height, hit>>

-----------------------------------------------------------------------------
(***************************************************************************)
(* A crash and the next start.  The manager starts before the registry.    *)
(***************************************************************************)
Recovered == statusToState(Coin, [status |-> row, round |-> NoRound,
                                  tx |-> FALSE], TRUE)

Orphaned == row = "spending" /\ resv = NoSession

\* sweepOrphanedReservations: free the orphan, or drive a reservation again
\* whose status write was lost.
sweepOrphanedReservations ==
    IF Orphaned
    THEN /\ CoinAdopts(ProcessEvent(ExpiryConfig, Coin, Recovered, SpendReleased))
         /\ mark' = NoMark
         /\ inbox' = <<>>
    ELSE /\ coin' = Recovered
         /\ UNCHANGED <<row, resv>>
         /\ IF resv # NoSession /\ row # "spending" /\ ~IsTerminal(Recovered)
            THEN mark' = 0 /\ inbox' = <<Reserve(0, FALSE)>>
            ELSE mark' = NoMark /\ inbox' = <<>>

\* A request in the registry's mailbox survives; one that reached a child
\* without a row does not, since no child is started for it.
Restart ==
    /\ MayFail("crash")
    /\ sweepOrphanedReservations
    /\ hit' = hit \cup {"crash"} \cup (IF Orphaned THEN {"swept"} ELSE {})
    /\ epoch' = 0
    /\ reports' = {}
    /\ adm' = [s \in Sessions |-> IF adm[s] = "selected" THEN "done" ELSE adm[s]]
    /\ caller' = [s \in Sessions |-> "none"]
    /\ mail' = [s \in Sessions |-> mail[s] \ {"start"}]
    /\ turn' = [s \in Sessions |-> NoTurn]
    /\ UNCHANGED <<held, sess, operatorVars, height>>

-----------------------------------------------------------------------------
Next ==
    \/ CoinReserves
    \/ DetachedReserveTimeout
    \/ LateReserveFails
    \/ NewBlock
    \/ \E e \in reports : SpendReservationFailed(e)
    \/ Restart
    \/ \E s \in Sessions :
          \/ Select(s)
          \/ SetupFails(s)
          \/ AskRegistry(s)
          \/ RegistryAdmits(s)
          \/ Unlock(s)
          \/ \E m \in Messages(s) : \E e \in EventsOf(m) : Dispatch(s, e)
          \/ CommitAck(s)
          \/ CommitFails(s)
          \/ OperatorSubmit(s)
          \/ OperatorFinalize(s)

Spec == Init /\ [][Next]_vars

-----------------------------------------------------------------------------
(***************************************************************************)
(* Properties.  Some hold only while nothing went wrong that the code does *)
(* not guard against; hit says what did.                                   *)
(***************************************************************************)
\* A session is recorded as completed only when its input has left the
\* spendable set for good: the spend of the coin is written before the
\* session's own transaction, whatever crashes or rolls back in between.
CompletedMeansSpent ==
    \A s \in Sessions :
        sess[s].phase = "completed" => row \notin {"live", "spending"}

\* A coin written as spent has a session that is completed or can still be
\* completed: the operator's answer that led to the write is not lost with the
\* turn that died after it.
SpentCanFinish ==
    row = "spent" =>
        \E s \in Sessions :
            \/ sess[s].phase = "completed"
            \/ sess[s].phase = "finalize" /\ "finalize_accepted" \in mail[s]

\* While nothing has gone wrong, the input of a session in flight cannot be
\* selected by another transfer, unless the session's own turn has just
\* released it.
InputHeld ==
    \A s \in Sessions :
        hit = {} /\ InFlight(s) /\ "release" \notin turn[s].out => ~Selectable

\* While nothing worse than failed commits has happened, only the transfer that
\* made the latest reservation unlocks the coin, even if a failed commit makes
\* an earlier one release again what it released before: its epoch gives it
\* away.
OnlyHolderReleases ==
    [][\/ ~(row = "spending" /\ row' = "live")
       \/ ~(hit' \subseteq {"commit"})
       \/ \E s \in Sessions : /\ held[s] = epoch
                              /\ turn'[s] # turn[s] \/ caller'[s] # caller[s]]_vars

\* A spending coin without a reservation row "is provably orphaned (its spend
\* died before checkpointing) and is safe to release": after the sweep has
\* released one, and while nobody has selected the coin since, no session is in
\* flight with it.
SweptIsDead ==
    "swept" \in hit /\ epoch = 0 => \A s \in Sessions : ~InFlight(s)

=============================================================================
