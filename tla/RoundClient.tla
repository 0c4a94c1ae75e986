---------------------------- MODULE RoundClient -----------------------------
(***************************************************************************)
(* The round actor of the client (round/actor.go) with the parties it      *)
(* works with: the wallet that boards a deposit and registers intents, the *)
(* VTXO whose forfeit a round collects, the round store, the timeout       *)
(* actor, the chain and the operator.                                      *)
(*                                                                         *)
(* Three records hold the state: mem is lost when the daemon stops, db is  *)
(* durable, and ext is outside the client.  A handler takes the world      *)
(* [mem, db, ext] to the set of worlds it may end in: the machine's outbox *)
(* is applied message by message, a message may fail, and the daemon may   *)
(* stop between two of them.                                               *)
(*                                                                         *)
(* A registration and the round that the operator opens for it have the    *)
(* same name.  There is one deposit and one VTXO.                          *)
(***************************************************************************)
EXTENDS RoundFSM, FiniteSets, SequencesExt

CONSTANTS
    Scenarios,      \* what a behaviour may meet
    MaxRetries      \* maxFinalizeRetries

VARIABLES mem, db, ext, sc

vars == <<mem, db, ext, sc>>
W == [mem |-> mem, db |-> db, ext |-> ext]

\* wants: what is asked for; asks: how often the VTXO is reserved;
\* faults, max: what may go wrong, how often;
\* early: timers that may beat a message; dies: the operator may give up;
\* budget: the admission budget may end while the operator is still at work.
FaultKinds == {"join", "server", "query", "start", "cancel", "ask", "watch",
               "height", "retire", "finalize", "forfeited", "check", "store", "slot",
               "wallet", "schedule", "dup", "stray", "reseal", "crash"}
Wants == {"board", "refresh", "send", "leave"}
Phases == {"registration", "refresh", "scheduled", "admission", "forfeit",
           "reconcile", "finalize"}

ASSUME ScenarioAssumption ==
    /\ MaxRetries \in Nat
    /\ \A s \in Scenarios :
          /\ s.wants \subseteq Wants /\ s.faults \subseteq FaultKinds
          /\ s.max \in Nat /\ s.asks \in Nat /\ s.early \subseteq Phases
          /\ s.dies \in BOOLEAN /\ s.budget \in BOOLEAN

\* The state the actor starts with.  key: the name a round is tracked under
\* (RoundFSM.Key); carries: BoardingOutpoints; quotes: pendingQuotes;
\* index: commitmentTxIndex; retries: pendingFinalize; board: boardQueue;
\* shipped: the wallet's boardingShipped; due: timeouts that have expired;
\* releases, ask, resp, told: messages from and to the VTXO; watch: the
\* confirmations registered for.
Empty ==
    [fsm |-> [b \in Rounds |-> Idle], key |-> [b \in Rounds |-> "none"],
     carries |-> {}, quotes |-> [r \in Rounds |-> 0], armed |-> {},
     due |-> {}, index |-> {}, staged |-> [r \in Rounds |-> "none"],
     retries |-> [r \in Rounds |-> 0], board |-> FALSE, shipped |-> FALSE,
     replay |-> FALSE, relay |-> "none", releases |-> {}, ask |-> {},
     resp |-> {}, told |-> FALSE, watch |-> {}]

Coin(st, r) == [st |-> st, round |-> r]

Init ==
    /\ sc \in Scenarios
    /\ mem = Empty
    /\ db = [row |-> [r \in Rounds |-> "none"], deposit |-> "confirmed",
             wish |-> FALSE, links |-> {}, outs |-> {}, saved |-> {},
             coin |-> Coin("live", NoRound),
             booked |-> [r \in Rounds |-> "none"]]
    /\ ext = [op |-> [r \in Rounds |-> "none"],
              pass |-> [r \in Rounds |-> 0], asked |-> [r \in Rounds |-> Nothing],
              sigs |-> [r \in Rounds |-> {}], up |-> {}, down |-> {},
              used |-> {}, asks |-> 0, left |-> sc.max, on |-> TRUE]

Become(w) ==
    \E x \in {w} : mem' = x.mem /\ db' = x.db /\ ext' = x.ext /\ UNCHANGED sc

May(w, kind) == kind \in sc.faults /\ w.ext.left > 0
Spend(w) == [w EXCEPT !.ext.left = @ - 1]
Down(w) == [w EXCEPT !.mem = Empty, !.ext.on = FALSE]

Tracked(w) == {b \in Rounds : w.mem.key[b] # "none"}
InState(w, S) == {b \in Tracked(w) : w.mem.fsm[b].st \in S}
ById(w, r) == {b \in Rounds : w.mem.key[b] = r}
ByTemp(w, b) == {x \in {b} : w.mem.key[x] = "temp"}

-----------------------------------------------------------------------------
(***************************************************************************)
(* The store.                                                              *)
(***************************************************************************)
CommitState(w, f) ==
    LET r == f.round
    IN  [w EXCEPT
           !.db.row[r] = "input_sig_sent",
           !.db.deposit = IF f.dep THEN "adopted" ELSE @,
           !.db.wish = @ /\ ~f.dep,
           !.db.links = IF f.dep THEN @ \cup {r} ELSE @,
           !.db.outs = IF f.vtxos THEN @ \cup {r} ELSE @]

\* Only a round still at its checkpoint is retired, with its deposit.
FailRound(w, r) ==
    IF r = NoRound \/ w.db.row[r] # "input_sig_sent" THEN w
    ELSE [w EXCEPT !.db.row[r] = "failed",
                   !.db.deposit = IF r \in w.db.links THEN "confirmed" ELSE @]

\* The ledger entries are enqueued with the row.
FinalizeRound(w, r) ==
    [w EXCEPT !.db.row[r] = IF @ = "none" THEN @ ELSE "confirmed",
              !.db.booked[r] = w.mem.staged[r]]

-----------------------------------------------------------------------------
(***************************************************************************)
(* Rounds in memory.                                                       *)
(***************************************************************************)
reapFailedRounds(w) ==
    LET dead == InState(w, {"failed"})
        ids  == {w.mem.fsm[b].round : b \in dead}
    IN  [w EXCEPT
           !.mem.key = [b \in Rounds |-> IF b \in dead THEN "none" ELSE @[b]],
           !.mem.fsm = [b \in Rounds |-> IF b \in dead THEN Idle ELSE @[b]],
           !.mem.index = @ \ ids,
           !.mem.staged = [r \in Rounds |-> IF r \in ids THEN "none" ELSE @[r]]]

NewSlot(w) == CHOOSE b \in Rounds \ w.ext.used : TRUE

\* The bound on registrations: every request under way may need a new round.
CanCreate(w) ==
    Cardinality(Rounds \ w.ext.used) >
        (IF w.mem.board \/ w.mem.replay THEN 1 ELSE 0)
            + (IF w.mem.relay # "none" THEN 1 ELSE 0)

createNewRound(w) ==
    LET b == NewSlot(w)
    IN  [reapFailedRounds(w) EXCEPT !.mem.fsm[b] = Idle,
                                    !.mem.key[b] = "temp",
                                    !.ext.used = @ \cup {b}]

\* A round that is assembling, or a fresh one.
\* A choice is the round and the world in which it is tracked.
Choice(w, b) == [w |-> w, b |-> b]
Created(w) == {Choice(createNewRound(w), NewSlot(w))}

findAssemblingRound(w) ==
    IF InState(w, {"assembly"}) # {} THEN InState(w, {"assembly"})
                                     ELSE InState(w, {"idle"})

AssemblingRound(w) ==
    IF findAssemblingRound(w) # {}
    THEN {Choice(w, b) : b \in findAssemblingRound(w)}
    ELSE Created(w)

\* findRefreshRound: a machine that was torn down fails the search, and a join
\* under way defers the refresh.
findRefreshRound(w) ==
    IF InState(w, {"torn", "intent_sent", "joined"}) # {} THEN {}
    ELSE AssemblingRound(w)

\* findRoundByOutpoints: the only registration with these inputs.
findRoundByOutpoints(w, p) ==
    LET same == {b \in InState(w, {"intent_sent"}) :
                    /\ w.mem.fsm[b].dep = p.dep
                    /\ w.mem.fsm[b].coin = p.coin}
    IN  IF Cardinality(same) = 1 THEN same ELSE {}

-----------------------------------------------------------------------------
(***************************************************************************)
(* The outbox.                                                             *)
(***************************************************************************)
\* Registration and assembly timers carry the temporary key, others the id.
TimerOf(phase, b, r) ==
    IF phase \in {"registration", "refresh", "scheduled"}
    THEN <<phase, "temp", b>> ELSE <<phase, "id", r>>

Arm(w, t) == [w EXCEPT !.mem.armed = @ \cup {t}]

\* What is posted to the ledger when a round confirms: a leave that the state
\* has lost is taken for a fee (computeClientOperatorFee, roundLedgerOutflows).
Booking(w, f) ==
    IF w.ext.asked[f.round].leave /\ ~f.leave THEN "folded" ELSE "right"

onRoundComplete(w, r) ==
    LET done == FinalizeRound(w, r)
        gone == ById(w, r)
    IN  [done EXCEPT
           !.mem.key = [b \in Rounds |-> IF b \in gone THEN "none" ELSE @[b]],
           !.mem.index = @ \ {r}, !.mem.retries[r] = 0,
           !.mem.staged[r] = "none"]

\* Mutant: the retry is counted but not armed again.
scheduleFinalizeRetry_once(w, r) ==
    LET n == w.mem.retries[r] + 1
        counted == [w EXCEPT !.mem.retries[r] = n]
    IN  IF n > 1 THEN counted ELSE Arm(counted, TimerOf("finalize", r, r))

\* Mutant: what was staged does not outlive the failed attempt.
scheduleFinalizeRetry_drops(w, r) ==
    Arm([w EXCEPT !.mem.retries[r] = @ + 1, !.mem.staged[r] = "none"],
        TimerOf("finalize", r, r))

scheduleFinalizeRetry(w, r) ==
    LET n == w.mem.retries[r] + 1
    IN  IF n > MaxRetries THEN [w EXCEPT !.mem.retries[r] = 0]
        ELSE Arm([w EXCEPT !.mem.retries[r] = n], TimerOf("finalize", r, r))

Post(w, kind, r, n) == [w EXCEPT !.ext.up = @ \cup {<<kind, r, n>>}]

Deliver(w, b, m) ==
    LET f == w.mem.fsm[b]
        r == f.round
    IN  CASE m[1] = "join" ->
                [Post(w, "join", b, 0) EXCEPT
                    !.ext.asked[b] = [dep |-> f.dep, coin |-> f.coin,
                                      vtxos |-> f.vtxos, leave |-> f.leave]]
          [] m[1] = "server" ->
                Post(w, m[2], r, IF m[2] \in {"accept", "reject"} THEN f.pass
                                                                  ELSE 0)
          [] m[1] = "query" -> Post(w, "query", r, 0)
          [] m[1] = "start" -> Arm(w, TimerOf(m[2], b, r))
          [] m[1] = "cancel" ->
                [w EXCEPT !.mem.armed = @ \ {TimerOf(m[2], b, r)}]
          [] m[1] = "release" -> [w EXCEPT !.mem.releases = @ \cup {r}]
          [] m[1] = "failed" -> FailRound(w, r)
          [] m[1] = "ask" -> [w EXCEPT !.mem.ask = @ \cup {r}]
          [] m[1] = "watch" -> [w EXCEPT !.mem.watch = @ \cup {r}]
          [] m[1] = "checkpointed" ->
                [w EXCEPT !.mem.index = IF b \in ById(w, r) THEN @ \cup {r}
                                                            ELSE @]
          [] m[1] = "created" -> [w EXCEPT !.mem.staged[r] = Booking(w, f)]
          [] m[1] = "completed" -> onRoundComplete(w, r)
          [] m[1] = "forfeited" -> [w EXCEPT !.mem.told = TRUE]
          [] m[1] = "commit" -> CommitState(w, f)
          [] m[1] = "save" -> [w EXCEPT !.db.saved = @ \cup {r}]

\* What a handler ends in: the world, and whether it went through.
Result(w, ok) == [w |-> w, ok |-> ok]

\* The world acc is evaluated once for all its uses in Deliver.
Delivered(acc, b, m) == CHOOSE y \in {Deliver(x, b, m) : x \in {acc}} : TRUE

Prefix(w, b, out, n) ==
    FoldLeft(LAMBDA acc, m : Delivered(acc, b, m), w, SubSeq(out, 1, n))

\* The fault that ends the outbox at a message, and the one that is only
\* logged.  A confirmation is asked for from the height of the chain.
Aborting(m) == CASE m[1] = "watch" -> "height"
                 [] m[1] \in {"join", "server", "query", "start", "cancel",
                              "ask"} -> m[1]
                 [] OTHER -> "none"
Logged(m) == CASE m[1] = "failed" -> "retire"
               [] m[1] \in {"watch", "forfeited"} -> m[1]
               [] OTHER -> "none"

\* processOutbox.
processOutbox(w, b, out) ==
    LET n  == Len(out)
        At(i) == Prefix(w, b, out, i - 1)
        r  == w.mem.fsm[b].round
    IN  {Result(Prefix(w, b, out, n), TRUE)}
        \cup {Result(Spend(At(i)), FALSE) :
                i \in {i \in 1..n : May(w, Aborting(out[i]))}}
        \cup {Result(Spend(Prefix(w, b, RemoveAt(out, i), n - 1)), TRUE) :
                i \in {i \in 1..n : May(w, Logged(out[i]))}}
        \cup {Result(Spend(scheduleFinalizeRetry(At(i), r)), FALSE) :
                i \in {i \in 1..n : /\ out[i][1] = "completed"
                                    /\ May(w, "finalize")}}
        \cup {Result(Down(Spend(At(i))), FALSE) :
                i \in {i \in 1..n : May(w, "crash")}}

-----------------------------------------------------------------------------
(***************************************************************************)
(* A turn of a machine.                                                    *)
(***************************************************************************)
\* Mutant: a round that fails keeps its deposit marked in flight.
releaseBoardingOnFailure_never(w, b) == w

\* A failed round hands its deposit back to the wallet, once.
releaseBoardingOnFailure(w, b) ==
    IF b \in w.mem.carries /\ w.mem.fsm[b].st = "failed"
    THEN [w EXCEPT !.mem.carries = @ \ {b}, !.mem.shipped = FALSE]
    ELSE w

\* A check the event passes through may fail, and so may what it leads to.
Variants(w, e) ==
    {[e |-> e, w |-> w]}
    \cup (IF /\ May(w, "check")
             /\ e.type \in {"requested", "round_joined", "quote", "commitment",
                            "nonces_aggregated", "operator_signed",
                            "forfeit_signature", "boarding_confirmed"}
          THEN {[e |-> [e EXCEPT !.ok = FALSE], w |-> Spend(w)]} ELSE {})
    \cup (IF /\ May(w, "store")
             /\ e.type \in {"quote", "commitment", "nonces_aggregated",
                            "operator_signed", "forfeit_signature",
                            "boarding_confirmed"}
          THEN {[e |-> [e EXCEPT !.stored = FALSE], w |-> Spend(w)]} ELSE {})
    \cup (IF May(w, "schedule") /\ e.type = "requested"
          THEN {[e |-> [e EXCEPT !.pass = 1], w |-> Spend(w)]} ELSE {})

Turn(w, b, e) ==
    UNION {LET moved == [w EXCEPT !.mem.fsm[b] = t.next]
           IN  IF t.err THEN {Result(moved, FALSE)}
               ELSE {IF x.ok THEN Result(releaseBoardingOnFailure(x.w, b), TRUE)
                             ELSE x : x \in processOutbox(moved, b, t.out)} :
             t \in {ProcessEvent(w.mem.fsm[b], e)}}

askEventAndProcessOutbox(w, b, e) ==
    UNION {Turn(x.w, b, x.e) : x \in Variants(w, e)}

\* The worlds of a handler that does no more than this.
Handled(w, b, e) == {x.w : x \in askEventAndProcessOutbox(w, b, e)}

-----------------------------------------------------------------------------
(***************************************************************************)
(* Boarding, refreshes and intents.                                        *)
(***************************************************************************)
Holding(w, b, p) == [w EXCEPT !.mem.fsm[b] = ProcessEvent(@, Package(p)).next]

\* handleBoard: the wish is stored, the round actor told, and the deposit
\* marked in flight.
Board ==
    /\ ext.on /\ ~mem.shipped /\ db.deposit = "confirmed"
    /\ mem.replay \/ ("board" \in sc.wants /\ CanCreate(W))
    /\ Become([W EXCEPT !.db.wish = TRUE, !.mem.board = TRUE,
                        !.mem.shipped = TRUE, !.mem.replay = FALSE])

BoardPackage == [Nothing EXCEPT !.dep = TRUE, !.vtxos = TRUE]

registerBoard(w) ==
    UNION {LET b == c.b
               x == [Holding(c.w, b, BoardPackage) EXCEPT
                        !.mem.carries = @ \cup {b}]
           IN  Handled(x, b, Event("requested")) : c \in AssemblingRound(w)}

\* handleBoardingIntentsReply: without the wallet's answer, or a round, the
\* request is dropped.
BoardingIntentsReply ==
    LET w == [W EXCEPT !.mem.board = FALSE]
    IN  /\ mem.board
        /\ \/ \E x \in registerBoard(w) : Become(x)
           \/ May(w, "wallet") /\ Become(Spend(w))
           \/ /\ May(w, "slot") /\ findAssemblingRound(w) = {}
              /\ Become(Spend(reapFailedRounds(w)))

\* The VTXO is reserved before the round actor hears of it.
ReserveForfeit(kind) ==
    /\ ext.on /\ kind \in sc.wants \ {"board"}
    /\ db.coin.st = "live" /\ mem.relay = "none"
    /\ CanCreate(W) /\ ext.asks < sc.asks
    /\ Become([W EXCEPT !.db.coin = Coin("pending", NoRound),
                        !.mem.relay = kind, !.ext.asks = @ + 1])

IntentOf(kind) ==
    [Nothing EXCEPT !.coin = TRUE, !.vtxos = kind # "leave",
                    !.leave = kind = "leave"]

ReleaseUnowned(w) == [w EXCEPT !.mem.releases = @ \cup {NoRound}]

\* handleRefreshVTXOCohortRequest: the timer is set before the package is
\* taken; whatever keeps the package out releases the reservation.
RefreshVTXOCohortRequest ==
    LET w == [W EXCEPT !.mem.relay = "none"]
    IN  /\ mem.relay = "refresh"
        /\ \/ \E c \in findRefreshRound(w) :
                 \/ Become(Arm(Holding(c.w, c.b, IntentOf("refresh")),
                               TimerOf("refresh", c.b, NoRound)))
                 \/ /\ May(w, "start")
                    /\ Become(Spend(ReleaseUnowned(c.w)))
           \/ /\ findRefreshRound(w) = {}
              /\ Become(ReleaseUnowned(w))

\* The wallet releases the inputs of an intent that the round actor refused.
IntentRefused(w) == IF w.ext.on THEN ReleaseUnowned(w) ELSE w

\* handleRegisterIntent, with the registration triggered at once.
RegisterIntentRequest ==
    LET w == [W EXCEPT !.mem.relay = "none"]
    IN  /\ mem.relay \in {"send", "leave"}
        /\ \/ \E c \in AssemblingRound(w) :
                 \E x \in askEventAndProcessOutbox(
                             Holding(c.w, c.b, IntentOf(mem.relay)), c.b,
                             Event("requested")) :
                    Become(IF x.ok THEN x.w ELSE IntentRefused(x.w))
           \/ /\ May(w, "slot") /\ findAssemblingRound(w) = {}
              /\ Become(Spend(IntentRefused(reapFailedRounds(w))))

-----------------------------------------------------------------------------
(***************************************************************************)
(* Messages of the operator.                                               *)
(***************************************************************************)
Quote(n) == [Event("quote") EXCEPT !.pass = n]

\* The registration is tracked under the id of its round from here on, in the
\* place of any other that was.
ReKey(w, b, r) ==
    [w EXCEPT !.mem.key = [x \in Rounds |->
        IF x = b THEN r ELSE IF @[x] = r THEN "none" ELSE @[x]]]

\* Mutant: a quote that came early stays in the buffer.
DrainQuote_never(w, b, r) == {w}

\* A quote that came before the round was known is delivered now.
DrainQuote(w, b, r) ==
    IF w.mem.quotes[r] = 0 THEN {w}
    ELSE Handled([w EXCEPT !.mem.quotes[r] = 0], b, Quote(w.mem.quotes[r]))

handleRoundJoined(w, r) ==
    LET match == findRoundByOutpoints(w, w.ext.asked[r])
    IN  IF match = {} THEN {w}
        ELSE UNION {UNION {IF x.ok THEN DrainQuote(x.w, b, r) ELSE {x.w} :
                             x \in askEventAndProcessOutbox(ReKey(w, b, r), b,
                                 [Event("round_joined") EXCEPT !.round = r])} :
                      b \in match}

\* routeServerMessageByRoundID: an early quote is kept, anything else dropped.
routeServerMessageByRoundID(w, r, e) ==
    IF ById(w, r) # {} THEN UNION {Handled(w, b, e) : b \in ById(w, r)}
    ELSE {IF e.type = "quote" THEN [w EXCEPT !.mem.quotes[r] = e.pass] ELSE w}

\* routeServerMessageToPending: a failure goes to any round under a temporary
\* key, then to the round it names, then to the only round there is.
Pending(w, named, r) ==
    LET temp == {b \in Rounds : w.mem.key[b] = "temp"}
    IN  IF temp # {} THEN temp
        ELSE IF named THEN ById(w, r)
        ELSE IF Cardinality(Tracked(w)) = 1 THEN Tracked(w) ELSE {}

routeServerMessageToPending(w, named, r) ==
    LET to == Pending(w, named, r)
    IN  IF to = {} THEN {w}
        ELSE UNION {Handled(w, b, Event("boarding_failed")) : b \in to}

EventOf(kind, n) ==
    CASE kind = "quote" -> Quote(n)
      [] kind = "dead" -> [Event("status") EXCEPT !.ok = FALSE]
      [] kind = "alive" -> Event("status")
      [] OTHER -> Event(kind)

handleServerMessage(w, m) ==
    CASE m[1] = "joined" -> handleRoundJoined(w, m[2])
      [] m[1] = "failed" -> routeServerMessageToPending(w, TRUE, m[2])
      [] m[1] = "refused" -> routeServerMessageToPending(w, FALSE, m[2])
      [] OTHER -> routeServerMessageByRoundID(w, m[2], EventOf(m[1], m[3]))

\* A message may come a second time.
ServerMessage ==
    /\ ext.on
    /\ \E m \in ext.down :
         \/ \E x \in handleServerMessage([W EXCEPT !.ext.down = @ \ {m}], m) :
               Become(x)
         \/ /\ May(W, "dup")
            /\ \E x \in handleServerMessage(Spend(W), m) : Become(x)

-----------------------------------------------------------------------------
(***************************************************************************)
(* Timeouts and confirmations.                                             *)
(***************************************************************************)
TimeoutEvent(phase) ==
    CASE phase = "registration" -> Event("registration_timed_out")
      [] phase = "admission" -> Event("admission_timed_out")
      [] phase = "forfeit" -> Event("forfeit_timed_out")
      [] phase = "reconcile" -> Event("reconcile_timed_out")

\* Nothing is recorded for a round that was finalized by other means.
retryFinalize(w, r) ==
    IF w.mem.retries[r] = 0 THEN {w}
    ELSE {onRoundComplete(w, r)}
         \cup (IF May(w, "finalize")
               THEN {Spend(scheduleFinalizeRetry(w, r))} ELSE {})

handleTimeout(w, t) ==
    LET at == IF t[2] = "temp" THEN ByTemp(w, t[3]) ELSE ById(w, t[3])
    IN  IF at = {} THEN {w}
        ELSE UNION {CASE t[1] = "finalize" -> retryFinalize(w, t[3])
                      [] t[1] \in {"refresh", "scheduled"} ->
                            IF w.mem.fsm[b].st # "assembly" THEN {w}
                            ELSE Handled(w, b, Event("requested"))
                      [] OTHER -> Handled(w, b, TimeoutEvent(t[1])) : b \in at}

Timeout ==
    \E t \in mem.due :
        \E x \in handleTimeout([W EXCEPT !.mem.due = @ \ {t}], t) : Become(x)

\* A confirmation that is not in the index is ignored.
handleConfirmation(w, r) ==
    IF r \notin w.mem.index \/ ById(w, r) = {} THEN {w}
    ELSE UNION {Handled(w, b, Event("boarding_confirmed")) : b \in ById(w, r)}

Mined(r) == r \in mem.watch /\ ext.op[r] = "mined"

Confirmation ==
    \E r \in Rounds :
        /\ Mined(r)
        /\ \E x \in handleConfirmation([W EXCEPT !.mem.watch = @ \ {r}], r) :
              Become(x)

handleForfeitSignatureResponse(w, r) ==
    IF ById(w, r) = {} THEN {w}
    ELSE UNION {Handled(w, b, Event("forfeit_signature")) : b \in ById(w, r)}

ForfeitSignatureResponse ==
    \E r \in mem.resp :
        \E x \in handleForfeitSignatureResponse(
                    [W EXCEPT !.mem.resp = @ \ {r}], r) : Become(x)

-----------------------------------------------------------------------------
(***************************************************************************)
(* The VTXO (vtxo/transitions.go), as rounds meet it.                      *)
(***************************************************************************)
\* A reserved or live VTXO signs, and is forfeiting before its answer leaves.
VTXOSigns ==
    \E r \in mem.ask :
        LET w == [W EXCEPT !.mem.ask = @ \ {r}]
        IN  Become(IF db.coin.st \in {"live", "pending"}
                   THEN [w EXCEPT !.db.coin = Coin("forfeiting", r),
                                  !.mem.resp = @ \cup {r}]
                   ELSE w)

\* A reservation is released by anyone, a signed forfeit only by its round.
\* The request of a round was in the VTXO's mailbox before its release.
VTXOReleased ==
    \E r \in mem.releases \ mem.ask :
        LET w == [W EXCEPT !.mem.releases = @ \ {r}]
        IN  Become(IF \/ db.coin.st = "pending"
                      \/ r # NoRound /\ db.coin = Coin("forfeiting", r)
                   THEN [w EXCEPT !.db.coin = Coin("live", NoRound)]
                   ELSE w)

VTXOForfeited ==
    /\ mem.told
    /\ Become([W EXCEPT !.mem.told = FALSE,
                        !.db.coin.st = IF @ = "forfeiting" THEN "forfeited"
                                                           ELSE @])

-----------------------------------------------------------------------------
(***************************************************************************)
(* Restarts.                                                               *)
(***************************************************************************)
Crash ==
    /\ ext.on /\ May(W, "crash")
    /\ Become(Down(Spend(W)))

\* A round comes back at its checkpoint, without its leave and without the
\* VTXOs it has to tell (reconstructFSMState, roundForfeitRequests).
createRoundFSMFromDB(r) ==
    [Idle EXCEPT !.st = "input_sig_sent", !.round = r,
                 !.dep = r \in db.links, !.vtxos = r \in db.outs,
                 !.coin = db.coin = Coin("forfeiting", r)]

RestoredTimers(active) == {TimerOf("reconcile", r, r) : r \in active}

\* The manager's start and its pass after the round actor is up: a reservation
\* has no owner any more, a signed forfeit has one if its round has a row.
SweptCoin ==
    LET r == db.coin.round
    IN  CASE db.coin.st = "pending" -> Coin("live", NoRound)
          [] db.coin.st = "forfeiting" ->
                CASE db.row[r] = "none" -> Coin("live", NoRound)
                  [] db.row[r] = "confirmed" -> Coin("forfeited", r)
                  [] OTHER -> db.coin
          [] OTHER -> db.coin

\* RoundClientActor.Start, and the wallet's replay of its pending intents.
Restart ==
    LET active == {r \in Rounds : db.row[r] = "input_sig_sent"}
        signed == active \cap db.links
    IN  /\ ~ext.on
        /\ Become([W EXCEPT
              !.ext.on = TRUE,
              !.ext.up = @ \cup {<<"bsigs", r, 0>> : r \in signed},
              !.db.coin = SweptCoin,
              !.mem.replay = /\ db.wish /\ db.deposit = "confirmed"
                             /\ CanCreate(W),
              !.mem.fsm = [b \in Rounds |-> IF b \in active
                                            THEN createRoundFSMFromDB(b)
                                            ELSE Idle],
              !.mem.key = [b \in Rounds |-> IF b \in active THEN b ELSE "none"],
              !.mem.index = active, !.mem.watch = active,
              !.mem.armed = RestoredTimers(active)])

-----------------------------------------------------------------------------
(***************************************************************************)
(* The operator, the chain and time, as the client meets them.             *)
(***************************************************************************)
Wire(w, kind, r, n) == [w EXCEPT !.ext.down = @ \cup {<<kind, r, n>>}]
Took(m) == [W EXCEPT !.ext.up = @ \ {m}]
Stage(w, r, st) == [w EXCEPT !.ext.op[r] = st]

\* A join is answered with a round and a quote, refused, or left unanswered.
OpJoin ==
    \E m \in ext.up :
        LET r == m[2]
        IN  /\ m[1] = "join"
            /\ \/ Become(Wire(Wire([Stage(Took(m), r, "open") EXCEPT
                                       !.ext.pass[r] = 1],
                                   "joined", r, 0), "quote", r, 1))
               \/ sc.dies /\ Become(Wire(Took(m), "refused", r, 0))
               \/ sc.dies /\ Become(Took(m))

\* The round is sealed once more, with new quotes.
OpReseal(r) ==
    /\ ext.op[r] = "open" /\ ext.pass[r] < MaxPass /\ May(W, "reseal")
    /\ Become(Wire([Spend(W) EXCEPT !.ext.pass[r] = @ + 1],
                   "quote", r, ext.pass[r] + 1))

\* The steps of the ceremony.  A message the operator does not wait for is
\* ignored; a quote that was rejected ends the round for this client.
Steps == [accept  |-> [at |-> "open", to |-> "built", out |-> "commitment"],
          nonces  |-> [at |-> "built", to |-> "nonces",
                       out |-> "nonces_aggregated"],
          partial |-> [at |-> "nonces", to |-> "signing",
                       out |-> "operator_signed"]]

OpStep ==
    \E m \in ext.up :
        LET r == m[2]
        IN  /\ m[1] \in DOMAIN Steps
            /\ LET s == Steps[m[1]]
               IN  Become(IF /\ ext.op[r] = s.at
                             /\ m[1] = "accept" => m[3] = ext.pass[r]
                          THEN Wire(Stage(Took(m), r, s.to), s.out, r, 0)
                          ELSE Took(m))

OpRejected ==
    \E m \in ext.up :
        /\ m[1] = "reject"
        /\ Become(Stage(Took(m), m[2],
                        IF ext.op[m[2]] = "open" THEN "dead" ELSE ext.op[m[2]]))

Needed(r) == (IF ext.asked[r].coin THEN {"vsigs"} ELSE {})
                \cup (IF ext.asked[r].dep THEN {"bsigs"} ELSE {})

\* With all the signatures the operator has the commitment transaction.
OpSigned ==
    \E m \in ext.up :
        LET r    == m[2]
            held == ext.sigs[r] \cup {m[1]}
        IN  /\ m[1] \in {"vsigs", "bsigs"}
            /\ Become([Took(m) EXCEPT
                  !.ext.sigs[r] = held,
                  !.ext.op[r] = IF Needed(r) \subseteq held
                                   /\ @ \in {"built", "signing"}
                                THEN "final" ELSE @])

\* The status of a round is answered truthfully.
OpAnswer ==
    \E m \in ext.up :
        /\ m[1] = "query"
        /\ Become(Wire(Took(m), IF ext.op[m[2]] = "dead" THEN "dead"
                                                         ELSE "alive",
                       m[2], 0))

OpMines(r) == ext.op[r] = "final" /\ Become(Stage(W, r, "mined"))

\* The operator gives a round up, and says so or not.
Unfinished == {"open", "built", "nonces", "signing", "final"}
OpDies(r) ==
    /\ sc.dies /\ ext.op[r] \in Unfinished
    /\ \/ Become(Stage(W, r, "dead"))
       \/ Become(Wire(Stage(W, r, "dead"), "failed", r, 0))

\* A failure is delivered although the round lives on.
OpStray(r) ==
    /\ ext.op[r] \in Unfinished /\ May(W, "stray")
    /\ Become(Wire(Spend(W), "failed", r, 0))

\* Nothing is under way that would be heard of before a timer runs out.
Quiet ==
    /\ ext.up = {} /\ ext.down = {} /\ mem.due = {} /\ ~mem.board
    /\ mem.relay = "none" /\ mem.releases = {} /\ mem.ask = {}
    /\ mem.resp = {} /\ ~mem.told /\ ~mem.replay
    /\ \A r \in Rounds : ~Mined(r)

\* The admission timer is set again every second until the budget is over.
Expires(t) ==
    t[1] = "admission" => \E b \in ById(W, t[3]) : mem.fsm[b].late

Fire(t) ==
    /\ t \in mem.armed /\ Expires(t)
    /\ Quiet \/ t[1] \in sc.early
    /\ Become([W EXCEPT !.mem.armed = @ \ {t}, !.mem.due = @ \cup {t}])

BudgetEnds(b) ==
    LET f == mem.fsm[b]
    IN  /\ f.st \in PreCheckpoint /\ f.round # NoRound /\ ~f.late
        /\ sc.budget \/ Quiet
        /\ Become([W EXCEPT !.mem.fsm[b].late = TRUE])

-----------------------------------------------------------------------------
Handlers ==
    \/ VTXOSigns \/ VTXOReleased \/ VTXOForfeited \/ Timeout \/ Confirmation
    \/ ForfeitSignatureResponse \/ BoardingIntentsReply
    \/ RefreshVTXOCohortRequest \/ RegisterIntentRequest \/ ServerMessage

Operator == OpJoin \/ OpStep \/ OpRejected \/ OpSigned \/ OpAnswer

Replay == mem.replay /\ Board

\* Time passes for a round, whatever others do meanwhile.
Elapses == \/ \E t \in mem.armed : t[1] # "reconcile" /\ Fire(t)
           \/ \E b \in Rounds : BudgetEnds(b)

Progress ==
    \/ Operator \/ Restart \/ Replay
    \/ \E t \in mem.armed : Fire(t)
    \/ \E b \in Rounds : BudgetEnds(b)
    \/ Handlers

Settles == \E r \in Rounds : OpMines(r) \/ OpDies(r)

Next ==
    \/ Progress \/ Settles \/ Board \/ Crash
    \/ \E kind \in Wants : ReserveForfeit(kind)
    \/ \E r \in Rounds : OpReseal(r) \/ OpStray(r)

Spec == Init /\ [][Next]_vars

FairSpec == Spec /\ WF_vars(Progress) /\ WF_vars(Settles) /\ SF_vars(Elapses)

-----------------------------------------------------------------------------
(***************************************************************************)
(* Properties.                                                             *)
(***************************************************************************)
\* A signature of kind k for round r has left the client.
Sent(k, r) == k \in ext.sigs[r] \/ <<k, r, 0>> \in ext.up

\* A signature leaves the client only after its round has a row, and while the
\* operator may still use it the VTXO or deposit it spends stays with the
\* round: whatever failure is delivered, whichever other round asks for the
\* input, and across restarts (CommitState, InputSigSentState, FailRound).
SignedInputsAreHeld ==
    \A r \in Rounds :
        /\ Sent("vsigs", r) \/ Sent("bsigs", r) => db.row[r] # "none"
        /\ Sent("vsigs", r) /\ ext.op[r] # "dead" =>
              db.coin \in {Coin("forfeiting", r), Coin("forfeited", r)}
        /\ Sent("bsigs", r) /\ ext.op[r] # "dead" => db.deposit = "adopted"

\* The messages that a timer or a query needs get through.
Heard == sc.faults \cap {"start", "cancel", "query", "retire"} = {}

\* A round at its checkpoint always has its status clock, even if a signature
\* could not be sent or the daemon was restarted (forfeitCollectionOutbox,
\* "orders the reconciliation timeout before every fallible external effect").
CheckpointedHasClock ==
    Heard => \A b \in InState(W, {"input_sig_sent"}) :
                TimerOf("reconcile", b, mem.fsm[b].round)
                    \in mem.armed \cup mem.due

\* A round is never marked confirmed without its ledger entries, however often
\* its finalization failed first (FinalizeRound, flushStagedLedger).
FinalizedIsBooked ==
    \A r \in Rounds : db.row[r] = "confirmed" => db.booked[r] # "none"

\* A quote that overtook the admission of its round is not left behind once
\* the round is known (bufferPendingQuote, handleRoundJoined).
NoQuoteLeftBehind ==
    Heard => \A r \in Rounds : mem.quotes[r] > 0 => ById(W, r) = {}

\* A round whose admission budget is over never reaches its checkpoint, even
\* if the message that would take it there is handled before the timer
\* (processPreCheckpointEvent).
LateRoundStops ==
    [][\A b \in Rounds :
          mem.fsm[b].late /\ mem.fsm[b].st \in PreCheckpoint
             => mem'.fsm[b].st # "input_sig_sent"]_vars

\* The VTXO is reserved, or signed over to a round that never had a row, has
\* failed, or was given up by the operator.
SignedFor(row) == db.coin.st = "forfeiting" /\ db.row[db.coin.round] = row
HeldForNothing ==
    \/ db.coin.st = "pending" \/ SignedFor("none") \/ SignedFor("failed")
    \/ SignedFor("input_sig_sent") /\ ext.op[db.coin.round] = "dead"

\* The daemon has stopped before the release of a failed round was delivered:
\* the sweep at boot keeps the forfeit of any round that has a row, whatever
\* its status (HasForfeitRoundCheckpoint), so this VTXO stays held.
Stranded ==
    SignedFor("failed") /\ "crash" \in sc.faults /\ ext.left < sc.max


\* A checkpointed round whose commitment is mined becomes confirmed, also if
\* its finalization has to be retried or the daemon restarts meanwhile, as long
\* as no failure of the round is delivered first.
Unrecorded ==
    \E r \in Rounds : ext.op[r] = "mined" /\ db.row[r] = "input_sig_sent"
Undisturbed ==
    /\ ~sc.dies /\ sc.max <= MaxRetries
    /\ sc.faults \cap {"watch", "height", "check", "store", "stray"} = {}

MinedIsFinalized == Undisturbed /\ Unrecorded ~> ~Unrecorded

\* A deposit on its way into a round is adopted or can be boarded again: the
\* wallet's mark does not outlive a round that fails
\* (releaseBoardingOnFailure).
BoardableAgain ==
    (/\ sc.faults \subseteq {"stray", "dup", "reseal", "crash"}
     /\ db.deposit = "confirmed" /\ mem.shipped)
        ~> (db.deposit = "adopted" \/ ~mem.shipped)

\* The value of a leave is booked as an outflow, not as an operator fee
\* (round/transitions.go, computeClientOperatorFee: "Recipient and leave values
\* are booked separately as VTXOSentMsg outflows; they must not be folded into
\* the operator fee").
LeaveIsNoFee ==
    \A r \in Rounds : db.row[r] = "confirmed" => db.booked[r] = "right"

=============================================================================
