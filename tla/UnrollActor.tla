---------------------------- MODULE UnrollActor -----------------------------
(***************************************************************************)
(* The durable actor of one exit job (unroll/actor.go).  A message is      *)
(* taken from the mailbox, drives the machine of UnrollPlan, and the       *)
(* effects are routed to the broadcaster and the chain source.  Routing    *)
(* may drive further events, so the rest of a handler is a stack of items  *)
(* (todo) that other actors interleave with:                               *)
(*   dispatch          map the message onto events                         *)
(*   drive, handle     driveEvent, handleEvent                             *)
(*   ensure, resweep, watch, sweep   the effects of the machine            *)
(*   cancel, submit    the second half of startSweep                       *)
(*   tell              notifyRegistryIfTerminal                            *)
(* Each event is staged (checkpoint written) before its effects; the       *)
(* message is consumed by one commit at the end.  A failed handler leaves  *)
(* the message to be delivered again, later.                               *)
(*                                                                         *)
(* Left out: exit policies other than the standard one (a locktime that    *)
(* defers the build), taproot assets, dead-lettering after ten attempts,   *)
(* and the legacy fee readmission.                                         *)
(***************************************************************************)
EXTENDS TxConfirm, UnrollPlan

CONSTANT Child     \* the subscriber that is the exit job

(* Sweeps, proof transactions and foreign spends are different             *)
(* transactions, and a proof is finite: the sets of its transactions have  *)
(* sizes.  The job does not keep TxReorged.                                *)
ASSUME ExitAssumption ==
    /\ NoTx \notin Txs /\ Child \in Subs
    /\ Wanted[Child] \subseteq {"confirmed", "finalized", "failed"}
    /\ \A s \in Scenarios :
        /\ s.proof.nodes \subseteq Txs \ SweepTxs
        /\ \A txs \in SUBSET s.proof.nodes : Cardinality(txs) \in Nat
        /\ s.proof.target \in s.proof.nodes
        /\ s.proof.checkpoints \subseteq s.proof.nodes
        /\ s.proof.delay \in Nat /\ s.proof.margin \in Nat
        /\ s.fraud \in BOOLEAN
        /\ DOMAIN s.foreign \subseteq Txs \ (SweepTxs \cup s.proof.nodes)

VARIABLES
    child,      \* the actor in memory
    ck,         \* its checkpoint
    sent,       \* history: sweeps handed to the broadcaster
    clean,      \* cleanup goroutines of a conflicted exit
    reg         \* the registry in memory (see UnrollRegistry)

jobVars == <<child, ck, sent, clean>>

p == sc.proof
Outpoints == p.nodes \cup RootExternalInputs(p)

(* restoreCheckpoint: a new actor of the job. *)
Spawned(c) ==
    [up |-> TRUE, drain |-> FALSE, loaded |-> FALSE, torn |-> FALSE,
     job |-> c.job, sweep |-> c.sweep, old |-> c.old,
     restored |-> c.job.started, reroute |-> FALSE,
     notified |-> FALSE, dropped |-> FALSE,
     watch |-> [op \in Outpoints |-> "off"], cwatch |-> {}, told |-> 0,
     row |-> 0, todo |-> <<>>]
Down(c) == [Spawned(c) EXCEPT !.up = FALSE]
NoCheckpoint == [job |-> Idle, sweep |-> NoTx, old |-> {}]

(* checkpointWrite: what a Stage or a Commit saves. *)
Snapshot(c) == [job |-> c.job, sweep |-> c.sweep, old |-> c.old]

(* sweepCandidate *)
Candidates(c) == (c.old \cup {c.sweep}) \ {NoTx}

---------------------------------------------------------------------------
(* Messages, events and items of work. *)

Ask(kind, n) == [kind |-> kind, height |-> height, n |-> n]
IsAsk(m) == m.kind \in {"start", "resume"}
HeightMsg == [kind |-> "height", height |-> height]
SpendMsg(op, tx) == [kind |-> "spend", op |-> op, tx |-> tx,
                     height |-> mined[tx]]
ConfMsg(tx) == [kind |-> "confirmed", tx |-> tx, height |-> mined[tx],
                class |-> ""]

NoEvent == [kind |-> ""]
Resume(h) == [kind |-> "resume", height |-> h]
Confirmed(tx, h) == [kind |-> "confirmed", tx |-> tx, height |-> h]
Failed(tx, class, same) ==
    [kind |-> "failed", tx |-> tx, class |-> class, retrySame |-> same]
Broadcasted(tx) == [kind |-> "sweep_broadcasted", tx |-> tx]
Fail(conflict) == [kind |-> "fail", conflict |-> conflict]

Item(do, tx, e) == [do |-> do, tx |-> tx, e |-> e]
Drive(e) == Item("drive", NoTx, e)
Handle(e) == Item("handle", NoTx, e)
Tell == Item("tell", NoTx, NoEvent)

Items(outbox) ==
    [i \in DOMAIN outbox |-> Item(outbox[i].kind, outbox[i].tx, NoEvent)]

Msg == box[Child].rows[child.row].msg
Now == Head(child.todo)
Rest == Tail(child.todo)
Doing(do) == child.row > 0 /\ child.todo # <<>> /\ Now.do = do

---------------------------------------------------------------------------
(* Watches.  Loading arms the watch on the target; the sources are armed   *)
(* once the job has a height to scan from.                                 *)

Armed(c, ops) ==
    [c EXCEPT !.watch = [op \in Outpoints |->
        IF op \in ops /\ @[op] = "off" THEN "on" ELSE @[op]]]
SourcesArmed(c) == IF c.job.started THEN Armed(c, RootExternalInputs(p)) ELSE c
Loaded(c) == SourcesArmed(Armed([c EXCEPT !.loaded = TRUE], {p.target}))

(* The chain source tells a block, a spend or a deferred checkpoint.       *)
(* Bound: it does so when the mailbox is empty.  What it has to tell stays *)
(* pending until then, so every order of these messages remains.           *)
Append1(m) == box' = [box EXCEPT ![Child] = Post(@, NoId, m)]
ChainUnchanged == UNCHANGED <<chainVars, tracked, parked, flights, best, tick,
                              closed, heard>>

HeightObserved ==
    /\ child.loaded /\ child.told < height
    /\ box[Child].rows = <<>>
    /\ child' = [child EXCEPT !.told = height]
    /\ Append1(HeightMsg)
    /\ ChainUnchanged /\ UNCHANGED <<ck, sent, clean, reg>>

SpendObserved(op) ==
    /\ child.loaded /\ child.watch[op] = "on"
    /\ box[Child].rows = <<>>
    /\ child' = [child EXCEPT !.watch[op] = "fired"]
    /\ \E tx \in Spenders(op) : Append1(SpendMsg(op, tx))
    /\ ChainUnchanged /\ UNCHANGED <<ck, sent, clean, reg>>

CheckpointObserved(tx) ==
    /\ tx \in child.cwatch /\ mined[tx] > 0
    /\ box[Child].rows = <<>>
    /\ child' = [child EXCEPT !.cwatch = @ \ {tx}]
    /\ Append1(ConfMsg(tx))
    /\ ChainUnchanged /\ UNCHANGED <<ck, sent, clean, reg>>

---------------------------------------------------------------------------
(* Taking a message: the oldest, or the oldest of those put back.          *)

Rows == box[Child].rows
FirstWith(late, i) == /\ i \in DOMAIN Rows /\ Rows[i].late = late
                      /\ \A j \in 1 .. i - 1 : Rows[j].late # late

(* Receive: after a failed route the staged work is reissued first. *)
Take ==
    /\ child.up /\ child.row = 0
    /\ \E late \in BOOLEAN, i \in DOMAIN Rows :
        /\ FirstWith(late, i)
        /\ child' = [child EXCEPT
                !.row = i,
                !.restored = @ /\ ~child.reroute,
                !.todo = (IF child.reroute
                          THEN <<Drive(Resume(child.job.height))>> ELSE <<>>)
                         \o <<Item("dispatch", NoTx, NoEvent)>>]
    /\ ChainUnchanged /\ UNCHANGED <<box, ck, sent, clean, reg>>

(* The mailbox without the message at hand. *)
Consumed(rows, i) == SubSeq(rows, 1, i - 1) \o SubSeq(rows, i + 1, Len(rows))

(* The handler fails: a told message is put back, an asked one is answered *)
(* with the error.  "routed" when a route was under way.                   *)
Answered(r, m, ans) ==
    IF IsAsk(m) /\ m.n \in {r.wait, r.late} THEN [r EXCEPT !.ans = ans] ELSE r

(* Mutant: the staged work is not reissued. *)
Raise_forgotten(c, routed) ==
    /\ child' = [c EXCEPT !.row = 0, !.todo = <<>>]
    /\ box' = [box EXCEPT ![Child].rows =
            IF IsAsk(Msg) THEN Consumed(@, child.row)
            ELSE [@ EXCEPT ![child.row].late = TRUE]]
    /\ reg' = Answered(reg, Msg, "error")

Raise(c, routed) ==
    /\ child' = [c EXCEPT !.row = 0, !.todo = <<>>, !.reroute = @ \/ routed]
    /\ box' = [box EXCEPT ![Child].rows =
            IF IsAsk(Msg) THEN Consumed(@, child.row)
            ELSE [@ EXCEPT ![child.row].late = TRUE]]
    /\ reg' = Answered(reg, Msg, "error")
Routing == \E i \in DOMAIN Rest : Rest[i].do = "tell"

(* commitAck *)
Commit ==
    /\ child.row > 0 /\ child.todo = <<>>
    /\ ck' = Snapshot(child)
    /\ child' = [child EXCEPT !.row = 0, !.reroute = FALSE,
                              !.restored = @ /\ ~IsAsk(Msg)]
    /\ box' = [box EXCEPT ![Child].rows = Consumed(@, child.row)]
    /\ reg' = Answered(reg, Msg, "ok")
    /\ ChainUnchanged /\ UNCHANGED <<sent, clean>>

LeaseLost ==
    /\ child.row > 0 /\ child.todo = <<>>
    /\ Charge({"lease"})
    /\ Raise(child, FALSE)
    /\ UNCHANGED <<sc, height, mined, pool, tracked, parked, flights, best,
                   tick, closed, heard, ck, sent, clean>>

---------------------------------------------------------------------------
(* dispatch, confirmSweepCandidate and handleSpendObserved: the events of  *)
(* a message, for a loaded actor c.                                        *)

ConfirmItems(c, tx, h) ==
    IF tx \in Candidates(c)
    THEN IF Terminal(p, c.job) THEN <<>>
         ELSE <<Drive(Broadcasted(tx)), Handle(Confirmed(tx, h))>>
    ELSE <<Handle(Confirmed(tx, h))>>

(* Mutant: the sweeps a dearer one replaced are not ours. *)
OwnSweep_latest(c, tx) == tx = c.sweep

OwnSweep(c, tx) == tx \in Candidates(c)

SpendItems(c, m) ==
    LET parent == IF m.op \in p.nodes \ {p.target}
                  THEN <<Drive(Confirmed(m.op, m.height))>> ELSE <<>>
        conflict == m.op \in RootExternalInputs(p)
    IN  CASE Terminal(p, c.job) -> <<>>
          [] ~Terminal(p, c.job) /\ m.tx \in p.nodes ->
                parent \o (IF parent # <<>>
                           THEN <<Drive(Confirmed(m.tx, m.height))>>
                           ELSE <<Handle(Confirmed(m.tx, m.height))>>)
          [] ~Terminal(p, c.job) /\ OwnSweep(c, m.tx) ->
                ConfirmItems(c, m.tx, m.height)
          [] OTHER -> parent \o <<Handle(Fail(conflict))>>

StaleFailure(c, m) == /\ m.kind = "failed" /\ c.sweep # NoTx /\ m.tx # c.sweep
                      /\ m.tx \in Candidates(c)

ItemsFor(c, m) ==
    CASE m.kind = "start" ->
            IF c.restored THEN <<Handle(Resume(m.height))>>
            ELSE <<Handle([kind |-> "start", height |-> m.height,
                           fraud |-> sc.fraud])>>
      [] m.kind = "resume" -> <<Handle(Resume(m.height))>>
      [] m.kind = "height" ->
            <<Handle([kind |-> "height", height |-> m.height])>>
      [] m.kind \in {"confirmed", "finalized"} -> ConfirmItems(c, m.tx, m.height)
      [] m.kind = "failed" ->
            IF StaleFailure(c, m) THEN <<>>
            ELSE <<Handle(Failed(m.tx, m.class, c.old # {}))>>
      [] m.kind = "spend" -> SpendItems(c, m)

(* The candidate that confirmed becomes the sweep. *)
Selected(c, m) ==
    IF /\ m.kind \in {"confirmed", "finalized", "spend"} /\ m.tx \in Candidates(c)
       /\ ~Terminal(p, c.job)
    THEN m.tx ELSE c.sweep

Dispatch ==
    /\ Doing("dispatch")
    /\ \E c \in {Loaded(child)} :
            child' = [c EXCEPT !.sweep = Selected(c, Msg),
                               !.todo = ItemsFor(c, Msg) \o Rest]
    /\ ChainUnchanged /\ UNCHANGED <<box, ck, sent, clean, reg>>

(* ensureLoaded fails: no proof, no descriptor, no subscription. *)
LoadFails ==
    /\ Doing("dispatch") /\ ~child.loaded
    /\ Charge({"load"})
    /\ Raise(child, FALSE)
    /\ UNCHANGED <<sc, height, mined, pool, tracked, parked, flights, best,
                   tick, closed, heard, ck, sent, clean>>

---------------------------------------------------------------------------
(* driveEvent: apply, stage, route, tell.  An event the machine does not   *)
(* take tears it down, and every later event fails.                        *)

Driving == \/ Doing("drive")
           \/ Doing("handle") /\ ~Terminal(p, child.job)
Taken == ~child.torn /\ Accepted(p, child.job, Now.e)
Advanced == {[child EXCEPT !.job = r.job,
                           !.todo = Items(r.outbox) \o <<Tell>> \o Rest] :
                r \in ProcessEvent(p, child.job, Now.e)}

driveEvent ==
    /\ Driving /\ Taken
    /\ \E c \in Advanced : child' = SourcesArmed(c) /\ ck' = Snapshot(c)
    /\ ChainUnchanged /\ UNCHANGED <<box, sent, clean, reg>>

StageFails ==
    /\ Driving /\ Taken
    /\ Charge({"stage"})
    /\ \E c \in Advanced : Raise(c, Routing)
    /\ UNCHANGED <<sc, height, mined, pool, tracked, parked, flights, best,
                   tick, closed, heard, ck, sent, clean>>

Refused ==
    /\ Driving /\ ~Taken
    /\ Raise([child EXCEPT !.torn = TRUE], Routing)
    /\ ChainUnchanged /\ UNCHANGED <<ck, sent, clean>>

AlreadyTerminal ==
    /\ Doing("handle") /\ Terminal(p, child.job)
    /\ child' = [child EXCEPT !.todo = <<Tell>> \o Rest]
    /\ ChainUnchanged /\ UNCHANGED <<box, ck, sent, clean, reg>>

---------------------------------------------------------------------------
(* routeOutbox. *)

(* ensureNodeConfirmed: watch the outputs, submit, and drive the failure   *)
(* the broadcaster answers with.                                           *)
ensureNodeConfirmed(res, slow) ==
    /\ Doing("ensure") /\ Now.tx \in p.nodes
    /\ handleEnsure(Now.tx, Child, res, slow)
    /\ LET c == IF Children(p, Now.tx) = {} THEN child
                ELSE Armed(child, {Now.tx})
       IN  child' = [c EXCEPT !.todo =
                (IF EnsureFailed(Now.tx, res)
                 THEN <<Drive(Failed(Now.tx, "", FALSE))>> ELSE <<>>) \o Rest]
    /\ UNCHANGED <<ck, sent, clean, reg>>

ReissueSweepConfirmation(res, slow) ==
    /\ Doing("resweep")
    /\ handleEnsure(child.sweep, Child, res, slow)
    /\ child' = [child EXCEPT !.todo = Rest]
    /\ UNCHANGED <<ck, sent, clean, reg>>

watchDeferredCheckpoint ==
    /\ Doing("watch")
    /\ child' = [child EXCEPT !.cwatch = @ \cup {Now.tx}, !.todo = Rest]
    /\ ChainUnchanged /\ UNCHANGED <<box, ck, sent, clean, reg>>

(* An Ask of the route is answered with an error. *)
RouteFails ==
    /\ child.row > 0 /\ child.todo # <<>>
    /\ Now.do \in {"ensure", "resweep", "watch", "cancel", "submit"}
    /\ Charge({"route"})
    /\ Raise(child, TRUE)
    /\ UNCHANGED <<sc, height, mined, pool, tracked, parked, flights, best,
                   tick, closed, heard, ck, sent, clean>>

---------------------------------------------------------------------------
(* startSweep. *)

(* adoptStagedSweep *)
Current == IF child.sweep # NoTx THEN child.sweep ELSE ck.sweep
MustReprice == /\ child.job.rejected # NoTx /\ ~child.job.retrySame
               /\ Current = child.job.rejected
Dearer == {i \in DOMAIN Sweeps : i > 1 /\ Sweeps[i - 1] = Current}

(* No estimate, or no better one: the next block asks again. *)
SweepDeferred ==
    /\ Doing("sweep") /\ (MustReprice \/ Current = NoTx)
    /\ Charge(IF MustReprice /\ Dearer = {} THEN {} ELSE {"estimate"})
    /\ child' = [child EXCEPT !.sweep = Current, !.todo = Rest]
    /\ UNCHANGED <<sc, height, mined, pool, tracked, parked, flights, best,
                   tick, box, closed, heard, ck, sent, clean, reg>>

SweepBuildFailed ==
    /\ Doing("sweep") /\ Current = NoTx
    /\ Charge({"build"})
    /\ child' = [child EXCEPT !.todo =
                    <<Drive([kind |-> "sweep_build_failed"])>> \o Rest]
    /\ UNCHANGED <<sc, height, mined, pool, tracked, parked, flights, best,
                   tick, box, closed, heard, ck, sent, clean, reg>>

(* The sweep to submit: built, repriced, or the one at hand. *)
NextSweep == IF Current = NoTx THEN {Sweeps[1]}
             ELSE IF MustReprice THEN {Sweeps[i] : i \in Dearer}
             ELSE {Current}
Chosen(tx) ==
    [child EXCEPT
        !.sweep = tx,
        !.old = IF MustReprice THEN @ \cup {Current} ELSE @,
        !.todo = (IF child.job.rejected \notin {NoTx, tx}
                  THEN <<Item("cancel", child.job.rejected, NoEvent)>>
                  ELSE <<>>) \o <<Item("submit", tx, NoEvent)>> \o Rest]

startSweep ==
    /\ Doing("sweep")
    /\ \E tx \in NextSweep : /\ child' = Chosen(tx)
                             /\ ck' = Snapshot(Chosen(tx))
    /\ ChainUnchanged /\ UNCHANGED <<box, sent, clean, reg>>

SweepStageFails ==
    /\ Doing("sweep")
    /\ Charge({"stage"})
    /\ \E tx \in NextSweep : Raise(Chosen(tx), TRUE)
    /\ UNCHANGED <<sc, height, mined, pool, tracked, parked, flights, best,
                   tick, closed, heard, ck, sent, clean>>

stopRejectedSweep ==
    /\ Doing("cancel")
    /\ handleCancel(Now.tx, Child)
    /\ child' = [child EXCEPT !.todo = Rest]
    /\ UNCHANGED <<chainVars, parked, flights, best, tick, box, closed, heard,
                   ck, sent, clean, reg>>

SubmitSweep(res, slow) ==
    /\ Doing("submit")
    /\ handleEnsure(Now.tx, Child, res, slow)
    /\ sent' = sent \cup {Now.tx}
    /\ child' = [child EXCEPT !.todo = <<Drive(Broadcasted(Now.tx))>> \o Rest]
    /\ UNCHANGED <<ck, clean, reg>>

---------------------------------------------------------------------------
(* notifyRegistryIfTerminal: the ledger first, then the abandoned          *)
(* broadcasts of a failed exit, then the registry, once.                   *)

Terminated(job) == [phase |-> Phase(p, job), footprint |-> Footprint(job),
                    conflicted |-> job.conflicted]
Abandoned(c) ==
    IF c.job.fail # "" /\ c.job.conflicted /\ ~c.dropped
    THEN c.job.inflight \cup (IF c.sweep = NoTx THEN {} ELSE {c.sweep})
    ELSE {}

notifyRegistryIfTerminal ==
    /\ Doing("tell")
    /\ IF Terminal(p, child.job)
       THEN /\ child' = [child EXCEPT !.todo = Rest, !.notified = TRUE,
                                      !.dropped = child.job.fail # ""]
            /\ clean' = clean \cup Abandoned(child)
            /\ reg' = IF child.notified THEN reg
                      ELSE [reg EXCEPT !.ended =
                                Append(@, Terminated(child.job))]
       ELSE /\ child' = [child EXCEPT !.todo = Rest]
            /\ UNCHANGED <<clean, reg>>
    /\ ChainUnchanged /\ UNCHANGED <<box, ck, sent>>

(* The ledger does not take the cost of the exit: no handoff yet. *)
LedgerFails ==
    /\ Doing("tell") /\ Phase(p, child.job) = "completed" /\ ~child.notified
    /\ Charge({"ledger"})
    /\ child' = [child EXCEPT !.todo = Rest]
    /\ UNCHANGED <<sc, height, mined, pool, tracked, parked, flights, best,
                   tick, box, closed, heard, ck, sent, clean, reg>>

cleanupAbandonedBroadcast(tx) ==
    /\ tx \in clean /\ clean' = clean \ {tx}
    /\ handleCancel(tx, Child)
    /\ UNCHANGED <<chainVars, parked, flights, best, tick, box, closed, heard,
                   child, ck, sent, reg>>

---------------------------------------------------------------------------
Outcomes(tx) == {"ok", "unknown"} \cup Rejections(tx)
Results == UNION {Outcomes(tx) : tx \in Txs}

JobStep ==
    \/ Take \/ Dispatch \/ Commit
    \/ driveEvent \/ Refused \/ AlreadyTerminal
    \/ watchDeferredCheckpoint \/ startSweep \/ stopRejectedSweep
    \/ SweepDeferred \/ SweepBuildFailed \/ notifyRegistryIfTerminal
    \/ /\ child.todo # <<>>
       /\ \E slow \in SUBSET {Child}, res \in Results :
            \/ ensureNodeConfirmed(res, slow)
            \/ ReissueSweepConfirmation(res, slow)
            \/ SubmitSweep(res, slow)
    \/ \E tx \in clean : cleanupAbandonedBroadcast(tx)
JobEvents ==
    \/ HeightObserved
    \/ \E op \in Outpoints : SpendObserved(op)
    \/ \E tx \in child.cwatch : CheckpointObserved(tx)
JobFaults ==
    \/ LeaseLost \/ LoadFails \/ StageFails \/ RouteFails
    \/ SweepStageFails \/ LedgerFails

=============================================================================
