--------------------------- MODULE UnrollRegistry ---------------------------
(***************************************************************************)
(* The registry of exit jobs (unroll/registry.go) for one coin, composed   *)
(* with its job, the broadcaster and the chain.  The registry lives in     *)
(* memory: active (a child runs), pend (the cached record), ended (told    *)
(* terminations), persist (a queued snapshot), write (the write under      *)
(* way), wait and late (the ask it blocks on, or no longer blocks on) and  *)
(* ans (its answer).  The record rec and the status of the coin are        *)
(* durable.                                                                *)
(*                                                                         *)
(* A child that was stopped is gone before the next one starts.            *)
(***************************************************************************)
EXTENDS UnrollActor

VARIABLES
    rec,      \* the durable record of the job
    coin,     \* the status of the VTXO: live, exit, spent or reclaim
    asks      \* asks of the child so far

vars == <<chainVars, confirmVars, jobVars, reg, rec, coin, asks>>

Record(phase, recov, confl) ==
    [phase |-> phase, recov |-> recov, confl |-> confl]
NoRecord == Record("none", FALSE, FALSE)
IsTerminalRecord(r) == r.phase \in {"completed", "failed"}
NoWrite == [rec |-> NoRecord, res |-> "none"]

RegistryStarted ==
    [active |-> FALSE, pend |-> NoRecord, ended |-> <<>>, persist |-> FALSE,
     write |-> NoWrite, wait |-> 0, late |-> 0, ans |-> "none"]
Free == reg.wait = 0

(* The child is started on its checkpoint and asked. *)
AskChild(kind) ==
    /\ child' = Spawned(ck)
    /\ closed' = closed \ {Child}
    /\ asks' = asks + 1
    /\ box' = [box EXCEPT ![Child] = Post(@, NoId, Ask(kind, asks + 1))]

OthersUnchanged ==
    UNCHANGED <<chainVars, tracked, parked, flights, best, tick, heard, ck,
                sent, clean>>

---------------------------------------------------------------------------
(* handleEnsure: a live child, a cached record and a stored record each    *)
(* answer before a fresh child is admitted; only a recoverable failure     *)
(* lets an exit be admitted again.                                         *)

Deduped == \/ reg.pend # NoRecord /\ ~reg.pend.recov
           \/ IsTerminalRecord(rec) /\ ~rec.recov
MustRestore == ~Deduped /\ rec.phase # "none" /\ ~IsTerminalRecord(rec)

EnsureDeduped ==
    /\ Free /\ ~reg.active /\ coin \in {"live", "exit"}
    /\ asks < sc.asks /\ Deduped
    /\ coin' = "exit"
    /\ asks' = asks + 1
    /\ OthersUnchanged /\ UNCHANGED <<child, box, closed, reg, rec>>

restoreExistingRecord ==
    /\ Free /\ ~reg.active /\ ~child.up /\ coin \in {"live", "exit"}
    /\ asks < sc.asks /\ MustRestore
    /\ coin' = "exit"
    /\ AskChild("resume")
    /\ reg' = [reg EXCEPT !.wait = asks + 1, !.ans = "none"]
    /\ OthersUnchanged /\ UNCHANGED rec

admitFresh ==
    /\ Free /\ ~reg.active /\ ~child.up /\ coin \in {"live", "exit"}
    /\ asks < sc.asks /\ ~Deduped /\ ~MustRestore
    /\ coin' = "exit"
    /\ rec' = Record("pending", FALSE, FALSE)
    /\ AskChild("start")
    /\ reg' = [reg EXCEPT !.active = TRUE, !.pend = rec', !.wait = asks + 1,
                          !.ans = "none"]
    /\ OthersUnchanged

(* The pending row cannot be written: the child is stopped at once. *)
AdmissionNotStored ==
    /\ Free /\ ~reg.active /\ ~child.up /\ coin \in {"live", "exit"}
    /\ asks < sc.asks /\ ~Deduped /\ ~MustRestore
    /\ Charge({"store"})
    /\ coin' = "exit"
    /\ asks' = asks + 1
    /\ UNCHANGED <<sc, height, mined, pool, confirmVars, jobVars, reg, rec>>

---------------------------------------------------------------------------
(* The answer of the child. *)

Stop == child' = Down(ck) /\ closed' = closed \cup {Child}

(* failAdmittedChild: the coin is told before the record is marked. *)
FailedRecord == Record("failed", TRUE, FALSE)
failAdmittedChild(stored) ==
    /\ Stop
    /\ coin' = IF coin = "exit" THEN "live" ELSE coin
    /\ rec' = IF stored THEN FailedRecord ELSE rec
    /\ reg' = [reg EXCEPT !.active = FALSE, !.pend = FailedRecord,
                          !.wait = 0, !.late = 0, !.ans = "none",
                          !.persist = @ \/ ~stored]

ChildRecord == Record(Phase(p, child.job), FALSE, FALSE)

(* The start succeeded: the record is refined from the state of the child. *)
StartOk(stored) ==
    /\ ~Free /\ reg.active /\ reg.ans = "ok"
    /\ child.row = 0    \* childState is asked behind the message at hand
    /\ Charge(IF stored THEN {} ELSE {"store"})
    /\ rec' = IF stored THEN ChildRecord ELSE rec
    /\ reg' = [reg EXCEPT !.pend = ChildRecord, !.wait = 0, !.ans = "none",
                          !.persist = @ \/ ~stored]
    /\ UNCHANGED <<sc, height, mined, pool, confirmVars, jobVars, coin, asks>>

StartFailed(stored) ==
    /\ reg.active /\ reg.ans = "error"
    /\ ~Free \/ reg.late > 0
    /\ failAdmittedChild(stored)
    /\ Charge(IF stored THEN {} ELSE {"store"})
    /\ UNCHANGED <<sc, height, mined, pool, tracked, parked, flights, best,
                   tick, heard, box, ck, sent, clean, asks>>

(* The registry stops waiting; the ask stays in the mailbox. *)
AdmissionTimeout ==
    /\ ~Free /\ reg.active /\ reg.ans = "none"
    /\ Charge({"timeout"})
    /\ reg' = [reg EXCEPT !.late = reg.wait, !.wait = 0]
    /\ UNCHANGED <<sc, height, mined, pool, confirmVars, jobVars, rec, coin,
                   asks>>
LateStartOk ==
    /\ reg.late > 0 /\ reg.ans = "ok"
    /\ reg' = [reg EXCEPT !.late = 0, !.ans = "none"]
    /\ UNCHANGED <<chainVars, confirmVars, jobVars, rec, coin, asks>>

(* tryRestoreOne *)
Restored ==
    /\ ~Free /\ ~reg.active /\ reg.ans = "ok"
    /\ reg' = [reg EXCEPT !.active = TRUE, !.pend = rec, !.wait = 0,
                          !.ans = "none"]
    /\ OthersUnchanged /\ UNCHANGED <<child, box, closed, rec, coin, asks>>
RestoreFailed ==
    /\ ~Free /\ ~reg.active /\ reg.ans = "error"
    /\ Stop
    /\ reg' = [reg EXCEPT !.wait = 0, !.ans = "none"]
    /\ OthersUnchanged /\ UNCHANGED <<box, rec, coin, asks>>

---------------------------------------------------------------------------
(* handleTerminated and notifyVTXOExit. *)

(* Mutant: whatever left a trace on the chain is a completed exit. *)
Outcome_footprint(m) ==
    CASE m.phase = "completed" \/ m.footprint -> "spent"
      [] m.phase = "failed" /\ ~m.footprint -> "live"
      [] OTHER -> "exit"

Outcome(m) ==
    CASE m.phase = "completed" -> "spent"
      [] m.phase = "failed" /\ m.conflicted -> "reclaim"
      [] m.phase = "failed" /\ ~m.conflicted /\ ~m.footprint -> "live"
      [] OTHER -> "exit"
RecordOf(m) ==
    Record(m.phase, Outcome(m) = "live", Outcome(m) = "reclaim")

handleTerminated ==
    /\ Free /\ reg.ended # <<>>
    /\ LET m == Head(reg.ended)
       IN  /\ coin' = IF coin = "exit" THEN Outcome(m) ELSE coin
           /\ reg' = [reg EXCEPT !.ended = Tail(@), !.active = FALSE,
                                 !.pend = RecordOf(m), !.persist = TRUE]
    /\ child' = [child EXCEPT !.drain = reg.active]
    /\ OthersUnchanged /\ UNCHANGED <<box, closed, rec, asks>>

(* stopChildAfterDrain: the message at hand is committed first. *)
Drained ==
    /\ child.up /\ child.drain /\ child.row = 0
    /\ Stop
    /\ OthersUnchanged /\ UNCHANGED <<box, reg, rec, coin, asks>>

---------------------------------------------------------------------------
(* Writing the record: one write at a time, repeated until it is stored    *)
(* and the cached record has not moved on.                                 *)

handlePersistActiveRecord ==
    /\ Free /\ reg.persist
    /\ reg' = [reg EXCEPT !.persist = FALSE,
            !.write = IF @ # NoWrite \/ reg.pend = NoRecord THEN @
                      ELSE [rec |-> reg.pend, res |-> "open"]]
    /\ UNCHANGED <<chainVars, confirmVars, jobVars, rec, coin, asks>>

persistRecord(ok) ==
    /\ reg.write.res = "open"
    /\ Charge(IF ok THEN {} ELSE {"store"})
    /\ rec' = IF ok THEN reg.write.rec ELSE rec
    /\ reg' = [reg EXCEPT !.write.res = IF ok THEN "ok" ELSE "error"]
    /\ UNCHANGED <<sc, height, mined, pool, confirmVars, jobVars, coin, asks>>

handlePersistRecordResult ==
    /\ Free /\ reg.write.res \in {"ok", "error"}
    /\ LET same == reg.pend = reg.write.rec
       IN  reg' = [reg EXCEPT
                !.write = NoWrite,
                !.pend = IF same /\ reg.write.res = "ok" THEN NoRecord ELSE @,
                !.persist = @ \/ (reg.pend # NoRecord
                                    /\ ~(same /\ reg.write.res = "ok"))]
    /\ UNCHANGED <<chainVars, confirmVars, jobVars, rec, coin, asks>>

---------------------------------------------------------------------------
(* The process dies and boots: the manager reconciles the coin with the    *)
(* record, and the registry restores a job that has not ended.             *)

Reconciled ==
    IF coin # "exit" THEN coin
    ELSE CASE rec.phase = "completed" -> "spent"
           [] rec.phase = "failed" /\ rec.confl -> "reclaim"
           [] rec.phase = "failed" /\ rec.recov -> "live"
           [] OTHER -> "exit"

Crash ==
    /\ Charge({"crash"})
    /\ ConfirmCrash
    /\ clean' = {}
    /\ coin' = Reconciled
    /\ IF rec.phase # "none" /\ ~IsTerminalRecord(rec)
       THEN /\ AskChild("resume")
            /\ reg' = [RegistryStarted EXCEPT !.wait = asks + 1]
       ELSE /\ Stop
            /\ reg' = RegistryStarted
            /\ UNCHANGED <<box, asks>>
    /\ UNCHANGED <<sc, height, mined, pool, ck, sent, rec>>

---------------------------------------------------------------------------
(* Listeners: other subscribers of the broadcaster. *)

ListenerEnsures(s, tx, res, slow) ==
    /\ s # Child /\ sc.asks = 0
    /\ tx \in p.nodes /\ s \notin tracked[tx].subs /\ heard[s][tx] = "none"
    /\ \A k \in parked : k.sub # s
    /\ handleEnsure(tx, s, res, slow)
    /\ UNCHANGED <<jobVars, reg, rec, coin, asks>>
ListenerCancels(s, tx) ==
    /\ s # Child /\ s \in tracked[tx].subs
    /\ Charge({"cancel"})
    /\ handleCancel(tx, s)
    /\ UNCHANGED <<sc, height, mined, pool, parked, flights, best, tick, box,
                   closed, heard, jobVars, reg, rec, coin, asks>>

Minable == pool \cup (sc.outside \cap (p.nodes \cup DOMAIN sc.foreign
                                            \cup sent))
AppUnchanged == UNCHANGED <<confirmVars, jobVars, reg, rec, coin, asks>>

---------------------------------------------------------------------------
Init ==
    /\ ChainInit /\ ConfirmInit
    /\ ck = NoCheckpoint /\ child = Down(NoCheckpoint)
    /\ sent = {} /\ clean = {}
    /\ reg = RegistryStarted /\ rec = NoRecord /\ coin = "live" /\ asks = 0

RegistryStep ==
    \/ StartOk(TRUE) \/ StartFailed(TRUE) \/ LateStartOk
    \/ Restored \/ RestoreFailed
    \/ handleTerminated \/ Drained
    \/ handlePersistActiveRecord \/ persistRecord(TRUE)
    \/ handlePersistRecordResult
RegistryFaults ==
    \/ AdmissionNotStored \/ StartOk(FALSE) \/ StartFailed(FALSE)
    \/ AdmissionTimeout \/ persistRecord(FALSE)
Requests == EnsureDeduped \/ restoreExistingRecord \/ admitFresh
Listening ==
    \E s \in Subs \ {Child}, tx \in Txs :
        \/ \E res \in Outcomes(tx), slow \in SUBSET {s} :
                ListenerEnsures(s, tx, res, slow)
        \/ ListenerCancels(s, tx)

(* The turns of the actors.  They reach each other through mailboxes and   *)
(* asks only, so a step of another actor in the middle of a turn commutes  *)
(* with the rest of it; a crash does not, and may come anywhere.           *)
Between == child.row = 0 /\ tick = {}

(* Blocks are far apart: the actors in memory have worked off the last     *)
(* one, while reports of what it holds may still be under way.             *)
Seen == /\ Between /\ best = height /\ Free
        /\ reg.ended = <<>> /\ ~reg.persist /\ reg.write = NoWrite

MineTx == Seen /\ (\E tx \in Minable : Mine({tx})) /\ AppUnchanged
MineEmpty == Seen /\ Mine({}) /\ AppUnchanged
ReorgTip == Between /\ Reorg /\ AppUnchanged
Confirming == /\ child.row = 0 /\ ConfirmStep
              /\ UNCHANGED <<jobVars, reg, rec, coin, asks>>
Working == tick = {} /\ JobStep /\ UNCHANGED <<rec, coin, asks>>
Telling == Between /\ JobEvents /\ UNCHANGED <<rec, coin, asks>>
Failing == tick = {} /\ JobFaults /\ UNCHANGED <<rec, coin, asks>>
Registering == Between /\ RegistryStep

Next ==
    \/ MineTx \/ MineEmpty \/ ReorgTip
    \/ Confirming \/ Working \/ Telling \/ Failing \/ Registering
    \/ Between /\ RegistryFaults
    \/ Between /\ Requests
    \/ Crash
    \/ Listening

(* The daemon's goroutines run while there is work, and blocks keep coming *)
(* up to the bound.  Requests, faults and other miners owe nothing.        *)
Progress == Confirming \/ Working \/ Telling \/ Registering \/ MineEmpty

Spec == Init /\ [][Next]_vars
FairSpec == Spec /\ WF_vars(Progress)

---------------------------------------------------------------------------
(* Properties. *)

OnChain(tx) == mined[tx] > 0 \/ tx \in pool
(* handleSpendObserved: the job fails as spent only when a transaction     *)
(* that is neither of the proof nor a sweep of ours spent something.       *)
OwnSpendIsNoFailure ==
    \A job \in {child.job, ck.job} :
        job.fail = "spent" => \E f \in DOMAIN sc.foreign : OnChain(f)

(* driveEvent, reissueStagedRoute, handleEnsure: a job at rest that runs   *)
(* has a subscription, a parked tell or a message for everything it has in *)
(* flight.  Otherwise it waits for a confirmation nobody will report.      *)
Expecting(job) == job.inflight \cup
    (IF job.sweep = "broadcasted" THEN {job.sweepTxid} ELSE {})
Awaited(tx) ==
    \/ Child \in tracked[tx].subs
    \/ \E k \in parked : k.sub = Child /\ k.note.tx = tx
    \/ \E i \in DOMAIN Rows : Rows[i].msg.kind \in {"confirmed", "finalized",
                                    "failed"} /\ Rows[i].msg.tx = tx
AtRest == /\ child.up /\ child.loaded /\ child.row = 0
          /\ ~child.torn /\ ~child.reroute /\ ~child.restored
          /\ ~Terminal(p, child.job)
          /\ "stage" \in DOMAIN faults => faults["stage"] = 0
InFlightIsAwaited == AtRest => \A tx \in Expecting(child.job) : Awaited(tx)

(* notifyVTXOExit: what the coin was told is so.                           *)
Swept == \E s \in SweepTxs : OnChain(s)
SourceTaken == \E f \in DOMAIN sc.foreign :
                /\ OnChain(f) /\ sc.foreign[f] \cap RootExternalInputs(p) # {}
OutcomeIsTrue ==
    /\ coin = "spent" => Swept
    /\ coin = "reclaim" => SourceTaken
    /\ rec.phase = "completed" => Swept

(* jobHadOnChainFootprint: a coin given back to its owner has nothing of   *)
(* its exit at the broadcaster or on the chain.  Exits that answer a fraud *)
(* and failures after the first submission are another matter (README).    *)
GivenBackIsClean ==
    /\ coin = "live" /\ asks > 0 /\ ~sc.fraud
    /\ DOMAIN sc.faults \cap {"lease", "route", "stage"} = {}
    => \A tx \in p.nodes : ~OnChain(tx) /\ Child \notin tracked[tx].subs

(* notifyReorged, notifyFinalized, handleTerminalNotifyResult: nobody      *)
(* hears of a reorg or of finality before the confirmation, except one     *)
(* that joins an entry that is final already: the answer to its ensure may *)
(* be TxFinalized (attachExistingSubscriber).                              *)
NotificationsInOrder ==
    [][\A s \in Subs, tx \in Txs :
        /\ heard[s][tx] = "none"
        /\ heard'[s][tx] \in {"reorged", "finalized"}
        => heard'[s][tx] = "finalized" /\ ~Confirming]_vars

(* notifyReorged, handleTerminalNotifyResult: once the tells are over, a   *)
(* subscriber believes in a confirmation that a reorg took away only if    *)
(* the tell that would have said so failed (notifyReversibleAsync logs it  *)
(* and leaves the correction to the next event): whatever its mailbox was  *)
(* slow to take, a TxReorged was sent for it.                              *)
Quiet(s, tx) == /\ \A f \in flights : f.sub # s \/ f.note.tx # tx
                /\ \A k \in parked : k.sub # s \/ k.note.tx # tx
ReorgIsHeard ==
    \A s \in Subs, tx \in Txs :
        /\ tracked[tx].st = "awaiting" /\ s \in tracked[tx].subs \ tracked[tx].owed
        /\ s \notin closed /\ Quiet(s, tx)
        /\ "reorg" \in DOMAIN faults /\ faults["reorg"] = 1
        => heard[s][tx] # "confirmed"

(* The exit ends: a sweep on the chain retires the coin, whatever reports, *)
(* crashes, failed routes or failed writes of the record come in between.  *)
(* A failed stage or an unreachable ledger is made good with some later    *)
(* block, which the bound on the chain may leave out.                      *)
SweepRetiresCoin ==
    []<>(/\ \E s \in SweepTxs : mined[s] > 0
         /\ DOMAIN sc.faults \cap {"reorg", "stage", "ledger"} = {}
         => coin = "spent")

=============================================================================
