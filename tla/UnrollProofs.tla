---------------------------- MODULE UnrollProofs ----------------------------
(***************************************************************************)
(* Theorems about the exit (packages unroll and txconfirm), for any number *)
(* of transactions, subscribers, sweeps and scenarios.                     *)
(*                                                                         *)
(* NotificationsInOrder follows from the broadcaster's invariant Story, in *)
(* every behaviour.  OutcomeIsTrue and OwnSpendIsNoFailure follow, where   *)
(* nothing is reorganised, from Exit of UnrollActorProofs together with    *)
(* Office: what the registry holds, what is recorded and what the coin was *)
(* told about the end of the job is so.                                    *)
(***************************************************************************)
EXTENDS UnrollRegistry, UnrollActorProofs

\* The solver gets more time than its default.
USE SMTT(30)

\* The registry does not touch the broadcaster.
LEMMA RegistryStory ==
    ASSUME Story, RegistryStep \/ RegistryFaults \/ Requests
    PROVE  Story' /\ ~Premature({"reorged"})
<1>1. UNCHANGED <<height, mined, tracked, parked, flights, heard>>
  BY Zenon DEF RegistryStep, RegistryFaults, Requests, StartOk, StartFailed,
         LateStartOk, Restored, RestoreFailed, handleTerminated, Drained,
         handlePersistActiveRecord, persistRecord, handlePersistRecordResult,
         AdmissionNotStored, AdmissionTimeout, EnsureDeduped,
         restoreExistingRecord, admitFresh, OthersUnchanged, chainVars,
         confirmVars
<1>2. Story' /\ ~Premature({"reorged", "finalized"})
  BY Zenon, <1>1, Elsewhere DEF Story, Ledger
<1> QED
  BY Zenon, <1>2 DEF Premature

\* Every step keeps the story, and none of the broadcaster's own turns breaks
\* the order.
LEMMA StoryStep ==
    ASSUME Story, [Next]_vars
    PROVE  /\ Story' /\ ~Premature({"reorged"})
           /\ Confirming => ~Premature({"reorged", "finalized"})
<1>1. height \in Nat /\ mined \in [Txs -> Nat]
  BY Zenon DEF Story, Ledger
<1>2. CASE Confirming
  <2>1. Story' /\ ~Premature({"reorged", "finalized"})
    BY Zenon, <1>2, ConfirmStory DEF Confirming
  <2> QED
    BY Zenon, <2>1 DEF Premature
<1>3. CASE UNCHANGED <<tracked, parked, flights, heard>>
           /\ height' \in Nat /\ mined' \in [Txs -> Nat]
  <2>1. Story' /\ ~Premature({"reorged", "finalized"})
    BY Zenon, <1>3, Elsewhere
  <2> QED
    BY <2>1 DEF Premature
<1>4. CASE ~Confirming /\ (Working \/ Telling \/ Failing)
  BY Zenon, <1>4, JobStory DEF Working, Telling, Failing
<1>5. CASE ~Confirming /\ (RegistryStep \/ RegistryFaults \/ Requests)
  BY Zenon, <1>5, RegistryStory
<1>6. CASE MineTx \/ MineEmpty \/ ReorgTip
  <2>1. UNCHANGED <<tracked, parked, flights, heard>>
    BY Zenon, <1>6 DEF MineTx, MineEmpty, ReorgTip, AppUnchanged, confirmVars
  <2>2. height' \in Nat /\ mined' \in [Txs -> Nat]
    BY <1>1, <1>6 DEF MineTx, MineEmpty, ReorgTip, Mine, Reorg
  <2> QED
    BY Zenon, <1>3, <2>1, <2>2
<1>7. CASE ~Confirming /\ Crash
  <2>1. Story'
    <3>1. Fresh'
      BY Zenon, <1>1, <1>7 DEF Crash, ConfirmCrash, Fresh
    <3> QED
      BY <3>1, FreshStory, PTL
  <2> QED
    BY Zenon, <1>7, <2>1 DEF Crash, ConfirmCrash, Premature
<1>8. CASE ~Confirming /\ Listening
  <2>1. PICK s \in Subs, tx \in Txs :
            \/ \E res, slow : handleEnsure(tx, s, res, slow)
            \/ /\ handleCancel(tx, s)
               /\ UNCHANGED <<height, mined, parked, flights, heard>>
    BY ZenonT(60), <1>8 DEF Listening, ListenerEnsures, ListenerCancels
  <2>2. CASE \E res, slow : handleEnsure(tx, s, res, slow)
    BY Zenon, <1>8, <2>2, EnsureStory
  <2>3. CASE /\ handleCancel(tx, s)
             /\ UNCHANGED <<height, mined, parked, flights, heard>>
    <3>1. Story'
      BY Zenon, <2>3, CancelStory
    <3> QED
      BY Zenon, <1>8, <2>3, <3>1 DEF Premature
  <2> QED
    BY ZenonT(60), <2>1, <2>2, <2>3
<1>9. CASE UNCHANGED vars
  BY ZenonT(60), <1>1, <1>3, <1>9 DEF vars, chainVars, confirmVars
<1> QED
  BY ZenonT(60), <1>2, <1>4, <1>5, <1>6, <1>7, <1>8, <1>9 DEF Next, Registering

\* The story holds at the start.
LEMMA StoryInit ==
    ASSUME Init
    PROVE  Story
BY Zenon, FreshStory DEF Fresh, Init, ChainInit, ConfirmInit

\* NotificationsInOrder (notifyConfirmed, notifyReorged, notifyFinalized,
\* handleTerminalNotifyResult): a subscriber's first notification is never a
\* reorg, and it is finality only in the answer to its own ensure.  Slow and
\* closed mailboxes, crashes, cancellations and reorgs are all included.
THEOREM ToldInOrder == Spec => NotificationsInOrder
<1>1. Story /\ [Next]_vars => Story'
  BY Zenon, StoryStep
<1>2. ASSUME Story, [Next]_vars
      PROVE  [\A s \in Subs, tx \in Txs :
                /\ heard[s][tx] = "none"
                /\ heard'[s][tx] \in {"reorged", "finalized"}
                => heard'[s][tx] = "finalized" /\ ~Confirming]_vars
  BY Zenon, <1>2, StoryStep DEF Premature
<1> QED
  BY <1>1, <1>2, StoryInit, PTL DEF Spec, NotificationsInOrder

\* The registry, the record and the coin.
EndsOk(q, S, M) == IsSeq(q) /\ \A i \in 1 .. Len(q) : EndOk(q[i], S, M)
RegFields == {"active", "pend", "ended", "persist", "write", "wait", "late",
              "ans"}
Office ==
    /\ RegFields \subseteq DOMAIN reg /\ "rec" \in DOMAIN reg.write
    /\ RecordOk(rec, sc, Mined) /\ RecordOk(reg.pend, sc, Mined)
    /\ RecordOk(reg.write.rec, sc, Mined)
    /\ EndsOk(reg.ended, sc, Mined)
    /\ coin = "spent" => SweptIn(Mined)
    /\ coin = "reclaim" => TakenIn(sc, Mined)


-----------------------------------------------------------------------------
\* The registry, the record and the coin.
LEMMA OfficeStep ==
    ASSUME sc' = sc, mined' = mined,
           RegFields \subseteq DOMAIN reg', "rec" \in DOMAIN reg'.write,
           RecordOk(rec', sc, Mined), RecordOk(reg'.pend, sc, Mined),
           RecordOk(reg'.write.rec, sc, Mined), EndsOk(reg'.ended, sc, Mined),
           coin' = "spent" => SweptIn(Mined), coin' = "reclaim" => TakenIn(sc, Mined)
    PROVE  Office'
<1>1. Mined' = Mined
  BY Zenon DEF Mined
<1> QED
  BY Zenon, <1>1 DEF Office

\* A job that says it is done, or that its source was taken.
LEMMA PhaseDone ==
    ASSUME NEW job, JobOk(job, sc, Mined), Phase(p, job) = "completed"
    PROVE  SweptIn(Mined)
<1> DEFINE ph == Phase(p, job)
<1>1. \/ ph \in {"idle", "failed", "awaiting_sweep_confirmation",
                 "awaiting_sweep_broadcast", "awaiting_csv",
                 "awaiting_materialization"}
      \/ ph = "completed" /\ Done(job)
  BY Zenon DEF Phase
<1>2. ph = "completed"
  BY Zenon
<1> HIDE DEF ph
<1>3. Done(job)
  BY Zenon, <1>1, <1>2
<1> QED
  BY Zenon, <1>3 DEF Done, JobOk

LEMMA JobEnd ==
    ASSUME NEW job, JobOk(job, sc, Mined)
    PROVE  /\ EndOk(Terminated(job), sc, Mined)
           /\ RecordOk(Record(Phase(p, job), FALSE, FALSE), sc, Mined)
<1>1. Phase(p, job) = "completed" => SweptIn(Mined)
  BY Zenon, PhaseDone
<1>2. job.conflicted => TakenIn(sc, Mined)
  BY Zenon DEF JobOk
<1> QED
  BY Zenon, <1>1, <1>2 DEF EndOk, RecordOk, Terminated, Record

LEMMA EndsMore ==
    ASSUME NEW q, NEW m, NEW S, NEW M, EndsOk(q, S, M), EndOk(m, S, M)
    PROVE  EndsOk(Append(q, m), S, M)
<1>1. /\ IsSeq(Append(q, m)) /\ Len(q) \in Nat
      /\ Len(Append(q, m)) = Len(q) + 1
      /\ \A i \in 1 .. Len(q) : Append(q, m)[i] = q[i]
      /\ Append(q, m)[Len(q) + 1] = m
  BY Zenon, SeqAppend DEF EndsOk
<1>2. ASSUME NEW i \in 1 .. Len(Append(q, m))
      PROVE  EndOk(Append(q, m)[i], S, M)
  <2>1. i \in 1 .. Len(q) \/ i = Len(q) + 1
    BY <1>1
  <2> QED
    BY Zenon, <1>1, <2>1 DEF EndsOk
<1> QED
  BY Zenon, <1>1, <1>2 DEF EndsOk

LEMMA EndsRest ==
    ASSUME NEW q, NEW S, NEW M, EndsOk(q, S, M), q # <<>>
    PROVE  EndsOk(Tail(q), S, M) /\ EndOk(Head(q), S, M)
<1>1. /\ Len(q) \in Nat \ {0} /\ Head(q) = q[1] /\ IsSeq(Tail(q))
      /\ Len(Tail(q)) = Len(q) - 1
      /\ \A i \in 1 .. Len(Tail(q)) : Tail(q)[i] = q[i + 1]
  BY Zenon, SeqTail DEF EndsOk
<1>2. ASSUME NEW i \in 1 .. Len(Tail(q)) PROVE EndOk(Tail(q)[i], S, M)
  <2>1. i + 1 \in 1 .. Len(q)
    BY <1>1
  <2> QED
    BY Zenon, <1>1, <2>1 DEF EndsOk
<1>3. EndOk(Head(q), S, M)
  <2>1. 1 \in 1 .. Len(q)
    BY <1>1
  <2> QED
    BY Zenon, <1>1, <2>1 DEF EndsOk
<1> QED
  BY ZenonT(60), <1>1, <1>2, <1>3 DEF EndsOk

\* The job reaches the registry by its answers and by its last message.
Reply(r) == \/ r = reg \/ \E m, ans : r = Answered(reg, m, ans)
            \/ r = [reg EXCEPT !.ended = Append(@, Terminated(child.job))]
LEMMA JobOffice ==
    ASSUME Exit, Office, sc' = sc, mined' = mined, rec' = rec, coin' = coin, Reply(reg')
    PROVE  Office'
<1>1. /\ RegFields \subseteq DOMAIN reg /\ "rec" \in DOMAIN reg.write
      /\ RecordOk(rec, sc, Mined) /\ RecordOk(reg.pend, sc, Mined)
      /\ RecordOk(reg.write.rec, sc, Mined) /\ EndsOk(reg.ended, sc, Mined)
      /\ coin = "spent" => SweptIn(Mined)
      /\ coin = "reclaim" => TakenIn(sc, Mined)
  BY Zenon DEF Exit, Office
<1>2. CASE \/ reg' = reg \/ \E m, ans : reg' = Answered(reg, m, ans)
  <2>1. /\ RegFields \subseteq DOMAIN reg' /\ reg'.pend = reg.pend
        /\ reg'.write = reg.write /\ reg'.ended = reg.ended
    BY ZenonT(60), <1>1, <1>2 DEF RegFields, Answered
  <2> QED
    BY ZenonT(60), <1>1, <2>1, OfficeStep
<1>3. CASE reg' = [reg EXCEPT !.ended = Append(@, Terminated(child.job))]
  <2>1. /\ RegFields \subseteq DOMAIN reg' /\ reg'.pend = reg.pend
        /\ reg'.write = reg.write
        /\ reg'.ended = Append(reg.ended, Terminated(child.job))
    BY Zenon, <1>1, <1>3 DEF RegFields
  <2>2. EndOk(Terminated(child.job), sc, Mined)
    BY ZenonT(60), JobEnd DEF Exit, Actor
  <2>3. EndsOk(reg'.ended, sc, Mined)
    BY ZenonT(60), <1>1, <2>1, <2>2, EndsMore
  <2> QED
    BY ZenonT(60), <1>1, <2>1, <2>3, OfficeStep
<1> QED
  BY ZenonT(60), <1>2, <1>3 DEF Reply

LEMMA JobReply ==
    ASSUME JobStep \/ JobFaults \/ JobEvents
    PROVE  Reply(reg') /\ sc' = sc /\ mined' = mined
<1>1. CASE reg' = reg /\ sc' = sc /\ mined' = mined
  BY Zenon, <1>1 DEF Reply
<1>2. CASE ChainUnchanged /\ reg' = reg
  BY Zenon, <1>1, <1>2 DEF ChainUnchanged, chainVars
<1>3. CASE \E c, routed : Raise(c, routed) /\ sc' = sc /\ mined' = mined
  BY Zenon, <1>3 DEF Raise, Reply
<1>4. CASE JobEvents
  BY ZenonT(60), <1>2, <1>4
  DEF JobEvents, HeightObserved, SpendObserved, CheckpointObserved
<1>5. CASE JobFaults
  <2>1. CASE LeaseLost
    BY ZenonT(60), <1>1, <1>3, <2>1 DEF LeaseLost
  <2>2. CASE LoadFails
    BY ZenonT(60), <1>1, <1>3, <2>2 DEF LoadFails
  <2>3. CASE StageFails
    BY ZenonT(60), <1>1, <1>3, <2>3 DEF StageFails
  <2>4. CASE RouteFails
    BY ZenonT(60), <1>1, <1>3, <2>4 DEF RouteFails
  <2>5. CASE SweepStageFails
    BY ZenonT(60), <1>1, <1>3, <2>5 DEF SweepStageFails
  <2>6. CASE LedgerFails
    BY Zenon, <1>1, <2>6 DEF LedgerFails
  <2> QED
    BY ZenonT(60), <1>5, <2>1, <2>2, <2>3, <2>4, <2>5, <2>6 DEF JobFaults
<1>6. CASE JobStep
  <2>1. CASE Take \/ Dispatch \/ driveEvent \/ AlreadyTerminal
             \/ watchDeferredCheckpoint \/ startSweep
    BY ZenonT(60), <1>2, <2>1 DEF Take, Dispatch, driveEvent, AlreadyTerminal,
                      watchDeferredCheckpoint, startSweep
  <2>2. CASE Commit
    <3>1. reg' = Answered(reg, Msg, "ok") /\ sc' = sc /\ mined' = mined
      BY Zenon, <2>2 DEF Commit, ChainUnchanged, chainVars
    <3> QED
      BY Zenon, <3>1 DEF Reply
  <2>3. CASE Refused
    BY Zenon, <1>3, <2>3 DEF Refused, ChainUnchanged, chainVars
  <2>4. CASE notifyRegistryIfTerminal
    <3>1. /\ sc' = sc /\ mined' = mined
          /\ \/ reg' = reg
             \/ reg' = [reg EXCEPT !.ended = Append(@, Terminated(child.job))]
      BY Zenon, <2>4 DEF notifyRegistryIfTerminal, ChainUnchanged, chainVars
    <3> QED
      BY Zenon, <3>1 DEF Reply
  <2>5. CASE \/ stopRejectedSweep \/ SweepDeferred \/ SweepBuildFailed
             \/ \E tx \in clean : cleanupAbandonedBroadcast(tx)
    BY Zenon, <1>1, <2>5 DEF stopRejectedSweep, SweepDeferred, SweepBuildFailed,
                      cleanupAbandonedBroadcast, chainVars
  <2>6. CASE \E slow, res : \/ ensureNodeConfirmed(res, slow)
                            \/ ReissueSweepConfirmation(res, slow)
                            \/ SubmitSweep(res, slow)
    BY ZenonT(60), <1>1, <2>6
    DEF ensureNodeConfirmed, ReissueSweepConfirmation, SubmitSweep,
                      handleEnsure
  <2> QED
    BY ZenonT(60), <1>6, <2>1, <2>2, <2>3, <2>4, <2>5, <2>6 DEF JobStep
<1> QED
  BY ZenonT(60), <1>4, <1>5, <1>6

\* Every step of the job.
LEMMA JobExit ==
    ASSUME Exit, Office, JobStep \/ JobFaults \/ JobEvents, rec' = rec, coin' = coin
    PROVE  Reported' /\ Actor' /\ Owned' /\ Office' /\ sc' = sc
<1>1. Office' /\ sc' = sc
  BY Zenon, JobReply, JobOffice
<1>2. CASE JobStep
  <2>1. CASE \E slow, res : \/ ensureNodeConfirmed(res, slow)
                            \/ ReissueSweepConfirmation(res, slow)
                            \/ SubmitSweep(res, slow)
    BY Zenon, <1>1, <2>1, EnsureExit
  <2>2. CASE Refused
    BY ZenonT(60), <1>1, <2>2, FaultExit
  <2> QED
    BY ZenonT(60), <1>1, <1>2, <2>1, <2>2, TakeExit, DispatchExit, CommitExit,
       DriveExit,
       SilentExit, SweepExit, CancelExit, DeferExit DEF JobStep
<1>3. CASE JobFaults
  BY ZenonT(60), <1>1, <1>3, FaultExit, StageFailsExit, SweepExit,
     SilentExit DEF JobFaults
<1> QED
  BY ZenonT(60), <1>1, <1>2, <1>3, EventsExit

-----------------------------------------------------------------------------
\* The registry starts a child on its checkpoint, or stops it: memory and
\* checkpoint then agree.
Respawned == child' \in {Spawned(ck), Down(ck)}
LEMMA RespawnExit ==
    ASSUME Exit, Respawned, UNCHANGED <<sc, mined, ck, sent>>, Out' \subseteq Out,
           Len(box'[Child].rows) \in Nat
    PROVE  Actor' /\ Owned'
<1>1. /\ ActorFields \subseteq DOMAIN child' /\ child'.job = ck.job
      /\ child'.sweep = ck.sweep /\ child'.old = ck.old
      /\ child'.row = 0 /\ child'.todo = <<>>
  BY DEF Respawned, Spawned, Down, ActorFields
<1>2. Own' = Candidates(ck) /\ Own \subseteq Own'
  BY Zenon, <1>1 DEF Own, Candidates
<1>3. Mined \cap SweepTxs \subseteq Own'
  BY Zenon, <1>2 DEF Exit, Owned
<1>4. TodoOk(child'.todo, sc, Mined, Own', Again')
  BY ZenonT(60), <1>1, ItemKinds
<1>5. /\ child'.old \cup {child'.sweep} \subseteq SweepTxs \cup {NoTx}
      /\ ck'.old \cup {ck'.sweep} \subseteq SweepTxs \cup {NoTx}
      /\ JobOk(child'.job, sc, Mined) /\ JobOk(ck'.job, sc, Mined)
  BY Zenon, <1>1 DEF Exit, Actor
<1> QED
  BY <1>1, <1>2, <1>3, <1>4, <1>5, ActorStep

LEMMA AskCredible ==
    ASSUME NEW kind \in {"start", "resume"}, NEW n
    PROVE  Credible(Ask(kind, n), sc, Mined)
BY Zenon DEF Ask, Credible, Truthful, Final

\* A step of the registry: the child is left alone but for its stop, or
\* started or stopped.
LEMMA RegistryActor ==
    ASSUME Exit,
           UNCHANGED <<sc, mined, pool, tracked, parked, flights, ck, sent>>,
           \/ child' = child /\ box' = box
           \/ child' = [child EXCEPT !.drain = reg.active] /\ box' = box
           \/ child' = Down(ck) /\ box' = box
           \/ AskChild("start") \/ AskChild("resume")
    PROVE  Reported' /\ Actor' /\ Owned'
<1>1. /\ Child \in Keepers /\ ActorFields \subseteq DOMAIN child
      /\ Len(box[Child].rows) \in Nat
  BY Zenon, ExitFacts
<1>2. CASE /\ box' = box
           /\ child' = child \/ child' = [child EXCEPT !.drain = reg.active]
  <2>1. Offline
    BY Zenon, <1>2 DEF Offline
  <2>2. /\ ActorFields \subseteq DOMAIN child' /\ child'.job = child.job
        /\ child'.sweep = child.sweep /\ child'.old = child.old
        /\ child'.row = child.row /\ child'.todo = child.todo
    BY ZenonT(60), <1>1, <1>2 DEF ActorFields
  <2>3. Actor' /\ Owned'
    BY ZenonT(60), <1>2, <2>1, <2>2, OfflineStep, QuietActor
    DEF SameSweep, Exit, Actor
  <2> QED
    BY ZenonT(60), <2>1, <2>3, OfflineStep
<1>3. CASE child' = Down(ck) /\ box' = box
  <2>1. Offline
    BY Zenon, <1>3 DEF Offline
  <2>2. Reported' /\ Out' = Out /\ Len(box'[Child].rows) \in Nat
    BY ZenonT(60), <2>1, OfflineStep
  <2> QED
    BY ZenonT(60), <1>3, <2>2, RespawnExit DEF Respawned
<1>4. ASSUME NEW kind \in {"start", "resume"}, AskChild(kind)
      PROVE  Reported' /\ Actor' /\ Owned'
  <2> DEFINE m == Ask(kind, asks + 1)
  <2>1. Credible(m, sc, Mined)
    BY Zenon, AskCredible
  <2>2. child' = Spawned(ck) /\ box' = [box EXCEPT ![Child] = Post(@, NoId, m)]
    BY Zenon, <1>4 DEF AskChild
  <2> HIDE DEF m
  <2>3. Mailed(box') /\ Len(box'[Child].rows) \in Nat
    BY ZenonT(60), <1>1, <2>1, <2>2, Mailing DEF Exit
  <2>4. Mined' = Mined
    BY Zenon DEF Mined
  <2>5. Reported' /\ Out' \subseteq Out
    BY ZenonT(60), <2>3, <2>4, ReportsStay DEF Exit
  <2> QED
    BY ZenonT(60), <2>2, <2>3, <2>5, RespawnExit DEF Respawned
<1> QED
  BY ZenonT(60), <1>2, <1>3, <1>4

-----------------------------------------------------------------------------
\* What the registry writes down.
LEMMA OutcomeOk ==
    ASSUME NEW m, NEW S, NEW M, EndOk(m, S, M)
    PROVE  /\ Outcome(m) = "spent" => SweptIn(M)
           /\ Outcome(m) = "reclaim" => TakenIn(S, M)
           /\ RecordOk(RecordOf(m), S, M)
<1> DEFINE o == Outcome(m)
<1>1. \/ o = "spent" /\ m.phase = "completed"
      \/ o = "reclaim" /\ m.conflicted
      \/ o \in {"live", "exit"}
  BY Zenon DEF Outcome
<1> DEFINE a == o = "live"
           b == o = "reclaim"
<1>2. RecordOf(m) = Record(m.phase, a, b)
  BY Zenon DEF RecordOf
<1>5. b \in BOOLEAN /\ (b => o = "reclaim")
  BY Zenon
<1> HIDE DEF o, a, b
<1>3. /\ o = "spent" => SweptIn(M)
      /\ o = "reclaim" => TakenIn(S, M)
  BY Zenon, <1>1 DEF EndOk
<1>4. RecordOk(RecordOf(m), S, M)
  <2> DEFINE r == RecordOf(m)
  <2>1. r.phase = m.phase /\ r.confl = b
    BY <1>2 DEF Record
  <2> HIDE DEF r
  <2>2. RecordOk(r, S, M)
    BY ZenonT(60), <1>3, <1>5, <2>1 DEF EndOk, RecordOk
  <2> QED
    BY Zenon, <2>2 DEF r
<1> QED
  BY ZenonT(60), <1>3, <1>4 DEF o

LEMMA ReconciledOk ==
    ASSUME Office
    PROVE  /\ Reconciled = "spent" => SweptIn(Mined)
           /\ Reconciled = "reclaim" => TakenIn(sc, Mined)
<1> DEFINE o == Reconciled
<1>1. \/ o = coin
      \/ o = "spent" /\ rec.phase = "completed"
      \/ o = "reclaim" /\ rec.confl
      \/ o \in {"live", "exit"}
  <2> DEFINE done == rec.phase = "completed"
             lost == rec.phase = "failed" /\ rec.confl
             soft == rec.phase = "failed" /\ rec.recov
             told == CASE done -> "spent" [] lost -> "reclaim"
                       [] soft -> "live" [] OTHER -> "exit"
  <2>1. o = IF coin # "exit" THEN coin ELSE told
    BY Zenon DEF Reconciled
  <2>4. told = CASE done -> "spent" [] lost -> "reclaim"
                 [] soft -> "live" [] OTHER -> "exit"
    BY Zenon
  <2> HIDE DEF o, done, lost, soft, told
  <2>2. \/ told = "spent" /\ done
        \/ told = "reclaim" /\ lost
        \/ told = "live" \/ told = "exit"
    <3>1. CASE done \/ lost \/ soft
      BY <2>4, <3>1
    <3>2. CASE ~done /\ ~lost /\ ~soft
      BY ZenonT(60), <2>4, <3>2
    <3> QED
      BY ZenonT(60), <3>1, <3>2
  <2>3. \/ told = "spent" /\ rec.phase = "completed"
        \/ told = "reclaim" /\ rec.confl
        \/ told \in {"live", "exit"}
    BY Zenon, <2>2 DEF done, lost
  <2> QED
    BY ZenonT(60), <2>1, <2>3
<1> HIDE DEF o
<1>2. /\ o = "spent" => SweptIn(Mined)
      /\ o = "reclaim" => TakenIn(sc, Mined)
  BY ZenonT(60), <1>1 DEF Office, RecordOk
<1> QED
  BY Zenon, <1>2 DEF o

LEMMA PlainRecords ==
    ASSUME NEW S, NEW M
    PROVE  /\ RecordOk(NoRecord, S, M) /\ RecordOk(FailedRecord, S, M)
           /\ RecordOk(Record("pending", FALSE, FALSE), S, M)
           /\ "rec" \in DOMAIN NoWrite /\ RecordOk(NoWrite.rec, S, M)
           /\ EndsOk(<<>>, S, M)
<1>1. /\ RecordOk(NoRecord, S, M) /\ RecordOk(FailedRecord, S, M)
      /\ RecordOk(Record("pending", FALSE, FALSE), S, M)
  BY Zenon DEF NoRecord, FailedRecord, Record, RecordOk
<1>2. "rec" \in DOMAIN NoWrite /\ NoWrite.rec = NoRecord
  BY Zenon DEF NoWrite
<1>3. EndsOk(<<>>, S, M)
  <2>1. <<>> \in Seq({}) /\ Len(<<>>) = 0
    OBVIOUS
  <2> QED
    BY <2>1 DEF EndsOk, IsSeq
<1> QED
  BY ZenonT(60), <1>1, <1>2, <1>3

LEMMA BootOffice ==
    ASSUME Exit, Office, sc' = sc, mined' = mined, rec' = rec, coin' = Reconciled,
           NEW n, reg' \in {RegistryStarted, [RegistryStarted EXCEPT !.wait = n]}
    PROVE  Office'
<1>1. /\ RegFields \subseteq DOMAIN reg' /\ reg'.pend = NoRecord
      /\ reg'.write = NoWrite /\ reg'.ended = <<>>
  BY DEF RegistryStarted, RegFields
<1>2. /\ Reconciled = "spent" => SweptIn(Mined)
      /\ Reconciled = "reclaim" => TakenIn(sc, Mined)
  BY Zenon, ReconciledOk DEF Exit
<1>3. RecordOk(rec', sc, Mined)
  BY Zenon DEF Exit, Office
<1>4. /\ "rec" \in DOMAIN reg'.write /\ RecordOk(reg'.pend, sc, Mined)
      /\ RecordOk(reg'.write.rec, sc, Mined) /\ EndsOk(reg'.ended, sc, Mined)
  <2>1. /\ RecordOk(NoRecord, sc, Mined) /\ "rec" \in DOMAIN NoWrite
        /\ RecordOk(NoWrite.rec, sc, Mined) /\ EndsOk(<<>>, sc, Mined)
    BY Zenon, PlainRecords
  <2> QED
    BY ZenonT(60), <1>1, <2>1
<1> QED
  BY ZenonT(60), <1>1, <1>2, <1>3, <1>4, OfficeStep

\* The steps of the registry.
LEMMA RegistryOffice ==
    ASSUME Exit, Office, RegistryStep \/ RegistryFaults \/ Requests
    PROVE  Office'
<1>1. /\ RegFields \subseteq DOMAIN reg /\ "rec" \in DOMAIN reg.write
      /\ RecordOk(rec, sc, Mined) /\ RecordOk(reg.pend, sc, Mined)
      /\ RecordOk(reg.write.rec, sc, Mined) /\ EndsOk(reg.ended, sc, Mined)
      /\ coin = "spent" => SweptIn(Mined)
      /\ coin = "reclaim" => TakenIn(sc, Mined)
  BY Zenon DEF Exit, Office
<1>2. sc' = sc /\ mined' = mined
  BY ZenonT(60)
  DEF RegistryStep, RegistryFaults, Requests, StartOk, StartFailed,
         LateStartOk, Restored, RestoreFailed, handleTerminated, Drained,
         handlePersistActiveRecord, persistRecord, handlePersistRecordResult,
         AdmissionNotStored, AdmissionTimeout, EnsureDeduped,
         restoreExistingRecord, admitFresh, OthersUnchanged, chainVars
<1>3. ASSUME RegFields \subseteq DOMAIN reg', reg'.pend = reg.pend,
             reg'.write = reg.write, reg'.ended = reg.ended, rec' = rec,
             coin' \in {coin, "exit"}
      PROVE  Office'
  BY ZenonT(60), <1>1, <1>2, <1>3, OfficeStep
<1>4. CASE reg' = reg /\ rec' = rec /\ coin' \in {coin, "exit"}
  BY ZenonT(60), <1>1, <1>3, <1>4
<1>5. CASE AdmissionNotStored \/ EnsureDeduped \/ Drained
  BY ZenonT(60), <1>4, <1>5 DEF AdmissionNotStored, EnsureDeduped, Drained
<1>6. CASE \/ LateStartOk \/ RestoreFailed \/ AdmissionTimeout
           \/ restoreExistingRecord
  <2>1. /\ rec' = rec /\ coin' \in {coin, "exit"}
        /\ \E a, b, c : reg' \in {[reg EXCEPT !.late = a, !.ans = b],
                                  [reg EXCEPT !.wait = a, !.ans = b],
                                  [reg EXCEPT !.late = a, !.wait = c]}
    BY Zenon, <1>6
    DEF LateStartOk, RestoreFailed, AdmissionTimeout, restoreExistingRecord
  <2>2. /\ RegFields \subseteq DOMAIN reg' /\ reg'.pend = reg.pend
        /\ reg'.write = reg.write /\ reg'.ended = reg.ended
    BY ZenonT(60), <1>1, <2>1 DEF RegFields
  <2> QED
    BY ZenonT(60), <1>3, <2>1, <2>2
<1>7. CASE Restored
  <2>1. /\ reg' = [reg EXCEPT !.active = TRUE, !.pend = rec, !.wait = 0,
                              !.ans = "none"]
        /\ rec' = rec /\ coin' = coin
    BY Zenon, <1>7 DEF Restored
  <2>2. /\ RegFields \subseteq DOMAIN reg' /\ reg'.pend = rec
        /\ reg'.write = reg.write /\ reg'.ended = reg.ended
    BY ZenonT(60), <1>1, <2>1 DEF RegFields
  <2> QED
    BY ZenonT(60), <1>1, <1>2, <2>1, <2>2, OfficeStep
<1>8. CASE admitFresh
  <2> DEFINE r == Record("pending", FALSE, FALSE)
  <2>1. /\ rec' = r /\ coin' = "exit"
        /\ reg' = [reg EXCEPT !.active = TRUE, !.pend = r, !.wait = asks + 1,
                              !.ans = "none"]
    BY Zenon, <1>8 DEF admitFresh
  <2>2. RecordOk(r, sc, Mined)
    BY Zenon, PlainRecords
  <2> HIDE DEF r
  <2>3. /\ RegFields \subseteq DOMAIN reg' /\ reg'.pend = r
        /\ reg'.write = reg.write /\ reg'.ended = reg.ended
    BY ZenonT(60), <1>1, <2>1 DEF RegFields
  <2> QED
    BY ZenonT(60), <1>1, <1>2, <2>1, <2>2, <2>3, OfficeStep
<1>9. ASSUME NEW stored, StartOk(stored) PROVE Office'
  <2> DEFINE r == ChildRecord
  <2>1. /\ rec' \in {r, rec} /\ coin' = coin
        /\ \E x : reg' = [reg EXCEPT !.pend = r, !.wait = 0, !.ans = "none",
                                     !.persist = x]
    BY ZenonT(60), <1>9 DEF StartOk
  <2>2. RecordOk(r, sc, Mined)
    BY ZenonT(60), JobEnd DEF ChildRecord, Exit, Actor
  <2> HIDE DEF r
  <2>3. /\ RegFields \subseteq DOMAIN reg' /\ reg'.pend = r
        /\ reg'.write = reg.write /\ reg'.ended = reg.ended
    BY ZenonT(60), <1>1, <2>1 DEF RegFields
  <2> QED
    BY ZenonT(60), <1>1, <1>2, <2>1, <2>2, <2>3, OfficeStep
<1>10. ASSUME NEW stored, StartFailed(stored) PROVE Office'
  <2> DEFINE r == FailedRecord
  <2>1. /\ rec' \in {r, rec} /\ coin' \in {coin, "live"}
        /\ \E x : reg' = [reg EXCEPT !.active = FALSE, !.pend = r,
                                     !.wait = 0, !.late = 0, !.ans = "none",
                                     !.persist = x]
    BY ZenonT(60), <1>10 DEF StartFailed, failAdmittedChild
  <2>2. RecordOk(r, sc, Mined)
    BY ZenonT(60), PlainRecords
  <2> HIDE DEF r
  <2>3. /\ RegFields \subseteq DOMAIN reg' /\ reg'.pend = r
        /\ reg'.write = reg.write /\ reg'.ended = reg.ended
    BY ZenonT(60), <1>1, <2>1 DEF RegFields
  <2> QED
    BY ZenonT(60), <1>1, <1>2, <2>1, <2>2, <2>3, OfficeStep
<1>11. CASE handleTerminated
  <2> DEFINE m == Head(reg.ended)
             q == Tail(reg.ended)
             r == RecordOf(m)
             o == Outcome(m)
  <2>1. /\ rec' = rec /\ coin' \in {coin, o} /\ reg.ended # <<>>
        /\ reg' = [reg EXCEPT !.ended = q, !.active = FALSE, !.pend = r,
                              !.persist = TRUE]
    BY Zenon, <1>11 DEF handleTerminated
  <2>2. EndsOk(q, sc, Mined) /\ EndOk(m, sc, Mined)
    BY ZenonT(60), <1>1, <2>1, EndsRest
  <2> HIDE DEF m, q
  <2>3. /\ o = "spent" => SweptIn(Mined)
        /\ o = "reclaim" => TakenIn(sc, Mined)
        /\ RecordOk(r, sc, Mined)
    BY ZenonT(60), <2>2, OutcomeOk
  <2> HIDE DEF r, o
  <2>4. /\ RegFields \subseteq DOMAIN reg' /\ reg'.pend = r
        /\ reg'.write = reg.write /\ reg'.ended = q
    BY ZenonT(60), <1>1, <2>1 DEF RegFields
  <2> QED
    BY ZenonT(60), <1>1, <1>2, <2>1, <2>2, <2>3, <2>4, OfficeStep
<1>12. CASE handlePersistActiveRecord
  <2> DEFINE w == IF reg.write # NoWrite \/ reg.pend = NoRecord THEN reg.write
                  ELSE [rec |-> reg.pend, res |-> "open"]
  <2>1. /\ rec' = rec /\ coin' = coin
        /\ reg' = [reg EXCEPT !.persist = FALSE, !.write = w]
    BY ZenonT(60), <1>1, <1>12 DEF handlePersistActiveRecord, RegFields
  <2>2. "rec" \in DOMAIN w /\ RecordOk(w.rec, sc, Mined)
    BY Zenon, <1>1
  <2> HIDE DEF w
  <2>3. /\ RegFields \subseteq DOMAIN reg' /\ reg'.pend = reg.pend
        /\ reg'.write = w /\ reg'.ended = reg.ended
    BY ZenonT(60), <1>1, <2>1 DEF RegFields
  <2> QED
    BY ZenonT(60), <1>1, <1>2, <2>1, <2>2, <2>3, OfficeStep
<1>13. ASSUME NEW ok, persistRecord(ok) PROVE Office'
  <2>1. /\ rec' \in {rec, reg.write.rec} /\ coin' = coin
        /\ \E x : reg' = [reg EXCEPT !.write.res = x]
    BY Zenon, <1>13 DEF persistRecord
  <2>2. PICK x : reg' = [reg EXCEPT !.write.res = x]
    BY Zenon, <2>1
  <2> DEFINE w == [reg.write EXCEPT !.res = x]
  <2>3. reg' = [reg EXCEPT !.write = w]
    BY Zenon, <2>2
  <2>4. "rec" \in DOMAIN w /\ w.rec = reg.write.rec
    BY ZenonT(60), <1>1
  <2> HIDE DEF w
  <2>5. /\ RegFields \subseteq DOMAIN reg' /\ reg'.pend = reg.pend
        /\ reg'.write = w /\ reg'.ended = reg.ended
    BY ZenonT(60), <1>1, <2>3 DEF RegFields
  <2> QED
    BY ZenonT(60), <1>1, <1>2, <2>1, <2>4, <2>5, OfficeStep
<1>14. CASE handlePersistRecordResult
  <2>1. /\ rec' = rec /\ coin' = coin
        /\ \E x, y : /\ reg' = [reg EXCEPT !.write = NoWrite, !.pend = x,
                                           !.persist = y]
                     /\ x \in {NoRecord, reg.pend}
    BY ZenonT(60), <1>1, <1>14 DEF handlePersistRecordResult, RegFields
  <2>2. PICK x, y : /\ reg' = [reg EXCEPT !.write = NoWrite, !.pend = x,
                                          !.persist = y]
                    /\ x \in {NoRecord, reg.pend}
    BY ZenonT(60), <2>1
  <2>3. RecordOk(x, sc, Mined)
    BY ZenonT(60), <1>1, <2>2, PlainRecords
  <2>4. /\ RegFields \subseteq DOMAIN reg' /\ reg'.pend = x
        /\ reg'.write = NoWrite /\ reg'.ended = reg.ended
    BY ZenonT(60), <1>1, <2>2 DEF RegFields
  <2> QED
    BY ZenonT(60), <1>1, <1>2, <2>1, <2>3, <2>4, PlainRecords, OfficeStep
<1> QED
  BY ZenonT(60), <1>5, <1>6, <1>7, <1>8, <1>9, <1>10, <1>11, <1>12, <1>13, <1>14
  DEF RegistryStep, RegistryFaults, Requests

LEMMA RegistryExit ==
    ASSUME Exit, Office, RegistryStep \/ RegistryFaults \/ Requests
    PROVE  Reported' /\ Actor' /\ Owned' /\ Office' /\ sc' = sc
<1>1. UNCHANGED <<sc, mined, pool, tracked, parked, flights, ck, sent>>
  BY ZenonT(60)
  DEF RegistryStep, RegistryFaults, Requests, StartOk, StartFailed,
         LateStartOk, Restored, RestoreFailed, handleTerminated, Drained,
         handlePersistActiveRecord, persistRecord, handlePersistRecordResult,
         AdmissionNotStored, AdmissionTimeout, EnsureDeduped,
         restoreExistingRecord, admitFresh, OthersUnchanged, chainVars,
         confirmVars, jobVars
<1>2. \/ child' = child /\ box' = box
      \/ child' = [child EXCEPT !.drain = reg.active] /\ box' = box
      \/ child' = Down(ck) /\ box' = box
      \/ AskChild("start") \/ AskChild("resume")
  BY ZenonT(60)
  DEF RegistryStep, RegistryFaults, Requests, StartOk, StartFailed,
         failAdmittedChild, Stop,
         LateStartOk, Restored, RestoreFailed, handleTerminated, Drained,
         handlePersistActiveRecord, persistRecord, handlePersistRecordResult,
         AdmissionNotStored, AdmissionTimeout, EnsureDeduped,
         restoreExistingRecord, admitFresh, confirmVars, jobVars
<1> QED
  BY ZenonT(60), <1>1, <1>2, RegistryActor, RegistryOffice

\* A block.  The first sweep that is mined is one that was out; nothing else
\* of ours is valid after it.
LEMMA MinedSweep ==
    ASSUME Exit, NEW tx \in Minable, Mine({tx}), tx \in SweepTxs
    PROVE  ~SweptIn(Mined) /\ tx \in Own
<1>1. tx \in Txs /\ Inputs(tx) = {sc.proof.target}
  BY Zenon, SweepsAreTxs DEF Inputs
<1>2. Spenders(sc.proof.target) = {}
  BY Zenon, <1>1 DEF Mine, Valid
<1>3. ASSUME NEW y \in Mined \cap SweepTxs PROVE FALSE
  <2>1. y \in Spenders(sc.proof.target)
    BY ZenonT(60), <1>3, SweepsAreTxs DEF Mined, Spenders, Known, Inputs
  <2> QED
    BY ZenonT(60), <1>2, <2>1
<1>4. ~SweptIn(Mined)
  BY Zenon, <1>3 DEF SweptIn
<1>5. tx \notin sc.proof.nodes /\ tx \notin DOMAIN sc.foreign
  BY Zenon, ExitAssumption DEF Exit
<1>6. tx \in Out \cup (sent \cap SweepTxs)
  BY Zenon, <1>5 DEF Minable, Out, p
<1> QED
  BY ZenonT(60), <1>4, <1>6 DEF Exit, Owned

LEMMA BlockExit ==
    ASSUME Exit, Office, MineTx \/ MineEmpty
    PROVE  Reported' /\ Actor' /\ Owned' /\ Office' /\ sc' = sc
<1>1. /\ UNCHANGED <<sc, tracked, parked, flights, box, child, ck, sent, reg,
                     rec, coin>>
      /\ pool' \subseteq pool
  BY Zenon DEF MineTx, MineEmpty, Mine, AppUnchanged, confirmVars, jobVars
<1>2. height \in Nat /\ mined \in [Txs -> Nat]
  BY Zenon DEF Exit, Story, Ledger
<1>3. PICK S : /\ Mine(S)
               /\ \A tx \in S \cap SweepTxs : ~SweptIn(Mined) /\ tx \in Own
               /\ \A a, b \in S : a = b
  <2>1. CASE MineEmpty
    BY <2>1 DEF MineEmpty
  <2>2. CASE MineTx
    BY <2>2, MinedSweep DEF MineTx
  <2> QED
    BY ZenonT(60), <2>1, <2>2
<1>4. Mined' = Mined \cup (S \cap Txs)
  BY <1>2, <1>3 DEF Mine, Mined
<1>5. Mined \subseteq Mined'
  BY Zenon, <1>4
<1>6. Reported' /\ Out' \subseteq Out
  <2>1. Mailed(box')
    BY Zenon, <1>1 DEF Mailed, Exit, Reported
  <2> QED
    BY ZenonT(60), <1>1, <1>5, <2>1, ReportsStay DEF Exit
<1>7. Own' = Own /\ Again' = Again
  BY Zenon, <1>1 DEF Own, Again, Candidates
<1>8. Owned'
  <2>1. Mined' \cap SweepTxs \subseteq Own'
    BY ZenonT(60), <1>3, <1>4, <1>7 DEF Exit, Owned
  <2>2. \A a, b \in Mined' \cap SweepTxs : a = b
    BY ZenonT(60), <1>3, <1>4 DEF Exit, Owned, SweptIn
  <2>3. ~SweptIn(Mined') => ~SweptIn(Mined)
    BY Zenon, <1>5 DEF SweptIn
  <2>4. ~SweptIn(Mined') => Out' \cup (sent' \cap SweepTxs) \subseteq Own'
    BY ZenonT(60), <1>1, <1>6, <1>7, <2>3 DEF Exit, Owned
  <2> QED
    BY ZenonT(60), <2>1, <2>2, <2>4 DEF Owned
<1>9. /\ SweptIn(Mined) => SweptIn(Mined')
      /\ TakenIn(sc, Mined) => TakenIn(sc, Mined')
      /\ \A job : JobOk(job, sc, Mined) => JobOk(job, sc, Mined')
      /\ \A r : RecordOk(r, sc, Mined) => RecordOk(r, sc, Mined')
      /\ \A m : EndOk(m, sc, Mined) => EndOk(m, sc, Mined')
  <2> DEFINE N == Mined'
  <2>1. Mined \subseteq N
    BY Zenon, <1>5
  <2> HIDE DEF N
  <2>2. /\ SweptIn(Mined) => SweptIn(N)
        /\ TakenIn(sc, Mined) => TakenIn(sc, N)
        /\ \A job : JobOk(job, sc, Mined) => JobOk(job, sc, N)
        /\ \A r : RecordOk(r, sc, Mined) => RecordOk(r, sc, N)
        /\ \A m : EndOk(m, sc, Mined) => EndOk(m, sc, N)
    BY ZenonT(60), <2>1, JobGrows
  <2> QED
    BY ZenonT(60), <2>2 DEF N
<1>10. TodoOk(child.todo, sc, Mined', Own, Again)
  <2> DEFINE N == Mined'
  <2>1. Mined \subseteq N /\ TodoOk(child.todo, sc, Mined, Own, Again)
    BY Zenon, <1>5 DEF Exit, Actor
  <2> HIDE DEF N
  <2>2. TodoOk(child.todo, sc, N, Own, Again)
    BY ZenonT(60), <2>1, TodoGrows
  <2> QED
    BY Zenon, <2>2 DEF N
<1>11. Actor'
  BY ZenonT(60), <1>1, <1>7, <1>9, <1>10 DEF Exit, Actor
<1>12. Office'
  <2>1. EndsOk(reg.ended, sc, Mined')
    BY Zenon, <1>9 DEF Exit, Office, EndsOk
  <2> QED
    BY ZenonT(60), <1>1, <1>9, <2>1 DEF Exit, Office
<1> QED
  BY ZenonT(60), <1>1, <1>6, <1>8, <1>11, <1>12

-----------------------------------------------------------------------------
\* The process dies and boots.
LEMMA CrashExit ==
    ASSUME Exit, Office, Crash
    PROVE  Reported' /\ Actor' /\ Owned' /\ Office' /\ sc' = sc
<1>1. /\ UNCHANGED <<sc, mined, pool, ck, sent, rec>> /\ coin' = Reconciled
      /\ tracked' = [tx \in Txs |-> Untracked] /\ parked' = {} /\ flights' = {}
  BY Zenon DEF Crash, ConfirmCrash
<1> DEFINE m == Ask("resume", asks + 1)
           n == asks + 1
<1>2. /\ Respawned
      /\ reg' \in {RegistryStarted, [RegistryStarted EXCEPT !.wait = n]}
      /\ box' = [box EXCEPT ![Child] = Post(@, NoId, m)] \/ box' = box
  BY Zenon DEF Crash, AskChild, Stop, Respawned
<1>3. Child \in Keepers /\ Credible(m, sc, Mined)
  BY ZenonT(60), ExitFacts, AskCredible
<1> HIDE DEF m, n
<1>4. Mailed(box') /\ Len(box'[Child].rows) \in Nat
  BY ZenonT(60), <1>2, <1>3, Mailing DEF Exit
<1>5. Mined' = Mined
  BY Zenon, <1>1 DEF Mined
<1>6. Reported' /\ Out' \subseteq Out
  BY ZenonT(60), <1>1, <1>4, <1>5, ReportsStay DEF Exit
<1>7. Actor' /\ Owned'
  BY ZenonT(60), <1>1, <1>2, <1>4, <1>6, RespawnExit
<1>8. Office'
  BY <1>1, <1>2, BootOffice
<1> QED
  BY ZenonT(60), <1>1, <1>6, <1>7, <1>8

-----------------------------------------------------------------------------
\* The broadcaster and its other subscribers.
LEMMA AsideExit ==
    ASSUME Exit, Office, Reported', Out' \subseteq Out \cup (Txs \ SweepTxs),
           UNCHANGED <<sc, mined, child, ck, sent, reg, rec, coin>>,
           child.row = 0 \/ Posted(box') \/ box' = box
    PROVE  Actor' /\ Owned' /\ Office'
<1>1. /\ Child \in Keepers /\ ActorFields \subseteq DOMAIN child
      /\ Len(box[Child].rows) \in Nat
  BY Zenon, ExitFacts
<1>2. Len(box'[Child].rows) \in Nat
  BY ZenonT(60), <1>1, SeqAppend DEF Reported, Boxed
<1>3. child'.row \in Nat /\ child'.row <= Len(box'[Child].rows)
  <2>1. child.row \in Nat /\ child.row <= Len(box[Child].rows)
    BY Zenon DEF Exit, Actor
  <2>2. CASE child.row = 0
    BY <1>2, <2>1, <2>2
  <2>3. CASE Posted(box') \/ box' = box
    <3>1. Len(box[Child].rows) <= Len(box'[Child].rows)
      BY <1>1, <2>3 DEF Posted
    <3> QED
      BY <1>1, <1>2, <2>1, <3>1
  <2> QED
    BY ZenonT(60), <2>2, <2>3
<1>4. Out' \subseteq Out
  BY Zenon DEF Out
<1>5. Actor' /\ Owned'
  BY ZenonT(60), <1>1, <1>3, <1>4, QuietActor DEF SameSweep, Exit, Actor
<1>6. Office'
  BY Zenon, OfficeStep DEF Exit, Office
<1> QED
  BY ZenonT(60), <1>5, <1>6

LEMMA ConfirmExit ==
    ASSUME Exit, Office, Confirming
    PROVE  Reported' /\ Actor' /\ Owned' /\ Office' /\ sc' = sc
<1>1. UNCHANGED <<sc, mined, child, ck, sent, reg, rec, coin>> /\ child.row = 0
  BY ZenonT(60) DEF Confirming, ConfirmStep, handleConfirmationObserved,
         handleConfirmationDone, Visit, handleConfirmationReorged,
         BlockObserved, ParkedReturns, ParkedResult, FlightChecks, FlightLands,
         FlightLost, chainVars, jobVars
<1>2. Reported' /\ Out' \subseteq Out
  BY Zenon, ConfirmReports DEF Confirming, Exit
<1> QED
  BY ZenonT(60), <1>1, <1>2, AsideExit

LEMMA ListenExit ==
    ASSUME Exit, Office, Listening
    PROVE  Reported' /\ Actor' /\ Owned' /\ Office' /\ sc' = sc
<1>1. PICK s \in Subs, tx \in Txs :
        \/ \E res, slow : ListenerEnsures(s, tx, res, slow)
        \/ ListenerCancels(s, tx)
  BY Zenon DEF Listening
<1>2. CASE \E res, slow : ListenerEnsures(s, tx, res, slow)
  <2>1. PICK res, slow : ListenerEnsures(s, tx, res, slow)
    BY Zenon, <1>2
  <2>2. UNCHANGED <<sc, mined, child, ck, sent, reg, rec, coin>>
    BY Zenon, <2>1 DEF ListenerEnsures, handleEnsure, jobVars
  <2>3. tx \notin SweepTxs
    BY ZenonT(60), <2>1, ExitFacts DEF ListenerEnsures, p
  <2>4. Reported' /\ Out' \subseteq Out \cup {tx} /\ Posted(box')
    BY ZenonT(60), <2>1, EnsureReports DEF ListenerEnsures, Exit
  <2> QED
    BY ZenonT(60), <2>2, <2>3, <2>4, AsideExit
<1>3. CASE ListenerCancels(s, tx)
  <2>1. /\ UNCHANGED <<sc, mined, pool, parked, flights, box, child, ck, sent,
                       reg, rec, coin>>
        /\ handleCancel(tx, s)
    BY Zenon, <1>3 DEF ListenerCancels, jobVars
  <2>2. Reported' /\ Out' \subseteq Out
    BY ZenonT(60), <2>1, CancelReports DEF Exit
  <2> QED
    BY ZenonT(60), <2>1, <2>2, AsideExit
<1> QED
  BY Zenon, <1>1, <1>2, <1>3

-----------------------------------------------------------------------------
LEMMA ExitStep ==
    ASSUME Exit, Office, [Next]_vars
    PROVE  Exit' /\ Office'
<1>1. Story'
  BY Zenon, StoryStep DEF Exit
<1>2. Reported' /\ Actor' /\ Owned' /\ Office' /\ sc' = sc
  <2>1. CASE ReorgTip
    BY Zenon, <2>1 DEF ReorgTip, Reorg, Charge, Exit, NoReorg
  <2>2. CASE Working \/ Telling \/ Failing
    BY ZenonT(60), <2>2, JobExit DEF Working, Telling, Failing
  <2>3. CASE UNCHANGED vars
    <3>1. UNCHANGED <<sc, mined, pool, tracked, parked, flights, box, child, ck,
                      sent, reg, rec, coin>>
      BY Zenon, <2>3 DEF vars, chainVars, confirmVars, jobVars
    <3>2. Offline
      BY Zenon, <3>1 DEF Offline
    <3>3. Reported' /\ Out' = Out
      BY ZenonT(60), <3>2, OfflineStep
    <3> QED
      BY ZenonT(60), <3>1, <3>3, AsideExit
  <2> QED
    BY ZenonT(60), <2>1, <2>2, <2>3, BlockExit, ConfirmExit, RegistryExit,
       CrashExit,
       ListenExit DEF Next, Registering
<1> QED
  BY ZenonT(60), <1>1, <1>2 DEF Exit, NoReorg

LEMMA ExitInit ==
    ASSUME Init, NoReorg
    PROVE  Exit /\ Office
<1>1. /\ sc \in Scenarios /\ mined = [tx \in Txs |-> 0] /\ pool = {}
      /\ tracked = [tx \in Txs |-> Untracked] /\ parked = {} /\ flights = {}
      /\ box = [s \in Subs |-> [rows |-> <<>>, ids |-> {}]]
      /\ ck = NoCheckpoint /\ child = Down(NoCheckpoint) /\ sent = {}
      /\ reg = RegistryStarted /\ rec = NoRecord /\ coin = "live"
  BY Zenon DEF Init, ChainInit, ConfirmInit
<1>2. Mined = {} /\ Out = {}
  <2>1. \A tx \in Txs : mined[tx] = 0 /\ tracked[tx].st = "none"
    BY ZenonT(60), <1>1 DEF Untracked
  <2>2. Mined = {}
    BY <2>1 DEF Mined
  <2>3. Out = {}
    BY ZenonT(60), <1>1, <2>1, SweepsAreTxs DEF Out
  <2> QED
    BY ZenonT(60), <2>2, <2>3
<1>3. Reported
  <2>1. ASSUME NEW s \in Keepers PROVE Boxed(box[s], sc, Mined)
    <3>1. box[s] = [rows |-> <<>>, ids |-> {}]
      BY Zenon, <1>1 DEF Keepers
    <3>2. <<>> \in Seq({}) /\ Len(<<>>) = 0
      OBVIOUS
    <3> QED
      BY <3>1, <3>2 DEF Boxed, IsSeq
  <2> QED
    BY ZenonT(60), <1>1, <2>1, SweepsAreTxs DEF Reported, Untracked, Final
<1>4. /\ ActorFields \subseteq DOMAIN child /\ child.job = Idle
      /\ child.sweep = NoTx /\ child.old = {} /\ child.row = 0
      /\ child.todo = <<>> /\ ck.job = Idle /\ ck.sweep = NoTx /\ ck.old = {}
  BY Zenon, <1>1 DEF Down, Spawned, NoCheckpoint, ActorFields
<1>5. JobOk(Idle, sc, Mined)
  BY Zenon DEF Idle, JobOk, JobFields
<1>6. TodoOk(child.todo, sc, Mined, Own, Again)
  BY ZenonT(60), <1>4, ItemKinds
<1>7. Len(box[Child].rows) = 0
  BY ZenonT(60), <1>1, ExitAssumption
<1>8. Actor
  BY <1>4, <1>5, <1>6, <1>7 DEF Actor
<1>9. Owned
  BY ZenonT(60), <1>1, <1>2 DEF Owned
<1>10. Office
  <2>1. /\ RegFields \subseteq DOMAIN reg /\ reg.pend = NoRecord
        /\ reg.write = NoWrite /\ reg.ended = <<>>
    BY Zenon, <1>1 DEF RegistryStarted, RegFields
  <2> QED
    BY ZenonT(60), <1>1, <2>1, PlainRecords DEF Office
<1> QED
  BY ZenonT(60), <1>1, <1>3, <1>8, <1>9, <1>10, StoryInit DEF Exit

LEMMA ExitTells ==
    ASSUME Exit, Office
    PROVE  OutcomeIsTrue /\ OwnSpendIsNoFailure
<1>1. /\ SweptIn(Mined) => Swept
      /\ TakenIn(sc, Mined) => SourceTaken
      /\ ForeignIn(sc, Mined) => \E f \in DOMAIN sc.foreign : OnChain(f)
  BY Zenon
  DEF SweptIn, TakenIn, ForeignIn, Mined, Swept, SourceTaken, OnChain, p
<1>2. OutcomeIsTrue
  BY ZenonT(60), <1>1 DEF Exit, Office, RecordOk, OutcomeIsTrue
<1>3. OwnSpendIsNoFailure
  BY ZenonT(60), <1>1 DEF Exit, Actor, JobOk, OwnSpendIsNoFailure
<1> QED
  BY ZenonT(60), <1>2, <1>3

\* OutcomeIsTrue (handleTerminated, notifyVTXOExit): where no block is
\* reorganised, a coin told it is spent and a record that says completed have
\* a sweep on the chain, and a coin told to be reclaimed had its source taken
\* by a foreign transaction.  Crashes of the process between the job's end,
\* the record and the coin, refused writes and late messages are included.
THEOREM OutcomeStaysTrue == Spec /\ NoReorg => []OutcomeIsTrue
BY ExitInit, ExitStep, ExitTells, PTL DEF Spec

\* OwnSpendIsNoFailure (handleSpendObserved, sweepCandidate): where no block
\* is reorganised, a job or a checkpoint that failed as spent has a foreign
\* transaction on the chain: neither a node of the proof nor any sweep the
\* job ever sent, one replaced since or sent before a crash included.
THEOREM OwnSpendFailsNothing == Spec /\ NoReorg => []OwnSpendIsNoFailure
BY ExitInit, ExitStep, ExitTells, PTL DEF Spec

=============================================================================
