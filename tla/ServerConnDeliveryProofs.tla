----------------------- MODULE ServerConnDeliveryProofs ----------------------
(***************************************************************************)
(* How often each target of the connection gets an envelope: the in-memory *)
(* actor once between two failed folds, a hoisted request once per         *)
(* process, the durable mailbox once and in the order of the log; and that *)
(* the switch to the incompatible state leaves nobody behind.              *)
(*                                                                         *)
(* Each needs an invariant of its own beside IngressInv: where the cursor  *)
(* stands relative to the batch, to what escaped the open transaction and  *)
(* to the rows of the mailbox; which requests lie past the served          *)
(* watermark; and who is in the registry while the switch goes on.         *)
(***************************************************************************)
EXTENDS ServerConnIngressProofs

\* The solver gets more time than its default.
USE SMTT(30)

-----------------------------------------------------------------------------
\* The switch to incompatible.  A caller that may block on an open future is in
\* the registry, where FailAll finds it, and it goes on to wait only while the
\* switch has not begun.  A goroutine past StartIngress has published its
\* cancel, where CancelIngress finds it, or rechecks first.
Running == {"recover", "top", "pull", "deliver", "serve", "fold"}

SwitchInv ==
    /\ reg \in [waiter : BOOLEAN, pending : BOOLEAN]
    /\ cancel \in [published : BOOLEAN, called : BOOLEAN]
    /\ caller \in {"recheck", "waiting"} /\ promise = "open" => reg.waiter
    /\ compat = "failed" => ~(caller = "waiting" /\ promise = "open")
    /\ pc \in Running \cup {"published"} => cancel.published
    /\ pc \in Running /\ compat \notin {"compatible", "cached"} => cancel.called
    /\ pc \in Running \cup {"down", "loaded", "published", "stopped"}

LEMMA SwitchStep ==
    ASSUME SwitchInv, [Next]_vars
    PROVE  SwitchInv'
<1> USE DEF SwitchInv
<1>1. CASE Start
  BY ZenonT(60), <1>1 DEF Start, StartIngress, PublishCancel, RecheckCompat,
     RetryQuarantined, EnterLoop, Running, registryVars, callerVars, compatVars
<1>2. CASE ExitLoop \/ ackPhase \/ PullEmpty \/ PullBatch \/ PullIncompatible
  BY Zenon, <1>2 DEF ExitLoop, ackPhase, PullEmpty, PullBatch, PullIncompatible,
     Running, registryVars, callerVars, compatVars
<1>3. CASE deliverWaiterResponses
  <2>1. /\ pc = "deliver" /\ pc' = "serve"
        /\ UNCHANGED <<caller, compat, cancel>>
        /\ promise' = promise \/ promise' = "response"
        /\ reg' = reg \/ reg' = [reg EXCEPT !.pending = FALSE]
    BY Zenon, <1>3 DEF deliverWaiterResponses, compatVars
  <2> QED
    BY Zenon, <2>1 DEF Running
<1>4. CASE dispatchNonTxRequests \/ BeginFold
  BY Zenon, <1>4 DEF dispatchNonTxRequests, ServeFails, BeginFold, Running, registryVars,
     callerVars, compatVars
<1>5. CASE SkipEnvelope \/ DispatchDurable \/ DispatchMemory \/ CommitFold
           \/ ReplayFold \/ FailFold
  BY ZenonT(60), <1>5
  DEF SkipEnvelope, DispatchDurable, DispatchMemory, CommitFold,
     ReplayFold, FailFold, Abandon, Running, loopVars, registryVars,
     callerVars, compatVars
<1>6. CASE QuarantinePoison
  <2>1. /\ pc' \in {pc, "top"} /\ pc = "fold"
        /\ UNCHANGED <<reg, promise, caller, compat, cancel>>
    BY Zenon, <1>6 DEF QuarantinePoison, Abandon, Dispatching, registryVars,
       callerVars, compatVars
  <2> QED
    BY Zenon, <2>1 DEF Running
<1>7. CASE DispatchResponse
  <2>1. /\ UNCHANGED <<pc, caller, compat, cancel>>
        /\ promise' = promise \/ promise' = "response"
        /\ \/ reg' = reg
           \/ \E p \in BOOLEAN : reg' = [reg EXCEPT !.pending = p]
    BY Zenon, <1>7 DEF DispatchResponse, loopVars, compatVars
  <2> QED
    BY Zenon, <2>1
<1>8. CASE Unary
  <2>1. /\ UNCHANGED <<pc, compat, cancel>>
        /\ \/ UNCHANGED <<reg, promise>> /\ caller' \in {"admitted", "sent"}
           \/ /\ UNCHANGED <<reg, promise>> /\ caller = "recheck"
              /\ caller' = "waiting" /\ compat = "compatible"
           \/ /\ reg' = [reg EXCEPT !.waiter = FALSE]
              /\ promise' = promise /\ caller' = "idle"
           \/ /\ reg' = [waiter |-> TRUE, pending |-> FALSE]
              /\ caller' \in {"sending", "recheck"}
           \/ /\ reg' = [waiter |-> FALSE, pending |-> FALSE]
              /\ promise' = IF reg.waiter /\ promise = "open" THEN "error"
                            ELSE promise
              /\ caller' = caller
    BY Zenon, <1>8
    DEF Unary, SendRPC, Register, EdgeSend, AwaitRPC, RecheckAwait,
       Return, PruneStale, CallerStep, RegisterWaiter, RemoveWaiter, loopVars,
       compatVars
  <2>2. reg' \in [waiter : BOOLEAN, pending : BOOLEAN]
    <3>1. CASE reg' = reg
      BY Zenon, <3>1
    <3>2. CASE reg' = [reg EXCEPT !.waiter = FALSE]
      BY Zenon, <3>2
    <3>3. CASE \E w \in BOOLEAN : reg' = [waiter |-> w, pending |-> FALSE]
      BY <3>3
    <3> QED
      BY Zenon, <2>1, <3>1, <3>2, <3>3
  <2>3. caller' \in {"recheck", "waiting"} /\ promise' = "open" => reg'.waiter
    BY <2>1
  <2>4. compat' = "failed" => ~(caller' = "waiting" /\ promise' = "open")
    BY Zenon, <2>1
  <2> QED
    BY Zenon, <2>1, <2>2, <2>3, <2>4
<1>9. CASE Incompatible
  BY ZenonT(60), <1>9
  DEF Incompatible, PermanentStatus, CancelIngress, FailAll, Running,
     loopVars, registryVars, callerVars
<1>10. CASE Post \/ TakeMessage \/ UNCHANGED vars
  BY Zenon, <1>10
  DEF Post, TakeMessage, vars, loopVars, registryVars, callerVars,
     compatVars
<1>11. CASE Crash
  BY Zenon, <1>11 DEF Crash, Running
<1> QED
  BY Zenon, <1>1, <1>2, <1>3, <1>4, <1>5, <1>6, <1>7, <1>8, <1>9, <1>10, <1>11
     DEF Next, Ingress, Fold

(* StartIngress and AwaitRPC each register before they recheck, and         *)
(* markIncompatible publishes before it looks who is registered: whichever  *)
(* comes first, once the switch is over no unary caller is left blocked on  *)
(* an open future and no ingress goroutine runs on a live context.          *)
THEOREM NobodyIsLeft == Spec => []IncompatibleIsFinal
<1>1. Init => SwitchInv
  BY DEF Init, SwitchInv, Running
<1>2. SwitchInv /\ [Next]_vars => SwitchInv'
  BY Zenon, SwitchStep
<1>3. SwitchInv => IncompatibleIsFinal
  BY Zenon DEF SwitchInv, IncompatibleIsFinal, Running
<1> QED
  BY <1>1, <1>2, <1>3, PTL DEF Spec

-----------------------------------------------------------------------------
\* A request past the watermark of this process has run once for each failure
\* at most.
Failures == hit["crash"] + hit["serve"]

OnceInv ==
    /\ hit \in [FaultKinds -> Nat] /\ runs \in [Seqs -> Nat]
    /\ \A s \in Seqs : /\ runs[s] <= 1 + Failures
                       /\ s > redrive.served => runs[s] <= Failures

\* Faults are only ever counted up.
HitKeeps == hit' = hit \/ \E f : hit' = [hit EXCEPT ![f] = @ + 1]

LEMMA HitGrows ==
    ASSUME hit \in [FaultKinds -> Nat], HitKeeps
    PROVE  /\ hit' \in [FaultKinds -> Nat]
           /\ Failures \in Nat /\ Failures' \in Nat /\ Failures <= Failures'
<1>1. {"crash", "serve"} \subseteq FaultKinds
  BY Zenon DEF FaultKinds
<1>2. CASE hit' = hit
  BY <1>1, <1>2 DEF Failures
<1>3. CASE \E f : hit' = [hit EXCEPT ![f] = hit[f] + 1]
  <2>1. PICK f : hit' = [hit EXCEPT ![f] = hit[f] + 1]
    BY Zenon, <1>3
  <2>2. DOMAIN hit = FaultKinds /\ \A g \in FaultKinds : hit[g] \in Nat
    BY Zenon
  <2>3. /\ hit' = [g \in FaultKinds |-> hit'[g]]
        /\ \A g \in FaultKinds : hit'[g] = IF g = f THEN hit[f] + 1 ELSE hit[g]
    BY Zenon, <2>1, <2>2
  <2>4. ASSUME NEW g \in FaultKinds
        PROVE  hit'[g] \in Nat /\ hit[g] <= hit'[g]
    <3>1. hit[g] \in Nat /\ (hit'[g] = hit[g] + 1 \/ hit'[g] = hit[g])
      BY Zenon, <2>2, <2>3
    <3> QED
      BY <3>1
  <2>5. hit' \in [FaultKinds -> Nat]
    BY Zenon, <2>3, <2>4
  <2>6. /\ hit["crash"] \in Nat /\ hit["serve"] \in Nat
        /\ hit'["crash"] \in Nat /\ hit'["serve"] \in Nat
        /\ hit["crash"] <= hit'["crash"] /\ hit["serve"] <= hit'["serve"]
    BY Zenon, <1>1, <2>2, <2>4
  <2> QED
    BY <2>5, <2>6 DEF Failures
<1> QED
  BY Zenon, <1>2, <1>3 DEF HitKeeps

\* A step that neither serves nor moves the watermark back.
LEMMA UnservedKeeps ==
    ASSUME OnceInv, runs' = runs, redrive'.served = redrive.served, HitKeeps
    PROVE  OnceInv'
<1>1. /\ hit' \in [FaultKinds -> Nat]
      /\ Failures \in Nat /\ Failures' \in Nat /\ Failures <= Failures'
  BY Zenon, HitGrows DEF OnceInv
<1>2. runs \in [Seqs -> Nat]
  BY Zenon DEF OnceInv
<1> QED
  BY <1>1, <1>2 DEF OnceInv

LEMMA OnceStep ==
    ASSUME IngressInv, OnceInv, [Next]_vars
    PROVE  OnceInv'
<1>0. /\ runs \in [Seqs -> Nat] /\ hit \in [FaultKinds -> Nat]
      /\ redrive \in [deferred : 0..Len(log), served : 0..Len(log)]
  BY Zenon DEF OnceInv, IngressInv, TypeInv
<1>a. Failures \in Nat
  BY <1>0 DEF Failures, FaultKinds
<1>1. CASE dispatchNonTxRequests
  <2> SUFFICES ASSUME NEW s, s = Lowest(part.requests)
               PROVE  OnceInv'
    BY Zenon
  <2>1. s \in Seqs /\ s \in Nat
    <3>1. /\ Len(log) \in Nat /\ Len(log) <= MaxLog /\ part.requests # {}
          /\ part.requests \in SUBSET Upto(Len(log))
      BY <1>1 DEF IngressInv, TypeInv, Parts, dispatchNonTxRequests
    <3>2. s \in Upto(Len(log))
      BY Zenon, <3>1, LowestIs
    <3> QED
      BY <3>1, <3>2, IngressAssumption DEF Upto, Seqs
  <2>2. CASE UNCHANGED <<runs, redrive>> /\ HitKeeps
    BY Zenon, <2>2, UnservedKeeps
  <2>3. ASSUME runs' = [runs EXCEPT ![s] = runs[s] + 1]
        PROVE  /\ runs' \in [Seqs -> Nat]
               /\ \A t \in Seqs : /\ t = s => runs'[t] = runs[s] + 1
                                  /\ t # s => runs'[t] = runs[t]
    BY <1>0, <2>1, <2>3
  <2>4. CASE /\ ~(s <= redrive.served) /\ hit' = hit
             /\ runs' = [runs EXCEPT ![s] = runs[s] + 1]
             /\ redrive' = [redrive EXCEPT !.served = s]
    <3>1. redrive'.served = s /\ Failures' = Failures /\ redrive.served \in Nat
      BY <1>0, <2>4 DEF Failures
    <3>2. runs[s] <= Failures
      BY <1>0, <2>1, <2>4, <3>1 DEF OnceInv
    <3> SUFFICES ASSUME NEW t \in Seqs
                 PROVE  /\ runs'[t] <= 1 + Failures
                        /\ t > s => runs'[t] <= Failures
      BY Zenon, <1>0, <2>3, <2>4, <3>1 DEF OnceInv
    <3>3. /\ t = s => runs'[t] = runs[s] + 1
          /\ t # s => runs'[t] = runs[t]
      BY Zenon, <2>3, <2>4
    <3>4. /\ t \in Nat /\ runs[t] \in Nat /\ runs[s] \in Nat
          /\ runs[t] <= 1 + Failures
          /\ t > redrive.served => runs[t] <= Failures
      BY <1>0, <2>1 DEF OnceInv, Seqs
    <3> QED
      BY <1>a, <2>1, <2>4, <3>1, <3>2, <3>3, <3>4
  <2>5. CASE /\ ~(s <= redrive.served) /\ hit' = [hit EXCEPT !["serve"] = @ + 1]
             /\ runs' = [runs EXCEPT ![s] = runs[s] + 1]
             /\ redrive' = redrive
    <3>1. hit' \in [FaultKinds -> Nat] /\ Failures' = Failures + 1
      BY <1>0, <2>5 DEF Failures, FaultKinds
    <3>2. runs[s] <= Failures
      BY <1>0, <2>1, <2>5 DEF OnceInv
    <3> SUFFICES ASSUME NEW t \in Seqs
                 PROVE  /\ runs'[t] <= 1 + (Failures + 1)
                        /\ t > redrive.served => runs'[t] <= Failures + 1
      BY Zenon, <2>3, <2>5, <3>1 DEF OnceInv
    <3>3. /\ t = s => runs'[t] = runs[s] + 1
          /\ t # s => runs'[t] = runs[t]
      BY Zenon, <2>3, <2>5
    <3>4. runs[t] \in Nat /\ runs[s] \in Nat /\ runs[t] <= 1 + Failures
      BY <1>0, <2>1 DEF OnceInv
    <3> QED
      BY <1>a, <3>2, <3>3, <3>4
  <2>6. dispatchNonTxRequests =>
          \/ UNCHANGED <<runs, redrive>> /\ HitKeeps
          \/ /\ ~(s <= redrive.served) /\ hit' = hit
             /\ runs' = [runs EXCEPT ![s] = runs[s] + 1]
             /\ redrive' = [redrive EXCEPT !.served = s]
          \/ /\ s > redrive.served /\ hit' = [hit EXCEPT !["serve"] = @ + 1]
             /\ runs' = [runs EXCEPT ![s] = runs[s] + 1]
             /\ redrive' = redrive
    BY Zenon DEF dispatchNonTxRequests, ServeFails, Ran, Fault, HitKeeps
  <2>7. s > redrive.served => ~(s <= redrive.served)
    BY <1>0, <2>1
  <2> QED
    BY Zenon, <1>1, <2>2, <2>4, <2>5, <2>6, <2>7
<1>2. CASE Crash
  <2>1. /\ hit' = [hit EXCEPT !["crash"] = @ + 1] /\ runs' = runs
        /\ redrive'.served = 0
    BY Zenon, <1>2 DEF Crash, Fault, FreshRedrive
  <2>2. hit' \in [FaultKinds -> Nat] /\ Failures' = Failures + 1
    BY <1>0, <2>1 DEF Failures, FaultKinds
  <2> QED
    BY <1>0, <1>a, <2>1, <2>2 DEF OnceInv
<1>3. CASE CommitFold
  <2>1. redrive'.served = redrive.served /\ UNCHANGED <<runs, hit>>
    BY Zenon, <1>0, <1>3 DEF CommitFold
  <2> QED
    BY Zenon, <2>1, UnservedKeeps DEF HitKeeps
<1>4. CASE UNCHANGED <<runs, redrive>> /\ HitKeeps
  BY Zenon, <1>4, UnservedKeeps
<1>5. CASE Start \/ ExitLoop \/ ackPhase \/ PullEmpty \/ PullBatch
           \/ PullIncompatible \/ deliverWaiterResponses \/ BeginFold
  BY Zenon, <1>4, <1>5 DEF Start, StartIngress, PublishCancel, RecheckCompat,
     RetryQuarantined, EnterLoop, ExitLoop, ackPhase, PullEmpty, PullBatch,
     PullIncompatible, deliverWaiterResponses, BeginFold, Fault, HitKeeps
<1>6. CASE SkipEnvelope \/ DispatchDurable \/ DispatchMemory
           \/ DispatchResponse \/ QuarantinePoison \/ ReplayFold \/ FailFold
  BY Zenon, <1>4, <1>6 DEF SkipEnvelope, DispatchDurable, DispatchMemory,
     DispatchResponse, QuarantinePoison, ReplayFold, FailFold, loopVars, Fault,
     HitKeeps
<1>7. CASE Unary
  BY Zenon, <1>4, <1>7
  DEF Unary, SendRPC, Register, EdgeSend, AwaitRPC, RecheckAwait,
     Return, PruneStale, CallerStep, loopVars, HitKeeps
<1>8. CASE Post \/ TakeMessage \/ Incompatible \/ UNCHANGED vars
  BY Zenon, <1>4, <1>8 DEF Post, TakeMessage, Incompatible, PermanentStatus,
     CancelIngress, FailAll, vars, loopVars, Fault, HitKeeps
<1> QED
  BY Zenon, <1>1, <1>2, <1>3, <1>5, <1>6, <1>7, <1>8 DEF Next, Ingress, Fold

(* dispatchNonTxRequests, isNonTxRequest: however often the cursor stalls   *)
(* and the batch is pulled again, and whichever folds fail or are replayed, *)
(* the handler of a hoisted request runs once, and once more at most for    *)
(* each restart and each serve that failed.                                 *)
THEOREM RunsOnce == Spec => []RunsAgainOnlyOnFailure
<1>1. Init => IngressInv /\ OnceInv
  <2> SUFFICES ASSUME Init PROVE OnceInv
    BY Zenon, IngressInit
  <2>1. hit = [f \in FaultKinds |-> 0] /\ runs = [s \in Seqs |-> 0]
    BY Zenon DEF Init
  <2>2. Failures = 0
    BY <2>1 DEF Failures, FaultKinds
  <2> QED
    BY <2>1, <2>2 DEF OnceInv
<1>2. IngressInv /\ OnceInv /\ [Next]_vars => (IngressInv /\ OnceInv)'
  BY Zenon, IngressStep, OnceStep
<1>3. OnceInv => RunsAgainOnlyOnFailure
  <2> SUFFICES ASSUME OnceInv, NEW s \in Seqs
               PROVE  runs[s] <= 1 + hit["crash"] + hit["serve"]
    BY Zenon DEF RunsAgainOnlyOnFailure
  <2>1. /\ runs[s] <= 1 + (hit["crash"] + hit["serve"]) /\ runs[s] \in Nat
        /\ hit["crash"] \in Nat /\ hit["serve"] \in Nat
    BY DEF OnceInv, Failures, FaultKinds
  <2> QED
    BY <2>1
<1> QED
  BY <1>1, <1>2, <1>3, PTL DEF Spec

-----------------------------------------------------------------------------
\* The in-memory target.  A batch starts at the cursor, so what was handed over
\* before is below it or has escaped the open transaction.  The latter are the
\* first in-memory envelopes of the batch, so that a deferral comes after them.
InMemory(l, u, s) == /\ l[s].kind \in {"memory", "memory_poison"}
                     /\ u \/ l[s].kind = "memory"

FreshInv ==
    pc \in {"deliver", "serve", "fold"} =>
        \A s \in part.responses \cup part.requests \cup part.durables :
            ack.pull <= s

CopyInv ==
    /\ copies \in [Seqs -> 0..1]
    /\ \A s \in Seqs : copies[s] > 0 =>
         /\ pc # "down"
         /\ s < ack.pull \/ (pc = "fold" /\ s \in escaped)

EscapedInv ==
    pc = "fold" =>
        /\ escaped \subseteq part.durables
        /\ \A s \in part.durables \ tx.todo :
             InMemory(log, upgraded, s) => s \in escaped
        /\ \A e \in escaped, s \in part.durables :
             s < e /\ InMemory(log, upgraded, s) => s \in escaped
        /\ deferral # 0 =>
             InMemory(log, upgraded, deferral) /\ deferral \notin escaped

HandInv == FreshInv /\ CopyInv /\ EscapedInv

handVars == <<log, ack, part, copies, escaped, tx, deferral, upgraded>>

\* The fold goes on past an envelope that is not for the in-memory target, or
\* was handed over before.
LEMMA PassedKeeps ==
    ASSUME IngressInv, HandInv, pc = "fold", NEW s,
           UNCHANGED <<log, pc, ack, part, copies, escaped, deferral, upgraded>>,
           tx'.todo = tx.todo \ {s},
           InMemory(log, upgraded, s) => s \in escaped
    PROVE  HandInv'
<1>1. FreshInv' /\ CopyInv'
  BY Zenon DEF HandInv, FreshInv, CopyInv
<1>2. EscapedInv'
  BY Zenon DEF HandInv, EscapedInv
<1> QED
  BY Zenon, <1>1, <1>2 DEF HandInv

LEMMA TodoOf ==
    ASSUME IngressInv, NEW s, Dispatching(s)
    PROVE  /\ pc = "fold" /\ deferral = 0 /\ s \in tx.todo
           /\ s \in part.durables /\ s \in Upto(Len(log)) /\ s \in Seqs
           /\ tx \in Txs(Len(log)) /\ Done(tx, s).todo = tx.todo \ {s}
           /\ \A x \in tx.todo : s <= x
           /\ part.durables \subseteq Upto(Len(log)) /\ Upto(Len(log)) \subseteq Seqs
<1>1. /\ pc = "fold" /\ deferral = 0 /\ s \in tx.todo /\ s \in Upto(Len(log))
      /\ \A x \in tx.todo : s <= x /\ tx \in Txs(Len(log)) 
  BY Zenon, DispatchIs
<1>t. tx \in Txs(Len(log))
  BY Zenon, DispatchIs
<1>2. s \in part.durables
  BY Zenon, <1>1 DEF IngressInv, FoldInv
<1>3. Upto(Len(log)) \subseteq Seqs /\ part.durables \subseteq Upto(Len(log))
  BY IngressAssumption DEF IngressInv, TypeInv, Upto, Seqs, Parts
<1>4. Done(tx, s).todo = tx.todo \ {s}
  BY <1>t, DoneIs
<1> QED
  BY Zenon, <1>1, <1>2, <1>3, <1>4, <1>t

LEMMA AbandonHands ==
    ASSUME Abandon
    PROVE  HandInv'
BY DEF Abandon, HandInv, FreshInv, CopyInv, EscapedInv

\* dispatchBatch.
LEMMA DispatchHands ==
    ASSUME IngressInv, HandInv,
           \/ SkipEnvelope \/ DispatchDurable \/ DispatchMemory
           \/ DispatchResponse \/ QuarantinePoison
    PROVE  HandInv'
<1>1. CASE SkipEnvelope
  <2>1. PICK s \in Seqs : /\ Dispatching(s) /\ log[s].kind = "unroutable"
                          /\ tx' = Done(tx, s)
    BY Zenon, <1>1 DEF SkipEnvelope, Kind
  <2>2. UNCHANGED <<log, pc, ack, part, copies, escaped, deferral, upgraded>>
    BY Zenon, <1>1 DEF SkipEnvelope, loopVars, memVars
  <2> QED
    BY Zenon, <2>1, <2>2, TodoOf, PassedKeeps DEF InMemory
<1>2. CASE DispatchDurable
  <2>1. PICK s \in Seqs : /\ Dispatching(s) /\ log[s].kind \in {"event", "poison"}
                          /\ tx' = Done(EnqueueOnce(tx, s), s)
    BY Zenon, <1>2 DEF DispatchDurable, Kind
  <2>2. UNCHANGED <<log, pc, ack, part, copies, escaped, deferral, upgraded>>
    BY Zenon, <1>2 DEF DispatchDurable, loopVars, memVars
  <2> SUFFICES ASSUME NEW t, t = EnqueueOnce(tx, s)
               PROVE  HandInv'
    BY Zenon
  <2>3. TxFiles(Len(log), tx, s, t)
    BY Zenon, <2>1, DispatchIs, TxEnqueues
  <2>4. t \in Txs(Len(log)) /\ t.todo = tx.todo
    BY Zenon, <2>3 DEF TxFiles
  <2>5. tx'.todo = tx.todo \ {s}
    BY <2>1, <2>4, DoneIs
  <2> QED
    BY Zenon, <2>1, <2>2, <2>5, TodoOf, PassedKeeps DEF InMemory
<1>3. CASE DispatchResponse
  <2>1. PICK s \in Seqs :
          /\ Dispatching(s) /\ log[s].kind \in Responses
          /\ \/ tx' = Done(tx, s) \/ tx' = Done(Enqueue(tx, s), s)
    BY Zenon, <1>3 DEF DispatchResponse, Kind
  <2>2. UNCHANGED <<log, pc, ack, part, copies, escaped, deferral, upgraded>>
    BY Zenon, <1>3 DEF DispatchResponse, loopVars, memVars
  <2>3. tx'.todo = tx.todo \ {s}
    <3>1. tx \in Txs(Len(log))
      BY Zenon, <2>1, TodoOf
    <3>2. CASE tx' = Done(tx, s)
      BY Zenon, <3>1, <3>2 DEF Done, Txs
    <3>3. CASE tx' = Done(Enqueue(tx, s), s)
      BY Zenon, <3>1, <3>3 DEF Done, Enqueue, Txs
    <3> QED
      BY Zenon, <2>1, <3>2, <3>3
  <2> QED
    BY Zenon, <2>1, <2>2, <2>3, TodoOf, PassedKeeps DEF InMemory, Responses
<1>4. CASE QuarantinePoison
  <2>1. PICK s \in Seqs :
          /\ Dispatching(s) /\ ~InMemory(log, upgraded, s)
          /\ \/ Abandon
             \/ /\ tx' = Done(QuarantineIngress(tx, s), s)
                /\ UNCHANGED <<escaped, deferral, copies, part, pc>>
    BY Zenon, <1>4 DEF QuarantinePoison, Readable, Kind, InMemory
  <2>2. UNCHANGED <<log, ack, upgraded>>
    BY Zenon, <1>4 DEF QuarantinePoison
  <2>3. CASE Abandon
    BY Zenon, <2>3, AbandonHands
  <2>4. CASE /\ tx' = Done(QuarantineIngress(tx, s), s)
             /\ UNCHANGED <<escaped, deferral, copies, part, pc>>
    <3>1. tx \in Txs(Len(log))
      BY Zenon, <2>1, TodoOf
    <3>2. tx'.todo = tx.todo \ {s}
      BY Zenon, <2>4, <3>1 DEF Done, QuarantineIngress, Txs
    <3> QED
      BY Zenon, <2>1, <2>2, <2>4, <3>2, TodoOf, PassedKeeps
  <2> QED
    BY Zenon, <2>1, <2>3, <2>4
<1>5. CASE DispatchMemory
  <2>1. PICK s \in Seqs :
          /\ Dispatching(s) /\ InMemory(log, upgraded, s)
          /\ \/ /\ s \in escaped /\ tx' = Done(tx, s)
                /\ UNCHANGED <<escaped, deferral, copies>>
             \/ /\ s \notin escaped
                /\ copies' = [copies EXCEPT ![s] = copies[s] + 1]
                /\ escaped' = escaped \cup {s}
                /\ tx' = Done(tx, s) /\ UNCHANGED deferral
             \/ /\ s \notin escaped /\ deferral' = s
                /\ UNCHANGED <<tx, escaped, copies>>
    BY Zenon, <1>5
    DEF DispatchMemory, ToMemory, Readable, InMemory, Kind, memVars
  <2>2. UNCHANGED <<log, pc, ack, part, upgraded>>
    BY Zenon, <1>5 DEF DispatchMemory, loopVars
  <2>d. /\ pc = "fold" /\ deferral = 0 /\ s \in tx.todo /\ s \in part.durables
        /\ s \in Seqs /\ Done(tx, s).todo = tx.todo \ {s}
        /\ \A x \in tx.todo : s <= x
        /\ part.durables \subseteq Seqs
    BY Zenon, <2>1, TodoOf
  <2>n. Seqs \subseteq Nat /\ ack.pull \in Nat
    BY DEF Seqs, IngressInv, TypeInv, AckStates
  <2>m. part.durables \subseteq Nat /\ s \in Nat
    BY Zenon, <2>d, <2>n, Zenon
  <2>3. CASE s \in escaped /\ tx' = Done(tx, s) /\ UNCHANGED <<escaped, deferral, copies>>
    BY Zenon, <2>1, <2>2, <2>3, <2>d, PassedKeeps
  <2>4. CASE /\ s \notin escaped
             /\ copies' = [copies EXCEPT ![s] = copies[s] + 1]
             /\ escaped' = escaped \cup {s}
             /\ tx' = Done(tx, s) /\ UNCHANGED deferral
    <3>1. copies[s] = 0
      <4>1. ack.pull <= s /\ copies[s] \in 0..1
        BY Zenon, <2>d DEF HandInv, FreshInv, CopyInv
      <4>2. ~(copies[s] > 0)
        BY <2>4, <2>d, <2>n, <4>1 DEF HandInv, CopyInv
      <4> QED
        BY <4>1, <4>2
    <3>2. CopyInv'
      BY <2>2, <2>4, <2>d, <3>1 DEF HandInv, CopyInv
    <3>3. FreshInv'
      BY Zenon, <2>2 DEF HandInv, FreshInv
    <3>4. ASSUME NEW e \in escaped', NEW x \in part.durables, x < e,
                 InMemory(log, upgraded, x)
          PROVE  x \in escaped'
      <4>1. CASE e \in escaped
        <5>1. x \in escaped
          BY Zenon, <2>d, <3>4, <4>1 DEF HandInv, EscapedInv
        <5> QED
          BY Zenon, <2>4, <5>1
      <4>2. CASE e = s
        <5>0. x \in Nat /\ s \in Nat /\ x < s
          <6>1. x \in Nat /\ s \in Nat
            BY Zenon, <2>m, <3>4, Zenon
          <6> QED
            BY Zenon, <3>4, <4>2, <6>1, Zenon
        <5>1. x \notin tx.todo
          BY <2>d, <5>0
        <5>2. x \in escaped
          BY Zenon, <2>d, <3>4, <5>1 DEF HandInv, EscapedInv
        <5> QED
          BY <2>4, <5>2
      <4> QED
        BY Zenon, <2>4, <3>4, <4>1, <4>2
    <3>5. EscapedInv'
      BY Zenon, <2>2, <2>4, <2>d, <3>4 DEF HandInv, EscapedInv
    <3> QED
      BY Zenon, <3>2, <3>3, <3>5 DEF HandInv
  <2>5. CASE s \notin escaped /\ deferral' = s /\ UNCHANGED <<tx, escaped, copies>>
    <3>1. FreshInv' /\ CopyInv'
      BY Zenon, <2>2, <2>5 DEF HandInv, FreshInv, CopyInv
    <3>2. EscapedInv'
      BY Zenon, <2>1, <2>2, <2>5, <2>d DEF HandInv, EscapedInv
    <3> QED
      BY Zenon, <3>1, <3>2 DEF HandInv
  <2> QED
    BY Zenon, <2>1, <2>3, <2>4, <2>5
<1> QED
  BY Zenon, <1>1, <1>2, <1>3, <1>4, <1>5

-----------------------------------------------------------------------------
\* Outside a fold the target was handed only what is below the cursor.
LEMMA IdleHands ==
    ASSUME HandInv, UNCHANGED copies, pc # "fold", pc' \notin {"fold", "down"},
           pc = "down" \/ ack'.pull = ack.pull, FreshInv'
    PROVE  HandInv'
<1>1. CopyInv'
  BY Zenon DEF HandInv, CopyInv
<1>2. EscapedInv'
  BY Zenon DEF EscapedInv
<1> QED
  BY Zenon, <1>1, <1>2 DEF HandInv

\* The steps between two dispatches, and those before the transaction opens.
LEMMA LoopHands ==
    ASSUME IngressInv, HandInv,
           \/ Start \/ ExitLoop \/ ackPhase \/ PullEmpty \/ PullBatch
           \/ PullIncompatible \/ deliverWaiterResponses \/ dispatchNonTxRequests
    PROVE  HandInv'
<1>1. CASE Start
  <2>1. /\ pc # "fold" /\ pc' \notin {"deliver", "serve", "fold", "down"}
        /\ UNCHANGED copies
        /\ pc = "down" \/ ack' = ack
    BY Zenon, <1>1 DEF Start, StartIngress, PublishCancel, RecheckCompat,
                RetryQuarantined, EnterLoop, memVars
  <2> QED
    BY Zenon, <2>1, IdleHands DEF FreshInv
<1>2. CASE ExitLoop \/ PullEmpty \/ PullIncompatible
  <2>1. /\ pc # "fold" /\ pc' \notin {"deliver", "serve", "fold", "down"}
        /\ UNCHANGED copies /\ ack' = ack
    BY Zenon, <1>2 DEF ExitLoop, PullEmpty, PullIncompatible, memVars
  <2> QED
    BY Zenon, <2>1, IdleHands DEF FreshInv
<1>3. CASE ackPhase
  <2>1. /\ pc # "fold" /\ pc' \notin {"deliver", "serve", "fold", "down"}
        /\ UNCHANGED copies
        /\ ack' = ack \/ ack' = AdvanceAck(ack)
    BY Zenon, <1>3 DEF ackPhase, memVars
  <2>2. ack'.pull = ack.pull
    <3>1. ack \in AckStates /\ Level(ack)
      BY Zenon DEF IngressInv, TypeInv, CursorInv
    <3> QED
      BY Zenon, <2>1, <3>1, AckMoves DEF Level
  <2> QED
    BY Zenon, <2>1, <2>2, IdleHands DEF FreshInv
<1>4. CASE PullBatch
  <2>1. /\ pc = "pull" /\ pc' = "deliver" /\ UNCHANGED <<copies, ack>>
    BY Zenon, <1>4 DEF PullBatch, memVars
  <2> SUFFICES
        ASSUME NEW next, NEW kept,
               kept = {s \in Window(ack.pull) : Kind(s) # "foreign"},
               NEW batch, batch = clampToDeferred(kept, next, redrive.deferred),
               part' = splitIngressEnvelopes(batch.seqs, batch.next)
        PROVE  HandInv'
    BY Zenon, <1>4 DEF PullBatch
  <2>2. kept \subseteq Window(ack.pull)
    BY Zenon
  <2>3. batch.seqs \subseteq kept
    BY Zenon DEF clampToDeferred
  <2>4. part'.responses \cup part'.requests \cup part'.durables \subseteq batch.seqs
    BY Zenon DEF splitIngressEnvelopes
  <2>5. \A s \in Window(ack.pull) : s \in Nat /\ ack.pull <= s
    BY DEF Window, IngressInv, TypeInv, AckStates
  <2>6. FreshInv'
    BY Zenon, <2>1, <2>2, <2>3, <2>4, <2>5 DEF FreshInv
  <2> QED
    BY Zenon, <2>1, <2>6, IdleHands
<1>5. CASE deliverWaiterResponses \/ dispatchNonTxRequests
  <2>1. /\ pc \in {"deliver", "serve"} /\ pc' \notin {"fold", "down"}
        /\ UNCHANGED <<copies, ack>>
    BY Zenon, <1>5 DEF deliverWaiterResponses, dispatchNonTxRequests, ServeFails, memVars
  <2>2. part \in Parts(Len(log))
    BY Zenon DEF IngressInv, TypeInv
  <2>3. \/ part' = [part EXCEPT !.responses = {}]
        \/ part' = [part EXCEPT !.responses = {},
                                !.durables = part.durables \cup part.responses]
        \/ part' = [part EXCEPT !.requests = part.requests \ {Lowest(part.requests)}]
        \/ part' = NoBatch
    BY Zenon, <1>5 DEF deliverWaiterResponses, dispatchNonTxRequests, ServeFails
  <2>4. part'.responses \cup part'.requests \cup part'.durables
          \subseteq part.responses \cup part.requests \cup part.durables
    <3>1. CASE part' = [part EXCEPT !.responses = {}]
      BY Zenon, <2>2, <3>1 DEF Parts
    <3>2. CASE part' = [part EXCEPT !.responses = {},
                          !.durables = part.durables \cup part.responses]
      BY Zenon, <2>2, <3>2 DEF Parts
    <3>3. CASE part' = [part EXCEPT !.requests =
                          part.requests \ {Lowest(part.requests)}]
      BY Zenon, <2>2, <3>3 DEF Parts
    <3>4. CASE part' = NoBatch
      BY Zenon, <3>4 DEF NoBatch
    <3> QED
      BY Zenon, <2>3, <3>1, <3>2, <3>3, <3>4
  <2>5. FreshInv'
    BY Zenon, <2>1, <2>4 DEF HandInv, FreshInv
  <2> QED
    BY Zenon, <2>1, <2>5, IdleHands
<1> QED
  BY Zenon, <1>1, <1>2, <1>3, <1>4, <1>5

\* A replayed transaction remembers what escaped the one before.
LEMMA OpenHands ==
    ASSUME IngressInv, HandInv, BeginFold \/ ReplayFold
    PROVE  HandInv'
<1>1. CASE BeginFold
  <2>1. /\ pc = "serve" /\ pc' = "fold" /\ escaped' = {} /\ deferral' = 0
        /\ tx' = OpenTx /\ UNCHANGED <<log, ack, part, copies, upgraded>>
    BY Zenon, <1>1 DEF BeginFold, memVars
  <2>2. tx'.todo = part.durables
    BY Zenon, <2>1 DEF OpenTx
  <2>3. FreshInv' /\ CopyInv'
    BY Zenon, <2>1 DEF HandInv, FreshInv, CopyInv
  <2>4. EscapedInv'
    BY Zenon, <2>1, <2>2 DEF EscapedInv
  <2> QED
    BY Zenon, <2>3, <2>4 DEF HandInv
<1>2. CASE ReplayFold
  <2>1. /\ pc = "fold" /\ deferral' = 0 /\ tx' = OpenTx
        /\ UNCHANGED <<log, pc, ack, part, copies, escaped, upgraded>>
    BY Zenon, <1>2 DEF ReplayFold, loopVars, memVars
  <2>2. tx'.todo = part.durables
    BY Zenon, <2>1 DEF OpenTx
  <2>3. FreshInv' /\ CopyInv'
    BY Zenon, <2>1 DEF HandInv, FreshInv, CopyInv
  <2>4. EscapedInv'
    BY Zenon, <2>1, <2>2 DEF HandInv, EscapedInv
  <2> QED
    BY <2>3, <2>4 DEF HandInv
<1> QED
  BY Zenon, <1>1, <1>2

\* The commit leaves the cursor past all that escaped.
LEMMA CommitHands ==
    ASSUME IngressInv, HandInv, CommitFold
    PROVE  HandInv'
<1> SUFFICES ASSUME NEW cursor,
                    cursor = IF deferral # 0 THEN deferredCursor(deferral, ack.pull)
                             ELSE part.next
             PROVE  HandInv'
  BY Zenon
<1>1. /\ pc = "fold" /\ pc' = "top" /\ UNCHANGED copies
  BY Zenon DEF CommitFold, memVars
<1>2. /\ cursor \in Nat /\ ack.pull <= cursor /\ cursor <= part.next
      /\ ack'.pull = cursor
  BY Zenon, CommitIs, ZenonT(60)
<1>3. /\ part.durables \subseteq Nat /\ ack.pull \in Nat /\ part.next \in Nat
      /\ tx.todo \subseteq part.durables /\ escaped \subseteq part.durables
      /\ \A s \in part.durables : s < part.next /\ ack.pull <= s
      /\ deferral # 0 => deferral \in tx.todo
  BY <1>1 DEF IngressInv, TypeInv, BatchInv, Batch, FoldInv, Parts, Upto,
              AckStates, HandInv, EscapedInv, FreshInv
<1>4. ASSUME NEW e \in escaped
      PROVE  e < cursor
  <2>1. CASE deferral = 0
    BY Zenon, <1>3, <2>1
  <2>2. CASE deferral # 0
    <3>1. /\ deferral \in part.durables /\ deferral \in Nat
          /\ ack.pull <= deferral /\ e \in Nat
      BY Zenon, <1>3, <2>2
    <3>2. cursor = deferral
      BY <1>3, <2>2, <3>1 DEF deferredCursor
    <3>3. deferral # e /\ ~(deferral < e)
      BY Zenon, <1>1, <2>2, <3>1 DEF HandInv, EscapedInv
    <3> QED
      BY <3>1, <3>2, <3>3
  <2> QED
    BY Zenon, <2>1, <2>2
<1>5. CopyInv'
  <2>1. ASSUME NEW s \in Seqs, copies[s] > 0
        PROVE  s < cursor
    <3>1. s < ack.pull \/ s \in escaped
      BY Zenon, <2>1 DEF HandInv, CopyInv
    <3>2. s \in Nat
      BY DEF Seqs
    <3> QED
      BY <1>2, <1>3, <1>4, <3>1, <3>2
  <2> QED
    BY Zenon, <1>1, <1>2, <2>1 DEF HandInv, CopyInv
<1>6. FreshInv' /\ EscapedInv'
  BY Zenon, <1>1 DEF FreshInv, EscapedInv
<1> QED
  BY Zenon, <1>5, <1>6 DEF HandInv

\* A new envelope is past everything the batch refers to.
LEMMA PostHands ==
    ASSUME IngressInv, HandInv, Post
    PROVE  HandInv'
<1>1. UNCHANGED <<pc, ack, part, copies, escaped, tx, deferral, upgraded>>
  BY Zenon DEF Post, loopVars, txVars, memVars
<1>2. PICK e : log' = Append(log, e)
  BY Zenon DEF Post
<1>3. log \in Seq(Envelope) /\ \A s \in Upto(Len(log)) : log'[s] = log[s]
  BY <1>2 DEF IngressInv, TypeInv, Upto
<1>4. \A s \in Upto(Len(log)) :
        InMemory(log', upgraded, s) <=> InMemory(log, upgraded, s)
  BY Zenon, <1>3 DEF InMemory
<1>5. /\ part.durables \subseteq Upto(Len(log))
      /\ deferral # 0 => deferral \in Upto(Len(log))
  BY DEF IngressInv, TypeInv, Parts, Upto
<1>6. FreshInv' /\ CopyInv'
  BY Zenon, <1>1 DEF HandInv, FreshInv, CopyInv
<1>7. EscapedInv'
  BY Zenon, <1>1, <1>4, <1>5 DEF HandInv, EscapedInv
<1> QED
  BY Zenon, <1>6, <1>7 DEF HandInv

LEMMA HandStep ==
    ASSUME IngressInv, HandInv, [Next]_vars
    PROVE  HandInv'
<1>1. CASE Post
  BY Zenon, <1>1, PostHands
<1>2. CASE \/ Start \/ ExitLoop \/ ackPhase \/ PullEmpty \/ PullBatch
           \/ PullIncompatible \/ deliverWaiterResponses \/ dispatchNonTxRequests
  BY Zenon, <1>2, LoopHands
<1>3. CASE BeginFold \/ ReplayFold
  BY Zenon, <1>3, OpenHands
<1>4. CASE SkipEnvelope \/ DispatchDurable \/ DispatchMemory
           \/ DispatchResponse \/ QuarantinePoison
  BY Zenon, <1>4, DispatchHands
<1>5. CASE CommitFold
  BY <1>5, CommitHands
<1>6. CASE FailFold
  BY Zenon, <1>6, AbandonHands DEF FailFold
<1>7. CASE Crash
  BY <1>7 DEF Crash, HandInv, FreshInv, CopyInv, EscapedInv
<1>8. CASE TakeMessage \/ Unary \/ Incompatible \/ UNCHANGED vars
  <2>1. UNCHANGED handVars /\ pc' = pc
    <3>1. CASE TakeMessage
      BY Zenon, <3>1 DEF TakeMessage, handVars, loopVars, txVars
    <3>2. CASE Unary
      BY Zenon, <3>2
      DEF Unary, SendRPC, Register, EdgeSend, AwaitRPC, RecheckAwait,
                  Return, PruneStale, CallerStep, handVars, loopVars, txVars,
                  memVars
    <3>3. CASE Incompatible
      BY Zenon, <3>3 DEF Incompatible, PermanentStatus, CancelIngress, FailAll,
                  handVars, loopVars, txVars, memVars
    <3>4. CASE UNCHANGED vars
      BY Zenon, <3>4 DEF vars, handVars, loopVars, txVars, memVars
    <3> QED
      BY Zenon, <1>8, <3>1, <3>2, <3>3, <3>4
  <2> QED
    BY Zenon, <2>1 DEF HandInv, FreshInv, CopyInv, EscapedInv, handVars
<1> QED
  BY ZenonT(60), <1>1, <1>2, <1>3, <1>4, <1>5, <1>6, <1>7, <1>8
  DEF Next, Ingress, Fold

(* dispatch_replay.go: however often the transaction is replayed and the    *)
(* cursor stalls at a full mailbox, the in-memory target gets an envelope   *)
(* at most once between two failed folds.                                   *)
THEOREM HandsOverOnce == Spec => []HandedOnce
<1>1. Init => IngressInv /\ HandInv
  <2> SUFFICES ASSUME Init PROVE IngressInv /\ HandInv
    BY Zenon
  <2>1. pc = "down" /\ copies = [s \in Seqs |-> 0]
    BY Zenon DEF Init
  <2>2. HandInv
    BY <2>1 DEF HandInv, FreshInv, CopyInv, EscapedInv
  <2>3. IngressInv
    BY Zenon, IngressInit
  <2> QED
    BY Zenon, <2>2, <2>3
<1>2. IngressInv /\ HandInv /\ [Next]_vars => IngressInv' /\ HandInv'
  BY Zenon, IngressStep, HandStep
<1>3. HandInv => HandedOnce
  BY DEF HandInv, CopyInv, HandedOnce
<1> QED
  BY <1>1, <1>2, <1>3, PTL DEF Spec

-----------------------------------------------------------------------------
-----------------------------------------------------------------------------
\* The durable rows.  Only a poison row may come late, out of quarantine; all
\* the others are below the cursor, so a row that is not poison comes last.
RowPair(l, a, b) ==
    /\ a # b
    /\ {l[a].kind, l[b].kind} \subseteq {"event", "poison"} => l[a].occ # l[b].occ
    /\ a < b \/ "poison" \in {l[a].kind, l[b].kind}

InOrder(l, inbox) ==
    \A i, j \in DOMAIN inbox : i < j => RowPair(l, inbox[i], inbox[j])

\* Each row is of a kind that has rows, and has its receipt.
Backed(l, inbox, receipts) ==
    \A i \in DOMAIN inbox :
        \/ l[inbox[i]].kind = "durable_response"
        \/ /\ l[inbox[i]].kind \in {"event", "poison"}
           /\ \E r \in receipts : r.occ = l[inbox[i]].occ

Below(l, inbox, bound) ==
    \A i \in DOMAIN inbox : l[inbox[i]].kind # "poison" => inbox[i] < bound

\* An event is evidence only when another with its occurrence id has a row.
Evidence(l, quarantine, receipts) ==
    \A s \in quarantine :
        \/ l[s].kind \in {"poison", "memory_poison"}
        \/ l[s].kind = "event" /\ \E r \in receipts : r.occ = l[s].occ

Shelf(l, inbox, receipts, quarantine) ==
    /\ InOrder(l, inbox) /\ Backed(l, inbox, receipts)
    /\ Evidence(l, quarantine, receipts)

ShelfInv == /\ Shelf(log, db.inbox, db.receipts, db.quarantine)
            /\ Below(log, db.inbox, db.ack.pull)
            /\ pc = "recover" => part.durables \subseteq db.quarantine

OpenShelfInv ==
    pc = "fold" => /\ Shelf(log, tx.inbox, tx.receipts, tx.quarantine)
                   /\ Below(log, tx.inbox, part.next)
                   /\ \A s \in tx.todo : Below(log, tx.inbox, s)

RowsInv == ShelfInv /\ OpenShelfInv

\* The row s joins the shelf.
LEMMA RowJoins ==
    ASSUME NEW l, NEW n \in Nat, NEW inbox \in Seq(Upto(n)), NEW s \in Upto(n),
           InOrder(l, inbox),
           \A i \in DOMAIN inbox : RowPair(l, inbox[i], s),
           NEW inbox2, inbox2 = Append(inbox, s)
    PROVE  InOrder(l, inbox2)
<1>1. /\ Len(inbox) \in Nat /\ DOMAIN inbox = 1..Len(inbox)
      /\ DOMAIN inbox2 = 1..(Len(inbox) + 1)
      /\ inbox2[Len(inbox) + 1] = s
      /\ \A i \in DOMAIN inbox : inbox2[i] = inbox[i]
  OBVIOUS
<1>2. ASSUME NEW i \in DOMAIN inbox2, NEW j \in DOMAIN inbox2, i < j
      PROVE  RowPair(l, inbox2[i], inbox2[j])
  <2>1. i \in 1..Len(inbox)
    BY <1>1, <1>2
  <2>2. CASE j = Len(inbox) + 1
    BY Zenon, <1>1, <2>1, <2>2
  <2>3. CASE j \in 1..Len(inbox)
    BY Zenon, <1>1, <1>2, <2>1, <2>3 DEF InOrder
  <2> QED
    BY <1>1, <2>2, <2>3
<1> QED
  BY Zenon, <1>2 DEF InOrder

\* An event or a readable poison envelope is enqueued.
Admits(l, inbox, receipts, s) ==
    /\ l[s].kind \in {"event", "poison"}
    /\ \/ l[s].kind = "poison" \/ Below(l, inbox, s)
       \/ \E r \in receipts : r.occ = l[s].occ

LEMMA ShelfEnlists ==
    ASSUME NEW n, n = Len(log), n \in Nat, log \in Seq(Envelope),
           NEW inbox \in Seq(Upto(n)), NEW receipts, NEW quarantine,
           NEW s \in Upto(n), NEW inbox2, NEW receipts2,
           Shelf(log, inbox, receipts, quarantine),
           Enlists(inbox, receipts, s, inbox2, receipts2),
           Admits(log, inbox, receipts, s)
    PROVE  /\ Shelf(log, inbox2, receipts2, quarantine)
           /\ inbox2 = inbox \/ inbox2 = Append(inbox, s)
           /\ log[s].kind = "event" /\ (\E r \in receipts : r.occ = log[s].occ)
                => inbox2 = inbox
<1>1. CASE \E r \in receipts : r.occ = log[s].occ
  <2>1. inbox2 = inbox /\ receipts2 = receipts
    BY Zenon, <1>1 DEF Enlists
  <2> QED
    BY Zenon, <2>1
<1>2. CASE ~\E r \in receipts : r.occ = log[s].occ
  <2>1. inbox2 = Append(inbox, s) /\ receipts2 = receipts \cup {Receipt(s)}
    BY Zenon, <1>2 DEF Enlists
  <2>2. Receipt(s).occ = log[s].occ
    BY Zenon DEF Receipt
  <2>3. ASSUME NEW i \in DOMAIN inbox
        PROVE  RowPair(log, inbox[i], s)
    <3>1. /\ inbox[i] \in Nat /\ s \in Nat
      BY DEF Upto
    <3>2. CASE log[inbox[i]].kind = "durable_response"
      <4>1. log[s].kind = "poison" \/ inbox[i] < s
        BY Zenon, <1>2, <3>2 DEF Below, Admits
      <4> QED
        BY Zenon, <3>1, <3>2, <4>1 DEF RowPair, Admits
    <3>3. CASE /\ log[inbox[i]].kind \in {"event", "poison"}
               /\ \E r \in receipts : r.occ = log[inbox[i]].occ
      <4>1. log[inbox[i]].occ # log[s].occ /\ inbox[i] # s
        BY Zenon, <1>2, <3>3
      <4>2. \/ log[s].kind = "poison" \/ log[inbox[i]].kind = "poison"
            \/ inbox[i] < s
        BY Zenon, <1>2 DEF Below, Admits
      <4> QED
        BY Zenon, <4>1, <4>2 DEF RowPair
    <3> QED
      BY Zenon, <3>2, <3>3 DEF Shelf, Backed
  <2>4. InOrder(log, inbox2)
    BY ZenonT(60), <2>1, <2>3, RowJoins DEF Shelf
  <2>5. Backed(log, inbox2, receipts2)
    <3>0. log[s].kind \in {"event", "poison"}
      BY Zenon DEF Admits
    <3>1. /\ DOMAIN inbox2 = DOMAIN inbox \cup {Len(inbox) + 1}
          /\ inbox2[Len(inbox) + 1] = s
          /\ \A i \in DOMAIN inbox : inbox2[i] = inbox[i]
      BY <2>1
    <3>2. \E r \in receipts2 : r.occ = log[s].occ
      BY Zenon, <2>1, <2>2
    <3> QED
      BY <2>1, <3>0, <3>1, <3>2 DEF Shelf, Backed
  <2>6. Evidence(log, quarantine, receipts2)
    BY Zenon, <2>1 DEF Shelf, Evidence
  <2> QED
    BY ZenonT(60), <1>2, <2>1, <2>4, <2>5, <2>6 DEF Shelf
<1> QED
  BY Zenon, <1>1, <1>2

\* A response joins the rows below it.
LEMMA ShelfResponds ==
    ASSUME NEW l, NEW n \in Nat, NEW inbox \in Seq(Upto(n)), NEW receipts,
           NEW quarantine, NEW s \in Upto(n), l[s].kind = "durable_response",
           Shelf(l, inbox, receipts, quarantine), Below(l, inbox, s),
           NEW inbox2, inbox2 = Append(inbox, s)
    PROVE  Shelf(l, inbox2, receipts, quarantine)
<1>1. ASSUME NEW i \in DOMAIN inbox
      PROVE  RowPair(l, inbox[i], s)
  <2>1. inbox[i] \in Nat /\ s \in Nat
    BY DEF Upto
  <2>2. CASE l[inbox[i]].kind = "poison"
    BY Zenon, <2>2 DEF RowPair
  <2>3. CASE l[inbox[i]].kind # "poison"
    BY <2>1, <2>3 DEF RowPair, Below
  <2> QED
    BY Zenon, <2>2, <2>3
<1>2. InOrder(l, inbox2)
  BY ZenonT(60), <1>1, RowJoins DEF Shelf
<1>3. Backed(l, inbox2, receipts)
  <2>1. /\ DOMAIN inbox2 = DOMAIN inbox \cup {Len(inbox) + 1}
        /\ inbox2[Len(inbox) + 1] = s
        /\ \A i \in DOMAIN inbox : inbox2[i] = inbox[i]
    OBVIOUS
  <2> QED
    BY <2>1 DEF Shelf, Backed
<1> QED
  BY Zenon, <1>2, <1>3 DEF Shelf

\* A row below the bound, or poison, leaves the rest as it was.
LEMMA BelowJoins ==
    ASSUME NEW l, NEW n \in Nat, NEW inbox \in Seq(Upto(n)), NEW s, NEW bound,
           Below(l, inbox, bound), l[s].kind # "poison" => s < bound,
           NEW inbox2, inbox2 = inbox \/ inbox2 = Append(inbox, s)
    PROVE  Below(l, inbox2, bound)
<1>1. CASE inbox2 = inbox
  BY Zenon, <1>1
<1>2. CASE inbox2 = Append(inbox, s)
  <2>1. /\ DOMAIN inbox2 = DOMAIN inbox \cup {Len(inbox) + 1}
        /\ inbox2[Len(inbox) + 1] = s
        /\ \A i \in DOMAIN inbox : inbox2[i] = inbox[i]
    BY <1>2
  <2> QED
    BY Zenon, <2>1 DEF Below
<1> QED
  BY Zenon, <1>1, <1>2

LEMMA BelowRises ==
    ASSUME NEW l, NEW n \in Nat, NEW inbox \in Seq(Upto(n)),
           NEW a \in Nat, NEW b \in Nat, a <= b, Below(l, inbox, a)
    PROVE  Below(l, inbox, b)
<1>1. ASSUME NEW i \in DOMAIN inbox, inbox[i] < a
      PROVE  inbox[i] < b
  <2>1. inbox[i] \in Nat
    BY DEF Upto
  <2> QED
    BY <1>1, <2>1
<1> QED
  BY Zenon, <1>1 DEF Below

-----------------------------------------------------------------------------
\* The open transaction has been through s.
LEMMA StepShelves ==
    ASSUME IngressInv, RowsInv, NEW s, Dispatching(s),
           UNCHANGED <<log, pc, db, part>>, tx'.todo = tx.todo \ {s},
           tx'.inbox = tx.inbox \/ tx'.inbox = Append(tx.inbox, s),
           Shelf(log, tx'.inbox, tx'.receipts, tx'.quarantine)
    PROVE  RowsInv'
<1>1. /\ pc = "fold" /\ s \in tx.todo /\ s \in part.durables
      /\ \A x \in tx.todo : s <= x
      /\ tx \in Txs(Len(log)) /\ part.durables \subseteq Upto(Len(log))
  BY Zenon, TodoOf
<1>2. Len(log) \in Nat /\ tx.inbox \in Seq(Upto(Len(log)))
  BY <1>1 DEF IngressInv, TypeInv, Txs
<1>3. ShelfInv'
  BY Zenon DEF RowsInv, ShelfInv
<1>4. tx.todo \subseteq Nat
  BY <1>1 DEF Txs, Upto
<1>5. s < part.next
  BY Zenon, <1>1 DEF IngressInv, BatchInv, Batch
<1>6. Below(log, tx'.inbox, part.next)
  BY Zenon, <1>1, <1>2, <1>5, BelowJoins DEF RowsInv, OpenShelfInv
<1>7. ASSUME NEW x \in tx'.todo
      PROVE  Below(log, tx'.inbox, x)
  <2>1. x \in tx.todo /\ x # s /\ s <= x /\ x \in Nat /\ s \in Nat
    BY Zenon, <1>1, <1>4, <1>7
  <2>2. s < x
    BY <2>1
  <2>3. Below(log, tx.inbox, x)
    BY Zenon, <1>1, <2>1 DEF RowsInv, OpenShelfInv
  <2> QED
    BY Zenon, <1>2, <2>2, <2>3, BelowJoins
<1> QED
  BY Zenon, <1>3, <1>6, <1>7 DEF RowsInv, OpenShelfInv

\* dispatchBatch.
LEMMA DispatchShelves ==
    ASSUME IngressInv, RowsInv,
           \/ SkipEnvelope \/ DispatchDurable \/ DispatchMemory
           \/ DispatchResponse \/ QuarantinePoison
    PROVE  RowsInv'
<1>s. pc = "fold" /\ Shelf(log, tx.inbox, tx.receipts, tx.quarantine)
      /\ \A s \in tx.todo : Below(log, tx.inbox, s)
  BY Zenon DEF SkipEnvelope, DispatchDurable, DispatchMemory, DispatchResponse,
         QuarantinePoison, Dispatching, RowsInv, OpenShelfInv
<1>1. CASE SkipEnvelope \/ DispatchMemory
  <2>1. PICK s \in Seqs : Dispatching(s) /\ (tx' = Done(tx, s) \/ tx' = tx)
    BY Zenon, <1>1 DEF SkipEnvelope, DispatchMemory
  <2>2. UNCHANGED <<log, pc, db, part>>
    BY Zenon, <1>1 DEF SkipEnvelope, DispatchMemory, loopVars
  <2>3. CASE tx' = tx
    BY Zenon, <2>2, <2>3 DEF RowsInv, ShelfInv, OpenShelfInv
  <2>4. CASE tx' = Done(tx, s)
    <3>1. /\ tx'.todo = tx.todo \ {s} /\ tx'.inbox = tx.inbox
          /\ tx'.receipts = tx.receipts /\ tx'.quarantine = tx.quarantine
      BY <2>1, <2>4, DispatchIs, DoneIs
    <3> QED
      BY ZenonT(60), <1>s, <2>1, <2>2, <3>1, StepShelves
  <2> QED
    BY ZenonT(60), <2>1, <2>3, <2>4
<1>2. CASE DispatchDurable
  <2>1. PICK s \in Seqs : /\ Dispatching(s) /\ log[s].kind \in {"event", "poison"}
                          /\ tx' = Done(EnqueueOnce(tx, s), s)
    BY <1>2 DEF DispatchDurable, Kind
  <2>2. UNCHANGED <<log, pc, db, part>>
    BY Zenon, <1>2 DEF DispatchDurable, loopVars
  <2> SUFFICES ASSUME NEW t, t = EnqueueOnce(tx, s)
               PROVE  RowsInv'
    OBVIOUS
  <2>d. /\ Len(log) \in Nat /\ log \in Seq(Envelope) /\ s \in tx.todo
        /\ s \in Upto(Len(log)) /\ tx \in Txs(Len(log))
    BY ZenonT(60), <2>1, DispatchIs
  <2>3. TxFiles(Len(log), tx, s, t)
    BY <2>1, DispatchIs, TxEnqueues
  <2>4. /\ t \in Txs(Len(log)) /\ t.todo = tx.todo
        /\ t.quarantine = tx.quarantine
        /\ Enlists(tx.inbox, tx.receipts, s, t.inbox, t.receipts)
    BY Zenon, <2>3 DEF TxFiles
  <2>5. /\ tx'.todo = tx.todo \ {s} /\ tx'.inbox = t.inbox
        /\ tx'.receipts = t.receipts /\ tx'.quarantine = tx.quarantine
    BY <2>1, <2>4, DoneIs
  <2>6. /\ Shelf(log, t.inbox, t.receipts, tx.quarantine)
        /\ t.inbox = tx.inbox \/ t.inbox = Append(tx.inbox, s)
    <3>1. Below(log, tx.inbox, s) /\ tx.inbox \in Seq(Upto(Len(log)))
      BY Zenon, <1>s, <2>d DEF Txs
    <3>2. Admits(log, tx.inbox, tx.receipts, s)
      BY Zenon, <2>1, <3>1 DEF Admits
    <3> QED
      BY <1>s, <2>4, <2>d, <3>1, <3>2, ShelfEnlists
  <2> QED
    BY ZenonT(60), <2>1, <2>2, <2>5, <2>6, StepShelves
<1>3. CASE DispatchResponse
  <2>1. PICK s \in Seqs :
          /\ Dispatching(s)
          /\ \/ tx' = Done(tx, s)
             \/ log[s].kind = "durable_response" /\ tx' = Done(Enqueue(tx, s), s)
    BY Zenon, <1>3 DEF DispatchResponse, Kind
  <2>2. UNCHANGED <<log, pc, db, part>>
    BY Zenon, <1>3 DEF DispatchResponse, loopVars
  <2>d. /\ Len(log) \in Nat /\ s \in tx.todo
        /\ s \in Upto(Len(log)) /\ tx \in Txs(Len(log))
    BY Zenon, <2>1, DispatchIs
  <2>3. CASE tx' = Done(tx, s)
    <3>1. /\ tx'.todo = tx.todo \ {s} /\ tx'.inbox = tx.inbox
          /\ tx'.receipts = tx.receipts /\ tx'.quarantine = tx.quarantine
      BY <2>3, <2>d, DoneIs
    <3> QED
      BY ZenonT(60), <1>s, <2>1, <2>2, <3>1, StepShelves
  <2>4. CASE log[s].kind = "durable_response" /\ tx' = Done(Enqueue(tx, s), s)
    <3> SUFFICES ASSUME NEW inbox2, inbox2 = Append(tx.inbox, s)
                 PROVE  RowsInv'
      BY Zenon
    <3>1. Below(log, tx.inbox, s) /\ tx.inbox \in Seq(Upto(Len(log)))
      BY Zenon, <1>s, <2>d DEF Txs
    <3>2. Shelf(log, inbox2, tx.receipts, tx.quarantine)
      BY ZenonT(60), <1>s, <2>4, <2>d, <3>1, ShelfResponds
    <3>3. tx' = Done([tx EXCEPT !.inbox = inbox2], s)
      BY Zenon, <2>4 DEF Enqueue
    <3>4. /\ tx'.todo = tx.todo \ {s} /\ tx'.inbox = inbox2
          /\ tx'.receipts = tx.receipts /\ tx'.quarantine = tx.quarantine
      BY Zenon, <2>d, <3>3 DEF Done, Txs
    <3> QED
      BY ZenonT(60), <2>1, <2>2, <3>2, <3>4, StepShelves
  <2> QED
    BY Zenon, <2>1, <2>3, <2>4
<1>4. CASE QuarantinePoison
  <2>1. PICK s \in Seqs :
          /\ Dispatching(s)
          /\ \/ log[s].kind \in {"poison", "memory_poison"}
             \/ log[s].kind = "event" /\ \E r \in tx.receipts : r.occ = log[s].occ
          /\ \/ Abandon
             \/ /\ tx' = Done(QuarantineIngress(tx, s), s)
                /\ UNCHANGED <<part, pc>>
    BY Zenon, <1>4 DEF QuarantinePoison, Readable, Kind, Mismatch, Consumed
  <2>2. UNCHANGED <<log, db>>
    BY Zenon, <1>4 DEF QuarantinePoison
  <2>3. CASE Abandon
    BY Zenon, <2>2, <2>3 DEF Abandon, RowsInv, ShelfInv, OpenShelfInv
  <2>4. CASE /\ tx' = Done(QuarantineIngress(tx, s), s)
             /\ UNCHANGED <<part, pc>>
    <3>1. tx \in Txs(Len(log))
      BY Zenon, <2>1, DispatchIs
    <3>2. /\ tx'.todo = tx.todo \ {s} /\ tx'.inbox = tx.inbox
          /\ tx'.receipts = tx.receipts
          /\ tx'.quarantine = tx.quarantine \cup {s}
      BY Zenon, <2>4, <3>1 DEF Done, QuarantineIngress, Txs
    <3>3. Evidence(log, tx.quarantine \cup {s}, tx.receipts)
      BY Zenon, <1>s, <2>1 DEF Shelf, Evidence
    <3>4. Shelf(log, tx'.inbox, tx'.receipts, tx'.quarantine)
      BY Zenon, <1>s, <3>2, <3>3 DEF Shelf
    <3> QED
      BY ZenonT(60), <2>1, <2>2, <2>4, <3>2, <3>4, StepShelves
  <2> QED
    BY Zenon, <2>1, <2>3, <2>4
<1> QED
  BY Zenon, <1>1, <1>2, <1>3, <1>4

\* What leaves quarantine for an inbox is poison that has become readable.
LEMMA RetryShelves ==
    ASSUME IngressInv, RowsInv, RetryQuarantined
    PROVE  RowsInv'
<1> SUFFICES ASSUME NEW s, s = Lowest(part.durables)
             PROVE  RowsInv'
  BY Zenon
<1>a. /\ pc = "recover" /\ pc' = pc /\ log' = log
      /\ part' = [part EXCEPT !.durables = part.durables \ {s}]
      /\ part.durables # {}
  BY Zenon DEF RetryQuarantined
<1>b. /\ Len(log) \in Nat /\ log \in Seq(Envelope) /\ db \in Stores(Len(log))
      /\ part \in Parts(Len(log)) /\ Receipted(log, db.inbox, db.receipts)
  BY DEF IngressInv, TypeInv, StoreInv
<1>c. s \in part.durables /\ s \in Upto(Len(log))
  BY Zenon, <1>a, <1>b, LowestIs DEF Parts
<1>d. part'.durables = part.durables \ {s}
  BY Zenon, <1>a, <1>b DEF Parts
<1>e. /\ Shelf(log, db.inbox, db.receipts, db.quarantine)
      /\ Below(log, db.inbox, db.ack.pull) /\ part.durables \subseteq db.quarantine
  BY Zenon, <1>a DEF RowsInv, ShelfInv
<1>f. OpenShelfInv'
  BY Zenon, <1>a DEF OpenShelfInv
<1>1. CASE db' = db
  BY ZenonT(60), <1>a, <1>d, <1>e, <1>f, <1>1 DEF RowsInv, ShelfInv
<1>2. CASE /\ ~ToMemory(s)
           /\ db' = EnqueueOnce([db EXCEPT !.quarantine = @ \ {s}], s)
  <2> SUFFICES ASSUME NEW freed, freed = [db EXCEPT !.quarantine = @ \ {s}]
               PROVE  RowsInv'
    BY Zenon
  <2>1. /\ freed \in Stores(Len(log)) /\ freed.ack = db.ack
        /\ freed.inbox = db.inbox /\ freed.receipts = db.receipts
        /\ freed.quarantine = db.quarantine \ {s}
    BY Zenon, <1>b DEF Stores
  <2>2. Receipted(log, freed.inbox, freed.receipts)
    BY Zenon, <1>b, <2>1
  <2>3. StoreFiles(Len(log), freed, s, db')
    BY ZenonT(60), <1>b, <1>c, <1>2, <2>1, <2>2, StoreEnqueues
  <2>4. /\ db'.ack = db.ack /\ db'.quarantine = db.quarantine \ {s}
        /\ Enlists(db.inbox, db.receipts, s, db'.inbox, db'.receipts)
    BY Zenon, <2>1, <2>3 DEF StoreFiles
  <2>5. \/ log[s].kind = "poison"
        \/ log[s].kind = "event" /\ \E r \in db.receipts : r.occ = log[s].occ
    BY Zenon, <1>2, <1>c, <1>e DEF Shelf, Evidence, ToMemory, Kind
  <2>a. Admits(log, db.inbox, db.receipts, s)
    BY Zenon, <2>5 DEF Admits
  <2>6. Shelf(log, db.inbox, db.receipts, db.quarantine \ {s})
    BY Zenon, <1>e DEF Shelf, Evidence
  <2>7. db.inbox \in Seq(Upto(Len(log)))
    BY Zenon, <1>b DEF Stores
  <2>8. /\ Shelf(log, db'.inbox, db'.receipts, db.quarantine \ {s})
        /\ db'.inbox = db.inbox \/ db'.inbox = Append(db.inbox, s)
        /\ log[s].kind = "event" => db'.inbox = db.inbox
    <3>1. /\ Shelf(log, db'.inbox, db'.receipts, db.quarantine \ {s})
          /\ db'.inbox = db.inbox \/ db'.inbox = Append(db.inbox, s)
          /\ log[s].kind = "event" /\ (\E r \in db.receipts : r.occ = log[s].occ)
               => db'.inbox = db.inbox
      BY <1>b, <1>c, <2>4, <2>a, <2>6, <2>7, ShelfEnlists
    <3> QED
      BY Zenon, <2>5, <3>1
  <2>9. Below(log, db'.inbox, db.ack.pull)
    <3>1. CASE log[s].kind = "poison"
      BY ZenonT(60), <1>b, <1>e, <2>7, <2>8, <3>1, BelowJoins
    <3>2. CASE log[s].kind = "event"
      BY Zenon, <1>e, <2>8, <3>2
    <3> QED
      BY Zenon, <2>5, <3>1, <3>2
  <2> QED
    BY ZenonT(60), <1>a, <1>d, <1>e, <1>f, <2>4, <2>8, <2>9
    DEF RowsInv, ShelfInv
<1> QED
  BY Zenon, <1>1, <1>2 DEF RetryQuarantined

\* A new envelope is past every row.
LEMMA PostShelves ==
    ASSUME IngressInv, RowsInv, Post
    PROVE  RowsInv'
<1> DEFINE n == Len(log)
<1>1. UNCHANGED <<db, pc, part, tx>>
  BY Zenon DEF Post, loopVars, txVars
<1>2. PICK e : log' = Append(log, e)
  BY DEF Post
<1>3. log \in Seq(Envelope) /\ \A s \in Upto(n) : log'[s] = log[s]
  BY <1>2 DEF IngressInv, TypeInv, Upto
<1>4. /\ db.inbox \in Seq(Upto(n)) /\ db.quarantine \subseteq Upto(n)
      /\ tx.inbox \in Seq(Upto(n)) /\ tx.quarantine \subseteq Upto(n)
  BY Zenon DEF IngressInv, TypeInv, Stores, Txs
<1> HIDE DEF n
<1>5. ASSUME NEW inbox \in Seq(Upto(n)), NEW i \in DOMAIN inbox
      PROVE  log'[inbox[i]] = log[inbox[i]]
  BY <1>3
<1>6. ASSUME NEW inbox \in Seq(Upto(n)), NEW receipts,
             NEW quarantine \in SUBSET Upto(n),
             Shelf(log, inbox, receipts, quarantine)
      PROVE  Shelf(log', inbox, receipts, quarantine)
  <2>1. InOrder(log', inbox)
    BY <1>5, <1>6 DEF Shelf, InOrder, RowPair
  <2>2. Backed(log', inbox, receipts)
    BY Zenon, <1>5, <1>6 DEF Shelf, Backed
  <2>3. Evidence(log', quarantine, receipts)
    BY Zenon, <1>3, <1>6 DEF Shelf, Evidence
  <2> QED
    BY ZenonT(60), <2>1, <2>2, <2>3 DEF Shelf
<1>7. ASSUME NEW inbox \in Seq(Upto(n)), NEW bound, Below(log, inbox, bound)
      PROVE  Below(log', inbox, bound)
  BY Zenon, <1>5, <1>7 DEF Below
<1>8. ShelfInv'
  BY Zenon, <1>1, <1>4, <1>6, <1>7 DEF RowsInv, ShelfInv
<1>9. OpenShelfInv'
  BY Zenon, <1>1, <1>4, <1>6, <1>7 DEF RowsInv, OpenShelfInv
<1> QED
  BY Zenon, <1>8, <1>9 DEF RowsInv

\* The transaction starts from the committed rows, which are below the batch.
LEMMA OpenShelves ==
    ASSUME IngressInv, HandInv, RowsInv, BeginFold \/ ReplayFold
    PROVE  RowsInv'
<1>1. /\ pc \in {"serve", "fold"} /\ pc' = "fold" /\ tx' = OpenTx
      /\ UNCHANGED <<log, db, ack, part>>
  BY Zenon DEF BeginFold, ReplayFold, loopVars
<1>2. /\ tx'.inbox = db.inbox /\ tx'.receipts = db.receipts
      /\ tx'.quarantine = db.quarantine /\ tx'.todo = part.durables
  BY Zenon, <1>1 DEF OpenTx
<1>3. /\ db.inbox \in Seq(Upto(Len(log))) /\ Len(log) \in Nat
      /\ part.durables \subseteq Nat /\ part.next \in Nat /\ ack.pull \in Nat
  BY DEF IngressInv, TypeInv, Stores, Parts, AckStates, Upto
<1>4. /\ ack.pull = db.ack.pull /\ ack.pull <= part.next
      /\ \A s \in part.durables : ack.pull <= s
  BY Zenon, <1>1
  DEF IngressInv, CursorInv, Level, BatchInv, Batch, HandInv, FreshInv
<1>5. Shelf(log, db.inbox, db.receipts, db.quarantine)
      /\ Below(log, db.inbox, ack.pull)
  BY Zenon, <1>4 DEF RowsInv, ShelfInv
<1>6. Below(log, db.inbox, part.next)
  BY Zenon, <1>3, <1>4, <1>5, BelowRises
<1>7. ASSUME NEW s \in part.durables
      PROVE  Below(log, db.inbox, s)
  BY Zenon, <1>3, <1>4, <1>5, BelowRises
<1>8. ShelfInv'
  BY Zenon, <1>1 DEF RowsInv, ShelfInv
<1>9. OpenShelfInv'
  BY Zenon, <1>1, <1>2, <1>5, <1>6, <1>7 DEF OpenShelfInv
<1> QED
  BY Zenon, <1>8, <1>9 DEF RowsInv

\* Committed rows are below the new cursor: a deferral stops at an envelope
\* that the transaction has not been through.
LEMMA CommitShelves ==
    ASSUME IngressInv, HandInv, RowsInv, CommitFold
    PROVE  RowsInv'
<1> SUFFICES ASSUME NEW cursor,
                    cursor = IF deferral # 0 THEN deferredCursor(deferral, ack.pull)
                             ELSE part.next
             PROVE  RowsInv'
  BY Zenon
<1>1. pc = "fold" /\ pc' = "top" /\ log' = log
  BY Zenon DEF CommitFold
<1>2. /\ ack'.pull = cursor
      /\ db' = [ack |-> ack', inbox |-> tx.inbox, receipts |-> tx.receipts,
                quarantine |-> tx.quarantine]
  BY Zenon, CommitIs, ZenonT(60)
<1>3. /\ Shelf(log, tx.inbox, tx.receipts, tx.quarantine)
      /\ Below(log, tx.inbox, part.next)
      /\ \A s \in tx.todo : Below(log, tx.inbox, s)
  BY Zenon, <1>1 DEF RowsInv, OpenShelfInv
<1>4. Below(log, tx.inbox, cursor)
  <2>1. CASE deferral = 0
    BY Zenon, <1>3, <2>1
  <2>2. CASE deferral # 0
    <3>1. /\ deferral \in tx.todo /\ deferral \in part.durables
      BY Zenon, <1>1, <2>2 DEF IngressInv, FoldInv
    <3>2. ack.pull <= deferral /\ ack.pull \in Nat /\ deferral \in Nat
      BY <1>1, <3>1 DEF HandInv, FreshInv, IngressInv, TypeInv, AckStates
    <3>3. cursor = deferral
      BY <2>2, <3>2 DEF deferredCursor
    <3> QED
      BY Zenon, <1>3, <3>1, <3>3
  <2> QED
    BY Zenon, <2>1, <2>2
<1>5. ShelfInv'
  BY Zenon, <1>1, <1>2, <1>3, <1>4 DEF ShelfInv
<1>6. OpenShelfInv'
  BY Zenon, <1>1 DEF OpenShelfInv
<1> QED
  BY Zenon, <1>5, <1>6 DEF RowsInv

\* Every other step leaves the rows alone.
LEMMA IdleShelves ==
    ASSUME RowsInv, UNCHANGED log, db'.inbox = db.inbox, db'.receipts = db.receipts,
           db'.quarantine = db.quarantine, db'.ack.pull = db.ack.pull,
           \/ UNCHANGED <<pc, part, tx>>
           \/ pc' \notin {"recover", "fold"}
           \/ pc' = "recover" /\ part'.durables \subseteq db.quarantine
    PROVE  RowsInv'
<1>1. ShelfInv'
  BY Zenon DEF RowsInv, ShelfInv
<1>2. OpenShelfInv'
  BY Zenon DEF RowsInv, OpenShelfInv
<1> QED
  BY Zenon, <1>1, <1>2 DEF RowsInv

LEMMA RowsStep ==
    ASSUME IngressInv, HandInv, RowsInv, [Next]_vars
    PROVE  RowsInv'
<1>t. db \in Stores(Len(log)) /\ part \in Parts(Len(log))
  BY Zenon DEF IngressInv, TypeInv
<1>1. CASE Post
  BY Zenon, <1>1, PostShelves
<1>2. CASE RetryQuarantined
  BY <1>2, RetryShelves
<1>3. CASE RecheckCompat
  <2>1. /\ UNCHANGED <<log, db>>
        /\ \/ pc' = "recover" /\ part' = [part EXCEPT !.durables = db.quarantine]
           \/ pc' = "stopped"
    BY Zenon, <1>3 DEF RecheckCompat
  <2>2. CASE pc' = "recover" /\ part' = [part EXCEPT !.durables = db.quarantine]
    <3>1. part'.durables = db.quarantine
      BY Zenon, <1>t, <2>2 DEF Parts
    <3> QED
      BY Zenon, <2>1, <2>2, <3>1, IdleShelves
  <2> QED
    BY Zenon, <2>1, <2>2, IdleShelves
<1>4. CASE PullEmpty
  <2>1. /\ log' = log /\ pc' = "top"
        /\ db' = db \/ db' = [db EXCEPT !.ack = ack]
    BY Zenon, <1>4 DEF PullEmpty
  <2>2. ack.pull = db.ack.pull
    BY Zenon, <1>4 DEF PullEmpty, IngressInv, CursorInv, Level
  <2>3. /\ db'.inbox = db.inbox /\ db'.receipts = db.receipts
        /\ db'.quarantine = db.quarantine /\ db'.ack.pull = db.ack.pull
    BY Zenon, <1>t, <2>1, <2>2 DEF Stores
  <2> QED
    BY Zenon, <2>1, <2>3, IdleShelves
<1>5. CASE BeginFold \/ ReplayFold
  BY Zenon, <1>5, OpenShelves
<1>6. CASE SkipEnvelope \/ DispatchDurable \/ DispatchMemory
           \/ DispatchResponse \/ QuarantinePoison
  BY Zenon, <1>6, DispatchShelves
<1>7. CASE CommitFold
  BY Zenon, <1>7, CommitShelves
<1>8. CASE \/ StartIngress \/ PublishCancel \/ EnterLoop \/ ExitLoop \/ ackPhase
           \/ PullBatch \/ PullIncompatible \/ deliverWaiterResponses
           \/ dispatchNonTxRequests \/ FailFold \/ Crash
  <2>1. UNCHANGED <<log, db>> /\ pc' \notin {"recover", "fold"}
    BY Zenon, <1>8
    DEF StartIngress, PublishCancel, EnterLoop, ExitLoop, ackPhase,
         PullBatch, PullIncompatible, deliverWaiterResponses,
         dispatchNonTxRequests, ServeFails, FailFold, Abandon, Crash
  <2> QED
    BY Zenon, <2>1, IdleShelves
<1>9. CASE TakeMessage \/ Unary \/ Incompatible \/ UNCHANGED vars
  <2>1. UNCHANGED <<log, db, pc, part, tx>>
    <3>1. CASE TakeMessage
      BY Zenon, <3>1 DEF TakeMessage, loopVars, txVars
    <3>2. CASE Unary
      BY Zenon, <3>2
      DEF Unary, SendRPC, Register, EdgeSend, AwaitRPC, RecheckAwait,
                  Return, PruneStale, CallerStep, loopVars, txVars
    <3>3. CASE Incompatible
      BY Zenon, <3>3 DEF Incompatible, PermanentStatus, CancelIngress, FailAll,
                  loopVars, txVars
    <3>4. CASE UNCHANGED vars
      BY Zenon, <3>4 DEF vars, loopVars, txVars
    <3> QED
      BY ZenonT(60), <1>9, <3>1, <3>2, <3>3, <3>4
  <2> QED
    BY Zenon, <2>1, IdleShelves
<1> QED
  BY ZenonT(60), <1>1, <1>2, <1>3, <1>4, <1>5, <1>6, <1>7, <1>8, <1>9
     DEF Next, Ingress, Start, Fold

(* Whatever crashes, replays, rollbacks and duplicate posts come, a durable *)
(* inbox gets one row per event_seq and per occurrence id, in event_seq     *)
(* order except for what came back out of quarantine.                       *)
THEOREM RowsOnceInOrder == Spec => []DurableOnceInOrder
<1> DEFINE Inv == IngressInv /\ HandInv /\ RowsInv
<1>1. Init => Inv
  <2> SUFFICES ASSUME Init PROVE Inv
    BY Zenon
  <2>1. pc = "down" /\ copies = [s \in Seqs |-> 0] /\ db = EmptyDB
    BY ZenonT(60) DEF Init
  <2>2. HandInv
    BY <2>1 DEF HandInv, FreshInv, CopyInv, EscapedInv
  <2>3. db.inbox = <<>> /\ db.quarantine = {}
    BY Zenon, <2>1 DEF EmptyDB
  <2>4. Shelf(log, db.inbox, db.receipts, db.quarantine)
    BY <2>3 DEF Shelf, InOrder, Backed, Evidence
  <2>5. Below(log, db.inbox, db.ack.pull)
    BY <2>3 DEF Below
  <2>6. RowsInv
    BY Zenon, <2>1, <2>4, <2>5 DEF RowsInv, ShelfInv, OpenShelfInv
  <2>7. IngressInv
    BY IngressInit
  <2> QED
    BY Zenon, <2>2, <2>6, <2>7
<1>2. Inv /\ [Next]_vars => Inv'
  BY Zenon, IngressStep, HandStep, RowsStep
<1>3. Inv => DurableOnceInOrder
  BY Zenon
  DEF RowsInv, ShelfInv, Shelf, InOrder, RowPair, DurableOnceInOrder, Kind
<1> QED
  BY <1>1, <1>2, <1>3, PTL DEF Spec

=============================================================================
