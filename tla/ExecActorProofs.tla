-------------------------- MODULE ExecActorProofs ---------------------------
(***************************************************************************)
(* Proofs about ExecActor, for any set of ids and workers and any bounds.  *)
(***************************************************************************)
EXTENDS ExecActor, TLAPS

\* The solver gets more time than its default.
USE SMTT(30)

(***************************************************************************)
(* The statements of the store map tables to tables.                       *)
(***************************************************************************)
LEMMA EnqueueType ==
    ASSUME NEW m \in MailboxTable, NEW id \in Ids
    PROVE  EnqueueMailboxMessage(m, id) \in MailboxTable
BY Zenon, StoreAssumption DEF MailboxTable, Row, EnqueueMailboxMessage, Present

LEMMA LeaseType ==
    ASSUME NEW m \in MailboxTable, NEW id \in Ids, Present(m, id),
           NEW t \in Tokens
    PROVE  /\ LeaseNextMailboxMessage(m, id, t) \in MailboxTable
           /\ LeaseNextMailboxMessage(m, id, t)[id].attempts = m[id].attempts + 1
           /\ LeaseNextMailboxMessage(m, id, t)[id].token = t
BY DEF MailboxTable, Row, LeaseNextMailboxMessage, Present

LEMMA DeleteType ==
    ASSUME NEW m \in MailboxTable, NEW id \in Ids
    PROVE  DeleteMailboxMessage(m, id) \in MailboxTable
BY Zenon DEF MailboxTable, DeleteMailboxMessage

LEMMA AckType ==
    ASSUME NEW m \in MailboxTable, NEW id \in Ids, NEW t
    PROVE  ackMessage(m, id, t) \in MailboxTable
BY Zenon, DeleteType DEF ackMessage

LEMMA NackType ==
    ASSUME NEW m \in MailboxTable, NEW id \in Ids, NEW t
    PROVE  nackMessage(m, id, t) \in MailboxTable
BY DEF nackMessage, Released, Matches, Present, MailboxTable, Row

LEMMA PostponeType ==
    ASSUME NEW m \in MailboxTable, NEW id \in Ids, NEW t
    PROVE  postponeMessage(m, id, t) \in MailboxTable
BY DEF postponeMessage, Released, Matches, Present, MailboxTable, Row

LEMMA ExtendType ==
    ASSUME NEW m \in MailboxTable, NEW id \in Ids, NEW t
    PROVE  ExtendMailboxLease(m, id, t) \in MailboxTable
BY ZenonT(60) DEF ExtendMailboxLease, Present, MailboxTable, Row

LEMMA TimeType ==
    ASSUME NEW m \in MailboxTable, NEW id \in Ids, Present(m, id)
    PROVE  /\ BackoffEnds(m, id) \in MailboxTable
           /\ LeaseRunsOut(m, id) \in MailboxTable
BY Zenon DEF BackoffEnds, LeaseRunsOut, Present, MailboxTable, Row


-----------------------------------------------------------------------------
(***************************************************************************)
(* Every step keeps the types.  Dispatch lists the actions of Next once,   *)
(* for the invariance proofs to split on.                                  *)
(***************************************************************************)
LEMMA Dispatch ==
    ASSUME Next
    PROVE  \/ \E id \in Ids : Send(id) \/ LeaseExpires(id) \/ BecomesReady(id)
           \/ \E w \in Workers : \E id \in Ids : Claim(w, id)
           \/ \E w \in Workers : HandlePoison(w) \/ SkipDuplicate(w)
           \/ \E w \in Workers : Begin(w) \/ BeginUnchecked(w)
           \/ \E w \in Workers : Heartbeat(w)
           \/ \E w \in Workers : Commit(w)
           \/ \E w \in Workers : Fail(w) \/ Postpone(w) \/ Consume(w)
           \/ \E w \in Workers : MarkProcessed(w) \/ MarkProcessedFails(w)
           \/ \E w \in Workers : Release(w)
           \/ \E w \in Workers : ReleaseFails(w) \/ DeadLetterLost(w)
           \/ Crash
BY Zenon DEF Next, WorkerStep, Fault

\* A worker that is not idle holds the id of a message.
LEMMA HeldId ==
    ASSUME TypeOK, NEW w \in Workers, worker[w].pc # "idle"
    PROVE  worker[w].msg \in Ids
BY Zenon DEF TypeOK, Delivery

LEMMA IdleDelivery == Idle \in Delivery
BY Zenon DEF Idle, Delivery

LEMMA TypeInit == Init => TypeOK
BY DEF Init, TypeOK, EmptyMailbox, MailboxTable, Idle, Delivery

LEMMA TypeStep == TypeOK /\ [Next]_vars => TypeOK'
<1> SUFFICES ASSUME TypeOK, [Next]_vars PROVE TypeOK'
  BY Zenon
<1> USE ActorAssumption, IdleDelivery
<1>1. ASSUME NEW id \in Ids, Send(id) \/ LeaseExpires(id) \/ BecomesReady(id)
      PROVE  TypeOK'
  <2>1. mailbox' \in MailboxTable
    BY <1>1, EnqueueType, TimeType
       DEF TypeOK, Send, LeaseExpires, BecomesReady
  <2>2. QED BY <1>1, <2>1 DEF TypeOK, Send, LeaseExpires, BecomesReady
<1>2. ASSUME NEW w \in Workers, NEW id \in Ids, Claim(w, id) PROVE TypeOK'
  <2>1. Present(mailbox, id)
    BY Zenon, <1>2 DEF Claim, IsNext, Eligible
  <2>2. mailbox' \in MailboxTable
    BY Zenon, <1>2, <2>1, LeaseType DEF TypeOK, Claim
  <2>3. mailbox'[id].attempts \in Nat
    BY <1>2, <2>1, LeaseType DEF TypeOK, Claim, MailboxTable, Row, Present
  <2>4. QED BY Zenon, <1>2, <2>2, <2>3 DEF TypeOK, Claim, Delivery
<1>3. ASSUME NEW w \in Workers, HandlePoison(w) \/ SkipDuplicate(w)
      PROVE  TypeOK'
  <2>1. worker[w].msg \in Ids
    BY Zenon, <1>3, HeldId DEF HandlePoison, SkipDuplicate
  <2>2. mailbox' \in MailboxTable /\ dead' \subseteq Ids
    BY <1>3, <2>1, DeleteType, NackType, AckType
       DEF TypeOK, HandlePoison, SkipDuplicate, DeadLettersAfterMove
  <2>3. QED BY <1>3, <2>1, <2>2
       DEF TypeOK, HandlePoison, SkipDuplicate, Delivery, Idle
<1>4. ASSUME NEW w \in Workers, Begin(w) \/ BeginUnchecked(w) PROVE TypeOK'
  BY <1>4 DEF TypeOK, Begin, BeginUnchecked, Delivery
<1>5. ASSUME NEW w \in Workers, Heartbeat(w) PROVE TypeOK'
  <2>1. mailbox' \in MailboxTable
    BY Zenon, <1>5, HeldId, ExtendType DEF TypeOK, Heartbeat
  <2>2. QED BY Zenon, <1>5, <2>1 DEF TypeOK, Heartbeat
<1>6. ASSUME NEW w \in Workers, Commit(w) PROVE TypeOK'
  <2>1. worker[w].msg \in Ids
    BY Zenon, <1>6, HeldId DEF Commit
  <2>2. mailbox' \in MailboxTable
    BY <1>6, <2>1, AckType DEF TypeOK, Commit
  <2>3. QED BY <1>6, <2>1, <2>2 DEF TypeOK, Commit, ReturnError, Delivery, Idle
<1>7. ASSUME NEW w \in Workers, Fail(w) \/ Postpone(w) \/ Consume(w)
      PROVE  TypeOK'
  <2>1. worker[w].msg \in Ids
    BY Zenon, <1>7, HeldId DEF Fail, Postpone, Consume
  <2>2. QED BY <1>7, <2>1
       DEF TypeOK, Fail, Postpone, Consume, ReturnError, Delivery
<1>8. ASSUME NEW w \in Workers, MarkProcessed(w) \/ MarkProcessedFails(w)
      PROVE  TypeOK'
  <2>1. worker[w].msg \in Ids
    BY Zenon, <1>8, HeldId DEF MarkProcessed, MarkProcessedFails
  <2>2. QED BY <1>8, <2>1
  DEF TypeOK, MarkProcessed, MarkProcessedFails, Delivery
<1>9. ASSUME NEW w \in Workers, Release(w) PROVE TypeOK'
  <2>1. worker[w].msg \in Ids
    BY Zenon, <1>9, HeldId DEF Release
  <2>2. mailbox' \in MailboxTable
    BY <1>9, <2>1, AckType, PostponeType, NackType, DeleteType
       DEF TypeOK, Release, ReleaseOk, ReleasePostpone, ReleaseRetry,
           ReleaseGiveUp
  <2>3. dead' \subseteq Ids
    BY Zenon, <1>9, <2>1 DEF TypeOK, Release, ReleaseOk, ReleasePostpone,
           ReleaseRetry, ReleaseGiveUp, DeadLettersAfterMove
  <2>4. QED BY Zenon, <1>9, <2>2, <2>3 DEF TypeOK, Release, Idle
<1>10. ASSUME NEW w \in Workers, ReleaseFails(w) \/ DeadLetterLost(w)
       PROVE  TypeOK'
  <2>1. worker[w].msg \in Ids
    BY Zenon, <1>10, HeldId DEF ReleaseFails, DeadLetterLost
  <2>2. mailbox' \in MailboxTable
    BY <1>10, <2>1, DeleteType DEF TypeOK, ReleaseFails, DeadLetterLost
  <2>3. /\ worker' = [worker EXCEPT ![w] = Idle] /\ faults' = faults + 1
        /\ UNCHANGED <<processed, dead, applied, sends, consumed, gaveUp, postpones>>
    BY Zenon, <1>10 DEF ReleaseFails, DeadLetterLost
  <2>4. QED BY <2>2, <2>3 DEF TypeOK, Idle
<1>11. ASSUME Crash PROVE TypeOK'
  BY <1>11 DEF TypeOK, Crash, Idle
<1>12. ASSUME UNCHANGED vars PROVE TypeOK'
  BY Zenon, <1>12 DEF TypeOK, vars
<1>13. QED
  BY Zenon, <1>1, <1>2, <1>3, <1>4, <1>5, <1>6, <1>7, <1>8, <1>9, <1>10, <1>11,
     <1>12, Dispatch

\* Every reachable state of the actor and its tables is well typed, and a
\* worker holds a message exactly while it is out of the claim loop.
THEOREM TypeCorrect == Spec => []TypeOK
BY TypeInit, TypeStep, PTL DEF Spec

-----------------------------------------------------------------------------
(***************************************************************************)
(* What the statements do to rows: SameRows says that no row comes or      *)
(* goes, Gone that exactly the row of id goes.                             *)
(***************************************************************************)
SameRows(m, n) == \A i \in Ids : Present(n, i) <=> Present(m, i)

Gone(m, n, id) ==
    /\ Present(m, id) /\ ~Present(n, id)
    /\ \A i \in Ids \ {id} : n[i] = m[i]

LEMMA RowIsPresent == \A r \in Row : r # NoRow
BY Zenon, NoRowAssumption

LEMMA ReplacedRow ==
    ASSUME NEW m \in MailboxTable, NEW id \in Ids, Present(m, id), NEW r \in Row
    PROVE  SameRows(m, [m EXCEPT ![id] = r])
BY Zenon, RowIsPresent DEF SameRows, Present, MailboxTable

LEMMA DeleteEffect ==
    ASSUME NEW m \in MailboxTable, NEW id \in Ids
    PROVE  /\ Present(m, id) => Gone(m, DeleteMailboxMessage(m, id), id)
           /\ ~Present(m, id) => SameRows(m, DeleteMailboxMessage(m, id))
BY Zenon DEF DeleteMailboxMessage, Gone, SameRows, Present, MailboxTable

LEMMA AckEffect ==
    ASSUME NEW m \in MailboxTable, NEW id \in Ids, NEW t
    PROVE  /\ Matches(m, id, t) => Gone(m, ackMessage(m, id, t), id)
           /\ ~Matches(m, id, t) => SameRows(m, ackMessage(m, id, t))
<1>1. Matches(m, id, t) => Present(m, id)
  BY Zenon DEF Matches
<1>2. SameRows(m, m)
  BY Zenon DEF SameRows
<1>3. QED BY Zenon, <1>1, <1>2, DeleteEffect DEF ackMessage

LEMMA ReleasedType == \A n \in Nat : Released(n) \in Row
BY Zenon DEF Released, Row

LEMMA NackEffect ==
    ASSUME NEW m \in MailboxTable, NEW id \in Ids, NEW t
    PROVE  SameRows(m, nackMessage(m, id, t))
<1>1. CASE Matches(m, id, t)
  <2> DEFINE n == IF t = NoToken THEN m[id].attempts + 1 ELSE m[id].attempts
  <2>1. Present(m, id) /\ m[id] \in Row
    BY Zenon, <1>1 DEF Matches, Present, MailboxTable
  <2>2. n \in Nat
    BY <2>1 DEF Row
  <2>3. nackMessage(m, id, t) = [m EXCEPT ![id] = Released(n)]
    BY Zenon, <1>1 DEF nackMessage, MailboxTable
  <2> HIDE DEF n
  <2>4. QED BY Zenon, <2>1, <2>2, <2>3, ReleasedType, ReplacedRow
<1>2. CASE ~Matches(m, id, t)
  BY Zenon, <1>2 DEF nackMessage, SameRows
<1>3. QED BY Zenon, <1>1, <1>2

LEMMA PostponeEffect ==
    ASSUME NEW m \in MailboxTable, NEW id \in Ids, NEW t
    PROVE  SameRows(m, postponeMessage(m, id, t))
<1>1. CASE Matches(m, id, t)
  <2> DEFINE n == IF t # NoToken /\ m[id].attempts > 0
                  THEN m[id].attempts - 1 ELSE m[id].attempts
  <2>1. Present(m, id) /\ m[id] \in Row
    BY <1>1 DEF Matches, Present, MailboxTable
  <2>2. n \in Nat
    BY <2>1 DEF Row
  <2>3. postponeMessage(m, id, t) = [m EXCEPT ![id] = Released(n)]
    BY Zenon, <1>1 DEF postponeMessage, MailboxTable
  <2> HIDE DEF n
  <2>4. QED BY Zenon, <2>1, <2>2, <2>3, ReleasedType, ReplacedRow
<1>2. CASE ~Matches(m, id, t)
  BY Zenon, <1>2 DEF postponeMessage, SameRows
<1>3. QED BY <1>1, <1>2

LEMMA LeaseEffect ==
    ASSUME NEW m \in MailboxTable, NEW id \in Ids, Present(m, id), NEW t \in Tokens
    PROVE  SameRows(m, LeaseNextMailboxMessage(m, id, t))
<1> DEFINE r == [attempts |-> m[id].attempts + 1, token |-> t,
                 expired |-> FALSE, ready |-> m[id].ready]
<1>1. r \in Row
  BY DEF Row, MailboxTable, Present
<1>2. LeaseNextMailboxMessage(m, id, t) = [m EXCEPT ![id] = r]
  BY Zenon DEF LeaseNextMailboxMessage, MailboxTable
<1> HIDE DEF r
<1>3. QED BY Zenon, <1>1, <1>2, ReplacedRow

LEMMA TimeEffect ==
    ASSUME NEW m \in MailboxTable, NEW id \in Ids, Present(m, id), NEW t
    PROVE  /\ SameRows(m, ExtendMailboxLease(m, id, t))
           /\ SameRows(m, BackoffEnds(m, id))
           /\ SameRows(m, LeaseRunsOut(m, id))
<1> DEFINE e == [m[id] EXCEPT !.expired = FALSE]
           b == [m[id] EXCEPT !.ready = TRUE]
           l == [m[id] EXCEPT !.expired = TRUE]
<1>1. m[id] \in Row
  BY Zenon DEF MailboxTable, Present
<1>2. e \in Row /\ b \in Row /\ l \in Row
  BY Zenon, <1>1 DEF Row
<1>3. /\ BackoffEnds(m, id) = [m EXCEPT ![id] = b]
      /\ LeaseRunsOut(m, id) = [m EXCEPT ![id] = l]
  BY Zenon DEF BackoffEnds, LeaseRunsOut, MailboxTable
<1>4. \/ ExtendMailboxLease(m, id, t) = [m EXCEPT ![id] = e]
      \/ ExtendMailboxLease(m, id, t) = m
  BY Zenon DEF ExtendMailboxLease, MailboxTable
<1>5. SameRows(m, m)
  BY Zenon DEF SameRows
<1> HIDE DEF e, b, l
<1>6. \A r \in Row : SameRows(m, [m EXCEPT ![id] = r])
  BY Zenon, ReplacedRow
<1>7. QED BY Zenon, <1>2, <1>3, <1>4, <1>5, <1>6

LEMMA EnqueueEffect ==
    ASSUME NEW m \in MailboxTable, NEW id \in Ids
    PROVE  /\ Present(EnqueueMailboxMessage(m, id), id)
           /\ \A i \in Ids \ {id} : EnqueueMailboxMessage(m, id)[i] = m[i]
<1> DEFINE r == [attempts |-> 0, token |-> NoToken, expired |-> FALSE, ready |-> TRUE]
<1>1. r # NoRow
  BY Zenon, RowIsPresent, 0 \in Nat DEF Row
<1>2. QED BY Zenon, <1>1 DEF EnqueueMailboxMessage, Present, MailboxTable

\* No statement except a claim gives a row to a token: who matches a row after
\* any other step matched it before.
LEMMA NoNewOwner ==
    ASSUME NEW m \in MailboxTable, NEW id \in Ids, NEW t \in Tokens \cup {NoToken},
           NEW w \in Tokens, NEW id2 \in Ids
    PROVE  /\ Matches(ackMessage(m, id, t), id2, w) => Matches(m, id2, w)
           /\ Matches(nackMessage(m, id, t), id2, w) => Matches(m, id2, w)
           /\ Matches(postponeMessage(m, id, t), id2, w) => Matches(m, id2, w)
           /\ Matches(DeleteMailboxMessage(m, id), id2, w) => Matches(m, id2, w)
           /\ Matches(EnqueueMailboxMessage(m, id), id2, w) => Matches(m, id2, w)
           /\ Matches(ExtendMailboxLease(m, id, t), id2, w) => Matches(m, id2, w)
           /\ Present(m, id) =>
                /\ Matches(BackoffEnds(m, id), id2, w) => Matches(m, id2, w)
                /\ Matches(LeaseRunsOut(m, id), id2, w) => Matches(m, id2, w)
<1> USE StoreAssumption
<1>1. Matches(ackMessage(m, id, t), id2, w) => Matches(m, id2, w)
  BY Zenon DEF ackMessage, DeleteMailboxMessage, Matches, Present, MailboxTable
<1>2. Matches(nackMessage(m, id, t), id2, w) => Matches(m, id2, w)
  BY Zenon DEF nackMessage, Released, Matches, Present, MailboxTable
<1>3. Matches(postponeMessage(m, id, t), id2, w) => Matches(m, id2, w)
  BY Zenon DEF postponeMessage, Released, Matches, Present, MailboxTable
<1>4. Matches(DeleteMailboxMessage(m, id), id2, w) => Matches(m, id2, w)
  BY Zenon DEF DeleteMailboxMessage, Matches, Present, MailboxTable
<1>5. Matches(EnqueueMailboxMessage(m, id), id2, w) => Matches(m, id2, w)
  BY Zenon DEF EnqueueMailboxMessage, Matches, Present, MailboxTable
<1>6. Matches(ExtendMailboxLease(m, id, t), id2, w) => Matches(m, id2, w)
  BY Zenon DEF ExtendMailboxLease, Matches, Present, MailboxTable, Row
<1>7. Present(m, id) => /\ Matches(BackoffEnds(m, id), id2, w) => Matches(m, id2, w)
                        /\ Matches(LeaseRunsOut(m, id), id2, w) => Matches(m, id2, w)
  BY Zenon DEF BackoffEnds, LeaseRunsOut, Matches, Present, MailboxTable, Row
<1>8. QED BY Zenon, <1>1, <1>2, <1>3, <1>4, <1>5, <1>6, <1>7

\* Parts of the type invariant, to be cited without expanding it.
LEMMA MailboxTyped == TypeOK => mailbox \in MailboxTable
BY Zenon DEF TypeOK

LEMMA WorkerTyped == TypeOK => worker \in [Workers -> Delivery]
BY Zenon DEF TypeOK

LEMMA TokensAreWorkers == Tokens = Workers /\ NoToken \notin Workers
BY Zenon, ActorAssumption, StoreAssumption

LEMMA TokenType == \A w \in Workers : TokenOf(w) \in Tokens \cup {NoToken}
BY Zenon, TokensAreWorkers DEF TokenOf

-----------------------------------------------------------------------------
(***************************************************************************)
(* Writes are committed at most once.                                      *)
(***************************************************************************)
\* A step that commits nothing, starts no turn and gives no row to a worker
\* keeps AppliedOnceInv.
LEMMA QuietStep ==
    ASSUME TypeOK, AppliedOnceInv, applied' = applied,
           processed \subseteq processed',
           \A w \in Workers :
              worker'[w].pc = "running" => worker'[w] = worker[w],
           \A w \in Workers : \A id \in Ids :
              Matches(mailbox', id, w) => Matches(mailbox, id, w)
    PROVE  AppliedOnceInv'
<1>1. ASSUME NEW w \in Workers, MayCommit(w)' PROVE applied'[worker'[w].msg] = 0
  <2>1. worker'[w] = worker[w] /\ worker[w].pc = "running"
    BY Zenon, <1>1 DEF MayCommit
  <2>2. worker[w].msg \in Ids
    BY Zenon, <2>1, HeldId
  <2>3. MayCommit(w)
    BY Zenon, <1>1, <2>1, <2>2 DEF MayCommit
  <2>4. QED BY Zenon, <2>1, <2>3 DEF AppliedOnceInv
<1>2. QED BY Zenon, <1>1 DEF AppliedOnceInv, AppliedOnce

LEMMA AppliedOnceStep ==
    ASSUME FaultyReads = FALSE, TypeOK, AppliedOnceInv, [Next]_vars
    PROVE  AppliedOnceInv'
<1> USE MailboxTyped, WorkerTyped, TokensAreWorkers
<1>1. ASSUME NEW id \in Ids, Send(id) \/ LeaseExpires(id) \/ BecomesReady(id)
      PROVE  AppliedOnceInv'
  <2>1. \A w \in Workers : \A id2 \in Ids :
            Matches(mailbox', id2, w) => Matches(mailbox, id2, w)
    BY <1>1, NoNewOwner DEF Send, LeaseExpires, BecomesReady
  <2>2. QED BY Zenon, <1>1, <2>1, QuietStep DEF Send, LeaseExpires, BecomesReady
<1>2. ASSUME NEW w \in Workers, NEW id \in Ids, Claim(w, id)
      PROVE  AppliedOnceInv'
  <2>1. ASSUME NEW w2 \in Workers, MayCommit(w2)'
        PROVE  applied'[worker'[w2].msg] = 0
    <3>1. w2 # w
      BY Zenon, <1>2, <2>1 DEF Claim, MayCommit
    <3>2. worker'[w2] = worker[w2] /\ worker[w2].pc = "running" /\ ~Leaseless
      BY <1>2, <2>1, <3>1, ActorAssumption DEF Claim, MayCommit
    <3>3. worker[w2].msg \in Ids
      BY Zenon, <3>2, HeldId
    <3>4. Matches(mailbox', worker[w2].msg, w2)
      BY Zenon, <2>1, <3>2 DEF MayCommit
    <3>5. Present(mailbox, id) /\ mailbox'[id].token = w
      BY Zenon, <1>2, <3>2, LeaseType DEF Claim, IsNext, Eligible
    <3>6. worker[w2].msg # id
      BY Zenon, <3>1, <3>4, <3>5, StoreAssumption DEF Matches
    <3>7. Matches(mailbox, worker[w2].msg, w2)
      BY Zenon, <1>2, <3>2, <3>3, <3>4, <3>6
         DEF Claim, LeaseNextMailboxMessage, MailboxTable, Matches, Present
    <3>8. QED BY Zenon, <1>2, <3>2, <3>7 DEF AppliedOnceInv, MayCommit, Claim
  <2>2. QED BY Zenon, <1>2, <2>1 DEF Claim, AppliedOnceInv, AppliedOnce
<1>3. ASSUME NEW w \in Workers, HandlePoison(w) \/ SkipDuplicate(w)
      PROVE  AppliedOnceInv'
  <2>1. worker[w].msg \in Ids
    BY Zenon, <1>3, HeldId DEF HandlePoison, SkipDuplicate
  <2>2. \A w2 \in Workers : \A id \in Ids :
            Matches(mailbox', id, w2) => Matches(mailbox, id, w2)
    BY <1>3, <2>1, NoNewOwner, TokenType DEF HandlePoison, SkipDuplicate
  <2>3. QED BY <1>3, <2>2, QuietStep
       DEF HandlePoison, SkipDuplicate, Idle
<1>4. ASSUME NEW w \in Workers, Begin(w) \/ BeginUnchecked(w)
      PROVE  AppliedOnceInv'
  <2>1. Begin(w)
    BY Zenon, <1>4 DEF BeginUnchecked
  <2>2. worker[w].msg \in Ids
    BY Zenon, <2>1, HeldId DEF Begin
  <2>3. applied[worker[w].msg] = 0
    BY <2>1, <2>2 DEF Begin, AppliedOnceInv, TypeOK
  <2>4. ASSUME NEW w2 \in Workers, MayCommit(w2)'
        PROVE  applied'[worker'[w2].msg] = 0
    BY Zenon, <2>1, <2>3, <2>4
    DEF TypeOK, Begin, MayCommit, AppliedOnceInv, Delivery
  <2>5. QED BY Zenon, <2>1, <2>4 DEF Begin, AppliedOnceInv, AppliedOnce
<1>5. ASSUME NEW w \in Workers, Heartbeat(w) PROVE AppliedOnceInv'
  <2>1. \A w2 \in Workers : \A id \in Ids :
            Matches(mailbox', id, w2) => Matches(mailbox, id, w2)
    BY Zenon, <1>5, HeldId, NoNewOwner DEF Heartbeat
  <2>2. UNCHANGED <<applied, processed, worker>>
    BY Zenon, <1>5 DEF Heartbeat
  <2>3. QED BY Zenon, <2>1, <2>2, QuietStep
<1>6. ASSUME NEW w \in Workers, Commit(w) PROVE AppliedOnceInv'
  <2> DEFINE id == worker[w].msg
  <2>1. id \in Ids
    BY Zenon, <1>6, HeldId DEF Commit
  <2>2. CASE Matches(mailbox, id, TokenOf(w))
    <3>1. applied[id] = 0
      BY Zenon, <1>6, <2>2 DEF Commit, AppliedOnceInv, MayCommit, TokenOf
    <3>2. /\ mailbox' = ackMessage(mailbox, id, TokenOf(w))
          /\ applied' = [applied EXCEPT ![id] = @ + 1]
          /\ processed' = processed \cup {id}
          /\ worker' = [worker EXCEPT ![w] = Idle]
      BY Zenon, <1>6, <2>2 DEF Commit
    <3>3. AppliedOnce' /\ \A i \in Ids : applied'[i] > 0 => i \in processed'
      BY <2>1, <3>1, <3>2 DEF AppliedOnceInv, AppliedOnce, TypeOK
    <3>4. ASSUME NEW w2 \in Workers, MayCommit(w2)'
          PROVE  applied'[worker'[w2].msg] = 0
      <4>1. w2 # w
        BY Zenon, <3>2, <3>4 DEF MayCommit, Idle
      <4>2. worker'[w2] = worker[w2] /\ worker[w2].pc = "running" /\ ~Leaseless
        BY <3>2, <3>4, <4>1, ActorAssumption DEF MayCommit
      <4>3. worker[w2].msg \in Ids
        BY Zenon, <4>2, HeldId
      <4>4. Matches(mailbox', worker[w2].msg, w2)
        BY Zenon, <3>4, <4>2 DEF MayCommit
      <4>5. Matches(mailbox, worker[w2].msg, w2)
        BY Zenon, <2>1, <3>2, <4>3, <4>4, NoNewOwner, TokenType
      <4>6. worker[w2].msg # id
        <5>1. ~Present(mailbox', id)
          BY Zenon, <2>1, <2>2, <3>2, AckEffect DEF Gone
        <5>2. QED BY Zenon, <4>4, <5>1 DEF Matches
      <4>7. QED BY Zenon, <2>1, <3>2, <4>2, <4>3, <4>5, <4>6
           DEF AppliedOnceInv, MayCommit, TypeOK
    <3>5. QED BY Zenon, <3>3, <3>4 DEF AppliedOnceInv
  <2>3. CASE ~Matches(mailbox, id, TokenOf(w))
    BY ZenonT(60), <1>6, <2>3, QuietStep DEF Commit, ReturnError, Delivery
  <2>4. QED BY Zenon, <2>2, <2>3
<1>7. ASSUME NEW w \in Workers, Fail(w) \/ Postpone(w) \/ Consume(w)
      PROVE  AppliedOnceInv'
  BY ZenonT(60), <1>7, QuietStep
  DEF Fail, Postpone, Consume, ReturnError, Delivery
<1>8. ASSUME NEW w \in Workers, MarkProcessed(w) \/ MarkProcessedFails(w)
      PROVE  AppliedOnceInv'
  BY Zenon, <1>8, QuietStep DEF MarkProcessed, MarkProcessedFails, Delivery
<1>9. ASSUME NEW w \in Workers, Release(w) PROVE AppliedOnceInv'
  <2>1. worker[w].msg \in Ids
    BY Zenon, <1>9, HeldId DEF Release
  <2>2. \A w2 \in Workers : \A id \in Ids :
            Matches(mailbox', id, w2) => Matches(mailbox, id, w2)
    BY <1>9, <2>1, NoNewOwner, TokenType
       DEF Release, ReleaseOk, ReleasePostpone, ReleaseRetry, ReleaseGiveUp
  <2>3. QED BY Zenon, <1>9, <2>2, QuietStep DEF Release, Idle
<1>10. ASSUME NEW w \in Workers, ReleaseFails(w) \/ DeadLetterLost(w)
       PROVE  AppliedOnceInv'
  <2>1. worker[w].msg \in Ids
    BY Zenon, <1>10, HeldId DEF ReleaseFails, DeadLetterLost
  <2>2. \A w2 \in Workers : \A id \in Ids :
            Matches(mailbox', id, w2) => Matches(mailbox, id, w2)
    BY <1>10, <2>1, NoNewOwner DEF ReleaseFails, DeadLetterLost
  <2>3. QED BY <1>10, <2>2, QuietStep DEF ReleaseFails, DeadLetterLost, Idle
<1>11. ASSUME Crash PROVE AppliedOnceInv'
  BY Zenon, <1>11, QuietStep DEF Crash, Idle
<1>12. ASSUME UNCHANGED vars PROVE AppliedOnceInv'
  BY Zenon, <1>12, QuietStep DEF vars
<1>13. QED
  BY Zenon, <1>1, <1>2, <1>3, <1>4, <1>5, <1>6, <1>7, <1>8, <1>9, <1>10, <1>11,
     <1>12, Dispatch

\* With a store whose deduplication lookups succeed, the behavior's writes for
\* one message are committed at most once: for any number of workers, messages,
\* redeliveries, crashes and expired leases.
THEOREM ExactlyOnce == ASSUME FaultyReads = FALSE PROVE Spec => []AppliedOnce
<1>1. Init => AppliedOnceInv
  BY DEF Init, AppliedOnceInv, AppliedOnce, MayCommit, Idle
<1>2. TypeOK /\ AppliedOnceInv /\ [Next]_vars => AppliedOnceInv'
  BY Zenon, AppliedOnceStep
<1>3. AppliedOnceInv => AppliedOnce
  BY Zenon DEF AppliedOnceInv
<1>4. QED BY <1>1, <1>2, <1>3, TypeCorrect, PTL DEF Spec


-----------------------------------------------------------------------------
(***************************************************************************)
(* Every step but a Send either keeps the set of rows, or removes one row  *)
(* for one of five reasons.                                                *)
(***************************************************************************)
Committed(id) ==
    /\ applied' = [applied EXCEPT ![id] = @ + 1]
    /\ processed' = processed \cup {id}
    /\ UNCHANGED <<dead, consumed, gaveUp>>

Filed(id) ==
    /\ dead' = dead \cup {id}
    /\ UNCHANGED <<applied, processed, consumed, gaveUp>>

Dropped(id) ==
    /\ \/ id \in processed
       \/ \E w \in Workers : /\ worker[w].msg = id
                             /\ worker[w].result \in {"ok", "giveup"}
    /\ UNCHANGED <<applied, processed, dead, consumed, gaveUp>>

RowEffect ==
    \/ SameRows(mailbox, mailbox') /\ UNCHANGED <<applied, dead>>
    \/ \E id \in Ids : /\ Gone(mailbox, mailbox', id)
                       /\ Committed(id) \/ Filed(id) \/ Dropped(id)

LEMMA SameRowsRefl == \A m : SameRows(m, m)
BY Zenon DEF SameRows

\* The dead letter of a row files it; that of a missing row changes nothing.
LEMMA MoveEffect ==
    ASSUME TypeOK, NEW id \in Ids,
           dead' = DeadLettersAfterMove(mailbox, dead, id),
           mailbox' = DeleteMailboxMessage(mailbox, id),
           UNCHANGED <<applied, processed, consumed, gaveUp>>
    PROVE  RowEffect
<1>1. CASE Present(mailbox, id)
  <2>1. Gone(mailbox, mailbox', id)
    BY Zenon, <1>1, DeleteEffect, MailboxTyped
  <2>2. Filed(id)
    BY Zenon, <1>1 DEF Filed, DeadLettersAfterMove
  <2>3. QED BY Zenon, <2>1, <2>2 DEF RowEffect
<1>2. CASE ~Present(mailbox, id)
  <2>1. SameRows(mailbox, mailbox')
    BY Zenon, <1>2, DeleteEffect, MailboxTyped
  <2>2. UNCHANGED <<applied, dead>>
    BY Zenon, <1>2 DEF DeadLettersAfterMove
  <2>3. QED BY Zenon, <2>1, <2>2 DEF RowEffect
<1>3. QED BY Zenon, <1>1, <1>2

\* An ack or an unfenced delete drops the row if there is one.
LEMMA DropEffect ==
    ASSUME TypeOK, NEW id \in Ids, NEW t, Dropped(id),
           \/ mailbox' = ackMessage(mailbox, id, t)
           \/ mailbox' = DeleteMailboxMessage(mailbox, id)
    PROVE  RowEffect
<1>1. Gone(mailbox, mailbox', id) \/ SameRows(mailbox, mailbox')
  BY Zenon, AckEffect, DeleteEffect, MailboxTyped
<1>2. UNCHANGED <<applied, dead>>
  BY Zenon DEF Dropped
<1>3. QED BY Zenon, <1>1, <1>2 DEF RowEffect

LEMMA StepEffect ==
    ASSUME TypeOK, [Next]_vars, \A id \in Ids : ~Send(id)
    PROVE  RowEffect /\ UNCHANGED sends
<1> USE MailboxTyped
<1>1. ASSUME NEW id \in Ids, LeaseExpires(id) \/ BecomesReady(id)
      PROVE  RowEffect /\ UNCHANGED sends
  <2>1. Present(mailbox, id) /\ UNCHANGED <<applied, dead, sends>>
    BY Zenon, <1>1 DEF LeaseExpires, BecomesReady
  <2>2. mailbox' = LeaseRunsOut(mailbox, id) \/ mailbox' = BackoffEnds(mailbox, id)
    BY Zenon, <1>1 DEF LeaseExpires, BecomesReady
  <2>3. SameRows(mailbox, mailbox')
    BY Zenon, <2>1, <2>2, TimeEffect
  <2>4. QED BY Zenon, <2>1, <2>3 DEF RowEffect
<1>2. ASSUME NEW w \in Workers, NEW id \in Ids, Claim(w, id)
      PROVE  RowEffect /\ UNCHANGED sends
  <2>1. Present(mailbox, id) /\ UNCHANGED <<applied, dead, sends>>
    BY Zenon, <1>2 DEF Claim, IsNext, Eligible
  <2>2. mailbox' = mailbox \/ mailbox' = LeaseNextMailboxMessage(mailbox, id, w)
    BY Zenon, <1>2 DEF Claim
  <2>3. SameRows(mailbox, mailbox')
    BY Zenon, <2>1, <2>2, LeaseEffect, TokensAreWorkers, SameRowsRefl
  <2>4. QED BY Zenon, <2>1, <2>3 DEF RowEffect
<1>3. ASSUME NEW w \in Workers, Heartbeat(w) PROVE RowEffect /\ UNCHANGED sends
  <2>1. worker[w].msg \in Ids /\ UNCHANGED <<applied, dead, sends>>
    BY Zenon, <1>3, HeldId DEF Heartbeat
  <2>2. /\ Present(mailbox, worker[w].msg)
        /\ mailbox' = ExtendMailboxLease(mailbox, worker[w].msg, w)
    BY Zenon, <1>3 DEF Heartbeat, Owns, Matches
  <2>3. SameRows(mailbox, mailbox')
    BY Zenon, <2>1, <2>2, TimeEffect
  <2>4. QED BY Zenon, <2>1, <2>3 DEF RowEffect
<1>4. ASSUME NEW w \in Workers, HandlePoison(w) PROVE RowEffect /\ UNCHANGED sends
  <2>1. worker[w].msg \in Ids
    BY Zenon, <1>4, HeldId DEF HandlePoison
  <2>2. UNCHANGED <<applied, processed, consumed, gaveUp, sends>>
    BY Zenon, <1>4 DEF HandlePoison
  <2>3. \/ UNCHANGED <<mailbox, dead>>
        \/ /\ dead' = DeadLettersAfterMove(mailbox, dead, worker[w].msg)
           /\ mailbox' = DeleteMailboxMessage(mailbox, worker[w].msg)
        \/ /\ mailbox' = nackMessage(mailbox, worker[w].msg, TokenOf(w))
           /\ UNCHANGED dead
    BY Zenon, <1>4 DEF HandlePoison
  <2>4. QED BY Zenon, <2>1, <2>2, <2>3, MoveEffect, NackEffect, SameRowsRefl DEF RowEffect
<1>5. ASSUME NEW w \in Workers, SkipDuplicate(w) PROVE RowEffect /\ UNCHANGED sends
  <2>1. worker[w].msg \in Ids
    BY Zenon, <1>5, HeldId DEF SkipDuplicate
  <2>2. Dropped(worker[w].msg) /\ UNCHANGED sends
    BY Zenon, <1>5 DEF SkipDuplicate, Dropped
  <2>3. mailbox' = ackMessage(mailbox, worker[w].msg, TokenOf(w))
    BY Zenon, <1>5 DEF SkipDuplicate
  <2>4. QED BY Zenon, <2>1, <2>2, <2>3, DropEffect
<1>6. ASSUME NEW w \in Workers, Commit(w) PROVE RowEffect /\ UNCHANGED sends
  <2>1. worker[w].msg \in Ids /\ UNCHANGED sends
    BY Zenon, <1>6, HeldId DEF Commit
  <2>2. CASE Matches(mailbox, worker[w].msg, TokenOf(w))
    <3>1. Committed(worker[w].msg)
      BY Zenon, <1>6, <2>2 DEF Commit, Committed
    <3>2. Gone(mailbox, mailbox', worker[w].msg)
      BY <1>6, <2>1, <2>2, AckEffect DEF Commit
    <3>3. QED BY Zenon, <2>1, <3>1, <3>2 DEF RowEffect
  <2>3. CASE ~Matches(mailbox, worker[w].msg, TokenOf(w))
    <3>1. UNCHANGED <<mailbox, applied, dead>>
      BY Zenon, <1>6, <2>3 DEF Commit
    <3>2. QED BY Zenon, <2>1, <3>1, SameRowsRefl DEF RowEffect
  <2>4. QED BY Zenon, <2>2, <2>3
<1>7. ASSUME NEW w \in Workers, Release(w) PROVE RowEffect /\ UNCHANGED sends
  <2>1. worker[w].msg \in Ids
    BY Zenon, <1>7, HeldId DEF Release
  <2>2. UNCHANGED <<applied, processed, consumed, gaveUp, sends>>
    BY Zenon, <1>7 DEF Release
  <2>3. CASE ReleaseOk(w)
    <3>1. Dropped(worker[w].msg)
      BY Zenon, <2>2, <2>3 DEF Dropped, ReleaseOk
    <3>2. QED BY Zenon, <2>1, <2>2, <2>3, <3>1, DropEffect DEF ReleaseOk
  <2>4. CASE ReleasePostpone(w)
    <3>1. SameRows(mailbox, mailbox') /\ UNCHANGED dead
      BY Zenon, <2>1, <2>4, PostponeEffect DEF ReleasePostpone
    <3>2. QED BY Zenon, <2>2, <3>1 DEF RowEffect
  <2>5. CASE ReleaseRetry(w)
    <3>1. \/ UNCHANGED <<mailbox, dead>>
          \/ /\ dead' = DeadLettersAfterMove(mailbox, dead, worker[w].msg)
             /\ mailbox' = DeleteMailboxMessage(mailbox, worker[w].msg)
          \/ /\ mailbox' = nackMessage(mailbox, worker[w].msg, TokenOf(w))
             /\ UNCHANGED dead
      BY Zenon, <2>5 DEF ReleaseRetry
    <3>2. QED BY <2>1, <2>2, <3>1, MoveEffect, NackEffect, SameRowsRefl
    DEF RowEffect
  <2>6. CASE ReleaseGiveUp(w)
    BY Zenon, <2>1, <2>2, <2>6, MoveEffect DEF ReleaseGiveUp
  <2>7. QED BY Zenon, <1>7, <2>3, <2>4, <2>5, <2>6 DEF Release
<1>8. ASSUME NEW w \in Workers, DeadLetterLost(w) PROVE RowEffect /\ UNCHANGED sends
  <2>1. worker[w].msg \in Ids
    BY Zenon, <1>8, HeldId DEF DeadLetterLost
  <2>2. Dropped(worker[w].msg) /\ UNCHANGED sends
    BY Zenon, <1>8 DEF DeadLetterLost, Dropped
  <2>3. mailbox' = DeleteMailboxMessage(mailbox, worker[w].msg)
    BY Zenon, <1>8 DEF DeadLetterLost
  <2>4. QED BY Zenon, <2>1, <2>2, <2>3, DropEffect
<1>9. ASSUME UNCHANGED <<mailbox, applied, dead, sends>>
      PROVE  RowEffect /\ UNCHANGED sends
  BY Zenon, <1>9, SameRowsRefl DEF RowEffect
<1>10. ASSUME NEW w \in Workers,
              \/ Begin(w) \/ BeginUnchecked(w) \/ Fail(w) \/ Postpone(w) \/ Consume(w)
              \/ MarkProcessed(w) \/ MarkProcessedFails(w) \/ ReleaseFails(w)
       PROVE  UNCHANGED <<mailbox, applied, dead, sends>>
  BY Zenon, <1>10
  DEF Begin, BeginUnchecked, Fail, Postpone, Consume, MarkProcessed,
               MarkProcessedFails, ReleaseFails
<1>11. Crash \/ UNCHANGED vars => UNCHANGED <<mailbox, applied, dead, sends>>
  BY Zenon DEF Crash, vars
<1>12. QED
  BY Zenon, <1>1, <1>2, <1>3, <1>4, <1>5, <1>6, <1>7, <1>8, <1>9, <1>10,
     <1>11, Dispatch

-----------------------------------------------------------------------------
(***************************************************************************)
(* No message leaves the mailbox unsettled.                                *)
(***************************************************************************)
\* A step adds to the history and never takes anything back.
LEMMA HistoryGrows ==
    ASSUME [Next]_vars
    PROVE  consumed \subseteq consumed' /\ gaveUp \subseteq gaveUp'
BY Zenon, Dispatch
DEF vars, Send, LeaseExpires, BecomesReady, Claim, HandlePoison,
   SkipDuplicate, Begin, BeginUnchecked, Heartbeat, Commit, ReturnError, Fail,
   Postpone, Consume, MarkProcessed, MarkProcessedFails, Release, ReleaseFails,
   DeadLetterLost, Crash

\* A new result is entered in the history by the step that produces it.
ResultEarned(w) ==
    \/ worker'[w].result \notin {"ok", "giveup"}
    \/ worker'[w].result = worker[w].result /\ worker'[w].msg = worker[w].msg
    \/ worker'[w].result = "ok" /\ worker'[w].msg \in consumed'
    \/ worker'[w].result = "giveup" /\ worker'[w].msg \in gaveUp'

LEMMA ResultsEarned ==
    ASSUME TypeOK, [Next]_vars, NEW w \in Workers
    PROVE  ResultEarned(w)
<1> USE WorkerTyped DEF ResultEarned
<1>1. ASSUME UNCHANGED worker PROVE ResultEarned(w)
  BY Zenon, <1>1
<1>2. ASSUME NEW id \in Ids,
             Send(id) \/ LeaseExpires(id) \/ BecomesReady(id)
      PROVE  UNCHANGED worker
  BY Zenon, <1>2 DEF Send, LeaseExpires, BecomesReady
<1>3. ASSUME NEW u \in Workers, Heartbeat(u) PROVE UNCHANGED worker
  BY Zenon, <1>3 DEF Heartbeat
<1>4. ASSUME NEW u \in Workers, NEW d, d.result = "none",
             worker' = [worker EXCEPT ![u] = d]
      PROVE  ResultEarned(w)
  BY Zenon, <1>4
<1>5. ASSUME NEW u \in Workers,
             \/ HandlePoison(u) \/ SkipDuplicate(u) \/ Release(u)
             \/ ReleaseFails(u) \/ DeadLetterLost(u)
      PROVE  ResultEarned(w)
  <2>1. worker' = [worker EXCEPT ![u] = Idle] /\ Idle.result = "none"
    BY Zenon, <1>5 DEF HandlePoison, SkipDuplicate, Release, ReleaseFails,
                DeadLetterLost, Idle
  <2>2. QED BY Zenon, <1>4, <2>1
<1>6. ASSUME NEW u \in Workers, NEW id \in Ids, Claim(u, id) PROVE ResultEarned(w)
  BY Zenon, <1>6 DEF Claim
<1>7. ASSUME NEW u \in Workers,
             \/ Begin(u) \/ BeginUnchecked(u)
             \/ MarkProcessed(u) \/ MarkProcessedFails(u)
      PROVE  ResultEarned(w)
  BY <1>7 DEF Begin, BeginUnchecked, MarkProcessed, MarkProcessedFails, Delivery
<1>8. ASSUME NEW u \in Workers, ReturnError(u) PROVE ResultEarned(w)
  BY <1>8 DEF ReturnError, Delivery
<1>9. ASSUME NEW u \in Workers, Postpone(u) \/ Consume(u) PROVE ResultEarned(w)
  BY <1>9 DEF Postpone, Consume, Delivery
<1>10. ASSUME NEW u \in Workers, Commit(u) \/ Fail(u) PROVE ResultEarned(w)
  <2>1. ReturnError(u) \/ worker' = [worker EXCEPT ![u] = Idle]
    BY Zenon, <1>10 DEF Commit, Fail
  <2>2. QED BY Zenon, <1>4, <1>8, <2>1 DEF Idle
<1>11. ASSUME Crash PROVE ResultEarned(w)
  BY Zenon, <1>11 DEF Crash, Idle
<1>12. QED
  BY Zenon, <1>1, <1>2, <1>3, <1>5, <1>6, <1>7, <1>9, <1>10, <1>11, Dispatch
     DEF vars

\* A mark in processed_messages comes with a commit or from a finished turn.
LEMMA MarksEarned ==
    ASSUME TypeOK, SettledInv, [Next]_vars, NEW id \in processed', id \notin processed
    PROVE  Committed(id) \/ id \in consumed \cup gaveUp
<1>1. ASSUME NEW w \in Workers, Commit(w) PROVE Committed(id)
  <2>1. Matches(mailbox, worker[w].msg, TokenOf(w)) /\ id = worker[w].msg
    BY Zenon, <1>1 DEF Commit
  <2>2. QED BY Zenon, <1>1, <2>1 DEF Commit, Committed
<1>2. ASSUME NEW w \in Workers, MarkProcessed(w) PROVE id \in consumed \cup gaveUp
  <2>1. id = worker[w].msg /\ worker[w].result \in {"ok", "giveup"}
    BY Zenon, <1>2 DEF MarkProcessed, ShouldMarkProcessed
  <2>2. QED BY Zenon, <2>1 DEF SettledInv
<1>3. ASSUME \A w \in Workers : ~Commit(w) /\ ~MarkProcessed(w)
      PROVE  processed' = processed
  BY Zenon, <1>3, Dispatch DEF vars, Send, LeaseExpires, BecomesReady, Claim,
     HandlePoison, SkipDuplicate, Begin, BeginUnchecked, Heartbeat, Fail,
     Postpone, Consume, MarkProcessedFails, Release, ReleaseFails,
     DeadLetterLost, Crash
<1>4. QED BY Zenon, <1>1, <1>2, <1>3

LEMMA SettledStep ==
    ASSUME TypeOK, SettledInv, [Next]_vars
    PROVE  SettledInv'
<1>1. ASSUME NEW id \in Ids, applied[id] > 0 PROVE applied'[id] > 0
  <2>1. CASE \E i \in Ids : Send(i)
    BY Zenon, <1>1, <2>1 DEF Send
  <2>2. CASE \A i \in Ids : ~Send(i)
    <3>1. applied \in [Ids -> Nat]
      BY Zenon DEF TypeOK
    <3>2. applied' = applied \/ \E i \in Ids : applied' = [applied EXCEPT ![i] = @ + 1]
      BY Zenon, <2>2, StepEffect DEF RowEffect, Committed, Filed, Dropped
    <3>3. QED BY <1>1, <3>1, <3>2
  <2>3. QED BY Zenon, <2>1, <2>2
<1>2. ASSUME NEW id \in Ids, Committed(id) PROVE applied'[id] > 0
  BY <1>2 DEF Committed, TypeOK
<1>3. \A id \in processed' : applied'[id] > 0 \/ id \in consumed' \cup gaveUp'
  <2>1. ASSUME NEW id \in processed', id \in processed
        PROVE  applied'[id] > 0 \/ id \in consumed' \cup gaveUp'
    <3>1. id \in Ids /\ (applied[id] > 0 \/ id \in consumed \cup gaveUp)
      BY Zenon, <2>1 DEF SettledInv, TypeOK
    <3>2. QED BY Zenon, <1>1, <3>1, HistoryGrows
  <2>2. ASSUME NEW id \in processed', id \notin processed
        PROVE  applied'[id] > 0 \/ id \in consumed' \cup gaveUp'
    <3>1. id \in Ids
      BY Zenon, TypeStep DEF TypeOK
    <3>2. QED BY Zenon, <1>2, <2>2, <3>1, MarksEarned, HistoryGrows
  <2>3. QED BY Zenon, <2>1, <2>2
<1>4. \A w \in Workers :
         /\ worker'[w].result = "ok" => worker'[w].msg \in consumed'
         /\ worker'[w].result = "giveup" => worker'[w].msg \in gaveUp'
  BY Zenon, ResultsEarned, HistoryGrows DEF ResultEarned, SettledInv
<1>5. SettledOrGaveUp'
  <2>1. ASSUME NEW id \in Ids, Send(id) PROVE SettledOrGaveUp'
    <3>1. /\ Present(mailbox', id)
          /\ \A i \in Ids \ {id} : mailbox'[i] = mailbox[i]
      BY Zenon, <2>1, MailboxTyped, EnqueueEffect DEF Send
    <3>2. /\ \A i \in Ids \ {id} : sends'[i] = sends[i]
          /\ UNCHANGED <<applied, dead, consumed, gaveUp>>
      BY Zenon, <2>1 DEF Send, TypeOK
    <3>3. QED BY Zenon, <3>1, <3>2 DEF SettledInv, SettledOrGaveUp, Present
  <2>2. ASSUME \A id \in Ids : ~Send(id) PROVE SettledOrGaveUp'
    <3>1. RowEffect /\ sends' = sends
      BY Zenon, <2>2, StepEffect
    <3>2. dead \subseteq dead'
      BY Zenon, <3>1 DEF RowEffect, Committed, Filed, Dropped
    <3>3. ASSUME NEW id \in Ids, sends'[id] > 0, ~Present(mailbox', id),
                 ~Present(mailbox, id)
          PROVE  applied'[id] > 0 \/ id \in dead' \cup consumed' \cup gaveUp'
      <4>1. applied[id] > 0 \/ id \in dead \cup consumed \cup gaveUp
        BY Zenon, <3>1, <3>3 DEF SettledInv, SettledOrGaveUp
      <4>2. QED BY Zenon, <1>1, <3>2, <4>1, HistoryGrows
    <3>4. ASSUME NEW id \in Ids, ~Present(mailbox', id), Present(mailbox, id)
          PROVE  applied'[id] > 0 \/ id \in dead' \cup consumed' \cup gaveUp'
      <4>1. Committed(id) \/ Filed(id) \/ Dropped(id)
        BY Zenon, <3>1, <3>4 DEF RowEffect, SameRows, Gone, Present
      <4>2. Dropped(id) =>
               applied'[id] > 0 \/ id \in consumed' \cup gaveUp'
        BY Zenon, <1>1, HistoryGrows DEF Dropped, SettledInv
      <4>3. QED BY Zenon, <1>2, <4>1, <4>2 DEF Filed
    <3>5. QED BY Zenon, <3>3, <3>4 DEF SettledOrGaveUp
  <2>3. QED BY Zenon, <2>1, <2>2
<1>6. QED BY Zenon, <1>3, <1>4, <1>5 DEF SettledInv

\* Whatever interleaving of acks, nacks, lost leases, failing writes and crashes
\* happens, a message leaves the mailbox only once it is applied, consumed,
\* dead-lettered or given up.
THEOREM NothingDropped == Spec => []SettledOrGaveUp
<1>1. Init => SettledInv
  BY DEF Init, SettledInv, SettledOrGaveUp, Idle
<1>2. TypeOK /\ SettledInv /\ [Next]_vars => SettledInv'
  BY Zenon, SettledStep
<1>3. SettledInv => SettledOrGaveUp
  BY Zenon DEF SettledInv
<1>4. QED BY <1>1, <1>2, <1>3, TypeCorrect, PTL DEF Spec

-----------------------------------------------------------------------------
(***************************************************************************)
(* A message is settled in one way only.                                   *)
(***************************************************************************)
LEMMA SettledOnceStep ==
    ASSUME TypeOK, DeadOrAppliedInv, [Next]_vars
    PROVE  DeadOrAppliedInv'
<1> USE DEF DeadOrAppliedInv, DeadOrApplied
<1>1. ASSUME NEW id \in Ids, Send(id) PROVE DeadOrAppliedInv'
  <2>1. /\ sends \in [Ids -> Nat]
        /\ sends' = [sends EXCEPT ![id] = @ + 1]
    BY Zenon, <1>1 DEF TypeOK, Send
  <2>2. \A i \in Ids \ {id} : mailbox'[i] = mailbox[i]
    BY Zenon, <1>1, MailboxTyped, EnqueueEffect DEF Send
  <2>3. UNCHANGED <<applied, dead>>
    BY Zenon, <1>1 DEF Send
  <2>4. QED BY <2>1, <2>2, <2>3 DEF TypeOK, Present
<1>2. ASSUME RowEffect, UNCHANGED sends PROVE DeadOrAppliedInv'
  <2>1. CASE SameRows(mailbox, mailbox') /\ UNCHANGED <<applied, dead>>
    BY Zenon, <1>2, <2>1 DEF SameRows
  <2>2. ASSUME NEW id \in Ids, Gone(mailbox, mailbox', id), Committed(id)
        PROVE  DeadOrAppliedInv'
    BY Zenon, <1>2, <2>2 DEF Gone, Committed, Present, TypeOK
  <2>3. ASSUME NEW id \in Ids, Gone(mailbox, mailbox', id), Filed(id)
        PROVE  DeadOrAppliedInv'
    BY <1>2, <2>3 DEF Gone, Filed, Present, TypeOK
  <2>4. ASSUME NEW id \in Ids, Gone(mailbox, mailbox', id), Dropped(id)
        PROVE  DeadOrAppliedInv'
    BY Zenon, <1>2, <2>4 DEF Gone, Dropped, Present
  <2>5. QED BY Zenon, <1>2, <2>1, <2>2, <2>3, <2>4 DEF RowEffect
<1>3. QED BY Zenon, <1>1, <1>2, StepEffect

\* A message that was enqueued once is never both applied and dead-lettered,
\* also when a stale worker gives up on a row that another
\* worker owns: the two transactions compete for the row.
THEOREM SettledOnce == Spec => []DeadOrApplied
<1>1. Init => DeadOrAppliedInv
  BY Zenon DEF Init, DeadOrAppliedInv, DeadOrApplied, EmptyMailbox, Present
<1>2. TypeOK /\ DeadOrAppliedInv /\ [Next]_vars => DeadOrAppliedInv'
  BY SettledOnceStep
<1>3. DeadOrAppliedInv => DeadOrApplied
  BY Zenon DEF DeadOrAppliedInv
<1>4. QED BY <1>1, <1>2, <1>3, TypeCorrect, PTL DEF Spec

-----------------------------------------------------------------------------
(***************************************************************************)
(* The durable actor implements DeliveryContract, for any set of ids and   *)
(* workers and any bounds.  The refinement mapping takes the rows of the   *)
(* mailbox to the queue and the dead letters, consumed and given-up        *)
(* messages to the settled ones.                                           *)
(***************************************************************************)
\* A step enters at most one message in the history of consumed and given-up
\* ones.
LEMMA HistoryByOne ==
    ASSUME TypeOK, [Next]_vars
    PROVE  \/ UNCHANGED <<consumed, gaveUp>>
           \/ \E id \in Ids : consumed' \cup gaveUp' = consumed \cup gaveUp \cup {id}
<1> DEFINE Goal == \/ UNCHANGED <<consumed, gaveUp>>
                   \/ \E id \in Ids :
                        consumed' \cup gaveUp' = consumed \cup gaveUp \cup {id}
<1>1. ASSUME NEW w \in Workers, Consume(w) PROVE Goal
  <2>1. worker[w].msg \in Ids
    BY Zenon, <1>1, HeldId DEF Consume
  <2>2. consumed' = consumed \cup {worker[w].msg} /\ gaveUp' = gaveUp
    BY Zenon, <1>1 DEF Consume
  <2>3. QED BY Zenon, <2>1, <2>2
<1>2. ASSUME NEW w \in Workers, Commit(w) \/ Fail(w) PROVE Goal
  <2>1. worker[w].msg \in Ids
    BY Zenon, <1>2, HeldId DEF Commit, Fail
  <2>2. /\ consumed' = consumed
        /\ gaveUp' = gaveUp \/ gaveUp' = gaveUp \cup {worker[w].msg}
    BY Zenon, <1>2 DEF Commit, Fail, ReturnError
  <2>3. QED BY Zenon, <2>1, <2>2
<1>3. ASSUME \A w \in Workers : ~Consume(w) /\ ~Commit(w) /\ ~Fail(w)
      PROVE  UNCHANGED <<consumed, gaveUp>>
  BY Zenon, <1>3, Dispatch DEF vars, Send, LeaseExpires, BecomesReady, Claim,
     HandlePoison, SkipDuplicate, Begin, BeginUnchecked, Heartbeat, Postpone,
     MarkProcessed, MarkProcessedFails, Release, ReleaseFails, DeadLetterLost,
     Crash
<1>4. QED BY Zenon, <1>1, <1>2, <1>3

\* What the effects of a step on the rows are on the queue.
LEMMA QueueEffect ==
    /\ SameRows(mailbox, mailbox') => Queued' = Queued
    /\ \A id \in Ids : Gone(mailbox, mailbox', id) =>
          id \in Queued /\ Queued' = Queued \ {id}
BY Zenon DEF SameRows, Gone, Queued, Present

LEMMA SendRefines ==
    ASSUME TypeOK, NEW id \in Ids, Send(id)
    PROVE  Contract!Accept(id)
<1>1. /\ Present(mailbox', id)
      /\ \A i \in Ids \ {id} : mailbox'[i] = mailbox[i]
  BY Zenon, MailboxTyped, EnqueueEffect DEF Send
<1>2. Queued' = Queued \cup {id}
  BY Zenon, <1>1 DEF Queued, Present
<1>3. UNCHANGED <<applied, Settled>>
  BY Zenon DEF Send, Settled
<1>4. QED BY Zenon, <1>2, <1>3 DEF Contract!Accept

LEMMA StepRefines ==
    ASSUME FaultyReads = FALSE, TypeOK, AppliedOnceInv, SettledInv, [Next]_vars
    PROVE  [Contract!Next]_Contract!vars
<1>1. ASSUME NEW id \in Ids, Send(id) PROVE Contract!Next
  BY Zenon, <1>1, SendRefines DEF Contract!Next
<1>2. ASSUME SameRows(mailbox, mailbox'), UNCHANGED <<applied, dead>>
      PROVE  [Contract!Next]_Contract!vars
  <2>1. Queued' = Queued
    BY Zenon, <1>2, QueueEffect
  <2>2. CASE UNCHANGED <<consumed, gaveUp>>
    BY Zenon, <1>2, <2>1, <2>2 DEF Contract!vars, Settled
  <2>3. ASSUME NEW id \in Ids,
               consumed' \cup gaveUp' = consumed \cup gaveUp \cup {id}
        PROVE  Contract!Next
    <3>1. Settled' = Settled \cup {id}
      BY Zenon, <1>2, <2>3 DEF Settled
    <3>2. Contract!Settle(id)
      BY Zenon, <1>2, <2>1, <3>1 DEF Contract!Settle
    <3>3. QED BY Zenon, <3>2 DEF Contract!Next
  <2>4. QED BY Zenon, <2>2, <2>3, HistoryByOne
<1>3. ASSUME NEW id \in Ids, Gone(mailbox, mailbox', id), Committed(id)
      PROVE  Contract!Next
  <2>1. applied[id] = 0 /\ applied' = [applied EXCEPT ![id] = 1]
    <3>1. applied \in [Ids -> Nat] /\ applied' = [applied EXCEPT ![id] = @ + 1]
      BY Zenon, <1>3 DEF TypeOK, Committed
    <3>2. applied'[id] <= 1
      BY Zenon, AppliedOnceStep DEF AppliedOnceInv, AppliedOnce
    <3>3. applied'[id] = applied[id] + 1 /\ applied[id] \in Nat
      BY Zenon, <3>1
    <3>4. applied[id] = 0
      BY <3>2, <3>3
    <3>5. QED BY <3>1, <3>4
  <2>2. id \in Queued /\ Queued' = Queued \ {id} /\ UNCHANGED Settled
    BY Zenon, <1>3, QueueEffect DEF Committed, Settled
  <2>3. Contract!Apply(id)
    BY Zenon, <2>1, <2>2 DEF Contract!Apply
  <2>4. QED BY Zenon, <2>3 DEF Contract!Next
<1>4. ASSUME NEW id \in Ids, Gone(mailbox, mailbox', id), Filed(id)
      PROVE  Contract!Next
  <2>1. Queued' = Queued \ {id} /\ Settled' = Settled \cup {id} /\ UNCHANGED applied
    BY Zenon, <1>4, QueueEffect DEF Filed, Settled
  <2>2. Contract!Settle(id)
    BY Zenon, <2>1 DEF Contract!Settle
  <2>3. QED BY <2>2 DEF Contract!Next
<1>5. ASSUME NEW id \in Ids, Gone(mailbox, mailbox', id), Dropped(id)
      PROVE  Contract!Next
  <2>1. id \in Queued /\ Queued' = Queued \ {id} /\ UNCHANGED <<applied, Settled>>
    BY Zenon, <1>5, QueueEffect DEF Dropped, Settled
  <2>2. applied[id] > 0 \/ id \in Settled
    BY Zenon, <1>5 DEF Dropped, SettledInv, Settled
  <2>3. Contract!Skip(id)
    BY Zenon, <2>1, <2>2 DEF Contract!Skip
  <2>4. QED BY Zenon, <2>3 DEF Contract!Next
<1>6. QED
  BY Zenon, <1>1, <1>2, <1>3, <1>4, <1>5, StepEffect DEF RowEffect

\* Every behaviour of the actor is one the contract allows, provided the
\* deduplication lookups succeed: a message is applied once and leaves the
\* mailbox in that step, or leaves it settled in another way, and a copy
\* enqueued again is not applied.
THEOREM Implements == ASSUME FaultyReads = FALSE PROVE Spec => KeepsContract
<1>1. Init => Contract!Init
  BY Zenon DEF Init, Contract!Init, Queued, Settled, EmptyMailbox, Present
<1>2. Init => AppliedOnceInv /\ SettledInv
  BY DEF Init, AppliedOnceInv, AppliedOnce, MayCommit, SettledInv,
         SettledOrGaveUp, Idle
<1>3. TypeOK /\ AppliedOnceInv /\ SettledInv /\ [Next]_vars
        => AppliedOnceInv' /\ SettledInv'
  BY Zenon, AppliedOnceStep, SettledStep
<1>4. TypeOK /\ AppliedOnceInv /\ SettledInv /\ [Next]_vars
        => [Contract!Next]_Contract!vars
  BY Zenon, StepRefines
<1>5. QED
  BY <1>1, <1>2, <1>3, <1>4, TypeCorrect, PTL
  DEF Spec, KeepsContract, Contract!Spec

-----------------------------------------------------------------------------
(***************************************************************************)
(* The order of a key's commits, and the rows of a peeking worker.         *)
(*                                                                         *)
(* KeyOrderUntilLastAttempt is about one step; the invariant behind it     *)
(* says that once a message is in a worker's hands or committed, an        *)
(* earlier message of its key has left the table for good or is on its     *)
(* last attempt.  A postpone gives that attempt back, so the row may also  *)
(* be released with one attempt left, which its next claim uses up.        *)
(***************************************************************************)
Passed(m, id) ==
    \/ ~Present(m, id)
    \/ m[id].attempts >= MaxAttempts
    \/ ~Leaseless /\ m[id].attempts = MaxAttempts - 1 /\ m[id].token = NoToken

\* The message is in some worker's hands, or its writes were committed.
Begun(id) == applied[id] > 0 \/ \E w \in Workers : worker[w].msg = id

Before(a, b) == a < b /\ KeyOf[a] = KeyOf[b] /\ KeyOf[a] # NoKey

OrderInv ==
    /\ \A id \in Ids : Present(mailbox, id) \/ Begun(id) => sends[id] > 0
    /\ \A a, b \in Ids : Before(a, b) =>
         /\ sends[b] > 0 => sends[a] > 0
         /\ sends[a] <= 1 /\ Begun(b) => Passed(mailbox, a)

\* Time and a heartbeat leave the attempts and the token of a row alone.
LEMMA PassedInTime ==
    ASSUME NEW m \in MailboxTable, NEW id \in Ids, NEW i \in Ids, Passed(m, i),
           Present(m, id)
    PROVE  /\ Passed(BackoffEnds(m, id), i)
           /\ Passed(LeaseRunsOut(m, id), i)
           /\ Passed([m EXCEPT ![id].expired = FALSE], i)
<1> DEFINE e == [m[id] EXCEPT !.expired = FALSE]
           b == [m[id] EXCEPT !.ready = TRUE]
           l == [m[id] EXCEPT !.expired = TRUE]
<1>1. m[id] \in Row
  BY Zenon DEF Present, MailboxTable
<1>2. /\ e.attempts = m[id].attempts /\ e.token = m[id].token
      /\ b.attempts = m[id].attempts /\ b.token = m[id].token
      /\ l.attempts = m[id].attempts /\ l.token = m[id].token
  BY Zenon, <1>1 DEF Row
<1>3. /\ BackoffEnds(m, id) = [m EXCEPT ![id] = b]
      /\ LeaseRunsOut(m, id) = [m EXCEPT ![id] = l]
      /\ [m EXCEPT ![id].expired = FALSE] = [m EXCEPT ![id] = e]
  BY Zenon DEF BackoffEnds, LeaseRunsOut, MailboxTable
<1> HIDE DEF e, b, l
<1>4. ASSUME NEW r, r.attempts = m[id].attempts, r.token = m[id].token
      PROVE  Passed([m EXCEPT ![id] = r], i)
  BY Zenon, <1>4 DEF Passed, Present, MailboxTable
<1> QED
  BY ZenonT(60), <1>2, <1>3, <1>4

\* No statement but an enqueue brings back a row that has been passed.
LEMMA PassedKept ==
    ASSUME NEW m \in MailboxTable, NEW id \in Ids, NEW i \in Ids, Passed(m, i),
           NEW t \in Tokens \cup {NoToken}, t = NoToken <=> Leaseless
    PROVE  /\ Passed(ackMessage(m, id, t), i)
           /\ Passed(nackMessage(m, id, t), i)
           /\ Passed(postponeMessage(m, id, t), i)
           /\ Passed(DeleteMailboxMessage(m, id), i)
           /\ Passed(ExtendMailboxLease(m, id, t), i)
<1> USE StoreAssumption
<1>0. CASE i # id
  BY Zenon, <1>0 DEF Passed, Present, MailboxTable, ackMessage, nackMessage,
     postponeMessage, DeleteMailboxMessage, ExtendMailboxLease
<1>1. CASE i = id
  <2>0. Present(m, id) => m[id] \in Row /\ m[id].attempts \in Nat
    BY Zenon DEF Present, MailboxTable, Row
  <2>1. Passed(DeleteMailboxMessage(m, id), i)
    BY Zenon, <1>1 DEF Passed, Present, MailboxTable, DeleteMailboxMessage
  <2>2. Passed(ackMessage(m, id, t), i)
    BY Zenon, <2>1 DEF ackMessage
  <2>3. Passed(nackMessage(m, id, t), i)
    <3>1. CASE Matches(m, id, t)
      <4>1. nackMessage(m, id, t)[i] =
              Released(IF t = NoToken THEN m[id].attempts + 1 ELSE m[id].attempts)
        BY Zenon, <1>1, <3>1 DEF nackMessage, MailboxTable
      <4>2. Present(m, id) /\ (t = NoToken \/ m[id].token = t)
        BY Zenon, <3>1 DEF Matches
      <4>3. m[id].attempts >= MaxAttempts
        BY Zenon, <1>1, <4>2 DEF Passed
      <4> QED
        BY <2>0, <4>1, <4>2, <4>3 DEF Passed, Released
    <3>2. CASE ~Matches(m, id, t)
      BY Zenon, <3>2 DEF nackMessage
    <3> QED
      BY Zenon, <3>1, <3>2
  <2>4. Passed(postponeMessage(m, id, t), i)
    <3>1. CASE Matches(m, id, t)
      <4>1. postponeMessage(m, id, t)[i] =
              Released(IF t # NoToken /\ m[id].attempts > 0
                       THEN m[id].attempts - 1 ELSE m[id].attempts)
        BY Zenon, <1>1, <3>1 DEF postponeMessage, MailboxTable
      <4>2. Present(m, id) /\ (t = NoToken \/ m[id].token = t)
        BY <3>1 DEF Matches
      <4>3. m[id].attempts >= MaxAttempts
        BY <1>1, <4>2 DEF Passed
      <4> QED
        BY <2>0, <4>1, <4>2, <4>3 DEF Passed, Released
    <3>2. CASE ~Matches(m, id, t)
      BY Zenon, <3>2 DEF postponeMessage
    <3> QED
      BY <3>1, <3>2
  <2>5. Passed(ExtendMailboxLease(m, id, t), i)
    BY Zenon, PassedInTime DEF ExtendMailboxLease
  <2> QED
    BY Zenon, <2>1, <2>2, <2>3, <2>4, <2>5
<1> QED
  BY Zenon, <1>0, <1>1

\* A claim takes no row whose attempts are used up, and uses up the last one.
LEMMA PassedClaimed ==
    ASSUME NEW m \in MailboxTable, NEW id \in Ids, NEW i \in Ids, Passed(m, i),
           NEW t \in Tokens, ~Leaseless, Eligible(m, id)
    PROVE  Passed(LeaseNextMailboxMessage(m, id, t), i)
<1> USE StoreAssumption
<1>1. CASE i # id
  BY Zenon, <1>1 DEF Passed, Present, MailboxTable, LeaseNextMailboxMessage
<1>2. CASE i = id
  <2>1. m[id].attempts = MaxAttempts - 1 /\ Present(m, id)
    BY <1>2 DEF Passed, Eligible, Row, MailboxTable, Present
  <2>2. LeaseNextMailboxMessage(m, id, t)[id].attempts = MaxAttempts
    BY <2>1, LeaseType
  <2> QED
    BY <1>2, <2>2 DEF Passed
<1> QED
  BY Zenon, <1>1, <1>2

LEMMA PassedStays ==
    ASSUME TypeOK, [Next]_vars, NEW i \in Ids, Passed(mailbox, i),
           \A id \in Ids : ~Send(id) \/ id # i \/ Present(mailbox, i)
    PROVE  Passed(mailbox', i)
<1> USE MailboxTyped
<1>0. \A w \in Workers : /\ TokenOf(w) \in Tokens \cup {NoToken}
                         /\ TokenOf(w) = NoToken <=> Leaseless
  BY Zenon, TokensAreWorkers DEF TokenOf
<1>1. ASSUME NEW id \in Ids, Send(id) PROVE Passed(mailbox', i)
  <2>1. mailbox' = EnqueueMailboxMessage(mailbox, id)
    BY Zenon, <1>1 DEF Send
  <2>2. mailbox'[i] = mailbox[i]
    BY Zenon, <1>1, <2>1 DEF EnqueueMailboxMessage, MailboxTable
  <2> QED
    BY Zenon, <2>2 DEF Passed, Present
<1>2. ASSUME NEW id \in Ids, LeaseExpires(id) \/ BecomesReady(id)
      PROVE  Passed(mailbox', i)
  BY ZenonT(60), <1>2, PassedInTime DEF LeaseExpires, BecomesReady
<1>3. ASSUME NEW w \in Workers, NEW id \in Ids, Claim(w, id)
      PROVE  Passed(mailbox', i)
  BY Zenon, <1>3, PassedClaimed, TokensAreWorkers DEF Claim, IsNext
<1>4. ASSUME NEW w \in Workers, NEW id \in Ids,
             \/ mailbox' = ackMessage(mailbox, id, TokenOf(w))
             \/ mailbox' = nackMessage(mailbox, id, TokenOf(w))
             \/ mailbox' = postponeMessage(mailbox, id, TokenOf(w))
             \/ mailbox' = DeleteMailboxMessage(mailbox, id)
             \/ mailbox' = ExtendMailboxLease(mailbox, id, TokenOf(w))
             \/ mailbox' = mailbox
      PROVE  Passed(mailbox', i)
  <2> DEFINE t == TokenOf(w)
  <2>1. t \in Tokens \cup {NoToken} /\ (t = NoToken <=> Leaseless)
    BY Zenon, <1>0
  <2> HIDE DEF t
  <2>2. /\ Passed(ackMessage(mailbox, id, t), i)
        /\ Passed(nackMessage(mailbox, id, t), i)
        /\ Passed(postponeMessage(mailbox, id, t), i)
        /\ Passed(DeleteMailboxMessage(mailbox, id), i)
        /\ Passed(ExtendMailboxLease(mailbox, id, t), i)
    BY Zenon, <2>1, PassedKept
  <2> QED
    BY Zenon, <1>4, <2>2 DEF t
<1>5. ASSUME NEW w \in Workers,
             \/ HandlePoison(w) \/ SkipDuplicate(w) \/ Release(w)
             \/ DeadLetterLost(w) \/ Commit(w) \/ Heartbeat(w)
      PROVE  Passed(mailbox', i)
  <2>1. worker[w].msg \in Ids
    BY Zenon, <1>5, HeldId
    DEF HandlePoison, SkipDuplicate, Release, DeadLetterLost,
                        Commit, Heartbeat
  <2>2. CASE HandlePoison(w) \/ SkipDuplicate(w) \/ DeadLetterLost(w)
    BY Zenon, <1>4, <2>1, <2>2 DEF HandlePoison, SkipDuplicate, DeadLetterLost
  <2>3. CASE Release(w)
    BY Zenon, <1>4, <2>1, <2>3
    DEF Release, ReleaseOk, ReleasePostpone, ReleaseRetry,
                            ReleaseGiveUp
  <2>4. CASE Commit(w)
    BY Zenon, <1>4, <2>1, <2>4 DEF Commit
  <2>5. CASE Heartbeat(w)
    BY Zenon, <1>4, <2>1, <2>5 DEF Heartbeat, TokenOf
  <2> QED
    BY Zenon, <1>5, <2>2, <2>3, <2>4, <2>5
<1>6. ASSUME NEW w \in Workers,
             \/ Begin(w) \/ BeginUnchecked(w) \/ Fail(w) \/ Postpone(w) \/ Consume(w)
             \/ MarkProcessed(w) \/ MarkProcessedFails(w) \/ ReleaseFails(w)
      PROVE  UNCHANGED mailbox
  BY Zenon, <1>6
  DEF Begin, BeginUnchecked, Fail, Postpone, Consume, MarkProcessed,
              MarkProcessedFails, ReleaseFails
<1>7. Crash \/ UNCHANGED vars => UNCHANGED mailbox
  BY Zenon DEF Crash, vars
<1>8. UNCHANGED mailbox => Passed(mailbox', i)
  BY Zenon DEF Passed, Present
<1> QED
  BY Zenon, <1>1, <1>2, <1>3, <1>5, <1>6, <1>7, <1>8, Dispatch

\* A message is begun by a claim.
LEMMA BegunBefore ==
    ASSUME TypeOK, [Next]_vars, NEW id \in Ids, Begun(id)'
    PROVE  Begun(id) \/ \E w \in Workers : Claim(w, id)
<1> SUFFICES ASSUME ~Begun(id), \A w \in Workers : ~Claim(w, id) PROVE FALSE
  BY Zenon
<1> USE WorkerTyped
<1>1. ASSUME NEW u \in Workers, worker' = [worker EXCEPT ![u] = Idle],
             applied' = applied
      PROVE  FALSE
  <2>1. NoMsg # id
    BY Zenon, ActorAssumption
  <2>2. \A w \in Workers : worker'[w].msg = worker[w].msg \/ worker'[w].msg = NoMsg
    BY Zenon, <1>1 DEF Idle
  <2>3. applied' = applied
    BY Zenon, <1>1
  <2> QED
    BY Zenon, <2>1, <2>2, <2>3 DEF Begun
<1>2. ASSUME UNCHANGED <<worker, applied>> PROVE FALSE
  BY Zenon, <1>2 DEF Begun
<1>3. ASSUME NEW i \in Ids, Send(i) \/ LeaseExpires(i) \/ BecomesReady(i) PROVE FALSE
  BY Zenon, <1>2, <1>3 DEF Send, LeaseExpires, BecomesReady
<1>4. ASSUME NEW u \in Workers, Heartbeat(u) PROVE FALSE
  BY Zenon, <1>2, <1>4 DEF Heartbeat
<1>5. ASSUME NEW u \in Workers, NEW i \in Ids, Claim(u, i) PROVE FALSE
  <2>1. i # id
    BY Zenon, <1>5
  <2>2. worker'[u].msg = i /\ \A w \in Workers \ {u} : worker'[w] = worker[w]
    BY Zenon, <1>5 DEF Claim
  <2>3. applied' = applied
    BY Zenon, <1>5 DEF Claim
  <2> QED
    BY Zenon, <2>1, <2>2, <2>3 DEF Begun
<1>6. ASSUME NEW u \in Workers,
             \/ HandlePoison(u) \/ SkipDuplicate(u) \/ Release(u)
             \/ ReleaseFails(u) \/ DeadLetterLost(u)
      PROVE  FALSE
  <2>1. worker' = [worker EXCEPT ![u] = Idle] /\ applied' = applied
    BY Zenon, <1>6 DEF HandlePoison, SkipDuplicate, Release, ReleaseFails,
                DeadLetterLost
  <2> QED
    BY Zenon, <1>1, <2>1
<1>7. ASSUME NEW u \in Workers,
             \/ Begin(u) \/ BeginUnchecked(u) \/ Postpone(u) \/ Consume(u)
             \/ MarkProcessed(u) \/ MarkProcessedFails(u)
      PROVE  FALSE
  <2>1. applied' = applied /\ \A w \in Workers : worker'[w].msg = worker[w].msg
    BY <1>7 DEF Begin, BeginUnchecked, Postpone, Consume, MarkProcessed,
                MarkProcessedFails, Delivery
  <2> QED
    BY Zenon, <2>1 DEF Begun
<1>8. ASSUME NEW u \in Workers, ReturnError(u), applied' = applied PROVE FALSE
  <2>1. \A w \in Workers : worker'[w].msg = worker[w].msg
    BY <1>8 DEF ReturnError, Delivery
  <2> QED
    BY Zenon, <1>8, <2>1 DEF Begun
<1>9. ASSUME NEW u \in Workers, Fail(u) PROVE FALSE
  BY Zenon, <1>8, <1>9 DEF Fail
<1>10. ASSUME NEW u \in Workers, Commit(u) PROVE FALSE
  <2>1. CASE Matches(mailbox, worker[u].msg, TokenOf(u))
    <3>1. worker[u].msg # id /\ NoMsg # id
      BY Zenon, ActorAssumption DEF Begun
    <3>2. applied' = [applied EXCEPT ![worker[u].msg] = @ + 1]
      BY Zenon, <1>10, <2>1 DEF Commit
    <3>3. applied'[id] = applied[id]
      BY Zenon, <3>1, <3>2 DEF TypeOK
    <3>4. worker' = [worker EXCEPT ![u] = Idle] /\ Idle.msg = NoMsg
      BY Zenon, <1>10, <2>1 DEF Commit, Idle
    <3>5. \A w \in Workers : worker'[w].msg = worker[w].msg \/ worker'[w].msg = NoMsg
      BY Zenon, <3>4
    <3> QED
      BY Zenon, <3>1, <3>3, <3>5 DEF Begun
  <2>2. CASE ~Matches(mailbox, worker[u].msg, TokenOf(u))
    BY Zenon, <1>8, <1>10, <2>2 DEF Commit
  <2> QED
    BY Zenon, <2>1, <2>2
<1>11. ASSUME Crash PROVE FALSE
  <2>1. applied' = applied /\ \A w \in Workers : worker'[w].msg = NoMsg
    BY Zenon, <1>11 DEF Crash, Idle
  <2> QED
    BY Zenon, <2>1, ActorAssumption DEF Begun
<1>12. ASSUME UNCHANGED vars PROVE FALSE
  BY Zenon, <1>2, <1>12 DEF vars
<1> QED
  BY Zenon, <1>3, <1>4, <1>5, <1>6, <1>7, <1>9, <1>10, <1>11, <1>12, Dispatch

\* Writes are committed by a worker that still owns the row.
LEMMA CommitsByWorker ==
    ASSUME TypeOK, [Next]_vars, NEW id \in Ids, applied'[id] > applied[id]
    PROVE  \E w \in Workers : /\ worker[w].msg = id
                              /\ Matches(mailbox, id, TokenOf(w))
<1>0. applied \in [Ids -> Nat]
  BY Zenon DEF TypeOK
<1>1. ASSUME \A w \in Workers : ~Commit(w) PROVE applied' = applied
  BY Zenon, <1>1, Dispatch DEF vars, Send, LeaseExpires, BecomesReady, Claim,
     HandlePoison, SkipDuplicate, Begin, BeginUnchecked, Heartbeat, Fail,
     Postpone, Consume, MarkProcessed, MarkProcessedFails, Release, ReleaseFails,
     DeadLetterLost, Crash
<1>2. PICK w \in Workers : Commit(w)
  BY <1>0, <1>1
<1>3. Matches(mailbox, worker[w].msg, TokenOf(w))
  BY <1>0, <1>2 DEF Commit
<1>4. applied' = [applied EXCEPT ![worker[w].msg] = @ + 1]
  BY Zenon, <1>2, <1>3 DEF Commit
<1>5. worker[w].msg = id
  BY <1>0, <1>4
<1> QED
  BY Zenon, <1>3, <1>5

\* A row is new when it is sent, and only then.
LEMMA PresentBefore ==
    ASSUME TypeOK, [Next]_vars, NEW id \in Ids
    PROVE  /\ sends'[id] # sends[id] => Send(id) /\ sends'[id] = sends[id] + 1
           /\ Present(mailbox', id) => Present(mailbox, id) \/ Send(id)
<1>1. ASSUME NEW i \in Ids, Send(i)
      PROVE  /\ sends'[id] # sends[id] => i = id /\ sends'[id] = sends[id] + 1
             /\ Present(mailbox', id) => Present(mailbox, id) \/ i = id
  <2>1. sends' = [sends EXCEPT ![i] = @ + 1] /\ sends \in [Ids -> Nat]
    BY Zenon, <1>1 DEF Send, TypeOK
  <2>2. mailbox' = EnqueueMailboxMessage(mailbox, i)
    BY Zenon, <1>1 DEF Send
  <2>3. i # id => mailbox'[id] = mailbox[id]
    BY Zenon, <2>2, EnqueueEffect, MailboxTyped
  <2> QED
    BY Zenon, <2>1, <2>3 DEF Present
<1>2. ASSUME \A i \in Ids : ~Send(i)
      PROVE  sends'[id] = sends[id] /\ (Present(mailbox', id) => Present(mailbox, id))
  <2>1. RowEffect /\ UNCHANGED sends
    BY Zenon, <1>2, StepEffect
  <2> QED
    BY Zenon, <2>1 DEF RowEffect, SameRows, Gone, Present
<1> QED
  BY Zenon, <1>1, <1>2

LEMMA OrderStep ==
    ASSUME TypeOK, OrderInv, [Next]_vars
    PROVE  OrderInv'
<1> USE PresentBefore, BegunBefore
<1>0. sends \in [Ids -> Nat] /\ Ids \subseteq Nat
  BY Zenon, StoreAssumption DEF TypeOK
<1>1. \A w \in Workers : \A id \in Ids : Claim(w, id) => Present(mailbox, id)
  BY Zenon DEF Claim, IsNext, Eligible
<1>2. ASSUME NEW id \in Ids PROVE sends'[id] >= sends[id]
  BY <1>0
<1>3. ASSUME NEW id \in Ids, Present(mailbox', id) \/ Begun(id)'
      PROVE  sends'[id] > 0
  <2>1. CASE Present(mailbox, id) \/ Begun(id)
    <3>1. sends[id] > 0
      BY Zenon, <2>1 DEF OrderInv
    <3> QED
      BY <1>0, <1>2, <3>1
  <2>2. CASE ~Present(mailbox, id) /\ ~Begun(id)
    <3>1. Send(id)
      BY Zenon, <1>1, <1>3, <2>2
    <3>2. sends'[id] = sends[id] + 1
      BY Zenon, <1>0, <3>1 DEF Send
    <3> QED
      BY <1>0, <3>2
  <2> QED
    BY Zenon, <2>1, <2>2
<1>4. ASSUME NEW a \in Ids, NEW b \in Ids, Before(a, b), sends'[b] > 0
      PROVE  sends'[a] > 0
  <2>1. CASE sends[b] > 0
    BY <1>0, <1>2, <1>4, <2>1 DEF OrderInv
  <2>2. CASE ~(sends[b] > 0)
    <3>1. Send(b)
      BY Zenon, <1>4, <2>2
    <3>2. sends[a] > 0
      BY Zenon, <1>4, <3>1 DEF Send, Before
    <3> QED
      BY <1>0, <1>2, <3>2
  <2> QED
    BY Zenon, <2>1, <2>2
<1>5. ASSUME NEW a \in Ids, NEW b \in Ids, Before(a, b), sends'[a] <= 1, Begun(b)'
      PROVE  Passed(mailbox', a)
  <2>1. sends[b] > 0
    <3>1. Begun(b) \/ Present(mailbox, b)
      BY Zenon, <1>1, <1>5
    <3> QED
      BY Zenon, <3>1 DEF OrderInv
  <2>2. sends[a] > 0 /\ sends[a] <= 1
    BY <1>0, <1>2, <1>5, <2>1 DEF OrderInv
  <2>3. ~Send(a)
    <3>1. Send(a) => sends'[a] = sends[a] + 1
      BY Zenon, <1>0 DEF Send
    <3> QED
      BY <1>0, <1>5, <2>2, <3>1
  <2>4. Passed(mailbox, a)
    <3>1. CASE Begun(b)
      BY Zenon, <1>5, <2>2, <3>1 DEF OrderInv
    <3>2. ASSUME NEW w \in Workers, Claim(w, b) PROVE Passed(mailbox, a)
      <4>1. ~BlockedByKey(mailbox, b)
        BY Zenon, <3>2 DEF Claim, IsNext, Eligible
      <4>2. Present(mailbox, a) => ~(mailbox[a].attempts < MaxAttempts)
        BY Zenon, <1>5, <4>1 DEF BlockedByKey, Before
      <4>3. Present(mailbox, a) => mailbox[a].attempts \in Nat
        BY Zenon, MailboxTyped DEF Present, MailboxTable, Row
      <4> QED
        BY <4>2, <4>3, StoreAssumption DEF Passed
    <3> QED
      BY Zenon, <1>5, <3>1, <3>2
  <2> QED
    BY Zenon, <2>3, <2>4, PassedStays
<1> QED
  BY Zenon, <1>3, <1>4, <1>5 DEF OrderInv, Before

\* Writes of one key commit in id order, for any pool of workers and whatever
\* is retried, postponed, redelivered or lost: the anti-join of the claim
\* queries lets a message be overtaken on its last attempt only.
THEOREM CommitsInKeyOrder == Spec => KeyOrderUntilLastAttempt
<1> DEFINE Ordered == \A id1, id2 \in Ids :
              /\ id1 < id2 /\ sends[id1] <= 1 /\ KeyOf[id1] = KeyOf[id2] /\ KeyOf[id1] # NoKey
              /\ applied'[id1] > applied[id1]
              => applied[id2] = 0 \/ mailbox[id1].attempts >= MaxAttempts
<1>1. Init => OrderInv
  <2> SUFFICES ASSUME Init, NEW id \in Ids
               PROVE  ~Present(mailbox, id) /\ ~Begun(id) /\ sends[id] = 0
    BY Zenon DEF OrderInv
  <2>1. Idle.msg = NoMsg /\ NoMsg # id
    BY Zenon, ActorAssumption DEF Idle
  <2> QED
    BY <2>1 DEF Init, EmptyMailbox, Present, Begun
<1>2. TypeOK /\ OrderInv /\ [Next]_vars => OrderInv'
  BY OrderStep
<1>3. TypeOK /\ OrderInv /\ [Next]_vars => [Ordered]_vars
  <2> SUFFICES ASSUME TypeOK, OrderInv, [Next]_vars,
                      NEW a \in Ids, NEW b \in Ids, Before(a, b), sends[a] <= 1,
                      applied'[a] > applied[a], applied[b] # 0
               PROVE  mailbox[a].attempts >= MaxAttempts
    BY Zenon DEF Before
  <2>0. applied \in [Ids -> Nat]
    BY Zenon DEF TypeOK
  <2>1. PICK w \in Workers : /\ worker[w].msg = a
                             /\ Matches(mailbox, a, TokenOf(w))
    BY Zenon, CommitsByWorker
  <2>2. Passed(mailbox, a) /\ Present(mailbox, a)
    BY <2>0, <2>1 DEF OrderInv, Begun, Matches
  <2>3. Leaseless \/ mailbox[a].token # NoToken
    BY Zenon, <2>1, TokensAreWorkers DEF Matches, TokenOf
  <2> QED
    BY Zenon, <2>2, <2>3 DEF Passed
<1> QED
  BY <1>1, <1>2, <1>3, TypeCorrect, PTL DEF Spec, KeyOrderUntilLastAttempt

-----------------------------------------------------------------------------
(***************************************************************************)
(* A worker that peeks leaves no row behind.                               *)
(*                                                                         *)
(* The attempts of a peeked row are only counted when it is handed back,   *)
(* so the worker's snapshot is still the row's count, and the dead letter  *)
(* comes before the count reaches the limit.                               *)
(***************************************************************************)
Few(m) == \A id \in Ids : Present(m, id) => m[id].attempts < MaxAttempts

PeekInv ==
    /\ Few(mailbox)
    /\ \A w \in Workers : worker[w].pc # "idle" =>
          /\ Present(mailbox, worker[w].msg)
          /\ mailbox[worker[w].msg].attempts = worker[w].attempts

\* Only a nack counts an attempt of a row that was peeked.
LEMMA FewKept ==
    ASSUME NEW m \in MailboxTable, NEW id \in Ids, Few(m)
    PROVE  /\ Few(DeleteMailboxMessage(m, id))
           /\ Few(ackMessage(m, id, NoToken))
           /\ Few(postponeMessage(m, id, NoToken))
           /\ Few(EnqueueMailboxMessage(m, id))
<1>1. Few(DeleteMailboxMessage(m, id))
  BY Zenon DEF Few, Present, DeleteMailboxMessage, MailboxTable
<1>2. Few(ackMessage(m, id, NoToken))
  BY Zenon, <1>1 DEF ackMessage
<1>3. Few(postponeMessage(m, id, NoToken))
  BY Zenon DEF Few, Present, postponeMessage, Matches, Released, MailboxTable
<1>4. Few(EnqueueMailboxMessage(m, id))
  BY StoreAssumption DEF Few, Present, EnqueueMailboxMessage, MailboxTable
<1> QED
  BY Zenon, <1>1, <1>2, <1>3, <1>4

LEMMA TimeCounts ==
    ASSUME NEW m \in MailboxTable, NEW id \in Ids, Present(m, id), NEW n,
           n = BackoffEnds(m, id) \/ n = LeaseRunsOut(m, id)
    PROVE  \A i \in Ids : Present(m, i) => n[i].attempts = m[i].attempts
<1>1. m[id] \in Row
  BY Zenon DEF Present, MailboxTable
<1>2. n[id].attempts = m[id].attempts
  BY Zenon, <1>1 DEF BackoffEnds, LeaseRunsOut, MailboxTable, Row
<1>3. \A i \in Ids \ {id} : n[i] = m[i]
  BY Zenon DEF BackoffEnds, LeaseRunsOut, MailboxTable
<1> QED
  BY Zenon, <1>2, <1>3

\* The steps of the one worker: it goes back to the claim loop, or it goes on
\* with the row it has peeked.
LEMMA PeekTurns ==
    ASSUME Leaseless, TypeOK, PeekInv, NEW w \in Workers
    PROVE  /\ worker' = [worker EXCEPT ![w] = Idle] /\ Few(mailbox') => PeekInv'
           /\ /\ worker'[w].msg = worker[w].msg
              /\ worker'[w].attempts = worker[w].attempts
              /\ worker[w].pc # "idle"
              /\ UNCHANGED mailbox
              => PeekInv'
<1>1. \A u \in Workers : u = w
  BY ActorAssumption
<1>2. ASSUME worker' = [worker EXCEPT ![w] = Idle], Few(mailbox')
      PROVE  PeekInv'
  <2>1. worker'[w].pc = "idle"
    BY Zenon, <1>2, WorkerTyped DEF Idle
  <2> QED
    BY Zenon, <1>1, <1>2, <2>1 DEF PeekInv
<1>3. ASSUME worker'[w].msg = worker[w].msg, worker'[w].attempts = worker[w].attempts,
             worker[w].pc # "idle", UNCHANGED mailbox
      PROVE  PeekInv'
  BY Zenon, <1>1, <1>3 DEF PeekInv, Few, Present
<1> QED
  BY Zenon, <1>2, <1>3

\* A nack below the limit leaves the row below it.
LEMMA PeekNacks ==
    ASSUME Leaseless, TypeOK, PeekInv, NEW w \in Workers, worker[w].pc # "idle",
           ~ShouldDeadLetter(w)
    PROVE  Few(nackMessage(mailbox, worker[w].msg, NoToken))
<1> DEFINE id == worker[w].msg
<1>0. id \in Ids
  BY Zenon, HeldId
<1>1. Present(mailbox, id) /\ mailbox[id].attempts = worker[w].attempts
  BY Zenon DEF PeekInv
<1>2. worker[w].attempts \in Nat
  BY Zenon, WorkerTyped DEF Delivery
<1>3. mailbox[id].attempts + 1 < MaxAttempts
  BY <1>1, <1>2, StoreAssumption DEF ShouldDeadLetter, EffectiveAttempts
<1> HIDE DEF id
<1>4. nackMessage(mailbox, id, NoToken) =
        [mailbox EXCEPT ![id] = Released(mailbox[id].attempts + 1)]
  BY Zenon, <1>0, <1>1, MailboxTyped DEF nackMessage, Matches, MailboxTable
<1>5. Few([mailbox EXCEPT ![id] = Released(mailbox[id].attempts + 1)])
  BY Zenon, <1>0, <1>3, MailboxTyped
  DEF Few, PeekInv, Released, MailboxTable, Present
<1> QED
  BY Zenon, <1>4, <1>5 DEF id

LEMMA PeekStep ==
    ASSUME Leaseless, TypeOK, PeekInv, [Next]_vars
    PROVE  PeekInv'
<1> USE MailboxTyped, WorkerTyped
<1>0. Few(mailbox) /\ \A w \in Workers : TokenOf(w) = NoToken
  BY Zenon DEF PeekInv, TokenOf
<1>1. ASSUME NEW id \in Ids, Send(id) PROVE PeekInv'
  <2>1. mailbox' = EnqueueMailboxMessage(mailbox, id) /\ UNCHANGED worker
    BY Zenon, <1>1 DEF Send
  <2>2. Few(mailbox')
    BY Zenon, <1>0, <2>1, FewKept
  <2>3. \A i \in Ids : Present(mailbox, i) => mailbox'[i] = mailbox[i]
    BY Zenon, <2>1 DEF EnqueueMailboxMessage, Present, MailboxTable
  <2>4. ASSUME NEW w \in Workers, worker[w].pc # "idle"
        PROVE  /\ Present(mailbox', worker[w].msg)
               /\ mailbox'[worker[w].msg].attempts = worker[w].attempts
    <3>1. worker[w].msg \in Ids
      BY Zenon, <2>4, HeldId
    <3> QED
      BY Zenon, <2>3, <2>4, <3>1 DEF PeekInv, Present
  <2> QED
    BY Zenon, <2>1, <2>2, <2>4 DEF PeekInv
<1>2. ASSUME NEW id \in Ids, LeaseExpires(id) \/ BecomesReady(id) PROVE PeekInv'
  <2>1. UNCHANGED worker /\ Present(mailbox, id)
    BY Zenon, <1>2 DEF LeaseExpires, BecomesReady
  <2>2. mailbox' = BackoffEnds(mailbox, id) \/ mailbox' = LeaseRunsOut(mailbox, id)
    BY Zenon, <1>2 DEF LeaseExpires, BecomesReady
  <2>3. SameRows(mailbox, mailbox')
    BY Zenon, <2>1, <2>2, TimeEffect
  <2>4. \A i \in Ids : Present(mailbox, i) => mailbox'[i].attempts = mailbox[i].attempts
    BY ZenonT(60), <2>1, <2>2, TimeCounts
  <2>5. ASSUME NEW w \in Workers, worker[w].pc # "idle"
        PROVE  /\ Present(mailbox', worker[w].msg)
               /\ mailbox'[worker[w].msg].attempts = worker[w].attempts
    <3>1. worker[w].msg \in Ids
      BY <2>5, HeldId
    <3> QED
      BY Zenon, <2>3, <2>4, <2>5, <3>1 DEF PeekInv, SameRows
  <2> QED
    BY Zenon, <1>0, <2>1, <2>3, <2>4, <2>5 DEF PeekInv, Few, SameRows
<1>3. ASSUME NEW w \in Workers, NEW id \in Ids, Claim(w, id) PROVE PeekInv'
  <2>1. UNCHANGED mailbox /\ Present(mailbox, id)
    BY Zenon, <1>3 DEF Claim, IsNext, Eligible
  <2>2. \A u \in Workers : u = w
    BY ActorAssumption
  <2>3. worker'[w].msg = id /\ worker'[w].attempts = mailbox[id].attempts
    BY Zenon, <1>3, <2>1 DEF Claim
  <2> QED
    BY Zenon, <1>0, <2>1, <2>2, <2>3 DEF PeekInv, Few, Present
<1>4. ASSUME NEW w \in Workers,
             HandlePoison(w) \/ SkipDuplicate(w) \/ Release(w) \/ DeadLetterLost(w)
      PROVE  PeekInv'
  <2>1. worker[w].msg \in Ids /\ worker[w].pc # "idle"
    BY Zenon, <1>4, HeldId
    DEF HandlePoison, SkipDuplicate, Release, DeadLetterLost
  <2>2. worker' = [worker EXCEPT ![w] = Idle]
    BY Zenon, <1>4 DEF HandlePoison, SkipDuplicate, Release, DeadLetterLost
  <2>3. \/ mailbox' = mailbox
        \/ mailbox' = DeleteMailboxMessage(mailbox, worker[w].msg)
        \/ mailbox' = ackMessage(mailbox, worker[w].msg, NoToken)
        \/ mailbox' = postponeMessage(mailbox, worker[w].msg, NoToken)
        \/ /\ ~ShouldDeadLetter(w)
           /\ mailbox' = nackMessage(mailbox, worker[w].msg, NoToken)
    <3>1. CASE HandlePoison(w)
      BY Zenon, <1>0, <3>1 DEF HandlePoison
    <3>2. CASE SkipDuplicate(w) \/ DeadLetterLost(w)
      BY Zenon, <1>0, <3>2 DEF SkipDuplicate, DeadLetterLost
    <3>3. CASE Release(w)
      BY Zenon, <1>0, <3>3
      DEF Release, ReleaseOk, ReleasePostpone, ReleaseRetry, ReleaseGiveUp
    <3> QED
      BY Zenon, <1>4, <3>1, <3>2, <3>3
  <2>4. Few(mailbox')
    BY Zenon, <1>0, <2>1, <2>3, FewKept, PeekNacks
  <2> QED
    BY ZenonT(60), <2>2, <2>4, PeekTurns
<1>5. ASSUME NEW w \in Workers, ReleaseFails(w) PROVE PeekInv'
  BY Zenon, <1>0, <1>5, PeekTurns DEF ReleaseFails
<1>6. ASSUME NEW w \in Workers,
             \/ Begin(w) \/ BeginUnchecked(w) \/ Postpone(w) \/ Consume(w)
             \/ MarkProcessed(w) \/ MarkProcessedFails(w)
      PROVE  PeekInv'
  <2>1. /\ worker'[w].msg = worker[w].msg /\ worker'[w].attempts = worker[w].attempts
        /\ worker[w].pc # "idle" /\ UNCHANGED mailbox
    BY <1>6 DEF Begin, BeginUnchecked, Postpone, Consume, MarkProcessed,
                MarkProcessedFails, Delivery
  <2> QED
    BY Zenon, <2>1, PeekTurns
<1>7. ASSUME NEW w \in Workers, ReturnError(w), worker[w].pc # "idle", UNCHANGED mailbox
      PROVE  PeekInv'
  <2>1. worker'[w].msg = worker[w].msg /\ worker'[w].attempts = worker[w].attempts
    BY ZenonT(60), <1>7 DEF ReturnError, Delivery
  <2> QED
    BY Zenon, <1>7, <2>1, PeekTurns
<1>8. ASSUME NEW w \in Workers, Commit(w) PROVE PeekInv'
  <2>1. worker[w].msg \in Ids /\ worker[w].pc # "idle"
    BY Zenon, <1>8, HeldId DEF Commit
  <2>2. CASE Matches(mailbox, worker[w].msg, TokenOf(w))
    <3>1. /\ worker' = [worker EXCEPT ![w] = Idle]
          /\ mailbox' = ackMessage(mailbox, worker[w].msg, NoToken)
      BY Zenon, <1>0, <1>8, <2>2 DEF Commit
    <3>2. Few(mailbox')
      BY Zenon, <1>0, <2>1, <3>1, FewKept
    <3> QED
      BY ZenonT(60), <3>1, <3>2, PeekTurns
  <2>3. CASE ~Matches(mailbox, worker[w].msg, TokenOf(w))
    BY Zenon, <1>7, <1>8, <2>1, <2>3 DEF Commit
  <2> QED
    BY Zenon, <2>2, <2>3
<1>9. ASSUME NEW w \in Workers, Fail(w) PROVE PeekInv'
  BY Zenon, <1>7, <1>9 DEF Fail
<1>10. ASSUME Crash PROVE PeekInv'
  <2>1. UNCHANGED mailbox /\ \A w \in Workers : worker'[w].pc = "idle"
    BY Zenon, <1>10 DEF Crash, Idle
  <2> QED
    BY Zenon, <1>0, <2>1 DEF PeekInv, Few, Present
<1>11. ASSUME UNCHANGED vars PROVE PeekInv'
  BY Zenon, <1>11 DEF vars, PeekInv, Few, Present
<1>12. \A w \in Workers : ~Heartbeat(w)
  BY Zenon DEF Heartbeat
<1> QED
  BY Zenon, <1>1, <1>2, <1>3, <1>4, <1>5, <1>6, <1>8, <1>9, <1>10, <1>11,
     <1>12, Dispatch

\* With a single worker that peeks (SingleWorkerLeaseless), every row no turn
\* is working on has attempts left and can be claimed again: for any behavior,
\* retry policy, number of failed writes and of crashes.
THEOREM NoRowIsStranded == ASSUME Leaseless PROVE Spec => []NoStrandedRow
<1>1. Init => PeekInv
  BY DEF Init, PeekInv, Few, EmptyMailbox, Present, Idle
<1>2. TypeOK /\ PeekInv /\ [Next]_vars => PeekInv'
  BY Zenon, PeekStep
<1>3. PeekInv => NoStrandedRow
  BY Zenon DEF PeekInv, Few, NoStrandedRow
<1> QED
  BY <1>1, <1>2, <1>3, TypeCorrect, PTL DEF Spec

=============================================================================
