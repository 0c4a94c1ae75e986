----------------------- MODULE ServerConnIngressProofs ----------------------
(***************************************************************************)
(* No envelope is acknowledged before it is committed, and none the        *)
(* committed cursor has passed was skipped: for every log, batch size and  *)
(* mailbox capacity, and any mix of crashes, replayed and failed           *)
(* transactions and lost acknowledgements.                                 *)
(*                                                                         *)
(* Neither property is inductive.  The loop acknowledges its own target    *)
(* and not the committed cursor, so the invariant ties the two together.   *)
(* What the cursor is about to pass is accounted for while the batch is on *)
(* its way: each of its envelopes is still in a partition, or was served   *)
(* or answered before the transaction opened, or has reached its place in  *)
(* the open transaction, which extends the committed rows.                 *)
(***************************************************************************)
EXTENDS ServerConnIngress, WellFoundedInduction, TLAPS

\* The solver gets more time than its default.
USE SMTT(30)

\* The three cursors that commit together are level, and nothing is
\* acknowledged past them.
Level(st) == st.pull = st.disp /\ st.target = st.disp /\ st.acked <= st.disp

\* Event_seqs of a log of length n, and what refers to them.
Upto(n) == 1..n
Parts(n) == [next : 0..(n + 1), responses : SUBSET Upto(n),
             requests : SUBSET Upto(n), durables : SUBSET Upto(n)]
Stores(n) == [ack : AckStates, inbox : Seq(Upto(n)),
              receipts : SUBSET [occ : Nat, payload : Nat],
              quarantine : SUBSET Upto(n)]
Txs(n) == [inbox : Seq(Upto(n)), receipts : SUBSET [occ : Nat, payload : Nat],
           quarantine : SUBSET Upto(n), todo : SUBSET Upto(n)]

TypeInv ==
    /\ log \in Seq(Envelope) /\ Len(log) <= MaxLog
    /\ acked \in Nat /\ ack \in AckStates
    /\ db \in Stores(Len(log))
    /\ redrive \in [deferred : 0..Len(log), served : 0..Len(log)]
    /\ part \in Parts(Len(log))
    /\ tx \in Txs(Len(log))
    /\ deferral \in 0..Len(log)
    /\ served \in [Seqs -> Nat]

CursorInv ==
    /\ Level(ack) /\ Level(db.ack)
    /\ acked <= db.ack.disp /\ db.ack.disp <= Len(log) + 1
    /\ pc # "down" => ack.disp = db.ack.disp

\* Every receipt has its row.  The log is l throughout.
Receipted(l, inbox, receipts) ==
    \A r \in receipts : \E i \in DOMAIN inbox : l[inbox[i]].occ = r.occ

\* The envelope s is where it belongs: among the rows of inbox or the evidence
\* of quarantine, told to the in-memory target (t), served (v) or answered (a).
Reached(l, t, v, a, inbox, quarantine, s) ==
    /\ l[s].kind \in {"event", "poison"} =>
         \/ s \in quarantine
         \/ \E i \in DOMAIN inbox : l[inbox[i]].occ = l[s].occ
    /\ l[s].kind = "memory" => s \in t
    /\ l[s].kind = "memory_poison" => s \in quarantine \cup t
    /\ l[s].kind = "request" => v[s] > 0
    /\ l[s].kind = "durable_response" =>
         s \in a \/ \E i \in DOMAIN inbox : inbox[i] = s

\* It needs no transaction (any more).
Outside(l, v, a, s) == \/ l[s].kind = "foreign"
                       \/ l[s].kind = "request" /\ v[s] > 0
                       \/ l[s].kind \in Responses /\ s \in a

\* The durable rows inbox2 and the evidence quarantine2 extend the others.
Extends(inbox, quarantine, inbox2, quarantine2) ==
    /\ quarantine \subseteq quarantine2
    /\ DOMAIN inbox \subseteq DOMAIN inbox2
    /\ \A i \in DOMAIN inbox : inbox2[i] = inbox[i]

StoreInv ==
    /\ Receipted(log, db.inbox, db.receipts)
    /\ \A s \in Upto(Len(log)) : s < db.ack.pull =>
         Reached(log, told, served, answered, db.inbox, db.quarantine, s)

\* The batch between the cursor pull and p.next, split as p says.
Batch(l, v, a, pull, p) ==
    /\ pull <= p.next
    /\ \A s \in Upto(Len(l)) : pull <= s /\ s < p.next =>
         Outside(l, v, a, s) \/ s \in p.responses \cup p.requests \cup p.durables
    /\ \A s \in p.responses : l[s].kind \in Responses
    /\ \A s \in p.requests : l[s].kind = "request"
    /\ \A s \in p.durables : l[s].kind # "request"
    /\ \A s \in p.responses \cup p.requests \cup p.durables : s < p.next

BatchInv ==
    /\ pc \in {"deliver", "serve", "fold"} =>
         Batch(log, served, answered, ack.pull, part)
    /\ pc \in {"serve", "fold"} => part.responses = {}
    /\ pc = "fold" => part.requests = {}

\* The open transaction extends what is committed, and accounts for all of the
\* durable partition that it has been through, in order.
FoldInv == pc = "fold" =>
    /\ Extends(db.inbox, db.quarantine, tx.inbox, tx.quarantine)
    /\ Receipted(log, tx.inbox, tx.receipts)
    /\ tx.todo \subseteq part.durables
    /\ \A s \in part.durables \ tx.todo :
         Reached(log, told, served, answered, tx.inbox, tx.quarantine, s)
    /\ escaped \subseteq told
    /\ deferral # 0 => deferral \in tx.todo /\ \A s \in tx.todo : deferral <= s

\* The watermark of served requests hides none that was not served.
ServedInv ==
    \A s \in Upto(Len(log)) :
        log[s].kind = "request" /\ s <= redrive.served => served[s] > 0

IngressInv == /\ TypeInv /\ CursorInv /\ StoreInv
              /\ BatchInv /\ FoldInv /\ ServedInv

-----------------------------------------------------------------------------
LEMMA LowestIs ==
    ASSUME NEW n \in Nat, NEW S \in SUBSET Upto(n), S # {}
    PROVE  Lowest(S) \in S /\ \A s \in S : Lowest(S) <= s
<1>1. S \subseteq Nat
  BY DEF Upto
<1>2. \E x \in S : \A y \in S : ~(<<y, x>> \in OpToRel(<, Nat))
  BY Zenon, <1>1, NatLessThanWellFounded, WFMin
<1>3. \A x, y \in Nat : y < x => <<y, x>> \in OpToRel(<, Nat)
  BY Zenon DEF OpToRel
<1>4. \E x \in S : \A y \in S : x <= y
  <2>1. PICK x \in S : \A y \in S : ~(<<y, x>> \in OpToRel(<, Nat))
    BY Zenon, <1>2
  <2>2. \A y \in S : ~(y < x)
    BY Zenon, <1>1, <1>3, <2>1
  <2> QED
    BY <1>1, <2>2
<1> QED
  BY Zenon, <1>4 DEF Lowest

\* What Pull returns is a stretch of the log, so it has a last envelope.
LEMMA WindowIs ==
    ASSUME NEW n, n = Len(log), n \in Nat, log \in Seq(Envelope),
           NEW cursor \in Nat, Window(cursor) # {},
           NEW last,
           last = CHOOSE s \in Window(cursor) : \A t \in Window(cursor) : t <= s
    PROVE  /\ last \in Upto(n) /\ cursor <= last
           /\ \A s \in Upto(n) : s \in Window(cursor) <=> cursor <= s /\ s <= last
           /\ Window(cursor) \subseteq Upto(n)
<1> DEFINE end == Later(cursor, 1) + PullMax - 1
           top == IF n <= end THEN n ELSE end
<1>1. /\ PullMax \in Nat /\ PullMax > 0 /\ Later(cursor, 1) \in Nat
      /\ Later(cursor, 1) >= cursor /\ Later(cursor, 1) >= 1
  BY IngressAssumption DEF Later
<1>2. Window(cursor) = {s \in Upto(n) : s >= cursor /\ s <= end}
  BY <1>1 DEF Window, Upto
<1>e. end \in Nat /\ end >= cursor /\ end >= 1
  BY <1>1
<1> HIDE DEF end
<1>3. top \in Window(cursor) /\ \A t \in Window(cursor) : t <= top
  <2>1. PICK w \in Upto(n) : w >= cursor /\ w <= end
    BY Zenon, <1>2
  <2>2. top \in Upto(n) /\ top >= cursor /\ top <= end
    BY <1>e, <2>1 DEF Upto
  <2>3. \A t \in Upto(n) : t <= end => t <= top
    BY <1>e DEF Upto
  <2> QED
    BY Zenon, <1>2, <2>2, <2>3
<1>4. \E s \in Window(cursor) : \A t \in Window(cursor) : t <= s
  BY Zenon, <1>3
<1>5. last \in Window(cursor) /\ \A t \in Window(cursor) : t <= last
  BY Zenon, <1>4
<1>6. last \in Upto(n) /\ cursor <= last /\ last <= end
  BY Zenon, <1>2, <1>5
<1> QED
  BY <1>2, <1>5, <1>6, <1>e DEF Upto

-----------------------------------------------------------------------------
\* Where the cursors of mailbox/conn/ack_state.go may go.
LEMMA LaterIs ==
    ASSUME NEW a \in Nat, NEW b \in Nat
    PROVE  a <= b => Later(a, b) = b /\ Later(b, a) = b
BY DEF Later

LEMMA CommitMoves ==
    ASSUME NEW st \in AckStates, Level(st), NEW cursor \in Nat, st.pull <= cursor,
           NEW st2, st2 = Committed(st, cursor)
    PROVE  /\ st2 \in AckStates /\ Level(st2)
           /\ st2.disp = cursor /\ st2.disp >= st.disp
<1>1. AdvanceDispatch(st, cursor)
        = [pull |-> st.pull, disp |-> cursor, target |-> cursor,
           acked |-> st.acked]
  <2>1. /\ Later(cursor, st.disp) = cursor /\ Later(cursor, st.target) = cursor
    BY Zenon, LaterIs DEF AckStates, Level
  <2>2. AdvanceDispatch(st, cursor)
          = [st EXCEPT !.disp = cursor, !.target = cursor]
    BY Zenon, <2>1, Zenon DEF AdvanceDispatch
  <2> QED
    BY Zenon, <2>2 DEF AckStates
<1>2. st2 = [pull |-> cursor, disp |-> cursor, target |-> cursor,
             acked |-> st.acked]
  BY <1>1 DEF Committed
<1> QED
  BY <1>2 DEF AckStates, Level

LEMMA AckMoves ==
    ASSUME NEW st \in AckStates, Level(st), NEW st2, st2 = AdvanceAck(st)
    PROVE  st2 \in AckStates /\ Level(st2) /\ st2.disp = st.disp
<1>1. Later(st.target, st.pull) = st.disp
  BY LaterIs DEF AckStates, Level
<1>2. st2 = [pull |-> st.disp, disp |-> st.disp, target |-> st.disp,
             acked |-> st.disp]
  BY Zenon, <1>1 DEF AdvanceAck, AckStates, Level
<1> QED
  BY <1>2 DEF AckStates, Level

\* What is where it belongs stays there.
LEMMA ReachedGrows ==
    ASSUME NEW l, NEW t, NEW v, NEW a, NEW inbox, NEW quarantine, NEW s,
           Reached(l, t, v, a, inbox, quarantine, s),
           NEW t2, NEW v2, NEW a2, NEW inbox2, NEW quarantine2,
           t \subseteq t2, a \subseteq a2, v[s] > 0 => v2[s] > 0,
           Extends(inbox, quarantine, inbox2, quarantine2)
    PROVE  Reached(l, t2, v2, a2, inbox2, quarantine2, s)
BY Zenon DEF Reached, Extends

-----------------------------------------------------------------------------
LEMMA IngressInit ==
    ASSUME Init
    PROVE  IngressInv
<1>1. TypeInv
  <2>1. MaxLog \in Nat
    BY Zenon, IngressAssumption
  <2>2. log = <<>> /\ Len(log) = 0
    BY Zenon DEF Init
  <2>3. /\ db \in Stores(0) /\ ack \in AckStates
    BY DEF Init, EmptyDB, NoCheckpoint, Stores, AckStates
  <2>4. part \in Parts(0) /\ tx \in Txs(0)
    BY DEF Init, NoBatch, NoTx, Parts, Txs
  <2>5. /\ redrive \in [deferred : 0..0, served : 0..0]
        /\ acked \in Nat /\ deferral \in 0..0
    BY DEF Init, FreshRedrive
  <2>6. served \in [Seqs -> Nat]
    BY Zenon DEF Init
  <2> QED
    BY <2>1, <2>2, <2>3, <2>4, <2>5, <2>6 DEF TypeInv
<1>2. CursorInv
  BY DEF Init, CursorInv, Level, EmptyDB, NoCheckpoint
<1>3. StoreInv
  BY DEF Init, StoreInv, Receipted, EmptyDB, Upto
<1>4. BatchInv /\ FoldInv
  BY Zenon DEF Init, BatchInv, FoldInv
<1>5. ServedInv
  BY DEF Init, ServedInv, Upto
<1> QED
  BY Zenon, <1>1, <1>2, <1>3, <1>4, <1>5 DEF IngressInv

dataVars == <<log, acked, db, ack, redrive, part, tx, deferral, escaped, told,
              served, answered>>

\* Steps that touch no data: the loop moves between pulls, or does not move.
LEMMA QuietKeeps ==
    ASSUME IngressInv, UNCHANGED dataVars,
           \/ pc' = pc
           \/ pc # "down" /\ pc' \notin {"deliver", "serve", "fold"}
    PROVE  IngressInv'
<1>1. TypeInv'
  BY Zenon DEF IngressInv, TypeInv, dataVars
<1>2. CursorInv'
  BY Zenon DEF IngressInv, CursorInv, dataVars
<1>3. StoreInv' /\ ServedInv'
  BY Zenon DEF IngressInv, StoreInv, ServedInv, dataVars
<1>4. BatchInv' /\ FoldInv'
  BY Zenon DEF IngressInv, BatchInv, FoldInv, dataVars
<1> QED
  BY Zenon, <1>1, <1>2, <1>3, <1>4 DEF IngressInv

\* A new envelope is past every cursor and every reference into the log.
LEMMA PostKeeps ==
    ASSUME IngressInv, Post
    PROVE  IngressInv'
<1> DEFINE n == Len(log)
<1>a. /\ log \in Seq(Envelope) /\ n \in Nat
      /\ UNCHANGED <<acked, db, pc, ack, redrive, part, tx, deferral, escaped,
                     told, served, answered>>
  BY DEF IngressInv, TypeInv, Post, loopVars, txVars, memVars, registryVars
<1>b. PICK e : /\ e \in UNION {b.envelopes : b \in Scenarios}
               /\ Fits(Posted \cup {e}, n + 1, Requests, hit)
               /\ log' = Append(log, e)
  BY Zenon DEF Post
<1>c. e \in Envelope /\ n + 1 <= MaxLog
  BY <1>a, <1>b, IngressAssumption DEF Fits
<1>d. /\ log' \in Seq(Envelope) /\ Len(log') = n + 1
      /\ \A s \in Upto(n) : log'[s] = log[s]
  BY <1>a, <1>b, <1>c DEF Upto
<1> HIDE DEF n
<1>e. Upto(n) \subseteq Upto(n + 1) /\ 0..n \subseteq 0..(n + 1)
      /\ Upto(n + 1) = Upto(n) \cup {n + 1}
  BY <1>a DEF Upto
<1>t. /\ db \in Stores(n) /\ part \in Parts(n) /\ tx \in Txs(n)
      /\ redrive \in [deferred : 0..n, served : 0..n] /\ deferral \in 0..n
  BY Zenon DEF IngressInv, TypeInv, n
<1>1. TypeInv'
  <2>1. Seq(Upto(n)) \subseteq Seq(Upto(n + 1))
    BY <1>e
  <2>2. db \in Stores(n + 1)
    BY Zenon, <1>t, <1>e, <2>1 DEF Stores
  <2>3. part \in Parts(n + 1)
    <3>1. 0..(n + 1) \subseteq 0..(n + 1 + 1)
      BY <1>a
    <3> QED
      BY Zenon, <1>t, <1>e, <3>1 DEF Parts
  <2>4. tx \in Txs(n + 1)
    BY Zenon, <1>t, <1>e, <2>1 DEF Txs
  <2> QED
    BY Zenon, <1>a, <1>c, <1>d, <1>e, <1>t, <2>2, <2>3, <2>4
       DEF IngressInv, TypeInv
<1>2. CursorInv'
  BY <1>a, <1>d DEF IngressInv, CursorInv, n, TypeInv, Stores, AckStates
<1>r. ASSUME NEW inbox \in Seq(Upto(n)), NEW i \in DOMAIN inbox
      PROVE  log'[inbox[i]] = log[inbox[i]]
  BY <1>d
<1>s. ASSUME NEW s \in Upto(n), NEW inbox \in Seq(Upto(n)), NEW q,
             Reached(log, told, served, answered, inbox, q, s)
      PROVE  Reached(log', told', served', answered', inbox, q, s)
  BY Zenon, <1>a, <1>d, <1>r, <1>s DEF Reached
<1>q. ASSUME NEW inbox \in Seq(Upto(n)), NEW receipts,
             Receipted(log, inbox, receipts)
      PROVE  Receipted(log', inbox, receipts)
  BY Zenon, <1>r, <1>q DEF Receipted
<1>f. db.inbox \in Seq(Upto(n)) /\ tx.inbox \in Seq(Upto(n))
  BY Zenon, <1>t DEF Stores, Txs
<1>3. StoreInv'
  <2>1. db.ack.pull <= n + 1
    BY Zenon DEF IngressInv, CursorInv, Level, n
  <2>2. db.ack.pull \in Nat
    BY Zenon, <1>t DEF Stores, AckStates
  <2>3. Receipted(log', db.inbox, db.receipts)
    BY Zenon, <1>f, <1>q DEF IngressInv, StoreInv
  <2>4. ASSUME NEW s \in Upto(n + 1), s < db.ack.pull
        PROVE  Reached(log', told', served', answered', db.inbox, db.quarantine,
                       s)
    <3>1. s \in Upto(n)
      BY <1>a, <1>e, <2>1, <2>2, <2>4
    <3>2. Reached(log, told, served, answered, db.inbox, db.quarantine, s)
      BY Zenon, <2>4, <3>1 DEF IngressInv, StoreInv, n
    <3> QED
      BY Zenon, <1>f, <1>s, <3>1, <3>2
  <2> QED
    BY Zenon, <1>a, <1>d, <2>3, <2>4 DEF StoreInv
<1>4. ServedInv'
  <2>1. redrive.served <= n
    BY <1>a, <1>t
  <2>2. redrive.served \in Nat
    BY <1>a, <1>t
  <2> QED
    BY <1>a, <1>d, <1>e, <2>1, <2>2 DEF IngressInv, ServedInv, n
<1>5. BatchInv'
  <2>1. /\ part.next <= n + 1 /\ part.next \in Nat
        /\ part.responses \cup part.requests \cup part.durables \subseteq Upto(n)
    BY <1>a, <1>t DEF Parts
  <2>2. Batch(log, served, answered, ack.pull, part) =>
          Batch(log', served, answered, ack.pull, part)
    BY <1>a, <1>d, <1>e, <2>1 DEF Batch, Outside, n
  <2> QED
    BY Zenon, <1>a, <2>2 DEF IngressInv, BatchInv
<1>6. FoldInv'
  <2>1. part.durables \subseteq Upto(n)
    BY Zenon, <1>t DEF Parts
  <2> QED
    BY Zenon, <1>a, <1>f, <1>q, <1>s, <2>1 DEF IngressInv, FoldInv
<1> QED
  BY Zenon, <1>1, <1>2, <1>3, <1>4, <1>5, <1>6 DEF IngressInv

-----------------------------------------------------------------------------
\* A row joins a durable inbox.
LEMMA Appended ==
    ASSUME NEW n \in Nat, NEW inbox \in Seq(Upto(n)), NEW s \in Upto(n),
           NEW inbox2, inbox2 = Append(inbox, s)
    PROVE  /\ inbox2 \in Seq(Upto(n))
           /\ DOMAIN inbox \subseteq DOMAIN inbox2
           /\ \A i \in DOMAIN inbox : inbox2[i] = inbox[i]
           /\ \E i \in DOMAIN inbox2 : inbox2[i] = s
<1>1. Len(inbox) + 1 \in DOMAIN inbox2 /\ inbox2[Len(inbox) + 1] = s
  OBVIOUS
<1> QED
  BY <1>1

\* What EnqueueOnce does to the rows and the receipts.
Enlists(inbox, receipts, s, inbox2, receipts2) ==
    \/ /\ \E r \in receipts : r.occ = log[s].occ
       /\ inbox2 = inbox /\ receipts2 = receipts
    \/ /\ \A r \in receipts : r.occ # log[s].occ
       /\ inbox2 = Append(inbox, s) /\ receipts2 = receipts \cup {Receipt(s)}

\* Afterwards there is a row with the occurrence id of s, whether its own or
\* that of an earlier delivery, and the receipts still have theirs.
Filed(n, inbox, s, inbox2, receipts2) ==
    /\ inbox2 \in Seq(Upto(n))
    /\ receipts2 \in SUBSET [occ : Nat, payload : Nat]
    /\ Receipted(log, inbox2, receipts2)
    /\ Extends(inbox, {}, inbox2, {})
    /\ \E i \in DOMAIN inbox2 : log[inbox2[i]].occ = log[s].occ

LEMMA Enlisted ==
    ASSUME NEW n \in Nat, NEW inbox \in Seq(Upto(n)), NEW receipts,
           receipts \in SUBSET [occ : Nat, payload : Nat],
           log \in Seq(Envelope), n = Len(log),
           NEW s \in Upto(n), Receipted(log, inbox, receipts),
           NEW inbox2, NEW receipts2,
           Enlists(inbox, receipts, s, inbox2, receipts2)
    PROVE  Filed(n, inbox, s, inbox2, receipts2)
<1>1. CASE /\ \E r \in receipts : r.occ = log[s].occ
           /\ inbox2 = inbox /\ receipts2 = receipts
  BY Zenon, <1>1 DEF Receipted, Filed, Extends
<1>2. CASE inbox2 = Append(inbox, s) /\ receipts2 = receipts \cup {Receipt(s)}
  <2>1. /\ inbox2 \in Seq(Upto(n)) /\ DOMAIN inbox \subseteq DOMAIN inbox2
        /\ \A i \in DOMAIN inbox : inbox2[i] = inbox[i]
        /\ \E i \in DOMAIN inbox2 : inbox2[i] = s
    BY <1>2, Appended
  <2>2. log[s] \in Envelope
    BY DEF Upto
  <2>3. Receipt(s) \in [occ : Nat, payload : Nat] /\ Receipt(s).occ = log[s].occ
    BY Zenon, <2>2 DEF Receipt, Envelope
  <2>4. Receipted(log, inbox2, receipts2)
    BY <1>2, <2>1, <2>3 DEF Receipted
  <2> QED
    BY Zenon, <1>2, <2>1, <2>3, <2>4 DEF Filed, Extends
<1> QED
  BY Zenon, <1>1, <1>2 DEF Enlists

\* EnqueueOnce on the store and in the open transaction.
StoreFiles(n, t, s, t2) ==
    /\ t2 \in Stores(n) /\ t2.ack = t.ack
    /\ t2.quarantine = t.quarantine
    /\ Enlists(t.inbox, t.receipts, s, t2.inbox, t2.receipts)
    /\ Receipted(log, t2.inbox, t2.receipts)
    /\ Extends(t.inbox, {}, t2.inbox, {})
    /\ \E i \in DOMAIN t2.inbox : log[t2.inbox[i]].occ = log[s].occ

LEMMA StoreEnqueues ==
    ASSUME NEW n, n = Len(log), n \in Nat, log \in Seq(Envelope),
           NEW t \in Stores(n), NEW s \in Upto(n),
           Receipted(log, t.inbox, t.receipts), NEW t2, t2 = EnqueueOnce(t, s)
    PROVE  StoreFiles(n, t, s, t2)
<1>1. /\ t.inbox \in Seq(Upto(n)) /\ t.ack \in AckStates
      /\ t.receipts \in SUBSET [occ : Nat, payload : Nat]
      /\ t.quarantine \in SUBSET Upto(n)
  BY Zenon DEF Stores
<1>2. /\ t2.ack = t.ack /\ t2.quarantine = t.quarantine
      /\ t2 = [ack |-> t2.ack, inbox |-> t2.inbox, receipts |-> t2.receipts,
               quarantine |-> t2.quarantine]
      /\ Enlists(t.inbox, t.receipts, s, t2.inbox, t2.receipts)
  <2>1. CASE Consumed(t, s)
    <3>1. t2 = t
      BY Zenon, <2>1, Zenon DEF EnqueueOnce
    <3> QED
      BY Zenon, <2>1, <3>1 DEF Consumed, Enlists, Stores
  <2>2. CASE ~Consumed(t, s)
    <3> SUFFICES ASSUME NEW a, a = Append(t.inbox, s), NEW r, r = Receipt(s),
                        t2 = [t EXCEPT !.inbox = a,
                                       !.receipts = t.receipts \cup {r}]
                 PROVE  /\ t2.inbox = a /\ t2.receipts = t.receipts \cup {r}
                        /\ t2.ack = t.ack /\ t2.quarantine = t.quarantine
                        /\ t2 = [ack |-> t2.ack,
                               inbox |-> t2.inbox,
                               receipts |-> t2.receipts,
                               quarantine |-> t2.quarantine]
      BY Zenon, <2>2 DEF EnqueueOnce, Enlists, Consumed
    <3> QED
      BY Zenon DEF Stores
  <2> QED
    BY Zenon, <2>1, <2>2
<1>e. Enlists(t.inbox, t.receipts, s, t2.inbox, t2.receipts)
  BY Zenon, <1>2
<1>3. Filed(n, t.inbox, s, t2.inbox, t2.receipts)
  BY Zenon, <1>1, <1>e, Enlisted
<1>4. t2 \in Stores(n)
  BY Zenon, <1>1, <1>2, <1>3 DEF Stores, Filed
<1> QED
  BY Zenon, <1>2, <1>3, <1>4 DEF Filed, StoreFiles

TxFiles(n, t, s, t2) ==
    /\ t2 \in Txs(n) /\ t2.todo = t.todo
    /\ t2.quarantine = t.quarantine
    /\ Enlists(t.inbox, t.receipts, s, t2.inbox, t2.receipts)
    /\ Receipted(log, t2.inbox, t2.receipts)
    /\ Extends(t.inbox, {}, t2.inbox, {})
    /\ \E i \in DOMAIN t2.inbox : log[t2.inbox[i]].occ = log[s].occ

LEMMA TxEnqueues ==
    ASSUME NEW n, n = Len(log), n \in Nat, log \in Seq(Envelope),
           NEW t \in Txs(n), NEW s \in Upto(n),
           Receipted(log, t.inbox, t.receipts), NEW t2, t2 = EnqueueOnce(t, s)
    PROVE  TxFiles(n, t, s, t2)
<1>1. /\ t.inbox \in Seq(Upto(n)) /\ t.todo \in SUBSET Upto(n)
      /\ t.receipts \in SUBSET [occ : Nat, payload : Nat]
      /\ t.quarantine \in SUBSET Upto(n)
  BY Zenon DEF Txs
<1>2. /\ t2.todo = t.todo /\ t2.quarantine = t.quarantine
      /\ t2 = [inbox |-> t2.inbox, receipts |-> t2.receipts,
               quarantine |-> t2.quarantine, todo |-> t2.todo]
      /\ Enlists(t.inbox, t.receipts, s, t2.inbox, t2.receipts)
  <2>1. CASE Consumed(t, s)
    <3>1. t2 = t
      BY <2>1, Zenon DEF EnqueueOnce
    <3> QED
      BY Zenon, <2>1, <3>1 DEF Consumed, Enlists, Txs
  <2>2. CASE ~Consumed(t, s)
    <3> SUFFICES ASSUME NEW a, a = Append(t.inbox, s), NEW r, r = Receipt(s),
                        t2 = [t EXCEPT !.inbox = a,
                                       !.receipts = t.receipts \cup {r}]
                 PROVE  /\ t2.inbox = a /\ t2.receipts = t.receipts \cup {r}
                        /\ t2.quarantine = t.quarantine /\ t2.todo = t.todo
                        /\ t2 = [inbox |-> t2.inbox,
                               receipts |-> t2.receipts,
                               quarantine |-> t2.quarantine,
                               todo |-> t2.todo]
      BY Zenon, <2>2 DEF EnqueueOnce, Enlists, Consumed
    <3> QED
      BY Zenon DEF Txs
  <2> QED
    BY Zenon, <2>1, <2>2
<1>e. Enlists(t.inbox, t.receipts, s, t2.inbox, t2.receipts)
  BY Zenon, <1>2
<1>3. Filed(n, t.inbox, s, t2.inbox, t2.receipts)
  BY Zenon, <1>1, <1>e, Enlisted
<1>4. t2 \in Txs(n)
  BY Zenon, <1>1, <1>2, <1>3 DEF Txs, Filed
<1> QED
  BY Zenon, <1>2, <1>3, <1>4 DEF Filed, TxFiles

-----------------------------------------------------------------------------
\* Evidence that leaves the quarantine has its row.
LEMMA RetryKeeps ==
    ASSUME IngressInv, RetryQuarantined
    PROVE  IngressInv'
<1> DEFINE n == Len(log)
<1>a. /\ pc = "recover" /\ pc' = pc
      /\ UNCHANGED <<log, acked, ack, redrive, tx, deferral, escaped, served,
                     answered>>
  BY Zenon DEF RetryQuarantined, txVars, registryVars
<1>b. /\ n \in Nat /\ log \in Seq(Envelope) /\ db \in Stores(n)
      /\ part \in Parts(n)
  BY DEF IngressInv, TypeInv
<1> SUFFICES ASSUME NEW s, s = Lowest(part.durables)
             PROVE  IngressInv'
  BY Zenon
<1>c. s \in part.durables /\ s \in Upto(n)
  BY Zenon, <1>b, LowestIs DEF RetryQuarantined, Parts
<1>p. part' \in Parts(n)
  <2>1. part' = [part EXCEPT !.durables = part.durables \ {s}]
    BY Zenon DEF RetryQuarantined
  <2> QED
    BY Zenon, <1>b, <2>1 DEF Parts
<1>d. ASSUME db' \in Stores(n), db'.ack = db.ack, StoreInv'
      PROVE  IngressInv'
  <2>1. TypeInv'
    BY Zenon, <1>a, <1>p, <1>d DEF IngressInv, TypeInv
  <2>2. CursorInv' /\ ServedInv'
    BY Zenon, <1>a, <1>d DEF IngressInv, CursorInv, ServedInv
  <2>3. BatchInv' /\ FoldInv'
    BY Zenon, <1>a DEF BatchInv, FoldInv
  <2> QED
    BY Zenon, <1>d, <2>1, <2>2, <2>3 DEF IngressInv
<1>r. Receipted(log, db.inbox, db.receipts)
  BY Zenon DEF IngressInv, StoreInv
<1>1. CASE db' = db /\ told \subseteq told'
  <2>1. ASSUME NEW x \in Upto(n), x < db.ack.pull
        PROVE  Reached(log, told', served, answered, db.inbox, db.quarantine, x)
    <3>1. Reached(log, told, served, answered, db.inbox, db.quarantine, x)
      BY Zenon, <2>1 DEF IngressInv, StoreInv
    <3> QED
      BY Zenon, <1>1, <3>1 DEF Reached
  <2>2. StoreInv'
    BY Zenon, <1>a, <1>r, <1>1, <2>1 DEF StoreInv
  <2> QED
    BY Zenon, <1>b, <1>d, <1>1, <2>2
<1>2. CASE /\ Readable(s) /\ ~ToMemory(s)
           /\ db' = EnqueueOnce([db EXCEPT !.quarantine = @ \ {s}], s)
           /\ told' = told
  <2> SUFFICES ASSUME NEW freed, freed = [db EXCEPT !.quarantine = @ \ {s}]
               PROVE  IngressInv'
    BY Zenon
  <2>1. /\ freed \in Stores(n) /\ freed.ack = db.ack /\ freed.inbox = db.inbox
        /\ freed.receipts = db.receipts
        /\ freed.quarantine = db.quarantine \ {s}
    BY Zenon, <1>b DEF Stores
  <2>2. db' = EnqueueOnce(freed, s)
    BY Zenon, <1>2
  <2>3. /\ db' \in Stores(n) /\ db'.ack = db.ack
        /\ db'.quarantine = db.quarantine \ {s}
        /\ Receipted(log, db'.inbox, db'.receipts)
        /\ Extends(db.inbox, {}, db'.inbox, {})
        /\ \E i \in DOMAIN db'.inbox : log[db'.inbox[i]].occ = log[s].occ
    <3>1. Receipted(log, freed.inbox, freed.receipts)
      BY Zenon, <1>r, <2>1
    <3>2. StoreFiles(n, freed, s, db')
      BY Zenon, <1>b, <1>c, <2>1, <2>2, <3>1, StoreEnqueues
    <3> QED
      BY Zenon, <2>1, <3>2 DEF StoreFiles
  <2>4. ASSUME NEW x \in Upto(n), x < db.ack.pull
        PROVE  Reached(log, told, served, answered, db'.inbox, db'.quarantine, x)
    <3>1. Reached(log, told, served, answered, db.inbox, db.quarantine, x)
      BY Zenon, <2>4 DEF IngressInv, StoreInv
    <3>2. CASE x = s
      <4>1. log[s].kind # "memory_poison"
        BY Zenon, <1>2 DEF ToMemory, Kind
      <4> QED
        BY Zenon, <2>3, <3>1, <3>2, <4>1 DEF Reached, Extends
    <3>3. CASE x # s
      BY Zenon, <2>3, <3>1, <3>3 DEF Reached, Extends
    <3> QED
      BY Zenon, <3>2, <3>3
  <2>5. StoreInv'
    BY Zenon, <1>a, <1>2, <2>3, <2>4 DEF StoreInv
  <2> QED
    BY Zenon, <1>d, <2>3, <2>5
<1> QED
  BY Zenon, <1>1, <1>2 DEF RetryQuarantined, Hand, memVars

\* The loop between two batches.
LEMMA LoopKeeps ==
    ASSUME IngressInv,
           \/ StartIngress \/ PublishCancel \/ RecheckCompat \/ EnterLoop
           \/ ExitLoop \/ ackPhase \/ PullEmpty \/ PullIncompatible
    PROVE  IngressInv'
<1> DEFINE n == Len(log)
<1>a. /\ n \in Nat /\ db \in Stores(n) /\ part \in Parts(n) /\ ack \in AckStates
      /\ db.ack \in AckStates /\ db.quarantine \in SUBSET Upto(n)
  BY DEF IngressInv, TypeInv, Stores
<1>q. CASE \/ PublishCancel \/ EnterLoop \/ ExitLoop \/ PullIncompatible
  <2>1. UNCHANGED dataVars /\ pc # "down"
        /\ pc' \notin {"deliver", "serve", "fold"}
    BY Zenon, <1>q
    DEF PublishCancel, EnterLoop, ExitLoop, PullIncompatible, dataVars,
                txVars, memVars, registryVars
  <2> QED
    BY Zenon, <2>1, QuietKeeps
<1>1. CASE StartIngress
  <2>1. /\ ack' = db.ack /\ pc' = "loaded"
        /\ UNCHANGED <<log, acked, db, redrive, part, tx, deferral, told, served,
                       answered>>
    BY Zenon, <1>1 DEF StartIngress, txVars, memVars, registryVars
  <2>2. TypeInv' /\ CursorInv'
    BY Zenon, <1>a, <2>1 DEF IngressInv, TypeInv, CursorInv
  <2>3. StoreInv' /\ ServedInv'
    BY Zenon, <2>1 DEF IngressInv, StoreInv, ServedInv
  <2> QED
    BY Zenon, <2>1, <2>2, <2>3 DEF IngressInv, BatchInv, FoldInv
<1>2. CASE RecheckCompat
  <2>1. /\ pc # "down" /\ pc' \in {"recover", "stopped"}
        /\ part' = part \/ part' = [part EXCEPT !.durables = db.quarantine]
        /\ UNCHANGED <<log, acked, db, ack, redrive, tx, deferral, told, served,
                       answered>>
    BY Zenon, <1>2 DEF RecheckCompat, txVars, memVars, registryVars
  <2>2. part' \in Parts(n)
    BY Zenon, <1>a, <2>1 DEF Parts
  <2>3. TypeInv' /\ CursorInv'
    BY Zenon, <2>1, <2>2 DEF IngressInv, TypeInv, CursorInv
  <2>4. StoreInv' /\ ServedInv'
    BY Zenon, <2>1 DEF IngressInv, StoreInv, ServedInv
  <2> QED
    BY Zenon, <2>1, <2>3, <2>4 DEF IngressInv, BatchInv, FoldInv
<1>3. CASE ackPhase
  <2>1. /\ pc = "top" /\ pc' \in {"top", "pull"}
        /\ ack' = ack \/ ack' = AdvanceAck(ack)
        /\ acked' = acked \/ acked' = ack.target
        /\ UNCHANGED <<log, db, redrive, part, tx, deferral, told, served,
                       answered>>
    BY Zenon, <1>3 DEF ackPhase, txVars, memVars, registryVars
  <2>2. ack' \in AckStates /\ Level(ack') /\ ack'.disp = ack.disp
    BY Zenon, <1>a, <2>1, AckMoves DEF IngressInv, CursorInv
  <2>3. acked' \in Nat /\ acked' <= db.ack.disp
    BY <1>a, <2>1 DEF IngressInv, TypeInv, CursorInv, Level, AckStates
  <2>4. TypeInv' /\ CursorInv'
    BY Zenon, <2>1, <2>2, <2>3 DEF IngressInv, TypeInv, CursorInv
  <2>5. StoreInv' /\ ServedInv'
    BY Zenon, <2>1 DEF IngressInv, StoreInv, ServedInv
  <2> QED
    BY Zenon, <2>1, <2>4, <2>5 DEF IngressInv, BatchInv, FoldInv
<1>4. CASE PullEmpty
  <2>1. /\ pc = "pull" /\ pc' = "top"
        /\ db' = db \/ db' = [db EXCEPT !.ack = ack]
        /\ UNCHANGED <<log, acked, ack, redrive, part, tx, deferral, told,
                       served, answered>>
    BY Zenon, <1>4 DEF PullEmpty, txVars, memVars, registryVars
  <2>2. /\ db' \in Stores(n) /\ db'.ack \in {db.ack, ack}
        /\ db'.inbox = db.inbox /\ db'.quarantine = db.quarantine
        /\ db'.receipts = db.receipts
    BY Zenon, <1>a, <2>1 DEF Stores
  <2>3. db'.ack.disp = db.ack.disp /\ db'.ack.pull = db.ack.pull
    BY Zenon, <2>1, <2>2 DEF IngressInv, CursorInv, Level
  <2>4. TypeInv' /\ CursorInv'
    BY Zenon, <2>1, <2>2, <2>3 DEF IngressInv, TypeInv, CursorInv
  <2>5. StoreInv' /\ ServedInv'
    BY Zenon, <2>1, <2>2, <2>3 DEF IngressInv, StoreInv, ServedInv
  <2> QED
    BY Zenon, <2>1, <2>4, <2>5 DEF IngressInv, BatchInv, FoldInv
<1> QED
  BY Zenon, <1>q, <1>1, <1>2, <1>3, <1>4

-----------------------------------------------------------------------------
\* A redriven batch that stops at the deferred envelope leaves none out before.
Within(S, first, last) == \A s \in S : first <= s /\ s <= last

StopsInOrder(n, pull, last, kept, batch) ==
    /\ batch.seqs \subseteq kept /\ batch.next \in 0..(n + 1)
    /\ pull <= batch.next /\ batch.next <= last + 1
    /\ \A s \in kept : s < batch.next <=> s \in batch.seqs

LEMMA Clamped ==
    ASSUME NEW n \in Nat, NEW pull \in Nat, NEW last \in Upto(n), pull <= last,
           NEW kept \in SUBSET Upto(n), Within(kept, pull, last),
           NEW deferred \in 0..n,
           NEW batch, batch = clampToDeferred(kept, last + 1, deferred)
    PROVE  StopsInOrder(n, pull, last, kept, batch)
<1> DEFINE early == {s \in kept : s <= deferred}
<1>0. last \in Nat /\ last <= n /\ deferred \in Nat /\ deferred <= n
      /\ kept \subseteq Nat
  BY DEF Upto
<1>1. CASE deferred = 0 \/ early = {} \/ early = kept
  <2>1. batch = [seqs |-> kept, next |-> last + 1]
    BY Zenon, <1>1 DEF clampToDeferred
  <2> QED
    BY <1>0, <2>1 DEF Within, StopsInOrder
<1>2. CASE ~(deferred = 0 \/ early = {} \/ early = kept)
  <2>1. batch = [seqs |-> early, next |-> deferred + 1]
    BY Zenon, <1>2 DEF clampToDeferred
  <2>2. PICK s \in kept : s <= deferred
    BY Zenon, <1>2
  <2>3. PICK x \in kept : ~(x <= deferred)
    BY Zenon, <1>2
  <2>4. pull <= deferred + 1 /\ deferred + 1 <= last + 1
    BY <1>0, <2>2, <2>3 DEF Within
  <2> QED
    BY <1>0, <2>1, <2>4 DEF Within, StopsInOrder
<1> QED
  BY Zenon, <1>1, <1>2

LEMMA PullKeeps ==
    ASSUME IngressInv, PullBatch
    PROVE  IngressInv'
<1>a. /\ pc = "pull" /\ pc' = "deliver" /\ Window(ack.pull) # {}
      /\ UNCHANGED <<log, acked, db, ack, redrive, tx, deferral, told, served,
                     answered>>
  BY Zenon DEF PullBatch, txVars, memVars, registryVars
<1> SUFFICES ASSUME NEW n, n = Len(log),
                    NEW W, W = Window(ack.pull),
                    NEW last, last = CHOOSE s \in W : \A t \in W : t <= s,
                    NEW kept, kept = {s \in W : Kind(s) # "foreign"},
                    NEW batch,
                    batch = clampToDeferred(kept, last + 1, redrive.deferred)
             PROVE  IngressInv'
  BY Zenon
<1>b. /\ n \in Nat /\ log \in Seq(Envelope) /\ ack.pull \in Nat
      /\ redrive.deferred \in 0..n
  BY DEF IngressInv, TypeInv, AckStates
<1>c. /\ last \in Upto(n) /\ ack.pull <= last
      /\ \A s \in Upto(n) : s \in W <=> ack.pull <= s /\ s <= last
      /\ W \subseteq Upto(n)
  <2>1. W # {}
    BY Zenon, <1>a
  <2> QED
    BY <1>b, <2>1, WindowIs
<1>w. \A s \in Upto(n) : s \in Nat
  BY <1>b DEF Upto
<1>d. /\ batch.seqs \subseteq kept /\ batch.next \in 0..(n + 1)
      /\ ack.pull <= batch.next /\ batch.next <= last + 1
      /\ \A s \in kept : s < batch.next <=> s \in batch.seqs
  <2>1. kept \in SUBSET Upto(n)
    BY Zenon, <1>c
  <2>2. Within(kept, ack.pull, last)
    BY Zenon, <1>c DEF Within
  <2>3. StopsInOrder(n, ack.pull, last, kept, batch)
    BY Zenon, <1>b, <1>c, <2>1, <2>2, Clamped
  <2> QED
    BY Zenon, <2>3 DEF StopsInOrder
<1>e. part' = splitIngressEnvelopes(batch.seqs, batch.next)
  <2>1. last + 1 = 1 + last
    BY <1>c DEF Upto
  <2> QED
    BY Zenon, <2>1 DEF PullBatch
<1>f. /\ part'.next = batch.next
      /\ part'.responses \cup part'.requests \cup part'.durables = batch.seqs
      /\ part' = [next |-> part'.next, responses |-> part'.responses,
                  requests |-> part'.requests, durables |-> part'.durables]
      /\ \A s \in part'.responses : log[s].kind \in Responses
      /\ \A s \in batch.seqs : s \in part'.requests <=> log[s].kind = "request"
      /\ \A s \in part'.durables : s \notin part'.requests
  BY Zenon, <1>e DEF splitIngressEnvelopes, Kind
<1>1. TypeInv'
  <2>1. batch.seqs \in SUBSET Upto(n)
    BY Zenon, <1>c, <1>d
  <2>2. part' \in Parts(n)
    BY ZenonT(60), <1>d, <1>f, <2>1 DEF Parts
  <2> QED
    BY Zenon, <1>a, <2>2 DEF IngressInv, TypeInv
<1>2. CursorInv' /\ StoreInv' /\ ServedInv'
  BY Zenon, <1>a DEF IngressInv, CursorInv, StoreInv, ServedInv
<1>3. Batch(log, served, answered, ack.pull, part')
  <2>1. ASSUME NEW s \in Upto(n), ack.pull <= s, s < batch.next
        PROVE  Outside(log, served, answered, s) \/ s \in batch.seqs
    <3>1. s \in W
      <4>1. s <= last
        BY <1>c, <1>d, <1>w, <2>1
      <4> QED
        BY Zenon, <1>c, <2>1, <4>1
    <3> QED
      BY Zenon, <1>d, <2>1, <3>1 DEF Outside, Kind
  <2>2. \A s \in batch.seqs : s < batch.next
    BY Zenon, <1>d
  <2> QED
    BY ZenonT(60), <1>d, <1>f, <2>1, <2>2 DEF Batch
<1> QED
  BY Zenon, <1>a, <1>1, <1>2, <1>3 DEF IngressInv, BatchInv, FoldInv

\* The batch is dropped, and with it the transaction if one was open.
LEMMA DropKeeps ==
    ASSUME IngressInv, pc # "down", pc' = "top", part' = NoBatch,
           tx' = tx \/ tx' = NoTx, deferral' = deferral \/ deferral' = 0,
           UNCHANGED <<log, acked, db, ack, redrive, told, served, answered>>
    PROVE  IngressInv'
<1>0. Len(log) \in Nat
  BY DEF IngressInv, TypeInv
<1>1. TypeInv'
  <2>1. part' \in Parts(Len(log)) /\ NoTx \in Txs(Len(log))
    BY <1>0 DEF NoBatch, NoTx, Parts, Txs
  <2> QED
    BY <1>0, <2>1 DEF IngressInv, TypeInv
<1>2. CursorInv' /\ StoreInv' /\ ServedInv'
  BY Zenon DEF IngressInv, CursorInv, StoreInv, ServedInv
<1> QED
  BY Zenon, <1>1, <1>2 DEF IngressInv, BatchInv, FoldInv

\* Answering a waiter takes responses out of the batch for good.
LEMMA DeliverKeeps ==
    ASSUME IngressInv, deliverWaiterResponses
    PROVE  IngressInv'
<1>a. /\ pc = "deliver" /\ pc' = "serve"
      /\ UNCHANGED <<log, acked, db, ack, redrive, tx, deferral, told, served>>
  BY Zenon DEF deliverWaiterResponses, txVars, memVars
<1>b. part \in Parts(Len(log)) /\ Batch(log, served, answered, ack.pull, part)
  BY Zenon, <1>a DEF IngressInv, TypeInv, BatchInv
<1>c. answered \subseteq answered'
  BY Zenon DEF deliverWaiterResponses
<1>d. /\ part' \in Parts(Len(log)) /\ part'.responses = {}
      /\ part'.next = part.next /\ part'.requests = part.requests
      /\ \/ part'.durables = part.durables /\ part.responses \subseteq answered'
         \/ part'.durables = part.durables \cup part.responses
  <2>1. CASE /\ part' = [part EXCEPT !.responses = {}]
             /\ answered' = answered \cup part.responses
    BY Zenon, <1>b, <2>1 DEF Parts
  <2>2. CASE part' = [part EXCEPT !.responses = {},
                                  !.durables = part.durables \cup part.responses]
    BY Zenon, <1>b, <2>2 DEF Parts
  <2> QED
    BY Zenon, <2>1, <2>2 DEF deliverWaiterResponses
<1>1. TypeInv'
  BY Zenon, <1>a, <1>d DEF IngressInv, TypeInv
<1>2. CursorInv' /\ ServedInv'
  BY Zenon, <1>a DEF IngressInv, CursorInv, ServedInv
<1>3. StoreInv'
  <2>1. \A s \in Upto(Len(log)) : s < db.ack.pull =>
          Reached(log, told, served, answered', db.inbox, db.quarantine, s)
    BY Zenon, <1>c DEF IngressInv, StoreInv, Reached
  <2> QED
    BY Zenon, <1>a, <2>1 DEF IngressInv, StoreInv
<1>4. Batch(log, served, answered', ack.pull, part')
  BY Zenon, <1>b, <1>c, <1>d DEF Batch, Outside, Responses
<1> QED
  BY Zenon, <1>a, <1>d, <1>1, <1>2, <1>3, <1>4 DEF IngressInv, BatchInv, FoldInv

\* Requests are served in order, so that the watermark covers them all.
LEMMA ServeKeeps ==
    ASSUME IngressInv, dispatchNonTxRequests
    PROVE  IngressInv'
<1> SUFFICES ASSUME NEW n, n = Len(log), NEW s, s = Lowest(part.requests)
             PROVE  IngressInv'
  BY Zenon
<1>a. /\ pc = "serve" /\ part.requests # {}
      /\ UNCHANGED <<log, acked, db, ack, tx, deferral, told, answered>>
  BY Zenon DEF dispatchNonTxRequests, txVars, memVars, registryVars
<1>b. /\ n \in Nat /\ n <= MaxLog /\ part \in Parts(n)
      /\ part.requests \in SUBSET Upto(n)
      /\ part.responses = {} /\ Batch(log, served, answered, ack.pull, part)
      /\ served \in [Seqs -> Nat]
      /\ redrive \in [deferred : 0..n, served : 0..n]
  BY <1>a DEF IngressInv, TypeInv, BatchInv, Parts
<1>c. s \in part.requests /\ \A t \in part.requests : s <= t
  BY Zenon, <1>a, <1>b, LowestIs
<1>d. /\ s \in Upto(n) /\ s \in Seqs /\ s \in 0..n /\ s < part.next
      /\ log[s].kind = "request"
  BY <1>b, <1>c, IngressAssumption DEF Upto, Seqs, Batch
<1>p. ASSUME part' = [part EXCEPT !.requests = part.requests \ {s}]
      PROVE  /\ part' \in Parts(n) /\ part'.next = part.next
             /\ part'.responses = part.responses
             /\ part'.requests = part.requests \ {s}
             /\ part'.durables = part.durables
  BY Zenon, <1>b, <1>p DEF Parts
<1>1. CASE /\ s <= redrive.served /\ UNCHANGED <<served, redrive, pc>>
           /\ part' = [part EXCEPT !.requests = part.requests \ {s}]
  <2>1. served[s] > 0
    BY Zenon, <1>1, <1>d DEF IngressInv, ServedInv
  <2>2. Batch(log, served, answered, ack.pull, part')
    BY Zenon, <1>b, <1>d, <1>p, <1>1, <2>1 DEF Batch, Outside
  <2>3. TypeInv' /\ CursorInv' /\ StoreInv' /\ ServedInv'
    BY Zenon, <1>a, <1>p, <1>1
       DEF IngressInv, TypeInv, CursorInv, StoreInv, ServedInv
  <2> QED
    BY Zenon, <1>a, <1>b, <1>p, <1>1, <2>2, <2>3
    DEF IngressInv, BatchInv, FoldInv
<1>2. CASE /\ ~(s <= redrive.served) /\ pc' = pc
           /\ served' = [served EXCEPT ![s] = served[s] + 1]
           /\ redrive' = [redrive EXCEPT !.served = s]
           /\ part' = [part EXCEPT !.requests = part.requests \ {s}]
  <2>1. /\ served' \in [Seqs -> Nat] /\ served'[s] > 0
        /\ \A t \in Seqs : served[t] > 0 => served'[t] > 0
    BY <1>b, <1>d, <1>2
  <2>2. redrive' \in [deferred : 0..n, served : 0..n] /\ redrive'.served = s
    BY Zenon, <1>b, <1>d, <1>2
  <2>3. Upto(n) \subseteq Seqs
    BY <1>b, IngressAssumption DEF Upto, Seqs
  <2>4. Batch(log, served', answered, ack.pull, part')
    BY Zenon, <1>b, <1>d, <1>p, <1>2, <2>1, <2>3 DEF Batch, Outside
  <2>5. TypeInv' /\ CursorInv'
    BY Zenon, <1>a, <1>p, <1>2, <2>1, <2>2 DEF IngressInv, TypeInv, CursorInv
  <2>6. StoreInv'
    <3>1. \A t \in Upto(n) : t < db.ack.pull =>
            Reached(log, told, served', answered, db.inbox, db.quarantine, t)
      BY Zenon, <2>1, <2>3 DEF IngressInv, StoreInv, Reached
    <3> QED
      BY Zenon, <1>a, <3>1 DEF IngressInv, StoreInv
  <2>7. ServedInv'
    <3> SUFFICES ASSUME NEW t \in Upto(n), log[t].kind = "request", t <= s
                 PROVE  served'[t] > 0
      BY Zenon, <1>a, <2>2 DEF ServedInv
    <3>0. t \in Nat /\ s \in Nat /\ ack.pull \in Nat
      BY <1>d DEF Upto, IngressInv, TypeInv, AckStates
    <3>1. CASE t = s
      BY Zenon, <2>1, <3>1
    <3>2. CASE t # s /\ t < ack.pull
      <4>1. ack.pull = db.ack.pull
        BY Zenon, <1>a DEF IngressInv, CursorInv, Level
      <4>2. Reached(log, told, served, answered, db.inbox, db.quarantine, t)
        BY Zenon, <3>2, <4>1 DEF IngressInv, StoreInv
      <4> QED
        BY Zenon, <2>1, <2>3, <4>2 DEF Reached
    <3>3. CASE t # s /\ ack.pull <= t
      <4>1. t \notin part.requests
        BY <1>c, <3>0, <3>3
      <4>2. t < part.next
        BY <1>b, <1>d, <3>0 DEF Parts
      <4>3. Outside(log, served, answered, t)
        BY Zenon, <1>b, <3>3, <4>1, <4>2 DEF Batch
      <4> QED
        BY Zenon, <2>1, <2>3, <4>3 DEF Outside, Responses
    <3> QED
      BY <3>0, <3>1, <3>2, <3>3
  <2> QED
    BY Zenon, <1>a, <1>b, <1>p, <1>2, <2>4, <2>5, <2>6, <2>7
       DEF IngressInv, BatchInv, FoldInv
<1>3. CASE part' = NoBatch /\ pc' = "top" /\ UNCHANGED <<served, redrive>>
  BY Zenon, <1>a, <1>3, DropKeeps
<1> QED
  BY Zenon, <1>1, <1>2, <1>3 DEF dispatchNonTxRequests, ServeFails

-----------------------------------------------------------------------------
\* The transaction opens, or starts over.
LEMMA OpenKeeps ==
    ASSUME IngressInv, BeginFold \/ ReplayFold
    PROVE  IngressInv'
<1>a. /\ pc' = "fold" /\ tx' = OpenTx /\ deferral' = 0
      /\ UNCHANGED <<log, acked, db, ack, redrive, part, told, served, answered>>
      /\ \/ pc = "serve" /\ part.requests = {} /\ escaped' = {}
         \/ pc = "fold" /\ escaped' = escaped
  BY Zenon DEF BeginFold, ReplayFold, loopVars, memVars, registryVars
<1>b. /\ db \in Stores(Len(log)) /\ part \in Parts(Len(log)) /\ Len(log) \in Nat
  BY DEF IngressInv, TypeInv
<1>c. /\ tx' \in Txs(Len(log)) /\ tx'.inbox = db.inbox
      /\ tx'.quarantine = db.quarantine /\ tx'.receipts = db.receipts
      /\ tx'.todo = part.durables
  BY Zenon, <1>a, <1>b DEF OpenTx, Txs, Stores, Parts
<1>1. TypeInv' /\ CursorInv'
  BY <1>a, <1>b, <1>c DEF IngressInv, TypeInv, CursorInv
<1>2. StoreInv' /\ ServedInv'
  BY Zenon, <1>a DEF IngressInv, StoreInv, ServedInv
<1>3. BatchInv'
  BY Zenon, <1>a DEF IngressInv, BatchInv
<1>4. FoldInv'
  BY Zenon, <1>a, <1>c DEF IngressInv, FoldInv, StoreInv, Extends
<1> QED
  BY Zenon, <1>1, <1>2, <1>3, <1>4 DEF IngressInv

\* One envelope of the durable partition is dealt with.
LEMMA StepKeeps ==
    ASSUME IngressInv, pc = "fold", deferral = 0,
           UNCHANGED <<log, acked, db, pc, ack, redrive, part, deferral, served>>,
           NEW s \in tx.todo, tx' \in Txs(Len(log)),
           tx'.todo = tx.todo \ {s},
           Extends(tx.inbox, tx.quarantine, tx'.inbox, tx'.quarantine),
           Receipted(log, tx'.inbox, tx'.receipts),
           told \subseteq told', answered \subseteq answered',
           escaped' \subseteq told',
           Reached(log, told', served, answered', tx'.inbox, tx'.quarantine, s)
    PROVE  IngressInv'
<1>1. TypeInv' /\ CursorInv' /\ ServedInv'
  BY Zenon DEF IngressInv, TypeInv, CursorInv, ServedInv
<1>2. StoreInv'
  <2>1. \A x \in Upto(Len(log)) : x < db.ack.pull =>
          Reached(log, told', served, answered', db.inbox, db.quarantine, x)
    BY Zenon DEF IngressInv, StoreInv, Reached
  <2> QED
    BY Zenon, <2>1 DEF IngressInv, StoreInv
<1>3. BatchInv'
  <2>1. Batch(log, served, answered, ack.pull, part)
    BY Zenon DEF IngressInv, BatchInv
  <2>2. Batch(log, served, answered', ack.pull, part)
    BY ZenonT(60), <2>1 DEF Batch, Outside
  <2> QED
    BY Zenon, <2>2 DEF IngressInv, BatchInv
<1>4. FoldInv'
  <2>1. Extends(db.inbox, db.quarantine, tx'.inbox, tx'.quarantine)
    BY Zenon DEF IngressInv, FoldInv, Extends
  <2>2. ASSUME NEW x \in part.durables \ tx'.todo
        PROVE  Reached(log, told', served, answered', tx'.inbox, tx'.quarantine,
                       x)
    <3>1. CASE x = s
      BY Zenon, <3>1
    <3>2. CASE x # s
      <4>1. Reached(log, told, served, answered, tx.inbox, tx.quarantine, x)
        BY Zenon, <2>2, <3>2 DEF IngressInv, FoldInv
      <4> QED
        BY ZenonT(60), <4>1, ReachedGrows
    <3> QED
      BY Zenon, <3>1, <3>2
  <2>3. tx'.todo \subseteq part.durables
    BY Zenon DEF IngressInv, FoldInv
  <2> QED
    BY Zenon, <2>1, <2>2, <2>3 DEF FoldInv
<1> QED
  BY Zenon, <1>1, <1>2, <1>3, <1>4 DEF IngressInv

\* Done(t, s) for a transaction t.
LEMMA DoneIs ==
    ASSUME NEW n, NEW t \in Txs(n), NEW s, NEW t2, t2 = Done(t, s)
    PROVE  /\ t2 \in Txs(n) /\ t2.todo = t.todo \ {s} /\ t2.inbox = t.inbox
           /\ t2.receipts = t.receipts /\ t2.quarantine = t.quarantine
BY Zenon DEF Done, Txs

\* The envelope that is being dispatched.
LEMMA DispatchIs ==
    ASSUME IngressInv, NEW s, Dispatching(s)
    PROVE  /\ pc = "fold" /\ deferral = 0 /\ s \in tx.todo /\ s \in Upto(Len(log))
           /\ \A x \in tx.todo : s <= x
           /\ log \in Seq(Envelope) /\ Len(log) \in Nat /\ tx \in Txs(Len(log))
           /\ Receipted(log, tx.inbox, tx.receipts) /\ escaped \subseteq told
           /\ log[s].kind # "request"
<1>1. /\ log \in Seq(Envelope) /\ Len(log) \in Nat /\ tx \in Txs(Len(log))
      /\ tx.todo \in SUBSET Upto(Len(log)) /\ tx.todo # {} /\ pc = "fold"
      /\ s = Lowest(tx.todo)
  BY DEF IngressInv, TypeInv, Txs, Dispatching
<1>2. s \in tx.todo /\ \A x \in tx.todo : s <= x
  BY Zenon, <1>1, LowestIs
<1>3. Batch(log, served, answered, ack.pull, part) /\ tx.todo \subseteq part.durables
  BY Zenon, <1>1 DEF IngressInv, BatchInv, FoldInv
<1>4. log[s].kind # "request"
  BY Zenon, <1>2, <1>3 DEF Batch
<1> QED
  BY Zenon, <1>1, <1>2, <1>4 DEF IngressInv, FoldInv, Dispatching

\* dispatchBatch, envelope by envelope.
LEMMA DispatchKeeps ==
    ASSUME IngressInv,
           \/ SkipEnvelope \/ DispatchDurable \/ DispatchMemory
           \/ DispatchResponse \/ QuarantinePoison
    PROVE  IngressInv'
<1>a. ASSUME NEW s, Dispatching(s), tx' = Done(tx, s),
             UNCHANGED <<log, acked, db, pc, ack, redrive, part, deferral, served>>,
             told \subseteq told', answered \subseteq answered',
             escaped' \subseteq told',
             /\ log[s].kind \notin {"event", "poison", "memory_poison"}
             /\ log[s].kind = "memory" => s \in told'
             /\ log[s].kind = "durable_response" => s \in answered'
      PROVE  IngressInv'
  <2>1. /\ tx' \in Txs(Len(log)) /\ tx'.todo = tx.todo \ {s}
        /\ tx'.inbox = tx.inbox /\ tx'.receipts = tx.receipts
        /\ tx'.quarantine = tx.quarantine
    BY <1>a, DispatchIs, DoneIs
  <2>2. Reached(log, told', served, answered', tx'.inbox, tx'.quarantine, s)
    <3>1. log[s].kind # "request"
      BY Zenon, <1>a, DispatchIs
    <3> QED
      BY ZenonT(60), <1>a, <3>1 DEF Reached
  <2>3. Extends(tx.inbox, tx.quarantine, tx'.inbox, tx'.quarantine)
    BY Zenon, <2>1 DEF Extends
  <2>4. Receipted(log, tx'.inbox, tx'.receipts)
    BY Zenon, <1>a, <2>1, DispatchIs
  <2> QED
    BY ZenonT(60), <1>a, <2>1, <2>2, <2>3, <2>4, DispatchIs, StepKeeps
<1>1. CASE SkipEnvelope
  <2>1. PICK s \in Seqs : /\ Dispatching(s) /\ log[s].kind = "unroutable"
                          /\ tx' = Done(tx, s)
    BY Zenon, <1>1 DEF SkipEnvelope, Kind
  <2>2. UNCHANGED <<log, acked, db, pc, ack, redrive, part, deferral, served,
                    told, answered, escaped>>
    BY Zenon, <1>1 DEF SkipEnvelope, loopVars, memVars, registryVars
  <2>3. escaped \subseteq told
    BY Zenon, <2>1, DispatchIs
  <2> QED
    BY Zenon, <1>a, <2>1, <2>2, <2>3
<1>2. CASE DispatchDurable
  <2>1. PICK s \in Seqs : /\ Dispatching(s) /\ log[s].kind \in {"event", "poison"}
                          /\ tx' = Done(EnqueueOnce(tx, s), s)
    BY Zenon, <1>2 DEF DispatchDurable, Kind
  <2>2. UNCHANGED <<log, acked, db, pc, ack, redrive, part, deferral, served,
                    told, answered, escaped>>
    BY Zenon, <1>2 DEF DispatchDurable, loopVars, memVars, registryVars
  <2> SUFFICES ASSUME NEW t, t = EnqueueOnce(tx, s)
               PROVE  IngressInv'
    BY Zenon
  <2>3. TxFiles(Len(log), tx, s, t)
    BY ZenonT(60), <2>1, DispatchIs, TxEnqueues
  <2>4. /\ t \in Txs(Len(log)) /\ t.todo = tx.todo
        /\ t.quarantine = tx.quarantine /\ Receipted(log, t.inbox, t.receipts)
        /\ Extends(tx.inbox, {}, t.inbox, {})
        /\ \E i \in DOMAIN t.inbox : log[t.inbox[i]].occ = log[s].occ
    BY ZenonT(60), <2>3 DEF TxFiles
  <2>5. /\ tx' \in Txs(Len(log)) /\ tx'.todo = tx.todo \ {s}
        /\ tx'.inbox = t.inbox /\ tx'.receipts = t.receipts
        /\ tx'.quarantine = tx.quarantine
    BY <2>1, <2>4, DoneIs
  <2>6. Reached(log, told', served, answered', tx'.inbox, tx'.quarantine, s)
    BY Zenon, <2>1, <2>4, <2>5 DEF Reached
  <2>7. Extends(tx.inbox, tx.quarantine, tx'.inbox, tx'.quarantine)
    BY Zenon, <2>4, <2>5 DEF Extends
  <2>8. Receipted(log, tx'.inbox, tx'.receipts)
    BY Zenon, <2>4, <2>5
  <2> QED
    BY ZenonT(60), <2>1, <2>2, <2>5, <2>6, <2>7, <2>8, DispatchIs, StepKeeps
<1>3. CASE DispatchMemory
  <2>1. PICK s \in Seqs :
          /\ Dispatching(s) /\ log[s].kind \in {"memory", "memory_poison"}
          /\ \/ /\ s \in escaped /\ tx' = Done(tx, s)
                /\ UNCHANGED <<escaped, deferral, told>>
             \/ /\ told' = told \cup {s} /\ escaped' = escaped \cup {s}
                /\ tx' = Done(tx, s) /\ UNCHANGED deferral
             \/ deferral' = s /\ UNCHANGED <<tx, escaped, told>>
    BY Zenon, <1>3 DEF DispatchMemory, ToMemory, Kind, Hand, memVars
  <2>2. UNCHANGED <<log, acked, db, pc, ack, redrive, part, served, answered>>
    BY Zenon, <1>3 DEF DispatchMemory, loopVars, registryVars
  <2>d. /\ pc = "fold" /\ escaped \subseteq told /\ s \in tx.todo
        /\ s \in Upto(Len(log)) /\ \A x \in tx.todo : s <= x
        /\ Len(log) \in Nat /\ tx \in Txs(Len(log)) /\ deferral = 0
        /\ Receipted(log, tx.inbox, tx.receipts)
    BY Zenon, <2>1, DispatchIs
  <2>3. CASE /\ tx' = Done(tx, s) /\ deferral' = deferral
             /\ told \subseteq told' /\ s \in told' /\ escaped' \subseteq told'
    <3>1. /\ tx' \in Txs(Len(log)) /\ tx'.todo = tx.todo \ {s}
          /\ tx'.inbox = tx.inbox /\ tx'.receipts = tx.receipts
          /\ tx'.quarantine = tx.quarantine
      BY <2>d, <2>3, DoneIs
    <3>2. Reached(log, told', served, answered', tx'.inbox, tx'.quarantine, s)
      BY Zenon, <2>1, <2>3 DEF Reached
    <3>3. Extends(tx.inbox, tx.quarantine, tx'.inbox, tx'.quarantine)
      BY Zenon, <3>1 DEF Extends
    <3>4. Receipted(log, tx'.inbox, tx'.receipts)
      BY Zenon, <2>d, <3>1
    <3> QED
      BY ZenonT(60), <2>2, <2>3, <2>d, <3>1, <3>2, <3>3, <3>4, StepKeeps
  <2>4. CASE deferral' = s /\ UNCHANGED <<tx, escaped, told>>
    <3>1. deferral' \in 0..Len(log)
      BY <2>d, <2>4 DEF Upto
    <3>2. TypeInv' /\ CursorInv'
      BY Zenon, <2>2, <2>4, <3>1 DEF IngressInv, TypeInv, CursorInv
    <3>3. StoreInv' /\ ServedInv'
      BY Zenon, <2>2, <2>4 DEF IngressInv, StoreInv, ServedInv
    <3>4. BatchInv' /\ FoldInv'
      BY ZenonT(60), <2>2, <2>4, <2>d DEF IngressInv, BatchInv, FoldInv
    <3> QED
      BY Zenon, <3>2, <3>3, <3>4 DEF IngressInv
  <2> QED
    BY Zenon, <2>1, <2>3, <2>4, <2>d
<1>4. CASE DispatchResponse
  <2>1. PICK s \in Seqs :
          /\ Dispatching(s) /\ log[s].kind \in Responses
          /\ \/ answered' = answered \cup {s} /\ tx' = Done(tx, s)
             \/ /\ tx' = Done(IF log[s].kind = "durable_response"
                              THEN Enqueue(tx, s) ELSE tx, s)
                /\ answered' = answered
    BY Zenon, <1>4 DEF DispatchResponse, Kind
  <2>2. UNCHANGED <<log, acked, db, pc, ack, redrive, part, deferral, served,
                    told, escaped>>
    BY Zenon, <1>4 DEF DispatchResponse, loopVars, memVars
  <2>d. /\ pc = "fold" /\ escaped \subseteq told /\ s \in tx.todo
        /\ s \in Upto(Len(log)) /\ Len(log) \in Nat /\ tx \in Txs(Len(log))
        /\ deferral = 0 /\ Receipted(log, tx.inbox, tx.receipts)
    BY Zenon, <2>1, DispatchIs
  <2>3. CASE /\ tx' = Done(tx, s) /\ answered \subseteq answered'
             /\ s \in answered' \/ log[s].kind # "durable_response"
    BY Zenon, <1>a, <2>1, <2>2, <2>d, <2>3 DEF Responses
  <2>4. CASE /\ log[s].kind = "durable_response" /\ answered' = answered
             /\ tx' = Done(Enqueue(tx, s), s)
    <3> SUFFICES ASSUME NEW t, t = Enqueue(tx, s),
                        NEW inbox2, inbox2 = Append(tx.inbox, s)
                 PROVE  IngressInv'
      BY Zenon
    <3>1. tx.inbox \in Seq(Upto(Len(log)))
      BY Zenon, <2>d DEF Txs
    <3>2. /\ inbox2 \in Seq(Upto(Len(log)))
          /\ DOMAIN tx.inbox \subseteq DOMAIN inbox2
          /\ \A i \in DOMAIN tx.inbox : inbox2[i] = tx.inbox[i]
          /\ \E i \in DOMAIN inbox2 : inbox2[i] = s
      BY <2>d, <3>1, Appended
    <3>3. t = [tx EXCEPT !.inbox = inbox2]
      BY Zenon DEF Enqueue
    <3>4. /\ t \in Txs(Len(log)) /\ t.inbox = inbox2 /\ t.todo = tx.todo
          /\ t.receipts = tx.receipts /\ t.quarantine = tx.quarantine
      BY Zenon, <2>d, <3>2, <3>3 DEF Txs
    <3>5. /\ tx' \in Txs(Len(log)) /\ tx'.todo = tx.todo \ {s}
          /\ tx'.inbox = inbox2 /\ tx'.receipts = tx.receipts
          /\ tx'.quarantine = tx.quarantine
      BY <2>4, <3>4, DoneIs
    <3>6. Reached(log, told', served, answered', tx'.inbox, tx'.quarantine, s)
      BY Zenon, <2>4, <3>2, <3>5 DEF Reached
    <3>7. Extends(tx.inbox, tx.quarantine, tx'.inbox, tx'.quarantine)
      BY Zenon, <3>2, <3>5 DEF Extends
    <3>8. Receipted(log, tx'.inbox, tx'.receipts)
      BY <2>d, <3>2, <3>5 DEF Receipted
    <3> QED
      BY ZenonT(60), <2>2, <2>4, <2>d, <3>5, <3>6, <3>7, <3>8, StepKeeps
  <2> QED
    BY Zenon, <2>1, <2>3, <2>4
<1>5. CASE QuarantinePoison
  <2>1. PICK s \in Seqs :
          /\ Dispatching(s) /\ log[s].kind \in {"event", "poison", "memory_poison"}
          /\ \/ Abandon
             \/ /\ tx' = Done(QuarantineIngress(tx, s), s)
                /\ UNCHANGED <<escaped, deferral, part, pc>>
    BY Zenon, <1>5 DEF QuarantinePoison, Readable, Kind
  <2>2. UNCHANGED <<log, acked, db, ack, redrive, told, served, answered>>
    BY Zenon, <1>5 DEF QuarantinePoison, registryVars
  <2>d. /\ pc = "fold" /\ escaped \subseteq told /\ s \in tx.todo
        /\ s \in Upto(Len(log)) /\ tx \in Txs(Len(log))
        /\ deferral = 0 /\ Receipted(log, tx.inbox, tx.receipts)
    BY ZenonT(60), <2>1, DispatchIs
  <2>3. CASE Abandon
    BY Zenon, <2>2, <2>d, <2>3, DropKeeps DEF Abandon
  <2>4. CASE /\ tx' = Done(QuarantineIngress(tx, s), s)
             /\ UNCHANGED <<escaped, deferral, part, pc>>
    <3> SUFFICES ASSUME NEW t, t = QuarantineIngress(tx, s)
                 PROVE  IngressInv'
      BY Zenon
    <3>1. t = [tx EXCEPT !.quarantine = tx.quarantine \cup {s}]
      BY Zenon DEF QuarantineIngress
    <3>2. /\ t \in Txs(Len(log)) /\ t.inbox = tx.inbox /\ t.todo = tx.todo
          /\ t.receipts = tx.receipts /\ t.quarantine = tx.quarantine \cup {s}
      BY Zenon, <2>d, <3>1 DEF Txs
    <3>3. /\ tx' \in Txs(Len(log)) /\ tx'.todo = tx.todo \ {s}
          /\ tx'.inbox = tx.inbox /\ tx'.receipts = tx.receipts
          /\ tx'.quarantine = tx.quarantine \cup {s}
      BY <2>4, <3>2, DoneIs
    <3>4. Reached(log, told', served, answered', tx'.inbox, tx'.quarantine, s)
      BY Zenon, <2>1, <3>3 DEF Reached
    <3>5. Extends(tx.inbox, tx.quarantine, tx'.inbox, tx'.quarantine)
      BY Zenon, <3>3 DEF Extends
    <3>6. Receipted(log, tx'.inbox, tx'.receipts)
      BY Zenon, <2>d, <3>3
    <3> QED
      BY ZenonT(60), <2>2, <2>4, <2>d, <3>3, <3>4, <3>5, <3>6, StepKeeps
  <2> QED
    BY Zenon, <2>1, <2>3, <2>4
<1> QED
  BY Zenon, <1>1, <1>2, <1>3, <1>4, <1>5

-----------------------------------------------------------------------------
\* Where a commit leaves the cursor.
LEMMA CommitIs ==
    ASSUME IngressInv, CommitFold, NEW cursor,
           cursor = IF deferral # 0 THEN deferredCursor(deferral, ack.pull)
                    ELSE part.next
    PROVE  /\ cursor \in Nat /\ ack.pull <= cursor /\ cursor <= part.next
           /\ \A s \in tx.todo : s >= ack.pull => cursor <= s
           /\ ack' = Committed(ack, cursor)
           /\ ack' \in AckStates /\ Level(ack') /\ ack'.disp = cursor
           /\ ack'.disp >= ack.disp /\ ack'.pull = cursor
           /\ db' = [ack |-> ack', inbox |-> tx.inbox, receipts |-> tx.receipts,
                     quarantine |-> tx.quarantine]
<1>a. /\ pc = "fold"
      /\ deferral # 0 \/ tx.todo = {}
      /\ ack' = Committed(ack, cursor)
      /\ db' = [ack |-> ack', inbox |-> tx.inbox, receipts |-> tx.receipts,
                quarantine |-> tx.quarantine]
  BY Zenon DEF CommitFold
<1>b. ack \in AckStates /\ part \in Parts(Len(log)) /\ deferral \in 0..Len(log)
      /\ Len(log) \in Nat
  BY DEF IngressInv, TypeInv
<1>c. /\ ack.pull \in Nat /\ part.next \in Nat
      /\ ack.pull <= part.next /\ tx.todo \subseteq part.durables
      /\ \A s \in part.durables : s < part.next
      /\ deferral # 0 => deferral \in tx.todo /\ \A s \in tx.todo : deferral <= s
  <2>1. ack.pull \in Nat /\ part.next \in Nat
    BY <1>b DEF AckStates, Parts
  <2>2. Batch(log, served, answered, ack.pull, part)
    BY Zenon, <1>a DEF IngressInv, BatchInv
  <2>3. ack.pull <= part.next /\ \A s \in part.durables : s < part.next
    BY Zenon, <2>2 DEF Batch
  <2>4. /\ tx.todo \subseteq part.durables
        /\ deferral # 0 => deferral \in tx.todo
                           /\ \A s \in tx.todo : deferral <= s
    BY Zenon, <1>a DEF IngressInv, FoldInv
  <2> QED
    BY Zenon, <2>1, <2>3, <2>4
<1>d. /\ cursor \in Nat /\ ack.pull <= cursor /\ cursor <= part.next
      /\ \A s \in tx.todo : s >= ack.pull => cursor <= s
  <2>1. CASE deferral = 0
    BY <1>a, <1>c, <2>1
  <2>2. CASE deferral # 0
    <3>1. deferral \in Nat /\ deferral < part.next
          /\ \A s \in tx.todo : deferral <= s
      BY <1>b, <1>c, <2>2
    <3>2. cursor = IF deferral <= ack.pull THEN ack.pull ELSE deferral
      BY Zenon, <2>2 DEF deferredCursor
    <3> QED
      BY <1>c, <3>1, <3>2
  <2> QED
    BY Zenon, <2>1, <2>2
<1>e. Level(ack)
  BY Zenon DEF IngressInv, CursorInv
<1>f. /\ ack' \in AckStates /\ Level(ack') /\ ack'.disp = cursor
      /\ ack'.disp >= ack.disp
  BY Zenon, <1>a, <1>b, <1>d, <1>e, CommitMoves
<1> QED
  BY Zenon, <1>a, <1>d, <1>f DEF Level

\* The commit passes no envelope that the transaction has not been through.
LEMMA CommitKeeps ==
    ASSUME IngressInv, CommitFold
    PROVE  IngressInv'
<1> SUFFICES ASSUME NEW n, n = Len(log),
                    NEW cursor, cursor = IF deferral # 0
                                         THEN deferredCursor(deferral, ack.pull)
                                         ELSE part.next,
                    NEW moved, moved = Committed(ack, cursor)
             PROVE  IngressInv'
  BY Zenon
<1>a. /\ pc = "fold" /\ pc' = "top"
      /\ deferral # 0 \/ tx.todo = {}
      /\ ack' = moved
      /\ db' = [ack |-> moved, inbox |-> tx.inbox, receipts |-> tx.receipts,
                quarantine |-> tx.quarantine]
      /\ redrive' = [redrive EXCEPT !.deferred = deferral]
      /\ tx' = NoTx /\ deferral' = 0 /\ part' = NoBatch
      /\ UNCHANGED <<log, acked, told, served, answered>>
  BY Zenon DEF CommitFold, memVars, registryVars
<1>b. /\ n \in Nat /\ tx \in Txs(n) /\ part \in Parts(n) /\ deferral \in 0..n
      /\ ack \in AckStates /\ db.ack \in AckStates
      /\ redrive \in [deferred : 0..n, served : 0..n] /\ acked \in Nat
  BY DEF IngressInv, TypeInv, Stores
<1>c. /\ ack.pull \in Nat /\ part.next \in Nat /\ part.next <= n + 1
      /\ ack.pull <= part.next /\ tx.todo \subseteq part.durables
      /\ part.requests = {} /\ part.responses = {}
      /\ \A s \in part.durables : s < part.next
  <2>1. ack.pull \in Nat /\ part.next \in Nat /\ part.next <= n + 1
    BY <1>b DEF AckStates, Parts
  <2>2. /\ Batch(log, served, answered, ack.pull, part)
        /\ part.requests = {} /\ part.responses = {}
    BY Zenon, <1>a DEF IngressInv, BatchInv
  <2>3. ack.pull <= part.next /\ \A s \in part.durables : s < part.next
    BY Zenon, <2>2 DEF Batch
  <2>4. tx.todo \subseteq part.durables
    BY Zenon, <1>a DEF IngressInv, FoldInv
  <2> QED
    BY Zenon, <2>1, <2>2, <2>3, <2>4
<1>d. /\ cursor \in Nat /\ ack.pull <= cursor /\ cursor <= part.next
      /\ \A s \in tx.todo : s >= ack.pull => cursor <= s
  BY Zenon, CommitIs, Zenon
<1>e. /\ moved \in AckStates /\ Level(moved) /\ moved.disp = cursor
      /\ moved.disp >= ack.disp /\ moved.pull = cursor
  BY Zenon, <1>a, CommitIs, Zenon
<1>f. /\ db'.ack = moved /\ db'.inbox = tx.inbox /\ db'.receipts = tx.receipts
      /\ db'.quarantine = tx.quarantine
  BY Zenon, <1>a
<1>1. TypeInv'
  <2>1. db' \in Stores(n)
    BY Zenon, <1>a, <1>b, <1>e DEF Stores, Txs
  <2>2. part' \in Parts(n) /\ tx' \in Txs(n) /\ deferral' \in 0..n
    BY <1>a, <1>b DEF NoBatch, NoTx, Parts, Txs
  <2>3. redrive' \in [deferred : 0..n, served : 0..n]
    BY Zenon, <1>a, <1>b
  <2> QED
    BY Zenon, <1>a, <1>e, <2>1, <2>2, <2>3 DEF IngressInv, TypeInv
<1>2. CursorInv'
  <2>0. acked <= ack.disp /\ ack.disp \in Nat
    BY Zenon, <1>a, <1>b DEF IngressInv, CursorInv, AckStates
  <2>1. moved.disp <= n + 1 /\ moved.disp \in Nat
    BY <1>b, <1>c, <1>d, <1>e
  <2>2. acked <= moved.disp
    BY <1>b, <1>e, <2>0, <2>1
  <2> QED
    BY Zenon, <1>a, <1>e, <1>f, <2>1, <2>2 DEF CursorInv
<1>3. StoreInv'
  <2>1. Receipted(log, tx.inbox, tx.receipts)
        /\ Extends(db.inbox, db.quarantine, tx.inbox, tx.quarantine)
    BY Zenon, <1>a DEF IngressInv, FoldInv
  <2>2. ASSUME NEW s \in Upto(n), s < cursor
        PROVE  Reached(log, told, served, answered, tx.inbox, tx.quarantine, s)
    <3>1. CASE s < ack.pull
      <4>1. ack.pull = db.ack.pull
        BY Zenon, <1>a DEF IngressInv, CursorInv, Level
      <4>2. Reached(log, told, served, answered, db.inbox, db.quarantine, s)
        BY Zenon, <3>1, <4>1 DEF IngressInv, StoreInv
      <4> QED
        BY Zenon, <2>1, <4>2, ReachedGrows
    <3>2. CASE ack.pull <= s
      <4>1. s < part.next /\ s \in Nat
        BY <1>b, <1>c, <1>d, <2>2 DEF Upto
      <4>2. Outside(log, served, answered, s) \/ s \in part.durables
        BY Zenon, <1>a, <1>c, <3>2, <4>1 DEF IngressInv, BatchInv, Batch
      <4>3. CASE Outside(log, served, answered, s)
        BY Zenon, <4>3 DEF Outside, Reached, Responses
      <4>4. CASE s \in part.durables
        <5>1. s \notin tx.todo
          BY <1>d, <2>2, <3>2, <4>1
        <5> QED
          BY Zenon, <1>a, <4>4, <5>1 DEF IngressInv, FoldInv
      <4> QED
        BY ZenonT(60), <4>2, <4>3, <4>4
    <3>3. s \in Nat /\ ack.pull \in Nat
      BY <1>b, <1>c DEF Upto
    <3> QED
      BY <3>1, <3>2, <3>3
  <2> QED
    BY Zenon, <1>a, <1>e, <1>f, <2>1, <2>2 DEF StoreInv
<1>4. BatchInv' /\ FoldInv'
  BY Zenon, <1>a DEF BatchInv, FoldInv
<1>5. ServedInv'
  <2>1. redrive'.served = redrive.served
    BY Zenon, <1>a, <1>b
  <2> QED
    BY Zenon, <1>a, <2>1 DEF IngressInv, ServedInv
<1> QED
  BY Zenon, <1>1, <1>2, <1>3, <1>4, <1>5 DEF IngressInv

\* Only the database survives, and it is as it was.
LEMMA CrashKeeps ==
    ASSUME IngressInv, Crash
    PROVE  IngressInv'
<1>a. /\ pc' = "down" /\ ack' = NoCheckpoint /\ redrive' = FreshRedrive
      /\ part' = NoBatch /\ tx' = NoTx /\ deferral' = 0
      /\ UNCHANGED <<log, acked, db, told, served, answered>>
  BY Zenon DEF Crash
<1>1. TypeInv'
  <2>1. Len(log) \in Nat
    BY DEF IngressInv, TypeInv
  <2>2. part' \in Parts(Len(log)) /\ tx' \in Txs(Len(log))
        /\ deferral' \in 0..Len(log)
    <3>1. part' \in Parts(Len(log))
      BY <1>a, <2>1 DEF NoBatch, Parts
    <3>2. tx' \in Txs(Len(log))
      BY <1>a DEF NoTx, Txs
    <3> QED
      BY <1>a, <2>1, <3>1, <3>2
  <2>3. /\ redrive' \in [deferred : 0..Len(log), served : 0..Len(log)]
        /\ ack' \in AckStates
    BY <1>a, <2>1 DEF FreshRedrive, NoCheckpoint, AckStates
  <2> QED
    BY Zenon, <1>a, <2>2, <2>3 DEF IngressInv, TypeInv
<1>2. CursorInv'
  BY <1>a DEF IngressInv, CursorInv, NoCheckpoint, Level
<1>3. StoreInv'
  BY Zenon, <1>a DEF IngressInv, StoreInv
<1>4. BatchInv' /\ FoldInv'
  BY Zenon, <1>a DEF BatchInv, FoldInv
<1>5. ServedInv'
  <2>1. redrive'.served = 0
    BY Zenon, <1>a DEF FreshRedrive
  <2> QED
    BY <1>a, <2>1 DEF ServedInv, Upto
<1> QED
  BY Zenon, <1>1, <1>2, <1>3, <1>4, <1>5 DEF IngressInv

LEMMA IngressStep ==
    ASSUME IngressInv, [Next]_vars
    PROVE  IngressInv'
<1>1. CASE Post
  BY Zenon, <1>1, PostKeeps
<1>2. CASE Start
  BY Zenon, <1>2, LoopKeeps, RetryKeeps DEF Start
<1>3. CASE ExitLoop \/ ackPhase \/ PullEmpty \/ PullIncompatible
  BY Zenon, <1>3, LoopKeeps
<1>4. CASE PullBatch \/ deliverWaiterResponses \/ dispatchNonTxRequests
           \/ BeginFold \/ ReplayFold
  BY Zenon, <1>4, PullKeeps, DeliverKeeps, ServeKeeps, OpenKeeps
<1>5. CASE SkipEnvelope \/ DispatchDurable \/ DispatchMemory
           \/ DispatchResponse \/ QuarantinePoison
  BY Zenon, <1>5, DispatchKeeps
<1>6. CASE CommitFold
  BY <1>6, CommitKeeps
<1>7. CASE FailFold
  <2>1. /\ pc = "fold" /\ pc' = "top" /\ part' = NoBatch /\ tx' = NoTx
        /\ deferral' = 0
        /\ UNCHANGED <<log, acked, db, ack, redrive, told, served, answered>>
    BY Zenon, <1>7 DEF FailFold, Abandon, registryVars
  <2> QED
    BY Zenon, <2>1, DropKeeps
<1>8. CASE Crash
  BY <1>8, CrashKeeps
<1>9. CASE TakeMessage \/ Unary \/ Incompatible \/ UNCHANGED vars
  <2>1. UNCHANGED dataVars /\ pc' = pc
    <3>1. CASE TakeMessage
      BY Zenon, <3>1 DEF TakeMessage, dataVars, loopVars, txVars, registryVars
    <3>2. CASE Unary
      BY Zenon, <3>2
      DEF Unary, SendRPC, Register, EdgeSend, AwaitRPC, RecheckAwait,
                  Return, PruneStale, CallerStep, dataVars, loopVars, txVars,
                  memVars
    <3>3. CASE Incompatible
      BY Zenon, <3>3 DEF Incompatible, PermanentStatus, CancelIngress, FailAll,
                  dataVars, loopVars, txVars, memVars, registryVars
    <3>4. CASE UNCHANGED vars
      BY Zenon, <3>4 DEF vars, dataVars, loopVars, txVars, memVars, registryVars
    <3> QED
      BY Zenon, <1>9, <3>1, <3>2, <3>3, <3>4
  <2> QED
    BY Zenon, <2>1, QuietKeeps
<1> QED
  BY ZenonT(60), <1>1, <1>2, <1>3, <1>4, <1>5, <1>6, <1>7, <1>8, <1>9
     DEF Next, Ingress, Fold

-----------------------------------------------------------------------------
(* mailbox/conn/ack_state.go, "ack_committed_to <= dispatch_committed_to",  *)
(* and what the server was asked to drop is below the committed dispatch    *)
(* watermark: for every log, batch size and mailbox capacity, and whatever  *)
(* crashes, rollbacks, replays and lost acknowledgements come.              *)
THEOREM AckedStaysCommitted == Spec => []AckedIsCommitted
<1>1. Init => IngressInv
  BY Zenon, IngressInit
<1>2. IngressInv /\ [Next]_vars => IngressInv'
  BY Zenon, IngressStep
<1>3. IngressInv => AckedIsCommitted
  BY Zenon DEF IngressInv, CursorInv, Level, AckedIsCommitted
<1> QED
  BY <1>1, <1>2, <1>3, PTL DEF Spec

(* runFoldedDispatch, "the cursor can never run ahead of the enqueues":     *)
(* every envelope the committed cursor has passed is in a durable inbox or  *)
(* in quarantine, was handed to its in-memory actor or its waiter, or was   *)
(* served.                                                                  *)
THEOREM NoneIsSkipped == Spec => []NothingSkipped
<1>1. Init => IngressInv
  BY IngressInit
<1>2. IngressInv /\ [Next]_vars => IngressInv'
  BY IngressStep
<1>3. IngressInv => NothingSkipped
  <2> SUFFICES ASSUME IngressInv, NEW s \in DOMAIN log, s < db.ack.pull
               PROVE  Handled(s)
    BY Zenon DEF NothingSkipped
  <2>1. s \in Upto(Len(log))
    BY DEF IngressInv, TypeInv, Upto
  <2>2. Reached(log, told, served, answered, db.inbox, db.quarantine, s)
    BY Zenon, <2>1 DEF IngressInv, StoreInv
  <2>3. Kind(s) \in {"event", "poison"} => s \in db.quarantine \/ EnqueuedOcc(s)
    BY Zenon, <2>2 DEF Reached, Kind, EnqueuedOcc, Rows
  <2>4. Kind(s) = "durable_response" => s \in Rows \cup answered
    BY Zenon, <2>2 DEF Reached, Kind, Rows
  <2>5. /\ Kind(s) = "memory" => s \in told
        /\ Kind(s) = "memory_poison" => s \in db.quarantine \cup told
        /\ Kind(s) = "request" => served[s] > 0
    BY Zenon, <2>2 DEF Reached, Kind
  <2> QED
    BY Zenon, <2>3, <2>4, <2>5 DEF Handled
<1> QED
  BY <1>1, <1>2, <1>3, PTL DEF Spec

(* DeleteIngressQuarantine: whatever the fold does, evidence leaves only in *)
(* the commit that gives its event to a durable inbox.                      *)
THEOREM EvidenceStays == Spec => EvidenceKept
<1> DEFINE Kept == \A s \in db.quarantine \ db'.quarantine :
                     \E i \in DOMAIN db'.inbox :
                        log[db'.inbox[i]].occ = log[s].occ
<1>1. Init => IngressInv
  BY IngressInit
<1>2. IngressInv /\ [Next]_vars => IngressInv'
  BY IngressStep
<1>3. IngressInv /\ [Next]_vars => [Kept]_vars
  <2> SUFFICES ASSUME IngressInv, Next
               PROVE  Kept
    BY ZenonT(60)
  <2>1. CASE RetryQuarantined
    <3> SUFFICES ASSUME NEW s, s = Lowest(part.durables),
                        NEW freed, freed = [db EXCEPT !.quarantine = @ \ {s}],
                        db' = EnqueueOnce(freed, s)
                 PROVE  Kept
      BY Zenon, <2>1 DEF RetryQuarantined
    <3>1. /\ log \in Seq(Envelope) /\ Len(log) \in Nat /\ db \in Stores(Len(log))
          /\ Receipted(log, db.inbox, db.receipts) /\ part \in Parts(Len(log))
          /\ part.durables # {}
      BY <2>1 DEF IngressInv, TypeInv, StoreInv, RetryQuarantined
    <3>2. s \in Upto(Len(log))
      BY Zenon, <3>1, LowestIs DEF Parts
    <3>3. /\ freed \in Stores(Len(log)) /\ freed.inbox = db.inbox
          /\ freed.receipts = db.receipts /\ freed.quarantine = db.quarantine \ {s}
      BY Zenon, <3>1 DEF Stores
    <3>4. Receipted(log, freed.inbox, freed.receipts)
      BY Zenon, <3>1, <3>3
    <3>5. StoreFiles(Len(log), freed, s, db')
      BY Zenon, <3>1, <3>2, <3>3, <3>4, StoreEnqueues
    <3>6. /\ db'.quarantine = db.quarantine \ {s}
          /\ \E i \in DOMAIN db'.inbox : log[db'.inbox[i]].occ = log[s].occ
      BY Zenon, <3>3, <3>5 DEF StoreFiles
    <3> QED
      BY <3>6
  <2>2. CASE CommitFold
    <3>1. db'.quarantine = tx.quarantine /\ db.quarantine \subseteq tx.quarantine
      BY Zenon, <2>2 DEF CommitFold, IngressInv, FoldInv, Extends
    <3> QED
      BY Zenon, <3>1
  <2>3. CASE PullEmpty
    <3>1. db'.quarantine = db.quarantine
      <4>1. db \in Stores(Len(log))
        BY Zenon DEF IngressInv, TypeInv
      <4>2. db' = db \/ db' = [db EXCEPT !.ack = ack]
        BY Zenon, <2>3 DEF PullEmpty
      <4> QED
        BY Zenon, <4>1, <4>2 DEF Stores
    <3> QED
      BY Zenon, <3>1
  <2>4. CASE db' = db
    BY Zenon, <2>4
  <2>5. CASE Start /\ ~RetryQuarantined
    BY Zenon, <2>4, <2>5
    DEF Start, StartIngress, PublishCancel, RecheckCompat, EnterLoop
  <2>6. CASE Fold /\ ~CommitFold
    BY Zenon, <2>4, <2>6
    DEF Fold, SkipEnvelope, DispatchDurable, DispatchMemory,
       DispatchResponse, QuarantinePoison, ReplayFold, FailFold
  <2>7. CASE Ingress /\ ~PullEmpty /\ ~Start /\ ~Fold
    BY Zenon, <2>4, <2>7
    DEF Ingress, ExitLoop, ackPhase, PullBatch, PullIncompatible,
       deliverWaiterResponses, dispatchNonTxRequests, ServeFails, BeginFold
  <2>8. CASE Unary
    BY Zenon, <2>4, <2>8
    DEF Unary, SendRPC, Register, EdgeSend, AwaitRPC, RecheckAwait,
       Return, PruneStale, CallerStep
  <2>9. CASE Post \/ TakeMessage \/ Crash \/ Incompatible
    BY Zenon, <2>4, <2>9
    DEF Post, TakeMessage, Crash, Incompatible, PermanentStatus,
       CancelIngress, FailAll
  <2> QED
    BY ZenonT(60), <2>1, <2>2, <2>3, <2>5, <2>6, <2>7, <2>8, <2>9
    DEF Next, Ingress, Start, Fold
<1> QED
  BY <1>1, <1>2, <1>3, PTL DEF Spec, EvidenceKept

=============================================================================
