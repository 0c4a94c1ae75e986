-------------------------- MODULE UnrollActorProofs --------------------------
(***************************************************************************)
(* What the broadcaster (package txconfirm) and the job of an exit         *)
(* (package unroll) keep, for any number of transactions, subscribers,     *)
(* sweeps and scenarios.  UnrollProofs composes the operations below.      *)
(*                                                                         *)
(* Story: for every transaction the entry, the parked tells, the           *)
(* goroutines and what each subscriber has heard tell the same story.  Who *)
(* is in the entry and not owed TxConfirmed has heard of the transaction,  *)
(* and what an entry that is confirmed or final still owes is parked.  The *)
(* second half keeps a TxFinalized from overtaking the owed TxConfirmed:   *)
(* notifyOneTerminal does not tell what is parked already, and             *)
(* handleTerminalNotifyResult clears the debt before the entry may         *)
(* finalize.                                                               *)
(*                                                                         *)
(* Reported: what an entry, a parked tell, a goroutine or a message says   *)
(* of a sweep is so, while nothing is reorganised.                         *)
(*                                                                         *)
(* Actor and Owned: what the job, its checkpoint and the rest of its       *)
(* handler claim is so, and the job knows every sweep of its own that is   *)
(* out.                                                                    *)
(***************************************************************************)
EXTENDS UnrollActor, TLAPS

\* The solver gets more time than its default.
USE SMTT(30)

\* What a reliable tell carries, and the entries of the broadcaster.
Reliable == {"confirmed", "finalized", "failed"}
Classes == {"", "fee", "permanent", "structural"}
Entries == [st : States, subs : SUBSET Subs, owed : SUBSET Subs, height : Nat,
            class : Classes]
Final == {"confirmed", "finalized"}

\* The parked tells and the goroutines, field by field.
ParkedShape(k) ==
    /\ k = [note |-> k.note, sub |-> k.sub, told |-> k.told]
    /\ k.note.kind \in Reliable /\ k.sub \in Subs
    /\ k.told \in {"no", "yes", "stopped"}
FlightShape(f) ==
    /\ f \in [note : {f.note}, sub : {f.sub}, checked : BOOLEAN]
    /\ f.note.kind \in {"confirmed", "reorged"} /\ f.sub \in Subs

\* The type invariant of the broadcaster.
Ledger ==
    /\ height \in Nat /\ mined \in [Txs -> Nat]
    /\ tracked \in [Txs -> Entries]
    /\ heard = [s \in Subs |-> [tx \in Txs |-> heard[s][tx]]]
    /\ \A k \in parked : ParkedShape(k)
    /\ \A f \in flights : FlightShape(f)

\* Who is in the entry and not owed TxConfirmed has heard of the transaction;
\* who is owed it by a confirmed entry has it parked.
Informed(e, tx) == \A s \in e.subs \ e.owed : heard[s][tx] # "none"
Pending(e, tx) == \A s \in e.owed : IsParked("confirmed", tx, s)
Spoken(k) == k.told = "yes" \/ k.note.kind = "finalized"
StoryAt(tx) ==
    /\ Informed(tracked[tx], tx)
    /\ tracked[tx].st \in Final => Pending(tracked[tx], tx)
    /\ \A k \in parked :
        k.note.tx = tx /\ Spoken(k) => heard[k.sub][tx] # "none"
    /\ \A f \in flights :
        f.note.tx = tx /\ f.note.kind = "reorged" => heard[f.sub][tx] # "none"
Story == Ledger /\ \A tx \in Txs : StoryAt(tx)

\* A step that is about the transaction x only.
About(x) ==
    /\ \A y \in Txs \ {x} : /\ tracked'[y] = tracked[y]
                            /\ \A s \in Subs : heard'[s][y] = heard[s][y]
    /\ \A k \in parked' : k \in parked \/ k.note.tx = x
    /\ \A k \in parked : k \in parked' \/ k.note.tx = x
    /\ \A f \in flights' : f \in flights \/ f.note.tx = x
\* Somebody's first notification is one of these.
Premature(kinds) ==
    \E s \in Subs, tx \in Txs : heard[s][tx] = "none" /\ heard'[s][tx] \in kinds

-----------------------------------------------------------------------------
\* Heard: the history of a reliable tell, subscriber by subscriber.
LEMMA HeardStep ==
    ASSUME heard = [s \in Subs |-> [tx \in Txs |-> heard[s][tx]]],
           NEW who, NEW note, heard' = Heard(who, note)
    PROVE  /\ heard' = [s \in Subs |-> [tx \in Txs |-> heard'[s][tx]]]
           /\ \A s \in Subs, tx \in Txs :
                heard'[s][tx] = IF s \in who /\ tx = note.tx THEN note.kind
                                                            ELSE heard[s][tx]
<1>1. ASSUME NEW s \in Subs
      PROVE  /\ heard'[s] = [tx \in Txs |-> heard'[s][tx]]
             /\ \A tx \in Txs :
                  heard'[s][tx] = IF s \in who /\ tx = note.tx THEN note.kind
                                                              ELSE heard[s][tx]
  <2>1. heard[s] = [tx \in Txs |-> heard[s][tx]]
    BY Zenon
  <2>2. heard'[s] = IF s \in who THEN [heard[s] EXCEPT ![note.tx] = note.kind]
                                 ELSE heard[s]
    BY Zenon DEF Heard
  <2>3. CASE s \in who
    BY Zenon, <2>1, <2>2, <2>3
  <2>4. CASE s \notin who
    BY Zenon, <2>1, <2>2, <2>4
  <2> QED
    BY Zenon, <2>3, <2>4
<1>2. heard' = [s \in Subs |-> heard'[s]]
  BY Zenon DEF Heard
<1>3. heard' = [s \in Subs |-> [tx \in Txs |-> heard'[s][tx]]]
  BY Zenon, <1>1, <1>2
<1> QED
  BY Zenon, <1>1, <1>3

\* evictTerminal and removeSubscriber: what is left of an entry holds no one
\* new, and nobody's debt changes.
LEMMA EntryTypes ==
    ASSUME NEW e \in Entries, NEW gone
    PROVE  /\ Kept(e) \in Entries /\ Kept(e).st \in {e.st, "none"}
           /\ \A s \in Kept(e).subs :
                s \in e.subs /\ (s \in Kept(e).owed <=> s \in e.owed)
           /\ Kept(e).owed \subseteq e.owed
           /\ Without(e, gone) \in Entries
           /\ Without(e, gone).st \in {e.st, "none"}
           /\ \A s \in Without(e, gone).subs :
                /\ s \in e.subs /\ s \notin gone
                /\ s \in Without(e, gone).owed <=> s \in e.owed
           /\ \A s \in Without(e, gone).owed : s \in e.owed /\ s \notin gone
<1>1. /\ Untracked \in Entries /\ Untracked.st = "none"
      /\ Untracked.subs = {} /\ Untracked.owed = {}
  BY Zenon DEF Untracked, Entries, States, Classes
<1>2. \A f \in Entries : /\ Kept(f) \in Entries /\ Kept(f).st \in {f.st, "none"}
                         /\ \A s \in Kept(f).subs :
                              s \in f.subs /\ (s \in Kept(f).owed <=> s \in f.owed)
                         /\ Kept(f).owed \subseteq f.owed
  BY Zenon, <1>1 DEF Kept
<1> DEFINE f == [e EXCEPT !.subs = @ \ gone, !.owed = @ \ gone]
<1>3. /\ f \in Entries /\ f.st = e.st
      /\ f.subs = e.subs \ gone /\ f.owed = e.owed \ gone
  BY Zenon DEF Entries
<1>4. \/ gone = {} /\ Without(e, gone) = e
      \/ Without(e, gone) = Kept(f)
  BY Zenon DEF Without
<1> HIDE DEF f
<1>5. CASE gone = {} /\ Without(e, gone) = e
  BY Zenon, <1>2, <1>5
<1>6. CASE Without(e, gone) = Kept(f)
  BY Zenon, <1>2, <1>3, <1>6
<1> QED
  BY Zenon, <1>4, <1>5, <1>6

\* notifyOneTerminal: a tell that neither landed nor found the mailbox closed
\* is parked.
LEMMA Settles ==
    ASSUME NEW kind, NEW tx, NEW e, NEW who, NEW slow, NEW s \in who,
           s \notin Landed(kind, tx, who, slow), s \notin Stopped(kind, tx, who),
           parked' = parked \cup Parked(kind, tx, e, who, slow)
    PROVE  IsParked(kind, tx, s)'
<1>1. CASE IsParked(kind, tx, s)
  BY Zenon, <1>1 DEF IsParked
<1>2. CASE ~IsParked(kind, tx, s)
  <2>1. s \in (who \cap slow) \ closed
    BY Zenon, <1>2 DEF Landed, Stopped
  <2> DEFINE k == [note |-> Note(kind, tx, e), sub |-> s, told |-> "no"]
  <2>2. k \in parked'
    BY Zenon, <1>2, <2>1 DEF Parked
  <2>3. k.note.kind = kind /\ k.note.tx = tx /\ k.sub = s
    BY Zenon DEF Note
  <2> QED
    BY Zenon, <2>2, <2>3 DEF IsParked
<1> QED
  BY Zenon, <1>1, <1>2

\* What notifyOneTerminal parks.
LEMMA ParkedShapes ==
    ASSUME NEW kind \in Reliable, NEW tx, NEW e, NEW who \in SUBSET Subs,
           NEW slow, NEW k \in Parked(kind, tx, e, who, slow)
    PROVE  /\ ParkedShape(k) /\ k.note.tx = tx /\ k.note.kind = kind
           /\ k.told = "no" /\ k.sub \in who
<1>1. PICK s \in who : k = [note |-> Note(kind, tx, e), sub |-> s, told |-> "no"]
  BY Zenon DEF Parked
<1> QED
  BY Zenon, <1>1 DEF Note, ParkedShape

\* What notifyReversibleAsync sends.
LEMMA FlightShapes ==
    ASSUME NEW kind \in {"confirmed", "reorged"}, NEW tx, NEW e,
           NEW who \in SUBSET Subs, NEW f \in Fly(kind, tx, e, who)
    PROVE  /\ FlightShape(f) /\ f.note.tx = tx /\ f.note.kind = kind
           /\ f.sub \in who
<1>1. PICK s \in who : f = [note |-> Note(kind, tx, e), sub |-> s,
                            checked |-> FALSE]
  BY Zenon DEF Fly
<1> QED
  BY Zenon, <1>1 DEF Note, FlightShape

\* A step about x leaves the other stories as they are.
LEMMA OtherStories ==
    ASSUME Story, NEW x, About(x), Ledger', x \in Txs => StoryAt(x)'
    PROVE  Story'
<1>1. SUFFICES ASSUME NEW y \in Txs, y # x PROVE StoryAt(y)'
  BY Zenon DEF Story
<1>2. tracked'[y] = tracked[y] /\ \A s \in Subs : heard'[s][y] = heard[s][y]
  BY Zenon, <1>1 DEF About
<1>3. tracked[y] \in Entries /\ StoryAt(y)
  BY Zenon DEF Story, Ledger
<1>4. Informed(tracked[y], y)'
  BY Zenon, <1>2, <1>3 DEF StoryAt, Informed, Entries
<1>5. ASSUME tracked'[y].st \in Final PROVE Pending(tracked[y], y)'
  <2>1. \A s \in tracked'[y].owed : IsParked("confirmed", y, s)
    BY Zenon, <1>2, <1>3, <1>5 DEF StoryAt, Pending
  <2>2. \A s : IsParked("confirmed", y, s) => IsParked("confirmed", y, s)'
    BY Zenon, <1>1 DEF IsParked, About
  <2> QED
    BY Zenon, <2>1, <2>2 DEF Pending
<1>6. ASSUME NEW k \in parked', k.note.tx = y, Spoken(k)
      PROVE  heard'[k.sub][y] # "none"
  <2>1. k \in parked
    BY Zenon, <1>1, <1>6 DEF About
  <2>2. k.sub \in Subs
    BY Zenon, <2>1 DEF Story, Ledger, ParkedShape
  <2> QED
    BY Zenon, <1>2, <1>3, <1>6, <2>1, <2>2 DEF StoryAt
<1>7. ASSUME NEW f \in flights', f.note.tx = y, f.note.kind = "reorged"
      PROVE  heard'[f.sub][y] # "none"
  <2>1. f \in flights
    BY Zenon, <1>1, <1>7 DEF About
  <2>2. f.sub \in Subs
    BY Zenon, <2>1 DEF Story, Ledger, FlightShape
  <2> QED
    BY Zenon, <1>2, <1>3, <1>7, <2>1, <2>2 DEF StoryAt
<1> QED
  BY Zenon, <1>4, <1>5, <1>6, <1>7 DEF StoryAt, Spoken


\* A step that makes next of the entry of tx.
LEMMA EntryStep ==
    ASSUME Story, NEW tx \in Txs, NEW next \in Entries,
           UNCHANGED <<height, mined>>,
           tracked' = [tracked EXCEPT ![tx] = next],
           heard' = [s \in Subs |-> [y \in Txs |-> heard'[s][y]]],
           \A s \in Subs : /\ \A y \in Txs \ {tx} : heard'[s][y] = heard[s][y]
                           /\ heard[s][tx] # "none" => heard'[s][tx] # "none",
           \A k \in parked' \ parked :
                /\ ParkedShape(k) /\ k.note.tx = tx
                /\ Spoken(k) => heard'[k.sub][tx] # "none",
           \A k \in parked \ parked' : k.note.tx = tx,
           \A f \in flights' \ flights :
                /\ FlightShape(f) /\ f.note.tx = tx
                /\ f.note.kind = "reorged" => heard'[f.sub][tx] # "none",
           \A s \in next.subs \ next.owed : heard'[s][tx] # "none",
           next.st \in Final =>
                \A s \in next.owed : IsParked("confirmed", tx, s)'
    PROVE  Story'
<1>1. Ledger'
  BY Zenon DEF Story, Ledger
<1>2. About(tx)
  BY Zenon DEF About, Story, Ledger
<1>3. tracked'[tx] = next
  BY Zenon DEF Story, Ledger
<1>4. StoryAt(tx)'
  <2>1. Informed(tracked[tx], tx)'
    BY Zenon, <1>3 DEF Informed
  <2>2. tracked'[tx].st \in Final => Pending(tracked[tx], tx)'
    BY Zenon, <1>3 DEF Pending
  <2>3. ASSUME NEW k \in parked', k.note.tx = tx, Spoken(k)
        PROVE  heard'[k.sub][tx] # "none"
    <3>1. CASE k \in parked
      <4>1. k.sub \in Subs /\ heard[k.sub][tx] # "none"
        BY Zenon, <2>3, <3>1 DEF Story, StoryAt, Ledger, ParkedShape
      <4> QED
        BY Zenon, <4>1
    <3>2. CASE k \notin parked
      BY Zenon, <2>3, <3>2
    <3> QED
      BY Zenon, <3>1, <3>2
  <2>4. ASSUME NEW f \in flights', f.note.tx = tx, f.note.kind = "reorged"
        PROVE  heard'[f.sub][tx] # "none"
    <3>1. CASE f \in flights
      <4>1. f.sub \in Subs /\ heard[f.sub][tx] # "none"
        BY Zenon, <2>4, <3>1 DEF Story, StoryAt, Ledger, FlightShape
      <4> QED
        BY Zenon, <4>1
    <3>2. CASE f \notin flights
      BY Zenon, <2>4, <3>2
    <3> QED
      BY Zenon, <3>1, <3>2
  <2> QED
    BY Zenon, <2>1, <2>2, <2>3, <2>4 DEF StoryAt, Spoken
<1> QED
  BY Zenon, <1>1, <1>2, <1>4, OtherStories

-----------------------------------------------------------------------------
\* The notifications.

\* notifyConfirmed and retryConfirmedRedelivery
LEMMA ConfirmedStory ==
    ASSUME Story, NEW tx \in Txs, NEW e \in Entries, Informed(e, tx), NEW slow,
           notifyConfirmed(tx, e, slow) \/ retryConfirmed(tx, e, slow),
           UNCHANGED <<height, mined>>
    PROVE  Story' /\ ~Premature({"reorged", "finalized"})
<1> DEFINE landed == Landed("confirmed", tx, e.owed, slow)
           gone == Stopped("confirmed", tx, e.owed)
           paid == [e EXCEPT !.owed = @ \ landed]
           next == Without(paid, gone)
           note == Note("confirmed", tx, e)
           told == Parked("confirmed", tx, e, e.owed, slow)
           carried == Fly("confirmed", tx, e, e.subs \ e.owed)
<1>1. /\ tracked' = [tracked EXCEPT ![tx] = next]
      /\ parked' = parked \cup told
      /\ flights' \subseteq flights \cup carried
      /\ heard' = Heard(landed, note)
  BY Zenon DEF notifyConfirmed, retryConfirmed
<1>2. /\ note.tx = tx /\ note.kind = "confirmed"
      /\ e.owed \in SUBSET Subs /\ e.subs \ e.owed \in SUBSET Subs
      /\ "confirmed" \in Reliable
  BY Zenon DEF Note, Entries, Reliable
<1>3. paid \in Entries /\ paid.subs = e.subs /\ paid.owed = e.owed \ landed
  BY Zenon DEF Entries
<1> HIDE DEF paid, note, landed, gone
<1>4. /\ next \in Entries
      /\ \A s \in next.subs : /\ s \in e.subs /\ s \notin gone
                              /\ s \in next.owed <=> s \in e.owed \ landed
      /\ \A s \in next.owed : s \in e.owed \ landed /\ s \notin gone
  BY Zenon, <1>3, EntryTypes
<1> HIDE DEF next
<1>5. \A k \in told : /\ ParkedShape(k) /\ k.note.tx = tx
                      /\ k.note.kind = "confirmed" /\ k.told = "no"
  BY <1>2, ParkedShapes
<1>6. \A f \in carried : /\ FlightShape(f) /\ f.note.tx = tx
                         /\ f.note.kind = "confirmed"
  BY <1>2, FlightShapes
<1>7. /\ heard' = [s \in Subs |-> [y \in Txs |-> heard'[s][y]]]
      /\ \A s \in Subs, y \in Txs :
            heard'[s][y] = IF s \in landed /\ y = tx THEN "confirmed"
                                                     ELSE heard[s][y]
  BY <1>1, <1>2, HeardStep DEF Story, Ledger
<1>8. \A s \in next.owed : IsParked("confirmed", tx, s)'
  BY Zenon, <1>1, <1>4, Settles DEF landed, gone
<1>9. \A s \in next.subs \ next.owed : heard'[s][tx] # "none"
  BY Zenon, <1>2, <1>4, <1>7 DEF Informed, Entries
<1>10. /\ \A k \in parked' \ parked :
            /\ ParkedShape(k) /\ k.note.tx = tx
            /\ Spoken(k) => heard'[k.sub][tx] # "none"
       /\ \A f \in flights' \ flights :
            /\ FlightShape(f) /\ f.note.tx = tx
            /\ f.note.kind = "reorged" => heard'[f.sub][tx] # "none"
       /\ \A k \in parked \ parked' : k.note.tx = tx
  BY Zenon, <1>1, <1>5, <1>6 DEF Spoken
<1> HIDE DEF told, carried
<1>11. ~Premature({"reorged", "finalized"})
  BY Zenon, <1>7 DEF Premature
<1>12. Story'
  BY ZenonT(60), <1>1, <1>4, <1>7, <1>8, <1>9, <1>10, EntryStep
<1> QED
  BY Zenon, <1>11, <1>12

\* notifyFailed
LEMMA FailedStory ==
    ASSUME Story, NEW tx \in Txs, NEW e \in Entries, Informed(e, tx),
           e.st = "failed", NEW slow, notifyFailed(tx, e, slow),
           UNCHANGED <<height, mined>>
    PROVE  Story' /\ ~Premature({"reorged", "finalized"})
<1> DEFINE landed == Landed("failed", tx, e.subs, slow)
           gone == Stopped("failed", tx, e.subs)
           left == [e EXCEPT !.subs = @ \ (landed \cup gone)]
           next == Kept(left)
           note == Note("failed", tx, e)
           told == Parked("failed", tx, e, e.subs, slow)
<1>1. /\ tracked' = [tracked EXCEPT ![tx] = next]
      /\ parked' = parked \cup told
      /\ flights' \subseteq flights
      /\ heard' = Heard(landed, note)
  BY Zenon DEF notifyFailed, Sealed
<1>2. /\ note.tx = tx /\ note.kind = "failed"
      /\ e.subs \in SUBSET Subs /\ "failed" \in Reliable
  BY Zenon DEF Note, Entries, Reliable
<1>3. /\ left \in Entries /\ left.st = "failed" /\ left.owed = e.owed
      /\ left.subs \subseteq e.subs
  BY Zenon DEF Entries
<1> HIDE DEF left, note, landed, gone
<1>4. /\ next \in Entries /\ next.st \notin Final
      /\ \A s \in next.subs : /\ s \in e.subs
                              /\ s \in next.owed <=> s \in e.owed
  BY Zenon, <1>3, EntryTypes DEF Final
<1> HIDE DEF next
<1>5. \A k \in told : /\ ParkedShape(k) /\ k.note.tx = tx
                      /\ k.note.kind = "failed" /\ k.told = "no"
  BY <1>2, ParkedShapes
<1>6. /\ heard' = [s \in Subs |-> [y \in Txs |-> heard'[s][y]]]
      /\ \A s \in Subs, y \in Txs :
            heard'[s][y] = IF s \in landed /\ y = tx THEN "failed"
                                                     ELSE heard[s][y]
  BY <1>1, <1>2, HeardStep DEF Story, Ledger
<1>7. \A s \in next.subs \ next.owed : heard'[s][tx] # "none"
  BY Zenon, <1>2, <1>4, <1>6 DEF Informed
<1>8. /\ \A k \in parked' \ parked :
            /\ ParkedShape(k) /\ k.note.tx = tx
            /\ Spoken(k) => heard'[k.sub][tx] # "none"
      /\ \A k \in parked \ parked' : k.note.tx = tx
      /\ flights' \ flights = {}
  BY Zenon, <1>1, <1>5 DEF Spoken
<1> HIDE DEF told
<1>9. ~Premature({"reorged", "finalized"})
  BY Zenon, <1>6 DEF Premature
<1>10. Story'
  BY ZenonT(60), <1>1, <1>4, <1>6, <1>7, <1>8, EntryStep
<1> QED
  BY Zenon, <1>9, <1>10

\* notifyFinalized: who is owed TxConfirmed has it parked, so nobody is told
\* both.
LEMMA FinalizedStory ==
    ASSUME Story, NEW tx \in Txs, NEW e \in Entries, Informed(e, tx),
           Pending(e, tx), NEW slow, notifyFinalized(tx, e, slow),
           UNCHANGED <<height, mined>>
    PROVE  Story' /\ ~Premature({"reorged", "finalized"})
<1>1. PICK held : notifyFinalizedTo(tx, e, slow, held)
  BY Zenon DEF notifyFinalized
<1> DEFINE conf == Landed("confirmed", tx, e.owed, held)
           gone == Stopped("confirmed", tx, e.owed)
                       \cup Stopped("finalized", tx, e.subs \ e.owed)
           fin == Landed("finalized", tx, e.subs \ e.owed, slow)
           left == [e EXCEPT !.owed = @ \ gone, !.subs = @ \ (fin \cup gone)]
           next == Kept(left)
           told == Parked("finalized", tx, e, e.subs \ e.owed, slow)
<1>2. /\ conf = {} /\ Stopped("confirmed", tx, e.owed) = {}
      /\ Parked("confirmed", tx, e, e.owed, held) = {}
  BY Zenon DEF Pending, Landed, Stopped, Parked
<1>3. /\ (e.subs \ e.owed) \cup conf = e.subs \ e.owed
      /\ conf \cup gone = gone
  BY Zenon, <1>2
<1>4. /\ tracked' = [tracked EXCEPT ![tx] = next]
      /\ parked' = parked \cup told
      /\ flights' \subseteq flights
      /\ heard' = [s \in Subs |->
            IF s \in fin THEN [heard[s] EXCEPT ![tx] = "finalized"] ELSE heard[s]]
  BY Zenon, <1>1, <1>2, <1>3 DEF notifyFinalizedTo, Sealed
<1>5. e.subs \ e.owed \in SUBSET Subs /\ "finalized" \in Reliable
  BY Zenon DEF Entries, Reliable
<1>6. /\ left \in Entries /\ left.owed = e.owed \ gone
      /\ left.subs = e.subs \ (fin \cup gone)
  BY Zenon DEF Entries
<1> HIDE DEF left
<1>7. /\ next \in Entries
      /\ \A s \in next.subs : /\ s \in e.subs /\ s \notin gone
                              /\ s \in next.owed <=> s \in e.owed
      /\ next.owed \subseteq e.owed
  BY Zenon, <1>6, EntryTypes
<1> HIDE DEF next
<1>8. \A s \in fin : s \in e.subs /\ s \notin e.owed
  BY Zenon DEF Landed
<1>9. \A k \in told : /\ ParkedShape(k) /\ k.note.tx = tx
                      /\ k.sub \in e.subs \ e.owed
  BY <1>5, ParkedShapes
<1> HIDE DEF fin, gone, told, conf
<1>10. heard' = Heard(fin, [tx |-> tx, kind |-> "finalized"])
  BY Zenon, <1>4 DEF Heard
<1>11. /\ heard' = [s \in Subs |-> [y \in Txs |-> heard'[s][y]]]
       /\ \A s \in Subs, y \in Txs :
            heard'[s][y] = IF s \in fin /\ y = tx THEN "finalized"
                                                  ELSE heard[s][y]
  BY <1>10, HeardStep DEF Story, Ledger
<1>12. \A s \in Subs : heard[s][tx] # "none" => heard'[s][tx] # "none"
  BY Zenon, <1>11
<1>13. \A s \in next.subs \ next.owed : heard'[s][tx] # "none"
  BY Zenon, <1>5, <1>7, <1>12 DEF Informed
<1>14. \A s \in next.owed : IsParked("confirmed", tx, s)'
  BY Zenon, <1>4, <1>7 DEF Pending, IsParked
<1>15. /\ \A k \in parked' \ parked :
            /\ ParkedShape(k) /\ k.note.tx = tx
            /\ Spoken(k) => heard'[k.sub][tx] # "none"
       /\ \A k \in parked \ parked' : k.note.tx = tx
       /\ flights' \ flights = {}
  BY Zenon, <1>4, <1>5, <1>9, <1>12 DEF Informed
<1>16. ~Premature({"reorged", "finalized"})
  BY Zenon, <1>8, <1>11 DEF Premature, Informed
<1>17. Story'
  <2>1. \A s \in Subs : /\ \A y \in Txs \ {tx} : heard'[s][y] = heard[s][y]
                        /\ heard[s][tx] # "none" => heard'[s][tx] # "none"
    BY Zenon, <1>11, <1>12
  <2>2. \A f \in flights' \ flights :
            /\ FlightShape(f) /\ f.note.tx = tx
            /\ f.note.kind = "reorged" => heard'[f.sub][tx] # "none"
    BY Zenon, <1>15
  <2>3. heard' = [s \in Subs |-> [y \in Txs |-> heard'[s][y]]]
    BY Zenon, <1>11
  <2> QED
    BY Zenon, <1>4, <1>7, <1>13, <1>14, <1>15, <2>1, <2>2, <2>3, EntryStep
<1> QED
  BY Zenon, <1>16, <1>17

-----------------------------------------------------------------------------
\* The operations of the broadcaster.

\* One entry of the history changes.
Rewritten(r, x, v) == [heard EXCEPT ![r] = [heard[r] EXCEPT ![x] = v]]

LEMMA PointStep ==
    ASSUME heard = [s \in Subs |-> [tx \in Txs |-> heard[s][tx]]],
           NEW r \in Subs, NEW x, NEW v,
           heard' = Rewritten(r, x, v)
    PROVE  /\ heard' = [s \in Subs |-> [tx \in Txs |-> heard'[s][tx]]]
           /\ \A s \in Subs, tx \in Txs :
                heard'[s][tx] = IF s = r /\ tx = x THEN v ELSE heard[s][tx]
<1>1. heard[r] = [tx \in Txs |-> heard[r][tx]]
  BY Zenon
<1>2. /\ heard'[r] = [heard[r] EXCEPT ![x] = v]
      /\ \A s \in Subs \ {r} : heard'[s] = heard[s]
      /\ heard' = [s \in Subs |-> heard'[s]]
  BY Zenon DEF Rewritten
<1>3. /\ heard'[r] = [tx \in Txs |-> heard'[r][tx]]
      /\ \A tx \in Txs : heard'[r][tx] = IF tx = x THEN v ELSE heard[r][tx]
  BY Zenon, <1>1, <1>2
<1>4. \A s \in Subs : heard'[s] = [tx \in Txs |-> heard'[s][tx]]
  <2>1. ASSUME NEW s \in Subs
        PROVE  heard'[s] = [tx \in Txs |-> heard'[s][tx]]
    <3>1. heard[s] = [tx \in Txs |-> heard[s][tx]]
      BY Zenon
    <3>2. CASE s = r
      BY Zenon, <1>3, <3>2
    <3>3. CASE s # r
      <4>1. heard'[s] = heard[s]
        BY Zenon, <1>2, <3>3
      <4> QED
        BY Zenon, <3>1, <4>1
    <3> QED
      BY Zenon, <3>2, <3>3
  <2> QED
    BY Zenon, <2>1
<1>5. heard' = [s \in Subs |-> [tx \in Txs |-> heard'[s][tx]]]
  BY Zenon, <1>2, <1>4
<1> QED
  BY Zenon, <1>2, <1>3, <1>5

\* attachExistingSubscriber on an entry that has ended.
LEMMA LateStep ==
    ASSUME heard = [s \in Subs |-> [tx \in Txs |-> heard[s][tx]]],
           NEW r \in Subs, NEW x, heard' = Late(r, x)
    PROVE  /\ heard' = [s \in Subs |-> [tx \in Txs |-> heard'[s][tx]]]
           /\ \A s \in Subs, tx \in Txs :
                heard'[s][tx] = IF s = r /\ tx = x /\ heard[s][tx] = "none"
                                THEN "late" ELSE heard[s][tx]
<1>0. PICK v : v = IF heard[r][x] = "none" THEN "late" ELSE heard[r][x]
  BY Zenon
<1>1. heard' = Rewritten(r, x, v)
  BY Zenon, <1>0 DEF Late, Rewritten
<1>2. /\ heard' = [s \in Subs |-> [tx \in Txs |-> heard'[s][tx]]]
      /\ \A s \in Subs, tx \in Txs :
            heard'[s][tx] = IF s = r /\ tx = x THEN v ELSE heard[s][tx]
  BY <1>1, PointStep
<1> QED
  BY Zenon, <1>0, <1>2

\* notifyReversibleAsync when the tell fails.
LEMMA MissedStep ==
    ASSUME heard = [s \in Subs |-> [tx \in Txs |-> heard[s][tx]]],
           NEW r \in Subs, NEW x, heard' = Missed(r, x)
    PROVE  /\ heard' = [s \in Subs |-> [tx \in Txs |-> heard'[s][tx]]]
           /\ \A s \in Subs, tx \in Txs :
                heard'[s][tx] = IF s = r /\ tx = x /\ heard[s][tx] # "none"
                                THEN "missed" ELSE heard[s][tx]
<1>0. PICK v : v = IF heard[r][x] = "none" THEN heard[r][x] ELSE "missed"
  BY Zenon
<1>1. heard' = Rewritten(r, x, v)
  BY Zenon, <1>0 DEF Missed, Rewritten
<1>2. /\ heard' = [s \in Subs |-> [tx \in Txs |-> heard'[s][tx]]]
      /\ \A s \in Subs, tx \in Txs :
            heard'[s][tx] = IF s = r /\ tx = x THEN v ELSE heard[s][tx]
  BY <1>1, PointStep
<1> QED
  BY Zenon, <1>0, <1>2

\* A transaction the program does not have changes no entry.
LEMMA Stranger ==
    ASSUME Story, NEW x, x \notin Txs, UNCHANGED <<height, mined>>,
           \/ tracked' = tracked
           \/ \E e : tracked' = [tracked EXCEPT ![x] = e],
           \/ heard' = heard
           \/ \E who, note : heard' = Heard(who, note) /\ note.tx = x
           \/ \E r \in Subs : heard' = Late(r, x) \/ heard' = Missed(r, x),
           \A k \in parked' \ parked : ParkedShape(k) /\ k.note.tx = x,
           \A k \in parked \ parked' : k.note.tx = x,
           \A f \in flights' \ flights : FlightShape(f) /\ f.note.tx = x
    PROVE  Story' /\ heard' = heard
<1>1. tracked' = tracked
  BY ZenonT(60) DEF Story, Ledger
<1>2. heard' = heard
  <2>1. CASE heard' = heard
    BY Zenon, <2>1
  <2>2. CASE \E who, note : heard' = Heard(who, note) /\ note.tx = x
    <3>1. PICK who, note : heard' = Heard(who, note) /\ note.tx = x
      BY Zenon, <2>2
    <3>2. /\ heard' = [s \in Subs |-> [tx \in Txs |-> heard'[s][tx]]]
          /\ \A s \in Subs, tx \in Txs : heard'[s][tx] = heard[s][tx]
      BY <3>1, HeardStep DEF Story, Ledger
    <3> QED
      BY <3>2 DEF Story, Ledger
  <2>3. CASE \E r \in Subs : heard' = Late(r, x) \/ heard' = Missed(r, x)
    <3>1. PICK r \in Subs : heard' = Late(r, x) \/ heard' = Missed(r, x)
      BY Zenon, <2>3
    <3>2. /\ heard' = [s \in Subs |-> [tx \in Txs |-> heard'[s][tx]]]
          /\ \A s \in Subs, tx \in Txs : heard'[s][tx] = heard[s][tx]
      BY <3>1, LateStep, MissedStep DEF Story, Ledger
    <3> QED
      BY <3>2 DEF Story, Ledger
  <2> QED
    BY Zenon, <2>1, <2>2, <2>3
<1>3. Ledger'
  BY Zenon, <1>1, <1>2 DEF Story, Ledger
<1>4. About(x)
  BY Zenon, <1>1, <1>2 DEF About
<1> QED
  BY Zenon, <1>2, <1>3, <1>4, OtherStories

\* An entry that changes its state only, or loses a subscriber.
LEMMA QuietStep ==
    ASSUME Story, NEW tx \in Txs, NEW next \in Entries,
           UNCHANGED <<height, mined, parked, heard>>, flights' \subseteq flights,
           tracked' = [tracked EXCEPT ![tx] = next],
           Informed(next, tx), next.st \in Final => Pending(next, tx)
    PROVE  Story'
<1>1. \A s \in next.subs \ next.owed : heard'[s][tx] # "none"
  BY Zenon DEF Informed
<1>2. next.st \in Final => \A s \in next.owed : IsParked("confirmed", tx, s)'
  BY Zenon DEF Pending, IsParked
<1>3. heard' = [s \in Subs |-> [y \in Txs |-> heard'[s][y]]]
  BY Zenon DEF Story, Ledger
<1> QED
  BY Zenon, <1>1, <1>2, <1>3, EntryStep

\* recordInitialBroadcastOutcome
LEMMA OutcomeStory ==
    ASSUME Story, NEW tx, NEW e \in Entries, NEW res, NEW slow,
           recordOutcome(tx, e, res, slow), UNCHANGED <<height, mined>>,
           tx \in Txs => Informed(e, tx)
    PROVE  Story' /\ ~Premature({"reorged", "finalized"})
<1>1. CASE res \in Rejections(tx)
  <2> DEFINE f == [e EXCEPT !.st = "failed", !.class = res]
  <2>1. /\ f \in Entries /\ f.st = "failed"
        /\ f.subs = e.subs /\ f.owed = e.owed
    BY Zenon, <1>1 DEF Rejections, Entries, States, Classes
  <2>2. notifyFailed(tx, f, slow)
    BY Zenon, <1>1 DEF recordOutcome
  <2> HIDE DEF f
  <2>3. CASE tx \in Txs
    BY Zenon, <2>1, <2>2, <2>3, FailedStory DEF Informed
  <2>4. CASE tx \notin Txs
    <3>1. /\ \E g : tracked' = [tracked EXCEPT ![tx] = g]
          /\ parked' = parked \cup Parked("failed", tx, f, f.subs, slow)
          /\ flights' \subseteq flights
          /\ \E who : heard' = Heard(who, Note("failed", tx, f))
      BY Zenon, <2>2 DEF notifyFailed, Sealed
    <3>2. \E who, note : heard' = Heard(who, note) /\ note.tx = tx
      BY <3>1 DEF Note
    <3>3. f.subs \in SUBSET Subs /\ "failed" \in Reliable
      BY Zenon, <2>1 DEF Entries, Reliable
    <3>4. \A k \in parked' \ parked : ParkedShape(k) /\ k.note.tx = tx
      BY <3>1, <3>3, ParkedShapes
    <3>5. Story' /\ heard' = heard
      BY Zenon, <2>4, <3>1, <3>2, <3>4, Stranger
    <3> QED
      BY Zenon, <3>5 DEF Premature
  <2> QED
    BY Zenon, <2>3, <2>4
<1>2. CASE res \notin Rejections(tx)
  <2> DEFINE f == [e EXCEPT !.st = IF res = "ok" THEN "awaiting"
                                                 ELSE "broadcasting"]
  <2>1. /\ f \in Entries /\ f.st \in {"awaiting", "broadcasting"}
        /\ f.subs = e.subs /\ f.owed = e.owed
    BY Zenon DEF Entries, States
  <2>2. /\ tracked' = [tracked EXCEPT ![tx] = f]
        /\ UNCHANGED <<parked, flights, heard>>
    BY Zenon, <1>2 DEF recordOutcome
  <2> HIDE DEF f
  <2>3. CASE tx \in Txs
    <3>1. Informed(f, tx) /\ f.st \notin Final
      BY Zenon, <2>1, <2>3 DEF Informed, Final
    <3>2. Story'
      BY Zenon, <2>1, <2>2, <2>3, <3>1, QuietStep
    <3> QED
      BY Zenon, <2>2, <3>2 DEF Premature
  <2>4. CASE tx \notin Txs
    <3>1. Story' /\ heard' = heard
      BY Zenon, <2>2, <2>4, Stranger
    <3> QED
      BY <3>1 DEF Premature
  <2> QED
    BY <2>3, <2>4
<1> QED
  BY Zenon, <1>1, <1>2

\* attachExistingSubscriber: a replayed notification may be TxFinalized.
LEMMA AttachStory ==
    ASSUME Story, NEW tx, NEW s \in Subs, NEW slow, attachExisting(tx, s, slow),
           UNCHANGED <<height, mined>>
    PROVE  Story' /\ ~Premature({"reorged"})
<1> DEFINE e == tracked[tx]
           note == Note(e.st, tx, e)
           landed == Landed(e.st, tx, {s}, slow)
           gone == Stopped(e.st, tx, {s})
           owing == [e EXCEPT !.subs = @ \cup {s}, !.owed = @ \cup {s}]
           paid == [e EXCEPT !.subs = @ \cup {s}, !.owed = @ \ {s}]
           told == Parked(e.st, tx, e, {s}, slow)
<1>1. flights' = flights
  BY Zenon DEF attachExisting
<1>2. \/ /\ e.st \in {"broadcasting", "awaiting"}
         /\ tracked' = [tracked EXCEPT ![tx] = owing]
         /\ UNCHANGED <<parked, heard>>
      \/ /\ e.st \in {"confirmed", "finalized", "failed"}
         /\ parked' = parked \cup told
         /\ \/ s \in gone /\ UNCHANGED <<tracked, heard>>
            \/ /\ s \in landed
               /\ tracked' = [tracked EXCEPT ![tx] =
                                IF isTerminal(e.st) THEN e ELSE paid]
               /\ heard' = Heard(landed, note)
            \/ /\ s \notin gone \cup landed
               /\ tracked' = [tracked EXCEPT ![tx] =
                                IF e.st = "finalized" THEN paid ELSE owing]
               /\ heard' = IF isTerminal(e.st) THEN Late(s, tx) ELSE heard
  BY Zenon DEF attachExisting
<1>3. note.tx = tx /\ note.kind = e.st
  BY Zenon DEF Note
<1>4. ASSUME e.st \in {"confirmed", "finalized", "failed"}
      PROVE  \A k \in told : /\ ParkedShape(k) /\ k.note.tx = tx
                             /\ k.note.kind = e.st /\ k.told = "no"
                             /\ k.sub = s
  BY <1>4, ParkedShapes DEF Reliable
<1>5. CASE tx \notin Txs
  <2>1. \/ tracked' = tracked \/ \E f : tracked' = [tracked EXCEPT ![tx] = f]
    BY Zenon, <1>2
  <2>2. \/ heard' = heard
        \/ \E who, m : heard' = Heard(who, m) /\ m.tx = tx
        \/ \E r \in Subs : heard' = Late(r, tx)
    BY Zenon, <1>2, <1>3
  <2>3. /\ \A k \in parked' \ parked : ParkedShape(k) /\ k.note.tx = tx
        /\ parked \subseteq parked'
    BY Zenon, <1>2, <1>4
  <2>4. Story' /\ heard' = heard
    BY Zenon, <1>1, <1>5, <2>1, <2>2, <2>3, Stranger
  <2> QED
    BY Zenon, <2>4 DEF Premature
<1>6. CASE tx \in Txs
  <2>1. /\ e \in Entries /\ Informed(e, tx)
        /\ e.st \in Final => Pending(e, tx)
        /\ tracked = [tracked EXCEPT ![tx] = e]
        /\ heard = [r \in Subs |-> [y \in Txs |-> heard[r][y]]]
    BY Zenon, <1>6 DEF Story, Ledger, StoryAt
  <2>2. /\ owing \in Entries /\ owing.st = e.st
        /\ owing.subs = e.subs \cup {s} /\ owing.owed = e.owed \cup {s}
        /\ paid \in Entries /\ paid.st = e.st
        /\ paid.subs = e.subs \cup {s} /\ paid.owed = e.owed \ {s}
    BY Zenon, <2>1 DEF Entries
  <2> HIDE DEF owing, paid, note
  <2>3. CASE /\ e.st \in {"broadcasting", "awaiting"}
             /\ tracked' = [tracked EXCEPT ![tx] = owing]
             /\ UNCHANGED <<parked, heard>>
    <3>1. Informed(owing, tx) /\ owing.st \notin Final
      BY Zenon, <2>1, <2>2, <2>3 DEF Informed, Final
    <3>2. Story'
      BY Zenon, <1>1, <1>6, <2>2, <2>3, <3>1, QuietStep
    <3> QED
      BY Zenon, <2>3, <3>2 DEF Premature
  <2>4. CASE e.st \in {"confirmed", "finalized", "failed"} /\ s \in gone
    <3>1. /\ parked' = parked \cup told /\ s \in closed
          /\ UNCHANGED <<tracked, heard>>
      BY Zenon, <1>2, <2>4 DEF landed, gone, Landed, Stopped
    <3>2. told = {}
      BY Zenon, <3>1 DEF Parked
    <3>3. parked' = parked /\ tracked' = [tracked EXCEPT ![tx] = e]
      BY Zenon, <2>1, <3>1, <3>2
    <3>4. Story'
      BY Zenon, <1>1, <1>6, <2>1, <3>1, <3>3, QuietStep
    <3> QED
      BY Zenon, <3>1, <3>4 DEF Premature
  <2>5. CASE e.st \in {"confirmed", "finalized", "failed"} /\ s \in landed
    <3> DEFINE next == IF isTerminal(e.st) THEN e ELSE paid
    <3>1. /\ parked' = parked \cup told
          /\ tracked' = [tracked EXCEPT ![tx] = next]
          /\ heard' = Heard(landed, note)
      BY Zenon, <1>2, <2>5 DEF landed, gone, Landed, Stopped
    <3>2. landed = {s}
      BY Zenon, <2>5 DEF Landed
    <3>3. /\ heard' = [r \in Subs |-> [y \in Txs |-> heard'[r][y]]]
          /\ \A r \in Subs, y \in Txs :
                heard'[r][y] = IF r = s /\ y = tx THEN e.st ELSE heard[r][y]
      <4> HIDE DEF landed, gone
      <4>1. heard' = Heard(landed, note)
        BY Zenon, <3>1
      <4>2. heard = [r \in Subs |-> [y \in Txs |-> heard[r][y]]]
        BY Zenon, <2>1
      <4>3. /\ heard' = [r \in Subs |-> [y \in Txs |-> heard'[r][y]]]
            /\ \A r \in Subs, y \in Txs :
                heard'[r][y] = IF r \in landed /\ y = note.tx THEN note.kind
                                                              ELSE heard[r][y]
        BY <4>1, <4>2, HeardStep
      <4> QED
        BY Zenon, <1>3, <3>2, <4>3
    <3>4. next \in Entries /\ next.st = e.st
      BY Zenon, <2>1, <2>2
    <3>5. \A r \in next.subs \ next.owed : heard'[r][tx] # "none"
      BY Zenon, <1>6, <2>1, <2>2, <2>5, <3>3 DEF Informed, Entries
    <3>6. next.st \in Final => \A r \in next.owed : IsParked("confirmed", tx, r)'
      BY Zenon, <2>1, <2>2, <3>1, <3>4 DEF Pending, IsParked
    <3> HIDE DEF next, landed
    <3>7. /\ \A k \in parked' \ parked :
                /\ ParkedShape(k) /\ k.note.tx = tx
                /\ Spoken(k) => heard'[k.sub][tx] # "none"
          /\ \A k \in parked \ parked' : k.note.tx = tx
      BY Zenon, <1>4, <1>6, <2>5, <3>1, <3>3 DEF Spoken
    <3>8. \A r \in Subs : /\ \A y \in Txs \ {tx} : heard'[r][y] = heard[r][y]
                          /\ heard[r][tx] # "none" => heard'[r][tx] # "none"
      BY Zenon, <1>6, <2>5, <3>3
    <3>9. heard' = [r \in Subs |-> [y \in Txs |-> heard'[r][y]]]
      BY Zenon, <3>3
    <3>10. Story'
      BY Zenon, <1>1, <1>6, <3>1, <3>4, <3>5, <3>6, <3>7, <3>8, <3>9, EntryStep
    <3> QED
      BY Zenon, <2>5, <3>3, <3>10 DEF Premature
  <2>6. CASE /\ e.st \in {"confirmed", "finalized", "failed"}
             /\ s \notin gone \cup landed
    <3> DEFINE next == IF e.st = "finalized" THEN paid ELSE owing
    <3>1. /\ parked' = parked \cup told
          /\ tracked' = [tracked EXCEPT ![tx] = next]
          /\ heard' = IF isTerminal(e.st) THEN Late(s, tx) ELSE heard
      BY Zenon, <1>2, <2>6
    <3>2. /\ heard' = [r \in Subs |-> [y \in Txs |-> heard'[r][y]]]
          /\ \A r \in Subs, y \in Txs :
                heard'[r][y] = IF /\ r = s /\ y = tx /\ heard[r][y] = "none"
                                  /\ isTerminal(e.st)
                               THEN "late" ELSE heard[r][y]
      <4>1. CASE isTerminal(e.st)
        BY <2>1, <3>1, <4>1, LateStep
      <4>2. CASE ~isTerminal(e.st)
        BY Zenon, <2>1, <3>1, <4>2
      <4> QED
        BY Zenon, <4>1, <4>2
    <3>3. next \in Entries /\ next.st = e.st
      BY Zenon, <2>1, <2>2
    <3> HIDE DEF landed, gone
    <3>11. /\ isTerminal(e.st) => heard'[s][tx] # "none"
           /\ \A r \in Subs : heard[r][tx] # "none" => heard'[r][tx] # "none"
      BY Zenon, <1>6, <3>2
    <3>4. \A r \in next.subs \ next.owed : heard'[r][tx] # "none"
      <4>1. \A r \in e.subs \ e.owed : heard'[r][tx] # "none"
        BY Zenon, <2>1, <3>11 DEF Informed, Entries
      <4>2. CASE e.st = "finalized"
        BY Zenon, <2>2, <3>11, <4>1, <4>2 DEF isTerminal
      <4>3. CASE e.st # "finalized"
        BY Zenon, <2>2, <4>1, <4>3
      <4> QED
        BY Zenon, <4>2, <4>3
    <3>5. ~isTerminal(e.st) => IsParked("confirmed", tx, s)'
      <4>1. SUFFICES ASSUME ~isTerminal(e.st) PROVE IsParked("confirmed", tx, s)'
        BY Zenon
      <4>2. e.st = "confirmed"
        BY Zenon, <2>6, <4>1 DEF isTerminal
      <4> QED
        BY Zenon, <2>6, <3>1, <4>2, Settles DEF landed, gone
    <3>6. next.st \in Final => \A r \in next.owed : IsParked("confirmed", tx, r)'
      BY ZenonT(60), <2>1, <2>2, <2>6, <3>1, <3>3, <3>5
      DEF Pending, IsParked, Final, isTerminal
    <3> HIDE DEF next
    <3>7. /\ \A k \in parked' \ parked :
                /\ ParkedShape(k) /\ k.note.tx = tx
                /\ Spoken(k) => heard'[k.sub][tx] # "none"
          /\ \A k \in parked \ parked' : k.note.tx = tx
      <4>1. e.st = "finalized" => heard'[s][tx] # "none"
        BY Zenon, <3>11 DEF isTerminal
      <4> QED
        BY Zenon, <1>4, <2>6, <3>1, <4>1 DEF Spoken
    <3>8. \A r \in Subs : /\ \A y \in Txs \ {tx} : heard'[r][y] = heard[r][y]
                          /\ heard[r][tx] # "none" => heard'[r][tx] # "none"
      BY Zenon, <1>6, <3>2
    <3>9. heard' = [r \in Subs |-> [y \in Txs |-> heard'[r][y]]]
      BY Zenon, <3>2
    <3>10. Story'
      BY Zenon, <1>1, <1>6, <3>1, <3>3, <3>4, <3>6, <3>7, <3>8, <3>9, EntryStep
    <3> QED
      BY Zenon, <3>2, <3>10 DEF Premature
  <2> QED
    BY Zenon, <1>2, <2>3, <2>4, <2>5, <2>6
<1> QED
  BY Zenon, <1>5, <1>6

\* handleEnsure
LEMMA EnsureStory ==
    ASSUME Story, NEW tx, NEW s \in Subs, NEW res, NEW slow,
           handleEnsure(tx, s, res, slow)
    PROVE  Story' /\ ~Premature({"reorged"})
<1>1. UNCHANGED <<height, mined>>
  BY Zenon DEF handleEnsure
<1>2. CASE ensureNew(tx, s, res, slow)
  <2> DEFINE e == [Untracked EXCEPT !.st = "broadcasting",
                       !.subs = {s}, !.owed = {s}]
  <2>1. e \in Entries /\ e.subs \ e.owed = {}
    BY Zenon DEF Untracked, Entries, States, Classes
  <2>2. recordOutcome(tx, e, res, slow)
    BY Zenon, <1>2 DEF ensureNew
  <2> HIDE DEF e
  <2>3. Informed(e, tx)
    BY Zenon, <2>1 DEF Informed
  <2>4. Story' /\ ~Premature({"reorged", "finalized"})
    BY Zenon, <1>1, <2>1, <2>2, <2>3, OutcomeStory
  <2> QED
    BY Zenon, <2>4 DEF Premature
<1>3. CASE attachExisting(tx, s, slow)
  BY Zenon, <1>1, <1>3, AttachStory
<1> QED
  BY Zenon, <1>2, <1>3 DEF handleEnsure

\* handleCancel
LEMMA CancelStory ==
    ASSUME Story, NEW tx, NEW s, handleCancel(tx, s),
           UNCHANGED <<height, mined, parked, flights, heard>>
    PROVE  Story'
<1> DEFINE e == tracked[tx]
           next == Without(e, {s})
<1>1. tracked' = [tracked EXCEPT ![tx] = next]
  BY Zenon DEF handleCancel, Cancelled
<1>2. CASE tx \in Txs
  <2>1. /\ e \in Entries /\ Informed(e, tx)
        /\ e.st \in Final => Pending(e, tx)
    BY Zenon, <1>2 DEF Story, Ledger, StoryAt
  <2>2. /\ next \in Entries /\ next.st \in {e.st, "none"}
        /\ \A r \in next.subs : r \in e.subs /\ (r \in next.owed <=> r \in e.owed)
        /\ \A r \in next.owed : r \in e.owed
    BY Zenon, <2>1, EntryTypes
  <2> HIDE DEF e, next
  <2>3. Informed(next, tx) /\ (next.st \in Final => Pending(next, tx))
    BY Zenon, <2>1, <2>2 DEF Informed, Pending, Final
  <2> QED
    BY Zenon, <1>1, <1>2, <2>2, <2>3, QuietStep
<1>3. CASE tx \notin Txs
  BY Zenon, <1>1, <1>3, Stranger
<1> QED
  BY Zenon, <1>2, <1>3

\* A step that is not the broadcaster's.
LEMMA Elsewhere ==
    ASSUME Story, UNCHANGED <<tracked, parked, flights, heard>>,
           height' \in Nat, mined' \in [Txs -> Nat]
    PROVE  Story' /\ ~Premature({"reorged", "finalized"})
<1>1. Ledger'
  BY Zenon DEF Story, Ledger
<1>2. \A tx \in Txs : StoryAt(tx)'
  BY DEF Story, StoryAt, Informed, Pending, IsParked, Spoken
<1> QED
  BY Zenon, <1>1, <1>2 DEF Story, Premature

-----------------------------------------------------------------------------
\* The steps of the broadcaster.

\* handleBlockObserved, on one entry
LEMMA VisitStory ==
    ASSUME Story, NEW tx \in Txs, NEW res, NEW slow, Visit(tx, res, slow)
    PROVE  Story' /\ ~Premature({"reorged", "finalized"})
<1> DEFINE e == tracked[tx]
<1>1. /\ e \in Entries /\ Informed(e, tx)
      /\ e.st \in Final => Pending(e, tx)
  BY Zenon DEF Story, Ledger, StoryAt
<1>2. UNCHANGED <<height, mined>> /\ height \in Nat /\ mined \in [Txs -> Nat]
  BY Zenon DEF Visit, Story, Ledger
<1>3. CASE recordOutcome(tx, e, res, slow)
  BY Zenon, <1>1, <1>2, <1>3, OutcomeStory
<1>4. CASE UNCHANGED <<tracked, parked, flights, heard>>
  BY Zenon, <1>2, <1>4, Elsewhere
<1>5. CASE e.st = "confirmed" /\ retryConfirmed(tx, e, slow)
  BY Zenon, <1>1, <1>2, <1>5, ConfirmedStory
<1>6. CASE e.st = "finalized" /\ notifyFinalized(tx, e, slow)
  BY Zenon, <1>1, <1>2, <1>6, FinalizedStory DEF Final
<1>7. CASE e.st = "failed" /\ notifyFailed(tx, e, slow)
  BY Zenon, <1>1, <1>2, <1>7, FailedStory
<1> QED
  BY Zenon, <1>3, <1>4, <1>5, <1>6, <1>7, Zenon DEF Visit

\* handleConfirmationObserved and handleConfirmationDone
LEMMA ObservedStory ==
    ASSUME Story, NEW tx \in Txs, NEW slow,
           handleConfirmationObserved(tx, slow) \/ handleConfirmationDone(tx, slow)
    PROVE  Story' /\ ~Premature({"reorged", "finalized"})
<1> DEFINE e == tracked[tx]
<1>1. /\ e \in Entries /\ Informed(e, tx) /\ mined[tx] \in Nat
      /\ e.st \in Final => Pending(e, tx)
  BY Zenon DEF Story, Ledger, StoryAt
<1>2. UNCHANGED <<height, mined>>
  BY Zenon DEF handleConfirmationObserved, handleConfirmationDone
<1>3. CASE handleConfirmationObserved(tx, slow)
  <2> DEFINE f == [e EXCEPT !.st = "confirmed", !.height = mined[tx]]
  <2>1. f \in Entries /\ f.subs = e.subs /\ f.owed = e.owed
    BY Zenon, <1>1 DEF Entries, States
  <2>2. notifyConfirmed(tx, f, slow)
    BY Zenon, <1>3 DEF handleConfirmationObserved
  <2> HIDE DEF f
  <2>3. Informed(f, tx)
    BY Zenon, <1>1, <2>1 DEF Informed
  <2> QED
    BY Zenon, <1>2, <2>1, <2>2, <2>3, ConfirmedStory
<1>4. CASE handleConfirmationDone(tx, slow)
  <2> DEFINE f == [e EXCEPT !.st = "finalized"]
  <2>1. f \in Entries /\ f.subs = e.subs /\ f.owed = e.owed
    BY Zenon, <1>1 DEF Entries, States
  <2>2. notifyFinalized(tx, f, slow) /\ e.st = "confirmed"
    BY Zenon, <1>4 DEF handleConfirmationDone
  <2> HIDE DEF f
  <2>3. Informed(f, tx) /\ Pending(f, tx)
    BY Zenon, <1>1, <2>1, <2>2 DEF Informed, Pending, Final
  <2> QED
    BY Zenon, <1>2, <2>1, <2>2, <2>3, FinalizedStory
<1> QED
  BY Zenon, <1>3, <1>4

\* handleConfirmationReorged
LEMMA ReorgedStory ==
    ASSUME Story, NEW tx \in Txs, handleConfirmationReorged(tx)
    PROVE  Story' /\ ~Premature({"reorged", "finalized"})
<1> DEFINE e == tracked[tx]
           next == [e EXCEPT !.st = "awaiting"]
           carried == Fly("reorged", tx, e, e.subs \ e.owed)
<1>1. e \in Entries /\ Informed(e, tx) /\ e.subs \ e.owed \in SUBSET Subs
  BY Zenon DEF Story, Ledger, StoryAt, Entries
<1>2. /\ tracked' = [tracked EXCEPT ![tx] = next]
      /\ flights' = flights \cup carried
      /\ UNCHANGED <<height, mined, parked, heard>>
  BY Zenon DEF handleConfirmationReorged, notifyReorged, chainVars
<1>3. /\ next \in Entries /\ next.st \notin Final
      /\ next.subs = e.subs /\ next.owed = e.owed
  BY Zenon, <1>1 DEF Entries, States, Final
<1>4. \A f \in carried : /\ FlightShape(f) /\ f.note.tx = tx
                         /\ f.sub \in e.subs \ e.owed
  BY <1>1, FlightShapes
<1> HIDE DEF e, next, carried
<1>5. \A s \in next.subs \ next.owed : heard'[s][tx] # "none"
  BY Zenon, <1>1, <1>2, <1>3 DEF Informed
<1>6. \A f \in flights' \ flights :
            /\ FlightShape(f) /\ f.note.tx = tx
            /\ f.note.kind = "reorged" => heard'[f.sub][tx] # "none"
  BY Zenon, <1>1, <1>2, <1>4 DEF Informed
<1>7. heard' = [s \in Subs |-> [y \in Txs |-> heard'[s][y]]]
  BY Zenon, <1>2 DEF Story, Ledger
<1>8. Story'
  BY ZenonT(60), <1>2, <1>3, <1>5, <1>6, <1>7, EntryStep
<1> QED
  BY Zenon, <1>2, <1>8 DEF Premature

\* handleTerminalNotifyResult, and the goroutine before it
LEMMA ParkedStory ==
    ASSUME Story, NEW k \in parked, ParkedReturns(k) \/ ParkedResult(k)
    PROVE  Story' /\ ~Premature({"reorged", "finalized"})
<1> DEFINE tx == k.note.tx
           e == tracked[tx]
<1>1. /\ ParkedShape(k) /\ k.sub \in Subs /\ k.note.kind \in Reliable
      /\ UNCHANGED <<height, mined>>
  BY Zenon
  DEF Story, Ledger, ParkedShape, ParkedReturns, ParkedResult, chainVars
<1>2. heard = [s \in Subs |-> [y \in Txs |-> heard[s][y]]]
  BY Zenon DEF Story, Ledger
<1>3. ASSUME tx \in Txs
      PROVE  /\ e \in Entries /\ Informed(e, tx)
             /\ e.st \in Final => Pending(e, tx)
             /\ Spoken(k) => heard[k.sub][tx] # "none"
             /\ tracked = [tracked EXCEPT ![tx] = e]
  BY Zenon, <1>3 DEF Story, Ledger, StoryAt
<1>4. CASE ParkedReturns(k)
  <2> DEFINE told == IF k.sub \in closed THEN "stopped" ELSE "yes"
             m == [k EXCEPT !.told = told]
             who == {k.sub} \ closed
  <2>1. /\ parked' = (parked \ {k}) \cup {m}
        /\ heard' = Heard(who, k.note)
        /\ UNCHANGED <<tracked, flights>>
    BY Zenon, <1>4 DEF ParkedReturns
  <2>2. /\ m.note = k.note /\ m.sub = k.sub /\ m.told = told
        /\ m = [note |-> m.note, sub |-> m.sub, told |-> m.told]
    BY <1>1 DEF ParkedShape
  <2>3. ParkedShape(m)
    BY Zenon, <1>1, <2>2 DEF ParkedShape
  <2> HIDE DEF m, who
  <2>4. /\ \A j \in parked' \ parked : j = m
        /\ \A j \in parked \ parked' : j.note.tx = tx
    BY Zenon, <2>1
  <2>5. /\ heard' = [s \in Subs |-> [y \in Txs |-> heard'[s][y]]]
        /\ \A s \in Subs, y \in Txs :
             heard'[s][y] = IF s \in who /\ y = k.note.tx THEN k.note.kind
                                                        ELSE heard[s][y]
    BY <1>2, <2>1, HeardStep
  <2>6. CASE tx \notin Txs
    <3>1. \A j \in parked' \ parked : ParkedShape(j) /\ j.note.tx = tx
      BY Zenon, <2>2, <2>3, <2>4
    <3>2. Story' /\ heard' = heard
      BY Zenon, <1>1, <2>1, <2>4, <2>6, <3>1, Stranger
    <3> QED
      BY Zenon, <3>2 DEF Premature
  <2>7. CASE tx \in Txs
    <3>1. \A s \in Subs : /\ \A y \in Txs \ {tx} : heard'[s][y] = heard[s][y]
                          /\ heard[s][tx] # "none" => heard'[s][tx] # "none"
      BY Zenon, <1>1, <2>5, <2>7 DEF Reliable
    <3>2. k.sub \notin closed => heard'[k.sub][tx] # "none"
      BY Zenon, <1>1, <2>5, <2>7 DEF Reliable, who
    <3>3. \A j \in parked' \ parked :
            /\ ParkedShape(j) /\ j.note.tx = tx
            /\ Spoken(j) => heard'[j.sub][tx] # "none"
      BY Zenon, <1>1, <1>3, <2>2, <2>3, <2>4, <2>7, <3>1, <3>2 DEF Spoken
    <3>4. \A s \in e.subs \ e.owed : heard'[s][tx] # "none"
      BY Zenon, <1>3, <2>7, <3>1 DEF Informed, Entries
    <3>5. e.st \in Final => \A s \in e.owed : IsParked("confirmed", tx, s)'
      <4>1. SUFFICES ASSUME NEW s \in e.owed, IsParked("confirmed", tx, s)
                     PROVE  IsParked("confirmed", tx, s)'
        BY Zenon, <1>3, <2>7 DEF Pending
      <4>2. PICK j \in parked : j.note.kind = "confirmed" /\ j.note.tx = tx
                                /\ j.sub = s
        BY Zenon, <4>1 DEF IsParked
      <4>3. CASE j = k
        BY Zenon, <2>1, <2>2, <4>2, <4>3 DEF IsParked
      <4>4. CASE j # k
        BY Zenon, <2>1, <4>2, <4>4 DEF IsParked
      <4> QED
        BY Zenon, <4>3, <4>4
    <3>6. tracked' = [tracked EXCEPT ![tx] = e]
      BY Zenon, <1>3, <2>1, <2>7
    <3>7. heard' = [s \in Subs |-> [y \in Txs |-> heard'[s][y]]]
      BY Zenon, <2>5
    <3>8. flights' \ flights = {}
      BY Zenon, <2>1
    <3>9. e \in Entries
      BY Zenon, <1>3, <2>7
    <3> HIDE DEF tx, e
    <3>10. Story'
      BY Zenon, <1>1, <2>4, <2>7, <3>1, <3>3, <3>4, <3>5, <3>6, <3>7, <3>8,
         <3>9, EntryStep
    <3>11. ~Premature({"reorged", "finalized"})
      BY Zenon, <1>1, <1>3, <2>5, <2>7 DEF Premature, Reliable, Spoken, tx, who
    <3> QED
      BY Zenon, <3>10, <3>11
  <2> QED
    BY Zenon, <2>6, <2>7
<1>5. CASE ParkedResult(k)
  <2> DEFINE clear == [e EXCEPT !.owed = @ \ {k.sub}]
             left == [clear EXCEPT !.subs = @ \ {k.sub}]
             carried == Fly("reorged", tx, e, {k.sub})
  <2>1. /\ parked' = parked \ {k} /\ UNCHANGED heard
        /\ \/ flights' = flights
           \/ flights' = flights \cup carried /\ k.told = "yes"
    BY Zenon, <1>5 DEF ParkedResult
  <2>2. PICK after :
            /\ \/ after = Cancelled(e, k.sub)
               \/ after = clear /\ k.told = "yes"
               \/ after = left
            /\ tracked' = [tracked EXCEPT ![tx] =
                    IF isTerminal(after.st) THEN Kept(after) ELSE after]
    <3> DEFINE new == CASE k.told = "stopped" -> Cancelled(e, k.sub)
                        [] k.told = "yes" /\ k.note.kind = "confirmed" -> clear
                        [] OTHER -> left
    <3>1. tracked' = [tracked EXCEPT ![tx] =
                    IF isTerminal(new.st) THEN Kept(new) ELSE new]
      BY Zenon, <1>5, Zenon DEF ParkedResult
    <3> HIDE DEF clear, left
    <3>2. \/ new = Cancelled(e, k.sub)
          \/ new = clear /\ k.told = "yes"
          \/ new = left
      BY Zenon
    <3> HIDE DEF new
    <3> QED
      BY Zenon, <3>1, <3>2
  <2>3. \A f \in carried : FlightShape(f) /\ f.note.tx = tx /\ f.sub = k.sub
    BY <1>1, FlightShapes
  <2>4. \A j \in parked \ parked' : j.note.tx = tx
    BY Zenon, <2>1
  <2> HIDE DEF carried
  <2>5. CASE tx \notin Txs
    <3>1. \A f \in flights' \ flights : FlightShape(f) /\ f.note.tx = tx
      BY Zenon, <2>1, <2>3
    <3>2. \E f : tracked' = [tracked EXCEPT ![tx] = f]
      BY Zenon, <2>2
    <3>3. Story' /\ heard' = heard
      BY Zenon, <1>1, <2>1, <2>4, <2>5, <3>1, <3>2, Stranger
    <3> QED
      BY <3>3 DEF Premature
  <2>6. CASE tx \in Txs
    <3> DEFINE next == IF isTerminal(after.st) THEN Kept(after) ELSE after
    <3>1. e \in Entries
      BY <1>3, <2>6
    <3>2. /\ clear \in Entries /\ clear.st = e.st /\ clear.subs = e.subs
          /\ clear.owed = e.owed \ {k.sub}
      BY Zenon, <3>1 DEF Entries
    <3>3. /\ left \in Entries /\ left.st = e.st /\ left.owed = e.owed \ {k.sub}
          /\ left.subs = e.subs \ {k.sub}
      BY Zenon, <3>2 DEF Entries
    <3>4. /\ Without(e, {k.sub}) \in Entries
          /\ Without(e, {k.sub}).st \in {e.st, "none"}
          /\ \A s \in Without(e, {k.sub}).subs :
                /\ s \in e.subs /\ s # k.sub
                /\ s \in Without(e, {k.sub}).owed <=> s \in e.owed
          /\ \A s \in Without(e, {k.sub}).owed : s \in e.owed /\ s # k.sub
      BY <3>1, EntryTypes
    <3> HIDE DEF clear, left
    <3>5. /\ after \in Entries /\ after.st \in {e.st, "none"}
          /\ \A s \in after.subs \ after.owed :
                s \in e.subs \ e.owed \/ (s = k.sub /\ k.told = "yes")
          /\ \A s \in after.owed : s \in e.owed /\ s # k.sub
      <4>1. CASE after = Cancelled(e, k.sub)
        BY Zenon, <3>4, <4>1 DEF Cancelled
      <4>2. CASE after = clear /\ k.told = "yes"
        BY Zenon, <3>2, <4>2
      <4>3. CASE after = left
        BY Zenon, <3>3, <4>3
      <4> QED
        BY Zenon, <2>2, <4>1, <4>2, <4>3
    <3>6. /\ Kept(after) \in Entries /\ Kept(after).st \in {after.st, "none"}
          /\ \A s \in Kept(after).subs :
               s \in after.subs /\ (s \in Kept(after).owed <=> s \in after.owed)
          /\ Kept(after).owed \subseteq after.owed
      BY Zenon, <3>5, EntryTypes
    <3>7. /\ next \in Entries /\ next.st \in {e.st, "none"}
          /\ \A s \in next.subs \ next.owed :
                s \in e.subs \ e.owed \/ (s = k.sub /\ k.told = "yes")
          /\ \A s \in next.owed : s \in e.owed /\ s # k.sub
      BY Zenon, <3>5, <3>6
    <3>8. tracked' = [tracked EXCEPT ![tx] = next]
      BY Zenon, <2>2
    <3> HIDE DEF next
    <3>9. k.told = "yes" => heard'[k.sub][tx] # "none"
      BY Zenon, <1>3, <2>1, <2>6 DEF Spoken
    <3>10. \A s \in next.subs \ next.owed : heard'[s][tx] # "none"
      BY Zenon, <1>3, <2>1, <2>6, <3>7, <3>9 DEF Informed
    <3>11. next.st \in Final => \A s \in next.owed : IsParked("confirmed", tx, s)'
      <4>1. SUFFICES ASSUME NEW s, s # k.sub, IsParked("confirmed", tx, s)
                     PROVE  IsParked("confirmed", tx, s)'
        BY Zenon, <1>3, <2>6, <3>7 DEF Pending, Final
      <4> QED
        BY Zenon, <2>1, <4>1 DEF IsParked
    <3>12. \A f \in flights' \ flights :
            /\ FlightShape(f) /\ f.note.tx = tx
            /\ f.note.kind = "reorged" => heard'[f.sub][tx] # "none"
      BY Zenon, <2>1, <2>3, <3>9
    <3>13. heard' = [s \in Subs |-> [y \in Txs |-> heard'[s][y]]]
      BY Zenon, <1>2, <2>1
    <3>14. parked' \ parked = {}
      BY Zenon, <2>1
    <3> HIDE DEF tx, e
    <3>15. Story'
      BY ZenonT(60), <1>1, <2>1, <2>4, <2>6, <3>7, <3>8, <3>10, <3>11, <3>12,
         <3>13, <3>14, EntryStep
    <3> QED
      BY Zenon, <2>1, <3>15 DEF Premature
  <2> QED
    BY <2>5, <2>6
<1> QED
  BY Zenon, <1>4, <1>5

\* The goroutines that carry a reversible notification
LEMMA FlightStory ==
    ASSUME Story, NEW f \in flights,
           FlightChecks(f) \/ FlightLands(f) \/ FlightLost(f)
    PROVE  Story' /\ ~Premature({"reorged", "finalized"})
<1> DEFINE tx == f.note.tx
           e == tracked[tx]
<1>1. /\ FlightShape(f) /\ f.sub \in Subs
      /\ f.note.kind \in {"confirmed", "reorged"}
      /\ UNCHANGED <<height, mined, tracked, parked>>
  BY Zenon DEF Story, Ledger, FlightShape, FlightChecks, FlightLands,
         FlightLost, chainVars
<1>2. heard = [s \in Subs |-> [y \in Txs |-> heard[s][y]]]
  BY Zenon DEF Story, Ledger
<1>3. ASSUME tx \in Txs
      PROVE  /\ e \in Entries /\ Informed(e, tx)
             /\ e.st \in Final => Pending(e, tx)
             /\ f.note.kind = "reorged" => heard[f.sub][tx] # "none"
             /\ tracked = [tracked EXCEPT ![tx] = e]
  BY Zenon, <1>3 DEF Story, Ledger, StoryAt
<1>4. CASE FlightChecks(f)
  <2> DEFINE g == [f EXCEPT !.checked = TRUE]
  <2>1. /\ g.note = f.note /\ g.sub = f.sub
        /\ g \in [note : {g.note}, sub : {g.sub}, checked : BOOLEAN]
    BY Zenon, <1>1 DEF FlightShape
  <2>2. flights' = (flights \ {f}) \cup {g} /\ UNCHANGED heard
    BY Zenon, <1>4 DEF FlightChecks
  <2> HIDE DEF g
  <2>3. FlightShape(g)
    BY Zenon, <1>1, <2>1 DEF FlightShape
  <2>4. \A h \in flights' \ flights : FlightShape(h) /\ h.note.tx = tx
    BY Zenon, <2>1, <2>2, <2>3
  <2>5. CASE tx \notin Txs
    <3>1. Story'
      BY Zenon, <1>1, <2>2, <2>4, <2>5, Stranger
    <3> QED
      BY Zenon, <2>2, <3>1 DEF Premature
  <2>6. CASE tx \in Txs
    <3>1. \A h \in flights' \ flights :
            /\ FlightShape(h) /\ h.note.tx = tx
            /\ h.note.kind = "reorged" => heard'[h.sub][tx] # "none"
      BY Zenon, <1>3, <2>1, <2>2, <2>3, <2>6
    <3>2. tracked' = [tracked EXCEPT ![tx] = e] /\ e \in Entries
      BY Zenon, <1>1, <1>3, <2>6
    <3>3. /\ \A s \in e.subs \ e.owed : heard'[s][tx] # "none"
          /\ e.st \in Final => \A s \in e.owed : IsParked("confirmed", tx, s)'
      BY Zenon, <1>1, <1>3, <2>2, <2>6 DEF Informed, Pending, IsParked
    <3>4. heard' = [s \in Subs |-> [y \in Txs |-> heard'[s][y]]]
      BY Zenon, <1>2, <2>2
    <3> HIDE DEF tx, e
    <3>5. Story'
      BY Zenon, <1>1, <2>2, <2>6, <3>1, <3>2, <3>3, <3>4, EntryStep
    <3> QED
      BY <2>2, <3>5 DEF Premature
  <2> QED
    BY <2>5, <2>6
<1>5. CASE FlightLands(f) \/ FlightLost(f)
  <2>1. /\ flights' \ flights = {}
        /\ \/ \E who : heard' = Heard(who, f.note)
           \/ heard' = Missed(f.sub, tx)
    BY Zenon, <1>5 DEF FlightLands, FlightLost
  <2>2. /\ heard' = [s \in Subs |-> [y \in Txs |-> heard'[s][y]]]
        /\ \A s \in Subs, y \in Txs :
             \/ heard'[s][y] = heard[s][y]
             \/ y = tx /\ heard'[s][y] = f.note.kind /\ s = f.sub
             \/ y = tx /\ heard[s][y] # "none" /\ heard'[s][y] = "missed"
    <3>1. CASE FlightLands(f)
      <4> DEFINE who == {f.sub} \ closed
      <4>1. heard' = Heard(who, f.note)
        BY Zenon, <3>1 DEF FlightLands
      <4>2. who \subseteq {f.sub}
        BY Zenon
      <4> HIDE DEF who
      <4>3. /\ heard' = [s \in Subs |-> [y \in Txs |-> heard'[s][y]]]
            /\ \A s \in Subs, y \in Txs :
                 heard'[s][y] = IF s \in who /\ y = f.note.tx
                                THEN f.note.kind ELSE heard[s][y]
        BY <1>2, <4>1, HeardStep
      <4> QED
        BY Zenon, <4>2, <4>3
    <3>2. CASE FlightLost(f)
      <4>1. heard' = Missed(f.sub, f.note.tx)
        BY Zenon, <3>2 DEF FlightLost
      <4> QED
        BY <1>1, <1>2, <4>1, MissedStep
    <3> QED
      BY Zenon, <1>5, <3>1, <3>2
  <2>3. CASE tx \notin Txs
    <3>1. Story' /\ heard' = heard
      BY Zenon, <1>1, <2>1, <2>3, Stranger
    <3> QED
      BY <3>1 DEF Premature
  <2>4. CASE tx \in Txs
    <3>1. \A s \in Subs : /\ \A y \in Txs \ {tx} : heard'[s][y] = heard[s][y]
                          /\ heard[s][tx] # "none" => heard'[s][tx] # "none"
      BY Zenon, <1>1, <2>2, <2>4
    <3>2. tracked' = [tracked EXCEPT ![tx] = e] /\ e \in Entries
      BY <1>1, <1>3, <2>4
    <3>3. \A s \in e.subs \ e.owed : heard'[s][tx] # "none"
      BY Zenon, <1>3, <2>4, <3>1, <3>2 DEF Informed, Entries
    <3>4. e.st \in Final => \A s \in e.owed : IsParked("confirmed", tx, s)'
      BY Zenon, <1>1, <1>3, <2>4 DEF Pending, IsParked
    <3>5. heard' = [s \in Subs |-> [y \in Txs |-> heard'[s][y]]]
      BY Zenon, <2>2
    <3>6. ~Premature({"reorged", "finalized"})
      BY ZenonT(60), <1>1, <1>3, <2>2, <2>4 DEF Premature
    <3> HIDE DEF tx, e
    <3>7. Story'
      BY Zenon, <1>1, <2>1, <2>4, <3>1, <3>2, <3>3, <3>4, <3>5, EntryStep
    <3> QED
      BY Zenon, <3>6, <3>7
  <2> QED
    BY <2>3, <2>4
<1> QED
  BY <1>4, <1>5

\* No turn of the broadcaster tells a reorg or the end first.
LEMMA ConfirmStory ==
    ASSUME Story, ConfirmStep
    PROVE  Story' /\ ~Premature({"reorged", "finalized"})
<1>1. height \in Nat /\ mined \in [Txs -> Nat]
  BY Zenon DEF Story, Ledger
<1>2. CASE BlockObserved
  BY Zenon, <1>1, <1>2, Elsewhere DEF BlockObserved, chainVars
<1>3. CASE \E tx \in Txs : handleConfirmationReorged(tx)
  BY Zenon, <1>3, ReorgedStory
<1>4. CASE \E k \in parked : ParkedReturns(k) \/ ParkedResult(k)
  BY Zenon, <1>4, ParkedStory
<1>5. CASE \E f \in flights :
            FlightChecks(f) \/ FlightLands(f) \/ FlightLost(f)
  BY <1>5, FlightStory
<1>6. ASSUME NEW tx \in Txs, NEW slow,
             \/ handleConfirmationObserved(tx, slow)
             \/ handleConfirmationDone(tx, slow)
             \/ \E res : Visit(tx, res, slow)
      PROVE  Story' /\ ~Premature({"reorged", "finalized"})
  BY Zenon, <1>6, ObservedStory, VisitStory
<1> QED
  BY Zenon, <1>2, <1>3, <1>4, <1>5, <1>6 DEF ConfirmStep

\* A fresh broadcaster has told nobody.
Fresh ==
    /\ tracked = [tx \in Txs |-> Untracked] /\ parked = {} /\ flights = {}
    /\ heard = [s \in Subs |-> [tx \in Txs |-> "none"]]
    /\ height \in Nat /\ mined \in [Txs -> Nat]
\* After a start or a crash there is no story yet.
LEMMA FreshStory == Fresh => Story
<1> SUFFICES ASSUME Fresh PROVE Story
  BY Zenon
<1>1. /\ Untracked \in Entries /\ Untracked.st \notin Final
      /\ Untracked.subs = {}
  BY Zenon DEF Untracked, Entries, States, Classes, Final
<1>2. Ledger
  BY Zenon, <1>1 DEF Fresh, Ledger
<1>3. \A tx \in Txs : StoryAt(tx)
  BY Zenon, <1>1 DEF Fresh, StoryAt, Informed
<1> QED
  BY Zenon, <1>2, <1>3 DEF Story

-----------------------------------------------------------------------------
(***************************************************************************)
(* What the broadcaster reports is so, while nothing is reorganised:       *)
(* Reported.  A sweep whose entry, parked tell, goroutine or message says  *)
(* that it is confirmed is mined.  The mailboxes meant are those that keep *)
(* reliable notifications only.                                            *)
(***************************************************************************)
Mined == {tx \in Txs : mined[tx] > 0}
Keepers == {s \in Subs : Wanted[s] \subseteq Reliable}
IsSeq(q) == \E X : q \in Seq(X)

\* A notification, and a message of a mailbox, given the mined transactions M
\* and the scenario S.
Truthful(n, M) == n.kind \in Final /\ n.tx \in SweepTxs => n.tx \in M
Spends(S, tx) == IF tx \in SweepTxs THEN {S.proof.target}
                 ELSE IF tx \in DOMAIN S.foreign THEN S.foreign[tx]
                 ELSE S.proof.inputs[tx]
Credible(m, S, M) ==
    /\ m.kind \in Reliable \cup {"start", "resume", "height", "spend"}
    /\ Truthful(m, M)
    /\ m.kind = "spend" =>
         /\ m.tx \in M /\ m.op \in Spends(S, m.tx)
         /\ m.tx \in SweepTxs \cup S.proof.nodes \cup DOMAIN S.foreign
Boxed(b, S, M) ==
    /\ b = [rows |-> b.rows, ids |-> b.ids] /\ IsSeq(b.rows)
    /\ \A i \in 1 .. Len(b.rows) :
            "msg" \in DOMAIN b.rows[i] /\ Credible(b.rows[i].msg, S, M)

Reported ==
    /\ \A tx \in SweepTxs : tracked[tx].st \in Final => tx \in Mined
    /\ \A k \in parked : Truthful(k.note, Mined)
    /\ \A f \in flights : Truthful(f.note, Mined)
    /\ box = [s \in Subs |-> box[s]]
    /\ \A s \in Keepers : Boxed(box[s], sc, Mined)

\* The sweeps that are at the broadcaster or in the mempool.
Out == {tx \in SweepTxs : tx \in pool \/ tracked[tx].st # "none"}

\* The mailboxes after a step.
Posted(b) ==
    /\ b = [s \in Subs |-> b[s]]
    /\ \A s \in Keepers : /\ Boxed(b[s], sc, Mined)
                          /\ Len(box[s].rows) <= Len(b[s].rows)

LEMMA SweepsAreTxs == SweepTxs \subseteq Txs
BY SweepsAssumption DEF SweepTxs

LEMMA SeqAppend ==
    ASSUME NEW q, NEW x, IsSeq(q)
    PROVE  /\ IsSeq(Append(q, x)) /\ Len(q) \in Nat
           /\ Len(Append(q, x)) = Len(q) + 1
           /\ \A i \in 1 .. Len(q) : Append(q, x)[i] = q[i]
           /\ Append(q, x)[Len(q) + 1] = x
<1>1. PICK X : q \in Seq(X)
  BY Zenon DEF IsSeq
<1>2. q \in Seq(X \cup {x}) /\ x \in X \cup {x}
  BY <1>1
<1>3. Append(q, x) \in Seq(X \cup {x})
  BY <1>2
<1> QED
  BY <1>2, <1>3 DEF IsSeq

\* A durable enqueue of something credible.
LEMMA PostBoxed ==
    ASSUME NEW b, NEW S, NEW M, NEW id, NEW m, Boxed(b, S, M), Credible(m, S, M)
    PROVE  Boxed(Post(b, id, m), S, M) /\ Len(b.rows) <= Len(Post(b, id, m).rows)
<1> DEFINE r == [id |-> id, late |-> FALSE, msg |-> m]
           q == Append(b.rows, r)
           ids == IF id = NoId THEN b.ids ELSE b.ids \cup {id}
<1>1. /\ IsSeq(b.rows)
      /\ \A i \in 1 .. Len(b.rows) :
            "msg" \in DOMAIN b.rows[i] /\ Credible(b.rows[i].msg, S, M)
  BY Zenon DEF Boxed
<1>2. Post(b, id, m) = b \/ Post(b, id, m) = [rows |-> q, ids |-> ids]
  BY Zenon DEF Post
<1>3. r.msg = m /\ "msg" \in DOMAIN r
  BY Zenon
<1> HIDE DEF r
<1>4. /\ IsSeq(q) /\ Len(q) = Len(b.rows) + 1 /\ Len(b.rows) \in Nat
      /\ \A i \in 1 .. Len(b.rows) : q[i] = b.rows[i]
      /\ q[Len(b.rows) + 1] = r
  BY ZenonT(60), <1>1, SeqAppend
<1> HIDE DEF q, ids
<1>5. ASSUME NEW i \in 1 .. Len(q)
      PROVE  "msg" \in DOMAIN q[i] /\ Credible(q[i].msg, S, M)
  <2>1. i \in 1 .. Len(b.rows) \/ i = Len(b.rows) + 1
    BY <1>4
  <2> QED
    BY Zenon, <1>1, <1>3, <1>4, <2>1
<1>6. CASE Post(b, id, m) = b
  BY <1>4, <1>6
<1>7. CASE Post(b, id, m) = [rows |-> q, ids |-> ids]
  <2>1. Boxed([rows |-> q, ids |-> ids], S, M)
    BY Zenon, <1>4, <1>5 DEF Boxed
  <2> QED
    BY <1>4, <1>7, <2>1
<1> QED
  BY Zenon, <1>2, <1>6, <1>7

LEMMA DeliveredBoxed ==
    ASSUME NEW b, NEW S, NEW M, NEW n, NEW s \in Keepers, NEW reliable,
           Boxed(b, S, M), Truthful(n, M)
    PROVE  /\ Boxed(Delivered(b, s, n, reliable), S, M)
           /\ Len(b.rows) <= Len(Delivered(b, s, n, reliable).rows)
<1>1. CASE n.kind \in Wanted[s]
  <2>1. Credible(n, S, M)
    BY Zenon, <1>1 DEF Credible, Keepers, Reliable
  <2> QED
    BY Zenon, <1>1, <2>1, PostBoxed DEF Delivered
<1>2. CASE n.kind \notin Wanted[s]
  <2>1. Len(b.rows) \in Nat
    BY Zenon, SeqAppend DEF Boxed
  <2> QED
    BY <1>2, <2>1 DEF Delivered
<1> QED
  BY Zenon, <1>1, <1>2

\* Tells to some of the subscribers.
LEMMA BoxesPosted ==
    ASSUME Reported, NEW who, NEW note, Truthful(note, Mined)
    PROVE  Posted(Boxes(who, note)) /\ Posted(box)
<1>1. ASSUME NEW s \in Keepers
      PROVE  /\ Boxed(Boxes(who, note)[s], sc, Mined)
             /\ Len(box[s].rows) <= Len(Boxes(who, note)[s].rows)
             /\ Boxed(box[s], sc, Mined) /\ Len(box[s].rows) <= Len(box[s].rows)
  <2>1. Boxed(box[s], sc, Mined) /\ s \in Subs
    BY Zenon DEF Reported, Keepers
  <2>2. Len(box[s].rows) <= Len(box[s].rows)
    BY <2>1, SeqAppend DEF Boxed
  <2>3. \/ Boxes(who, note)[s] = Delivered(box[s], s, note, TRUE)
        \/ Boxes(who, note)[s] = box[s]
    BY Zenon, <2>1 DEF Boxes
  <2> QED
    BY Zenon, <2>1, <2>2, <2>3, DeliveredBoxed
<1>2. Boxes(who, note) = [s \in Subs |-> Boxes(who, note)[s]]
  BY Zenon DEF Boxes
<1> QED
  BY Zenon, <1>1, <1>2 DEF Posted, Reported

\* A step about the transaction tx.
LEMMA Reporting ==
    ASSUME Reported, sc' = sc, mined' = mined, NEW tx,
           \A y \in Txs \ {tx} : tracked'[y] = tracked[y],
           tx \in SweepTxs /\ tracked'[tx].st \in Final => tx \in Mined,
           \A k \in parked' \ parked : Truthful(k.note, Mined),
           \A f \in flights' \ flights : Truthful(f.note, Mined),
           Posted(box'), pool' \subseteq pool \cup {tx}
    PROVE  /\ Reported' /\ Out' \subseteq Out \cup {tx}
           /\ pool' \subseteq pool /\ tracked'[tx].st \in {tracked[tx].st, "none"}
                => Out' \subseteq Out
<1>1. Mined' = Mined
  BY Zenon DEF Mined
<1>2. \A y \in SweepTxs : y # tx => tracked'[y] = tracked[y]
  BY Zenon, SweepsAreTxs
<1>3. Out' \subseteq Out \cup {tx}
  BY Zenon, <1>2 DEF Out
<1>4. pool' \subseteq pool /\ tracked'[tx].st \in {tracked[tx].st, "none"}
                => Out' \subseteq Out
  BY Zenon, <1>2 DEF Out
<1>5. \A y \in SweepTxs : tracked'[y].st \in Final => y \in Mined
  BY Zenon, <1>2 DEF Reported
<1>6. /\ \A k \in parked' : Truthful(k.note, Mined)
      /\ \A f \in flights' : Truthful(f.note, Mined)
  BY Zenon DEF Reported
<1>7. /\ box' = [s \in Subs |-> box'[s]]
      /\ \A s \in Keepers : Boxed(box'[s], sc, Mined)
  BY Zenon DEF Posted
<1>8. Reported'
  BY Zenon, <1>1, <1>5, <1>6, <1>7 DEF Reported
<1> QED
  BY Zenon, <1>3, <1>4, <1>8

\* The notes of a tell.
LEMMA Tells ==
    ASSUME NEW M, NEW kind, NEW tx, NEW e, NEW who, NEW slow,
           kind \in Final /\ tx \in SweepTxs => tx \in M
    PROVE  /\ Truthful(Note(kind, tx, e), M)
           /\ \A k \in Parked(kind, tx, e, who, slow) : Truthful(k.note, M)
           /\ \A f \in Fly(kind, tx, e, who) : Truthful(f.note, M)
<1>1. Truthful(Note(kind, tx, e), M)
  BY Zenon DEF Truthful, Note
<1>2. ASSUME NEW k \in Parked(kind, tx, e, who, slow)
      PROVE  k.note = Note(kind, tx, e)
  BY DEF Parked
<1>3. ASSUME NEW f \in Fly(kind, tx, e, who)
      PROVE  f.note = Note(kind, tx, e)
  BY DEF Fly
<1> QED
  BY Zenon, <1>1, <1>2, <1>3

\* notifyConfirmed, retryConfirmedRedelivery, notifyFinalized, notifyFailed
LEMMA NotifyReports ==
    ASSUME Story, Reported, sc' = sc, mined' = mined, NEW tx, NEW e \in Entries,
           NEW slow, pool' \subseteq pool \cup {tx},
           \/ /\ tx \in SweepTxs => tx \in Mined
              /\ \/ notifyConfirmed(tx, e, slow) \/ retryConfirmed(tx, e, slow)
                 \/ notifyFinalized(tx, e, slow)
           \/ notifyFailed(tx, e, slow) /\ e.st = "failed"
    PROVE  Reported' /\ Out' \subseteq Out \cup {tx} /\ Posted(box')
<1>0. tracked \in [Txs -> Entries]
  BY Zenon DEF Story, Ledger
<1> DEFINE Said == /\ \E g : tracked' = [tracked EXCEPT ![tx] = g]
                   /\ tx \in SweepTxs /\ tracked'[tx].st \in Final => tx \in Mined
                   /\ \A k \in parked' \ parked : Truthful(k.note, Mined)
                   /\ \A f \in flights' \ flights : Truthful(f.note, Mined)
                   /\ Posted(box')
<1>1. ASSUME tx \in SweepTxs => tx \in Mined,
             notifyConfirmed(tx, e, slow) \/ retryConfirmed(tx, e, slow)
      PROVE  Said
  <2>1. /\ \E g : tracked' = [tracked EXCEPT ![tx] = g]
        /\ parked' = parked \cup Parked("confirmed", tx, e, e.owed, slow)
        /\ flights' \subseteq flights
                         \cup Fly("confirmed", tx, e, e.subs \ e.owed)
        /\ \E who : box' = Boxes(who, Note("confirmed", tx, e))
    BY Zenon, <1>1 DEF notifyConfirmed, retryConfirmed
  <2>2. /\ \A k \in parked' \ parked : Truthful(k.note, Mined)
        /\ \A f \in flights' \ flights : Truthful(f.note, Mined)
        /\ Truthful(Note("confirmed", tx, e), Mined)
    BY Zenon, <1>1, <2>1, Tells
  <2>3. Posted(box')
    BY Zenon, <2>1, <2>2, BoxesPosted
  <2> QED
    BY Zenon, <1>1, <2>1, <2>2, <2>3
<1>2. ASSUME tx \in SweepTxs => tx \in Mined, notifyFinalized(tx, e, slow)
      PROVE  Said
  <2>1. PICK held : notifyFinalizedTo(tx, e, slow, held)
    BY Zenon, <1>2 DEF notifyFinalized
  <2> DEFINE conf == Landed("confirmed", tx, e.owed, held)
             ready == (e.subs \ e.owed) \cup conf
             fin == Landed("finalized", tx, ready, slow)
             first == Boxes(conf, Note("confirmed", tx, e))
  <2>2. /\ \E g : tracked' = [tracked EXCEPT ![tx] = g]
        /\ parked' = parked \cup Parked("confirmed", tx, e, e.owed, held)
                            \cup Parked("finalized", tx, e, ready, slow)
        /\ flights' \subseteq flights
        /\ box' = [s \in Subs |->
                IF s \in fin
                THEN Delivered(first[s], s, Note("finalized", tx, e), TRUE)
                ELSE first[s]]
    BY Zenon, <2>1 DEF notifyFinalizedTo, Sealed
  <2> HIDE DEF conf, ready, fin, first
  <2>3. /\ \A k \in parked' \ parked : Truthful(k.note, Mined)
        /\ Truthful(Note("confirmed", tx, e), Mined)
        /\ Truthful(Note("finalized", tx, e), Mined)
    <3>1. /\ Truthful(Note("confirmed", tx, e), Mined)
          /\ \A k \in Parked("confirmed", tx, e, e.owed, held) :
                Truthful(k.note, Mined)
      BY Zenon, <1>2, Tells
    <3>2. /\ Truthful(Note("finalized", tx, e), Mined)
          /\ \A k \in Parked("finalized", tx, e, ready, slow) :
                Truthful(k.note, Mined)
      BY Zenon, <1>2, Tells
    <3> QED
      BY Zenon, <2>2, <3>1, <3>2
  <2>4. Posted(first)
    BY Zenon, <2>3, BoxesPosted DEF first
  <2>5. ASSUME NEW s \in Keepers
        PROVE  /\ Boxed(box'[s], sc, Mined)
               /\ Len(box[s].rows) <= Len(box'[s].rows)
    <3>1. /\ Boxed(first[s], sc, Mined) /\ s \in Subs
          /\ Len(box[s].rows) <= Len(first[s].rows)
      BY Zenon, <2>4 DEF Posted, Keepers
    <3>2. \/ box'[s] = Delivered(first[s], s, Note("finalized", tx, e), TRUE)
          \/ box'[s] = first[s]
      BY ZenonT(60), <2>2, <3>1
    <3>3. Len(box[s].rows) \in Nat /\ Len(first[s].rows) \in Nat
      BY Zenon, <3>1, SeqAppend DEF Boxed, Reported
    <3>4. CASE box'[s] = first[s]
      BY Zenon, <3>1, <3>4
    <3>5. CASE box'[s] = Delivered(first[s], s, Note("finalized", tx, e), TRUE)
      <4>1. Boxed(box'[s], sc, Mined) /\ Len(first[s].rows) <= Len(box'[s].rows)
        BY Zenon, <2>3, <3>1, <3>5, DeliveredBoxed
      <4>2. Len(box'[s].rows) \in Nat
        BY Zenon, <4>1, SeqAppend DEF Boxed
      <4> QED
        BY <3>1, <3>3, <4>1, <4>2
    <3> QED
      BY Zenon, <3>2, <3>4, <3>5
  <2>6. Posted(box')
    BY Zenon, <2>2, <2>5 DEF Posted
  <2> QED
    BY Zenon, <1>2, <2>2, <2>3, <2>6
<1>3. ASSUME notifyFailed(tx, e, slow), e.st = "failed"
      PROVE  Said
  <2> DEFINE out == Landed("failed", tx, e.subs, slow)
                       \cup Stopped("failed", tx, e.subs)
             left == [e EXCEPT !.subs = @ \ out]
  <2>1. /\ tracked' = [tracked EXCEPT ![tx] = Kept(left)]
        /\ parked' = parked \cup Parked("failed", tx, e, e.subs, slow)
        /\ flights' \subseteq flights
        /\ \E who : box' = Boxes(who, Note("failed", tx, e))
    BY Zenon, <1>3 DEF notifyFailed, Sealed
  <2>2. left \in Entries /\ left.st = "failed"
    BY Zenon, <1>3 DEF Entries
  <2> HIDE DEF left, out
  <2>3. Kept(left).st \notin Final
    BY Zenon, <2>2, EntryTypes DEF Final
  <2>4. "failed" \notin Final
    BY Zenon DEF Final
  <2>5. /\ \A k \in parked' \ parked : Truthful(k.note, Mined)
        /\ Truthful(Note("failed", tx, e), Mined)
    BY Zenon, <2>1, <2>4, Tells
  <2>6. Posted(box')
    BY Zenon, <2>1, <2>5, BoxesPosted
  <2>7. tx \in SweepTxs => tracked'[tx] = Kept(left)
    BY Zenon, <1>0, <2>1, SweepsAreTxs
  <2> QED
    BY Zenon, <2>1, <2>3, <2>5, <2>6, <2>7
<1>4. Said
  BY Zenon, <1>1, <1>2, <1>3
<1>5. \A y \in Txs \ {tx} : tracked'[y] = tracked[y]
  BY Zenon, <1>0, <1>4
<1> HIDE DEF Said
<1>6. /\ tx \in SweepTxs /\ tracked'[tx].st \in Final => tx \in Mined
      /\ \A k \in parked' \ parked : Truthful(k.note, Mined)
      /\ \A f \in flights' \ flights : Truthful(f.note, Mined)
      /\ Posted(box')
  BY Zenon, <1>4 DEF Said
<1> QED
  BY Zenon, <1>5, <1>6, Reporting

\* A step that tells nobody.
LEMMA NothingPosted ==
    ASSUME Reported, box' = box
    PROVE  Posted(box')
<1>1. ASSUME NEW s \in Keepers
      PROVE  Boxed(box[s], sc, Mined) /\ Len(box[s].rows) <= Len(box[s].rows)
  <2>1. Boxed(box[s], sc, Mined)
    BY Zenon DEF Reported
  <2>2. Len(box[s].rows) \in Nat
    BY Zenon, <2>1, SeqAppend DEF Boxed
  <2> QED
    BY <2>1, <2>2
<1> QED
  BY Zenon, <1>1 DEF Posted, Reported

\* recordInitialBroadcastOutcome
LEMMA OutcomeReports ==
    ASSUME Story, Reported, sc' = sc, mined' = mined, NEW tx, NEW e \in Entries,
           NEW res, NEW slow, recordOutcome(tx, e, res, slow),
           pool' \subseteq pool \cup {tx}
    PROVE  Reported' /\ Out' \subseteq Out \cup {tx} /\ Posted(box')
<1>1. CASE res \in Rejections(tx)
  <2> DEFINE f == [e EXCEPT !.st = "failed", !.class = res]
  <2>1. f \in Entries /\ f.st = "failed"
    BY Zenon, <1>1 DEF Rejections, Entries, States, Classes
  <2>2. notifyFailed(tx, f, slow)
    BY Zenon, <1>1 DEF recordOutcome
  <2> HIDE DEF f
  <2> QED
    BY Zenon, <2>1, <2>2, NotifyReports
<1>2. CASE res \notin Rejections(tx)
  <2> DEFINE f == [e EXCEPT !.st = IF res = "ok" THEN "awaiting"
                                                 ELSE "broadcasting"]
  <2>1. f.st \notin Final
    BY Zenon DEF Entries, Final
  <2>2. /\ tracked' = [tracked EXCEPT ![tx] = f]
        /\ parked' = parked /\ flights' = flights /\ box' = box
    BY Zenon, <1>2 DEF recordOutcome
  <2> HIDE DEF f
  <2>3. tracked \in [Txs -> Entries]
    BY Zenon DEF Story, Ledger
  <2>4. /\ \A y \in Txs \ {tx} : tracked'[y] = tracked[y]
        /\ tx \in SweepTxs => tracked'[tx] = f
    BY Zenon, <2>2, <2>3, SweepsAreTxs
  <2>5. Posted(box')
    BY Zenon, <2>2, NothingPosted
  <2> QED
    BY Zenon, <2>1, <2>2, <2>4, <2>5, Reporting
<1> QED
  BY Zenon, <1>1, <1>2

\* attachExistingSubscriber: what is replayed is what the entry says.
LEMMA AttachReports ==
    ASSUME Story, Reported, sc' = sc, mined' = mined, NEW tx, NEW s, NEW slow,
           attachExisting(tx, s, slow)
    PROVE  Reported' /\ Out' \subseteq Out \cup {tx} /\ Posted(box')
<1> DEFINE e == tracked[tx]
           note == Note(e.st, tx, e)
           landed == Landed(e.st, tx, {s}, slow)
<1>1. tracked \in [Txs -> Entries]
  BY Zenon DEF Story, Ledger
<1>2. /\ pool' = pool /\ flights' = flights
      /\ \/ parked' = parked /\ box' = box
         \/ /\ parked' = parked \cup Parked(e.st, tx, e, {s}, slow)
            /\ box' = Boxes(landed, note)
      /\ \/ tracked' = tracked
         \/ \E S, T : tracked' = [tracked EXCEPT
                            ![tx] = [e EXCEPT !.subs = S, !.owed = T]]
         \/ tracked' = [tracked EXCEPT ![tx] = e]
  BY Zenon DEF attachExisting
<1>3. e.st \in Final /\ tx \in SweepTxs => tx \in Mined
  BY Zenon DEF Reported
<1>4. /\ Truthful(note, Mined)
      /\ \A k \in Parked(e.st, tx, e, {s}, slow) : Truthful(k.note, Mined)
  BY Zenon, <1>3, Tells
<1>5. Posted(box')
  BY Zenon, <1>2, <1>4, BoxesPosted, NothingPosted
<1>6. /\ \A y \in Txs \ {tx} : tracked'[y] = tracked[y]
      /\ tx \in Txs => tracked'[tx].st = e.st
  BY Zenon, <1>1, <1>2 DEF Entries
<1> HIDE DEF e, note, landed
<1>7. /\ tx \in SweepTxs /\ tracked'[tx].st \in Final => tx \in Mined
      /\ \A k \in parked' \ parked : Truthful(k.note, Mined)
      /\ \A f \in flights' \ flights : Truthful(f.note, Mined)
      /\ pool' \subseteq pool \cup {tx}
  BY Zenon, <1>2, <1>3, <1>4, <1>6, SweepsAreTxs
<1> QED
  BY Zenon, <1>5, <1>6, <1>7, Reporting

\* handleEnsure
LEMMA EnsureReports ==
    ASSUME Story, Reported, NEW tx, NEW s \in Subs, NEW res, NEW slow,
           handleEnsure(tx, s, res, slow)
    PROVE  Reported' /\ Out' \subseteq Out \cup {tx} /\ Posted(box')
<1>1. sc' = sc /\ mined' = mined
  BY Zenon DEF handleEnsure
<1>2. CASE ensureNew(tx, s, res, slow)
  <2> DEFINE e == [Untracked EXCEPT !.st = "broadcasting", !.subs = {s},
                                    !.owed = {s}]
  <2>1. e \in Entries
    BY Zenon DEF Untracked, Entries, States, Classes
  <2>2. recordOutcome(tx, e, res, slow) /\ Broadcast(tx, res)
    BY Zenon, <1>2 DEF ensureNew
  <2> HIDE DEF e
  <2>3. pool' \subseteq pool \cup {tx}
    BY Zenon, <2>2 DEF Broadcast
  <2> QED
    BY Zenon, <1>1, <2>1, <2>2, <2>3, OutcomeReports
<1>3. CASE attachExisting(tx, s, slow)
  BY Zenon, <1>1, <1>3, AttachReports
<1> QED
  BY Zenon, <1>2, <1>3 DEF handleEnsure

\* handleCancel
LEMMA CancelReports ==
    ASSUME Story, Reported, NEW tx, NEW s, handleCancel(tx, s),
           UNCHANGED <<sc, mined, pool, parked, flights, box>>
    PROVE  Reported' /\ Out' \subseteq Out
<1>1. tracked \in [Txs -> Entries]
  BY Zenon DEF Story, Ledger
<1>2. tracked' = [tracked EXCEPT ![tx] = Without(tracked[tx], {s})]
  BY Zenon DEF handleCancel, Cancelled
<1>3. /\ \A y \in Txs \ {tx} : tracked'[y] = tracked[y]
      /\ tx \in Txs => tracked'[tx] = Without(tracked[tx], {s})
      /\ tx \notin Txs => tracked' = tracked
  BY Zenon, <1>1, <1>2
<1>4. tracked'[tx].st \in {tracked[tx].st, "none"}
  <2>1. CASE tx \in Txs
    <3>1. Without(tracked[tx], {s}).st \in {tracked[tx].st, "none"}
      BY Zenon, <1>1, <2>1, EntryTypes
    <3> QED
      BY Zenon, <1>3, <2>1, <3>1
  <2> QED
    BY Zenon, <1>3, <2>1
<1>5. tx \in SweepTxs /\ tracked'[tx].st \in Final => tx \in Mined
  BY Zenon, <1>4 DEF Reported, Final
<1>6. Posted(box')
  BY Zenon, NothingPosted
<1> QED
  BY Zenon, <1>3, <1>4, <1>5, <1>6, Reporting

\* A tracked transaction is out already.
LEMMA OutStays ==
    ASSUME NEW tx, tracked[tx].st # "none", Out' \subseteq Out \cup {tx}
    PROVE  Out' \subseteq Out
BY Zenon DEF Out

\* handleConfirmationObserved, handleConfirmationDone and
\* handleConfirmationReorged
LEMMA ObservedReports ==
    ASSUME Story, Reported, NEW tx \in Txs, NEW slow,
           \/ handleConfirmationObserved(tx, slow)
           \/ handleConfirmationDone(tx, slow) \/ handleConfirmationReorged(tx)
    PROVE  Reported' /\ Out' \subseteq Out
<1> DEFINE e == tracked[tx]
<1>1. e \in Entries /\ tracked \in [Txs -> Entries] /\ mined \in [Txs -> Nat]
  BY Zenon DEF Story, Ledger
<1>2. sc' = sc /\ mined' = mined /\ pool' = pool /\ e.st # "none"
  BY Zenon DEF handleConfirmationObserved, handleConfirmationDone,
         handleConfirmationReorged, chainVars, Live
<1>3. CASE handleConfirmationObserved(tx, slow)
  <2> DEFINE f == [e EXCEPT !.st = "confirmed", !.height = mined[tx]]
  <2>1. f \in Entries
    BY Zenon, <1>1 DEF Entries, States
  <2>2. notifyConfirmed(tx, f, slow) /\ mined[tx] > 0
    BY Zenon, <1>3 DEF handleConfirmationObserved
  <2> HIDE DEF f
  <2>3. tx \in Mined
    BY Zenon, <2>2 DEF Mined
  <2>4. Out' \subseteq Out \cup {tx} /\ Reported'
    BY ZenonT(60), <1>2, <2>1, <2>2, <2>3, NotifyReports
  <2> QED
    BY Zenon, <1>2, <2>4, OutStays
<1>4. CASE handleConfirmationDone(tx, slow)
  <2> DEFINE f == [e EXCEPT !.st = "finalized"]
  <2>1. f \in Entries
    BY Zenon, <1>1 DEF Entries, States
  <2>2. notifyFinalized(tx, f, slow) /\ e.st = "confirmed"
    BY Zenon, <1>4 DEF handleConfirmationDone
  <2>3. tx \in SweepTxs => tx \in Mined
    BY Zenon, <2>2 DEF Reported, Final
  <2> HIDE DEF f
  <2>4. Out' \subseteq Out \cup {tx} /\ Reported'
    BY ZenonT(60), <1>2, <2>1, <2>2, <2>3, NotifyReports
  <2> QED
    BY <1>2, <2>4, OutStays
<1>5. CASE handleConfirmationReorged(tx)
  <2>1. /\ tracked' = [tracked EXCEPT ![tx].st = "awaiting"]
        /\ flights' = flights \cup Fly("reorged", tx, e, e.subs \ e.owed)
        /\ parked' = parked /\ box' = box
    BY Zenon, <1>5 DEF handleConfirmationReorged, notifyReorged
  <2>2. /\ \A y \in Txs \ {tx} : tracked'[y] = tracked[y]
        /\ tracked'[tx].st = "awaiting"
    BY Zenon, <1>1, <2>1 DEF Entries
  <2>3. "reorged" \notin Final /\ "awaiting" \notin Final
    BY Zenon DEF Final
  <2>4. \A f \in flights' \ flights : Truthful(f.note, Mined)
    BY Zenon, <2>1, <2>3, Tells
  <2>5. Posted(box')
    BY Zenon, <2>1, NothingPosted
  <2>6. Out' \subseteq Out \cup {tx} /\ Reported'
    BY Zenon, <1>2, <2>1, <2>2, <2>3, <2>4, <2>5, Reporting
  <2> QED
    BY <1>2, <2>6, OutStays
<1> QED
  BY Zenon, <1>3, <1>4, <1>5

\* handleBlockObserved, entry by entry
LEMMA VisitReports ==
    ASSUME Story, Reported, NEW tx \in Txs, NEW res, NEW slow,
           Visit(tx, res, slow)
    PROVE  Reported' /\ Out' \subseteq Out
<1> DEFINE e == tracked[tx]
<1>1. e \in Entries /\ tracked \in [Txs -> Entries]
  BY Zenon DEF Story, Ledger
<1>2. sc' = sc /\ mined' = mined /\ e.st # "none"
  BY Zenon DEF Visit
<1>3. CASE /\ e.st = "broadcasting" /\ Broadcast(tx, res)
           /\ recordOutcome(tx, e, res, slow)
  <2>1. pool' \subseteq pool \cup {tx}
    BY Zenon, <1>3 DEF Broadcast
  <2>2. Reported' /\ Out' \subseteq Out \cup {tx}
    BY Zenon, <1>1, <1>2, <1>3, <2>1, OutcomeReports
  <2> QED
    BY Zenon, <1>2, <2>2, OutStays
<1>4. CASE /\ e.st = "awaiting" /\ pool' \subseteq pool \cup {tx}
           /\ UNCHANGED <<tracked, parked, flights, box>>
  <2>1. e.st \notin Final
    BY Zenon, <1>4 DEF Final
  <2>2. Posted(box')
    BY Zenon, <1>4, NothingPosted
  <2>3. Reported' /\ Out' \subseteq Out \cup {tx}
    BY ZenonT(60), <1>2, <1>4, <2>1, <2>2, Reporting
  <2> QED
    BY <1>2, <2>3, OutStays
<1>5. CASE pool' = pool /\ e.st \in Final
           /\ (retryConfirmed(tx, e, slow) \/ notifyFinalized(tx, e, slow))
  <2>1. tx \in SweepTxs => tx \in Mined
    BY Zenon, <1>5 DEF Reported
  <2>2. Reported' /\ Out' \subseteq Out \cup {tx}
    BY ZenonT(60), <1>1, <1>2, <1>5, <2>1, NotifyReports
  <2> QED
    BY <1>2, <2>2, OutStays
<1>6. CASE pool' = pool /\ e.st = "failed" /\ notifyFailed(tx, e, slow)
  <2>1. Reported' /\ Out' \subseteq Out \cup {tx}
    BY Zenon, <1>1, <1>2, <1>6, NotifyReports
  <2> QED
    BY <1>2, <2>1, OutStays
<1> QED
  BY Zenon, <1>3, <1>4, <1>5, <1>6 DEF Visit, Final

\* A parked tell returns, and handleTerminalNotifyResult
LEMMA ParkedReports ==
    ASSUME Story, Reported, NEW k \in parked, ParkedReturns(k) \/ ParkedResult(k)
    PROVE  Reported' /\ Out' \subseteq Out
<1> DEFINE tx == k.note.tx
           e == tracked[tx]
<1>1. tracked \in [Txs -> Entries] /\ ParkedShape(k) /\ Truthful(k.note, Mined)
  BY Zenon DEF Story, Ledger, Reported
<1>2. sc' = sc /\ mined' = mined /\ pool' = pool
  BY Zenon DEF ParkedReturns, ParkedResult, chainVars
<1>3. tx \in SweepTxs /\ tracked[tx].st \in Final => tx \in Mined
  BY Zenon DEF Reported
<1>4. CASE ParkedReturns(k)
  <2>1. /\ tracked' = tracked /\ flights' = flights
        /\ box' = Boxes({k.sub} \ closed, k.note)
        /\ \A l \in parked' \ parked : l.note = k.note
    BY Zenon, <1>1, <1>4 DEF ParkedReturns, ParkedShape
  <2>2. Posted(box')
    BY Zenon, <1>1, <2>1, BoxesPosted
  <2> HIDE DEF tx
  <2>3. \A l \in parked' \ parked : Truthful(l.note, Mined)
    BY Zenon, <1>1, <2>1
  <2> QED
    BY Zenon, <1>2, <1>3, <2>1, <2>2, <2>3, Reporting
<1>5. CASE ParkedResult(k)
  <2> DEFINE clear == [e EXCEPT !.owed = @ \ {k.sub}]
             after == CASE k.told = "stopped" -> Cancelled(e, k.sub)
                        [] k.told = "yes" /\ k.note.kind = "confirmed" -> clear
                        [] OTHER -> [clear EXCEPT !.subs = @ \ {k.sub}]
             next == IF isTerminal(after.st) THEN Kept(after) ELSE after
  <2>1. /\ tracked' = [tracked EXCEPT ![tx] = next]
        /\ parked' \subseteq parked /\ box' = box
        /\ flights' \subseteq flights \cup Fly("reorged", tx, e, {k.sub})
    BY Zenon, <1>5 DEF ParkedResult
  <2>2. "reorged" \notin Final
    BY Zenon DEF Final
  <2>3. /\ \A f \in flights' \ flights : Truthful(f.note, Mined)
        /\ \A l \in parked' \ parked : Truthful(l.note, Mined)
    BY ZenonT(60), <2>1, <2>2, Tells
  <2>4. Posted(box')
    BY Zenon, <2>1, NothingPosted
  <2>5. ASSUME tx \in Txs PROVE next.st \in {e.st, "none"}
    <3>1. e \in Entries
      BY Zenon, <1>1, <2>5
    <3>2. clear \in Entries /\ clear.st = e.st
      BY Zenon, <3>1 DEF Entries
    <3>3. /\ [clear EXCEPT !.subs = @ \ {k.sub}] \in Entries
          /\ [clear EXCEPT !.subs = @ \ {k.sub}].st = e.st
      BY Zenon, <3>2 DEF Entries
    <3>4. Cancelled(e, k.sub) \in Entries /\ Cancelled(e, k.sub).st \in {e.st, "none"}
      BY ZenonT(60), <3>1, EntryTypes DEF Cancelled
    <3>5. \/ after = Cancelled(e, k.sub) \/ after = clear
          \/ after = [clear EXCEPT !.subs = @ \ {k.sub}]
      BY Zenon
    <3> HIDE DEF after, clear
    <3>6. after \in Entries /\ after.st \in {e.st, "none"}
      BY Zenon, <3>2, <3>3, <3>4, <3>5
    <3>7. Kept(after).st \in {after.st, "none"}
      BY Zenon, <3>6, EntryTypes
    <3> QED
      BY Zenon, <3>6, <3>7
  <2> HIDE DEF next
  <2>6. /\ \A y \in Txs \ {tx} : tracked'[y] = tracked[y]
        /\ tx \in Txs => tracked'[tx] = next
        /\ tx \notin Txs => tracked' = tracked
    BY Zenon, <1>1, <2>1
  <2>7. tracked'[tx].st \in {tracked[tx].st, "none"}
    BY Zenon, <2>5, <2>6
  <2>8. tx \in SweepTxs /\ tracked'[tx].st \in Final => tx \in Mined
    BY Zenon, <1>3, <2>7 DEF Final
  <2> HIDE DEF tx
  <2> QED
    BY Zenon, <1>2, <2>3, <2>4, <2>6, <2>7, <2>8, Reporting
<1> QED
  BY Zenon, <1>4, <1>5

\* A goroutine looks at the seal, and tells.
LEMMA FlightReports ==
    ASSUME Story, Reported, NEW f \in flights,
           FlightChecks(f) \/ FlightLands(f) \/ FlightLost(f)
    PROVE  Reported' /\ Out' \subseteq Out
<1>1. FlightShape(f) /\ Truthful(f.note, Mined)
  BY Zenon DEF Story, Ledger, Reported
<1>2. /\ sc' = sc /\ mined' = mined /\ pool' = pool
      /\ tracked' = tracked /\ parked' = parked
  BY Zenon DEF FlightChecks, FlightLands, FlightLost, chainVars
<1>3. \A g \in flights' \ flights : g.note = f.note
  BY ZenonT(60), <1>1 DEF FlightChecks, FlightLands, FlightLost, FlightShape
<1>4. Posted(box')
  <2>1. CASE FlightChecks(f) \/ FlightLost(f)
    BY Zenon, <2>1, NothingPosted DEF FlightChecks, FlightLost
  <2>2. CASE FlightLands(f)
    <3>1. box' = [s \in Subs |-> IF s = f.sub /\ s \notin closed
                                 THEN Delivered(box[s], s, f.note, FALSE)
                                 ELSE box[s]]
      BY Zenon, <2>2 DEF FlightLands
    <3>2. ASSUME NEW s \in Keepers
          PROVE  /\ Boxed(box'[s], sc, Mined)
                 /\ Len(box[s].rows) <= Len(box'[s].rows)
      <4>1. Boxed(box[s], sc, Mined) /\ s \in Subs
        BY Zenon DEF Reported, Keepers
      <4>2. Len(box[s].rows) <= Len(box[s].rows)
        BY <4>1, SeqAppend DEF Boxed
      <4>3. \/ box'[s] = Delivered(box[s], s, f.note, FALSE)
            \/ box'[s] = box[s]
        BY Zenon, <3>1, <4>1
      <4> QED
        BY Zenon, <1>1, <4>1, <4>2, <4>3, DeliveredBoxed
    <3> QED
      BY Zenon, <3>1, <3>2 DEF Posted
  <2> QED
    BY Zenon, <2>1, <2>2
<1>5. \A tx \in SweepTxs : tracked'[tx].st \in Final => tx \in Mined
  BY Zenon, <1>2 DEF Reported
<1>6. \A g \in flights' \ flights : Truthful(g.note, Mined)
  BY Zenon, <1>1, <1>3
<1> QED
  BY Zenon, <1>2, <1>4, <1>5, <1>6, Reporting

\* Every turn of the broadcaster keeps its reports true, and starts nothing.
LEMMA ConfirmReports ==
    ASSUME Story, Reported, ConfirmStep
    PROVE  Reported' /\ Out' \subseteq Out
<1>1. CASE BlockObserved
  <2>1. UNCHANGED <<sc, mined, pool, tracked, parked, flights, box>>
    BY Zenon, <1>1 DEF BlockObserved, chainVars
  <2> QED
    BY Zenon, <2>1 DEF Reported, Out, Mined
<1> QED
  BY Zenon, <1>1, ObservedReports, VisitReports, ParkedReports, FlightReports
  DEF ConfirmStep

-----------------------------------------------------------------------------
\* What is credible stays so while the chain grows.
LEMMA BoxedGrows ==
    ASSUME NEW b, NEW S, NEW M, NEW N, M \subseteq N, Boxed(b, S, M)
    PROVE  Boxed(b, S, N)
<1>1. \A m : Credible(m, S, M) => Credible(m, S, N)
  BY Zenon DEF Credible, Truthful
<1> QED
  BY Zenon, <1>1 DEF Boxed

\* A step of others: a block, a crash of the process, or one that only changes
\* the mailboxes.
Mailed(b) == /\ b = [s \in Subs |-> b[s]]
             /\ \A s \in Keepers : Boxed(b[s], sc, Mined)
LEMMA ReportsStay ==
    ASSUME Reported, sc' = sc, Mined \subseteq Mined', Mailed(box'),
           \/ UNCHANGED <<tracked, parked, flights>>
           \/ /\ tracked' = [tx \in Txs |-> Untracked]
              /\ parked' = {} /\ flights' = {}
    PROVE  Reported' /\ (pool' \subseteq pool => Out' \subseteq Out)
<1>1. \A n : Truthful(n, Mined) => Truthful(n, Mined')
  BY Zenon DEF Truthful
<1>2. /\ \A k \in parked' : Truthful(k.note, Mined')
      /\ \A f \in flights' : Truthful(f.note, Mined')
  BY Zenon, <1>1 DEF Reported
<1>3. ASSUME NEW tx \in SweepTxs
      PROVE  /\ tracked'[tx].st \in Final => tx \in Mined'
             /\ tracked'[tx].st \in {tracked[tx].st, "none"}
  <2>1. CASE tracked' = tracked
    BY Zenon, <2>1 DEF Reported
  <2>2. CASE tracked' = [y \in Txs |-> Untracked]
    BY Zenon, <2>2, SweepsAreTxs DEF Untracked, Final
  <2> QED
    BY Zenon, <2>1, <2>2
<1>4. box' = [s \in Subs |-> box'[s]]
  BY Zenon DEF Mailed
<1>5. \A s \in Keepers : Boxed(box'[s], sc, Mined')
  BY Zenon, BoxedGrows DEF Mailed
<1>6. Reported'
  BY Zenon, <1>2, <1>3, <1>4, <1>5 DEF Reported
<1>7. pool' \subseteq pool => Out' \subseteq Out
  BY Zenon, <1>3 DEF Out
<1> QED
  BY Zenon, <1>6, <1>7

\* A message for s.
LEMMA Mailing ==
    ASSUME Reported, NEW s \in Keepers, NEW id, NEW m, Credible(m, sc, Mined),
           box' = [box EXCEPT ![s] = Post(@, id, m)] \/ box' = box
    PROVE  Mailed(box') /\ Len(box'[s].rows) \in Nat
<1>1. s \in Subs /\ box = [t \in Subs |-> box[t]] /\ Boxed(box[s], sc, Mined)
  BY Zenon DEF Reported, Keepers
<1>2. Boxed(Post(box[s], id, m), sc, Mined)
  BY Zenon, <1>1, PostBoxed
<1>3. box' = [t \in Subs |-> box'[t]] /\ \A t \in Subs \ {s} : box'[t] = box[t]
  BY Zenon, <1>1
<1>4. box'[s] = Post(box[s], id, m) \/ box'[s] = box[s]
  BY Zenon, <1>1
<1>5. Boxed(box'[s], sc, Mined)
  BY Zenon, <1>1, <1>2, <1>4
<1>6. Len(box'[s].rows) \in Nat
  BY Zenon, <1>5, SeqAppend DEF Boxed
<1> QED
  BY Zenon, <1>3, <1>5, <1>6 DEF Mailed, Reported, Keepers

\* The rows of s are consumed, or put back for later.
LEMMA Remailing ==
    ASSUME Reported, NEW s \in Keepers, NEW q, IsSeq(q),
           \A i \in 1 .. Len(q) : \E j \in 1 .. Len(box[s].rows) :
                /\ "msg" \in DOMAIN q[i]
                /\ q[i].msg = box[s].rows[j].msg,
           box' = [box EXCEPT ![s].rows = q]
    PROVE  Mailed(box') /\ Len(box'[s].rows) \in Nat
<1>1. /\ s \in Subs /\ box = [t \in Subs |-> box[t]] /\ Boxed(box[s], sc, Mined)
      /\ box[s] = [rows |-> box[s].rows, ids |-> box[s].ids]
  BY Zenon DEF Reported, Keepers, Boxed
<1>2. /\ box' = [t \in Subs |-> box'[t]]
      /\ \A t \in Subs \ {s} : box'[t] = box[t]
      /\ box'[s] = [box[s] EXCEPT !.rows = q]
  BY Zenon, <1>1
<1>3. box'[s] = [rows |-> q, ids |-> box[s].ids]
  BY Zenon, <1>1, <1>2
<1>4. box'[s].rows = q /\ box'[s] = [rows |-> box'[s].rows, ids |-> box'[s].ids]
  BY <1>3
<1>5. \A i \in 1 .. Len(q) :
            "msg" \in DOMAIN q[i] /\ Credible(q[i].msg, sc, Mined)
  BY Zenon, <1>1 DEF Boxed
<1>6. Boxed(box'[s], sc, Mined)
  BY Zenon, <1>4, <1>5 DEF Boxed
<1>7. Len(q) \in Nat
  BY Zenon, SeqAppend
<1> QED
  BY Zenon, <1>2, <1>4, <1>6, <1>7 DEF Mailed, Reported, Keepers

-----------------------------------------------------------------------------
\* The job: only its ensure requests reach the broadcaster, and the answer to
\* one may be TxFinalized.
LEMMA JobStory ==
    ASSUME Story, JobStep \/ JobFaults \/ JobEvents
    PROVE  Story' /\ ~Premature({"reorged"})
<1>1. height \in Nat /\ mined \in [Txs -> Nat] /\ Child \in Subs
  BY Zenon, ExitAssumption DEF Story, Ledger
<1>2. CASE UNCHANGED <<height, mined, tracked, parked, flights, heard>>
  <2>1. Story' /\ ~Premature({"reorged", "finalized"})
    BY Zenon, <1>1, <1>2, Elsewhere
  <2> QED
    BY Zenon, <2>1 DEF Premature
<1>3. CASE \E tx, res, slow : handleEnsure(tx, Child, res, slow)
  BY Zenon, <1>1, <1>3, EnsureStory
<1>4. CASE \E tx : /\ handleCancel(tx, Child)
                   /\ UNCHANGED <<height, mined, parked, flights, heard>>
  <2>1. Story'
    BY Zenon, <1>4, CancelStory
  <2> QED
    BY Zenon, <1>4, <2>1 DEF Premature
<1>5. CASE JobEvents
  <2>1. ChainUnchanged
    BY Zenon, <1>5
    DEF JobEvents, HeightObserved, SpendObserved, CheckpointObserved
  <2> QED
    BY Zenon, <1>2, <2>1 DEF ChainUnchanged, chainVars
<1>6. CASE JobFaults
  BY Zenon, <1>2, <1>6
  DEF JobFaults, LeaseLost, LoadFails, StageFails, RouteFails,
                    SweepStageFails, LedgerFails
<1>7. CASE JobStep
  <2>1. CASE ChainUnchanged
    BY Zenon, <1>2, <2>1 DEF ChainUnchanged, chainVars
  <2>2. CASE SweepDeferred \/ SweepBuildFailed
    BY Zenon, <1>2, <2>2 DEF SweepDeferred, SweepBuildFailed
  <2>3. CASE stopRejectedSweep \/ \E tx \in clean : cleanupAbandonedBroadcast(tx)
    BY Zenon, <1>4, <2>3
    DEF stopRejectedSweep, cleanupAbandonedBroadcast, chainVars
  <2>4. CASE \E slow, res : \/ ensureNodeConfirmed(res, slow)
                            \/ ReissueSweepConfirmation(res, slow)
                            \/ SubmitSweep(res, slow)
    BY Zenon, <1>3, <2>4
    DEF ensureNodeConfirmed, ReissueSweepConfirmation, SubmitSweep
  <2> QED
    BY Zenon, <1>7, <2>1, <2>2, <2>3, <2>4
    DEF JobStep, Take, Dispatch, Commit, driveEvent, Refused, AlreadyTerminal,
        watchDeferredCheckpoint, startSweep, notifyRegistryIfTerminal
<1> QED
  BY Zenon, <1>5, <1>6, <1>7

-----------------------------------------------------------------------------
(***************************************************************************)
(* What an exit claims is so, in a behaviour without reorgs: Exit.  The    *)
(* job's own sweeps are recognised because every sweep that is out is a    *)
(* candidate of the actor in memory and of its checkpoint (Owned): a       *)
(* transaction the job fails over is then foreign and mined.  What the     *)
(* machine, the registry, the record and the coin say follows event by     *)
(* event.                                                                  *)
(***************************************************************************)
NoReorg == "reorg" \notin DOMAIN sc.faults

\* What the mined transactions M of a scenario S say.
SweptIn(M) == M \cap SweepTxs # {}
ForeignIn(S, M) == \E f \in DOMAIN S.foreign : f \in M
TakenIn(S, M) == \E f \in DOMAIN S.foreign :
                    f \in M /\ S.foreign[f] \cap RootExternalInputs(S.proof) # {}

\* The state of the machine, and its events.
JobFields == {"started", "height", "fraud", "confirmed", "inflight", "deferred",
              "targetHeight", "sweep", "sweepTxid", "sweepHeight", "attempts",
              "rejected", "repriceAfter", "retrySame", "fail", "conflicted"}
JobOk(job, S, M) ==
    /\ JobFields \subseteq DOMAIN job
    /\ job.sweepTxid \in SweepTxs \cup {NoTx}
    /\ job.sweep = "confirmed" => SweptIn(M)
    /\ job.fail = "spent" => ForeignIn(S, M)
    /\ job.conflicted => TakenIn(S, M)
Kinds == {"resume", "height", "start", "confirmed", "failed",
          "sweep_broadcasted", "sweep_build_failed", "fail"}
EventOk(e, S, M) ==
    /\ e.kind \in Kinds
    /\ e.kind = "confirmed" /\ e.tx \in SweepTxs => e.tx \in M
    /\ e.kind = "sweep_broadcasted" => e.tx \in SweepTxs
    /\ e.kind = "fail" => ForeignIn(S, M) /\ (e.conflict => TakenIn(S, M))

\* The rest of a handler.  Own are the candidates memory and checkpoint agree
\* on; again says that the sweep at hand is one of them.
ItemOk(it, S, M, own, again) ==
    /\ it.do \in {"drive", "handle"} => EventOk(it.e, S, M)
    /\ it.do = "submit" => /\ it.tx \in SweepTxs
                           /\ SweptIn(M) \/ it.tx \in own
    /\ it.do = "resweep" => SweptIn(M) \/ again
TodoOk(q, S, M, own, again) ==
    IsSeq(q) /\ \A i \in 1 .. Len(q) : ItemOk(q[i], S, M, own, again)

Own == Candidates(child) \cap Candidates(ck)
Again == child.sweep \in Own \cup {NoTx}

ActorFields == {"job", "sweep", "old", "row", "todo"}
Actor ==
    /\ ActorFields \subseteq DOMAIN child
    /\ child.old \cup {child.sweep} \subseteq SweepTxs \cup {NoTx}
    /\ ck.old \cup {ck.sweep} \subseteq SweepTxs \cup {NoTx}
    /\ JobOk(child.job, sc, Mined) /\ JobOk(ck.job, sc, Mined)
    /\ child.row \in Nat /\ child.row <= Len(box[Child].rows)
    /\ TodoOk(child.todo, sc, Mined, Own, Again)

\* Every sweep that is out is the job's own, and no two are mined.
Owned ==
    /\ \A a, b \in Mined \cap SweepTxs : a = b
    /\ Mined \cap SweepTxs \subseteq Own
    /\ ~SweptIn(Mined) => Out \cup (sent \cap SweepTxs) \subseteq Own

\* A record of the job, and what the job tells the registry at its end.
RecordOk(r, S, M) == /\ r.phase = "completed" => SweptIn(M)
                     /\ r.confl => TakenIn(S, M)
EndOk(m, S, M) == /\ m.phase = "completed" => SweptIn(M)
                  /\ m.conflicted => TakenIn(S, M)

Exit == /\ Story /\ Reported /\ sc \in Scenarios /\ NoReorg
        /\ Actor /\ Owned

-----------------------------------------------------------------------------
\* Sequences.
LEMMA SeqCat ==
    ASSUME NEW q, NEW r, IsSeq(q), IsSeq(r)
    PROVE  /\ IsSeq(q \o r) /\ Len(q) \in Nat /\ Len(r) \in Nat
           /\ Len(q \o r) = Len(q) + Len(r)
           /\ \A i \in 1 .. Len(q \o r) :
                \/ i \in 1 .. Len(q) /\ (q \o r)[i] = q[i]
                \/ i - Len(q) \in 1 .. Len(r) /\ (q \o r)[i] = r[i - Len(q)]
<1>1. PICK X : q \in Seq(X)
  BY Zenon DEF IsSeq
<1>2. PICK Y : r \in Seq(Y)
  BY Zenon DEF IsSeq
<1>3. q \in Seq(X \cup Y) /\ r \in Seq(X \cup Y)
  BY <1>1, <1>2
<1>4. q \o r \in Seq(X \cup Y)
  BY <1>3
<1> QED
  BY <1>3, <1>4 DEF IsSeq

LEMMA SeqOne ==
    ASSUME NEW x
    PROVE  IsSeq(<<x>>) /\ Len(<<x>>) = 1 /\ <<x>>[1] = x /\ IsSeq(<<>>)
<1>1. <<x>> \in Seq({x}) /\ <<>> \in Seq({x})
  OBVIOUS
<1> QED
  BY Zenon, <1>1 DEF IsSeq

LEMMA SeqTail ==
    ASSUME NEW q, IsSeq(q), q # <<>>
    PROVE  /\ Len(q) \in Nat \ {0} /\ Head(q) = q[1] /\ IsSeq(Tail(q))
           /\ Len(Tail(q)) = Len(q) - 1
           /\ \A i \in 1 .. Len(Tail(q)) : Tail(q)[i] = q[i + 1]
<1>1. PICK X : q \in Seq(X)
  BY Zenon DEF IsSeq
<1>2. Tail(q) \in Seq(X)
  BY <1>1
<1> QED
  BY <1>1, <1>2 DEF IsSeq

LEMMA SeqFun ==
    ASSUME NEW n \in Nat, NEW f, DOMAIN f = 1 .. n, f = [i \in 1 .. n |-> f[i]]
    PROVE  IsSeq(f) /\ Len(f) = n
<1>1. f \in Seq({f[i] : i \in 1 .. n})
  OBVIOUS
<1>2. Len(f) \in Nat /\ DOMAIN f = 1 .. Len(f)
  BY <1>1
<1>3. Len(f) = n
  BY <1>2
<1> QED
  BY Zenon, <1>1, <1>3 DEF IsSeq

-----------------------------------------------------------------------------
\* The effects of the machine.
EffectOk(f, S) == f.kind \in {"ensure", "resweep", "watch", "sweep"}
OutboxOk(q, S) == IsSeq(q) /\ \A i \in 1 .. Len(q) : EffectOk(q[i], S)

LEMMA OutboxCat ==
    ASSUME NEW S, NEW q, NEW r, OutboxOk(q, S), OutboxOk(r, S)
    PROVE  OutboxOk(q \o r, S)
<1>1. IsSeq(q) /\ IsSeq(r)
  BY Zenon DEF OutboxOk
<1>2. IsSeq(q \o r)
  BY Zenon, <1>1, SeqCat
<1>3. ASSUME NEW i \in 1 .. Len(q \o r) PROVE EffectOk((q \o r)[i], S)
  <2>1. \/ i \in 1 .. Len(q) /\ (q \o r)[i] = q[i]
        \/ i - Len(q) \in 1 .. Len(r) /\ (q \o r)[i] = r[i - Len(q)]
    BY Zenon, <1>1, SeqCat
  <2> QED
    BY Zenon, <2>1 DEF OutboxOk
<1> QED
  BY Zenon, <1>2, <1>3 DEF OutboxOk

LEMMA OutboxOne ==
    ASSUME NEW S, NEW kind \in {"resweep", "sweep"}
    PROVE  OutboxOk(<<Effect(kind, NoTx)>>, S) /\ OutboxOk(<<>>, S)
<1>1. IsSeq(<<Effect(kind, NoTx)>>) /\ IsSeq(<<>>)
  BY Zenon, SeqOne
<1>2. EffectOk(Effect(kind, NoTx), S)
  BY Zenon DEF EffectOk, Effect
<1> QED
  BY <1>1, <1>2 DEF OutboxOk

LEMMA EffectsOk ==
    ASSUME NEW S \in Scenarios, NEW kind \in {"ensure", "watch"},
           NEW txs, txs \subseteq S.proof.nodes
    PROVE  OutboxOk(Effects(kind, txs), S)
<1> DEFINE n == Cardinality(txs)
<1>2. n \in Nat
  BY Zenon, ExitAssumption
<1>5. /\ DOMAIN Effects(kind, txs) = 1 .. n
      /\ \A i \in 1 .. n : Effects(kind, txs)[i] = Effect(kind, InSomeOrder(txs)[i])
      /\ Effects(kind, txs) = [i \in 1 .. n |-> Effects(kind, txs)[i]]
  BY Zenon, <1>2 DEF Effects
<1>6. IsSeq(Effects(kind, txs)) /\ Len(Effects(kind, txs)) = n
  BY Zenon, <1>2, <1>5, SeqFun
<1>7. ASSUME NEW i \in 1 .. n PROVE EffectOk(Effects(kind, txs)[i], S)
  BY <1>5 DEF EffectOk, Effect
<1> QED
  BY Zenon, <1>6, <1>7 DEF OutboxOk

\* reissueStagedRoute
LEMMA ReissueOk ==
    ASSUME NEW S \in Scenarios, NEW job, Validate(S.proof, job),
           validateDeferred(S.proof, job)
    PROVE  OutboxOk(Reissue(job), S)
<1>1. job.inflight \subseteq S.proof.nodes
  BY Zenon DEF Validate
<1>2. DeferredTxs(job) \subseteq S.proof.nodes
  BY Zenon, ExitAssumption DEF validateDeferred, DeferredTxs
<1> DEFINE first == Effects("ensure", job.inflight)
           last == Effects("watch", DeferredTxs(job))
           mid == IF job.sweep = "broadcasted" THEN <<Effect("resweep", NoTx)>>
                                               ELSE <<>>
<1>3. OutboxOk(first, S) /\ OutboxOk(last, S)
  BY Zenon, <1>1, <1>2, EffectsOk
<1>4. OutboxOk(mid, S)
  BY Zenon, OutboxOne
<1>5. Reissue(job) = (first \o mid) \o last
  BY Zenon DEF Reissue
<1> HIDE DEF first, mid, last
<1>6. OutboxOk(first \o mid, S)
  BY Zenon, <1>3, <1>4, OutboxCat
<1> QED
  BY Zenon, <1>3, <1>5, <1>6, OutboxCat

\* deriveStateTransition: the outcome of the machine is that of the job it
\* derives from.
LEMMA DeriveOk ==
    ASSUME NEW S \in Scenarios, NEW M, NEW job, JobOk(job, S, M),
           Validate(S.proof, job), validateDeferred(S.proof, job),
           NEW reissue, NEW anchor, NEW r,
           r = Derive(S.proof, job, reissue, anchor)
    PROVE  JobOk(r.job, S, M) /\ OutboxOk(r.outbox, S)
<1> DEFINE again == IF reissue THEN Reissue(job) ELSE <<>>
           submit == SubmitNow(S.proof, job, anchor)
           new == NewDeferrals(S.proof, job, anchor)
           later == {d.tx : d \in new}
           sweep == IF job.rejected = NoTx \/ job.height > job.repriceAfter
                    THEN <<Effect("sweep", NoTx)>> ELSE <<>>
           next == [job EXCEPT !.inflight = @ \cup submit,
                               !.deferred = {d \in @ : d.tx \notin submit}
                                                \cup new]
<1>1. OutboxOk(again, S)
  BY Zenon, ReissueOk, OutboxOne
<1>2. OutboxOk(sweep, S) /\ OutboxOk(<<>>, S)
  BY Zenon, OutboxOne
<1>3. submit \subseteq S.proof.nodes
  BY Zenon DEF SubmitNow, Ready
<1>4. later \subseteq S.proof.nodes
  <2>1. ASSUME NEW d \in new PROVE d.tx \in S.proof.nodes
    <3>1. \E n \in HeldBack(S.proof, job) : \E h : d = [tx |-> n, deadline |-> h]
      BY Zenon DEF NewDeferrals
    <3> QED
      BY <3>1 DEF HeldBack, Ready
  <2> QED
    BY Zenon, <2>1
<1>5. JobOk(next, S, M)
  BY Zenon DEF JobOk, JobFields
<1>6. \/ r = [job |-> job, outbox |-> <<>>]
      \/ r = [job |-> job, outbox |-> again \o sweep]
      \/ r = [job |-> next, outbox |-> again \o Effects("watch", later)
                                             \o Effects("ensure", submit)]
      \/ r = [job |-> job, outbox |-> again]
  BY Zenon DEF Derive
<1> HIDE DEF again, submit, new, later, sweep, next
<1>7. /\ OutboxOk(Effects("watch", later), S)
      /\ OutboxOk(Effects("ensure", submit), S)
  BY Zenon, <1>3, <1>4, EffectsOk
<1>8. /\ OutboxOk(again \o sweep, S)
      /\ OutboxOk(again \o Effects("watch", later), S)
  BY Zenon, <1>1, <1>2, <1>7, OutboxCat
<1>9. OutboxOk(again \o Effects("watch", later) \o Effects("ensure", submit), S)
  BY Zenon, <1>7, <1>8, OutboxCat
<1> DEFINE full == again \o Effects("watch", later) \o Effects("ensure", submit)
           late == again \o sweep
<1>10. \/ r = [job |-> job, outbox |-> <<>>]
       \/ r = [job |-> job, outbox |-> late]
       \/ r = [job |-> next, outbox |-> full]
       \/ r = [job |-> job, outbox |-> again]
  BY Zenon, <1>6
<1>11. OutboxOk(full, S) /\ OutboxOk(late, S)
  BY Zenon, <1>8, <1>9
<1> HIDE DEF full, late
<1> QED
  BY <1>1, <1>2, <1>5, <1>10, <1>11

\* The event switch: a job says that it is swept, spent or forestalled only
\* when the event that says so is true.
LEMMA ApplyOk ==
    ASSUME NEW S \in Scenarios, NEW M, NEW job, JobOk(job, S, M),
           NEW e, EventOk(e, S, M), NEW next, next = Apply(S.proof, job, e),
           Validate(S.proof, next)
    PROVE  JobOk(next, S, M)
<1>0. JobFields \subseteq DOMAIN job
  BY Zenon DEF JobOk
<1>1. CASE e.kind \in {"resume", "height"}
  <2>1. next = [job EXCEPT !.started = TRUE, !.height = Higher(@, e.height)]
    BY Zenon, <1>1 DEF Apply
  <2> QED
    BY Zenon, <1>0, <2>1 DEF JobOk, JobFields
<1>2. CASE e.kind = "start"
  <2>1. next = [job EXCEPT !.started = TRUE, !.height = Higher(@, e.height),
                           !.fraud = e.fraud]
    BY Zenon, <1>2 DEF Apply
  <2> QED
    BY Zenon, <1>0, <2>1 DEF JobOk, JobFields
<1>3. CASE e.kind = "confirmed"
  <2>1. next = applyConfirmed(S.proof, job, e.tx, e.height)
    BY Zenon, <1>3 DEF Apply
  <2>2. CASE job.sweepTxid = e.tx
    <3>1. next = [job EXCEPT !.sweep = "confirmed", !.sweepHeight = e.height,
                             !.height = Higher(@, e.height)]
      BY Zenon, <2>1, <2>2 DEF applyConfirmed
    <3>2. /\ next.sweep = "confirmed" /\ next.sweepTxid = job.sweepTxid
          /\ next.fail = job.fail /\ next.conflicted = job.conflicted
          /\ JobFields \subseteq DOMAIN next
      BY Zenon, <1>0, <3>1 DEF JobFields
    <3>3. next.sweepTxid # NoTx
      BY Zenon, <3>2 DEF Validate, validateSweepState
    <3>4. SweptIn(M)
      BY Zenon, <1>3, <2>2, <3>2, <3>3 DEF EventOk, JobOk, SweptIn
    <3> QED
      BY Zenon, <3>2, <3>4 DEF JobOk
  <2>3. CASE job.sweepTxid # e.tx
    <3>1. next = [job EXCEPT !.confirmed = @ \cup {e.tx},
                     !.inflight = @ \ {e.tx},
                     !.deferred = {d \in @ : d.tx # e.tx},
                     !.targetHeight = IF e.tx = S.proof.target /\ @ = None
                                      THEN e.height ELSE @,
                     !.height = Higher(@, e.height)]
      BY Zenon, <2>1, <2>3 DEF applyConfirmed
    <3> QED
      BY Zenon, <1>0, <3>1 DEF JobOk, JobFields
  <2> QED
    BY Zenon, <2>2, <2>3
<1>4. ASSUME NEW built, built = applySweepBuildFailed(job, "sweep")
      PROVE  JobOk(built, S, M)
  <2>1. \/ built = [job EXCEPT !.attempts = @ + 1, !.fail = "sweep"]
        \/ built = [job EXCEPT !.attempts = @ + 1, !.sweep = "pending",
                               !.sweepTxid = NoTx]
    BY Zenon, <1>4 DEF applySweepBuildFailed
  <2> QED
    BY ZenonT(60), <1>0, <2>1 DEF JobOk, JobFields
<1>5. CASE e.kind = "failed"
  <2>1. next = applyFailed(job, e.tx, e.class, e.retrySame)
    BY Zenon, <1>5 DEF Apply
  <2>2. \/ next = job
        \/ next = applySweepBuildFailed(job, "sweep")
        \/ next = [job EXCEPT
                    !.rejected = IF @ = NoTx THEN e.tx ELSE @,
                    !.repriceAfter = IF job.rejected = NoTx
                                     THEN job.height ELSE @,
                    !.retrySame = IF job.rejected = NoTx
                                  THEN e.class # "fee" ELSE @,
                    !.sweep = "pending", !.sweepTxid = NoTx]
        \/ next = [job EXCEPT !.inflight = @ \ {e.tx},
                              !.deferred = {d \in @ : d.tx # e.tx},
                              !.fail = "proof"]
    BY Zenon, <2>1 DEF applyFailed
  <2>3. CASE next = [job EXCEPT
                    !.rejected = IF @ = NoTx THEN e.tx ELSE @,
                    !.repriceAfter = IF job.rejected = NoTx
                                     THEN job.height ELSE @,
                    !.retrySame = IF job.rejected = NoTx
                                  THEN e.class # "fee" ELSE @,
                    !.sweep = "pending", !.sweepTxid = NoTx]
    BY Zenon, <1>0, <2>3 DEF JobOk, JobFields
  <2>4. CASE next = [job EXCEPT !.inflight = @ \ {e.tx},
                                !.deferred = {d \in @ : d.tx # e.tx},
                                !.fail = "proof"]
    BY Zenon, <1>0, <2>4 DEF JobOk, JobFields
  <2> QED
    BY Zenon, <1>4, <2>2, <2>3, <2>4
<1>6. CASE e.kind = "sweep_broadcasted"
  <2>1. next = [job EXCEPT !.rejected = NoTx, !.repriceAfter = 0,
                           !.retrySame = FALSE, !.sweep = "broadcasted",
                           !.sweepTxid = e.tx]
    BY Zenon, <1>6 DEF Apply
  <2>2. e.tx \in SweepTxs
    BY Zenon, <1>6 DEF EventOk
  <2> QED
    BY Zenon, <1>0, <2>1, <2>2 DEF JobOk, JobFields
<1>7. CASE e.kind = "sweep_build_failed"
  <2>1. next = applySweepBuildFailed(job, "sweep")
    BY Zenon, <1>7 DEF Apply
  <2> QED
    BY Zenon, <1>4, <2>1
<1>8. CASE e.kind = "fail"
  <2>1. next = [job EXCEPT !.fail = "spent", !.conflicted = e.conflict]
    BY Zenon, <1>8 DEF Apply
  <2>2. ForeignIn(S, M) /\ (e.conflict => TakenIn(S, M))
    BY Zenon, <1>8 DEF EventOk
  <2> QED
    BY Zenon, <1>0, <2>1, <2>2 DEF JobOk, JobFields
<1> QED
  BY ZenonT(60), <1>1, <1>2, <1>3, <1>5, <1>6, <1>7, <1>8 DEF EventOk, Kinds

-----------------------------------------------------------------------------
\* The rest of a handler.
LEMMA TodoCat ==
    ASSUME NEW S, NEW M, NEW own, NEW again, NEW q, NEW r,
           TodoOk(q, S, M, own, again), TodoOk(r, S, M, own, again)
    PROVE  TodoOk(q \o r, S, M, own, again)
<1>1. IsSeq(q) /\ IsSeq(r)
  BY Zenon DEF TodoOk
<1>2. IsSeq(q \o r)
  BY Zenon, <1>1, SeqCat
<1>3. ASSUME NEW i \in 1 .. Len(q \o r)
      PROVE  ItemOk((q \o r)[i], S, M, own, again)
  <2>1. \/ i \in 1 .. Len(q) /\ (q \o r)[i] = q[i]
        \/ i - Len(q) \in 1 .. Len(r) /\ (q \o r)[i] = r[i - Len(q)]
    BY Zenon, <1>1, SeqCat
  <2> QED
    BY Zenon, <2>1 DEF TodoOk
<1> QED
  BY Zenon, <1>2, <1>3 DEF TodoOk

LEMMA TodoOne ==
    ASSUME NEW S, NEW M, NEW own, NEW again, NEW it, ItemOk(it, S, M, own, again)
    PROVE  TodoOk(<<it>>, S, M, own, again) /\ TodoOk(<<>>, S, M, own, again)
<1>1. IsSeq(<<it>>) /\ Len(<<it>>) = 1 /\ <<it>>[1] = it /\ IsSeq(<<>>)
  BY Zenon, SeqOne
<1>2. Len(<<>>) = 0
  BY Zenon
<1> QED
  BY <1>1, <1>2 DEF TodoOk

LEMMA TodoTwo ==
    ASSUME NEW S, NEW M, NEW own, NEW again, NEW it, NEW jt,
           ItemOk(it, S, M, own, again), ItemOk(jt, S, M, own, again)
    PROVE  TodoOk(<<it, jt>>, S, M, own, again)
<1> DEFINE q == <<it, jt>>
<1>1. q \in Seq({it, jt}) /\ Len(q) = 2 /\ q[1] = it /\ q[2] = jt
  OBVIOUS
<1> HIDE DEF q
<1>2. \A i \in 1 .. Len(q) : ItemOk(q[i], S, M, own, again)
  BY <1>1
<1>3. TodoOk(q, S, M, own, again)
  BY Zenon, <1>1, <1>2 DEF TodoOk, IsSeq
<1> QED
  BY Zenon, <1>3 DEF q

LEMMA TodoRest ==
    ASSUME NEW S, NEW M, NEW own, NEW again, NEW q,
           TodoOk(q, S, M, own, again), q # <<>>
    PROVE  ItemOk(Head(q), S, M, own, again) /\ TodoOk(Tail(q), S, M, own, again)
<1>1. /\ Len(q) \in Nat \ {0} /\ Head(q) = q[1] /\ IsSeq(Tail(q))
      /\ Len(Tail(q)) = Len(q) - 1
      /\ \A i \in 1 .. Len(Tail(q)) : Tail(q)[i] = q[i + 1]
  BY Zenon, SeqTail DEF TodoOk
<1>2. 1 \in 1 .. Len(q) /\ \A i \in 1 .. Len(Tail(q)) : i + 1 \in 1 .. Len(q)
  BY <1>1
<1> QED
  BY Zenon, <1>1, <1>2 DEF TodoOk

LEMMA JobGrows ==
    ASSUME NEW S, NEW M, NEW N, M \subseteq N
    PROVE  /\ SweptIn(M) => SweptIn(N)
           /\ ForeignIn(S, M) => ForeignIn(S, N)
           /\ TakenIn(S, M) => TakenIn(S, N)
           /\ \A job : JobOk(job, S, M) => JobOk(job, S, N)
           /\ \A e : EventOk(e, S, M) => EventOk(e, S, N)
           /\ \A r : RecordOk(r, S, M) => RecordOk(r, S, N)
           /\ \A m : EndOk(m, S, M) => EndOk(m, S, N)
<1>1. /\ SweptIn(M) => SweptIn(N)
      /\ ForeignIn(S, M) => ForeignIn(S, N)
      /\ TakenIn(S, M) => TakenIn(S, N)
  BY Zenon DEF SweptIn, ForeignIn, TakenIn
<1>2. \A job : JobOk(job, S, M) => JobOk(job, S, N)
  BY Zenon, <1>1 DEF JobOk
<1>3. \A e : EventOk(e, S, M) => EventOk(e, S, N)
  BY Zenon, <1>1 DEF EventOk
<1>4. \A r : RecordOk(r, S, M) => RecordOk(r, S, N)
  BY Zenon, <1>1 DEF RecordOk
<1>5. \A m : EndOk(m, S, M) => EndOk(m, S, N)
  BY Zenon, <1>1 DEF EndOk
<1> QED
  BY ZenonT(60), <1>1, <1>2, <1>3, <1>4, <1>5

LEMMA TodoGrows ==
    ASSUME NEW S, NEW M, NEW N, NEW own, NEW more, NEW again, NEW still, NEW q,
           M \subseteq N, SweptIn(N) \/ (own \subseteq more /\ (again => still)),
           TodoOk(q, S, M, own, again)
    PROVE  TodoOk(q, S, N, more, still)
<1>1. /\ SweptIn(M) => SweptIn(N)
      /\ \A e : EventOk(e, S, M) => EventOk(e, S, N)
  BY Zenon, JobGrows
<1>2. \A it : ItemOk(it, S, M, own, again) => ItemOk(it, S, N, more, still)
  BY Zenon, <1>1 DEF ItemOk
<1> QED
  BY Zenon, <1>2 DEF TodoOk

\* routeOutbox: the effects become items.
LEMMA OutboxItems ==
    ASSUME NEW S, NEW M, NEW own, NEW q, OutboxOk(q, S)
    PROVE  TodoOk(Items(q), S, M, own, TRUE)
<1>1. PICK X : q \in Seq(X)
  BY Zenon DEF OutboxOk, IsSeq
<1>2. Len(q) \in Nat /\ DOMAIN q = 1 .. Len(q)
  BY <1>1
<1>3. /\ DOMAIN Items(q) = 1 .. Len(q)
      /\ Items(q) = [i \in 1 .. Len(q) |-> Items(q)[i]]
      /\ \A i \in 1 .. Len(q) :
            Items(q)[i] = Item(q[i].kind, q[i].tx, NoEvent)
  BY Zenon, <1>2 DEF Items
<1>4. IsSeq(Items(q)) /\ Len(Items(q)) = Len(q)
  BY ZenonT(60), <1>2, <1>3, SeqFun
<1>5. ASSUME NEW i \in 1 .. Len(q) PROVE ItemOk(Items(q)[i], S, M, own, TRUE)
  <2>1. EffectOk(q[i], S) /\ Items(q)[i] = Item(q[i].kind, q[i].tx, NoEvent)
    BY Zenon, <1>3 DEF OutboxOk
  <2>2. /\ Items(q)[i].do = q[i].kind /\ Items(q)[i].tx = q[i].tx
    BY <2>1 DEF Item
  <2> QED
    BY Zenon, <2>1, <2>2 DEF EffectOk, ItemOk
<1> QED
  BY Zenon, <1>4, <1>5 DEF TodoOk

\* The simple items.
LEMMA ItemKinds ==
    ASSUME NEW S, NEW M, NEW own, NEW again, NEW tx
    PROVE  /\ ItemOk(Item("dispatch", NoTx, NoEvent), S, M, own, again)
           /\ ItemOk(Item("cancel", tx, NoEvent), S, M, own, again)
           /\ ItemOk(Tell, S, M, own, again)
           /\ \A e : EventOk(e, S, M) => /\ ItemOk(Drive(e), S, M, own, again)
                                         /\ ItemOk(Handle(e), S, M, own, again)
           /\ tx \in SweepTxs /\ (SweptIn(M) \/ tx \in own)
                => ItemOk(Item("submit", tx, NoEvent), S, M, own, again)
           /\ TodoOk(<<>>, S, M, own, again)
<1>1. /\ ItemOk(Item("dispatch", NoTx, NoEvent), S, M, own, again)
      /\ ItemOk(Item("cancel", tx, NoEvent), S, M, own, again)
      /\ ItemOk(Tell, S, M, own, again)
  BY Zenon DEF ItemOk, Item, Tell
<1>2. ASSUME NEW e, EventOk(e, S, M)
      PROVE  /\ ItemOk(Drive(e), S, M, own, again)
             /\ ItemOk(Handle(e), S, M, own, again)
  BY Zenon, <1>2 DEF ItemOk, Item, Drive, Handle
<1>3. tx \in SweepTxs /\ (SweptIn(M) \/ tx \in own)
                => ItemOk(Item("submit", tx, NoEvent), S, M, own, again)
  BY Zenon DEF ItemOk, Item
<1>4. TodoOk(<<>>, S, M, own, again)
  BY ZenonT(60), <1>1, TodoOne
<1> QED
  BY Zenon, <1>1, <1>2, <1>3, <1>4

\* The events that say nothing of a sweep or of a foreign spend.
LEMMA EventKinds ==
    ASSUME NEW S, NEW M, NEW tx, NEW h, NEW class, NEW same, NEW fraud
    PROVE  /\ EventOk(Resume(h), S, M)
           /\ EventOk([kind |-> "height", height |-> h], S, M)
           /\ EventOk([kind |-> "start", height |-> h, fraud |-> fraud], S, M)
           /\ EventOk([kind |-> "sweep_build_failed"], S, M)
           /\ EventOk(Failed(tx, class, same), S, M)
           /\ (tx \in SweepTxs => tx \in M) => EventOk(Confirmed(tx, h), S, M)
           /\ tx \in SweepTxs => EventOk(Broadcasted(tx), S, M)
<1>1. /\ EventOk(Resume(h), S, M)
      /\ EventOk([kind |-> "height", height |-> h], S, M)
      /\ EventOk([kind |-> "start", height |-> h, fraud |-> fraud], S, M)
      /\ EventOk([kind |-> "sweep_build_failed"], S, M)
  BY Zenon DEF EventOk, Resume, Kinds
<1>2. /\ EventOk(Failed(tx, class, same), S, M)
      /\ (tx \in SweepTxs => tx \in M) => EventOk(Confirmed(tx, h), S, M)
      /\ tx \in SweepTxs => EventOk(Broadcasted(tx), S, M)
  BY Zenon DEF EventOk, Failed, Confirmed, Broadcasted, Kinds
<1> QED
  BY Zenon, <1>1, <1>2

-----------------------------------------------------------------------------
\* The job.  The watches of an actor are no part of what it claims.
Alike(c, d) == /\ ActorFields \subseteq DOMAIN d
               /\ d.job = c.job /\ d.sweep = c.sweep /\ d.old = c.old
               /\ d.row = c.row /\ d.todo = c.todo
LEMMA ArmedAlike ==
    ASSUME NEW c, ActorFields \subseteq DOMAIN c, NEW ops
    PROVE  Alike(c, Armed(c, ops)) /\ Alike(c, SourcesArmed(c)) /\ Alike(c, Loaded(c))
<1>1. \A d, o : ActorFields \subseteq DOMAIN d => Alike(d, Armed(d, o))
  BY Zenon DEF Armed, Alike, ActorFields
<1>2. \A d : ActorFields \subseteq DOMAIN d => Alike(d, SourcesArmed(d))
  BY Zenon, <1>1 DEF SourcesArmed, Alike
<1> DEFINE d == [c EXCEPT !.loaded = TRUE]
<1>3. Alike(c, d)
  BY Zenon DEF Alike, ActorFields
<1> HIDE DEF d
<1>4. Alike(d, Armed(d, {p.target}))
  BY ZenonT(60), <1>1, <1>3 DEF Alike
<1>5. Alike(Armed(d, {p.target}), SourcesArmed(Armed(d, {p.target})))
  BY Zenon, <1>2, <1>4 DEF Alike
<1>6. Loaded(c) = SourcesArmed(Armed(d, {p.target}))
  BY Zenon DEF Loaded, d
<1>7. Alike(c, Loaded(c))
  BY ZenonT(60), <1>3, <1>4, <1>5, <1>6 DEF Alike
<1> QED
  BY Zenon, <1>1, <1>2, <1>7

LEMMA ExitFacts ==
    ASSUME Exit
    PROVE  /\ Child \in Keepers /\ Child \in Subs
           /\ ActorFields \subseteq DOMAIN child
           /\ Own \subseteq SweepTxs /\ NoTx \notin SweepTxs
           /\ Candidates(child) \subseteq SweepTxs
           /\ Candidates(ck) \subseteq SweepTxs
           /\ sc.proof.nodes \cap SweepTxs = {}
           /\ Len(box[Child].rows) \in Nat
<1>1. Child \in Keepers /\ Child \in Subs
  BY Zenon, ExitAssumption DEF Keepers, Reliable
<1>2. NoTx \notin SweepTxs /\ sc.proof.nodes \cap SweepTxs = {}
  BY Zenon, ExitAssumption, SweepsAreTxs DEF Exit
<1>3. Candidates(child) \subseteq SweepTxs /\ Candidates(ck) \subseteq SweepTxs
  BY Zenon DEF Candidates, Exit, Actor
<1>4. Len(box[Child].rows) \in Nat
  BY ZenonT(60), <1>1, SeqAppend DEF Exit, Reported, Boxed
<1> QED
  BY Zenon, <1>1, <1>2, <1>3, <1>4 DEF Exit, Actor, Own

\* A step of the job.
LEMMA ActorStep ==
    ASSUME Exit, sc' = sc, mined' = mined, ActorFields \subseteq DOMAIN child',
           child'.old \cup {child'.sweep} \subseteq SweepTxs \cup {NoTx},
           ck'.old \cup {ck'.sweep} \subseteq SweepTxs \cup {NoTx},
           JobOk(child'.job, sc, Mined), JobOk(ck'.job, sc, Mined),
           child'.row \in Nat, child'.row <= Len(box'[Child].rows),
           TodoOk(child'.todo, sc, Mined, Own', Again'),
           Mined \cap SweepTxs \subseteq Own',
           \/ SweptIn(Mined)
           \/ /\ Own \subseteq Own'
              /\ Out' \subseteq Out \cup Own'
              /\ sent' \cap SweepTxs \subseteq sent \cup Own'
    PROVE  Actor' /\ Owned'
<1>1. Mined' = Mined
  BY Zenon DEF Mined
<1>2. Actor'
  BY Zenon, <1>1 DEF Actor
<1>3. \A x, y \in Mined' \cap SweepTxs : x = y
  BY Zenon, <1>1 DEF Exit, Owned
<1>4. ~SweptIn(Mined') => Out' \cup (sent' \cap SweepTxs) \subseteq Own'
  BY Zenon, <1>1 DEF Exit, Owned
<1> QED
  BY ZenonT(60), <1>1, <1>2, <1>3, <1>4 DEF Owned

\* A step that leaves the sweep at hand, its forerunners and the checkpoint.
SameSweep == child'.sweep = child.sweep /\ child'.old = child.old /\ ck' = ck
LEMMA QuietActor ==
    ASSUME Exit, sc' = sc, mined' = mined, ActorFields \subseteq DOMAIN child',
           SameSweep, JobOk(child'.job, sc, Mined),
           child'.row \in Nat, child'.row <= Len(box'[Child].rows),
           TodoOk(child'.todo, sc, Mined, Own, Again),
           SweptIn(Mined) \/ (/\ Out' \subseteq Out \cup Own
                              /\ sent' \cap SweepTxs \subseteq sent \cup Own)
    PROVE  Actor' /\ Owned'
<1>1. Own' = Own /\ Again' = Again
  BY Zenon DEF Own, Again, Candidates, SameSweep
<1>2. /\ child'.old \cup {child'.sweep} \subseteq SweepTxs \cup {NoTx}
      /\ ck'.old \cup {ck'.sweep} \subseteq SweepTxs \cup {NoTx}
      /\ JobOk(ck'.job, sc, Mined)
  BY Zenon DEF SameSweep, Exit, Actor
<1>3. Mined \cap SweepTxs \subseteq Own
  BY Zenon DEF Exit, Owned
<1>4. TodoOk(child'.todo, sc, Mined, Own', Again')
  BY Zenon, <1>1
<1> QED
  BY ZenonT(60), <1>1, <1>2, <1>3, <1>4, ActorStep

\* A step to the rest of the handler, after q.
Onward(q) == /\ ActorFields \subseteq DOMAIN child'
             /\ child'.job = child.job /\ child'.row = child.row
             /\ SameSweep /\ child'.todo = q \o Tail(child.todo)
LEMMA OnwardActor ==
    ASSUME Exit, sc' = sc, mined' = mined, child.todo # <<>>,
           NEW q, Onward(q), TodoOk(q, sc, Mined, Own, Again),
           Len(box[Child].rows) <= Len(box'[Child].rows),
           Len(box'[Child].rows) \in Nat,
           SweptIn(Mined) \/ (/\ Out' \subseteq Out \cup Own
                              /\ sent' \cap SweepTxs \subseteq sent \cup Own)
    PROVE  Actor' /\ Owned'
<1>1. TodoOk(Tail(child.todo), sc, Mined, Own, Again)
  BY Zenon, TodoRest DEF Exit, Actor
<1>2. TodoOk(child'.todo, sc, Mined, Own, Again)
  BY Zenon, <1>1, TodoCat DEF Onward
<1>3. child'.row \in Nat /\ child'.row <= Len(box'[Child].rows)
  <2>1. /\ child.row \in Nat /\ child.row <= Len(box[Child].rows)
        /\ Len(box[Child].rows) \in Nat
    BY Zenon, ExitFacts DEF Exit, Actor
  <2>2. child'.row = child.row
    BY Zenon DEF Onward
  <2> QED
    BY <2>1, <2>2
<1>4. JobOk(child'.job, sc, Mined)
  BY Zenon DEF Onward, Exit, Actor
<1> QED
  BY ZenonT(60), <1>2, <1>3, <1>4, QuietActor DEF Onward

\* The rest of the handler alone.
LEMMA OnwardRest ==
    ASSUME Exit, child.todo # <<>>
    PROVE  /\ <<>> \o Tail(child.todo) = Tail(child.todo)
           /\ ItemOk(Now, sc, Mined, Own, Again)
           /\ TodoOk(<<>>, sc, Mined, Own, Again)
<1>1. IsSeq(child.todo) /\ IsSeq(Tail(child.todo))
  BY Zenon, SeqTail DEF Exit, Actor, TodoOk
<1>2. PICK X : Tail(child.todo) \in Seq(X)
  BY Zenon, <1>1 DEF IsSeq
<1>3. <<>> \o Tail(child.todo) = Tail(child.todo)
  BY <1>2
<1>4. ItemOk(Now, sc, Mined, Own, Again)
  BY Zenon, TodoRest DEF Exit, Actor, Now
<1> QED
  BY ZenonT(60), <1>3, <1>4, ItemKinds

\* Nothing of the chain, the broadcaster and the mailboxes changes.
Offline == UNCHANGED <<sc, mined, pool, tracked, parked, flights, box>>
LEMMA OfflineStep ==
    ASSUME Exit, Offline
    PROVE  /\ Reported' /\ Out' = Out /\ Mined' = Mined
           /\ Len(box[Child].rows) <= Len(box'[Child].rows)
           /\ Len(box'[Child].rows) \in Nat
<1>1. Len(box[Child].rows) \in Nat
  BY Zenon, ExitFacts
<1>2. Mined' = Mined /\ Out' = Out
  BY Zenon DEF Offline, Mined, Out
<1>3. Reported'
  BY Zenon, <1>2 DEF Offline, Reported, Exit
<1> QED
  BY <1>1, <1>2, <1>3 DEF Offline

\* The message at hand is consumed, or put back for later.
Consuming == box' = [box EXCEPT ![Child].rows = Consumed(@, child.row)]
PuttingBack == box' = [box EXCEPT ![Child].rows = [@ EXCEPT ![child.row].late = TRUE]]
LEMMA ConsumedRows ==
    ASSUME NEW q, IsSeq(q), NEW n \in 1 .. Len(q)
    PROVE  /\ IsSeq(Consumed(q, n))
           /\ \A i \in 1 .. Len(Consumed(q, n)) :
                \E j \in 1 .. Len(q) : Consumed(q, n)[i] = q[j]
<1>1. PICK X : q \in Seq(X)
  BY Zenon DEF IsSeq
<1>2. Len(q) \in Nat
  BY <1>1
<1> DEFINE r == SubSeq(q, 1, n - 1)
           t == SubSeq(q, n + 1, Len(q))
<1>3. r \in Seq(X) /\ Len(r) = n - 1 /\ \A i \in 1 .. Len(r) : r[i] = q[i]
  BY <1>1, <1>2
<1>4. /\ t \in Seq(X) /\ Len(t) = Len(q) - n
      /\ \A i \in 1 .. Len(t) : t[i] = q[n + i]
  BY <1>1, <1>2
<1>5. Consumed(q, n) = r \o t
  BY Zenon DEF Consumed
<1> HIDE DEF r, t
<1>6. IsSeq(r) /\ IsSeq(t)
  BY Zenon, <1>3, <1>4 DEF IsSeq
<1>7. ASSUME NEW i \in 1 .. Len(r \o t)
      PROVE  \E j \in 1 .. Len(q) : (r \o t)[i] = q[j]
  <2>1. \/ i \in 1 .. Len(r) /\ (r \o t)[i] = r[i]
        \/ i - Len(r) \in 1 .. Len(t) /\ (r \o t)[i] = t[i - Len(r)]
    BY Zenon, <1>6, SeqCat
  <2>2. CASE i \in 1 .. Len(r) /\ (r \o t)[i] = r[i]
    BY <1>2, <1>3, <2>2
  <2>3. CASE i - Len(r) \in 1 .. Len(t) /\ (r \o t)[i] = t[i - Len(r)]
    <3>1. (r \o t)[i] = q[n + (i - Len(r))]
      BY Zenon, <1>4, <2>3
    <3>2. n + (i - Len(r)) \in 1 .. Len(q)
      BY <1>2, <1>3, <1>4, <2>3
    <3> QED
      BY Zenon, <3>1, <3>2
  <2> QED
    BY ZenonT(60), <2>1, <2>2, <2>3
<1> QED
  BY ZenonT(60), <1>5, <1>6, <1>7, SeqCat

LEMMA RowsGone ==
    ASSUME Exit, child.row > 0, Consuming \/ PuttingBack,
           UNCHANGED <<sc, mined, pool, tracked, parked, flights>>
    PROVE  Reported' /\ Out' = Out /\ Len(box'[Child].rows) \in Nat
<1> DEFINE n == child.row
<1>1. /\ Child \in Keepers /\ n \in 1 .. Len(Rows) /\ Len(Rows) \in Nat
      /\ Boxed(box[Child], sc, Mined)
  <2>1. Child \in Keepers /\ Len(Rows) \in Nat
    BY Zenon, ExitFacts DEF Rows
  <2>2. n \in Nat /\ n <= Len(Rows)
    BY Zenon DEF Exit, Actor, Rows
  <2>3. Boxed(box[Child], sc, Mined)
    BY ZenonT(60), <2>1 DEF Exit, Reported
  <2> QED
    BY <2>1, <2>2, <2>3
<1>2. /\ IsSeq(Rows)
      /\ \A i \in 1 .. Len(Rows) : "msg" \in DOMAIN Rows[i]
  BY Zenon, <1>1 DEF Boxed, Rows
<1> HIDE DEF n
<1>3. Mailed(box') /\ Len(box'[Child].rows) \in Nat
  <2>1. CASE Consuming
    <3>1. box' = [box EXCEPT ![Child].rows = Consumed(Rows, n)]
      BY ZenonT(60), <2>1 DEF Consuming, Rows, n
    <3>2. /\ IsSeq(Consumed(Rows, n))
          /\ \A i \in 1 .. Len(Consumed(Rows, n)) :
                \E j \in 1 .. Len(Rows) : Consumed(Rows, n)[i] = Rows[j]
      BY ZenonT(60), <1>1, <1>2, ConsumedRows
    <3>3. \A i \in 1 .. Len(Consumed(Rows, n)) :
                \E j \in 1 .. Len(Rows) :
                    /\ "msg" \in DOMAIN Consumed(Rows, n)[i]
                    /\ Consumed(Rows, n)[i].msg = Rows[j].msg
      BY Zenon, <1>2, <3>2
    <3> QED
      BY ZenonT(60), <1>1, <3>1, <3>2, <3>3, Remailing DEF Exit, Rows
  <2>2. CASE PuttingBack
    <3> DEFINE q == [Rows EXCEPT ![n].late = TRUE]
    <3>1. box' = [box EXCEPT ![Child].rows = q]
      BY Zenon, <2>2 DEF PuttingBack, Rows, n
    <3>2. PICK X : Rows \in Seq(X)
      BY Zenon, <1>2 DEF IsSeq
    <3>3. DOMAIN Rows = 1 .. Len(Rows)
      BY <3>2
    <3>4. DOMAIN q = 1 .. Len(Rows) /\ q = [i \in 1 .. Len(Rows) |-> q[i]]
      BY Zenon, <3>3
    <3>5. IsSeq(q) /\ Len(q) = Len(Rows)
      BY ZenonT(60), <1>1, <3>4, SeqFun
    <3>6. ASSUME NEW i \in 1 .. Len(Rows)
          PROVE  "msg" \in DOMAIN q[i] /\ q[i].msg = Rows[i].msg
      <4>1. q[i] = IF i = n THEN [Rows[i] EXCEPT !.late = TRUE] ELSE Rows[i]
        BY Zenon, <3>3
      <4>2. "msg" \in DOMAIN Rows[i]
        BY Zenon, <1>2
      <4> QED
        BY <4>1, <4>2
    <3> HIDE DEF q
    <3>7. \A i \in 1 .. Len(q) : \E j \in 1 .. Len(Rows) :
                "msg" \in DOMAIN q[i] /\ q[i].msg = Rows[j].msg
      BY ZenonT(60), <3>5, <3>6
    <3> QED
      BY ZenonT(60), <1>1, <3>1, <3>5, <3>7, Remailing DEF Exit, Rows
  <2> QED
    BY Zenon, <2>1, <2>2
<1>4. Mined' = Mined /\ Out' = Out
  BY Zenon DEF Mined, Out
<1>5. Reported'
  BY ZenonT(60), <1>3, <1>4, ReportsStay DEF Exit
<1> QED
  BY Zenon, <1>3, <1>4, <1>5

\* The handler fails, with the actor as c.
LEMMA RaiseExit ==
    ASSUME Exit, child.row > 0, NEW c, NEW routed, Raise(c, routed),
           UNCHANGED <<sc, mined, pool, tracked, parked, flights, ck, sent>>,
           ActorFields \subseteq DOMAIN c, JobOk(c.job, sc, Mined),
           c.old \cup {c.sweep} \subseteq SweepTxs \cup {NoTx},
           Candidates(child) \subseteq Candidates(c)
    PROVE  Reported' /\ Actor' /\ Owned'
<1>1. child' = [c EXCEPT !.row = 0, !.todo = <<>>, !.reroute = @ \/ routed]
  BY Zenon DEF Raise
<1>2. /\ ActorFields \subseteq DOMAIN child' /\ child'.row = 0
      /\ child'.todo = <<>> /\ child'.job = c.job /\ child'.sweep = c.sweep
      /\ child'.old = c.old
  BY Zenon, <1>1 DEF ActorFields
<1>3. Consuming \/ PuttingBack
  BY ZenonT(60) DEF Raise, Consuming, PuttingBack
<1>4. Reported' /\ Out' = Out /\ Len(box'[Child].rows) \in Nat
  BY ZenonT(60), <1>3, RowsGone
<1>5. Candidates(child)' = Candidates(c) /\ Candidates(ck)' = Candidates(ck)
  BY ZenonT(60), <1>2 DEF Candidates
<1>6. Own \subseteq Own'
  BY ZenonT(60), <1>5 DEF Own
<1>7. Mined \cap SweepTxs \subseteq Own'
  BY Zenon, <1>6 DEF Exit, Owned
<1>8. TodoOk(child'.todo, sc, Mined, Own', Again')
  BY ZenonT(60), <1>2, ItemKinds
<1>9. ck'.old \cup {ck'.sweep} \subseteq SweepTxs \cup {NoTx} /\ JobOk(ck'.job, sc, Mined)
  BY Zenon DEF Exit, Actor
<1>10. child'.row \in Nat /\ child'.row <= Len(box'[Child].rows)
  BY <1>2, <1>4
<1>11. sc' = sc /\ mined' = mined /\ sent' = sent /\ ck' = ck
  BY Zenon
<1> QED
  BY ZenonT(60), <1>2, <1>4, <1>6, <1>7, <1>8, <1>9, <1>10, <1>11, ActorStep

\* The faults that hit the actor as it is.
LEMMA FaultExit ==
    ASSUME Exit, LeaseLost \/ LoadFails \/ RouteFails \/ Refused
    PROVE  Reported' /\ Actor' /\ Owned'
<1>1. /\ ActorFields \subseteq DOMAIN child /\ JobOk(child.job, sc, Mined)
      /\ child.old \cup {child.sweep} \subseteq SweepTxs \cup {NoTx}
  BY Zenon DEF Exit, Actor
<1>2. /\ child.row > 0
      /\ UNCHANGED <<sc, mined, pool, tracked, parked, flights, ck, sent>>
  BY ZenonT(60) DEF LeaseLost, LoadFails, RouteFails, Refused, Driving, Doing,
         ChainUnchanged, chainVars
<1>3. CASE \E routed : Raise(child, routed)
  BY ZenonT(60), <1>1, <1>2, <1>3, RaiseExit
<1>4. CASE Refused
  <2> DEFINE c == [child EXCEPT !.torn = TRUE]
  <2>1. /\ ActorFields \subseteq DOMAIN c /\ c.job = child.job
        /\ c.sweep = child.sweep /\ c.old = child.old
    BY Zenon, <1>1 DEF ActorFields
  <2>2. Raise(c, Routing)
    BY ZenonT(60), <1>4 DEF Refused
  <2> HIDE DEF c
  <2>3. Candidates(c) = Candidates(child)
    BY ZenonT(60), <2>1 DEF Candidates
  <2> QED
    BY ZenonT(60), <1>1, <1>2, <2>1, <2>2, <2>3, RaiseExit
<1> QED
  BY ZenonT(60), <1>3, <1>4 DEF LeaseLost, LoadFails, RouteFails

\* Taking a message.
LEMMA TakeExit ==
    ASSUME Exit, Take
    PROVE  Reported' /\ Actor' /\ Owned'
<1>1. Offline /\ sent' = sent /\ ck' = ck
  BY Zenon DEF Take, Offline, ChainUnchanged, chainVars
<1>2. PICK i \in DOMAIN Rows : child' = [child EXCEPT
                !.row = i,
                !.restored = @ /\ ~child.reroute,
                !.todo = (IF child.reroute
                          THEN <<Drive(Resume(child.job.height))>> ELSE <<>>)
                         \o <<Item("dispatch", NoTx, NoEvent)>>]
  BY Zenon DEF Take
<1> DEFINE first == IF child.reroute
                    THEN <<Drive(Resume(child.job.height))>> ELSE <<>>
           last == <<Item("dispatch", NoTx, NoEvent)>>
<1>3. TodoOk(last, sc, Mined, Own, Again)
  BY ZenonT(60), ItemKinds, TodoOne
<1>4. TodoOk(first, sc, Mined, Own, Again)
  <2>1. EventOk(Resume(child.job.height), sc, Mined)
    BY Zenon, EventKinds
  <2>2. ItemOk(Drive(Resume(child.job.height)), sc, Mined, Own, Again)
    BY ZenonT(60), <2>1, ItemKinds
  <2> QED
    BY Zenon, <2>2, TodoOne
<1>5. ActorFields \subseteq DOMAIN child
  BY Zenon, ExitFacts
<1> HIDE DEF first, last
<1>6. /\ ActorFields \subseteq DOMAIN child' /\ child'.row = i
      /\ child'.todo = first \o last /\ child'.job = child.job
      /\ child'.sweep = child.sweep /\ child'.old = child.old
  BY ZenonT(60), <1>2, <1>5 DEF ActorFields, first, last
<1>7. TodoOk(child'.todo, sc, Mined, Own, Again)
  BY ZenonT(60), <1>3, <1>4, <1>6, TodoCat
<1>8. i \in Nat /\ i <= Len(box'[Child].rows)
  <2>1. IsSeq(Rows)
    BY Zenon, ExitFacts DEF Exit, Reported, Boxed, Rows
  <2>2. PICK X : Rows \in Seq(X)
    BY Zenon, <2>1 DEF IsSeq
  <2>3. i \in Nat /\ i <= Len(Rows)
    BY <2>2
  <2> QED
    BY ZenonT(60), <1>1, <2>3 DEF Offline, Rows
<1>9. JobOk(child'.job, sc, Mined)
  BY ZenonT(60), <1>6 DEF Exit, Actor
<1> QED
  BY ZenonT(60), <1>1, <1>6, <1>7, <1>8, <1>9, OfflineStep, QuietActor
  DEF Offline, SameSweep

\* The steps within a handler that reach nobody but the registry.
LEMMA SilentExit ==
    ASSUME Exit, \/ AlreadyTerminal \/ watchDeferredCheckpoint \/ SweepBuildFailed
                 \/ LedgerFails \/ notifyRegistryIfTerminal
    PROVE  Reported' /\ Actor' /\ Owned'
<1>1. Offline /\ sent' = sent /\ ck' = ck /\ child.todo # <<>>
  BY Zenon
  DEF AlreadyTerminal, watchDeferredCheckpoint, SweepBuildFailed, LedgerFails,
         notifyRegistryIfTerminal, Offline, ChainUnchanged, chainVars, Doing
<1>2. ActorFields \subseteq DOMAIN child
  BY ZenonT(60), ExitFacts
<1>3. <<>> \o Rest = Rest /\ TodoOk(<<>>, sc, Mined, Own, Again)
  BY Zenon, <1>1, OnwardRest DEF Rest
<1>4. \E q : Onward(q) /\ TodoOk(q, sc, Mined, Own, Again)
  <2>1. CASE AlreadyTerminal
    <3>1. Onward(<<Tell>>)
      BY Zenon, <1>1, <1>2, <2>1
      DEF AlreadyTerminal, Onward, SameSweep, ActorFields, Rest
    <3>2. TodoOk(<<Tell>>, sc, Mined, Own, Again)
      BY ZenonT(60), ItemKinds, TodoOne
    <3> QED
      BY Zenon, <3>1, <3>2
  <2>2. CASE SweepBuildFailed
    <3> DEFINE it == Drive([kind |-> "sweep_build_failed"])
    <3>1. EventOk([kind |-> "sweep_build_failed"], sc, Mined)
      BY Zenon, EventKinds
    <3>2. ItemOk(it, sc, Mined, Own, Again)
      BY ZenonT(60), <3>1, ItemKinds
    <3> HIDE DEF it
    <3>3. Onward(<<it>>)
      BY ZenonT(60), <1>1, <1>2, <2>2
      DEF SweepBuildFailed, Onward, SameSweep, ActorFields, Rest, it
    <3>4. TodoOk(<<it>>, sc, Mined, Own, Again)
      BY Zenon, <3>2, TodoOne
    <3> QED
      BY Zenon, <3>3, <3>4
  <2>3. CASE \/ watchDeferredCheckpoint \/ LedgerFails \/ notifyRegistryIfTerminal
    <3>1. /\ ActorFields \subseteq DOMAIN child'
          /\ child'.job = child.job /\ child'.row = child.row
          /\ child'.sweep = child.sweep /\ child'.old = child.old
          /\ child'.todo = Rest
      BY ZenonT(60), <1>2, <2>3 DEF watchDeferredCheckpoint, LedgerFails,
                        notifyRegistryIfTerminal, ActorFields
    <3>2. Onward(<<>>)
      BY Zenon, <1>1, <1>3, <3>1 DEF Onward, SameSweep, Rest
    <3> QED
      BY Zenon, <1>3, <3>2
  <2> QED
    BY Zenon, <2>1, <2>2, <2>3
<1>5. PICK q : Onward(q) /\ TodoOk(q, sc, Mined, Own, Again)
  BY Zenon, <1>4
<1> QED
  BY ZenonT(60), <1>1, <1>5, OfflineStep, OnwardActor DEF Offline

\* stopRejectedSweep and cleanupAbandonedBroadcast
LEMMA CancelExit ==
    ASSUME Exit, stopRejectedSweep \/ \E tx \in clean : cleanupAbandonedBroadcast(tx)
    PROVE  Reported' /\ Actor' /\ Owned'
<1>1. UNCHANGED <<sc, mined, pool, parked, flights, box, ck, sent>>
  BY Zenon DEF stopRejectedSweep, cleanupAbandonedBroadcast, chainVars
<1>2. PICK tx : handleCancel(tx, Child)
  BY Zenon DEF stopRejectedSweep, cleanupAbandonedBroadcast
<1>3. Reported' /\ Out' \subseteq Out
  BY ZenonT(60), <1>1, <1>2, CancelReports DEF Exit
<1>4. /\ ActorFields \subseteq DOMAIN child /\ Len(box[Child].rows) \in Nat
      /\ Len(box[Child].rows) <= Len(box'[Child].rows)
      /\ Len(box'[Child].rows) \in Nat
  BY <1>1, ExitFacts
<1>5. CASE stopRejectedSweep
  <2>1. child.todo # <<>>
    BY Zenon, <1>5 DEF stopRejectedSweep, Doing
  <2>2. <<>> \o Rest = Rest /\ TodoOk(<<>>, sc, Mined, Own, Again)
    BY Zenon, <2>1, OnwardRest DEF Rest
  <2>3. Onward(<<>>)
    BY ZenonT(60), <1>1, <1>4, <1>5, <2>2
    DEF stopRejectedSweep, Onward, SameSweep, ActorFields, Rest
  <2> QED
    BY ZenonT(60), <1>1, <1>3, <1>4, <2>1, <2>2, <2>3, OnwardActor
<1>6. CASE child' = child
  <2>1. /\ JobOk(child'.job, sc, Mined) /\ child'.row \in Nat
        /\ child'.row <= Len(box'[Child].rows)
        /\ TodoOk(child'.todo, sc, Mined, Own, Again)
    BY ZenonT(60), <1>1, <1>6 DEF Exit, Actor
  <2> QED
    BY ZenonT(60), <1>1, <1>3, <1>4, <1>6, <2>1, QuietActor DEF SameSweep
<1> QED
  BY Zenon, <1>5, <1>6 DEF cleanupAbandonedBroadcast

\* ensureNodeConfirmed, the reissue and the submission of a sweep
LEMMA EnsureExit ==
    ASSUME Exit, NEW res, NEW slow,
           \/ ensureNodeConfirmed(res, slow) \/ ReissueSweepConfirmation(res, slow)
           \/ SubmitSweep(res, slow)
    PROVE  Reported' /\ Actor' /\ Owned'
<1>1. child.todo # <<>> /\ ck' = ck
  BY Zenon DEF ensureNodeConfirmed, ReissueSweepConfirmation, SubmitSweep, Doing
<1>2. /\ ActorFields \subseteq DOMAIN child /\ Child \in Subs /\ Child \in Keepers
      /\ Len(box[Child].rows) \in Nat /\ Own \subseteq SweepTxs
      /\ sc.proof.nodes \cap SweepTxs = {} /\ NoTx \notin SweepTxs
  BY ZenonT(60), ExitFacts
<1>3. /\ <<>> \o Rest = Rest /\ TodoOk(<<>>, sc, Mined, Own, Again)
      /\ ItemOk(Now, sc, Mined, Own, Again)
  BY Zenon, <1>1, OnwardRest DEF Rest
<1>4. ASSUME NEW tx, handleEnsure(tx, Child, res, slow)
      PROVE  /\ Reported' /\ Out' \subseteq Out \cup {tx}
             /\ sc' = sc /\ mined' = mined
             /\ Len(box[Child].rows) <= Len(box'[Child].rows)
             /\ Len(box'[Child].rows) \in Nat
  <2>1. Reported' /\ Out' \subseteq Out \cup {tx} /\ Posted(box')
    BY ZenonT(60), <1>2, <1>4, EnsureReports DEF Exit
  <2>2. sc' = sc /\ mined' = mined
    BY Zenon, <1>4 DEF handleEnsure
  <2>3. Boxed(box'[Child], sc, Mined) /\ Len(box[Child].rows) <= Len(box'[Child].rows)
    BY ZenonT(60), <1>2, <2>1 DEF Posted
  <2>4. Len(box'[Child].rows) \in Nat
    BY Zenon, <2>3, SeqAppend DEF Boxed
  <2> QED
    BY ZenonT(60), <2>1, <2>2, <2>3, <2>4
<1>5. Out' \subseteq SweepTxs
  BY Zenon DEF Out
<1>6. CASE ensureNodeConfirmed(res, slow)
  <2>1. Now.tx \in sc.proof.nodes /\ handleEnsure(Now.tx, Child, res, slow)
    BY Zenon, <1>6 DEF ensureNodeConfirmed, p
  <2>2. /\ Reported' /\ Out' \subseteq Out \cup {Now.tx}
        /\ sc' = sc /\ mined' = mined
        /\ Len(box[Child].rows) <= Len(box'[Child].rows)
        /\ Len(box'[Child].rows) \in Nat
    BY ZenonT(60), <1>4, <2>1
  <2>3. Out' \subseteq Out
    BY ZenonT(60), <1>2, <1>5, <2>1, <2>2
  <2> DEFINE c == IF Children(p, Now.tx) = {} THEN child
                  ELSE Armed(child, {Now.tx})
             q == IF EnsureFailed(Now.tx, res)
                  THEN <<Drive(Failed(Now.tx, "", FALSE))>> ELSE <<>>
  <2>4. Alike(child, c)
    BY ZenonT(60), <1>2, ArmedAlike DEF Alike
  <2>5. child' = [c EXCEPT !.todo = q \o Rest] /\ sent' = sent
    BY Zenon, <1>6 DEF ensureNodeConfirmed
  <2>6. TodoOk(q, sc, Mined, Own, Again)
    <3>1. EventOk(Failed(Now.tx, "", FALSE), sc, Mined)
      BY Zenon, EventKinds
    <3>2. ItemOk(Drive(Failed(Now.tx, "", FALSE)), sc, Mined, Own, Again)
      BY ZenonT(60), <3>1, ItemKinds
    <3> QED
      BY ZenonT(60), <1>3, <3>2, TodoOne
  <2> HIDE DEF c, q
  <2>7. Onward(q)
    BY Zenon, <1>1, <2>4, <2>5 DEF Alike, Onward, SameSweep, ActorFields, Rest
  <2> QED
    BY ZenonT(60), <1>1, <2>2, <2>3, <2>5, <2>6, <2>7, OnwardActor
<1>7. CASE ReissueSweepConfirmation(res, slow)
  <2>1. handleEnsure(child.sweep, Child, res, slow) /\ (SweptIn(Mined) \/ Again)
    BY ZenonT(60), <1>3, <1>7 DEF ReissueSweepConfirmation, Doing, ItemOk
  <2>2. /\ Reported' /\ Out' \subseteq Out \cup {child.sweep}
        /\ sc' = sc /\ mined' = mined
        /\ Len(box[Child].rows) <= Len(box'[Child].rows)
        /\ Len(box'[Child].rows) \in Nat
    BY ZenonT(60), <1>4, <2>1
  <2>3. SweptIn(Mined) \/ Out' \subseteq Out \cup Own
    BY ZenonT(60), <1>2, <1>5, <2>1, <2>2 DEF Again
  <2>4. child' = [child EXCEPT !.todo = Rest] /\ sent' = sent
    BY Zenon, <1>7 DEF ReissueSweepConfirmation
  <2>5. Onward(<<>>)
    BY ZenonT(60), <1>1, <1>2, <1>3, <2>4
    DEF Onward, SameSweep, ActorFields, Rest
  <2> QED
    BY ZenonT(60), <1>1, <1>3, <2>2, <2>3, <2>4, <2>5, OnwardActor
<1>8. CASE SubmitSweep(res, slow)
  <2>1. /\ handleEnsure(Now.tx, Child, res, slow)
        /\ Now.tx \in SweepTxs /\ (SweptIn(Mined) \/ Now.tx \in Own)
    BY ZenonT(60), <1>3, <1>8 DEF SubmitSweep, Doing, ItemOk
  <2>2. /\ Reported' /\ Out' \subseteq Out \cup {Now.tx}
        /\ sc' = sc /\ mined' = mined
        /\ Len(box[Child].rows) <= Len(box'[Child].rows)
        /\ Len(box'[Child].rows) \in Nat
    BY Zenon, <1>4, <2>1
  <2> DEFINE it == Drive(Broadcasted(Now.tx))
  <2>3. child' = [child EXCEPT !.todo = <<it>> \o Rest] /\ sent' = sent \cup {Now.tx}
    BY Zenon, <1>8 DEF SubmitSweep
  <2>4. EventOk(Broadcasted(Now.tx), sc, Mined)
    BY Zenon, <2>1, EventKinds
  <2>5. ItemOk(it, sc, Mined, Own, Again)
    BY ZenonT(60), <2>4, ItemKinds
  <2> HIDE DEF it
  <2>6. TodoOk(<<it>>, sc, Mined, Own, Again)
    BY Zenon, <2>5, TodoOne
  <2>7. Onward(<<it>>)
    BY ZenonT(60), <1>1, <1>2, <2>3 DEF Onward, SameSweep, ActorFields, Rest
  <2>8. SweptIn(Mined) \/ (/\ Out' \subseteq Out \cup Own
                           /\ sent' \cap SweepTxs \subseteq sent \cup Own)
    BY ZenonT(60), <2>1, <2>2, <2>3
  <2> QED
    BY ZenonT(60), <1>1, <2>2, <2>6, <2>7, <2>8, OnwardActor
<1> QED
  BY Zenon, <1>6, <1>7, <1>8

\* driveEvent: the job after an event the machine takes.
LEMMA AdvancedOk ==
    ASSUME Exit, Driving, Taken, NEW c \in Advanced
    PROVE  /\ ActorFields \subseteq DOMAIN c /\ c.sweep = child.sweep
           /\ c.old = child.old /\ c.row = child.row /\ JobOk(c.job, sc, Mined)
           /\ TodoOk(c.todo, sc, Mined, Candidates(child), TRUE)
<1>1. /\ child.todo # <<>> /\ Now.do \in {"drive", "handle"}
  BY ZenonT(60) DEF Driving, Doing
<1>2. EventOk(Now.e, sc, Mined)
  BY Zenon, <1>1, OnwardRest DEF ItemOk
<1>3. PICK r \in ProcessEvent(sc.proof, child.job, Now.e) :
            c = [child EXCEPT !.job = r.job,
                              !.todo = Items(r.outbox) \o <<Tell>> \o Rest]
  BY ZenonT(60) DEF Advanced, p
<1> DEFINE next == Apply(sc.proof, child.job, Now.e)
<1>4. validateDeferred(sc.proof, next) /\ Validate(sc.proof, next)
  BY Zenon DEF Taken, Accepted, p
<1>5. PICK reissue, anchor : r = Derive(sc.proof, next, reissue, anchor)
  BY SMTT(30), ZenonT(90), <1>3 DEF ProcessEvent
<1>6. sc \in Scenarios /\ JobOk(child.job, sc, Mined)
  BY Zenon DEF Exit, Actor
<1>7. JobOk(next, sc, Mined)
  BY ZenonT(60), <1>2, <1>4, <1>6, ApplyOk
<1> HIDE DEF next
<1>8. JobOk(r.job, sc, Mined) /\ OutboxOk(r.outbox, sc)
  BY ZenonT(60), <1>4, <1>5, <1>6, <1>7, DeriveOk
<1>9. TodoOk(Items(r.outbox), sc, Mined, Candidates(child), TRUE)
  BY Zenon, <1>8, OutboxItems
<1>10. TodoOk(<<Tell>>, sc, Mined, Candidates(child), TRUE)
  BY Zenon, ItemKinds, TodoOne
<1>11. TodoOk(Rest, sc, Mined, Candidates(child), TRUE)
  <2>1. TodoOk(Rest, sc, Mined, Own, Again)
    BY Zenon, <1>1, TodoRest DEF Exit, Actor, Rest
  <2>2. Own \subseteq Candidates(child)
    BY Zenon DEF Own
  <2> QED
    BY ZenonT(60), <2>1, <2>2, TodoGrows
<1>12. TodoOk(Items(r.outbox) \o <<Tell>>, sc, Mined, Candidates(child), TRUE)
  BY Zenon, <1>9, <1>10, TodoCat
<1>13. TodoOk(Items(r.outbox) \o <<Tell>> \o Rest, sc, Mined, Candidates(child), TRUE)
  BY ZenonT(60), <1>11, <1>12, TodoCat
<1>14. ActorFields \subseteq DOMAIN child
  BY Zenon, ExitFacts
<1>15. /\ ActorFields \subseteq DOMAIN c /\ c.sweep = child.sweep
       /\ c.old = child.old /\ c.row = child.row /\ c.job = r.job
       /\ c.todo = Items(r.outbox) \o <<Tell>> \o Rest
  BY ZenonT(60), <1>3, <1>14 DEF ActorFields
<1> QED
  BY ZenonT(60), <1>8, <1>13, <1>15

\* A step that saves the actor: what memory and checkpoint agree on is all
\* that memory has.
Saved == ck' = Snapshot(child')
LEMMA SavedActor ==
    ASSUME Exit, sc' = sc, mined' = mined, ActorFields \subseteq DOMAIN child',
           Saved, child'.old \cup {child'.sweep} \subseteq SweepTxs \cup {NoTx},
           JobOk(child'.job, sc, Mined),
           child'.row \in Nat, child'.row <= Len(box'[Child].rows),
           Candidates(child) \subseteq Candidates(child'),
           TodoOk(child'.todo, sc, Mined, Candidates(child'), TRUE),
           Out' \subseteq Out, sent' = sent
    PROVE  Actor' /\ Owned'
<1>1. /\ ck'.job = child'.job /\ ck'.sweep = child'.sweep /\ ck'.old = child'.old
  BY ZenonT(60) DEF Saved, Snapshot
<1>2. Own' = Candidates(child') /\ Again'
  BY ZenonT(60), <1>1 DEF Own, Again, Candidates
<1>3. Own \subseteq Own'
  BY ZenonT(60), <1>2 DEF Own
<1>4. Mined \cap SweepTxs \subseteq Own'
  BY Zenon, <1>3 DEF Exit, Owned
<1>5. TodoOk(child'.todo, sc, Mined, Own', Again')
  BY ZenonT(60), <1>2, TodoGrows
<1> QED
  BY ZenonT(60), <1>1, <1>3, <1>4, <1>5, ActorStep

LEMMA DriveExit ==
    ASSUME Exit, driveEvent
    PROVE  Reported' /\ Actor' /\ Owned'
<1>1. Offline /\ sent' = sent
  BY Zenon DEF driveEvent, Offline, ChainUnchanged, chainVars
<1>2. PICK c \in Advanced : child' = SourcesArmed(c) /\ ck' = Snapshot(c)
  BY Zenon DEF driveEvent
<1>3. /\ ActorFields \subseteq DOMAIN c /\ c.sweep = child.sweep
      /\ c.old = child.old /\ c.row = child.row /\ JobOk(c.job, sc, Mined)
      /\ TodoOk(c.todo, sc, Mined, Candidates(child), TRUE)
  BY ZenonT(60), AdvancedOk DEF driveEvent
<1>4. Alike(c, child')
  BY ZenonT(60), <1>2, <1>3, ArmedAlike
<1>5. /\ Saved /\ Candidates(child') = Candidates(child)
  BY ZenonT(60), <1>2, <1>3, <1>4 DEF Saved, Snapshot, Alike, Candidates
<1>6. /\ child.old \cup {child.sweep} \subseteq SweepTxs \cup {NoTx}
      /\ child.row \in Nat /\ child.row <= Len(box[Child].rows)
  BY Zenon DEF Exit, Actor
<1>7. /\ child'.old \cup {child'.sweep} \subseteq SweepTxs \cup {NoTx}
      /\ JobOk(child'.job, sc, Mined) /\ ActorFields \subseteq DOMAIN child'
      /\ child'.row \in Nat /\ child'.row <= Len(box'[Child].rows)
      /\ TodoOk(child'.todo, sc, Mined, Candidates(child'), TRUE)
  BY ZenonT(60), <1>1, <1>3, <1>4, <1>5, <1>6 DEF Alike, Offline
<1> QED
  BY ZenonT(60), <1>1, <1>5, <1>7, OfflineStep, SavedActor DEF Offline

LEMMA StageFailsExit ==
    ASSUME Exit, StageFails
    PROVE  Reported' /\ Actor' /\ Owned'
<1>1. /\ UNCHANGED <<sc, mined, pool, tracked, parked, flights, ck, sent>>
      /\ Driving /\ Taken /\ child.row > 0
  BY Zenon DEF StageFails, Driving, Doing
<1>2. PICK c \in Advanced : Raise(c, Routing)
  BY Zenon DEF StageFails
<1>3. /\ ActorFields \subseteq DOMAIN c /\ c.sweep = child.sweep
      /\ c.old = child.old /\ JobOk(c.job, sc, Mined)
  BY ZenonT(60), <1>1, AdvancedOk
<1>4. /\ Candidates(c) = Candidates(child)
      /\ c.old \cup {c.sweep} \subseteq SweepTxs \cup {NoTx}
  BY ZenonT(60), <1>3 DEF Candidates, Exit, Actor
<1> QED
  BY ZenonT(60), <1>1, <1>2, <1>3, <1>4, RaiseExit

\* commitAck
LEMMA CommitExit ==
    ASSUME Exit, Commit
    PROVE  Reported' /\ Actor' /\ Owned'
<1>1. /\ UNCHANGED <<sc, mined, pool, tracked, parked, flights, sent>>
      /\ child.row > 0 /\ child.todo = <<>> /\ Consuming
      /\ ck' = Snapshot(child)
  BY Zenon DEF Commit, ChainUnchanged, chainVars, Consuming
<1>2. ActorFields \subseteq DOMAIN child
  BY Zenon, ExitFacts
<1>3. /\ ActorFields \subseteq DOMAIN child' /\ child'.row = 0
      /\ child'.todo = <<>> /\ child'.job = child.job
      /\ child'.sweep = child.sweep /\ child'.old = child.old
  BY ZenonT(60), <1>1, <1>2 DEF Commit, ActorFields
<1>4. Reported' /\ Out' = Out /\ Len(box'[Child].rows) \in Nat
  BY ZenonT(60), <1>1, RowsGone
<1>5. Saved /\ Candidates(child') = Candidates(child)
  BY ZenonT(60), <1>1, <1>3 DEF Saved, Snapshot, Candidates
<1>6. /\ child'.old \cup {child'.sweep} \subseteq SweepTxs \cup {NoTx}
      /\ JobOk(child'.job, sc, Mined)
  BY ZenonT(60), <1>3 DEF Exit, Actor
<1>7. TodoOk(child'.todo, sc, Mined, Candidates(child'), TRUE)
  BY Zenon, <1>3, ItemKinds
<1>8. child'.row \in Nat /\ child'.row <= Len(box'[Child].rows)
  BY <1>3, <1>4
<1> QED
  BY ZenonT(60), <1>1, <1>3, <1>4, <1>5, <1>6, <1>7, <1>8,
     SavedActor

-----------------------------------------------------------------------------
\* startSweep: the sweep to submit is staged before it is handed over, and the
\* one it replaces stays a candidate.
LEMMA ChosenOk ==
    ASSUME Exit, Doing("sweep"), NEW tx \in NextSweep, NEW c, c = Chosen(tx)
    PROVE  /\ ActorFields \subseteq DOMAIN c /\ c.job = child.job
           /\ c.row = child.row
           /\ c.old \cup {c.sweep} \subseteq SweepTxs \cup {NoTx}
           /\ Candidates(child) \subseteq Candidates(c)
           /\ TodoOk(c.todo, sc, Mined, Candidates(c), TRUE)
<1>1. /\ ActorFields \subseteq DOMAIN child /\ NoTx \notin SweepTxs
  BY ZenonT(60), ExitFacts
<1>2. /\ child.old \cup {child.sweep} \subseteq SweepTxs \cup {NoTx}
      /\ ck.sweep \in SweepTxs \cup {NoTx}
  BY Zenon DEF Exit, Actor
<1>3. Current \in SweepTxs \cup {NoTx} /\ (child.sweep # NoTx => Current = child.sweep)
  BY Zenon, <1>2 DEF Current
<1>4. tx \in SweepTxs
  <2>1. 1 \in DOMAIN Sweeps
    BY SweepsAssumption
  <2>2. Dearer \subseteq DOMAIN Sweeps
    BY Zenon DEF Dearer
  <2> QED
    BY ZenonT(60), <1>3, <2>1, <2>2 DEF NextSweep, SweepTxs
<1> DEFINE stop == IF child.job.rejected \notin {NoTx, tx}
                   THEN <<Item("cancel", child.job.rejected, NoEvent)>> ELSE <<>>
           it == Item("submit", tx, NoEvent)
<1>5. c = [child EXCEPT !.sweep = tx,
                        !.old = IF MustReprice THEN @ \cup {Current} ELSE @,
                        !.todo = stop \o <<it>> \o Rest]
  BY Zenon DEF Chosen
<1> HIDE DEF stop, it
<1>6. /\ ActorFields \subseteq DOMAIN c /\ c.job = child.job /\ c.row = child.row
      /\ c.sweep = tx /\ c.todo = stop \o <<it>> \o Rest
      /\ c.old = IF MustReprice THEN child.old \cup {Current} ELSE child.old
  BY ZenonT(60), <1>1, <1>5 DEF ActorFields
<1>7. c.old \cup {c.sweep} \subseteq SweepTxs \cup {NoTx}
  BY ZenonT(60), <1>2, <1>3, <1>4, <1>6
<1>8. Candidates(child) \subseteq Candidates(c) /\ tx \in Candidates(c)
  <2>1. child.sweep # NoTx => child.sweep \in c.old \cup {c.sweep}
    BY Zenon, <1>3, <1>6 DEF NextSweep
  <2> QED
    BY ZenonT(60), <1>1, <1>4, <1>6, <2>1 DEF Candidates
<1>9. TodoOk(stop, sc, Mined, Candidates(c), TRUE)
  <2>1. /\ ItemOk(Item("cancel", child.job.rejected, NoEvent), sc, Mined,
                  Candidates(c), TRUE)
        /\ TodoOk(<<>>, sc, Mined, Candidates(c), TRUE)
    BY Zenon, ItemKinds
  <2> QED
    BY Zenon, <2>1, TodoOne DEF stop
<1>10. TodoOk(<<it>>, sc, Mined, Candidates(c), TRUE)
  <2>1. ItemOk(it, sc, Mined, Candidates(c), TRUE)
    BY ZenonT(60), <1>4, <1>8, ItemKinds DEF it
  <2> QED
    BY Zenon, <2>1, TodoOne
<1>11. TodoOk(Rest, sc, Mined, Candidates(c), TRUE)
  <2>1. TodoOk(Rest, sc, Mined, Own, Again)
    BY Zenon, TodoRest DEF Exit, Actor, Rest, Doing
  <2>2. Own \subseteq Candidates(c)
    BY Zenon, <1>8 DEF Own
  <2> QED
    BY ZenonT(60), <2>1, <2>2, TodoGrows
<1>12. TodoOk(stop \o <<it>>, sc, Mined, Candidates(c), TRUE)
  BY ZenonT(60), <1>9, <1>10, TodoCat
<1>13. TodoOk(stop \o <<it>> \o Rest, sc, Mined, Candidates(c), TRUE)
  BY ZenonT(60), <1>11, <1>12, TodoCat
<1> QED
  BY ZenonT(60), <1>6, <1>7, <1>8, <1>13

LEMMA SweepExit ==
    ASSUME Exit, startSweep \/ SweepStageFails
    PROVE  Reported' /\ Actor' /\ Owned'
<1>1. Doing("sweep") /\ child.row > 0
  BY ZenonT(60) DEF startSweep, SweepStageFails, Doing
<1>2. CASE startSweep
  <2>1. Offline /\ sent' = sent
    BY Zenon, <1>2 DEF startSweep, Offline, ChainUnchanged, chainVars
  <2>2. PICK tx \in NextSweep : child' = Chosen(tx) /\ ck' = Snapshot(Chosen(tx))
    BY Zenon, <1>2 DEF startSweep
  <2>3. /\ ActorFields \subseteq DOMAIN child' /\ child'.job = child.job
        /\ child'.row = child.row
        /\ child'.old \cup {child'.sweep} \subseteq SweepTxs \cup {NoTx}
        /\ Candidates(child) \subseteq Candidates(child')
        /\ TodoOk(child'.todo, sc, Mined, Candidates(child'), TRUE)
    BY ZenonT(60), <1>1, <2>2, ChosenOk
  <2>4. Saved
    BY ZenonT(60), <2>2 DEF Saved
  <2>5. /\ JobOk(child'.job, sc, Mined)
        /\ child'.row \in Nat /\ child'.row <= Len(box'[Child].rows)
    BY Zenon, <2>1, <2>3 DEF Offline, Exit, Actor
  <2> QED
    BY ZenonT(60), <2>1, <2>3, <2>4, <2>5, OfflineStep, SavedActor DEF Offline
<1>3. CASE SweepStageFails
  <2>1. UNCHANGED <<sc, mined, pool, tracked, parked, flights, ck, sent>>
    BY Zenon, <1>3 DEF SweepStageFails
  <2>2. PICK tx \in NextSweep : Raise(Chosen(tx), TRUE)
    BY Zenon, <1>3 DEF SweepStageFails
  <2> DEFINE c == Chosen(tx)
  <2>3. /\ ActorFields \subseteq DOMAIN c /\ c.job = child.job
        /\ c.old \cup {c.sweep} \subseteq SweepTxs \cup {NoTx}
        /\ Candidates(child) \subseteq Candidates(c)
    BY Zenon, <1>1, ChosenOk
  <2>4. Raise(c, TRUE)
    BY ZenonT(60), <2>2
  <2> HIDE DEF c
  <2>5. JobOk(c.job, sc, Mined)
    BY Zenon, <2>3 DEF Exit, Actor
  <2> QED
    BY ZenonT(60), <1>1, <2>1, <2>3, <2>4, <2>5, RaiseExit
<1> QED
  BY Zenon, <1>2, <1>3

\* adoptStagedSweep without a better price
LEMMA DeferExit ==
    ASSUME Exit, SweepDeferred
    PROVE  Reported' /\ Actor' /\ Owned'
<1>1. /\ Offline /\ sent' = sent /\ ck' = ck /\ child.todo # <<>>
      /\ child' = [child EXCEPT !.sweep = Current, !.todo = Rest]
  BY Zenon DEF SweepDeferred, Offline, Doing
<1>2. ActorFields \subseteq DOMAIN child
  BY ExitFacts
<1>3. /\ ActorFields \subseteq DOMAIN child' /\ child'.job = child.job
      /\ child'.row = child.row /\ child'.old = child.old
      /\ child'.sweep = Current /\ child'.todo = Rest
  BY ZenonT(60), <1>1, <1>2 DEF ActorFields
<1>4. /\ child.old \cup {child.sweep} \subseteq SweepTxs \cup {NoTx}
      /\ ck.old \cup {ck.sweep} \subseteq SweepTxs \cup {NoTx}
      /\ JobOk(child.job, sc, Mined) /\ JobOk(ck.job, sc, Mined)
      /\ child.row \in Nat /\ child.row <= Len(box[Child].rows)
  BY Zenon DEF Exit, Actor
<1>5. Candidates(child)' = (child.old \cup {Current}) \ {NoTx}
      /\ Candidates(ck)' = Candidates(ck)
  BY Zenon, <1>1, <1>3 DEF Candidates
<1>6. Own \subseteq Own' /\ (Again => Again')
  BY ZenonT(60), <1>1, <1>3, <1>5 DEF Own, Again, Current, Candidates
<1>7. TodoOk(child'.todo, sc, Mined, Own', Again')
  <2>1. TodoOk(Rest, sc, Mined, Own, Again)
    BY Zenon, <1>1, TodoRest DEF Exit, Actor, Rest
  <2> QED
    BY ZenonT(60), <1>3, <1>6, <2>1, TodoGrows
<1>8. Mined \cap SweepTxs \subseteq Own'
  BY ZenonT(60), <1>6 DEF Exit, Owned
<1>9. child'.old \cup {child'.sweep} \subseteq SweepTxs \cup {NoTx}
  BY Zenon, <1>3, <1>4 DEF Current
<1>10. JobOk(child'.job, sc, Mined) /\ JobOk(ck'.job, sc, Mined)
      /\ ck'.old \cup {ck'.sweep} \subseteq SweepTxs \cup {NoTx}
      /\ child'.row \in Nat /\ child'.row <= Len(box'[Child].rows)
  BY ZenonT(60), <1>1, <1>3, <1>4 DEF Offline
<1>11. Reported' /\ Out' = Out
  BY ZenonT(60), <1>1, OfflineStep
<1> QED
  BY ZenonT(60), <1>1, <1>3, <1>6, <1>7, <1>8, <1>9, <1>10, <1>11,
     ActorStep DEF Offline

\* confirmSweepCandidate
LEMMA ConfirmItemsOk ==
    ASSUME NEW S, NEW M, NEW own, NEW again, NEW c, NEW tx, NEW h,
           Candidates(c) \subseteq SweepTxs, tx \in SweepTxs => tx \in M
    PROVE  TodoOk(ConfirmItems(c, tx, h), S, M, own, again)
<1>1. EventOk(Confirmed(tx, h), S, M)
  BY Zenon, EventKinds
<1>2. ItemOk(Handle(Confirmed(tx, h)), S, M, own, again)
  BY ZenonT(60), <1>1, ItemKinds
<1>3. TodoOk(<<Handle(Confirmed(tx, h))>>, S, M, own, again)
  BY ZenonT(60), <1>2, TodoOne
<1>4. ASSUME tx \in Candidates(c)
      PROVE  TodoOk(<<Drive(Broadcasted(tx)), Handle(Confirmed(tx, h))>>, S, M,
                    own, again)
  <2>1. EventOk(Broadcasted(tx), S, M)
    BY Zenon, <1>4, EventKinds
  <2>2. ItemOk(Drive(Broadcasted(tx)), S, M, own, again)
    BY Zenon, <2>1, ItemKinds
  <2> QED
    BY ZenonT(60), <1>2, <2>2, TodoTwo
<1>5. TodoOk(<<>>, S, M, own, again)
  BY Zenon, ItemKinds
<1> QED
  BY ZenonT(60), <1>3, <1>4, <1>5 DEF ConfirmItems

\* handleSpendObserved: with every mined sweep a candidate, a spend that is
\* neither the proof's nor a candidate's is foreign.
LEMMA SpendItemsOk ==
    ASSUME Exit, NEW own, NEW again, NEW c, Candidates(c) = Candidates(child),
           NEW m, m.kind = "spend", Credible(m, sc, Mined)
    PROVE  TodoOk(SpendItems(c, m), sc, Mined, own, again)
<1> DEFINE parent == IF m.op \in p.nodes \ {p.target}
                     THEN <<Drive(Confirmed(m.op, m.height))>> ELSE <<>>
           conflict == m.op \in RootExternalInputs(p)
<1>1. /\ Candidates(child) \subseteq SweepTxs /\ sc.proof.nodes \cap SweepTxs = {}
  BY ZenonT(60), ExitFacts
<1>2. /\ m.tx \in Mined /\ m.op \in Spends(sc, m.tx)
      /\ m.tx \in SweepTxs \cup sc.proof.nodes \cup DOMAIN sc.foreign
  BY Zenon DEF Credible
<1>3. TodoOk(<<>>, sc, Mined, own, again)
  BY ZenonT(60), ItemKinds
<1>4. TodoOk(parent, sc, Mined, own, again)
  <2>1. CASE m.op \in p.nodes
    <3>1. EventOk(Confirmed(m.op, m.height), sc, Mined)
      BY ZenonT(60), <1>1, <2>1, EventKinds DEF p
    <3>2. ItemOk(Drive(Confirmed(m.op, m.height)), sc, Mined, own, again)
      BY ZenonT(60), <3>1, ItemKinds
    <3> QED
      BY ZenonT(60), <1>3, <3>2, TodoOne
  <2>2. CASE m.op \notin p.nodes
    BY ZenonT(60), <1>3, <2>2
  <2> QED
    BY ZenonT(60), <2>1, <2>2
<1>5. /\ TodoOk(<<Drive(Confirmed(m.tx, m.height))>>, sc, Mined, own, again)
      /\ TodoOk(<<Handle(Confirmed(m.tx, m.height))>>, sc, Mined, own, again)
  <2>1. EventOk(Confirmed(m.tx, m.height), sc, Mined)
    BY Zenon, <1>2, EventKinds
  <2>2. /\ ItemOk(Drive(Confirmed(m.tx, m.height)), sc, Mined, own, again)
        /\ ItemOk(Handle(Confirmed(m.tx, m.height)), sc, Mined, own, again)
    BY ZenonT(60), <2>1, ItemKinds
  <2> QED
    BY Zenon, <2>2, TodoOne
<1>6. TodoOk(ConfirmItems(c, m.tx, m.height), sc, Mined, own, again)
  BY ZenonT(60), <1>1, <1>2, ConfirmItemsOk
<1>7. ASSUME m.tx \notin sc.proof.nodes, m.tx \notin Candidates(c)
      PROVE  TodoOk(<<Handle(Fail(conflict))>>, sc, Mined, own, again)
  <2>1. m.tx \notin SweepTxs
    BY ZenonT(60), <1>2, <1>7 DEF Exit, Owned, Own
  <2>2. m.tx \in DOMAIN sc.foreign /\ m.op \in sc.foreign[m.tx]
    BY ZenonT(60), <1>2, <1>7, <2>1 DEF Spends
  <2>3. ForeignIn(sc, Mined) /\ (conflict => TakenIn(sc, Mined))
    BY Zenon, <1>2, <2>2 DEF ForeignIn, TakenIn, p
  <2>4. EventOk(Fail(conflict), sc, Mined)
    BY Zenon, <2>3 DEF EventOk, Fail, Kinds
  <2> HIDE DEF conflict
  <2>5. ItemOk(Handle(Fail(conflict)), sc, Mined, own, again)
    BY ZenonT(60), <2>4, ItemKinds
  <2> QED
    BY ZenonT(60), <2>5, TodoOne
<1>8. \/ SpendItems(c, m) = <<>>
      \/ SpendItems(c, m) = parent \o <<Drive(Confirmed(m.tx, m.height))>>
      \/ SpendItems(c, m) = parent \o <<Handle(Confirmed(m.tx, m.height))>>
      \/ SpendItems(c, m) = ConfirmItems(c, m.tx, m.height)
      \/ /\ SpendItems(c, m) = parent \o <<Handle(Fail(conflict))>>
         /\ ~Terminal(p, c.job) /\ m.tx \notin p.nodes /\ ~OwnSweep(c, m.tx)
  <2> DEFINE over == Terminal(p, c.job)
             node == m.tx \in p.nodes
             ours == OwnSweep(c, m.tx)
             report == IF parent # <<>>
                       THEN <<Drive(Confirmed(m.tx, m.height))>>
                       ELSE <<Handle(Confirmed(m.tx, m.height))>>
             confirm == ConfirmItems(c, m.tx, m.height)
             fail == parent \o <<Handle(Fail(conflict))>>
             items == SpendItems(c, m)
  <2>1. items = CASE over -> <<>> [] ~over /\ node -> parent \o report
                  [] ~over /\ ours -> confirm [] OTHER -> fail
    BY Zenon DEF SpendItems
  <2>2. \/ report = <<Drive(Confirmed(m.tx, m.height))>>
        \/ report = <<Handle(Confirmed(m.tx, m.height))>>
    BY Zenon
  <2> HIDE DEF over, node, ours, report, confirm, fail, parent, items
  <2>3. \/ items \in {<<>>, parent \o report, confirm}
        \/ items = fail /\ ~over /\ ~node /\ ~ours
    BY ZenonT(60), <2>1
  <2> USE DEF over, node, ours, confirm, fail, items
  <2> QED
    BY ZenonT(60), <2>2, <2>3
<1> HIDE DEF parent, conflict
<1>9. CASE /\ SpendItems(c, m) = parent \o <<Handle(Fail(conflict))>>
           /\ ~Terminal(p, c.job) /\ m.tx \notin p.nodes /\ ~OwnSweep(c, m.tx)
  BY ZenonT(60), <1>4, <1>7, <1>9, TodoCat DEF OwnSweep, p
<1> QED
  BY ZenonT(60), <1>3, <1>4, <1>5, <1>6, <1>8, <1>9, TodoCat

\* dispatch: the events of a message.
LEMMA ItemsForOk ==
    ASSUME Exit, NEW own, NEW again, NEW c, Candidates(c) = Candidates(child),
           NEW m, Credible(m, sc, Mined)
    PROVE  TodoOk(ItemsFor(c, m), sc, Mined, own, again)
<1>1. ASSUME NEW e, EventOk(e, sc, Mined)
      PROVE  TodoOk(<<Handle(e)>>, sc, Mined, own, again)
  BY ZenonT(60), <1>1, ItemKinds, TodoOne
<1>2. TodoOk(<<>>, sc, Mined, own, again)
  BY Zenon, ItemKinds
<1>3. /\ EventOk(Resume(m.height), sc, Mined)
      /\ EventOk([kind |-> "start", height |-> m.height, fraud |-> sc.fraud],
                 sc, Mined)
      /\ EventOk([kind |-> "height", height |-> m.height], sc, Mined)
      /\ EventOk(Failed(m.tx, m.class, c.old # {}), sc, Mined)
  BY Zenon, EventKinds
<1>4. CASE m.kind = "start"
  BY ZenonT(60), <1>1, <1>3, <1>4 DEF ItemsFor
<1>5. CASE m.kind = "resume"
  BY ZenonT(60), <1>1, <1>3, <1>5 DEF ItemsFor
<1>6. CASE m.kind = "height"
  BY ZenonT(60), <1>1, <1>3, <1>6 DEF ItemsFor
<1>7. CASE m.kind \in {"confirmed", "finalized"}
  <2>1. ItemsFor(c, m) = ConfirmItems(c, m.tx, m.height)
    BY Zenon, <1>7 DEF ItemsFor
  <2>2. m.tx \in SweepTxs => m.tx \in Mined
    BY ZenonT(60), <1>7 DEF Credible, Truthful, Final
  <2>3. Candidates(c) \subseteq SweepTxs
    BY ZenonT(60), ExitFacts
  <2> QED
    BY ZenonT(60), <2>1, <2>2, <2>3, ConfirmItemsOk
<1>8. CASE m.kind = "failed"
  <2>1. \/ ItemsFor(c, m) = <<>>
        \/ ItemsFor(c, m) = <<Handle(Failed(m.tx, m.class, c.old # {}))>>
    BY Zenon, <1>8 DEF ItemsFor
  <2> QED
    BY ZenonT(60), <1>1, <1>2, <1>3, <2>1
<1>9. CASE m.kind = "spend"
  <2>1. ItemsFor(c, m) = SpendItems(c, m)
    BY ZenonT(60), <1>9 DEF ItemsFor
  <2> QED
    BY ZenonT(60), <1>9, <2>1, SpendItemsOk
<1> QED
  BY ZenonT(60), <1>4, <1>5, <1>6, <1>7, <1>8, <1>9 DEF Credible, Reliable

LEMMA DispatchExit ==
    ASSUME Exit, Dispatch
    PROVE  Reported' /\ Actor' /\ Owned'
<1>1. /\ Offline /\ sent' = sent /\ ck' = ck
      /\ child.todo # <<>> /\ child.row > 0
  BY Zenon DEF Dispatch, Offline, ChainUnchanged, chainVars, Doing
<1> DEFINE c == Loaded(child)
           m == Msg
<1>2. /\ ActorFields \subseteq DOMAIN child /\ Child \in Keepers
      /\ Len(box[Child].rows) \in Nat /\ Candidates(child) \subseteq SweepTxs
  BY Zenon, ExitFacts
<1>3. child' = [c EXCEPT !.sweep = Selected(c, m), !.todo = ItemsFor(c, m) \o Rest]
  BY Zenon DEF Dispatch
<1>4. Alike(child, c)
  BY ZenonT(60), <1>2, ArmedAlike
<1>5. Credible(m, sc, Mined)
  <2>1. child.row \in Nat /\ child.row <= Len(box[Child].rows)
    BY Zenon DEF Exit, Actor
  <2>2. child.row \in 1 .. Len(box[Child].rows)
    BY <1>1, <1>2, <2>1
  <2> QED
    BY ZenonT(60), <1>2, <2>2 DEF Exit, Reported, Boxed, Msg
<1> HIDE DEF c, m
<1>6. Candidates(c) = Candidates(child)
  BY Zenon, <1>4 DEF Alike, Candidates
<1>7. /\ ActorFields \subseteq DOMAIN child' /\ child'.job = child.job
      /\ child'.row = child.row /\ child'.old = child.old
      /\ child'.sweep = Selected(c, m) /\ child'.todo = ItemsFor(c, m) \o Rest
  BY ZenonT(60), <1>3, <1>4 DEF Alike, ActorFields
<1>8. \/ Selected(c, m) = child.sweep
      \/ /\ Selected(c, m) = m.tx /\ m.tx \in Candidates(child)
         /\ m.kind \in {"confirmed", "finalized", "spend"}
  BY ZenonT(60), <1>4, <1>6 DEF Selected, Alike
<1>9. CASE Selected(c, m) = child.sweep
  <2>1. TodoOk(ItemsFor(c, m), sc, Mined, Own, Again)
    BY ZenonT(60), <1>5, <1>6, ItemsForOk
  <2> DEFINE q == ItemsFor(c, m)
  <2>2. Onward(q)
    BY ZenonT(60), <1>1, <1>7, <1>9 DEF Onward, SameSweep, Rest
  <2> HIDE DEF q
  <2>3. TodoOk(q, sc, Mined, Own, Again)
    BY ZenonT(60), <2>1 DEF q
  <2> QED
    BY ZenonT(60), <1>1, <2>2, <2>3, OfflineStep, OnwardActor DEF Offline
<1>10. CASE /\ Selected(c, m) = m.tx /\ m.tx \in Candidates(child)
            /\ m.kind \in {"confirmed", "finalized", "spend"}
  <2>1. m.tx \in SweepTxs /\ m.tx \in Mined
    BY ZenonT(60), <1>2, <1>5, <1>10 DEF Credible, Truthful, Final
  <2>2. SweptIn(Mined)
    BY ZenonT(60), <2>1 DEF SweptIn
  <2>3. Mined \cap SweepTxs \subseteq {m.tx}
    BY ZenonT(60), <2>1 DEF Exit, Owned
  <2>4. m.tx \in Candidates(ck) /\ m.tx # NoTx
    BY ZenonT(60), <2>1 DEF Exit, Owned, Own, Candidates
  <2>5. m.tx \in Own'
    BY ZenonT(60), <1>1, <1>7, <1>10, <2>4 DEF Own, Candidates
  <2>6. TodoOk(Rest, sc, Mined, Own', Again')
    <3>1. TodoOk(Rest, sc, Mined, Own, Again)
      BY Zenon, <1>1, TodoRest DEF Exit, Actor, Rest
    <3> QED
      BY ZenonT(60), <2>2, <3>1, TodoGrows
  <2>7. TodoOk(ItemsFor(c, m), sc, Mined, Own', Again')
    BY ZenonT(60), <1>5, <1>6, ItemsForOk
  <2>8. TodoOk(child'.todo, sc, Mined, Own', Again')
    BY ZenonT(60), <1>7, <2>6, <2>7, TodoCat
  <2>9. /\ child'.old \cup {child'.sweep} \subseteq SweepTxs \cup {NoTx}
        /\ ck'.old \cup {ck'.sweep} \subseteq SweepTxs \cup {NoTx}
        /\ JobOk(child'.job, sc, Mined) /\ JobOk(ck'.job, sc, Mined)
        /\ child'.row \in Nat /\ child'.row <= Len(box'[Child].rows)
    BY ZenonT(60), <1>1, <1>7, <1>10, <2>1 DEF Exit, Actor, Offline
  <2> QED
    BY ZenonT(60), <1>1, <1>7, <2>2, <2>3, <2>5, <2>8, <2>9, OfflineStep,
       ActorStep
    DEF Offline
<1> QED
  BY ZenonT(60), <1>8, <1>9, <1>10

-----------------------------------------------------------------------------
\* The chain source tells the job.
LEMMA EventsExit ==
    ASSUME Exit, JobEvents
    PROVE  Reported' /\ Actor' /\ Owned'
<1>1. /\ UNCHANGED <<sc, mined, pool, tracked, parked, flights, ck, sent>>
      /\ box[Child].rows = <<>>
  BY Zenon DEF JobEvents, HeightObserved, SpendObserved, CheckpointObserved,
         ChainUnchanged, chainVars
<1>2. /\ ActorFields \subseteq DOMAIN child /\ Child \in Keepers
  BY Zenon, ExitFacts
<1>3. /\ ActorFields \subseteq DOMAIN child' /\ child'.job = child.job
      /\ child'.sweep = child.sweep /\ child'.old = child.old
      /\ child'.row = child.row /\ child'.todo = child.todo
  BY ZenonT(60), <1>2
  DEF JobEvents, HeightObserved, SpendObserved, CheckpointObserved,
              ActorFields
<1>4. \E m : Credible(m, sc, Mined) /\ box' = [box EXCEPT ![Child] = Post(@, NoId, m)]
  <2>1. CASE HeightObserved
    <3>1. Credible(HeightMsg, sc, Mined)
      BY ZenonT(60) DEF HeightMsg, Credible, Truthful, Final
    <3> QED
      BY ZenonT(60), <2>1, <3>1 DEF HeightObserved, Append1
  <2>2. ASSUME NEW op, NEW tx \in Spenders(op) PROVE Credible(SpendMsg(op, tx), sc, Mined)
    <3>1. /\ tx \in Mined /\ op \in Spends(sc, tx)
          /\ tx \in SweepTxs \cup sc.proof.nodes \cup DOMAIN sc.foreign
      BY Zenon, <2>2 DEF Spenders, Known, Inputs, Spends, Mined
    <3> QED
      BY ZenonT(60), <3>1 DEF SpendMsg, Credible, Truthful, Final
  <2>3. CASE \E op \in Outpoints : SpendObserved(op)
    BY ZenonT(60), <2>2, <2>3 DEF SpendObserved, Append1
  <2>4. ASSUME NEW tx, mined[tx] > 0 PROVE Credible(ConfMsg(tx), sc, Mined)
    <3>1. tx \in SweepTxs => tx \in Mined
      BY ZenonT(60), <2>4, SweepsAreTxs DEF Mined
    <3> QED
      BY Zenon, <3>1 DEF ConfMsg, Credible, Truthful, Final, Reliable
  <2>5. CASE \E tx \in child.cwatch : CheckpointObserved(tx)
    BY Zenon, <2>4, <2>5 DEF CheckpointObserved, Append1
  <2> QED
    BY ZenonT(60), <2>1, <2>3, <2>5 DEF JobEvents
<1>5. PICK m : Credible(m, sc, Mined) /\ box' = [box EXCEPT ![Child] = Post(@, NoId, m)]
  BY Zenon, <1>4
<1>6. Mailed(box') /\ Len(box'[Child].rows) \in Nat
  BY ZenonT(60), <1>2, <1>5, Mailing DEF Exit
<1>7. Mined' = Mined /\ Out' = Out
  BY ZenonT(60), <1>1 DEF Mined, Out
<1>8. Reported'
  BY ZenonT(60), <1>1, <1>6, <1>7, ReportsStay DEF Exit
<1>9. child.row = 0 /\ JobOk(child.job, sc, Mined)
      /\ TodoOk(child.todo, sc, Mined, Own, Again)
  BY <1>1 DEF Exit, Actor
<1>10. child'.row \in Nat /\ child'.row <= Len(box'[Child].rows)
  BY <1>3, <1>6, <1>9
<1> QED
  BY ZenonT(60), <1>1, <1>3, <1>6, <1>7, <1>8, <1>9, <1>10, QuietActor
     DEF SameSweep

=============================================================================
