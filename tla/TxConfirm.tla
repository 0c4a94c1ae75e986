----------------------------- MODULE TxConfirm ------------------------------
(***************************************************************************)
(* The broadcaster actor of package txconfirm: one tracked entry per       *)
(* transaction, any number of subscribers to it, and a notification        *)
(* lifecycle TxConfirmed (TxReorged TxConfirmed)* (TxFinalized | TxFailed).*)
(*                                                                         *)
(* The first TxConfirmed and both terminal notifications are reliable: the *)
(* actor tells the subscriber and waits for a bounded time.  A slow tell   *)
(* is parked: it goes on in a goroutine and reports back to the actor as a *)
(* message.  Every other notification is sent by a goroutine and           *)
(* forgotten.  Reliable tells carry an id that is the same for every tell  *)
(* of that kind, transaction and subscriber, and a durable mailbox keeps   *)
(* only one message of an id.                                              *)
(*                                                                         *)
(* Fee bumping is a rebroadcast here, and the retry interval is one block, *)
(* so every entry is eligible at every block.  The chain watch of an entry *)
(* reports the chain as it is when the actor handles the report.           *)
(***************************************************************************)
EXTENDS ExitChain

CONSTANTS
    Subs,          \* the subscribers
    Wanted         \* the notifications each one keeps in its mailbox

VARIABLES
    tracked,       \* the entry of each transaction
    parked,        \* parked reliable tells, and how far each one is
    flights,       \* goroutines that carry a reversible notification
    best,          \* the height the actor knows
    tick,          \* entries the current block still has to visit
    box,           \* the durable mailbox of each subscriber
    closed,        \* subscribers whose mailbox is closed
    heard          \* history: the last notification each subscriber was told,
                   \* "missed" when a later tell to it failed, or "late"
                   \* when it joined after the end

confirmVars == <<tracked, parked, flights, best, tick, box, closed, heard>>

Untracked == [st |-> "none", subs |-> {}, owed |-> {}, height |-> 0,
              class |-> ""]
States == {"none", "broadcasting", "awaiting", "confirmed", "finalized",
           "failed"}
isTerminal(st) == st \in {"finalized", "failed"}

---------------------------------------------------------------------------
(* Notifications.  A reliable one has a stable id, a reversible one none.  *)

Note(kind, tx, e) == [kind |-> kind, tx |-> tx, height |-> e.height,
                      class |-> IF kind = "failed" THEN e.class ELSE ""]
NoId == <<>>
terminalNotifyKey(kind, tx) == <<kind, tx>>

(* Durable enqueue: a message whose id was ever accepted is not repeated. *)
Post(b, id, note) ==
    IF id # NoId /\ id \in b.ids THEN b
    ELSE [rows |-> Append(b.rows, [id |-> id, late |-> FALSE, msg |-> note]),
          ids |-> IF id = NoId THEN b.ids ELSE b.ids \cup {id}]

Delivered(b, s, note, reliable) ==
    IF note.kind \in Wanted[s]
    THEN Post(b, IF reliable THEN terminalNotifyKey(note.kind, note.tx)
                             ELSE NoId, note)
    ELSE b

(* Tell everyone in "who" the same reliable note. *)
Boxes(who, note) ==
    [s \in Subs |-> IF s \in who THEN Delivered(box[s], s, note, TRUE)
                                 ELSE box[s]]
Heard(who, note) ==
    [s \in Subs |-> IF s \in who THEN [heard[s] EXCEPT ![note.tx] = note.kind]
                                 ELSE heard[s]]

(* A subscriber that joins an entry that has ended, before it is told. *)
Late(s, tx) == [heard EXCEPT ![s][tx] = IF @ = "none" THEN "late" ELSE @]
(* One that is not told what comes next. *)
Missed(s, tx) == [heard EXCEPT ![s][tx] = IF @ = "none" THEN @ ELSE "missed"]

(* notifyOneTerminal: what becomes of a reliable tell to each of "who",    *)
(* when the tells to "slow" do not return in time.                         *)
IsParked(kind, tx, s) ==
    \E k \in parked : k.note.kind = kind /\ k.note.tx = tx /\ k.sub = s
Stopped(kind, tx, who) == {s \in who \cap closed : ~IsParked(kind, tx, s)}
Landed(kind, tx, who, slow) ==
    {s \in who \ (closed \cup slow) : ~IsParked(kind, tx, s)}
Parked(kind, tx, e, who, slow) ==
    {[note |-> Note(kind, tx, e), sub |-> s, told |-> "no"] :
        s \in {t \in (who \cap slow) \ closed : ~IsParked(kind, tx, t)}}

(* A slow tell is a fault of the subscriber's mailbox. *)
Slowness(slow) == IF slow = {} THEN {} ELSE {"slow"}

(* A terminal entry nobody waits for is evicted; a live one goes with its  *)
(* last subscriber.                                                        *)
Kept(e) == IF e.subs = {} THEN Untracked ELSE e

Without(e, gone) == IF gone = {} THEN e
                    ELSE Kept([e EXCEPT !.subs = @ \ gone, !.owed = @ \ gone])

(* notifyReversibleAsync *)
Fly(kind, tx, e, who) ==
    {[note |-> Note(kind, tx, e), sub |-> s, checked |-> FALSE] : s \in who}

(* Sealing drops the goroutines that have not passed the seal check yet. *)
Sealed(tx) == {f \in flights : f.note.tx # tx \/ f.checked}

---------------------------------------------------------------------------
(* notifyConfirmed: reliable to those owed their first TxConfirmed,        *)
(* reversible to the others.                                               *)
notifyConfirmed(tx, e, slow) ==
    LET note == Note("confirmed", tx, e)
        landed == Landed("confirmed", tx, e.owed, slow)
        gone == Stopped("confirmed", tx, e.owed)
    IN  /\ slow \subseteq e.owed
        /\ tracked' = [tracked EXCEPT ![tx] =
                Without([e EXCEPT !.owed = @ \ landed], gone)]
        /\ parked' = parked \cup Parked("confirmed", tx, e, e.owed, slow)
        /\ flights' = flights \cup Fly("confirmed", tx, e, e.subs \ e.owed)
        /\ box' = Boxes(landed, note)
        /\ heard' = Heard(landed, note)

(* retryConfirmedRedelivery: only those still owed. *)
retryConfirmed(tx, e, slow) ==
    LET note == Note("confirmed", tx, e)
        landed == Landed("confirmed", tx, e.owed, slow)
        gone == Stopped("confirmed", tx, e.owed)
    IN  /\ slow \subseteq e.owed
        /\ tracked' = [tracked EXCEPT ![tx] =
                Without([e EXCEPT !.owed = @ \ landed], gone)]
        /\ parked' = parked \cup Parked("confirmed", tx, e, e.owed, slow)
        /\ box' = Boxes(landed, note)
        /\ heard' = Heard(landed, note)
        /\ UNCHANGED flights

(* Mutant: the reorg goes to every subscriber. *)
notifyReorged_all(tx, e) ==
    flights' = flights \cup Fly("reorged", tx, e, e.subs)

(* notifyReorged: a subscriber still owed TxConfirmed hears nothing. *)
notifyReorged(tx, e) ==
    flights' = flights \cup Fly("reorged", tx, e, e.subs \ e.owed)

(* notifyFinalized: an owed TxConfirmed first, then TxFinalized; "held"    *)
(* are those of "slow" whose TxConfirmed is the slow one.                  *)
notifyFinalizedTo(tx, e, slow, held) ==
    LET conf == Landed("confirmed", tx, e.owed, held)
        gone == Stopped("confirmed", tx, e.owed)
                    \cup Stopped("finalized", tx, e.subs \ e.owed)
        ready == (e.subs \ e.owed) \cup conf
        fin == Landed("finalized", tx, ready, slow)
        first == Boxes(conf, Note("confirmed", tx, e))
    IN  /\ slow \subseteq e.subs
        /\ tracked' = [tracked EXCEPT ![tx] =
                Kept([e EXCEPT !.owed = @ \ (conf \cup gone),
                               !.subs = @ \ (fin \cup gone)])]
        /\ parked' = parked
                \cup Parked("confirmed", tx, e, e.owed, held)
                \cup Parked("finalized", tx, e, ready, slow)
        /\ flights' = Sealed(tx)
        /\ box' = [s \in Subs |->
                IF s \in fin
                THEN Delivered(first[s], s, Note("finalized", tx, e), TRUE)
                ELSE first[s]]
        /\ heard' = [s \in Subs |->
                IF s \in fin THEN [heard[s] EXCEPT ![tx] = "finalized"]
                ELSE IF s \in conf THEN [heard[s] EXCEPT ![tx] = "confirmed"]
                ELSE heard[s]]
notifyFinalized(tx, e, slow) ==
    \E held \in SUBSET (slow \cap e.owed) :
        notifyFinalizedTo(tx, e, slow, held)

notifyFailed(tx, e, slow) ==
    LET note == Note("failed", tx, e)
        landed == Landed("failed", tx, e.subs, slow)
        gone == Stopped("failed", tx, e.subs)
    IN  /\ slow \subseteq e.subs
        /\ tracked' = [tracked EXCEPT ![tx] =
                Kept([e EXCEPT !.subs = @ \ (landed \cup gone)])]
        /\ parked' = parked \cup Parked("failed", tx, e, e.subs, slow)
        /\ flights' = Sealed(tx)
        /\ box' = Boxes(landed, note)
        /\ heard' = Heard(landed, note)

---------------------------------------------------------------------------
(* Broadcasting.  A proof transaction has an anchor and only a structural  *)
(* rejection fails it; a sweep is a direct broadcast that asks to be       *)
(* retried, and an explicit fee or permanent rejection fails it.  What the *)
(* backend already knows is accepted again.                                *)

KnownToBackend(tx) == tx \in pool \/ mined[tx] > 0
Rejections(tx) == IF tx \in SweepTxs THEN {"fee", "permanent"}
                                     ELSE {"structural"}

(* The outcome "res" of handing tx to the backend, and the mempool after. *)
Broadcast(tx, res) ==
    /\ CASE KnownToBackend(tx) -> res = "ok"
         [] ~KnownToBackend(tx) /\ Valid(tx) ->
                res \in {"ok", "unknown"} \cup Rejections(tx)
         [] OTHER -> res = "unknown"
    /\ pool' = IF res = "ok" /\ mined[tx] = 0
               THEN {t \in pool : ~Conflicts(t, tx)} \cup {tx}
               ELSE pool

(* Every outcome but acceptance of a valid transaction is a fault. *)
Refusal(tx, res) ==
    IF Valid(tx) /\ ~KnownToBackend(tx) /\ res # "ok" THEN {res} ELSE {}

(* recordInitialBroadcastOutcome, for an entry e that is still             *)
(* broadcasting.                                                           *)
recordOutcome(tx, e, res, slow) ==
    IF res \in Rejections(tx)
    THEN notifyFailed(tx, [e EXCEPT !.st = "failed", !.class = res], slow)
    ELSE /\ tracked' = [tracked EXCEPT ![tx] =
                [e EXCEPT !.st = IF res = "ok" THEN "awaiting"
                                               ELSE "broadcasting"]]
         /\ slow = {}
         /\ UNCHANGED <<parked, flights, box, heard>>

---------------------------------------------------------------------------
(* handleEnsure: a new entry is broadcast; a subscriber that joins one is  *)
(* attached, and what the entry already knows is replayed to it.           *)

ensureNew(tx, s, res, slow) ==
    /\ tracked[tx].st = "none"
    /\ Broadcast(tx, res)
    /\ recordOutcome(tx, [Untracked EXCEPT !.st = "broadcasting",
                              !.subs = {s}, !.owed = {s}], res, slow)
    /\ Charge(Refusal(tx, res) \cup Slowness(slow))

(* A state that has a notification is called like it. *)
attachExisting(tx, s, slow) ==
    LET e == tracked[tx]
        note == Note(e.st, tx, e)
        landed == Landed(e.st, tx, {s}, slow)
        gone == Stopped(e.st, tx, {s})
        owing == [e EXCEPT !.subs = @ \cup {s}, !.owed = @ \cup {s}]
        paid == [e EXCEPT !.subs = @ \cup {s}, !.owed = @ \ {s}]
    IN  /\ \/ /\ e.st \in {"broadcasting", "awaiting"} /\ slow = {}
              /\ tracked' = [tracked EXCEPT ![tx] = owing]
              /\ UNCHANGED <<parked, box, heard>>
           \/ /\ e.st \in {"confirmed", "finalized", "failed"}
              /\ slow \subseteq {s}
              /\ parked' = parked \cup Parked(e.st, tx, e, {s}, slow)
              /\ box' = Boxes(landed, note)
              /\ \/ /\ s \in gone
                    /\ UNCHANGED <<tracked, heard>>
                 \/ /\ s \in landed
                    /\ tracked' = [tracked EXCEPT ![tx] =
                                IF isTerminal(e.st) THEN e ELSE paid]
                    /\ heard' = Heard(landed, note)
                 \/ /\ s \notin gone \cup landed
                    /\ tracked' = [tracked EXCEPT ![tx] =
                                IF e.st = "finalized" THEN paid ELSE owing]
                    /\ heard' = IF isTerminal(e.st) THEN Late(s, tx)
                                                    ELSE heard
        /\ Charge(Slowness(slow))
        /\ UNCHANGED <<pool, flights>>

(* The state the caller is answered with. *)
EnsureFailed(tx, res) ==
    IF tracked[tx].st = "none" THEN res \in Rejections(tx)
                               ELSE tracked[tx].st = "failed"

handleEnsure(tx, s, res, slow) ==
    /\ tick = {}
    /\ \/ ensureNew(tx, s, res, slow)
       \/ res = "ok" /\ attachExisting(tx, s, slow)
    /\ UNCHANGED <<sc, height, mined, best, tick, closed>>

(* handleCancel: the last subscriber takes the entry with it. *)
Cancelled(e, s) == Without(e, {s})
handleCancel(tx, s) ==
    /\ tick = {}
    /\ tracked' = [tracked EXCEPT ![tx] = Cancelled(@, s)]

---------------------------------------------------------------------------
(* Chain reports. *)

Live(tx) == tracked[tx].st \in {"broadcasting", "awaiting"}

handleConfirmationObserved(tx, slow) ==
    /\ tick = {}
    /\ mined[tx] > 0 /\ Live(tx)
    /\ notifyConfirmed(tx, [tracked[tx] EXCEPT !.st = "confirmed",
                                               !.height = mined[tx]], slow)
    /\ Charge(Slowness(slow))
    /\ UNCHANGED <<sc, height, mined, pool, best, tick, closed>>

handleConfirmationReorged(tx) ==
    /\ tick = {}
    /\ tracked[tx].st = "confirmed" /\ mined[tx] # tracked[tx].height
    /\ tracked' = [tracked EXCEPT ![tx].st = "awaiting"]
    /\ notifyReorged(tx, tracked[tx])
    /\ UNCHANGED <<chainVars, parked, best, tick, box, closed, heard>>

handleConfirmationDone(tx, slow) ==
    /\ tick = {}
    /\ tracked[tx].st = "confirmed" /\ mined[tx] = tracked[tx].height
    /\ height >= mined[tx] + sc.final - 1
    /\ notifyFinalized(tx, [tracked[tx] EXCEPT !.st = "finalized"], slow)
    /\ Charge(Slowness(slow))
    /\ UNCHANGED <<sc, height, mined, pool, best, tick, closed>>

(* handleBlockObserved visits every entry; nothing else is handled until   *)
(* it is through.                                                          *)
BlockObserved ==
    /\ tick = {} /\ best < height
    /\ best' = height
    /\ tick' = {tx \in Txs : tracked[tx].st # "none"}
    /\ UNCHANGED <<chainVars, tracked, parked, flights, box, closed, heard>>

Visit(tx, res, slow) ==
    LET e == tracked[tx]
    IN  /\ tx \in tick /\ tick' = tick \ {tx}
        /\ \/ /\ e.st = "broadcasting"
              /\ Broadcast(tx, res)
              /\ recordOutcome(tx, e, res, slow)
              /\ Charge(Refusal(tx, res) \cup Slowness(slow))
           \/ /\ e.st = "awaiting"      \* a fee bump, whatever becomes of it
              /\ slow = {} /\ res = IF Valid(tx) THEN "ok" ELSE "unknown"
              /\ pool' = IF res = "ok"
                         THEN {t \in pool : ~Conflicts(t, tx)} \cup {tx}
                         ELSE pool
              /\ UNCHANGED <<faults, tracked, parked, flights, box, heard>>
           \/ /\ e.st \in {"confirmed", "finalized", "failed"}
              /\ res = "ok"
              /\ CASE e.st = "confirmed" -> retryConfirmed(tx, e, slow)
                   [] e.st = "finalized" -> notifyFinalized(tx, e, slow)
                   [] e.st = "failed" -> notifyFailed(tx, e, slow)
              /\ Charge(Slowness(slow))
              /\ UNCHANGED pool
        /\ UNCHANGED <<sc, height, mined, best, closed>>

---------------------------------------------------------------------------
(* Parked tells and goroutines. *)

(* The goroutine of a parked tell returns: the note is in the mailbox, or  *)
(* the mailbox was closed.                                                 *)
ParkedReturns(k) ==
    /\ k \in parked /\ k.told = "no"
    /\ parked' = (parked \ {k}) \cup
            {[k EXCEPT !.told = IF k.sub \in closed THEN "stopped" ELSE "yes"]}
    /\ box' = Boxes({k.sub} \ closed, k.note)
    /\ heard' = Heard({k.sub} \ closed, k.note)
    /\ UNCHANGED <<chainVars, tracked, flights, best, tick, closed>>

(* Mutant: the late TxConfirmed is not followed by the reorg it missed. *)
ParkedResult_silent(k) ==
    LET e == tracked[k.note.tx]
    IN  /\ tick = {}
        /\ k \in parked /\ k.told # "no"
        /\ parked' = parked \ {k}
        /\ tracked' = [tracked EXCEPT ![k.note.tx] =
                IF k.note.kind = "confirmed"
                THEN [e EXCEPT !.owed = @ \ {k.sub}]
                ELSE Cancelled(e, k.sub)]
        /\ UNCHANGED <<chainVars, flights, best, tick, box, closed, heard>>

(* handleTerminalNotifyResult: the actor learns of it. *)
ParkedResult(k) ==
    LET e == tracked[k.note.tx]
        clear == [e EXCEPT !.owed = @ \ {k.sub}]
        after == CASE k.told = "stopped" -> Cancelled(e, k.sub)
                   [] k.told = "yes" /\ k.note.kind = "confirmed" -> clear
                   [] OTHER -> [clear EXCEPT !.subs = @ \ {k.sub}]
    IN  /\ tick = {}
        /\ k \in parked /\ k.told # "no"
        /\ parked' = parked \ {k}
        /\ tracked' = [tracked EXCEPT ![k.note.tx] =
                IF isTerminal(after.st) THEN Kept(after) ELSE after]
        /\ flights' = IF /\ k.told = "yes" /\ k.note.kind = "confirmed"
                         /\ k.sub \in e.subs /\ Live(k.note.tx)
                      THEN flights \cup Fly("reorged", k.note.tx, e, {k.sub})
                      ELSE flights
        /\ UNCHANGED <<chainVars, best, tick, box, closed, heard>>

(* A goroutine looks at the seal, and then tells. *)
FlightChecks(f) ==
    /\ f \in flights /\ ~f.checked
    /\ flights' = (flights \ {f}) \cup {[f EXCEPT !.checked = TRUE]}
    /\ UNCHANGED <<chainVars, tracked, parked, best, tick, box, closed, heard>>

FlightLands(f) ==
    /\ f \in flights /\ f.checked
    /\ flights' = flights \ {f}
    /\ box' = [s \in Subs |-> IF s = f.sub /\ s \notin closed
                              THEN Delivered(box[s], s, f.note, FALSE)
                              ELSE box[s]]
    /\ heard' = Heard({f.sub} \ closed, f.note)
    /\ UNCHANGED <<chainVars, tracked, parked, best, tick, closed>>

(* The tell fails or times out: it is logged and not repeated. *)
FlightLost(f) ==
    /\ f \in flights /\ f.checked
    /\ Charge({"lost"})
    /\ flights' = flights \ {f}
    /\ heard' = Missed(f.sub, f.note.tx)
    /\ UNCHANGED <<sc, height, mined, pool, tracked, parked, best, tick, box,
                   closed>>

---------------------------------------------------------------------------
ConfirmInit ==
    /\ tracked = [tx \in Txs |-> Untracked]
    /\ parked = {} /\ flights = {} /\ tick = {}
    /\ best = height
    /\ box = [s \in Subs |-> [rows |-> <<>>, ids |-> {}]]
    /\ closed = {}
    /\ heard = [s \in Subs |-> [tx \in Txs |-> "none"]]

(* The process dies: only the mailboxes survive.  The next one has heard   *)
(* nothing and reads the height when it is first asked.                    *)
ConfirmCrash ==
    /\ tracked' = [tx \in Txs |-> Untracked]
    /\ parked' = {} /\ flights' = {} /\ tick' = {}
    /\ best' = height
    /\ heard' = [s \in Subs |-> [tx \in Txs |-> "none"]]

ConfirmStep ==
    \/ \E tx \in Txs : \E slow \in SUBSET tracked[tx].subs :
        \/ handleConfirmationObserved(tx, slow)
        \/ handleConfirmationDone(tx, slow)
        \/ \E res \in {"ok", "unknown"} \cup Rejections(tx) :
                Visit(tx, res, slow)
    \/ \E tx \in Txs : handleConfirmationReorged(tx)
    \/ BlockObserved
    \/ \E k \in parked : ParkedReturns(k) \/ ParkedResult(k)
    \/ \E f \in flights : FlightChecks(f) \/ FlightLands(f) \/ FlightLost(f)

=============================================================================
