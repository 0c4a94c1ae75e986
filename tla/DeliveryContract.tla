-------------------------- MODULE DeliveryContract --------------------------
(***************************************************************************)
(* What a durable actor promises to those who send to it, with nothing of  *)
(* how it keeps the promise: no workers, leases, attempts or tables of     *)
(* marks.  A message that was accepted stays queued until it is either     *)
(* applied, which takes it off the queue in the same step and happens      *)
(* once, or settled in another way: consumed without a write, given up or  *)
(* filed as a dead letter.  A copy enqueued again under the same id leaves *)
(* the queue without being applied a second time.                          *)
(***************************************************************************)
EXTENDS Naturals

CONSTANT Ids

VARIABLES
    queued,     \* messages in the mailbox
    applied,    \* how often the writes of each message were committed
    settled     \* messages ended in another way

vars == <<queued, applied, settled>>

Init == queued = {} /\ applied = [id \in Ids |-> 0] /\ settled = {}

Accept(id) == /\ queued' = queued \cup {id}
              /\ UNCHANGED <<applied, settled>>

Apply(id) == /\ id \in queued /\ applied[id] = 0
             /\ applied' = [applied EXCEPT ![id] = 1]
             /\ queued' = queued \ {id}
             /\ UNCHANGED settled

Settle(id) == /\ settled' = settled \cup {id}
              /\ queued' \in {queued, queued \ {id}}
              /\ UNCHANGED applied

Skip(id) == /\ id \in queued
            /\ applied[id] > 0 \/ id \in settled
            /\ queued' = queued \ {id}
            /\ UNCHANGED <<applied, settled>>

Next == \E id \in Ids : Accept(id) \/ Apply(id) \/ Settle(id) \/ Skip(id)

Spec == Init /\ [][Next]_vars

=============================================================================
