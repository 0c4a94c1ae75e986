---------------------------- MODULE MCExecActor -----------------------------
(* Instances of ExecActor for TLC: ids 1 and 2 share a key, id 3 has none.  *)
EXTENDS ExecActor, TLC

CONSTANT MsgCount
CONSTANT UrgentMsg   \* an id sent with a higher priority, or 0

MCIds == 1..MsgCount
MCKeyOf == [id \in MCIds |-> IF id <= 2 THEN "k" ELSE NoKey]
MCPriorityOf == [id \in MCIds |-> IF id = UrgentMsg THEN 1 ELSE 0]
WorkerSymmetry == Permutations(Workers)

=============================================================================
