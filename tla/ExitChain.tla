----------------------------- MODULE ExitChain ------------------------------
(***************************************************************************)
(* The block chain and the mempool that an exit works against (external:   *)
(* modelled from how txconfirm and unroll use the chain backend), and the  *)
(* scenario a behaviour is bounded by.  A scenario is a record:            *)
(*   proof     the recovery proof (see UnrollPlan)                         *)
(*   fraud     TRUE when the exit answers a fraudulent spend               *)
(*   outside   transactions that others may have mined: proof nodes the    *)
(*             operator publishes, a sweep of a source output, a foreign   *)
(*             spend of the target                                         *)
(*   foreign   the foreign transactions among them, with what they spend   *)
(*   asks      how often an exit may be asked for or resumed; 0 when only  *)
(*             the listeners use the broadcaster                           *)
(*   top       the height the chain is bounded by                          *)
(*   final     confirmations after which the backend reports finality      *)
(*   faults    how often each kind of fault may happen;  max  how many     *)
(*             faults of all kinds                                         *)
(***************************************************************************)
EXTENDS Integers, FiniteSets, Sequences, Functions

CONSTANTS
    Txs,          \* every transaction
    Sweeps,       \* the signed sweeps the wallet can build, cheapest first
    Scenarios

ASSUME SweepsAssumption == Sweeps \in Seq(Txs) /\ Sweeps # <<>>

VARIABLES
    sc,           \* the scenario of this behaviour
    faults,       \* faults of each kind so far
    height,       \* the tip
    mined,        \* the height each transaction is mined at, 0 if it is not
    pool          \* the mempool of the backend

chainVars == <<sc, faults, height, mined, pool>>

SweepTxs == {Sweeps[i] : i \in DOMAIN Sweeps}
Inputs(tx) ==
    IF tx \in SweepTxs THEN {sc.proof.target}
    ELSE IF tx \in DOMAIN sc.foreign THEN sc.foreign[tx]
    ELSE sc.proof.inputs[tx]
Known(tx) == \/ tx \in SweepTxs
             \/ tx \in sc.proof.nodes
             \/ tx \in DOMAIN sc.foreign

(* The mined transaction that spends an outpoint, as a set. *)
Spenders(op) ==
    {tx \in Txs : Known(tx) /\ mined[tx] > 0 /\ op \in Inputs(tx)}

(* A transaction can enter the mempool when its in-proof inputs exist, no  *)
(* mined transaction spends an input, and its relative delay has passed.   *)
Valid(tx) ==
    /\ \A op \in Inputs(tx) :
            /\ Spenders(op) = {}
            /\ op \in sc.proof.nodes => mined[op] > 0 \/ op \in pool
    /\ tx \in SweepTxs => /\ mined[sc.proof.target] > 0
                          /\ height + 1 >= mined[sc.proof.target]
                                                + sc.proof.delay

(* The faults of a step are taken from the budget of the scenario. *)
Total(f) == FoldFunction(+, 0, f)
Charge(kinds) ==
    /\ kinds \subseteq DOMAIN sc.faults
    /\ faults' = [k \in DOMAIN faults |->
                    IF k \in kinds THEN faults[k] + 1 ELSE faults[k]]
    /\ \A k \in kinds : faults[k] < sc.faults[k]
    /\ Total(faults') <= sc.max

---------------------------------------------------------------------------
ChainInit ==
    /\ sc \in Scenarios
    /\ faults = [k \in DOMAIN sc.faults |-> 0]
    /\ height = 1
    /\ mined = [tx \in Txs |-> 0]
    /\ pool = {}

Conflicts(a, b) == a # b /\ Inputs(a) \cap Inputs(b) # {}

(* A block with at most one transaction of the exit. *)
Mine(S) ==
    /\ height < sc.top
    /\ height' = height + 1
    /\ \A tx \in S : /\ Valid(tx)
                     /\ \A op \in Inputs(tx) \cap sc.proof.nodes : mined[op] > 0
    /\ mined' = [tx \in Txs |-> IF tx \in S THEN height + 1 ELSE mined[tx]]
    /\ pool' = {tx \in pool \ S : \A b \in S : ~Conflicts(tx, b)}
    /\ UNCHANGED <<sc, faults>>

(* The tip is replaced by an empty block: its transactions are back in the *)
(* mempool.                                                                *)
Reorg ==
    /\ Charge({"reorg"})
    /\ \E tx \in Txs : mined[tx] = height
    /\ mined' = [tx \in Txs |-> IF mined[tx] = height THEN 0 ELSE mined[tx]]
    /\ pool' = pool \cup {tx \in Txs : mined[tx] = height}
    /\ UNCHANGED <<sc, height>>

=============================================================================
