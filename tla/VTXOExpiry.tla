----------------------------- MODULE VTXOExpiry -----------------------------
(***************************************************************************)
(* The expiry policy of a VTXO (vtxo/expiry.go): from the block height, a  *)
(* coin's batch expiry and the operator's terms it decides whether a coin  *)
(* is left alone, refreshed in a round, taken on chain, or given up as     *)
(* expired.  Every operator is the function of the same name.              *)
(*                                                                         *)
(* A coin v and a configuration c are records.  ExpiryWatch runs a coin    *)
(* through the life of its batch; VTXOStates uses the decisions.           *)
(***************************************************************************)
EXTENDS Integers

CONSTANT MaxInt32       \* largest int32

ASSUME MaxInt32Assumption == MaxInt32 \in Nat \ {0}

NoWindow == -1          \* the FreeRefreshWindow callback is nil

MaxOf(a, b) == IF a >= b THEN a ELSE b
MinOf(a, b) == IF a <= b THEN a ELSE b

\* Go's int32 arithmetic wraps around.
Int32(x) == ((x + MaxInt32 + 1) % (2 * MaxInt32 + 2)) - (MaxInt32 + 1)

HasUsableBatchExpiry(v) ==
    /\ v.batchExpiry > 0
    /\ v.createdHeight <= 0 \/ v.createdHeight <= v.batchExpiry

BlocksUntilExpiry(v, h) == v.batchExpiry - h

exitTxDepth(v) ==
    MinOf(v.treeDepth + (IF v.chainDepth > 0 THEN v.chainDepth ELSE 0), MaxInt32)

\* Mutant: the CSV delay is not part of the exit budget.
CalculateCriticalThreshold_noCSV(c, v) ==
    MaxOf(c.critical, Int32(exitTxDepth(v) * c.multiplier))

CalculateCriticalThreshold(c, v) ==
    MaxOf(c.critical,
          Int32(Int32(exitTxDepth(v) * c.multiplier) + Int32(v.relativeExpiry)))

refreshSafetyFloor(c, critical) ==
    MinOf(critical + c.buffer + MaxOf(c.maxPaymentCLTV, 0), MaxInt32)

baseRefreshSafetyFloor(c, critical) == MinOf(critical + c.buffer, MaxInt32)

\* A coin minted in a round keeps the payment reserve only if its lifetime
\* leaves a retry buffer on top of it.
canReserveMaxPaymentCLTV(c, v, critical) ==
    \/ c.maxPaymentCLTV <= 0
    \/ v.chainDepth > 0
    \/ v.createdHeight <= 0
    \/ v.batchExpiry <= v.createdHeight
    \/ refreshSafetyFloor(c, critical) + MaxOf(c.buffer, 0)
         <= v.batchExpiry - v.createdHeight

effectiveRefreshSafetyFloor(c, v, critical) ==
    IF canReserveMaxPaymentCLTV(c, v, critical)
    THEN refreshSafetyFloor(c, critical)
    ELSE baseRefreshSafetyFloor(c, critical)

\* Mutant: any advertised window replaces the refresh threshold.
CalculateRefreshThreshold_anyWindow(c, v) ==
    LET critical  == CalculateCriticalThreshold(c, v)
        floor     == effectiveRefreshSafetyFloor(c, v, critical)
        threshold == MaxOf(c.refresh, floor)
    IN  IF c.window = NoWindow \/ c.window = 0 \/ c.window >= threshold
        THEN threshold
        ELSE c.window

\* A window that opens between the safety floor and the desired boundary moves
\* the boundary to the window.
CalculateRefreshThreshold(c, v) ==
    LET critical  == CalculateCriticalThreshold(c, v)
        floor     == effectiveRefreshSafetyFloor(c, v, critical)
        threshold == MaxOf(c.refresh, floor)
    IN  IF \/ c.window = NoWindow
           \/ c.window = 0
           \/ c.window >= threshold
           \/ c.window < floor
        THEN threshold
        ELSE c.window

CheckExpiry(c, v, h) ==
    LET remaining == BlocksUntilExpiry(v, h)
    IN  IF ~HasUsableBatchExpiry(v) THEN "unknown"
        ELSE IF remaining <= 0 THEN "expired"
        ELSE IF remaining <= CalculateCriticalThreshold(c, v) THEN "critical"
        ELSE IF remaining <= CalculateRefreshThreshold(c, v) THEN "needs_refresh"
        ELSE "safe"

ShouldWaitForFreeRefreshWindow(c, v, h) ==
    /\ c.window # NoWindow
    /\ HasUsableBatchExpiry(v)
    /\ BlocksUntilExpiry(v, h) > MaxOf(c.window, 0)

canAutoRefresh(c, v, h) ==
    /\ ~v.asset
    /\ ~ShouldWaitForFreeRefreshWindow(c, v, h)
    /\ v.amount >= c.minRefreshAmount

-----------------------------------------------------------------------------
Descriptor == [batchExpiry: Int, createdHeight: Int, relativeExpiry: Nat,
               treeDepth: Nat, chainDepth: Int, asset: BOOLEAN, amount: Nat]

Config == [refresh: Nat, critical: Nat, buffer: Nat, multiplier: Nat,
           maxPaymentCLTV: Int, window: Nat \cup {NoWindow},
           minRefreshAmount: Nat]

=============================================================================
