---------------------------- MODULE ExpiryWatch ----------------------------
(***************************************************************************)
(* One coin under a growing chain and an operator that may change its      *)
(* free-refresh window between blocks: waved wires FreeRefreshWindow to    *)
(* the latest terms it fetched (waved/server.go, vtxoExpiryConfig).        *)
(***************************************************************************)
EXTENDS VTXOExpiry

CONSTANTS MintHeights,  \* heights a coin may be created at
          MaxHeight,    \* bound on the chain
          Lifetimes,    \* blocks from creation to batch expiry
          Depths,       \* transactions to publish for a unilateral exit
          CSVDelays,    \* relative expiry of the exit path
          Windows,      \* free-refresh windows the operator may advertise
          Reserves,     \* MaxPaymentCLTV settings
          Base          \* RefreshThresholdBlocks, CriticalThresholdBlocks,
                        \* MinRefreshBuffer, TreeDepthMultiplier

ASSUME WatchAssumption ==
    /\ MintHeights \subseteq Nat
    /\ MaxHeight \in Nat
    /\ Lifetimes \subseteq Nat
    /\ Depths \subseteq Nat
    /\ CSVDelays \subseteq Nat
    /\ Windows \subseteq Nat \cup {NoWindow}
    /\ Reserves \subseteq Int
    /\ Base \in [refresh: Nat, critical: Nat, buffer: Nat, multiplier: Nat]

VARIABLES height,       \* the block height the coin was last checked at
          vtxo,         \* its descriptor
          cfg           \* the ExpiryConfig

vars == <<height, vtxo, cfg>>

\* DefaultExpiryConfig, with the settings vtxoExpiryConfig adds.
Configured(w, reserve) ==
    [refresh |-> Base.refresh, critical |-> Base.critical,
     buffer |-> Base.buffer, multiplier |-> Base.multiplier,
     maxPaymentCLTV |-> reserve, window |-> w, minRefreshAmount |-> 0]

Init ==
    /\ height \in MintHeights
    /\ \E life \in Lifetimes, known \in BOOLEAN, d \in Depths, hops \in Depths,
          csv \in CSVDelays :
          vtxo = [batchExpiry |-> height + life,
                  createdHeight |-> IF known THEN height ELSE 0,
                  relativeExpiry |-> csv, treeDepth |-> d, chainDepth |-> hops,
                  asset |-> FALSE, amount |-> 1]
    /\ \E w \in Windows, reserve \in Reserves : cfg = Configured(w, reserve)

Block ==
    /\ height < MaxHeight
    /\ height' = height + 1
    /\ UNCHANGED <<vtxo, cfg>>

\* storeOperatorTerms: the callback reads another window from now on.
TermsChange ==
    /\ cfg.window # NoWindow
    /\ \E w \in Windows \ {NoWindow} : cfg' = [cfg EXCEPT !.window = w]
    /\ UNCHANGED <<height, vtxo>>

Next == Block \/ TermsChange

Spec == Init /\ [][Next]_vars

-----------------------------------------------------------------------------
(***************************************************************************)
(* Properties.                                                             *)
(***************************************************************************)
StatusNow == CheckExpiry(cfg, vtxo, height)

\* CheckExpiry's promise 2: the refresh boundary lies at least
\* MinRefreshBuffer blocks before the critical one, whatever the window and
\* the payment reserve, unless the sum does not fit an int32.
RefreshBuffer ==
    LET critical == CalculateCriticalThreshold(cfg, vtxo)
    IN  critical + cfg.buffer <= MaxInt32
           => CalculateRefreshThreshold(cfg, vtxo) >= critical + cfg.buffer

\* CheckExpiry's promise 1: while a coin is not yet critical the chain leaves
\* enough blocks to publish its whole exit path and to wait out the CSV delay,
\* unless that budget does not fit an int32.
Budget == (vtxo.treeDepth + MaxOf(vtxo.chainDepth, 0)) * cfg.multiplier
             + vtxo.relativeExpiry

ExitBudget ==
    /\ Budget <= MaxInt32
    /\ vtxo.treeDepth + MaxOf(vtxo.chainDepth, 0) <= MaxInt32
    /\ StatusNow \in {"safe", "needs_refresh"}
    => BlocksUntilExpiry(vtxo, height) > Budget

\* The operator's fee policy has no say in safety: whatever window it
\* advertises next, a coin that CheckExpiry calls critical or expired stays so
\* ("Critical exits remain independent of this fee policy", ExpiryConfig).
CriticalIgnoresTerms ==
    [][(StatusNow \in {"critical", "expired"})
          => (StatusNow' \in {"critical", "expired"})]_vars

=============================================================================
