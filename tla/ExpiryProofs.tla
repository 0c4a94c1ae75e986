---------------------------- MODULE ExpiryProofs ----------------------------
(***************************************************************************)
(* The promises of CheckExpiry (vtxo/expiry.go) for every configuration,   *)
(* coin, window and height, int32 arithmetic included.  The states of      *)
(* ExpiryWatch need only be typed: each promise is then arithmetic.        *)
(***************************************************************************)
EXTENDS ExpiryWatch, TLAPS

Typed ==
    /\ height \in Nat
    /\ vtxo \in Descriptor
    /\ cfg \in Config

\* Every state has a descriptor and a configuration of the declared types:
\* Configured and TermsChange put Windows and Reserves in their fields.
LEMMA TypedInv == Spec => []Typed
<1>1. Init => Typed
  BY WatchAssumption DEF Init, Typed, Configured, Descriptor, Config
<1>2. Typed /\ [Next]_vars => Typed'
  <2> SUFFICES ASSUME Typed, [Next]_vars PROVE Typed'
    OBVIOUS
  <2>1. CASE Block
    BY <2>1 DEF Typed, Block
  <2>2. CASE TermsChange
    BY <2>2, WatchAssumption DEF Typed, TermsChange, Config
  <2>3. CASE UNCHANGED vars
    BY <2>3 DEF Typed, vars
  <2> QED
    BY <2>1, <2>2, <2>3 DEF Next
<1> QED
  BY <1>1, <1>2, PTL DEF Spec

\* A number that fits an int32 is not changed by the conversion.
LEMMA Int32Fits ==
    ASSUME NEW x \in Nat, x <= MaxInt32
    PROVE  Int32(x) = x
<1> DEFINE a == x + MaxInt32 + 1
           b == 2 * MaxInt32 + 2
<1>1. a \in Nat /\ b \in Nat /\ 0 <= a /\ a < b /\ b > 0
  BY MaxInt32Assumption
<1>2. \A m \in Int, n \in Int : 0 <= m /\ m < n => m % n = m
  OBVIOUS
<1>3. a % b = a
  BY <1>1, <1>2
<1> QED
  BY <1>3, MaxInt32Assumption DEF Int32

\* Whatever wraps, an int32 is an integer.
LEMMA Int32Type ==
    ASSUME NEW x \in Int
    PROVE  Int32(x) \in Int
BY MaxInt32Assumption DEF Int32

\* CalculateCriticalThreshold is an integer, at least CriticalThresholdBlocks.
LEMMA CriticalType ==
    ASSUME NEW c \in Config, NEW v \in Descriptor
    PROVE  /\ CalculateCriticalThreshold(c, v) \in Int
           /\ CalculateCriticalThreshold(c, v) >= c.critical
           /\ CalculateCriticalThreshold(c, v) >= 0
<1> DEFINE d == exitTxDepth(v)
<1>1. d \in Nat /\ c.multiplier \in Nat /\ c.critical \in Nat
      /\ v.relativeExpiry \in Nat
  BY MaxInt32Assumption DEF exitTxDepth, MinOf, Config, Descriptor
<1>2. d * c.multiplier \in Int
  BY <1>1
<1> DEFINE e == Int32(d * c.multiplier)
           r == Int32(v.relativeExpiry)
<1>3. e \in Int /\ r \in Int
  BY <1>1, <1>2, Int32Type
<1>4. Int32(e + r) \in Int
  BY <1>3, Int32Type
<1> HIDE DEF d, e, r
<1>5. MaxOf(c.critical, Int32(e + r)) \in Int
      /\ MaxOf(c.critical, Int32(e + r)) >= c.critical
  BY <1>1, <1>4 DEF MaxOf
<1> QED
  BY <1>1, <1>5 DEF CalculateCriticalThreshold, d, e, r

\* Both safety floors keep MinRefreshBuffer blocks above the critical
\* threshold, unless that sum does not fit an int32.
LEMMA FloorAboveCritical ==
    ASSUME NEW c \in Config, NEW v \in Descriptor, NEW critical \in Nat,
           critical + c.buffer <= MaxInt32
    PROVE  /\ effectiveRefreshSafetyFloor(c, v, critical) \in Int
           /\ effectiveRefreshSafetyFloor(c, v, critical)
                >= critical + c.buffer
<1>1. c.buffer \in Nat /\ c.maxPaymentCLTV \in Int
  BY DEF Config
<1>2. /\ refreshSafetyFloor(c, critical) \in Int
      /\ refreshSafetyFloor(c, critical) >= critical + c.buffer
  BY <1>1, MaxInt32Assumption DEF refreshSafetyFloor, MinOf, MaxOf
<1>3. /\ baseRefreshSafetyFloor(c, critical) \in Int
      /\ baseRefreshSafetyFloor(c, critical) >= critical + c.buffer
  BY <1>1, MaxInt32Assumption DEF baseRefreshSafetyFloor, MinOf
<1> QED
  BY <1>2, <1>3 DEF effectiveRefreshSafetyFloor

\* CheckExpiry's promise 2, for every window the operator advertises and
\* every payment reserve: the refresh boundary stays MinRefreshBuffer blocks
\* above the critical one.
THEOREM RefreshBufferHolds == Spec => []RefreshBuffer
<1>1. Typed => RefreshBuffer
  <2> SUFFICES ASSUME Typed PROVE RefreshBuffer
    OBVIOUS
  <2> DEFINE critical == CalculateCriticalThreshold(cfg, vtxo)
             floor == effectiveRefreshSafetyFloor(cfg, vtxo, critical)
  <2>1. critical \in Nat
    BY CriticalType DEF Typed
  <2> SUFFICES ASSUME critical + cfg.buffer <= MaxInt32
               PROVE  CalculateRefreshThreshold(cfg, vtxo)
                        >= critical + cfg.buffer
    BY DEF RefreshBuffer
  <2>2. floor \in Int /\ floor >= critical + cfg.buffer
    BY <2>1, FloorAboveCritical DEF Typed
  <2>3. cfg.refresh \in Nat /\ cfg.buffer \in Nat /\ cfg.window \in Int
    BY DEF Typed, Config, NoWindow
  <2> HIDE DEF critical, floor
  <2>4. CalculateRefreshThreshold(cfg, vtxo) =
          (IF \/ cfg.window = NoWindow
              \/ cfg.window = 0
              \/ cfg.window >= MaxOf(cfg.refresh, floor)
              \/ cfg.window < floor
           THEN MaxOf(cfg.refresh, floor) ELSE cfg.window)
    BY DEF CalculateRefreshThreshold, critical, floor
  <2>5. MaxOf(cfg.refresh, floor) \in Int /\ MaxOf(cfg.refresh, floor) >= floor
    BY <2>2, <2>3 DEF MaxOf
  <2> QED
    BY <2>1, <2>2, <2>3, <2>4, <2>5
<1> QED
  BY <1>1, TypedInv, PTL

\* CheckExpiry's promise 1: a coin that is neither critical nor expired has
\* more blocks left than its unilateral exit takes, for every depth,
\* multiplier and CSV delay whose product and sum fit an int32.
THEOREM ExitBudgetHolds == Spec => []ExitBudget
<1>1. Typed => ExitBudget
  <2> SUFFICES ASSUME Typed,
                      Budget <= MaxInt32,
                      vtxo.treeDepth + MaxOf(vtxo.chainDepth, 0) <= MaxInt32,
                      StatusNow \in {"safe", "needs_refresh"}
               PROVE  BlocksUntilExpiry(vtxo, height) > Budget
    BY DEF ExitBudget
  <2> DEFINE d == vtxo.treeDepth + MaxOf(vtxo.chainDepth, 0)
  <2>1. /\ d \in Nat /\ cfg.multiplier \in Nat /\ vtxo.relativeExpiry \in Nat
        /\ cfg.critical \in Nat /\ vtxo.batchExpiry \in Int /\ height \in Nat
    BY DEF Typed, Descriptor, Config, MaxOf
  <2>2. exitTxDepth(vtxo) = d
    BY <2>1, MaxInt32Assumption
       DEF exitTxDepth, MinOf, MaxOf, Typed, Descriptor
  <2> DEFINE prod == d * cfg.multiplier
  <2>3. prod \in Nat
    BY <2>1
  <2>4. Budget = prod + vtxo.relativeExpiry
    BY DEF Budget
  <2> HIDE DEF d, prod
  <2>5. prod <= MaxInt32 /\ vtxo.relativeExpiry <= MaxInt32
    BY <2>1, <2>3, <2>4, MaxInt32Assumption
  <2>6. Int32(prod) = prod /\ Int32(vtxo.relativeExpiry) = vtxo.relativeExpiry
    BY <2>1, <2>3, <2>5, Int32Fits
  <2>7. prod + vtxo.relativeExpiry \in Nat
        /\ prod + vtxo.relativeExpiry <= MaxInt32
    BY <2>1, <2>3, <2>4
  <2>8. Int32(prod + vtxo.relativeExpiry) = Budget
    BY <2>4, <2>7, Int32Fits
  <2>9. CalculateCriticalThreshold(cfg, vtxo) = MaxOf(cfg.critical, Budget)
    BY <2>2, <2>6, <2>8 DEF CalculateCriticalThreshold, prod
  <2>10. CalculateCriticalThreshold(cfg, vtxo) >= Budget
    BY <2>1, <2>4, <2>7, <2>9 DEF MaxOf
  <2>11. BlocksUntilExpiry(vtxo, height) \in Int
    BY <2>1 DEF BlocksUntilExpiry
  <2>12. CalculateCriticalThreshold(cfg, vtxo) \in Int
    BY CriticalType DEF Typed
  <2>13. ~(BlocksUntilExpiry(vtxo, height)
             <= CalculateCriticalThreshold(cfg, vtxo))
    BY <2>11, <2>12 DEF StatusNow, CheckExpiry
  <2> QED
    BY <2>4, <2>7, <2>10, <2>11, <2>12, <2>13
<1> QED
  BY <1>1, TypedInv, PTL

\* The critical threshold does not read the window.
LEMMA CriticalWithoutWindow ==
    ASSUME NEW c \in Config, NEW w, NEW v
    PROVE  CalculateCriticalThreshold([c EXCEPT !.window = w], v)
             = CalculateCriticalThreshold(c, v)
BY DEF CalculateCriticalThreshold, Config

\* A coin that CheckExpiry calls critical or expired stays so, whatever
\* window the operator advertises next and however the chain grows.
THEOREM CriticalIsFinal == Spec => CriticalIgnoresTerms
<1> DEFINE Bad == {"critical", "expired"}
<1>1. Typed /\ [Next]_vars => (StatusNow \in Bad => StatusNow' \in Bad)
  <2> SUFFICES ASSUME Typed, [Next]_vars, StatusNow \in Bad
               PROVE  StatusNow' \in Bad
    OBVIOUS
  <2>1. /\ vtxo.batchExpiry \in Int /\ height \in Nat
        /\ CalculateCriticalThreshold(cfg, vtxo) \in Int
    BY CriticalType DEF Typed, Descriptor
  <2>2. /\ HasUsableBatchExpiry(vtxo)
        /\ \/ BlocksUntilExpiry(vtxo, height) <= 0
           \/ BlocksUntilExpiry(vtxo, height)
                <= CalculateCriticalThreshold(cfg, vtxo)
    BY <2>1 DEF StatusNow, CheckExpiry
  <2>3. /\ vtxo' = vtxo /\ height' \in Nat /\ height' >= height
        /\ CalculateCriticalThreshold(cfg', vtxo')
             = CalculateCriticalThreshold(cfg, vtxo)
    <3>1. CASE Block
      BY <3>1, <2>1 DEF Block
    <3>2. CASE TermsChange
      BY <3>2, <2>1, CriticalWithoutWindow DEF TermsChange, Typed
    <3>3. CASE UNCHANGED vars
      BY <3>3, <2>1 DEF vars
    <3> QED
      BY <3>1, <3>2, <3>3 DEF Next
  <2>4. \/ BlocksUntilExpiry(vtxo', height') <= 0
        \/ BlocksUntilExpiry(vtxo', height')
             <= CalculateCriticalThreshold(cfg', vtxo')
    BY <2>1, <2>2, <2>3 DEF BlocksUntilExpiry
  <2>5. HasUsableBatchExpiry(vtxo')
    BY <2>2, <2>3
  <2> QED
    BY <2>4, <2>5 DEF StatusNow, CheckExpiry
<1> QED
  BY <1>1, TypedInv, PTL DEF CriticalIgnoresTerms, Spec

=============================================================================
