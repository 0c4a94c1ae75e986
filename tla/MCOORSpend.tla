----------------------------- MODULE MCOORSpend -----------------------------
(* A coin minted at height 2 that is safe at 2, critical at 3, expired at 4; *)
(* it is too small to be refreshed, so no round takes it.                    *)
EXTENDS OORSpend, TLC

MCCoin == [batchExpiry |-> 4, createdHeight |-> 2, relativeExpiry |-> 0,
           treeDepth |-> 0, chainDepth |-> 0, asset |-> FALSE, amount |-> 1]

MCConfig == [refresh |-> 1, critical |-> 1, buffer |-> 0, multiplier |-> 1,
             maxPaymentCLTV |-> 0, window |-> NoWindow, minRefreshAmount |-> 2]

MCSymmetry == Permutations(Sessions)

=============================================================================
