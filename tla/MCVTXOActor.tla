---------------------------- MODULE MCVTXOActor -----------------------------
(* One coin whose batch is minted at height 2 and expires at height 5: it is *)
(* safe at 2, due for refresh at 3, critical at 4 and expired from 5 on.     *)
EXTENDS VTXOActor, TLC

MCSymmetry == Permutations(Rounds)

MCCoins == {[batchExpiry |-> 5, createdHeight |-> 2, relativeExpiry |-> 0,
             treeDepth |-> 0, chainDepth |-> 0, asset |-> FALSE, amount |-> 1]}

\* The same coin, first seen when it is already due for refresh.
MCLateCoins == {[coin EXCEPT !.createdHeight = 3] : coin \in MCCoins}

MCConfigs == {[refresh |-> 2, critical |-> 1, buffer |-> 1, multiplier |-> 1,
               maxPaymentCLTV |-> 0, window |-> NoWindow, minRefreshAmount |-> 0]}

MCTriggers == {"auto"}
MCAllFaults == {"persist", "key", "template", "notify"}
MCNoFaults == {}
=============================================================================
