---------------------------- MODULE MCExpiryWatch ----------------------------
(* A scaled-down ExpiryConfig: the thresholds keep the order and the ratios of *)
(* DefaultExpiryConfig (144, 36, 72, 6) divided by 18.  MaxInt32 is 31, so  *)
(* that an exit of 14 transactions needs just what an int32 holds, and a    *)
(* deeper one wraps around.                                                 *)
EXTENDS ExpiryWatch

MCMintHeights == {1}
MCLifetimes == {0, 5, 9, 14, 24}
MCDepths    == {0, 1, 2, 14}
MCCSVDelays == {0, 3}
MCWindows   == {NoWindow, 0, 2, 6, 7, 30}
MCReserves  == {0, 4}
MCBase      == [refresh |-> 8, critical |-> 2, buffer |-> 4, multiplier |-> 2]

=============================================================================
