------------------------- MODULE MCChainstateFlush -------------------------
(***************************************************************************)
(* ChainstateFlush for TLC on a tree with two branches above a1:           *)
(*                                                                         *)
(*   g - a1 - a2          a2 and b3 both contain the transaction that      *)
(*         \              spends o1 into o2; b3 also spends o2 into o3.    *)
(*          b2 - b3                                                        *)
(***************************************************************************)
EXTENDS ChainstateFlush, TLC

CONSTANTS g, a1, a2, b2, b3, o1, o2, o3

Tx(coinbase, vin, vout) == [coinbase |-> coinbase, vin |-> vin, vout |-> vout]

MCParent ==
  g :> NoBlock @@ a1 :> g @@ a2 :> a1 @@ b2 :> a1 @@ b3 :> b2

MCHeight ==
  g :> 0 @@ a1 :> 1 @@ a2 :> 2 @@ b2 :> 2 @@ b3 :> 3

MCVtx ==
  LET spend == Tx(FALSE, <<o1>>, <<o2>>)
  IN  g :> <<>> @@
      a1 :> <<Tx(TRUE, <<>>, <<o1>>)>> @@
      a2 :> <<Tx(TRUE, <<>>, <<>>), spend>> @@
      b2 :> <<Tx(TRUE, <<>>, <<>>)>> @@
      b3 :> <<Tx(TRUE, <<>>, <<>>), spend, Tx(FALSE, <<o2>>, <<o3>>)>>

MCCoin == 1 .. 3
=============================================================================
