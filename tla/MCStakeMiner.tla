---------------------------- MODULE MCStakeMiner ----------------------------
(***************************************************************************)
(* Two branches from g: a1-a2 and b1-b2-b3, and four coins of the wallet.  *)
(*   k1  confirmed in a1 or, on the other branch, in b2                    *)
(*   k2  spent by a transaction of a1 or b2; same script as k3             *)
(*   k3  a coinstake's output, staked by a2                                *)
(*   k4  watch-only, spent in b1                                           *)
(* The kernels: a block's own (a2 for k3, b2 and b3), ones that only a     *)
(* wrong block of origin would give (<<a2, a2, k1, 1>>: the height from    *)
(* the other branch; <<b3, a1, k1, 2>>: a cached block of the other        *)
(* branch), and some that are met only at the second time.                 *)
(***************************************************************************)
EXTENDS StakeMiner, TLC

CONSTANTS g, a1, a2, b1, b2, b3, k1, k2, k3, k4

MCBlock == {g, a1, a2, b1, b2, b3}
MCCoin == {k1, k2, k3, k4}

MCParent == g :> g @@ a1 :> g @@ a2 :> a1 @@ b1 :> g @@ b2 :> b1 @@ b3 :> b2
MCHeight == g :> 0 @@ a1 :> 1 @@ a2 :> 2 @@ b1 :> 1 @@ b2 :> 2 @@ b3 :> 3

Nothing == [b \in MCBlock |-> {}]
MCCreates == g :> {k2, k3, k4} @@ a1 :> {k1} @@ b2 :> {k1} @@ Nothing
MCSpends == a1 :> {k2} @@ a2 :> {k3} @@ b1 :> {k4} @@ b2 :> {k2} @@ Nothing
MCStake == a2 :> {k3} @@ Nothing

MCGenerated == {k3}
MCHasKey == {k1, k2, k3}
MCScript == k1 :> 1 @@ k2 :> 2 @@ k3 :> 2 @@ k4 :> 3

MCKernel ==
  {<<a1, g, k3, 1>>, <<a1, g, k4, 1>>, <<a1, a1, k1, 2>>, <<a2, a2, k1, 1>>,
   <<a2, a1, k1, 2>>, <<b1, g, k3, 2>>, <<b2, g, k3, 1>>, <<b3, b2, k1, 1>>,
   <<b3, a1, k1, 2>>, <<b3, g, k3, 2>>}
=============================================================================
