-------------------------- MODULE MCChainSelection --------------------------
(***************************************************************************)
(* ChainSelection for TLC on parts of this tree, with a block against a    *)
(* branch whose second block has a rival:                                  *)
(*                                                                         *)
(*   g - a1                                                                *)
(*    \                                                                    *)
(*     b1 - b2 - b3                                                        *)
(*      \                                                                  *)
(*       c2                                                                *)
(***************************************************************************)
EXTENDS ChainSelection, TLC

CONSTANTS g, a1, b1, b2, b3, c2

MCParent ==
  [b \in Block |-> (g :> NoBlock @@ a1 :> g @@ b1 :> g @@ b2 :> b1 @@
                   b3 :> b2 @@ c2 :> b1)[b]]

MCHeight ==
  [b \in Block |-> (g :> 0 @@ a1 :> 1 @@ b1 :> 1 @@ b2 :> 2 @@
                   b3 :> 3 @@ c2 :> 2)[b]]

\* a1 has as much work as b1.
MCWork == MCHeight

AllValid == [b \in Block |-> "valid"]

MCVerdicts ==
  {AllValid, [AllValid EXCEPT ![b2] = "badConnect"],
   [AllValid EXCEPT ![b1] = "badConnect"],
   [AllValid EXCEPT ![b1] = "badBlock"]}

\* One of two rivals is bad, or their parent.
RivalVerdicts ==
  {[AllValid EXCEPT ![b2] = "badConnect"], [AllValid EXCEPT ![b1] = "badConnect"]}

\* Entries allocated in the order of the tree, and in the opposite order.
Ascending ==
  [b \in Block |-> (g :> 0 @@ a1 :> 1 @@ b1 :> 2 @@ b2 :> 3 @@
                   b3 :> 4 @@ c2 :> 5)[b]]

MCAddresses == {Ascending, [b \in Block |-> 5 - Ascending[b]]}

OneAddress == {Ascending}

ThreadSymmetry == Permutations(Thread)
=============================================================================
