----------------------------- MODULE MCIndexSync -----------------------------
(***************************************************************************)
(* IndexSync on a tree of two branches above the genesis block.            *)
(***************************************************************************)
EXTENDS IndexSync, TLC

CONSTANTS g, a1, b1, b2

MCBlock == {g, a1, b1, b2}

MCParent == (g :> NoBlock) @@ (a1 :> g) @@ (b1 :> g) @@ (b2 :> b1)

MCHeight == (g :> 0) @@ (a1 :> 1) @@ (b1 :> 1) @@ (b2 :> 2)

\* A new node, and one with a chain
MCInitialTips == {NoBlock, b2}

=============================================================================
