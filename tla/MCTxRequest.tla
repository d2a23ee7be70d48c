----------------------------- MODULE MCTxRequest -----------------------------
(***************************************************************************)
(* TxRequest with three peers that announce a transaction, one of which    *)
(* also announces another.                                                 *)
(***************************************************************************)
EXTENDS TxRequest, TLC

CONSTANTS p1, p2, p3, t1, t2

MCPeer == {p1, p2, p3}

MCPreferred == {p3}

MCTxHash == {t1, t2}

MCAnnounceable == (MCPeer \X {t1}) \cup {<<p1, t2>>}

MCPriority == (<<p1, t1>> :> 2) @@ (<<p2, t1>> :> 3) @@ (<<p3, t1>> :> 1) @@ (<<p1, t2>> :> 1)

=============================================================================
