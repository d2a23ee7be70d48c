---------------------------- MODULE MCCoinsCache ----------------------------
(* CoinsCache for TLC: outpoints, coins and hashes are model values.       *)
EXTENDS CoinsCache, TLC

\* Outpoints and hashes are interchangeable; so are the spendable coins.
Symmetry ==
  Permutations(OutPoint) \cup Permutations(Hash) \cup Permutations(Coin \ Unspendable)
=============================================================================
