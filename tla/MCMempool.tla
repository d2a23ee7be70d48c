----------------------------- MODULE MCMempool -----------------------------
(***************************************************************************)
(* An instance of Mempool.  txA has two outputs; txN, txD and txE all      *)
(* spend the first, txC spends the second together with txN's, so that     *)
(* when the block with txA and txN is disconnected a pooled txC has one    *)
(* parent that is re-added and one that is refused.  txD and its child txF *)
(* may be replaced by txE.  txM spends the generated coin of x1.  The      *)
(* coinstake of z1 spends the coin that txA spends.                        *)
(***************************************************************************)
EXTENDS Mempool

CONSTANTS txR, txA, txN, txC, txD, txE, txF, txM, txP, txH, txK,
          sx1, sx2, sy1, sy2, sy3, sz1, b0, x1, x2, y1, y2, y3, z1

TxsHere == {txR, txA, txN, txC, txD, txE, txF, txM, txP, txH, txK}
GenHere == {sx1, sx2, sy1, sy2, sy3, sz1}
OneCoinBase == {sx1}
NoCoinBase == {}
vinHere == [t \in TxsHere \cup GenHere |->
  CASE t = txA   -> << <<txR, 0>> >>
    [] t = txN   -> << <<txA, 0>> >>
    [] t = txC   -> << <<txN, 0>>, <<txA, 1>> >>
    [] t = txD   -> << <<txA, 0>> >>
    [] t = txE   -> << <<txA, 0>> >>
    [] t = txF   -> << <<txD, 0>> >>
    [] t = txM   -> << <<sx1, 0>> >>
    [] t = txP   -> << <<txA, 2>>, <<txM, 0>> >>
    [] t = txH   -> << <<txC, 0>> >>
    [] t = txK   -> << <<txA, 3>> >>
    [] t = sz1   -> << <<txR, 0>> >>
    [] OTHER     -> <<>>]
(* Powers of two: a sum of fees says which transactions it is over.        *)
FeeHere == [t \in TxsHere |->
  CASE t = txA -> 1 [] t = txN -> 2 [] t = txC -> 4 [] t = txD -> 8 [] t = txF -> 16
    [] t = txE -> 32 [] t = txM -> 64 [] t = txP -> 128 [] t = txH -> 256 [] t = txK -> 512
    [] OTHER -> 0]
NonStandardHere == {txR, txN}
ReplaceableHere == {txD}
BlockHere == {b0, x1, x2, y1, y2, y3, z1}
ParentHere == [b \in BlockHere |->
  CASE b = x2 -> x1 [] b = y2 -> y1 [] b = y3 -> y2 [] OTHER -> b0]
HeightHere == [b \in BlockHere |->
  CASE b = b0 -> 0 [] b \in {x2, y2} -> 2 [] b = y3 -> 3 [] OTHER -> 1]
TxsInBlock == [b \in BlockHere |->
  CASE b = b0 -> <<txR>>
    [] b = x1 -> <<sx1, txA, txN>>
    [] b = x2 -> <<sx2, txC>>
    [] b = y1 -> <<sy1>>
    [] b = y2 -> <<sy2, txA, txD>>
    [] b = y3 -> <<sy3, txF>>
    [] b = z1 -> <<sz1>>]
DeltaHere == [t \in TxsHere |-> IF t \in {txA, txC, txD, txF} THEN {0, 1024} ELSE {0}]
=============================================================================
