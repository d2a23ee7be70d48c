-------------------------- MODULE StakeMinerProofs --------------------------
(***************************************************************************)
(* What the staking thread hands to ProcessNewBlock, for every block tree, *)
(* wallet, set of kernels, search length and maturity.                     *)
(*                                                                         *)
(* The argument: the tip only gains work, so a tip that equals the parent  *)
(* of a template has not moved since the template was built.  What a step  *)
(* checked against "the tip" was then checked against the parent.          *)
(***************************************************************************)
EXTENDS StakeMiner, TLAPS

(* The blocks the thread remembers are not above the tip, and what         *)
(* CheckProofOfStake found holds on the parent as long as it is the tip.   *)
TipInv ==
  /\ tip \in Block
  /\ prev \in Block => Height[prev] <= Height[tip]
  /\ first \in Block => Height[first] <= Height[tip]
  /\ pc = "stake" /\ tip = prev => ValidKernel(prev, time, coin)

(* The wallet counts as spent at least what its chain spends.              *)
WalletInv ==
  /\ walletTip \in Block
  /\ \A b \in ChainTo[walletTip] : Spends[b] \subseteq walletSpent

ValidInv == TipInv /\ SubmittedValid
UnspentInv == tip \in Block /\ WalletInv /\ SubmittedUnspent

-----------------------------------------------------------------------------
(* A step that leaves the template alone, keeps the tip and does not end   *)
(* at the last check preserves TipInv.                                     *)
LEMMA TipKept ==
  ASSUME TipInv, UNCHANGED <<tip, prev, first>>, pc' # "stake"
  PROVE  TipInv'
  BY DEF TipInv

(* A moving tip leaves the parents it passes behind.                       *)
LEMMA TipMoves ==
  ASSUME TipInv, NEW b \in Block, UpdateTip(b)
  PROVE  TipInv'
<1>1. tip' = b /\ Height[b] > Height[tip] /\ UNCHANGED <<prev, first, pc>>
  BY DEF UpdateTip, template
<1>2. \A x \in Block : Height[x] \in Nat
  BY StakeAssumption
<1>3. \A x \in Block : Height[x] <= Height[tip] => Height[x] <= Height[b] /\ x # b
  BY <1>1, <1>2 DEF TipInv
<1>. QED
  BY <1>1, <1>3 DEF TipInv

(* Every step of the thread and its surroundings preserves ValidInv.       *)
LEMMA ValidStep ==
  ASSUME ValidInv, [Next]_vars
  PROVE  ValidInv'
<1>. USE DEF ValidInv
<1>nat. \A x \in Block : Height[x] \in Nat
  BY StakeAssumption
<1>1. CASE \E b \in Block : UpdateTip(b)
  <2>1. TipInv'
    BY <1>1, TipMoves
  <2>2. SubmittedValid'
    BY <1>1 DEF UpdateTip, SubmittedValid
  <2>. QED
    BY <2>1, <2>2
<1>2. CASE WalletSynced
  <2>1. UNCHANGED <<tip, pc, template, coinstake, submitted>>
    BY <1>2 DEF WalletSynced
  <2>. QED
    BY <2>1 DEF template, coinstake, TipInv, SubmittedValid
<1>3. CASE CreateNewBlock \/ CreateNewBlockFilled
  <2>1. TipInv'
    BY <1>3, <1>nat DEF CreateNewBlock, CreateNewBlockFilled, Goto, TipInv, env
  <2>2. SubmittedValid'
    BY <1>3 DEF CreateNewBlock, CreateNewBlockFilled, SubmittedValid
  <2>. QED
    BY <2>1, <2>2
<1>4. ASSUME NextTime \/ StartOver PROVE ValidInv'
  <2>1. UNCHANGED <<tip, submitted, first>> /\ pc' # "stake"
    BY <1>4 DEF NextTime, StartOver, Goto, env, template
  <2>2. prev' = prev \/ prev' = first
    BY <1>4 DEF NextTime, StartOver, template
  <2>3. TipInv'
    BY <2>1, <2>2 DEF TipInv
  <2>. QED
    BY <2>1, <2>3 DEF SubmittedValid
<1>5. ASSUME UNCHANGED <<env, template, submitted>>, pc' # "stake"
      PROVE  ValidInv'
  BY <1>5, TipKept DEF env, template, SubmittedValid
<1>6. CASE SelectCoinsForStaking
  BY <1>5, <1>6 DEF SelectCoinsForStaking, At, Goto
<1>7. CASE SignBlock \/ FillCache
  BY <1>5, <1>7 DEF SignBlock, FillCache, Goto
<1>8. CASE CreateCoinStake
  BY <1>4, <1>5, <1>8 DEF CreateCoinStake, Goto
<1>9. CASE CheckHeaderPoS
  BY <1>4, <1>5, <1>9 DEF CheckHeaderPoS, Goto
<1>10. CASE Signed \/ Filled \/ WaitForTime
  BY <1>4, <1>5, <1>10 DEF Signed, Filled, WaitForTime, Goto
<1>11. CASE CheckProofOfStake
  <2>1. CASE StartOver
    BY <1>4, <2>1
  <2>2. CASE ~StartOver
    <3>1. /\ UNCHANGED <<tip, prev, first, time, coin, submitted>>
          /\ tip = prev => ValidKernel(prev, time, coin)
      BY <1>11, <2>2 DEF CheckProofOfStake, ValidKernel, env, template, coinstake
    <3>. QED
      BY <3>1 DEF TipInv, SubmittedValid, ValidKernel
  <2>. QED
    BY <2>1, <2>2
<1>12. CASE CheckStake
  <2>1. CASE StartOver
    BY <1>4, <2>1
  <2>2. CASE ~StartOver
    <3>1. /\ At("stake") /\ ~Stale(prev) /\ pc' = "select"
          /\ UNCHANGED <<tip, prev, first>>
          /\ submitted' = submitted \cup
               {[prev |-> prev, time |-> time, coin |-> coin, inputs |-> inputs,
                 seen |-> walletTip]}
      BY <1>12, <2>2 DEF CheckStake, Goto, env, template
    <3>2. ValidKernel(prev, time, coin)
      BY <3>1 DEF TipInv, At, Stale
    <3>3. SubmittedValid'
      BY <3>1, <3>2 DEF SubmittedValid, ValidKernel
    <3>. QED
      BY <3>1, <3>3, TipKept
  <2>. QED
    BY <2>1, <2>2
<1>13. CASE UNCHANGED vars
  BY <1>13 DEF vars, env, template, coinstake, TipInv, SubmittedValid
<1>. QED
  BY <1>1, <1>2, <1>3, <1>6, <1>7, <1>8, <1>9, <1>10, <1>11, <1>12, <1>13
  DEF Next, ThreadStakeMiner

(* Every block the staking thread hands to ProcessNewBlock has a kernel    *)
(* valid on its parent (miner.cpp CheckStake), whatever the tip did while  *)
(* it was built.                                                           *)
THEOREM SubmittedValidAlways == Spec => []SubmittedValid
<1>1. Init => ValidInv
  BY StakeAssumption DEF Init, ValidInv, TipInv, SubmittedValid
<1>2. ValidInv /\ [Next]_vars => ValidInv'
  BY ValidStep
<1>3. ValidInv => SubmittedValid
  BY DEF ValidInv
<1>. QED
  BY <1>1, <1>2, <1>3, PTL DEF Spec

-----------------------------------------------------------------------------
(* Following the tip, over any reorganization, the wallet still counts as  *)
(* spent what its chain spends: a coin that a disconnected coinstake gives *)
(* back is spent by no other block of the old chain, so by none the two    *)
(* chains share.                                                           *)
LEMMA WalletFollows ==
  ASSUME WalletInv, tip \in Block, WalletSynced
  PROVE  WalletInv'
<1>1. walletTip' = tip
  BY DEF WalletSynced
<1>2. ASSUME NEW b \in ChainTo[tip], NEW c \in Spends[b]
      PROVE  c \in walletSpent'
  <2>1. CASE b \notin ChainTo[walletTip]
    BY <1>2, <2>1 DEF WalletSynced
  <2>2. CASE b \in ChainTo[walletTip]
    <3>1. c \in walletSpent
      BY <2>2 DEF WalletInv
    <3>2. ASSUME NEW d \in Block \cap (ChainTo[walletTip] \ ChainTo[tip])
          PROVE  c \notin Stake[d]
      <4>1. d # b
        BY <1>2, <3>2
      <4>2. Spends[d] \cap Spends[b] = {}
        BY <2>2, <4>1, SpentOnce DEF WalletInv
      <4>3. Stake[d] \subseteq Spends[d]
        BY <3>2, StakeAssumption
      <4>. QED
        BY <4>2, <4>3
    <3>. QED
      BY <3>1, <3>2 DEF WalletSynced
  <2>. QED
    BY <2>1, <2>2
<1>. QED
  BY <1>1, <1>2 DEF WalletInv

(* Every step preserves UnspentInv.                                        *)
LEMMA UnspentStep ==
  ASSUME UnspentInv, [Next]_vars
  PROVE  UnspentInv'
<1>1. CASE WalletSynced
  BY <1>1, WalletFollows DEF UnspentInv, WalletSynced, SubmittedUnspent
<1>2. CASE \E b \in Block : UpdateTip(b)
  BY <1>2 DEF UnspentInv, UpdateTip, WalletInv, SubmittedUnspent
<1>3. ASSUME UNCHANGED <<env, submitted>>
      PROVE  UnspentInv'
  BY <1>3 DEF UnspentInv, WalletInv, SubmittedUnspent, env
<1>4. CASE ThreadStakeMiner /\ ~CheckStake
  BY <1>3, <1>4
  DEF ThreadStakeMiner, SelectCoinsForStaking, CreateNewBlock, SignBlock, FillCache,
      CreateCoinStake, CheckHeaderPoS, Signed, CreateNewBlockFilled, Filled,
      WaitForTime, CheckProofOfStake, NextTime, StartOver
<1>5. CASE CheckStake
  <2>1. CASE StartOver
    BY <1>3, <2>1 DEF StartOver
  <2>2. CASE ~StartOver
    <3>1. /\ ~IsSpent(inputs) /\ UNCHANGED env
          /\ submitted' = submitted \cup
               {[prev |-> prev, time |-> time, coin |-> coin, inputs |-> inputs,
                 seen |-> walletTip]}
      BY <1>5, <2>2 DEF CheckStake
    <3>2. walletTip = prev => \A c \in inputs : SpentIn(prev, c) = {}
      BY <3>1 DEF UnspentInv, WalletInv, IsSpent, SpentIn
    <3>3. ASSUME NEW s \in submitted', s.seen = s.prev, NEW c \in s.inputs
          PROVE  SpentIn(s.prev, c) = {}
      <4>1. CASE s \in submitted
        BY <3>3, <4>1 DEF UnspentInv, SubmittedUnspent
      <4>2. CASE s.prev = prev /\ s.seen = walletTip /\ s.inputs = inputs
        BY <3>2, <3>3, <4>2
      <4>. QED
        BY <3>1, <4>1, <4>2
    <3>4. SubmittedUnspent'
      BY <3>3 DEF SubmittedUnspent, SpentIn
    <3>. QED
      BY <3>1, <3>4 DEF UnspentInv, WalletInv, env
  <2>. QED
    BY <2>1, <2>2
<1>6. CASE UNCHANGED vars
  BY <1>3, <1>6 DEF vars
<1>. QED
  BY <1>1, <1>2, <1>4, <1>5, <1>6 DEF Next

(* No input of such a block is spent by the chain it extends, if the       *)
(* wallet had processed that chain when CheckStake asked it.               *)
THEOREM SubmittedUnspentAlways == Spec => []SubmittedUnspent
<1>1. Init => UnspentInv
  BY StakeAssumption DEF Init, UnspentInv, WalletInv, SubmittedUnspent
<1>2. UnspentInv /\ [Next]_vars => UnspentInv'
  BY UnspentStep
<1>3. UnspentInv => SubmittedUnspent
  BY DEF UnspentInv
<1>. QED
  BY <1>1, <1>2, <1>3, PTL DEF Spec
=============================================================================
