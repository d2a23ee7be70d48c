----------------------------- MODULE StakeMiner -----------------------------
(***************************************************************************)
(* The staking thread (miner.cpp ThreadStakeMiner) and the kernel search   *)
(* it runs through SignBlock and CWallet::CreateCoinStake (wallet.cpp),    *)
(* with the wallet's stakeCache (pos.cpp CheckKernel, CacheKernel).        *)
(*                                                                         *)
(* The thread does not hold cs_main: the tip moves between any two of its  *)
(* steps, and the coins it looks up are those of the tip at that moment.   *)
(* The wallet learns of the tip later still, through its callbacks.        *)
(*                                                                         *)
(* The block tree, the coins of the wallet that blocks create and spend,   *)
(* and which kernels meet the target are constants: Kernel holds           *)
(* <<parent, block of the coin, coin, time>>, the inputs of the kernel     *)
(* hash.  Rewards, outputs and signatures do not decide any branch here.   *)
(***************************************************************************)
EXTENDS Integers, FiniteSets

CONSTANTS
  Block, Genesis, Parent, Height,
  NoBlock,
  Coin,
  Creates, Spends,  \* the coins of the wallet a block creates and spends
  Stake,            \* the one of Spends that is the block's prevoutStake, if any
  Generated,        \* the outputs of coinbases and coinstakes
  HasKey,           \* the coins the wallet can sign for (others: watch-only)
  Script,           \* scriptPubKey
  Kernel,
  LastTime,         \* the search tries the times 1..LastTime
  Maturity,         \* COINBASE_MATURITY
  CacheSlack        \* 100: entries stakeCache may have beyond setCoins

ASSUME StakeAssumption ==
  /\ Genesis \in Block /\ NoBlock \notin Block
  /\ Parent \in [Block -> Block] /\ Height \in [Block -> Nat]
  /\ Height[Genesis] = 0
  /\ \A b \in Block \ {Genesis} : Height[b] = Height[Parent[b]] + 1
  /\ Creates \in [Block -> SUBSET Coin] /\ Spends \in [Block -> SUBSET Coin]
  /\ Stake \in [Block -> SUBSET Coin]
  /\ \A b \in Block : Stake[b] \subseteq Spends[b] /\ Cardinality(Stake[b]) <= 1
  /\ Generated \subseteq Coin /\ HasKey \subseteq Coin /\ DOMAIN Script = Coin
  /\ LastTime \in Nat \ {0} /\ Maturity \in Nat \ {0} /\ CacheSlack \in Nat

VARIABLES
  tip,         \* ChainActive().Tip(), CoinsTip() with it
  walletTip,   \* m_last_block_processed of the wallet
  walletSpent, \* the coins IsSpent answers TRUE for
  chainTipForCoins, setCoins,
  stakeCache,  \* the block of each cached coin (its time is the key data)
  pc,
  round,       \* 1: the empty template; 2: the filled one
  prev,        \* hashPrevBlock of the template of the round
  first,       \* hashPrevBlock of the empty template
  base,        \* pindexPrev of CreateCoinStake
  time,        \* i, the block time tried
  inputs,      \* the inputs of the coinstake, the kernel among them
  coin,        \* the kernel, prevoutStake
  submitted    \* what ProcessNewBlock was given

env == <<tip, walletTip, walletSpent>>
selection == <<chainTipForCoins, setCoins>>
template == <<round, prev, first, time>>
coinstake == <<base, coin, inputs>>
vars == <<env, selection, stakeCache, pc, template, coinstake, submitted>>

-----------------------------------------------------------------------------
ChainTo[b \in Block] == IF b = Genesis THEN {b} ELSE {b} \cup ChainTo[Parent[b]]

(* A chain spends a coin at most once (consensus).                         *)
ASSUME SpentOnce ==
  \A b \in Block : \A x, y \in ChainTo[b] : x # y => Spends[x] \cap Spends[y] = {}

Ancestor(b, h) == CHOOSE a \in ChainTo[b] : Height[a] = h

(* The block of the chain to b that created coin c.                        *)
CreatedIn(b, c) == {a \in ChainTo[b] : c \in Creates[a]}
SpentIn(b, c) == {a \in ChainTo[b] : c \in Spends[a]}
Unspent(b, c) == CreatedIn(b, c) # {} /\ SpentIn(b, c) = {}
CoinHeight(b, c) == Height[CHOOSE a \in CreatedIn(b, c) : TRUE]

Mature(b, h) == Height[b] + 1 - h >= Maturity

(* A kernel as consensus defines it on the parent b.                       *)
ValidKernel(b, t, c) ==
  /\ Unspent(b, c) /\ Mature(b, CoinHeight(b, c))
  /\ <<b, Ancestor(b, CoinHeight(b, c)), c, t>> \in Kernel

(* GetSpentCoinFromMainChain: the coin was spent by the active chain after *)
(* it left the chain to b, and no block of that branch stakes it.          *)
FindFork(b) == CHOOSE a \in ChainTo[b] \cap ChainTo[tip] :
                 \A x \in ChainTo[b] \cap ChainTo[tip] : Height[x] <= Height[a]

GetSpentCoinFromMainChain(b, c) ==
  LET fork == FindFork(b)
  IN  /\ Height[tip] - Height[fork] <= Maturity
      /\ \A a \in ChainTo[b] \ ChainTo[fork] : c \notin Stake[a]
      /\ \E a \in ChainTo[tip] \ ChainTo[fork] : c \in Spends[a]

(* CheckKernel without the cache: the coin's height comes from the active  *)
(* chain, its block from the chain to b.                                   *)
CheckKernelUncached(b, t, c) ==
  /\ Unspent(tip, c) \/ GetSpentCoinFromMainChain(b, c)
  /\ Mature(b, CoinHeight(tip, c))
  /\ <<b, Ancestor(b, CoinHeight(tip, c)), c, t>> \in Kernel

(* Mutant: a hit in the cache is not checked again.                        *)
CheckKernelTrusting(b, t, c) ==
  IF c \in DOMAIN stakeCache
  THEN <<b, stakeCache[c], c, t>> \in Kernel
  ELSE CheckKernelUncached(b, t, c)

CheckKernel(b, t, c) ==
  /\ c \in DOMAIN stakeCache => <<b, stakeCache[c], c, t>> \in Kernel
  /\ CheckKernelUncached(b, t, c)

CacheKernel(b, cache, coins) ==
  LET new == {c \in coins \ DOMAIN cache :
                Unspent(tip, c) /\ Mature(b, CoinHeight(tip, c))}
  IN  [c \in DOMAIN cache \cup new |->
         IF c \in new THEN Ancestor(b, CoinHeight(tip, c)) ELSE cache[c]]

Cleared(cache, coins) ==
  IF Cardinality(DOMAIN cache) > Cardinality(coins) + CacheSlack
  THEN <<>> ELSE cache

(* AvailableCoinsForStaking, as far as the wallet has got; outputs that    *)
(* were generated wait one block more (GetBlocksToMaturity).               *)
AvailableCoinsForStaking ==
  {c \in Coin \ walletSpent :
     /\ CreatedIn(walletTip, c) # {}
     /\ LET h == CoinHeight(walletTip, c)
        IN  Mature(walletTip, IF c \in Generated THEN h + 1 ELSE h)}

(* The inputs beside the kernel: coins of its script, in the order of      *)
(* their addresses in memory, while their value stays within the balance.  *)
(* Every coin has the value 1.                                             *)
AddInputs(kernel) ==
  LET same == {c \in setCoins \ {kernel} : Script[c] = Script[kernel]}
      left == Cardinality(AvailableCoinsForStaking) - 1
  IN  {T \in SUBSET same :
         \/ T = same /\ Cardinality(T) <= left
         \/ T # same /\ Cardinality(T) = left}

-----------------------------------------------------------------------------
At(label) == pc = label
Goto(label) == pc' = label

(* Mutant: the tip is not looked at again.                                 *)
StaleNever(b) == FALSE

Stale(b) == tip # b

(* Another block became the tip: one with more work.                       *)
UpdateTip(b) ==
  /\ Height[b] > Height[tip]
  /\ tip' = b
  /\ UNCHANGED <<walletTip, walletSpent, selection, stakeCache, pc, template,
                 coinstake, submitted>>

(* blockDisconnected and blockConnected, up to the tip: a coinstake that   *)
(* is disconnected is abandoned, any other spend becomes unconfirmed.      *)
WalletSynced ==
  /\ walletTip # tip
  /\ walletTip' = tip
  /\ walletSpent' =
       (walletSpent \ UNION {Stake[b] : b \in Block \cap (ChainTo[walletTip] \ ChainTo[tip])})
         \cup UNION {Spends[b] : b \in ChainTo[tip] \ ChainTo[walletTip]}
  /\ UNCHANGED <<tip, selection, stakeCache, pc, template, coinstake, submitted>>

(* The coins are selected again only when the tip has changed.             *)
SelectCoinsForStaking ==
  /\ At("select")
  /\ IF chainTipForCoins = tip THEN UNCHANGED selection
     ELSE chainTipForCoins' = tip /\ setCoins' = AvailableCoinsForStaking
  /\ IF setCoins' = {} THEN UNCHANGED pc ELSE Goto("template")
  /\ UNCHANGED <<env, stakeCache, template, coinstake, submitted>>

(* The empty template; CreateNewBlock builds on the tip.                   *)
CreateNewBlock ==
  /\ At("template")
  /\ prev' = tip /\ first' = tip /\ round' = 1 /\ time' = 1
  /\ Goto("sign")
  /\ UNCHANGED <<env, selection, stakeCache, coinstake, submitted>>

(* CreateCoinStake takes the tip once, for the height and the kernels.     *)
SignBlock ==
  /\ At("sign")
  /\ base' = tip
  /\ Goto("cache")
  /\ UNCHANGED <<env, selection, stakeCache, template, coin, inputs, submitted>>

FillCache ==
  /\ At("cache")
  /\ stakeCache' = CacheKernel(base, Cleared(stakeCache, setCoins), setCoins)
  /\ Goto("kernel")
  /\ UNCHANGED <<env, selection, template, coinstake, submitted>>

(* The thread sleeps and starts over.                                      *)
StartOver ==
  /\ Goto("select")
  /\ UNCHANGED <<env, selection, stakeCache, template, coinstake, submitted>>

(* Mutant: a failed attempt ends the search.                               *)
NextTimeNever == StartOver

(* The next time of the search, with the empty template again.             *)
NextTime ==
  IF time = LastTime THEN StartOver
  ELSE /\ time' = time + 1 /\ round' = 1 /\ prev' = first
       /\ Goto("sign")
       /\ UNCHANGED <<env, selection, stakeCache, first, coinstake, submitted>>

(* The first coin of setCoins that is a kernel decides: without its key    *)
(* (or a balance) there is no coinstake.                                   *)
CreateCoinStake ==
  /\ At("kernel")
  /\ LET found == {c \in setCoins : CheckKernel(base, time, c)}
     IN  \/ \E c \in found \cap HasKey : \E T \in AddInputs(c) :
              /\ coin' = c /\ inputs' = {c} \cup T
              /\ Goto("header")
              /\ UNCHANGED <<env, selection, stakeCache, template, base, submitted>>
         \/ /\ found = {} \/ found \ HasKey # {} \/ AvailableCoinsForStaking = {}
            /\ NextTime

(* SignBlock ends by checking the header it has signed, without the cache. *)
CheckHeaderPoS ==
  /\ At("header")
  /\ IF CheckKernelUncached(prev, time, coin)
     THEN /\ Goto(IF round = 1 THEN "signed" ELSE "wait")
          /\ UNCHANGED <<env, selection, stakeCache, template, coinstake, submitted>>
     ELSE NextTime

(* The full template, unless another block was received meanwhile.         *)
Signed ==
  /\ At("signed")
  /\ IF Stale(prev) THEN StartOver
     ELSE /\ Goto("fill")
          /\ UNCHANGED <<env, selection, stakeCache, template, coinstake, submitted>>

CreateNewBlockFilled ==
  /\ At("fill")
  /\ prev' = tip /\ round' = 2
  /\ Goto("filled")
  /\ UNCHANGED <<env, selection, stakeCache, first, time, coinstake, submitted>>

Filled ==
  /\ At("filled")
  /\ IF Stale(first) THEN StartOver
     ELSE /\ Goto("sign")
          /\ UNCHANGED <<env, selection, stakeCache, template, coinstake, submitted>>

(* Until the block's time has come.                                        *)
WaitForTime ==
  /\ At("wait")
  /\ IF Stale(prev) THEN StartOver
     ELSE /\ Goto("check")
          /\ UNCHANGED <<env, selection, stakeCache, template, coinstake, submitted>>

(* CheckStake, first part: CheckProofOfStake on the coins of the tip.      *)
CheckProofOfStake ==
  /\ At("check")
  /\ IF /\ Unspent(tip, coin) /\ Mature(prev, CoinHeight(tip, coin))
        /\ <<prev, Ancestor(prev, CoinHeight(tip, coin)), coin, time>> \in Kernel
     THEN /\ Goto("stake")
          /\ UNCHANGED <<env, selection, stakeCache, template, coinstake, submitted>>
     ELSE StartOver

(* Mutant: only the kernel is asked for.                                   *)
IsSpentKernel(S) == coin \in walletSpent

IsSpent(S) == S \cap walletSpent # {}

(* CheckStake, second part, up to the call of ProcessNewBlock, whose       *)
(* effect on the tip is that of UpdateTip.                                 *)
CheckStake ==
  /\ At("stake")
  /\ IF Stale(prev) \/ IsSpent(inputs) THEN StartOver
     ELSE /\ submitted' = submitted \cup
               {[prev |-> prev, time |-> time, coin |-> coin, inputs |-> inputs,
                 seen |-> walletTip]}
          /\ Goto("select")
          /\ UNCHANGED <<env, selection, stakeCache, template, coinstake>>

-----------------------------------------------------------------------------
Init ==
  /\ tip = Genesis /\ walletTip = Genesis
  /\ walletSpent = UNION {Spends[b] : b \in ChainTo[Genesis]}
  /\ chainTipForCoins = NoBlock /\ setCoins = {} /\ stakeCache = <<>>
  /\ pc = "select" /\ round = 1 /\ time = 1
  /\ prev = NoBlock /\ first = NoBlock /\ base = NoBlock
  /\ coin = CHOOSE c \in Coin : TRUE
  /\ inputs = {} /\ submitted = {}

ThreadStakeMiner ==
  \/ SelectCoinsForStaking \/ CreateNewBlock
  \/ SignBlock \/ FillCache \/ CreateCoinStake \/ CheckHeaderPoS
  \/ Signed \/ CreateNewBlockFilled \/ Filled
  \/ WaitForTime \/ CheckProofOfStake \/ CheckStake

Next == ThreadStakeMiner \/ WalletSynced \/ \E b \in Block : UpdateTip(b)

Spec == Init /\ [][Next]_vars

(* The thread runs and the scheduler delivers the wallet's callbacks.      *)
FairSpec == Spec /\ WF_vars(ThreadStakeMiner) /\ WF_vars(WalletSynced)

-----------------------------------------------------------------------------
(* Types.  The cache holds blocks of the tree, and what CreateCoinStake    *)
(* keeps of it is bounded by the coins it selects (wallet.cpp:3699).       *)
TypeOK ==
  /\ tip \in Block /\ walletTip \in Block /\ walletSpent \subseteq Coin
  /\ chainTipForCoins \in Block \cup {NoBlock} /\ setCoins \subseteq Coin
  /\ DOMAIN stakeCache \subseteq Coin
  /\ \A c \in DOMAIN stakeCache : stakeCache[c] \in Block
  /\ pc = "kernel" =>
       Cardinality(DOMAIN stakeCache) <= 2 * Cardinality(setCoins) + CacheSlack
  /\ pc \in {"select", "template", "sign", "cache", "kernel", "header", "signed",
             "fill", "filled", "wait", "check", "stake"}
  /\ round \in {1, 2} /\ time \in 1..LastTime /\ coin \in Coin /\ inputs \subseteq Coin
  /\ {prev, first, base} \subseteq Block \cup {NoBlock}
  /\ \A s \in submitted : s.prev \in Block /\ s.coin \in s.inputs

(* However old the entries of stakeCache are, and from whichever branch,   *)
(* the kernel CreateCoinStake settles on is one consensus accepts on the   *)
(* tip it took, as long as that is the tip (pos.cpp:287: the cache could   *)
(* "cause false positive stakes in the event of deep reorgs").             *)
KernelSound ==
  pc = "header" /\ tip = base => ValidKernel(base, time, coin)

(* Every block handed to ProcessNewBlock has a kernel that is valid on its *)
(* own parent, although the tip, and the coins looked up, moved while the  *)
(* two templates were built and signed (miner.cpp:730, 742, 754, 583).     *)
SubmittedValid ==
  \A s \in submitted : ValidKernel(s.prev, s.time, s.coin)

(* No input of such a block, the kernel or one added to it, is spent by    *)
(* the chain it extends, once the wallet has processed that chain: the     *)
(* coins were selected earlier, perhaps before the tip's block reached the *)
(* wallet, and only CheckStake (miner.cpp:586) asks again.                 *)
SubmittedUnspent ==
  \A s \in submitted : s.seen = s.prev => \A c \in s.inputs : SpentIn(s.prev, c) = {}

(* A coin that is selected, cached rightly or not at all, and meets the    *)
(* target at one of the times: unless the wallet holds watch-only coins    *)
(* that do, or takes the coin's fellow inputs as spent.                    *)
Stakable(b) ==
  /\ tip = b /\ setCoins \subseteq HasKey
  /\ setCoins \subseteq AvailableCoinsForStaking
  /\ \E c \in setCoins, t \in 1..LastTime :
       /\ ValidKernel(b, t, c)
       /\ c \in DOMAIN stakeCache => stakeCache[c] = Ancestor(b, CoinHeight(b, c))

(* When the tip and the selection stay, the thread hands in a block for    *)
(* every such tip, whatever attempts on earlier tips it had to scrap.      *)
StakeFound ==
  \A b \in Block :
    <>[]Stakable(b) => <>(\E s \in submitted : s.prev = b)

=============================================================================
