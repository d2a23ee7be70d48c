-------------------------- MODULE ChainstateFlush --------------------------
(***************************************************************************)
(* The chainstate on disk, across reorganisations, interrupted flushes,    *)
(* crashes, power failures and restarts: ConnectTip and DisconnectTip      *)
(* (validation.cpp) change the CoinsTip() cache, FlushStateToDisk writes   *)
(* the block index and then the coins in several batches (txdb.cpp), and   *)
(* ReplayBlocks repairs a coins database that a flush left half written.   *)
(*                                                                         *)
(* The block tree is a constant.  An output is identified by its outpoint, *)
(* so of a Coin only the height is left.  Which of its children or its     *)
(* parent the tip moves to is not decided here (see ChainSelection): any   *)
(* move to a block whose data is known may happen.                         *)
(***************************************************************************)
EXTENDS Coins, Integers, FiniteSets, SequencesExt

CONSTANTS
  Block,       \* all blocks
  Genesis,
  NoBlock,     \* no block: a null hash, the tip of an empty chain
  Parent,      \* pprev
  Height,      \* nHeight
  Vtx,         \* the transactions of each block, in order
  NoUndo       \* the block has no undo data

ASSUME BlockAssumption ==
  /\ Genesis \in Block /\ NoBlock \notin Block
  /\ Parent \in [Block -> Block \cup {NoBlock}]
  /\ Height \in [Block -> Nat]
  /\ \A b \in Block : IF b = Genesis THEN Height[b] = 0 /\ Parent[b] = NoBlock
                      ELSE Parent[b] \in Block /\ Height[b] = Height[Parent[b]] + 1
  /\ Coin = {Height[b] : b \in Block \ {Genesis}}

VARIABLES
  db,          \* coins in the coins database
  dbBest,      \* DB_BEST_BLOCK
  dbHeads,     \* DB_HEAD_BLOCKS: <<>>, or the block written and the one before
  synced,      \* an earlier <<db, dbBest, dbHeads>>, all that a power failure leaves
  diskIndex,   \* blocks whose entry in the block index database has their data
  diskUndo,    \* undo data that an entry in the block index database refers to
  stakeIndex,  \* DB_STAKEINDEX: the block that wrote the entry of a height
  index,       \* m_block_index: blocks whose data is on disk
  undo,        \* undo data on disk, known to m_block_index
  tip,         \* cacheCoins of CoinsTip(), or of the cache of ReplayBlocks
  tipBest,     \* its hashBlock
  chainTip,    \* m_chain.Tip()
  pc           \* where the node is

coinsDB == <<db, dbBest, dbHeads>>
blockTreeDB == <<diskIndex, diskUndo>>
memory == <<index, undo, tip, tipBest, chainTip>>
vars == <<coinsDB, synced, blockTreeDB, stakeIndex, memory, pc>>

-----------------------------------------------------------------------------
(* The blocks of a chain.                                                  *)

ancestors[b \in Block] ==
  {b} \cup IF b = Genesis THEN {} ELSE ancestors[Parent[b]]

\* LastCommonAncestor; a null old tip counts as the genesis block, which no
\* rollback or roll forward touches.
Fork(old, new) ==
  IF old = NoBlock THEN Genesis
  ELSE CHOOSE a \in ancestors[old] \cap ancestors[new] :
         \A c \in ancestors[old] \cap ancestors[new] : Height[c] <= Height[a]

\* The blocks after `from' up to its descendant `to', lowest first.
Branch(from, to) ==
  [i \in 1 .. (Height[to] - Height[from]) |->
     CHOOSE a \in ancestors[to] : Height[a] = Height[from] + i]

Inputs(b) == UNION {ToSet(Vtx[b][i].vin) : i \in DOMAIN Vtx[b]}
Outputs(b) == UNION {ToSet(Vtx[b][i].vout) : i \in DOMAIN Vtx[b]}

-----------------------------------------------------------------------------
(* Blocks applied to a cache above a view that denotes base.  A result is  *)
(* [cache, ok]; ok turns false where the code asserts, throws or reports   *)
(* an unclean disconnection.                                               *)

Spend(r, base, o) == [r EXCEPT !.cache = SpendCoin(r.cache, base, o)]

\* AddCoins for one output of a block at height h
Add(r, o, h, overwrite) ==
  [cache |-> AddCoin(r.cache, o, h, overwrite),
   ok    |-> r.ok /\ ~AddCoinThrows(r.cache, o, h, overwrite)]

\* AddCoins with check_for_overwrite: HaveCoin fetches first.
AddChecked(r, base, o, h) ==
  LET fetched == FetchCoin(r.cache, base, o)
  IN  Add([r EXCEPT !.cache = fetched], o, h, Lookup(fetched, base)[o] # Spent)

\* UpdateCoins, called by ConnectBlock for each transaction; a spend must succeed.
UpdateCoins(r, base, tx, h) ==
  LET spend(s, o) == [Spend(s, base, o) EXCEPT !.ok = @ /\ Lookup(s.cache, base)[o] # Spent]
      add(s, o)   == Add(s, o, h, tx.coinbase)
  IN  FoldLeft(add, FoldLeft(spend, r, tx.vin), tx.vout)

ConnectBlock(base, b) ==
  LET connect(r, tx) == UpdateCoins(r, base, tx, Height[b])
  IN  FoldLeft(connect, [cache |-> EmptyCache, ok |-> TRUE], Vtx[b])

\* The CBlockUndo that ConnectBlock collects: the coin of every input.
BlockUndo(base, b) ==
  [o \in Inputs(b) |-> IF o \in Outputs(b) THEN Height[b] ELSE base[o]]

\* ApplyTxInUndo: an existing coin is overwritten, and the result unclean.
ApplyTxInUndo(r, base, o, coin) ==
  [AddChecked(r, base, o, coin) EXCEPT !.ok = @ /\ Lookup(r.cache, base)[o] = Spent]

\* A plausible mistake: transactions are undone in block order.
DisconnectBlockForward(cache, base, b, blockUndo) ==
  LET spend(s, o)   == [Spend(s, base, o) EXCEPT !.ok = @ /\ Lookup(s.cache, base)[o] = Height[b]]
      restore(s, o) == ApplyTxInUndo(s, base, o, blockUndo[o])
      undoTx(s, tx) == FoldLeft(restore, FoldLeft(spend, s, tx.vout), Reverse(tx.vin))
  IN  FoldLeft(undoTx, [cache |-> cache, ok |-> TRUE], Vtx[b])

\* DisconnectBlock: transactions and inputs in reverse order; ok is DISCONNECT_OK.
DisconnectBlock(cache, base, b, blockUndo) ==
  LET spend(s, o)   == [Spend(s, base, o) EXCEPT !.ok = @ /\ Lookup(s.cache, base)[o] = Height[b]]
      restore(s, o) == ApplyTxInUndo(s, base, o, blockUndo[o])
      undoTx(s, tx) == FoldLeft(restore, FoldLeft(spend, s, tx.vout), Reverse(tx.vin))
  IN  FoldLeft(undoTx, [cache |-> cache, ok |-> TRUE], Reverse(Vtx[b]))

\* RollforwardBlock: every addition may be an overwrite.
RollforwardBlock(cache, base, b) ==
  LET spend(s, o)    == Spend(s, base, o)
      add(s, o)      == AddChecked(s, base, o, Height[b])
      rollTx(s, tx)  == FoldLeft(add, FoldLeft(spend, s, tx.vin), tx.vout)
  IN  FoldLeft(rollTx, [cache |-> cache, ok |-> TRUE], Vtx[b]).cache

\* The entries a cache gains when the coins of S are looked up in it.
FetchAll(cache, base, S) ==
  [o \in OutPoint |-> IF o \in S THEN FetchCoin(cache, base, o)[o] ELSE cache[o]]

-----------------------------------------------------------------------------

AllSpent == [o \in OutPoint |-> Spent]
Heights == {Height[b] : b \in Block}
AnyBlock == Block \cup {NoBlock}
BlockUndoMap == [Block -> {NoUndo} \cup UNION {[Inputs(b) -> AnyCoin] : b \in Block}]
Heads == {<<>>} \cup (Block \X AnyBlock)

\* "running": cs_main is free.  The others are inside FlushStateToDisk (before
\* and after the block index is written), stopped, inside ReplayBlocks, and
\* stopped by a failed assertion or an initialisation error.
PC == {"running", "writeIndex", "writeCoins", "down", "replay", "failed"}

TypeOK ==
  /\ db \in CoinMap /\ dbBest \in AnyBlock /\ dbHeads \in Heads
  /\ synced \in CoinMap \X AnyBlock \X Heads
  /\ diskIndex \subseteq Block /\ diskUndo \in BlockUndoMap
  /\ stakeIndex \in [Heights -> AnyBlock]
  /\ index \subseteq Block /\ undo \in BlockUndoMap
  /\ tip \in CCoinsMap /\ tipBest \in AnyBlock
  /\ chainTip \in AnyBlock
  /\ pc \in PC

Init ==
  /\ db = AllSpent /\ dbBest = NoBlock /\ dbHeads = <<>>
  /\ synced = <<db, dbBest, dbHeads>>
  /\ diskIndex = {} /\ diskUndo = [b \in Block |-> NoUndo]
  /\ stakeIndex = [h \in Heights |-> NoBlock]
  /\ index = {Genesis} /\ undo = diskUndo        \* LoadGenesisBlock
  /\ tip = EmptyCache /\ tipBest = NoBlock
  /\ chainTip = NoBlock
  /\ pc = "running"

TipLookup == Lookup(tip, db)

\* AcceptBlock: the block is written to a block file and indexed.
AcceptBlock(b) ==
  /\ pc = "running"
  /\ b \notin index /\ Parent[b] \in index
  /\ index' = index \cup {b}
  /\ UNCHANGED <<coinsDB, synced, blockTreeDB, stakeIndex, undo, tip, tipBest, chainTip, pc>>

(***************************************************************************)
(* ConnectTip: ConnectBlock on a view above CoinsTip(), undo data if the   *)
(* block has none yet, the stake index entry, then view.Flush() and        *)
(* FlushStateToDisk(IF_NEEDED).  m_chain.SetTip follows that flush; both   *)
(* are under cs_main, and a crash in between forgets the chain anyway.     *)
(* ConnectBlock only sets the best block for the genesis block.            *)
(***************************************************************************)
ConnectTip(b) ==
  /\ pc = "running"
  /\ b \in index /\ Parent[b] = chainTip
  /\ LET r == ConnectBlock(TipLookup, b)
         fetched == FetchAll(tip, db, Inputs(b))
     IN  IF b = Genesis
         THEN /\ pc' \in {"running", "writeIndex"}
              /\ UNCHANGED <<stakeIndex, undo, tip>>
         ELSE /\ tip' = BatchWrite(r.cache, fetched)
              /\ undo' = IF undo[b] = NoUndo
                         THEN [undo EXCEPT ![b] = BlockUndo(TipLookup, b)] ELSE undo
              /\ stakeIndex' = [stakeIndex EXCEPT ![Height[b]] = b]
              /\ IF r.ok /\ tipBest = chainTip
                 THEN pc' \in {"running", "writeIndex"} ELSE pc' = "failed"
  /\ tipBest' = b
  /\ chainTip' = b
  /\ UNCHANGED <<coinsDB, synced, blockTreeDB, index>>

(***************************************************************************)
(* DisconnectTip, with FlushStateToDisk(IF_NEEDED) and SetTip likewise.    *)
(* EraseStakeIndex leaves the entry: it stops at the first key it cannot   *)
(* parse as a CHeightTxIndexKey, and WriteStakeIndex writes shorter keys.  *)
(***************************************************************************)
DisconnectTip ==
  /\ pc = "running"
  /\ chainTip \notin {NoBlock, Genesis}
  /\ IF undo[chainTip] = NoUndo \/ tipBest # chainTip
     THEN pc' = "failed" /\ UNCHANGED tip
     ELSE LET r == DisconnectBlock(EmptyCache, TipLookup, chainTip, undo[chainTip])
              fetched == FetchAll(tip, db, Inputs(chainTip) \cup Outputs(chainTip))
          IN  /\ tip' = BatchWrite(r.cache, fetched)
              /\ IF r.ok THEN pc' \in {"running", "writeIndex"} ELSE pc' = "failed"
  /\ tipBest' = Parent[chainTip]
  /\ chainTip' = Parent[chainTip]
  /\ UNCHANGED <<coinsDB, synced, blockTreeDB, stakeIndex, index, undo>>

\* FlushStateToDisk(ALWAYS), or PERIODIC once the cache or the delay asks for it
FlushStateToDisk ==
  /\ pc = "running"
  /\ pc' = "writeIndex"
  /\ UNCHANGED <<coinsDB, synced, blockTreeDB, stakeIndex, memory>>

\* FlushBlockFile, then WriteBatchSync of the dirty block index entries
WriteBlockIndex == diskIndex' = index /\ diskUndo' = undo

\* FlushStateToDisk(PERIODIC) with only DATABASE_WRITE_INTERVAL elapsed
PeriodicWrite ==
  /\ pc = "running"
  /\ WriteBlockIndex
  /\ UNCHANGED <<coinsDB, synced, stakeIndex, memory, pc>>

\* A full flush: first the block index; the coins only if there is a best block.
WriteIndex ==
  /\ pc = "writeIndex"
  /\ WriteBlockIndex
  /\ pc' = IF tipBest = NoBlock THEN "running" ELSE "writeCoins"
  /\ UNCHANGED <<coinsDB, synced, stakeIndex, memory>>

-----------------------------------------------------------------------------
(* CCoinsViewDB::BatchWrite, called by Flush of CoinsTip() or of the cache *)
(* of ReplayBlocks.  Batches are not synchronous: they reach the disk in   *)
(* order, each now or at some later time, which a crash may forestall.     *)

MaySync == synced' \in {synced, <<db', dbBest', dbHeads'>>}

OldTip == IF dbBest = NoBlock /\ dbHeads # <<>> THEN dbHeads[2] ELSE dbBest

\* assert(old_heads[0] == hashBlock)
FlushResumes == dbBest = NoBlock /\ dbHeads # <<>> => dbHeads[1] = tipBest

\* A plausible mistake: the heads are not recorded before the first batch.
WritePartialBatchUnmarked(S) ==
  /\ pc \in {"writeCoins", "replay"}
  /\ S # {} /\ S \subseteq Dirty(tip)
  /\ db' = WriteEntries(tip, S, db)
  /\ tip' = [o \in OutPoint |-> IF o \in S THEN NoEntry ELSE tip[o]]
  /\ UNCHANGED <<dbBest, dbHeads, synced, blockTreeDB, stakeIndex, index, undo,
                 tipBest, chainTip, pc>>

\* batch_size is reached: the batch, whose first entries mark the database
\* as in transition, is written, and its coins have left the cache.
WritePartialBatch(S) ==
  /\ pc \in {"writeCoins", "replay"}
  /\ S # {} /\ S \subseteq Dirty(tip)
  /\ IF FlushResumes
     THEN /\ db' = WriteEntries(tip, S, db)
          /\ dbBest' = NoBlock /\ dbHeads' = <<tipBest, OldTip>>
          /\ tip' = [o \in OutPoint |-> IF o \in S THEN NoEntry ELSE tip[o]]
          /\ MaySync
          /\ UNCHANGED pc
     ELSE pc' = "failed" /\ UNCHANGED <<coinsDB, synced, tip>>
  /\ UNCHANGED <<blockTreeDB, stakeIndex, index, undo, tipBest, chainTip>>

\* The last batch marks the database as consistent; LoadChainTip follows a replay.
WriteLastBatch ==
  /\ pc \in {"writeCoins", "replay"}
  /\ IF FlushResumes
     THEN /\ db' = WriteEntries(tip, OutPoint, db)
          /\ dbBest' = tipBest /\ dbHeads' = <<>>
          /\ tip' = EmptyCache
          /\ chainTip' = IF pc = "replay" THEN tipBest ELSE chainTip
          /\ MaySync
          /\ pc' = "running"
     ELSE pc' = "failed" /\ UNCHANGED <<coinsDB, synced, tip, chainTip>>
  /\ UNCHANGED <<blockTreeDB, stakeIndex, index, undo, tipBest>>

-----------------------------------------------------------------------------
(* Crashes and restarts.                                                   *)

\* The process dies, or the machine: then unsynced batches of coins are lost.
Crash ==
  /\ pc \notin {"down", "failed"}
  /\ \E kept \in {coinsDB, synced} :
       db' = kept[1] /\ dbBest' = kept[2] /\ dbHeads' = kept[3] /\ synced' = kept
  /\ index' = {} /\ undo' = [b \in Block |-> NoUndo]
  /\ tip' = EmptyCache /\ tipBest' = NoBlock /\ chainTip' = NoBlock
  /\ pc' = "down"
  /\ UNCHANGED <<blockTreeDB, stakeIndex>>

\* A plausible mistake: the old branch is not rolled back.
ReplayedCacheForwardOnly ==
  LET rollforward(c, b) == RollforwardBlock(c, db, b)
  IN  FoldLeft(rollforward, EmptyCache, Branch(Fork(dbHeads[2], dbHeads[1]), dbHeads[1]))

\* ReplayBlocks, up to Flush: undo the old branch, redo the new one.
ReplayedCache ==
  LET new == dbHeads[1]
      old == dbHeads[2]
      fork == Fork(old, new)
      oldBranch == IF old = NoBlock THEN <<>> ELSE Branch(fork, old)
      rollback(c, b) == DisconnectBlock(c, db, b, diskUndo[b]).cache
      rollforward(c, b) == RollforwardBlock(c, db, b)
  IN  FoldLeft(rollforward, FoldLeft(rollback, EmptyCache, Reverse(oldBranch)),
               Branch(fork, new))

\* ReplayBlocks reports an error: a head, a block or its undo data is missing.
ReplayFails ==
  LET new == dbHeads[1]
      old == dbHeads[2]
      known == diskIndex \cup {Genesis}
      lost == ancestors[old] \ ancestors[new]
      gained == ancestors[new]
  IN  \/ new \notin known \/ ~(gained \subseteq known)
      \/ old # NoBlock /\ (~(lost \subseteq known) \/ \E b \in lost : diskUndo[b] = NoUndo)

\* LoadBlockIndex, LoadGenesisBlock, then ReplayBlocks or LoadChainTip.
Restart ==
  /\ pc = "down"
  /\ index' = diskIndex \cup {Genesis} /\ undo' = diskUndo
  /\ IF dbHeads = <<>>
     THEN /\ pc' = IF dbBest \in index' \cup {NoBlock} THEN "running" ELSE "failed"
          /\ tip' = EmptyCache /\ tipBest' = dbBest /\ chainTip' = dbBest
     ELSE /\ chainTip' = NoBlock
          /\ IF ReplayFails
             THEN pc' = "failed" /\ UNCHANGED <<tip, tipBest>>
             ELSE pc' = "replay" /\ tip' = ReplayedCache /\ tipBest' = dbHeads[1]
  /\ UNCHANGED <<coinsDB, synced, blockTreeDB, stakeIndex>>

Next ==
  \/ \E b \in Block : AcceptBlock(b) \/ ConnectTip(b)
  \/ DisconnectTip
  \/ FlushStateToDisk \/ PeriodicWrite \/ WriteIndex
  \/ \E S \in SUBSET OutPoint : WritePartialBatch(S)
  \/ WriteLastBatch
  \/ Crash \/ Restart

Spec == Init /\ [][Next]_vars

-----------------------------------------------------------------------------

\* Reference: the unspent outputs after a block, straight from its chain.
utxo[b \in Block] ==
  IF b = Genesis THEN AllSpent
  ELSE [o \in OutPoint |->
          CASE o \in Inputs(b) -> Spent
            [] o \in Outputs(b) \ Inputs(b) -> Height[b]
            [] OTHER -> utxo[Parent[b]][o]]

UtxoAt(b) == IF b = NoBlock THEN AllSpent ELSE utxo[b]

(***************************************************************************)
(* Whenever the node runs, the coins it validates against are exactly the  *)
(* unspent outputs of its active chain: through reorganisations, cache     *)
(* merges, flushes in several batches and recoveries (ConnectTip,          *)
(* DisconnectTip, FlushStateToDisk, ReplayBlocks).                         *)
(***************************************************************************)
ActiveCoins ==
  pc \in {"running", "writeIndex", "writeCoins"} =>
    TipLookup = UtxoAt(chainTip) /\ tipBest = chainTip

(***************************************************************************)
(* The coins database always says what it holds: with DB_BEST_BLOCK set it *)
(* is the unspent outputs of that block, and with DB_HEAD_BLOCKS set each  *)
(* coin is that of the old head or that of the new one (txdb.cpp 83-142).  *)
(* The same holds of what a power failure leaves.                          *)
(***************************************************************************)
Describes(coins, best, heads) ==
  IF heads = <<>>
  THEN coins = UtxoAt(best)
  ELSE /\ best = NoBlock
       /\ \A o \in OutPoint : coins[o] \in {UtxoAt(heads[1])[o], UtxoAt(heads[2])[o]}

DatabaseDescribed ==
  /\ Describes(db, dbBest, dbHeads)
  /\ Describes(synced[1], synced[2], synced[3])

(***************************************************************************)
(* No step meets its assertions or errors: the best block matches the tip, *)
(* spends succeed, disconnections are clean, no flush starts over another  *)
(* one's heads (txdb.cpp 96), and ReplayBlocks and LoadChainTip find every *)
(* block and all undo data they need.                                      *)
(***************************************************************************)
NeverFails == pc # "failed"

(***************************************************************************)
(* A replay completes the interrupted flush: the cache of ReplayBlocks     *)
(* above the half-written database is the new head's unspent outputs, also *)
(* if replaying is itself interrupted and repeated (validation.cpp 5443).  *)
(***************************************************************************)
ReplayCompletes == pc = "replay" => TipLookup = UtxoAt(tipBest)

(***************************************************************************)
(* "Apply the block atomically to the chain state" (validation.cpp 3134,   *)
(* 3241), for the stake index that ConnectBlock and DisconnectBlock change *)
(* along with the coins: each entry up to the tip was written by the block *)
(* of the active chain at its height.  A crash after a reorganisation      *)
(* breaks it (README, section 4).                                          *)
(***************************************************************************)
StakeIndexActive ==
  pc = "running" /\ chainTip # NoBlock =>
    \A b \in ancestors[chainTip] \ {Genesis} : stakeIndex[Height[b]] = b
=============================================================================
