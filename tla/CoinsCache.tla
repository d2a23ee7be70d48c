----------------------------- MODULE CoinsCache -----------------------------
(***************************************************************************)
(* The stack of coins views validation works on: the coins database, the   *)
(* CoinsTip() cache above it, and the short-lived view that ConnectTip,    *)
(* DisconnectTip, TestBlockValidity, VerifyDB and MemPoolAccept put above  *)
(* CoinsTip().  One action per operation on the stack; cs_main makes each  *)
(* of them atomic.  A database write is one step here; ChainstateFlush     *)
(* splits it in the batches of CCoinsViewDB::BatchWrite.                   *)
(***************************************************************************)
EXTENDS Coins

CONSTANTS
  Hash,      \* block hashes
  NullHash   \* uint256()

ASSUME HashAssumption == NullHash \notin Hash

VARIABLES
  db,        \* coins in CCoinsViewDB
  dbBest,    \* DB_BEST_BLOCK
  tip,       \* cacheCoins of CoinsTip()
  tipBest,   \* hashBlock of CoinsTip()
  view,      \* cacheCoins of the view above CoinsTip()
  viewBest,  \* hashBlock of that view
  viewOpen,  \* that view exists
  thrown     \* a std::logic_error left AddCoin or BatchWrite

vars == <<db, dbBest, tip, tipBest, view, viewBest, viewOpen, thrown>>
dbVars == <<db, dbBest>>
tipVars == <<tip, tipBest>>
viewVars == <<view, viewBest, viewOpen>>

AnyHash == Hash \cup {NullHash}

TypeOK ==
  /\ db \in CoinMap /\ dbBest \in AnyHash
  /\ tip \in CCoinsMap /\ tipBest \in AnyHash
  /\ view \in CCoinsMap /\ viewBest \in AnyHash
  /\ viewOpen \in BOOLEAN
  /\ thrown \in BOOLEAN

TipLookup == Lookup(tip, db)
ViewLookup == Lookup(view, TipLookup)

\* CCoinsViewCache::GetBestBlock: an unset hashBlock is taken from the base.
GetBestBlock(hashBlock, base) == IF hashBlock = NullHash THEN base ELSE hashBlock

Init ==
  /\ db = [o \in OutPoint |-> Spent] /\ dbBest = NullHash
  /\ tip = EmptyCache /\ tipBest = NullHash
  /\ view = EmptyCache /\ viewBest = NullHash /\ viewOpen = FALSE
  /\ thrown = FALSE

(***************************************************************************)
(* Reads.  A miss in the view asks CoinsTip(), whose GetCoin is a          *)
(* FetchCoin of its own.                                                   *)
(***************************************************************************)
TipAfterFetch(o) == IF view[o] = NoEntry THEN FetchCoin(tip, db, o) ELSE tip

ReadView(o) ==
  /\ viewOpen /\ ~thrown
  /\ view' = FetchCoin(view, TipLookup, o)
  /\ tip' = TipAfterFetch(o)
  /\ UNCHANGED <<dbVars, tipBest, viewBest, viewOpen, thrown>>

ReadTip(o) ==
  /\ ~thrown
  /\ tip' = FetchCoin(tip, db, o)
  /\ UNCHANGED <<dbVars, tipBest, viewVars, thrown>>

\* view.GetBestBlock(): each level below is asked only if the one above has none.
ReadViewBest ==
  /\ viewOpen /\ ~thrown
  /\ tipBest' = IF viewBest = NullHash THEN GetBestBlock(tipBest, dbBest) ELSE tipBest
  /\ viewBest' = GetBestBlock(viewBest, tipBest')
  /\ UNCHANGED <<dbVars, tip, view, viewOpen, thrown>>

\* CoinsTip().Uncache, called by AcceptToMemoryPool once its view is gone
UncacheTip(o) ==
  /\ ~viewOpen /\ ~thrown
  /\ tip' = Uncache(tip, o)
  /\ UNCHANGED <<dbVars, tipBest, viewVars, thrown>>

(***************************************************************************)
(* The life of the view above CoinsTip().                                  *)
(***************************************************************************)
OpenView ==
  /\ ~viewOpen /\ ~thrown
  /\ viewOpen' = TRUE
  /\ view' = EmptyCache /\ viewBest' = NullHash
  /\ UNCHANGED <<dbVars, tipVars, thrown>>

SpendInView(o) ==
  /\ viewOpen /\ ~thrown
  /\ view' = SpendCoin(view, TipLookup, o)
  /\ tip' = TipAfterFetch(o)
  /\ UNCHANGED <<dbVars, tipBest, viewBest, viewOpen, thrown>>

\* AddCoin throws or changes the view.
AddToView(o, c, overwrite) ==
  /\ thrown' = AddCoinThrows(view, o, c, overwrite)
  /\ view' = IF thrown' THEN view ELSE AddCoin(view, o, c, overwrite)
  /\ UNCHANGED <<dbVars, tipVars, viewBest, viewOpen>>

(***************************************************************************)
(* AddCoins without check_for_overwrite, from UpdateCoins: an output of a  *)
(* coinbase may overwrite; the outputs of any other transaction are not in *)
(* the set, since two transactions with one txid spend the same inputs.    *)
(***************************************************************************)
AddOutput(o, c, coinbase) ==
  /\ viewOpen /\ ~thrown
  /\ coinbase \/ ViewLookup[o] = Spent
  /\ AddToView(o, c, coinbase)

\* A plausible mistake: an undone input is restored as if it could never exist.
RestoreInputUnchecked(o, c) ==
  /\ viewOpen /\ ~thrown
  /\ AddToView(o, c, FALSE)

(***************************************************************************)
(* ApplyTxInUndo, and AddCoins with check_for_overwrite: HaveCoin decides  *)
(* whether the addition is an overwrite.                                   *)
(***************************************************************************)
RestoreInput(o, c) ==
  /\ viewOpen /\ ~thrown
  /\ LET fetched == FetchCoin(view, TipLookup, o)
         haveCoin == ViewLookup[o] # Spent
     IN  /\ thrown' = AddCoinThrows(fetched, o, c, haveCoin)
         /\ view' = IF thrown' THEN fetched ELSE AddCoin(fetched, o, c, haveCoin)
  /\ tip' = TipAfterFetch(o)
  /\ UNCHANGED <<dbVars, tipBest, viewBest, viewOpen>>

SetBestBlock(b) ==
  /\ viewOpen /\ ~thrown
  /\ viewBest' = b
  /\ UNCHANGED <<dbVars, tipVars, view, viewOpen, thrown>>

(***************************************************************************)
(* view.Flush() of ConnectTip and DisconnectTip, after ConnectBlock or     *)
(* DisconnectBlock has set the best block; then the view is destroyed.     *)
(***************************************************************************)
FlushView ==
  /\ viewOpen /\ ~thrown /\ viewBest # NullHash
  /\ thrown' = \E o \in OutPoint : MergeThrows(view[o], tip[o])
  /\ IF thrown'
     THEN UNCHANGED <<tipVars, viewVars>>
     ELSE /\ tip' = BatchWrite(view, tip) /\ tipBest' = viewBest
          /\ view' = EmptyCache /\ viewBest' = NullHash /\ viewOpen' = FALSE
  /\ UNCHANGED dbVars

\* The view is destroyed without Flush: the block was invalid, or only tested.
DropView ==
  /\ viewOpen /\ ~thrown
  /\ view' = EmptyCache /\ viewBest' = NullHash /\ viewOpen' = FALSE
  /\ UNCHANGED <<dbVars, tipVars, thrown>>

(***************************************************************************)
(* CoinsTip().Flush() in FlushStateToDisk, which skips it while the best   *)
(* block is null.                                                          *)
(***************************************************************************)
FlushTip ==
  /\ ~viewOpen /\ ~thrown /\ GetBestBlock(tipBest, dbBest) # NullHash
  /\ db' = WriteEntries(tip, OutPoint, db)
  /\ tipBest' = GetBestBlock(tipBest, dbBest)
  /\ dbBest' = tipBest'
  /\ tip' = EmptyCache
  /\ UNCHANGED <<viewVars, thrown>>

Next ==
  \/ \E o \in OutPoint : ReadView(o) \/ ReadTip(o) \/ UncacheTip(o) \/ SpendInView(o)
  \/ \E o \in OutPoint, c \in Coin :
       RestoreInput(o, c) \/ \E coinbase \in BOOLEAN : AddOutput(o, c, coinbase)
  \/ \E b \in Hash : SetBestBlock(b)
  \/ ReadViewBest \/ OpenView \/ FlushView \/ DropView \/ FlushTip

Spec == Init /\ [][Next]_vars

-----------------------------------------------------------------------------

(***************************************************************************)
(* Clean entries repeat the view below, and FRESH is only set where that   *)
(* view has no unspent coin: the fact that lets SpendCoin and BatchWrite   *)
(* erase FRESH entries instead of writing them down (coins.cpp 121, 195).  *)
(***************************************************************************)
FlagsSound ==
  /\ CacheConsistent(tip, db)
  /\ CacheConsistent(view, TipLookup)

(***************************************************************************)
(* Only the combinations of spent, DIRTY and FRESH that the comment on     *)
(* CCoinsCacheEntry lists (coins.h 128-133) ever occur, in either cache.   *)
(***************************************************************************)
FlagsValid ==
  \A o \in OutPoint :
    /\ tip[o] # NoEntry => ValidFlags(tip[o])
    /\ view[o] # NoEntry => ValidFlags(view[o])

(***************************************************************************)
(* No operation of validation makes AddCoin or BatchWrite throw            *)
(* std::logic_error (coins.cpp 80 and 192).                                *)
(***************************************************************************)
NeverThrows == ~thrown

(***************************************************************************)
(* Through both caches, with their erasures, merges and evictions,         *)
(* validation sees a plain map per level: reads change nothing, a commit   *)
(* makes the active map equal to the edited one, a dropped view leaves no  *)
(* trace, and a flush makes the database equal to the active map.          *)
(***************************************************************************)
Version(coins, best) == [coins |-> coins, best |-> best]

TipHash == GetBestBlock(tipBest, dbBest)

Map == INSTANCE CoinsMap WITH
  disk    <- Version(db, dbBest),
  active  <- Version(TipLookup, TipHash),
  work    <- Version(ViewLookup, GetBestBlock(viewBest, TipHash)),
  working <- viewOpen

RefinesMap == Map!Spec
=============================================================================
