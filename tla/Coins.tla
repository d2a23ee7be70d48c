------------------------------- MODULE Coins -------------------------------
(***************************************************************************)
(* The coin containers of coins.h / coins.cpp as operators on values.      *)
(*                                                                         *)
(* A coin is Spent (a nulled Coin object) or an element of Coin.  A coins  *)
(* view is read through the function it denotes, from outpoints to coins;  *)
(* a CCoinsViewCache additionally holds, per outpoint, NoEntry or a        *)
(* CCoinsCacheEntry with its DIRTY and FRESH flags.                        *)
(***************************************************************************)

CONSTANTS
  OutPoint,     \* the outpoints
  Coin,         \* the unspent coins (amount, script, height, coinbase bit)
  Unspendable,  \* coins whose scriptPubKey.IsUnspendable()
  Spent,        \* a Coin after Clear(), and the answer of a view without the coin
  NoEntry       \* cacheCoins has no element for the outpoint

\* What a view can hold: unspendable coins are never stored.
AnyCoin == (Coin \ Unspendable) \cup {Spent}

CCoinsCacheEntry == [coin : AnyCoin, dirty : BOOLEAN, fresh : BOOLEAN]

ASSUME CoinsAssumption ==
  /\ Unspendable \subseteq Coin
  /\ Spent \notin Coin
  /\ NoEntry \notin CCoinsCacheEntry

\* cacheCoins
CCoinsMap == [OutPoint -> CCoinsCacheEntry \cup {NoEntry}]

\* the function a view denotes
CoinMap == [OutPoint -> AnyCoin]

EmptyCache == [o \in OutPoint |-> NoEntry]

Entry(c, dirty, fresh) == [coin |-> c, dirty |-> dirty, fresh |-> fresh]

(***************************************************************************)
(* What GetCoin answers for each outpoint on a cache above a view that     *)
(* denotes base.  FetchCoin changes neither.                               *)
(***************************************************************************)
Lookup(cache, base) ==
  [o \in OutPoint |-> IF cache[o] = NoEntry THEN base[o] ELSE cache[o].coin]

(***************************************************************************)
(* CCoinsViewCache::FetchCoin: a miss asks the base and keeps a clean      *)
(* entry for a coin it has.  The base's GetCoin returns false for a spent  *)
(* coin, so the branch that would cache a spent coin as FRESH is dead.     *)
(***************************************************************************)
FetchCoin(cache, base, o) ==
  IF cache[o] # NoEntry \/ base[o] = Spent
  THEN cache
  ELSE [cache EXCEPT ![o] = Entry(base[o], FALSE, FALSE)]

\* AddCoin throws std::logic_error.
AddCoinThrows(cache, o, c, overwrite) ==
  /\ c \notin Unspendable
  /\ ~overwrite
  /\ cache[o] # NoEntry
  /\ cache[o].coin # Spent

(***************************************************************************)
(* CCoinsViewCache::AddCoin, when it does not throw.                       *)
(***************************************************************************)
AddCoin(cache, o, c, overwrite) ==
  LET e == IF cache[o] = NoEntry THEN Entry(Spent, FALSE, FALSE) ELSE cache[o]
  IN  IF c \in Unspendable
      THEN cache
      ELSE [cache EXCEPT ![o] = Entry(c, TRUE, e.fresh \/ (~overwrite /\ ~e.dirty))]

(***************************************************************************)
(* CCoinsViewCache::SpendCoin: a FRESH entry is erased, any other is kept  *)
(* as a dirty spent coin.                                                  *)
(***************************************************************************)
SpendCoin(cache, base, o) ==
  LET fetched == FetchCoin(cache, base, o)
  IN  CASE fetched[o] = NoEntry -> fetched
        [] fetched[o] # NoEntry /\ fetched[o].fresh -> [fetched EXCEPT ![o] = NoEntry]
        [] OTHER -> [fetched EXCEPT ![o] = Entry(Spent, TRUE, FALSE)]

\* CCoinsViewCache::Uncache
Uncache(cache, o) ==
  IF cache[o] # NoEntry /\ ~cache[o].dirty /\ ~cache[o].fresh
  THEN [cache EXCEPT ![o] = NoEntry]
  ELSE cache

\* A plausible mistake: the child's FRESH flag is also merged into an existing entry.
MergeEntryFresh(child, parent) ==
  CASE child = NoEntry -> parent
    [] child # NoEntry /\ ~child.dirty -> parent
    [] OTHER -> Entry(child.coin, TRUE, child.fresh)

(***************************************************************************)
(* CCoinsViewCache::BatchWrite for one outpoint: the entry of the child    *)
(* merged into the entry of the parent.                                    *)
(***************************************************************************)
MergeEntry(child, parent) ==
  CASE child = NoEntry -> parent
    [] child # NoEntry /\ ~child.dirty -> parent
    [] child # NoEntry /\ child.dirty /\ parent = NoEntry ->
         IF child.fresh /\ child.coin = Spent
         THEN NoEntry
         ELSE Entry(child.coin, TRUE, child.fresh)
    [] OTHER ->
         IF parent.fresh /\ child.coin = Spent
         THEN NoEntry
         ELSE Entry(child.coin, TRUE, parent.fresh)

\* BatchWrite throws std::logic_error for this outpoint: FRESH was misapplied.
MergeThrows(child, parent) ==
  /\ child # NoEntry /\ parent # NoEntry
  /\ child.dirty /\ child.fresh
  /\ parent.coin # Spent

\* CCoinsViewCache::BatchWrite, when no outpoint throws.
BatchWrite(child, parent) ==
  [o \in OutPoint |-> MergeEntry(child[o], parent[o])]

\* The entries CCoinsViewDB::BatchWrite writes or erases.
Dirty(cache) == {o \in OutPoint : cache[o] # NoEntry /\ cache[o].dirty}

\* A plausible mistake: only unspent coins reach the database.
WriteEntriesUnspentOnly(cache, S, db) ==
  [o \in OutPoint |-> IF o \in S \cap Dirty(cache) /\ cache[o].coin # Spent
                      THEN cache[o].coin ELSE db[o]]

\* The database after the dirty entries among S have been written or erased.
WriteEntries(cache, S, db) ==
  [o \in OutPoint |-> IF o \in S \cap Dirty(cache) THEN cache[o].coin ELSE db[o]]

(***************************************************************************)
(* The invariant of one cache above a view that denotes base: a clean      *)
(* entry repeats the base, and FRESH is only set where the base has no     *)
(* unspent coin.                                                           *)
(***************************************************************************)
CacheConsistent(cache, base) ==
  \A o \in OutPoint :
    cache[o] # NoEntry =>
      /\ ~cache[o].dirty => cache[o].coin = base[o]
      /\ cache[o].fresh => base[o] = Spent

\* The combinations of flags that the comment on CCoinsCacheEntry allows.
ValidFlags(e) ==
  \/ e.coin # Spent /\ e.fresh  /\ e.dirty
  \/ e.coin # Spent /\ ~e.fresh
  \/ e.coin = Spent /\ e.fresh  /\ ~e.dirty
  \/ e.coin = Spent /\ ~e.fresh /\ e.dirty
=============================================================================
