-------------------------- MODULE CoinsCacheProofs --------------------------
(***************************************************************************)
(* Proofs about CoinsCache, for any sets of outpoints, coins and hashes.   *)
(* The lemmas say what each cache operation does to the function a cache   *)
(* denotes and to CacheConsistent; the theorems put them together.         *)
(***************************************************************************)
EXTENDS CoinsCache, TLAPS

\* An entry is its three fields, and is not NoEntry.
LEMMA EntryLemma ==
  ASSUME NEW x \in AnyCoin, NEW d \in BOOLEAN, NEW f \in BOOLEAN
  PROVE  /\ Entry(x, d, f) \in CCoinsCacheEntry
         /\ Entry(x, d, f) # NoEntry
         /\ Entry(x, d, f).coin = x
         /\ Entry(x, d, f).dirty = d
         /\ Entry(x, d, f).fresh = f
BY CoinsAssumption DEF CoinsAssumption, Entry, CCoinsCacheEntry

\* A cache above a view denotes a coin map.
LEMMA LookupType ==
  ASSUME NEW cache \in CCoinsMap, NEW base \in CoinMap
  PROVE  Lookup(cache, base) \in CoinMap
BY DEF Lookup, CCoinsMap, CoinMap, CCoinsCacheEntry

\* The invariant required of one entry above a view that holds b.
EntryConsistent(e, b) ==
  e # NoEntry =>
    /\ ~e.dirty => e.coin = b
    /\ e.fresh => b = Spent

\* What a cache answers for one entry above a view that holds b.
EntryCoin(e, b) == IF e = NoEntry THEN b ELSE e.coin

\* Replacing one entry by a consistent one changes the cache at that outpoint only.
LEMMA UpdateLemma ==
  ASSUME NEW cache \in CCoinsMap, NEW base \in CoinMap, NEW o \in OutPoint,
         NEW e \in CCoinsCacheEntry \cup {NoEntry},
         CacheConsistent(cache, base), EntryConsistent(e, base[o])
  PROVE  /\ [cache EXCEPT ![o] = e] \in CCoinsMap
         /\ CacheConsistent([cache EXCEPT ![o] = e], base)
         /\ Lookup([cache EXCEPT ![o] = e], base)
              = [Lookup(cache, base) EXCEPT ![o] = EntryCoin(e, base[o])]
<1> DEFINE u == [cache EXCEPT ![o] = e]
<1>1. u \in CCoinsMap /\ u[o] = e /\ \A q \in OutPoint : q # o => u[q] = cache[q]
  BY DEF CCoinsMap
<1> HIDE DEF u
<1>2. CacheConsistent(u, base)
  BY <1>1 DEF CacheConsistent, EntryConsistent
<1>3. Lookup(u, base) = [Lookup(cache, base) EXCEPT ![o] = EntryCoin(e, base[o])]
  BY <1>1, Zenon DEF Lookup, EntryCoin
<1>4. QED
  BY <1>1, <1>2, <1>3 DEF u

\* FetchCoin keeps the invariant of the cache and never changes what it denotes.
LEMMA FetchLemma ==
  ASSUME NEW cache \in CCoinsMap, NEW base \in CoinMap, NEW o \in OutPoint,
         CacheConsistent(cache, base)
  PROVE  /\ FetchCoin(cache, base, o) \in CCoinsMap
         /\ CacheConsistent(FetchCoin(cache, base, o), base)
         /\ Lookup(FetchCoin(cache, base, o), base) = Lookup(cache, base)
<1> DEFINE e == Entry(base[o], FALSE, FALSE)
<1>1. e \in CCoinsCacheEntry /\ e # NoEntry /\ e.coin = base[o] /\ ~e.dirty /\ ~e.fresh
  BY EntryLemma, Zenon DEF CoinMap
<1>2. CASE cache[o] # NoEntry \/ base[o] = Spent
  BY <1>2 DEF FetchCoin
<1>3. CASE ~(cache[o] # NoEntry \/ base[o] = Spent)
  <2>1. FetchCoin(cache, base, o) = [cache EXCEPT ![o] = e]
    BY <1>3 DEF FetchCoin
  <2> HIDE DEF e
  <2>2. EntryConsistent(e, base[o]) /\ EntryCoin(e, base[o]) = base[o]
    BY <1>1 DEF EntryConsistent, EntryCoin
  <2>3. [Lookup(cache, base) EXCEPT ![o] = base[o]] = Lookup(cache, base)
    BY <1>3, Zenon DEF Lookup
  <2>4. /\ [cache EXCEPT ![o] = e] \in CCoinsMap
        /\ CacheConsistent([cache EXCEPT ![o] = e], base)
        /\ Lookup([cache EXCEPT ![o] = e], base)
             = [Lookup(cache, base) EXCEPT ![o] = EntryCoin(e, base[o])]
    BY <1>1, <2>2, UpdateLemma
  <2>5. QED
    BY <2>1, <2>2, <2>3, <2>4
<1>4. QED
  BY <1>2, <1>3

\* SpendCoin keeps the invariant and makes exactly o spent.
LEMMA SpendLemma ==
  ASSUME NEW cache \in CCoinsMap, NEW base \in CoinMap, NEW o \in OutPoint,
         CacheConsistent(cache, base)
  PROVE  /\ SpendCoin(cache, base, o) \in CCoinsMap
         /\ CacheConsistent(SpendCoin(cache, base, o), base)
         /\ Lookup(SpendCoin(cache, base, o), base)
              = [Lookup(cache, base) EXCEPT ![o] = Spent]
<1> DEFINE f == FetchCoin(cache, base, o)
           e == Entry(Spent, TRUE, FALSE)
<1>1. /\ f \in CCoinsMap
      /\ CacheConsistent(f, base)
      /\ Lookup(f, base) = Lookup(cache, base)
  BY FetchLemma
<1>2. e \in CCoinsCacheEntry /\ e # NoEntry /\ e.coin = Spent /\ e.dirty /\ ~e.fresh
  BY EntryLemma, Zenon DEF AnyCoin
<1>3. f[o] = NoEntry => base[o] = Spent
  BY <1>1, EntryLemma, Zenon DEF FetchCoin, CCoinsMap, CoinMap
<1>4. CASE f[o] = NoEntry
  <2>1. SpendCoin(cache, base, o) = f
    BY <1>4 DEF SpendCoin
  <2> HIDE DEF f
  <2>2. [Lookup(f, base) EXCEPT ![o] = Spent] = Lookup(f, base)
    BY <1>3, <1>4, Zenon DEF Lookup
  <2>3. QED
    BY <1>1, <2>1, <2>2
<1>5. CASE f[o] # NoEntry /\ f[o].fresh
  <2>1. SpendCoin(cache, base, o) = [f EXCEPT ![o] = NoEntry]
    BY <1>5 DEF SpendCoin
  <2> HIDE DEF f
  <2>2. EntryConsistent(NoEntry, base[o]) /\ EntryCoin(NoEntry, base[o]) = Spent
    BY <1>1, <1>5 DEF CacheConsistent, EntryConsistent, EntryCoin
  <2>3. /\ [f EXCEPT ![o] = NoEntry] \in CCoinsMap
        /\ CacheConsistent([f EXCEPT ![o] = NoEntry], base)
        /\ Lookup([f EXCEPT ![o] = NoEntry], base)
             = [Lookup(f, base) EXCEPT ![o] = EntryCoin(NoEntry, base[o])]
    BY <1>1, <2>2, UpdateLemma
  <2>4. QED
    BY <1>1, <2>1, <2>2, <2>3
<1>6. CASE f[o] # NoEntry /\ ~f[o].fresh
  <2>1. SpendCoin(cache, base, o) = [f EXCEPT ![o] = e]
    BY <1>6 DEF SpendCoin
  <2> HIDE DEF f, e
  <2>2. EntryConsistent(e, base[o]) /\ EntryCoin(e, base[o]) = Spent
    BY <1>2 DEF EntryConsistent, EntryCoin
  <2>3. /\ [f EXCEPT ![o] = e] \in CCoinsMap
        /\ CacheConsistent([f EXCEPT ![o] = e], base)
        /\ Lookup([f EXCEPT ![o] = e], base)
             = [Lookup(f, base) EXCEPT ![o] = EntryCoin(e, base[o])]
    BY <1>1, <1>2, <2>2, UpdateLemma
  <2>4. QED
    BY <1>1, <2>1, <2>2, <2>3
<1>7. QED
  BY <1>4, <1>5, <1>6

\* What a call of AddCoin relies on, and what it is then sure to do.
AddAllowed(cache, base, o, overwrite) ==
  /\ CacheConsistent(cache, base)
  /\ overwrite \/ Lookup(cache, base)[o] = Spent

AddOutcome(cache, base, o, c, overwrite) ==
  /\ ~AddCoinThrows(cache, o, c, overwrite)
  /\ AddCoin(cache, o, c, overwrite) \in CCoinsMap
  /\ CacheConsistent(AddCoin(cache, o, c, overwrite), base)
  /\ Lookup(AddCoin(cache, o, c, overwrite), base) =
       IF c \in Unspendable THEN Lookup(cache, base)
       ELSE [Lookup(cache, base) EXCEPT ![o] = c]

(***************************************************************************)
(* AddCoin, called with possible_overwrite or where the cache denotes no   *)
(* coin, does not throw, keeps the invariant and sets exactly o, unless    *)
(* the coin is unspendable and is dropped.                                 *)
(***************************************************************************)
LEMMA AddLemma ==
  ASSUME NEW cache \in CCoinsMap, NEW base \in CoinMap, NEW o \in OutPoint,
         NEW c \in Coin, NEW overwrite \in BOOLEAN,
         AddAllowed(cache, base, o, overwrite)
  PROVE  AddOutcome(cache, base, o, c, overwrite)
<1> USE DEF AddAllowed, AddOutcome
<1> DEFINE e == IF cache[o] = NoEntry THEN Entry(Spent, FALSE, FALSE) ELSE cache[o]
           n == Entry(c, TRUE, e.fresh \/ (~overwrite /\ ~e.dirty))
<1>1. ~AddCoinThrows(cache, o, c, overwrite)
  BY DEF AddCoinThrows, Lookup
<1>2. AddCoin(cache, o, c, overwrite)
        = IF c \in Unspendable THEN cache ELSE [cache EXCEPT ![o] = n]
  BY DEF AddCoin
<1>3. e \in CCoinsCacheEntry
  BY EntryLemma, Zenon DEF AnyCoin, CCoinsMap
<1>4. ASSUME c \notin Unspendable
      PROVE  n \in CCoinsCacheEntry /\ n # NoEntry /\ n.coin = c /\ n.dirty = TRUE
             /\ n.fresh = (e.fresh \/ (~overwrite /\ ~e.dirty))
  <2>1. e.fresh \in BOOLEAN /\ e.dirty \in BOOLEAN
    BY <1>3, Zenon DEF CCoinsCacheEntry
  <2> HIDE DEF e
  <2>2. QED
    BY <1>4, <2>1, EntryLemma, Zenon DEF AnyCoin
<1>5. e.fresh \/ (~overwrite /\ ~e.dirty) => base[o] = Spent
  <2>1. CASE cache[o] = NoEntry
    BY <2>1, EntryLemma, Zenon DEF Lookup, AnyCoin
  <2>2. CASE cache[o] # NoEntry
    BY <2>2 DEF CacheConsistent, Lookup
  <2>3. QED
    BY <2>1, <2>2, Zenon
<1> HIDE DEF n, e
<1>6. CASE c \in Unspendable
  BY <1>1, <1>2, <1>6
<1>7. CASE c \notin Unspendable
  <2>1. EntryConsistent(n, base[o]) /\ EntryCoin(n, base[o]) = c
    BY <1>4, <1>5, <1>7, Zenon DEF EntryConsistent, EntryCoin
  <2>2. /\ [cache EXCEPT ![o] = n] \in CCoinsMap
        /\ CacheConsistent([cache EXCEPT ![o] = n], base)
        /\ Lookup([cache EXCEPT ![o] = n], base)
             = [Lookup(cache, base) EXCEPT ![o] = EntryCoin(n, base[o])]
    BY <1>4, <1>7, <2>1, UpdateLemma
  <2>3. QED
    BY <1>1, <1>2, <1>7, <2>1, <2>2
<1>8. QED
  BY <1>6, <1>7

(***************************************************************************)
(* BatchWrite of a consistent child into its consistent parent never finds *)
(* FRESH misapplied, and the parent then denotes what the child did.       *)
(***************************************************************************)
LEMMA MergeLemma ==
  ASSUME NEW child \in CCoinsMap, NEW parent \in CCoinsMap, NEW base \in CoinMap,
         CacheConsistent(parent, base),
         CacheConsistent(child, Lookup(parent, base))
  PROVE  /\ \A o \in OutPoint : ~MergeThrows(child[o], parent[o])
         /\ BatchWrite(child, parent) \in CCoinsMap
         /\ CacheConsistent(BatchWrite(child, parent), base)
         /\ Lookup(BatchWrite(child, parent), base) = Lookup(child, Lookup(parent, base))
<1> DEFINE m(o) == MergeEntry(child[o], parent[o])
<1>1. ASSUME NEW o \in OutPoint
      PROVE  /\ ~MergeThrows(child[o], parent[o])
             /\ m(o) \in CCoinsCacheEntry \cup {NoEntry}
             /\ EntryConsistent(m(o), base[o])
             /\ EntryCoin(m(o), base[o]) = EntryCoin(child[o], EntryCoin(parent[o], base[o]))
  <2> DEFINE c == child[o]
             p == parent[o]
             b == base[o]
  <2>1. /\ c \in CCoinsCacheEntry \cup {NoEntry}
        /\ p \in CCoinsCacheEntry \cup {NoEntry}
        /\ EntryConsistent(p, b)
        /\ EntryConsistent(c, EntryCoin(p, b))
    BY DEF CCoinsMap, CacheConsistent, Lookup, EntryConsistent, EntryCoin
  <2>2. ~MergeThrows(c, p)
    BY <2>1 DEF MergeThrows, EntryConsistent, EntryCoin
  <2>3. /\ c # NoEntry => c.coin \in AnyCoin /\ c.fresh \in BOOLEAN /\ c.dirty \in BOOLEAN
        /\ p # NoEntry => p.coin \in AnyCoin /\ p.fresh \in BOOLEAN /\ p.dirty \in BOOLEAN
    BY <2>1 DEF CCoinsCacheEntry
  <2> HIDE DEF c, p, b
  <2>4. /\ MergeEntry(c, p) \in CCoinsCacheEntry \cup {NoEntry}
        /\ EntryConsistent(MergeEntry(c, p), b)
        /\ EntryCoin(MergeEntry(c, p), b) = EntryCoin(c, EntryCoin(p, b))
    <3>1. CASE c = NoEntry
      BY <2>1, <3>1 DEF MergeEntry, EntryCoin
    <3>2. CASE c # NoEntry /\ ~c.dirty
      <4>1. MergeEntry(c, p) = p
        BY <3>2, Zenon DEF MergeEntry
      <4>2. QED
        BY <2>1, <3>2, <4>1 DEF EntryConsistent, EntryCoin
    <3>3. CASE c # NoEntry /\ c.dirty /\ p = NoEntry
      <4>1. CASE c.fresh /\ c.coin = Spent
        <5>1. MergeEntry(c, p) = NoEntry
          BY <3>3, <4>1 DEF MergeEntry
        <5>2. QED
          BY <2>1, <3>3, <4>1, <5>1 DEF EntryConsistent, EntryCoin
      <4>2. CASE ~(c.fresh /\ c.coin = Spent)
        <5> DEFINE e == Entry(c.coin, TRUE, c.fresh)
        <5>1. MergeEntry(c, p) = e
          BY <3>3, <4>2, Zenon DEF MergeEntry
        <5>2. e \in CCoinsCacheEntry /\ e # NoEntry /\ e.coin = c.coin
              /\ e.dirty = TRUE /\ e.fresh = c.fresh
          <6>1. c.coin \in AnyCoin /\ c.fresh \in BOOLEAN /\ TRUE \in BOOLEAN
            BY <2>3, <3>3
          <6>2. QED
            BY ONLY <6>1, EntryLemma, Zenon
        <5> HIDE DEF e
        <5>3. QED
          BY <2>1, <3>3, <5>1, <5>2 DEF EntryConsistent, EntryCoin
      <4>3. QED
        BY <4>1, <4>2
    <3>4. CASE c # NoEntry /\ c.dirty /\ p # NoEntry
      <4>1. CASE p.fresh /\ c.coin = Spent
        <5>1. MergeEntry(c, p) = NoEntry
          BY <3>4, <4>1 DEF MergeEntry
        <5>2. QED
          BY <2>1, <3>4, <4>1, <5>1 DEF EntryConsistent, EntryCoin
      <4>2. CASE ~(p.fresh /\ c.coin = Spent)
        <5> DEFINE e == Entry(c.coin, TRUE, p.fresh)
        <5>1. MergeEntry(c, p) = e
          BY <3>4, <4>2, Zenon DEF MergeEntry
        <5>2. e \in CCoinsCacheEntry /\ e # NoEntry /\ e.coin = c.coin
              /\ e.dirty = TRUE /\ e.fresh = p.fresh
          <6>1. c.coin \in AnyCoin /\ p.fresh \in BOOLEAN /\ TRUE \in BOOLEAN
            BY <2>3, <3>4
          <6>2. QED
            BY ONLY <6>1, EntryLemma, Zenon
        <5> HIDE DEF e
        <5>3. QED
          BY <2>1, <3>4, <5>1, <5>2 DEF EntryConsistent, EntryCoin
      <4>3. QED
        BY <4>1, <4>2
    <3>5. QED
      BY <3>1, <3>2, <3>3, <3>4, <2>3
  <2>5. QED
    BY <2>2, <2>4 DEF c, p, b
<1> HIDE DEF m
<1>2. BatchWrite(child, parent) = [o \in OutPoint |-> m(o)]
  BY DEF BatchWrite, m
<1>3. BatchWrite(child, parent) \in CCoinsMap
  BY <1>1, <1>2 DEF CCoinsMap
<1>4. CacheConsistent(BatchWrite(child, parent), base)
  BY <1>1, <1>2 DEF CacheConsistent, EntryConsistent
<1>5. Lookup(BatchWrite(child, parent), base) = Lookup(child, Lookup(parent, base))
  BY <1>1, <1>2 DEF Lookup, EntryCoin
<1>6. QED
  BY <1>1, <1>3, <1>4, <1>5

\* Every entry of the cache has a combination of flags the code allows.
CacheFlagsValid(cache) == \A o \in OutPoint : cache[o] # NoEntry => ValidFlags(cache[o])

\* Each operation on a cache leaves valid combinations of flags.
LEMMA FlagsLemma ==
  ASSUME NEW cache \in CCoinsMap, NEW base \in CoinMap, NEW o \in OutPoint,
         NEW c \in Coin, NEW overwrite \in BOOLEAN, CacheFlagsValid(cache)
  PROVE  /\ CacheFlagsValid(FetchCoin(cache, base, o))
         /\ CacheFlagsValid(SpendCoin(cache, base, o))
         /\ CacheFlagsValid(AddCoin(cache, o, c, overwrite))
         /\ CacheFlagsValid(Uncache(cache, o))
<1>1. \A e \in CCoinsCacheEntry \cup {NoEntry} :
        (e # NoEntry => ValidFlags(e)) => CacheFlagsValid([cache EXCEPT ![o] = e])
  BY DEF CacheFlagsValid, CCoinsMap
<1>2. CacheFlagsValid(FetchCoin(cache, base, o)) /\ FetchCoin(cache, base, o) \in CCoinsMap
  <2> DEFINE e == Entry(base[o], FALSE, FALSE)
  <2>1. e \in CCoinsCacheEntry /\ e.coin = base[o] /\ ~e.dirty /\ ~e.fresh
    BY EntryLemma, Zenon DEF CoinMap
  <2>2. base[o] # Spent => ValidFlags(e)
    BY <2>1, Zenon DEF ValidFlags
  <2> HIDE DEF e
  <2>3. [cache EXCEPT ![o] = e] \in CCoinsMap
    BY <2>1 DEF CCoinsMap
  <2>4. FetchCoin(cache, base, o)
          = IF cache[o] # NoEntry \/ base[o] = Spent THEN cache ELSE [cache EXCEPT ![o] = e]
    BY DEF FetchCoin, e
  <2>5. QED
    BY <1>1, <2>1, <2>2, <2>3, <2>4
<1>3. CacheFlagsValid(SpendCoin(cache, base, o))
  <2> DEFINE f == FetchCoin(cache, base, o)
             e == Entry(Spent, TRUE, FALSE)
  <2>1. e.coin = Spent /\ e.dirty /\ ~e.fresh
    BY EntryLemma, Zenon DEF AnyCoin
  <2>2. ValidFlags(e)
    BY <2>1, Zenon DEF ValidFlags
  <2>3. SpendCoin(cache, base, o) \in {f, [f EXCEPT ![o] = NoEntry], [f EXCEPT ![o] = e]}
    BY DEF SpendCoin
  <2> HIDE DEF e, f
  <2>4. QED
    BY <1>2, <2>2, <2>3 DEF f, CacheFlagsValid, CCoinsMap
<1>4. CacheFlagsValid(AddCoin(cache, o, c, overwrite))
  <2> DEFINE old == IF cache[o] = NoEntry THEN Entry(Spent, FALSE, FALSE) ELSE cache[o]
             f == old.fresh \/ (~overwrite /\ ~old.dirty)
             e == Entry(c, TRUE, f)
  <2>1. AddCoin(cache, o, c, overwrite)
          = IF c \in Unspendable THEN cache ELSE [cache EXCEPT ![o] = e]
    BY DEF AddCoin
  <2> HIDE DEF old
  <2>2. f \in BOOLEAN
    OBVIOUS
  <2> HIDE DEF f
  <2>3. ASSUME c \notin Unspendable
        PROVE  e \in CCoinsCacheEntry /\ e.coin = c /\ e.dirty = TRUE /\ e.fresh = f
    BY <2>2, <2>3, EntryLemma, ZenonT(40) DEF AnyCoin
  <2>4. c \notin Unspendable => ValidFlags(e)
    BY <2>2, <2>3, CoinsAssumption, Zenon DEF ValidFlags, CoinsAssumption
  <2> HIDE DEF e
  <2>5. QED
    BY <1>1, <2>1, <2>3, <2>4, Zenon
<1>5. CacheFlagsValid(Uncache(cache, o))
  BY <1>1 DEF Uncache
<1>6. QED
  BY <1>2, <1>3, <1>4, <1>5

\* BatchWrite leaves valid combinations of flags in the parent.
LEMMA MergeFlagsLemma ==
  ASSUME NEW child \in CCoinsMap, NEW parent \in CCoinsMap,
         CacheFlagsValid(child), CacheFlagsValid(parent)
  PROVE  CacheFlagsValid(BatchWrite(child, parent))
<1> SUFFICES ASSUME NEW o \in OutPoint, MergeEntry(child[o], parent[o]) # NoEntry
             PROVE  ValidFlags(MergeEntry(child[o], parent[o]))
  BY DEF CacheFlagsValid, BatchWrite
<1> DEFINE c == child[o]
           p == parent[o]
<1>1. /\ c \in CCoinsCacheEntry \cup {NoEntry} /\ p \in CCoinsCacheEntry \cup {NoEntry}
      /\ p # NoEntry => ValidFlags(p)
      /\ MergeEntry(c, p) # NoEntry
  BY DEF CCoinsMap, CacheFlagsValid
<1> HIDE DEF c, p
<1>2. ASSUME NEW x \in AnyCoin, NEW f \in BOOLEAN, ~(f /\ x = Spent)
      PROVE  ValidFlags(Entry(x, TRUE, f))
  <2>1. Entry(x, TRUE, f).coin = x /\ Entry(x, TRUE, f).dirty /\ Entry(x, TRUE, f).fresh = f
    BY EntryLemma, Zenon
  <2>2. QED
    BY <1>2, <2>1, Zenon DEF ValidFlags
<1>3. CASE c = NoEntry \/ ~c.dirty
  <2>1. MergeEntry(c, p) = p
    BY <1>3, Zenon DEF MergeEntry
  <2>2. QED
    BY <1>1, <2>1 DEF c, p
<1>4. CASE c # NoEntry /\ c.dirty /\ p = NoEntry
  <2>1. ~(c.fresh /\ c.coin = Spent) /\ MergeEntry(c, p) = Entry(c.coin, TRUE, c.fresh)
    BY <1>1, <1>4, Zenon DEF MergeEntry
  <2>2. c.coin \in AnyCoin /\ c.fresh \in BOOLEAN
    BY <1>1, <1>4 DEF CCoinsCacheEntry
  <2>3. QED
    BY <1>2, <2>1, <2>2, Zenon DEF c, p
<1>5. CASE c # NoEntry /\ c.dirty /\ p # NoEntry
  <2>1. ~(p.fresh /\ c.coin = Spent) /\ MergeEntry(c, p) = Entry(c.coin, TRUE, p.fresh)
    BY <1>1, <1>5, Zenon DEF MergeEntry
  <2>2. c.coin \in AnyCoin /\ p.fresh \in BOOLEAN
    BY <1>1, <1>5 DEF CCoinsCacheEntry
  <2>3. QED
    BY <1>2, <2>1, <2>2, Zenon DEF c, p
<1>6. QED
  BY <1>3, <1>4, <1>5, <1>1 DEF CCoinsCacheEntry

-----------------------------------------------------------------------------

(***************************************************************************)
(* The inductive invariant.  FlagsSound is inductive only together with    *)
(* the types and with the fact that no stale entry or best block survives  *)
(* in a closed view.                                                       *)
(***************************************************************************)
ClosedViewEmpty == ~viewOpen => view = EmptyCache /\ viewBest = NullHash

IInv == TypeOK /\ FlagsSound /\ FlagsValid /\ NeverThrows /\ ClosedViewEmpty

\* What IInv says of the two caches, in the terms of the lemmas.
LEMMA CacheFacts ==
  ASSUME IInv
  PROVE  /\ db \in CoinMap /\ TipLookup \in CoinMap /\ ViewLookup \in CoinMap
         /\ tip \in CCoinsMap /\ view \in CCoinsMap
         /\ CacheConsistent(tip, db) /\ CacheConsistent(view, TipLookup)
         /\ CacheFlagsValid(tip) /\ CacheFlagsValid(view)
<1>1. db \in CoinMap /\ tip \in CCoinsMap /\ view \in CCoinsMap
  BY DEF IInv, TypeOK
<1>2. TipLookup \in CoinMap
  BY <1>1, LookupType DEF TipLookup
<1>3. QED
  BY <1>1, <1>2, LookupType DEF ViewLookup, IInv, FlagsSound, FlagsValid, CacheFlagsValid

\* The empty cache satisfies every requirement and denotes its base.
LEMMA EmptyFacts ==
  ASSUME NEW base \in CoinMap
  PROVE  /\ EmptyCache \in CCoinsMap
         /\ CacheConsistent(EmptyCache, base)
         /\ CacheFlagsValid(EmptyCache)
         /\ Lookup(EmptyCache, base) = base
BY DEF EmptyCache, CCoinsMap, CacheConsistent, CacheFlagsValid, Lookup, CoinMap

\* A miss in the view may add an entry to CoinsTip(), which keeps what it denotes.
LEMMA TipFetchFacts ==
  ASSUME IInv, NEW o \in OutPoint
  PROVE  /\ TipAfterFetch(o) \in CCoinsMap
         /\ CacheConsistent(TipAfterFetch(o), db)
         /\ CacheFlagsValid(TipAfterFetch(o))
         /\ Lookup(TipAfterFetch(o), db) = TipLookup
<1>1. \A c \in Coin : CacheFlagsValid(FetchCoin(tip, db, o))
  BY CacheFacts, FlagsLemma, Zenon
<1>2. CacheFlagsValid(FetchCoin(tip, db, o))
  <2>1. CASE Coin = {}
    BY <2>1, CacheFacts DEF FetchCoin, CoinMap, AnyCoin
  <2>2. QED
    BY <1>1, <2>1
<1>3. QED
  BY <1>2, CacheFacts, FetchLemma DEF TipAfterFetch, TipLookup

\* The initial state satisfies the invariant and is the abstract initial state.
LEMMA InitLemma == Init => IInv /\ Map!Init
<1> SUFFICES ASSUME Init PROVE IInv /\ Map!Init
  OBVIOUS
<1>1. db \in CoinMap /\ TypeOK
  <2>1. db \in CoinMap
    BY DEF Init, CoinMap, AnyCoin
  <2>2. EmptyCache \in CCoinsMap
    BY <2>1, EmptyFacts
  <2>3. QED
    BY <2>1, <2>2, Zenon DEF Init, TypeOK, AnyHash
<1>2. TipLookup = db /\ ViewLookup = db
  BY <1>1, EmptyFacts DEF Init, TipLookup, ViewLookup
<1>3. IInv
  BY <1>1, <1>2, EmptyFacts
  DEF Init, IInv, FlagsSound, FlagsValid, CacheFlagsValid, NeverThrows, ClosedViewEmpty
<1>4. Map!Init
  BY <1>2 DEF Init, Map!Init, Version, TipHash, GetBestBlock
<1>5. QED
  BY <1>3, <1>4

(***************************************************************************)
(* The obligations of a step, gathered: sound caches and the lookups of    *)
(* the new state give the invariant again.                                 *)
(***************************************************************************)
LEMMA InvFromParts ==
  ASSUME db' \in CoinMap, tip' \in CCoinsMap, view' \in CCoinsMap,
         dbBest' \in AnyHash, tipBest' \in AnyHash, viewBest' \in AnyHash,
         viewOpen' \in BOOLEAN, thrown' = FALSE,
         CacheConsistent(tip', db'), CacheConsistent(view', Lookup(tip', db')),
         CacheFlagsValid(tip'), CacheFlagsValid(view'),
         viewOpen' = FALSE => view' = EmptyCache /\ viewBest' = NullHash
  PROVE  IInv'
<1>1. TypeOK'
  BY Zenon DEF TypeOK
<1>2. FlagsSound'
  BY DEF FlagsSound, TipLookup
<1>3. FlagsValid'
  BY DEF FlagsValid, CacheFlagsValid
<1>4. NeverThrows' /\ ClosedViewEmpty'
  BY DEF NeverThrows, ClosedViewEmpty
<1>5. QED
  BY <1>1, <1>2, <1>3, <1>4 DEF IInv

\* The abstract variables after a step, from the lookups and best blocks after it.
AbsActive == Version(TipLookup, TipHash)
AbsWork == Version(ViewLookup, GetBestBlock(viewBest, TipHash))

\* Reads of the view or of CoinsTip() keep the invariant and are invisible.
LEMMA ReadStep ==
  ASSUME IInv, NEW o \in OutPoint, ReadView(o) \/ ReadTip(o) \/ UncacheTip(o)
  PROVE  IInv' /\ UNCHANGED <<db, dbBest, AbsActive, AbsWork, viewOpen>>
<1> USE CacheFacts
<1>1. CASE ReadView(o)
  <2>1. /\ view' \in CCoinsMap /\ CacheConsistent(view', TipLookup)
        /\ Lookup(view', TipLookup) = ViewLookup
    BY <1>1, FetchLemma DEF ReadView, ViewLookup
  <2>2. CacheFlagsValid(view')
    <3>1. CASE Coin = {}
      BY <1>1, <3>1 DEF ReadView, FetchCoin, CoinMap, AnyCoin
    <3>2. QED
      BY <1>1, <3>1, FlagsLemma, Zenon DEF ReadView
  <2>3. /\ tip' \in CCoinsMap /\ CacheConsistent(tip', db) /\ CacheFlagsValid(tip')
        /\ Lookup(tip', db') = TipLookup
    BY <1>1, TipFetchFacts DEF ReadView, dbVars
  <2>4. IInv'
    <3> HIDE CacheFacts
    <3>1. /\ db' = db /\ dbBest' = dbBest /\ tipBest' = tipBest /\ viewBest' = viewBest
          /\ viewOpen' = viewOpen /\ thrown' = FALSE /\ viewOpen
      BY <1>1 DEF ReadView, dbVars, IInv, NeverThrows, TypeOK
    <3>2. QED
      BY <2>1, <2>2, <2>3, <3>1, InvFromParts, Zenon DEF IInv, TypeOK
  <2>5. TipLookup' = TipLookup /\ ViewLookup' = ViewLookup
    BY <2>1, <2>3 DEF TipLookup, ViewLookup
  <2>6. QED
    BY <1>1, <2>4, <2>5 DEF ReadView, dbVars, AbsActive, AbsWork, TipHash
<1>2. CASE ReadTip(o)
  <2>1. /\ tip' \in CCoinsMap /\ CacheConsistent(tip', db)
        /\ Lookup(tip', db') = TipLookup
    BY <1>2, FetchLemma DEF ReadTip, dbVars, TipLookup
  <2>2. CacheFlagsValid(tip')
    <3>1. CASE Coin = {}
      BY <1>2, <3>1 DEF ReadTip, FetchCoin, CoinMap, AnyCoin
    <3>2. QED
      BY <1>2, <3>1, FlagsLemma, Zenon DEF ReadTip
  <2>3. /\ UNCHANGED <<db, dbBest, tipBest, view, viewBest, viewOpen>> /\ thrown' = FALSE
    BY <1>2 DEF ReadTip, dbVars, viewVars, IInv, NeverThrows, TypeOK
  <2>4. IInv'
    BY <2>1, <2>2, <2>3, InvFromParts, Zenon DEF IInv, TypeOK, ClosedViewEmpty
  <2>5. TipLookup' = TipLookup /\ ViewLookup' = ViewLookup
    BY <2>1, <2>3 DEF TipLookup, ViewLookup
  <2>6. QED
    BY <2>3, <2>4, <2>5 DEF AbsActive, AbsWork, TipHash
<1>3. CASE UncacheTip(o)
  <2>1. /\ tip' \in CCoinsMap /\ CacheConsistent(tip', db)
        /\ Lookup(tip', db) = TipLookup
    <3>1. CASE tip' = tip
      BY <3>1 DEF TipLookup
    <3>2. CASE tip' # tip
      <4>1. tip' = [tip EXCEPT ![o] = NoEntry] /\ tip[o] # NoEntry /\ ~tip[o].dirty
        BY <1>3, <3>2 DEF UncacheTip, Uncache
      <4>2. db[o] = TipLookup[o]
        BY <4>1 DEF CacheConsistent, TipLookup, Lookup
      <4>3. EntryConsistent(NoEntry, db[o]) /\ EntryCoin(NoEntry, db[o]) = db[o]
        BY DEF EntryConsistent, EntryCoin
      <4>4. /\ [tip EXCEPT ![o] = NoEntry] \in CCoinsMap
            /\ CacheConsistent([tip EXCEPT ![o] = NoEntry], db)
            /\ Lookup([tip EXCEPT ![o] = NoEntry], db)
                 = [Lookup(tip, db) EXCEPT ![o] = EntryCoin(NoEntry, db[o])]
        <5>1. /\ tip \in CCoinsMap /\ db \in CoinMap /\ CacheConsistent(tip, db)
              /\ o \in OutPoint /\ NoEntry \in CCoinsCacheEntry \cup {NoEntry}
          BY CacheFacts
        <5>2. QED
          BY ONLY <4>3, <5>1, UpdateLemma
      <4>5. [Lookup(tip, db) EXCEPT ![o] = db[o]] = Lookup(tip, db)
        BY <4>2, Zenon DEF TipLookup, Lookup
      <4>6. QED
        BY <4>1, <4>3, <4>4, <4>5 DEF TipLookup
    <3>3. QED
      BY <3>1, <3>2
  <2>2. CacheFlagsValid(tip')
    BY <1>3 DEF UncacheTip, Uncache, CacheFlagsValid, CCoinsMap
  <2>3. /\ UNCHANGED <<db, dbBest, tipBest, view, viewBest, viewOpen>> /\ thrown' = FALSE
    BY <1>3 DEF UncacheTip, dbVars, viewVars, IInv, NeverThrows, TypeOK
  <2>4. IInv'
    BY <2>1, <2>2, <2>3, InvFromParts, Zenon DEF IInv, TypeOK, ClosedViewEmpty
  <2>5. TipLookup' = TipLookup /\ ViewLookup' = ViewLookup
    BY <2>1, <2>3 DEF TipLookup, ViewLookup
  <2>6. QED
    BY <2>3, <2>4, <2>5 DEF AbsActive, AbsWork, TipHash
<1>4. QED
  BY <1>1, <1>2, <1>3

(***************************************************************************)
(* A step that leaves the tip's meaning alone and sets one coin of the     *)
(* view, or nothing, is an abstract Edit or invisible.                     *)
(***************************************************************************)
LEMMA EditStep ==
  ASSUME viewOpen, UNCHANGED <<db, dbBest, tipBest, viewBest, viewOpen>>,
         TipLookup' = TipLookup, ViewLookup \in CoinMap,
         \/ ViewLookup' = ViewLookup
         \/ \E o \in OutPoint, c \in AnyCoin : ViewLookup' = [ViewLookup EXCEPT ![o] = c]
  PROVE  Map!Edit \/ UNCHANGED Map!vars
<1>1. UNCHANGED <<Version(db, dbBest), AbsActive, viewOpen>>
  BY DEF AbsActive, TipHash
<1>2. CASE ViewLookup' = ViewLookup
  BY <1>1, <1>2 DEF Map!vars, AbsActive, TipHash, GetBestBlock
<1>3. ASSUME NEW o \in OutPoint, NEW c \in AnyCoin,
             ViewLookup' = [ViewLookup EXCEPT ![o] = c]
      PROVE  Map!Edit
  <2>1. AbsWork' = [AbsWork EXCEPT !.coins[o] = c]
    BY <1>3 DEF AbsWork, Version, TipHash
  <2>2. QED
    BY <1>1, <2>1, Zenon DEF Map!Edit, AbsActive, AbsWork, AnyCoin
<1>4. QED
  BY <1>2, <1>3

\* SpendCoin on the view.
LEMMA SpendStep ==
  ASSUME IInv, NEW o \in OutPoint, SpendInView(o)
  PROVE  IInv' /\ (Map!Edit \/ UNCHANGED Map!vars)
<1>1. /\ view' \in CCoinsMap /\ CacheConsistent(view', TipLookup)
      /\ Lookup(view', TipLookup) = [ViewLookup EXCEPT ![o] = Spent]
  BY CacheFacts, SpendLemma DEF SpendInView, ViewLookup
<1>2. CacheFlagsValid(view')
  <2>1. CASE Coin = {}
    <3>1. FetchCoin(view, TipLookup, o) = view
      BY <2>1, CacheFacts, Zenon DEF FetchCoin, CoinMap, AnyCoin
    <3> DEFINE e == Entry(Spent, TRUE, FALSE)
    <3>2. ValidFlags(e)
      BY EntryLemma, Zenon DEF ValidFlags, AnyCoin
    <3>3. view' \in {view, [view EXCEPT ![o] = NoEntry], [view EXCEPT ![o] = e]}
      BY <3>1 DEF SpendInView, SpendCoin
    <3> HIDE DEF e
    <3>4. QED
      BY <3>2, <3>3, CacheFacts DEF CacheFlagsValid, CCoinsMap
  <2>2. QED
    BY <2>1, CacheFacts, FlagsLemma, Zenon DEF SpendInView
<1>3. /\ tip' \in CCoinsMap /\ CacheConsistent(tip', db) /\ CacheFlagsValid(tip')
      /\ Lookup(tip', db) = TipLookup
  BY TipFetchFacts DEF SpendInView
<1>4. UNCHANGED <<db, dbBest, tipBest, viewBest, viewOpen>> /\ viewOpen /\ thrown' = FALSE
  BY DEF SpendInView, dbVars, IInv, NeverThrows, TypeOK
<1>5. IInv'
  BY <1>1, <1>2, <1>3, <1>4, InvFromParts, Zenon DEF IInv, TypeOK
<1>6. TipLookup' = TipLookup /\ ViewLookup' = [ViewLookup EXCEPT ![o] = Spent]
  BY <1>1, <1>3, <1>4 DEF TipLookup, ViewLookup
<1>7. QED
  BY <1>4, <1>5, <1>6, CacheFacts, EditStep, Zenon DEF AnyCoin

\* AddCoin on the view, from UpdateCoins or from ApplyTxInUndo.
LEMMA AddStep ==
  ASSUME IInv, NEW o \in OutPoint, NEW c \in Coin,
         RestoreInput(o, c) \/ \E coinbase \in BOOLEAN : AddOutput(o, c, coinbase)
  PROVE  IInv' /\ (Map!Edit \/ UNCHANGED Map!vars)
<1>1. UNCHANGED <<db, dbBest, tipBest, viewBest, viewOpen>> /\ viewOpen
  BY DEF RestoreInput, AddOutput, AddToView, dbVars, tipVars
<1>2. /\ tip' \in CCoinsMap /\ CacheConsistent(tip', db) /\ CacheFlagsValid(tip')
      /\ Lookup(tip', db) = TipLookup
  <2>1. tip' = tip \/ tip' = TipAfterFetch(o)
    BY DEF RestoreInput, AddOutput, AddToView, tipVars
  <2>2. CASE tip' = tip
    BY <2>2, CacheFacts DEF TipLookup
  <2>3. CASE tip' = TipAfterFetch(o)
    BY <2>3, TipFetchFacts
  <2>4. QED
    BY ONLY <2>1, <2>2, <2>3
<1>3. PICK start \in CCoinsMap, overwrite \in BOOLEAN :
        /\ CacheConsistent(start, TipLookup) /\ CacheFlagsValid(start)
        /\ Lookup(start, TipLookup) = ViewLookup
        /\ overwrite \/ ViewLookup[o] = Spent
        /\ thrown' = AddCoinThrows(start, o, c, overwrite)
        /\ view' = IF thrown' THEN start ELSE AddCoin(start, o, c, overwrite)
  <2>1. CASE RestoreInput(o, c)
    <3> DEFINE f == FetchCoin(view, TipLookup, o)
               h == ViewLookup[o] # Spent
    <3>1. /\ f \in CCoinsMap /\ CacheConsistent(f, TipLookup)
          /\ Lookup(f, TipLookup) = ViewLookup
      BY CacheFacts, FetchLemma DEF ViewLookup
    <3>2. CacheFlagsValid(f)
      BY CacheFacts, FlagsLemma, Zenon
    <3>3. thrown' = AddCoinThrows(f, o, c, h)
          /\ view' = IF thrown' THEN f ELSE AddCoin(f, o, c, h)
      BY <2>1 DEF RestoreInput
    <3>4. h \in BOOLEAN /\ (h \/ ViewLookup[o] = Spent)
      OBVIOUS
    <3> HIDE DEF f, h
    <3>5. QED
      BY <3>1, <3>2, <3>3, <3>4
  <2>2. ASSUME NEW coinbase \in BOOLEAN, AddOutput(o, c, coinbase)
        PROVE  /\ coinbase \/ ViewLookup[o] = Spent
               /\ thrown' = AddCoinThrows(view, o, c, coinbase)
               /\ view' = IF thrown' THEN view ELSE AddCoin(view, o, c, coinbase)
    BY <2>2 DEF AddOutput, AddToView
  <2>3. Lookup(view, TipLookup) = ViewLookup
    BY DEF ViewLookup
  <2>4. QED
    BY <2>1, <2>2, <2>3, CacheFacts
<1>4. /\ ~AddCoinThrows(start, o, c, overwrite)
      /\ AddCoin(start, o, c, overwrite) \in CCoinsMap
      /\ CacheConsistent(AddCoin(start, o, c, overwrite), TipLookup)
      /\ Lookup(AddCoin(start, o, c, overwrite), TipLookup) =
           IF c \in Unspendable THEN Lookup(start, TipLookup)
           ELSE [Lookup(start, TipLookup) EXCEPT ![o] = c]
  <2>1. AddAllowed(start, TipLookup, o, overwrite) /\ TipLookup \in CoinMap
    BY <1>3, CacheFacts DEF AddAllowed
  <2>2. AddOutcome(start, TipLookup, o, c, overwrite)
    BY <2>1, AddLemma
  <2>3. QED
    BY <2>2 DEF AddOutcome
<1>5. CacheFlagsValid(AddCoin(start, o, c, overwrite))
  BY <1>3, CacheFacts, FlagsLemma
<1>6. thrown' = FALSE /\ view' = AddCoin(start, o, c, overwrite)
  <2>1. thrown' \in BOOLEAN
    BY <1>3 DEF AddCoinThrows
  <2>2. QED
    BY <1>3, <1>4, <2>1
<1>7. IInv'
  BY <1>1, <1>2, <1>4, <1>5, <1>6, InvFromParts, Zenon DEF IInv, TypeOK
<1>8. TipLookup' = TipLookup
  BY <1>1, <1>2 DEF TipLookup
<1>9. \/ ViewLookup' = ViewLookup
      \/ c \in AnyCoin /\ ViewLookup' = [ViewLookup EXCEPT ![o] = c]
  BY <1>3, <1>4, <1>6, <1>8 DEF ViewLookup, AnyCoin
<1>10. QED
  BY <1>1, <1>7, <1>8, <1>9, CacheFacts, EditStep

\* Opening, reading or naming the best block of the view, and dropping the view.
LEMMA ViewLifeStep ==
  ASSUME IInv, OpenView \/ ReadViewBest \/ DropView \/ \E b \in Hash : SetBestBlock(b)
  PROVE  IInv' /\ (Map!Next \/ UNCHANGED Map!vars)
<1> USE HashAssumption DEF HashAssumption
<1>1. UNCHANGED <<db, dbBest, tip>> /\ thrown' = FALSE /\ TipLookup' = TipLookup
  BY DEF OpenView, ReadViewBest, DropView, SetBestBlock, dbVars, tipVars, TipLookup,
         IInv, NeverThrows, TypeOK
<1>2. EmptyCache \in CCoinsMap /\ CacheConsistent(EmptyCache, TipLookup)
      /\ CacheFlagsValid(EmptyCache) /\ Lookup(EmptyCache, TipLookup) = TipLookup
  BY CacheFacts, EmptyFacts
<1>3. CASE OpenView
  <2>1. /\ view' = EmptyCache /\ view = EmptyCache /\ viewBest' = NullHash
        /\ viewBest = NullHash /\ viewOpen' = TRUE /\ tipBest' = tipBest /\ ~viewOpen
    BY <1>3 DEF OpenView, IInv, ClosedViewEmpty, tipVars
  <2>2. IInv'
    BY <1>1, <1>2, <2>1, CacheFacts, InvFromParts, Zenon DEF IInv, TypeOK, TipLookup
  <2>3. Map!Begin
    BY <1>1, <2>1 DEF Map!Begin, ViewLookup, TipHash
  <2>4. QED
    BY <2>2, <2>3 DEF Map!Next
<1>4. CASE DropView
  <2>1. /\ view' = EmptyCache /\ viewBest' = NullHash /\ viewOpen' = FALSE
        /\ tipBest' = tipBest /\ viewOpen
    BY <1>4 DEF DropView, tipVars
  <2>2. IInv'
    BY <1>1, <1>2, <2>1, CacheFacts, InvFromParts, Zenon DEF IInv, TypeOK, TipLookup, AnyHash
  <2>3. ViewLookup' = TipLookup
    BY <1>1, <1>2, <2>1 DEF ViewLookup
  <2>4. Map!Abandon
    BY <1>1, <2>1, <2>3 DEF Map!Abandon, Version, TipHash, GetBestBlock
  <2>5. QED
    BY <2>2, <2>4 DEF Map!Next
<1>5. CASE ReadViewBest
  <2>1. /\ view' = view /\ viewOpen' = viewOpen /\ viewOpen
        /\ TipHash' = TipHash /\ tipBest' \in AnyHash /\ viewBest' \in AnyHash
        /\ GetBestBlock(viewBest', TipHash') = GetBestBlock(viewBest, TipHash)
    BY <1>1, <1>5 DEF ReadViewBest, GetBestBlock, TipHash, IInv, TypeOK
  <2>2. IInv'
    BY <1>1, <2>1, CacheFacts, InvFromParts, Zenon DEF IInv, TypeOK, TipLookup
  <2>3. ViewLookup' = ViewLookup
    BY <1>1, <2>1 DEF ViewLookup
  <2>4. QED
    BY <1>1, <2>1, <2>2, <2>3 DEF Map!vars
<1>6. ASSUME NEW b \in Hash, SetBestBlock(b)
      PROVE  IInv' /\ Map!Edit
  <2>1. /\ view' = view /\ viewBest' = b /\ viewOpen' = viewOpen /\ tipBest' = tipBest /\ viewOpen
    BY <1>6 DEF SetBestBlock, tipVars
  <2>2. IInv'
    BY <1>1, <2>1, CacheFacts, InvFromParts, Zenon DEF IInv, TypeOK, TipLookup, AnyHash
  <2>3. ViewLookup' = ViewLookup /\ TipHash' = TipHash
    BY <1>1, <2>1 DEF ViewLookup, TipHash
  <2>4. AbsWork' = [AbsWork EXCEPT !.best = b]
    BY <2>1, <2>3 DEF AbsWork, Version, GetBestBlock
  <2>5. QED
    BY <1>1, <2>1, <2>2, <2>3, <2>4 DEF Map!Edit, AbsWork, TipHash
<1>7. QED
  BY <1>3, <1>4, <1>5, <1>6 DEF Map!Next

\* Flush of the view into CoinsTip(): BatchWrite never throws, and it is a Commit.
LEMMA FlushViewStep ==
  ASSUME IInv, FlushView
  PROVE  IInv' /\ Map!Commit
<1>1. /\ \A o \in OutPoint : ~MergeThrows(view[o], tip[o])
      /\ BatchWrite(view, tip) \in CCoinsMap
      /\ CacheConsistent(BatchWrite(view, tip), db)
      /\ Lookup(BatchWrite(view, tip), db) = ViewLookup
  BY CacheFacts, MergeLemma DEF ViewLookup, TipLookup
<1>2. thrown' = FALSE
  BY <1>1, SMTT(30) DEF FlushView
<1>3. /\ tip' = BatchWrite(view, tip) /\ tipBest' = viewBest /\ viewBest # NullHash
      /\ view' = EmptyCache /\ viewBest' = NullHash /\ viewOpen' = FALSE /\ viewOpen
      /\ db' = db /\ dbBest' = dbBest
  BY <1>2 DEF FlushView, dbVars
<1>4. TipLookup' = ViewLookup
  BY <1>1, <1>3 DEF TipLookup
<1>5. /\ EmptyCache \in CCoinsMap /\ CacheConsistent(EmptyCache, ViewLookup)
      /\ CacheFlagsValid(EmptyCache) /\ Lookup(EmptyCache, ViewLookup) = ViewLookup
  BY CacheFacts, EmptyFacts
<1>6. CacheFlagsValid(tip')
  BY <1>3, CacheFacts, MergeFlagsLemma
<1>7. IInv'
  <2>1. Lookup(tip', db') = ViewLookup
    BY <1>1, <1>3, SMTT(30)
  <2>2. QED
    BY <1>1, <1>2, <1>3, <1>5, <1>6, <2>1, InvFromParts, Zenon DEF IInv, TypeOK, AnyHash
<1>8. ViewLookup' = ViewLookup
  BY <1>3, <1>4, <1>5 DEF ViewLookup
<1>9. TipHash' = viewBest /\ GetBestBlock(viewBest', TipHash') = viewBest
      /\ GetBestBlock(viewBest, TipHash) = viewBest
  BY <1>3 DEF TipHash, GetBestBlock
<1>10. Map!Commit
  BY <1>3, <1>4, <1>8, <1>9 DEF Map!Commit
<1>11. QED
  BY <1>7, <1>10

\* Flush of CoinsTip() into the database makes the database equal to the active map.
LEMMA FlushTipStep ==
  ASSUME IInv, FlushTip
  PROVE  IInv' /\ Map!Persist
<1>1. /\ db' = WriteEntries(tip, OutPoint, db) /\ tipBest' = TipHash /\ dbBest' = TipHash
      /\ tip' = EmptyCache /\ ~viewOpen /\ TipHash # NullHash
      /\ UNCHANGED <<view, viewBest, viewOpen>> /\ thrown' = FALSE
  BY DEF FlushTip, viewVars, TipHash, IInv, NeverThrows, TypeOK
<1>2. db' = TipLookup
  <2>1. \A o \in OutPoint :
          (IF o \in OutPoint \cap Dirty(tip) THEN tip[o].coin ELSE db[o])
            = (IF tip[o] = NoEntry THEN db[o] ELSE tip[o].coin)
    BY CacheFacts, Zenon DEF Dirty, CacheConsistent
  <2>2. QED
    BY <1>1, <2>1 DEF WriteEntries, TipLookup, Lookup
<1>3. /\ EmptyCache \in CCoinsMap /\ CacheConsistent(EmptyCache, TipLookup)
      /\ CacheFlagsValid(EmptyCache) /\ Lookup(EmptyCache, TipLookup) = TipLookup
  BY CacheFacts, EmptyFacts
<1>4. TipLookup' = TipLookup /\ Lookup(tip', db') = TipLookup
  BY <1>1, <1>2, <1>3 DEF TipLookup
<1>5. view = EmptyCache /\ viewBest = NullHash /\ TipHash \in AnyHash
  BY <1>1 DEF IInv, ClosedViewEmpty, TypeOK, TipHash, GetBestBlock
<1>6. IInv'
  BY <1>1, <1>2, <1>3, <1>4, <1>5, CacheFacts, InvFromParts, Zenon DEF IInv, TypeOK
<1>7. TipHash' = TipHash /\ ViewLookup' = ViewLookup
  BY <1>1, <1>4 DEF TipHash, GetBestBlock, ViewLookup
<1>8. Map!Persist
  BY <1>1, <1>2, <1>4, <1>7 DEF Map!Persist
<1>9. QED
  BY <1>6, <1>8

-----------------------------------------------------------------------------

\* Every step keeps the invariant and is a step of the abstract map, or invisible.
LEMMA StepLemma == IInv /\ [Next]_vars => IInv' /\ [Map!Next]_(Map!vars)
<1> SUFFICES ASSUME IInv, [Next]_vars
             PROVE  IInv' /\ (Map!Next \/ UNCHANGED Map!vars)
  OBVIOUS
<1>1. CASE UNCHANGED vars
  <2>1. IInv'
    BY <1>1 DEF vars, IInv, TypeOK, FlagsSound, FlagsValid, NeverThrows, ClosedViewEmpty,
                TipLookup
  <2>2. UNCHANGED Map!vars
    BY <1>1 DEF vars, Map!vars, ViewLookup, TipLookup, TipHash
  <2>3. QED
    BY <2>1, <2>2
<1>2. ASSUME NEW o \in OutPoint, ReadView(o) \/ ReadTip(o) \/ UncacheTip(o)
      PROVE  IInv' /\ UNCHANGED Map!vars
  BY <1>2, ReadStep DEF AbsActive, AbsWork, Map!vars
<1>3. ASSUME NEW o \in OutPoint, SpendInView(o)
      PROVE  IInv' /\ (Map!Next \/ UNCHANGED Map!vars)
  BY <1>3, SpendStep DEF Map!Next
<1>4. ASSUME NEW o \in OutPoint, NEW c \in Coin,
             RestoreInput(o, c) \/ \E coinbase \in BOOLEAN : AddOutput(o, c, coinbase)
      PROVE  IInv' /\ (Map!Next \/ UNCHANGED Map!vars)
  BY <1>4, AddStep DEF Map!Next
<1>5. CASE OpenView \/ ReadViewBest \/ DropView \/ \E b \in Hash : SetBestBlock(b)
  BY <1>5, ViewLifeStep
<1>6. CASE FlushView
  BY <1>6, FlushViewStep DEF Map!Next
<1>7. CASE FlushTip
  BY <1>7, FlushTipStep DEF Map!Next
<1>8. QED
  BY <1>1, <1>2, <1>3, <1>4, <1>5, <1>6, <1>7 DEF Next

\* The inductive invariant holds in every reachable state of the stack of views.
THEOREM Invariance == Spec => []IInv
<1>1. Init => IInv
  BY InitLemma
<1>2. IInv /\ [Next]_vars => IInv'
  BY StepLemma
<1>3. QED
  BY <1>1, <1>2, PTL DEF Spec

\* The variables of the stack of views keep their types.
THEOREM TypeCorrect == Spec => []TypeOK
<1>1. IInv => TypeOK
  BY DEF IInv
<1>2. QED
  BY <1>1, Invariance, PTL

(***************************************************************************)
(* DIRTY and FRESH always mean what SpendCoin and BatchWrite take them to  *)
(* mean, at both levels, for any number of outpoints and coins.            *)
(***************************************************************************)
THEOREM FlagsSoundness == Spec => []FlagsSound
<1>1. IInv => FlagsSound
  BY DEF IInv
<1>2. QED
  BY <1>1, Invariance, PTL

\* No combination of flags outside the list in coins.h is ever reached.
THEOREM FlagsValidity == Spec => []FlagsValid
<1>1. IInv => FlagsValid
  BY DEF IInv
<1>2. QED
  BY <1>1, Invariance, PTL

\* Neither logic_error of coins.cpp is ever thrown by validation's use of the views.
THEOREM NoLogicError == Spec => []NeverThrows
<1>1. IInv => NeverThrows
  BY DEF IInv
<1>2. QED
  BY <1>1, Invariance, PTL

(***************************************************************************)
(* The two caches above the database implement the plain maps of CoinsMap: *)
(* reads, evictions, erased FRESH coins and merges never show.             *)
(***************************************************************************)
THEOREM Refinement == Spec => RefinesMap
<1>1. Init => IInv /\ Map!Init
  BY InitLemma
<1>2. IInv /\ [Next]_vars => IInv' /\ [Map!Next]_(Map!vars)
  BY StepLemma
<1>3. QED
  BY <1>1, <1>2, Invariance, PTL DEF Spec, RefinesMap, Map!Spec
=============================================================================
