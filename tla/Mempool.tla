------------------------------ MODULE Mempool ------------------------------
(***************************************************************************)
(* The transaction memory pool (txmempool.cpp, and the parts of            *)
(* validation.cpp that feed it): acceptance with replacement and package   *)
(* limits, removal for blocks and conflicts, prioritisation, expiry and    *)
(* trimming, and the repair of the pool after a reorganisation.            *)
(*                                                                         *)
(* Every handler runs under cs_main and the pool's lock.  Acceptance and   *)
(* reorganisation are nevertheless split into the steps their code takes,  *)
(* because the code states what must hold between those steps.             *)
(*                                                                         *)
(* Data.  Transactions, the outputs they spend and the blocks that hold    *)
(* them are constants; the chain is the path from Genesis to `tip'.  Every *)
(* transaction has size 1, so that the cached sizes and signature          *)
(* operation counts, which the code updates along with the cached counts,  *)
(* are those counts.  Entry times are left out (see Expire).  The rolling  *)
(* minimum fee only makes acceptance refuse more and is left out as well.  *)
(***************************************************************************)
EXTENDS Integers, Sequences, SequencesExt, FiniteSets, FiniteSetsExt

CONSTANTS
  Tx,             \* the loose transactions
  Gen,            \* the coinbase and coinstake transactions, only in blocks
  CoinBase,       \* those of Gen that are coinbases
  vin,            \* the outpoints <<transaction, index>> a transaction spends
  Fee,            \* the fee of a loose transaction
  NonStandard,    \* those of Tx that a block may hold and the pool refuses
  Replaceable,    \* those of Tx that signal BIP 125 replacement
  Block, Genesis, Parent, Height,
  Txs,            \* the transactions of a block, in order
  Maturity,       \* COINBASE_MATURITY
  LimitAncestors, LimitDescendants,
  MaxEntries,     \* the bound -maxmempool, in entries
  MaxDisconnected,\* MAX_DISCONNECTED_TX_POOL_SIZE, in transactions
  Delta           \* the fee deltas prioritisetransaction may give a transaction

ASSUME MempoolAssumption ==
  /\ Tx \cap Gen = {} /\ CoinBase \subseteq Gen
  /\ NonStandard \subseteq Tx /\ Replaceable \subseteq Tx
  /\ vin \in [Tx \cup Gen -> Seq((Tx \cup Gen) \X Nat)]
  /\ Fee \in [Tx -> Nat]
  /\ Genesis \in Block /\ Parent \in [Block -> Block]
  /\ Height \in [Block -> Nat] /\ Height[Genesis] = 0
  /\ \A b \in Block \ {Genesis} : Height[b] = Height[Parent[b]] + 1
  /\ Txs \in [Block -> Seq(Tx \cup Gen)]
  /\ {Maturity, LimitAncestors, LimitDescendants, MaxEntries,
      MaxDisconnected} \subseteq Nat
  /\ Delta \in [Tx -> SUBSET Int] /\ \A t \in Tx : 0 \in Delta[t]

VARIABLES
  tip,        \* m_chain.Tip()
  pool,       \* mapTx, mapNextTx and mapDeltas of the CTxMemPool
  pc,         \* where the handler that holds the locks is
  target,     \* pindexMostWork, or the parent InvalidateBlock goes back to
  old,        \* pindexOldTip
  add,        \* fAddToMempool
  queued,     \* disconnectpool.queuedTx in insertion order
  update,     \* vHashUpdate, the part not yet processed
  included,   \* setAlreadyIncluded
  cached      \* mapMemPoolDescendantsToUpdate

reorg == <<target, old, add, queued, update, included, cached>>
vars == <<tip, pool, pc, reorg>>

-----------------------------------------------------------------------------
(* The chain.                                                              *)

ChainTo[b \in Block] == IF b = Genesis THEN {b} ELSE {b} \cup ChainTo[Parent[b]]

TxsOf(b) == ToSet(Txs[b])
Confirmed == UNION {TxsOf(b) : b \in ChainTo[tip]}

Inputs == [t \in Tx \cup Gen |-> ToSet(vin[t])]

(* CoinsTip().HaveCoin.                                                    *)
HaveCoin(o) == o[1] \in Confirmed /\ \A u \in Confirmed : o \notin Inputs[u]

HeightOf(t) == Height[CHOOSE b \in ChainTo[tip] : t \in TxsOf(b)]

(* A coin of a kind that must mature, too young for the next block.        *)
Immature(o, kind) ==
  o[1] \in Confirmed \cap kind /\ Height[tip] + 1 - HeightOf(o[1]) < Maturity

-----------------------------------------------------------------------------
(* The entries and their cached totals.                                    *)

Spent(t) == {o[1] : o \in Inputs[t]}

ModFee(m, t) == Fee[t] + m[t].delta

Plus(total, n, fee) == [count |-> total.count + n, fee |-> total.fee + fee]

(* The nodes reachable from S, S included.                                 *)
Reach(next, S) ==
  LET go[n \in 0..Cardinality(DOMAIN next)] ==
        IF n = 0 THEN S
        ELSE LET seen == go[n - 1] IN seen \cup UNION {next[x] : x \in seen}
  IN  go[Cardinality(DOMAIN next)]

Ancestors(m, S) == Reach([t \in DOMAIN m |-> m[t].parents], S)
CalculateDescendants(m, S) == Reach([t \in DOMAIN m |-> m[t].children], S)

Fees(m, S) == MapThenSumSet(LAMBDA t : ModFee(m, t), S)

(* Mutant: the entry itself is not counted against the descendant limit.   *)
CalculateMemPoolAncestorsShort(m, from, ancestors, descendants) ==
  LET all == Ancestors(m, from)
  IN  [ok  |-> /\ Cardinality(all) + 1 <= ancestors
               /\ \A a \in all : m[a].desc.count <= descendants,
       set |-> all]

(* The ancestors found from the parents `from', or failure at a limit.     *)
CalculateMemPoolAncestors(m, from, ancestors, descendants) ==
  LET all == Ancestors(m, from)
  IN  [ok  |-> /\ Cardinality(all) + 1 <= ancestors
               /\ \A a \in all : m[a].desc.count + 1 <= descendants,
       set |-> all]

UpdateAncestorsOf(m, t, ancestors) ==
  [x \in DOMAIN m |->
     [m[x] EXCEPT
        !.children = IF x \in m[t].parents THEN @ \cup {t} ELSE @,
        !.desc = IF x \in ancestors THEN Plus(@, 1, ModFee(m, t)) ELSE @]]

UpdateEntryForAncestors(m, t, ancestors) ==
  [m EXCEPT ![t].anc = Plus(@, Cardinality(ancestors), Fees(m, ancestors))]

addUnchecked(p, t, ancestors, gen) ==
  LET delta == p.deltas[t]
      alone == [count |-> 1, fee |-> Fee[t] + delta]
      entry == [parents |-> Spent(t) \cap DOMAIN p.mapTx, children |-> {},
                anc |-> alone, desc |-> alone, delta |-> delta, gen |-> gen]
      m     == [x \in DOMAIN p.mapTx \cup {t} |->
                  IF x = t THEN entry ELSE p.mapTx[x]]
  IN  [p EXCEPT
         !.mapTx = UpdateEntryForAncestors(UpdateAncestorsOf(m, t, ancestors),
                                           t, ancestors),
         !.next = [o \in DOMAIN @ \cup Inputs[t] |->
                     IF o \in DOMAIN @ THEN @[o] ELSE t]]

(* Mutant: fSearchForParents = true.                                       *)
RemovalAncestorsSearched(m, t) == Ancestors(m, Spent(t) \cap DOMAIN m)

(* What the removal of S takes off the others.  The ancestors are those    *)
(* the links give (fSearchForParents = false).                             *)
RemovalAncestors(m, t) == Ancestors(m, m[t].parents)

UpdateForRemoveFromMempool(m, S, updateDescendants) ==
  [x \in DOMAIN m |->
     LET below == {r \in S : x \in RemovalAncestors(m, r)}
         above == {r \in S \ {x} : updateDescendants
                                   /\ x \in CalculateDescendants(m, {r})}
     IN  [m[x] EXCEPT
            !.desc = Plus(@, -Cardinality(below), -Fees(m, below)),
            !.anc = Plus(@, -Cardinality(above), -Fees(m, above)),
            !.children = @ \ S,
            !.parents = @ \ {r \in S : x \in m[r].children}]]

(* removeUnchecked erases each entry and the inputs it marked.             *)
RemoveStaged(p, S, updateDescendants) ==
  LET m == UpdateForRemoveFromMempool(p.mapTx, S, updateDescendants)
  IN  [p EXCEPT !.mapTx = Restrict(m, DOMAIN m \ S),
                !.next = Restrict(@, DOMAIN @ \ UNION {Inputs[t] : t \in S})]

(* The entries that mapNextTx says spend an output of t.                   *)
Spenders(p, t) == {p.next[o] : o \in {x \in DOMAIN p.next : x[1] = t}}

(* Mutant: the children of a transaction outside the pool are forgotten.   *)
removeRecursivePooled(p, t) ==
  RemoveStaged(p, CalculateDescendants(p.mapTx, {t} \cap DOMAIN p.mapTx), FALSE)

removeRecursive(p, t) ==
  LET from == IF t \in DOMAIN p.mapTx THEN {t} ELSE Spenders(p, t)
  IN  RemoveStaged(p, CalculateDescendants(p.mapTx, from), FALSE)

ClearPrioritisation(p, t) ==
  IF t \in Tx THEN [p EXCEPT !.deltas[t] = 0] ELSE p

(* Through mapNextTx: an input whose spender went with an earlier input's  *)
(* finds nothing.                                                          *)
removeConflicts(p, t) ==
  LET RemoveConflict(q, o) ==
        IF o \in DOMAIN q.next /\ q.next[o] # t
        THEN removeRecursive(ClearPrioritisation(q, q.next[o]), q.next[o])
        ELSE q
  IN  FoldLeft(RemoveConflict, p, vin[t])

(* Mutant: the descendants of a confirmed entry are removed with it.       *)
removeForBlockRecursive(p, vtx) ==
  LET RemoveOne(q, t) ==
        ClearPrioritisation(removeConflicts(removeRecursive(q, t), t), t)
  IN  FoldLeft(RemoveOne, p, vtx)

removeForBlock(p, vtx) ==
  LET RemoveOne(q, t) ==
        ClearPrioritisation(
          removeConflicts(IF t \in DOMAIN q.mapTx
                          THEN RemoveStaged(q, {t}, TRUE) ELSE q, t), t)
  IN  FoldLeft(RemoveOne, p, vtx)

-----------------------------------------------------------------------------
(* AcceptToMemoryPool: PreChecks, then Finalize.  Standardness, scripts    *)
(* and time locks are the constant NonStandard.                            *)

Conflicts(p, t) == {p.next[o] : o \in Inputs[t] \cap DOMAIN p.next}

(* The limits for one replaced transaction, and the carve-out for a        *)
(* transaction with a single ancestor.                                     *)
PackageAncestors(p, t) ==
  LET from  == Spent(t) \cap DOMAIN p.mapTx
      limit == LimitDescendants
               + IF Cardinality(Conflicts(p, t)) = 1 THEN 1 ELSE 0
      first == CalculateMemPoolAncestors(p.mapTx, from, LimitAncestors, limit)
  IN  IF first.ok THEN first
      ELSE CalculateMemPoolAncestors(p.mapTx, from, 2, limit + 1)

(* BIP 125: what t replaces signals it, pays less, and brings in no        *)
(* unconfirmed parent that t did not have already.                         *)
CanReplace(p, t, conflicts, ancestors) ==
  LET m   == p.mapTx
      fee == Fee[t] + p.deltas[t]
  IN  conflicts # {} =>
        /\ conflicts \subseteq Replaceable
        /\ conflicts \cap ancestors = {}
        /\ \A c \in conflicts : fee > ModFee(m, c)
        /\ Spent(t) \cap DOMAIN m \subseteq UNION {Spent(c) : c \in conflicts}
        /\ fee > Fees(m, CalculateDescendants(m, conflicts))

PreChecks(p, t) ==
  /\ t \in Tx \ NonStandard
  /\ t \notin DOMAIN p.mapTx \cup Confirmed
  /\ \A o \in Inputs[t] : o[1] \in DOMAIN p.mapTx \/ HaveCoin(o)
  /\ \A o \in Inputs[t] : ~Immature(o, Gen)
  /\ PackageAncestors(p, t).ok
  /\ CanReplace(p, t, Conflicts(p, t), PackageAncestors(p, t).set)

SpendsCoinbase(t) == Spent(t) \cap Gen # {}

Finalize(p, t) ==
  LET m == p.mapTx
  IN  addUnchecked(
        RemoveStaged(p, CalculateDescendants(m, Conflicts(p, t)), FALSE),
        t, PackageAncestors(p, t).set, SpendsCoinbase(t))

-----------------------------------------------------------------------------
Idle == pc = "idle"
Goto(label) == pc' = label

(* A transaction arrives, from a peer, the wallet or an RPC.               *)
AcceptToMemoryPool(t) ==
  /\ Idle
  /\ PreChecks(pool, t)
  /\ pool' = Finalize(pool, t)
  /\ Goto("expire")
  /\ UNCHANGED <<tip, reorg>>

(* LimitMempoolSize: entries older than -mempoolexpiry go, with their      *)
(* descendants.  Which ones are old is left open.                          *)
Expire(aged) ==
  /\ pc = "expire"
  /\ pool' = RemoveStaged(pool, CalculateDescendants(pool.mapTx, aged), FALSE)
  /\ Goto("trim")
  /\ UNCHANGED <<tip, reorg>>

(* CompareTxMemPoolEntryByDescendantScore.                                 *)
Score(m, t) ==
  IF m[t].desc.fee > ModFee(m, t) * m[t].desc.count
  THEN m[t].desc ELSE [count |-> 1, fee |-> ModFee(m, t)]

Worst(m, t) ==
  \A u \in DOMAIN m :
     Score(m, t).fee * Score(m, u).count <= Score(m, u).fee * Score(m, t).count

TrimToSize ==
  /\ pc = "trim"
  /\ \/ /\ Cardinality(DOMAIN pool.mapTx) > MaxEntries
        /\ \E t \in DOMAIN pool.mapTx :
             /\ Worst(pool.mapTx, t)
             /\ pool' = RemoveStaged(pool,
                                     CalculateDescendants(pool.mapTx, {t}), FALSE)
        /\ UNCHANGED pc
     \/ /\ Cardinality(DOMAIN pool.mapTx) <= MaxEntries
        /\ Goto("idle")
        /\ UNCHANGED pool
  /\ UNCHANGED <<tip, reorg>>

(* The RPC prioritisetransaction.                                          *)
PrioritiseTransaction(t, delta) ==
  LET m    == pool.mapTx
      diff == delta - pool.deltas[t]
      above == Ancestors(m, m[t].parents)
      below == CalculateDescendants(m, {t}) \ {t}
  IN  /\ Idle
      /\ diff # 0
      /\ pool' =
           [pool EXCEPT
              !.deltas[t] = delta,
              !.mapTx =
                IF t \notin DOMAIN m THEN m
                ELSE [x \in DOMAIN m |->
                        [m[x] EXCEPT
                           !.delta = IF x = t THEN delta ELSE @,
                           !.desc = Plus(@, 0, IF x \in above \cup {t}
                                               THEN diff ELSE 0),
                           !.anc = Plus(@, 0, IF x \in below \cup {t}
                                              THEN diff ELSE 0)]]]
      /\ UNCHANGED <<tip, pc, reorg>>

-----------------------------------------------------------------------------
(* The chain moves.  ActivateBestChainStep leaves the tip for a block with *)
(* more work; InvalidateBlock goes back one block at a time, and no longer *)
(* re-adds transactions after the tenth.                                   *)

Begin(b, readd) ==
  /\ Idle
  /\ target' = b /\ old' = tip /\ add' = readd
  /\ Goto(IF tip \in ChainTo[b] THEN "connect" ELSE "disconnect")
  /\ UNCHANGED <<tip, pool, queued, update, included, cached>>

ActivateBestChainStep(b) == Height[b] > Height[tip] /\ Begin(b, TRUE)

InvalidateBlock(readd) == tip # Genesis /\ Begin(Parent[tip], readd)

(* The entry is dropped from the front of disconnectpool, its children     *)
(* from the pool, while it is over its limit.                              *)
DropEarliest(p, q) ==
  LET over == Len(q) - MaxDisconnected
  IN  IF over <= 0 THEN [pool |-> p, queued |-> q]
      ELSE [pool   |-> FoldLeft(removeRecursive, p, SubSeq(q, 1, over)),
            queued |-> SubSeq(q, over + 1, Len(q))]

DisconnectTip ==
  LET kept == DropEarliest(pool, queued \o Reverse(Txs[tip]))
  IN  /\ pc = "disconnect"
      /\ pool' = kept.pool /\ queued' = kept.queued
      /\ tip' = Parent[tip]
      /\ IF tip' \notin ChainTo[target] THEN UNCHANGED pc
         ELSE Goto(IF tip' = target THEN "readd" ELSE "connect")
      /\ UNCHANGED <<target, old, add, update, included, cached>>

(* Mutant: disconnectpool.removeForBlock is not called.                    *)
WithoutNothing(q, txs) == q

Without(q, txs) == SelectSeq(q, LAMBDA t : t \notin txs)

(* ConnectTip of the next block towards the target.                        *)
ConnectTip(b) ==
  /\ pc = "connect"
  /\ b \in ChainTo[target] \ ChainTo[tip] /\ Parent[b] = tip
  /\ Height[tip] <= Height[old]
  /\ pool' = removeForBlock(pool, Txs[b])
  /\ queued' = Without(queued, TxsOf(b))
  /\ tip' = b
  /\ UNCHANGED <<pc, target, old, add, update, included, cached>>

FinishReorg ==
  /\ target' = tip /\ old' = tip /\ add' = TRUE
  /\ queued' = <<>> /\ update' = <<>> /\ included' = {}
  /\ cached' = [t \in Tx |-> {}]

(* The target is reached, the tip is better than it was, or the next block *)
(* turned out invalid.                                                     *)
EndConnect ==
  /\ pc = "connect"
  /\ IF old \in ChainTo[tip]
     THEN Goto("idle") /\ FinishReorg
     ELSE Goto("readd") /\ UNCHANGED reorg
  /\ UNCHANGED <<tip, pool>>

(* A block cannot be read: the pool is made consistent with the tip        *)
(* without adding anything back.                                           *)
SystemError ==
  /\ pc \in {"disconnect", "connect"} /\ tip # target
  /\ add' = FALSE
  /\ Goto("readd")
  /\ UNCHANGED <<tip, pool, target, old, queued, update, included, cached>>

(* UpdateMempoolForReorg, one transaction of disconnectpool at a time from *)
(* the earliest in the chain.                                              *)
Readd ==
  LET t == Last(queued)
  IN  /\ pc = "readd" /\ queued # <<>>
      /\ queued' = Front(queued)
      /\ IF add /\ t \notin Gen /\ PreChecks(pool, t)
         THEN /\ pool' = Finalize(pool, t)
              /\ update' = Append(update, t)
              /\ included' = included \cup {t}
         ELSE /\ pool' = removeRecursive(pool, t)
              /\ UNCHANGED <<update, included>>
      /\ UNCHANGED <<tip, pc, target, old, add, cached>>

Readded ==
  /\ pc = "readd" /\ queued = <<>>
  /\ Goto("relink")
  /\ UNCHANGED <<tip, pool, reorg>>

(* The walk over children stops at a transaction with a cached set.        *)
UpdateForDescendants(m, t) ==
  LET open        == [x \in DOMAIN m |-> {c \in m[x].children : cached[c] = {}}]
      walked      == Reach(open, m[t].children)
      found       == UNION {cached[c] : c \in UNION {m[x].children : x \in walked}}
      descendants == (walked \cup found) \ included
  IN  [map    |-> [x \in DOMAIN m |->
                     IF x = t
                     THEN [m[x] EXCEPT !.desc = Plus(@, Cardinality(descendants),
                                                     Fees(m, descendants))]
                     ELSE IF x \in descendants
                     THEN [m[x] EXCEPT !.anc = Plus(@, 1, ModFee(m, t))]
                     ELSE m[x]],
       cached |-> [cached EXCEPT ![t] = @ \cup descendants]]

(* UpdateTransactionsFromBlock, in reverse of the order of re-adding.      *)
LinkChildren(p, t) ==
  LET new == Spenders(p, t) \ included
  IN  [x \in DOMAIN p.mapTx |->
         [p.mapTx[x] EXCEPT
            !.children = IF x = t THEN @ \cup new ELSE @,
            !.parents = IF x \in new THEN @ \cup {t} ELSE @]]

NextToUpdate == Last(update)

UpdateTransactionsFromBlock ==
  LET t      == NextToUpdate
      linked == UpdateForDescendants(LinkChildren(pool, t), t)
  IN  /\ pc = "relink" /\ update # <<>>
      /\ update' = SelectSeq(update, LAMBDA u : u # t)
      /\ IF t \in DOMAIN pool.mapTx
         THEN pool' = [pool EXCEPT !.mapTx = linked.map] /\ cached' = linked.cached
         ELSE UNCHANGED <<pool, cached>>
      /\ UNCHANGED <<tip, pc, target, old, add, queued, included>>

(* removeForReorg: an entry that spends a coinbase or coinstake and has an *)
(* input outside the pool that is gone, or an immature coinbase.           *)
Stale(m, t) ==
  m[t].gen /\ \E o \in Inputs[t] : o[1] \notin DOMAIN m
                                   /\ (~HaveCoin(o) \/ Immature(o, CoinBase))

removeForReorg ==
  LET m == pool.mapTx
      stale == {t \in DOMAIN m : Stale(m, t)}
  IN  /\ pc = "relink" /\ update = <<>>
      /\ pool' = RemoveStaged(pool, CalculateDescendants(m, stale), FALSE)
      /\ Goto("expire")
      /\ FinishReorg
      /\ UNCHANGED tip

-----------------------------------------------------------------------------
Init ==
  /\ tip = Genesis
  /\ pool = [mapTx |-> <<>>, next |-> <<>>, deltas |-> [t \in Tx |-> 0]]
  /\ pc = "idle"
  /\ target = Genesis /\ old = Genesis /\ add = TRUE
  /\ queued = <<>> /\ update = <<>> /\ included = {}
  /\ cached = [t \in Tx |-> {}]

Next ==
  \/ \E t \in Tx : AcceptToMemoryPool(t)
  \/ \E t \in Tx : \E d \in Delta[t] : PrioritiseTransaction(t, d)
  \/ \E aged \in {{}} \cup {{t} : t \in DOMAIN pool.mapTx} : Expire(aged)
  \/ TrimToSize
  \/ \E b \in Block : ActivateBestChainStep(b) \/ ConnectTip(b)
  \/ \E readd \in BOOLEAN : InvalidateBlock(readd)
  \/ DisconnectTip \/ EndConnect \/ SystemError
  \/ Readd \/ Readded \/ UpdateTransactionsFromBlock \/ removeForReorg

Spec == Init /\ [][Next]_vars

-----------------------------------------------------------------------------
(* Properties.                                                             *)

Total == [count : Nat, fee : Int]
Entry == [parents : SUBSET Tx, children : SUBSET Tx, anc : Total, desc : Total,
          delta : Int, gen : BOOLEAN]

(* The variables have their types: totals are never negative (the          *)
(* assertions of UpdateDescendantState and UpdateAncestorState), links     *)
(* stay inside mapTx, and mapNextTx holds exactly the inputs of the        *)
(* entries, each marked with the entry that spends it.                     *)
TypeOK ==
  /\ tip \in Block /\ target \in Block /\ old \in Block /\ add \in BOOLEAN
  /\ DOMAIN pool = {"mapTx", "next", "deltas"}
  /\ pool.deltas \in [Tx -> Int]
  /\ DOMAIN pool.mapTx \subseteq Tx
  /\ \A t \in DOMAIN pool.mapTx :
       /\ pool.mapTx[t] \in Entry
       /\ pool.mapTx[t].anc.count > 0 /\ pool.mapTx[t].desc.count > 0
       /\ pool.mapTx[t].parents \cup pool.mapTx[t].children
            \subseteq DOMAIN pool.mapTx
  /\ DOMAIN pool.next = UNION {Inputs[t] : t \in DOMAIN pool.mapTx}
  /\ \A o \in DOMAIN pool.next :
       pool.next[o] \in DOMAIN pool.mapTx /\ o \in Inputs[pool.next[o]]
  /\ pc \in {"idle", "disconnect", "connect", "readd", "relink", "expire", "trim"}
  /\ queued \in Seq(Tx \cup Gen) /\ update \in Seq(Tx) /\ included \subseteq Tx
  /\ cached \in [Tx -> SUBSET Tx]

(* The comment at txmempool.cpp:286-300: until UpdateTransactionsFromBlock *)
(* starts, even in the middle of a reorganisation, the ancestors reachable *)
(* through the links of an entry are exactly those whose packages include  *)
(* it, so that removal takes off what was put on.                          *)
LinkedAncestorsAccounted ==
  LET m == pool.mapTx
  IN  (pc # "relink" \/ update = <<>>) =>
        \A t \in DOMAIN m :
          LET up   == Ancestors(m, {t})
              down == CalculateDescendants(m, {t})
          IN  /\ \A u \in DOMAIN m : u \in m[t].parents <=> t \in m[u].children
              /\ m[t].anc = [count |-> Cardinality(up), fee |-> Fees(m, up)]
              /\ m[t].desc = [count |-> Cardinality(down), fee |-> Fees(m, down)]
              /\ m[t].delta = pool.deltas[t]

(* CTxMemPool::check, wherever a handler has released the pool: every      *)
(* input is an unspent coin or an output of another entry, the links are   *)
(* those the inputs give, and no coinbase that is spent is immature.       *)
check ==
  LET m == pool.mapTx
  IN  pc \in {"idle", "expire", "trim"} =>
        \A t \in DOMAIN m :
          /\ \A o \in Inputs[t] :
               o[1] \in DOMAIN m \/ (HaveCoin(o) /\ ~Immature(o, CoinBase))
          /\ m[t].parents = Spent(t) \cap DOMAIN m
          /\ m[t].children = {u \in DOMAIN m : t \in Spent(u)}

(* The assumption of UpdateMempoolForReorg (validation.cpp:369-371):       *)
(* disconnectpool holds only transactions that are neither confirmed in    *)
(* the current chain nor in the pool, and each of them once.               *)
DisconnectPoolFresh ==
  pc = "readd" =>
    /\ ToSet(queued) \cap (Confirmed \cup DOMAIN pool.mapTx) = {}
    /\ Len(queued) = Cardinality(ToSet(queued))

Family(m, t) == Reach([x \in DOMAIN m |-> {u \in DOMAIN m : x \in Spent(u)}], {t})

(* Acceptance keeps the package limits, replacement and carve-out          *)
(* included: no entry grows past one descendant more than the limit, and   *)
(* the new entry is within the ancestor limit.                             *)
PackageLimits ==
  [][\A t \in Tx : AcceptToMemoryPool(t) =>
       LET m == pool.mapTx
           n == pool'.mapTx
       IN  /\ n[t].anc.count <= Max({LimitAncestors, 2})
           /\ \A u \in DOMAIN n \cap DOMAIN m :
                Cardinality(Family(n, u))
                  <= Max({LimitDescendants + 1, Cardinality(Family(m, u))})]_vars

(* A block takes from the pool what it confirms and what depends on an     *)
(* input that it spends, and nothing else.                                 *)
BlockTakesOnlyItsOwn ==
  [][\A b \in Block : ConnectTip(b) =>
       LET m    == pool.mapTx
           lost == {t \in DOMAIN m \ TxsOf(b) :
                      \E u \in TxsOf(b) : Inputs[u] \cap Inputs[t] # {}}
       IN  DOMAIN pool'.mapTx
             = DOMAIN m \ (TxsOf(b) \cup UNION {Family(m, t) : t \in lost})]_vars

(* "CheckTxInputs() should always pass" (txmempool.cpp:613, asserted at    *)
(* 616): whenever the pool is released, no entry spends a coinbase or a    *)
(* coinstake that the next block may not spend yet.                        *)
CheckTxInputsAlwaysPasses ==
  pc = "idle" => \A t \in DOMAIN pool.mapTx, o \in UNION {Inputs[u] : u \in Tx} :
                   o \in Inputs[t] => ~Immature(o, Gen)
=============================================================================
