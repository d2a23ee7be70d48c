------------------------------ MODULE IndexSync ------------------------------
(***************************************************************************)
(* The optional indexes (index/base.cpp, txindex.cpp, blockfilterindex.cpp)*)
(* beside a chain that is reorganised: a thread syncs the index with the   *)
(* block files until it reaches the tip, then the callbacks of the         *)
(* validation queue keep it there; a locator in the index database says    *)
(* where to go on after a restart.                                         *)
(*                                                                         *)
(* The queue delivers its callbacks one at a time and in order (see        *)
(* ValidationQueue); those the index does not override are left out.       *)
(* Which chain is active is not decided here (see ChainSelection).  A      *)
(* locator is its first block: all ancestors of a block up to a height of  *)
(* ten are in its locator.  The writes of the index survive a crash of the *)
(* process.                                                                *)
(***************************************************************************)
EXTENDS Integers, Sequences, FiniteSets

CONSTANTS
  Block, Genesis,
  NoBlock,      \* nullptr, or no entry
  Parent,       \* pprev
  Height,       \* nHeight
  InitialTips,  \* the tips of nodes that turn the index on
  MaxChanges,   \* bound: changes of the active chain
  MaxStops      \* bound: crashes and shutdowns

ASSUME TreeAssumption ==
  /\ Genesis \in Block /\ NoBlock \notin Block
  /\ Parent \in [Block -> Block \cup {NoBlock}]
  /\ Height \in [Block -> Nat]
  /\ \A b \in Block : IF b = Genesis THEN Height[b] = 0 /\ Parent[b] = NoBlock
                      ELSE Parent[b] \in Block /\ Height[b] = Height[Parent[b]] + 1
  /\ InitialTips \subseteq Block \cup {NoBlock}
  /\ MaxChanges \in Nat /\ MaxStops \in Nat

VARIABLES
  kind,        \* "tx" for a TxIndex, "filter" for a BlockFilterIndex
  tip,         \* ChainActive().Tip()
  flushed,     \* the tip of the chain state on disk
  queue,       \* the callbacks of the validation queue, the current one first
  byHeight,    \* DB_BLOCK_HEIGHT: the block that each height's entry is for
  byHash,      \* DB_BLOCK_HASH, or the blocks whose transactions are in DB_TXINDEX
  locator,     \* DB_BEST_BLOCK
  m_synced,
  best,        \* m_best_block_index
  pindex,      \* of ThreadSync, null once it has ended
  sync,        \* where ThreadSync is
  handler,     \* where the current callback is
  oldBest,     \* current_tip of its Rewind
  m_interrupt,
  stopping,    \* how far the node is on its way down
  caller,      \* where a call of BlockUntilSyncedToCurrentChain is
  callTip,     \* the tip it saw
  changes, stops,
  ahead        \* history: blocks whose data is known to be missing or at risk

chainVars == <<tip, flushed, changes>>
dbVars == <<byHeight, byHash, locator, ahead>>
indexVars == <<m_synced, best>>
callVars == <<caller, callTip>>
nodeVars == <<kind, m_interrupt, stopping, stops>>
vars == <<chainVars, dbVars, indexVars, callVars, nodeVars, queue, pindex, sync, handler, oldBest>>

Heights == {Height[b] : b \in Block}

Event == [type : {"connected", "flushed", "sync"}, block : Block \cup {NoBlock}]

TypeOK ==
  /\ kind \in {"tx", "filter"} /\ {tip, flushed} \subseteq Block \cup {NoBlock}
  /\ queue \in Seq(Event)
  /\ byHeight \in [Heights -> Block \cup {NoBlock}] /\ byHash \subseteq Block
  /\ \A b \in Block : byHeight[Height[b]] # NoBlock => Height[byHeight[Height[b]]] = Height[b]
  /\ locator \in Block \cup {NoBlock} /\ m_synced \in BOOLEAN
  /\ {best, pindex, oldBest} \subseteq Block \cup {NoBlock}
  /\ sync \in {"start", "loop", "commit", "last", "write", "done"}
  /\ handler \in {"idle", "rewind", "write"}
  /\ m_interrupt \in BOOLEAN /\ stopping \in {"no", "requested", "flushed", "aborted"}
  /\ caller \in {"idle", "drain", "wait", "true"} /\ callTip \in Block \cup {NoBlock}
  /\ changes \in 0 .. MaxChanges /\ stops \in 0 .. MaxStops
  /\ ahead \subseteq Block

-----------------------------------------------------------------------------
(* Chains and locators                                                     *)

ancestors[b \in Block \cup {NoBlock}] ==
  IF b = NoBlock THEN {} ELSE {b} \cup ancestors[Parent[b]]

Highest(S) ==
  IF S = {} THEN NoBlock ELSE CHOOSE b \in S : \A c \in S : Height[c] <= Height[b]

\* FindFork(b), and FindForkInGlobalIndex for the locator of b, in the chain of t
FindFork(b, t) == Highest(ancestors[b] \cap ancestors[t])

\* ChainActive().Next(b)
NextInChain(b) ==
  IF b = tip \/ b \notin ancestors[tip] THEN NoBlock
  ELSE CHOOSE c \in ancestors[tip] : Parent[c] = b

\* A plausible mistake: a block that was reorganised away has no next block.
NextSyncBlockOnChain(b) == IF b = NoBlock THEN Genesis ELSE NextInChain(b)

NextSyncBlock(b) ==
  IF b = NoBlock THEN Genesis
  ELSE IF NextInChain(b) # NoBlock THEN NextInChain(b)
  ELSE NextInChain(FindFork(b, tip))

\* GetLocator(b), which takes the tip for a null b
GetLocator(b) == IF b = NoBlock THEN tip ELSE b

GetAncestor(b, height) == CHOOSE c \in ancestors[b] : Height[c] = height

\* The blocks from the fork of the chains of t and b up to b
Path(t, b) ==
  LET fork == FindFork(b, t)
      first == IF fork = NoBlock THEN 0 ELSE Height[fork] + 1
  IN [i \in 1 .. Height[b] + 1 - first |-> GetAncestor(b, first + i - 1)]

-----------------------------------------------------------------------------
(* The index database                                                      *)

\* FindTx, or LookupOne
Found(b) == b \in byHash \/ byHeight[Height[b]] = b

\* Commit for m_best_block_index = b: the CommitInternal of a BlockFilterIndex
\* may fail to flush the filter file.
Commit(b) ==
  locator' \in {GetLocator(b)} \cup (IF kind = "filter" THEN {locator} ELSE {})

\* The filter of a block needs the header of the filter before it.
CanWrite(b) ==
  kind = "filter" /\ b # Genesis => byHeight[Height[b] - 1] = Parent[b]

\* The transaction of the genesis block is not to be found; that counts as found.
WriteBlock(b) ==
  /\ IF kind = "tx" THEN byHash' = byHash \cup {b} /\ UNCHANGED byHeight
     ELSE byHeight' = [byHeight EXCEPT ![Height[b]] = b] /\ UNCHANGED byHash
  /\ ahead' = ahead \ {b}
  /\ UNCHANGED locator

HeightsOf(from, to) == {h \in Heights : Height[to] <= h /\ h <= Height[from]}

\* BlockFilterIndex::Rewind finds every entry it copies.
CanCopy(from, to) ==
  kind = "tx" \/ \A h \in HeightsOf(from, to) : byHeight[h] # NoBlock

\* A plausible mistake: the entry at the height of the old tip is left out.
CopyHeightIndexToHashIndexShort(from, to) ==
  IF kind = "tx" THEN byHash
  ELSE byHash \cup {byHeight[h] : h \in HeightsOf(from, to) \ {Height[from]}}

\* The hash index after BlockFilterIndex::Rewind; a TxIndex has nothing to copy.
CopyHeightIndexToHashIndex(from, to) ==
  IF kind = "tx" THEN byHash ELSE byHash \cup {byHeight[h] : h \in HeightsOf(from, to)}

-----------------------------------------------------------------------------
(* The node around the index                                               *)

\* The process runs; an action that takes cs_main also needs that ThreadSync
\* is not in its last section.
Running == stopping # "aborted"
cs_main == sync # "last"

Push(events) == queue' = queue \o events
Events(type, path) == [i \in DOMAIN path |-> [type |-> type, block |-> path[i]]]

FatalError == stopping' = IF stopping = "no" THEN "requested" ELSE stopping

\* ActivateBestChain or InvalidateBlock leaves b as the tip; BlockDisconnected
\* is not a callback of the index.
SetTip(b) ==
  /\ Running /\ cs_main /\ stopping # "flushed"
  /\ b # tip /\ changes < MaxChanges
  /\ tip' = b /\ changes' = changes + 1
  /\ Push(Events("connected", Path(tip, b)))
  /\ UNCHANGED <<flushed, dbVars, indexVars, callVars, nodeVars, pindex, sync, handler, oldBest>>

\* FlushStateToDisk with a full flush; one that finds nothing new is left out.
FlushStateToDisk ==
  /\ Running /\ cs_main /\ stopping # "flushed" /\ tip # flushed
  /\ flushed' = tip
  /\ Push(Events("flushed", <<tip>>))
  /\ UNCHANGED <<tip, changes, dbVars, indexVars, callVars, nodeVars, pindex, sync, handler, oldBest>>

StartShutdown ==
  /\ stopping = "no" /\ stops < MaxStops
  /\ stopping' = "requested"
  /\ UNCHANGED <<kind, m_interrupt, stops, chainVars, dbVars, indexVars, callVars, queue, pindex, sync, handler, oldBest>>

\* Interrupt(), when the main thread sees the request
Interrupt ==
  /\ stopping = "requested" /\ ~m_interrupt
  /\ m_interrupt' = TRUE
  /\ UNCHANGED <<kind, stopping, stops, chainVars, dbVars, indexVars, callVars, queue, pindex, sync, handler, oldBest>>

\* Shutdown has stopped the threads that change the chain, and flushes.
Shutdown ==
  /\ stopping = "requested" /\ m_interrupt /\ cs_main
  /\ stopping' = "flushed" /\ flushed' = tip
  /\ Push(IF tip = NoBlock THEN <<>> ELSE Events("flushed", <<tip>>))
  /\ UNCHANGED <<tip, changes, kind, m_interrupt, stops, dbVars, indexVars, callVars, pindex, sync, handler, oldBest>>

EndSync == sync' = "done" /\ pindex' = NoBlock

\* Start and Init of a new process, which finds t as its tip.  Init goes back
\* to the fork without Rewind: the filters above it are not copied, and the
\* locator stays.
Start(t) ==
  /\ tip' = t /\ flushed' = t
  /\ best' = FindFork(locator, t)
  /\ m_synced' = (best' = t)
  /\ IF m_synced' THEN EndSync ELSE pindex' = best' /\ sync' = "start"
  /\ queue' = <<>> /\ handler' = "idle" /\ oldBest' = NoBlock
  /\ caller' = "idle" /\ callTip' = NoBlock
  /\ m_interrupt' = FALSE /\ stopping' = "no" /\ stops' = stops + 1
  /\ ahead' = ahead \cup {b \in Block : byHeight[Height[b]] = b /\ b \notin ancestors[best']}
  /\ UNCHANGED <<changes, kind, byHeight, byHash, locator>>

\* The callbacks are drained, the index is stopped, and the node starts again.
Restart ==
  /\ stopping = "flushed" /\ queue = <<>> /\ sync = "done" /\ stops < MaxStops
  /\ Start(flushed)

\* The process dies at any point, or has been aborted, and starts again.
Crash ==
  /\ stops < MaxStops
  /\ Start(flushed)

-----------------------------------------------------------------------------
(* ThreadSync                                                              *)

\* The head of the loop sees m_interrupt; the locator of a null pindex is
\* that of the tip.
SyncInterrupted ==
  /\ Running /\ sync \in {"start", "loop"} /\ m_interrupt /\ cs_main
  /\ best' = pindex /\ EndSync
  /\ Commit(pindex)
  /\ ahead' = IF locator' = locator THEN ahead
              ELSE ahead \cup {b \in ancestors[tip] : pindex = NoBlock /\ ~Found(b)}
  /\ UNCHANGED <<byHeight, byHash, m_synced, chainVars, callVars, nodeVars, queue, handler, oldBest>>

\* A plausible mistake: m_synced is left as it is.
SyncLastUnset ==
  /\ Running /\ sync \in {"start", "loop"} /\ ~m_interrupt
  /\ NextSyncBlock(pindex) = NoBlock
  /\ best' = pindex /\ m_synced' = m_synced /\ sync' = "last"
  /\ UNCHANGED <<chainVars, dbVars, callVars, nodeVars, queue, pindex, handler, oldBest>>

\* There is no next block: m_synced is set, and the locator is written in
\* SyncCommitLast while cs_main is still held.
SyncLast ==
  /\ Running /\ sync \in {"start", "loop"} /\ ~m_interrupt
  /\ NextSyncBlock(pindex) = NoBlock
  /\ best' = pindex /\ m_synced' = TRUE /\ sync' = "last"
  /\ UNCHANGED <<chainVars, dbVars, callVars, nodeVars, queue, pindex, handler, oldBest>>

SyncCommitLast ==
  /\ Running /\ sync = "last"
  /\ Commit(best) /\ EndSync
  /\ UNCHANGED <<byHeight, byHash, ahead, chainVars, indexVars, callVars, nodeVars, queue, handler, oldBest>>

\* The first round of the loop writes a locator, later ones if it is time.
SyncGoOn == sync' \in IF sync = "start" THEN {"commit"} ELSE {"commit", "write"}

SyncNext ==
  /\ Running /\ sync \in {"start", "loop"} /\ ~m_interrupt
  /\ LET next == NextSyncBlock(pindex)
     IN /\ next # NoBlock /\ Parent[next] = pindex
        /\ pindex' = next
  /\ SyncGoOn
  /\ UNCHANGED <<chainVars, dbVars, indexVars, callVars, nodeVars, queue, handler, oldBest>>

\* The assertion current_tip == m_best_block_index of Rewind does not hold.
RewindAborts ==
  /\ stopping' = "aborted"
  /\ UNCHANGED <<best, locator, pindex, sync>>

\* Rewind commits, or cannot and the thread ends.
RewindCommits(to) ==
  \/ /\ locator' = to /\ best' = to
     /\ pindex' = NextSyncBlock(pindex)
     /\ SyncGoOn
     /\ UNCHANGED stopping
  \/ /\ kind = "filter" /\ FatalError /\ EndSync
     /\ UNCHANGED <<best, locator>>

\* pindex is not on the active chain: Rewind to where the chain forks.
SyncRewind ==
  /\ Running /\ sync \in {"start", "loop"} /\ ~m_interrupt
  /\ LET next == NextSyncBlock(pindex)
         to == Parent[next]
     IN /\ next # NoBlock /\ to # pindex
        /\ IF CanCopy(pindex, to)
           THEN /\ byHash' = CopyHeightIndexToHashIndex(pindex, to)
                /\ IF pindex # best THEN RewindAborts ELSE RewindCommits(to)
           ELSE FatalError /\ EndSync /\ UNCHANGED <<byHash, best, locator>>
  /\ UNCHANGED <<chainVars, byHeight, ahead, m_synced, callVars, kind, m_interrupt, stops, queue, handler, oldBest>>

SyncCommit ==
  /\ Running /\ sync = "commit"
  /\ best' = pindex /\ sync' = "write"
  /\ Commit(pindex)
  /\ ahead' = IF locator' = locator \/ Found(pindex) THEN ahead ELSE ahead \cup {pindex}
  /\ UNCHANGED <<byHeight, byHash, m_synced, chainVars, callVars, nodeVars, queue, pindex, handler, oldBest>>

\* The block cannot be read or its data cannot be written.
SyncFails ==
  /\ Running /\ sync = "write"
  /\ FatalError /\ EndSync
  /\ UNCHANGED <<kind, m_interrupt, stops, chainVars, dbVars, indexVars, callVars, queue, handler, oldBest>>

SyncWrite ==
  /\ Running /\ sync = "write" /\ CanWrite(pindex)
  /\ WriteBlock(pindex) /\ sync' = "loop"
  /\ UNCHANGED <<chainVars, indexVars, callVars, nodeVars, queue, pindex, handler, oldBest>>

ThreadSync ==
  \/ SyncInterrupted \/ SyncLast \/ SyncCommitLast \/ SyncNext
  \/ SyncRewind \/ SyncCommit \/ SyncFails \/ SyncWrite

-----------------------------------------------------------------------------
(* Callbacks of the validation queue                                       *)

Current(type) == Running /\ queue # <<>> /\ queue[1].type = type

Return == queue' = Tail(queue) /\ handler' = "idle"

\* The checks of BlockConnected
Connects(b) ==
  IF best = NoBlock THEN b = Genesis ELSE Parent[b] \in ancestors[best]

BlockConnectedIgnored ==
  /\ Current("connected") /\ handler = "idle"
  /\ ~m_synced \/ (best # NoBlock /\ ~Connects(queue[1].block))
  /\ Return
  /\ UNCHANGED <<chainVars, dbVars, indexVars, callVars, nodeVars, pindex, sync, oldBest>>

\* Rewind up to its store of m_best_block_index
BlockConnected ==
  /\ Current("connected") /\ handler = "idle" /\ m_synced
  /\ LET b == queue[1].block
     IN /\ Connects(b)
        /\ IF best = Parent[b]
           THEN handler' = "write" /\ UNCHANGED <<byHash, best, oldBest>>
           ELSE /\ CanCopy(best, Parent[b])
                /\ byHash' = CopyHeightIndexToHashIndex(best, Parent[b])
                /\ best' = Parent[b] /\ oldBest' = best /\ handler' = "rewind"
  /\ UNCHANGED <<chainVars, byHeight, locator, ahead, m_synced, callVars, nodeVars, queue, pindex, sync>>

\* The Commit of Rewind
RewindCommit ==
  /\ Running /\ handler = "rewind" /\ cs_main
  /\ \/ locator' = best /\ handler' = "write" /\ UNCHANGED <<best, queue, stopping>>
     \/ kind = "filter" /\ best' = oldBest /\ FatalError /\ Return /\ UNCHANGED locator
  /\ oldBest' = NoBlock
  /\ UNCHANGED <<chainVars, byHeight, byHash, ahead, m_synced, callVars, kind, m_interrupt, stops, pindex, sync>>

BlockConnectedWrite ==
  /\ Running /\ handler = "write" /\ CanWrite(queue[1].block)
  /\ WriteBlock(queue[1].block) /\ best' = queue[1].block
  /\ Return
  /\ UNCHANGED <<m_synced, chainVars, callVars, nodeVars, pindex, sync, oldBest>>

\* A plausible mistake: m_best_block_index is stored all the same.
BlockConnectedFailsOn ==
  /\ \/ /\ Current("connected") /\ handler = "idle" /\ m_synced
        /\ LET b == queue[1].block
           IN IF best = NoBlock THEN b # Genesis
              ELSE Connects(b) /\ best # Parent[b] /\ ~CanCopy(best, Parent[b])
     \/ Running /\ handler = "write" /\ (kind = "filter" \/ ~CanWrite(queue[1].block))
  /\ FatalError /\ Return /\ best' = queue[1].block
  /\ UNCHANGED <<chainVars, dbVars, m_synced, callVars, kind, m_interrupt, stops, pindex, sync, oldBest>>

\* A first block that is not the genesis block, filters that are missing for
\* Rewind, or data that is not written
BlockConnectedFails ==
  /\ \/ /\ Current("connected") /\ handler = "idle" /\ m_synced
        /\ LET b == queue[1].block
           IN IF best = NoBlock THEN b # Genesis
              ELSE Connects(b) /\ best # Parent[b] /\ ~CanCopy(best, Parent[b])
     \/ Running /\ handler = "write" /\ (kind = "filter" \/ ~CanWrite(queue[1].block))
  /\ FatalError /\ Return
  /\ UNCHANGED <<chainVars, dbVars, indexVars, callVars, kind, m_interrupt, stops, pindex, sync, oldBest>>

\* A null best (WriteBlock has failed for the genesis block) is dereferenced.
ChainStateFlushed ==
  /\ Current("flushed") /\ cs_main
  /\ IF m_synced /\ queue[1].block \in ancestors[best] THEN Commit(best) ELSE UNCHANGED locator
  /\ stopping' = IF m_synced /\ best = NoBlock THEN "aborted" ELSE stopping
  /\ Return
  /\ UNCHANGED <<byHeight, byHash, ahead, chainVars, indexVars, callVars, kind, m_interrupt, stops, pindex, sync, oldBest>>

\* The promise of SyncWithValidationInterfaceQueue is set.
SyncCallback ==
  /\ Current("sync")
  /\ caller' = "true"
  /\ Return
  /\ UNCHANGED <<callTip, chainVars, dbVars, indexVars, nodeVars, pindex, sync, oldBest>>

Callback ==
  \/ BlockConnectedIgnored \/ BlockConnected \/ RewindCommit \/ BlockConnectedWrite
  \/ BlockConnectedFails \/ ChainStateFlushed \/ SyncCallback

-----------------------------------------------------------------------------
(* A caller of BlockUntilSyncedToCurrentChain                              *)

\* A plausible mistake: a tip as high as the index needs no waiting.
CaughtUpToHigh == Height[tip] <= Height[best]

CaughtUpTo == tip \in ancestors[best]

\* The check under cs_main; calls that return false at once are left out, and
\* the calls start when the genesis block is indexed.
BlockUntilSyncedToCurrentChain ==
  /\ stopping = "no" /\ caller = "idle" /\ m_synced /\ cs_main
  /\ tip # NoBlock /\ best # NoBlock
  /\ callTip' = tip
  /\ caller' = IF CaughtUpTo THEN "true" ELSE "drain"
  /\ UNCHANGED <<chainVars, dbVars, indexVars, nodeVars, queue, pindex, sync, handler, oldBest>>

SyncWithValidationInterfaceQueue ==
  /\ Running /\ caller = "drain" /\ stopping # "flushed"
  /\ caller' = "wait"
  /\ Push(Events("sync", <<NoBlock>>))
  /\ UNCHANGED <<callTip, chainVars, dbVars, indexVars, nodeVars, pindex, sync, handler, oldBest>>

CallReturns ==
  /\ Running /\ caller = "true"
  /\ caller' = "idle" /\ callTip' = NoBlock
  /\ UNCHANGED <<chainVars, dbVars, indexVars, nodeVars, queue, pindex, sync, handler, oldBest>>

-----------------------------------------------------------------------------

\* The index is new: on a new node, which has not connected the genesis block
\* yet and counts as synced, or on a node that has a chain.
Init ==
  /\ kind \in {"tx", "filter"}
  /\ tip \in InitialTips /\ flushed = tip
  /\ queue = <<>>
  /\ byHeight = [h \in Heights |-> NoBlock] /\ byHash = {} /\ locator = NoBlock
  /\ best = NoBlock /\ m_synced = (tip = NoBlock)
  /\ pindex = NoBlock /\ sync = IF m_synced THEN "done" ELSE "start"
  /\ handler = "idle" /\ oldBest = NoBlock
  /\ m_interrupt = FALSE /\ stopping = "no"
  /\ caller = "idle" /\ callTip = NoBlock
  /\ changes = 0 /\ stops = 0 /\ ahead = {}

Node ==
  \/ \E b \in Block : SetTip(b)
  \/ FlushStateToDisk \/ StartShutdown \/ Interrupt \/ Shutdown \/ Restart \/ Crash

Call == BlockUntilSyncedToCurrentChain \/ SyncWithValidationInterfaceQueue \/ CallReturns

Next == Node \/ ThreadSync \/ Callback \/ Call

Spec == Init /\ [][Next]_vars

\* The operating system runs ThreadSync, and the scheduler its callbacks.
FairSpec == Spec /\ WF_vars(ThreadSync) /\ WF_vars(Callback)

-----------------------------------------------------------------------------
(* Properties                                                              *)

\* The locator never vouches for a block whose data is missing, whatever
\* crash, failed commit or reorganisation came before, but for the blocks in
\* ahead: those that ThreadSync commits before it writes them
\* (base.cpp:130-143), those of the tip's locator that it commits when it is
\* interrupted before its first block, and those whose filters Init went back
\* over after a crash.
LocatorBacked == \A b \in ancestors[locator] : Found(b) \/ b \in ahead

\* Once the callbacks have caught up, a synced index is at the active tip or
\* beyond it: no block connected while ThreadSync handed over, while the queue
\* held blocks of a stale branch, or while Rewind ran is missed.
Tracks ==
  m_synced /\ queue = <<>> /\ stopping = "no" => tip \in ancestors[best] \cup {NoBlock}

\* When BlockUntilSyncedToCurrentChain returns true every block of the chain
\* it saw can be looked up, unless the node is going down.
SyncedToCurrentChain ==
  caller = "true" /\ stopping = "no" =>
    \A b \in ancestors[callTip] : Found(b) \/ b \in ahead

\* The data of a block is never lost when the chain is reorganised: Rewind
\* copies the filters that the entries of the new chain will overwrite.  Only
\* filters that Init went back over after a crash are not safe.
NothingForgotten ==
  [][\A b \in Block : Found(b) => Found(b)' \/ b \in ahead]_vars

\* The index is synced and at the tip again and again, and so in the end when
\* the chain stays as it is, unless the node goes down.
CatchesUp ==
  []<>((m_synced /\ tip \in ancestors[best] \cup {NoBlock}) \/ stopping # "no")

=============================================================================
