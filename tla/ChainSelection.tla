--------------------------- MODULE ChainSelection ---------------------------
(***************************************************************************)
(* Which chain a node follows: the block index (BlockManager) and the      *)
(* candidates for its tip (CChainState), changed by threads that accept    *)
(* headers and blocks, activate the best chain, and serve the RPCs         *)
(* preciousblock, invalidateblock and reconsiderblock (validation.cpp).    *)
(*                                                                         *)
(* A step is a section under cs_main, except that ActivateBestChain, which *)
(* holds cs_main while it searches, disconnects and connects, takes one    *)
(* step for each candidate it examines and for each block it moves over;   *)
(* no other thread runs in between.  ActivateBestChain and InvalidateBlock *)
(* also hold m_cs_chainstate, over several sections under cs_main.         *)
(*                                                                         *)
(* Left out: pruning (every block with HAVE_DATA keeps it), the best       *)
(* header and the best invalid block (download and warnings only), system  *)
(* errors that stop the node, and crashes (see ChainstateFlush).           *)
(***************************************************************************)
EXTENDS Integers, FiniteSets

CONSTANTS
  Thread,
  Block,       \* all block headers that may arrive
  Genesis,
  NoBlock,     \* nullptr
  Parent,      \* pprev
  Height,      \* nHeight
  Work,        \* nChainWork
  Verdicts,    \* what the checks may say: functions from blocks to Verdict
  Addresses,   \* where the entries may be allocated: the order of pointers
  Command,     \* the RPCs in use, of "precious", "invalidate", "reconsider"
  MaxCommands  \* bound on their number

Verdict == {"valid", "badBlock", "badConnect"}

ASSUME TreeAssumption ==
  /\ Genesis \in Block /\ NoBlock \notin Block
  /\ Parent \in [Block -> Block \cup {NoBlock}]
  /\ Height \in [Block -> Nat] /\ Work \in [Block -> Nat]
  /\ \A b \in Block :
       IF b = Genesis THEN Height[b] = 0 /\ Parent[b] = NoBlock
       ELSE /\ Parent[b] \in Block
            /\ Height[b] = Height[Parent[b]] + 1 /\ Work[b] > Work[Parent[b]]
  /\ \A v \in Verdicts : v \in [Block -> Verdict] /\ v[Genesis] = "valid"
  /\ \A p \in Addresses :
       p \in [Block -> Nat] /\ \A b, c \in Block : p[b] = p[c] => b = c
  /\ MaxCommands \in Nat

VARIABLES
  verdict,       \* whether each block passes ContextualCheckBlock and ConnectBlock
  address,       \* the order of the CBlockIndex pointers
  known,         \* m_block_index
  haveData,      \* blocks with BLOCK_HAVE_DATA (and BLOCK_VALID_TRANSACTIONS)
  linked,        \* blocks with HaveTxsDownloaded()
  scripts,       \* blocks with BLOCK_VALID_SCRIPTS
  failedValid,   \* blocks with BLOCK_FAILED_VALID
  failedChild,   \* blocks with BLOCK_FAILED_CHILD
  mFailed,       \* m_failed_blocks
  unlinked,      \* m_blocks_unlinked, an entry by its second component
  candidates,    \* setBlockIndexCandidates
  nSequenceId,   \* of each block
  nBlockSequenceId, nBlockReverseSequenceId, nLastPreciousChainwork,
  tip,           \* m_chain.Tip()
  pc,            \* where each thread is
  pindex,        \* the block each thread invalidates
  mostWork,      \* pindexMostWork       \
  startingTip,   \* starting_tip          | of the thread in
  oldTip,        \* pindexOldTip          | ActivateBestChain
  connected,     \* blocks_connected     /
  toMarkFailed,  \* to_mark_failed             \ of the thread in
  byWork,        \* candidate_blocks_by_work   / InvalidateBlock
  shutdown,      \* ShutdownRequested()
  commands       \* RPCs started

environment == <<verdict, address, commands>>
status == <<known, haveData, linked, scripts, failedValid, failedChild>>
blockman == <<status, mFailed, unlinked>>
sequence == <<nSequenceId, nBlockSequenceId, nBlockReverseSequenceId,
              nLastPreciousChainwork>>
activation == <<mostWork, startingTip, oldTip, connected>>
invalidation == <<pindex, toMarkFailed, byWork>>
vars == <<environment, blockman, candidates, sequence, tip, pc, activation,
          invalidation, shutdown>>

-----------------------------------------------------------------------------
(* Chains and the order on their tips.                                     *)

ancestors[b \in Block] ==
  {b} \cup IF b = Genesis THEN {} ELSE ancestors[Parent[b]]

\* m_chain
Chain == ancestors[tip]

Failed == failedValid \cup failedChild

\* IsValid(BLOCK_VALID_TRANSACTIONS) && HaveTxsDownloaded()
Usable == (haveData \cap linked) \ Failed

\* CBlockIndexWorkComparator under the sequence numbers id.
WorseWith(id, a, b) ==
  \/ Work[a] < Work[b]
  \/ Work[a] = Work[b] /\ id[a] > id[b]
  \/ Work[a] = Work[b] /\ id[a] = id[b] /\ address[a] > address[b]

Worse(a, b) == WorseWith(nSequenceId, a, b)

\* A plausible mistake: the tip itself is deleted too.
NotPrunedStrict(S, t) == {c \in S : Worse(t, c)}

\* The candidates PruneBlockIndexCandidates leaves when the tip is t.
NotPruned(S, t) == {c \in S : ~Worse(c, t)}

\* The threads that hold m_cs_chainstate.
Owners == {t \in Thread : pc[t] \in {"top", "find", "step", "invalidating", "marking"}}

ChainstateFree == Owners = {}

CsMainFree == \A t \in Thread : pc[t] \notin {"find", "step"}

Init ==
  /\ verdict \in Verdicts
  /\ address \in Addresses
  /\ known = {Genesis} /\ haveData = {Genesis} /\ linked = {Genesis}
  /\ scripts = {} /\ failedValid = {} /\ failedChild = {}
  /\ mFailed = {} /\ unlinked = {}
  /\ candidates = {Genesis}
  /\ nSequenceId = [b \in Block |-> IF b = Genesis THEN 1 ELSE 0]
  /\ nBlockSequenceId = 2 /\ nBlockReverseSequenceId = -1
  /\ nLastPreciousChainwork = 0
  /\ tip = Genesis
  /\ pc = [t \in Thread |-> "idle"]
  /\ pindex = [t \in Thread |-> NoBlock]
  /\ mostWork = NoBlock /\ startingTip = NoBlock /\ oldTip = NoBlock
  /\ connected = FALSE
  /\ toMarkFailed = NoBlock /\ byWork = {}
  /\ shutdown = FALSE /\ commands = 0

-----------------------------------------------------------------------------
(* Headers and blocks arrive, in any order.                                *)

\* The members of m_failed_blocks that AcceptBlockHeader finds below prev.
FailedBelow(prev) ==
  IF prev \in scripts THEN {} ELSE mFailed \cap ancestors[prev]

\* A new entry; a block that is known keeps the one it has.
AddToBlockIndex(b) == known' = known \cup {b}

\* AcceptBlockHeader accepts the header of b, known or new.
HeaderAccepted(b) ==
  IF b \in known THEN b \notin Failed
  ELSE /\ Parent[b] \in known \ Failed
       /\ FailedBelow(Parent[b]) = {}

\* AcceptBlockHeader rejects a new header that descends from a failed block
\* and marks the blocks between the two.
RejectHeader(b) ==
  /\ CsMainFree
  /\ b \notin known
  /\ Parent[b] \in known \ Failed
  /\ \E f \in FailedBelow(Parent[b]) :
       failedChild' = failedChild \cup (ancestors[Parent[b]] \ ancestors[f])
  /\ UNCHANGED <<environment, known, haveData, linked, scripts, failedValid,
                 mFailed, unlinked, candidates, sequence, tip, pc, activation,
                 invalidation, shutdown>>

\* ProcessNewBlockHeaders for one new header.
AddHeader(b) ==
  /\ CsMainFree
  /\ b \notin known
  /\ HeaderAccepted(b)
  /\ AddToBlockIndex(b)
  /\ UNCHANGED <<environment, haveData, linked, scripts, failedValid,
                 failedChild, mFailed, unlinked, candidates, sequence, tip, pc,
                 activation, invalidation, shutdown>>

\* A plausible mistake: the queue does not take in what waited for the blocks it links.
UnblockedChildren(b) == {b} \cup {c \in unlinked : Parent[c] = b}

\* The blocks ReceivedBlockTransactions links when b is linked: b and those
\* that waited for it in m_blocks_unlinked, directly or not.
Unblocked(b) ==
  {b} \cup {c \in unlinked : /\ b \in ancestors[c]
                             /\ ancestors[c] \ ancestors[b] \subseteq unlinked}

\* The orders in which its queue may visit the blocks of L: breadth first,
\* siblings in the order they entered m_blocks_unlinked.
QueueOrders(L) ==
  {f \in [L -> 0 .. Cardinality(L) - 1] :
     \A a, c \in L :
       a # c => /\ f[a] # f[c]
                /\ Height[a] < Height[c] => f[a] < f[c]
                /\ (/\ Height[a] = Height[c] /\ Parent[a] \in L
                    /\ Parent[c] \in L /\ Parent[a] # Parent[c]
                    /\ f[Parent[a]] < f[Parent[c]]) => f[a] < f[c]}

\* A plausible mistake: a block whose parent is not linked is not remembered.
WaitingNever(b) == {}

\* A block whose parent is not linked waits for it, unless that has failed.
Waiting(b) == {b} \ {c \in Block : Parent[c] \in Failed}

ReceivedBlockTransactions(b) ==
  /\ haveData' = haveData \cup {b}
  /\ IF Parent[b] \in linked
     THEN LET L == Unblocked(b) IN
       \E f \in QueueOrders(L) :
         LET id == [c \in Block |-> IF c \in L THEN nBlockSequenceId + f[c]
                                    ELSE nSequenceId[c]]
         IN  /\ linked' = linked \cup L
             /\ nSequenceId' = id
             /\ nBlockSequenceId' = nBlockSequenceId + Cardinality(L)
             /\ candidates' = candidates \cup {c \in L : ~WorseWith(id, c, tip)}
             /\ unlinked' = unlinked \ L
     ELSE /\ unlinked' = unlinked \cup Waiting(b)
          /\ UNCHANGED <<linked, nSequenceId, nBlockSequenceId, candidates>>

\* ProcessNewBlock, when AcceptBlock has the block or does not want it: it was
\* not requested and has too little work.
IgnoreBlock(t, b) ==
  /\ CsMainFree
  /\ pc[t] = "idle"
  /\ HeaderAccepted(b)
  /\ b \in haveData \/ Work[b] < Work[tip]
  /\ AddToBlockIndex(b)
  /\ pc' = [pc EXCEPT ![t] = "activate"]
  /\ UNCHANGED <<environment, haveData, linked, scripts, failedValid,
                 failedChild, mFailed, unlinked, candidates, sequence, tip,
                 activation, invalidation, shutdown>>

\* ProcessNewBlock, when the block fails a check of AcceptBlock.
RefuseBlock(t, b) ==
  /\ CsMainFree
  /\ pc[t] = "idle"
  /\ HeaderAccepted(b)
  /\ b \notin haveData
  /\ verdict[b] = "badBlock"
  /\ AddToBlockIndex(b)
  /\ failedValid' = failedValid \cup {b}
  /\ UNCHANGED <<environment, haveData, linked, scripts, failedChild, mFailed,
                 unlinked, candidates, sequence, tip, pc, activation,
                 invalidation, shutdown>>

\* ProcessNewBlock, when AcceptBlock stores the block.
AcceptBlock(t, b) ==
  /\ CsMainFree
  /\ pc[t] = "idle"
  /\ HeaderAccepted(b)
  /\ b \notin haveData
  /\ verdict[b] # "badBlock"
  /\ AddToBlockIndex(b)
  /\ ReceivedBlockTransactions(b)
  /\ pc' = [pc EXCEPT ![t] = "activate"]
  /\ UNCHANGED <<environment, scripts, failedValid, failedChild, mFailed,
                 nBlockReverseSequenceId, nLastPreciousChainwork, tip,
                 activation, invalidation, shutdown>>

-----------------------------------------------------------------------------
(* ActivateBestChain.                                                      *)

\* Its locals are gone.
LeaveActivation ==
  /\ mostWork' = NoBlock /\ startingTip' = NoBlock /\ oldTip' = NoBlock
  /\ connected' = FALSE

\* cs_main is taken: for the first time, with m_cs_chainstate, or again.
EnterLoop(t) ==
  /\ CsMainFree
  /\ pc[t] = "top" \/ (pc[t] = "activate" /\ ChainstateFree)
  /\ pc' = [pc EXCEPT ![t] = IF mostWork = NoBlock THEN "find" ELSE "step"]
  /\ startingTip' = tip
  /\ oldTip' = tip
  /\ connected' = FALSE
  /\ UNCHANGED <<environment, blockman, candidates, sequence, tip, mostWork,
                 invalidation, shutdown>>

Best == CHOOSE c \in candidates : \A d \in candidates \ {c} : Worse(d, c)

\* A plausible mistake: only the candidate itself is examined.
UnusableTip(c) == {c} \cap Failed

\* The blocks between the active chain and c that make c unusable.
Unusable(c) == (ancestors[c] \ Chain) \cap Failed

\* The highest of them: pindexTest.
TestBlock(bad) == CHOOSE f \in bad : \A e \in bad : Height[e] <= Height[f]

\* A plausible mistake: the blocks below pindexTest are marked, too.
FailedPath(c, bad) == ancestors[c] \ Chain

\* The blocks FindMostWorkChain marks as BLOCK_FAILED_CHILD.
FailedAbove(c, bad) == ancestors[c] \ ancestors[TestBlock(bad)]

\* A plausible mistake: setBlockIndexCandidates.erase(pindexTest) is forgotten.
DiscardedAbove(c, bad) == FailedAbove(c, bad)

\* The candidates FindMostWorkChain erases.
Discarded(c, bad) == FailedAbove(c, bad) \cup {TestBlock(bad)}

\* One round of FindMostWorkChain.
FindMostWorkChain(t) ==
  /\ pc[t] = "find"
  /\ IF candidates = {}
     THEN /\ pc' = [pc EXCEPT ![t] = "step"]
          /\ UNCHANGED <<mostWork, failedChild, candidates>>
     ELSE LET bad == Unusable(Best)
          IN  IF bad = {}
              THEN /\ mostWork' = Best
                   /\ pc' = [pc EXCEPT ![t] = "step"]
                   /\ UNCHANGED <<failedChild, candidates>>
              ELSE /\ failedChild' = failedChild \cup FailedAbove(Best, bad)
                   /\ candidates' = candidates \ Discarded(Best, bad)
                   /\ UNCHANGED <<mostWork, pc>>
  /\ UNCHANGED <<environment, known, haveData, linked, scripts, failedValid,
                 mFailed, unlinked, sequence, tip, startingTip, oldTip,
                 connected, invalidation, shutdown>>

\* A plausible mistake: the outer loop is left after one section.
EndSectionOnce(t, newTip, most) ==
  pc' = [pc EXCEPT ![t] = "idle"] /\ LeaveActivation

\* The section under cs_main ends with the tip at newTip and the target most:
\* return, or go round the outer loop again.
EndSection(t, newTip, most) ==
  IF newTip = most \/ shutdown
  THEN pc' = [pc EXCEPT ![t] = "idle"] /\ LeaveActivation
  ELSE /\ pc' = [pc EXCEPT ![t] = "top"]
       /\ mostWork' = most
       /\ startingTip' = NoBlock /\ oldTip' = NoBlock /\ connected' = FALSE

\* A plausible mistake: the inner loop is left after any step.
EndStepAnyway(t, newTip, most) == EndSection(t, newTip, most)

\* ActivateBestChainStep is done: go round the inner loop again unless the tip
\* is at least as good as when the section began.
EndStep(t, newTip, most) ==
  IF Worse(newTip, startingTip)
  THEN /\ pc' = [pc EXCEPT ![t] = IF most = NoBlock THEN "find" ELSE "step"]
       /\ mostWork' = most
       /\ oldTip' = newTip
       /\ connected' = TRUE
       /\ UNCHANGED startingTip
  ELSE EndSection(t, newTip, most)

\* Nothing to do.
NothingToDo(t) ==
  /\ pc[t] = "step"
  /\ mostWork \in {NoBlock, tip}
  /\ IF connected THEN EndSection(t, tip, mostWork)
     ELSE pc' = [pc EXCEPT ![t] = "idle"] /\ LeaveActivation
  /\ UNCHANGED <<environment, blockman, candidates, sequence, tip,
                 invalidation, shutdown>>

\* ActivateBestChainStep: disconnect down to the fork.
DisconnectTip(t) ==
  /\ pc[t] = "step"
  /\ mostWork # NoBlock
  /\ tip \notin ancestors[mostWork]
  /\ tip' = Parent[tip]
  /\ connected' = TRUE
  /\ UNCHANGED <<environment, blockman, candidates, sequence, pc, mostWork,
                 startingTip, oldTip, invalidation, shutdown>>

\* The block ActivateBestChainStep connects next.
Connecting(b) ==
  /\ mostWork \notin {NoBlock, tip}
  /\ tip \in ancestors[mostWork]
  /\ b \in ancestors[mostWork] /\ Parent[b] = tip

\* ConnectTip succeeds; stop at the first block that has more work than the
\* old tip.
ConnectTip(t) ==
  /\ pc[t] = "step"
  /\ \E b \in Block :
       /\ Connecting(b)
       /\ verdict[b] # "badConnect"
       /\ tip' = b
       /\ scripts' = scripts \cup {b}
       /\ candidates' = NotPruned(candidates, b)
       /\ IF b = mostWork \/ Work[b] > Work[oldTip]
          THEN EndStep(t, b, mostWork)
          ELSE connected' = TRUE /\ UNCHANGED <<pc, mostWork, startingTip, oldTip>>
  /\ UNCHANGED <<environment, known, haveData, linked, failedValid,
                 failedChild, mFailed, unlinked, sequence, invalidation,
                 shutdown>>

\* ConnectTip fails: InvalidBlockFound.
InvalidBlockFound(t) ==
  /\ pc[t] = "step"
  /\ \E b \in Block :
       /\ Connecting(b)
       /\ verdict[b] = "badConnect"
       /\ failedValid' = failedValid \cup {b}
       /\ mFailed' = mFailed \cup {b}
       /\ candidates' = candidates \ {b}
  /\ EndStep(t, tip, NoBlock)
  /\ UNCHANGED <<environment, known, haveData, linked, scripts, failedChild,
                 unlinked, sequence, tip, invalidation, shutdown>>

-----------------------------------------------------------------------------
(* The RPCs.                                                               *)

Call(t, rpc) ==
  /\ CsMainFree
  /\ pc[t] = "idle"
  /\ rpc \in Command
  /\ commands < MaxCommands
  /\ commands' = commands + 1

PreciousBlock(t, b) ==
  /\ Call(t, "precious")
  /\ b \in known
  /\ Work[b] >= Work[tip]
  /\ LET n == IF Work[tip] > nLastPreciousChainwork THEN -1
              ELSE nBlockReverseSequenceId
         id == [nSequenceId EXCEPT ![b] = n]
     IN  /\ nSequenceId' = id
         /\ nBlockReverseSequenceId' = n - 1
         /\ candidates' =
              IF b \in Usable
              THEN {c \in candidates \cup {b} : ~WorseWith(id, c, tip)}
              ELSE candidates \ {b}
  /\ nLastPreciousChainwork' = Work[tip]
  /\ pc' = [pc EXCEPT ![t] = "activate"]
  /\ UNCHANGED <<verdict, address, blockman, nBlockSequenceId, tip, activation,
                 invalidation, shutdown>>

\* A plausible mistake: m_failed_blocks keeps the ancestors.
NotFailedAnyMoreBelow(b, reset) == {c \in reset : b \in ancestors[c]}

\* What ResetBlockFailureFlags takes out of m_failed_blocks.
NotFailedAnyMore(b, reset) ==
  reset \cup {c \in known \ haveData : b \in ancestors[c]}

\* ResetBlockFailureFlags.
ReconsiderBlock(t, b) ==
  /\ Call(t, "reconsider")
  /\ b \in known
  /\ LET below == {c \in known : b \in ancestors[c]}
         reset == (below \cup ancestors[b]) \cap Failed
     IN  /\ failedValid' = failedValid \ reset
         /\ failedChild' = failedChild \ reset
         /\ mFailed' = mFailed \ NotFailedAnyMore(b, reset)
         /\ candidates' = candidates \cup
              {c \in below \cap Failed \cap haveData \cap linked : Worse(tip, c)}
  /\ pc' = [pc EXCEPT ![t] = "activate"]
  /\ UNCHANGED <<verdict, address, known, haveData, linked, scripts, unlinked,
                 sequence, tip, activation, invalidation, shutdown>>

\* The RPC invalidateblock is called; it waits for m_cs_chainstate.
CallInvalidateBlock(t, b) ==
  /\ Call(t, "invalidate")
  /\ b \in known \ {Genesis}
  /\ pindex' = [pindex EXCEPT ![t] = b]
  /\ pc' = [pc EXCEPT ![t] = "invalidate"]
  /\ UNCHANGED <<verdict, address, blockman, candidates, sequence, tip,
                 activation, toMarkFailed, byWork, shutdown>>

\* InvalidateBlock collects the candidates off the active chain.
InvalidateBlock(t) ==
  /\ CsMainFree
  /\ pc[t] = "invalidate" /\ ChainstateFree
  /\ byWork' = {c \in Usable \ Chain : ~Worse(c, Parent[pindex[t]])}
  /\ toMarkFailed' = pindex[t]
  /\ pc' = [pc EXCEPT ![t] = "invalidating"]
  /\ UNCHANGED <<environment, blockman, candidates, sequence, tip, activation,
                 pindex, shutdown>>

\* One round of its loop: the tip is disconnected and marked.
InvalidateTip(t) ==
  /\ CsMainFree
  /\ pc[t] = "invalidating"
  /\ ~shutdown /\ pindex[t] \in Chain
  /\ LET newTip == Parent[tip]
         childOnly == {toMarkFailed} \cap {newTip} \cap failedValid
         returning == {c \in byWork : ~Worse(c, newTip)}
     IN  /\ tip' = newTip
         /\ failedValid' = (failedValid \cup {tip}) \ childOnly
         /\ failedChild' = failedChild \cup childOnly
         /\ candidates' = (candidates \ {tip}) \cup {newTip} \cup returning
         /\ byWork' = byWork \ returning
  /\ toMarkFailed' = tip
  /\ UNCHANGED <<environment, known, haveData, linked, scripts, mFailed,
                 unlinked, sequence, pc, activation, pindex, shutdown>>

\* The loop ends.
InvalidatedTips(t) ==
  /\ CsMainFree
  /\ pc[t] = "invalidating"
  /\ shutdown \/ pindex[t] \notin Chain
  /\ pc' = [pc EXCEPT ![t] = "marking"]
  /\ UNCHANGED <<environment, blockman, candidates, sequence, tip, activation,
                 invalidation, shutdown>>

\* The last block is marked and the candidates are completed.
MarkFailed(t) ==
  /\ CsMainFree
  /\ pc[t] = "marking"
  /\ IF toMarkFailed \in Chain
     THEN UNCHANGED <<failedValid, mFailed, candidates>>
     ELSE /\ failedValid' = failedValid \cup {toMarkFailed}
          /\ mFailed' = mFailed \cup {toMarkFailed}
          /\ candidates' = (candidates \cup {c \in Usable : ~Worse(c, tip)})
                             \ {toMarkFailed}
  /\ pc' = [pc EXCEPT ![t] = "activate"]
  /\ pindex' = [pindex EXCEPT ![t] = NoBlock]
  /\ toMarkFailed' = NoBlock /\ byWork' = {}
  /\ UNCHANGED <<environment, known, haveData, linked, scripts, failedChild,
                 unlinked, sequence, tip, activation, shutdown>>

-----------------------------------------------------------------------------
(* Shutdown and restart.                                                   *)

StartShutdown ==
  /\ ~shutdown
  /\ shutdown' = TRUE
  /\ UNCHANGED <<environment, blockman, candidates, sequence, tip, pc,
                 activation, invalidation>>

\* LoadBlockIndex, LoadChainTip, then ActivateBestChain.  The index entries
\* are allocated anew.  Every BLOCK_FAILED_CHILD is kept: those that were not
\* written are found again, as their failed ancestor was written.
Restart ==
  /\ shutdown /\ \A t \in Thread : pc[t] = "idle"
  /\ shutdown' = FALSE
  /\ address' \in Addresses
  /\ nSequenceId' = [b \in Block |-> 0]
  /\ nBlockSequenceId' = 1 /\ nBlockReverseSequenceId' = -1
  /\ nLastPreciousChainwork' = 0
  /\ failedChild' = failedChild \cup
       {b \in known \ failedValid : ancestors[b] \cap Failed # {}}
  /\ mFailed' = {}
  /\ linked' = {b \in known : ancestors[b] \subseteq haveData}
  /\ unlinked' = haveData \ linked'
  /\ candidates' =
       {b \in (haveData \cap linked') \ (failedValid \cup failedChild') :
          Work[b] > Work[tip] \/ (Work[b] = Work[tip] /\ address'[b] <= address'[tip])}
  /\ \E t \in Thread : pc' = [pc EXCEPT ![t] = "activate"]
  /\ UNCHANGED <<verdict, commands, known, haveData, scripts, failedValid, tip,
                 activation, invalidation>>

-----------------------------------------------------------------------------

Step(t) ==
  \/ EnterLoop(t) \/ FindMostWorkChain(t) \/ NothingToDo(t)
  \/ DisconnectTip(t) \/ ConnectTip(t) \/ InvalidBlockFound(t)
  \/ InvalidateBlock(t) \/ InvalidateTip(t) \/ InvalidatedTips(t)
  \/ MarkFailed(t)

Request(t, b) ==
  \/ IgnoreBlock(t, b) \/ RefuseBlock(t, b) \/ AcceptBlock(t, b)
  \/ PreciousBlock(t, b) \/ ReconsiderBlock(t, b) \/ CallInvalidateBlock(t, b)

Next ==
  \/ \E b \in Block : RejectHeader(b) \/ AddHeader(b)
  \/ \E t \in Thread, b \in Block : Request(t, b)
  \/ \E t \in Thread : Step(t)
  \/ StartShutdown
  \/ Restart

Spec == Init /\ [][Next]_vars

\* A thread that waits for no lock goes on; the locks need not be fair.
FairSpec == Spec /\ \A t \in Thread : WF_vars(Step(t))

-----------------------------------------------------------------------------
(* Properties.                                                             *)

\* The types of the block index, of the candidates and of the locals.
TypeOK ==
  /\ Genesis \in haveData /\ haveData \subseteq known /\ known \subseteq Block
  /\ linked \subseteq haveData /\ scripts \subseteq linked
  /\ failedValid \subseteq known /\ failedChild \subseteq known
  /\ mFailed \subseteq known /\ unlinked \subseteq known
  /\ candidates \subseteq known /\ byWork \subseteq known
  /\ nSequenceId \in [Block -> Int]
  /\ nBlockSequenceId \in Nat /\ nBlockReverseSequenceId \in Int
  /\ nLastPreciousChainwork \in Nat /\ commands \in 0 .. MaxCommands
  /\ tip \in linked
  /\ pc \in [Thread -> {"idle", "activate", "top", "find", "step",
                        "invalidate", "invalidating", "marking"}]
  /\ pindex \in [Thread -> Block \cup {NoBlock}]
  /\ {mostWork, startingTip, oldTip, toMarkFailed} \subseteq known \cup {NoBlock}
  /\ connected \in BOOLEAN /\ shutdown \in BOOLEAN
  /\ Cardinality(Owners) <= 1

\* No thread is between the sections of InvalidateBlock.
NotInvalidating == \A t \in Thread : pc[t] \notin {"invalidating", "marking"}

\* CheckBlockIndex asserts that a block is linked exactly when it and all its
\* ancestors have had data.  InvalidateBlock can break it (README, section 4).
LinkedAsserted ==
  CsMainFree => \A b \in known : b \in linked <=> ancestors[b] \subseteq haveData

\* Whenever cs_main is free: the ancestors of a linked block have data; a block
\* with no failed ancestor is linked as soon as it and its ancestors have data,
\* whatever the order they came in; one that is not linked has no positive
\* sequence number.
LinkedExact ==
  CsMainFree => \A b \in known :
    /\ b \in linked => ancestors[b] \subseteq haveData
    /\ (/\ ancestors[b] \subseteq haveData
        /\ ancestors[b] \cap Failed = {}) => b \in linked
    /\ b \notin linked => nSequenceId[b] <= 0

\* CheckBlockIndex: a block with data that waits for an ancestor, with no invalid
\* ancestor, is in m_blocks_unlinked, and nothing else is there that has no data
\* or waits for none.
UnlinkedExact ==
  CsMainFree => \A b \in known :
    /\ (/\ b \in haveData \ linked
        /\ ancestors[b] \cap failedValid = {}) => b \in unlinked
    /\ b \in unlinked => b \in haveData \ linked

\* CheckBlockIndex: the blocks that are linked, have no invalid ancestor and sort
\* at least as good as the tip are candidates, except that InvalidateBlock may
\* overlook those that arrive while it runs; nothing that sorts worse or waits
\* for an ancestor is a candidate.
CandidatesExact ==
  CsMainFree => \A b \in known :
    /\ (/\ NotInvalidating \/ b = tip
        /\ b \in linked /\ ~Worse(b, tip)
        /\ ancestors[b] \cap failedValid = {}) => b \in candidates
    /\ b \in candidates => b \in linked /\ ~Worse(b, tip)

\* CheckBlockIndex: a block is marked as failed only if it or an ancestor was
\* found or declared invalid.
FailureHasCause ==
  CsMainFree => \A b \in Failed : ancestors[b] \cap failedValid # {}

\* InvalidateBlock: only the last block it disconnects keeps BLOCK_FAILED_VALID,
\* so one call on a tree of valid blocks leaves one such block.  So says a comment;
\* the code marks them all (README, section 4).
OnlyLastInvalid ==
  (commands <= 1 /\ \A b \in Block : verdict[b] = "valid") =>
     Cardinality(failedValid) <= 1

\* AcceptBlockHeader: every member of m_failed_blocks has BLOCK_FAILED_VALID.
FailedBlocksFailed == mFailed \subseteq failedValid

\* Whenever cs_main is free no block of the active chain is marked as failed, and
\* all its blocks are linked and were connected.
ActiveChainValid ==
  CsMainFree => /\ Chain \cap Failed = {}
                /\ Chain \subseteq linked
                /\ Chain \ {Genesis} \subseteq scripts

\* When every thread has returned, no chain that the node could follow sorts
\* better than the active one: the last ActivateBestChain missed none.
IdleBest ==
  (~shutdown /\ \A t \in Thread : pc[t] = "idle") =>
     \A b \in linked : Worse(tip, b) => ancestors[b] \cap Failed # {}

\* ActivateBestChain does not let go of cs_main on a tip that sorts worse than
\* the one it found, even when the chain it tried turns out to be invalid.  A
\* reconsiderblock can break this (README, section 4).
ForwardProgress ==
  [][(~CsMainFree /\ CsMainFree') => ~Worse(tip', startingTip)]_vars

\* A later preciousblock overrides an earlier one: the block is sorted before
\* all others with the same work that the node has received.  So says the RPC's
\* help; two calls can tie (README, section 4).
PreciousFirst ==
  [][\A t \in Thread, b \in Block :
       PreciousBlock(t, b) =>
         \A c \in linked \ {b} : Work[c] = Work[b] => WorseWith(nSequenceId', c, b)]_vars

\* ActivateBestChain and InvalidateBlock return, whatever arrives between their
\* sections.
LoopsEnd == (Owners # {}) ~> (Owners = {})

=============================================================================
