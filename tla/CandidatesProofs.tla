-------------------------- MODULE CandidatesProofs --------------------------
(***************************************************************************)
(* Proofs about ChainSelection for nodes on which reconsiderblock is not   *)
(* called.  The invariant adds two layers to AInv:                         *)
(*   - Cause and Links: marks have a cause, and m_blocks_unlinked has what *)
(*     it should;                                                          *)
(*   - SInv, if preciousblock on the tip does not make it sort worse:      *)
(*     setBlockIndexCandidates has what it should, also halfway through    *)
(*     ActivateBestChain, where it need not have all.                      *)
(***************************************************************************)
EXTENDS ChainSelectionProofs

-----------------------------------------------------------------------------
(* What holds as long as reconsiderblock is not used: then BLOCK_FAILED_   *)
(* VALID is never taken back.                                              *)

\* No block on the way to b was found or declared invalid.
Valid(b) == ancestors[b] \cap failedValid = {}

\* A failed block has an ancestor that was found or declared invalid.
Cause == \A b \in Failed : ~Valid(b)

\* A block that waits for its parent is in m_blocks_unlinked unless it has an
\* invalid ancestor, and nothing there waits for a linked parent.
Links ==
  /\ \A b \in haveData \ linked : Valid(b) => b \in unlinked
  /\ \A b \in unlinked : Parent[b] \notin linked
  /\ \A b \in Block : b \notin linked => nSequenceId[b] <= 0

(* Marks made by a step on blocks above a failed one have a cause.         *)
LEMMA CauseKept ==
  ASSUME Tree, Cause, failedValid \subseteq failedValid',
         \A b \in Failed' \ Failed : \/ b \in failedValid' /\ b \in Block
                                     \/ b \in Block /\ ancestors[b] \cap Failed # {}
  PROVE  Cause'
<1>1. SUFFICES ASSUME NEW b \in Failed'
               PROVE  ancestors[b] \cap failedValid' # {}
  BY DEF Cause, Valid
<1>2. CASE b \in Failed
  BY <1>2 DEF Cause, Valid
<1>3. CASE b \in failedValid' /\ b \in Block
  BY <1>3, AncestorsIn
<1>4. CASE b \in Block /\ ancestors[b] \cap Failed # {}
  <2>1. PICK f \in ancestors[b] : f \in Failed
    BY <1>4
  <2>2. ancestors[f] \cap failedValid # {}
    BY <2>1 DEF Cause, Valid
  <2>3. ancestors[f] \subseteq ancestors[b]
    BY <1>4, <2>1, AncestorsBelow
  <2>. QED
    BY <2>2, <2>3
<1>. QED
  BY <1>1, <1>2, <1>3, <1>4

(* Without reconsiderblock every mark has a cause, and marks stay.         *)
LEMMA CauseStep ==
  ASSUME AInv, Cause, Next, "reconsider" \notin Command
  PROVE  Cause' /\ failedValid \subseteq failedValid'
<1>. USE DEF environment, status, blockman, sequence, activation, invalidation
<1>0. Tree /\ Numbers /\ Control /\ Sound /\ Cause /\ Tree'
  BY TreeStep DEF AInv
<1>1. ASSUME UNCHANGED <<failedValid, failedChild>>
      PROVE  Cause' /\ failedValid \subseteq failedValid'
  BY <1>0, <1>1, CauseKept DEF Failed
<1>2. ASSUME NEW b, failedValid' \subseteq failedValid \cup {b}, failedValid \subseteq failedValid',
             UNCHANGED failedChild
      PROVE  Cause' /\ failedValid \subseteq failedValid'
  BY <1>0, <1>2, CauseKept, Zenon DEF Failed, Tree
<1>3. ASSUME NEW b \in Block, RejectHeader(b)
      PROVE  Cause' /\ failedValid \subseteq failedValid'
  <2>1. PICK f \in FailedBelow(Parent[b]) :
          failedChild' = failedChild \cup (ancestors[Parent[b]] \ ancestors[f])
    BY <1>3 DEF RejectHeader
  <2>2. Parent[b] \in Block /\ f \in ancestors[Parent[b]] /\ f \in Failed
    BY <1>0, <1>3, <2>1, Zenon DEF RejectHeader, FailedBelow, Sound, Failed, Tree
  <2>3. \A y \in ancestors[Parent[b]] \ ancestors[f] : y \in Block /\ f \in ancestors[y]
    BY <2>2, AboveAncestor, AncestorsIn
  <2>4. UNCHANGED failedValid
    BY <1>3 DEF RejectHeader
  <2>5. \A y \in Failed' \ Failed : y \in Block /\ ancestors[y] \cap Failed # {}
    BY <2>1, <2>2, <2>3, <2>4 DEF Failed
  <2>. QED
    BY <1>0, <2>4, <2>5, CauseKept, Zenon
<1>4. ASSUME NEW t \in Thread, FindMostWorkChain(t)
      PROVE  Cause' /\ failedValid \subseteq failedValid'
  <2>1. CASE candidates = {} \/ Unusable(Best) = {}
    BY <1>1, <1>4, <2>1 DEF FindMostWorkChain
  <2>2. CASE candidates # {} /\ Unusable(Best) # {}
    <3>1. /\ failedChild' = failedChild \cup FailedAbove(Best, Unusable(Best))
          /\ UNCHANGED failedValid
      BY <1>4, <2>2 DEF FindMostWorkChain
    <3>2. \A y \in FailedAbove(Best, Unusable(Best)) : y \in Block /\ ancestors[y] \cap Failed # {}
      BY <1>0, <2>2, DiscardedOf, Zenon
    <3>3. \A y \in Failed' \ Failed : y \in Block /\ ancestors[y] \cap Failed # {}
      BY <3>1, <3>2 DEF Failed
    <3>. QED
      BY <1>0, <3>1, <3>3, CauseKept
  <2>. QED
    BY <2>1, <2>2
<1>5. ASSUME NEW t \in Thread, InvalidBlockFound(t)
      PROVE  Cause' /\ failedValid \subseteq failedValid'
  BY <1>2, <1>5 DEF InvalidBlockFound
<1>6. ASSUME NEW t \in Thread, InvalidateTip(t)
      PROVE  Cause' /\ failedValid \subseteq failedValid'
  BY <1>2, <1>6, TipMarked
<1>7. ASSUME NEW t \in Thread, MarkFailed(t)
      PROVE  Cause' /\ failedValid \subseteq failedValid'
  BY <1>1, <1>2, <1>7 DEF MarkFailed
<1>8. ASSUME NEW t \in Thread, NEW b \in Block, RefuseBlock(t, b)
      PROVE  Cause' /\ failedValid \subseteq failedValid'
  BY <1>2, <1>8 DEF RefuseBlock
<1>9. ASSUME NEW t \in Thread, NEW b \in Block, ReconsiderBlock(t, b)
      PROVE  FALSE
  BY <1>9, Zenon DEF ReconsiderBlock, Call
<1>10. ASSUME Restart
       PROVE  Cause' /\ failedValid \subseteq failedValid'
  <2>1. /\ failedChild' = failedChild \cup {b \in known \ failedValid : ancestors[b] \cap Failed # {}}
        /\ UNCHANGED failedValid
    BY <1>10 DEF Restart
  <2>2. \A y \in Failed' \ Failed : y \in Block /\ ancestors[y] \cap Failed # {}
    BY <1>0, <2>1 DEF Failed, Tree
  <2>. QED
    BY <1>0, <2>1, <2>2, CauseKept
<1>11. ASSUME NEW t \in Thread,
              \/ EnterLoop(t) \/ NothingToDo(t) \/ DisconnectTip(t) \/ ConnectTip(t)
              \/ InvalidateBlock(t) \/ InvalidatedTips(t)
       PROVE  UNCHANGED <<failedValid, failedChild>>
  BY <1>11, Zenon DEF EnterLoop, NothingToDo, DisconnectTip, ConnectTip, InvalidateBlock, InvalidatedTips
<1>12. ASSUME NEW t \in Thread, NEW b \in Block,
              \/ IgnoreBlock(t, b) \/ AcceptBlock(t, b) \/ PreciousBlock(t, b)
              \/ CallInvalidateBlock(t, b)
       PROVE  UNCHANGED <<failedValid, failedChild>>
  BY <1>12, Zenon DEF IgnoreBlock, AcceptBlock, PreciousBlock, CallInvalidateBlock
<1>13. ASSUME StartShutdown \/ \E b \in Block : AddHeader(b)
       PROVE  UNCHANGED <<failedValid, failedChild>>
  BY <1>13 DEF StartShutdown, AddHeader
<1>. QED
  BY <1>1, <1>3, <1>4, <1>5, <1>6, <1>7, <1>8, <1>9, <1>10, <1>11, <1>12, <1>13, Zenon
     DEF Next, Request, Step

(* When a block is linked, so is all that waited for it alone.             *)
LEMMA UnblockedAll ==
  ASSUME Tree, NEW b \in Block, b \notin haveData,
         NEW c \in unlinked \ Unblocked(b)
  PROVE  Parent[c] \notin Unblocked(b)
<1>1. c \in Block \ {Genesis}
  BY DEF Tree
<1>2. Parent[c] \in Block /\ ancestors[c] = {c} \cup ancestors[Parent[c]]
  BY <1>1, AncestorsOf
<1>3. ASSUME Parent[c] = b
      PROVE  c \in Unblocked(b)
  BY <1>2, <1>3, AncestorsIn DEF Unblocked
<1>4. ASSUME b \in ancestors[Parent[c]], ancestors[Parent[c]] \ ancestors[b] \subseteq unlinked
      PROVE  c \in Unblocked(b)
  BY <1>2, <1>4 DEF Unblocked
<1>. QED
  BY <1>3, <1>4 DEF Unblocked

(* Without reconsiderblock, m_blocks_unlinked has what it should.          *)
LEMMA LinksStep ==
  ASSUME AInv, Cause, Links, Next, "reconsider" \notin Command
  PROVE  Links'
<1>. USE DEF environment, status, blockman, sequence, activation, invalidation
<1>0. Tree /\ Numbers /\ Cause /\ Links /\ failedValid \subseteq failedValid'
  BY CauseStep DEF AInv
<1>1. ASSUME UNCHANGED <<haveData, linked, unlinked>>,
             \A b \in Block : nSequenceId'[b] <= 0 \/ nSequenceId'[b] = nSequenceId[b]
      PROVE  Links'
  BY <1>0, <1>1 DEF Links, Valid
<1>2. ASSUME NEW t \in Thread, NEW b \in Block, AcceptBlock(t, b)
      PROVE  Links'
  <2>1. b \notin haveData /\ haveData' = haveData \cup {b} /\ UNCHANGED <<failedValid, failedChild>>
    BY <1>2, Zenon DEF AcceptBlock, ReceivedBlockTransactions
  <2>2. CASE Parent[b] \in linked
    <3>. DEFINE L == Unblocked(b)
    <3>1. PICK f \in QueueOrders(Unblocked(b)) :
            /\ linked' = linked \cup L /\ unlinked' = unlinked \ L
            /\ nSequenceId' = [c \in Block |-> IF c \in L THEN nBlockSequenceId + f[c]
                                               ELSE nSequenceId[c]]
      BY <1>2, <2>2, Zenon DEF AcceptBlock, ReceivedBlockTransactions
    <3>2. b \in L /\ \A c \in unlinked \ L : Parent[c] \notin L
      BY <1>0, <2>1, <2>2, UnblockedOf, UnblockedAll, Zenon
    <3>. HIDE DEF L
    <3>3. \A c \in haveData' \ linked' : Valid(c)' => c \in unlinked'
      BY <1>0, <2>1, <3>1, <3>2 DEF Links, Valid
    <3>4. \A c \in unlinked' : Parent[c] \notin linked'
      BY <1>0, <3>1, <3>2, Zenon DEF Links
    <3>5. \A c \in Block : c \notin linked' => nSequenceId'[c] <= 0
      BY <1>0, <3>1, Zenon DEF Links
    <3>. QED
      BY <3>3, <3>4, <3>5, Zenon DEF Links
  <2>3. CASE Parent[b] \notin linked
    <3>1. unlinked' = unlinked \cup Waiting(b) /\ UNCHANGED <<linked, nSequenceId>>
      BY <1>2, <2>3, Zenon DEF AcceptBlock, ReceivedBlockTransactions
    <3>2. Valid(b) => b \in Waiting(b)
      <4>1. b # Genesis
        BY <1>0, <2>1, Zenon DEF Tree
      <4>2. ancestors[b] = {b} \cup ancestors[Parent[b]]
        BY <4>1, AncestorsOf
      <4>3. Parent[b] \in Failed => ~Valid(b)
        BY <1>0, <4>2 DEF Cause, Valid
      <4>. QED
        BY <4>3 DEF Waiting
    <3>3. Waiting(b) \subseteq {b}
      BY DEF Waiting
    <3>4. \A c \in haveData' \ linked' : Valid(c)' => c \in unlinked'
      BY <1>0, <2>1, <3>1, <3>2 DEF Links, Valid
    <3>. QED
      BY <1>0, <2>3, <3>1, <3>3, <3>4 DEF Links
  <2>. QED
    BY <2>2, <2>3
<1>3. ASSUME NEW t \in Thread, NEW b \in Block, PreciousBlock(t, b)
      PROVE  Links'
  <2>. DEFINE n == IF Work[tip] > nLastPreciousChainwork THEN -1 ELSE nBlockReverseSequenceId
  <2>1. n <= 0
    BY <1>0 DEF Numbers
  <2>2. nSequenceId' = [nSequenceId EXCEPT ![b] = n] /\ UNCHANGED <<haveData, linked, unlinked>>
    BY <1>3 DEF PreciousBlock
  <2>. HIDE DEF n
  <2>3. \A c \in Block : nSequenceId'[c] <= 0 \/ nSequenceId'[c] = nSequenceId[c]
    BY <1>0, <2>1, <2>2 DEF Numbers
  <2>. QED
    BY <1>1, <2>2, <2>3
<1>4. ASSUME Restart
      PROVE  Links'
  <2>1. /\ linked' = {b \in known : ancestors[b] \subseteq haveData}
        /\ unlinked' = haveData \ linked' /\ nSequenceId' = [b \in Block |-> 0]
        /\ UNCHANGED <<haveData, known>>
    BY <1>4 DEF Restart
  <2>2. ASSUME NEW b \in unlinked', Parent[b] \in linked'
        PROVE  FALSE
    <3>1. b \in Block /\ b \in known /\ b \in haveData /\ b \notin linked'
      BY <1>0, <2>1 DEF Tree
    <3>2. b # Genesis
      BY <1>0, <2>1, <3>1, AncestorsOf DEF Tree
    <3>3. ancestors[b] = {b} \cup ancestors[Parent[b]]
      BY <3>1, <3>2, AncestorsOf
    <3>4. ancestors[Parent[b]] \subseteq haveData
      BY <2>1, <2>2, Zenon
    <3>5. ancestors[b] \subseteq haveData
      BY <3>1, <3>3, <3>4, Zenon
    <3>. QED
      BY <2>1, <3>1, <3>5, Zenon
  <2>3. \A b \in Block : nSequenceId'[b] <= 0
    BY <2>1
  <2>. QED
    BY <2>1, <2>2, <2>3, Zenon DEF Links
<1>5. ASSUME NEW t \in Thread, Step(t)
      PROVE  UNCHANGED <<haveData, linked, unlinked, nSequenceId>>
  BY <1>5, Zenon DEF Step, EnterLoop, FindMostWorkChain, NothingToDo, DisconnectTip, ConnectTip,
              InvalidBlockFound, InvalidateBlock, InvalidateTip, InvalidatedTips, MarkFailed
<1>6. ASSUME StartShutdown \/ \E b \in Block : RejectHeader(b) \/ AddHeader(b)
      PROVE  UNCHANGED <<haveData, linked, unlinked, nSequenceId>>
  BY <1>6, Zenon DEF StartShutdown, RejectHeader, AddHeader
<1>7. ASSUME NEW t \in Thread, NEW b \in Block,
             \/ IgnoreBlock(t, b) \/ RefuseBlock(t, b) \/ ReconsiderBlock(t, b)
             \/ CallInvalidateBlock(t, b)
      PROVE  UNCHANGED <<haveData, linked, unlinked, nSequenceId>>
  BY <1>7, Zenon DEF IgnoreBlock, RefuseBlock, ReconsiderBlock, CallInvalidateBlock
<1>8. ASSUME UNCHANGED <<haveData, linked, unlinked, nSequenceId>>
      PROVE  Links'
  BY <1>1, <1>8
<1>. QED
  BY <1>2, <1>3, <1>4, <1>5, <1>6, <1>7, <1>8, Zenon DEF Next, Request

LEMMA CauseLinksHold ==
  ASSUME "reconsider" \notin Command
  PROVE  Spec => [](Cause /\ Links)
<1>1. Init => Cause /\ Links
  BY DEF Init, Cause, Links, Failed, Valid
<1>2. AInv /\ Cause /\ Links /\ [Next]_vars => (Cause /\ Links)'
  <2>1. ASSUME AInv, Cause, Links, Next
        PROVE  (Cause /\ Links)'
    BY <2>1, CauseStep, LinksStep
  <2>2. ASSUME Cause, Links, UNCHANGED vars
        PROVE  (Cause /\ Links)'
    BY <2>2, Zenon DEF Cause, Links, Failed, Valid, vars, blockman, status, sequence
  <2>. QED
    BY <2>1, <2>2
<1>. QED
  BY <1>1, <1>2, AInvHolds, PTL DEF Spec

(* Without reconsiderblock, FindMostWorkChain, AcceptBlockHeader and       *)
(* LoadBlockIndex set BLOCK_FAILED_CHILD only above a block that was found *)
(* or declared invalid, so no chain is lost without a reason.              *)
THEOREM FailuresHaveCauses ==
  ASSUME "reconsider" \notin Command
  PROVE  Spec => []FailureHasCause
<1>1. Cause => FailureHasCause
  BY Zenon DEF Cause, Valid, FailureHasCause
<1>. QED
  BY <1>1, CauseLinksHold, PTL

(* Without reconsiderblock, ReceivedBlockTransactions links every block    *)
(* that has no failed ancestor as soon as it and its ancestors have data,  *)
(* whatever the order they came in and wherever the node restarts.         *)
THEOREM LinkedIsExact ==
  ASSUME "reconsider" \notin Command
  PROVE  Spec => []LinkedExact
<1>1. AInv /\ Links => LinkedExact
  <2>. SUFFICES ASSUME AInv, Links
                PROVE  LinkedExact
    OBVIOUS
  <2>0. Tree
    BY DEF AInv
  <2>. DEFINE S == {b \in Block : ancestors[b] \subseteq haveData /\ Clean(b) => b \in linked}
  <2>1. Genesis \in S
    BY <2>0 DEF Tree
  <2>2. ASSUME NEW b \in Block \ {Genesis}, Parent[b] \in S
        PROVE  b \in S
    <3>1. ancestors[b] = {b} \cup ancestors[Parent[b]]
      BY AncestorsOf
    <3>2. ASSUME ancestors[b] \subseteq haveData, Clean(b), b \notin linked
          PROVE  FALSE
      <4>1. Parent[b] \in linked
        BY <2>2, <3>1, <3>2 DEF Clean
      <4>2. b \in haveData /\ Valid(b)
        BY <3>1, <3>2 DEF Clean, Valid, Failed
      <4>. QED
        BY <3>2, <4>1, <4>2 DEF Links
    <3>. QED
      BY <3>2
  <2>3. Block \subseteq S
    <3>. HIDE DEF S
    <3>. QED
      BY <2>1, <2>2, BlockInduction
  <2>4. \A b \in known : ancestors[b] \subseteq haveData /\ Clean(b) => b \in linked
    BY <2>0, <2>3 DEF Tree
  <2>5. \A b \in linked : ancestors[b] \subseteq haveData
    BY <2>0, TreeClosed DEF Tree
  <2>. QED
    BY <2>0, <2>4, <2>5 DEF LinkedExact, Clean, Links, Tree
<1>. QED
  BY <1>1, AInvHolds, CauseLinksHold, PTL

(* Without reconsiderblock, m_blocks_unlinked has the blocks that wait for *)
(* an ancestor, and none else.                                             *)
THEOREM UnlinkedIsExact ==
  ASSUME "reconsider" \notin Command
  PROVE  Spec => []UnlinkedExact
<1>1. AInv /\ Links => UnlinkedExact
  BY DEF AInv, Tree, Links, Valid, UnlinkedExact
<1>. QED
  BY <1>1, AInvHolds, CauseLinksHold, PTL

-----------------------------------------------------------------------------
(* The candidates, as long as preciousblock on the tip itself does not     *)
(* make it sort worse either.                                              *)

\* preciousblock on the tip gives it a sequence number that is no larger.
TipKeepsRank ==
  \A t \in Thread : PreciousBlock(t, tip) => nSequenceId'[tip] <= nSequenceId[tip]

\* A candidate sorts at least as good as the tip.
Ranked == \A c \in candidates : ~Worse(c, tip)

\* Whenever cs_main is free the tip is a candidate; so are the blocks that sort
\* at least as good, unless InvalidateBlock has begun to mark.
Complete ==
  CsMainFree =>
    /\ tip \in candidates
    /\ (NotInvalidating \/ toMarkFailed \in Chain) =>
         \A b \in linked : Valid(b) /\ ~Worse(b, tip) => b \in candidates

\* While ActivateBestChain holds cs_main, the tip it began with can be activated
\* again; no candidate is lost that sorts at least as good as that and as the tip;
\* what it activates sorts at least as good as that, and the tip is on the way
\* to it, or is not yet past the fork.
Begun ==
  ~CsMainFree =>
    /\ Clean(startingTip) /\ ancestors[startingTip] \ {Genesis} \subseteq scripts
    /\ \A b \in linked :
         Valid(b) /\ ~Worse(b, tip) /\ ~Worse(b, startingTip) => b \in candidates
    /\ mostWork = NoBlock => ~Worse(startingTip, tip)
    /\ mostWork # NoBlock => /\ ~Worse(mostWork, startingTip)
                             /\ tip \in ancestors[mostWork] \/ ~Worse(startingTip, tip)

\* Some thread is about to call ActivateBestChain.
Called == \E u \in Thread : pc[u] \in {"activate", "invalidate"}

\* ActivateBestChain always has a target, which it gives up between two sections
\* only if it is reached, and which is the best unless another call follows.
Pending ==
  /\ \A t \in Thread : pc[t] = "step" => mostWork # NoBlock
  /\ mostWork # NoBlock /\ CsMainFree => tip \in ancestors[mostWork] /\ tip # mostWork
  /\ mostWork # NoBlock => \A b \in linked : Valid(b) /\ Worse(mostWork, b) => Called

\* When every thread has returned, nothing sorts better than the tip.
Settled ==
  (~shutdown /\ \A t \in Thread : pc[t] = "idle") =>
     \A b \in linked : Valid(b) => ~Worse(tip, b)

SInv == Ranked /\ Complete /\ Begun /\ Pending /\ Settled

(* Two facts about numbers, for the order of the candidates: what a lower  *)
(* rank of the tip leaves, and the order when all sequence numbers are 0.  *)
LEMMA LowerRank ==
  ASSUME NEW m \in Int, NEW n \in Int, NEW k \in Int, n <= k
  PROVE  (m > k => m > n) /\ (m = k => m = n \/ m > n)
  OBVIOUS

LEMMA RankOfRestart ==
  ASSUME NEW v \in Nat, NEW w \in Nat, NEW i \in Nat, NEW j \in Nat
  PROVE  (v < w \/ (v = w /\ 0 > 0) \/ (v = w /\ 0 = 0 /\ i > j))
            <=> ~(v > w \/ (v = w /\ i <= j))
  OBVIOUS

(* The order on the linked blocks: "not worse" is reflexive, transitive    *)
(* and total, and a parent sorts worse than its child.                     *)
LEMMA Order ==
  ASSUME AInv
  PROVE  /\ \A a \in linked : ~Worse(a, a)
         /\ \A a, b, c \in linked : ~Worse(a, b) /\ ~Worse(b, c) => ~Worse(a, c)
         /\ \A a, b \in linked : Worse(a, b) => ~Worse(b, a)
         /\ \A a \in linked : \A b \in ancestors[a] : ~Worse(a, b)
         /\ \A a \in linked \ {Genesis} : Parent[a] \in linked /\ ~Worse(a, Parent[a])
<1>0. /\ address \in Addresses /\ nSequenceId \in [Block -> Int] /\ linked \subseteq Block
      /\ \A b \in linked \ {Genesis} : Parent[b] \in linked
  BY Zenon DEF AInv, Numbers, Tree
<1>1. ASSUME NEW a \in linked, NEW b \in linked, NEW c \in linked
      PROVE  /\ ~Worse(a, a)
             /\ Worse(a, b) /\ Worse(b, c) => Worse(a, c)
             /\ Worse(a, b) \/ Worse(b, a) \/ a = b
  <2>1. a \in Block /\ b \in Block /\ c \in Block
    BY <1>0
  <2>. QED
    BY <1>0, <2>1, WorseOrder, Zenon DEF Worse
<1>2. \A a, b \in linked : Worse(a, b) => ~Worse(b, a)
  BY <1>1, Zenon
<1>3. ASSUME NEW a \in linked, NEW b \in linked, NEW c \in linked, ~Worse(a, b), ~Worse(b, c),
             Worse(a, c)
      PROVE  FALSE
  <2>1. Worse(b, a) \/ a = b
    BY <1>1, <1>3, Zenon
  <2>2. Worse(b, c)
    BY <1>1, <1>3, <2>1, Zenon
  <2>. QED
    BY <1>3, <2>2
<1>4. ASSUME NEW a \in linked, NEW b \in ancestors[a]
      PROVE  ~Worse(a, b)
  <2>1. a \in Block /\ b \in Block
    BY <1>0, AncestorsIn
  <2>2. Work[a] \in Nat /\ Work[b] \in Nat
    BY <2>1, TreeAssumption
  <2>3. CASE a = b
    BY <1>1, <2>3
  <2>4. CASE a # b
    <3>1. Work[b] < Work[a]
      BY <2>1, <2>4, AncestorsBelow
    <3>. QED
      BY <2>2, <3>1 DEF Worse, WorseWith
  <2>. QED
    BY <2>3, <2>4
<1>5. ASSUME NEW a \in linked \ {Genesis}
      PROVE  Parent[a] \in ancestors[a]
  BY <1>0, AncestorsOf, AncestorsIn
<1>. QED
  BY <1>0, <1>1, <1>2, <1>3, <1>4, <1>5, Zenon

(* The order is the same after a step that changes neither sequence        *)
(* numbers nor pointers.                                                   *)
LEMMA SameOrder ==
  ASSUME UNCHANGED <<nSequenceId, address>>
  PROVE  \A a, b : Worse(a, b)' <=> Worse(a, b)
  BY DEF Worse, WorseWith

(* What Begun and Pending say of the thread that holds cs_main.            *)
LEMMA SectionOwner ==
  ASSUME AInv, NEW t \in Thread, pc[t] \in {"find", "step"}
  PROVE  /\ ~CsMainFree /\ startingTip \in linked /\ oldTip \in linked
         /\ \A u \in Thread \ {t} : pc[u] \notin OwnerLabel
<1>1. Local(t) /\ \A u, v \in Owners : u = v
  BY DEF AInv, Control
<1>. QED
  BY <1>1 DEF Local, CsMainFree, Owners, OwnerLabel

(* A step outside the sections of ActivateBestChain that leaves the tip,   *)
(* the candidates and their order alone.                                   *)
LEMMA OutsideFrame ==
  ASSUME SInv, CsMainFree, CsMainFree',
         UNCHANGED <<tip, candidates, nSequenceId, address, mostWork, linked>>,
         failedValid \subseteq failedValid',
         NotInvalidating' \/ toMarkFailed' \in Chain => NotInvalidating \/ toMarkFailed \in Chain,
         Called => Called',
         \/ shutdown' = shutdown /\ ((\A t \in Thread : pc'[t] = "idle") => \A t \in Thread : pc[t] = "idle")
         \/ Called'
  PROVE  SInv'
<1>1. \A a, b : Worse(a, b)' <=> Worse(a, b)
  BY SameOrder
<1>2. \A b : Valid(b)' => Valid(b)
  BY DEF Valid
<1>3. Ranked'
  BY <1>1 DEF SInv, Ranked
<1>4. Complete'
  BY <1>1, <1>2, Zenon DEF SInv, Complete, Chain
<1>5. Begun'
  BY Zenon DEF Begun
<1>6. Pending'
  <2>1. \A t \in Thread : pc'[t] = "step" => FALSE
    BY DEF CsMainFree
  <2>2. mostWork' # NoBlock => tip' \in ancestors[mostWork'] /\ tip' # mostWork'
    BY DEF SInv, Pending
  <2>3. mostWork' # NoBlock => \A b \in linked' : Valid(b)' /\ Worse(mostWork, b)' => Called'
    BY <1>1, <1>2 DEF SInv, Pending
  <2>. QED
    BY <2>1, <2>2, <2>3 DEF Pending
<1>7. Settled'
  <2>1. CASE Called'
    BY <2>1 DEF Called, Settled
  <2>2. CASE shutdown' = shutdown /\ ((\A t \in Thread : pc'[t] = "idle") => \A t \in Thread : pc[t] = "idle")
    BY <1>1, <1>2, <2>2 DEF SInv, Settled
  <2>. QED
    BY <2>1, <2>2
<1>. QED
  BY <1>3, <1>4, <1>5, <1>6, <1>7 DEF SInv

(* A step outside the sections after which ActivateBestChain is called.    *)
LEMMA OutsideCall ==
  ASSUME AInv, CsMainFree, NEW t \in Thread, pc' = [pc EXCEPT ![t] = "activate"], Pending,
         UNCHANGED <<tip, mostWork>>, Ranked', Complete'
  PROVE  SInv'
<1>1. pc'[t] = "activate" /\ \A u \in Thread \ {t} : pc'[u] = pc[u]
  BY DEF AInv, Control
<1>2. CsMainFree' /\ Called'
  BY <1>1 DEF CsMainFree, Called
<1>3. Begun' /\ Settled'
  BY <1>1, <1>2 DEF Begun, Settled
<1>4. Pending'
  BY <1>2, Zenon DEF Pending, CsMainFree
<1>. QED
  BY <1>3, <1>4 DEF SInv

(* Steps that neither move the tip nor change a candidate.                 *)
LEMMA SectQuiet ==
  ASSUME AInv, Cause, SInv, "reconsider" \notin Command, Next,
         \/ StartShutdown
         \/ \E b \in Block : RejectHeader(b) \/ AddHeader(b)
         \/ \E t \in Thread, b \in Block :
              IgnoreBlock(t, b) \/ RefuseBlock(t, b) \/ CallInvalidateBlock(t, b)
         \/ \E t \in Thread : InvalidateBlock(t) \/ InvalidatedTips(t)
  PROVE  SInv'
<1>. USE DEF environment, status, blockman, sequence, activation, invalidation
<1>0. failedValid \subseteq failedValid' /\ pc \in [Thread -> Label]
  BY CauseStep DEF AInv, Control
<1>1. CASE StartShutdown
  <2>1. /\ shutdown' = TRUE
        /\ UNCHANGED <<tip, candidates, nSequenceId, address, mostWork, linked, failedValid, failedChild,
                       pc, toMarkFailed, startingTip, scripts>>
    BY <1>1 DEF StartShutdown
  <2>2. \A a, b : Worse(a, b)' <=> Worse(a, b)
    BY <2>1, SameOrder
  <2>3. Ranked' /\ Settled'
    BY <2>1, <2>2 DEF SInv, Ranked, Settled
  <2>4. Complete'
    BY <2>1, <2>2, Zenon DEF SInv, Complete, CsMainFree, NotInvalidating, Chain, Valid
  <2>5. Begun'
    BY <2>1, <2>2, Zenon DEF SInv, Begun, CsMainFree, Clean, Failed, Valid
  <2>6. Pending'
    BY <2>1, <2>2, Zenon DEF SInv, Pending, CsMainFree, Called, Valid
  <2>. QED
    BY <2>3, <2>4, <2>5, <2>6 DEF SInv
<1>2. CASE \/ \E b \in Block : RejectHeader(b) \/ AddHeader(b)
           \/ \E t \in Thread, b \in Block : RefuseBlock(t, b)
  <2>1. /\ CsMainFree
        /\ UNCHANGED <<tip, candidates, nSequenceId, address, mostWork, linked, shutdown, pc, toMarkFailed>>
    BY <1>2, Zenon DEF RejectHeader, AddHeader, RefuseBlock
  <2>2. CsMainFree' /\ (NotInvalidating' <=> NotInvalidating) /\ (Called' <=> Called)
    BY <2>1 DEF CsMainFree, NotInvalidating, Called
  <2>. QED
    BY <1>0, <2>1, <2>2, OutsideFrame
<1>3. CASE \E t \in Thread, b \in Block : IgnoreBlock(t, b) \/ CallInvalidateBlock(t, b)
  <2>1. PICK t \in Thread, p \in {"activate", "invalidate"} :
          /\ CsMainFree /\ pc[t] = "idle" /\ pc' = [pc EXCEPT ![t] = p]
          /\ UNCHANGED <<tip, candidates, nSequenceId, address, mostWork, linked, shutdown, toMarkFailed>>
    <3>1. ASSUME NEW t \in Thread, NEW b \in Block, IgnoreBlock(t, b)
          PROVE  /\ CsMainFree /\ pc[t] = "idle" /\ pc' = [pc EXCEPT ![t] = "activate"]
                 /\ UNCHANGED <<tip, candidates, nSequenceId, address, mostWork, linked, shutdown, toMarkFailed>>
      BY <3>1 DEF IgnoreBlock
    <3>2. ASSUME NEW t \in Thread, NEW b \in Block, CallInvalidateBlock(t, b)
          PROVE  /\ CsMainFree /\ pc[t] = "idle" /\ pc' = [pc EXCEPT ![t] = "invalidate"]
                 /\ UNCHANGED <<tip, candidates, nSequenceId, address, mostWork, linked, shutdown, toMarkFailed>>
      BY <3>2 DEF CallInvalidateBlock, Call
    <3>. QED
      BY <1>3, <3>1, <3>2
  <2>2. pc'[t] = p /\ \A u \in Thread \ {t} : pc'[u] = pc[u]
    BY <1>0, <2>1
  <2>3. CsMainFree' /\ (NotInvalidating' => NotInvalidating) /\ Called'
    BY <2>1, <2>2 DEF CsMainFree, NotInvalidating, Called
  <2>. QED
    BY <1>0, <2>1, <2>3, OutsideFrame
<1>4. ASSUME NEW t \in Thread, InvalidateBlock(t)
      PROVE  SInv'
  <2>1. /\ CsMainFree /\ pc[t] = "invalidate" /\ pc' = [pc EXCEPT ![t] = "invalidating"]
        /\ Owners = {}
        /\ UNCHANGED <<tip, candidates, nSequenceId, address, mostWork, linked, shutdown>>
    BY <1>4, Zenon DEF InvalidateBlock, ChainstateFree
  <2>2. pc'[t] = "invalidating" /\ \A u \in Thread \ {t} : pc'[u] = pc[u]
    BY <1>0, <2>1
  <2>3. mostWork = NoBlock /\ NotInvalidating
    BY <2>1 DEF AInv, Control, Owners, NotInvalidating
  <2>4. CsMainFree'
    BY <2>1, <2>2 DEF CsMainFree
  <2>5. \A a, b : Worse(a, b)' <=> Worse(a, b)
    BY <2>1, SameOrder
  <2>6. Ranked' /\ Begun' /\ Settled'
    BY <2>1, <2>2, <2>4, <2>5, Zenon DEF SInv, Ranked, Begun, Settled
  <2>7. Complete'
    BY <1>0, <2>1, <2>3, <2>5, Zenon DEF SInv, Complete, Valid
  <2>8. Pending'
    BY <2>1, <2>3, <2>4, Zenon DEF Pending, CsMainFree
  <2>. QED
    BY <2>6, <2>7, <2>8 DEF SInv
<1>5. ASSUME NEW t \in Thread, InvalidatedTips(t)
      PROVE  SInv'
  <2>1. /\ CsMainFree /\ pc[t] = "invalidating" /\ pc' = [pc EXCEPT ![t] = "marking"]
        /\ UNCHANGED <<tip, candidates, nSequenceId, address, mostWork, linked, shutdown, toMarkFailed>>
    BY <1>5 DEF InvalidatedTips
  <2>2. pc'[t] = "marking" /\ \A u \in Thread \ {t} : pc'[u] = pc[u]
    BY <1>0, <2>1
  <2>3. CsMainFree' /\ ~NotInvalidating' /\ (Called => Called') /\ ~\A u \in Thread : pc'[u] = "idle"
    BY <2>1, <2>2 DEF CsMainFree, NotInvalidating, Called
  <2>. QED
    BY <1>0, <2>1, <2>3, OutsideFrame
<1>. QED
  BY <1>1, <1>2, <1>3, <1>4, <1>5

(* ReceivedBlockTransactions makes candidates of what it links.            *)
LEMMA SectAccept ==
  ASSUME AInv, Cause, SInv, NEW t \in Thread, NEW b \in Block, AcceptBlock(t, b)
  PROVE  SInv'
<1>. USE DEF environment, status, blockman, sequence, activation, invalidation
<1>0. /\ CsMainFree /\ b \notin haveData /\ pc' = [pc EXCEPT ![t] = "activate"]
      /\ UNCHANGED <<tip, mostWork, toMarkFailed, address, failedValid>>
  BY DEF AcceptBlock
<1>1. /\ Tree /\ tip \in linked /\ candidates \subseteq linked /\ linked \subseteq Block /\ pc \in [Thread -> Label]
      /\ nSequenceId \in [Block -> Int]
  BY Zenon DEF AInv, Tree, Sound, Control, Numbers
<1>2. (NotInvalidating' <=> NotInvalidating) /\ CsMainFree'
  <2>1. pc[t] = "idle" /\ pc'[t] = "activate" /\ \A u \in Thread \ {t} : pc'[u] = pc[u]
    BY <1>0, <1>1 DEF AcceptBlock
  <2>. QED
    BY <1>0, <2>1 DEF NotInvalidating, CsMainFree
<1>3. CASE Parent[b] \notin linked
  <2>1. UNCHANGED <<linked, nSequenceId, candidates>>
    BY <1>3, Zenon DEF AcceptBlock, ReceivedBlockTransactions
  <2>2. \A x, y : Worse(x, y)' <=> Worse(x, y)
    BY <1>0, <2>1, SameOrder
  <2>3. Ranked' /\ Complete'
    BY <1>0, <1>2, <2>1, <2>2, Zenon DEF SInv, Ranked, Complete, Valid, Chain
  <2>. QED
    BY <1>0, <2>3, OutsideCall, Zenon DEF SInv
<1>4. CASE Parent[b] \in linked
  <2>. DEFINE L == Unblocked(b)
  <2>1. PICK f \in QueueOrders(L) :
          LET id == [c \in Block |-> IF c \in L THEN nBlockSequenceId + f[c] ELSE nSequenceId[c]]
          IN  /\ linked' = linked \cup L /\ nSequenceId' = id
              /\ candidates' = candidates \cup {c \in L : ~WorseWith(id, c, tip)}
    BY <1>4, Zenon DEF AcceptBlock, ReceivedBlockTransactions
  <2>2. L \cap linked = {}
    BY <1>0, <1>1, <1>4, UnblockedOf, Zenon
  <2>. HIDE DEF L
  <2>3. \A x, y \in linked : Worse(x, y)' <=> Worse(x, y)
    <3>1. \A x \in linked : nSequenceId'[x] = nSequenceId[x]
      BY <1>1, <2>1, <2>2, Zenon
    <3>. QED
      BY <1>0, <3>1, Zenon DEF Worse, WorseWith
  <2>4. candidates' = candidates \cup {c \in L : ~Worse(c, tip)'}
    <3>1. \A c : Worse(c, tip)' <=> WorseWith(nSequenceId', c, tip)
      BY <1>0, Zenon DEF Worse, WorseWith
    <3>. QED
      BY <2>1, <3>1, Zenon
  <2>5. linked' = linked \cup L
    BY <2>1, Zenon
  <2>6. Ranked'
    BY <1>0, <1>1, <2>3, <2>4 DEF SInv, Ranked
  <2>7. Complete'
    BY <1>0, <1>1, <1>2, <2>3, <2>4, <2>5, Zenon DEF SInv, Complete, Valid, Chain
  <2>. QED
    BY <1>0, <2>6, <2>7, OutsideCall, Zenon DEF SInv
<1>. QED
  BY <1>3, <1>4

(* PreciousBlock keeps the candidates as good as the tip.                  *)
LEMMA SectPrecious ==
  ASSUME AInv, Cause, SInv, NEW t \in Thread, NEW b \in Block, PreciousBlock(t, b), TipKeepsRank
  PROVE  SInv'
<1>. USE DEF environment, status, blockman, sequence, activation, invalidation
<1>0. /\ CsMainFree /\ pc[t] = "idle" /\ pc' = [pc EXCEPT ![t] = "activate"]
      /\ UNCHANGED <<tip, mostWork, toMarkFailed, address, failedValid, linked>>
  BY DEF PreciousBlock, Call
<1>1. /\ Tree /\ tip \in linked /\ candidates \subseteq linked /\ linked \subseteq Block /\ pc \in [Thread -> Label]
      /\ nSequenceId \in [Block -> Int] /\ linked \subseteq haveData /\ Clean(tip)
  BY Zenon DEF AInv, Tree, Sound, Control, Numbers
<1>2. (NotInvalidating' <=> NotInvalidating) /\ CsMainFree'
  <2>1. pc'[t] = "activate" /\ \A u \in Thread \ {t} : pc'[u] = pc[u]
    BY <1>0, <1>1
  <2>. QED
    BY <1>0, <2>1 DEF NotInvalidating, CsMainFree
<1>3. PICK n : /\ nSequenceId' = [nSequenceId EXCEPT ![b] = n]
               /\ candidates' = IF b \in Usable
                                THEN {c \in candidates \cup {b} : ~WorseWith(nSequenceId', c, tip)}
                                ELSE candidates \ {b}
  BY Zenon DEF PreciousBlock
<1>4. \A c : Worse(c, tip)' <=> WorseWith(nSequenceId', c, tip)
  BY <1>0, Zenon DEF Worse, WorseWith
<1>5. \A c \in Block \ {b} : nSequenceId'[c] = nSequenceId[c]
  BY <1>1, <1>3
<1>6. ASSUME tip # b
      PROVE  \A c \in linked \ {b} : Worse(c, tip)' <=> Worse(c, tip)
  BY <1>0, <1>1, <1>5, <1>6, Zenon DEF Worse, WorseWith
<1>7. ASSUME NEW x \in linked \ {b}, ~Worse(x, tip)'
      PROVE  ~Worse(x, tip)
  <2>1. CASE tip # b
    BY <1>6, <1>7, <2>1
  <2>2. CASE tip = b
    <3>1. nSequenceId'[tip] <= nSequenceId[tip]
      BY <2>2, Zenon DEF TipKeepsRank
    <3>2. nSequenceId'[x] = nSequenceId[x] /\ x \in Block /\ tip \in Block
      BY <1>1, <1>5
    <3>3. nSequenceId[tip] \in Int /\ nSequenceId[x] \in Int /\ Work[x] \in Nat /\ Work[tip] \in Nat
      BY <1>1, <3>2, TreeAssumption
    <3>4. nSequenceId'[tip] \in Int
      BY NumbersStep, <1>1 DEF Numbers, Next, Request
    <3>5. ~WorseWith(nSequenceId', x, tip)
      BY <1>4, <1>7, Zenon
    <3>6. /\ ~(Work[x] < Work[tip])
          /\ ~(Work[x] = Work[tip] /\ nSequenceId[x] > nSequenceId'[tip])
          /\ ~(/\ Work[x] = Work[tip] /\ nSequenceId[x] = nSequenceId'[tip]
               /\ address[x] > address[tip])
      BY <3>2, <3>5, Zenon DEF WorseWith
    <3>7. /\ ~(Work[x] = Work[tip] /\ nSequenceId[x] > nSequenceId[tip])
          /\ ~(/\ Work[x] = Work[tip] /\ nSequenceId[x] = nSequenceId[tip]
               /\ address[x] > address[tip])
      BY <3>1, <3>3, <3>4, <3>6, LowerRank, Zenon
    <3>. QED
      BY <3>6, <3>7, Zenon DEF Worse, WorseWith
  <2>. QED
    BY <2>1, <2>2
<1>8. CASE b \in Usable
  <2>1. candidates' = {c \in candidates \cup {b} : ~Worse(c, tip)'}
    BY <1>3, <1>4, <1>8, Zenon
  <2>2. Ranked'
    BY <1>0, <2>1 DEF Ranked
  <2>3. ~Worse(tip, tip)'
    <3>1. nSequenceId' \in [Block -> Int]
      BY NumbersStep DEF Numbers, Next, Request
    <3>2. ~WorseWith(nSequenceId', tip, tip)
      BY <1>1, <3>1, WorseOrder DEF AInv, Numbers
    <3>. QED
      BY <1>0, <3>2, Zenon DEF Worse, WorseWith
  <2>4. Complete'
    BY <1>0, <1>1, <1>2, <1>7, <2>1, <2>3, Zenon DEF SInv, Complete, Valid, Chain
  <2>. QED
    BY <1>0, <2>2, <2>4, OutsideCall, Zenon DEF SInv
<1>9. CASE b \notin Usable
  <2>1. candidates' = candidates \ {b}
    BY <1>3, <1>9
  <2>2. tip # b
    BY <1>1, <1>9, AncestorsIn DEF Usable, Clean
  <2>3. b \in linked => ~Valid(b)
    BY <1>1, <1>9 DEF Usable, Cause
  <2>4. Ranked'
    BY <1>0, <1>1, <1>6, <2>1, <2>2 DEF SInv, Ranked
  <2>5. Complete'
    BY <1>0, <1>1, <1>2, <1>7, <2>1, <2>2, <2>3, Zenon DEF SInv, Complete, Valid, Chain
  <2>. QED
    BY <1>0, <2>4, <2>5, OutsideCall, Zenon DEF SInv
<1>. QED
  BY <1>8, <1>9

(* LoadBlockIndex makes the candidates anew.                               *)
LEMMA SectRestart ==
  ASSUME AInv, Cause, SInv, "reconsider" \notin Command, Restart
  PROVE  SInv'
<1>. USE DEF environment, status, blockman, sequence, activation, invalidation
<1>0. /\ UNCHANGED <<tip, mostWork, failedValid>> /\ nSequenceId' = [b \in Block |-> 0]
      /\ address' \in Addresses
  BY DEF Restart
<1>1. AInv' /\ Cause'
  BY AInvStep, CauseStep DEF Next
<1>2. /\ tip \in linked' /\ linked' \subseteq haveData' /\ Clean(tip)' /\ linked' \subseteq Block
      /\ UNCHANGED haveData
  BY <1>0, <1>1, Zenon DEF AInv, Tree, Sound, Restart
<1>3. ASSUME NEW c \in linked'
      PROVE  Worse(c, tip)' <=> ~(\/ Work[c] > Work[tip]
                                  \/ Work[c] = Work[tip] /\ address'[c] <= address'[tip])
  <2>1. nSequenceId'[c] = 0 /\ nSequenceId'[tip] = 0 /\ c \in Block /\ tip \in Block
    BY <1>0, <1>2
  <2>2. Work[c] \in Nat /\ Work[tip] \in Nat /\ address'[c] \in Nat /\ address'[tip] \in Nat
    BY <1>0, <2>1, TreeAssumption
  <2>3. tip' = tip
    BY <1>0
  <2>4. Worse(c, tip)' <=> \/ Work[c] < Work[tip]
                           \/ Work[c] = Work[tip] /\ 0 > 0
                           \/ Work[c] = Work[tip] /\ 0 = 0 /\ address'[c] > address'[tip]
    BY <2>1, <2>3, Zenon DEF Worse, WorseWith
  <2>. QED
    BY <2>2, <2>4, RankOfRestart, Zenon
<1>4. candidates' = {b \in linked' \ Failed' :
          Work[b] > Work[tip] \/ (Work[b] = Work[tip] /\ address'[b] <= address'[tip])}
  <2>1. candidates' = {b \in (haveData \cap linked') \ (failedValid \cup failedChild') :
          Work[b] > Work[tip] \/ (Work[b] = Work[tip] /\ address'[b] <= address'[tip])}
    BY Zenon DEF Restart
  <2>2. Failed' = failedValid \cup failedChild'
    BY <1>0 DEF Failed
  <2>. QED
    BY <1>2, <2>1, <2>2, Zenon
<1>5. Ranked'
  BY <1>0, <1>3, <1>4, Zenon DEF Ranked
<1>6. Complete'
  <2>1. tip \in candidates'
    <3>1. tip \in Block /\ address'[tip] \in Nat /\ Work[tip] \in Nat
      BY <1>0, <1>2, TreeAssumption
    <3>2. tip \notin Failed'
      BY <1>0, <1>2, <3>1, AncestorsIn, Zenon DEF Clean
    <3>. QED
      BY <1>2, <1>4, <3>1, <3>2
  <2>2. \A b \in linked' : Valid(b)' => b \notin Failed'
    BY <1>1 DEF Cause
  <2>. QED
    BY <1>0, <1>3, <1>4, <2>1, <2>2 DEF Complete
<1>7. CsMainFree
  BY Zenon DEF Restart, CsMainFree
<1>8. PICK t \in Thread : pc' = [pc EXCEPT ![t] = "activate"]
  BY Zenon DEF Restart
<1>. QED
  BY <1>0, <1>5, <1>6, <1>7, <1>8, OutsideCall, Zenon DEF SInv

(* InvalidateBlock marks the tip and goes down to its parent.              *)
LEMMA SectInvalidateTip ==
  ASSUME AInv, Cause, SInv, NEW t \in Thread, InvalidateTip(t)
  PROVE  SInv'
<1>. USE DEF environment, status, blockman, sequence, activation, invalidation
<1>0. /\ CsMainFree /\ pc[t] = "invalidating" /\ toMarkFailed' = tip
      /\ UNCHANGED <<pc, nSequenceId, address, mostWork, shutdown, linked>>
  BY Zenon DEF InvalidateTip
<1>1. /\ tip' = Parent[tip] /\ tip \in linked \ {Genesis} /\ tip \in Block
      /\ Parent[tip] \in linked /\ Parent[tip] \in Block
  BY TipMarked, Zenon
<1>2. PICK r \in SUBSET byWork : /\ \A c \in r : ~Worse(c, Parent[tip])
                                 /\ candidates' = (candidates \ {tip}) \cup {Parent[tip]} \cup r
  BY Zenon DEF InvalidateTip
<1>3. \A a, b : Worse(a, b)' <=> Worse(a, b)
  BY <1>0, SameOrder
<1>4. mostWork = NoBlock
  BY <1>0, NoTarget DEF AInv
<1>5. candidates \subseteq linked
  BY DEF AInv, Tree
<1>6. ~Worse(tip, Parent[tip]) /\ ~Worse(Parent[tip], Parent[tip])
  BY <1>1, Order
<1>7. Ranked'
  <2>1. \A c \in candidates : ~Worse(c, Parent[tip])
    BY <1>1, <1>5, <1>6, Order DEF SInv, Ranked
  <2>. QED
    BY <1>1, <1>2, <1>3, <1>6, <2>1, Zenon DEF Ranked
<1>8. Complete'
  <2>1. tip \notin ancestors[Parent[tip]]
    BY TipMarked, Zenon
  <2>2. ~NotInvalidating' /\ toMarkFailed' \notin Chain'
    BY <1>0, <1>1, <2>1 DEF NotInvalidating, Chain
  <2>. QED
    BY <1>1, <1>2, <2>2, Zenon DEF Complete
<1>9. CsMainFree'
  BY <1>0 DEF CsMainFree
<1>10. Begun' /\ Pending' /\ Settled'
  BY <1>0, <1>4, <1>9, Zenon DEF Begun, Pending, Settled, CsMainFree
<1>. QED
  BY <1>7, <1>8, <1>10 DEF SInv

(* InvalidateBlock completes the candidates.                               *)
LEMMA SectMarkFailed ==
  ASSUME AInv, Cause, SInv, NEW t \in Thread, MarkFailed(t)
  PROVE  SInv'
<1>. USE DEF environment, status, blockman, sequence, activation, invalidation
<1>0. /\ CsMainFree /\ pc' = [pc EXCEPT ![t] = "activate"]
      /\ UNCHANGED <<tip, nSequenceId, address, mostWork, linked>>
  BY DEF MarkFailed
<1>1. \A a, b : Worse(a, b)' <=> Worse(a, b)
  BY <1>0, SameOrder
<1>2. tip \in linked /\ tip \in Block /\ linked \subseteq haveData /\ tip \in ancestors[tip]
  BY AncestorsIn DEF AInv, Tree, Sound
<1>3. CASE toMarkFailed \in Chain
  <2>1. UNCHANGED <<failedValid, candidates>>
    BY <1>3 DEF MarkFailed
  <2>2. Ranked' /\ Complete'
    BY <1>0, <1>1, <1>3, <2>1, Zenon DEF SInv, Ranked, Complete, Valid
  <2>. QED
    BY <1>0, <2>2, OutsideCall, Zenon DEF SInv
<1>4. CASE toMarkFailed \notin Chain
  <2>1. /\ failedValid' = failedValid \cup {toMarkFailed}
        /\ candidates' = (candidates \cup {c \in Usable : ~Worse(c, tip)}) \ {toMarkFailed}
    BY <1>4 DEF MarkFailed
  <2>2. Ranked'
    BY <1>0, <1>1, <2>1 DEF SInv, Ranked
  <2>3. tip \in candidates'
    BY <1>0, <1>2, <1>4, <2>1 DEF SInv, Complete, Chain
  <2>4. ASSUME NEW b \in linked, Valid(b)', ~Worse(b, tip)
        PROVE  b \in candidates'
    <3>1. b \in ancestors[b]
      BY AncestorsIn DEF AInv, Tree
    <3>2. Valid(b) /\ b # toMarkFailed
      BY <2>1, <2>4, <3>1 DEF Valid
    <3>3. b \in Usable
      BY <1>2, <3>2 DEF Usable, Cause
    <3>. QED
      BY <2>1, <2>4, <3>2, <3>3
  <2>5. Complete'
    BY <1>0, <1>1, <2>3, <2>4 DEF Complete
  <2>. QED
    BY <1>0, <2>2, <2>5, OutsideCall, Zenon DEF SInv
<1>. QED
  BY <1>3, <1>4

(* ActivateBestChain takes cs_main.                                        *)
LEMMA SectEnterLoop ==
  ASSUME AInv, Cause, SInv, NEW t \in Thread, EnterLoop(t)
  PROVE  SInv'
<1>. USE DEF environment, status, blockman, sequence, activation, invalidation
<1>0. /\ CsMainFree /\ startingTip' = tip
      /\ pc' = [pc EXCEPT ![t] = IF mostWork = NoBlock THEN "find" ELSE "step"]
      /\ UNCHANGED <<tip, candidates, nSequenceId, address, mostWork, linked, scripts,
                     failedValid, failedChild, shutdown, toMarkFailed>>
  BY DEF EnterLoop
<1>1. pc \in [Thread -> Label] /\ tip \in linked /\ Clean(tip) /\ Chain \ {Genesis} \subseteq scripts
  BY DEF AInv, Control, Sound
<1>2. NotInvalidating /\ (mostWork # NoBlock => pc[t] = "top")
  <2>1. CASE pc[t] = "top"
    <3>1. \A u \in Owners : u = t
      BY <2>1 DEF AInv, Control, Owners
    <3>. QED
      BY <2>1, <3>1 DEF NotInvalidating, Owners
  <2>2. CASE pc[t] = "activate" /\ Owners = {}
    BY <2>2 DEF NotInvalidating, Owners, AInv, Control
  <2>. QED
    BY <2>1, <2>2 DEF EnterLoop, ChainstateFree
<1>3. /\ pc'[t] = IF mostWork = NoBlock THEN "find" ELSE "step"
      /\ \A u \in Thread \ {t} : pc'[u] = pc[u]
  BY <1>0, <1>1
<1>4. ~CsMainFree'
  BY <1>3 DEF CsMainFree
<1>5. \A a, b : Worse(a, b)' <=> Worse(a, b)
  BY <1>0, SameOrder
<1>6. Ranked' /\ Complete' /\ Settled'
  BY <1>0, <1>3, <1>4, <1>5 DEF SInv, Ranked, Complete, Settled
<1>7. Begun'
  <2>1. ~Worse(tip, tip)
    BY <1>1, Order, Zenon
  <2>2. mostWork # NoBlock => ~Worse(mostWork, tip) /\ tip \in ancestors[mostWork]
    BY <1>0, Order, Zenon DEF SInv, Pending, AInv, Sound
  <2>3. \A b \in linked : Valid(b) /\ ~Worse(b, tip) => b \in candidates
    BY <1>0, <1>2 DEF SInv, Complete
  <2>4. Clean(startingTip)' /\ ancestors[startingTip'] \ {Genesis} \subseteq scripts'
    BY <1>0, <1>1 DEF Clean, Failed, Chain
  <2>5. \A b \in linked' : Valid(b)' /\ ~Worse(b, tip)' /\ ~Worse(b, startingTip)' => b \in candidates'
    BY <1>0, <1>5, <2>3 DEF Valid
  <2>. QED
    BY <1>0, <1>5, <2>1, <2>2, <2>4, <2>5, Zenon DEF Begun
<1>8. Pending'
  <2>1. Called /\ mostWork # NoBlock => Called'
    BY <1>2, <1>3 DEF Called
  <2>2. \A u \in Thread : pc'[u] = "step" => mostWork' # NoBlock
    BY <1>0, <1>3 DEF CsMainFree
  <2>. QED
    BY <1>0, <1>4, <1>5, <2>1, <2>2, Zenon DEF SInv, Pending, Valid
<1>. QED
  BY <1>6, <1>7, <1>8 DEF SInv

(* FindMostWorkChain finds a target that is at least as good as the tip    *)
(* the section began with, and discards no candidate that is valid.        *)
LEMMA SectFind ==
  ASSUME AInv, Cause, SInv, NEW t \in Thread, FindMostWorkChain(t)
  PROVE  SInv'
<1>. USE DEF environment, status, blockman, sequence, activation, invalidation
<1>0. /\ pc[t] = "find"
      /\ UNCHANGED <<tip, nSequenceId, address, linked, scripts, failedValid, startingTip,
                     shutdown, toMarkFailed>>
  BY DEF FindMostWorkChain
<1>1. /\ ~CsMainFree /\ startingTip \in linked
      /\ \A u \in Thread \ {t} : pc[u] \notin OwnerLabel
  BY <1>0, SectionOwner
<1>2. Tree /\ Sound /\ pc \in [Thread -> Label] /\ mostWork = NoBlock /\ startingTip \in Block /\ tip \in linked
  BY <1>0, <1>1, NoTarget, Zenon DEF AInv, Control, Tree, Sound
<1>3. Clean(startingTip) /\ ~Worse(startingTip, tip) /\ ancestors[startingTip] \ {Genesis} \subseteq scripts
  BY <1>1, <1>2, Zenon DEF SInv, Begun
<1>4. startingTip \in candidates
  <2>1. Valid(startingTip) /\ ~Worse(startingTip, startingTip)
    BY <1>1, <1>3, Order, Zenon DEF Valid, Clean, Failed
  <2>. QED
    BY <1>1, <1>3, <2>1, Zenon DEF SInv, Begun
<1>5. /\ Best \in candidates /\ \A d \in candidates : ~Worse(Best, d)
      /\ Best \in linked /\ Best \in Block
  BY <1>4, BestLinked DEF AInv
<1>6. \A a, b : Worse(a, b)' <=> Worse(a, b)
  BY <1>0, SameOrder
<1>7. CASE Unusable(Best) = {}
  <2>1. mostWork' = Best /\ pc' = [pc EXCEPT ![t] = "step"] /\ UNCHANGED <<failedChild, candidates>>
    BY <1>4, <1>7 DEF FindMostWorkChain
  <2>2. pc'[t] = "step" /\ \A u \in Thread \ {t} : pc'[u] = pc[u]
    BY <1>2, <2>1
  <2>3. ~CsMainFree'
    BY <2>2 DEF CsMainFree
  <2>4. Best # NoBlock /\ ~Worse(Best, startingTip)
    BY <1>4, <1>5, TreeAssumption
  <2>5. Ranked' /\ Complete' /\ Settled'
    BY <1>0, <1>6, <2>1, <2>2, <2>3 DEF SInv, Ranked, Complete, Settled
  <2>6. Begun'
    BY <1>0, <1>1, <1>3, <1>6, <2>1, <2>4, Zenon DEF SInv, Begun, Clean, Failed, Valid
  <2>7. ASSUME NEW b \in linked, Valid(b), Worse(Best, b)
        PROVE  FALSE
    <3>1. ~Worse(b, Best)
      BY <1>5, <2>7, Order, Zenon
    <3>2. ~Worse(b, startingTip)
      BY <1>1, <1>5, <2>4, <3>1, Order, Zenon
    <3>3. ~Worse(b, tip)
      BY <1>1, <1>2, <1>3, <3>2, Order, Zenon
    <3>4. b \in candidates
      BY <1>1, <2>7, <3>2, <3>3, Zenon DEF SInv, Begun
    <3>. QED
      BY <1>5, <2>7, <3>4
  <2>8. Pending'
    BY <1>0, <1>1, <1>6, <2>1, <2>2, <2>3, <2>4, <2>7, Zenon DEF Pending, Valid, OwnerLabel
  <2>. QED
    BY <2>5, <2>6, <2>8 DEF SInv
<1>8. CASE Unusable(Best) # {}
  <2>. DEFINE bad == Unusable(Best)
  <2>1. /\ failedChild' = failedChild \cup FailedAbove(Best, bad)
        /\ candidates' = candidates \ Discarded(Best, bad) /\ UNCHANGED <<mostWork, pc>>
    BY <1>4, <1>8 DEF FindMostWorkChain
  <2>2. /\ FailedAbove(Best, bad) \subseteq Discarded(Best, bad)
        /\ \A y \in Discarded(Best, bad) : y \in Block /\ ancestors[y] \cap Failed # {}
        /\ ancestors[startingTip] \cap Discarded(Best, bad) = {}
    BY <1>2, <1>3, <1>4, <1>8, DiscardedOf, Zenon DEF AInv
  <2>. HIDE DEF bad
  <2>3. ASSUME NEW y \in Discarded(Best, bad)
        PROVE  ~Valid(y)
    <3>1. PICK f \in ancestors[y] : f \in Failed
      BY <2>2, Zenon
    <3>2. ~Valid(f)
      BY <3>1, Zenon DEF Cause
    <3>3. ancestors[f] \subseteq ancestors[y]
      BY <2>2, AncestorsBelow, Zenon
    <3>. QED
      BY <3>2, <3>3, Zenon DEF Valid
  <2>4. Clean(startingTip)'
    BY <1>0, <1>3, <2>1, <2>2, Zenon DEF Clean, Failed
  <2>5. ~CsMainFree'
    BY <1>1, <2>1 DEF CsMainFree
  <2>6. Ranked' /\ Complete' /\ Settled'
    BY <1>0, <1>6, <2>1, <2>5 DEF SInv, Ranked, Complete, Settled
  <2>7. Begun'
    BY <1>0, <1>1, <1>2, <1>3, <1>6, <2>1, <2>3, <2>4, Zenon DEF SInv, Begun, Valid
  <2>8. Pending'
    BY <1>2, <2>1, Zenon DEF SInv, Pending
  <2>. QED
    BY <2>6, <2>7, <2>8 DEF SInv
<1>. QED
  BY <1>7, <1>8

(* ActivateBestChain lets go of cs_main.                                   *)
LEMMA SectionEnds ==
  ASSUME AInv, SInv, NEW t \in Thread, pc[t] = "step", NEW newTip \in linked, NEW most,
         EndSection(t, newTip, most), tip' = newTip,
         UNCHANGED <<nSequenceId, address, linked, shutdown>>,
         \A c \in candidates' : ~Worse(c, newTip), newTip \in candidates',
         \A b \in linked : Valid(b)' /\ ~Worse(b, newTip) => b \in candidates',
         most # NoBlock => /\ newTip \in ancestors[most]
                           /\ \A b \in linked : Valid(b)' /\ Worse(most, b) => Called
  PROVE  SInv' /\ CsMainFree'
<1>0. /\ \A u \in Thread \ {t} : pc[u] \notin OwnerLabel
      /\ pc \in [Thread -> Label] /\ newTip # NoBlock
  BY SectionOwner, TreeAssumption, ZenonT(40) DEF AInv, Control, Tree
<1>1. PICK p \in {"idle", "top"} :
        /\ pc' = [pc EXCEPT ![t] = p]
        /\ p = "idle" => mostWork' = NoBlock /\ (newTip = most \/ shutdown)
        /\ p = "top" => mostWork' = most /\ newTip # most
  <2>1. CASE newTip = most \/ shutdown
    BY <2>1, Zenon DEF EndSection, LeaveActivation
  <2>2. CASE ~(newTip = most \/ shutdown)
    BY <2>2, Zenon DEF EndSection
  <2>. QED
    BY <2>1, <2>2, Zenon
<1>2. pc'[t] = p /\ \A u \in Thread \ {t} : pc'[u] = pc[u]
  BY <1>0, <1>1, Zenon
<1>3. CsMainFree' /\ (Called => Called')
  BY <1>0, <1>2, Zenon DEF CsMainFree, OwnerLabel, Called
<1>4. \A a, b : Worse(a, b)' <=> Worse(a, b)
  BY SameOrder, Zenon
<1>5. Ranked'
  BY <1>4, Zenon DEF Ranked
<1>6. Complete'
  BY <1>4, Zenon DEF Complete
<1>7. Begun'
  BY <1>3, Zenon DEF Begun
<1>8. Pending'
  <2>1. \A u \in Thread : pc'[u] # "step"
    BY <1>3, Zenon DEF CsMainFree
  <2>2. CASE p = "idle"
    BY <1>1, <2>1, <2>2, Zenon DEF Pending
  <2>3. CASE p = "top"
    BY <1>1, <1>3, <1>4, <2>1, <2>3, Zenon DEF Pending
  <2>. QED
    BY <2>2, <2>3, Zenon
<1>9. Settled'
  <2>1. SUFFICES ASSUME ~shutdown, \A u \in Thread : pc'[u] = "idle", NEW b \in linked, Valid(b)',
                        Worse(newTip, b)
                 PROVE  FALSE
    BY <1>4, Zenon DEF Settled
  <2>2. newTip = most
    BY <1>1, <1>2, <2>1, Zenon
  <2>3. Called'
    BY <1>0, <1>3, <2>1, <2>2, Zenon
  <2>. QED
    BY <2>1, <2>3, Zenon DEF Called
<1>. QED
  BY <1>3, <1>5, <1>6, <1>7, <1>8, <1>9, Zenon DEF SInv

(* ActivateBestChain finds that it has nothing to do.                      *)
LEMMA SectNothing ==
  ASSUME AInv, Cause, SInv, NEW t \in Thread, NothingToDo(t)
  PROVE  SInv' /\ ~Worse(tip', startingTip)
<1>. USE DEF environment, status, blockman, sequence, activation, invalidation
<1>0. /\ pc[t] = "step"
      /\ UNCHANGED <<tip, candidates, nSequenceId, address, linked, shutdown, failedValid>>
  BY DEF NothingToDo
<1>1. ~CsMainFree /\ startingTip \in linked /\ tip \in linked /\ Clean(tip)
  BY <1>0, SectionOwner DEF AInv, Sound
<1>2. mostWork = tip /\ tip # NoBlock
  BY <1>0, Zenon DEF NothingToDo, SInv, Pending
<1>3. EndSection(t, tip, tip)
  BY <1>2 DEF NothingToDo, EndSection
<1>4. ~Worse(tip, startingTip)
  BY <1>1, <1>2, Zenon DEF SInv, Begun
<1>5. ~Worse(tip, tip) /\ \A b \in linked : ~Worse(b, tip) => ~Worse(b, startingTip)
  BY <1>1, <1>4, Order, Zenon
<1>6. \A b \in linked : Valid(b) /\ ~Worse(b, tip) => b \in candidates
  BY <1>1, <1>5, Zenon DEF SInv, Begun
<1>7. tip \in candidates
  BY <1>1, <1>5, <1>6 DEF Clean, Valid, Failed
<1>8. tip \in ancestors[tip] /\ \A b \in linked : Valid(b) /\ Worse(tip, b) => Called
  BY <1>1, <1>2, AncestorsIn, Zenon DEF SInv, Pending, AInv, Tree
<1>9. \A b : Valid(b)' <=> Valid(b)
  BY <1>0 DEF Valid
<1>10. \A c \in candidates : ~Worse(c, tip)
  BY DEF SInv, Ranked
<1>. QED
  BY <1>0, <1>1, <1>3, <1>4, <1>6, <1>7, <1>8, <1>9, <1>10, SectionEnds, Zenon

(* ActivateBestChainStep disconnects the tip.                              *)
LEMMA SectDisconnect ==
  ASSUME AInv, Cause, SInv, NEW t \in Thread, DisconnectTip(t)
  PROVE  SInv' /\ ~CsMainFree'
<1>. USE DEF environment, status, blockman, sequence, activation, invalidation
<1>0. /\ pc[t] = "step" /\ mostWork # NoBlock /\ tip \notin ancestors[mostWork] /\ tip' = Parent[tip]
      /\ UNCHANGED <<candidates, nSequenceId, address, linked, shutdown, failedValid, failedChild,
                     scripts, pc, mostWork, startingTip, toMarkFailed>>
  BY Zenon DEF DisconnectTip
<1>1. ~CsMainFree /\ startingTip \in linked /\ tip \in linked /\ candidates \subseteq linked
  BY <1>0, SectionOwner, Zenon DEF AInv, Sound, Tree
<1>2. tip # Genesis
  BY <1>0, AncestorsIn, Zenon DEF AInv, Sound, Tree
<1>3. Parent[tip] \in linked /\ ~Worse(tip, Parent[tip])
  BY <1>1, <1>2, Order, Zenon
<1>4. ~Worse(startingTip, tip) /\ ~Worse(mostWork, startingTip)
  BY <1>0, <1>1, Zenon DEF SInv, Begun
<1>5. ~Worse(startingTip, Parent[tip])
  BY <1>1, <1>3, <1>4, Order, Zenon
<1>6. \A a, b : Worse(a, b)' <=> Worse(a, b)
  BY <1>0, SameOrder
<1>7. ~CsMainFree'
  BY <1>0, <1>1 DEF CsMainFree
<1>8. Ranked'
  <2>1. \A c \in candidates : ~Worse(c, Parent[tip])
    BY <1>1, <1>3, Order, Zenon DEF SInv, Ranked
  <2>. QED
    BY <1>0, <1>6, <2>1 DEF Ranked
<1>9. Complete' /\ Settled'
  BY <1>0, <1>7, Zenon DEF Complete, Settled
<1>10. Begun'
  <2>1. \A b \in linked : ~Worse(b, startingTip) => ~Worse(b, tip)
    BY <1>1, <1>4, Order, Zenon
  <2>2. \A b \in linked' : Valid(b)' /\ ~Worse(b, startingTip)' => b \in candidates'
    BY <1>0, <1>1, <1>6, <2>1, Zenon DEF SInv, Begun, Valid
  <2>3. Clean(startingTip)' /\ ancestors[startingTip'] \ {Genesis} \subseteq scripts'
    BY <1>0, <1>1, Zenon DEF SInv, Begun, Clean, Failed
  <2>. QED
    BY <1>0, <1>4, <1>5, <1>6, <2>2, <2>3, Zenon DEF Begun
<1>11. Pending'
  BY <1>0, <1>6, <1>7, Zenon DEF SInv, Pending, Called, Valid
<1>. QED
  BY <1>7, <1>8, <1>9, <1>10, <1>11 DEF SInv

(* ActivateBestChainStep connects a block and goes on, or is done.         *)
LEMMA SectConnect ==
  ASSUME AInv, Cause, SInv, NEW t \in Thread, ConnectTip(t)
  PROVE  SInv' /\ (CsMainFree' => ~Worse(tip', startingTip))
<1>. USE DEF environment, status, blockman, sequence, activation, invalidation
<1>0. /\ pc[t] = "step"
      /\ UNCHANGED <<nSequenceId, address, linked, shutdown, failedValid, failedChild, toMarkFailed>>
  BY Zenon DEF ConnectTip
<1>1. PICK b \in Block :
        /\ Connecting(b) /\ tip' = b /\ scripts' = scripts \cup {b}
        /\ candidates' = NotPruned(candidates, b)
        /\ \/ EndStep(t, b, mostWork)
           \/ UNCHANGED <<pc, mostWork, startingTip>>
  BY Zenon DEF ConnectTip
<1>2. /\ ~CsMainFree /\ startingTip \in linked /\ tip \in linked /\ candidates \subseteq linked
      /\ pc \in [Thread -> Label] /\ \A u \in Thread \ {t} : pc[u] \notin OwnerLabel
  BY <1>0, SectionOwner, Zenon DEF AInv, Sound, Tree, Control
<1>3. /\ mostWork # NoBlock /\ mostWork \in linked /\ mostWork \in Block /\ Clean(mostWork)
      /\ b \in ancestors[mostWork] /\ Parent[b] = tip
  BY <1>1, Zenon DEF Connecting, AInv, Sound, Tree
<1>4. b \in linked /\ b # Genesis /\ Valid(b)
  <2>1. b \in linked
    BY <1>3, TreeClosed, Zenon DEF AInv
  <2>2. ancestors[b] \subseteq ancestors[mostWork]
    BY <1>3, AncestorsBelow, Zenon
  <2>3. b # Genesis
    BY <1>2, <1>3, TreeAssumption, ZenonT(40) DEF AInv, Tree
  <2>. QED
    BY <1>3, <2>1, <2>2, <2>3, Zenon DEF Clean, Valid, Failed
<1>5. ~Worse(b, tip) /\ ~Worse(b, b)
  BY <1>3, <1>4, Order, Zenon
<1>6. \A x \in linked : ~Worse(x, b) => ~Worse(x, tip)
  BY <1>2, <1>4, <1>5, Order, Zenon
<1>7. candidates' = {c \in candidates : ~Worse(c, b)}
  BY <1>1 DEF NotPruned
<1>8. \A x \in linked : Valid(x) /\ ~Worse(x, b) /\ ~Worse(x, startingTip) => x \in candidates'
  BY <1>2, <1>6, <1>7, Zenon DEF SInv, Begun
<1>9. \A x, y : Worse(x, y)' <=> Worse(x, y)
  BY <1>0, SameOrder
<1>10. \A x : Valid(x)' <=> Valid(x)
  BY <1>0, Zenon DEF Valid
<1>11. ASSUME pc' = [pc EXCEPT ![t] = "step"], UNCHANGED <<mostWork, startingTip>>
       PROVE  SInv' /\ ~CsMainFree'
  <2>1. pc' = pc /\ pc'[t] = "step"
    BY <1>0, <1>2, <1>11
  <2>2. ~CsMainFree'
    BY <2>1 DEF CsMainFree
  <2>3. Ranked'
    BY <1>1, <1>7, <1>9 DEF Ranked
  <2>4. Complete' /\ Settled'
    BY <2>1, <2>2 DEF Complete, Settled
  <2>5. Begun'
    <3>1. Clean(startingTip)' /\ ancestors[startingTip'] \ {Genesis} \subseteq scripts'
      BY <1>0, <1>1, <1>2, <1>11, Zenon DEF SInv, Begun, Clean, Failed
    <3>2. ~Worse(mostWork, startingTip)
      BY <1>2, <1>3, Zenon DEF SInv, Begun
    <3>. QED
      BY <1>0, <1>1, <1>3, <1>8, <1>9, <1>10, <1>11, <3>1, <3>2, Zenon DEF Begun
  <2>6. Pending'
    BY <1>0, <1>9, <1>10, <1>11, <2>1, <2>2, Zenon DEF SInv, Pending, Called
  <2>. QED
    BY <2>2, <2>3, <2>4, <2>5, <2>6 DEF SInv
<1>12. CASE UNCHANGED <<pc, mostWork, startingTip>>
  <2>1. pc' = [pc EXCEPT ![t] = "step"]
    BY <1>0, <1>2, <1>12
  <2>. QED
    BY <1>11, <1>12, <2>1, Zenon
<1>13. CASE EndStep(t, b, mostWork) /\ Worse(b, startingTip)
  <2>1. pc' = [pc EXCEPT ![t] = "step"] /\ UNCHANGED <<mostWork, startingTip>>
    BY <1>3, <1>13, Zenon DEF EndStep
  <2>. QED
    BY <1>11, <2>1
<1>14. CASE EndStep(t, b, mostWork) /\ ~Worse(b, startingTip)
  <2>1. EndSection(t, b, mostWork)
    BY <1>14 DEF EndStep
  <2>2. \A x \in linked : ~Worse(x, b) => ~Worse(x, startingTip)
    BY <1>2, <1>4, <1>14, Order, Zenon
  <2>3. \A x \in linked : Valid(x) /\ ~Worse(x, b) => x \in candidates'
    BY <1>8, <2>2
  <2>4. b \in candidates' /\ \A c \in candidates' : ~Worse(c, b)
    BY <1>4, <1>5, <1>7, <2>3
  <2>5. \A x \in linked : Valid(x) /\ Worse(mostWork, x) => Called
    BY <1>3, Zenon DEF SInv, Pending
  <2>6. SInv'
    BY <1>0, <1>1, <1>3, <1>4, <1>10, <2>1, <2>3, <2>4, <2>5, SectionEnds, Zenon
  <2>. QED
    BY <1>1, <1>14, <2>6
<1>. QED
  BY <1>1, <1>12, <1>13, <1>14

(* InvalidBlockFound: the section goes on until the tip is as good again.  *)
LEMMA SectInvalid ==
  ASSUME AInv, Cause, SInv, NEW t \in Thread, InvalidBlockFound(t)
  PROVE  SInv' /\ (CsMainFree' => ~Worse(tip', startingTip))
<1>. USE DEF environment, status, blockman, sequence, activation, invalidation
<1>0. /\ pc[t] = "step" /\ EndStep(t, tip, NoBlock)
      /\ UNCHANGED <<nSequenceId, address, linked, shutdown, failedChild, toMarkFailed, tip, scripts>>
  BY DEF InvalidBlockFound
<1>1. PICK b \in Block :
        /\ Connecting(b) /\ verdict[b] = "badConnect" /\ failedValid' = failedValid \cup {b}
        /\ candidates' = candidates \ {b}
  BY DEF InvalidBlockFound
<1>2. /\ ~CsMainFree /\ startingTip \in linked /\ tip \in linked /\ tip \in Block
      /\ pc \in [Thread -> Label] /\ \A u \in Thread \ {t} : pc[u] \notin OwnerLabel
      /\ Clean(tip) /\ tip # NoBlock /\ Chain \ {Genesis} \subseteq scripts
      /\ \A c \in scripts : verdict[c] # "badConnect"
  <2>1. ~CsMainFree /\ startingTip \in linked /\ \A u \in Thread \ {t} : pc[u] \notin OwnerLabel
    BY <1>0, SectionOwner
  <2>2. /\ pc \in [Thread -> Label] /\ tip \in linked /\ linked \subseteq Block /\ Clean(tip)
        /\ Chain \ {Genesis} \subseteq scripts /\ \A c \in scripts : verdict[c] # "badConnect"
    BY Zenon DEF AInv, Sound, Tree, Control
  <2>. QED
    BY <2>1, <2>2, TreeAssumption
<1>3. b # Genesis
  BY <1>1, <1>2, TreeAssumption, Zenon DEF Connecting
<1>4. b \notin ancestors[tip]
  BY <1>1, <1>2, <1>3, Zenon DEF Chain
<1>5. \A x : Valid(x)' => Valid(x)
  BY <1>1, Zenon DEF Valid
<1>6. \A x \in linked : Valid(x)' => x # b
  BY <1>1, AncestorsIn DEF Valid
<1>7. \A x \in linked : Valid(x)' /\ ~Worse(x, tip) /\ ~Worse(x, startingTip) => x \in candidates'
  BY <1>1, <1>2, <1>5, <1>6, Zenon DEF SInv, Begun
<1>8. \A x, y : Worse(x, y)' <=> Worse(x, y)
  BY <1>0, SameOrder
<1>9. CASE Worse(tip, startingTip)
  <2>1. pc' = [pc EXCEPT ![t] = "find"] /\ mostWork' = NoBlock /\ startingTip' = startingTip
    BY <1>0, <1>9 DEF EndStep
  <2>2. pc'[t] = "find" /\ \A u \in Thread \ {t} : pc'[u] = pc[u]
    BY <1>2, <2>1
  <2>3. ~CsMainFree'
    BY <2>2, Zenon DEF CsMainFree
  <2>4. Ranked'
    BY <1>0, <1>1, <1>8 DEF SInv, Ranked
  <2>5. Complete' /\ Settled'
    BY <2>2, <2>3 DEF Complete, Settled
  <2>6. Begun'
    <3>1. Clean(startingTip) /\ ancestors[startingTip] \ {Genesis} \subseteq scripts
      BY <1>2, Zenon DEF SInv, Begun
    <3>2. b \notin ancestors[startingTip]
      BY <1>1, <1>2, <1>3, <3>1, Zenon
    <3>3. Clean(startingTip)'
      BY <1>0, <1>1, <2>1, <3>1, <3>2, Zenon DEF Clean, Failed
    <3>4. ~Worse(startingTip, tip)
      BY <1>2, <1>9, Order, Zenon
    <3>. QED
      BY <1>0, <1>7, <1>8, <2>1, <3>1, <3>3, <3>4, Zenon DEF Begun
  <2>7. Pending'
    BY <1>2, <2>1, <2>2, Zenon DEF Pending, OwnerLabel
  <2>. QED
    BY <2>3, <2>4, <2>5, <2>6, <2>7 DEF SInv
<1>10. CASE ~Worse(tip, startingTip)
  <2>1. EndSection(t, tip, NoBlock)
    BY <1>0, <1>10 DEF EndStep
  <2>2. ~Worse(tip, tip) /\ \A x \in linked : ~Worse(x, tip) => ~Worse(x, startingTip)
    BY <1>2, <1>10, Order, Zenon
  <2>3. \A x \in linked : Valid(x)' /\ ~Worse(x, tip) => x \in candidates'
    BY <1>7, <2>2
  <2>4. tip \in candidates'
    <3>1. ancestors[tip] \cap failedValid' = {}
      BY <1>1, <1>2, <1>4, Zenon DEF Clean, Failed
    <3>. QED
      BY <1>2, <2>2, <2>3, <3>1, Zenon DEF Valid
  <2>5. \A c \in candidates' : ~Worse(c, tip)
    BY <1>1 DEF SInv, Ranked
  <2>6. SInv'
    BY <1>0, <1>2, <2>1, <2>3, <2>4, <2>5, SectionEnds, Zenon
  <2>. QED
    BY <1>0, <1>10, <2>6
<1>. QED
  BY <1>9, <1>10

LEMMA SInvInit == Init => SInv
<1>. SUFFICES ASSUME Init
              PROVE  SInv
  OBVIOUS
<1>0. AInv
  BY AInvInit
<1>1. ~Worse(Genesis, Genesis)
  BY <1>0, Order, Zenon DEF Init
<1>2. CsMainFree
  BY DEF Init, CsMainFree
<1>3. Ranked /\ Complete /\ Begun /\ Pending /\ Settled
  BY <1>1, <1>2, Zenon DEF Init, Ranked, Complete, Begun, Pending, Settled
<1>. QED
  BY <1>3 DEF SInv

LEMMA SInvStep ==
  ASSUME AInv, Cause, SInv, "reconsider" \notin Command, Next, TipKeepsRank
  PROVE  SInv'
<1>1. ASSUME NEW t \in Thread, Step(t)
      PROVE  SInv'
  <2>1. CASE InvalidateBlock(t) \/ InvalidatedTips(t)
    BY <2>1, SectQuiet
  <2>2. CASE EnterLoop(t)
    BY <2>2, SectEnterLoop
  <2>3. CASE FindMostWorkChain(t)
    BY <2>3, SectFind
  <2>4. CASE NothingToDo(t)
    BY <2>4, SectNothing
  <2>5. CASE DisconnectTip(t)
    BY <2>5, SectDisconnect
  <2>6. CASE ConnectTip(t)
    BY <2>6, SectConnect
  <2>7. CASE InvalidBlockFound(t)
    BY <2>7, SectInvalid
  <2>8. CASE InvalidateTip(t)
    BY <2>8, SectInvalidateTip
  <2>9. CASE MarkFailed(t)
    BY <2>9, SectMarkFailed
  <2>. QED
    BY <1>1, <2>1, <2>2, <2>3, <2>4, <2>5, <2>6, <2>7, <2>8, <2>9, Zenon DEF Step
<1>2. ASSUME NEW t \in Thread, NEW b \in Block, Request(t, b)
      PROVE  SInv'
  <2>1. CASE IgnoreBlock(t, b) \/ RefuseBlock(t, b) \/ CallInvalidateBlock(t, b)
    BY <2>1, SectQuiet
  <2>2. CASE AcceptBlock(t, b)
    BY <2>2, SectAccept
  <2>3. CASE PreciousBlock(t, b)
    BY <2>3, SectPrecious
  <2>4. CASE ReconsiderBlock(t, b)
    BY <2>4, Zenon DEF ReconsiderBlock, Call
  <2>. QED
    BY <1>2, <2>1, <2>2, <2>3, <2>4, Zenon DEF Request
<1>3. CASE StartShutdown \/ \E b \in Block : RejectHeader(b) \/ AddHeader(b)
  BY <1>3, SectQuiet
<1>4. CASE Restart
  BY <1>4, SectRestart
<1>. QED
  BY <1>1, <1>2, <1>3, <1>4, Zenon DEF Next

LEMMA SInvHolds ==
  ASSUME "reconsider" \notin Command
  PROVE  Spec /\ [][TipKeepsRank]_vars => []SInv
<1>1. AInv /\ Cause /\ SInv /\ [Next]_vars /\ [TipKeepsRank]_vars => SInv'
  <2>1. ASSUME AInv, Cause, SInv, Next, TipKeepsRank
        PROVE  SInv'
    BY <2>1, SInvStep
  <2>2. ASSUME SInv, UNCHANGED vars
        PROVE  SInv'
    <3>. USE <2>2 DEF vars, environment, status, blockman, sequence, activation, invalidation
    <3>1. \A a, b : Worse(a, b)' <=> Worse(a, b)
      BY SameOrder
    <3>2. Ranked' /\ Settled'
      BY <3>1, Zenon DEF SInv, Ranked, Settled, Valid
    <3>3. Complete'
      BY <3>1, Zenon DEF SInv, Complete, CsMainFree, NotInvalidating, Chain, Valid
    <3>4. Begun'
      BY <3>1, Zenon DEF SInv, Begun, CsMainFree, Clean, Failed, Valid
    <3>5. Pending'
      BY <3>1, Zenon DEF SInv, Pending, CsMainFree, Called, Valid
    <3>. QED
      BY <3>2, <3>3, <3>4, <3>5 DEF SInv
  <2>. QED
    BY <2>1, <2>2
<1>. QED
  BY <1>1, SInvInit, AInvHolds, CauseLinksHold, PTL DEF Spec

(* Without reconsiderblock, and as long as preciousblock on the tip does   *)
(* not make it sort worse, setBlockIndexCandidates has every valid block   *)
(* that is linked and sorts at least as good as the tip, and no other.     *)
THEOREM CandidatesAreExact ==
  ASSUME "reconsider" \notin Command
  PROVE  Spec /\ [][TipKeepsRank]_vars => []CandidatesExact
<1>1. AInv /\ SInv => CandidatesExact
  <2>. SUFFICES ASSUME AInv, SInv, CsMainFree, NEW b \in known
                PROVE  /\ (/\ NotInvalidating \/ b = tip
                           /\ b \in linked /\ ~Worse(b, tip)
                           /\ ancestors[b] \cap failedValid = {}) => b \in candidates
                       /\ b \in candidates => b \in linked /\ ~Worse(b, tip)
    BY DEF CandidatesExact
  <2>1. b \in candidates => b \in linked /\ ~Worse(b, tip)
    BY Zenon DEF SInv, Ranked, AInv, Tree
  <2>2. b = tip => b \in candidates
    BY DEF SInv, Complete
  <2>3. (NotInvalidating /\ b \in linked /\ ~Worse(b, tip) /\ Valid(b)) => b \in candidates
    BY DEF SInv, Complete
  <2>. QED
    BY <2>1, <2>2, <2>3, Zenon DEF Valid
<1>. QED
  BY <1>1, AInvHolds, SInvHolds, PTL

(* Under the same conditions, when every thread has returned, no valid     *)
(* chain sorts better than the active one.                                 *)
THEOREM IdleIsBest ==
  ASSUME "reconsider" \notin Command
  PROVE  Spec /\ [][TipKeepsRank]_vars => []IdleBest
<1>1. SInv => IdleBest
  BY DEF SInv, Settled, IdleBest, Valid, Failed
<1>. QED
  BY <1>1, SInvHolds, PTL

(* Under the same conditions, ActivateBestChain never lets go of cs_main   *)
(* on a tip that sorts worse than the one it found.                        *)
THEOREM ForwardProgressMade ==
  ASSUME "reconsider" \notin Command
  PROVE  Spec /\ [][TipKeepsRank]_vars => ForwardProgress
<1>. DEFINE P == (~CsMainFree /\ CsMainFree') => ~Worse(tip', startingTip)
<1>1. ASSUME AInv, Cause, SInv, Next
      PROVE  P
  <2>. SUFFICES ASSUME ~CsMainFree, CsMainFree'
                PROVE  ~Worse(tip', startingTip)
    OBVIOUS
  <2>1. ASSUME NEW t \in Thread, Step(t)
        PROVE  ~Worse(tip', startingTip)
    <3>1. CASE NothingToDo(t)
      BY <1>1, <3>1, SectNothing
    <3>2. CASE ConnectTip(t)
      BY <1>1, <3>2, SectConnect
    <3>3. CASE InvalidBlockFound(t)
      BY <1>1, <3>3, SectInvalid
    <3>4. CASE DisconnectTip(t)
      BY <1>1, <3>4, SectDisconnect
    <3>5. CASE FindMostWorkChain(t)
      <4>1. pc[t] = "find" /\ (pc' = pc \/ pc' = [pc EXCEPT ![t] = "step"]) /\ pc \in [Thread -> Label]
        BY <1>1, <3>5, Zenon DEF FindMostWorkChain, AInv, Control
      <4>2. pc'[t] \in {"find", "step"}
        BY <4>1
      <4>. QED
        BY <4>2 DEF CsMainFree
    <3>6. CASE \/ EnterLoop(t) \/ InvalidateBlock(t) \/ InvalidateTip(t)
               \/ InvalidatedTips(t) \/ MarkFailed(t)
      BY <3>6, Zenon DEF EnterLoop, InvalidateBlock, InvalidateTip, InvalidatedTips, MarkFailed
    <3>. QED
      BY <2>1, <3>1, <3>2, <3>3, <3>4, <3>5, <3>6, Zenon DEF Step
  <2>2. ASSUME NEW t \in Thread, NEW b \in Block, Request(t, b)
        PROVE  CsMainFree
    BY <2>2, Zenon DEF Request, IgnoreBlock, RefuseBlock, AcceptBlock, PreciousBlock, ReconsiderBlock,
                CallInvalidateBlock, Call
  <2>3. ASSUME NEW b \in Block, RejectHeader(b) \/ AddHeader(b)
        PROVE  CsMainFree
    BY <2>3, Zenon DEF RejectHeader, AddHeader
  <2>4. ASSUME StartShutdown
        PROVE  CsMainFree
    BY <2>4 DEF StartShutdown, CsMainFree
  <2>5. ASSUME Restart
        PROVE  CsMainFree
    BY <2>5, Zenon DEF Restart, CsMainFree
  <2>. QED
    BY <1>1, <2>1, <2>2, <2>3, <2>4, <2>5, Zenon DEF Next
<1>2. AInv /\ Cause /\ SInv /\ [Next]_vars => [P]_vars
  BY <1>1
<1>. QED
  BY <1>2, AInvHolds, CauseLinksHold, SInvHolds, PTL DEF Spec, ForwardProgress
=============================================================================
