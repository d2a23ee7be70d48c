------------------------ MODULE ChainSelectionProofs ------------------------
(***************************************************************************)
(* Proofs about ChainSelection, for every tree of blocks, every set of     *)
(* threads and every number of RPCs, whichever they are.  The recursive    *)
(* definition of the ancestors is shown to have a solution; all that is    *)
(* used of it follows by induction on the height.  The invariant AInv says *)
(* that the block index is a tree, that one thread holds m_cs_chainstate,  *)
(* and that neither the active chain nor the chain that is being activated *)
(* has a failed block.                                                     *)
(***************************************************************************)
EXTENDS ChainSelection, FiniteSetTheorems, WellFoundedInduction, TLAPS

-----------------------------------------------------------------------------
(* Blocks, chains and minima.                                              *)

(* A set of natural numbers that is not empty has a least element.         *)
LEMMA LeastNat ==
  ASSUME NEW S \in SUBSET Nat, S # {}
  PROVE  \E m \in S : \A n \in S : m <= n
<1>1. IsWellFoundedOn(OpToRel(<, Nat), Nat)
  BY NatLessThanWellFounded, Zenon
<1>2. PICK m \in S : \A n \in S : ~(<<n, m>> \in OpToRel(<, Nat))
  <2>. HIDE DEF OpToRel
  <2>. QED
    BY <1>1, WFMin, Zenon
<1>3. \A n \in S : ~(n < m)
  BY <1>2, Zenon DEF OpToRel
<1>. QED
  BY <1>3

(* What holds of the genesis block, and of a block when it holds of its    *)
(* parent, holds of every block.                                           *)
LEMMA BlockInduction ==
  ASSUME NEW S, Genesis \in S,
         \A b \in Block \ {Genesis} : Parent[b] \in S => b \in S
  PROVE  Block \subseteq S
<1>. DEFINE H == {Height[b] : b \in Block \ S}
<1>1. SUFFICES ASSUME NEW x \in Block \ S
               PROVE  FALSE
  OBVIOUS
<1>2. H \in SUBSET Nat /\ H # {}
  BY TreeAssumption
<1>3. PICK m \in H : \A n \in H : m <= n
  <2>. HIDE DEF H
  <2>. QED
    BY <1>2, LeastNat
<1>4. PICK b \in Block \ S : m = Height[b]
  BY <1>3
<1>5. b # Genesis /\ Parent[b] \in Block /\ Height[b] = Height[Parent[b]] + 1
  BY <1>4, TreeAssumption
<1>6. Height[Parent[b]] \in Nat
  BY <1>5, TreeAssumption
<1>7. Parent[b] \in S
  <2>1. ASSUME Parent[b] \notin S
        PROVE  m <= Height[Parent[b]]
    BY <1>3, <1>5, <2>1
  <2>. QED
    BY <1>4, <1>5, <1>6, <2>1
<1>. QED
  BY <1>4, <1>5, <1>7

(* The recursive definition of the ancestors has a solution: of each       *)
(* block, the smallest set that has it and the parents of its members.     *)
LEMMA AncestorsEquation ==
  ancestors = [b \in Block |-> {b} \cup IF b = Genesis THEN {} ELSE ancestors[Parent[b]]]
<1>. DEFINE Closed(S) == \A c \in S \ {Genesis} : Parent[c] \in S
            Below(b) == {a \in Block : \A S \in SUBSET Block : b \in S /\ Closed(S) => a \in S}
            f == [b \in Block |-> Below(b)]
<1>1. ASSUME NEW b \in Block
      PROVE  b \in Below(b) /\ Closed(Below(b))
  BY TreeAssumption
<1>2. ASSUME NEW b \in Block, NEW S \in SUBSET Block, b \in S, Closed(S)
      PROVE  Below(b) \subseteq S
  BY <1>2
<1>3. ASSUME NEW b \in Block, b # Genesis
      PROVE  Below(b) = {b} \cup Below(Parent[b])
  <2>1. Parent[b] \in Block
    BY <1>3, TreeAssumption
  <2>2. Below(Parent[b]) \subseteq Below(b)
    BY <1>1, <1>2, <1>3, <2>1
  <2>3. Closed({b} \cup Below(Parent[b]))
    BY <1>1, <2>1
  <2>4. Below(b) \subseteq {b} \cup Below(Parent[b])
    <3>1. {b} \cup Below(Parent[b]) \in SUBSET Block
      BY <2>1
    <3>. HIDE DEF Below, Closed
    <3>. QED
      BY <1>2, <2>3, <3>1
  <2>. QED
    BY <1>1, <2>2, <2>4
<1>4. Below(Genesis) = {Genesis}
  <2>1. Genesis \in Block /\ Closed({Genesis})
    BY TreeAssumption
  <2>2. Below(Genesis) \subseteq {Genesis}
    <3>. HIDE DEF Below, Closed
    <3>. QED
      BY <1>2, <2>1
  <2>. QED
    BY <1>1, <2>1, <2>2
<1>. HIDE DEF Below
<1>5. ASSUME NEW b \in Block
      PROVE  f[b] = {b} \cup IF b = Genesis THEN {} ELSE f[Parent[b]]
  BY <1>3, <1>4, TreeAssumption
<1>6. f = [b \in Block |-> {b} \cup IF b = Genesis THEN {} ELSE f[Parent[b]]]
  BY <1>5
<1>. HIDE DEF f
<1>. QED
  BY <1>6, Zenon DEF ancestors

(* The chain to a block.                                                   *)
LEMMA AncestorsOf ==
  /\ ancestors[Genesis] = {Genesis}
  /\ \A b \in Block \ {Genesis} :
       /\ Parent[b] \in Block
       /\ ancestors[b] = {b} \cup ancestors[Parent[b]]
<1>1. Genesis \in Block /\ \A b \in Block \ {Genesis} : Parent[b] \in Block
  BY TreeAssumption
<1>. QED
  BY <1>1, AncestorsEquation

LEMMA AncestorsIn ==
  ASSUME NEW b \in Block
  PROVE  b \in ancestors[b] /\ Genesis \in ancestors[b] /\ ancestors[b] \subseteq Block
<1>. DEFINE S == {c \in Block : c \in ancestors[c] /\ Genesis \in ancestors[c]
                                 /\ ancestors[c] \subseteq Block}
<1>1. Genesis \in S
  BY AncestorsOf, TreeAssumption
<1>2. \A c \in Block \ {Genesis} : Parent[c] \in S => c \in S
  BY AncestorsOf
<1>3. Block \subseteq S
  <2>. HIDE DEF S
  <2>. QED
    BY <1>1, <1>2, BlockInduction
<1>. QED
  BY <1>3

(* A set that has the parent of each of its members has their ancestors.   *)
LEMMA ClosedUnderAncestors ==
  ASSUME NEW S, \A c \in S \ {Genesis} : Parent[c] \in S,
         NEW b \in Block, b \in S
  PROVE  ancestors[b] \subseteq S
<1>. DEFINE T == {c \in Block : c \in S => ancestors[c] \subseteq S}
<1>1. Genesis \in T
  BY AncestorsOf, TreeAssumption
<1>2. \A c \in Block \ {Genesis} : Parent[c] \in T => c \in T
  BY AncestorsOf
<1>3. Block \subseteq T
  <2>. HIDE DEF T
  <2>. QED
    BY <1>1, <1>2, BlockInduction
<1>. QED
  BY <1>3

(* An ancestor is the block itself or an ancestor of its parent, lower and *)
(* with less work; its ancestors are ancestors.                            *)
LEMMA AncestorsBelow ==
  ASSUME NEW b \in Block, NEW a \in ancestors[b]
  PROVE  /\ ancestors[a] \subseteq ancestors[b]
         /\ a # b => Height[a] < Height[b] /\ Work[a] < Work[b]
<1>. DEFINE S == {c \in Block : \A x \in ancestors[c] :
                    /\ ancestors[x] \subseteq ancestors[c]
                    /\ x # c => Height[x] < Height[c] /\ Work[x] < Work[c]}
<1>1. Genesis \in S
  BY AncestorsOf, TreeAssumption
<1>2. ASSUME NEW c \in Block \ {Genesis}, Parent[c] \in S
      PROVE  c \in S
  <2>1. /\ Height[c] = Height[Parent[c]] + 1 /\ Work[c] > Work[Parent[c]]
        /\ Parent[c] \in Block
    BY <1>2, TreeAssumption
  <2>2. ASSUME NEW x \in ancestors[c], x # c
        PROVE  /\ ancestors[x] \subseteq ancestors[c]
               /\ Height[x] < Height[c] /\ Work[x] < Work[c]
    <3>1. x \in ancestors[Parent[c]] /\ ancestors[Parent[c]] \subseteq ancestors[c]
      BY <1>2, <2>2, AncestorsOf
    <3>2. x \in Block /\ Height[x] \in Nat /\ Work[x] \in Nat
      BY <2>1, <3>1, AncestorsIn, TreeAssumption
    <3>3. Height[c] \in Nat /\ Height[Parent[c]] \in Nat /\ Work[c] \in Nat /\ Work[Parent[c]] \in Nat
      BY <2>1, TreeAssumption
    <3>4. ancestors[x] \subseteq ancestors[Parent[c]]
      BY <1>2, <3>1
    <3>5. x # Parent[c] => Height[x] < Height[Parent[c]] /\ Work[x] < Work[Parent[c]]
      BY <1>2, <3>1
    <3>6. Height[x] < Height[c] /\ Work[x] < Work[c]
      BY <2>1, <3>2, <3>3, <3>5
    <3>. QED
      BY <3>1, <3>4, <3>6
  <2>. QED
    BY <1>2, <2>2
<1>3. Block \subseteq S
  <2>. HIDE DEF S
  <2>. QED
    BY <1>1, <1>2, BlockInduction
<1>. QED
  BY <1>3

(* Of two ancestors of a block one is an ancestor of the other.            *)
LEMMA AncestorsOrdered ==
  ASSUME NEW b \in Block, NEW a \in ancestors[b], NEW c \in ancestors[b]
  PROVE  a \in ancestors[c] \/ c \in ancestors[a]
<1>. DEFINE S == {d \in Block : \A x, y \in ancestors[d] :
                    x \in ancestors[y] \/ y \in ancestors[x]}
<1>1. Genesis \in S
  BY AncestorsOf, TreeAssumption
<1>2. ASSUME NEW d \in Block \ {Genesis}, Parent[d] \in S
      PROVE  d \in S
  <2>1. ancestors[d] = {d} \cup ancestors[Parent[d]]
    BY AncestorsOf
  <2>. QED
    BY <1>2, <2>1
<1>3. Block \subseteq S
  <2>. HIDE DEF S
  <2>. QED
    BY <1>1, <1>2, BlockInduction
<1>. QED
  BY <1>3

(* What lies above an ancestor f on the way to p descends from f.          *)
LEMMA AboveAncestor ==
  ASSUME NEW p \in Block, NEW f \in ancestors[p], NEW y \in ancestors[p] \ ancestors[f]
  PROVE  f \in ancestors[y]
  BY AncestorsOrdered

(* The highest of some ancestors.                                          *)
LEMMA TestBlockIn ==
  ASSUME NEW b \in Block, NEW bad \in SUBSET ancestors[b], bad # {}
  PROVE  TestBlock(bad) \in bad
<1>. DEFINE D == {Height[b] - Height[e] : e \in bad}
<1>1. \A e \in bad : Height[e] \in Nat /\ Height[e] <= Height[b]
  <2>1. Height[b] \in Nat
    BY TreeAssumption
  <2>2. ASSUME NEW e \in bad
        PROVE  Height[e] \in Nat /\ Height[e] <= Height[b]
    <3>1. e \in ancestors[b] /\ e \in Block
      BY AncestorsIn
    <3>2. Height[e] \in Nat
      BY <3>1, TreeAssumption
    <3>. QED
      BY <2>1, <3>1, <3>2, AncestorsBelow
  <2>. QED
    BY <2>2
<1>2. Height[b] \in Nat
  BY TreeAssumption
<1>3. D \in SUBSET Nat /\ D # {}
  BY <1>1, <1>2
<1>4. PICK m \in D : \A n \in D : m <= n
  <2>. HIDE DEF D
  <2>. QED
    BY <1>3, LeastNat
<1>5. PICK f \in bad : m = Height[b] - Height[f]
  BY <1>4
<1>6. ASSUME NEW e \in bad
      PROVE  Height[e] <= Height[f]
  <2>1. Height[b] - Height[f] <= Height[b] - Height[e]
    BY <1>4, <1>5
  <2>. QED
    BY <1>1, <1>2, <2>1
<1>. QED
  BY <1>6 DEF TestBlock

(* A strict order on a finite set that is not empty has a maximal element. *)
LEMMA Maximal ==
  ASSUME NEW S, IsFiniteSet(S), S # {}, NEW R,
         \A x \in S : <<x, x>> \notin R,
         \A x, y, z \in S : <<x, y>> \in R /\ <<y, z>> \in R => <<x, z>> \in R
  PROVE  \E x \in S : \A y \in S : <<x, y>> \notin R
<1>. DEFINE Above(x) == {y \in S : <<x, y>> \in R}
            T == {Above(x) : x \in S}
<1>1. IsWellFoundedOn(StrictSubsetOrdering(S), SUBSET S)
  BY FS_StrictSubsetOrderingWellFounded, FS_FiniteSubsetsOfFinite, Zenon
<1>2. T \subseteq SUBSET S /\ T # {}
  <2>1. PICK x \in S : TRUE
    OBVIOUS
  <2>2. Above(x) \in T
    BY <2>1
  <2>3. \A y \in S : Above(y) \in SUBSET S
    OBVIOUS
  <2>4. T \subseteq SUBSET S
    <3>. HIDE DEF Above
    <3>. QED
      BY <2>3
  <2>. QED
    BY <2>2, <2>4, Zenon
<1>3. PICK B \in T : \A C \in T : <<C, B>> \notin StrictSubsetOrdering(S)
  <2>. HIDE DEF T
  <2>. QED
    BY <1>1, <1>2, WFMin, Zenon
<1>4. PICK x \in S : B = Above(x)
  OBVIOUS
<1>5. ASSUME NEW y \in S, <<x, y>> \in R
      PROVE  FALSE
  <2>1. Above(y) \in T
    OBVIOUS
  <2>2. Above(y) \subseteq Above(x)
    BY <1>5
  <2>3. y \in Above(x) /\ y \notin Above(y)
    BY <1>5
  <2>4. <<Above(y), Above(x)>> \in StrictSubsetOrdering(S)
    <3>1. Above(y) \in SUBSET S /\ Above(x) \in SUBSET S /\ Above(y) # Above(x)
      BY <2>3
    <3>. HIDE DEF Above
    <3>. QED
      BY <3>1, <2>2 DEF StrictSubsetOrdering
  <2>. QED
    BY <1>3, <1>4, <2>1, <2>4
<1>. QED
  BY <1>5

(* CBlockIndexWorkComparator is a strict total order on the blocks.        *)
LEMMA WorseOrder ==
  ASSUME address \in Addresses, NEW id \in [Block -> Int],
         NEW a \in Block, NEW b \in Block, NEW c \in Block
  PROVE  /\ ~WorseWith(id, a, a)
         /\ WorseWith(id, a, b) /\ WorseWith(id, b, c) => WorseWith(id, a, c)
         /\ WorseWith(id, a, b) \/ WorseWith(id, b, a) \/ a = b
<1>1. /\ Work[a] \in Nat /\ Work[b] \in Nat /\ Work[c] \in Nat
      /\ address \in [Block -> Nat]
      /\ address[a] = address[b] => a = b
  BY TreeAssumption
<1>2. address[a] \in Nat /\ address[b] \in Nat /\ address[c] \in Nat
  BY <1>1
<1>3. id[a] \in Int /\ id[b] \in Int /\ id[c] \in Int
  OBVIOUS
<1>. QED
  BY <1>1, <1>2, <1>3 DEF WorseWith

(* FindMostWorkChain's candidate: the last of setBlockIndexCandidates.     *)
LEMMA BestIn ==
  ASSUME address \in Addresses, nSequenceId \in [Block -> Int],
         candidates \subseteq Block, IsFiniteSet(candidates), candidates # {}
  PROVE  Best \in candidates /\ \A d \in candidates : ~Worse(Best, d)
<1>. DEFINE R == {p \in candidates \X candidates : Worse(p[1], p[2])}
<1>0. ASSUME NEW a \in candidates, NEW b \in candidates, NEW c \in candidates
      PROVE  /\ ~Worse(a, a)
             /\ Worse(a, b) /\ Worse(b, c) => Worse(a, c)
             /\ Worse(a, b) \/ Worse(b, a) \/ a = b
  <2>1. a \in Block /\ b \in Block /\ c \in Block
    OBVIOUS
  <2>. QED
    BY <2>1, WorseOrder, Zenon DEF Worse
<1>1. \A a, b \in candidates : <<a, b>> \in R <=> Worse(a, b)
  OBVIOUS
<1>2. PICK x \in candidates : \A y \in candidates : <<x, y>> \notin R
  <2>1. \A a \in candidates : <<a, a>> \notin R
    BY <1>0, <1>1, Zenon
  <2>2. \A a, b, c \in candidates : <<a, b>> \in R /\ <<b, c>> \in R => <<a, c>> \in R
    BY <1>0, <1>1, Zenon
  <2>. HIDE DEF R
  <2>. QED
    BY <2>1, <2>2, Maximal, Zenon
<1>3. \A d \in candidates \ {x} : Worse(d, x)
  BY <1>0, <1>1, <1>2, Zenon
<1>4. Best \in candidates /\ \A d \in candidates \ {Best} : Worse(d, Best)
  BY <1>3 DEF Best
<1>5. ASSUME NEW d \in candidates, Worse(Best, d)
      PROVE  FALSE
  <2>1. d # Best
    BY <1>0, <1>4, <1>5, Zenon
  <2>2. Worse(d, Best)
    BY <1>4, <2>1, Zenon
  <2>. QED
    BY <1>0, <1>4, <1>5, <2>2, Zenon
<1>. QED
  BY <1>4, <1>5, Zenon

-----------------------------------------------------------------------------
(* What holds whichever RPCs are used.                                     *)

Label == {"idle", "activate", "top", "find", "step", "invalidate",
          "invalidating", "marking"}

\* The block index is a finite part of the tree that has the parents of its
\* members; so are the linked blocks.
Tree ==
  /\ Genesis \in linked /\ linked \subseteq haveData
  /\ haveData \subseteq known /\ known \subseteq Block /\ IsFiniteSet(known)
  /\ \A b \in known \ {Genesis} : Parent[b] \in known
  /\ \A b \in linked \ {Genesis} : Parent[b] \in linked
  /\ scripts \subseteq linked /\ failedValid \subseteq known /\ failedChild \subseteq known
  /\ unlinked \subseteq haveData \ linked
  /\ candidates \subseteq linked /\ byWork \subseteq linked
  /\ verdict \in Verdicts

\* The sequence numbers, the order of the pointers and the count of RPCs.
Numbers ==
  /\ address \in Addresses /\ nSequenceId \in [Block -> Int]
  /\ nBlockSequenceId \in Nat \ {0}
  /\ nBlockReverseSequenceId \in Int /\ nBlockReverseSequenceId < 0
  /\ nLastPreciousChainwork \in Nat /\ commands \in 0 .. MaxCommands

\* What a thread may rely on between its steps, by where it is.
Local(t) ==
  /\ pc[t] = "find" => mostWork = NoBlock
  /\ pc[t] \in {"find", "step"} => startingTip \in linked /\ oldTip \in linked
  /\ pc[t] \in {"invalidate", "invalidating", "marking"} => pindex[t] \in known \ {Genesis}
  /\ pc[t] \in {"invalidating", "marking"} => toMarkFailed \in known \ {Genesis}

\* One thread holds m_cs_chainstate, and the locals are its.
Control ==
  /\ pc \in [Thread -> Label] /\ pindex \in [Thread -> Block \cup {NoBlock}]
  /\ \A t, u \in Owners : t = u
  /\ mostWork # NoBlock => \E t \in Thread : pc[t] \in {"top", "step"}
  /\ \A t \in Thread : Local(t)
  /\ {mostWork, startingTip, oldTip, toMarkFailed} \subseteq known \cup {NoBlock}
  /\ connected \in BOOLEAN /\ shutdown \in BOOLEAN

\* No block on the way to b is marked as failed.
Clean(b) == ancestors[b] \cap Failed = {}

\* The active chain, and the chain that is being activated, are not marked.
Sound ==
  /\ mFailed \subseteq failedValid
  /\ tip \in linked /\ Clean(tip) /\ Chain \ {Genesis} \subseteq scripts
  /\ \A b \in scripts : verdict[b] # "badConnect"
  /\ mostWork # NoBlock => mostWork \in linked /\ Clean(mostWork)

AInv == Tree /\ Numbers /\ Control /\ Sound

(* Parents stay in the tree; ancestors of known and of linked blocks are.  *)
LEMMA TreeClosed ==
  ASSUME Tree
  PROVE  /\ \A b \in known : b \in Block /\ ancestors[b] \subseteq known
         /\ \A b \in linked : b \in Block /\ ancestors[b] \subseteq linked
<1>1. \A b \in known : ancestors[b] \subseteq known
  <2>1. known \in SUBSET Block /\ \A b \in known \ {Genesis} : Parent[b] \in known
    BY DEF Tree
  <2>. QED
    BY <2>1, ClosedUnderAncestors
<1>2. \A b \in linked : ancestors[b] \subseteq linked
  <2>1. linked \in SUBSET Block /\ \A b \in linked \ {Genesis} : Parent[b] \in linked
    BY DEF Tree
  <2>. QED
    BY <2>1, ClosedUnderAncestors
<1>. QED
  BY <1>1, <1>2 DEF Tree

(* FindMostWorkChain's candidate is a linked block.                        *)
LEMMA BestLinked ==
  ASSUME Tree, Numbers, candidates # {}
  PROVE  /\ Best \in candidates /\ \A d \in candidates : ~Worse(Best, d)
         /\ Best \in linked /\ Best \in known /\ Best \in Block
<1>1. candidates \subseteq known /\ IsFiniteSet(candidates)
  BY FS_Subset DEF Tree
<1>2. candidates \subseteq Block /\ address \in Addresses /\ nSequenceId \in [Block -> Int]
  BY <1>1 DEF Tree, Numbers
<1>. QED
  BY <1>1, <1>2, BestIn DEF Tree

(* What it marks and discards, when it cannot use the candidate, descends  *)
(* from a failed block, and is on no chain that is clean.                  *)
LEMMA DiscardedOf ==
  ASSUME Tree, Numbers, candidates # {}, Unusable(Best) # {}
  PROVE  /\ FailedAbove(Best, Unusable(Best)) \subseteq Discarded(Best, Unusable(Best))
         /\ \A y \in Discarded(Best, Unusable(Best)) : y \in known /\ y \in Block
                                                       /\ ancestors[y] \cap Failed # {}
         /\ \A x \in Block : Clean(x) => ancestors[x] \cap Discarded(Best, Unusable(Best)) = {}
<1>. DEFINE bad == Unusable(Best)
            f == TestBlock(bad)
<1>1. Best \in known /\ Best \in Block /\ ancestors[Best] \subseteq known
  BY BestLinked, TreeClosed
<1>2. bad \in SUBSET ancestors[Best] /\ bad \subseteq Failed /\ bad # {}
  BY DEF Unusable
<1>3. f \in ancestors[Best] /\ f \in Failed /\ f \in Block
  <2>. HIDE DEF bad
  <2>. QED
    BY <1>1, <1>2, TestBlockIn, AncestorsIn
<1>4. Discarded(Best, bad) = (ancestors[Best] \ ancestors[f]) \cup {f}
  BY DEF Discarded, FailedAbove
<1>5. FailedAbove(Best, bad) \subseteq Discarded(Best, bad)
  BY DEF Discarded
<1>. HIDE DEF bad, f
<1>6. \A y \in Discarded(Best, bad) : y \in known /\ y \in Block /\ f \in ancestors[y]
  BY <1>1, <1>3, <1>4, AboveAncestor, AncestorsIn
<1>7. ASSUME NEW x \in Block, Clean(x), NEW y \in ancestors[x], y \in Discarded(Best, bad)
      PROVE  FALSE
  <2>1. f \in ancestors[x]
    BY <1>6, <1>7, AncestorsBelow
  <2>. QED
    BY <1>3, <1>7, <2>1 DEF Clean
<1>. QED
  BY <1>3, <1>5, <1>6, <1>7 DEF bad

(* The blocks that a block links: they have data, and each is a child of a *)
(* linked block or of another of them.                                     *)
LEMMA UnblockedOf ==
  ASSUME Tree, NEW b \in Block, b \notin haveData, Parent[b] \in linked
  PROVE  /\ b \in Unblocked(b) /\ Unblocked(b) \subseteq haveData \cup {b}
         /\ Unblocked(b) \cap linked = {} /\ Genesis \notin Unblocked(b)
         /\ IsFiniteSet(Unblocked(b)) /\ Cardinality(Unblocked(b)) \in Nat
         /\ \A c \in Unblocked(b) : Parent[c] \in linked \cup Unblocked(b)
<1>1. /\ b \in Unblocked(b) /\ Unblocked(b) \subseteq haveData \cup {b}
      /\ Unblocked(b) \cap linked = {} /\ Genesis \notin Unblocked(b)
  BY DEF Unblocked, Tree
<1>2. IsFiniteSet(Unblocked(b)) /\ Cardinality(Unblocked(b)) \in Nat
  <2>1. IsFiniteSet(known \cup {b}) /\ Unblocked(b) \subseteq known \cup {b}
    BY <1>1, FS_AddElement DEF Tree
  <2>. QED
    BY <2>1, FS_Subset, FS_CardinalityType
<1>3. ASSUME NEW c \in unlinked, b \in ancestors[c],
             ancestors[c] \ ancestors[b] \subseteq unlinked
      PROVE  Parent[c] \in Unblocked(b)
  <2>1. c \in Block \ {Genesis} /\ c # b
    BY DEF Tree
  <2>2. Parent[c] \in Block /\ ancestors[c] = {c} \cup ancestors[Parent[c]]
    BY <2>1, AncestorsOf
  <2>3. b \in ancestors[Parent[c]] /\ Parent[c] \in ancestors[Parent[c]]
    BY <1>3, <2>1, <2>2, AncestorsIn
  <2>4. ASSUME Parent[c] # b
        PROVE  Parent[c] \notin ancestors[b]
    <3>1. Height[b] < Height[Parent[c]]
      BY <2>2, <2>3, <2>4, AncestorsBelow
    <3>2. Parent[c] \in ancestors[b] => Height[Parent[c]] < Height[b]
      BY <2>4, AncestorsBelow
    <3>3. Height[b] \in Nat /\ Height[Parent[c]] \in Nat
      BY <2>2, TreeAssumption
    <3>. QED
      BY <3>1, <3>2, <3>3
  <2>. QED
    BY <1>1, <1>3, <2>2, <2>3, <2>4 DEF Unblocked
<1>. QED
  BY <1>1, <1>2, <1>3 DEF Unblocked

(* A block whose header AcceptBlockHeader accepts joins the tree.          *)
LEMMA HeaderOnTree ==
  ASSUME Tree, NEW b \in Block, HeaderAccepted(b)
  PROVE  /\ known \cup {b} \subseteq Block /\ IsFiniteSet(known \cup {b})
         /\ \A c \in (known \cup {b}) \ {Genesis} : Parent[c] \in known \cup {b}
<1>1. IsFiniteSet(known \cup {b})
  BY FS_AddElement DEF Tree
<1>. QED
  BY <1>1 DEF Tree, HeaderAccepted

(* Every step leaves the block index a tree.                               *)
LEMMA TreeStep ==
  ASSUME AInv, Next
  PROVE  Tree'
<1>. USE DEF environment, status, blockman, sequence, activation, invalidation
<1>0. Tree /\ Numbers /\ Control /\ Sound
  BY Zenon DEF AInv
<1>1. ASSUME NEW b \in Block, RejectHeader(b)
      PROVE  Tree'
  <2>1. failedChild' \subseteq known
    <3>1. ancestors[Parent[b]] \subseteq known
      BY <1>0, <1>1, TreeClosed, Zenon DEF RejectHeader
    <3>. QED
      BY <1>0, <1>1, <3>1, Zenon DEF RejectHeader, Tree
  <2>. QED
    BY <1>0, <1>1, <2>1 DEF RejectHeader, Tree
<1>2. ASSUME NEW b \in Block, HeaderAccepted(b), known' = known \cup {b},
             failedValid' \subseteq failedValid \cup {b},
             UNCHANGED <<haveData, linked, scripts, failedChild, unlinked,
                         candidates, byWork, verdict>>
      PROVE  Tree'
  BY <1>0, <1>2, HeaderOnTree DEF Tree
<1>3. ASSUME NEW b \in Block, NEW t \in Thread, AcceptBlock(t, b)
      PROVE  Tree'
  <2>1. HeaderAccepted(b) /\ known' = known \cup {b} /\ b \notin haveData
    BY <1>3, Zenon DEF AcceptBlock, AddToBlockIndex
  <2>2. haveData' = haveData \cup {b} /\ UNCHANGED <<scripts, failedValid, failedChild, byWork, verdict>>
    BY <1>3, Zenon DEF AcceptBlock, ReceivedBlockTransactions
  <2>3. CASE Parent[b] \in linked
    <3>. DEFINE L == Unblocked(b)
    <3>1. /\ linked' = linked \cup L /\ candidates' \subseteq candidates \cup L
          /\ unlinked' = unlinked \ L
      BY <1>3, <2>3, Zenon DEF AcceptBlock, ReceivedBlockTransactions
    <3>2. /\ L \subseteq haveData \cup {b} /\ Genesis \notin L
          /\ \A c \in L : Parent[c] \in linked \cup L
      BY <1>0, <2>1, <2>3, UnblockedOf, Zenon
    <3>. HIDE DEF L
    <3>. QED
      BY <1>0, <2>1, <2>2, <3>1, <3>2, HeaderOnTree DEF Tree
  <2>4. CASE Parent[b] \notin linked
    <3>1. unlinked' \subseteq unlinked \cup {b} /\ UNCHANGED <<linked, candidates>>
      BY <1>3, <2>4, Zenon DEF AcceptBlock, ReceivedBlockTransactions, Waiting
    <3>. QED
      BY <1>0, <2>1, <2>2, <3>1, HeaderOnTree DEF Tree
  <2>. QED
    BY <2>3, <2>4
<1>4. ASSUME UNCHANGED <<known, haveData, linked, unlinked, verdict>>,
             scripts' \subseteq linked, failedValid' \subseteq known,
             failedChild' \subseteq known, candidates' \subseteq linked,
             byWork' \subseteq linked
      PROVE  Tree'
  BY <1>0, <1>4, Zenon DEF Tree
<1>5. ASSUME NEW t \in Thread, FindMostWorkChain(t)
      PROVE  Tree'
  <2>1. candidates # {} /\ Unusable(Best) # {} =>
          FailedAbove(Best, Unusable(Best)) \subseteq known
    BY <1>0, DiscardedOf, Zenon
  <2>2. failedChild' \subseteq known /\ candidates' \subseteq candidates
    BY <1>0, <1>5, <2>1, Zenon DEF FindMostWorkChain, Tree
  <2>. QED
    BY <1>0, <1>4, <1>5, <2>2, Zenon DEF FindMostWorkChain, Tree
<1>6. ASSUME NEW t \in Thread, ConnectTip(t)
      PROVE  Tree'
  <2>1. PICK b \in Block : /\ Connecting(b) /\ scripts' = scripts \cup {b}
                           /\ candidates' = NotPruned(candidates, b)
    BY <1>6, Zenon DEF ConnectTip
  <2>2. b \in linked
    BY <1>0, <2>1, TreeClosed, Zenon DEF Connecting, Sound
  <2>. QED
    BY <1>0, <1>4, <1>6, <2>1, <2>2 DEF ConnectTip, NotPruned, Tree
<1>7. ASSUME NEW t \in Thread, InvalidBlockFound(t)
      PROVE  Tree'
  <2>1. PICK b \in Block : /\ Connecting(b) /\ failedValid' = failedValid \cup {b}
                           /\ candidates' = candidates \ {b}
    BY <1>7, Zenon DEF InvalidBlockFound
  <2>2. b \in linked
    BY <1>0, <2>1, TreeClosed DEF Connecting, Sound
  <2>. QED
    BY <1>0, <1>4, <1>7, <2>1, <2>2 DEF InvalidBlockFound, Tree
<1>8. ASSUME NEW t \in Thread, NEW b \in Block, PreciousBlock(t, b)
      PROVE  Tree'
  <2>1. candidates' \subseteq candidates \cup Usable
    BY <1>8 DEF PreciousBlock
  <2>. QED
    BY <1>0, <1>4, <1>8, <2>1, Zenon DEF PreciousBlock, Usable, Tree
<1>9. ASSUME NEW t \in Thread, NEW b \in Block, ReconsiderBlock(t, b)
      PROVE  Tree'
  BY <1>0, <1>4, <1>9, Zenon DEF ReconsiderBlock, Tree
<1>10. ASSUME NEW t \in Thread, InvalidateBlock(t)
       PROVE  Tree'
  BY <1>0, <1>4, <1>10, Zenon DEF InvalidateBlock, Usable, Tree
<1>11. ASSUME NEW t \in Thread, InvalidateTip(t)
       PROVE  Tree'
  <2>1. Parent[tip] \in linked
    <3>1. pindex[t] \in Chain /\ pindex[t] # Genesis
      BY <1>0, <1>11, Zenon DEF InvalidateTip, Control, Local
    <3>2. tip # Genesis
      BY <3>1, AncestorsOf DEF Chain
    <3>. QED
      BY <1>0, <3>2 DEF Tree, Sound
  <2>. QED
    BY <1>0, <1>4, <1>11, <2>1, Zenon DEF InvalidateTip, Tree, Sound
<1>12. ASSUME NEW t \in Thread, MarkFailed(t)
       PROVE  Tree'
  <2>1. toMarkFailed \in known
    BY <1>0, <1>12, Zenon DEF MarkFailed, Control, Local
  <2>. QED
    BY <1>0, <1>4, <1>12, <2>1, Zenon DEF MarkFailed, Usable, Tree
<1>13. ASSUME Restart
       PROVE  Tree'
  <2>1. \A b \in linked : ancestors[b] \subseteq haveData
    BY <1>0, TreeClosed DEF Tree
  <2>2. \A b \in linked' : b \in ancestors[b] /\ ancestors[b] \subseteq haveData
    BY <1>0, <1>13, AncestorsIn, Zenon DEF Restart, Tree
  <2>3. \A b \in linked' \ {Genesis} : Parent[b] \in linked'
    <3>1. ASSUME NEW b \in linked' \ {Genesis}
          PROVE  Parent[b] \in linked'
      <4>1. b \in known /\ b \in Block /\ ancestors[b] \subseteq haveData
        BY <1>0, <1>13, Zenon DEF Restart, Tree
      <4>2. ancestors[Parent[b]] \subseteq haveData /\ Parent[b] \in known
        BY <1>0, <4>1, AncestorsOf, Zenon DEF Tree
      <4>. QED
        BY <1>13, <4>2, Zenon DEF Restart
    <3>. QED
      BY <3>1, Zenon
  <2>4. linked \subseteq linked'
    BY <1>0, <1>13, <2>1, Zenon DEF Restart, Tree
  <2>5. linked' \subseteq haveData /\ UNCHANGED <<known, haveData, scripts, failedValid, byWork, verdict>>
    BY <1>13, <2>2, Zenon DEF Restart
  <2>6. failedChild' \subseteq known /\ unlinked' = haveData \ linked' /\ candidates' \subseteq linked'
    BY <1>0, <1>13, Zenon DEF Restart, Tree
  <2>. QED
    BY <1>0, <2>3, <2>4, <2>5, <2>6, SMTT(30) DEF Tree
<1>14. ASSUME NEW t \in Thread,
              \/ EnterLoop(t) \/ NothingToDo(t) \/ DisconnectTip(t) \/ InvalidatedTips(t)
              \/ \E b \in Block : CallInvalidateBlock(t, b)
       PROVE  Tree'
  <2>1. UNCHANGED <<known, haveData, linked, scripts, failedValid, failedChild,
                    unlinked, candidates, byWork, verdict>>
    BY <1>14, Zenon DEF EnterLoop, NothingToDo, DisconnectTip, InvalidatedTips,
                 CallInvalidateBlock
  <2>. QED
    BY <1>0, <1>4, <2>1, ZenonT(40) DEF Tree
<1>15. ASSUME StartShutdown
       PROVE  Tree'
  BY <1>0, <1>4, <1>15, Zenon DEF StartShutdown, Tree
<1>16. ASSUME NEW b \in Block, AddHeader(b)
       PROVE  Tree'
  BY <1>2, <1>16, Zenon DEF AddHeader, AddToBlockIndex
<1>17. ASSUME NEW t \in Thread, NEW b \in Block, IgnoreBlock(t, b) \/ RefuseBlock(t, b)
       PROVE  Tree'
  BY <1>2, <1>17, Zenon DEF IgnoreBlock, RefuseBlock, AddToBlockIndex
<1>. QED
  BY <1>1, <1>3, <1>5, <1>6, <1>7, <1>8, <1>9, <1>10, <1>11, <1>12, <1>13, <1>14,
     <1>15, <1>16, <1>17, Zenon, Zenon DEF Next, Request, Step

(* Every step leaves the numbers numbers.                                  *)
LEMMA NumbersStep ==
  ASSUME AInv, Next
  PROVE  Numbers'
<1>. USE DEF environment, status, blockman, sequence, activation, invalidation
<1>0. Tree /\ Numbers /\ tip \in Block /\ Work[tip] \in Nat
  BY TreeAssumption DEF AInv, Tree, Sound
<1>1. ASSUME UNCHANGED <<address, sequence>>, commands' \in 0 .. MaxCommands
      PROVE  Numbers'
  BY <1>0, <1>1 DEF Numbers
<1>2. ASSUME NEW t \in Thread, NEW b \in Block, AcceptBlock(t, b)
      PROVE  Numbers'
  <2>1. UNCHANGED <<address, commands, nBlockReverseSequenceId, nLastPreciousChainwork>>
    BY <1>2 DEF AcceptBlock
  <2>2. CASE Parent[b] \in linked
    <3>1. PICK f \in QueueOrders(Unblocked(b)) :
            /\ nSequenceId' = [c \in Block |-> IF c \in Unblocked(b) THEN nBlockSequenceId + f[c]
                                               ELSE nSequenceId[c]]
            /\ nBlockSequenceId' = nBlockSequenceId + Cardinality(Unblocked(b))
      BY <1>2, <2>2 DEF AcceptBlock, ReceivedBlockTransactions
    <3>2. Cardinality(Unblocked(b)) \in Nat
      BY <1>0, <1>2, <2>2, UnblockedOf, Zenon DEF AcceptBlock
    <3>3. \A c \in Unblocked(b) : f[c] \in Int
      BY <3>2 DEF QueueOrders
    <3>4. nSequenceId' \in [Block -> Int]
      BY <1>0, <3>1, <3>3 DEF Numbers
    <3>5. nBlockSequenceId' \in Nat \ {0}
      BY <1>0, <3>1, <3>2 DEF Numbers
    <3>. QED
      BY <1>0, <2>1, <3>4, <3>5, Zenon DEF Numbers
  <2>3. CASE Parent[b] \notin linked
    BY <1>0, <1>1, <1>2, <2>3 DEF AcceptBlock, ReceivedBlockTransactions, Numbers
  <2>. QED
    BY <2>2, <2>3
<1>3. ASSUME NEW t \in Thread, NEW b \in Block, PreciousBlock(t, b)
      PROVE  Numbers'
  <2>. DEFINE n == IF Work[tip] > nLastPreciousChainwork THEN -1 ELSE nBlockReverseSequenceId
  <2>1. n \in Int /\ n < 0
    BY <1>0 DEF Numbers
  <2>2. /\ nSequenceId' = [nSequenceId EXCEPT ![b] = n] /\ nBlockReverseSequenceId' = n - 1
        /\ nLastPreciousChainwork' = Work[tip] /\ UNCHANGED <<address, nBlockSequenceId>>
        /\ commands < MaxCommands /\ commands' = commands + 1
    BY <1>3 DEF PreciousBlock, Call
  <2>. HIDE DEF n
  <2>3. nBlockReverseSequenceId' \in Int /\ nBlockReverseSequenceId' < 0
    BY <2>1, <2>2
  <2>4. commands' \in 0 .. MaxCommands
    BY <1>0, <2>2, TreeAssumption DEF Numbers
  <2>. QED
    BY <1>0, <2>1, <2>2, <2>3, <2>4 DEF Numbers
<1>4. ASSUME NEW t \in Thread, NEW b \in Block,
             ReconsiderBlock(t, b) \/ CallInvalidateBlock(t, b)
      PROVE  Numbers'
  <2>1. UNCHANGED <<address, sequence>> /\ commands < MaxCommands /\ commands' = commands + 1
    BY <1>4 DEF ReconsiderBlock, CallInvalidateBlock, Call
  <2>2. commands' \in 0 .. MaxCommands
    BY <1>0, <2>1, TreeAssumption DEF Numbers
  <2>. QED
    BY <1>1, <2>1, <2>2, Zenon
<1>5. ASSUME Restart
      PROVE  Numbers'
  BY <1>0, <1>5 DEF Restart, Numbers
<1>6. ASSUME NEW t \in Thread, Step(t)
      PROVE  UNCHANGED <<address, commands, sequence>>
  BY <1>6, Zenon DEF Step, EnterLoop, FindMostWorkChain, NothingToDo, DisconnectTip, ConnectTip,
              InvalidBlockFound, InvalidateBlock, InvalidateTip, InvalidatedTips, MarkFailed
<1>7. ASSUME NEW b \in Block, RejectHeader(b) \/ AddHeader(b)
      PROVE  UNCHANGED <<address, commands, sequence>>
  BY <1>7, Zenon DEF RejectHeader, AddHeader
<1>8. ASSUME NEW t \in Thread, NEW b \in Block, IgnoreBlock(t, b) \/ RefuseBlock(t, b)
      PROVE  UNCHANGED <<address, commands, sequence>>
  BY <1>8, Zenon DEF IgnoreBlock, RefuseBlock
<1>9. ASSUME StartShutdown
      PROVE  UNCHANGED <<address, commands, sequence>>
  BY <1>9 DEF StartShutdown
<1>10. ASSUME UNCHANGED <<address, commands, sequence>>
       PROVE  Numbers'
  BY <1>0, <1>10 DEF Numbers
<1>. QED
  <2>. HIDE DEF environment, status, blockman, sequence, activation, invalidation
  <2>. QED
    BY <1>2, <1>3, <1>4, <1>5, <1>6, <1>7, <1>8, <1>9, <1>10, Zenon DEF Next, Request

OwnerLabel == {"top", "find", "step", "invalidating", "marking"}

(* A thread moves on, and no thread that holds m_cs_chainstate loses what  *)
(* it relies on.                                                           *)
LEMMA ControlMove ==
  ASSUME Control, NEW t \in Thread, NEW p \in Label, pc' = [pc EXCEPT ![t] = p],
         linked \subseteq linked', known \subseteq known',
         p \in OwnerLabel => Owners \subseteq {t},
         \/ Owners \subseteq {t}
         \/ UNCHANGED <<mostWork, startingTip, oldTip, toMarkFailed>>,
         mostWork' # NoBlock => \/ p \in {"top", "step"}
                                \/ mostWork' = mostWork /\ pc[t] \notin {"top", "step"},
         Local(t)',
         pindex' \in [Thread -> Block \cup {NoBlock}],
         \A u \in Thread \ {t} : pindex'[u] = pindex[u],
         {mostWork', startingTip', oldTip', toMarkFailed'} \subseteq known' \cup {NoBlock},
         connected' \in BOOLEAN, shutdown' \in BOOLEAN
  PROVE  Control'
<1>1. pc' \in [Thread -> Label] /\ pc'[t] = p /\ \A u \in Thread \ {t} : pc'[u] = pc[u]
  BY DEF Control
<1>2. \A u, v \in Owners' : u = v
  <2>1. Owners' \subseteq Owners \cup {t} /\ (p \notin OwnerLabel => Owners' \subseteq Owners)
    BY <1>1 DEF Owners, OwnerLabel
  <2>. QED
    BY <2>1 DEF Control
<1>3. mostWork' # NoBlock => \E u \in Thread : pc'[u] \in {"top", "step"}
  BY <1>1, Zenon DEF Control
<1>4. ASSUME NEW u \in Thread \ {t}
      PROVE  Local(u)'
  <2>1. pc'[u] = pc[u] /\ pindex'[u] = pindex[u] /\ Local(u)
    BY <1>1, Zenon DEF Control
  <2>2. CASE Owners \subseteq {t}
    <3>1. pc[u] \notin OwnerLabel
      BY <2>2, Zenon DEF Owners, OwnerLabel
    <3>. QED
      BY <2>1, <3>1, Zenon DEF Local, OwnerLabel
  <2>3. CASE UNCHANGED <<mostWork, startingTip, oldTip, toMarkFailed>>
    BY <2>1, <2>3 DEF Local
  <2>. QED
    BY <2>2, <2>3
<1>. QED
  BY <1>1, <1>2, <1>3, <1>4 DEF Control

(* A step that moves no thread and changes no local.                       *)
LEMMA ControlStay ==
  ASSUME Control, UNCHANGED <<pc, pindex, mostWork, startingTip, oldTip>>,
         linked \subseteq linked', known \subseteq known',
         \/ UNCHANGED toMarkFailed
         \/ toMarkFailed' \in known' \ {Genesis},
         connected' \in BOOLEAN, shutdown' \in BOOLEAN
  PROVE  Control'
<1>1. ASSUME NEW t \in Thread
      PROVE  Local(t)'
  BY DEF Control, Local
<1>. QED
  BY <1>1 DEF Control, Owners

(* Where ActivateBestChain goes after a step, and with which locals.       *)
LEMMA EndStepMove ==
  ASSUME NEW t, NEW newTip, NEW most, EndStep(t, newTip, most) \/ EndSection(t, newTip, most)
  PROVE  \E p \in {"idle", "top", "find", "step"} :
           /\ pc' = [pc EXCEPT ![t] = p]
           /\ mostWork' \in {most, NoBlock}
           /\ mostWork' # NoBlock => p \in {"top", "step"}
           /\ p = "find" => mostWork' = NoBlock
           /\ p \in {"find", "step"} => startingTip' = startingTip /\ oldTip' = newTip
           /\ startingTip' \in {startingTip, NoBlock} /\ oldTip' \in {newTip, NoBlock}
           /\ connected' \in BOOLEAN
<1>1. CASE EndSection(t, newTip, most)
  <2>1. CASE newTip = most \/ shutdown
    <3>1. pc' = [pc EXCEPT ![t] = "idle"] /\ LeaveActivation
      BY <1>1, <2>1 DEF EndSection
    <3>. QED
      BY <3>1, Zenon DEF LeaveActivation
  <2>2. CASE ~(newTip = most \/ shutdown)
    <3>1. /\ pc' = [pc EXCEPT ![t] = "top"] /\ mostWork' = most
          /\ startingTip' = NoBlock /\ oldTip' = NoBlock /\ connected' = FALSE
      BY <1>1, <2>2 DEF EndSection
    <3>. QED
      BY <3>1, Zenon
  <2>. QED
    BY <2>1, <2>2
<1>2. CASE EndStep(t, newTip, most) /\ Worse(newTip, startingTip)
  <2>1. /\ pc' = [pc EXCEPT ![t] = IF most = NoBlock THEN "find" ELSE "step"]
        /\ mostWork' = most /\ oldTip' = newTip /\ connected' = TRUE
        /\ startingTip' = startingTip
    BY <1>2 DEF EndStep
  <2>2. CASE most = NoBlock
    BY <2>1, <2>2
  <2>3. CASE most # NoBlock
    BY <2>1, <2>3
  <2>. QED
    BY <2>2, <2>3
<1>. QED
  BY <1>1, <1>2, Zenon DEF EndStep

(* Blocks are never forgotten, and stay linked.                            *)
LEMMA Grows ==
  ASSUME AInv, Next
  PROVE  known \subseteq known' /\ haveData \subseteq haveData' /\ linked \subseteq linked'
<1>. USE DEF environment, status, blockman
<1>1. ASSUME NEW t \in Thread, Step(t)
      PROVE  UNCHANGED <<known, haveData, linked>>
  BY <1>1, Zenon DEF Step, EnterLoop, FindMostWorkChain, NothingToDo, DisconnectTip, ConnectTip,
              InvalidBlockFound, InvalidateBlock, InvalidateTip, InvalidatedTips, MarkFailed
<1>2. ASSUME NEW b \in Block, RejectHeader(b) \/ AddHeader(b)
      PROVE  known \subseteq known' /\ UNCHANGED <<haveData, linked>>
  BY <1>2, Zenon DEF RejectHeader, AddHeader, AddToBlockIndex
<1>3. ASSUME NEW t \in Thread, NEW b \in Block, Request(t, b)
      PROVE  known \subseteq known' /\ haveData \subseteq haveData' /\ linked \subseteq linked'
  <2>1. CASE AcceptBlock(t, b)
    <3>1. known \subseteq known' /\ haveData \subseteq haveData'
      BY <2>1, Zenon DEF AcceptBlock, AddToBlockIndex, ReceivedBlockTransactions
    <3>2. Parent[b] \in linked => linked \subseteq linked'
      BY <2>1, Zenon DEF AcceptBlock, ReceivedBlockTransactions
    <3>3. Parent[b] \notin linked => linked \subseteq linked'
      BY <2>1 DEF AcceptBlock, ReceivedBlockTransactions
    <3>. QED
      BY <3>1, <3>2, <3>3, Zenon
  <2>2. CASE IgnoreBlock(t, b) \/ RefuseBlock(t, b)
    BY <2>2, Zenon DEF IgnoreBlock, RefuseBlock, AddToBlockIndex
  <2>3. CASE PreciousBlock(t, b) \/ ReconsiderBlock(t, b) \/ CallInvalidateBlock(t, b)
    BY <2>3, Zenon DEF PreciousBlock, ReconsiderBlock, CallInvalidateBlock
  <2>. QED
    BY <1>3, <2>1, <2>2, <2>3 DEF Request
<1>4. ASSUME StartShutdown
      PROVE  UNCHANGED <<known, haveData, linked>>
  BY <1>4 DEF StartShutdown
<1>5. ASSUME Restart
      PROVE  UNCHANGED <<known, haveData>> /\ linked \subseteq linked'
  <2>1. \A b \in linked : b \in known /\ ancestors[b] \subseteq haveData
    BY TreeClosed DEF AInv, Tree
  <2>. QED
    BY <1>5, <2>1, Zenon DEF Restart
<1>. QED
  <2>. HIDE DEF environment, status, blockman
  <2>. QED
    BY <1>1, <1>2, <1>3, <1>4, <1>5 DEF Next

(* Every step leaves the threads in order.                                 *)
LEMMA ControlStep ==
  ASSUME AInv, Next
  PROVE  Control'
<1>. USE DEF environment, status, blockman, sequence, activation, invalidation
<1>0. Tree /\ Control /\ Sound /\ known \subseteq known' /\ linked \subseteq linked' /\ linked \subseteq known
  BY Grows DEF AInv, Tree
<1>a. /\ connected \in BOOLEAN /\ shutdown \in BOOLEAN /\ pindex \in [Thread -> Block \cup {NoBlock}]
      /\ {mostWork, startingTip, oldTip, toMarkFailed} \subseteq known' \cup {NoBlock}
  BY <1>0 DEF Control
<1>b. ASSUME NEW t \in Thread, pc[t] \in OwnerLabel
      PROVE  Owners \subseteq {t} /\ Local(t)
  BY <1>0, <1>b DEF Control, Owners, OwnerLabel
<1>1. ASSUME NEW b \in Block, RejectHeader(b) \/ AddHeader(b)
      PROVE  Control'
  BY <1>0, <1>1, <1>a, ControlStay, Zenon DEF RejectHeader, AddHeader
<1>2. ASSUME NEW t \in Thread, NEW b \in Block, RefuseBlock(t, b)
      PROVE  Control'
  BY <1>0, <1>2, <1>a, ControlStay, Zenon DEF RefuseBlock
<1>3. ASSUME StartShutdown
      PROVE  Control'
  BY <1>0, <1>3, <1>a, ControlStay, Zenon DEF StartShutdown
<1>4. ASSUME NEW t \in Thread, DisconnectTip(t)
      PROVE  Control'
  BY <1>0, <1>4, <1>a, ControlStay, Zenon DEF DisconnectTip
<1>5. ASSUME NEW t \in Thread, InvalidateTip(t)
      PROVE  Control'
  <2>1. tip \in known' \ {Genesis}
    <3>1. pindex[t] \in Chain /\ pindex[t] # Genesis
      BY <1>5, <1>b DEF InvalidateTip, Local, OwnerLabel
    <3>. QED
      BY <1>0, <3>1, AncestorsOf, Zenon DEF Chain, Sound
  <2>. QED
    BY <1>0, <1>5, <1>a, <2>1, ControlStay, Zenon DEF InvalidateTip
<1>6. ASSUME NEW t \in Thread, pc[t] = "idle", NEW p \in {"activate", "invalidate"},
             pc' = [pc EXCEPT ![t] = p],
             UNCHANGED <<mostWork, startingTip, oldTip, connected, toMarkFailed, shutdown>>,
             pindex' \in [Thread -> Block \cup {NoBlock}],
             \A u \in Thread \ {t} : pindex'[u] = pindex[u],
             p = "invalidate" => pindex'[t] \in known \ {Genesis}
      PROVE  Control'
  <2>1. pc'[t] = p
    BY <1>0, <1>6 DEF Control
  <2>2. Local(t)'
    BY <1>0, <1>6, <2>1 DEF Local
  <2>3. p \in Label /\ p \notin OwnerLabel
    BY <1>6 DEF Label, OwnerLabel
  <2>. QED
    BY <1>0, <1>a, <1>6, <2>2, <2>3, ControlMove, Zenon
<1>7. ASSUME NEW t \in Thread, NEW b \in Block,
             \/ IgnoreBlock(t, b) \/ AcceptBlock(t, b) \/ PreciousBlock(t, b)
             \/ ReconsiderBlock(t, b)
      PROVE  Control'
  <2>1. /\ pc[t] = "idle" /\ pc' = [pc EXCEPT ![t] = "activate"]
        /\ UNCHANGED <<mostWork, startingTip, oldTip, connected, toMarkFailed, shutdown, pindex>>
    BY <1>7, Zenon DEF IgnoreBlock, AcceptBlock, PreciousBlock, ReconsiderBlock, Call
  <2>. QED
    BY <1>6, <1>a, <2>1, Zenon
<1>8. ASSUME NEW t \in Thread, NEW b \in Block, CallInvalidateBlock(t, b)
      PROVE  Control'
  <2>1. /\ pc[t] = "idle" /\ pc' = [pc EXCEPT ![t] = "invalidate"]
        /\ UNCHANGED <<mostWork, startingTip, oldTip, connected, toMarkFailed, shutdown>>
        /\ b \in known \ {Genesis} /\ pindex' = [pindex EXCEPT ![t] = b]
    BY <1>8 DEF CallInvalidateBlock, Call
  <2>. QED
    BY <1>6, <1>a, <2>1, Zenon
<1>9. ASSUME Restart
      PROVE  Control'
  <2>1. PICK t \in Thread : pc' = [pc EXCEPT ![t] = "activate"]
    BY <1>9, Zenon DEF Restart
  <2>2. /\ pc[t] = "idle" /\ UNCHANGED <<mostWork, startingTip, oldTip, connected, toMarkFailed, pindex>>
        /\ shutdown' \in BOOLEAN
    BY <1>9, Zenon DEF Restart
  <2>3. Local(t)' /\ "activate" \in Label /\ "activate" \notin OwnerLabel
    BY <1>0, <2>1, <2>2 DEF Local, Label, OwnerLabel, Control
  <2>. QED
    BY <1>0, <1>a, <2>1, <2>2, <2>3, ControlMove, Zenon
<1>10. ASSUME NEW t \in Thread, EnterLoop(t)
       PROVE  Control'
  <2>1. Owners \subseteq {t}
    BY <1>10, <1>b, Zenon DEF EnterLoop, ChainstateFree, OwnerLabel
  <2>. DEFINE p == IF mostWork = NoBlock THEN "find" ELSE "step"
  <2>2. /\ pc' = [pc EXCEPT ![t] = p] /\ startingTip' = tip /\ oldTip' = tip /\ connected' = FALSE
        /\ UNCHANGED <<mostWork, pindex, toMarkFailed, shutdown>>
    BY <1>10 DEF EnterLoop
  <2>3. p \in Label /\ p \in {"find", "step"} /\ (p = "find" => mostWork = NoBlock)
        /\ (mostWork # NoBlock => p \in {"top", "step"})
    BY DEF Label
  <2>. HIDE DEF p
  <2>4. pc'[t] = p /\ tip \in linked' /\ tip \in known'
    BY <1>0, <2>2, ZenonT(40) DEF Control, Sound
  <2>5. Local(t)'
    BY <2>2, <2>3, <2>4 DEF Local
  <2>. QED
    BY <1>0, <1>a, <2>1, <2>2, <2>3, <2>4, <2>5, ControlMove, Zenon
<1>11. ASSUME NEW t \in Thread, FindMostWorkChain(t)
       PROVE  Control'
  <2>1. pc[t] = "find" /\ Owners \subseteq {t} /\ Local(t)
    BY <1>11, <1>b DEF FindMostWorkChain, OwnerLabel
  <2>2. UNCHANGED <<startingTip, oldTip, connected, pindex, toMarkFailed, shutdown, known, linked>>
    BY <1>11 DEF FindMostWorkChain
  <2>3. CASE candidates # {} /\ Unusable(Best) # {}
    <3>1. UNCHANGED <<mostWork, pc>>
      BY <1>11, <2>3 DEF FindMostWorkChain
    <3>. QED
      BY <1>0, <1>a, <2>2, <3>1, ControlStay, Zenon
  <2>4. CASE candidates = {} \/ Unusable(Best) = {}
    <3>1. pc' = [pc EXCEPT ![t] = "step"]
      BY <1>11, <2>4 DEF FindMostWorkChain
    <3>2. mostWork' \in known \cup {NoBlock}
      <4>1. CASE candidates = {}
        BY <1>0, <1>11, <4>1 DEF FindMostWorkChain, Control
      <4>2. CASE candidates # {}
        <5>1. mostWork' = Best
          BY <1>11, <2>4, <4>2 DEF FindMostWorkChain
        <5>. QED
          BY <4>2, <5>1, BestLinked, Zenon DEF AInv
      <4>. QED
        BY <4>1, <4>2, Zenon
    <3>3. pc'[t] = "step"
      BY <1>0, <3>1, Zenon DEF Control
    <3>4. Local(t)' /\ "step" \in Label
      BY <2>1, <2>2, <3>3 DEF Local, Label
    <3>. QED
      BY <1>0, <1>a, <2>1, <2>2, <3>1, <3>2, <3>4, ControlMove, Zenon
  <2>. QED
    BY <2>3, <2>4, Zenon
<1>12. ASSUME NEW t \in Thread, pc[t] = "step", NEW newTip \in linked, NEW most \in {mostWork, NoBlock},
              EndStep(t, newTip, most) \/ EndSection(t, newTip, most),
              UNCHANGED <<pindex, toMarkFailed, shutdown>>
       PROVE  Control'
  <2>1. Owners \subseteq {t} /\ startingTip \in linked
    BY <1>12, <1>b DEF OwnerLabel, Local
  <2>2. PICK p \in {"idle", "top", "find", "step"} :
           /\ pc' = [pc EXCEPT ![t] = p]
           /\ mostWork' \in {most, NoBlock}
           /\ mostWork' # NoBlock => p \in {"top", "step"}
           /\ p = "find" => mostWork' = NoBlock
           /\ p \in {"find", "step"} => startingTip' = startingTip /\ oldTip' = newTip
           /\ startingTip' \in {startingTip, NoBlock} /\ oldTip' \in {newTip, NoBlock}
           /\ connected' \in BOOLEAN
    BY <1>12, EndStepMove, Zenon
  <2>3. p \in Label /\ pc'[t] = p
    BY <1>0, <2>2, Zenon DEF Label, Control
  <2>4. Local(t)'
    BY <1>0, <2>1, <2>2, <2>3 DEF Local
  <2>5. {mostWork', startingTip', oldTip', toMarkFailed'} \subseteq known' \cup {NoBlock}
    BY <1>0, <1>a, <1>12, <2>2
  <2>. QED
    BY <1>0, <1>a, <1>12, <2>1, <2>2, <2>3, <2>4, <2>5, ControlMove, ZenonT(40)
<1>13. ASSUME NEW t \in Thread, pc[t] = "step", pc' = [pc EXCEPT ![t] = "idle"], LeaveActivation,
              UNCHANGED <<pindex, toMarkFailed, shutdown>>
       PROVE  Control'
  <2>1. Owners \subseteq {t} /\ "idle" \in Label /\ pc'[t] = "idle" /\ "idle" \notin OwnerLabel
    BY <1>0, <1>13, <1>b, Zenon DEF OwnerLabel, Label, Control
  <2>2. Local(t)'
    BY <2>1 DEF Local
  <2>. QED
    BY <1>0, <1>a, <1>13, <2>1, <2>2, ControlMove, Zenon DEF LeaveActivation
<1>14. ASSUME NEW t \in Thread, NothingToDo(t)
       PROVE  Control'
  <2>1. pc[t] = "step" /\ tip \in linked /\ UNCHANGED <<pindex, toMarkFailed, shutdown>>
    BY <1>0, <1>14 DEF NothingToDo, Sound
  <2>2. \/ EndSection(t, tip, mostWork)
        \/ pc' = [pc EXCEPT ![t] = "idle"] /\ LeaveActivation
    BY <1>14 DEF NothingToDo
  <2>. QED
    BY <1>12, <1>13, <2>1, <2>2
<1>15. ASSUME NEW t \in Thread, ConnectTip(t)
       PROVE  Control'
  <2>1. pc[t] = "step" /\ UNCHANGED <<pindex, toMarkFailed, shutdown>>
    BY <1>15 DEF ConnectTip
  <2>2. PICK b \in Block : /\ Connecting(b)
                           /\ \/ EndStep(t, b, mostWork)
                              \/ connected' = TRUE /\ UNCHANGED <<pc, mostWork, startingTip, oldTip>>
    BY <1>15, Zenon DEF ConnectTip
  <2>3. b \in linked
    BY <1>0, <2>2, TreeClosed, Zenon DEF Connecting, Sound
  <2>4. CASE connected' = TRUE /\ UNCHANGED <<pc, mostWork, startingTip, oldTip>>
    BY <1>0, <1>a, <2>1, <2>4, ControlStay
  <2>. QED
    BY <1>12, <2>1, <2>2, <2>3, <2>4, Zenon
<1>16. ASSUME NEW t \in Thread, InvalidBlockFound(t)
       PROVE  Control'
  <2>1. /\ pc[t] = "step" /\ tip \in linked /\ EndStep(t, tip, NoBlock)
        /\ UNCHANGED <<pindex, toMarkFailed, shutdown>>
    BY <1>0, <1>16 DEF InvalidBlockFound, Sound
  <2>. QED
    BY <1>12, <2>1, Zenon
<1>17. ASSUME NEW t \in Thread, InvalidateBlock(t)
       PROVE  Control'
  <2>1. Owners \subseteq {t} /\ pindex[t] \in known \ {Genesis}
    BY <1>0, <1>17, ZenonT(40) DEF InvalidateBlock, ChainstateFree, Control, Local
  <2>2. /\ pc' = [pc EXCEPT ![t] = "invalidating"] /\ pc[t] = "invalidate" /\ toMarkFailed' = pindex[t]
        /\ UNCHANGED <<mostWork, startingTip, oldTip, connected, pindex, shutdown>>
    BY <1>17, Zenon DEF InvalidateBlock
  <2>3. pc'[t] = "invalidating" /\ "invalidating" \in Label
    BY <1>0, <2>2 DEF Control, Label
  <2>4. Local(t)'
    BY <1>0, <2>1, <2>2, <2>3 DEF Local
  <2>. QED
    BY <1>0, <1>a, <2>1, <2>2, <2>3, <2>4, ControlMove, Zenon
<1>18. ASSUME NEW t \in Thread, InvalidatedTips(t)
       PROVE  Control'
  <2>1. Owners \subseteq {t} /\ Local(t)
    BY <1>18, <1>b DEF InvalidatedTips, OwnerLabel
  <2>2. /\ pc' = [pc EXCEPT ![t] = "marking"] /\ pc[t] = "invalidating"
        /\ UNCHANGED <<mostWork, startingTip, oldTip, connected, pindex, toMarkFailed, shutdown>>
    BY <1>18 DEF InvalidatedTips
  <2>3. pc'[t] = "marking" /\ "marking" \in Label
    BY <1>0, <2>2, Zenon DEF Control, Label
  <2>4. Local(t)'
    BY <1>0, <2>1, <2>2, <2>3 DEF Local
  <2>. QED
    BY <1>0, <1>a, <2>1, <2>2, <2>3, <2>4, ControlMove, Zenon
<1>19. ASSUME NEW t \in Thread, MarkFailed(t)
       PROVE  Control'
  <2>1. Owners \subseteq {t}
    BY <1>19, <1>b, Zenon DEF MarkFailed, OwnerLabel
  <2>2. /\ pc' = [pc EXCEPT ![t] = "activate"] /\ pc[t] = "marking" /\ toMarkFailed' = NoBlock
        /\ pindex' = [pindex EXCEPT ![t] = NoBlock]
        /\ UNCHANGED <<mostWork, startingTip, oldTip, connected, shutdown>>
    BY <1>19, Zenon DEF MarkFailed
  <2>3. pc'[t] = "activate" /\ "activate" \in Label /\ "activate" \notin OwnerLabel
    BY <1>0, <2>2, Zenon DEF Control, Label, OwnerLabel
  <2>4. Local(t)'
    BY <2>3, Zenon DEF Local
  <2>. QED
    BY <1>0, <1>a, <2>1, <2>2, <2>3, <2>4, ControlMove, Zenon
<1>. QED
  BY <1>1, <1>2, <1>3, <1>4, <1>5, <1>7, <1>8, <1>9, <1>10, <1>11, <1>14, <1>15, <1>16,
     <1>17, <1>18, <1>19, Zenon, Zenon DEF Next, Request, Step

(* Marking the blocks above a failed one marks no chain that is clean.     *)
LEMMA MarkAbove ==
  ASSUME NEW p \in Block, NEW f \in ancestors[p], f \in Failed,
         NEW x \in Block, Clean(x)
  PROVE  ancestors[x] \cap (ancestors[p] \ ancestors[f]) = {}
<1>1. SUFFICES ASSUME NEW y \in ancestors[x], y \in ancestors[p] \ ancestors[f]
               PROVE  FALSE
  BY Zenon
<1>2. f \in ancestors[y]
  BY <1>1, AboveAncestor
<1>3. f \in ancestors[x]
  BY <1>1, <1>2, AncestorsBelow
<1>. QED
  BY <1>3 DEF Clean

(* The locals of ActivateBestChain are unused while InvalidateBlock runs.  *)
LEMMA NoTarget ==
  ASSUME Control, NEW t \in Thread, pc[t] \in {"find", "invalidating", "marking"}
  PROVE  mostWork = NoBlock
<1>1. ASSUME NEW u \in Thread, pc[u] \in {"top", "step"}
      PROVE  FALSE
  <2>1. t \in Owners /\ u \in Owners
    BY <1>1 DEF Owners
  <2>2. t = u
    BY <2>1, Zenon DEF Control
  <2>. QED
    BY <1>1, <2>2
<1>. QED
  BY <1>1 DEF Control

(* InvalidateBlock never meets a failed block below the tip: no mark of    *)
(* BLOCK_FAILED_VALID becomes one of BLOCK_FAILED_CHILD.                   *)
LEMMA TipMarked ==
  ASSUME AInv, NEW t \in Thread, InvalidateTip(t)
  PROVE  /\ failedValid' = failedValid \cup {tip} /\ failedChild' = failedChild
         /\ tip' = Parent[tip] /\ tip \in linked \ {Genesis} /\ tip \in Block
         /\ Parent[tip] \in linked /\ Parent[tip] \in Block
         /\ ancestors[tip] = {tip} \cup ancestors[Parent[tip]]
         /\ tip \notin ancestors[Parent[tip]]
<1>0. Tree /\ Control /\ Sound
  BY DEF AInv
<1>1. pindex[t] \in Chain /\ pindex[t] # Genesis
  BY <1>0, Zenon DEF InvalidateTip, Control, Local
<1>2. tip # Genesis /\ tip \in linked /\ tip \in Block
  BY <1>0, <1>1, AncestorsOf, Zenon DEF Chain, Sound, Tree
<1>3. /\ Parent[tip] \in linked /\ Parent[tip] \in Block
      /\ ancestors[tip] = {tip} \cup ancestors[Parent[tip]]
  BY <1>0, <1>2, AncestorsOf, Zenon DEF Tree
<1>4. Parent[tip] \notin failedValid
  BY <1>0, <1>3, AncestorsIn, Zenon DEF Sound, Clean, Failed
<1>5. tip \notin ancestors[Parent[tip]]
  <2>1. Height[tip] = Height[Parent[tip]] + 1 /\ Height[Parent[tip]] \in Nat
    BY <1>2, <1>3, TreeAssumption
  <2>2. tip \in ancestors[Parent[tip]] /\ tip # Parent[tip] => Height[tip] < Height[Parent[tip]]
    BY <1>3, AncestorsBelow, Zenon
  <2>. QED
    BY <2>1, <2>2
<1>. QED
  BY <1>2, <1>3, <1>4, <1>5 DEF InvalidateTip

(* Every step leaves the active chain sound.                               *)
LEMMA SoundStep ==
  ASSUME AInv, Next
  PROVE  Sound'
<1>. USE DEF environment, status, blockman, sequence, activation, invalidation
<1>0. Tree /\ Numbers /\ Control /\ Sound /\ linked \subseteq linked'
  BY Grows, Zenon DEF AInv
<1>a. tip \in Block /\ Clean(tip) /\ tip \in linked /\ ancestors[tip] \subseteq linked
  BY <1>0, TreeClosed, Zenon DEF Sound
<1>b. mostWork # NoBlock => /\ mostWork \in Block /\ Clean(mostWork) /\ mostWork \in linked
                            /\ ancestors[mostWork] \subseteq linked
  BY <1>0, TreeClosed, Zenon DEF Sound
\* Marks on blocks that are on neither chain.
<1>1. ASSUME NEW M, Failed' \subseteq Failed \cup M, ancestors[tip] \cap M = {},
             mostWork # NoBlock => ancestors[mostWork] \cap M = {},
             mFailed' \subseteq failedValid',
             UNCHANGED <<tip, scripts, verdict, mostWork>>
      PROVE  Sound'
  BY <1>0, <1>1, Zenon DEF Sound, Clean, Chain
<1>2. ASSUME NEW b \in Block, RejectHeader(b)
      PROVE  Sound'
  <2>1. PICK f \in FailedBelow(Parent[b]) :
          failedChild' = failedChild \cup (ancestors[Parent[b]] \ ancestors[f])
    BY <1>2, Zenon DEF RejectHeader
  <2>2. Parent[b] \in Block /\ f \in ancestors[Parent[b]] /\ f \in Failed
    BY <1>0, <1>2, <2>1, ZenonT(40) DEF RejectHeader, FailedBelow, Sound, Failed, Tree
  <2>. DEFINE M == ancestors[Parent[b]] \ ancestors[f]
  <2>3. ancestors[tip] \cap M = {} /\ (mostWork # NoBlock => ancestors[mostWork] \cap M = {})
    BY <1>a, <1>b, <2>2, MarkAbove, Zenon
  <2>4. /\ Failed' \subseteq Failed \cup M /\ mFailed' \subseteq failedValid'
        /\ UNCHANGED <<tip, scripts, verdict, mostWork>>
    BY <1>0, <1>2, <2>1, Zenon DEF RejectHeader, Failed, Sound
  <2>. HIDE DEF M
  <2>. QED
    BY <1>1, <2>3, <2>4, ZenonT(40)
<1>3. ASSUME NEW t \in Thread, NEW b \in Block, RefuseBlock(t, b)
      PROVE  Sound'
  <2>1. b \notin linked
    BY <1>0, <1>3, Zenon DEF RefuseBlock, Tree
  <2>2. ancestors[tip] \cap {b} = {} /\ (mostWork # NoBlock => ancestors[mostWork] \cap {b} = {})
    BY <1>a, <1>b, <2>1, Zenon
  <2>3. /\ Failed' \subseteq Failed \cup {b} /\ mFailed' \subseteq failedValid'
        /\ UNCHANGED <<tip, scripts, verdict, mostWork>>
    BY <1>0, <1>3, Zenon DEF RefuseBlock, Failed, Sound
  <2>. QED
    BY <1>1, <2>2, <2>3, Zenon
<1>4. ASSUME UNCHANGED <<failedValid, failedChild, mFailed, tip, scripts, verdict, mostWork>>
      PROVE  Sound'
  BY <1>0, <1>4 DEF Sound, Clean, Chain, Failed
<1>5. ASSUME NEW t \in Thread, FindMostWorkChain(t)
      PROVE  Sound'
  <2>1. CASE candidates = {}
    BY <1>4, <1>5, <2>1, Zenon DEF FindMostWorkChain
  <2>2. CASE candidates # {} /\ Unusable(Best) = {}
    <3>1. /\ mostWork' = Best
          /\ UNCHANGED <<failedValid, failedChild, mFailed, tip, scripts, verdict>>
      BY <1>5, <2>2 DEF FindMostWorkChain
    <3>2. Best \in linked
      BY <1>0, <2>2, BestLinked
    <3>3. Clean(Best)
      BY <1>a, <2>2, Zenon DEF Unusable, Clean, Chain
    <3>. QED
      BY <1>0, <3>1, <3>2, <3>3, Zenon DEF Sound, Clean, Chain, Failed
  <2>3. CASE candidates # {} /\ Unusable(Best) # {}
    <3>. DEFINE M == FailedAbove(Best, Unusable(Best))
    <3>1. /\ failedChild' = failedChild \cup M
          /\ UNCHANGED <<failedValid, mFailed, tip, scripts, verdict, mostWork>>
      BY <1>5, <2>3, Zenon DEF FindMostWorkChain
    <3>2. mostWork = NoBlock
      BY <1>0, <1>5, NoTarget DEF FindMostWorkChain
    <3>3. ancestors[tip] \cap M = {}
      BY <1>0, <1>a, <2>3, DiscardedOf, Zenon
    <3>. HIDE DEF M
    <3>4. Failed' \subseteq Failed \cup M /\ mFailed' \subseteq failedValid'
      BY <1>0, <3>1 DEF Failed, Sound
    <3>. QED
      BY <1>1, <3>1, <3>2, <3>3, <3>4, Zenon
  <2>. QED
    BY <2>1, <2>2, <2>3, Zenon
<1>6. ASSUME NEW t \in Thread, DisconnectTip(t)
      PROVE  Sound'
  <2>1. tip # Genesis
    BY <1>b, <1>6, AncestorsIn, Zenon DEF DisconnectTip
  <2>2. ancestors[tip] = {tip} \cup ancestors[Parent[tip]] /\ Parent[tip] \in linked
    BY <1>0, <1>a, <2>1, AncestorsOf DEF Tree
  <2>. QED
    BY <1>0, <1>6, <2>2, Zenon DEF DisconnectTip, Sound, Clean, Chain, Failed
<1>7. ASSUME NEW t, NEW x, NEW y, EndStep(t, x, y) \/ EndSection(t, x, y)
      PROVE  mostWork' \in {y, NoBlock}
  <2>1. PICK p \in {"idle", "top", "find", "step"} : mostWork' \in {y, NoBlock}
    BY <1>7, EndStepMove
  <2>. QED
    BY <2>1
<1>8. ASSUME NEW t \in Thread, ConnectTip(t)
      PROVE  Sound'
  <2>1. PICK b \in Block : /\ Connecting(b) /\ verdict[b] # "badConnect" /\ tip' = b
                           /\ scripts' = scripts \cup {b}
                           /\ EndStep(t, b, mostWork) \/ UNCHANGED mostWork
    BY <1>8, Zenon DEF ConnectTip
  <2>2. mostWork # NoBlock /\ b \in ancestors[mostWork] /\ Parent[b] = tip
    BY <2>1, Zenon DEF Connecting
  <2>3. b \in linked /\ ancestors[b] \subseteq ancestors[mostWork]
    BY <1>b, <2>2, AncestorsBelow, Zenon
  <2>4. b # Genesis
    BY <1>a, <2>2, TreeAssumption
  <2>5. ancestors[b] = {b} \cup ancestors[tip]
    BY <2>2, <2>4, AncestorsOf
  <2>6. mostWork' \in {mostWork, NoBlock}
    BY <1>7, <2>1
  <2>7. UNCHANGED <<failedValid, failedChild, mFailed, verdict, linked>>
    BY <1>8, Zenon DEF ConnectTip
  <2>. QED
    BY <1>0, <1>b, <2>1, <2>2, <2>3, <2>5, <2>6, <2>7, Zenon DEF Sound, Clean, Chain, Failed
<1>9. ASSUME NEW t \in Thread, InvalidBlockFound(t)
      PROVE  Sound'
  <2>1. PICK b \in Block : /\ Connecting(b) /\ failedValid' = failedValid \cup {b}
                           /\ mFailed' = mFailed \cup {b}
    BY <1>9, Zenon DEF InvalidBlockFound
  <2>2. mostWork' = NoBlock /\ UNCHANGED <<failedChild, tip, scripts, verdict, linked>>
    BY <1>7, <1>9, Zenon DEF InvalidBlockFound
  <2>3. b \notin ancestors[tip]
    <3>1. Parent[b] = tip /\ b # Genesis
      BY <1>a, <2>1, TreeAssumption, Zenon DEF Connecting
    <3>2. Height[b] = Height[tip] + 1 /\ Height[tip] \in Nat
      BY <1>a, <3>1, TreeAssumption, Zenon
    <3>3. b \in ancestors[tip] /\ b # tip => Height[b] < Height[tip]
      BY <1>a, AncestorsBelow, Zenon
    <3>. QED
      BY <3>2, <3>3
  <2>. QED
    BY <1>0, <2>1, <2>2, <2>3, Zenon DEF Sound, Clean, Chain, Failed
<1>10. ASSUME NEW t \in Thread, NEW b \in Block, ReconsiderBlock(t, b)
       PROVE  Sound'
  <2>. DEFINE reset == ({c \in known : b \in ancestors[c]} \cup ancestors[b]) \cap Failed
  <2>1. /\ failedValid' = failedValid \ reset /\ failedChild' = failedChild \ reset
        /\ mFailed' = mFailed \ NotFailedAnyMore(b, reset)
        /\ UNCHANGED <<tip, scripts, verdict, mostWork>>
    BY <1>10, Zenon DEF ReconsiderBlock
  <2>2. reset \subseteq NotFailedAnyMore(b, reset)
    BY DEF NotFailedAnyMore
  <2>. HIDE DEF reset
  <2>3. Failed' \subseteq Failed /\ mFailed' \subseteq failedValid'
    BY <1>0, <2>1, <2>2, Zenon DEF Sound, Failed
  <2>. QED
    BY <1>0, <2>1, <2>3 DEF Sound, Clean, Chain
<1>11. ASSUME NEW t \in Thread, InvalidateTip(t)
       PROVE  Sound'
  <2>1. mostWork = NoBlock /\ UNCHANGED <<mFailed, scripts, verdict, mostWork>>
    BY <1>0, <1>11, NoTarget DEF InvalidateTip
  <2>. QED
    BY <1>0, <1>11, <2>1, TipMarked, Zenon DEF Sound, Clean, Chain, Failed
<1>12. ASSUME NEW t \in Thread, MarkFailed(t)
       PROVE  Sound'
  <2>1. mostWork = NoBlock /\ UNCHANGED <<tip, scripts, verdict, mostWork, failedChild>>
    BY <1>0, <1>12, NoTarget, Zenon DEF MarkFailed
  <2>2. CASE toMarkFailed \in Chain
    BY <1>4, <1>12, <2>1, <2>2 DEF MarkFailed
  <2>3. CASE toMarkFailed \notin Chain
    <3>1. /\ Failed' \subseteq Failed \cup {toMarkFailed} /\ mFailed' \subseteq failedValid'
          /\ ancestors[tip] \cap {toMarkFailed} = {}
      BY <1>0, <1>12, <2>3, Zenon DEF MarkFailed, Failed, Sound, Chain
    <3>. QED
      BY <1>1, <2>1, <3>1, Zenon
  <2>. QED
    BY <2>2, <2>3, Zenon
<1>13. ASSUME Restart
       PROVE  Sound'
  <2>. DEFINE M == {b \in known \ failedValid : ancestors[b] \cap Failed # {}}
  <2>1. /\ failedChild' = failedChild \cup M /\ mFailed' = {}
        /\ UNCHANGED <<failedValid, tip, scripts, verdict, mostWork>>
    BY <1>13, Zenon DEF Restart
  <2>2. ASSUME NEW x \in Block, Clean(x)
        PROVE  ancestors[x] \cap M = {}
    <3>1. \A y \in ancestors[x] : ancestors[y] \subseteq ancestors[x]
      BY AncestorsBelow
    <3>. QED
      BY <2>2, <3>1 DEF Clean
  <2>. HIDE DEF M
  <2>3. Failed' \subseteq Failed \cup M
    BY <2>1 DEF Failed
  <2>. QED
    BY <1>1, <1>a, <1>b, <2>1, <2>2, <2>3
<1>14. ASSUME NEW t \in Thread,
              \/ EnterLoop(t) \/ InvalidateBlock(t) \/ InvalidatedTips(t)
       PROVE  Sound'
  BY <1>4, <1>14, Zenon DEF EnterLoop, InvalidateBlock, InvalidatedTips
<1>15. ASSUME NEW t \in Thread, NothingToDo(t)
       PROVE  Sound'
  <2>1. mostWork' \in {mostWork, NoBlock}
    BY <1>7, <1>15, Zenon DEF NothingToDo, LeaveActivation
  <2>2. UNCHANGED <<failedValid, failedChild, mFailed, tip, scripts, verdict, linked>>
    BY <1>15 DEF NothingToDo
  <2>. QED
    BY <1>0, <2>1, <2>2, Zenon DEF Sound, Clean, Chain, Failed
<1>16. ASSUME NEW t \in Thread, NEW b \in Block,
              \/ IgnoreBlock(t, b) \/ AcceptBlock(t, b) \/ PreciousBlock(t, b)
              \/ CallInvalidateBlock(t, b)
       PROVE  Sound'
  BY <1>4, <1>16, Zenon DEF IgnoreBlock, AcceptBlock, PreciousBlock, CallInvalidateBlock
<1>17. ASSUME NEW b \in Block, AddHeader(b)
       PROVE  Sound'
  BY <1>4, <1>17, Zenon DEF AddHeader
<1>18. ASSUME StartShutdown
       PROVE  Sound'
  BY <1>4, <1>18 DEF StartShutdown
<1>. QED
  BY <1>2, <1>3, <1>5, <1>6, <1>8, <1>9, <1>10, <1>11, <1>12, <1>13, <1>14, <1>15, <1>16,
     <1>17, <1>18, Zenon, Zenon DEF Next, Request, Step

LEMMA AInvInit == Init => AInv
<1>. SUFFICES ASSUME Init
              PROVE  AInv
  BY Zenon
<1>1. Tree
  <2>1. IsFiniteSet({Genesis})
    BY FS_Singleton, Zenon
  <2>. QED
    BY <2>1, TreeAssumption DEF Init, Tree
<1>2. Numbers
  BY TreeAssumption DEF Init, Numbers
<1>3. Control
  BY Zenon DEF Init, Control, Local, Label, Owners
<1>4. Sound
  BY AncestorsOf DEF Init, Sound, Clean, Chain, Failed
<1>. QED
  BY <1>1, <1>2, <1>3, <1>4 DEF AInv

LEMMA AInvStep == AInv /\ [Next]_vars => AInv'
<1>1. ASSUME AInv, Next
      PROVE  AInv'
  BY <1>1, TreeStep, NumbersStep, ControlStep, SoundStep, Zenon DEF AInv
<1>2. ASSUME AInv, UNCHANGED vars
      PROVE  AInv'
  <2>. USE <1>2 DEF vars, environment, status, blockman, sequence, activation, invalidation
  <2>1. Tree'
    BY Zenon DEF AInv, Tree
  <2>2. Numbers'
    BY Zenon DEF AInv, Numbers
  <2>3. Control'
    BY Zenon DEF AInv, Control, Local, Owners
  <2>4. Sound'
    BY DEF AInv, Sound, Clean, Chain, Failed
  <2>. QED
    BY <2>1, <2>2, <2>3, <2>4 DEF AInv
<1>. QED
  BY <1>1, <1>2

LEMMA AInvHolds == Spec => []AInv
  BY AInvInit, AInvStep, PTL DEF Spec

(* One thread at a time holds m_cs_chainstate, and the block index, the    *)
(* candidates and the locals have their types, whichever RPCs run.         *)
THEOREM ChainSelectionTypes == Spec => []TypeOK
<1>1. AInv => TypeOK
  <2>. SUFFICES ASSUME AInv
                PROVE  TypeOK
    OBVIOUS
  <2>1. Cardinality(Owners) <= 1
    <3>1. CASE Owners = {}
      <4>1. Cardinality(Owners) = 0
        BY <3>1, FS_EmptySet
      <4>. QED
        BY <4>1
    <3>2. CASE Owners # {}
      <4>1. PICK t \in Owners : TRUE
        BY <3>2
      <4>2. Owners = {t}
        BY <4>1 DEF AInv, Control
      <4>3. Cardinality(Owners) = 1
        BY <4>2, FS_Singleton, SMTT(30)
      <4>. QED
        BY <4>3
    <3>. QED
      BY <3>1, <3>2
  <2>2. /\ Genesis \in haveData /\ haveData \subseteq known /\ known \subseteq Block
        /\ linked \subseteq haveData /\ scripts \subseteq linked
        /\ failedValid \subseteq known /\ failedChild \subseteq known
        /\ mFailed \subseteq known /\ unlinked \subseteq known
        /\ candidates \subseteq known /\ byWork \subseteq known /\ tip \in linked
    BY DEF AInv, Tree, Sound
  <2>3. /\ nSequenceId \in [Block -> Int]
        /\ nBlockSequenceId \in Nat /\ nBlockReverseSequenceId \in Int
        /\ nLastPreciousChainwork \in Nat /\ commands \in 0 .. MaxCommands
    BY DEF AInv, Numbers
  <2>4. /\ pc \in [Thread -> {"idle", "activate", "top", "find", "step",
                              "invalidate", "invalidating", "marking"}]
        /\ pindex \in [Thread -> Block \cup {NoBlock}]
        /\ {mostWork, startingTip, oldTip, toMarkFailed} \subseteq known \cup {NoBlock}
        /\ connected \in BOOLEAN /\ shutdown \in BOOLEAN
    BY DEF AInv, Control, Label
  <2>. QED
    BY <2>1, <2>2, <2>3, <2>4, Zenon DEF TypeOK
<1>. QED
  BY <1>1, AInvHolds, PTL

(* AcceptBlockHeader may look for failed ancestors in m_failed_blocks:     *)
(* every member has BLOCK_FAILED_VALID, also after reconsiderblock, which  *)
(* clears flags and members apart.                                         *)
THEOREM FailedBlocksAreFailed == Spec => []FailedBlocksFailed
<1>1. AInv => FailedBlocksFailed
  BY Zenon DEF AInv, Sound, FailedBlocksFailed
<1>. QED
  BY <1>1, AInvHolds, PTL

(* No header, block, failed activation, RPC or restart marks a block of    *)
(* the active chain as failed, and all its blocks were connected.          *)
THEOREM ActiveChainIsValid == Spec => []ActiveChainValid
<1>1. AInv => ActiveChainValid
  <2>. SUFFICES ASSUME AInv
                PROVE  ActiveChainValid
    OBVIOUS
  <2>1. Chain \subseteq linked
    BY TreeClosed DEF AInv, Sound, Chain
  <2>. QED
    BY <2>1, Zenon DEF AInv, Sound, Clean, Chain, ActiveChainValid
<1>. QED
  BY <1>1, AInvHolds, PTL

=============================================================================
