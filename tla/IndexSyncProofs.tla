--------------------------- MODULE IndexSyncProofs ---------------------------
(***************************************************************************)
(* Proofs about IndexSync, for every tree of blocks and every number of    *)
(* chain changes, crashes and shutdowns.  The invariant IndexInv has four  *)
(* layers:                                                                 *)
(*   - Control: where ThreadSync, the handler and the caller can be;       *)
(*   - Position: wherever the index may go on from, nothing is missing up  *)
(*     to there, and what could be overwritten next is on the way there;   *)
(*   - Ordered and Following: the blocks in the queue lead to the tip, and *)
(*     a synced index that is not at the tip will join them;               *)
(*   - Calls: what a waiting caller may expect of the events before its    *)
(*     own.                                                                *)
(***************************************************************************)
EXTENDS TLAPS, WellFoundedInduction, IndexSync

-----------------------------------------------------------------------------
(* Blocks and chains.                                                      *)

(* A set of natural numbers that is not empty has a least element.         *)
LEMMA LeastNat ==
  ASSUME NEW S \in SUBSET Nat, S # {}
  PROVE  \E m \in S : \A n \in S : m <= n
<1>1. IsWellFoundedOn(OpToRel(<, Nat), Nat)
  BY NatLessThanWellFounded, Zenon
<1>2. PICK m \in S : \A n \in S : ~(<<n, m>> \in OpToRel(<, Nat))
  <2>. HIDE DEF OpToRel
  <2>. QED
    BY <1>1, WFMin, Zenon
<1>3. \A n \in S : ~(n < m)
  BY <1>2, Zenon DEF OpToRel
<1>. QED
  BY <1>3

(* What holds of the genesis block, and of a block when it holds of its    *)
(* parent, holds of every block.                                           *)
LEMMA BlockInduction ==
  ASSUME NEW S, Genesis \in S,
         \A b \in Block \ {Genesis} : Parent[b] \in S => b \in S
  PROVE  Block \subseteq S
<1>. DEFINE H == {Height[b] : b \in Block \ S}
<1>1. SUFFICES ASSUME NEW x \in Block \ S
               PROVE  FALSE
  OBVIOUS
<1>2. H \in SUBSET Nat /\ H # {}
  BY TreeAssumption
<1>3. PICK m \in H : \A n \in H : m <= n
  <2>. HIDE DEF H
  <2>. QED
    BY <1>2, LeastNat
<1>4. PICK b \in Block \ S : m = Height[b]
  BY <1>3
<1>5. b # Genesis /\ Parent[b] \in Block /\ Height[b] = Height[Parent[b]] + 1
  BY <1>4, TreeAssumption
<1>7. Parent[b] \in S
  <2>1. ASSUME Parent[b] \notin S
        PROVE  m <= Height[Parent[b]]
    BY <1>3, <1>5, <2>1
  <2>. QED
    BY <1>4, <1>5, <2>1, TreeAssumption
<1>. QED
  BY <1>4, <1>5, <1>7

(* The recursive definition of the ancestors has a solution: of each       *)
(* block, the smallest set that has it and the parents of its members.     *)
LEMMA AncestorsEquation ==
  ancestors = [b \in Block \cup {NoBlock} |->
                 IF b = NoBlock THEN {} ELSE {b} \cup ancestors[Parent[b]]]
<1>. DEFINE Closed(S) == \A c \in S \ {Genesis} : Parent[c] \in S
            Below(b) == {a \in Block : \A S \in SUBSET Block : b \in S /\ Closed(S) => a \in S}
            f == [b \in Block \cup {NoBlock} |-> IF b = NoBlock THEN {} ELSE Below(b)]
<1>1. ASSUME NEW b \in Block
      PROVE  b \in Below(b) /\ Closed(Below(b))
  BY TreeAssumption
<1>2. ASSUME NEW b \in Block, NEW S \in SUBSET Block, b \in S, Closed(S)
      PROVE  Below(b) \subseteq S
  BY <1>2
<1>3. ASSUME NEW b \in Block, b # Genesis
      PROVE  Below(b) = {b} \cup Below(Parent[b])
  <2>1. Parent[b] \in Block
    BY <1>3, TreeAssumption
  <2>2. Below(Parent[b]) \subseteq Below(b)
    BY <1>1, <1>2, <1>3, <2>1
  <2>3. Closed({b} \cup Below(Parent[b]))
    BY <1>1, <2>1
  <2>4. Below(b) \subseteq {b} \cup Below(Parent[b])
    <3>1. {b} \cup Below(Parent[b]) \in SUBSET Block
      BY <2>1
    <3>. HIDE DEF Below, Closed
    <3>. QED
      BY <1>2, <2>3, <3>1
  <2>. QED
    BY <1>1, <2>2, <2>4
<1>4. Below(Genesis) = {Genesis}
  <2>1. Genesis \in Block /\ Closed({Genesis})
    BY TreeAssumption
  <2>2. Below(Genesis) \subseteq {Genesis}
    <3>. HIDE DEF Below, Closed
    <3>. QED
      BY <1>2, <2>1
  <2>. QED
    BY <1>1, <2>1, <2>2
<1>. HIDE DEF Below
<1>5. ASSUME NEW b \in Block
      PROVE  f[b] = {b} \cup f[Parent[b]]
  BY <1>3, <1>4, TreeAssumption
<1>6. f = [b \in Block \cup {NoBlock} |-> IF b = NoBlock THEN {} ELSE {b} \cup f[Parent[b]]]
  BY <1>5, Zenon
<1>. HIDE DEF f
<1>. QED
  BY <1>6, Zenon DEF ancestors

(* The chain to a block.                                                   *)
LEMMA AncestorsOf ==
  /\ ancestors[NoBlock] = {} /\ ancestors[Genesis] = {Genesis}
  /\ \A b \in Block : Parent[b] \in Block \cup {NoBlock} /\ ancestors[b] = {b} \cup ancestors[Parent[b]]
  /\ \A b \in Block \ {Genesis} : Parent[b] \in Block
<1>1. /\ Genesis \in Block /\ NoBlock \notin Block /\ Parent[Genesis] = NoBlock
      /\ \A b \in Block : Parent[b] \in Block \cup {NoBlock}
      /\ \A b \in Block \ {Genesis} : Parent[b] \in Block
  BY TreeAssumption
<1>. QED
  BY <1>1, AncestorsEquation

LEMMA AncestorsIn ==
  ASSUME NEW b \in Block
  PROVE  b \in ancestors[b] /\ Genesis \in ancestors[b] /\ ancestors[b] \subseteq Block
<1>. DEFINE S == {c \in Block : c \in ancestors[c] /\ Genesis \in ancestors[c]
                                 /\ ancestors[c] \subseteq Block}
<1>1. Genesis \in S
  BY AncestorsOf, TreeAssumption
<1>2. \A c \in Block \ {Genesis} : Parent[c] \in S => c \in S
  BY AncestorsOf
<1>3. Block \subseteq S
  <2>. HIDE DEF S
  <2>. QED
    BY <1>1, <1>2, BlockInduction
<1>. QED
  BY <1>3

(* An ancestor is the block itself or an ancestor of its parent, and    *)
(* lower; its ancestors are ancestors.                                     *)
LEMMA AncestorsBelow ==
  ASSUME NEW b \in Block, NEW a \in ancestors[b]
  PROVE  /\ ancestors[a] \subseteq ancestors[b]
         /\ a # b => Height[a] < Height[b]
<1>. DEFINE S == {c \in Block : \A x \in ancestors[c] :
                    /\ ancestors[x] \subseteq ancestors[c]
                    /\ x # c => Height[x] < Height[c]}
<1>1. Genesis \in S
  BY AncestorsOf, TreeAssumption
<1>2. ASSUME NEW c \in Block \ {Genesis}, Parent[c] \in S
      PROVE  c \in S
  <2>. USE <1>2
  <2>2. ASSUME NEW x \in ancestors[c], x # c
        PROVE  /\ ancestors[x] \subseteq ancestors[c]
               /\ Height[x] < Height[c]
    BY <2>2, AncestorsOf, TreeAssumption, AncestorsIn
  <2>. QED
    BY <2>2
<1>3. Block \subseteq S
  <2>. HIDE DEF S
  <2>. QED
    BY <1>1, <1>2, BlockInduction
<1>. QED
  BY <1>3

(* Of two ancestors of a block one is an ancestor of the other.            *)
LEMMA AncestorsOrdered ==
  ASSUME NEW b \in Block, NEW a \in ancestors[b], NEW c \in ancestors[b]
  PROVE  a \in ancestors[c] \/ c \in ancestors[a]
<1>. DEFINE S == {d \in Block : \A x, y \in ancestors[d] :
                    x \in ancestors[y] \/ y \in ancestors[x]}
<1>1. Genesis \in S
  BY AncestorsOf, TreeAssumption
<1>2. ASSUME NEW d \in Block \ {Genesis}, Parent[d] \in S
      PROVE  d \in S
  BY <1>2, AncestorsOf
<1>3. Block \subseteq S
  <2>. HIDE DEF S
  <2>. QED
    BY <1>1, <1>2, BlockInduction
<1>. QED
  BY <1>3

(* What lies above an ancestor f on the way to p descends from f.          *)
LEMMA AboveAncestor ==
  ASSUME NEW p \in Block, NEW f \in ancestors[p], NEW y \in ancestors[p] \ ancestors[f]
  PROVE  f \in ancestors[y]
  BY AncestorsOrdered

(* Two ancestors of a block: the lower one is an ancestor of the other.    *)
LEMMA LowerAncestor ==
  ASSUME NEW b \in Block, NEW a \in ancestors[b], NEW c \in ancestors[b], Height[a] <= Height[c]
  PROVE  a \in ancestors[c]
<1>1. a \in Block /\ c \in Block
  BY AncestorsIn
<1>3. CASE c \in ancestors[a] /\ c # a
  BY <1>1, <1>3, TreeAssumption, AncestorsBelow
<1>4. CASE c = a
  BY <1>1, <1>4, AncestorsIn
<1>. QED
  BY <1>3, <1>4, AncestorsOrdered

LEMMA SameHeight ==
  ASSUME NEW b \in Block, NEW a \in ancestors[b], NEW c \in ancestors[b], Height[a] = Height[c]
  PROVE  a = c
  BY AncestorsIn, TreeAssumption, LowerAncestor, AncestorsBelow

(* The highest of some ancestors of a block.                               *)
LEMMA HighestIn ==
  ASSUME NEW b \in Block, NEW S \in SUBSET ancestors[b], S # {}
  PROVE  Highest(S) \in S /\ \A c \in S : Height[c] <= Height[Highest(S)]
<1>. DEFINE D == {Height[b] - Height[e] : e \in S}
<1>1. \A e \in S : Height[e] \in Nat /\ Height[e] <= Height[b]
  BY TreeAssumption, AncestorsIn, AncestorsBelow
<1>2. Height[b] \in Nat
  BY TreeAssumption
<1>3. D \in SUBSET Nat /\ D # {}
  BY <1>1, <1>2
<1>4. PICK m \in D : \A n \in D : m <= n
  <2>. HIDE DEF D
  <2>. QED
    BY <1>3, LeastNat
<1>5. PICK f \in S : m = Height[b] - Height[f]
  BY <1>4
<1>6. ASSUME NEW e \in S
      PROVE  Height[e] <= Height[f]
  <2>1. Height[b] - Height[f] <= Height[b] - Height[e]
    BY <1>4, <1>5
  <2>. QED
    BY <1>1, <1>2, <2>1
<1>. QED
  BY <1>6 DEF Highest

(* FindFork finds a common ancestor, and the block itself on its chain.    *)
LEMMA ForkIn ==
  ASSUME NEW b \in Block \cup {NoBlock}, NEW t \in Block \cup {NoBlock}
  PROVE  /\ FindFork(b, t) \in (ancestors[b] \cap ancestors[t]) \cup {NoBlock}
         /\ \A c \in ancestors[b] \cap ancestors[t] : /\ FindFork(b, t) # NoBlock
                                                      /\ Height[c] <= Height[FindFork(b, t)]
         /\ FindFork(b, t) = NoBlock <=> b = NoBlock \/ t = NoBlock
<1>. DEFINE S == ancestors[b] \cap ancestors[t]
<1>1. FindFork(b, t) = Highest(S)
  BY DEF FindFork
<1>2. CASE b = NoBlock \/ t = NoBlock
  BY <1>1, <1>2, AncestorsOf DEF Highest
<1>3. CASE b \in Block /\ t \in Block
  <2>. USE <1>3
  <2>1. Genesis \in S /\ S \in SUBSET ancestors[b] /\ S \subseteq Block
    BY AncestorsIn
  <2>2. Highest(S) \in S /\ \A c \in S : Height[c] <= Height[Highest(S)]
    BY <2>1, HighestIn
  <2>. HIDE DEF S
  <2>. QED
    BY <1>1, <2>1, <2>2, TreeAssumption, Zenon DEF S
<1>. QED
  BY <1>2, <1>3

(* A block on the way to another has a next block on that way.             *)
LEMMA HasNext ==
  ASSUME NEW t \in Block, NEW b \in ancestors[t], b # t
  PROVE  \E c \in ancestors[t] : Parent[c] = b
<1>. DEFINE S == {d \in Block : \A x \in ancestors[d] \ {d} : \E c \in ancestors[d] : Parent[c] = x}
<1>1. Genesis \in S
  BY AncestorsOf, TreeAssumption
<1>2. ASSUME NEW d \in Block \ {Genesis}, Parent[d] \in S
      PROVE  d \in S
  BY <1>2, AncestorsOf
<1>3. Block \subseteq S
  <2>. HIDE DEF S
  <2>. QED
    BY <1>1, <1>2, BlockInduction
<1>. QED
  BY <1>3

LEMMA NextIn ==
  ASSUME tip \in Block, NEW b
  PROVE  IF b \in ancestors[tip] /\ b # tip
         THEN NextInChain(b) \in ancestors[tip] /\ NextInChain(b) \in Block /\ Parent[NextInChain(b)] = b
         ELSE NextInChain(b) = NoBlock
  BY HasNext, AncestorsIn DEF NextInChain

(* NextSyncBlock goes on at the block it is given or, if that is not on    *)
(* the active chain, at an ancestor; it ends at or beyond the tip.         *)
LEMMA NextSync ==
  ASSUME tip \in Block, NEW p \in Block \cup {NoBlock}
  PROVE  IF NextSyncBlock(p) = NoBlock
         THEN p \in Block /\ tip \in ancestors[p]
         ELSE /\ NextSyncBlock(p) \in Block
              /\ Parent[NextSyncBlock(p)] = p \/ (p \in Block /\ Parent[NextSyncBlock(p)] \in ancestors[p])
  BY TreeAssumption, NextIn, ForkIn DEF NextSyncBlock

(* A block has one ancestor at each height up to its own.                  *)
LEMMA AtHeight ==
  ASSUME NEW b \in Block, NEW h \in Nat, h <= Height[b]
  PROVE  GetAncestor(b, h) \in ancestors[b] /\ Height[GetAncestor(b, h)] = h
<1>. DEFINE S == {d \in Block : \A n \in Nat : n <= Height[d] => \E c \in ancestors[d] : Height[c] = n}
<1>1. Genesis \in S
  BY AncestorsOf, TreeAssumption
<1>2. ASSUME NEW d \in Block \ {Genesis}, Parent[d] \in S
      PROVE  d \in S
  BY <1>2, AncestorsOf, TreeAssumption
<1>3. Block \subseteq S
  <2>. HIDE DEF S
  <2>. QED
    BY <1>1, <1>2, BlockInduction
<1>. QED
  BY <1>3 DEF GetAncestor

(* The parent of a block that is not at height 0.                          *)
LEMMA ParentBelow ==
  ASSUME NEW b \in Block, NEW c \in ancestors[b], Height[c] # 0
  PROVE  /\ c \in Block /\ Parent[c] \in Block /\ Parent[c] \in ancestors[b]
         /\ Height[c] = Height[Parent[c]] + 1 /\ Height[Parent[c]] \in Nat
  BY AncestorsIn, TreeAssumption, AncestorsOf, AncestorsBelow

(* The blocks that are connected on the way from t to b: each is the       *)
(* parent of the next, the first is a child of a block of the old chain,   *)
(* and the last is b.                                                      *)
LEMMA PathOf ==
  ASSUME NEW t \in Block \cup {NoBlock}, NEW b \in Block
  PROVE  /\ Path(t, b) \in Seq(Block)
         /\ Path(t, b) = <<>> <=> b \in ancestors[t]
         /\ \A i \in 1 .. Len(Path(t, b)) - 1 : Parent[Path(t, b)[i + 1]] = Path(t, b)[i]
         /\ Path(t, b) # <<>> =>
              /\ Path(t, b)[Len(Path(t, b))] = b
              /\ IF t = NoBlock THEN Path(t, b)[1] = Genesis ELSE Parent[Path(t, b)[1]] \in ancestors[t]
<1>. DEFINE fork == FindFork(b, t)
            first == IF fork = NoBlock THEN 0 ELSE Height[fork] + 1
            n == Height[b] + 1 - first
            s == [i \in 1 .. n |-> GetAncestor(b, first + i - 1)]
<1>1. /\ NoBlock \notin Block /\ b # NoBlock /\ Height[b] \in Nat /\ Height[Genesis] = 0
      /\ Genesis \in ancestors[b] /\ b \in ancestors[b]
  BY AncestorsIn, TreeAssumption, Zenon
<1>2. /\ first \in Nat /\ first <= Height[b] + 1
      /\ t = NoBlock => first = 0
      /\ t # NoBlock => /\ fork \in ancestors[b] /\ fork \in ancestors[t]
                        /\ Height[fork] \in Nat /\ first = Height[fork] + 1
  <2>1. CASE t = NoBlock
    BY <1>1, <2>1, ForkIn
  <2>2. CASE t # NoBlock
    <3>1. fork \in ancestors[b] /\ fork \in ancestors[t] /\ fork # NoBlock
      BY <1>1, <2>2, ForkIn
    <3>2. Height[fork] \in Nat /\ Height[fork] <= Height[b]
      <4>2. fork = b \/ Height[fork] < Height[b]
        BY <3>1, AncestorsBelow
      <4>3. Height[fork] \in Nat
        BY <3>1, AncestorsIn, TreeAssumption
      <4>. HIDE DEF fork
      <4>. QED
        BY <1>1, <4>2, <4>3
    <3>. HIDE DEF fork
    <3>. QED
      BY <1>1, <2>2, <3>1, <3>2
  <2>. QED
    BY <2>1, <2>2
<1>3. b \in ancestors[t] <=> first = Height[b] + 1
  <2>1. ASSUME b \in ancestors[t]
        PROVE  first = Height[b] + 1
    <3>1. t # NoBlock
      BY <2>1, AncestorsOf
    <3>2. Height[b] <= Height[fork]
      BY <1>1, <2>1, ForkIn
    <3>. HIDE DEF fork, first
    <3>. QED
      BY <1>1, <1>2, <3>1, <3>2
  <2>2. ASSUME first = Height[b] + 1
        PROVE  b \in ancestors[t]
    <3>. HIDE DEF fork, first
    <3>. QED
      BY <1>1, <1>2, <2>2, SameHeight
  <2>. QED
    BY <2>1, <2>2
<1>4. Path(t, b) = s
  BY DEF Path
<1>. HIDE DEF fork, first
<1>5. n \in Nat /\ (n = 0 <=> first = Height[b] + 1)
  BY <1>1, <1>2
<1>6. ASSUME NEW i \in 1 .. n
      PROVE  s[i] \in ancestors[b] /\ s[i] \in Block /\ Height[s[i]] = first + i - 1
  BY <1>1, <1>2, <1>6, AtHeight, AncestorsIn
<1>7. s \in Seq(Block) /\ Len(s) = n /\ (s = <<>> <=> n = 0)
  <2>. HIDE DEF n
  <2>1. \A i \in 1 .. n : s[i] \in Block
    BY <1>6
  <2>2. DOMAIN s = 1 .. n /\ s = [i \in 1 .. n |-> s[i]]
    OBVIOUS
  <2>. HIDE DEF s
  <2>. QED
    BY <1>5, <2>1, <2>2
<1>. HIDE DEF s
<1>8. ASSUME NEW i \in 1 .. n - 1
      PROVE  Parent[s[i + 1]] = s[i]
  <2>1. i \in 1 .. n /\ i + 1 \in 1 .. n /\ i \in Nat
    BY <1>5
  <2>2. s[i + 1] \in ancestors[b] /\ Height[s[i + 1]] = first + i
    BY <1>2, <1>6, <2>1
  <2>3. s[i] \in ancestors[b] /\ Height[s[i]] = first + i - 1
    BY <1>6, <2>1
  <2>5. /\ Parent[s[i + 1]] \in ancestors[b] /\ Height[s[i + 1]] = Height[Parent[s[i + 1]]] + 1
        /\ Height[Parent[s[i + 1]]] \in Nat
    BY <1>2, <2>1, <2>2, ParentBelow
  <2>. QED
    BY <1>2, <2>1, <2>2, <2>3, <2>5, SameHeight
<1>9. ASSUME n # 0
      PROVE  s[n] = b
  BY <1>1, <1>2, <1>5, <1>6, <1>9, SameHeight
<1>10. ASSUME n # 0
       PROVE  IF t = NoBlock THEN s[1] = Genesis ELSE Parent[s[1]] \in ancestors[t]
  <2>1. s[1] \in ancestors[b] /\ Height[s[1]] = first
    BY <1>2, <1>5, <1>6, <1>10
  <2>2. CASE t = NoBlock
    BY <1>1, <1>2, <2>1, <2>2, SameHeight
  <2>3. CASE t # NoBlock
    BY <2>3, <1>2, <2>1, ParentBelow, SameHeight
  <2>. QED
    BY <2>2, <2>3
<1>. HIDE DEF n
<1>. QED
  BY <1>3, <1>4, <1>5, <1>7, <1>8, <1>9, <1>10

-----------------------------------------------------------------------------
(* The control state: what ThreadSync, the handler and the queue are at.   *)

\* The events of the index are about blocks.
Filled == \A i \in 1 .. Len(queue) : queue[i].type # "sync" => queue[i].block \in Block

\* What the proofs need of the type invariant.
Types ==
  /\ tip \in Block \cup {NoBlock} /\ flushed \in Block \cup {NoBlock}
  /\ best \in Block \cup {NoBlock} /\ pindex \in Block \cup {NoBlock}
  /\ oldBest \in Block \cup {NoBlock} /\ locator \in Block \cup {NoBlock}
  /\ callTip \in Block \cup {NoBlock} /\ ahead \subseteq Block
  /\ queue \in Seq(Event)
  /\ byHeight \in [Heights -> Block \cup {NoBlock}] /\ byHash \subseteq Block
  /\ \A b \in Block : byHeight[Height[b]] # NoBlock => Height[byHeight[Height[b]]] = Height[b]
  /\ m_synced \in BOOLEAN
  /\ sync \in {"start", "loop", "commit", "last", "write", "done"}
  /\ handler \in {"idle", "rewind", "write"}

Control ==
  /\ m_synced => sync \in {"last", "done"}
  /\ sync \in {"commit", "write"} => pindex \in Block
  /\ sync = "last" => m_synced /\ best \in Block
  /\ sync # "done" \/ caller # "idle" => tip \in Block
  /\ tip = NoBlock => best = NoBlock /\ queue = <<>> /\ flushed = NoBlock
  /\ Filled
  /\ handler # "idle" => /\ m_synced /\ queue # <<>> /\ queue[1].type = "connected"
                         /\ best = Parent[queue[1].block]
  /\ handler = "rewind" => best \in Block /\ oldBest \in Block
  /\ kind = "tx" => \A h \in Heights : byHeight[h] = NoBlock

LEMMA AncestorsWithin ==
  ASSUME NEW b \in Block \cup {NoBlock}
  PROVE  /\ ancestors[b] \subseteq Block
         /\ \A a \in ancestors[b] : a \in Block /\ ancestors[a] \subseteq ancestors[b]
  BY AncestorsOf, AncestorsIn, AncestorsBelow

LEMMA EventsIn ==
  ASSUME NEW type \in {"connected", "flushed", "sync"}, NEW path \in Seq(Block \cup {NoBlock})
  PROVE  /\ Events(type, path) \in Seq(Event) /\ Len(Events(type, path)) = Len(path)
         /\ \A i \in 1 .. Len(path) : /\ Events(type, path)[i].type = type
                                      /\ Events(type, path)[i].block = path[i]
<1>. DEFINE e == Events(type, path)
<1>1. e = [i \in 1 .. Len(path) |-> [type |-> type, block |-> path[i]]] /\ Len(path) \in Nat
  BY DEF Events
<1>. QED
  BY <1>1 DEF Event

LEMMA Joined ==
  ASSUME NEW S, NEW s \in Seq(S), NEW t \in Seq(S)
  PROVE  /\ s \o t \in Seq(S) /\ Len(s \o t) = Len(s) + Len(t)
         /\ \A i \in 1 .. Len(s) : (s \o t)[i] = s[i]
         /\ \A i \in 1 .. Len(t) : (s \o t)[Len(s) + i] = t[i]
<1>. QED
  OBVIOUS

(* The queue when events are pushed, and when the first one has returned.  *)
LEMMA Pushed ==
  ASSUME queue \in Seq(Event), NEW type \in {"connected", "flushed", "sync"},
         NEW path \in Seq(Block \cup {NoBlock}), Push(Events(type, path))
  PROVE  /\ queue' \in Seq(Event) /\ Len(queue') = Len(queue) + Len(path) /\ Len(queue) \in Nat
         /\ Len(path) \in Nat
         /\ \A i \in 1 .. Len(queue) : queue'[i] = queue[i]
         /\ \A i \in 1 .. Len(path) : /\ queue'[Len(queue) + i].type = type
                                      /\ queue'[Len(queue) + i].block = path[i]
<1>. DEFINE e == Events(type, path)
<1>1. /\ e \in Seq(Event) /\ Len(e) = Len(path)
      /\ \A i \in 1 .. Len(path) : e[i].type = type /\ e[i].block = path[i]
  BY EventsIn
<1>2. queue' = queue \o e
  BY DEF Push
<1>. HIDE DEF e
<1>3. /\ queue \o e \in Seq(Event) /\ Len(queue \o e) = Len(queue) + Len(e)
      /\ \A i \in 1 .. Len(queue) : (queue \o e)[i] = queue[i]
      /\ \A i \in 1 .. Len(e) : (queue \o e)[Len(queue) + i] = e[i]
  BY <1>1, Joined
<1>. QED
  BY <1>1, <1>2, <1>3

LEMMA Returned ==
  ASSUME queue \in Seq(Event), queue # <<>>, Return
  PROVE  /\ queue' \in Seq(Event) /\ Len(queue') = Len(queue) - 1 /\ Len(queue) \in Nat \ {0}
         /\ \A i \in 1 .. Len(queue') : queue'[i] = queue[i + 1]
  BY DEF Return


LEMMA TypeInit == ASSUME Init PROVE Types /\ Control
<1>1. tip \in Block \cup {NoBlock} /\ NoBlock \notin Block
  BY TreeAssumption DEF Init
<1>5. queue = <<>> /\ queue \in Seq(Event)
  BY DEF Init
<1>8. Filled
  BY <1>5 DEF Filled
<1>. QED
  BY <1>1, <1>5, <1>8, Zenon DEF Init, Heights, Types, Control

(* What a new process starts from.                                         *)
LEMMA TypeStart ==
  ASSUME Types, Control, Start(flushed)
  PROVE  Types' /\ Control'
<1>1. flushed \in Block \cup {NoBlock} /\ locator \in Block \cup {NoBlock}
  BY DEF Types
<1>2. best' \in Block \cup {NoBlock} /\ (flushed = NoBlock => best' = NoBlock)
  BY <1>1, ForkIn, AncestorsWithin DEF Start
<1>3. queue' = <<>> /\ queue' \in Seq(Event)
  BY DEF Start
<1>5. ahead' \subseteq Block
  BY DEF Types, Start
<1>6. sync' \in {"start", "done"} /\ (sync' = "start" => best' # tip' /\ ~m_synced')
      /\ pindex' \in Block \cup {NoBlock} /\ m_synced' \in BOOLEAN
      /\ (m_synced' => sync' = "done")
  BY <1>2, Zenon DEF Start, EndSync
<1>7. UNCHANGED <<byHeight, byHash, locator, kind>>
  BY DEF Start
<1>12. Control'
  BY <1>1, <1>2, <1>3, <1>6, <1>7, SMTT(30) DEF Start, Control, Filled, Heights
<1>. QED
  BY <1>1, <1>2, <1>3, <1>5, <1>6, <1>7, <1>12, Zenon DEF Types, Start, Heights


LEMMA PushedBlocks ==
  ASSUME queue \in Seq(Event), Filled, NEW type \in {"connected", "flushed", "sync"},
         NEW path \in Seq(Block \cup {NoBlock}), Push(Events(type, path)),
         type = "sync" \/ \A i \in 1 .. Len(path) : path[i] \in Block
  PROVE  /\ queue' \in Seq(Event) /\ Filled'
         /\ queue # <<>> => queue' # <<>> /\ queue'[1] = queue[1]
<1>1. /\ queue' \in Seq(Event) /\ Len(queue') = Len(queue) + Len(path) /\ Len(queue) \in Nat
      /\ Len(path) \in Nat
      /\ \A i \in 1 .. Len(queue) : queue'[i] = queue[i]
      /\ \A i \in 1 .. Len(path) : /\ queue'[Len(queue) + i].type = type
                                   /\ queue'[Len(queue) + i].block = path[i]
  BY Pushed, SMTT(30)
<1>2. ASSUME NEW i \in 1 .. Len(queue'), queue'[i].type # "sync"
      PROVE  queue'[i].block \in Block
  <2>1. CASE i \in 1 .. Len(queue)
    BY <1>1, <1>2, <2>1 DEF Filled
  <2>2. CASE i - Len(queue) \in 1 .. Len(path)
    <3>1. i = Len(queue) + (i - Len(queue))
      BY <1>1
    <3>. QED
      BY <1>1, <1>2, <2>2, <3>1, Zenon
  <2>. QED
    BY <1>1, <2>1, <2>2
<1>. QED
  BY <1>1, <1>2 DEF Filled

LEMMA ReturnedBlocks ==
  ASSUME queue \in Seq(Event), Filled, queue # <<>>, Return
  PROVE  queue' \in Seq(Event) /\ Filled'
<1>. QED
  BY Returned DEF Filled


LEMMA SetTipTypes ==
  ASSUME Types, Control, NEW b \in Block, SetTip(b)
  PROVE  Types' /\ Control'
<1>. USE DEF chainVars, dbVars, indexVars, callVars, nodeVars
<1>1. Path(tip, b) \in Seq(Block)
  BY PathOf, Zenon DEF Types
<1>3. queue' \in Seq(Event) /\ Filled' /\ (queue # <<>> => queue' # <<>> /\ queue'[1] = queue[1])
  BY <1>1, PushedBlocks DEF Types, Control, SetTip
<1>4. /\ tip' = b /\ b # NoBlock
      /\ UNCHANGED <<best, pindex, oldBest, locator, callTip, ahead, byHeight, byHash, m_synced, sync,
                       handler, caller, kind, flushed>>
  BY TreeAssumption, Zenon DEF SetTip
<1>5. Types'
  BY <1>3, <1>4 DEF Types, Heights
<1>. QED
  BY <1>3, <1>4, <1>5 DEF Control, Heights

LEMMA FlushTypes ==
  ASSUME Types, Control, FlushStateToDisk
  PROVE  Types' /\ Control'
<1>. USE DEF chainVars, dbVars, indexVars, callVars, nodeVars
<1>1. tip \in Block
  BY DEF Types, Control, FlushStateToDisk
<1>2. <<tip>> \in Seq(Block \cup {NoBlock}) /\ \A i \in 1 .. Len(<<tip>>) : <<tip>>[i] \in Block
  BY <1>1
<1>3. queue' \in Seq(Event) /\ Filled' /\ (queue # <<>> => queue' # <<>> /\ queue'[1] = queue[1])
  BY <1>2, PushedBlocks, Zenon DEF Types, Control, FlushStateToDisk
<1>4. /\ tip # NoBlock /\ flushed' = tip
      /\ UNCHANGED <<best, pindex, oldBest, locator, callTip, ahead, byHeight, byHash, m_synced, sync,
                       handler, caller, kind, tip>>
  BY <1>1, TreeAssumption, Zenon DEF FlushStateToDisk
<1>5. Types'
  BY <1>1, <1>3, <1>4 DEF Types, Heights
<1>. QED
  BY <1>1, <1>3, <1>4, <1>5 DEF Control, Heights

LEMMA ShutdownTypes ==
  ASSUME Types, Control, StartShutdown \/ Interrupt \/ Shutdown
  PROVE  Types' /\ Control'
<1>. USE DEF chainVars, dbVars, indexVars, callVars, nodeVars
<1>1. CASE StartShutdown \/ Interrupt
  <2>1. UNCHANGED <<tip, flushed, best, pindex, oldBest, locator, callTip, ahead, queue, byHeight,
                    byHash, m_synced, sync, handler, caller, kind>>
    BY <1>1, Zenon DEF StartShutdown, Interrupt
  <2>2. /\ {tip, flushed, best, pindex, oldBest, locator, callTip}' \subseteq Block \cup {NoBlock}
        /\ ahead' \subseteq Block /\ queue' \in Seq(Event) /\ byHash' \subseteq Block
    BY <2>1 DEF Types
  <2>3. /\ byHeight' \in [Heights -> Block \cup {NoBlock}] /\ m_synced' \in BOOLEAN
        /\ \A b \in Block : byHeight'[Height[b]] # NoBlock => Height[byHeight'[Height[b]]] = Height[b]
        /\ sync' \in {"start", "loop", "commit", "last", "write", "done"}
        /\ handler' \in {"idle", "rewind", "write"}
    BY <2>1, Zenon DEF Types
  <2>4. Types'
    BY <2>2, <2>3, Zenon DEF Types, Heights
  <2>. QED
    BY <2>1, <2>4, Zenon DEF Control, Heights, Filled
<1>3. CASE Shutdown /\ tip # NoBlock
  <2>. USE <1>3
  <2>2. <<tip>> \in Seq(Block \cup {NoBlock}) /\ \A i \in 1 .. Len(<<tip>>) : <<tip>>[i] \in Block
    BY DEF Types
  <2>3. queue' \in Seq(Event) /\ Filled' /\ (queue # <<>> => queue' # <<>> /\ queue'[1] = queue[1])
    BY <2>2, PushedBlocks, Zenon DEF Types, Control, Shutdown
  <2>. QED
    BY <2>3 DEF Types, Shutdown, Heights, Control
<1>4. CASE Shutdown /\ tip = NoBlock
  BY <1>4 DEF Shutdown, Push, Types, Control, Heights, Filled
<1>. QED
  BY <1>1, <1>3, <1>4, Zenon

LEMMA CallTypes ==
  ASSUME Types, Control, Call
  PROVE  Types' /\ Control'
<1>. USE DEF chainVars, dbVars, indexVars, callVars, nodeVars
<1>1. CASE BlockUntilSyncedToCurrentChain
  BY <1>1, Zenon DEF Types, Control, BlockUntilSyncedToCurrentChain, Heights, Filled
<1>2. CASE SyncWithValidationInterfaceQueue
  <2>. USE <1>2
  <2>1. <<NoBlock>> \in Seq(Block \cup {NoBlock})
    OBVIOUS
  <2>2. queue' \in Seq(Event) /\ Filled' /\ (queue # <<>> => queue' # <<>> /\ queue'[1] = queue[1])
    BY <2>1, PushedBlocks, Zenon DEF Types, Control, SyncWithValidationInterfaceQueue
  <2>. QED
    BY <2>2, TreeAssumption DEF Control, SyncWithValidationInterfaceQueue, Types, Heights
<1>3. CASE CallReturns
  BY <1>3 DEF Types, Control, CallReturns, Heights, Filled
<1>. QED
  BY <1>1, <1>2, <1>3, Zenon DEF Call


LEMMA WriteTypes ==
  ASSUME Types, NEW b \in Block, WriteBlock(b)
  PROVE  /\ byHeight' \in [Heights -> Block \cup {NoBlock}] /\ byHash' \subseteq Block
         /\ \A c \in Block : byHeight'[Height[c]] # NoBlock => Height[byHeight'[Height[c]]] = Height[c]
         /\ (kind = "tx" => byHeight' = byHeight) /\ locator' = locator /\ ahead' \subseteq Block
<1>2. CASE kind = "tx"
  BY <1>2 DEF Types, WriteBlock
<1>3. CASE kind # "tx"
  <2>. QED
    BY <1>3 DEF WriteBlock, Heights, Types
<1>. QED
  BY <1>2, <1>3

LEMMA ThreadSyncTypes ==
  ASSUME Types, Control, ThreadSync
  PROVE  Types' /\ Control'
<1>. USE DEF chainVars, dbVars, indexVars, callVars, nodeVars
<1>1. NoBlock \notin Block
  BY TreeAssumption
<1>2. ASSUME sync \in {"start", "loop"}
      PROVE  /\ tip \in Block /\ tip # NoBlock /\ ~m_synced /\ handler = "idle"
             /\ pindex \in Block \cup {NoBlock}
  BY <1>1, <1>2, SMTT(30) DEF Control, Types
<1>3. ASSUME sync \in {"start", "loop"}, NextSyncBlock(pindex) # NoBlock
      PROVE  NextSyncBlock(pindex) \in Block
  BY <1>2, <1>3, NextSync
<1>4. ASSUME NEW b \in Block \cup {NoBlock}, tip \in Block, Commit(b)
      PROVE  locator' \in Block \cup {NoBlock}
  BY <1>4, Zenon DEF Commit, GetLocator, Types
<1>5. CASE SyncInterrupted
  BY <1>5, <1>2, <1>4, AncestorsWithin, Zenon DEF SyncInterrupted, Types, Heights, EndSync, Control, Filled
<1>6. CASE SyncLast
  BY <1>6, <1>2, NextSync, Zenon DEF SyncLast, Types, Heights, Control, Filled
<1>7. CASE SyncCommitLast
  <2>. USE <1>7
  <2>1. tip \in Block /\ tip # NoBlock /\ best \in Block /\ m_synced
    BY <1>1, Zenon DEF SyncCommitLast, Control
  <2>. QED
    BY <1>4, <2>1, Zenon DEF SyncCommitLast, Types, Heights, EndSync, Control, Filled
<1>8. CASE SyncNext
  BY <1>8, <1>2, <1>3, Zenon DEF SyncNext, SyncGoOn, Types, Heights, Control, Filled
<1>9. CASE SyncRewind
  <2>. USE <1>9
  <2>. DEFINE next == NextSyncBlock(pindex)
              to == Parent[next]
  <2>1. /\ tip \in Block /\ tip # NoBlock /\ ~m_synced /\ handler = "idle"
        /\ pindex \in Block \cup {NoBlock}
    BY <1>2, Zenon DEF SyncRewind
  <2>2. next \in Block /\ to \in Block \cup {NoBlock}
    BY <1>3, AncestorsOf DEF SyncRewind
  <2>. HIDE DEF next
  <2>4. byHash' \subseteq Block
    <3>1. \/ byHash' = byHash
          \/ CanCopy(pindex, to) /\ byHash' = CopyHeightIndexToHashIndex(pindex, to)
      BY Zenon DEF SyncRewind, next
    <3>2. HeightsOf(pindex, to) \subseteq Heights
      BY Zenon DEF HeightsOf
    <3>3. byHash \subseteq Block /\ \A h \in Heights : byHeight[h] \in Block \cup {NoBlock}
      BY DEF Types
    <3>. QED
      BY <3>1, <3>2, <3>3 DEF CanCopy, CopyHeightIndexToHashIndex
  <2>. QED
    BY <2>1, <2>2, <2>4, Zenon DEF SyncRewind, next, RewindAborts, RewindCommits, FatalError, EndSync,
       SyncGoOn, Types, Heights, Control, Filled
<1>10. CASE SyncCommit
  BY <1>1, <1>4, <1>10 DEF SyncCommit, Control, Types, Heights, Filled
<1>11. CASE SyncFails
  <2>1. Types'
    BY <1>11, Zenon DEF Types, SyncFails, EndSync, FatalError, Heights
  <2>. QED
    BY <1>11, <2>1 DEF Control, SyncFails, EndSync, Heights, Filled
<1>12. CASE SyncWrite
  <2>. USE <1>12
  <2>1. pindex \in Block /\ ~m_synced /\ handler = "idle" /\ tip \in Block /\ tip # NoBlock
    BY <1>1 DEF SyncWrite, Control, Types
  <2>2. /\ byHeight' \in [Heights -> Block \cup {NoBlock}] /\ byHash' \subseteq Block
        /\ \A b \in Block : byHeight'[Height[b]] # NoBlock => Height[byHeight'[Height[b]]] = Height[b]
        /\ (kind = "tx" => byHeight' = byHeight) /\ locator' = locator /\ ahead' \subseteq Block
    BY <2>1, WriteTypes DEF SyncWrite
  <2>. QED
    BY <2>1, <2>2, Zenon DEF Types, SyncWrite, Heights, Control, Filled
<1>. QED
  BY <1>5, <1>6, <1>7, <1>8, <1>9, <1>10, <1>11, <1>12 DEF ThreadSync


(* The event that a callback is for.                                       *)
LEMMA CurrentEvent ==
  ASSUME Types, Control, queue # <<>>
  PROVE  /\ tip \in Block /\ tip # NoBlock /\ 1 \in 1 .. Len(queue) /\ Len(queue) \in Nat
         /\ queue[1].type # "sync" => queue[1].block \in Block /\ Parent[queue[1].block] \in Block \cup {NoBlock}
         /\ handler # "idle" => queue[1].type = "connected"
<1>1. 1 \in 1 .. Len(queue) /\ Len(queue) \in Nat
  BY DEF Types
<1>2. queue[1].type # "sync" => queue[1].block \in Block
  BY <1>1, Zenon DEF Control, Filled
<1>. QED
  BY <1>1, <1>2, TreeAssumption DEF Control, Types

(* A callback that only returns, whatever it does to the locator and to    *)
(* the node's state.                                                       *)
LEMMA ReturnTypes ==
  ASSUME Types, Control, queue # <<>>, Return,
         locator' \in Block \cup {NoBlock}, best' \in {best} \cup Block, oldBest' \in {oldBest, NoBlock},
         caller' = caller \/ caller' = "true",
         UNCHANGED <<kind, tip, flushed, byHeight, byHash, m_synced, pindex, sync, callTip, ahead>>
  PROVE  Types' /\ Control'
<1>. QED
  BY ReturnedBlocks, CurrentEvent DEF Types, Control, Return, Heights

LEMMA BlockConnectedTypes ==
  ASSUME Types, Control, BlockConnected
  PROVE  Types' /\ Control'
<1>. USE DEF chainVars, dbVars, indexVars, callVars, nodeVars
<1>. DEFINE b == queue[1].block
<1>1. tip \in Block /\ tip # NoBlock /\ b \in Block /\ Parent[b] \in Block \cup {NoBlock}
      /\ queue # <<>> /\ queue[1].type = "connected"
  BY CurrentEvent, Zenon DEF BlockConnected, Current
<1>2. CASE best = Parent[b]
  <2>1. handler' = "write" /\ UNCHANGED <<byHash, best, oldBest>>
    BY <1>2, Zenon DEF BlockConnected
  <2>2. Types'
    BY <2>1, Zenon DEF Types, BlockConnected, Heights
  <2>. QED
    BY <1>1, <1>2, <2>1, <2>2 DEF Control, BlockConnected, Heights, Filled
<1>3. CASE best # Parent[b]
  <2>1. /\ CanCopy(best, Parent[b])
        /\ byHash' = CopyHeightIndexToHashIndex(best, Parent[b])
        /\ best' = Parent[b] /\ oldBest' = best /\ handler' = "rewind"
    BY <1>3, Zenon DEF BlockConnected
  <2>2. best # NoBlock
    BY <1>3, TreeAssumption, Zenon DEF BlockConnected, Connects
  <2>3. best \in Block /\ best' \in Block
    BY <2>1, <2>2, AncestorsWithin, Zenon DEF BlockConnected, Connects, Types
  <2>4. byHash' \subseteq Block
    <3>1. \A h \in Heights : byHeight[h] \in Block \cup {NoBlock}
      BY DEF Types
    <3>2. HeightsOf(best, Parent[b]) \subseteq Heights
      BY Zenon DEF HeightsOf
    <3>. QED
      BY <2>1, <3>1, <3>2 DEF CanCopy, CopyHeightIndexToHashIndex, Types
  <2>5. Types'
    BY <2>1, <2>3, <2>4, Zenon DEF Types, BlockConnected, Heights
  <2>. QED
    BY <1>1, <2>1, <2>3, <2>5, Zenon DEF Control, BlockConnected, Heights, Filled
<1>. QED
  BY <1>2, <1>3, Zenon

LEMMA CallbackTypes ==
  ASSUME Types, Control, Callback
  PROVE  Types' /\ Control'
<1>. USE DEF chainVars, dbVars, indexVars, callVars, nodeVars
<1>1. CASE BlockConnectedIgnored
  BY <1>1, ReturnTypes, Zenon DEF BlockConnectedIgnored, Current, Types
<1>2. CASE BlockConnected
  BY <1>2, BlockConnectedTypes
<1>3. CASE RewindCommit
  <2>. USE <1>3
  <2>1. queue # <<>> /\ best \in Block /\ oldBest \in Block /\ tip \in Block /\ tip # NoBlock
    BY CurrentEvent DEF RewindCommit, Control
  <2>2. CASE locator' = best /\ handler' = "write" /\ UNCHANGED <<best, queue, stopping>>
    <3>1. Types'
      BY <2>1, <2>2, ZenonT(40) DEF Types, RewindCommit, Heights
    <3>. QED
      BY <2>1, <2>2, <3>1, Zenon DEF Control, RewindCommit, Heights, Filled
  <2>3. CASE kind = "filter" /\ best' = oldBest /\ FatalError /\ Return /\ UNCHANGED locator
    BY <2>1, <2>3, ReturnTypes DEF RewindCommit, Types
  <2>. QED
    BY <2>2, <2>3, SMTT(30) DEF RewindCommit
<1>4. CASE BlockConnectedWrite
  <2>. USE <1>4
  <2>. DEFINE b == queue[1].block
  <2>1. queue # <<>> /\ b \in Block /\ tip \in Block /\ tip # NoBlock
    BY CurrentEvent, Zenon DEF BlockConnectedWrite, Control
  <2>2. /\ byHeight' \in [Heights -> Block \cup {NoBlock}] /\ byHash' \subseteq Block
        /\ \A c \in Block : byHeight'[Height[c]] # NoBlock => Height[byHeight'[Height[c]]] = Height[c]
        /\ (kind = "tx" => byHeight' = byHeight) /\ locator' = locator /\ ahead' \subseteq Block
    BY <2>1, WriteTypes, Zenon DEF BlockConnectedWrite
  <2>3. queue' \in Seq(Event) /\ Filled' /\ handler' = "idle" /\ best' = b
    BY <2>1, ReturnedBlocks, Zenon DEF BlockConnectedWrite, Types, Control, Return
  <2>. HIDE DEF b
  <2>4. Types'
    BY <2>1, <2>2, <2>3 DEF Types, BlockConnectedWrite, Heights
  <2>. QED
    BY <2>1, <2>2, <2>3, <2>4, Zenon DEF Control, BlockConnectedWrite, Heights
<1>5. CASE BlockConnectedFails
  BY <1>5, ReturnTypes, Zenon DEF BlockConnectedFails, Current, Types, Control
<1>6. CASE ChainStateFlushed
  BY <1>6, ReturnTypes, Zenon DEF ChainStateFlushed, Current, Types, Commit, GetLocator
<1>7. CASE SyncCallback
  BY <1>7, ReturnTypes DEF SyncCallback, Current, Types
<1>. QED
  BY <1>1, <1>2, <1>3, <1>4, <1>5, <1>6, <1>7, Zenon DEF Callback

LEMMA TypeStep ==
  ASSUME Types, Control, [Next]_vars
  PROVE  Types' /\ Control'
<1>1. CASE Node
  <2>1. CASE Restart \/ Crash
    BY <2>1, TypeStart, ZenonT(40) DEF Restart, Crash
  <2>. QED
    BY <1>1, <2>1, SetTipTypes, FlushTypes, ShutdownTypes DEF Node
<1>2. CASE UNCHANGED vars
  BY <1>2 DEF vars, chainVars, dbVars, indexVars, callVars, nodeVars, Types, Control, Heights, Filled
<1>. QED
  BY <1>1, <1>2, ThreadSyncTypes, CallbackTypes, CallTypes DEF Next


-----------------------------------------------------------------------------
(* The data: what is in the index database at the position of ThreadSync   *)
(* and of the callbacks.                                                   *)

Safe(b) == Found(b) \/ b \in ahead

\* The index may go on from p: nothing is missing up to p, and an entry that
\* is found by its height only, which Rewind has to copy, is on the way to p.
Backed(p) ==
  /\ \A b \in ancestors[p] : Safe(b)
  /\ \A b \in Block : byHeight[Height[b]] = b /\ b \notin byHash \cup ahead => b \in ancestors[p]

Position ==
  /\ sync \in {"start", "loop"} => Backed(pindex)
  /\ sync \in {"commit", "write"} => Backed(Parent[pindex])
  /\ m_synced => Backed(best)
  /\ handler = "rewind" => Backed(oldBest)

\* What every step keeps of the data
Kept ==
  /\ \A b \in Block : Safe(b) => Safe(b)'
  /\ \A b \in Block : Found(b) => Found(b)' \/ b \in ahead

(* WriteBlock overwrites an entry of the same height, which is not on the  *)
(* way to the block before: it is in the hash index, or known to be at     *)
(* risk.                                                                   *)
LEMMA WriteKeeps ==
  ASSUME Types, NEW b \in Block, Backed(Parent[b]), WriteBlock(b)
  PROVE  Kept /\ Backed(b)'
<1>1. /\ Parent[b] \in Block \cup {NoBlock} /\ ancestors[b] = {b} \cup ancestors[Parent[b]]
      /\ ancestors[Parent[b]] \subseteq Block
  BY AncestorsOf, AncestorsWithin, ZenonT(40)
<1>3. \A c \in ancestors[Parent[b]] : Height[c] # Height[b]
  <2>1. SUFFICES ASSUME NEW c \in ancestors[Parent[b]], Height[c] = Height[b]
                 PROVE  FALSE
    BY Zenon
  <2>. QED
    BY <1>1, <2>1, AncestorsOf, TreeAssumption, SameHeight, AncestorsBelow
<1>4. ahead' = ahead \ {b}
  BY Zenon DEF WriteBlock
<1>5. CASE kind = "tx"
  BY <1>1, <1>4, <1>5, Zenon DEF WriteBlock, Backed, Kept, Safe, Found
<1>6. CASE kind # "tx"
  <2>1. byHeight' = [byHeight EXCEPT ![Height[b]] = b] /\ byHash' = byHash
    BY <1>6 DEF WriteBlock
  <2>2. /\ byHeight'[Height[b]] = b
        /\ \A c \in Block : Height[c] # Height[b] => byHeight'[Height[c]] = byHeight[Height[c]]
    BY <2>1 DEF Heights, Types
  <2>3. ASSUME NEW c \in Block, Found(c)
        PROVE  Found(c)' \/ (c \in ahead /\ c # b)
    <3>1. CASE c \in byHash \/ c = b \/ Height[c] # Height[b]
      BY <2>1, <2>2, <2>3, <3>1, Zenon DEF Found
    <3>2. CASE c \notin byHash /\ c # b /\ Height[c] = Height[b]
      <4>. QED
        BY <1>3, <2>3, <3>2, Zenon DEF Found, Backed
    <3>. QED
      BY <3>1, <3>2
  <2>. QED
    BY <1>1, <1>4, <2>1, <2>2, <2>3 DEF Found, Kept, Safe, Backed
<1>. QED
  BY <1>5, <1>6, Zenon

(* Rewind copies what the entries of the new chain will overwrite.         *)
LEMMA CopyKeeps ==
  ASSUME Types, Control, NEW from \in Block, NEW to \in ancestors[from], Backed(from),
         byHash' = CopyHeightIndexToHashIndex(from, to), UNCHANGED <<byHeight, ahead>>
  PROVE  Kept /\ Backed(from)' /\ Backed(to)'
<1>1. byHash \subseteq byHash'
  BY DEF CopyHeightIndexToHashIndex
<1>2. to \in Block /\ ancestors[from] \subseteq Block /\ ancestors[to] \subseteq ancestors[from]
  BY AncestorsIn, AncestorsBelow
<1>3. Kept
  BY <1>1, Zenon DEF Kept, Safe, Found
<1>4. Backed(from)'
  BY <1>1, <1>2, <1>3 DEF Kept, Backed
<1>6. ASSUME NEW c \in Block, byHeight'[Height[c]] = c, c \notin byHash' \cup ahead'
      PROVE  c \in ancestors[to]
  <2>. USE <1>6
  <2>1. c \in ancestors[from] /\ from \in ancestors[from]
    BY <1>1, <1>4, AncestorsIn DEF Backed
  <2>2. Height[c] \in Heights /\ NoBlock \notin Block
    BY TreeAssumption, Zenon DEF Heights
  <2>4. Height[c] \notin HeightsOf(from, to)
    BY <2>2 DEF Control, CopyHeightIndexToHashIndex
  <2>5. Height[c] \in Nat /\ Height[to] \in Nat /\ Height[from] \in Nat
    BY <1>2, TreeAssumption, Zenon
  <2>7. Height[c] < Height[to]
    BY <2>1, <2>2, <2>4, <2>5, AncestorsBelow, SMTT(30) DEF HeightsOf
  <2>8. Height[c] <= Height[to]
    BY <2>5, <2>7
  <2>. QED
    BY <2>1, <2>8, LowerAncestor, Zenon
<1>. QED
  BY <1>2, <1>3, <1>4, <1>6 DEF Backed

(* The history only grows: nothing else changes in the database.           *)
LEMMA AheadKeeps ==
  ASSUME ahead \subseteq ahead', UNCHANGED <<byHeight, byHash>>
  PROVE  Kept /\ \A p \in Block \cup {NoBlock} : Backed(p) => Backed(p)'
<1>. QED
  BY AncestorsWithin DEF Kept, Safe, Found, Backed


LEMMA SameData ==
  ASSUME UNCHANGED <<byHeight, byHash, ahead>>
  PROVE  Kept /\ \A p \in Block \cup {NoBlock} : Backed(p) => Backed(p)'
  BY AheadKeeps

(* The locator that is written is the old one, or is backed.               *)
LEMMA LocatorKept ==
  ASSUME Types, LocatorBacked, Kept, NEW l \in Block \cup {NoBlock}, locator' = l,
         l = locator \/ Backed(l)'
  PROVE  LocatorBacked'
<1>1. CASE l = locator
  BY <1>1, AncestorsWithin, Zenon DEF LocatorBacked, Kept, Safe, Types
<1>2. CASE Backed(l)'
  BY <1>2, Zenon DEF LocatorBacked, Backed, Safe
<1>. QED
  BY <1>1, <1>2, Zenon

(* The steps that leave the database and the positions as they are.        *)
LEMMA PositionSame ==
  ASSUME Types, Control, Position, LocatorBacked,
         UNCHANGED <<byHeight, byHash, ahead, locator, m_synced, best>>,
         (pindex' = pindex /\ sync' = sync) \/ sync' = "done",
         (handler' = handler /\ oldBest' = oldBest) \/ handler' = "idle" \/ handler' = "write"
  PROVE  Position' /\ LocatorBacked' /\ Kept
<1>. QED
  BY SameData DEF Position, Backed, Safe, Found, LocatorBacked

LEMMA PositionStart ==
  ASSUME Types, Control, Position, LocatorBacked, Start(flushed)
  PROVE  Position' /\ LocatorBacked' /\ Kept
<1>. DEFINE p == FindFork(locator, flushed)
<1>1. /\ locator \in Block \cup {NoBlock} /\ ancestors[locator] \subseteq Block
      /\ p \in Block \cup {NoBlock} /\ ancestors[p] \subseteq ancestors[locator]
  <2>1. locator \in Block \cup {NoBlock} /\ flushed \in Block \cup {NoBlock}
    BY DEF Types
  <2>2. p \in ancestors[locator] \cup {NoBlock}
    BY <2>1, ForkIn
  <2>. HIDE DEF p
  <2>. QED
    BY <2>1, <2>2, AncestorsWithin, AncestorsOf
<1>2. best' = p /\ locator' = locator /\ UNCHANGED <<byHeight, byHash>>
      /\ ahead' = ahead \cup {b \in Block : byHeight[Height[b]] = b /\ b \notin ancestors[p]}
  BY DEF Start
<1>3. handler' = "idle" /\ sync' \in {"start", "done"} /\ (sync' = "start" => pindex' = p)
  BY DEF Start, EndSync
<1>. HIDE DEF p
<1>4. Kept
  BY <1>2, AheadKeeps
<1>5. \A b \in ancestors[p] : Safe(b)'
  BY <1>1, <1>4 DEF Kept, LocatorBacked, Safe
<1>6. \A b \in Block : byHeight'[Height[b]] = b /\ b \notin byHash' \cup ahead' => b \in ancestors[p]
  BY <1>2, Zenon
<1>7. Position'
  BY <1>2, <1>3, <1>5, <1>6 DEF Position, Backed
<1>8. LocatorBacked'
  BY <1>1, <1>2, <1>4, LocatorKept
<1>. QED
  BY <1>4, <1>7, <1>8, Zenon


LEMMA PositionRewind ==
  ASSUME Types, Control, Position, LocatorBacked, SyncRewind
  PROVE  Position' /\ LocatorBacked' /\ Kept
<1>. USE DEF chainVars, dbVars, indexVars, callVars, nodeVars
<1>. DEFINE next == NextSyncBlock(pindex)
            to == Parent[next]
<1>1. tip \in Block /\ ~m_synced /\ handler = "idle" /\ pindex \in Block \cup {NoBlock}
      /\ Backed(pindex) /\ next # NoBlock /\ to # pindex
  BY Zenon DEF SyncRewind, Control, Types, Position
<1>2. next \in Block /\ pindex \in Block /\ to \in ancestors[pindex]
  BY <1>1, NextSync, Zenon
<1>3. to \in Block
  BY <1>2, AncestorsIn
<1>4. /\ UNCHANGED <<byHeight, ahead, m_synced, handler>>
      /\ \/ sync' = "done" /\ UNCHANGED <<locator, byHash>>
         \/ /\ byHash' = CopyHeightIndexToHashIndex(pindex, to)
            /\ \/ UNCHANGED <<locator, pindex, sync>>
               \/ locator' = to /\ pindex' = next /\ sync' \in {"commit", "write"}
               \/ sync' = "done" /\ UNCHANGED locator
  BY Zenon DEF SyncRewind, RewindAborts, RewindCommits, EndSync, SyncGoOn
<1>. HIDE DEF next
<1>5. CASE sync' = "done" /\ UNCHANGED <<locator, byHash>>
  <2>. USE <1>5
  <2>1. Kept
    BY <1>4, SameData, Zenon
  <2>2. LocatorBacked'
    BY <2>1, LocatorKept, Zenon DEF Types
  <2>. QED
    BY <1>1, <1>4, <2>1, <2>2 DEF Position
<1>6. CASE byHash' = CopyHeightIndexToHashIndex(pindex, to)
  <2>1. PICK f \in Block : f = pindex
    BY <1>2
  <2>2. PICK t \in ancestors[f] : t = to
    BY <1>2, <2>1, Zenon
  <2>3. Kept /\ Backed(f)' /\ Backed(t)'
    BY <1>1, <1>4, <1>6, <2>1, <2>2, CopyKeeps, SMTT(30)
  <2>4. CASE UNCHANGED <<locator, pindex, sync>>
    <3>1. LocatorBacked'
      BY <2>3, <2>4, LocatorKept DEF Types
    <3>2. sync' \in {"start", "loop"} /\ Backed(pindex)'
      BY <2>1, <2>3, <2>4, Zenon DEF SyncRewind, Backed
    <3>3. Position'
      BY <1>1, <1>4, <3>2, Zenon DEF Position
    <3>. QED
      BY <2>3, <3>1, <3>3, Zenon
  <2>5. CASE locator' = to /\ pindex' = next /\ sync' \in {"commit", "write"}
    <3>1. LocatorBacked'
      BY <1>3, <2>2, <2>3, <2>5, LocatorKept, Zenon
    <3>. QED
      BY <1>1, <1>4, <2>2, <2>3, <2>5, <3>1, Zenon DEF Position, Backed
  <2>6. CASE sync' = "done" /\ UNCHANGED locator
    <3>1. LocatorBacked'
      BY <2>3, <2>6, LocatorKept DEF Types
    <3>. QED
      BY <1>1, <1>4, <2>3, <2>6, <3>1, Zenon DEF Position
  <2>. QED
    BY <1>4, <1>6, <2>4, <2>5, <2>6, <1>5, Zenon
<1>. QED
  BY <1>4, <1>5, <1>6

LEMMA PositionSync ==
  ASSUME Types, Control, Position, LocatorBacked, ThreadSync
  PROVE  Position' /\ LocatorBacked' /\ Kept
<1>. USE DEF chainVars, dbVars, indexVars, callVars, nodeVars
<1>1. NoBlock \notin Block
  BY TreeAssumption
<1>2. CASE SyncInterrupted
  <2>. USE <1>2
  <2>1. tip \in Block /\ ~m_synced /\ handler = "idle" /\ pindex \in Block \cup {NoBlock} /\ Backed(pindex)
    BY DEF SyncInterrupted, Control, Types, Position
  <2>2. ahead \subseteq ahead' /\ UNCHANGED <<byHeight, byHash, m_synced, handler>> /\ sync' = "done"
    BY DEF SyncInterrupted, EndSync
  <2>3. Kept /\ \A p \in Block \cup {NoBlock} : Backed(p) => Backed(p)'
    BY <2>2, AheadKeeps, Zenon
  <2>4. CASE locator' = locator
    <3>. QED
      BY <2>1, <2>2, <2>3, <2>4, LocatorKept, Zenon DEF Types, Position
  <2>5. CASE locator' # locator /\ pindex = NoBlock
    <3>1. locator' = tip /\ ahead' = ahead \cup {b \in ancestors[tip] : ~Found(b)}
      BY <2>5 DEF SyncInterrupted, Commit, GetLocator
    <3>2. LocatorBacked'
      BY <2>2, <3>1, Zenon DEF LocatorBacked, Found
    <3>. QED
      BY <2>1, <2>2, <2>3, <3>2, SMTT(30) DEF Position
  <2>6. CASE locator' # locator /\ pindex # NoBlock
    <3>1. locator' = pindex
      BY <2>6 DEF SyncInterrupted, Commit, GetLocator
    <3>2. LocatorBacked'
      BY <2>1, <2>3, <3>1, LocatorKept
    <3>. QED
      BY <2>1, <2>2, <2>3, <3>2 DEF Position
  <2>. QED
    BY <2>4, <2>5, <2>6, ZenonT(40)
<1>3. CASE SyncLast
  BY <1>3, SameData, LocatorKept, Zenon DEF SyncLast, Control, Types, Position, Backed, Safe, Found
<1>4. CASE SyncCommitLast
  <2>. USE <1>4
  <2>1. best \in Block /\ m_synced /\ Backed(best) /\ best # NoBlock
    BY <1>1, Zenon DEF SyncCommitLast, Control, Position
  <2>2. Kept /\ \A p \in Block \cup {NoBlock} : Backed(p) => Backed(p)'
    BY SameData DEF SyncCommitLast
  <2>3. locator' = best \/ locator' = locator
    BY <2>1, Zenon DEF SyncCommitLast, Commit, GetLocator
  <2>4. LocatorBacked'
    BY <2>1, <2>2, <2>3, LocatorKept DEF Types
  <2>5. Position'
    BY Zenon DEF SyncCommitLast, Position, EndSync, Backed, Safe, Found
  <2>. QED
    BY <2>2, <2>4, <2>5
<1>5. CASE SyncNext
  <2>. USE <1>5
  <2>1. Parent[pindex'] = pindex /\ sync' \in {"commit", "write"} /\ Backed(pindex)
        /\ ~m_synced /\ handler = "idle"
    BY DEF SyncNext, SyncGoOn, Position, Control, Types
  <2>2. Kept
    BY SameData DEF SyncNext
  <2>3. LocatorBacked'
    BY <2>2, LocatorKept, Zenon DEF SyncNext, Types
  <2>4. Position'
    BY <2>1, Zenon DEF SyncNext, Position, Backed, Safe, Found
  <2>. QED
    BY <2>2, <2>3, <2>4, ZenonT(40)
<1>6. CASE SyncRewind
  BY <1>6, PositionRewind
<1>7. CASE SyncCommit
  <2>. USE <1>7
  <2>1. pindex \in Block /\ pindex # NoBlock /\ ~m_synced /\ handler = "idle" /\ Backed(Parent[pindex])
        /\ Parent[pindex] \in Block \cup {NoBlock}
        /\ ancestors[pindex] = {pindex} \cup ancestors[Parent[pindex]]
    BY <1>1, AncestorsOf, Zenon DEF SyncCommit, Control, Types, Position
  <2>2. ahead \subseteq ahead' /\ UNCHANGED <<byHeight, byHash, m_synced, handler, pindex>> /\ sync' = "write"
    BY DEF SyncCommit
  <2>3. Kept /\ \A p \in Block \cup {NoBlock} : Backed(p) => Backed(p)'
    BY <2>2, AheadKeeps, Zenon
  <2>4. PICK q \in Block \cup {NoBlock} : q = Parent[pindex]
    BY <2>1
  <2>5. Backed(q)'
    BY <2>1, <2>3, <2>4
  <2>6. Position'
    BY <2>1, <2>2, <2>4, <2>5, Zenon DEF Position, Backed
  <2>7. CASE locator' = locator
    BY <2>3, <2>6, <2>7, LocatorKept DEF Types
  <2>8. CASE locator' # locator
    <3>1. locator' = pindex /\ (Found(pindex) \/ pindex \in ahead')
      BY <2>1, <2>8, Zenon DEF SyncCommit, Commit, GetLocator
    <3>2. LocatorBacked'
      BY <2>1, <2>2, <2>4, <2>5, <3>1, Zenon DEF LocatorBacked, Backed, Safe, Found
    <3>. QED
      BY <2>3, <2>6, <3>2
  <2>. QED
    BY <2>7, <2>8
<1>8. CASE SyncFails
  BY <1>8, PositionSame DEF SyncFails, EndSync
<1>9. CASE SyncWrite
  <2>. USE <1>9
  <2>1. pindex \in Block /\ ~m_synced /\ handler = "idle" /\ Backed(Parent[pindex])
    BY <1>1 DEF SyncWrite, Control, Types, Position
  <2>2. PICK b \in Block : b = pindex
    BY <2>1
  <2>3. Kept /\ Backed(b)'
    BY <2>1, <2>2, WriteKeeps, Zenon DEF SyncWrite
  <2>4. LocatorBacked'
    BY <2>3, LocatorKept DEF SyncWrite, WriteBlock, Types
  <2>5. Position'
    BY <2>1, <2>2, <2>3, Zenon DEF SyncWrite, Position, Backed
  <2>. QED
    BY <2>3, <2>4, <2>5, ZenonT(40)
<1>. QED
  BY <1>2, <1>3, <1>4, <1>5, <1>6, <1>7, <1>8, <1>9, SMTT(30) DEF ThreadSync


LEMMA PositionCallback ==
  ASSUME Types, Control, Position, LocatorBacked, Callback
  PROVE  Position' /\ LocatorBacked' /\ Kept
<1>. USE DEF chainVars, dbVars, indexVars, callVars, nodeVars
<1>1. NoBlock \notin Block
  BY TreeAssumption
<1>2. CASE BlockConnectedIgnored
  BY <1>2, PositionSame DEF BlockConnectedIgnored, Return
<1>3. CASE BlockConnected
  <2>. USE <1>3
  <2>. DEFINE b == queue[1].block
  <2>1. b \in Block /\ m_synced /\ Backed(best) /\ sync \in {"last", "done"} /\ best \in Block \cup {NoBlock}
    BY CurrentEvent, Zenon DEF BlockConnected, Current, Control, Position, Types
  <2>2. CASE best = Parent[b]
    BY <2>2, PositionSame, Zenon DEF BlockConnected
  <2>3. CASE best # Parent[b]
    <3>1. /\ byHash' = CopyHeightIndexToHashIndex(best, Parent[b])
          /\ best' = Parent[b] /\ oldBest' = best
          /\ UNCHANGED <<byHeight, ahead, locator, m_synced, sync, pindex>>
      BY <2>3, Zenon DEF BlockConnected
    <3>2. best # NoBlock /\ Parent[b] \in ancestors[best]
      BY <2>3, TreeAssumption, Zenon DEF BlockConnected, Connects
    <3>3. PICK f \in Block : f = best
      BY <2>1, <3>2, Zenon
    <3>4. PICK t \in ancestors[f] : t = Parent[b]
      BY <3>2, <3>3, Zenon
    <3>5. Kept /\ Backed(f)' /\ Backed(t)'
      BY <2>1, <3>1, <3>3, <3>4, CopyKeeps
    <3>6. LocatorBacked'
      BY <3>1, <3>5, LocatorKept, Zenon DEF Types
    <3>7. Position'
      BY <2>1, <3>1, <3>3, <3>4, <3>5, Zenon DEF Position, Backed
    <3>. QED
      BY <3>5, <3>6, <3>7, Zenon
  <2>. QED
    BY <2>2, <2>3
<1>4. CASE RewindCommit
  <2>1. m_synced /\ Backed(best) /\ Backed(oldBest) /\ best \in Block
        /\ sync \in {"last", "done"} /\ handler' # "rewind"
        /\ UNCHANGED <<byHeight, byHash, ahead, m_synced, sync, pindex>>
    BY <1>4 DEF RewindCommit, Control, Position, Return
  <2>2. Kept /\ \A p \in Block \cup {NoBlock} : Backed(p) => Backed(p)'
    BY <2>1, SameData
  <2>3. CASE locator' = best /\ best' = best
    <3>1. LocatorBacked'
      BY <2>1, <2>2, <2>3, LocatorKept
    <3>2. Position'
      BY <2>1, <2>3, Zenon DEF Position, Backed, Safe, Found
    <3>. QED
      BY <2>2, <3>1, <3>2
  <2>4. CASE locator' = locator /\ best' = oldBest
    <3>1. LocatorBacked'
      BY <2>2, <2>4, LocatorKept DEF Types
    <3>2. Position'
      BY <2>1, <2>4, Zenon DEF Position, Backed, Safe, Found
    <3>. QED
      BY <2>2, <3>1, <3>2
  <2>. QED
    BY <1>4, <2>3, <2>4, ZenonT(40) DEF RewindCommit
<1>5. CASE BlockConnectedWrite
  <2>. USE <1>5
  <2>1. m_synced /\ Backed(best) /\ best = Parent[queue[1].block] /\ queue # <<>>
        /\ sync \in {"last", "done"}
    BY Zenon DEF BlockConnectedWrite, Control, Position
  <2>2. PICK b \in Block : b = queue[1].block
    BY <2>1, CurrentEvent, ZenonT(40) DEF BlockConnectedWrite
  <2>3. Kept /\ Backed(b)'
    BY <2>1, <2>2, WriteKeeps DEF BlockConnectedWrite
  <2>4. LocatorBacked'
    BY <2>3, LocatorKept, Zenon DEF BlockConnectedWrite, WriteBlock, Types
  <2>5. Position'
    BY <2>1, <2>2, <2>3, Zenon DEF BlockConnectedWrite, Return, Position, Backed
  <2>. QED
    BY <2>3, <2>4, <2>5
<1>6. CASE BlockConnectedFails
  BY <1>6, PositionSame, Zenon DEF BlockConnectedFails, Return
<1>7. CASE ChainStateFlushed
  <2>1. /\ UNCHANGED <<byHeight, byHash, ahead, m_synced, best, sync, pindex>> /\ handler' = "idle"
        /\ locator' = locator \/ (m_synced /\ locator' = GetLocator(best) /\ queue[1].block \in ancestors[best])
    BY <1>7, Zenon DEF ChainStateFlushed, Return, Commit
  <2>3. CASE locator' = locator
    BY <2>1, <2>3, PositionSame
  <2>4. CASE m_synced /\ locator' = GetLocator(best) /\ queue[1].block \in ancestors[best]
    <3>3. Position'
      BY <2>1, Zenon DEF Position, Backed, Safe, Found
    <3>. QED
      BY <2>1, <2>4, <3>3, AncestorsOf, SameData, LocatorKept, Zenon DEF Types, Position, GetLocator
  <2>. QED
    BY <2>1, <2>3, <2>4, Zenon
<1>8. CASE SyncCallback
  BY <1>8, PositionSame DEF SyncCallback, Return
<1>. QED
  BY <1>2, <1>3, <1>4, <1>5, <1>6, <1>7, <1>8, SMTT(30) DEF Callback

LEMMA PositionStep ==
  ASSUME Types, Control, Position, LocatorBacked, [Next]_vars
  PROVE  Position' /\ LocatorBacked' /\ Kept
  BY PositionStart, PositionSame, PositionSync, PositionCallback, Zenon DEF chainVars, dbVars, indexVars,
     callVars, nodeVars, Restart, Crash, SetTip, FlushStateToDisk, StartShutdown, Interrupt,
     Shutdown, Node, Call, BlockUntilSyncedToCurrentChain, SyncWithValidationInterfaceQueue,
     CallReturns, vars, Next

LEMMA PositionInit == ASSUME Init PROVE Position /\ LocatorBacked
<1>1. ancestors[NoBlock] = {} /\ NoBlock \notin Block
  BY AncestorsOf, TreeAssumption
<1>2. \A b \in Block : byHeight[Height[b]] = NoBlock
  BY Zenon DEF Init, Heights
<1>. QED
  BY <1>1, <1>2, Zenon DEF Init, Position, Backed, LocatorBacked


-----------------------------------------------------------------------------
(* The queue: which blocks it holds, and where they lead.                  *)

Conn == {i \in 1 .. Len(queue) : queue[i].type = "connected"}

\* A connected block sits on the chain of the one before it in the queue, and
\* the tip is on the chain of the last one.
Ordered ==
  /\ \A i, j \in Conn : i < j /\ (\A k \in Conn : k <= i \/ j <= k) =>
        Parent[queue[j].block] \in ancestors[queue[i].block]
  /\ \A i \in Conn : (\A k \in Conn : k <= i) => tip \in ancestors[queue[i].block]

\* The index is at the tip, or will join the blocks in the queue.
Following ==
  m_synced /\ stopping = "no" =>
    tip \in ancestors[best] \cup {NoBlock} \/ \E i \in Conn : Connects(queue[i].block)

LEMMA ConnIn ==
  ASSUME Types, Control
  PROVE  /\ Len(queue) \in Nat /\ Conn \subseteq 1 .. Len(queue)
         /\ \A i \in Conn : i \in Nat \ {0} /\ queue[i].block \in Block /\ queue[i].type = "connected"
  BY DEF Types, Control, Filled, Conn

LEMMA NextConnected ==
  ASSUME Types, Control, Ordered, 1 \in Conn, NEW j \in Conn, j # 1
  PROVE  \E k \in Conn : 1 < k /\ k <= j /\ Parent[queue[k].block] \in ancestors[queue[1].block]
<1>1. Len(queue) \in Nat /\ \A i \in Conn : i \in Nat \ {0}
  BY ConnIn, Zenon
<1>. DEFINE S == {k \in Conn : k # 1}
<1>2. S \in SUBSET Nat /\ S # {} /\ j \in S
  BY <1>1, Zenon
<1>3. PICK k \in S : \A n \in S : k <= n
  <2>. HIDE DEF S
  <2>. QED
    BY <1>2, LeastNat, Zenon
<1>4. k \in Conn /\ 1 < k /\ k <= j
  BY <1>1, <1>2, <1>3
<1>. QED
  BY <1>1, <1>3, <1>4 DEF Ordered

LEMMA LastConnected ==
  ASSUME Types, Control, Ordered, NEW i \in Conn
  PROVE  \E j \in Conn : i <= j /\ (\A k \in Conn : k <= j) /\ tip \in ancestors[queue[j].block]
<1>1. Len(queue) \in Nat /\ Conn \subseteq 1 .. Len(queue)
  BY ConnIn, Zenon
<1>. DEFINE S == {Len(queue) - k : k \in Conn}
<1>2. S \in SUBSET Nat /\ S # {}
  BY <1>1
<1>3. PICK m \in S : \A n \in S : m <= n
  <2>. HIDE DEF S
  <2>. QED
    BY <1>2, LeastNat, Zenon
<1>4. PICK j \in Conn : m = Len(queue) - j
  BY <1>3, Zenon
<1>5. \A k \in Conn : k <= j
  <2>1. SUFFICES ASSUME NEW k \in Conn PROVE k <= j
    BY Zenon
  <2>2. Len(queue) - j <= Len(queue) - k
    BY <1>3, <1>4, Zenon
  <2>. QED
    BY <1>1, <2>2
<1>. QED
  BY <1>5, Zenon DEF Ordered

LEMMA ConnPushed ==
  ASSUME Types, Control, NEW type \in {"connected", "flushed", "sync"},
         NEW path \in Seq(Block \cup {NoBlock}), Push(Events(type, path))
  PROVE  /\ Conn' = IF type = "connected" THEN Conn \cup (Len(queue) + 1 .. Len(queue) + Len(path)) ELSE Conn
         /\ \A i \in Conn : queue'[i] = queue[i]
         /\ \A i \in 1 .. Len(path) : queue'[Len(queue) + i].block = path[i]
         /\ Len(queue) \in Nat /\ Len(path) \in Nat /\ Conn \subseteq 1 .. Len(queue)
<1>0. queue \in Seq(Event)
  BY Zenon DEF Types
<1>1. /\ Len(queue') = Len(queue) + Len(path) /\ Len(queue) \in Nat
      /\ Len(path) \in Nat
      /\ \A i \in 1 .. Len(queue) : queue'[i] = queue[i]
      /\ \A i \in 1 .. Len(path) : /\ queue'[Len(queue) + i].type = type
                                   /\ queue'[Len(queue) + i].block = path[i]
  BY <1>0, Pushed
<1>3. \A i \in Len(queue) + 1 .. Len(queue) + Len(path) :
        i \in 1 .. Len(queue') /\ i \notin 1 .. Len(queue) /\ queue'[i].type = type
  <2>1. SUFFICES ASSUME NEW i \in Len(queue) + 1 .. Len(queue) + Len(path)
                 PROVE  i \in 1 .. Len(queue') /\ i \notin 1 .. Len(queue) /\ queue'[i].type = type
    BY Zenon
  <2>2. i - Len(queue) \in 1 .. Len(path) /\ i = Len(queue) + (i - Len(queue))
    BY <1>1
  <2>3. queue'[i].type = type
    BY <1>1, <2>2, Zenon
  <2>. QED
    BY <1>1, <2>3
<1>4. 1 .. Len(queue) \subseteq 1 .. Len(queue')
  BY <1>1
<1>5. Conn' = IF type = "connected" THEN Conn \cup (Len(queue) + 1 .. Len(queue) + Len(path)) ELSE Conn
  BY <1>1, <1>3, <1>4, SMTT(30) DEF Conn
<1>. QED
  BY <1>1, <1>5, Zenon DEF Conn

LEMMA ConnReturned ==
  ASSUME Types, Control, queue # <<>>, Return
  PROVE  /\ \A i \in Conn' : i \in Nat \ {0} /\ i + 1 \in Conn /\ queue'[i] = queue[i + 1]
         /\ \A i \in Conn : i # 1 => i - 1 \in Conn' /\ i - 1 + 1 = i /\ queue'[i - 1] = queue[i]
<1>1. /\ queue' \in Seq(Event) /\ Len(queue') = Len(queue) - 1 /\ Len(queue) \in Nat \ {0}
      /\ \A i \in 1 .. Len(queue') : queue'[i] = queue[i + 1]
  BY Returned, Zenon DEF Types
<1>2. \A i \in 1 .. Len(queue') : i + 1 \in 1 .. Len(queue) /\ i \in Nat \ {0}
  BY <1>1
<1>. QED
  BY <1>1, <1>2 DEF Conn


LEMMA OrderedSetTip ==
  ASSUME Types, Control, Ordered, NEW b \in Block, SetTip(b)
  PROVE  Ordered'
<1>. DEFINE P == Path(tip, b)
            n == Len(queue)
            m == Len(P)
<1>0. tip \in Block \cup {NoBlock} /\ tip' = b
  BY Zenon DEF Types, SetTip
<1>1. /\ P \in Seq(Block) /\ (P = <<>> <=> b \in ancestors[tip])
      /\ \A i \in 1 .. m - 1 : Parent[P[i + 1]] = P[i]
      /\ P # <<>> => P[m] = b /\ (tip # NoBlock => Parent[P[1]] \in ancestors[tip])
  BY <1>0, PathOf, ZenonT(40)
<1>. HIDE DEF P
<1>2. P \in Seq(Block \cup {NoBlock}) /\ m \in Nat /\ (m = 0 <=> P = <<>>) /\ \A i \in 1 .. m : P[i] \in Block
  BY <1>1
<1>3. /\ Conn' = Conn \cup (n + 1 .. n + m)
      /\ \A i \in Conn : queue'[i] = queue[i]
      /\ \A i \in 1 .. m : queue'[n + i].block = P[i]
      /\ n \in Nat /\ Conn \subseteq 1 .. n
  BY <1>2, ConnPushed, Zenon DEF SetTip, P
<1>4. \A i \in Conn : queue[i].block \in Block /\ tip \in Block /\ tip # NoBlock
  BY ConnIn, CurrentEvent, SMTT(30) DEF Conn
<1>. HIDE DEF n, m
<1>5. \A i \in n + 1 .. n + m : i - n \in 1 .. m /\ n + (i - n) = i /\ queue'[i].block = P[i - n]
  BY <1>2, <1>3, SMTT(30)
<1>6. ASSUME NEW i \in Conn, \A k \in Conn : k <= i, NEW c \in ancestors[tip]
      PROVE  c \in ancestors[queue[i].block]
  BY <1>4, <1>6, AncestorsBelow, Zenon DEF Ordered
<1>7. ASSUME NEW i \in Conn', NEW j \in Conn', i < j, \A k \in Conn' : k <= i \/ j <= k
      PROVE  Parent[queue'[j].block] \in ancestors[queue'[i].block]
  <2>. USE <1>7
  <2>1. CASE j \in Conn
    <3>1. i \in Conn
      BY <1>2, <1>3, <2>1
    <3>. QED
      BY <1>3, <2>1, <3>1, Zenon DEF Ordered
  <2>2. CASE i \in Conn /\ j \in n + 1 .. n + m
    <3>. USE <2>2
    <3>2. ~(n + 1 <= i)
      BY <1>3
    <3>3. j = n + 1
      BY <1>2, <1>3, <3>2, SMTT(30)
    <3>4. queue'[j].block = P[1] /\ P # <<>>
      BY <1>2, <1>3, <1>5, <3>3, SMTT(30)
    <3>5. \A k \in Conn : k <= i
      <4>1. SUFFICES ASSUME NEW k \in Conn PROVE k <= i
        BY Zenon
      <4>. QED
        BY <1>3, <3>3
    <3>. QED
      BY <1>1, <1>3, <1>4, <1>6, <3>4, <3>5, Zenon
  <2>3. CASE i \in n + 1 .. n + m /\ j \in n + 1 .. n + m
    <3>. USE <2>3
    <3>3. j = i + 1 /\ i - n \in 1 .. m - 1 /\ j - n = (i - n) + 1
      BY <1>2, <1>3
    <3>4. Parent[P[j - n]] = P[i - n] /\ P[i - n] \in Block
      BY <1>1, <1>2, <1>5, <3>3, Zenon DEF m
    <3>. QED
      BY <1>5, <3>4, AncestorsIn, Zenon
  <2>. QED
    BY <1>3, <2>1, <2>2, <2>3, Zenon
<1>8. ASSUME NEW i \in Conn', \A k \in Conn' : k <= i
      PROVE  b \in ancestors[queue'[i].block]
  <2>1. CASE m = 0
    <3>1. Conn' = Conn
      BY <1>3, <2>1
    <3>. QED
      BY <1>1, <1>2, <1>3, <1>6, <1>8, <2>1, <3>1, Zenon
  <2>2. CASE m # 0
    <3>1. n + m \in n + 1 .. n + m
      BY <1>2, <1>3, <2>2
    <3>2. n + m <= i
      BY <1>3, <1>8, <3>1, Zenon
    <3>3. i = n + m /\ i - n = m
      BY <1>2, <1>3, <3>2
    <3>4. queue'[i].block = P[m] /\ P[m] = b
      BY <1>1, <1>2, <1>5, <2>2, <3>1, <3>3, Zenon
    <3>. QED
      BY <3>4, AncestorsIn, Zenon
  <2>. QED
    BY <2>1, <2>2, Zenon
<1>. QED
  BY <1>0, <1>7, <1>8, Zenon DEF Ordered

LEMMA OrderedReturn ==
  ASSUME Types, Control, Ordered, queue # <<>>, Return, tip' = tip
  PROVE  Ordered'
<1>1. /\ \A i \in Conn' : i \in Nat \ {0} /\ i + 1 \in Conn /\ queue'[i] = queue[i + 1]
      /\ \A i \in Conn : i # 1 => i - 1 \in Conn' /\ i - 1 + 1 = i /\ queue'[i - 1] = queue[i]
  BY ConnReturned, Zenon
<1>2. \A i \in Conn : i \in Nat \ {0}
  BY ConnIn, Zenon
<1>3. ASSUME NEW i \in Conn', NEW j \in Conn', i < j, \A k \in Conn' : k <= i \/ j <= k
      PROVE  Parent[queue'[j].block] \in ancestors[queue'[i].block]
  <2>2. ASSUME NEW k \in Conn
        PROVE  k <= i + 1 \/ j + 1 <= k
    <3>1. CASE k = 1
      BY <1>1, <3>1
    <3>2. CASE k # 1
      BY <1>1, <1>2, <1>3, <3>2, SMTT(30)
    <3>. QED
      BY <3>1, <3>2, Zenon
  <2>. QED
    BY <1>1, <1>3, <2>2 DEF Ordered
<1>4. ASSUME NEW i \in Conn', \A k \in Conn' : k <= i
      PROVE  tip' \in ancestors[queue'[i].block]
  BY <1>1, <1>2, <1>4 DEF Ordered
<1>. QED
  BY <1>3, <1>4, Zenon DEF Ordered


(* A step that pushes no connected block, or leaves the queue as it is.    *)
SameConn == Conn' = Conn /\ \A i \in Conn : queue'[i] = queue[i]

LEMMA QuietQueue ==
  ASSUME Types, Control,
         queue' = queue \/ FlushStateToDisk \/ Shutdown \/ SyncWithValidationInterfaceQueue
  PROVE  SameConn
<1>1. CASE queue' = queue
  BY <1>1, Zenon DEF SameConn, Conn
<1>2. ASSUME NEW t \in Block \cup {NoBlock}, NEW type \in {"flushed", "sync"}, Push(Events(type, <<t>>))
      PROVE  SameConn
  <2>1. <<t>> \in Seq(Block \cup {NoBlock})
    OBVIOUS
  <2>. QED
    BY <1>2, <2>1, ConnPushed, Zenon DEF SameConn
<1>3. CASE FlushStateToDisk
  BY <1>2, <1>3, Zenon DEF FlushStateToDisk, Types
<1>4. CASE Shutdown
  <2>1. CASE tip = NoBlock
    BY <1>1, <1>4, <2>1 DEF Shutdown, Push, Types
  <2>2. CASE tip # NoBlock
    BY <1>2, <1>4, <2>2, Zenon DEF Shutdown, Types
  <2>. QED
    BY <2>1, <2>2, Zenon
<1>5. CASE SyncWithValidationInterfaceQueue
  BY <1>2, <1>5, Zenon DEF SyncWithValidationInterfaceQueue
<1>. QED
  BY <1>1, <1>3, <1>4, <1>5, Zenon

(* What a step can do to the queue and to the tip.                         *)
LEMMA QueueSteps ==
  ASSUME Types, Control, [Next]_vars
  PROVE  \/ \E b \in Block : SetTip(b)
         \/ SameConn /\ tip' = tip
         \/ queue # <<>> /\ Return /\ tip' = tip
         \/ Start(flushed)
<1>. USE DEF chainVars, dbVars, indexVars, callVars, nodeVars
<1>1. CASE Node
  BY <1>1, QuietQueue, Zenon DEF StartShutdown, Interrupt, FlushStateToDisk, Shutdown, Node, Restart,
     Crash
<1>2. CASE ThreadSync
  <2>. QED
    BY <1>2, QuietQueue, Zenon DEF ThreadSync, SyncInterrupted, SyncLast, SyncCommitLast, SyncNext,
       SyncRewind, SyncCommit, SyncFails, SyncWrite
<1>3. CASE Callback
  BY <1>3, QuietQueue, Zenon DEF BlockConnected, RewindCommit, Control, BlockConnectedIgnored,
     ChainStateFlushed, SyncCallback, Current, BlockConnectedWrite, BlockConnectedFails, Callback
<1>4. CASE Call
  BY <1>4, QuietQueue, Zenon DEF SyncWithValidationInterfaceQueue, BlockUntilSyncedToCurrentChain,
     CallReturns, Call
<1>5. CASE UNCHANGED vars
  BY <1>5, QuietQueue, Zenon DEF vars
<1>. QED
  BY <1>1, <1>2, <1>3, <1>4, <1>5, Zenon DEF Next

LEMMA OrderedStep ==
  ASSUME Types, Control, Ordered, [Next]_vars
  PROVE  Ordered'
<1>1. CASE SameConn /\ tip' = tip
  BY <1>1, Zenon DEF SameConn, Ordered
<1>2. CASE Start(flushed)
  <2>1. Conn' = {}
    BY <1>2 DEF Start, Conn
  <2>. QED
    BY <2>1, Zenon DEF Ordered
<1>. QED
  BY <1>1, <1>2, QueueSteps, OrderedSetTip, OrderedReturn, Zenon

(* A callback that leaves the index where it is, and was not for a block   *)
(* that connects.                                                          *)
LEMMA ConnectsLater ==
  ASSUME Types, Control, queue # <<>>, Return, best' = best,
         queue[1].type = "connected" => ~Connects(queue[1].block)
  PROVE  \A i \in Conn : Connects(queue[i].block) => i # 1 /\ i - 1 \in Conn' /\ Connects(queue[i - 1].block)'
  BY ConnReturned, Zenon DEF Connects, Conn

(* The block of the callback is indexed: the blocks after it connect.      *)
LEMMA ConnectsNext ==
  ASSUME Types, Control, Ordered, queue # <<>>, queue[1].type = "connected", Return,
         best' = queue[1].block, NEW j \in Conn, j # 1
  PROVE  \E i \in Conn' : i <= j - 1 /\ Connects(queue[i].block)'
<1>2. 1 \in Conn /\ queue[1].block \in Block /\ queue[1].block # NoBlock
  BY CurrentEvent, TreeAssumption, Zenon DEF Conn
<1>3. PICK k \in Conn : 1 < k /\ k <= j /\ Parent[queue[k].block] \in ancestors[queue[1].block]
  BY <1>2, NextConnected, Zenon
<1>5. k # 1 /\ k - 1 <= j - 1
  BY <1>3, ConnIn
<1>. QED
  BY <1>2, <1>3, <1>5, ConnReturned, Zenon DEF Connects


(* The block that the handler is at connects.                              *)
LEMMA HandledConnects ==
  ASSUME Types, Control, handler # "idle"
  PROVE  1 \in Conn /\ Connects(queue[1].block) /\ queue[1].block \in Block /\ queue # <<>>
         /\ queue[1].type = "connected"
<1>1. /\ queue # <<>> /\ queue[1].type = "connected" /\ best = Parent[queue[1].block]
      /\ 1 \in 1 .. Len(queue) /\ queue[1].block \in Block
  BY CurrentEvent, Zenon DEF Control
<1>. QED
  BY <1>1, AncestorsOf, TreeAssumption, AncestorsIn, Zenon DEF Conn, Connects

LEMMA FollowingSame ==
  ASSUME Following, SameConn, tip' = tip, best' = best, m_synced' => m_synced,
         stopping' = "no" => stopping = "no"
  PROVE  Following'
  BY Zenon DEF Following, SameConn, Connects

LEMMA FollowingSetTip ==
  ASSUME Types, Control, Following, NEW b \in Block, SetTip(b)
  PROVE  Following'
<1>. USE DEF chainVars, dbVars, indexVars, callVars, nodeVars
<1>. DEFINE P == Path(tip, b)
<1>0. tip \in Block \cup {NoBlock} /\ tip' = b /\ best' = best /\ m_synced' = m_synced /\ stopping' = stopping
      /\ best \in Block \cup {NoBlock}
  BY Zenon DEF Types, SetTip
<1>1. /\ P \in Seq(Block) /\ (P = <<>> <=> b \in ancestors[tip])
      /\ P # <<>> => IF tip = NoBlock THEN P[1] = Genesis ELSE Parent[P[1]] \in ancestors[tip]
  BY <1>0, PathOf, ZenonT(40)
<1>. HIDE DEF P
<1>2. P \in Seq(Block \cup {NoBlock}) /\ (P # <<>> => 1 \in 1 .. Len(P)) /\ Len(P) \in Nat
  BY <1>1
<1>3. /\ Conn' = Conn \cup (Len(queue) + 1 .. Len(queue) + Len(P))
      /\ \A i \in Conn : queue'[i] = queue[i]
      /\ \A i \in 1 .. Len(P) : queue'[Len(queue) + i].block = P[i]
      /\ Len(queue) \in Nat
  BY <1>2, ConnPushed, Zenon DEF SetTip, P
<1>4. CASE \E i \in Conn : Connects(queue[i].block)
  BY <1>0, <1>3, <1>4, Zenon DEF Following, Connects
<1>5. CASE tip \in ancestors[best] /\ P = <<>>
  <2>. QED
    BY <1>0, <1>1, <1>5, AncestorsWithin, Zenon DEF Following
<1>6. CASE tip \in ancestors[best] \cup {NoBlock} /\ P # <<>>
  <2>. USE <1>6
  <2>1. Len(queue) + 1 \in Conn' /\ queue'[Len(queue) + 1].block = P[1]
    BY <1>2, <1>3
  <2>2. CASE tip \in ancestors[best]
    <3>1. best # NoBlock /\ tip # NoBlock
      BY <1>0, <2>2, AncestorsOf, AncestorsWithin, TreeAssumption, Zenon
    <3>2. Parent[P[1]] \in ancestors[best]
      BY <1>0, <1>1, <2>2, <3>1, AncestorsWithin, Zenon
    <3>. QED
      BY <1>0, <2>1, <3>1, <3>2, Zenon DEF Following, Connects
  <2>3. CASE tip = NoBlock
    <3>1. best = NoBlock /\ P[1] = Genesis
      BY <1>1, <2>3, Zenon DEF Control
    <3>. QED
      BY <1>0, <2>1, <3>1, Zenon DEF Following, Connects
  <2>. QED
    BY <2>2, <2>3, Zenon
<1>7. CASE tip = NoBlock /\ P = <<>>
  BY <1>1, <1>7, AncestorsOf, Zenon
<1>. QED
  BY <1>0, <1>4, <1>5, <1>6, <1>7, Zenon DEF Following

LEMMA FollowingSync ==
  ASSUME Types, Control, Following, ThreadSync
  PROVE  Following'
<1>. USE DEF chainVars, dbVars, indexVars, callVars, nodeVars
<1>1. CASE SyncLast
  BY <1>1, NextSync, Zenon DEF SyncLast, Control, Types, Following
<1>2. CASE SyncCommitLast
  <2>1. SameConn
    BY <1>2, QuietQueue, Zenon DEF SyncCommitLast
  <2>. QED
    BY <1>2, <2>1, FollowingSame, Zenon DEF SyncCommitLast
<1>3. ASSUME ~m_synced, m_synced' = m_synced
      PROVE  Following'
  BY <1>3, Zenon DEF Following
<1>4. CASE SyncInterrupted \/ SyncNext \/ SyncRewind \/ SyncCommit \/ SyncFails \/ SyncWrite
  <2>1. sync \in {"start", "loop", "commit", "write"} /\ m_synced' = m_synced
    BY <1>4, Zenon DEF SyncInterrupted, SyncNext, SyncRewind, SyncCommit, SyncFails, SyncWrite
  <2>2. ~m_synced
    BY <2>1, Zenon DEF Control, Types
  <2>. QED
    BY <1>3, <2>1, <2>2, Zenon
<1>. QED
  BY <1>1, <1>2, <1>4, Zenon DEF ThreadSync

(* The block of BlockConnected joins the index, Rewind or not.             *)
LEMMA ConnectedJoins ==
  ASSUME Types, Control, BlockConnected
  PROVE  1 \in Conn' /\ Connects(queue[1].block)'
<1>1. handler' # "idle" /\ Types' /\ Control'
  BY TypeStep, Zenon DEF BlockConnected, Callback, Next
<1>2. queue' # <<>> /\ queue'[1].type = "connected" /\ best' = Parent[queue'[1].block]
  BY <1>1, Zenon DEF Control
<1>3. 1 \in 1 .. Len(queue') /\ queue'[1].block \in Block
  <2>1. queue' \in Seq(Event) /\ Filled'
    BY <1>1, Zenon DEF Types, Control
  <2>. QED
    BY <1>2, <2>1 DEF Filled
<1>4. best' \in Block \cup {NoBlock} /\ (best' = NoBlock => queue'[1].block = Genesis)
  BY <1>2, <1>3, AncestorsOf, TreeAssumption, ZenonT(40)
<1>5. best' # NoBlock => best' \in ancestors[best']
  BY <1>4, AncestorsIn, Zenon
<1>. QED
  BY <1>2, <1>3, <1>4, <1>5, Zenon DEF Conn, Connects

LEMMA FollowingCallback ==
  ASSUME Types, Control, Ordered, Following, Callback
  PROVE  Following'
<1>. USE DEF chainVars, dbVars, indexVars, callVars, nodeVars
<1>1. CASE BlockConnectedIgnored \/ ChainStateFlushed \/ SyncCallback
  <2>. QED
    BY <1>1, ConnectsLater, Zenon DEF BlockConnectedIgnored, ChainStateFlushed, SyncCallback,
       Current, Following
<1>2. CASE BlockConnected
  BY <1>2, ConnectedJoins, Zenon DEF Following
<1>3. CASE RewindCommit
  <2>1. CASE UNCHANGED <<best, queue, stopping>>
    <3>1. SameConn
      BY <2>1, QuietQueue, Zenon
    <3>. QED
      BY <1>3, <2>1, <3>1, FollowingSame, Zenon DEF RewindCommit
  <2>2. CASE FatalError
    BY <2>2, Zenon DEF FatalError, Following
  <2>. QED
    BY <1>3, <2>1, <2>2, Zenon DEF RewindCommit
<1>4. CASE BlockConnectedWrite
  <2>1. 1 \in Conn /\ queue # <<>> /\ queue[1].type = "connected"
    BY <1>4, HandledConnects, Zenon DEF BlockConnectedWrite
  <2>2. Return /\ best' = queue[1].block /\ tip' = tip
    BY <1>4, Zenon DEF BlockConnectedWrite
  <2>3. PICK j \in Conn : 1 <= j /\ tip \in ancestors[queue[j].block]
    BY <2>1, LastConnected, Zenon
  <2>4. CASE j = 1
    BY <2>2, <2>3, <2>4, Zenon DEF Following
  <2>5. CASE j # 1
    BY <2>1, <2>2, <2>5, ConnectsNext, Zenon DEF Following
  <2>. QED
    BY <2>4, <2>5, Zenon
<1>5. CASE BlockConnectedFails
  BY <1>5, Zenon DEF BlockConnectedFails, FatalError, Following
<1>. QED
  BY <1>1, <1>2, <1>3, <1>4, <1>5, Zenon DEF Callback

LEMMA FollowingStep ==
  ASSUME Types, Control, Ordered, Following, [Next]_vars
  PROVE  Following'
<1>. USE DEF chainVars, dbVars, indexVars, callVars, nodeVars
<1>1. CASE Start(flushed)
  <2>. QED
    BY <1>1, AncestorsIn, Zenon DEF Start, Types, Following
<1>2. CASE FlushStateToDisk \/ Shutdown \/ StartShutdown \/ Interrupt \/ Call \/ UNCHANGED vars
  <2>1. queue' = queue \/ FlushStateToDisk \/ Shutdown \/ SyncWithValidationInterfaceQueue
    BY <1>2, Zenon DEF StartShutdown, Interrupt, Call, BlockUntilSyncedToCurrentChain, CallReturns, vars
  <2>2. UNCHANGED <<best, m_synced, tip>> /\ (stopping # "no" => stopping' # "no")
    BY <1>2, Zenon DEF StartShutdown, Interrupt, Call, BlockUntilSyncedToCurrentChain, CallReturns,
       vars, FlushStateToDisk, Shutdown, SyncWithValidationInterfaceQueue
  <2>. QED
    BY <2>1, <2>2, QuietQueue, FollowingSame, Zenon
<1>. QED
  BY <1>1, <1>2, FollowingSetTip, FollowingSync, FollowingCallback, Zenon DEF Next, Node, Restart, Crash


-----------------------------------------------------------------------------
(* The callers of BlockUntilSyncedToCurrentChain.                          *)

Syncs == {k \in 1 .. Len(queue) : queue[k].type = "sync"}

CallSafe == \A b \in ancestors[callTip] : Safe(b)

\* The chain of the call is indexed, or will be when the events in S return:
\* one of them is for a block above callTip, and the index joins the queue
\* before it.
Answer(S) ==
  \/ CallSafe
  \/ \E i, j \in Conn : /\ i <= j /\ j \in S
                        /\ Connects(queue[i].block) /\ callTip \in ancestors[queue[j].block]

Calls ==
  /\ \A k, l \in Syncs : k = l
  /\ Syncs # {} => caller = "wait"
  /\ caller # "idle" /\ stopping = "no" => m_synced
  /\ stopping = "no" =>
       /\ caller = "drain" => Answer(1 .. Len(queue))
       /\ caller = "true" => CallSafe
       /\ \A k \in Syncs : Answer(1 .. k - 1)

LEMMA CallSafeKept ==
  ASSUME Types, CallSafe, Kept, callTip' = callTip
  PROVE  CallSafe'
<1>. QED
  BY AncestorsWithin, Zenon DEF Types, CallSafe, Kept

(* Events are added at the end of the queue, or none.                      *)
Appended ==
  /\ Conn \subseteq Conn' /\ \A i \in Conn : queue'[i] = queue[i]
  /\ Len(queue) <= Len(queue') /\ Len(queue) \in Nat /\ Len(queue') \in Nat

LEMMA AnswerAppended ==
  ASSUME Types, Control, Kept, Appended, UNCHANGED <<best, callTip>>, NEW S, Answer(S)
  PROVE  Answer(S)'
  BY CallSafeKept, Zenon DEF Answer, Appended, Connects

LEMMA CallsAppended ==
  ASSUME Types, Control, Calls, Kept, Appended, Syncs' = Syncs, UNCHANGED <<caller, callTip>>,
         stopping' = "no" => stopping = "no", m_synced => m_synced', best' = best \/ ~m_synced
  PROVE  Calls'
<1>1. CASE stopping' = "no" /\ caller # "idle"
  <2>1. stopping = "no" /\ m_synced /\ best' = best
    BY <1>1, Zenon DEF Calls
  <2>2. caller = "true" => CallSafe'
    BY <2>1, CallSafeKept, Zenon DEF Calls
  <2>3. \A k \in Syncs : Answer(1 .. k - 1)'
    BY <2>1, AnswerAppended, Zenon DEF Calls
  <2>4. caller = "drain" => Answer(1 .. Len(queue))'
    <3>1. SUFFICES ASSUME caller = "drain" PROVE Answer(1 .. Len(queue))'
      BY Zenon
    <3>2. PICK n \in Nat : n = Len(queue)
      BY Zenon DEF Appended
    <3>4. 1 .. n \subseteq 1 .. Len(queue')
      BY <3>2 DEF Appended
    <3>. QED
      BY <2>1, <3>1, <3>2, <3>4, AnswerAppended, Zenon DEF Calls, Answer
  <2>. QED
    BY <1>1, <2>1, <2>2, <2>3, <2>4, Zenon DEF Calls
<1>2. CASE stopping' # "no" \/ caller = "idle"
  BY <1>2, Zenon DEF Calls
<1>. QED
  BY <1>1, <1>2, Zenon


LEMMA SyncsReturned ==
  ASSUME Types, queue # <<>>, Return
  PROVE  /\ \A k \in Syncs' : k \in Nat \ {0} /\ k + 1 \in Syncs
         /\ Len(queue') = Len(queue) - 1 /\ Len(queue) \in Nat \ {0}
<1>. QED
  BY Returned DEF Types, Syncs

(* A callback has returned: what the rest of the queue promises.           *)
LEMMA CallsReturn ==
  ASSUME Types, Control, Calls, Kept, queue # <<>>, Return, UNCHANGED <<caller, callTip, m_synced>>,
         stopping' = "no" => stopping = "no",
         stopping' = "no" /\ m_synced => \A n \in Nat : Answer(1 .. n + 1) => Answer(1 .. n)'
  PROVE  Calls'
<1>1. /\ \A k \in Syncs' : k \in Nat \ {0} /\ k + 1 \in Syncs
      /\ Len(queue') = Len(queue) - 1 /\ Len(queue) \in Nat \ {0}
  BY SyncsReturned, Zenon
<1>2. \A k, l \in Syncs' : k = l
  <2>1. SUFFICES ASSUME NEW k \in Syncs', NEW l \in Syncs' PROVE k = l
    BY Zenon
  <2>. QED
    BY <1>1 DEF Calls
<1>3. (Syncs' # {} => caller' = "wait") /\ (caller' # "idle" /\ stopping' = "no" => m_synced')
  BY <1>1, Zenon DEF Calls
<1>4. CASE stopping' = "no" /\ caller # "idle"
  <2>. USE <1>4
  <2>1. stopping = "no" /\ m_synced
    BY Zenon DEF Calls
  <2>3. ASSUME NEW k \in Syncs'
        PROVE  Answer(1 .. k - 1)'
    <3>1. k \in Nat \ {0} /\ k + 1 \in Syncs /\ k - 1 \in Nat /\ (k - 1) + 1 = (k + 1) - 1
      BY <1>1
    <3>3. PICK n \in Nat : n = k - 1
      BY <3>1, Zenon
    <3>. QED
      BY <2>1, <3>1, <3>3, Zenon DEF Calls
  <2>4. caller = "drain" => Answer(1 .. Len(queue))'
    <3>1. SUFFICES ASSUME caller = "drain" PROVE Answer(1 .. Len(queue))'
      BY Zenon
    <3>2. PICK n \in Nat : n = Len(queue) - 1
      BY <1>1
    <3>3. Len(queue) = n + 1 /\ Len(queue') = n
      BY <1>1, <3>2
    <3>5. Answer(1 .. n)'
      BY <2>1, <3>1, <3>3, Zenon DEF Calls
    <3>. QED
      BY <3>3, <3>5, Zenon DEF Answer
  <2>. QED
    BY <1>2, <1>3, <2>1, <2>3, <2>4, CallSafeKept, Zenon DEF Calls
<1>5. CASE stopping' # "no"
  BY <1>2, <1>3, <1>5, Zenon DEF Calls
<1>6. CASE caller = "idle"
  <2>. QED
    BY <1>2, <1>3, <1>6, Zenon DEF Calls
<1>. QED
  BY <1>4, <1>5, <1>6, Zenon

(* A callback that leaves the index where it is.                           *)
LEMMA AnswerLater ==
  ASSUME Types, Control, Kept, queue # <<>>, Return, UNCHANGED <<best, callTip>>,
         queue[1].type = "connected" => ~Connects(queue[1].block),
         NEW n \in Nat, Answer(1 .. n + 1)
  PROVE  Answer(1 .. n)'
<1>1. CASE CallSafe
  BY <1>1, CallSafeKept, Zenon DEF Answer
<1>2. ASSUME NEW i \in Conn, NEW j \in Conn, i <= j, j \in 1 .. n + 1, Connects(queue[i].block),
             callTip \in ancestors[queue[j].block]
      PROVE  Answer(1 .. n)'
  <2>. USE <1>2
  <2>1. i # 1 /\ i - 1 \in Conn' /\ Connects(queue[i - 1].block)'
    BY ConnectsLater, Zenon
  <2>2. i \in Nat \ {0} /\ j \in Nat \ {0}
    BY ConnIn, Zenon
  <2>3. j # 1 /\ i - 1 <= j - 1 /\ j - 1 \in 1 .. n
    BY <2>1, <2>2
  <2>. QED
    BY <2>1, <2>3, ConnReturned, Zenon DEF Answer
<1>. QED
  BY <1>1, <1>2, Zenon DEF Answer

(* The block of the callback is indexed.                                   *)
LEMMA AnswerWritten ==
  ASSUME Types, Control, Ordered, Kept, queue # <<>>, queue[1].type = "connected", Return,
         best' = queue[1].block, Backed(best)', callTip' = callTip,
         NEW n \in Nat, Answer(1 .. n + 1)
  PROVE  Answer(1 .. n)'
<1>1. CASE CallSafe
  BY <1>1, CallSafeKept, Zenon DEF Answer
<1>2. ASSUME NEW j \in Conn, j \in 1 .. n + 1, callTip \in ancestors[queue[j].block]
      PROVE  Answer(1 .. n)'
  <2>. USE <1>2
  <2>1. CASE j = 1
    <3>. QED
      BY <2>1, CurrentEvent, AncestorsBelow, Zenon DEF CallSafe, Backed, Answer
  <2>2. CASE j # 1
    <3>. USE <2>2
    <3>1. j \in Nat \ {0}
      BY ConnIn, Zenon
    <3>2. PICK i \in Conn' : i <= j - 1 /\ Connects(queue[i].block)'
      BY ConnectsNext, Zenon
    <3>3. j - 1 \in Conn' /\ j - 1 \in 1 .. n /\ i \in Nat \ {0} /\ queue'[j - 1] = queue[j]
      BY <3>1, <3>2, ConnReturned, SMTT(30)
    <3>4. i \in 1 .. n
      BY <3>1, <3>2, <3>3
    <3>. QED
      BY <3>2, <3>3, <3>4, Zenon DEF Answer
  <2>. QED
    BY <2>1, <2>2, Zenon
<1>. QED
  BY <1>1, <1>2, Zenon DEF Answer


LEMMA AppendedPushed ==
  ASSUME Types, Control, NEW type \in {"connected", "flushed", "sync"},
         NEW path \in Seq(Block \cup {NoBlock}), Push(Events(type, path))
  PROVE  /\ Appended /\ Len(queue') = Len(queue) + Len(path)
         /\ Syncs' = IF type = "sync" THEN Syncs \cup (Len(queue) + 1 .. Len(queue) + Len(path)) ELSE Syncs
<1>0. queue \in Seq(Event)
  BY Zenon DEF Types
<1>1. /\ Len(queue') = Len(queue) + Len(path) /\ Len(queue) \in Nat
      /\ Len(path) \in Nat
      /\ \A i \in 1 .. Len(queue) : queue'[i] = queue[i]
      /\ \A i \in 1 .. Len(path) : /\ queue'[Len(queue) + i].type = type
                                   /\ queue'[Len(queue) + i].block = path[i]
  BY <1>0, Pushed
<1>2. \A i \in 1 .. Len(queue') : i \in 1 .. Len(queue) \/ i \in Len(queue) + 1 .. Len(queue) + Len(path)
  BY <1>1, SMTT(30)
<1>3. \A i \in Len(queue) + 1 .. Len(queue) + Len(path) :
        i \in 1 .. Len(queue') /\ i \notin 1 .. Len(queue) /\ queue'[i].type = type
  <2>1. SUFFICES ASSUME NEW i \in Len(queue) + 1 .. Len(queue) + Len(path)
                 PROVE  i \in 1 .. Len(queue') /\ i \notin 1 .. Len(queue) /\ queue'[i].type = type
    BY Zenon
  <2>2. i - Len(queue) \in 1 .. Len(path) /\ i = Len(queue) + (i - Len(queue))
    BY <1>1
  <2>3. queue'[i].type = type
    BY <1>1, <2>2, Zenon
  <2>. QED
    BY <1>1, <2>3
<1>4. 1 .. Len(queue) \subseteq 1 .. Len(queue')
  BY <1>1
<1>5. Syncs' = IF type = "sync" THEN Syncs \cup (Len(queue) + 1 .. Len(queue) + Len(path)) ELSE Syncs
  BY <1>1, <1>2, <1>3, <1>4, Zenon DEF Syncs
<1>6. Conn \subseteq Conn' /\ \A i \in Conn : queue'[i] = queue[i]
  BY <1>1, <1>4, ZenonT(40) DEF Conn
<1>7. Len(queue) <= Len(queue') /\ Len(queue') \in Nat
  BY <1>1
<1>. QED
  BY <1>1, <1>5, <1>6, <1>7, ZenonT(40) DEF Appended

LEMMA QueueAppended ==
  ASSUME Types, Control,
         queue' = queue \/ (\E b \in Block : SetTip(b)) \/ FlushStateToDisk \/ Shutdown
  PROVE  Appended /\ Syncs' = Syncs
<1>1. CASE queue' = queue
  <2>1. Len(queue) \in Nat /\ Len(queue) <= Len(queue)
    BY DEF Types
  <2>. QED
    BY <1>1, <2>1, Zenon DEF Appended, Conn, Syncs
<1>2. CASE \E b \in Block : SetTip(b)
  <2>1. PICK b \in Block : SetTip(b)
    BY <1>2, Zenon
  <2>2. Path(tip, b) \in Seq(Block)
    BY PathOf, Zenon DEF Types
  <2>. QED
    BY <2>1, <2>2, AppendedPushed DEF SetTip
<1>3. <<tip>> \in Seq(Block \cup {NoBlock})
  BY DEF Types
<1>4. CASE FlushStateToDisk
  BY <1>3, <1>4, AppendedPushed, Zenon DEF FlushStateToDisk
<1>5. CASE Shutdown
  <2>1. CASE tip = NoBlock
    BY <1>1, <1>5, <2>1 DEF Shutdown, Push, Types
  <2>2. CASE tip # NoBlock
    BY <1>3, <1>5, <2>2, AppendedPushed, Zenon DEF Shutdown
  <2>. QED
    BY <2>1, <2>2, Zenon
<1>. QED
  BY <1>1, <1>2, <1>4, <1>5, Zenon

LEMMA CallsCallback ==
  ASSUME Types, Control, Position, LocatorBacked, Ordered, Calls, Callback
  PROVE  Calls'
<1>. USE DEF chainVars, dbVars, indexVars, callVars, nodeVars
<1>1. Kept /\ Position'
  BY PositionStep, Zenon DEF Next
<1>2. CASE BlockConnectedIgnored \/ ChainStateFlushed
  BY <1>1, <1>2, AnswerLater, CallsReturn, ZenonT(40) DEF BlockConnectedIgnored, ChainStateFlushed, Current
<1>3. CASE SyncCallback
  <2>1. /\ queue # <<>> /\ Return /\ UNCHANGED <<best, m_synced, callTip, stopping>> /\ caller' = "true"
        /\ queue[1].type = "sync"
    BY <1>3, Zenon DEF SyncCallback, Current
  <2>2. 1 \in Syncs
    BY <2>1, CurrentEvent, Zenon DEF Syncs
  <2>3. Syncs' = {}
    <3>1. \A k \in Syncs' : k \in Nat \ {0} /\ k + 1 \in Syncs
      BY <2>1, SyncsReturned, Zenon
    <3>2. \A k \in Syncs : k = 1
      BY <2>2, Zenon DEF Calls
    <3>. QED
      BY <3>1, <3>2, SMTT(30)
  <2>4. \A j : j \notin 1 .. 1 - 1
    OBVIOUS
  <2>5. stopping = "no" => m_synced /\ CallSafe
    BY <2>2, <2>4, Zenon DEF Calls, Answer
  <2>6. stopping' = "no" => m_synced' /\ CallSafe'
    BY <1>1, <2>1, <2>5, CallSafeKept, Zenon
  <2>. QED
    BY <2>1, <2>3, <2>6, Zenon DEF Calls
<1>4. CASE BlockConnected
  <2>1. queue' = queue /\ UNCHANGED <<caller, callTip, stopping, m_synced>> /\ m_synced
    BY <1>4, Zenon DEF BlockConnected
  <2>2. Syncs' = Syncs /\ Conn' = Conn
    BY <2>1, Zenon DEF Syncs, Conn
  <2>5. ASSUME NEW S, Answer(S)
        PROVE  Answer(S)'
    <3>1. CASE CallSafe
      BY <1>1, <2>1, <3>1, CallSafeKept, Zenon DEF Answer
    <3>2. ASSUME NEW j \in Conn, j \in S, callTip \in ancestors[queue[j].block]
          PROVE  Answer(S)'
      <4>2. 1 <= j
        BY ConnIn
      <4>. QED
        BY <1>4, <2>1, <2>2, <3>2, <4>2, ConnectedJoins, Zenon DEF Answer
    <3>. QED
      BY <2>5, <3>1, <3>2, Zenon DEF Answer
  <2>7. PICK n : n = Len(queue)
    BY Zenon
  <2>8. Answer(1 .. Len(queue)) => Answer(1 .. Len(queue))'
    <3>. QED
      BY <2>1, <2>5, <2>7, Zenon DEF Answer
  <2>. QED
    BY <1>1, <2>1, <2>2, <2>5, <2>8, CallSafeKept, Zenon DEF Calls
<1>5. CASE RewindCommit
  BY <1>1, <1>5, QueueAppended, CallsAppended, HandledConnects, CallsReturn, Zenon DEF RewindCommit,
     FatalError
<1>6. CASE BlockConnectedWrite
  BY <1>1, <1>6, HandledConnects, AnswerWritten, CallsReturn, Zenon DEF BlockConnectedWrite, Control,
     Position
<1>7. CASE BlockConnectedFails
  BY <1>1, <1>7, HandledConnects, CallsReturn, Zenon DEF BlockConnectedFails, FatalError, Current
<1>. QED
  BY <1>2, <1>3, <1>4, <1>5, <1>6, <1>7, Zenon DEF Callback


LEMMA CallsCall ==
  ASSUME Types, Control, Position, Ordered, Following, Calls, Kept, Call
  PROVE  Calls'
<1>. USE DEF chainVars, dbVars, indexVars, callVars, nodeVars
<1>1. CASE BlockUntilSyncedToCurrentChain
  <2>1. /\ UNCHANGED <<queue, best, m_synced, stopping, byHeight, byHash, ahead>> /\ callTip' = tip
        /\ stopping = "no" /\ caller = "idle" /\ m_synced /\ tip # NoBlock
        /\ caller' = IF tip \in ancestors[best] THEN "true" ELSE "drain"
    BY <1>1, Zenon DEF BlockUntilSyncedToCurrentChain, CaughtUpTo
  <2>2. Syncs' = {} /\ Conn' = Conn
    BY <2>1, Zenon DEF Calls, Syncs, Conn
  <2>3. CASE tip \in ancestors[best]
    BY <2>1, <2>2, <2>3, AncestorsWithin, Zenon DEF Position, Types, CallSafe, Backed, Safe, Found,
       Calls
  <2>4. CASE tip \notin ancestors[best]
    <3>1. PICK i \in Conn : Connects(queue[i].block)
      BY <2>1, <2>4, Zenon DEF Following
    <3>2. PICK j \in Conn : i <= j /\ tip \in ancestors[queue[j].block]
      BY LastConnected, Zenon
    <3>. QED
      BY <2>1, <2>2, <2>4, <3>1, <3>2, ConnIn, Zenon DEF Answer, Connects, Calls
  <2>. QED
    BY <2>3, <2>4, Zenon
<1>2. CASE SyncWithValidationInterfaceQueue
  <2>1. /\ UNCHANGED <<best, m_synced, stopping, callTip>> /\ caller = "drain" /\ caller' = "wait"
        /\ Push(Events("sync", <<NoBlock>>))
    BY <1>2, Zenon DEF SyncWithValidationInterfaceQueue
  <2>2. <<NoBlock>> \in Seq(Block \cup {NoBlock}) /\ Len(<<NoBlock>>) = 1
    OBVIOUS
  <2>3. Appended /\ Syncs' = Syncs \cup (Len(queue) + 1 .. Len(queue) + 1) /\ Len(queue) \in Nat
    BY <2>1, <2>2, AppendedPushed, Zenon DEF Appended
  <2>4. PICK n \in Nat : n = Len(queue)
    BY <2>3, Zenon
  <2>6. Syncs' = {n + 1} /\ (n + 1) - 1 = n
    BY <2>1, <2>3, <2>4 DEF Calls
  <2>8. stopping = "no" => \A k \in Syncs' : Answer(1 .. k - 1)'
    BY <2>1, <2>3, <2>4, <2>6, AnswerAppended, Zenon DEF Calls
  <2>. QED
    BY <2>1, <2>6, <2>8, Zenon DEF Calls
<1>3. CASE CallReturns
  BY <1>3, Zenon DEF CallReturns, Syncs, Calls
<1>. QED
  BY <1>1, <1>2, <1>3, Zenon DEF Call

LEMMA CallsStep ==
  ASSUME Types, Control, Position, LocatorBacked, Ordered, Following, Calls, [Next]_vars
  PROVE  Calls'
<1>. USE DEF chainVars, dbVars, indexVars, callVars, nodeVars
<1>1. Kept
  BY PositionStep, ZenonT(40)
<1>2. CASE Start(flushed)
  <2>. QED
    BY <1>2 DEF Start, Syncs, Calls
<1>3. CASE (\E b \in Block : SetTip(b)) \/ FlushStateToDisk \/ Shutdown
  <2>2. UNCHANGED <<caller, callTip, m_synced, best>> /\ (stopping' = "no" => stopping = "no")
    BY <1>3, Zenon DEF SetTip, FlushStateToDisk, Shutdown
  <2>. QED
    BY <1>1, <1>3, <2>2, QueueAppended, CallsAppended, Zenon
<1>4. CASE StartShutdown \/ Interrupt \/ UNCHANGED vars
  <2>. QED
    BY <1>1, <1>4, QueueAppended, CallsAppended DEF StartShutdown, Interrupt, vars
<1>5. CASE ThreadSync
  <2>1. UNCHANGED <<queue, caller, callTip>> /\ (stopping' = "no" => stopping = "no")
    BY <1>5, Zenon DEF ThreadSync, SyncInterrupted, SyncLast, SyncCommitLast, SyncNext, SyncRewind,
       RewindAborts, RewindCommits, SyncCommit, SyncFails, SyncWrite, FatalError
  <2>2. (m_synced => m_synced') /\ (best' = best \/ ~m_synced)
    <3>1. CASE SyncCommitLast
      BY <3>1, Zenon DEF SyncCommitLast
    <3>2. CASE ~SyncCommitLast
      <4>1. sync \in {"start", "loop", "commit", "write"}
        BY <1>5, <3>2, Zenon DEF ThreadSync, SyncInterrupted, SyncLast, SyncNext, SyncRewind,
           SyncCommit, SyncFails, SyncWrite
      <4>. QED
        BY <4>1, Zenon DEF Control, Types
    <3>. QED
      BY <3>1, <3>2, Zenon
  <2>3. Appended /\ Syncs' = Syncs
    BY <2>1, QueueAppended, Zenon
  <2>. QED
    BY <1>1, <2>1, <2>2, <2>3, CallsAppended, Zenon
<1>. QED
  BY <1>1, <1>2, <1>3, <1>4, <1>5, CallsCallback, CallsCall, Zenon DEF Next, Node, Restart, Crash

LEMMA QueueInit == ASSUME Init PROVE Ordered /\ Following /\ Calls
<1>2. m_synced => tip = NoBlock
  BY Zenon DEF Init
<1>. QED
  BY <1>2 DEF Init, Conn, Syncs, Ordered, Following, Calls

-----------------------------------------------------------------------------
(* The theorems                                                            *)

IndexInv ==
  Types /\ Control /\ Position /\ LocatorBacked /\ Ordered /\ Following /\ Calls

LEMMA IndexInvariant == Spec => []IndexInv
<1>2. IndexInv /\ [Next]_vars => IndexInv'
  <2>1. SUFFICES ASSUME IndexInv, [Next]_vars PROVE IndexInv'
    BY Zenon
  <2>. QED
    BY <2>1, OrderedStep, FollowingStep, CallsStep, TypeStep, PositionStep, Zenon DEF IndexInv
<1>. QED
  BY <1>2, TypeInit, PositionInit, QueueInit, PTL DEF IndexInv, Spec

\* For every tree of blocks, every interleaving of ThreadSync, the callbacks
\* and the node, and every crash: the locator (BaseIndex::Commit) vouches only
\* for blocks whose data is in the index, but for those in ahead.
THEOREM LocatorIsBacked == Spec => []LocatorBacked
  BY IndexInvariant, PTL DEF IndexInv

\* A synced index whose callbacks have all returned is at the tip or beyond it:
\* the hand-over from ThreadSync to BlockConnected misses no block.
THEOREM IndexTracks == Spec => []Tracks
<1>1. IndexInv => Tracks
  <2>1. SUFFICES ASSUME IndexInv, queue = <<>>, m_synced, stopping = "no"
                 PROVE  tip \in ancestors[best] \cup {NoBlock}
    BY Zenon DEF Tracks
  <2>. QED
    BY <2>1 DEF Conn, IndexInv, Following
<1>. QED
  BY <1>1, IndexInvariant, PTL

\* When BlockUntilSyncedToCurrentChain returns true, the blocks of the chain it
\* saw can be looked up, although neither cs_main nor the queue is held while
\* it waits.
THEOREM CallersAreSynced == Spec => []SyncedToCurrentChain
  BY IndexInvariant, PTL DEF IndexInv, SyncedToCurrentChain, Calls, CallSafe, Safe

\* WriteBlock and Rewind never lose the data of a block: what a new entry
\* overwrites has been copied to the hash index, or is known to be at risk.
THEOREM NothingIsForgotten == Spec => NothingForgotten
<1>1. IndexInv /\ [Next]_vars => [\A b \in Block : Found(b) => Found(b)' \/ b \in ahead]_vars
  <2>1. SUFFICES ASSUME IndexInv, [Next]_vars
                 PROVE  \A b \in Block : Found(b) => Found(b)' \/ b \in ahead
    BY Zenon
  <2>. QED
    BY <2>1, PositionStep, Zenon DEF IndexInv, Kept
<1>. QED
  BY <1>1, IndexInvariant, PTL DEF Spec, NothingForgotten
=============================================================================
