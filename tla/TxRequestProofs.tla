--------------------------- MODULE TxRequestProofs ---------------------------
(***************************************************************************)
(* Proofs about TxRequest, for any finite set of pairs that may be         *)
(* announced: what SanityCheck and PostGetRequestableSanityCheck assert,   *)
(* and that no peer is asked again.                                        *)
(***************************************************************************)
EXTENDS TxRequest, FiniteSetTheorems, WellFoundedInduction, TLAPS

(***************************************************************************)
(* A strict order on a finite set that is not empty has a minimal element. *)
(***************************************************************************)
LEMMA Minimal ==
  ASSUME NEW S, IsFiniteSet(S), S # {}, NEW R,
         \A x \in S : <<x, x>> \notin R,
         \A x, y, z \in S : <<x, y>> \in R /\ <<y, z>> \in R => <<x, z>> \in R
  PROVE  \E x \in S : \A y \in S : <<y, x>> \notin R
<1> DEFINE Below(x) == {y \in S : <<y, x>> \in R}
           T == {Below(x) : x \in S}
<1>1. IsWellFoundedOn(StrictSubsetOrdering(S), SUBSET S)
  BY FS_StrictSubsetOrderingWellFounded, FS_FiniteSubsetsOfFinite, Zenon
<1>2. T \subseteq SUBSET S /\ T # {}
  <2>1. PICK x \in S : TRUE
    OBVIOUS
  <2>2. Below(x) \in T
    BY <2>1
  <2>3. \A y \in S : Below(y) \in SUBSET S
    OBVIOUS
  <2>4. T \subseteq SUBSET S
    <3> HIDE DEF Below
    <3> QED BY <2>3
  <2> QED
    BY <2>2, <2>4, Zenon
<1>3. PICK B \in T : \A C \in T : <<C, B>> \notin StrictSubsetOrdering(S)
  <2> HIDE DEF T
  <2> QED BY <1>1, <1>2, WFMin, Zenon
<1>4. PICK x \in S : B = Below(x)
  OBVIOUS
<1>5. ASSUME NEW y \in S, <<y, x>> \in R PROVE FALSE
  <2>1. Below(y) \in T
    OBVIOUS
  <2>2. Below(y) \subseteq Below(x)
    BY <1>5
  <2>3. y \in Below(x) /\ y \notin Below(y)
    BY <1>5
  <2>4. <<Below(y), Below(x)>> \in StrictSubsetOrdering(S)
    <3>1. Below(y) \in SUBSET S /\ Below(x) \in SUBSET S /\ Below(y) # Below(x)
      BY <2>3
    <3> HIDE DEF Below
    <3> QED BY <3>1, <2>2 DEF StrictSubsetOrdering
  <2> QED
    BY <1>3, <1>4, <2>1, <2>4
<1> QED
  BY <1>5

-----------------------------------------------------------------------------

(* An index as the tracker keeps it, and what SanityCheck asserts of the   *)
(* announcements of transaction t in it.                                   *)
Typed(f) ==
  /\ DOMAIN f \subseteq Announceable
  /\ \A x \in DOMAIN f : f[x] \in Announcement

Sane(f, t) ==
  /\ OfTx(f, t) # {} => \E x \in OfTx(f, t) : f[x].state # "COMPLETED"
  /\ \A x, y \in Selected(f, t) : x = y
  /\ Ready(f, t) # {} => Selected(f, t) # {}
  /\ \A x \in Selected(f, t), y \in Ready(f, t) :
       f[x].state = "CANDIDATE_BEST" => Higher(f, x, y)

(* Higher is a strict total order on the announcements of a transaction.   *)
LEMMA HigherOrder ==
  ASSUME NEW f, Typed(f), NEW t,
         NEW x \in OfTx(f, t), NEW y \in OfTx(f, t), NEW z \in OfTx(f, t)
  PROVE  /\ ~ Higher(f, x, x)
         /\ Higher(f, x, y) /\ Higher(f, y, z) => Higher(f, x, z)
         /\ x # y => Higher(f, x, y) \/ Higher(f, y, x)
<1>1. /\ x \in Announceable /\ y \in Announceable /\ z \in Announceable
      /\ x[2] = y[2]
  BY DEF OfTx, Typed
<1>2. /\ Priority[x] \in Nat /\ Priority[y] \in Nat /\ Priority[z] \in Nat
      /\ x # y => Priority[x] # Priority[y]
  BY <1>1, TxRequestAssumption
<1>3. /\ f[x].preferred \in BOOLEAN /\ f[y].preferred \in BOOLEAN /\ f[z].preferred \in BOOLEAN
  BY DEF OfTx, Typed, Announcement
<1> QED
  BY <1>2, <1>3 DEF Higher

(* What Best chooses.                                                      *)
LEMMA BestIsBest ==
  ASSUME NEW f, Typed(f), NEW t, NEW S, S \subseteq OfTx(f, t), S # {}
  PROVE  Best(f, S) \in S /\ \A y \in S \ {Best(f, S)} : Higher(f, Best(f, S), y)
<1> DEFINE R == {p \in S \X S : Higher(f, p[1], p[2])}
<1>1. IsFiniteSet(S)
  BY TxRequestAssumption, FS_Subset DEF OfTx, Typed
<1>2. \A x, y \in S : <<x, y>> \in R <=> Higher(f, x, y)
  OBVIOUS
<1>3. \A x \in S : <<x, x>> \notin R
  BY <1>2, HigherOrder
<1>4. \A x, y, z \in S : <<x, y>> \in R /\ <<y, z>> \in R => <<x, z>> \in R
  BY <1>2, HigherOrder
<1>5. PICK x \in S : \A y \in S : <<y, x>> \notin R
  <2> HIDE DEF R
  <2> QED BY <1>1, <1>3, <1>4, Minimal
<1>6. \A y \in S \ {x} : Higher(f, x, y)
  BY <1>2, <1>5, HigherOrder, Zenon
<1> QED
  BY <1>6 DEF Best

-----------------------------------------------------------------------------
(* The helpers keep an index sane.                                         *)

(* Of transaction t, f and g have the same announcements, states and       *)
(* preferences.                                                            *)
Same(f, g, t) ==
  /\ OfTx(f, t) = OfTx(g, t)
  /\ \A x \in OfTx(f, t) : g[x].state = f[x].state /\ g[x].preferred = f[x].preferred

LEMMA SameSane ==
  ASSUME NEW f, NEW g, NEW t, Same(f, g, t), Sane(f, t)
  PROVE  Sane(g, t)
<1>1. Selected(g, t) = Selected(f, t) /\ Ready(g, t) = Ready(f, t)
  BY DEF Same, Selected, Ready, IsSelected
<1>2. \A x, y \in OfTx(f, t) : Higher(f, x, y) => Higher(g, x, y)
  BY DEF Same, Higher
<1>3. \A x \in Selected(f, t) : x \in OfTx(f, t)
  BY DEF Selected
<1>4. \A x \in Ready(f, t) : x \in OfTx(f, t)
  BY DEF Ready
<1> QED
  BY <1>1, <1>2, <1>3, <1>4 DEF Same, Sane

(* Setting a state changes one announcement.                               *)
LEMMA SetStateTyped ==
  ASSUME NEW f, Typed(f), NEW x \in DOMAIN f, NEW s \in State
  PROVE  /\ Typed(SetState(f, x, s))
         /\ DOMAIN SetState(f, x, s) = DOMAIN f
         /\ SetState(f, x, s)[x].state = s
         /\ \A y \in DOMAIN f \ {x} : SetState(f, x, s)[y] = f[y]
         /\ \A y \in DOMAIN f : /\ SetState(f, x, s)[y].preferred = f[y].preferred
                                /\ SetState(f, x, s)[y].time = f[y].time
BY DEF SetState, Typed, Announcement

(* ChangeAndReselect changes announcements of one transaction only, and    *)
(* leaves it sane, if one that is not COMPLETED remains.                   *)
LEMMA Reselects ==
  ASSUME NEW f, Typed(f), NEW x \in DOMAIN f, Sane(f, x[2]),
         NEW s \in {"COMPLETED", "CANDIDATE_DELAYED"},
         s = "COMPLETED" => ~ IsOnlyNonCompleted(f, x)
  PROVE  LET g == ChangeAndReselect(f, x, s)
         IN  /\ Typed(g) /\ DOMAIN g = DOMAIN f
             /\ g[x].state = s
             /\ \A y \in DOMAIN f : y[2] # x[2] => g[y] = f[y]
             /\ \A y \in DOMAIN f \ {x} :
                  \/ g[y].state = f[y].state
                  \/ f[y].state = "CANDIDATE_READY" /\ g[y].state = "CANDIDATE_BEST"
             /\ \A y \in DOMAIN f : g[y].time = f[y].time
             /\ Sane(g, x[2])
<1> DEFINE t == x[2]
           b == Best(f, Ready(f, t))
           swap == IsSelected(f[x]) /\ Ready(f, t) # {}
           h == IF swap THEN SetState(f, b, "CANDIDATE_BEST") ELSE f
           g == ChangeAndReselect(f, x, s)
<1>1. g = SetState(h, x, s)
  BY DEF ChangeAndReselect
<1>2. swap => /\ b \in Ready(f, t) /\ b # x /\ b \in DOMAIN f
              /\ \A y \in Ready(f, t) \ {b} : Higher(f, b, y)
  <2>1. Ready(f, t) \subseteq OfTx(f, t) /\ OfTx(f, t) \subseteq DOMAIN f
    BY DEF Ready, OfTx
  <2>2. IsSelected(f[x]) => x \notin Ready(f, t)
    BY DEF Ready, IsSelected
  <2>3. swap => b \in Ready(f, t) /\ \A y \in Ready(f, t) \ {b} : Higher(f, b, y)
    BY <2>1, BestIsBest
  <2> HIDE DEF b
  <2> QED
    BY <2>1, <2>2, <2>3
<1>3. /\ Typed(h) /\ DOMAIN h = DOMAIN f
      /\ swap => h[b].state = "CANDIDATE_BEST"
      /\ \A y \in DOMAIN f : y # b \/ ~swap => h[y] = f[y]
      /\ \A y \in DOMAIN f : h[y].preferred = f[y].preferred /\ h[y].time = f[y].time
  <2>1. "CANDIDATE_BEST" \in State
    BY DEF State
  <2>2. CASE swap
    <3>1. b \in DOMAIN f /\ h = SetState(f, b, "CANDIDATE_BEST")
      BY <1>2, <2>2
    <3> HIDE DEF b, h, swap
    <3> QED
      BY <2>1, <2>2, <3>1, SetStateTyped, SMTT(30)
  <2>3. CASE ~swap
    BY <2>3
  <2> QED
    BY <2>2, <2>3, Zenon
<1>4. /\ Typed(g) /\ DOMAIN g = DOMAIN f
      /\ g[x].state = s
      /\ \A y \in DOMAIN f \ {x} : g[y] = h[y]
      /\ \A y \in DOMAIN f : g[y].preferred = f[y].preferred /\ g[y].time = f[y].time
  <2>1. s \in State
    BY DEF State
  <2> HIDE DEF h, g, swap, b
  <2>2. x \in DOMAIN h /\ Typed(h)
    BY <1>3
  <2> QED
    BY <1>1, <1>3, <2>1, <2>2, SetStateTyped
<1> HIDE DEF g, h
<1>5. OfTx(g, t) = OfTx(f, t)
  BY <1>4 DEF OfTx
<1>6. \A y, z \in OfTx(f, t) : Higher(g, y, z) <=> Higher(f, y, z)
  BY <1>4 DEF Higher, OfTx
<1>7. \E y \in OfTx(g, t) : g[y].state # "COMPLETED"
  BY <1>2, <1>3, <1>4, <1>5 DEF IsOnlyNonCompleted, OfTx
<1>8. CASE swap
  <2>1. Selected(g, t) = {b}
    BY <1>2, <1>3, <1>4, <1>5, <1>8, SMTT(30) DEF Selected, IsSelected, Sane, OfTx, Ready
  <2>2. Ready(g, t) = Ready(f, t) \ {b}
    BY <1>2, <1>3, <1>4, <1>5, <1>8, SMTT(30) DEF IsSelected, OfTx, Ready
  <2>3. Sane(g, t)
    BY <1>2, <1>6, <1>7, <1>8, <2>1, <2>2, SMTT(30) DEF Sane, Ready
  <2> QED
    BY <1>2, <1>3, <1>4, <1>8, <2>3 DEF Ready, OfTx, g
<1>9. CASE ~swap
  <2>1. \A y \in DOMAIN f \ {x} : g[y] = f[y]
    BY <1>3, <1>4, <1>9
  <2>2. Ready(g, t) = Ready(f, t) \ {x} /\ Selected(g, t) = Selected(f, t) \ {x}
    BY <1>4, <1>5, <2>1 DEF IsSelected, OfTx, Ready, Selected
  <2>3. Selected(g, t) = {} => Ready(g, t) = {}
    BY <1>9, <2>2 DEF Sane, Selected
  <2>4. \A y \in Selected(g, t), z \in Ready(g, t) :
          g[y].state = "CANDIDATE_BEST" => Higher(g, y, z)
    BY <1>6, <2>1, <2>2 DEF Sane, Selected, Ready, OfTx
  <2>5. Sane(g, t)
    BY <1>7, <2>2, <2>3, <2>4 DEF Sane
  <2> QED
    BY <1>4, <2>1, <2>5 DEF g
<1> QED
  BY <1>8, <1>9

(* So does PromoteCandidateReady.                                          *)
LEMMA Promotes ==
  ASSUME NEW f, Typed(f), NEW x \in DOMAIN f, Sane(f, x[2]),
         f[x].state = "CANDIDATE_DELAYED"
  PROVE  LET g == PromoteCandidateReady(f, x)
         IN  /\ Typed(g) /\ DOMAIN g = DOMAIN f
             /\ \A y \in DOMAIN f : y[2] # x[2] => g[y] = f[y]
             /\ \A y \in DOMAIN f : f[y].state = "COMPLETED" => g[y] = f[y]
             /\ Sane(g, x[2])
<1> DEFINE t == x[2]
           better == {y \in Ready(f, t) : Higher(f, y, x)}
           worse == {y \in Selected(f, t) : f[y].state = "CANDIDATE_BEST" /\ Higher(f, x, y)}
           best == better = {} /\ (Selected(f, t) = {} \/ worse # {})
           g == PromoteCandidateReady(f, x)
<1>1. g = [y \in DOMAIN f |->
             IF y = x
             THEN [f[x] EXCEPT !.state = IF best THEN "CANDIDATE_BEST" ELSE "CANDIDATE_READY"]
             ELSE IF best /\ y \in worse THEN [f[y] EXCEPT !.state = "CANDIDATE_READY"] ELSE f[y]]
  BY DEF PromoteCandidateReady
<1>2. x \in OfTx(f, t) /\ x \notin Ready(f, t) /\ x \notin Selected(f, t)
  BY DEF OfTx, Ready, Selected, IsSelected
<1>3. /\ Typed(g) /\ DOMAIN g = DOMAIN f
      /\ \A y \in DOMAIN f : g[y].preferred = f[y].preferred
      /\ g[x].state = IF best THEN "CANDIDATE_BEST" ELSE "CANDIDATE_READY"
      /\ \A y \in DOMAIN f \ {x} : g[y] = IF best /\ y \in worse
                                         THEN [f[y] EXCEPT !.state = "CANDIDATE_READY"] ELSE f[y]
  BY <1>1 DEF Typed, Announcement, State
<1> HIDE DEF g
<1>4. \A y \in DOMAIN f : f[y].state = "COMPLETED" \/ y[2] # x[2] => g[y] = f[y]
  BY <1>3 DEF OfTx, Selected
<1>5. OfTx(g, t) = OfTx(f, t)
  BY <1>3 DEF OfTx
<1>6. \A y, z \in OfTx(f, t) : Higher(g, y, z) <=> Higher(f, y, z)
  BY <1>3 DEF Higher, OfTx
<1>7. \E y \in OfTx(g, t) : g[y].state # "COMPLETED"
  BY <1>2, <1>3, <1>5
<1>8. CASE best
  <2>1. Selected(f, t) = worse
    BY <1>8 DEF Sane
  <2>2. \A y \in OfTx(f, t) \ {x} :
          /\ y \in worse => g[y].state = "CANDIDATE_READY"
          /\ y \notin worse => g[y] = f[y]
    BY <1>3, <1>8 DEF OfTx, Typed, Announcement
  <2>3. g[x].state = "CANDIDATE_BEST"
    BY <1>3, <1>8
  <2> HIDE DEF worse, best
  <2>4. Selected(g, t) = {x}
    BY <1>2, <1>5, <2>1, <2>2, <2>3 DEF Selected, IsSelected
  <2>5. Ready(g, t) = Ready(f, t) \cup worse
    BY <1>2, <1>5, <2>1, <2>2, <2>3 DEF Selected, IsSelected, Ready
  <2> USE DEF worse, best
  <2>6. \A y \in Ready(g, t) : Higher(f, x, y)
    BY <1>2, <1>8, <2>5, HigherOrder DEF Ready
  <2>7. Ready(g, t) \subseteq OfTx(f, t)
    BY <1>5 DEF Ready
  <2> QED
    BY <1>2, <1>3, <1>4, <1>6, <1>7, <2>4, <2>6, <2>7 DEF Sane, g
<1>9. CASE ~best
  <2>1. Selected(g, t) = Selected(f, t) /\ Ready(g, t) = Ready(f, t) \cup {x}
    BY <1>2, <1>3, <1>5, <1>9 DEF Selected, IsSelected, OfTx, Ready
  <2>2. Selected(f, t) # {}
    BY <1>9 DEF Sane
  <2>3. ASSUME NEW y \in Selected(f, t), f[y].state = "CANDIDATE_BEST" PROVE Higher(f, y, x)
    <3>1. y \in OfTx(f, t) /\ y # x
      BY <1>2, <2>3 DEF Selected
    <3>2. CASE worse = {}
      BY <1>2, <2>3, <3>1, <3>2, HigherOrder
    <3>3. CASE better # {}
      <4>1. PICK z \in Ready(f, t) : Higher(f, z, x)
        BY <3>3
      <4>2. Higher(f, y, z) /\ z \in OfTx(f, t)
        BY <2>3 DEF Sane, Ready
      <4> QED
        BY <1>2, <3>1, <4>1, <4>2, HigherOrder
    <3> QED
      BY <1>9, <2>2, <3>2, <3>3
  <2>4. \A y \in Selected(g, t), z \in Ready(g, t) :
          g[y].state = "CANDIDATE_BEST" => Higher(g, y, z)
    BY <1>2, <1>3, <1>6, <1>9, <2>1, <2>3 DEF Sane, Selected, Ready, OfTx
  <2> QED
    BY <1>3, <1>4, <1>7, <2>1, <2>2, <2>4 DEF Sane, g
<1> QED
  BY <1>8, <1>9

(* So does MakeCompleted, which may erase all of the transaction.          *)
LEMMA Completes ==
  ASSUME NEW f, Typed(f), NEW x \in DOMAIN f, Sane(f, x[2])
  PROVE  LET g == MakeCompleted(f, x)
         IN  /\ Typed(g) /\ DOMAIN g \subseteq DOMAIN f
             /\ \A y \in DOMAIN f : y[2] # x[2] => y \in DOMAIN g /\ g[y] = f[y]
             /\ \/ OfTx(g, x[2]) = {}
                \/ /\ DOMAIN g = DOMAIN f /\ g[x].state = "COMPLETED"
                   /\ \A y \in DOMAIN f : f[y].state = "COMPLETED" => g[y].state = "COMPLETED"
             /\ Sane(g, x[2])
<1> DEFINE t == x[2]
           h == ChangeAndReselect(f, x, "COMPLETED")
           g == MakeCompleted(f, x)
<1>1. CASE f[x].state = "COMPLETED"
  <2>1. g = f
    BY <1>1 DEF MakeCompleted
  <2> HIDE DEF g
  <2> QED
    BY <1>1, <2>1 DEF g
<1>2. CASE f[x].state # "COMPLETED" /\ IsOnlyNonCompleted(f, x)
  <2>1. g = Erase(f, OfTx(f, t))
    BY <1>2 DEF MakeCompleted
  <2>2. DOMAIN g = DOMAIN f \ OfTx(f, t) /\ \A y \in DOMAIN g : g[y] = f[y]
    BY <2>1 DEF Erase
  <2> HIDE DEF g
  <2>3. OfTx(g, t) = {}
    BY <2>2 DEF OfTx
  <2>4. Selected(g, t) = {} /\ Ready(g, t) = {}
    BY <2>3 DEF Selected, Ready
  <2>5. Typed(g) /\ Sane(g, t)
    BY <2>2, <2>3, <2>4 DEF Typed, Sane
  <2> QED
    BY <2>2, <2>3, <2>5 DEF OfTx, g
<1>3. CASE f[x].state # "COMPLETED" /\ ~ IsOnlyNonCompleted(f, x)
  <2>1. g = [h EXCEPT ![x] = [@ EXCEPT !.time = 0]]
    BY <1>3 DEF MakeCompleted
  <2>2. /\ Typed(h) /\ DOMAIN h = DOMAIN f
        /\ h[x].state = "COMPLETED"
        /\ \A y \in DOMAIN f : y[2] # t => h[y] = f[y]
        /\ \A y \in DOMAIN f \ {x} : f[y].state = "COMPLETED" => h[y].state = "COMPLETED"
        /\ Sane(h, t)
    BY <1>3, Reselects, SMTT(30)
  <2> HIDE DEF g, h
  <2>3. /\ Typed(g) /\ DOMAIN g = DOMAIN f
        /\ \A y \in DOMAIN f : g[y].state = h[y].state /\ g[y].preferred = h[y].preferred
        /\ \A y \in DOMAIN f \ {x} : g[y] = h[y]
    BY <2>1, <2>2, TxRequestAssumption DEF Typed, Announcement, Time
  <2>4. Same(h, g, t)
    BY <2>2, <2>3 DEF Same, OfTx
  <2>5. Sane(g, t)
    BY <2>2, <2>4, SameSane
  <2> QED
    BY <2>2, <2>3, <2>5 DEF g
<1> QED
  BY <1>1, <1>2, <1>3, SMTT(30)

-----------------------------------------------------------------------------
(* The steps.                                                              *)

(* What a step from index f to index g has to keep.                        *)
Kept(f, g) ==
  /\ Typed(g) /\ \A t \in TxHash : Sane(g, t)
  /\ \A x \in DOMAIN f : f[x].state = "COMPLETED" =>
       \/ x \in DOMAIN g /\ g[x].state = "COMPLETED"
       \/ OfTx(g, x[2]) = {}
       \/ \A y \in DOMAIN g : y[1] # x[1]

(* A change of one transaction's announcements.                            *)
LEMMA OneTx ==
  ASSUME NEW f, NEW g, Typed(f), Typed(g), \A t \in TxHash : Sane(f, t), NEW u,
         Sane(g, u),
         \A y \in DOMAIN f \cup DOMAIN g :
           y[2] # u => y \in DOMAIN f \cap DOMAIN g /\ g[y] = f[y],
         \/ OfTx(g, u) = {}
         \/ \A y \in OfTx(f, u) : f[y].state = "COMPLETED" =>
              y \in DOMAIN g /\ g[y].state = "COMPLETED"
  PROVE  Kept(f, g)
<1>1. ASSUME NEW t \in TxHash PROVE Sane(g, t)
  <2>1. CASE t = u
    BY <2>1
  <2>2. CASE t # u
    <3>1. Same(f, g, t)
      BY <2>2 DEF Same, OfTx
    <3> QED
      BY <3>1, SameSane
  <2> QED
    BY <2>1, <2>2
<1>2. ASSUME NEW x \in DOMAIN f, f[x].state = "COMPLETED"
      PROVE  (x \in DOMAIN g /\ g[x].state = "COMPLETED") \/ OfTx(g, x[2]) = {}
  BY <1>2 DEF OfTx
<1> QED
  BY <1>1, <1>2, Zenon DEF Kept

(* Both loops of SetTimePoint have run, as far as pc says.                 *)
Timely ==
  /\ pc \in {"backward", "collect"} =>
       \A x \in DOMAIN index : IsWaiting(index[x]) => index[x].time > now
  /\ pc = "collect" =>
       \A x \in DOMAIN index : IsSelectable(index[x]) => index[x].time <= now

IInv ==
  /\ Typed(index) /\ SanityCheck /\ Timely
  /\ now \in Time

LEMMA SanityIsSane == SanityCheck <=> \A t \in TxHash : Sane(index, t)
BY DEF SanityCheck, Sane

LEMMA KeptIsSane ==
  ASSUME Kept(index, index'), now' \in Time, Timely'
  PROVE  IInv'
BY DEF IInv, SanityCheck, Sane, Kept, Typed, OfTx, Selected, Ready, Higher

LEMMA ReceivedInvKeeps ==
  ASSUME IInv, NEW x \in Announceable, NEW time \in Time, ReceivedInv(x, time)
  PROVE  Kept(index, index')
<1> DEFINE a == [state |-> "CANDIDATE_DELAYED", time |-> time, preferred |-> x[1] \in Preferred]
<1>1. /\ x \notin DOMAIN index /\ DOMAIN index' = DOMAIN index \cup {x}
      /\ index'[x] = a /\ \A y \in DOMAIN index : index'[y] = index[y]
  BY DEF ReceivedInv
<1>2. a \in Announcement
  BY DEF Announcement, State
<1>3. Typed(index')
  BY <1>1, <1>2 DEF IInv, Typed
<1>4. x[2] \in TxHash
  BY TxRequestAssumption
<1>5. Sane(index, x[2])
  BY <1>4, SanityIsSane DEF IInv
<1>6. index'[x].state = "CANDIDATE_DELAYED"
  BY <1>1
<1> HIDE DEF a
<1>7. Selected(index', x[2]) = Selected(index, x[2]) /\ Ready(index', x[2]) = Ready(index, x[2])
  BY <1>1, <1>6 DEF Selected, Ready, OfTx, IsSelected
<1>8. \A y, z \in OfTx(index, x[2]) : Higher(index', y, z) <=> Higher(index, y, z)
  BY <1>1 DEF Higher, OfTx
<1>9. x \in OfTx(index', x[2])
  BY <1>1 DEF OfTx
<1>10. Sane(index', x[2])
  <2>1. \A y \in Selected(index, x[2]) \cup Ready(index, x[2]) :
          y \in OfTx(index, x[2]) /\ index'[y] = index[y]
    BY <1>1 DEF Selected, Ready, OfTx
  <2> QED
    BY <1>5, <1>6, <1>7, <1>8, <1>9, <2>1, SMTT(30) DEF Sane
<1>11. /\ \A y \in DOMAIN index \cup DOMAIN index' :
           y[2] # x[2] => y \in DOMAIN index \cap DOMAIN index' /\ index'[y] = index[y]
       /\ \A y \in OfTx(index, x[2]) : y \in DOMAIN index' /\ index'[y] = index[y]
  BY <1>1 DEF OfTx
<1> QED
  BY <1>3, <1>10, <1>11, OneTx, SanityIsSane, SMTT(30) DEF IInv

LEMMA RequestedTxKeeps ==
  ASSUME IInv, NEW x \in Announceable, NEW expiry \in Time, RequestedTx(x, expiry)
  PROVE  Kept(index, index')
<1> DEFINE u == x[2]
<1>1. /\ x \in DOMAIN index /\ DOMAIN index' = DOMAIN index
      /\ index'[x] = [index[x] EXCEPT !.state = "REQUESTED", !.time = expiry]
      /\ \A y \in DOMAIN index \ {x} :
           /\ y[2] = u /\ index[y].state = "CANDIDATE_BEST" =>
                index'[y] = [index[y] EXCEPT !.state = "CANDIDATE_READY"]
           /\ y[2] = u /\ index[y].state = "REQUESTED" =>
                index'[y] = [index[y] EXCEPT !.state = "COMPLETED", !.time = 0]
           /\ y[2] # u \/ ~IsSelected(index[y]) => index'[y] = index[y]
  BY Zenon DEF RequestedTx, IsSelected
<1>2. \A y \in DOMAIN index : index[y] \in Announcement
  BY DEF IInv, Typed
<1>3. ASSUME NEW y \in DOMAIN index
      PROVE  /\ index'[y] \in Announcement
             /\ y # x /\ y[2] = u => ~IsSelected(index'[y])
  <2>1. 0 \in Time /\ index[y] \in Announcement
    BY <1>2, TxRequestAssumption DEF Time
  <2>2. CASE y = x
    <3>1. index'[y] = [index[y] EXCEPT !.state = "REQUESTED", !.time = expiry]
      BY <1>1, <2>2, Zenon
    <3> QED
      BY <2>1, <2>2, <3>1, Zenon DEF Announcement, State
  <2>3. CASE y # x /\ y[2] = u /\ index[y].state = "CANDIDATE_BEST"
    <3>1. index'[y] = [index[y] EXCEPT !.state = "CANDIDATE_READY"]
      BY <1>1, <2>3, Zenon
    <3> QED
      BY <2>1, <3>1 DEF Announcement, State, IsSelected
  <2>4. CASE y # x /\ y[2] = u /\ index[y].state = "REQUESTED"
    <3>1. index'[y] = [index[y] EXCEPT !.state = "COMPLETED", !.time = 0]
      BY <1>1, <2>4, Zenon
    <3> QED
      BY <2>1, <3>1, Zenon DEF Announcement, State, IsSelected
  <2>5. CASE y # x /\ (y[2] # u \/ ~IsSelected(index[y]))
    BY <1>1, <2>1, <2>5, Zenon
  <2> QED
    BY <2>2, <2>3, <2>4, <2>5 DEF IsSelected
<1>4. u \in TxHash /\ x \in OfTx(index', u)
  BY <1>1, TxRequestAssumption, Zenon DEF OfTx
<1>5. index'[x].state = "REQUESTED"
  BY <1>1, <1>2, Zenon DEF Announcement
<1>6. \A y \in OfTx(index', u) \ {x} : ~IsSelected(index'[y])
  BY <1>1, <1>3, Zenon DEF OfTx
<1>7. Selected(index', u) = {x}
  BY <1>4, <1>5, <1>6 DEF Selected, IsSelected
<1>8. Sane(index', u)
  BY <1>4, <1>5, <1>7 DEF Sane
<1>9. /\ \A y \in DOMAIN index \cup DOMAIN index' :
           y[2] # u => y \in DOMAIN index \cap DOMAIN index' /\ index'[y] = index[y]
      /\ \A y \in OfTx(index, u) : index[y].state = "COMPLETED" =>
           y \in DOMAIN index' /\ index'[y].state = "COMPLETED"
  <2>1. index[x].state # "COMPLETED"
    BY Zenon DEF RequestedTx
  <2> QED
    BY <1>1, <2>1, Zenon DEF OfTx, IsSelected
<1>10. Typed(index')
  BY <1>1, <1>3, Zenon DEF IInv, Typed
<1> QED
  BY <1>8, <1>9, <1>10, OneTx, SanityIsSane DEF IInv

(* ReceivedResponse, and an expiry in SetTimePoint.                        *)
LEMMA MakeCompletedKeeps ==
  ASSUME IInv, NEW x \in DOMAIN index
  PROVE  Kept(index, MakeCompleted(index, x))
<1> DEFINE g == MakeCompleted(index, x)
<1>1. Typed(index) /\ x[2] \in TxHash /\ \A t \in TxHash : Sane(index, t)
  BY SanityIsSane, TxRequestAssumption DEF IInv, Typed
<1>2. /\ Typed(g) /\ DOMAIN g \subseteq DOMAIN index
      /\ \A y \in DOMAIN index : y[2] # x[2] => y \in DOMAIN g /\ g[y] = index[y]
      /\ \/ OfTx(g, x[2]) = {}
         \/ /\ DOMAIN g = DOMAIN index
            /\ \A y \in DOMAIN index : index[y].state = "COMPLETED" => g[y].state = "COMPLETED"
      /\ Sane(g, x[2])
  BY <1>1, Completes, SMTT(30)
<1> HIDE DEF g
<1>3. Kept(index, g)
  BY <1>1, <1>2, OneTx DEF OfTx
<1> QED
  BY <1>3 DEF g

LEMMA ForgetTxHashKeeps ==
  ASSUME IInv, NEW t \in TxHash, ForgetTxHash(t)
  PROVE  Kept(index, index')
<1>1. /\ DOMAIN index' = DOMAIN index \ OfTx(index, t)
      /\ \A y \in DOMAIN index' : index'[y] = index[y]
  BY DEF ForgetTxHash, Become, Erase
<1>2. OfTx(index', t) = {}
  BY <1>1 DEF OfTx
<1>3. Typed(index') /\ Sane(index', t)
  BY <1>1, <1>2 DEF IInv, Typed, Sane, Selected, Ready
<1>4. \A y \in DOMAIN index \cup DOMAIN index' :
        y[2] # t => y \in DOMAIN index \cap DOMAIN index' /\ index'[y] = index[y]
  BY <1>1 DEF OfTx
<1> QED
  BY <1>2, <1>3, <1>4, OneTx, SanityIsSane DEF IInv

(* A peer disconnects: of every transaction its announcement is completed, *)
(* if it has one, and then erased.                                         *)
LEMMA DisconnectedPeerKeeps ==
  ASSUME IInv, NEW p \in Peer, DisconnectedPeer(p)
  PROVE  Kept(index, index')
<1> DEFINE round(t) == IF <<p, t>> \in DOMAIN index
                       THEN Erase(MakeCompleted(index, <<p, t>>), {<<p, t>>}) ELSE index
<1>1. /\ DOMAIN index' = {x \in DOMAIN index : x \in DOMAIN round(x[2])}
      /\ \A x \in DOMAIN index' : index'[x] = round(x[2])[x]
  BY DEF DisconnectedPeer, Become
<1>2. Typed(index) /\ \A t \in TxHash : Sane(index, t)
  BY SanityIsSane DEF IInv
<1>3. ASSUME NEW t \in TxHash
      PROVE  /\ DOMAIN round(t) \subseteq DOMAIN index \ {<<p, t>>}
             /\ \A y \in DOMAIN round(t) : round(t)[y] \in Announcement
             /\ Sane(round(t), t)
             /\ \/ OfTx(round(t), t) = {}
                \/ \A y \in OfTx(index, t) \ {<<p, t>>} : index[y].state = "COMPLETED" =>
                     y \in DOMAIN round(t) /\ round(t)[y].state = "COMPLETED"
  <2>1. CASE <<p, t>> \notin DOMAIN index
    <3>1. round(t) = index
      BY <2>1
    <3> HIDE DEF round
    <3> QED
      BY <1>2, <2>1, <3>1, SMTT(30) DEF Typed, OfTx
  <2>2. CASE <<p, t>> \in DOMAIN index
    <3> DEFINE x == <<p, t>>
               g == MakeCompleted(index, x)
               h == round(t)
    <3>1. x \in DOMAIN index /\ x[2] = t
      BY <2>2, SMTT(30)
    <3>2. /\ Typed(g) /\ DOMAIN g \subseteq DOMAIN index
          /\ \/ OfTx(g, t) = {}
             \/ /\ DOMAIN g = DOMAIN index /\ g[x].state = "COMPLETED"
                /\ \A y \in DOMAIN index : index[y].state = "COMPLETED" => g[y].state = "COMPLETED"
          /\ Sane(g, t)
      <4> HIDE DEF x
      <4> QED BY <1>2, <3>1, Completes, SMTT(30)
    <3>3. DOMAIN h = DOMAIN g \ {x} /\ \A y \in DOMAIN h : h[y] = g[y]
      BY <2>2 DEF Erase
    <3> HIDE DEF g, h, x
    <3>4. OfTx(h, t) = OfTx(g, t) \ {x}
      BY <3>3 DEF OfTx
    <3>5. x \in OfTx(g, t) => g[x].state = "COMPLETED"
      BY <3>2
    <3>6. Selected(h, t) = Selected(g, t) /\ Ready(h, t) = Ready(g, t)
      BY <3>3, <3>4, <3>5 DEF Selected, Ready, IsSelected, OfTx
    <3>7. \A y, z \in OfTx(h, t) : h[y] = g[y] /\ (Higher(h, y, z) <=> Higher(g, y, z))
      BY <3>3 DEF Higher, OfTx
    <3>8. Sane(h, t)
      <4>1. Selected(h, t) \subseteq OfTx(h, t) /\ Ready(h, t) \subseteq OfTx(h, t)
        BY DEF Selected, Ready
      <4> QED
        BY <3>2, <3>4, <3>5, <3>6, <3>7, <4>1, SMTT(30) DEF Sane
    <3> QED
      BY <3>2, <3>3, <3>4, <3>8, Zenon DEF Typed, OfTx, h, x
  <2> QED
    BY <2>1, <2>2, Zenon
<1> HIDE DEF round
<1>4. \A x \in DOMAIN index : x \in Announceable /\ x[2] \in TxHash /\ x = <<x[1], x[2]>>
  BY <1>2, TxRequestAssumption DEF Typed
<1>5. Typed(index')
  BY <1>1, <1>2, <1>3, <1>4 DEF Typed
<1>6. ASSUME NEW t \in TxHash PROVE Same(round(t), index', t)
  BY <1>1, <1>3 DEF Same, OfTx
<1>7. \A t \in TxHash : Sane(index', t)
  BY <1>3, <1>6, SameSane
<1>8. ASSUME NEW x \in DOMAIN index, index[x].state = "COMPLETED"
      PROVE  \/ x \in DOMAIN index' /\ index'[x].state = "COMPLETED"
             \/ OfTx(index', x[2]) = {}
             \/ \A y \in DOMAIN index' : y[1] # x[1]
  <2>1. CASE x[1] = p
    BY <1>1, <1>3, <1>4, <2>1
  <2>2. CASE x[1] # p
    <3>1. x # <<p, x[2]>> /\ x \in OfTx(index, x[2])
      BY <2>2 DEF OfTx
    <3> QED
      BY <1>1, <1>3, <1>4, <1>6, <1>8, <3>1 DEF Same
  <2> QED
    BY <2>1, <2>2
<1> QED
  BY <1>5, <1>7, <1>8 DEF Kept

LEMMA ForwardKeeps ==
  ASSUME IInv, SetTimePointForward
  PROVE  Kept(index, index')
<1>1. \A t \in TxHash : Sane(index, t)
  BY SanityIsSane DEF IInv
<1>2. CASE UNCHANGED index
  BY <1>1, <1>2 DEF IInv, Kept
<1>3. CASE index' # index
  <2>1. PICK x \in Due :
          index' = IF index[x].state = "CANDIDATE_DELAYED"
                   THEN PromoteCandidateReady(index, x) ELSE MakeCompleted(index, x)
    BY <1>3, Zenon DEF SetTimePointForward, Become
  <2>2. x \in DOMAIN index /\ x[2] \in TxHash
    BY TxRequestAssumption DEF Due, IInv, Typed
  <2>3. CASE index[x].state # "CANDIDATE_DELAYED"
    BY <2>1, <2>2, <2>3, MakeCompletedKeeps
  <2>4. CASE index[x].state = "CANDIDATE_DELAYED"
    <3>1. /\ Typed(index') /\ DOMAIN index' = DOMAIN index
          /\ \A y \in DOMAIN index : y[2] # x[2] => index'[y] = index[y]
          /\ \A y \in DOMAIN index : index[y].state = "COMPLETED" => index'[y] = index[y]
          /\ Sane(index', x[2])
      BY <1>1, <2>1, <2>2, <2>4, Promotes DEF IInv
    <3> QED
      BY <1>1, <3>1, OneTx, SMTT(30) DEF IInv, OfTx
  <2> QED
    BY <2>3, <2>4
<1> QED
  BY <1>2, <1>3

LEMMA BackwardKeeps ==
  ASSUME IInv, SetTimePointBackward
  PROVE  Kept(index, index')
<1>1. \A t \in TxHash : Sane(index, t)
  BY SanityIsSane DEF IInv
<1>2. CASE UNCHANGED index
  BY <1>1, <1>2 DEF IInv, Kept
<1>3. CASE index' # index
  <2>1. PICK x \in Early : index' = ChangeAndReselect(index, x, "CANDIDATE_DELAYED")
    BY <1>3 DEF SetTimePointBackward
  <2>2. x \in DOMAIN index /\ x[2] \in TxHash /\ index[x].state # "COMPLETED"
    BY TxRequestAssumption DEF Early, IInv, Typed, IsSelectable
  <2>3. /\ Typed(index') /\ DOMAIN index' = DOMAIN index
        /\ \A y \in DOMAIN index : y[2] # x[2] => index'[y] = index[y]
        /\ \A y \in DOMAIN index \ {x} :
             \/ index'[y].state = index[y].state
             \/ index[y].state = "CANDIDATE_READY"
        /\ Sane(index', x[2])
    BY <1>1, <2>1, <2>2, Reselects, SMTT(30) DEF IInv
  <2> QED
    BY <1>1, <2>2, <2>3, OneTx DEF IInv, OfTx
<1> QED
  BY <1>2, <1>3

-----------------------------------------------------------------------------
(* The clock.                                                              *)

(* The first loop ends when nothing that waits is due,                     *)
LEMMA NoneDue ==
  ASSUME IInv, Due = {}
  PROVE  \A x \in DOMAIN index : IsWaiting(index[x]) => index[x].time > now
<1> DEFINE W == {x \in DOMAIN index : IsWaiting(index[x])}
           R == {p \in W \X W : index[p[1]].time < index[p[2]].time}
<1>1. \A x \in W : index[x].time \in Nat /\ now \in Nat
  BY TxRequestAssumption DEF IInv, Typed, Announcement, Time
<1>2. IsFiniteSet(W)
  BY TxRequestAssumption, FS_Subset DEF IInv, Typed
<1>3. \A x, y \in W : <<x, y>> \in R <=> index[x].time < index[y].time
  OBVIOUS
<1>4. ASSUME NEW w \in W, ~(index[w].time > now) PROVE FALSE
  <2>1. PICK m \in W : \A y \in W : <<y, m>> \notin R
    <3>1. /\ \A x \in W : <<x, x>> \notin R
          /\ \A x, y, z \in W : <<x, y>> \in R /\ <<y, z>> \in R => <<x, z>> \in R
      BY <1>1, <1>3, SMTT(30)
    <3> HIDE DEF R, W
    <3> QED BY <1>2, <1>4, <3>1, Minimal
  <2>2. \A y \in W : index[m].time <= index[y].time
    <3> SUFFICES ASSUME NEW y \in W PROVE ~(index[y].time < index[m].time)
      BY <1>1
    <3>1. <<y, m>> \notin R
      BY <2>1
    <3> HIDE DEF R
    <3> QED BY <1>3, <3>1
  <2>3. m \in Due
    BY <1>1, <1>4, <2>2 DEF Due
  <2> QED
    BY <2>3
<1> QED
  BY <1>4

(* and the second when nothing that can be selected is early.              *)
LEMMA NoneEarly ==
  ASSUME IInv, Early = {}
  PROVE  \A x \in DOMAIN index : IsSelectable(index[x]) => index[x].time <= now
<1> DEFINE W == {x \in DOMAIN index : IsSelectable(index[x])}
           R == {p \in W \X W : index[p[1]].time > index[p[2]].time}
<1>1. \A x \in W : index[x].time \in Nat /\ now \in Nat
  BY TxRequestAssumption DEF IInv, Typed, Announcement, Time
<1>2. IsFiniteSet(W)
  BY TxRequestAssumption, FS_Subset DEF IInv, Typed
<1>3. \A x, y \in W : <<x, y>> \in R <=> index[x].time > index[y].time
  OBVIOUS
<1>4. ASSUME NEW w \in W, ~(index[w].time <= now) PROVE FALSE
  <2>1. PICK m \in W : \A y \in W : <<y, m>> \notin R
    <3>1. /\ \A x \in W : <<x, x>> \notin R
          /\ \A x, y, z \in W : <<x, y>> \in R /\ <<y, z>> \in R => <<x, z>> \in R
      BY <1>1, <1>3, SMTT(30)
    <3> HIDE DEF R, W
    <3> QED BY <1>2, <1>4, <3>1, Minimal
  <2>2. \A y \in W : index[y].time <= index[m].time
    <3> SUFFICES ASSUME NEW y \in W PROVE ~(index[y].time > index[m].time)
      BY <1>1
    <3>1. <<y, m>> \notin R
      BY <2>1
    <3> HIDE DEF R
    <3> QED BY <1>3, <3>1
  <2>3. m \in Early
    BY <1>1, <1>4, <2>2 DEF Early
  <2> QED
    BY <2>3
<1> QED
  BY <1>4

LEMMA BackwardTimely ==
  ASSUME IInv, SetTimePointBackward
  PROVE  Timely'
<1>1. CASE Early = {}
  BY <1>1, NoneEarly DEF SetTimePointBackward, IInv, Timely
<1>2. CASE Early # {}
  <2>1. PICK x \in Early : index' = ChangeAndReselect(index, x, "CANDIDATE_DELAYED")
    BY <1>2 DEF SetTimePointBackward
  <2>2. /\ x \in DOMAIN index /\ x[2] \in TxHash /\ index[x].time > now
        /\ pc = "backward" /\ pc' = "backward" /\ now' = now
    BY <1>2, TxRequestAssumption, SMTT(30) DEF Early, IInv, Typed, SetTimePointBackward
  <2>3. /\ DOMAIN index' = DOMAIN index
        /\ \A y \in DOMAIN index \ {x} :
             \/ index'[y].state = index[y].state
             \/ index'[y].state = "CANDIDATE_BEST"
        /\ \A y \in DOMAIN index : index'[y].time = index[y].time
    BY <2>1, <2>2, Reselects, SanityIsSane, SMTT(30) DEF IInv
  <2> QED
    BY <2>2, <2>3 DEF IInv, Timely, IsWaiting
<1> QED
  BY <1>1, <1>2

-----------------------------------------------------------------------------

LEMMA InitIInv == Init => IInv
<1> SUFFICES ASSUME Init PROVE IInv
  OBVIOUS
<1>1. DOMAIN index = {} /\ pc = "idle" /\ now \in Time
  BY TxRequestAssumption DEF Init, Time
<1> QED
  BY <1>1, SMTT(30) DEF IInv, Typed, SanityCheck, Timely, OfTx, Selected, Ready

(* Every step keeps the invariant and what is COMPLETED.                   *)
LEMMA NextKeeps ==
  ASSUME IInv, [Next]_vars
  PROVE  IInv' /\ Kept(index, index')
<1>1. Kept(index, index) /\ MaxTime \in Nat
  BY SanityIsSane, TxRequestAssumption DEF IInv, Kept
<1>2. ASSUME NEW x \in Announceable, NEW time \in Time, ReceivedInv(x, time)
      PROVE  IInv' /\ Kept(index, index')
  <2>1. now' \in Time /\ Timely'
    BY <1>2, SMTT(30) DEF ReceivedInv, Idle, IInv, Timely
  <2> QED
    BY <1>2, <2>1, ReceivedInvKeeps, KeptIsSane
<1>3. ASSUME NEW x \in Announceable, NEW time \in Time, RequestedTx(x, time)
      PROVE  IInv' /\ Kept(index, index')
  <2>1. now' \in Time /\ Timely'
    BY <1>3, Zenon DEF RequestedTx, Idle, IInv, Timely
  <2> QED
    BY <1>3, <2>1, RequestedTxKeeps, KeptIsSane
<1>4. ASSUME NEW x \in Announceable, ReceivedResponse(x)
      PROVE  IInv' /\ Kept(index, index')
  <2>1. now' \in Time /\ Timely'
    BY <1>4, SMTT(30) DEF ReceivedResponse, Idle, IInv, Timely
  <2>2. x \in DOMAIN index /\ index' = MakeCompleted(index, x)
    BY <1>4 DEF ReceivedResponse, Become
  <2> QED
    BY <2>1, <2>2, MakeCompletedKeeps, KeptIsSane
<1>5. ASSUME NEW p \in Peer, DisconnectedPeer(p)
      PROVE  IInv' /\ Kept(index, index')
  <2>1. now' \in Time /\ Timely'
    BY <1>5, SMTT(30) DEF DisconnectedPeer, Idle, IInv, Timely
  <2> QED
    BY <1>5, <2>1, DisconnectedPeerKeeps, KeptIsSane
<1>6. ASSUME NEW p \in Peer, NEW time \in Time, GetRequestable(p, time)
      PROVE  IInv' /\ Kept(index, index')
  <2>1. now' \in Time /\ Timely' /\ index' = index
    BY <1>6 DEF GetRequestable, Timely
  <2> QED
    BY <1>1, <2>1, KeptIsSane
<1>7. ASSUME NEW t \in TxHash, ForgetTxHash(t)
      PROVE  IInv' /\ Kept(index, index')
  <2>1. now' \in Time /\ Timely'
    BY <1>7, SMTT(30) DEF ForgetTxHash, Idle, IInv, Timely
  <2> QED
    BY <1>7, <2>1, ForgetTxHashKeeps, KeptIsSane
<1>8. ASSUME SetTimePointForward
      PROVE  IInv' /\ Kept(index, index')
  <2>1. now' \in Time /\ Timely'
    BY <1>8, NoneDue, SMTT(30) DEF SetTimePointForward, IInv, Timely
  <2> QED
    BY <1>8, <2>1, ForwardKeeps, KeptIsSane
<1>9. ASSUME SetTimePointBackward
      PROVE  IInv' /\ Kept(index, index')
  <2>1. now' \in Time
    BY <1>9 DEF SetTimePointBackward, IInv
  <2> QED
    BY <1>9, <2>1, BackwardKeeps, BackwardTimely, KeptIsSane
<1>10. ASSUME Collect \/ Return \/ UNCHANGED vars
       PROVE  IInv' /\ Kept(index, index')
  <2> SUFFICES now' \in Time /\ Timely' /\ index' = index
    BY <1>1, KeptIsSane
  <2>1. CASE Collect
    BY <1>1, <2>1 DEF Collect, Timely, Time
  <2>2. CASE Return \/ UNCHANGED vars
    BY <2>2, SMTT(30) DEF Return, vars, IInv, Timely, IsWaiting, IsSelectable
  <2> QED
    BY <1>10, <2>1, <2>2
<1> QED
  BY <1>2, <1>3, <1>4, <1>5, <1>6, <1>7, <1>8, <1>9, <1>10 DEF Next

(***************************************************************************)
(* Whatever calls are made, and wherever the clock goes, what SanityCheck  *)
(* asserts of the index holds (txrequest.cpp).                             *)
(***************************************************************************)
THEOREM AlwaysSane == Spec => []SanityCheck
<1>1. IInv /\ [Next]_vars => IInv'
  BY NextKeeps
<1>2. IInv => SanityCheck
  BY DEF IInv
<1> QED
  BY InitIInv, <1>1, <1>2, PTL DEF Spec

(***************************************************************************)
(* When SetTimePoint has ended, what PostGetRequestableSanityCheck asserts *)
(* holds, also if the clock has gone backwards.                            *)
(***************************************************************************)
THEOREM AlwaysTimely == Spec => []PostGetRequestableSanityCheck
<1>1. IInv /\ [Next]_vars => IInv'
  BY NextKeeps
<1>2. IInv => PostGetRequestableSanityCheck
  BY DEF IInv, Timely, PostGetRequestableSanityCheck
<1> QED
  BY InitIInv, <1>1, <1>2, PTL DEF Spec

(***************************************************************************)
(* A peer that failed to deliver a transaction is not asked for it again   *)
(* while others may be: COMPLETED announcements stay.                      *)
(***************************************************************************)
THEOREM NeverAskedAgain == Spec => NotAskedAgain
<1>1. IInv /\ [Next]_vars => IInv'
  BY NextKeeps
<1>2. IInv /\ [Next]_vars =>
        [\A x \in DOMAIN index : index[x].state = "COMPLETED" =>
           \/ x \in DOMAIN index' /\ index'[x].state = "COMPLETED"
           \/ OfTx(index', x[2]) = {}
           \/ \A y \in DOMAIN index' : y[1] # x[1]]_vars
  BY NextKeeps, SMTT(30) DEF Kept
<1> QED
  BY InitIInv, <1>1, <1>2, PTL DEF Spec, NotAskedAgain
=============================================================================
