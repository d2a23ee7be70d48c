------------------------------ MODULE CoinsMap ------------------------------
(***************************************************************************)
(* What the coins views promise to validation: three versions of the       *)
(* unspent-output map, each with the block it corresponds to.  Validation  *)
(* edits the working version and either commits it to the active version   *)
(* or abandons it; the active version is persisted as a whole.             *)
(***************************************************************************)
CONSTANTS OutPoint, Coin, Spent, Hash, NullHash

VARIABLES disk, active, work, working

vars == <<disk, active, work, working>>

Version == [coins : [OutPoint -> Coin \cup {Spent}], best : Hash \cup {NullHash}]

TypeOK ==
  /\ disk \in Version /\ active \in Version /\ work \in Version
  /\ working \in BOOLEAN

Init ==
  /\ disk = [coins |-> [o \in OutPoint |-> Spent], best |-> NullHash]
  /\ active = disk
  /\ work = disk
  /\ working = FALSE

Begin ==
  /\ ~working
  /\ working' = TRUE
  /\ UNCHANGED <<disk, active, work>>

Edit ==
  /\ working
  /\ \/ \E o \in OutPoint, c \in Coin \cup {Spent} : work' = [work EXCEPT !.coins[o] = c]
     \/ \E b \in Hash : work' = [work EXCEPT !.best = b]
  /\ UNCHANGED <<disk, active, working>>

Commit ==
  /\ working
  /\ working' = FALSE
  /\ active' = work
  /\ UNCHANGED <<disk, work>>

Abandon ==
  /\ working
  /\ working' = FALSE
  /\ work' = active
  /\ UNCHANGED <<disk, active>>

Persist ==
  /\ disk' = active
  /\ UNCHANGED <<active, work, working>>

Next == Begin \/ Edit \/ Commit \/ Abandon \/ Persist

Spec == Init /\ [][Next]_vars
=============================================================================
