------------------------------ MODULE TxRequest ------------------------------
(***************************************************************************)
(* TxRequestTracker::Impl (txrequest.cpp): the announcements with their    *)
(* cached states CANDIDATE_DELAYED, _READY and _BEST, kept up to date by   *)
(* every call, and brought in line with the clock by GetRequestable.       *)
(*                                                                         *)
(* The calls come from net_processing.cpp, which holds cs_main: they do    *)
(* not overlap, and the loops of GetRequestable are steps between which    *)
(* nothing else happens.  A sequence number is only compared with those of *)
(* the same peer: announced keeps that order.  m_is_wtxid is only handed   *)
(* back, and m_peerinfo only counts: they are left out.                    *)
(***************************************************************************)
EXTENDS Naturals, Sequences, FiniteSets

CONSTANTS Peer, TxHash, Preferred, Announceable, Priority, MaxTime

ASSUME TxRequestAssumption ==
  /\ Preferred \subseteq Peer
  /\ Announceable \subseteq Peer \X TxHash
  /\ IsFiniteSet(Announceable)
  /\ Priority \in [Announceable -> Nat]
  /\ \A x, y \in Announceable : x[2] = y[2] /\ Priority[x] = Priority[y] => x = y
  /\ MaxTime \in Nat

VARIABLES
  index,       \* m_index, by <<m_peer, m_txhash>>
  announced,   \* the transactions of each peer in the order of m_sequence
  pc,          \* "idle", or where GetRequestable is
  asking,      \* its peer, as a set
  now,         \* its time point, if one is in progress
  answer       \* what it returns

vars == <<index, announced, pc, asking, now, answer>>

Time == 0 .. MaxTime

State == {"CANDIDATE_DELAYED", "CANDIDATE_READY", "CANDIDATE_BEST", "REQUESTED", "COMPLETED"}

\* time is m_time: the reqtime of a candidate, the expiry of a request; that of
\* a COMPLETED announcement is no longer read.
Announcement == [state : State, time : Time, preferred : BOOLEAN]

TypeOK ==
  /\ DOMAIN index \subseteq Announceable
  /\ \A x \in DOMAIN index : index[x] \in Announcement
  /\ announced \in [Peer -> Seq(TxHash)]
  /\ \A p \in Peer, t \in TxHash :
       Cardinality({i \in DOMAIN announced[p] : announced[p][i] = t}) =
         IF <<p, t>> \in DOMAIN index THEN 1 ELSE 0
  /\ pc \in {"idle", "forward", "backward", "collect"}
  /\ asking \subseteq Peer /\ now \in Time /\ answer \in Seq(TxHash)

IsSelected(a) == a.state \in {"CANDIDATE_BEST", "REQUESTED"}

IsWaiting(a) == a.state \in {"REQUESTED", "CANDIDATE_DELAYED"}

IsSelectable(a) == a.state \in {"CANDIDATE_READY", "CANDIDATE_BEST"}

\* The PriorityComputer: the preferred flag is the top bit.
Higher(f, x, y) ==
  \/ f[x].preferred /\ ~f[y].preferred
  \/ f[x].preferred = f[y].preferred /\ Priority[x] > Priority[y]

OfTx(f, t) == {x \in DOMAIN f : x[2] = t}

SetState(f, x, s) == [f EXCEPT ![x] = [@ EXCEPT !.state = s]]

-----------------------------------------------------------------------------
(* The private helpers, on an index f                                      *)

Selected(f, t) == {x \in OfTx(f, t) : IsSelected(f[x])}

Ready(f, t) == {x \in OfTx(f, t) : f[x].state = "CANDIDATE_READY"}

Best(f, S) == CHOOSE x \in S : \A y \in S \ {x} : Higher(f, x, y)

\* In the order of the ByTxHash index a READY that is better than x comes next,
\* or else what is selected.
PromoteCandidateReady(f, x) ==
  LET better == {y \in Ready(f, x[2]) : Higher(f, y, x)}
      selected == Selected(f, x[2])
      worse == {y \in selected : f[y].state = "CANDIDATE_BEST" /\ Higher(f, x, y)}
      best == better = {} /\ (selected = {} \/ worse # {})
  IN [y \in DOMAIN f |->
        IF y = x
        THEN [f[x] EXCEPT !.state = IF best THEN "CANDIDATE_BEST" ELSE "CANDIDATE_READY"]
        ELSE IF best /\ y \in worse THEN [f[y] EXCEPT !.state = "CANDIDATE_READY"] ELSE f[y]]

\* A plausible mistake: nothing is selected in place of x.
ChangeAndReselectNot(f, x, s) == SetState(f, x, s)

\* If x was selected, the best CANDIDATE_READY takes its place.
ChangeAndReselect(f, x, s) ==
  LET ready == Ready(f, x[2])
  IN SetState(IF IsSelected(f[x]) /\ ready # {}
              THEN SetState(f, Best(f, ready), "CANDIDATE_BEST") ELSE f,
              x, s)

\* The others may be COMPLETED.
IsOnlyNonCompleted(f, x) ==
  \A y \in OfTx(f, x[2]) \ {x} : f[y].state = "COMPLETED"

Erase(f, D) == [x \in DOMAIN f \ D |-> f[x]]

\* The last announcement that is not COMPLETED takes the others with it.
MakeCompleted(f, x) ==
  IF f[x].state = "COMPLETED" THEN f
  ELSE IF IsOnlyNonCompleted(f, x) THEN Erase(f, OfTx(f, x[2]))
  ELSE LET g == ChangeAndReselect(f, x, "COMPLETED")
       IN [g EXCEPT ![x] = [@ EXCEPT !.time = 0]]

-----------------------------------------------------------------------------
(* The calls                                                               *)

\* The index becomes f; the order of what stays is kept.
Become(f) ==
  /\ index' = f
  /\ announced' =
       [p \in Peer |-> SelectSeq(announced[p], LAMBDA t : <<p, t>> \in DOMAIN f)]

\* No call is in progress.
Idle == pc = "idle" /\ answer = <<>>

Init ==
  /\ index = <<>> /\ announced = [p \in Peer |-> <<>>]
  /\ pc = "idle" /\ asking = {} /\ now = 0 /\ answer = <<>>

\* A plausible mistake: a failed announcement may be renewed.
ReceivedInvRenews(x, reqtime) ==
  /\ Idle /\ (x \in DOMAIN index => index[x].state = "COMPLETED")
  /\ index' = [y \in DOMAIN index \cup {x} |->
                IF y = x
                THEN [state |-> "CANDIDATE_DELAYED", time |-> reqtime, preferred |-> x[1] \in Preferred]
                ELSE index[y]]
  /\ announced' = [announced EXCEPT ![x[1]] = IF x \in DOMAIN index THEN @ ELSE Append(@, x[2])]
  /\ UNCHANGED <<pc, asking, now, answer>>

\* The ByPeer index has no announcement of the pair yet.
ReceivedInv(x, reqtime) ==
  /\ Idle /\ x \notin DOMAIN index
  /\ index' = [y \in DOMAIN index \cup {x} |->
                IF y = x
                THEN [state |-> "CANDIDATE_DELAYED", time |-> reqtime, preferred |-> x[1] \in Preferred]
                ELSE index[y]]
  /\ announced' = [announced EXCEPT ![x[1]] = Append(@, x[2])]
  /\ UNCHANGED <<pc, asking, now, answer>>

\* The loop takes the transactions of the peer one by one; each round changes
\* announcements of one transaction only.
DisconnectedPeer(p) ==
  /\ Idle
  /\ LET round(t) == IF <<p, t>> \in DOMAIN index
                     THEN Erase(MakeCompleted(index, <<p, t>>), {<<p, t>>}) ELSE index
     IN Become([x \in {x \in DOMAIN index : x \in DOMAIN round(x[2])} |-> round(x[2])[x]])
  /\ UNCHANGED <<pc, asking, now, answer>>

ForgetTxHash(t) ==
  /\ Idle
  /\ Become(Erase(index, OfTx(index, t)))
  /\ UNCHANGED <<pc, asking, now, answer>>

\* x is a candidate, and not only one that GetRequestable returned.  Of the
\* other announcements a CANDIDATE_BEST is demoted, a REQUESTED given up.
RequestedTx(x, expiry) ==
  /\ Idle /\ x \in DOMAIN index
  /\ index[x].state \notin {"REQUESTED", "COMPLETED"}
  /\ index' = [y \in DOMAIN index |->
       IF y = x THEN [index[x] EXCEPT !.state = "REQUESTED", !.time = expiry]
       ELSE IF y[2] = x[2] /\ index[y].state = "CANDIDATE_BEST"
       THEN [index[y] EXCEPT !.state = "CANDIDATE_READY"]
       ELSE IF y[2] = x[2] /\ index[y].state = "REQUESTED"
       THEN [index[y] EXCEPT !.state = "COMPLETED", !.time = 0]
       ELSE index[y]]
  /\ UNCHANGED <<announced, pc, asking, now, answer>>

ReceivedResponse(x) ==
  /\ Idle /\ x \in DOMAIN index
  /\ Become(MakeCompleted(index, x))
  /\ UNCHANGED <<pc, asking, now, answer>>

-----------------------------------------------------------------------------
(* GetRequestable, with SetTimePoint                                       *)

\* The clock may go backwards between two calls.
GetRequestable(p, time) ==
  /\ Idle
  /\ asking' = {p} /\ now' = time /\ pc' = "forward"
  /\ UNCHANGED <<index, announced, answer>>

\* What the first loop finds at the head of the ByTime index, if it is due
Due == {x \in DOMAIN index :
          /\ IsWaiting(index[x]) /\ index[x].time <= now
          /\ \A y \in DOMAIN index : IsWaiting(index[y]) => index[x].time <= index[y].time}

SetTimePointForward ==
  /\ pc = "forward"
  /\ IF Due = {} THEN pc' = "backward" /\ UNCHANGED <<index, announced>>
     ELSE /\ \E x \in Due :
               Become(IF index[x].state = "CANDIDATE_DELAYED"
                      THEN PromoteCandidateReady(index, x) ELSE MakeCompleted(index, x))
          /\ UNCHANGED pc
  /\ UNCHANGED <<asking, now, answer>>

\* What the second loop finds at its end, if it is not yet due
Early == {x \in DOMAIN index :
            /\ IsSelectable(index[x]) /\ index[x].time > now
            /\ \A y \in DOMAIN index : IsSelectable(index[y]) => index[y].time <= index[x].time}

\* A plausible mistake: the clock never goes backwards.
SetTimePointBackwardNot ==
  /\ pc = "backward" /\ pc' = "collect"
  /\ UNCHANGED <<index, announced, asking, now, answer>>

SetTimePointBackward ==
  /\ pc = "backward"
  /\ IF Early = {} THEN pc' = "collect" /\ UNCHANGED index
     ELSE /\ \E x \in Early : index' = ChangeAndReselect(index, x, "CANDIDATE_DELAYED")
          /\ UNCHANGED pc
  /\ UNCHANGED <<announced, asking, now, answer>>

\* A plausible mistake: the latest announcement comes first.
CollectUnsorted ==
  /\ pc = "collect"
  /\ \E p \in asking :
       LET latest == [i \in DOMAIN announced[p] |-> announced[p][Len(announced[p]) + 1 - i]]
       IN answer' = SelectSeq(latest, LAMBDA t : index[<<p, t>>].state = "CANDIDATE_BEST")
  /\ asking' = {} /\ now' = 0 /\ pc' = "idle"
  /\ UNCHANGED <<index, announced>>

Collect ==
  /\ pc = "collect"
  /\ \E p \in asking :
       answer' = SelectSeq(announced[p], LAMBDA t : index[<<p, t>>].state = "CANDIDATE_BEST")
  /\ asking' = {} /\ now' = 0 /\ pc' = "idle"
  /\ UNCHANGED <<index, announced>>

Return ==
  /\ answer # <<>> /\ answer' = <<>>
  /\ UNCHANGED <<index, announced, pc, asking, now>>

Next ==
  \/ \E x \in Announceable, time \in Time :
       ReceivedInv(x, time) \/ RequestedTx(x, time)
  \/ \E x \in Announceable : ReceivedResponse(x)
  \/ \E p \in Peer : DisconnectedPeer(p) \/ \E time \in Time : GetRequestable(p, time)
  \/ \E t \in TxHash : ForgetTxHash(t)
  \/ SetTimePointForward \/ SetTimePointBackward \/ Collect \/ Return

Spec == Init /\ [][Next]_vars

-----------------------------------------------------------------------------
(* Properties                                                              *)

\* What SanityCheck asserts of every transaction, between any two calls and
\* even between the rounds of SetTimePoint: not all its announcements have
\* failed; at most one is selected, and one is when some are ready; and a
\* CANDIDATE_BEST has no better one among the ready.
SanityCheck ==
  \A t \in TxHash :
    /\ OfTx(index, t) # {} => \E x \in OfTx(index, t) : index[x].state # "COMPLETED"
    /\ \A x, y \in Selected(index, t) : x = y
    /\ Ready(index, t) # {} => Selected(index, t) # {}
    /\ \A x \in Selected(index, t), y \in Ready(index, t) :
         index[x].state = "CANDIDATE_BEST" => Higher(index, x, y)

\* What PostGetRequestableSanityCheck asserts when both loops have ended,
\* wherever the clock was before: whoever waits still has to, and a candidate
\* that can be selected is due.
PostGetRequestableSanityCheck ==
  pc = "collect" =>
    \A x \in DOMAIN index :
      /\ IsWaiting(index[x]) => index[x].time > now
      /\ IsSelectable(index[x]) => index[x].time <= now

\* A peer that failed to deliver a transaction is not asked again: its
\* COMPLETED announcement goes away only together with all of the transaction
\* or all of the peer.
NotAskedAgain ==
  [][\A x \in DOMAIN index : index[x].state = "COMPLETED" =>
       \/ x \in DOMAIN index' /\ index'[x].state = "COMPLETED"
       \/ OfTx(index', x[2]) = {}
       \/ \A y \in DOMAIN index' : y[1] # x[1]]_vars

\* The cached states answer every GetRequestable as the announcements
\* themselves would: the tracker implements TxRequestSpec.
Abstract == INSTANCE TxRequestSpec WITH
  ann <- [x \in DOMAIN index |->
           [index[x] EXCEPT !.state =
              IF @ \in {"REQUESTED", "COMPLETED"} THEN @ ELSE "CANDIDATE"]]

AnswersFromScratch == Abstract!Spec

=============================================================================
