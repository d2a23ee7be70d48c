---------------------------- MODULE TxRequestSpec ----------------------------
(***************************************************************************)
(* What TxRequestTracker (txrequest.h) promises: which transactions a peer *)
(* is to be asked for, worked out from the announcements themselves.       *)
(* TxRequest, the tracker with its cached choice of a best candidate,      *)
(* implements it.                                                          *)
(***************************************************************************)
EXTENDS Naturals, Sequences

CONSTANTS
  Peer, TxHash,
  Preferred,      \* the peers with fPreferredDownload, which is decided once
  Announceable,   \* the <<peer, txhash>> pairs that may be announced
  Priority,       \* the salted hash of a pair, which breaks ties
  MaxTime         \* bound: the clock

VARIABLES
  ann,         \* the announcements: [Announceable -/-> [state, time, preferred]]
  announced,   \* the transactions of each peer in the order of their announcement
  asking,      \* the peer of a GetRequestable in progress, as a set
  now,         \* its time point
  answer       \* what it returns

vars == <<ann, announced, asking, now, answer>>

Time == 0 .. MaxTime

OfTx(f, t) == {x \in DOMAIN f : x[2] = t}

InState(f, S) == {x \in DOMAIN f : f[x].state \in S}

\* The announcements of D remain.
Keep(f, D) == [x \in DOMAIN f \cap D |-> f[x]]

\* Transactions of which only COMPLETED announcements remain are forgotten.
Live(f) == {x \in DOMAIN f : \E y \in OfTx(f, x[2]) : f[y].state # "COMPLETED"}

\* The pairs that stay are still in the order of their announcement.
StillAnnounced(f) ==
  [p \in Peer |-> SelectSeq(announced[p], LAMBDA t : <<p, t>> \in DOMAIN f)]

Better(f, x, y) ==
  \/ f[x].preferred /\ ~f[y].preferred
  \/ f[x].preferred = f[y].preferred /\ Priority[x] > Priority[y]

Completed(f, x) == [f EXCEPT ![x] = [@ EXCEPT !.state = "COMPLETED", !.time = 0]]

\* x is the best candidate for its transaction, which nobody is asked for.
Requestable(f, x) ==
  LET ready == {y \in OfTx(f, x[2]) : f[y].state = "CANDIDATE" /\ f[y].time <= now}
  IN /\ x \in ready
     /\ \A y \in ready \ {x} : Better(f, x, y)
     /\ \A y \in OfTx(f, x[2]) : f[y].state # "REQUESTED"

Become(f) == ann' = f /\ announced' = StillAnnounced(f)

-----------------------------------------------------------------------------

Idle == asking = {} /\ answer = <<>>

Init ==
  /\ ann = <<>> /\ announced = [p \in Peer |-> <<>>]
  /\ asking = {} /\ now = 0 /\ answer = <<>>

ReceivedInv(x, reqtime) ==
  /\ Idle /\ x \notin DOMAIN ann
  /\ ann' = [y \in DOMAIN ann \cup {x} |->
              IF y = x THEN [state |-> "CANDIDATE", time |-> reqtime, preferred |-> x[1] \in Preferred]
              ELSE ann[y]]
  /\ announced' = [announced EXCEPT ![x[1]] = Append(@, x[2])]
  /\ UNCHANGED <<asking, now, answer>>

\* The announcements of the peer are gone, and what then has only failed ones.
DisconnectedPeer(p) ==
  /\ Idle
  /\ LET rest == Keep(ann, {x \in DOMAIN ann : x[1] # p})
     IN Become(Keep(rest, Live(rest)))
  /\ UNCHANGED <<asking, now, answer>>

ForgetTxHash(t) ==
  /\ Idle
  /\ Become(Keep(ann, DOMAIN ann \ OfTx(ann, t)))
  /\ UNCHANGED <<asking, now, answer>>

\* Another request for the same transaction is no longer waited for.
RequestedTx(x, expiry) ==
  /\ Idle /\ x \in InState(ann, {"CANDIDATE"})
  /\ ann' = [y \in DOMAIN ann |->
              IF y = x THEN [ann[x] EXCEPT !.state = "REQUESTED", !.time = expiry]
              ELSE IF y[2] = x[2] /\ ann[y].state = "REQUESTED"
              THEN Completed(ann, y)[y] ELSE ann[y]]
  /\ UNCHANGED <<announced, asking, now, answer>>

Fail(x) ==
  LET f == Completed(ann, x) IN Become(Keep(f, Live(f)))

ReceivedResponse(x) ==
  /\ Idle /\ x \in InState(ann, {"CANDIDATE", "REQUESTED"})
  /\ Fail(x)
  /\ UNCHANGED <<asking, now, answer>>

\* GetRequestable(p, time): every request whose time is up has failed, before
\* the answer is given.
GetRequestable(p, time) ==
  /\ Idle
  /\ asking' = {p} /\ now' = time
  /\ UNCHANGED <<ann, announced, answer>>

Overdue == {x \in InState(ann, {"REQUESTED"}) : ann[x].time <= now}

Expire(x) ==
  /\ asking # {} /\ x \in Overdue
  /\ Fail(x)
  /\ UNCHANGED <<asking, now, answer>>

Answer ==
  /\ asking # {} /\ Overdue = {}
  /\ \E p \in asking :
       answer' = SelectSeq(announced[p], LAMBDA t : Requestable(ann, <<p, t>>))
  /\ asking' = {} /\ now' = 0
  /\ UNCHANGED <<ann, announced>>

Return ==
  /\ answer # <<>> /\ answer' = <<>>
  /\ UNCHANGED <<ann, announced, asking, now>>

Next ==
  \/ \E x \in Announceable, time \in Time :
       ReceivedInv(x, time) \/ RequestedTx(x, time)
  \/ \E x \in Announceable : ReceivedResponse(x) \/ Expire(x)
  \/ \E p \in Peer : DisconnectedPeer(p) \/ \E time \in Time : GetRequestable(p, time)
  \/ \E t \in TxHash : ForgetTxHash(t)
  \/ Answer \/ Return

Spec == Init /\ [][Next]_vars

=============================================================================
