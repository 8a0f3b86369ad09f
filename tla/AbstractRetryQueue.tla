------------------------- MODULE AbstractRetryQueue -------------------------
(***************************************************************************)
(* What a retry queue promises its producers (spec.md 4): an item handed   *)
(* to it is in transit until the listener admits it; an admitted item      *)
(* stays queued until it is delivered (its success callback is spawned),   *)
(* given up or evicted as the oldest entry of a full queue.  Items are     *)
(* attempted one at a time.  Only the item under attempt is delivered,     *)
(* and an attempt that fails either marks the item as tried or gives it   *)
(* up.  An item that is not under attempt is given up only once it has     *)
(* been tried: its attempts are exhausted.  A delivered item is never      *)
(* queued again.  A restart loses the items in transit and the attempt.    *)
(*                                                                         *)
(* Ordering, timing, backoff and the scan are the implementation's         *)
(* business: RetryQueue is checked to implement this module through a      *)
(* refinement mapping (MCRetryQueue).                                      *)
(***************************************************************************)
EXTENDS Naturals, FiniteSets, FiniteSetsExt

CONSTANTS
  Items,     \* the items producers may hand over, numbered in send order
  MaxSize,   \* the queue's capacity, or None
  None

VARIABLES
  submitted,  \* how many items producers have handed over
  transit,    \* items handed over and not yet admitted
  queued,     \* items admitted and not yet resolved
  delivered,  \* items whose delivery succeeded
  attempting, \* the item whose delivery is being attempted: {} or {i}
  tried       \* queued items with at least one failed attempt

vars == <<submitted, transit, queued, delivered, attempting, tried>>

Init ==
  /\ submitted = 0
  /\ transit = {}
  /\ queued = {}
  /\ delivered = {}
  /\ attempting = {}
  /\ tried = {}

\* A producer hands over the next item.
Submit ==
  /\ submitted + 1 \in Items
  /\ submitted' = submitted + 1
  /\ transit' = transit \cup {submitted + 1}
  /\ UNCHANGED <<queued, delivered, attempting, tried>>

\* The oldest queued item leaves to make room when the queue is full.
AfterEviction ==
  IF MaxSize /= None /\ queued /= {} /\ Cardinality(queued) >= MaxSize
  THEN {queued, queued \ {Min(queued)}}
  ELSE {queued}

\* An item in transit is admitted, possibly evicting the oldest.
Admit(i) ==
  /\ i \in transit
  /\ transit' = transit \ {i}
  /\ \E q \in AfterEviction :
       /\ queued' = q \cup {i}
       /\ tried' = tried \cap q
  /\ UNCHANGED <<submitted, delivered, attempting>>

\* An attempt to deliver a queued item begins; none is under way.
Start(i) ==
  /\ attempting = {}
  /\ i \in queued
  /\ attempting' = {i}
  /\ UNCHANGED <<submitted, transit, queued, delivered, tried>>

\* The attempt succeeds: the item leaves the queue, delivered once.
Deliver(i) ==
  /\ attempting = {i}
  /\ i \notin delivered
  /\ queued' = queued \ {i}
  /\ tried' = tried \ {i}
  /\ delivered' = delivered \cup {i}
  /\ attempting' = {}
  /\ UNCHANGED <<submitted, transit>>

\* The attempt fails and the item stays queued, now tried.
Fail(i) ==
  /\ attempting = {i}
  /\ attempting' = {}
  /\ tried' = tried \cup ({i} \cap queued)
  /\ UNCHANGED <<submitted, transit, queued, delivered>>

\* The attempt fails and it was the item's last: the item is given up.
GiveUp(i) ==
  /\ attempting = {i}
  /\ attempting' = {}
  /\ queued' = queued \ {i}
  /\ tried' = tried \ {i}
  /\ UNCHANGED <<submitted, transit, delivered>>

\* A tried item, not under attempt, is dropped: its attempts are exhausted.
Drop(i) ==
  /\ i \in tried
  /\ i \notin attempting
  /\ queued' = queued \ {i}
  /\ tried' = tried \ {i}
  /\ UNCHANGED <<submitted, transit, delivered, attempting>>

\* The attempt ends without an outcome being recorded.
Abort ==
  /\ attempting' = {}
  /\ UNCHANGED <<submitted, transit, queued, delivered, tried>>

\* A restart loses what is in transit and the attempt under way.
Lose ==
  /\ transit' = {}
  /\ attempting' = {}
  /\ UNCHANGED <<submitted, queued, delivered, tried>>

Next ==
  \/ Submit
  \/ \E i \in Items :
       Admit(i) \/ Start(i) \/ Deliver(i) \/ Fail(i) \/ GiveUp(i) \/ Drop(i)
  \/ Abort
  \/ Lose

Spec == Init /\ [][Next]_vars

=============================================================================
