----------------------------- MODULE RetryQueue ----------------------------
(***************************************************************************)
(* The retry queue of src/agent/src/retry_queue.rs over one DiskQueue,     *)
(* together with the channel listener that feeds it (the tokio task at the *)
(* end of blockchain/retry_queue.rs and off_chain/retry_queue.rs).         *)
(*                                                                         *)
(* Three tasks share the queue: producers send items on an unbounded mpsc  *)
(* channel; the listener pops them and calls RetryQueue::push; the retry   *)
(* loop sleeps check_interval, then walks the queue with the disk queue    *)
(* iterator, invoking the retry handler on every envelope that is due.     *)
(* The handler is awaited, so pushes (and evictions) interleave with it.   *)
(* Success callbacks are spawned as tasks of their own.                    *)
(*                                                                         *)
(* Time.  The code compares last_attempt + backoff[attempts] with now.     *)
(* Only the elapsed time now - last_attempt matters, so every envelope     *)
(* carries its age in ticks, capped at the largest backoff (every larger   *)
(* age compares the same way); Tick advances all ages and the loop's       *)
(* remaining sleep.  This keeps the state space finite without a bound on  *)
(* time.                                                                  *)
(*                                                                         *)
(* Restart.  The process may stop at any point and start again: the sled   *)
(* tree and the id generator persist; the channel, the loop's iterator,    *)
(* the awaited handler and spawned callbacks are lost.  A restart reads    *)
(* retry_intervals afresh from the configuration, so the backoff list may  *)
(* differ from the previous run's.                                        *)
(***************************************************************************)
EXTENDS Naturals, Sequences, FiniteSets, FiniteSetsExt, Functions, TLC

CONSTANTS
  MaxSize,          \* RetryOptions.max_queue_size: a natural, or None
  None,             \* model value: Option::None
  BackoffConfigs,   \* the retry_intervals a start-up may read, in ticks
  CheckInterval,    \* RetryOptions.check_interval, in ticks
  Undecodable,      \* model value: stored bytes that are not a RetryItem
  LegacyChoices,    \* subset of BOOLEAN: may the tree start with such bytes
  MaxSends,         \* bound on the items producers send
  MaxRestarts,      \* bound on process restarts
  MaxSledErrors     \* bound on sled writes of the loop that fail

ASSUME CheckInterval \in Nat \ {0}
ASSUME \A b \in BackoffConfigs : b \in Seq(Nat)

\* DiskQueue::iter starts an iterator with current None: below every key.
NoCurrent == -1

VARIABLES
  chan,         \* the mpsc channel between producers and the listener
  sent,         \* number of items sent so far; item i is the i-th sent
  tree,         \* DiskQueue: the sled subtree, id -> envelope
  nextId,       \* DiskQueue: the id generator
  backoff,      \* RetryOptions.backoff of the running process
  loop,         \* the retry loop task: "idle", "sleep", "scan", "retry",
                \* or "dead" once it has panicked
  sleepLeft,    \* ticks left of sleep(check_interval)
  cursor,       \* DiskQueueIterator.current
  inflight,     \* the (key, envelope) whose retry handler is awaited
  callbacks,    \* items whose spawned success callback has not yet run
  spawned,      \* history: success callbacks spawned per item
  scanStart,    \* history: keys in the tree when the current scan began
  yielded,      \* history: keys the current scan has handed out, in order
  readError,    \* history: the iterator has returned an error
  restarts,
  sledErrors    \* sled writes of the retry loop that have failed so far

dq == <<tree, nextId>>
vars == <<chan, sent, tree, nextId, backoff, loop, sleepLeft, cursor,
          inflight, callbacks, spawned, scanStart, yielded, readError,
          restarts, sledErrors>>

DQ == INSTANCE DiskQueue

Items == 1..MaxSends

MaxAge == Max(UNION {Range(b) : b \in BackoffConfigs} \cup {0})

(* RetryItem { first_attempt, last_attempt, attempts, item }; first_attempt *)
(* is never read and last_attempt is kept as the age since it.             *)
Envelope == [item : Items, attempts : Nat, age : 0..MaxAge]

-----------------------------------------------------------------------------
(* Start-up: RetryQueue::new over the persisted tree, start_retry_loop.    *)
(* With an empty backoff list the loop is not spawned (retry_queue.rs:86). *)
LoopStart(b) ==
  /\ backoff' = b
  /\ loop' = IF b = <<>> THEN "idle" ELSE "sleep"
  /\ sleepLeft' = CheckInterval
  /\ cursor' = NoCurrent
  /\ inflight' = None
  /\ callbacks' = {}
  /\ scanStart' = {}
  /\ yielded' = <<>>

Init ==
  /\ chan = <<>>
  /\ sent = 0
  /\ \E legacy \in LegacyChoices :
       /\ tree = IF legacy THEN (0 :> Undecodable) ELSE <<>>
       /\ nextId = IF legacy THEN 1 ELSE 0
  /\ \E b \in BackoffConfigs :
       /\ backoff = b
       /\ loop = IF b = <<>> THEN "idle" ELSE "sleep"
  /\ sleepLeft = CheckInterval
  /\ cursor = NoCurrent
  /\ inflight = None
  /\ callbacks = {}
  /\ spawned = [i \in Items |-> 0]
  /\ scanStart = {}
  /\ yielded = <<>>
  /\ readError = FALSE
  /\ restarts = 0
  /\ sledErrors = 0

(* A producer sends an item on the channel (tx.send in handle_event and in *)
(* the chain queue's success callback).                                  *)
Send ==
  /\ sent < MaxSends
  /\ sent' = sent + 1
  /\ chan' = Append(chan, sent + 1)
  /\ UNCHANGED <<tree, nextId, backoff, loop, sleepLeft, cursor, inflight,
                 callbacks, spawned, scanStart, yielded, readError, restarts, sledErrors>>

(* RetryQueue::push wraps an item in a RetryItem with attempts 0 and      *)
(* first_attempt = last_attempt = now: no time has passed since its last   *)
(* attempt.                                                                *)
NewEnvelope(i) == [item |-> i, attempts |-> 0, age |-> 0]

(* The listener receives an item and calls RetryQueue::push: a fresh       *)
(* envelope pushed to the disk queue (which may evict the smallest key).   *)
ListenerPush ==
  /\ chan # <<>>
  /\ DQ!Push(NewEnvelope(Head(chan)))
  /\ chan' = Tail(chan)
  /\ UNCHANGED <<sent, backoff, loop, sleepLeft, cursor, inflight,
                 callbacks, spawned, scanStart, yielded, readError, restarts, sledErrors>>

(* sleep(check_interval) has elapsed: a new queue.iter() begins.           *)
Wake ==
  /\ loop = "sleep"
  /\ sleepLeft = 0
  /\ loop' = "scan"
  /\ cursor' = NoCurrent
  /\ scanStart' = DOMAIN tree
  /\ yielded' = <<>>
  /\ UNCHANGED <<chan, sent, tree, nextId, backoff, sleepLeft, inflight,
                 callbacks, spawned, readError, restarts, sledErrors>>

(* The iterator finds no key beyond current: the for loop ends and the     *)
(* loop sleeps again.                                                     *)
ScanEnd ==
  /\ loop = "scan"
  /\ ~DQ!HasNext(cursor)
  /\ loop' = "sleep"
  /\ sleepLeft' = CheckInterval
  /\ UNCHANGED <<chan, sent, tree, nextId, backoff, cursor, inflight,
                 callbacks, spawned, scanStart, yielded, readError, restarts, sledErrors>>

(* The next key holds bytes serde_json rejects: next() returns the error   *)
(* without advancing current (disk_queue.rs:142-145), the loop logs it and *)
(* continues, and the next call finds the same key again.                 *)
ReadError ==
  /\ loop = "scan"
  /\ DQ!HasNext(cursor)
  /\ tree[DQ!NextKey(cursor)] = Undecodable
  /\ readError' = TRUE
  /\ UNCHANGED <<chan, sent, tree, nextId, backoff, loop, sleepLeft, cursor,
                 inflight, callbacks, spawned, scanStart, yielded, restarts, sledErrors>>

(* The iterator yields (key, envelope) and advances current to key.       *)
Yield(k) ==
  /\ cursor' = k
  /\ yielded' = Append(yielded, k)

(* Mutant: the exhausted branch continues without queue.remove.            *)
DropExhaustedKeeps ==
  /\ loop = "scan"
  /\ DQ!HasNext(cursor)
  /\ LET k == DQ!NextKey(cursor) IN
       /\ tree[k] # Undecodable
       /\ tree[k].attempts >= Len(backoff)
       /\ Yield(k)
  /\ UNCHANGED <<chan, sent, tree, nextId, backoff, loop, sleepLeft, inflight,
                 callbacks, spawned, scanStart, readError, restarts, sledErrors>>

(* Mutant: the exhaustion test is off by one (backoff.get(attempts + 1)).  *)
DropExhaustedEarly ==
  /\ loop = "scan"
  /\ DQ!HasNext(cursor)
  /\ LET k == DQ!NextKey(cursor) IN
       /\ tree[k] # Undecodable
       /\ tree[k].attempts + 1 >= Len(backoff)
       /\ Yield(k)
       /\ DQ!Remove(k)
  /\ UNCHANGED <<chan, sent, backoff, loop, sleepLeft, inflight, callbacks,
                 spawned, scanStart, readError, restarts, sledErrors>>

(* backoff.get(attempts) is None: attempts exhausted, remove and continue. *)
DropExhausted ==
  /\ loop = "scan"
  /\ DQ!HasNext(cursor)
  /\ LET k == DQ!NextKey(cursor) IN
       /\ tree[k] # Undecodable
       /\ tree[k].attempts >= Len(backoff)
       /\ Yield(k)
       /\ DQ!Remove(k)
  /\ UNCHANGED <<chan, sent, backoff, loop, sleepLeft, inflight, callbacks,
                 spawned, scanStart, readError, restarts, sledErrors>>

(* The exhausted branch's queue.remove(key) fails: unwrap() panics and    *)
(* the spawned loop task ends; nothing restarts it before the process.    *)
DropExhaustedPanics ==
  /\ loop = "scan"
  /\ sledErrors < MaxSledErrors
  /\ DQ!HasNext(cursor)
  /\ LET k == DQ!NextKey(cursor) IN
       /\ tree[k] # Undecodable
       /\ tree[k].attempts >= Len(backoff)
  /\ sledErrors' = sledErrors + 1
  /\ loop' = "dead"
  /\ UNCHANGED <<chan, sent, tree, nextId, backoff, sleepLeft, cursor,
                 inflight, callbacks, spawned, scanStart, yielded, readError,
                 restarts>>

(* last_attempt + interval > now: not due yet, continue.                   *)
SkipNotDue ==
  /\ loop = "scan"
  /\ DQ!HasNext(cursor)
  /\ LET k == DQ!NextKey(cursor) IN
       /\ tree[k] # Undecodable
       /\ tree[k].attempts < Len(backoff)
       /\ tree[k].age < backoff[tree[k].attempts + 1]
       /\ Yield(k)
  /\ UNCHANGED <<chan, sent, tree, nextId, backoff, loop, sleepLeft, inflight,
                 callbacks, spawned, scanStart, readError, restarts, sledErrors>>

(* Due: attempt_retry_and_update calls the retry handler on a clone of the *)
(* envelope and awaits it.                                                *)
StartRetry ==
  /\ loop = "scan"
  /\ DQ!HasNext(cursor)
  /\ LET k == DQ!NextKey(cursor) IN
       /\ tree[k] # Undecodable
       /\ tree[k].attempts < Len(backoff)
       /\ tree[k].age >= backoff[tree[k].attempts + 1]
       /\ Yield(k)
       /\ inflight' = [key |-> k, env |-> tree[k]]
  /\ loop' = "retry"
  /\ UNCHANGED <<chan, sent, tree, nextId, backoff, sleepLeft, callbacks,
                 spawned, scanStart, readError, restarts, sledErrors>>

(* Mutant: the success path forgets queue.remove(key).                     *)
RetrySucceededKeepsKey ==
  /\ loop = "retry"
  /\ callbacks' = callbacks \cup {inflight.env.item}
  /\ spawned' = [spawned EXCEPT ![inflight.env.item] = @ + 1]
  /\ loop' = "scan"
  /\ inflight' = None
  /\ UNCHANGED <<chan, sent, tree, nextId, backoff, sleepLeft, cursor,
                 scanStart, yielded, readError, restarts, sledErrors>>

(* The handler returned Ok: remove the key, then spawn success_callback.   *)
RetrySucceeded ==
  /\ loop = "retry"
  /\ DQ!Remove(inflight.key)
  /\ callbacks' = callbacks \cup {inflight.env.item}
  /\ spawned' = [spawned EXCEPT ![inflight.env.item] = @ + 1]
  /\ loop' = "scan"
  /\ inflight' = None
  /\ UNCHANGED <<chan, sent, backoff, sleepLeft, cursor, scanStart, yielded,
                 readError, restarts, sledErrors>>

(* The handler returned Err: bump last_attempt and attempts on the copy    *)
(* read before the await; write it back with queue.update while attempts   *)
(* remain, else remove the key.                                           *)
RetryFailed ==
  /\ loop = "retry"
  /\ LET k == inflight.key
         e == [inflight.env EXCEPT !.attempts = @ + 1, !.age = 0]
     IN IF e.attempts < Len(backoff) THEN DQ!Update(k, e) ELSE DQ!Remove(k)
  /\ loop' = "scan"
  /\ inflight' = None
  /\ UNCHANGED <<chan, sent, backoff, sleepLeft, cursor, callbacks, spawned,
                 scanStart, yielded, readError, restarts, sledErrors>>

(* The handler returned and the queue write that follows fails: remove on *)
(* Ok, update or remove on Err.  `?` returns the sled error before the     *)
(* callback is spawned; the loop logs it and continues.  The tree keeps    *)
(* the envelope as it was before the attempt.                             *)
WriteFails ==
  /\ loop = "retry"
  /\ sledErrors < MaxSledErrors
  /\ sledErrors' = sledErrors + 1
  /\ loop' = "scan"
  /\ inflight' = None
  /\ UNCHANGED <<chan, sent, tree, nextId, backoff, sleepLeft, cursor,
                 callbacks, spawned, scanStart, yielded, readError, restarts>>

(* A spawned success callback runs to completion.                          *)
RunCallback ==
  /\ \E i \in callbacks : callbacks' = callbacks \ {i}
  /\ UNCHANGED <<chan, sent, tree, nextId, backoff, loop, sleepLeft, cursor,
                 inflight, spawned, scanStart, yielded, readError, restarts, sledErrors>>

(* Time passes by one tick.                                               *)
Tick ==
  /\ tree' = [k \in DOMAIN tree |->
                IF tree[k] = Undecodable THEN Undecodable
                ELSE [tree[k] EXCEPT !.age = Min({@ + 1, MaxAge})]]
  /\ sleepLeft' = IF loop = "sleep" THEN Max({sleepLeft - 1, 0}) ELSE sleepLeft
  /\ UNCHANGED <<chan, sent, nextId, backoff, loop, cursor, inflight,
                 callbacks, spawned, scanStart, yielded, readError, restarts, sledErrors>>

(* The process stops and starts again.                                    *)
Restart ==
  /\ restarts < MaxRestarts
  /\ restarts' = restarts + 1
  /\ chan' = <<>>
  /\ \E b \in BackoffConfigs : LoopStart(b)
  /\ UNCHANGED <<sent, tree, nextId, spawned, readError, sledErrors>>

Next ==
  \/ Send
  \/ ListenerPush
  \/ Wake
  \/ ScanEnd
  \/ ReadError
  \/ DropExhausted
  \/ SkipNotDue
  \/ StartRetry
  \/ RetrySucceeded
  \/ RetryFailed
  \/ WriteFails
  \/ DropExhaustedPanics
  \/ RunCallback
  \/ Tick
  \/ Restart

(* The loop task and the listener are scheduled by tokio whenever they are *)
(* runnable, an awaited handler returns (its backoff is bounded by         *)
(* max_elapsed_time), and time keeps passing.  Producers and restarts are  *)
(* the environment and get no fairness.                                  *)
Fairness ==
  /\ WF_vars(ListenerPush)
  /\ WF_vars(Wake)
  /\ WF_vars(ScanEnd \/ DropExhausted \/ SkipNotDue \/ StartRetry)
  /\ WF_vars(RetrySucceeded \/ RetryFailed)
  /\ WF_vars(RunCallback)
  /\ WF_vars(Tick)

Spec == Init /\ [][Next]_vars /\ Fairness

-----------------------------------------------------------------------------
TypeOK ==
  /\ chan \in Seq(Items)
  /\ sent \in 0..MaxSends
  /\ \A k \in DOMAIN tree : k \in 0..(nextId - 1)
  /\ \A k \in DOMAIN tree : tree[k] \in Envelope \cup {Undecodable}
  /\ backoff \in BackoffConfigs
  /\ loop \in {"idle", "sleep", "scan", "retry", "dead"}
  /\ sleepLeft \in 0..CheckInterval
  /\ inflight \in {None} \cup [key : Nat, env : Envelope]
  /\ (loop = "retry") <=> (inflight # None)
  /\ callbacks \subseteq Items
  /\ spawned \in [Items -> Nat]
  /\ readError \in BOOLEAN
  /\ sledErrors \in 0..MaxSledErrors

(* The iterator tolerates removals, updates and pushes made while the loop *)
(* awaits a handler (disk_queue.rs:116-149 re-reads the tree on every      *)
(* next()): within one scan it hands out keys in strictly ascending order, *)
(* so never the same key twice, and when the scan ends it has visited      *)
(* every envelope that was in the queue when the scan began and is still   *)
(* there.                                                                 *)
ScanVisitsEachEnvelopeOnce ==
  /\ \A i, j \in DOMAIN yielded : i < j => yielded[i] < yielded[j]
  /\ loop = "sleep" => scanStart \cap DOMAIN tree \subseteq Range(yielded)

(* A success callback is spawned at most once per item: after the handler  *)
(* returns Ok the key is removed before the callback is spawned, so the    *)
(* item is never retried again (retry_queue.rs:142-145, 163-167).          *)
CallbackAtMostOnce ==
  \A i \in Items : spawned[i] <= 1

(* Every envelope that is pushed eventually leaves the queue: it succeeds, *)
(* exhausts its attempts or is evicted (retry_queue.rs:103-150).           *)
EveryEnvelopeResolved ==
  \A k \in 0..MaxSends : (k \in DOMAIN tree) ~> (k \notin DOMAIN tree)

(* spec.md 3: the disk queue never holds more than max_queue_size entries. *)
BoundedQueue ==
  MaxSize # None => Cardinality(DOMAIN tree) <= MaxSize

(* Every scan of the queue eventually ends and the loop sleeps again       *)
(* (spec.md 4.1: an entry that fails to deserialize yields the error and   *)
(* the iterator continues on the next advance).                           *)
ScanTerminates ==
  (loop = "scan") ~> (loop = "sleep")

(* Refinement.  The items in the tree (undecodable bytes are no item), the *)
(* items on the channel, the items whose success callback was spawned, the *)
(* item of the awaited handler and the items whose envelope counts a       *)
(* failed attempt are the abstract queue's queued, transit, delivered,     *)
(* attempting and tried sets.                                             *)
QueuedItems ==
  {tree[k].item : k \in {k2 \in DOMAIN tree : tree[k2] # Undecodable}}

TriedItems ==
  {tree[k].item : k \in {k2 \in DOMAIN tree : tree[k2] # Undecodable
                                              /\ tree[k2].attempts > 0}}

Abstract == INSTANCE AbstractRetryQueue
  WITH submitted <- sent,
       transit <- Range(chan),
       queued <- QueuedItems,
       delivered <- {i \in Items : spawned[i] > 0},
       attempting <- IF inflight = None THEN {} ELSE {inflight.env.item},
       tried <- TriedItems

(* RetryQueue implements the abstract retry queue: one handler is awaited  *)
(* at a time and only its item is delivered or given up on its outcome; a  *)
(* scan drops an item without awaiting a handler only when an earlier      *)
(* attempt of it failed; a delivered or given-up item never comes back     *)
(* (retry_queue.rs:103-183 with disk_queue.rs:38-80).                     *)
ImplementsAbstractQueue == Abstract!Spec

=============================================================================
