------------------------------ MODULE Pipeline ------------------------------
(***************************************************************************)
(* The submission pipeline of the agent, for one collected channel:        *)
(* the collector callback, the event loop of main.rs that spawns one       *)
(* handle_event task per event, the watermark store (state/latest_record), *)
(* the chain and off-chain submissions, and the two retry queues with      *)
(* their listeners, handlers and the chain queue's success callback, which *)
(* hands an event on to the off-chain queue.                              *)
(*                                                                         *)
(* Abstractions.  An event is its event_record_id; time_created is given   *)
(* by the constant TimeCreated.  A submission is one atomic step whose     *)
(* outcome is Ok or Err; an Err may come after the write reached the       *)
(* store (broadcast_tx_sync succeeded but the tx query or the verification *)
(* failed, blockchain/mod.rs:100-153; store_event succeeded but the read    *)
(* back failed, off_chain/mod.rs:77-110), so Err may or may not add the    *)
(* event to the store.  A retry queue is its channel, its tree as a        *)
(* function from event to attempts, and its handler; the scan order, the    *)
(* timing and eviction are those of RetryQueue and are checked there, so   *)
(* here any stored envelope may be retried at any time.  Two envelopes of  *)
(* the same event in one tree are merged.                                 *)
(*                                                                         *)
(* Crash.  The process may stop at any point and start again: the event   *)
(* channel, the tasks, both retry channels and spawned callbacks are lost; *)
(* the watermark, both trees and what the chain and off-chain stores hold  *)
(* persist.  With retrieve_past_events the subscription starts again at    *)
(* the oldest record, so every event already written is delivered again.   *)
(***************************************************************************)
EXTENDS Naturals, Sequences, FiniteSets, SequencesExt, Functions

CONSTANTS
  NumEvents,            \* events the OS writes to the channel, ids 1..NumEvents
  TimeCreated,          \* event_record_id -> system.time_created, in ticks
  MaxAttempts,          \* Len(retry_intervals) of both retry queues
  DbMayFail,            \* may a sled read or write fail (watermark, push)
  RetrievePastEvents,   \* config.retrieve_past_events
  MaxCrashes,           \* bound on crashes
  None                  \* model value: no watermark stored

Rids == 1..NumEvents

ASSUME TimeCreated \in [Rids -> Nat]
ASSUME MaxAttempts \in Nat \ {0}

VARIABLES
  emitted,      \* events the OS has written so far: 1..emitted
  evChan,       \* the collector's mpsc channel to the event loop
  task,         \* per event: the step its handle_event task is at
  chainOk,      \* per event: its task's chain submission returned Ok
  watermark,    \* the channel's LatestRecord: None or [rid, ts]
  onChain,      \* events the chain holds
  offChain,     \* events the off-chain store holds
  bChan,        \* channel to the blockchain retry queue's listener
  bTree,        \* retry_blockchain tree: event -> attempts
  bCallbacks,   \* events whose spawned chain success callback is pending
  oChan,        \* channel to the off-chain retry queue's listener
  oTree,        \* retry_off_chain tree: event -> attempts
  accepted,     \* history: events a task found new
  abandoned,    \* history: events a retry queue dropped after its last attempt
  crashes

vars == <<emitted, evChan, task, chainOk, watermark, onChain, offChain,
          bChan, bTree, bCallbacks, oChan, oTree, accepted, abandoned,
          crashes>>

Steps == {"none", "read", "chain", "store", "offchain"}

Init ==
  /\ emitted = 0
  /\ evChan = <<>>
  /\ task = [e \in Rids |-> "none"]
  /\ chainOk = [e \in Rids |-> FALSE]
  /\ watermark = None
  /\ onChain = {}
  /\ offChain = {}
  /\ bChan = <<>>
  /\ bTree = <<>>
  /\ bCallbacks = {}
  /\ oChan = <<>>
  /\ oTree = <<>>
  /\ accepted = {}
  /\ abandoned = {}
  /\ crashes = 0

-----------------------------------------------------------------------------
(* The OS delivers the next record to the subscription callback, which     *)
(* sends it on the global event channel.                                  *)
Collect ==
  /\ emitted < NumEvents
  /\ emitted' = emitted + 1
  /\ evChan' = Append(evChan, emitted + 1)
  /\ UNCHANGED <<task, chainOk, watermark, onChain, offChain, bChan, bTree,
                 bCallbacks, oChan, oTree, accepted, abandoned, crashes>>

(* The event loop receives an event and spawns handle_event for it.        *)
Dispatch ==
  /\ evChan # <<>>
  /\ task' = [task EXCEPT ![Head(evChan)] = "read"]
  /\ evChan' = Tail(evChan)
  /\ UNCHANGED <<emitted, chainOk, watermark, onChain, offChain, bChan,
                 bTree, bCallbacks, oChan, oTree, accepted, abandoned, crashes>>

(* is_new: a larger record id or a later time_created than the stored one. *)
IsNew(e) ==
  \/ watermark = None
  \/ e > watermark.rid
  \/ TimeCreated[e] > watermark.ts

(* get_latest_record, then the is_new check: an old event is dropped.      *)
ReadWatermark(e) ==
  /\ task[e] = "read"
  /\ IF IsNew(e)
     THEN task' = [task EXCEPT ![e] = "chain"] /\ accepted' = accepted \cup {e}
     ELSE task' = [task EXCEPT ![e] = "none"] /\ UNCHANGED accepted
  /\ UNCHANGED <<emitted, evChan, chainOk, watermark, onChain, offChain,
                 bChan, bTree, bCallbacks, oChan, oTree, abandoned, crashes>>

(* get_latest_record returns Err: handle_event returns.                   *)
ReadFails(e) ==
  /\ DbMayFail
  /\ task[e] = "read"
  /\ task' = [task EXCEPT ![e] = "none"]
  /\ UNCHANGED <<emitted, evChan, chainOk, watermark, onChain, offChain,
                 bChan, bTree, bCallbacks, oChan, oTree, accepted, abandoned,
                 crashes>>

(* What a store holds after a submission of e returned Err: the write may  *)
(* or may not have landed before the error.                               *)
AfterErr(store, e) == {store, store \cup {e}}

(* blockchain_client.submit: Ok, or Err and the event is sent to the       *)
(* blockchain retry queue's channel.                                      *)
ChainSubmit(e) ==
  /\ task[e] = "chain"
  /\ \/ /\ onChain' = onChain \cup {e}
        /\ chainOk' = [chainOk EXCEPT ![e] = TRUE]
        /\ UNCHANGED bChan
     \/ /\ onChain' \in AfterErr(onChain, e)
        /\ chainOk' = [chainOk EXCEPT ![e] = FALSE]
        /\ bChan' = Append(bChan, e)
  /\ task' = [task EXCEPT ![e] = "store"]
  /\ UNCHANGED <<emitted, evChan, watermark, offChain, bTree, bCallbacks,
                 oChan, oTree, accepted, abandoned, crashes>>

(* Mutant: the write waits until it would not move the watermark back.    *)
StoreWatermarkWhenNewer(e) ==
  /\ task[e] = "store"
  /\ IF watermark = None THEN TRUE ELSE watermark.rid < e
  /\ watermark' = [rid |-> e, ts |-> TimeCreated[e]]
  /\ task' = [task EXCEPT ![e] = IF chainOk[e] THEN "offchain" ELSE "none"]
  /\ UNCHANGED <<emitted, evChan, chainOk, onChain, offChain, bChan, bTree,
                 bCallbacks, oChan, oTree, accepted, abandoned, crashes>>

(* Mutant: the task goes on to the off-chain submission without metadata. *)
StoreWatermarkAlwaysOffChain(e) ==
  /\ task[e] = "store"
  /\ watermark' = [rid |-> e, ts |-> TimeCreated[e]]
  /\ task' = [task EXCEPT ![e] = "offchain"]
  /\ UNCHANGED <<emitted, evChan, chainOk, onChain, offChain, bChan, bTree,
                 bCallbacks, oChan, oTree, accepted, abandoned, crashes>>

(* store_latest_record overwrites the watermark with this event's fields,  *)
(* whatever it holds now; without chain metadata the task ends.           *)
StoreWatermark(e) ==
  /\ task[e] = "store"
  /\ watermark' = [rid |-> e, ts |-> TimeCreated[e]]
  /\ task' = [task EXCEPT ![e] = IF chainOk[e] THEN "offchain" ELSE "none"]
  /\ UNCHANGED <<emitted, evChan, chainOk, onChain, offChain, bChan, bTree,
                 bCallbacks, oChan, oTree, accepted, abandoned, crashes>>

(* store_latest_record returns Err: handle_event returns early, before the *)
(* off-chain submission.                                                  *)
StoreFails(e) ==
  /\ DbMayFail
  /\ task[e] = "store"
  /\ task' = [task EXCEPT ![e] = "none"]
  /\ UNCHANGED <<emitted, evChan, chainOk, watermark, onChain, offChain,
                 bChan, bTree, bCallbacks, oChan, oTree, accepted, abandoned,
                 crashes>>

(* offchain_client.submit: Ok, or Err and a QueuedOffChainEvent is sent to *)
(* the off-chain retry queue's channel.                                   *)
OffChainSubmit(e) ==
  /\ task[e] = "offchain"
  /\ \/ offChain' = offChain \cup {e} /\ UNCHANGED oChan
     \/ offChain' \in AfterErr(offChain, e) /\ oChan' = Append(oChan, e)
  /\ task' = [task EXCEPT ![e] = "none"]
  /\ UNCHANGED <<emitted, evChan, chainOk, watermark, onChain, bChan, bTree,
                 bCallbacks, oTree, accepted, abandoned, crashes>>

-----------------------------------------------------------------------------
(* Blockchain retry queue.  The listener receives an event and pushes a    *)
(* fresh envelope.                                                        *)
BListen ==
  /\ bChan # <<>>
  /\ bTree' = bTree @@ (Head(bChan) :> 0)
  /\ bChan' = Tail(bChan)
  /\ UNCHANGED <<emitted, evChan, task, chainOk, watermark, onChain, offChain,
                 bCallbacks, oChan, oTree, accepted, abandoned, crashes>>

(* A listener's queue.push fails: the error is logged and the event that  *)
(* was received from the channel is gone (both listeners).                *)
ListenFails(chan) ==
  /\ DbMayFail
  /\ chan # <<>>
  /\ chan' = Tail(chan)

BListenFails ==
  /\ ListenFails(bChan)
  /\ UNCHANGED <<emitted, evChan, task, chainOk, watermark, onChain, offChain,
                 bTree, bCallbacks, oChan, oTree, accepted, abandoned, crashes>>

OListenFails ==
  /\ ListenFails(oChan)
  /\ UNCHANGED <<emitted, evChan, task, chainOk, watermark, onChain, offChain,
                 bChan, bTree, bCallbacks, oTree, accepted, abandoned, crashes>>

(* Mutant: the envelope is kept while attempts <= Len(backoff).          *)
AfterFailureOffByOne(tree, e) ==
  IF tree[e] + 1 <= MaxAttempts
  THEN [tree EXCEPT ![e] = @ + 1]
  ELSE Restrict(tree, DOMAIN tree \ {e})

(* An envelope's handler returned Err: attempts + 1, written back while    *)
(* attempts remain, else removed.                                         *)
AfterFailure(tree, e) ==
  IF tree[e] + 1 < MaxAttempts
  THEN [tree EXCEPT ![e] = @ + 1]
  ELSE Restrict(tree, DOMAIN tree \ {e})

Exhausted(tree, e) == tree[e] + 1 >= MaxAttempts

(* The chain retry handler resubmits the event.  Ok: the key is removed    *)
(* and the success callback spawned.  Err: the envelope is updated or, at  *)
(* its last attempt, dropped.                                             *)
BRetry(e) ==
  /\ e \in DOMAIN bTree
  /\ \/ /\ onChain' = onChain \cup {e}
        /\ bTree' = Restrict(bTree, DOMAIN bTree \ {e})
        /\ bCallbacks' = bCallbacks \cup {e}
        /\ UNCHANGED abandoned
     \/ /\ onChain' \in AfterErr(onChain, e)
        /\ bTree' = AfterFailure(bTree, e)
        /\ abandoned' = IF Exhausted(bTree, e) THEN abandoned \cup {e}
                                               ELSE abandoned
        /\ UNCHANGED bCallbacks
  /\ UNCHANGED <<emitted, evChan, task, chainOk, watermark, offChain, bChan,
                 oChan, oTree, accepted, crashes>>

(* Mutant: an off-chain failure in the callback is only logged.           *)
BCallbackDropsFailure(e) ==
  /\ e \in bCallbacks
  /\ offChain' \in {offChain \cup {e}} \cup AfterErr(offChain, e)
  /\ bCallbacks' = bCallbacks \ {e}
  /\ UNCHANGED <<emitted, evChan, task, chainOk, watermark, onChain, bChan,
                 bTree, oChan, oTree, accepted, abandoned, crashes>>

(* The chain queue's success callback submits the event off-chain; on Err  *)
(* it sends a QueuedOffChainEvent to the off-chain retry queue.           *)
BCallback(e) ==
  /\ e \in bCallbacks
  /\ \/ offChain' = offChain \cup {e} /\ UNCHANGED oChan
     \/ offChain' \in AfterErr(offChain, e) /\ oChan' = Append(oChan, e)
  /\ bCallbacks' = bCallbacks \ {e}
  /\ UNCHANGED <<emitted, evChan, task, chainOk, watermark, onChain, bChan,
                 bTree, oTree, accepted, abandoned, crashes>>

(* Off-chain retry queue: the listener pushes a fresh envelope.            *)
OListen ==
  /\ oChan # <<>>
  /\ oTree' = oTree @@ (Head(oChan) :> 0)
  /\ oChan' = Tail(oChan)
  /\ UNCHANGED <<emitted, evChan, task, chainOk, watermark, onChain, offChain,
                 bChan, bTree, bCallbacks, accepted, abandoned, crashes>>

(* The off-chain retry handler resubmits; its success callback only logs.  *)
ORetry(e) ==
  /\ e \in DOMAIN oTree
  /\ \/ /\ offChain' = offChain \cup {e}
        /\ oTree' = Restrict(oTree, DOMAIN oTree \ {e})
        /\ UNCHANGED abandoned
     \/ /\ offChain' \in AfterErr(offChain, e)
        /\ oTree' = AfterFailure(oTree, e)
        /\ abandoned' = IF Exhausted(oTree, e) THEN abandoned \cup {e}
                                               ELSE abandoned
  /\ UNCHANGED <<emitted, evChan, task, chainOk, watermark, onChain, bChan,
                 bTree, bCallbacks, oChan, accepted, crashes>>

(* The process stops and starts again.  The subscription redelivers every  *)
(* record written so far when retrieve_past_events is set.                *)
Crash ==
  /\ crashes < MaxCrashes
  /\ crashes' = crashes + 1
  /\ evChan' = IF RetrievePastEvents THEN [i \in 1..emitted |-> i] ELSE <<>>
  /\ task' = [e \in Rids |-> "none"]
  /\ chainOk' = [e \in Rids |-> FALSE]
  /\ bChan' = <<>>
  /\ bCallbacks' = {}
  /\ oChan' = <<>>
  /\ UNCHANGED <<emitted, watermark, onChain, offChain, bTree, oTree,
                 accepted, abandoned>>

Next ==
  \/ Collect
  \/ Dispatch
  \/ \E e \in Rids :
       \/ ReadWatermark(e)
       \/ ReadFails(e)
       \/ ChainSubmit(e)
       \/ StoreWatermark(e)
       \/ StoreFails(e)
       \/ OffChainSubmit(e)
       \/ BRetry(e)
       \/ BCallback(e)
       \/ ORetry(e)
  \/ BListen
  \/ OListen
  \/ BListenFails
  \/ OListenFails
  \/ Crash

(* tokio runs every spawned task, listener and retry loop that can make    *)
(* progress; every submission returns (health probes and backoffs are      *)
(* bounded by timeouts).  The OS and crashes are the environment.          *)
Fairness ==
  /\ WF_vars(Dispatch)
  /\ \A e \in Rids :
       /\ WF_vars(ReadWatermark(e) \/ ReadFails(e))
       /\ WF_vars(ChainSubmit(e))
       /\ WF_vars(StoreWatermark(e) \/ StoreFails(e))
       /\ WF_vars(OffChainSubmit(e))
       /\ WF_vars(BRetry(e))
       /\ WF_vars(BCallback(e))
       /\ WF_vars(ORetry(e))
  /\ WF_vars(BListen)
  /\ WF_vars(OListen)

Spec == Init /\ [][Next]_vars /\ Fairness

-----------------------------------------------------------------------------
TypeOK ==
  /\ emitted \in 0..NumEvents
  /\ evChan \in Seq(Rids)
  /\ task \in [Rids -> Steps]
  /\ chainOk \in [Rids -> BOOLEAN]
  /\ watermark \in {None} \cup [rid : Rids, ts : Nat]
  /\ onChain \subseteq Rids /\ offChain \subseteq Rids
  /\ bChan \in Seq(Rids) /\ oChan \in Seq(Rids)
  /\ \A e \in DOMAIN bTree : e \in Rids /\ bTree[e] \in 0..(MaxAttempts - 1)
  /\ \A e \in DOMAIN oTree : e \in Rids /\ oTree[e] \in 0..(MaxAttempts - 1)
  /\ bCallbacks \subseteq Rids
  /\ accepted \subseteq Rids /\ abandoned \subseteq Rids

Delivered(e) == e \in onChain /\ e \in offChain

Queued(e) == e \in DOMAIN bTree \/ e \in DOMAIN oTree

InFlight(e) ==
  \/ task[e] # "none"
  \/ e \in Range(evChan) \/ e \in Range(bChan) \/ e \in Range(oChan)
  \/ e \in bCallbacks

(* spec.md 3: every event the agent accepted is on chain and off-chain, or *)
(* waits in a retry queue (having hopped from the chain queue to the       *)
(* off-chain one through the chain queue's success callback), or is still  *)
(* being handled or about to be delivered again, or was given up after its *)
(* last retry.  It is never silently lost between handle_event, the two    *)
(* channels, the trees and the success callback.                           *)
AcceptedEventAccountedFor ==
  \A e \in accepted :
    Delivered(e) \/ Queued(e) \/ InFlight(e) \/ e \in abandoned

(* Every accepted event is eventually on chain and off-chain, or given up  *)
(* after the last attempt of a retry queue (retry_queue.rs:169-183).      *)
AcceptedEventSettles ==
  \A e \in Rids : (e \in accepted) ~> (Delivered(e) \/ e \in abandoned)

(* An event is stored off-chain only with chain metadata: handle_event     *)
(* submits off-chain only after the chain returned Ok (main.rs:219-222),   *)
(* and the chain queue hands an event to the off-chain side only from its  *)
(* success callback, so the tx_hash stored beside the data is real, across *)
(* crashes, redelivery and failed watermark reads and writes.              *)
OffChainEventIsOnChain ==
  offChain \subseteq onChain

(* spec.md 3: the stored watermark's event_record_id never decreases      *)
(* (handle_event reads it, submits, then overwrites it, main.rs:160-217). *)
WatermarkMonotonic ==
  [][watermark # None => watermark' # None /\ watermark'.rid >= watermark.rid]_watermark

=============================================================================
