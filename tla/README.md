# TLA+ models of the wineventchain agent

These modules model the agent in `src/agent/src`. The agent collects Windows event-log records and submits a
scrubbed form of each one to a blockchain through a verifying multi-client. It then submits the full payload to
an off-chain store. Failures go to two sled-backed retry queues, which drain in background loops. Every
definition translates the code at the lines that `PROJECT.json` ("map") names.

## The system and how its parts interact

| Part | Source | State | Operations |
|---|---|---|---|
| Disk queue | `disk_queue.rs` | a sled subtree: id → JSON bytes; sled's id generator | `push` (with `pop_min` eviction at `max_size`), `remove`, `update` (an upsert), the iterator `next` (re-reads the tree each call, decode error without advancing), `encode_binary_key`/`decode_binary_key` |
| Retry queue | `retry_queue.rs` | the disk queue of `RetryItem`s; the loop task; spawned callbacks | `new`, `start_retry_loop` (sleep, scan, exhausted/not-due/due branches), `attempt_retry_and_update`, `push` |
| Verifying client | `common/verifying_client.rs` | the peer pool (immutable) and the options | `get`, `get_n`, `run` (resubmit loop), `run_once` (primary, task, verifier selection, fan-out, failure strategy) |
| Blockchain submitter | `blockchain/mod.rs`, `blockchain/retry_queue.rs` | none of its own | `submit` via the verifying client; retry handler; success callback that submits off-chain or enqueues off-chain; channel listener |
| Off-chain submitter | `off_chain/mod.rs`, `off_chain/retry_queue.rs` | none of its own | `submit`; retry handler; listener |
| Orchestrator | `bin/agent/main.rs` | the event channel; one task per event | `main` (start-up, event loop), `handle_event` (read watermark, `is_new`, chain submit or enqueue, write watermark, off-chain submit or enqueue) |
| Watermark store | `state/latest_record.rs` | `state_latest_record_<channel>` in sled | `get_latest_record`, `store_latest_record` |
| Collector | `collector/mod.rs` | the Win32 subscription | the callback that sends each record on the event channel; subscription from the oldest record when `retrieve_past_events` |
| Event model | `model/events/mod.rs`, `model/events/deserializer.rs`, `model/rpc/offchain/mod.rs` | none | XML → `EventWithData`, `EventData::hash`, the `ScrubbedEvent`'s `offchain_hash`, `StoredEvent::validate` |
| Configuration | `config/mod.rs` | read once at start-up | `Config::default`, the serde defaults of the verification table, the options both clients build from it |

The collector callback feeds an unbounded channel. The event loop spawns `handle_event` per event, so tasks of
different events interleave freely. A task whose chain submission fails sends the event on an in-memory channel to
the blockchain queue's listener. The listener pushes the event into the durable tree. When a chain retry succeeds,
the loop removes the key and spawns the success callback. The callback submits off-chain and, on failure, sends
to the off-chain queue's channel. Both retry loops share the `sled::Db` with the watermark store.

Hard behaviours in this code:
- tasks of different events race on the watermark;
- the retry loop awaits a handler while pushes and evictions change the tree;
- the iterator re-reads the tree on every call;
- a crash can hit between an in-memory send and a durable push, or between a removal and a spawned callback;
- submissions can fail after the write has landed;
- faulty peers and flaky health probes affect verification;
- restarts may change the backoff configuration.

## Modules

- **DiskQueue**: the tree as a function from id to stored value, and the id generator.
  - `Push` evicts the minimum key (`Evicted`) when the tree is at `MaxSize`. `Update` is an upsert, as in sled.
  - `HasNext`/`NextKey` are the iterator's find-first-key-after-`current`.
  - Values are envelopes, or the constant `Undecodable` for bytes that do not decode.
  - RetryQueue instantiates it; its operations are parts of RetryQueue's actions.
- **RetryQueue**: one retry queue with its listener.
  - Variables: the channel, the tree, the loop's phase (`idle`/`sleep`/`scan`/`retry`), the iterator's `cursor`, the in-flight envelope, and the pending callbacks.
  - One action per branch of the loop: `Wake`, `ScanEnd`, `ReadError`, `DropExhausted`, `SkipNotDue`, `StartRetry`, `RetrySucceeded`, `RetryFailed`. Other actions: `ListenerPush`, `RunCallback`, `Tick`, `Restart`.
  - Time is each envelope's age since `last_attempt`, capped at the largest backoff (larger ages compare alike), plus the loop's remaining sleep.
  - Sled writes of the loop may fail, at most `MaxSledErrors` times. `WriteFails`: the `remove` or `update` after the handler fails, `?` returns before the callback is spawned, and the tree keeps the envelope as it was. `DropExhaustedPanics`: the exhausted branch's `remove(..).unwrap()` panics and the loop task is `dead` until a restart.
  - `Restart` keeps the tree and id generator. It loses the channel, the in-flight handler and the callbacks, and reads a backoff list from `BackoffConfigs`.
- **VerifyingClient**: one caller of `run` at a time.
  - A health probe may answer either way, so `GetN` is any subset of at most `n` candidates (at most one when `n = 0`).
  - A peer in `Faulty` may answer anything. A faulty primary's result may be bogus: `altered` (the peers hold other content under that id) or `absent` (no honest peer holds it).
  - Each spawned verifier task is modelled call by call. `LookupResponses` is what a lookup on a peer can return: an honest peer finds a genuine result once it has propagated, reports an altered one as a mismatch, and never finds an absent one.
  - `OffChainVerifier` classifies a response as in `OffChainClient::submit`: 404 is transient, an equal record is `Ok(true)`, anything else is permanent. The chain's verifier returns `Ok(false)` on a mismatch, which `run_once` counts the same.
  - `Settle` is `backoff::future::retry`: a transient error is retried until `max_elapsed_time`, which allows `MaxLookups` lookups. `VerifyFails` is a transport error, which is permanent.
  - Actions: `Call`, `SelectPrimary`, `NoClientsAvailable`, `TaskOk`, `TaskError`, `SelectVerifiers`, `Verify`, `VerifyFails`, `Accept` and `Reject` (resubmit or return `VerificationFailed`).
- **Pipeline**: the whole submission path for one channel.
  - Actions: `Collect`, `Dispatch`, the `handle_event` steps per event (`ReadWatermark`/`ReadFails`, `ChainSubmit`, `StoreWatermark`/`StoreFails`, `OffChainSubmit`), and both retry queues as channel, tree (event → attempts) and handler (`BListen`, `BRetry`, `BCallback`, `OListen`, `ORetry`). Also `Crash`.
  - A submission is one step. Its `Err` may leave the write in place (`AfterErr`).
  - With `DbMayFail`, a listener's `queue.push` may fail (`BListenFails`, `OListenFails`): the error is logged and the event is gone.
  - The queues' scan order, timing and eviction are abstracted: RetryQueue checks those.
  - `Crash` keeps sled (watermark, trees) and the remote stores. It loses the channels, tasks and callbacks. With `RetrievePastEvents`, it redelivers every record written so far.
- **AbstractRetryQueue**: what a retry queue promises, as sets of items.
  - Variables: `submitted`, `transit`, `queued`, `delivered`, `attempting` (the item under attempt, at most one) and `tried` (queued items with a failed attempt).
  - Actions:
    - `Submit`, and `Admit` (possibly evicting the oldest queued item when full).
    - `Start`: an attempt begins only when none is under way.
    - `Deliver`, `Fail` and `GiveUp` act only on the item under attempt. `Fail` marks it tried and `GiveUp` removes it.
    - `Drop` removes an item that is not under attempt, and only a tried one: its attempts are exhausted.
    - `Abort` ends an attempt without an outcome (a failed queue write). `Lose` is a restart, which drops what is in transit and the attempt.
  - RetryQueue defines `Abstract == INSTANCE AbstractRetryQueue WITH ...`:
    - `transit` is the range of the channel;
    - `queued` is the items of the decodable entries of the tree;
    - `delivered` is the items with a spawned success callback;
    - `attempting` is the item of the awaited handler (`inflight`);
    - `tried` is the items whose envelope has `attempts > 0` (`TriedItems`).
  - `ImplementsAbstractQueue == Abstract!Spec` is checked as a PROPERTY. The mapping makes the scan's exhausted branch a `Drop`, so it must only remove envelopes that already failed once. The mutant `DropExhaustedEarly` (exhaustion tested off by one) removes an envelope that was never tried, and the refinement fails.
- **EventIntegrity**: one event's payload from XML to the off-chain store, and its validation against the chain.
  - Conversions:
    - `DataFromXml`, `EventDataFromXml` and `EventDataOf` translate the deserializer. A missing `EventData` element gives `<<>>`. `text()` is never empty.
    - `Hash` is `EventData::hash`: the bytes fed to sha256, with sha256 and hex taken as collision-free (`Digest`).
  - Actions:
    - `Collect`: a record whose `System` does not parse is dropped.
    - `ChainSubmit` writes the `offchain_hash`. `OffChainSubmit` stores the data.
    - `Tamper`: a faulty off-chain node substitutes data.
    - `Validate` and `ValidateFails` are `StoredEvent::validate` with `get_event`'s outcomes.
- **AgentConfig**: operators without state, used as the verifying client's options in its cfgs.
  - `DefaultConfig` translates `Config::default`.
  - `LoadVerification` fills omitted fields with their serde defaults.
  - `BlockchainOptions` and `OffChainOptions` are what `BlockchainClient::new` and `OffChainClient::new` build. They always use `FailureStrategy::Error`.
- **KeyEncoding**: `encode_binary_key`/`decode_binary_key` as recursive operators. sled's bytewise key order is `KeyLess`, the reference definition. The state is the id sled's generator hands out.
- **MCRetryQueue**, **MCVerifyingClient**, **MCPipeline**, **MCEventIntegrity**: model values and constant definitions for the cfgs. MCVerifyingClient takes its options and its number of nodes from AgentConfig.

## Runs

| Run | Result | What it shows |
|---|---|---|
| `retry_safety` | pass (≈99k states) | Within one scan the iterator hands out keys in ascending order. At the scan's end it has visited every envelope present at its start that is still there. At most one success callback is spawned per item. This holds under concurrent pushes with eviction, an undecodable legacy entry, a restart and changed backoff lists, and one failing sled write: a failed `remove` after success, a failed write-back, or the panic in the exhausted branch. |
| `retry_liveness` | pass | Every pushed envelope eventually leaves the queue. The queue refines AbstractRetryQueue: one handler is awaited at a time, only its item is delivered or given up on its outcome, the scan drops only items with a failed attempt, and a resolved item never comes back. |
| `retry_bounded` | **violation** | Eviction during an awaited handler plus `update`'s upsert gives `max_size + 1` entries (finding). |
| `retry_spin` | **violation** | An undecodable entry makes the scan spin forever (finding). |
| `vc_strict` | pass | Options: a configuration file that sets only `max_resubmits = 1`, so the serde defaults give three verifiers, minimum three and no self-verification. Peers: five, three of them faulty; two lookups per verifier. A call performs the task at most `max_resubmits + 1` times and never accepts a bogus result. Every call returns (liveness), because each verifier's backoff gives up after `max_elapsed_time`; an unbounded backoff hangs on a result no honest peer holds. |
| `vc_selfverify` | **violation** | With `Config::default` (three nodes, minimum one, self-verification) a faulty primary verifies itself (finding). |
| `pipeline_safety` | pass (≈109k states) | Three concurrent events, no crash, no sled error. Every accepted event stays accounted for (delivered on both sides, queued, in flight or given up), and eventually settles. |
| `pipeline_faults` | pass | With failing watermark reads and writes, failing listener pushes and a crash with redelivery, nothing reaches the off-chain store before the chain. |
| `pipeline_loss` | **violation** | An accepted event disappears. A failed watermark write returns before anything is queued. A crash loses an event held only in memory, and its redelivery is no longer new. A listener whose `push` fails drops its event (findings). |
| `pipeline_watermark` | **violation** | Two concurrent tasks move the watermark back (finding). |
| `key_order` | pass | For every id of a 7-bit generator, the key sorts after all earlier keys and decodes back to the id. |
| `hash_binding` | **violation** | `StoredEvent::validate` accepts substituted data. The hash concatenates names and values without separators and skips `None` (finding). |

Every property of a passing run has a mutant in `PROJECT.json`: a plausible bug in the mapped code that TLC catches
under that run's cfg.

## Bounds and why they suffice

- **Retry queue**: 2–3 items, `max_size` 1–2, backoff lists of length ≤ 2, one restart, and one failing sled write in the safety run.
  - This covers a full queue and an eviction while a handler is awaited.
  - It covers an envelope retried, failed, written back and retried again.
  - It covers a restart that shortens the list, which makes the exhausted branch fire.
- **Verifying client**: 3 peers (the nodes of `Config::default`) or 5, and two lookups per verifier (one transient retry before the deadline).
  - This covers short selections, self-verification, a faulty primary and faulty verifiers.
  - It also covers a resubmit with a new primary.
- **Pipeline**: 2–3 events, which is enough for two tasks to race on the watermark and for a third to be in a queue meanwhile. It uses one attempt per queue in the safety run and two in the fault run.
- **Event payloads**: strings of at most two copies of one letter, and at most two `Data` fields. This is the smallest bound at which a byte can move between a name and a value, or an empty field can be added.
- **Keys**: 7 bits, with width equal to the bit count as in `{:064b}` over `u64`. The order argument does not depend on the width, and every digit position carries at least once.

## Fairness

- The retry loop, the listener and spawned callbacks are tokio tasks that run whenever they are runnable, so they get weak fairness.
- Every awaited call returns eventually: health probes are bounded by `health_check_timeout`, and backoffs by `max_elapsed_time`. Time passes (`Tick`).
- In VerifyingClient the fairness is on the steps of `run` and on each verifier task's next lookup (`Verify(p)`), not on which answer comes back. Transport failures (`VerifyFails`) get no fairness. That `run` returns therefore follows from the lookup bound, which is the code's `max_elapsed_time`.
- Producers (`Send`, `Collect`), restarts and crashes are the environment and get no fairness.
- An `Err` can repeat forever. Only the bounded attempts make retries end, so no fairness on outcomes is assumed.
- Runs that end once the bounded events are handled say `CHECK_DEADLOCK FALSE`. There the agent waits for further OS events.

## Not modelled

- **Event fields other than the data**: `System`, `Guid`, time parsing, RPC payloads and signing. These are conversions of data that no property tells apart. `System` is modelled only as parsing or not.
- **`AcceptWithNSuccesses`**: both clients always pass `FailureStrategy::Error`, so no run uses it. Its branch is modelled in VerifyingClient but not checked.
- **The chain read in `validate`**: `get_event` uses one unverified peer. EventIntegrity takes that read as honest, so that its run isolates the hash encoding.
- **Configuration I/O**: reading and writing `config.toml`, the private key and the duration parser. The values enter through AgentConfig.
- **HTTP and Tendermint clients**: their outcomes are the `Ok`/`Err` of a submission. The off-chain lookup's response classes are in VerifyingClient. Health probes (`status`) are answered arbitrarily.
- **What a dead retry loop costs**: the panic at `retry_queue.rs:121` and the uncounted attempt after a failed `update` (`retry_queue.rs:176`) are modelled in `retry_safety`, which shows that safety survives them. Their liveness cost (no retries until a restart; more attempts than the backoff length while sled fails) would need violation runs of their own, and the project uses all twelve runs it may have. The liveness run assumes that sled does not fail in the loop.
- **Durability lag before a flush**: listed as a hazard.
- **Duplicate chain transactions**: at-least-once delivery is the stated goal. The model allows them but does not count them.

## Plan for further work

1. The refinement runs without eviction (`max_size` None). Every configuration that evicts can also re-insert an evicted entry (see `retry_bounded`), so there it does not hold.
2. Compose a RetryQueue instance into Pipeline for the chain queue, so that eviction during the hop between queues is checked end to end.
3. Multiple collected channels with one watermark each, to check that tasks of different channels do not interfere.
4. A violation run for each liveness cost of a sled error in the retry loop (the dead loop after the panic, uncounted attempts), should a run be retired.
