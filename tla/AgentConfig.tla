---------------------------- MODULE AgentConfig -----------------------------
(***************************************************************************)
(* The agent's configuration (src/agent/src/config/mod.rs) and how the two *)
(* clients turn it into VerifyingClientOptions (blockchain/mod.rs,         *)
(* off_chain/mod.rs).  The model checks VerifyingClient under these        *)
(* values, so the options it checks are the ones the agent really runs     *)
(* with.                                                                   *)
(*                                                                         *)
(* Data that no model tells apart is left out: endpoints become the number *)
(* of nodes, the principal and the database path are dropped.  Durations  *)
(* are in minutes (retry intervals) or seconds (timeouts), which is what   *)
(* parse_duration and Duration::from_secs make of them.                    *)
(***************************************************************************)
EXTENDS Naturals, Sequences

\* fn three(): the serde default of both counts.
Three == 3

\* BlockchainVerificationOptions: the fields that carry a serde default,
\* with that default (#[serde(default = "three")] and #[serde(default)]).
SerdeVerificationDefaults ==
    [verification_client_count         |-> Three,
     minimum_verification_client_count |-> Three,
     allow_self_verification           |-> FALSE,
     max_resubmits                     |-> 0]

\* Deserialising a [*.verification] table: a field the file gives is taken,
\* a field it omits gets its serde default.  `file` is a function whose
\* domain is the fields present.
LoadVerification(file) ==
    [f \in DOMAIN SerdeVerificationDefaults |->
        IF f \in DOMAIN file THEN file[f] ELSE SerdeVerificationDefaults[f]]

\* The verification table both sections of Config::default write.
DefaultVerification ==
    [health_check_timeout_seconds      |-> 3,
     verification_client_count         |-> 3,
     minimum_verification_client_count |-> 1,
     allow_self_verification           |-> TRUE,
     max_resubmits                     |-> 0]

\* One section (blockchain or off_chain) of Config::default: three nodes,
\* at most 500 queued items, nine retry intervals, a one-minute check.
DefaultSection ==
    [nodes                |-> 3,
     verification         |-> DefaultVerification,
     max_retry_queue_size |-> 500,
     retry_intervals      |-> <<1, 5, 15, 30, 60, 180, 360, 1440, 4320>>,
     check_interval       |-> 1]

\* Config::default, written to disk on first start and then loaded.
DefaultConfig ==
    [channels             |-> {"Application", "Security", "System"},
     blockchain           |-> DefaultSection,
     off_chain            |-> DefaultSection,
     retrieve_past_events |-> FALSE]

\* VerifyingClientOptions as BlockchainClient::new builds them: the
\* section's verification table and FailureStrategy::Error, always.
BlockchainOptions(config) ==
    [verification_client_count         |-> config.blockchain.verification.verification_client_count,
     minimum_verification_client_count |-> config.blockchain.verification.minimum_verification_client_count,
     allow_self_verification           |-> config.blockchain.verification.allow_self_verification,
     max_resubmits                     |-> config.blockchain.verification.max_resubmits,
     failure_strategy                  |-> "Error"]

\* OffChainClient::new: the same from the off_chain section, also with
\* FailureStrategy::Error.
OffChainOptions(config) ==
    [verification_client_count         |-> config.off_chain.verification.verification_client_count,
     minimum_verification_client_count |-> config.off_chain.verification.minimum_verification_client_count,
     allow_self_verification           |-> config.off_chain.verification.allow_self_verification,
     max_resubmits                     |-> config.off_chain.verification.max_resubmits,
     failure_strategy                  |-> "Error"]

=============================================================================
