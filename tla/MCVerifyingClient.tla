------------------------- MODULE MCVerifyingClient --------------------------
(***************************************************************************)
(* Model-checking instances of VerifyingClient over pooled peers.          *)
(***************************************************************************)
EXTENDS VerifyingClient

CONSTANTS p1, p2, p3, p4, p5

\* Five peers for the serde-default options (three verifiers required).
MC_Peers5 == {p1, p2, p3, p4, p5}
\* Three of five peers may answer anything: with the primary excluded, at
\* most two faulty peers are left for three verifier places.
MC_FaultyThree == {p3, p4, p5}
\* One faulty peer out of the three nodes of Config::default.
MC_FaultyOfThree == {p3}

Cfg == INSTANCE AgentConfig

\* Config::default, as written on first start: its three blockchain nodes
\* and the options BlockchainClient::new derives from it.
MC_DefaultPeers == {p1, p2, p3}
ASSUME Cardinality(MC_DefaultPeers) = Cfg!DefaultConfig.blockchain.nodes
MC_Default == Cfg!BlockchainOptions(Cfg!DefaultConfig)
MC_DefaultCount == MC_Default.verification_client_count
MC_DefaultMinimum == MC_Default.minimum_verification_client_count
MC_DefaultSelf == MC_Default.allow_self_verification
MC_DefaultResubmits == MC_Default.max_resubmits
MC_DefaultStrategy == MC_Default.failure_strategy

\* A configuration file whose verification table sets only max_resubmits:
\* the other fields take their serde defaults.
MC_Loaded == Cfg!LoadVerification([max_resubmits |-> 1])
MC_LoadedCount == MC_Loaded.verification_client_count
MC_LoadedMinimum == MC_Loaded.minimum_verification_client_count
MC_LoadedSelf == MC_Loaded.allow_self_verification
MC_LoadedResubmits == MC_Loaded.max_resubmits
=============================================================================
