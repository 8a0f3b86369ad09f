\* Config::default as BlockchainClient::new uses it: three nodes, count 3,
\* minimum 1, self-verification allowed, no resubmit; one node is faulty.
CONSTANTS
  p1 = p1
  p2 = p2
  p3 = p3
  p4 = p4
  p5 = p5
  None = None
  Peers <- MC_DefaultPeers
  Faulty <- MC_FaultyOfThree
  VerificationClientCount <- MC_DefaultCount
  MinimumVerificationClientCount <- MC_DefaultMinimum
  AllowSelfVerification <- MC_DefaultSelf
  MaxResubmits <- MC_DefaultResubmits
  Strategy <- MC_DefaultStrategy
  StrategyN = 0
  MaxLookups = 2
SPECIFICATION Spec
INVARIANT
  AcceptedResultIsGenuine
