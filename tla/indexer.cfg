\* An indexer follows one request and governance.
SPECIFICATION LogSpec
CONSTANTS
  s1 = s1
  s2 = s2
  gov = gov
  arb = arb
  flux = flux
  Invalid = Invalid
  NoOutcome = NoOutcome
  NoProvider = NoProvider
  NoMultiplier = NoMultiplier
  NoWhitelist = NoWhitelist
  Stakers <- MCStakers
  Accounts <- MCAccounts
  Requesters <- MCRequesters
  Outcomes <- MCOutcomes
  Tokens <- MCTokens
  Configs <- MCConfigs
  InitialWhitelists <- MCWhitelists
  Multipliers <- MCMultipliers
  Payloads <- MCPayloads
  Payments <- MCPayments
  StakeAmounts <- MCStakes
  TransferResults <- MCSucceed
  MaxBalance = 20
  MaxTimestamp = 1
  MaxRequests = 1
  MaxConfigs = 2
  Fees <- MCFees
  MaxFeePercentage = 5
INVARIANTS
  
  FlowsReconcile
CHECK_DEADLOCK FALSE
