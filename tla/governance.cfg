\* Governance changes tokens, whitelist and pause between two requests.
SPECIFICATION Spec
CONSTANTS
  s1 = s1
  s2 = s2
  req = req
  gov = gov
  arb = arb
  prov = prov
  yes = yes
  no = no
  flux = flux
  near = near
  Invalid = Invalid
  NoOutcome = NoOutcome
  NoProvider = NoProvider
  NoMultiplier = NoMultiplier
  NoWhitelist = NoWhitelist
  Stakers <- MCOneStaker
  Accounts <- MCAccounts
  Requesters <- MCRequesters
  Outcomes <- MCOutcomes
  Tokens <- MCTwoTokens
  Configs <- MCSwappedTokens
  InitialWhitelists <- MCWhitelists
  Multipliers <- MCMultipliers
  Payloads <- MCCrowdShort
  Payments <- MCOnePayment
  StakeAmounts <- MCGovStakes
  TransferResults <- MCTransfersSucceed
  MaxBalance = 20
  MaxTimestamp = 2
  MaxRequests = 2
  MaxConfigs = 2
  MinPeriod = 1
INVARIANTS
  Solvent
  PagesCoverRequests
PROPERTY TermsFixed
CHECK_DEADLOCK FALSE
