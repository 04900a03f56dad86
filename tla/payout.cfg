\* Two stakers share pots that do not divide evenly, in one token; every payout succeeds.
SPECIFICATION Spec
CONSTANTS
  s1 = s1
  s2 = s2
  req = req
  gov = gov
  arb = arb
  prov = prov
  yes = yes
  no = no
  flux = flux
  near = near
  Invalid = Invalid
  NoOutcome = NoOutcome
  NoProvider = NoProvider
  NoMultiplier = NoMultiplier
  NoWhitelist = NoWhitelist
  Stakers <- MCStakers
  Accounts <- MCAccounts
  Requesters <- MCRequesters
  Outcomes <- MCOutcomes
  Tokens <- MCOneToken
  Configs <- MCOneTokenConfig
  InitialWhitelists <- MCNoWhitelists
  Multipliers <- MCNoMultipliers
  Payloads <- MCMistypedOrProvided
  Payments <- MCFees
  StakeAmounts <- MCSmallStakes
  TransferResults <- MCTransfersSucceed
  MaxBalance = 20
  MaxTimestamp = 3
  MaxRequests = 1
  MaxConfigs = 1
  MinPeriod = 1
INVARIANTS
  Solvent
  NothingElseStranded
SYMMETRY MCStakersSymmetry
CHECK_DEADLOCK FALSE
