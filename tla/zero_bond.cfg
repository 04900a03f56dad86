\* A multiplier below one rounds the smallest resolution bond down to zero.
SPECIFICATION Spec
CONSTANTS
  s1 = s1
  s2 = s2
  req = req
  gov = gov
  arb = arb
  prov = prov
  yes = yes
  no = no
  flux = flux
  near = near
  Invalid = Invalid
  NoOutcome = NoOutcome
  NoProvider = NoProvider
  NoMultiplier = NoMultiplier
  NoWhitelist = NoWhitelist
  Stakers <- MCOneStaker
  Accounts <- MCAccounts
  Requesters <- MCRequesters
  Outcomes <- MCOutcomes
  Tokens <- MCTwoTokens
  Configs <- MCThreeRounds
  InitialWhitelists <- MCNoWhitelists
  Multipliers <- MCHalf
  Payloads <- MCCrowd
  Payments <- MCOnePayment
  StakeAmounts <- MCLadderStakes
  TransferResults <- MCTransfersSucceed
  MaxBalance = 30
  MaxTimestamp = 5
  MaxRequests = 1
  MaxConfigs = 1
  MinPeriod = 1
INVARIANT ResolutionBondPositive
CHECK_DEADLOCK FALSE
