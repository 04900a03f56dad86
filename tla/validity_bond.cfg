\* The validity bond of a request judged invalid is paid to nobody.
SPECIFICATION Spec
CONSTANTS
  s1 = s1
  s2 = s2
  req = req
  gov = gov
  arb = arb
  prov = prov
  yes = yes
  no = no
  flux = flux
  near = near
  Invalid = Invalid
  NoOutcome = NoOutcome
  NoProvider = NoProvider
  NoMultiplier = NoMultiplier
  NoWhitelist = NoWhitelist
  Stakers <- MCOneStaker
  Accounts <- MCAccounts
  Requesters <- MCRequesters
  Outcomes <- MCOutcomes
  Tokens <- MCTwoTokens
  Configs <- MCTwoRounds
  InitialWhitelists <- MCNoWhitelists
  Multipliers <- MCNoMultipliers
  Payloads <- MCCrowd
  Payments <- MCOnePayment
  StakeAmounts <- MCLadderStakes
  TransferResults <- MCTransfersSucceed
  MaxBalance = 30
  MaxTimestamp = 3
  MaxRequests = 1
  MaxConfigs = 1
  MinPeriod = 1
INVARIANT ValidityBondPaidOut
CHECK_DEADLOCK FALSE
