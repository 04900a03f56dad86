\* One request, two stakers, payouts that may fail.
SPECIFICATION Spec
CONSTANTS
  s1 = s1
  s2 = s2
  req = req
  gov = gov
  arb = arb
  prov = prov
  yes = yes
  no = no
  flux = flux
  near = near
  Invalid = Invalid
  NoOutcome = NoOutcome
  NoProvider = NoProvider
  NoMultiplier = NoMultiplier
  NoWhitelist = NoWhitelist
  Stakers <- MCStakers
  Accounts <- MCAccounts
  Requesters <- MCRequesters
  Outcomes <- MCOutcomes
  Tokens <- MCTwoTokens
  Configs <- MCTwoRounds
  InitialWhitelists <- MCNoWhitelists
  Multipliers <- MCNoMultipliers
  Payloads <- MCMistyped
  Payments <- MCPayments
  StakeAmounts <- MCSmallStakes
  TransferResults <- MCTransfersMayFail
  MaxBalance = 12
  MaxTimestamp = 4
  MaxRequests = 1
  MaxConfigs = 1
  MinPeriod = 1
INVARIANTS
  TypeOK
  DisputeLadder
  StakesAddUp
  Solvent
  AnsweredOnce
PROPERTY ImplementsAdjudication
SYMMETRY MCStakersSymmetry
CHECK_DEADLOCK FALSE
