\* Transfers to the oracle cross its payouts; accounts leave and join the token.
SPECIFICATION TokensSpec
CONSTANTS
  s1 = s1
  s2 = s2
  gov = gov
  arb = arb
  yes = yes
  flux = flux
  OracleAccount = OracleAccount
  Failed = Failed
  Idle = Idle
  Invalid = Invalid
  NoOutcome = NoOutcome
  NoProvider = NoProvider
  NoMultiplier = NoMultiplier
  NoWhitelist = NoWhitelist
  Stakers <- MCStakers
  Accounts <- MCAccounts
  Requesters <- MCStakers
  Outcomes <- MCOutcomes
  Tokens <- MCTokens
  Configs <- MCConfigs
  InitialWhitelists <- MCNoWhitelists
  Multipliers <- MCNoMultipliers
  Payloads <- MCPayloads
  Payments <- MCStakes
  StakeAmounts <- MCStakes
  TransferResults <- MCSucceed
  InitialBalances <- MCBalances
  Slots = {1, 2}
  MaxBalance = 20
  MaxTimestamp = 1
  MaxRequests = 1
  MaxConfigs = 1
INVARIANTS
  TokensTypeOK
  EverythingCovered
PROPERTY RefundedInFull
CHECK_DEADLOCK FALSE
