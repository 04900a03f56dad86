\* Charges and refunds for the storage of one request.
SPECIFICATION StorageSpec
CONSTANTS
  s1 = s1
  s2 = s2
  gov = gov
  arb = arb
  yes = yes
  flux = flux
  Invalid = Invalid
  NoOutcome = NoOutcome
  NoProvider = NoProvider
  NoMultiplier = NoMultiplier
  NoWhitelist = NoWhitelist
  Stakers <- MCStakers
  Accounts <- MCAccounts
  Requesters <- MCRequesters
  Outcomes <- MCOutcomes
  Tokens <- MCTokens
  Configs <- MCConfigs
  InitialWhitelists <- MCNoWhitelists
  Multipliers <- MCNoMultipliers
  Payloads <- MCPayloads
  Payments <- MCPayments
  StakeAmounts <- MCStakes
  TransferResults <- MCSucceed
  Bytes <- MCBytes
  Deposits = {12}
  Withdrawals = {5}
  StorageMinimum = 12
  MaxDeposited = 24
  MaxBalance = 20
  MaxTimestamp = 1
  MaxRequests = 1
  MaxConfigs = 1
INVARIANTS
  StorageTypeOK
  KeysMatchStakes
  StorageBacked
  NoStorageStranded
CHECK_DEADLOCK FALSE
