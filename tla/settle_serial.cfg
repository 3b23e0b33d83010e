SPECIFICATION FairSpec
CONSTANTS
  s1 = s1
  s2 = s2
  a1 = a1
  alice = alice
  bob = bob
  carol = carol
  cron = cron
  admin = admin
  NoWallet = NoWallet
  Word = 65536
  Sessions <- TwoSessions
  Attempts <- OneAttempt
  Wallets <- Everyone
  Inputs <- Mixed
  MinSettlement = 1
  BatchLimit = 5
  MaxTries = 2
  Runners <- CronOnly
  Cron = cron
  Funds = 11
  Faults = {"refused"}
  MaxFaults = 1
  MaxCalls = 3
CHECK_DEADLOCK FALSE
INVARIANTS
  PaidOnce
  BudgetIsCovered
PROPERTIES
  AffordableIsSettled

