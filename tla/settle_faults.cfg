SPECIFICATION Spec
CONSTANTS
  s1 = s1
  s2 = s2
  a1 = a1
  alice = alice
  bob = bob
  carol = carol
  cron = cron
  admin = admin
  NoWallet = NoWallet
  Word = 65536
  Sessions <- TwoSessions
  Attempts <- OneAttempt
  Wallets <- Everyone
  Inputs <- Mixed
  MinSettlement = 1
  BatchLimit = 5
  MaxTries = 2
  Runners <- CronAndAdmin
  Cron = cron
  Funds = 11
  Faults = {"resubmit", "refused", "confirm", "mark", "crash", "shutdown"}
  MaxFaults = 1
  MaxCalls = 2
CHECK_DEADLOCK FALSE
INVARIANTS
  TypeOK
  SettledWasPaid
  
PROPERTIES
  RowsAreWriteOnce

