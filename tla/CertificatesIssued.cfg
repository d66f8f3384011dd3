SPECIFICATION FairSpec
CONSTANTS
  Machines <- MCMachines
  RankStep = 1
  ProbeTimeout = 1
  BackoffBase = 2
  BackoffCap = 4
  RetryInterval = 2
  RenewAt <- MCRenewSoon
  Sites <- MCDirectOrLost
  Tokens = {t1, t2, t3, t4}
  Prompt = TRUE
  MaxWrites = 6
  MaxFaults = 1
  MaxAge = 2
  MaxOperator = 1
INVARIANTS TypeOK 
PROPERTIES PublishedSettles MaterialKept Obtained
