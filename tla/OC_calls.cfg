SPECIFICATION FairSpec
CONSTANTS
  CP = {cp1, cp2}
  Kinds = {"push", "remote", "read"}
  PushRate = 1
  MaxSock = 2
  MaxCalls = 2
INVARIANT NewestRegistered
PROPERTIES OutcomeStands CallsSettle
CHECK_DEADLOCK FALSE
