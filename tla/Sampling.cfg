CONSTANTS
  d1 = d1
  d2 = d2
  user = user
  tier = tier
  u1 = u1
  u2 = u2
  u3 = u3
  gold = gold
  Decider = {d1, d2}
  Consumer = d1
  NoTrace = 0
  Key = {user, tier}
  Value = {u1, u2, u3, gold}
  Register <- Registers
  Budget <- KeyBudgets
  Action <- KeyActions
  Bucketed <- Buckets
  MaxTrackedKeys = 2
  Trace = {1, 2, 3}
  Service <- TraceServices
  HasError <- TraceErrors
  Duration <- TraceDurations
  Score <- TraceScores
  WindowSize = 2
  MaxTrackedServices = 1
  Attributes <- TraceAttributes
  Content <- Contents
  FirstContent <- First
  MaxTime = 2
  MaxEdits = 1
  MaxReadErrors = 1
SPECIFICATION FairSpec
INVARIANTS
  CertainlyKept
  AdmittedWithinRate
  StoredWithinBudget
PROPERTY ChainCatchesUp
CHECK_DEADLOCK FALSE
