SPECIFICATION SuiteSpec
CONSTANTS
  r1 = r1  r2 = r2  c1 = c1  out = out  err = err  g1 = g1  g2 = g2  bad = bad
  Requests = {r1, r2}
  Ids = {c1}
  IdOf <- TwoAsk
  MaxWaiters = 1
  MaxChanges = 3
INVARIANTS NoLostWakeup BudgetExact
PROPERTIES DrainAnswers LinesSettle PoisonContained
CHECK_DEADLOCK FALSE
