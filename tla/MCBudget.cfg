SPECIFICATION BudgetSpec
CONSTANTS
  Readers = {r1, r2}
  Budgets <- MCBudgets
  Bodies <- MCBodies
  Serials = {0, 6}
  RejectedBase = 20
  Codes = {"READ_SCOPE_DENIED"}
  Padding = 16
  MaxWidth = 3
  MaxSerial = 12
  MaxAttempts = 8
INVARIANTS AnswerInvariant RetriesConverge
PROPERTY ToldFigureIsEnough
CHECK_DEADLOCK FALSE
