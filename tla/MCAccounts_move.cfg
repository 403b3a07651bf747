\* Finding: an edit that names another account.
SPECIFICATION AccountsSpec
CONSTANTS
  bank = bank  card = card
  None = None
  AccountIds <- MCAccountIds
  MovementIds = {m1, m2}
  PlanIds = {p1}
  RequestIds = {r1}
  CreditIds <- MCCreditIds
  CreditLimit <- MCCreditLimit
  Amounts = {1, 2}
  Openings = {0}
  Schedules <- MCSchedules
  Mutations = {"createAccount", "createExpense", "updateExpense", "moveExpense"}
  MaxMutations = 4
INVARIANT BalanceMatchesMovements
CHECK_DEADLOCK FALSE
